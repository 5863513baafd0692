----------------------- MODULE RouteResolution_proofs -----------------------
(***************************************************************************)
(* Proofs about modules PriceBook and RouteResolution, for every price     *)
(* book, route table, registry of providers and request: at most one price *)
(* is active; ranksBefore is a strict total order, so that the scan of     *)
(* Resolve and the sort of ResolveChain agree; and the created job carries *)
(* exactly the routes it may walk to at the price it reserved.  Lists of   *)
(* rows are reasoned about through                                         *)
(* the relation they are sorted by; what is an induction on their length   *)
(* is a least counterexample here.                                         *)
(***************************************************************************)
EXTENDS RouteResolution, FiniteSetTheorems, SequenceTheorems, WellFoundedInduction, TLAPS

-----------------------------------------------------------------------------
(* The price book.  That one row is active is not inductive: the commit of *)
(* a creation rests on what its INSERT found in the unique index, so the   *)
(* invariant says what an open transaction that inserted its row still     *)
(* knows: it is the only one, and it ends every row that is active now.    *)

BookInv ==
  /\ BookTypeOK
  /\ \A r, s \in ActiveRows : r = s
  /\ \A c, d \in Inserted : c = d
  /\ \A c \in Inserted : ActiveRows \subseteq stmt[c].ended

\* Before the first request the book is empty or holds the seeded row.
LEMMA BookStarts == BookInit => BookInv
<1> SUFFICES ASSUME BookInit PROVE BookInv
  OBVIOUS
<1>1. /\ DOMAIN book \subseteq {Seeded}
      /\ \A r \in DOMAIN book : book[r] \in [active : BOOLEAN, to : {"null", "stamped"}]
  <2>1. CASE book = <<>>
    BY <2>1
  <2>2. CASE book = [r \in {Seeded} |-> [active |-> TRUE, to |-> "null"]]
    BY <2>2
  <2> QED
    BY <2>1, <2>2 DEF BookInit, Books
<1>2. Inserted = {} /\ \A c \in Creates : LockedBy(c) = {}
  BY DEF BookInit, Inserted, LockedBy
<1>3. stmt \in [Creates -> [found : SUBSET RowIds, ended : SUBSET RowIds]]
  BY DEF BookInit, NoStatements
<1>4. tx \in [Creates \cup Updates -> {"unasked", "start", "supersede", "insert", "commit", "done", "failed"}]
  BY DEF BookInit
<1> QED
  BY <1>1, <1>2, <1>3, <1>4 DEF BookInv, BookTypeOK, ActiveRows, RowIds

\* A step of one request that leaves the book and the other requests alone
\* keeps the types when the rows it locks are free.
LEMMA BookTypesKept ==
  ASSUME BookTypeOK, NEW c \in Creates, NEW f \in SUBSET RowIds, NEW e \in SUBSET RowIds,
         NEW s \in {"supersede", "insert", "commit", "done", "failed"},
         stmt' = [stmt EXCEPT ![c] = [found |-> f, ended |-> e]],
         Proceed(c, s), UNCHANGED book,
         s \in {"insert", "commit"} => \A d \in Creates \ {c} : e \cap LockedBy(d) = {}
  PROVE  BookTypeOK'
<1>1. tx' \in [Creates \cup Updates -> {"unasked", "start", "supersede", "insert", "commit", "done", "failed"}]
  BY DEF BookTypeOK, Proceed
<1>2. stmt' \in [Creates -> [found : SUBSET RowIds, ended : SUBSET RowIds]]
  BY DEF BookTypeOK
<1>3. \A d \in Creates \ {c} : LockedBy(d)' = LockedBy(d)
  BY DEF BookTypeOK, LockedBy, Proceed
<1>4. LockedBy(c)' = IF s \in {"insert", "commit"} THEN e ELSE {}
  BY DEF BookTypeOK, LockedBy, Proceed
<1>5. ASSUME NEW p \in Creates, NEW d \in Creates, p # d
      PROVE  LockedBy(p)' \cap LockedBy(d)' = {}
  <2>1. CASE p # c /\ d # c
    BY <1>3, <1>5, <2>1 DEF BookTypeOK
  <2>2. CASE p = c
    BY <1>3, <1>4, <1>5, <2>2
  <2>3. CASE d = c
    BY <1>3, <1>4, <1>5, <2>3
  <2> QED
    BY <2>1, <2>2, <2>3
<1> QED
  BY <1>1, <1>2, <1>5 DEF BookTypeOK

\* Every step of the price book preserves the invariant.
LEMMA BookStep == BookInv /\ [BookNext]_bookVars => BookInv'
<1> SUFFICES ASSUME BookInv, [BookNext]_bookVars PROVE BookInv'
  OBVIOUS
<1> USE DEF BookInv
<1>t. BookTypeOK
  OBVIOUS
<1>s. ASSUME NEW c \in Creates PROVE stmt[c] = [found |-> stmt[c].found, ended |-> stmt[c].ended]
                                     /\ stmt[c].found \in SUBSET RowIds /\ stmt[c].ended \in SUBSET RowIds
  BY <1>t DEF BookTypeOK
<1>1. ASSUME NEW c \in Creates, CreatePrice(c) PROVE BookInv'
  <2>1. stmt' = [stmt EXCEPT ![c] = [found |-> ActiveRows, ended |-> stmt[c].ended]]
    <3>1. stmt' = [stmt EXCEPT ![c].found = ActiveRows]
      BY <1>1 DEF CreatePrice
    <3>2. [stmt[c] EXCEPT !.found = ActiveRows] = [found |-> ActiveRows, ended |-> stmt[c].ended]
      BY <1>t DEF BookTypeOK
    <3> QED
      BY <3>1, <3>2, Zenon
  <2>2. BookTypeOK'
    <3>1. ActiveRows \in SUBSET RowIds
      BY <1>t DEF ActiveRows, BookTypeOK
    <3> QED
      BY <1>1, <1>s, <1>t, <2>1, <3>1, BookTypesKept DEF CreatePrice
  <2>3. Inserted' = Inserted /\ ActiveRows' = ActiveRows
    BY <1>1, <1>t DEF CreatePrice, Inserted, ActiveRows, Proceed, BookTypeOK
  <2>4. \A d \in Inserted : stmt'[d].ended = stmt[d].ended
    BY <1>t, <2>1 DEF Inserted, BookTypeOK
  <2> QED
    BY <2>2, <2>3, <2>4
<1>2. ASSUME NEW c \in Creates, SupersedePreviousActivePrice(c) PROVE BookInv'
  <2>1. stmt' = [stmt EXCEPT ![c] = [found |-> stmt[c].found, ended |-> stmt[c].found \cap ActiveRows]]
    <3>1. stmt' = [stmt EXCEPT ![c].ended = stmt[c].found \cap ActiveRows]
      BY <1>2 DEF SupersedePreviousActivePrice
    <3>2. \A e : [stmt[c] EXCEPT !.ended = e] = [found |-> stmt[c].found, ended |-> e]
      BY <1>t DEF BookTypeOK
    <3> QED
      BY <3>1, <3>2, Zenon
  <2>2. BookTypeOK'
    <3>1. \A d \in Creates \ {c} : (stmt[c].found \cap ActiveRows) \cap LockedBy(d) = {}
      BY <1>2 DEF SupersedePreviousActivePrice, Locked
    <3> QED
      BY <1>2, <1>s, <1>t, <2>1, <3>1, BookTypesKept DEF SupersedePreviousActivePrice
  <2>3. Inserted' = Inserted /\ ActiveRows' = ActiveRows /\ c \notin Inserted
    BY <1>2, <1>t DEF SupersedePreviousActivePrice, Inserted, ActiveRows, Proceed, BookTypeOK
  <2>4. \A d \in Inserted : stmt'[d].ended = stmt[d].ended
    BY <1>t, <2>1, <2>3 DEF Inserted, BookTypeOK
  <2> QED
    BY <2>2, <2>3, <2>4
<1>3. ASSUME NEW c \in Creates, InsertProviderModelPrice(c) PROVE BookInv'
  <2>1. PICK s \in {"commit", "failed"} :
           Proceed(c, s) /\ (s = "commit" => ActiveRows \subseteq stmt[c].ended)
    BY <1>3 DEF InsertProviderModelPrice
  <2>2. stmt' = [stmt EXCEPT ![c] = [found |-> stmt[c].found, ended |-> stmt[c].ended]]
    BY <1>3, <1>s, <1>t DEF InsertProviderModelPrice, BookTypeOK
  <2>3. tx[c] = "insert" /\ UNCHANGED <<book, stmt>> /\ Inserted = {}
    BY <1>3 DEF InsertProviderModelPrice
  <2>4. BookTypeOK'
    <3>1. \A d \in Creates \ {c} : stmt[c].ended \cap LockedBy(d) = {}
      BY <1>t, <2>3 DEF BookTypeOK, LockedBy
    <3> QED
      BY <1>s, <1>t, <2>1, <2>2, <2>3, <3>1, BookTypesKept
  <2>5. Inserted' \subseteq {c} /\ ActiveRows' = ActiveRows /\ stmt' = stmt
    BY <1>t, <2>1, <2>3 DEF Inserted, ActiveRows, Proceed, BookTypeOK
  <2>6. c \in Inserted' => s = "commit"
    BY <1>t, <2>1 DEF Inserted, Proceed, BookTypeOK
  <2> QED
    BY <2>1, <2>4, <2>5, <2>6
<1>4. ASSUME NEW c \in Creates, CommitPrice(c) PROVE BookInv'
  <2>1. c \in Inserted /\ stmt' = stmt
    BY <1>4 DEF CommitPrice, Inserted
  <2>2. PICK s \in {"done", "failed"} : Proceed(c, s)
    BY <1>4 DEF CommitPrice
  <2>3. Inserted' = {}
    BY <1>t, <2>1, <2>2 DEF Inserted, Proceed, BookTypeOK
  <2>4. /\ DOMAIN book' \subseteq RowIds
        /\ \A r \in DOMAIN book' : book'[r] \in [active : BOOLEAN, to : {"null", "stamped"}]
        /\ \A p, q \in ActiveRows' : p = q
    <3>1. CASE UNCHANGED book
      BY <1>t, <3>1 DEF BookTypeOK, ActiveRows
    <3>2. CASE book' = [r \in DOMAIN book \cup {c} |->
                          IF r = c THEN [active |-> TRUE, to |-> "null"]
                          ELSE IF r \in stmt[c].ended THEN [active |-> FALSE, to |-> "stamped"]
                          ELSE book[r]]
      <4>1. \A r \in DOMAIN book' : book'[r] \in [active : BOOLEAN, to : {"null", "stamped"}]
        BY <1>t, <3>2 DEF BookTypeOK
      <4>2. ActiveRows' \subseteq {c}
        BY <2>1, <3>2 DEF ActiveRows
      <4> QED
        BY <1>t, <3>2, <4>1, <4>2 DEF BookTypeOK, RowIds
    <3> QED
      BY <1>4, <3>1, <3>2 DEF CommitPrice
  <2>5. tx' \in [Creates \cup Updates -> {"unasked", "start", "supersede", "insert", "commit", "done", "failed"}]
    BY <1>t, <2>2 DEF BookTypeOK, Proceed
  <2>6. \A d \in Creates : LockedBy(d)' \subseteq LockedBy(d)
    BY <1>t, <2>1, <2>2 DEF BookTypeOK, LockedBy, Proceed
  <2> QED
    BY <1>t, <2>1, <2>3, <2>4, <2>5, <2>6 DEF BookTypeOK
<1>5. ASSUME NEW u \in Updates, UpdatePrice(u) PROVE BookInv'
  <2>1. PICK s \in {"done", "failed"} : Proceed(u, s)
    BY <1>5 DEF UpdatePrice
  <2>2. stmt' = stmt /\ tx[u] = "start"
    BY <1>5 DEF UpdatePrice
  <2>3. tx' \in [Creates \cup Updates -> {"unasked", "start", "supersede", "insert", "commit", "done", "failed"}]
    BY <1>t, <2>1 DEF BookTypeOK, Proceed
  <2>4. (\A d \in Creates : LockedBy(d)' = LockedBy(d)) /\ Inserted' = Inserted
    BY <1>t, <2>1, <2>2 DEF BookTypeOK, LockedBy, Proceed, Inserted
  <2>5. /\ DOMAIN book' \subseteq RowIds
        /\ \A r \in DOMAIN book' : book'[r] \in [active : BOOLEAN, to : {"null", "stamped"}]
        /\ \A p, q \in ActiveRows' : p = q
        /\ Inserted # {} => ActiveRows' \subseteq ActiveRows
    <3>1. CASE UNCHANGED book
      BY <1>t, <3>1 DEF BookTypeOK, ActiveRows
    <3>2. CASE ~UNCHANGED book
      <4>1. PICK r \in DOMAIN book \ Locked, active \in BOOLEAN, set \in {"active", "to", "both"},
                 to \in {"null", "stamped"} :
               LET row == UpdateProviderModelPrice(book[r], set, active, to) IN
               /\ row.active => ActiveRows \subseteq {r} /\ Inserted = {}
               /\ book' = [book EXCEPT ![r] = row]
        BY <1>5, <3>2 DEF UpdatePrice
      <4> DEFINE row == UpdateProviderModelPrice(book[r], set, active, to)
      <4>2. row \in [active : BOOLEAN, to : {"null", "stamped"}]
        BY <1>t DEF BookTypeOK, UpdateProviderModelPrice
      <4>3. row.active => ActiveRows \subseteq {r} /\ Inserted = {}
        BY <4>1
      <4>4. book' = [book EXCEPT ![r] = row]
        BY <4>1
      <4> HIDE DEF row
      <4>5. /\ DOMAIN book' = DOMAIN book
            /\ \A k \in DOMAIN book' : book'[k] \in [active : BOOLEAN, to : {"null", "stamped"}]
        BY <1>t, <4>2, <4>4 DEF BookTypeOK
      <4>6. ActiveRows' \subseteq ActiveRows \cup {r} /\ (~row.active => ActiveRows' \subseteq ActiveRows)
        BY <4>4 DEF ActiveRows
      <4> QED
        BY <1>t, <4>3, <4>5, <4>6 DEF BookTypeOK
    <3> QED
      BY <3>1, <3>2
  <2> QED
    BY <1>t, <2>2, <2>3, <2>4, <2>5 DEF BookTypeOK, Inserted
<1>6. CASE UNCHANGED bookVars
  BY <1>6 DEF bookVars, BookTypeOK, ActiveRows, Inserted, LockedBy
<1> QED
  BY <1>1, <1>2, <1>3, <1>4, <1>5, <1>6 DEF BookNext, Create

\* Two active rows would have to be equal.
LEMMA OneRowIsActive == BookInv => AtMostOneActive
<1> SUFFICES ASSUME BookInv PROVE Cardinality(ActiveRows) <= 1
  BY DEF AtMostOneActive
<1>1. CASE ActiveRows = {}
  BY <1>1, FS_EmptySet
<1>2. ASSUME NEW r \in ActiveRows PROVE Cardinality(ActiveRows) <= 1
  <2>1. ActiveRows = {r}
    BY DEF BookInv
  <2>2. Cardinality({r}) = 1
    BY FS_Singleton, Zenon
  <2> QED
    BY <2>1, <2>2
<1> QED
  BY <1>1, <1>2

\* Of the price book alone: however CreatePrice and UpdatePrice interleave,
\* at most one row is active (admincost.go CreatePrice, UpdatePrice).
THEOREM BookHasOnePrice == BookSpec => []AtMostOneActive
<1>1. BookSpec => []BookInv
  BY BookStarts, BookStep, PTL DEF BookSpec
<1> QED
  BY <1>1, OneRowIsActive, PTL

\* The composition makes no step on the book that the book does not make.
LEMMA NextOfBook == [Next]_vars => [BookNext]_bookVars
BY DEF Next, vars, Resolve, ResolveChain, LookupPrimary, LookupCandidate, Reserve, PricesChange

\* While requests are resolved the book behaves as its own specification says.
THEOREM RoutesImplementBook == Spec => BookSpec
<1>1. Init => BookInit
  BY DEF Init
<1> QED
  BY <1>1, NextOfBook, PTL DEF Spec, BookSpec

\* Routing reads a slot with at most one active price, at every moment of
\* every creation and edit.
THEOREM OneActivePrice == Spec => []AtMostOneActive
BY RoutesImplementBook, BookHasOnePrice, PTL

-----------------------------------------------------------------------------
(* Sorting and scanning a finite set by a strict total order, given as a   *)
(* set of pairs. *)

Orders(R, S) ==
  /\ \A x \in S : <<x, x>> \notin R
  /\ \A x, y, z \in S : <<x, y>> \in R /\ <<y, z>> \in R => <<x, z>> \in R
  /\ \A x, y \in S : x # y => <<x, y>> \in R \/ <<y, x>> \in R

\* m comes after, or before, all others of S.
LastIn(R, S, m) == m \in S /\ \A x \in S : x # m => <<x, m>> \in R
FirstIn(R, S, m) == m \in S /\ \A x \in S : x # m => <<m, x>> \in R

\* s lists S in the order R.
Lists(R, S, s) ==
  /\ s \in SetToSeqs(S)
  /\ \A i, j \in 1..Cardinality(S) : i < j => <<s[i], s[j]>> \in R

\* Induction on finite sets, as a minimal counterexample: a nonempty family of
\* subsets has a member none of whose strict subsets belongs to it.
LEMMA MinimalSubset ==
  ASSUME NEW S, IsFiniteSet(S), NEW T, T \subseteq SUBSET S, T # {}
  PROVE  \E x \in T : \A y \in T : y \subseteq x => y = x
<1>1. FiniteSubsetsOf(S) = SUBSET S
  BY FS_FiniteSubsetsOfFinite
<1>2. IsWellFoundedOn(StrictSubsetOrdering(S), SUBSET S)
  BY <1>1, FS_StrictSubsetOrderingWellFounded
<1>3. PICK x \in T : \A y \in T : ~ (<<y, x>> \in StrictSubsetOrdering(S))
  BY <1>2, WFMin
<1> QED
  BY <1>3 DEF StrictSubsetOrdering

\* A nonempty set of naturals has a least member.
LEMMA LeastExists ==
  ASSUME NEW S, S \subseteq Nat, S # {}
  PROVE  \E x \in S : \A y \in S : x <= y
<1>1. PICK x \in S : \A y \in S : ~(<<y, x>> \in OpToRel(<, Nat))
  BY NatLessThanWellFounded, WFMin
<1>2. \A y \in S : ~(y < x)
  BY <1>1 DEF OpToRel
<1> QED
  BY <1>2

\* An order of a set orders its subsets.
LEMMA OrdersSubset ==
  ASSUME NEW S, NEW R, Orders(R, S), NEW T \in SUBSET S
  PROVE  Orders(R, T)
BY DEF Orders

\* A finite, nonempty set has a last member.
LEMMA LastExists ==
  ASSUME NEW S, NEW R, IsFiniteSet(S), Orders(R, S), S # {}
  PROVE  \E m : LastIn(R, S, m)
<1> DEFINE T == {s \in SUBSET S : s # {} /\ ~ \E m : LastIn(R, s, m)}
<1>1. SUFFICES ASSUME T # {} PROVE FALSE
  OBVIOUS
<1>2. PICK x \in T : \A y \in T : y \subseteq x => y = x
  <2>1. T \subseteq SUBSET S OBVIOUS
  <2> HIDE DEF T
  <2> QED
    BY <1>1, <2>1, MinimalSubset
<1> HIDE DEF T
<1>3. /\ x \in SUBSET S /\ x # {} /\ ~ \E m : LastIn(R, x, m)
      /\ \A e \in x : x \ {e} \in SUBSET S /\ x \ {e} \notin T
  BY <1>2 DEF T
<1>4. PICK e \in x : TRUE
  BY <1>3
<1>5. CASE x \ {e} = {}
  BY <1>3, <1>4, <1>5 DEF LastIn
<1>6. CASE x \ {e} # {}
  <2>1. PICK m : LastIn(R, x \ {e}, m)
    BY <1>3, <1>4, <1>6 DEF T
  <2>2. m \in x /\ m # e /\ e \in S /\ m \in S
    BY <1>3, <1>4, <2>1 DEF LastIn
  <2>3. CASE <<e, m>> \in R
    BY <1>3, <2>1, <2>2, <2>3 DEF LastIn
  <2>4. CASE <<m, e>> \in R
    <3>1. \A y \in x : y # e => <<y, e>> \in R
      BY <1>3, <2>1, <2>2, <2>4 DEF LastIn, Orders
    <3> QED
      BY <1>3, <1>4, <3>1 DEF LastIn
  <2> QED
    BY <2>2, <2>3, <2>4 DEF Orders
<1> QED
  BY <1>5, <1>6

\* A list of a set is extended by an element that comes last.
LEMMA ListsOneMore ==
  ASSUME NEW S, NEW R, IsFiniteSet(S), NEW m, LastIn(R, S, m), NEW s, Lists(R, S \ {m}, s)
  PROVE  \E t : Lists(R, S, t)
<1> DEFINE n == Cardinality(S)
           t == [i \in 1..n |-> IF i = n THEN m ELSE s[i]]
<1>1. m \in S
  BY DEF LastIn
<1>2. n \in Nat /\ n > 0 /\ Cardinality(S \ {m}) = n - 1
  <2>1. n \in Nat
    BY FS_CardinalityType
  <2>2. n # 0
    BY <1>1, FS_EmptySet
  <2>3. Cardinality(S \ {m}) = n - 1
    BY <1>1, FS_RemoveElement
  <2> QED
    BY <2>1, <2>2, <2>3
<1> HIDE DEF n
<1>3. /\ s \in [1..(n - 1) -> S \ {m}]
      /\ \A i, j \in 1..(n - 1) : i # j => s[i] # s[j]
      /\ \A i, j \in 1..(n - 1) : i < j => <<s[i], s[j]>> \in R
  BY <1>2 DEF Lists, SetToSeqs
<1>4. \A i \in 1..n : i # n => i \in 1..(n - 1)
  BY <1>2
<1>5. t \in [1..n -> S]
  BY <1>1, <1>3, <1>4
<1>6. ASSUME NEW i \in 1..n, NEW j \in 1..n, i # j PROVE t[i] # t[j]
  BY <1>3, <1>4, <1>6
<1>7. ASSUME NEW i \in 1..n, NEW j \in 1..n, i < j PROVE <<t[i], t[j]>> \in R
  <2>1. i # n /\ i \in 1..(n - 1) /\ t[i] = s[i] /\ s[i] \in S /\ s[i] # m
    BY <1>2, <1>3, <1>7
  <2>2. CASE j = n
    BY <2>1, <2>2 DEF LastIn
  <2>3. CASE j # n
    BY <1>3, <1>4, <1>7, <2>1, <2>3
  <2> QED
    BY <2>2, <2>3
<1> HIDE DEF t
<1>8. t \in SetToSeqs(S)
  BY <1>5, <1>6 DEF SetToSeqs, n
<1> QED
  BY <1>7, <1>8 DEF Lists, n

\* Every finite set can be listed in a strict total order.
LEMMA ListExists ==
  ASSUME NEW S, NEW R, IsFiniteSet(S), Orders(R, S)
  PROVE  \E s : Lists(R, S, s)
<1> DEFINE T == {x \in SUBSET S : ~ \E s : Lists(R, x, s)}
<1>1. SUFFICES ASSUME T # {} PROVE FALSE
  OBVIOUS
<1>2. PICK x \in T : \A y \in T : y \subseteq x => y = x
  <2>1. T \subseteq SUBSET S OBVIOUS
  <2> HIDE DEF T
  <2> QED
    BY <1>1, <2>1, MinimalSubset
<1> HIDE DEF T
<1>3. /\ x \in SUBSET S /\ ~ \E s : Lists(R, x, s)
      /\ \A e \in x : x \ {e} \in SUBSET S /\ x \ {e} \notin T
  BY <1>2 DEF T
<1>4. IsFiniteSet(x) /\ Orders(R, x)
  BY <1>3, FS_Subset, OrdersSubset
<1>5. CASE x = {}
  <2>1. Cardinality(x) = 0
    BY <1>5, FS_EmptySet
  <2>2. Lists(R, x, <<>>)
    BY <1>5, <2>1 DEF Lists, SetToSeqs
  <2> QED
    BY <1>3, <2>2
<1>6. CASE x # {}
  <2>1. PICK m : LastIn(R, x, m)
    BY <1>4, <1>6, LastExists
  <2>2. \E s : Lists(R, x \ {m}, s)
    BY <1>3, <2>1 DEF T, LastIn
  <2>3. PICK s : Lists(R, x \ {m}, s)
    BY <2>2
  <2> QED
    BY <1>3, <1>4, <2>1, <2>3, ListsOneMore
<1> QED
  BY <1>5, <1>6

\* SortedBy returns such a list; it holds each element once, the first first.
LEMMA SortedByLists ==
  ASSUME NEW S, NEW R, IsFiniteSet(S), Orders(R, S), NEW s, s = SortedBy(S, R)
  PROVE  /\ Cardinality(S) \in Nat
         /\ s \in [1..Cardinality(S) -> S]
         /\ \A i, j \in 1..Cardinality(S) : i # j => s[i] # s[j]
         /\ \A x \in S : \E i \in 1..Cardinality(S) : s[i] = x
         /\ S # {} => Cardinality(S) > 0 /\ FirstIn(R, S, s[1])
<1> DEFINE n == Cardinality(S)
<1>1. n \in Nat
  BY FS_CardinalityType
<1>2. Lists(R, S, s)
  <2>1. \E t \in SetToSeqs(S) : \A i, j \in 1..Cardinality(S) : i < j => <<t[i], t[j]>> \in R
    BY ListExists DEF Lists
  <2> QED
    BY <2>1 DEF SortedBy, Lists
<1>3. s \in [1..n -> S] /\ (\A i, j \in 1..n : i # j => s[i] # s[j])
  BY <1>2 DEF Lists, SetToSeqs
<1>4. s \in Surjection(1..n, S)
  <2>1. s \in Injection(1..n, S)
    BY <1>3 DEF Injection, IsInjective
  <2>2. Cardinality(1..n) = n
    BY <1>1, FS_Interval
  <2> QED
    BY <2>1, <2>2, FS_Injection
<1>5. \A x \in S : \E i \in 1..n : s[i] = x
  BY <1>4 DEF Surjection
<1>6. ASSUME S # {} PROVE n > 0 /\ FirstIn(R, S, s[1])
  <2>1. n # 0
    BY <1>6, FS_EmptySet
  <2>2. 1 \in 1..n /\ n > 0 /\ \A i \in 1..n : i # 1 => 1 < i
    BY <1>1, <2>1
  <2>3. \A x \in S : x # s[1] => <<s[1], x>> \in R
    BY <1>2, <1>5, <2>2 DEF Lists
  <2> QED
    BY <1>3, <2>2, <2>3 DEF FirstIn
<1> QED
  BY <1>1, <1>3, <1>5, <1>6

\* One row of the scan: the best so far, or the row when it comes before it.
Scans(R, rows, L, b) ==
  /\ b = [n \in 1..L |-> b[n]]
  /\ \A n \in 1..L :
        b[n] = IF n = 1 THEN rows[1] ELSE IF <<rows[n], b[n - 1]>> \in R THEN rows[n] ELSE b[n - 1]

\* The scan of any number of rows is defined.
LEMMA ScanExists ==
  ASSUME NEW R, NEW rows, NEW L \in Nat
  PROVE  \E b : Scans(R, rows, L, b)
<1> DEFINE T == {k \in Nat : ~ \E b : Scans(R, rows, k, b)}
<1>1. SUFFICES ASSUME T # {} PROVE FALSE
  OBVIOUS
<1>2. PICK k \in T : \A j \in T : k <= j
  <2>1. T \subseteq Nat OBVIOUS
  <2> HIDE DEF T
  <2> QED
    BY <1>1, <2>1, LeastExists
<1>3. CASE k = 0
  <2> DEFINE b == [n \in 1..0 |-> 0]
  <2>1. Scans(R, rows, 0, b)
    BY DEF Scans
  <2> QED
    BY <1>2, <1>3, <2>1
<1>4. CASE k # 0
  <2>1. k \in Nat /\ k - 1 \in Nat /\ k - 1 \notin T
    BY <1>2, <1>4
  <2>2. PICK g : Scans(R, rows, k - 1, g)
    BY <2>1
  <2> DEFINE top == IF k = 1 THEN rows[1] ELSE IF <<rows[k], g[k - 1]>> \in R THEN rows[k] ELSE g[k - 1]
             h == [n \in 1..k |-> IF n = k THEN top ELSE g[n]]
  <2>3. \A n \in 1..k : n # k => n \in 1..(k - 1) /\ h[n] = g[n]
    BY <2>1
  <2>4. h[k] = top
    BY <1>4, <2>1
  <2>5. \A n \in 1..k : n # 1 => n - 1 \in 1..k /\ h[n - 1] = g[n - 1]
    BY <2>1, <2>3
  <2>6. h = [n \in 1..k |-> h[n]]
    OBVIOUS
  <2> HIDE DEF h
  <2>7. ASSUME NEW n \in 1..k
        PROVE  h[n] = IF n = 1 THEN rows[1]
                      ELSE IF <<rows[n], h[n - 1]>> \in R THEN rows[n] ELSE h[n - 1]
    <3>1. CASE n = k
      BY <2>4, <2>5, <3>1
    <3>2. CASE n # k
      BY <2>2, <2>3, <2>5, <3>2 DEF Scans
    <3> QED
      BY <3>1, <3>2
  <2>8. Scans(R, rows, k, h)
    BY <2>6, <2>7 DEF Scans
  <2> QED
    BY <1>2, <2>8
<1> QED
  BY <1>3, <1>4

\* Whatever the comparison, the scan stays among the rows.
LEMMA ScanStays ==
  ASSUME NEW S, NEW L \in Nat, NEW rows \in [1..L -> S], NEW b,
         \A n \in 1..L : b[n] = rows[n] \/ (n # 1 /\ b[n] = b[n - 1])
  PROVE  \A n \in 1..L : b[n] \in S
<1> DEFINE T == {n \in 1..L : b[n] \notin S}
<1>1. SUFFICES ASSUME T # {} PROVE FALSE
  OBVIOUS
<1>2. PICK k \in T : \A j \in T : k <= j
  <2>1. T \subseteq Nat OBVIOUS
  <2> HIDE DEF T
  <2> QED
    BY <1>1, <2>1, LeastExists
<1>3. k # 1 /\ b[k] = b[k - 1]
  BY <1>2
<1>4. k - 1 \in 1..L /\ ~(k <= k - 1)
  BY <1>2, <1>3
<1> QED
  BY <1>2, <1>3, <1>4

\* The scan ends with the first of the rows.
LEMMA ScanFindsFirst ==
  ASSUME NEW S, NEW R, Orders(R, S), NEW L \in Nat, L > 0, NEW rows \in [1..L -> S],
         \A x \in S : \E i \in 1..L : rows[i] = x, NEW b, Scans(R, rows, L, b)
  PROVE  FirstIn(R, S, b[L])
<1>1. \A n \in 1..L : b[n] \in S
  <2>1. \A n \in 1..L : b[n] = rows[n] \/ (n # 1 /\ b[n] = b[n - 1])
    BY DEF Scans
  <2> QED
    BY <2>1, ScanStays
<1> DEFINE Holds(n) == \A m \in 1..n : b[n] = rows[m] \/ <<b[n], rows[m]>> \in R
           T == {n \in 1..L : ~Holds(n)}
<1>2. T = {}
  <2>1. SUFFICES ASSUME T # {} PROVE FALSE
    OBVIOUS
  <2>2. PICK k \in T : \A j \in T : k <= j
    <3>1. T \subseteq Nat OBVIOUS
    <3> HIDE DEF T
    <3> QED
      BY <2>1, <3>1, LeastExists
  <2>3. CASE k = 1
    <3>1. b[1] = rows[1]
      <4>1. 1 \in 1..L
        OBVIOUS
      <4>2. \A n \in 1..L : n = 1 => b[n] = rows[1]
        BY DEF Scans
      <4> QED
        BY <4>1, <4>2
    <3>2. Holds(1)
      BY <3>1
    <3> QED
      BY <2>2, <2>3, <3>2
  <2>4. CASE k # 1
    <3>1. k \in 1..L /\ k - 1 \in 1..L /\ ~(k <= k - 1)
      BY <2>2, <2>4
    <3>2. \A m \in 1..(k - 1) : b[k - 1] = rows[m] \/ <<b[k - 1], rows[m]>> \in R
      BY <2>2, <3>1
    <3>3. b[k - 1] \in S /\ rows[k] \in S /\ \A m \in 1..k : rows[m] \in S /\ (m # k => m \in 1..(k - 1))
      BY <1>1, <3>1
    <3>4. b[k] = IF <<rows[k], b[k - 1]>> \in R THEN rows[k] ELSE b[k - 1]
      BY <2>4, <3>1 DEF Scans
    <3> HIDE DEF T, Holds
    <3>5. ASSUME NEW m \in 1..k PROVE b[k] = rows[m] \/ <<b[k], rows[m]>> \in R
      <4>1. CASE <<rows[k], b[k - 1]>> \in R
        BY <3>2, <3>3, <3>4, <4>1 DEF Orders
      <4>2. CASE <<rows[k], b[k - 1]>> \notin R
        BY <3>2, <3>3, <3>4, <4>2 DEF Orders
      <4> QED
        BY <4>1, <4>2
    <3> QED
      BY <2>2, <3>5 DEF T, Holds
  <2> QED
    BY <2>3, <2>4
<1>3. L \in 1..L
  OBVIOUS
<1>4. \A m \in 1..L : b[L] = rows[m] \/ <<b[L], rows[m]>> \in R
  BY <1>2, <1>3
<1>5. b[L] \in S
  BY <1>1, <1>3
<1> HIDE DEF T, Holds
<1> QED
  BY <1>4, <1>5 DEF FirstIn

-----------------------------------------------------------------------------
(* Lists of keys: the first key on which two routes differ decides. *)

\* Three comparisons of one key, of a with b, b with c and a with c; and the
\* comparisons of a with b and of b with a.
Chained(x, y, z) ==
  /\ x = 0 /\ y = 0 => z = 0
  /\ x < 0 /\ y <= 0 => z < 0
  /\ x <= 0 /\ y < 0 => z < 0
Opposite(x, y) == (x < 0 <=> y > 0) /\ (x = 0 <=> y = 0)

\* What is decided by keys that chain is transitive.
LEMMA DecideTransitive ==
  ASSUME NEW n \in Nat, NEW k \in [1..n -> Int], NEW l \in [1..n -> Int], NEW m \in [1..n -> Int],
         Len(k) = n, Len(l) = n, Len(m) = n,
         \A i \in 1..n : Chained(k[i], l[i], m[i]), Decide(k), Decide(l)
  PROVE  Decide(m)
<1>1. PICK p \in 1..n : k[p] < 0 /\ \A j \in 1..(p - 1) : k[j] = 0
  BY DEF Decide
<1>2. PICK q \in 1..n : l[q] < 0 /\ \A j \in 1..(q - 1) : l[j] = 0
  BY DEF Decide
<1> DEFINE r == IF p <= q THEN p ELSE q
<1>3. r \in 1..n /\ \A j \in 1..(r - 1) : j \in 1..n /\ j \in 1..(p - 1) /\ j \in 1..(q - 1)
  OBVIOUS
<1>4. m[r] < 0
  <2>1. CASE p < q
    <3>1. l[p] = 0 /\ r = p
      BY <1>2, <2>1
    <3> QED
      BY <1>1, <3>1 DEF Chained
  <2>2. CASE p = q
    BY <1>1, <1>2, <2>2 DEF Chained
  <2>3. CASE q < p
    <3>1. k[q] = 0 /\ r = q
      BY <1>1, <2>3
    <3> QED
      BY <1>2, <3>1 DEF Chained
  <2> QED
    BY <2>1, <2>2, <2>3
<1>5. \A j \in 1..(r - 1) : m[j] = 0
  BY <1>1, <1>2, <1>3 DEF Chained
<1> QED
  BY <1>3, <1>4, <1>5 DEF Decide

\* Two that differ in some key are decided one way or the other.
LEMMA DecideTotal ==
  ASSUME NEW n \in Nat, NEW k \in [1..n -> Int], NEW l \in [1..n -> Int],
         Len(k) = n, Len(l) = n,
         \A i \in 1..n : Opposite(k[i], l[i]), \E i \in 1..n : k[i] # 0
  PROVE  Decide(k) \/ Decide(l)
<1> DEFINE T == {i \in 1..n : k[i] # 0}
<1>1. PICK p \in T : \A i \in T : p <= i
  <2>1. T \subseteq Nat
    OBVIOUS
  <2>2. PICK i \in 1..n : k[i] # 0
    OBVIOUS
  <2>3. i \in T
    BY <2>2
  <2> HIDE DEF T
  <2> QED
    BY <2>1, <2>3, LeastExists
<1>2. p \in 1..n /\ k[p] # 0 /\ \A j \in 1..(p - 1) : k[j] = 0 /\ l[j] = 0
  <2>1. p \in 1..n /\ k[p] # 0
    BY <1>1
  <2>2. ASSUME NEW j \in 1..(p - 1) PROVE k[j] = 0 /\ l[j] = 0
    BY <1>1, <2>1 DEF Opposite
  <2> QED
    BY <2>1, <2>2
<1> HIDE DEF T
<1>3. k[p] < 0 \/ l[p] < 0
  BY <1>2 DEF Opposite
<1> QED
  BY <1>2, <1>3 DEF Decide

\* Nothing comes before itself.
LEMMA DecideIrreflexive ==
  ASSUME NEW n \in Nat, NEW k \in [1..n -> Int], Len(k) = n, \A i \in 1..n : k[i] = 0
  PROVE  ~Decide(k)
BY DEF Decide

-----------------------------------------------------------------------------
(* The two orders of routes are strict and total. *)

\* ranksBefore at given prices: Resolve and ResolveChain may read different ones.
DraftKeyAt(pr, a, b) ==
  LET pa == pr[table[a].model]
      pb == pr[table[b].model] IN
  IF pa = 0 \/ pb = 0 THEN FirstIf(pa # 0, pb # 0) ELSE pa - pb
KeysAt(pr, a, b) ==
  <<IF req.intent = "draft" THEN DraftKeyAt(pr, a, b) ELSE 0,
    IF req.intent = "commit" THEN TierKey(a, b) ELSE 0,
    IF req.intent = "commit" THEN IdentityKey(a, b) ELSE 0,
    FirstIf(table[a].latency = req.latency, table[b].latency = req.latency),
    FirstIf(Provider(a) = req.prefer, Provider(b) = req.prefer),
    table[a].priority - table[b].priority,
    Provider(a) - Provider(b), table[a].model - table[b].model, a - b>>
RanksAt(pr, a, b) == Decide(KeysAt(pr, a, b))
RankOrder(pr, S) == {p \in S \X S : RanksAt(pr, p[1], p[2])}

RowKeys(a, b) ==
  <<table[a].priority - table[b].priority, Provider(a) - Provider(b),
    table[a].model - table[b].model, a - b>>
RowOrder(S) == {p \in S \X S : Decide(RowKeys(p[1], p[2]))}

\* The prices the program compares are the ones it reads.
LEMMA RanksAtPrice == \A a, b : ranksBefore(a, b) <=> RanksAt(price, a, b)
BY DEF ranksBefore, RanksAt, KeysAt, DraftKey, DraftKeyAt

\* The columns that are compared as numbers are numbers.
LEMMA RowTypes ==
  ASSUME table \in Seq(Route), NEW a \in Ids
  PROVE  /\ a \in Nat /\ table[a] \in Route
         /\ table[a].model \in Models /\ table[a].model \in Nat
         /\ Provider(a) \in Nat /\ table[a].priority \in Int
<1>1. a \in Nat /\ table[a] \in Route
  BY DEF Ids
<1>2. table[a].model \in Models /\ table[a].priority \in Priorities
  BY <1>1 DEF Route
<1> QED
  BY <1>1, <1>2, RouteAssumption DEF Provider

\* Prices compare like an order, where an absent one comes last.
PriceKey(p, q) == IF p = 0 \/ q = 0 THEN FirstIf(p # 0, q # 0) ELSE p - q
LEMMA PriceKeyOrders ==
  ASSUME NEW x \in Nat, NEW y \in Nat, NEW z \in Nat
  PROVE  /\ PriceKey(x, y) \in Int
         /\ Chained(PriceKey(x, y), PriceKey(y, z), PriceKey(x, z))
         /\ Opposite(PriceKey(x, y), PriceKey(y, x)) /\ PriceKey(x, x) = 0
<1>1. \A p, q \in Nat :
         PriceKey(p, q) = IF p = 0 THEN (IF q = 0 THEN 0 ELSE 1) ELSE IF q = 0 THEN -1 ELSE p - q
  BY DEF PriceKey, FirstIf
<1> QED
  BY <1>1 DEF Chained, Opposite

\* The three comparisons of three routes, key by key.
LEMMA KeysCompare ==
  ASSUME table \in Seq(Route), NEW pr \in [Models -> Nat], NEW a \in Ids, NEW b \in Ids, NEW c \in Ids
  PROVE  /\ KeysAt(pr, a, b) \in [1..9 -> Int] /\ Len(KeysAt(pr, a, b)) = 9
         /\ \A i \in 1..9 : Chained(KeysAt(pr, a, b)[i], KeysAt(pr, b, c)[i], KeysAt(pr, a, c)[i])
         /\ \A i \in 1..9 : Opposite(KeysAt(pr, a, b)[i], KeysAt(pr, b, a)[i])
         /\ \A i \in 1..9 : KeysAt(pr, a, a)[i] = 0
         /\ KeysAt(pr, a, b)[9] = a - b
<1>r. /\ a \in Int /\ table[a].model \in Int /\ Provider(a) \in Int /\ table[a].priority \in Int
      /\ b \in Int /\ table[b].model \in Int /\ Provider(b) \in Int /\ table[b].priority \in Int
      /\ c \in Int /\ table[c].model \in Int /\ Provider(c) \in Int /\ table[c].priority \in Int
      /\ pr[table[a].model] \in Nat /\ pr[table[b].model] \in Nat /\ pr[table[c].model] \in Nat
  BY RowTypes
<1> DEFINE Good(K(_, _)) ==
             /\ K(a, b) \in Int /\ Chained(K(a, b), K(b, c), K(a, c))
             /\ Opposite(K(a, b), K(b, a)) /\ K(a, a) = 0
           Key1(x, y) == IF req.intent = "draft" THEN DraftKeyAt(pr, x, y) ELSE 0
           Key2(x, y) == IF req.intent = "commit" THEN TierKey(x, y) ELSE 0
           Key3(x, y) == IF req.intent = "commit" THEN IdentityKey(x, y) ELSE 0
           Key4(x, y) == FirstIf(table[x].latency = req.latency, table[y].latency = req.latency)
           Key5(x, y) == FirstIf(Provider(x) = req.prefer, Provider(y) = req.prefer)
           Key6(x, y) == table[x].priority - table[y].priority
           Key7(x, y) == Provider(x) - Provider(y)
           Key8(x, y) == table[x].model - table[y].model
           Key9(x, y) == x - y
<1>0. 0 \in Int /\ Chained(0, 0, 0) /\ Opposite(0, 0)
  BY DEF Chained, Opposite
<1>1. Good(Key1)
  <2>1. \A x, y : DraftKeyAt(pr, x, y) = PriceKey(pr[table[x].model], pr[table[y].model])
    BY DEF DraftKeyAt, PriceKey
  <2> DEFINE u == pr[table[a].model]
             v == pr[table[b].model]
             w == pr[table[c].model]
  <2>2. u \in Nat /\ v \in Nat /\ w \in Nat
    BY <1>r
  <2>3. /\ DraftKeyAt(pr, a, b) = PriceKey(u, v) /\ DraftKeyAt(pr, b, c) = PriceKey(v, w)
        /\ DraftKeyAt(pr, a, c) = PriceKey(u, w) /\ DraftKeyAt(pr, b, a) = PriceKey(v, u)
        /\ DraftKeyAt(pr, a, a) = PriceKey(u, u)
    BY <2>1
  <2> HIDE DEF u, v, w
  <2>4. /\ PriceKey(u, v) \in Int /\ Chained(PriceKey(u, v), PriceKey(v, w), PriceKey(u, w))
        /\ Opposite(PriceKey(u, v), PriceKey(v, u)) /\ PriceKey(u, u) = 0
    BY <2>2, PriceKeyOrders
  <2> QED
    BY <1>0, <2>3, <2>4
<1>2. Good(Key2)
  <2>1. \A t : qualityTierRank(t) \in Int
    BY DEF qualityTierRank
  <2> DEFINE rank(x) == qualityTierRank(table[x].tier)
  <2>2. rank(a) \in Int /\ rank(b) \in Int /\ rank(c) \in Int
    BY <2>1
  <2>3. \A x, y : TierKey(x, y) = rank(y) - rank(x)
    BY DEF TierKey
  <2> HIDE DEF rank
  <2> QED
    BY <1>0, <2>2, <2>3 DEF Chained, Opposite
<1>3. Good(Key3)
  <2> DEFINE rank(x) == IF IsIdentityAxisCapability(table[x].claim) THEN 0 ELSE 1
  <2>1. rank(a) \in Int /\ rank(b) \in Int /\ rank(c) \in Int
    OBVIOUS
  <2>2. \A x, y : IdentityKey(x, y) = rank(x) - rank(y)
    BY DEF IdentityKey, FirstIf, IsIdentityAxisCapability, CapabilitySatisfies
  <2> HIDE DEF rank
  <2> QED
    BY <1>0, <2>1, <2>2 DEF Chained, Opposite
<1>4. Good(Key4)
  <2> DEFINE rank(x) == IF table[x].latency = req.latency THEN 0 ELSE 1
  <2>1. rank(a) \in Int /\ rank(b) \in Int /\ rank(c) \in Int
    OBVIOUS
  <2>2. \A x, y : Key4(x, y) = rank(x) - rank(y)
    BY DEF FirstIf
  <2> HIDE DEF rank, Key4
  <2> QED
    BY <2>1, <2>2 DEF Chained, Opposite
<1>5. Good(Key5)
  <2> DEFINE rank(x) == IF Provider(x) = req.prefer THEN 0 ELSE 1
  <2>1. rank(a) \in Int /\ rank(b) \in Int /\ rank(c) \in Int
    OBVIOUS
  <2>2. \A x, y : Key5(x, y) = rank(x) - rank(y)
    BY DEF FirstIf
  <2> HIDE DEF rank, Key5
  <2> QED
    BY <2>1, <2>2 DEF Chained, Opposite
<1>6. Good(Key6)
  <2> DEFINE rank(x) == table[x].priority
  <2>1. rank(a) \in Int /\ rank(b) \in Int /\ rank(c) \in Int
    BY <1>r
  <2>2. \A x, y : Key6(x, y) = rank(x) - rank(y)
    OBVIOUS
  <2> HIDE DEF rank, Key6
  <2> QED
    BY <2>1, <2>2 DEF Chained, Opposite
<1>7. Good(Key7)
  <2> DEFINE rank(x) == Provider(x)
  <2>1. rank(a) \in Int /\ rank(b) \in Int /\ rank(c) \in Int
    BY <1>r
  <2>2. \A x, y : Key7(x, y) = rank(x) - rank(y)
    OBVIOUS
  <2> HIDE DEF rank, Key7
  <2> QED
    BY <2>1, <2>2 DEF Chained, Opposite
<1>8. Good(Key8)
  <2> DEFINE rank(x) == table[x].model
  <2>1. rank(a) \in Int /\ rank(b) \in Int /\ rank(c) \in Int
    BY <1>r
  <2>2. \A x, y : Key8(x, y) = rank(x) - rank(y)
    OBVIOUS
  <2> HIDE DEF rank, Key8
  <2> QED
    BY <2>1, <2>2 DEF Chained, Opposite
<1>9. Good(Key9)
  BY <1>r DEF Chained, Opposite
<1>10. \A x, y : KeysAt(pr, x, y) = <<Key1(x, y), Key2(x, y), Key3(x, y), Key4(x, y), Key5(x, y),
                                      Key6(x, y), Key7(x, y), Key8(x, y), Key9(x, y)>>
  BY DEF KeysAt
<1>11. KeysAt(pr, a, b)[9] = a - b
  BY <1>10
<1> HIDE DEF Key1, Key2, Key3, Key4, Key5, Key6, Key7, Key8, Key9
<1>12. KeysAt(pr, a, b) \in [1..9 -> Int] /\ Len(KeysAt(pr, a, b)) = 9
  BY <1>1, <1>2, <1>3, <1>4, <1>5, <1>6, <1>7, <1>8, <1>9, <1>10
<1>13. ASSUME NEW i \in 1..9
       PROVE  /\ Chained(KeysAt(pr, a, b)[i], KeysAt(pr, b, c)[i], KeysAt(pr, a, c)[i])
              /\ Opposite(KeysAt(pr, a, b)[i], KeysAt(pr, b, a)[i])
              /\ KeysAt(pr, a, a)[i] = 0
  <2>1. i = 1 \/ i = 2 \/ i = 3 \/ i = 4 \/ i = 5 \/ i = 6 \/ i = 7 \/ i = 8 \/ i = 9
    OBVIOUS
  <2>2. CASE i = 1 BY <1>1, <1>10, <2>2
  <2>3. CASE i = 2 BY <1>2, <1>10, <2>3
  <2>4. CASE i = 3 BY <1>3, <1>10, <2>4
  <2>5. CASE i = 4 BY <1>4, <1>10, <2>5
  <2>6. CASE i = 5 BY <1>5, <1>10, <2>6
  <2>7. CASE i = 6 BY <1>6, <1>10, <2>7
  <2>8. CASE i = 7 BY <1>7, <1>10, <2>8
  <2>9. CASE i = 8 BY <1>8, <1>10, <2>9
  <2>10. CASE i = 9 BY <1>9, <1>10, <2>10
  <2> QED
    BY <2>1, <2>2, <2>3, <2>4, <2>5, <2>6, <2>7, <2>8, <2>9, <2>10
<1> QED
  BY <1>11, <1>12, <1>13

\* ranksBefore is a strict total order of the routes at any prices.
LEMMA RanksOrder ==
  ASSUME table \in Seq(Route), NEW pr \in [Models -> Nat], NEW S \in SUBSET Ids
  PROVE  Orders(RankOrder(pr, S), S)
<1>1. ASSUME NEW x \in S PROVE ~RanksAt(pr, x, x)
  BY KeysCompare, DecideIrreflexive DEF RanksAt
<1>2. ASSUME NEW x \in S, NEW y \in S, NEW z \in S, RanksAt(pr, x, y), RanksAt(pr, y, z)
      PROVE  RanksAt(pr, x, z)
  <2>1. /\ KeysAt(pr, x, y) \in [1..9 -> Int] /\ Len(KeysAt(pr, x, y)) = 9
        /\ KeysAt(pr, y, z) \in [1..9 -> Int] /\ Len(KeysAt(pr, y, z)) = 9
        /\ KeysAt(pr, x, z) \in [1..9 -> Int] /\ Len(KeysAt(pr, x, z)) = 9
        /\ \A i \in 1..9 : Chained(KeysAt(pr, x, y)[i], KeysAt(pr, y, z)[i], KeysAt(pr, x, z)[i])
    BY KeysCompare
  <2> QED
    BY <1>2, <2>1, DecideTransitive DEF RanksAt
<1>3. ASSUME NEW x \in S, NEW y \in S, x # y PROVE RanksAt(pr, x, y) \/ RanksAt(pr, y, x)
  <2>1. /\ KeysAt(pr, x, y) \in [1..9 -> Int] /\ Len(KeysAt(pr, x, y)) = 9
        /\ KeysAt(pr, y, x) \in [1..9 -> Int] /\ Len(KeysAt(pr, y, x)) = 9
        /\ \A i \in 1..9 : Opposite(KeysAt(pr, x, y)[i], KeysAt(pr, y, x)[i])
        /\ KeysAt(pr, x, y)[9] = x - y
    BY KeysCompare
  <2>2. KeysAt(pr, x, y)[9] # 0
    <3>1. x \in Int /\ y \in Int
      BY RowTypes
    <3> QED
      BY <1>3, <2>1, <3>1
  <2>3. 9 \in Nat /\ \E i \in 1..9 : KeysAt(pr, x, y)[i] # 0
    BY <2>2
  <2> QED
    BY <2>1, <2>3, DecideTotal DEF RanksAt
<1> QED
  BY <1>1, <1>2, <1>3 DEF Orders, RankOrder

\* So is the order in which ListProviderRoutesForOperation returns them.
LEMMA RowsOrder ==
  ASSUME table \in Seq(Route), NEW S \in SUBSET Ids
  PROVE  Orders(RowOrder(S), S)
<1>1. ASSUME NEW a \in S, NEW b \in S, NEW c \in S
      PROVE  /\ RowKeys(a, b) \in [1..4 -> Int] /\ Len(RowKeys(a, b)) = 4
             /\ \A i \in 1..4 : Chained(RowKeys(a, b)[i], RowKeys(b, c)[i], RowKeys(a, c)[i])
             /\ \A i \in 1..4 : Opposite(RowKeys(a, b)[i], RowKeys(b, a)[i])
             /\ \A i \in 1..4 : RowKeys(a, a)[i] = 0
             /\ a # b => RowKeys(a, b)[4] # 0
  <2> DEFINE K(x, y) == KeysAt([m \in Models |-> 0], x, y)
  <2>1. /\ K(a, b) \in [1..9 -> Int]
        /\ \A i \in 1..9 : Chained(K(a, b)[i], K(b, c)[i], K(a, c)[i])
        /\ \A i \in 1..9 : Opposite(K(a, b)[i], K(b, a)[i])
        /\ \A i \in 1..9 : K(a, a)[i] = 0
        /\ K(a, b)[9] = a - b
    BY KeysCompare
  <2>2. \A x, y : RowKeys(x, y) = <<K(x, y)[6], K(x, y)[7], K(x, y)[8], K(x, y)[9]>>
    BY DEF RowKeys, KeysAt
  <2> HIDE DEF K
  <2>3. RowKeys(a, b) \in [1..4 -> Int] /\ Len(RowKeys(a, b)) = 4
    BY <2>1, <2>2
  <2>4. a # b => RowKeys(a, b)[4] # 0
    <3>1. a \in Int /\ b \in Int
      BY RowTypes
    <3>2. RowKeys(a, b)[4] = K(a, b)[9]
      BY <2>2
    <3>3. a # b => a - b # 0
      BY <3>1
    <3> QED
      BY <2>1, <3>2, <3>3
  <2>5. \A x, y : \A i \in 1..4 : i + 5 \in 1..9 /\ RowKeys(x, y)[i] = K(x, y)[i + 5]
    BY <2>2
  <2>6. ASSUME NEW i \in 1..4
        PROVE  /\ Chained(RowKeys(a, b)[i], RowKeys(b, c)[i], RowKeys(a, c)[i])
               /\ Opposite(RowKeys(a, b)[i], RowKeys(b, a)[i]) /\ RowKeys(a, a)[i] = 0
    <3>1. PICK j \in 1..9 : j = i + 5
      OBVIOUS
    <3>2. \A x, y : RowKeys(x, y)[i] = K(x, y)[j]
      BY <2>5, <3>1
    <3>3. Chained(K(a, b)[j], K(b, c)[j], K(a, c)[j]) /\ Opposite(K(a, b)[j], K(b, a)[j]) /\ K(a, a)[j] = 0
      BY <2>1
    <3> QED
      BY <3>2, <3>3
  <2> QED
    BY <2>3, <2>4, <2>6
<1>2. ASSUME NEW x \in S PROVE ~Decide(RowKeys(x, x))
  BY <1>1, DecideIrreflexive
<1>3. ASSUME NEW x \in S, NEW y \in S, NEW z \in S, Decide(RowKeys(x, y)), Decide(RowKeys(y, z))
      PROVE  Decide(RowKeys(x, z))
  BY <1>1, <1>3, DecideTransitive
<1>4. ASSUME NEW x \in S, NEW y \in S, x # y PROVE Decide(RowKeys(x, y)) \/ Decide(RowKeys(y, x))
  <2>1. /\ RowKeys(x, y) \in [1..4 -> Int] /\ Len(RowKeys(x, y)) = 4
        /\ RowKeys(y, x) \in [1..4 -> Int] /\ Len(RowKeys(y, x)) = 4
        /\ \A i \in 1..4 : Opposite(RowKeys(x, y)[i], RowKeys(y, x)[i])
    BY <1>1
  <2>2. 4 \in Nat /\ \E i \in 1..4 : RowKeys(x, y)[i] # 0
    BY <1>1, <1>4
  <2> QED
    BY <2>1, <2>2, DecideTotal
<1> QED
  BY <1>2, <1>3, <1>4 DEF Orders, RowOrder

-----------------------------------------------------------------------------
(* What Resolve and ResolveChain compute. *)

\* Sets of routes are finite.
LEMMA RoutesFinite ==
  ASSUME table \in Seq(Route), NEW S \in SUBSET Ids
  PROVE  IsFiniteSet(S)
<1>1. Ids = 1..Len(table) /\ Len(table) \in Int
  BY DEF Ids
<1>2. IsFiniteSet(Ids)
  BY <1>1, FS_Interval
<1> QED
  BY <1>2, FS_Subset

\* The scan of the candidates in source order ends with the first of them in
\* the rank order.
LEMMA BestLeads ==
  ASSUME table \in Seq(Route), price \in [Models -> Nat], candidates \in SUBSET Ids, candidates # {}
  PROVE  FirstIn(RankOrder(price, candidates), candidates, Best)
<1> DEFINE S == candidates
           R == RankOrder(price, candidates)
           rows == SourceOrder(candidates)
           n == Cardinality(S)
<1>0. S # {}
  OBVIOUS
<1>1. IsFiniteSet(S) /\ Orders(R, S) /\ Orders(RowOrder(S), S)
  BY RoutesFinite, RanksOrder, RowsOrder
<1>2. rows = SortedBy(S, RowOrder(S))
  BY DEF SourceOrder, RowOrder, RowKeys
<1>3. /\ n \in Nat /\ n > 0 /\ rows \in [1..n -> S]
      /\ \A x \in S : \E i \in 1..n : rows[i] = x
  <2> HIDE DEF S, rows
  <2>1. /\ Cardinality(S) \in Nat /\ rows \in [1..Cardinality(S) -> S]
        /\ \A x \in S : \E i \in 1..Cardinality(S) : rows[i] = x
        /\ S # {} => Cardinality(S) > 0
    <3> DEFINE Q == RowOrder(S)
    <3>1. IsFiniteSet(S) /\ Orders(Q, S) /\ rows = SortedBy(S, Q)
      BY <1>1, <1>2
    <3> HIDE DEF Q
    <3> QED
      BY <3>1, SortedByLists
  <2> QED
    BY <1>0, <2>1
<1>4. Len(rows) = n
  BY <1>3
<1>5. \A x, y \in S : <<x, y>> \in R <=> ranksBefore(x, y)
  BY RanksAtPrice DEF RankOrder
<1> DEFINE Fits(b) ==
             b = [i \in 1..Len(rows) |->
                    IF i = 1 THEN rows[1]
                    ELSE IF ranksBefore(rows[i], b[i - 1]) THEN rows[i] ELSE b[i - 1]]
<1>6. Best = (CHOOSE b : Fits(b))[Len(rows)]
  BY DEF Best
<1> HIDE DEF S, R, rows, n
<1>7. ASSUME NEW b, Scans(R, rows, n, b) PROVE Fits(b)
  <2>1. \A i \in 1..n : b[i] = rows[i] \/ (i # 1 /\ b[i] = b[i - 1])
    BY <1>7 DEF Scans
  <2>2. \A i \in 1..n : b[i] \in S
    BY <1>3, <2>1, ScanStays
  <2>3. \A i \in 1..n : i # 1 => i - 1 \in 1..n /\ (<<rows[i], b[i - 1]>> \in R <=> ranksBefore(rows[i], b[i - 1]))
    BY <1>3, <1>5, <2>2
  <2>4. \A i \in 1..n : b[i] = IF i = 1 THEN rows[1]
                               ELSE IF ranksBefore(rows[i], b[i - 1]) THEN rows[i] ELSE b[i - 1]
    BY <1>7, <2>3 DEF Scans
  <2> QED
    BY <1>4, <1>7, <2>4 DEF Scans
<1>8. PICK b : b = (CHOOSE g : Fits(g)) /\ Fits(b)
  <2>1. \E b : Scans(R, rows, n, b)
    BY <1>3, ScanExists
  <2>2. \E b : Fits(b)
    BY <1>7, <2>1
  <2> HIDE DEF Fits
  <2> QED
    BY <2>2
<1>9. Scans(R, rows, n, b)
  <2>0. /\ b = [i \in 1..n |-> b[i]]
        /\ \A i \in 1..n : b[i] = IF i = 1 THEN rows[1]
                                  ELSE IF ranksBefore(rows[i], b[i - 1]) THEN rows[i] ELSE b[i - 1]
    BY <1>4, <1>8
  <2>1. \A i \in 1..n : b[i] = rows[i] \/ (i # 1 /\ b[i] = b[i - 1])
    BY <2>0
  <2>2. \A i \in 1..n : b[i] \in S
    BY <1>3, <2>1, ScanStays
  <2>3. \A i \in 1..n : i # 1 => i - 1 \in 1..n /\ (<<rows[i], b[i - 1]>> \in R <=> ranksBefore(rows[i], b[i - 1]))
    BY <1>3, <1>5, <2>2
  <2> QED
    BY <2>0, <2>3 DEF Scans
<1> HIDE DEF Fits
<1>10. FirstIn(R, S, b[n])
  BY <1>1, <1>3, <1>9, ScanFindsFirst
<1> QED
  BY <1>4, <1>6, <1>8, <1>10 DEF S, R

\* Dropping the primary from a list of S leaves the others, once each.
LEMMA AlternatesAreTheOthers ==
  ASSUME NEW S, NEW n \in Nat, NEW ordered \in [1..n -> S],
         \A i, j \in 1..n : i # j => ordered[i] # ordered[j],
         \A x \in S : \E i \in 1..n : ordered[i] = x,
         NEW c, c = Alternates(ordered)
  PROVE  c \in Seq(S) /\ Range(c) = S \ {primary} /\ IsInjective(c)
<1> DEFINE rest == {i \in DOMAIN ordered : ordered[i] # primary}
           earlier == {p \in rest \X rest : p[1] < p[2]}
           at == SortedBy(rest, earlier)
           m == Cardinality(rest)
<1>1. c = [k \in DOMAIN at |-> ordered[at[k]]]
  BY DEF Alternates
<1>2. rest \subseteq 1..n /\ IsFiniteSet(rest)
  <2>1. rest \in SUBSET (1..n)
    OBVIOUS
  <2>2. IsFiniteSet(1..n)
    BY FS_Interval
  <2> QED
    BY <2>1, <2>2, FS_Subset
<1>3. Orders(earlier, rest)
  <2>1. \A i, j \in rest : <<i, j>> \in earlier <=> i < j
    OBVIOUS
  <2>2. \A i \in rest : i \in Int
    BY <1>2
  <2> HIDE DEF rest, earlier
  <2> QED
    BY <2>1, <2>2 DEF Orders
<1>4. \A i \in 1..n : i \in rest <=> ordered[i] # primary
  OBVIOUS
<1> HIDE DEF rest, earlier
<1>5. /\ m \in Nat /\ at \in [1..m -> rest]
      /\ \A i, j \in 1..m : i # j => at[i] # at[j]
      /\ \A x \in rest : \E i \in 1..m : at[i] = x
  BY <1>2, <1>3, SortedByLists
<1> HIDE DEF at, m
<1>6. c \in [1..m -> S] /\ \A k \in 1..m : at[k] \in 1..n /\ at[k] \in rest /\ c[k] = ordered[at[k]]
  <2>1. DOMAIN at = 1..m /\ \A k \in 1..m : at[k] \in 1..n /\ at[k] \in rest
    BY <1>2, <1>5
  <2> QED
    BY <1>1, <2>1
<1>7. c \in Seq(S)
  BY <1>5, <1>6
<1>8. IsInjective(c)
  BY <1>5, <1>6 DEF IsInjective
<1>9. Range(c) = S \ {primary}
  <2>1. ASSUME NEW x \in Range(c) PROVE x \in S \ {primary}
    BY <1>4, <1>6 DEF Range
  <2>2. ASSUME NEW x \in S \ {primary} PROVE x \in Range(c)
    <3>1. PICK i \in 1..n : ordered[i] = x
      OBVIOUS
    <3>2. PICK k \in 1..m : at[k] = i
      BY <1>4, <1>5, <3>1
    <3> QED
      BY <1>6, <3>1, <3>2 DEF Range
  <2> QED
    BY <2>1, <2>2
<1> QED
  BY <1>7, <1>8, <1>9

-----------------------------------------------------------------------------
(* The pipeline of filters against what it should let through. *)

\* Each filter narrows the one before, and a pinned provider that is not
\* configured leaves nothing.
LEMMA FiltersNarrow ==
  /\ Backed \subseteq Previewing /\ Previewing \subseteq Capable /\ Capable \subseteq OfTier
  /\ OfTier \subseteq Configured /\ Configured \subseteq Pinned /\ Pinned \subseteq Active
  /\ Active \subseteq Ids
  /\ req.pin # 0 /\ req.pin \notin Available => Configured = {}
BY DEF Backed, Previewing, Capable, OfTier, Configured, Pinned, Active

\* A request ends in no error exactly when a candidate is left.
LEMMA NoErrorMeansBacked ==
  /\ RouteError = "none" <=> Backed # {}
  /\ candidates = Backed
<1>1. RouteError = "none" => Backed # {}
  BY DEF RouteError
<1>2. Backed # {} => RouteError = "none"
  BY FiltersNarrow DEF RouteError
<1> QED
  BY <1>1, <1>2 DEF candidates

\* The routes left before the registry is asked are those that suit.
LEMMA PreviewingSuits ==
  ASSUME table \in Seq(Route), req \in Request, NEW i \in Ids
  PROVE  i \in Previewing <=> Suits(i)
<1>1. i \in Active <=> table[i].usable
  BY DEF Active
<1>2. i \in Pinned <=> i \in Active /\ req.pin \in {0, Provider(i)}
  BY DEF Pinned
<1>3. i \in OfTier <=> i \in Configured /\ req.tier \in {"any", table[i].tier}
  BY DEF OfTier
<1>4. i \in Configured <=> i \in Pinned /\ Provider(i) \in Available
  BY DEF Configured
<1>5. /\ req.preview \in {"no_preview", "true_preview"}
      /\ \/ req.kind = "artifact" /\ req.intent = "none" /\ req.floor = "scene_capable"
         \/ req.kind = "pack" /\ req.intent = "none" /\ req.floor = "pack_capable"
         \/ req.kind = "generation" /\ req.intent # "none" /\ req.floor = "identity_capable"
  BY DEF Request
<1>6. CapabilitySatisfies(table[i].claim, "identity_capable")
        <=> table[i].claim \in {"identity_capable", "pack_capable", "production_capable"}
  BY DEF CapabilitySatisfies, capabilityImplications
<1>7. i \in Capable <=> /\ i \in OfTier
                        /\ req.kind = "artifact" => table[i].claim = "scene_capable"
                        /\ req.kind = "pack" => table[i].claim = "pack_capable"
                        /\ req.kind = "generation" =>
                              table[i].claim \in {"identity_capable", "pack_capable", "production_capable"}
  BY <1>5, <1>6 DEF Capable
<1>8. i \in Previewing <=> i \in Capable /\ (req.preview = "true_preview" => table[i].preview = "true_preview")
  BY <1>5 DEF Previewing
<1> QED
  BY <1>1, <1>2, <1>3, <1>4, <1>7, <1>8 DEF Suits

\* The resolver asks the registry what boot reconciliation asked it.
LEMMA BackedSuits ==
  ASSUME table \in Seq(Route), req \in Request
  PROVE  Backed = {i \in Ids : Suits(i) /\ Reconcile(i) = "valid"}
<1>1. \A i : Reconcile(i) = "valid" <=> ProviderSatisfiesRoute(Provider(i), table[i].claim)
  BY DEF Reconcile, ProviderSatisfiesRoute, CapabilitiesSatisfy
<1>2. \A i : i \in Backed <=> i \in Previewing /\ ProviderSatisfiesRoute(Provider(i), table[i].claim)
  BY DEF Backed
<1>3. Previewing \subseteq Ids
  BY FiltersNarrow
<1> QED
  BY <1>1, <1>2, <1>3, PreviewingSuits

-----------------------------------------------------------------------------
(* The inductive invariant of a resolution.  Between the two reads of the  *)
(* table prices move, so it remembers at which prices each of them chose:  *)
(* the primary leads the routes that may draw the request at the prices    *)
(* Resolve read, the head of the chain at those ResolveChain read.  Of the *)
(* transaction it remembers that what it looked up is still right as long  *)
(* as no price changed since its first lookup.                             *)

\* m comes first of the routes that may draw the request, at prices pr.
LeadsAt(pr, m) == m \in Backed /\ \A i \in Backed : i # m => RanksAt(pr, m, i)

RouteTypes ==
  /\ table \in Seq(Route) /\ Len(table) <= NRoutes
  /\ others \in [Models \ {Listed} -> Prices] /\ req \in Request
  /\ pc \in {"resolve", "chain", "create", "lookup", "reserve", "done"}
  /\ primary \in Ids \cup {0} /\ head \in Ids \cup {0} /\ chain \in Seq(Ids)
  /\ err \in Errors
  /\ quoted \in [scan : [Models -> Nat], sort : [Models -> Nat]]

Resolving ==
  /\ pc = "resolve" => primary = 0 /\ head = 0 /\ err = "none"
  /\ pc = "chain" => head = 0 /\ err = "none" /\ RouteError = "none"
  /\ pc \notin {"resolve", "chain"} => err = RouteError
  /\ err # "none" => pc = "done" /\ primary = 0 /\ head = 0
PrimaryLeads ==
  pc # "resolve" /\ err = "none" =>
    \E pr, m : pr = quoted.scan /\ m = primary /\ LeadsAt(pr, m)
HeadLeads ==
  pc \notin {"resolve", "chain"} /\ err = "none" =>
    /\ \E pr, m : pr = quoted.sort /\ m = head /\ LeadsAt(pr, m)
    /\ Range(chain) = Backed \ {primary} /\ IsInjective(chain)


\* How far the transaction is: it looks at all alternates, or at none when the
\* primary has no price.
Creating ==
  /\ base \in Nat /\ reserved \in Nat /\ still \in BOOLEAN
  /\ looked \in 0..Len(chain) /\ kept \subseteq 1..looked
  /\ pc \in {"resolve", "chain", "create"} => looked = 0 /\ base = 0
  /\ pc = "lookup" => base # 0 /\ looked < Len(chain)
  /\ base = 0 => looked = 0
  /\ pc \in {"reserve", "done"} /\ base # 0 => looked = Len(chain)

\* What the lookups found is what they would find now.
LookupsHold ==
  pc \in {"lookup", "reserve", "done"} /\ err = "none" /\ still =>
    /\ chain # <<>> => base = PriceOf(primary)
    /\ base # 0 => \A n \in 1..looked :
                      n \in kept <=> chain[n] # primary /\ PriceOf(chain[n]) = base
    /\ pc = "done" => reserved = PriceOf(primary)

RouteInv ==
  /\ BookInv /\ RouteTypes /\ Resolving /\ PrimaryLeads /\ HeadLeads
  /\ Creating /\ LookupsHold

\* Prices are numbers, 0 for a model without one.
LEMMA PricesTyped ==
  ASSUME BookTypeOK, others \in [Models \ {Listed} -> Prices]
  PROVE  price \in [Models -> Nat]
<1>1. ActivePrice \in Nat
  <2>1. CASE ActiveRows = {}
    BY <2>1 DEF ActivePrice
  <2>2. CASE ActiveRows # {}
    <3>1. (CHOOSE r \in ActiveRows : TRUE) \in RowIds
      BY <2>2 DEF BookTypeOK, ActiveRows
    <3> QED
      BY <2>2, <3>1, PriceAssumption DEF ActivePrice, RowIds
  <2> QED
    BY <2>1, <2>2
<1>2. \A m \in Models : m # Listed => others[m] \in Nat
  BY RouteAssumption
<1> QED
  BY <1>1, <1>2 DEF price

\* The filters and the rank order depend on the table and the request alone.
LEMMA RouteFrame ==
  ASSUME UNCHANGED <<table, req>>
  PROVE  /\ Backed' = Backed /\ RouteError' = RouteError /\ Ids' = Ids
         /\ \A pr, m : LeadsAt(pr, m)' <=> LeadsAt(pr, m)
<1>1. \A i : Provider(i)' = Provider(i)
  BY DEF Provider
<1>2. Ids' = Ids /\ Active' = Active
  BY DEF Ids, Active
<1>3. Pinned' = Pinned
  BY <1>1, <1>2 DEF Pinned
<1>4. Configured' = Configured
  BY <1>1, <1>3 DEF Configured
<1>5. OfTier' = OfTier
  BY <1>4 DEF OfTier
<1>6. Capable' = Capable
  BY <1>5 DEF Capable
<1>7. Previewing' = Previewing
  BY <1>6 DEF Previewing
<1>8. Backed' = Backed
  BY <1>1, <1>7 DEF Backed
<1>9. RouteError' = RouteError
  BY <1>2, <1>3, <1>4, <1>5, <1>6, <1>7, <1>8 DEF RouteError
<1>10. ASSUME NEW pr, NEW a, NEW b PROVE RanksAt(pr, a, b)' <=> RanksAt(pr, a, b)
  <2>1. KeysAt(pr, a, b)' = KeysAt(pr, a, b)
    BY DEF KeysAt, DraftKeyAt, TierKey, IdentityKey, Provider
  <2> QED
    BY <2>1 DEF RanksAt
<1>11. ASSUME NEW pr, NEW m PROVE LeadsAt(pr, m)' <=> LeadsAt(pr, m)
  BY <1>8, <1>10 DEF LeadsAt
<1> QED
  BY <1>2, <1>8, <1>9, <1>11

\* The invariant holds before the request is resolved.
LEMMA RouteStarts == Init => RouteInv
<1> SUFFICES ASSUME Init PROVE RouteInv
  OBVIOUS
<1>1. BookInv
  BY BookStarts DEF Init
<1>2. table \in Seq(Route) /\ Len(table) <= NRoutes
  BY RouteAssumption DEF Init
<1>3. pc = "resolve" /\ primary = 0 /\ head = 0 /\ chain = <<>> /\ err = "none"
      /\ quoted = [scan |-> price, sort |-> price]
      /\ base = 0 /\ looked = 0 /\ kept = {} /\ reserved = 0 /\ still = TRUE
  BY DEF Init, Unresolved
<1>4. price \in [Models -> Nat]
  BY <1>1, PricesTyped DEF BookInv, Init
<1>5. RouteTypes
  BY <1>2, <1>3, <1>4 DEF RouteTypes, Init, Errors
<1> QED
  BY <1>1, <1>3, <1>5 DEF RouteInv, Resolving, PrimaryLeads, HeadLeads, Creating, LookupsHold

\* Resolve picks the leader at the prices it read, or ends in its error.
LEMMA ResolveKeeps == RouteInv /\ Resolve => RouteInv'
<1> SUFFICES ASSUME RouteInv, Resolve PROVE RouteInv'
  OBVIOUS
<1> DEFINE q == [scan |-> price, sort |-> price]
<1>1. /\ pc = "resolve" /\ quoted' = q
      /\ UNCHANGED <<book, tx, stmt, table, others, req, head, chain, base, looked, kept, reserved, still>>
  BY DEF Resolve, bookVars, creation
<1>2. BookInv /\ RouteTypes /\ Resolving /\ Creating
  BY DEF RouteInv
<1>3. BookInv'
  BY <1>1, <1>2, BookStep DEF bookVars
<1>4. price \in [Models -> Nat]
  BY <1>2, PricesTyped DEF BookInv, RouteTypes
<1>5. Backed' = Backed /\ RouteError' = RouteError /\ Ids' = Ids
      /\ \A pr, m : LeadsAt(pr, m)' <=> LeadsAt(pr, m)
  BY <1>1, RouteFrame
<1>6. q \in [scan : [Models -> Nat], sort : [Models -> Nat]] /\ q.scan = price
  BY <1>4
<1> HIDE DEF q
<1>c. pc' # "lookup" => Creating'
  BY <1>1, <1>2 DEF Creating
<1>7. CASE RouteError # "none"
  <2>1. err' = RouteError /\ pc' = "done" /\ primary' = primary
    BY <1>7 DEF Resolve
  <2>2. RouteError \in Errors
    BY DEF RouteError, Errors
  <2>3. RouteTypes'
    BY <1>1, <1>2, <1>5, <1>6, <2>1, <2>2 DEF RouteTypes
  <2>4. Resolving' /\ PrimaryLeads' /\ HeadLeads' /\ LookupsHold'
    BY <1>1, <1>2, <1>5, <1>7, <2>1 DEF Resolving, PrimaryLeads, HeadLeads, LookupsHold
  <2> QED
    BY <1>3, <1>c, <2>1, <2>3, <2>4 DEF RouteInv
<1>8. CASE RouteError = "none"
  <2>1. primary' = Best /\ pc' = "chain" /\ err' = err
    BY <1>8 DEF Resolve
  <2>2. candidates = Backed /\ Backed # {} /\ Backed \in SUBSET Ids
    BY <1>8, NoErrorMeansBacked, FiltersNarrow
  <2>3. FirstIn(RankOrder(price, candidates), candidates, Best)
    BY <1>2, <1>4, <2>2, BestLeads DEF RouteTypes
  <2>4. LeadsAt(price, Best)
    <3>1. Best \in Backed /\ \A i \in Backed : i # Best => <<Best, i>> \in RankOrder(price, Backed)
      BY <2>2, <2>3 DEF FirstIn
    <3> QED
      BY <3>1 DEF LeadsAt, RankOrder
  <2>5. RouteTypes'
    <3>1. Best \in Ids
      BY <2>2, <2>4 DEF LeadsAt
    <3> QED
      BY <1>1, <1>2, <1>5, <1>6, <2>1, <3>1 DEF RouteTypes
  <2>6. Resolving' /\ HeadLeads' /\ LookupsHold'
    BY <1>1, <1>2, <1>5, <1>8, <2>1 DEF Resolving, HeadLeads, LookupsHold
  <2>7. PrimaryLeads'
    <3>1. PICK pr, m : pr = price /\ m = Best /\ LeadsAt(pr, m)
      BY <2>4
    <3>2. LeadsAt(pr, m)' /\ pr = quoted'.scan /\ m = primary'
      BY <1>1, <1>5, <1>6, <2>1, <3>1
    <3> QED
      BY <3>2 DEF PrimaryLeads
  <2> QED
    BY <1>3, <1>c, <2>1, <2>5, <2>6, <2>7 DEF RouteInv
<1> QED
  BY <1>7, <1>8

\* ResolveChain sorts the same routes at the prices it read.
LEMMA ResolveChainKeeps == RouteInv /\ ResolveChain => RouteInv'
<1> SUFFICES ASSUME RouteInv, ResolveChain PROVE RouteInv'
  OBVIOUS
<1> DEFINE order == {p \in candidates \X candidates : ranksBefore(p[1], p[2])}
           ordered == SortedBy(candidates, order)
           q == [quoted EXCEPT !.sort = price]
<1>1. /\ pc = "chain" /\ pc' = "create"
      /\ head' = IF ordered = <<>> THEN 0 ELSE ordered[1]
      /\ chain' = Alternates(ordered) /\ quoted' = q
      /\ UNCHANGED <<book, tx, stmt, table, others, req, primary, err, base, looked, kept, reserved, still>>
  BY DEF ResolveChain, bookVars, creation
<1>2. BookInv /\ RouteTypes /\ Resolving /\ PrimaryLeads /\ Creating
  BY DEF RouteInv
<1>3. BookInv'
  BY <1>1, <1>2, BookStep DEF bookVars
<1>4. price \in [Models -> Nat]
  BY <1>2, PricesTyped DEF BookInv, RouteTypes
<1>5. Backed' = Backed /\ RouteError' = RouteError /\ Ids' = Ids
      /\ \A pr, m : LeadsAt(pr, m)' <=> LeadsAt(pr, m)
  BY <1>1, RouteFrame
<1>6. /\ q \in [scan : [Models -> Nat], sort : [Models -> Nat]]
      /\ q.sort = price /\ q.scan = quoted.scan
  BY <1>2, <1>4 DEF RouteTypes
<1>7. candidates = Backed /\ Backed # {} /\ Backed \in SUBSET Ids /\ RouteError = "none" /\ err = "none"
  BY <1>1, <1>2, NoErrorMeansBacked, FiltersNarrow DEF Resolving
<1>8. order = RankOrder(price, Backed)
  BY <1>7, RanksAtPrice DEF RankOrder
<1>9. IsFiniteSet(Backed) /\ Orders(order, Backed) /\ ordered = SortedBy(Backed, order)
  <2>1. IsFiniteSet(Backed) /\ Orders(RankOrder(price, Backed), Backed)
    BY <1>2, <1>4, <1>7, RoutesFinite, RanksOrder DEF RouteTypes
  <2> HIDE DEF order
  <2> QED
    BY <1>7, <1>8, <2>1
<1> DEFINE n == Cardinality(Backed)
<1> HIDE DEF q, order, ordered
<1>10. /\ n \in Nat /\ n > 0 /\ ordered \in [1..n -> Backed]
       /\ \A i, j \in 1..n : i # j => ordered[i] # ordered[j]
       /\ \A x \in Backed : \E i \in 1..n : ordered[i] = x
       /\ FirstIn(order, Backed, ordered[1])
  <2> DEFINE B == Backed
  <2>1. IsFiniteSet(B) /\ Orders(order, B) /\ ordered = SortedBy(B, order) /\ B # {}
    BY <1>7, <1>9
  <2> HIDE DEF B
  <2>2. /\ Cardinality(B) \in Nat /\ ordered \in [1..Cardinality(B) -> B]
        /\ \A i, j \in 1..Cardinality(B) : i # j => ordered[i] # ordered[j]
        /\ \A x \in B : \E i \in 1..Cardinality(B) : ordered[i] = x
        /\ Cardinality(B) > 0 /\ FirstIn(order, B, ordered[1])
    BY <2>1, SortedByLists
  <2> QED
    BY <2>2 DEF B
<1> HIDE DEF n
<1>11. head' = ordered[1]
  <2>1. ordered # <<>>
    BY <1>10
  <2> QED
    BY <1>1, <2>1
<1>12. LeadsAt(price, head')
  <2>1. ordered[1] \in Backed /\ \A i \in Backed : i # ordered[1] => <<ordered[1], i>> \in RankOrder(price, Backed)
    BY <1>8, <1>10 DEF FirstIn
  <2>2. ordered[1] \in Backed /\ \A i \in Backed : i # ordered[1] => RanksAt(price, ordered[1], i)
    BY <2>1 DEF RankOrder
  <2> QED
    BY <1>11, <2>2 DEF LeadsAt
<1>13. chain' \in Seq(Backed) /\ Range(chain') = Backed \ {primary} /\ IsInjective(chain')
  BY <1>1, <1>10, AlternatesAreTheOthers
<1>14. RouteTypes'
  <2>1. head' \in Ids
    BY <1>7, <1>12 DEF LeadsAt
  <2>2. chain' \in Seq(Ids)
    BY <1>7, <1>13
  <2> QED
    BY <1>1, <1>2, <1>5, <1>6, <2>1, <2>2 DEF RouteTypes
<1>15. Resolving'
  BY <1>1, <1>2, <1>5, <1>7 DEF Resolving
<1>16. PrimaryLeads'
  <2>1. PICK pr, m : pr = quoted.scan /\ m = primary /\ LeadsAt(pr, m)
    BY <1>1, <1>2, <1>7 DEF PrimaryLeads
  <2>2. LeadsAt(pr, m)' /\ pr = quoted'.scan /\ m = primary'
    BY <1>1, <1>5, <1>6, <2>1
  <2> QED
    BY <2>2 DEF PrimaryLeads
<1>17. HeadLeads'
  <2>1. PICK pr, m : pr = price /\ m = head' /\ LeadsAt(pr, m)
    BY <1>12
  <2>2. LeadsAt(pr, m)' /\ pr = quoted'.sort /\ m = head'
    BY <1>1, <1>5, <1>6, <2>1
  <2> QED
    BY <1>1, <1>5, <1>13, <2>2 DEF HeadLeads
<1>18. Creating' /\ LookupsHold'
  <2>1. looked = 0 /\ kept = {} /\ Len(chain') \in Nat
    BY <1>1, <1>2, <1>13 DEF Creating
  <2> QED
    BY <1>1, <1>2, <2>1 DEF Creating, LookupsHold
<1> QED
  BY <1>3, <1>14, <1>15, <1>16, <1>17, <1>18 DEF RouteInv

\* What was resolved stays as it is while the job is created and prices move.
LEMMA ResolutionStays ==
  ASSUME RouteInv, [BookNext]_bookVars, UNCHANGED resolution,
         \/ pc' = pc
         \/ /\ pc \in {"create", "lookup", "reserve"}
            /\ pc' \in {"lookup", "reserve", "done"}
  PROVE  /\ BookInv' /\ RouteTypes' /\ Resolving' /\ PrimaryLeads' /\ HeadLeads'
         /\ UNCHANGED <<table, others, primary, chain, err>>
<1>1. UNCHANGED <<table, others, req, primary, head, chain, err, quoted>>
  BY DEF resolution
<1>2. BookInv'
  BY BookStep DEF RouteInv
<1>3. Backed' = Backed /\ RouteError' = RouteError /\ Ids' = Ids
      /\ \A pr, m : LeadsAt(pr, m)' <=> LeadsAt(pr, m)
  BY <1>1, RouteFrame
<1>4. RouteTypes' /\ Resolving'
  BY <1>1, <1>3 DEF RouteInv, RouteTypes, Resolving
<1>5. PrimaryLeads' /\ HeadLeads'
  BY <1>1, <1>3 DEF RouteInv, RouteTypes, PrimaryLeads, HeadLeads
<1> QED
  BY <1>1, <1>2, <1>4, <1>5

\* The primary and the alternates of an accepted request have prices.
LEMMA RoutePriced ==
  ASSUME RouteInv, pc \notin {"resolve", "chain"}, err = "none"
  PROVE  PriceOf(primary) \in Nat
<1>1. primary \in Ids /\ table \in Seq(Route)
  BY FiltersNarrow DEF RouteInv, RouteTypes, PrimaryLeads, LeadsAt
<1>2. price \in [Models -> Nat]
  BY PricesTyped DEF RouteInv, BookInv, RouteTypes
<1>3. table[primary].model \in Models
  BY <1>1, RowTypes
<1> QED
  BY <1>2, <1>3 DEF PriceOf

\* The transaction looks up the primary's price.
LEMMA LookupPrimaryKeeps == RouteInv /\ LookupPrimary => RouteInv'
<1> SUFFICES ASSUME RouteInv, LookupPrimary PROVE RouteInv'
  OBVIOUS
<1> DEFINE P == PriceOf(primary)
<1>1. /\ pc = "create" /\ base' = (IF chain = <<>> THEN 0 ELSE P) /\ still' = TRUE
      /\ pc' = IF base' = 0 THEN "reserve" ELSE "lookup"
      /\ UNCHANGED bookVars /\ UNCHANGED resolution /\ UNCHANGED <<looked, kept, reserved>>
  BY DEF LookupPrimary
<1>2. /\ BookInv' /\ RouteTypes' /\ Resolving' /\ PrimaryLeads' /\ HeadLeads'
      /\ UNCHANGED <<table, others, primary, chain, err>>
  BY <1>1, ResolutionStays
<1>3. Creating /\ err = "none" /\ chain \in Seq(Ids)
  BY <1>1 DEF RouteInv, Resolving, RouteTypes
<1>4. P \in Nat
  BY <1>1, <1>3, RoutePriced
<1>5. P' = P
  BY <1>1, <1>2 DEF PriceOf, price, ActivePrice, ActiveRows, bookVars
<1> HIDE DEF P
<1>6. looked = 0 /\ kept = {} /\ Len(chain) \in Nat /\ (chain # <<>> => Len(chain) > 0)
  BY <1>1, <1>3 DEF Creating
<1>7. Creating'
  BY <1>1, <1>2, <1>3, <1>4, <1>6 DEF Creating
<1>8. LookupsHold'
  <2>1. chain' # <<>> => base' = P'
    BY <1>1, <1>2, <1>5
  <2>2. looked' = 0 /\ pc' # "done"
    BY <1>1, <1>6
  <2> QED
    BY <2>1, <2>2 DEF LookupsHold, P
<1> QED
  BY <1>2, <1>7, <1>8 DEF RouteInv

\* And the price of one alternate.
LEMMA LookupCandidateKeeps == RouteInv /\ LookupCandidate => RouteInv'
<1> SUFFICES ASSUME RouteInv, LookupCandidate PROVE RouteInv'
  OBVIOUS
<1> DEFINE k == looked + 1
           same == chain[k] # primary /\ PriceOf(chain[k]) = base
<1>1. /\ pc = "lookup" /\ looked' = k
      /\ kept' = (IF same THEN kept \cup {k} ELSE kept)
      /\ pc' = IF k = Len(chain) THEN "reserve" ELSE "lookup"
      /\ UNCHANGED bookVars /\ UNCHANGED resolution /\ UNCHANGED <<base, reserved, still>>
  BY DEF LookupCandidate
<1>2. /\ BookInv' /\ RouteTypes' /\ Resolving' /\ PrimaryLeads' /\ HeadLeads'
      /\ UNCHANGED <<table, others, primary, chain, err>>
  BY <1>1, ResolutionStays
<1>3. Creating /\ LookupsHold /\ chain \in Seq(Ids)
  BY DEF RouteInv, RouteTypes
<1>4. \A i : PriceOf(i)' = PriceOf(i)
  BY <1>1, <1>2 DEF PriceOf, price, ActivePrice, ActiveRows, bookVars
<1>5. /\ looked \in Nat /\ Len(chain) \in Nat /\ looked < Len(chain) /\ kept \subseteq 1..looked
      /\ base \in Nat /\ base # 0 /\ reserved \in Nat /\ still \in BOOLEAN
  BY <1>1, <1>3 DEF Creating
<1>6. looked' = looked + 1
  BY <1>1
<1> HIDE DEF same
<1>7. Creating'
  <2>1. kept' \subseteq 1..(looked + 1)
    BY <1>1, <1>5
  <2> QED
    BY <1>1, <1>2, <1>5, <1>6, <2>1 DEF Creating
<1>8. ASSUME err' = "none", still'
      PROVE  /\ chain' # <<>> => base' = PriceOf(primary)'
             /\ \A n \in 1..looked' : n \in kept' <=> chain'[n] # primary' /\ PriceOf(chain[n]) = base'
  <2>1. /\ chain # <<>> => base = PriceOf(primary)
        /\ \A n \in 1..looked : n \in kept <=> chain[n] # primary /\ PriceOf(chain[n]) = base
    BY <1>1, <1>2, <1>3, <1>5, <1>8 DEF LookupsHold
  <2>2. ASSUME NEW n \in 1..looked'
        PROVE  n \in kept' <=> chain'[n] # primary' /\ PriceOf(chain[n]) = base'
    <3>1. CASE n = k
      BY <1>1, <1>2, <1>5, <3>1 DEF same
    <3>2. CASE n # k
      <4>1. n \in 1..looked /\ (n \in kept' <=> n \in kept)
        BY <1>1, <1>5, <1>6, <3>2
      <4> QED
        BY <1>1, <1>2, <2>1, <4>1
    <3> QED
      BY <3>1, <3>2
  <2> QED
    BY <1>1, <1>2, <1>4, <2>1, <2>2
<1>9. LookupsHold'
  <2>1. \A n : PriceOf(chain[n])' = PriceOf(chain[n])
    BY <1>2, <1>4 DEF PriceOf
  <2>2. pc' # "done"
    BY <1>1
  <2> QED
    BY <1>8, <2>1, <2>2 DEF LookupsHold
<1> QED
  BY <1>2, <1>7, <1>9 DEF RouteInv

\* The reservation reads the primary's price again.
LEMMA ReserveKeeps == RouteInv /\ Reserve => RouteInv'
<1> SUFFICES ASSUME RouteInv, Reserve PROVE RouteInv'
  OBVIOUS
<1>1. /\ pc = "reserve" /\ pc' = "done" /\ reserved' = PriceOf(primary)
      /\ UNCHANGED bookVars /\ UNCHANGED resolution /\ UNCHANGED <<base, looked, kept, still>>
  BY DEF Reserve
<1>2. /\ BookInv' /\ RouteTypes' /\ Resolving' /\ PrimaryLeads' /\ HeadLeads'
      /\ UNCHANGED <<table, others, primary, chain, err>>
  BY <1>1, ResolutionStays
<1>3. Creating /\ LookupsHold /\ err = "none"
  BY <1>1 DEF RouteInv, Resolving
<1>4. PriceOf(primary) \in Nat
  BY <1>1, <1>3, RoutePriced
<1>5. UNCHANGED <<table, price, primary, chain>>
  BY <1>1, <1>2 DEF price, ActivePrice, ActiveRows, bookVars
<1>6. Creating'
  BY <1>1, <1>2, <1>3, <1>4 DEF Creating
<1>7. LookupsHold'
  BY <1>1, <1>2, <1>3, <1>5 DEF LookupsHold, PriceOf
<1> QED
  BY <1>2, <1>6, <1>7 DEF RouteInv

\* Edits of the book change nothing that was resolved, and are remembered.
LEMMA PricesChangeKeeps ==
  ASSUME RouteInv, [BookNext]_bookVars, UNCHANGED <<resolution, pc, base, looked, kept, reserved>>,
         still' \in BOOLEAN, still' => still /\ price' = price
  PROVE  RouteInv'
<1>1. /\ BookInv' /\ RouteTypes' /\ Resolving' /\ PrimaryLeads' /\ HeadLeads'
      /\ UNCHANGED <<table, others, primary, chain, err>>
  BY ResolutionStays, Zenon
<1>2. Creating /\ LookupsHold
  BY DEF RouteInv
<1>3. Creating'
  BY <1>1, <1>2 DEF Creating
<1>4. LookupsHold'
  BY <1>1, <1>2 DEF LookupsHold, PriceOf
<1> QED
  BY <1>1, <1>3, <1>4 DEF RouteInv

\* Every step preserves the invariant.
LEMMA RouteStep == RouteInv /\ [Next]_vars => RouteInv'
<1> SUFFICES ASSUME RouteInv, [Next]_vars PROVE RouteInv'
  OBVIOUS
<1>1. CASE Resolve
  BY <1>1, ResolveKeeps
<1>2. CASE ResolveChain
  BY <1>2, ResolveChainKeeps
<1>3. CASE LookupPrimary
  BY <1>3, LookupPrimaryKeeps
<1>4. CASE LookupCandidate
  BY <1>4, LookupCandidateKeeps
<1>5. CASE Reserve
  BY <1>5, ReserveKeeps
<1>6. CASE PricesChange
  <2>1. /\ [BookNext]_bookVars /\ UNCHANGED <<resolution, pc, base, looked, kept, reserved>>
        /\ still' = (still /\ price' = price)
    BY <1>6 DEF PricesChange
  <2> QED
    BY <2>1, PricesChangeKeeps
<1>7. CASE UNCHANGED vars
  <2>1. /\ UNCHANGED bookVars /\ UNCHANGED <<resolution, pc, base, looked, kept, reserved, still>>
        /\ UNCHANGED others
    BY <1>7 DEF vars, routeVars, creation, resolution
  <2>2. price' = price /\ still \in BOOLEAN
    BY <2>1 DEF price, ActivePrice, ActiveRows, bookVars, RouteInv, Creating
  <2> QED
    BY <2>1, <2>2, PricesChangeKeeps
<1> QED
  BY <1>1, <1>2, <1>3, <1>4, <1>5, <1>6, <1>7 DEF Next

\* Every behaviour satisfies the invariant.
LEMMA RouteAlways == Spec => []RouteInv
BY RouteStarts, RouteStep, PTL DEF Spec

-----------------------------------------------------------------------------
(* Theorems *)

\* The variables stay in their types, whatever is resolved while prices move.
THEOREM RoutesTyped == Spec => []TypeOK
<1>1. RouteInv => TypeOK
  BY DEF RouteInv, BookInv, RouteTypes, Creating, TypeOK
<1> QED
  BY <1>1, RouteAlways, PTL

\* The invariant gives the routes of the handler's chain.
LEMMA ChainIsComplete == RouteInv => NoRouteLost
<1> SUFFICES ASSUME RouteInv, pc \notin {"resolve", "chain"}, err = "none"
    PROVE  /\ {primary} \cup Range(chain) = {i \in Ids : Suits(i) /\ Reconcile(i) = "valid"}
           /\ primary \notin Range(chain) /\ IsInjective(chain)
  BY DEF NoRouteLost
<1>1. Range(chain) = Backed \ {primary} /\ IsInjective(chain)
  BY DEF RouteInv, HeadLeads
<1>2. primary \in Backed
  BY DEF RouteInv, RouteTypes, PrimaryLeads, LeadsAt
<1>3. Backed = {i \in Ids : Suits(i) /\ Reconcile(i) = "valid"}
  BY BackedSuits DEF RouteInv, RouteTypes
<1> QED
  BY <1>1, <1>2, <1>3

\* And those the transaction kept of it.
LEMMA KeptAreSamePrice == RouteInv => SamePriceFallbacks
<1> SUFFICES ASSUME RouteInv, pc = "done", err = "none", reserved # 0, still
    PROVE  Carried = {i \in Ids \ {primary} : /\ Suits(i) /\ Reconcile(i) = "valid"
                                              /\ PriceOf(i) = reserved}
  BY DEF SamePriceFallbacks
<1>1. /\ chain # <<>> => base = PriceOf(primary)
      /\ base # 0 => \A n \in 1..looked :
                        n \in kept <=> chain[n] # primary /\ PriceOf(chain[n]) = base
      /\ reserved = PriceOf(primary)
  BY DEF RouteInv, LookupsHold
<1>2. /\ chain \in Seq(Ids) /\ kept \subseteq 1..looked /\ looked \in 0..Len(chain)
      /\ base = 0 => looked = 0
      /\ base # 0 => looked = Len(chain)
  BY DEF RouteInv, RouteTypes, Creating
<1>3. Range(chain) = {i \in Ids \ {primary} : Suits(i) /\ Reconcile(i) = "valid"}
  BY ChainIsComplete DEF NoRouteLost
<1>4. ASSUME NEW i \in Carried PROVE i \in Range(chain) /\ PriceOf(i) = reserved
  <2>1. PICK n \in kept : i = chain[n]
    BY DEF Carried
  <2>2. n \in 1..looked /\ n \in 1..Len(chain) /\ base # 0
    BY <1>2, <2>1
  <2>3. chain # <<>> /\ chain[n] \in Range(chain)
    BY <1>2, <2>2 DEF Range
  <2> QED
    BY <1>1, <2>1, <2>2, <2>3
<1>5. ASSUME NEW i \in Range(chain), PriceOf(i) = reserved PROVE i \in Carried
  <2>1. PICK n \in 1..Len(chain) : i = chain[n]
    BY <1>2 DEF Range
  <2>2. chain # <<>> /\ i # primary
    BY <1>2, <1>3, <2>1
  <2>3. base = reserved /\ base # 0 /\ n \in 1..looked
    BY <1>1, <1>2, <2>1, <2>2
  <2> QED
    BY <1>1, <1>5, <2>1, <2>2, <2>3 DEF Carried
<1> QED
  BY <1>3, <1>4, <1>5

\* And the reason of a failure.
LEMMA FailureHasReason == RouteInv => FailsForItsReason
<1> SUFFICES ASSUME RouteInv, pc = "done"
    PROVE  /\ err # "none" <=> ~\E i \in Ids : Suits(i) /\ Reconcile(i) = "valid"
           /\ err = "requested_provider_unavailable" => req.pin \notin Available \cup {0}
           /\ Active # {} /\ req.pin \notin Available \cup {0} =>
                 err = "requested_provider_unavailable"
           /\ err = "route_capability_mismatch" => \E i \in Ids : Suits(i)
           /\ (\E i \in Ids : Suits(i)) => err \in {"none", "route_capability_mismatch"}
  BY DEF FailsForItsReason
<1>1. err = RouteError /\ table \in Seq(Route) /\ req \in Request
  BY DEF RouteInv, Resolving, RouteTypes
<1>2. Backed = {i \in Ids : Suits(i) /\ Reconcile(i) = "valid"}
  BY <1>1, BackedSuits
<1>3. (\E i \in Ids : Suits(i)) <=> Previewing # {}
  BY <1>1, PreviewingSuits, FiltersNarrow
<1>4. err # "none" <=> Backed = {}
  BY <1>1, NoErrorMeansBacked
<1>5. err = "requested_provider_unavailable" => req.pin \notin Available \cup {0}
  BY <1>1 DEF RouteError
<1>6. Active # {} /\ req.pin \notin Available \cup {0} => err = "requested_provider_unavailable"
  BY <1>1 DEF RouteError
<1>7. err = "route_capability_mismatch" => Previewing # {}
  BY <1>1 DEF RouteError
<1>8. Previewing # {} => err \in {"none", "route_capability_mismatch"}
  BY <1>1, FiltersNarrow DEF RouteError
<1> QED
  BY <1>2, <1>3, <1>4, <1>5, <1>6, <1>7, <1>8

\* For every route table, registry and request, with prices edited at any moment:
\* the created job carries exactly the routes that may draw it at the price its
\* reservation read, as long as no price moved between the transaction's first
\* lookup and that read (samePriceFallbacksWithQueries), and a refusal names what
\* is missing.
THEOREM JobCarriesItsRoutes == Spec => []CarriesItsRoutes
<1>1. RouteInv => CarriesItsRoutes
  BY ChainIsComplete, KeptAreSamePrice, FailureHasReason DEF CarriesItsRoutes
<1> QED
  BY <1>1, RouteAlways, PTL

\* What comes first is not beaten in the keys of the intent.
LEMMA LeaderKeys ==
  ASSUME NEW k \in [1..9 -> Int], Len(k) = 9, Decide(k)
  PROVE  k[1] <= 0 /\ (k[1] = 0 => k[2] <= 0)
<1>1. PICK n \in 1..9 : k[n] < 0 /\ \A j \in 1..(n - 1) : k[j] = 0
  BY DEF Decide
<1>2. CASE n = 1
  BY <1>1, <1>2
<1>3. CASE n = 2
  BY <1>1, <1>3
<1>4. CASE n > 2
  BY <1>1, <1>4
<1> QED
  BY <1>2, <1>3, <1>4

\* For every table and every edit of prices meanwhile: a draft is drawn by a
\* cheapest priced route, a commit by one of the highest tier (ranksBefore).
THEOREM PrimaryHonoursIntent == Spec => []IntentHonoured
<1>1. RouteInv => IntentHonoured
  <2> SUFFICES ASSUME RouteInv, primary # 0,
                      NEW i \in {j \in Ids : Suits(j) /\ Reconcile(j) = "valid"}
      PROVE  /\ req.intent = "draft" /\ quoted.scan[table[i].model] # 0 =>
                   quoted.scan[table[primary].model] \in 1..quoted.scan[table[i].model]
             /\ req.intent = "commit" =>
                   qualityTierRank(table[primary].tier) >= qualityTierRank(table[i].tier)
    BY DEF IntentHonoured
  <2>1. table \in Seq(Route) /\ req \in Request /\ quoted.scan \in [Models -> Nat]
    BY DEF RouteInv, RouteTypes
  <2>2. PICK pr, m : pr = quoted.scan /\ m = primary /\ LeadsAt(pr, m)
    BY DEF RouteInv, RouteTypes, Resolving, PrimaryLeads
  <2>3. i \in Backed /\ i \in Ids /\ m \in Backed /\ m \in Ids
    BY <2>1, <2>2, BackedSuits, FiltersNarrow DEF LeadsAt
  <2>4. pr[table[i].model] \in Nat /\ pr[table[m].model] \in Nat
    BY <2>1, <2>2, <2>3, RowTypes
  <2>5. qualityTierRank(table[i].tier) \in Int /\ qualityTierRank(table[m].tier) \in Int
    BY DEF qualityTierRank
  <2>6. CASE i = m
    BY <2>2, <2>4, <2>5, <2>6
  <2>7. CASE i # m
    <3>1. KeysAt(pr, m, i) \in [1..9 -> Int] /\ Len(KeysAt(pr, m, i)) = 9 /\ Decide(KeysAt(pr, m, i))
      BY <2>1, <2>2, <2>3, <2>7, KeysCompare DEF LeadsAt, RanksAt
    <3>2. KeysAt(pr, m, i)[1] <= 0 /\ (KeysAt(pr, m, i)[1] = 0 => KeysAt(pr, m, i)[2] <= 0)
      BY <3>1, LeaderKeys
    <3>3. CASE req.intent = "draft"
      <4> DEFINE x == pr[table[m].model]
                 y == pr[table[i].model]
      <4>1. (IF x = 0 \/ y = 0 THEN FirstIf(x # 0, y # 0) ELSE x - y) <= 0
        BY <3>2, <3>3 DEF KeysAt, DraftKeyAt
      <4>2. x \in Nat /\ y \in Nat
        BY <2>4
      <4> HIDE DEF x, y
      <4>3. y # 0 => x \in 1..y
        BY <4>1, <4>2 DEF FirstIf
      <4> QED
        BY <2>2, <3>3, <4>3 DEF x, y
    <3>4. CASE req.intent = "commit"
      <4>1. KeysAt(pr, m, i)[1] = 0
        BY <3>4 DEF KeysAt
      <4>2. KeysAt(pr, m, i)[2] = qualityTierRank(table[i].tier) - qualityTierRank(table[m].tier)
        BY <3>4 DEF KeysAt, TierKey
      <4>3. qualityTierRank(table[m].tier) >= qualityTierRank(table[i].tier)
        BY <2>5, <3>2, <4>1, <4>2
      <4> QED
        BY <2>2, <3>4, <4>3
    <3> QED
      BY <3>3, <3>4
  <2> QED
    BY <2>6, <2>7
<1> QED
  BY <1>1, RouteAlways, PTL

\* ResolveChain(...)[0] equals Resolve(...), as its comment says, whenever both
\* saw the same prices.
THEOREM ChainStartsWithPrimary == Spec => []ScanAgreesWithSort
<1>1. RouteInv => ScanAgreesWithSort
  <2> SUFFICES ASSUME RouteInv, head # 0, quoted.scan = quoted.sort PROVE head = primary
    BY DEF ScanAgreesWithSort
  <2>1. pc \notin {"resolve", "chain"} /\ err = "none"
    BY DEF RouteInv, RouteTypes, Resolving
  <2>2. PICK pr, m : pr = quoted.scan /\ m = primary /\ LeadsAt(pr, m)
    BY <2>1 DEF RouteInv, PrimaryLeads
  <2>3. PICK qr, h : qr = quoted.sort /\ h = head /\ LeadsAt(qr, h)
    BY <2>1 DEF RouteInv, HeadLeads
  <2>4. Orders(RankOrder(pr, Backed), Backed)
    BY <2>2, RanksOrder, FiltersNarrow DEF RouteInv, RouteTypes
  <2>5. m # h => RanksAt(pr, m, h) /\ RanksAt(pr, h, m)
    BY <2>2, <2>3 DEF LeadsAt
  <2>6. m \in Backed /\ h \in Backed
    BY <2>2, <2>3 DEF LeadsAt
  <2>7. m # h => <<m, h>> \in RankOrder(pr, Backed) /\ <<h, m>> \in RankOrder(pr, Backed)
    BY <2>5, <2>6 DEF RankOrder
  <2>8. m = h
    BY <2>4, <2>6, <2>7 DEF Orders
  <2> QED
    BY <2>2, <2>3, <2>8
<1> QED
  BY <1>1, RouteAlways, PTL
=============================================================================
