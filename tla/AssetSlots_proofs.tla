-------------------------- MODULE AssetSlots_proofs --------------------------
(***************************************************************************)
(* Proofs about module AssetSlots, for any number of regenerations, reuse  *)
(* requests, previews and rollbacks.  The inductive invariant says who is  *)
(* in the supersede transaction (one regeneration at a time), that its     *)
(* version is ahead of every published one, what it is about to archive,   *)
(* and that an archived row points at the row of a later regeneration.     *)
(* Versions never exceed the number of rows, so that the links, which      *)
(* climb in version, come to an end within Latest's bound.                 *)
(* The last part is about the plan a pack request makes of these assets,   *)
(* module PackReuse, by an invariant over the roles it has visited.        *)
(***************************************************************************)
EXTENDS AssetSlots, PackReuse, FiniteSetTheorems, NaturalsInduction, WellFoundedInduction, TLAPS

-----------------------------------------------------------------------------
(* Finite sets of numbers, and recursion on a range *)

\* Induction on finite sets, as a minimal counterexample.
LEMMA MinimalSubset ==
  ASSUME NEW S, IsFiniteSet(S), NEW T, T \subseteq SUBSET S, T # {}
  PROVE  \E x \in T : \A y \in T : y \subseteq x => y = x
<1>1. FiniteSubsetsOf(S) = SUBSET S
  BY FS_FiniteSubsetsOfFinite
<1>2. IsWellFoundedOn(StrictSubsetOrdering(S), SUBSET S)
  BY <1>1, FS_StrictSubsetOrderingWellFounded
<1>3. PICK x \in T : \A y \in T : ~ (<<y, x>> \in StrictSubsetOrdering(S))
  BY <1>2, WFMin
<1> QED BY <1>3 DEF StrictSubsetOrdering

\* m is the greatest member of s; s is a nonempty set of naturals.
Greatest(s, m) == m \in s /\ \A y \in s : m >= y
Bounded(s) == s \subseteq Nat /\ s # {}

\* A finite, nonempty set of naturals has a greatest member.
LEMMA GreatestExists ==
  ASSUME NEW S, IsFiniteSet(S)
  PROVE  Bounded(S) => \E m : Greatest(S, m)
<1> DEFINE T == {s \in SUBSET S : Bounded(s) /\ ~ \E m : Greatest(s, m)}
<1>1. SUFFICES ASSUME T # {} PROVE FALSE
  OBVIOUS
<1>2. PICK x \in T : \A y \in T : y \subseteq x => y = x
  <2>1. T \subseteq SUBSET S OBVIOUS
  <2> HIDE DEF T
  <2> QED BY <1>1, <2>1, MinimalSubset
<1> HIDE DEF T
<1>3. /\ Bounded(x) /\ ~ \E m : Greatest(x, m)
      /\ \A e \in x : x \ {e} \in SUBSET S /\ x \ {e} \notin T
  BY <1>2 DEF T
<1>4. PICK e \in x : TRUE
  BY <1>3 DEF Bounded
<1>5. CASE x \ {e} = {}
  BY <1>3, <1>4, <1>5 DEF Greatest, Bounded
<1>6. CASE x \ {e} # {}
  <2>1. \E m : Greatest(x \ {e}, m)
    BY <1>3, <1>6 DEF T, Bounded
  <2>2. PICK m : Greatest(x \ {e}, m)
    BY <2>1
  <2>3. m \in Nat /\ e \in Nat /\ x \subseteq Nat /\ m \in x
    BY <1>3, <1>4, <2>2 DEF Bounded, Greatest
  <2>4. CASE m >= e
    BY <1>3, <2>2, <2>3, <2>4 DEF Greatest
  <2>5. CASE ~(m >= e)
    <3>1. \A y \in x : e >= y
      BY <2>2, <2>3, <2>5 DEF Greatest
    <3> QED BY <1>3, <1>4, <3>1 DEF Greatest
  <2> QED BY <2>4, <2>5
<1> QED BY <1>5, <1>6

\* It is its maximum.
LEMMA MaxIsUpper ==
  ASSUME NEW S, IsFiniteSet(S), S \subseteq Nat, S # {}
  PROVE  Max(S) \in S /\ \A y \in S : y <= Max(S)
<1>1. \E m : Greatest(S, m)
  BY GreatestExists DEF Bounded
<1>2. \E m \in S : \A y \in S : m >= y
  BY <1>1 DEF Greatest
<1> QED BY <1>2 DEF Max

\* Induction on the naturals, for a set.
LEMMA SetInduction ==
  ASSUME NEW P, 0 \in P, \A n \in Nat : n \in P => n + 1 \in P
  PROVE  Nat \subseteq P
<1> DEFINE T == Nat \ P
<1>1. SUFFICES ASSUME T # {} PROVE FALSE
  OBVIOUS
<1>2. PICK x \in T : \A y \in T : ~(<<y, x>> \in OpToRel(<, Nat))
  <2>1. IsWellFoundedOn(OpToRel(<, Nat), Nat)
    BY NatLessThanWellFounded
  <2> HIDE DEF T
  <2>2. T \subseteq Nat BY DEF T
  <2> QED BY <1>1, <2>1, <2>2, WFMin
<1>3. \A y \in T : ~(y < x)
  BY <1>2 DEF OpToRel
<1> QED BY <1>3

\* A nonempty set of naturals contains its minimum.
LEMMA MinIsMember ==
  ASSUME NEW S, S \subseteq Nat, S # {}
  PROVE  Min(S) \in S
<1>1. PICK x \in S : \A y \in S : ~(<<y, x>> \in OpToRel(<, Nat))
  BY NatLessThanWellFounded, WFMin
<1>2. \A y \in S : ~(y < x)
  BY <1>1 DEF OpToRel
<1>3. \A y \in S : x <= y
  BY <1>2
<1>4. \E m \in S : \A y \in S : m <= y
  BY <1>3
<1> QED BY <1>4 DEF Min

\* One link forward, and none from a row that points nowhere.
Forward(i) == IF rows[i].by \in DOMAIN rows THEN rows[i].by ELSE i
Walk(f, i, n) == IF n = 0 THEN i ELSE Forward(f[n - 1])
Walks(f, i, N) == f = [n \in 0..N |-> Walk(f, i, n)]

\* The function that Latest chooses exists.
LEMMA WalkExists ==
  ASSUME NEW i, NEW N \in Nat
  PROVE  \E f : Walks(f, i, N)
<1> DEFINE P == {n \in Nat : \E f : Walks(f, i, n)}
<1>1. 0 \in P
  <2> DEFINE f == [n \in 0..0 |-> i]
  <2>1. f = [n \in 0..0 |-> Walk(f, i, n)]
    BY DEF Walk
  <2> QED BY <2>1 DEF Walks
<1>2. ASSUME NEW n \in Nat, n \in P
      PROVE  n + 1 \in P
  <2>1. PICK f : Walks(f, i, n)
    BY <1>2
  <2> DEFINE g == [k \in 0..(n + 1) |-> IF k = n + 1 THEN Forward(f[n]) ELSE f[k]]
  <2>2. ASSUME NEW k \in 0..(n + 1)
        PROVE  g[k] = Walk(g, i, k)
    <3>1. CASE k = n + 1
      <4>1. g[n] = f[n] /\ g[k] = Forward(f[n]) /\ k # 0 /\ k - 1 = n
        BY <3>1
      <4> HIDE DEF g
      <4> QED BY <4>1 DEF Walk
    <3>2. CASE k # n + 1
      <4>1. k \in 0..n /\ (k # 0 => k - 1 \in 0..n /\ k - 1 \in 0..(n + 1) /\ k - 1 # n + 1)
        BY <3>2
      <4>2. g[k] = f[k] /\ (k # 0 => g[k - 1] = f[k - 1])
        BY <3>2, <4>1
      <4>3. f[k] = Walk(f, i, k)
        BY <2>1, <4>1 DEF Walks
      <4> HIDE DEF g
      <4> QED BY <4>2, <4>3 DEF Walk
    <3> QED BY <3>1, <3>2
  <2>3. g = [k \in 0..(n + 1) |-> g[k]]
    OBVIOUS
  <2> HIDE DEF g
  <2>4. g = [k \in 0..(n + 1) |-> Walk(g, i, k)]
    BY <2>2, <2>3
  <2> QED BY <2>4 DEF Walks
<1> HIDE DEF P
<1>3. Nat \subseteq P
  BY <1>1, <1>2, SetInduction
<1> QED BY <1>3 DEF P

\* Latest is the end of such a walk.
LEMMA LatestWalks ==
  ASSUME NEW i, Cardinality(Ids) \in Nat
  PROVE  \E f : Walks(f, i, Cardinality(Ids)) /\ Latest(i) = f[Cardinality(Ids)]
<1> DEFINE C == Cardinality(Ids)
           f == CHOOSE g : Walks(g, i, C)
<1>1. Walks(f, i, C)
  BY WalkExists
<1>2. Latest(i) = f[C]
  BY DEF Latest, Walks, Walk, Forward
<1> QED BY <1>1, <1>2

-----------------------------------------------------------------------------
(* The inductive invariant *)

Tx == {"version", "insert", "archive", "commit"}
NoPlain == \A p \in Plain : loc[p].id = NoId

\* Whoever is in the supersede transaction holds the slot's lock.
Turns(p) == pc[p] \in Tx => p \in Forced /\ lock = p

\* An open transaction's id is given out, and nobody sees its row.
Minting(p) ==
    /\ p \in Forced => pc[p] # "lookup"
    /\ p \in Forced /\ pc[p] \in {"start", "version", "insert"} => loc[p].id = NoId
    /\ pc[p] \in {"archive", "commit"} => loc[p].id \in minted \ DOMAIN rows

\* Its version is ahead of every version a regeneration has published.
Ahead(p) ==
    pc[p] \in {"insert", "archive", "commit"} =>
        /\ loc[p].version \in 1..Cardinality(DOMAIN rows) + 1
        /\ \A q \in Forced : pc[q] = "done" => loc[q].version < loc[p].version

\* It is about to archive ready rows, and all of them when none was inserted
\* without the lock.
Archiving(p) ==
    pc[p] = "commit" =>
        /\ loc[p].archive \subseteq Ready(rows)
        /\ NoPlain => Ready(rows) \subseteq loc[p].archive

\* A regeneration that is done has its row, and it was published ready.
Published(p) ==
    p \in Forced /\ pc[p] = "done" =>
        /\ loc[p].id \in DOMAIN rows
        /\ rows[loc[p].id].version = loc[p].version
        /\ rows[loc[p].id].status \in {"ready", "archived"}

\* An archived row points at a regeneration's row, and at a later one's when it
\* is itself a regeneration's.
Linked(i) ==
    rows[i].status = "archived" =>
        \E q \in Forced :
            /\ pc[q] = "done" /\ rows[i].by = loc[q].id
            /\ \A o \in Forced : pc[o] = "done" /\ loc[o].id = i =>
                  loc[o].version < loc[q].version

\* Versions do not outrun the rows.
Counted(i) == rows[i].version <= Cardinality(DOMAIN rows)

\* A row in use points nowhere.
Current(i) == rows[i].status # "archived" => rows[i].by = NoId

OneReady == NoPlain => \A i, j \in Ready(rows) : i = j

SlotInv ==
    /\ TypeOK /\ VersionsNeverCollide /\ OneReady
    /\ \A p \in Procs : /\ Turns(p) /\ Minting(p) /\ Ahead(p) /\ Archiving(p)
                         /\ Published(p)
    /\ \A i \in DOMAIN rows : Linked(i) /\ Counted(i) /\ Current(i)

RowType == [version : 1..Cardinality(Ids), by : Ids \cup {NoId},
            status : {"ready", "preview_ready", "archived"}]
LocType == [id : Ids \cup {NoId}, version : Nat, archive : SUBSET Ids,
            served : Ids \cup {NoId}]
Places == {"start", "version", "insert", "archive", "commit", "lookup", "done"}

\* The ids are finitely many, and so are the rows.
LEMMA RowsFinite ==
  ASSUME TypeOK
  PROVE  /\ Cardinality(Ids) \in Nat /\ NoId \notin Ids
         /\ IsFiniteSet(DOMAIN rows) /\ Cardinality(DOMAIN rows) \in Nat
         /\ Cardinality(DOMAIN rows) <= Cardinality(Ids)
<1>1. IsFiniteSet(Ids) /\ Cardinality(Ids) \in Nat
  BY SlotAssumption, FS_CardinalityType
<1>2. DOMAIN rows \subseteq Ids
  BY DEF TypeOK
<1>3. NoId \notin Ids
  BY SlotAssumption DEF NoId
<1> QED BY <1>1, <1>2, <1>3, FS_Subset, FS_CardinalityType

\* Setting one field of a process' locals.
LEMMA LocUpdates ==
  /\ \A l \in LocType : \A i \in Ids \cup {NoId} :
        /\ [l EXCEPT !.id = i] \in LocType /\ [l EXCEPT !.id = i].id = i
        /\ [l EXCEPT !.id = i].version = l.version /\ [l EXCEPT !.id = i].archive = l.archive
  /\ \A l \in LocType : \A v \in Nat :
        /\ [l EXCEPT !.version = v] \in LocType /\ [l EXCEPT !.version = v].version = v
        /\ [l EXCEPT !.version = v].id = l.id /\ [l EXCEPT !.version = v].archive = l.archive
  /\ \A l \in LocType : \A s \in SUBSET Ids :
        /\ [l EXCEPT !.archive = s] \in LocType /\ [l EXCEPT !.archive = s].archive = s
        /\ [l EXCEPT !.archive = s].id = l.id /\ [l EXCEPT !.archive = s].version = l.version
  /\ \A l \in LocType : \A i \in Ids \cup {NoId} :
        /\ [l EXCEPT !.served = i] \in LocType /\ [l EXCEPT !.served = i].id = l.id
        /\ [l EXCEPT !.served = i].version = l.version
        /\ [l EXCEPT !.served = i].archive = l.archive
<1>1. \A l \in LocType : \A i \in Ids \cup {NoId} :
        /\ [l EXCEPT !.id = i] \in LocType /\ [l EXCEPT !.id = i].id = i
        /\ [l EXCEPT !.id = i].version = l.version /\ [l EXCEPT !.id = i].archive = l.archive
  BY DEF LocType
<1>2. \A l \in LocType : \A v \in Nat :
        /\ [l EXCEPT !.version = v] \in LocType /\ [l EXCEPT !.version = v].version = v
        /\ [l EXCEPT !.version = v].id = l.id /\ [l EXCEPT !.version = v].archive = l.archive
  BY DEF LocType
<1>3. \A l \in LocType : \A s \in SUBSET Ids :
        /\ [l EXCEPT !.archive = s] \in LocType /\ [l EXCEPT !.archive = s].archive = s
        /\ [l EXCEPT !.archive = s].id = l.id /\ [l EXCEPT !.archive = s].version = l.version
  BY DEF LocType
<1>4. \A l \in LocType : \A i \in Ids \cup {NoId} :
        /\ [l EXCEPT !.served = i] \in LocType /\ [l EXCEPT !.served = i].id = l.id
        /\ [l EXCEPT !.served = i].version = l.version
        /\ [l EXCEPT !.served = i].archive = l.archive
  BY DEF LocType
<1> QED BY <1>1, <1>2, <1>3, <1>4

\* A step of process p: its own place and locals, and nobody else's.
Acts(p, s, l) ==
    /\ pc' \in [Procs -> Places] /\ pc'[p] = s /\ loc' \in [Procs -> LocType] /\ loc'[p] = l
    /\ \A q \in Procs : q # p => pc'[q] = pc[q] /\ loc'[q] = loc[q]

\* Goto and an update of the locals make such a step.
LEMMA ActsHow ==
  ASSUME TypeOK, NEW p \in Procs, NEW s \in Places, Goto(p, s), NEW l \in LocType,
         loc' = [loc EXCEPT ![p] = l]
  PROVE  Acts(p, s, l)
<1>1. pc \in [Procs -> Places] /\ loc \in [Procs -> LocType]
  BY DEF TypeOK, Places, LocType
<1>2. pc' = [pc EXCEPT ![p] = s]
  BY DEF Goto
<1> QED BY <1>1, <1>2 DEF Acts

\* In the transaction a process is alone.
LEMMA Alone ==
  ASSUME SlotInv, NEW p \in Procs, pc[p] \in Tx
  PROVE  p \in Forced /\ lock = p /\ \A q \in Procs : q # p => pc[q] \notin Tx
BY DEF SlotInv, Turns

-----------------------------------------------------------------------------
(* Steps that write no row *)

\* What the acting process owes, the rest keeps.
LEMMA RowsStay ==
  ASSUME SlotInv, TypeOK', NEW p \in Procs, NEW s, NEW l, Acts(p, s, l), rows' = rows,
         \A q \in Procs : q # p /\ pc[q] \in Tx => lock' = q,
         \A q \in Procs : q # p /\ pc[q] \in {"archive", "commit"} => loc[q].id \in minted',
         Turns(p)', Minting(p)', Ahead(p)', Archiving(p)',
         p \in Forced => pc[p] # "done" /\ s # "done",
         p \in Plain => l.id = loc[p].id
  PROVE  SlotInv'
<1>1. /\ \A q \in Forced : pc'[q] = "done" <=> pc[q] = "done"
      /\ \A q \in Forced : pc[q] = "done" => loc'[q] = loc[q]
  BY DEF Acts, Procs
<1>2. NoPlain' <=> NoPlain
  BY DEF Acts, NoPlain, Procs
<1>3. VersionsNeverCollide' /\ OneReady'
  BY <1>1, <1>2 DEF SlotInv, VersionsNeverCollide, OneReady
<1>4. ASSUME NEW q \in Procs, q # p
      PROVE  Turns(q)' /\ Minting(q)' /\ Ahead(q)' /\ Archiving(q)'
  <2>1. pc'[q] = pc[q] /\ loc'[q] = loc[q]
    BY <1>4 DEF Acts
  <2>2. Turns(q) /\ Minting(q) /\ Ahead(q) /\ Archiving(q)
    BY DEF SlotInv
  <2>3. Turns(q)'
    BY <1>4, <2>1, <2>2 DEF Turns
  <2>4. Minting(q)'
    BY <1>4, <2>1, <2>2 DEF Minting
  <2>5. Ahead(q)'
    BY <1>1, <2>1, <2>2 DEF Ahead
  <2>6. Archiving(q)'
    BY <1>2, <2>1, <2>2 DEF Archiving
  <2> QED BY <2>3, <2>4, <2>5, <2>6
<1>5. ASSUME NEW q \in Procs
      PROVE  Published(q)'
  BY <1>1 DEF SlotInv, Published
<1>6. ASSUME NEW i \in DOMAIN rows
      PROVE  Linked(i)' /\ Counted(i)' /\ Current(i)'
  <2>1. Linked(i) /\ Counted(i) /\ Current(i)
    BY DEF SlotInv
  <2>2. Linked(i)'
    <3>1. SUFFICES ASSUME rows[i].status = "archived" PROVE Linked(i)'
      BY DEF Linked
    <3>2. PICK q \in Forced :
            /\ pc[q] = "done" /\ rows[i].by = loc[q].id
            /\ \A o \in Forced : pc[o] = "done" /\ loc[o].id = i =>
                  loc[o].version < loc[q].version
      BY <2>1, <3>1 DEF Linked
    <3>3. /\ pc'[q] = "done" /\ rows'[i].by = loc'[q].id
          /\ \A o \in Forced : pc'[o] = "done" /\ loc'[o].id = i =>
                loc'[o].version < loc'[q].version
      BY <1>1, <3>2
    <3> QED BY <3>3 DEF Linked
  <2> QED BY <2>1, <2>2 DEF Counted, Current
<1> QED BY <1>3, <1>4, <1>5, <1>6 DEF SlotInv

\* The lock is granted.
LEMMA AcquireKeeps ==
  ASSUME SlotInv, NEW p \in Procs, AcquireSupersedeLock(p)
  PROVE  SlotInv'
<1>1. /\ p \in Forced /\ pc[p] = "start" /\ lock = Free /\ lock' = p /\ Goto(p, "version")
      /\ UNCHANGED <<rows, minted, loc, aborts>>
  BY DEF AcquireSupersedeLock
<1>2. TypeOK
  BY DEF SlotInv
<1>3. loc[p] \in LocType /\ loc' = [loc EXCEPT ![p] = loc[p]]
  BY <1>1, <1>2 DEF TypeOK, LocType
<1>4. Acts(p, "version", loc[p])
  BY <1>1, <1>2, <1>3, ActsHow DEF Places
<1>5. TypeOK'
  BY <1>1, <1>2, <1>4 DEF TypeOK, Acts, Places
<1>6. \A q \in Procs : pc[q] \notin Tx
  BY <1>1, SlotAssumption DEF SlotInv, Turns, Free
<1>7. Turns(p)' /\ Minting(p)' /\ Ahead(p)' /\ Archiving(p)'
  BY <1>1, <1>4 DEF SlotInv, Acts, Turns, Minting, Ahead, Archiving
<1>8. \A q \in Procs : pc[q] \notin {"archive", "commit"}
  BY <1>6 DEF Tx
<1> QED BY <1>1, <1>4, <1>5, <1>6, <1>7, <1>8, RowsStay

\* The maximum is read: every row is behind the version that follows from it.
LEMMA MaxVersionKeeps ==
  ASSUME SlotInv, NEW p \in Procs, MaxVersion(p)
  PROVE  SlotInv'
<1> DEFINE V == {rows[i].version : i \in DOMAIN rows} \cup {0}
           v == Max(V) + 1
           l == [loc[p] EXCEPT !.version = v]
<1>1. /\ pc[p] = "version" /\ loc' = [loc EXCEPT ![p].version = v] /\ Goto(p, "insert")
      /\ UNCHANGED <<rows, minted, lock, aborts>>
  BY DEF MaxVersion
<1>2. TypeOK
  BY DEF SlotInv
<1>3. p \in Forced /\ lock = p /\ \A q \in Procs : q # p => pc[q] \notin Tx
  BY <1>1, Alone DEF Tx
<1>4. loc[p] \in LocType /\ loc' = [loc EXCEPT ![p] = l]
  BY <1>1, <1>2 DEF TypeOK, LocType
<1>5. \A i \in DOMAIN rows : rows[i].version \in Nat /\ rows[i].version <= Cardinality(DOMAIN rows)
  BY <1>2, RowsFinite DEF SlotInv, Counted, TypeOK
<1>6. IsFiniteSet(V)
  <2> DEFINE W == {rows[i].version : i \in DOMAIN rows}
  <2>1. IsFiniteSet(DOMAIN rows)
    BY <1>2, RowsFinite
  <2>2. ASSUME NEW D, IsFiniteSet(D), NEW R
        PROVE  IsFiniteSet({R[i].version : i \in D})
    <3> DEFINE f == [i \in D |-> R[i].version]
    <3>1. {R[i].version : i \in D} = {f[i] : i \in D}
      OBVIOUS
    <3>2. f \in Surjection(D, {f[i] : i \in D})
      BY DEF Surjection
    <3> QED BY <2>2, <3>1, <3>2, FS_Surjection
  <2>3. IsFiniteSet(W)
    BY <2>1, <2>2
  <2> HIDE DEF W
  <2>4. IsFiniteSet(W \cup {0})
    BY <2>3, FS_AddElement
  <2> QED BY <2>4 DEF W
<1>7. V \subseteq Nat /\ V # {}
  BY <1>5
<1>8. Max(V) \in V /\ \A y \in V : y <= Max(V)
  <2> HIDE DEF V
  <2> QED BY <1>6, <1>7, MaxIsUpper
<1>9. \A y \in V : y <= Cardinality(DOMAIN rows)
  BY <1>2, <1>5, RowsFinite
<1>10. \A i \in DOMAIN rows : rows[i].version \in V
  OBVIOUS
<1> HIDE DEF V
<1>11. Max(V) \in Nat /\ Max(V) <= Cardinality(DOMAIN rows)
  BY <1>7, <1>8, <1>9
<1>12. v \in 1..Cardinality(DOMAIN rows) + 1 /\ v \in Nat
  BY <1>2, <1>11, RowsFinite
<1>13. \A i \in DOMAIN rows : rows[i].version < v
  BY <1>5, <1>8, <1>10, <1>11
<1> HIDE DEF v
<1>14. l \in LocType /\ l.version = v /\ l.id = loc[p].id
  BY <1>4, <1>12, LocUpdates
<1> HIDE DEF l
<1>15. Acts(p, "insert", l)
  BY <1>1, <1>2, <1>4, <1>14, ActsHow DEF Places
<1>16. TypeOK'
  BY <1>1, <1>2, <1>15 DEF TypeOK, Acts, Places, LocType
<1>17. Turns(p)' /\ Minting(p)' /\ Archiving(p)'
  BY <1>1, <1>3, <1>14, <1>15 DEF SlotInv, Acts, Turns, Minting, Archiving
<1>18. Ahead(p)'
  <2>1. ASSUME NEW q \in Forced, pc[q] = "done"
        PROVE  loc[q].version < v
    BY <1>13, <2>1 DEF SlotInv, Published, Procs
  <2> QED BY <1>1, <1>12, <1>14, <1>15, <2>1 DEF Ahead, Acts, Procs
<1> QED BY <1>1, <1>3, <1>15, <1>16, <1>17, <1>18, <1>14, RowsStay, SlotAssumption DEF Tx

\* An id is minted for the new row.
LEMMA InsertNewVersionKeeps ==
  ASSUME SlotInv, NEW p \in Procs, InsertNewVersion(p)
  PROVE  SlotInv'
<1>1. pc[p] = "insert" /\ Goto(p, "archive") /\ UNCHANGED <<rows, lock, aborts>>
  BY DEF InsertNewVersion
<1>2. PICK i \in Ids \ minted : loc' = [loc EXCEPT ![p].id = i] /\ minted' = minted \cup {i}
  BY DEF InsertNewVersion, MintedFor
<1>3. TypeOK
  BY DEF SlotInv
<1>4. p \in Forced /\ lock = p /\ \A q \in Procs : q # p => pc[q] \notin Tx
  BY <1>1, Alone DEF Tx
<1> DEFINE l == [loc[p] EXCEPT !.id = i]
<1>5. loc[p] \in LocType /\ loc' = [loc EXCEPT ![p] = l]
  BY <1>2, <1>3 DEF TypeOK, LocType
<1>6. l \in LocType /\ l.id = i /\ l.version = loc[p].version
  BY <1>5, LocUpdates
<1> HIDE DEF l
<1>7. Acts(p, "archive", l)
  BY <1>1, <1>3, <1>5, <1>6, ActsHow DEF Places
<1>8. TypeOK'
  BY <1>1, <1>2, <1>3, <1>7 DEF TypeOK, Acts, Places, LocType
<1>9. Turns(p)' /\ Minting(p)' /\ Archiving(p)'
  BY <1>1, <1>2, <1>3, <1>4, <1>6, <1>7 DEF Acts, Turns, Minting, Archiving, TypeOK
<1>10. Ahead(p)'
  BY <1>1, <1>6, <1>7 DEF SlotInv, Ahead, Acts, Procs
<1> QED BY <1>1, <1>4, <1>7, <1>8, <1>9, <1>10, RowsStay, SlotAssumption DEF Tx

\* The ready rows are marked, the new one is not among them.
LEMMA ArchivePriorReadyKeeps ==
  ASSUME SlotInv, NEW p \in Procs, ArchivePriorReady(p)
  PROVE  SlotInv'
<1> DEFINE a == Ready(rows) \ {loc[p].id}
           l == [loc[p] EXCEPT !.archive = a]
<1>1. /\ pc[p] = "archive" /\ Goto(p, "commit") /\ UNCHANGED <<rows, minted, lock, aborts>>
      /\ loc' = [loc EXCEPT ![p].archive = a]
  BY DEF ArchivePriorReady
<1>2. TypeOK
  BY DEF SlotInv
<1>3. p \in Forced /\ lock = p /\ \A q \in Procs : q # p => pc[q] \notin Tx
  BY <1>1, Alone DEF Tx
<1>4. loc[p].id \in minted \ DOMAIN rows
  BY <1>1 DEF SlotInv, Minting
<1>5. a = Ready(rows) /\ a \in SUBSET Ids
  BY <1>2, <1>4 DEF Ready, TypeOK
<1> HIDE DEF a
<1>6. loc[p] \in LocType /\ loc' = [loc EXCEPT ![p] = l]
  BY <1>1, <1>2 DEF TypeOK, LocType
<1>7. l \in LocType /\ l.id = loc[p].id /\ l.version = loc[p].version /\ l.archive = a
  BY <1>5, <1>6, LocUpdates
<1> HIDE DEF l
<1>8. Acts(p, "commit", l)
  BY <1>1, <1>2, <1>6, <1>7, ActsHow DEF Places
<1>9. TypeOK'
  BY <1>1, <1>2, <1>8 DEF TypeOK, Acts, Places, LocType
<1>10. Turns(p)' /\ Minting(p)'
  BY <1>1, <1>3, <1>4, <1>7, <1>8 DEF Acts, Turns, Minting
<1>11. Archiving(p)'
  BY <1>1, <1>5, <1>7, <1>8 DEF Acts, Archiving
<1>12. Ahead(p)'
  BY <1>1, <1>7, <1>8 DEF SlotInv, Ahead, Acts, Procs
<1> QED BY <1>1, <1>3, <1>8, <1>9, <1>10, <1>11, <1>12, RowsStay, SlotAssumption DEF Tx

\* A failed statement forgets the id and gives the lock back.
LEMMA RollbackKeeps ==
  ASSUME SlotInv, NEW p \in Procs, Rollback(p)
  PROVE  SlotInv'
<1>1. /\ pc[p] \in Tx /\ loc' = [loc EXCEPT ![p] = Fresh] /\ Goto(p, "start")
      /\ minted' = minted \ {loc[p].id} /\ lock' = (IF lock = p THEN Free ELSE lock)
      /\ aborts < MaxAborts /\ aborts' = aborts + 1 /\ UNCHANGED rows
  BY DEF Rollback, Tx
<1>2. TypeOK
  BY DEF SlotInv
<1>3. p \in Forced /\ lock = p /\ \A q \in Procs : q # p => pc[q] \notin Tx
  BY <1>1, Alone
<1>4. Fresh \in LocType /\ Fresh.id = NoId
  BY DEF Fresh, LocType
<1>5. Acts(p, "start", Fresh)
  BY <1>1, <1>2, <1>4, ActsHow DEF Places
<1>6. loc[p].id \notin DOMAIN rows
  BY <1>1, <1>2, <1>3, RowsFinite DEF SlotInv, Minting, Tx, TypeOK
<1>7. TypeOK'
  <2>1. DOMAIN rows' \subseteq minted' /\ minted' \subseteq Ids
    BY <1>1, <1>2, <1>6 DEF TypeOK
  <2>2. aborts' \in 0..MaxAborts
    BY <1>1, <1>2, SlotAssumption DEF TypeOK
  <2> QED BY <1>1, <1>2, <1>5, <2>1, <2>2 DEF TypeOK, Acts, Places, LocType
<1>8. Turns(p)' /\ Minting(p)' /\ Archiving(p)' /\ Ahead(p)'
  BY <1>4, <1>5 DEF Acts, Turns, Minting, Archiving, Ahead, Tx
<1> QED BY <1>1, <1>3, <1>5, <1>7, <1>8, RowsStay, SlotAssumption DEF Tx

\* A reuse request that finds a ready row is served, one that does not goes on.
LEMMA FindReadyKeeps ==
  ASSUME SlotInv, NEW p \in Procs, FindReadyByPromptHash(p)
  PROVE  SlotInv'
<1>1. p \in Plain /\ pc[p] = "lookup" /\ UNCHANGED <<rows, minted, lock, aborts>>
  BY DEF FindReadyByPromptHash
<1>2. TypeOK /\ p \notin Forced
  BY <1>1, SlotAssumption DEF SlotInv
<1>3. loc[p] \in LocType
  BY <1>2 DEF TypeOK, LocType
<1>4. ASSUME NEW s \in {"start", "done"}, NEW l \in LocType, Acts(p, s, l), l.id = loc[p].id
      PROVE  SlotInv'
  <2>1. TypeOK'
    BY <1>1, <1>2, <1>4 DEF TypeOK, Acts, Places, LocType
  <2>2. Turns(p)' /\ Minting(p)' /\ Archiving(p)' /\ Ahead(p)'
    BY <1>2, <1>4 DEF Acts, Turns, Minting, Archiving, Ahead, Tx
  <2>3. \A q \in Procs : q # p /\ pc[q] \in Tx => lock' = q
    BY <1>1 DEF SlotInv, Turns
  <2>4. \A q \in Procs : q # p /\ pc[q] \in {"archive", "commit"} => loc[q].id \in minted'
    BY <1>1 DEF SlotInv, Minting
  <2> QED BY <1>1, <1>2, <1>4, <2>1, <2>2, <2>3, <2>4, RowsStay
<1>5. CASE Ready(rows) = {}
  <2>1. Goto(p, "start") /\ loc' = [loc EXCEPT ![p] = loc[p]]
    BY <1>2, <1>5 DEF FindReadyByPromptHash, TypeOK
  <2>2. Acts(p, "start", loc[p])
    BY <1>2, <1>3, <2>1, ActsHow DEF Places
  <2> QED BY <1>3, <1>4, <2>2
<1>6. CASE Ready(rows) # {}
  <2> DEFINE m == Min(Ready(rows))
             l == [loc[p] EXCEPT !.served = m]
  <2>1. Goto(p, "done") /\ loc' = [loc EXCEPT ![p].served = m]
    BY <1>6 DEF FindReadyByPromptHash
  <2>2. m \in Ids
    <3>1. Ready(rows) \subseteq Ids /\ Ids \subseteq Nat
      BY <1>2, SlotAssumption DEF Ready, TypeOK
    <3> QED BY <1>6, <3>1, MinIsMember
  <2> HIDE DEF m
  <2>3. loc' = [loc EXCEPT ![p] = l]
    BY <1>2, <2>1 DEF TypeOK
  <2>4. l \in LocType /\ l.id = loc[p].id
    BY <1>3, <2>2, LocUpdates
  <2> HIDE DEF l
  <2>5. Acts(p, "done", l)
    BY <1>2, <2>1, <2>3, <2>4, ActsHow DEF Places
  <2> QED BY <1>4, <2>4, <2>5
<1> QED BY <1>5, <1>6

-----------------------------------------------------------------------------
(* Steps that add a row *)

\* A row under a fresh id is one row more.
LEMMA AddedRow ==
  ASSUME TypeOK, NEW i \in Ids \ DOMAIN rows, DOMAIN rows' = DOMAIN rows \cup {i}
  PROVE  /\ Cardinality(DOMAIN rows') = Cardinality(DOMAIN rows) + 1
         /\ Cardinality(DOMAIN rows) \in Nat /\ Cardinality(DOMAIN rows') \in Nat
         /\ Cardinality(DOMAIN rows') <= Cardinality(Ids) /\ Cardinality(Ids) \in Nat
<1>1. /\ Cardinality(Ids) \in Nat /\ IsFiniteSet(DOMAIN rows)
      /\ Cardinality(DOMAIN rows) \in Nat /\ IsFiniteSet(Ids)
  BY RowsFinite, SlotAssumption
<1>2. DOMAIN rows \cup {i} \subseteq Ids
  BY DEF TypeOK
<1>3. ASSUME NEW D, D = DOMAIN rows, NEW E, E = DOMAIN rows'
      PROVE  Cardinality(E) = Cardinality(D) + 1 /\ Cardinality(E) <= Cardinality(Ids)
  <2>1. E = D \cup {i} /\ i \notin D /\ IsFiniteSet(D) /\ E \subseteq Ids
    BY <1>1, <1>2, <1>3
  <2> HIDE <1>3
  <2> QED BY <1>1, <2>1, FS_AddElement, FS_Subset
<1> QED BY <1>1, <1>3

\* The inserts outside the lock: a plain ready row, or a preview.
LEMMA InsertKeeps ==
  ASSUME SlotInv, NEW p \in Procs, p \notin Forced, pc[p] = "start", Goto(p, "done"),
         NEW st \in {"ready", "preview_ready"}, st = "ready" => p \in Plain,
         p \in Plain => st = "ready", MintedFor(p),
         rows' = Added(rows, loc'[p].id, Row(1, st)), UNCHANGED <<lock, aborts>>
  PROVE  SlotInv'
<1>1. PICK i \in Ids \ minted : loc' = [loc EXCEPT ![p].id = i] /\ minted' = minted \cup {i}
  BY DEF MintedFor
<1>2. TypeOK
  BY DEF SlotInv
<1> DEFINE l == [loc[p] EXCEPT !.id = i]
<1>3. loc[p] \in LocType /\ loc' = [loc EXCEPT ![p] = l]
  BY <1>1, <1>2 DEF TypeOK, LocType
<1>4. l \in LocType /\ l.id = i
  BY <1>3, LocUpdates
<1> HIDE DEF l
<1>5. Acts(p, "done", l)
  BY <1>2, <1>3, <1>4, ActsHow DEF Places
<1>6. loc'[p].id = i /\ i \notin DOMAIN rows /\ i # NoId
  BY <1>2, <1>4, <1>5, RowsFinite DEF Acts, TypeOK
<1>7. /\ DOMAIN rows' = DOMAIN rows \cup {i} /\ rows'[i] = Row(1, st)
      /\ \A j \in DOMAIN rows : rows'[j] = rows[j]
  BY <1>6 DEF Added
<1>8. /\ Cardinality(DOMAIN rows') = Cardinality(DOMAIN rows) + 1
      /\ Cardinality(DOMAIN rows) \in Nat /\ Cardinality(DOMAIN rows') \in Nat
      /\ Cardinality(DOMAIN rows') <= Cardinality(Ids) /\ Cardinality(Ids) \in Nat
  BY <1>2, <1>6, <1>7, AddedRow
<1>9. /\ Row(1, st).version = 1 /\ Row(1, st).status = st
      /\ Row(1, st) \in RowType
  BY <1>8 DEF Row, RowType
<1>10. \A q \in Procs : pc[q] # "start" => q # p /\ pc'[q] = pc[q] /\ loc'[q] = loc[q]
  BY <1>5 DEF Acts
<1>11. /\ \A q \in Forced : pc'[q] = "done" <=> pc[q] = "done"
       /\ \A q \in Forced : pc'[q] = pc[q] /\ loc'[q] = loc[q]
  BY <1>5 DEF Acts, Procs
<1>12. /\ Ready(rows) \subseteq Ready(rows')
       /\ NoPlain' => NoPlain /\ Ready(rows') = Ready(rows)
  <2>1. Ready(rows) \subseteq Ready(rows')
    BY <1>7 DEF Ready
  <2>2. CASE p \in Plain
    BY <1>6, <2>1, <2>2 DEF NoPlain
  <2>3. CASE p \notin Plain
    <3>1. Ready(rows') = Ready(rows)
      BY <1>7, <1>9, <2>3 DEF Ready
    <3>2. NoPlain' => NoPlain
      BY <1>5, <2>3 DEF NoPlain, Acts, Procs
    <3> QED BY <2>1, <3>1, <3>2
  <2> QED BY <2>2, <2>3
<1>13. TypeOK'
  <2>1. DOMAIN rows' \subseteq minted' /\ minted' \subseteq Ids
    BY <1>1, <1>2, <1>7 DEF TypeOK
  <2>2. \A j \in DOMAIN rows' : rows'[j] \in RowType
    BY <1>2, <1>7, <1>9 DEF TypeOK, RowType
  <2> QED BY <1>2, <1>5, <2>1, <2>2 DEF TypeOK, Acts, Places, LocType, RowType
<1>14. VersionsNeverCollide' /\ OneReady'
  BY <1>11, <1>12 DEF SlotInv, VersionsNeverCollide, OneReady
<1>15. ASSUME NEW q \in Procs
       PROVE  Turns(q)' /\ Minting(q)' /\ Ahead(q)' /\ Archiving(q)' /\ Published(q)'
  <2>1. Turns(q) /\ Minting(q) /\ Ahead(q) /\ Archiving(q) /\ Published(q)
    BY DEF SlotInv
  <2>2. CASE q = p
    BY <1>5, <2>2 DEF Acts, Turns, Minting, Ahead, Archiving, Published, Tx
  <2>3. CASE q # p
    <3>1. pc'[q] = pc[q] /\ loc'[q] = loc[q]
      BY <1>5, <2>3 DEF Acts
    <3>2. Turns(q)'
      BY <2>1, <3>1 DEF Turns
    <3>3. Minting(q)'
      BY <1>1, <1>7, <2>1, <3>1 DEF Minting
    <3>4. Ahead(q)'
      <4>1. SUFFICES ASSUME pc[q] \in {"insert", "archive", "commit"}
                     PROVE  Ahead(q)'
        BY <3>1 DEF Ahead
      <4>2. loc'[q].version \in 1..Cardinality(DOMAIN rows') + 1
        BY <1>8, <2>1, <3>1, <4>1 DEF Ahead
      <4> QED BY <1>11, <2>1, <3>1, <4>1, <4>2 DEF Ahead
    <3>5. Archiving(q)'
      BY <1>12, <2>1, <3>1 DEF Archiving
    <3>6. Published(q)'
      BY <1>7, <2>1, <3>1 DEF Published
    <3> QED BY <3>2, <3>3, <3>4, <3>5, <3>6
  <2> QED BY <2>2, <2>3
<1>16. ASSUME NEW j \in DOMAIN rows'
       PROVE  Linked(j)' /\ Counted(j)' /\ Current(j)'
  <2>1. CASE j = i
    <3>1. Linked(i)'
      BY <1>7, <1>9 DEF Linked
    <3>2. Counted(i)'
      BY <1>7, <1>8, <1>9 DEF Counted
    <3>3. Current(i)'
      BY <1>7, <1>9 DEF Current, Row
    <3> QED BY <2>1, <3>1, <3>2, <3>3
  <2>2. CASE j \in DOMAIN rows
    <3>1. Linked(j) /\ Counted(j) /\ Current(j) /\ rows'[j] = rows[j] /\ rows[j].version \in Nat
      BY <1>2, <1>7, <1>8, <2>2 DEF SlotInv, TypeOK
    <3>2. Counted(j)'
      BY <1>8, <3>1 DEF Counted
    <3>3. Linked(j)'
      <4>1. SUFFICES ASSUME rows[j].status = "archived" PROVE Linked(j)'
        BY <3>1 DEF Linked
      <4>2. PICK q \in Forced :
              /\ pc[q] = "done" /\ rows[j].by = loc[q].id
              /\ \A o \in Forced : pc[o] = "done" /\ loc[o].id = j =>
                    loc[o].version < loc[q].version
        BY <3>1, <4>1 DEF Linked
      <4>3. /\ pc'[q] = "done" /\ rows'[j].by = loc'[q].id
            /\ \A o \in Forced : pc'[o] = "done" /\ loc'[o].id = j =>
                  loc'[o].version < loc'[q].version
        BY <1>11, <3>1, <4>2
      <4> QED BY <4>3 DEF Linked
    <3>4. Current(j)'
      BY <3>1 DEF Current
    <3> QED BY <3>2, <3>3, <3>4
  <2> QED BY <1>7, <2>1, <2>2
<1> QED BY <1>13, <1>14, <1>15, <1>16 DEF SlotInv

\* The commit: the new row appears ready, the marked ones are archived and
\* point at it.
LEMMA CommitEffect ==
  ASSUME SlotInv, NEW p \in Procs, CommitSupersede(p)
  PROVE  /\ p \in Forced /\ lock = p /\ pc[p] = "commit" /\ Acts(p, "done", loc[p])
         /\ \A q \in Procs : q # p => pc[q] \notin Tx
         /\ loc[p].id \in Ids \ DOMAIN rows /\ loc[p].id \notin loc[p].archive
         /\ DOMAIN rows' = DOMAIN rows \cup {loc[p].id}
         /\ rows'[loc[p].id] = Row(loc[p].version, "ready")
         /\ \A j \in loc[p].archive :
               /\ j \in DOMAIN rows /\ rows'[j] \in RowType /\ rows'[j].status = "archived"
               /\ rows'[j].by = loc[p].id /\ rows'[j].version = rows[j].version
         /\ \A j \in DOMAIN rows \ loc[p].archive : rows'[j] = rows[j]
         /\ lock' = Free /\ UNCHANGED <<minted, loc, aborts>>
<1> DEFINE i == loc[p].id
           A == loc[p].archive
           new == Added(rows, i, Row(loc[p].version, "ready"))
<1>1. /\ pc[p] = "commit" /\ lock' = Free /\ Goto(p, "done") /\ UNCHANGED <<minted, loc, aborts>>
      /\ rows' = [j \in DOMAIN new |-> IF j \in A
                                      THEN [new[j] EXCEPT !.status = "archived", !.by = i]
                                      ELSE new[j]]
  BY DEF CommitSupersede
<1>2. TypeOK
  BY DEF SlotInv
<1>3. p \in Forced /\ lock = p /\ \A q \in Procs : q # p => pc[q] \notin Tx
  BY <1>1, Alone DEF Tx
<1>4. i \in Ids \ DOMAIN rows /\ A \subseteq DOMAIN rows
  BY <1>1, <1>2 DEF SlotInv, Minting, Archiving, Ready, TypeOK
<1>5. /\ DOMAIN new = DOMAIN rows \cup {i} /\ new[i] = Row(loc[p].version, "ready")
      /\ \A j \in DOMAIN rows : new[j] = rows[j]
  BY <1>4 DEF Added
<1>6. loc[p] \in LocType /\ loc' = [loc EXCEPT ![p] = loc[p]]
  BY <1>1, <1>2 DEF TypeOK, LocType
<1>7. Acts(p, "done", loc[p])
  BY <1>1, <1>2, <1>6, ActsHow DEF Places
<1> HIDE DEF new, i, A
<1>8. DOMAIN rows' = DOMAIN rows \cup {i} /\ rows'[i] = Row(loc[p].version, "ready")
  BY <1>1, <1>4, <1>5
<1>9. \A j \in DOMAIN rows \ A : rows'[j] = rows[j]
  BY <1>1, <1>4, <1>5
<1>10. ASSUME NEW j \in A
       PROVE  /\ j \in DOMAIN rows /\ rows'[j] \in RowType /\ rows'[j].status = "archived"
              /\ rows'[j].by = i /\ rows'[j].version = rows[j].version
  <2>1. j \in DOMAIN rows /\ rows'[j] = [rows[j] EXCEPT !.status = "archived", !.by = i]
    BY <1>1, <1>4, <1>5
  <2>2. rows[j] \in RowType /\ i \in Ids
    BY <1>2, <1>4, <2>1 DEF TypeOK, RowType
  <2> QED BY <2>1, <2>2 DEF RowType
<1> QED BY <1>1, <1>3, <1>4, <1>7, <1>8, <1>9, <1>10 DEF i, A

\* The commit keeps the invariant.
LEMMA CommitKeeps ==
  ASSUME SlotInv, NEW p \in Procs, CommitSupersede(p)
  PROVE  SlotInv'
<1>0. PICK n : n = loc[p].id
  OBVIOUS
<1>1. /\ p \in Forced /\ lock = p /\ pc[p] = "commit" /\ Acts(p, "done", loc[p])
      /\ \A q \in Procs : q # p => pc[q] \notin Tx
      /\ n \in Ids \ DOMAIN rows /\ n \notin loc[p].archive
      /\ DOMAIN rows' = DOMAIN rows \cup {n}
      /\ rows'[n] = Row(loc[p].version, "ready")
      /\ lock' = Free /\ UNCHANGED <<minted, loc, aborts>>
  BY <1>0, CommitEffect
<1>2. /\ \A j \in loc[p].archive :
            /\ j \in DOMAIN rows /\ rows'[j] \in RowType /\ rows'[j].status = "archived"
            /\ rows'[j].by = n /\ rows'[j].version = rows[j].version
      /\ \A j \in DOMAIN rows \ loc[p].archive : rows'[j] = rows[j]
  BY <1>0, CommitEffect
<1>3. TypeOK
  BY DEF SlotInv
<1>4. /\ Cardinality(DOMAIN rows') = Cardinality(DOMAIN rows) + 1
      /\ Cardinality(DOMAIN rows) \in Nat /\ Cardinality(DOMAIN rows') \in Nat
      /\ Cardinality(DOMAIN rows') <= Cardinality(Ids) /\ Cardinality(Ids) \in Nat
  BY <1>1, <1>3, AddedRow
<1>5. /\ loc[p].version \in 1..Cardinality(DOMAIN rows')
      /\ \A q \in Forced : pc[q] = "done" => loc[q].version < loc[p].version
  BY <1>1, <1>4 DEF SlotInv, Ahead
<1>6. /\ Row(loc[p].version, "ready").version = loc[p].version
      /\ Row(loc[p].version, "ready").status = "ready"
      /\ Row(loc[p].version, "ready").by = NoId
      /\ Row(loc[p].version, "ready") \in RowType
  <2>1. loc[p].version \in 1..Cardinality(Ids)
    BY <1>4, <1>5
  <2> QED BY <2>1 DEF Row, RowType
<1>7. /\ \A q \in Procs : q # p => pc'[q] = pc[q]
      /\ pc' \in [Procs -> Places] /\ pc'[p] = "done" /\ loc' = loc
  BY <1>1 DEF Acts
<1>8. loc[p].archive \subseteq Ready(rows) /\ (NoPlain => Ready(rows) \subseteq loc[p].archive)
  BY <1>1 DEF SlotInv, Archiving
<1>9. ASSUME NEW j \in DOMAIN rows
      PROVE  /\ rows'[j] \in RowType /\ rows'[j].version = rows[j].version
             /\ rows[j] \in RowType /\ rows[j].version \in Nat
             /\ rows'[j].status \in {rows[j].status, "archived"}
  <2>1. rows[j] \in RowType
    BY <1>3 DEF TypeOK, RowType
  <2>2. rows[j].version \in Nat
    BY <1>4, <2>1 DEF RowType
  <2> QED BY <1>2, <2>1, <2>2
<1>10. TypeOK'
  <2>1. DOMAIN rows' \subseteq minted' /\ minted' \subseteq Ids
    <3>1. n \in minted
      BY <1>0, <1>1 DEF SlotInv, Minting
    <3> QED BY <1>1, <1>3, <3>1 DEF TypeOK
  <2>2. \A j \in DOMAIN rows' : rows'[j] \in RowType
    BY <1>1, <1>6, <1>9
  <2> QED BY <1>1, <1>3, <1>7, <2>1, <2>2 DEF TypeOK, Places, RowType
<1>11. VersionsNeverCollide'
  <2>1. ASSUME NEW a \in Forced, NEW b \in Forced, a # b, pc'[a] = "done", pc'[b] = "done"
        PROVE  loc'[a].version # loc'[b].version
    <3>1. loc[a].version \in Nat /\ loc[b].version \in Nat /\ loc' = loc
      BY <1>3, <1>7 DEF TypeOK, Procs
    <3>2. (a = p \/ pc[a] = "done") /\ (b = p \/ pc[b] = "done")
      BY <1>7, <2>1 DEF Procs
    <3>3. CASE a = p
      BY <1>5, <2>1, <3>1, <3>2, <3>3
    <3>4. CASE b = p
      BY <1>5, <2>1, <3>1, <3>2, <3>4
    <3>5. CASE a # p /\ b # p
      BY <2>1, <3>1, <3>2, <3>5 DEF SlotInv, VersionsNeverCollide
    <3> QED BY <3>3, <3>4, <3>5
  <2> QED BY <2>1 DEF VersionsNeverCollide
<1>12. OneReady'
  <2>1. SUFFICES ASSUME NoPlain' PROVE \A i, j \in Ready(rows') : i = j
    BY DEF OneReady
  <2>2. NoPlain
    BY <1>7, <2>1 DEF NoPlain
  <2>3. Ready(rows') \subseteq {n}
    <3>1. ASSUME NEW j \in Ready(rows'), j # n
          PROVE  FALSE
      <4>1. j \in DOMAIN rows /\ rows'[j].status = "ready"
        BY <1>1, <3>1 DEF Ready
      <4>2. j \notin loc[p].archive
        BY <1>2, <4>1
      <4>3. j \in Ready(rows)
        BY <1>2, <4>1, <4>2 DEF Ready
      <4> QED BY <1>8, <2>2, <4>2, <4>3
    <3> QED BY <3>1
  <2> QED BY <2>3
<1>13. ASSUME NEW q \in Procs
       PROVE  Turns(q)' /\ Minting(q)' /\ Ahead(q)' /\ Archiving(q)'
  <2>1. pc'[q] \notin Tx
    BY <1>1, <1>7 DEF Tx
  <2>2. Minting(q)'
    BY <1>1, <1>7, <2>1 DEF SlotInv, Minting, Tx
  <2> QED BY <2>1, <2>2 DEF Turns, Ahead, Archiving, Tx
<1>14. ASSUME NEW q \in Procs
       PROVE  Published(q)'
  <2>1. SUFFICES ASSUME q \in Forced, pc'[q] = "done"
                 PROVE  /\ loc[q].id \in DOMAIN rows'
                        /\ rows'[loc[q].id].version = loc[q].version
                        /\ rows'[loc[q].id].status \in {"ready", "archived"}
    BY <1>7 DEF Published
  <2>2. CASE q = p
    BY <1>0, <1>1, <1>6, <2>2
  <2>3. CASE q # p
    <3>1. /\ loc[q].id \in DOMAIN rows
          /\ rows[loc[q].id].version = loc[q].version
          /\ rows[loc[q].id].status \in {"ready", "archived"}
      BY <1>7, <2>1, <2>3 DEF SlotInv, Published
    <3> QED BY <1>1, <1>9, <3>1
  <2> QED BY <2>2, <2>3
<1>15. ASSUME NEW j \in DOMAIN rows'
       PROVE  Linked(j)' /\ Counted(j)' /\ Current(j)'
  <2>1. Counted(j)'
    <3>1. CASE j = n
      BY <1>1, <1>4, <1>5, <1>6, <3>1 DEF Counted
    <3>2. CASE j \in DOMAIN rows
      <4>1. rows[j].version <= Cardinality(DOMAIN rows)
        BY <3>2 DEF SlotInv, Counted
      <4> QED BY <1>4, <1>9, <3>2, <4>1 DEF Counted
    <3> QED BY <1>1, <3>1, <3>2
  <2>2. Current(j)'
    BY <1>1, <1>2, <1>6 DEF SlotInv, Current
  <2>3. Linked(j)'
    <3>1. SUFFICES ASSUME rows'[j].status = "archived" PROVE Linked(j)'
      BY DEF Linked
    <3>2. j \in DOMAIN rows /\ j # n
      BY <1>1, <1>6, <3>1
    <3>3. CASE j \in loc[p].archive
      <4>1. ASSUME NEW o \in Forced, pc'[o] = "done", loc'[o].id = j
            PROVE  loc'[o].version < loc'[p].version
        <5>1. o # p /\ o \in Procs
          BY <1>0, <1>7, <3>2, <4>1 DEF Procs
        <5> QED BY <1>5, <1>7, <4>1, <5>1
      <4>2. pc'[p] = "done" /\ rows'[j].by = loc'[p].id
        BY <1>0, <1>2, <1>7, <3>3
      <4> QED BY <1>1, <4>1, <4>2 DEF Linked
    <3>4. CASE j \notin loc[p].archive
      <4>1. rows'[j] = rows[j] /\ Linked(j)
        BY <1>2, <3>2, <3>4 DEF SlotInv
      <4>2. PICK q \in Forced :
              /\ pc[q] = "done" /\ rows[j].by = loc[q].id
              /\ \A o \in Forced : pc[o] = "done" /\ loc[o].id = j =>
                    loc[o].version < loc[q].version
        BY <3>1, <4>1 DEF Linked
      <4>3. q # p /\ pc'[q] = "done" /\ rows'[j].by = loc'[q].id
        BY <1>1, <1>7, <4>1, <4>2 DEF Procs
      <4>4. ASSUME NEW o \in Forced, pc'[o] = "done", loc'[o].id = j
            PROVE  loc'[o].version < loc'[q].version
        <5>1. o # p /\ o \in Procs
          BY <1>0, <1>7, <3>2, <4>4 DEF Procs
        <5> QED BY <1>7, <4>2, <4>4, <5>1
      <4> QED BY <4>3, <4>4 DEF Linked
    <3> QED BY <3>3, <3>4
  <2> QED BY <2>1, <2>2, <2>3
<1> QED BY <1>10, <1>11, <1>12, <1>13, <1>14, <1>15 DEF SlotInv

-----------------------------------------------------------------------------
(* The invariant of the specification *)

\* An empty slot and a slot with one generated row satisfy the invariant.
LEMMA SlotInit ==
  ASSUME Init
  PROVE  SlotInv
<1>1. IsFiniteSet(Ids) /\ Cardinality(Ids) \in Nat
  BY SlotAssumption, FS_CardinalityType
<1>2. /\ lock = Free /\ aborts = 0 /\ loc = [p \in Procs |-> Fresh]
      /\ pc = [p \in Procs |-> IF p \in Plain THEN "lookup" ELSE "start"]
  BY DEF Init
<1>3. Fresh \in LocType /\ Fresh.id = NoId
  BY DEF Fresh, LocType
<1>4. pc \in [Procs -> Places] /\ loc \in [Procs -> LocType]
  BY <1>2, <1>3 DEF Places
<1>5. ASSUME DOMAIN rows \subseteq minted, minted \subseteq Ids, OneReady,
             \A i \in DOMAIN rows : rows[i] \in RowType /\ rows[i].status = "ready",
             \A i \in DOMAIN rows : Counted(i) /\ Current(i)
      PROVE  SlotInv
  <2>1. TypeOK
    BY <1>2, <1>4, <1>5, SlotAssumption DEF TypeOK, RowType, LocType, Places, Free
  <2>2. ASSUME NEW p \in Procs
        PROVE  pc[p] \in {"lookup", "start"} /\ loc[p].id = NoId
               /\ (p \in Forced => pc[p] = "start")
    BY <1>2, <1>3, SlotAssumption
  <2>3. VersionsNeverCollide
    BY <2>2 DEF VersionsNeverCollide, Procs
  <2>4. \A p \in Procs : Turns(p) /\ Minting(p) /\ Ahead(p) /\ Archiving(p) /\ Published(p)
    BY <2>2 DEF Turns, Minting, Ahead, Archiving, Published, Tx
  <2>5. \A i \in DOMAIN rows : Linked(i)
    BY <1>5 DEF Linked
  <2> QED BY <1>5, <2>1, <2>3, <2>4, <2>5 DEF SlotInv
<1>6. CASE rows = <<>> /\ minted = {}
  <2>1. DOMAIN rows = {}
    BY <1>6
  <2> QED BY <1>5, <1>6, <2>1 DEF OneReady, Ready
<1>7. CASE \E i \in Ids : rows = [j \in {i} |-> Row(1, "ready")] /\ minted = {i}
  <2>1. PICK i \in Ids : rows = [j \in {i} |-> Row(1, "ready")] /\ minted = {i}
    BY <1>7
  <2>2. Cardinality({i}) = 1 /\ 1 <= Cardinality(Ids)
    <3>1. {i} \subseteq Ids
      OBVIOUS
    <3>2. Cardinality({i}) = 1
      BY FS_Singleton
    <3>3. Cardinality({i}) <= Cardinality(Ids)
      BY <1>1, <3>1, FS_Subset
    <3> QED BY <3>2, <3>3
  <2>3. Row(1, "ready") \in RowType
    BY <1>1, <2>2 DEF Row, RowType
  <2>4. DOMAIN rows = {i} /\ rows[i] = Row(1, "ready")
    BY <2>1
  <2>5. OneReady
    BY <2>4 DEF OneReady, Ready
  <2>6. Counted(i) /\ Current(i)
    BY <2>2, <2>4 DEF Counted, Current, Row
  <2>7. rows[i].status = "ready"
    BY <2>4 DEF Row
  <2> QED BY <1>5, <2>1, <2>3, <2>4, <2>5, <2>6, <2>7
<1> QED BY <1>6, <1>7 DEF Init

\* Every action keeps the invariant.
LEMMA SlotStep ==
  ASSUME SlotInv, [Next]_vars
  PROVE  SlotInv'
<1>1. CASE UNCHANGED vars
  BY <1>1 DEF vars, SlotInv, TypeOK, VersionsNeverCollide, OneReady, NoPlain, Turns, Minting,
     Ahead, Archiving, Published, Linked, Counted, Current, Ready, Tx
<1>2. CASE Next
  <2>1. CASE Done /\ UNCHANGED vars
    BY <1>1, <2>1
  <2>2. CASE \E p \in Procs :
          \/ AcquireSupersedeLock(p) \/ MaxVersion(p) \/ InsertNewVersion(p)
          \/ ArchivePriorReady(p) \/ CommitSupersede(p) \/ Rollback(p)
          \/ FindReadyByPromptHash(p) \/ InsertPlain(p) \/ InsertPreview(p)
    <3>1. PICK p \in Procs :
          \/ AcquireSupersedeLock(p) \/ MaxVersion(p) \/ InsertNewVersion(p)
          \/ ArchivePriorReady(p) \/ CommitSupersede(p) \/ Rollback(p)
          \/ FindReadyByPromptHash(p) \/ InsertPlain(p) \/ InsertPreview(p)
      BY <2>2
    <3>2. CASE AcquireSupersedeLock(p)
      BY <3>2, AcquireKeeps
    <3>3. CASE MaxVersion(p)
      BY <3>3, MaxVersionKeeps
    <3>4. CASE InsertNewVersion(p)
      BY <3>4, InsertNewVersionKeeps
    <3>5. CASE ArchivePriorReady(p)
      BY <3>5, ArchivePriorReadyKeeps
    <3>6. CASE CommitSupersede(p)
      BY <3>6, CommitKeeps
    <3>7. CASE Rollback(p)
      BY <3>7, RollbackKeeps
    <3>8. CASE FindReadyByPromptHash(p)
      BY <3>8, FindReadyKeeps
    <3>9. CASE InsertPlain(p)
      <4>1. p \notin Forced
        BY <3>9, SlotAssumption DEF InsertPlain
      <4> QED BY <3>9, <4>1, InsertKeeps DEF InsertPlain
    <3>10. CASE InsertPreview(p)
      <4>1. p \notin Forced /\ p \notin Plain
        BY <3>10, SlotAssumption DEF InsertPreview
      <4> QED BY <3>10, <4>1, InsertKeeps DEF InsertPreview
    <3> QED BY <3>1, <3>2, <3>3, <3>4, <3>5, <3>6, <3>7, <3>8, <3>9, <3>10
  <2> QED BY <1>2, <2>1, <2>2 DEF Next
<1> QED BY <1>1, <1>2

\* The inductive invariant holds in every reachable state.
THEOREM SlotInvariant == Spec => []SlotInv
<1>1. Init => SlotInv
  BY SlotInit
<1>2. SlotInv /\ [Next]_vars => SlotInv'
  BY SlotStep
<1> QED BY <1>1, <1>2, PTL DEF Spec

\* Rows, transactions and the lock keep their types: in particular no version
\* outruns the number of asset ids.
THEOREM TypeCorrect == Spec => []TypeOK
<1>1. SlotInv => TypeOK
  BY DEF SlotInv
<1> QED BY <1>1, SlotInvariant, PTL

\* Regenerations take turns (SupersedeArtifactSlot's advisory lock): two never
\* publish one version, and without an unlocked insert beside them the slot has
\* at most one ready row.
THEOREM RegenerationsSerializeHolds == Spec => []RegenerationsSerialize
<1>1. ASSUME SlotInv
      PROVE  RegenerationsSerialize
  <2>1. VersionsNeverCollide
    BY <1>1 DEF SlotInv
  <2>2. ASSUME NoPlain
        PROVE  Cardinality(Ready(rows)) <= 1
    <3>1. \A i, j \in Ready(rows) : i = j
      BY <1>1, <2>2 DEF SlotInv, OneReady
    <3>2. CASE Ready(rows) = {}
      BY <3>2, FS_EmptySet
    <3>3. CASE Ready(rows) # {}
      <4>1. PICK x : x \in Ready(rows)
        BY <3>3
      <4>2. Ready(rows) = {x}
        BY <3>1, <4>1
      <4>3. Cardinality({x}) = 1
        BY FS_Singleton
      <4> QED BY <4>2, <4>3
    <3> QED BY <3>2, <3>3
  <2> QED BY <2>1, <2>2 DEF RegenerationsSerialize, SingleReady, NoPlain
<1> QED BY <1>1, SlotInvariant, PTL

\* A step that does not commit leaves the ready rows ready; a commit archives
\* some and publishes one.
THEOREM NeverWithoutReadyHolds == Spec => NeverWithoutReady
<1>1. ASSUME SlotInv, [Next]_vars
      PROVE  [Ready(rows) # {} => Ready(rows') # {}]_vars
  <2>1. CASE UNCHANGED vars
    BY <2>1
  <2>2. CASE rows' = rows
    BY <2>2
  <2>3. ASSUME NEW p \in Procs, CommitSupersede(p)
        PROVE  Ready(rows') # {}
    <3>1. loc[p].id \in DOMAIN rows' /\ rows'[loc[p].id] = Row(loc[p].version, "ready")
      BY <1>1, <2>3, CommitEffect
    <3> QED BY <3>1 DEF Ready, Row
  <2>4. ASSUME NEW p \in Procs, NEW r, MintedFor(p), rows' = Added(rows, loc'[p].id, r)
        PROVE  Ready(rows) # {} => Ready(rows') # {}
    <3>1. PICK i \in Ids \ minted : loc' = [loc EXCEPT ![p].id = i]
      BY <2>4 DEF MintedFor
    <3>2. loc'[p].id = i
      BY <1>1, <3>1 DEF SlotInv, TypeOK
    <3>3. i \notin DOMAIN rows
      BY <1>1, <3>1 DEF SlotInv, TypeOK
    <3>4. \A j \in DOMAIN rows : j \in DOMAIN rows' /\ rows'[j] = rows[j]
      BY <2>4, <3>2, <3>3 DEF Added
    <3> QED BY <3>4 DEF Ready
  <2>5. CASE Next
    <3>1. CASE \E p \in Procs : CommitSupersede(p)
      BY <2>3, <3>1
    <3>2. CASE \E p \in Procs : InsertPlain(p) \/ InsertPreview(p)
      BY <2>4, <3>2 DEF InsertPlain, InsertPreview
    <3>3. CASE ~(\E p \in Procs : CommitSupersede(p) \/ InsertPlain(p) \/ InsertPreview(p))
      <4>1. rows' = rows
        BY <2>5, <3>3 DEF Next, vars, AcquireSupersedeLock, MaxVersion, InsertNewVersion,
           ArchivePriorReady, Rollback, FindReadyByPromptHash
      <4> QED BY <2>2, <4>1
    <3> QED BY <3>1, <3>2, <3>3
  <2> QED BY <1>1, <2>1, <2>5
<1> QED BY <1>1, SlotInvariant, PTL DEF Spec, NeverWithoutReady

\* How far a walk along the links has come after n steps: it stopped at a ready
\* row, or it is at the row of a regeneration of version n or later.
Climbed(f, n) ==
    /\ f[n] \in DOMAIN rows
    /\ rows[f[n]].status \in {"ready", "archived"}
    /\ n = 0 \/ rows[f[n]].status = "ready" \/
          \E q \in Forced : pc[q] = "done" /\ loc[q].id = f[n] /\ loc[q].version >= n

\* One more link climbs at least one version.
LEMMA ClimbStep ==
  ASSUME SlotInv, NEW i, NEW N \in Nat, NEW f, Walks(f, i, N), NEW n \in Nat, n + 1 <= N,
         Climbed(f, n)
  PROVE  Climbed(f, n + 1)
<1>1. f[n + 1] = Forward(f[n])
  <2>1. n + 1 \in 0..N /\ n + 1 # 0 /\ (n + 1) - 1 = n
    OBVIOUS
  <2>2. f[n + 1] = Walk(f, i, n + 1)
    BY <2>1 DEF Walks
  <2> QED BY <2>1, <2>2 DEF Walk
<1>2. TypeOK /\ NoId \notin Ids /\ Cardinality(Ids) \in Nat
  BY RowsFinite DEF SlotInv
<1>3. f[n] \in DOMAIN rows /\ rows[f[n]].status \in {"ready", "archived"}
  BY DEF Climbed
<1>4. CASE rows[f[n]].status = "ready"
  <2>1. rows[f[n]].by = NoId
    BY <1>3, <1>4 DEF SlotInv, Current
  <2>2. f[n + 1] = f[n]
    BY <1>1, <1>2, <2>1 DEF Forward, TypeOK
  <2> QED BY <1>3, <1>4, <2>2 DEF Climbed
<1>5. CASE rows[f[n]].status = "archived"
  <2>1. PICK q \in Forced :
          /\ pc[q] = "done" /\ rows[f[n]].by = loc[q].id
          /\ \A o \in Forced : pc[o] = "done" /\ loc[o].id = f[n] =>
                loc[o].version < loc[q].version
    BY <1>3, <1>5 DEF SlotInv, Linked
  <2>2. /\ loc[q].id \in DOMAIN rows /\ rows[loc[q].id].version = loc[q].version
        /\ rows[loc[q].id].status \in {"ready", "archived"}
    BY <2>1 DEF SlotInv, Published, Procs
  <2>3. f[n + 1] = loc[q].id
    BY <1>1, <2>1, <2>2 DEF Forward
  <2>4. loc[q].version \in Nat /\ loc[q].version >= 1
    BY <1>2, <2>2 DEF TypeOK
  <2>5. loc[q].version >= n + 1
    <3>1. CASE n = 0
      BY <2>4, <3>1
    <3>2. CASE n # 0
      <4>1. PICK o \in Forced : pc[o] = "done" /\ loc[o].id = f[n] /\ loc[o].version >= n
        BY <1>5, <3>2 DEF Climbed
      <4>2. loc[o].version < loc[q].version /\ loc[o].version \in Nat
        BY <1>2, <2>1, <4>1 DEF TypeOK, Procs
      <4> QED BY <2>4, <4>1, <4>2
    <3> QED BY <3>1, <3>2
  <2> QED BY <2>1, <2>2, <2>3, <2>5 DEF Climbed
<1> QED BY <1>3, <1>4, <1>5

\* A client that holds an archived asset finds its replacement: each link leads
\* to a later version, versions are bounded, so the walk ends in a ready row.
THEOREM LinksEndInReadyHolds == Spec => []LinksEndInReady
<1>1. ASSUME SlotInv, NEW i \in DOMAIN rows, rows[i].status = "archived"
      PROVE  rows[Latest(i)].status = "ready"
  <2>1. PICK C \in Nat : C = Cardinality(Ids)
    BY <1>1, RowsFinite DEF SlotInv
  <2>2. PICK f : Walks(f, i, C) /\ Latest(i) = f[C]
    BY <2>1, LatestWalks
  <2> DEFINE P == {n \in Nat : n <= C => Climbed(f, n)}
  <2>3. 0 \in P
    <3>1. f[0] = i
      <4>1. 0 \in 0..C
        OBVIOUS
      <4> QED BY <2>2, <4>1 DEF Walks, Walk
    <3> QED BY <1>1, <3>1 DEF Climbed
  <2>4. ASSUME NEW n \in Nat, n \in P
        PROVE  n + 1 \in P
    <3>1. SUFFICES ASSUME n + 1 <= C PROVE Climbed(f, n + 1)
      OBVIOUS
    <3>2. Climbed(f, n)
      BY <2>4, <3>1
    <3> QED BY <1>1, <2>2, <3>1, <3>2, ClimbStep
  <2> HIDE DEF P
  <2>5. Nat \subseteq P
    BY <2>3, <2>4, SetInduction
  <2>6. Climbed(f, C)
    BY <2>5 DEF P
  <2>7. SUFFICES ASSUME rows[f[C]].status # "ready" PROVE FALSE
    BY <2>2
  <2>8. f[C] \in DOMAIN rows /\ rows[f[C]].status = "archived"
    BY <2>6, <2>7 DEF Climbed
  <2>9. PICK q \in Forced :
          /\ pc[q] = "done" /\ rows[f[C]].by = loc[q].id
          /\ \A o \in Forced : pc[o] = "done" /\ loc[o].id = f[C] =>
                loc[o].version < loc[q].version
    BY <1>1, <2>8 DEF SlotInv, Linked
  <2>10. loc[q].version \in 1..C
    <3>1. loc[q].id \in DOMAIN rows /\ rows[loc[q].id].version = loc[q].version
      BY <1>1, <2>9 DEF SlotInv, Published, Procs
    <3> QED BY <1>1, <2>1, <3>1 DEF SlotInv, TypeOK
  <2>11. PICK o \in Forced : pc[o] = "done" /\ loc[o].id = f[C] /\ loc[o].version >= C
    BY <2>6, <2>8, <2>10 DEF Climbed
  <2>12. loc[o].version \in Nat
    BY <1>1 DEF SlotInv, TypeOK, Procs
  <2> QED BY <2>9, <2>10, <2>11, <2>12
<1>2. SlotInv => LinksEndInReady
  BY <1>1 DEF LinksEndInReady
<1> QED BY <1>2, SlotInvariant, PTL

-----------------------------------------------------------------------------
(***************************************************************************)
(* The plan a pack request makes of the library (module PackReuse), for    *)
(* any templates, libraries of any size, policies and publications in      *)
(* between.  First the two tables and the matrix, row by row and rule by   *)
(* rule; then that a best candidate exists, so that pickBest picks one of  *)
(* the candidates; then the plan: its items still fit their roles and each *)
(* role visited is reused or missing, once.                                *)
(***************************************************************************)

(* The compatibility matrix *)

\* What every row of a table, and the unknown variant, look like.
CharacterClass(v) ==
    /\ v.family \in {"neutral", "warm", "tense", "unknown"} \cup strictCharacterFamilies
    /\ v.tag \notin strongWeatherValues
    /\ v.rank \in Nat
PlaceClass(v) ==
    /\ v.family \in {"establishing", "time_of_day", "crowd", "weather", "unknown"} \cup strictPlaceFamilies
    /\ v.family = "establishing" => v.tag \in {"", "day"}
    /\ v.tag \in strongWeatherValues => v.family = "weather"
    /\ v.rank \in Nat

\* The columns of a row.
LEMMA Columns ==
  \A f, t, n :
      /\ Safe(f, t, n).family = f /\ Safe(f, t, n).tag = t /\ Safe(f, t, n).rank = n
      /\ Strict(f, t).family = f /\ Strict(f, t).tag = t /\ Strict(f, t).rank = 1000
BY DEF Safe, Strict

\* Row by row, the character table.
LEMMA CharacterClassRows == \A key \in DOMAIN characterVariants : CharacterClass(characterVariants[key])
<1>1. DOMAIN characterVariants =
       {"neutral_front", "neutral_front_portrait", "neutral_three_quarter", 
         "neutral_bust", "side_profile", "expression_warm", "expression_smiling", 
         "expression_serious", "expression_tense", "expression_angry", "outfit_formal", 
         "state_injured", "profile_icon", "full_body_reference"}
  BY DEF characterVariants
<1>2. /\ characterVariants["neutral_front"] = Safe("neutral", "front", 10)
      /\ characterVariants["neutral_front_portrait"] = Safe("neutral", "front", 10)
      /\ characterVariants["neutral_three_quarter"] = Safe("neutral", "three_quarter", 20)
      /\ characterVariants["neutral_bust"] = Safe("neutral", "front", 30)
      /\ characterVariants["side_profile"] = Safe("neutral", "side_profile", 60)
      /\ characterVariants["expression_warm"] = Safe("warm", "", 40)
      /\ characterVariants["expression_smiling"] = Safe("warm", "", 40)
      /\ characterVariants["expression_serious"] = Safe("tense", "", 40)
      /\ characterVariants["expression_tense"] = Safe("tense", "", 40)
      /\ characterVariants["expression_angry"] = Strict("strong_emotion", "")
      /\ characterVariants["outfit_formal"] = Strict("outfit", "")
      /\ characterVariants["state_injured"] = Strict("state", "")
      /\ characterVariants["profile_icon"] = Strict("portrait_crop", "")
      /\ characterVariants["full_body_reference"] = Strict("full_body", "")
  BY DEF characterVariants
<1>3. /\ CharacterClass(Safe("neutral", "front", 10))
      /\ CharacterClass(Safe("neutral", "three_quarter", 20))
      /\ CharacterClass(Safe("neutral", "front", 30))
      /\ CharacterClass(Safe("neutral", "side_profile", 60))
      /\ CharacterClass(Safe("warm", "", 40))
      /\ CharacterClass(Safe("tense", "", 40))
      /\ CharacterClass(Strict("strong_emotion", ""))
      /\ CharacterClass(Strict("outfit", ""))
      /\ CharacterClass(Strict("state", ""))
      /\ CharacterClass(Strict("portrait_crop", ""))
      /\ CharacterClass(Strict("full_body", ""))
  BY DEF CharacterClass, strictCharacterFamilies, strongWeatherValues, Safe, Strict
<1>4. SUFFICES ASSUME NEW key \in DOMAIN characterVariants PROVE CharacterClass(characterVariants[key]) OBVIOUS
<1>5. /\ CharacterClass(characterVariants["neutral_front"])
      /\ CharacterClass(characterVariants["neutral_front_portrait"])
      /\ CharacterClass(characterVariants["neutral_three_quarter"])
      /\ CharacterClass(characterVariants["neutral_bust"])
      /\ CharacterClass(characterVariants["side_profile"])
      /\ CharacterClass(characterVariants["expression_warm"])
      /\ CharacterClass(characterVariants["expression_smiling"])
      /\ CharacterClass(characterVariants["expression_serious"])
      /\ CharacterClass(characterVariants["expression_tense"])
      /\ CharacterClass(characterVariants["expression_angry"])
      /\ CharacterClass(characterVariants["outfit_formal"])
      /\ CharacterClass(characterVariants["state_injured"])
      /\ CharacterClass(characterVariants["profile_icon"])
      /\ CharacterClass(characterVariants["full_body_reference"])
  BY <1>2, <1>3
<1> QED BY <1>1, <1>4, <1>5

\* Row by row, the place table.
LEMMA PlaceClassRows == \A key \in DOMAIN placeVariants : PlaceClass(placeVariants[key])
<1>1. DOMAIN placeVariants =
       {"establishing_wide", "establishing_wide_day", "closer_atmospheric", 
         "day_view", "night_view", "dawn_view", "dusk_view", "empty_view", 
         "calm_empty_view", "busy_active_view", "clear_day_view", "overcast_view", 
         "storm_view", "interior_view", "state_damaged"}
  BY DEF placeVariants
<1>2. /\ placeVariants["establishing_wide"] = Safe("establishing", "", 10)
      /\ placeVariants["establishing_wide_day"] = Safe("establishing", "day", 10)
      /\ placeVariants["closer_atmospheric"] = Safe("establishing", "", 40)
      /\ placeVariants["day_view"] = Safe("time_of_day", "day", 40)
      /\ placeVariants["night_view"] = Strict("time_of_day", "night")
      /\ placeVariants["dawn_view"] = Strict("time_of_day", "dawn")
      /\ placeVariants["dusk_view"] = Strict("time_of_day", "dusk")
      /\ placeVariants["empty_view"] = Safe("crowd", "empty", 40)
      /\ placeVariants["calm_empty_view"] = Safe("crowd", "empty", 40)
      /\ placeVariants["busy_active_view"] = Strict("crowd", "busy")
      /\ placeVariants["clear_day_view"] = Safe("weather", "clear", 40)
      /\ placeVariants["overcast_view"] = Safe("weather", "overcast", 40)
      /\ placeVariants["storm_view"] = Strict("weather", "storm")
      /\ placeVariants["interior_view"] = Strict("place_framing", "")
      /\ placeVariants["state_damaged"] = Strict("place_state", "")
  BY DEF placeVariants
<1>3. /\ PlaceClass(Safe("establishing", "", 10))
      /\ PlaceClass(Safe("establishing", "day", 10))
      /\ PlaceClass(Safe("establishing", "", 40))
      /\ PlaceClass(Safe("time_of_day", "day", 40))
      /\ PlaceClass(Strict("time_of_day", "night"))
      /\ PlaceClass(Strict("time_of_day", "dawn"))
      /\ PlaceClass(Strict("time_of_day", "dusk"))
      /\ PlaceClass(Safe("crowd", "empty", 40))
      /\ PlaceClass(Strict("crowd", "busy"))
      /\ PlaceClass(Safe("weather", "clear", 40))
      /\ PlaceClass(Safe("weather", "overcast", 40))
      /\ PlaceClass(Strict("weather", "storm"))
      /\ PlaceClass(Strict("place_framing", ""))
      /\ PlaceClass(Strict("place_state", ""))
  BY DEF PlaceClass, strictPlaceFamilies, strongWeatherValues, Safe, Strict
<1>4. SUFFICES ASSUME NEW key \in DOMAIN placeVariants PROVE PlaceClass(placeVariants[key]) OBVIOUS
<1>5. /\ PlaceClass(placeVariants["establishing_wide"])
      /\ PlaceClass(placeVariants["establishing_wide_day"])
      /\ PlaceClass(placeVariants["closer_atmospheric"])
      /\ PlaceClass(placeVariants["day_view"])
      /\ PlaceClass(placeVariants["night_view"])
      /\ PlaceClass(placeVariants["dawn_view"])
      /\ PlaceClass(placeVariants["dusk_view"])
      /\ PlaceClass(placeVariants["empty_view"])
      /\ PlaceClass(placeVariants["calm_empty_view"])
      /\ PlaceClass(placeVariants["busy_active_view"])
      /\ PlaceClass(placeVariants["clear_day_view"])
      /\ PlaceClass(placeVariants["overcast_view"])
      /\ PlaceClass(placeVariants["storm_view"])
      /\ PlaceClass(placeVariants["interior_view"])
      /\ PlaceClass(placeVariants["state_damaged"])
  BY <1>2, <1>3
<1> QED BY <1>1, <1>4, <1>5

\* Every key is classified.
LEMMA Classified ==
  ASSUME NEW key
  PROVE  /\ CharacterClass(ClassifyVariant("character", key))
         /\ PlaceClass(ClassifyVariant("place", key))
<1>1. CharacterClass(Strict("unknown", "")) /\ PlaceClass(Strict("unknown", ""))
  BY DEF CharacterClass, PlaceClass, strongWeatherValues, Strict
<1> QED BY <1>1, CharacterClassRows, PlaceClassRows DEF ClassifyVariant

\* What a verdict may be; an exact one is of the same key.
LEMMA VerdictShape ==
  ASSUME NEW e, NEW asked, NEW shown
  PROVE  /\ CompareVariants(e, asked, shown).outcome \in Outcomes \cup {"invalid_match"}
         /\ CompareVariants(e, asked, shown).score \in 0..100
         /\ CompareVariants(e, asked, shown).outcome = "exact_match" <=> asked = shown
<1> DEFINE Shape(v) == v.outcome \in {"compatible_match", "preview_fallback", "invalid_match"} /\ v.score \in 0..100
<1>1. /\ Shape(Invalid) /\ Shape(Compatible(65)) /\ Shape(Compatible(70)) /\ Shape(Compatible(80))
      /\ Shape(Compatible(85)) /\ Shape(Compatible(90)) /\ Shape(Preview(40)) /\ Shape(Preview(50))
  BY DEF Invalid, Compatible, Preview
<1>2. Exact.outcome = "exact_match" /\ Exact.score = 100 BY DEF Exact
<1> HIDE DEF Shape
<1>3. ASSUME NEW r, NEW c PROVE Shape(compareCharacter(r, c))
  <2>1. Shape(characterAngle(r, c)) BY <1>1 DEF characterAngle, Verdict
  <2> QED BY <1>1, <2>1 DEF compareCharacter, Verdict
<1>4. ASSUME NEW r, NEW c PROVE Shape(comparePlace(r, c))
  <2>1. Shape(placeTimeOfDay(r, c)) /\ Shape(placeWeather(r, c)) /\ Shape(placeCrowd(r, c))
    BY <1>1 DEF placeTimeOfDay, placeWeather, placeCrowd, Verdict
  <2> QED BY <1>1, <2>1 DEF comparePlace, Verdict
<1>5. CASE asked = shown
  <2>1. CompareVariants(e, asked, shown) = Exact BY <1>5 DEF CompareVariants
  <2> QED BY <2>1, <1>2, <1>5 DEF Outcomes
<1>6. CASE asked # shown
  <2>1. Shape(CompareVariants(e, asked, shown)) BY <1>1, <1>3, <1>4, <1>6 DEF CompareVariants
  <2> QED BY <2>1, <1>6 DEF Shape, Outcomes
<1> QED BY <1>5, <1>6

\* A verdict is a substitution when it is neither exact nor a refusal.
Substitutes(v) == v.outcome \in {"compatible_match", "preview_fallback"}

\* Verdicts a refusal is not.
LEMMA RefusalIsNone == ~Substitutes(Invalid) /\ \A p, v : Substitutes(Verdict(p, v)) => p /\ Substitutes(v)
BY DEF Substitutes, Invalid, Verdict

\* A character stands in for another only when both may be shown and their
\* moods agree.
LEMMA CharacterAgrees ==
  ASSUME NEW r, NEW c, CharacterClass(r), CharacterClass(c), Substitutes(compareCharacter(r, c))
  PROVE  /\ r.family \notin strictCharacterFamilies /\ c.family \notin strictCharacterFamilies
         /\ r.family = c.family \/ r.family = "neutral" \/ c.family = "neutral"
<1>1. ~({r.family, c.family} \cap strictCharacterFamilies # {})
  BY RefusalIsNone DEF compareCharacter
<1>2. r.family = c.family \/ "neutral" \in {r.family, c.family}
  <2>1. SUFFICES ASSUME r.family # c.family PROVE "neutral" \in {r.family, c.family} OBVIOUS
  <2>2. compareCharacter(r, c) = Verdict("neutral" \in {r.family, c.family} /\ c.fallback, Compatible(65))
    BY <1>1, <2>1 DEF compareCharacter
  <2> QED BY <2>2, RefusalIsNone
<1> QED BY <1>1, <1>2

\* A place stands in for another only when both may be shown, neither is in
\* strong weather and their times of day agree.
LEMMA PlaceAgrees ==
  ASSUME NEW r, NEW c, PlaceClass(r), PlaceClass(c), Substitutes(comparePlace(r, c))
  PROVE  /\ r.family \notin strictPlaceFamilies /\ c.family \notin strictPlaceFamilies
         /\ r.tag \notin strongWeatherValues /\ c.tag \notin strongWeatherValues
         /\ \/ r.family = c.family /\ r.family = "time_of_day"
               /\ (r.tag = c.tag \/ {r.tag, c.tag} \subseteq {"dawn", "dusk"})
            \/ r.family = c.family /\ r.family \in {"weather", "crowd"}
            \/ r.family = c.family /\ r.family = "establishing"
               /\ r.tag \in {"", "day"} /\ c.tag \in {"", "day"}
            \/ r.family = "time_of_day" /\ c.family = "establishing" /\ c.tag = ""
<1>1. ~({r.family, c.family} \cap strictPlaceFamilies # {})
  BY RefusalIsNone DEF comparePlace
<1>2. CASE r.family # c.family
  <2>1. comparePlace(r, c) = Verdict(r.family = "time_of_day" /\ c.family = "establishing"
                                     /\ c.fallback /\ c.tag = "", Preview(40))
    BY <1>1, <1>2 DEF comparePlace
  <2>2. r.family = "time_of_day" /\ c.family = "establishing" /\ c.tag = "" BY <2>1, RefusalIsNone
  <2> QED BY <1>1, <2>2 DEF PlaceClass
<1>3. CASE r.family = c.family /\ r.family = "time_of_day"
  <2>1. comparePlace(r, c) = placeTimeOfDay(r, c) BY <1>1, <1>3 DEF comparePlace
  <2>2. r.tag = c.tag \/ {r.tag, c.tag} \subseteq {"dawn", "dusk"}
    BY <2>1, RefusalIsNone DEF placeTimeOfDay
  <2> QED BY <1>1, <1>3, <2>2 DEF PlaceClass
<1>4. CASE r.family = c.family /\ r.family = "weather"
  <2>1. comparePlace(r, c) = placeWeather(r, c) BY <1>1, <1>4 DEF comparePlace
  <2>2. {r.tag, c.tag} \cap strongWeatherValues = {} BY <2>1, RefusalIsNone DEF placeWeather
  <2> QED BY <1>1, <1>4, <2>2
<1>5. CASE r.family = c.family /\ r.family \in {"crowd", "establishing"}
  BY <1>1, <1>5 DEF PlaceClass
<1>6. CASE r.family = c.family /\ r.family \notin {"time_of_day", "weather", "crowd", "establishing"}
  <2>1. comparePlace(r, c) = Verdict(r.family = "establishing", Compatible(80))
    BY <1>1, <1>6 DEF comparePlace
  <2> QED BY <2>1, <1>6, RefusalIsNone
<1> QED BY <1>2, <1>3, <1>4, <1>5, <1>6

\* No substitute of the matrix contradicts what was asked for.
LEMMA MatrixIsSafe ==
  ASSUME NEW asked, NEW shown, entity \in {"character", "place"},
         Substitutes(CompareVariants(entity, asked, shown))
  PROVE  ~Contradicts(asked, shown)
<1> DEFINE r == ClassifyVariant(entity, asked)
           c == ClassifyVariant(entity, shown)
<1>1. asked # shown
  BY VerdictShape DEF Substitutes
<1>2. "unknown" \notin {r.family, c.family}
  BY <1>1, RefusalIsNone DEF CompareVariants
<1>3. CompareVariants(entity, asked, shown)
         = IF entity = "character" THEN compareCharacter(r, c) ELSE comparePlace(r, c)
  BY <1>1, <1>2 DEF CompareVariants
<1>4. CASE entity = "character"
  <2>1. CharacterClass(r) /\ CharacterClass(c) BY <1>4, Classified
  <2>2. Substitutes(compareCharacter(r, c)) BY <1>3, <1>4
  <2> HIDE DEF r, c
  <2>3. /\ r.family \notin strictCharacterFamilies /\ c.family \notin strictCharacterFamilies
        /\ r.family = c.family \/ r.family = "neutral" \/ c.family = "neutral"
    BY <2>1, <2>2, CharacterAgrees
  <2>4. r.family \in {"neutral", "warm", "tense"} /\ c.family \in {"neutral", "warm", "tense"}
        /\ r.tag \notin strongWeatherValues /\ c.tag \notin strongWeatherValues
    BY <2>1, <2>3, <1>2 DEF CharacterClass
  <2>5. ~Only(asked) /\ ~Only(shown)
    BY <2>4 DEF Only, r, c, strictCharacterFamilies, strictPlaceFamilies
  <2>6. Time(asked) = "any" /\ Time(shown) = "any" BY <2>4 DEF Time, r, c
  <2>7. Mood(asked) = Mood(shown) \/ "any" \in {Mood(asked), Mood(shown)}
    BY <2>3, <2>4 DEF Mood, r, c, mildExpressions
  <2> QED BY <2>5, <2>6, <2>7 DEF Contradicts
<1>5. CASE entity = "place"
  <2>1. PlaceClass(r) /\ PlaceClass(c) BY <1>5, Classified
  <2>2. Substitutes(comparePlace(r, c)) BY <1>3, <1>5
  <2> DEFINE TimeAgrees ==
            \/ r.family = c.family /\ r.family = "time_of_day"
               /\ (r.tag = c.tag \/ {r.tag, c.tag} \subseteq {"dawn", "dusk"})
            \/ r.family = c.family /\ r.family \in {"weather", "crowd"}
            \/ r.family = c.family /\ r.family = "establishing"
               /\ r.tag \in {"", "day"} /\ c.tag \in {"", "day"}
            \/ r.family = "time_of_day" /\ c.family = "establishing" /\ c.tag = ""
  <2> HIDE DEF r, c
  <2>3. /\ r.family \notin strictPlaceFamilies /\ c.family \notin strictPlaceFamilies
        /\ r.tag \notin strongWeatherValues /\ c.tag \notin strongWeatherValues
        /\ TimeAgrees
    BY <2>1, <2>2, PlaceAgrees
  <2>4. r.family \in {"establishing", "time_of_day", "crowd", "weather"}
        /\ c.family \in {"establishing", "time_of_day", "crowd", "weather"}
    BY <2>1, <2>3, <1>2 DEF PlaceClass
  <2>5. ~Only(asked) /\ ~Only(shown)
    BY <2>3, <2>4 DEF Only, r, c, strictCharacterFamilies, strictPlaceFamilies
  <2>6. Mood(asked) = "any" /\ Mood(shown) = "any" BY <2>4 DEF Mood, r, c, mildExpressions
  <2>7. Time(asked) = Time(shown) \/ "any" \in {Time(asked), Time(shown)}
    BY <2>3 DEF Time, r, c
  <2> QED BY <2>5, <2>6, <2>7 DEF Contradicts
<1> QED BY <1>4, <1>5

-----------------------------------------------------------------------------
(* The best candidate *)

\* A nonempty set of naturals has a least member.
LEMMA LeastExists ==
  ASSUME NEW S, S \subseteq Nat, S # {}
  PROVE  \E x \in S : \A y \in S : x <= y
<1>1. PICK x \in S : \A y \in S : ~(<<y, x>> \in OpToRel(<, Nat))
  BY NatLessThanWellFounded, WFMin
<1>2. \A y \in S : ~(y < x)
  BY <1>1 DEF OpToRel
<1> QED BY <1>2

\* Something in a nonempty set has the least measure.
LEMMA LeastMeasure ==
  ASSUME NEW S, S # {}, NEW m \in [S -> Nat]
  PROVE  \E x \in S : \A y \in S : m[x] <= m[y]
<1> DEFINE V == {m[x] : x \in S}
<1>1. V \subseteq Nat /\ V # {} OBVIOUS
<1> HIDE DEF V
<1>2. PICK v \in V : \A u \in V : v <= u BY <1>1, LeastExists
<1> QED BY <1>2 DEF V

\* pickBest is well defined on any set of assets: tiers and scores are bounded
\* above, ranks and ids below.
LEMMA BestExists ==
  ASSUME entity \in {"character", "place"}, NEW S, S \subseteq Nat, S # {}
  PROVE  pickBest(S) \in S
<1> DEFINE tier == [i \in S |-> 3 - Tier(VerdictOn(i).outcome)]
           S1 == {i \in S : \A j \in S : tier[i] <= tier[j]}
           score == [i \in S1 |-> 100 - VerdictOn(i).score]
           S2 == {i \in S1 : \A j \in S1 : score[i] <= score[j]}
           rank == [i \in S2 |-> Rank(i)]
           S3 == {i \in S2 : \A j \in S2 : rank[i] <= rank[j]}
<1>1. \A i : /\ VerdictOn(i).score \in 0..100 /\ Rank(i) \in Nat
             /\ Tier(VerdictOn(i).outcome) \in 0..3
  <2>1. ASSUME NEW i PROVE VerdictOn(i).score \in 0..100 /\ Rank(i) \in Nat
    <3>1. Rank(i) \in Nat BY Classified DEF Rank, CharacterClass, PlaceClass
    <3> QED BY <3>1, VerdictShape DEF VerdictOn
  <2>2. \A o : Tier(o) \in 0..3 BY DEF Tier
  <2> QED BY <2>1, <2>2
<1>2. S1 # {}
  <2>1. tier \in [S -> Nat] BY <1>1
  <2> HIDE DEF tier
  <2> QED BY <2>1, LeastMeasure
<1>3. S2 # {}
  <2>1. score \in [S1 -> Nat] BY <1>1
  <2> HIDE DEF score, S1
  <2> QED BY <2>1, <1>2, LeastMeasure
<1>4. S3 # {}
  <2>1. rank \in [S2 -> Nat] BY <1>1
  <2> HIDE DEF rank, S2
  <2> QED BY <2>1, <1>3, LeastMeasure
<1>5. S3 \subseteq Nat /\ S3 \subseteq S OBVIOUS
<1>6. PICK b \in S3 : \A j \in S3 : b <= j
  <2> HIDE DEF S3
  <2> QED BY <1>4, <1>5, LeastExists
<1>7. ASSUME NEW j \in S PROVE Better(b, j)
  <2> DEFINE t(i) == Tier(VerdictOn(i).outcome)
             s(i) == VerdictOn(i).score
  <2>1. /\ t(b) \in 0..3 /\ t(j) \in 0..3 /\ s(b) \in 0..100 /\ s(j) \in 0..100
        /\ Rank(b) \in Nat /\ Rank(j) \in Nat /\ b \in Nat /\ j \in Nat
    BY <1>1, <1>5
  <2>2. t(b) >= t(j) BY <2>1
  <2>3. t(b) = t(j) => j \in S1 BY <1>1
  <2>4. j \in S1 => s(b) >= s(j)
    <3>1. SUFFICES ASSUME j \in S1 PROVE s(b) >= s(j) OBVIOUS
    <3>2. score[b] = 100 - s(b) /\ score[j] = 100 - s(j) BY <3>1
    <3>3. b \in S2 OBVIOUS
    <3>4. score[b] <= score[j] BY <3>1, <3>3
    <3> HIDE DEF s, score
    <3> QED BY <2>1, <3>2, <3>4
  <2>5. j \in S1 /\ s(b) = s(j) => j \in S2
    <3>1. SUFFICES ASSUME j \in S1, s(b) = s(j) PROVE j \in S2 OBVIOUS
    <3>2. score[b] = score[j] BY <3>1
    <3> QED BY <3>1, <3>2
  <2>6. j \in S2 => Rank(b) <= Rank(j) OBVIOUS
  <2>7. j \in S2 /\ Rank(b) = Rank(j) => j \in S3
    <3>1. SUFFICES ASSUME j \in S2, Rank(b) = Rank(j) PROVE j \in S3 OBVIOUS
    <3>2. rank[b] = rank[j] BY <3>1
    <3> QED BY <3>1, <3>2
  <2>8. j \in S3 => b <= j BY <1>6
  <2> HIDE DEF S1, S2, S3
  <2>9. \/ t(b) > t(j)
        \/ t(b) = t(j) /\ \/ s(b) > s(j)
                          \/ s(b) = s(j) /\ (Rank(b) < Rank(j) \/ (Rank(b) = Rank(j) /\ b <= j))
    <3> HIDE DEF t, s
    <3> QED BY <2>1, <2>2, <2>3, <2>4, <2>5, <2>6, <2>7, <2>8
  <2> QED BY <2>9 DEF Better
<1> QED BY <1>5, <1>7 DEF pickBest

-----------------------------------------------------------------------------
(* The plan *)

LibraryRow == [key : KeysOf[entity] \cup {"none"}, status : {"ready", "archived", "absent"},
               anchor : BOOLEAN, quality : QualitiesOf[entity] \cup {"standard", "none"}]
PlanItem == [role : STRING, asset : Library, match : Outcomes]

PlanTypes ==
    /\ entity \in EntityTypes
    /\ lib \in [Library -> LibraryRow]
    /\ reuse \in Seq(PlanItem) /\ missing \in Seq(STRING)
    /\ next \in 1..Len(Roles) + 1
    /\ \/ at \in {"exact", "list"} /\ next <= Len(Roles)
       \/ at \in {"finish", "done"} /\ next = Len(Roles) + 1

\* What an item shows still fits its role: its row may be archived, not replaced.
Fits(item, pol) ==
    /\ lib[item.asset].status # "absent"
    /\ IF item.match = "exact_match"
       THEN lib[item.asset].key = item.role /\ lib[item.asset].quality = "standard"
       ELSE /\ lib[item.asset].key # item.role /\ ~lib[item.asset].anchor
            /\ pol # "any_existing" => ~Contradicts(item.role, lib[item.asset].key)

ItemsFit == \A n \in DOMAIN reuse : Fits(reuse[n], policy)

\* The roles visited so far are either reused or missing, each once.
VisitedOnce ==
    /\ Len(reuse) + Len(missing) = next - 1
    /\ \A m, n \in DOMAIN reuse : m # n => reuse[m].asset # reuse[n].asset
    /\ \A n \in DOMAIN reuse : \E i \in 1..(next - 1) : reuse[n].role = Roles[i]
    /\ \A n \in DOMAIN missing : \E i \in 1..(next - 1) : missing[n] = Roles[i]
    /\ \A i \in 1..(next - 1) : \/ \E n \in DOMAIN reuse : reuse[n].role = Roles[i]
                                \/ \E n \in DOMAIN missing : missing[n] = Roles[i]
    /\ \A m \in DOMAIN reuse, n \in DOMAIN missing : reuse[m].role # missing[n]

\* The answer is made of the finished plan.
AnswerFollows ==
    at = "done" =>
        /\ answer.units = Len(missing)
        /\ answer.cache = "exact_match" => \A n \in DOMAIN reuse : reuse[n].match = "exact_match"

PlanInv == PlanTypes /\ ItemsFit /\ VisitedOnce /\ AnswerFollows

\* The roles of the request: a sequence without repetition.
LEMMA RolesShape ==
  ASSUME entity \in EntityTypes
  PROVE  /\ entity \in {"character", "place"} /\ Library \subseteq Nat
         /\ Roles \in Seq(STRING) /\ Len(Roles) \in Nat \ {0}
         /\ \A i \in 1..Len(Roles) : Roles[i] \in STRING
         /\ \A i, j \in 1..Len(Roles) : Roles[i] = Roles[j] => i = j
<1>1. entity \in {"character", "place"} /\ Library \subseteq Nat BY ReuseAssumption
<1>2. Roles \in Seq(STRING) /\ Roles # <<>> /\ IsInjective(Roles) BY ReuseAssumption DEF Roles
<1>3. Len(Roles) \in Nat \ {0} BY <1>2
<1>4. DOMAIN Roles = 1..Len(Roles) BY <1>2
<1>5. \A i \in 1..Len(Roles) : Roles[i] \in STRING BY <1>2
<1>6. \A i, j \in 1..Len(Roles) : Roles[i] = Roles[j] => i = j BY <1>2, <1>4 DEF IsInjective
<1> QED BY <1>1, <1>2, <1>3, <1>5, <1>6

\* Initially the plan is empty.
LEMMA PlanStarts == ASSUME PlanInit PROVE PlanInv
<1>1. entity \in EntityTypes /\ next = 1 /\ at = "exact" /\ reuse = <<>> /\ missing = <<>>
  BY DEF PlanInit
<1>2. Len(Roles) \in Nat \ {0} BY <1>1, RolesShape
<1>3. lib \in [Library -> LibraryRow]
  <2>1. {a \in Asset : a.status = "ready"} \cup {Absent} \subseteq LibraryRow
    <3>1. Absent \in LibraryRow BY DEF Absent, LibraryRow
    <3>2. ASSUME NEW a \in Asset PROVE a \in LibraryRow BY DEF Asset, LibraryRow
    <3> QED BY <3>1, <3>2
  <2> QED BY <2>1 DEF PlanInit
<1>4. reuse \in Seq(PlanItem) /\ missing \in Seq(STRING) BY <1>1
<1>5. PlanTypes
  <2> DEFINE N == Len(Roles)
  <2> HIDE DEF N
  <2>1. N \in Nat \ {0} BY <1>2 DEF N
  <2>2. 1 \in 1..N + 1 /\ 1 <= N BY <2>1
  <2>3. next \in 1..N + 1 /\ next <= N BY <1>1, <2>2
  <2>4. next \in 1..Len(Roles) + 1 /\ next <= Len(Roles) BY <2>3 DEF N
  <2> QED BY <1>1, <1>3, <1>4, <2>4, Zenon DEF PlanTypes
<1>6. DOMAIN reuse = {} /\ DOMAIN missing = {} /\ Len(reuse) = 0 /\ Len(missing) = 0 BY <1>1
<1>7. ItemsFit BY <1>6 DEF ItemsFit
<1>8. VisitedOnce BY <1>1, <1>6 DEF VisitedOnce
<1>9. AnswerFollows BY <1>1 DEF AnswerFollows
<1> QED BY <1>5, <1>7, <1>8, <1>9 DEF PlanInv

\* The next role is not one of those visited.
LEMMA RoleIsNew ==
  ASSUME PlanInv, next <= Len(Roles)
  PROVE  /\ Role \in STRING /\ Role = Roles[next]
         /\ \A n \in DOMAIN reuse : reuse[n].role # Role
         /\ \A n \in DOMAIN missing : missing[n] # Role
<1>1. /\ next \in 1..Len(Roles) /\ next \in Nat
      /\ \A i, j \in 1..Len(Roles) : Roles[i] = Roles[j] => i = j
      /\ Role = Roles[next] /\ Role \in STRING
  BY RolesShape DEF PlanInv, PlanTypes, Role
<1>2. \A i \in 1..(next - 1) : Roles[i] # Role
  <2>1. SUFFICES ASSUME NEW i \in 1..(next - 1), Roles[i] = Role PROVE FALSE OBVIOUS
  <2>2. i \in 1..Len(Roles) /\ i # next BY <1>1
  <2> QED BY <2>1, <2>2, <1>1
<1> QED BY <1>1, <1>2 DEF PlanInv, VisitedOnce

\* The step to the next role.
LEMMA NextRoleTypes ==
  ASSUME PlanInv, at \in {"exact", "list"}, NextRole, UNCHANGED entity
  PROVE  /\ next' = next + 1 /\ next \in Nat /\ next <= Len(Roles) /\ Roles' = Roles
         /\ next' \in 1..Len(Roles) + 1 /\ at' # "done"
         /\ \/ at' \in {"exact", "list"} /\ next' <= Len(Roles)
            \/ at' \in {"finish", "done"} /\ next' = Len(Roles) + 1
<1>1. next \in 1..Len(Roles) /\ Len(Roles) \in Nat
  BY RolesShape DEF PlanInv, PlanTypes
<1>2. Roles' = Roles BY DEF Roles
<1> DEFINE N == Len(Roles)
<1>3. next' = next + 1 /\ at' = IF next = N THEN "finish" ELSE "exact" BY DEF NextRole
<1>4. next \in 1..N /\ N \in Nat BY <1>1
<1> HIDE DEF N
<1>5. next' \in 1..N + 1 /\ (next # N => next' <= N) BY <1>3, <1>4
<1>6. next \in Nat /\ next <= N BY <1>4
<1>7. (at' = "finish" /\ next' = N + 1) \/ (at' = "exact" /\ next' <= N)
  BY <1>3, <1>4, <1>5
<1>8. next' \in 1..Len(Roles) + 1 /\ next <= Len(Roles) BY <1>5, <1>6 DEF N
<1>9. (at' = "finish" /\ next' = Len(Roles) + 1) \/ (at' = "exact" /\ next' <= Len(Roles))
  BY <1>7 DEF N
<1> HIDE DEF NextRole
<1> QED BY <1>2, <1>3, <1>6, <1>8, <1>9

\* Whether an item fits depends on the library and the policy alone.
LEMMA FitsStays ==
  ASSUME UNCHANGED <<entity, lib>>, NEW item, NEW pol
  PROVE  Fits(item, pol)' <=> Fits(item, pol)
<1>1. entity' = entity /\ lib' = lib OBVIOUS
<1>2. \A a, b : Contradicts(a, b)' <=> Contradicts(a, b)
  BY <1>1 DEF Contradicts, Only, Mood, Time
<1> QED BY <1>1, <1>2 DEF Fits

\* A missing role joins the misses.
LEMMA MissKeeps ==
  ASSUME PlanInv, at \in {"exact", "list"}, NextRole,
         missing' = Append(missing, Role), UNCHANGED <<entity, lib, policy, reuse>>
  PROVE  PlanInv'
<1>1. /\ next' = next + 1 /\ next \in Nat /\ next <= Len(Roles) /\ Roles' = Roles
      /\ next' \in 1..Len(Roles) + 1 /\ at' # "done"
      /\ \/ at' \in {"exact", "list"} /\ next' <= Len(Roles)
         \/ at' \in {"finish", "done"} /\ next' = Len(Roles) + 1
  BY NextRoleTypes
<1>2. /\ Role \in STRING /\ Role = Roles[next]
      /\ \A n \in DOMAIN reuse : reuse[n].role # Role
  BY <1>1, RoleIsNew
<1>3. missing \in Seq(STRING) /\ reuse \in Seq(PlanItem) BY DEF PlanInv, PlanTypes
<1>4. /\ missing' \in Seq(STRING) /\ Len(missing') = Len(missing) + 1
      /\ DOMAIN missing' = DOMAIN missing \cup {Len(missing) + 1}
      /\ missing'[Len(missing) + 1] = Role
      /\ \A n \in DOMAIN missing : missing'[n] = missing[n]
  BY <1>2, <1>3
<1>5. reuse' = reuse /\ Len(reuse) \in Nat /\ Len(missing) \in Nat BY <1>3
<1>6. PlanTypes'
  <2>1. LibraryRow' = LibraryRow BY DEF LibraryRow
  <2> QED BY <1>1, <1>4, <2>1 DEF PlanInv, PlanTypes
<1>7. ItemsFit'
  <2>1. \A i, p : Fits(i, p)' <=> Fits(i, p) BY FitsStays
  <2> QED BY <2>1 DEF PlanInv, ItemsFit
<1>8. VisitedOnce'
  <2>0. VisitedOnce /\ next' - 1 = next /\ 1..(next' - 1) = 1..(next - 1) \cup {next}
    BY <1>1 DEF PlanInv, PlanTypes
  <2>1. Len(reuse') + Len(missing') = next' - 1
    <3>1. Len(reuse) + Len(missing) = next - 1 BY <2>0 DEF VisitedOnce
    <3>2. next' = next + 1 /\ next \in Nat BY <1>1
    <3> QED BY <3>1, <3>2, <1>4, <1>5
  <2>2. \A m, n \in DOMAIN reuse' : m # n => reuse'[m].asset # reuse'[n].asset
    BY <2>0, <1>5 DEF VisitedOnce
  <2>3. \A n \in DOMAIN reuse' : \E i \in 1..(next' - 1) : reuse'[n].role = Roles[i]
    <3>1. SUFFICES ASSUME NEW n \in DOMAIN reuse
          PROVE  \E i \in 1..(next' - 1) : reuse[n].role = Roles[i]
      BY <1>5
    <3>2. PICK i \in 1..(next - 1) : reuse[n].role = Roles[i] BY <2>0 DEF VisitedOnce
    <3> QED BY <3>2, <2>0
  <2>4. \A n \in DOMAIN missing' : \E i \in 1..(next' - 1) : missing'[n] = Roles[i]
    <3>1. SUFFICES ASSUME NEW n \in DOMAIN missing'
          PROVE  \E i \in 1..(next' - 1) : missing'[n] = Roles[i]
      OBVIOUS
    <3>2. CASE n \in DOMAIN missing
      <4>1. PICK i \in 1..(next - 1) : missing[n] = Roles[i] BY <3>2, <2>0 DEF VisitedOnce
      <4> QED BY <4>1, <3>2, <2>0, <1>4
    <3>3. CASE n = Len(missing) + 1 BY <3>3, <2>0, <1>2, <1>4
    <3> QED BY <3>1, <3>2, <3>3, <1>4
  <2>5. \A i \in 1..(next' - 1) : \/ \E n \in DOMAIN reuse' : reuse'[n].role = Roles[i]
                                  \/ \E n \in DOMAIN missing' : missing'[n] = Roles[i]
    <3>1. SUFFICES ASSUME NEW i \in 1..(next' - 1)
          PROVE  \/ \E n \in DOMAIN reuse : reuse[n].role = Roles[i]
                 \/ \E n \in DOMAIN missing' : missing'[n] = Roles[i]
      BY <1>5
    <3>2. CASE i = next BY <3>2, <1>2, <1>4
    <3>3. CASE i \in 1..(next - 1)
      <4>1. CASE \E n \in DOMAIN reuse : reuse[n].role = Roles[i] BY <4>1
      <4>2. CASE \E n \in DOMAIN missing : missing[n] = Roles[i] BY <4>2, <1>4
      <4> QED BY <4>1, <4>2, <3>3, <2>0 DEF VisitedOnce
    <3> QED BY <3>1, <3>2, <3>3, <2>0
  <2>6. \A m \in DOMAIN reuse', n \in DOMAIN missing' : reuse'[m].role # missing'[n]
    <3>1. SUFFICES ASSUME NEW m \in DOMAIN reuse, NEW n \in DOMAIN missing'
          PROVE  reuse[m].role # missing'[n]
      BY <1>5
    <3>2. CASE n \in DOMAIN missing BY <3>2, <2>0, <1>4 DEF VisitedOnce
    <3>3. CASE n = Len(missing) + 1 BY <3>3, <1>2, <1>4
    <3> QED BY <3>1, <3>2, <3>3, <1>4
  <2>7. Roles' = Roles BY <1>1
  <2> QED BY <2>1, <2>2, <2>3, <2>4, <2>5, <2>6, <2>7 DEF VisitedOnce
<1>9. AnswerFollows' BY <1>1 DEF AnswerFollows
<1> QED BY <1>6, <1>7, <1>8, <1>9 DEF PlanInv

\* A reused role joins the items.
LEMMA ReuseKeeps ==
  ASSUME PlanInv, at \in {"exact", "list"}, NextRole,
         NEW i \in Library \ Claimed, NEW match \in Outcomes,
         Fits([role |-> Role, asset |-> i, match |-> match], policy),
         reuse' = Append(reuse, [role |-> Role, asset |-> i, match |-> match]),
         UNCHANGED <<entity, lib, policy, missing>>
  PROVE  PlanInv'
<1> DEFINE item == [role |-> Role, asset |-> i, match |-> match]
<1>1. /\ next' = next + 1 /\ next \in Nat /\ next <= Len(Roles) /\ Roles' = Roles
      /\ next' \in 1..Len(Roles) + 1 /\ at' # "done"
      /\ \/ at' \in {"exact", "list"} /\ next' <= Len(Roles)
         \/ at' \in {"finish", "done"} /\ next' = Len(Roles) + 1
  BY NextRoleTypes
<1>2. /\ Role \in STRING /\ Role = Roles[next]
      /\ \A n \in DOMAIN missing : missing[n] # Role
  BY <1>1, RoleIsNew
<1>3. missing \in Seq(STRING) /\ reuse \in Seq(PlanItem) BY DEF PlanInv, PlanTypes
<1>4. item \in PlanItem /\ item.role = Role /\ item.asset = i BY <1>2 DEF PlanItem
<1>5. Fits(item, policy) /\ reuse' = Append(reuse, item) OBVIOUS
<1> HIDE DEF item
<1>6. /\ reuse' \in Seq(PlanItem) /\ Len(reuse') = Len(reuse) + 1
      /\ DOMAIN reuse' = DOMAIN reuse \cup {Len(reuse) + 1}
      /\ reuse'[Len(reuse) + 1] = item
      /\ \A n \in DOMAIN reuse : reuse'[n] = reuse[n]
  BY <1>3, <1>4, <1>5
<1>7. missing' = missing /\ Len(reuse) \in Nat /\ Len(missing) \in Nat BY <1>3
<1>8. PlanTypes'
  <2>1. LibraryRow' = LibraryRow BY DEF LibraryRow
  <2> QED BY <1>1, <1>6, <2>1 DEF PlanInv, PlanTypes
<1>9. ItemsFit'
  <2>1. \A j, p : Fits(j, p)' <=> Fits(j, p) BY FitsStays
  <2> QED BY <2>1, <1>5, <1>6 DEF PlanInv, ItemsFit
<1>10. VisitedOnce'
  <2>0. VisitedOnce /\ next' - 1 = next /\ 1..(next' - 1) = 1..(next - 1) \cup {next}
    BY <1>1 DEF PlanInv, PlanTypes
  <2>1. Len(reuse') + Len(missing') = next' - 1
    <3>1. Len(reuse) + Len(missing) = next - 1 BY <2>0 DEF VisitedOnce
    <3>2. next' = next + 1 /\ next \in Nat BY <1>1
    <3>3. Len(reuse') = Len(reuse) + 1 /\ missing' = missing BY <1>6, <1>7
    <3>4. Len(reuse) \in Nat /\ Len(missing) \in Nat BY <1>7
    <3> HIDE DEF item
    <3> QED BY <3>1, <3>2, <3>3, <3>4
  <2>2. \A m, n \in DOMAIN reuse' : m # n => reuse'[m].asset # reuse'[n].asset
    <3>1. \A n \in DOMAIN reuse : reuse[n].asset # i BY DEF Claimed
    <3> QED BY <2>0, <3>1, <1>4, <1>6 DEF VisitedOnce
  <2>3. \A n \in DOMAIN reuse' : \E j \in 1..(next' - 1) : reuse'[n].role = Roles[j]
    <3>1. SUFFICES ASSUME NEW n \in DOMAIN reuse'
          PROVE  \E j \in 1..(next' - 1) : reuse'[n].role = Roles[j]
      OBVIOUS
    <3>2. CASE n \in DOMAIN reuse
      <4>1. PICK j \in 1..(next - 1) : reuse[n].role = Roles[j] BY <3>2, <2>0 DEF VisitedOnce
      <4> QED BY <4>1, <3>2, <2>0, <1>6
    <3>3. CASE n = Len(reuse) + 1 BY <3>3, <2>0, <1>2, <1>4, <1>6
    <3> QED BY <3>1, <3>2, <3>3, <1>6
  <2>4. \A n \in DOMAIN missing' : \E j \in 1..(next' - 1) : missing'[n] = Roles[j]
    <3>1. SUFFICES ASSUME NEW n \in DOMAIN missing
          PROVE  \E j \in 1..(next' - 1) : missing[n] = Roles[j]
      BY <1>7
    <3>2. PICK j \in 1..(next - 1) : missing[n] = Roles[j] BY <2>0 DEF VisitedOnce
    <3> QED BY <3>2, <2>0
  <2>5. \A j \in 1..(next' - 1) : \/ \E n \in DOMAIN reuse' : reuse'[n].role = Roles[j]
                                  \/ \E n \in DOMAIN missing' : missing'[n] = Roles[j]
    <3>1. SUFFICES ASSUME NEW j \in 1..(next' - 1)
          PROVE  \/ \E n \in DOMAIN reuse' : reuse'[n].role = Roles[j]
                 \/ \E n \in DOMAIN missing : missing[n] = Roles[j]
      BY <1>7
    <3>2. CASE j = next BY <3>2, <1>2, <1>4, <1>6
    <3>3. CASE j \in 1..(next - 1)
      <4>1. CASE \E n \in DOMAIN reuse : reuse[n].role = Roles[j] BY <4>1, <1>6
      <4>2. CASE \E n \in DOMAIN missing : missing[n] = Roles[j] BY <4>2
      <4> QED BY <4>1, <4>2, <3>3, <2>0 DEF VisitedOnce
    <3> QED BY <3>1, <3>2, <3>3, <2>0
  <2>6. \A m \in DOMAIN reuse', n \in DOMAIN missing' : reuse'[m].role # missing'[n]
    <3>1. SUFFICES ASSUME NEW m \in DOMAIN reuse', NEW n \in DOMAIN missing
          PROVE  reuse'[m].role # missing[n]
      BY <1>7
    <3>2. CASE m \in DOMAIN reuse BY <3>2, <2>0, <1>6 DEF VisitedOnce
    <3>3. CASE m = Len(reuse) + 1 BY <3>3, <1>2, <1>4, <1>6
    <3> QED BY <3>1, <3>2, <3>3, <1>6
  <2>7. Roles' = Roles BY <1>1
  <2> QED BY <2>1, <2>2, <2>3, <2>4, <2>5, <2>6, <2>7 DEF VisitedOnce
<1>11. AnswerFollows' BY <1>1 DEF AnswerFollows
<1> QED BY <1>8, <1>9, <1>10, <1>11 DEF PlanInv

\* The first of a set of assets belongs to it.
LEMMA LeastIsMember ==
  ASSUME NEW S, S \subseteq Nat, S # {}
  PROVE  Min(S) \in S
BY LeastExists DEF Min

\* Taking an asset that fits reuses it, or generates the role when it is claimed.
LEMMA TakeKeeps ==
  ASSUME PlanInv, at \in {"exact", "list"}, NextRole,
         NEW i \in Library, NEW match \in Outcomes, Take(i, match),
         Fits([role |-> Role, asset |-> i, match |-> match], policy),
         UNCHANGED <<entity, lib, policy>>
  PROVE  PlanInv'
<1>1. CASE i \in Claimed BY <1>1, MissKeeps DEF Take
<1>2. CASE i \notin Claimed
  <2>1. /\ reuse' = Append(reuse, [role |-> Role, asset |-> i, match |-> match])
        /\ missing' = missing
    BY <1>2 DEF Take
  <2> QED BY <1>2, <2>1, ReuseKeeps
<1> QED BY <1>1, <1>2

\* Ready rows are rows of the library.
LEMMA ReadyShape ==
  ASSUME PlanInv
  PROVE  /\ ReadyRows \subseteq Library /\ Library \subseteq Nat
         /\ \A i \in ReadyRows : lib[i].status # "absent"
         /\ \A i \in Library : lib[i] \in LibraryRow
         /\ entity \in {"character", "place"} /\ policy = policy
BY RolesShape DEF PlanInv, PlanTypes, ReadyRows

\* The exact read.
LEMMA ReadExactKeeps == ASSUME PlanInv, ReadExact PROVE PlanInv'
<1>1. at = "exact" /\ UNCHANGED <<entity, lib, policy, answer>> BY DEF ReadExact
<1>2. CASE FindExact(Role) # {}
  <2> DEFINE i == Min(FindExact(Role))
  <2>1. Take(i, "exact_match") /\ NextRole BY <1>2 DEF ReadExact
  <2>2. i \in FindExact(Role)
    <3>1. FindExact(Role) \subseteq Nat BY ReadyShape DEF FindExact
    <3> QED BY <1>2, <3>1, LeastIsMember
  <2> HIDE DEF i
  <2>3. /\ i \in Library /\ lib[i].status # "absent"
        /\ lib[i].key = Role /\ lib[i].quality = "standard"
    BY <2>2, ReadyShape DEF FindExact
  <2> DEFINE item == [role |-> Role, asset |-> i, match |-> "exact_match"]
  <2>4. item.role = Role /\ item.asset = i /\ item.match = "exact_match" OBVIOUS
  <2> HIDE DEF item
  <2>5. Fits(item, policy) BY <2>3, <2>4 DEF Fits
  <2>6. "exact_match" \in Outcomes BY DEF Outcomes
  <2> QED BY <1>1, <2>1, <2>3, <2>5, <2>6, TakeKeeps DEF item
<1>3. CASE FindExact(Role) = {} /\ policy = "none"
  <2>1. missing' = Append(missing, Role) /\ reuse' = reuse /\ NextRole BY <1>3 DEF ReadExact
  <2> QED BY <1>1, <2>1, MissKeeps
<1>4. CASE FindExact(Role) = {} /\ policy # "none"
  <2>1. at' = "list" /\ UNCHANGED <<next, reuse, missing>> BY <1>4 DEF ReadExact
  <2>2. LibraryRow' = LibraryRow /\ Roles' = Roles BY <1>1 DEF LibraryRow, Roles
  <2>3. next <= Len(Roles) BY <1>1 DEF PlanInv, PlanTypes
  <2>4. PlanTypes' BY <1>1, <2>1, <2>2, <2>3 DEF PlanInv, PlanTypes
  <2>5. ItemsFit'
    <3>1. \A i, p : Fits(i, p)' <=> Fits(i, p) BY <1>1, FitsStays
    <3> QED BY <1>1, <2>1, <3>1 DEF PlanInv, ItemsFit
  <2>6. VisitedOnce' BY <2>1, <2>2 DEF PlanInv, VisitedOnce
  <2>7. AnswerFollows' BY <2>1 DEF AnswerFollows
  <2> QED BY <2>4, <2>5, <2>6, <2>7 DEF PlanInv
<1> QED BY <1>2, <1>3, <1>4

\* A candidate the policy allows fits the role.
LEMMA QualifyingFits ==
  ASSUME PlanInv, NEW i \in Qualifying
  PROVE  /\ i \in Library /\ VerdictOn(i).outcome \in Outcomes
         /\ Fits([role |-> Role, asset |-> i, match |-> VerdictOn(i).outcome], policy)
<1> DEFINE item == [role |-> Role, asset |-> i, match |-> VerdictOn(i).outcome]
<1>1. item.role = Role /\ item.asset = i /\ item.match = VerdictOn(i).outcome OBVIOUS
<1>2. /\ i \in Library /\ lib[i].status # "absent" /\ ~lib[i].anchor
      /\ VerdictOn(i).outcome \in {"compatible_match", "preview_fallback"}
      /\ entity \in {"character", "place"}
  BY ReadyShape DEF Qualifying, ListRetrievalCandidates, outcomeAllowedByPolicy
<1>3. lib[i].key # Role /\ ~Contradicts(Role, lib[i].key)
  <2>1. Substitutes(CompareVariants(entity, Role, lib[i].key)) BY <1>2 DEF VerdictOn, Substitutes
  <2>2. ~Contradicts(Role, lib[i].key) BY <1>2, <2>1, MatrixIsSafe
  <2>3. Role # lib[i].key BY <2>1, VerdictShape DEF Substitutes
  <2> QED BY <2>2, <2>3
<1>4. VerdictOn(i).outcome \in Outcomes /\ VerdictOn(i).outcome # "exact_match" BY <1>2 DEF Outcomes
<1> HIDE DEF item
<1>5. Fits(item, policy) BY <1>1, <1>2, <1>3, <1>4 DEF Fits
<1> QED BY <1>2, <1>4, <1>5 DEF item

\* Under any_existing a candidate is another key's, and a preview.
LEMMA AnyExistingFits ==
  ASSUME PlanInv, NEW i \in AnyExisting
  PROVE  /\ i \in Library
         /\ Fits([role |-> Role, asset |-> i, match |-> "preview_fallback"], policy)
<1> DEFINE item == [role |-> Role, asset |-> i, match |-> "preview_fallback"]
<1>1. item.role = Role /\ item.asset = i /\ item.match = "preview_fallback" OBVIOUS
<1>2. policy = "any_existing" /\ i \in ListRetrievalCandidates /\ VerdictOn(i).outcome # "exact_match"
  BY DEF AnyExisting
<1>3. i \in Library /\ lib[i].status # "absent" /\ ~lib[i].anchor
  BY <1>2, ReadyShape DEF ListRetrievalCandidates
<1>4. lib[i].key # Role BY <1>2, VerdictShape DEF VerdictOn
<1> HIDE DEF item
<1>5. Fits(item, policy) BY <1>1, <1>2, <1>3, <1>4 DEF Fits
<1> QED BY <1>3, <1>5 DEF item

\* The read of the candidates.
LEMMA ReadCandidatesKeeps == ASSUME PlanInv, ReadCandidates PROVE PlanInv'
<1>1. at = "list" /\ UNCHANGED <<entity, lib, policy, answer>> /\ NextRole BY DEF ReadCandidates
<1>2. Qualifying \subseteq Nat /\ AnyExisting \subseteq Nat /\ entity \in {"character", "place"}
  BY ReadyShape DEF Qualifying, AnyExisting, ListRetrievalCandidates
<1>3. CASE Qualifying # {}
  <2> DEFINE i == pickBest(Qualifying)
  <2>1. i \in Qualifying BY <1>2, <1>3, BestExists
  <2>2. Take(i, VerdictOn(i).outcome) BY <1>3 DEF ReadCandidates
  <2> HIDE DEF i
  <2>3. /\ i \in Library /\ VerdictOn(i).outcome \in Outcomes
        /\ Fits([role |-> Role, asset |-> i, match |-> VerdictOn(i).outcome], policy)
    BY <2>1, QualifyingFits
  <2> QED BY <1>1, <2>2, <2>3, TakeKeeps
<1>4. CASE Qualifying = {} /\ AnyExisting # {}
  <2> DEFINE i == pickBest(AnyExisting)
  <2>1. i \in AnyExisting BY <1>2, <1>4, BestExists
  <2>2. Take(i, "preview_fallback") BY <1>4 DEF ReadCandidates
  <2> HIDE DEF i
  <2>3. i \in Library /\ Fits([role |-> Role, asset |-> i, match |-> "preview_fallback"], policy)
    BY <2>1, AnyExistingFits
  <2>4. "preview_fallback" \in Outcomes BY DEF Outcomes
  <2> QED BY <1>1, <2>2, <2>3, <2>4, TakeKeeps
<1>5. CASE Qualifying = {} /\ AnyExisting = {}
  <2>1. missing' = Append(missing, Role) /\ reuse' = reuse BY <1>5 DEF ReadCandidates
  <2> QED BY <1>1, <2>1, MissKeeps
<1> QED BY <1>3, <1>4, <1>5

\* The weakest tier is exact only when every item is.
LEMMA WeakestTier ==
  ASSUME NEW items, DOMAIN items # {}, \A n \in DOMAIN items : items[n].match \in Outcomes,
         aggregatePackCacheResult(items) = "exact_match"
  PROVE  \A n \in DOMAIN items : items[n].match = "exact_match"
<1> DEFINE m == [n \in DOMAIN items |-> Tier(items[n].match)]
<1>1. m \in [DOMAIN items -> Nat] BY DEF Tier
<1> HIDE DEF m
<1>2. PICK x \in DOMAIN items : \A n \in DOMAIN items : m[x] <= m[n] BY <1>1, LeastMeasure
<1>3. \A n \in DOMAIN items : Tier(items[x].match) <= Tier(items[n].match) BY <1>2 DEF m
<1>4. \A n \in DOMAIN items : Tier(aggregatePackCacheResult(items)) <= Tier(items[n].match)
  <2> DEFINE Weakest(o) == \A i \in DOMAIN items : Tier(o) <= Tier(items[i].match)
             matches == {items[i].match : i \in DOMAIN items}
  <2>1. items[x].match \in matches /\ Weakest(items[x].match) BY <1>3
  <2>2. aggregatePackCacheResult(items) = CHOOSE o \in matches : Weakest(o)
    BY DEF aggregatePackCacheResult
  <2> HIDE DEF Weakest, matches
  <2>3. Weakest(aggregatePackCacheResult(items)) BY <2>1, <2>2
  <2> QED BY <2>3 DEF Weakest
<1>5. Tier("exact_match") = 3 /\ \A o : Tier(o) >= 3 => o = "exact_match" BY DEF Tier
<1>6. \A o : Tier(o) \in 0..3 BY DEF Tier
<1> QED BY <1>4, <1>5, <1>6

\* The answer.
LEMMA FinishKeeps == ASSUME PlanInv, Finish PROVE PlanInv'
<1>1. /\ at = "finish" /\ at' = "done"
      /\ UNCHANGED <<entity, lib, policy, next, reuse, missing, changes>>
  BY DEF Finish
<1>2. LibraryRow' = LibraryRow /\ Roles' = Roles BY <1>1 DEF LibraryRow, Roles
<1>3. next = Len(Roles) + 1 /\ Len(Roles) \in Nat \ {0}
      /\ reuse \in Seq(PlanItem) /\ missing \in Seq(STRING)
  BY <1>1, RolesShape DEF PlanInv, PlanTypes
<1>4. PlanTypes' BY <1>1, <1>2, <1>3 DEF PlanInv, PlanTypes
<1>5. ItemsFit'
  <2>1. \A i, p : Fits(i, p)' <=> Fits(i, p) BY <1>1, FitsStays
  <2> QED BY <1>1, <2>1 DEF PlanInv, ItemsFit
<1>6. VisitedOnce' BY <1>1, <1>2 DEF PlanInv, VisitedOnce
<1>7. AnswerFollows'
  <2>1. CASE missing = <<>>
    <3>1. answer' = [units |-> 0, cache |-> aggregatePackCacheResult(reuse)] BY <2>1 DEF Finish
    <3>2. answer'.units = 0 /\ answer'.cache = aggregatePackCacheResult(reuse) BY <3>1
    <3>3. Len(missing) = 0 BY <2>1
    <3>4. Len(reuse) = Len(Roles)
      <4>1. Len(reuse) + Len(missing) = next - 1 BY DEF PlanInv, VisitedOnce
      <4>2. Len(reuse) \in Nat BY <1>3
      <4> QED BY <3>3, <4>1, <4>2, <1>3
    <3>5. DOMAIN reuse = 1..Len(reuse) /\ 1 \in DOMAIN reuse BY <3>4, <1>3
    <3>6. \A n \in DOMAIN reuse : reuse[n].match \in Outcomes
      <4>1. \A n \in DOMAIN reuse : reuse[n] \in PlanItem BY <1>3
      <4> QED BY <4>1 DEF PlanItem
    <3>7. answer'.cache = "exact_match" => \A n \in DOMAIN reuse : reuse[n].match = "exact_match"
      BY <3>2, <3>5, <3>6, WeakestTier
    <3> QED BY <1>1, <3>2, <3>3, <3>7 DEF AnswerFollows
  <2>2. CASE missing # <<>>
    <3>1. answer' = [units |-> Len(missing), cache |-> "generated_required"] BY <2>2 DEF Finish
    <3>2. answer'.units = Len(missing) /\ answer'.cache = "generated_required" BY <3>1
    <3> QED BY <1>1, <3>2 DEF AnswerFollows
  <2> QED BY <2>1, <2>2
<1> QED BY <1>4, <1>5, <1>6, <1>7 DEF PlanInv

\* A library in which every row that existed keeps what it shows.
LEMMA LibraryKeeps ==
  ASSUME PlanInv, at \notin {"finish", "done"}, NEW new \in Library, lib[new] = Absent,
         lib' \in [Library -> LibraryRow],
         \A i \in Library : i # new => /\ lib'[i].key = lib[i].key /\ lib'[i].anchor = lib[i].anchor
                                       /\ lib'[i].quality = lib[i].quality
                                       /\ lib[i].status # "absent" => lib'[i].status # "absent",
         UNCHANGED <<entity, policy, next, at, reuse, missing, answer>>
  PROVE  PlanInv'
<1>1. LibraryRow' = LibraryRow /\ Roles' = Roles BY DEF LibraryRow, Roles
<1>2. PlanTypes' BY <1>1 DEF PlanInv, PlanTypes
<1>3. ItemsFit'
  <2>1. SUFFICES ASSUME NEW n \in DOMAIN reuse PROVE Fits(reuse[n], policy)' BY DEF ItemsFit
  <2>2. Fits(reuse[n], policy) /\ reuse[n].asset \in Library
    <3>1. reuse[n] \in PlanItem BY DEF PlanInv, PlanTypes
    <3> QED BY <3>1 DEF PlanInv, ItemsFit, PlanItem
  <2>3. reuse[n].asset # new
    <3>1. lib[new].status = "absent" BY DEF Absent
    <3> QED BY <3>1, <2>2 DEF Fits
  <2>4. \A a, b : Contradicts(a, b)' <=> Contradicts(a, b) BY DEF Contradicts, Only, Mood, Time
  <2> QED BY <2>2, <2>3, <2>4 DEF Fits
<1>4. VisitedOnce' BY <1>1 DEF PlanInv, VisitedOnce
<1>5. AnswerFollows' BY DEF AnswerFollows
<1> QED BY <1>2, <1>3, <1>4, <1>5 DEF PlanInv

\* A worker publishes a row, or supersedes one.
LEMMA PublishKeeps == ASSUME PlanInv, Publish PROVE PlanInv'
<1>1. PICK new \in Library :
         /\ lib[new] = Absent
         /\ \/ \E k \in KeysOf[entity] :
                  lib' = [lib EXCEPT ![new] = [key |-> k, status |-> "ready", anchor |-> FALSE,
                                               quality |-> "standard"]]
            \/ \E old \in ReadyRows :
                  lib' = [lib EXCEPT ![new] = lib[old], ![old].status = "archived"]
  BY DEF Publish
<1>2. at \notin {"finish", "done"} /\ UNCHANGED <<entity, policy, next, at, reuse, missing, answer>>
  BY DEF Publish
<1>3. lib \in [Library -> LibraryRow] /\ ReadyRows \subseteq Library BY DEF PlanInv, PlanTypes, ReadyRows
<1>4. ASSUME NEW k \in KeysOf[entity],
             lib' = [lib EXCEPT ![new] = [key |-> k, status |-> "ready", anchor |-> FALSE,
                                          quality |-> "standard"]]
      PROVE  PlanInv'
  <2> DEFINE row == [key |-> k, status |-> "ready", anchor |-> FALSE, quality |-> "standard"]
  <2>1. row \in LibraryRow BY DEF LibraryRow
  <2> HIDE DEF row
  <2>2. lib' = [lib EXCEPT ![new] = row] BY <1>4 DEF row
  <2>3. lib' \in [Library -> LibraryRow] /\ \A i \in Library : i # new => lib'[i] = lib[i] BY <1>3, <2>1, <2>2
  <2> QED BY <1>1, <1>2, <2>3, LibraryKeeps
<1>5. ASSUME NEW old \in ReadyRows, lib' = [lib EXCEPT ![new] = lib[old], ![old].status = "archived"]
      PROVE  PlanInv'
  <2>1. old \in Library /\ lib[old].status = "ready" /\ lib[new].status = "absent" /\ old # new
    BY <1>1, <1>3 DEF ReadyRows, Absent
  <2> DEFINE row == [lib[old] EXCEPT !.status = "archived"]
  <2>2. /\ row \in LibraryRow /\ row.key = lib[old].key /\ row.anchor = lib[old].anchor
        /\ row.quality = lib[old].quality /\ row.status = "archived"
    <3>1. lib[old] \in LibraryRow BY <2>1, <1>3
    <3> QED BY <3>1 DEF LibraryRow
  <2>3. lib'[old] = row /\ lib'[new] = lib[old] BY <1>5, <1>3, <2>1
  <2>4. \A i \in Library \ {new, old} : lib'[i] = lib[i] BY <1>5, <1>3
  <2>5. lib' \in [Library -> LibraryRow]
    <3>1. lib' = [i \in Library |-> lib'[i]] BY <1>5, <1>3
    <3>2. \A i \in Library : lib'[i] \in LibraryRow BY <1>3, <2>1, <2>2, <2>3, <2>4
    <3> QED BY <3>1, <3>2
  <2> HIDE DEF row
  <2>6. \A i \in Library : i # new => /\ lib'[i].key = lib[i].key /\ lib'[i].anchor = lib[i].anchor
                                      /\ lib'[i].quality = lib[i].quality
                                      /\ lib[i].status # "absent" => lib'[i].status # "absent"
    BY <2>1, <2>2, <2>3, <2>4
  <2> QED BY <1>1, <1>2, <2>5, <2>6, LibraryKeeps
<1> QED BY <1>1, <1>4, <1>5

\* The invariant is inductive.
LEMMA PlanStep == ASSUME PlanInv, [PlanNext]_planVars PROVE PlanInv'
<1>1. CASE UNCHANGED planVars
  <2>1. UNCHANGED <<entity, lib, policy, next, at, reuse, missing, answer>> BY <1>1 DEF planVars
  <2>2. LibraryRow' = LibraryRow /\ Roles' = Roles BY <2>1 DEF LibraryRow, Roles
  <2>3. PlanTypes' BY <2>1, <2>2 DEF PlanInv, PlanTypes
  <2>4. ItemsFit'
    <3>1. \A i, p : Fits(i, p)' <=> Fits(i, p) BY <2>1, FitsStays
    <3> QED BY <2>1, <3>1 DEF PlanInv, ItemsFit
  <2>5. VisitedOnce' BY <2>1, <2>2 DEF PlanInv, VisitedOnce
  <2>6. AnswerFollows' BY <2>1 DEF PlanInv, AnswerFollows
  <2> QED BY <2>3, <2>4, <2>5, <2>6 DEF PlanInv
<1>2. CASE PlanNext
  BY <1>1, <1>2, ReadExactKeeps, ReadCandidatesKeeps, FinishKeeps, PublishKeeps DEF PlanNext
<1> QED BY <1>1, <1>2

\* Items that fit are safe.
LEMMA SafeByInvariant == ASSUME PlanInv PROVE SubstitutesAreSafe
BY DEF PlanInv, ItemsFit, Fits, SubstitutesAreSafe

\* Visiting each role once covers the roles.
LEMMA SoundByInvariant == ASSUME PlanInv PROVE PlanIsSound
<1>1. PlanCoversRoles
  <2> DEFINE done == {reuse[n].role : n \in DOMAIN reuse}
  <2>1. Range(missing) = {missing[n] : n \in DOMAIN missing} BY DEF Range
  <2>2. done \cap Range(missing) = {}
    BY <2>1 DEF PlanInv, VisitedOnce
  <2>3. done \cup Range(missing) = {Roles[i] : i \in 1..(next - 1)}
    <3>1. ASSUME NEW x \in done \cup Range(missing) PROVE x \in {Roles[i] : i \in 1..(next - 1)}
      BY <2>1 DEF PlanInv, VisitedOnce
    <3>2. ASSUME NEW i \in 1..(next - 1) PROVE Roles[i] \in done \cup Range(missing)
      BY <2>1 DEF PlanInv, VisitedOnce
    <3> QED BY <3>1, <3>2
  <2>4. at = "done" => answer.units = Len(Roles) - Len(reuse)
    <3>1. SUFFICES ASSUME at = "done" PROVE answer.units = Len(Roles) - Len(reuse) OBVIOUS
    <3>2. answer.units = Len(missing) /\ Len(reuse) + Len(missing) = next - 1
      BY <3>1 DEF PlanInv, AnswerFollows, VisitedOnce
    <3>3. next = Len(Roles) + 1 /\ Len(Roles) \in Nat /\ Len(reuse) \in Nat /\ Len(missing) \in Nat
      BY <3>1, RolesShape DEF PlanInv, PlanTypes
    <3> QED BY <3>2, <3>3
  <2>5. \A m, n \in DOMAIN reuse : m # n => reuse[m].asset # reuse[n].asset
    BY DEF PlanInv, VisitedOnce
  <2> QED BY <2>2, <2>3, <2>4, <2>5 DEF PlanCoversRoles
<1>2. CacheResultHonest
  BY DEF PlanInv, AnswerFollows, ItemsFit, Fits, CacheResultHonest
<1> QED BY <1>1, <1>2 DEF PlanIsSound

\* Whatever is published meanwhile and whichever candidate wins, a substitute
\* never contradicts the role, is never an anchor, and never of the role's key.
THEOREM SubstitutesSafe == PlanSpec => []SubstitutesAreSafe
<1>1. PlanInit => PlanInv BY PlanStarts
<1>2. PlanInv /\ [PlanNext]_planVars => PlanInv' BY PlanStep
<1>3. PlanInv => SubstitutesAreSafe BY SafeByInvariant
<1> QED BY <1>1, <1>2, <1>3, PTL DEF PlanSpec

\* The plan covers each required role once, prices what it does not reuse, and
\* claims an exact match only when every role shows an asset of its own key.
THEOREM PlanSound == PlanSpec => []PlanIsSound
<1>1. PlanInit => PlanInv BY PlanStarts
<1>2. PlanInv /\ [PlanNext]_planVars => PlanInv' BY PlanStep
<1>3. PlanInv => PlanIsSound BY SoundByInvariant
<1> QED BY <1>1, <1>2, <1>3, PTL DEF PlanSpec
=============================================================================
