----------------------------- MODULE PriceBook -----------------------------
(***************************************************************************)
(* The price rows of one (provider, model, operation type).  CreatePrice   *)
(* ends the active row and inserts its own in one READ COMMITTED           *)
(* transaction; UpdatePrice edits is_active and effective_to of any row.   *)
(* An UPDATE takes its snapshot, waits for the writers of the rows it      *)
(* found, and looks at each again; a partial unique index admits one       *)
(* active row.  Rows an open transaction wrote are in stmt until it commits*)
(***************************************************************************)
EXTENDS Integers, FiniteSets

CONSTANTS
    Creates,     \* CreatePrice requests; each names the row it inserts
    Updates,     \* UpdatePrice requests
    UnitPrice    \* the price_per_unit of each row

Seeded == "seeded"     \* the row of the seed migration

ASSUME PriceAssumption ==
    /\ Seeded \notin Creates \cup Updates
    /\ UnitPrice \in [Creates \cup {Seeded} -> Nat \ {0}]

VARIABLES
    book,        \* committed rows: id -> [active, to]
    tx,          \* where each request stands; some are never made
    stmt         \* of an open CreatePrice: rows its UPDATE found, rows it ended

bookVars == <<book, tx, stmt>>

RowIds == Creates \cup {Seeded}
ActiveRows == {r \in DOMAIN book : book[r].active}
\* Rows a transaction that has not committed wrote.
LockedBy(c) == IF tx[c] \in {"insert", "commit"} THEN stmt[c].ended ELSE {}
Locked == UNION {LockedBy(c) : c \in Creates}
Inserted == {c \in Creates : tx[c] = "commit"}

BookTypeOK ==
    /\ DOMAIN book \subseteq RowIds
    /\ \A r \in DOMAIN book : book[r] \in [active : BOOLEAN, to : {"null", "stamped"}]
    /\ tx \in [Creates \cup Updates -> {"unasked", "start", "supersede", "insert", "commit", "done", "failed"}]
    /\ stmt \in [Creates -> [found : SUBSET RowIds, ended : SUBSET RowIds]]
    \* rows locked by two transactions at once would be a lost wait
    /\ \A c, d \in Creates : c # d => LockedBy(c) \cap LockedBy(d) = {}

Books == {<<>>, [r \in {Seeded} |-> [active |-> TRUE, to |-> "null"]]}
NoStatements == [c \in Creates |-> [found |-> {}, ended |-> {}]]

BookInit ==
    /\ book \in Books
    /\ tx \in [Creates \cup Updates -> {"unasked", "start"}]
    /\ stmt = NoStatements

\* What routing's LEFT JOIN on is_active finds; 0 stands for no row.
ActivePrice == IF ActiveRows = {} THEN 0 ELSE UnitPrice[CHOOSE r \in ActiveRows : TRUE]

Proceed(p, s) == tx' = [tx EXCEPT ![p] = s]

-----------------------------------------------------------------------------

\* The UPDATE's snapshot: the active rows that are committed now.
CreatePrice(c) ==
    /\ c \in Creates /\ tx[c] = "start"
    /\ stmt' = [stmt EXCEPT ![c].found = ActiveRows]
    /\ Proceed(c, "supersede")
    /\ UNCHANGED book

\* It waits for each row it found, and ends those that are still active.
SupersedePreviousActivePrice(c) ==
    /\ c \in Creates /\ tx[c] = "supersede"
    /\ stmt[c].found \cap Locked = {}
    /\ stmt' = [stmt EXCEPT ![c].ended = stmt[c].found \cap ActiveRows]
    /\ Proceed(c, "insert")
    /\ UNCHANGED book

\* Mutation: no unique index.
InsertUnchecked(c) ==
    /\ c \in Creates /\ tx[c] = "insert"
    /\ Proceed(c, "commit")
    /\ UNCHANGED <<book, stmt>>

\* The unique index: waits for another transaction's active row, and fails
\* the transaction when a committed one it did not end is there.
InsertProviderModelPrice(c) ==
    /\ c \in Creates /\ tx[c] = "insert"
    /\ Inserted = {}
    /\ \/ ActiveRows \subseteq stmt[c].ended /\ Proceed(c, "commit")
       \/ ~(ActiveRows \subseteq stmt[c].ended) /\ Proceed(c, "failed")
    /\ UNCHANGED <<book, stmt>>

\* The audit event is written last; without it the transaction rolls back.
CommitPrice(c) ==
    /\ c \in Creates /\ tx[c] = "commit"
    /\ \/ /\ book' = [r \in DOMAIN book \cup {c} |->
                        IF r = c THEN [active |-> TRUE, to |-> "null"]
                        ELSE IF r \in stmt[c].ended THEN [active |-> FALSE, to |-> "stamped"]
                        ELSE book[r]]
          /\ Proceed(c, "done")
       \/ Proceed(c, "failed") /\ UNCHANGED book
    /\ UNCHANGED stmt

\* COALESCE: a field the request does not set keeps its value.
UpdateProviderModelPrice(row, set, active, to) ==
    [active |-> IF set = "to" THEN row.active ELSE active,
     to |-> IF set = "active" THEN row.to ELSE to]

\* One UPDATE by id.  It waits for the row, and when it activates the row for
\* the transactions whose rows the unique index still has to judge.
UpdatePrice(u) ==
    /\ u \in Updates /\ tx[u] = "start"
    /\ \E r \in DOMAIN book \ Locked, active \in BOOLEAN, set \in {"active", "to", "both"},
          to \in {"null", "stamped"} :
       LET row == UpdateProviderModelPrice(book[r], set, active, to) IN
          \/ /\ row.active /\ ActiveRows \ {r} # {}
             /\ Proceed(u, "failed") /\ UNCHANGED book
          \/ /\ row.active => ActiveRows \subseteq {r} /\ Inserted = {}
             /\ book' = [book EXCEPT ![r] = row]
             /\ Proceed(u, "done")
    /\ UNCHANGED stmt

-----------------------------------------------------------------------------

Create(c) ==
    \/ CreatePrice(c) \/ SupersedePreviousActivePrice(c)
    \/ InsertProviderModelPrice(c) \/ CommitPrice(c)

BookNext == (\E c \in Creates : Create(c)) \/ (\E u \in Updates : UpdatePrice(u))

BookSpec == BookInit /\ [][BookNext]_bookVars

-----------------------------------------------------------------------------
(* Properties *)

\* However creations and edits interleave, the price of the slot is one row:
\* routing and the reservation select by is_active alone.
AtMostOneActive == Cardinality(ActiveRows) <= 1
=============================================================================
