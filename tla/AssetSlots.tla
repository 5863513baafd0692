----------------------------- MODULE AssetSlots -----------------------------
(***************************************************************************)
(* The rows of one reuse slot of visual_assets (an artifact's render hash, *)
(* or a pack role of an identity).  A request without force_regenerate     *)
(* looks a ready row up and generates when it finds none; its worker       *)
(* inserts a plain row.  A forced regeneration runs supersedeArtifactSlot  *)
(* (or its pack-role twin): slot lock, next version, insert, archive the   *)
(* earlier ready rows, commit.  Statements of different transactions       *)
(* interleave; what a transaction wrote is seen by others when it commits. *)
(***************************************************************************)
EXTENDS Integers, FiniteSets, FiniteSetsExt

CONSTANTS
    Ids,        \* asset ids, minted at random and ordered: integers
    Forced,     \* forced regenerations
    Plain,      \* requests that may reuse
    Previews,   \* preview-first jobs that publish a preview row
    MaxAborts   \* bound on transactions that roll back

ASSUME SlotAssumption ==
    /\ Ids \subseteq Nat /\ IsFiniteSet(Ids) /\ MaxAborts \in Nat
    /\ Cardinality(Ids) >= Cardinality(Forced) + Cardinality(Plain) + Cardinality(Previews) + 1
    /\ Forced \cap (Plain \cup Previews) = {} /\ Plain \cap Previews = {}
    /\ "free" \notin Forced

VARIABLES
    rows,       \* committed rows: id -> [version, status, by]
    minted,     \* ids given out, the ones of open transactions included
    lock,       \* holder of pg_advisory_xact_lock for the slot
    pc, loc,    \* transactions and requests
    aborts

vars == <<rows, minted, lock, pc, loc, aborts>>

Procs == Forced \cup Plain \cup Previews
NoId == -1
Free == "free"
Fresh == [id |-> NoId, version |-> 0, archive |-> {}, served |-> NoId]
Ready(R) == {i \in DOMAIN R : R[i].status = "ready"}
Row(v, s) == [version |-> v, status |-> s, by |-> NoId]
Added(R, i, r) == [j \in DOMAIN R \cup {i} |-> IF j = i THEN r ELSE R[j]]

TypeOK ==
    /\ DOMAIN rows \subseteq minted /\ minted \subseteq Ids
    /\ \A i \in DOMAIN rows :
          rows[i] \in [version : 1..Cardinality(Ids), by : Ids \cup {NoId},
                       status : {"ready", "preview_ready", "archived"}]
    /\ lock \in Forced \cup {Free}
    /\ pc \in [Procs -> {"start", "version", "insert", "archive", "commit", "lookup", "done"}]
    /\ loc \in [Procs -> [id : Ids \cup {NoId}, version : Nat,
                          archive : SUBSET Ids, served : Ids \cup {NoId}]]
    /\ aborts \in 0..MaxAborts

\* A slot that is empty, or that holds one generated row.
Init ==
    /\ \/ rows = <<>> /\ minted = {}
       \/ \E i \in Ids : rows = [j \in {i} |-> Row(1, "ready")] /\ minted = {i}
    /\ lock = Free
    /\ pc = [p \in Procs |-> IF p \in Plain THEN "lookup" ELSE "start"]
    /\ loc = [p \in Procs |-> Fresh]
    /\ aborts = 0

Goto(p, s) == pc' = [pc EXCEPT ![p] = s]
MintedFor(p) ==
    \E i \in Ids \ minted : loc' = [loc EXCEPT ![p].id = i] /\ minted' = minted \cup {i}

-----------------------------------------------------------------------------
(* The supersede transaction *)

\* Mutation: regenerations of one slot do not wait for each other.
NoSupersedeLock(p) ==
    /\ p \in Forced /\ pc[p] = "start"
    /\ lock' = p
    /\ Goto(p, "version")
    /\ UNCHANGED <<rows, minted, loc, aborts>>

AcquireSupersedeLock(p) ==
    /\ p \in Forced /\ pc[p] = "start"
    /\ lock = Free
    /\ lock' = p
    /\ Goto(p, "version")
    /\ UNCHANGED <<rows, minted, loc, aborts>>

\* MaxVersionForArtifactSlot counts every row of the slot, whatever its status.
MaxVersion(p) ==
    /\ pc[p] = "version"
    /\ loc' = [loc EXCEPT ![p].version = Max({rows[i].version : i \in DOMAIN rows} \cup {0}) + 1]
    /\ Goto(p, "insert")
    /\ UNCHANGED <<rows, minted, lock, aborts>>

InsertNewVersion(p) ==
    /\ pc[p] = "insert"
    /\ MintedFor(p)
    /\ Goto(p, "archive")
    /\ UNCHANGED <<rows, lock, aborts>>

\* Mutation: the new row is not excluded from the update.
ArchiveAll(p) ==
    /\ pc[p] = "archive"
    /\ loc' = [loc EXCEPT ![p].archive = Ready(rows) \cup {loc[p].id}]
    /\ Goto(p, "commit")
    /\ UNCHANGED <<rows, minted, lock, aborts>>

\* The rows another transaction has not committed yet are not seen.
ArchivePriorReady(p) ==
    /\ pc[p] = "archive"
    /\ loc' = [loc EXCEPT ![p].archive = Ready(rows) \ {loc[p].id}]
    /\ Goto(p, "commit")
    /\ UNCHANGED <<rows, minted, lock, aborts>>

\* Mutation: the rows are archived without a link forward.
CommitUnlinked(p) ==
    /\ pc[p] = "commit"
    /\ rows' = [i \in DOMAIN rows \cup {loc[p].id} |->
                   IF i \in loc[p].archive THEN [rows[i] EXCEPT !.status = "archived"]
                   ELSE IF i = loc[p].id THEN Row(loc[p].version, "ready") ELSE rows[i]]
    /\ lock' = Free
    /\ Goto(p, "done")
    /\ UNCHANGED <<minted, loc, aborts>>

\* Archived rows point at the new one; the lock ends with the transaction.
CommitSupersede(p) ==
    /\ pc[p] = "commit"
    /\ LET new == Added(rows, loc[p].id, Row(loc[p].version, "ready")) IN
       rows' = [i \in DOMAIN new |-> IF i \in loc[p].archive
                                     THEN [new[i] EXCEPT !.status = "archived", !.by = loc[p].id]
                                     ELSE new[i]]
    /\ lock' = Free
    /\ Goto(p, "done")
    /\ UNCHANGED <<minted, loc, aborts>>

\* A statement fails: nothing is kept and the job may run again.
Rollback(p) ==
    /\ aborts < MaxAborts
    /\ aborts' = aborts + 1
    /\ p \in Forced /\ pc[p] \in {"version", "insert", "archive", "commit"}
    /\ loc' = [loc EXCEPT ![p] = Fresh]
    /\ minted' = minted \ {loc[p].id}
    /\ lock' = IF lock = p THEN Free ELSE lock
    /\ Goto(p, "start")
    /\ UNCHANGED rows

-----------------------------------------------------------------------------
(* Requests that may reuse, and previews *)

\* A ready row is a cache hit: the lowest id of the slot.
FindReadyByPromptHash(p) ==
    /\ p \in Plain /\ pc[p] = "lookup"
    /\ IF Ready(rows) = {} THEN Goto(p, "start") /\ UNCHANGED loc
       ELSE loc' = [loc EXCEPT ![p].served = Min(Ready(rows))] /\ Goto(p, "done")
    /\ UNCHANGED <<rows, minted, lock, aborts>>

\* The worker's plain insert, version 1, no lock: one statement.
InsertPlain(p) ==
    /\ p \in Plain /\ pc[p] = "start"
    /\ MintedFor(p)
    /\ rows' = Added(rows, loc'[p].id, Row(1, "ready"))
    /\ Goto(p, "done")
    /\ UNCHANGED <<lock, aborts>>

\* The preview tier: never ready, so never reused and never archived.
InsertPreview(p) ==
    /\ p \in Previews /\ pc[p] = "start"
    /\ MintedFor(p)
    /\ rows' = Added(rows, loc'[p].id, Row(1, "preview_ready"))
    /\ Goto(p, "done")
    /\ UNCHANGED <<lock, aborts>>

Done == \A p \in Procs : pc[p] = "done"

Next ==
    \/ \E p \in Procs :
          \/ AcquireSupersedeLock(p) \/ MaxVersion(p) \/ InsertNewVersion(p)
          \/ ArchivePriorReady(p) \/ CommitSupersede(p) \/ Rollback(p)
          \/ FindReadyByPromptHash(p) \/ InsertPlain(p) \/ InsertPreview(p)
    \/ Done /\ UNCHANGED vars

Spec == Init /\ [][Next]_vars

-----------------------------------------------------------------------------
(* Properties *)

\* Where the links from row i end.
Latest(i) ==
    LET follow[n \in 0..Cardinality(Ids)] ==
            IF n = 0 THEN i
            ELSE IF rows[follow[n - 1]].by \in DOMAIN rows THEN rows[follow[n - 1]].by
            ELSE follow[n - 1]
    IN  follow[Cardinality(Ids)]

\* A client that holds an archived asset finds its replacement: the links from
\* any archived row end in a ready row, through every chain of regenerations.
LinksEndInReady ==
    \A i \in DOMAIN rows : rows[i].status = "archived" => rows[Latest(i)].status = "ready"

\* Regenerations never share a version, although each reads the maximum before
\* it inserts and other jobs publish rows in between.
VersionsNeverCollide ==
    \A p, q \in Forced :
        p # q /\ pc[p] = "done" /\ pc[q] = "done" => loc[p].version # loc[q].version

\* A slot that can be reused stays reusable: no step, and no regeneration that
\* fails half way, leaves readers without a ready row.
NeverWithoutReady ==
    [][Ready(rows) # {} => Ready(rows') # {}]_vars

\* "never observing zero or multiple ready rows": however regenerations of a
\* slot interleave and fail, it has one ready row at most, as long as no plain
\* completion inserted beside them (that insert takes no lock and archives
\* nothing).
SingleReady ==
    (\A p \in Plain : loc[p].id = NoId) => Cardinality(Ready(rows)) <= 1

\* Regenerations of one slot take turns: the advisory lock of SupersedeArtifactSlot
\* makes read-maximum, archive and insert one step to the others.
RegenerationsSerialize == VersionsNeverCollide /\ SingleReady
=============================================================================
