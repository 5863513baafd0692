---------------------------- MODULE JobLifecycle ----------------------------
(***************************************************************************)
(* What a generation job promises to its readers, whatever the queue, the  *)
(* workers and the admin endpoints do: the status machine of one           *)
(* generation_jobs row, the hold its cost reservation keeps on the budgets *)
(* and the final output it publishes.                                      *)
(*                                                                         *)
(* A run is one execution epoch of the reusable job id: admin retry opens  *)
(* a new run by attaching a fresh cost reservation.                        *)
(***************************************************************************)
EXTENDS Naturals

CONSTANT MaxRuns            \* runs explored: the first one plus admin retries

VARIABLES
  status,                   \* generation_jobs.status
  run,                      \* the current run
  hold,                     \* cost_reservations.status of the current run
  delivered                 \* final_asset_ids is not empty

vars == <<status, run, hold, delivered>>

Live == {"queued", "running", "preview_ready"}

\* A job is born queued with a hold, or failed because the hold was denied.
Init ==
  /\ <<status, hold>> \in {<<"queued", "reserved">>, <<"failed", "denied">>}
  /\ run = 1
  /\ delivered = FALSE

Start ==
  /\ status = "queued"
  /\ status' = "running"
  /\ UNCHANGED <<run, hold, delivered>>

PreviewReady ==
  /\ status = "running"
  /\ status' = "preview_ready"
  /\ UNCHANGED <<run, hold, delivered>>

\* The final output becomes visible in the same instant as the status.
Complete ==
  /\ status \in {"running", "preview_ready"}
  /\ status' = "completed"
  /\ delivered' = TRUE
  /\ UNCHANGED <<run, hold>>

\* A failure leaves the hold to a later Release, or gives it back at once
\* (the cleanup after a failed enqueue does both in one transaction).
Fail ==
  /\ status \in Live
  /\ status' = "failed"
  /\ hold' \in {hold, "released"}
  /\ UNCHANGED <<run, delivered>>

\* Cancelling gives the budget back in the same instant.
Cancel ==
  /\ status \in Live
  /\ status' = "cancelled"
  /\ hold' = "released"
  /\ UNCHANGED <<run, delivered>>

Retry ==
  /\ status = "failed"
  /\ run < MaxRuns
  /\ run' = run + 1
  /\ status' = "queued"
  /\ hold' = "reserved"
  /\ UNCHANGED delivered

\* Only a completed run is charged, only an undelivered one gets its hold back.
Commit ==
  /\ status = "completed"
  /\ hold = "reserved"
  /\ hold' = "committed"
  /\ UNCHANGED <<status, run, delivered>>

Release ==
  /\ status \in {"failed", "cancelled"}
  /\ hold = "reserved"
  /\ hold' = "released"
  /\ UNCHANGED <<status, run, delivered>>

Next ==
  \/ Start \/ PreviewReady \/ Complete \/ Fail
  \/ Cancel \/ Retry \/ Commit \/ Release

Spec == Init /\ [][Next]_vars
=============================================================================
