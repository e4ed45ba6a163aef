-------------------------- MODULE ThinkerLifecycle --------------------------
(***************************************************************************)
(* What a client of the Thinker is promised: the state machine of the      *)
(* design (docs/superpowers/specs/2026-03-24-thinker-orchestrator-design), *)
(* one phase per job, without the store, the executor tasks or the         *)
(* handlers that implement it.  "absent" is a job id the gateway does not  *)
(* know: it was never issued, or the process that issued it has gone (the  *)
(* store keeps its jobs in memory only).                                   *)
(***************************************************************************)
CONSTANT Jobs

VARIABLE phase

Phases == {"absent", "created", "running", "succeeded", "failed",
           "materialized", "skipped"}

Init == phase = [j \in Jobs |-> "absent"]

Move(j, from, to) ==
  /\ phase[j] \in from
  /\ phase' = [phase EXCEPT ![j] = to]

Create(j) == Move(j, {"absent"}, "created")
Start(j)  == Move(j, {"created"}, "running")
Finish(j) == Move(j, {"running"}, "succeeded")

(* Execution ends with an error.  A run that raises before it first waits  *)
(* for a provider goes through "running" without anyone seeing it.         *)
Fail(j) == Move(j, {"created", "running"}, "failed")

Materialize(j) == Move(j, {"succeeded"}, "materialized")

(* "failed -> created only through explicit retry".                        *)
Retry(j) == Move(j, {"failed"}, "created")

(* "any pre-materialization state may move to `skipped` by user action".   *)
Skip(j) == Move(j, {"created", "running", "succeeded", "failed"}, "skipped")

(* The process that holds the jobs stops.                                  *)
Lose == phase' = [j \in Jobs |-> "absent"]

Next ==
  \/ Lose
  \/ \E j \in Jobs : \/ Create(j) \/ Start(j) \/ Finish(j) \/ Fail(j)
                     \/ Materialize(j) \/ Retry(j) \/ Skip(j)

Spec == Init /\ [][Next]_phase
=============================================================================
