----------------------------- MODULE JobLifecycle -----------------------------
(***************************************************************************)
(* What the production queue promises about one job, with no lanes, leases *)
(* or statements: a job is executed by at most one executor, an execution  *)
(* ends in an outcome or is abandoned, an outcome is final until somebody  *)
(* asks for a retry, and a life of a job has a bounded number of           *)
(* executions.  docs/atelier/queue-execution-semantics.md states the same  *)
(* table in words.                                                         *)
(***************************************************************************)
EXTENDS Naturals

CONSTANT Job

VARIABLES tries,      \* executions one life of a job may have, fixed at submission
          phase,      \* the state an observer of the queue sees
          executing,  \* jobs some executor is working on right now
          runs        \* executions begun in the current life

lifeVars == <<tries, phase, executing, runs>>

LifeInit == /\ tries = [j \in Job |-> 0]
            /\ phase = [j \in Job |-> "absent"]
            /\ executing = {}
            /\ runs = [j \in Job |-> 0]

Move(j, p) == phase' = [phase EXCEPT ![j] = p]

Submit(j) == /\ phase[j] = "absent"
             /\ tries'[j] > 0
             /\ tries' = [tries EXCEPT ![j] = tries'[j]]
             /\ Move(j, "queued")
             /\ UNCHANGED <<executing, runs>>

Begin(j) == /\ phase[j] = "queued"
            /\ j \notin executing
            /\ runs[j] < tries[j]
            /\ Move(j, "running")
            /\ executing' = executing \cup {j}
            /\ runs' = [runs EXCEPT ![j] = @ + 1]
            /\ UNCHANGED tries

(* The executor reports: success, or a failure that ends or re-queues the job. *)
Report(j) == /\ j \in executing
             /\ phase[j] = "running"
             /\ \/ Move(j, "done")
                \/ Move(j, "failed")
                \/ runs[j] < tries[j] /\ Move(j, "queued")
             /\ executing' = executing \ {j}
             /\ UNCHANGED <<tries, runs>>

(* The executor disappears; nobody has been told. *)
Abandon(j) == /\ j \in executing
              /\ executing' = executing \ {j}
              /\ UNCHANGED <<tries, phase, runs>>

(* Somebody else moves an abandoned job on. *)
Recover(j) == /\ phase[j] = "running"
              /\ j \notin executing
              /\ \/ Move(j, "failed")
                 \/ Move(j, "cancelled")
                 \/ runs[j] < tries[j] /\ Move(j, "queued")
              /\ UNCHANGED <<tries, executing, runs>>

Withdraw(j) == /\ phase[j] = "queued"
               /\ Move(j, "cancelled")
               /\ UNCHANGED <<tries, executing, runs>>

Revive(j) == /\ phase[j] \in {"failed", "cancelled"}
             /\ Move(j, "queued")
             /\ runs' = [runs EXCEPT ![j] = 0]
             /\ UNCHANGED <<tries, executing>>

LifeNext == \E j \in Job : \/ Submit(j) \/ Begin(j) \/ Report(j) \/ Abandon(j)
                           \/ Recover(j) \/ Withdraw(j) \/ Revive(j)

LifeSpec == LifeInit /\ [][LifeNext]_lifeVars
=============================================================================
