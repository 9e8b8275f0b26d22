--------------------------- MODULE ProductionQueue ---------------------------
(***************************************************************************)
(* The Postgres-backed production queue of packages/db/src/queue.ts, the   *)
(* worker tick of apps/gateway/src/worker.ts that drains it, and the       *)
(* operator routes of apps/gateway/src/routes/queue.ts that touch the same *)
(* rows.  Every action below is one SQL statement (or one external call)   *)
(* of that code; between two statements of one request every other request *)
(* may run.                                                                *)
(*                                                                         *)
(* Time is abstracted to what the statements compare: lockedUntil is NULL, *)
(* still in the future, or past.                                           *)
(***************************************************************************)
EXTENDS Integers, FiniteSets

CONSTANTS
  MaxJobs,      \* bound: rows ever inserted; row j is the j-th by enqueued_at
  Request,      \* the enqueueJob inputs callers make
  NoKey,        \* the absent idempotency key
  Null,         \* "no row", "no result", "nothing in hand"
  TickLane,     \* concurrent runWorkerTick invocations (ticker, POST /worker/tick)
  RecoverLane,  \* concurrent POST /worker/recover requests
  Operator,     \* concurrent POST /queue/:id/retry requests
  SweepLimit,   \* recoverStaleJobs's limit
  Faults,       \* which of "crash", "db", "slow" the environment may inflict
  MaxFaults,    \* bound: crashes and failed statements per behaviour
  MaxRetries    \* bound: retry requests per behaviour

Job  == 1 .. MaxJobs
Lane == TickLane \cup RecoverLane

Status     == {"absent", "queued", "running", "done", "failed", "cancelled"}
Lock       == {"null", "future", "past"}
Capability == {"aroll", "broll", "accord_article"}
StubResult == 0      \* the NullRenderer's stub id; n > 0 is the n-th paid video
Working    == {"lookup", "dispatch", "record", "error"}
LaneState  == {"idle", "sweep"} \cup Working

ASSUME QueueAssumption ==
  /\ MaxJobs \in Nat
  /\ SweepLimit \in Nat \ {0}
  /\ MaxFaults \in Nat
  /\ MaxRetries \in Nat
  /\ TickLane \cap RecoverLane = {}
  /\ \A r \in Request : /\ r.capability \in Capability
                        /\ r.priority \in Nat
                        /\ r.maxAttempts \in Nat \ {0}
  /\ Null \notin Request
  /\ Null \notin Nat
  /\ Null \notin [job : Job, attempt : Nat]

VARIABLES
  req,          \* what row j was enqueued with (immutable columns)
  status, attempt, lock, result,       \* the row's mutable columns
  pc,           \* where each lane is in runWorkerTick / recoverStaleJobs
  stale,        \* the rows a lane's sweep selected and has not updated yet
  claim,        \* the row a lane claimed, as it was when claimed
  got,          \* the result id a lane is about to record
  pending,      \* the row a retry request has read but not yet updated
  paid,         \* history: paid HeyGen calls made by workers for row j
  runs,         \* history: claims of row j since it was enqueued or retried
  unsure,       \* history: rows some lane died on without recording an outcome
  faultsLeft, retriesLeft

rowVars  == <<req, status, attempt, lock, result>>
laneVars == <<pc, stale, claim, got>>
history  == <<paid, runs, unsure>>
vars     == <<rowVars, laneVars, pending, history, faultsLeft, retriesLeft>>

Snapshot == [job : Job, attempt : Nat]

TypeOK ==
  /\ req \in [Job -> Request \cup {Null}]
  /\ status \in [Job -> Status]
  /\ attempt \in [Job -> Nat]
  /\ lock \in [Job -> Lock]
  /\ result \in [Job -> Nat \cup {Null}]
  /\ pc \in [Lane -> LaneState]
  /\ stale \in [Lane -> SUBSET Snapshot]
  /\ claim \in [Lane -> Snapshot \cup {Null}]
  /\ got \in [Lane -> Nat \cup {Null}]
  /\ pending \in [Operator -> Job \cup {Null}]
  /\ paid \in [Job -> Nat]
  /\ runs \in [Job -> Nat]
  /\ unsure \subseteq Job
  /\ faultsLeft \in Nat
  /\ retriesLeft \in Nat
  /\ \A j \in Job : req[j] = Null <=> status[j] = "absent"
  /\ \A o \in Operator : pending[o] # Null => status[pending[o]] # "absent"
  /\ \A l \in Lane : claim[l] # Null => status[claim[l].job] # "absent"
  /\ \A l \in Lane : claim[l] # Null <=> pc[l] \in Working

-----------------------------------------------------------------------------
Present == {j \in Job : status[j] # "absent"}

InHand(l, j) == claim[l] # Null /\ claim[l].job = j

Executing(j) == \E l \in Lane : InHand(l, j)

(* Variants of the helpers below, each a plausible slip in the code it stands
   for; the runs show which property notices each of them.                   *)
RunnableStoppedToo   == {j \in Job : status[j] \in {"queued", "failed"} /\ lock[j] # "future"}
RunnableNullLockOnly == {j \in Job : status[j] = "queued" /\ lock[j] = "null"}

(* claimNextJob: WHERE status = 'queued' AND locked_until is not ahead of now,
   ORDER BY priority, enqueued_at.                                           *)
Runnable == {j \in Job : status[j] = "queued" /\ lock[j] # "future"}

Precedes(i, j) ==
  \/ req[i].priority < req[j].priority
  \/ req[i].priority = req[j].priority /\ i <= j

IsNext(j) == j \in Runnable /\ \A i \in Runnable : Precedes(j, i)

ExpiredNever == {}

(* recoverStaleJobs: the rows its SELECT returns. *)
Expired == {[job |-> j, attempt |-> attempt[j]] :
              j \in {i \in Job : status[i] = "running" /\ lock[i] = "past"}}

Selected == IF Cardinality(Expired) <= SweepLimit
            THEN {Expired}
            ELSE {S \in SUBSET Expired : Cardinality(S) = SweepLimit}

CanRerunUnbounded(s)  == req[s.job].key # NoKey
CanRerunWithoutKey(s) == s.attempt + 1 < req[s.job].maxAttempts

CanSafelyRerun(s) == /\ req[s.job].key # NoKey
                     /\ s.attempt + 1 < req[s.job].maxAttempts

(* The lease a claim writes: now + lease seconds. *)
ClaimLease == "future"

(* dispatch: the capabilities its NullRenderer fallback answers for; those in
   UNIMPLEMENTED_CAPABILITIES throw before reaching it.                      *)
StubbedAny(j) == req[j].capability # "aroll"
Stubbed(j)    == req[j].capability = "broll"

(* cancelJob's WHERE clause. *)
CancellableAnyRunning(j) == status[j] \in {"queued", "running"}
Cancellable(j) == \/ status[j] = "queued"
                  \/ status[j] = "running" /\ lock[j] = "past"

(* The states POST /queue/:id/retry accepts. *)
Retryable(j)       == status[j] \in {"failed", "cancelled"}

(* findCompletedByIdempotencyKey, excluding the row itself. *)
CompletedTwins(j) ==
  {i \in Present \ {j} : /\ req[i].key = req[j].key
                         /\ status[i] = "done"
                         /\ result[i] # Null}

Spend(fault) == /\ fault \in Faults
                /\ faultsLeft > 0
                /\ faultsLeft' = faultsLeft - 1

GoIdle(l) == /\ pc' = [pc EXCEPT ![l] = "idle"]
             /\ stale' = [stale EXCEPT ![l] = {}]
             /\ claim' = [claim EXCEPT ![l] = Null]
             /\ got' = [got EXCEPT ![l] = Null]

-----------------------------------------------------------------------------
Init ==
  /\ req = [j \in Job |-> Null]
  /\ status = [j \in Job |-> "absent"]
  /\ attempt = [j \in Job |-> 0]
  /\ lock = [j \in Job |-> "null"]
  /\ result = [j \in Job |-> Null]
  /\ pc = [l \in Lane |-> "idle"]
  /\ stale = [l \in Lane |-> {}]
  /\ claim = [l \in Lane |-> Null]
  /\ got = [l \in Lane |-> Null]
  /\ pending = [o \in Operator |-> Null]
  /\ paid = [j \in Job |-> 0]
  /\ runs = [j \in Job |-> 0]
  /\ unsure = {}
  /\ faultsLeft = MaxFaults
  /\ retriesLeft = MaxRetries

(* enqueueJob: the partial unique index on idempotency_key is the arbiter; a
   request whose key is taken inserts nothing and is handed the existing row. *)
KeyNeverTaken(r) == FALSE
KeyTaken(r) == r.key # NoKey /\ \E i \in Present : req[i].key = r.key

Enqueue(j, r) ==
  /\ j \notin Present
  /\ \A i \in 1 .. (j - 1) : i \in Present
  /\ ~KeyTaken(r)
  /\ req' = [req EXCEPT ![j] = r]
  /\ status' = [status EXCEPT ![j] = "queued"]
  /\ UNCHANGED <<attempt, lock, result, laneVars, pending, history,
                 faultsLeft, retriesLeft>>

(* recoverStaleJobs, first statement: SELECT the expired rows. *)
SelectStale(l) ==
  /\ pc[l] = "idle"
  /\ pc' = [pc EXCEPT ![l] = "sweep"]
  /\ \E S \in Selected : stale' = [stale EXCEPT ![l] = S]
  /\ UNCHANGED <<rowVars, claim, got, pending, history, faultsLeft, retriesLeft>>

(* ... then one UPDATE per selected row, matched by id and status = 'running'
   only: neither the lease nor the attempt is compared again.                *)
RecoverOne(l, s) ==
  /\ pc[l] = "sweep"
  /\ s \in stale[l]
  /\ stale' = [stale EXCEPT ![l] = @ \ {s}]
  /\ \/ /\ status[s.job] = "running"
        /\ CanSafelyRerun(s)
        /\ status' = [status EXCEPT ![s.job] = "queued"]
        /\ attempt' = [attempt EXCEPT ![s.job] = s.attempt + 1]
        /\ lock' = [lock EXCEPT ![s.job] = "null"]
     \/ /\ status[s.job] = "running"
        /\ ~CanSafelyRerun(s)
        /\ status' = [status EXCEPT ![s.job] = "failed"]
        /\ attempt' = [attempt EXCEPT ![s.job] = s.attempt + 1]
        /\ UNCHANGED lock
     \/ /\ status[s.job] # "running"
        /\ UNCHANGED <<status, attempt, lock>>
  /\ UNCHANGED <<req, result, pc, claim, got, pending, history,
                 faultsLeft, retriesLeft>>

(* claimNextJob: one UPDATE ... FOR UPDATE SKIP LOCKED. *)
Claim(l, j) ==
  /\ l \in TickLane
  /\ pc[l] = "sweep"
  /\ stale[l] = {}
  /\ IsNext(j)
  /\ status' = [status EXCEPT ![j] = "running"]
  /\ lock' = [lock EXCEPT ![j] = ClaimLease]
  /\ claim' = [claim EXCEPT ![l] = [job |-> j, attempt |-> attempt[j]]]
  /\ pc' = [pc EXCEPT ![l] = IF req[j].key # NoKey THEN "lookup" ELSE "dispatch"]
  /\ runs' = [runs EXCEPT ![j] = @ + 1]
  /\ UNCHANGED <<req, attempt, result, stale, got, pending, paid, unsure,
                 faultsLeft, retriesLeft>>

(* The tick finds nothing to claim, or the request was only /worker/recover. *)
Leave(l) ==
  /\ pc[l] = "sweep"
  /\ stale[l] = {}
  /\ l \in TickLane => Runnable = {}
  /\ GoIdle(l)
  /\ UNCHANGED <<rowVars, pending, history, faultsLeft, retriesLeft>>

(* A keyed job first looks for a completed row carrying the same key. *)
Lookup(l) ==
  /\ pc[l] = "lookup"
  /\ LET twins == CompletedTwins(claim[l].job)
     IN IF twins = {}
        THEN pc' = [pc EXCEPT ![l] = "dispatch"] /\ UNCHANGED got
        ELSE /\ pc' = [pc EXCEPT ![l] = "record"]
             /\ \E i \in twins : got' = [got EXCEPT ![l] = result[i]]
  /\ UNCHANGED <<rowVars, stale, claim, pending, history, faultsLeft, retriesLeft>>

(* dispatch: the aroll lane makes the paid HeyGen call.  It can be refused
   before HeyGen starts anything, succeed, or succeed with its reply lost.   *)
DispatchPaid(l) ==
  LET j == claim[l].job
      n == paid[j] + 1
  IN /\ pc[l] = "dispatch"
     /\ req[j].capability = "aroll"
     /\ paid' = [paid EXCEPT ![j] = n]
     /\ \/ /\ pc' = [pc EXCEPT ![l] = "record"]
           /\ got' = [got EXCEPT ![l] = n]
           /\ UNCHANGED faultsLeft
        \/ /\ Spend("db")
           /\ pc' = [pc EXCEPT ![l] = "error"]
           /\ UNCHANGED got
     /\ UNCHANGED <<rowVars, stale, claim, pending, runs, unsure, retriesLeft>>

(* dispatch throws: HeyGen refuses, is not configured, the payload is not
   renderable, or the capability (accord_article) has no dispatcher.         *)
DispatchThrows(l) ==
  /\ pc[l] = "dispatch"
  /\ req[claim[l].job].capability \in {"aroll", "accord_article"}
  /\ pc' = [pc EXCEPT ![l] = "error"]
  /\ UNCHANGED <<rowVars, stale, claim, got, pending, history,
                 faultsLeft, retriesLeft>>

(* Every other capability resolves to the NullRenderer's stub result. *)
DispatchStub(l) ==
  /\ pc[l] = "dispatch"
  /\ Stubbed(claim[l].job)
  /\ pc' = [pc EXCEPT ![l] = "record"]
  /\ got' = [got EXCEPT ![l] = StubResult]
  /\ UNCHANGED <<rowVars, stale, claim, pending, history, faultsLeft, retriesLeft>>

(* The completion UPDATE matches the row by id alone. *)
RecordDone(l) ==
  LET j == claim[l].job
  IN /\ pc[l] = "record"
     /\ status' = [status EXCEPT ![j] = "done"]
     /\ result' = [result EXCEPT ![j] = got[l]]
     /\ lock' = [lock EXCEPT ![j] = "null"]
     /\ GoIdle(l)
     /\ UNCHANGED <<req, attempt, pending, history, faultsLeft, retriesLeft>>

(* The catch block: re-queue with backoff while attempts remain, else fail.
   Both UPDATEs match by id alone and count from the claimed snapshot.       *)
RecordError(l) ==
  LET j    == claim[l].job
      next == claim[l].attempt + 1
  IN /\ pc[l] = "error"
     /\ attempt' = [attempt EXCEPT ![j] = next]
     /\ \/ /\ next < req[j].maxAttempts
           /\ status' = [status EXCEPT ![j] = "queued"]
           /\ lock' = [lock EXCEPT ![j] = "future"]
        \/ /\ next >= req[j].maxAttempts
           /\ status' = [status EXCEPT ![j] = "failed"]
           /\ lock' = [lock EXCEPT ![j] = "null"]
     /\ GoIdle(l)
     /\ UNCHANGED <<req, result, pending, history, faultsLeft, retriesLeft>>

(* A statement of the try block rejects: the catch block takes over, also when
   it was the completion UPDATE of a render that succeeded.                  *)
TryStatementFails(l) ==
  /\ pc[l] \in {"lookup", "record"}
  /\ Spend("db")
  /\ pc' = [pc EXCEPT ![l] = "error"]
  /\ got' = [got EXCEPT ![l] = Null]
  /\ UNCHANGED <<rowVars, stale, claim, pending, history, retriesLeft>>

(* A statement of the sweep, the claim or the catch block rejects: the tick
   rejects and its lane starts over.                                         *)
TickRejects(l) ==
  /\ pc[l] \in {"sweep", "error"}
  /\ Spend("db")
  /\ GoIdle(l)
  /\ unsure' = unsure \cup {j \in Job : InHand(l, j)}
  /\ UNCHANGED <<rowVars, pending, paid, runs, retriesLeft>>

(* The gateway process running the lane dies; compose restarts it. *)
Crash(l) ==
  /\ pc[l] # "idle"
  /\ Spend("crash")
  /\ GoIdle(l)
  /\ unsure' = unsure \cup {j \in Job : InHand(l, j)}
  /\ UNCHANGED <<rowVars, pending, paid, runs, retriesLeft>>

(* locked_until passes: a backoff ends or a lease runs out.  Without "slow" no
   lane outlives the lease of the job it is executing.                       *)
LockPasses(j) ==
  /\ lock[j] = "future"
  /\ status[j] = "running" /\ Executing(j) => "slow" \in Faults
  /\ lock' = [lock EXCEPT ![j] = "past"]
  /\ UNCHANGED <<req, status, attempt, result, laneVars, pending, history,
                 faultsLeft, retriesLeft>>

(* cancelJob: one conditional UPDATE; refused requests change nothing. *)
Cancel(j) ==
  /\ Cancellable(j)
  /\ status' = [status EXCEPT ![j] = "cancelled"]
  /\ UNCHANGED <<req, attempt, lock, result, laneVars, pending, history,
                 faultsLeft, retriesLeft>>

(* POST /queue/:id/retry reads the row and checks its status ... *)
RetryRead(o, j) ==
  /\ pending[o] = Null
  /\ retriesLeft > 0
  /\ Retryable(j)
  /\ pending' = [pending EXCEPT ![o] = j]
  /\ retriesLeft' = retriesLeft - 1
  /\ UNCHANGED <<rowVars, laneVars, history, faultsLeft>>

(* ... then resets it with an UPDATE that matches by id alone. *)
RetryWrite(o) ==
  LET j == pending[o]
  IN /\ j # Null
     /\ status' = [status EXCEPT ![j] = "queued"]
     /\ attempt' = [attempt EXCEPT ![j] = 0]
     /\ lock' = [lock EXCEPT ![j] = "null"]
     /\ result' = [result EXCEPT ![j] = Null]
     /\ runs' = [runs EXCEPT ![j] = 0]
     /\ unsure' = unsure \ {j}
     /\ pending' = [pending EXCEPT ![o] = Null]
     /\ UNCHANGED <<req, laneVars, paid, faultsLeft, retriesLeft>>

LaneStep(l) ==
  \/ SelectStale(l)
  \/ \E s \in stale[l] : RecoverOne(l, s)
  \/ \E j \in Job : Claim(l, j)
  \/ Leave(l)
  \/ Lookup(l)
  \/ DispatchPaid(l)
  \/ DispatchThrows(l)
  \/ DispatchStub(l)
  \/ RecordDone(l)
  \/ RecordError(l)

LaneFault(l) == TryStatementFails(l) \/ TickRejects(l) \/ Crash(l)

Next ==
  \/ \E j \in Job, r \in Request : Enqueue(j, r)
  \/ \E l \in Lane : LaneStep(l) \/ LaneFault(l)
  \/ \E j \in Job : LockPasses(j) \/ Cancel(j)
  \/ \E o \in Operator : RetryWrite(o) \/ \E j \in Job : RetryRead(o, j)

Spec == Init /\ [][Next]_vars

(* The ticker fires every interval and each started statement or provider call
   returns; locked_until passes.  Nothing obliges a caller or an operator.   *)
Fairness ==
  /\ \A l \in TickLane : WF_vars(LaneStep(l))
  /\ \A j \in Job : WF_vars(LockPasses(j))

FairSpec == Spec /\ Fairness
-----------------------------------------------------------------------------
(* Properties that hold whatever races, crashes or outlives its lease.       *)

(* A queued row always has attempts left, and no row ever counts past its
   maximum, although recovery and the catch block both write attempt numbers
   computed from snapshots that may be out of date.                          *)
AttemptsBounded ==
  /\ \A j \in Present : attempt[j] <= req[j].maxAttempts
  /\ \A j \in Present : status[j] = "queued" => attempt[j] < req[j].maxAttempts

(* A done row is backed by work: its result is a video a worker paid for for
   this very row, or a stub for a capability that is only stubbed; a capability
   without a dispatcher is never reported complete.                          *)
Backed(j, x) == \/ req[j].capability = "aroll" /\ x \in 1 .. paid[j]
                \/ req[j].capability = "broll" /\ x = StubResult

DoneIsBacked == \A j \in Present : status[j] = "done" => Backed(j, result[j])

(* A running row always carries a lease, live or expired, so the recovery sweep
   and the cancel route can always reach it: NULL is invisible to both.      *)
RunningIsLeased == \A j \in Job : status[j] = "running" => lock[j] # "null"

(* The completed-work lookup of a keyed job can never find anything: the unique
   index leaves no other row to carry the key, and the row itself is excluded. *)
NoCompletedTwin == \A l \in Lane : pc[l] = "lookup" => CompletedTwins(claim[l].job) = {}

-----------------------------------------------------------------------------
(* Properties of the deployment the code describes: no lane outlives a lease,
   and either one lane at a time or no crash (so that no sweep ever meets a
   claim), with one operator.                                                *)

(* Whatever a lane is executing is its own: the row is running, under a lease
   that has not run out, at the attempt the lane claimed, and in no other
   lane's hands.  Dispatch, and the completion writes that match by id alone,
   rely on it.                                                               *)
HolderOwnsRow ==
  \A l \in Lane : claim[l] # Null =>
    /\ status[claim[l].job] = "running"
    /\ lock[claim[l].job] = "future"
    /\ attempt[claim[l].job] = claim[l].attempt
    /\ \A k \in Lane : InHand(k, claim[l].job) => k = l

(* One life of a job (enqueue or retry to the next retry) is executed at most
   max_attempts times, counting recoveries and reported failures together.   *)
RunsBounded == \A j \in Present : runs[j] <= req[j].maxAttempts

(* A job with no idempotency key on which a lane died without recording an
   outcome is not run again until an operator retries it.                    *)
UnsureUnkeyedStops ==
  \A j \in unsure : req[j].key = NoKey => status[j] # "queued" /\ ~Executing(j)

(* A done row keeps its outcome: no retry, recovery, cancel or late worker
   takes it back.                                                            *)
OutcomeIsFinal ==
  [][\A j \in Job : status[j] = "done" =>
       status'[j] = "done" /\ result'[j] = result[j]]_vars

(* The queue implements the lifecycle it promises. *)
Tries(j) == IF req[j] = Null THEN 0 ELSE req[j].maxAttempts
Promise == INSTANCE JobLifecycle WITH
             tries <- [j \in Job |-> Tries(j)],
             phase <- status, executing <- {j \in Job : Executing(j)}
Lifecycle == Promise!LifeSpec

-----------------------------------------------------------------------------
(* Liveness under Fairness. *)

(* Every submitted job comes to rest in an outcome, whatever dies on the way. *)
EverySubmissionSettles ==
  \A j \in Job : status[j] \in {"queued", "running"} ~>
                 status[j] \in {"done", "failed", "cancelled"}

(* A job whose worker died does not stay running: something moves it. *)
AbandonedIsMoved ==
  \A j \in Job : status[j] = "running" /\ ~Executing(j) ~> status[j] # "running"

-----------------------------------------------------------------------------
(* What the documentation says and the code does not keep (see README).      *)

(* A keyed job's re-run reuses the completed result instead of paying again
   (queue.ts:171-174).                                                       *)
RerunNeverPaysAgain == \A j \in Present : req[j].key # NoKey => paid[j] <= 1
=============================================================================
