------------------------ MODULE ProductionQueueProofs ------------------------
(* Machine-checked proofs about ProductionQueue, for every number of jobs,
   lanes and operators, every set of requests and every fault the environment
   may inflict.                                                              *)
EXTENDS ProductionQueue, TLAPS

LEMMA TypeInit == Init => TypeOK
  BY QueueAssumption DEF Init, TypeOK, Status, Lock, LaneState, Working, Snapshot

LEMMA TypeStep == TypeOK /\ [Next]_vars => TypeOK'
  <1> SUFFICES ASSUME TypeOK, [Next]_vars PROVE TypeOK'
    OBVIOUS
  <1> USE QueueAssumption DEF TypeOK, Status, Lock, LaneState, Working, Snapshot,
        rowVars, laneVars, history
  <1>1. ASSUME NEW j \in Job, NEW r \in Request, Enqueue(j, r) PROVE TypeOK'
    BY <1>1 DEF Enqueue
  <1>2. ASSUME NEW l \in Lane, SelectStale(l) PROVE TypeOK'
    BY <1>2 DEF SelectStale, Selected, Expired
  <1>3. ASSUME NEW l \in Lane, NEW s \in stale[l], RecoverOne(l, s) PROVE TypeOK'
    BY <1>3 DEF RecoverOne
  <1>4. ASSUME NEW l \in Lane, NEW j \in Job, Claim(l, j) PROVE TypeOK'
    BY <1>4 DEF Claim, ClaimLease, IsNext, Runnable
  <1>5. ASSUME NEW l \in Lane, Leave(l) PROVE TypeOK'
    BY <1>5 DEF Leave, GoIdle
  <1>6. ASSUME NEW l \in Lane, Lookup(l) PROVE TypeOK'
    <2>1. claim[l] \in Snapshot /\ pc[l] \in Working
      BY <1>6 DEF Lookup
    <2>2. CASE CompletedTwins(claim[l].job) = {}
      BY <1>6, <2>1, <2>2 DEF Lookup
    <2>3. CASE CompletedTwins(claim[l].job) # {}
      <3>1. PICK i \in CompletedTwins(claim[l].job) : got' = [got EXCEPT ![l] = result[i]]
        BY <1>6, <2>3 DEF Lookup
      <3>2. i \in Job
        BY DEF CompletedTwins, Present
      <3>. QED
        BY <1>6, <2>1, <2>3, <3>1, <3>2 DEF Lookup
    <2>. QED
      BY <2>2, <2>3
  <1>7. ASSUME NEW l \in Lane, DispatchPaid(l) PROVE TypeOK'
    BY <1>7 DEF DispatchPaid, Spend
  <1>8. ASSUME NEW l \in Lane, DispatchThrows(l) PROVE TypeOK'
    BY <1>8 DEF DispatchThrows
  <1>9. ASSUME NEW l \in Lane, DispatchStub(l) PROVE TypeOK'
    BY <1>9 DEF DispatchStub, StubResult
  <1>10. ASSUME NEW l \in Lane, RecordDone(l) PROVE TypeOK'
    BY <1>10 DEF RecordDone, GoIdle
  <1>11. ASSUME NEW l \in Lane, RecordError(l) PROVE TypeOK'
    <2>1. claim[l] \in Snapshot /\ claim[l].job \in Job /\ claim[l].attempt + 1 \in Nat
      BY <1>11 DEF RecordError
    <2>2. req[claim[l].job] # Null
      BY <1>11, <2>1 DEF RecordError
    <2>3. CASE status' = [status EXCEPT ![claim[l].job] = "queued"]
      BY <1>11, <2>1, <2>2, <2>3 DEF RecordError, GoIdle
    <2>4. CASE status' = [status EXCEPT ![claim[l].job] = "failed"]
      BY <1>11, <2>1, <2>2, <2>4 DEF RecordError, GoIdle
    <2>. QED
      BY <1>11, <2>3, <2>4 DEF RecordError
  <1>12. ASSUME NEW l \in Lane, TryStatementFails(l) PROVE TypeOK'
    BY <1>12 DEF TryStatementFails, Spend
  <1>13. ASSUME NEW l \in Lane, TickRejects(l) PROVE TypeOK'
    BY <1>13 DEF TickRejects, Spend, GoIdle
  <1>14. ASSUME NEW l \in Lane, Crash(l) PROVE TypeOK'
    BY <1>14 DEF Crash, Spend, GoIdle
  <1>15. ASSUME NEW j \in Job, LockPasses(j) PROVE TypeOK'
    BY <1>15 DEF LockPasses
  <1>16. ASSUME NEW j \in Job, Cancel(j) PROVE TypeOK'
    BY <1>16 DEF Cancel, Cancellable
  <1>17. ASSUME NEW o \in Operator, NEW j \in Job, RetryRead(o, j) PROVE TypeOK'
    BY <1>17 DEF RetryRead, Retryable
  <1>18. ASSUME NEW o \in Operator, RetryWrite(o) PROVE TypeOK'
    BY <1>18 DEF RetryWrite
  <1>19. CASE UNCHANGED vars
    BY <1>19 DEF vars
  <1>. QED
    BY <1>1, <1>2, <1>3, <1>4, <1>5, <1>6, <1>7, <1>8, <1>9, <1>10, <1>11, <1>12, <1>13, <1>14, <1>15, <1>16, <1>17, <1>18, <1>19 DEF Next, LaneStep, LaneFault

(* Every variable keeps its type, and a row is absent exactly until enqueued. *)
THEOREM Typing == Spec => []TypeOK
  BY TypeInit, TypeStep, PTL DEF Spec

-----------------------------------------------------------------------------
(* The strengthening of AttemptsBounded: what a lane holds in hand, or in the
   list its sweep selected, was below the maximum when it was read, and a row
   never leaves the maximum it was enqueued with.                            *)
Counted(s) == /\ req[s.job] # Null
              /\ s.attempt < req[s.job].maxAttempts

AttemptInv ==
  /\ \A j \in Job : req[j] = Null => attempt[j] = 0
  /\ \A j \in Job : req[j] # Null => attempt[j] <= req[j].maxAttempts
  /\ \A j \in Job : status[j] \in {"queued", "running"} => attempt[j] < req[j].maxAttempts
  /\ \A l \in Lane : claim[l] # Null => Counted(claim[l])
  /\ \A l \in Lane : \A s \in stale[l] : Counted(s)

LEMMA AttemptInit == Init => AttemptInv
  BY QueueAssumption DEF Init, AttemptInv

LEMMA AttemptStep == TypeOK /\ AttemptInv /\ [Next]_vars => AttemptInv'
  <1> SUFFICES ASSUME TypeOK, AttemptInv, [Next]_vars PROVE AttemptInv'
    OBVIOUS
  <1> USE QueueAssumption DEF AttemptInv, Counted, TypeOK, Status, Lock, LaneState, Working, Snapshot, rowVars, laneVars, history
  <1>1. ASSUME NEW j \in Job, NEW r \in Request, Enqueue(j, r) PROVE AttemptInv'
    <2>1. /\ req[j] = Null
          /\ req' = [req EXCEPT ![j] = r]
          /\ status' = [status EXCEPT ![j] = "queued"]
          /\ UNCHANGED <<attempt, stale, claim>>
      BY <1>1 DEF Enqueue, Present
    <2>2. attempt[j] = 0 /\ r.maxAttempts \in Nat \ {0}
      BY <2>1
    <2>3. \A s \in Snapshot : Counted(s) => Counted(s)'
      BY <2>1
    <2>. QED
      BY <2>1, <2>2, <2>3
  <1>2. ASSUME NEW l \in Lane, SelectStale(l) PROVE AttemptInv'
    BY <1>2 DEF SelectStale, Selected, Expired
  <1>3. ASSUME NEW l \in Lane, NEW s \in stale[l], RecoverOne(l, s) PROVE AttemptInv'
    BY <1>3 DEF RecoverOne, CanSafelyRerun
  <1>4. ASSUME NEW l \in Lane, NEW j \in Job, Claim(l, j) PROVE AttemptInv'
    BY <1>4 DEF Claim, ClaimLease, IsNext, Runnable
  <1>5. ASSUME NEW l \in Lane, Leave(l) PROVE AttemptInv'
    BY <1>5 DEF Leave, GoIdle
  <1>6. ASSUME NEW l \in Lane, Lookup(l) PROVE AttemptInv'
    BY <1>6 DEF Lookup
  <1>7. ASSUME NEW l \in Lane, DispatchPaid(l) PROVE AttemptInv'
    BY <1>7 DEF DispatchPaid, Spend
  <1>8. ASSUME NEW l \in Lane, DispatchThrows(l) PROVE AttemptInv'
    BY <1>8 DEF DispatchThrows
  <1>9. ASSUME NEW l \in Lane, DispatchStub(l) PROVE AttemptInv'
    BY <1>9 DEF DispatchStub, Stubbed
  <1>10. ASSUME NEW l \in Lane, RecordDone(l) PROVE AttemptInv'
    BY <1>10 DEF RecordDone, GoIdle
  <1>11. ASSUME NEW l \in Lane, RecordError(l) PROVE AttemptInv'
    BY <1>11 DEF RecordError, GoIdle
  <1>12. ASSUME NEW l \in Lane, TryStatementFails(l) PROVE AttemptInv'
    BY <1>12 DEF TryStatementFails, Spend
  <1>13. ASSUME NEW l \in Lane, TickRejects(l) PROVE AttemptInv'
    BY <1>13 DEF TickRejects, Spend, GoIdle
  <1>14. ASSUME NEW l \in Lane, Crash(l) PROVE AttemptInv'
    BY <1>14 DEF Crash, Spend, GoIdle
  <1>15. ASSUME NEW j \in Job, LockPasses(j) PROVE AttemptInv'
    BY <1>15 DEF LockPasses
  <1>16. ASSUME NEW j \in Job, Cancel(j) PROVE AttemptInv'
    BY <1>16 DEF Cancel, Cancellable
  <1>17. ASSUME NEW o \in Operator, NEW j \in Job, RetryRead(o, j) PROVE AttemptInv'
    BY <1>17 DEF RetryRead, Retryable
  <1>18. ASSUME NEW o \in Operator, RetryWrite(o) PROVE AttemptInv'
    BY <1>18 DEF RetryWrite
  <1>19. CASE UNCHANGED vars
    BY <1>19 DEF vars
  <1>. QED
    BY <1>1, <1>2, <1>3, <1>4, <1>5, <1>6, <1>7, <1>8, <1>9, <1>10, <1>11, <1>12, <1>13, <1>14, <1>15, <1>16, <1>17, <1>18, <1>19 DEF Next, LaneStep, LaneFault

(* A row is claimable only below its maximum, whatever snapshots recovery and
   the catch block count from.                                               *)
THEOREM AttemptsStayBounded == Spec => []AttemptsBounded
  <1>1. AttemptInv /\ TypeOK => AttemptsBounded
    BY DEF AttemptInv, AttemptsBounded, Present, TypeOK
  <1>. QED
    BY <1>1, AttemptInit, AttemptStep, Typing, PTL DEF Spec

-----------------------------------------------------------------------------
LEMMA LeaseStep == TypeOK /\ RunningIsLeased /\ [Next]_vars => RunningIsLeased'
  <1> SUFFICES ASSUME TypeOK, RunningIsLeased, [Next]_vars PROVE RunningIsLeased'
    OBVIOUS
  <1> USE QueueAssumption DEF RunningIsLeased, TypeOK, Status, Lock, LaneState, Working, Snapshot, rowVars, laneVars, history
  <1>1. ASSUME NEW j \in Job, NEW r \in Request, Enqueue(j, r) PROVE RunningIsLeased'
    BY <1>1 DEF Enqueue, Present
  <1>2. ASSUME NEW l \in Lane, SelectStale(l) PROVE RunningIsLeased'
    BY <1>2 DEF SelectStale, Selected, Expired
  <1>3. ASSUME NEW l \in Lane, NEW s \in stale[l], RecoverOne(l, s) PROVE RunningIsLeased'
    BY <1>3 DEF RecoverOne, CanSafelyRerun
  <1>4. ASSUME NEW l \in Lane, NEW j \in Job, Claim(l, j) PROVE RunningIsLeased'
    BY <1>4 DEF Claim, ClaimLease, IsNext, Runnable
  <1>5. ASSUME NEW l \in Lane, Leave(l) PROVE RunningIsLeased'
    BY <1>5 DEF Leave, GoIdle
  <1>6. ASSUME NEW l \in Lane, Lookup(l) PROVE RunningIsLeased'
    BY <1>6 DEF Lookup
  <1>7. ASSUME NEW l \in Lane, DispatchPaid(l) PROVE RunningIsLeased'
    BY <1>7 DEF DispatchPaid, Spend
  <1>8. ASSUME NEW l \in Lane, DispatchThrows(l) PROVE RunningIsLeased'
    BY <1>8 DEF DispatchThrows
  <1>9. ASSUME NEW l \in Lane, DispatchStub(l) PROVE RunningIsLeased'
    BY <1>9 DEF DispatchStub, Stubbed
  <1>10. ASSUME NEW l \in Lane, RecordDone(l) PROVE RunningIsLeased'
    BY <1>10 DEF RecordDone, GoIdle
  <1>11. ASSUME NEW l \in Lane, RecordError(l) PROVE RunningIsLeased'
    BY <1>11 DEF RecordError, GoIdle
  <1>12. ASSUME NEW l \in Lane, TryStatementFails(l) PROVE RunningIsLeased'
    BY <1>12 DEF TryStatementFails, Spend
  <1>13. ASSUME NEW l \in Lane, TickRejects(l) PROVE RunningIsLeased'
    BY <1>13 DEF TickRejects, Spend, GoIdle
  <1>14. ASSUME NEW l \in Lane, Crash(l) PROVE RunningIsLeased'
    BY <1>14 DEF Crash, Spend, GoIdle
  <1>15. ASSUME NEW j \in Job, LockPasses(j) PROVE RunningIsLeased'
    BY <1>15 DEF LockPasses
  <1>16. ASSUME NEW j \in Job, Cancel(j) PROVE RunningIsLeased'
    BY <1>16 DEF Cancel, Cancellable
  <1>17. ASSUME NEW o \in Operator, NEW j \in Job, RetryRead(o, j) PROVE RunningIsLeased'
    BY <1>17 DEF RetryRead, Retryable
  <1>18. ASSUME NEW o \in Operator, RetryWrite(o) PROVE RunningIsLeased'
    BY <1>18 DEF RetryWrite
  <1>19. CASE UNCHANGED vars
    BY <1>19 DEF vars
  <1>. QED
    BY <1>1, <1>2, <1>3, <1>4, <1>5, <1>6, <1>7, <1>8, <1>9, <1>10, <1>11, <1>12, <1>13, <1>14, <1>15, <1>16, <1>17, <1>18, <1>19 DEF Next, LaneStep, LaneFault

(* No running row is ever out of the reach of recovery and cancellation. *)
THEOREM RunningRowsAreLeased == Spec => []RunningIsLeased
  <1>1. Init => RunningIsLeased
    BY DEF Init, RunningIsLeased
  <1>. QED
    BY <1>1, LeaseStep, Typing, PTL DEF Spec

-----------------------------------------------------------------------------
(* Why the completed-work lookup is vain: keys are unique among rows, and only
   a keyed job is ever looked up.                                            *)
KeyInv ==
  /\ \A i, j \in Job : /\ req[i] # Null /\ req[j] # Null
                       /\ req[i].key = req[j].key
                       /\ req[i].key # NoKey
                       => i = j
  /\ \A l \in Lane : pc[l] = "lookup" => req[claim[l].job].key # NoKey

LEMMA KeyInit == Init => KeyInv
  BY QueueAssumption DEF Init, KeyInv

LEMMA KeyStep == TypeOK /\ KeyInv /\ [Next]_vars => KeyInv'
  <1> SUFFICES ASSUME TypeOK, KeyInv, [Next]_vars PROVE KeyInv'
    OBVIOUS
  <1> USE QueueAssumption DEF KeyInv, TypeOK, Status, Lock, LaneState, Working, Snapshot, rowVars, laneVars, history
  <1>1. ASSUME NEW j \in Job, NEW r \in Request, Enqueue(j, r) PROVE KeyInv'
    <2>1. /\ req[j] = Null
          /\ req' = [req EXCEPT ![j] = r]
          /\ UNCHANGED <<pc, claim>>
      BY <1>1 DEF Enqueue, Present
    <2>2. \A i \in Job : req[i] # Null /\ req[i].key = r.key => r.key = NoKey
      BY <1>1 DEF Enqueue, Present, KeyTaken
    <2>3. \A i \in Job : i # j => req'[i] = req[i]
      BY <2>1
    <2>4. req'[j] = r /\ r # Null
      BY <2>1
    <2>5. \A l \in Lane : pc[l] = "lookup" => claim[l].job \in Job /\ claim[l].job # j
      BY <2>1
    <2>. QED
      BY <2>1, <2>2, <2>3, <2>4, <2>5
  <1>2. ASSUME NEW l \in Lane, SelectStale(l) PROVE KeyInv'
    BY <1>2 DEF SelectStale, Selected, Expired
  <1>3. ASSUME NEW l \in Lane, NEW s \in stale[l], RecoverOne(l, s) PROVE KeyInv'
    BY <1>3 DEF RecoverOne, CanSafelyRerun
  <1>4. ASSUME NEW l \in Lane, NEW j \in Job, Claim(l, j) PROVE KeyInv'
    BY <1>4 DEF Claim, ClaimLease, IsNext, Runnable
  <1>5. ASSUME NEW l \in Lane, Leave(l) PROVE KeyInv'
    BY <1>5 DEF Leave, GoIdle
  <1>6. ASSUME NEW l \in Lane, Lookup(l) PROVE KeyInv'
    BY <1>6 DEF Lookup
  <1>7. ASSUME NEW l \in Lane, DispatchPaid(l) PROVE KeyInv'
    BY <1>7 DEF DispatchPaid, Spend
  <1>8. ASSUME NEW l \in Lane, DispatchThrows(l) PROVE KeyInv'
    BY <1>8 DEF DispatchThrows
  <1>9. ASSUME NEW l \in Lane, DispatchStub(l) PROVE KeyInv'
    BY <1>9 DEF DispatchStub, Stubbed
  <1>10. ASSUME NEW l \in Lane, RecordDone(l) PROVE KeyInv'
    BY <1>10 DEF RecordDone, GoIdle
  <1>11. ASSUME NEW l \in Lane, RecordError(l) PROVE KeyInv'
    BY <1>11 DEF RecordError, GoIdle
  <1>12. ASSUME NEW l \in Lane, TryStatementFails(l) PROVE KeyInv'
    BY <1>12 DEF TryStatementFails, Spend
  <1>13. ASSUME NEW l \in Lane, TickRejects(l) PROVE KeyInv'
    BY <1>13 DEF TickRejects, Spend, GoIdle
  <1>14. ASSUME NEW l \in Lane, Crash(l) PROVE KeyInv'
    BY <1>14 DEF Crash, Spend, GoIdle
  <1>15. ASSUME NEW j \in Job, LockPasses(j) PROVE KeyInv'
    BY <1>15 DEF LockPasses
  <1>16. ASSUME NEW j \in Job, Cancel(j) PROVE KeyInv'
    BY <1>16 DEF Cancel, Cancellable
  <1>17. ASSUME NEW o \in Operator, NEW j \in Job, RetryRead(o, j) PROVE KeyInv'
    BY <1>17 DEF RetryRead, Retryable
  <1>18. ASSUME NEW o \in Operator, RetryWrite(o) PROVE KeyInv'
    BY <1>18 DEF RetryWrite
  <1>19. CASE UNCHANGED vars
    BY <1>19 DEF vars
  <1>. QED
    BY <1>1, <1>2, <1>3, <1>4, <1>5, <1>6, <1>7, <1>8, <1>9, <1>10, <1>11, <1>12, <1>13, <1>14, <1>15, <1>16, <1>17, <1>18, <1>19 DEF Next, LaneStep, LaneFault

LEMMA VainLookup == TypeOK /\ KeyInv => NoCompletedTwin
  BY DEF TypeOK, KeyInv, NoCompletedTwin, CompletedTwins, Present, Working, Snapshot

(* The lookup that is to make a re-run reuse completed work never finds any. *)
THEOREM LookupNeverHits == Spec => []NoCompletedTwin
  BY KeyInit, KeyStep, VainLookup, Typing, PTL DEF Spec

-----------------------------------------------------------------------------
(* What a lane is about to record is as backed by work as what rows record. *)
BackInv ==
  /\ \A j \in Job : status[j] = "done" => Backed(j, result[j])
  /\ \A l \in Lane : pc[l] = "record" => Backed(claim[l].job, got[l])

LEMMA BackInit == Init => BackInv
  BY QueueAssumption DEF Init, BackInv

LEMMA BackStep == TypeOK /\ NoCompletedTwin /\ BackInv /\ [Next]_vars => BackInv'
  <1> SUFFICES ASSUME TypeOK, NoCompletedTwin, BackInv, [Next]_vars PROVE BackInv'
    OBVIOUS
  <1> USE QueueAssumption DEF BackInv, Backed, TypeOK, Status, Lock, LaneState, Working, Snapshot, rowVars, laneVars, history
  <1>1. ASSUME NEW j \in Job, NEW r \in Request, Enqueue(j, r) PROVE BackInv'
    BY <1>1 DEF Enqueue, Present
  <1>2. ASSUME NEW l \in Lane, SelectStale(l) PROVE BackInv'
    BY <1>2 DEF SelectStale, Selected, Expired
  <1>3. ASSUME NEW l \in Lane, NEW s \in stale[l], RecoverOne(l, s) PROVE BackInv'
    BY <1>3 DEF RecoverOne, CanSafelyRerun
  <1>4. ASSUME NEW l \in Lane, NEW j \in Job, Claim(l, j) PROVE BackInv'
    BY <1>4 DEF Claim, ClaimLease, IsNext, Runnable
  <1>5. ASSUME NEW l \in Lane, Leave(l) PROVE BackInv'
    BY <1>5 DEF Leave, GoIdle
  <1>6. ASSUME NEW l \in Lane, Lookup(l) PROVE BackInv'
    BY <1>6 DEF Lookup, NoCompletedTwin
  <1>7. ASSUME NEW l \in Lane, DispatchPaid(l) PROVE BackInv'
    BY <1>7 DEF DispatchPaid, Spend
  <1>8. ASSUME NEW l \in Lane, DispatchThrows(l) PROVE BackInv'
    BY <1>8 DEF DispatchThrows
  <1>9. ASSUME NEW l \in Lane, DispatchStub(l) PROVE BackInv'
    BY <1>9 DEF DispatchStub, Stubbed
  <1>10. ASSUME NEW l \in Lane, RecordDone(l) PROVE BackInv'
    BY <1>10 DEF RecordDone, GoIdle
  <1>11. ASSUME NEW l \in Lane, RecordError(l) PROVE BackInv'
    BY <1>11 DEF RecordError, GoIdle
  <1>12. ASSUME NEW l \in Lane, TryStatementFails(l) PROVE BackInv'
    BY <1>12 DEF TryStatementFails, Spend
  <1>13. ASSUME NEW l \in Lane, TickRejects(l) PROVE BackInv'
    BY <1>13 DEF TickRejects, Spend, GoIdle
  <1>14. ASSUME NEW l \in Lane, Crash(l) PROVE BackInv'
    BY <1>14 DEF Crash, Spend, GoIdle
  <1>15. ASSUME NEW j \in Job, LockPasses(j) PROVE BackInv'
    BY <1>15 DEF LockPasses
  <1>16. ASSUME NEW j \in Job, Cancel(j) PROVE BackInv'
    BY <1>16 DEF Cancel, Cancellable
  <1>17. ASSUME NEW o \in Operator, NEW j \in Job, RetryRead(o, j) PROVE BackInv'
    BY <1>17 DEF RetryRead, Retryable
  <1>18. ASSUME NEW o \in Operator, RetryWrite(o) PROVE BackInv'
    BY <1>18 DEF RetryWrite
  <1>19. CASE UNCHANGED vars
    BY <1>19 DEF vars
  <1>. QED
    BY <1>1, <1>2, <1>3, <1>4, <1>5, <1>6, <1>7, <1>8, <1>9, <1>10, <1>11, <1>12, <1>13, <1>14, <1>15, <1>16, <1>17, <1>18, <1>19 DEF Next, LaneStep, LaneFault

(* Done means done: no row is reported complete without the work behind it. *)
THEOREM DoneRowsAreBacked == Spec => []DoneIsBacked
  <1>1. BackInv => DoneIsBacked
    BY DEF BackInv, DoneIsBacked, Present
  <1>. QED
    BY <1>1, BackInit, BackStep, LookupNeverHits, Typing, PTL DEF Spec

-----------------------------------------------------------------------------
(* What the queue guarantees in the deployment its documentation describes: no
   lane outlives its lease, one retry request at a time, and either one lane
   altogether or no crash (so that a recovery sweep never meets a claim).
   None of these theorems needs a bound on jobs, faults or retries.          *)

Alone(S) == \A a, b \in S : a = b

Deployment == /\ "slow" \notin Faults
              /\ Alone(Operator)
              /\ Alone(Lane) \/ Faults = {}

(* The strengthening of HolderOwnsRow: only a sweeping lane has stale rows in
   hand, a retry request that passed its check still finds the row stopped,
   and without faults a running row is always in somebody's hands.           *)
HoldInv ==
  /\ HolderOwnsRow
  /\ \A l \in Lane : stale[l] # {} => pc[l] = "sweep"
  /\ \A o \in Operator : pending[o] # Null => status[pending[o]] \in {"failed", "cancelled"}
  /\ Faults = {} => /\ \A j \in Job : status[j] = "running" => lock[j] = "future"
                    /\ \A j \in Job : status[j] = "running" => Executing(j)
                    /\ \A l \in Lane : stale[l] = {}

LEMMA HoldInit == Init => HoldInv
  BY QueueAssumption DEF Init, HoldInv, HolderOwnsRow

LEMMA HoldStep == Deployment /\ TypeOK /\ HoldInv /\ [Next]_vars => HoldInv'
  <1> SUFFICES ASSUME Deployment, TypeOK, HoldInv, [Next]_vars PROVE HoldInv'
    OBVIOUS
  <1> USE QueueAssumption DEF HoldInv, HolderOwnsRow, Executing, InHand, Deployment, Alone, TypeOK, Status, Lock, LaneState, Working, Snapshot, rowVars, laneVars, history
  <1>1. ASSUME NEW j \in Job, NEW r \in Request, Enqueue(j, r) PROVE HoldInv'
    BY <1>1 DEF Enqueue, Present
  <1>2. ASSUME NEW l \in Lane, SelectStale(l) PROVE HoldInv'
    BY <1>2 DEF SelectStale, Selected, Expired
  <1>3. ASSUME NEW l \in Lane, NEW s \in stale[l], RecoverOne(l, s) PROVE HoldInv'
    BY <1>3 DEF RecoverOne, CanSafelyRerun
  <1>4. ASSUME NEW l \in Lane, NEW j \in Job, Claim(l, j) PROVE HoldInv'
    BY <1>4 DEF Claim, ClaimLease, IsNext, Runnable
  <1>5. ASSUME NEW l \in Lane, Leave(l) PROVE HoldInv'
    BY <1>5 DEF Leave, GoIdle
  <1>6. ASSUME NEW l \in Lane, Lookup(l) PROVE HoldInv'
    BY <1>6 DEF Lookup
  <1>7. ASSUME NEW l \in Lane, DispatchPaid(l) PROVE HoldInv'
    BY <1>7 DEF DispatchPaid, Spend
  <1>8. ASSUME NEW l \in Lane, DispatchThrows(l) PROVE HoldInv'
    BY <1>8 DEF DispatchThrows
  <1>9. ASSUME NEW l \in Lane, DispatchStub(l) PROVE HoldInv'
    BY <1>9 DEF DispatchStub, Stubbed
  <1>10. ASSUME NEW l \in Lane, RecordDone(l) PROVE HoldInv'
    BY <1>10 DEF RecordDone, GoIdle
  <1>11. ASSUME NEW l \in Lane, RecordError(l) PROVE HoldInv'
    BY <1>11 DEF RecordError, GoIdle
  <1>12. ASSUME NEW l \in Lane, TryStatementFails(l) PROVE HoldInv'
    BY <1>12 DEF TryStatementFails, Spend
  <1>13. ASSUME NEW l \in Lane, TickRejects(l) PROVE HoldInv'
    BY <1>13 DEF TickRejects, Spend, GoIdle
  <1>14. ASSUME NEW l \in Lane, Crash(l) PROVE HoldInv'
    BY <1>14 DEF Crash, Spend, GoIdle
  <1>15. ASSUME NEW j \in Job, LockPasses(j) PROVE HoldInv'
    BY <1>15 DEF LockPasses
  <1>16. ASSUME NEW j \in Job, Cancel(j) PROVE HoldInv'
    BY <1>16 DEF Cancel, Cancellable
  <1>17. ASSUME NEW o \in Operator, NEW j \in Job, RetryRead(o, j) PROVE HoldInv'
    BY <1>17 DEF RetryRead, Retryable
  <1>18. ASSUME NEW o \in Operator, RetryWrite(o) PROVE HoldInv'
    BY <1>18 DEF RetryWrite
  <1>19. CASE UNCHANGED vars
    BY <1>19 DEF vars
  <1>. QED
    BY <1>1, <1>2, <1>3, <1>4, <1>5, <1>6, <1>7, <1>8, <1>9, <1>10, <1>11, <1>12, <1>13, <1>14, <1>15, <1>16, <1>17, <1>18, <1>19 DEF Next, LaneStep, LaneFault

(* A lane owns the row it executes, from the claim to the outcome it writes. *)
THEOREM HolderAlwaysOwnsRow == ASSUME Deployment PROVE Spec => []HolderOwnsRow
  <1>1. HoldInv => HolderOwnsRow
    BY DEF HoldInv
  <1>. QED
    BY <1>1, HoldInit, HoldStep, Typing, PTL DEF Spec

-----------------------------------------------------------------------------
(* The strengthening of RunsBounded: the attempt number never lags behind the
   runs it is to bound, and a stale row still running carries the attempt its
   sweep read.                                                               *)
RunInv ==
  /\ \A j \in Job : status[j] \in {"absent", "queued"} => runs[j] <= attempt[j]
  /\ \A j \in Job : status[j] = "running" => runs[j] <= attempt[j] + 1
  /\ \A j \in Job : req[j] # Null => runs[j] <= req[j].maxAttempts
  /\ \A l \in Lane : \A s \in stale[l] :
       status[s.job] = "running" => s.attempt = attempt[s.job]

LEMMA RunInit == Init => RunInv
  BY QueueAssumption DEF Init, RunInv

LEMMA RunStep == Deployment /\ TypeOK /\ HoldInv /\ AttemptInv /\ RunInv /\ [Next]_vars => RunInv'
  <1> SUFFICES ASSUME Deployment, TypeOK, HoldInv, AttemptInv, RunInv, [Next]_vars PROVE RunInv'
    OBVIOUS
  <1> USE QueueAssumption DEF RunInv, HoldInv, HolderOwnsRow, AttemptInv, Counted, Executing, InHand, Deployment, Alone, TypeOK, Status, Lock, LaneState, Working, Snapshot, rowVars, laneVars, history
  <1>1. ASSUME NEW j \in Job, NEW r \in Request, Enqueue(j, r) PROVE RunInv'
    BY <1>1 DEF Enqueue, Present
  <1>2. ASSUME NEW l \in Lane, SelectStale(l) PROVE RunInv'
    BY <1>2 DEF SelectStale, Selected, Expired
  <1>3. ASSUME NEW l \in Lane, NEW s \in stale[l], RecoverOne(l, s) PROVE RunInv'
    BY <1>3 DEF RecoverOne, CanSafelyRerun
  <1>4. ASSUME NEW l \in Lane, NEW j \in Job, Claim(l, j) PROVE RunInv'
    BY <1>4 DEF Claim, ClaimLease, IsNext, Runnable
  <1>5. ASSUME NEW l \in Lane, Leave(l) PROVE RunInv'
    BY <1>5 DEF Leave, GoIdle
  <1>6. ASSUME NEW l \in Lane, Lookup(l) PROVE RunInv'
    BY <1>6 DEF Lookup
  <1>7. ASSUME NEW l \in Lane, DispatchPaid(l) PROVE RunInv'
    BY <1>7 DEF DispatchPaid, Spend
  <1>8. ASSUME NEW l \in Lane, DispatchThrows(l) PROVE RunInv'
    BY <1>8 DEF DispatchThrows
  <1>9. ASSUME NEW l \in Lane, DispatchStub(l) PROVE RunInv'
    BY <1>9 DEF DispatchStub, Stubbed
  <1>10. ASSUME NEW l \in Lane, RecordDone(l) PROVE RunInv'
    BY <1>10 DEF RecordDone, GoIdle
  <1>11. ASSUME NEW l \in Lane, RecordError(l) PROVE RunInv'
    BY <1>11 DEF RecordError, GoIdle
  <1>12. ASSUME NEW l \in Lane, TryStatementFails(l) PROVE RunInv'
    BY <1>12 DEF TryStatementFails, Spend
  <1>13. ASSUME NEW l \in Lane, TickRejects(l) PROVE RunInv'
    BY <1>13 DEF TickRejects, Spend, GoIdle
  <1>14. ASSUME NEW l \in Lane, Crash(l) PROVE RunInv'
    BY <1>14 DEF Crash, Spend, GoIdle
  <1>15. ASSUME NEW j \in Job, LockPasses(j) PROVE RunInv'
    BY <1>15 DEF LockPasses
  <1>16. ASSUME NEW j \in Job, Cancel(j) PROVE RunInv'
    BY <1>16 DEF Cancel, Cancellable
  <1>17. ASSUME NEW o \in Operator, NEW j \in Job, RetryRead(o, j) PROVE RunInv'
    BY <1>17 DEF RetryRead, Retryable
  <1>18. ASSUME NEW o \in Operator, RetryWrite(o) PROVE RunInv'
    BY <1>18 DEF RetryWrite
  <1>19. CASE UNCHANGED vars
    BY <1>19 DEF vars
  <1>. QED
    BY <1>1, <1>2, <1>3, <1>4, <1>5, <1>6, <1>7, <1>8, <1>9, <1>10, <1>11, <1>12, <1>13, <1>14, <1>15, <1>16, <1>17, <1>18, <1>19 DEF Next, LaneStep, LaneFault

(* max_attempts bounds the executions of one life of a job. *)
THEOREM RunsStayBounded == ASSUME Deployment PROVE Spec => []RunsBounded
  <1>1. RunInv /\ TypeOK => RunsBounded
    BY DEF RunInv, RunsBounded, Present, TypeOK
  <1>. QED
    BY <1>1, RunInit, RunStep, HoldInit, HoldStep, AttemptInit, AttemptStep, Typing, PTL
       DEF Spec

-----------------------------------------------------------------------------
(* UnsureUnkeyedStops needs only that nobody marks a row before it exists. *)
StopInv == /\ UnsureUnkeyedStops
           /\ \A j \in unsure : status[j] # "absent"

LEMMA StopInit == Init => StopInv
  BY DEF Init, StopInv, UnsureUnkeyedStops

LEMMA StopStep == Deployment /\ TypeOK /\ HoldInv /\ StopInv /\ [Next]_vars => StopInv'
  <1> SUFFICES ASSUME Deployment, TypeOK, HoldInv, StopInv, [Next]_vars PROVE StopInv'
    OBVIOUS
  <1> USE QueueAssumption DEF StopInv, UnsureUnkeyedStops, HoldInv, HolderOwnsRow, Executing, InHand, Deployment, Alone, TypeOK, Status, Lock, LaneState, Working, Snapshot, rowVars, laneVars, history
  <1>1. ASSUME NEW j \in Job, NEW r \in Request, Enqueue(j, r) PROVE StopInv'
    BY <1>1 DEF Enqueue, Present
  <1>2. ASSUME NEW l \in Lane, SelectStale(l) PROVE StopInv'
    BY <1>2 DEF SelectStale, Selected, Expired
  <1>3. ASSUME NEW l \in Lane, NEW s \in stale[l], RecoverOne(l, s) PROVE StopInv'
    BY <1>3 DEF RecoverOne, CanSafelyRerun
  <1>4. ASSUME NEW l \in Lane, NEW j \in Job, Claim(l, j) PROVE StopInv'
    BY <1>4 DEF Claim, ClaimLease, IsNext, Runnable
  <1>5. ASSUME NEW l \in Lane, Leave(l) PROVE StopInv'
    BY <1>5 DEF Leave, GoIdle
  <1>6. ASSUME NEW l \in Lane, Lookup(l) PROVE StopInv'
    BY <1>6 DEF Lookup
  <1>7. ASSUME NEW l \in Lane, DispatchPaid(l) PROVE StopInv'
    BY <1>7 DEF DispatchPaid, Spend
  <1>8. ASSUME NEW l \in Lane, DispatchThrows(l) PROVE StopInv'
    BY <1>8 DEF DispatchThrows
  <1>9. ASSUME NEW l \in Lane, DispatchStub(l) PROVE StopInv'
    BY <1>9 DEF DispatchStub, Stubbed
  <1>10. ASSUME NEW l \in Lane, RecordDone(l) PROVE StopInv'
    BY <1>10 DEF RecordDone, GoIdle
  <1>11. ASSUME NEW l \in Lane, RecordError(l) PROVE StopInv'
    BY <1>11 DEF RecordError, GoIdle
  <1>12. ASSUME NEW l \in Lane, TryStatementFails(l) PROVE StopInv'
    BY <1>12 DEF TryStatementFails, Spend
  <1>13. ASSUME NEW l \in Lane, TickRejects(l) PROVE StopInv'
    BY <1>13 DEF TickRejects, Spend, GoIdle
  <1>14. ASSUME NEW l \in Lane, Crash(l) PROVE StopInv'
    BY <1>14 DEF Crash, Spend, GoIdle
  <1>15. ASSUME NEW j \in Job, LockPasses(j) PROVE StopInv'
    BY <1>15 DEF LockPasses
  <1>16. ASSUME NEW j \in Job, Cancel(j) PROVE StopInv'
    BY <1>16 DEF Cancel, Cancellable
  <1>17. ASSUME NEW o \in Operator, NEW j \in Job, RetryRead(o, j) PROVE StopInv'
    BY <1>17 DEF RetryRead, Retryable
  <1>18. ASSUME NEW o \in Operator, RetryWrite(o) PROVE StopInv'
    BY <1>18 DEF RetryWrite
  <1>19. CASE UNCHANGED vars
    BY <1>19 DEF vars
  <1>. QED
    BY <1>1, <1>2, <1>3, <1>4, <1>5, <1>6, <1>7, <1>8, <1>9, <1>10, <1>11, <1>12, <1>13, <1>14, <1>15, <1>16, <1>17, <1>18, <1>19 DEF Next, LaneStep, LaneFault

(* Unkeyed work whose outcome nobody knows waits for an operator. *)
THEOREM UncertainWorkWaits == ASSUME Deployment PROVE Spec => []UnsureUnkeyedStops
  <1>1. StopInv => UnsureUnkeyedStops
    BY DEF StopInv
  <1>. QED
    BY <1>1, StopInit, StopStep, HoldInit, HoldStep, Typing, PTL DEF Spec

-----------------------------------------------------------------------------
KeepsOutcome == \A j \in Job : status[j] = "done" => status'[j] = "done" /\ result'[j] = result[j]

LEMMA OutcomeStep == Deployment /\ TypeOK /\ HoldInv /\ [Next]_vars => KeepsOutcome
  <1> SUFFICES ASSUME Deployment, TypeOK, HoldInv, [Next]_vars PROVE KeepsOutcome
    OBVIOUS
  <1> USE QueueAssumption DEF KeepsOutcome, HoldInv, HolderOwnsRow, Executing, InHand, Deployment, Alone, TypeOK, Status, Lock, LaneState, Working, Snapshot, rowVars, laneVars, history
  <1>1. ASSUME NEW j \in Job, NEW r \in Request, Enqueue(j, r) PROVE KeepsOutcome
    BY <1>1 DEF Enqueue, Present
  <1>2. ASSUME NEW l \in Lane, SelectStale(l) PROVE KeepsOutcome
    BY <1>2 DEF SelectStale, Selected, Expired
  <1>3. ASSUME NEW l \in Lane, NEW s \in stale[l], RecoverOne(l, s) PROVE KeepsOutcome
    BY <1>3 DEF RecoverOne, CanSafelyRerun
  <1>4. ASSUME NEW l \in Lane, NEW j \in Job, Claim(l, j) PROVE KeepsOutcome
    BY <1>4 DEF Claim, ClaimLease, IsNext, Runnable
  <1>5. ASSUME NEW l \in Lane, Leave(l) PROVE KeepsOutcome
    BY <1>5 DEF Leave, GoIdle
  <1>6. ASSUME NEW l \in Lane, Lookup(l) PROVE KeepsOutcome
    BY <1>6 DEF Lookup
  <1>7. ASSUME NEW l \in Lane, DispatchPaid(l) PROVE KeepsOutcome
    BY <1>7 DEF DispatchPaid, Spend
  <1>8. ASSUME NEW l \in Lane, DispatchThrows(l) PROVE KeepsOutcome
    BY <1>8 DEF DispatchThrows
  <1>9. ASSUME NEW l \in Lane, DispatchStub(l) PROVE KeepsOutcome
    BY <1>9 DEF DispatchStub, Stubbed
  <1>10. ASSUME NEW l \in Lane, RecordDone(l) PROVE KeepsOutcome
    BY <1>10 DEF RecordDone, GoIdle
  <1>11. ASSUME NEW l \in Lane, RecordError(l) PROVE KeepsOutcome
    BY <1>11 DEF RecordError, GoIdle
  <1>12. ASSUME NEW l \in Lane, TryStatementFails(l) PROVE KeepsOutcome
    BY <1>12 DEF TryStatementFails, Spend
  <1>13. ASSUME NEW l \in Lane, TickRejects(l) PROVE KeepsOutcome
    BY <1>13 DEF TickRejects, Spend, GoIdle
  <1>14. ASSUME NEW l \in Lane, Crash(l) PROVE KeepsOutcome
    BY <1>14 DEF Crash, Spend, GoIdle
  <1>15. ASSUME NEW j \in Job, LockPasses(j) PROVE KeepsOutcome
    BY <1>15 DEF LockPasses
  <1>16. ASSUME NEW j \in Job, Cancel(j) PROVE KeepsOutcome
    BY <1>16 DEF Cancel, Cancellable
  <1>17. ASSUME NEW o \in Operator, NEW j \in Job, RetryRead(o, j) PROVE KeepsOutcome
    BY <1>17 DEF RetryRead, Retryable
  <1>18. ASSUME NEW o \in Operator, RetryWrite(o) PROVE KeepsOutcome
    BY <1>18 DEF RetryWrite
  <1>19. CASE UNCHANGED vars
    BY <1>19 DEF vars
  <1>. QED
    BY <1>1, <1>2, <1>3, <1>4, <1>5, <1>6, <1>7, <1>8, <1>9, <1>10, <1>11, <1>12, <1>13, <1>14, <1>15, <1>16, <1>17, <1>18, <1>19 DEF Next, LaneStep, LaneFault

(* No step takes a done row or its result back. *)
THEOREM OutcomesAreFinal == ASSUME Deployment PROVE Spec => OutcomeIsFinal
  <1>1. TypeOK /\ HoldInv /\ [Next]_vars => [KeepsOutcome]_vars
    BY OutcomeStep
  <1>2. Spec => [][KeepsOutcome]_vars
    BY <1>1, HoldInit, HoldStep, Typing, PTL DEF Spec
  <1>. QED
    BY <1>2 DEF OutcomeIsFinal, KeepsOutcome

-----------------------------------------------------------------------------
(* The queue implements JobLifecycle: every step is one of its steps or leaves
   its variables alone.  First, how steps move the set of jobs in execution.  *)
Ex == {j \in Job : Executing(j)}

MaxTries == [j \in Job |-> Tries(j)]

LEMMA ExKept == claim' = claim => Ex' = Ex
  BY DEF Ex, Executing, InHand

LEMMA ExGained ==
  ASSUME TypeOK, NEW l \in Lane, NEW j \in Job, NEW n, claim[l] = Null,
         claim' = [claim EXCEPT ![l] = [job |-> j, attempt |-> n]],
         Null # [job |-> j, attempt |-> n]
  PROVE  Ex' = Ex \cup {j}
  BY DEF Ex, Executing, InHand, TypeOK

LEMMA ExLost ==
  ASSUME TypeOK, HolderOwnsRow, NEW l \in Lane,
         claim' = [claim EXCEPT ![l] = Null]
  PROVE  /\ claim[l] = Null => Ex' = Ex
         /\ claim[l] # Null => Ex' = Ex \ {claim[l].job}
  <1>1. \A k \in Lane : k # l => claim'[k] = claim[k]
    BY DEF TypeOK
  <1>2. claim'[l] = Null
    BY DEF TypeOK
  <1>. QED
    BY <1>1, <1>2 DEF Ex, Executing, InHand, HolderOwnsRow

LEMMA TriesKept == req' = req => MaxTries' = MaxTries
  BY DEF MaxTries, Tries

LEMMA LifecycleInit == Init => Promise!LifeInit
  BY QueueAssumption DEF Init, Promise!LifeInit, Tries, Executing, InHand

LifeStep == Promise!LifeNext \/ UNCHANGED <<MaxTries, status, Ex, runs>>

LEMMA LifecycleStep ==
  Deployment /\ TypeOK /\ HoldInv /\ AttemptInv /\ RunInv /\ [Next]_vars => LifeStep
  <1> SUFFICES ASSUME Deployment, TypeOK, HoldInv, AttemptInv, RunInv, [Next]_vars
               PROVE  LifeStep
    OBVIOUS
  <1> USE QueueAssumption DEF TypeOK, Status, Lock, LaneState, Working, Snapshot,
        rowVars, laneVars, history
  <1> DEFINE Move(j, p) == status' = [status EXCEPT ![j] = p]
  <1>a. HolderOwnsRow
    BY DEF HoldInv
  <1>b. ASSUME NEW j \in Job, status[j] = "queued", j \notin Ex, runs[j] < MaxTries[j],
               Move(j, "running"), Ex' = Ex \cup {j}, MaxTries' = MaxTries,
               runs' = [runs EXCEPT ![j] = @ + 1]
        PROVE  LifeStep
    BY <1>b DEF LifeStep, Promise!LifeNext, Promise!Begin, Promise!Move, Ex, MaxTries
  <1>c. ASSUME NEW j \in Ex, status[j] = "running", MaxTries' = MaxTries, runs' = runs,
               Ex' = Ex \ {j},
               \/ Move(j, "done")
               \/ Move(j, "failed")
               \/ runs[j] < MaxTries[j] /\ Move(j, "queued")
        PROVE  LifeStep
    BY <1>c DEF LifeStep, Promise!LifeNext, Promise!Report, Promise!Move, Ex, MaxTries
  <1>d. ASSUME NEW j \in Ex, MaxTries' = MaxTries, status' = status, runs' = runs,
               Ex' = Ex \ {j}
        PROVE  LifeStep
    BY <1>d DEF LifeStep, Promise!LifeNext, Promise!Abandon, Ex, MaxTries
  <1>e. ASSUME NEW j \in Job, status[j] = "running", j \notin Ex, MaxTries' = MaxTries,
               runs' = runs, Ex' = Ex,
               \/ Move(j, "failed")
               \/ Move(j, "cancelled")
               \/ runs[j] < MaxTries[j] /\ Move(j, "queued")
        PROVE  LifeStep
    BY <1>e DEF LifeStep, Promise!LifeNext, Promise!Recover, Promise!Move, Ex, MaxTries
  <1>f. ASSUME NEW l \in Lane, claim' = [claim EXCEPT ![l] = Null],
               req' = req, status' = status, runs' = runs
        PROVE  LifeStep
    <2>1. CASE claim[l] = Null
      BY <1>a, <1>f, <2>1, ExLost, TriesKept DEF LifeStep
    <2>2. CASE claim[l] # Null
      <3>1. Ex' = Ex \ {claim[l].job} /\ claim[l].job \in Ex
        BY <1>a, <1>f, <2>2, ExLost DEF Ex, Executing, InHand
      <3>. QED
        BY <1>d, <1>f, <3>1, TriesKept
    <2>. QED
      BY <2>1, <2>2
  <1>g. ASSUME NEW l \in Lane, claim[l] # Null
        PROVE  /\ claim[l].job \in Ex
               /\ status[claim[l].job] = "running"
               /\ claim[l].attempt = attempt[claim[l].job]
    BY <1>a, <1>g DEF Ex, Executing, InHand, HolderOwnsRow
  <1>1. ASSUME NEW j \in Job, NEW r \in Request, Enqueue(j, r) PROVE LifeStep
    <2>1. status[j] = "absent" /\ Move(j, "queued") /\ Ex' = Ex /\ runs' = runs
      BY <1>1, ExKept DEF Enqueue, Present
    <2>2. MaxTries' = [MaxTries EXCEPT ![j] = r.maxAttempts]
      BY <1>1 DEF Enqueue, MaxTries, Tries
    <2>3. MaxTries'[j] = r.maxAttempts /\ r.maxAttempts > 0
      BY <2>2 DEF MaxTries
    <2>. QED
      BY <2>1, <2>2, <2>3
      DEF LifeStep, Promise!LifeNext, Promise!Submit, Promise!Move, Ex, MaxTries
  <1>2. ASSUME NEW l \in Lane, SelectStale(l) PROVE LifeStep
    BY <1>2, ExKept, TriesKept DEF SelectStale, LifeStep
  <1>3. ASSUME NEW l \in Lane, NEW s \in stale[l], RecoverOne(l, s) PROVE LifeStep
    <2>1. /\ s.job \in Job /\ Ex' = Ex /\ MaxTries' = MaxTries /\ runs' = runs
      BY <1>3, ExKept, TriesKept DEF RecoverOne
    <2>2. CASE status[s.job] # "running"
      BY <1>3, <2>1, <2>2 DEF RecoverOne, LifeStep
    <2>3. CASE status[s.job] = "running"
      <3>1. s.job \notin Ex
        BY <1>3, <2>3 DEF Ex, Executing, InHand, HoldInv, RecoverOne, Deployment, Alone
      <3>2. s.attempt = attempt[s.job] /\ runs[s.job] <= attempt[s.job] + 1
        BY <2>1, <2>3 DEF RunInv
      <3>3. CASE CanSafelyRerun(s)
        <4>1. Move(s.job, "queued")
          BY <1>3, <2>3, <3>3 DEF RecoverOne
        <4>2. runs[s.job] < MaxTries[s.job]
          BY <2>1, <2>3, <3>2, <3>3 DEF CanSafelyRerun, MaxTries, Tries
        <4>. QED
          BY <1>e, <2>1, <2>3, <3>1, <4>1, <4>2
      <3>4. CASE ~CanSafelyRerun(s)
        <4>1. Move(s.job, "failed")
          BY <1>3, <2>3, <3>4 DEF RecoverOne
        <4>. QED
          BY <1>e, <2>1, <2>3, <3>1, <4>1
      <3>. QED
        BY <3>3, <3>4
    <2>. QED
      BY <2>2, <2>3
  <1>4. ASSUME NEW l \in Lane, NEW j \in Job, Claim(l, j) PROVE LifeStep
    <2>1. /\ status[j] = "queued" /\ Move(j, "running") /\ MaxTries' = MaxTries
          /\ runs' = [runs EXCEPT ![j] = @ + 1]
      BY <1>4, TriesKept DEF Claim, IsNext, Runnable
    <2>2. claim[l] = Null /\ claim' = [claim EXCEPT ![l] = [job |-> j, attempt |-> attempt[j]]]
      BY <1>4 DEF Claim
    <2>3. Ex' = Ex \cup {j}
      <3>1. Null # [job |-> j, attempt |-> attempt[j]]
        OBVIOUS
      <3>. QED
        BY <2>2, <3>1, ExGained
    <2>4. j \notin Ex
      BY <1>g, <2>1 DEF Ex, Executing, InHand
    <2>5. runs[j] < MaxTries[j]
      BY <2>1 DEF RunInv, AttemptInv, MaxTries, Tries
    <2>. QED
      BY <1>b, <2>1, <2>3, <2>4, <2>5
  <1>5. ASSUME NEW l \in Lane, Leave(l) PROVE LifeStep
    BY <1>5, <1>f DEF Leave, GoIdle
  <1>6. ASSUME NEW l \in Lane, Lookup(l) PROVE LifeStep
    BY <1>6, ExKept, TriesKept DEF Lookup, LifeStep
  <1>7. ASSUME NEW l \in Lane, DispatchPaid(l) PROVE LifeStep
    BY <1>7, ExKept, TriesKept DEF DispatchPaid, LifeStep
  <1>8. ASSUME NEW l \in Lane, DispatchThrows(l) PROVE LifeStep
    BY <1>8, ExKept, TriesKept DEF DispatchThrows, LifeStep
  <1>9. ASSUME NEW l \in Lane, DispatchStub(l) PROVE LifeStep
    BY <1>9, ExKept, TriesKept DEF DispatchStub, LifeStep
  <1>10. ASSUME NEW l \in Lane, RecordDone(l) PROVE LifeStep
    <2>1. claim[l] # Null /\ claim' = [claim EXCEPT ![l] = Null] /\ req' = req /\ runs' = runs
      BY <1>10 DEF RecordDone, GoIdle
    <2>2. Ex' = Ex \ {claim[l].job} /\ MaxTries' = MaxTries
      BY <1>a, <2>1, ExLost, TriesKept
    <2>3. Move(claim[l].job, "done")
      BY <1>10 DEF RecordDone
    <2>. QED
      BY <1>c, <1>g, <2>1, <2>2, <2>3
  <1>11. ASSUME NEW l \in Lane, RecordError(l) PROVE LifeStep
    <2>1. claim[l] # Null /\ claim' = [claim EXCEPT ![l] = Null] /\ req' = req /\ runs' = runs
      BY <1>11 DEF RecordError, GoIdle
    <2>2. Ex' = Ex \ {claim[l].job} /\ MaxTries' = MaxTries
      BY <1>a, <2>1, ExLost, TriesKept
    <2>3. claim[l].job \in Job /\ runs[claim[l].job] <= claim[l].attempt + 1
      BY <1>g, <2>1 DEF RunInv
    <2>4. CASE claim[l].attempt + 1 < req[claim[l].job].maxAttempts
      <3>1. Move(claim[l].job, "queued")
        BY <1>11, <2>4, <2>1, <2>3 DEF RecordError
      <3>2. req[claim[l].job] # Null
        BY <2>1 DEF AttemptInv, Counted
      <3>3. runs[claim[l].job] < MaxTries[claim[l].job]
        BY <2>1, <2>3, <2>4, <3>2 DEF MaxTries, Tries
      <3>. QED
        BY <1>c, <1>g, <2>1, <2>2, <3>1, <3>3
    <2>5. CASE ~(claim[l].attempt + 1 < req[claim[l].job].maxAttempts)
      <3>1. Move(claim[l].job, "failed")
        BY <1>11, <2>5 DEF RecordError
      <3>. QED
        BY <1>c, <1>g, <2>1, <2>2, <3>1
    <2>. QED
      BY <2>4, <2>5
  <1>12. ASSUME NEW l \in Lane, TryStatementFails(l) PROVE LifeStep
    BY <1>12, ExKept, TriesKept DEF TryStatementFails, LifeStep
  <1>13. ASSUME NEW l \in Lane, TickRejects(l) PROVE LifeStep
    BY <1>13, <1>f DEF TickRejects, GoIdle
  <1>14. ASSUME NEW l \in Lane, Crash(l) PROVE LifeStep
    BY <1>14, <1>f DEF Crash, GoIdle
  <1>15. ASSUME NEW j \in Job, LockPasses(j) PROVE LifeStep
    BY <1>15, ExKept, TriesKept DEF LockPasses, LifeStep
  <1>16. ASSUME NEW j \in Job, Cancel(j) PROVE LifeStep
    <2>1. Move(j, "cancelled") /\ MaxTries' = MaxTries /\ Ex' = Ex /\ runs' = runs
      BY <1>16, ExKept, TriesKept DEF Cancel
    <2>2. CASE status[j] = "queued"
      BY <2>1, <2>2
      DEF LifeStep, Promise!LifeNext, Promise!Withdraw, Promise!Move, Ex, MaxTries
    <2>3. CASE status[j] = "running" /\ lock[j] = "past"
      <3>1. j \notin Ex
        BY <1>a, <2>3 DEF Ex, Executing, InHand, HolderOwnsRow
      <3>. QED
        BY <1>e, <2>1, <2>3, <3>1
    <2>. QED
      BY <1>16, <2>2, <2>3 DEF Cancel, Cancellable
  <1>17. ASSUME NEW o \in Operator, NEW j \in Job, RetryRead(o, j) PROVE LifeStep
    BY <1>17, ExKept, TriesKept DEF RetryRead, LifeStep
  <1>18. ASSUME NEW o \in Operator, RetryWrite(o) PROVE LifeStep
    <2>1. pending[o] \in Job /\ status[pending[o]] \in {"failed", "cancelled"}
      BY <1>18 DEF RetryWrite, HoldInv
    <2>2. /\ Move(pending[o], "queued") /\ MaxTries' = MaxTries /\ Ex' = Ex
          /\ runs' = [runs EXCEPT ![pending[o]] = 0]
      BY <1>18, ExKept, TriesKept DEF RetryWrite
    <2>. QED
      BY <2>1, <2>2
      DEF LifeStep, Promise!LifeNext, Promise!Revive, Promise!Move, Ex, MaxTries
  <1>19. CASE UNCHANGED vars
    BY <1>19, ExKept, TriesKept DEF vars, LifeStep
  <1>. QED
    BY <1>1, <1>2, <1>3, <1>4, <1>5, <1>6, <1>7, <1>8, <1>9, <1>10, <1>11, <1>12,
       <1>13, <1>14, <1>15, <1>16, <1>17, <1>18, <1>19 DEF Next, LaneStep, LaneFault

(* The detailed queue keeps the abstract lifecycle: one executor per job, final
   outcomes, bounded runs, and no transition the documentation does not list. *)
THEOREM QueueImplementsLifecycle == ASSUME Deployment PROVE Spec => Lifecycle
  <1>1. LifeStep => [Promise!LifeNext]_(Promise!lifeVars)
    BY DEF LifeStep, Promise!lifeVars, MaxTries, Ex
  <1>2. Spec => Promise!LifeInit /\ [][Promise!LifeNext]_(Promise!lifeVars)
    BY <1>1, LifecycleInit, LifecycleStep, HoldInit, HoldStep, AttemptInit, AttemptStep,
       RunInit, RunStep, Typing, PTL DEF Spec
  <1>. QED
    BY <1>2 DEF Lifecycle, Promise!LifeSpec
=============================================================================
