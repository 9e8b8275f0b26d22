--------------------------- MODULE MCProductionQueue ---------------------------
(* Inputs for checking ProductionQueue on small instances: the enqueue calls
   the repository makes (A-Roll with a key, B-Roll without one) and the governed
   capability that can be enqueued but not executed.                          *)
EXTENDS ProductionQueue, TLC

ARoll(k)    == [capability |-> "aroll", key |-> k, priority |-> 5, maxAttempts |-> 2]
BRoll       == [capability |-> "broll", key |-> NoKey, priority |-> 10, maxAttempts |-> 2]
Accord      == [capability |-> "accord_article", key |-> NoKey, priority |-> 10, maxAttempts |-> 2]
UnkeyedPaid == [capability |-> "aroll", key |-> NoKey, priority |-> 10, maxAttempts |-> 2]

OneKeyed      == {ARoll("a")}
AllRequests   == {ARoll("a"), BRoll, Accord, UnkeyedPaid}
AllFaults     == {"crash", "db", "slow"}
PromptFaults  == {"crash", "db"}
Crashes       == {"crash"}

LaneSymmetry  == Permutations(TickLane)
=============================================================================
