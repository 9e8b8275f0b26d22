------------------------------ MODULE PaidRender ------------------------------
(* What "reconcile before retry" (heygen.ts) promises about money: an attempt is
   identified by its title; it is paid for again only when every render it already
   paid for has failed, and a call answers with a render of its own attempt.      *)
CONSTANTS Title, Render

VARIABLES
  paid,      \* the renders bought for each title
  failed,    \* the renders that failed
  answers    \* <<title, render>> ever answered

Init == paid = [t \in Title |-> {}] /\ failed = {} /\ answers = {}

Pay(t, r) ==
  /\ \A u \in Title : r \notin paid[u]
  /\ paid[t] \subseteq failed
  /\ paid' = [paid EXCEPT ![t] = @ \cup {r}]
  /\ UNCHANGED <<failed, answers>>

Fail(t, r) ==
  /\ r \in paid[t]
  /\ failed' = failed \cup {r}
  /\ UNCHANGED <<paid, answers>>

Answer(t, r) ==
  /\ r \in paid[t]
  /\ answers' = answers \cup {<<t, r>>}
  /\ UNCHANGED <<paid, failed>>

Next == \E t \in Title, r \in Render :
  Pay(t, r) \/ Fail(t, r) \/ Answer(t, r)

Spec == Init /\ [][Next]_<<paid, failed, answers>>
=============================================================================
