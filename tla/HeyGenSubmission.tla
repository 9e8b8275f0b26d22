--------------------------- MODULE HeyGenSubmission ---------------------------
(* Buying a render from HeyGen at most once (packages/integrations/src/heygen.ts):
   reconcileBeforeRetry and the calls it makes.

   A title names one attempt, and with it its Idempotency-Key when the caller has
   one.  A call may be lost after HeyGen accepted it, and the attempt is then made
   again, by this process or another.  Inside the 24 hours of the replay window the
   key protects the retry; without a key, or after the window, the history of videos
   is searched page by page before anything is bought.

   HeyGen itself is external and modelled from what the client relies on: a key in
   use answers 409, a key already used replays its render, a search shows every
   render there was when it began before it says, consistently, that it is done.
   It may say anything else: leave has_more out, or contradict itself.            *)
EXTENDS Naturals

CONSTANTS
  Title,       \* attempts
  Keyed,       \* those whose caller supplies an idempotency key
  Render,      \* HeyGen video ids
  Call,        \* calls of generateVideoReconciled in flight at once
  MaxPages,    \* RECONCILE_MAX_PAGES
  Null

ASSUME SubmissionAssumption ==
  /\ Keyed \subseteq Title
  /\ MaxPages \in Nat \ {0}
  /\ Null \notin Render \cup Title

VARIABLES
  paid,        \* HeyGen: the renders bought under each title
  failed,      \* HeyGen: the renders that failed
  key,         \* HeyGen: the render an idempotency key replays, or Null
  busy,        \* HeyGen: the keys whose first request is still in flight
  aged,        \* the attempts older than the replay window
  call,        \* a call in flight, or Null
  answers      \* history: <<title, render>> that were answered

vars == <<paid, failed, key, busy, aged, call, answers>>
heygen == <<paid, failed, key, busy>>

Searching == [step : {"search", "research"}, title : Title, page : 0 .. MaxPages,
              unseen : SUBSET Render]
Sending   == [step : {"send"}, title : Title]
Awaiting  == [step : {"await"}, title : Title, id : Render]

TypeOK ==
  /\ paid \in [Title -> SUBSET Render]
  /\ failed \subseteq Render
  /\ key \in [Title -> Render \cup {Null}]
  /\ busy \subseteq Keyed
  /\ aged \subseteq Title
  /\ call \in [Call -> Searching \cup Sending \cup Awaiting \cup {Null}]
  /\ answers \subseteq Title \X Render

-----------------------------------------------------------------------------
(* What a page's has_more and next_token mean together. *)
PageStateByFlag(more, token) == IF more = "yes" THEN (IF token THEN "more" ELSE "inconsistent")
                                               ELSE "done"
PageState(more, token) ==
  IF more = "no" THEN (IF token THEN "inconsistent" ELSE "done")
                 ELSE (IF token THEN "more" ELSE "inconsistent")

All       == UNION {paid[t] : t \in Title}
InFlight(t) == \E c \in Call : call[c] # Null /\ call[c].title = t
Is(c, step) == call[c] # Null /\ call[c].step = step
T(c)        == call[c].title
Become(c, r) == call' = [call EXCEPT ![c] = r]

Search(step, t) == [step |-> step, title |-> t, page |-> 0, unseen |-> All]
Send(t)         == [step |-> "send", title |-> t]

Init ==
  /\ paid = [t \in Title |-> {}] /\ failed = {} /\ key = [t \in Title |-> Null]
  /\ busy = {} /\ aged = {} /\ call = [c \in Call |-> Null] /\ answers = {}

(* reconcileBeforeRetry up to its first request: search when the key cannot protect.
   The caller of an attempt without a key does not make it twice at the same time. *)
ProtectedByAnyKey(t) == t \in Keyed
Protected(t)         == t \in Keyed /\ t \notin aged

Begin(c, t) ==
  /\ call[c] = Null
  /\ t \in Keyed \/ ~InFlight(t)
  /\ Become(c, IF Protected(t) THEN Send(t) ELSE Search("search", t))
  /\ UNCHANGED <<heygen, aged, answers>>

(* One page of findExisting: the first exact match that did not fail is adopted, and
   only a proven end allows buying; anything else goes on or throws.  A search after
   a 409 never buys: it throws the conflict.                                       *)
Usable(c, shown) == {r \in shown : r \in paid[T(c)] /\ r \notin failed}
Adopt(c, r) ==
  /\ call' = [call EXCEPT ![c] = Null]
  /\ answers' = answers \cup {<<T(c), r>>}

After(c, shown, state) ==
  IF state = "done" /\ Is(c, "search") THEN Send(T(c))
  ELSE IF state = "more" /\ call[c].page + 1 < MaxPages
    THEN [call[c] EXCEPT !.page = call[c].page + 1, !.unseen = call[c].unseen \ shown]
    ELSE Null

Page(c, shown, more, token) ==
  /\ Is(c, "search") \/ Is(c, "research")
  /\ shown \subseteq All
  /\ more = "no" /\ ~token => call[c].unseen \subseteq shown
  /\ \/ \E r \in Usable(c, shown) : Adopt(c, r)
     \/ /\ Usable(c, shown) = {}
        /\ Become(c, After(c, shown, PageState(more, token)))
        /\ UNCHANGED answers
  /\ UNCHANGED <<heygen, aged>>

(* generateVideo reaches HeyGen.  A new render, a replay, or a conflict. *)
Buys(t)    == t \notin Keyed \/ key[t] = Null
Buy(c, r) ==
  /\ Is(c, "send") /\ Buys(T(c)) /\ r \notin All
  /\ paid' = [paid EXCEPT ![T(c)] = @ \cup {r}]
  /\ key' = IF T(c) \in Keyed THEN [key EXCEPT ![T(c)] = r] ELSE key
  /\ busy' = IF T(c) \in Keyed THEN busy \cup {T(c)} ELSE busy
  /\ Become(c, [step |-> "await", title |-> T(c), id |-> r])
  /\ UNCHANGED <<failed, aged, answers>>

Replay(c) ==
  /\ Is(c, "send") /\ ~Buys(T(c)) /\ T(c) \notin busy
  /\ Become(c, [step |-> "await", title |-> T(c), id |-> key[T(c)]])
  /\ UNCHANGED <<heygen, aged, answers>>

Conflict(c) ==
  /\ Is(c, "send") /\ ~Buys(T(c)) /\ T(c) \in busy
  /\ Become(c, Search("research", T(c)))
  /\ UNCHANGED <<heygen, aged, answers>>

(* The answer arrives; or any call is lost: its process dies, or the request fails. *)
Answered(c) ==
  /\ Is(c, "await") /\ Adopt(c, call[c].id)
  /\ UNCHANGED <<heygen, aged>>
Lose(c) ==
  /\ call[c] # Null /\ Become(c, Null)
  /\ UNCHANGED <<heygen, aged, answers>>

(* HeyGen ends the first request of a key, fails a render, or forgets a key after
   24 hours, which no single call lasts.                                           *)
Settle(t) ==
  /\ t \in busy /\ busy' = busy \ {t}
  /\ UNCHANGED <<paid, failed, key, aged, call, answers>>
FailRender(r) ==
  /\ r \in All \ failed /\ failed' = failed \cup {r}
  /\ UNCHANGED <<paid, key, busy, aged, call, answers>>
Forget(t) ==
  /\ ~InFlight(t) /\ t \notin busy
  /\ aged' = aged \cup {t}
  /\ key' = [key EXCEPT ![t] = Null]
  /\ UNCHANGED <<paid, failed, busy, call, answers>>

Next ==
  \/ \E c \in Call :
       \/ \E t \in Title : Begin(c, t)
       \/ \E shown \in SUBSET Render, more \in {"yes", "no", "omitted"}, token \in BOOLEAN :
            Page(c, shown, more, token)
       \/ \E r \in Render : Buy(c, r)
       \/ Replay(c) \/ Conflict(c) \/ Answered(c) \/ Lose(c)
  \/ \E t \in Title : Settle(t) \/ Forget(t)
  \/ \E r \in Render : FailRender(r)

Spec == Init /\ [][Next]_vars

-----------------------------------------------------------------------------
(* An attempt never has two renders that did not fail, whatever calls overlap, are
   lost and are made again, on either side of the replay window.                   *)
OneLiveRender ==
  \A t \in Title : \A r, s \in paid[t] \ failed : r = s

Money == INSTANCE PaidRender
PaidOnce == Money!Spec
=============================================================================
