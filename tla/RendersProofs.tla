--------------------------- MODULE RendersProofs ----------------------------
(* Machine-checked proofs about the three parts of MCRenders, for any number of attempts,
   calls, renders, rows, requests, files, texts and assets.

   Submissions come first: whatever HeyGen's pages say, an attempt is paid for once.
   What VideoRendersProofs and ScriptPipelineProofs prove of their parts then holds of
   the parts as they are composed here.                                              *)
EXTENDS MCRenders, TLAPS

Live(t) == paid[t] \ failed

(* A call that will buy has seen that nothing lives; one that searches has not passed
   over anything that does, unless a key has it; a key has the only living render.  *)
KeyInv ==
  \A t \in Title :
    /\ t \notin Keyed => key[t] = Null
    /\ key[t] # Null => key[t] \in paid[t] /\ Live(t) \subseteq {key[t]}
    /\ t \in Keyed \ aged /\ key[t] = Null => paid[t] = {}

Alone ==
  \A c, d \in Call : call[c] # Null /\ call[d] # Null /\ T(c) = T(d) /\ T(c) \notin Keyed => c = d

Informed(c) ==
  /\ Is(c, "search") => Live(T(c)) \subseteq call[c].unseen \cup {key[T(c)]}
  /\ Is(c, "send") /\ key[T(c)] = Null => Live(T(c)) = {}
  /\ Is(c, "await") => call[c].id \in paid[T(c)]

IInv == TypeOK /\ OneLiveRender /\ KeyInv /\ Alone /\ \A c \in Call : Informed(c)

-----------------------------------------------------------------------------
Calls == Searching \cup Sending \cup Awaiting \cup {Null}

LEMMA AllRenders == TypeOK => All \subseteq Render
  BY DEF TypeOK, All

LEMMA CallShape ==
  ASSUME TypeOK, NEW c \in Call, call[c] # Null
  PROVE  /\ call[c] \in Searching \cup Sending \cup Awaiting
         /\ T(c) \in Title
         /\ Is(c, "search") \/ Is(c, "research") => call[c] \in Searching
         /\ Is(c, "await") => call[c].id \in Render
  <1>1. call[c] \in Searching \cup Sending \cup Awaiting
    BY DEF TypeOK
  <1>. QED
    BY <1>1 DEF Searching, Sending, Awaiting, T, Is

LEMMA BecomeTyped ==
  ASSUME TypeOK, NEW c \in Call, NEW r \in Calls, Become(c, r)
  PROVE  call' \in [Call -> Calls]
  BY DEF TypeOK, Become, Calls

LEMMA SearchTyped ==
  ASSUME TypeOK, NEW t \in Title, NEW step \in {"search", "research"}
  PROVE  Search(step, t) \in Searching
  BY AllRenders, SubmissionAssumption DEF Search, Searching

LEMMA SendTyped == ASSUME NEW t \in Title PROVE Send(t) \in Sending
  BY DEF Send, Sending

LEMMA AfterTyped ==
  ASSUME TypeOK, NEW c \in Call, Is(c, "search") \/ Is(c, "research"), NEW shown, NEW state
  PROVE  After(c, shown, state) \in Calls
  <1>1. call[c] \in Searching /\ T(c) \in Title
    BY CallShape DEF Is
  <1>2. CASE state = "done" /\ Is(c, "search")
    BY <1>1, <1>2, SendTyped DEF After, Calls
  <1>3. CASE ~(state = "done" /\ Is(c, "search")) /\ state = "more" /\ call[c].page + 1 < MaxPages
    <2>1. [call[c] EXCEPT !.page = call[c].page + 1, !.unseen = call[c].unseen \ shown] \in Searching
      <3>1. call[c].page \in 0 .. MaxPages /\ call[c].unseen \subseteq Render
        BY <1>1 DEF Searching
      <3>2. call[c].page + 1 \in 0 .. MaxPages /\ call[c].unseen \ shown \in SUBSET Render
        BY <1>3, <3>1, SubmissionAssumption
      <3>. QED
        BY <1>1, <3>2 DEF Searching
    <2>. QED
      BY <2>1, <1>3 DEF After, Calls
  <1>. QED
    BY <1>2, <1>3 DEF After, Calls

LEMMA TypeInit == Init => TypeOK
  BY DEF Init, TypeOK

LEMMA TypeStep == TypeOK /\ [Next]_vars => TypeOK'
  <1> SUFFICES ASSUME TypeOK, [Next]_vars PROVE TypeOK'
    OBVIOUS
  <1> USE SubmissionAssumption DEF heygen
  <1>1. ASSUME NEW c \in Call, NEW t \in Title, Begin(c, t) PROVE TypeOK'
    <2>1. call' \in [Call -> Calls]
      BY <1>1, BecomeTyped, SearchTyped, SendTyped DEF Begin, Calls
    <2>. QED
      BY <1>1, <2>1 DEF Begin, TypeOK, Calls
  <1>2. ASSUME NEW c \in Call, NEW shown \in SUBSET Render, NEW more \in {"yes", "no", "omitted"},
               NEW token \in BOOLEAN, Page(c, shown, more, token)
        PROVE  TypeOK'
    <2>1. T(c) \in Title
      BY <1>2, CallShape DEF Page, Is
    <2>2. ASSUME NEW r \in Usable(c, shown), Adopt(c, r) PROVE TypeOK'
      BY <1>2, <2>1, <2>2 DEF Page, Adopt, Usable, TypeOK
    <2>3. ASSUME Become(c, After(c, shown, PageState(more, token))), UNCHANGED answers PROVE TypeOK'
      <3>1. call' \in [Call -> Calls]
        BY <1>2, <2>3, AfterTyped, BecomeTyped DEF Page
      <3>. QED
        BY <1>2, <2>3, <3>1 DEF Page, TypeOK, Calls
    <2>. QED
      BY <1>2, <2>2, <2>3 DEF Page
  <1>3. ASSUME NEW c \in Call, NEW r \in Render, Buy(c, r) PROVE TypeOK'
    <2>1. T(c) \in Title
      BY <1>3, CallShape DEF Buy, Is
    <2>2. [step |-> "await", title |-> T(c), id |-> r] \in Awaiting
      BY <2>1 DEF Awaiting
    <2>3. call' \in [Call -> Calls]
      BY <1>3, <2>2, BecomeTyped DEF Buy, Calls
    <2>. QED
      BY <1>3, <2>1, <2>3 DEF Buy, TypeOK, Calls
  <1>4. ASSUME NEW c \in Call, Replay(c) PROVE TypeOK'
    <2>1. T(c) \in Title /\ key[T(c)] \in Render
      BY <1>4, CallShape DEF Replay, Buys, Is, TypeOK
    <2>2. [step |-> "await", title |-> T(c), id |-> key[T(c)]] \in Awaiting
      BY <2>1 DEF Awaiting
    <2>3. call' \in [Call -> Calls]
      BY <1>4, <2>2, BecomeTyped DEF Replay, Calls
    <2>. QED
      BY <1>4, <2>3 DEF Replay, TypeOK, Calls
  <1>5. ASSUME NEW c \in Call, Conflict(c) PROVE TypeOK'
    <2>1. T(c) \in Title
      BY <1>5, CallShape DEF Conflict, Is
    <2>2. call' \in [Call -> Calls]
      BY <1>5, <2>1, BecomeTyped, SearchTyped DEF Conflict, Calls
    <2>. QED
      BY <1>5, <2>2 DEF Conflict, TypeOK, Calls
  <1>6. ASSUME NEW c \in Call, Answered(c) PROVE TypeOK'
    <2>1. T(c) \in Title /\ call[c].id \in Render
      BY <1>6, CallShape DEF Answered, Is
    <2>. QED
      BY <1>6, <2>1 DEF Answered, Adopt, TypeOK
  <1>7. ASSUME NEW c \in Call, Lose(c) PROVE TypeOK'
    BY <1>7 DEF Lose, Become, TypeOK
  <1>8. ASSUME NEW t \in Title, Settle(t) PROVE TypeOK'
    BY <1>8 DEF Settle, TypeOK
  <1>9. ASSUME NEW t \in Title, Forget(t) PROVE TypeOK'
    BY <1>9 DEF Forget, TypeOK
  <1>10. ASSUME NEW r \in Render, FailRender(r) PROVE TypeOK'
    BY <1>10 DEF FailRender, TypeOK
  <1>11. CASE UNCHANGED vars
    BY <1>11 DEF vars, TypeOK
  <1>. QED
    BY <1>1, <1>2, <1>3, <1>4, <1>5, <1>6, <1>7, <1>8, <1>9, <1>10, <1>11 DEF Next

(* Calls, keys, renders and answers keep their types. *)
THEOREM SubmissionTyping == Spec => []TypeOK
  BY TypeInit, TypeStep, PTL DEF Spec

-----------------------------------------------------------------------------
LEMMA KnowledgeInit == Init => IInv
  BY TypeInit, SubmissionAssumption
     DEF Init, IInv, OneLiveRender, KeyInv, Alone, Informed, Live, Is, TypeOK

(* One call moves on, and nothing else happens. *)
LEMMA CallMoves ==
  ASSUME IInv, UNCHANGED <<paid, failed, key>>, NEW c \in Call, NEW r, Become(c, r),
         Informed(c)',
         r # Null => \A d \in Call \ {c} : call[d] # Null /\ T(d) = r.title => r.title \in Keyed
  PROVE  Alone' /\ \A d \in Call : Informed(d)'
  <1>1. call'[c] = r /\ \A d \in Call \ {c} : call'[d] = call[d]
    BY DEF Become, IInv, TypeOK
  <1>2. ASSUME NEW d \in Call \ {c} PROVE Informed(d)'
    BY <1>1 DEF IInv, Informed, Is, T, Live
  <1>3. Alone'
    BY <1>1 DEF IInv, Alone, T
  <1>. QED
    BY <1>2, <1>3

(* It is the same attempt, or the call is over. *)
LEMMA CallContinues ==
  ASSUME IInv, UNCHANGED <<paid, failed, key>>, NEW c \in Call, call[c] # Null, NEW r, Become(c, r),
         Informed(c)', r = Null \/ r.title = T(c)
  PROVE  Alone' /\ \A d \in Call : Informed(d)'
  <1>1. r # Null => \A d \in Call \ {c} : call[d] # Null /\ T(d) = r.title => r.title \in Keyed
    BY DEF IInv, Alone
  <1>. QED
    BY <1>1, CallMoves

LEMMA FreshSearch ==
  ASSUME NEW t \in Title, NEW step, TypeOK, UNCHANGED <<paid, failed, key>>, NEW c \in Call,
         Become(c, Search(step, t)), step \in {"search", "research"}
  PROVE  Informed(c)'
  <1>1. call'[c] = [step |-> step, title |-> t, page |-> 0, unseen |-> All]
    BY DEF Become, Search, TypeOK
  <1>2. paid[t] \subseteq All
    BY DEF All
  <1>. QED
    BY <1>1, <1>2 DEF Informed, Is, T, Live

LEMMA KnowledgeStep == IInv /\ [Next]_vars => IInv'
  <1> SUFFICES ASSUME IInv, [Next]_vars PROVE OneLiveRender' /\ KeyInv' /\ Alone' /\ \A c \in Call : Informed(c)'
    BY TypeStep DEF IInv
  <1> USE SubmissionAssumption
  <1>0. UNCHANGED <<paid, failed, key, aged>> => OneLiveRender' /\ KeyInv'
    BY DEF IInv, OneLiveRender, KeyInv, Live
  <1>1. ASSUME NEW c \in Call, NEW t \in Title, Begin(c, t)
        PROVE  OneLiveRender' /\ KeyInv' /\ Alone' /\ \A d \in Call : Informed(d)'
    <2>1. UNCHANGED <<paid, failed, key, aged>>
      BY <1>1 DEF Begin, heygen
    <2>2. \A d \in Call \ {c} : call[d] # Null /\ T(d) = t => t \in Keyed
      BY <1>1 DEF Begin, InFlight, T
    <2>3. CASE Protected(t)
      <3>1. Become(c, Send(t)) /\ Send(t).title = t
        BY <1>1, <2>3 DEF Begin, Send
      <3>2. call'[c] = [step |-> "send", title |-> t]
        BY <3>1 DEF Become, Send, IInv, TypeOK
      <3>3. Informed(c)'
        BY <3>2, <2>1, <2>3 DEF Protected, Informed, Is, T, Live, IInv, KeyInv
      <3>. QED
        BY <3>1, <3>3, <2>1, <2>2, <1>0, CallMoves
    <2>4. CASE ~Protected(t)
      <3>1. Become(c, Search("search", t)) /\ Search("search", t).title = t
        BY <1>1, <2>4 DEF Begin, Search
      <3>2. Informed(c)'
        BY <3>1, <2>1, FreshSearch DEF IInv
      <3>. QED
        BY <3>1, <3>2, <2>1, <2>2, <1>0, CallMoves
    <2>. QED
      BY <2>3, <2>4
  <1>2. ASSUME NEW c \in Call, NEW shown \in SUBSET Render, NEW more \in {"yes", "no", "omitted"},
               NEW token \in BOOLEAN, Page(c, shown, more, token)
        PROVE  OneLiveRender' /\ KeyInv' /\ Alone' /\ \A d \in Call : Informed(d)'
    <2>1. UNCHANGED <<paid, failed, key, aged>>
      BY <1>2 DEF Page, heygen
    <2>2. call[c] # Null /\ call[c] \in Searching
      BY <1>2, CallShape DEF Page, Is, IInv
    <2>3. ASSUME NEW r \in Usable(c, shown), Adopt(c, r)
          PROVE  Alone' /\ \A d \in Call : Informed(d)'
      <3>1. Become(c, Null)
        BY <2>3 DEF Adopt, Become
      <3>2. Informed(c)'
        BY <3>1 DEF Become, Informed, Is, IInv, TypeOK
      <3>. QED
        BY <3>1, <3>2, <2>1, <2>2, CallContinues
    <2>4. ASSUME Usable(c, shown) = {}, Become(c, After(c, shown, PageState(more, token)))
          PROVE  Alone' /\ \A d \in Call : Informed(d)'
      <3> DEFINE r == After(c, shown, PageState(more, token))
      <3>1. call'[c] = r
        BY <2>4 DEF Become, IInv, TypeOK
      <3>2. Live(T(c)) \cap shown = {}
        BY <2>4 DEF Usable, Live
      <3>3. CASE PageState(more, token) = "done" /\ Is(c, "search")
        <4>1. r = Send(T(c)) /\ r.title = T(c)
          BY <3>3 DEF After, Send
        <4>2. call[c].unseen \subseteq shown
          BY <3>3, <1>2 DEF PageState, Page
        <4>3. Live(T(c)) \subseteq {key[T(c)]}
          BY <4>2, <3>2, <3>3 DEF IInv, Informed
        <4>4. Live(T(c)) \subseteq Render
          BY CallShape, <2>2 DEF Live, IInv, TypeOK
        <4>5. Informed(c)'
          BY <3>1, <4>1, <4>3, <4>4, <2>1 DEF Informed, Is, T, Live, Send
        <4>. QED
          BY <4>1, <4>5, <2>1, <2>2, <2>4, CallContinues
      <3>4. CASE /\ ~(PageState(more, token) = "done" /\ Is(c, "search"))
                 /\ PageState(more, token) = "more" /\ call[c].page + 1 < MaxPages
        <4>1. r = [call[c] EXCEPT !.page = call[c].page + 1, !.unseen = call[c].unseen \ shown]
          BY <3>4 DEF After
        <4>2. r.step = call[c].step /\ r.title = T(c) /\ r.unseen = call[c].unseen \ shown
          BY <4>1, <2>2 DEF Searching, T
        <4>3. Is(c, "search") => Live(T(c)) \subseteq r.unseen \cup {key[T(c)]}
          BY <4>2, <3>2 DEF IInv, Informed
        <4>4. r.step \in {"search", "research"}
          BY <4>2, <2>2 DEF Searching
        <4>5. Informed(c)'
          BY <3>1, <4>2, <4>3, <4>4, <2>1, <2>2 DEF Informed, Is, T, Live
        <4>. QED
          BY <4>2, <4>5, <2>1, <2>2, <2>4, CallContinues
      <3>5. CASE r = Null
        <4>1. Informed(c)'
          BY <3>1, <3>5 DEF Informed, Is
        <4>. QED
          BY <4>1, <3>5, <2>1, <2>2, <2>4, CallContinues
      <3>. QED
        BY <3>3, <3>4, <3>5 DEF After
    <2>. QED
      BY <1>0, <1>2, <2>1, <2>3, <2>4 DEF Page
  <1>3. ASSUME NEW c \in Call, NEW r \in Render, Buy(c, r)
        PROVE  OneLiveRender' /\ KeyInv' /\ Alone' /\ \A d \in Call : Informed(d)'
    <2>1. PICK t \in Title : t = T(c) /\ call[c] # Null
      BY <1>3, CallShape DEF Buy, Is, IInv
    <2>2. key[t] = Null /\ Live(t) = {}
      BY <1>3, <2>1 DEF Buy, Buys, IInv, Informed, KeyInv
    <2>3. /\ paid'[t] = paid[t] \cup {r} /\ \A u \in Title \ {t} : paid'[u] = paid[u]
          /\ UNCHANGED <<failed, aged>>
          /\ key'[t] = (IF t \in Keyed THEN r ELSE Null)
          /\ \A u \in Title \ {t} : key'[u] = key[u]
      BY <1>3, <2>1, <2>2 DEF Buy, IInv, TypeOK
    <2>4. Live(t)' \subseteq {r} /\ \A u \in Title \ {t} : Live(u)' = Live(u)
      BY <2>2, <2>3 DEF Live
    <2>5. OneLiveRender'
      BY <2>4 DEF IInv, OneLiveRender, Live
    <2>6. KeyInv'
      BY <2>1, <2>3, <2>4 DEF IInv, KeyInv
    <2>7. call'[c] = [step |-> "await", title |-> t, id |-> r]
          /\ \A d \in Call \ {c} : call'[d] = call[d]
      BY <1>3, <2>1 DEF Buy, Become, IInv, TypeOK
    <2>8. Alone'
      BY <2>1, <2>7 DEF IInv, Alone, T
    <2>9. ASSUME NEW d \in Call PROVE Informed(d)'
      <3>1. CASE d = c
        BY <3>1, <2>1, <2>3, <2>7 DEF Informed, Is, T
      <3>2. CASE d # c /\ call[d] # Null /\ T(d) = t
        <4>1. t \in Keyed
          BY <3>2, <2>1 DEF IInv, Alone
        <4>2. key'[t] = r /\ r # Null
          BY <4>1, <2>3, SubmissionAssumption
        <4>3. call'[d] = call[d]
          BY <3>2, <2>7
        <4>. QED
          BY <3>2, <4>2, <4>3, <2>3, <2>4 DEF Informed, Is, T, IInv
      <3>3. CASE d # c /\ call[d] # Null /\ T(d) # t
        <4>1. T(d) \in Title /\ call'[d] = call[d]
          BY <3>3, <2>7, CallShape DEF IInv
        <4>2. Live(T(d))' = Live(T(d)) /\ key'[T(d)] = key[T(d)] /\ paid'[T(d)] = paid[T(d)]
          BY <3>3, <4>1, <2>3, <2>4 DEF Live, T
        <4>. QED
          BY <4>1, <4>2 DEF Informed, Is, T, IInv
      <3>4. CASE d # c /\ call[d] = Null
        BY <3>4, <2>7 DEF Informed, Is
      <3>. QED
        BY <3>1, <3>2, <3>3, <3>4
    <2>. QED
      BY <2>5, <2>6, <2>8, <2>9
  <1>4. ASSUME NEW c \in Call, Replay(c)
        PROVE  OneLiveRender' /\ KeyInv' /\ Alone' /\ \A d \in Call : Informed(d)'
    <2>1. UNCHANGED <<paid, failed, key, aged>>
      BY <1>4 DEF Replay, heygen
    <2>2. call[c] # Null /\ T(c) \in Title /\ key[T(c)] # Null
      BY <1>4, CallShape DEF Replay, Is, Buys, IInv
    <2> DEFINE r == [step |-> "await", title |-> T(c), id |-> key[T(c)]]
    <2>3. Become(c, r) /\ call'[c] = r /\ r.title = T(c)
      BY <1>4 DEF Replay, Become, IInv, TypeOK
    <2>4. Informed(c)'
      BY <2>1, <2>2, <2>3 DEF Informed, Is, T, IInv, KeyInv
    <2>. QED
      BY <1>0, <2>1, <2>2, <2>3, <2>4, CallContinues
  <1>5. ASSUME NEW c \in Call, Conflict(c)
        PROVE  OneLiveRender' /\ KeyInv' /\ Alone' /\ \A d \in Call : Informed(d)'
    <2>1. UNCHANGED <<paid, failed, key, aged>>
      BY <1>5 DEF Conflict, heygen
    <2>2. call[c] # Null /\ T(c) \in Title
      BY <1>5, CallShape DEF Conflict, Is, IInv
    <2>3. Become(c, Search("research", T(c))) /\ Search("research", T(c)).title = T(c)
      BY <1>5 DEF Conflict, Search
    <2>4. Informed(c)'
      BY <2>1, <2>2, <2>3, FreshSearch DEF IInv
    <2>. QED
      BY <1>0, <2>1, <2>2, <2>3, <2>4, CallContinues
  <1>6. ASSUME NEW c \in Call, Answered(c) \/ Lose(c)
        PROVE  OneLiveRender' /\ KeyInv' /\ Alone' /\ \A d \in Call : Informed(d)'
    <2>1. UNCHANGED <<paid, failed, key, aged>> /\ call[c] # Null /\ Become(c, Null)
      BY <1>6 DEF Answered, Lose, Adopt, Become, Is, heygen
    <2>2. Informed(c)'
      BY <2>1 DEF Become, Informed, Is, IInv, TypeOK
    <2>. QED
      BY <1>0, <2>1, <2>2, CallContinues
  <1>7. ASSUME NEW t \in Title, Settle(t)
        PROVE  OneLiveRender' /\ KeyInv' /\ Alone' /\ \A d \in Call : Informed(d)'
    BY <1>7 DEF Settle, IInv, OneLiveRender, KeyInv, Alone, Informed, Is, T, Live
  <1>8. ASSUME NEW t \in Title, Forget(t)
        PROVE  OneLiveRender' /\ KeyInv' /\ Alone' /\ \A d \in Call : Informed(d)'
    <2>1. /\ UNCHANGED <<paid, failed, call>> /\ aged' = aged \cup {t}
          /\ key'[t] = Null /\ \A u \in Title \ {t} : key'[u] = key[u]
      BY <1>8 DEF Forget, IInv, TypeOK
    <2>2. OneLiveRender' /\ Alone'
      BY <2>1 DEF IInv, OneLiveRender, Alone, T
    <2>3. KeyInv'
      BY <2>1 DEF IInv, KeyInv, Live
    <2>4. ASSUME NEW d \in Call PROVE Informed(d)'
      <3>1. CASE call[d] = Null
        BY <3>1, <2>1 DEF Informed, Is
      <3>2. CASE call[d] # Null
        <4>1. T(d) \in Title \ {t}
          BY <3>2, <1>8, CallShape DEF Forget, InFlight, T, IInv
        <4>. QED
          BY <4>1, <2>1 DEF Informed, Is, T, Live, IInv
      <3>. QED
        BY <3>1, <3>2
    <2>. QED
      BY <2>2, <2>3, <2>4
  <1>9. ASSUME NEW r \in Render, FailRender(r)
        PROVE  OneLiveRender' /\ KeyInv' /\ Alone' /\ \A d \in Call : Informed(d)'
    <2>1. UNCHANGED <<paid, key, aged, call>> /\ failed' = failed \cup {r}
      BY <1>9 DEF FailRender
    <2>2. \A t \in Title : Live(t)' \subseteq Live(t)
      BY <2>1 DEF Live
    <2>3. OneLiveRender' /\ KeyInv' /\ Alone'
      BY <2>1, <2>2 DEF IInv, OneLiveRender, KeyInv, Alone, T, Live
    <2>4. ASSUME NEW d \in Call PROVE Informed(d)'
      BY <2>1, <2>2, CallShape DEF Informed, Is, T, Live, IInv
    <2>. QED
      BY <2>3, <2>4
  <1>10. CASE UNCHANGED vars
    BY <1>10 DEF vars, IInv, OneLiveRender, KeyInv, Alone, Informed, Is, T, Live
  <1>. QED
    BY <1>1, <1>2, <1>3, <1>4, <1>5, <1>6, <1>7, <1>8, <1>9, <1>10 DEF Next

(* Whatever overlaps, is lost or is made again: an attempt never has two renders that
   did not fail.                                                                     *)
THEOREM NeverTwoLiveRenders == Spec => []OneLiveRender
  <1>1. IInv => OneLiveRender
    BY DEF IInv
  <1>. QED
    BY <1>1, KnowledgeInit, KnowledgeStep, PTL DEF Spec

-----------------------------------------------------------------------------
LEMMA MoneyStep == IInv /\ [Next]_vars => [Money!Next]_<<paid, failed, answers>>
  <1> SUFFICES ASSUME IInv, Next PROVE Money!Next \/ UNCHANGED <<paid, failed, answers>>
    BY DEF vars
  <1>1. ASSUME NEW c \in Call, NEW r, call[c] # Null, r \in paid[T(c)], r \in Render, Adopt(c, r),
               UNCHANGED <<paid, failed>>
        PROVE  Money!Next
    <2>1. T(c) \in Title
      BY <1>1, CallShape DEF IInv
    <2>2. Money!Answer(T(c), r)
      BY <1>1 DEF Adopt, Money!Answer
    <2>. QED
      BY <1>1, <2>1, <2>2 DEF Money!Next
  <1>2. ASSUME NEW c \in Call, NEW t \in Title, Begin(c, t) PROVE UNCHANGED <<paid, failed, answers>>
    BY <1>2 DEF Begin, heygen
  <1>3. ASSUME NEW c \in Call, NEW shown \in SUBSET Render, NEW more \in {"yes", "no", "omitted"},
               NEW token \in BOOLEAN, Page(c, shown, more, token)
        PROVE  Money!Next \/ UNCHANGED <<paid, failed, answers>>
    BY <1>1, <1>3 DEF Page, Usable, Is, heygen
  <1>4. ASSUME NEW c \in Call, NEW r \in Render, Buy(c, r) PROVE Money!Next
    <2>1. T(c) \in Title
      BY <1>4, CallShape DEF Buy, Is, IInv
    <2>2. Live(T(c)) = {}
      BY <1>4, <2>1 DEF Buy, Buys, IInv, Informed, KeyInv
    <2>3. \A u \in Title : r \notin paid[u]
      BY <1>4 DEF Buy, All
    <2>4. paid' = [paid EXCEPT ![T(c)] = paid[T(c)] \cup {r}] /\ UNCHANGED <<failed, answers>>
      BY <1>4 DEF Buy
    <2>5. Money!Pay(T(c), r)
      BY <2>2, <2>3, <2>4 DEF Live, Money!Pay
    <2>. QED
      BY <2>1, <2>5 DEF Money!Next
  <1>5. ASSUME NEW c \in Call, Replay(c) \/ Conflict(c) \/ Lose(c)
        PROVE  UNCHANGED <<paid, failed, answers>>
    BY <1>5 DEF Replay, Conflict, Lose, heygen
  <1>6. ASSUME NEW c \in Call, Answered(c) PROVE Money!Next
    <2>1. call[c].id \in Render /\ call[c].id \in paid[T(c)] /\ call[c] # Null
      BY <1>6, CallShape DEF Answered, IInv, Informed, Is
    <2>. QED
      BY <1>6, <2>1, <1>1 DEF Answered, heygen
  <1>7. ASSUME NEW t \in Title, Settle(t) \/ Forget(t) PROVE UNCHANGED <<paid, failed, answers>>
    BY <1>7 DEF Settle, Forget
  <1>8. ASSUME NEW r \in Render, FailRender(r) PROVE Money!Next
    <2>1. PICK t \in Title : r \in paid[t]
      BY <1>8 DEF FailRender, All
    <2>2. Money!Fail(t, r)
      BY <1>8, <2>1 DEF FailRender, Money!Fail
    <2>. QED
      BY <2>2 DEF Money!Next
  <1>. QED
    BY <1>2, <1>3, <1>4, <1>5, <1>6, <1>7, <1>8 DEF Next

(* The client's protocol implements PaidRender: an attempt is paid for again only when
   all it paid for has failed, and answers are renders of their own attempt.          *)
THEOREM SubmissionPaysOnce == Spec => PaidOnce
  <1>1. Init => Money!Init
    BY DEF Init, Money!Init
  <1>. QED
    BY <1>1, KnowledgeInit, KnowledgeStep, MoneyStep, PTL DEF Spec, PaidOnce, Money!Spec
-----------------------------------------------------------------------------
(* What the proofs of the parts speak of is what is composed here: one lemma per part. *)
VP == INSTANCE VideoRendersProofs
SP == INSTANCE ScriptPipelineProofs WITH
  File <- ScriptFile, files <- drive, spent <- used, req <- scriptReq

LEMMA VideosAsProved ==
  /\ Videos!Init <=> VP!Init
  /\ [Videos!Next]_(Videos!vars) <=> [VP!Next]_(VP!vars)
  /\ RowTellsTheTruth <=> VP!RowTellsTheTruth
  /\ OneApproved <=> VP!OneApproved
  BY DEF RowTellsTheTruth, OneApproved, Videos!RowTellsTheTruth, VP!RowTellsTheTruth,
         Videos!OneApproved, VP!OneApproved,
         Videos!Source, VP!Source, Videos!Settled, VP!Settled, Videos!vars, VP!vars,
         Videos!drive, VP!drive, Videos!past, VP!past, Videos!Row, VP!Row, Videos!NewRow,
         VP!NewRow, Videos!At, VP!At, Videos!Go, VP!Go, Videos!Return, VP!Return, Videos!V,
         VP!V, Videos!Held, VP!Held, Videos!Update, VP!Update, Videos!Fresh, VP!Fresh,
         Videos!Upload, VP!Upload, Videos!Init, VP!Init, Videos!Buy, VP!Buy, Videos!Record,
         VP!Record, Videos!JobEnds, VP!JobEnds, Videos!AddReady, VP!AddReady,
         Videos!AddStock, VP!AddStock, Videos!Import, VP!Import, Videos!Told, VP!Told,
         Videos!StartBackground, VP!StartBackground, Videos!BackgroundUpload,
         VP!BackgroundUpload, Videos!EndBackground, VP!EndBackground, Videos!BackgroundDone,
         VP!BackgroundDone, Videos!BackgroundFails, VP!BackgroundFails, Videos!NeedsCopy,
         VP!NeedsCopy, Videos!Poll, VP!Poll, Videos!Ask, VP!Ask, Videos!GiveUp, VP!GiveUp,
         Videos!Answer, VP!Answer, Videos!Copy, VP!Copy, Videos!FileCopy, VP!FileCopy,
         Videos!HasBytes, VP!HasBytes, Videos!Shelve, VP!Shelve, Videos!ShelveUpload,
         VP!ShelveUpload, Videos!ShelveRecord, VP!ShelveRecord, Videos!Tag, VP!Tag,
         Videos!TagRecord, VP!TagRecord, Videos!Approving, VP!Approving, Videos!Approvable,
         VP!Approvable, Videos!Approve, VP!Approve, Videos!Rivals, VP!Rivals, Videos!Clear,
         VP!Clear, Videos!SetApproved, VP!SetApproved, Videos!Discard, VP!Discard,
         Videos!DeleteCopy, VP!DeleteCopy, Videos!Drop, VP!Drop, Videos!Restart, VP!Restart,
         Videos!Finish, VP!Finish, Videos!Next, VP!Next, Videos!Approved, VP!Approved

LEMMA ScriptAsProved ==
  /\ Script!Init <=> SP!Init
  /\ [Script!Next]_(Script!vars) <=> [SP!Next]_(SP!vars)
  /\ StageIsEarned <=> SP!StageIsEarned
  /\ AssetsAreBacked <=> SP!AssetsAreBacked
  BY DEF StageIsEarned, AssetsAreBacked, Script!StageIsEarned, SP!StageIsEarned,
         Script!AssetsAreBacked, SP!AssetsAreBacked,
         Script!Version, SP!Version, Script!Stage, SP!Stage, Script!vars, SP!vars,
         Script!drive, SP!drive, Script!Row, SP!Row, Script!At, SP!At, Script!Held, SP!Held,
         Script!Go, SP!Go, Script!Return, SP!Return, Script!Start, SP!Start, Script!Update,
         SP!Update, Script!Store, SP!Store, Script!Insert, SP!Insert, Script!Record, SP!Record,
         Script!Init, SP!Init, Script!Edit, SP!Edit, Script!EditWrite, SP!EditWrite,
         Script!Accept, SP!Accept, Script!AcceptWrite, SP!AcceptWrite, Script!Direct,
         SP!Direct, Script!DirectWrite, SP!DirectWrite, Script!Speak, SP!Speak,
         Script!SpeakStore, SP!SpeakStore, Script!SpeakRecord, SP!SpeakRecord,
         Script!SpeakPoint, SP!SpeakPoint, Script!Upload, SP!Upload, Script!UploadStore,
         SP!UploadStore, Script!UploadRecord, SP!UploadRecord, Script!UploadAdvance,
         SP!UploadAdvance, Script!Attach, SP!Attach, Script!Remove, SP!Remove,
         Script!RemoveFile, SP!RemoveFile, Script!RemoveRow, SP!RemoveRow, Script!Chosen,
         SP!Chosen, Script!Host, SP!Host, Script!Servable, SP!Servable, Script!HostTake,
         SP!HostTake, Script!HostSynthesize, SP!HostSynthesize, Script!HostRecord,
         SP!HostRecord, Script!Buy, SP!Buy, Script!Post, SP!Post, Script!Die, SP!Die,
         Script!Next, SP!Next

(* A step of the composition is a step of one part; the others stand still. *)
LEMMA PartsStep ==
  [RendersNext]_rendersVars =>
    /\ [Next]_vars /\ [Videos!Next]_(Videos!vars) /\ [Script!Next]_(Script!vars)
  <1>1. /\ Videos!vars = videosVars
        /\ Script!vars = scriptVars
    BY DEF Videos!vars, videosVars, Script!vars, scriptVars
  <1>. QED
    BY <1>1 DEF RendersNext, rendersVars, videosVars, scriptVars, vars, Videos!vars, Script!vars

LEMMA PartsBehave == RendersSpec => Spec /\ VP!Spec /\ SP!Spec
  <1>1. RendersInit => Init /\ Videos!Init /\ Script!Init
    BY DEF RendersInit
  <1>. QED
    BY <1>1, PartsStep, VideosAsProved, ScriptAsProved, PTL DEF RendersSpec, Spec, VP!Spec, SP!Spec

(* An attempt never has two renders that did not fail, beside whatever else runs. *)
THEOREM SubmissionsStandAlone == RendersSpec => []OneLiveRender /\ PaidOnce
  BY PartsBehave, NeverTwoLiveRenders, SubmissionPaysOnce, PTL

(* A row of the videos table says of its render only what happened. *)
THEOREM RowsNeverLie == ASSUME MaxRestarts \in Nat PROVE RendersSpec => []RowTellsTheTruth
  BY PartsBehave, VideosAsProved, VP!RowsNeverLie, PTL

(* A production keeps one approved render per source as long as no two approvals overlap. *)
THEOREM OneApprovalStands == ASSUME MaxRestarts \in Nat PROVE RendersSpec => []OneApproved
  BY PartsBehave, VideosAsProved, VP!OneApprovalStands, PTL

(* No row is left saying "processing" with nobody to change it, but by a restart. *)
THEOREM ProcessingRowsAreTended ==
  ASSUME MaxRestarts \in Nat PROVE RendersSpec => []VP!StillTended
  BY PartsBehave, VP!ProcessingRowsAreTended, PTL

(* The row stands at a stage the production reached by doing the work. *)
THEOREM StagesAreEarned == ASSUME Library \subseteq ScriptFile PROVE RendersSpec => []StageIsEarned
  BY PartsBehave, ScriptAsProved, SP!StagesAreEarned, PTL

(* Takes and uploads stay backed until somebody removes them. *)
THEOREM AssetsStayBacked ==
  ASSUME Null \notin ScriptFile, Library \subseteq ScriptFile
  PROVE  RendersSpec => []AssetsAreBacked
  BY PartsBehave, ScriptAsProved, SP!AssetsStayBacked, PTL

(* An accepted text stays as it was accepted as long as requests are served in turn. *)
THEOREM AcceptedTextStands ==
  ASSUME Library \subseteq ScriptFile PROVE RendersSpec => AcceptedStands
  <1>1. [prod.accepted /\ ~disturbed' => prod'.accepted /\ prod'.text = prod.text]_(SP!vars) =>
        [prod.accepted /\ ~disturbed' => prod'.accepted /\ prod'.text = prod.text]_(Script!vars)
    BY DEF SP!vars, Script!vars
  <1>. QED
    BY <1>1, PartsBehave, SP!AcceptedTextStands, PTL
       DEF AcceptedStands, Script!AcceptedStands, SP!AcceptedStands
=============================================================================
