------------------------------- MODULE WordArt -------------------------------
(* The word art pipeline (packages/wordart): a transcript is scored, perhaps with hints
   of a language model (wordArt.plan.ts, wordArt.annotate.ts), or a plan is proposed
   from outside; Gate 2 validates the events and the plan (wordArt.validate.ts); each
   event that passed is compiled into a render request with concrete motion parameters
   and rendered to a synthetic result (wordArt.compile.ts).

   Scores and weights are in hundredths, times in one unit.  A text is what the scorer
   looks at: a keyword, an exclamation mark, few words.  The id of a request is the id of
   its event (rr_<event>), whatever it is compiled for.                              *)
EXTENDS Integers, Sequences, FiniteSetsExt, Functions

CONSTANTS
  Transcripts,      \* sequences of segments [start, duration, keyword, loud, short]
  Hints,            \* annotations [hint, confidence] of a segment
  Proposals,        \* plans from outside: [events, order]
  Threshold,        \* heroScoreThreshold
  MinConfidence,    \* minAnnotationConfidence
  Weight,           \* annotationWeight
  MinReadable, MinSpacing,
  Profiles,         \* motion profiles: parameter -> [in, out], each <<from, to>>
  Targets,          \* provider, mode and configVersion to compile for
  Placings,         \* output format and text box
  Null

Segment == [start : Int, duration : Int, keyword : BOOLEAN, loud : BOOLEAN, short : BOOLEAN]
Plain   == [start : Int, duration : Int, score : Int, cinematic : BOOLEAN]

(* The types of the configuration and of what comes from outside; nothing else is asked of
   them, neither an order nor a range.                                                *)
ConstantsTyped ==
  /\ Transcripts \subseteq Seq(Segment)
  /\ Hints \subseteq [hint : Int, confidence : Int]
  /\ \A p \in Proposals : /\ p.order \in Seq(Nat)
                          /\ \A i \in DOMAIN p.events : p.events[i] \in Plain
  /\ {Threshold, MinConfidence, Weight, MinReadable, MinSpacing} \subseteq Int
  /\ \A curves \in Profiles : \A key \in DOMAIN curves :
       curves[key].in \in Int \X Int /\ curves[key].out \in Int \X Int

VARIABLES
  transcript, notes,    \* notes: segment -> annotation or Null
  events,               \* WordArtEvents, a function of their ids
  order,                \* plan.events
  status,               \* plan.status
  requests, results

vars == <<transcript, notes, events, order, status, requests, results>>

Init ==
  /\ transcript \in Transcripts /\ notes = [i \in DOMAIN transcript |-> Null]
  /\ events = <<>> /\ order = <<>> /\ status = "none" /\ requests = {} /\ results = {}

-----------------------------------------------------------------------------
(* scoreSegment *)
HeuristicScore(s) ==
  (IF s.keyword THEN 50 ELSE 0) + (IF s.loud THEN 20 ELSE 0) + (IF s.short THEN 30 ELSE 0)

(* foldAnnotationScore: hints that are not confident enough count for nothing. *)
Clamp(n, low, high) == Max({low, Min({n, high})})
Blend(score, hint)  ==
  LET weight == Clamp(Weight, 0, 100)
  IN  Clamp((weight * Clamp(hint, 0, 100) + (100 - weight) * score) \div 100, 0, 100)

HeroScoreOfAnyNote(i) ==
  LET score == HeuristicScore(transcript[i])
  IN  IF notes[i] = Null THEN score ELSE Blend(score, notes[i].hint)
HeroScore(i) ==
  LET score == HeuristicScore(transcript[i])
  IN  IF notes[i] = Null THEN score
      ELSE IF notes[i].confidence < MinConfidence THEN score
      ELSE Blend(score, notes[i].hint)

(* The hints of a note are used only when they moved the score. *)
NoteUsed(i) == /\ notes[i] # Null /\ notes[i].confidence >= MinConfidence
               /\ HeroScore(i) # HeuristicScore(transcript[i])

Event(i) == [start |-> transcript[i].start, duration |-> transcript[i].duration,
             score |-> HeroScore(i), cinematic |-> TRUE, evidence |-> NoteUsed(i)]

-----------------------------------------------------------------------------
(* Something annotates a segment before the plan is built. *)
Annotate(i, note) ==
  /\ status = "none" /\ notes[i] = Null /\ notes' = [notes EXCEPT ![i] = note]
  /\ UNCHANGED <<transcript, events, order, status, requests, results>>

(* buildWordArtPlanFromSegments: the segments that reach the threshold, in their order. *)
Heroes  == {i \in DOMAIN transcript : HeroScore(i) >= Threshold}
Nth(n)  == CHOOSE i \in Heroes : Cardinality({j \in Heroes : j <= i}) = n
Build ==
  /\ status = "none" /\ status' = "proposed"
  /\ order' = [n \in 1 .. Cardinality(Heroes) |-> Nth(n)]
  /\ events' = [i \in Heroes |-> Event(i)]
  /\ UNCHANGED <<transcript, notes, requests, results>>

(* A plan composed elsewhere: any events, any order of ids, repeated or unknown ones too. *)
Propose(p) ==
  /\ status = "none" /\ status' = "proposed"
  /\ order' = p.order /\ events' = p.events
  /\ UNCHANGED <<transcript, notes, requests, results>>

(* validateWordArtEvent *)
EventValid(e) == /\ e.start >= 0 /\ e.duration > 0 /\ e.duration >= MinReadable
                 /\ e.score \in 0 .. 100

(* validateWordArtPlan: each event is compared with the one before it only, and each
   cinematic one with the cinematic one before it.                                *)
End(e) == e.start + e.duration
GapFromStart(a, b) == b.start - a.start
Gap(a, b) == b.start - End(a)
Resolved(n)   == events[order[n]]
Cinematic     == {n \in DOMAIN order : Resolved(n).cinematic}
Follows(m, n, places) == m < n /\ \A k \in places : k <= m \/ n <= k
PlanValid ==
  /\ \A n \in DOMAIN order : order[n] \in DOMAIN events
  /\ \A m, n \in DOMAIN order :
       Follows(m, n, DOMAIN order) => Gap(Resolved(m), Resolved(n)) >= 0
  /\ \A m, n \in Cinematic :
       Follows(m, n, Cinematic) => Gap(Resolved(m), Resolved(n)) >= MinSpacing

(* Gate 2 over every event and the plan. *)
Review ==
  /\ status = "proposed"
  /\ status' = IF (\A i \in DOMAIN events : EventValid(events[i])) /\ PlanValid
                 THEN "validated" ELSE "failed"
  /\ UNCHANGED <<transcript, notes, events, order, requests, results>>

(* evaluateCurve: the input clamped to the curve's domain, either way round. *)
Low(pair)  == Min({pair[1], pair[2]})
High(pair) == Max({pair[1], pair[2]})
Lerp(curve, t) ==
  LET span == curve.in[2] - curve.in[1]
      gain == (t - curve.in[1]) * (curve.out[2] - curve.out[1])
  IN  IF span = 0 THEN curve.out[1]
      ELSE curve.out[1] + (IF span > 0 THEN gain \div span ELSE (-gain) \div (-span))
Evaluate(curve, t) == Lerp(curve, Clamp(t, Low(curve.in), High(curve.in)))

(* computeMotionParameters *)
Motion(e, curves) == [key \in DOMAIN curves |-> Evaluate(curves[key], e.score)]

(* compileWordArtRenderRequest: its caller chooses the target, the placing and the motion
   profile; the last two are not part of the idempotency key.                           *)
Compile(i, target, placing, curves) ==
  /\ status \in {"validated", "rendering"} /\ i \in Range(order) /\ status' = "rendering"
  /\ requests' = requests \cup
       {[event |-> i, target |-> target, placing |-> placing, start |-> events[i].start,
         duration |-> events[i].duration, motion |-> Motion(events[i], curves),
         idempotencyKey |-> <<i, target>>]}
  /\ UNCHANGED <<transcript, notes, events, order, results>>

(* buildSyntheticWordArtRenderResult: the checksum is a function of the request. *)
Render(request) ==
  /\ results' = results \cup
       {[request |-> request.event, status |-> "done", checksum |-> request]}
  /\ UNCHANGED <<transcript, notes, events, order, status, requests>>

Next ==
  \/ \E i \in DOMAIN transcript, note \in Hints : Annotate(i, note)
  \/ Build \/ Review
  \/ \E p \in Proposals : Propose(p)
  \/ \E i \in DOMAIN events, target \in Targets, placing \in Placings, curves \in Profiles :
       Compile(i, target, placing, curves)
  \/ \E request \in requests : Render(request)

Spec == Init /\ [][Next]_vars

-----------------------------------------------------------------------------
(* In a plan that passed Gate 2 no two events overlap, adjacent or not, no event occurs
   twice, and no two cinematic ones are closer than the minimum spacing.             *)
PlacedApart ==
  status \in {"validated", "rendering"} =>
    \A m, n \in DOMAIN order : m < n =>
      LET a == events[order[m]]  b == events[order[n]]
      IN  /\ a.start + a.duration <= b.start
          /\ a.cinematic /\ b.cinematic => b.start - (a.start + a.duration) >= MinSpacing

(* A hint of a language model is evidence and nothing more: an event carries it only when
   it was confident, a segment without a confident hint is an event by its own score, and
   a hint below the threshold never lifts a segment that is below it too.  What is sent
   to a renderer stays within a motion profile, however its curves run.              *)
EvidenceOnlyBlends ==
  /\ \A i \in DOMAIN events : "evidence" \in DOMAIN events[i] =>
       LET confident == notes[i] # Null /\ notes[i].confidence >= MinConfidence
       IN  /\ events[i].evidence => confident
           /\ HeuristicScore(transcript[i]) >= Threshold \/ (confident /\ notes[i].hint >= Threshold)
  /\ \A r \in requests : \E curves \in Profiles : \A key \in DOMAIN curves :
       r.motion[key] \in Low(curves[key].out) .. High(curves[key].out)
=============================================================================
