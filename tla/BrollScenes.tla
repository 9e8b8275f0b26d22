----------------------------- MODULE BrollScenes -----------------------------
(* The scenes of a production (routes/atelier_broll.ts): one JSON document in
   productions.broll_scenes, and beside it the library of approved takes.  Every
   route reads the production, changes its copy and writes the whole document back;
   a render also enqueues a job per provider before it writes.

   Nothing ever writes a take's status or driveId, so a take is its id here.       *)
EXTENDS FiniteSets

CONSTANTS
  Scene, Take,  \* ids; a take's id stands for its job's too
  Provider,
  Request,      \* requests that can be in flight at once
  Null

VARIABLES
  scenes,       \* productions.broll_scenes
  library,      \* productions.broll_library: the takes pushed
  jobs,         \* takes whose job is in the queue
  req,          \* a request in flight: the document it will write, or Null
  dropped,      \* history: takes some request removed
  stale,        \* history: requests in flight whose read was overtaken by a write
  overwrote,    \* history: such a request wrote its document back
  orphaned      \* history: takes that only a request that died knew of

vars == <<scenes, library, jobs, req, dropped, stale, overwrote, orphaned>>

SceneRow == [providers : SUBSET Provider, takes : SUBSET Take, approved : SUBSET Take]
Document == UNION {[S -> SceneRow] : S \in SUBSET Scene}

TypeOK ==
  /\ scenes \in Document
  /\ library \subseteq Take /\ jobs \subseteq Take
  /\ dropped \subseteq Take /\ orphaned \subseteq Take
  /\ stale \subseteq Request /\ overwrote \in BOOLEAN

With(d, s, row) == [x \in DOMAIN d \cup {s} |-> IF x = s THEN row ELSE d[x]]
Without(d, s)   == [x \in DOMAIN d \ {s} |-> d[x]]
TakesOf(d)      == UNION {d[s].takes : s \in DOMAIN d}
Approved(d)     == UNION {d[s].approved : s \in DOMAIN d}

Init ==
  /\ scenes = [s \in {} |-> Null] /\ library = {} /\ jobs = {}
  /\ req = [q \in Request |-> Null] /\ dropped = {}
  /\ stale = {} /\ overwrote = FALSE /\ orphaned = {}

(* A request has read the production; it holds the document it will write, the library
   it will write (only an approval does), the scene it renders with the providers still
   to be enqueued, and the takes it removes.                                           *)
Read(q, document, lib, scene, todo, removes) ==
  /\ req[q] = Null
  /\ req' = [req EXCEPT ![q] = [document |-> document, library |-> lib, scene |-> scene,
                                todo |-> todo, removes |-> removes]]
  /\ UNCHANGED <<scenes, library, jobs, dropped, stale, overwrote, orphaned>>

AddScene(q, s, providers) ==
  /\ s \notin DOMAIN scenes
  /\ Read(q, With(scenes, s, [providers |-> providers, takes |-> {}, approved |-> {}]),
          Null, Null, {}, {})

PatchScene(q, s, providers) ==
  /\ s \in DOMAIN scenes
  /\ Read(q, [scenes EXCEPT ![s].providers = providers], Null, Null, {}, {})

DeleteScene(q, s) ==
  Read(q, Without(scenes, s), Null, Null, {}, IF s \in DOMAIN scenes THEN scenes[s].takes ELSE {})

DiscardTakeOnly(q, t) ==
  Read(q, [s \in DOMAIN scenes |-> [scenes[s] EXCEPT !.takes = @ \ {t}]], Null, Null, {}, {t})
DiscardTake(q, t) ==
  Read(q, [s \in DOMAIN scenes |->
             [scenes[s] EXCEPT !.takes = @ \ {t}, !.approved = @ \ {t}]], Null, Null, {}, {t})

ApproveTake(q, t) ==
  /\ t \in TakesOf(scenes)
  /\ Read(q, [s \in DOMAIN scenes |->
               [scenes[s] EXCEPT !.approved = IF t \in scenes[s].takes THEN @ \cup {t} ELSE @]],
          library \cup {t}, Null, {}, {})

(* .../render: no idempotency key, so every call enqueues every provider again. *)
RenderScene(q, s) ==
  /\ s \in DOMAIN scenes
  /\ Read(q, scenes, Null, s, scenes[s].providers, {})

Enqueue(q, t) ==
  /\ req[q] # Null /\ req[q].todo # {} /\ t \notin jobs
  /\ jobs' = jobs \cup {t}
  /\ LET held == req[q]
         row  == held.document[held.scene]
     IN  \E p \in held.todo :
           req' = [req EXCEPT ![q] =
             [held EXCEPT !.todo = held.todo \ {p},
                          !.document = With(held.document, held.scene,
                                            [row EXCEPT !.takes = row.takes \cup {t}])]]
  /\ UNCHANGED <<scenes, library, dropped, stale, overwrote, orphaned>>

(* The last statement of every route: it overtakes whatever else is in flight. *)
WriteScenesOnly(q) ==
  /\ req[q] # Null /\ req[q].todo = {}
  /\ scenes' = req[q].document
  /\ dropped' = dropped \cup req[q].removes
  /\ req' = [req EXCEPT ![q] = Null]
  /\ overwrote' = (overwrote \/ q \in stale)
  /\ stale' = {o \in Request \ {q} : req[o] # Null}
  /\ UNCHANGED <<library, jobs, orphaned>>
Write(q) ==
  /\ req[q] # Null /\ req[q].todo = {}
  /\ scenes' = req[q].document
  /\ library' = IF req[q].library = Null THEN library ELSE req[q].library
  /\ dropped' = dropped \cup req[q].removes
  /\ req' = [req EXCEPT ![q] = Null]
  /\ overwrote' = (overwrote \/ q \in stale)
  /\ stale' = {o \in Request \ {q} : req[o] # Null}
  /\ UNCHANGED <<jobs, orphaned>>

(* The gateway dies, or a statement fails: the request ends where it is, and the jobs it
   has enqueued stay in the queue without a take.                                      *)
Die(q) ==
  /\ req[q] # Null /\ req' = [req EXCEPT ![q] = Null]
  /\ orphaned' = orphaned \cup (TakesOf(req[q].document) \ TakesOf(scenes))
  /\ stale' = stale \ {q}
  /\ UNCHANGED <<scenes, library, jobs, dropped, overwrote>>

Next == \E q \in Request :
  \/ \E s \in Scene :
       \/ \E providers \in SUBSET Provider : AddScene(q, s, providers) \/ PatchScene(q, s, providers)
       \/ DeleteScene(q, s) \/ RenderScene(q, s)
  \/ \E t \in Take : DiscardTake(q, t) \/ ApproveTake(q, t) \/ Enqueue(q, t)
  \/ Write(q) \/ Die(q)

Spec == Init /\ [][Next]_vars

-----------------------------------------------------------------------------
(* Whatever requests overlap or die, the document names no take that has no job in the
   queue, and no scene has approved a take it does not have.                          *)
TakesAreReal ==
  \A s \in DOMAIN scenes : scenes[s].approved \subseteq scenes[s].takes
                           /\ scenes[s].takes \subseteq jobs

(* Requests overlap and die as they like.  Until one of them writes back a document that
   another write has overtaken since it was read, every job that was paid for is a take of
   some scene, or still held by the request that enqueued it, unless somebody removed it
   or that request died; and the library holds exactly the approved takes, but for those
   removed after they were approved.                                                     *)
OnlyOverwritesLose ==
  ~overwrote =>
    /\ \A t \in jobs : \/ t \in TakesOf(scenes) \cup dropped \cup orphaned
                       \/ \E q \in Request : req[q] # Null /\ t \in TakesOf(req[q].document)
    /\ Approved(scenes) \subseteq library
    /\ library \subseteq Approved(scenes) \cup dropped

(* The download lists "Drive URLs for approved clips" (atelier_broll.ts:167), which is
   the library: at least as long as no write overtook another, a take in it is one that
   some scene approves.                                                                  *)
LibraryIsApproved == ~overwrote => library \subseteq Approved(scenes)
=============================================================================
