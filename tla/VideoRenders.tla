---------------------------- MODULE VideoRenders ----------------------------
(* The videos table of the gateway: how a render is bought, polled, copied to
   Drive, shelved in the b-roll library, approved and discarded (server.ts).

   A HeyGen or Higgsfield render runs at its provider and GET /heygen/videos/:id
   copies what the provider says into the row.  A custom or final render runs in
   the gateway itself, in no queue: a restart kills it.  Stock and imported clips
   are rows that are complete from the start.

   One action is one SQL statement or one call of a provider or of Drive; a
   request is in `req` between its statements with what it read.  A request that
   is refused before it changes anything leaves no trace and is not a step.      *)
EXTENDS Naturals, FiniteSets

CONSTANTS
  Video,        \* ids of the rows
  Production,   \* productions
  Request,      \* requests that can be in flight at once
  File,         \* Drive file ids
  Polled,       \* sources a poll asks about or copies: heygen, higgsfield, imports
  Background,   \* sources rendered inside the gateway: custom, final
  Ready,        \* the source a poll leaves alone: stock
  MaxRestarts,  \* bound: restarts of the gateway
  Null

Source     == Polled \cup Background \cup Ready
Settled    == {"completed", "failed"}

VARIABLES
  rows,        \* the videos table, Null where there is no row
  job,         \* the truth about a render: what its provider or renderer did
  rendering,   \* background renders alive in this gateway: the file uploaded, or Null
  req,         \* a request in flight, or Null
  files,       \* the files in Drive
  spent,       \* history: every file that was ever in Drive
  killed,      \* history: renders a restart killed
  raced,       \* history: two approvals were in flight together
  restarts

vars == <<rows, job, rendering, req, files, spent, killed, raced, restarts>>
drive == <<files, spent>>
past  == <<killed, raced, restarts>>

Row == [source : Source, production : Production \cup {Null}, url : BOOLEAN,
        status : {"processing"} \cup Settled, file : File \cup {Null},
        approved : BOOLEAN, shelved : BOOLEAN]

Steps == {"insert", "ask", "answer", "copy", "file", "clear", "set", "delete", "drop",
          "shelve", "stock", "tag"}

TypeOK ==
  /\ rows \in [Video -> Row \cup {Null}]
  /\ job \in [Video -> {"none", "running"} \cup Settled]
  /\ DOMAIN rendering \subseteq Video
  /\ \A q \in Request : req[q] # Null => req[q].step \in Steps /\ req[q].video \in Video
  /\ files \subseteq spent /\ spent \subseteq File
  /\ killed \subseteq Video /\ raced \in BOOLEAN /\ restarts \in 0 .. MaxRestarts

-----------------------------------------------------------------------------
NewRow(source, production, status) ==
  [source |-> source, production |-> production, status |-> status,
   url |-> status = "completed", file |-> Null, approved |-> FALSE, shelved |-> FALSE]

(* A request between two statements: what it will do next, and what it holds. *)
At(q, step)         == req[q] # Null /\ req[q].step = step
Go(q, step, v, held) == req' = [req EXCEPT ![q] = [step |-> step, video |-> v, held |-> held]]
Return(q)           == req' = [req EXCEPT ![q] = Null]
V(q)                == req[q].video
Held(q)             == req[q].held

(* UPDATE videos SET ... WHERE id = v: nothing when the row is gone. *)
Update(v, new) == rows' = [rows EXCEPT ![v] = IF @ = Null THEN Null ELSE new]

Fresh(f)  == f \in File \ spent
Upload(f) == Fresh(f) /\ files' = files \cup {f} /\ spent' = spent \cup {f}

Init ==
  /\ rows = [v \in Video |-> Null] /\ job = [v \in Video |-> "none"]
  /\ rendering = [v \in {} |-> Null] /\ req = [q \in Request |-> Null]
  /\ files = {} /\ spent = {} /\ killed = {} /\ raced = FALSE /\ restarts = 0

-----------------------------------------------------------------------------
(* POST /heygen/videos, .../generate, .../aroll, .../higgsfield: the paid call,
   then the row.                                                               *)
Buy(q, v, source, p) ==
  /\ req[q] = Null /\ job[v] = "none" /\ source \in Polled
  /\ job' = [job EXCEPT ![v] = "running"]
  /\ Go(q, "insert", v, <<source, p>>)
  /\ UNCHANGED <<rows, rendering, drive, past>>

Record(q) ==
  /\ At(q, "insert")
  /\ rows' = [rows EXCEPT ![V(q)] = NewRow(Held(q)[1], Held(q)[2], "processing")]
  /\ Return(q)
  /\ UNCHANGED <<job, rendering, drive, past>>

(* The provider ends the render. *)
JobEnds(v, outcome) ==
  /\ job[v] = "running" /\ v \notin DOMAIN rendering
  /\ v \notin killed
  /\ job' = [job EXCEPT ![v] = outcome]
  /\ UNCHANGED <<rows, rendering, req, drive, past>>

(* A clip that needs no render: its row is complete from the start. *)
AddReady(v, source, p) ==
  /\ job[v] = "none"
  /\ job' = [job EXCEPT ![v] = "completed"]
  /\ rows' = [rows EXCEPT ![v] = NewRow(source, p, "completed")]
  /\ UNCHANGED <<rendering, req, drive, past>>

(* POST .../broll inserts the clips that were found, one row at a time; POST
   .../import-clip inserts one, of whatever source the request names.           *)
AddStock(v, source, p) == source \in Ready /\ AddReady(v, source, p)
Import(v, source, p)   == AddReady(v, source, p)

-----------------------------------------------------------------------------
(* POST .../compose and .../assemble insert the row and leave the render running. *)
StartBackground(v, source, p) ==
  /\ job[v] = "none" /\ source \in Background
  /\ job' = [job EXCEPT ![v] = "running"]
  /\ rows' = [rows EXCEPT ![v] = NewRow(source, p, "processing")]
  /\ rendering' = [w \in DOMAIN rendering \cup {v} |-> IF w = v THEN Null ELSE rendering[w]]
  /\ UNCHANGED <<req, drive, past>>

BackgroundUpload(v, f) ==
  /\ v \in DOMAIN rendering /\ rendering[v] = Null
  /\ Upload(f)
  /\ rendering' = [rendering EXCEPT ![v] = f]
  /\ UNCHANGED <<rows, job, req, past>>

EndBackground(v, outcome, new) ==
  /\ Update(v, new)
  /\ job' = [job EXCEPT ![v] = outcome]
  /\ rendering' = [w \in DOMAIN rendering \ {v} |-> rendering[w]]
  /\ UNCHANGED <<req, drive, past>>

(* renderCustomVideo and renderAssembly record the result; without a video folder
   there is no Drive copy.                                                      *)
BackgroundDone(v) ==
  /\ v \in DOMAIN rendering
  /\ EndBackground(v, "completed",
       [rows[v] EXCEPT !.status = "completed", !.url = TRUE, !.file = rendering[v]])

BackgroundFailsUntold(v) ==
  /\ v \in DOMAIN rendering
  /\ EndBackground(v, "failed", rows[v])
BackgroundFails(v) ==
  /\ v \in DOMAIN rendering
  /\ EndBackground(v, "failed", [rows[v] EXCEPT !.status = "failed"])

-----------------------------------------------------------------------------
(* saveVideoToDrive, saveHiggsfieldToDrive: whether the row it was given still
   needs its copy.                                                             *)
NeedsCopy(r) == r.status = "completed" /\ r.url /\ r.file = Null

(* GET /heygen/videos/:id, first statement.  A row that is settled is only copied. *)
Poll(q, v) ==
  /\ req[q] = Null /\ rows[v] # Null /\ rows[v].source \in Polled
  /\ IF rows[v].status \in Settled
       THEN NeedsCopy(rows[v]) /\ Go(q, "copy", v, Null)
       ELSE Go(q, "ask", v, rows[v].url)
  /\ UNCHANGED <<rows, job, rendering, drive, past>>

(* What a provider tells of a render: any status but the settled ones leaves the row
   as it is in progress, and a render without a URL leaves the row the one it has.  *)
Told(v, url) ==
  [status |-> IF job[v] \in Settled THEN job[v] ELSE "processing",
   url    |-> url \/ job[v] = "completed"]

(* The provider answers, or the call fails and nothing is written. *)
Ask(q) ==
  /\ At(q, "ask") /\ Go(q, "answer", V(q), Told(V(q), Held(q)))
  /\ UNCHANGED <<rows, job, rendering, drive, past>>
GiveUp(q) ==
  /\ req[q] # Null /\ req[q].step \in {"ask", "copy", "shelve"} /\ Return(q)
  /\ UNCHANGED <<rows, job, rendering, drive, past>>

(* The answer is written whatever the row says by now, and the row that comes back
   is copied when it needs it.                                                   *)
Answer(q) ==
  /\ At(q, "answer")
  /\ LET r == [rows[V(q)] EXCEPT !.status = Held(q).status, !.url = Held(q).url]
     IN  /\ Update(V(q), r)
         /\ IF rows[V(q)] # Null /\ NeedsCopy(r) THEN Go(q, "copy", V(q), Null) ELSE Return(q)
  /\ UNCHANGED <<job, rendering, drive, past>>

(* The upload, then the row; a failed upload is left to the next poll. *)
Copy(q, f) ==
  /\ At(q, "copy") /\ Upload(f) /\ Go(q, "file", V(q), f)
  /\ UNCHANGED <<rows, job, rendering, past>>
FileCopy(q) ==
  /\ At(q, "file") /\ Update(V(q), [rows[V(q)] EXCEPT !.file = Held(q)]) /\ Return(q)
  /\ UNCHANGED <<job, rendering, drive, past>>

-----------------------------------------------------------------------------
(* saveBrollToLibrary, alone or from .../archive: a new upload whatever copy the row
   has, then the row with the config that was read.                              *)
HasBytes(r) == r.url \/ r.file # Null
Shelve(q, v) ==
  /\ req[q] = Null /\ rows[v] # Null /\ ~rows[v].shelved /\ HasBytes(rows[v])
  /\ Go(q, "shelve", v, Null)
  /\ UNCHANGED <<rows, job, rendering, drive, past>>
ShelveUpload(q, f) ==
  /\ At(q, "shelve") /\ Upload(f) /\ Go(q, "stock", V(q), f)
  /\ UNCHANGED <<rows, job, rendering, past>>
ShelveRecord(q) ==
  /\ At(q, "stock")
  /\ Update(V(q), [rows[V(q)] EXCEPT !.file = Held(q), !.shelved = TRUE]) /\ Return(q)
  /\ UNCHANGED <<job, rendering, drive, past>>

(* PATCH /videos/:id/tags writes back the whole config it read. *)
Tag(q, v) ==
  /\ req[q] = Null /\ rows[v] # Null /\ Go(q, "tag", v, rows[v].shelved)
  /\ UNCHANGED <<rows, job, rendering, drive, past>>
TagRecord(q) ==
  /\ At(q, "tag") /\ Update(V(q), [rows[V(q)] EXCEPT !.shelved = Held(q)]) /\ Return(q)
  /\ UNCHANGED <<job, rendering, drive, past>>

-----------------------------------------------------------------------------
(* POST /videos/:id/approve: read, clear the production's approvals of this source,
   approve this one.                                                             *)
Approving(q) == At(q, "clear") \/ At(q, "set")

ApprovableSoon(r) == r.status # "failed"
Approvable(r)     == r.status = "completed"

ApproveAtOnce(q, v) ==
  /\ req[q] = Null /\ rows[v] # Null /\ Approvable(rows[v])
  /\ Go(q, "set", v, Null)
  /\ raced' = (raced \/ \E o \in Request : Approving(o))
  /\ UNCHANGED <<rows, job, rendering, drive, killed, restarts>>
Approve(q, v) ==
  /\ req[q] = Null /\ rows[v] # Null /\ Approvable(rows[v])
  /\ Go(q, "clear", v, [production |-> rows[v].production, source |-> rows[v].source])
  /\ raced' = (raced \/ \E o \in Request : Approving(o))
  /\ UNCHANGED <<rows, job, rendering, drive, killed, restarts>>

(* The clearing goes by the production and the source that were read; a render of no
   production (an ad-hoc Studio one) has no rivals.                              *)
Rivals(chosen, w) ==
  /\ rows[w] # Null /\ chosen.production # Null
  /\ rows[w].production = chosen.production /\ rows[w].source = chosen.source

Clear(q) ==
  /\ At(q, "clear")
  /\ rows' = [w \in Video |-> IF Rivals(Held(q), w) THEN [rows[w] EXCEPT !.approved = FALSE]
                                                   ELSE rows[w]]
  /\ Go(q, "set", V(q), Null)
  /\ UNCHANGED <<job, rendering, drive, past>>
SetApproved(q) ==
  /\ At(q, "set") /\ Update(V(q), [rows[V(q)] EXCEPT !.approved = TRUE]) /\ Return(q)
  /\ UNCHANGED <<job, rendering, drive, past>>

(* DELETE /videos/:id: the Drive copy it read, which may fail, then the row. *)
Discard(q, v) ==
  /\ req[q] = Null /\ rows[v] # Null
  /\ Go(q, IF rows[v].file = Null THEN "drop" ELSE "delete", v, rows[v].file)
  /\ UNCHANGED <<rows, job, rendering, drive, past>>
DeleteCopy(q) ==
  /\ At(q, "delete") /\ Go(q, "drop", V(q), Null)
  /\ files' \in {files, files \ {Held(q)}}
  /\ UNCHANGED <<rows, job, rendering, spent, past>>
Drop(q) ==
  /\ At(q, "drop") /\ rows' = [rows EXCEPT ![V(q)] = Null] /\ Return(q)
  /\ UNCHANGED <<job, rendering, drive, past>>

(* The gateway dies: requests and background renders are gone, rows stay. *)
Restart ==
  /\ restarts < MaxRestarts
  /\ req' = [q \in Request |-> Null] /\ rendering' = [v \in {} |-> Null]
  /\ killed' = killed \cup DOMAIN rendering
  /\ restarts' = restarts + 1
  /\ UNCHANGED <<rows, job, drive, raced>>

-----------------------------------------------------------------------------
Finish(q) == Record(q) \/ Ask(q) \/ Answer(q) \/ GiveUp(q) \/ FileCopy(q) \/ ShelveRecord(q)
             \/ TagRecord(q) \/ Clear(q) \/ SetApproved(q)
             \/ DeleteCopy(q) \/ Drop(q)

Next ==
  \/ \E q \in Request :
       \/ Finish(q)
       \/ \E f \in File : Copy(q, f) \/ ShelveUpload(q, f)
       \/ \E v \in Video :
            \/ \E s \in Polled, p \in Production \cup {Null} : Buy(q, v, s, p)
            \/ Poll(q, v) \/ Shelve(q, v) \/ Tag(q, v) \/ Approve(q, v) \/ Discard(q, v)
  \/ \E v \in Video :
       \/ \E outcome \in Settled : JobEnds(v, outcome)
       \/ \E s \in Source, p \in Production :
            AddStock(v, s, p) \/ Import(v, s, p) \/ StartBackground(v, s, p)
       \/ \E f \in File : BackgroundUpload(v, f)
       \/ BackgroundDone(v) \/ BackgroundFails(v)
  \/ Restart

Spec == Init /\ [][Next]_vars

(* A handler that started goes on; a provider ends its renders and, asked again and
   again, answers; and the dashboard polls what is processing every few seconds,
   however busy the other requests keep the gateway.                            *)
Fairness ==
  /\ \A q \in Request : WF_vars(Finish(q))
  /\ \A v \in Video :
       /\ WF_vars(\E outcome \in Settled : JobEnds(v, outcome))
       /\ WF_vars(BackgroundDone(v) \/ BackgroundFails(v))
       /\ SF_vars(\E q \in Request : Poll(q, v))
       /\ SF_vars(\E q \in Request : Ask(q) /\ V(q) = v)
FairSpec == Spec /\ Fairness

-----------------------------------------------------------------------------
(* What a row says of its render is what happened: however polls, restarts and
   approvals interleave, a row is completed or approved only when the render really
   completed, and failed only when it failed.  (It may say "processing" of a render
   that ended: a slow poll writes an older answer over a newer one.)             *)
RowTellsTheTruth ==
  \A v \in Video : rows[v] # Null =>
    /\ rows[v].status \in Settled => job[v] = rows[v].status
    /\ rows[v].approved => job[v] = "completed"

(* "One approved per production+source" (server.ts:2238), which the two statements of
   an approval keep as long as no two approvals are ever in flight together.     *)
Approved(v) == rows[v] # Null /\ rows[v].approved
OneApproved ==
  ~raced => \A v, w \in Video :
    (Approved(v) /\ Approved(w) /\ rows[v].production # Null
      /\ rows[v].production = rows[w].production /\ rows[v].source = rows[w].source) => v = w

(* In the end no row says "processing" of a render that will not change it any more:
   late answers of slow polls are corrected, and the only rows left behind are those
   of background renders that a restart killed.                                  *)
EveryRenderIsTold ==
  \A v \in Video :
    <>[](rows[v] = Null \/ rows[v].status # "processing" \/ v \in killed)
=============================================================================
