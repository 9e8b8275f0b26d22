--------------------------- MODULE ScriptPipeline ---------------------------
(* A production from its script to its voice (server.ts): the draft is edited until
   it is accepted, ALLEN directs the accepted text, the voice takes and the uploads
   become assets with a file in Drive, and a render is bought for the take that was
   approved.

   One action is one SQL statement, or one call of ALLEN or Drive, of a request that
   holds in `req` what it read.  The production is one row; refused requests leave
   no trace.  The tagged scripts and their tuning are data no step depends on.        *)
EXTENDS FiniteSets

CONSTANTS
  Text,      \* script texts
  Asset,     \* ids of assets rows
  File,      \* Drive file ids
  Library,   \* files in Drive from the start, the shared brand library's
  Request,   \* requests that can be in flight at once
  Null

Version == {"v2", "v3"}
Stage   == {"script", "voice", "assets", "generate", "post"}

VARIABLES
  prod,      \* the productions row
  assets,    \* the file of each assets row, Null where there is no row
  files,     \* the files in Drive
  req,       \* a request in flight, or Null
  earned,    \* history: what the production has been through
  removed,   \* history: assets some request set out to remove
  named,     \* history: the files callers attached
  spent,     \* history: file ids that were in Drive or attached; Drive's new ids are others
  disturbed  \* history: two requests were in flight together

vars == <<prod, assets, files, req, earned, removed, named, spent, disturbed>>
drive == <<files, named, spent>>

Row == [text : Text, accepted : BOOLEAN, stage : Stage, locked : BOOLEAN,
        take : [Version -> Asset \cup {Null}]]

TypeOK ==
  /\ prod \in Row
  /\ assets \in [Asset -> File \cup {Null}]
  /\ files \cup named \cup Library \subseteq spent /\ spent \subseteq File
  /\ earned \subseteq {"accepted", "locked", "uploaded", "bought", "archived"}
  /\ removed \subseteq Asset

-----------------------------------------------------------------------------
At(q, step) == req[q] # Null /\ req[q].step = step
Held(q)     == req[q].held
Go(q, step, held) == req' = [req EXCEPT ![q] = [step |-> step, held |-> held]]
Return(q)   == req' = [req EXCEPT ![q] = Null]
Start(q, step, held) ==
  /\ req[q] = Null /\ Go(q, step, held)
  /\ disturbed' = (disturbed \/ \E o \in Request : req[o] # Null)
  /\ UNCHANGED <<prod, assets, drive, earned, removed>>

Update(q, row, deed) ==
  /\ prod' = row /\ earned' = earned \cup deed /\ Return(q)
  /\ UNCHANGED <<assets, drive, removed, disturbed>>

Store(q, f, step, held) ==
  /\ f \in File \ spent /\ files' = files \cup {f} /\ spent' = spent \cup {f}
  /\ Go(q, step, held)
  /\ UNCHANGED <<prod, assets, earned, removed, named, disturbed>>
Insert(a, f) == assets[a] = Null /\ a \notin removed /\ assets' = [assets EXCEPT ![a] = f]
Record(q, a, f, step, held) ==
  /\ Insert(a, f) /\ Go(q, step, held)
  /\ UNCHANGED <<prod, drive, earned, removed, disturbed>>

(* POST /productions: ALLEN's draft is the first text. *)
Init ==
  /\ \E x \in Text : prod = [text |-> x, accepted |-> FALSE, stage |-> "script", locked |-> FALSE,
                             take |-> [v \in Version |-> Null]]
  /\ assets = [a \in Asset |-> Null] /\ files = Library /\ spent = Library /\ named = {}
  /\ req = [q \in Request |-> Null] /\ earned = {} /\ removed = {} /\ disturbed = FALSE

-----------------------------------------------------------------------------
(* PATCH .../script: refused once accepted, as it was read; then written by id. *)
EditUnchecked(q, x) == Start(q, "edit", x)
Edit(q, x) == ~prod.accepted /\ Start(q, "edit", x)
EditWrite(q) ==
  At(q, "edit") /\ Update(q, [prod EXCEPT !.text = Held(q), !.accepted = FALSE], {})

(* POST .../script/accept. *)
Accept(q) == ~prod.accepted /\ Start(q, "accept", Null)
AcceptWrite(q) ==
  /\ At(q, "accept")
  /\ Update(q, [prod EXCEPT !.accepted = TRUE, !.stage = "voice"], {"accepted"})

(* POST .../direct: while ALLEN tags the text, the lock and the stage are held as they
   were read, and written back unless this call locks.                                *)
Direct(q, lock) ==
  /\ prod.accepted
  /\ Start(q, "direct", [lock |-> lock, locked |-> prod.locked, stage |-> prod.stage])
DirectAdvancing(q) ==
  /\ At(q, "direct")
  /\ LET h == Held(q) IN
     Update(q, [prod EXCEPT !.locked = h.lock \/ h.locked, !.stage = "assets"],
            IF h.lock THEN {"locked"} ELSE {})
DirectWrite(q) ==
  /\ At(q, "direct")
  /\ LET h == Held(q) IN
     Update(q, [prod EXCEPT !.locked = h.lock \/ h.locked, !.stage = IF h.lock THEN "assets" ELSE h.stage],
            IF h.lock THEN {"locked"} ELSE {})

-----------------------------------------------------------------------------
(* POST .../speak: synthesize, upload, insert the asset, point the version's take at it;
   without a version no take is pointed.                                              *)
Speak(q, v) == Start(q, "speak", v)
SpeakStore(q, f) == At(q, "speak") /\ Store(q, f, "spoken", [version |-> Held(q), file |-> f])
SpeakPointFirst(q, a) ==
  /\ At(q, "spoken") /\ Held(q).version # Null /\ assets[a] = Null
  /\ Update(q, [prod EXCEPT !.take[Held(q).version] = a], {})
SpeakRecord(q, a) ==
  /\ At(q, "spoken")
  /\ IF Held(q).version = Null
       THEN Insert(a, Held(q).file) /\ Return(q)
            /\ UNCHANGED <<prod, drive, earned, removed, disturbed>>
       ELSE Record(q, a, Held(q).file, "point", [version |-> Held(q).version, asset |-> a])
SpeakPoint(q) ==
  /\ At(q, "point")
  /\ Update(q, [prod EXCEPT !.take[Held(q).version] = Held(q).asset], {})

(* POST .../assets: file after file; then the stage, judged as it was read. *)
Upload(q) == Start(q, "upload", prod.stage)
UploadStore(q, f) == At(q, "upload") /\ Store(q, f, "stored", [stage |-> Held(q), file |-> f])
UploadRecord(q, a) ==
  /\ At(q, "stored") /\ \E next \in {"upload", "advance"} :
       Record(q, a, Held(q).file, next, Held(q).stage)
UploadAdvance(q) ==
  /\ At(q, "advance")
  /\ Update(q, [prod EXCEPT !.stage = IF Held(q) \in {"script", "voice", "assets"}
                                        THEN "assets" ELSE @], {"uploaded"})

(* POST .../assets/attach: a row for whatever file id the caller names, with no upload:
   one of the library, another asset's own, or none that Drive has.                   *)
Attach(a, f) ==
  /\ Insert(a, f) /\ named' = named \cup {f} /\ spent' = spent \cup {f}
  /\ UNCHANGED <<prod, files, req, earned, removed, disturbed>>

(* DELETE /assets/:id: the file, which may fail, then the row. *)
Remove(q, a) ==
  /\ assets[a] # Null /\ req[q] = Null
  /\ Go(q, "remove", [asset |-> a, file |-> assets[a]])
  /\ removed' = removed \cup {a}
  /\ disturbed' = (disturbed \/ \E o \in Request : req[o] # Null)
  /\ UNCHANGED <<prod, assets, drive, earned>>
RemoveFile(q) ==
  /\ At(q, "remove") /\ Go(q, "unlink", Held(q))
  /\ files' \in {files, files \ {Held(q).file}}
  /\ UNCHANGED <<prod, assets, named, spent, earned, removed, disturbed>>
RemoveRow(q) ==
  /\ At(q, "unlink") /\ assets' = [assets EXCEPT ![Held(q).asset] = Null] /\ Return(q)
  /\ UNCHANGED <<prod, drive, earned, removed, disturbed>>

-----------------------------------------------------------------------------
(* .../generate and .../aroll, up to the paid call: hostVoiceTrack serves the approved
   take, the v3 one if there is one, and synthesizes only when its row is gone; where
   the caller names a voice-over, the takes are passed over and a copy is recorded.   *)
Chosen(row) == IF row.take["v3"] # Null THEN row.take["v3"] ELSE row.take["v2"]
Host(q) == \E take \in {Chosen(prod), Null} : Start(q, "host", take)
Servable(a) == a # Null /\ assets[a] # Null
HostTake(q) ==
  /\ At(q, "host") /\ Servable(Held(q)) /\ Go(q, "buy", Null)
  /\ UNCHANGED <<prod, assets, drive, earned, removed, disturbed>>
HostSynthesize(q, f) == At(q, "host") /\ ~Servable(Held(q)) /\ Store(q, f, "voiced", f)
HostRecord(q, a) == At(q, "voiced") /\ Record(q, a, Held(q), "buy", Null)
Buy(q) == At(q, "buy") /\ Update(q, [prod EXCEPT !.stage = "generate"], {"bought"})

(* .../archive, and the approval of a HeyGen render. *)
Post ==
  /\ prod' = [prod EXCEPT !.stage = "post"] /\ earned' = earned \cup {"archived"}
  /\ UNCHANGED <<assets, drive, req, removed, disturbed>>

(* A call of ALLEN, Drive or HeyGen fails, or the gateway dies. *)
Die(q) ==
  /\ req[q] # Null /\ Return(q)
  /\ UNCHANGED <<prod, assets, drive, earned, removed, disturbed>>

Next ==
  \/ \E q \in Request :
       \/ \E x \in Text : Edit(q, x)
       \/ \E lock \in BOOLEAN : Direct(q, lock)
       \/ \E v \in Version \cup {Null} : Speak(q, v)
       \/ \E f \in File : SpeakStore(q, f) \/ UploadStore(q, f) \/ HostSynthesize(q, f)
       \/ \E a \in Asset : SpeakRecord(q, a) \/ UploadRecord(q, a) \/ HostRecord(q, a) \/ Remove(q, a)
       \/ EditWrite(q) \/ Accept(q) \/ AcceptWrite(q) \/ DirectWrite(q) \/ SpeakPoint(q)
       \/ Upload(q) \/ UploadAdvance(q) \/ RemoveFile(q) \/ RemoveRow(q)
       \/ Host(q) \/ HostTake(q) \/ Buy(q) \/ Die(q)
  \/ \E a \in Asset, f \in File : Attach(a, f)
  \/ Post

Spec == Init /\ [][Next]_vars

-----------------------------------------------------------------------------
(* "This script is accepted. Create a new revision to change it." (server.ts:689): while
   requests are served one after the other, an accepted text stays as it was accepted.  *)
AcceptedStands ==
  [][prod.accepted /\ ~disturbed' => prod'.accepted /\ prod'.text = prod.text]_vars

(* The stage is one the production has reached by doing the work, also when a request
   writes back a stage it read long ago.                                              *)
StageIsEarned ==
  /\ prod.stage = "voice" => "accepted" \in earned
  /\ prod.stage = "assets" => {"locked", "uploaded"} \cap earned # {}
  /\ prod.stage = "generate" => "bought" \in earned

(* A take names an asset that was inserted, until somebody removes that asset; and what
   was uploaded for an asset is in Drive until somebody removes that asset, whatever is
   removed or recorded beside it.  A file that a caller attached is the exception: it may
   have several assets, and removing one of them deletes it for all.                  *)
AssetsAreBacked ==
  /\ \A v \in Version : prod.take[v] # Null => assets[prod.take[v]] # Null \/ prod.take[v] \in removed
  /\ \A a \in Asset \ removed : assets[a] # Null /\ assets[a] \notin named => assets[a] \in files
=============================================================================
