-------------------------- MODULE VideoRendersProofs --------------------------
(* Machine-checked proofs about VideoRenders: for any number of rows, requests and
   files, a row of the videos table never claims of a render what did not happen.  *)
EXTENDS VideoRenders, TLAPS

Status == {"processing"} \cup Settled
Jobs   == {"none", "running"} \cup Settled

Shapes ==
  /\ req = [q \in Request |-> req[q]]
  /\ rendering = [v \in DOMAIN rendering |-> rendering[v]]
  /\ \A v \in DOMAIN rendering : rendering[v] \in File \cup {Null} /\ job[v] = "running"

(* What a request holds between two statements is still true when it is used, because
   a render that ended does not end otherwise.                                       *)
InsertHolds(q) == At(q, "insert") => /\ Held(q)[1] \in Source
                                     /\ Held(q)[2] \in Production \cup {Null}
                                     /\ job[V(q)] # "none"
AnswerHolds(q) == At(q, "answer") => /\ Held(q).status \in Status /\ Held(q).url \in BOOLEAN
                                     /\ Held(q).status \in Settled => job[V(q)] = Held(q).status
ApprovalHolds(q) == Approving(q) => job[V(q)] = "completed"
FlagHolds(q) == At(q, "ask") \/ At(q, "tag") => Held(q) \in BOOLEAN
FileHolds(q) == At(q, "file") \/ At(q, "stock") => Held(q) \in File

Holds(q) == InsertHolds(q) /\ AnswerHolds(q) /\ ApprovalHolds(q) /\ FlagHolds(q) /\ FileHolds(q)

IInv == TypeOK /\ Shapes /\ RowTellsTheTruth /\ \A q \in Request : Holds(q)

-----------------------------------------------------------------------------
(* The rows and the requests, one at a time. *)
LEMMA RowIsRow ==
  ASSUME IInv, NEW v \in Video, rows[v] # Null
  PROVE  rows[v] \in Row
  BY DEF IInv, TypeOK

(* A step that only moves one request on, to something that holds. *)
LEMMA RequestMoves ==
  ASSUME IInv, NEW q \in Request, NEW step \in Steps, NEW v \in Video, NEW held,
         Go(q, step, v, held),
         \A w \in Video : /\ job[w] \in Settled => job'[w] = job[w]
                          /\ job[w] # "none" => job'[w] # "none",
         Holds(q)'
  PROVE  /\ req' = [d \in Request |-> req'[d]]
         /\ \A d \in Request : Holds(d)'
         /\ \A d \in Request : req'[d] # Null => req'[d].step \in Steps /\ req'[d].video \in Video
  <1>1. req' = [d \in Request |-> req'[d]]
    BY DEF IInv, Shapes, Go
  <1>2. req'[q] = [step |-> step, video |-> v, held |-> held]
        /\ \A d \in Request \ {q} : req'[d] = req[d]
    BY DEF IInv, Shapes, Go
  <1>3. \A d \in Request : req'[d] # Null => req'[d].step \in Steps /\ req'[d].video \in Video
    BY <1>2 DEF IInv, TypeOK
  <1>4. ASSUME NEW d \in Request \ {q} PROVE Holds(d)'
    <2>1. req'[d] = req[d] /\ Holds(d) /\ (req[d] # Null => req[d].video \in Video)
      BY <1>2 DEF IInv, TypeOK
    <2>. QED
      BY <2>1 DEF Holds, InsertHolds, AnswerHolds, ApprovalHolds, FlagHolds, FileHolds, At, V, Held,
                  Approving, Settled
  <1>. QED
    BY <1>1, <1>3, <1>4

LEMMA RequestReturns ==
  ASSUME IInv, NEW q \in Request, Return(q),
         \A w \in Video : /\ job[w] \in Settled => job'[w] = job[w]
                          /\ job[w] # "none" => job'[w] # "none"
  PROVE  /\ req' = [d \in Request |-> req'[d]]
         /\ \A d \in Request : Holds(d)'
         /\ \A d \in Request : req'[d] # Null => req'[d].step \in Steps /\ req'[d].video \in Video
  <1>1. req' = [d \in Request |-> req'[d]]
    BY DEF IInv, Shapes, Return
  <1>2. req'[q] = Null /\ \A d \in Request \ {q} : req'[d] = req[d]
    BY DEF IInv, Shapes, Return
  <1>3. \A d \in Request : req'[d] # Null => req'[d].step \in Steps /\ req'[d].video \in Video
    BY <1>2 DEF IInv, TypeOK
  <1>4. ASSUME NEW d \in Request PROVE Holds(d)'
    <2>1. CASE d = q
      BY <1>2, <2>1 DEF Holds, InsertHolds, AnswerHolds, ApprovalHolds, FlagHolds, FileHolds, At,
                        Approving
    <2>2. CASE d # q
      <3>1. req'[d] = req[d] /\ Holds(d) /\ (req[d] # Null => req[d].video \in Video)
        BY <1>2, <2>2 DEF IInv, TypeOK
      <3>. QED
        BY <3>1 DEF Holds, InsertHolds, AnswerHolds, ApprovalHolds, FlagHolds, FileHolds, At, V, Held,
                    Approving, Settled
    <2>. QED
      BY <2>1, <2>2
  <1>. QED
    BY <1>1, <1>3, <1>4

(* No request moves. *)
LEMMA RequestsStay ==
  ASSUME IInv, UNCHANGED req,
         \A w \in Video : /\ job[w] \in Settled => job'[w] = job[w]
                          /\ job[w] # "none" => job'[w] # "none"
  PROVE  /\ req' = [d \in Request |-> req'[d]]
         /\ \A d \in Request : Holds(d)'
         /\ \A d \in Request : req'[d] # Null => req'[d].step \in Steps /\ req'[d].video \in Video
  <1>1. ASSUME NEW d \in Request PROVE Holds(d)'
    <2>1. req'[d] = req[d] /\ Holds(d) /\ (req[d] # Null => req[d].video \in Video)
      BY DEF IInv, TypeOK
    <2>. QED
      BY <2>1 DEF Holds, InsertHolds, AnswerHolds, ApprovalHolds, FlagHolds, FileHolds, At, V, Held,
                  Approving, Settled
  <1>. QED
    BY <1>1 DEF IInv, Shapes, TypeOK

(* UPDATE of one row, to one that is of its type and tells the truth if there is one. *)
TypedTables == rows \in [Video -> Row \cup {Null}] /\ job \in [Video -> Jobs]

LEMMA UpdateKeeps ==
  ASSUME IInv, UNCHANGED job, NEW v \in Video, NEW new, Update(v, new),
         rows[v] # Null => /\ new \in Row
                           /\ new.status \in Settled => job[v] = new.status
                           /\ new.approved => job[v] = "completed"
  PROVE  TypedTables' /\ RowTellsTheTruth'
  <1>1. \A w \in Video \ {v} : rows'[w] = rows[w]
    BY DEF Update, IInv, TypeOK
  <1>2. rows'[v] = IF rows[v] = Null THEN Null ELSE new
    BY DEF Update, IInv, TypeOK
  <1>3. TypedTables'
    BY DEF Update, IInv, TypeOK, TypedTables, Jobs
  <1>4. RowTellsTheTruth'
    BY <1>1, <1>2 DEF IInv, RowTellsTheTruth
  <1>. QED
    BY <1>3, <1>4

-----------------------------------------------------------------------------
(* The invariant in the parts that steps disturb separately. *)
Requests ==
  /\ req = [q \in Request |-> req[q]]
  /\ \A q \in Request : Holds(q)
  /\ \A q \in Request : req[q] # Null => req[q].step \in Steps /\ req[q].video \in Video
Renderings ==
  /\ rendering = [v \in DOMAIN rendering |-> rendering[v]]
  /\ DOMAIN rendering \subseteq Video
  /\ \A v \in DOMAIN rendering : rendering[v] \in File \cup {Null} /\ job[v] = "running"
Drive == files \subseteq spent /\ spent \subseteq File
Past  == killed \subseteq Video /\ raced \in BOOLEAN /\ restarts \in 0 .. MaxRestarts

LEMMA Parts ==
  IInv <=> TypedTables /\ RowTellsTheTruth /\ Requests /\ Renderings /\ Drive /\ Past
  BY DEF IInv, TypeOK, Shapes, TypedTables, Jobs, Requests, Renderings, Drive, Past
LEMMA PartsNext ==
  TypedTables' /\ RowTellsTheTruth' /\ Requests' /\ Renderings' /\ Drive' /\ Past' => IInv'
  BY DEF IInv, TypeOK, Shapes, TypedTables, Jobs, Requests, Renderings, Drive, Past

LEMMA NothingElse ==
  /\ Drive /\ UNCHANGED drive => Drive'
  /\ Past /\ UNCHANGED past => Past'
  /\ Renderings /\ UNCHANGED <<rendering, job>> => Renderings'
  /\ TypedTables /\ RowTellsTheTruth /\ UNCHANGED <<rows, job>> => TypedTables' /\ RowTellsTheTruth'
  BY DEF Drive, Past, Renderings, TypedTables, RowTellsTheTruth, drive, past

LEMMA Uploaded == ASSUME Drive, NEW f \in File, Upload(f) PROVE Drive'
  BY DEF Drive, Upload

JobsMoveOn == \A w \in Video : /\ job[w] \in Settled => job'[w] = job[w]
                               /\ job[w] # "none" => job'[w] # "none"

LEMMA Moves ==
  ASSUME IInv, NEW q \in Request, NEW step \in Steps, NEW v \in Video, NEW held,
         Go(q, step, v, held), JobsMoveOn, Holds(q)'
  PROVE  Requests'
  BY RequestMoves DEF Requests, JobsMoveOn
LEMMA Returns == ASSUME IInv, NEW q \in Request, Return(q), JobsMoveOn PROVE Requests'
  BY RequestReturns DEF Requests, JobsMoveOn
LEMMA Stays == ASSUME IInv, UNCHANGED req, JobsMoveOn PROVE Requests'
  BY RequestsStay DEF Requests, JobsMoveOn
LEMMA JobsSame == UNCHANGED job => JobsMoveOn
  BY DEF JobsMoveOn

(* What a request may hold when it comes to a step. *)
Apt(step, v, held) ==
  /\ step \in Steps /\ v \in Video
  /\ step = "insert" => held[1] \in Source /\ held[2] \in Production \cup {Null} /\ job[v] # "none"
  /\ step = "answer" => /\ held.status \in Status /\ held.url \in BOOLEAN
                        /\ held.status \in Settled => job[v] = held.status
  /\ step \in {"clear", "set"} => job[v] = "completed"
  /\ step \in {"ask", "tag"} => held \in BOOLEAN
  /\ step \in {"file", "stock"} => held \in File

LEMMA NowHolds ==
  ASSUME IInv, NEW q \in Request, NEW step, NEW v, NEW held, Go(q, step, v, held),
         JobsMoveOn, Apt(step, v, held)'
  PROVE  Requests'
  <1>1. req'[q] = [step |-> step, video |-> v, held |-> held]
    BY DEF IInv, Shapes, Go
  <1>2. Holds(q)'
    BY <1>1 DEF Apt, Holds, InsertHolds, AnswerHolds, ApprovalHolds, FlagHolds, FileHolds, At, V, Held,
                Approving
  <1>. QED
    BY <1>2, Moves DEF Apt

LEMMA HoldsNothing ==
  ASSUME NEW step \in {"copy", "shelve", "delete", "drop"}, NEW v \in Video, NEW held
  PROVE  Apt(step, v, held)
  BY DEF Apt, Steps

(* A request moves on, and no row, render or Drive file goes away under it. *)
LEMMA Proceeds ==
  ASSUME IInv, NEW q \in Request, NEW step, NEW v, NEW held, Go(q, step, v, held),
         UNCHANGED <<rows, job, rendering>>, Drive', Past', Apt(step, v, held)
  PROVE  IInv'
  <1>1. Apt(step, v, held)'
    BY DEF Apt
  <1>2. Requests'
    BY <1>1, NowHolds, JobsSame
  <1>. QED
    BY <1>2, Parts, PartsNext, NothingElse

(* What is known of a request that is at a step. *)
LEMMA AtStep ==
  ASSUME IInv, NEW q \in Request, NEW step, At(q, step)
  PROVE  V(q) \in Video /\ Holds(q)
  BY DEF IInv, TypeOK, At, V

LEMMA NewRowIsTrue ==
  ASSUME NEW s \in Source, NEW p \in Production \cup {Null}, NEW st \in Status
  PROVE  /\ NewRow(s, p, st) \in Row
         /\ NewRow(s, p, st).status = st /\ NewRow(s, p, st).approved = FALSE
  BY DEF NewRow, Row, Status, Settled

-----------------------------------------------------------------------------
LEMMA InitHolds == ASSUME MaxRestarts \in Nat PROVE Init => IInv
  <1> SUFFICES ASSUME Init PROVE IInv
    OBVIOUS
  <1>1. TypedTables /\ RowTellsTheTruth
    BY DEF Init, TypedTables, Jobs, RowTellsTheTruth
  <1>2. Requests
    BY DEF Init, Requests, Holds, InsertHolds, AnswerHolds, ApprovalHolds, FlagHolds, FileHolds, At,
           Approving
  <1>3. Renderings
    BY DEF Init, Renderings
  <1>4. Drive /\ Past
    <2>1. Drive
      BY DEF Init, Drive
    <2>2. 0 \in 0 .. MaxRestarts
      OBVIOUS
    <2>. QED
      BY <2>1, <2>2 DEF Init, Past
  <1>. QED
    BY <1>1, <1>2, <1>3, <1>4, Parts

(* Requests that only read, give up, or upload. *)
LEMMA AskHolds == ASSUME IInv, NEW q \in Request, Ask(q) PROVE IInv'
  <1>1. V(q) \in Video /\ Held(q) \in BOOLEAN /\ job[V(q)] \in Jobs
    BY AtStep DEF Ask, Holds, FlagHolds, IInv, TypeOK, Jobs
  <1> DEFINE held == Told(V(q), Held(q))
  <1>2. Go(q, "answer", V(q), held) /\ UNCHANGED <<rows, job, rendering, drive, past>>
    BY DEF Ask
  <1>3. /\ held.status \in Status /\ held.url \in BOOLEAN
        /\ held.status \in Settled => job[V(q)] = held.status
    BY <1>1 DEF Told, Status, Settled
  <1> HIDE DEF held
  <1>4. Apt("answer", V(q), held)
    BY <1>1, <1>3 DEF Apt, Steps
  <1>. QED
    BY <1>2, <1>4, Proceeds, Parts, NothingElse

LEMMA GiveUpHolds == ASSUME IInv, NEW q \in Request, GiveUp(q) PROVE IInv'
  BY Returns, JobsSame, Parts, PartsNext, NothingElse DEF GiveUp

LEMMA DeleteCopyHolds == ASSUME IInv, NEW q \in Request, DeleteCopy(q) PROVE IInv'
  <1>1. V(q) \in Video /\ Go(q, "drop", V(q), Null) /\ UNCHANGED <<rows, job, rendering, past>>
    BY AtStep DEF DeleteCopy
  <1>2. Drive'
    BY Parts DEF DeleteCopy, Drive
  <1>3. Apt("drop", V(q), Null)
    BY <1>1, HoldsNothing
  <1>. QED
    BY <1>1, <1>2, <1>3, Proceeds, Parts, NothingElse

LEMMA UploadHolds ==
  ASSUME IInv, NEW q \in Request, NEW f \in File, Copy(q, f) \/ ShelveUpload(q, f)
  PROVE  IInv'
  <1>1. V(q) \in Video /\ UNCHANGED <<rows, job, rendering, past>> /\ Drive'
    BY AtStep, Parts, Uploaded DEF Copy, ShelveUpload
  <1>2. Apt("file", V(q), f) /\ Apt("stock", V(q), f)
    BY <1>1 DEF Apt, Steps
  <1>3. CASE Copy(q, f)
    <2>1. Go(q, "file", V(q), f)
      BY <1>3 DEF Copy
    <2>. QED
      BY <1>1, <1>2, <2>1, Proceeds, Parts, NothingElse
  <1>4. CASE ShelveUpload(q, f)
    <2>1. Go(q, "stock", V(q), f)
      BY <1>4 DEF ShelveUpload
    <2>. QED
      BY <1>1, <1>2, <2>1, Proceeds, Parts, NothingElse
  <1>. QED
    BY <1>3, <1>4

LEMMA PollHolds == ASSUME IInv, NEW q \in Request, NEW v \in Video, Poll(q, v) PROVE IInv'
  <1>1. rows[v].url \in BOOLEAN /\ UNCHANGED <<rows, job, rendering, drive, past>>
    BY RowIsRow DEF Poll, Row
  <1>2. Apt("copy", v, Null) /\ Apt("ask", v, rows[v].url)
    BY <1>1, HoldsNothing DEF Apt, Steps
  <1>3. Go(q, "copy", v, Null) \/ Go(q, "ask", v, rows[v].url)
    BY DEF Poll
  <1>4. Drive' /\ Past'
    BY <1>1, Parts, NothingElse
  <1>. QED
    BY <1>1, <1>2, <1>3, <1>4, Proceeds

LEMMA ShelveHolds == ASSUME IInv, NEW q \in Request, NEW v \in Video, Shelve(q, v) PROVE IInv'
  <1>1. Go(q, "shelve", v, Null) /\ UNCHANGED <<rows, job, rendering, drive, past>>
    BY DEF Shelve
  <1>2. Apt("shelve", v, Null)
    BY HoldsNothing
  <1>. QED
    BY <1>1, <1>2, Proceeds, Parts, NothingElse

LEMMA TagHolds == ASSUME IInv, NEW q \in Request, NEW v \in Video, Tag(q, v) PROVE IInv'
  <1>1. rows[v].shelved \in BOOLEAN
    BY RowIsRow DEF Tag, Row
  <1>2. Go(q, "tag", v, rows[v].shelved) /\ UNCHANGED <<rows, job, rendering, drive, past>>
    BY DEF Tag
  <1>3. Apt("tag", v, rows[v].shelved)
    BY <1>1 DEF Apt, Steps
  <1>. QED
    BY <1>2, <1>3, Proceeds, Parts, NothingElse

LEMMA ApproveHolds == ASSUME IInv, NEW q \in Request, NEW v \in Video, Approve(q, v) PROVE IInv'
  <1> DEFINE chosen == [production |-> rows[v].production, source |-> rows[v].source]
  <1>1. Go(q, "clear", v, chosen) /\ UNCHANGED <<rows, job, rendering, drive>>
    BY DEF Approve
  <1> HIDE DEF chosen
  <1>2. job[v] = "completed"
    BY DEF Approve, Approvable, IInv, RowTellsTheTruth, Settled
  <1>3. Past'
    BY Parts DEF Approve, Past
  <1>4. Apt("clear", v, chosen)
    BY <1>2 DEF Apt, Steps
  <1>. QED
    BY <1>1, <1>3, <1>4, Proceeds, Parts, NothingElse

LEMMA DiscardHolds == ASSUME IInv, NEW q \in Request, NEW v \in Video, Discard(q, v) PROVE IInv'
  <1>1. Go(q, "drop", v, rows[v].file) \/ Go(q, "delete", v, rows[v].file)
    BY DEF Discard
  <1>2. UNCHANGED <<rows, job, rendering, drive, past>>
    BY DEF Discard
  <1>3. Apt("drop", v, rows[v].file) /\ Apt("delete", v, rows[v].file)
    BY HoldsNothing
  <1>. QED
    BY <1>1, <1>2, <1>3, Proceeds, Parts, NothingElse

-----------------------------------------------------------------------------
(* Requests that write: the row changes, and the request is over. *)
LEMMA Writes ==
  ASSUME IInv, NEW q \in Request, Return(q), UNCHANGED <<job, rendering, drive, past>>,
         TypedTables', RowTellsTheTruth'
  PROVE  IInv'
  BY Returns, JobsSame, Parts, PartsNext, NothingElse

LEMMA RowsTrue ==
  ASSUME IInv, NEW v \in Video, rows[v] # Null
  PROVE  /\ rows[v] \in Row
         /\ rows[v].status \in Settled => job[v] = rows[v].status
         /\ rows[v].approved => job[v] = "completed"
  BY RowIsRow DEF IInv, RowTellsTheTruth

LEMMA FileCopyHolds == ASSUME IInv, NEW q \in Request, FileCopy(q) PROVE IInv'
  <1>1. V(q) \in Video /\ Held(q) \in File
    BY AtStep DEF FileCopy, Holds, FileHolds
  <1> DEFINE new == [rows[V(q)] EXCEPT !.file = Held(q)]
  <1>2. Update(V(q), new) /\ Return(q) /\ UNCHANGED <<job, rendering, drive, past>>
    BY DEF FileCopy
  <1>3. rows[V(q)] # Null => /\ new \in Row
                             /\ new.status \in Settled => job[V(q)] = new.status
                             /\ new.approved => job[V(q)] = "completed"
    BY <1>1, RowsTrue DEF Row
  <1> HIDE DEF new
  <1>. QED
    BY <1>1, <1>2, <1>3, UpdateKeeps, Writes

LEMMA ShelveRecordHolds == ASSUME IInv, NEW q \in Request, ShelveRecord(q) PROVE IInv'
  <1>1. V(q) \in Video /\ Held(q) \in File
    BY AtStep DEF ShelveRecord, Holds, FileHolds
  <1> DEFINE new == [rows[V(q)] EXCEPT !.file = Held(q), !.shelved = TRUE]
  <1>2. Update(V(q), new) /\ Return(q) /\ UNCHANGED <<job, rendering, drive, past>>
    BY DEF ShelveRecord
  <1>3. rows[V(q)] # Null => /\ new \in Row
                             /\ new.status \in Settled => job[V(q)] = new.status
                             /\ new.approved => job[V(q)] = "completed"
    BY <1>1, RowsTrue DEF Row
  <1> HIDE DEF new
  <1>. QED
    BY <1>1, <1>2, <1>3, UpdateKeeps, Writes

LEMMA TagRecordHolds == ASSUME IInv, NEW q \in Request, TagRecord(q) PROVE IInv'
  <1>1. V(q) \in Video /\ Held(q) \in BOOLEAN
    BY AtStep DEF TagRecord, Holds, FlagHolds
  <1> DEFINE new == [rows[V(q)] EXCEPT !.shelved = Held(q)]
  <1>2. Update(V(q), new) /\ Return(q) /\ UNCHANGED <<job, rendering, drive, past>>
    BY DEF TagRecord
  <1>3. rows[V(q)] # Null => /\ new \in Row
                             /\ new.status \in Settled => job[V(q)] = new.status
                             /\ new.approved => job[V(q)] = "completed"
    BY <1>1, RowsTrue DEF Row
  <1> HIDE DEF new
  <1>. QED
    BY <1>1, <1>2, <1>3, UpdateKeeps, Writes

(* The render of a row being approved was completed when it was read. *)
LEMMA SetApprovedHolds == ASSUME IInv, NEW q \in Request, SetApproved(q) PROVE IInv'
  <1>1. V(q) \in Video /\ job[V(q)] = "completed"
    BY AtStep DEF SetApproved, Holds, ApprovalHolds, Approving
  <1> DEFINE new == [rows[V(q)] EXCEPT !.approved = TRUE]
  <1>2. Update(V(q), new) /\ Return(q) /\ UNCHANGED <<job, rendering, drive, past>>
    BY DEF SetApproved
  <1>3. rows[V(q)] # Null => /\ new \in Row
                             /\ new.status \in Settled => job[V(q)] = new.status
                             /\ new.approved => job[V(q)] = "completed"
    BY <1>1, RowsTrue DEF Row
  <1> HIDE DEF new
  <1>. QED
    BY <1>1, <1>2, <1>3, UpdateKeeps, Writes

(* A late answer may take a row back to "processing", never to another outcome. *)
LEMMA AnswerStepHolds == ASSUME IInv, NEW q \in Request, Answer(q) PROVE IInv'
  <1>1. /\ V(q) \in Video /\ Held(q).status \in Status /\ Held(q).url \in BOOLEAN
        /\ Held(q).status \in Settled => job[V(q)] = Held(q).status
    BY AtStep DEF Answer, Holds, AnswerHolds
  <1> DEFINE new == [rows[V(q)] EXCEPT !.status = Held(q).status, !.url = Held(q).url]
  <1>2. /\ Update(V(q), new) /\ UNCHANGED <<job, rendering, drive, past>>
        /\ Go(q, "copy", V(q), Null) \/ Return(q)
    BY DEF Answer
  <1>3. rows[V(q)] # Null => /\ new \in Row
                             /\ new.status \in Settled => job[V(q)] = new.status
                             /\ new.approved => job[V(q)] = "completed"
    BY <1>1, RowsTrue DEF Row, Status
  <1> HIDE DEF new
  <1>4. TypedTables' /\ RowTellsTheTruth'
    BY <1>1, <1>2, <1>3, UpdateKeeps
  <1>5. CASE Return(q)
    BY <1>2, <1>4, <1>5, Writes
  <1>6. CASE Go(q, "copy", V(q), Null)
    <2>1. PICK v \in Video : v = V(q)
      BY <1>1
    <2>2. Apt("copy", v, Null)'
      BY HoldsNothing DEF Apt, Steps
    <2>3. Requests'
      BY <2>1, <2>2, <1>2, <1>6, NowHolds, JobsSame
    <2>. QED
      BY <2>3, <1>2, <1>4, Parts, PartsNext, NothingElse
  <1>. QED
    BY <1>2, <1>5, <1>6

LEMMA RecordHolds == ASSUME IInv, NEW q \in Request, Record(q) PROVE IInv'
  <1>1. V(q) \in Video /\ Held(q)[1] \in Source /\ Held(q)[2] \in Production \cup {Null}
    BY AtStep DEF Record, Holds, InsertHolds
  <1> DEFINE new == NewRow(Held(q)[1], Held(q)[2], "processing")
  <1>2. rows' = [rows EXCEPT ![V(q)] = new] /\ Return(q) /\ UNCHANGED <<job, rendering, drive, past>>
    BY DEF Record
  <1>3. new \in Row /\ new.status = "processing" /\ new.approved = FALSE
    BY <1>1, NewRowIsTrue DEF Status
  <1> HIDE DEF new
  <1>4. TypedTables'
    BY <1>1, <1>2, <1>3 DEF IInv, TypeOK, TypedTables, Jobs
  <1>5. RowTellsTheTruth'
    BY <1>1, <1>2, <1>3 DEF IInv, TypeOK, RowTellsTheTruth, Settled
  <1>. QED
    BY <1>2, <1>4, <1>5, Writes

LEMMA DropHolds == ASSUME IInv, NEW q \in Request, Drop(q) PROVE IInv'
  <1>1. V(q) \in Video /\ rows' = [rows EXCEPT ![V(q)] = Null] /\ Return(q)
        /\ UNCHANGED <<job, rendering, drive, past>>
    BY AtStep DEF Drop
  <1>2. TypedTables' /\ RowTellsTheTruth'
    BY <1>1 DEF IInv, TypeOK, TypedTables, Jobs, RowTellsTheTruth
  <1>. QED
    BY <1>1, <1>2, Writes

LEMMA ClearHolds == ASSUME IInv, NEW q \in Request, Clear(q) PROVE IInv'
  <1>1. V(q) \in Video /\ job[V(q)] = "completed"
    BY AtStep DEF Clear, Holds, ApprovalHolds, Approving
  <1>2. rows' = [w \in Video |-> IF Rivals(Held(q), w) THEN [rows[w] EXCEPT !.approved = FALSE]
                                                       ELSE rows[w]]
        /\ Go(q, "set", V(q), Null) /\ UNCHANGED <<job, rendering, drive, past>>
    BY DEF Clear
  <1>3. ASSUME NEW w \in Video
        PROVE  /\ rows'[w] \in Row \cup {Null}
               /\ rows'[w] # Null => /\ rows'[w].status \in Settled => job[w] = rows'[w].status
                                     /\ rows'[w].approved => job[w] = "completed"
    <2>1. CASE Rivals(Held(q), w)
      <3>1. rows[w] # Null /\ rows'[w] = [rows[w] EXCEPT !.approved = FALSE]
        BY <1>2, <2>1 DEF Rivals
      <3>. QED
        BY <3>1, RowsTrue DEF Row
    <2>2. CASE ~Rivals(Held(q), w)
      BY <1>2, <2>2, RowsTrue DEF IInv, TypeOK
    <2>. QED
      BY <2>1, <2>2
  <1>4. TypedTables'
    BY <1>2, <1>3 DEF IInv, TypeOK, TypedTables, Jobs
  <1>5. RowTellsTheTruth'
    BY <1>2, <1>3 DEF RowTellsTheTruth
  <1>6. PICK v \in Video : v = V(q)
    BY <1>1
  <1>7. Apt("set", v, Null)'
    BY <1>1, <1>2, <1>6 DEF Apt, Steps
  <1>8. Requests'
    BY <1>2, <1>6, <1>7, NowHolds, JobsSame
  <1>. QED
    BY <1>2, <1>4, <1>5, <1>8, Parts, PartsNext, NothingElse

-----------------------------------------------------------------------------
(* Renders begin and end: a job changes, from what no row claims yet. *)
LEMMA BuyHolds ==
  ASSUME IInv, NEW q \in Request, NEW v \in Video, NEW s \in Polled,
         NEW p \in Production \cup {Null}, Buy(q, v, s, p)
  PROVE  IInv'
  <1>1. /\ job[v] = "none" /\ job' = [job EXCEPT ![v] = "running"]
        /\ Go(q, "insert", v, <<s, p>>) /\ UNCHANGED <<rows, rendering, drive, past>>
    BY DEF Buy
  <1>2. job'[v] = "running" /\ \A w \in Video \ {v} : job'[w] = job[w]
    BY <1>1 DEF IInv, TypeOK
  <1>3. JobsMoveOn
    BY <1>1, <1>2 DEF JobsMoveOn, Settled
  <1>4. TypedTables'
    BY <1>1 DEF IInv, TypeOK, TypedTables, Jobs
  <1>5. RowTellsTheTruth'
    BY <1>1, <1>2 DEF IInv, RowTellsTheTruth, Settled
  <1>6. Apt("insert", v, <<s, p>>)'
    BY <1>2 DEF Apt, Steps, Source
  <1>7. Requests'
    BY <1>1, <1>3, <1>6, NowHolds
  <1>8. Renderings'
    BY <1>1, <1>2, Parts DEF Renderings
  <1>. QED
    BY <1>1, <1>4, <1>5, <1>7, <1>8, Parts, PartsNext, NothingElse

LEMMA JobEndsHolds ==
  ASSUME IInv, NEW v \in Video, NEW outcome \in Settled, JobEnds(v, outcome)
  PROVE  IInv'
  <1>1. /\ job[v] = "running" /\ v \notin DOMAIN rendering /\ job' = [job EXCEPT ![v] = outcome]
        /\ UNCHANGED <<rows, rendering, req, drive, past>>
    BY DEF JobEnds
  <1>2. job'[v] = outcome /\ \A w \in Video \ {v} : job'[w] = job[w]
    BY <1>1 DEF IInv, TypeOK
  <1>3. JobsMoveOn
    BY <1>1, <1>2 DEF JobsMoveOn, Settled
  <1>4. TypedTables'
    BY <1>1 DEF IInv, TypeOK, TypedTables, Jobs
  <1>5. RowTellsTheTruth'
    BY <1>1, <1>2 DEF IInv, RowTellsTheTruth, Settled
  <1>6. Requests'
    BY <1>1, <1>3, Stays
  <1>7. Renderings'
    BY <1>1, <1>2, Parts DEF Renderings
  <1>. QED
    BY <1>1, <1>4, <1>5, <1>6, <1>7, Parts, PartsNext, NothingElse

LEMMA ReadyHolds ==
  ASSUME IInv, NEW v \in Video, NEW s \in Source, NEW p \in Production,
         AddStock(v, s, p) \/ Import(v, s, p)
  PROVE  IInv'
  <1> DEFINE new == NewRow(s, p, "completed")
  <1>1. /\ job[v] = "none" /\ job' = [job EXCEPT ![v] = "completed"]
        /\ rows' = [rows EXCEPT ![v] = new] /\ UNCHANGED <<rendering, req, drive, past>>
    BY DEF AddStock, Import, AddReady
  <1>2. new \in Row /\ new.status = "completed"
    BY NewRowIsTrue DEF Status, Settled
  <1> HIDE DEF new
  <1>3. /\ job'[v] = "completed" /\ \A w \in Video \ {v} : job'[w] = job[w]
        /\ rows'[v] = new /\ \A w \in Video \ {v} : rows'[w] = rows[w]
    BY <1>1 DEF IInv, TypeOK
  <1>4. JobsMoveOn
    BY <1>1, <1>3 DEF JobsMoveOn, Settled
  <1>5. TypedTables'
    BY <1>1, <1>2 DEF IInv, TypeOK, TypedTables, Jobs, Settled
  <1>6. RowTellsTheTruth'
    BY <1>2, <1>3 DEF IInv, RowTellsTheTruth
  <1>7. Requests'
    BY <1>1, <1>4, Stays
  <1>8. Renderings'
    BY <1>1, <1>3, Parts DEF Renderings
  <1>. QED
    BY <1>1, <1>5, <1>6, <1>7, <1>8, Parts, PartsNext, NothingElse

LEMMA StartBackgroundHolds ==
  ASSUME IInv, NEW v \in Video, NEW s \in Source, NEW p \in Production, StartBackground(v, s, p)
  PROVE  IInv'
  <1> DEFINE new == NewRow(s, p, "processing")
  <1>1. /\ job[v] = "none" /\ job' = [job EXCEPT ![v] = "running"]
        /\ rows' = [rows EXCEPT ![v] = new] /\ UNCHANGED <<req, drive, past>>
        /\ rendering' = [w \in DOMAIN rendering \cup {v} |-> IF w = v THEN Null ELSE rendering[w]]
    BY DEF StartBackground
  <1>2. new \in Row /\ new.status = "processing" /\ new.approved = FALSE
    BY NewRowIsTrue DEF Status
  <1> HIDE DEF new
  <1>3. /\ job'[v] = "running" /\ \A w \in Video \ {v} : job'[w] = job[w]
        /\ rows'[v] = new /\ \A w \in Video \ {v} : rows'[w] = rows[w]
    BY <1>1 DEF IInv, TypeOK
  <1>4. JobsMoveOn
    BY <1>1, <1>3 DEF JobsMoveOn, Settled
  <1>5. TypedTables'
    BY <1>1, <1>2 DEF IInv, TypeOK, TypedTables, Jobs
  <1>6. RowTellsTheTruth'
    BY <1>1, <1>2, <1>3 DEF IInv, RowTellsTheTruth, Settled
  <1>7. Requests'
    BY <1>1, <1>4, Stays
  <1>8. Renderings'
    BY <1>1, <1>3, Parts DEF Renderings
  <1>. QED
    BY <1>1, <1>5, <1>6, <1>7, <1>8, Parts, PartsNext, NothingElse

LEMMA BackgroundUploadHolds ==
  ASSUME IInv, NEW v \in Video, NEW f \in File, BackgroundUpload(v, f)
  PROVE  IInv'
  <1>1. v \in DOMAIN rendering /\ Upload(f) /\ rendering' = [rendering EXCEPT ![v] = f]
        /\ UNCHANGED <<rows, job, req, past>>
    BY DEF BackgroundUpload
  <1>2. Drive'
    BY <1>1, Parts, Uploaded
  <1>3. Renderings'
    BY <1>1, Parts DEF Renderings
  <1>4. Requests'
    BY <1>1, Stays, JobsSame
  <1>. QED
    BY <1>1, <1>2, <1>3, <1>4, Parts, PartsNext, NothingElse

(* The end of a background render: its row, if it is still there, says how it ended. *)
LEMMA EndBackgroundHolds ==
  ASSUME IInv, NEW v \in Video, NEW outcome \in Settled, NEW new, v \in DOMAIN rendering,
         EndBackground(v, outcome, new),
         rows[v] # Null => new \in Row /\ new.status = outcome /\ new.approved = rows[v].approved
  PROVE  IInv'
  <1>1. /\ Update(v, new) /\ job' = [job EXCEPT ![v] = outcome] /\ UNCHANGED <<req, drive, past>>
        /\ rendering' = [w \in DOMAIN rendering \ {v} |-> rendering[w]]
    BY DEF EndBackground
  <1>2. /\ job'[v] = outcome /\ \A w \in Video \ {v} : job'[w] = job[w]
        /\ rows'[v] = (IF rows[v] = Null THEN Null ELSE new)
        /\ \A w \in Video \ {v} : rows'[w] = rows[w]
    BY <1>1 DEF IInv, TypeOK, Update
  <1>3. job[v] = "running"
    BY DEF IInv, Shapes
  <1>4. rows[v] # Null => rows[v].approved = FALSE
    BY <1>3, RowsTrue DEF Row
  <1>5. JobsMoveOn
    BY <1>2, <1>3 DEF JobsMoveOn, Settled
  <1>6. TypedTables'
    BY <1>1 DEF IInv, TypeOK, TypedTables, Jobs, Update
  <1>7. RowTellsTheTruth'
    BY <1>2, <1>4 DEF IInv, RowTellsTheTruth
  <1>8. Requests'
    BY <1>1, <1>5, Stays
  <1>9. Renderings'
    BY <1>1, <1>2, Parts DEF Renderings
  <1>. QED
    BY <1>1, <1>6, <1>7, <1>8, <1>9, Parts, PartsNext, NothingElse

LEMMA BackgroundEndsHolds ==
  ASSUME IInv, NEW v \in Video, BackgroundDone(v) \/ BackgroundFails(v)
  PROVE  IInv'
  <1>1. CASE BackgroundDone(v)
    <2> DEFINE new == [rows[v] EXCEPT !.status = "completed", !.url = TRUE, !.file = rendering[v]]
    <2>1. v \in DOMAIN rendering /\ EndBackground(v, "completed", new)
      BY <1>1 DEF BackgroundDone
    <2>2. rendering[v] \in File \cup {Null}
      BY <2>1 DEF IInv, Shapes
    <2>3. rows[v] # Null => new \in Row /\ new.status = "completed" /\ new.approved = rows[v].approved
      BY <2>2, RowsTrue DEF Row, Settled
    <2> HIDE DEF new
    <2>4. "completed" \in Settled
      BY DEF Settled
    <2>. QED
      BY <2>1, <2>3, <2>4, EndBackgroundHolds
  <1>2. CASE BackgroundFails(v)
    <2> DEFINE new == [rows[v] EXCEPT !.status = "failed"]
    <2>1. v \in DOMAIN rendering /\ EndBackground(v, "failed", new)
      BY <1>2 DEF BackgroundFails
    <2>2. rows[v] # Null => new \in Row /\ new.status = "failed" /\ new.approved = rows[v].approved
      BY RowsTrue DEF Row, Settled
    <2> HIDE DEF new
    <2>3. "failed" \in Settled
      BY DEF Settled
    <2>. QED
      BY <2>1, <2>2, <2>3, EndBackgroundHolds
  <1>. QED
    BY <1>1, <1>2

LEMMA RestartHolds == ASSUME MaxRestarts \in Nat, IInv, Restart PROVE IInv'
  <1>1. /\ req' = [q \in Request |-> Null] /\ rendering' = [v \in {} |-> Null]
        /\ UNCHANGED <<rows, job, drive>>
    BY DEF Restart
  <1>2. Requests'
    BY <1>1 DEF Requests, Holds, InsertHolds, AnswerHolds, ApprovalHolds, FlagHolds, FileHolds, At,
                Approving
  <1>3. Renderings'
    BY <1>1 DEF Renderings
  <1>4. Past'
    BY Parts DEF Restart, Past, Renderings
  <1>. QED
    BY <1>1, <1>2, <1>3, <1>4, Parts, PartsNext, NothingElse

-----------------------------------------------------------------------------
LEMMA StepHolds == ASSUME MaxRestarts \in Nat PROVE IInv /\ [Next]_vars => IInv'
  <1> SUFFICES ASSUME IInv, [Next]_vars PROVE IInv'
    OBVIOUS
  <1>1. ASSUME NEW q \in Request, Finish(q) PROVE IInv'
    BY <1>1, RecordHolds, AskHolds, AnswerStepHolds, GiveUpHolds, FileCopyHolds, ShelveRecordHolds,
       TagRecordHolds, ClearHolds, SetApprovedHolds, DeleteCopyHolds, DropHolds DEF Finish
  <1>2. ASSUME NEW q \in Request, NEW f \in File, Copy(q, f) \/ ShelveUpload(q, f) PROVE IInv'
    BY <1>2, UploadHolds
  <1>3. ASSUME NEW q \in Request, NEW v \in Video,
               Poll(q, v) \/ Shelve(q, v) \/ Tag(q, v) \/ Approve(q, v) \/ Discard(q, v)
        PROVE  IInv'
    BY <1>3, PollHolds, ShelveHolds, TagHolds, ApproveHolds, DiscardHolds
  <1>4. ASSUME NEW v \in Video, BackgroundDone(v) \/ BackgroundFails(v) PROVE IInv'
    BY <1>4, BackgroundEndsHolds
  <1>5. CASE Restart
    BY <1>5, RestartHolds
  <1>6. CASE UNCHANGED vars
    <2>1. UNCHANGED <<rows, job, rendering, req, drive, past>>
      BY <1>6 DEF vars, drive, past
    <2>2. Requests'
      BY <2>1, Stays, JobsSame
    <2>. QED
      BY <2>1, <2>2, Parts, PartsNext, NothingElse
  <1>. QED
    BY <1>1, <1>2, <1>3, <1>4, <1>5, <1>6, BuyHolds, JobEndsHolds, ReadyHolds,
       StartBackgroundHolds, BackgroundUploadHolds DEF Next

(* The tables of the model keep their types, for any number of rows, requests and files. *)
THEOREM RenderTyping == ASSUME MaxRestarts \in Nat PROVE Spec => []TypeOK
  <1>1. IInv => TypeOK
    BY DEF IInv
  <1>. QED
    BY <1>1, InitHolds, StepHolds, PTL DEF Spec

(* What GET /heygen/videos/:id, the background renders and an approval leave in a row is
   what happened to the render, however many of them interleave with restarts.        *)
THEOREM RowsNeverLie == ASSUME MaxRestarts \in Nat PROVE Spec => []RowTellsTheTruth
  <1>1. IInv => RowTellsTheTruth
    BY DEF IInv
  <1>. QED
    BY <1>1, InitHolds, StepHolds, PTL DEF Spec

-----------------------------------------------------------------------------
(* One approved render per production and source.  An approval clears by what it read of
   its row, so the row must still be the one it read: a row is written anew only for a
   render that has no row yet.                                                        *)
Known == \A v \in Video : rows[v] # Null => job[v] # "none"
NoRowYet(q) == At(q, "insert") => rows[V(q)] = Null
Apart(q, r) ==
  At(q, "insert") /\ (At(r, "insert") \/ Approving(r)) /\ V(q) = V(r) => q = r
Unwritten == \A q \in Request : NoRowYet(q) /\ \A r \in Request : Apart(q, r)

Rivalry(v, w) == /\ rows[v] # Null /\ rows[w] # Null /\ rows[v].production # Null
                 /\ rows[v].production = rows[w].production /\ rows[v].source = rows[w].source
Alone == \A q, r \in Request : Approving(q) /\ Approving(r) => q = r
Chosen(q) == At(q, "clear") /\ rows[V(q)] # Null =>
               /\ Held(q).production = rows[V(q)].production
               /\ Held(q).source = rows[V(q)].source
Cleared(q) == At(q, "set") =>
                \A w \in Video \ {V(q)} : Rivalry(V(q), w) => ~rows[w].approved
Unraced == Alone /\ OneApproved /\ \A q \in Request : Chosen(q) /\ Cleared(q)

AInv == IInv /\ Known /\ Unwritten /\ (~raced => Unraced)

(* A step that approves nothing and moves no row to another production or source. *)
NoNewClaim ==
  \A v \in Video : rows'[v] # Null =>
    /\ rows[v] # Null
    /\ rows'[v].production = rows[v].production /\ rows'[v].source = rows[v].source
    /\ rows'[v].approved => rows[v].approved
Claims(d) == At(d, "insert") \/ Approving(d)

LEMMA ClaimVideo == ASSUME IInv, NEW d \in Request, Claims(d) PROVE V(d) \in Video
  BY AtStep DEF Claims, Approving

LEMMA QuietStep ==
  ASSUME AInv, NoNewClaim, JobsMoveOn, raced' = raced,
         \A d \in Request : Claims(d)' => req'[d] = req[d]
  PROVE  (Known /\ Unwritten /\ (~raced => Unraced))'
  <1>1. Known'
    BY DEF AInv, Known, NoNewClaim, JobsMoveOn
  <1>2. \A d \in Request : Claims(d)' => Claims(d) /\ V(d)' = V(d) /\ Held(d)' = Held(d)
    BY DEF Claims, At, Approving, V, Held
  <1>3. \A d \in Request : /\ At(d, "insert")' => At(d, "insert")
                           /\ At(d, "clear")' => At(d, "clear")
                           /\ At(d, "set")' => At(d, "set")
    BY DEF Claims, At, Approving
  <1>4. Unwritten'
    <2>1. ASSUME NEW d \in Request PROVE NoRowYet(d)'
      BY <1>2, <1>3, ClaimVideo DEF AInv, Unwritten, NoRowYet, NoNewClaim, Claims
    <2>2. ASSUME NEW d \in Request, NEW e \in Request PROVE Apart(d, e)'
      BY <1>2, <1>3 DEF AInv, Unwritten, Apart, Claims, Approving
    <2>. QED
      BY <2>1, <2>2 DEF Unwritten
  <1>5. ASSUME ~raced' PROVE Unraced'
    <2>0. Unraced
      BY <1>5 DEF AInv
    <2>1. Alone'
      BY <2>0, <1>3 DEF Unraced, Alone, Approving
    <2>2. OneApproved'
      BY <2>0, <1>5 DEF Unraced, OneApproved, Approved, NoNewClaim
    <2>3. ASSUME NEW d \in Request PROVE Chosen(d)'
      <3>1. SUFFICES ASSUME At(d, "clear")', rows'[V(d)'] # Null
                     PROVE  /\ Held(d)'.production = rows'[V(d)'].production
                            /\ Held(d)'.source = rows'[V(d)'].source
        BY DEF Chosen
      <3>2. At(d, "clear") /\ V(d)' = V(d) /\ Held(d)' = Held(d) /\ V(d) \in Video
        BY <3>1, <1>2, <1>3, ClaimVideo DEF AInv, Claims, Approving
      <3>. QED
        BY <3>1, <3>2, <2>0 DEF Unraced, Chosen, NoNewClaim
    <2>4. ASSUME NEW d \in Request PROVE Cleared(d)'
      <3>1. SUFFICES ASSUME At(d, "set")', NEW w \in Video \ {V(d)'}, Rivalry(V(d), w)'
                     PROVE  ~rows'[w].approved
        BY DEF Cleared
      <3>2. At(d, "set") /\ V(d)' = V(d) /\ V(d) \in Video
        BY <3>1, <1>2, <1>3, ClaimVideo DEF AInv, Claims, Approving
      <3>3. Rivalry(V(d), w)
        BY <3>1, <3>2 DEF Rivalry, NoNewClaim
      <3>. QED
        BY <3>1, <3>2, <3>3, <2>0 DEF Unraced, Cleared, NoNewClaim, Rivalry
    <2>. QED
      BY <2>1, <2>2, <2>3, <2>4 DEF Unraced
  <1>. QED
    BY <1>1, <1>4, <1>5

(* The three steps that write a row anew. *)
LEMMA NewRowStep ==
  ASSUME AInv, NEW v \in Video, rows[v] = Null, raced' = raced, JobsMoveOn, job'[v] # "none",
         rows'[v].approved = FALSE, \A w \in Video \ {v} : rows'[w] = rows[w],
         \A d \in Request : Claims(d)' => req'[d] = req[d] /\ V(d) # v
  PROVE  (Known /\ Unwritten /\ (~raced => Unraced))'
  <1>1. Known'
    BY DEF AInv, Known, JobsMoveOn
  <1>2. \A d \in Request : Claims(d)' => Claims(d) /\ V(d)' = V(d) /\ Held(d)' = Held(d)
    BY DEF Claims, At, Approving, V, Held
  <1>3. \A d \in Request : /\ At(d, "insert")' => At(d, "insert")
                           /\ At(d, "clear")' => At(d, "clear")
                           /\ At(d, "set")' => At(d, "set")
    BY DEF Claims, At, Approving
  <1>4. \A d \in Request : Claims(d)' => V(d) \in Video \ {v} /\ rows'[V(d)] = rows[V(d)]
    BY <1>2, ClaimVideo DEF AInv
  <1>5. Unwritten'
    <2>1. ASSUME NEW d \in Request PROVE NoRowYet(d)'
      BY <1>2, <1>3, <1>4 DEF AInv, Unwritten, NoRowYet, Claims
    <2>2. ASSUME NEW d \in Request, NEW e \in Request PROVE Apart(d, e)'
      BY <1>2, <1>3 DEF AInv, Unwritten, Apart, Claims, Approving
    <2>. QED
      BY <2>1, <2>2 DEF Unwritten
  <1>6. ASSUME ~raced' PROVE Unraced'
    <2>0. Unraced
      BY <1>6 DEF AInv
    <2>1. Alone'
      BY <2>0, <1>3 DEF Unraced, Alone, Approving
    <2>2. OneApproved'
      BY <2>0, <1>6 DEF Unraced, OneApproved, Approved
    <2>3. ASSUME NEW d \in Request PROVE Chosen(d)'
      BY <2>0, <1>2, <1>3, <1>4 DEF Unraced, Chosen, Claims, Approving
    <2>4. ASSUME NEW d \in Request PROVE Cleared(d)'
      <3>1. SUFFICES ASSUME At(d, "set")', NEW w \in Video \ {V(d)'}, Rivalry(V(d), w)',
                            w # v
                     PROVE  ~rows'[w].approved
        BY DEF Cleared
      <3>2. At(d, "set") /\ V(d)' = V(d) /\ V(d) \in Video \ {v}
        BY <3>1, <1>2, <1>3, <1>4 DEF Claims, Approving
      <3>3. Rivalry(V(d), w) /\ rows'[w] = rows[w]
        BY <3>1, <3>2 DEF Rivalry
      <3>. QED
        BY <3>1, <3>2, <3>3, <2>0 DEF Unraced, Cleared
    <2>. QED
      BY <2>1, <2>2, <2>3, <2>4 DEF Unraced
  <1>. QED
    BY <1>1, <1>5, <1>6

Rest == Known /\ Unwritten /\ (~raced => Unraced)

LEMMA NothingReturns ==
  ASSUME IInv, NEW q \in Request, Return(q)
  PROVE  \A d \in Request : Claims(d)' => req'[d] = req[d] /\ d # q
  BY DEF IInv, Shapes, Return, Claims, At, Approving

LEMMA NothingClaims ==
  ASSUME IInv, NEW q \in Request, NEW step \in Steps \ {"insert", "clear", "set"}, NEW v, NEW held,
         Go(q, step, v, held)
  PROVE  \A d \in Request : Claims(d)' => req'[d] = req[d]
  BY DEF IInv, Shapes, Go, Claims, At, Approving, Steps

LEMMA RowsRest == ASSUME AInv, UNCHANGED rows PROVE NoNewClaim
  BY DEF NoNewClaim

LEMMA UpdateRest ==
  ASSUME IInv, NEW v \in Video, NEW new, Update(v, new),
         rows[v] # Null => /\ new.production = rows[v].production /\ new.source = rows[v].source
                           /\ new.approved = rows[v].approved
  PROVE  NoNewClaim
  BY DEF Update, NoNewClaim, IInv, TypeOK

LEMMA ReadersRest ==
  ASSUME AInv, NEW q \in Request,
         \/ Ask(q) \/ GiveUp(q) \/ DeleteCopy(q)
         \/ \E f \in File : Copy(q, f) \/ ShelveUpload(q, f)
         \/ \E v \in Video : Poll(q, v) \/ Shelve(q, v) \/ Tag(q, v) \/ Discard(q, v)
  PROVE  Rest'
  <1>1. UNCHANGED <<rows, job, raced>> /\ NoNewClaim /\ JobsMoveOn
    BY RowsRest, JobsSame
       DEF Ask, GiveUp, DeleteCopy, Copy, ShelveUpload, Poll, Shelve, Tag, Discard, past
  <1>2. \/ Return(q)
        \/ \E step \in Steps \ {"insert", "clear", "set"} : \E v, held : Go(q, step, v, held)
    BY DEF Ask, GiveUp, DeleteCopy, Copy, ShelveUpload, Poll, Shelve, Tag, Discard, Steps
  <1>3. \A d \in Request : Claims(d)' => req'[d] = req[d]
    BY <1>2, NothingReturns, NothingClaims DEF AInv
  <1>. QED
    BY <1>1, <1>3, QuietStep DEF Rest

(* The writers of a row: none of them touches its production, source or approval. *)
LEMMA WritersRest ==
  ASSUME AInv, NEW q \in Request,
         FileCopy(q) \/ ShelveRecord(q) \/ TagRecord(q) \/ Answer(q) \/ Drop(q)
  PROVE  Rest'
  <1>0. V(q) \in Video /\ IInv
    BY AtStep DEF AInv, FileCopy, ShelveRecord, TagRecord, Answer, Drop
  <1>1. UNCHANGED <<job, raced>> /\ JobsMoveOn
    BY JobsSame DEF FileCopy, ShelveRecord, TagRecord, Answer, Drop, past
  <1>2. Return(q) \/ Go(q, "copy", V(q), Null)
    BY DEF FileCopy, ShelveRecord, TagRecord, Answer, Drop
  <1>3. \A d \in Request : Claims(d)' => req'[d] = req[d]
    BY <1>0, <1>2, NothingReturns, NothingClaims DEF Steps
  <1>4. NoNewClaim
    <2>1. CASE FileCopy(q)
      <3> DEFINE new == [rows[V(q)] EXCEPT !.file = Held(q)]
      <3>1. Update(V(q), new)
        BY <2>1 DEF FileCopy
      <3>2. rows[V(q)] # Null => /\ new.production = rows[V(q)].production
                                 /\ new.source = rows[V(q)].source
                                 /\ new.approved = rows[V(q)].approved
        BY <1>0, RowIsRow DEF Row
      <3> HIDE DEF new
      <3>. QED
        BY <1>0, <3>1, <3>2, UpdateRest
    <2>2. CASE ShelveRecord(q)
      <3> DEFINE new == [rows[V(q)] EXCEPT !.file = Held(q), !.shelved = TRUE]
      <3>1. Update(V(q), new)
        BY <2>2 DEF ShelveRecord
      <3>2. rows[V(q)] # Null => /\ new.production = rows[V(q)].production
                                 /\ new.source = rows[V(q)].source
                                 /\ new.approved = rows[V(q)].approved
        BY <1>0, RowIsRow DEF Row
      <3> HIDE DEF new
      <3>. QED
        BY <1>0, <3>1, <3>2, UpdateRest
    <2>3. CASE TagRecord(q)
      <3> DEFINE new == [rows[V(q)] EXCEPT !.shelved = Held(q)]
      <3>1. Update(V(q), new)
        BY <2>3 DEF TagRecord
      <3>2. rows[V(q)] # Null => /\ new.production = rows[V(q)].production
                                 /\ new.source = rows[V(q)].source
                                 /\ new.approved = rows[V(q)].approved
        BY <1>0, RowIsRow DEF Row
      <3> HIDE DEF new
      <3>. QED
        BY <1>0, <3>1, <3>2, UpdateRest
    <2>4. CASE Answer(q)
      <3> DEFINE new == [rows[V(q)] EXCEPT !.status = Held(q).status, !.url = Held(q).url]
      <3>1. Update(V(q), new)
        BY <2>4 DEF Answer
      <3>2. rows[V(q)] # Null => /\ new.production = rows[V(q)].production
                                 /\ new.source = rows[V(q)].source
                                 /\ new.approved = rows[V(q)].approved
        BY <1>0, RowIsRow DEF Row
      <3> HIDE DEF new
      <3>. QED
        BY <1>0, <3>1, <3>2, UpdateRest
    <2>5. CASE Drop(q)
      BY <1>0, <2>5 DEF Drop, NoNewClaim, IInv, TypeOK
    <2>. QED
      BY <2>1, <2>2, <2>3, <2>4, <2>5 DEF FileCopy, ShelveRecord, TagRecord, Answer, Drop
  <1>. QED
    BY <1>1, <1>3, <1>4, QuietStep DEF Rest

(* Renders that go on or end, and a restart, which ends every request. *)
LEMMA BackgroundRest ==
  ASSUME AInv, NEW v \in Video,
         \/ \E outcome \in Settled : JobEnds(v, outcome)
         \/ \E f \in File : BackgroundUpload(v, f)
         \/ BackgroundDone(v) \/ BackgroundFails(v)
  PROVE  Rest'
  <1>0. IInv
    BY DEF AInv
  <1>1. UNCHANGED <<req, raced>>
    BY DEF JobEnds, BackgroundUpload, BackgroundDone, BackgroundFails, EndBackground, past
  <1>2. JobsMoveOn
    <2>1. job' = job \/ \E outcome \in Settled : job[v] = "running" /\ job' = [job EXCEPT ![v] = outcome]
      BY <1>0 DEF JobEnds, BackgroundUpload, BackgroundDone, BackgroundFails, EndBackground,
                  IInv, Shapes, Settled
    <2>. QED
      BY <1>0, <2>1 DEF JobsMoveOn, Settled, IInv, TypeOK
  <1>3. NoNewClaim
    <2>1. CASE UNCHANGED rows
      BY <2>1, RowsRest
    <2>2. CASE BackgroundDone(v)
      <3> DEFINE new == [rows[v] EXCEPT !.status = "completed", !.url = TRUE, !.file = rendering[v]]
      <3>1. Update(v, new)
        BY <2>2 DEF BackgroundDone, EndBackground
      <3>2. rows[v] # Null => /\ new.production = rows[v].production /\ new.source = rows[v].source
                              /\ new.approved = rows[v].approved
        BY <1>0, RowIsRow DEF Row
      <3> HIDE DEF new
      <3>. QED
        BY <1>0, <3>1, <3>2, UpdateRest
    <2>3. CASE BackgroundFails(v)
      <3> DEFINE new == [rows[v] EXCEPT !.status = "failed"]
      <3>1. Update(v, new)
        BY <2>3 DEF BackgroundFails, EndBackground
      <3>2. rows[v] # Null => /\ new.production = rows[v].production /\ new.source = rows[v].source
                              /\ new.approved = rows[v].approved
        BY <1>0, RowIsRow DEF Row
      <3> HIDE DEF new
      <3>. QED
        BY <1>0, <3>1, <3>2, UpdateRest
    <2>. QED
      BY <2>1, <2>2, <2>3 DEF JobEnds, BackgroundUpload
  <1>. QED
    BY <1>1, <1>2, <1>3, QuietStep DEF Rest

LEMMA RestartRest == ASSUME AInv, Restart PROVE Rest'
  <1>1. NoNewClaim /\ JobsMoveOn /\ raced' = raced
    BY RowsRest, JobsSame DEF Restart
  <1>2. \A d \in Request : ~Claims(d)'
    BY DEF Restart, Claims, Approving, At
  <1>. QED
    BY <1>1, <1>2, QuietStep DEF Rest

-----------------------------------------------------------------------------
(* The steps that write a row anew, or are about to. *)
LEMMA RecordRest == ASSUME AInv, NEW q \in Request, Record(q) PROVE Rest'
  <1>1. IInv /\ At(q, "insert") /\ V(q) \in Video /\ rows[V(q)] = Null /\ job[V(q)] # "none"
        /\ Held(q)[1] \in Source /\ Held(q)[2] \in Production \cup {Null}
    BY AtStep DEF AInv, Record, Unwritten, NoRowYet, Holds, InsertHolds
  <1>2. PICK v \in Video : v = V(q)
    BY <1>1
  <1> DEFINE new == NewRow(Held(q)[1], Held(q)[2], "processing")
  <1>3. rows' = [rows EXCEPT ![v] = new] /\ Return(q) /\ UNCHANGED <<job, raced>>
    BY <1>2 DEF Record, past
  <1>4. new.approved = FALSE
    BY DEF NewRow
  <1> HIDE DEF new
  <1>5. rows'[v].approved = FALSE /\ \A w \in Video \ {v} : rows'[w] = rows[w]
    BY <1>1, <1>3, <1>4 DEF IInv, TypeOK
  <1>6. \A d \in Request : Claims(d)' => req'[d] = req[d] /\ Claims(d) /\ d # q
    BY <1>1, <1>3, NothingReturns DEF Claims, Approving, At
  <1>7. \A d \in Request : Claims(d)' => V(d) # v
    BY <1>1, <1>2, <1>6 DEF AInv, Unwritten, Apart, Claims
  <1>. QED
    BY <1>1, <1>2, <1>3, <1>5, <1>6, <1>7, JobsSame, NewRowStep DEF Rest

LEMMA ReadyRest ==
  ASSUME AInv, NEW v \in Video, NEW s \in Source, NEW p \in Production,
         AddStock(v, s, p) \/ Import(v, s, p) \/ StartBackground(v, s, p)
  PROVE  Rest'
  <1>1. PICK st \in {"completed", "processing"}, outcome \in {"completed", "running"} :
          /\ rows' = [rows EXCEPT ![v] = NewRow(s, p, st)]
          /\ job' = [job EXCEPT ![v] = outcome] /\ UNCHANGED <<req, raced>> /\ job[v] = "none"
    BY DEF AddStock, Import, AddReady, StartBackground, past
  <1> DEFINE new == NewRow(s, p, st)
  <1>2. new.approved = FALSE
    BY DEF NewRow
  <1> HIDE DEF new
  <1>3. rows'[v].approved = FALSE /\ (\A w \in Video \ {v} : rows'[w] = rows[w])
        /\ job'[v] = outcome /\ \A w \in Video \ {v} : job'[w] = job[w]
    BY <1>1, <1>2 DEF AInv, IInv, TypeOK, new
  <1>4. rows[v] = Null /\ JobsMoveOn /\ job'[v] # "none"
    BY <1>1, <1>3 DEF AInv, Known, JobsMoveOn, Settled
  <1>5. \A d \in Request : Claims(d)' => req'[d] = req[d] /\ Claims(d)
    BY <1>1 DEF Claims, Approving, At
  <1>6. \A d \in Request : Claims(d)' => V(d) # v
    BY <1>1, <1>5, AtStep DEF AInv, Claims, Approving, Holds, InsertHolds, ApprovalHolds, IInv
  <1>. QED
    BY <1>1, <1>3, <1>4, <1>5, <1>6, NewRowStep DEF Rest

LEMMA BuyRest ==
  ASSUME AInv, NEW q \in Request, NEW v \in Video, NEW s \in Polled,
         NEW p \in Production \cup {Null}, Buy(q, v, s, p)
  PROVE  Rest'
  <1>1. /\ job[v] = "none" /\ UNCHANGED <<rows, raced>>
        /\ req'[q] = [step |-> "insert", video |-> v, held |-> <<s, p>>]
        /\ \A d \in Request \ {q} : req'[d] = req[d]
    BY DEF Buy, Go, past, AInv, IInv, Shapes
  <1>2. \A w \in Video : job[w] # "none" => job'[w] # "none"
    BY DEF Buy, AInv, IInv, TypeOK
  <1>3. Known'
    BY <1>1, <1>2 DEF AInv, Known
  <1>4. ~Approving(q)' /\ V(q)' = v
    BY <1>1 DEF At, Approving, V
  <1>5. \A d \in Request \ {q} : /\ At(d, "insert")' <=> At(d, "insert")
                                 /\ At(d, "clear")' <=> At(d, "clear")
                                 /\ At(d, "set")' <=> At(d, "set")
                                 /\ V(d)' = V(d) /\ Held(d)' = Held(d)
    BY <1>1 DEF At, V, Held
  <1>6. \A d \in Request : Claims(d) => V(d) # v
    BY <1>1, AtStep DEF AInv, Claims, Approving, Holds, InsertHolds, ApprovalHolds, IInv
  <1>7. Unwritten'
    <2>1. ASSUME NEW d \in Request PROVE NoRowYet(d)'
      BY <1>1, <1>4, <1>5 DEF AInv, Unwritten, NoRowYet, Known
    <2>2. ASSUME NEW d \in Request, NEW e \in Request PROVE Apart(d, e)'
      BY <1>4, <1>5, <1>6 DEF AInv, Unwritten, Apart, Claims, Approving
    <2>. QED
      BY <2>1, <2>2 DEF Unwritten
  <1>8. ASSUME ~raced' PROVE Unraced'
    <2>0. Unraced
      BY <1>1, <1>8 DEF AInv
    <2>1. Alone'
      BY <2>0, <1>4, <1>5 DEF Unraced, Alone, Approving
    <2>2. OneApproved'
      BY <2>0, <1>1 DEF Unraced, OneApproved, Approved
    <2>3. \A d \in Request : Chosen(d)' /\ Cleared(d)'
      BY <2>0, <1>1, <1>4, <1>5 DEF Unraced, Chosen, Cleared, Rivalry, Approving
    <2>. QED
      BY <2>1, <2>2, <2>3 DEF Unraced
  <1>. QED
    BY <1>3, <1>7, <1>8 DEF Rest

-----------------------------------------------------------------------------
(* An approval reads its row, clears its rivals, and is set. *)
LEMMA ApproveRest ==
  ASSUME AInv, NEW q \in Request, NEW v \in Video, Approve(q, v)
  PROVE  Rest'
  <1>1. /\ req[q] = Null /\ rows[v] # Null /\ UNCHANGED <<rows, job>>
        /\ req'[q] = [step |-> "clear", video |-> v,
                      held |-> [production |-> rows[v].production, source |-> rows[v].source]]
        /\ \A d \in Request \ {q} : req'[d] = req[d]
        /\ raced' = (raced \/ \E o \in Request : Approving(o))
    BY DEF Approve, Go, AInv, IInv, Shapes
  <1>2. Known'
    BY <1>1 DEF AInv, Known
  <1>3. /\ ~At(q, "insert")' /\ ~At(q, "set")' /\ V(q)' = v
        /\ Held(q)'.production = rows[v].production /\ Held(q)'.source = rows[v].source
    BY <1>1 DEF At, V, Held
  <1>4. \A d \in Request \ {q} : /\ At(d, "insert")' <=> At(d, "insert")
                                 /\ At(d, "clear")' <=> At(d, "clear")
                                 /\ At(d, "set")' <=> At(d, "set")
                                 /\ V(d)' = V(d) /\ Held(d)' = Held(d)
    BY <1>1 DEF At, V, Held
  <1>5. Unwritten'
    <2>1. ASSUME NEW d \in Request PROVE NoRowYet(d)'
      BY <1>1, <1>3, <1>4 DEF AInv, Unwritten, NoRowYet
    <2>2. ASSUME NEW d \in Request, NEW e \in Request PROVE Apart(d, e)'
      <3>1. CASE d = q \/ e # q
        BY <1>3, <1>4, <3>1 DEF AInv, Unwritten, Apart, Approving
      <3>2. CASE d # q /\ e = q
        BY <1>1, <1>3, <1>4, <3>2 DEF AInv, Unwritten, NoRowYet, Apart
      <3>. QED
        BY <3>1, <3>2
    <2>. QED
      BY <2>1, <2>2 DEF Unwritten
  <1>6. ASSUME ~raced' PROVE Unraced'
    <2>0. Unraced /\ ~raced /\ \A o \in Request : ~Approving(o)
      BY <1>1, <1>6 DEF AInv
    <2>1. \A d \in Request \ {q} : ~At(d, "clear")' /\ ~At(d, "set")'
      BY <2>0, <1>4 DEF Approving
    <2>2. Alone'
      BY <2>1 DEF Alone, Approving
    <2>3. OneApproved'
      BY <2>0, <1>1 DEF Unraced, OneApproved, Approved
    <2>4. \A d \in Request : Chosen(d)' /\ Cleared(d)'
      BY <2>1, <1>1, <1>3 DEF Chosen, Cleared
    <2>. QED
      BY <2>2, <2>3, <2>4 DEF Unraced
  <1>. QED
    BY <1>2, <1>5, <1>6 DEF Rest

LEMMA ClearRest == ASSUME AInv, NEW q \in Request, Clear(q) PROVE Rest'
  <1>0. IInv /\ At(q, "clear") /\ V(q) \in Video /\ q \in Request
    BY AtStep DEF AInv, Clear
  <1>1. /\ rows' = [w \in Video |-> IF Rivals(Held(q), w) THEN [rows[w] EXCEPT !.approved = FALSE]
                                                          ELSE rows[w]]
        /\ UNCHANGED <<job, raced>>
        /\ req'[q] = [step |-> "set", video |-> V(q), held |-> Null]
        /\ \A d \in Request \ {q} : req'[d] = req[d]
    BY DEF Clear, Go, past, AInv, IInv, Shapes
  <1>2. ASSUME NEW w \in Video, rows'[w] # Null
        PROVE  /\ rows[w] # Null
               /\ rows'[w].production = rows[w].production /\ rows'[w].source = rows[w].source
               /\ rows'[w].approved => rows[w].approved /\ ~Rivals(Held(q), w)
    <2>1. CASE Rivals(Held(q), w)
      <3>1. rows[w] \in Row /\ rows'[w] = [rows[w] EXCEPT !.approved = FALSE] /\ rows[w] # Null
        BY <1>0, <1>1, <2>1, RowIsRow DEF Rivals
      <3>. QED
        BY <3>1 DEF Row
    <2>2. CASE ~Rivals(Held(q), w)
      BY <1>1, <1>2, <2>2
    <2>. QED
      BY <2>1, <2>2
  <1>3. ~At(q, "insert")' /\ ~At(q, "clear")' /\ V(q)' = V(q)
    BY <1>1 DEF At, V
  <1>4. \A d \in Request \ {q} : /\ At(d, "insert")' <=> At(d, "insert")
                                 /\ At(d, "clear")' <=> At(d, "clear")
                                 /\ At(d, "set")' <=> At(d, "set")
                                 /\ V(d)' = V(d) /\ Held(d)' = Held(d)
    BY <1>1 DEF At, V, Held
  <1>5. Known'
    BY <1>1, <1>2 DEF AInv, Known
  <1>6. Unwritten'
    <2>1. ASSUME NEW d \in Request PROVE NoRowYet(d)'
      BY <1>2, <1>3, <1>4, ClaimVideo DEF AInv, Unwritten, NoRowYet, Claims
    <2>2. ASSUME NEW d \in Request, NEW e \in Request PROVE Apart(d, e)'
      BY <1>0, <1>3, <1>4 DEF AInv, Unwritten, Apart, Approving
    <2>. QED
      BY <2>1, <2>2 DEF Unwritten
  <1>7. ASSUME ~raced' PROVE Unraced'
    <2>0. Unraced /\ \A d \in Request \ {q} : ~At(d, "clear") /\ ~At(d, "set")
      BY <1>0, <1>1, <1>7 DEF AInv, Unraced, Alone, Approving
    <2>1. Alone'
      BY <2>0, <1>4 DEF Alone, Approving
    <2>2. OneApproved'
      BY <2>0, <1>1, <1>2, <1>7 DEF Unraced, OneApproved, Approved
    <2>3. ASSUME NEW w \in Video \ {V(q)}, Rivalry(V(q), w)' PROVE ~rows'[w].approved
      <3>1. /\ rows'[V(q)] # Null /\ rows'[w] # Null /\ rows'[V(q)].production # Null
            /\ rows'[V(q)].production = rows'[w].production /\ rows'[V(q)].source = rows'[w].source
        BY <2>3, <1>3 DEF Rivalry
      <3>2. Held(q).production = rows[V(q)].production /\ Held(q).source = rows[V(q)].source
        BY <3>1, <2>0, <1>0, <1>2 DEF Unraced, Chosen
      <3>3. Rivals(Held(q), w)
        BY <3>1, <3>2, <1>0, <1>2 DEF Rivals
      <3>. QED
        BY <3>1, <3>3, <1>2
    <2>4. \A d \in Request : Chosen(d)'
      BY <2>0, <1>3, <1>4 DEF Chosen
    <2>5. \A d \in Request : Cleared(d)'
      BY <2>0, <2>3, <1>3, <1>4 DEF Cleared
    <2>. QED
      BY <2>1, <2>2, <2>4, <2>5 DEF Unraced
  <1>. QED
    BY <1>5, <1>6, <1>7 DEF Rest

LEMMA SetApprovedRest == ASSUME AInv, NEW q \in Request, SetApproved(q) PROVE Rest'
  <1>0. IInv /\ At(q, "set") /\ V(q) \in Video
    BY AtStep DEF AInv, SetApproved
  <1>1. PICK v \in Video : v = V(q)
    BY <1>0
  <1>2. /\ Update(v, [rows[v] EXCEPT !.approved = TRUE]) /\ Return(q) /\ UNCHANGED <<job, raced>>
    BY <1>1 DEF SetApproved, past
  <1>3. /\ \A w \in Video \ {v} : rows'[w] = rows[w]
        /\ rows'[v] # Null => /\ rows[v] # Null /\ rows'[v].production = rows[v].production
                              /\ rows'[v].source = rows[v].source
    BY <1>0, <1>2, RowIsRow DEF Update, IInv, TypeOK, Row
  <1>4. \A d \in Request : Claims(d)' => req'[d] = req[d] /\ d # q
    BY <1>0, <1>2, NothingReturns
  <1>5. \A d \in Request : /\ At(d, "insert")' => At(d, "insert") /\ d # q
                           /\ At(d, "clear")' => At(d, "clear") /\ d # q
                           /\ At(d, "set")' => At(d, "set") /\ d # q
                           /\ Claims(d)' => V(d)' = V(d)
    BY <1>4 DEF Claims, At, Approving, V
  <1>6. Known'
    BY <1>2, <1>3 DEF AInv, Known
  <1>7. Unwritten'
    <2>1. ASSUME NEW d \in Request PROVE NoRowYet(d)'
      BY <1>3, <1>5, ClaimVideo DEF AInv, Unwritten, NoRowYet, Claims
    <2>2. ASSUME NEW d \in Request, NEW e \in Request PROVE Apart(d, e)'
      BY <1>5 DEF AInv, Unwritten, Apart, Claims, Approving
    <2>. QED
      BY <2>1, <2>2 DEF Unwritten
  <1>8. ASSUME ~raced' PROVE Unraced'
    <2>0. Unraced
      BY <1>2, <1>8 DEF AInv
    <2>1. \A d \in Request : ~At(d, "clear")' /\ ~At(d, "set")'
      BY <2>0, <1>0, <1>5 DEF Unraced, Alone, Approving
    <2>2. \A w \in Video \ {v} : Rivalry(v, w) => ~rows[w].approved
      BY <2>0, <1>0, <1>1 DEF Unraced, Cleared
    <2>3. OneApproved'
      BY <2>0, <2>2, <1>2, <1>3, <1>8 DEF Unraced, OneApproved, Approved, Rivalry
    <2>4. Alone' /\ \A d \in Request : Chosen(d)' /\ Cleared(d)'
      BY <2>1 DEF Alone, Approving, Chosen, Cleared
    <2>. QED
      BY <2>3, <2>4 DEF Unraced
  <1>. QED
    BY <1>6, <1>7, <1>8 DEF Rest

-----------------------------------------------------------------------------
LEMMA ApprovalStep == ASSUME MaxRestarts \in Nat PROVE AInv /\ [Next]_vars => AInv'
  <1> SUFFICES ASSUME AInv, [Next]_vars PROVE AInv'
    OBVIOUS
  <1>0. IInv'
    BY StepHolds DEF AInv
  <1>1. ASSUME NEW q \in Request, Finish(q) PROVE Rest'
    BY <1>1, RecordRest, ReadersRest, WritersRest, ClearRest, SetApprovedRest DEF Finish
  <1>2. ASSUME NEW q \in Request, NEW f \in File, Copy(q, f) \/ ShelveUpload(q, f) PROVE Rest'
    BY <1>2, ReadersRest
  <1>3. ASSUME NEW q \in Request, NEW v \in Video,
               Poll(q, v) \/ Shelve(q, v) \/ Tag(q, v) \/ Discard(q, v)
        PROVE  Rest'
    BY <1>3, ReadersRest
  <1>4. ASSUME NEW v \in Video,
               \/ \E outcome \in Settled : JobEnds(v, outcome)
               \/ \E f \in File : BackgroundUpload(v, f)
               \/ BackgroundDone(v) \/ BackgroundFails(v)
        PROVE  Rest'
    BY <1>4, BackgroundRest
  <1>5. CASE UNCHANGED vars
    <2>1. NoNewClaim /\ JobsMoveOn /\ UNCHANGED <<raced, req>>
      BY <1>5, RowsRest, JobsSame DEF vars
    <2>. QED
      BY <1>0, <2>1, QuietStep DEF AInv
  <1>6. Rest'
    <2>1. CASE UNCHANGED vars
      BY <1>5, <2>1 DEF AInv, Rest
    <2>2. CASE Next
      BY <1>1, <1>2, <1>3, <1>4, <2>2, ApproveRest, BuyRest, ReadyRest, RestartRest DEF Next
    <2>. QED
      BY <2>1, <2>2
  <1>. QED
    BY <1>0, <1>6 DEF AInv, Rest

(* A production has one approved render of each source, as the approval's two statements
   promise, as long as no two approvals are in flight together: whatever else polls,
   copies, tags, discards, renders or restarts in between.                           *)
THEOREM OneApprovalStands == ASSUME MaxRestarts \in Nat PROVE Spec => []OneApproved
  <1>1. Init => AInv
    <2> SUFFICES ASSUME Init PROVE AInv
      OBVIOUS
    <2>1. \A q \in Request : ~At(q, "insert") /\ ~At(q, "clear") /\ ~At(q, "set")
      BY DEF Init, At
    <2>2. \A v \in Video : rows[v] = Null
      BY DEF Init
    <2>. QED
      BY <2>1, <2>2, InitHolds
         DEF AInv, Known, Unwritten, NoRowYet, Apart, Unraced, Alone, Approving, OneApproved, Approved,
             Chosen, Cleared
  <1>2. AInv => OneApproved
    BY DEF AInv, Unraced, OneApproved
  <1>. QED
    BY <1>1, <1>2, ApprovalStep, PTL DEF Spec

-----------------------------------------------------------------------------
(* The safety half of EveryRenderIsTold: a row that says "processing" has somebody who
   can still change it - its own render in this gateway, or the provider a poll asks -
   or is one that a restart left behind.                                           *)
Tended(v) ==
  rows[v] # Null /\ rows[v].status = "processing" =>
    v \in killed \/ v \in DOMAIN rendering \/ rows[v].source \in Polled
StillTended ==
  \A v \in Video : rows[v] # Null /\ rows[v].status = "processing" =>
    \/ v \in killed
    \/ v \in DOMAIN rendering /\ job[v] = "running"
    \/ rows[v].source \in Polled /\ job[v] # "none"

(* A poll is about a row of a polled source, and what is bought becomes one: a late answer
   takes no row of a background render back to "processing".                        *)
Asks(q) == At(q, "ask") \/ At(q, "answer")
PolledOnly(q) ==
  /\ At(q, "insert") => Held(q)[1] \in Polled
  /\ Asks(q) => job[V(q)] # "none" /\ (rows[V(q)] = Null \/ rows[V(q)].source \in Polled)

TRest == Known /\ (\A v \in Video : Tended(v)) /\ \A q \in Request : PolledOnly(q)
TInv  == IInv /\ TRest

(* What a step may do to a row, and to who tends it. *)
RowGoesOn(v) ==
  \/ rows'[v] = Null
  \/ /\ rows[v] # Null /\ rows'[v].source = rows[v].source
     /\ rows'[v].status = "processing" => rows[v].status = "processing"
  \/ rows'[v].source \in Polled /\ job'[v] # "none"
  \/ job[v] = "none" /\ job'[v] # "none" /\ Tended(v)'
TenderGoesOn(v) ==
  v \in DOMAIN rendering \cup killed =>
    v \in DOMAIN rendering' \cup killed' \/ rows'[v] = Null \/ rows'[v].status \in Settled

LEMMA TendingStep ==
  ASSUME TInv, JobsMoveOn, \A v \in Video : RowGoesOn(v) /\ TenderGoesOn(v),
         \A q \in Request : req'[q] = req[q] \/ PolledOnly(q)'
  PROVE  TRest'
  <1>1. Known'
    BY DEF TInv, TRest, Known, RowGoesOn, JobsMoveOn
  <1>2. ASSUME NEW v \in Video PROVE Tended(v)'
    BY DEF TInv, TRest, Tended, RowGoesOn, TenderGoesOn, Settled
  <1>3. ASSUME NEW q \in Request, req'[q] = req[q] PROVE PolledOnly(q)'
    <2>1. PolledOnly(q) /\ (Asks(q) => V(q) \in Video)
      BY AtStep DEF TInv, TRest, Asks
    <2>2. /\ At(q, "insert")' <=> At(q, "insert")
          /\ Asks(q)' <=> Asks(q)
          /\ V(q)' = V(q) /\ Held(q)' = Held(q)
      BY <1>3 DEF At, Asks, V, Held
    <2>3. ASSUME Asks(q) PROVE job'[V(q)] # "none"
                               /\ (rows'[V(q)] = Null \/ rows'[V(q)].source \in Polled)
      <3>1. job[V(q)] # "none" /\ job'[V(q)] # "none" /\ RowGoesOn(V(q))
        BY <2>1, <2>3 DEF PolledOnly, JobsMoveOn
      <3>. QED
        BY <3>1, <2>1, <2>3 DEF PolledOnly, RowGoesOn
    <2>. QED
      BY <2>1, <2>2, <2>3 DEF PolledOnly
  <1>. QED
    BY <1>1, <1>2, <1>3 DEF TRest

(* What most steps leave alone. *)
LEMMA RowsGoOn == ASSUME UNCHANGED <<rows, rendering, killed>>
                  PROVE  \A v \in Video : RowGoesOn(v) /\ TenderGoesOn(v)
  BY DEF RowGoesOn, TenderGoesOn

LEMMA NotAsking ==
  ASSUME IInv, NEW q \in Request
  PROVE  /\ Return(q) => \A d \in Request : req'[d] = req[d] \/ PolledOnly(d)'
         /\ \A step \in Steps \ {"insert", "ask", "answer"} : \A v, held :
              Go(q, step, v, held) => \A d \in Request : req'[d] = req[d] \/ PolledOnly(d)'
  BY DEF IInv, Shapes, Return, Go, PolledOnly, Asks, At, Steps

LEMMA UpdateGoesOn ==
  ASSUME IInv, UNCHANGED <<rendering, killed>>, NEW v \in Video, NEW new, Update(v, new),
         rows[v] # Null => /\ new.source = rows[v].source
                           /\ new.status = rows[v].status
  PROVE  \A w \in Video : RowGoesOn(w) /\ TenderGoesOn(w)
  <1>1. \A w \in Video : IF w = v /\ rows[v] # Null THEN rows'[w] = new ELSE rows'[w] = rows[w]
    BY DEF Update, IInv, TypeOK
  <1>. QED
    BY <1>1 DEF RowGoesOn, TenderGoesOn

-----------------------------------------------------------------------------
(* Requests that only read, ask or upload. *)
LEMMA ReadersTend ==
  ASSUME TInv, NEW q \in Request,
         \/ GiveUp(q) \/ DeleteCopy(q)
         \/ \E f \in File : Copy(q, f) \/ ShelveUpload(q, f)
         \/ \E v \in Video : Shelve(q, v) \/ Tag(q, v) \/ Approve(q, v) \/ Discard(q, v)
  PROVE  TRest'
  <1>1. UNCHANGED <<rows, job, rendering, killed>>
    BY DEF GiveUp, DeleteCopy, Copy, ShelveUpload, Shelve, Tag, Approve, Discard, past
  <1>2. \/ Return(q)
        \/ \E step \in Steps \ {"insert", "ask", "answer"} : \E v, held : Go(q, step, v, held)
    BY DEF GiveUp, DeleteCopy, Copy, ShelveUpload, Shelve, Tag, Approve, Discard, Steps
  <1>3. \A d \in Request : req'[d] = req[d] \/ PolledOnly(d)'
    BY <1>2, NotAsking DEF TInv
  <1>. QED
    BY <1>1, <1>3, RowsGoOn, JobsSame, TendingStep

LEMMA PollTends == ASSUME TInv, NEW q \in Request, NEW v \in Video, Poll(q, v) PROVE TRest'
  <1>1. /\ rows[v] # Null /\ rows[v].source \in Polled /\ job[v] # "none"
        /\ UNCHANGED <<rows, job, rendering, killed>>
    BY DEF Poll, TInv, TRest, Known, past
  <1>2. CASE Go(q, "copy", v, Null)
    <2>1. \A d \in Request : req'[d] = req[d] \/ PolledOnly(d)'
      BY <1>2, NotAsking DEF TInv, Steps
    <2>. QED
      BY <1>1, <2>1, RowsGoOn, JobsSame, TendingStep
  <1>3. CASE Go(q, "ask", v, rows[v].url)
    <2>1. /\ req'[q] = [step |-> "ask", video |-> v, held |-> rows[v].url]
          /\ \A d \in Request \ {q} : req'[d] = req[d]
      BY <1>3 DEF Go, TInv, IInv, Shapes
    <2>2. PolledOnly(q)'
      BY <1>1, <2>1 DEF PolledOnly, Asks, At, V
    <2>. QED
      BY <1>1, <2>1, <2>2, RowsGoOn, JobsSame, TendingStep
  <1>. QED
    BY <1>2, <1>3 DEF Poll

LEMMA AskTends == ASSUME TInv, NEW q \in Request, Ask(q) PROVE TRest'
  <1>1. /\ Asks(q) /\ job[V(q)] # "none" /\ (rows[V(q)] = Null \/ rows[V(q)].source \in Polled)
        /\ UNCHANGED <<rows, job, rendering, killed>>
    BY DEF Ask, Asks, TInv, TRest, PolledOnly, past
  <1>2. \E held : /\ req'[q] = [step |-> "answer", video |-> V(q), held |-> held]
                  /\ \A d \in Request \ {q} : req'[d] = req[d]
    BY DEF Ask, Go, TInv, IInv, Shapes
  <1>3. V(q)' = V(q) /\ ~At(q, "insert")'
    BY <1>2 DEF V, At
  <1>4. PolledOnly(q)'
    BY <1>1, <1>3 DEF PolledOnly
  <1>. QED
    BY <1>1, <1>2, <1>4, RowsGoOn, JobsSame, TendingStep

LEMMA BuyTends ==
  ASSUME TInv, NEW q \in Request, NEW v \in Video, NEW s \in Polled,
         NEW p \in Production \cup {Null}, Buy(q, v, s, p)
  PROVE  TRest'
  <1>1. /\ job[v] = "none" /\ job' = [job EXCEPT ![v] = "running"]
        /\ UNCHANGED <<rows, rendering, killed>>
        /\ req'[q] = [step |-> "insert", video |-> v, held |-> <<s, p>>]
        /\ \A d \in Request \ {q} : req'[d] = req[d]
    BY DEF Buy, Go, past, TInv, IInv, Shapes
  <1>2. JobsMoveOn
    BY <1>1 DEF JobsMoveOn, Settled, TInv, IInv, TypeOK
  <1>3. PolledOnly(q)'
    BY <1>1 DEF PolledOnly, Asks, At, Held
  <1>. QED
    BY <1>1, <1>2, <1>3, RowsGoOn, TendingStep

-----------------------------------------------------------------------------
(* Requests that write a row. *)
LEMMA RecordTends == ASSUME TInv, NEW q \in Request, Record(q) PROVE TRest'
  <1>1. /\ V(q) \in Video /\ Held(q)[1] \in Polled /\ job[V(q)] # "none"
    BY AtStep DEF Record, TInv, TRest, PolledOnly, Holds, InsertHolds
  <1>2. PICK v \in Video, s \in Polled : v = V(q) /\ s = Held(q)[1]
    BY <1>1
  <1> DEFINE new == NewRow(s, Held(q)[2], "processing")
  <1>3. rows' = [rows EXCEPT ![v] = new] /\ Return(q) /\ UNCHANGED <<job, rendering, killed>>
    BY <1>2 DEF Record, past
  <1>4. new.source = s
    BY DEF NewRow
  <1> HIDE DEF new
  <1>5. rows'[v].source = s /\ \A w \in Video \ {v} : rows'[w] = rows[w]
    BY <1>3, <1>4 DEF TInv, IInv, TypeOK
  <1>6. \A w \in Video : RowGoesOn(w) /\ TenderGoesOn(w)
    BY <1>1, <1>2, <1>3, <1>5 DEF RowGoesOn, TenderGoesOn
  <1>7. \A d \in Request : req'[d] = req[d] \/ PolledOnly(d)'
    BY <1>3, NotAsking DEF TInv
  <1>. QED
    BY <1>3, <1>6, <1>7, JobsSame, TendingStep

(* The writers that keep what a row says of its render. *)
LEMMA WritersTend ==
  ASSUME TInv, NEW q \in Request,
         FileCopy(q) \/ ShelveRecord(q) \/ TagRecord(q) \/ SetApproved(q)
  PROVE  TRest'
  <1>1. IInv /\ V(q) \in Video
    BY AtStep DEF TInv, FileCopy, ShelveRecord, TagRecord, SetApproved
  <1>2. Return(q) /\ UNCHANGED <<job, rendering, killed>>
    BY DEF FileCopy, ShelveRecord, TagRecord, SetApproved, past
  <1>3. \E new : /\ Update(V(q), new)
                 /\ rows[V(q)] # Null => /\ new.source = rows[V(q)].source
                                         /\ new.status = rows[V(q)].status
    <2>1. CASE FileCopy(q)
      <3> WITNESS [rows[V(q)] EXCEPT !.file = Held(q)]
      <3>. QED
        BY <1>1, <2>1, RowIsRow DEF FileCopy, Row
    <2>2. CASE ShelveRecord(q)
      <3> WITNESS [rows[V(q)] EXCEPT !.file = Held(q), !.shelved = TRUE]
      <3>. QED
        BY <1>1, <2>2, RowIsRow DEF ShelveRecord, Row
    <2>3. CASE TagRecord(q)
      <3> WITNESS [rows[V(q)] EXCEPT !.shelved = Held(q)]
      <3>. QED
        BY <1>1, <2>3, RowIsRow DEF TagRecord, Row
    <2>4. CASE SetApproved(q)
      <3> WITNESS [rows[V(q)] EXCEPT !.approved = TRUE]
      <3>. QED
        BY <1>1, <2>4, RowIsRow DEF SetApproved, Row
    <2>. QED
      BY <2>1, <2>2, <2>3, <2>4
  <1>4. \A w \in Video : RowGoesOn(w) /\ TenderGoesOn(w)
    BY <1>1, <1>2, <1>3, UpdateGoesOn
  <1>5. \A d \in Request : req'[d] = req[d] \/ PolledOnly(d)'
    BY <1>1, <1>2, NotAsking
  <1>. QED
    BY <1>2, <1>4, <1>5, JobsSame, TendingStep

(* A late answer: the row it takes back to "processing" is one a poll asks about. *)
LEMMA AnswerTends == ASSUME TInv, NEW q \in Request, Answer(q) PROVE TRest'
  <1>1. /\ IInv /\ V(q) \in Video /\ job[V(q)] # "none"
        /\ rows[V(q)] = Null \/ rows[V(q)].source \in Polled
    BY AtStep DEF TInv, TRest, Answer, PolledOnly, Asks
  <1>2. PICK v \in Video : v = V(q)
    BY <1>1
  <1> DEFINE new == [rows[v] EXCEPT !.status = Held(q).status, !.url = Held(q).url]
  <1>3. /\ Update(v, new) /\ UNCHANGED <<job, rendering, killed>>
        /\ Go(q, "copy", v, Null) \/ Return(q)
    BY <1>2 DEF Answer, past
  <1>4. rows[v] # Null => new.source = rows[v].source
    BY <1>1, RowIsRow DEF Row
  <1> HIDE DEF new
  <1>5. \A w \in Video : IF w = v /\ rows[v] # Null THEN rows'[w] = new ELSE rows'[w] = rows[w]
    BY <1>1, <1>3 DEF Update, IInv, TypeOK
  <1>6. \A w \in Video : RowGoesOn(w) /\ TenderGoesOn(w)
    BY <1>1, <1>2, <1>3, <1>4, <1>5 DEF RowGoesOn, TenderGoesOn
  <1>7. \A d \in Request : req'[d] = req[d] \/ PolledOnly(d)'
    BY <1>1, <1>3, NotAsking DEF Steps
  <1>. QED
    BY <1>3, <1>6, <1>7, JobsSame, TendingStep

LEMMA DropTends == ASSUME TInv, NEW q \in Request, Drop(q) PROVE TRest'
  <1>1. /\ IInv /\ rows' = [rows EXCEPT ![V(q)] = Null] /\ Return(q)
        /\ UNCHANGED <<job, rendering, killed>>
    BY DEF TInv, Drop, past
  <1>2. \A w \in Video : rows'[w] = Null \/ rows'[w] = rows[w]
    BY <1>1 DEF IInv, TypeOK
  <1>3. \A w \in Video : RowGoesOn(w) /\ TenderGoesOn(w)
    BY <1>1, <1>2 DEF RowGoesOn, TenderGoesOn
  <1>4. \A d \in Request : req'[d] = req[d] \/ PolledOnly(d)'
    BY <1>1, NotAsking
  <1>. QED
    BY <1>1, <1>3, <1>4, JobsSame, TendingStep

LEMMA ClearTends == ASSUME TInv, NEW q \in Request, Clear(q) PROVE TRest'
  <1>1. /\ IInv /\ Go(q, "set", V(q), Null) /\ UNCHANGED <<job, rendering, killed>>
        /\ rows' = [w \in Video |-> IF Rivals(Held(q), w) THEN [rows[w] EXCEPT !.approved = FALSE]
                                                          ELSE rows[w]]
    BY DEF TInv, Clear, past
  <1>2. ASSUME NEW w \in Video, rows[w] # Null
        PROVE  rows'[w].source = rows[w].source /\ rows'[w].status = rows[w].status
    BY <1>1, <1>2, RowIsRow DEF Row
  <1>3. \A w \in Video : rows[w] = Null => rows'[w] = Null
    BY <1>1 DEF Rivals
  <1>4. \A w \in Video : RowGoesOn(w) /\ TenderGoesOn(w)
    BY <1>1, <1>2, <1>3 DEF RowGoesOn, TenderGoesOn
  <1>5. \A d \in Request : req'[d] = req[d] \/ PolledOnly(d)'
    BY <1>1, NotAsking DEF Steps
  <1>. QED
    BY <1>1, <1>4, <1>5, JobsSame, TendingStep

-----------------------------------------------------------------------------
(* Renders begin, go on and end. *)
LEMMA ReadyTends ==
  ASSUME TInv, NEW v \in Video, NEW s \in Source, NEW p \in Production,
         AddStock(v, s, p) \/ Import(v, s, p)
  PROVE  TRest'
  <1> DEFINE new == NewRow(s, p, "completed")
  <1>1. /\ IInv /\ job[v] = "none" /\ job' = [job EXCEPT ![v] = "completed"]
        /\ rows' = [rows EXCEPT ![v] = new] /\ UNCHANGED <<rendering, req, killed>>
    BY DEF TInv, AddStock, Import, AddReady, past
  <1>2. new.status = "completed"
    BY DEF NewRow
  <1> HIDE DEF new
  <1>3. /\ job'[v] = "completed" /\ rows'[v] = new
        /\ \A w \in Video \ {v} : job'[w] = job[w] /\ rows'[w] = rows[w]
    BY <1>1 DEF IInv, TypeOK
  <1>4. JobsMoveOn
    BY <1>1, <1>3 DEF JobsMoveOn, Settled
  <1>5. \A w \in Video : RowGoesOn(w) /\ TenderGoesOn(w)
    BY <1>1, <1>2, <1>3 DEF RowGoesOn, TenderGoesOn, Tended
  <1>. QED
    BY <1>1, <1>4, <1>5, TendingStep

LEMMA StartBackgroundTends ==
  ASSUME TInv, NEW v \in Video, NEW s \in Source, NEW p \in Production, StartBackground(v, s, p)
  PROVE  TRest'
  <1> DEFINE new == NewRow(s, p, "processing")
  <1>1. /\ IInv /\ job[v] = "none" /\ job' = [job EXCEPT ![v] = "running"]
        /\ rows' = [rows EXCEPT ![v] = new] /\ UNCHANGED <<req, killed>>
        /\ DOMAIN rendering' = DOMAIN rendering \cup {v}
    BY DEF TInv, StartBackground, past
  <1> HIDE DEF new
  <1>2. /\ job'[v] = "running"
        /\ \A w \in Video \ {v} : job'[w] = job[w] /\ rows'[w] = rows[w]
    BY <1>1 DEF IInv, TypeOK
  <1>3. JobsMoveOn
    BY <1>1, <1>2 DEF JobsMoveOn, Settled
  <1>4. \A w \in Video : RowGoesOn(w) /\ TenderGoesOn(w)
    BY <1>1, <1>2 DEF RowGoesOn, TenderGoesOn, Tended
  <1>. QED
    BY <1>1, <1>3, <1>4, TendingStep

LEMMA ProviderTends ==
  ASSUME TInv, NEW v \in Video,
         (\E outcome \in Settled : JobEnds(v, outcome)) \/ (\E f \in File : BackgroundUpload(v, f))
  PROVE  TRest'
  <1>1. /\ IInv /\ UNCHANGED <<rows, req, killed>> /\ DOMAIN rendering' = DOMAIN rendering
        /\ job' = job \/ \E outcome \in Settled : job[v] = "running" /\ job' = [job EXCEPT ![v] = outcome]
    BY DEF TInv, JobEnds, BackgroundUpload, past
  <1>2. JobsMoveOn
    BY <1>1 DEF JobsMoveOn, Settled, IInv, TypeOK
  <1>3. \A w \in Video : RowGoesOn(w) /\ TenderGoesOn(w)
    BY <1>1 DEF RowGoesOn, TenderGoesOn
  <1>. QED
    BY <1>1, <1>2, <1>3, TendingStep

(* A background render leaves the gateway and settles its row in one statement. *)
LEMMA BackgroundTends ==
  ASSUME TInv, NEW v \in Video, BackgroundDone(v) \/ BackgroundFails(v)
  PROVE  TRest'
  <1>0. PICK outcome \in Settled : \E new :
          /\ EndBackground(v, outcome, new) /\ v \in DOMAIN rendering
          /\ rows[v] # Null => new.status \in Settled /\ new.source = rows[v].source
    <2>1. CASE BackgroundDone(v)
      <3> DEFINE done == [rows[v] EXCEPT !.status = "completed", !.url = TRUE, !.file = rendering[v]]
      <3>1. EndBackground(v, "completed", done) /\ v \in DOMAIN rendering
        BY <2>1 DEF BackgroundDone
      <3>2. rows[v] # Null => done.status = "completed" /\ done.source = rows[v].source
        BY RowIsRow DEF TInv, Row
      <3> HIDE DEF done
      <3>. QED
        BY <3>1, <3>2 DEF Settled
    <2>2. CASE BackgroundFails(v)
      <3> DEFINE failure == [rows[v] EXCEPT !.status = "failed"]
      <3>1. EndBackground(v, "failed", failure) /\ v \in DOMAIN rendering
        BY <2>2 DEF BackgroundFails
      <3>2. rows[v] # Null => failure.status = "failed" /\ failure.source = rows[v].source
        BY RowIsRow DEF TInv, Row
      <3> HIDE DEF failure
      <3>. QED
        BY <3>1, <3>2 DEF Settled
    <2>. QED
      BY <2>1, <2>2
  <1>1. PICK new :
          /\ EndBackground(v, outcome, new) /\ v \in DOMAIN rendering
          /\ rows[v] # Null => new.status \in Settled /\ new.source = rows[v].source
    BY <1>0
  <1>2. /\ IInv /\ Update(v, new) /\ job' = [job EXCEPT ![v] = outcome] /\ UNCHANGED <<req, killed>>
        /\ DOMAIN rendering' = DOMAIN rendering \ {v} /\ job[v] = "running"
    BY <1>1 DEF TInv, IInv, Shapes, EndBackground, past
  <1>3. \A w \in Video : IF w = v /\ rows[v] # Null THEN rows'[w] = new ELSE rows'[w] = rows[w]
    BY <1>2 DEF Update, IInv, TypeOK
  <1>4. JobsMoveOn
    BY <1>2 DEF JobsMoveOn, Settled, IInv, TypeOK
  <1>5. \A w \in Video : RowGoesOn(w) /\ TenderGoesOn(w)
    BY <1>1, <1>2, <1>3 DEF RowGoesOn, TenderGoesOn, Settled
  <1>. QED
    BY <1>2, <1>4, <1>5, TendingStep

LEMMA RestartTends == ASSUME TInv, Restart PROVE TRest'
  <1>1. /\ UNCHANGED <<rows, job>> /\ DOMAIN rendering' = {} /\ killed' = killed \cup DOMAIN rendering
        /\ req' = [q \in Request |-> Null]
    BY DEF Restart
  <1>2. \A q \in Request : PolledOnly(q)'
    BY <1>1 DEF PolledOnly, Asks, At
  <1>3. \A w \in Video : RowGoesOn(w) /\ TenderGoesOn(w)
    BY <1>1 DEF RowGoesOn, TenderGoesOn
  <1>. QED
    BY <1>1, <1>2, <1>3, JobsSame, TendingStep

-----------------------------------------------------------------------------
LEMMA TendingHolds == ASSUME MaxRestarts \in Nat PROVE TInv /\ [Next]_vars => TInv'
  <1> SUFFICES ASSUME TInv, [Next]_vars PROVE TRest'
    BY StepHolds DEF TInv
  <1>1. ASSUME NEW q \in Request, Finish(q) PROVE TRest'
    BY <1>1, RecordTends, AskTends, AnswerTends, ReadersTend, WritersTend, ClearTends, DropTends
       DEF Finish
  <1>2. ASSUME NEW q \in Request, NEW f \in File, Copy(q, f) \/ ShelveUpload(q, f) PROVE TRest'
    BY <1>2, ReadersTend
  <1>3. ASSUME NEW q \in Request, NEW v \in Video,
               Poll(q, v) \/ Shelve(q, v) \/ Tag(q, v) \/ Approve(q, v) \/ Discard(q, v)
        PROVE  TRest'
    BY <1>3, ReadersTend, PollTends
  <1>4. ASSUME NEW v \in Video,
               \/ \E outcome \in Settled : JobEnds(v, outcome)
               \/ \E f \in File : BackgroundUpload(v, f)
               \/ BackgroundDone(v) \/ BackgroundFails(v)
        PROVE  TRest'
    BY <1>4, ProviderTends, BackgroundTends
  <1>5. CASE UNCHANGED vars
    <2>1. UNCHANGED <<rows, job, rendering, killed, req>>
      BY <1>5 DEF vars
    <2>2. JobsMoveOn /\ \A v \in Video : RowGoesOn(v) /\ TenderGoesOn(v)
      BY <2>1, RowsGoOn, JobsSame
    <2>. QED
      BY <2>1, <2>2, TendingStep
  <1>6. CASE Next
    <2>1. ASSUME NEW v \in Video, NEW s \in Source, NEW p \in Production,
                 AddStock(v, s, p) \/ Import(v, s, p) \/ StartBackground(v, s, p)
          PROVE  TRest'
      BY <2>1, ReadyTends, StartBackgroundTends
    <2>2. ASSUME NEW q \in Request, NEW v \in Video, NEW s \in Polled,
                 NEW p \in Production \cup {Null}, Buy(q, v, s, p)
          PROVE  TRest'
      BY <2>2, BuyTends
    <2>. QED
      BY <1>1, <1>2, <1>3, <1>4, <1>6, <2>1, <2>2, RestartTends DEF Next
  <1>. QED
    BY <1>5, <1>6

(* No row is ever left saying "processing" with nobody to change it, but by a restart that
   killed its background render: late answers, discards, imports and approvals, however
   they interleave, take no row away from the render or the provider that will end it.
   What liveness adds, that they then do, EveryRenderIsTold checks.                      *)
THEOREM ProcessingRowsAreTended == ASSUME MaxRestarts \in Nat PROVE Spec => []StillTended
  <1>1. Init => TInv
    <2> SUFFICES ASSUME Init PROVE TInv
      OBVIOUS
    <2>1. \A q \in Request : ~At(q, "insert") /\ ~Asks(q)
      BY DEF Init, At, Asks
    <2>2. \A v \in Video : rows[v] = Null
      BY DEF Init
    <2>. QED
      BY <2>1, <2>2, InitHolds DEF TInv, TRest, Known, Tended, PolledOnly
  <1>2. TInv => StillTended
    BY DEF TInv, TRest, Known, Tended, StillTended, IInv, Shapes
  <1>. QED
    BY <1>1, <1>2, TendingHolds, PTL DEF Spec
=============================================================================
