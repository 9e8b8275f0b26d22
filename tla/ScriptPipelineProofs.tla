------------------------- MODULE ScriptPipelineProofs -------------------------
(* Machine-checked proofs about ScriptPipeline: for any number of requests, texts, assets
   and files, and whatever request dies, the production's row never runs ahead of the
   work, its takes and assets stay backed, and requests served in turn keep its text.  *)
EXTENDS ScriptPipeline, TLAPS

(* What a request holds between two statements has the type its next one needs. *)
HoldsTyped(q) ==
  /\ At(q, "edit") => Held(q) \in Text
  /\ At(q, "direct") => /\ Held(q).lock \in BOOLEAN /\ Held(q).locked \in BOOLEAN
                        /\ Held(q).stage \in Stage
  /\ At(q, "speak") => Held(q) \in Version \cup {Null}
  /\ At(q, "spoken") => Held(q).version \in Version \cup {Null} /\ Held(q).file \in File
  /\ At(q, "point") => Held(q).version \in Version /\ Held(q).asset \in Asset
  /\ At(q, "stored") => Held(q).file \in File
  /\ At(q, "voiced") => Held(q) \in File
  /\ At(q, "remove") => Held(q).asset \in Asset /\ Held(q).file \in File
  /\ At(q, "unlink") => Held(q).asset \in Asset

Typed == /\ TypeOK
         /\ req = [q \in Request |-> req[q]]
         /\ \A q \in Request : HoldsTyped(q)

-----------------------------------------------------------------------------
LEMMA InitTyped == Library \subseteq File /\ Init => Typed
  BY DEF Init, Typed, TypeOK, Row, Stage, HoldsTyped, At

LEMMA StepTyped == Typed /\ [Next]_vars => Typed'
  <1> SUFFICES ASSUME Typed, [Next]_vars PROVE Typed'
    OBVIOUS
  <1> USE DEF Typed, HoldsTyped, At, Held
  <1>1. ASSUME NEW q \in Request, NEW x \in Text, Edit(q, x) PROVE Typed'
    BY <1>1 DEF Edit, Start, Go, TypeOK, drive
  <1>2. ASSUME NEW q \in Request, NEW lock \in BOOLEAN, Direct(q, lock) PROVE Typed'
    BY <1>2 DEF Direct, Start, Go, TypeOK, Row, drive
  <1>3. ASSUME NEW q \in Request, NEW v \in Version \cup {Null}, Speak(q, v) PROVE Typed'
    BY <1>3 DEF Speak, Start, Go, TypeOK, drive
  <1>4. ASSUME NEW q \in Request, NEW f \in File, SpeakStore(q, f) PROVE Typed'
    BY <1>4 DEF SpeakStore, Store, Go, TypeOK
  <1>5. ASSUME NEW q \in Request, NEW f \in File, UploadStore(q, f) PROVE Typed'
    BY <1>5 DEF UploadStore, Store, Go, TypeOK
  <1>6. ASSUME NEW q \in Request, NEW f \in File, HostSynthesize(q, f) PROVE Typed'
    BY <1>6 DEF HostSynthesize, Store, Go, TypeOK
  <1>7. ASSUME NEW q \in Request, NEW a \in Asset, SpeakRecord(q, a) PROVE Typed'
    BY <1>7 DEF SpeakRecord, Record, Insert, Go, Return, TypeOK, drive
  <1>8. ASSUME NEW q \in Request, NEW a \in Asset, UploadRecord(q, a) PROVE Typed'
    BY <1>8 DEF UploadRecord, Record, Insert, Go, TypeOK, drive
  <1>9. ASSUME NEW q \in Request, NEW a \in Asset, HostRecord(q, a) PROVE Typed'
    BY <1>9 DEF HostRecord, Record, Insert, Go, TypeOK, drive
  <1>10. ASSUME NEW q \in Request, NEW a \in Asset, Remove(q, a) PROVE Typed'
    BY <1>10 DEF Remove, Go, TypeOK, drive
  <1>11. ASSUME NEW q \in Request, EditWrite(q) PROVE Typed'
    BY <1>11 DEF EditWrite, Update, Return, TypeOK, Row, drive
  <1>12. ASSUME NEW q \in Request, Accept(q) PROVE Typed'
    BY <1>12 DEF Accept, Start, Go, TypeOK, drive
  <1>13. ASSUME NEW q \in Request, AcceptWrite(q) PROVE Typed'
    BY <1>13 DEF AcceptWrite, Update, Return, TypeOK, Row, Stage, drive
  <1>14. ASSUME NEW q \in Request, DirectWrite(q) PROVE Typed'
    BY <1>14 DEF DirectWrite, Update, Return, TypeOK, Row, Stage, drive
  <1>15. ASSUME NEW q \in Request, SpeakPoint(q) PROVE Typed'
    BY <1>15 DEF SpeakPoint, Update, Return, TypeOK, Row, drive
  <1>16. ASSUME NEW q \in Request, Upload(q) PROVE Typed'
    BY <1>16 DEF Upload, Start, Go, TypeOK, drive
  <1>17. ASSUME NEW q \in Request, UploadAdvance(q) PROVE Typed'
    BY <1>17 DEF UploadAdvance, Update, Return, TypeOK, Row, Stage, drive
  <1>18. ASSUME NEW q \in Request, RemoveFile(q) PROVE Typed'
    BY <1>18 DEF RemoveFile, Go, TypeOK
  <1>19. ASSUME NEW q \in Request, RemoveRow(q) PROVE Typed'
    BY <1>19 DEF RemoveRow, Return, TypeOK, drive
  <1>20. ASSUME NEW q \in Request, Host(q) PROVE Typed'
    BY <1>20 DEF Host, Start, Go, TypeOK, drive
  <1>21. ASSUME NEW q \in Request, HostTake(q) PROVE Typed'
    BY <1>21 DEF HostTake, Go, TypeOK, drive
  <1>22. ASSUME NEW q \in Request, Buy(q) PROVE Typed'
    BY <1>22 DEF Buy, Update, Return, TypeOK, Row, Stage, drive
  <1>23. ASSUME NEW q \in Request, Die(q) PROVE Typed'
    BY <1>23 DEF Die, Return, TypeOK, drive
  <1>24. ASSUME NEW a \in Asset, NEW f \in File, Attach(a, f) PROVE Typed'
    BY <1>24 DEF Attach, Insert, TypeOK, drive
  <1>25. CASE Post
    BY <1>25 DEF Post, TypeOK, Row, Stage, drive
  <1>26. CASE UNCHANGED vars
    BY <1>26 DEF vars, TypeOK
  <1>. QED
    BY <1>1, <1>2, <1>3, <1>4, <1>5, <1>6, <1>7, <1>8, <1>9, <1>10, <1>11, <1>12, <1>13, <1>14,
       <1>15, <1>16, <1>17, <1>18, <1>19, <1>20, <1>21, <1>22, <1>23, <1>24, <1>25, <1>26 DEF Next

(* Rows, files and what requests hold keep their types. *)
THEOREM PipelineTyping == ASSUME Library \subseteq File PROVE Spec => []TypeOK
  <1>1. Typed => TypeOK
    BY DEF Typed
  <1>. QED
    BY <1>1, InitTyped, StepTyped, PTL DEF Spec

-----------------------------------------------------------------------------
(* The stage a row may stand at, and the one a request may write back. *)
Reached(stage) ==
  /\ stage = "voice" => "accepted" \in earned
  /\ stage = "assets" => {"locked", "uploaded"} \cap earned # {}
  /\ stage = "generate" => "bought" \in earned

StageInv == Reached(prod.stage) /\ \A q \in Request : At(q, "direct") => Reached(Held(q).stage)

LEMMA StageStep == Typed /\ StageInv /\ [Next]_vars => StageInv'
  <1> SUFFICES ASSUME Typed, StageInv, [Next]_vars PROVE StageInv'
    OBVIOUS
  <1> USE DEF Typed, TypeOK, Row, StageInv, Reached, At, Held
  <1>1. ASSUME NEW q \in Request, NEW x \in Text, Edit(q, x) PROVE StageInv'
    BY <1>1 DEF Edit, Start, Go, drive
  <1>2. ASSUME NEW q \in Request, NEW lock \in BOOLEAN, Direct(q, lock) PROVE StageInv'
    BY <1>2 DEF Direct, Start, Go, drive
  <1>3. ASSUME NEW q \in Request, NEW v \in Version \cup {Null}, Speak(q, v) PROVE StageInv'
    BY <1>3 DEF Speak, Start, Go, drive
  <1>4. ASSUME NEW q \in Request, NEW f \in File, SpeakStore(q, f) PROVE StageInv'
    BY <1>4 DEF SpeakStore, Store, Go, drive
  <1>5. ASSUME NEW q \in Request, NEW f \in File, UploadStore(q, f) PROVE StageInv'
    BY <1>5 DEF UploadStore, Store, Go, drive
  <1>6. ASSUME NEW q \in Request, NEW f \in File, HostSynthesize(q, f) PROVE StageInv'
    BY <1>6 DEF HostSynthesize, Store, Go, drive
  <1>7. ASSUME NEW q \in Request, NEW a \in Asset, SpeakRecord(q, a) PROVE StageInv'
    BY <1>7 DEF SpeakRecord, Record, Insert, Go, Return, drive
  <1>8. ASSUME NEW q \in Request, NEW a \in Asset, UploadRecord(q, a) PROVE StageInv'
    BY <1>8 DEF UploadRecord, Record, Insert, Go, drive
  <1>9. ASSUME NEW q \in Request, NEW a \in Asset, HostRecord(q, a) PROVE StageInv'
    BY <1>9 DEF HostRecord, Record, Insert, Go, drive
  <1>10. ASSUME NEW q \in Request, NEW a \in Asset, Remove(q, a) PROVE StageInv'
    BY <1>10 DEF Remove, Go, drive
  <1>11. ASSUME NEW q \in Request, EditWrite(q) PROVE StageInv'
    BY <1>11 DEF EditWrite, Update, Return, drive
  <1>12. ASSUME NEW q \in Request, Accept(q) PROVE StageInv'
    BY <1>12 DEF Accept, Start, Go, drive
  <1>13. ASSUME NEW q \in Request, AcceptWrite(q) PROVE StageInv'
    BY <1>13 DEF AcceptWrite, Update, Return, drive
  <1>14. ASSUME NEW q \in Request, DirectWrite(q) PROVE StageInv'
    BY <1>14 DEF DirectWrite, Update, Return, drive
  <1>15. ASSUME NEW q \in Request, SpeakPoint(q) PROVE StageInv'
    BY <1>15 DEF SpeakPoint, Update, Return, drive
  <1>16. ASSUME NEW q \in Request, Upload(q) PROVE StageInv'
    BY <1>16 DEF Upload, Start, Go, drive
  <1>17. ASSUME NEW q \in Request, UploadAdvance(q) PROVE StageInv'
    BY <1>17 DEF UploadAdvance, Update, Return, drive
  <1>18. ASSUME NEW q \in Request, RemoveFile(q) PROVE StageInv'
    BY <1>18 DEF RemoveFile, Go, drive
  <1>19. ASSUME NEW q \in Request, RemoveRow(q) PROVE StageInv'
    BY <1>19 DEF RemoveRow, Return, drive
  <1>20. ASSUME NEW q \in Request, Host(q) PROVE StageInv'
    BY <1>20 DEF Host, Start, Go, drive
  <1>21. ASSUME NEW q \in Request, HostTake(q) PROVE StageInv'
    BY <1>21 DEF HostTake, Go, drive
  <1>22. ASSUME NEW q \in Request, Buy(q) PROVE StageInv'
    BY <1>22 DEF Buy, Update, Return, drive
  <1>23. ASSUME NEW q \in Request, Die(q) PROVE StageInv'
    BY <1>23 DEF Die, Return, drive
  <1>24. ASSUME NEW a \in Asset, NEW f \in File, Attach(a, f) PROVE StageInv'
    BY <1>24 DEF Attach, Insert, drive
  <1>25. CASE Post
    BY <1>25 DEF Post, drive
  <1>26. CASE UNCHANGED vars
    BY <1>26 DEF vars, drive
  <1>. QED
    BY <1>1, <1>2, <1>3, <1>4, <1>5, <1>6, <1>7, <1>8, <1>9, <1>10, <1>11, <1>12, <1>13, <1>14,
       <1>15, <1>16, <1>17, <1>18, <1>19, <1>20, <1>21, <1>22, <1>23, <1>24, <1>25, <1>26 DEF Next

(* The row stands at a stage the production reached by doing the work, also when a
   request writes back a stage it read before a call of ALLEN.                        *)
THEOREM StagesAreEarned == ASSUME Library \subseteq File PROVE Spec => []StageIsEarned
  <1>1. Init => StageInv
    BY DEF Init, StageInv, Reached, At
  <1>2. StageInv => StageIsEarned
    BY DEF StageInv, Reached, StageIsEarned
  <1>. QED
    BY <1>1, <1>2, InitTyped, StepTyped, StageStep, PTL DEF Spec

-----------------------------------------------------------------------------
(* A file a request carries from Drive to its row is its own, unless a caller attached it
   meanwhile: no row or other request has it, and nobody deletes it.                    *)
Carries(q, f) ==
  \/ At(q, "spoken") /\ Held(q).file = f
  \/ At(q, "stored") /\ Held(q).file = f
  \/ At(q, "voiced") /\ Held(q) = f

CarriedInv ==
  \A q \in Request, f \in File : Carries(q, f) =>
    /\ f \in spent
    /\ f \notin named => f \in files /\ \A a \in Asset : assets[a] # f
    /\ \A o \in Request : Carries(o, f) => o = q

RowsInv ==
  /\ \A a \in Asset : assets[a] # Null => assets[a] \in spent
  /\ \A a, b \in Asset : assets[a] # Null /\ assets[a] = assets[b] => a = b \/ assets[a] \in named

(* A request that removes an asset deletes nobody else's file, unless it was attached. *)
RemovalInv ==
  \A q \in Request :
    /\ At(q, "remove") =>
         /\ Held(q).asset \in removed /\ Held(q).file \in spent
         /\ Held(q).file \notin named =>
              /\ \A a \in Asset \ removed : assets[a] # Held(q).file
              /\ \A o \in Request : ~Carries(o, Held(q).file)
    /\ At(q, "unlink") => Held(q).asset \in removed

PointInv ==
  \A q \in Request : At(q, "point") =>
    assets[Held(q).asset] # Null \/ Held(q).asset \in removed

FileInv == CarriedInv /\ RowsInv /\ RemovalInv /\ PointInv /\ AssetsAreBacked

LEMMA FileStep == Null \notin File /\ Typed /\ FileInv /\ [Next]_vars => FileInv'
  <1> SUFFICES ASSUME Null \notin File, Typed, FileInv, [Next]_vars PROVE FileInv'
    OBVIOUS
  <1> USE DEF Typed, TypeOK, HoldsTyped, Row, FileInv, CarriedInv, RowsInv, RemovalInv,
              PointInv, AssetsAreBacked, Carries, At, Held
  <1>1. ASSUME NEW q \in Request, NEW x \in Text, Edit(q, x) PROVE FileInv'
    BY <1>1 DEF Edit, Start, Go, drive
  <1>2. ASSUME NEW q \in Request, NEW lock \in BOOLEAN, Direct(q, lock) PROVE FileInv'
    BY <1>2 DEF Direct, Start, Go, drive
  <1>3. ASSUME NEW q \in Request, NEW v \in Version \cup {Null}, Speak(q, v) PROVE FileInv'
    BY <1>3 DEF Speak, Start, Go, drive
  <1>4. ASSUME NEW q \in Request, NEW f \in File, SpeakStore(q, f) PROVE FileInv'
    BY <1>4 DEF SpeakStore, Store, Go, drive
  <1>5. ASSUME NEW q \in Request, NEW f \in File, UploadStore(q, f) PROVE FileInv'
    BY <1>5 DEF UploadStore, Store, Go, drive
  <1>6. ASSUME NEW q \in Request, NEW f \in File, HostSynthesize(q, f) PROVE FileInv'
    BY <1>6 DEF HostSynthesize, Store, Go, drive
  <1>7. ASSUME NEW q \in Request, NEW a \in Asset, SpeakRecord(q, a) PROVE FileInv'
    BY <1>7 DEF SpeakRecord, Record, Insert, Go, Return, drive
  <1>8. ASSUME NEW q \in Request, NEW a \in Asset, UploadRecord(q, a) PROVE FileInv'
    BY <1>8 DEF UploadRecord, Record, Insert, Go, drive
  <1>9. ASSUME NEW q \in Request, NEW a \in Asset, HostRecord(q, a) PROVE FileInv'
    BY <1>9 DEF HostRecord, Record, Insert, Go, drive
  <1>10. ASSUME NEW q \in Request, NEW a \in Asset, Remove(q, a) PROVE FileInv'
    BY <1>10 DEF Remove, Go, drive
  <1>11. ASSUME NEW q \in Request, EditWrite(q) PROVE FileInv'
    BY <1>11 DEF EditWrite, Update, Return, drive
  <1>12. ASSUME NEW q \in Request, Accept(q) PROVE FileInv'
    BY <1>12 DEF Accept, Start, Go, drive
  <1>13. ASSUME NEW q \in Request, AcceptWrite(q) PROVE FileInv'
    BY <1>13 DEF AcceptWrite, Update, Return, drive
  <1>14. ASSUME NEW q \in Request, DirectWrite(q) PROVE FileInv'
    BY <1>14 DEF DirectWrite, Update, Return, drive
  <1>15. ASSUME NEW q \in Request, SpeakPoint(q) PROVE FileInv'
    BY <1>15 DEF SpeakPoint, Update, Return, drive
  <1>16. ASSUME NEW q \in Request, Upload(q) PROVE FileInv'
    BY <1>16 DEF Upload, Start, Go, drive
  <1>17. ASSUME NEW q \in Request, UploadAdvance(q) PROVE FileInv'
    BY <1>17 DEF UploadAdvance, Update, Return, drive
  <1>18. ASSUME NEW q \in Request, RemoveFile(q) PROVE FileInv'
    BY <1>18 DEF RemoveFile, Go, drive
  <1>19. ASSUME NEW q \in Request, RemoveRow(q) PROVE FileInv'
    BY <1>19 DEF RemoveRow, Return, drive
  <1>20. ASSUME NEW q \in Request, Host(q) PROVE FileInv'
    BY <1>20 DEF Host, Start, Go, drive
  <1>21. ASSUME NEW q \in Request, HostTake(q) PROVE FileInv'
    BY <1>21 DEF HostTake, Go, drive
  <1>22. ASSUME NEW q \in Request, Buy(q) PROVE FileInv'
    BY <1>22 DEF Buy, Update, Return, drive
  <1>23. ASSUME NEW q \in Request, Die(q) PROVE FileInv'
    BY <1>23 DEF Die, Return, drive
  <1>24. ASSUME NEW a \in Asset, NEW f \in File, Attach(a, f) PROVE FileInv'
    BY <1>24 DEF Attach, Insert, drive
  <1>25. CASE Post
    BY <1>25 DEF Post, drive
  <1>26. CASE UNCHANGED vars
    BY <1>26 DEF vars, drive
  <1> HIDE DEF FileInv
  <1>. QED
    BY <1>1, <1>2, <1>3, <1>4, <1>5, <1>6, <1>7, <1>8, <1>9, <1>10, <1>11, <1>12, <1>13, <1>14,
       <1>15, <1>16, <1>17, <1>18, <1>19, <1>20, <1>21, <1>22, <1>23, <1>24, <1>25, <1>26 DEF Next

(* A take names an asset that was inserted, and what was uploaded for an asset is in Drive,
   until somebody removes that asset; a file that a caller attached is the exception.    *)
THEOREM AssetsStayBacked ==
  ASSUME Null \notin File, Library \subseteq File PROVE Spec => []AssetsAreBacked
  <1>1. Init => FileInv
    BY DEF Init, FileInv, CarriedInv, RowsInv, RemovalInv, PointInv, AssetsAreBacked, Carries, At
  <1>2. FileInv => AssetsAreBacked
    BY DEF FileInv
  <1>. QED
    BY <1>1, <1>2, InitTyped, StepTyped, FileStep, PTL DEF Spec

-----------------------------------------------------------------------------
(* While nothing overlapped, at most one request is in flight, and one that edits found
   the text not yet accepted.                                                         *)
TurnInv ==
  ~disturbed => /\ \A q, o \in Request : req[q] # Null /\ req[o] # Null => q = o
                /\ \A q \in Request : At(q, "edit") => ~prod.accepted

LEMMA TurnStep == Typed /\ TurnInv /\ [Next]_vars => TurnInv'
  <1> SUFFICES ASSUME Typed, TurnInv, [Next]_vars PROVE TurnInv'
    OBVIOUS
  <1> USE DEF Typed, TypeOK, Row, TurnInv, At, Held
  <1>1. ASSUME NEW q \in Request, NEW x \in Text, Edit(q, x) PROVE TurnInv'
    BY <1>1 DEF Edit, Start, Go, drive
  <1>2. ASSUME NEW q \in Request, NEW lock \in BOOLEAN, Direct(q, lock) PROVE TurnInv'
    BY <1>2 DEF Direct, Start, Go, drive
  <1>3. ASSUME NEW q \in Request, NEW v \in Version \cup {Null}, Speak(q, v) PROVE TurnInv'
    BY <1>3 DEF Speak, Start, Go, drive
  <1>4. ASSUME NEW q \in Request, NEW f \in File, SpeakStore(q, f) PROVE TurnInv'
    BY <1>4 DEF SpeakStore, Store, Go, drive
  <1>5. ASSUME NEW q \in Request, NEW f \in File, UploadStore(q, f) PROVE TurnInv'
    BY <1>5 DEF UploadStore, Store, Go, drive
  <1>6. ASSUME NEW q \in Request, NEW f \in File, HostSynthesize(q, f) PROVE TurnInv'
    BY <1>6 DEF HostSynthesize, Store, Go, drive
  <1>7. ASSUME NEW q \in Request, NEW a \in Asset, SpeakRecord(q, a) PROVE TurnInv'
    BY <1>7 DEF SpeakRecord, Record, Insert, Go, Return, drive
  <1>8. ASSUME NEW q \in Request, NEW a \in Asset, UploadRecord(q, a) PROVE TurnInv'
    BY <1>8 DEF UploadRecord, Record, Insert, Go, drive
  <1>9. ASSUME NEW q \in Request, NEW a \in Asset, HostRecord(q, a) PROVE TurnInv'
    BY <1>9 DEF HostRecord, Record, Insert, Go, drive
  <1>10. ASSUME NEW q \in Request, NEW a \in Asset, Remove(q, a) PROVE TurnInv'
    BY <1>10 DEF Remove, Go, drive
  <1>11. ASSUME NEW q \in Request, EditWrite(q) PROVE TurnInv'
    BY <1>11 DEF EditWrite, Update, Return, drive
  <1>12. ASSUME NEW q \in Request, Accept(q) PROVE TurnInv'
    BY <1>12 DEF Accept, Start, Go, drive
  <1>13. ASSUME NEW q \in Request, AcceptWrite(q) PROVE TurnInv'
    BY <1>13 DEF AcceptWrite, Update, Return, drive
  <1>14. ASSUME NEW q \in Request, DirectWrite(q) PROVE TurnInv'
    BY <1>14 DEF DirectWrite, Update, Return, drive
  <1>15. ASSUME NEW q \in Request, SpeakPoint(q) PROVE TurnInv'
    BY <1>15 DEF SpeakPoint, Update, Return, drive
  <1>16. ASSUME NEW q \in Request, Upload(q) PROVE TurnInv'
    BY <1>16 DEF Upload, Start, Go, drive
  <1>17. ASSUME NEW q \in Request, UploadAdvance(q) PROVE TurnInv'
    BY <1>17 DEF UploadAdvance, Update, Return, drive
  <1>18. ASSUME NEW q \in Request, RemoveFile(q) PROVE TurnInv'
    BY <1>18 DEF RemoveFile, Go, drive
  <1>19. ASSUME NEW q \in Request, RemoveRow(q) PROVE TurnInv'
    BY <1>19 DEF RemoveRow, Return, drive
  <1>20. ASSUME NEW q \in Request, Host(q) PROVE TurnInv'
    <2>1. PICK take \in {Chosen(prod), Null} : Start(q, "host", take)
      BY <1>20 DEF Host
    <2>. QED
      BY <2>1 DEF Start, Go, drive
  <1>21. ASSUME NEW q \in Request, HostTake(q) PROVE TurnInv'
    BY <1>21 DEF HostTake, Go, drive
  <1>22. ASSUME NEW q \in Request, Buy(q) PROVE TurnInv'
    BY <1>22 DEF Buy, Update, Return, drive
  <1>23. ASSUME NEW q \in Request, Die(q) PROVE TurnInv'
    BY <1>23 DEF Die, Return, drive
  <1>24. ASSUME NEW a \in Asset, NEW f \in File, Attach(a, f) PROVE TurnInv'
    BY <1>24 DEF Attach, Insert, drive
  <1>25. CASE Post
    BY <1>25 DEF Post, drive
  <1>26. CASE UNCHANGED vars
    BY <1>26 DEF vars, drive
  <1>. QED
    BY <1>1, <1>2, <1>3, <1>4, <1>5, <1>6, <1>7, <1>8, <1>9, <1>10, <1>11, <1>12, <1>13, <1>14,
       <1>15, <1>16, <1>17, <1>18, <1>19, <1>20, <1>21, <1>22, <1>23, <1>24, <1>25, <1>26 DEF Next

(* An accepted text stays as it was accepted as long as requests are served in turn. *)
THEOREM AcceptedTextStands == ASSUME Library \subseteq File PROVE Spec => AcceptedStands
  <1>1. Init => TurnInv
    BY DEF Init, TurnInv, At
  <1>2. Typed /\ TurnInv /\ [Next]_vars =>
          [prod.accepted /\ ~disturbed' => prod'.accepted /\ prod'.text = prod.text]_vars
    <2> SUFFICES ASSUME Typed, TurnInv, Next, prod.accepted, ~disturbed'
                 PROVE  prod'.accepted /\ prod'.text = prod.text
      OBVIOUS
    <2>1. \/ prod' = prod
          \/ \E q \in Request : \/ EditWrite(q) \/ AcceptWrite(q) \/ DirectWrite(q)
                                \/ SpeakPoint(q) \/ UploadAdvance(q) \/ Buy(q)
          \/ Post
      BY DEF Next, Edit, Accept, Direct, Speak, SpeakStore, SpeakRecord, Upload, UploadStore,
             UploadRecord, HostSynthesize, HostRecord, Host, HostTake, Remove, RemoveFile,
             RemoveRow, Die, Attach, Start, Store, Record
    <2>2. ASSUME NEW q \in Request, EditWrite(q) PROVE FALSE
      BY <2>2 DEF EditWrite, Update, TurnInv
    <2>3. ASSUME NEW q \in Request,
                 AcceptWrite(q) \/ DirectWrite(q) \/ SpeakPoint(q) \/ UploadAdvance(q) \/ Buy(q)
          PROVE  prod'.accepted /\ prod'.text = prod.text
      BY <2>3 DEF AcceptWrite, DirectWrite, SpeakPoint, UploadAdvance, Buy, Update, Typed, TypeOK, Row
    <2>4. CASE Post
      BY <2>4 DEF Post, Typed, TypeOK, Row
    <2>. QED
      BY <2>1, <2>2, <2>3, <2>4
  <1>. QED
    BY <1>1, <1>2, InitTyped, StepTyped, TurnStep, PTL DEF Spec, AcceptedStands
=============================================================================
