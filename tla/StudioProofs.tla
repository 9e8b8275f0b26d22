---------------------------- MODULE StudioProofs ----------------------------
(* Machine-checked proofs about three parts of the studio: a pin names a video of its own
   production, for any number of productions, videos and concurrent transactions; the
   b-roll document names what exists and loses nothing that did not overlap, for any number
   of scenes, takes, providers and requests; and a word art plan that passed its gate is
   readable and a hint no more than evidence, for plans, scores and curves of any size.  *)
EXTENDS MCStudio, FiniteSetTheorems, WellFoundedInduction, TLAPS

(* A version set is the partial functions from keys to values. *)
LEMMA VersionTyping ==
  ASSUME NEW Key, NEW Value, NEW f \in Versions(Key, Value)
  PROVE  /\ f = [x \in DOMAIN f |-> f[x]]
         /\ DOMAIN f \subseteq Key
         /\ \A x \in DOMAIN f : f[x] \in Value
  <1>1. PICK K \in SUBSET Key : f \in [K -> Value]
    BY DEF Versions
  <1>. QED
    BY <1>1

(* Adding one version keeps the type. *)
LEMMA WithTyping ==
  ASSUME NEW Key, NEW Value, NEW f \in Versions(Key, Value), NEW x \in Key, NEW v \in Value
  PROVE  With(f, x, v) \in Versions(Key, Value)
  <1>1. DOMAIN f \subseteq Key /\ \A y \in DOMAIN f : f[y] \in Value
    BY VersionTyping
  <1>2. With(f, x, v) \in [DOMAIN f \cup {x} -> Value]
    BY <1>1 DEF With
  <1>3. DOMAIN f \cup {x} \in SUBSET Key
    BY <1>1
  <1>. QED
    BY <1>2, <1>3 DEF Versions

(* A session without versions. *)
LEMMA EmptyTyping ==
  ASSUME NEW Key, NEW Value
  PROVE  [x \in {} |-> Absent] \in Versions(Key, Value)
  <1>1. [x \in {} |-> Absent] \in [{} -> Value]
    OBVIOUS
  <1>. QED
    BY <1>1 DEF Versions

(* What the views say, pointwise. *)
LEMMA Views ==
  ASSUME TypeOK, NEW t \in Tx
  PROVE  /\ PinOf(t) \in [Production -> Pin]
         /\ OwnerOf(t) \in [Video -> Owner]
         /\ \A p \in Production :
              PinOf(t)[p] = IF p \in DOMAIN myPins[t] THEN myPins[t][p] ELSE pin[p]
         /\ \A v \in Video :
              OwnerOf(t)[v] = IF v \in DOMAIN myVideos[t] THEN myVideos[t][v] ELSE owner[v]
  <1>1. /\ \A p \in DOMAIN myPins[t] : myPins[t][p] \in Pin
        /\ \A v \in DOMAIN myVideos[t] : myVideos[t][v] \in Owner
    BY VersionTyping DEF TypeOK
  <1>. QED
    BY <1>1 DEF TypeOK, PinOf, OwnerOf, Over

-----------------------------------------------------------------------------
(* Every session reads each pin as naming a video it reads as the pinner's. *)
ViewsOwned ==
  \A t \in Tx : \A p \in Production :
    PinOf(t)[p] \in Video => OwnerOf(t)[PinOf(t)[p]] = p

(* What any statement of session t does to its own versions: it may lock one
   video, write some productions, and every pin it writes names a video it
   holds and reads as owned by the pinning production.                       *)
Writes(t) ==
  /\ UNCHANGED <<pin, owner>>
  /\ \A u \in Tx \ {t} : myPins'[u] = myPins[u] /\ myVideos'[u] = myVideos[u]
  /\ myPins' \in [Tx -> Versions(Production, Pin)]
  /\ myVideos' \in [Tx -> Versions(Video, Owner)]
  /\ DOMAIN myPins[t] \subseteq DOMAIN myPins'[t]
  /\ DOMAIN myVideos[t] \subseteq DOMAIN myVideos'[t]
  /\ \A p \in DOMAIN myPins'[t] : p \in DOMAIN myPins[t] \/ LockablePin(t, p)
  /\ \A v \in DOMAIN myVideos'[t] : v \in DOMAIN myVideos[t] \/ LockableVideo(t, v)
  /\ \A p \in DOMAIN myPins'[t] : myPins'[t][p] \in Video =>
       \/ /\ p \in DOMAIN myPins[t]
          /\ myPins[t][p] = myPins'[t][p]
       \/ /\ myPins'[t][p] \in DOMAIN myVideos'[t]
          /\ OwnerOf(t)[myPins'[t][p]] = p
          /\ \A v \in Video : OwnerOf(t)'[v] = OwnerOf(t)[v]
  /\ \A v \in Video : OwnerOf(t)'[v] # OwnerOf(t)[v] =>
       /\ \A p \in Production : PinOf(t)[p] = v => OwnerOf(t)'[v] = p
       /\ \A p \in Production : PinOf(t)'[p] = PinOf(t)[p]

(* Session t's versions gain one production, or one video. *)
PinWrite(t, p, v) ==
  /\ \A u \in Tx \ {t} : myPins'[u] = myPins[u]
  /\ myPins' \in [Tx -> Versions(Production, Pin)]
  /\ DOMAIN myPins'[t] = DOMAIN myPins[t] \cup {p}
  /\ \A q \in DOMAIN myPins'[t] : myPins'[t][q] = IF q = p THEN v ELSE myPins[t][q]

VideoWrite(t, v, o) ==
  /\ \A u \in Tx \ {t} : myVideos'[u] = myVideos[u]
  /\ myVideos' \in [Tx -> Versions(Video, Owner)]
  /\ DOMAIN myVideos'[t] = DOMAIN myVideos[t] \cup {v}
  /\ \A w \in DOMAIN myVideos'[t] : myVideos'[t][w] = IF w = v THEN o ELSE myVideos[t][w]

(* What the ownership trigger leaves behind: the pinned video is locked and is
   the production's, and no owner has changed.                                *)
Locks(t, p, v) ==
  /\ \A u \in Tx \ {t} : myVideos'[u] = myVideos[u]
  /\ myVideos' \in [Tx -> Versions(Video, Owner)]
  /\ DOMAIN myVideos[t] \subseteq DOMAIN myVideos'[t]
  /\ \A w \in DOMAIN myVideos'[t] : w \in DOMAIN myVideos[t] \/ LockableVideo(t, w)
  /\ \A w \in Video : OwnerOf(t)'[w] = OwnerOf(t)[w]
  /\ v \in Video => v \in DOMAIN myVideos'[t] /\ OwnerOf(t)[v] = p

LEMMA PinWritten ==
  ASSUME TypeOK, NEW t \in Tx, NEW p \in Production, NEW v \in Pin,
         myPins' = [myPins EXCEPT ![t] = With(myPins[t], p, v)]
  PROVE  PinWrite(t, p, v)
  <1>1. /\ myPins'[t] = With(myPins[t], p, v)
        /\ \A u \in Tx \ {t} : myPins'[u] = myPins[u]
    BY DEF TypeOK
  <1>2. myPins' \in [Tx -> Versions(Production, Pin)]
    BY <1>1, WithTyping DEF TypeOK
  <1>. QED
    BY <1>1, <1>2 DEF With, PinWrite

LEMMA VideoWritten ==
  ASSUME TypeOK, NEW t \in Tx, NEW v \in Video, NEW o \in Owner,
         myVideos' = [myVideos EXCEPT ![t] = With(myVideos[t], v, o)]
  PROVE  VideoWrite(t, v, o)
  <1>1. /\ myVideos'[t] = With(myVideos[t], v, o)
        /\ \A u \in Tx \ {t} : myVideos'[u] = myVideos[u]
    BY DEF TypeOK
  <1>2. myVideos' \in [Tx -> Versions(Video, Owner)]
    BY <1>1, WithTyping DEF TypeOK
  <1>. QED
    BY <1>1, <1>2 DEF With, VideoWrite

(* The ownership trigger, whether the pin is NULL or names a video. *)
LEMMA OwnedLocks ==
  ASSUME TypeOK, NEW t \in Tx, NEW p \in Production, NEW v \in Video \cup {NoPin},
         owner' = owner, Owned(t, p, v)
  PROVE  Locks(t, p, v)
  <1>1. CASE v = NoPin /\ UNCHANGED myVideos
    BY <1>1, PinAssumption DEF TypeOK, OwnerOf, Over, Locks
  <1>2. ASSUME v \in Video, LockableVideo(t, v), OwnerOf(t)[v] = p,
               myVideos' = [myVideos EXCEPT ![t] = With(myVideos[t], v, p)]
        PROVE  Locks(t, p, v)
    <2>1. p \in Owner
      BY DEF Owner
    <2>2. VideoWrite(t, v, p)
      BY <1>2, <2>1, VideoWritten
    <2>3. \A w \in Video : OwnerOf(t)'[w] = OwnerOf(t)[w]
      BY <1>2, <2>2 DEF OwnerOf, Over, TypeOK, VideoWrite
    <2>4. \A w \in DOMAIN myVideos'[t] : w \in DOMAIN myVideos[t] \/ LockableVideo(t, w)
      BY <1>2, <2>2 DEF VideoWrite
    <2>. QED
      BY <1>2, <2>2, <2>3, <2>4 DEF VideoWrite, Locks
  <1>. QED
    BY <1>1, <1>2 DEF Owned

-----------------------------------------------------------------------------
(* Every statement is a write in the sense of Writes. *)
LEMMA SetPinWrites ==
  ASSUME TypeOK, NEW t \in Tx, NEW p \in Production, NEW v \in Video \cup {NoPin},
         SetPin(t, p, v)
  PROVE  Writes(t)
  <1>1. /\ v \in Pin /\ UNCHANGED <<pin, owner>>
        /\ LockablePin(t, p) /\ Owned(t, p, v)
        /\ myPins' = [myPins EXCEPT ![t] = With(myPins[t], p, v)]
    BY DEF Pin, SetPin
  <1>2. PinWrite(t, p, v)
    BY <1>1, PinWritten
  <1>3. Locks(t, p, v)
    BY <1>1, OwnedLocks
  <1>. QED
    BY <1>1, <1>2, <1>3 DEF Writes, PinWrite, Locks

LEMMA RenameWrites ==
  ASSUME TypeOK, NEW t \in Tx, NEW p \in Production, NEW q \in Production, Rename(t, p, q)
  PROVE  Writes(t)
  <1> DEFINE v == PinOf(t)[p]
             once == With(myPins[t], q, v)
  <1>1. /\ v \in Video \cup {NoPin} /\ p # q /\ UNCHANGED <<pin, owner>>
        /\ LockablePin(t, p) /\ LockablePin(t, q) /\ Owned(t, q, v)
        /\ myPins' = [myPins EXCEPT ![t] = With(once, p, Absent)]
    BY Views DEF Rename, Pin, TypeOK
  <1>2. once \in Versions(Production, Pin)
    BY <1>1, WithTyping DEF TypeOK, Pin
  <1>3. /\ myPins'[t] = With(once, p, Absent)
        /\ \A u \in Tx \ {t} : myPins'[u] = myPins[u]
        /\ myPins' \in [Tx -> Versions(Production, Pin)]
    BY <1>1, <1>2, WithTyping DEF TypeOK, Pin
  <1>4. /\ DOMAIN once = DOMAIN myPins[t] \cup {q}
        /\ \A x \in DOMAIN once : once[x] = IF x = q THEN v ELSE myPins[t][x]
    BY DEF With
  <1> HIDE DEF once
  <1>5. /\ DOMAIN myPins'[t] = DOMAIN once \cup {p}
        /\ \A x \in DOMAIN myPins'[t] : myPins'[t][x] = IF x = p THEN Absent ELSE once[x]
    BY <1>3 DEF With
  <1>6. Locks(t, q, v)
    BY <1>1, OwnedLocks
  <1>7. Absent \notin Video
    BY PinAssumption
  <1> HIDE DEF v
  <1>. QED
    BY <1>1, <1>3, <1>4, <1>5, <1>6, <1>7 DEF Writes, Locks

LEMMA VideoWrites ==
  ASSUME TypeOK, ViewsOwned, NEW t \in Tx, NEW v \in Video,
         \/ \E o \in Production \cup {NoOwner} : SetOwner(t, v, o)
         \/ DeleteVideo(t, v)
  PROVE  Writes(t)
  <1>1. PICK o \in Owner :
          /\ UNCHANGED <<pin, owner, myPins>>
          /\ LockableVideo(t, v)
          /\ myVideos' = [myVideos EXCEPT ![t] = With(myVideos[t], v, o)]
          /\ OwnerOf(t)[v] \notin {Absent, o} => \A p \in Production : PinOf(t)[p] = v => o = p
    BY DEF SetOwner, DeleteVideo, Guard, Owner
  <1>2. OwnerOf(t)[v] # o => \A p \in Production : PinOf(t)[p] = v => o = p
    BY <1>1, PinAssumption DEF ViewsOwned
  <1>3. VideoWrite(t, v, o)
    BY <1>1, VideoWritten
  <1>4. \A w \in Video : OwnerOf(t)'[w] = IF w = v THEN o ELSE OwnerOf(t)[w]
    BY <1>1, <1>3 DEF OwnerOf, Over, TypeOK, VideoWrite
  <1>5. /\ myPins' = myPins /\ PinOf(t)' = PinOf(t)
        /\ myPins \in [Tx -> Versions(Production, Pin)]
    BY <1>1 DEF TypeOK, PinOf, Over
  <1>. QED
    BY <1>1, <1>2, <1>3, <1>4, <1>5 DEF Writes, VideoWrite

LEMMA DeleteProductionWrites ==
  ASSUME TypeOK, NEW t \in Tx, NEW p \in Production, DeleteProduction(t, p)
  PROVE  Writes(t)
  <1>1. Absent \in Pin /\ Absent \notin Video
    BY PinAssumption DEF Pin
  <1>2. /\ UNCHANGED <<pin, owner, myVideos>> /\ LockablePin(t, p)
        /\ myPins' = [myPins EXCEPT ![t] = With(myPins[t], p, Absent)]
    BY DEF DeleteProduction
  <1>3. PinWrite(t, p, Absent)
    BY <1>1, <1>2, PinWritten
  <1>4. OwnerOf(t)' = OwnerOf(t) /\ myVideos \in [Tx -> Versions(Video, Owner)]
    BY <1>2 DEF OwnerOf, Over, TypeOK
  <1>. QED
    BY <1>1, <1>2, <1>3, <1>4 DEF Writes, PinWrite

-----------------------------------------------------------------------------
(* A step is a statement of one session, or ends its transaction. *)
Ends(t) == /\ myPins' = [myPins EXCEPT ![t] = [p \in {} |-> Absent]]
           /\ myVideos' = [myVideos EXCEPT ![t] = [v \in {} |-> Absent]]
           /\ \/ pin' = PinOf(t) /\ owner' = OwnerOf(t)
              \/ UNCHANGED <<pin, owner>>

LEMMA StepKinds ==
  ASSUME TypeOK, ViewsOwned, Next
  PROVE  \E t \in Tx : Writes(t) \/ Ends(t)
  BY SetPinWrites, RenameWrites, VideoWrites, DeleteProductionWrites
     DEF Next, Ends, Commit, Rollback, EndTx

PinInv == TypeOK /\ ViewsOwned /\ PinIsOwned

LEMMA WritesKeepTypes ==
  ASSUME TypeOK, NEW t \in Tx, Writes(t)
  PROVE  TypeOK'
  <1>1. /\ pin' \in [Production -> Pin]
        /\ owner' \in [Video -> Owner]
    BY DEF TypeOK, Writes
  <1>2. /\ \A u \in Tx : DOMAIN myPins[u] \subseteq Production
        /\ DOMAIN myPins'[t] \subseteq Production /\ DOMAIN myVideos'[t] \subseteq Video
    BY VersionTyping DEF TypeOK, Writes
  <1>. QED
    BY <1>1, <1>2 DEF TypeOK, Writes, LockablePin, LockableVideo

LEMMA EndsKeepTypes ==
  ASSUME TypeOK, NEW t \in Tx, Ends(t)
  PROVE  TypeOK'
  BY EmptyTyping, Views DEF TypeOK, Ends

LEMMA WritesKeepViews ==
  ASSUME PinInv, NEW t \in Tx, Writes(t)
  PROVE  ViewsOwned' /\ PinIsOwned'
  <1> USE DEF PinInv
  <1>1. PinIsOwned'
    BY DEF PinIsOwned, Writes
  <1>2. ASSUME NEW u \in Tx, NEW p \in Production, PinOf(u)'[p] \in Video
        PROVE  OwnerOf(u)'[PinOf(u)'[p]] = p
    <2>1. CASE u # t
      <3>1. PinOf(u)' = PinOf(u) /\ OwnerOf(u)' = OwnerOf(u)
        BY <2>1 DEF Writes, PinOf, OwnerOf, Over
      <3>. QED
        BY <1>2, <3>1 DEF ViewsOwned
    <2>2. CASE u = t
      <3> DEFINE v == PinOf(t)'[p]
      <3>1. v = IF p \in DOMAIN myPins'[t] THEN myPins'[t][p] ELSE pin[p]
        BY DEF Writes, PinOf, Over, TypeOK
      <3>2. CASE PinOf(t)[p] = v
        <4>1. OwnerOf(t)[v] = p
          BY <1>2, <2>2, <3>2 DEF ViewsOwned
        <4>. QED
          BY <1>2, <2>2, <3>2, <4>1 DEF Writes
      <3>3. CASE PinOf(t)[p] # v
        <4>1. p \in DOMAIN myPins'[t] /\ (p \in DOMAIN myPins[t] => myPins[t][p] # v)
          BY <3>1, <3>3, Views DEF Writes
        <4>2. v = myPins'[t][p]
          BY <3>1, <4>1
        <4>3. v \in Video
          BY <1>2, <2>2
        <4>4. OwnerOf(t)[v] = p /\ OwnerOf(t)'[v] = OwnerOf(t)[v]
          BY <4>1, <4>2, <4>3 DEF Writes
        <4>. QED
          BY <2>2, <4>4
      <3>. QED
        BY <3>2, <3>3
    <2>. QED
      BY <2>1, <2>2
  <1>. QED
    BY <1>1, <1>2 DEF ViewsOwned

(* A commit by t reaches the view of another session u only through rows u has
   not locked; those pins and owners agree in t's view or already did in u's. *)
LEMMA EndsKeepViews ==
  ASSUME PinInv, NEW t \in Tx, Ends(t)
  PROVE  ViewsOwned' /\ PinIsOwned'
  <1> USE DEF PinInv
  <1>1. CASE UNCHANGED <<pin, owner>>
    <2>1. \A u \in Tx : \/ PinOf(u)' = PinOf(u) /\ OwnerOf(u)' = OwnerOf(u)
                        \/ PinOf(u)' = pin /\ OwnerOf(u)' = owner
      BY <1>1 DEF Ends, PinOf, OwnerOf, Over, TypeOK
    <2>. QED
      BY <1>1, <2>1 DEF ViewsOwned, PinIsOwned
  <1>2. CASE pin' = PinOf(t) /\ owner' = OwnerOf(t)
    <2>1. PinIsOwned'
      BY <1>2 DEF PinIsOwned, ViewsOwned
    <2>2. ASSUME NEW u \in Tx, NEW p \in Production, PinOf(u)'[p] \in Video
          PROVE  OwnerOf(u)'[PinOf(u)'[p]] = p
      <3> DEFINE v == PinOf(u)'[p]
      <3>1. CASE u = t
        <4>1. PinOf(u)'[p] = PinOf(t)[p] /\ OwnerOf(u)'[v] = OwnerOf(t)[v]
          BY <1>2, <2>2, <3>1, Views DEF Ends, PinOf, OwnerOf, Over, TypeOK
        <4>. QED
          BY <2>2, <4>1 DEF ViewsOwned
      <3>2. CASE u # t
        <4>1. /\ PinOf(u)'[p] = IF p \in DOMAIN myPins[u] THEN myPins[u][p] ELSE PinOf(t)[p]
              /\ OwnerOf(u)'[v] = IF v \in DOMAIN myVideos[u] THEN myVideos[u][v]
                                                              ELSE OwnerOf(t)[v]
          BY <1>2, <2>2, <3>2, Views DEF Ends, PinOf, OwnerOf, Over, TypeOK
        <4>2. CASE p \in DOMAIN myPins[u]
          <5>1. v = myPins[u][p] /\ v \in DOMAIN myVideos[u] /\ v = PinOf(u)[p]
            BY <2>2, <4>1, <4>2, Views DEF TypeOK
          <5>2. OwnerOf(u)[v] = p
            BY <2>2, <5>1 DEF ViewsOwned
          <5>. QED
            BY <2>2, <4>1, <5>1, <5>2, Views
        <4>3. CASE p \notin DOMAIN myPins[u] /\ v \notin DOMAIN myVideos[u]
          BY <2>2, <4>1, <4>3 DEF ViewsOwned
        <4>4. CASE p \notin DOMAIN myPins[u] /\ v \in DOMAIN myVideos[u]
          <5>1. v \notin DOMAIN myVideos[t] /\ v = PinOf(t)[p]
            BY <3>2, <4>1, <4>4 DEF TypeOK
          <5>2. p \notin DOMAIN myPins[t]
            BY <2>2, <5>1, Views DEF TypeOK
          <5>3. PinOf(u)[p] = v
            BY <4>4, <5>1, <5>2, Views
          <5>4. OwnerOf(u)[v] = p
            BY <2>2, <5>3 DEF ViewsOwned
          <5>. QED
            BY <2>2, <4>1, <4>4, <5>4, Views
        <4>. QED
          BY <4>2, <4>3, <4>4
      <3>. QED
        BY <3>1, <3>2
    <2>. QED
      BY <2>1, <2>2 DEF ViewsOwned
  <1>. QED
    BY <1>1, <1>2 DEF Ends

LEMMA PinInvariant == Spec => []PinInv
  <1>1. Init => PinInv
    <2>1. Init => TypeOK
      BY EmptyTyping DEF Init, TypeOK, Pin, Owner
    <2>2. Init => ViewsOwned /\ PinIsOwned
      BY PinAssumption DEF Init, ViewsOwned, PinIsOwned, PinOf, Over
    <2>. QED
      BY <2>1, <2>2 DEF PinInv
  <1>2. PinInv /\ [Next]_vars => PinInv'
    <2> SUFFICES ASSUME PinInv, [Next]_vars PROVE PinInv'
      OBVIOUS
    <2>1. CASE UNCHANGED vars
      BY <2>1 DEF vars, PinInv, TypeOK, ViewsOwned, PinIsOwned, PinOf, OwnerOf, Over
    <2>2. CASE Next
      <3>1. PICK t \in Tx : Writes(t) \/ Ends(t)
        BY <2>2, StepKinds DEF PinInv
      <3>. QED
        BY <3>1, WritesKeepTypes, EndsKeepTypes, WritesKeepViews, EndsKeepViews DEF PinInv
    <2>. QED
      BY <2>1, <2>2
  <1>. QED
    BY <1>1, <1>2, PTL DEF Spec

-----------------------------------------------------------------------------
(* Types hold, row locks are exclusive and cover every pin a session writes. *)
THEOREM PinTyping == Spec => []TypeOK
  BY PinInvariant, PTL DEF PinInv

(* A committed pin names a video of the production that pins it. *)
THEOREM PinsAreOwned == Spec => []PinIsOwned
  BY PinInvariant, PTL DEF PinInv

-----------------------------------------------------------------------------
(* A document whose scenes approve takes they have, each with a job in the queue. *)
Real(document) ==
  /\ document \in Broll!Document
  /\ \A s \in DOMAIN document : /\ document[s].approved \subseteq document[s].takes
                                /\ document[s].takes \subseteq jobs

InFlight == [document : Broll!Document, library : (SUBSET Take) \cup {Null}, scene : Scene \cup {Null},
             todo : SUBSET Provider, removes : SUBSET Take]

(* What a request will write is real too, and it enqueues for a scene it has. *)
BrollInv ==
  /\ Real(scenes)
  /\ library \subseteq Take /\ jobs \subseteq Take
  /\ sceneReq \in [Request -> InFlight \cup {Null}]
  /\ \A q \in Request : sceneReq[q] # Null =>
       /\ Real(sceneReq[q].document)
       /\ sceneReq[q].todo # {} => sceneReq[q].scene \in DOMAIN sceneReq[q].document

(* A document maps some of the scenes to rows. *)
LEMMA DocumentShape ==
  ASSUME NEW d
  PROVE  d \in Broll!Document <=> /\ d = [s \in DOMAIN d |-> d[s]] /\ DOMAIN d \subseteq Scene
                                  /\ \A s \in DOMAIN d : d[s] \in Broll!SceneRow
  BY DEF Broll!Document

(* What a request holds after it enqueued for one provider. *)
LEMMA HeldAfter ==
  ASSUME NEW h \in InFlight, NEW todo, NEW e
  PROVE  [h EXCEPT !.todo = todo, !.document = e] =
           [document |-> e, library |-> h.library, scene |-> h.scene, todo |-> todo,
            removes |-> h.removes]
  <1> DEFINE g == [h EXCEPT !.todo = todo]
  <1>1. g = [document |-> h.document, library |-> h.library, scene |-> h.scene, todo |-> todo,
             removes |-> h.removes]
    BY DEF InFlight
  <1>2. [h EXCEPT !.todo = todo, !.document = e] = [g EXCEPT !.document = e]
    OBVIOUS
  <1> HIDE DEF g
  <1>. QED
    BY <1>1, <1>2

(* A request that read the document and holds a real one. *)
LEMMA ReadStep ==
  ASSUME BrollInv, NEW q \in Request, NEW document, NEW lib \in (SUBSET Take) \cup {Null},
         NEW scene \in Scene \cup {Null}, NEW todo \in SUBSET Provider, NEW removes \in SUBSET Take,
         Broll!Read(q, document, lib, scene, todo, removes),
         Real(document), todo # {} => scene \in DOMAIN document
  PROVE  BrollInv'
  <1>1. [document |-> document, library |-> lib, scene |-> scene, todo |-> todo,
         removes |-> removes] \in InFlight
    BY DEF InFlight, Real
  <1>. QED
    BY <1>1 DEF Broll!Read, BrollInv, Real

(* A request has one more take, with its job in the queue. *)
TakenUp(q, t, r) ==
  LET old == sceneReq[q] IN
  /\ sceneReq' = [sceneReq EXCEPT ![q] = r]
  /\ jobs' = jobs \cup {t} /\ UNCHANGED <<scenes, library, dropped, stale, overwrote, orphaned>>
  /\ DOMAIN r.document = DOMAIN old.document
  /\ \A x \in DOMAIN r.document : /\ old.document[x].takes \subseteq r.document[x].takes
                                   /\ r.document[x].takes \subseteq old.document[x].takes \cup {t}
                                   /\ r.document[x].approved = old.document[x].approved
  /\ r.scene \in DOMAIN r.document /\ t \in r.document[r.scene].takes
  /\ r.library = old.library /\ r.removes = old.removes

LEMMA EnqueueStep ==
  ASSUME BrollInv, NEW q \in Request, NEW t \in Take, Broll!Enqueue(q, t)
  PROVE  \E r \in InFlight : TakenUp(q, t, r)
  <1> DEFINE h == sceneReq[q]
             s == h.scene
             d == h.document
             row == [d[s] EXCEPT !.takes = d[s].takes \cup {t}]
             e == Broll!With(d, s, row)
  <1>1. PICK p \in h.todo :
          sceneReq' = [sceneReq EXCEPT ![q] = [h EXCEPT !.todo = h.todo \ {p}, !.document = e]]
    BY DEF Broll!Enqueue
  <1>2. h \in InFlight /\ Real(d) /\ s \in DOMAIN d
    BY DEF Broll!Enqueue, BrollInv
  <1>3. d[s] \in Broll!SceneRow /\ s \in Scene
    BY <1>2, DocumentShape DEF Real
  <1>4. row = [providers |-> d[s].providers, takes |-> d[s].takes \cup {t},
               approved |-> d[s].approved]
    BY <1>3 DEF Broll!SceneRow
  <1>5. row \in Broll!SceneRow
    BY <1>3, <1>4 DEF Broll!SceneRow
  <1>6. /\ DOMAIN e = DOMAIN d /\ e[s] = row
        /\ \A x \in DOMAIN d \ {s} : e[x] = d[x]
    BY <1>2 DEF Broll!With
  <1>7. e \in Broll!Document
    BY <1>2, <1>3, <1>5, DocumentShape DEF Real, Broll!With
  <1> DEFINE r == [document |-> e, library |-> h.library, scene |-> s, todo |-> h.todo \ {p},
                   removes |-> h.removes]
  <1>8. sceneReq' = [sceneReq EXCEPT ![q] = r]
    BY <1>1, <1>2, HeldAfter
  <1>9. r \in InFlight /\ r.document = e /\ r.scene = s /\ r.library = h.library
        /\ r.removes = h.removes
    BY <1>2, <1>7 DEF InFlight
  <1> HIDE DEF r, e, row
  <1>10. \A x \in DOMAIN d : /\ d[x].takes \subseteq e[x].takes
                             /\ e[x].takes \subseteq d[x].takes \cup {t}
                             /\ e[x].approved = d[x].approved
    BY <1>2, <1>4, <1>6
  <1>11. t \in e[s].takes
    BY <1>4, <1>6
  <1>12. jobs' = jobs \cup {t} /\ UNCHANGED <<scenes, library, dropped, stale, overwrote, orphaned>>
    BY DEF Broll!Enqueue
  <1>. QED
    BY <1>2, <1>6, <1>8, <1>9, <1>10, <1>11, <1>12 DEF TakenUp

LEMMA BrollStep == BrollInv /\ [Broll!Next]_(Broll!vars) => BrollInv'
  <1> SUFFICES ASSUME BrollInv, [Broll!Next]_(Broll!vars) PROVE BrollInv'
    OBVIOUS
  <1>0. /\ scenes = [s \in DOMAIN scenes |-> scenes[s]] /\ DOMAIN scenes \subseteq Scene
        /\ \A s \in DOMAIN scenes : /\ scenes[s] \in Broll!SceneRow
                                    /\ scenes[s].approved \subseteq scenes[s].takes
                                    /\ scenes[s].takes \subseteq jobs
    BY DocumentShape DEF BrollInv, Real
  <1>1. ASSUME NEW q \in Request, NEW s \in Scene, NEW providers \in SUBSET Provider,
               Broll!AddScene(q, s, providers)
        PROVE  BrollInv'
    <2> DEFINE d == Broll!With(scenes, s, [providers |-> providers, takes |-> {}, approved |-> {}])
    <2>1. Real(d)
      BY <1>0, DocumentShape DEF Real, Broll!With, Broll!SceneRow
    <2>. QED
      BY <1>1, <2>1, ReadStep DEF Broll!AddScene
  <1>2. ASSUME NEW q \in Request, NEW s \in Scene, NEW providers \in SUBSET Provider,
               Broll!PatchScene(q, s, providers)
        PROVE  BrollInv'
    <2> DEFINE d == [scenes EXCEPT ![s].providers = providers]
    <2>1. Real(d)
      BY <1>0, <1>2, DocumentShape DEF Real, Broll!SceneRow, Broll!PatchScene
    <2>. QED
      BY <1>2, <2>1, ReadStep DEF Broll!PatchScene
  <1>3. ASSUME NEW q \in Request, NEW s \in Scene, Broll!DeleteScene(q, s) PROVE BrollInv'
    <2>1. Real(Broll!Without(scenes, s))
      BY <1>0, DocumentShape DEF Real, Broll!Without
    <2>2. (IF s \in DOMAIN scenes THEN scenes[s].takes ELSE {}) \in SUBSET Take
      BY <1>0 DEF Broll!SceneRow
    <2>. QED
      BY <1>3, <2>1, <2>2, ReadStep DEF Broll!DeleteScene
  <1>4. ASSUME NEW q \in Request, NEW s \in Scene, Broll!RenderScene(q, s) PROVE BrollInv'
    <2>1. scenes[s].providers \in SUBSET Provider
      BY <1>0, <1>4 DEF Broll!RenderScene, Broll!SceneRow
    <2>2. Real(scenes)
      BY DEF BrollInv
    <2>3. s \in DOMAIN scenes /\ Broll!Read(q, scenes, Null, s, scenes[s].providers, {})
      BY <1>4 DEF Broll!RenderScene
    <2> HIDE <1>0
    <2>. QED
      BY <2>1, <2>2, <2>3, ReadStep
  <1>5. ASSUME NEW q \in Request, NEW t \in Take, Broll!DiscardTake(q, t) PROVE BrollInv'
    <2> DEFINE d == [s \in DOMAIN scenes |->
                       [scenes[s] EXCEPT !.takes = @ \ {t}, !.approved = @ \ {t}]]
    <2>0. ASSUME NEW s \in DOMAIN scenes
          PROVE  d[s] = [providers |-> scenes[s].providers, takes |-> scenes[s].takes \ {t},
                         approved |-> scenes[s].approved \ {t}]
      BY <1>0 DEF Broll!SceneRow
    <2>1. d = [s \in DOMAIN d |-> d[s]] /\ DOMAIN d = DOMAIN scenes
      OBVIOUS
    <2> HIDE DEF d
    <2>2. Real(d)
      BY <1>0, <2>0, <2>1, DocumentShape DEF Real, Broll!SceneRow
    <2>. QED
      BY <1>5, <2>2, ReadStep DEF Broll!DiscardTake, d
  <1>6. ASSUME NEW q \in Request, NEW t \in Take, Broll!ApproveTake(q, t) PROVE BrollInv'
    <2> DEFINE d == [s \in DOMAIN scenes |->
                       [scenes[s] EXCEPT !.approved = IF t \in scenes[s].takes THEN @ \cup {t} ELSE @]]
    <2>1. Real(d)
      BY <1>0, DocumentShape DEF Real, Broll!SceneRow
    <2>2. library \cup {t} \in SUBSET Take
      BY DEF BrollInv
    <2>. QED
      BY <1>6, <2>1, <2>2, ReadStep DEF Broll!ApproveTake
  <1>7. ASSUME NEW q \in Request, NEW t \in Take, Broll!Enqueue(q, t) PROVE BrollInv'
    <2>1. PICK r \in InFlight : TakenUp(q, t, r)
      BY <1>7, EnqueueStep
    <2>2. /\ sceneReq' \in [Request -> InFlight \cup {Null}]
          /\ \A o \in Request : sceneReq'[o] = IF o = q THEN r ELSE sceneReq[o]
      BY <2>1 DEF TakenUp, BrollInv
    <2>3. Real(scenes)' /\ library' \subseteq Take /\ jobs' \subseteq Take
      BY <2>1 DEF TakenUp, BrollInv, Real
    <2>4. sceneReq[q] # Null /\ Real(sceneReq[q].document) /\ r.document \in Broll!Document
      BY <1>7 DEF Broll!Enqueue, BrollInv, InFlight
    <2>5. Real(r.document)'
      BY <2>1, <2>4 DEF TakenUp, Real
    <2>6. ASSUME NEW o \in Request, o # q, sceneReq[o] # Null
          PROVE  /\ Real(sceneReq[o].document)'
                 /\ sceneReq'[o].todo # {} => sceneReq'[o].scene \in DOMAIN sceneReq'[o].document
      BY <2>1, <2>2, <2>6 DEF TakenUp, BrollInv, Real
    <2>7. r.scene \in DOMAIN r.document
      BY <2>1 DEF TakenUp
    <2>8. \A o \in Request : sceneReq'[o] # Null =>
             /\ Real(sceneReq[o].document)'
             /\ sceneReq'[o].todo # {} => sceneReq'[o].scene \in DOMAIN sceneReq'[o].document
      BY <2>2, <2>5, <2>6, <2>7
    <2>. QED
      BY <2>2, <2>3, <2>8 DEF BrollInv
  <1>8. ASSUME NEW q \in Request, Broll!Write(q) PROVE BrollInv'
    <2>1. sceneReq[q] \in InFlight /\ Real(sceneReq[q].document)
      BY <1>8 DEF Broll!Write, BrollInv
    <2>2. library' \subseteq Take /\ UNCHANGED jobs /\ scenes' = sceneReq[q].document
      BY <1>8, <2>1 DEF Broll!Write, BrollInv, InFlight
    <2>3. Real(scenes)'
      BY <2>1, <2>2 DEF Real
    <2>4. /\ sceneReq' = [sceneReq EXCEPT ![q] = Null]
          /\ \A o \in Request : sceneReq'[o] = IF o = q THEN Null ELSE sceneReq[o]
      BY <1>8 DEF Broll!Write, BrollInv
    <2>. QED
      BY <2>2, <2>3, <2>4 DEF BrollInv, Real
  <1>9. ASSUME NEW q \in Request, Broll!Die(q) PROVE BrollInv'
    BY <1>9 DEF Broll!Die, BrollInv, Real
  <1>10. CASE UNCHANGED Broll!vars
    BY <1>10 DEF Broll!vars, BrollInv, Real
  <1>. QED
    BY <1>1, <1>2, <1>3, <1>4, <1>5, <1>6, <1>7, <1>8, <1>9, <1>10 DEF Broll!Next

(* Whatever requests overlap or die, the document names only takes that have a job, and
   approves only takes it has.                                                        *)
THEOREM TakesStayReal == Broll!Spec => []TakesAreReal
  <1>1. Broll!Init => BrollInv
    BY DocumentShape DEF Broll!Init, BrollInv, Real
  <1>2. BrollInv => TakesAreReal
    BY DEF BrollInv, Real, TakesAreReal, Broll!TakesAreReal
  <1>. QED
    BY <1>1, <1>2, BrollStep, PTL DEF Broll!Spec

-----------------------------------------------------------------------------
(* A request in flight that no write has overtaken will write all takes there are, but
   those it removes, and with them a library of the approved ones.                     *)
Keeps(r) ==
  LET kept == IF r.library = Null THEN library ELSE r.library
  IN  /\ Broll!TakesOf(scenes) \subseteq Broll!TakesOf(r.document) \cup r.removes
      /\ Broll!Approved(r.document) \subseteq kept
      /\ kept \subseteq Broll!Approved(r.document) \cup dropped \cup r.removes

FreshInv ==
  /\ \A q \in stale : sceneReq[q] # Null
  /\ ~overwrote => \A q \in Request \ stale : sceneReq[q] # Null => Keeps(sceneReq[q])

(* Null stands for neither a library nor a request. *)
NullIsApart == Null \notin (SUBSET Take) \cup InFlight

LossInv == FreshInv /\ OnlyOverwritesLose

(* A request that starts and holds a document that keeps what there is. *)
LEMMA ReadKeeps ==
  ASSUME BrollInv, LossInv, NEW q \in Request, NEW document, NEW lib, NEW scene, NEW todo,
         NEW removes, Broll!Read(q, document, lib, scene, todo, removes),
         ~overwrote => Keeps([document |-> document, library |-> lib, scene |-> scene,
                              todo |-> todo, removes |-> removes])
  PROVE  LossInv'
  <1> DEFINE r == [document |-> document, library |-> lib, scene |-> scene, todo |-> todo,
                   removes |-> removes]
  <1>1. /\ sceneReq[q] = Null /\ sceneReq' = [sceneReq EXCEPT ![q] = r]
        /\ \A o \in Request : sceneReq'[o] = IF o = q THEN r ELSE sceneReq[o]
        /\ UNCHANGED <<scenes, library, jobs, dropped, stale, overwrote, orphaned>>
    BY DEF Broll!Read, BrollInv
  <1> HIDE DEF r
  <1>2. q \notin stale
    BY <1>1 DEF LossInv, FreshInv
  <1>3. \A x : Keeps(x)' = Keeps(x)
    BY <1>1 DEF Keeps, Broll!TakesOf, Broll!Approved
  <1>4. FreshInv'
    <2>1. \A o \in stale : sceneReq'[o] # Null
      BY <1>1, <1>2 DEF LossInv, FreshInv, BrollInv
    <2>2. ASSUME ~overwrote, NEW o \in Request \ stale, sceneReq'[o] # Null
          PROVE  Keeps(sceneReq'[o])
      BY <1>1, <2>2 DEF LossInv, FreshInv, r
    <2>3. \A o \in Request : Keeps(sceneReq'[o]) => Keeps(sceneReq[o])'
      BY <1>1 DEF Keeps, Broll!TakesOf, Broll!Approved
    <2>. QED
      BY <1>1, <2>1, <2>2, <2>3 DEF FreshInv
  <1>5. OnlyOverwritesLose'
    BY <1>1 DEF LossInv, OnlyOverwritesLose, Broll!OnlyOverwritesLose, Broll!TakesOf, Broll!Approved
  <1>. QED
    BY <1>4, <1>5 DEF LossInv

(* What a document has to do with the one that was read, row by row. *)
LEMMA RowsKeep ==
  ASSUME LossInv, ~overwrote, NEW r, NEW plus,
         \A s \in DOMAIN scenes : \A t \in scenes[s].takes :
           t \in r.removes \/ \E x \in DOMAIN r.document : t \in r.document[x].takes,
         \A s \in DOMAIN scenes : \A t \in scenes[s].approved :
           t \in r.removes \/ \E x \in DOMAIN r.document : t \in r.document[x].approved,
         \A x \in DOMAIN r.document : \A t \in r.document[x].approved :
           t \in plus \/ \E s \in DOMAIN scenes : t \in scenes[s].approved,
         \A t \in plus : \E x \in DOMAIN r.document : t \in r.document[x].approved,
         (IF r.library = Null THEN library ELSE r.library) = library \cup plus
  PROVE  Keeps(r)
  <1>1. /\ Broll!TakesOf(scenes) \subseteq Broll!TakesOf(r.document) \cup r.removes
        /\ Broll!Approved(scenes) \subseteq Broll!Approved(r.document) \cup r.removes
        /\ Broll!Approved(r.document) \subseteq Broll!Approved(scenes) \cup plus
        /\ plus \subseteq Broll!Approved(r.document)
    BY DEF Broll!TakesOf, Broll!Approved
  <1>2. Broll!Approved(scenes) \subseteq library /\ library \subseteq Broll!Approved(scenes) \cup dropped
    BY DEF LossInv, OnlyOverwritesLose, Broll!OnlyOverwritesLose
  <1>. QED
    BY <1>1, <1>2 DEF Keeps

LEMMA LossStep ==
  NullIsApart /\ BrollInv /\ LossInv /\ [Broll!Next]_(Broll!vars) => LossInv'
  <1> SUFFICES ASSUME NullIsApart, BrollInv, LossInv, [Broll!Next]_(Broll!vars)
               PROVE  LossInv'
    OBVIOUS
  <1>0. /\ scenes = [s \in DOMAIN scenes |-> scenes[s]] /\ DOMAIN scenes \subseteq Scene
        /\ \A s \in DOMAIN scenes : /\ scenes[s] \in Broll!SceneRow
                                    /\ scenes[s].approved \subseteq scenes[s].takes
    BY DocumentShape DEF BrollInv, Real
  <1>1. ASSUME NEW q \in Request, NEW s \in Scene, NEW providers \in SUBSET Provider,
               Broll!AddScene(q, s, providers)
        PROVE  LossInv'
    <2> DEFINE d == Broll!With(scenes, s, [providers |-> providers, takes |-> {}, approved |-> {}])
               r == [document |-> d, library |-> Null, scene |-> Null, todo |-> {}, removes |-> {}]
    <2>1. /\ r.document = d /\ r.library = Null /\ r.removes = {}
          /\ DOMAIN d = DOMAIN scenes \cup {s} /\ d[s].approved = {}
          /\ \A x \in DOMAIN scenes : d[x] = scenes[x]
      BY <1>1 DEF Broll!AddScene, Broll!With
    <2>2. Broll!Read(q, d, Null, Null, {}, {})
      BY <1>1 DEF Broll!AddScene
    <2> HIDE DEF d
    <2>3. ~overwrote => Keeps(r)
      <3> SUFFICES ASSUME ~overwrote PROVE Keeps(r)
        OBVIOUS
      <3> HIDE DEF r
      <3>. QED
        BY <2>1, RowsKeep, library = library \cup {}
    <2>. QED
      BY <2>2, <2>3, ReadKeeps
  <1>2. ASSUME NEW q \in Request, NEW s \in Scene, NEW providers \in SUBSET Provider,
               Broll!PatchScene(q, s, providers)
        PROVE  LossInv'
    <2> DEFINE d == [scenes EXCEPT ![s].providers = providers]
               r == [document |-> d, library |-> Null, scene |-> Null, todo |-> {}, removes |-> {}]
    <2>1. /\ r.document = d /\ r.library = Null /\ r.removes = {} /\ DOMAIN d = DOMAIN scenes
          /\ \A x \in DOMAIN scenes : /\ d[x].takes = scenes[x].takes
                                      /\ d[x].approved = scenes[x].approved
      BY <1>0 DEF Broll!SceneRow
    <2>2. Broll!Read(q, d, Null, Null, {}, {})
      BY <1>2 DEF Broll!PatchScene
    <2> HIDE DEF d
    <2>3. ~overwrote => Keeps(r)
      <3> SUFFICES ASSUME ~overwrote PROVE Keeps(r)
        OBVIOUS
      <3> HIDE DEF r
      <3>. QED
        BY <2>1, RowsKeep, library = library \cup {}
    <2>. QED
      BY <2>2, <2>3, ReadKeeps
  <1>3. ASSUME NEW q \in Request, NEW s \in Scene, Broll!DeleteScene(q, s) PROVE LossInv'
    <2> DEFINE d == Broll!Without(scenes, s)
               gone == IF s \in DOMAIN scenes THEN scenes[s].takes ELSE {}
               r == [document |-> d, library |-> Null, scene |-> Null, todo |-> {}, removes |-> gone]
    <2>1. /\ r.document = d /\ r.library = Null /\ r.removes = gone
          /\ DOMAIN d = DOMAIN scenes \ {s} /\ \A x \in DOMAIN d : d[x] = scenes[x]
          /\ s \in DOMAIN scenes => gone = scenes[s].takes
      BY DEF Broll!Without
    <2>2. Broll!Read(q, d, Null, Null, {}, gone)
      BY <1>3 DEF Broll!DeleteScene
    <2> HIDE DEF d, gone
    <2>3. ~overwrote => Keeps(r)
      <3> SUFFICES ASSUME ~overwrote PROVE Keeps(r)
        OBVIOUS
      <3> HIDE DEF r
      <3> DEFINE none == {}
      <3>1. \A x \in DOMAIN scenes : \A t \in scenes[x].takes :
              t \in r.removes \/ \E y \in DOMAIN r.document : t \in r.document[y].takes
        BY <2>1
      <3>2. \A x \in DOMAIN scenes : \A t \in scenes[x].approved :
              t \in r.removes \/ \E y \in DOMAIN r.document : t \in r.document[y].approved
        BY <1>0, <2>1
      <3>3. \A x \in DOMAIN r.document : \A t \in r.document[x].approved :
              t \in none \/ \E y \in DOMAIN scenes : t \in scenes[y].approved
        BY <2>1
      <3>4. (IF r.library = Null THEN library ELSE r.library) = library \cup none
        BY <2>1
      <3>5. \A t \in none : \E y \in DOMAIN r.document : t \in r.document[y].approved
        OBVIOUS
      <3> HIDE DEF none
      <3>. QED
        BY ONLY LossInv, ~overwrote, <3>1, <3>2, <3>3, <3>4, <3>5, RowsKeep
    <2>. QED
      BY <2>2, <2>3, ReadKeeps
  <1>4. ASSUME NEW q \in Request, NEW s \in Scene, Broll!RenderScene(q, s) PROVE LossInv'
    <2> DEFINE todo == scenes[s].providers
               r == [document |-> scenes, library |-> Null, scene |-> s, todo |-> todo, removes |-> {}]
    <2>1. r.document = scenes /\ r.library = Null /\ r.removes = {}
      OBVIOUS
    <2>2. Broll!Read(q, scenes, Null, s, todo, {})
      BY <1>4 DEF Broll!RenderScene
    <2> HIDE DEF todo
    <2>3. ~overwrote => Keeps(r)
      <3> SUFFICES ASSUME ~overwrote PROVE Keeps(r)
        OBVIOUS
      <3> HIDE DEF r
      <3>. QED
        BY <2>1, RowsKeep, library = library \cup {}
    <2>. QED
      BY <2>2, <2>3, ReadKeeps
  <1>5. ASSUME NEW q \in Request, NEW t \in Take, Broll!DiscardTake(q, t) PROVE LossInv'
    <2> DEFINE d == [s \in DOMAIN scenes |->
                       [scenes[s] EXCEPT !.takes = @ \ {t}, !.approved = @ \ {t}]]
               r == [document |-> d, library |-> Null, scene |-> Null, todo |-> {}, removes |-> {t}]
    <2>1. DOMAIN d = DOMAIN scenes
      OBVIOUS
    <2>2. ASSUME NEW s \in DOMAIN scenes
          PROVE  d[s] = [providers |-> scenes[s].providers, takes |-> scenes[s].takes \ {t},
                         approved |-> scenes[s].approved \ {t}]
      BY <1>0 DEF Broll!SceneRow
    <2>3. r.document = d /\ r.library = Null /\ r.removes = {t}
      OBVIOUS
    <2>4. Broll!Read(q, d, Null, Null, {}, {t})
      BY <1>5 DEF Broll!DiscardTake
    <2> HIDE DEF d
    <2>5. ASSUME NEW s \in DOMAIN scenes
          PROVE  d[s].takes = scenes[s].takes \ {t} /\ d[s].approved = scenes[s].approved \ {t}
      <3>1. d[s] = [providers |-> scenes[s].providers, takes |-> scenes[s].takes \ {t},
                    approved |-> scenes[s].approved \ {t}]
        BY <2>2
      <3>. QED
        BY <3>1
    <2> HIDE <2>2
    <2>6. ~overwrote => Keeps(r)
      <3> SUFFICES ASSUME ~overwrote PROVE Keeps(r)
        OBVIOUS
      <3> HIDE DEF r
      <3> DEFINE none == {}
      <3>1. \A x \in DOMAIN scenes : \A k \in scenes[x].takes :
              k \in r.removes \/ \E y \in DOMAIN r.document : k \in r.document[y].takes
        BY <2>1, <2>3, <2>5
      <3>2. \A x \in DOMAIN scenes : \A k \in scenes[x].approved :
              k \in r.removes \/ \E y \in DOMAIN r.document : k \in r.document[y].approved
        BY <2>1, <2>3, <2>5
      <3>3. \A x \in DOMAIN r.document : \A k \in r.document[x].approved :
              k \in none \/ \E y \in DOMAIN scenes : k \in scenes[y].approved
        BY <2>1, <2>3, <2>5
      <3>4. (IF r.library = Null THEN library ELSE r.library) = library \cup none
        BY <2>3
      <3>5. \A k \in none : \E y \in DOMAIN r.document : k \in r.document[y].approved
        OBVIOUS
      <3> HIDE DEF none
      <3>. QED
        BY ONLY LossInv, ~overwrote, <3>1, <3>2, <3>3, <3>4, <3>5, RowsKeep
    <2>. QED
      BY <2>4, <2>6, ReadKeeps
  <1>6. ASSUME NEW q \in Request, NEW t \in Take, Broll!ApproveTake(q, t) PROVE LossInv'
    <2> DEFINE d == [s \in DOMAIN scenes |->
                       [scenes[s] EXCEPT !.approved = IF t \in scenes[s].takes THEN @ \cup {t} ELSE @]]
               r == [document |-> d, library |-> library \cup {t}, scene |-> Null, todo |-> {},
                     removes |-> {}]
    <2>1. DOMAIN d = DOMAIN scenes
      OBVIOUS
    <2>2. ASSUME NEW s \in DOMAIN scenes
          PROVE  /\ d[s].takes = scenes[s].takes
                 /\ d[s].approved = IF t \in scenes[s].takes THEN scenes[s].approved \cup {t}
                                    ELSE scenes[s].approved
      BY <1>0 DEF Broll!SceneRow
    <2>3. r.document = d /\ r.library = library \cup {t} /\ r.removes = {}
      OBVIOUS
    <2>4. library \cup {t} # Null
      BY DEF BrollInv, NullIsApart
    <2>5. Broll!Read(q, d, library \cup {t}, Null, {}, {})
      BY <1>6 DEF Broll!ApproveTake
    <2>7. \E s \in DOMAIN scenes : t \in scenes[s].takes
      BY <1>6 DEF Broll!ApproveTake, Broll!TakesOf
    <2> HIDE DEF d
    <2>6. ~overwrote => Keeps(r)
      <3> SUFFICES ASSUME ~overwrote PROVE Keeps(r)
        OBVIOUS
      <3> HIDE DEF r
      <3>1. \A x \in DOMAIN scenes : \A k \in scenes[x].takes :
              \E y \in DOMAIN r.document : k \in r.document[y].takes
        BY <2>1, <2>2, <2>3
      <3>2. \A x \in DOMAIN scenes : \A k \in scenes[x].approved :
              \E y \in DOMAIN r.document : k \in r.document[y].approved
        BY <2>1, <2>2, <2>3
      <3>3. \A x \in DOMAIN r.document : \A k \in r.document[x].approved :
              k \in {t} \/ \E y \in DOMAIN scenes : k \in scenes[y].approved
        BY <2>1, <2>2, <2>3
      <3>4. \A k \in {t} : \E y \in DOMAIN r.document : k \in r.document[y].approved
        BY <2>1, <2>2, <2>3, <2>7
      <3>5. (IF r.library = Null THEN library ELSE r.library) = library \cup {t}
        BY <2>3, <2>4
      <3>. QED
        BY ONLY LossInv, ~overwrote, <3>1, <3>2, <3>3, <3>4, <3>5, RowsKeep
    <2>. QED
      BY <2>5, <2>6, ReadKeeps
  <1>7. ASSUME NEW q \in Request, NEW t \in Take, Broll!Enqueue(q, t) PROVE LossInv'
    <2>1. PICK r \in InFlight : TakenUp(q, t, r)
      BY <1>7, EnqueueStep
    <2>2. r # Null /\ sceneReq[q] # Null
      BY <1>7 DEF Broll!Enqueue, NullIsApart
    <2>3. /\ \A o \in Request : sceneReq'[o] = IF o = q THEN r ELSE sceneReq[o]
          /\ UNCHANGED <<scenes, library, dropped, stale, overwrote, orphaned>> /\ jobs' = jobs \cup {t}
      BY <2>1 DEF TakenUp, BrollInv
    <2>4. /\ Broll!TakesOf(sceneReq[q].document) \cup {t} \subseteq Broll!TakesOf(r.document)
          /\ Keeps(sceneReq[q]) => Keeps(r)
      BY <2>1 DEF TakenUp, Keeps, Broll!TakesOf, Broll!Approved
    <2> USE DEF LossInv, FreshInv, OnlyOverwritesLose, Broll!OnlyOverwritesLose
    <2>5. FreshInv'
      <3>1. ASSUME NEW o \in Request \ stale, ~overwrote, sceneReq'[o] # Null PROVE Keeps(sceneReq'[o])
        BY <3>1, <2>2, <2>3, <2>4
      <3>2. \A o \in Request : Keeps(sceneReq'[o]) => Keeps(sceneReq[o])'
        BY <2>3 DEF Keeps, Broll!TakesOf, Broll!Approved
      <3>3. \A o \in stale : sceneReq'[o] # Null
        BY <2>1, <2>2 DEF TakenUp, BrollInv
      <3>. QED
        BY <3>1, <3>2, <3>3, <2>3
    <2>6. OnlyOverwritesLose'
      <3>1. /\ Broll!TakesOf(scenes)' = Broll!TakesOf(scenes)
            /\ Broll!Approved(scenes)' = Broll!Approved(scenes)
        BY <2>3 DEF Broll!TakesOf, Broll!Approved
      <3>2. \A o \in Request : Broll!TakesOf(sceneReq[o].document)' = Broll!TakesOf(sceneReq'[o].document)
        BY DEF Broll!TakesOf
      <3>. QED
        BY <2>2, <2>3, <2>4, <3>1, <3>2
    <2>. QED
      BY <2>5, <2>6
  <1>8. ASSUME NEW q \in Request, Broll!Write(q) PROVE LossInv'
    <2> DEFINE h == sceneReq[q]
    <2>1. /\ scenes' = h.document /\ dropped' = dropped \cup h.removes
          /\ library' = IF h.library = Null THEN library ELSE h.library
          /\ overwrote' = (overwrote \/ q \in stale) /\ UNCHANGED <<jobs, orphaned>>
          /\ sceneReq[q] # Null /\ stale' = {o \in Request \ {q} : sceneReq[o] # Null}
          /\ \A o \in Request : sceneReq'[o] = IF o = q THEN Null ELSE sceneReq[o]
      BY <1>8 DEF Broll!Write, BrollInv
    <2> HIDE DEF h
    <2>2. FreshInv'
      BY <2>1 DEF FreshInv
    <2>3. OnlyOverwritesLose'
      <3> SUFFICES ASSUME ~overwrote' PROVE OnlyOverwritesLose'
        BY DEF OnlyOverwritesLose, Broll!OnlyOverwritesLose
      <3>1. ~overwrote /\ Keeps(h)
        BY <2>1 DEF LossInv, FreshInv, h
      <3>2. /\ Broll!TakesOf(scenes)' = Broll!TakesOf(h.document)
            /\ Broll!Approved(scenes)' = Broll!Approved(h.document)
            /\ \A o \in Request : sceneReq'[o] = sceneReq[o] =>
                 Broll!TakesOf(sceneReq[o].document)' = Broll!TakesOf(sceneReq[o].document)
        BY <2>1 DEF Broll!TakesOf, Broll!Approved
      <3>3. \A t \in jobs : \/ t \in Broll!TakesOf(h.document) \cup dropped' \cup orphaned
                            \/ \E o \in Request \ {q} : /\ sceneReq[o] # Null
                                                       /\ t \in Broll!TakesOf(sceneReq[o].document)
        BY <2>1, <3>1 DEF LossInv, OnlyOverwritesLose, Broll!OnlyOverwritesLose, Keeps, h
      <3>4. /\ Broll!Approved(h.document) \subseteq library'
            /\ library' \subseteq Broll!Approved(h.document) \cup dropped'
        BY <2>1, <3>1 DEF Keeps
      <3>. QED
        BY <2>1, <3>2, <3>3, <3>4 DEF OnlyOverwritesLose, Broll!OnlyOverwritesLose
    <2>. QED
      BY <2>2, <2>3 DEF LossInv
  <1>9. ASSUME NEW q \in Request, Broll!Die(q) PROVE LossInv'
    <2>1. /\ UNCHANGED <<scenes, library, jobs, dropped, overwrote>>
          /\ stale' = stale \ {q}
          /\ orphaned' = orphaned \cup (Broll!TakesOf(sceneReq[q].document) \ Broll!TakesOf(scenes))
          /\ sceneReq' = [sceneReq EXCEPT ![q] = Null]
          /\ \A o \in Request : sceneReq'[o] = IF o = q THEN Null ELSE sceneReq[o]
      BY <1>9 DEF Broll!Die, BrollInv
    <2>2. FreshInv'
      <3>1. \A o \in stale' : sceneReq'[o] # Null
        BY <2>1 DEF LossInv, FreshInv, BrollInv
      <3>2. ASSUME NEW o \in Request \ stale', ~overwrote, sceneReq'[o] # Null
            PROVE  Keeps(sceneReq'[o])
        BY <2>1, <3>2 DEF LossInv, FreshInv
      <3>3. \A o \in Request : Keeps(sceneReq'[o]) => Keeps(sceneReq[o])'
        BY <2>1 DEF Keeps, Broll!TakesOf, Broll!Approved
      <3>. QED
        BY <2>1, <3>1, <3>2, <3>3 DEF FreshInv
    <2>3. OnlyOverwritesLose'
      <3>1. /\ Broll!TakesOf(scenes)' = Broll!TakesOf(scenes)
            /\ Broll!Approved(scenes)' = Broll!Approved(scenes)
            /\ \A o \in Request \ {q} :
                 Broll!TakesOf(sceneReq[o].document)' = Broll!TakesOf(sceneReq[o].document)
        BY <2>1 DEF Broll!TakesOf, Broll!Approved
      <3>2. ASSUME ~overwrote, NEW t \in jobs
            PROVE  \/ t \in Broll!TakesOf(scenes) \cup dropped \cup orphaned'
                   \/ \E o \in Request \ {q} : /\ sceneReq[o] # Null
                                              /\ t \in Broll!TakesOf(sceneReq[o].document)
        BY <2>1, <3>2 DEF LossInv, OnlyOverwritesLose, Broll!OnlyOverwritesLose
      <3>3. ~overwrote => /\ Broll!Approved(scenes) \subseteq library
                          /\ library \subseteq Broll!Approved(scenes) \cup dropped
        BY DEF LossInv, OnlyOverwritesLose, Broll!OnlyOverwritesLose
      <3>. QED
        BY <2>1, <3>1, <3>2, <3>3 DEF OnlyOverwritesLose, Broll!OnlyOverwritesLose
    <2>. QED
      BY <2>2, <2>3 DEF LossInv
  <1>10. CASE UNCHANGED Broll!vars
    BY <1>10 DEF Broll!vars, LossInv, FreshInv, OnlyOverwritesLose, Broll!OnlyOverwritesLose,
                 Keeps, Broll!TakesOf, Broll!Approved
  <1>. QED
    BY <1>1, <1>2, <1>3, <1>4, <1>5, <1>6, <1>7, <1>8, <1>9, <1>10 DEF Broll!Next

(* However requests overlap and die, until one writes back what another write overtook,
   every job paid for is a take, or held by its request, or was removed or orphaned by
   that request's death; and the library holds exactly the takes approved and not
   removed since.                                                                      *)
THEOREM OnlyStaleWritesLose == ASSUME NullIsApart PROVE Broll!Spec => []OnlyOverwritesLose
  <1>1. Broll!Init => BrollInv /\ LossInv
    BY DocumentShape DEF Broll!Init, BrollInv, Real, LossInv, FreshInv, OnlyOverwritesLose,
                         Broll!OnlyOverwritesLose, Broll!Approved
  <1>2. LossInv => OnlyOverwritesLose
    BY DEF LossInv
  <1>. QED
    BY <1>1, <1>2, BrollStep, LossStep, PTL DEF Broll!Spec

-----------------------------------------------------------------------------
(* The word art plan, for any transcripts, hints, proposals, motion profile and any
   configuration of numbers.                                                        *)
LEMMA Extremes ==
  ASSUME NEW a \in Int, NEW b \in Int
  PROVE  /\ Art!Max({a, b}) = IF a >= b THEN a ELSE b
         /\ Art!Min({a, b}) = IF a <= b THEN a ELSE b
  BY DEF Art!Max, Art!Min

LEMMA Clamped ==
  ASSUME NEW n \in Int, NEW low \in Int, NEW high \in Int, low <= high
  PROVE  Art!Clamp(n, low, high) = IF n < low THEN low ELSE IF n > high THEN high ELSE n
  <1>1. Art!Min({n, high}) = (IF n <= high THEN n ELSE high)
    BY Extremes
  <1>2. Art!Max({low, Art!Min({n, high})}) =
          IF low >= Art!Min({n, high}) THEN low ELSE Art!Min({n, high})
    BY <1>1, Extremes
  <1>. QED
    BY <1>1, <1>2 DEF Art!Clamp

(* A share of a signed distance lies between nothing and the whole distance. *)
LEMMA ShareOfDistance ==
  ASSUME NEW span \in Int, NEW way \in Int, NEW distance \in Int, 0 <= way, way <= span, 0 < span
  PROVE  /\ 0 <= distance => (way * distance) \div span \in 0 .. distance
         /\ distance <= 0 => (way * distance) \div span \in distance .. 0
  <1> DEFINE product == way * distance
             share   == product \div span
  <1>1. product \in Int
    OBVIOUS
  <1>2. /\ 0 <= distance => 0 <= product /\ product <= span * distance
        /\ distance <= 0 => span * distance <= product /\ product <= 0
    OBVIOUS
  <1> HIDE DEF product
  <1>3. share \in Int /\ span * share <= product /\ product < span * share + span
    BY <1>1
  <1> HIDE DEF share
  <1>4. ASSUME 0 <= distance PROVE share \in 0 .. distance
    <2>1. span * share <= span * distance /\ 0 < span * (share + 1)
      BY <1>1, <1>2, <1>3, <1>4
    <2>. QED
      BY <1>3, <1>4, <2>1
  <1>5. ASSUME distance <= 0 PROVE share \in distance .. 0
    <2>1. span * share <= 0 /\ span * distance < span * (share + 1)
      BY <1>1, <1>2, <1>3, <1>5
    <2>. QED
      BY <1>3, <1>5, <2>1
  <1>. QED
    BY <1>4, <1>5 DEF share, product

(* A curve never leaves its output range, whichever way it and its domain run. *)
LEMMA CurveIsBounded ==
  ASSUME NEW curve, curve.in \in Int \X Int, curve.out \in Int \X Int, NEW t \in Int
  PROVE  Art!Evaluate(curve, t) \in Art!Low(curve.out) .. Art!High(curve.out)
  <1> DEFINE a == curve.in[1]   b == curve.in[2]
             c == curve.out[1]  d == curve.out[2]
             at == Art!Clamp(t, Art!Low(curve.in), Art!High(curve.in))
  <1>1. a \in Int /\ b \in Int /\ c \in Int /\ d \in Int
    OBVIOUS
  <1>2. /\ Art!Low(curve.in) = (IF a <= b THEN a ELSE b) /\ Art!High(curve.in) = (IF a >= b THEN a ELSE b)
        /\ Art!Low(curve.out) = (IF c <= d THEN c ELSE d) /\ Art!High(curve.out) = (IF c >= d THEN c ELSE d)
    BY <1>1, Extremes DEF Art!Low, Art!High
  <1>3. at \in Int /\ (a <= b => a <= at /\ at <= b) /\ (b <= a => b <= at /\ at <= a)
    BY <1>1, <1>2, Clamped
  <1>4. Art!Evaluate(curve, t) =
          IF b - a = 0 THEN c
          ELSE c + (IF b - a > 0 THEN ((at - a) * (d - c)) \div (b - a)
                                 ELSE (-((at - a) * (d - c))) \div (-(b - a)))
    BY DEF Art!Evaluate, Art!Lerp
  <1> HIDE DEF a, b, c, d, at
  <1>5. CASE b - a > 0
    <2>1. /\ 0 <= d - c => ((at - a) * (d - c)) \div (b - a) \in 0 .. (d - c)
          /\ d - c <= 0 => ((at - a) * (d - c)) \div (b - a) \in (d - c) .. 0
      BY <1>1, <1>3, <1>5, ShareOfDistance
    <2> DEFINE share == ((at - a) * (d - c)) \div (b - a)
    <2>2. Art!Evaluate(curve, t) = c + share
      BY <1>1, <1>4, <1>5
    <2> HIDE DEF share
    <2>. QED
      BY <1>1, <1>2, <2>1, <2>2 DEF share
  <1>6. CASE b - a < 0
    <2>1. -((at - a) * (d - c)) = (a - at) * (d - c) /\ -(b - a) = a - b
      BY <1>1, <1>3
    <2>2. /\ 0 <= d - c => ((a - at) * (d - c)) \div (a - b) \in 0 .. (d - c)
          /\ d - c <= 0 => ((a - at) * (d - c)) \div (a - b) \in (d - c) .. 0
      BY <1>1, <1>3, <1>6, ShareOfDistance
    <2> DEFINE share == ((a - at) * (d - c)) \div (a - b)
    <2>3. Art!Evaluate(curve, t) = c + share
      BY <1>1, <1>4, <1>6, <2>1
    <2> HIDE DEF share
    <2>. QED
      BY <1>1, <1>2, <2>2, <2>3 DEF share
  <1>7. CASE b - a = 0
    BY <1>1, <1>2, <1>4, <1>7
  <1>. QED
    BY <1>1, <1>5, <1>6, <1>7

(* The blend of two numbers below a threshold is below it too. *)
LEMMA BlendIsBetween ==
  ASSUME NEW score \in 0 .. 100, NEW hint \in Int, NEW bar \in Int, score < bar,
         Art!Blend(score, hint) >= bar
  PROVE  hint >= bar
  <1> DEFINE w == Art!Clamp(Weight, 0, 100)
             h == Art!Clamp(hint, 0, 100)
             mix == w * h + (100 - w) * score
  <1>1. w \in 0 .. 100 /\ h \in 0 .. 100 /\ (hint < bar => h < bar)
    <2>1. Weight \in Int
      BY ArtAssumption DEF Art!ConstantsTyped
    <2>2. w = (IF Weight < 0 THEN 0 ELSE IF Weight > 100 THEN 100 ELSE Weight)
      BY <2>1, Clamped
    <2>3. h = (IF hint < 0 THEN 0 ELSE IF hint > 100 THEN 100 ELSE hint)
      BY Clamped
    <2>. QED
      BY <2>1, <2>2, <2>3
  <1>2. Art!Blend(score, hint) = Art!Clamp(mix \div 100, 0, 100)
    BY DEF Art!Blend
  <1> HIDE DEF w, h
  <1>3. mix \in Int
    BY <1>1
  <1>4. ASSUME hint < bar PROVE mix <= 100 * (bar - 1)
    <2>1. w * h <= w * (bar - 1) /\ (100 - w) * score <= (100 - w) * (bar - 1)
      BY <1>1, <1>4
    <2>2. w * (bar - 1) + (100 - w) * (bar - 1) = 100 * (bar - 1)
      BY <1>1
    <2>. QED
      BY <1>1, <2>1, <2>2
  <1> HIDE DEF mix
  <1>5. ASSUME hint < bar PROVE mix \div 100 < bar /\ mix \div 100 \in Int
    BY <1>3, <1>4, <1>5
  <1>. QED
    BY <1>2, <1>5, Clamped

(* A place that is not the first of some places directly follows another, no earlier than
   any place chosen before it.                                                          *)
LEMMA HasPredecessor ==
  ASSUME NEW places \in SUBSET Nat, NEW m \in places, NEW n \in places, m < n
  PROVE  \E p \in places : m <= p /\ Art!Follows(p, n, places)
  <1> DEFINE Earlier(i) == m <= i /\ i < n
             distances == {n - i : i \in {i \in places : Earlier(i)}}
  <1>1. \A i \in places : i \in Nat /\ (Earlier(i) => n - i \in Nat)
    OBVIOUS
  <1>2. distances \subseteq Nat /\ n - m \in distances
    BY <1>1
  <1>3. PICK d \in distances : \A e \in distances : <<e, d>> \notin OpToRel(<, Nat)
    BY <1>2, WFMin, NatLessThanWellFounded
  <1>4. PICK p \in places : Earlier(p) /\ d = n - p
    BY <1>3
  <1>5. ASSUME NEW k \in places PROVE k <= p \/ n <= k
    <2>1. CASE Earlier(k)
      <3>1. n - k \in distances
        BY <2>1
      <3>2. ~(n - k < d)
        BY <1>2, <1>3, <3>1 DEF OpToRel
      <3>. QED
        BY <1>1, <1>4, <2>1, <3>2
    <2>. QED
      BY <1>1, <1>4, <2>1
  <1>. QED
    BY <1>1, <1>4, <1>5 DEF Art!Follows

(* Some set of numbers has a least member. *)
LEMMA HasLeast ==
  ASSUME NEW S \in SUBSET Nat, S # {}
  PROVE  \E n \in S : \A k \in S : n <= k
  <1>1. PICK n \in S : \A k \in S : <<k, n>> \notin OpToRel(<, Nat)
    BY WFMin, NatLessThanWellFounded
  <1>2. \A k \in S : ~(k < n)
    BY <1>1 DEF OpToRel
  <1>. QED
    BY <1>2

(* What a plan is made of, wherever it comes from. *)
PlanTyped ==
  /\ DOMAIN order \subseteq Nat
  /\ \A i \in DOMAIN events : /\ events[i].start \in Int /\ events[i].duration \in Int
                              /\ events[i].score \in Int /\ events[i].cinematic \in BOOLEAN

PlanReviewed == (\A i \in DOMAIN events : Art!EventValid(events[i])) /\ Art!PlanValid

(* Comparing each event with the one before it is enough: events take time.  Take the
   first event that starts too soon after some earlier one, and look at the event between. *)
LEMMA NoneOverlap ==
  ASSUME PlanTyped, PlanReviewed
  PROVE  \A m, n \in DOMAIN order : m < n => Art!Gap(Art!Resolved(m), Art!Resolved(n)) >= 0
  <1> DEFINE Fits(m, n) == Art!Gap(Art!Resolved(m), Art!Resolved(n)) >= 0
             late == {n \in DOMAIN order : \E m \in DOMAIN order : m < n /\ ~Fits(m, n)}
  <1>1. \A n \in DOMAIN order : /\ Art!Resolved(n).start \in Int /\ Art!Resolved(n).duration \in Int
                                /\ Art!Resolved(n).duration > 0
    BY DEF PlanTyped, PlanReviewed, Art!PlanValid, Art!EventValid, Art!Resolved
  <1>2. ASSUME late # {} PROVE FALSE
    <2>1. PICK n \in late : \A k \in late : n <= k
      BY <1>2, HasLeast DEF PlanTyped
    <2>2. PICK m \in DOMAIN order : m < n /\ ~Fits(m, n)
      BY <2>1
    <2>3. PICK p \in DOMAIN order : m <= p /\ Art!Follows(p, n, DOMAIN order)
      BY <2>2, HasPredecessor DEF PlanTyped
    <2>4. Fits(p, n) /\ p < n
      BY <2>3 DEF PlanReviewed, Art!PlanValid, Art!Follows
    <2>5. m < p
      BY <2>2, <2>3, <2>4 DEF PlanTyped
    <2>6. Fits(m, p)
      <3>1. p \notin late
        BY <2>1, <2>4 DEF PlanTyped
      <3>. QED
        BY <2>5, <3>1
    <2>. QED
      BY <1>1, <2>2, <2>4, <2>6 DEF Art!Gap, Art!End
  <1>. QED
    BY <1>2

(* So is comparing each cinematic event with the cinematic one before it. *)
LEMMA CinematicSpaced ==
  ASSUME PlanTyped, PlanReviewed, MinSpacing \in Int
  PROVE  \A m, n \in Art!Cinematic :
           m < n => Art!Gap(Art!Resolved(m), Art!Resolved(n)) >= MinSpacing
  <1> SUFFICES ASSUME NEW m \in Art!Cinematic, NEW n \in Art!Cinematic, m < n
               PROVE  Art!Gap(Art!Resolved(m), Art!Resolved(n)) >= MinSpacing
    OBVIOUS
  <1>1. Art!Cinematic \subseteq DOMAIN order /\ DOMAIN order \subseteq Nat
    BY DEF Art!Cinematic, PlanTyped
  <1>2. PICK p \in Art!Cinematic : m <= p /\ Art!Follows(p, n, Art!Cinematic)
    BY <1>1, HasPredecessor
  <1>3. Art!Gap(Art!Resolved(p), Art!Resolved(n)) >= MinSpacing
    BY <1>2 DEF PlanReviewed, Art!PlanValid
  <1>4. \A k \in {m, p, n} : /\ Art!Resolved(k).start \in Int /\ Art!Resolved(k).duration \in Int
                             /\ Art!Resolved(k).duration > 0
    BY <1>1 DEF PlanTyped, PlanReviewed, Art!PlanValid, Art!EventValid, Art!Resolved
  <1>5. m = p \/ Art!Gap(Art!Resolved(m), Art!Resolved(p)) >= 0
    BY <1>1, <1>2, NoneOverlap
  <1>. QED
    BY <1>3, <1>4, <1>5 DEF Art!Gap, Art!End

LEMMA ReviewedIsApart ==
  ASSUME PlanTyped, PlanReviewed, MinSpacing \in Int
  PROVE  \A m, n \in DOMAIN order : m < n =>
           LET a == events[order[m]]  b == events[order[n]]
           IN  /\ a.start + a.duration <= b.start
               /\ a.cinematic /\ b.cinematic => b.start - (a.start + a.duration) >= MinSpacing
  <1> SUFFICES ASSUME NEW m \in DOMAIN order, NEW n \in DOMAIN order, m < n
               PROVE  LET a == events[order[m]]  b == events[order[n]]
                      IN  /\ a.start + a.duration <= b.start
                          /\ a.cinematic /\ b.cinematic =>
                               b.start - (a.start + a.duration) >= MinSpacing
    OBVIOUS
  <1>1. \A k \in {m, n} : Art!Resolved(k).start \in Int /\ Art!Resolved(k).duration \in Int
    BY DEF PlanTyped, PlanReviewed, Art!PlanValid, Art!Resolved
  <1>2. Art!Gap(Art!Resolved(m), Art!Resolved(n)) >= 0
    BY NoneOverlap
  <1>3. Art!Resolved(m).cinematic /\ Art!Resolved(n).cinematic =>
          Art!Gap(Art!Resolved(m), Art!Resolved(n)) >= MinSpacing
    BY CinematicSpaced DEF Art!Cinematic
  <1>. QED
    BY <1>1, <1>2, <1>3 DEF Art!Gap, Art!End, Art!Resolved

-----------------------------------------------------------------------------
(* The scores a plan is built from. *)
LEMMA Scores ==
  ASSUME transcript \in Seq(Art!Segment), NEW i \in DOMAIN transcript,
         notes[i] \in Hints \cup {Null}
  PROVE  /\ transcript[i] \in Art!Segment
         /\ Art!HeuristicScore(transcript[i]) \in 0 .. 100 /\ Art!HeroScore(i) \in Int
         /\ notes[i] # Null => notes[i].hint \in Int /\ notes[i].confidence \in Int
  <1>1. transcript[i] \in Art!Segment
    OBVIOUS
  <1>2. Art!HeuristicScore(transcript[i]) \in 0 .. 100
    BY <1>1 DEF Art!HeuristicScore, Art!Segment
  <1>3. notes[i] # Null => notes[i].hint \in Int /\ notes[i].confidence \in Int
    BY ArtAssumption DEF Art!ConstantsTyped
  <1>4. ASSUME NEW score \in 0 .. 100, NEW hint \in Int PROVE Art!Blend(score, hint) \in Int
    <2> DEFINE w == Art!Clamp(Weight, 0, 100)
               mix == w * Art!Clamp(hint, 0, 100) + (100 - w) * score
    <2>1. w \in Int /\ Art!Clamp(hint, 0, 100) \in Int
      BY ArtAssumption, Clamped DEF Art!ConstantsTyped
    <2>2. mix \in Int
      BY <2>1
    <2>3. Art!Blend(score, hint) = Art!Clamp(mix \div 100, 0, 100)
      BY DEF Art!Blend
    <2> HIDE DEF mix
    <2>. QED
      BY <2>2, <2>3, Clamped
  <1>5. Art!HeroScore(i) \in Int
    <2>1. \/ Art!HeroScore(i) = Art!HeuristicScore(transcript[i])
          \/ /\ notes[i] # Null
             /\ Art!HeroScore(i) = Art!Blend(Art!HeuristicScore(transcript[i]), notes[i].hint)
      BY DEF Art!HeroScore
    <2>2. notes[i] # Null => Art!Blend(Art!HeuristicScore(transcript[i]), notes[i].hint) \in Int
      BY <1>2, <1>3, <1>4
    <2>. QED
      BY <1>2, <2>1, <2>2
  <1>. QED
    BY <1>1, <1>2, <1>3, <1>5

ArtInv ==
  /\ transcript \in Seq(Art!Segment)
  /\ notes \in [DOMAIN transcript -> Hints \cup {Null}]
  /\ PlanTyped
  /\ status = "none" => events = <<>>
  /\ requests # {} => status = "rendering"
  /\ status \in {"validated", "rendering"} => PlanReviewed
  /\ EvidenceOnlyBlends

LEMMA ArtStep ==
  ArtInv /\ [Art!Next]_(Art!vars) => ArtInv'
  <1> SUFFICES ASSUME ArtInv, [Art!Next]_(Art!vars) PROVE ArtInv'
    OBVIOUS
  <1> USE DEF EvidenceOnlyBlends, Art!EvidenceOnlyBlends
  <1>1. ASSUME NEW i \in DOMAIN transcript, NEW note \in Hints, Art!Annotate(i, note) PROVE ArtInv'
    <2>1. events = <<>> /\ events' = <<>> /\ requests = {} /\ requests' = {}
      BY <1>1 DEF Art!Annotate, ArtInv
    <2>2. notes' \in [DOMAIN transcript -> Hints \cup {Null}]
      BY <1>1 DEF Art!Annotate, ArtInv
    <2>. QED
      BY <1>1, <2>1, <2>2 DEF Art!Annotate, ArtInv, PlanTyped
  <1>2. CASE Art!Build
    <2>1. requests' = {} /\ UNCHANGED <<transcript, notes>> /\ status' = "proposed"
      BY <1>2 DEF Art!Build, ArtInv
    <2>2. DOMAIN events' = Art!Heroes /\ \A i \in Art!Heroes : events'[i] = Art!Event(i)
      BY <1>2 DEF Art!Build
    <2>3. ASSUME NEW i \in Art!Heroes
          PROVE  /\ Art!Event(i).start \in Int /\ Art!Event(i).duration \in Int
                 /\ Art!Event(i).score \in Int /\ Art!Event(i).cinematic \in BOOLEAN
                 /\ Art!Event(i).evidence => notes[i] # Null /\ notes[i].confidence >= MinConfidence
                 /\ \/ Art!HeuristicScore(transcript[i]) >= Threshold
                    \/ /\ notes[i] # Null /\ notes[i].confidence >= MinConfidence
                       /\ notes[i].hint >= Threshold
      <3>1. i \in DOMAIN transcript /\ Art!HeroScore(i) >= Threshold /\ notes[i] \in Hints \cup {Null}
        BY DEF Art!Heroes, ArtInv
      <3>2. /\ transcript[i] \in Art!Segment
            /\ Art!HeuristicScore(transcript[i]) \in 0 .. 100 /\ Art!HeroScore(i) \in Int
            /\ notes[i] # Null => notes[i].hint \in Int /\ notes[i].confidence \in Int
        BY <3>1, Scores DEF ArtInv
      <3>3. Threshold \in Int /\ MinConfidence \in Int
        BY ArtAssumption DEF Art!ConstantsTyped
      <3>4. ASSUME Art!HeuristicScore(transcript[i]) < Threshold
            PROVE  /\ notes[i] # Null /\ notes[i].confidence >= MinConfidence
                   /\ notes[i].hint >= Threshold
        <4>1. /\ notes[i] # Null /\ notes[i].confidence >= MinConfidence
              /\ Art!HeroScore(i) = Art!Blend(Art!HeuristicScore(transcript[i]), notes[i].hint)
          BY <3>1, <3>2, <3>3, <3>4 DEF Art!HeroScore
        <4>. QED
          BY <3>1, <3>2, <3>3, <3>4, <4>1, BlendIsBetween
      <3>. QED
        BY <3>2, <3>3, <3>4 DEF Art!Event, Art!NoteUsed, Art!Segment
    <2>4. Cardinality(Art!Heroes) \in Nat
      <3>1. IsFiniteSet(DOMAIN transcript)
        BY FS_Interval DEF ArtInv
      <3>. QED
        BY <3>1, FS_Subset, FS_CardinalityType DEF Art!Heroes
    <2>5. DOMAIN order' \subseteq Nat
      BY <1>2, <2>4 DEF Art!Build
    <2>6. PlanTyped'
      BY <2>2, <2>3, <2>5 DEF PlanTyped
    <2>7. EvidenceOnlyBlends'
      BY <2>1, <2>2, <2>3 DEF Art!HeuristicScore
    <2>. QED
      BY <2>1, <2>6, <2>7 DEF ArtInv
  <1>3. CASE Art!Review
    <2>1. UNCHANGED <<transcript, notes, events, order, requests>> /\ requests = {}
      BY <1>3 DEF Art!Review, ArtInv
    <2>2. status' = IF PlanReviewed THEN "validated" ELSE "failed"
      BY <1>3 DEF Art!Review, PlanReviewed
    <2>3. PlanReviewed' = PlanReviewed
      BY <2>1 DEF PlanReviewed, Art!PlanValid, Art!Resolved, Art!Cinematic
    <2>. QED
      BY <2>1, <2>2, <2>3 DEF ArtInv, PlanTyped
  <1>4. ASSUME NEW p \in Proposals, Art!Propose(p) PROVE ArtInv'
    <2>1. p.order \in Seq(Nat) /\ \A i \in DOMAIN p.events : p.events[i] \in Art!Plain
      BY ArtAssumption DEF Art!ConstantsTyped
    <2>2. /\ order' = p.order /\ events' = p.events /\ status' = "proposed"
          /\ requests' = {} /\ UNCHANGED <<transcript, notes>>
      BY <1>4 DEF Art!Propose, ArtInv
    <2>3. \A i \in DOMAIN events' : "evidence" \notin DOMAIN events'[i]
      BY <2>1, <2>2 DEF Art!Plain
    <2>. QED
      BY <2>1, <2>2, <2>3 DEF ArtInv, PlanTyped, Art!Plain
  <1>5. ASSUME NEW i \in DOMAIN events, NEW target \in Targets, NEW placing \in Placings,
               NEW curves \in Profiles, Art!Compile(i, target, placing, curves)
        PROVE  ArtInv'
    <2>1. UNCHANGED <<transcript, notes, events, order>> /\ status' = "rendering" /\ PlanReviewed
      BY <1>5 DEF Art!Compile, ArtInv
    <2>2. PlanReviewed'
      BY <2>1 DEF PlanReviewed, Art!PlanValid, Art!Resolved, Art!Cinematic
    <2>3. ASSUME NEW key \in DOMAIN curves
          PROVE  Art!Motion(events[i], curves)[key]
                   \in Art!Low(curves[key].out) .. Art!High(curves[key].out)
      BY ArtAssumption, CurveIsBounded DEF Art!Motion, Art!ConstantsTyped, ArtInv, PlanTyped
    <2>4. PICK r : requests' = requests \cup {r} /\ r.motion = Art!Motion(events[i], curves)
      <3> DEFINE made == [event |-> i, target |-> target, placing |-> placing,
                          start |-> events[i].start, duration |-> events[i].duration,
                          motion |-> Art!Motion(events[i], curves),
                          idempotencyKey |-> <<i, target>>]
      <3>1. requests' = requests \cup {made}
        BY <1>5 DEF Art!Compile
      <3>2. made.motion = Art!Motion(events[i], curves)
        OBVIOUS
      <3> HIDE DEF made
      <3>. QED
        BY <3>1, <3>2
    <2>5. EvidenceOnlyBlends'
      BY <2>1, <2>3, <2>4 DEF ArtInv, Art!HeuristicScore
    <2>. QED
      BY <2>1, <2>2, <2>5 DEF ArtInv, PlanTyped
  <1>6. ASSUME NEW r \in requests, Art!Render(r) PROVE ArtInv'
    <2>1. UNCHANGED <<transcript, notes, events, order, status, requests>>
      BY <1>6 DEF Art!Render
    <2>. QED
      BY <2>1 DEF ArtInv, PlanTyped, PlanReviewed, Art!PlanValid, Art!Resolved, Art!Cinematic
  <1>7. CASE UNCHANGED Art!vars
    BY <1>7 DEF Art!vars, ArtInv, PlanTyped, PlanReviewed, Art!PlanValid, Art!Resolved, Art!Cinematic
  <1>. QED
    BY <1>1, <1>2, <1>3, <1>4, <1>5, <1>6, <1>7 DEF Art!Next

LEMMA ArtStart == Art!Init => ArtInv
  BY ArtAssumption
     DEF Art!Init, ArtInv, PlanTyped, EvidenceOnlyBlends, Art!EvidenceOnlyBlends, Art!ConstantsTyped

(* Whoever composed a plan and however long it is, once it passed Gate 2 no two of its
   events overlap, the same event does not come twice, and no two cinematic ones are closer
   than the minimum spacing, though only neighbours were compared.                      *)
THEOREM ValidatedPlansAreReadable == Art!Spec => []PlacedApart
  <1>1. ArtInv => PlacedApart
    <2>1. MinSpacing \in Int
      BY ArtAssumption DEF Art!ConstantsTyped
    <2>. QED
      BY <2>1, ReviewedIsApart DEF ArtInv, PlacedApart, Art!PlacedApart
  <1>. QED
    BY <1>1, ArtStart, ArtStep, PTL DEF Art!Spec

(* However a hint is weighed, it lifts a segment into the plan only when it was confident
   and above the threshold itself; and what a renderer is sent stays within the motion
   profile, whichever way its curves run.                                               *)
THEOREM HintsOnlyBlend == Art!Spec => []EvidenceOnlyBlends
  <1>1. ArtInv => EvidenceOnlyBlends
    BY DEF ArtInv
  <1>. QED
    BY <1>1, ArtStart, ArtStep, PTL DEF Art!Spec

-----------------------------------------------------------------------------
(* The word art module counts as this one does. *)
LEMMA SameCardinality == ASSUME NEW S PROVE Art!Cardinality(S) = Cardinality(S)
  BY DEF Art!Cardinality, Cardinality

(* The rank of a hero is the number of heroes no later than it. *)
Rank(i) == Cardinality({j \in Art!Heroes : j <= i})

LEMMA HeroesAreFinite ==
  ASSUME ArtInv
  PROVE  IsFiniteSet(Art!Heroes) /\ Art!Heroes \subseteq DOMAIN transcript /\ Art!Heroes \subseteq Nat
  <1>1. DOMAIN transcript = 1 .. Len(transcript) /\ Len(transcript) \in Nat
    BY DEF ArtInv
  <1>2. IsFiniteSet(DOMAIN transcript) /\ DOMAIN transcript \subseteq Nat
    BY <1>1, FS_Interval
  <1>. QED
    BY <1>2, FS_Subset DEF Art!Heroes

(* Ranks increase with the place and count from one to the number of heroes. *)
LEMMA RanksIncrease ==
  ASSUME ArtInv
  PROVE  /\ Cardinality(Art!Heroes) \in Nat
         /\ \A i \in Art!Heroes : Rank(i) \in 1 .. Cardinality(Art!Heroes)
         /\ \A i, j \in Art!Heroes : i < j => Rank(i) < Rank(j)
  <1> DEFINE UpTo(i) == {k \in Art!Heroes : k <= i}
  <1>1. /\ IsFiniteSet(Art!Heroes) /\ Art!Heroes \subseteq Nat
        /\ Cardinality(Art!Heroes) \in Nat
    BY HeroesAreFinite, FS_CardinalityType
  <1>2. ASSUME NEW i \in Art!Heroes
        PROVE  /\ IsFiniteSet(UpTo(i)) /\ Cardinality(UpTo(i)) \in Nat /\ i \in UpTo(i)
               /\ Cardinality(UpTo(i)) <= Cardinality(Art!Heroes) /\ Cardinality(UpTo(i)) # 0
    <2>1. UpTo(i) \subseteq Art!Heroes /\ i \in UpTo(i)
      BY <1>1
    <2>2. IsFiniteSet(UpTo(i)) /\ Cardinality(UpTo(i)) <= Cardinality(Art!Heroes)
      BY <1>1, <2>1, FS_Subset
    <2>. QED
      BY <2>1, <2>2, FS_CardinalityType, FS_EmptySet
  <1>3. ASSUME NEW i \in Art!Heroes, NEW j \in Art!Heroes, i < j PROVE Rank(i) < Rank(j)
    <2>1. i \in Nat /\ j \in Nat /\ \A k \in Art!Heroes : k \in Nat
      BY <1>1
    <2>2. \A k \in Art!Heroes : k <= i => k <= j
      BY <1>3, <2>1
    <2>3. UpTo(i) \subseteq UpTo(j) /\ j \notin UpTo(i)
      <3>1. ~(j <= i)
        BY <1>3, <2>1
      <3>. QED
        BY <2>2, <3>1
    <2>4. /\ Cardinality(UpTo(i)) <= Cardinality(UpTo(j))
          /\ Cardinality(UpTo(i)) # Cardinality(UpTo(j))
      BY <1>2, <2>3, FS_Subset
    <2>. QED
      BY <1>2, <2>4 DEF Rank
  <1>. QED
    BY <1>1, <1>2, <1>3 DEF Rank

(* So there is exactly one hero of each rank, and the builder's choice is that one. *)
LEMMA NthIsTheHeroOfRank ==
  ASSUME ArtInv, NEW n \in 1 .. Cardinality(Art!Heroes)
  PROVE  Art!Nth(n) \in Art!Heroes /\ Rank(Art!Nth(n)) = n
  <1> DEFINE count == Cardinality(Art!Heroes)
             rank == [i \in Art!Heroes |-> Rank(i)]
  <1>1. /\ IsFiniteSet(Art!Heroes) /\ Art!Heroes \subseteq Nat /\ count \in Nat
        /\ IsFiniteSet(1 .. count) /\ Cardinality(1 .. count) = count
    <2>1. IsFiniteSet(Art!Heroes) /\ Art!Heroes \subseteq Nat /\ count \in Nat
      BY HeroesAreFinite, FS_CardinalityType
    <2> HIDE DEF count
    <2>2. /\ IsFiniteSet(1 .. count)
          /\ Cardinality(1 .. count) = IF 1 > count THEN 0 ELSE count - 1 + 1
      BY <2>1, FS_Interval
    <2>. QED
      BY <2>1, <2>2
  <1>2. rank \in [Art!Heroes -> 1 .. count]
    BY RanksIncrease
  <1>3. ASSUME NEW i \in Art!Heroes, NEW j \in Art!Heroes, rank[i] = rank[j] PROVE i = j
    <2>1. ~(i < j) /\ ~(j < i)
      BY <1>3, RanksIncrease
    <2>. QED
      BY <1>1, <2>1
  <1>4. rank \in Injection(Art!Heroes, 1 .. count)
    BY <1>2, <1>3 DEF Injection, IsInjective
  <1>5. rank \in Surjection(Art!Heroes, 1 .. count)
    BY <1>1, <1>4, FS_Injection
  <1>6. \E i \in Art!Heroes : Rank(i) = n
    BY <1>5 DEF Surjection
  <1>7. Art!Nth(n) = CHOOSE i \in Art!Heroes : Rank(i) = n
    <2>1. \A i : Art!Cardinality({j \in Art!Heroes : j <= i}) = Rank(i)
      BY SameCardinality DEF Rank
    <2>2. Art!Nth(n) = CHOOSE i \in Art!Heroes : Art!Cardinality({j \in Art!Heroes : j <= i}) = n
      BY DEF Art!Nth
    <2>. QED
      BY <2>1, <2>2
  <1>. QED
    BY <1>6, <1>7

(* What buildWordArtPlanFromSegments leaves behind: the heroes, each once, in the order
   of the transcript.                                                                *)
BuiltInOrder ==
  /\ \A m, n \in DOMAIN order : m < n => order[m] < order[n]
  /\ \A i \in DOMAIN transcript : (\E n \in DOMAIN order : order[n] = i) <=>
                                  Art!HeroScore(i) >= Threshold
  /\ \A n \in DOMAIN order : order[n] \in DOMAIN transcript

LEMMA BuildIsInOrder == ASSUME ArtInv, Art!Build PROVE BuiltInOrder'
  <1> DEFINE count == Cardinality(Art!Heroes)
  <1>1. /\ DOMAIN order' = 1 .. count /\ \A n \in 1 .. count : order'[n] = Art!Nth(n)
        /\ UNCHANGED <<transcript, notes>>
    <2>1. order' = [n \in 1 .. count |-> Art!Nth(n)] /\ UNCHANGED <<transcript, notes>>
      BY SameCardinality DEF Art!Build
    <2>. QED
      BY <2>1
  <1>2. count \in Nat /\ Art!Heroes \subseteq Nat /\ Art!Heroes \subseteq DOMAIN transcript
    BY RanksIncrease, HeroesAreFinite
  <1>3. \A n \in 1 .. count : Art!Nth(n) \in Art!Heroes /\ Rank(Art!Nth(n)) = n
    BY NthIsTheHeroOfRank
  <1>0. \A i \in Art!Heroes : Rank(i) \in 1 .. count
    BY RanksIncrease
  <1> HIDE DEF count
  <1>4. ASSUME NEW m \in 1 .. count, NEW n \in 1 .. count, m < n PROVE Art!Nth(m) < Art!Nth(n)
    <2> DEFINE a == Art!Nth(m)  b == Art!Nth(n)
    <2>0. /\ a \in Art!Heroes /\ b \in Art!Heroes /\ Rank(a) = m /\ Rank(b) = n
      BY <1>3
    <2> HIDE DEF a, b
    <2>1. a \in Nat /\ b \in Nat
      BY <1>2, <2>0
    <2>2. m \in Nat /\ n \in Nat
      BY <1>2
    <2>3. b < a => Rank(b) < Rank(a)
      BY <2>0, RanksIncrease
    <2>. QED
      BY <1>4, <2>0, <2>1, <2>2, <2>3 DEF a, b
  <1>5. ASSUME NEW i \in Art!Heroes PROVE \E n \in 1 .. count : Art!Nth(n) = i
    <2>1. Rank(i) \in 1 .. count
      BY <1>0
    <2> DEFINE a == Art!Nth(Rank(i))
    <2>2. a \in Art!Heroes /\ Rank(a) = Rank(i) /\ a \in Nat /\ i \in Nat
      BY <1>2, <1>3, <2>1
    <2> HIDE DEF a
    <2>3. (a < i => Rank(a) < Rank(i)) /\ (i < a => Rank(i) < Rank(a))
      BY <2>2, RanksIncrease
    <2>4. a = i
      BY <1>2, <2>1, <2>2, <2>3
    <2>. QED
      BY <2>1, <2>4 DEF a
  <1>6. \A i \in DOMAIN transcript : i \in Art!Heroes <=> Art!HeroScore(i) >= Threshold
    BY DEF Art!Heroes
  <1>7. \A i : Art!HeroScore(i)' = Art!HeroScore(i)
    BY <1>1 DEF Art!HeroScore, Art!HeuristicScore
  <1>8. (\A m, n \in DOMAIN order : m < n => order[m] < order[n])'
    BY <1>1, <1>4
  <1>9. \A i \in DOMAIN transcript :
          (\E n \in DOMAIN order' : order'[n] = i) <=> Art!HeroScore(i) >= Threshold
    BY <1>1, <1>3, <1>5, <1>6
  <1>10. (\A n \in DOMAIN order : order[n] \in DOMAIN transcript)'
    BY <1>1, <1>2, <1>3
  <1>. QED
    BY <1>1, <1>7, <1>8, <1>9, <1>10 DEF BuiltInOrder

(* The plan builder takes exactly the segments that reach the threshold, each once, and
   keeps them in the transcript's order.                                             *)
THEOREM PlansAreBuiltInOrder == Art!Spec => [][Art!Build => BuiltInOrder']_(Art!vars)
  <1>1. ArtInv /\ [Art!Next]_(Art!vars) => [Art!Build => BuiltInOrder']_(Art!vars)
    BY BuildIsInOrder
  <1>. QED
    BY <1>1, ArtStart, ArtStep, PTL DEF Art!Spec

-----------------------------------------------------------------------------
(* What is sent to a renderer is an event of the plan as Gate 2 saw it, with its own time,
   and whatever is sent for another event is shown at another time; what comes back names
   the event of a request that was sent.                                                 *)
Made(i, target, placing, curves) ==
  [event |-> i, target |-> target, placing |-> placing, start |-> events[i].start,
   duration |-> events[i].duration, motion |-> Art!Motion(events[i], curves),
   idempotencyKey |-> <<i, target>>]

RenderedAsReviewed ==
  /\ \A r \in requests : /\ \E n \in DOMAIN order : order[n] = r.event
                         /\ r.event \in DOMAIN events /\ Art!EventValid(events[r.event])
                         /\ r.start = events[r.event].start
                         /\ r.duration = events[r.event].duration
  /\ \A r, s \in requests :
       r.event # s.event => r.start + r.duration <= s.start \/ s.start + s.duration <= r.start
  /\ \A a \in results : a.checksum \in requests /\ a.request = a.checksum.event

SentInv ==
  /\ \A r \in requests :
       \E i \in DOMAIN events, target \in Targets, placing \in Placings, curves \in Profiles :
         r = Made(i, target, placing, curves) /\ \E n \in DOMAIN order : order[n] = i
  /\ \A a \in results : a.checksum \in requests /\ a.request = a.checksum.event

LEMMA SentStep == ArtInv /\ SentInv /\ [Art!Next]_(Art!vars) => SentInv'
  <1> SUFFICES ASSUME ArtInv, SentInv, [Art!Next]_(Art!vars) PROVE SentInv'
    OBVIOUS
  <1>1. ASSUME UNCHANGED <<requests, results>>,
               requests = {} \/ UNCHANGED <<events, order>>
        PROVE  SentInv'
    BY <1>1 DEF SentInv, Made, Art!Motion
  <1>2. ASSUME NEW i \in DOMAIN transcript, NEW note \in Hints, Art!Annotate(i, note) PROVE SentInv'
    BY <1>1, <1>2 DEF Art!Annotate
  <1>3. CASE Art!Build
    BY <1>1, <1>3 DEF Art!Build, ArtInv
  <1>4. CASE Art!Review
    BY <1>1, <1>4 DEF Art!Review
  <1>5. ASSUME NEW p \in Proposals, Art!Propose(p) PROVE SentInv'
    BY <1>1, <1>5 DEF Art!Propose, ArtInv
  <1>6. ASSUME NEW i \in DOMAIN events, NEW target \in Targets, NEW placing \in Placings,
               NEW curves \in Profiles, Art!Compile(i, target, placing, curves)
        PROVE  SentInv'
    <2>1. /\ requests' = requests \cup {Made(i, target, placing, curves)}
          /\ UNCHANGED <<events, order, results>>
          /\ \E n \in DOMAIN order : order[n] = i
      BY <1>6 DEF Art!Compile, Made, Art!Range
    <2>2. \A e, g, h, c : Made(e, g, h, c)' = Made(e, g, h, c)
      BY <2>1 DEF Made, Art!Motion
    <2>. QED
      BY <2>1, <2>2 DEF SentInv
  <1>7. ASSUME NEW r \in requests, Art!Render(r) PROVE SentInv'
    <2> DEFINE a == [request |-> r.event, status |-> "done", checksum |-> r]
    <2>1. results' = results \cup {a} /\ UNCHANGED <<events, order, requests>>
      BY <1>7 DEF Art!Render
    <2>2. a.checksum \in requests /\ a.request = a.checksum.event
      OBVIOUS
    <2>3. \A e, g, h, c : Made(e, g, h, c)' = Made(e, g, h, c)
      BY <2>1 DEF Made, Art!Motion
    <2> HIDE DEF a
    <2>. QED
      BY <2>1, <2>2, <2>3 DEF SentInv
  <1>8. CASE UNCHANGED Art!vars
    BY <1>1, <1>8 DEF Art!vars
  <1>. QED
    BY <1>2, <1>3, <1>4, <1>5, <1>6, <1>7, <1>8 DEF Art!Next

(* Every render is of an event as it was reviewed; requests for two events are never shown
   at once, in whatever order and for however many targets they were compiled; and every
   result names the event, and carries the checksum, of a request that was sent.         *)
THEOREM RendersAreAsReviewed == Art!Spec => []RenderedAsReviewed
  <1>1. Art!Init => SentInv
    BY DEF Art!Init, SentInv
  <1>2. ArtInv /\ SentInv => RenderedAsReviewed
    <2> SUFFICES ASSUME ArtInv, SentInv PROVE RenderedAsReviewed
      OBVIOUS
    <2>1. ASSUME NEW r \in requests
          PROVE  /\ \E n \in DOMAIN order : order[n] = r.event
                 /\ r.event \in DOMAIN events /\ Art!EventValid(events[r.event])
                 /\ r.start = events[r.event].start
                 /\ r.duration = events[r.event].duration
      <3>1. PICK i \in DOMAIN events, target \in Targets, placing \in Placings,
                 curves \in Profiles :
              r = Made(i, target, placing, curves) /\ \E n \in DOMAIN order : order[n] = i
        BY DEF SentInv
      <3>2. Art!EventValid(events[i])
        BY DEF ArtInv, PlanReviewed
      <3>. QED
        BY <3>1, <3>2 DEF Made
    <2>2. ASSUME NEW r \in requests, NEW s \in requests, r.event # s.event
          PROVE  r.start + r.duration <= s.start \/ s.start + s.duration <= r.start
      <3>1. PICK m \in DOMAIN order, n \in DOMAIN order :
              order[m] = r.event /\ order[n] = s.event
        BY <2>1
      <3>2. m # n /\ m \in Nat /\ n \in Nat
        BY <2>2, <3>1 DEF ArtInv, PlanTyped
      <3>3. MinSpacing \in Int /\ PlanTyped /\ PlanReviewed
        BY ArtAssumption DEF Art!ConstantsTyped, ArtInv
      <3>4. \A j, k \in DOMAIN order : j < k =>
              events[order[j]].start + events[order[j]].duration <= events[order[k]].start
        BY <3>3, ReviewedIsApart
      <3>5. m < n \/ n < m
        BY <3>2
      <3>. QED
        BY <2>1, <3>1, <3>4, <3>5
    <2>. QED
      BY <2>1, <2>2 DEF RenderedAsReviewed, SentInv
  <1>. QED
    BY <1>1, <1>2, ArtStart, ArtStep, SentStep, PTL DEF Art!Spec

-----------------------------------------------------------------------------
(* A step of the composition is a step of one part; the others stand still. *)
LEMMA StudioParts == StudioSpec => Spec /\ Broll!Spec /\ Art!Spec
  <1>1. StudioInit => Init /\ Broll!Init /\ Art!Init
    BY DEF StudioInit
  <1>2. Broll!vars = brollVars /\ Art!vars = artVars
    BY DEF Broll!vars, brollVars, Art!vars, artVars
  <1>3. [StudioNext]_studioVars =>
          [Next]_vars /\ [Broll!Next]_(Broll!vars) /\ [Art!Next]_(Art!vars)
    BY <1>2 DEF StudioNext, studioVars, videosVars, brollVars, artVars, vars, Broll!vars, Art!vars
  <1>. QED
    BY <1>1, <1>3, PTL DEF StudioSpec, Spec, Broll!Spec, Art!Spec

(* Composed, the parts keep what they keep alone. *)
THEOREM StudioStaysSound ==
  ASSUME NullIsApart
  PROVE  StudioSpec => [](/\ PinIsOwned /\ TakesAreReal /\ OnlyOverwritesLose
                          /\ PlacedApart /\ EvidenceOnlyBlends)
  BY StudioParts, PinsAreOwned, TakesStayReal, OnlyStaleWritesLose, ValidatedPlansAreReadable,
     HintsOnlyBlend, PTL
=============================================================================
