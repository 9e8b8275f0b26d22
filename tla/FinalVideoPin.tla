---------------------------- MODULE FinalVideoPin ----------------------------
(***************************************************************************)
(* productions.final_video_row_id of 0024_governance_primitives.sql: a      *)
(* production pins one of its own videos, and neither side may change under *)
(* the pin.  The two triggers run in different transactions and meet only   *)
(* at the lock on the video row.                                            *)
(*                                                                         *)
(* A session's versions are functions on the rows it has locked; a row      *)
(* another session has locked is not available to a statement that needs    *)
(* the lock.  Transactions run READ COMMITTED, the default the code keeps.  *)
(***************************************************************************)
CONSTANTS
  Production, Video,
  Tx,          \* database sessions
  NoPin,       \* final_video_row_id IS NULL
  NoOwner,     \* production_id IS NULL: an ad-hoc Studio render
  Absent       \* no such row

Pin   == Video \cup {NoPin, Absent}
Owner == Production \cup {NoOwner, Absent}

ASSUME PinAssumption ==
  /\ NoPin \notin Video /\ Absent \notin Video \cup Production \cup {NoPin, NoOwner}
  /\ NoOwner \notin Production

VARIABLES
  pin,         \* committed productions: the pin of each
  owner,       \* committed videos: the production of each
  myPins,      \* per session: its versions of the productions it wrote
  myVideos     \* per session: its versions of the videos it wrote or locked

vars == <<pin, owner, myPins, myVideos>>

Versions(Key, Value) == UNION {[K -> Value] : K \in SUBSET Key}

(* Types, row locks exclusive, and no session pinning a video it has not locked. *)
TypeOK ==
  /\ pin \in [Production -> Pin]
  /\ owner \in [Video -> Owner]
  /\ myPins \in [Tx -> Versions(Production, Pin)]
  /\ myVideos \in [Tx -> Versions(Video, Owner)]
  /\ \A t, u \in Tx : t # u => /\ DOMAIN myPins[t] \cap DOMAIN myPins[u] = {}
                               /\ DOMAIN myVideos[t] \cap DOMAIN myVideos[u] = {}
  /\ \A t \in Tx : \A p \in DOMAIN myPins[t] :
       myPins[t][p] \in Video => myPins[t][p] \in DOMAIN myVideos[t]

-----------------------------------------------------------------------------
Over(own, base) == [x \in DOMAIN base |-> IF x \in DOMAIN own THEN own[x] ELSE base[x]]
With(own, x, v) == [y \in DOMAIN own \cup {x} |-> IF y = x THEN v ELSE own[y]]

(* What session t's statements read. *)
PinOf(t)   == Over(myPins[t], pin)
OwnerOf(t) == Over(myVideos[t], owner)

LockablePin(t, p)   == \A u \in Tx \ {t} : p \notin DOMAIN myPins[u]
LockableVideo(t, v) == \A u \in Tx \ {t} : v \notin DOMAIN myVideos[u]

(* productions_final_video_owned: locks the pinned video and reads its owner. *)
Owned(t, p, v) ==
  \/ v = NoPin /\ UNCHANGED myVideos
  \/ /\ v \in Video
     /\ LockableVideo(t, v)
     /\ OwnerOf(t)[v] = p
     /\ myVideos' = [myVideos EXCEPT ![t] = With(@, v, p)]

(* videos_reparent_guard, for a change of owner. *)
Guard(t, v, o) == \A p \in Production : PinOf(t)[p] = v => o = p

-----------------------------------------------------------------------------
Init ==
  /\ pin = [p \in Production |-> Absent]
  /\ owner = [v \in Video |-> Absent]
  /\ myPins = [t \in Tx |-> [p \in {} |-> Absent]]
  /\ myVideos = [t \in Tx |-> [v \in {} |-> Absent]]

(* INSERT of a production, or UPDATE OF final_video_row_id. *)
SetPin(t, p, v) ==
  /\ LockablePin(t, p)
  /\ Owned(t, p, v)
  /\ myPins' = [myPins EXCEPT ![t] = With(@, p, v)]
  /\ UNCHANGED <<pin, owner>>

(* UPDATE OF id: the row's pin is judged against the new id. *)
RenameUnjudged(t, p, q) ==
  /\ LockablePin(t, p) /\ LockablePin(t, q)
  /\ PinOf(t)[p] # Absent /\ PinOf(t)[q] = Absent
  /\ myPins' = [myPins EXCEPT ![t] = With(With(@, q, PinOf(t)[p]), p, Absent)]
  /\ UNCHANGED <<pin, owner, myVideos>>
Rename(t, p, q) ==
  /\ LockablePin(t, p) /\ LockablePin(t, q)
  /\ PinOf(t)[p] # Absent /\ PinOf(t)[q] = Absent
  /\ Owned(t, q, PinOf(t)[p])
  /\ myPins' = [myPins EXCEPT ![t] = With(With(@, q, PinOf(t)[p]), p, Absent)]
  /\ UNCHANGED <<pin, owner>>

(* INSERT of a video, or UPDATE OF production_id. *)
SetOwner(t, v, o) ==
  /\ LockableVideo(t, v)
  /\ OwnerOf(t)[v] \notin {Absent, o} => Guard(t, v, o)
  /\ myVideos' = [myVideos EXCEPT ![t] = With(@, v, o)]
  /\ UNCHANGED <<pin, owner, myPins>>

(* DELETE of a video, as DELETE /videos/:id does; the foreign key refuses a
   pinned one.  DELETE of a production releases its pin.                      *)
DeleteVideo(t, v) ==
  /\ LockableVideo(t, v)
  /\ OwnerOf(t)[v] # Absent
  /\ \A p \in Production : PinOf(t)[p] # v
  /\ myVideos' = [myVideos EXCEPT ![t] = With(@, v, Absent)]
  /\ UNCHANGED <<pin, owner, myPins>>

DeleteProduction(t, p) ==
  /\ LockablePin(t, p)
  /\ PinOf(t)[p] # Absent
  /\ myPins' = [myPins EXCEPT ![t] = With(@, p, Absent)]
  /\ UNCHANGED <<pin, owner, myVideos>>

EndTx(t) == /\ myPins' = [myPins EXCEPT ![t] = [p \in {} |-> Absent]]
            /\ myVideos' = [myVideos EXCEPT ![t] = [v \in {} |-> Absent]]

Commit(t)   == pin' = PinOf(t) /\ owner' = OwnerOf(t) /\ EndTx(t)
Rollback(t) == EndTx(t) /\ UNCHANGED <<pin, owner>>

Next == \E t \in Tx :
  \/ \E p \in Production, v \in Video \cup {NoPin} : SetPin(t, p, v)
  \/ \E p, q \in Production : Rename(t, p, q)
  \/ \E v \in Video, o \in Production \cup {NoOwner} : SetOwner(t, v, o)
  \/ \E v \in Video : DeleteVideo(t, v)
  \/ \E p \in Production : DeleteProduction(t, p)
  \/ Commit(t)
  \/ Rollback(t)

Spec == Init /\ [][Next]_vars
-----------------------------------------------------------------------------
(* A committed pin names an existing video of the production that pins it,
   however pins, reparents, renames and deletions of open transactions
   interleave; in particular no two productions pin one video.               *)
PinIsOwned == \A p \in Production : pin[p] \in Video => owner[pin[p]] = p
=============================================================================
