-------------------------- MODULE GovernanceProofs --------------------------
(* Machine-checked proofs about the governance ledger and the intents beside it.  The
   ledger keeps one newest live decision per slot, whatever the transactions do and
   however they interleave; a publication keeps its slot, its decision and its post, for
   any number of intents.                                                             *)
EXTENDS PublicationIntents, WellFoundedInduction, TLAPS

(* Rows, transitions, keys and every session's versions keep their types. *)
THEOREM LedgerTyping == Spec => []TypeOK
  <1> USE LedgerAssumption DEF TypeOK
  <1>1. Init => TypeOK
    BY DEF Init
  <1>2. TypeOK /\ [Next]_vars => TypeOK'
    <2> SUFFICES ASSUME TypeOK, [Next]_vars PROVE TypeOK'
      OBVIOUS
    <2>1. ASSUME NEW t \in Tx, NEW e \in Row, NEW r \in Evidence, Insert(t, e, r) PROVE TypeOK'
      BY <2>1 DEF Insert, Write
    <2>2. ASSUME NEW t \in Tx, NEW e \in Row, NEW sup \in BOOLEAN, NEW by \in Row \cup {Null},
                 Supersede(t, e, sup, by)
          PROVE  TypeOK'
      <3>1. View(t)[e] \in Evidence
        BY <2>2 DEF Supersede, View, Present
      <3>2. [View(t)[e] EXCEPT !.superseded = sup, !.by = by] \in Evidence
        BY <3>1 DEF Evidence
      <3>. QED
        BY <2>2, <3>2 DEF Supersede, Write
    <2>3. ASSUME NEW t \in Tx, NEW w \in Transition, RecordTransition(t, w) PROVE TypeOK'
      BY <2>3 DEF RecordTransition
    <2>4. ASSUME NEW t \in Tx, Commit(t) PROVE TypeOK'
      <3>1. View(t) \in [Row -> Evidence \cup {Null}]
        BY DEF View
      <3>. QED
        BY <2>4, <3>1 DEF Commit, EndTx
    <2>5. ASSUME NEW t \in Tx, Rollback(t) PROVE TypeOK'
      BY <2>5 DEF Rollback, EndTx
    <2>6. ASSUME NEW k \in SigningKey, NEW new \in KeyRow, RegisterKey(k, new) \/ UpdateKey(k, new)
          PROVE  TypeOK'
      BY <2>6 DEF RegisterKey, UpdateKey
    <2>7. CASE UNCHANGED vars
      BY <2>7 DEF vars
    <2>. QED
      BY <2>1, <2>2, <2>3, <2>4, <2>5, <2>6, <2>7 DEF Next
  <1>. QED
    BY <1>1, <1>2, PTL DEF Spec

-----------------------------------------------------------------------------
(* What a version of a row may change of the version before it. *)
Keeps(old, new) == /\ new.slot = old.slot
                   /\ new.seq = old.seq
                   /\ new.content = old.content
                   /\ old.superseded => new.superseded
                   /\ old.by # Null => new.by = old.by

(* Row locks are exclusive, and an open transaction's version of a committed
   row keeps that row's history.                                             *)
LockInv ==
  /\ \A t, u \in Tx : t # u => touched[t] \cap touched[u] = {}
  /\ \A t \in Tx : \A e \in touched[t] : ledger[e] # Null => Keeps(ledger[e], mine[t][e])

(* A successor named by a version exists for the session that sees it. *)
ReferInv ==
  /\ \A e \in Recorded : ledger[e].by # Null => ledger[e].by \in Recorded
  /\ \A t \in Tx : \A e \in touched[t] : mine[t][e].by # Null => mine[t][e].by \in Present(t)

(* Every committed row passed the deferred trigger. *)
ChainInv == \A e \in Recorded : Complete(ledger, e)

(* No unique index has two entries for one key: among what a session sees, and
   among the uncommitted versions of two sessions.                           *)
UniqueInv ==
  /\ \A e, f \in Recorded : e # f => ~Conflict(ledger[e], ledger[f])
  /\ \A t \in Tx : \A e, f \in Present(t) : e # f => ~Conflict(View(t)[e], View(t)[f])
  /\ \A t, u \in Tx : t # u =>
       \A e \in touched[t], f \in touched[u] : ~Conflict(mine[t][e], mine[u][f])

(* How each kind of step changes what the sessions see. *)
LEMMA WriteViews ==
  ASSUME TypeOK, NEW t \in Tx, NEW e \in Row, NEW r \in Evidence, Write(t, e, r)
  PROVE  /\ \A u \in Tx, f \in Row : View(u)'[f] = IF u = t /\ f = e THEN r ELSE View(u)[f]
         /\ \A u \in Tx : touched'[u] = IF u = t THEN touched[u] \cup {e} ELSE touched[u]
         /\ \A u \in Tx, f \in Row : mine'[u][f] = IF u = t /\ f = e THEN r ELSE mine[u][f]
         /\ ledger' = ledger
  BY DEF TypeOK, Write, View

LEMMA EndViews ==
  ASSUME TypeOK, LockInv, NEW t \in Tx, EndTx(t), ledger' \in {ledger, View(t)}
  PROVE  /\ \A u \in Tx, f \in Row :
              View(u)'[f] = IF u # t /\ f \in touched[u] THEN mine[u][f] ELSE ledger'[f]
         /\ \A u \in Tx : touched'[u] = IF u = t THEN {} ELSE touched[u]
         /\ \A u \in Tx, f \in Row : u # t => mine'[u][f] = mine[u][f]
  BY DEF TypeOK, EndTx, View

LEMMA StepKinds ==
  ASSUME TypeOK, [Next]_vars
  PROVE  \/ \E t \in Tx, e \in Row, r \in Evidence : Insert(t, e, r)
         \/ \E t \in Tx, e \in Row, sup \in BOOLEAN, by \in Row \cup {Null} : Supersede(t, e, sup, by)
         \/ \E t \in Tx : Commit(t)
         \/ \E t \in Tx : Rollback(t)
         \/ UNCHANGED <<ledger, touched, mine>>
  BY DEF Next, vars, RecordTransition, RegisterKey, UpdateKey

LEMMA SupersedeWrites ==
  ASSUME TypeOK, NEW t \in Tx, NEW e \in Row, NEW sup \in BOOLEAN, NEW by \in Row \cup {Null},
         Supersede(t, e, sup, by)
  PROVE  \E new \in Evidence :
           /\ Write(t, e, new)
           /\ e \in Present(t)
           /\ \A u \in Tx \ {t} : e \notin touched[u]
           /\ Keeps(View(t)[e], new)
           /\ new.by # Null => new.by \in Present(t) \cup {e}
           /\ Unique(t, e, new)
  <1> DEFINE old == View(t)[e]
             new == [old EXCEPT !.superseded = sup, !.by = by]
  <1>1. old \in Evidence
    BY LedgerAssumption DEF Supersede, View, Present, TypeOK
  <1>2. new \in Evidence /\ new.slot = old.slot /\ new.seq = old.seq /\ new.content = old.content
    BY <1>1 DEF Evidence
  <1>3. Immutable(old, new) /\ References(t, e, new) /\ Unique(t, e, new) /\ Write(t, e, new)
    BY DEF Supersede
  <1>4. Keeps(old, new)
    BY <1>2, <1>3 DEF Keeps, Immutable
  <1>5. /\ e \in Present(t)
        /\ \A u \in Tx \ {t} : e \notin touched[u]
        /\ new.by # Null => new.by \in Present(t) \cup {e}
    BY <1>3 DEF Supersede, References
  <1>. QED
    BY <1>2, <1>3, <1>4, <1>5

LEMMA LockStep == TypeOK /\ LockInv /\ [Next]_vars => LockInv'
  <1> SUFFICES ASSUME TypeOK, LockInv, [Next]_vars PROVE LockInv'
    OBVIOUS
  <1> USE LedgerAssumption DEF TypeOK, LockInv
  <1>1. ASSUME NEW t \in Tx, NEW e \in Row, NEW r \in Evidence, Insert(t, e, r) PROVE LockInv'
    BY <1>1 DEF Insert, Write
  <1>2. ASSUME NEW t \in Tx, NEW e \in Row, NEW sup \in BOOLEAN, NEW by \in Row \cup {Null},
               Supersede(t, e, sup, by)
        PROVE  LockInv'
    <2>0. DEFINE old == View(t)[e]
                 new == [old EXCEPT !.superseded = sup, !.by = by]
    <2>1. old \in Evidence /\ Immutable(old, new)
      BY <1>2 DEF Supersede, View, Present
    <2>2. Keeps(old, new)
      BY <2>1 DEF Immutable, Keeps, Evidence
    <2>3. ledger[e] # Null => Keeps(ledger[e], new)
      BY <2>2 DEF View, Keeps
    <2>4. /\ touched' = [touched EXCEPT ![t] = @ \cup {e}]
          /\ mine' = [mine EXCEPT ![t][e] = new]
          /\ UNCHANGED ledger
          /\ \A u \in Tx \ {t} : e \notin touched[u]
      BY <1>2 DEF Supersede, Write
    <2>. QED
      BY <2>3, <2>4
  <1>3. ASSUME NEW t \in Tx, NEW w \in Transition, RecordTransition(t, w) PROVE LockInv'
    BY <1>3 DEF RecordTransition
  <1>4. ASSUME NEW t \in Tx, Commit(t) PROVE LockInv'
    <2>1. \A u \in Tx : touched'[u] = IF u = t THEN {} ELSE touched[u]
      BY <1>4 DEF Commit, EndTx
    <2>2. \A u, v \in Tx : u # v => touched'[u] \cap touched'[v] = {}
      BY <2>1
    <2>3. ASSUME NEW u \in Tx, NEW e \in touched'[u]
          PROVE  ledger'[e] # Null => Keeps(ledger'[e], mine'[u][e])
      <3>1. u # t /\ e \in touched[u] /\ e \notin touched[t] /\ e \in Row
        BY <2>1
      <3>2. ledger'[e] = ledger[e] /\ mine'[u][e] = mine[u][e]
        BY <1>4, <3>1 DEF Commit, EndTx, View
      <3>. QED
        BY <3>1, <3>2
    <2>. QED
      BY <2>2, <2>3
  <1>5. ASSUME NEW t \in Tx, Rollback(t) PROVE LockInv'
    BY <1>5 DEF Rollback, EndTx
  <1>6. ASSUME NEW k \in SigningKey, NEW new \in KeyRow, RegisterKey(k, new) \/ UpdateKey(k, new)
        PROVE  LockInv'
    BY <1>6 DEF RegisterKey, UpdateKey
  <1>7. CASE UNCHANGED vars
    BY <1>7 DEF vars
  <1>. QED
    BY <1>1, <1>2, <1>3, <1>4, <1>5, <1>6, <1>7 DEF Next
LEMMA WriteRefers ==
  ASSUME TypeOK, ReferInv, NEW t \in Tx, NEW e \in Row, NEW r \in Evidence, Write(t, e, r),
         r.by # Null => r.by \in Present(t) \cup {e}
  PROVE  ReferInv'
  <1>1. r # Null
    BY LedgerAssumption
  <1>2. \A u \in Tx, f \in Row : View(u)'[f] = IF u = t /\ f = e THEN r ELSE View(u)[f]
    BY WriteViews
  <1>7. \A u \in Tx : touched'[u] = (IF u = t THEN touched[u] \cup {e} ELSE touched[u])
    BY WriteViews
  <1>8. \A u \in Tx : touched[u] \subseteq Row
    BY DEF TypeOK
  <1>3. \A u \in Tx : Present(u) \subseteq Present(u)' /\ Present(u)' \subseteq Row
    BY <1>1, <1>2 DEF Present
  <1>4. e \in Present(t)'
    BY <1>1, <1>2 DEF Present
  <1>5. \A f \in Recorded' : ledger'[f].by # Null => ledger'[f].by \in Recorded'
    BY WriteViews DEF ReferInv, Recorded
  <1>6. ASSUME NEW u \in Tx, NEW f \in touched'[u], mine'[u][f].by # Null
        PROVE  mine'[u][f].by \in Present(u)'
    <2>0. f \in (IF u = t THEN touched[u] \cup {e} ELSE touched[u])
      BY <1>6, <1>7
    <2>1. f \in Row /\ touched[u] \subseteq Row
      BY <2>0, <1>8
    <2>2. CASE u = t /\ f = e
      <3>1. mine'[u][f] = r
        BY <2>1, <2>2, WriteViews
      <3>. QED
        BY <1>3, <1>4, <1>6, <2>2, <3>1
    <2>3. CASE ~(u = t /\ f = e)
      <3>1. mine'[u][f] = mine[u][f] /\ f \in touched[u]
        BY <2>0, <2>1, <2>3, WriteViews
      <3>. QED
        BY <1>3, <1>6, <3>1 DEF ReferInv
    <2>. QED
      BY <2>2, <2>3
  <1>. QED
    BY <1>5, <1>6 DEF ReferInv

LEMMA ReferStep == TypeOK /\ LockInv /\ ReferInv /\ [Next]_vars => ReferInv'
  <1> SUFFICES ASSUME TypeOK, LockInv, ReferInv, [Next]_vars PROVE ReferInv'
    OBVIOUS
  <1> USE LedgerAssumption DEF ReferInv, Recorded, Present
  <1>0. /\ \A t \in Tx : touched[t] \subseteq Row
        /\ \A t \in Tx, e \in Row : View(t)[e] = IF e \in touched[t] THEN mine[t][e] ELSE ledger[e]
        /\ \A t \in Tx : \A e \in touched[t] : mine[t][e] # Null
    BY DEF TypeOK, View
  <1>1. ASSUME NEW t \in Tx, NEW e \in Row, NEW r \in Evidence, Insert(t, e, r) PROVE ReferInv'
    <2>1. Write(t, e, r) /\ (r.by # Null => r.by \in Present(t) \cup {e}) /\ r # Null
      BY <1>1 DEF Insert, References
    <2>. QED
      BY <2>1, WriteRefers
  <1>2. ASSUME NEW t \in Tx, NEW e \in Row, NEW sup \in BOOLEAN, NEW by \in Row \cup {Null},
               Supersede(t, e, sup, by)
        PROVE  ReferInv'
    <2>1. PICK new \in Evidence : Write(t, e, new) /\ (new.by # Null => new.by \in Present(t) \cup {e})
      BY <1>2, SupersedeWrites
    <2>. QED
      BY <2>1, WriteRefers
  <1>3. ASSUME NEW t \in Tx, Commit(t) PROVE ReferInv'
    <2>1. EndTx(t) /\ ledger' = View(t)
      BY <1>3 DEF Commit
    <2>2. /\ \A u \in Tx, f \in Row :
               View(u)'[f] = IF u # t /\ f \in touched[u] THEN mine[u][f] ELSE ledger'[f]
          /\ \A u \in Tx : touched'[u] = IF u = t THEN {} ELSE touched[u]
          /\ \A u \in Tx, f \in Row : u # t => mine'[u][f] = mine[u][f]
      BY <2>1, EndViews
    <2>3. \A f \in Row : ledger[f] # Null => ledger'[f] # Null
      BY <1>0, <2>1
    <2>4. \A e \in Recorded' : ledger'[e].by # Null => ledger'[e].by \in Recorded'
      BY <1>0, <2>1
    <2>5. ASSUME NEW u \in Tx, NEW e \in touched'[u], mine'[u][e].by # Null
          PROVE  mine'[u][e].by \in Present(u)'
      <3>1. u # t /\ e \in touched[u] /\ mine[u][e].by \in Present(u)
        BY <1>0, <2>2, <2>5
      <3>. QED
        BY <1>0, <2>2, <2>3, <3>1
    <2>. QED
      BY <2>4, <2>5
  <1>4. ASSUME NEW t \in Tx, Rollback(t) PROVE ReferInv'
    <2>1. EndTx(t) /\ ledger' = ledger
      BY <1>4 DEF Rollback
    <2>2. /\ \A u \in Tx, f \in Row :
               View(u)'[f] = IF u # t /\ f \in touched[u] THEN mine[u][f] ELSE ledger'[f]
          /\ \A u \in Tx : touched'[u] = IF u = t THEN {} ELSE touched[u]
          /\ \A u \in Tx, f \in Row : u # t => mine'[u][f] = mine[u][f]
      BY <2>1, EndViews
    <2>3. \A f \in Row : ledger[f] # Null => ledger'[f] # Null
      BY <1>0, <2>1
    <2>4. \A e \in Recorded' : ledger'[e].by # Null => ledger'[e].by \in Recorded'
      BY <1>0, <2>1
    <2>5. ASSUME NEW u \in Tx, NEW e \in touched'[u], mine'[u][e].by # Null
          PROVE  mine'[u][e].by \in Present(u)'
      <3>1. u # t /\ e \in touched[u] /\ mine[u][e].by \in Present(u)
        BY <1>0, <2>2, <2>5
      <3>. QED
        BY <1>0, <2>2, <2>3, <3>1
    <2>. QED
      BY <2>4, <2>5
  <1>5. CASE UNCHANGED <<ledger, touched, mine>>
    BY <1>5 DEF View
  <1>. QED
    BY <1>1, <1>2, <1>3, <1>4, <1>5, StepKinds
LEMMA ChainStep ==
  TypeOK /\ LockInv /\ ReferInv /\ ChainInv /\ [Next]_vars => ChainInv'
  <1> SUFFICES ASSUME TypeOK, LockInv, ReferInv, ChainInv, [Next]_vars PROVE ChainInv'
    OBVIOUS
  <1>1. CASE ledger' = ledger
    BY <1>1 DEF ChainInv, Recorded, Complete
  <1>2. ASSUME NEW t \in Tx, Commit(t) PROVE ChainInv'
    <2> DEFINE view == View(t)
    <2>0. ledger' = view
      BY <1>2 DEF Commit
    <2>1. \A e \in Row : /\ e \in touched[t] => view[e] = mine[t][e] /\ view[e] # Null
                         /\ e \notin touched[t] => view[e] = ledger[e]
      BY DEF View, TypeOK
    <2> SUFFICES ASSUME NEW e \in Row, view[e] # Null PROVE Complete(view, e)
      BY <2>0 DEF ChainInv, Recorded, Complete
    <2>2. CASE e \in touched[t]
      BY <1>2, <2>2 DEF Commit
    <2>3. CASE e \notin touched[t]
      <3>1. view[e] = ledger[e] /\ e \in Recorded
        BY <2>1, <2>3 DEF Recorded
      <3>2. Complete(ledger, e)
        BY <3>1 DEF ChainInv
      <3>3. CASE ledger[e].by = Null
        BY <3>1, <3>2, <3>3 DEF Complete
      <3>4. CASE ledger[e].by # Null
        <4> DEFINE succ == ledger[e].by
        <4>1. succ \in Recorded /\ succ \in Row
          BY <3>1, <3>4 DEF ReferInv, Recorded
        <4>2. view[succ].slot = ledger[succ].slot /\ view[succ].seq = ledger[succ].seq
          BY <2>1, <4>1 DEF LockInv, Keeps, Recorded
        <4>. QED
          BY <3>1, <3>2, <4>2 DEF Complete
      <3>. QED
        BY <3>3, <3>4
    <2>. QED
      BY <2>2, <2>3
  <1>. QED
    BY <1>1, <1>2, StepKinds DEF Insert, Supersede, Write, Rollback

LEMMA ConflictSymmetric ==
  ASSUME NEW r, NEW x, Conflict(r, x) PROVE Conflict(x, r)
  BY DEF Conflict, SameSlotLive, SameSlotSeq, SameAssertion

LEMMA WriteUnique ==
  ASSUME TypeOK, LockInv, UniqueInv, NEW t \in Tx, NEW e \in Row, NEW r \in Evidence, Write(t, e, r),
         Unique(t, e, r), \A u \in Tx \ {t} : e \notin touched[u]
  PROVE  UniqueInv'
  <1>1. /\ \A u \in Tx, f \in Row : View(u)'[f] = IF u = t /\ f = e THEN r ELSE View(u)[f]
        /\ \A u \in Tx : touched'[u] = IF u = t THEN touched[u] \cup {e} ELSE touched[u]
        /\ \A u \in Tx, f \in Row : mine'[u][f] = IF u = t /\ f = e THEN r ELSE mine[u][f]
        /\ ledger' = ledger
    BY WriteViews
  <1>2. \A f \in Present(t) \ {e} : ~Conflict(r, View(t)[f]) /\ ~Conflict(View(t)[f], r)
    BY ConflictSymmetric DEF Unique, Indexed
  <1>3. \A u \in Tx \ {t} : \A f \in touched[u] : ~Conflict(r, mine[u][f]) /\ ~Conflict(mine[u][f], r)
    BY ConflictSymmetric DEF Unique, Indexed
  <1>4. \A f, g \in Recorded' : f # g => ~Conflict(ledger'[f], ledger'[g])
    BY <1>1 DEF UniqueInv, Recorded
  <1>5. ASSUME NEW u \in Tx, NEW f \in Present(u)', NEW g \in Present(u)', f # g
        PROVE  ~Conflict(View(u)'[f], View(u)'[g])
    <2>1. f \in Row /\ g \in Row /\ View(u)'[f] # Null /\ View(u)'[g] # Null
      BY DEF Present
    <2>2. CASE u # t
      BY <1>1, <1>5, <2>1, <2>2 DEF UniqueInv, Present
    <2>3. CASE u = t
      <3>1. f # e => f \in Present(t) /\ View(u)'[f] = View(t)[f]
        BY <1>1, <2>1, <2>3 DEF Present
      <3>2. g # e => g \in Present(t) /\ View(u)'[g] = View(t)[g]
        BY <1>1, <2>1, <2>3 DEF Present
      <3>3. /\ f = e => View(u)'[f] = r
            /\ g = e => View(u)'[g] = r
        BY <1>1, <2>1, <2>3
      <3>. QED
        BY <1>2, <1>5, <3>1, <3>2, <3>3 DEF UniqueInv
    <2>. QED
      BY <2>2, <2>3
  <1>6. ASSUME NEW u \in Tx, NEW v \in Tx, u # v, NEW f \in touched'[u], NEW g \in touched'[v]
        PROVE  ~Conflict(mine'[u][f], mine'[v][g])
    <2>0. \A w \in Tx : touched[w] \subseteq Row
      BY DEF TypeOK
    <2>1. f \in Row /\ g \in Row
      BY <1>1, <2>0
    <2>2. CASE u = t /\ f = e
      <3>1. v # t /\ g \in touched[v] /\ mine'[v][g] = mine[v][g] /\ mine'[u][f] = r
        BY <1>1, <1>6, <2>1, <2>2
      <3>. QED
        BY <1>3, <3>1
    <2>3. CASE v = t /\ g = e
      <3>1. u # t /\ f \in touched[u] /\ mine'[u][f] = mine[u][f] /\ mine'[v][g] = r
        BY <1>1, <1>6, <2>1, <2>3
      <3>. QED
        BY <1>3, <3>1
    <2>4. CASE ~(u = t /\ f = e) /\ ~(v = t /\ g = e)
      <3>1. /\ f \in touched[u] /\ mine'[u][f] = mine[u][f]
            /\ g \in touched[v] /\ mine'[v][g] = mine[v][g]
        BY <1>1, <2>1, <2>4
      <3>. QED
        BY <1>6, <3>1 DEF UniqueInv
    <2>. QED
      BY <2>2, <2>3, <2>4
  <1>. QED
    BY <1>4, <1>5, <1>6 DEF UniqueInv

LEMMA EndUnique ==
  ASSUME TypeOK, LockInv, UniqueInv, NEW t \in Tx, EndTx(t), ledger' \in {ledger, View(t)}
  PROVE  UniqueInv'
  <1>1. /\ \A u \in Tx, f \in Row :
             View(u)'[f] = IF u # t /\ f \in touched[u] THEN mine[u][f] ELSE ledger'[f]
        /\ \A u \in Tx : touched'[u] = IF u = t THEN {} ELSE touched[u]
        /\ \A u \in Tx, f \in Row : u # t => mine'[u][f] = mine[u][f]
    BY EndViews
  <1>2. \A u \in Tx : touched[u] \subseteq Row
    BY DEF TypeOK
  <1>3. \A u \in Tx, f \in Row : View(u)[f] = IF f \in touched[u] THEN mine[u][f] ELSE ledger[f]
    BY DEF View
  <1>4. \A f, g \in Recorded' : f # g => ~Conflict(ledger'[f], ledger'[g])
    BY DEF UniqueInv, Recorded, Present
  <1>5. ASSUME NEW u \in Tx, NEW f \in Present(u)', NEW g \in Present(u)', f # g
        PROVE  ~Conflict(View(u)'[f], View(u)'[g])
    <2>1. f \in Row /\ g \in Row /\ View(u)'[f] # Null /\ View(u)'[g] # Null
      BY DEF Present
    <2>2. ASSUME NEW a \in Row, NEW b \in Row, a # b, u # t, View(u)'[a] # Null, View(u)'[b] # Null,
                 a \in touched[u], b \notin touched[u]
          PROVE  ~Conflict(View(u)'[a], View(u)'[b])
      <3>1. View(u)'[a] = mine[u][a] /\ View(u)'[b] = ledger'[b] /\ View(u)[a] = mine[u][a]
        BY <1>1, <1>3, <2>2
      <3>2. CASE ledger'[b] = ledger[b]
        <4>1. View(u)[b] = ledger[b]
          BY <1>3, <2>2
        <4>. QED
          BY <2>2, <3>1, <3>2, <4>1 DEF UniqueInv, Present
      <3>3. CASE ledger'[b] # ledger[b]
        <4>1. b \in touched[t] /\ ledger'[b] = mine[t][b]
          BY <1>3, <3>3
        <4>. QED
          BY <2>2, <3>1, <4>1 DEF UniqueInv
      <3>. QED
        BY <3>2, <3>3
    <2>3. CASE u # t /\ f \in touched[u] /\ g \in touched[u]
      <3>1. View(u)'[f] = View(u)[f] /\ View(u)'[g] = View(u)[g]
        BY <1>1, <1>3, <2>1, <2>3
      <3>. QED
        BY <1>5, <2>1, <3>1 DEF UniqueInv, Present
    <2>4. CASE u # t /\ f \in touched[u] /\ g \notin touched[u]
      BY <1>5, <2>1, <2>2, <2>4
    <2>5. CASE u # t /\ f \notin touched[u] /\ g \in touched[u]
      BY <1>5, <2>1, <2>2, <2>5, ConflictSymmetric
    <2>6. CASE u = t \/ (f \notin touched[u] /\ g \notin touched[u])
      <3>1. View(u)'[f] = ledger'[f] /\ View(u)'[g] = ledger'[g]
        BY <1>1, <2>1, <2>6
      <3>. QED
        BY <1>4, <1>5, <2>1, <3>1 DEF Recorded
    <2>. QED
      BY <2>3, <2>4, <2>5, <2>6
  <1>6. ASSUME NEW u \in Tx, NEW v \in Tx, u # v, NEW f \in touched'[u], NEW g \in touched'[v]
        PROVE  ~Conflict(mine'[u][f], mine'[v][g])
    <2>1. /\ u # t /\ f \in touched[u] /\ f \in Row
          /\ v # t /\ g \in touched[v] /\ g \in Row
      BY <1>1, <1>2
    <2>. QED
      BY <1>1, <1>6, <2>1 DEF UniqueInv
  <1>. QED
    BY <1>4, <1>5, <1>6 DEF UniqueInv

LEMMA UniqueStep == TypeOK /\ LockInv /\ UniqueInv /\ [Next]_vars => UniqueInv'
  <1> SUFFICES ASSUME TypeOK, LockInv, UniqueInv, [Next]_vars PROVE UniqueInv'
    OBVIOUS
  <1>1. ASSUME NEW t \in Tx, NEW e \in Row, NEW r \in Evidence, Insert(t, e, r) PROVE UniqueInv'
    BY <1>1, WriteUnique DEF Insert
  <1>2. ASSUME NEW t \in Tx, NEW e \in Row, NEW sup \in BOOLEAN, NEW by \in Row \cup {Null},
               Supersede(t, e, sup, by)
        PROVE  UniqueInv'
    BY <1>2, SupersedeWrites, WriteUnique
  <1>3. ASSUME NEW t \in Tx, Commit(t) PROVE UniqueInv'
    BY <1>3, EndUnique DEF Commit
  <1>4. ASSUME NEW t \in Tx, Rollback(t) PROVE UniqueInv'
    BY <1>4, EndUnique DEF Rollback
  <1>5. CASE UNCHANGED <<ledger, touched, mine>>
    BY <1>5 DEF UniqueInv, Recorded, Present, View
  <1>. QED
    BY <1>1, <1>2, <1>3, <1>4, <1>5, StepKinds

-----------------------------------------------------------------------------
LedgerInv == TypeOK /\ LockInv /\ ReferInv /\ ChainInv /\ UniqueInv

LEMMA LedgerInvariant == Spec => []LedgerInv
  <1>1. Init => LockInv /\ ReferInv /\ ChainInv /\ UniqueInv
    BY DEF Init, LockInv, ReferInv, ChainInv, UniqueInv, Recorded, Present, View
  <1>2. TypeOK /\ LockInv /\ ReferInv /\ ChainInv /\ UniqueInv /\ [Next]_vars
          => LockInv' /\ ReferInv' /\ ChainInv' /\ UniqueInv'
    BY LockStep, ReferStep, ChainStep, UniqueStep
  <1>. QED
    BY <1>1, <1>2, LedgerTyping, PTL DEF Spec, LedgerInv

(* A nonempty set of ordinals has a greatest element: ordinals are bounded. *)
LEMMA GreatestOrdinal ==
  ASSUME NEW S \in SUBSET (0 .. MaxSeq), S # {}
  PROVE  \E m \in S : \A n \in S : n <= m
  <1> DEFINE T == {MaxSeq - n : n \in S}
  <1>0. \A n \in S : n \in Nat /\ n <= MaxSeq /\ MaxSeq - n \in Nat
    BY LedgerAssumption
  <1>1. T \subseteq Nat /\ T # {}
    BY <1>0
  <1>2. PICK k \in T : \A n \in T : <<n, k>> \notin OpToRel(<, Nat)
    BY <1>1, WFMin, NatLessThanWellFounded
  <1>3. \A n \in T : ~(n < k)
    BY <1>1, <1>2 DEF OpToRel
  <1>4. PICK m \in S : k = MaxSeq - m
    BY <1>2
  <1>5. ASSUME NEW n \in S PROVE n <= m
    <2>1. MaxSeq - n \in T
      OBVIOUS
    <2>2. ~(MaxSeq - n < MaxSeq - m)
      BY <1>3, <1>4, <2>1
    <2>. QED
      BY <1>0, <2>2, LedgerAssumption
  <1>. QED
    BY <1>5

LEMMA ChainsEndLive == LedgerInv => OneLiveAndNewest
  <1> SUFFICES ASSUME LedgerInv, NEW e \in Recorded
               PROVE  \E f \in Recorded :
                        /\ Live(f)
                        /\ ledger[f].slot = ledger[e].slot
                        /\ ledger[f].seq >= ledger[e].seq
                        /\ \A g \in Recorded :
                             Live(g) /\ ledger[g].slot = ledger[e].slot => g = f
    BY DEF OneLiveAndNewest
  <1> DEFINE Peers == {g \in Recorded : ledger[g].slot = ledger[e].slot}
             S     == {ledger[g].seq : g \in Peers}
  <1>1. \A g \in Recorded : ledger[g] \in Evidence
    BY DEF LedgerInv, TypeOK, Recorded
  <1>2. S \in SUBSET (0 .. MaxSeq) /\ S # {}
    BY <1>1 DEF Evidence
  <1>3. PICK m \in S : \A n \in S : n <= m
    BY <1>2, GreatestOrdinal
  <1>4. PICK f \in Peers : m = ledger[f].seq
    BY <1>3
  <1>5. \A g \in Peers : ledger[g].seq <= ledger[f].seq
    BY <1>3, <1>4
  <1>6. Live(f)
    <2> SUFFICES ASSUME ledger[f].superseded PROVE FALSE
      BY <1>1 DEF Live, Recorded
    <2>1. Complete(ledger, f) /\ (ledger[f].by # Null => ledger[f].by \in Recorded)
      BY DEF LedgerInv, ChainInv, ReferInv
    <2>2. /\ ledger[f].by \in Peers
          /\ ledger[ledger[f].by].seq > ledger[f].seq
      BY <2>1 DEF Complete
    <2>3. ledger[ledger[f].by].seq \in Int /\ ledger[f].seq \in Int
      BY <1>1, <2>2, LedgerAssumption DEF Evidence
    <2>. QED
      BY <1>5, <2>2, <2>3
  <1>7. ASSUME NEW g \in Recorded, Live(g), ledger[g].slot = ledger[e].slot PROVE g = f
    BY <1>6, <1>7 DEF LedgerInv, UniqueInv, Conflict, SameSlotLive, Live
  <1>8. ledger[f].seq >= ledger[e].seq
    <2>1. ledger[e].seq <= ledger[f].seq
      BY <1>5
    <2>2. ledger[e].seq \in Int /\ ledger[f].seq \in Int
      BY <1>1, LedgerAssumption DEF Evidence
    <2>. QED
      BY <2>1, <2>2
  <1>. QED
    BY <1>6, <1>7, <1>8

(* Supersession never leaves a slot with a history undecided or doubly decided,
   and the live decision is the one with the highest ordinal.                *)
THEOREM OneLiveDecision == Spec => []OneLiveAndNewest
  BY LedgerInvariant, ChainsEndLive, PTL

(* A signed assertion is recorded at most once. *)
THEOREM ReplayIsRefused == Spec => []AssertionsUnique
  <1>1. LedgerInv => AssertionsUnique
    BY DEF LedgerInv, UniqueInv, Conflict, AssertionsUnique
  <1>. QED
    BY <1>1, LedgerInvariant, PTL

-----------------------------------------------------------------------------
LEMMA HistoryStep ==
  ASSUME LedgerInv, [Next]_vars, NEW e \in Recorded
  PROVE  /\ ledger'[e] # Null
         /\ Keeps(ledger[e], ledger'[e])
         /\ ~Live(e) => ledger'[e] = ledger[e]
  <1> USE DEF LedgerInv
  <1>1. CASE ledger' = ledger
    BY <1>1 DEF Keeps, Recorded
  <1>2. ASSUME NEW t \in Tx, Commit(t)
        PROVE  /\ ledger'[e] # Null
               /\ Keeps(ledger[e], ledger'[e])
               /\ ~Live(e) => ledger'[e] = ledger[e]
    <2>1. e \in Row /\ ledger[e] # Null /\ ledger[e] \in Evidence
      BY DEF TypeOK, Recorded
    <2>2. ledger'[e] = IF e \in touched[t] THEN mine[t][e] ELSE ledger[e]
      BY <1>2, <2>1 DEF Commit, View
    <2>3. CASE e \notin touched[t]
      BY <2>1, <2>2, <2>3 DEF Keeps
    <2>4. CASE e \in touched[t]
      <3>1. Keeps(ledger[e], mine[t][e]) /\ mine[t][e] # Null /\ mine[t][e] \in Evidence
        BY <2>1, <2>4 DEF LockInv, TypeOK
      <3>2. ASSUME ledger[e].superseded PROVE mine[t][e] = ledger[e]
        <4>1. ledger[e].by # Null
          BY <3>2 DEF ChainInv, Complete
        <4>. QED
          BY <2>1, <3>1, <3>2, <4>1 DEF Keeps, Evidence
      <3>. QED
        BY <2>1, <2>2, <2>4, <3>1, <3>2 DEF Live
    <2>. QED
      BY <2>3, <2>4
  <1>. QED
    BY <1>1, <1>2, StepKinds DEF Insert, Supersede, Write, Rollback

(* Committed history is never rewritten, and supersession never undone. *)
THEOREM HistoryKept == Spec => HistoryIsKept
  <1>1. LedgerInv /\ [Next]_vars =>
          [\A e \in Recorded :
             /\ ledger'[e] # Null
             /\ ledger'[e].slot = ledger[e].slot
             /\ ledger'[e].seq = ledger[e].seq
             /\ ledger'[e].content = ledger[e].content
             /\ ~Live(e) => ledger'[e] = ledger[e]]_vars
    BY HistoryStep DEF Keeps
  <1>. QED
    BY <1>1, LedgerInvariant, PTL DEF Spec, HistoryIsKept

(* The live decision of a slot only ever gives way to a higher ordinal. *)
THEOREM OnlyNewerReplaces == Spec => NewerReplaces
  <1>1. ASSUME LedgerInv, LedgerInv', [Next]_vars, NEW e \in Row, NEW f \in Row,
               Live(e), Live(f)', ledger'[f].slot = ledger[e].slot, f # e
        PROVE  ledger'[f].seq > ledger[e].seq
    <2>1. e \in Recorded /\ e \in Recorded' /\ f \in Recorded'
      BY <1>1, HistoryStep DEF Live, Recorded
    <2>2. ledger'[e].slot = ledger[e].slot /\ ledger'[e].seq = ledger[e].seq
      BY <1>1, <2>1, HistoryStep DEF Keeps
    <2>3. OneLiveAndNewest'
      BY <1>1, ChainsEndLive, PTL
    <2>4. ledger'[f].seq >= ledger'[e].seq
      BY <1>1, <2>1, <2>2, <2>3 DEF OneLiveAndNewest
    <2>5. ledger'[f].seq # ledger'[e].seq
      BY <1>1, <2>1, <2>2 DEF LedgerInv, UniqueInv, Conflict, SameSlotSeq
    <2>6. ledger'[f].seq \in Int /\ ledger'[e].seq \in Int
      BY <1>1, <2>1, LedgerAssumption DEF LedgerInv, TypeOK, Recorded, Evidence
    <2>. QED
      BY <2>2, <2>4, <2>5, <2>6
  <1>2. LedgerInv /\ LedgerInv' /\ [Next]_vars =>
          [\A e, f \in Row : Live(e) /\ Live(f)' /\ ledger'[f].slot = ledger[e].slot =>
             f = e \/ ledger'[f].seq > ledger[e].seq]_vars
    BY <1>1
  <1>. QED
    BY <1>2, LedgerInvariant, PTL DEF Spec, NewerReplaces

-----------------------------------------------------------------------------
(* A transition not yet committed cites evidence its session sees. *)
CitesInv ==
  \A t \in Tx : \A w \in cites[t] : CitesOwnSubject(t, w)

LEMMA CitedStays ==
  ASSUME LedgerInv, [Next]_vars, NEW t \in Tx, NEW f \in Present(t), touched'[t] # {} \/ cites'[t] # {}
  PROVE  f \in Present(t)' /\ View(t)'[f].slot = View(t)[f].slot
  <1> USE DEF LedgerInv
  <1>0. f \in Row /\ View(t)[f] # Null /\ View(t)[f] = IF f \in touched[t] THEN mine[t][f] ELSE ledger[f]
    BY DEF Present, View
  <1>1. ASSUME NEW u \in Tx, NEW e \in Row, NEW r \in Evidence, Insert(u, e, r)
        PROVE  f \in Present(t)' /\ View(t)'[f].slot = View(t)[f].slot
    <2>1. ~(t = u /\ f = e) /\ Write(u, e, r)
      BY <1>0, <1>1 DEF Insert
    <2>2. View(t)'[f] = View(t)[f]
      BY <1>0, <2>1, WriteViews
    <2>. QED
      BY <1>0, <2>2 DEF Present
  <1>2. ASSUME NEW u \in Tx, NEW e \in Row, NEW sup \in BOOLEAN, NEW by \in Row \cup {Null},
               Supersede(u, e, sup, by)
        PROVE  f \in Present(t)' /\ View(t)'[f].slot = View(t)[f].slot
    <2>1. PICK new \in Evidence : Write(u, e, new) /\ Keeps(View(u)[e], new)
      BY <1>2, SupersedeWrites
    <2>2. View(t)'[f] = IF t = u /\ f = e THEN new ELSE View(t)[f]
      BY <1>0, <2>1, WriteViews
    <2>3. new # Null
      BY LedgerAssumption
    <2>. QED
      BY <1>0, <2>1, <2>2, <2>3 DEF Present, Keeps
  <1>3. ASSUME NEW u \in Tx, EndTx(u), ledger' \in {ledger, View(u)}
        PROVE  f \in Present(t)' /\ View(t)'[f].slot = View(t)[f].slot
    <2>1. t # u
      BY <1>3 DEF EndTx, TypeOK
    <2>2. View(t)'[f] = IF f \in touched[t] THEN mine[t][f] ELSE ledger'[f]
      BY <1>0, <1>3, <2>1, EndViews
    <2>3. f \notin touched[t] => f \in Recorded
      BY <1>0 DEF Recorded
    <2>4. f \notin touched[t] => ledger'[f] # Null /\ ledger'[f].slot = ledger[f].slot
      BY <2>3, HistoryStep DEF Keeps
    <2>. QED
      BY <1>0, <2>2, <2>4 DEF Present
  <1>4. CASE UNCHANGED <<ledger, touched, mine>>
    BY <1>0, <1>4 DEF Present, View
  <1>. QED
    BY <1>1, <1>2, <1>3, <1>4, StepKinds DEF Commit, Rollback

(* Committed transitions cite committed evidence about their own subject. *)
THEOREM TransitionsAreCoherent == Spec => []TransitionsCohere
  <1>1. Init => CitesInv /\ TransitionsCohere
    BY DEF Init, CitesInv, TransitionsCohere
  <1>2. ASSUME LedgerInv, CitesInv, [Next]_vars PROVE CitesInv'
    <2> SUFFICES ASSUME NEW t \in Tx, NEW w \in cites'[t], w.evidence # Null
                 PROVE  w.evidence \in Present(t)' /\ View(t)'[w.evidence].slot.subject = w.subject
      BY DEF CitesInv, CitesOwnSubject
    <2>1. CitesOwnSubject(t, w)
      <3>1. w \in cites[t] \/ RecordTransition(t, w)
        <4>1. cites \in [Tx -> SUBSET Transition]
          BY <1>2 DEF LedgerInv, TypeOK
        <4>2. ASSUME NEW u \in Tx, NEW x \in Transition, RecordTransition(u, x)
              PROVE  w \in cites[t] \/ RecordTransition(t, w)
          <5>1. w \in IF t = u THEN cites[t] \cup {x} ELSE cites[t]
            BY <4>1, <4>2 DEF RecordTransition
          <5>. QED
            BY <4>2, <5>1
        <4>3. ASSUME NEW u \in Tx, EndTx(u) PROVE w \in cites[t]
          BY <4>1, <4>3 DEF EndTx
        <4>4. CASE cites' = cites
          BY <4>4
        <4>. QED
          BY <1>2, <4>2, <4>3, <4>4 DEF Next, vars, Insert, Supersede, Write, Commit, Rollback,
                                        RegisterKey, UpdateKey
      <3>. QED
        BY <1>2, <3>1 DEF CitesInv, RecordTransition
    <2>2. w.evidence \in Present(t) /\ View(t)[w.evidence].slot.subject = w.subject
      BY <2>1 DEF CitesOwnSubject
    <2>. QED
      BY <1>2, <2>2, CitedStays
  <1>3. ASSUME LedgerInv, CitesInv, TransitionsCohere, [Next]_vars PROVE TransitionsCohere'
    <2> SUFFICES ASSUME NEW w \in log', w.evidence # Null
                 PROVE  w.evidence \in Recorded' /\ ledger'[w.evidence].slot.subject = w.subject
      BY DEF TransitionsCohere
    <2>1. CASE w \in log
      <3>1. w.evidence \in Recorded /\ ledger[w.evidence].slot.subject = w.subject
        BY <1>3, <2>1 DEF TransitionsCohere
      <3>2. ledger'[w.evidence] # Null /\ ledger'[w.evidence].slot = ledger[w.evidence].slot
        BY <1>3, <3>1, HistoryStep DEF Keeps
      <3>. QED
        BY <3>1, <3>2 DEF Recorded
    <2>2. CASE w \notin log
      <3>1. PICK t \in Tx : Commit(t) /\ w \in cites[t]
        BY <1>3, <2>2 DEF Next, vars, Insert, Supersede, Write, RecordTransition,
                          Commit, Rollback, RegisterKey, UpdateKey
      <3>2. CitesOwnSubject(t, w) /\ ledger' = View(t)
        BY <1>3, <3>1 DEF CitesInv, Commit
      <3>. QED
        BY <3>2 DEF CitesOwnSubject, Present, Recorded
    <2>. QED
      BY <2>1, <2>2
  <1>. QED
    BY <1>1, <1>2, <1>3, LedgerInvariant, PTL DEF Spec

-----------------------------------------------------------------------------
(* Publication intents. *)

(* What a statement leaves of each intent: untouched, or a row it accepted. *)
LEMMA IntentStepKinds ==
  ASSUME IntentTypeOK, [IntentNext]_intentVars
  PROVE  \/ UNCHANGED intents
         \/ /\ UNCHANGED vars
            /\ \E i \in Intent :
                 \/ \E r \in IntentRow : /\ Accept(i, r)
                                         /\ intents[i] # Null => MayBecome(intents[i], r)
                 \/ /\ intents[i] # Null
                    /\ Deletable(intents[i])
                    /\ intents' = [intents EXCEPT ![i] = Null]
  BY DEF IntentNext, InsertIntent, UpdateIntent, DeleteIntent, intentVars, Accept

(* Every intent has the shape the CHECKs demand. *)
THEOREM IntentTyping == IntentSpec => []IntentTypeOK
  <1> USE IntentAssumption DEF IntentTypeOK
  <1>1. IntentInit => IntentTypeOK
    BY DEF IntentInit
  <1>2. IntentTypeOK /\ [IntentNext]_intentVars => IntentTypeOK'
    <2> SUFFICES ASSUME IntentTypeOK, [IntentNext]_intentVars PROVE IntentTypeOK'
      OBVIOUS
    <2>1. CASE UNCHANGED intents
      BY <2>1
    <2>2. ASSUME NEW i \in Intent, NEW r \in IntentRow, Accept(i, r) PROVE IntentTypeOK'
      BY <2>2 DEF Accept, WellShaped
    <2>3. ASSUME NEW i \in Intent, intents' = [intents EXCEPT ![i] = Null] PROVE IntentTypeOK'
      BY <2>3
    <2>. QED
      BY <2>1, <2>2, <2>3, IntentStepKinds
  <1>. QED
    BY <1>1, <1>2, PTL DEF IntentSpec

(* The open-intent index: a slot has one open publication.  What an open one may become
   rests on it, see SlotsAreReleasedByOutcome.                                         *)
OneOpenIntent ==
  \A i, j \in Intent : Open(i) /\ Open(j) /\ intents[i].slot = intents[j].slot => i = j

LEMMA SlotIsExclusive == IntentSpec => []OneOpenIntent
  <1>1. IntentInit => OneOpenIntent
    BY DEF IntentInit, OneOpenIntent, Open
  <1>2. IntentTypeOK /\ OneOpenIntent /\ [IntentNext]_intentVars => OneOpenIntent'
    <2> SUFFICES ASSUME IntentTypeOK, OneOpenIntent, [IntentNext]_intentVars
                 PROVE  OneOpenIntent'
      OBVIOUS
    <2>1. CASE UNCHANGED intents
      BY <2>1 DEF OneOpenIntent, Open
    <2>2. ASSUME NEW i \in Intent, NEW r \in IntentRow, Accept(i, r) PROVE OneOpenIntent'
      <3>1. \A j \in Intent : intents'[j] = IF j = i THEN r ELSE intents[j]
        BY <2>2 DEF Accept, IntentTypeOK
      <3>2. Open(i)' => \A j \in Intent \ {i} : Open(j) => intents[j].slot # r.slot
        BY <2>2, <3>1 DEF Accept, SlotFree, Open
      <3>. QED
        BY <3>1, <3>2 DEF OneOpenIntent, Open
    <2>3. ASSUME NEW i \in Intent, intents' = [intents EXCEPT ![i] = Null] PROVE OneOpenIntent'
      <3>1. \A j \in Intent : intents'[j] = IF j = i THEN Null ELSE intents[j]
        BY <2>3 DEF IntentTypeOK
      <3>. QED
        BY <3>1 DEF OneOpenIntent, Open
    <2>. QED
      BY <2>1, <2>2, <2>3, IntentStepKinds
  <1>. QED
    BY <1>1, <1>2, IntentTyping, PTL DEF IntentSpec

-----------------------------------------------------------------------------
(* The ledger beside the intents is the ledger alone: its invariants carry over. *)
LEMMA IntentsLeaveLedger == IntentSpec => Spec
  <1>1. IntentInit => Init
    BY DEF IntentInit
  <1>2. [IntentNext]_intentVars => [Next]_vars
    BY DEF IntentNext, InsertIntent, UpdateIntent, DeleteIntent, Accept, intentVars
  <1>. QED
    BY <1>1, <1>2, PTL DEF IntentSpec, Spec

(* Coherence checked at insertion lasts because evidence is never rewritten. *)
THEOREM IntentsStayCoherent == IntentSpec => []IntentsCohere
  <1>1. IntentInit => IntentsCohere
    BY DEF IntentInit, IntentsCohere
  <1>2. LedgerInv /\ IntentTypeOK /\ IntentsCohere /\ [Next]_vars /\ [IntentNext]_intentVars
          => IntentsCohere'
    <2> SUFFICES ASSUME LedgerInv, IntentTypeOK, IntentsCohere, [Next]_vars,
                        [IntentNext]_intentVars, NEW j \in Intent, intents'[j] # Null
                 PROVE  LET decision == ledger'[intents'[j].evidence]
                        IN /\ decision # Null
                           /\ decision.slot = intents'[j].slot
                           /\ decision.content.digest = intents'[j].digest
      BY DEF IntentsCohere
    <2>1. CASE UNCHANGED intents
      <3>1. intents[j] \in IntentRow /\ intents[j].evidence \in Recorded
        BY <2>1 DEF IntentTypeOK, IntentsCohere, Recorded, IntentRow
      <3>2. /\ ledger'[intents[j].evidence] # Null
            /\ Keeps(ledger[intents[j].evidence], ledger'[intents[j].evidence])
        BY <3>1, HistoryStep
      <3>. QED
        BY <2>1, <3>2 DEF IntentsCohere, Keeps
    <2>2. ASSUME UNCHANGED vars, NEW i \in Intent, NEW r \in IntentRow, Accept(i, r)
          PROVE  LET decision == ledger'[intents'[j].evidence]
                 IN /\ decision # Null
                    /\ decision.slot = intents'[j].slot
                    /\ decision.content.digest = intents'[j].digest
      <3>1. intents'[j] = IF j = i THEN r ELSE intents[j]
        BY <2>2 DEF Accept, IntentTypeOK
      <3>. QED
        BY <2>2, <3>1 DEF IntentsCohere, Accept, CitesItsDecision, vars
    <2>3. ASSUME UNCHANGED vars, NEW i \in Intent, intents' = [intents EXCEPT ![i] = Null]
          PROVE  LET decision == ledger'[intents'[j].evidence]
                 IN /\ decision # Null
                    /\ decision.slot = intents'[j].slot
                    /\ decision.content.digest = intents'[j].digest
      <3>1. j # i /\ intents'[j] = intents[j]
        BY <2>3 DEF IntentTypeOK
      <3>. QED
        BY <2>3, <3>1 DEF IntentsCohere, vars
    <2>. QED
      BY <2>1, <2>2, <2>3, IntentStepKinds
  <1>. QED
    BY <1>1, <1>2, IntentTyping, IntentsLeaveLedger, LedgerInvariant, PTL DEF IntentSpec, Spec

-----------------------------------------------------------------------------
(* A known post keeps its row and identity, and is never recorded as failed. *)
THEOREM KnownPostsAreKept == IntentSpec => KnownPostIsKept
  <1>1. ASSUME IntentTypeOK, [IntentNext]_intentVars, NEW j \in Intent,
               intents[j] # Null, intents[j].post # Null
        PROVE  IF intents'[j] = Null
               THEN intents[j].phase = "published"
               ELSE /\ intents'[j].post = intents[j].post
                    /\ SameIdentity(intents[j], intents'[j])
                    /\ intents'[j].phase \in {"published", "unknown"}
    <2> USE IntentAssumption
    <2>0. intents[j] \in IntentRow /\ intents[j].phase \in {"published", "unknown"}
      BY <1>1 DEF IntentTypeOK
    <2>1. CASE UNCHANGED intents
      BY <1>1, <2>0, <2>1 DEF SameIdentity
    <2>2. ASSUME NEW i \in Intent, NEW r \in IntentRow, Accept(i, r),
                 intents[i] # Null => MayBecome(intents[i], r)
          PROVE  /\ intents'[j] # Null
                 /\ intents'[j].post = intents[j].post
                 /\ SameIdentity(intents[j], intents'[j])
                 /\ intents'[j].phase \in {"published", "unknown"}
      BY <1>1, <2>0, <2>2 DEF Accept, MayBecome, SameIdentity, WellShaped, IntentTypeOK
    <2>3. ASSUME NEW i \in Intent, intents[i] # Null, Deletable(intents[i]),
                 intents' = [intents EXCEPT ![i] = Null]
          PROVE  IF intents'[j] = Null
                 THEN intents[j].phase = "published"
                 ELSE intents'[j] = intents[j]
      <3>1. CASE j = i
        BY <1>1, <2>0, <2>3, <3>1 DEF Deletable, OpenPhase, IntentTypeOK
      <3>2. CASE j # i
        BY <1>1, <2>3, <3>2 DEF IntentTypeOK
      <3>. QED
        BY <3>1, <3>2
    <2>. QED
      BY <1>1, <2>0, <2>1, <2>2, <2>3, IntentStepKinds DEF SameIdentity
  <1>2. IntentTypeOK /\ [IntentNext]_intentVars =>
          [\A i \in Intent : intents[i] # Null /\ intents[i].post # Null =>
             IF intents'[i] = Null
             THEN intents[i].phase = "published"
             ELSE /\ intents'[i].post = intents[i].post
                  /\ SameIdentity(intents[i], intents'[i])
                  /\ intents'[i].phase \in {"published", "unknown"}]_intentVars
    BY <1>1
  <1>. QED
    BY <1>2, IntentTyping, PTL DEF IntentSpec, KnownPostIsKept

(* An open intent leaves its slot only when its own row is closed. *)
THEOREM SlotsAreReleasedByOutcome == IntentSpec => SlotReleasedByOutcome
  <1>1. ASSUME IntentTypeOK, OneOpenIntent', [IntentNext]_intentVars, NEW i \in Intent, Open(i)
        PROVE  /\ intents'[i] # Null
               /\ intents'[i].slot = intents[i].slot
               /\ \A j \in Intent \ {i} :
                    Open(j)' /\ intents'[j].slot = intents[i].slot => ~Open(i)'
    <2>1. intents'[i] # Null /\ intents'[i].slot = intents[i].slot
      BY <1>1, IntentStepKinds, IntentAssumption
         DEF Accept, MayBecome, SameIdentity, Deletable, Open, IntentTypeOK
    <2>. QED
      BY <1>1, <2>1 DEF OneOpenIntent
  <1>2. IntentTypeOK /\ OneOpenIntent' /\ [IntentNext]_intentVars =>
          [\A i \in Intent : Open(i) =>
             /\ intents'[i] # Null
             /\ intents'[i].slot = intents[i].slot
             /\ \A j \in Intent \ {i} :
                  Open(j)' /\ intents'[j].slot = intents[i].slot => ~Open(i)']_intentVars
    BY <1>1
  <1>. QED
    BY <1>2, IntentTyping, SlotIsExclusive, PTL DEF IntentSpec, SlotReleasedByOutcome
=============================================================================
