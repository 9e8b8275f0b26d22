---------------------------- MODULE EvidenceLedger ----------------------------
(***************************************************************************)
(* The governance ledger of packages/db/drizzle/0024_governance_primitives  *)
(* .sql: signing_keys, approval_evidence and workflow_transitions with the  *)
(* constraints, unique indexes and triggers Postgres enforces on them.      *)
(*                                                                         *)
(* A client is any transaction issuing any statements: what the database    *)
(* refuses is not enabled (the client then rolls back), what waits for      *)
(* another transaction's row lock or index entry is not enabled until that  *)
(* one ends.  Deferred triggers run at COMMIT.                              *)
(***************************************************************************)
EXTENDS Integers, FiniteSets

CONSTANTS
  Row,         \* approval_evidence ids
  Subject,     \* (subject_type, subject_id) pairs
  Scope,
  Content,     \* the decisions, attributions and assertions clients submit
  Transition,  \* the workflow transitions clients record
  MaxSeq,      \* bound of the decision_seq column (2^53 - 1 in the CHECK)
  Tx,          \* database sessions, each with at most one open transaction
  SigningKey,
  Time,        \* the clock readings lifecycle columns may carry
  Null

Decision  == {"approved", "approved_with_note", "rejected", "revision_required", "withdrawn"}
Positive  == {"approved", "approved_with_note"}
Unbound   == "legacy:unbound"
Legacy    == "legacy-unattributed"
Assertion == [key : SigningKey, id : Nat]
AnyContent == [decision : Decision, noted : BOOLEAN, role : {"founder", "operator", Legacy},
               human : BOOLEAN, decided : BOOLEAN, digest : {Unbound, "bound"},
               package : BOOLEAN, assertion : Assertion \cup {Null}]

Slot     == [subject : Subject, scope : Scope]
Evidence == [slot : Slot, seq : 0 .. MaxSeq, content : Content,
             superseded : BOOLEAN, by : Row \cup {Null}]
Citation == [subject : Subject, evidence : Row \cup {Null}]
KeyRow   == [activated : Time, revoked : Time \cup {Null}]

ASSUME LedgerAssumption ==
  /\ MaxSeq \in Nat
  /\ Time \subseteq Nat
  /\ Content \subseteq AnyContent
  /\ Transition \subseteq Citation
  /\ Null \notin Row \cup Evidence \cup Assertion \cup Time \cup KeyRow

VARIABLES
  ledger,    \* committed approval_evidence
  log,       \* committed workflow_transitions (subject and cited evidence)
  keys,      \* committed signing_keys
  touched,   \* per session: the evidence rows it inserted or updated (and locks)
  mine,      \* per session: its versions of those rows
  cites      \* per session: the transitions it inserted

vars == <<ledger, log, keys, touched, mine, cites>>

TypeOK ==
  /\ ledger \in [Row -> Evidence \cup {Null}]
  /\ log \subseteq Transition
  /\ keys \in [SigningKey -> KeyRow \cup {Null}]
  /\ touched \in [Tx -> SUBSET Row]
  /\ mine \in [Tx -> [Row -> Evidence \cup {Null}]]
  /\ cites \in [Tx -> SUBSET Transition]
  /\ \A t \in Tx : \A e \in Row : e \in touched[t] <=> mine[t][e] # Null

-----------------------------------------------------------------------------
(* The rows a statement of session t sees: committed ones and its own. *)
View(t) == [e \in Row |-> IF e \in touched[t] THEN mine[t][e] ELSE ledger[e]]

Present(t) == {e \in Row : View(t)[e] # Null}

(* The versions a unique index holds an entry for, as session t meets them: an
   entry of another session's uncommitted version makes t wait, which rules the
   statement out just as a committed duplicate does.                          *)
Indexed(t, e) == {View(t)[f] : f \in Present(t) \ {e}}
                 \cup UNION {{mine[u][f] : f \in touched[u]} : u \in Tx \ {t}}

(* What approval_evidence_live, _seq and _assertion keep apart. *)
SameSlotLive(r, x) == r.slot = x.slot /\ ~r.superseded /\ ~x.superseded
SameSlotSeq(r, x)  == r.slot = x.slot /\ r.seq = x.seq
SameAssertion(r, x) == /\ r.content.assertion # Null
                       /\ r.content.assertion = x.content.assertion

Conflict(r, x) == SameSlotLive(r, x) \/ SameSlotSeq(r, x) \/ SameAssertion(r, x)

UniqueAsRead(t, e, r) == \A f \in Present(t) \ {e} : ~Conflict(r, View(t)[f])
Unique(t, e, r)       == \A x \in Indexed(t, e) : ~Conflict(r, x)

(* The CHECK constraints of approval_evidence. *)
Coherent(c) ==
  /\ c.decision = "approved_with_note" => c.noted
  /\ c.role = "founder" => c.human
  /\ c.decided \/ c.role = Legacy
  /\ c.decision \in Positive => c.package \/ (c.role = Legacy /\ c.digest = Unbound)

References(t, e, r) ==
  /\ r.by # Null => r.by \in Present(t) \cup {e}
  /\ r.content.assertion # Null => keys[r.content.assertion.key] # Null

(* approval_evidence_immutable, the BEFORE UPDATE trigger. *)
ImmutableButRepointable(old, new) ==
  /\ old.superseded => new.superseded
  /\ new.by # Null => new.superseded
Immutable(old, new) ==
  /\ old.superseded => new.superseded
  /\ new.by # Null => new.superseded
  /\ old.by # Null => new.by = old.by

(* approval_evidence_supersession_complete, the deferred trigger: it re-reads
   the row and its successor as they are at COMMIT.                           *)
CompleteUnordered(view, e) ==
  /\ ~view[e].superseded => view[e].by = Null
  /\ view[e].superseded => /\ view[e].by # Null
                           /\ view[e].by # e
                           /\ view[view[e].by].slot = view[e].slot
Complete(view, e) ==
  LET cur == view[e]
  IN /\ ~cur.superseded => cur.by = Null
     /\ cur.superseded => /\ cur.by # Null
                          /\ cur.by # e
                          /\ view[cur.by].slot = cur.slot
                          /\ view[cur.by].seq > cur.seq

(* workflow_transitions_evidence_coherent. *)
CitesAnything(t, w) == w.evidence # Null => w.evidence \in Present(t)
CitesOwnSubject(t, w) ==
  w.evidence # Null => /\ w.evidence \in Present(t)
                       /\ View(t)[w.evidence].slot.subject = w.subject

(* signing_keys: the CHECKs on one row, and signing_keys_append_only. *)
Interval(k) == k.revoked # Null => k.revoked >= k.activated
KeyMayBecome(old, new) ==
  /\ new.activated = old.activated
  /\ old.revoked # Null => new.revoked = old.revoked

-----------------------------------------------------------------------------
Init ==
  /\ ledger = [e \in Row |-> Null]
  /\ log = {}
  /\ keys = [k \in SigningKey |-> Null]
  /\ touched = [t \in Tx |-> {}]
  /\ mine = [t \in Tx |-> [e \in Row |-> Null]]
  /\ cites = [t \in Tx |-> {}]

Write(t, e, r) == /\ touched' = [touched EXCEPT ![t] = @ \cup {e}]
                  /\ mine' = [mine EXCEPT ![t][e] = r]
                  /\ UNCHANGED <<ledger, log, keys, cites>>

(* INSERT: gen_random_uuid never repeats an id, committed or not. *)
Insert(t, e, r) ==
  /\ ledger[e] = Null
  /\ \A u \in Tx : e \notin touched[u]
  /\ Coherent(r.content)
  /\ References(t, e, r)
  /\ Unique(t, e, r)
  /\ Write(t, e, r)

(* UPDATE of the supersession columns; every other column is frozen. *)
Supersede(t, e, sup, by) ==
  LET old == View(t)[e]
      new == [old EXCEPT !.superseded = sup, !.by = by]
  IN /\ e \in Present(t)
     /\ \A u \in Tx \ {t} : e \notin touched[u]
     /\ Immutable(old, new)
     /\ References(t, e, new)
     /\ Unique(t, e, new)
     /\ Write(t, e, new)

(* recordWorkflowTransition, called with the transaction of the change. *)
RecordTransition(t, w) ==
  /\ CitesOwnSubject(t, w)
  /\ cites' = [cites EXCEPT ![t] = @ \cup {w}]
  /\ UNCHANGED <<ledger, log, keys, touched, mine>>

EndTx(t) == /\ touched' = [touched EXCEPT ![t] = {}]
            /\ mine' = [mine EXCEPT ![t] = [e \in Row |-> Null]]
            /\ cites' = [cites EXCEPT ![t] = {}]

Commit(t) ==
  /\ \A e \in touched[t] : Complete(View(t), e)
  /\ ledger' = View(t)
  /\ log' = log \cup cites[t]
  /\ EndTx(t)
  /\ UNCHANGED keys

(* A refused statement or COMMIT, a lost connection, a deadlock victim. *)
Rollback(t) == EndTx(t) /\ UNCHANGED <<ledger, log, keys>>

(* signing_keys rows are written by statements of their own. *)
RegisterKey(k, new) ==
  /\ keys[k] = Null
  /\ Interval(new)
  /\ keys' = [keys EXCEPT ![k] = new]
  /\ UNCHANGED <<ledger, log, touched, mine, cites>>

UpdateKey(k, new) ==
  /\ keys[k] # Null
  /\ Interval(new)
  /\ KeyMayBecome(keys[k], new)
  /\ keys' = [keys EXCEPT ![k] = new]
  /\ UNCHANGED <<ledger, log, touched, mine, cites>>

Next ==
  \/ \E t \in Tx :
       \/ \E e \in Row, r \in Evidence : Insert(t, e, r)
       \/ \E e \in Row, sup \in BOOLEAN, by \in Row \cup {Null} : Supersede(t, e, sup, by)
       \/ \E w \in Transition : RecordTransition(t, w)
       \/ Commit(t)
       \/ Rollback(t)
  \/ \E k \in SigningKey, new \in KeyRow : RegisterKey(k, new) \/ UpdateKey(k, new)

Spec == Init /\ [][Next]_vars
-----------------------------------------------------------------------------
Recorded == {e \in Row : ledger[e] # Null}
Live(e)  == ledger[e] # Null /\ ~ledger[e].superseded

(* Every slot with a history has a live decision, only one, and it is the one
   with the highest ordinal: supersession never leaves a subject undecided,
   never doubly decided, and a late delivery never wins over a newer decision.
   No single rule says so; the index, both triggers and the CHECKs together do. *)
OneLiveAndNewest ==
  \A e \in Recorded : \E f \in Recorded :
    /\ Live(f)
    /\ ledger[f].slot = ledger[e].slot
    /\ ledger[f].seq >= ledger[e].seq
    /\ \A g \in Recorded : Live(g) /\ ledger[g].slot = ledger[e].slot => g = f

(* A signed assertion is recorded at most once, also by concurrent deliveries. *)
AssertionsUnique ==
  \A e, f \in Recorded : SameAssertion(ledger[e], ledger[f]) => e = f

(* A committed transition cites committed evidence about its own subject. *)
TransitionsCohere ==
  \A w \in log : w.evidence # Null =>
    w.evidence \in Recorded /\ ledger[w.evidence].slot.subject = w.subject

(* History is kept: a committed row keeps everything but its supersession, and
   a superseded row never comes back nor changes its successor.               *)
HistoryIsKept ==
  [][\A e \in Recorded :
       /\ ledger'[e] # Null
       /\ ledger'[e].slot = ledger[e].slot
       /\ ledger'[e].seq = ledger[e].seq
       /\ ledger'[e].content = ledger[e].content
       /\ ~Live(e) => ledger'[e] = ledger[e]]_vars

(* A slot's live decision is only ever replaced by one with a higher ordinal. *)
NewerReplaces ==
  [][\A e, f \in Row : Live(e) /\ Live(f)' /\ ledger'[f].slot = ledger[e].slot =>
       f = e \/ ledger'[f].seq > ledger[e].seq]_vars
=============================================================================
