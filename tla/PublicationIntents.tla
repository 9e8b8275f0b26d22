-------------------------- MODULE PublicationIntents --------------------------
(***************************************************************************)
(* The publication_intents table of 0024_governance_primitives.sql beside   *)
(* the ledger its rows cite.  A row holds the slot (subject, scope) while a *)
(* post may be on its way out.                                              *)
(*                                                                         *)
(* Each action is one statement in a transaction of its own: every guard    *)
(* reads the row itself, the open-intent index or committed evidence, and   *)
(* nothing here is deferred to COMMIT.                                      *)
(***************************************************************************)
EXTENDS EvidenceLedger

CONSTANTS
  Intent,      \* publication_intents ids
  Post         \* remote post ids

VARIABLE
  intents      \* the publication_intents rows

intentVars == <<vars, intents>>

OpenPhase == {"claimed", "transmitting", "unknown"}
Phase     == OpenPhase \cup {"published", "failed"}
IntentRow == [slot : Slot, evidence : Row, digest : {Unbound, "bound"},
              phase : Phase, post : Post \cup {Null}]

ASSUME IntentAssumption == Null \notin Post \cup IntentRow

IntentTypeOK ==
  /\ intents \in [Intent -> IntentRow \cup {Null}]
  /\ \A i \in Intent : intents[i] # Null =>
       /\ intents[i].post # Null => intents[i].phase \in {"published", "unknown"}
       /\ intents[i].phase = "published" => intents[i].post # Null

Open(i) == intents[i] # Null /\ intents[i].phase \in OpenPhase

-----------------------------------------------------------------------------
(* The two CHECKs between the phase and the remote post id. *)
WellShaped(r) == /\ r.phase = "published" => r.post # Null
                 /\ r.post # Null => r.phase \in {"published", "unknown"}

(* publication_intents_open. *)
SlotFreeOfTransit(i, r) ==
  r.phase \in OpenPhase =>
    \A j \in Intent \ {i} : Open(j) /\ intents[j].phase # "unknown" => intents[j].slot # r.slot
SlotFree(i, r) ==
  r.phase \in OpenPhase =>
    \A j \in Intent \ {i} : Open(j) => intents[j].slot # r.slot

(* publication_intents_evidence_coherent, BEFORE INSERT OR UPDATE. *)
CitesExisting(r) == ledger[r.evidence] # Null
CitesItsDecision(r) ==
  /\ ledger[r.evidence] # Null
  /\ ledger[r.evidence].slot = r.slot
  /\ ledger[r.evidence].content.digest = r.digest

(* publication_intents_transition_guard, BEFORE UPDATE. *)
SameIdentity(old, new) ==
  <<new.slot, new.evidence, new.digest>> = <<old.slot, old.evidence, old.digest>>
KeepsIdentityOnly(old, new) == SameIdentity(old, new)
MayBecome(old, new) == /\ old.post # Null => new.post = old.post
                       /\ SameIdentity(old, new)

(* publication_intents_no_open_delete, BEFORE DELETE. *)
Deletable(r) == r.phase \notin OpenPhase

-----------------------------------------------------------------------------
IntentInit == Init /\ intents = [i \in Intent |-> Null]

Accept(i, r) == /\ CitesItsDecision(r)
                /\ WellShaped(r)
                /\ SlotFree(i, r)
                /\ intents' = [intents EXCEPT ![i] = r]
                /\ UNCHANGED vars

InsertIntent(i, r) == intents[i] = Null /\ Accept(i, r)

UpdateIntent(i, r) == /\ intents[i] # Null
                      /\ MayBecome(intents[i], r)
                      /\ Accept(i, r)

DeleteIntent(i) == /\ intents[i] # Null
                   /\ Deletable(intents[i])
                   /\ intents' = [intents EXCEPT ![i] = Null]
                   /\ UNCHANGED vars

IntentNext ==
  \/ Next /\ UNCHANGED intents
  \/ \E i \in Intent :
       \/ \E r \in IntentRow : InsertIntent(i, r) \/ UpdateIntent(i, r)
       \/ DeleteIntent(i)

IntentSpec == IntentInit /\ [][IntentNext]_intentVars
-----------------------------------------------------------------------------
(* Every intent, open or closed, cites committed evidence about its own slot and
   revision, whatever the ledger's transactions did since the intent was made. *)
IntentsCohere ==
  \A i \in Intent : intents[i] # Null =>
    LET decision == ledger[intents[i].evidence]
    IN /\ decision # Null
       /\ decision.slot = intents[i].slot
       /\ decision.content.digest = intents[i].digest

(* A post known to exist is never forgotten while it may be out: its row keeps
   the id and the identity, is never recorded as failed, and goes away only once
   it is recorded as published.                                               *)
KnownPostIsKept ==
  [][\A i \in Intent : intents[i] # Null /\ intents[i].post # Null =>
       IF intents'[i] = Null
       THEN intents[i].phase = "published"
       ELSE /\ intents'[i].post = intents[i].post
            /\ SameIdentity(intents[i], intents'[i])
            /\ intents'[i].phase \in {"published", "unknown"}]_intentVars

(* A held slot is given up only by recording how its own publication ended: no
   cleanup removes the row, no edit moves it, and none lets another one in.    *)
SlotReleasedByOutcome ==
  [][\A i \in Intent : Open(i) =>
       /\ intents'[i] # Null
       /\ intents'[i].slot = intents[i].slot
       /\ \A j \in Intent \ {i} :
            Open(j)' /\ intents'[j].slot = intents[i].slot => ~Open(i)']_intentVars
=============================================================================
