---------------------------- MODULE MCEvidenceLedger ----------------------------
(* Inputs for checking EvidenceLedger, in two parts, of which `part` says the one that
   runs: "chain" has decisions of one subject in two scopes, enough of them for a chain
   with a middle; "cited" has two rows, signed, legacy and incoherent ones of two
   subjects, with transitions of one of them that cite them.                         *)
EXTENDS EvidenceLedger, TLC

CONSTANTS s1, web, k1

VARIABLE part

Approval == [decision |-> "approved", noted |-> FALSE, role |-> "founder", human |-> TRUE,
             decided |-> TRUE, digest |-> "bound", package |-> TRUE,
             assertion |-> [key |-> k1, id |-> 1]]
Withdrawal == [decision |-> "withdrawn", noted |-> FALSE, role |-> "operator", human |-> TRUE,
               decided |-> TRUE, digest |-> "bound", package |-> FALSE, assertion |-> Null]
LegacyClaim == [Withdrawal EXCEPT !.decision = "approved", !.role = Legacy]
Backfilled  == [LegacyClaim EXCEPT !.digest = Unbound, !.decided = FALSE]

AllContents   == {Withdrawal, Approval, Backfilled, LegacyClaim}
EveryCitation == [subject : {s1}, evidence : Row]
OneTime       == {1}

-----------------------------------------------------------------------------
Chain == INSTANCE EvidenceLedger WITH
  Subject <- {s1}, Content <- {Withdrawal}, Transition <- {}

Cited == INSTANCE EvidenceLedger WITH
  Scope <- {web}, Content <- AllContents \ {Withdrawal}, MaxSeq <- 1

InUse == {e \in Row : ledger[e] # Null} \cup UNION {touched[t] : t \in Tx}

LedgersInit == part \in {"chain", "cited"} /\ Init

LedgersNext ==
  /\ UNCHANGED part
  /\ \/ part = "chain" /\ Chain!Next
     \/ part = "cited" /\ Cited!Next /\ Cardinality(InUse') <= 2

LedgersSpec == LedgersInit /\ [][LedgersNext]_<<part, vars>>

LedgerSymmetry == Permutations(Row) \cup Permutations(Tx)
=============================================================================
