------------------------ MODULE MCPublicationIntents ------------------------
(* Inputs for checking PublicationIntents: decisions with a revision digest and
   backfilled ones without, in two scopes.                                     *)
EXTENDS PublicationIntents, TLC

Decided == [decision |-> "rejected", noted |-> FALSE, role |-> "operator", human |-> TRUE,
            decided |-> TRUE, digest |-> "bound", package |-> FALSE, assertion |-> Null]
Backfilled == [Decided EXCEPT !.decision = "approved", !.role = Legacy, !.digest = Unbound,
                              !.decided = FALSE]

TwoContents   == {Decided, Backfilled}
NoTransitions == {}
OneTime       == {1}

IntentSymmetry == Permutations(Intent) \cup Permutations(Row) \cup Permutations(Post)
=============================================================================
