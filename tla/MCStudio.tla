------------------------------- MODULE MCStudio -------------------------------
(* Parts of the studio that share no state: the pinned final video of a production, the
   renders of one video, a b-roll scene and the word art plan.  Their steps commute, so
   each is explored alone: `part` says which one runs, and the others stay in one
   initial state.                                                                    *)
EXTENDS FinalVideoPin, Integers, Sequences, FiniteSets

CONSTANTS
  Null, Request, Scene, Take, Provider,          \* of VideoRenders and BrollScenes
  Transcripts, Hints, Proposals, Threshold, MinConfidence, Weight, MinReadable, MinSpacing,
  Profiles, Targets, Placings                           \* of WordArt

VARIABLES
  part,
  rows, job, rendering, req, files, spent, killed, raced, restarts,
  scenes, library, jobs, sceneReq, dropped, stale, overwrote, orphaned,
  transcript, notes, events, order, status, requests, results

Videos == INSTANCE VideoRenders WITH
  Video <- {"v1"}, Production <- {"p1"}, File <- {"f1", "f2"}, Polled <- {"heygen"},
  Background <- {"custom"}, Ready <- {"stock"}, MaxRestarts <- 1

Broll == INSTANCE BrollScenes WITH req <- sceneReq

Art == INSTANCE WordArt
ASSUME ArtAssumption == Art!ConstantsTyped

(* What this run gives the word art pipeline. *)
First  == [start : {0}, duration : {2}, keyword : BOOLEAN, loud : {FALSE}, short : {TRUE}]
Second == [start : {1, 3, 4}, duration : {1}, keyword : BOOLEAN, loud : {TRUE}, short : {TRUE}]
TwoSegments == {<<a, b>> : a \in First, b \in Second}
FourHints   == [hint : {0, 100}, confidence : {20, 80}]
Before  == [start : {0}, duration : {2}, score : {50}, cinematic : BOOLEAN]
Between == [start : {2}, duration : {1}, score : {50}, cinematic : BOOLEAN]
After   == [start : {2, 4}, duration : {0, 1}, score : {50, 110}, cinematic : {TRUE}]
Last    == [start : {3, 4}, duration : {1}, score : {50}, cinematic : {TRUE}]
ProposedPlans ==
  {[events |-> <<a, b>>, order |-> o] : a \in Before, b \in After,
     o \in {<<1, 2>>, <<2, 1>>, <<1, 2, 1>>, <<1, 3>>}}
  \cup {[events |-> <<a, b, c>>, order |-> <<1, 2, 3>>] : a \in Before, b \in Between, c \in Last}
OneProfile == {[scalePeak |-> [in |-> <<40, 70>>, out |-> <<100, 120>>],
                blurInitial |-> [in |-> <<90, 90>>, out |-> <<8, 0>>]]}

-----------------------------------------------------------------------------
StudioInit ==
  /\ part \in {"pin", "videos", "broll", "art"}
  /\ Init /\ Videos!Init /\ Broll!Init /\ Art!Init
  /\ part # "art" => transcript[1].keyword /\ transcript[2].keyword /\ transcript[2].start = 4

videosVars == <<rows, job, rendering, req, files, spent, killed, raced, restarts>>
brollVars  == <<scenes, library, jobs, sceneReq, dropped, stale, overwrote, orphaned>>
artVars    == <<transcript, notes, events, order, status, requests, results>>
studioVars == <<part, vars, videosVars, brollVars, artVars>>

StudioNext ==
  /\ UNCHANGED part
  /\ \/ part = "pin" /\ Next /\ UNCHANGED <<videosVars, brollVars, artVars>>
     \/ part = "videos" /\ Videos!Next /\ UNCHANGED <<vars, brollVars, artVars>>
     \/ part = "broll" /\ Broll!Next /\ UNCHANGED <<vars, videosVars, artVars>>
     \/ part = "art" /\ Art!Next /\ UNCHANGED <<vars, videosVars, brollVars>>

(* Fairness is assumed of the renders alone, see VideoRenders; where they stay in their
   initial state it asks for nothing, since none of its actions is enabled there.     *)
StudioSpec == StudioInit /\ [][StudioNext]_studioVars /\ Videos!Fairness

-----------------------------------------------------------------------------
(* The properties the parts state, of this run's states; each is described where its
   module states it.  PinIsOwned is FinalVideoPin's own.                            *)
EveryRenderIsTold  == Videos!EveryRenderIsTold
TakesAreReal       == Broll!TakesAreReal
OnlyOverwritesLose == Broll!OnlyOverwritesLose
LibraryIsApproved  == Broll!LibraryIsApproved
PlacedApart        == Art!PlacedApart
EvidenceOnlyBlends == Art!EvidenceOnlyBlends
=============================================================================
