------------------------------- MODULE MCRenders -------------------------------
(* Three parts of the gateway that share no state: a production from its script to the
   paid call, buying a render from HeyGen at most once, and the rows that follow renders
   from then on.  Their steps commute, so each is explored alone: `part` says which one
   runs, and the others stay in one initial state.                                   *)
EXTENDS HeyGenSubmission, FiniteSets, TLC

CONSTANTS
  Video, Production, Request, File, Polled, Background, Ready, MaxRestarts,
  Text, Asset, ScriptFile, Library

VARIABLES
  part,
  rows, job, rendering, req, files, spent, killed, raced, restarts,
  prod, assets, drive, scriptReq, earned, removed, named, used, disturbed

Videos == INSTANCE VideoRenders

Script == INSTANCE ScriptPipeline WITH
  File <- ScriptFile, files <- drive, spent <- used, req <- scriptReq

-----------------------------------------------------------------------------
RendersInit ==
  /\ part \in {"submission", "videos", "script"}
  /\ Init /\ Videos!Init /\ Script!Init

videosVars == <<rows, job, rendering, req, files, spent, killed, raced, restarts>>
scriptVars == <<prod, assets, drive, scriptReq, earned, removed, named, used, disturbed>>
rendersVars == <<part, vars, videosVars, scriptVars>>

RendersNext ==
  /\ UNCHANGED part
  /\ \/ part = "submission" /\ Next /\ UNCHANGED <<videosVars, scriptVars>>
     \/ part = "videos" /\ Videos!Next /\ UNCHANGED <<vars, scriptVars>>
     \/ part = "script" /\ Script!Next /\ UNCHANGED <<vars, videosVars>>

RendersSpec == RendersInit /\ [][RendersNext]_rendersVars

RendersSymmetry ==
  Permutations(Request) \cup Permutations(Video) \cup Permutations(Text) \cup Permutations(Asset)

-----------------------------------------------------------------------------
(* The properties the parts state of renders and of scripts, of this run's states; each is
   described where its module states it.                                             *)
RowTellsTheTruth     == Videos!RowTellsTheTruth
OneApproved          == Videos!OneApproved
AcceptedStands       == Script!AcceptedStands
StageIsEarned        == Script!StageIsEarned
AssetsAreBacked      == Script!AssetsAreBacked
=============================================================================
