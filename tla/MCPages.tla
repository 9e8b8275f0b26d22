-------------------------------- MODULE MCPages --------------------------------
(* What the dashboard's pages do that shares no state: the ad index with its posters
   and final cuts, the founder's session with its step-up prompts, and the Ask Allen
   page.  Their steps commute, so each is explored alone: `part` says which one runs,
   and the others stay in one initial state.                                        *)
EXTENDS MCAdIndex

CONSTANTS
  e1, e2, k1, founder,
  Email, Principal, Secret, Config, Write, Window, MaxTime,
  Message, Memory, Brand, MaxTurns, MaxCalls

VARIABLES
  part,
  now, config, logins, session, stepups, write, waiter, popup, busy, minting, overtaken, admitted,
  turns, chatting, dormant, brand, shown, voice, calls, table, meetings, said, crossed

Founders == <<[email |-> e1, principal |-> Null], [email |-> e1, principal |-> founder]>>
Configurations ==
  {[allowed |-> {e1, e2}, founders |-> Founders, secret |-> Null, stepUp |-> TRUE],
   [allowed |-> {e1}, founders |-> <<>>, secret |-> k1, stepUp |-> FALSE]}
Access == INSTANCE Sessions
Allen == INSTANCE AskAllen WITH busy <- chatting

-----------------------------------------------------------------------------
PagesInit ==
  /\ part \in {"ads", "access", "allen"}
  /\ Init /\ Access!Init /\ Allen!Init
  /\ part # "access" => config.stepUp
  /\ part # "allen" => dormant
  /\ part # "ads" => configured = {}

accessVars == <<now, config, logins, session, stepups, write, waiter, popup, busy, minting,
                overtaken, admitted>>
allenVars  == <<turns, chatting, dormant, brand, shown, voice, calls, table, meetings, said, crossed>>

PagesNext ==
  /\ UNCHANGED part
  /\ \/ part = "ads" /\ Next /\ UNCHANGED <<accessVars, allenVars>>
     \/ part = "access" /\ Access!Next /\ UNCHANGED <<vars, allenVars>>
     \/ part = "allen" /\ Allen!Next /\ UNCHANGED <<vars, accessVars>>

PagesSpec == PagesInit /\ [][PagesNext]_<<part, vars, accessVars, allenVars>>

-----------------------------------------------------------------------------
(* The properties Sessions and AskAllen state, of this run's states; each is described
   where its module states it.                                                       *)
AuthorityIsProven    == Access!AuthorityIsProven
NobodyHangs          == Access!NobodyHangs
ReplyFollowsQuestion == Allen!ReplyFollowsQuestion
ListIsCurrent        == Allen!ListIsCurrent
=============================================================================
