------------------------------- MODULE AskAllen -------------------------------
(* The Ask ALLEN panel of the dashboard (AskAllen.tsx) and the routes behind it
   (server.ts): a conversation kept in the page, a gate that puts ALLEN to sleep, a
   microphone, and the memories the gateway stores.

   The handlers of a page close over the state of the render that made them: what the
   microphone heard is handled, when the transcript arrives, with the turns, the gate
   and the brand of the moment recording began.  A chat in flight writes the
   conversation it was started with, whatever the page shows by then.              *)
EXTENDS Naturals, Sequences, FiniteSets

CONSTANTS
  Message,      \* what can be said, each once
  Memory,       \* ids of memories
  Brand,
  MaxTurns,     \* bound on the conversation
  MaxCalls,     \* bound on the requests in flight
  Null

VARIABLES
  turns,        \* the conversation: <<"user" | "reply", message>>
  busy, dormant, brand,
  shown,        \* the memories the page lists
  voice,        \* what the microphone's handler closed over, or Null
  calls,        \* requests in flight
  table,        \* allen_memories: id -> brand, Null for a memory of no brand
  meetings,     \* the transcripts saved
  said,         \* history: messages that were sent
  crossed       \* history: requests overlapped, the brand changed under one, or one failed

vars == <<turns, busy, dormant, brand, shown, voice, calls, table, meetings, said, crossed>>
chat == <<turns, busy, dormant, voice, said>>
store == <<table, meetings>>

Turn == {"user", "reply"} \X Message
Table == UNION {[M -> Brand \cup {Null}] : M \in SUBSET Memory}

TypeOK ==
  /\ turns \in Seq(Turn) /\ busy \in BOOLEAN /\ dormant \in BOOLEAN
  /\ brand \in Brand \cup {Null} /\ shown \subseteq Memory /\ table \in Table
  /\ meetings \in 0 .. 1 /\ said \subseteq Message /\ crossed \in BOOLEAN

Init ==
  /\ turns = <<>> /\ busy = FALSE /\ dormant \in BOOLEAN /\ brand = Null
  /\ table = [m \in {} |-> Null] /\ shown = {} /\ voice = Null /\ calls = {}
  /\ meetings = 0 /\ said = {} /\ crossed = FALSE

-----------------------------------------------------------------------------
(* GET /allen/memory: a brand sees its own memories and those of no brand. *)
View(b) == {m \in DOMAIN table : b = Null \/ table[m] \in {b, Null}}

(* A request leaves the page. *)
Send(call) ==
  /\ Cardinality(calls) < MaxCalls /\ calls' = calls \cup {call}
  /\ crossed' = (crossed \/ calls # {})
Answered(call) == calls' = calls \ {call}
List(b) == [kind |-> "list", brand |-> b, step |-> "sent"]

-----------------------------------------------------------------------------
(* runChat: the message joins the given conversation, and that is what the page shows.
   A message is refused when the caller's render was busy.                          *)
RunChat(m, base, b, wasBusy) ==
  /\ ~wasBusy /\ m \notin said /\ Len(base) + 2 <= MaxTurns
  /\ said' = said \cup {m}
  /\ turns' = Append(base, <<"user", m>>) /\ busy' = TRUE
  /\ Send([kind |-> "chat", message |-> m, next |-> Append(base, <<"user", m>>),
           brand |-> b, step |-> "sent"])

(* A typed line or a starter: the gate lets only the wake phrase through. *)
Type(m, wakes) ==
  /\ ~dormant \/ wakes
  /\ dormant' = FALSE
  /\ RunChat(m, turns, brand, busy)
  /\ UNCHANGED <<brand, shown, voice, store>>

(* saveEditTurn: the thread again from an earlier message. *)
Rerun(m, i) ==
  /\ i \in DOMAIN turns /\ turns[i][1] = "user"
  /\ RunChat(m, SubSeq(turns, 1, i - 1), brand, busy)
  /\ UNCHANGED <<dormant, brand, shown, voice, store>>

ToggleGate ==
  /\ dormant' = ~dormant
  /\ UNCHANGED <<turns, busy, brand, shown, voice, calls, store, said, crossed>>

(* toggleMic; stopping and transcribing change nothing the handler reads. *)
Record ==
  /\ voice = Null /\ ~busy
  /\ voice' = [turns |-> turns, dormant |-> dormant, brand |-> brand]
  /\ UNCHANGED <<turns, busy, dormant, brand, shown, calls, store, said, crossed>>

(* routeVoiceText: the halt phrase closes the gate; asleep, only the wake phrase counts,
   alone or with a question; too short a recording or a failure ends it.             *)
Heard(m, wakes) ==
  /\ voice # Null /\ voice' = Null
  /\ ~voice.dormant \/ wakes
  /\ dormant' = IF voice.dormant THEN FALSE ELSE dormant
  /\ RunChat(m, voice.turns, voice.brand, FALSE)
  /\ UNCHANGED <<brand, shown, store>>
HeardNoQuestion ==
  /\ voice # Null /\ voice' = Null
  /\ dormant' \in {dormant, TRUE} \cup (IF voice.dormant THEN {FALSE} ELSE {})
  /\ UNCHANGED <<turns, busy, brand, shown, calls, store, said, crossed>>

-----------------------------------------------------------------------------
(* The memory operations of a reply (applyMemoryOps), or of an edit: none or some of
   the table changes, and whether any did.                                          *)
Remembered(m, b) == m \notin DOMAIN table
                    /\ table' = [x \in DOMAIN table \cup {m} |-> IF x = m THEN b ELSE table[x]]
Rebranded(m, b)  == m \in DOMAIN table /\ table' = [table EXCEPT ![m] = b]
Forgotten(m)     == m \in DOMAIN table /\ table' = [x \in DOMAIN table \ {m} |-> table[x]]

MemoryOpSeldomReported(reported) ==
  \/ reported = FALSE /\ UNCHANGED table
  \/ \E m \in Memory, b \in Brand \cup {Null} :
       \/ reported = TRUE /\ (Remembered(m, b) \/ Rebranded(m, b))
       \/ reported = FALSE /\ Forgotten(m)
MemoryOp(reported) ==
  \/ reported = FALSE /\ UNCHANGED table
  \/ \E m \in Memory, b \in Brand \cup {Null} :
       reported = TRUE /\ (Remembered(m, b) \/ Rebranded(m, b) \/ Forgotten(m))

Serve(call, answer) ==
  /\ call.step = "sent"
  /\ calls' = (calls \ {call}) \cup {answer}
  /\ UNCHANGED <<chat, brand, shown, crossed>>

(* POST /allen/chat *)
ServeChat(call) ==
  /\ call.kind = "chat" /\ UNCHANGED meetings
  /\ \E reported \in BOOLEAN :
       /\ MemoryOp(reported)
       /\ Serve(call, [call EXCEPT !.step = IF reported THEN "remembered" ELSE "answered"])

(* GET /allen/memory *)
ServeList(call) ==
  /\ call.kind = "list"
  /\ Serve(call, [kind |-> "list", step |-> "answered", rows |-> View(call.brand)])
  /\ UNCHANGED store

(* POST, PUT and DELETE /allen/memory. *)
ServeMemory(call) ==
  /\ call.kind \in {"add", "edit", "remove"}
  /\ \/ call.kind = "add" /\ Remembered(call.memory, call.brand)
     \/ call.kind = "edit" /\ call.memory \in DOMAIN table /\ UNCHANGED table
     \/ call.kind = "remove"
        /\ (Forgotten(call.memory) \/ (call.memory \notin DOMAIN table /\ UNCHANGED table))
  /\ Serve(call, [call EXCEPT !.step = "answered"]) /\ UNCHANGED meetings

(* POST /allen/transcribe: the transcript is saved, then its highlights one by one. *)
ServeMeeting(call) ==
  /\ call.kind = "meeting" /\ meetings = 0 /\ meetings' = 1
  /\ \/ Serve(call, [call EXCEPT !.step = "answered"]) /\ UNCHANGED table
     \/ \E m \in Memory : Remembered(m, call.brand)
                          /\ Serve(call, [call EXCEPT !.step = "remembered"])

-----------------------------------------------------------------------------
(* The reply closes the conversation the chat was started with; when memories changed the
   page asks for the list again, of the brand the chat was started with.               *)
ReplyAppended(call) ==
  /\ call.kind = "chat" /\ call.step \in {"answered", "remembered"}
  /\ turns' = Append(turns, <<"reply", call.message>>) /\ busy' = FALSE
  /\ IF call.step = "remembered"
       THEN calls' = (calls \ {call}) \cup {List(call.brand)} ELSE Answered(call)
  /\ UNCHANGED <<dormant, brand, shown, voice, store, said, crossed>>
Reply(call) ==
  /\ call.kind = "chat" /\ call.step \in {"answered", "remembered"}
  /\ turns' = Append(call.next, <<"reply", call.message>>) /\ busy' = FALSE
  /\ IF call.step = "remembered"
       THEN calls' = (calls \ {call}) \cup {List(call.brand)} ELSE Answered(call)
  /\ UNCHANGED <<dormant, brand, shown, voice, store, said, crossed>>

MeetingSaved(call) ==
  /\ call.kind = "meeting" /\ call.step \in {"answered", "remembered"}
  /\ IF call.step = "remembered"
       THEN calls' = (calls \ {call}) \cup {List(call.brand)} ELSE Answered(call)
  /\ UNCHANGED <<chat, brand, shown, store, crossed>>

Listed(call) ==
  /\ call.kind = "list" /\ call.step = "answered" /\ Answered(call)
  /\ shown' = call.rows
  /\ UNCHANGED <<chat, brand, store, crossed>>

(* The list is changed in place by what the page itself added or removed. *)
MemorySaved(call) ==
  /\ call.kind \in {"add", "edit", "remove"} /\ call.step = "answered" /\ Answered(call)
  /\ shown' = CASE call.kind = "add" -> shown \cup {call.memory}
                [] call.kind = "edit" -> shown
                [] call.kind = "remove" -> shown \ {call.memory}
  /\ UNCHANGED <<chat, brand, store, crossed>>

(* A request or its answer is lost: an error is shown, and a chat is over. *)
Lost(call) ==
  /\ Answered(call) /\ crossed' = TRUE
  /\ busy' = IF call.kind = "chat" THEN FALSE ELSE busy
  /\ UNCHANGED <<turns, dormant, voice, said, brand, shown, store>>

(* Choosing a brand loads its list. *)
ChooseBrand(b) ==
  /\ b # brand /\ brand' = b
  /\ Cardinality(calls) < MaxCalls /\ calls' = calls \cup {List(b)}
  /\ crossed' = (crossed \/ calls # {} \/ voice # Null)
  /\ UNCHANGED <<chat, shown, store>>

ChangeMemory(kind, m) ==
  /\ kind = "add" => m \notin DOMAIN table
  /\ kind \in {"edit", "remove"} => m \in shown
  /\ Send([kind |-> kind, memory |-> m, brand |-> brand, step |-> "sent"])
  /\ UNCHANGED <<chat, brand, shown, store>>

(* toggleMeeting, from the end of its recording; its brand is that of the beginning. *)
EndMeeting(b) ==
  /\ meetings = 0 /\ \A call \in calls : call.kind # "meeting"
  /\ Cardinality(calls) < MaxCalls
  /\ calls' = calls \cup {[kind |-> "meeting", brand |-> b, step |-> "sent"]}
  /\ crossed' = (crossed \/ calls # {} \/ b # brand)
  /\ UNCHANGED <<chat, brand, shown, store>>

Next ==
  \/ \E m \in Message :
       \/ \E wakes \in BOOLEAN : Type(m, wakes) \/ Heard(m, wakes)
       \/ \E i \in DOMAIN turns : Rerun(m, i)
  \/ ToggleGate \/ Record \/ HeardNoQuestion
  \/ \E call \in calls :
       \/ ServeChat(call) \/ ServeList(call) \/ ServeMemory(call) \/ ServeMeeting(call)
       \/ Reply(call) \/ MeetingSaved(call) \/ Listed(call) \/ MemorySaved(call) \/ Lost(call)
  \/ \E b \in Brand \cup {Null} : ChooseBrand(b) \/ EndMeeting(b)
  \/ \E m \in Memory, kind \in {"add", "edit", "remove"} : ChangeMemory(kind, m)

Spec == Init /\ [][Next]_vars

-----------------------------------------------------------------------------
(* However chats, edits and recordings overlap, every reply in the conversation comes
   directly after the message it answers.                                            *)
ReplyFollowsQuestion ==
  \A i \in DOMAIN turns : turns[i][1] = "reply" =>
    i > 1 /\ turns[i - 1] = <<"user", turns[i][2]>>

(* As long as no two requests crossed and none was lost, the page lists exactly the
   memories the gateway has for its brand once nothing is in flight.                *)
ListIsCurrent == calls = {} /\ ~crossed => shown = View(brand)
=============================================================================
