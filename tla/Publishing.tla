----------------------------- MODULE Publishing -----------------------------
(* From an approval to a post.

   PATCH /productions/:id/approvals and /checklist (routes/delivery.ts) keep two
   JSON columns of a production: its state per brand, and the manual checks.  Each
   reads the row, merges in memory and writes the whole column back.  PUT
   /productions/:id/posts/:platform and POST /productions/:id/publish (server.ts)
   keep the posts and hand them to Postiz behind checkDeliveryApproval
   (approval.ts).  Every gateway that boots first copies the decisions into
   approval_evidence (legacyApprovalBackfill.ts).

   One action is one SQL statement or one call to Postiz; a request is in `req`
   between its statements, with what it read.  Requests a check refuses before
   they change anything (400, 403, 404, 503) leave no trace and are not steps.
   Migration 0024's guard of approval_evidence is the module EvidenceLedger; here
   it is what the backfill can meet of it, the live index over (subject, scope). *)
EXTENDS Naturals, Sequences, FiniteSets

CONSTANTS
  Production,        \* productions
  Brand, BrandOf,    \* brands; the brand a production was created for
  Check,             \* the manual checks of the dashboard
  Platform,          \* the platforms posts are composed for
  Request,           \* requests that can be in flight at once
  Boot,              \* gateways that can be booting at once
  MaxRows,           \* bound: posts rows per production and platform
  MaxAsked,          \* bound: different states asked for
  MaxSent,           \* bound: different things Postiz was sent
  Null

States    == {"approved", "rejected", "pending"}    \* pending: any text but those two
Decisions == {"approved", "rejected"}
SendTypes == {"draft", "schedule", "now"}
Statuses  == {"published", "other"}       \* a post is called published, or any other text
Key       == Production \X Brand                     \* (subject_id, scope) of evidence

ASSUME PublishingAssumption ==
  /\ BrandOf \in [Production -> Brand]
  /\ MaxRows \in Nat \ {0}
  /\ Null \notin States \cup Statuses \cup Platform

VARIABLES
  approvals,   \* productions.delivery_approvals, Null where the key is absent
  checklist,   \* productions.delivery_checklist: the checks that are true
  posts,       \* the statuses of the posts rows of a production and platform
  evidence,    \* approval_evidence: the decision on record for a key, or Null
  req,         \* a request in flight, or Null
  boot,        \* a gateway's boot
  sent,        \* Postiz: <<production, platform, type>> it accepted
  asked,       \* history: <<production, brand, state>> some PATCH asked for
  claimed      \* history: <<production, platform>> some PUT declared published

docs == <<approvals, checklist>>
vars == <<approvals, checklist, posts, evidence, req, boot, sent, asked, claimed>>

(* The requests in flight and what each holds. *)
Merging  == [op : {"approve"}, prod : Production, brand : Brand, state : States,
             read : [Brand -> States \cup {Null}]]
Ticking  == [op : {"tick"}, prod : Production, check : Check, on : BOOLEAN,
             read : SUBSET Check]
Saving   == [op : {"save"}, prod : Production, platform : Platform, status : Statuses,
             row : Nat]             \* 0: none was there
Sending  == [op : {"gate", "send"}, prod : Production, type : SendTypes,
             wanted : SUBSET Platform]
Noting   == [op : {"note"}, prod : Production, type : SendTypes, wanted : SUBSET Platform]
Requests == Merging \cup Ticking \cup Saving \cup Sending \cup Noting

(* A boot: not yet begun, serving, gone; with the rows it computed, or with those
   of them it found missing.                                                     *)
Rows  == [Key -> Decisions \cup {Null}]
Boots == [at : {"down", "serving"}] \cup [at : {"computed", "missing"}, rows : Rows]

TypeOK ==
  /\ approvals \in [Production -> [Brand -> States \cup {Null}]]
  /\ checklist \in [Production -> SUBSET Check]
  /\ posts \in [Production \X Platform -> Seq(Statuses)]
  /\ evidence \in Rows
  /\ req \in [Request -> Requests \cup {Null}]
  /\ boot \in [Boot -> Boots]
  /\ sent \subseteq Production \X Platform \X SendTypes
  /\ asked \subseteq Production \X Brand \X States
  /\ claimed \subseteq Production \X Platform

Init ==
  /\ approvals = [p \in Production |-> [b \in Brand |-> Null]]
  /\ checklist = [p \in Production |-> {}]
  /\ posts = [k \in Production \X Platform |-> <<>>]
  /\ evidence = [k \in Key |-> Null]
  /\ req = [r \in Request |-> Null]
  /\ boot = [g \in Boot |-> [at |-> "down"]]
  /\ sent = {}
  /\ asked = {}
  /\ claimed = {}

Become(r, next) == req' = [req EXCEPT ![r] = next]
In(r, op)       == req[r] # Null /\ req[r].op = op

----------------------------------------------------------------------------
(* The two JSON columns: the SELECT, then the UPDATE of the whole column. *)

ApprovalRead(r, p, b, s) ==
  /\ req[r] = Null
  /\ Become(r, [op |-> "approve", prod |-> p, brand |-> b, state |-> s, read |-> approvals[p]])
  /\ asked' = asked \cup {<<p, b, s>>}
  /\ Cardinality(asked') <= MaxAsked
  /\ UNCHANGED <<approvals, checklist, posts, evidence, boot, sent, claimed>>

ApprovalWrite(r) ==
  /\ In(r, "approve")
  /\ approvals' = [approvals EXCEPT ![req[r].prod] =
                     [req[r].read EXCEPT ![req[r].brand] = req[r].state]]
  /\ Become(r, Null)
  /\ UNCHANGED <<checklist, posts, evidence, boot, sent, asked, claimed>>

ChecklistRead(r, p, c, on) ==
  /\ req[r] = Null
  /\ Become(r, [op |-> "tick", prod |-> p, check |-> c, on |-> on, read |-> checklist[p]])
  /\ UNCHANGED <<docs, posts, evidence, boot, sent, asked, claimed>>

ChecklistWrite(r) ==
  /\ In(r, "tick")
  /\ checklist' = [checklist EXCEPT ![req[r].prod] =
                     IF req[r].on THEN req[r].read \cup {req[r].check}
                                  ELSE req[r].read \ {req[r].check}]
  /\ Become(r, Null)
  /\ UNCHANGED <<approvals, posts, evidence, boot, sent, asked, claimed>>

----------------------------------------------------------------------------
(* Saving a post: the SELECT takes one of the rows there are (no order, no unique
   key), the second statement updates that row or inserts one.  The body's status
   replaces the row's, whatever it was and whatever it says: nothing checks it.   *)

PostRead(r, p, f, s) ==
  /\ req[r] = Null
  /\ \E i \in IF posts[<<p, f>>] = <<>> THEN {0} ELSE DOMAIN posts[<<p, f>>] :
       Become(r, [op |-> "save", prod |-> p, platform |-> f, status |-> s, row |-> i])
  /\ claimed' = IF s = "published" THEN claimed \cup {<<p, f>>} ELSE claimed
  /\ UNCHANGED <<docs, posts, evidence, boot, sent, asked>>

PostWrite(r) ==
  /\ In(r, "save")
  /\ LET k == <<req[r].prod, req[r].platform>>
     IN  IF req[r].row = 0
         THEN /\ Len(posts[k]) < MaxRows
              /\ posts' = [posts EXCEPT ![k] = Append(@, req[r].status)]
         ELSE posts' = [posts EXCEPT ![k] = [@ EXCEPT ![req[r].row] = req[r].status]]
  /\ Become(r, Null)
  /\ UNCHANGED <<docs, evidence, boot, sent, asked, claimed>>

----------------------------------------------------------------------------
(* Publishing.  checkDeliveryApproval: an explicit approval of the production's
   own brand; an absent key, pending or rejected fail closed.                    *)

anyBrandApproves(p, map) == \E b \in Brand : map[b] = "approved"
checkDeliveryApproval(p, map) == map[BrandOf[p]] = "approved"

PublishGate(r, p, type, platforms) ==      \* the SELECT of the production and the gate
  /\ req[r] = Null
  /\ checkDeliveryApproval(p, approvals[p])
  /\ Become(r, [op |-> "gate", prod |-> p, type |-> type, wanted |-> platforms])
  /\ UNCHANGED <<docs, posts, evidence, boot, sent, asked, claimed>>

(* The posts are read when no platforms were named; Postiz then says which
   channels are connected, and the others are dropped.                           *)
PublishPrepare(r, connected) ==
  /\ In(r, "gate")
  /\ LET p        == req[r].prod
         composed == {f \in Platform : posts[<<p, f>>] # <<>>}
         wanted   == IF req[r].wanted = {} THEN composed ELSE req[r].wanted
     IN  /\ wanted \cap connected # {}
         /\ Become(r, [req[r] EXCEPT !.op = "send", !.wanted = wanted \cap connected])
  /\ UNCHANGED <<docs, posts, evidence, boot, sent, asked, claimed>>

(* One createPost for all of them.  Postiz takes the whole list or none of it; its
   answer may be lost after it took it, and then nothing is noted.               *)
Accepted(r) == {<<req[r].prod, f, req[r].type>> : f \in req[r].wanted}

PublishAccepted(r) ==
  /\ In(r, "send")
  /\ sent' = sent \cup Accepted(r)
  /\ Cardinality(sent') <= MaxSent
  /\ Become(r, [req[r] EXCEPT !.op = "note"])
  /\ UNCHANGED <<docs, posts, evidence, boot, asked, claimed>>

PublishAnswerLost(r) ==
  /\ In(r, "send")
  /\ sent' = sent \cup Accepted(r)
  /\ Cardinality(sent') <= MaxSent
  /\ Become(r, Null)
  /\ UNCHANGED <<docs, posts, evidence, boot, asked, claimed>>

newStatusSentIsOut(type) == IF type = "draft" THEN "other" ELSE "published"
newStatus(type) == IF type = "now" THEN "published" ELSE "other"   \* draft, scheduled

(* The loop over the channels: one UPDATE of every row of that platform. *)
PublishNote(r, f) ==
  /\ In(r, "note")
  /\ f \in req[r].wanted
  /\ LET k == <<req[r].prod, f>>
     IN  posts' = [posts EXCEPT ![k] = [i \in DOMAIN posts[k] |-> newStatus(req[r].type)]]
  /\ Become(r, IF req[r].wanted = {f} THEN Null ELSE [req[r] EXCEPT !.wanted = @ \ {f}])
  /\ UNCHANGED <<docs, evidence, boot, sent, asked, claimed>>

(* A statement rejects, Postiz refuses, or the process dies: the request ends with
   what it has done so far.                                                      *)
RequestEnds(r) ==
  /\ req[r] # Null
  /\ Become(r, Null)
  /\ UNCHANGED <<docs, posts, evidence, boot, sent, asked, claimed>>

----------------------------------------------------------------------------
(* backfillLegacyApprovals at boot: SELECT the maps, SELECT the keys on record,
   INSERT what is missing as one statement, which the live index makes all or
   nothing.  A rejection ends the process.                                       *)

anyMarkIsApproval ==
  [k \in Key |-> IF approvals[k[1]][k[2]] = Null THEN Null ELSE "approved"]
computeLegacyApprovalEvidenceRows ==
  [k \in Key |-> LET state == approvals[k[1]][k[2]]
                 IN  IF state \in Decisions THEN state ELSE Null]

BootCompute(g) ==
  /\ boot[g].at = "down"
  /\ boot' = [boot EXCEPT ![g] = [at |-> "computed", rows |-> computeLegacyApprovalEvidenceRows]]
  /\ UNCHANGED <<docs, posts, evidence, req, sent, asked, claimed>>

toInsert(rows) == [k \in Key |-> IF evidence[k] = Null THEN rows[k] ELSE Null]

BootFilter(g) ==
  /\ boot[g].at = "computed"
  /\ boot' = [boot EXCEPT ![g] = [at |-> "missing", rows |-> toInsert(boot[g].rows)]]
  /\ UNCHANGED <<docs, posts, evidence, req, sent, asked, claimed>>

Collides(rows) == \E k \in Key : rows[k] # Null /\ evidence[k] # Null

BootInsert(g) ==
  /\ boot[g].at = "missing"
  /\ ~Collides(boot[g].rows)
  /\ evidence' = [k \in Key |-> IF boot[g].rows[k] # Null THEN boot[g].rows[k] ELSE evidence[k]]
  /\ boot' = [boot EXCEPT ![g] = [at |-> "serving"]]
  /\ UNCHANGED <<docs, posts, req, sent, asked, claimed>>

(* The process dies, also by its own exit on a refused INSERT, or is replaced by the
   next deployment.                                                              *)
Restart(g) ==
  /\ boot[g].at # "down"
  /\ boot' = [boot EXCEPT ![g] = [at |-> "down"]]
  /\ UNCHANGED <<docs, posts, evidence, req, sent, asked, claimed>>

----------------------------------------------------------------------------
RequestStep(r) ==
  \/ \E p \in Production, b \in Brand, s \in States : ApprovalRead(r, p, b, s)
  \/ ApprovalWrite(r)
  \/ \E p \in Production, c \in Check, on \in BOOLEAN : ChecklistRead(r, p, c, on)
  \/ ChecklistWrite(r)
  \/ \E p \in Production, f \in Platform, s \in Statuses : PostRead(r, p, f, s)
  \/ PostWrite(r)
  \/ \E p \in Production, t \in SendTypes, fs \in SUBSET Platform : PublishGate(r, p, t, fs)
  \/ \E connected \in SUBSET Platform : PublishPrepare(r, connected)
  \/ PublishAccepted(r)
  \/ PublishAnswerLost(r)
  \/ \E f \in Platform : PublishNote(r, f)
  \/ RequestEnds(r)

BootStep(g) ==
  BootCompute(g) \/ BootFilter(g) \/ BootInsert(g) \/ Restart(g)

Next == (\E r \in Request : RequestStep(r)) \/ (\E g \in Boot : BootStep(g))

Spec == Init /\ [][Next]_vars
----------------------------------------------------------------------------
(* Whatever Postiz was given was for a production whose own brand somebody had
   asked to be approved, in whatever order requests read and wrote the map and
   however old the answer of the gate was (approval.ts:6-11).                    *)
SentWasApproved ==
  \A s \in sent : <<s[1], BrandOf[s[1]], "approved">> \in asked

(* A merge never invents a state: what stands in the map for a brand, and what the
   backfill put on record for it, was asked for that production and that brand,
   also when a merge from an old read brings it back (delivery.ts:160-166,
   legacyApprovalBackfill.ts:62-98).                                             *)
StoredWasAsked ==
  /\ \A p \in Production, b \in Brand :
       approvals[p][b] # Null => <<p, b, approvals[p][b]>> \in asked
  /\ \A k \in Key : evidence[k] # Null => <<k[1], k[2], evidence[k]>> \in asked

(* No request invents that a post is out: a post is called published only when Postiz
   accepted it for that platform to go out at once, or when a caller of PUT declared it
   so, through lost answers, crashes and saves in between (server.ts:2349, 2463-2474). *)
PublishedWasSent ==
  \A p \in Production, f \in Platform : \A i \in DOMAIN posts[<<p, f>>] :
    posts[<<p, f>>][i] = "published" => <<p, f, "now">> \in sent \/ <<p, f>> \in claimed

(* A boot never dies on the live index: what it found missing is still missing when
   it inserts (legacyApprovalBackfill.ts:102-113, server.ts:312-317).            *)
BootsNeverCollide == \A g \in Boot : boot[g].at = "missing" => ~Collides(boot[g].rows)

(* Evidence is history: a decision on record is neither changed nor lost by a later
   PATCH, a later boot or a repeated one (legacyApprovalBackfill.ts:14-17).      *)
EvidenceIsHistory ==
  [][\A k \in Key : evidence[k] # Null => evidence'[k] = evidence[k]]_vars
=============================================================================
