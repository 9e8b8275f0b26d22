-------------------------- MODULE PublishingProofs --------------------------
(* What Publishing promises for any number of productions, brands, platforms,
   requests and boots.  The inductive invariant has one part per variable, each
   relative to the histories `asked`, `sent` and `claimed`, which only grow: a part whose
   variable a step leaves alone is kept because it is monotone in them.          *)
EXTENDS Publishing, SequenceTheorems, TLAPS

(* What a request in flight may rely on. *)
HeldOk(x, A, S, C) ==
  /\ x.op = "approve" =>
       /\ <<x.prod, x.brand, x.state>> \in A
       /\ \A b \in Brand : x.read[b] # Null => <<x.prod, b, x.read[b]>> \in A
  /\ x.op \in {"gate", "send", "note"} => <<x.prod, BrandOf[x.prod], "approved">> \in A
  /\ x.op = "save" /\ x.status = "published" => <<x.prod, x.platform>> \in C
  /\ x.op = "note" => \A f \in x.wanted : <<x.prod, f, x.type>> \in S

ReqInv(f, A, S, C) ==
  /\ f \in [Request -> Requests \cup {Null}]
  /\ \A r \in Request : f[r] # Null => HeldOk(f[r], A, S, C)

RowsOk(rows, A) == \A k \in Key : rows[k] # Null => <<k[1], k[2], rows[k]>> \in A

BootInv(f, A) ==
  /\ f \in [Boot -> Boots]
  /\ \A g \in Boot : f[g].at \in {"computed", "missing"} => RowsOk(f[g].rows, A)

ApprovalsInv(f, A) ==
  /\ f \in [Production -> [Brand -> States \cup {Null}]]
  /\ \A p \in Production, b \in Brand : f[p][b] # Null => <<p, b, f[p][b]>> \in A

EvidenceInv(f, A) == f \in Rows /\ RowsOk(f, A)

Published(p, q, S, C) == <<p, q, "now">> \in S \/ <<p, q>> \in C

PostsInv(f, S, C) ==
  /\ f \in [Production \X Platform -> Seq(Statuses)]
  /\ \A p \in Production, q \in Platform : \A i \in DOMAIN f[<<p, q>>] :
       f[<<p, q>>][i] = "published" => Published(p, q, S, C)

SentInv(S, A) ==
  /\ S \subseteq Production \X Platform \X SendTypes
  /\ \A s \in S : <<s[1], BrandOf[s[1]], "approved">> \in A

IInv ==
  /\ asked \subseteq Production \X Brand \X States
  /\ claimed \subseteq Production \X Platform
  /\ checklist \in [Production -> SUBSET Check]
  /\ ReqInv(req, asked, sent, claimed)
  /\ BootInv(boot, asked)
  /\ ApprovalsInv(approvals, asked)
  /\ EvidenceInv(evidence, asked)
  /\ PostsInv(posts, sent, claimed)
  /\ SentInv(sent, asked)

-----------------------------------------------------------------------------
(* The parts are monotone in the histories. *)
LEMMA HeldGrows ==
  ASSUME NEW x, NEW A, NEW S, NEW C, NEW A2, NEW S2, NEW C2,
         A \subseteq A2, S \subseteq S2, C \subseteq C2, HeldOk(x, A, S, C)
  PROVE  HeldOk(x, A2, S2, C2)
  BY DEF HeldOk

LEMMA BootGrows ==
  ASSUME NEW f, NEW A, NEW A2, A \subseteq A2, BootInv(f, A)
  PROVE  BootInv(f, A2)
  BY DEF BootInv, RowsOk

LEMMA ApprovalsGrow ==
  ASSUME NEW f, NEW A, NEW A2, A \subseteq A2, ApprovalsInv(f, A)
  PROVE  ApprovalsInv(f, A2)
  BY DEF ApprovalsInv

LEMMA EvidenceGrows ==
  ASSUME NEW f, NEW A, NEW A2, A \subseteq A2, EvidenceInv(f, A)
  PROVE  EvidenceInv(f, A2)
  BY DEF EvidenceInv, RowsOk

LEMMA PostsGrow ==
  ASSUME NEW f, NEW S, NEW C, NEW S2, NEW C2, S \subseteq S2, C \subseteq C2, PostsInv(f, S, C)
  PROVE  PostsInv(f, S2, C2)
  BY DEF PostsInv, Published

LEMMA SentGrows ==
  ASSUME NEW S, NEW A, NEW A2, A \subseteq A2, SentInv(S, A)
  PROVE  SentInv(S, A2)
  BY DEF SentInv

(* A request moves on to `next`. *)
LEMMA RequestMoves ==
  ASSUME NEW f, NEW A, NEW S, NEW C, NEW A2, NEW S2, NEW C2,
         A \subseteq A2, S \subseteq S2, C \subseteq C2,
         ReqInv(f, A, S, C), NEW r \in Request, NEW next \in Requests \cup {Null},
         next = Null \/ HeldOk(next, A2, S2, C2), NEW f2, f2 = [f EXCEPT ![r] = next]
  PROVE  ReqInv(f2, A2, S2, C2)
  <1>1. f2 \in [Request -> Requests \cup {Null}]
    BY DEF ReqInv
  <1>2. ASSUME NEW q \in Request, f2[q] # Null
        PROVE  HeldOk(f2[q], A2, S2, C2)
    <2>1. CASE q = r
      BY <1>2, <2>1 DEF ReqInv
    <2>2. CASE q # r
      <3>1. f2[q] = f[q] /\ HeldOk(f[q], A, S, C)
        BY <1>2, <2>2 DEF ReqInv
      <3>. QED
        BY <3>1, HeldGrows
    <2>. QED
      BY <2>1, <2>2
  <1>. QED
    BY <1>1, <1>2 DEF ReqInv

LEMMA RequestsStay ==
  ASSUME NEW f, NEW A, NEW S, NEW C, NEW A2, NEW S2, NEW C2,
         A \subseteq A2, S \subseteq S2, C \subseteq C2, ReqInv(f, A, S, C)
  PROVE  ReqInv(f, A2, S2, C2)
  BY HeldGrows DEF ReqInv

(* The kind of request that carries a tag. *)
LEMMA Tagged ==
  ASSUME NEW x \in Requests
  PROVE  /\ x.op = "approve" => x \in Merging
         /\ x.op = "tick" => x \in Ticking
         /\ x.op = "save" => x \in Saving
         /\ x.op \in {"gate", "send"} => x \in Sending
         /\ x.op = "note" => x \in Noting
  BY DEF Requests, Merging, Ticking, Saving, Sending, Noting

LEMMA BootTagged ==
  ASSUME NEW x \in Boots, x.at \in {"computed", "missing"}
  PROVE  x.rows \in Rows
  BY DEF Boots
-----------------------------------------------------------------------------
LEMMA InitInv == Init => IInv
  <1>. SUFFICES ASSUME Init
                PROVE  IInv
    OBVIOUS
  <1>1. ReqInv(req, asked, sent, claimed)
    BY DEF Init, ReqInv
  <1>2. BootInv(boot, asked)
    BY DEF Init, BootInv, Boots
  <1>3. ApprovalsInv(approvals, asked) /\ EvidenceInv(evidence, asked)
    BY DEF Init, ApprovalsInv, EvidenceInv, Rows, RowsOk
  <1>4. PostsInv(posts, sent, claimed)
    BY DEF Init, PostsInv
  <1>5. SentInv(sent, asked) /\ checklist \in [Production -> SUBSET Check]
    BY DEF Init, SentInv
  <1>. QED
    BY <1>1, <1>2, <1>3, <1>4, <1>5 DEF Init, IInv

(* A step that grows no history keeps the parts of the variables it leaves alone;
   the step lemmas below say what becomes of the others.                         *)
LEMMA ApprovalReadKeeps ==
  ASSUME IInv, NEW r \in Request, NEW p \in Production, NEW b \in Brand, NEW s \in States,
         ApprovalRead(r, p, b, s)
  PROVE  IInv'
  <1>. DEFINE next == [op |-> "approve", prod |-> p, brand |-> b, state |-> s,
                       read |-> approvals[p]]
  <1>1. /\ asked' = asked \cup {<<p, b, s>>}
        /\ asked \subseteq asked'
        /\ asked' \subseteq Production \X Brand \X States
        /\ sent' = sent /\ sent \subseteq sent' /\ claimed' = claimed
        /\ req' = [req EXCEPT ![r] = next]
        /\ UNCHANGED <<approvals, checklist, posts, evidence, boot>>
    BY DEF ApprovalRead, Become, IInv
  <1>2. next \in Requests \cup {Null}
    BY DEF IInv, ApprovalsInv, Requests, Merging
  <1>3. HeldOk(next, asked', sent', claimed')
    BY <1>1 DEF HeldOk, IInv, ApprovalsInv
  <1>. HIDE DEF next
  <1>4. ReqInv(req, asked, sent, claimed)
    BY DEF IInv
  <1>5. ReqInv(req', asked', sent', claimed')
    <2>1. /\ req' = [req EXCEPT ![r] = next]
          /\ asked \subseteq asked' /\ sent \subseteq sent' /\ claimed \subseteq claimed'
      BY <1>1
    <2>. QED
      BY <2>1, <1>2, <1>3, <1>4, RequestMoves
  <1>6. BootInv(boot, asked') /\ ApprovalsInv(approvals, asked')
    BY <1>1, BootGrows, ApprovalsGrow DEF IInv
  <1>7. EvidenceInv(evidence, asked') /\ SentInv(sent, asked')
    BY <1>1, EvidenceGrows, SentGrows DEF IInv
  <1>. QED
    BY <1>1, <1>5, <1>6, <1>7 DEF IInv

(* A request's other steps: it moves on to `next`; asked stays, sent and claimed may grow. *)
Moves(r, next) ==
  /\ req' = [req EXCEPT ![r] = next]
  /\ next \in Requests \cup {Null}
  /\ asked' = asked
  /\ sent \subseteq sent'
  /\ claimed \subseteq claimed' /\ claimed' \subseteq claimed \cup (Production \X Platform)
  /\ next = Null \/ HeldOk(next, asked', sent', claimed')
  /\ boot' = boot
  /\ evidence' = evidence

LEMMA MovesKeep ==
  ASSUME IInv, NEW r \in Request, NEW next, Moves(r, next),
         ApprovalsInv(approvals', asked), checklist' \in [Production -> SUBSET Check],
         PostsInv(posts', sent', claimed'), SentInv(sent', asked)
  PROVE  IInv'
  <1>1. ReqInv(req', asked', sent', claimed')
    BY RequestMoves DEF Moves, IInv
  <1>. QED
    BY <1>1 DEF IInv, Moves

(* What In(r, op) says of the request. *)
LEMMA Held ==
  ASSUME IInv, NEW r \in Request, req[r] # Null
  PROVE  req[r] \in Requests /\ HeldOk(req[r], asked, sent, claimed)
  BY DEF IInv, ReqInv

LEMMA ApprovalWriteKeeps ==
  ASSUME IInv, NEW r \in Request, ApprovalWrite(r)
  PROVE  IInv'
  <1>1. req[r] \in Merging /\ HeldOk(req[r], asked, sent, claimed) /\ req[r].op = "approve"
    BY Held, Tagged DEF ApprovalWrite, In
  <1>2. Moves(r, Null)
    BY DEF ApprovalWrite, Become, Moves
  <1>. DEFINE x == req[r]
              merged == [x.read EXCEPT ![x.brand] = x.state]
  <1>3. /\ x.prod \in Production
        /\ merged \in [Brand -> States \cup {Null}]
        /\ \A b \in Brand : merged[b] # Null => <<x.prod, b, merged[b]>> \in asked
    BY <1>1 DEF Merging, HeldOk
  <1>4. approvals' = [approvals EXCEPT ![x.prod] = merged]
    BY DEF ApprovalWrite
  <1>. HIDE DEF merged, x
  <1>5. ApprovalsInv(approvals', asked)
    BY <1>3, <1>4 DEF IInv, ApprovalsInv
  <1>. QED
    BY <1>2, <1>5, MovesKeep DEF ApprovalWrite, IInv

LEMMA ChecklistKeeps ==
  ASSUME IInv, NEW r \in Request,
         \/ \E p \in Production, c \in Check, on \in BOOLEAN : ChecklistRead(r, p, c, on)
         \/ ChecklistWrite(r)
  PROVE  IInv'
  <1>1. ASSUME NEW p \in Production, NEW c \in Check, NEW on \in BOOLEAN,
               ChecklistRead(r, p, c, on)
        PROVE  IInv'
    <2>. DEFINE next == [op |-> "tick", prod |-> p, check |-> c, on |-> on,
                         read |-> checklist[p]]
    <2>1. next \in Requests
      BY DEF IInv, Requests, Ticking
    <2>2. HeldOk(next, asked', sent', claimed')
      BY DEF HeldOk
    <2>3. req' = [req EXCEPT ![r] = next]
      BY <1>1 DEF ChecklistRead, Become
    <2>. HIDE DEF next
    <2>4. Moves(r, next)
      BY <1>1, <2>1, <2>2, <2>3 DEF ChecklistRead, Moves
    <2>. QED
      BY <1>1, <2>4, MovesKeep DEF ChecklistRead, docs, IInv
  <1>2. CASE ChecklistWrite(r)
    <2>1. req[r] \in Ticking
      BY <1>2, Held, Tagged DEF ChecklistWrite, In
    <2>2. checklist' \in [Production -> SUBSET Check]
      BY <1>2, <2>1 DEF ChecklistWrite, Ticking, IInv
    <2>3. Moves(r, Null)
      BY <1>2 DEF ChecklistWrite, Become, Moves
    <2>. QED
      BY <1>2, <2>2, <2>3, MovesKeep DEF ChecklistWrite, IInv
  <1>. QED
    BY <1>1, <1>2

-----------------------------------------------------------------------------
(* The posts rows of one platform become `rows`. *)
LEMMA PostsBecome ==
  ASSUME NEW f, NEW S, NEW C, PostsInv(f, S, C), NEW p \in Production, NEW q \in Platform,
         NEW rows \in Seq(Statuses), NEW f2, f2 = [f EXCEPT ![<<p, q>>] = rows],
         \A i \in DOMAIN rows : rows[i] = "published" => Published(p, q, S, C)
  PROVE  PostsInv(f2, S, C)
  BY DEF PostsInv

LEMMA PostKeeps ==
  ASSUME IInv, NEW r \in Request,
         \/ \E p \in Production, f \in Platform, s \in Statuses : PostRead(r, p, f, s)
         \/ PostWrite(r)
  PROVE  IInv'
  <1>1. ASSUME NEW p \in Production, NEW f \in Platform, NEW s \in Statuses, PostRead(r, p, f, s)
        PROVE  IInv'
    <2>1. PICK i \in Nat :
            req' = [req EXCEPT ![r] = [op |-> "save", prod |-> p, platform |-> f,
                                       status |-> s, row |-> i]]
      <3>1. posts[<<p, f>>] \in Seq(Statuses)
        BY DEF IInv, PostsInv
      <3>2. DOMAIN posts[<<p, f>>] \subseteq Nat
        BY <3>1
      <3>3. PICK i \in IF posts[<<p, f>>] = <<>> THEN {0} ELSE DOMAIN posts[<<p, f>>] :
              Become(r, [op |-> "save", prod |-> p, platform |-> f, status |-> s, row |-> i])
        BY <1>1 DEF PostRead
      <3>4. i \in Nat
        BY <3>2
      <3>. QED
        BY <3>3, <3>4 DEF Become
    <2>. DEFINE next == [op |-> "save", prod |-> p, platform |-> f, status |-> s, row |-> i]
    <2>2. next \in Requests
      BY DEF Requests, Saving
    <2>3. HeldOk(next, asked', sent', claimed')
      BY <1>1 DEF HeldOk, PostRead
    <2>4. /\ claimed \subseteq claimed' /\ claimed' \subseteq claimed \cup (Production \X Platform)
          /\ UNCHANGED <<approvals, checklist, posts, evidence, boot, sent, asked>>
      BY <1>1 DEF PostRead, docs
    <2>. HIDE DEF next
    <2>5. Moves(r, next)
      BY <2>1, <2>2, <2>3, <2>4 DEF Moves, next
    <2>6. PostsInv(posts', sent', claimed')
      BY <2>4, PostsGrow DEF IInv
    <2>. QED
      BY <2>4, <2>5, <2>6, MovesKeep DEF IInv
  <1>2. CASE PostWrite(r)
    <2>. DEFINE x == req[r]
                rows == posts[<<x.prod, x.platform>>]
                next == IF x.row = 0 THEN Append(rows, x.status)
                                     ELSE [rows EXCEPT ![x.row] = x.status]
    <2>1. x \in Saving /\ HeldOk(x, asked, sent, claimed)
      BY <1>2, Held, Tagged DEF PostWrite, In
    <2>2. /\ x.prod \in Production
          /\ x.platform \in Platform
          /\ x.status \in Statuses
          /\ x.status = "published" => Published(x.prod, x.platform, sent, claimed)
          /\ x.row \in Nat
      BY <2>1 DEF Saving, HeldOk, Published
    <2>3. posts' = [posts EXCEPT ![<<x.prod, x.platform>>] = next]
      BY <1>2 DEF PostWrite
    <2>4. rows \in Seq(Statuses)
      BY <2>2 DEF IInv, PostsInv
    <2>5. \A i \in DOMAIN rows : rows[i] = "published" =>
            Published(x.prod, x.platform, sent, claimed)
      BY <2>2 DEF IInv, PostsInv
    <2>. HIDE DEF x, rows
    <2>6. next \in Seq(Statuses)
      <3>1. Append(rows, x.status) \in Seq(Statuses)
        BY <2>2, <2>4
      <3>2. [rows EXCEPT ![x.row] = x.status] \in Seq(Statuses)
        <4>1. CASE x.row \in 1 .. Len(rows)
          BY <2>2, <2>4, <4>1, ExceptSeq
        <4>2. CASE x.row \notin 1 .. Len(rows)
          <5>1. rows = [i \in 1 .. Len(rows) |-> rows[i]]
            BY <2>4
          <5>2. [rows EXCEPT ![x.row] = x.status] = rows
            BY <4>2, <5>1
          <5>. QED
            BY <2>4, <5>2
        <4>. QED
          BY <4>1, <4>2
      <3>. QED
        BY <3>1, <3>2
    <2>7. \A i \in DOMAIN next : next[i] = "published" =>
            x.status = "published" \/ (i \in DOMAIN rows /\ rows[i] = "published")
      BY <2>2, <2>4
    <2>. HIDE DEF next
    <2>8. PostsInv(posts', sent, claimed)
      BY <2>2, <2>3, <2>5, <2>6, <2>7, PostsBecome DEF IInv
    <2>9. Moves(r, Null)
      BY <1>2 DEF PostWrite, Become, Moves
    <2>. QED
      BY <1>2, <2>8, <2>9, MovesKeep DEF PostWrite, docs, IInv
  <1>. QED
    BY <1>1, <1>2

-----------------------------------------------------------------------------
LEMMA GateKeeps ==
  ASSUME IInv, NEW r \in Request, NEW p \in Production, NEW t \in SendTypes,
         NEW fs \in SUBSET Platform, PublishGate(r, p, t, fs)
  PROVE  IInv'
  <1>. DEFINE next == [op |-> "gate", prod |-> p, type |-> t, wanted |-> fs]
  <1>1. next \in Requests
    BY DEF Requests, Sending
  <1>2. BrandOf[p] \in Brand /\ approvals[p][BrandOf[p]] = "approved" /\ Null # "approved"
    BY PublishingAssumption DEF PublishGate, checkDeliveryApproval, States
  <1>3. <<p, BrandOf[p], "approved">> \in asked
    BY <1>2 DEF IInv, ApprovalsInv
  <1>4. HeldOk(next, asked', sent', claimed')
    BY <1>3 DEF PublishGate, HeldOk
  <1>5. req' = [req EXCEPT ![r] = next]
    BY DEF PublishGate, Become
  <1>. HIDE DEF next
  <1>6. Moves(r, next)
    BY <1>1, <1>4, <1>5 DEF PublishGate, Moves
  <1>. QED
    BY <1>6, MovesKeep DEF PublishGate, docs, IInv

LEMMA PrepareKeeps ==
  ASSUME IInv, NEW r \in Request, NEW connected \in SUBSET Platform,
         PublishPrepare(r, connected)
  PROVE  IInv'
  <1>1. req[r] \in Sending /\ HeldOk(req[r], asked, sent, claimed) /\ req[r].op = "gate"
    BY Held, Tagged DEF PublishPrepare, In
  <1>2. PICK w \in SUBSET Platform : req' = [req EXCEPT ![r] = [req[r] EXCEPT !.op = "send", !.wanted = w]]
    BY <1>1 DEF PublishPrepare, Become, Sending
  <1>. DEFINE next == [req[r] EXCEPT !.op = "send", !.wanted = w]
  <1>3. next \in Requests
    BY <1>1 DEF Requests, Sending
  <1>4. HeldOk(next, asked', sent', claimed')
    BY <1>1 DEF PublishPrepare, HeldOk, Sending
  <1>. HIDE DEF next
  <1>5. Moves(r, next)
    BY <1>2, <1>3, <1>4 DEF PublishPrepare, Moves, next
  <1>. QED
    BY <1>5, MovesKeep DEF PublishPrepare, docs, IInv

(* What Postiz accepts is for a production whose gate was passed. *)
LEMMA AcceptedIsApproved ==
  ASSUME IInv, NEW r \in Request, In(r, "send")
  PROVE  SentInv(sent \cup Accepted(r), asked)
  <1>1. req[r] \in Sending /\ HeldOk(req[r], asked, sent, claimed) /\ req[r].op = "send"
    BY Held, Tagged DEF In
  <1>2. /\ req[r].prod \in Production /\ req[r].type \in SendTypes
        /\ req[r].wanted \subseteq Platform
        /\ <<req[r].prod, BrandOf[req[r].prod], "approved">> \in asked
    BY <1>1 DEF Sending, HeldOk
  <1>. QED
    BY <1>2 DEF IInv, SentInv, Accepted

LEMMA AcceptedKeeps ==
  ASSUME IInv, NEW r \in Request, PublishAccepted(r) \/ PublishAnswerLost(r)
  PROVE  IInv'
  <1>1. req[r] \in Sending /\ HeldOk(req[r], asked, sent, claimed) /\ req[r].op = "send"
    BY Held, Tagged DEF PublishAccepted, PublishAnswerLost, In
  <1>2. /\ sent' = sent \cup Accepted(r)
        /\ sent \subseteq sent'
        /\ UNCHANGED <<approvals, checklist, posts, evidence, boot, asked, claimed>>
    BY DEF PublishAccepted, PublishAnswerLost, docs
  <1>3. SentInv(sent', asked)
    BY <1>2, AcceptedIsApproved DEF PublishAccepted, PublishAnswerLost
  <1>4. PostsInv(posts', sent', claimed')
    BY <1>2, PostsGrow DEF IInv
  <1>5. ASSUME NEW next, next \in Requests \cup {Null}, req' = [req EXCEPT ![r] = next],
               next = Null \/ HeldOk(next, asked', sent', claimed')
        PROVE  IInv'
    <2>1. Moves(r, next)
      BY <1>2, <1>5 DEF Moves
    <2>. QED
      BY <1>2, <1>3, <1>4, <2>1, MovesKeep DEF IInv
  <1>6. CASE PublishAccepted(r)
    <2>. DEFINE next == [req[r] EXCEPT !.op = "note"]
    <2>1. next \in Requests
      BY <1>1 DEF Requests, Sending, Noting
    <2>2. HeldOk(next, asked', sent', claimed')
      BY <1>1, <1>2 DEF HeldOk, Sending, Accepted
    <2>3. req' = [req EXCEPT ![r] = next]
      BY <1>6 DEF PublishAccepted, Become
    <2>. QED
      BY <1>5, <2>1, <2>2, <2>3
  <1>7. CASE PublishAnswerLost(r)
    BY <1>5, <1>7 DEF PublishAnswerLost, Become
  <1>. QED
    BY <1>6, <1>7

LEMMA NoteKeeps ==
  ASSUME IInv, NEW r \in Request, NEW f \in Platform, PublishNote(r, f)
  PROVE  IInv'
  <1>1. req[r] \in Noting /\ HeldOk(req[r], asked, sent, claimed) /\ req[r].op = "note"
    BY Held, Tagged DEF PublishNote, In
  <1>. DEFINE x == req[r]
              rows == posts[<<x.prod, f>>]
              noted == [i \in DOMAIN rows |-> newStatus(x.type)]
              next == IF x.wanted = {f} THEN Null ELSE [x EXCEPT !.wanted = @ \ {f}]
  <1>2. /\ x.prod \in Production /\ x.type \in SendTypes
        /\ f \in x.wanted
        /\ <<x.prod, f, x.type>> \in sent
    BY <1>1 DEF PublishNote, Noting, HeldOk
  <1>3. rows \in Seq(Statuses)
    BY <1>2 DEF IInv, PostsInv
  <1>4. noted \in Seq(Statuses)
    BY <1>2, <1>3 DEF newStatus, Statuses
  <1>5. \A i \in DOMAIN noted : noted[i] = "published" => Published(x.prod, f, sent, claimed)
    BY <1>2 DEF newStatus, Published
  <1>6. posts' = [posts EXCEPT ![<<x.prod, f>>] = noted]
    BY DEF PublishNote
  <1>7. next \in Requests \cup {Null} /\ (next = Null \/ HeldOk(next, asked, sent, claimed))
    BY <1>1 DEF Requests, Noting, HeldOk
  <1>8. req' = [req EXCEPT ![r] = next]
    BY DEF PublishNote, Become
  <1>. HIDE DEF next, noted, rows, x
  <1>9. PostsInv(posts', sent, claimed)
    BY <1>2, <1>4, <1>5, <1>6, PostsBecome DEF IInv
  <1>10. Moves(r, next)
    BY <1>7, <1>8 DEF PublishNote, Moves
  <1>. QED
    BY <1>9, <1>10, MovesKeep DEF PublishNote, docs, IInv

LEMMA EndKeeps ==
  ASSUME IInv, NEW r \in Request, RequestEnds(r)
  PROVE  IInv'
  <1>1. Moves(r, Null)
    BY DEF RequestEnds, Become, Moves
  <1>. QED
    BY <1>1, MovesKeep DEF RequestEnds, docs, IInv

-----------------------------------------------------------------------------
(* A boot moves on to `next`, and may put decisions on record. *)
LEMMA BootMoves ==
  ASSUME IInv, NEW g \in Boot, NEW next \in Boots, boot' = [boot EXCEPT ![g] = next],
         next.at \in {"computed", "missing"} => RowsOk(next.rows, asked),
         EvidenceInv(evidence', asked),
         UNCHANGED <<approvals, checklist, posts, req, sent, asked, claimed>>
  PROVE  IInv'
  <1>1. BootInv(boot', asked)
    BY DEF IInv, BootInv
  <1>. QED
    BY <1>1 DEF IInv

LEMMA BootKeeps ==
  ASSUME IInv, NEW g \in Boot, BootStep(g)
  PROVE  IInv'
  <1>1. CASE BootCompute(g)
    <2>. DEFINE rows == computeLegacyApprovalEvidenceRows
                next == [at |-> "computed", rows |-> rows]
    <2>1. \A p \in Production, b \in Brand : approvals[p][b] # Null =>
            <<p, b, approvals[p][b]>> \in asked
      BY DEF IInv, ApprovalsInv
    <2>2. Null \notin Decisions
      BY PublishingAssumption DEF Decisions, States
    <2>3. rows \in Rows /\ RowsOk(rows, asked)
      BY <2>1, <2>2 DEF computeLegacyApprovalEvidenceRows, Rows, RowsOk, Key
    <2>4. boot' = [boot EXCEPT ![g] = next]
      BY <1>1 DEF BootCompute
    <2>. HIDE DEF rows
    <2>5. next \in Boots /\ next.rows = rows
      BY <2>3 DEF Boots
    <2>. HIDE DEF next
    <2>. QED
      BY <1>1, <2>3, <2>4, <2>5, BootMoves DEF BootCompute, docs, IInv
  <1>2. CASE BootFilter(g)
    <2>. DEFINE rows == toInsert(boot[g].rows)
                next == [at |-> "missing", rows |-> rows]
    <2>1. boot[g].rows \in Rows /\ RowsOk(boot[g].rows, asked)
      BY <1>2, BootTagged DEF BootFilter, IInv, BootInv
    <2>2. rows \in Rows /\ RowsOk(rows, asked)
      BY <2>1 DEF toInsert, Rows, RowsOk
    <2>3. boot' = [boot EXCEPT ![g] = next]
      BY <1>2 DEF BootFilter
    <2>. HIDE DEF rows
    <2>4. next \in Boots /\ next.rows = rows
      BY <2>2 DEF Boots
    <2>. HIDE DEF next
    <2>. QED
      BY <1>2, <2>2, <2>3, <2>4, BootMoves DEF BootFilter, docs, IInv
  <1>3. CASE BootInsert(g)
    <2>1. boot[g].rows \in Rows /\ RowsOk(boot[g].rows, asked)
      BY <1>3, BootTagged DEF BootInsert, IInv, BootInv
    <2>2. EvidenceInv(evidence', asked)
      BY <1>3, <2>1 DEF BootInsert, IInv, EvidenceInv, Rows, RowsOk
    <2>3. [at |-> "serving"] \in Boots /\ [at |-> "serving"].at = "serving"
      BY DEF Boots
    <2>. QED
      BY <1>3, <2>2, <2>3, BootMoves DEF BootInsert, docs
  <1>4. CASE Restart(g)
    <2>1. [at |-> "down"] \in Boots /\ [at |-> "down"].at = "down"
      BY DEF Boots
    <2>. QED
      BY <1>4, <2>1, BootMoves DEF Restart, docs, IInv
  <1>. QED
    BY <1>1, <1>2, <1>3, <1>4 DEF BootStep

LEMMA NextKeeps == IInv /\ [Next]_vars => IInv'
  <1>. SUFFICES ASSUME IInv, [Next]_vars
                PROVE  IInv'
    OBVIOUS
  <1>1. CASE UNCHANGED vars
    BY <1>1 DEF vars, IInv
  <1>2. ASSUME NEW r \in Request, RequestStep(r)
        PROVE  IInv'
    <2>1. CASE \E p \in Production, b \in Brand, s \in States : ApprovalRead(r, p, b, s)
      BY <2>1, ApprovalReadKeeps
    <2>2. CASE \E p \in Production, t \in SendTypes, fs \in SUBSET Platform :
                 PublishGate(r, p, t, fs)
      BY <2>2, GateKeeps
    <2>3. CASE \E connected \in SUBSET Platform : PublishPrepare(r, connected)
      BY <2>3, PrepareKeeps
    <2>4. CASE \E f \in Platform : PublishNote(r, f)
      BY <2>4, NoteKeeps
    <2>. QED
      BY <1>2, <2>1, <2>2, <2>3, <2>4, ApprovalWriteKeeps, ChecklistKeeps, PostKeeps,
         AcceptedKeeps, EndKeeps DEF RequestStep
  <1>3. ASSUME NEW g \in Boot, BootStep(g)
        PROVE  IInv'
    BY <1>3, BootKeeps
  <1>. QED
    BY <1>1, <1>2, <1>3 DEF Next

LEMMA Invariance == Spec => []IInv
  BY InitInv, NextKeeps, PTL DEF Spec

-----------------------------------------------------------------------------
(* The types, the gate, the map and the posts, for every instance: what went out was
   approved, what is stored was asked for, what is called published was accepted or
   declared.                                                                          *)
THEOREM Typing == Spec => []TypeOK
  <1>1. IInv => TypeOK
    BY DEF IInv, TypeOK, ReqInv, BootInv, ApprovalsInv, EvidenceInv, PostsInv, SentInv
  <1>. QED
    BY <1>1, Invariance, PTL

(* What Postiz is given, whoever sends it and however old the gate's answer was, is of a
   production whose own brand somebody had asked to be approved.                     *)
THEOREM NothingUnapprovedGoesOut == Spec => []SentWasApproved
  <1>1. IInv => SentWasApproved
    BY DEF IInv, SentInv, SentWasApproved
  <1>. QED
    BY <1>1, Invariance, PTL

(* Merges of JSON columns and the backfill store only states that were asked for. *)
THEOREM MergesInventNothing == Spec => []StoredWasAsked
  <1>1. IInv => StoredWasAsked
    BY DEF IInv, ApprovalsInv, EvidenceInv, RowsOk, StoredWasAsked
  <1>. QED
    BY <1>1, Invariance, PTL

(* A post called published was accepted by Postiz to go out at once, or a caller of PUT
   declared it so: no merge, no lost answer and no loop that stops half way makes it so. *)
THEOREM PublishedIsTrue == Spec => []PublishedWasSent
  <1>1. IInv => PublishedWasSent
    BY DEF IInv, PostsInv, Published, PublishedWasSent
  <1>. QED
    BY <1>1, Invariance, PTL

-----------------------------------------------------------------------------
(* One boot at a time: what it found missing stays missing until it inserts. *)
MissingStaysMissing ==
  /\ boot \in [Boot -> Boots]
  /\ BootsNeverCollide

LEMMA SingleBootStep ==
  ASSUME NEW g0, Boot = {g0}, IInv, MissingStaysMissing, [Next]_vars, IInv'
  PROVE  MissingStaysMissing'
  <1>1. boot' \in [Boot -> Boots]
    BY DEF IInv, BootInv
  <1>2. CASE UNCHANGED <<boot, evidence>>
    BY <1>2 DEF MissingStaysMissing, Collides, BootsNeverCollide
  <1>3. CASE BootStep(g0)
    <2>1. CASE BootFilter(g0)
      <3>1. /\ boot'[g0] = [at |-> "missing", rows |-> toInsert(boot[g0].rows)]
            /\ evidence' = evidence
        BY <2>1 DEF BootFilter, MissingStaysMissing
      <3>2. ~Collides(toInsert(boot[g0].rows))
        BY DEF Collides, toInsert
      <3>. QED
        BY <1>1, <3>1, <3>2 DEF MissingStaysMissing, BootsNeverCollide, Collides
    <2>2. CASE BootCompute(g0) \/ BootInsert(g0) \/ Restart(g0)
      <3>1. boot'[g0].at \in {"computed", "serving", "down"}
        BY <2>2 DEF BootCompute, BootInsert, Restart, MissingStaysMissing
      <3>. QED
        BY <1>1, <3>1 DEF MissingStaysMissing, BootsNeverCollide
    <2>. QED
      BY <1>3, <2>1, <2>2 DEF BootStep
  <1>4. ASSUME NEW r \in Request, RequestStep(r)
        PROVE  UNCHANGED <<boot, evidence>>
    BY <1>4 DEF RequestStep, ApprovalRead, ApprovalWrite, ChecklistRead, ChecklistWrite,
       PostRead, PostWrite, PublishGate, PublishPrepare, PublishAccepted, PublishAnswerLost,
       PublishNote, RequestEnds
  <1>. QED
    BY <1>2, <1>3, <1>4 DEF Next, vars

(* With at most one gateway booting at a time the backfill never dies on the live
   index, however often it is repeated and whatever requests do meanwhile.       *)
THEOREM OneBootNeverCollides ==
  ASSUME NEW g0, Boot = {g0}
  PROVE  Spec => []BootsNeverCollide
  <1>1. Init => MissingStaysMissing
    BY DEF Init, MissingStaysMissing, Boots, BootsNeverCollide
  <1>2. IInv /\ IInv' /\ MissingStaysMissing /\ [Next]_vars => MissingStaysMissing'
    BY SingleBootStep
  <1>3. MissingStaysMissing => BootsNeverCollide
    BY DEF MissingStaysMissing
  <1>. QED
    BY <1>1, <1>2, <1>3, Invariance, PTL DEF Spec

(* Decisions on record are history, however many gateways boot at once: the insert
   is all or nothing.                                                            *)
THEOREM RecordIsHistory == Spec => EvidenceIsHistory
  <1>. DEFINE Kept == \A k \in Key : evidence[k] # Null => evidence'[k] = evidence[k]
  <1>1. [Next]_vars => Kept
    <2>. SUFFICES ASSUME [Next]_vars
                  PROVE  Kept
      OBVIOUS
    <2>1. CASE evidence' = evidence
      BY <2>1
    <2>2. ASSUME NEW g \in Boot, BootInsert(g)
          PROVE  Kept
      BY <2>2 DEF BootInsert, Collides
    <2>3. ASSUME NEW g \in Boot, BootStep(g)
          PROVE  Kept
      BY <2>1, <2>2, <2>3 DEF BootStep, BootCompute, BootFilter, Restart
    <2>4. ASSUME NEW r \in Request, RequestStep(r)
          PROVE  evidence' = evidence
      BY <2>4 DEF RequestStep, ApprovalRead, ApprovalWrite, ChecklistRead, ChecklistWrite,
         PostRead, PostWrite, PublishGate, PublishPrepare, PublishAccepted, PublishAnswerLost,
         PublishNote, RequestEnds
    <2>. QED
      BY <2>1, <2>3, <2>4 DEF Next, vars
  <1>2. [Next]_vars => [Kept]_vars
    BY <1>1
  <1>. QED
    BY <1>2, PTL DEF Spec, EvidenceIsHistory
=============================================================================
