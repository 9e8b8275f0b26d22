---------------------------- MODULE PagesProofs -----------------------------
(* Machine-checked proofs about the dashboard's pages, for any number of productions,
   slots, files, requests, emails, writes, messages and memories.

   The ad index comes first.  Its inductive invariant says what a request in flight may
   rely on relative to the index, the cuts and the folders; `Later` says how these three
   may change, so that what one request relies on outlives the steps of the others.    *)
EXTENDS MCPages, Sequences, WellFoundedInduction, TLAPS

Names(I, c, p) == c \in DOMAIN I /\ I[c].prod = p
Filed(F, f)    == "approved" \in configured => F[f] \in {"approved", "archived"}
Below(I, c)    == \A v \in 1 .. (c[2] - 1) : <<c[1], v>> \in DOMAIN I

Later(I, J, C, D, F, G) ==
  /\ \A c \in DOMAIN I : c \in DOMAIN J /\ J[c].prod = I[c].prod
  /\ \A p \in Production : C[p] \subseteq D[p]
  /\ \A f \in File : Filed(F, f) => Filed(G, f)

HeldOk(x, I, C, F) ==
  /\ x.op \in {"issue", "insert"} => x.next \in Code /\ Below(I, x.next)
  /\ x.op = "attach" => Names(I, x.next, x.prod)
  /\ x.op \in {"archive", "approve", "code", "insert", "save"} /\ x.code # Null =>
       Names(I, x.code, x.prod)
  /\ x.op \in {"code", "insert", "save"} /\ x.file # Null => Filed(F, x.file)
  /\ x.op \in {"upload", "row", "index", "finish"} /\ x.code # Null => Names(I, x.code, x.prod)
  /\ x.op \in {"index", "finish"} => x.file \in C[x.prod]
  /\ x.op = "index" => x.code # Null

ReqOk(f, I, C, F) ==
  /\ f \in [Request -> Requests \cup {Null}]
  /\ \A r \in Request : f[r] # Null => HeldOk(f[r], I, C, F)

IndexOk(I, C, F) ==
  /\ DOMAIN I \subseteq Code
  /\ \A c \in DOMAIN I : I[c] \in Entry
  /\ \A c \in DOMAIN I : Below(I, c)
  /\ \A c \in DOMAIN I : I[c].final # Null => I[c].final \in C[I[c].prod]
  /\ \A c \in DOMAIN I : I[c].poster # Null => Filed(F, I[c].poster)

CodesOk(A, I) ==
  /\ A \in [Production -> Code \cup {Null}]
  /\ \A p \in Production : A[p] # Null => Names(I, A[p], p)

FinalOk(V, K, C) ==
  /\ V \in [Production -> File \cup {Null}]
  /\ K \in [Production -> BOOLEAN]
  /\ \A p \in Production : /\ V[p] # Null => V[p] \in C[p]
                           /\ K[p] => V[p] # Null

IInv ==
  /\ configured \in FolderSets
  /\ IndexOk(index, cuts, folder)
  /\ CodesOk(adIndexCode, index)
  /\ FinalOk(finalVideo, complete, cuts)
  /\ thumbnail \in [Production -> File \cup {Null}]
  /\ cuts \in [Production -> SUBSET File]
  /\ folder \in [File -> Folders \cup {Null}]
  /\ ReqOk(req, index, cuts, folder)

-----------------------------------------------------------------------------
(* Requests, by tag. *)
LEMMA Tagged ==
  ASSUME NEW x \in Requests
  PROVE  /\ x.op \in {"issue", "attach"} => x \in Issuing
         /\ x.op \in {"archive", "approve", "code", "insert", "save"} => x \in Approval
         /\ x.op = "upload" => x \in Cutting
         /\ x.op \in {"row", "index", "finish"} => x \in Storing
  BY DEF Requests, Issuing, Approval, Cutting, Storing

LEMMA Held ==
  ASSUME IInv, NEW r \in Request, req[r] # Null
  PROVE  req[r] \in Requests /\ HeldOk(req[r], index, cuts, folder)
  BY DEF IInv, ReqOk

(* What a request relies on outlives the steps of the others. *)
LEMMA HeldStays ==
  ASSUME NEW x \in Requests, NEW I, NEW J, NEW C, NEW D, NEW F, NEW G,
         Later(I, J, C, D, F, G), HeldOk(x, I, C, F)
  PROVE  HeldOk(x, J, D, G)
  <1>1. CASE x \in Issuing
    BY <1>1 DEF HeldOk, Later, Names, Below, Issuing
  <1>2. CASE x \in Approval
    BY <1>2 DEF HeldOk, Later, Names, Below, Approval
  <1>3. CASE x \in Cutting
    BY <1>3 DEF HeldOk, Later, Names, Cutting
  <1>4. CASE x \in Storing
    BY <1>4 DEF HeldOk, Later, Names, Storing
  <1>. QED
    BY <1>1, <1>2, <1>3, <1>4 DEF Requests

(* Request r moves on to `next`. *)
Moves(r, next) ==
  /\ req' = [req EXCEPT ![r] = next]
  /\ next \in Requests \cup {Null}
  /\ Later(index, index', cuts, cuts', folder, folder')
  /\ next = Null \/ HeldOk(next, index', cuts', folder')

LEMMA MovesKeep ==
  ASSUME IInv, NEW r \in Request, NEW next, Moves(r, next)
  PROVE  ReqOk(req', index', cuts', folder')
  <1>1. req' \in [Request -> Requests \cup {Null}]
    BY DEF IInv, ReqOk, Moves
  <1>2. ASSUME NEW q \in Request, req'[q] # Null
        PROVE  HeldOk(req'[q], index', cuts', folder')
    <2>1. CASE q = r
      BY <1>2, <2>1 DEF IInv, ReqOk, Moves
    <2>2. CASE q # r
      <3>1. req'[q] = req[q] /\ req[q] \in Requests /\ HeldOk(req[q], index, cuts, folder)
        BY <1>2, <2>2 DEF IInv, ReqOk, Moves
      <3>. QED
        BY <3>1, HeldStays DEF Moves
    <2>. QED
      BY <2>1, <2>2
  <1>. QED
    BY <1>1, <1>2 DEF ReqOk

LEMMA LaterSame ==
  Later(index, index, cuts, cuts, folder, folder)
  BY DEF Later

(* The environment stays as it is, so the parts of the invariant may be shown for the
   folders it names now.                                                             *)
LEMMA SameEnvironment ==
  ASSUME configured \in FolderSets, UNCHANGED configured,
         IndexOk(index', cuts', folder'), CodesOk(adIndexCode', index'),
         FinalOk(finalVideo', complete', cuts'),
         thumbnail' \in [Production -> File \cup {Null}],
         cuts' \in [Production -> SUBSET File],
         folder' \in [File -> Folders \cup {Null}],
         ReqOk(req', index', cuts', folder')
  PROVE  IInv'
  <1>1. IndexOk(index, cuts, folder)'
    BY DEF IndexOk, Filed, Below
  <1>2. ReqOk(req, index, cuts, folder)'
    BY DEF ReqOk, HeldOk, Filed, Names, Below
  <1>3. CodesOk(adIndexCode, index)' /\ FinalOk(finalVideo, complete, cuts)'
    BY DEF CodesOk, FinalOk, Names
  <1>. QED
    BY <1>1, <1>2, <1>3 DEF IInv

(* A step that only moves a request. *)
LEMMA MovesOnly ==
  ASSUME IInv, NEW r \in Request, NEW next \in Requests \cup {Null},
         req' = [req EXCEPT ![r] = next],
         next = Null \/ HeldOk(next, index, cuts, folder),
         UNCHANGED <<configured, index, adIndexCode, thumbnail, finalVideo, complete, cuts, folder>>
  PROVE  IInv'
  <1>1. Moves(r, next)
    BY LaterSame DEF Moves
  <1>. QED
    BY <1>1, MovesKeep, SameEnvironment DEF IInv

(* A production's row changes and the index, the cuts and the folders do not. *)
LEMMA RowChanges ==
  ASSUME IInv, NEW r \in Request, req' = [req EXCEPT ![r] = Null],
         CodesOk(adIndexCode', index), thumbnail' \in [Production -> File \cup {Null}],
         FinalOk(finalVideo', complete', cuts),
         UNCHANGED <<configured, index, cuts, folder>>
  PROVE  IInv'
  <1>1. Moves(r, Null)
    BY LaterSame DEF Moves
  <1>. QED
    BY <1>1, MovesKeep, SameEnvironment DEF IInv

(* A code joins the index: next in its slot, and not there before. *)
LEMMA CodeJoins ==
  ASSUME IInv, NEW r \in Request, NEW c \in Code, NEW p \in Production,
         NEW status \in {"draft", "approved"}, Free(c), Below(index, c),
         Inserted(c, NewEntry(p, status)),
         NEW next \in Requests, req' = [req EXCEPT ![r] = next],
         Names(index', c, p) /\ Later(index, index', cuts, cuts, folder, folder) =>
           HeldOk(next, index', cuts, folder),
         UNCHANGED <<configured, adIndexCode, thumbnail, finalVideo, complete, cuts, folder>>
  PROVE  IInv'
  <1>1. /\ DOMAIN index' = DOMAIN index \cup {c}
        /\ \A d \in DOMAIN index : index'[d] = index[d]
        /\ index'[c] = NewEntry(p, status)
    BY DEF Inserted, Free
  <1>2. NewEntry(p, status) \in Entry /\ Null = NewEntry(p, status).poster
        /\ Null = NewEntry(p, status).final /\ p = NewEntry(p, status).prod
    BY DEF NewEntry, Entry
  <1>3. Later(index, index', cuts, cuts, folder, folder) /\ Names(index', c, p)
    BY <1>1, <1>2 DEF Later, Names
  <1>4. IndexOk(index', cuts, folder)
    <2>1. DOMAIN index' \subseteq Code /\ \A d \in DOMAIN index' : index'[d] \in Entry
      BY <1>1, <1>2 DEF IInv, IndexOk
    <2>2. \A d \in DOMAIN index' : Below(index', d)
      BY <1>1 DEF IInv, IndexOk, Below
    <2>. QED
      BY <1>1, <1>2, <2>1, <2>2 DEF IInv, IndexOk
  <1>5. CodesOk(adIndexCode, index')
    BY <1>3 DEF IInv, CodesOk, Names, Later
  <1>6. Moves(r, next)
    BY <1>3 DEF Moves
  <1>. QED
    BY <1>4, <1>5, <1>6, MovesKeep, SameEnvironment DEF IInv

(* An issued code's entry changes, not its production. *)
LEMMA EntryChanges ==
  ASSUME IInv, NEW r \in Request, NEW c \in DOMAIN index, NEW e \in Entry,
         index' = [index EXCEPT ![c] = e], e.prod = index[c].prod,
         e.final # Null => e.final \in cuts[e.prod],
         e.poster # Null => Filed(folder, e.poster),
         NEW next \in Requests, req' = [req EXCEPT ![r] = next],
         HeldOk(next, index, cuts, folder),
         UNCHANGED <<configured, adIndexCode, thumbnail, finalVideo, complete, cuts, folder>>
  PROVE  IInv'
  <1>1. /\ DOMAIN index' = DOMAIN index
        /\ \A d \in DOMAIN index : index'[d] = IF d = c THEN e ELSE index[d]
    OBVIOUS
  <1>2. Later(index, index', cuts, cuts, folder, folder)
    BY <1>1 DEF Later
  <1>3. IndexOk(index', cuts, folder)
    BY <1>1 DEF IInv, IndexOk, Below
  <1>4. CodesOk(adIndexCode, index')
    BY <1>1 DEF IInv, CodesOk, Names
  <1>5. Moves(r, next)
    BY <1>2, HeldStays DEF Moves
  <1>. QED
    BY <1>3, <1>4, <1>5, MovesKeep, SameEnvironment DEF IInv

(* Files move between folders, and a filed poster stays filed. *)
LEMMA FilesMove ==
  ASSUME IInv, NEW r \in Request, NEW next \in Requests, req' = [req EXCEPT ![r] = next],
         folder' \in [File -> Folders \cup {Null}],
         \A f \in File : Filed(folder, f) => Filed(folder', f),
         HeldOk(next, index, cuts, folder'),
         UNCHANGED <<configured, index, adIndexCode, thumbnail, finalVideo, complete, cuts>>
  PROVE  IInv'
  <1>1. Later(index, index, cuts, cuts, folder, folder')
    BY DEF Later
  <1>2. IndexOk(index, cuts, folder')
    BY DEF IInv, IndexOk, Entry
  <1>3. Moves(r, next)
    BY <1>1 DEF Moves
  <1>. QED
    BY <1>2, <1>3, MovesKeep, SameEnvironment DEF IInv

-----------------------------------------------------------------------------
LEMMA InitInv == Init => IInv
  <1>. SUFFICES ASSUME Init
                PROVE  IInv
    OBVIOUS
  <1>1. IndexOk(index, cuts, folder)
    BY DEF Init, IndexOk
  <1>2. CodesOk(adIndexCode, index) /\ FinalOk(finalVideo, complete, cuts)
    BY DEF Init, CodesOk, FinalOk
  <1>3. ReqOk(req, index, cuts, folder)
    BY DEF Init, ReqOk
  <1>4. folder \in [File -> Folders \cup {Null}]
    BY DEF Init, Folders
  <1>. QED
    BY <1>1, <1>2, <1>3, <1>4 DEF Init, IInv

(* A request that numbers a code: all lower versions are issued, also later. *)
LEMMA Numbered ==
  ASSUME IInv, NEW c \in Numbers, NextVersion(c)
  PROVE  c \in Code /\ Below(index, c)
  <1>1. /\ c \in Code /\ c = <<c[1], c[2]>> /\ c[2] \in Nat \ {0}
    BY AdIndexAssumption DEF Numbers, Code
  <1>2. CASE c[2] = 1
    BY <1>1, <1>2 DEF Below
  <1>3. CASE <<c[1], c[2] - 1>> \in DOMAIN index
    <2>. DEFINE d == <<c[1], c[2] - 1>>
    <2>1. Below(index, d) /\ d[1] = c[1] /\ d[2] = c[2] - 1
      BY <1>3 DEF IInv, IndexOk
    <2>2. ASSUME NEW v \in 1 .. (c[2] - 1)
          PROVE  <<c[1], v>> \in DOMAIN index
      <3>1. CASE v = c[2] - 1
        BY <1>3, <3>1
      <3>2. CASE v # c[2] - 1
        <4>1. v \in 1 .. (d[2] - 1)
          BY <1>1, <2>1, <3>2
        <4>. QED
          BY <2>1, <4>1 DEF Below
      <3>. QED
        BY <3>1, <3>2
    <2>. QED
      BY <1>1, <2>2 DEF Below
  <1>. QED
    BY <1>2, <1>3 DEF NextVersion

LEMMA IssueKeeps ==
  ASSUME IInv, NEW r \in Request,
         \/ \E p \in Production, c \in Numbers : IssueRead(r, p, c)
         \/ IssueInsert(r)
         \/ IssueAttach(r)
  PROVE  IInv'
  <1>1. ASSUME NEW p \in Production, NEW c \in Numbers, IssueRead(r, p, c)
        PROVE  IInv'
    <2>. DEFINE next == [op |-> "issue", prod |-> p, next |-> c]
    <2>1. c \in Code /\ Below(index, c)
      BY <1>1, Numbered DEF IssueRead
    <2>2. next \in Requests /\ HeldOk(next, index, cuts, folder)
      BY <2>1 DEF Requests, Issuing, HeldOk
    <2>3. req' = [req EXCEPT ![r] = next]
      BY <1>1 DEF IssueRead, Become
    <2>. HIDE DEF next
    <2>. QED
      BY <1>1, <2>2, <2>3, MovesOnly DEF IssueRead, production
  <1>2. CASE IssueInsert(r)
    <2>. DEFINE x == req[r]
                next == [x EXCEPT !.op = "attach"]
    <2>1. x \in Issuing /\ HeldOk(x, index, cuts, folder) /\ x.op = "issue"
      BY <1>2, Held, Tagged DEF IssueInsert, In
    <2>2. x.prod \in Production /\ x.next \in Code /\ Below(index, x.next)
      BY <2>1 DEF Issuing, HeldOk
    <2>3. next \in Requests /\ next.op = "attach" /\ next.prod = x.prod /\ next.next = x.next
      BY <2>1 DEF Requests, Issuing
    <2>4. req' = [req EXCEPT ![r] = next]
      BY <1>2 DEF IssueInsert, Become
    <2>. HIDE DEF next, x
    <2>5. Names(index', x.next, x.prod) => HeldOk(next, index', cuts, folder)
      BY <2>3 DEF HeldOk
    <2>6. Free(x.next) /\ Inserted(x.next, NewEntry(x.prod, "draft"))
      BY <1>2 DEF IssueInsert, x
    <2>. QED
      BY <1>2, <2>2, <2>3, <2>4, <2>5, <2>6, CodeJoins DEF IssueInsert, production
  <1>3. CASE IssueAttach(r)
    <2>. DEFINE x == req[r]
    <2>1. x \in Issuing /\ HeldOk(x, index, cuts, folder) /\ x.op = "attach"
      BY <1>3, Held, Tagged DEF IssueAttach, In
    <2>2. x.prod \in Production /\ x.next \in Code /\ Names(index, x.next, x.prod)
      BY <2>1 DEF Issuing, HeldOk
    <2>3. adIndexCode' = [adIndexCode EXCEPT ![x.prod] = x.next]
      BY <1>3 DEF IssueAttach
    <2>. HIDE DEF x
    <2>4. CodesOk(adIndexCode', index)
      BY <2>2, <2>3 DEF IInv, CodesOk
    <2>. QED
      BY <1>3, <2>4, RowChanges DEF IssueAttach, Become, IInv
  <1>. QED
    BY <1>1, <1>2, <1>3

-----------------------------------------------------------------------------
LEMMA PosterReadKeeps ==
  ASSUME IInv, NEW r \in Request, NEW p \in Production, NEW f \in Named \cup {Null},
         NEW s \in Slot \cup {Null}, PosterRead(r, p, f, s)
  PROVE  IInv'
  <1>. DEFINE next == [op |-> FirstMove(f, thumbnail[p]), prod |-> p, file |-> f, slot |-> s,
                       code |-> adIndexCode[p], next |-> Null,
                       thumb |-> IF f = Null \/ FirstMove(f, thumbnail[p]) = "archive"
                                 THEN thumbnail[p] ELSE Null]
  <1>1. f \in File \cup {Null}
    BY AdIndexAssumption
  <1>2. adIndexCode[p] \in Code \cup {Null} /\ thumbnail[p] \in File \cup {Null}
        /\ (adIndexCode[p] # Null => Names(index, adIndexCode[p], p))
    BY DEF IInv, CodesOk
  <1>3. FirstMove(f, thumbnail[p]) \in {"archive", "approve", "code"}
        /\ (FirstMove(f, thumbnail[p]) = "code" => f = Null \/ "approved" \notin configured)
    BY DEF FirstMove
  <1>4. next \in Requests
    BY <1>1, <1>2, <1>3 DEF Requests, Approval
  <1>5. HeldOk(next, index, cuts, folder)
    BY <1>1, <1>2, <1>3 DEF HeldOk, Filed
  <1>6. req' = [req EXCEPT ![r] = next]
    BY DEF PosterRead, Become
  <1>. HIDE DEF next
  <1>. QED
    BY <1>4, <1>5, <1>6, MovesOnly DEF PosterRead, production

LEMMA PosterMoveKeeps ==
  ASSUME IInv, NEW r \in Request, PosterArchive(r) \/ PosterApprove(r)
  PROVE  IInv'
  <1>. DEFINE x == req[r]
  <1>1. x \in Approval /\ HeldOk(x, index, cuts, folder) /\ x.op \in {"archive", "approve"}
    BY Held, Tagged DEF PosterArchive, PosterApprove, In
  <1>2. folder \in [File -> Folders \cup {Null}]
    BY DEF IInv
  <1>3. CASE PosterArchive(r)
    <2>. DEFINE next == [x EXCEPT !.op = "approve", !.thumb = Null]
    <2>1. next \in Requests
      BY <1>1 DEF Requests, Approval
    <2>2. HeldOk(next, index, cuts, folder')
      BY <1>1 DEF HeldOk, Approval
    <2>3. /\ folder' \in [File -> Folders \cup {Null}]
          /\ \A f \in File : Filed(folder, f) => Filed(folder', f)
      BY <1>2, <1>3 DEF PosterArchive, Folders, Filed
    <2>4. req' = [req EXCEPT ![r] = next]
      BY <1>3 DEF PosterArchive, Become
    <2>. HIDE DEF next
    <2>. QED
      BY <1>3, <2>1, <2>2, <2>3, <2>4, FilesMove DEF PosterArchive, production
  <1>4. CASE PosterApprove(r)
    <2>. DEFINE next == [x EXCEPT !.op = "code"]
    <2>1. next \in Requests
      BY <1>1 DEF Requests, Approval
    <2>2. /\ folder' \in [File -> Folders \cup {Null}]
          /\ \A f \in File : Filed(folder, f) => Filed(folder', f)
          /\ x.file \in File => Filed(folder', x.file)
      BY <1>2, <1>4 DEF PosterApprove, Folders, Filed
    <2>3. HeldOk(next, index, cuts, folder')
      BY <1>1, <2>2 DEF HeldOk, Approval
    <2>4. req' = [req EXCEPT ![r] = next]
      BY <1>4 DEF PosterApprove, Become
    <2>. HIDE DEF next
    <2>. QED
      BY <1>4, <2>1, <2>2, <2>3, <2>4, FilesMove DEF PosterApprove, production
  <1>. QED
    BY <1>3, <1>4

LEMMA PosterCodeKeeps ==
  ASSUME IInv, NEW r \in Request,
         (\E c \in Numbers : PosterNumber(r, c)) \/ PosterInsert(r) \/ PosterMark(r)
  PROVE  IInv'
  <1>. DEFINE x == req[r]
  <1>1. x \in Approval /\ HeldOk(x, index, cuts, folder) /\ x.op \in {"code", "insert"}
    BY Held, Tagged DEF PosterNumber, PosterInsert, PosterMark, In
  <1>2. ASSUME NEW c \in Numbers, PosterNumber(r, c)
        PROVE  IInv'
    <2>. DEFINE next == [x EXCEPT !.op = "insert", !.next = c]
    <2>1. c \in Code /\ Below(index, c)
      BY <1>2, Numbered DEF PosterNumber
    <2>2. next \in Requests
      BY <1>1, <2>1 DEF Requests, Approval
    <2>3. HeldOk(next, index, cuts, folder)
      BY <1>1, <1>2, <2>1 DEF HeldOk, Approval, PosterNumber, In
    <2>4. req' = [req EXCEPT ![r] = next]
      BY <1>2 DEF PosterNumber, Become
    <2>. HIDE DEF next
    <2>. QED
      BY <1>2, <2>2, <2>3, <2>4, MovesOnly DEF PosterNumber, production
  <1>3. CASE PosterInsert(r)
    <2>. DEFINE next == [x EXCEPT !.op = "save", !.code = x.next, !.next = Null]
    <2>1. x.op = "insert"
      BY <1>3 DEF PosterInsert, In
    <2>2. x.prod \in Production /\ x.next \in Code /\ Below(index, x.next)
      BY <1>1, <2>1 DEF Approval, HeldOk
    <2>3. next \in Requests
      BY <1>1, <2>2 DEF Requests, Approval
    <2>4. Names(index', x.next, x.prod) /\ Later(index, index', cuts, cuts, folder, folder)
            => HeldOk(next, index', cuts, folder)
      BY <1>1, <2>1 DEF HeldOk, Approval
    <2>5. req' = [req EXCEPT ![r] = next]
      BY <1>3 DEF PosterInsert, Become
    <2>6. Free(x.next) /\ Inserted(x.next, NewEntry(x.prod, "approved"))
      BY <1>3 DEF PosterInsert
    <2>. HIDE DEF next, x
    <2>. QED
      BY <1>3, <2>2, <2>3, <2>4, <2>5, <2>6, CodeJoins DEF PosterInsert, production
  <1>4. CASE PosterMark(r)
    <2>. DEFINE next == [x EXCEPT !.op = "save"]
                e == [index[x.code] EXCEPT !.status = "approved", !.poster = x.file]
    <2>1. x.op = "code" /\ x.code # Null
      BY <1>4 DEF PosterMark, In
    <2>2. /\ Names(index, x.code, x.prod)
          /\ x.file \in File \cup {Null}
          /\ x.file # Null => Filed(folder, x.file)
      BY <1>1, <2>1 DEF HeldOk, Approval
    <2>3. x.code \in DOMAIN index /\ index[x.code] \in Entry
      BY <2>2 DEF Names, IInv, IndexOk
    <2>4. /\ e \in Entry
          /\ e.prod = index[x.code].prod
          /\ e.final = index[x.code].final
          /\ e.poster = x.file
      BY <2>2, <2>3 DEF Entry
    <2>5. e.final # Null => e.final \in cuts[e.prod]
      BY <2>3, <2>4 DEF IInv, IndexOk
    <2>6. e.poster # Null => Filed(folder, e.poster)
      BY <2>2, <2>4 DEF Names
    <2>7. next \in Requests /\ HeldOk(next, index, cuts, folder)
      BY <1>1, <2>1 DEF Requests, Approval, HeldOk
    <2>8. index' = [index EXCEPT ![x.code] = e] /\ req' = [req EXCEPT ![r] = next]
      BY <1>4 DEF PosterMark, Become
    <2>. HIDE DEF next, e, x
    <2>. QED
      BY <1>4, <2>3, <2>4, <2>5, <2>6, <2>7, <2>8, EntryChanges DEF PosterMark, production
  <1>. QED
    BY <1>2, <1>3, <1>4

LEMMA PosterSaveKeeps ==
  ASSUME IInv, NEW r \in Request, PosterSave(r)
  PROVE  IInv'
  <1>. DEFINE x == req[r]
  <1>1. x \in Approval /\ HeldOk(x, index, cuts, folder)
    BY Held, Tagged DEF PosterSave, In, HeldOk
  <1>2. /\ x.prod \in Production /\ x.code \in Code \cup {Null}
        /\ x.code # Null => Names(index, x.code, x.prod)
        /\ x.file \in File \cup {Null} /\ x.thumb \in File \cup {Null}
    BY <1>1 DEF Approval, HeldOk
  <1>3. /\ adIndexCode' = [adIndexCode EXCEPT ![x.prod] = x.code]
        /\ thumbnail' = [thumbnail EXCEPT ![x.prod] = IF x.file # Null THEN x.file ELSE x.thumb]
    BY DEF PosterSave
  <1>. HIDE DEF x
  <1>4. CodesOk(adIndexCode', index)
    BY <1>2, <1>3 DEF IInv, CodesOk
  <1>5. thumbnail' \in [Production -> File \cup {Null}]
    BY <1>2, <1>3 DEF IInv
  <1>. QED
    BY <1>4, <1>5, RowChanges DEF PosterSave, Become, IInv

-----------------------------------------------------------------------------
LEMMA CutUploadKeeps ==
  ASSUME IInv, NEW r \in Request,
         (\E p \in Production : CutRead(r, p)) \/ (\E f \in File : CutUpload(r, f))
  PROVE  IInv'
  <1>1. ASSUME NEW p \in Production, CutRead(r, p)
        PROVE  IInv'
    <2>. DEFINE next == [op |-> "upload", prod |-> p, code |-> adIndexCode[p]]
    <2>1. next \in Requests /\ HeldOk(next, index, cuts, folder)
      BY DEF IInv, CodesOk, Requests, Cutting, HeldOk
    <2>2. req' = [req EXCEPT ![r] = next]
      BY <1>1 DEF CutRead, Become
    <2>. HIDE DEF next
    <2>. QED
      BY <1>1, <2>1, <2>2, MovesOnly DEF CutRead, production
  <1>2. ASSUME NEW f \in File, CutUpload(r, f)
        PROVE  IInv'
    <2>. DEFINE x == req[r]
                next == [op |-> "row", prod |-> x.prod, code |-> x.code, file |-> f]
    <2>1. x \in Cutting /\ HeldOk(x, index, cuts, folder) /\ x.op = "upload"
      BY <1>2, Held, Tagged DEF CutUpload, In
    <2>2. next \in Requests
      BY <2>1 DEF Requests, Storing, Cutting
    <2>3. HeldOk(next, index, cuts, folder')
      BY <2>1 DEF HeldOk, Cutting
    <2>4. /\ folder' \in [File -> Folders \cup {Null}]
          /\ \A g \in File : Filed(folder, g) => Filed(folder', g)
      BY <1>2, AdIndexAssumption DEF CutUpload, IInv, Folders, Filed
    <2>5. req' = [req EXCEPT ![r] = next]
      BY <1>2 DEF CutUpload, Stored, Become
    <2>. HIDE DEF next
    <2>. QED
      BY <1>2, <2>2, <2>3, <2>4, <2>5, FilesMove DEF CutUpload, production
  <1>. QED
    BY <1>1, <1>2

LEMMA CutStoreKeeps ==
  ASSUME IInv, NEW r \in Request, CutRow(r) \/ CutIndex(r) \/ CutFinish(r)
  PROVE  IInv'
  <1>. DEFINE x == req[r]
  <1>1. /\ x \in Storing /\ HeldOk(x, index, cuts, folder)
        /\ x.prod \in Production /\ x.file \in File
    BY Held, Tagged DEF CutRow, CutIndex, CutFinish, In, Storing
  <1>2. CASE CutRow(r)
    <2>. DEFINE next == [op |-> IF x.code # Null THEN "index" ELSE "finish", prod |-> x.prod,
                         code |-> x.code, file |-> x.file]
    <2>1. /\ cuts' = [cuts EXCEPT ![x.prod] = cuts[x.prod] \cup {x.file}]
          /\ req' = [req EXCEPT ![r] = next]
          /\ x.op = "row"
      BY <1>2 DEF CutRow, Stored, Become, In
    <2>2. /\ cuts' \in [Production -> SUBSET File]
          /\ \A p \in Production : cuts[p] \subseteq cuts'[p]
          /\ x.file \in cuts'[x.prod]
      BY <1>1, <2>1 DEF IInv
    <2>3. Later(index, index, cuts, cuts', folder, folder)
      BY <2>2 DEF Later
    <2>4. next \in Requests
      BY <1>1 DEF Requests, Storing
    <2>5. HeldOk(next, index, cuts', folder)
      BY <1>1, <2>1, <2>2 DEF HeldOk, Storing
    <2>6. IndexOk(index, cuts', folder) /\ FinalOk(finalVideo, complete, cuts')
      BY <2>2 DEF IInv, IndexOk, FinalOk, Entry
    <2>. HIDE DEF next
    <2>7. Moves(r, next)
      BY <1>2, <2>1, <2>3, <2>4, <2>5 DEF CutRow, production, Moves
    <2>. QED
      BY <1>2, <2>2, <2>6, <2>7, MovesKeep, SameEnvironment DEF CutRow, production, IInv
  <1>3. CASE CutIndex(r)
    <2>. DEFINE next == [op |-> "finish", prod |-> x.prod, code |-> x.code, file |-> x.file]
                e == [index[x.code] EXCEPT !.final = x.file]
    <2>1. x.op = "index"
      BY <1>3 DEF CutIndex, In
    <2>2. next \in Requests /\ HeldOk(next, index, cuts, folder)
      BY <1>1, <2>1 DEF Requests, Storing, HeldOk
    <2>3. index' = [index EXCEPT ![x.code] = e] /\ req' = [req EXCEPT ![r] = next]
      BY <1>3 DEF CutIndex, Stored, Become
    <2>4. /\ x.code # Null
          /\ Names(index, x.code, x.prod)
          /\ x.file \in cuts[x.prod]
      BY <1>1, <2>1 DEF HeldOk
    <2>5. x.code \in DOMAIN index /\ index[x.code] \in Entry
      BY <2>4 DEF Names, IInv, IndexOk
    <2>6. /\ e \in Entry /\ e.prod = index[x.code].prod /\ e.final = x.file
          /\ e.poster = index[x.code].poster
      BY <1>1, <2>5 DEF Entry
    <2>7. e.final # Null => e.final \in cuts[e.prod]
      BY <2>4, <2>6 DEF Names
    <2>8. e.poster # Null => Filed(folder, e.poster)
      BY <2>5, <2>6 DEF IInv, IndexOk
    <2>. HIDE DEF next, e, x
    <2>. QED
      BY <1>3, <2>2, <2>3, <2>5, <2>6, <2>7, <2>8, EntryChanges DEF CutIndex, production
  <1>4. CASE CutFinish(r)
    <2>1. x.op = "finish" /\ x.file \in cuts[x.prod]
      BY <1>1, <1>4 DEF CutFinish, In, HeldOk
    <2>2. /\ finalVideo' = [finalVideo EXCEPT ![x.prod] = x.file]
          /\ complete' = [complete EXCEPT ![x.prod] = TRUE]
      BY <1>4 DEF CutFinish
    <2>3. x.file # Null
      BY <1>1, AdIndexAssumption
    <2>. HIDE DEF x
    <2>4. FinalOk(finalVideo', complete', cuts)
      BY <1>1, <2>1, <2>2, <2>3 DEF IInv, FinalOk
    <2>. QED
      BY <1>4, <2>4, RowChanges DEF CutFinish, Become, IInv
  <1>. QED
    BY <1>2, <1>3, <1>4

-----------------------------------------------------------------------------
LEMMA EndKeeps ==
  ASSUME IInv, NEW r \in Request, RequestEnds(r)
  PROVE  IInv'
  BY MovesOnly DEF RequestEnds, Become, production

LEMMA CoverKeeps ==
  ASSUME IInv, NEW p \in Production, NEW f \in Named, Cover(p, f)
  PROVE  IInv'
  <1>1. f \in File
    BY AdIndexAssumption
  <1>. QED
    BY <1>1, SameEnvironment DEF Cover, IInv

LEMMA NextKeeps == IInv /\ [Next]_vars => IInv'
  <1>. SUFFICES ASSUME IInv, [Next]_vars
                PROVE  IInv'
    OBVIOUS
  <1>1. CASE UNCHANGED vars
    BY <1>1, SameEnvironment DEF vars, production, IInv
  <1>2. ASSUME NEW r \in Request, RequestStep(r)
        PROVE  IInv'
    <2>1. CASE \E p \in Production, f \in Named \cup {Null}, s \in Slot \cup {Null} :
                 PosterRead(r, p, f, s)
      BY <2>1, PosterReadKeeps
    <2>. QED
      BY <1>2, <2>1, IssueKeeps, PosterMoveKeeps, PosterCodeKeeps, PosterSaveKeeps,
         CutUploadKeeps, CutStoreKeeps, EndKeeps DEF RequestStep
  <1>3. ASSUME NEW p \in Production, NEW f \in Named, Cover(p, f)
        PROVE  IInv'
    BY <1>3, CoverKeeps
  <1>. QED
    BY <1>1, <1>2, <1>3 DEF Next

LEMMA Invariance == Spec => []IInv
  BY InitInv, NextKeeps, PTL DEF Spec

-----------------------------------------------------------------------------
(* The types. *)
THEOREM Typing == Spec => []TypeOK
  <1>1. IInv => TypeOK
    BY DEF IInv, TypeOK, IndexOk, CodesOk, FinalOk, ReqOk
  <1>. QED
    BY <1>1, Invariance, PTL

(* Versions without gaps: a request that numbered a code from an old read finds it
   taken, because the versions below its number are issued for ever.              *)
THEOREM NoVersionIsSkipped == Spec => []VersionsDense
  <1>1. IInv => VersionsDense
    <2>. SUFFICES ASSUME IInv, NEW c \in DOMAIN index, NEW v \in 1 .. c[2]
                  PROVE  <<c[1], v>> \in DOMAIN index
      BY DEF VersionsDense
    <2>1. c \in Code /\ c = <<c[1], c[2]>> /\ c[2] \in Nat /\ Below(index, c)
      BY DEF IInv, IndexOk, Code
    <2>2. CASE v = c[2]
      BY <2>1, <2>2
    <2>3. CASE v # c[2]
      <3>1. v \in 1 .. (c[2] - 1)
        BY <2>1, <2>3
      <3>. QED
        BY <2>1, <3>1 DEF Below
    <2>. QED
      BY <2>2, <2>3
  <1>. QED
    BY <1>1, Invariance, PTL

(* A production's code was issued to it. *)
THEOREM CodesNameTheirProduction == Spec => []CodeNamesItsProduction
  <1>1. IInv => CodeNamesItsProduction
    BY DEF IInv, CodesOk, Names, CodeNamesItsProduction
  <1>. QED
    BY <1>1, Invariance, PTL

(* A final cut that a production or its code names became that production's video first. *)
THEOREM CutsStayWithTheirProduction == Spec => []CutsAreOwn
  <1>1. IInv => CutsAreOwn
    BY DEF IInv, FinalOk, IndexOk, CutsAreOwn
  <1>. QED
    BY <1>1, Invariance, PTL

(* Where there is an approved folder, a poster the index calls approved was moved there
   first, whichever file a caller named.                                             *)
THEOREM MarkedPostersAreFiled == Spec => []MarkedPosterIsFiled
  <1>1. IInv => MarkedPosterIsFiled
    BY DEF IInv, IndexOk, Filed, MarkedPosterIsFiled
  <1>. QED
    BY <1>1, Invariance, PTL

-----------------------------------------------------------------------------
(* A code is issued once: it keeps its production and its approval. *)
LEMMA CodesKept ==
  ASSUME IInv, [Next]_vars, NEW c \in DOMAIN index
  PROVE  /\ c \in DOMAIN index'
         /\ index'[c].prod = index[c].prod
         /\ index[c].status = "approved" => index'[c].status = "approved"
  <1>1. CASE index' = index
    BY <1>1
  <1>2. ASSUME NEW d, NEW e, d \notin DOMAIN index, Inserted(d, e)
        PROVE  c \in DOMAIN index' /\ index'[c] = index[c]
    BY <1>2 DEF Inserted
  <1>3. index[c] \in Entry
    BY DEF IInv, IndexOk
  <1>4. ASSUME NEW r \in Request, IssueInsert(r) \/ PosterInsert(r)
        PROVE  c \in DOMAIN index' /\ index'[c] = index[c]
    BY <1>2, <1>4 DEF IssueInsert, PosterInsert, Free
  <1>5. ASSUME NEW r \in Request, PosterMark(r) \/ CutIndex(r)
        PROVE  /\ c \in DOMAIN index'
               /\ index'[c].prod = index[c].prod
               /\ index[c].status = "approved" => index'[c].status = "approved"
    <2>. DEFINE d == req[r].code
    <2>1. CASE PosterMark(r)
      <3>1. index' = [index EXCEPT ![d] =
                        [index[d] EXCEPT !.status = "approved", !.poster = req[r].file]]
        BY <2>1 DEF PosterMark
      <3>2. CASE d = c
        BY <1>3, <3>1, <3>2 DEF Entry
      <3>3. CASE d # c
        <4>. HIDE DEF d
        <4>. QED
          BY <3>1, <3>3
      <3>. QED
        BY <3>2, <3>3
    <2>2. CASE CutIndex(r)
      <3>1. index' = [index EXCEPT ![d] = [index[d] EXCEPT !.final = req[r].file]]
        BY <2>2 DEF CutIndex
      <3>2. CASE d = c
        BY <1>3, <3>1, <3>2 DEF Entry
      <3>3. CASE d # c
        <4>. HIDE DEF d
        <4>. QED
          BY <3>1, <3>3
      <3>. QED
        BY <3>2, <3>3
    <2>. QED
      BY <1>5, <2>1, <2>2
  <1>6. ASSUME NEW r \in Request, RequestStep(r)
        PROVE  index' = index \/ IssueInsert(r) \/ PosterInsert(r) \/ PosterMark(r) \/ CutIndex(r)
    BY <1>6 DEF RequestStep, IssueRead, IssueAttach, PosterRead, PosterArchive, PosterApprove,
       PosterNumber, PosterSave, CutRead, CutUpload, CutRow, CutFinish, RequestEnds
  <1>7. ASSUME NEW p \in Production, NEW f \in Named, Cover(p, f)
        PROVE  index' = index
    BY <1>7 DEF Cover
  <1>8. CASE UNCHANGED vars
    BY <1>1, <1>8 DEF vars
  <1>9. ASSUME NEW r \in Request, RequestStep(r)
        PROVE  /\ c \in DOMAIN index'
               /\ index'[c].prod = index[c].prod
               /\ index[c].status = "approved" => index'[c].status = "approved"
    <2>1. CASE index' = index
      BY <2>1
    <2>2. CASE IssueInsert(r) \/ PosterInsert(r)
      BY <1>4, <2>2
    <2>3. CASE PosterMark(r) \/ CutIndex(r)
      BY <1>5, <2>3
    <2>. QED
      BY <1>6, <1>9, <2>1, <2>2, <2>3
  <1>10. CASE \E p \in Production, f \in Named : Cover(p, f)
    BY <1>1, <1>7, <1>10
  <1>11. CASE \E r \in Request : RequestStep(r)
    BY <1>9, <1>11
  <1>. QED
    BY <1>8, <1>10, <1>11 DEF Next

(* Codes are never re-used. *)
THEOREM NoCodeIsReused == Spec => CodesAreNeverReused
  <1>. DEFINE Kept == \A c \in DOMAIN index :
                 /\ c \in DOMAIN index'
                 /\ index'[c].prod = index[c].prod
                 /\ index[c].status = "approved" => index'[c].status = "approved"
  <1>1. IInv /\ [Next]_vars => Kept
    BY CodesKept
  <1>2. IInv /\ [Next]_vars => [Kept]_vars
    BY <1>1
  <1>. QED
    BY <1>2, Invariance, PTL DEF Spec, CodesAreNeverReused

-----------------------------------------------------------------------------
Founder == [email : Email, principal : Principal \cup {Null}]

(* What the .env of a gateway can hold. *)
Deployable == /\ \A c \in Config : c.founders \in Seq(Founder)
              /\ Window \in Nat /\ MaxTime \in Nat

(* A nonempty set of indices has a greatest one: they are bounded. *)
LEMMA GreatestIsMember ==
  ASSUME NEW n \in Nat, NEW S \in SUBSET (1 .. n), S # {}
  PROVE  Access!Max(S) \in S
  <1> DEFINE T == {n - i : i \in S}
  <1>1. \A i \in S : i \in Nat /\ i <= n /\ n - i \in Nat
    OBVIOUS
  <1>2. T \subseteq Nat /\ T # {}
    BY <1>1
  <1>3. PICK k \in T : \A t \in T : <<t, k>> \notin OpToRel(<, Nat)
    BY <1>2, WFMin, NatLessThanWellFounded
  <1>4. \A t \in T : ~(t < k)
    BY <1>2, <1>3 DEF OpToRel
  <1>5. PICK m \in S : k = n - m
    BY <1>3
  <1>6. ASSUME NEW i \in S PROVE m >= i
    <2>1. n - i \in T
      OBVIOUS
    <2>2. ~(n - i < n - m)
      BY <1>4, <1>5, <2>1
    <2>. QED
      BY <1>1, <2>2
  <1>. QED
    BY <1>6 DEF Access!Max

(* A signed step-up is a real login's, and every admission was justified when made. *)
AuthorityInv ==
  /\ now \in 0 .. MaxTime /\ config \in Config
  /\ logins \subseteq Access!Token
  /\ stepups \subseteq logins /\ minting \subseteq logins
  /\ AuthorityIsProven

(* FOUNDER_PRINCIPALS names the principal it gives an email. *)
LEMMA FounderIsListed ==
  ASSUME Deployable, config \in Config, NEW e, Access!FounderOf(e) # Null
  PROVE  \E i \in DOMAIN config.founders :
           config.founders[i] = [email |-> e, principal |-> Access!FounderOf(e)]
  <1> DEFINE of == {i \in DOMAIN config.founders :
                      ~Access!Malformed(config.founders[i]) /\ config.founders[i].email = e}
  <1>1. of # {} /\ Access!FounderOf(e) = config.founders[Access!Max(of)].principal
    BY DEF Access!FounderOf
  <1>2. Len(config.founders) \in Nat /\ DOMAIN config.founders = 1 .. Len(config.founders)
    BY DEF Deployable
  <1>3. Access!Max(of) \in of
    BY <1>1, <1>2, GreatestIsMember
  <1>4. config.founders[Access!Max(of)] \in Founder
    <2>1. config.founders \in Seq(Founder) /\ Access!Max(of) \in DOMAIN config.founders
      BY <1>3 DEF Deployable
    <2> HIDE DEF of
    <2>. QED
      BY <2>1
  <1>. QED
    BY <1>1, <1>3, <1>4 DEF Founder

LEMMA AuthorityStep == Deployable /\ AuthorityInv /\ [Access!Next]_(Access!vars) => AuthorityInv'
  <1> SUFFICES ASSUME Deployable, AuthorityInv, [Access!Next]_(Access!vars) PROVE AuthorityInv'
    OBVIOUS
  <1> USE DEF AuthorityInv, Access!server, Access!page
  <1>1. ASSUME NEW w \in Write, NEW cookie \in stepups \cup {Null}, Access!Serve(w, cookie)
        PROVE  AuthorityInv'
    <2>1. UNCHANGED <<now, config, logins, session, stepups>> /\ minting' = minting
      BY <1>1 DEF Access!Serve, Access!Prompt
    <2>2. CASE admitted' = admitted
      BY <2>1, <2>2 DEF AuthorityIsProven, Access!AuthorityIsProven, Access!Token
    <2>3. CASE admitted' # admitted
      <3> DEFINE a == [kind |-> "write", email |-> session, at |-> now,
                       principal |-> Access!FounderOf(session), founders |-> config.founders]
      <3>1. /\ admitted' = admitted \cup {a} /\ Access!FounderOf(session) # Null
            /\ cookie # Null /\ cookie[1] = session /\ Access!FreshAt(cookie[2])
        BY <1>1, <2>3 DEF Access!Serve, Access!VerifiedStepUp
      <3>2. /\ cookie \in logins /\ cookie[2] \in 0 .. MaxTime
            /\ now - cookie[2] \in 0 .. Window
        BY <3>1 DEF Access!FreshAt, Access!Token, Deployable
      <3>3. PICK i \in DOMAIN config.founders :
              config.founders[i] = [email |-> session, principal |-> Access!FounderOf(session)]
        BY <3>1, FounderIsListed
      <3>4. AuthorityIsProven'
        BY <2>1, <3>1, <3>2, <3>3 DEF AuthorityIsProven, Access!AuthorityIsProven
      <3>. QED
        BY <2>1, <3>4 DEF Access!Token
    <2>. QED
      BY <2>2, <2>3
  <1> USE DEF AuthorityIsProven, Access!AuthorityIsProven, Access!Token
  <1>2. CASE Access!Tick
    BY <1>2 DEF Deployable, Access!Tick
  <1>3. ASSUME NEW e \in Email, Access!Login(e) PROVE AuthorityInv'
    BY <1>3 DEF Access!Login
  <1>4. ASSUME NEW e \in Email, Access!SignIn(e) PROVE AuthorityInv'
    BY <1>4 DEF Access!SignIn
  <1>5. CASE Access!Logout
    BY <1>5 DEF Access!Logout
  <1>6. ASSUME NEW c \in Config, Access!Restart(c) PROVE AuthorityInv'
    BY <1>6 DEF Access!Restart
  <1>7. ASSUME NEW s \in Secret, Access!WorkerCall(s) PROVE AuthorityInv'
    BY <1>7 DEF Access!WorkerCall, Access!WorkerAuthorized
  <1>8. ASSUME NEW w \in Write, Access!Submit(w) PROVE AuthorityInv'
    BY <1>8 DEF Access!Submit
  <1>9. CASE Access!OpenPopup \/ Access!Cancel
    BY <1>9 DEF Access!OpenPopup, Access!Cancel
  <1>10. CASE Access!PopupAnswers
    BY <1>10 DEF Access!PopupAnswers
  <1>11. ASSUME NEW login \in minting, Access!StepUp(login) PROVE AuthorityInv'
    BY <1>11 DEF Access!StepUp
  <1>12. CASE UNCHANGED Access!vars
    BY <1>12 DEF Access!vars
  <1>. QED
    BY <1>1, <1>2, <1>3, <1>4, <1>5, <1>6, <1>7, <1>8, <1>9, <1>10, <1>11, <1>12 DEF Access!Next

(* Whatever cookies a request carries and however often the gateway is configured anew, a
   write was let through only for a founder who had just logged in at Google.         *)
THEOREM AuthorityStaysProven == ASSUME Deployable PROVE Access!Spec => []AuthorityIsProven
  <1>1. Access!Init => AuthorityInv
    BY DEF Deployable, Access!Init, AuthorityInv, AuthorityIsProven, Access!AuthorityIsProven
  <1>2. AuthorityInv => AuthorityIsProven
    BY DEF AuthorityInv
  <1>. QED
    BY <1>1, <1>2, AuthorityStep, PTL DEF Access!Spec

-----------------------------------------------------------------------------
(* The writes of the dashboard and the prompt they wait for. *)
HangInv == write = [w \in Write |-> write[w]] /\ NobodyHangs

LEMMA HangStep == Null \notin Write /\ HangInv /\ [Access!Next]_(Access!vars) => HangInv'
  <1> SUFFICES ASSUME Null \notin Write, HangInv, [Access!Next]_(Access!vars) PROVE HangInv'
    OBVIOUS
  <1> USE DEF HangInv, NobodyHangs, Access!NobodyHangs, Access!server, Access!page, Access!Set
  <1>1. ASSUME NEW w \in Write, NEW cookie \in stepups \cup {Null}, Access!Serve(w, cookie)
        PROVE  HangInv'
    BY <1>1 DEF Access!Serve, Access!Prompt
  <1>2. CASE Access!Tick \/ Access!Logout \/ Access!OpenPopup \/ Access!PopupAnswers
    BY <1>2 DEF Access!Tick, Access!Logout, Access!OpenPopup, Access!PopupAnswers
  <1>3. CASE Access!Cancel
    BY <1>3 DEF Access!Cancel
  <1>4. ASSUME NEW e \in Email, Access!Login(e) \/ Access!SignIn(e) PROVE HangInv'
    BY <1>4 DEF Access!Login, Access!SignIn
  <1>5. ASSUME NEW c \in Config, Access!Restart(c) PROVE HangInv'
    BY <1>5 DEF Access!Restart
  <1>6. ASSUME NEW s \in Secret, Access!WorkerCall(s) PROVE HangInv'
    BY <1>6 DEF Access!WorkerCall
  <1>7. ASSUME NEW w \in Write, Access!Submit(w) PROVE HangInv'
    BY <1>7 DEF Access!Submit
  <1>8. ASSUME NEW login \in minting, Access!StepUp(login) PROVE HangInv'
    BY <1>8 DEF Access!StepUp
  <1>9. CASE UNCHANGED Access!vars
    BY <1>9 DEF Access!vars
  <1>. QED
    BY <1>1, <1>2, <1>3, <1>4, <1>5, <1>6, <1>7, <1>8, <1>9 DEF Access!Next

(* A write that waits for the step-up prompt is the one the prompt will answer, unless a
   later write took the prompt over.                                                  *)
THEOREM NobodyIsLeftHanging == ASSUME Null \notin Write PROVE Access!Spec => []NobodyHangs
  <1>1. Access!Init => HangInv
    BY DEF Access!Init, HangInv, NobodyHangs, Access!NobodyHangs
  <1>2. HangInv => NobodyHangs
    BY DEF HangInv
  <1>. QED
    BY <1>1, <1>2, HangStep, PTL DEF Access!Spec

-----------------------------------------------------------------------------
Chats    == [kind : {"chat"}, message : Message, next : Seq(Allen!Turn),
             brand : Brand \cup {Null}, step : {"sent", "answered", "remembered"}]
Changes  == [kind : {"add", "edit", "remove"}, memory : Memory, brand : Brand \cup {Null},
             step : {"sent", "answered"}]
Meetings == [kind : {"meeting"}, brand : Brand \cup {Null},
             step : {"sent", "answered", "remembered"}]
Asked    == [kind : {"list"}, brand : Brand \cup {Null}, step : {"sent"}]
Listings == [kind : {"list"}, step : {"answered"}, rows : SUBSET Memory]

(* Every reply of a conversation stands directly after its question. *)
Paired(s) ==
  /\ s \in Seq(Allen!Turn)
  /\ \A i \in DOMAIN s : s[i][1] = "reply" => i > 1 /\ s[i - 1] = <<"user", s[i][2]>>

EndsAsking(s, m) == s # <<>> /\ s[Len(s)] = <<"user", m>>

(* What a handler closed over when it began is paired too, and a chat in flight was
   started with a conversation that ends with its question.                          *)
TalkInv ==
  /\ calls \subseteq Chats \cup Changes \cup Meetings \cup Asked \cup Listings
  /\ brand \in Brand \cup {Null}
  /\ table = [m \in DOMAIN table |-> table[m]] /\ DOMAIN table \subseteq Memory
  /\ Paired(turns)
  /\ voice # Null => Paired(voice.turns) /\ voice.brand \in Brand \cup {Null}
  /\ \A call \in calls : call.kind = "chat" =>
       Paired(call.next) /\ EndsAsking(call.next, call.message)

(* Asking, answering and cutting a conversation short keep it paired. *)
LEMMA QuestionAsked ==
  ASSUME NEW s, Paired(s), NEW m \in Message
  PROVE  /\ Paired(Append(s, <<"user", m>>))
         /\ EndsAsking(Append(s, <<"user", m>>), m)
  <1> DEFINE t == Append(s, <<"user", m>>)
  <1>1. /\ t \in Seq(Allen!Turn) /\ Len(t) = Len(s) + 1 /\ Len(s) \in Nat
        /\ t[Len(t)] = <<"user", m>>
        /\ \A i \in 1 .. Len(s) : t[i] = s[i]
    BY DEF Paired, Allen!Turn
  <1> HIDE DEF t
  <1>2. ASSUME NEW i \in DOMAIN t, t[i][1] = "reply"
        PROVE  i > 1 /\ t[i - 1] = <<"user", t[i][2]>>
    <2>1. i \in 1 .. Len(s)
      BY <1>1, <1>2
    <2>2. s[i][1] = "reply" /\ i \in DOMAIN s
      BY <1>1, <1>2, <2>1 DEF Paired
    <2>3. i > 1 /\ s[i - 1] = <<"user", s[i][2]>>
      BY <2>2 DEF Paired
    <2>. QED
      BY <1>1, <2>1, <2>3
  <1>. QED
    BY <1>1, <1>2 DEF Paired, EndsAsking, t

LEMMA QuestionAnswered ==
  ASSUME NEW s, Paired(s), NEW m \in Message, EndsAsking(s, m)
  PROVE  Paired(Append(s, <<"reply", m>>))
  <1> DEFINE t == Append(s, <<"reply", m>>)
  <1>1. /\ t \in Seq(Allen!Turn) /\ Len(t) = Len(s) + 1 /\ Len(s) \in Nat \ {0}
        /\ t[Len(t)] = <<"reply", m>>
        /\ \A i \in 1 .. Len(s) : t[i] = s[i]
    BY DEF Paired, Allen!Turn, EndsAsking
  <1> HIDE DEF t
  <1>2. ASSUME NEW i \in DOMAIN t, t[i][1] = "reply"
        PROVE  i > 1 /\ t[i - 1] = <<"user", t[i][2]>>
    <2>1. CASE i \in 1 .. Len(s)
      <3>1. s[i][1] = "reply" /\ i \in DOMAIN s
        BY <1>1, <1>2, <2>1 DEF Paired
      <3>2. i > 1 /\ s[i - 1] = <<"user", s[i][2]>>
        BY <3>1 DEF Paired
      <3>. QED
        BY <1>1, <2>1, <3>2
    <2>2. CASE i = Len(t)
      BY <1>1, <2>2 DEF EndsAsking
    <2>. QED
      BY <1>1, <2>1, <2>2
  <1>. QED
    BY <1>1, <1>2 DEF Paired, t

LEMMA PrefixPaired ==
  ASSUME NEW s, Paired(s), NEW i \in DOMAIN s
  PROVE  Paired(SubSeq(s, 1, i - 1))
  <1> DEFINE t == SubSeq(s, 1, i - 1)
  <1>1. /\ i \in Nat /\ i - 1 <= Len(s) /\ Len(s) \in Nat /\ t \in Seq(Allen!Turn) /\ DOMAIN t = 1 .. i - 1
        /\ \A j \in 1 .. i - 1 : t[j] = s[j]
    BY DEF Paired
  <1> HIDE DEF t
  <1>2. ASSUME NEW j \in DOMAIN t, t[j][1] = "reply"
        PROVE  j > 1 /\ t[j - 1] = <<"user", t[j][2]>>
    <2>1. j \in DOMAIN s /\ s[j][1] = "reply"
      BY <1>1, <1>2 DEF Paired
    <2>2. j > 1 /\ s[j - 1] = <<"user", s[j][2]>>
      BY <2>1 DEF Paired
    <2>. QED
      BY <1>1, <2>2
  <1>. QED
    BY <1>1, <1>2 DEF Paired, t

-----------------------------------------------------------------------------
(* A message is sent with a paired conversation. *)
LEMMA ChatStarts ==
  ASSUME TalkInv, NEW m \in Message, NEW base, NEW b \in Brand \cup {Null}, NEW wasBusy,
         Paired(base), Allen!RunChat(m, base, b, wasBusy), UNCHANGED <<brand, table>>,
         voice' \in {voice, Null}
  PROVE  TalkInv'
  <1> DEFINE next == Append(base, <<"user", m>>)
             call == [kind |-> "chat", message |-> m, next |-> next, brand |-> b, step |-> "sent"]
  <1>1. Paired(next) /\ EndsAsking(next, m)
    BY QuestionAsked
  <1>2. turns' = next /\ calls' = calls \cup {call}
    BY DEF Allen!RunChat, Allen!Send
  <1> HIDE DEF next
  <1>3. call \in Chats
    BY <1>1 DEF Chats, Paired
  <1>4. call.kind = "chat" /\ call.next = next /\ call.message = m
    OBVIOUS
  <1> HIDE DEF call
  <1>. QED
    BY <1>1, <1>2, <1>3, <1>4 DEF TalkInv

(* A request is answered by one that asks or says the same. *)
LEMMA CallServed ==
  ASSUME TalkInv, NEW call \in calls, NEW answer, Allen!Serve(call, answer),
         answer \in Chats \cup Changes \cup Meetings \cup Listings,
         answer.kind = "chat" => /\ call.kind = "chat" /\ answer.next = call.next
                                 /\ answer.message = call.message,
         table' = [m \in DOMAIN table' |-> table'[m]], DOMAIN table' \subseteq Memory
  PROVE  TalkInv'
  BY DEF TalkInv, Allen!Serve, Allen!chat

LEMMA TableKept ==
  ASSUME TalkInv, NEW m \in Memory, NEW b,
         Allen!Remembered(m, b) \/ Allen!Rebranded(m, b) \/ Allen!Forgotten(m)
  PROVE  table' = [x \in DOMAIN table' |-> table'[x]] /\ DOMAIN table' \subseteq Memory
  BY DEF TalkInv, Allen!Remembered, Allen!Rebranded, Allen!Forgotten

LEMMA TalkStep == TalkInv /\ [Allen!Next]_(Allen!vars) => TalkInv'
  <1> SUFFICES ASSUME TalkInv, [Allen!Next]_(Allen!vars) PROVE TalkInv'
    OBVIOUS
  <1>1. ASSUME NEW m \in Message, NEW wakes \in BOOLEAN, Allen!Type(m, wakes) PROVE TalkInv'
    BY <1>1, ChatStarts DEF Allen!Type, Allen!store, TalkInv
  <1>2. ASSUME NEW m \in Message, NEW wakes \in BOOLEAN, Allen!Heard(m, wakes) PROVE TalkInv'
    BY <1>2, ChatStarts DEF Allen!Heard, Allen!store, TalkInv
  <1>3. ASSUME NEW m \in Message, NEW i \in DOMAIN turns, Allen!Rerun(m, i) PROVE TalkInv'
    <2>1. Paired(SubSeq(turns, 1, i - 1))
      BY PrefixPaired DEF TalkInv
    <2>. QED
      BY <1>3, <2>1, ChatStarts DEF Allen!Rerun, Allen!store, TalkInv
  <1>4. CASE Allen!ToggleGate \/ Allen!HeardNoQuestion
    BY <1>4 DEF Allen!ToggleGate, Allen!HeardNoQuestion, Allen!store, TalkInv
  <1>5. CASE Allen!Record
    BY <1>5 DEF Allen!Record, Allen!store, TalkInv
  <1>6. ASSUME NEW call \in calls, Allen!ServeChat(call) PROVE TalkInv'
    <2>1. PICK reported \in BOOLEAN :
            /\ Allen!MemoryOp(reported)
            /\ Allen!Serve(call, [call EXCEPT !.step = IF reported THEN "remembered" ELSE "answered"])
      BY <1>6 DEF Allen!ServeChat
    <2> DEFINE answer == [call EXCEPT !.step = IF reported THEN "remembered" ELSE "answered"]
    <2>2. call \in Chats
      BY <1>6 DEF Allen!ServeChat, TalkInv, Changes, Meetings, Asked, Listings
    <2>3. answer = [kind |-> "chat", message |-> call.message, next |-> call.next,
                    brand |-> call.brand, step |-> IF reported THEN "remembered" ELSE "answered"]
      BY <2>2 DEF Chats
    <2>4. answer \in Chats /\ answer.next = call.next /\ answer.message = call.message
      BY <2>2, <2>3 DEF Chats
    <2>5. table' = [m \in DOMAIN table' |-> table'[m]] /\ DOMAIN table' \subseteq Memory
      BY <2>1, TableKept DEF Allen!MemoryOp, TalkInv
    <2> HIDE DEF answer
    <2>. QED
      BY <1>6, <2>1, <2>4, <2>5, CallServed DEF Allen!ServeChat, answer
  <1>7. ASSUME NEW call \in calls, Allen!ServeList(call) PROVE TalkInv'
    <2> DEFINE answer == [kind |-> "list", step |-> "answered", rows |-> Allen!View(call.brand)]
    <2>1. answer \in Listings /\ answer.kind # "chat"
      BY DEF Listings, Allen!View, TalkInv
    <2>2. Allen!Serve(call, answer) /\ UNCHANGED table
      BY <1>7 DEF Allen!ServeList, Allen!store
    <2> HIDE DEF answer
    <2>. QED
      BY <2>1, <2>2, CallServed DEF TalkInv
  <1>8. ASSUME NEW call \in calls, Allen!ServeMemory(call) PROVE TalkInv'
    <2> DEFINE answer == [call EXCEPT !.step = "answered"]
    <2>1. call \in Changes
      BY <1>8 DEF Allen!ServeMemory, TalkInv, Chats, Meetings, Asked, Listings
    <2>2. answer = [kind |-> call.kind, memory |-> call.memory, brand |-> call.brand,
                    step |-> "answered"]
      BY <2>1 DEF Changes
    <2>3. answer \in Changes /\ answer.kind # "chat"
      BY <2>1, <2>2 DEF Changes
    <2>4. Allen!Serve(call, answer)
      BY <1>8 DEF Allen!ServeMemory
    <2>5. table' = [m \in DOMAIN table' |-> table'[m]] /\ DOMAIN table' \subseteq Memory
      BY <1>8, <2>1, TableKept DEF Allen!ServeMemory, TalkInv, Changes
    <2> HIDE DEF answer
    <2>. QED
      BY <2>3, <2>4, <2>5, CallServed
  <1>9. ASSUME NEW call \in calls, Allen!ServeMeeting(call) PROVE TalkInv'
    <2>1. call \in Meetings
      BY <1>9 DEF Allen!ServeMeeting, TalkInv, Chats, Changes, Asked, Listings
    <2>2. PICK step \in {"answered", "remembered"} : Allen!Serve(call, [call EXCEPT !.step = step])
      BY <1>9 DEF Allen!ServeMeeting
    <2> DEFINE answer == [call EXCEPT !.step = step]
    <2>3. answer = [kind |-> "meeting", brand |-> call.brand, step |-> step]
      BY <2>1 DEF Meetings
    <2>4. answer \in Meetings /\ answer.kind # "chat"
      BY <2>1, <2>3 DEF Meetings
    <2>5. table' = [m \in DOMAIN table' |-> table'[m]] /\ DOMAIN table' \subseteq Memory
      BY <1>9, TableKept DEF Allen!ServeMeeting, TalkInv
    <2> HIDE DEF answer
    <2>. QED
      BY <2>2, <2>4, <2>5, CallServed DEF answer
  <1>10. ASSUME NEW call \in calls, Allen!Reply(call) PROVE TalkInv'
    <2>1. call \in Chats /\ Paired(call.next) /\ EndsAsking(call.next, call.message)
      BY <1>10 DEF Allen!Reply, TalkInv, Changes, Meetings, Asked, Listings
    <2>2. call.message \in Message /\ call.brand \in Brand \cup {Null}
      BY <2>1 DEF Chats
    <2>3. Paired(turns')
      BY <1>10, <2>1, <2>2, QuestionAnswered DEF Allen!Reply
    <2>4. Allen!List(call.brand) \in Asked /\ Allen!List(call.brand).kind # "chat"
      BY <2>2 DEF Allen!List, Asked
    <2>5. calls' \subseteq calls \cup {Allen!List(call.brand)}
      BY <1>10 DEF Allen!Reply, Allen!Answered
    <2>. QED
      BY <1>10, <2>3, <2>4, <2>5 DEF Allen!Reply, Allen!store, TalkInv
  <1>11. ASSUME NEW call \in calls, Allen!MeetingSaved(call) PROVE TalkInv'
    <2>1. call.brand \in Brand \cup {Null}
      BY <1>11 DEF Allen!MeetingSaved, TalkInv, Chats, Changes, Meetings, Asked, Listings
    <2>2. Allen!List(call.brand) \in Asked /\ Allen!List(call.brand).kind # "chat"
      BY <2>1 DEF Allen!List, Asked
    <2>3. calls' \subseteq calls \cup {Allen!List(call.brand)}
      BY <1>11 DEF Allen!MeetingSaved, Allen!Answered
    <2>. QED
      BY <1>11, <2>2, <2>3 DEF Allen!MeetingSaved, Allen!chat, Allen!store, TalkInv
  <1>12. ASSUME NEW call \in calls,
                Allen!Listed(call) \/ Allen!MemorySaved(call) \/ Allen!Lost(call)
         PROVE  TalkInv'
    BY <1>12 DEF Allen!Listed, Allen!MemorySaved, Allen!Lost, Allen!Answered, Allen!chat,
                 Allen!store, TalkInv
  <1>13. ASSUME NEW b \in Brand \cup {Null}, Allen!ChooseBrand(b) PROVE TalkInv'
    <2>1. Allen!List(b) \in Asked /\ Allen!List(b).kind # "chat"
      BY DEF Allen!List, Asked
    <2>. QED
      BY <1>13, <2>1 DEF Allen!ChooseBrand, Allen!chat, Allen!store, TalkInv
  <1>14. ASSUME NEW b \in Brand \cup {Null}, Allen!EndMeeting(b) PROVE TalkInv'
    <2> DEFINE call == [kind |-> "meeting", brand |-> b, step |-> "sent"]
    <2>1. call \in Meetings /\ call.kind # "chat"
      BY DEF Meetings
    <2>. QED
      BY <1>14, <2>1 DEF Allen!EndMeeting, Allen!chat, Allen!store, TalkInv
  <1>15. ASSUME NEW m \in Memory, NEW kind \in {"add", "edit", "remove"},
                Allen!ChangeMemory(kind, m)
         PROVE  TalkInv'
    <2> DEFINE call == [kind |-> kind, memory |-> m, brand |-> brand, step |-> "sent"]
    <2>1. call \in Changes /\ call.kind # "chat"
      BY DEF Changes, TalkInv
    <2>. QED
      BY <1>15, <2>1 DEF Allen!ChangeMemory, Allen!Send, Allen!chat, Allen!store, TalkInv
  <1>16. CASE UNCHANGED Allen!vars
    BY <1>16 DEF Allen!vars, TalkInv
  <1>. QED
    BY <1>1, <1>2, <1>3, <1>4, <1>5, <1>6, <1>7, <1>8, <1>9, <1>10, <1>11, <1>12, <1>13, <1>14,
       <1>15, <1>16 DEF Allen!Next

(* However chats, edits and recordings overlap, a reply stands directly after the message
   it answers.                                                                        *)
THEOREM RepliesFollowQuestions == Allen!Spec => []ReplyFollowsQuestion
  <1>1. Allen!Init => TalkInv
    BY DEF Allen!Init, TalkInv, Paired
  <1>2. TalkInv => ReplyFollowsQuestion
    BY DEF TalkInv, Paired, ReplyFollowsQuestion, Allen!ReplyFollowsQuestion
  <1>. QED
    BY <1>1, <1>2, TalkStep, PTL DEF Allen!Spec

-----------------------------------------------------------------------------
(* What the page shows, or will when the answer in flight arrives, is the gateway's list. *)
Pending(call) ==
  /\ call \notin Listings => call.brand = brand
  /\ call \in Listings => call.rows = Allen!View(brand)
  /\ call.kind \in {"chat", "meeting"} /\ call.step # "remembered" => shown = Allen!View(brand)
  /\ call \in Changes /\ call.step = "sent" => shown = Allen!View(brand)
  /\ call.step = "answered" =>
       /\ call.kind = "add" => shown \cup {call.memory} = Allen!View(brand)
       /\ call.kind = "edit" => shown = Allen!View(brand)
       /\ call.kind = "remove" => shown \ {call.memory} = Allen!View(brand)

CurrentInv ==
  ~crossed =>
    /\ voice # Null => voice.brand = brand
    /\ \A c, d \in calls : c = d
    /\ calls = {} => shown = Allen!View(brand)
    /\ \A c \in calls : Pending(c)

(* A request that is sent, or answered, alone. *)
LEMMA CurrentSent ==
  ASSUME CurrentInv, NEW call, calls' = calls \cup {call}, crossed' = (crossed \/ calls # {}),
         call \in Chats \cup Changes \cup Meetings, call.brand = brand, call.step = "sent",
         UNCHANGED <<brand, shown, table>>, voice' \in {voice, Null}
  PROVE  CurrentInv'
  BY DEF CurrentInv, Pending, Allen!View, Chats, Changes, Meetings, Listings

LEMMA ChatCurrent ==
  ASSUME TalkInv, CurrentInv, NEW m \in Message, NEW base, NEW wasBusy, Paired(base),
         Allen!RunChat(m, base, brand, wasBusy), UNCHANGED <<brand, shown, table>>,
         voice' \in {voice, Null}
  PROVE  CurrentInv'
  <1> DEFINE call == [kind |-> "chat", message |-> m, next |-> Append(base, <<"user", m>>),
                      brand |-> brand, step |-> "sent"]
  <1>1. Append(base, <<"user", m>>) \in Seq(Allen!Turn)
    BY QuestionAsked DEF Paired
  <1>2. call \in Chats /\ call.brand = brand /\ call.step = "sent"
    BY <1>1 DEF Chats, TalkInv
  <1>3. calls' = calls \cup {call} /\ crossed' = (crossed \/ calls # {})
    BY DEF Allen!RunChat, Allen!Send
  <1> HIDE DEF call
  <1>. QED
    BY <1>2, <1>3, CurrentSent

LEMMA CurrentServed ==
  ASSUME CurrentInv, NEW call \in calls, NEW answer, Allen!Serve(call, answer),
         ~crossed => Pending(answer)'
  PROVE  CurrentInv'
  BY DEF CurrentInv, Allen!Serve, Allen!chat

LEMMA CurrentStep == TalkInv /\ CurrentInv /\ [Allen!Next]_(Allen!vars) => CurrentInv'
  <1> SUFFICES ASSUME TalkInv, CurrentInv, [Allen!Next]_(Allen!vars) PROVE CurrentInv'
    OBVIOUS
  <1>1. ASSUME NEW m \in Message, NEW wakes \in BOOLEAN, Allen!Type(m, wakes) PROVE CurrentInv'
    BY <1>1, ChatCurrent DEF Allen!Type, Allen!store, TalkInv
  <1>2. ASSUME NEW m \in Message, NEW wakes \in BOOLEAN, Allen!Heard(m, wakes) PROVE CurrentInv'
    <2>1. CASE crossed
      BY <1>2, <2>1 DEF Allen!Heard, Allen!RunChat, Allen!Send, CurrentInv
    <2>2. CASE ~crossed
      BY <1>2, <2>2, ChatCurrent DEF Allen!Heard, Allen!store, TalkInv, CurrentInv
    <2>. QED
      BY <2>1, <2>2
  <1>3. ASSUME NEW m \in Message, NEW i \in DOMAIN turns, Allen!Rerun(m, i) PROVE CurrentInv'
    <2>1. Paired(SubSeq(turns, 1, i - 1))
      BY PrefixPaired DEF TalkInv
    <2>. QED
      BY <1>3, <2>1, ChatCurrent DEF Allen!Rerun, Allen!store, TalkInv
  <1>4. CASE Allen!ToggleGate \/ Allen!HeardNoQuestion
    BY <1>4 DEF Allen!ToggleGate, Allen!HeardNoQuestion, Allen!store, CurrentInv, Pending, Allen!View
  <1>5. CASE Allen!Record
    BY <1>5 DEF Allen!Record, Allen!store, CurrentInv, Pending, Allen!View
  <1>6. ASSUME NEW call \in calls, Allen!ServeChat(call) PROVE CurrentInv'
    <2>1. PICK reported \in BOOLEAN :
            /\ Allen!MemoryOp(reported)
            /\ Allen!Serve(call, [call EXCEPT !.step = IF reported THEN "remembered" ELSE "answered"])
      BY <1>6 DEF Allen!ServeChat
    <2> DEFINE answer == [call EXCEPT !.step = IF reported THEN "remembered" ELSE "answered"]
    <2>2. call \in Chats /\ call.step = "sent"
      BY <1>6 DEF Allen!ServeChat, Allen!Serve, TalkInv, Changes, Meetings, Asked, Listings
    <2>3. answer = [kind |-> "chat", message |-> call.message, next |-> call.next,
                    brand |-> call.brand, step |-> IF reported THEN "remembered" ELSE "answered"]
      BY <2>2 DEF Chats
    <2>4. /\ answer.kind = "chat" /\ answer \notin Listings \cup Changes /\ answer.brand = call.brand
          /\ answer.step = IF reported THEN "remembered" ELSE "answered"
      BY <2>3 DEF Listings, Changes
    <2>5. ~reported => UNCHANGED table
      BY <2>1 DEF Allen!MemoryOp
    <2>6. UNCHANGED <<shown, brand>>
      BY <2>1 DEF Allen!Serve
    <2> HIDE DEF answer
    <2>7. ~crossed => Pending(answer)'
      BY <2>2, <2>4, <2>5, <2>6 DEF Pending, CurrentInv, Allen!View, Chats, Listings, Changes
    <2>. QED
      BY <2>1, <2>7, CurrentServed DEF answer
  <1>7. ASSUME NEW call \in calls, Allen!ServeList(call) PROVE CurrentInv'
    <2>1. PICK answer : answer = [kind |-> "list", step |-> "answered", rows |-> Allen!View(call.brand)]
      OBVIOUS
    <2>2. call \in Asked
      BY <1>7 DEF Allen!ServeList, Allen!Serve, TalkInv, Chats, Changes, Meetings, Listings
    <2>3. call \notin Listings /\ answer \notin Changes /\ answer.kind = "list"
      BY <2>1, <2>2 DEF Asked, Listings, Changes
    <2>4. Allen!Serve(call, answer) /\ UNCHANGED <<table, brand>>
      BY <1>7, <2>1 DEF Allen!ServeList, Allen!Serve, Allen!store
    <2>5. ~crossed => answer.rows = Allen!View(brand)
      BY <2>1, <2>3 DEF CurrentInv, Pending
    <2>6. answer \in Listings
      BY <2>1 DEF Listings, Allen!View, TalkInv
    <2>7. ~crossed => Pending(answer)'
      BY <2>3, <2>4, <2>5, <2>6 DEF Pending, Allen!View
    <2>. QED
      BY <2>4, <2>7, CurrentServed
  <1>8. ASSUME NEW call \in calls, Allen!ServeMemory(call) PROVE CurrentInv'
    <2> DEFINE answer == [call EXCEPT !.step = "answered"]
    <2>1. call \in Changes /\ call.step = "sent"
      BY <1>8 DEF Allen!ServeMemory, Allen!Serve, TalkInv, Chats, Meetings, Asked, Listings
    <2>2. answer = [kind |-> call.kind, memory |-> call.memory, brand |-> call.brand,
                    step |-> "answered"]
      BY <2>1 DEF Changes
    <2>3. /\ answer \in Changes /\ answer \notin Listings /\ answer.brand = call.brand
          /\ answer.kind = call.kind /\ answer.memory = call.memory /\ answer.step = "answered"
      BY <2>1, <2>2 DEF Changes, Listings
    <2>4. Allen!Serve(call, answer) /\ UNCHANGED <<shown, brand>>
      BY <1>8 DEF Allen!ServeMemory, Allen!Serve
    <2> HIDE DEF answer
    <2>5. ~crossed => call.brand = brand /\ shown = Allen!View(brand)
      BY <2>1 DEF Pending, CurrentInv, Changes, Listings
    <2>6. ASSUME ~crossed PROVE Pending(answer)'
      <3>1. CASE call.kind = "add"
        <4>1. Allen!View(brand)' = shown \cup {call.memory}
          BY <1>8, <2>4, <2>5, <2>6, <3>1 DEF Allen!ServeMemory, Allen!Remembered, Allen!View
        <4>. QED
          BY <2>3, <2>4, <2>5, <2>6, <3>1, <4>1 DEF Pending
      <3>2. CASE call.kind = "edit"
        <4>1. Allen!View(brand)' = shown
          BY <1>8, <2>4, <2>5, <2>6, <3>2 DEF Allen!ServeMemory, Allen!View
        <4>. QED
          BY <2>3, <2>4, <2>5, <2>6, <3>2, <4>1 DEF Pending
      <3>3. CASE call.kind = "remove"
        <4>1. Allen!View(brand)' = shown \ {call.memory}
          BY <1>8, <2>4, <2>5, <2>6, <3>3 DEF Allen!ServeMemory, Allen!Forgotten, Allen!View
        <4>. QED
          BY <2>3, <2>4, <2>5, <2>6, <3>3, <4>1 DEF Pending
      <3>. QED
        BY <2>1, <3>1, <3>2, <3>3 DEF Changes
    <2>. QED
      BY <2>4, <2>6, CurrentServed
  <1>9. ASSUME NEW call \in calls, Allen!ServeMeeting(call) PROVE CurrentInv'
    <2>1. call \in Meetings /\ call.step = "sent"
      BY <1>9 DEF Allen!ServeMeeting, Allen!Serve, TalkInv, Chats, Changes, Asked, Listings
    <2>2. PICK step \in {"answered", "remembered"} :
            Allen!Serve(call, [call EXCEPT !.step = step]) /\ (step = "answered" => UNCHANGED table)
      BY <1>9 DEF Allen!ServeMeeting
    <2> DEFINE answer == [call EXCEPT !.step = step]
    <2>3. answer = [kind |-> "meeting", brand |-> call.brand, step |-> step]
      BY <2>1 DEF Meetings
    <2>4. /\ answer \notin Listings \cup Changes /\ answer.brand = call.brand
          /\ answer.kind = "meeting" /\ answer.step = step
      BY <2>3 DEF Listings, Changes
    <2>5. UNCHANGED <<shown, brand>>
      BY <2>2 DEF Allen!Serve
    <2> HIDE DEF answer
    <2>6. ~crossed => Pending(answer)'
      BY <2>1, <2>2, <2>4, <2>5 DEF Pending, CurrentInv, Allen!View, Meetings, Listings, Changes
    <2>. QED
      BY <2>2, <2>6, CurrentServed DEF answer
  <1>10. ASSUME NEW call \in calls, Allen!Reply(call) \/ Allen!MeetingSaved(call) PROVE CurrentInv'
    <2>1. call \in Chats \cup Meetings
      BY <1>10 DEF Allen!Reply, Allen!MeetingSaved, TalkInv, Changes, Asked, Listings
    <2>2. /\ calls' = IF call.step = "remembered" THEN (calls \ {call}) \cup {Allen!List(call.brand)}
                                                  ELSE calls \ {call}
          /\ UNCHANGED <<brand, shown, table, voice, crossed>>
      BY <1>10 DEF Allen!Reply, Allen!MeetingSaved, Allen!Answered, Allen!chat, Allen!store
    <2>3. ~crossed => call.brand = brand /\ (call.step # "remembered" => shown = Allen!View(brand))
      BY <2>1 DEF CurrentInv, Pending, Chats, Meetings, Listings
    <2>4. ~crossed => Pending(Allen!List(call.brand))'
      BY <2>2, <2>3 DEF Pending, Allen!List, Listings, Changes
    <2>. QED
      BY <2>2, <2>3, <2>4 DEF CurrentInv, Allen!View
  <1>11. ASSUME NEW call \in calls, Allen!Listed(call) PROVE CurrentInv'
    <2>1. call \in Listings
      BY <1>11 DEF Allen!Listed, TalkInv, Chats, Changes, Meetings, Asked
    <2>. QED
      BY <1>11, <2>1 DEF Allen!Listed, Allen!Answered, Allen!chat, Allen!store, CurrentInv, Pending,
                         Allen!View
  <1>12. ASSUME NEW call \in calls, Allen!MemorySaved(call) PROVE CurrentInv'
    <2>1. call \in Changes
      BY <1>12 DEF Allen!MemorySaved, TalkInv, Chats, Meetings, Asked, Listings
    <2>2. /\ calls' = calls \ {call} /\ call.step = "answered"
          /\ UNCHANGED <<brand, table, voice, crossed>>
      BY <1>12 DEF Allen!MemorySaved, Allen!Answered, Allen!chat, Allen!store
    <2>3. ~crossed => shown' = Allen!View(brand)
      BY <1>12, <2>1, <2>2 DEF Allen!MemorySaved, CurrentInv, Pending, Changes
    <2>. QED
      BY <2>2, <2>3 DEF CurrentInv, Allen!View
  <1>13. ASSUME NEW call \in calls, Allen!Lost(call) PROVE CurrentInv'
    BY <1>13 DEF Allen!Lost, CurrentInv
  <1>14. ASSUME NEW b \in Brand \cup {Null}, Allen!ChooseBrand(b) PROVE CurrentInv'
    <2>1. Allen!List(b).kind = "list" /\ Allen!List(b).brand = b /\ Allen!List(b).step = "sent"
          /\ Allen!List(b) \notin Listings \cup Changes
      BY DEF Allen!List, Listings, Changes
    <2>. QED
      BY <1>14, <2>1 DEF Allen!ChooseBrand, Allen!chat, Allen!store, CurrentInv, Pending
  <1>15. ASSUME NEW b \in Brand \cup {Null}, Allen!EndMeeting(b) PROVE CurrentInv'
    <2> DEFINE call == [kind |-> "meeting", brand |-> b, step |-> "sent"]
    <2>1. call \in Meetings /\ call.brand = b /\ call.step = "sent"
      BY DEF Meetings
    <2>2. /\ calls' = calls \cup {call} /\ crossed' = (crossed \/ calls # {} \/ b # brand)
          /\ UNCHANGED <<brand, shown, table, voice>>
      BY <1>15 DEF Allen!EndMeeting, Allen!chat, Allen!store
    <2> HIDE DEF call
    <2>3. CASE b = brand
      BY <2>1, <2>2, <2>3, CurrentSent
    <2>4. CASE b # brand
      BY <2>2, <2>4 DEF CurrentInv
    <2>. QED
      BY <2>3, <2>4
  <1>16. ASSUME NEW m \in Memory, NEW kind \in {"add", "edit", "remove"},
                Allen!ChangeMemory(kind, m)
         PROVE  CurrentInv'
    <2> DEFINE call == [kind |-> kind, memory |-> m, brand |-> brand, step |-> "sent"]
    <2>1. call \in Changes /\ call.brand = brand /\ call.step = "sent"
      BY DEF Changes, TalkInv
    <2>2. /\ calls' = calls \cup {call} /\ crossed' = (crossed \/ calls # {})
          /\ UNCHANGED <<brand, shown, table, voice>>
      BY <1>16 DEF Allen!ChangeMemory, Allen!Send, Allen!chat, Allen!store
    <2> HIDE DEF call
    <2>. QED
      BY <2>1, <2>2, CurrentSent
  <1>17. CASE UNCHANGED Allen!vars
    BY <1>17 DEF Allen!vars, CurrentInv, Pending, Allen!View
  <1>. QED
    BY <1>1, <1>2, <1>3, <1>4, <1>5, <1>6, <1>7, <1>8, <1>9, <1>10, <1>11, <1>12, <1>13, <1>14,
       <1>15, <1>16, <1>17 DEF Allen!Next

(* While no two requests crossed and none was lost, the page that waits for nothing lists
   exactly the memories the gateway has for its brand.                                *)
THEOREM ListStaysCurrent == Allen!Spec => []ListIsCurrent
  <1>1. Allen!Init => TalkInv /\ CurrentInv
    BY DEF Allen!Init, TalkInv, Paired, CurrentInv, Allen!View
  <1>2. CurrentInv => ListIsCurrent
    BY DEF CurrentInv, ListIsCurrent, Allen!ListIsCurrent
  <1>. QED
    BY <1>1, <1>2, TalkStep, CurrentStep, PTL DEF Allen!Spec

-----------------------------------------------------------------------------
(* A step of the composition is a step of one part; the others stand still. *)
LEMMA PagesParts == PagesSpec => Spec /\ Access!Spec /\ Allen!Spec
  <1>1. PagesInit => Init /\ Access!Init /\ Allen!Init
    BY DEF PagesInit
  <1>2. Access!vars = accessVars /\ Allen!vars = allenVars
    BY DEF Access!vars, accessVars, Allen!vars, allenVars
  <1>3. [PagesNext]_<<part, vars, accessVars, allenVars>> =>
          [Next]_vars /\ [Access!Next]_(Access!vars) /\ [Allen!Next]_(Allen!vars)
    BY <1>2 DEF PagesNext, vars, accessVars, allenVars, Access!vars, Allen!vars
  <1>. QED
    BY <1>1, <1>3, PTL DEF PagesSpec, Spec, Access!Spec, Allen!Spec

(* Composed, the parts keep what they keep alone. *)
THEOREM PagesStaySound ==
  ASSUME Deployable, Null \notin Write
  PROVE  PagesSpec => [](/\ VersionsDense /\ CodeNamesItsProduction
                         /\ CutsAreOwn /\ MarkedPosterIsFiled
                         /\ AuthorityIsProven /\ NobodyHangs
                         /\ ReplyFollowsQuestion /\ ListIsCurrent)
  BY PagesParts, NoVersionIsSkipped, CodesNameTheirProduction, CutsStayWithTheirProduction,
     MarkedPostersAreFiled, AuthorityStaysProven, NobodyIsLeftHanging, RepliesFollowQuestions,
     ListStaysCurrent, PTL
=============================================================================
