------------------------------ MODULE AdIndex ------------------------------
(* Ad-index codes, posters and final cuts (routes/delivery.ts).

   A code is <type>-<product>-<region>-<tz>-<version>: here a slot, the first four,
   and a version; the dashboard's values hold no hyphen, so different slots make
   different codes.  ad_index is keyed by the code.  Issuing reads the highest
   version of the slot, inserts the next one and attaches it to the production, in
   three statements; approving a poster and uploading a final cut read the
   production first and write it last, around moves and uploads in Drive.

   One action is one SQL statement or one Drive call; a request is in `req` between
   them with what it read.  Nothing deletes codes or productions; deleting a video
   or an asset, and its file with it, is outside this module.  Which Drive folders the
   gateway knows is its environment's: one of FolderSets, the same as long as it runs
   (without a Drive client it is as if there were none).  DriveMethods is what the
   Drive client the routes were given can do.                                      *)
EXTENDS Integers

CONSTANTS
  Production, Slot,
  File,             \* Drive files
  Poster,           \* the files that are poster candidates; the others are cuts to come
  Named,            \* bound: the files callers name
  FolderSets,       \* the sets of folders an environment may name
  DriveMethods,     \* the methods of the Drive client
  Request,          \* requests that can be in flight at once
  MaxVersion,       \* bound: versions of a slot
  Null

Code    == Slot \X (Nat \ {0})
Folders == {"candidates", "approved", "archived", "final"}

ASSUME AdIndexAssumption ==
  /\ Poster \cup Named \subseteq File
  /\ FolderSets \subseteq SUBSET {"approved", "archived", "final"}
  /\ MaxVersion \in Nat
  /\ Null \notin Code \cup File \cup Slot \cup Folders

VARIABLES
  configured,   \* the folders the environment names: ATELIER_APPROVED_FOLDER, ...
  index,        \* ad_index: issued code -> production, status, poster, final cut
  adIndexCode,  \* productions.ad_index_code
  thumbnail,    \* productions.thumbnail_drive_id
  finalVideo,   \* productions.final_video_id
  complete,     \* productions.stage has been 'complete', which no other route sets
  cuts,         \* the uploads that became a videos row with source 'final'
  folder,       \* Drive: where a file is, Null before it exists
  req           \* a request in flight, or Null

production == <<adIndexCode, thumbnail, finalVideo, complete>>
vars       == <<configured, index, production, cuts, folder, req>>

Entry   == [prod : Production, status : {"draft", "approved"},
            poster : File \cup {Null}, final : File \cup {Null}]

(* The requests in flight.  `code` and `thumb` are what the request read of its
   production, or the code it has inserted; `next` is the code it will insert.    *)
Issuing  == [op : {"issue", "attach"}, prod : Production, next : Code]
Approval == [op : {"archive", "approve", "code", "insert", "save"}, prod : Production,
             file : File \cup {Null}, slot : Slot \cup {Null}, code : Code \cup {Null},
             thumb : File \cup {Null}, next : Code \cup {Null}]
Cutting  == [op : {"upload"}, prod : Production, code : Code \cup {Null}]
Storing  == [op : {"row", "index", "finish"}, prod : Production, code : Code \cup {Null},
             file : File]
Requests == Issuing \cup Approval \cup Cutting \cup Storing

TypeOK ==
  /\ configured \in FolderSets
  /\ DOMAIN index \subseteq Code
  /\ \A c \in DOMAIN index : index[c] \in Entry
  /\ adIndexCode \in [Production -> Code \cup {Null}]
  /\ thumbnail \in [Production -> File \cup {Null}]
  /\ finalVideo \in [Production -> File \cup {Null}]
  /\ complete \in [Production -> BOOLEAN]
  /\ cuts \in [Production -> SUBSET File]
  /\ folder \in [File -> Folders \cup {Null}]
  /\ req \in [Request -> Requests \cup {Null}]

Init ==
  /\ configured \in FolderSets
  /\ index = [c \in {} |-> Null]
  /\ adIndexCode = [p \in Production |-> Null]
  /\ thumbnail = [p \in Production |-> Null]
  /\ finalVideo = [p \in Production |-> Null]
  /\ complete = [p \in Production |-> FALSE]
  /\ cuts = [p \in Production |-> {}]
  /\ folder = [f \in File |-> IF f \in Poster THEN "candidates" ELSE Null]
  /\ req = [r \in Request |-> Null]

Become(r, next) == req' = [req EXCEPT ![r] = next]
In(r, op)       == req[r] # Null /\ req[r].op = op

----------------------------------------------------------------------------
(* coalesce(max(version), 0) + 1 over the rows of the slot. *)
NextOrLater(c) == \A d \in DOMAIN index : d[1] = c[1] => d[2] < c[2]
NextVersion(c) ==
  /\ \A d \in DOMAIN index : d[1] = c[1] => d[2] < c[2]
  /\ c[2] = 1 \/ <<c[1], c[2] - 1>> \in DOMAIN index

(* INSERT INTO ad_index: refused when the code is there. *)
Inserted(c, entry) ==
  index' = [d \in DOMAIN index \cup {c} |-> IF d = c THEN entry ELSE index[d]]

NewEntry(p, status) == [prod |-> p, status |-> status, poster |-> Null, final |-> Null]

Free(c)    == c \notin DOMAIN index

(* POST /ad-index/issue: the production and the highest version, the INSERT, the
   UPDATE that attaches the code.  A code that is there already ends the request. *)
IssueRead(r, p, c) ==
  /\ req[r] = Null
  /\ NextVersion(c)
  /\ Become(r, [op |-> "issue", prod |-> p, next |-> c])
  /\ UNCHANGED <<configured, index, production, cuts, folder>>

IssueInsertOrTaken(r) ==                      \* ON CONFLICT DO NOTHING
  /\ In(r, "issue")
  /\ IF Free(req[r].next) THEN Inserted(req[r].next, NewEntry(req[r].prod, "draft"))
                          ELSE index' = index
  /\ Become(r, [req[r] EXCEPT !.op = "attach"])
  /\ UNCHANGED <<configured, production, cuts, folder>>

IssueInsert(r) ==
  /\ In(r, "issue")
  /\ Free(req[r].next)
  /\ Inserted(req[r].next, NewEntry(req[r].prod, "draft"))
  /\ Become(r, [req[r] EXCEPT !.op = "attach"])
  /\ UNCHANGED <<configured, production, cuts, folder>>

IssueAttach(r) ==
  /\ In(r, "attach")
  /\ adIndexCode' = [adIndexCode EXCEPT ![req[r].prod] = req[r].next]
  /\ Become(r, Null)
  /\ UNCHANGED <<configured, index, thumbnail, finalVideo, complete, cuts, folder>>

----------------------------------------------------------------------------
(* POST /productions/:id/poster/approve.  With a file and an approved folder, the
   production's present thumbnail goes to the archive, as far as it can and if there
   is one, and the file to the approved; otherwise nothing moves.  The file is any the
   caller names; a slot counts only where there is no code yet.                    *)
NoMove(f, thumb) == "code"
FirstMove(f, thumb) ==
  IF f = Null \/ "approved" \notin configured THEN "code"
  ELSE IF thumb # Null /\ "archived" \in configured THEN "archive" ELSE "approve"

PosterRead(r, p, f, s) ==
  /\ req[r] = Null
  /\ s # Null => adIndexCode[p] = Null
  /\ Become(r, [op |-> FirstMove(f, thumbnail[p]), prod |-> p, file |-> f, slot |-> s,
                code |-> adIndexCode[p], next |-> Null,
                thumb |-> IF f = Null \/ FirstMove(f, thumbnail[p]) = "archive"
                          THEN thumbnail[p] ELSE Null])
  /\ UNCHANGED <<configured, index, production, cuts, folder>>

PosterArchive(r) ==                           \* best effort
  /\ In(r, "archive")
  /\ \/ /\ "move" \in DriveMethods /\ folder[req[r].thumb] # Null
        /\ folder' = [folder EXCEPT ![req[r].thumb] = "archived"]
     \/ folder' = folder
  /\ Become(r, [req[r] EXCEPT !.op = "approve", !.thumb = Null])
  /\ UNCHANGED <<configured, index, production, cuts>>

PosterApprove(r) ==                           \* a failure ends the request
  /\ In(r, "approve")
  /\ "move" \in DriveMethods /\ folder[req[r].file] # Null
  /\ folder' = [folder EXCEPT ![req[r].file] = "approved"]
  /\ Become(r, [req[r] EXCEPT !.op = "code"])
  /\ UNCHANGED <<configured, index, production, cuts>>

(* Without a code and with a slot, number one and insert it (the poster's file is
   not recorded with it); with a code, mark it; with neither, nothing.            *)
PosterNumber(r, c) ==
  /\ In(r, "code")
  /\ req[r].code = Null
  /\ c[1] = req[r].slot
  /\ NextVersion(c)
  /\ Become(r, [req[r] EXCEPT !.op = "insert", !.next = c])
  /\ UNCHANGED <<configured, index, production, cuts, folder>>

PosterInsert(r) ==
  /\ In(r, "insert")
  /\ Free(req[r].next)
  /\ Inserted(req[r].next, NewEntry(req[r].prod, "approved"))
  /\ Become(r, [req[r] EXCEPT !.op = "save", !.code = req[r].next, !.next = Null])
  /\ UNCHANGED <<configured, production, cuts, folder>>

PosterMark(r) ==
  /\ In(r, "code")
  /\ req[r].code # Null
  /\ index' = [index EXCEPT ![req[r].code] =
                 [index[req[r].code] EXCEPT !.status = "approved", !.poster = req[r].file]]
  /\ Become(r, [req[r] EXCEPT !.op = "save"])
  /\ UNCHANGED <<configured, production, cuts, folder>>

(* The UPDATE of the production writes what was read where there is nothing new. *)
PosterSave(r) ==
  /\ \/ In(r, "save")
     \/ In(r, "code") /\ req[r].code = Null /\ req[r].slot = Null
  /\ LET p == req[r].prod
     IN  /\ thumbnail' = [thumbnail EXCEPT ![p] = IF req[r].file # Null THEN req[r].file
                                                                        ELSE req[r].thumb]
         /\ adIndexCode' = [adIndexCode EXCEPT ![p] = req[r].code]
  /\ Become(r, Null)
  /\ UNCHANGED <<configured, index, finalVideo, complete, cuts, folder>>

(* PATCH /productions/:id/cover: one statement. *)
Cover(p, f) ==
  /\ thumbnail' = [thumbnail EXCEPT ![p] = f]
  /\ UNCHANGED <<configured, index, adIndexCode, finalVideo, complete, cuts, folder, req>>

----------------------------------------------------------------------------
(* POST /productions/:id/final-cut: upload, a videos row, the index, the production. *)
CutRead(r, p) ==
  /\ req[r] = Null
  /\ "final" \in configured
  /\ Become(r, [op |-> "upload", prod |-> p, code |-> adIndexCode[p]])
  /\ UNCHANGED <<configured, index, production, cuts, folder>>

Stored(r, op, f) ==
  Become(r, [op |-> op, prod |-> req[r].prod, code |-> req[r].code, file |-> f])

CutUploadThenIndex(r, f) ==                   \* the row put off
  /\ In(r, "upload")
  /\ "upload" \in DriveMethods
  /\ f \in File \ Poster /\ folder[f] = Null
  /\ folder' = [folder EXCEPT ![f] = "final"]
  /\ Stored(r, IF req[r].code # Null THEN "index" ELSE "finish", f)
  /\ UNCHANGED <<configured, index, production, cuts>>

CutUpload(r, f) ==
  /\ In(r, "upload")
  /\ "upload" \in DriveMethods
  /\ f \in File \ Poster /\ folder[f] = Null
  /\ folder' = [folder EXCEPT ![f] = "final"]
  /\ Stored(r, "row", f)
  /\ UNCHANGED <<configured, index, production, cuts>>

CutRow(r) ==
  /\ In(r, "row")
  /\ cuts' = [cuts EXCEPT ![req[r].prod] = @ \cup {req[r].file}]
  /\ Stored(r, IF req[r].code # Null THEN "index" ELSE "finish", req[r].file)
  /\ UNCHANGED <<configured, index, production, folder>>

CutIndex(r) ==
  /\ In(r, "index")
  /\ index' = [index EXCEPT ![req[r].code] =
                 [index[req[r].code] EXCEPT !.final = req[r].file]]
  /\ Stored(r, "finish", req[r].file)
  /\ UNCHANGED <<configured, production, cuts, folder>>

CutFinish(r) ==
  /\ In(r, "finish")
  /\ finalVideo' = [finalVideo EXCEPT ![req[r].prod] = req[r].file]
  /\ complete' = [complete EXCEPT ![req[r].prod] = TRUE]
  /\ Become(r, Null)
  /\ UNCHANGED <<configured, index, adIndexCode, thumbnail, cuts, folder>>

(* A statement or Drive call fails, a code is taken, or the process dies: the
   request ends with what it has done so far.                                     *)
RequestEnds(r) ==
  /\ req[r] # Null
  /\ Become(r, Null)
  /\ UNCHANGED <<configured, index, production, cuts, folder>>

----------------------------------------------------------------------------
Numbers == Slot \X (1 .. MaxVersion)

RequestStep(r) ==
  \/ \E p \in Production, c \in Numbers : IssueRead(r, p, c)
  \/ IssueInsert(r)
  \/ IssueAttach(r)
  \/ \E p \in Production, f \in Named \cup {Null}, s \in Slot \cup {Null} :
       PosterRead(r, p, f, s)
  \/ PosterArchive(r)
  \/ PosterApprove(r)
  \/ \E c \in Numbers : PosterNumber(r, c)
  \/ PosterInsert(r)
  \/ PosterMark(r)
  \/ PosterSave(r)
  \/ \E p \in Production : CutRead(r, p)
  \/ \E f \in File : CutUpload(r, f)
  \/ CutRow(r)
  \/ CutIndex(r)
  \/ CutFinish(r)
  \/ RequestEnds(r)

Next == \/ \E r \in Request : RequestStep(r)
        \/ \E p \in Production, f \in Named : Cover(p, f)

Spec == Init /\ [][Next]_vars

----------------------------------------------------------------------------
(* The versions of a slot are 1, 2, 3 ... without a gap, although each request
   numbers its code from a read of its own (delivery.ts:65-80, 112-120).          *)
VersionsDense ==
  \A c \in DOMAIN index : \A v \in 1 .. c[2] : <<c[1], v>> \in DOMAIN index

(* A production's code is in the index and was issued to that production, however
   old the code is that a poster's approval writes back (delivery.ts:82, 125-129). *)
CodeNamesItsProduction ==
  \A p \in Production : adIndexCode[p] # Null =>
    /\ adIndexCode[p] \in DOMAIN index
    /\ index[adIndexCode[p]].prod = p

(* The final cut a production or its code names became a video of that production
   first, and a complete production names one, whichever upload came last and
   wherever one stopped (delivery.ts:211-239).                                    *)
CutsAreOwn ==
  /\ \A p \in Production :
       /\ finalVideo[p] # Null => finalVideo[p] \in cuts[p]
       /\ complete[p] => finalVideo[p] # Null
  /\ \A c \in DOMAIN index : index[c].final # Null => index[c].final \in cuts[index[c].prod]

(* Where the gateway has an approved folder, a poster the index calls approved has
   been moved there: it lies there or in the archive, however many requests approve,
   replace and archive the same file and whichever of their calls fail
   (delivery.ts:101-109, 121-123).                                                *)
MarkedPosterIsFiled ==
  "approved" \in configured =>
    \A c \in DOMAIN index :
      index[c].poster # Null => folder[index[c].poster] \in {"approved", "archived"}

(* Codes are never re-used: an issued code stays with its production and never
   falls back to draft (docs/contracts/19-final-cut-and-ad-index.md:153).         *)
CodesAreNeverReused ==
  [][\A c \in DOMAIN index :
       /\ c \in DOMAIN index'
       /\ index'[c].prod = index[c].prod
       /\ index[c].status = "approved" => index'[c].status = "approved"]_vars

(* A re-upload can succeed: no request waits for a Drive method the client does not
   have (docs/contracts/19-final-cut-and-ad-index.md:73-74).                      *)
UploadIsPossible ==
  \A r \in Request : In(r, "upload") => "upload" \in DriveMethods
============================================================================
