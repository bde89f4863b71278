-------------------------------- MODULE Files --------------------------------
(***************************************************************************)
(* The fund's files (src/files): an upload writes an object of the bucket  *)
(* and then a row, a list reads the rows, and a URL is signed for a row's  *)
(* object whether it is there or not.                                      *)
(*                                                                         *)
(* An object's path is the file's type and its lowered name; the row keeps *)
(* the name as it was sent, unique among all types. Every call of the      *)
(* store may fail, and one that fails may have been done. A request stands *)
(* at req[q].at.                                                           *)
(*                                                                         *)
(* Definitions whose comment starts with "Variant:" are not the code's:    *)
(* each is the definition after it with one plausible bug.                 *)
(***************************************************************************)
EXTENDS Naturals, FiniteSets

CONSTANTS
    Names,         \* display names
    LowerNames,    \* what pythonLower makes of them
    Requests,      \* requests served at one time
    MaxRequests    \* bound: how many requests are served in all

ConstantsAssumption == LowerNames # {} /\ LowerNames \subseteq Names /\ MaxRequests \in Nat

\* Two names of one path: "a" and a capitalised form of it.
Lower(n) == IF n \in LowerNames THEN n ELSE CHOOSE l \in LowerNames : TRUE
Types == 0..1
NoType == 2
Paths == Types \X LowerNames

VARIABLES
    row,           \* fondo_api_file: each display name's type
    object,        \* the bucket: how often each path was written
    req,           \* the requests
    requests,      \* how many there have been
    dropped,       \* history: the paths whose row was not inserted after an upload
    stored         \* history: the paths an upload of which was answered 201

vars == <<row, object, req, requests, dropped, stored>>

Idle == [at |-> "idle", type |-> NoType, name |-> CHOOSE n \in Names : TRUE,
         exists |-> FALSE, uploaded |-> FALSE, answer |-> 0]
Path(r) == <<r.type, Lower(r.name)>>
Listed(p) == \E n \in Names : row[n] = p[1] /\ Lower(n) = p[2]

TypeOK ==
    /\ row \in [Names -> Types \cup {NoType}]
    /\ object \in [Paths -> Nat]
    /\ dropped \subseteq Paths /\ stored \subseteq Paths
    /\ \A q \in Requests : req[q].at # "idle" => req[q].type \in Types

Init ==
    /\ row = [n \in Names |-> NoType] /\ object = [p \in Paths |-> 0]
    /\ req = [q \in Requests |-> Idle] /\ requests = 0
    /\ dropped = {} /\ stored = {}

Ends(q, answer) ==
    req' = [req EXCEPT ![q] = [Idle EXCEPT !.answer = answer, !.uploaded = req[q].uploaded]]
Goes(q, at) == req' = [req EXCEPT ![q].at = at]

\* Variant: without D47 any type is taken.
CreateAny(q) ==
    /\ req[q].at = "idle" /\ requests < MaxRequests
    /\ requests' = requests + 1
    /\ \E type \in Types \cup {NoType}, name \in Names :
          req' = [req EXCEPT ![q] = [Idle EXCEPT !.at = "check", !.type = type, !.name = name]]
    /\ UNCHANGED <<row, object, dropped, stored>>

\* FileController.create and knownFileType: a missing field or a type that is
\* neither 0 nor 1 is a 400.
Create(q) ==
    /\ req[q].at = "idle" /\ requests < MaxRequests
    /\ requests' = requests + 1
    /\ \/ Ends(q, 400)
       \/ \E type \in Types, name \in Names :
             req' = [req EXCEPT ![q] = [Idle EXCEPT !.at = "check", !.type = type, !.name = name]]
    /\ UNCHANGED <<row, object, dropped, stored>>

Refused(r) == row[r.name] \notin {NoType, r.type}

\* refuseNameUnderOtherType (D46): before any call of the store.
CheckName(q) ==
    /\ req[q].at = "check"
    /\ IF Refused(req[q]) THEN Ends(q, 409) ELSE Goes(q, "exists")
    /\ UNCHANGED <<row, object, requests, dropped, stored>>

\* Variant: the row is inserted as soon as the object is known to be absent.
ExistsThenInsert(q) ==
    /\ req[q].at = "exists"
    /\ req' = [req EXCEPT ![q].at = "upload", ![q].exists = TRUE]
    /\ row' = IF object[Path(req[q])] = 0 /\ row[req[q].name] = NoType
              THEN [row EXCEPT ![req[q].name] = req[q].type] ELSE row
    /\ UNCHANGED <<object, requests, dropped, stored>>

\* getBucket and blob.exists; either may fail, a 500.
Exists(q) ==
    /\ req[q].at = "exists"
    /\ \/ Ends(q, 500)
       \/ req' = [req EXCEPT ![q].at = "upload", ![q].exists = object[Path(req[q])] > 0]
    /\ UNCHANGED <<row, object, requests, dropped, stored>>

\* uploadFromFile always runs: it overwrites what is there.
Upload(q) ==
    /\ req[q].at = "upload"
    /\ LET p == Path(req[q]) IN
       \/ Ends(q, 500) /\ UNCHANGED <<object, dropped>>
       \/ /\ object' = [object EXCEPT ![p] = @ + 1]
          /\ req' = [req EXCEPT ![q].at = "insert", ![q].uploaded = TRUE]
          /\ UNCHANGED dropped
       \/ /\ object' = [object EXCEPT ![p] = @ + 1]     \* done, and its answer lost
          /\ dropped' = dropped \cup {p}
          /\ Ends(q, 500)
    /\ UNCHANGED <<row, requests, stored>>

\* Variant: whether the object is there is asked after the upload.
InsertIfAbsent(q) ==
    /\ req[q].at = "insert"
    /\ stored' = stored \cup {Path(req[q])} /\ Ends(q, 201)
    /\ UNCHANGED <<row, object, requests, dropped>>

\* Variant: D46 is looked at when the row is inserted.
InsertUnlessRefused(q) ==
    /\ req[q].at = "insert"
    /\ IF Refused(req[q])
       THEN Ends(q, 409) /\ dropped' = dropped \cup {Path(req[q])} /\ UNCHANGED <<row, stored>>
       ELSE /\ row' = [row EXCEPT ![req[q].name] = req[q].type]
            /\ stored' = stored \cup {Path(req[q])} /\ Ends(q, 201) /\ UNCHANGED dropped
    /\ UNCHANGED <<object, requests>>

\* Only if the object had not been there: its row. display_name is unique.
Insert(q) ==
    /\ req[q].at = "insert"
    /\ LET p == Path(req[q]) IN
       CASE req[q].exists ->
              stored' = stored \cup {p} /\ Ends(q, 201) /\ UNCHANGED <<row, dropped>>
         [] ~req[q].exists /\ row[req[q].name] # NoType ->
              dropped' = dropped \cup {p} /\ Ends(q, 500) /\ UNCHANGED <<row, stored>>
         [] ~req[q].exists /\ row[req[q].name] = NoType ->
              \/ /\ row' = [row EXCEPT ![req[q].name] = req[q].type]
                 /\ stored' = stored \cup {p} /\ Ends(q, 201) /\ UNCHANGED dropped
              \/ dropped' = dropped \cup {p} /\ Ends(q, 500) /\ UNCHANGED <<row, stored>>
    /\ UNCHANGED <<object, requests>>

\* The process dies: a row not yet inserted never is.
Crash ==
    /\ \E q \in Requests : req[q].at # "idle"
    /\ dropped' = dropped \cup {Path(req[q]) : q \in {r \in Requests : req[r].uploaded /\ req[r].at = "insert"}}
    /\ req' = [q \in Requests |-> Idle]
    /\ UNCHANGED <<row, object, requests, stored>>

Step(q) == CheckName(q) \/ Exists(q) \/ Upload(q) \/ Insert(q)
Next == (\E q \in Requests : Create(q) \/ Step(q)) \/ Crash
Spec == Init /\ [][Next]_vars

-----------------------------------------------------------------------------
(* Properties *)

\* A row that is listed has its object, so its signed URL opens something,
\* however uploads of one name, one path or two types run into each other.
RowHasObject ==
    \A n \in Names : row[n] \in Types => object[<<row[n], Lower(n)>>] > 0

\* An object that no row lists, with nobody about to insert one, is the trace
\* of an upload whose insert failed; an upload that meets no fault and no
\* other upload is listed.
UnlistedNeedsLoss ==
    \A p \in Paths : object[p] > 0 /\ ~Listed(p) =>
        \/ p \in dropped
        \/ \E q \in Requests : req[q].at = "insert" /\ Path(req[q]) = p

\* A name refused for its type (D46) has written nothing to the store.
RefusedWroteNothing == \A q \in Requests : req[q].answer = 409 => ~req[q].uploaded

\* What saveFile's comment says of the second upload under a path: it
\* overwrites the object and the list keeps showing the first upload's name.
StoredIsListed == \A p \in stored : Listed(p)
=============================================================================
