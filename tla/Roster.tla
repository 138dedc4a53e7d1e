------------------------------- MODULE Roster -------------------------------
(***************************************************************************)
(* What organizers do to many participants at once: import, one attribute  *)
(* for many, removal; next to single registrations, changes, removals and  *)
(* uploads.  In between, other requests go on.                             *)
(***************************************************************************)
EXTENDS Naturals, Sequences, FiniteSets, Functions

CONSTANTS
    Requests,
    Participants, Emails, Keys,     \* uuids, addresses, object keys
    Lower,          \* an address in lower case
    Invalid,        \* what isEmail refuses
    Texts,          \* values of an attribute that is no file
    Inputs,         \* what each request may ask for
    Start,          \* participants at the start, with their addresses
    None

Ops == {"register", "update", "import", "bulk", "remove", "removeMany", "upload"}
Input == [op : Ops, email : Emails \cup {None}, list : Seq(Emails),
          people : SUBSET Participants, value : Texts \cup {None}]
Nothing == [op |-> "remove", email |-> None, list |-> << >>, people |-> {}, value |-> None]

\* How an item of an import ends.
Reasons == {"imported", "failed", "duplicate_in_file", "already_exists"}

ASSUME RosterAssumption ==
    /\ Lower \in [Emails -> Emails] /\ Invalid \subseteq Emails
    /\ \A e \in Emails : Lower[Lower[e]] = Lower[e] /\ (e \in Invalid <=> Lower[e] \in Invalid)
    /\ IsFiniteSet(Requests) /\ Inputs \in [Requests -> SUBSET Input]
    /\ \A r \in Requests : \A in \in Inputs[r] :
         /\ in.op \in {"register", "update"} => in.email # None
         /\ in.op \in {"update", "upload"} => \E p \in Participants : in.people = {p}
    /\ None \notin Participants \cup Emails \cup Keys \cup Texts

\* The same participants with addresses and files of their own.
ASSUME StartAssumption ==
    /\ \A s, t \in Start : s.people = t.people
    /\ \A s \in Start :
         /\ s.people \subseteq Participants
         /\ s.email \in [Participants -> Emails \cup {None}]
         /\ s.key \in [Participants -> Keys \cup {None}]
         /\ \A p \in s.people : s.email[p] # None
         /\ \A p \in Participants \ s.people : s.key[p] = None
         /\ \A p, q \in s.people : s.email[p] = s.email[q] => p = q
         /\ \A p, q \in s.people : s.key[p] # None /\ s.key[p] = s.key[q] => p = q

VARIABLES
    people, email,      \* live participants, every participant's address
    value,              \* the participant's value of the attribute, None for no row
    file,               \* TRUE: the attribute is a file, its values are keys
    objects,            \* objects in S3
    pc, input, local,
    \* history: participants and addresses that ever were, the values each
    \* participant ever had, notices to the listeners, participants that
    \* overlapping requests removed, and keys that nobody deletes any more: S3
    \* refused, a request deleted a row that it had read before the key was
    \* there, or the upload was refused
    used, addresses, held, registered, deleted, changed, raced, lostKeys

tables == <<people, email, value, file, objects>>
requests == <<pc, input, local>>
notices == <<registered, deleted, changed>>
past == <<used, addresses>>
vars == <<tables, requests, past, held, notices, raced, lostKeys>>

-----------------------------------------------------------------------------
Fresh == [known |-> {},                     \* addresses that import found
          outcome |-> << >>,                \* of the items done
          seen |-> {}, keys |-> {},         \* participants and keys read
          new |-> None,                     \* the key of an upload
          crossed |-> {}]                   \* history: participants others wrote

Ended == {"done", "refused", "imported"}
In(r) == input[r]

\* What r writes concerns the requests about the same participants.
Step(r, next, l, written) ==
    /\ pc' = [pc EXCEPT ![r] = next]
    /\ input' = [input EXCEPT ![r] = IF next \in {"done", "refused"} THEN Nothing ELSE @]
    /\ local' = [q \in Requests |->
          IF q = r THEN (IF next \in {"done", "refused"} THEN Fresh ELSE l)
          ELSE IF pc[q] \in Ended \cup {"idle"} THEN local[q]
          ELSE [local[q] EXCEPT !.crossed = @ \cup written]]
Goto(r, next) == Step(r, next, local[r], {})

Silent == UNCHANGED notices
SameFiles == UNCHANGED <<file, objects, lostKeys>>

\* The uuids that a request names are those of participants, though they may be gone.
Begin(r, in) ==
    /\ pc[r] = "idle" /\ in.people \subseteq used
    /\ pc' = [pc EXCEPT ![r] = in.op]
    /\ input' = [input EXCEPT ![r] = in]
    /\ UNCHANGED <<tables, local, past, held, notices, raced, lostKeys>>

-----------------------------------------------------------------------------
(* register, and a change of the address (update)                          *)

\* Mutant of Taken: the address alone is no key.
TakenNever(e) == FALSE

Taken(e) == \E p \in people : email[p] = e

\* The row is created: an address is there once, as it is written.
Insert(e) ==
    LET p == CHOOSE q \in Participants \ used : TRUE IN
    /\ Participants \ used # {}
    /\ people' = people \cup {p} /\ used' = used \cup {p}
    /\ email' = [email EXCEPT ![p] = e] /\ addresses' = addresses \cup {e}
    /\ UNCHANGED <<value, held>>

Register(r) ==
    /\ pc[r] = "register"
    /\ IF Taken(In(r).email)
       THEN Goto(r, "refused") /\ UNCHANGED <<people, email, past, value, held>>
       ELSE /\ Insert(In(r).email)
            /\ Step(r, "announce", [local[r] EXCEPT !.seen = used' \ used], {})
    /\ UNCHANGED raced /\ SameFiles /\ Silent

Announce(r) ==
    /\ pc[r] = "announce"
    /\ registered' = [p \in Participants |-> registered[p] + IF p \in local[r].seen THEN 1 ELSE 0]
    /\ Goto(r, "done")
    /\ UNCHANGED <<tables, past, held, deleted, changed, raced, lostKeys>>

Update(r) ==
    LET S == In(r).people  e == In(r).email IN
    /\ pc[r] = "update"
    /\ IF S \subseteq people /\ \A p \in people \ S : email[p] # e
       THEN /\ email' = [p \in Participants |-> IF p \in S THEN e ELSE email[p]]
            /\ addresses' = addresses \cup {e}
            /\ Goto(r, "done")
       ELSE Goto(r, "refused") /\ UNCHANGED <<email, addresses>>
    /\ UNCHANGED <<people, value, used, held, raced>> /\ SameFiles /\ Silent

-----------------------------------------------------------------------------
(* processImport                                                           *)

Address(r, i) == Lower[In(r).list[i]]
Valid(r) == {i \in DOMAIN In(r).list : Address(r, i) \notin Invalid}
\* Mutant of Duplicate: the first of two is one as well.
DuplicateAll(r, i) == \E j \in Valid(r) \ {i} : Address(r, j) = Address(r, i)

Duplicate(r, i) == \E j \in Valid(r) : j < i /\ Address(r, j) = Address(r, i)

\* The addresses of the list are looked up as they are written in lower case.
ImportRead(r) ==
    LET wanted == {Address(r, i) : i \in Valid(r)} IN
    /\ pc[r] = "import"
    /\ Step(r, "importItem",
            [local[r] EXCEPT !.known = {Lower[e] : e \in wanted \cap {email[p] : p \in people}}], {})
    /\ UNCHANGED <<tables, past, held, raced, lostKeys>> /\ Silent

\* Each item is skipped, or registered as by register.  What that throws is the
\* item's failure: the address is taken by now, a block's name is unknown, a
\* value is refused, the database fails.
ImportItem(r) ==
    LET i == Len(local[r].outcome) + 1
        e == Address(r, i)
        skip == IF i \notin Valid(r) THEN "failed"
                ELSE IF Duplicate(r, i) THEN "duplicate_in_file"
                ELSE IF e \in local[r].known THEN "already_exists" ELSE "none"
        End(reason) == [local[r] EXCEPT !.outcome = Append(@, reason)]
    IN
    /\ pc[r] = "importItem" /\ i <= Len(In(r).list)
    /\ \/ /\ skip = "none" /\ ~Taken(e) /\ Insert(e)
          /\ Step(r, "importTell", [End("imported") EXCEPT !.seen = used' \ used], {})
       \/ /\ Step(r, "importItem", End(IF skip = "none" THEN "failed" ELSE skip), {})
          /\ UNCHANGED <<people, email, past, value, held>>
    /\ UNCHANGED raced /\ SameFiles /\ Silent

ImportTell(r) ==
    /\ pc[r] = "importTell"
    /\ registered' = [p \in Participants |-> registered[p] + IF p \in local[r].seen THEN 1 ELSE 0]
    /\ Goto(r, "importItem")
    /\ UNCHANGED <<tables, past, held, deleted, changed, raced, lostKeys>>

ImportEnd(r) ==
    /\ pc[r] = "importItem" /\ Len(local[r].outcome) = Len(In(r).list)
    /\ Goto(r, "imported")
    /\ UNCHANGED <<tables, past, held, raced, lostKeys>> /\ Silent

-----------------------------------------------------------------------------
(* One attribute of one participant or of many is written, in a             *)
(* transaction: bulkUpdateAttributes, and update after a form's upload.     *)

KeysOf(S) == IF file THEN {value[p] : p \in S} \ {None} ELSE {}

\* What the row is given: an upload its new key, the others what they ask for.
Wanted(r) == IF In(r).op = "upload" THEN local[r].new ELSE In(r).value

\* The keys that are to be deleted after the commit are read ...
Read(r, next) ==
    /\ Step(r, next, [local[r] EXCEPT !.keys = KeysOf(In(r).people)], {})
    /\ UNCHANGED <<tables, past, held, raced, lostKeys>> /\ Silent

\* ... then deleteMany, with what is there by now ...
Clear(r, next) ==
    /\ Step(r, next, [local[r] EXCEPT !.crossed = {}], {})
    /\ UNCHANGED <<tables, past, held, raced, lostKeys>> /\ Silent

\* ... then the rows are created: a participant has one row of an attribute, so
\* what another request wrote since, or a participant gone, refuses all of them.
\* A key that came between the read and the deletion is nobody's now; so is the
\* object of a refused upload.
Write(r, next) ==
    LET S == In(r).people IN
    /\ IF S \subseteq people /\ S \cap local[r].crossed = {}
       THEN /\ value' = [p \in Participants |-> IF p \in S THEN Wanted(r) ELSE value[p]]
            /\ held' = [p \in Participants |-> held[p] \cup IF p \in S THEN {Wanted(r)} ELSE {}]
            /\ lostKeys' = lostKeys \cup (KeysOf(S) \ local[r].keys)
            /\ Step(r, next, local[r], S)
       ELSE /\ lostKeys' = lostKeys \cup ({local[r].new} \ {None})
            /\ Goto(r, "refused") /\ UNCHANGED <<value, held>>
    /\ UNCHANGED <<people, email, file, objects, past, raced>> /\ Silent

\* Mutant of Drop: only the first object goes.
DropOne(r, next) ==
    /\ objects' = objects \ {CHOOSE k \in local[r].keys : TRUE}
    /\ Goto(r, next)
    /\ UNCHANGED <<people, email, value, file, past, held, raced, lostKeys>> /\ Silent

\* The objects go, but for those that S3 refuses to delete, which it only logs.
Drop(r, next) ==
    /\ \E kept \in SUBSET local[r].keys :
         /\ objects' = objects \ (local[r].keys \ kept)
         /\ lostKeys' = lostKeys \cup kept
    /\ Goto(r, next)
    /\ UNCHANGED <<people, email, value, file, past, held, raced>> /\ Silent

Tell(r) ==
    /\ changed' = changed \cup (In(r).people \X {Wanted(r)})
    /\ Goto(r, "done")
    /\ UNCHANGED <<tables, past, held, registered, deleted, raced, lostKeys>>

\* The participants are counted and the value is validated: a file can only be
\* cleared.
BulkCheck(r) ==
    /\ pc[r] = "bulk"
    /\ Goto(r, IF In(r).people \subseteq people /\ (file => In(r).value = None)
               THEN "bulkRead" ELSE "refused")
    /\ UNCHANGED <<tables, past, held, raced, lostKeys>> /\ Silent

BulkRead(r) == pc[r] = "bulkRead" /\ Read(r, "bulkClear")
BulkClear(r) == pc[r] = "bulkClear" /\ Clear(r, "bulkWrite")
BulkWrite(r) ==
    pc[r] = "bulkWrite" /\ Write(r, IF local[r].keys = {} THEN "bulkTell" ELSE "bulkDrop")
BulkDrop(r) == pc[r] = "bulkDrop" /\ Drop(r, "bulkTell")
BulkTell(r) == pc[r] = "bulkTell" /\ Tell(r)

At(steps) == {r \in Requests : pc[r] \in steps}
InHand == {local[r].new : r \in At({"uploadRead", "uploadClear", "uploadWrite"})} \cup
          UNION {local[r].keys : r \in At({"bulkDrop", "uploadDrop", "removeTell", "removeDrop"})}
Free ==
    Keys \ (objects \cup lostKeys \cup UNION {local[r].keys \cup {local[r].new} : r \in Requests})

\* A form brings a new object.
UploadKey(r) ==
    LET k == CHOOSE x \in Free : TRUE IN
    /\ pc[r] = "upload" /\ file /\ Free # {}
    /\ In(r).people \subseteq people
    /\ objects' = objects \cup {k}
    /\ Step(r, "uploadRead", [local[r] EXCEPT !.new = k], {})
    /\ UNCHANGED <<people, email, value, file, past, held, raced, lostKeys>> /\ Silent

\* update looks the participant up; when it is gone, the object stays for the
\* clean-up of its token.
UploadRead(r) ==
    /\ pc[r] = "uploadRead"
    /\ \/ In(r).people \subseteq people /\ Read(r, "uploadClear")
       \/ /\ ~(In(r).people \subseteq people)
          /\ lostKeys' = lostKeys \cup {local[r].new}
          /\ Goto(r, "refused")
          /\ UNCHANGED <<tables, past, held, raced>> /\ Silent

UploadClear(r) == pc[r] = "uploadClear" /\ Clear(r, "uploadWrite")
UploadWrite(r) ==
    pc[r] = "uploadWrite" /\ Write(r, IF local[r].keys = {} THEN "uploadTell" ELSE "uploadDrop")
UploadDrop(r) == pc[r] = "uploadDrop" /\ Drop(r, "uploadTell")
UploadTell(r) == pc[r] = "uploadTell" /\ Tell(r)

-----------------------------------------------------------------------------
(* remove and removeMany                                                   *)

RemoveRead(r) ==
    LET seen == In(r).people \cap people IN
    /\ pc[r] \in {"remove", "removeMany"}
    /\ IF pc[r] = "remove" /\ seen = {} THEN Goto(r, "refused")
       ELSE Step(r, "removeRows", [local[r] EXCEPT !.seen = seen, !.keys = KeysOf(seen)], {})
    /\ UNCHANGED <<tables, past, held, raced, lostKeys>> /\ Silent

\* Rows with a value go with their participant, those too that were written since.
\* One participant that is gone is an error, one of many is not.
DeleteRows(r, S) ==
    /\ people' = people \ S
    /\ value' = [p \in Participants |-> IF p \in S THEN None ELSE value[p]]
    /\ raced' = raced \cup (local[r].seen \ people)
    /\ lostKeys' = lostKeys \cup (KeysOf(S) \ local[r].keys)

RemoveRows(r) ==
    LET S == In(r).people IN
    /\ pc[r] = "removeRows"
    /\ IF In(r).op = "remove" /\ S \cap people = {}
       THEN Goto(r, "refused") /\ UNCHANGED <<people, value, raced, lostKeys>>
       ELSE DeleteRows(r, S) /\ Step(r, "removeTell", local[r], S)
    /\ UNCHANGED <<email, file, objects, past, held>> /\ Silent

\* Mutant of RemoveTell: everybody in the list is told of.
RemoveTellAll(r) ==
    /\ pc[r] = "removeTell"
    /\ deleted' = [p \in Participants |-> deleted[p] + IF p \in In(r).people THEN 1 ELSE 0]
    /\ Goto(r, "removeDrop")
    /\ UNCHANGED <<tables, past, held, registered, changed, raced, lostKeys>>

RemoveTell(r) ==
    /\ pc[r] = "removeTell"
    /\ deleted' = [p \in Participants |-> deleted[p] + IF p \in local[r].seen THEN 1 ELSE 0]
    /\ Goto(r, IF local[r].keys = {} THEN "done" ELSE "removeDrop")
    /\ UNCHANGED <<tables, past, held, registered, changed, raced, lostKeys>>

RemoveDrop(r) == pc[r] = "removeDrop" /\ Drop(r, "done")

-----------------------------------------------------------------------------
Init ==
    /\ file \in BOOLEAN
    /\ \E s \in Start :
        /\ people = s.people /\ used = s.people /\ email = s.email
        /\ addresses = {email[p] : p \in people}
        /\ value = [p \in Participants |-> IF file THEN s.key[p] ELSE None]
        /\ objects = {value[p] : p \in s.people} \ {None}
    /\ held = [p \in Participants |-> {value[p]}]
    /\ pc = [r \in Requests |-> "idle"]
    /\ input = [r \in Requests |-> Nothing]
    /\ local = [r \in Requests |-> Fresh]
    /\ registered = [p \in Participants |-> 0] /\ deleted = registered
    /\ changed = {} /\ raced = {} /\ lostKeys = {}

Next ==
    \E r \in Requests :
        \/ \E i \in Inputs[r] : Begin(r, i)
        \/ Register(r) \/ Announce(r) \/ Update(r)
        \/ ImportRead(r) \/ ImportItem(r) \/ ImportTell(r) \/ ImportEnd(r)
        \/ BulkCheck(r) \/ BulkRead(r) \/ BulkClear(r) \/ BulkWrite(r) \/ BulkDrop(r) \/ BulkTell(r)
        \/ UploadKey(r) \/ UploadRead(r) \/ UploadClear(r) \/ UploadWrite(r)
        \/ UploadDrop(r) \/ UploadTell(r)
        \/ RemoveRead(r) \/ RemoveRows(r) \/ RemoveTell(r) \/ RemoveDrop(r)

Spec == Init /\ [][Next]_vars

-----------------------------------------------------------------------------
TypeOK ==
    /\ people \subseteq used /\ used \subseteq Participants
    /\ email \in [Participants -> Emails \cup {None}] /\ addresses \subseteq Emails
    /\ value \in [Participants -> Keys \cup Texts \cup {None}]
    /\ file \in BOOLEAN /\ objects \subseteq Keys
    /\ input \in [Requests -> Input]
    /\ \A r \in Requests : /\ local[r].outcome \in Seq(Reasons)
                           /\ local[r].keys \subseteq Keys /\ local[r].new \in Keys \cup {None}
    /\ \A p, q \in people : email[p] = email[q] => p = q

\* What an import answers when it has ended is true, whoever registered, removed
\* or changed whom meanwhile: an item that is imported or exists has, or had, its
\* participant, of the items of one address one at most is imported, and what is
\* called a duplicate comes after an item that was tried.
ImportAccounts ==
    \A r \in Requests : pc[r] = "imported" =>
        \A i \in Valid(r) :
            LET outcome == local[r].outcome
                twins == {j \in Valid(r) \ {i} : Address(r, j) = Address(r, i)}
            IN
            /\ outcome[i] \in {"imported", "already_exists"} =>
                 \E e \in addresses : Lower[e] = Address(r, i)
            /\ outcome[i] = "imported" => \A j \in twins : outcome[j] = "duplicate_in_file"
            /\ outcome[i] = "duplicate_in_file" =>
                 \E j \in twins : j < i /\ outcome[j] # "duplicate_in_file"

\* PARTICIPANT_REGISTERED is emitted once for everybody who registers or is
\* imported, when the row is there.
RegisteredOnce ==
    \A p \in used :
        LET telling == {r \in Requests : pc[r] \in {"announce", "importTell"} /\ p \in local[r].seen}
            first == \E s \in Start : p \in s.people
        IN registered[p] + Cardinality(telling) = IF first THEN 0 ELSE 1

\* PARTICIPANT_DELETED is emitted for everybody who was removed, for nobody who
\* was not, and once, unless two removals of many overlapped.
DeletedOnce ==
    \A p \in used :
        LET telling == {r \in Requests : pc[r] = "removeTell" /\ p \in local[r].seen} IN
        IF p \in people THEN deleted[p] = 0
        ELSE LET n == deleted[p] + Cardinality(telling) IN n = 1 \/ (n > 1 /\ p \in raced)

\* An ATTRIBUTE_CHANGED tells of a value that the participant had: none is told
\* whose row the transaction did not write.
ToldWasHeld == \A c \in changed : c[2] \in held[c[1]]

\* What the mail listeners are told happened, once.
ToldTruly == RegisteredOnce /\ DeletedOnce /\ ToldWasHeld

\* The file of every participant exists; an object that is nobody's is about to
\* be deleted or to be written, or one of the ways to lose it was taken: S3
\* refused, two requests overlapped on one row, or the upload was refused.
FilesExplained ==
    file => /\ \A p \in people : value[p] # None => value[p] \in objects
            /\ objects \subseteq {value[p] : p \in people} \cup InHand \cup lostKeys

\* An import never registers an address that differs from a participant's in
\* capitals only ("should mark emails already registered in the event as
\* already_exists (case-insensitive)", import-export.service.spec.ts:366).
ImportKnowsCapitals ==
    \A r \in Requests : pc[r] = "importTell" =>
        \A p \in local[r].seen, q \in people \ local[r].seen :
            Lower[email[p]] # Lower[email[q]]
=============================================================================
