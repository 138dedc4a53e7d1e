--------------------------- MODULE FormSubmission ---------------------------
(***************************************************************************)
(* Submitting a form of an event, and everything that works on the same    *)
(* rows at the same time: the organizer creating, editing and removing     *)
(* participants, uploads, the hourly reaper of unclaimed uploads, and the  *)
(* 5 s limit Prisma puts on a transaction.                                 *)
(*                                                                         *)
(* FormsService.formSubmit runs in an OUTER transaction (its claims of     *)
(* upload rows and its FOR UPDATE locks of block rows), but the            *)
(* participant itself is written by ParticipantsService in an INNER        *)
(* transaction of its own, on a second connection of the pool, which       *)
(* commits first.  One action below is the work between two awaits.        *)
(* The database is read committed: every read sees what is committed.      *)
(***************************************************************************)
EXTENDS Integers, Sequences, FiniteSets, Functions

CONSTANTS
    Requests,     \* HTTP requests; each is sent at most once
    Guests,       \* participants the event starts with
    Emails, Blocks, Tokens,
    Inputs,       \* the bodies a request may have
    GuestSeats,   \* GuestSeats[p]: the blocks guest p starts with
    Capacities,   \* the capacities an organizer sets
    Limit,        \* Event.participantsLimit
    Required,     \* the attributes whose form definition isRequired
    PoolSize,     \* connections of the pg pool
    Unlimited,    \* a capacity or a limit that is null
    None

\* The participant a request creates gets a uuid of its own: the request.
People == Requests \cup Guests

\* An event has one file-like attribute and one block attribute here.
Attributes == {"file", "blocks"}

FormKinds == {"registration", "update"}       \* formSubmit
AdminKinds == {"create", "edit", "remove"}    \* the organizer's endpoints

Input == [kind   : FormKinds \cup AdminKinds,
          email  : Emails \cup {None},
          target : People \cup {None},        \* participantId
          attrs  : Seq(Attributes),           \* submitted, in this order
          file   : Tokens \cup {None},        \* None: empty, or not submitted
          choice : Seq(Blocks)]

ASSUME InputsAssumption ==
    /\ Inputs \subseteq Input
    /\ \A in \in Inputs :
          /\ in.kind \in {"registration", "create"} => in.email # None
          /\ in.kind \in {"update", "edit", "remove"} => in.target # None
          /\ in.file # None => "file" \in Range(in.attrs)
          \* resolveUntrustedFileValue refuses every value where there is none yet
          /\ in.kind \in {"create", "remove"} => in.file = None

ASSUME SetsAssumption ==
    /\ IsFiniteSet(People)
    /\ Requests \cap Guests = {}
    /\ None \notin People \cup Emails \cup Tokens
    /\ PoolSize \in Nat

ASSUME CapacitiesAssumption ==
    /\ Capacities \subseteq Nat \cup {Unlimited}
    /\ Unlimited \notin Nat
    /\ Limit \in Nat \cup {Unlimited}
    /\ GuestSeats \in [Guests -> SUBSET Blocks]

VARIABLES
    \* participants and their attribute values, committed
    registered, email, seats, file,
    \* blocks: capacity, and the outer transaction holding the row lock
    capacity, lock,
    \* uploads: the UploadedFiles row, the outer transaction that updated it
    \* and has not ended, the S3 objects
    row, claimer, object,
    \* the reaper: objects and rows it still has to delete
    reapObjects, reapRows,
    \* requests
    pc, input, outer, wrote,
    local,        \* the variables of r's handler, gone when it ends
    \* history: seats taken under the block's lock; objects the reaper deleted;
    \* values an organizer's edit put back after they had been replaced
    guarded, reaped, revived

people == <<registered, email, seats, file, guarded, revived>>
blocks == <<capacity, lock>>
uploads == <<row, claimer, object>>
reaper == <<reapObjects, reapRows, reaped>>
tables == <<people, blocks, uploads, reaper>>
request == <<pc, input, outer, wrote, local>>
vars == <<tables, request>>

-----------------------------------------------------------------------------
(* States of a request, in the order the code reaches them.                *)

OuterStates == {"form", "answers", "claim", "lock", "count"}
InnerStates == {"lookup", "enter", "insert", "prepare", "readFiles", "write"}
AdminStates == {"readRow", "delete"}
Active == OuterStates \cup InnerStates \cup AdminStates \cup {"purge", "commit"}
Ended == {"done", "failed", "crashed"}

\* outer[r]: the outer transaction of r. It expires at the 5 s limit.
OuterOpen(r) == outer[r] = "open"
IsForm(r) == input[r].kind \in FormKinds
Submitted(r, a) == a \in Range(input[r].attrs)

HasRoom(cap, n) == cap # Unlimited => n < cap
Within(cap, n) == cap # Unlimited => n <= cap

\* getBlockParticipantsCount: the participants whose value contains b.
Seated(b) == {p \in registered : b \in seats[p]}

\* r waits in the database for a row that s locked and has not released.
WaitsFor(r, s) ==
    /\ r # s
    /\ \/ pc[r] = "lock" /\ local[r].pending # << >> /\ Head(local[r].pending) \notin local[r].kept
          /\ lock[Head(local[r].pending)] = s
       \/ pc[r] = "claim" /\ claimer[input[r].file] = s

InnerOpen(r) == pc[r] \in {"insert", "prepare", "readFiles", "write"}

\* Connections in use between two actions: one per outer and one per inner
\* transaction. Every other query takes a connection and gives it back within
\* one action.
Busy == Cardinality({r \in Requests : OuterOpen(r)})
            + Cardinality({r \in Requests : InnerOpen(r)})
FreeConnection == Busy < PoolSize

Goto(r, s) == pc' = [pc EXCEPT ![r] = s]

\* A handler's variables: attributes still to be handled, blocks still to be
\* checked, blocks the participant had, participants counted, files to delete.
Local == [todo : Seq(Attributes), pending : Seq(Blocks), kept : SUBSET Blocks,
          seen : Nat, old : SUBSET Tokens]

Fresh == [todo |-> << >>, pending |-> << >>, kept |-> {}, seen |-> 0, old |-> {}]

Forget(r) == local' = [local EXCEPT ![r] = Fresh]

\* The end of r's outer transaction frees the rows it locked.
Unlock(r) ==
    /\ lock' = [b \in Blocks |-> IF lock[b] = r THEN None ELSE lock[b]]
    /\ claimer' = [t \in Tokens |-> IF claimer[t] = r THEN None ELSE claimer[t]]

\* An exception: the outer transaction, if it is still open, is rolled back.
Fail(r) ==
    /\ Goto(r, "failed")
    /\ Unlock(r)
    /\ outer' = [outer EXCEPT ![r] = IF @ = "open" THEN "rolledback" ELSE @]
    /\ Forget(r)
    /\ UNCHANGED <<people, capacity, row, object, reaper, input, wrote>>

\* The next attribute value of Object.entries(submittedAttributes).
NextAnswer(r) == local' = [local EXCEPT ![r].todo = Tail(@)]

Query(r, s) ==
    /\ pc[r] = s
    /\ OuterOpen(r)

-----------------------------------------------------------------------------
(* FormsService.formSubmit: the outer transaction.                         *)

\* The transaction begins and reads the event with its participants.
Begin(r) ==
    /\ pc[r] = "idle"
    /\ IsForm(r)
    /\ FreeConnection
    /\ Goto(r, "form")
    /\ outer' = [outer EXCEPT ![r] = "open"]
    /\ local' = [local EXCEPT ![r].seen = Cardinality(registered),
                              ![r].todo = input[r].attrs]
    /\ UNCHANGED <<tables, input, wrote>>

\* The form is read on this transaction, isOpen on a second connection.
CheckForm(r) ==
    /\ Query(r, "form")
    /\ FreeConnection
    /\ Goto(r, "answers")
    /\ UNCHANGED <<tables, input, outer, wrote, local>>

\* Early returns whose data is not modelled: no such event or form, a closed
\* form, an attribute that is not part of it, an upload of another form or
\* one that is no image for a drawing, a root or foreign block, a value that
\* the attribute's normaliser refuses, an inner transaction that gets no
\* connection within 2 s or does not end within 5 s, a write that loses the
\* race for the unique (participant, attribute) pair.
Reject(r) ==
    /\ \/ pc[r] = "form" /\ OuterOpen(r) /\ FreeConnection
       \/ pc[r] \in {"answers", "count"} /\ OuterOpen(r)
       \/ pc[r] = "enter" \/ InnerOpen(r)
    /\ Fail(r)

\* A transaction sees its own update, and of others what is committed.
RowSeenBy(r, t) == IF claimer[t] = r THEN "claimed" ELSE row[t]

ReadToken(r) ==
    /\ Query(r, "answers")
    /\ local[r].todo # << >> /\ Head(local[r].todo) = "file"
    /\ \/ /\ input[r].file = None
          /\ NextAnswer(r)
          /\ UNCHANGED <<tables, pc, input, outer, wrote>>
       \/ /\ input[r].file # None
          /\ RowSeenBy(r, input[r].file) = "unclaimed"
          /\ Goto(r, "claim")
          /\ UNCHANGED <<tables, input, outer, wrote, local>>
       \/ /\ input[r].file # None
          /\ RowSeenBy(r, input[r].file) # "unclaimed"
          /\ Fail(r)

\* Mutant of ClaimToken: the claim is written outside the outer transaction.
ClaimTokenAtOnce(r) ==
    /\ Query(r, "claim")
    /\ row' = [row EXCEPT ![input[r].file] = "claimed"]
    /\ NextAnswer(r)
    /\ Goto(r, "answers")
    /\ UNCHANGED <<people, blocks, claimer, object, reaper, input, outer, wrote>>

\* uploadedFile.update by uuid alone: it waits for another transaction's
\* update of the row and then applies, whoever claimed the row meanwhile.
ClaimToken(r) ==
    /\ Query(r, "claim")
    /\ claimer[input[r].file] \in {None, r}
    /\ \/ /\ row[input[r].file] = "deleted"
          /\ Fail(r)
       \/ /\ row[input[r].file] # "deleted"
          /\ claimer' = [claimer EXCEPT ![input[r].file] = r]
          /\ NextAnswer(r)
          /\ Goto(r, "answers")
          /\ UNCHANGED <<people, blocks, row, object, reaper, input, outer, wrote>>

\* The blocks the participant already has are read once, without a lock.
ReadPrevious(r) ==
    /\ Query(r, "answers")
    /\ local[r].todo # << >> /\ Head(local[r].todo) = "blocks"
    /\ local' = [local EXCEPT
          ![r].pending = input[r].choice,
          ![r].kept = IF input[r].target = None THEN {} ELSE seats[input[r].target]]
    /\ Goto(r, "lock")
    /\ UNCHANGED <<tables, input, outer, wrote>>

\* A block the participant already has is not checked again.
KeepBlock(r) ==
    /\ Query(r, "lock")
    /\ local[r].pending # << >> /\ Head(local[r].pending) \in local[r].kept
    /\ local' = [local EXCEPT ![r].pending = Tail(@)]
    /\ UNCHANGED <<tables, pc, input, outer, wrote>>

\* BlocksService.canSignInToBlock: SELECT ... FOR UPDATE of the block's row.
LockBlock(r) ==
    /\ Query(r, "lock")
    /\ local[r].pending # << >> /\ Head(local[r].pending) \notin local[r].kept
    /\ lock[Head(local[r].pending)] \in {None, r}
    /\ lock' = [lock EXCEPT ![Head(local[r].pending)] = r]
    /\ Goto(r, "count")
    /\ UNCHANGED <<people, capacity, uploads, reaper, input, outer, wrote, local>>

\* Mutant of CountBlock: the block may be full already (<= for <).
CountBlockOffByOne(r) ==
    /\ Query(r, "count")
    /\ Within(capacity[Head(local[r].pending)], Cardinality(Seated(Head(local[r].pending))))
    /\ local' = [local EXCEPT ![r].pending = Tail(@)]
    /\ Goto(r, "lock")
    /\ UNCHANGED <<tables, input, outer, wrote>>

\* ... and, with the row locked, the count against the capacity.
CountBlock(r) ==
    /\ Query(r, "count")
    /\ LET b == Head(local[r].pending)
       IN  \/ /\ HasRoom(capacity[b], Cardinality(Seated(b)))
              /\ local' = [local EXCEPT ![r].pending = Tail(@)]
              /\ Goto(r, "lock")
              /\ UNCHANGED <<tables, input, outer, wrote>>
           \/ /\ ~HasRoom(capacity[b], Cardinality(Seated(b)))
              /\ Fail(r)

BlocksChecked(r) ==
    /\ Query(r, "lock")
    /\ local[r].pending = << >>
    /\ NextAnswer(r)
    /\ Goto(r, "answers")
    /\ UNCHANGED <<tables, input, outer, wrote>>

\* A required attribute counts with its submitted value if it was submitted,
\* else with the value the participant has now.  Blocks are not required of an
\* event that offers none.
HasValue(r, a) ==
    IF Submitted(r, a)
    THEN IF a = "file" THEN input[r].file # None ELSE input[r].choice # << >>
    ELSE /\ input[r].target # None
         /\ IF a = "file" THEN file[input[r].target] # None
                          ELSE seats[input[r].target] # {}

MayOmit(a) == a = "blocks" /\ Blocks = {}

\* The limit is compared with the participants read when r began.
CheckRequired(r) ==
    /\ Query(r, "answers")
    /\ local[r].todo = << >>
    /\ \/ /\ \A a \in Required : HasValue(r, a) \/ MayOmit(a)
          /\ input[r].kind = "registration" => HasRoom(Limit, local[r].seen)
          /\ Goto(r, IF input[r].kind = "registration" THEN "enter" ELSE "lookup")
          /\ UNCHANGED <<tables, input, outer, wrote, local>>
       \/ /\ \/ \E a \in Required : ~HasValue(r, a) /\ ~MayOmit(a)
             \/ input[r].kind = "registration" /\ ~HasRoom(Limit, local[r].seen)
          /\ Fail(r)

-----------------------------------------------------------------------------
(* ParticipantsService: register, update and remove.  For a form they run  *)
(* inside formSubmit's callback, but not in its transaction.               *)

EmailFree(e, p) == \A q \in registered \ {p} : email[q] # e

\* p's block values become B.  History: the seats that r takes while its own
\* transaction holds the block's lock are marked as guarded.
Reseat(r, p, B) ==
    /\ seats' = [seats EXCEPT ![p] = B]
    /\ guarded' = [b \in Blocks |->
          IF b \in B THEN IF lock[b] = r THEN guarded[b] \cup {p} ELSE guarded[b]
                     ELSE guarded[b] \ {p}]

Written(r) == wrote' = [wrote EXCEPT ![r] = TRUE]

\* An organizer's request begins in ParticipantsService.
BeginAdmin(r) ==
    /\ pc[r] = "idle"
    /\ ~IsForm(r)
    /\ Goto(r, CASE input[r].kind = "create" -> "enter"
                 [] input[r].kind = "edit"   -> "lookup"
                 [] input[r].kind = "remove" -> "readRow")
    /\ UNCHANGED <<tables, input, outer, wrote, local>>

\* The inner transaction of register and of update takes a connection.
BeginInner(r) ==
    /\ pc[r] = "enter"
    /\ FreeConnection
    /\ Goto(r, IF input[r].kind \in {"registration", "create"} THEN "insert" ELSE "prepare")
    /\ UNCHANGED <<tables, input, outer, wrote, local>>

\* register: prepareAttributesForSave reads on one more connection; then the
\* participant is inserted with its values and committed; (email, event) is
\* unique.  PARTICIPANT_REGISTERED is emitted here, before the outer commit.
Register(r) ==
    /\ pc[r] = "insert"
    /\ FreeConnection
    /\ \/ /\ EmailFree(input[r].email, r)
          /\ registered' = registered \cup {r}
          /\ email' = [email EXCEPT ![r] = input[r].email]
          /\ file' = [file EXCEPT ![r] =
                         IF Submitted(r, "file") THEN input[r].file ELSE None]
          /\ Reseat(r, r, IF Submitted(r, "blocks") THEN Range(input[r].choice) ELSE {})
          /\ Written(r)
          /\ Goto(r, IF IsForm(r) THEN "commit" ELSE "done")
          /\ Forget(r)
          /\ UNCHANGED <<blocks, uploads, reaper, input, outer, revived>>
       \/ /\ ~EmailFree(input[r].email, r)
          /\ Fail(r)

\* update: the participant must exist when the handler starts ...
Lookup(r) ==
    /\ pc[r] = "lookup"
    /\ FreeConnection
    /\ \/ /\ input[r].target \in registered
          /\ Goto(r, "enter")
          /\ UNCHANGED <<tables, input, outer, wrote, local>>
       \/ /\ input[r].target \notin registered
          /\ Fail(r)

\* ... prepareAttributesForSave reads on one more connection.  An organizer who
\* sends a file (resolveUntrustedFileValue) may only send the current one ...
Prepare(r) ==
    /\ pc[r] = "prepare"
    /\ input[r].attrs # << >> => FreeConnection
    /\ LET refused == ~IsForm(r) /\ input[r].file \notin {None, file[input[r].target]}
       IN  \/ /\ ~refused
              /\ Goto(r, "readFiles")
              /\ UNCHANGED <<tables, input, outer, wrote, local>>
           \/ refused /\ Fail(r)

\* Mutant of ReadFiles: a value that is not a string is noted as well.
ReadFilesUnchecked(r) ==
    /\ pc[r] = "readFiles"
    /\ local' = [local EXCEPT ![r].old =
                  IF Submitted(r, "file") THEN {file[input[r].target]} ELSE {}]
    /\ Goto(r, "write")
    /\ UNCHANGED <<tables, input, outer, wrote>>

\* Mutant of ReadFiles: the new value is noted for deletion instead of the old.
ReadFilesSwapped(r) ==
    /\ pc[r] = "readFiles"
    /\ local' = [local EXCEPT ![r].old =
                  IF Submitted(r, "file")
                  THEN {input[r].file} \ {None, file[input[r].target]} ELSE {}]
    /\ Goto(r, "write")
    /\ UNCHANGED <<tables, input, outer, wrote>>

\* ... the inner transaction notes the file to be replaced, which may be another
\* by now ...
ReadFiles(r) ==
    /\ pc[r] = "readFiles"
    /\ local' = [local EXCEPT ![r].old =
                  IF Submitted(r, "file")
                  THEN {file[input[r].target]} \ {None, input[r].file} ELSE {}]
    /\ Goto(r, "write")
    /\ UNCHANGED <<tables, input, outer, wrote>>

\* ... and replaces the submitted values and the email, and commits.
Write(r) ==
    /\ pc[r] = "write"
    /\ LET p == input[r].target
           free == input[r].email # None => EmailFree(input[r].email, p)
       IN  \/ /\ p \in registered
              /\ free
              /\ email' = [email EXCEPT ![p] =
                              IF input[r].email = None THEN @ ELSE input[r].email]
              /\ file' = [file EXCEPT ![p] =
                             IF Submitted(r, "file") THEN input[r].file ELSE @]
              /\ revived' = IF IsForm(r) THEN revived
                                          ELSE revived \cup ({input[r].file} \ {None, file[p]})
              /\ Reseat(r, p, IF Submitted(r, "blocks") THEN Range(input[r].choice)
                                                        ELSE seats[p])
              /\ Written(r)
              /\ Goto(r, "purge")
              /\ UNCHANGED <<registered, blocks, uploads, reaper, input, outer, local>>
           \/ /\ p \notin registered \/ ~free
              /\ Fail(r)

\* remove: the row is read with its values, then deleted with them.
ReadRow(r) ==
    /\ pc[r] = "readRow"
    /\ FreeConnection
    /\ \/ /\ input[r].target \in registered
          /\ local' = [local EXCEPT ![r].old = {file[input[r].target]} \ {None}]
          /\ Goto(r, "delete")
          /\ UNCHANGED <<tables, input, outer, wrote>>
       \/ /\ input[r].target \notin registered
          /\ Fail(r)

Delete(r) ==
    /\ pc[r] = "delete"
    /\ FreeConnection
    /\ LET p == input[r].target
       IN  \/ /\ p \in registered
              /\ registered' = registered \ {p}
              /\ email' = [email EXCEPT ![p] = None]
              /\ file' = [file EXCEPT ![p] = None]
              /\ Reseat(r, p, {})
              /\ Written(r)
              /\ Goto(r, "purge")
              /\ UNCHANGED <<blocks, uploads, reaper, input, outer, local, revived>>
           \/ /\ p \notin registered
              /\ Fail(r)

\* Mutant of Purge: a failing delete of an object is thrown.
PurgeOrThrow(r) ==
    /\ pc[r] = "purge"
    /\ \/ /\ local[r].old = {}
          /\ Goto(r, IF IsForm(r) THEN "commit" ELSE "done")
          /\ UNCHANGED <<tables, input, outer, wrote, local>>
       \/ local[r].old # {} /\ Fail(r)

\* After the commit the noted objects are deleted one by one; a failing delete
\* is logged and forgotten (StorageService.delete).
Purge(r) ==
    /\ pc[r] = "purge"
    /\ \/ \E t \in local[r].old :
             /\ local' = [local EXCEPT ![r].old = @ \ {t}]
             /\ object' \in {object, object \ {t}}
             /\ UNCHANGED <<people, blocks, row, claimer, reaper, pc, input, outer, wrote>>
       \/ /\ local[r].old = {}
          /\ Goto(r, IF IsForm(r) THEN "commit" ELSE "done")
          /\ Forget(r)
          /\ UNCHANGED <<tables, input, outer, wrote>>

-----------------------------------------------------------------------------
(* The end of the outer transaction.                                       *)

\* The callback has returned: the claims become visible, the locks are freed,
\* and FORM_FILLED is emitted.
Commit(r) ==
    /\ Query(r, "commit")
    /\ row' = [t \in Tokens |-> IF claimer[t] = r THEN "claimed" ELSE row[t]]
    /\ Unlock(r)
    /\ outer' = [outer EXCEPT ![r] = "committed"]
    /\ Goto(r, "done")
    /\ UNCHANGED <<people, capacity, object, reaper, input, wrote, local>>

\* Prisma's transaction limit: the outer transaction is rolled back, while the
\* callback goes on.  A rollback queues behind a query that waits for a lock.
Expire(r) ==
    /\ OuterOpen(r)
    /\ ~\E s \in Requests : WaitsFor(r, s)
    /\ outer' = [outer EXCEPT ![r] = "expired"]
    /\ Unlock(r)
    /\ UNCHANGED <<people, capacity, row, object, reaper, pc, input, wrote, local>>

\* The callback's next query on the expired transaction throws, and so does
\* the commit of it.
FindExpired(r) ==
    /\ outer[r] = "expired"
    /\ pc[r] \in OuterStates \cup {"commit"}
    /\ Fail(r)

\* Postgres aborts a transaction that waits in a cycle.
InCycle(r) ==
    \E S \in SUBSET Requests :
        /\ r \in S
        /\ \A s \in S : /\ \E t \in S : WaitsFor(s, t)
                        /\ \E t \in S : WaitsFor(t, s)

\* Mutant of DeadlockVictim: the database does not look for deadlocks.
NoVictim(r) ==
    FALSE /\ Fail(r)

DeadlockVictim(r) ==
    /\ OuterOpen(r)
    /\ InCycle(r)
    /\ Fail(r)

\* The process dies: no handler goes on, open transactions are rolled back, an
\* object whose row was not yet created stays without one.
Crash ==
    /\ \E r \in Requests : pc[r] \in Active
    /\ pc' = [r \in Requests |-> IF pc[r] \in Active THEN "crashed" ELSE pc[r]]
    /\ outer' = [r \in Requests |-> IF outer[r] = "open" THEN "rolledback" ELSE outer[r]]
    /\ lock' = [b \in Blocks |-> None]
    /\ claimer' = [t \in Tokens |-> None]
    /\ row' = [t \in Tokens |-> IF row[t] = "stored" THEN "deleted" ELSE row[t]]
    /\ reapObjects' = {}
    /\ reapRows' = {}
    /\ local' = [r \in Requests |-> IF pc[r] \in Active THEN Fresh ELSE local[r]]
    /\ UNCHANGED <<people, capacity, object, reaped, input, wrote>>

-----------------------------------------------------------------------------
(* The organizer changes a capacity; uploads; the hourly reaper.           *)

\* Mutant of SetCapacity: the update does not wait for the row lock.
SetCapacityAnyway(b) ==
    /\ \E c \in Capacities : capacity' = [capacity EXCEPT ![b] = c]
    /\ UNCHANGED <<people, lock, uploads, reaper, request>>

\* BlocksService.update: the UPDATE waits for the row lock.
SetCapacity(b) ==
    /\ lock[b] = None
    /\ \E c \in Capacities : capacity' = [capacity EXCEPT ![b] = c]
    /\ UNCHANGED <<people, lock, uploads, reaper, request>>

\* uploadSingleFile: the object is put first ...
PutObject(t) ==
    /\ row[t] = "new"
    /\ row' = [row EXCEPT ![t] = "stored"]
    /\ object' = object \cup {t}
    /\ UNCHANGED <<people, blocks, claimer, reaper, request>>

\* ... then the row, whose uuid is the token the client submits.
CreateRow(t) ==
    /\ row[t] = "stored"
    /\ row' = [row EXCEPT ![t] = "unclaimed"]
    /\ UNCHANGED <<people, blocks, claimer, object, reaper, request>>

\* The reaper lists unclaimed rows older than the TTL; any row may be.
FindExpiredFiles ==
    /\ reapRows = {}
    /\ \E S \in SUBSET {t \in Tokens : row[t] = "unclaimed"} :
          /\ S # {}
          /\ reapObjects' = S
          /\ reapRows' = S
    /\ UNCHANGED <<people, blocks, uploads, reaped, request>>

ReapObject(t) ==
    /\ t \in reapObjects
    /\ reapObjects' = reapObjects \ {t}
    /\ \/ object' = object /\ reaped' = reaped
       \/ object' = object \ {t} /\ reaped' = reaped \cup {t}
    /\ UNCHANGED <<people, blocks, row, claimer, reapRows, request>>

\* deleteMany by uuid: it waits for the rows that outer transactions updated,
\* and does not look at claimedAt again.
ReapRows ==
    /\ reapRows # {} /\ reapObjects = {}
    /\ \A t \in reapRows : claimer[t] = None
    /\ row' = [t \in Tokens |-> IF t \in reapRows THEN "deleted" ELSE row[t]]
    /\ reapRows' = {}
    /\ UNCHANGED <<people, blocks, claimer, object, reapObjects, reaped, request>>

-----------------------------------------------------------------------------

Init ==
    /\ registered = Guests
    /\ email = [p \in People |-> None]
    /\ seats = [p \in People |-> IF p \in Guests THEN GuestSeats[p] ELSE {}]
    /\ file = [p \in People |-> None]
    /\ guarded = [b \in Blocks |-> {p \in Guests : b \in GuestSeats[p]}]
    /\ capacity \in [Blocks -> Capacities]
    /\ \A b \in Blocks : Within(capacity[b], Cardinality(guarded[b]))
    /\ lock = [b \in Blocks |-> None]
    /\ row = [t \in Tokens |-> "new"]
    /\ claimer = [t \in Tokens |-> None]
    /\ object = {}
    /\ reapObjects = {} /\ reapRows = {} /\ reaped = {} /\ revived = {}
    /\ pc = [r \in Requests |-> "idle"]
    /\ input \in [Requests -> Inputs]
    /\ outer = [r \in Requests |-> "none"]
    /\ local = [r \in Requests |-> Fresh]
    /\ wrote = [r \in Requests |-> FALSE]

\* What the server does next for a request it has accepted.
Step(r) ==
    \/ CheckForm(r) \/ Reject(r)
    \/ ReadToken(r) \/ ClaimToken(r)
    \/ ReadPrevious(r) \/ KeepBlock(r) \/ LockBlock(r) \/ CountBlock(r) \/ BlocksChecked(r)
    \/ CheckRequired(r)
    \/ BeginInner(r) \/ Register(r)
    \/ Lookup(r) \/ Prepare(r) \/ ReadFiles(r) \/ Write(r)
    \/ ReadRow(r) \/ Delete(r)
    \/ Purge(r)
    \/ Commit(r)
    \/ FindExpired(r)

Next ==
    \/ \E r \in Requests : \/ Begin(r) \/ BeginAdmin(r) \/ Step(r)
                           \/ Expire(r) \/ DeadlockVictim(r)
    \/ Crash
    \/ \E b \in Blocks : SetCapacity(b)
    \/ \E t \in Tokens : PutObject(t) \/ CreateRow(t) \/ ReapObject(t)
    \/ FindExpiredFiles
    \/ ReapRows

Spec == Init /\ [][Next]_vars

\* The event loop goes on with every handler it has started, Prisma's timer
\* goes off, and Postgres looks for deadlocks.  Clients, organizers and the
\* reaper owe nothing.
Fairness ==
    \A r \in Requests : /\ WF_vars(Step(r))
                        /\ WF_vars(Expire(r))
                        /\ WF_vars(DeadlockVictim(r))

FairSpec == Spec /\ Fairness

-----------------------------------------------------------------------------

TypeOK ==
    /\ registered \subseteq People
    /\ email \in [People -> Emails \cup {None}]
    /\ seats \in [People -> SUBSET Blocks]
    /\ file \in [People -> Tokens \cup {None}]
    /\ guarded \in [Blocks -> SUBSET People]
    /\ capacity \in [Blocks -> Capacities]
    /\ lock \in [Blocks -> Requests \cup {None}]
    /\ row \in [Tokens -> {"new", "stored", "unclaimed", "claimed", "deleted"}]
    /\ claimer \in [Tokens -> Requests \cup {None}]
    /\ object \subseteq Tokens
    /\ reapObjects \subseteq Tokens /\ reapRows \subseteq Tokens /\ reaped \subseteq Tokens
    /\ revived \subseteq Tokens
    /\ pc \in [Requests -> {"idle"} \cup Active \cup Ended]
    /\ input \in [Requests -> Inputs]
    /\ outer \in [Requests -> {"none", "open", "committed", "rolledback", "expired"}]
    /\ local \in [Requests -> Local]
    /\ wrote \in [Requests -> BOOLEAN]

\* The seat a submission was promised when it counted under the lock is still
\* free, among the seats taken under the lock, until its participant is
\* written (formSubmit's canSignInToBlock, then ParticipantsService in another
\* transaction), whatever others do to the block in between.
SeatReserved ==
    \A b \in Blocks, r \in Requests :
        /\ lock[b] = r
        /\ ~wrote[r]
        /\ ~(pc[r] = "count" /\ Head(local[r].pending) = b)
        => HasRoom(capacity[b], Cardinality(guarded[b]))

\* A guarded seat is a seat.
GuardedSeats == \A b \in Blocks : guarded[b] \subseteq Seated(b)

\* What a handler may rely on at each of its states.
HandlersOK ==
    \A r \in Requests :
        /\ pc[r] \in {"claim", "lock", "count"} => local[r].todo # << >>
        /\ pc[r] \in OuterStates => IsForm(r)
        /\ pc[r] = "claim" => input[r].file # None
        /\ pc[r] = "count" => local[r].pending # << >>
        /\ pc[r] \in {"prepare", "readFiles", "write", "delete"} => input[r].target # None
        /\ pc[r] = "enter" =>
              input[r].kind \in {"registration", "create"} \/ input[r].target # None
        /\ wrote[r] => pc[r] \in {"purge", "commit"} \cup Ended

\* The inductive invariant behind the promise of BlockSeats.
SeatInv == TypeOK /\ HandlersOK /\ GuardedSeats /\ SeatReserved

\* Seats taken under a block's lock never exceed its capacity when they are
\* taken: the submission implements BlockSeats, with the guarded seats as the
\* seats it speaks of.
Seats == INSTANCE BlockSeats WITH People <- People, taken <- guarded

SeatsPromise == Seats!Spec

\* An upload is consumed only by a submission that was carried out: a claim is
\* visible only after the participant that refers to it was written and the
\* submission has succeeded (claim in the outer transaction, write in the inner).
NoTokenBurnt ==
    \A t \in Tokens : row[t] = "claimed" =>
        \E r \in Requests : IsForm(r) /\ pc[r] = "done" /\ wrote[r] /\ input[r].file = t

\* A request that reports failure has left nothing behind, except when its
\* outer transaction ran into the time limit after the inner had committed.
FailureLeavesNothing ==
    \A r \in Requests : pc[r] = "failed" /\ wrote[r] => outer[r] = "expired"

\* The inductive invariant behind the last two: a claim names the upload of its
\* request, and what ends a handler comes after its write.
OutcomeInv ==
    /\ NoTokenBurnt
    /\ FailureLeavesNothing
    /\ \A t \in Tokens : claimer[t] # None =>
          IsForm(claimer[t]) /\ input[claimer[t]].file = t
    /\ \A r \in Requests : pc[r] \in {"purge", "commit"} => wrote[r]

\* A participant's file is lost only if the reaper took it, if two submissions
\* were accepted with the same token, or if an organizer's edit sent the value
\* back that it was checked against and that was replaced before the write.
LostFileExplained ==
    \A p \in registered : file[p] # None /\ file[p] \notin object =>
        \/ file[p] \in reaped \cup revived
        \/ \E r, s \in Requests :
              /\ r # s /\ IsForm(r) /\ IsForm(s) /\ wrote[r] /\ wrote[s]
              /\ input[r].file = file[p] /\ input[s].file = file[p]

\* Every request the server has accepted is answered, even when submissions
\* wait for each other's blocks or for a connection of the pool.
EveryRequestEnds ==
    \A r \in Requests : pc[r] \in Active ~> pc[r] \in Ended

-----------------------------------------------------------------------------
(* What the code's messages and tests say, and the code does not do.       *)

\* A block never has more participants than its capacity (while no organizer
\* lowers it or seats people by hand).
CapacityRespected ==
    \A b \in Blocks : Within(capacity[b], Cardinality(Seated(b)))
=============================================================================
