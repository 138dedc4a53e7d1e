# Verification of the Eventownik backend

TLA+ models of the backend under `src/` (NestJS, Prisma on PostgreSQL, BullMQ
on Redis, S3), the TLC runs that check them on small instances, and theorems
about them checked by TLAPS.

## The system

| Component | State it keeps | Operations | Hard behaviour | What makes it correct |
|---|---|---|---|---|
| Form submission (`forms/`) | forms and their definitions, upload rows (claimed or not) | `formSubmit`, `uploadSingleFile`, create, update, duplicate, remove | two transactions per submission, row locks, a second and third connection of the pool, Prisma's 5 s limit | no seat is given twice, no upload is consumed in vain, a failure leaves nothing, every request ends |
| Blocks (`blocks/`) | tree of blocks, capacities; the seats are attribute values of participants | `canSignInToBlock` (locks), update, create, duplicate, remove, `ensureRootBlock` | count under a lock, write by another transaction; parents changed at once | no overbooking, one root, a tree |
| Participants (`participants/`) | participants, their values | register, create, update, remove, `removeMany`, `bulkUpdateAttributes` | files of replaced values are deleted after the commit from notes taken before it; events between commits | a file that a participant has is there; listeners hear what happened |
| Reaper, storage (`forms-reaper`, `storage/`) | S3 objects | hourly reaping, upload, delete | lists rows, deletes objects, deletes rows, no transaction; S3 errors are swallowed | only unclaimed uploads go |
| Email delivery (`emails/`) | status rows, a queue in Redis | listeners, `sendEmailToParticipants`, worker with three attempts | crash between rows and jobs, a retry of a mail that is out, deleted participants | a status ends as sent or failed and says what happened |
| Email templates (`emails/`) | templates, triggers and configs, their order | create, update, duplicate, reorder, remove | validated against one state, written to another; row locks in the order of the request | a config fits its trigger, an order is whole |
| Attributes (`attributes/`) | definitions, configs, values | create, update, remove; normalisers | decisions on a type that was read before the lock; conversions that must be idempotent | one root block, tickets of block attributes, values of their type |
| Tickets (`tickets/`) | tickets, check-ins | create, update, remove, scan, confirm | evaluation, then insertion; unique index | a participant is admitted once, into a block they had |
| Organizers, admins, authentication | admins, permissions, refresh and reset tokens | create, update, remove, register, login, refresh, logout, forgot, reset | check-then-act, single use, delete and insert under read committed | the last organizer stays, a token is used once, a reset ends sessions |
| Events (`events/`) | events, photo keys | create, update, remove | S3 and database together | the photo that an event names exists |
| Import and export (`import-export/`) | none of its own | import and export of sheets | others register and remove between the items; items that fail | what is answered of every item is true, columns find their attributes |
| BBI report (`reports/`) | `sentToBbiAt` | monthly report | attributes change between reading, mailing and marking | no change is skipped |

They share one database and call each other inside one process: `formSubmit`
calls `BlocksService.canSignInToBlock` (in its own transaction) and
`ParticipantsService.register` or `update` (which open another one); the import
calls `register` for each item; participants emit events to the mail listeners;
`AttributesService` calls `ensureRootBlock` in its transaction; organizers'
endpoints, the reaper and the report work on the same rows at any time.

## Modules

| Module | What it is |
|---|---|
| `BlockSeats` | The abstract promise of a block's capacity: seats taken, capacities, no locks and no transactions. |
| `FormSubmission` | `formSubmit` with its two transactions, the organizer's create, update and remove of participants, the change of a capacity, uploads, the reaper, the pool, the transaction limit, crashes. Implements `BlockSeats`. |
| `MailLedger` | The abstract promise of a delivery status: announced, mailed, recorded. |
| `EmailDelivery` | The calls that write status rows and queue jobs, the BullMQ queue, the worker with its attempts, crashes, and removals of participants and templates. Implements `MailLedger`. |
| `Catalogue` | Attributes and their types, the tree of blocks, tickets and check-ins. |
| `Access` | Admins, sessions and resets, the organizers of an event, the guards. |
| `EventSetup` | Forms and their definitions, the form that registers, mail templates, photos, the BBI report. |
| `Roster` | Import, bulk update and removal of many participants, next to registrations, uploads and single removals. |
| `Answers` | What becomes of an answer: configs, normalisers, mails, tickets, export, import. |
| `MC...` | The instances for TLC, one for each of `FormSubmission`, `EmailDelivery`, `Catalogue`, `Access`, `EventSetup`, `Roster`, `Answers`. |
| `..._proofs` | Theorems about `BlockSeats`, `FormSubmission`, `EmailDelivery`, `Catalogue`, `Access`, `EventSetup`, `Roster`, `Answers`. |

`FormSubmission`, `Catalogue`, `Access`, `EventSetup` and `Roster` share one
form. One action is what a handler does between two awaits. `pc[r]` names the
await a request is at, `input[r]` its body, `local[r]` its JavaScript
variables. A request is sent once and begins when it likes. Postgres is read
committed: a read sees the committed tables; an update waits for the row lock of
another transaction; foreign keys cascade and unique indexes refuse in the same
step. Where two requests may overlap in a way the code does not exclude, a
history variable notes exactly those overlaps (`crossed`, `touched`, `raced`,
`mixed`, `late`, ...): no guard of the system reads it, and the properties say
that nothing goes wrong *except* there.

### FormSubmission

`local[r]` holds the attributes and blocks still to be handled, the blocks the
participant had, the participants counted at the start, the object keys to
delete; `outer[r]` is the state of its interactive transaction, `lock[b]` the
`FOR UPDATE` lock of a block row, `claimer` the transaction's own update of an
upload row.

| Code | Actions |
|---|---|
| `formSubmit` | `Begin`, `CheckForm`, `ReadToken`, `ClaimToken`, `ReadPrevious`, `KeepBlock`, `LockBlock`, `CountBlock`, `BlocksChecked`, `CheckRequired`, `Commit`; `Reject` stands for the early returns whose data is abstracted |
| `register` | `BeginInner`, `Register` |
| `update` | `Lookup`, `BeginInner`, `Prepare` (`prepareAttributesForSave`, on another connection), `ReadFiles`, `Write`, `Purge` |
| `remove` | `ReadRow`, `Delete`, `Purge` |
| organizer's requests | `BeginAdmin`, then the same actions |
| `BlocksService.update` | `SetCapacity` |
| `uploadSingleFile` | `PutObject`, `CreateRow` |
| `reapExpiredFiles` | `FindExpiredFiles`, `ReapObject`, `ReapRows` |
| Prisma, Postgres, the process | `Expire`, `FindExpired`, `DeadlockVictim`, `Crash` |

The abstractions: an event has one attribute of a file type and one of type
block, attribute values are the sets of blocks and the upload they name;
normalisers either keep a value or refuse it (`Reject`). An organizer's edit may
clear a file or send its current value back (`resolveUntrustedFileValue`):
`Prepare` compares it with a read outside the transaction, `ReadFiles` notes what
the transaction then finds, `Write` replaces it. `revived` notes the files that an
edit put back after they had been replaced in between. Prisma's timer does not
interrupt the callback: after `Expire` the handler goes on until its next query
on the transaction, so everything it does on other connections still happens. A
transaction that waits for a row lock cannot be rolled back before the database
answers, so `Expire` waits for it.

### EmailDelivery

`status[d]` is the row of `ParticipantEmailStatus` of one call and one
participant, `job[d]`, `attempts[d]` and `stalls[d]` its job in Redis, `task`
and `at` the one job that the worker has (BullMQ's default concurrency) and
the await it is at. `mails` and `faulty` are history variables: how many mails
went out, and which deliveries were hit by a failure of the database, of Redis,
of the process, or by a mail that went out without the mailer saying so.

| Code | Actions |
|---|---|
| listeners, `sendManualEmail` | `Start`: they read the template (and count the participants) before anything is written |
| `sendEmailToParticipants` | `CreateRows` (all rows or none, foreign keys checked), `AddJobs` (all jobs or none) |
| `EmailsConsumer.process`, `deliverEmailToParticipants` | `Take`, `ReadTemplate`, `ReadParticipant`, `SendMail`, `MarkSent`, `MarkFailed`, `DatabaseFails` |
| BullMQ | `Complete`, `Throw` (three attempts), `RecoverStalled` |
| `remove` of participants and templates | `RemovePerson`, `RemoveTemplate`, with the cascade to the rows |
| the process | `Crash` |

The trigger and its configuration are abstracted to the template that a call is
given; a call is asked once. A deletion's mail carries a snapshot, so its row
and its job do not refer to the participant.

### Catalogue

`type[a]` is an attribute's type, "none" before and "gone" after it exists;
`lock[a]` the transaction that has updated its row; `row[b]` a block's
attribute and parent; `target`, `shown` and `checkIns` the ticket tables. A
block is a root when it has no parent, because only `ensureRootBlock` writes
such a row. A ticket's shown attributes are a set, because (ticket, attribute) is
unique; rows that another update has created since are not among those that an
update deleted (`Renewed`).

| Code | Actions |
|---|---|
| `AttributesService.create`, `remove` | `AttrCreate`, `AttrRemove` |
| `updateTx` | `AttrRead`, `AttrTicket`, `AttrWrite` (takes the row lock), `AttrRoot` (`ensureRootBlock`), `AttrCommit`, `AttrRollback` |
| `BlocksService` | `BlockCreate`, `BlockDuplicate`, `BlockInsert`, `BlockUpdate`, `BlockMove`, `BlockFind`, `BlockDelete` |
| `TicketsService` | `TicketTarget`, `TicketShown`, `TicketInsert`, `TicketClear`, `TicketShow`, `TicketRemove` |
| `TicketScanService` | `ScanTicket`, `ScanPerson`, `ScanCheckIn`, `Admit` |
| participants meanwhile | `Choose`, `PersonLeaves` |

### Access

`live` are the refresh tokens in the table, `holder` whom a token was issued
to, `resets` and `resetOf` the same for password resets. Hashes, mails and the
signature of access tokens are abstracted: a token is a value that was handed
out, a password a value that is compared.

| Code | Actions |
|---|---|
| `AuthService` | `Register`, `Login`, `Refresh`, `Spend` (delete with a count), `Issue`, `Drop` (logout), `Forgot`, `Reset`, `ResetClear`, `ResetCommit`, `Expire` |
| `AdminsService` | `AdminCreate`, `AdminUpdate`, `AdminRemove` with its cascade |
| `OrganizersService` | `OrgCreate`, `OrgUpdate`, `OrgGrant`, `OrgRemove`, `OrgCount`, `OrgDelete` |
| superadmin and permission guards | the conditions of `Begin` |

### EventSetup

| Code | Actions |
|---|---|
| `FormsService` (create, duplicate, update, remove) | `FormCreate`, `FormDuplicate`, `FormUpdate`, `FormFirst`, `FormClear`, `FormCommit`, `FormRemove`, `RemoveFirst`, `RemoveForm` |
| `AttributesService.create`, `update`, `remove` | `AttrCreate`, `AttrUpdate`, `AttrRemove` |
| `EmailTemplatesService` | `MailCreate`, `MailInsert`, `MailDuplicate`, `MailUpdate`, `MailWrite`, `MailRemove`, `ReorderCount`, `ReorderRow`, `ReorderCommit`, `ReorderDeadlock` |
| `EventsService`, `StorageService` | `PhotoCreate`, `PhotoInsert`, `PhotoRead`, `PhotoUpload`, `PhotoWrite`, `PhotoDrop`, `PhotoRemove`, `PhotoCrash` |
| `BbiReportService.generateAndSendReport` | `ReportRead`, `ReportMail`, `ReportMark` |

`remove` of a form reads the event (`FormRemove`), clears its register form if it
was this one when it was read (`RemoveFirst`, which takes the event's row lock; what
it wrote is seen from the commit on), and deletes the form (`RemoveForm`); the
foreign key clears the register form of a form that goes. A reorder locks one
template's row after another (`mailLock`, `draft`), everybody else waits for those
rows, and its places are seen when it commits. The report's dates are three values
of `bbi[a]`: never sent, sent, modified since. Whether Prisma's `@updatedAt` comes
out later than the date the report wrote is a choice of `ReportMark`. `MaxRows`
bounds the definitions of one attribute in one form; overlapping updates may leave
several. `place[m]` is a template's order: a reorder gives the places of its list,
an update may move one template alone (`moved`), and a duplicate gets the place of
its source.

### Roster

An attribute of the event is a file or a text for a whole behaviour; `value[p]` is
the participant's row of it, `held[p]` every value it ever was. The attributes that
a registration brings are taken as valid, an update changes the address or one
file, and an item of an import that is not skipped may fail for any reason
(a block's name, a value, the database).

| Code | Actions |
|---|---|
| `register` | `Register`, `Announce` |
| `update` of an address | `Update` |
| `processImport` | `ImportRead`, then `ImportItem` and `ImportTell` for each item, `ImportEnd` |
| `bulkUpdateAttributes` | `BulkCheck`, `BulkRead`, `BulkClear`, `BulkWrite`, `BulkDrop`, `BulkTell` |
| a form's upload (`uploadSingleFile`, `update`) | `UploadKey`, `UploadRead`, `UploadClear`, `UploadWrite`, `UploadDrop`, `UploadTell` |
| `remove`, `removeMany` | `RemoveRead`, `RemoveRows`, `RemoveTell`, `RemoveDrop` |

A bulk update and an upload write a row in the same steps (`Read`, `Clear`, `Write`,
`Drop`, `Tell`): the keys to delete are read, the rows deleted, the new ones created,
and after the commit the objects go, but for those that S3 refuses. A value that
another request commits between the read and the deletion goes with its row, and
its object is nobody's (`lostKeys`); one that it commits after the deletion makes
the new row a duplicate, and the request is refused (P2002). A writer that waits for
the row lock of another ends in one of these two ways, so the lock itself is left
out. The object of a refused upload stays until the reaper of `FormSubmission`
takes it, which this module counts as lost.

### Answers

Pure functions, so a behaviour is one answer's life: `Configure`, `Answer`,
`Export`, `Import`, or one sheet's: `ExportSheet`, `ImportSheet`. A string is the
sequence of its pieces between semicolons, a piece a text that may have a blank
before it: that is all that trimming, splitting and joining see. Options, dates
and phone numbers are such strings too: a config keeps the blanks at the ends of its
options, `Date.parse` and the pattern of phone numbers accept some. A text stands
for what the code recognises in it (a number, a date, an option, a uuid, an
address). `Fits` states what a value of each type is without the code's
normalisers, and is the reference that `Normalize` is checked against.

## What is checked

| Run | Bounds | Shows |
|---|---|---|
| `seats` | 3 requests of 4 kinds, 2 blocks, capacities 1 and 2, limit 2, 4 connections | A counted seat stays free until it is written (`SeatReserved`); the seats taken under a lock implement `BlockSeats` (`SeatsPromise`). |
| `files` | 3 requests of 7 kinds, 1 upload, 4 connections | `NoTokenBurnt`, `FailureLeavesNothing`; a participant's file is lost only to the reaper, to a second submission with the same token, or to an edit that put a replaced value back (`LostFileExplained`). |
| `waiting` | 2 requests of 4 kinds, 2 blocks, 1 upload, 3 connections | Under fairness every accepted request ends (`EveryRequestEnds`). |
| `emails` | 1 call for 2 people, about 1 who registered or about 1 who was deleted, 3 attempts, 2 crashes, 1 stall allowed | What a status says (`SentMeansMailed`, `CompletedMeansSent`, `NothingForgotten`), when a mail goes out twice (`DuplicateExplained`), the refinement of `MailLedger` (`LedgerSpec`), and under fairness that every job leaves the queue (`QueueDrains`). |
| `catalogue` | 3 requests out of 8, 11 or 9 in three databases, 3 attributes, 5 blocks, 2 tickets, 2 participants, one of another event | One root (`OneRoot`), the shape of an attribute's blocks (`ShapeUnlessRaced`, `TreeUnlessLooped`), tickets (`TicketUnlessRaced`), check-ins (`CheckInConsistent`, `AdmittedOnce`). |
| `access` | 3 requests, an owner, 2 organizers, a superadmin and a newcomer, 4 tokens, 2 resets, 2 passwords | Single use (`TokenSpentOnce`), `ResetEndsSessions`, `OrganizersExplained`. |
| `setup` | 3 requests, 3 attributes, 3 forms, 4 templates, 2 events, 4 keys, 2 dates, with and without a photo; three reorders that wait for each other in a circle | `FormsUnlessRaced`, `ConfigFitsTrigger`, `ReorderWhole`, `PhotosExplained`, `ChangesReported`; under fairness every reorder ends (`ReorderEnds`). |
| `roster` | 3 requests, 2 participants and 2 free uuids, 5 addresses (one with capitals, one invalid), 4 keys, 2 texts, a file or a text attribute, S3 refusing any deletion | `ImportAccounts`, `ToldTruly`, `FilesExplained`. |
| `answers` | 15 types, 193 configs (options with blanks and semicolons among them), 148 values, sheets of 3 attributes with equal, blank and reserved names | `ValuesSound`, `AnswersOut` (that is `RoundTrip` and `MailShowsAnswer`), `ColumnsKept`. |
| `capacity` | 2 requests | Expected violation of `CapacityRespected`, below. |
| `last_organizer` | 3 requests | Expected violation of `NeverTakesTheLast`, below. |
| `capitals` | 3 requests | Expected violation of `ImportKnowsCapitals`, below. |

Three requests are the smallest number with two that compete and a third that
changes what they compete for (an organizer, a late submission, a removal of
the account). Two blocks are needed for opposite lock orders; with capacities 1
and 2 around a guest who already sits in a block, a block is full, has one seat,
and is overfull after the organizer lowers it. One upload suffices because
uploads meet only through requests that name the same one. The catalogue starts
from three databases (an attribute of blocks with a tree, a text attribute that
becomes one, an event with tickets and people at the door), and each has the
requests that meet there. Of mails, two deliveries are enough to share the
worker, and two crashes to find a job stalled more often than BullMQ allows;
three attempts are the code's.

Every request is sent once, so all runs are finite, and the system really stops
when every request has ended: deadlock checking is off for that reason.
Requests are symmetric where a run checks no liveness: they are compared for
equality only.

Fairness of `FormSubmission`: the event loop continues every handler it has
started (`Step`), Prisma's timer goes off (`Expire`) and Postgres looks for
deadlocks (`DeadlockVictim`). Nothing is assumed of clients, organizers, uploads
or the reaper. The handler's own refusals (`Reject`) are not a way out of a
wait: a handler that waits for a row, or with a plain query for a connection,
has no such step. Of `EmailDelivery`: a call that has started goes on, the
worker works, and BullMQ looks for stalled jobs; crashes are bounded, and nobody
has to call or to remove anything. Of `EventSetup`: a reorder that
has been asked for goes on, and Postgres breaks circles of waiting ones
(`ReorderDeadlock`). The other modules state safety only and assume no fairness.

### Where code and documentation disagree

* `capacity`: the row lock belongs to the outer transaction, the participant is
  written by the inner one. If the outer one expires in between, a block of
  capacity one gets two participants (`forms.service.ts:773`;
  `blocks-service.int.spec.ts:214` promises otherwise; it writes the participant on
  another connection as well, but inside transactions that do not expire).
* `last_organizer`: the organizers are counted and one is removed without a
  transaction (`organizers.service.ts:282`), so two who remove each other at once
  leave an event without any, which line 301 is there to refuse.
* `capitals`: the import compares lower-cased addresses with stored ones
  (`import-export.service.ts:201`) and registers a participant with capitals a
  second time; `import-export.service.spec.ts:366` expects a comparison without case.

Some things the code does are not contradicted by any text, and the models describe
them: the reaper deletes an upload that was claimed after it was listed, two
submissions may claim one upload, and an organizer's edit may put a file back that a
form replaced while it was checked (the causes that `LostFileExplained` names); the
removal of a form that registered when it was read clears the register form that an
update has set since (an overlap that `FormsUnlessRaced` excuses); a multiple choice
whose options all have blanks at their ends refuses every answer (`ValuesSound` says
exactly these do); the participants limit is compared with a count that takes no
lock, so no property promises it; an upload's object stays for ever when the process
dies before its row is written; the export writes the uuids of blocks where the
import expects names, so such rows are refused (`RoundTrip` counts refusal as an
end); an attribute named "Email" becomes a reserved column; a session created while
a reset runs lives on through its refreshes; the removal of an owner is answered
with 204 and leaves the owner; two updates of a form's attributes or of an
organizer's permissions at once leave the union of both.

## What is proved

For every value of the constants (any number of requests, participants, blocks,
uploads, tokens, attributes and connections), from the assumptions named in the
modules. The assumptions type the constants and say what a database or a body
may look like at the start: rows that refer to rows, addresses that are unique,
inputs that name known attributes. TLC evaluates them on every run. No safety
property of a passing run is only model-checked.

Three assumptions ask for more than types. `StartAssumption` of `Catalogue` lets a
database be in any state the service can have left it in: an attribute that
requests overlapped on before (`raced`) or that has a block under its own
descendant (`looped`) may have any shape, the others have the shape that the
theorems keep. `AnswersAssumption` says how the texts that validators recognise
are related: a number's text is a number of that text (`String(Number(t))`), the
words for true and false differ, a block's name is nobody's uuid, and the empty
text is no date, address, color or uuid (it is a number, as in JavaScript).
`InputAssumption` says that a body brings JSON values and that anybody can send any
text, date, phone number and option.

* `BlockSeats`: `SeatsNeverOversold`, its action property.
* `FormSubmission`: `TypeCorrect`, `SeatsReserved`,
  `SubmissionImplementsBlockSeats`, `NoTokenIsBurnt`, `FailuresLeaveNothing`,
  `LostFilesAreExplained`. The inductive invariant `SeatInv` has the types, what a
  handler may rely on at each state (`HandlersOK`: queues it takes from are not
  empty, nothing was written before the last states), guarded seats are seats
  (`GuardedSeats`), and the reservation itself. `GuardedSeats` is what makes the
  count under the lock, which counts all seats, bound the guarded ones. Every step
  is one of five kinds as far as seats are concerned (`StepKinds`: calm, a lock, a
  count, a seating, a change of capacity), and the invariant is proved kind by kind.
  In the refinement a seating maps to `Reseat` with the blocks whose lock the
  request holds or that the participant has; everything else stutters or maps to
  `SetCapacity`. That the *guarded* seats stay within the capacity is proved; that
  all seats do is false (`capacity`). The two outcomes follow from `OutcomeInv`, by
  a lemma about what a failing handler may have done before (`FailOutcome`).
  `LostFileExplained` rests on two more: a submission that is past a file in its
  answers names an upload that was stored (`StoredInv`); and every file was given to
  its participant by a submission, also when an edit sends it back, every note of a
  file to be deleted is of one that a submission gave to the participant it is taken
  from, and an object that is gone was reaped or given once before (`FilesInv`). So
  whoever still has a purged file got it from a second submission, or from an edit
  that put it back.
* `EmailDelivery`: every invariant of its run and the refinement of `MailLedger`.
  `EmailInv` says of each delivery that rows come before jobs and jobs before
  mails (`InOrder`), that an active job without a worker was left by a crash and
  that a mail without a fault ends its job (`Accounted`), and of the worker what
  it may rely on at each await (`WorkerInv`).
* `Access`: every invariant of its run. `AccessInv` adds to the types what a
  handler holds at each await: a refresh that will insert a session has deleted
  its token, which is unspent, and is alone with it (`RefreshInv`); two resets of
  one admin are never both past the clearing of the resets (`ResetInv`); what a
  request will insert is as old as the password it read, or a reset crossed it,
  and a reset that will commit has seen every session that is not late
  (`SessionInv`); the rows that an update read are the admin's permissions, and a
  removal that counted found two organizers, unless a request crossed them
  (`OrganizerInv`).
* `Catalogue`: every invariant of its run. `CatalogueInv`
  ties every handler between its awaits to the rows: the transaction between
  `AttrRoot` and its commit holds the attribute's lock, and nobody else creates a
  root without it (`RootInv`); a ticket whose target was read is still valid or
  its request has been crossed by a change of type (`TicketInv`); a check-in that
  is about to be inserted refers to rows or will be refused by the foreign keys
  (`CheckInInv`). The tree needs two more facts (`TreeInv`): every parent is a block
  of the same attribute, also the one that a request read before its insert or
  that a move has checked; and what is below a root is the least set that holds it
  and leaves out no child of its members (`Hung`), so each insert, move and cascade
  is proved by showing which sets stay closed. A cascade deletes just such a set,
  which is why it cuts off nothing; a move keeps the tree because the new parent is
  not below the moved block, or the attribute counts as `looped`.
* `Roster`: every invariant of its run. `RosterInv` has, for an import, that what has
  been answered of each item is true and exactly the duplicates are called so
  (`ImportInv`);
  for notices, that per participant those sent and those still in some request's
  hands add up, counted over the requests (`NoticeInv`); for files, that every
  object is a row's, in a request's hands, or lost (`FilesInv`): keys that were read
  belong to the request's own participants or to nobody, keys that are about to be
  deleted to nobody, and a new key is in one hand only. A step moves a key between
  a row and a hand, and the invariant is proved by what it trades.

* `EventSetup`: every invariant of its run. `SetupInv` is four invariants that share
  only the requests and the attributes, each kept by the steps of the others. Forms:
  an update or a removal that is under way knows whether its form registers, unless
  others wrote that meanwhile (`FormFlow`). Mails: the trigger that an update read
  is the row's, unless another update crossed it, and a config that is about to be
  written fits the trigger that will be; the rows that a reorder has done are locked
  by it and hold their places (`MailFlow`). Photos: an object that is not in its row
  yet belongs to one request, and a key that will be deleted is in no row
  (`NewFlow`, `OldFlow`, `Covered`). Reports: what a report will mark has been
  mailed, or has changed since it was read (`ReportFlow`).

* `Answers`: every invariant of its run. `AnswersInv` says what each variable holds
  at each step: an accepted config fits its type (`ConfigFits`), a stored value is
  one that a body could have brought, fits, and is not missing unless it is null
  (`Answered`), the cell is its format and what comes back is its import. The rest
  is about the operators. `NormalizeSound` has both halves for each normaliser: what
  it makes is an answer, and an answer goes through it unchanged; for blocks this
  needs that as many rows as items means different uuids of existing blocks
  (`FoundAll`, a counting argument). That a config refuses everything exactly if it
  is a multiple choice of padded options rests on trimming twice being trimming once
  (`TrimTwice`). `BackIs` and the lemmas before it follow a cell through `join`,
  `trim` and `split`: what `FlattenSeq` makes of strings of one piece each is proved
  by a shortest counterexample, because the library's induction theorems cannot be
  instantiated. For columns, the list of the exported attributes keeps the event's
  order (`ExportedIs`), so a header without a uuid is that of the first attribute of
  its name both when it is written and when it is looked up, unless an earlier one
  of that name was left out (`ColumnsBack`).

Only model-checked: liveness (`EveryRequestEnds`, `QueueDrains`, `ReorderEnds`),
which is out of the prover's reach.

## Not modelled

* The audit log: it only appends rows, no decision reads them, and nothing
  outside its module calls it.
* The HTTP layer apart from the guards: routing, Swagger, validation of bodies and
  the turnstile keep no state. Listings and other reads change nothing.
* The layout of spreadsheets, the other tags of a mail, and the mailer itself.
* `AttributesService.bulkUpdate`, which runs several updates in one transaction;
  `updateTx`, which it calls, is modelled. Names, dates and the slug of an event:
  single values of one row.
* Mails of the authentication, which go through a queue of their own with no row
  that records them.
* `prisma/seed.ts`, a script that fills a development database.

What is left to do: the several updates of `bulkUpdate` in one transaction.
