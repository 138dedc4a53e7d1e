--------------------------- MODULE EmailDelivery ---------------------------
(***************************************************************************)
(* Mails to participants: the listeners and the organizer's request that   *)
(* write status rows and queue jobs, the BullMQ queue, and the worker that *)
(* reads, sends and marks, with retries and restarts of the process, while *)
(* participants and templates are removed.                                 *)
(***************************************************************************)
EXTENDS Naturals, FiniteSets

CONSTANTS
    Sends,        \* calls of sendEmailToParticipants
    People, Templates,
    Inputs,       \* what a call may be asked to send
    Attempts,     \* the attempts option of a job
    MaxStalls,    \* BullMQ's maxStalledCount
    MaxCrashes,   \* bound on the restarts of the process
    None

\* An organizer's request, a mail triggered by an event, or the one triggered
\* by a deletion, which carries a snapshot of the participant.
Kinds == {"request", "event", "deletion"}
Input == [kind : Kinds, template : Templates, people : SUBSET People]

\* One status row and one job per call and participant.
Deliveries == Sends \X People

ASSUME SendsAssumption ==
    /\ Inputs \subseteq Input
    /\ Attempts \in Nat \ {0}
    /\ MaxStalls \in Nat /\ MaxCrashes \in Nat
    /\ None \notin Deliveries

VARIABLES
    present, templates,     \* participants and templates in the database
    pc, input,              \* the calls
    status,                 \* rows of ParticipantEmailStatus; "gone": deleted
    job, attempts, stalls,  \* the queue in Redis
    task, at,               \* the worker: its job and where it is
    crashes,
    \* history: mails that went out; deliveries hit by a failure of the
    \* database, of Redis or of the process, or by a lost answer of the mailer
    mails, faulty

rows == <<present, templates, status>>
calls == <<pc, input>>
queue == <<job, attempts, stalls>>
worker == <<task, at>>
history == <<mails, faulty>>
vars == <<rows, calls, queue, worker, crashes, history>>

Over == {"done", "failed", "crashed"}

DeliveriesOf(s) == {<<s, p>> : p \in input[s].people}
TemplateOf(d) == input[d[1]].template
Snapshot(d) == input[d[1]].kind = "deletion"

-----------------------------------------------------------------------------
(* sendEmailToParticipants, and the listener or request that calls it.     *)

\* The listener finds a template with its trigger, the request checks that
\* its template and its participants exist; without them nothing is sent.
Accepted(s) ==
    /\ input[s].template \in templates
    /\ input[s].kind = "request" => input[s].people \subseteq present

\* The event of a deletion is emitted when the participant is gone.
Start(s) ==
    /\ pc[s] = "idle"
    /\ input[s].kind = "deletion" => input[s].people \cap present = {}
    /\ pc' = [pc EXCEPT ![s] = IF Accepted(s) THEN "rows" ELSE "done"]
    /\ UNCHANGED <<rows, input, queue, worker, crashes, history>>

\* The foreign keys hold: nobody was removed since.
MayRefer(s) ==
    /\ input[s].template \in templates
    /\ input[s].kind # "deletion" => input[s].people \subseteq present

\* Mutant of CreateRows: the jobs are queued first.
CreateRowsLater(s) ==
    /\ pc[s] = "rows"
    /\ job' = [d \in Deliveries |-> IF d \in DeliveriesOf(s) THEN "waiting" ELSE job[d]]
    /\ pc' = [pc EXCEPT ![s] = "jobs"]
    /\ UNCHANGED <<rows, input, attempts, stalls, worker, crashes, history>>

\* createMany: all rows or, on a foreign key or database error, none.
CreateRows(s) ==
    /\ pc[s] = "rows"
    /\ \/ /\ MayRefer(s)
          /\ status' = [d \in Deliveries |->
                IF d \in DeliveriesOf(s) THEN "pending" ELSE status[d]]
          /\ pc' = [pc EXCEPT ![s] = "jobs"]
       \/ /\ pc' = [pc EXCEPT ![s] = "failed"]
          /\ UNCHANGED status
    /\ UNCHANGED <<present, templates, input, queue, worker, crashes, history>>

\* addBulk: all jobs or, when Redis fails, none.
AddJobs(s) ==
    /\ pc[s] = "jobs"
    /\ \/ /\ job' = [d \in Deliveries |-> IF d \in DeliveriesOf(s) THEN "waiting" ELSE job[d]]
          /\ pc' = [pc EXCEPT ![s] = "done"]
          /\ UNCHANGED faulty
       \/ /\ faulty' = faulty \cup DeliveriesOf(s)
          /\ pc' = [pc EXCEPT ![s] = "failed"]
          /\ UNCHANGED job
    /\ UNCHANGED <<rows, input, attempts, stalls, worker, crashes, mails>>

-----------------------------------------------------------------------------
(* The worker: deliverEmailToParticipants, one job at a time.              *)

Goto(s) == at' = s /\ UNCHANGED task

\* updateMany by uuid: a row that is gone is not an error.
Mark(d, st) ==
    status' = [status EXCEPT ![d] = IF @ \in {"none", "gone"} THEN @ ELSE st]

Take(d) ==
    /\ at = "idle"
    /\ job[d] = "waiting"
    /\ job' = [job EXCEPT ![d] = "active"]
    /\ task' = d /\ at' = "template"
    /\ UNCHANGED <<rows, calls, attempts, stalls, crashes, history>>

ReadTemplate ==
    /\ at = "template"
    /\ Goto(IF TemplateOf(task) \in templates THEN "participant" ELSE "markFailed")
    /\ UNCHANGED <<rows, calls, queue, crashes, history>>

ReadParticipant ==
    /\ at = "participant"
    /\ Goto(IF Snapshot(task) \/ task[2] \in present THEN "mail" ELSE "markFailed")
    /\ UNCHANGED <<rows, calls, queue, crashes, history>>

\* Mutant of SendMail: an error of the mailer is swallowed.
SendMailAnyway ==
    /\ at = "mail"
    /\ Goto("markSent")
    /\ mails' \in {mails, [mails EXCEPT ![task] = @ + 1]}
    /\ UNCHANGED <<rows, calls, queue, crashes, faulty>>

\* Mutant of SendMail: a refused mail is retried without being marked.
SendMailUnmarked ==
    /\ at = "mail"
    /\ Goto("throw")
    /\ UNCHANGED <<rows, calls, queue, crashes, history>>

\* The mail goes out, is refused, or goes out without an answer.
SendMail ==
    /\ at = "mail"
    /\ \/ /\ mails' = [mails EXCEPT ![task] = @ + 1]
          /\ Goto("markSent")
          /\ UNCHANGED faulty
       \/ /\ Goto("markFailed")
          /\ UNCHANGED history
       \/ /\ mails' = [mails EXCEPT ![task] = @ + 1]
          /\ faulty' = faulty \cup {task}
          /\ Goto("markFailed")
    /\ UNCHANGED <<rows, calls, queue, crashes>>

\* Marking is inside the try block: if it fails, the catch block goes on.
MarkSent ==
    /\ at = "markSent"
    /\ \/ Mark(task, "sent") /\ Goto("complete") /\ UNCHANGED faulty
       \/ faulty' = faulty \cup {task} /\ Goto("markFailed") /\ UNCHANGED status
    /\ UNCHANGED <<present, templates, calls, queue, crashes, mails>>

MarkFailed ==
    /\ at = "markFailed"
    /\ Mark(task, "failed")
    /\ Goto("throw")
    /\ UNCHANGED <<present, templates, calls, queue, crashes, history>>

\* A read or the last mark fails: the exception leaves the handler.
DatabaseFails ==
    /\ \/ at \in {"template", "markFailed"}
       \/ at = "participant" /\ ~Snapshot(task)
    /\ faulty' = faulty \cup {task}
    /\ Goto("throw")
    /\ UNCHANGED <<rows, calls, queue, crashes, mails>>

Idle == task' = None /\ at' = "idle"

\* Mutant of Complete: a job that is done is retried.
CompleteAndRetry ==
    /\ at = "complete"
    /\ attempts' = [attempts EXCEPT ![task] = @ + 1]
    /\ job' = [job EXCEPT ![task] = IF attempts[task] + 1 < Attempts THEN "waiting" ELSE "failed"]
    /\ Idle
    /\ UNCHANGED <<rows, calls, stalls, crashes, history>>

Complete ==
    /\ at = "complete"
    /\ job' = [job EXCEPT ![task] = "completed"]
    /\ Idle
    /\ UNCHANGED <<rows, calls, attempts, stalls, crashes, history>>

\* Mutant of Throw: the limit of attempts is not looked at.
ThrowForEver ==
    /\ at = "throw"
    /\ attempts' = [attempts EXCEPT ![task] = IF @ < Attempts THEN @ + 1 ELSE @]
    /\ job' = [job EXCEPT ![task] = "waiting"]
    /\ Idle
    /\ UNCHANGED <<rows, calls, stalls, crashes, history>>

\* Mutant of Throw: one attempt too many.
ThrowOffByOne ==
    /\ at = "throw"
    /\ attempts' = [attempts EXCEPT ![task] = @ + 1]
    /\ job' = [job EXCEPT ![task] = IF attempts[task] < Attempts THEN "waiting" ELSE "failed"]
    /\ Idle
    /\ UNCHANGED <<rows, calls, stalls, crashes, history>>

\* BullMQ retries a job whose handler throws, after a backoff, up to Attempts.
Throw ==
    /\ at = "throw"
    /\ attempts' = [attempts EXCEPT ![task] = @ + 1]
    /\ job' = [job EXCEPT ![task] = IF attempts[task] + 1 < Attempts THEN "waiting" ELSE "failed"]
    /\ Idle
    /\ UNCHANGED <<rows, calls, stalls, crashes, history>>

-----------------------------------------------------------------------------
(* Around them.                                                            *)

\* The process dies and starts again: calls and worker lose their place.
Crash ==
    /\ crashes < MaxCrashes
    /\ crashes' = crashes + 1
    /\ pc' = [s \in Sends |-> IF pc[s] \in {"rows", "jobs"} THEN "crashed" ELSE pc[s]]
    /\ faulty' = faulty \cup ({task} \ {None})
                        \cup {d \in Deliveries : pc[d[1]] = "jobs" /\ d \in DeliveriesOf(d[1])}
    /\ Idle
    /\ UNCHANGED <<rows, input, queue, mails>>

\* BullMQ finds an active job without a worker: back to the queue, MaxStalls
\* times; the next time it is failed without another attempt.
RecoverStalled(d) ==
    /\ job[d] = "active" /\ task # d
    /\ stalls' = [stalls EXCEPT ![d] = @ + 1]
    /\ job' = [job EXCEPT ![d] = IF stalls[d] < MaxStalls THEN "waiting" ELSE "failed"]
    /\ UNCHANGED <<rows, calls, attempts, worker, crashes, history>>

\* The rows that refer to a participant or a template go with it; the row of
\* a delivery with a snapshot refers to its template only.
Cascade(D) ==
    status' = [d \in Deliveries |-> IF d \in D /\ status[d] # "none" THEN "gone" ELSE status[d]]

RemovePerson(p) ==
    /\ p \in present
    /\ present' = present \ {p}
    /\ Cascade({d \in Deliveries : d[2] = p /\ ~Snapshot(d)})
    /\ UNCHANGED <<templates, calls, queue, worker, crashes, history>>

RemoveTemplate(t) ==
    /\ t \in templates
    /\ templates' = templates \ {t}
    /\ Cascade({d \in Deliveries : TemplateOf(d) = t})
    /\ UNCHANGED <<present, calls, queue, worker, crashes, history>>

-----------------------------------------------------------------------------

Init ==
    /\ present = People /\ templates = Templates
    /\ pc = [s \in Sends |-> "idle"]
    /\ input \in [Sends -> Inputs]
    /\ status = [d \in Deliveries |-> "none"]
    /\ job = [d \in Deliveries |-> "none"]
    /\ attempts = [d \in Deliveries |-> 0]
    /\ stalls = [d \in Deliveries |-> 0]
    /\ task = None /\ at = "idle"
    /\ crashes = 0
    /\ mails = [d \in Deliveries |-> 0]
    /\ faulty = {}

Call(s) == Start(s) \/ CreateRows(s) \/ AddJobs(s)

Work ==
    \/ \E d \in Deliveries : Take(d)
    \/ ReadTemplate \/ ReadParticipant \/ SendMail \/ MarkSent \/ MarkFailed
    \/ DatabaseFails \/ Complete \/ Throw

Next ==
    \/ \E s \in Sends : Call(s)
    \/ Work
    \/ \E d \in Deliveries : RecoverStalled(d)
    \/ Crash
    \/ \E p \in People : RemovePerson(p)
    \/ \E t \in Templates : RemoveTemplate(t)

Spec == Init /\ [][Next]_vars

\* The process runs its calls and its worker, and the queue looks for stalled
\* jobs. Nobody has to call, and nothing has to be removed.
Fairness ==
    /\ \A s \in Sends : WF_vars(CreateRows(s) \/ AddJobs(s))
    /\ WF_vars(Work)
    /\ \A d \in Deliveries : WF_vars(RecoverStalled(d))

FairSpec == Spec /\ Fairness

-----------------------------------------------------------------------------

TypeOK ==
    /\ present \subseteq People /\ templates \subseteq Templates
    /\ pc \in [Sends -> {"idle", "rows", "jobs"} \cup Over]
    /\ input \in [Sends -> Inputs]
    /\ status \in [Deliveries -> {"none", "pending", "sent", "failed", "gone"}]
    /\ job \in [Deliveries -> {"none", "waiting", "active", "completed", "failed"}]
    /\ attempts \in [Deliveries -> 0 .. Attempts]
    /\ stalls \in [Deliveries -> 0 .. MaxStalls + 1]
    /\ task \in Deliveries \cup {None}
    /\ at \in {"idle", "template", "participant", "mail", "markSent", "markFailed",
               "complete", "throw"}
    /\ crashes \in Nat
    /\ mails \in [Deliveries -> Nat]
    /\ faulty \subseteq Deliveries

\* A status says "sent" only when a mail has gone out, whatever attempt, crash
\* or failing mark came in between (the order of sendMail and markStatus).
SentMeansMailed == \A d \in Deliveries : status[d] = "sent" => mails[d] > 0

\* Retries alone never send a mail twice: a participant gets a second one only
\* after a failure of the database, of the process or of the mailer's answer.
DuplicateExplained == \A d \in Deliveries : mails[d] > 1 => d \in faulty

\* A job leaves the queue as completed only with its status marked.
CompletedMeansSent ==
    \A d \in Deliveries : job[d] = "completed" => status[d] \in {"sent", "gone"}

\* A status stays pending without a job to change it only after such a failure:
\* rows are committed before jobs are queued, and the last attempt marks.
NothingForgotten ==
    \A d \in Deliveries :
        /\ status[d] = "pending"
        /\ pc[d[1]] \in Over
        /\ job[d] \notin {"waiting", "active"}
        => d \in faulty

\* The deliveries keep what a status promises: announced, then mailed, then
\* recorded, although rows, jobs and marks are written by different steps.
Ledger == INSTANCE MailLedger

LedgerSpec == Ledger!Spec

\* Every job that is queued leaves the queue, completed or given up.
QueueDrains ==
    \A d \in Deliveries : job[d] \in {"waiting", "active"} ~> job[d] \in {"completed", "failed"}
=============================================================================
