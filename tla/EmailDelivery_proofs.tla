------------------------ MODULE EmailDelivery_proofs ------------------------
(***************************************************************************)
(* Theorems about EmailDelivery.  One inductive invariant, EmailInv, says  *)
(* of every delivery how far its row, its job and its mails are, and of    *)
(* the worker what it may rely on at each step; every property of the      *)
(* statuses follows from it, and so does the refinement of MailLedger.     *)
(***************************************************************************)
EXTENDS EmailDelivery, TLAPS

\* What the worker may rely on where it is.
WorkerInv ==
    /\ at = "idle" <=> task = None
    /\ at # "idle" => job[task] = "active"
    /\ at = "markSent" => mails[task] > 0
    /\ at = "complete" => status[task] \in {"sent", "gone"}
    /\ at = "throw" => status[task] # "pending" \/ task \in faulty

\* Rows come before jobs, and jobs before mails.
InOrder(d) ==
    /\ pc[d[1]] \in {"idle", "rows"} \/ d \notin DeliveriesOf(d[1]) => status[d] = "none"
    /\ pc[d[1]] = "jobs" /\ d \in DeliveriesOf(d[1]) => status[d] # "none"
    /\ pc[d[1]] \in {"idle", "rows", "jobs"} => job[d] = "none"
    /\ job[d] # "none" => status[d] # "none"

\* An active job that nobody works on was left by a crash; a mail of a
\* delivery without a fault is the only one and ends its job.
Accounted(d) ==
    /\ job[d] = "active" /\ task # d => d \in faulty
    /\ d \notin faulty => mails[d] \leq 1
    /\ mails[d] > 0 /\ d \notin faulty =>
          job[d] = "completed" \/ (task = d /\ at \in {"markSent", "complete"})

\* A job that will run again has an attempt left.
InBounds(d) ==
    job[d] \in {"none", "waiting", "active"} =>
        attempts[d] < Attempts /\ stalls[d] \leq MaxStalls

\* What the properties say of one delivery.
Recorded(d) ==
    /\ status[d] = "sent" => mails[d] > 0
    /\ job[d] = "completed" => status[d] \in {"sent", "gone"}
    /\ /\ status[d] = "pending"
       /\ pc[d[1]] \in Over
       /\ job[d] \notin {"waiting", "active"}
       => d \in faulty

DeliveryInv(d) == InOrder(d) /\ Accounted(d) /\ InBounds(d) /\ Recorded(d)

EmailInv ==
    /\ TypeOK
    /\ WorkerInv
    /\ \A d \in Deliveries : DeliveryInv(d)

-----------------------------------------------------------------------------

\* A delivery is a call and a participant.
LEMMA DeliveryParts ==
    ASSUME NEW d \in Deliveries
    PROVE  d[1] \in Sends /\ d[2] \in People
BY DEF Deliveries

\* The deliveries of a call belong to it and to nobody else.
LEMMA DeliveriesOfCall ==
    ASSUME TypeOK, NEW s \in Sends
    PROVE  /\ DeliveriesOf(s) \subseteq Deliveries
           /\ \A d \in DeliveriesOf(s) : d[1] = s
BY SendsAssumption DEF TypeOK, DeliveriesOf, Deliveries, Input

\* The deliveries of a call depend on what it was asked to send only.
LEMMA SameDeliveries ==
    ASSUME input' = input, NEW s
    PROVE  DeliveriesOf(s)' = DeliveriesOf(s)
BY DEF DeliveriesOf

\* The worker has a job of a delivery unless it is idle.
LEMMA WorkingOn ==
    ASSUME TypeOK, WorkerInv, at # "idle"
    PROVE  task \in Deliveries /\ task # None /\ job[task] = "active"
BY DEF TypeOK, WorkerInv

\* Init establishes the invariant.
LEMMA InitEmailInv == Init => EmailInv
<1> SUFFICES ASSUME Init PROVE EmailInv
  OBVIOUS
<1>1. TypeOK
  BY SendsAssumption DEF Init, TypeOK, Over
<1>2. WorkerInv
  BY DEF Init, WorkerInv
<1>3. ASSUME NEW d \in Deliveries PROVE DeliveryInv(d)
  BY <1>3, DeliveryParts, SendsAssumption
  DEF Init, DeliveryInv, InOrder, Accounted, InBounds, Recorded, Over
<1> QED
  BY <1>1, <1>2, <1>3 DEF EmailInv

\* Every step of the system keeps the types.
LEMMA TypeStep == EmailInv /\ [Next]_vars => TypeOK'
<1> SUFFICES ASSUME EmailInv, [Next]_vars PROVE TypeOK'
  OBVIOUS
<1> USE SendsAssumption
<1>0. TypeOK /\ WorkerInv /\ \A d \in Deliveries : InBounds(d)
  BY DEF EmailInv, DeliveryInv
<1>1. ASSUME NEW s \in Sends, Call(s) PROVE TypeOK'
  BY <1>0, <1>1, DeliveriesOfCall
  DEF TypeOK, Call, Start, CreateRows, AddJobs, Over, rows, calls, queue, worker, history
<1>2. ASSUME NEW d \in Deliveries, Take(d) PROVE TypeOK'
  BY <1>0, <1>2 DEF TypeOK, Take, rows, calls, history
<1>3. CASE ReadTemplate \/ ReadParticipant \/ SendMail \/ DatabaseFails
  BY <1>0, <1>3, WorkingOn
  DEF TypeOK, ReadTemplate, ReadParticipant, SendMail, DatabaseFails, Goto,
      rows, calls, queue, history
<1>4. CASE MarkSent \/ MarkFailed
  BY <1>0, <1>4, WorkingOn
  DEF TypeOK, MarkSent, MarkFailed, Mark, Goto, rows, calls, queue, history
<1>5. CASE Complete
  BY <1>0, <1>5, WorkingOn DEF TypeOK, Complete, Idle, rows, calls, history
<1>6. CASE Throw
  BY <1>0, <1>6, WorkingOn DEF TypeOK, InBounds, Throw, Idle, rows, calls, history
<1>7. ASSUME NEW d \in Deliveries, RecoverStalled(d) PROVE TypeOK'
  BY <1>0, <1>7 DEF TypeOK, InBounds, RecoverStalled, rows, calls, worker, history
<1>8. CASE Crash
  BY <1>0, <1>8, WorkingOn DEF TypeOK, Crash, Idle, Over, rows, queue
<1>9. ASSUME NEW p \in People, RemovePerson(p) PROVE TypeOK'
  BY <1>0, <1>9 DEF TypeOK, RemovePerson, Cascade, calls, queue, worker, history
<1>10. ASSUME NEW t \in Templates, RemoveTemplate(t) PROVE TypeOK'
  BY <1>0, <1>10 DEF TypeOK, RemoveTemplate, Cascade, calls, queue, worker, history
<1>11. CASE UNCHANGED vars
  BY <1>0, <1>11 DEF TypeOK, vars, rows, calls, queue, worker, history
<1> QED
  BY <1>1, <1>2, <1>3, <1>4, <1>5, <1>6, <1>7, <1>8, <1>9, <1>10, <1>11 DEF Next, Work

\* Every step of the system keeps what the worker may rely on.
LEMMA WorkerStep == EmailInv /\ [Next]_vars => WorkerInv'
<1> SUFFICES ASSUME EmailInv, [Next]_vars PROVE WorkerInv'
  OBVIOUS
<1> USE SendsAssumption
<1>0. TypeOK /\ WorkerInv /\ \A d \in Deliveries : InOrder(d)
  BY DEF EmailInv, DeliveryInv
<1>1. ASSUME NEW s \in Sends, Call(s) PROVE WorkerInv'
  <2>1. at # "idle" => task \in Deliveries /\ pc[task[1]] \in Over
    BY <1>0, WorkingOn, DeliveryParts DEF TypeOK, InOrder, Over
  <2>2. pc[s] \notin Over /\ UNCHANGED <<at, task, mails>>
    BY <1>1 DEF Call, Start, CreateRows, AddJobs, Over, rows, calls, queue, worker, history
  <2>3. at # "idle" => job'[task] = job[task] /\ status'[task] = status[task]
    BY <1>0, <1>1, <2>1, <2>2, DeliveriesOfCall
    DEF Call, Start, CreateRows, AddJobs, TypeOK, rows, calls, queue, worker, history
  <2>4. faulty \subseteq faulty'
    BY <1>1 DEF Call, Start, CreateRows, AddJobs, history
  <2> QED
    BY <1>0, <2>2, <2>3, <2>4 DEF WorkerInv
<1>2. ASSUME NEW d \in Deliveries, Take(d) PROVE WorkerInv'
  BY <1>0, <1>2 DEF TypeOK, WorkerInv, Take, rows, calls, history
<1>3. CASE ReadTemplate \/ ReadParticipant \/ SendMail \/ DatabaseFails
  BY <1>0, <1>3, WorkingOn
  DEF TypeOK, WorkerInv, ReadTemplate, ReadParticipant, SendMail, DatabaseFails, Goto,
      rows, calls, queue, history
<1>4. CASE MarkSent \/ MarkFailed
  BY <1>0, <1>4, WorkingOn
  DEF TypeOK, WorkerInv, InOrder, MarkSent, MarkFailed, Mark, Goto, rows, calls, queue, history
<1>5. CASE Complete \/ Throw
  BY <1>0, <1>5, WorkingOn DEF TypeOK, WorkerInv, Complete, Throw, Idle, rows, calls, history
<1>6. ASSUME NEW d \in Deliveries, RecoverStalled(d) PROVE WorkerInv'
  BY <1>0, <1>6, WorkingOn DEF TypeOK, WorkerInv, RecoverStalled, rows, calls, worker, history
<1>7. CASE Crash
  BY <1>0, <1>7 DEF WorkerInv, Crash, Idle, rows, queue
<1>8. ASSUME NEW D, Cascade(D), UNCHANGED <<calls, queue, worker, crashes, history>>
      PROVE  WorkerInv'
  BY <1>0, <1>8, WorkingOn DEF TypeOK, WorkerInv, Cascade, calls, queue, worker, history
<1>9. ASSUME NEW p \in People, RemovePerson(p) PROVE WorkerInv'
  BY <1>8, <1>9 DEF RemovePerson
<1>10. ASSUME NEW t \in Templates, RemoveTemplate(t) PROVE WorkerInv'
  BY <1>8, <1>10 DEF RemoveTemplate
<1>11. CASE UNCHANGED vars
  BY <1>0, <1>11 DEF WorkerInv, vars, rows, calls, queue, worker, history
<1> QED
  BY <1>1, <1>2, <1>3, <1>4, <1>5, <1>6, <1>7, <1>9, <1>10, <1>11 DEF Next, Work

\* Every step of the system keeps what is said of each delivery.
LEMMA DeliveryStep ==
    ASSUME EmailInv, [Next]_vars, NEW d \in Deliveries
    PROVE  DeliveryInv(d)'
<1> USE SendsAssumption
<1>0. TypeOK /\ WorkerInv /\ DeliveryInv(d)
  BY DEF EmailInv
<1>1. d[1] \in Sends
  BY DeliveryParts
<1>2. ASSUME NEW s \in Sends, Call(s) PROVE DeliveryInv(d)'
  <2> DeliveriesOf(s) \subseteq Deliveries /\ \A e \in DeliveriesOf(s) : e[1] = s
    BY <1>0, DeliveriesOfCall
  <2> input' = input /\ DeliveriesOf(s)' = DeliveriesOf(s)
    BY <1>2, SameDeliveries DEF Call, Start, CreateRows, AddJobs, calls, rows
  <2> DeliveriesOf(d[1])' = DeliveriesOf(d[1])
    BY SameDeliveries
  <2>1. CASE Start(s)
    BY <1>0, <1>1, <2>1
    DEF TypeOK, DeliveryInv, InOrder, Accounted, InBounds, Recorded, Start, Over,
        rows, queue, worker, history
  <2>2. CASE CreateRows(s)
    BY <1>0, <1>1, <2>2
    DEF TypeOK, DeliveryInv, InOrder, Accounted, InBounds, Recorded, CreateRows, Over,
        queue, worker, history
  <2>3. CASE AddJobs(s)
    BY <1>0, <1>1, <2>3
    DEF TypeOK, DeliveryInv, InOrder, Accounted, InBounds, Recorded, AddJobs, Over,
        rows, worker
  <2> QED
    BY <1>2, <2>1, <2>2, <2>3 DEF Call
<1>3. ASSUME input' = input PROVE DeliveriesOf(d[1])' = DeliveriesOf(d[1])
  BY <1>3, SameDeliveries
<1>4. ASSUME NEW e \in Deliveries, Take(e) PROVE DeliveryInv(d)'
  BY <1>0, <1>1, <1>3, <1>4
  DEF TypeOK, DeliveryInv, InOrder, Accounted, InBounds, Recorded, Take, WorkerInv,
      rows, calls, history
<1>5. CASE ReadTemplate \/ ReadParticipant \/ DatabaseFails
  BY <1>0, <1>1, <1>3, <1>5, WorkingOn
  DEF TypeOK, DeliveryInv, InOrder, Accounted, InBounds, Recorded, Goto,
      ReadTemplate, ReadParticipant, DatabaseFails, rows, calls, queue, history
<1>6. CASE SendMail
  BY <1>0, <1>1, <1>3, <1>6, WorkingOn
  DEF TypeOK, DeliveryInv, InOrder, Accounted, InBounds, Recorded, Goto, SendMail,
      rows, calls, queue, history
<1>7. CASE MarkSent \/ MarkFailed
  BY <1>0, <1>1, <1>3, <1>7, WorkingOn
  DEF TypeOK, DeliveryInv, InOrder, Accounted, InBounds, Recorded, WorkerInv, Goto, Mark,
      MarkSent, MarkFailed, calls, queue, history
<1>8. CASE Complete
  BY <1>0, <1>1, <1>3, <1>8, WorkingOn
  DEF TypeOK, DeliveryInv, InOrder, Accounted, InBounds, Recorded, WorkerInv, Idle, Complete,
      rows, calls, history
<1>9. CASE Throw
  BY <1>0, <1>1, <1>3, <1>9, WorkingOn
  DEF TypeOK, DeliveryInv, InOrder, Accounted, InBounds, Recorded, WorkerInv, Idle, Throw,
      rows, calls, history
<1>10. ASSUME NEW e \in Deliveries, RecoverStalled(e) PROVE DeliveryInv(d)'
  BY <1>0, <1>1, <1>3, <1>10
  DEF TypeOK, DeliveryInv, InOrder, Accounted, InBounds, Recorded, RecoverStalled,
      rows, calls, worker, history
<1>11. CASE Crash
  BY <1>0, <1>1, <1>3, <1>11
  DEF TypeOK, DeliveryInv, InOrder, Accounted, InBounds, Recorded, WorkerInv, Idle, Crash, Over,
      rows, queue
<1>12. ASSUME NEW D, Cascade(D), UNCHANGED <<calls, queue, worker, crashes, history>>
       PROVE  DeliveryInv(d)'
  BY <1>0, <1>1, <1>3, <1>12
  DEF TypeOK, DeliveryInv, InOrder, Accounted, InBounds, Recorded, Cascade,
      calls, queue, worker, history
<1>13. ASSUME NEW p \in People, RemovePerson(p) PROVE DeliveryInv(d)'
  BY <1>12, <1>13 DEF RemovePerson
<1>14. ASSUME NEW t \in Templates, RemoveTemplate(t) PROVE DeliveryInv(d)'
  BY <1>12, <1>14 DEF RemoveTemplate
<1>15. CASE UNCHANGED vars
  BY <1>0, <1>3, <1>15
  DEF DeliveryInv, InOrder, Accounted, InBounds, Recorded, vars, rows, calls, queue, worker, history
<1> QED
  BY <1>2, <1>4, <1>5, <1>6, <1>7, <1>8, <1>9, <1>10, <1>11, <1>13, <1>14, <1>15
  DEF Next, Work

\* The invariant is inductive.
LEMMA EmailInvHolds == Spec => []EmailInv
<1>1. EmailInv /\ [Next]_vars => EmailInv'
  <2> SUFFICES ASSUME EmailInv, [Next]_vars PROVE EmailInv'
    OBVIOUS
  <2>1. UNCHANGED Deliveries
    BY DEF Deliveries
  <2> QED
    BY <2>1, TypeStep, WorkerStep, DeliveryStep DEF EmailInv
<1> QED
  BY <1>1, InitEmailInv, PTL DEF Spec

-----------------------------------------------------------------------------

\* Every variable keeps its type; no job has more than its attempts, nor is
\* found stalled more often than BullMQ allows (email-delivery.service.ts:92).
THEOREM EmailTypes == Spec => []TypeOK
<1>1. EmailInv => TypeOK
  BY DEF EmailInv
<1> QED
  BY <1>1, EmailInvHolds, PTL

\* A row that says "sent" is never ahead of the mail, whatever failed or was
\* retried in between (deliverEmailToParticipants, sendMail before markStatus).
THEOREM SentIsMailed == Spec => []SentMeansMailed
<1>1. EmailInv => SentMeansMailed
  BY DEF EmailInv, DeliveryInv, Recorded, SentMeansMailed
<1> QED
  BY <1>1, EmailInvHolds, PTL

\* Without a failure of the database, the process or the mailer's answer
\* nobody gets one mail twice, although every job is attempted three times.
THEOREM NoUnexplainedDuplicate == Spec => []DuplicateExplained
<1>1. EmailInv => DuplicateExplained
  <2> SUFFICES ASSUME EmailInv, NEW d \in Deliveries, mails[d] > 1, d \notin faulty PROVE FALSE
    BY DEF DuplicateExplained
  <2>1. mails[d] \in Nat /\ mails[d] \leq 1
    BY DEF EmailInv, DeliveryInv, Accounted, TypeOK
  <2> QED
    BY <2>1
<1> QED
  BY <1>1, EmailInvHolds, PTL

\* A job that BullMQ counts as completed has marked its row, if there is one.
THEOREM CompletedIsMarked == Spec => []CompletedMeansSent
<1>1. EmailInv => CompletedMeansSent
  BY DEF EmailInv, DeliveryInv, Recorded, CompletedMeansSent
<1> QED
  BY <1>1, EmailInvHolds, PTL

\* No row stays pending without a job that will change it, unless the
\* database, Redis or the process failed (rows first, then jobs, then marks).
THEOREM NobodyForgotten == Spec => []NothingForgotten
<1>1. EmailInv => NothingForgotten
  BY DEF EmailInv, DeliveryInv, Recorded, NothingForgotten
<1> QED
  BY <1>1, EmailInvHolds, PTL

-----------------------------------------------------------------------------
(* The refinement.  Creating rows announces them, sending is Mail, marking *)
(* a row that is there is Record, a cascade drops the rows it reaches; all *)
(* other steps stutter.                                                    *)

\* Rows that are created were not announced before.
LEMMA CreateRowsAnnounces ==
    ASSUME EmailInv, NEW s \in Sends, CreateRows(s)
    PROVE  [Ledger!Next]_(Ledger!vars)
<1>0. TypeOK /\ \A d \in Deliveries : InOrder(d)
  BY DEF EmailInv, DeliveryInv
<1>1. DeliveriesOf(s) \subseteq Deliveries /\ \A d \in DeliveriesOf(s) : d[1] = s
  BY <1>0, DeliveriesOfCall
<1>2. CASE UNCHANGED status
  BY <1>2 DEF CreateRows, history, Ledger!vars
<1>3. CASE status' = [d \in Deliveries |-> IF d \in DeliveriesOf(s) THEN "pending" ELSE status[d]]
  <2>1. \A d \in DeliveriesOf(s) : ~Ledger!Announced(d)
    BY <1>0, <1>1 DEF InOrder, CreateRows, Ledger!Announced
  <2>2. Ledger!Announce(DeliveriesOf(s))
    BY <1>3, <2>1 DEF Ledger!Announce, CreateRows, history
  <2> QED
    BY <1>1, <2>2 DEF Ledger!Next
<1> QED
  BY <1>2, <1>3 DEF CreateRows

\* A mail goes out for a delivery that was announced, and is counted once.
LEMMA SendMailMails ==
    ASSUME EmailInv, SendMail
    PROVE  [Ledger!Next]_(Ledger!vars)
<1>1. task \in Deliveries /\ status[task] # "none"
  BY WorkingOn DEF SendMail, EmailInv, DeliveryInv, InOrder
<1>2. CASE UNCHANGED mails
  BY <1>2 DEF SendMail, rows, Ledger!vars
<1>3. CASE mails' = [mails EXCEPT ![task] = @ + 1]
  <2>1. Ledger!Mail(task)
    BY <1>1, <1>3 DEF Ledger!Mail, Ledger!Announced, SendMail, rows
  <2> QED
    BY <1>1, <2>1 DEF Ledger!Next
<1> QED
  BY <1>2, <1>3 DEF SendMail, history

\* Marking records what happened, or does nothing to a row that is gone.
LEMMA MarkRecords ==
    ASSUME EmailInv, MarkSent \/ MarkFailed
    PROVE  [Ledger!Next]_(Ledger!vars)
<1>0. TypeOK /\ WorkerInv
  BY DEF EmailInv
<1>1. task \in Deliveries
  BY <1>0, WorkingOn DEF MarkSent, MarkFailed
<1>2. UNCHANGED mails
  BY DEF MarkSent, MarkFailed, history
<1>3. CASE UNCHANGED status
  BY <1>2, <1>3 DEF Ledger!vars
<1>4. ASSUME NEW st \in {"sent", "failed"}, Mark(task, st), st = "sent" => mails[task] > 0
      PROVE  [Ledger!Next]_(Ledger!vars)
  <2>1. CASE status[task] \in {"none", "gone"}
    <3>1. status' = status
      BY <1>0, <1>1, <1>4, <2>1 DEF Mark, TypeOK
    <3> QED
      BY <1>2, <3>1 DEF Ledger!vars
  <2>2. CASE status[task] \notin {"none", "gone"}
    <3>1. Ledger!Record(task, st)
      BY <1>0, <1>1, <1>2, <1>4, <2>2 DEF Mark, TypeOK, Ledger!Record
    <3> QED
      BY <1>1, <3>1 DEF Ledger!Next
  <2> QED
    BY <2>1, <2>2
<1> QED
  BY <1>0, <1>3, <1>4 DEF MarkSent, MarkFailed, WorkerInv

\* A cascade drops rows that were announced.
LEMMA CascadeDrops ==
    ASSUME NEW D, Cascade(D), UNCHANGED mails
    PROVE  [Ledger!Next]_(Ledger!vars)
<1> DEFINE E == {d \in Deliveries : d \in D /\ status[d] # "none"}
<1>1. Ledger!Drop(E)
  BY DEF Cascade, Ledger!Drop, Ledger!Announced
<1> QED
  BY <1>1 DEF Ledger!Next

\* Rows, queue and worker together implement the ledger of MailLedger.
THEOREM DeliveryImplementsLedger == Spec => LedgerSpec
<1>1. Init => Ledger!Init
  BY DEF Init, Ledger!Init
<1>2. EmailInv /\ [Next]_vars => [Ledger!Next]_(Ledger!vars)
  <2> SUFFICES ASSUME EmailInv, [Next]_vars PROVE [Ledger!Next]_(Ledger!vars)
    OBVIOUS
  <2>1. CASE UNCHANGED <<status, mails>>
    BY <2>1 DEF Ledger!vars
  <2>2. ASSUME NEW s \in Sends, Call(s) PROVE [Ledger!Next]_(Ledger!vars)
    BY <2>1, <2>2, CreateRowsAnnounces DEF Call, Start, AddJobs, rows, history
  <2>3. CASE Work
    BY <2>1, <2>3, SendMailMails, MarkRecords
    DEF Work, Take, ReadTemplate, ReadParticipant, DatabaseFails, Complete, Throw, rows, history
  <2>4. CASE Crash \/ \E d \in Deliveries : RecoverStalled(d)
    BY <2>1, <2>4 DEF Crash, RecoverStalled, rows, history
  <2>5. CASE (\E p \in People : RemovePerson(p)) \/ \E t \in Templates : RemoveTemplate(t)
    BY <2>5, CascadeDrops DEF RemovePerson, RemoveTemplate, history
  <2>6. CASE UNCHANGED vars
    BY <2>1, <2>6 DEF vars, rows, history
  <2> QED
    BY <2>2, <2>3, <2>4, <2>5, <2>6 DEF Next
<1> QED
  BY <1>1, <1>2, EmailInvHolds, PTL DEF Spec, LedgerSpec, Ledger!Spec
=============================================================================
