-------------------------- MODULE EventSetup_proofs --------------------------
(***************************************************************************)
(* What holds of EventSetup for every number of requests, attributes,      *)
(* forms, templates, events and objects: types, what organizers said last  *)
(* about forms, the configs of mails and their order, photos, and the      *)
(* monthly report.  The four parts share the requests and the attributes   *)
(* only, so each has an invariant of its own, which the others' steps keep.*)
(***************************************************************************)
EXTENDS EventSetup, TLAPS

Names == Forms \cup Attrs \cup Templates \cup {"first"}
Locals == [first : BOOLEAN, trigger : Triggers \cup {None}, next : Nat \ {0},
           old : Keys \cup {None}, new : Keys \cup {None},
           listed : SUBSET Attrs, crossed : SUBSET Names]

UpdateSteps == {"formFirst", "formAttributes", "formCommit"}
FormSteps == UpdateSteps \cup {"removeFirst", "removeForm"}
MailSteps == {"mailInsert", "mailWrite", "reorderRow"}
PhotoSteps == {"eventInsert", "upload", "eventWrite", "dropOld", "dropNew"}
ReportSteps == {"reportMail", "reportMark"}
Steps == Ops \cup {"idle"} \cup Ended \cup FormSteps \cup MailSteps \cup PhotoSteps \cup ReportSteps

\* What a request is before its first await: it has its body, no object and has
\* reordered nothing.
OpFlow(r) ==
    /\ pc[r] \in Ops => In(r) \in Inputs[r] /\ In(r).op = pc[r]
    /\ pc[r] \in Ops \cup {"idle"} => local[r].new = None /\ local[r].next = 1
RequestsInv ==
    /\ pc \in [Requests -> Steps]
    /\ input \in [Requests -> Input]
    /\ local \in [Requests -> Locals]
    /\ \A r \in Requests : OpFlow(r)

\* An update or a removal of a form knows whether it registers, unless others
\* wrote that meanwhile.
FormFlow(r) ==
    /\ pc[r] \in UpdateSteps => In(r).form \in Forms
    /\ pc[r] \in FormSteps /\ "first" \notin local[r].crossed =>
         (local[r].first <=> registerForm = In(r).form)
FormRows ==
    /\ attrs \subseteq Attrs /\ forms \subseteq usedForms /\ usedForms \subseteq Forms
    /\ formRow \in [Forms -> FormRow]
    /\ registerForm \in forms \cup {None}
    /\ eventLock \in Requests \cup {None}
    /\ wanted \in [Forms -> SUBSET Attrs]
FormsInv == FormRows /\ FormsUnlessRaced /\ \A r \in Requests : FormFlow(r)

\* What a validated config is about; the rows that a reorder has updated are its own.
Fits(trigger, about) ==
    about \in CASE trigger = "FORM_FILLED" -> Forms
                [] trigger = "ATTRIBUTE_CHANGED" -> Attrs
                [] OTHER -> {None}
MailFlow(r) ==
    LET in == In(r) IN
    /\ pc[r] = "mailInsert" => in.trigger \in Triggers /\ Fits(in.trigger, Value(in.about))
    /\ pc[r] = "mailWrite" =>
         /\ in.template \in usedMails
         /\ local[r].trigger \in Triggers
         /\ (New(in.trigger, local[r].trigger) # local[r].trigger \/ in.about # Absent) =>
              Fits(New(in.trigger, local[r].trigger), Value(in.about))
         /\ in.template \notin local[r].crossed =>
              local[r].trigger = mailRow[in.template].trigger
    /\ pc[r] = "reorderRow" =>
         /\ In(r) \in Inputs[r]
         /\ local[r].next <= Len(in.list) + 1
         /\ \A i \in DOMAIN in.list :
               /\ in.list[i] \in usedMails
               /\ i < local[r].next => mailLock[in.list[i]] = r /\ draft[in.list[i]] = i
MailRows ==
    /\ templates \subseteq usedMails /\ usedMails \subseteq Templates
    /\ mailRow \in [Templates -> MailRow]
    /\ place \in [Templates -> Nat]
    /\ mailLock \in [Templates -> Requests \cup {None}] /\ draft \in [Templates -> Nat]
    /\ \A i \in DOMAIN lastList : lastList[i] \in usedMails
MailsInv == MailRows /\ ConfigFitsTrigger /\ ReorderWhole /\ \A r \in Requests : MailFlow(r)

\* An object that was uploaded and is not in its row yet is this request's alone.
HasNew == {"eventInsert", "eventWrite", "dropNew"}
NewFlow(r) ==
    pc[r] \in HasNew /\ local[r].new # None =>
         /\ local[r].new \in objects
         /\ \A e \in Events : photoKey[e] # local[r].new
         /\ \A q \in Requests : local[q].old # local[r].new
         /\ \A q \in Requests \ {r} : local[q].new # local[r].new
\* The key that was read is in no other row, and in none when it is to go.
OldFlow(r) ==
    /\ pc[r] \in {"upload", "eventWrite"} =>
         /\ In(r).event \in Events
         /\ \A e \in Events \ {In(r).event} : local[r].old # None => photoKey[e] # local[r].old
    /\ pc[r] = "dropOld" => \A e \in Events : photoKey[e] # local[r].old
    /\ pc[r] = "eventInsert" => In(r).event \in Events
    /\ pc[r] = "upload" => local[r].new = None
    /\ pc[r] = "dropOld" => local[r].old # None
    /\ pc[r] = "dropNew" => local[r].new # None
Hand(r, k) == \/ pc[r] = "dropOld" /\ local[r].old = k
              \/ pc[r] \in HasNew /\ local[r].new = k
InHand(k) == \E r \in Requests : Hand(r, k)
Covered == \A k \in objects :
    (\E e \in events : photoKey[e] = k) \/ k \in lostKeys \/ InHand(k)
PhotoRows ==
    /\ events \subseteq Events /\ photoKey \in [Events -> Keys \cup {None}]
    /\ objects \subseteq Keys /\ lostKeys \subseteq Keys
    /\ \A e \in Events : photoKey[e] # None => e \in events /\ photoKey[e] \in objects
    /\ \A e, f \in Events : photoKey[e] # None /\ photoKey[e] = photoKey[f] => e = f
PhotosInv == PhotoRows /\ Covered /\ \A r \in Requests : NewFlow(r) /\ OldFlow(r)

\* What a report that was mailed will mark has been mailed, or has changed since
\* it was read.
ReportFlow(r) ==
    /\ pc[r] \in ReportSteps => \A a \in local[r].listed : bbi[a] # "none"
    /\ pc[r] = "reportMark" => local[r].listed \cap untold \subseteq local[r].crossed
ReportRows ==
    /\ bbi \in [Attrs -> {"none", "new", "sent", "modified"}] /\ reported \in BOOLEAN
    /\ attrs \subseteq Attrs
    /\ untold \subseteq Attrs
    /\ \A a \in attrs : bbi[a] # "none"
ReportsInv == ReportRows /\ ChangesReported /\ \A r \in Requests : ReportFlow(r)

SetupInv == RequestsInv /\ FormsInv /\ MailsInv /\ PhotosInv /\ ReportsInv

-----------------------------------------------------------------------------
(* The control.                                                            *)

\* What a step leaves of the other requests.
Same(q) ==
    /\ pc'[q] = pc[q] /\ input'[q] = input[q]
    /\ local'[q].first = local[q].first /\ local'[q].trigger = local[q].trigger
    /\ local'[q].next = local[q].next /\ local'[q].listed = local[q].listed
    /\ local'[q].old = local[q].old /\ local'[q].new = local[q].new
    /\ local[q].crossed \subseteq local'[q].crossed
Moves(r) ==
    /\ pc' \in [Requests -> Steps]
    /\ input' \in [Requests -> Input]
    /\ local' \in [Requests -> Locals]
    /\ \A q \in Requests \ {r} : Same(q)
\* The others under way learn what r wrote.
Crosses(r, S) ==
    \A q \in Requests \ {r} : pc[q] \notin Ended \cup {"idle"} => S \subseteq local'[q].crossed

\* A step of r: its own next await, and what the others keep.
LEMMA StepIs ==
    ASSUME RequestsInv, NEW r \in Requests, NEW next \in Steps, NEW l \in Locals,
           NEW written \in SUBSET Names, Step(r, next, l, written)
    PROVE  /\ Moves(r) /\ pc'[r] = next /\ Crosses(r, written)
           /\ next \notin Ended => input'[r] = input[r] /\ local'[r] = l
           /\ next \in Ended => local'[r] = Fresh
<1>1. Nothing \in Input /\ Fresh \in Locals
  BY DEF Nothing, Input, Ops, Fresh, Locals
<1>2. input \in [Requests -> Input] /\ pc \in [Requests -> Steps] /\ local \in [Requests -> Locals]
  BY DEF RequestsInv
<1>3. \A q \in Requests \ {r} : [local[q] EXCEPT !.crossed = @ \cup written] \in Locals
  BY <1>2 DEF Locals
<1>4. local' \in [Requests -> Locals]
  BY <1>1, <1>2, <1>3 DEF Step
<1>5. ASSUME NEW q \in Requests \ {r}
      PROVE  /\ Same(q)
             /\ pc[q] \notin Ended \cup {"idle"} => written \subseteq local'[q].crossed
  <2>1. pc'[q] = pc[q] /\ input'[q] = input[q] /\ local[q] \in Locals
    BY <1>2 DEF Step
  <2>2. local'[q] = IF pc[q] \in Ended \cup {"idle"} THEN local[q]
                    ELSE [local[q] EXCEPT !.crossed = @ \cup written]
    BY DEF Step
  <2>3. CASE pc[q] \notin Ended \cup {"idle"}
    <3>1. local'[q] = [local[q] EXCEPT !.crossed = @ \cup written]
      BY <2>2, <2>3
    <3> QED
      BY <2>1, <3>1 DEF Same, Locals
  <2>4. CASE pc[q] \in Ended \cup {"idle"}
    BY <2>1, <2>2, <2>4 DEF Same
  <2> QED
    BY <2>3, <2>4
<1>6. pc' \in [Requests -> Steps] /\ pc'[r] = next /\ input' \in [Requests -> Input]
  BY <1>1, <1>2 DEF Step
<1>7. /\ next \notin Ended => input'[r] = input[r] /\ local'[r] = l
      /\ next \in Ended => local'[r] = Fresh
  BY <1>2 DEF Step
<1> QED
  BY <1>4, <1>5, <1>6, <1>7 DEF Moves, Crosses

\* The same for a request that only goes on, or ends.
LEMMA GotoIs ==
    ASSUME RequestsInv, NEW r \in Requests, NEW next \in Steps, Goto(r, next)
    PROVE  /\ Moves(r) /\ pc'[r] = next
           /\ next \notin Ended => input'[r] = input[r] /\ local'[r] = local[r]
           /\ next \in Ended => local'[r] = Fresh
<1>1. local[r] \in Locals
  BY DEF RequestsInv
<1> QED
  BY <1>1, StepIs DEF Goto

\* A request begins with an input it may have.
LEMMA BeginIs ==
    ASSUME RequestsInv, NEW r \in Requests, NEW in \in Inputs[r], Begin(r, in)
    PROVE  /\ RequestsInv' /\ Moves(r) /\ pc[r] = "idle" /\ pc'[r] \in Ops /\ local' = local
           /\ UNCHANGED <<formState, mailState, photoState, formHistory, mailHistory, lostKeys,
                          reportState>>
<1>1. in \in Input
  BY InputsAssumption
<1>2. in.op \in Ops /\ in.op \in Steps
  BY <1>1 DEF Input, Steps
<1>3. input \in [Requests -> Input] /\ pc \in [Requests -> Steps] /\ local \in [Requests -> Locals]
  BY DEF RequestsInv
<1>4. Moves(r)
  BY <1>1, <1>2, <1>3 DEF Begin, Moves, Same
<1>5. \A q \in Requests : OpFlow(q)'
  BY <1>2, <1>3 DEF Begin, OpFlow, RequestsInv, In
<1> QED
  BY <1>2, <1>3, <1>4, <1>5 DEF Begin, RequestsInv, Moves

\* What a step of the part with the steps S does to the requests.
Within(r, S) ==
    /\ Moves(r) /\ pc[r] \in Ops \cup S /\ pc'[r] \in S \cup Ended

\* Every later step keeps what requests are.
LEMMA RequestsKept ==
    ASSUME RequestsInv, NEW r \in Requests, Moves(r), pc'[r] \notin Ops \cup {"idle"}
    PROVE  RequestsInv'
<1>1. OpFlow(r)'
  BY DEF OpFlow
<1>2. \A q \in Requests \ {r} : OpFlow(q)'
  BY DEF OpFlow, RequestsInv, Moves, Same, In
<1> QED
  BY <1>1, <1>2 DEF RequestsInv, Moves

-----------------------------------------------------------------------------
(* What the other parts' steps leave alone.                                *)

LEMMA FormsKept ==
    ASSUME FormsInv, NEW r \in Requests, Moves(r), pc'[r] \notin FormSteps,
           UNCHANGED <<forms, formRow, usedForms, registerForm, eventLock, formHistory>>,
           attrs' \subseteq Attrs
    PROVE  FormsInv'
<1>1. FormFlow(r)'
  BY DEF FormFlow, FormSteps, UpdateSteps
<1>2. \A q \in Requests \ {r} : FormFlow(q)'
  BY DEF FormFlow, FormsInv, Moves, Same, In
<1>3. FormRows'
  BY DEF FormRows, FormsInv, formHistory
<1>4. FormsUnlessRaced'
  BY DEF FormsInv, FormsUnlessRaced, DefinitionsUnlessRaced, RegisterUnlessRaced, formHistory, Once
<1> QED
  BY <1>1, <1>2, <1>3, <1>4 DEF FormsInv

LEMMA MailsKept ==
    ASSUME MailsInv, NEW r \in Requests, Moves(r), pc'[r] \notin MailSteps,
           UNCHANGED <<mailState, mailHistory>>
    PROVE  MailsInv'
<1>1. MailFlow(r)'
  BY DEF MailFlow, MailSteps
<1>2. ASSUME NEW q \in Requests \ {r} PROVE MailFlow(q)'
  <2>1. MailFlow(q) /\ Same(q)
    BY DEF MailsInv, Moves
  <2> QED
    BY <2>1 DEF MailFlow, Same, In, mailState, New, Value, Fits
<1>3. MailRows' /\ ConfigFitsTrigger' /\ ReorderWhole'
  BY DEF MailRows, MailsInv, ConfigFitsTrigger, ReorderWhole, mailState, mailHistory
<1> QED
  BY <1>1, <1>2, <1>3 DEF MailsInv

\* A step may forget keys that it read or made, when it is not about photos.
KeysKept(r) == /\ local'[r].old \in {None, local[r].old}
               /\ local'[r].new \in {None, local[r].new}

LEMMA PhotosKept ==
    ASSUME PhotosInv, NEW r \in Requests, Moves(r), KeysKept(r),
           pc[r] \notin PhotoSteps, pc'[r] \notin PhotoSteps, UNCHANGED <<photoState, lostKeys>>
    PROVE  PhotosInv'
<1>1. NewFlow(r)' /\ OldFlow(r)'
  BY DEF NewFlow, OldFlow, PhotoSteps, HasNew
<1>2. ASSUME NEW q \in Requests \ {r} PROVE NewFlow(q)' /\ OldFlow(q)'
  <2>1. NewFlow(q) /\ OldFlow(q) /\ Same(q) /\ (\A p \in Requests \ {r} : Same(p))
    BY DEF PhotosInv, Moves
  <2>2. NewFlow(q)'
    BY <2>1 DEF NewFlow, Same, KeysKept, photoState
  <2>3. OldFlow(q)'
    BY <2>1 DEF OldFlow, Same, In, photoState
  <2> QED
    BY <2>2, <2>3
<1>3. PhotoRows'
  BY DEF PhotosInv, PhotoRows, photoState
<1>4. ASSUME NEW k, InHand(k) PROVE InHand(k)'
  BY <1>4 DEF InHand, Hand, HasNew, PhotoSteps, Moves, Same
<1>5. Covered'
  BY <1>4 DEF PhotosInv, Covered, photoState
<1> QED
  BY <1>1, <1>2, <1>3, <1>5 DEF PhotosInv

LEMMA ReportsKept ==
    ASSUME ReportsInv, NEW r \in Requests, Moves(r), pc'[r] \notin ReportSteps,
           attrs' \subseteq attrs, UNCHANGED reportState
    PROVE  ReportsInv'
<1>1. ReportFlow(r)'
  BY DEF ReportFlow, ReportSteps
<1>2. ASSUME NEW q \in Requests \ {r} PROVE ReportFlow(q)'
  <2>1. ReportFlow(q) /\ Same(q)
    BY DEF ReportsInv, Moves
  <2> QED
    BY <2>1 DEF ReportFlow, Same, reportState
<1>3. ReportRows' /\ ChangesReported'
  BY DEF ReportsInv, ReportRows, ChangesReported, reportState
<1> QED
  BY <1>1, <1>2, <1>3 DEF ReportsInv

-----------------------------------------------------------------------------
(* Forms.                                                                  *)

FormOps == {"formCreate", "formDuplicate", "formUpdate", "formRemove", "attrRemove"}
FormStep(r) ==
    /\ Moves(r) /\ KeysKept(r) /\ pc[r] \in FormOps \cup FormSteps
    /\ pc'[r] \in FormSteps \cup Ended
    /\ OnlyForms /\ attrs' \subseteq attrs
    /\ FormsInv'

\* A step of r that goes on, or ends, keeps keys.
LEMMA GotoKeeps ==
    ASSUME RequestsInv, NEW r \in Requests,
           local'[r] = Fresh \/ (local'[r].old = local[r].old /\ local'[r].new = local[r].new)
    PROVE  KeysKept(r)
BY DEF KeysKept, Fresh

\* The other updates of forms know what they knew, or that it has changed.
LEMMA FormFlowKept ==
    ASSUME FormsInv, NEW r \in Requests, Moves(r),
           registerForm' = registerForm \/ Crosses(r, {"first"})
    PROVE  \A q \in Requests \ {r} : FormFlow(q)'
<1> SUFFICES ASSUME NEW q \in Requests \ {r}, pc'[q] \in FormSteps PROVE FormFlow(q)'
  BY DEF FormFlow, FormSteps, UpdateSteps
<1>1. FormFlow(q) /\ Same(q)
  BY DEF FormsInv, Moves
<1>2. pc[q] \in FormSteps /\ In(q)' = In(q) /\ local'[q].first = local[q].first
      /\ local[q].crossed \subseteq local'[q].crossed
  BY <1>1 DEF Same, In
<1>3. registerForm' = registerForm \/ "first" \in local'[q].crossed
  BY <1>2 DEF Crosses, FormSteps, UpdateSteps, Ended
<1>4. pc'[q] \in UpdateSteps => In(q)'.form \in Forms
  BY <1>1, <1>2 DEF FormFlow, Same
<1>5. ASSUME "first" \notin local'[q].crossed
      PROVE  local'[q].first <=> registerForm' = In(q)'.form
  <2>1. registerForm' = registerForm /\ "first" \notin local[q].crossed
    BY <1>2, <1>3, <1>5
  <2>2. local[q].first <=> registerForm = In(q).form
    BY <1>1, <1>2, <2>1 DEF FormFlow
  <2> QED
    BY <1>2, <2>1, <2>2
<1> QED
  BY <1>4, <1>5 DEF FormFlow

\* A new form has each attribute of its row, and what was stored stays.
LEMMA NewFormIs ==
    ASSUME FormsInv, NEW row \in FormRow, NEW first \in BOOLEAN, NewForm(row, first),
           UNCHANGED <<attrs, eventLock>>
    PROVE  FormRows' /\ FormsUnlessRaced' /\ (registerForm' = registerForm \/ first = TRUE)
<1> DEFINE f == CHOOSE g \in Forms \ usedForms : TRUE
<1>1. f \in Forms \ usedForms
  BY DEF NewForm
<1>2. /\ forms' = forms \cup {f} /\ usedForms' = usedForms \cup {f}
      /\ formRow' = [formRow EXCEPT ![f] = row]
      /\ wanted' = [wanted EXCEPT ![f] = {a \in Attrs : row.attributes[a] > 0}]
      /\ mixed' = IF \E a \in Attrs : row.attributes[a] > 1 THEN mixed \cup {f} ELSE mixed
      /\ registerForm' = IF first THEN f ELSE registerForm
      /\ wantedFirst' = IF first THEN f ELSE wantedFirst
      /\ racedFirst' = (~first /\ racedFirst)
  BY DEF NewForm
<1> HIDE DEF f
<1>3. FormRows'
  BY <1>1, <1>2 DEF FormsInv, FormRows
<1>4. RegisterUnlessRaced'
  BY <1>2 DEF FormsInv, FormsUnlessRaced, RegisterUnlessRaced
<1>5. ASSUME NEW g \in forms' \ mixed' PROVE formRow'[g].attributes = Once(wanted[g])'
  <2>1. formRow \in [Forms -> FormRow] /\ wanted \in [Forms -> SUBSET Attrs]
    BY DEF FormsInv, FormRows
  <2>2. CASE g = f
    <3>1. formRow'[g] = row /\ wanted'[g] = {a \in Attrs : row.attributes[a] > 0}
      BY <1>1, <1>2, <2>1, <2>2
    <3>2. \A a \in Attrs : ~(row.attributes[a] > 1)
      BY <1>2, <1>5, <2>2
    <3>3. row.attributes \in [Attrs -> 0..MaxRows] /\ MaxRows \in Nat
      BY SetupAssumption DEF FormRow
    <3>4. \A a \in Attrs : row.attributes[a] = IF a \in wanted'[g] THEN 1 ELSE 0
      BY <3>1, <3>2, <3>3
    <3> QED
      BY <3>1, <3>3, <3>4 DEF Once
  <2>3. CASE g # f
    <3>1. g \in forms \ mixed /\ formRow'[g] = formRow[g] /\ wanted'[g] = wanted[g]
      BY <1>1, <1>2, <1>5, <2>1, <2>3 DEF FormsInv, FormRows
    <3>2. formRow[g].attributes = Once(wanted[g])
      BY <3>1 DEF FormsInv, FormsUnlessRaced, DefinitionsUnlessRaced
    <3> QED
      BY <3>1, <3>2 DEF Once
  <2> QED
    BY <2>2, <2>3
<1> QED
  BY <1>2, <1>3, <1>4, <1>5 DEF FormsUnlessRaced, DefinitionsUnlessRaced

\* What is stored about forms when a step writes nothing about them.
LEMMA FormsSame ==
    ASSUME FormsInv,
           UNCHANGED <<attrs, forms, formRow, usedForms, registerForm, formHistory>>,
           eventLock' \in Requests \cup {None}
    PROVE  FormRows' /\ FormsUnlessRaced'
BY DEF FormsInv, FormRows, FormsUnlessRaced, DefinitionsUnlessRaced, RegisterUnlessRaced,
       formHistory, Once

\* create
LEMMA FormCreateIs ==
    ASSUME RequestsInv, FormsInv, NEW r \in Requests, FormCreate(r)
    PROVE  FormStep(r)
<1> DEFINE in == In(r)
           row == [condition |-> in.condition, openDate |-> Value(in.openDate),
                   closeDate |-> Value(in.closeDate), attributes |-> Once(in.attributes)]
<1>1. pc[r] = "formCreate" /\ in \in Input /\ in.condition \in Conditions /\ local[r] \in Locals
  BY InputsAssumption DEF FormCreate, RequestsInv, OpFlow, Ops, In
<1>2. CASE DatesFit(in) /\ in.attributes \subseteq attrs
  <2>1. /\ NewForm(row, in.first = TRUE)
        /\ Step(r, "done", local[r], IF in.first = TRUE THEN {"first"} ELSE {})
        /\ UNCHANGED <<attrs, eventLock>> /\ OnlyForms
    BY <1>2 DEF FormCreate
  <2>2. row \in FormRow
    <3>1. Once(in.attributes) \in [Attrs -> 0..MaxRows]
      BY SetupAssumption DEF Once
    <3>2. Value(in.openDate) \in Dates \cup {None} /\ Value(in.closeDate) \in Dates \cup {None}
      BY <1>1 DEF Value, Input
    <3> QED
      BY <1>1, <3>1, <3>2 DEF FormRow
  <2> HIDE DEF row
  <2>3. FormRows' /\ FormsUnlessRaced' /\ (registerForm' = registerForm \/ in.first = TRUE)
    BY <2>1, <2>2, NewFormIs
  <2>4. (IF in.first = TRUE THEN {"first"} ELSE {}) \in SUBSET Names /\ "done" \in Steps
    BY DEF Names, Steps, Ended
  <2>5. /\ Moves(r) /\ pc'[r] = "done" /\ local'[r] = Fresh
        /\ Crosses(r, IF in.first = TRUE THEN {"first"} ELSE {})
    BY <1>1, <2>1, <2>4, StepIs DEF Ended
  <2>6. \A q \in Requests \ {r} : FormFlow(q)'
    BY <2>3, <2>5, FormFlowKept
  <2>7. FormFlow(r)'
    BY <2>5 DEF FormFlow, FormSteps, UpdateSteps
  <2>8. KeysKept(r)
    BY <2>5, GotoKeeps
  <2> QED
    BY <1>1, <2>1, <2>3, <2>5, <2>6, <2>7, <2>8 DEF FormStep, FormsInv, FormOps, Ended
<1>3. CASE ~(DatesFit(in) /\ in.attributes \subseteq attrs)
  <2>1. /\ Goto(r, "refused") /\ OnlyForms
        /\ UNCHANGED <<attrs, eventLock, forms, usedForms, formRow, registerForm, formHistory>>
    BY <1>3 DEF FormCreate
  <2>2. Moves(r) /\ pc'[r] = "refused" /\ local'[r] = Fresh
    BY <2>1, GotoIs DEF Steps, Ended
  <2>3. FormsInv'
    BY <2>1, <2>2, FormsKept DEF FormSteps, UpdateSteps, formHistory, FormsInv, FormRows
  <2> QED
    BY <1>1, <2>1, <2>2, <2>3, GotoKeeps DEF FormStep, FormOps, Ended
<1> QED
  BY <1>2, <1>3

\* duplicate
LEMMA FormDuplicateIs ==
    ASSUME RequestsInv, FormsInv, NEW r \in Requests, FormDuplicate(r)
    PROVE  FormStep(r)
<1>1. pc[r] = "formDuplicate"
  BY DEF FormDuplicate
<1>2. CASE In(r).form \in forms
  <2>1. /\ NewForm(formRow[In(r).form], FALSE) /\ Goto(r, "done")
        /\ UNCHANGED <<attrs, eventLock>> /\ OnlyForms
    BY <1>2 DEF FormDuplicate
  <2>2. formRow[In(r).form] \in FormRow
    BY <1>2 DEF FormsInv, FormRows
  <2>3. FormRows' /\ FormsUnlessRaced' /\ registerForm' = registerForm
    BY <2>1, <2>2, NewFormIs
  <2>4. Moves(r) /\ pc'[r] = "done" /\ local'[r] = Fresh
    BY <2>1, GotoIs DEF Steps, Ended
  <2>5. (\A q \in Requests \ {r} : FormFlow(q)') /\ FormFlow(r)'
    BY <2>3, <2>4, FormFlowKept DEF FormFlow, FormSteps, UpdateSteps
  <2> QED
    BY <1>1, <2>1, <2>3, <2>4, <2>5, GotoKeeps DEF FormStep, FormsInv, FormOps, Ended
<1>3. CASE In(r).form \notin forms
  <2>1. /\ Goto(r, "refused") /\ OnlyForms
        /\ UNCHANGED <<attrs, eventLock, forms, usedForms, formRow, registerForm, formHistory>>
    BY <1>3 DEF FormDuplicate
  <2>2. Moves(r) /\ pc'[r] = "refused" /\ local'[r] = Fresh
    BY <2>1, GotoIs DEF Steps, Ended
  <2>3. FormsInv'
    BY <2>1, <2>2, FormsKept DEF FormSteps, UpdateSteps, formHistory, FormsInv, FormRows
  <2> QED
    BY <1>1, <2>1, <2>2, <2>3, GotoKeeps DEF FormStep, FormOps, Ended
<1> QED
  BY <1>2, <1>3

\* update reads whether the form registers.
LEMMA FormUpdateIs ==
    ASSUME RequestsInv, FormsInv, NEW r \in Requests, FormUpdate(r)
    PROVE  FormStep(r)
<1>1. pc[r] = "formUpdate" /\ UNCHANGED <<formState, formHistory>> /\ OnlyForms /\ local[r] \in Locals
  BY DEF FormUpdate, RequestsInv
<1>2. FormRows' /\ FormsUnlessRaced' /\ registerForm' = registerForm /\ attrs' \subseteq attrs
  BY <1>1, FormsSame DEF formState, FormsInv, FormRows
<1>3. CASE DatesFit(In(r)) /\ In(r).form \in forms
  <2> DEFINE first == registerForm = In(r).form
             l == [local[r] EXCEPT !.first = first, !.crossed = {}]
  <2>1. Step(r, "formFirst", l, {})
    BY <1>3 DEF FormUpdate
  <2>2. l \in Locals /\ "formFirst" \in Steps /\ {} \in SUBSET Names
    BY <1>1 DEF Locals, Steps, FormSteps, UpdateSteps
  <2>3. (l.first <=> registerForm = In(r).form) /\ l.old = local[r].old /\ l.new = local[r].new
    BY <1>1 DEF Locals
  <2> HIDE DEF l, first
  <2>4. Moves(r) /\ pc'[r] = "formFirst" /\ input'[r] = input[r] /\ local'[r] = l
    BY <2>1, <2>2, StepIs DEF Ended
  <2>5. FormFlow(r)'
    BY <1>2, <1>3, <2>3, <2>4 DEF FormFlow, In, FormsInv, FormRows, UpdateSteps
  <2>6. \A q \in Requests \ {r} : FormFlow(q)'
    BY <1>2, <2>4, FormFlowKept
  <2> QED
    BY <1>1, <1>2, <2>3, <2>4, <2>5, <2>6, GotoKeeps
       DEF FormStep, FormsInv, FormOps, FormSteps, UpdateSteps
<1>4. CASE ~(DatesFit(In(r)) /\ In(r).form \in forms)
  <2>1. Goto(r, "refused")
    BY <1>4 DEF FormUpdate
  <2>2. Moves(r) /\ pc'[r] = "refused" /\ local'[r] = Fresh
    BY <2>1, GotoIs DEF Steps, Ended
  <2>3. (\A q \in Requests \ {r} : FormFlow(q)') /\ FormFlow(r)'
    BY <1>2, <2>2, FormFlowKept DEF FormFlow, FormSteps, UpdateSteps
  <2> QED
    BY <1>1, <1>2, <2>2, <2>3, GotoKeeps DEF FormStep, FormsInv, FormOps, Ended
<1> QED
  BY <1>3, <1>4

\* The event's row is locked when the update sets or clears its form.
LEMMA FormFirstIs ==
    ASSUME RequestsInv, FormsInv, NEW r \in Requests, FormFirst(r)
    PROVE  FormStep(r)
<1> DEFINE next == IF In(r).attributes = {} THEN "formCommit" ELSE "formAttributes"
<1>1. /\ pc[r] = "formFirst" /\ OnlyForms /\ Goto(r, next) /\ local[r] \in Locals
      /\ UNCHANGED <<attrs, forms, formRow, usedForms, registerForm, formHistory>>
  BY DEF FormFirst, RequestsInv
<1>2. eventLock' \in Requests \cup {None}
  BY DEF FormFirst, FormsInv, FormRows
<1>3. next \in FormSteps /\ next \in UpdateSteps /\ next \in Steps /\ next \notin Ended
  BY DEF FormSteps, UpdateSteps, Steps, Ended
<1> HIDE DEF next
<1>4. FormRows' /\ FormsUnlessRaced' /\ registerForm' = registerForm /\ attrs' \subseteq attrs
  BY <1>1, <1>2, FormsSame
<1>5. Moves(r) /\ pc'[r] = next /\ input'[r] = input[r] /\ local'[r] = local[r]
  BY <1>1, <1>3, GotoIs
<1>6. FormFlow(r)'
  BY <1>1, <1>4, <1>5 DEF FormFlow, In, FormsInv, FormSteps, UpdateSteps
<1>7. \A q \in Requests \ {r} : FormFlow(q)'
  BY <1>4, <1>5, FormFlowKept
<1> QED
  BY <1>1, <1>3, <1>4, <1>5, <1>6, <1>7, GotoKeeps DEF FormStep, FormsInv, FormSteps, UpdateSteps

\* The attributes are looked up and the old definitions go.
LEMMA FormClearIs ==
    ASSUME RequestsInv, FormsInv, NEW r \in Requests, FormClear(r)
    PROVE  FormStep(r)
<1>1. /\ pc[r] = "formAttributes" /\ OnlyForms /\ local[r] \in Locals
      /\ UNCHANGED <<attrs, forms, formRow, usedForms, registerForm, formHistory>>
  BY DEF FormClear, RequestsInv
<1>2. eventLock' \in Requests \cup {None}
  BY DEF FormClear, Unlock, FormsInv, FormRows
<1>3. FormRows' /\ FormsUnlessRaced' /\ registerForm' = registerForm /\ attrs' \subseteq attrs
  BY <1>1, <1>2, FormsSame
<1>4. CASE In(r).attributes \subseteq attrs
  <2> DEFINE l == [local[r] EXCEPT !.crossed = @ \ {In(r).form}]
  <2>1. Step(r, "formCommit", l, {})
    BY <1>4 DEF FormClear
  <2>2. l \in Locals /\ "formCommit" \in Steps /\ {} \in SUBSET Names
    BY <1>1 DEF Locals, Steps, FormSteps, UpdateSteps
  <2>3. /\ l.first = local[r].first /\ l.old = local[r].old /\ l.new = local[r].new
        /\ l.crossed = local[r].crossed \ {In(r).form}
    BY <1>1 DEF Locals
  <2> HIDE DEF l
  <2>4. Moves(r) /\ pc'[r] = "formCommit" /\ input'[r] = input[r] /\ local'[r] = l
    BY <2>1, <2>2, StepIs DEF Ended
  <2>5. In(r).form \in Forms /\ In(r).form # "first"
    BY <1>1, SetupAssumption DEF FormsInv, FormFlow, UpdateSteps
  <2>6. FormFlow(r)'
    BY <1>1, <1>3, <2>3, <2>4, <2>5 DEF FormFlow, In, FormsInv, FormSteps, UpdateSteps
  <2>7. \A q \in Requests \ {r} : FormFlow(q)'
    BY <1>3, <2>4, FormFlowKept
  <2> QED
    BY <1>1, <1>3, <2>3, <2>4, <2>6, <2>7, GotoKeeps
       DEF FormStep, FormsInv, FormSteps, UpdateSteps
<1>5. CASE ~(In(r).attributes \subseteq attrs)
  <2>1. Goto(r, "refused")
    BY <1>5 DEF FormClear
  <2>2. Moves(r) /\ pc'[r] = "refused" /\ local'[r] = Fresh
    BY <2>1, GotoIs DEF Steps, Ended
  <2>3. (\A q \in Requests \ {r} : FormFlow(q)') /\ FormFlow(r)'
    BY <1>3, <2>2, FormFlowKept DEF FormFlow, FormSteps, UpdateSteps
  <2> QED
    BY <1>1, <1>3, <2>2, <2>3, GotoKeeps DEF FormStep, FormsInv, FormSteps, UpdateSteps, Ended
<1> QED
  BY <1>4, <1>5

-----------------------------------------------------------------------------
(* The commit of an update, and removals.                                  *)

\* The commit stores what was asked, unless another update wrote meanwhile.
LEMMA FormCommitIs ==
    ASSUME RequestsInv, FormsInv, NEW r \in Requests, FormCommit(r)
    PROVE  FormStep(r)
<1> DEFINE in == In(r)
           f == in.form
           kept == Kept(r)
<1>1. /\ pc[r] = "formCommit" /\ OnlyForms /\ local[r] \in Locals /\ in \in Input
      /\ UNCHANGED <<attrs, forms, usedForms>>
      /\ eventLock' = IF eventLock = r THEN None ELSE eventLock
  BY DEF FormCommit, Save, RequestsInv, In, Unlock
<1>2. eventLock' \in Requests \cup {None} /\ attrs' \subseteq attrs
  BY <1>1 DEF FormsInv, FormRows
<1>3. f \in Forms /\ FormFlow(r)
  BY <1>1 DEF FormsInv, FormFlow, UpdateSteps
<1>4. CASE f \in forms /\ in.attributes \subseteq attrs
  <2> DEFINE written == (IF in.attributes = {} THEN {} ELSE {f})
                        \cup (IF SetsFirst(r) THEN {"first"} ELSE {})
             old == formRow[f]
             new == [condition |-> New(in.condition, old.condition),
                     openDate |-> New(in.openDate, old.openDate),
                     closeDate |-> New(in.closeDate, old.closeDate),
                     attributes |-> [a \in Attrs |-> kept[a] + Once(in.attributes)[a]]]
  <2>1. /\ \A a \in in.attributes : kept[a] < MaxRows
        /\ formRow' = [formRow EXCEPT ![f] =
                 [condition |-> New(in.condition, @.condition),
                  openDate |-> New(in.openDate, @.openDate),
                  closeDate |-> New(in.closeDate, @.closeDate),
                  attributes |-> [a \in Attrs |-> kept[a] + Once(in.attributes)[a]]]]
        /\ registerForm' = FirstAfter(r)
        /\ wantedFirst' = IF in.first = TRUE THEN f
                          ELSE IF in.first = FALSE /\ wantedFirst = f THEN None ELSE wantedFirst
        /\ racedFirst' = (in.first # TRUE /\ (racedFirst \/
                               (in.first = FALSE /\ "first" \in local[r].crossed)))
        /\ in.attributes = {} => UNCHANGED <<wanted, mixed>>
        /\ in.attributes # {} =>
             /\ wanted' = [wanted EXCEPT ![f] = in.attributes]
             /\ mixed' = IF f \in local[r].crossed THEN mixed \cup {f} ELSE mixed \ {f}
        /\ Step(r, "done", local[r], written)
    BY <1>4 DEF FormCommit, Save
  <2>2. formRow \in [Forms -> FormRow] /\ wanted \in [Forms -> SUBSET Attrs] /\ old \in FormRow
    BY <1>3 DEF FormsInv, FormRows
  <2>3. formRow' = [formRow EXCEPT ![f] = new]
    BY <1>3, <2>1, <2>2
  <2>4. kept \in [Attrs -> 0..MaxRows] /\ MaxRows \in Nat \ {0}
    <3>1. old.attributes \in [Attrs -> 0..MaxRows]
      BY <2>2 DEF FormRow
    <3>2. Once({}) \in [Attrs -> 0..MaxRows] /\ MaxRows \in Nat \ {0}
      BY SetupAssumption DEF Once
    <3> QED
      BY <3>1, <3>2 DEF Kept
  <2>5. new \in FormRow
    <3>1. ASSUME NEW a \in Attrs PROVE kept[a] + Once(in.attributes)[a] \in 0..MaxRows
      <4>1. kept[a] \in 0..MaxRows /\ MaxRows \in Nat
        BY <2>4
      <4>2. CASE a \in in.attributes
        <5>1. Once(in.attributes)[a] = 1 /\ kept[a] < MaxRows
          BY <2>1, <4>2 DEF Once
        <5> HIDE DEF kept
        <5> QED
          BY <4>1, <5>1
      <4>3. CASE a \notin in.attributes
        <5>1. Once(in.attributes)[a] = 0
          BY <4>3 DEF Once
        <5> HIDE DEF kept
        <5> QED
          BY <4>1, <5>1
      <4> QED
        BY <4>2, <4>3
    <3>2. /\ New(in.condition, old.condition) \in Conditions
          /\ New(in.openDate, old.openDate) \in Dates \cup {None}
          /\ New(in.closeDate, old.closeDate) \in Dates \cup {None}
      BY <1>1, <2>2 DEF New, Input, FormRow
    <3>3. [a \in Attrs |-> kept[a] + Once(in.attributes)[a]] \in [Attrs -> 0..MaxRows]
      BY <3>1
    <3> QED
      BY <3>2, <3>3 DEF FormRow
  <2>6. registerForm' \in forms \cup {None}
    BY <1>4, <2>1 DEF FirstAfter, FormsInv, FormRows
  <2>7. FormRows'
    <3>1. formRow' \in [Forms -> FormRow]
      BY <2>2, <2>3, <2>5
    <3>2. wanted' \in [Forms -> SUBSET Attrs]
      BY <1>1, <2>1, <2>2 DEF Input
    <3> QED
      BY <1>1, <1>2, <2>6, <3>1, <3>2 DEF FormRows, FormsInv
  <2>8. ASSUME NEW g \in forms' \ mixed' PROVE formRow'[g].attributes = Once(wanted[g])'
    <3>1. \A S : Once(S)' = Once(S)
      BY DEF Once
    <3>2. CASE g # f
      <4>1. g \in forms \ mixed /\ formRow'[g] = formRow[g] /\ wanted'[g] = wanted[g]
        BY <1>1, <1>3, <2>1, <2>2, <2>3, <2>8, <3>2 DEF FormsInv, FormRows
      <4>2. formRow[g].attributes = Once(wanted[g])
        BY <4>1 DEF FormsInv, FormsUnlessRaced, DefinitionsUnlessRaced
      <4> QED
        BY <4>1, <4>2 DEF Once
    <3>3. CASE g = f /\ in.attributes = {}
      <4>1. g \in forms \ mixed /\ wanted'[g] = wanted[g]
        BY <1>1, <2>1, <2>8, <3>3
      <4>2. old.attributes = Once(wanted[g]) /\ kept = old.attributes
        BY <3>3, <4>1 DEF FormsInv, FormsUnlessRaced, DefinitionsUnlessRaced, Kept
      <4>3. formRow'[g] = new
        BY <1>3, <2>2, <2>3, <3>3
      <4>4. new.attributes = [a \in Attrs |-> kept[a] + 0]
        BY <3>3 DEF Once
      <4>5. \A a \in Attrs : kept[a] + 0 = kept[a]
        <5> HIDE DEF kept
        <5> QED
          BY <2>4
      <4>6. new.attributes = [a \in Attrs |-> kept[a]]
        BY <4>4, <4>5
      <4> QED
        BY <4>1, <4>2, <4>3, <4>6 DEF Once
    <3>4. CASE g = f /\ in.attributes # {}
      <4>1. wanted'[g] = in.attributes /\ f \notin local[r].crossed
        BY <1>3, <2>1, <2>2, <2>8, <3>4
      <4>2. kept = Once({})
        BY <3>4, <4>1 DEF Kept
      <4>3. formRow'[g] = new
        BY <1>3, <2>2, <2>3, <3>4
      <4>4. \A a \in Attrs : kept[a] + Once(in.attributes)[a] = Once(in.attributes)[a]
        BY <4>2 DEF Once
      <4>5. new.attributes = [a \in Attrs |-> Once(in.attributes)[a]]
        BY <4>4
      <4> QED
        BY <4>1, <4>3, <4>5 DEF Once
    <3> QED
      BY <3>2, <3>3, <3>4
  <2>9. RegisterUnlessRaced'
    <3>1. SUFFICES ASSUME ~racedFirst' PROVE registerForm' = wantedFirst'
      BY DEF RegisterUnlessRaced
    <3>2. in.first = TRUE \/ registerForm = wantedFirst
      BY <2>1, <3>1 DEF FormsInv, FormsUnlessRaced, RegisterUnlessRaced
    <3>3. in.first \in BOOLEAN \cup {Absent}
      BY <1>1 DEF Input
    <3>4. CASE in.first = TRUE
      BY <2>1, <3>4 DEF FirstAfter
    <3>5. CASE in.first = FALSE
      <4>1. local[r].first <=> registerForm = f
        BY <1>1, <1>3, <2>1, <3>1, <3>5 DEF FormFlow, FormSteps, UpdateSteps
      <4> QED
        BY <2>1, <3>2, <3>5, <4>1 DEF FirstAfter, SetsFirst
    <3>6. CASE in.first = Absent
      BY <2>1, <3>2, <3>6, SetupAssumption DEF FirstAfter, SetsFirst
    <3> QED
      BY <3>1, <3>3, <3>4, <3>5, <3>6, SetupAssumption
  <2>10. written \in SUBSET Names /\ "done" \in Steps
    BY <1>3 DEF Names, Steps, Ended
  <2>11. registerForm' = registerForm \/ written = written \cup {"first"}
    BY <2>1 DEF FirstAfter, SetsFirst
  <2> HIDE DEF written, new, old, kept
  <2>12. Moves(r) /\ pc'[r] = "done" /\ local'[r] = Fresh /\ Crosses(r, written)
    BY <1>1, <2>1, <2>10, StepIs DEF Ended
  <2>13. (\A q \in Requests \ {r} : FormFlow(q)') /\ FormFlow(r)'
    <3>1. registerForm' = registerForm \/ Crosses(r, {"first"})
      BY <2>11, <2>12 DEF Crosses
    <3> QED
      BY <2>12, <3>1, FormFlowKept DEF FormFlow, FormSteps, UpdateSteps
  <2> QED
    BY <1>1, <1>2, <2>7, <2>8, <2>9, <2>12, <2>13, GotoKeeps
       DEF FormStep, FormsInv, FormsUnlessRaced, DefinitionsUnlessRaced, FormSteps, UpdateSteps,
           Ended
<1>5. CASE ~(f \in forms /\ in.attributes \subseteq attrs)
  <2>1. Goto(r, "refused") /\ UNCHANGED <<formRow, registerForm, formHistory>>
    BY <1>5 DEF FormCommit, Save
  <2>2. Moves(r) /\ pc'[r] = "refused" /\ local'[r] = Fresh
    BY <2>1, GotoIs DEF Steps, Ended
  <2>3. FormRows' /\ FormsUnlessRaced'
    BY <1>1, <1>2, <2>1, FormsSame
  <2>4. (\A q \in Requests \ {r} : FormFlow(q)') /\ FormFlow(r)'
    BY <2>1, <2>2, FormFlowKept DEF FormFlow, FormSteps, UpdateSteps
  <2> QED
    BY <1>1, <1>2, <2>2, <2>3, <2>4, GotoKeeps
       DEF FormStep, FormsInv, FormSteps, UpdateSteps, Ended
<1> QED
  BY <1>4, <1>5

\* remove reads whether the form registers, ...
LEMMA FormRemoveIs ==
    ASSUME RequestsInv, FormsInv, NEW r \in Requests, FormRemove(r)
    PROVE  FormStep(r)
<1> DEFINE first == registerForm = In(r).form
           next == IF first THEN "removeFirst" ELSE "removeForm"
           l == [local[r] EXCEPT !.first = first, !.crossed = {}]
<1>1. /\ pc[r] = "formRemove" /\ UNCHANGED <<formState, formHistory>> /\ OnlyForms
      /\ Step(r, next, l, {}) /\ local[r] \in Locals
  BY DEF FormRemove, RequestsInv
<1>2. l \in Locals /\ next \in FormSteps \ UpdateSteps /\ next \in Steps \ Ended /\ {} \in SUBSET Names
  BY <1>1 DEF Locals, Steps, FormSteps, UpdateSteps, Ended
<1>3. (l.first <=> registerForm = In(r).form) /\ l.old = local[r].old /\ l.new = local[r].new
  BY <1>1 DEF Locals
<1> HIDE DEF first, next, l
<1>4. FormRows' /\ FormsUnlessRaced' /\ registerForm' = registerForm /\ attrs' \subseteq attrs
  BY <1>1, FormsSame DEF formState, FormsInv, FormRows
<1>5. Moves(r) /\ pc'[r] = next /\ input'[r] = input[r] /\ local'[r] = l
  BY <1>1, <1>2, StepIs
<1>6. FormFlow(r)'
  BY <1>2, <1>3, <1>4, <1>5 DEF FormFlow, In
<1>7. \A q \in Requests \ {r} : FormFlow(q)'
  BY <1>4, <1>5, FormFlowKept
<1> QED
  BY <1>1, <1>2, <1>3, <1>4, <1>5, <1>6, <1>7, GotoKeeps DEF FormStep, FormsInv, FormOps

\* ... locks the event's row when it does, ...
LEMMA RemoveFirstIs ==
    ASSUME RequestsInv, FormsInv, NEW r \in Requests, RemoveFirst(r)
    PROVE  FormStep(r)
<1>1. /\ pc[r] = "removeFirst" /\ OnlyForms /\ Goto(r, "removeForm") /\ eventLock' = r
      /\ UNCHANGED <<attrs, forms, formRow, usedForms, registerForm, formHistory>>
  BY DEF RemoveFirst
<1>2. FormRows' /\ FormsUnlessRaced' /\ registerForm' = registerForm /\ attrs' \subseteq attrs
  BY <1>1, FormsSame
<1>3. Moves(r) /\ pc'[r] = "removeForm" /\ input'[r] = input[r] /\ local'[r] = local[r]
  BY <1>1, GotoIs DEF Steps, FormSteps, Ended
<1>4. FormFlow(r)'
  BY <1>1, <1>2, <1>3 DEF FormFlow, In, FormsInv, FormSteps, UpdateSteps
<1>5. \A q \in Requests \ {r} : FormFlow(q)'
  BY <1>2, <1>3, FormFlowKept
<1> QED
  BY <1>1, <1>2, <1>3, <1>4, <1>5, GotoKeeps DEF FormStep, FormsInv, FormSteps

\* ... and deletes the form: the event names no form that is gone, and none but
\* the one last asked for, unless that was asked since the read.
LEMMA RemoveFormIs ==
    ASSUME RequestsInv, FormsInv, NEW r \in Requests, RemoveForm(r)
    PROVE  FormStep(r)
<1> DEFINE f == In(r).form
<1>1. /\ pc[r] = "removeForm" /\ OnlyForms /\ local[r] \in Locals
      /\ UNCHANGED <<attrs, formRow, usedForms, mixed, wanted>>
      /\ eventLock' = IF eventLock = r THEN None ELSE eventLock
  BY DEF RemoveForm, Delete, Unlock, RequestsInv
<1>2. eventLock' \in Requests \cup {None} /\ attrs' \subseteq attrs
  BY <1>1 DEF FormsInv, FormRows
<1>3. CASE f \in forms
  <2> DEFINE clears == local[r].first \/ registerForm = f
             written == IF clears THEN {"first"} ELSE {}
  <2>1. /\ forms' = forms \ {f}
        /\ registerForm' = (IF clears THEN None ELSE registerForm)
        /\ wantedFirst' = IF wantedFirst = f THEN None ELSE wantedFirst
        /\ racedFirst' = (racedFirst \/ (local[r].first /\ "first" \in local[r].crossed))
        /\ Step(r, "done", local[r], written)
    BY <1>3 DEF RemoveForm, Delete
  <2>2. FormRows'
    BY <1>1, <1>2, <2>1 DEF FormsInv, FormRows
  <2>3. DefinitionsUnlessRaced'
    BY <1>1, <2>1 DEF FormsInv, FormsUnlessRaced, DefinitionsUnlessRaced, Once
  <2>4. RegisterUnlessRaced'
    <3>1. SUFFICES ASSUME ~racedFirst' PROVE registerForm' = wantedFirst'
      BY DEF RegisterUnlessRaced
    <3>2. registerForm = wantedFirst
      BY <2>1, <3>1 DEF FormsInv, FormsUnlessRaced, RegisterUnlessRaced
    <3>3. local[r].first => registerForm = f
      BY <1>1, <2>1, <3>1 DEF FormsInv, FormFlow, FormSteps
    <3> QED
      BY <2>1, <3>2, <3>3
  <2>5. written \in SUBSET Names /\ "done" \in Steps
    BY DEF Names, Steps, Ended
  <2>6. registerForm' = registerForm \/ written = {"first"}
    BY <2>1
  <2> HIDE DEF written
  <2>7. Moves(r) /\ pc'[r] = "done" /\ local'[r] = Fresh /\ Crosses(r, written)
    BY <1>1, <2>1, <2>5, StepIs DEF Ended
  <2>8. (\A q \in Requests \ {r} : FormFlow(q)') /\ FormFlow(r)'
    BY <2>6, <2>7, FormFlowKept DEF FormFlow, FormSteps, UpdateSteps
  <2> QED
    BY <1>1, <1>2, <2>2, <2>3, <2>4, <2>7, <2>8, GotoKeeps
       DEF FormStep, FormsInv, FormsUnlessRaced, FormSteps, Ended
<1>4. CASE f \notin forms
  <2>1. Goto(r, "refused") /\ UNCHANGED <<forms, registerForm, wantedFirst, racedFirst>>
    BY <1>4 DEF RemoveForm, Delete
  <2>2. Moves(r) /\ pc'[r] = "refused" /\ local'[r] = Fresh
    BY <2>1, GotoIs DEF Steps, Ended
  <2>3. FormRows' /\ FormsUnlessRaced'
    BY <1>1, <1>2, <2>1, FormsSame DEF formHistory
  <2>4. (\A q \in Requests \ {r} : FormFlow(q)') /\ FormFlow(r)'
    BY <2>1, <2>2, FormFlowKept DEF FormFlow, FormSteps, UpdateSteps
  <2> QED
    BY <1>1, <1>2, <2>2, <2>3, <2>4, GotoKeeps DEF FormStep, FormsInv, FormSteps, Ended
<1> QED
  BY <1>3, <1>4

\* The removal of an attribute takes its definitions with it.
LEMMA AttrRemoveIs ==
    ASSUME RequestsInv, FormsInv, NEW r \in Requests, AttrRemove(r)
    PROVE  FormStep(r)
<1> DEFINE a == In(r).attr
<1>1. /\ pc[r] = "attrRemove" /\ OnlyForms /\ Goto(r, "done") /\ attrs' = attrs \ {a}
      /\ formRow' = [f \in Forms |-> [formRow[f] EXCEPT !.attributes[a] = 0]]
      /\ wanted' = [f \in Forms |-> wanted[f] \ {a}]
      /\ UNCHANGED <<forms, usedForms, registerForm, eventLock, mixed, wantedFirst, racedFirst>>
  BY DEF AttrRemove
<1>2. a \in Attrs
  BY <1>1, InputsAssumption DEF RequestsInv, OpFlow, Ops, In
<1> HIDE DEF a
<1>3. formRow \in [Forms -> FormRow] /\ wanted \in [Forms -> SUBSET Attrs] /\ MaxRows \in Nat
  BY SetupAssumption DEF FormsInv, FormRows
<1>4. ASSUME NEW f \in Forms
      PROVE  /\ formRow'[f] \in FormRow
             /\ formRow'[f].attributes = [formRow[f].attributes EXCEPT ![a] = 0]
  <2>1. formRow[f] \in FormRow /\ formRow'[f] = [formRow[f] EXCEPT !.attributes[a] = 0]
    BY <1>1, <1>3
  <2>2. formRow[f].attributes \in [Attrs -> 0..MaxRows] /\ 0 \in 0..MaxRows
    BY <1>3, <2>1 DEF FormRow
  <2>3. formRow'[f].attributes = [formRow[f].attributes EXCEPT ![a] = 0]
    BY <2>1 DEF FormRow
  <2>4. [formRow[f].attributes EXCEPT ![a] = 0] \in [Attrs -> 0..MaxRows]
    BY <2>2
  <2>5. formRow'[f] = [formRow[f] EXCEPT !.attributes = [formRow[f].attributes EXCEPT ![a] = 0]]
    BY <2>1
  <2> HIDE DEF a
  <2> QED
    BY <2>1, <2>3, <2>4, <2>5 DEF FormRow
<1>5. FormRows'
  <2>1. formRow' \in [Forms -> FormRow]
    BY <1>1, <1>4
  <2>2. wanted' \in [Forms -> SUBSET Attrs]
    BY <1>1, <1>3
  <2> QED
    BY <1>1, <2>1, <2>2 DEF FormsInv, FormRows
<1>6. ASSUME NEW f \in forms' \ mixed' PROVE formRow'[f].attributes = Once(wanted[f])'
  <2>1. f \in forms \ mixed /\ f \in Forms
    BY <1>1, <1>6 DEF FormsInv, FormRows
  <2>2. formRow[f].attributes = Once(wanted[f])
    BY <2>1 DEF FormsInv, FormsUnlessRaced, DefinitionsUnlessRaced
  <2>3. wanted'[f] = wanted[f] \ {a}
    BY <1>1, <2>1
  <2> QED
    BY <1>2, <1>4, <2>1, <2>2, <2>3 DEF Once
<1>7. FormsUnlessRaced'
  BY <1>1, <1>6 DEF FormsInv, FormsUnlessRaced, DefinitionsUnlessRaced, RegisterUnlessRaced
<1>8. Moves(r) /\ pc'[r] = "done" /\ local'[r] = Fresh
  BY <1>1, GotoIs DEF Steps, Ended
<1>9. (\A q \in Requests \ {r} : FormFlow(q)') /\ FormFlow(r)'
  BY <1>1, <1>8, FormFlowKept DEF FormFlow, FormSteps, UpdateSteps
<1> QED
  BY <1>1, <1>5, <1>7, <1>8, <1>9, GotoKeeps DEF FormStep, FormsInv, FormOps, Ended

-----------------------------------------------------------------------------
(* Mail templates.                                                         *)

MailOps == {"mailCreate", "mailDuplicate", "mailUpdate", "mailRemove", "reorder"}
MailStep(r) ==
    /\ Moves(r) /\ KeysKept(r) /\ pc[r] \in MailOps \cup MailSteps
    /\ pc'[r] \in MailSteps \cup Ended
    /\ OnlyMails
    /\ MailsInv'

\* What is validated is about something of its trigger.
LEMMA ValidatedFits ==
    ASSUME FormsInv, NEW trigger, NEW about, ConfigFits(trigger, about)
    PROVE  Fits(trigger, Value(about))
<1>1. forms \subseteq Forms /\ attrs \subseteq Attrs
  BY DEF FormsInv, FormRows
<1>2. Absent \notin Forms \cup Attrs /\ None # Absent
  BY SetupAssumption
<1> QED
  BY <1>1, <1>2 DEF ConfigFits, Fits, Value

\* What the others have locked, and the places they gave it.
OthersKeepRows(r) ==
    \A q \in Requests \ {r}, m \in Templates :
        mailLock[m] = q => mailLock'[m] = q /\ draft'[m] = draft[m]
\* The types of both.
LockTypes == /\ mailLock \in [Templates -> Requests \cup {None}]
             /\ draft \in [Templates -> Nat]

\* A step that locks nothing keeps them; so does the end of a transaction.
LEMMA RowsSame ==
    ASSUME MailsInv, NEW r \in Requests, UNCHANGED <<draft, mailLock>> \/ Release(r)
    PROVE  LockTypes' /\ OthersKeepRows(r)
<1>1. LockTypes
  BY DEF LockTypes, MailsInv, MailRows
<1>2. CASE UNCHANGED <<draft, mailLock>>
  BY <1>1, <1>2 DEF LockTypes, OthersKeepRows
<1>3. CASE Release(r)
  BY <1>1, <1>3 DEF LockTypes, OthersKeepRows, Release
<1> QED
  BY <1>2, <1>3

\* The other requests about mails know what they knew, or that it has changed.
LEMMA MailFlowKept ==
    ASSUME MailsInv, NEW r \in Requests, Moves(r), usedMails \subseteq usedMails',
           \A m \in usedMails : mailRow'[m] = mailRow[m] \/ Crosses(r, {m}),
           OthersKeepRows(r)
    PROVE  \A q \in Requests \ {r} : MailFlow(q)'
<1> SUFFICES ASSUME NEW q \in Requests \ {r}, pc'[q] \in MailSteps PROVE MailFlow(q)'
  BY DEF MailFlow, MailSteps
<1>1. MailFlow(q) /\ Same(q)
  BY DEF MailsInv, Moves
<1>2. /\ pc'[q] = pc[q] /\ In(q)' = In(q) /\ local'[q].trigger = local[q].trigger
      /\ local[q].crossed \subseteq local'[q].crossed
  BY <1>1 DEF Same, In
<1>3. pc[q] = "mailWrite" => \/ mailRow'[In(q).template] = mailRow[In(q).template]
                             \/ In(q).template \in local'[q].crossed
  BY <1>1 DEF MailFlow, Crosses, Ended
<1>4. CASE pc[q] = "reorderRow"
  <2>1. /\ In(q) \in Inputs[q] /\ local[q].next <= Len(In(q).list) + 1
        /\ \A i \in DOMAIN In(q).list :
              /\ In(q).list[i] \in usedMails
              /\ i < local[q].next => /\ mailLock[In(q).list[i]] = q
                                      /\ draft[In(q).list[i]] = i
    BY <1>1, <1>4 DEF MailFlow
  <2>2. local'[q].next = local[q].next /\ usedMails \subseteq Templates
    BY <1>1 DEF Same, MailsInv, MailRows
  <2>3. ASSUME NEW i \in DOMAIN In(q).list
        PROVE  /\ In(q).list[i] \in usedMails'
               /\ i < local'[q].next => /\ mailLock'[In(q).list[i]] = q
                                        /\ draft'[In(q).list[i]] = i
    BY <2>1, <2>2 DEF OthersKeepRows
  <2> QED
    BY <1>2, <1>4, <2>1, <2>2, <2>3 DEF MailFlow
<1>5. CASE pc[q] # "reorderRow"
  BY <1>1, <1>2, <1>3, <1>5 DEF MailFlow, New, Value, Fits
<1> QED
  BY <1>4, <1>5

\* A step that writes nothing about mails but locks.
LEMMA MailsSame ==
    ASSUME MailsInv, UNCHANGED <<templates, mailRow, usedMails, place, mailHistory>>,
           LockTypes'
    PROVE  MailRows' /\ ConfigFitsTrigger' /\ ReorderWhole'
BY DEF MailsInv, MailRows, ConfigFitsTrigger, ReorderWhole, mailHistory, LockTypes

\* A step of r that ends it, or goes on, and writes nothing about mails but locks.
LEMMA MailGoto ==
    ASSUME RequestsInv, MailsInv, NEW r \in Requests, pc[r] \in MailOps \cup MailSteps,
           NEW next \in Ended, Goto(r, next), OnlyMails,
           UNCHANGED <<templates, mailRow, usedMails, place, mailHistory>>,
           UNCHANGED <<draft, mailLock>> \/ Release(r)
    PROVE  MailStep(r)
<1>1. Moves(r) /\ pc'[r] = next /\ local'[r] = Fresh
  BY GotoIs DEF Steps
<1>2. LockTypes' /\ OthersKeepRows(r)
  BY RowsSame
<1>3. (\A q \in Requests \ {r} : MailFlow(q)') /\ MailFlow(r)'
  BY <1>1, <1>2, MailFlowKept DEF MailFlow, Ended
<1>4. MailRows' /\ ConfigFitsTrigger' /\ ReorderWhole'
  BY <1>2, MailsSame
<1> QED
  BY <1>1, <1>3, <1>4, GotoKeeps DEF MailStep, MailsInv

\* A new template, as it was validated or as the one it copies.
LEMMA NewMailIs ==
    ASSUME MailsInv, NEW row \in MailRow, NEW at \in Nat, NewMail(row, at),
           UNCHANGED <<draft, mailLock, lastList, moved>>,
           \/ Fits(row.trigger, row.about) /\ racedMails' = racedMails
           \/ racedMails' = racedMails \cup (usedMails' \ usedMails)
    PROVE  /\ MailRows' /\ ConfigFitsTrigger' /\ ReorderWhole' /\ usedMails \subseteq usedMails'
           /\ \A m \in usedMails : mailRow'[m] = mailRow[m]
<1> DEFINE m == CHOOSE t \in Templates \ usedMails : TRUE
<1>1. m \in Templates \ usedMails
  BY DEF NewMail
<1>2. /\ templates' = templates \cup {m} /\ usedMails' = usedMails \cup {m}
      /\ mailRow' = [mailRow EXCEPT ![m] = row] /\ place' = [place EXCEPT ![m] = at]
  BY DEF NewMail
<1> HIDE DEF m
<1>3. MailRows'
  BY <1>1, <1>2 DEF MailsInv, MailRows
<1>4. \A n \in usedMails : mailRow'[n] = mailRow[n] /\ place'[n] = place[n]
  BY <1>1, <1>2 DEF MailsInv, MailRows
<1>5. ASSUME NEW n \in templates' \ racedMails'
      PROVE  Fits(mailRow'[n].trigger, mailRow'[n].about)
  <2>1. CASE n = m
    <3>1. mailRow'[n] = row /\ m \in usedMails' \ usedMails
      BY <1>1, <1>2, <2>1 DEF MailsInv, MailRows
    <3> QED
      BY <1>5, <2>1, <3>1
  <2>2. CASE n # m
    <3>1. n \in templates \ racedMails /\ mailRow'[n] = mailRow[n]
      BY <1>2, <1>4, <1>5, <2>2 DEF MailsInv, MailRows
    <3> QED
      BY <3>1 DEF MailsInv, ConfigFitsTrigger, Fits
  <2> QED
    BY <2>1, <2>2
<1>6. ConfigFitsTrigger'
  BY <1>5 DEF ConfigFitsTrigger, Fits
<1>7. ReorderWhole'
  <2> SUFFICES ASSUME NEW i \in DOMAIN lastList, lastList[i] \in templates' \ moved
               PROVE  place'[lastList[i]] = i
    BY DEF ReorderWhole
  <2>1. lastList[i] \in usedMails
    BY DEF MailsInv, MailRows
  <2>2. lastList[i] \in templates \ moved
    BY <1>1, <1>2, <2>1
  <2> QED
    BY <1>4, <2>1, <2>2 DEF MailsInv, ReorderWhole
<1> QED
  BY <1>2, <1>3, <1>4, <1>6, <1>7

\* create validates ...
LEMMA MailCreateIs ==
    ASSUME RequestsInv, FormsInv, MailsInv, NEW r \in Requests, MailCreate(r)
    PROVE  MailStep(r)
<1>1. /\ pc[r] = "mailCreate" /\ OnlyMails /\ UNCHANGED <<mailState, mailHistory>>
      /\ Goto(r, IF ConfigFits(In(r).trigger, In(r).about) THEN "mailInsert" ELSE "refused")
  BY DEF MailCreate
<1>2. CASE ConfigFits(In(r).trigger, In(r).about)
  <2>1. Moves(r) /\ pc'[r] = "mailInsert" /\ input'[r] = input[r] /\ local'[r] = local[r]
    BY <1>1, <1>2, GotoIs DEF Steps, MailSteps, Ended
  <2>2. In(r).trigger \in Triggers
    BY <1>1, InputsAssumption DEF RequestsInv, OpFlow, Ops
  <2>3. Fits(In(r).trigger, Value(In(r).about))
    BY <1>2, ValidatedFits
  <2>4. MailFlow(r)'
    BY <2>1, <2>2, <2>3 DEF MailFlow, In, Fits, Value
  <2>5. LockTypes' /\ OthersKeepRows(r)
    BY <1>1, RowsSame DEF mailState
  <2>6. \A q \in Requests \ {r} : MailFlow(q)'
    BY <1>1, <2>1, <2>5, MailFlowKept DEF mailState
  <2>7. MailRows' /\ ConfigFitsTrigger' /\ ReorderWhole'
    BY <1>1, <2>5, MailsSame DEF mailState
  <2> QED
    BY <1>1, <2>1, <2>4, <2>6, <2>7, GotoKeeps DEF MailStep, MailsInv, MailOps, MailSteps
<1>3. CASE ~ConfigFits(In(r).trigger, In(r).about)
  <2>1. Goto(r, "refused")
    BY <1>1, <1>3
  <2> QED
    BY <1>1, <2>1, MailGoto DEF mailState, MailOps, Ended
<1> QED
  BY <1>2, <1>3

\* ... and inserts.
LEMMA MailInsertIs ==
    ASSUME RequestsInv, MailsInv, NEW r \in Requests, MailInsert(r)
    PROVE  MailStep(r)
<1> DEFINE in == In(r)
           row == [trigger |-> in.trigger, about |-> Value(in.about)]
<1>1. /\ pc[r] = "mailInsert" /\ OnlyMails /\ Goto(r, "done")
      /\ NewMail(row, New(in.order, 0)) /\ UNCHANGED <<draft, mailLock, mailHistory>>
      /\ in \in Input
  BY DEF MailInsert, RequestsInv, In
<1>2. in.trigger \in Triggers /\ Fits(in.trigger, Value(in.about))
  BY <1>1 DEF MailsInv, MailFlow
<1>3. row \in MailRow
  <2>1. Value(in.about) \in Forms \cup Attrs \cup {None}
    BY <1>1 DEF Value, Input
  <2> QED
    BY <1>2, <2>1 DEF MailRow
<1>4. New(in.order, 0) \in Nat
  BY <1>1 DEF New, Input
<1>5. row.trigger = in.trigger /\ row.about = Value(in.about)
  OBVIOUS
<1> HIDE DEF row
<1>6. /\ MailRows' /\ ConfigFitsTrigger' /\ ReorderWhole' /\ usedMails \subseteq usedMails'
      /\ \A m \in usedMails : mailRow'[m] = mailRow[m]
  BY <1>1, <1>2, <1>3, <1>4, <1>5, NewMailIs DEF mailHistory
<1>7. Moves(r) /\ pc'[r] = "done" /\ local'[r] = Fresh
  BY <1>1, GotoIs DEF Steps, Ended
<1>8. (\A q \in Requests \ {r} : MailFlow(q)') /\ MailFlow(r)'
  BY <1>1, <1>6, <1>7, RowsSame, MailFlowKept DEF MailFlow
<1> QED
  BY <1>1, <1>6, <1>7, <1>8, GotoKeeps DEF MailStep, MailsInv, MailSteps, Ended

\* duplicate
LEMMA MailDuplicateIs ==
    ASSUME RequestsInv, MailsInv, NEW r \in Requests, MailDuplicate(r)
    PROVE  MailStep(r)
<1> DEFINE m == In(r).template
<1>1. pc[r] = "mailDuplicate" /\ OnlyMails /\ UNCHANGED <<draft, mailLock, lastList, moved>>
  BY DEF MailDuplicate
<1>2. CASE m \in templates
  <2>1. /\ NewMail(mailRow[m], place[m]) /\ Goto(r, "done")
        /\ racedMails' = IF m \in racedMails THEN racedMails \cup (usedMails' \ usedMails)
                         ELSE racedMails
    BY <1>2 DEF MailDuplicate
  <2>2. mailRow[m] \in MailRow /\ place[m] \in Nat
    BY <1>2 DEF MailsInv, MailRows
  <2>3. m \notin racedMails => Fits(mailRow[m].trigger, mailRow[m].about)
    BY <1>2 DEF MailsInv, ConfigFitsTrigger, Fits
  <2>4. /\ MailRows' /\ ConfigFitsTrigger' /\ ReorderWhole' /\ usedMails \subseteq usedMails'
        /\ \A n \in usedMails : mailRow'[n] = mailRow[n]
    BY <1>1, <2>1, <2>2, <2>3, NewMailIs
  <2>5. Moves(r) /\ pc'[r] = "done" /\ local'[r] = Fresh
    BY <2>1, GotoIs DEF Steps, Ended
  <2>6. (\A q \in Requests \ {r} : MailFlow(q)') /\ MailFlow(r)'
    BY <1>1, <2>4, <2>5, RowsSame, MailFlowKept DEF MailFlow
  <2> QED
    BY <1>1, <2>4, <2>5, <2>6, GotoKeeps DEF MailStep, MailsInv, MailOps, Ended
<1>3. CASE m \notin templates
  <2>1. Goto(r, "refused") /\ UNCHANGED <<templates, usedMails, mailRow, place, racedMails>>
    BY <1>3 DEF MailDuplicate
  <2> QED
    BY <1>1, <2>1, MailGoto DEF mailHistory, MailOps, Ended
<1> QED
  BY <1>2, <1>3

\* update validates against the trigger that it read ...
LEMMA MailUpdateIs ==
    ASSUME RequestsInv, FormsInv, MailsInv, NEW r \in Requests, MailUpdate(r)
    PROVE  MailStep(r)
<1> DEFINE in == In(r)
           now == mailRow[in.template].trigger
           valid == /\ in.template \in templates
                    /\ (New(in.trigger, now) # now \/ in.about # Absent)
                         => ConfigFits(New(in.trigger, now), in.about)
<1>1. /\ pc[r] = "mailUpdate" /\ OnlyMails /\ UNCHANGED <<mailState, mailHistory>>
      /\ local[r] \in Locals /\ in \in Input
  BY DEF MailUpdate, MailRead, RequestsInv, In
<1>2. CASE valid
  <2> DEFINE l == [local[r] EXCEPT !.trigger = now, !.crossed = {}]
  <2>1. Step(r, "mailWrite", l, {})
    BY <1>2 DEF MailUpdate, MailRead
  <2>2. now \in Triggers /\ in.template \in usedMails
    BY <1>2 DEF MailsInv, MailRows, MailRow
  <2>3. (New(in.trigger, now) # now \/ in.about # Absent) => Fits(New(in.trigger, now), Value(in.about))
    BY <1>2, ValidatedFits
  <2>4. l \in Locals /\ l.trigger = now /\ l.old = local[r].old /\ l.new = local[r].new
    BY <1>1, <2>2 DEF Locals
  <2> HIDE DEF l
  <2>5. Moves(r) /\ pc'[r] = "mailWrite" /\ input'[r] = input[r] /\ local'[r] = l
    BY <2>1, <2>4, StepIs DEF Steps, MailSteps, Ended
  <2>6. MailFlow(r)'
    <3>1. In(r)' = in /\ local'[r].trigger = now /\ mailRow' = mailRow /\ usedMails' = usedMails
      BY <1>1, <2>4, <2>5 DEF In, mailState
    <3> HIDE DEF now, in
    <3> QED
      BY <2>2, <2>3, <2>5, <3>1 DEF MailFlow, Fits, Value, New, in, now
  <2>7. \A q \in Requests \ {r} : MailFlow(q)'
    BY <1>1, <2>5, RowsSame, MailFlowKept DEF mailState
  <2>8. MailRows' /\ ConfigFitsTrigger' /\ ReorderWhole'
    BY <1>1, RowsSame, MailsSame DEF mailState
  <2> QED
    BY <1>1, <2>4, <2>5, <2>6, <2>7, <2>8, GotoKeeps DEF MailStep, MailsInv, MailOps, MailSteps
<1>3. CASE ~valid
  <2>1. Goto(r, "refused")
    BY <1>3 DEF MailUpdate, MailRead
  <2> QED
    BY <1>1, <2>1, MailGoto DEF mailState, MailOps, Ended
<1> QED
  BY <1>2, <1>3

\* ... and writes trigger and config, which fit when the trigger is the one read.
LEMMA MailWriteIs ==
    ASSUME RequestsInv, MailsInv, NEW r \in Requests, MailWrite(r)
    PROVE  MailStep(r)
<1> DEFINE in == In(r)
           m == in.template
           changed == New(in.trigger, local[r].trigger) # local[r].trigger
<1>1. /\ pc[r] = "mailWrite" /\ OnlyMails /\ local[r] \in Locals /\ in \in Input
      /\ UNCHANGED <<templates, usedMails, draft, mailLock, lastList>>
  BY DEF MailWrite, RequestsInv, In
<1>2. CASE m \in templates
  <2> DEFINE old == mailRow[m]
             new == [trigger |-> New(in.trigger, old.trigger),
                     about |-> IF in.about \notin {None, Absent} THEN in.about
                               ELSE IF changed \/ in.about = None THEN None ELSE old.about]
  <2>1. /\ mailRow' = [mailRow EXCEPT ![m] =
                 [trigger |-> New(in.trigger, @.trigger),
                  about |-> IF in.about \notin {None, Absent} THEN in.about
                            ELSE IF changed \/ in.about = None THEN None ELSE @.about]]
        /\ place' = [place EXCEPT ![m] = New(in.order, @)]
        /\ moved' = IF in.order = Absent THEN moved ELSE moved \cup {m}
        /\ racedMails' = IF m \in local[r].crossed THEN racedMails \cup {m} ELSE racedMails
        /\ Step(r, "done", local[r], {m})
    BY <1>2 DEF MailWrite
  <2>2. m \in usedMails /\ m \in Templates /\ old \in MailRow
    BY <1>2 DEF MailsInv, MailRows
  <2>3. mailRow' = [mailRow EXCEPT ![m] = new]
    BY <2>1, <2>2 DEF MailsInv, MailRows
  <2>4. new \in MailRow
    BY <1>1, <2>2 DEF MailRow, Input, New
  <2>5. place' \in [Templates -> Nat]
    BY <1>1, <2>1, <2>2 DEF MailsInv, MailRows, New, Input
  <2>6. MailRows'
    BY <1>1, <2>2, <2>3, <2>4, <2>5 DEF MailsInv, MailRows
  <2>7. ASSUME NEW n \in templates' \ racedMails' PROVE Fits(mailRow'[n].trigger, mailRow'[n].about)
    <3>1. CASE n # m
      <4>1. n \in templates \ racedMails /\ mailRow'[n] = mailRow[n]
        BY <1>1, <2>1, <2>2, <2>3, <2>7, <3>1 DEF MailsInv, MailRows
      <4> QED
        BY <4>1 DEF MailsInv, ConfigFitsTrigger, Fits
    <3>2. CASE n = m
      <4>1. mailRow'[n] = new /\ m \notin local[r].crossed /\ m \notin racedMails
        BY <2>1, <2>2, <2>3, <2>7, <3>2 DEF MailsInv, MailRows
      <4>2. /\ local[r].trigger = old.trigger
            /\ (changed \/ in.about # Absent) => Fits(New(in.trigger, old.trigger), Value(in.about))
        BY <1>1, <4>1 DEF MailsInv, MailFlow
      <4>3. Fits(old.trigger, old.about)
        BY <1>2, <4>1 DEF MailsInv, ConfigFitsTrigger, Fits
      <4>4. new.trigger = New(in.trigger, old.trigger)
        OBVIOUS
      <4>5. CASE changed \/ in.about # Absent
        <5>1. new.about = Value(in.about)
          BY <4>5, SetupAssumption DEF Value
        <5> QED
          BY <4>1, <4>2, <4>4, <4>5, <5>1
      <4>6. CASE ~(changed \/ in.about # Absent)
        <5>1. new.about = old.about
          BY <4>6, SetupAssumption
        <5>2. new.trigger = old.trigger
          BY <4>2, <4>4, <4>6
        <5> QED
          BY <4>1, <4>3, <5>1, <5>2
      <4> QED
        BY <4>5, <4>6
    <3> QED
      BY <3>1, <3>2
  <2>8. ConfigFitsTrigger'
    BY <2>7 DEF ConfigFitsTrigger, Fits
  <2>9. ReorderWhole'
    <3> SUFFICES ASSUME NEW i \in DOMAIN lastList, lastList[i] \in templates \ moved'
                 PROVE  place'[lastList[i]] = i
      BY <1>1 DEF ReorderWhole
    <3>1. lastList[i] \notin moved
      BY <2>1
    <3>2. place[lastList[i]] = i /\ lastList[i] \in Templates
      BY <3>1 DEF MailsInv, ReorderWhole, MailRows
    <3>3. CASE lastList[i] # m
      BY <2>1, <3>2, <3>3 DEF MailsInv, MailRows
    <3>4. CASE lastList[i] = m
      <4>1. in.order = Absent
        BY <2>1, <3>4
      <4> QED
        BY <2>1, <2>2, <3>2, <3>4, <4>1 DEF New, MailsInv, MailRows
    <3> QED
      BY <3>3, <3>4
  <2>10. {m} \in SUBSET Names /\ "done" \in Steps
    BY <2>2 DEF Names, Steps, Ended
  <2>11. \A n \in usedMails : mailRow'[n] = mailRow[n] \/ n = m
    BY <2>2, <2>3 DEF MailsInv, MailRows
  <2> HIDE DEF new, old, m
  <2>12. Moves(r) /\ pc'[r] = "done" /\ local'[r] = Fresh /\ Crosses(r, {m})
    BY <1>1, <2>1, <2>10, StepIs DEF Ended
  <2>13. (\A q \in Requests \ {r} : MailFlow(q)') /\ MailFlow(r)'
    BY <1>1, <2>11, <2>12, RowsSame, MailFlowKept DEF MailFlow
  <2> QED
    BY <1>1, <2>6, <2>8, <2>9, <2>12, <2>13, GotoKeeps DEF MailStep, MailsInv, MailSteps, Ended
<1>3. CASE m \notin templates
  <2>1. Goto(r, "refused") /\ UNCHANGED <<mailRow, place, moved, racedMails>>
    BY <1>3 DEF MailWrite
  <2> QED
    BY <1>1, <2>1, MailGoto DEF mailHistory, MailSteps, Ended
<1> QED
  BY <1>2, <1>3

\* remove; a template that is gone leaves the list of the last reorder as it is.
LEMMA MailRemoveIs ==
    ASSUME RequestsInv, MailsInv, NEW r \in Requests, MailRemove(r)
    PROVE  MailStep(r)
<1> DEFINE m == In(r).template
           next == IF m \in templates THEN "done" ELSE "refused"
<1>1. /\ pc[r] = "mailRemove" /\ OnlyMails /\ templates' = templates \ {m} /\ Goto(r, next)
      /\ UNCHANGED <<mailRow, usedMails, place, draft, mailLock, mailHistory>>
  BY DEF MailRemove
<1>2. next \in Steps /\ next \in Ended
  BY DEF Steps, Ended
<1> HIDE DEF next
<1>3. Moves(r) /\ pc'[r] = next /\ local'[r] = Fresh
  BY <1>1, <1>2, GotoIs
<1>4. (\A q \in Requests \ {r} : MailFlow(q)') /\ MailFlow(r)'
  BY <1>1, <1>2, <1>3, RowsSame, MailFlowKept DEF MailFlow, Ended
<1>5. MailRows' /\ ConfigFitsTrigger' /\ ReorderWhole'
  BY <1>1 DEF MailsInv, MailRows, ConfigFitsTrigger, ReorderWhole, mailHistory
<1> QED
  BY <1>1, <1>2, <1>3, <1>4, <1>5, GotoKeeps DEF MailStep, MailsInv, MailOps

\* reorder counts the templates ...
LEMMA ReorderCountIs ==
    ASSUME RequestsInv, MailsInv, NEW r \in Requests, ReorderCount(r)
    PROVE  MailStep(r)
<1>1. pc[r] = "reorder" /\ OnlyMails /\ UNCHANGED <<mailState, mailHistory>>
  BY DEF ReorderCount
<1>2. CASE Range(In(r).list) \subseteq templates
  <2>1. Goto(r, "reorderRow")
    BY <1>2 DEF ReorderCount
  <2>2. Moves(r) /\ pc'[r] = "reorderRow" /\ input'[r] = input[r] /\ local'[r] = local[r]
    BY <2>1, GotoIs DEF Steps, MailSteps, Ended
  <2>3. MailFlow(r)'
    <3>1. In(r) \in Inputs[r] /\ In(r)' = In(r)
      BY <1>1, <2>2 DEF RequestsInv, OpFlow, Ops, In
    <3>2. \A i \in DOMAIN In(r).list : In(r).list[i] \in usedMails'
      BY <1>1, <1>2 DEF Range, MailsInv, MailRows, mailState
    <3>3. local'[r].next = 1 /\ In(r).list \in Seq(Templates)
      BY <1>1, <2>2 DEF RequestsInv, OpFlow, Ops, In, Input
    <3>4. 1 <= Len(In(r).list) + 1 /\ \A i \in DOMAIN In(r).list : ~(i < 1)
      BY <3>3
    <3> QED
      BY <2>2, <3>1, <3>2, <3>3, <3>4 DEF MailFlow
  <2>4. \A q \in Requests \ {r} : MailFlow(q)'
    BY <1>1, <2>2, RowsSame, MailFlowKept DEF mailState
  <2>5. MailRows' /\ ConfigFitsTrigger' /\ ReorderWhole'
    BY <1>1, RowsSame, MailsSame DEF mailState
  <2> QED
    BY <1>1, <2>2, <2>3, <2>4, <2>5, GotoKeeps DEF MailStep, MailsInv, MailOps, MailSteps
<1>3. CASE ~(Range(In(r).list) \subseteq templates)
  <2>1. Goto(r, "refused")
    BY <1>3 DEF ReorderCount
  <2> QED
    BY <1>1, <2>1, MailGoto DEF mailState, MailOps, Ended
<1> QED
  BY <1>2, <1>3

\* ... locks one after the other, and nobody else gives a locked row a place, ...
LEMMA ReorderRowIs ==
    ASSUME RequestsInv, MailsInv, NEW r \in Requests, ReorderRow(r)
    PROVE  MailStep(r)
<1> DEFINE list == In(r).list
           n == local[r].next
           m == NextRow(r)
<1>1. /\ pc[r] = "reorderRow" /\ n <= Len(list) /\ OnlyMails /\ local[r] \in Locals
      /\ UNCHANGED <<templates, mailRow, usedMails, place, mailHistory>>
      /\ list \in Seq(Templates)
  BY DEF ReorderRow, InRows, RequestsInv, In, Input
<1>2. CASE m \in templates
  <2> DEFINE l == [local[r] EXCEPT !.next = @ + 1]
  <2>1. /\ mailLock[m] = None /\ mailLock' = [mailLock EXCEPT ![m] = r]
        /\ draft' = [draft EXCEPT ![m] = n] /\ Step(r, "reorderRow", l, {})
    BY <1>2 DEF ReorderRow
  <2>2. /\ l \in Locals /\ l.old = local[r].old /\ l.new = local[r].new
        /\ l.next = n + 1 /\ n \in Nat \ {0}
        /\ {} \in SUBSET Names /\ "reorderRow" \in Steps /\ "reorderRow" \notin Ended
    BY <1>1 DEF Locals, Steps, MailSteps, Ended
  <2> HIDE DEF l
  <2>3. Moves(r) /\ pc'[r] = "reorderRow" /\ input'[r] = input[r] /\ local'[r] = l
    BY <2>1, <2>2, StepIs
  <2>4. m = list[n] /\ m \in Templates
    BY <1>1, <1>2 DEF NextRow, MailsInv, MailRows
  <2>5. LockTypes /\ LockTypes'
    BY <2>1, <2>2 DEF LockTypes, MailsInv, MailRows
  <2>6. OthersKeepRows(r)
    BY <2>1, <2>4, <2>5, SetupAssumption DEF OthersKeepRows, LockTypes
  <2>7. MailRows' /\ ConfigFitsTrigger' /\ ReorderWhole'
    BY <1>1, <2>5, MailsSame
  <2>8. MailFlow(r)'
    <3>1. /\ In(r) \in Inputs[r]
          /\ \A i \in DOMAIN list : list[i] \in usedMails
          /\ \A i \in DOMAIN list : i < n => mailLock[list[i]] = r /\ draft[list[i]] = i
      BY <1>1 DEF MailsInv, MailFlow
    <3>2. In(r)' = In(r) /\ local'[r].next = n + 1 /\ usedMails' = usedMails
      BY <1>1, <2>2, <2>3 DEF In
    <3>3. n + 1 <= Len(list) + 1 /\ DOMAIN list \subseteq Nat
      BY <1>1, <2>2
    <3>4. \A i \in DOMAIN list : list[i] \in Templates
      BY <1>1
    <3>5. ASSUME NEW i \in DOMAIN list, i < n + 1
          PROVE  mailLock'[list[i]] = r /\ draft'[list[i]] = i
      <4>1. CASE i = n
        BY <2>1, <2>4, <2>5, <4>1 DEF LockTypes
      <4>2. CASE i # n
        <5>1. i < n
          BY <2>2, <3>3, <3>5, <4>2
        <5>2. mailLock[list[i]] = r /\ draft[list[i]] = i /\ r # None /\ list[i] \in Templates
          BY <3>1, <3>4, <5>1, SetupAssumption
        <5>3. list[i] # m
          BY <2>1, <5>2
        <5> QED
          BY <2>1, <2>5, <5>2, <5>3 DEF LockTypes
      <4> QED
        BY <4>1, <4>2
    <3> QED
      BY <2>3, <3>1, <3>2, <3>3, <3>5 DEF MailFlow
  <2>9. \A q \in Requests \ {r} : MailFlow(q)'
    BY <1>1, <2>3, <2>6, MailFlowKept
  <2> QED
    BY <1>1, <2>2, <2>3, <2>7, <2>8, <2>9, GotoKeeps DEF MailStep, MailsInv, MailSteps
<1>3. CASE m \notin templates
  <2>1. Release(r) /\ Goto(r, "refused")
    BY <1>3 DEF ReorderRow
  <2> QED
    BY <1>1, <2>1, MailGoto DEF MailSteps, Ended
<1> QED
  BY <1>2, <1>3

\* ... and commits every place at once.
LEMMA ReorderCommitIs ==
    ASSUME RequestsInv, MailsInv, NEW r \in Requests, ReorderCommit(r)
    PROVE  MailStep(r)
<1> DEFINE list == In(r).list
<1>1. /\ pc[r] = "reorderRow" /\ OnlyMails /\ list \in Seq(Templates)
      /\ local[r].next > Len(list) /\ local[r] \in Locals
      /\ place' = [m \in Templates |-> IF mailLock[m] = r THEN draft[m] ELSE place[m]]
      /\ lastList' = list /\ moved' = moved \ Range(list)
      /\ Release(r) /\ Goto(r, "done")
      /\ UNCHANGED <<templates, mailRow, usedMails, racedMails>>
  BY DEF ReorderCommit, RequestsInv, In, Input
<1>2. \A i \in DOMAIN list :
         /\ list[i] \in usedMails
         /\ i < local[r].next => mailLock[list[i]] = r /\ draft[list[i]] = i
  BY <1>1 DEF MailsInv, MailFlow
<1>3. \A i \in DOMAIN list : i < local[r].next
  BY <1>1 DEF Locals
<1> HIDE DEF list
<1>4. LockTypes' /\ OthersKeepRows(r)
  BY <1>1, RowsSame
<1>5. MailRows'
  <2>1. place' \in [Templates -> Nat]
    BY <1>1 DEF MailsInv, MailRows
  <2> QED
    BY <1>1, <1>2, <1>4, <2>1 DEF MailsInv, MailRows, LockTypes
<1>6. ReorderWhole'
  <2> SUFFICES ASSUME NEW i \in DOMAIN list PROVE place'[list[i]] = i
    BY <1>1 DEF ReorderWhole
  <2>1. list[i] \in Templates /\ mailLock[list[i]] = r /\ draft[list[i]] = i
    BY <1>2, <1>3 DEF MailsInv, MailRows
  <2> QED
    BY <1>1, <2>1
<1>7. ConfigFitsTrigger'
  BY <1>1 DEF MailsInv, ConfigFitsTrigger
<1>8. Moves(r) /\ pc'[r] = "done" /\ local'[r] = Fresh
  BY <1>1, GotoIs DEF Steps, Ended
<1>9. (\A q \in Requests \ {r} : MailFlow(q)') /\ MailFlow(r)'
  BY <1>1, <1>4, <1>8, MailFlowKept DEF MailFlow
<1> QED
  BY <1>1, <1>5, <1>6, <1>7, <1>8, <1>9, GotoKeeps DEF MailStep, MailsInv, MailSteps, Ended

\* Reorders that wait for each other: one ends without a trace.
LEMMA ReorderDeadlockIs ==
    ASSUME RequestsInv, MailsInv, NEW r \in Requests, ReorderDeadlock(r)
    PROVE  MailStep(r)
<1>1. /\ pc[r] = "reorderRow" /\ OnlyMails /\ Release(r) /\ Goto(r, "refused")
      /\ UNCHANGED <<templates, mailRow, usedMails, place, mailHistory>>
  BY DEF ReorderDeadlock, InRows
<1> QED
  BY <1>1, MailGoto DEF MailSteps, Ended

-----------------------------------------------------------------------------
(* Photos.                                                                 *)

PhotoOps == {"eventCreate", "eventUpdate", "eventRemove"}
PhotoStep(r) ==
    /\ Moves(r) /\ pc[r] \in PhotoOps \cup PhotoSteps
    /\ pc'[r] \in PhotoSteps \cup Ended
    /\ OnlyPhotos
    /\ PhotosInv'

\* What the other requests know of their keys stays true when no key they hold
\* is given to a row or another request, or deleted while it is new.
LEMMA PhotoFlowKept ==
    ASSUME PhotosInv, NEW r \in Requests, Moves(r), NEW q \in Requests \ {r},
           \A e \in Events : photoKey'[e] # photoKey[e] =>
               \/ photoKey'[e] = None
               \/ /\ photoKey'[e] # local[q].old
                  /\ pc[q] \in HasNew => photoKey'[e] # local[q].new,
           pc[q] \in HasNew /\ local[q].new # None =>
               /\ local[q].new \in objects => local[q].new \in objects'
               /\ local'[r].old # local[q].new /\ local'[r].new # local[q].new
    PROVE  NewFlow(q)' /\ OldFlow(q)'
<1>1. NewFlow(q) /\ OldFlow(q) /\ Same(q) /\ (\A p \in Requests \ {r} : Same(p))
  BY DEF PhotosInv, Moves
<1>2. NewFlow(q)'
  BY <1>1 DEF NewFlow, Same
<1>3. OldFlow(q)'
  BY <1>1 DEF OldFlow, Same, In
<1> QED
  BY <1>2, <1>3

\* A key in another request's hands stays there.
LEMMA OtherHand ==
    ASSUME NEW r \in Requests, Moves(r), NEW k, InHand(k), ~Hand(r, k)
    PROVE  InHand(k)'
<1>1. PICK q \in Requests : Hand(q, k)
  BY DEF InHand
<1>2. q # r /\ Same(q)
  BY <1>1 DEF Moves
<1>3. Hand(q, k)'
  BY <1>1, <1>2 DEF Hand, Same
<1> QED
  BY <1>3 DEF InHand

\* A request without an object ends.
LEMMA PhotoEnds ==
    ASSUME RequestsInv, PhotosInv, NEW r \in Requests, pc[r] \in PhotoOps \cup PhotoSteps,
           NEW next \in Ended, Goto(r, next), OnlyPhotos, UNCHANGED <<photoState, lostKeys>>,
           \A k \in objects : ~Hand(r, k)
    PROVE  PhotoStep(r)
<1>1. Moves(r) /\ pc'[r] = next /\ local'[r] = Fresh
  BY GotoIs DEF Steps
<1>2. local'[r].old = None /\ local'[r].new = None
  BY <1>1 DEF Fresh
<1>3. \A q \in Requests \ {r} : NewFlow(q)' /\ OldFlow(q)'
  <2> TAKE q \in Requests \ {r}
  <2>1. photoKey' = photoKey /\ objects' = objects
    BY DEF photoState
  <2> QED
    BY <1>1, <1>2, <2>1, PhotoFlowKept
<1>4. NewFlow(r)' /\ OldFlow(r)'
  BY <1>1 DEF NewFlow, OldFlow, Ended, HasNew
<1>5. PhotoRows'
  BY DEF PhotosInv, PhotoRows, photoState
<1>6. Covered'
  <2>1. \A k \in objects : InHand(k) => InHand(k)'
    BY <1>1, OtherHand
  <2> QED
    BY <2>1 DEF PhotosInv, Covered, photoState
<1> QED
  BY <1>1, <1>3, <1>4, <1>5, <1>6 DEF PhotoStep, PhotosInv

\* A fresh key is in no row and in no request.
LEMMA NewKeyIs ==
    ASSUME PhotosInv, RequestsInv, Free # {}
    PROVE  /\ NewKey \in Keys \ objects /\ NewKey # None
           /\ \A e \in Events : photoKey[e] # NewKey
           /\ \A q \in Requests : local[q].old # NewKey /\ local[q].new # NewKey
<1>1. NewKey \in Free
  BY DEF NewKey
<1>2. NewKey \in Keys \ objects /\ NewKey \notin Held /\ NewKey # None
  BY <1>1, SetupAssumption DEF Free
<1>3. \A e \in Events : photoKey[e] # NewKey
  BY <1>2 DEF PhotosInv, PhotoRows
<1>4. ASSUME NEW q \in Requests PROVE local[q].old # NewKey /\ local[q].new # NewKey
  <2> DEFINE S == {{local[x].old, local[x].new} : x \in Requests}
             T == {local[q].old, local[q].new}
  <2>1. T \in S
    OBVIOUS
  <2>2. Held = (UNION S) \ {None}
    BY DEF Held
  <2>3. local[q].old \in T /\ local[q].new \in T
    OBVIOUS
  <2> HIDE DEF S, T
  <2>4. local[q].old \in UNION S /\ local[q].new \in UNION S
    BY <2>1, <2>3
  <2> QED
    BY <1>2, <2>2, <2>4
<1> QED
  BY <1>2, <1>3, <1>4

\* An upload gives the request a new object, or ends it.
LEMMA UploadIs ==
    ASSUME RequestsInv, PhotosInv, NEW r \in Requests, NEW next \in {"eventInsert", "eventWrite"},
           pc[r] \in {"eventCreate", "upload"}, Upload(r, next), OnlyPhotos,
           UNCHANGED <<events, photoKey, lostKeys>>,
           next = "eventInsert" => In(r).event \in Events,
           next = "eventWrite" => pc[r] = "upload"
    PROVE  PhotoStep(r)
<1>1. local[r] \in Locals /\ \A k : ~Hand(r, k)
  BY DEF RequestsInv, Hand, HasNew
<1>2. CASE Free # {} /\ objects' = objects \cup {NewKey}
           /\ Step(r, next, [local[r] EXCEPT !.new = NewKey], {})
  <2>1. PICK k \in Keys \ objects :
            /\ k = NewKey /\ k # None
            /\ \A e \in Events : photoKey[e] # k
            /\ \A q \in Requests : local[q].old # k /\ local[q].new # k
    BY <1>2, NewKeyIs
  <2> DEFINE l == [local[r] EXCEPT !.new = k]
  <2>2. objects' = objects \cup {k} /\ Step(r, next, l, {})
    BY <1>2, <2>1
  <2>3. l \in Locals /\ l.old = local[r].old /\ l.new = k
    BY <1>1, <2>1 DEF Locals
  <2>4. {} \in SUBSET Names /\ next \in Steps \ Ended
    BY DEF Steps, PhotoSteps, Ended
  <2> HIDE DEF l
  <2>5. Moves(r) /\ pc'[r] = next /\ input'[r] = input[r] /\ local'[r] = l
    BY <2>2, <2>3, <2>4, StepIs
  <2>6. NewFlow(r)'
    BY <2>1, <2>2, <2>3, <2>5 DEF NewFlow, Moves, Same
  <2>7. OldFlow(r)'
    BY <2>3, <2>5 DEF OldFlow, In, PhotosInv
  <2>8. \A q \in Requests \ {r} : NewFlow(q)' /\ OldFlow(q)'
    <3> TAKE q \in Requests \ {r}
    <3>1. pc[q] \in HasNew /\ local[q].new # None => local[r].old # local[q].new
      BY DEF PhotosInv, NewFlow
    <3> QED
      BY <2>1, <2>2, <2>3, <2>5, <3>1, PhotoFlowKept
  <2>9. PhotoRows'
    BY <2>1, <2>2 DEF PhotosInv, PhotoRows
  <2>10. Covered'
    <3>1. \A x \in objects : InHand(x) => InHand(x)'
      BY <1>1, <2>5, OtherHand
    <3>2. InHand(k)'
      <4>1. Hand(r, k)'
        BY <2>3, <2>5 DEF Hand, HasNew
      <4> QED
        BY <4>1 DEF InHand
    <3>3. events' = events /\ photoKey' = photoKey /\ lostKeys' = lostKeys
      OBVIOUS
    <3> QED
      BY <2>2, <3>1, <3>2, <3>3 DEF PhotosInv, Covered
  <2> QED
    BY <2>5, <2>6, <2>7, <2>8, <2>9, <2>10 DEF PhotoStep, PhotosInv, PhotoOps, PhotoSteps
<1>3. CASE Goto(r, "refused") /\ UNCHANGED objects
  BY <1>1, <1>3, PhotoEnds DEF photoState, PhotoOps, PhotoSteps, Ended
<1> QED
  BY <1>2, <1>3 DEF Upload

\* create uploads first.
LEMMA PhotoCreateIs ==
    ASSUME RequestsInv, PhotosInv, NEW r \in Requests, PhotoCreate(r)
    PROVE  PhotoStep(r)
<1>1. pc[r] = "eventCreate" /\ OnlyPhotos /\ UNCHANGED <<events, photoKey, lostKeys>>
  BY DEF PhotoCreate
<1>2. In(r).event \in Events /\ local[r].new = None
  BY <1>1, InputsAssumption DEF RequestsInv, OpFlow, Ops
<1>3. CASE In(r).photo
  BY <1>1, <1>2, <1>3, UploadIs DEF PhotoCreate
<1>4. CASE ~In(r).photo
  <2>1. Goto(r, "eventInsert") /\ UNCHANGED objects
    BY <1>4 DEF PhotoCreate
  <2>2. Moves(r) /\ pc'[r] = "eventInsert" /\ input'[r] = input[r] /\ local'[r] = local[r]
    BY <2>1, GotoIs DEF Steps, PhotoSteps, Ended
  <2>3. NewFlow(r)' /\ OldFlow(r)'
    BY <1>2, <2>2 DEF NewFlow, OldFlow, In
  <2>4. \A q \in Requests \ {r} : NewFlow(q)' /\ OldFlow(q)'
    <3> TAKE q \in Requests \ {r}
    <3>1. /\ pc[q] \in HasNew /\ local[q].new # None =>
               local[r].old # local[q].new /\ local[r].new # local[q].new
      BY DEF PhotosInv, NewFlow
    <3> QED
      BY <1>1, <2>1, <2>2, <3>1, PhotoFlowKept
  <2>5. PhotoRows'
    BY <1>1, <2>1 DEF PhotosInv, PhotoRows
  <2>6. Covered'
    <3>1. \A k \in objects : InHand(k) => InHand(k)'
      BY <1>1, <2>2, OtherHand DEF Hand, HasNew
    <3> QED
      BY <1>1, <2>1, <3>1 DEF PhotosInv, Covered
  <2> QED
    BY <1>1, <2>2, <2>3, <2>4, <2>5, <2>6 DEF PhotoStep, PhotosInv, PhotoOps, PhotoSteps
<1> QED
  BY <1>3, <1>4

\* A key that goes into a row leaves the request's hands.
LEMMA RowTakesKey ==
    ASSUME RequestsInv, PhotosInv, NEW r \in Requests, pc[r] \in {"eventInsert", "eventWrite"},
           Moves(r), NEW e \in Events, photoKey' = [photoKey EXCEPT ![e] = local[r].new],
           objects' = objects, events' = events \cup {e}, lostKeys' \in SUBSET Keys
    PROVE  PhotoRows'
<1>1. local[r].new \in Keys \cup {None}
  BY DEF RequestsInv, Locals
<1>2. local[r].new # None => local[r].new \in objects /\ \A f \in Events : photoKey[f] # local[r].new
  BY DEF PhotosInv, NewFlow, HasNew
<1>3. \A f \in Events : photoKey'[f] = IF f = e THEN local[r].new ELSE photoKey[f]
  BY DEF PhotosInv, PhotoRows
<1> QED
  BY <1>1, <1>2, <1>3 DEF PhotosInv, PhotoRows

\* A request whose row was refused will delete its object.
LEMMA GivesUp ==
    ASSUME RequestsInv, PhotosInv, NEW r \in Requests, pc[r] \in {"eventInsert", "eventWrite"},
           Goto(r, "dropNew"), local[r].new # None, OnlyPhotos, UNCHANGED <<photoState, lostKeys>>
    PROVE  PhotoStep(r)
<1>1. Moves(r) /\ pc'[r] = "dropNew" /\ input'[r] = input[r] /\ local'[r] = local[r]
  BY GotoIs DEF Steps, PhotoSteps, Ended
<1>2. photoKey' = photoKey /\ objects' = objects /\ events' = events
  BY DEF photoState
<1>3. NewFlow(r)' /\ OldFlow(r)'
  BY <1>1, <1>2 DEF PhotosInv, NewFlow, OldFlow, HasNew, Moves, Same
<1>4. \A q \in Requests \ {r} : NewFlow(q)' /\ OldFlow(q)'
  <2> TAKE q \in Requests \ {r}
  <2>1. pc[q] \in HasNew /\ local[q].new # None =>
            local[r].old # local[q].new /\ local[r].new # local[q].new
    BY DEF PhotosInv, NewFlow
  <2> QED
    BY <1>1, <1>2, <2>1, PhotoFlowKept
<1>5. PhotoRows'
  BY <1>2 DEF PhotosInv, PhotoRows
<1>6. Covered'
  <2>1. ASSUME NEW k \in objects, InHand(k) PROVE InHand(k)'
    <3>1. CASE Hand(r, k)
      BY <1>1, <3>1 DEF InHand, Hand, HasNew
    <3>2. CASE ~Hand(r, k)
      BY <1>1, <2>1, <3>2, OtherHand
    <3> QED
      BY <3>1, <3>2
  <2> QED
    BY <1>2, <2>1 DEF PhotosInv, Covered
<1> QED
  BY <1>1, <1>3, <1>4, <1>5, <1>6 DEF PhotoStep, PhotosInv, PhotoSteps

\* create inserts the row, or gives the object up.
LEMMA PhotoInsertIs ==
    ASSUME RequestsInv, PhotosInv, NEW r \in Requests, PhotoInsert(r)
    PROVE  PhotoStep(r)
<1> DEFINE e == In(r).event
<1>1. pc[r] = "eventInsert" /\ OnlyPhotos /\ UNCHANGED <<objects, lostKeys>>
  BY DEF PhotoInsert
<1>2. e \in Events
  BY <1>1 DEF PhotosInv, OldFlow
<1>3. CASE e \notin events /\ events' = events \cup {e} /\ Goto(r, "done")
           /\ photoKey' = [photoKey EXCEPT ![e] = local[r].new]
  <2>1. Moves(r) /\ pc'[r] = "done" /\ local'[r].old = None /\ local'[r].new = None
    BY <1>3, GotoIs DEF Steps, Ended, Fresh
  <2>2. NewFlow(r)' /\ OldFlow(r)'
    BY <2>1 DEF NewFlow, OldFlow, HasNew
  <2>3. PhotoRows'
    BY <1>1, <1>2, <1>3, <2>1, RowTakesKey DEF PhotosInv, PhotoRows
  <2>4. \A f \in Events : photoKey'[f] = IF f = e THEN local[r].new ELSE photoKey[f]
    BY <1>3 DEF PhotosInv, PhotoRows
  <2>5. \A q \in Requests \ {r} : NewFlow(q)' /\ OldFlow(q)'
    <3> TAKE q \in Requests \ {r}
    <3>1. local[r].new # None => local[q].old # local[r].new /\ local[q].new # local[r].new
      BY <1>1 DEF PhotosInv, NewFlow, HasNew
    <3> QED
      BY <1>1, <2>1, <2>4, <3>1, PhotoFlowKept
  <2>6. Covered'
    <3> SUFFICES ASSUME NEW k \in objects
                 PROVE  \/ \E f \in events' : photoKey'[f] = k
                        \/ k \in lostKeys \/ InHand(k)'
      BY <1>1 DEF Covered
    <3>1. CASE \E f \in events : photoKey[f] = k
      BY <1>3, <2>4, <3>1 DEF PhotosInv, PhotoRows
    <3>2. CASE Hand(r, k)
      <4>1. photoKey'[e] = k /\ e \in events'
        BY <1>1, <1>2, <1>3, <2>4, <3>2 DEF Hand
      <4> QED
        BY <4>1
    <3>3. CASE InHand(k) /\ ~Hand(r, k)
      BY <2>1, <3>3, OtherHand
    <3> QED
      BY <3>1, <3>2, <3>3 DEF PhotosInv, Covered
  <2> QED
    BY <1>1, <2>1, <2>2, <2>3, <2>5, <2>6 DEF PhotoStep, PhotosInv, PhotoSteps, Ended
<1>4. CASE local[r].new = None /\ Goto(r, "refused") /\ UNCHANGED <<events, photoKey>>
  <2>1. \A k \in objects : ~Hand(r, k)
    BY <1>1, <1>4, SetupAssumption DEF Hand, HasNew, PhotosInv, PhotoRows
  <2> QED
    BY <1>1, <1>4, <2>1, PhotoEnds DEF photoState, PhotoSteps, Ended
<1>5. CASE local[r].new # None /\ Goto(r, "dropNew") /\ UNCHANGED <<events, photoKey>>
  BY <1>1, <1>5, GivesUp DEF photoState
<1> QED
  BY <1>3, <1>4, <1>5 DEF PhotoInsert

\* update reads the key that it will replace.
LEMMA PhotoReadIs ==
    ASSUME RequestsInv, PhotosInv, NEW r \in Requests, PhotoRead(r)
    PROVE  PhotoStep(r)
<1> DEFINE e == In(r).event
           next == IF In(r).photo THEN "upload" ELSE "eventWrite"
           l == [local[r] EXCEPT !.old = photoKey[e]]
<1>1. pc[r] = "eventUpdate" /\ OnlyPhotos /\ UNCHANGED <<photoState, lostKeys>> /\ local[r] \in Locals
  BY DEF PhotoRead, RequestsInv
<1>2. local[r].new = None /\ \A k : ~Hand(r, k)
  BY <1>1 DEF RequestsInv, OpFlow, Ops, Hand, HasNew
<1>3. events' = events /\ photoKey' = photoKey /\ objects' = objects /\ lostKeys' = lostKeys
  BY <1>1 DEF photoState
<1>4. CASE e \in events
  <2>1. Step(r, next, l, {})
    BY <1>4 DEF PhotoRead
  <2>2. e \in Events /\ photoKey[e] \in Keys \cup {None}
    BY <1>4 DEF PhotosInv, PhotoRows
  <2>3. l \in Locals /\ l.old = photoKey[e] /\ l.new = None
    BY <1>1, <1>2, <2>2 DEF Locals
  <2>4. {} \in SUBSET Names /\ next \in Steps \ Ended /\ next \in {"upload", "eventWrite"}
    BY DEF Steps, PhotoSteps, Ended
  <2> HIDE DEF l, next
  <2>5. Moves(r) /\ pc'[r] = next /\ input'[r] = input[r] /\ local'[r] = l
    BY <2>1, <2>3, <2>4, StepIs
  <2>6. NewFlow(r)' /\ OldFlow(r)'
    <3>1. \A f \in Events \ {e} : photoKey[e] # None => photoKey[f] # photoKey[e]
      BY <2>2 DEF PhotosInv, PhotoRows
    <3> QED
      BY <1>3, <2>2, <2>3, <2>4, <2>5, <3>1 DEF NewFlow, OldFlow, In, HasNew
  <2>7. \A q \in Requests \ {r} : NewFlow(q)' /\ OldFlow(q)'
    <3> TAKE q \in Requests \ {r}
    <3>1. pc[q] \in HasNew /\ local[q].new # None => photoKey[e] # local[q].new
      BY <2>2 DEF PhotosInv, NewFlow
    <3> QED
      BY <1>3, <2>3, <2>5, <3>1, PhotoFlowKept
  <2>8. PhotoRows'
    BY <1>3 DEF PhotosInv, PhotoRows
  <2>9. Covered'
    <3>1. \A k \in objects : InHand(k) => InHand(k)'
      BY <1>2, <2>5, OtherHand
    <3> QED
      BY <1>3, <3>1 DEF PhotosInv, Covered
  <2> QED
    BY <1>1, <2>4, <2>5, <2>6, <2>7, <2>8, <2>9 DEF PhotoStep, PhotosInv, PhotoOps, PhotoSteps
<1>5. CASE e \notin events
  <2>1. Goto(r, "refused")
    BY <1>5 DEF PhotoRead
  <2> QED
    BY <1>1, <1>2, <2>1, PhotoEnds DEF photoState, PhotoOps, Ended
<1> QED
  BY <1>4, <1>5

\* ... uploads the new one ...
LEMMA PhotoUploadIs ==
    ASSUME RequestsInv, PhotosInv, NEW r \in Requests, PhotoUpload(r)
    PROVE  PhotoStep(r)
BY UploadIs DEF PhotoUpload

\* ... and writes the row, or gives the object up.
LEMMA PhotoWriteIs ==
    ASSUME RequestsInv, PhotosInv, NEW r \in Requests, PhotoWrite(r)
    PROVE  PhotoStep(r)
<1> DEFINE e == In(r).event
           lost == {photoKey[e]} \ {None, local[r].old}
           next == IF local[r].old = None THEN "done" ELSE "dropOld"
<1>1. pc[r] = "eventWrite" /\ OnlyPhotos /\ UNCHANGED <<events, objects>> /\ local[r] \in Locals
  BY DEF PhotoWrite, RequestsInv
<1>2. e \in Events /\ photoKey[e] \in Keys \cup {None}
  BY <1>1 DEF PhotosInv, OldFlow, PhotoRows
<1>3. CASE /\ e \in events /\ photoKey' = [photoKey EXCEPT ![e] = local[r].new]
           /\ lostKeys' = lostKeys \cup lost /\ Goto(r, next)
  <2>1. next \in Steps /\ next \in {"done", "dropOld"}
    BY DEF Steps, PhotoSteps, Ended
  <2>2. /\ Moves(r) /\ pc'[r] = next /\ local'[r].old \in {None, local[r].old}
        /\ local'[r].new \in {None, local[r].new}
        /\ next = "dropOld" => local'[r] = local[r] /\ local[r].old # None
        /\ next = "done" => local[r].old = None
    BY <1>3, <2>1, GotoIs DEF Ended, Fresh
  <2> HIDE DEF next
  <2>3. \A f \in Events : photoKey'[f] = IF f = e THEN local[r].new ELSE photoKey[f]
    BY <1>3 DEF PhotosInv, PhotoRows
  <2>4. lostKeys' \in SUBSET Keys
    BY <1>2, <1>3 DEF PhotosInv, PhotoRows
  <2>5. PhotoRows'
    BY <1>1, <1>2, <1>3, <2>2, <2>4, RowTakesKey
  <2>6. NewFlow(r)' /\ OldFlow(r)'
    <3>1. next = "dropOld" => \A f \in Events : photoKey'[f] # local[r].old
      <4> SUFFICES ASSUME next = "dropOld", NEW f \in Events PROVE photoKey'[f] # local[r].old
        OBVIOUS
      <4>1. local[r].old # None
        BY <2>2
      <4>2. f # e => photoKey[f] # local[r].old
        BY <1>1, <4>1 DEF PhotosInv, OldFlow
      <4>3. local[r].new # local[r].old
        BY <1>1, <4>1 DEF PhotosInv, NewFlow, HasNew
      <4> QED
        BY <2>3, <4>2, <4>3
    <3> QED
      BY <2>1, <2>2, <3>1 DEF NewFlow, OldFlow, HasNew
  <2>7. \A q \in Requests \ {r} : NewFlow(q)' /\ OldFlow(q)'
    <3> TAKE q \in Requests \ {r}
    <3>1. local[r].new # None => local[q].old # local[r].new /\ local[q].new # local[r].new
      BY <1>1 DEF PhotosInv, NewFlow, HasNew
    <3>2. pc[q] \in HasNew /\ local[q].new # None =>
              local[r].old # local[q].new /\ local[r].new # local[q].new
      BY DEF PhotosInv, NewFlow
    <3> QED
      BY <1>1, <2>2, <2>3, <3>1, <3>2, PhotoFlowKept
  <2>8. Covered'
    <3> SUFFICES ASSUME NEW k \in objects
                 PROVE  \/ \E f \in events' : photoKey'[f] = k
                        \/ k \in lostKeys' \/ InHand(k)'
      BY <1>1 DEF Covered
    <3>1. CASE \E f \in events : photoKey[f] = k
      <4>1. PICK f \in events : photoKey[f] = k
        BY <3>1
      <4>2. CASE f # e
        BY <1>1, <2>3, <4>1, <4>2 DEF PhotosInv, PhotoRows
      <4>3. CASE f = e /\ k = local[r].old
        <5>1. local[r].old # None
          BY <3>1, <4>3, SetupAssumption DEF PhotosInv, PhotoRows
        <5>2. Hand(r, k)'
          BY <2>1, <2>2, <4>3, <5>1 DEF Hand
        <5> QED
          BY <5>2 DEF InHand
      <4>4. CASE f = e /\ k # local[r].old
        <5>1. k # None
          BY SetupAssumption DEF PhotosInv, PhotoRows
        <5> QED
          BY <1>3, <4>1, <4>4, <5>1
      <4> QED
        BY <4>2, <4>3, <4>4
    <3>2. CASE Hand(r, k)
      <4>1. photoKey'[e] = k /\ e \in events'
        BY <1>1, <1>2, <1>3, <2>3, <3>2 DEF Hand
      <4> QED
        BY <4>1
    <3>3. CASE InHand(k) /\ ~Hand(r, k)
      BY <2>2, <3>3, OtherHand
    <3>4. CASE k \in lostKeys
      BY <1>3, <3>4
    <3> QED
      BY <3>1, <3>2, <3>3, <3>4 DEF PhotosInv, Covered
  <2> QED
    BY <1>1, <2>1, <2>2, <2>5, <2>6, <2>7, <2>8 DEF PhotoStep, PhotosInv, PhotoSteps, Ended
<1>4. CASE local[r].new = None /\ Goto(r, "refused") /\ UNCHANGED <<photoKey, lostKeys>>
  <2>1. \A k \in objects : ~Hand(r, k)
    BY <1>1, <1>4, SetupAssumption DEF Hand, HasNew, PhotosInv, PhotoRows
  <2> QED
    BY <1>1, <1>4, <2>1, PhotoEnds DEF photoState, PhotoSteps, Ended
<1>5. CASE local[r].new # None /\ Goto(r, "dropNew") /\ UNCHANGED <<photoKey, lostKeys>>
  BY <1>1, <1>5, GivesUp DEF photoState
<1> QED
  BY <1>3, <1>4, <1>5 DEF PhotoWrite

\* An object that no row names goes, or S3 keeps it.
LEMMA PhotoDropIs ==
    ASSUME RequestsInv, PhotosInv, NEW r \in Requests, PhotoDrop(r)
    PROVE  PhotoStep(r)
<1> DEFINE key == IF pc[r] = "dropOld" THEN local[r].old ELSE local[r].new
           next == IF pc[r] = "dropOld" THEN "done" ELSE "refused"
<1>1. /\ pc[r] \in {"dropOld", "dropNew"} /\ OnlyPhotos /\ UNCHANGED <<events, photoKey>>
      /\ Goto(r, next) /\ local[r] \in Locals
      /\ \/ objects' = objects \ {key} /\ lostKeys' = lostKeys
         \/ objects' = objects /\ lostKeys' = lostKeys \cup {key}
  BY DEF PhotoDrop, RequestsInv
<1>2. key # None /\ key \in Keys
  BY <1>1 DEF PhotosInv, OldFlow, Locals
<1>3. \A e \in Events : photoKey[e] # key
  BY <1>1, <1>2 DEF PhotosInv, OldFlow, NewFlow, HasNew
<1>4. \A q \in Requests \ {r} : pc[q] \in HasNew /\ local[q].new # None => local[q].new # key
  BY <1>1, <1>2 DEF PhotosInv, OldFlow, NewFlow, HasNew
<1>5. next \in Steps /\ next \in Ended
  BY DEF Steps, Ended
<1>6. \A k : Hand(r, k) => k = key
  BY <1>1 DEF Hand, HasNew
<1> HIDE DEF key, next
<1>7. Moves(r) /\ pc'[r] = next /\ local'[r].old = None /\ local'[r].new = None
  BY <1>1, <1>5, GotoIs DEF Fresh
<1>8. NewFlow(r)' /\ OldFlow(r)'
  BY <1>5, <1>7 DEF NewFlow, OldFlow, HasNew, Ended
<1>9. \A q \in Requests \ {r} : NewFlow(q)' /\ OldFlow(q)'
  <2> TAKE q \in Requests \ {r}
  <2> QED
    BY <1>1, <1>4, <1>7, PhotoFlowKept
<1>10. PhotoRows'
  BY <1>1, <1>2, <1>3 DEF PhotosInv, PhotoRows
<1>11. Covered'
  <2> SUFFICES ASSUME NEW k \in objects'
               PROVE  \/ \E f \in events' : photoKey'[f] = k
                      \/ k \in lostKeys' \/ InHand(k)'
    BY DEF Covered
  <2>1. k \in objects /\ (k = key => k \in lostKeys')
    BY <1>1
  <2>2. k # key /\ InHand(k) => InHand(k)'
    BY <1>6, <1>7, OtherHand
  <2>3. lostKeys \subseteq lostKeys' /\ photoKey' = photoKey /\ events' = events
    BY <1>1
  <2> QED
    BY <2>1, <2>2, <2>3 DEF PhotosInv, Covered
<1> QED
  BY <1>1, <1>5, <1>7, <1>8, <1>9, <1>10, <1>11 DEF PhotoStep, PhotosInv, PhotoSteps

\* remove takes the row, and the object it named into the request's hands.
LEMMA PhotoRemoveIs ==
    ASSUME RequestsInv, PhotosInv, NEW r \in Requests, PhotoRemove(r)
    PROVE  PhotoStep(r)
<1> DEFINE e == In(r).event
           next == IF photoKey[e] = None THEN "done" ELSE "dropOld"
           l == [local[r] EXCEPT !.old = photoKey[e]]
<1>1. pc[r] = "eventRemove" /\ OnlyPhotos /\ UNCHANGED <<objects, lostKeys>> /\ local[r] \in Locals
  BY DEF PhotoRemove, DeleteEvent, RequestsInv
<1>2. local[r].new = None /\ \A k : ~Hand(r, k)
  BY <1>1 DEF RequestsInv, OpFlow, Ops, Hand, HasNew
<1>3. CASE e \in events
  <2>1. /\ events' = events \ {e} /\ photoKey' = [photoKey EXCEPT ![e] = None]
        /\ Step(r, next, l, {})
    BY <1>3 DEF PhotoRemove, DeleteEvent
  <2>2. e \in Events /\ photoKey[e] \in Keys \cup {None}
    BY <1>3 DEF PhotosInv, PhotoRows
  <2>3. l \in Locals /\ l.old = photoKey[e] /\ l.new = None
    BY <1>1, <1>2, <2>2 DEF Locals
  <2>4. {} \in SUBSET Names /\ next \in Steps /\ next \in {"done", "dropOld"}
    BY DEF Steps, PhotoSteps, Ended
  <2>5. (next = "done" /\ photoKey[e] = None) \/ (next = "dropOld" /\ photoKey[e] # None)
    OBVIOUS
  <2> HIDE DEF l, next
  <2>6. /\ Moves(r) /\ pc'[r] = next /\ local'[r].new = None
        /\ local'[r].old = photoKey[e]
    BY <2>1, <2>3, <2>4, <2>5, StepIs DEF Ended, Fresh
  <2>7. \A f \in Events : photoKey'[f] = IF f = e THEN None ELSE photoKey[f]
    BY <2>1 DEF PhotosInv, PhotoRows
  <2>8. PhotoRows'
    BY <1>1, <2>1, <2>2, <2>7 DEF PhotosInv, PhotoRows
  <2>9. NewFlow(r)' /\ OldFlow(r)'
    <3>1. photoKey[e] # None => \A f \in Events : photoKey'[f] # photoKey[e]
      BY <2>2, <2>7 DEF PhotosInv, PhotoRows
    <3> QED
      BY <2>5, <2>6, <3>1 DEF NewFlow, OldFlow, HasNew
  <2>10. \A q \in Requests \ {r} : NewFlow(q)' /\ OldFlow(q)'
    <3> TAKE q \in Requests \ {r}
    <3>1. pc[q] \in HasNew /\ local[q].new # None => photoKey[e] # local[q].new
      BY <2>2 DEF PhotosInv, NewFlow
    <3> QED
      BY <1>1, <2>6, <2>7, <3>1, PhotoFlowKept
  <2>11. Covered'
    <3> SUFFICES ASSUME NEW k \in objects
                 PROVE  \/ \E f \in events' : photoKey'[f] = k
                        \/ k \in lostKeys \/ InHand(k)'
      BY <1>1 DEF Covered
    <3>1. k # None
      BY SetupAssumption DEF PhotosInv, PhotoRows
    <3>2. InHand(k) => InHand(k)'
      BY <1>2, <2>6, OtherHand
    <3>3. CASE \E f \in events : photoKey[f] = k
      <4>1. PICK f \in events : photoKey[f] = k
        BY <3>3
      <4>2. CASE f # e
        BY <2>1, <2>7, <4>1, <4>2 DEF PhotosInv, PhotoRows
      <4>3. CASE f = e
        <5>1. Hand(r, k)'
          BY <2>5, <2>6, <3>1, <4>1, <4>3 DEF Hand
        <5> QED
          BY <5>1 DEF InHand
      <4> QED
        BY <4>2, <4>3
    <3> QED
      BY <3>2, <3>3 DEF PhotosInv, Covered
  <2> QED
    BY <1>1, <2>4, <2>6, <2>8, <2>9, <2>10, <2>11 DEF PhotoStep, PhotosInv, PhotoOps, PhotoSteps, Ended
<1>4. CASE e \notin events
  <2>1. Goto(r, "refused") /\ UNCHANGED <<events, photoKey>>
    BY <1>4 DEF PhotoRemove, DeleteEvent
  <2> QED
    BY <1>1, <1>2, <2>1, PhotoEnds DEF photoState, PhotoOps, Ended
<1> QED
  BY <1>3, <1>4

\* The process ends: what the request held is lost, unless a row names it.
LEMMA PhotoCrashIs ==
    ASSUME RequestsInv, PhotosInv, NEW r \in Requests, PhotoCrash(r)
    PROVE  PhotoStep(r)
<1> DEFINE held == {local[r].old, local[r].new} \ {None}
           named == {photoKey[e] : e \in events}
<1>1. /\ pc[r] \in {"eventInsert", "eventWrite", "dropOld", "dropNew"} /\ OnlyPhotos
      /\ lostKeys' = lostKeys \cup (held \ named) /\ Goto(r, "crashed")
      /\ UNCHANGED photoState /\ local[r] \in Locals
  BY DEF PhotoCrash, RequestsInv
<1>2. events' = events /\ photoKey' = photoKey /\ objects' = objects
  BY <1>1 DEF photoState
<1>3. Moves(r) /\ pc'[r] = "crashed" /\ local'[r].old = None /\ local'[r].new = None
  BY <1>1, GotoIs DEF Steps, Ended, Fresh
<1>4. NewFlow(r)' /\ OldFlow(r)'
  BY <1>3 DEF NewFlow, OldFlow, HasNew
<1>5. \A q \in Requests \ {r} : NewFlow(q)' /\ OldFlow(q)'
  <2> TAKE q \in Requests \ {r}
  <2> QED
    BY <1>2, <1>3, PhotoFlowKept
<1>6. PhotoRows'
  <2>1. held \subseteq Keys
    BY <1>1 DEF Locals
  <2> QED
    BY <1>1, <1>2, <2>1 DEF PhotosInv, PhotoRows
<1>7. Covered'
  <2> SUFFICES ASSUME NEW k \in objects
               PROVE  \/ \E f \in events : photoKey[f] = k
                      \/ k \in lostKeys' \/ InHand(k)'
    BY <1>2 DEF Covered
  <2>1. k # None
    BY SetupAssumption DEF PhotosInv, PhotoRows
  <2>2. CASE Hand(r, k)
    <3>1. k \in held
      BY <2>1, <2>2 DEF Hand
    <3> QED
      BY <1>1, <3>1
  <2>3. CASE InHand(k) /\ ~Hand(r, k)
    BY <1>3, <2>3, OtherHand
  <2> QED
    BY <1>1, <2>2, <2>3 DEF PhotosInv, Covered
<1> QED
  BY <1>1, <1>3, <1>4, <1>5, <1>6, <1>7 DEF PhotoStep, PhotosInv, PhotoSteps, Ended

-----------------------------------------------------------------------------
(* The monthly report.                                                     *)

ReportOps == {"attrCreate", "attrUpdate", "report"}
ReportStep(r) ==
    /\ Moves(r) /\ KeysKept(r) /\ pc[r] \in ReportOps \cup ReportSteps
    /\ pc'[r] \in ReportSteps \cup Ended
    /\ OnlyReports /\ attrs' \subseteq Attrs
    /\ ReportsInv'

\* The other reports know what they knew, and what has changed meanwhile.
LEMMA ReportFlowKept ==
    ASSUME ReportsInv, NEW r \in Requests, Moves(r),
           \A a \in Attrs : bbi[a] # "none" => bbi'[a] # "none",
           \A a \in untold' \ untold : bbi[a] = "none" \/ Crosses(r, {a})
    PROVE  \A q \in Requests \ {r} : ReportFlow(q)'
<1> SUFFICES ASSUME NEW q \in Requests \ {r}, pc'[q] \in ReportSteps PROVE ReportFlow(q)'
  BY DEF ReportFlow, ReportSteps
<1>1. ReportFlow(q) /\ Same(q)
  BY DEF ReportsInv, Moves
<1>2. /\ pc'[q] = pc[q] /\ local'[q].listed = local[q].listed
      /\ local[q].crossed \subseteq local'[q].crossed /\ local'[q].listed \subseteq Attrs
  BY <1>1 DEF Same, Moves, Locals
<1>3. \A a \in untold' \ untold : bbi[a] = "none" \/ a \in local'[q].crossed
  BY <1>2 DEF Crosses, ReportSteps, Ended
<1> QED
  BY <1>1, <1>2, <1>3 DEF ReportFlow, ReportSteps

\* A new attribute waits for the next report.
LEMMA AttrCreateIs ==
    ASSUME RequestsInv, ReportsInv, NEW r \in Requests, AttrCreate(r)
    PROVE  ReportStep(r)
<1> DEFINE a == In(r).attr
<1>1. /\ pc[r] = "attrCreate" /\ bbi[a] = "none" /\ OnlyReports /\ Goto(r, "done")
      /\ attrs' = attrs \cup {a} /\ bbi' = [bbi EXCEPT ![a] = "new"]
      /\ untold' = untold \cup {a} /\ UNCHANGED <<reported, racedReports>>
  BY DEF AttrCreate
<1>2. a \in Attrs
  BY <1>1, InputsAssumption DEF RequestsInv, OpFlow, Ops
<1> HIDE DEF a
<1>3. ReportRows' /\ ChangesReported'
  BY <1>1, <1>2 DEF ReportsInv, ReportRows, ChangesReported
<1>4. Moves(r) /\ pc'[r] = "done" /\ local'[r] = Fresh
  BY <1>1, GotoIs DEF Steps, Ended
<1>5. (\A q \in Requests \ {r} : ReportFlow(q)') /\ ReportFlow(r)'
  BY <1>1, <1>2, <1>4, ReportFlowKept DEF ReportFlow, ReportSteps, ReportsInv, ReportRows
<1> QED
  BY <1>1, <1>2, <1>3, <1>4, <1>5, GotoKeeps
     DEF ReportStep, ReportsInv, ReportRows, ReportOps, Ended

\* A changed one does too, and the reports under way know it.
LEMMA AttrUpdateIs ==
    ASSUME RequestsInv, ReportsInv, NEW r \in Requests, AttrUpdate(r)
    PROVE  ReportStep(r)
<1> DEFINE a == In(r).attr
<1>1. /\ pc[r] = "attrUpdate" /\ a \in attrs /\ OnlyReports /\ Step(r, "done", local[r], {a})
      /\ bbi' = [bbi EXCEPT ![a] = IF @ = "new" THEN "new" ELSE "modified"]
      /\ untold' = untold \cup {a} /\ UNCHANGED <<attrs, reported, racedReports>>
      /\ local[r] \in Locals
  BY DEF AttrUpdate, RequestsInv
<1>2. a \in Attrs
  BY <1>1 DEF ReportsInv, ReportRows
<1> HIDE DEF a
<1>3. ReportRows' /\ ChangesReported'
  BY <1>1, <1>2 DEF ReportsInv, ReportRows, ChangesReported
<1>4. {a} \in SUBSET Names /\ "done" \in Steps
  BY <1>2 DEF Names, Steps, Ended
<1>5. Moves(r) /\ pc'[r] = "done" /\ local'[r] = Fresh /\ Crosses(r, {a})
  BY <1>1, <1>4, StepIs DEF Ended
<1>6. (\A q \in Requests \ {r} : ReportFlow(q)') /\ ReportFlow(r)'
  BY <1>1, <1>2, <1>5, ReportFlowKept DEF ReportFlow, ReportSteps, ReportsInv, ReportRows
<1> QED
  BY <1>1, <1>3, <1>5, <1>6, GotoKeeps DEF ReportStep, ReportsInv, ReportRows, ReportOps, Ended

\* The report lists attributes that exist ...
LEMMA ReportReadIs ==
    ASSUME RequestsInv, ReportsInv, NEW r \in Requests, ReportRead(r)
    PROVE  ReportStep(r)
<1> DEFINE pending == {a \in attrs : bbi[a] # "sent"}
<1>1. /\ pc[r] = "report" /\ OnlyReports /\ UNCHANGED <<attrs, reportState>> /\ local[r] \in Locals
  BY DEF ReportRead, RequestsInv
<1>2. ReportRows' /\ ChangesReported'
  BY <1>1 DEF ReportsInv, ReportRows, ChangesReported, reportState
<1>3. CASE reported /\ pending = {}
  <2>1. Goto(r, "done")
    BY <1>3 DEF ReportRead
  <2>2. Moves(r) /\ pc'[r] = "done" /\ local'[r] = Fresh
    BY <2>1, GotoIs DEF Steps, Ended
  <2>3. (\A q \in Requests \ {r} : ReportFlow(q)') /\ ReportFlow(r)'
    BY <1>1, <2>2, ReportFlowKept DEF ReportFlow, ReportSteps, reportState
  <2> QED
    BY <1>1, <1>2, <2>2, <2>3, GotoKeeps DEF ReportStep, ReportsInv, ReportRows, ReportOps, Ended
<1>4. CASE ~(reported /\ pending = {})
  <2> DEFINE l == [local[r] EXCEPT !.listed = pending, !.crossed = {}]
  <2>1. Step(r, "reportMail", l, {})
    BY <1>4 DEF ReportRead
  <2>2. pending \subseteq Attrs /\ \A a \in pending : bbi[a] # "none"
    BY DEF ReportsInv, ReportRows
  <2>3. /\ l \in Locals /\ l.listed = pending /\ l.old = local[r].old /\ l.new = local[r].new
        /\ {} \in SUBSET Names /\ "reportMail" \in Steps
    BY <1>1, <2>2 DEF Locals, Steps, ReportSteps
  <2> HIDE DEF l, pending
  <2>4. Moves(r) /\ pc'[r] = "reportMail" /\ local'[r] = l
    BY <2>1, <2>3, StepIs DEF Ended
  <2>5. (\A q \in Requests \ {r} : ReportFlow(q)') /\ ReportFlow(r)'
    BY <1>1, <2>2, <2>3, <2>4, ReportFlowKept DEF ReportFlow, ReportSteps, reportState
  <2> QED
    BY <1>1, <1>2, <2>3, <2>4, <2>5, GotoKeeps
       DEF ReportStep, ReportsInv, ReportRows, ReportOps, ReportSteps
<1> QED
  BY <1>3, <1>4

\* ... mails them, but for what has changed since, ...
LEMMA ReportMailIs ==
    ASSUME RequestsInv, ReportsInv, NEW r \in Requests, ReportMail(r)
    PROVE  ReportStep(r)
<1>1. /\ pc[r] = "reportMail" /\ OnlyReports /\ UNCHANGED <<attrs, bbi, reported, racedReports>>
  BY DEF ReportMail
<1>2. untold' \subseteq untold
  BY DEF ReportMail
<1>3. ReportRows' /\ ChangesReported'
  BY <1>1, <1>2 DEF ReportsInv, ReportRows, ChangesReported
<1>4. ReportFlow(r)
  BY DEF ReportsInv
<1>5. CASE untold' = untold \ (local[r].listed \ local[r].crossed) /\ Goto(r, "reportMark")
  <2>1. Moves(r) /\ pc'[r] = "reportMark" /\ local'[r] = local[r]
    BY <1>5, GotoIs DEF Steps, ReportSteps, Ended
  <2>2. (\A q \in Requests \ {r} : ReportFlow(q)') /\ ReportFlow(r)'
    BY <1>1, <1>2, <1>4, <1>5, <2>1, ReportFlowKept DEF ReportFlow, ReportSteps
  <2> QED
    BY <1>1, <1>3, <2>1, <2>2, GotoKeeps DEF ReportStep, ReportsInv, ReportRows, ReportSteps
<1>6. CASE Goto(r, "refused")
  <2>1. Moves(r) /\ pc'[r] = "refused" /\ local'[r] = Fresh
    BY <1>6, GotoIs DEF Steps, Ended
  <2>2. (\A q \in Requests \ {r} : ReportFlow(q)') /\ ReportFlow(r)'
    BY <1>1, <1>2, <2>1, ReportFlowKept DEF ReportFlow, ReportSteps
  <2> QED
    BY <1>1, <1>3, <2>1, <2>2, GotoKeeps DEF ReportStep, ReportsInv, ReportRows, ReportSteps, Ended
<1> QED
  BY <1>5, <1>6 DEF ReportMail

\* ... and marks them: what it marks unmailed has changed since it was read.
LEMMA ReportMarkIs ==
    ASSUME RequestsInv, ReportsInv, NEW r \in Requests, ReportMark(r)
    PROVE  ReportStep(r)
<1>1. PICK mark \in {"sent", "modified"} :
         /\ pc[r] = "reportMark" /\ OnlyReports /\ UNCHANGED <<attrs, untold>> /\ Goto(r, "done")
         /\ bbi' = [a \in Attrs |-> IF a \in local[r].listed \cap attrs THEN mark ELSE bbi[a]]
         /\ reported' = TRUE
         /\ racedReports' = racedReports \cup (local[r].crossed \cap local[r].listed)
  BY DEF ReportMark, MarkSent
<1>2. local[r].listed \cap untold \subseteq local[r].crossed
  BY <1>1 DEF ReportsInv, ReportFlow
<1>3. ReportRows'
  BY <1>1 DEF ReportsInv, ReportRows
<1>4. ChangesReported'
  <2> SUFFICES ASSUME NEW a \in attrs \cap untold PROVE bbi'[a] # "sent" \/ a \in racedReports'
    BY <1>1 DEF ChangesReported
  <2>1. CASE a \in local[r].listed
    BY <1>1, <1>2, <2>1
  <2>2. CASE a \notin local[r].listed
    BY <1>1, <2>2 DEF ReportsInv, ReportRows, ChangesReported
  <2> QED
    BY <2>1, <2>2
<1>5. Moves(r) /\ pc'[r] = "done" /\ local'[r] = Fresh
  BY <1>1, GotoIs DEF Steps, Ended
<1>6. (\A q \in Requests \ {r} : ReportFlow(q)') /\ ReportFlow(r)'
  BY <1>1, <1>5, ReportFlowKept DEF ReportFlow, ReportSteps
<1> QED
  BY <1>1, <1>3, <1>4, <1>5, <1>6, GotoKeeps
     DEF ReportStep, ReportsInv, ReportRows, ReportSteps, Ended

-----------------------------------------------------------------------------
(* The invariant.                                                          *)

\* It holds of the event at the start.
LEMMA InitSetupInv == Init => SetupInv
<1> SUFFICES ASSUME Init PROVE SetupInv
  OBVIOUS
<1>1. /\ pc = [r \in Requests |-> "idle"] /\ input = [r \in Requests |-> Nothing]
      /\ local = [r \in Requests |-> Fresh]
      /\ mailRow = [m \in Templates |-> NoMail] /\ place = [m \in Templates |-> 0]
      /\ eventLock = None
      /\ mailLock = [m \in Templates |-> None] /\ draft = [m \in Templates |-> 0]
      /\ mixed = {} /\ lastList = << >> /\ lostKeys = {} /\ reported = TRUE
  BY DEF Init
<1>2. PICK s \in Start :
        /\ attrs = s.attrs
        /\ bbi = [a \in Attrs |-> IF a \in s.attributes THEN "sent"
                                  ELSE IF a \in s.attrs THEN "new" ELSE "none"]
        /\ untold = s.attrs \ s.attributes
        /\ forms = s.forms /\ usedForms = s.forms /\ registerForm = s.first
        /\ formRow = [f \in Forms |->
              [NoForm EXCEPT !.attributes = Once(IF f \in s.forms THEN s.attributes ELSE {})]]
        /\ wanted = [f \in Forms |-> IF f \in s.forms THEN s.attributes ELSE {}]
        /\ wantedFirst = s.first
        /\ templates = s.templates /\ usedMails = s.templates
        /\ events = s.events
        /\ photoKey = [e \in Events |-> IF e \in s.events THEN s.key ELSE None]
        /\ objects = {s.key} \ {None}
  BY DEF Init
<1>3. /\ s.attrs \subseteq Attrs /\ s.attributes \subseteq s.attrs
      /\ s.forms \subseteq Forms /\ s.first \in s.forms \cup {None}
      /\ s.templates \subseteq Templates /\ s.events \subseteq Events
      /\ s.key \in Keys \cup {None}
      /\ s.key # None => \E e \in Events : s.events = {e}
  BY StartAssumption
<1>4. Nothing \in Input /\ Fresh \in Locals /\ Fresh.new = None /\ Fresh.next = 1
  BY DEF Nothing, Input, Ops, Fresh, Locals
<1>5. RequestsInv
  BY <1>1, <1>4 DEF RequestsInv, OpFlow, Steps, Ops
<1>6. FormsInv
  <2>1. \A S : Once(S) \in [Attrs -> 0..MaxRows]
    BY SetupAssumption DEF Once
  <2>2. ASSUME NEW f \in Forms
        PROVE  /\ formRow[f] \in FormRow
               /\ formRow[f].attributes = Once(wanted[f])
    <3>1. formRow[f] = [NoForm EXCEPT !.attributes = Once(IF f \in s.forms THEN s.attributes ELSE {})]
      BY <1>2
    <3>2. NoForm \in FormRow
      BY <2>1 DEF NoForm, FormRow, Conditions
    <3> QED
      BY <1>2, <2>1, <3>1, <3>2 DEF FormRow
  <2>3. FormRows
    <3>1. formRow \in [Forms -> FormRow]
      BY <1>2, <2>2
    <3> QED
      BY <1>1, <1>2, <1>3, <3>1 DEF FormRows
  <2>4. FormsUnlessRaced
    BY <1>2, <1>3, <2>2 DEF FormsUnlessRaced, DefinitionsUnlessRaced, RegisterUnlessRaced
  <2> QED
    BY <1>1, <2>3, <2>4 DEF FormsInv, FormFlow, FormSteps, UpdateSteps
<1>7. MailsInv
  <2>1. NoMail \in MailRow /\ NoMail.about = None
        /\ NoMail.trigger = "PARTICIPANT_REGISTERED"
    BY DEF NoMail, MailRow, Triggers
  <2>2. MailRows /\ ConfigFitsTrigger /\ ReorderWhole
    BY <1>1, <1>2, <1>3, <2>1 DEF MailRows, ConfigFitsTrigger, ReorderWhole
  <2> QED
    BY <1>1, <2>2 DEF MailsInv, MailFlow
<1>8. PhotosInv
  <2>1. PhotoRows
    BY <1>1, <1>2, <1>3 DEF PhotoRows
  <2>2. Covered
    <3> SUFFICES ASSUME NEW k \in objects PROVE \E e \in events : photoKey[e] = k
      BY DEF Covered
    <3>1. k = s.key /\ s.key # None
      BY <1>2
    <3> QED
      BY <1>2, <1>3, <3>1
  <2> QED
    BY <1>1, <2>1, <2>2 DEF PhotosInv, NewFlow, OldFlow, HasNew
<1>9. ReportsInv
  BY <1>1, <1>2, <1>3 DEF ReportsInv, ReportRows, ChangesReported, ReportFlow, ReportSteps
<1> QED
  BY <1>5, <1>6, <1>7, <1>8, <1>9 DEF SetupInv

\* Every action belongs to one of the four parts, or begins a request.
LEMMA ActionIs ==
    ASSUME SetupInv, Next
    PROVE  \E r \in Requests :
              \/ \E in \in Inputs[r] : Begin(r, in)
              \/ FormStep(r) \/ MailStep(r) \/ PhotoStep(r) \/ ReportStep(r)
<1> USE DEF SetupInv
<1>1. PICK r \in Requests :
        \/ \E in \in Inputs[r] : Begin(r, in)
        \/ FormCreate(r) \/ FormDuplicate(r) \/ FormUpdate(r) \/ FormFirst(r)
        \/ FormClear(r) \/ FormCommit(r) \/ FormRemove(r) \/ RemoveFirst(r)
        \/ RemoveForm(r) \/ AttrRemove(r)
        \/ MailCreate(r) \/ MailInsert(r) \/ MailDuplicate(r) \/ MailUpdate(r)
        \/ MailWrite(r) \/ MailRemove(r)
        \/ ReorderCount(r) \/ ReorderRow(r) \/ ReorderCommit(r) \/ ReorderDeadlock(r)
        \/ PhotoCreate(r) \/ PhotoInsert(r) \/ PhotoRead(r) \/ PhotoUpload(r)
        \/ PhotoWrite(r) \/ PhotoDrop(r) \/ PhotoRemove(r) \/ PhotoCrash(r)
        \/ AttrCreate(r) \/ AttrUpdate(r)
        \/ ReportRead(r) \/ ReportMail(r) \/ ReportMark(r)
  BY DEF Next
<1>2. CASE \/ FormCreate(r) \/ FormDuplicate(r) \/ FormUpdate(r) \/ FormFirst(r)
           \/ FormClear(r) \/ FormCommit(r) \/ FormRemove(r) \/ RemoveFirst(r)
           \/ RemoveForm(r) \/ AttrRemove(r)
  BY <1>2, FormCreateIs, FormDuplicateIs, FormUpdateIs, FormFirstIs, FormClearIs, FormCommitIs,
     FormRemoveIs, RemoveFirstIs, RemoveFormIs, AttrRemoveIs
<1>3. CASE \/ MailCreate(r) \/ MailInsert(r) \/ MailDuplicate(r) \/ MailUpdate(r)
           \/ MailWrite(r) \/ MailRemove(r)
  BY <1>3, MailCreateIs, MailInsertIs, MailDuplicateIs, MailUpdateIs, MailWriteIs, MailRemoveIs
<1>4. CASE ReorderCount(r) \/ ReorderRow(r) \/ ReorderCommit(r) \/ ReorderDeadlock(r)
  BY <1>4, ReorderCountIs, ReorderRowIs, ReorderCommitIs, ReorderDeadlockIs
<1>5. CASE \/ PhotoCreate(r) \/ PhotoInsert(r) \/ PhotoRead(r) \/ PhotoUpload(r)
           \/ PhotoWrite(r) \/ PhotoDrop(r) \/ PhotoRemove(r) \/ PhotoCrash(r)
  BY <1>5, PhotoCreateIs, PhotoInsertIs, PhotoReadIs, PhotoUploadIs, PhotoWriteIs, PhotoDropIs,
     PhotoRemoveIs, PhotoCrashIs
<1>6. CASE \/ AttrCreate(r) \/ AttrUpdate(r)
           \/ ReportRead(r) \/ ReportMail(r) \/ ReportMark(r)
  BY <1>6, AttrCreateIs, AttrUpdateIs, ReportReadIs, ReportMailIs, ReportMarkIs
<1> QED
  BY <1>1, <1>2, <1>3, <1>4, <1>5, <1>6

\* A step of one part keeps the invariants of the others.
LEMMA SetupInductive == SetupInv /\ [Next]_vars => SetupInv'
<1> SUFFICES ASSUME SetupInv, [Next]_vars PROVE SetupInv'
  OBVIOUS
<1> USE DEF SetupInv
<1>1. ASSUME NEW r \in Requests, NEW in \in Inputs[r], Begin(r, in) PROVE SetupInv'
  <2>1. /\ RequestsInv' /\ Moves(r) /\ pc[r] = "idle" /\ pc'[r] \in Ops /\ local' = local
        /\ UNCHANGED <<formState, mailState, photoState, formHistory, mailHistory, lostKeys,
                       reportState>>
    BY <1>1, BeginIs
  <2>2. KeysKept(r) /\ pc[r] \notin PhotoSteps
    BY <2>1 DEF KeysKept, PhotoSteps
  <2>3. pc'[r] \notin FormSteps \cup MailSteps \cup PhotoSteps \cup ReportSteps
    BY <2>1 DEF Ops, FormSteps, UpdateSteps, MailSteps, PhotoSteps, ReportSteps
  <2>4. FormsInv'
    BY <2>1, <2>3, FormsKept DEF formState, FormsInv, FormRows
  <2>5. MailsInv' /\ PhotosInv'
    BY <2>1, <2>2, <2>3, MailsKept, PhotosKept
  <2>6. ReportsInv'
    BY <2>1, <2>3, ReportsKept DEF formState
  <2> QED
    BY <2>1, <2>4, <2>5, <2>6
<1>2. ASSUME NEW r \in Requests, FormStep(r) PROVE SetupInv'
  <2>1. /\ pc[r] \notin PhotoSteps
        /\ pc'[r] \notin Ops \cup {"idle"} \cup MailSteps \cup PhotoSteps \cup ReportSteps
    BY <1>2 DEF FormStep, FormOps, Ops, FormSteps, UpdateSteps, MailSteps, PhotoSteps,
           ReportSteps, Ended
  <2>2. RequestsInv' /\ MailsInv' /\ PhotosInv' /\ ReportsInv'
    BY <1>2, <2>1, RequestsKept, MailsKept, PhotosKept, ReportsKept DEF FormStep, OnlyForms
  <2> QED
    BY <1>2, <2>2 DEF FormStep
<1>3. ASSUME NEW r \in Requests, MailStep(r) PROVE SetupInv'
  <2>1. /\ pc[r] \notin PhotoSteps
        /\ pc'[r] \notin Ops \cup {"idle"} \cup FormSteps \cup PhotoSteps \cup ReportSteps
    BY <1>3 DEF MailStep, MailOps, Ops, FormSteps, UpdateSteps, MailSteps, PhotoSteps,
           ReportSteps, Ended
  <2>2. RequestsInv' /\ PhotosInv'
    BY <1>3, <2>1, RequestsKept, PhotosKept DEF MailStep, OnlyMails
  <2>3. FormsInv' /\ ReportsInv'
    BY <1>3, <2>1, FormsKept, ReportsKept DEF MailStep, OnlyMails, formState, FormsInv, FormRows
  <2> QED
    BY <1>3, <2>2, <2>3 DEF MailStep
<1>4. ASSUME NEW r \in Requests, PhotoStep(r) PROVE SetupInv'
  <2>1. pc'[r] \notin Ops \cup {"idle"} \cup FormSteps \cup MailSteps \cup ReportSteps
    BY <1>4 DEF PhotoStep, Ops, FormSteps, UpdateSteps, MailSteps, PhotoSteps,
           ReportSteps, Ended
  <2>2. RequestsInv' /\ MailsInv'
    BY <1>4, <2>1, RequestsKept, MailsKept DEF PhotoStep, OnlyPhotos
  <2>3. FormsInv' /\ ReportsInv'
    BY <1>4, <2>1, FormsKept, ReportsKept DEF PhotoStep, OnlyPhotos, formState, FormsInv, FormRows
  <2> QED
    BY <1>4, <2>2, <2>3 DEF PhotoStep
<1>5. ASSUME NEW r \in Requests, ReportStep(r) PROVE SetupInv'
  <2>1. /\ pc[r] \notin PhotoSteps
        /\ pc'[r] \notin Ops \cup {"idle"} \cup FormSteps \cup MailSteps \cup PhotoSteps
    BY <1>5 DEF ReportStep, ReportOps, Ops, FormSteps, UpdateSteps, MailSteps, PhotoSteps,
           ReportSteps, Ended
  <2>2. RequestsInv' /\ MailsInv' /\ PhotosInv' /\ FormsInv'
    BY <1>5, <2>1, RequestsKept, MailsKept, PhotosKept, FormsKept DEF ReportStep, OnlyReports
  <2> QED
    BY <1>5, <2>2 DEF ReportStep
<1>6. CASE UNCHANGED vars
  <2> USE <1>6 DEF vars, formState, mailState, photoState, reportState, requests, formHistory,
                   mailHistory
  <2>1. RequestsInv'
    BY DEF RequestsInv, OpFlow, In
  <2>2. FormsInv'
    BY DEF FormsInv, FormRows, FormFlow, FormsUnlessRaced, DefinitionsUnlessRaced,
           RegisterUnlessRaced, Once, In
  <2>3. MailsInv'
    BY DEF MailsInv, MailRows, MailFlow, ConfigFitsTrigger, ReorderWhole, In, New, Value, Fits
  <2>4. PhotosInv'
    BY DEF PhotosInv, PhotoRows, NewFlow, OldFlow, Covered, InHand, Hand, In
  <2>5. ReportsInv'
    BY DEF ReportsInv, ReportRows, ReportFlow, ChangesReported
  <2> QED
    BY <2>1, <2>2, <2>3, <2>4, <2>5
<1> QED
  BY <1>1, <1>2, <1>3, <1>4, <1>5, <1>6, ActionIs

\* The inductive invariant: requests, forms, mails, photos and reports.
THEOREM SetupInvariant == Spec => []SetupInv
BY InitSetupInv, SetupInductive, PTL DEF Spec

\* Rows of forms, mails and events and what requests carry keep their types; the
\* form that registers is one that exists, whatever is removed meanwhile.
THEOREM SetupTypes == Spec => []TypeOK
<1>1. SetupInv => TypeOK
  BY DEF SetupInv, RequestsInv, FormsInv, FormRows, MailsInv, MailRows, PhotosInv, PhotoRows,
         ReportsInv, ReportRows, TypeOK
<1> QED
  BY <1>1, SetupInvariant, PTL

\* A form has the attributes of the last update, and the form that registers is
\* the one last asked for, unless such requests overlapped (forms.service.ts:448).
THEOREM FormsAreExplained == Spec => []FormsUnlessRaced
<1>1. SetupInv => FormsUnlessRaced
  BY DEF SetupInv, FormsInv
<1> QED
  BY <1>1, SetupInvariant, PTL

\* A template's config is about what triggers it, unless two of its updates
\* overlapped (email-templates.service.ts:242).
THEOREM ConfigsFit == Spec => []ConfigFitsTrigger
<1>1. SetupInv => ConfigFitsTrigger
  BY DEF SetupInv, MailsInv
<1> QED
  BY <1>1, SetupInvariant, PTL

\* The order of the templates is one reorder's, never a mixture
\* (email-templates.service.ts:347).
THEOREM OrdersAreWhole == Spec => []ReorderWhole
<1>1. SetupInv => ReorderWhole
  BY DEF SetupInv, MailsInv
<1> QED
  BY <1>1, SetupInvariant, PTL

\* An event's photo exists, and an object that no event names is in a request's
\* hands or explained, through failures and crashes (events.service.ts:311).
THEOREM PhotosAreExplained == Spec => []PhotosExplained
<1>1. SetupInv => PhotosExplained
  <2> SUFFICES ASSUME SetupInv PROVE PhotosExplained
    OBVIOUS
  <2>1. PhotoExists
    BY DEF SetupInv, PhotosInv, PhotoRows, PhotoExists
  <2>2. ASSUME NEW k \in objects, InHand(k) PROVE k \in Held
    <3>1. PICK r \in Requests : local[r].old = k \/ local[r].new = k
      BY <2>2 DEF InHand, Hand
    <3>2. k # None
      BY SetupAssumption DEF SetupInv, PhotosInv, PhotoRows
    <3> DEFINE S == {{local[x].old, local[x].new} : x \in Requests}
               T == {local[r].old, local[r].new}
    <3>3. T \in S /\ k \in T
      BY <3>1
    <3>4. Held = (UNION S) \ {None}
      BY DEF Held
    <3> HIDE DEF S, T
    <3> QED
      BY <3>2, <3>3, <3>4
  <2>3. OrphanExplained
    BY <2>2 DEF SetupInv, PhotosInv, Covered, OrphanExplained
  <2> QED
    BY <2>1, <2>3 DEF PhotosExplained
<1> QED
  BY <1>1, SetupInvariant, PTL

\* No change of an attribute misses every report, unless it happened during one
\* (bbi-report.service.ts:119).
THEOREM ChangesAreReported == Spec => []ChangesReported
<1>1. SetupInv => ChangesReported
  BY DEF SetupInv, ReportsInv
<1> QED
  BY <1>1, SetupInvariant, PTL
=============================================================================
