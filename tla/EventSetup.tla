----------------------------- MODULE EventSetup -----------------------------
(***************************************************************************)
(* What organizers set up for an event: its forms with their definitions   *)
(* and dates, the form that registers, the mail templates and what         *)
(* triggers them, the photo, and the monthly report of its attributes to   *)
(* the BBI.  Requests interleave between their awaits; the photo is an     *)
(* object in S3 and a key in the event's row.                              *)
(***************************************************************************)
EXTENDS Naturals, Sequences, FiniteSets, Functions

CONSTANTS
    Requests,
    Attrs, Forms, Templates, Events, Keys,  \* uuids, object keys
    Dates,          \* a range of moments
    Inputs,         \* what each request may ask for
    MaxRows,        \* bound on the rows of one definition
    Start,          \* the event at the start
    None, Absent    \* null; a field that the body lacks

Conditions == {"MANUAL", "ON_DATE"}
Triggers == {"FORM_FILLED", "ATTRIBUTE_CHANGED", "PARTICIPANT_REGISTERED"}
Ops == {"formCreate", "formUpdate", "formDuplicate", "formRemove", "attrRemove",
        "mailCreate", "mailUpdate", "mailDuplicate", "mailRemove", "reorder",
        "eventCreate", "eventUpdate", "eventRemove",
        "attrCreate", "attrUpdate", "report"}

Input == [op : Ops, form : Forms \cup {None}, event : Events \cup {None},
          attr : Attrs \cup {None},
          template : Templates \cup {None},
          attributes : SUBSET Attrs,            \* {}: not in the body
          first : BOOLEAN \cup {Absent},        \* isFirstForm
          condition : Conditions \cup {Absent},
          openDate : Dates \cup {None, Absent}, closeDate : Dates \cup {None, Absent},
          trigger : Triggers \cup {Absent},
          about : Forms \cup Attrs \cup {None, Absent},   \* triggerConfig
          order : Nat \cup {Absent},      \* a template's place
          list : Seq(Templates),
          photo : BOOLEAN, removePhoto : BOOLEAN]
Nothing == [op |-> "formRemove", form |-> None, event |-> None, attr |-> None,
            template |-> None, attributes |-> {}, first |-> Absent,
            condition |-> Absent, openDate |-> Absent, closeDate |-> Absent,
            trigger |-> Absent, about |-> Absent, order |-> Absent, list |-> <<>>,
            photo |-> FALSE, removePhoto |-> FALSE]

FormRow == [condition : Conditions, openDate : Dates \cup {None},
            closeDate : Dates \cup {None}, attributes : [Attrs -> 0..MaxRows]]
MailRow == [trigger : Triggers, about : Forms \cup Attrs \cup {None}]

ASSUME SetupAssumption ==
    /\ Dates \subseteq Nat /\ MaxRows \in Nat \ {0}
    /\ None \notin Forms \cup Attrs \cup Templates \cup Events \cup Keys \cup Requests \cup Dates
    /\ Absent \notin Forms \cup Attrs \cup {None} /\ Absent \notin BOOLEAN
    /\ "first" \notin Forms

\* What the bodies must have; a reorder names a template once (ArrayUnique).
ASSUME InputsAssumption ==
    /\ Inputs \in [Requests -> SUBSET Input]
    /\ \A r \in Requests : \A in \in Inputs[r] :
         /\ in.op = "formCreate" => in.condition \in Conditions
         /\ in.op = "mailCreate" => in.trigger \in Triggers
         /\ in.op = "eventCreate" => in.event \in Events
         /\ in.op \in {"attrRemove", "attrCreate", "attrUpdate"} => in.attr \in Attrs
         /\ \A i, j \in DOMAIN in.list : in.list[i] = in.list[j] => i = j

\* Every form asks for the same attributes; there is at most one photo.
ASSUME StartAssumption ==
    \A s \in Start :
        /\ s.attrs \subseteq Attrs /\ s.attributes \subseteq s.attrs
        /\ s.forms \subseteq Forms /\ s.first \in s.forms \cup {None}
        /\ s.templates \subseteq Templates /\ s.events \subseteq Events
        /\ s.key \in Keys \cup {None}
        /\ s.key # None => \E e \in Events : s.events = {e}

VARIABLES
    attrs, forms, formRow, usedForms,   \* live uuids, rows, uuids ever used
    registerForm, eventLock,            \* the event's row, and who updated it
    templates, mailRow, usedMails,
    place, draft, mailLock,   \* templates' order, what was not committed, and whose it is
    events, photoKey, objects,          \* rows of events, objects in S3
    bbi, reported,      \* attributes' updatedAt and sentToBbiAt, and the event's
    pc, input, local,
    \* history: forms whose definitions overlapping updates wrote, and the sets
    \* last asked for; the form asked to register, and whether requests about
    \* that overlapped; templates of overlapping updates, the list of the last
    \* reorder, and templates that were moved alone since; objects that S3, a crash
    \* or a stale read left behind; attributes whose last change no report mailed,
    \* and those changed during a report
    mixed, wanted, wantedFirst, racedFirst, racedMails, lastList, moved, lostKeys,
    untold, racedReports

formState == <<attrs, forms, formRow, usedForms, registerForm, eventLock>>
mailState == <<templates, mailRow, usedMails, place, draft, mailLock>>
photoState == <<events, photoKey, objects>>
reportState == <<bbi, reported, untold, racedReports>>
requests == <<pc, input, local>>
formHistory == <<mixed, wanted, wantedFirst, racedFirst>>
mailHistory == <<racedMails, lastList, moved>>
vars == <<formState, mailState, photoState, requests, formHistory, mailHistory,
          lostKeys, reportState>>

-----------------------------------------------------------------------------
Fresh == [first |-> FALSE,    \* event.registerFormUuid was this form
          trigger |-> None,   \* the template's trigger as it was read
          next |-> 1,         \* the place reorder is at
          old |-> None, new |-> None,       \* keys of photos
          listed |-> {},      \* attributes in the report
          crossed |-> {}]     \* history: what others wrote meanwhile

Ended == {"done", "refused", "crashed"}
In(r) == input[r]

Step(r, next, l, written) ==
    /\ pc' = [pc EXCEPT ![r] = next]
    /\ input' = [input EXCEPT ![r] = IF next \in Ended THEN Nothing ELSE @]
    /\ local' = [q \in Requests |->
          IF q = r THEN (IF next \in Ended THEN Fresh ELSE l)
          ELSE IF pc[q] \in Ended \cup {"idle"} THEN local[q]
          ELSE [local[q] EXCEPT !.crossed = @ \cup written]]
Goto(r, next) == Step(r, next, local[r], {})

OnlyForms == UNCHANGED <<mailState, photoState, mailHistory, lostKeys, reportState>>
OnlyMails == UNCHANGED <<formState, photoState, formHistory, lostKeys, reportState>>
OnlyPhotos == UNCHANGED <<formState, mailState, formHistory, mailHistory, reportState>>
OnlyReports == UNCHANGED <<forms, formRow, usedForms, registerForm, eventLock, mailState,
                           photoState, formHistory, mailHistory, lostKeys>>

Begin(r, in) ==
    /\ pc[r] = "idle"
    /\ pc' = [pc EXCEPT ![r] = in.op]
    /\ input' = [input EXCEPT ![r] = in]
    /\ UNCHANGED <<formState, mailState, photoState, local, formHistory, mailHistory,
                   lostKeys, reportState>>

-----------------------------------------------------------------------------
(* FormsService.                                                           *)

\* What create and update check of a body, before anything is read.
DatesFit(in) ==
    /\ {in.openDate, in.closeDate} \subseteq Dates => in.openDate < in.closeDate
    /\ in.condition = "ON_DATE" => in.closeDate \in Dates

NewForm(row, first) ==
    LET f == CHOOSE g \in Forms \ usedForms : TRUE IN
    /\ Forms \ usedForms # {}
    /\ forms' = forms \cup {f} /\ usedForms' = usedForms \cup {f}
    /\ formRow' = [formRow EXCEPT ![f] = row]
    /\ wanted' = [wanted EXCEPT ![f] = {a \in Attrs : row.attributes[a] > 0}]
    /\ mixed' = IF \E a \in Attrs : row.attributes[a] > 1 THEN mixed \cup {f} ELSE mixed
    /\ registerForm' = IF first THEN f ELSE registerForm
    /\ wantedFirst' = IF first THEN f ELSE wantedFirst
    /\ racedFirst' = (~first /\ racedFirst)

Once(S) == [a \in Attrs |-> IF a \in S THEN 1 ELSE 0]
Value(x) == IF x = Absent THEN None ELSE x

\* create, one transaction: it waits for the event's row when it sets the form
\* that registers, and needs every attribute.
FormCreate(r) ==
    LET in == In(r) IN
    /\ pc[r] = "formCreate"
    /\ IF DatesFit(in) /\ in.attributes \subseteq attrs
       THEN /\ in.first = TRUE => eventLock = None
            /\ NewForm([condition |-> in.condition, openDate |-> Value(in.openDate),
                        closeDate |-> Value(in.closeDate),
                        attributes |-> Once(in.attributes)], in.first = TRUE)
            /\ Step(r, "done", local[r], IF in.first = TRUE THEN {"first"} ELSE {})
       ELSE /\ Goto(r, "refused")
            /\ UNCHANGED <<forms, usedForms, formRow, registerForm, formHistory>>
    /\ UNCHANGED <<attrs, eventLock>> /\ OnlyForms

\* duplicate: the row and its definitions
FormDuplicate(r) ==
    /\ pc[r] = "formDuplicate"
    /\ IF In(r).form \in forms
       THEN NewForm(formRow[In(r).form], FALSE) /\ Goto(r, "done")
       ELSE /\ Goto(r, "refused")
            /\ UNCHANGED <<forms, usedForms, formRow, registerForm, formHistory>>
    /\ UNCHANGED <<attrs, eventLock>> /\ OnlyForms

\* update, in its transaction: the event, and the form
FormUpdate(r) ==
    LET f == In(r).form IN
    /\ pc[r] = "formUpdate"
    /\ IF DatesFit(In(r)) /\ f \in forms
       THEN Step(r, "formFirst",
                 [local[r] EXCEPT !.first = registerForm = f, !.crossed = {}], {})
       ELSE Goto(r, "refused")
    /\ UNCHANGED <<formState, formHistory>> /\ OnlyForms

\* Setting or clearing the form that registers locks the event's row ...
SetsFirst(r) == In(r).first = TRUE \/ (In(r).first = FALSE /\ local[r].first)
FormFirst(r) ==
    /\ pc[r] = "formFirst"
    /\ IF SetsFirst(r)
       THEN eventLock = None /\ eventLock' = r
       ELSE UNCHANGED eventLock
    /\ Goto(r, IF In(r).attributes = {} THEN "formCommit" ELSE "formAttributes")
    /\ UNCHANGED <<attrs, forms, formRow, usedForms, registerForm, formHistory>>
    /\ OnlyForms

Unlock(r) == eventLock' = IF eventLock = r THEN None ELSE eventLock

\* ... the attributes exist; the definitions that are committed go, ...
FormClear(r) ==
    /\ pc[r] = "formAttributes"
    /\ IF In(r).attributes \subseteq attrs
       THEN /\ Step(r, "formCommit", [local[r] EXCEPT !.crossed = @ \ {In(r).form}], {})
            /\ UNCHANGED eventLock
       ELSE Goto(r, "refused") /\ Unlock(r)
    /\ UNCHANGED <<attrs, forms, formRow, usedForms, registerForm, formHistory>>
    /\ OnlyForms

New(x, old) == IF x = Absent THEN old ELSE x

\* ... those of the body come, and the commit makes all of it visible.  The rows
\* that an update committed since the deletion are not those it deleted: they
\* stay (the table has no unique index, schema.prisma:255).
Kept(r) == IF In(r).attributes = {} \/ In(r).form \in local[r].crossed
           THEN formRow[In(r).form].attributes ELSE Once({})
Save(r, kept, first) ==
    LET in == In(r)
        f == in.form
    IN
    /\ pc[r] = "formCommit"
    /\ IF f \in forms /\ in.attributes \subseteq attrs
       THEN /\ \A a \in in.attributes : kept[a] < MaxRows
            /\ formRow' = [formRow EXCEPT ![f] =
                 [condition |-> New(in.condition, @.condition),
                  openDate |-> New(in.openDate, @.openDate),
                  closeDate |-> New(in.closeDate, @.closeDate),
                  attributes |-> [a \in Attrs |-> kept[a] + Once(in.attributes)[a]]]]
            /\ registerForm' = first
            /\ wantedFirst' = IF in.first = TRUE THEN f
                              ELSE IF in.first = FALSE /\ wantedFirst = f THEN None ELSE wantedFirst
            /\ racedFirst' = (in.first # TRUE /\ (racedFirst \/
                               (in.first = FALSE /\ "first" \in local[r].crossed)))
            /\ IF in.attributes = {} THEN UNCHANGED <<wanted, mixed>>
               ELSE /\ wanted' = [wanted EXCEPT ![f] = in.attributes]
                    /\ mixed' = IF f \in local[r].crossed THEN mixed \cup {f} ELSE mixed \ {f}
            /\ Step(r, "done", local[r], (IF in.attributes = {} THEN {} ELSE {f})
                                         \cup (IF SetsFirst(r) THEN {"first"} ELSE {}))
       ELSE /\ Goto(r, "refused")
            /\ UNCHANGED <<formRow, registerForm, formHistory>>
    /\ Unlock(r)
    /\ UNCHANGED <<attrs, forms, usedForms>> /\ OnlyForms

FirstAfter(r) == IF In(r).first = TRUE THEN In(r).form
                 ELSE IF SetsFirst(r) THEN None ELSE registerForm

\* Mutant of FormCommit: the old definitions stay.
FormCommitAdding(r) == Save(r, formRow[In(r).form].attributes, FirstAfter(r))
FormCommit(r) == Save(r, Kept(r), FirstAfter(r))

\* remove, in its transaction: the event, ...
FormRemove(r) ==
    LET first == registerForm = In(r).form IN
    /\ pc[r] = "formRemove"
    /\ Step(r, IF first THEN "removeFirst" ELSE "removeForm",
            [local[r] EXCEPT !.first = first, !.crossed = {}], {})
    /\ UNCHANGED <<formState, formHistory>> /\ OnlyForms

\* ... its key, when the form was read there: cleared whatever it holds by now, ...
RemoveFirst(r) ==
    /\ pc[r] = "removeFirst"
    /\ eventLock = None /\ eventLock' = r
    /\ Goto(r, "removeForm")
    /\ UNCHANGED <<attrs, forms, formRow, usedForms, registerForm, formHistory>>
    /\ OnlyForms

\* ... and the form with its definitions, once no update is about to name it; a
\* key that names it by now is cleared by the foreign key.
Delete(r, first) ==
    LET f == In(r).form
        names == registerForm = f
    IN
    /\ pc[r] = "removeForm"
    /\ IF f \in forms
       THEN /\ names /\ ~local[r].first => eventLock = None
            /\ \A q \in Requests \ {r} :
                  ~(eventLock = q /\ In(q).first = TRUE /\ In(q).form = f)
            /\ forms' = forms \ {f}
            /\ registerForm' = first
            /\ wantedFirst' = IF wantedFirst = f THEN None ELSE wantedFirst
            /\ racedFirst' = (racedFirst \/ (local[r].first /\ "first" \in local[r].crossed))
            /\ Step(r, "done", local[r], IF local[r].first \/ names THEN {"first"} ELSE {})
       ELSE Goto(r, "refused") /\ UNCHANGED <<forms, registerForm, wantedFirst, racedFirst>>
    /\ Unlock(r)
    /\ UNCHANGED <<attrs, formRow, usedForms, mixed, wanted>> /\ OnlyForms

\* Mutant of RemoveForm: the event keeps naming the form.
RemoveFormRow(r) == Delete(r, registerForm)
RemoveForm(r) ==
    Delete(r, IF local[r].first \/ registerForm = In(r).form THEN None ELSE registerForm)

\* An attribute goes with its definitions (AttributesService.remove).
AttrRemove(r) ==
    LET a == In(r).attr IN
    /\ pc[r] = "attrRemove"
    /\ attrs' = attrs \ {a}
    /\ formRow' = [f \in Forms |-> [formRow[f] EXCEPT !.attributes[a] = 0]]
    /\ wanted' = [f \in Forms |-> wanted[f] \ {a}]
    /\ Goto(r, "done")
    /\ UNCHANGED <<forms, usedForms, registerForm, eventLock, mixed, wantedFirst, racedFirst>>
    /\ OnlyForms

-----------------------------------------------------------------------------
(* EmailTemplatesService.                                                  *)

\* validateTriggerConfig: the config names a live form or attribute, or nothing:
\* it is {} (None) or not in the body.
ConfigFits(trigger, about) ==
    CASE trigger = "FORM_FILLED" -> about \in forms
      [] trigger = "ATTRIBUTE_CHANGED" -> about \in attrs
      [] OTHER -> about \in {None, Absent}

NewMail(row, at) ==
    LET m == CHOOSE t \in Templates \ usedMails : TRUE IN
    /\ Templates \ usedMails # {}
    /\ templates' = templates \cup {m} /\ usedMails' = usedMails \cup {m}
    /\ mailRow' = [mailRow EXCEPT ![m] = row]
    /\ place' = [place EXCEPT ![m] = at]

\* create validates, ...
MailCreate(r) ==
    /\ pc[r] = "mailCreate"
    /\ Goto(r, IF ConfigFits(In(r).trigger, In(r).about) THEN "mailInsert" ELSE "refused")
    /\ UNCHANGED <<mailState, mailHistory>> /\ OnlyMails

\* ... and inserts: no foreign key holds what the config names.
MailInsert(r) ==
    /\ pc[r] = "mailInsert"
    /\ NewMail([trigger |-> In(r).trigger, about |-> Value(In(r).about)], New(In(r).order, 0))
    /\ Goto(r, "done")
    /\ UNCHANGED <<draft, mailLock, mailHistory>> /\ OnlyMails

\* duplicate copies the config as it is.
MailDuplicate(r) ==
    /\ pc[r] = "mailDuplicate"
    /\ IF In(r).template \in templates
       THEN /\ NewMail(mailRow[In(r).template], place[In(r).template])
            /\ racedMails' = IF In(r).template \in racedMails THEN racedMails \cup (usedMails' \ usedMails)
                             ELSE racedMails
            /\ Goto(r, "done")
       ELSE Goto(r, "refused") /\ UNCHANGED <<templates, usedMails, mailRow, place, racedMails>>
    /\ UNCHANGED <<draft, mailLock, lastList, moved>> /\ OnlyMails

\* update reads the trigger and validates the config against the one that will be, ...
MailRead(r, validated) ==
    LET in == In(r)
        now == mailRow[in.template].trigger
        changed == New(in.trigger, now) # now
    IN
    /\ pc[r] = "mailUpdate"
    /\ IF /\ in.template \in templates
          /\ (changed \/ in.about # Absent) => ConfigFits(validated, in.about)
       THEN Step(r, "mailWrite", [local[r] EXCEPT !.trigger = now, !.crossed = {}], {})
       ELSE Goto(r, "refused")
    /\ UNCHANGED <<mailState, mailHistory>> /\ OnlyMails

\* Mutant of MailUpdate: the config is validated against the old trigger.
MailUpdateOldTrigger(r) == MailRead(r, mailRow[In(r).template].trigger)

MailUpdate(r) == MailRead(r, New(In(r).trigger, mailRow[In(r).template].trigger))

\* ... and writes: a changed trigger without a config empties the config.
MailWrite(r) ==
    LET in == In(r)
        m == in.template
        changed == New(in.trigger, local[r].trigger) # local[r].trigger
    IN
    /\ pc[r] = "mailWrite" /\ mailLock[m] = None
    /\ IF m \in templates
       THEN /\ mailRow' = [mailRow EXCEPT ![m] =
                 [trigger |-> New(in.trigger, @.trigger),
                  about |-> IF in.about \notin {None, Absent} THEN in.about
                            ELSE IF changed \/ in.about = None THEN None ELSE @.about]]
            /\ place' = [place EXCEPT ![m] = New(in.order, @)]
            /\ moved' = IF in.order = Absent THEN moved ELSE moved \cup {m}
            /\ racedMails' = IF m \in local[r].crossed THEN racedMails \cup {m} ELSE racedMails
            /\ Step(r, "done", local[r], {m})
       ELSE Goto(r, "refused") /\ UNCHANGED <<mailRow, place, moved, racedMails>>
    /\ UNCHANGED <<templates, usedMails, draft, mailLock, lastList>> /\ OnlyMails

MailRemove(r) ==
    LET m == In(r).template IN
    /\ pc[r] = "mailRemove" /\ mailLock[m] = None
    /\ templates' = templates \ {m}
    /\ Goto(r, IF m \in templates THEN "done" ELSE "refused")
    /\ UNCHANGED <<mailRow, usedMails, place, draft, mailLock, mailHistory>> /\ OnlyMails

\* reorder counts the templates in its transaction, ...
ReorderCount(r) ==
    /\ pc[r] = "reorder"
    /\ Goto(r, IF Range(In(r).list) \subseteq templates THEN "reorderRow" ELSE "refused")
    /\ UNCHANGED <<mailState, mailHistory>> /\ OnlyMails

\* The end of the transaction; a rollback forgets its places.
Release(r) ==
    /\ mailLock' = [m \in Templates |-> IF mailLock[m] = r THEN None ELSE mailLock[m]]
    /\ draft' = [m \in Templates |-> IF mailLock[m] = r THEN 0 ELSE draft[m]]

InRows(r) == pc[r] = "reorderRow" /\ local[r].next <= Len(In(r).list)
NextRow(r) == In(r).list[local[r].next]

\* Mutant of ReorderRow: each update is committed on its own.
ReorderRowAlone(r) ==
    /\ InRows(r)
    /\ place' = [place EXCEPT ![NextRow(r)] = local[r].next]
    /\ Step(r, "reorderRow", [local[r] EXCEPT !.next = @ + 1], {})
    /\ UNCHANGED <<templates, mailRow, usedMails, draft, mailLock, mailHistory>> /\ OnlyMails

\* Mutant of ReorderRow: a failed update does not end the transaction.
ReorderRowOpen(r) ==
    /\ InRows(r)
    /\ IF NextRow(r) \in templates
       THEN /\ mailLock[NextRow(r)] = None
            /\ mailLock' = [mailLock EXCEPT ![NextRow(r)] = r]
            /\ draft' = [draft EXCEPT ![NextRow(r)] = local[r].next]
            /\ Step(r, "reorderRow", [local[r] EXCEPT !.next = @ + 1], {})
       ELSE UNCHANGED <<draft, mailLock>> /\ Goto(r, "refused")
    /\ UNCHANGED <<templates, mailRow, usedMails, place, mailHistory>> /\ OnlyMails

\* ... updates one after the other, each row locked until the end, ...
ReorderRow(r) ==
    /\ InRows(r)
    /\ IF NextRow(r) \in templates
       THEN /\ mailLock[NextRow(r)] = None
            /\ mailLock' = [mailLock EXCEPT ![NextRow(r)] = r]
            /\ draft' = [draft EXCEPT ![NextRow(r)] = local[r].next]
            /\ Step(r, "reorderRow", [local[r] EXCEPT !.next = @ + 1], {})
       ELSE Release(r) /\ Goto(r, "refused")
    /\ UNCHANGED <<templates, mailRow, usedMails, place, mailHistory>> /\ OnlyMails

\* ... and commits.
ReorderCommit(r) ==
    /\ pc[r] = "reorderRow" /\ local[r].next > Len(In(r).list)
    /\ place' = [m \in Templates |-> IF mailLock[m] = r THEN draft[m] ELSE place[m]]
    /\ lastList' = In(r).list /\ moved' = moved \ Range(In(r).list)
    /\ Release(r) /\ Goto(r, "done")
    /\ UNCHANGED <<templates, mailRow, usedMails, racedMails>> /\ OnlyMails

\* Reorders that wait for each other in a circle: the database ends one.
ReorderDeadlock(r) ==
    /\ InRows(r)
    /\ \E circle \in SUBSET {q \in Requests : InRows(q)} :
        r \in circle /\ circle = {mailLock[NextRow(q)] : q \in circle}
    /\ Release(r) /\ Goto(r, "refused")
    /\ UNCHANGED <<templates, mailRow, usedMails, place, mailHistory>> /\ OnlyMails

-----------------------------------------------------------------------------
(* EventsService and StorageService: an object before the row that names   *)
(* it, an object after the row that named it.                              *)

Held == (UNION {{local[r].old, local[r].new} : r \in Requests}) \ {None}
Free == Keys \ (objects \cup lostKeys \cup Held)
NewKey == CHOOSE k \in Free : TRUE

\* upload: the request fails when S3 does.
Upload(r, next) ==
    \/ /\ Free # {} /\ objects' = objects \cup {NewKey}
       /\ Step(r, next, [local[r] EXCEPT !.new = NewKey], {})
    \/ Goto(r, "refused") /\ UNCHANGED objects

PhotoCreate(r) ==
    /\ pc[r] = "eventCreate"
    /\ IF In(r).photo THEN Upload(r, "eventInsert")
       ELSE Goto(r, "eventInsert") /\ UNCHANGED objects
    /\ UNCHANGED <<events, photoKey, lostKeys>> /\ OnlyPhotos

\* The event and its creator's permission in one transaction; when the slug is
\* taken, the object goes.
PhotoInsert(r) ==
    LET e == In(r).event IN
    /\ pc[r] = "eventInsert"
    /\ \/ /\ e \notin events
          /\ events' = events \cup {e}
          /\ photoKey' = [photoKey EXCEPT ![e] = local[r].new]
          /\ Goto(r, "done")
       \/ /\ Goto(r, IF local[r].new = None THEN "refused" ELSE "dropNew")
          /\ UNCHANGED <<events, photoKey>>
    /\ UNCHANGED <<objects, lostKeys>> /\ OnlyPhotos

\* update reads the key it will replace, ...
PhotoRead(r) ==
    LET e == In(r).event IN
    /\ pc[r] = "eventUpdate"
    /\ IF e \notin events THEN Goto(r, "refused")
       ELSE Step(r, IF In(r).photo THEN "upload" ELSE "eventWrite",
                 [local[r] EXCEPT !.old = photoKey[e]], {})
    /\ UNCHANGED <<photoState, lostKeys>> /\ OnlyPhotos

\* Mutant of PhotoUpload: the old object goes before the row is updated.
PhotoUploadDropping(r) ==
    /\ pc[r] = "upload"
    /\ objects' = (objects \cup {NewKey}) \ {local[r].old}
    /\ Step(r, "eventWrite", [local[r] EXCEPT !.new = NewKey], {})
    /\ UNCHANGED <<events, photoKey, lostKeys>> /\ OnlyPhotos

\* ... uploads, ...
PhotoUpload(r) ==
    /\ pc[r] = "upload" /\ Upload(r, "eventWrite")
    /\ UNCHANGED <<events, photoKey, lostKeys>> /\ OnlyPhotos

\* ... and writes the row: gone, or its new slug taken, the new object goes.
PhotoWrite(r) ==
    LET e == In(r).event
        lost == {photoKey[e]} \ {None, local[r].old}   \* written since it was read
    IN
    /\ pc[r] = "eventWrite"
    /\ \/ /\ e \in events
          /\ photoKey' = [photoKey EXCEPT ![e] = local[r].new]
          /\ lostKeys' = lostKeys \cup lost
          /\ Goto(r, IF local[r].old = None THEN "done" ELSE "dropOld")
       \/ /\ Goto(r, IF local[r].new = None THEN "refused" ELSE "dropNew")
          /\ UNCHANGED <<photoKey, lostKeys>>
    /\ UNCHANGED <<events, objects>> /\ OnlyPhotos

\* StorageService.delete swallows what S3 answers.
PhotoDrop(r) ==
    LET key == IF pc[r] = "dropOld" THEN local[r].old ELSE local[r].new IN
    /\ pc[r] \in {"dropOld", "dropNew"}
    /\ \/ objects' = objects \ {key} /\ UNCHANGED lostKeys
       \/ UNCHANGED objects /\ lostKeys' = lostKeys \cup {key}
    /\ Goto(r, IF pc[r] = "dropOld" THEN "done" ELSE "refused")
    /\ UNCHANGED <<events, photoKey>> /\ OnlyPhotos

\* remove: the row, then the object it named.
DeleteEvent(r, next) ==
    LET e == In(r).event IN
    /\ pc[r] = "eventRemove"
    /\ IF e \in events
       THEN /\ events' = events \ {e}
            /\ photoKey' = [photoKey EXCEPT ![e] = None]
            /\ Step(r, next, [local[r] EXCEPT !.old = photoKey[e]], {})
       ELSE Goto(r, "refused") /\ UNCHANGED <<events, photoKey>>
    /\ UNCHANGED <<objects, lostKeys>> /\ OnlyPhotos

PhotoRemove(r) ==
    DeleteEvent(r, IF photoKey[In(r).event] = None THEN "done" ELSE "dropOld")

\* The process ends in a request that holds an object.
PhotoCrash(r) ==
    LET held == {local[r].old, local[r].new} \ {None}
        named == {photoKey[e] : e \in events}
    IN
    /\ pc[r] \in {"eventInsert", "eventWrite", "dropOld", "dropNew"}
    /\ lostKeys' = lostKeys \cup (held \ named)
    /\ Goto(r, "crashed")
    /\ UNCHANGED photoState /\ OnlyPhotos

-----------------------------------------------------------------------------
(* BbiReportService, once a month, and what it reports: attributes that     *)
(* were never sent, or modified after they were.                           *)

AttrCreate(r) ==
    LET a == In(r).attr IN
    /\ pc[r] = "attrCreate" /\ bbi[a] = "none"
    /\ attrs' = attrs \cup {a}
    /\ bbi' = [bbi EXCEPT ![a] = "new"] /\ untold' = untold \cup {a}
    /\ Goto(r, "done")
    /\ UNCHANGED <<reported, racedReports>> /\ OnlyReports

\* @updatedAt moves past sentToBbiAt.
AttrUpdate(r) ==
    LET a == In(r).attr IN
    /\ pc[r] = "attrUpdate" /\ a \in attrs
    /\ bbi' = [bbi EXCEPT ![a] = IF @ = "new" THEN "new" ELSE "modified"]
    /\ untold' = untold \cup {a}
    /\ Step(r, "done", local[r], {a})
    /\ UNCHANGED <<attrs, reported, racedReports>> /\ OnlyReports

ReportRead(r) ==
    LET pending == {a \in attrs : bbi[a] # "sent"} IN
    /\ pc[r] = "report"
    /\ IF reported /\ pending = {} THEN Goto(r, "done")
       ELSE Step(r, "reportMail", [local[r] EXCEPT !.listed = pending, !.crossed = {}], {})
    /\ UNCHANGED <<attrs, reportState>> /\ OnlyReports

\* The mail with the sheet; when it fails nothing is marked.
ReportMail(r) ==
    /\ pc[r] = "reportMail"
    /\ \/ untold' = untold \ (local[r].listed \ local[r].crossed) /\ Goto(r, "reportMark")
       \/ UNCHANGED untold /\ Goto(r, "refused")
    /\ UNCHANGED <<attrs, bbi, reported, racedReports>> /\ OnlyReports

\* updateMany sets sentToBbiAt to a moment taken before it, and @updatedAt to
\* its own: the same, or a later one, with which the attribute counts as
\* modified again.
MarkSent(r, S) ==
    /\ pc[r] = "reportMark"
    /\ \E mark \in {"sent", "modified"} :
          bbi' = [a \in Attrs |-> IF a \in S \cap attrs THEN mark ELSE bbi[a]]
    /\ reported' = TRUE
    /\ racedReports' = racedReports \cup (local[r].crossed \cap local[r].listed)
    /\ Goto(r, "done")
    /\ UNCHANGED <<attrs, untold>> /\ OnlyReports

\* Mutant of ReportMark: every attribute of the event is marked.
ReportMarkEvent(r) == MarkSent(r, attrs)

ReportMark(r) == MarkSent(r, local[r].listed)

-----------------------------------------------------------------------------
NoForm == [condition |-> "MANUAL", openDate |-> None, closeDate |-> None,
           attributes |-> Once({})]
NoMail == [trigger |-> "PARTICIPANT_REGISTERED", about |-> None]

Init ==
    /\ \E s \in Start :
        /\ attrs = s.attrs
        /\ bbi = [a \in Attrs |-> IF a \in s.attributes THEN "sent"
                               ELSE IF a \in s.attrs THEN "new" ELSE "none"]
        /\ untold = s.attrs \ s.attributes
        /\ forms = s.forms /\ usedForms = s.forms /\ registerForm = s.first
        /\ formRow = [f \in Forms |->
              [NoForm EXCEPT !.attributes = Once(IF f \in s.forms THEN s.attributes ELSE {})]]
        /\ wanted = [f \in Forms |-> IF f \in s.forms THEN s.attributes ELSE {}]
        /\ wantedFirst = s.first
        /\ templates = s.templates /\ usedMails = s.templates
        /\ events = s.events
        /\ photoKey = [e \in Events |-> IF e \in s.events THEN s.key ELSE None]
        /\ objects = {s.key} \ {None}
    /\ mailRow = [m \in Templates |-> NoMail] /\ place = [m \in Templates |-> 0]
    /\ eventLock = None
    /\ mailLock = [m \in Templates |-> None] /\ draft = [m \in Templates |-> 0]
    /\ pc = [r \in Requests |-> "idle"]
    /\ input = [r \in Requests |-> Nothing]
    /\ local = [r \in Requests |-> Fresh]
    /\ mixed = {} /\ racedFirst = FALSE
    /\ racedMails = {} /\ lastList = <<>> /\ moved = {} /\ lostKeys = {}
    /\ reported = TRUE /\ racedReports = {}

Next ==
    \E r \in Requests :
        \/ \E in \in Inputs[r] : Begin(r, in)
        \/ FormCreate(r) \/ FormDuplicate(r) \/ FormUpdate(r) \/ FormFirst(r)
        \/ FormClear(r) \/ FormCommit(r) \/ FormRemove(r) \/ RemoveFirst(r)
        \/ RemoveForm(r) \/ AttrRemove(r)
        \/ MailCreate(r) \/ MailInsert(r) \/ MailDuplicate(r) \/ MailUpdate(r)
        \/ MailWrite(r) \/ MailRemove(r)
        \/ ReorderCount(r) \/ ReorderRow(r) \/ ReorderCommit(r) \/ ReorderDeadlock(r)
        \/ PhotoCreate(r) \/ PhotoInsert(r) \/ PhotoRead(r) \/ PhotoUpload(r)
        \/ PhotoWrite(r) \/ PhotoDrop(r) \/ PhotoRemove(r) \/ PhotoCrash(r)
        \/ AttrCreate(r) \/ AttrUpdate(r)
        \/ ReportRead(r) \/ ReportMail(r) \/ ReportMark(r)

Spec == Init /\ [][Next]_vars

\* The event loop runs every request, and the database ends deadlocks.
Fairness ==
    /\ \A r \in Requests : WF_vars(ReorderCount(r) \/ ReorderRow(r) \/ ReorderCommit(r))
    /\ WF_vars(\E r \in Requests : ReorderDeadlock(r))
FairSpec == Spec /\ Fairness

-----------------------------------------------------------------------------
TypeOK ==
    /\ attrs \subseteq Attrs /\ forms \subseteq usedForms /\ usedForms \subseteq Forms
    /\ formRow \in [Forms -> FormRow]
    /\ registerForm \in forms \cup {None}
    /\ eventLock \in Requests \cup {None}
    /\ templates \subseteq usedMails /\ usedMails \subseteq Templates
    /\ mailRow \in [Templates -> MailRow]
    /\ place \in [Templates -> Nat] /\ draft \in [Templates -> Nat]
    /\ mailLock \in [Templates -> Requests \cup {None}]
    /\ events \subseteq Events /\ photoKey \in [Events -> Keys \cup {None}]
    /\ objects \subseteq Keys
    /\ input \in [Requests -> Input]
    /\ bbi \in [Attrs -> {"none", "new", "sent", "modified"}] /\ reported \in BOOLEAN

\* A form asks for each attribute of the last update that gave it attributes,
\* once, except where two such updates overlapped: then both sets are there.
DefinitionsUnlessRaced ==
    \A f \in forms \ mixed : formRow[f].attributes = Once(wanted[f])

\* Participants register with the form that was last asked to be first, or with
\* none when that was unset or removed, unless such requests overlapped.
RegisterUnlessRaced == racedFirst \/ registerForm = wantedFirst

\* What organizers said last about forms is what is stored, unless they spoke at
\* once.
FormsUnlessRaced == DefinitionsUnlessRaced /\ RegisterUnlessRaced

\* A template's config names what its trigger is about, or nothing, unless two
\* updates of the template overlapped (email-templates.service.ts:290).
ConfigFitsTrigger ==
    \A m \in templates \ racedMails :
        mailRow[m].about \in CASE mailRow[m].trigger = "FORM_FILLED" -> Forms
                               [] mailRow[m].trigger = "ATTRIBUTE_CHANGED" -> Attrs
                               [] OTHER -> {None}

\* The templates stand in the order of one of the reorders, the last one, never
\* in a mixture of two, but for those that an update has moved since.
ReorderWhole ==
    \A i \in DOMAIN lastList :
        lastList[i] \in templates \ moved => place[lastList[i]] = i

\* Every reorder ends, whichever rows the others have locked and whoever removes
\* the templates it names meanwhile.
ReorderEnds ==
    \A r \in Requests : pc[r] = "reorder" ~> pc[r] \in {"done", "refused"}

\* The photo that an event names exists in S3, whatever requests overlap, fail or
\* crash.
PhotoExists == \A e \in events : photoKey[e] # None => photoKey[e] \in objects

\* An object that no event names is still in a request's hands, or S3 refused to
\* delete it, its request crashed, or an overlapping update never saw its key.
OrphanExplained ==
    objects \subseteq {photoKey[e] : e \in events} \cup lostKeys \cup Held

\* S3 and the events' rows agree, but for what is explained.
PhotosExplained == PhotoExists /\ OrphanExplained

\* A new or changed attribute that no report has mailed is in the next one, even
\* when a mail fails or other attributes are marked, unless it changed while a
\* report was under way: then the mark covers the change (bbi-report.service.ts:119).
ChangesReported ==
    \A a \in attrs \cap untold : bbi[a] # "sent" \/ a \in racedReports
=============================================================================
