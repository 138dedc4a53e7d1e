---------------------------- MODULE MCEventSetup ----------------------------
(***************************************************************************)
(* EventSetup for TLC: one event, with forms, two templates and a photo or  *)
(* with three templates only, and three requests about forms, or mails, or *)
(* the photo; three reorders may wait in a circle.                         *)
(***************************************************************************)
EXTENDS EventSetup, TLC

CONSTANTS r1, r2, r3, a1, a2, a3, f1, f2, f3, m1, m2, m3, m4, e1, e2, k0, k1, k2, k3

Ask(o) == [Nothing EXCEPT !.op = o]
NewOf(S, first) ==
    [Ask("formCreate") EXCEPT !.attributes = S, !.first = first, !.condition = "ON_DATE",
                              !.openDate = 1, !.closeDate = 2]
Form(o, f) == [Ask(o) EXCEPT !.form = f]
Change(f, S, first) == [Form("formUpdate", f) EXCEPT !.attributes = S, !.first = first]
Dated(f, c, from, to) ==
    [Form("formUpdate", f) EXCEPT !.condition = c, !.openDate = from, !.closeDate = to]
Mail(o, t, x) == [Ask(o) EXCEPT !.template = m1, !.trigger = t, !.about = x]
Sorted(s) == [Ask("reorder") EXCEPT !.list = s]
Photo(o, e, photo) == [Ask(o) EXCEPT !.event = e, !.photo = photo, !.removePhoto = ~photo]

MCInputs ==
    r1 :> {NewOf({a1}, TRUE), Change(f1, {a1}, Absent), Change(f2, {}, TRUE),
           Dated(f1, "ON_DATE", None, 1), Form("formRemove", f1),
           Mail("mailCreate", "FORM_FILLED", f2), Mail("mailUpdate", "FORM_FILLED", f1),
           Mail("mailUpdate", "ATTRIBUTE_CHANGED", Absent),
           Mail("mailDuplicate", Absent, Absent), Sorted(<<m1, m2>>),
           Photo("eventCreate", e2, TRUE), Photo("eventUpdate", e1, TRUE),
           Photo("eventRemove", e2, FALSE), Ask("report")}
    @@ r2 :> {Change(f1, {a2}, FALSE), Change(f2, {a1, a2}, TRUE), Change(f1, {}, FALSE),
              NewOf({a1, a2}, Absent), [Ask("attrRemove") EXCEPT !.attr = a2],
              Mail("mailUpdate", "PARTICIPANT_REGISTERED", Absent),
              Mail("mailUpdate", Absent, f2), Mail("mailRemove", Absent, Absent),
              Mail("mailCreate", "ATTRIBUTE_CHANGED", a1), Sorted(<<m2, m3, m1>>),
              Photo("eventUpdate", e1, TRUE), Photo("eventUpdate", e1, FALSE),
              Photo("eventCreate", e2, FALSE),
              [Ask("attrUpdate") EXCEPT !.attr = a1], [Ask("attrCreate") EXCEPT !.attr = a3]}
    @@ r3 :> {Change(f1, {a1, a2}, TRUE), Dated(f1, Absent, Absent, None),
              Form("formDuplicate", f1), Form("formRemove", f2),
              [Mail("mailUpdate", Absent, None) EXCEPT !.order = 5],
              Mail("mailRemove", Absent, Absent), Mail("mailUpdate", "ATTRIBUTE_CHANGED", a2),
              Sorted(<<m3, m1>>), [Ask("mailRemove") EXCEPT !.template = m3],
              Photo("eventUpdate", e1, TRUE), Photo("eventRemove", e1, FALSE),
              [Ask("attrUpdate") EXCEPT !.attr = a2], Ask("report")}

Event(k) == [forms |-> {f1, f2}, first |-> f1, attrs |-> {a1, a2}, attributes |-> {a1},
             templates |-> {m1, m2}, events |-> {e1}, key |-> k]
\* Without forms and a photo, the templates of the three reorders: m1 before m2,
\* m2 before m3, m3 before m1.
MCStart == {Event(k0), [Event(None) EXCEPT !.forms = {}, !.first = None,
                                           !.templates = {m1, m2, m3}]}
=============================================================================
