---------------------------- MODULE MCCatalogue ----------------------------
(***************************************************************************)
(* Catalogue for TLC: an attribute of type block with a root and two       *)
(* blocks, a text attribute, with or without a ticket.                     *)
(***************************************************************************)
EXTENDS Catalogue, TLC

CONSTANTS r1, r2, r3, a1, a2, a3, b0, b1, b2, b3, b4, t1, t2, p1, p2

Ask(o) == [Nothing EXCEPT !.op = o]
Retype(a, t, c) == [Ask("attrUpdate") EXCEPT !.attr = a, !.type = t, !.config = c]
Block(o, b, p) == [Ask(o) EXCEPT !.attr = a1, !.block = b, !.parent = p]
NewTicket(a) == [Ask("ticketCreate") EXCEPT !.attr = a, !.shown = {a2}]
Show(S) == [Ask("ticketUpdate") EXCEPT !.ticket = t1, !.shown = S]
Door(o, b, p) == [Ask(o) EXCEPT !.ticket = t1, !.block = b, !.person = p]

MCInputs ==
    r1 :> {[Ask("attrCreate") EXCEPT !.type = "block"],
           Retype(a1, "text", FALSE), Retype(a1, "select", TRUE),
           Retype(a2, "block", FALSE), Retype(a2, "file", FALSE),
           [Ask("attrRemove") EXCEPT !.attr = a1],
           Block("blockUpdate", b2, b1), Door("confirm", b1, p1)}
    @@ r2 :> {Retype(a1, "block", FALSE), Retype(a1, None, TRUE), Retype(a2, "block", FALSE),
              Block("blockCreate", None, b1), Block("blockUpdate", b1, b2),
              Block("blockDuplicate", b1, None), Block("blockRemove", b1, None),
              NewTicket(a1), NewTicket(None), Show({a1}), Door("confirm", b1, p1)}
    @@ r3 :> {NewTicket(a1), Show({a1, a2}), Block("blockUpdate", b1, b3),
              [Ask("ticketRemove") EXCEPT !.ticket = t1],
              Door("confirm", b1, p1), Door("confirm", b2, p1),
              Door("confirm", None, p1), Door("scan", b1, p1), Door("confirm", b1, p2)}

Row(a, p) == [attr |-> a, parent |-> p]
Rows(T, a) ==
    LET types == a1 :> "block" @@ a2 :> "text" @@ a3 :> "none" IN
    [type |-> types, config |-> types,
     blocks |-> {b0, b1, b2},
     row |-> (b0 :> Row(a1, None) @@ b1 :> Row(a1, b0) @@ b2 :> Row(a1, b0) @@ b3 :> Row(None, None) @@ b4 :> Row(None, None)),
     tickets |-> T,
     target |-> [t \in Tickets |-> a],
     shown |-> [t \in Tickets |-> {}],
     chosen |-> [p \in People |-> {b1}],
     raced |-> {}, looped |-> {}]

MCStart == {Rows({}, None), Rows({t1}, a1), Rows({t1}, None)}
MCChoices == {{b2}}
=============================================================================
