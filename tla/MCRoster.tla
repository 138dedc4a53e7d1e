------------------------------ MODULE MCRoster ------------------------------
(***************************************************************************)
(* Roster for TLC: two participants, one perhaps written with capitals,    *)
(* and three requests that import, register, change, upload and remove.    *)
(***************************************************************************)
EXTENDS Roster, TLC

CONSTANTS r1, r2, r3, p1, p2, p3, p4, ann, ANN, bob, eve, junk, k1, k2, k3, k4, x, y

MCLower == ANN :> ann @@ ann :> ann @@ bob :> bob @@ eve :> eve @@ junk :> junk

Ask(o, e) == [Nothing EXCEPT !.op = o, !.email = e]
List(s) == [Nothing EXCEPT !.op = "import", !.list = s]
Many(o, S) == [Nothing EXCEPT !.op = o, !.people = S]
Move(p, e) == [Many("update", {p}) EXCEPT !.email = e]
Set(S, v) == [Many("bulk", S) EXCEPT !.value = v]

MCInputs ==
    r1 :> {List(<<ann, junk, ANN, eve>>), List(<<eve, bob, eve>>), Set({p1, p2}, x),
           Set({p1, p2}, None), Many("removeMany", {p1, p2})}
    @@ r2 :> {Ask("register", eve), Ask("register", ANN), List(<<eve, ann>>), Set({p1, p2}, y),
              Many("remove", {p1}), Many("removeMany", {p2}), Many("upload", {p1})}
    @@ r3 :> {Many("remove", {p1}), Many("removeMany", {p1, p2}), Set({p1}, None),
              Many("upload", {p2}), Move(p2, eve)}

Event(e) == [people |-> {p1, p2}, email |-> p1 :> e @@ p2 :> bob @@ p3 :> None @@ p4 :> None,
             key |-> p1 :> k1 @@ p2 :> k2 @@ p3 :> None @@ p4 :> None]
MCStart == {Event(ann), Event(ANN)}
=============================================================================
