------------------------------ MODULE MCAccess ------------------------------
(***************************************************************************)
(* Access for TLC: the owner of an event, two organizers, a superadmin.    *)
(***************************************************************************)
EXTENDS Access, TLC

CONSTANTS r1, r2, r3, own, m1, m2, boss, rookie, k1, k2, k3, k4, z1, z2, pw1, pw2

All == {"MANAGE_ALL"}
MCGranted == [a \in Admins |-> IF a \in {own, m1, m2} THEN All ELSE {}]

Ask(o) == [Nothing EXCEPT !.op = o]
By(o, actor, a, S) == [Nothing EXCEPT !.op = o, !.actor = actor, !.admin = a, !.permissions = S]
Token(o, t) == [Nothing EXCEPT !.op = o, !.token = t, !.password = pw2]
LogsIn(a, p) == [Nothing EXCEPT !.op = "login", !.admin = a, !.password = p]

MCInputs ==
    r1 :> {LogsIn(own, pw1), Token("refresh", k1), Token("reset", z1), Token("logout", k1),
           [By("register", None, rookie, {}) EXCEPT !.password = pw2],
           By("adminRemove", boss, own, {}), By("orgRemove", m1, own, {}),
           By("orgUpdate", m1, m2, {"SCAN_TICKET"}), By("orgRemove", m1, m2, {})}
    @@ r2 :> {LogsIn(own, pw1), Token("refresh", k1), Token("refresh", k2), Token("reset", z1),
              [By("adminUpdate", boss, own, {}) EXCEPT !.password = pw2],
              By("adminRemove", boss, m2, {}),
              [By("adminCreate", boss, rookie, {}) EXCEPT !.password = pw1],
              By("orgRemove", m2, m1, {}), By("orgUpdate", m2, m2, {"MANAGE_SETTINGS"}),
              By("orgCreate", m2, m1, {"SCAN_TICKET"})}
    @@ r3 :> {LogsIn(own, pw2), Token("refresh", k1), Token("refresh", k2), Token("reset", z2),
              [Ask("forgot") EXCEPT !.admin = own], By("adminRemove", boss, own, {}),
              By("orgRemove", boss, m1, {}), By("orgUpdate", boss, m1, All),
              By("orgCreate", m2, m1, All)}

\* Two organizers remove each other after the owner's account is gone.
RemovalInputs ==
    r1 :> {By("adminRemove", boss, own, {})}
    @@ r2 :> {By("orgRemove", m2, m1, {})}
    @@ r3 :> {By("orgRemove", m1, m2, {})}
=============================================================================
