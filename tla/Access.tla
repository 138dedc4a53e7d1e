------------------------------- MODULE Access -------------------------------
(***************************************************************************)
(* Who may do what: admins and their passwords, refresh tokens that are    *)
(* rotated, password resets, and the organizers of an event with their     *)
(* permissions.  Requests interleave between their awaits.                 *)
(***************************************************************************)
EXTENDS Naturals, FiniteSets

CONSTANTS
    Requests,
    Admins, Supers,     \* uuids; those of active superadmins
    Hired, Owner,       \* admins at the start; the event's organizerAdmin
    Passwords, Password,
    Tokens, ResetTokens,
    Inputs,             \* what each request may ask for
    Granted,            \* the permissions at the start
    None

Permissions == {"MANAGE_ALL", "MANAGE_SETTINGS", "SCAN_TICKET"}
Ops == {"register", "login", "refresh", "logout", "forgot", "reset",
        "adminCreate", "adminUpdate", "adminRemove", "orgCreate", "orgUpdate", "orgRemove"}
Input == [op : Ops, actor : Admins \cup {None}, admin : Admins \cup {None},
          password : Passwords \cup {None}, token : Tokens \cup ResetTokens \cup {None},
          permissions : SUBSET Permissions]
Nothing == [op |-> "logout", actor |-> None, admin |-> None, password |-> None,
            token |-> None, permissions |-> {}]

ASSUME AccessAssumption ==
    /\ Supers \subseteq Hired /\ Hired \subseteq Admins /\ Owner \in Hired
    /\ Password \in Passwords
    /\ Inputs \in [Requests -> SUBSET Input]
    /\ \A r \in Requests : \A in \in Inputs[r] :         \* what the DTOs require
         /\ in.op \in {"register", "adminCreate", "adminUpdate", "reset"} => in.password # None
         /\ in.op \notin {"refresh", "logout", "reset"} => in.admin # None
         /\ in.op \in {"orgCreate", "orgUpdate"} => in.permissions # {}
    /\ Granted \in [Admins -> SUBSET Permissions]
    /\ \A a \in Admins \ Hired : Granted[a] = {}
    /\ Tokens # {} /\ ResetTokens # {} /\ Tokens \cap ResetTokens = {}
    /\ None \notin Admins \cup Tokens \cup ResetTokens \cup Passwords

VARIABLES
    admins, known, password,    \* rows of Admin; uuids ever used
    owner, permissions,         \* Event.organizerAdmin, EventPermission
    live, holder, expired,      \* rows of RefreshToken and their adminUuid
    resets, resetOf,            \* rows of PasswordResetToken
    pc, input, local,           \* the requests
    \* history
    version,    \* resets of an admin's password
    born,       \* the version of the password a session goes back to
    late,       \* sessions inserted by requests a reset overlapped, and their refreshes
    uses,       \* sessions or passwords a token was exchanged for
    given, mixed,   \* permissions last asked for; admins of overlapping changes
    uncounted       \* an organizer went without, or after, the count

accounts == <<admins, known, password>>
organizers == <<owner, permissions>>
sessions == <<live, holder, expired>>
resetting == <<resets, resetOf>>
requests == <<pc, input, local>>
sessionHistory == <<version, born, late, uses>>
organizerHistory == <<given, mixed, uncounted>>
vars == <<accounts, organizers, sessions, resetting, requests, sessionHistory,
          organizerHistory>>

Organizers == {a \in admins : a = owner \/ permissions[a] # {}}
SessionsOf(a) == {k \in live : holder[k] = a}
FreshTokens == {k \in Tokens : holder[k] = None}
FreshResets == {z \in ResetTokens : resetOf[z] = None}

-----------------------------------------------------------------------------
Fresh == [admin |-> None,   \* whom the token read belongs to
          born |-> 0,       \* history: the version its session goes back to
          seen |-> {},      \* rows its deleteMany saw
          crossed |-> {}]   \* history: what others changed of whom meanwhile

Ended == {"done", "refused"}
In(r) == input[r]

\* The end of r, or its next await; the others notice what r changed.
Step(r, next, l, changed) ==
    /\ pc' = [pc EXCEPT ![r] = next]
    /\ input' = [input EXCEPT ![r] = IF next \in Ended THEN Nothing ELSE @]
    /\ local' = [q \in Requests |->
          IF q = r THEN (IF next \in Ended THEN Fresh ELSE l)
          ELSE IF pc[q] \in Ended \cup {"idle"} THEN local[q]
          ELSE [local[q] EXCEPT !.crossed = @ \cup changed]]
Goto(r, next) == Step(r, next, local[r], {})

OnlyReads == UNCHANGED <<accounts, organizers, sessions, resetting,
                         sessionHistory, organizerHistory>>

\* JwtStrategy.validate reads the admin and its permissions.
\* canActivate of SuperAdminGuard, and of PermissionsGuard for MANAGE_SETTINGS.
MayAdminister(a) == a \in admins \cap Supers
MayOrganize(a) ==
    a \in admins /\ (a \in Supers \/ permissions[a] \cap {"MANAGE_ALL", "MANAGE_SETTINGS"} # {})

Begin(r, in) ==
    /\ pc[r] = "idle"
    /\ input' = [input EXCEPT ![r] = in]
    /\ pc' = [pc EXCEPT ![r] =
          IF \/ in.op \in {"adminCreate", "adminUpdate", "adminRemove"} /\ ~MayAdminister(in.actor)
             \/ in.op \in {"orgCreate", "orgUpdate", "orgRemove"} /\ ~MayOrganize(in.actor)
          THEN "refused" ELSE in.op]
    /\ UNCHANGED local
    /\ OnlyReads

\* The transaction of a reset holds the row of its admin.
RowFree(r, a) == \A q \in Requests \ {r} : pc[q] = "resetCommit" => local[q].admin # a

-----------------------------------------------------------------------------
(* AuthService and AdminsService.                                          *)

\* A new row; an email that is taken is a conflict.
NewAdmin(r) ==
    LET a == In(r).admin IN
    /\ IF a \in known THEN UNCHANGED accounts
       ELSE /\ admins' = admins \cup {a} /\ known' = known \cup {a}
            /\ password' = [password EXCEPT ![a] = In(r).password]
    /\ Goto(r, IF a \in known THEN "refused" ELSE "done")
    /\ UNCHANGED <<organizers, sessions, resetting, sessionHistory, organizerHistory>>

Register(r) == pc[r] = "register" /\ NewAdmin(r)
AdminCreate(r) == pc[r] = "adminCreate" /\ NewAdmin(r)

\* A new password, by a superadmin; the sessions stay.
AdminUpdate(r) ==
    LET a == In(r).admin IN
    /\ pc[r] = "adminUpdate"
    /\ RowFree(r, a)
    /\ password' = [password EXCEPT ![a] = IF a \in admins THEN In(r).password ELSE @]
    /\ Goto(r, IF a \in admins THEN "done" ELSE "refused")
    /\ UNCHANGED <<admins, known, organizers, sessions, resetting, sessionHistory,
                   organizerHistory>>

\* remove: not oneself; tokens and permissions go too, the event loses its owner.
AdminRemove(r) ==
    LET a == In(r).admin IN
    /\ pc[r] = "adminRemove"
    /\ RowFree(r, a)
    /\ IF a # In(r).actor /\ a \in admins
       THEN /\ admins' = admins \ {a}
            /\ live' = live \ SessionsOf(a)
            /\ resets' = {z \in resets : resetOf[z] # a}
            /\ permissions' = [permissions EXCEPT ![a] = {}]
            /\ given' = [given EXCEPT ![a] = {}]
            /\ owner' = IF owner = a THEN None ELSE owner
            /\ uncounted' = (uncounted \/ Organizers = {a})
            /\ Step(r, "done", local[r], {<<"permissions", a>>})
       ELSE /\ Goto(r, "refused")
            /\ UNCHANGED <<admins, live, resets, permissions, given, owner, uncounted>>
    /\ UNCHANGED <<known, password, holder, expired, resetOf, sessionHistory, mixed>>

\* validateUser
Login(r) ==
    LET a == In(r).admin IN
    /\ pc[r] = "login"
    /\ IF a \in admins /\ password[a] = In(r).password
       THEN Step(r, "issue", [local[r] EXCEPT !.admin = a, !.born = version[a]], {})
       ELSE Goto(r, "refused")
    /\ OnlyReads

\* refreshTokens: the stored token with its admin
Refresh(r) ==
    LET k == In(r).token IN
    /\ pc[r] = "refresh"
    /\ IF k \in live
       THEN Step(r, IF k \in expired THEN "dropExpired" ELSE "spend",
                 [local[r] EXCEPT !.admin = holder[k], !.born = born[k]], {})
       ELSE Goto(r, "refused")
    /\ OnlyReads

\* The deletion of an expired token, and of one that logs out.
Drop(r) ==
    /\ pc[r] \in {"dropExpired", "logout"}
    /\ live' = live \ {In(r).token}
    /\ Goto(r, IF pc[r] = "logout" THEN "done" ELSE "refused")
    /\ UNCHANGED <<accounts, organizers, holder, expired, resetting,
                   sessionHistory, organizerHistory>>

\* Mutant of Spend: the count of the deletion is not looked at.
SpendUncounted(r) ==
    /\ pc[r] = "spend"
    /\ live' = live \ {In(r).token}
    /\ Goto(r, "issue")
    /\ UNCHANGED <<accounts, organizers, holder, expired, resetting,
                   sessionHistory, organizerHistory>>

\* deleteMany: only the request that deletes the token goes on.
Spend(r) ==
    /\ pc[r] = "spend"
    /\ live' = live \ {In(r).token}
    /\ Goto(r, IF In(r).token \in live THEN "issue" ELSE "refused")
    /\ UNCHANGED <<accounts, organizers, holder, expired, resetting,
                   sessionHistory, organizerHistory>>

\* A reset of this admin deleted the sessions it saw, and is not committed.
ResetPending(a) == \E q \in Requests : pc[q] = "resetCommit" /\ local[q].admin = a

InsertToken(r, allowed) ==
    LET a == local[r].admin
        k == CHOOSE k \in FreshTokens : TRUE
    IN
    /\ pc[r] = "issue"
    /\ IF allowed
       THEN /\ FreshTokens # {}
            /\ live' = live \cup {k}
            /\ holder' = [holder EXCEPT ![k] = a]
            /\ born' = [born EXCEPT ![k] = local[r].born]
            /\ late' = IF \/ <<"password", a>> \in local[r].crossed \/ ResetPending(a)
                          \/ In(r).token \in late
                       THEN late \cup {k} ELSE late
            /\ uses' = IF In(r).op = "refresh"
                       THEN [uses EXCEPT ![In(r).token] = @ + 1] ELSE uses
            /\ Goto(r, "done")
       ELSE Goto(r, "refused") /\ UNCHANGED <<live, holder, born, late, uses>>
    /\ UNCHANGED <<accounts, organizers, expired, resetting, version, organizerHistory>>

\* Mutant of Issue: the admin may be gone.
IssueToAnyone(r) == InsertToken(r, TRUE)

\* generateRefreshToken; the foreign key refuses an admin who is gone.
Issue(r) == InsertToken(r, local[r].admin \in admins)

\* forgotPassword: a token, if there is such an admin; then the mail.
Forgot(r) ==
    LET a == In(r).admin IN
    /\ pc[r] = "forgot"
    /\ IF a \in admins
       THEN \E z \in FreshResets :
              resets' = resets \cup {z} /\ resetOf' = [resetOf EXCEPT ![z] = a]
       ELSE UNCHANGED resetting
    /\ Goto(r, "done")
    /\ UNCHANGED <<accounts, organizers, sessions, sessionHistory, organizerHistory>>

\* resetPassword: the token, unless it is unknown or expired
Reset(r) ==
    LET z == In(r).token IN
    /\ pc[r] = "reset"
    /\ IF z \in resets \ expired
       THEN Step(r, "resetClear", [local[r] EXCEPT !.admin = resetOf[z]], {})
       ELSE Goto(r, "refused")
    /\ OnlyReads

\* Its transaction: the token goes, with a count, and waits for another reset
\* of the same admin; the sessions that the last deletion sees.
ResetClear(r) ==
    LET a == local[r].admin IN
    /\ pc[r] = "resetClear"
    /\ RowFree(r, a)
    /\ IF In(r).token \in resets
       THEN Step(r, "resetCommit", [local[r] EXCEPT !.seen = SessionsOf(a)], {})
       ELSE Goto(r, "refused")
    /\ OnlyReads

\* A commit that ends these sessions, or the transaction's time limit.
EndReset(r, ended) ==
    LET a == local[r].admin
        z == In(r).token
    IN
    /\ pc[r] = "resetCommit"
    /\ \/ /\ resets' = resets \ {z}
          /\ password' = [password EXCEPT ![a] = In(r).password]
          /\ live' = live \ ended
          /\ version' = [version EXCEPT ![a] = @ + 1]
          /\ uses' = [uses EXCEPT ![z] = @ + 1]
          /\ Step(r, "done", local[r], {<<"password", a>>})
       \/ /\ Goto(r, "refused")
          /\ UNCHANGED <<resets, password, live, version, uses>>
    /\ UNCHANGED <<admins, known, organizers, holder, expired, resetOf, born, late,
                   organizerHistory>>

\* Mutant of ResetCommit: a reset leaves the sessions alone.
ResetCommitOnly(r) == EndReset(r, {})

ResetCommit(r) == EndReset(r, local[r].seen)

\* Time passes; tokens expire.
Expire(t) ==
    /\ t \in (live \cup resets) \ expired
    /\ expired' = expired \cup {t}
    /\ UNCHANGED <<accounts, organizers, live, holder, resetting, requests,
                   sessionHistory, organizerHistory>>

-----------------------------------------------------------------------------
(* OrganizersService.                                                      *)

\* Permissions of an admin change from what a request saw; two that overlap are
\* noted.
Change(r, a, new, asked) ==
    /\ permissions' = [permissions EXCEPT ![a] = new]
    /\ given' = [given EXCEPT ![a] = asked]
    /\ mixed' = IF <<"permissions", a>> \in local[r].crossed THEN mixed \cup {a} ELSE mixed
    /\ Step(r, "done", local[r], {<<"permissions", a>>})

\* create: one transaction; a permission that exists is an error.
OrgCreate(r) ==
    LET a == In(r).admin
        new == In(r).permissions
    IN
    /\ pc[r] = "orgCreate"
    /\ IF a \in admins /\ permissions[a] \cap new = {}
       THEN Change(r, a, permissions[a] \cup new, given[a] \cup new)
       ELSE Goto(r, "refused") /\ UNCHANGED <<permissions, given, mixed>>
    /\ UNCHANGED <<accounts, owner, sessions, resetting, sessionHistory, uncounted>>

\* update, in its transaction: an organizer of the event; the rows it sees go, ...
OrgUpdate(r) ==
    LET a == In(r).admin IN
    /\ pc[r] = "orgUpdate"
    /\ IF a \in Organizers
       THEN Step(r, "orgGrant", [local[r] EXCEPT !.seen = permissions[a]], {})
       ELSE Goto(r, "refused")
    /\ OnlyReads

\* ... and the new ones come, unless another request added one of them since.
OrgGrant(r) ==
    LET a == In(r).admin
        kept == permissions[a] \ local[r].seen
    IN
    /\ pc[r] = "orgGrant"
    /\ IF a \in admins /\ kept \cap In(r).permissions = {}
       THEN Change(r, a, kept \cup In(r).permissions, In(r).permissions)
       ELSE Goto(r, "refused") /\ UNCHANGED <<permissions, given, mixed>>
    /\ UNCHANGED <<accounts, owner, sessions, resetting, sessionHistory, uncounted>>

\* remove: an organizer of the event, ...
OrgRemove(r) ==
    /\ pc[r] = "orgRemove"
    /\ Goto(r, IF In(r).admin \in Organizers THEN "orgCount" ELSE "refused")
    /\ OnlyReads

\* Mutant of OrgCount: also the last organizer may go.
OrgCountNone(r) ==
    /\ pc[r] = "orgCount"
    /\ Goto(r, "orgDelete")
    /\ OnlyReads

\* ... not the last one, ...
OrgCount(r) ==
    /\ pc[r] = "orgCount"
    /\ Goto(r, IF Cardinality(Organizers) <= 1 THEN "refused" ELSE "orgDelete")
    /\ OnlyReads

\* ... loses the permissions (an owner stays an organizer).
OrgDelete(r) ==
    LET a == In(r).admin IN
    /\ pc[r] = "orgDelete"
    /\ Change(r, a, {}, {})
    /\ uncounted' = (uncounted \/ \E c \in local[r].crossed : c[1] = "permissions")
    /\ UNCHANGED <<accounts, owner, sessions, resetting, sessionHistory>>

-----------------------------------------------------------------------------
FirstToken == CHOOSE k \in Tokens : TRUE
FirstReset == CHOOSE z \in ResetTokens : TRUE

\* The owner has a session and has asked for a password reset.
Init ==
    /\ admins = Hired /\ known = Hired
    /\ password = [a \in Admins |-> Password]
    /\ owner = Owner /\ permissions = Granted /\ given = Granted
    /\ live = {FirstToken} /\ resets = {FirstReset} /\ expired = {}
    /\ holder = [k \in Tokens |-> IF k = FirstToken THEN Owner ELSE None]
    /\ resetOf = [z \in ResetTokens |-> IF z = FirstReset THEN Owner ELSE None]
    /\ pc = [r \in Requests |-> "idle"]
    /\ input = [r \in Requests |-> Nothing]
    /\ local = [r \in Requests |-> Fresh]
    /\ version = [a \in Admins |-> 0] /\ born = [k \in Tokens |-> 0]
    /\ late = {} /\ uses = [t \in Tokens \cup ResetTokens |-> 0]
    /\ mixed = {} /\ uncounted = FALSE

Next ==
    \/ \E r \in Requests :
        \/ \E in \in Inputs[r] : Begin(r, in)
        \/ Register(r) \/ AdminCreate(r) \/ AdminUpdate(r) \/ AdminRemove(r)
        \/ Login(r) \/ Refresh(r) \/ Drop(r) \/ Spend(r) \/ Issue(r)
        \/ Forgot(r) \/ Reset(r) \/ ResetClear(r) \/ ResetCommit(r)
        \/ OrgCreate(r) \/ OrgUpdate(r) \/ OrgGrant(r)
        \/ OrgRemove(r) \/ OrgCount(r) \/ OrgDelete(r)
    \/ \E t \in Tokens \cup ResetTokens : Expire(t)

Spec == Init /\ [][Next]_vars

-----------------------------------------------------------------------------
TypeOK ==
    /\ admins \subseteq known /\ known \subseteq Admins
    /\ password \in [Admins -> Passwords]
    /\ owner \in admins \cup {None}
    /\ permissions \in [Admins -> SUBSET Permissions]
    /\ \A a \in Admins \ admins : permissions[a] = {}
    /\ live \subseteq Tokens /\ \A k \in live : holder[k] \in admins
    /\ resets \subseteq ResetTokens /\ \A z \in resets : resetOf[z] \in admins
    /\ expired \subseteq Tokens \cup ResetTokens
    /\ input \in [Requests -> Input]
    /\ uncounted \in BOOLEAN

\* A refresh token is exchanged for one session at most, and a reset token for
\* one password, however many requests present it at once.
TokenSpentOnce == \A t \in Tokens \cup ResetTokens : uses[t] <= 1

\* No session outlives a reset of its admin's password (a session is as old as
\* the password it began with, through all its refreshes), except one that a
\* login or refresh inserts while the reset runs, and what that is exchanged for.
ResetEndsSessions ==
    \A k \in live : k \in late \/ born[k] = version[holder[k]]

\* Whoever is removed or updated has exactly the permissions of that request,
\* unless it overlapped another one about the same admin.
PermissionsReplaced ==
    \A a \in Admins \ mixed : permissions[a] = given[a]

\* The event has an organizer, unless an organizer's account was deleted (no one
\* counts then) or a removal overlapped another change of the organizers; and
\* its organizers have the permissions they were given.
OrganizersExplained == (Organizers # {} \/ uncounted) /\ PermissionsReplaced

\* The claim of remove: it never takes the last organizer from the event
\* (organizers.service.ts:301).
NeverTakesTheLast ==
    [][\A r \in Requests : pc[r] = "orgDelete" /\ Organizers # {} => Organizers' # {}]_vars
=============================================================================
