---------------------------- MODULE Access_proofs ----------------------------
(***************************************************************************)
(* What holds of Access for every number of admins, requests and tokens:   *)
(* types, single use of tokens, the end of sessions by a reset, and the    *)
(* organizers of an event.                                                 *)
(***************************************************************************)
EXTENDS Access, FiniteSetTheorems, TLAPS

Marks == {"permissions", "password"} \X Admins
Locals == [admin : Admins \cup {None}, born : Nat, seen : SUBSET (Tokens \cup Permissions),
           crossed : SUBSET Marks]
AllTokens == Tokens \cup ResetTokens

Steps == Ops \cup {"idle", "done", "refused", "dropExpired", "spend", "issue", "resetClear",
                   "resetCommit", "orgGrant", "orgCount", "orgDelete"}

Types ==
    /\ TypeOK
    /\ pc \in [Requests -> Steps]
    /\ local \in [Requests -> Locals]
    /\ holder \in [Tokens -> Admins \cup {None}]
    /\ resetOf \in [ResetTokens -> Admins \cup {None}]
    /\ version \in [Admins -> Nat] /\ born \in [Tokens -> Nat]
    /\ uses \in [AllTokens -> Nat]
    /\ given \in [Admins -> SUBSET Permissions]

\* A request that is under way carries an input it may have, and at each await
\* it is one of the requests that get there.
FlowOf(r) ==
    /\ pc[r] \notin {"idle", "done", "refused"} => In(r) \in Inputs[r]
    /\ pc[r] \in Ops => In(r).op = pc[r]
    /\ pc[r] \in {"dropExpired", "spend"} => In(r).op = "refresh"
    /\ pc[r] = "issue" => In(r).op \in {"login", "refresh"}
    /\ pc[r] \in {"resetClear", "resetCommit"} => In(r).op = "reset"
    /\ pc[r] = "orgGrant" => In(r).op = "orgUpdate"
    /\ pc[r] \in {"orgCount", "orgDelete"} => In(r).op = "orgRemove"
    /\ pc[r] \in {"spend", "issue"} => local[r].admin \in Admins
Flow == \A r \in Requests : FlowOf(r)

\* A token that is there is unspent; who is about to exchange one has deleted it
\* and is alone.
Exchanges(r) == pc[r] = "issue" /\ In(r).op = "refresh"
RefreshInv ==
    /\ \A k \in live : uses[k] = 0
    /\ \A k \in Tokens : holder[k] = None => k \notin live /\ uses[k] = 0
    /\ \A r \in Requests : Exchanges(r) =>
         /\ In(r).token \in Tokens \ live
         /\ holder[In(r).token] # None /\ uses[In(r).token] = 0
    /\ \A r, q \in Requests :
         Exchanges(r) /\ Exchanges(q) /\ In(r).token = In(q).token => r = q

\* The transactions of two resets of one admin do not overlap, and the token of
\* one that will commit is there.
ResetInv ==
    /\ \A z \in resets : uses[z] = 0
    /\ \A z \in ResetTokens : resetOf[z] = None => z \notin resets /\ uses[z] = 0
    /\ \A r \in Requests : pc[r] \in {"resetClear", "resetCommit"} =>
         /\ In(r).token \in ResetTokens /\ local[r].admin \in Admins
         /\ resetOf[In(r).token] = local[r].admin
    /\ \A r \in Requests : pc[r] = "resetCommit" => In(r).token \in resets
    /\ \A r, q \in Requests :
         pc[r] = "resetCommit" /\ pc[q] = "resetCommit"
           /\ local[r].admin = local[q].admin => r = q

\* What a request will insert is as old as the password it read, or a reset has
\* crossed it; a reset that will commit has seen every session that is not late.
WillInsert(r) ==
    pc[r] \in {"spend", "issue"} =>
         \/ <<"password", local[r].admin>> \in local[r].crossed
         \/ In(r).token \in late
         \/ local[r].born = version[local[r].admin]
WillEnd(r) ==
    pc[r] = "resetCommit" => SessionsOf(local[r].admin) \subseteq late \cup local[r].seen
SessionInv ==
    ResetEndsSessions /\ \A r \in Requests : WillInsert(r) /\ WillEnd(r)

\* The rows that an update read are the admin's permissions, and a removal that
\* counted found two organizers, unless another request crossed them.
WillGrant(r) ==
    pc[r] = "orgGrant" => \/ <<"permissions", In(r).admin>> \in local[r].crossed
                          \/ permissions[In(r).admin] = local[r].seen
WillDelete(r) ==
    pc[r] = "orgDelete" => \/ \E c \in local[r].crossed : c[1] = "permissions"
                           \/ \E a, b \in Organizers : a # b
OrganizerInv ==
    /\ OrganizersExplained
    /\ \A r \in Requests : WillGrant(r) /\ WillDelete(r)

AccessInv == Types /\ Flow /\ TokenSpentOnce /\ RefreshInv /\ ResetInv /\ SessionInv /\ OrganizerInv

-----------------------------------------------------------------------------
(* What a step leaves of the other requests.                               *)

Same(q) ==
    /\ pc'[q] = pc[q] /\ input'[q] = input[q]
    /\ local'[q].admin = local[q].admin /\ local'[q].born = local[q].born
    /\ local'[q].seen = local[q].seen /\ local[q].crossed \subseteq local'[q].crossed

\* A step of r: its own next await, and what the others keep.
LEMMA StepIs ==
    ASSUME Types, NEW r \in Requests, NEW next \in Steps, NEW l \in Locals,
           NEW changed \in SUBSET Marks, Step(r, next, l, changed)
    PROVE  /\ pc' \in [Requests -> Steps] /\ pc'[r] = next
           /\ input' \in [Requests -> Input]
           /\ input'[r] = IF next \in Ended THEN Nothing ELSE input[r]
           /\ local' \in [Requests -> Locals]
           /\ next \notin Ended => local'[r] = l
           /\ \A q \in Requests \ {r} :
                /\ Same(q)
                /\ pc[q] \notin Ended \cup {"idle"} => changed \subseteq local'[q].crossed
<1>1. Nothing \in Input
  BY DEF Nothing, Input, Ops
<1>2. Fresh \in Locals
  BY DEF Fresh, Locals
<1>3. input \in [Requests -> Input] /\ pc \in [Requests -> Steps] /\ local \in [Requests -> Locals]
  BY DEF Types, TypeOK
<1>4. \A q \in Requests \ {r} : [local[q] EXCEPT !.crossed = @ \cup changed] \in Locals
  BY <1>3 DEF Locals
<1>5. local' \in [Requests -> Locals]
  BY <1>2, <1>3, <1>4 DEF Step
<1>6. \A q \in Requests \ {r} : local'[q] = IF pc[q] \in Ended \cup {"idle"} THEN local[q]
                                            ELSE [local[q] EXCEPT !.crossed = @ \cup changed]
  BY DEF Step
<1>7. \A q \in Requests \ {r} :
        /\ local'[q].admin = local[q].admin /\ local'[q].born = local[q].born
        /\ local'[q].seen = local[q].seen /\ local[q].crossed \subseteq local'[q].crossed
        /\ pc[q] \notin Ended \cup {"idle"} => changed \subseteq local'[q].crossed
  <2> SUFFICES ASSUME NEW q \in Requests \ {r}
               PROVE  /\ local'[q].admin = local[q].admin /\ local'[q].born = local[q].born
                      /\ local'[q].seen = local[q].seen
                      /\ local[q].crossed \subseteq local'[q].crossed
                      /\ pc[q] \notin Ended \cup {"idle"} => changed \subseteq local'[q].crossed
    OBVIOUS
  <2>1. CASE pc[q] \in Ended \cup {"idle"}
    <3>1. local'[q] = local[q]
      BY <1>6, <2>1
    <3> QED
      BY <2>1, <3>1
  <2>2. CASE pc[q] \notin Ended \cup {"idle"}
    <3>1. local'[q] = [local[q] EXCEPT !.crossed = @ \cup changed]
      BY <1>6, <2>2
    <3>2. local[q] \in Locals
      BY <1>3
    <3> QED
      BY <3>1, <3>2 DEF Locals
  <2> QED
    BY <2>1, <2>2
<1> QED
  BY <1>1, <1>3, <1>5, <1>7 DEF Step, Same

\* The same for a request that only goes on.
LEMMA GotoIs ==
    ASSUME Types, NEW r \in Requests, NEW next \in Steps, Goto(r, next)
    PROVE  /\ pc' \in [Requests -> Steps] /\ pc'[r] = next
           /\ input' \in [Requests -> Input]
           /\ input'[r] = IF next \in Ended THEN Nothing ELSE input[r]
           /\ local' \in [Requests -> Locals]
           /\ next \notin Ended => local'[r] = local[r]
           /\ \A q \in Requests \ {r} : Same(q)
<1>1. local[r] \in Locals
  BY DEF Types
<1> QED
  BY <1>1, StepIs DEF Goto

-----------------------------------------------------------------------------
(* Types.                                                                  *)

\* The types at the start.
LEMMA InitTypes == Init => Types
<1> SUFFICES ASSUME Init PROVE Types
  OBVIOUS
<1>1. FirstToken \in Tokens /\ FirstReset \in ResetTokens
  BY AccessAssumption DEF FirstToken, FirstReset
<1>2. Fresh \in Locals /\ Nothing \in Input
  BY DEF Fresh, Locals, Nothing, Input, Ops
<1>3. TypeOK
  BY <1>1, <1>2, AccessAssumption DEF Init, TypeOK
<1>4. pc \in [Requests -> Steps]
  <2>1. pc = [r \in Requests |-> "idle"]
    BY DEF Init
  <2> QED
    BY <2>1 DEF Steps
<1>7. local \in [Requests -> Locals]
  <2>1. local = [r \in Requests |-> Fresh]
    BY DEF Init
  <2> QED
    BY <1>2, <2>1
<1>5. /\ holder \in [Tokens -> Admins \cup {None}]
      /\ resetOf \in [ResetTokens -> Admins \cup {None}]
  BY AccessAssumption DEF Init
<1>6. /\ version \in [Admins -> Nat] /\ born \in [Tokens -> Nat]
      /\ uses \in [AllTokens -> Nat] /\ given \in [Admins -> SUBSET Permissions]
  BY AccessAssumption DEF Init, AllTokens
<1> QED
  BY <1>3, <1>4, <1>5, <1>6, <1>7 DEF Types

\* Every action but the passing of time is a step of one request.
Acts(r) ==
    \/ \E in \in Inputs[r] : Begin(r, in)
    \/ Register(r) \/ AdminCreate(r) \/ AdminUpdate(r) \/ AdminRemove(r)
    \/ Login(r) \/ Refresh(r) \/ Drop(r) \/ Spend(r) \/ Issue(r)
    \/ Forgot(r) \/ Reset(r) \/ ResetClear(r) \/ ResetCommit(r)
    \/ OrgCreate(r) \/ OrgUpdate(r) \/ OrgGrant(r)
    \/ OrgRemove(r) \/ OrgCount(r) \/ OrgDelete(r)

\* Its part of the control: from where to where it goes, with what it carries.
Moves(r) ==
    /\ pc' \in [Requests -> Steps]
    /\ input' \in [Requests -> Input]
    /\ local' \in [Requests -> Locals]
    /\ \A q \in Requests \ {r} : Same(q)

Ends(r) == pc'[r] \in Ended
Goes(r, next) == pc'[r] = next /\ input'[r] = input[r]
Keeps(r) == local'[r] = local[r]

\* The tokens and the password of an input that may be asked are of their sets.
LEMMA InputsAre ==
    ASSUME NEW r \in Requests, NEW in \in Inputs[r]
    PROVE  /\ in \in Input
           /\ in.op \in {"register", "adminCreate", "adminUpdate", "reset"} =>
                in.password \in Passwords
           /\ in.op \notin {"refresh", "logout", "reset"} => in.admin \in Admins
<1>1. in \in Input
  BY AccessAssumption
<1>2. /\ in.password \in Passwords \cup {None} /\ in.admin \in Admins \cup {None}
  BY <1>1 DEF Input
<1> QED
  BY <1>1, <1>2, AccessAssumption

\* Where the steps of a request lead.
LEMMA BeginMoves ==
    ASSUME Types, NEW r \in Requests, NEW in \in Inputs[r], Begin(r, in)
    PROVE  /\ Moves(r) /\ OnlyReads /\ pc[r] = "idle" /\ local' = local
           /\ input'[r] = in /\ in \in Inputs[r]
           /\ Ends(r) \/ pc'[r] = in.op
<1>1. in \in Input
  BY InputsAre
<1>2. in.op \in Steps
  BY <1>1 DEF Input, Steps
<1>3. input \in [Requests -> Input] /\ pc \in [Requests -> Steps] /\ local \in [Requests -> Locals]
  BY DEF Types, TypeOK
<1> QED
  BY <1>1, <1>2, <1>3 DEF Begin, Moves, Same, Ends, Ended, Steps

\* A login that finds the password takes the admin and the version along.
LEMMA LoginMoves ==
    ASSUME Types, Flow, NEW r \in Requests, Login(r)
    PROVE  /\ Moves(r) /\ OnlyReads /\ pc[r] = "login"
           /\ Ends(r) \/ ( /\ Goes(r, "issue") /\ In(r).admin \in admins
                           /\ local'[r].admin = In(r).admin
                           /\ local'[r].born = version[In(r).admin] )
<1>1. CASE In(r).admin \in admins /\ password[In(r).admin] = In(r).password
  <2>1. Step(r, "issue", [local[r] EXCEPT !.admin = In(r).admin, !.born = version[In(r).admin]], {})
    BY <1>1 DEF Login
  <2>2. [local[r] EXCEPT !.admin = In(r).admin, !.born = version[In(r).admin]] \in Locals
    <3>1. In(r).admin \in Admins /\ version[In(r).admin] \in Nat
      BY <1>1 DEF Types, TypeOK
    <3>2. local[r] \in Locals
      BY DEF Types
    <3> QED
      BY <3>1, <3>2 DEF Locals
  <2> DEFINE l == [local[r] EXCEPT !.admin = In(r).admin, !.born = version[In(r).admin]]
  <2>3. l.admin = In(r).admin /\ l.born = version[In(r).admin]
    BY DEF Types, Locals
  <2> HIDE DEF l
  <2>4. Step(r, "issue", l, {})
    BY <2>1 DEF l
  <2>5. l \in Locals
    BY <2>2 DEF l
  <2> QED
    BY <1>1, <2>3, <2>4, <2>5, StepIs DEF Login, Moves, Goes, Ends, Ended, Steps
<1>2. CASE ~(In(r).admin \in admins /\ password[In(r).admin] = In(r).password)
  <2>1. Goto(r, "refused")
    BY <1>2 DEF Login
  <2> QED
    BY <2>1, GotoIs DEF Login, Moves, Ends, Ended, Steps
<1> QED
  BY <1>1, <1>2

\* A refresh that finds its token takes along whom and what it goes back to.
LEMMA RefreshMoves ==
    ASSUME Types, Flow, NEW r \in Requests, Refresh(r)
    PROVE  /\ Moves(r) /\ OnlyReads /\ pc[r] = "refresh"
           /\ Ends(r) \/ ( /\ Goes(r, "dropExpired") \/ Goes(r, "spend")
                           /\ In(r).token \in live
                           /\ local'[r].admin = holder[In(r).token]
                           /\ local'[r].born = born[In(r).token] )
<1>1. CASE In(r).token \in live
  <2> DEFINE l == [local[r] EXCEPT !.admin = holder[In(r).token], !.born = born[In(r).token]]
             next == IF In(r).token \in expired THEN "dropExpired" ELSE "spend"
  <2>1. Step(r, next, l, {})
    BY <1>1 DEF Refresh
  <2>2. /\ local[r] \in Locals
        /\ holder[In(r).token] \in Admins \cup {None} /\ born[In(r).token] \in Nat
    BY <1>1 DEF Types, TypeOK
  <2>3. l \in Locals /\ l.admin = holder[In(r).token] /\ l.born = born[In(r).token]
    BY <2>2 DEF Locals
  <2>4. next \in {"dropExpired", "spend"} /\ next \in Steps
    BY DEF Steps
  <2> HIDE DEF l, next
  <2> QED
    BY SMTT(20), <1>1, <2>1, <2>3, <2>4, StepIs DEF Refresh, Moves, Goes, Ends, Ended, Steps
<1>2. CASE In(r).token \notin live
  <2>1. Goto(r, "refused")
    BY <1>2 DEF Refresh
  <2> QED
    BY <2>1, GotoIs DEF Refresh, Moves, Ends, Ended, Steps
<1> QED
  BY <1>1, <1>2

\* A reset that finds its token takes along whose it is.
LEMMA ResetMoves ==
    ASSUME Types, Flow, NEW r \in Requests, Reset(r)
    PROVE  /\ Moves(r) /\ OnlyReads /\ pc[r] = "reset"
           /\ Ends(r) \/ ( /\ Goes(r, "resetClear") /\ In(r).token \in resets
                           /\ local'[r].admin = resetOf[In(r).token] )
<1>1. CASE In(r).token \in resets \ expired
  <2> DEFINE l == [local[r] EXCEPT !.admin = resetOf[In(r).token]]
  <2>1. Step(r, "resetClear", l, {})
    BY <1>1 DEF Reset
  <2>2. local[r] \in Locals /\ resetOf[In(r).token] \in Admins \cup {None}
    BY <1>1 DEF Types, TypeOK
  <2>3. l \in Locals /\ l.admin = resetOf[In(r).token]
    BY <2>2 DEF Locals
  <2> HIDE DEF l
  <2> QED
    BY SMTT(20), <1>1, <2>1, <2>3, StepIs DEF Reset, Moves, Goes, Ends, Ended, Steps
<1>2. CASE In(r).token \notin resets \ expired
  <2>1. Goto(r, "refused")
    BY <1>2 DEF Reset
  <2> QED
    BY <2>1, GotoIs DEF Reset, Moves, Ends, Ended, Steps
<1> QED
  BY <1>1, <1>2

\* A reset that finds its token again has seen its admin's sessions.
LEMMA ResetClearMoves ==
    ASSUME Types, Flow, NEW r \in Requests, ResetClear(r)
    PROVE  /\ Moves(r) /\ OnlyReads /\ pc[r] = "resetClear"
           /\ RowFree(r, local[r].admin)
           /\ Ends(r) \/ ( /\ Goes(r, "resetCommit") /\ In(r).token \in resets
                           /\ local'[r].admin = local[r].admin
                           /\ local'[r].seen = SessionsOf(local[r].admin) )
<1>3. /\ OnlyReads /\ pc[r] = "resetClear" /\ RowFree(r, local[r].admin)
  BY DEF ResetClear
<1>1. CASE In(r).token \in resets
  <2> DEFINE l == [local[r] EXCEPT !.seen = SessionsOf(local[r].admin)]
  <2>1. Step(r, "resetCommit", l, {})
    BY <1>1 DEF ResetClear
  <2>2. SessionsOf(local[r].admin) \subseteq Tokens
    BY DEF SessionsOf, Types, TypeOK
  <2>3. l \in Locals
    BY <2>2 DEF Types, Locals
  <2>4. l.seen = SessionsOf(local[r].admin) /\ l.admin = local[r].admin
    BY DEF Types, Locals
  <2> HIDE DEF l
  <2> QED
    <3>1. /\ pc' \in [Requests -> Steps] /\ pc'[r] = "resetCommit"
          /\ input' \in [Requests -> Input] /\ input'[r] = input[r]
          /\ local' \in [Requests -> Locals] /\ local'[r] = l
          /\ \A q \in Requests \ {r} : Same(q)
      BY <2>1, <2>3, StepIs DEF Ended, Steps
    <3>2. Moves(r) /\ Goes(r, "resetCommit")
      BY <3>1 DEF Moves, Goes
    <3> QED
      BY <1>1, <1>3, <2>4, <3>1, <3>2
<1>2. CASE In(r).token \notin resets
  <2>1. Goto(r, "refused")
    BY <1>2 DEF ResetClear
  <2> QED
    BY <1>3, <2>1, GotoIs DEF Moves, Ends, Ended, Steps
<1> QED
  BY <1>1, <1>2

\* An update of an organizer has seen the organizer's permissions.
LEMMA OrgUpdateMoves ==
    ASSUME Types, Flow, NEW r \in Requests, OrgUpdate(r)
    PROVE  /\ Moves(r) /\ OnlyReads /\ pc[r] = "orgUpdate"
           /\ Ends(r) \/ ( /\ Goes(r, "orgGrant")
                           /\ local'[r].seen = permissions[In(r).admin] )
<1>1. CASE In(r).admin \in Organizers
  <2> DEFINE l == [local[r] EXCEPT !.seen = permissions[In(r).admin]]
  <2>1. Step(r, "orgGrant", l, {})
    BY <1>1 DEF OrgUpdate
  <2>2. permissions[In(r).admin] \subseteq Permissions
    BY <1>1 DEF Types, TypeOK, Organizers
  <2>3. l \in Locals
    BY <2>2 DEF Types, Locals
  <2>4. l.seen = permissions[In(r).admin]
    BY DEF Types, Locals
  <2> HIDE DEF l
  <2> QED
    BY <1>1, <2>1, <2>3, <2>4, StepIs DEF OrgUpdate, Moves, Goes, Ends, Ended, Steps
<1>2. CASE In(r).admin \notin Organizers
  <2>1. Goto(r, "refused")
    BY <1>2 DEF OrgUpdate
  <2> QED
    BY <2>1, GotoIs DEF OrgUpdate, Moves, Ends, Ended, Steps
<1> QED
  BY <1>1, <1>2

\* A removal goes on past two organizers only.
LEMMA OrgReadMoves ==
    ASSUME Types, Flow, NEW r \in Requests, OrgRemove(r) \/ OrgCount(r)
    PROVE  /\ Moves(r) /\ OnlyReads /\ pc[r] \in {"orgRemove", "orgCount"}
           /\ \/ Ends(r)
              \/ Goes(r, "orgCount") /\ pc[r] = "orgRemove"
              \/ Goes(r, "orgDelete") /\ pc[r] = "orgCount" /\ ~(Cardinality(Organizers) <= 1)
<1>1. CASE OrgRemove(r)
  <2> DEFINE next == IF In(r).admin \in Organizers THEN "orgCount" ELSE "refused"
  <2>1. Goto(r, next)
    BY <1>1 DEF OrgRemove
  <2>2. next \in Steps /\ next \in {"orgCount", "refused"}
    BY DEF Steps
  <2> HIDE DEF next
  <2> QED
    BY <1>1, <2>1, <2>2, GotoIs DEF OrgRemove, Moves, Goes, Ends, Ended, Steps
<1>2. CASE OrgCount(r)
  <2> DEFINE next == IF Cardinality(Organizers) <= 1 THEN "refused" ELSE "orgDelete"
  <2>1. Goto(r, next)
    BY <1>2 DEF OrgCount
  <2>2. next \in Steps /\ next \in {"orgDelete", "refused"}
    BY DEF Steps
  <2>3. next = "orgDelete" => ~(Cardinality(Organizers) <= 1)
    OBVIOUS
  <2> HIDE DEF next
  <2> QED
    BY <1>2, <2>1, <2>2, <2>3, GotoIs DEF OrgCount, Moves, Goes, Ends, Ended, Steps
<1> QED
  BY <1>1, <1>2

\* The requests under way take notice of what r changed.
Crosses(r, m) ==
    \A q \in Requests \ {r} : pc[q] \notin Ended \cup {"idle"} => m \in local'[q].crossed

\* The requests that end with one step.
LEMMA Finishes ==
    ASSUME Types, NEW r \in Requests,
           Register(r) \/ AdminCreate(r) \/ AdminUpdate(r) \/ Drop(r) \/ Issue(r) \/ Forgot(r)
    PROVE  Moves(r) /\ Ends(r)
<1> DEFINE Goal == \E next \in Ended : Goto(r, next)
<1>1. ASSUME Goal PROVE Moves(r) /\ Ends(r)
  <2>1. PICK next \in Ended : Goto(r, next)
    BY <1>1
  <2>2. next \in Steps
    BY DEF Ended, Steps
  <2> QED
    BY <2>1, <2>2, GotoIs DEF Moves, Ends
<1>2. ASSUME Register(r) \/ AdminCreate(r) PROVE Goal
  BY <1>2 DEF Register, AdminCreate, NewAdmin, Ended
<1>3. ASSUME AdminUpdate(r) PROVE Goal
  BY <1>3 DEF AdminUpdate, Ended
<1>4. ASSUME Drop(r) PROVE Goal
  BY <1>4 DEF Drop, Ended
<1>5. ASSUME Issue(r) PROVE Goal
  BY <1>5 DEF Issue, InsertToken, Ended
<1>6. ASSUME Forgot(r) PROVE Goal
  BY <1>6 DEF Forgot, Ended
<1> HIDE DEF Goal
<1> QED
  BY <1>1, <1>2, <1>3, <1>4, <1>5, <1>6

\* A refresh goes on if the token it deletes was there.
LEMMA SpendMoves ==
    ASSUME Types, NEW r \in Requests, Spend(r)
    PROVE  /\ Moves(r) /\ (Keeps(r) \/ Ends(r))
           /\ pc[r] = "spend" /\ live' = live \ {In(r).token}
           /\ Ends(r) \/ (Goes(r, "issue") /\ In(r).token \in live)
           /\ UNCHANGED <<accounts, organizers, holder, expired, resetting,
                          sessionHistory, organizerHistory>>
<1> DEFINE next == IF In(r).token \in live THEN "issue" ELSE "refused"
<1>1. Goto(r, next)
  BY DEF Spend
<1>2. next \in {"issue", "refused"} /\ next \in Steps
  BY DEF Steps
<1>3. next = "issue" => In(r).token \in live
  OBVIOUS
<1>4. /\ pc[r] = "spend" /\ live' = live \ {In(r).token}
      /\ UNCHANGED <<accounts, organizers, holder, expired, resetting,
                     sessionHistory, organizerHistory>>
  BY DEF Spend
<1> HIDE DEF next
<1> QED
  BY <1>1, <1>2, <1>3, <1>4, GotoIs DEF Moves, Ends, Goes, Keeps, Ended

\* The end of a request that others notice, ...
LEMMA EndsCrossing ==
    ASSUME Types, NEW r \in Requests, NEW m \in Marks, Step(r, "done", local[r], {m})
    PROVE  Moves(r) /\ Ends(r) /\ Crosses(r, m)
<1>1. local[r] \in Locals /\ {m} \in SUBSET Marks /\ "done" \in Steps
  BY DEF Types, Steps
<1> QED
  BY <1>1, StepIs DEF Moves, Ends, Ended, Crosses

\* ... and of one that is refused.
LEMMA EndsRefused ==
    ASSUME Types, NEW r \in Requests, Goto(r, "refused")
    PROVE  Moves(r) /\ Ends(r)
BY GotoIs DEF Moves, Ends, Ended, Steps

\* The removal of an admin is refused, or noticed as a change of permissions.
LEMMA AdminRemoveMoves ==
    ASSUME Types, Flow, NEW r \in Requests, AdminRemove(r)
    PROVE  /\ Moves(r) /\ Ends(r)
           /\ OnlyReads \/ ( /\ In(r).admin \in admins
                             /\ Crosses(r, <<"permissions", In(r).admin>>) )
<1>1. CASE In(r).admin # In(r).actor /\ In(r).admin \in admins
  <2>1. <<"permissions", In(r).admin>> \in Marks
    BY <1>1 DEF Types, TypeOK, Marks
  <2>2. Step(r, "done", local[r], {<<"permissions", In(r).admin>>})
    BY <1>1 DEF AdminRemove
  <2> QED
    BY <1>1, <2>1, <2>2, EndsCrossing
<1>2. CASE ~(In(r).admin # In(r).actor /\ In(r).admin \in admins)
  <2>1. Goto(r, "refused")
    BY <1>2 DEF AdminRemove
  <2>2. OnlyReads
    BY <1>2 DEF AdminRemove, OnlyReads, accounts, organizers, sessions, resetting,
                sessionHistory, organizerHistory
  <2> QED
    BY <2>1, <2>2, EndsRefused
<1> QED
  BY <1>1, <1>2

\* What a reset that commits leaves behind.
Resets(r) ==
    LET a == local[r].admin
        z == In(r).token
    IN
    /\ resets' = resets \ {z}
    /\ password' = [password EXCEPT ![a] = In(r).password]
    /\ live' = live \ local[r].seen
    /\ version' = [version EXCEPT ![a] = @ + 1]
    /\ uses' = [uses EXCEPT ![z] = @ + 1]
    /\ Crosses(r, <<"password", a>>)

\* A reset commits, or leaves the rows alone.
LEMMA ResetCommitMoves ==
    ASSUME Types, Flow, ResetInv, NEW r \in Requests, ResetCommit(r)
    PROVE  /\ Moves(r) /\ Ends(r) /\ pc[r] = "resetCommit"
           /\ Resets(r) \/ UNCHANGED <<resets, password, live, version, uses>>
           /\ UNCHANGED <<admins, known, organizers, holder, expired, resetOf, born, late,
                          organizerHistory>>
<1>1. pc[r] = "resetCommit" /\ local[r].admin \in Admins
  BY DEF ResetCommit, EndReset, ResetInv
<1>2. <<"password", local[r].admin>> \in Marks
  BY <1>1 DEF Marks
<1>3. \/ /\ resets' = resets \ {In(r).token}
         /\ password' = [password EXCEPT ![local[r].admin] = In(r).password]
         /\ live' = live \ local[r].seen
         /\ version' = [version EXCEPT ![local[r].admin] = @ + 1]
         /\ uses' = [uses EXCEPT ![In(r).token] = @ + 1]
         /\ Step(r, "done", local[r], {<<"password", local[r].admin>>})
      \/ /\ Goto(r, "refused")
         /\ UNCHANGED <<resets, password, live, version, uses>>
  BY DEF ResetCommit, EndReset
<1>4. UNCHANGED <<admins, known, organizers, holder, expired, resetOf, born, late,
                  organizerHistory>>
  BY DEF ResetCommit, EndReset
<1> QED
  BY <1>1, <1>2, <1>3, <1>4, EndsCrossing, EndsRefused DEF Resets

\* A change of permissions: of whom, and to what.
Changes(r, new, asked) ==
    LET a == In(r).admin IN
    /\ permissions' = [permissions EXCEPT ![a] = new]
    /\ given' = [given EXCEPT ![a] = asked]
    /\ mixed' = IF <<"permissions", a>> \in local[r].crossed THEN mixed \cup {a} ELSE mixed
    /\ Crosses(r, <<"permissions", a>>)

\* The three changes of permissions, each refused or noticed.
LEMMA ChangeMoves ==
    ASSUME Types, Flow, NEW r \in Requests, OrgCreate(r) \/ OrgGrant(r) \/ OrgDelete(r)
    PROVE  /\ Moves(r) /\ Ends(r) /\ In(r).admin \in Admins
           /\ OrgCreate(r) =>
                \/ /\ In(r).admin \in admins
                   /\ Changes(r, permissions[In(r).admin] \cup In(r).permissions,
                                 given[In(r).admin] \cup In(r).permissions)
                \/ OnlyReads
           /\ OrgGrant(r) =>
                \/ /\ In(r).admin \in admins
                   /\ Changes(r, (permissions[In(r).admin] \ local[r].seen) \cup In(r).permissions,
                                 In(r).permissions)
                \/ OnlyReads
           /\ OrgDelete(r) => Changes(r, {}, {})
<1>1. In(r).admin \in Admins
  <2>1. pc[r] \in {"orgCreate", "orgGrant", "orgDelete"}
    BY DEF OrgCreate, OrgGrant, OrgDelete
  <2>2. In(r) \in Inputs[r] /\ In(r).op \in {"orgCreate", "orgUpdate", "orgRemove"}
    BY <2>1 DEF Flow, FlowOf, Ops
  <2> QED
    BY <2>2, InputsAre
<1>2. <<"permissions", In(r).admin>> \in Marks
  BY <1>1 DEF Marks
<1>3. ASSUME NEW new, NEW asked, Change(r, In(r).admin, new, asked)
      PROVE  Moves(r) /\ Ends(r) /\ Changes(r, new, asked)
  BY <1>2, <1>3, EndsCrossing DEF Change, Changes
<1>4. CASE OrgCreate(r)
  <2>1. CASE In(r).admin \in admins /\ permissions[In(r).admin] \cap In(r).permissions = {}
    <3>1. Change(r, In(r).admin, permissions[In(r).admin] \cup In(r).permissions,
                 given[In(r).admin] \cup In(r).permissions)
      BY <1>4, <2>1 DEF OrgCreate
    <3> QED
      BY <1>1, <1>3, <1>4, <2>1, <3>1 DEF OrgCreate, OrgGrant, OrgDelete
  <2>2. CASE ~(In(r).admin \in admins /\ permissions[In(r).admin] \cap In(r).permissions = {})
    <3>1. Goto(r, "refused") /\ OnlyReads
      BY <1>4, <2>2 DEF OrgCreate, OnlyReads, organizers, organizerHistory
    <3> QED
      BY <1>1, <1>4, <3>1, EndsRefused DEF OrgCreate, OrgGrant, OrgDelete
  <2> QED
    BY <2>1, <2>2
<1>5. CASE OrgGrant(r)
  <2> DEFINE kept == permissions[In(r).admin] \ local[r].seen
  <2>1. CASE In(r).admin \in admins /\ kept \cap In(r).permissions = {}
    <3>1. Change(r, In(r).admin, kept \cup In(r).permissions, In(r).permissions)
      BY <1>5, <2>1 DEF OrgGrant
    <3> QED
      BY <1>1, <1>3, <1>5, <2>1, <3>1 DEF OrgCreate, OrgGrant, OrgDelete
  <2>2. CASE ~(In(r).admin \in admins /\ kept \cap In(r).permissions = {})
    <3>1. Goto(r, "refused") /\ OnlyReads
      BY <1>5, <2>2 DEF OrgGrant, OnlyReads, organizers, organizerHistory
    <3> QED
      BY <1>1, <1>5, <3>1, EndsRefused DEF OrgCreate, OrgGrant, OrgDelete
  <2> QED
    BY <2>1, <2>2
<1>6. CASE OrgDelete(r)
  <2>1. Change(r, In(r).admin, {}, {})
    BY <1>6 DEF OrgDelete
  <2> QED
    BY <1>1, <1>3, <1>6, <2>1 DEF OrgCreate, OrgGrant, OrgDelete
<1> QED
  BY <1>4, <1>5, <1>6

\* Every step of a request keeps the control in order.
LEMMA FlowStep ==
    ASSUME Types, Flow, ResetInv, NEW r \in Requests, Acts(r)
    PROVE  Flow'
<1>1. Moves(r) /\ FlowOf(r)'
  <2>0. FlowOf(r)
    BY DEF Flow
  <2>1. ASSUME NEW in \in Inputs[r], Begin(r, in) PROVE Moves(r) /\ FlowOf(r)'
    <3>1. in.op \in Ops
      BY InputsAre DEF Input
    <3> QED
      BY <2>0, <2>1, <3>1, BeginMoves DEF FlowOf, In, Ends, Ended, Ops
  <2>2. CASE Register(r) \/ AdminCreate(r) \/ AdminUpdate(r) \/ Drop(r) \/ Issue(r) \/ Forgot(r)
    BY <2>2, Finishes DEF FlowOf, In, Ends, Ended, Ops
  <2>3. CASE AdminRemove(r)
    BY <2>3, AdminRemoveMoves DEF FlowOf, In, Ends, Ended, Ops
  <2>4. CASE Login(r)
    <3>1. admins \subseteq Admins
      BY DEF Types, TypeOK
    <3> QED
      BY <2>0, <2>4, <3>1, LoginMoves DEF FlowOf, In, Ends, Ended, Ops, Goes
  <2>5. CASE Refresh(r)
    <3>1. \A k \in live : holder[k] \in Admins
      BY DEF Types, TypeOK
    <3> QED
      BY <2>0, <2>5, <3>1, RefreshMoves DEF FlowOf, In, Ends, Ended, Ops, Goes
  <2>6. CASE Spend(r)
    BY <2>0, <2>6, SpendMoves DEF FlowOf, In, Ends, Ended, Ops, Goes, Keeps
  <2>7. CASE Reset(r)
    BY <2>0, <2>7, ResetMoves DEF FlowOf, In, Ends, Ended, Ops, Goes
  <2>8. CASE ResetClear(r)
    BY <2>0, <2>8, ResetClearMoves DEF FlowOf, In, Ends, Ended, Ops, Goes
  <2>9. CASE ResetCommit(r)
    BY <2>9, ResetCommitMoves DEF FlowOf, In, Ends, Ended, Ops
  <2>10. CASE OrgCreate(r) \/ OrgGrant(r) \/ OrgDelete(r)
    BY <2>10, ChangeMoves DEF FlowOf, In, Ends, Ended, Ops
  <2>11. CASE OrgUpdate(r)
    BY <2>0, <2>11, OrgUpdateMoves DEF FlowOf, In, Ends, Ended, Ops, Goes
  <2>12. CASE OrgRemove(r) \/ OrgCount(r)
    BY <2>0, <2>12, OrgReadMoves DEF FlowOf, In, Ends, Ended, Ops, Goes
  <2> QED
    BY <2>1, <2>2, <2>3, <2>4, <2>5, <2>6, <2>7, <2>8, <2>9, <2>10, <2>11, <2>12 DEF Acts
<1>2. \A q \in Requests \ {r} : FlowOf(q)'
  <2> SUFFICES ASSUME NEW q \in Requests \ {r} PROVE FlowOf(q)'
    OBVIOUS
  <2>1. FlowOf(q) /\ Same(q)
    BY <1>1 DEF Flow, Moves
  <2> QED
    BY <2>1 DEF FlowOf, In, Same
<1> QED
  BY <1>1, <1>2 DEF Flow

\* Reads change no type, and no more do the steps that change few of the rows.
LEMMA ReadTypes ==
    ASSUME Types, NEW r \in Requests, Moves(r), OnlyReads
    PROVE  Types'
BY DEF Types, TypeOK, Moves, OnlyReads, accounts, organizers, sessions, resetting,
       sessionHistory, organizerHistory

\* All steps of a request, for the types.
LEMMA TypesStep ==
    ASSUME Types, Flow, ResetInv, NEW r \in Requests, Acts(r)
    PROVE  Types'
<1>1. ASSUME NEW in \in Inputs[r], Begin(r, in) PROVE Types'
  BY <1>1, BeginMoves, ReadTypes
<1>2. CASE Login(r) \/ Refresh(r) \/ Reset(r) \/ ResetClear(r)
  BY <1>2, LoginMoves, RefreshMoves, ResetMoves, ResetClearMoves, ReadTypes
<1>3. CASE OrgUpdate(r) \/ OrgRemove(r) \/ OrgCount(r)
  BY <1>3, OrgUpdateMoves, OrgReadMoves, ReadTypes
<1>4. CASE Register(r) \/ AdminCreate(r)
  <2>1. Moves(r) /\ NewAdmin(r)
    BY <1>4, Finishes DEF Register, AdminCreate
  <2>2. pc[r] \in {"register", "adminCreate"}
    BY <1>4 DEF Register, AdminCreate
  <2>3. In(r).op = pc[r] /\ In(r) \in Inputs[r]
    BY <2>2 DEF Flow, FlowOf, Ops
  <2>4. In(r).admin \in Admins /\ In(r).password \in Passwords
    BY <2>2, <2>3, InputsAre
  <2>5. /\ admins' \subseteq known' /\ known' \subseteq Admins /\ admins \subseteq admins'
        /\ password' \in [Admins -> Passwords]
    BY <2>1, <2>4 DEF NewAdmin, accounts, Types, TypeOK
  <2>6. UNCHANGED <<organizers, sessions, resetting, sessionHistory, organizerHistory>>
    BY <2>1 DEF NewAdmin
  <2> QED
    BY <2>1, <2>5, <2>6 DEF Types, TypeOK, Moves, organizers, sessions, resetting,
                            sessionHistory, organizerHistory
<1>5. CASE AdminUpdate(r)
  <2>1. Moves(r)
    BY <1>5, Finishes
  <2>2. In(r) \in Inputs[r] /\ In(r).op = "adminUpdate"
    BY <1>5 DEF AdminUpdate, Flow, FlowOf, Ops
  <2>3. password' \in [Admins -> Passwords]
    BY <1>5, <2>2, InputsAre DEF AdminUpdate, Types, TypeOK
  <2>4. UNCHANGED <<admins, known, organizers, sessions, resetting, sessionHistory,
                    organizerHistory>>
    BY <1>5 DEF AdminUpdate
  <2> QED
    BY <2>1, <2>3, <2>4 DEF Types, TypeOK, Moves, organizers, sessions, resetting,
                            sessionHistory, organizerHistory
<1>6. CASE AdminRemove(r)
  <2>1. Moves(r)
    BY <1>6, AdminRemoveMoves
  <2>2. CASE OnlyReads
    BY <2>1, <2>2, ReadTypes
  <2>3. CASE In(r).admin # In(r).actor /\ In(r).admin \in admins
    <3> DEFINE a == In(r).admin
    <3>1. /\ admins' = admins \ {a} /\ live' = live \ SessionsOf(a)
          /\ resets' = {z \in resets : resetOf[z] # a}
          /\ permissions' = [permissions EXCEPT ![a] = {}]
          /\ given' = [given EXCEPT ![a] = {}]
          /\ owner' = IF owner = a THEN None ELSE owner
          /\ uncounted' \in BOOLEAN
      BY <1>6, <2>3 DEF AdminRemove, Types, TypeOK
    <3>2. UNCHANGED <<known, password, holder, expired, resetOf, version, born, late, uses>>
      BY <1>6 DEF AdminRemove, sessionHistory
    <3>3. a \in admins
      BY <2>3
    <3> HIDE DEF a
    <3>4. \A k \in live' : holder'[k] \in admins'
      BY <3>1, <3>2 DEF Types, TypeOK, SessionsOf
    <3>5. permissions' \in [Admins -> SUBSET Permissions] /\ given' \in [Admins -> SUBSET Permissions]
      BY <3>1 DEF Types, TypeOK
    <3>6. \A b \in Admins \ admins' : permissions'[b] = {}
      BY <3>1, <3>3 DEF Types, TypeOK
    <3>7. owner' \in admins' \cup {None} /\ admins' \subseteq known'
      BY <3>1, <3>2 DEF Types, TypeOK
    <3> QED
      BY <2>1, <3>1, <3>2, <3>4, <3>5, <3>6, <3>7 DEF Types, TypeOK, Moves
  <2>4. CASE ~(In(r).admin # In(r).actor /\ In(r).admin \in admins)
    <3>1. OnlyReads
      BY <1>6, <2>4 DEF AdminRemove, OnlyReads, accounts, organizers, sessions, resetting,
                        sessionHistory, organizerHistory
    <3> QED
      BY <2>2, <3>1
  <2> QED
    BY <2>3, <2>4
<1>7. CASE Drop(r) \/ Spend(r)
  <2>1. Moves(r)
    BY <1>7, Finishes, SpendMoves
  <2>2. /\ live' \subseteq live
        /\ UNCHANGED <<accounts, organizers, holder, expired, resetting,
                       sessionHistory, organizerHistory>>
    BY <1>7 DEF Drop, Spend
  <2> QED
    BY <2>1, <2>2 DEF Types, TypeOK, Moves, accounts, organizers, resetting,
                      sessionHistory, organizerHistory
<1>8. CASE Issue(r)
  <2>1. Moves(r)
    BY <1>8, Finishes
  <2>2. CASE local[r].admin \in admins
    <3> DEFINE k == CHOOSE k \in FreshTokens : TRUE
    <3>1. FreshTokens # {} /\ FreshTokens \subseteq Tokens
      BY <1>8, <2>2 DEF Issue, InsertToken, FreshTokens
    <3>2. k \in Tokens
      BY <3>1
    <3>3. /\ live' = live \cup {k}
          /\ holder' = [holder EXCEPT ![k] = local[r].admin]
          /\ born' = [born EXCEPT ![k] = local[r].born]
          /\ uses' = [uses EXCEPT ![In(r).token] = @ + 1] \/ uses' = uses
          /\ UNCHANGED <<accounts, organizers, expired, resetting, version, organizerHistory>>
      BY <1>8, <2>2 DEF Issue, InsertToken
    <3> HIDE DEF k
    <3>4. local[r].born \in Nat
      BY DEF Types, Locals
    <3>5. holder' \in [Tokens -> Admins \cup {None}] /\ born' \in [Tokens -> Nat]
      BY <2>2, <3>2, <3>3, <3>4 DEF Types, TypeOK
    <3>6. uses' \in [AllTokens -> Nat]
      BY <3>3 DEF Types
    <3>7. live' \subseteq Tokens /\ \A t \in live' : holder'[t] \in admins
      BY <2>2, <3>2, <3>3 DEF Types, TypeOK
    <3> QED
      BY <2>1, <3>3, <3>5, <3>6, <3>7 DEF Types, TypeOK, Moves, accounts, organizers,
                                          resetting, organizerHistory
  <2>3. CASE local[r].admin \notin admins
    <3>1. OnlyReads
      BY <1>8, <2>3 DEF Issue, InsertToken, OnlyReads, sessions, sessionHistory
    <3> QED
      BY <2>1, <3>1, ReadTypes
  <2> QED
    BY <2>2, <2>3
<1>9. CASE Forgot(r)
  <2>1. Moves(r)
    BY <1>9, Finishes
  <2>2. UNCHANGED <<accounts, organizers, sessions, sessionHistory, organizerHistory>>
    BY <1>9 DEF Forgot
  <2>3. /\ resets' \subseteq ResetTokens /\ \A z \in resets' : resetOf'[z] \in admins
        /\ resetOf' \in [ResetTokens -> Admins \cup {None}]
    BY <1>9 DEF Forgot, resetting, FreshResets, Types, TypeOK
  <2> QED
    BY <2>1, <2>2, <2>3 DEF Types, TypeOK, Moves, accounts, organizers, sessions,
                            sessionHistory, organizerHistory
<1>10. CASE ResetCommit(r)
  <2>1. /\ Moves(r) /\ pc[r] = "resetCommit"
        /\ Resets(r) \/ UNCHANGED <<resets, password, live, version, uses>>
        /\ UNCHANGED <<admins, known, organizers, holder, expired, resetOf, born, late,
                       organizerHistory>>
    BY <1>10, ResetCommitMoves
  <2>2. In(r) \in Inputs[r] /\ In(r).op = "reset"
    BY <2>1 DEF Flow, FlowOf, Ops
  <2>3. In(r).password \in Passwords
    BY <2>2, InputsAre
  <2>4. /\ resets' \subseteq resets /\ live' \subseteq live
        /\ password' \in [Admins -> Passwords]
        /\ version' \in [Admins -> Nat] /\ uses' \in [AllTokens -> Nat]
    BY <2>1, <2>3 DEF Resets, Types, TypeOK
  <2> QED
    BY <2>1, <2>4 DEF Types, TypeOK, Moves, organizers, organizerHistory
<1>11. CASE OrgCreate(r) \/ OrgGrant(r) \/ OrgDelete(r)
  <2>1. Moves(r) /\ In(r).admin \in Admins
    BY <1>11, ChangeMoves
  <2>2. In(r) \in Input
    BY DEF Types, TypeOK, In
  <2>3. In(r).permissions \in SUBSET Permissions
    BY <2>2 DEF Input
  <2>4. /\ permissions' \in [Admins -> SUBSET Permissions]
        /\ given' \in [Admins -> SUBSET Permissions]
        /\ \A b \in Admins \ admins : permissions'[b] = {}
    <3>1. CASE OnlyReads
      BY <3>1 DEF Types, TypeOK, OnlyReads, organizers, organizerHistory
    <3>2. ASSUME NEW new \in SUBSET Permissions, NEW asked \in SUBSET Permissions,
                 Changes(r, new, asked), In(r).admin \in admins \/ new = {}
          PROVE  /\ permissions' \in [Admins -> SUBSET Permissions]
                 /\ given' \in [Admins -> SUBSET Permissions]
                 /\ \A b \in Admins \ admins : permissions'[b] = {}
      BY <2>1, <3>2 DEF Types, TypeOK, Changes
    <3>3. given[In(r).admin] \subseteq Permissions /\ permissions[In(r).admin] \subseteq Permissions
      BY <2>1 DEF Types, TypeOK
    <3>4. CASE OrgCreate(r)
      BY <2>3, <3>1, <3>2, <3>3, <3>4, ChangeMoves
    <3>5. CASE OrgGrant(r)
      BY <2>3, <3>1, <3>2, <3>3, <3>5, ChangeMoves
    <3>6. CASE OrgDelete(r)
      BY <3>2, <3>6, ChangeMoves
    <3> QED
      BY <1>11, <3>4, <3>5, <3>6
  <2>5. /\ UNCHANGED <<accounts, owner, sessions, resetting, sessionHistory>>
        /\ uncounted' \in BOOLEAN
    BY <1>11 DEF OrgCreate, OrgGrant, OrgDelete, Types, TypeOK
  <2> QED
    BY <2>1, <2>4, <2>5 DEF Types, TypeOK, Moves, accounts, sessions, resetting, sessionHistory
<1> QED
  BY <1>1, <1>2, <1>3, <1>4, <1>5, <1>6, <1>7, <1>8, <1>9, <1>10, <1>11 DEF Acts

-----------------------------------------------------------------------------
(* Tokens are exchanged once.                                              *)

\* Who exchanges a refresh token after a step of r did before, or is r.
LEMMA StillExchanges ==
    ASSUME NEW r \in Requests, Moves(r), pc'[r] # "issue" \/ input'[r].op # "refresh"
    PROVE  \A q \in Requests : Exchanges(q)' => Exchanges(q) /\ input'[q] = input[q]
BY DEF Moves, Same, Exchanges, In

\* Steps that insert no session and exchange no refresh token.
LEMMA RefreshKept ==
    ASSUME Types, RefreshInv, live' \subseteq live, holder' = holder,
           \A k \in Tokens : uses'[k] = uses[k],
           \A q \in Requests : Exchanges(q)' => Exchanges(q) /\ input'[q] = input[q]
    PROVE  RefreshInv'
<1>1. live \subseteq Tokens
  BY DEF Types, TypeOK
<1>2. \A k \in live' : uses'[k] = 0
  BY <1>1 DEF RefreshInv
<1>3. \A k \in Tokens : holder'[k] = None => k \notin live' /\ uses'[k] = 0
  BY DEF RefreshInv
<1>4. \A q \in Requests : Exchanges(q)' =>
        /\ input'[q].token \in Tokens \ live'
        /\ holder'[input'[q].token] # None /\ uses'[input'[q].token] = 0
  BY DEF RefreshInv, In
<1>5. \A q, p \in Requests :
        Exchanges(q)' /\ Exchanges(p)' /\ input'[q].token = input'[p].token => q = p
  BY DEF RefreshInv, In
<1> QED
  BY <1>2, <1>3, <1>4, <1>5 DEF RefreshInv, In

\* The deletion of a refresh token makes its request the only one to exchange it, ...
LEMMA SpendRefresh ==
    ASSUME Types, Flow, RefreshInv, NEW r \in Requests, Spend(r)
    PROVE  RefreshInv'
<1> DEFINE t == input[r].token
<1>1. /\ Moves(r) /\ live' = live \ {t} /\ holder' = holder /\ uses' = uses
      /\ Ends(r) \/ (Goes(r, "issue") /\ t \in live)
  BY SpendMoves DEF sessionHistory, In
<1>2. CASE Ends(r)
  <2>1. pc'[r] # "issue"
    BY <1>2 DEF Ends, Ended
  <2>2. live' \subseteq live
    BY <1>1
  <2> QED
    BY <1>1, <2>1, <2>2, StillExchanges, RefreshKept
<1>3. CASE Goes(r, "issue") /\ t \in live
  <2>1. t \in Tokens /\ uses[t] = 0 /\ holder[t] # None
    BY <1>3, AccessAssumption DEF RefreshInv, Types, TypeOK
  <2>2. input'[r] = input[r]
    BY <1>3 DEF Goes
  <2>3. \A q \in Requests : Exchanges(q)' => input'[q] = input[q] /\ (q = r \/ Exchanges(q))
    BY <1>1, <2>2 DEF Moves, Same, Exchanges, In
  <2>4. \A q \in Requests \ {r} : Exchanges(q) => input[q].token # t
    BY <1>3 DEF RefreshInv, In
  <2>5. \A k \in live' : uses'[k] = 0
    BY <1>1 DEF RefreshInv
  <2>6. \A k \in Tokens : holder'[k] = None => k \notin live' /\ uses'[k] = 0
    BY <1>1 DEF RefreshInv
  <2>7. \A q \in Requests : Exchanges(q)' =>
          /\ input'[q].token \in Tokens \ live'
          /\ holder'[input'[q].token] # None /\ uses'[input'[q].token] = 0
    BY <1>1, <2>1, <2>3 DEF RefreshInv, In
  <2>8. \A q, p \in Requests :
          Exchanges(q)' /\ Exchanges(p)' /\ input'[q].token = input'[p].token => q = p
    BY <2>3, <2>4 DEF RefreshInv, In
  <2> QED
    BY <2>5, <2>6, <2>7, <2>8 DEF RefreshInv, In
<1> QED
  BY <1>1, <1>2, <1>3

\* ... and the new session ends that, with a token that was never used.
LEMMA IssueRefresh ==
    ASSUME Types, Flow, RefreshInv, NEW r \in Requests, Issue(r)
    PROVE  RefreshInv'
<1> DEFINE t == input[r].token
           k == CHOOSE k \in FreshTokens : TRUE
<1>1. Moves(r) /\ pc[r] = "issue" /\ pc'[r] # "issue"
  BY Finishes DEF Ends, Ended, Issue, InsertToken
<1>2. \A q \in Requests : Exchanges(q)' => Exchanges(q) /\ input'[q] = input[q] /\ q # r
  BY <1>1, StillExchanges DEF Exchanges
<1>3. CASE local[r].admin \notin admins
  <2>1. live' = live /\ holder' = holder /\ uses' = uses
    BY <1>3 DEF Issue, InsertToken
  <2> QED
    BY <1>2, <2>1, RefreshKept
<1>4. CASE local[r].admin \in admins
  <2>1. /\ FreshTokens # {} /\ live' = live \cup {k}
        /\ holder' = [holder EXCEPT ![k] = local[r].admin]
        /\ uses' = IF input[r].op = "refresh" THEN [uses EXCEPT ![t] = @ + 1] ELSE uses
    BY <1>4 DEF Issue, InsertToken, In
  <2>2. k \in FreshTokens
    BY <2>1
  <2>3. k \in Tokens /\ holder[k] = None
    BY <2>2 DEF FreshTokens
  <2> HIDE DEF k
  <2>4. k \notin live /\ uses[k] = 0
    BY <2>3 DEF RefreshInv
  <2>5. local[r].admin # None
    BY <1>4, AccessAssumption DEF Types, TypeOK
  <2>6. input[r].op = "refresh" => Exchanges(r)
    BY <1>1 DEF Exchanges, In
  <2>7. input[r].op = "refresh" => t \in Tokens \ live /\ t # k /\ holder[t] # None
    BY <2>3, <2>6 DEF RefreshInv, In
  <2>8. \A x \in AllTokens : x # t \/ input[r].op # "refresh" => uses'[x] = uses[x]
    BY <2>1 DEF Types
  <2>9. \A x \in Tokens : x \in AllTokens
    BY DEF AllTokens
  <2>10. live \subseteq Tokens
    BY DEF Types, TypeOK
  <2>11. \A x \in live' : uses'[x] = 0
    BY <2>1, <2>3, <2>4, <2>7, <2>8, <2>9, <2>10 DEF RefreshInv
  <2>12. \A x \in Tokens : holder'[x] = IF x = k THEN local[r].admin ELSE holder[x]
    BY <2>1 DEF Types
  <2>13. \A x \in Tokens : holder'[x] = None => x \notin live' /\ uses'[x] = 0
    BY <2>1, <2>5, <2>7, <2>8, <2>9, <2>12 DEF RefreshInv
  <2>14. \A q \in Requests : Exchanges(q)' =>
          /\ input'[q].token \in Tokens \ live'
          /\ holder'[input'[q].token] # None /\ uses'[input'[q].token] = 0
    <3> SUFFICES ASSUME NEW q \in Requests, Exchanges(q)'
                 PROVE  /\ input'[q].token \in Tokens \ live'
                        /\ holder'[input'[q].token] # None /\ uses'[input'[q].token] = 0
      OBVIOUS
    <3>1. Exchanges(q) /\ input'[q] = input[q] /\ q # r
      BY <1>2
    <3>2. /\ input[q].token \in Tokens \ live /\ holder[input[q].token] # None
          /\ uses[input[q].token] = 0
      BY <3>1 DEF RefreshInv, In
    <3>3. input[r].op = "refresh" => input[q].token # t
      BY <2>6, <3>1 DEF RefreshInv, In
    <3> QED
      BY <2>1, <2>3, <2>8, <2>9, <2>12, <3>1, <3>2, <3>3
  <2>15. \A q, p \in Requests :
          Exchanges(q)' /\ Exchanges(p)' /\ input'[q].token = input'[p].token => q = p
    BY <1>2 DEF RefreshInv, In
  <2> QED
    BY <2>11, <2>13, <2>14, <2>15 DEF RefreshInv, In
<1> QED
  BY <1>3, <1>4

\* All steps of a request, for the refresh tokens.
LEMMA RefreshStep ==
    ASSUME Types, Flow, RefreshInv, ResetInv, NEW r \in Requests, Acts(r)
    PROVE  RefreshInv'
<1> DEFINE Other == /\ Moves(r) /\ live' \subseteq live /\ holder' = holder
                    /\ \A k \in Tokens : uses'[k] = uses[k]
                    /\ pc'[r] # "issue" \/ input'[r].op # "refresh"
<1>1. ASSUME Other PROVE RefreshInv'
  BY <1>1, StillExchanges, RefreshKept
<1>2. CASE Spend(r) \/ Issue(r)
  BY <1>2, SpendRefresh, IssueRefresh
<1>3. ASSUME NEW in \in Inputs[r], Begin(r, in) PROVE Other
  <2>1. in.op \in Ops
    BY InputsAre DEF Input
  <2> QED
    BY <1>3, <2>1, BeginMoves DEF OnlyReads, sessions, sessionHistory, Ends, Ended, Ops
<1>4. CASE Login(r)
  <2>1. Goes(r, "issue") => input'[r].op = "login"
    BY <1>4 DEF Goes, Login, Flow, FlowOf, Ops, In
  <2> QED
    BY <1>4, <1>1, <2>1, LoginMoves DEF OnlyReads, sessions, sessionHistory, Ends, Ended
<1>5. ASSUME Refresh(r) \/ Reset(r) \/ ResetClear(r) \/ OrgUpdate(r) \/ OrgRemove(r) \/ OrgCount(r)
      PROVE  Other
  BY <1>5, RefreshMoves, ResetMoves, ResetClearMoves, OrgUpdateMoves, OrgReadMoves
     DEF OnlyReads, sessions, sessionHistory, Ends, Ended, Goes
<1>6. ASSUME Register(r) \/ AdminCreate(r) PROVE Other
  BY <1>6, Finishes DEF Register, AdminCreate, NewAdmin, sessions, sessionHistory, Ends, Ended
<1>7. ASSUME AdminUpdate(r) \/ Drop(r) \/ Forgot(r) PROVE Other
  BY <1>7, Finishes DEF AdminUpdate, Drop, Forgot, sessions, sessionHistory, Ends, Ended
<1>8. ASSUME AdminRemove(r) PROVE Other
  BY <1>8, AdminRemoveMoves DEF AdminRemove, sessionHistory, Ends, Ended
<1>9. ASSUME ResetCommit(r) PROVE Other
  <2>1. /\ Moves(r) /\ Ends(r) /\ pc[r] = "resetCommit" /\ holder' = holder
        /\ Resets(r) \/ UNCHANGED <<resets, password, live, version, uses>>
    BY <1>9, ResetCommitMoves
  <2>2. In(r).token \notin Tokens
    BY <2>1, AccessAssumption DEF ResetInv
  <2> QED
    BY <2>1, <2>2 DEF Resets, Types, AllTokens, Ends, Ended
<1>10. ASSUME OrgCreate(r) \/ OrgGrant(r) \/ OrgDelete(r) PROVE Other
  <2>1. Moves(r) /\ Ends(r)
    BY <1>10, ChangeMoves
  <2>2. UNCHANGED <<sessions, sessionHistory>>
    BY <1>10 DEF OrgCreate, OrgGrant, OrgDelete
  <2> QED
    BY <2>1, <2>2 DEF sessions, sessionHistory, Ends, Ended
<1> HIDE DEF Other
<1> QED
  BY <1>1, <1>2, <1>3, <1>4, <1>5, <1>6, <1>7, <1>8, <1>9, <1>10 DEF Acts

\* A reset under way stays one while nobody touches the reset tokens.
LEMMA ResetKept ==
    ASSUME Types, ResetInv, resets' = resets, resetOf' = resetOf,
           \A z \in ResetTokens : uses'[z] = uses[z], NEW r \in Requests, Moves(r),
           pc'[r] \notin {"resetClear", "resetCommit"}
    PROVE  ResetInv'
<1>1. \A q \in Requests : pc'[q] \in {"resetClear", "resetCommit"} =>
        pc'[q] = pc[q] /\ input'[q] = input[q] /\ local'[q].admin = local[q].admin
  BY DEF Moves, Same
<1>2. resets \subseteq ResetTokens
  BY DEF Types, TypeOK
<1> QED
  BY <1>1, <1>2 DEF ResetInv, In

\* Resets that read: the second read is alone on its admin's row.
LEMMA ReadReset ==
    ASSUME Types, Flow, ResetInv, NEW r \in Requests, Reset(r) \/ ResetClear(r)
    PROVE  ResetInv'
<1>1. Moves(r) /\ resets' = resets /\ resetOf' = resetOf /\ uses' = uses
  BY ResetMoves, ResetClearMoves DEF OnlyReads, resetting, sessionHistory
<1>2. resets \subseteq ResetTokens /\ \A z \in resets : resetOf[z] \in Admins
  BY DEF Types, TypeOK
<1>3. CASE Ends(r)
  BY <1>1, <1>3, ResetKept DEF Ends, Ended
<1>4. CASE Reset(r) /\ ~Ends(r)
  <2>1. /\ pc'[r] = "resetClear" /\ input'[r] = input[r] /\ input[r].token \in resets
        /\ local'[r].admin = resetOf[input[r].token]
    BY <1>4, ResetMoves DEF Goes, In
  <2>2. \A q \in Requests : q # r =>
          pc'[q] = pc[q] /\ input'[q] = input[q] /\ local'[q].admin = local[q].admin
    BY <1>1 DEF Moves, Same
  <2> QED
    BY <1>1, <1>2, <2>1, <2>2 DEF ResetInv, In
<1>5. CASE ResetClear(r) /\ ~Ends(r)
  <2>1. /\ pc[r] = "resetClear" /\ pc'[r] = "resetCommit" /\ input'[r] = input[r]
        /\ input[r].token \in resets /\ local'[r].admin = local[r].admin
        /\ RowFree(r, local[r].admin)
    BY <1>5, ResetClearMoves DEF Goes, In
  <2>2. \A q \in Requests : q # r =>
          pc'[q] = pc[q] /\ input'[q] = input[q] /\ local'[q].admin = local[q].admin
    BY <1>1 DEF Moves, Same
  <2>3. \A q \in Requests : q # r /\ pc[q] = "resetCommit" => local[q].admin # local[r].admin
    BY <2>1 DEF RowFree
  <2>4. \A z \in resets' : uses'[z] = 0
    BY <1>1 DEF ResetInv
  <2>5. \A z \in ResetTokens : resetOf'[z] = None => z \notin resets' /\ uses'[z] = 0
    BY <1>1 DEF ResetInv
  <2>6. \A q \in Requests : pc'[q] \in {"resetClear", "resetCommit"} =>
          /\ input'[q].token \in ResetTokens /\ local'[q].admin \in Admins
          /\ resetOf'[input'[q].token] = local'[q].admin
    BY <1>1, <2>1, <2>2 DEF ResetInv, In
  <2>7. \A q \in Requests : pc'[q] = "resetCommit" => input'[q].token \in resets'
    BY <1>1, <2>1, <2>2 DEF ResetInv, In
  <2>8. \A q, p \in Requests :
          pc'[q] = "resetCommit" /\ pc'[p] = "resetCommit"
            /\ local'[q].admin = local'[p].admin => q = p
    BY <2>1, <2>2, <2>3 DEF ResetInv
  <2> QED
    BY <2>4, <2>5, <2>6, <2>7, <2>8 DEF ResetInv, In
<1> QED
  BY <1>3, <1>4, <1>5

\* The commit spends the one token it deletes, which no other commit holds.
LEMMA CommitReset ==
    ASSUME Types, Flow, ResetInv, NEW r \in Requests, ResetCommit(r)
    PROVE  ResetInv'
<1> DEFINE t == input[r].token
<1>1. /\ Moves(r) /\ pc'[r] \in Ended /\ pc[r] = "resetCommit" /\ resetOf' = resetOf
      /\ Resets(r) \/ UNCHANGED <<resets, password, live, version, uses>>
  BY ResetCommitMoves DEF Ends
<1>2. CASE UNCHANGED <<resets, password, live, version, uses>>
  BY <1>1, <1>2, ResetKept DEF Ended
<1>3. CASE Resets(r)
  <2>1. resets' = resets \ {t} /\ uses' = [uses EXCEPT ![t] = @ + 1]
    BY <1>3 DEF Resets, In
  <2>2. resets \subseteq ResetTokens /\ uses \in [AllTokens -> Nat]
    BY DEF Types, TypeOK
  <2>3. \A z \in ResetTokens : z # t => uses'[z] = uses[z]
    BY <2>1, <2>2 DEF AllTokens
  <2>4. \A q \in Requests : pc'[q] \in {"resetClear", "resetCommit"} =>
          /\ pc'[q] = pc[q] /\ input'[q] = input[q] /\ local'[q].admin = local[q].admin
          /\ q # r
    BY <1>1 DEF Moves, Same, Ended
  <2>5. t \in ResetTokens /\ resetOf[t] = local[r].admin /\ local[r].admin \in Admins
    BY <1>1 DEF ResetInv, In
  <2>6. \A q \in Requests : q # r /\ pc[q] = "resetCommit" => input[q].token # t
    BY <1>1, <2>5 DEF ResetInv, In
  <2>7. \A z \in resets' : uses'[z] = 0
    BY <2>1, <2>2, <2>3 DEF ResetInv
  <2>8. \A z \in ResetTokens : resetOf'[z] = None => z \notin resets' /\ uses'[z] = 0
    <3>1. t \in ResetTokens /\ resetOf[t] # None
      BY <2>5, AccessAssumption
    <3> QED
      BY <1>1, <2>1, <2>3, <3>1 DEF ResetInv
  <2>9. \A q \in Requests : pc'[q] \in {"resetClear", "resetCommit"} =>
          /\ input'[q].token \in ResetTokens /\ local'[q].admin \in Admins
          /\ resetOf'[input'[q].token] = local'[q].admin
    BY <1>1, <2>4 DEF ResetInv, In
  <2>10. \A q \in Requests : pc'[q] = "resetCommit" => input'[q].token \in resets'
    BY <2>1, <2>4, <2>6 DEF ResetInv, In
  <2>11. \A q, p \in Requests :
          pc'[q] = "resetCommit" /\ pc'[p] = "resetCommit"
            /\ local'[q].admin = local'[p].admin => q = p
    BY <2>4 DEF ResetInv
  <2> QED
    BY <2>7, <2>8, <2>9, <2>10, <2>11 DEF ResetInv, In
<1> QED
  BY <1>1, <1>2, <1>3

\* A new reset token is unspent.
LEMMA ForgotReset ==
    ASSUME Types, Flow, ResetInv, NEW r \in Requests, Forgot(r)
    PROVE  ResetInv'
<1>1. Moves(r) /\ pc'[r] \in Ended /\ uses' = uses
  BY Finishes DEF Forgot, sessionHistory, Ends
<1>2. CASE In(r).admin \notin admins
  BY <1>1, <1>2, ResetKept DEF Forgot, resetting, Ended
<1>3. CASE In(r).admin \in admins
  <2> DEFINE a == In(r).admin
  <2>1. PICK z \in FreshResets :
          resets' = resets \cup {z} /\ resetOf' = [resetOf EXCEPT ![z] = a]
    BY <1>3 DEF Forgot
  <2>2. z \in ResetTokens /\ resetOf[z] = None /\ uses[z] = 0
    BY <2>1 DEF FreshResets, ResetInv
  <2>3. a # None
    BY <1>3, AccessAssumption DEF Types, TypeOK
  <2>4. \A y \in ResetTokens : resetOf'[y] = IF y = z THEN a ELSE resetOf[y]
    BY <2>1 DEF Types
  <2> HIDE DEF a
  <2>5. \A q \in Requests : pc'[q] \in {"resetClear", "resetCommit"} =>
          pc'[q] = pc[q] /\ input'[q] = input[q] /\ local'[q].admin = local[q].admin
    BY <1>1 DEF Moves, Same, Ended
  <2>6. \A y \in resets' : uses'[y] = 0
    BY <1>1, <2>1, <2>2 DEF ResetInv
  <2>7. \A y \in ResetTokens : resetOf'[y] = None => y \notin resets' /\ uses'[y] = 0
    BY <1>1, <2>1, <2>3, <2>4 DEF ResetInv
  <2>8. \A q \in Requests : pc'[q] \in {"resetClear", "resetCommit"} =>
          /\ input'[q].token \in ResetTokens /\ local'[q].admin \in Admins
          /\ resetOf'[input'[q].token] = local'[q].admin
    BY <2>2, <2>4, <2>5, AccessAssumption DEF ResetInv, In
  <2>9. \A q \in Requests : pc'[q] = "resetCommit" => input'[q].token \in resets'
    BY <2>1, <2>5 DEF ResetInv, In
  <2>10. \A q, p \in Requests :
          pc'[q] = "resetCommit" /\ pc'[p] = "resetCommit"
            /\ local'[q].admin = local'[p].admin => q = p
    BY <2>5 DEF ResetInv
  <2> QED
    BY <2>6, <2>7, <2>8, <2>9, <2>10 DEF ResetInv, In
<1> QED
  BY <1>2, <1>3

\* The removal of an admin deletes no token of a reset that will commit.
LEMMA RemoveReset ==
    ASSUME Types, Flow, ResetInv, NEW r \in Requests, AdminRemove(r)
    PROVE  ResetInv'
<1> DEFINE a == In(r).admin
<1>1. Moves(r) /\ pc'[r] \in Ended /\ pc[r] = "adminRemove"
  BY AdminRemoveMoves DEF Ends, AdminRemove
<1>2. resetOf' = resetOf /\ uses' = uses /\ RowFree(r, a)
  BY DEF AdminRemove, sessionHistory
<1>3. resets' = resets \/ resets' = {z \in resets : resetOf[z] # a}
  BY DEF AdminRemove
<1>4. \A q \in Requests : pc'[q] \in {"resetClear", "resetCommit"} =>
        /\ pc'[q] = pc[q] /\ input'[q] = input[q] /\ local'[q].admin = local[q].admin
        /\ q # r
  BY <1>1 DEF Moves, Same, Ended
<1>5. \A q \in Requests : pc'[q] = "resetCommit" => local[q].admin # a
  BY <1>2, <1>4 DEF RowFree
<1>6. \A z \in resets' : uses'[z] = 0
  BY <1>2, <1>3 DEF ResetInv
<1>7. \A z \in ResetTokens : resetOf'[z] = None => z \notin resets' /\ uses'[z] = 0
  BY <1>2, <1>3 DEF ResetInv
<1>8. \A q \in Requests : pc'[q] \in {"resetClear", "resetCommit"} =>
        /\ input'[q].token \in ResetTokens /\ local'[q].admin \in Admins
        /\ resetOf'[input'[q].token] = local'[q].admin
  BY <1>2, <1>4 DEF ResetInv, In
<1> HIDE DEF a
<1>9. \A q \in Requests : pc'[q] = "resetCommit" => input'[q].token \in resets'
  BY <1>3, <1>4, <1>5 DEF ResetInv, In
<1>10. \A q, p \in Requests :
        pc'[q] = "resetCommit" /\ pc'[p] = "resetCommit"
          /\ local'[q].admin = local'[p].admin => q = p
  BY <1>4 DEF ResetInv
<1> QED
  BY <1>6, <1>7, <1>8, <1>9, <1>10 DEF ResetInv, In

\* All steps of a request, for the reset tokens.
LEMMA ResetStep ==
    ASSUME Types, Flow, RefreshInv, ResetInv, NEW r \in Requests, Acts(r)
    PROVE  ResetInv'
<1> DEFINE Other == /\ Moves(r) /\ resets' = resets /\ resetOf' = resetOf
                    /\ \A z \in ResetTokens : uses'[z] = uses[z]
                    /\ pc'[r] \notin {"resetClear", "resetCommit"}
<1>1. ASSUME Other PROVE ResetInv'
  BY <1>1, ResetKept
<1>2. CASE Reset(r) \/ ResetClear(r) \/ ResetCommit(r) \/ Forgot(r) \/ AdminRemove(r)
  BY <1>2, ReadReset, CommitReset, ForgotReset, RemoveReset
<1>3. ASSUME NEW in \in Inputs[r], Begin(r, in) PROVE Other
  <2>1. in.op \in Ops
    BY InputsAre DEF Input
  <2> QED
    BY <1>3, <2>1, BeginMoves DEF OnlyReads, resetting, sessionHistory, Ends, Ended, Ops
<1>4. ASSUME Login(r) \/ Refresh(r) \/ OrgUpdate(r) \/ OrgRemove(r) \/ OrgCount(r)
      PROVE  Other
  BY <1>4, LoginMoves, RefreshMoves, OrgUpdateMoves, OrgReadMoves
     DEF OnlyReads, resetting, sessionHistory, Ends, Ended, Goes
<1>5. ASSUME Spend(r) PROVE Other
  BY <1>5, SpendMoves DEF resetting, sessionHistory, Ends, Ended, Goes
<1>6. ASSUME Register(r) \/ AdminCreate(r) PROVE Other
  BY <1>6, Finishes DEF Register, AdminCreate, NewAdmin, resetting, sessionHistory, Ends, Ended
<1>7. ASSUME AdminUpdate(r) \/ Drop(r) PROVE Other
  BY <1>7, Finishes DEF AdminUpdate, Drop, resetting, sessionHistory, Ends, Ended
<1>8. ASSUME Issue(r) PROVE Other
  <2>1. Moves(r) /\ Ends(r) /\ UNCHANGED resetting /\ pc[r] = "issue"
    BY <1>8, Finishes DEF Issue, InsertToken
  <2>2. uses' = uses \/ (In(r).op = "refresh" /\ uses' = [uses EXCEPT ![In(r).token] = @ + 1])
    BY <1>8 DEF Issue, InsertToken
  <2>3. In(r).op = "refresh" => In(r).token \notin ResetTokens
    BY <2>1, AccessAssumption DEF RefreshInv, Exchanges
  <2> QED
    BY <2>1, <2>2, <2>3 DEF Types, AllTokens, resetting, Ends, Ended
<1>9. ASSUME OrgCreate(r) \/ OrgGrant(r) \/ OrgDelete(r) PROVE Other
  <2>1. Moves(r) /\ Ends(r)
    BY <1>9, ChangeMoves
  <2>2. UNCHANGED <<resetting, sessionHistory>>
    BY <1>9 DEF OrgCreate, OrgGrant, OrgDelete
  <2> QED
    BY <2>1, <2>2 DEF resetting, sessionHistory, Ends, Ended
<1> HIDE DEF Other
<1> QED
  BY <1>1, <1>2, <1>3, <1>4, <1>5, <1>6, <1>7, <1>8, <1>9 DEF Acts

\* A token is exchanged by one step, while it is unspent.
LEMMA SpentStep ==
    ASSUME Types, Flow, TokenSpentOnce, RefreshInv, ResetInv, NEW r \in Requests, Acts(r)
    PROVE  TokenSpentOnce'
<1> DEFINE Other == uses' = uses \/ ( /\ In(r).token \in AllTokens /\ uses[In(r).token] = 0
                                      /\ uses' = [uses EXCEPT ![In(r).token] = @ + 1] )
<1>1. ASSUME Other PROVE TokenSpentOnce'
  BY <1>1 DEF TokenSpentOnce, Types, AllTokens
<1>2. ASSUME Issue(r) PROVE Other
  <2>1. pc[r] = "issue"
    BY <1>2 DEF Issue, InsertToken
  <2>2. In(r).op = "refresh" => In(r).token \in Tokens /\ uses[In(r).token] = 0
    BY <2>1 DEF RefreshInv, Exchanges
  <2> QED
    BY <1>2, <2>2 DEF Issue, InsertToken, AllTokens
<1>3. ASSUME ResetCommit(r) PROVE Other
  <2>1. pc[r] = "resetCommit" /\ (Resets(r) \/ uses' = uses)
    BY <1>3, ResetCommitMoves
  <2>2. In(r).token \in ResetTokens /\ uses[In(r).token] = 0
    BY <2>1 DEF ResetInv
  <2> QED
    BY <2>1, <2>2 DEF Resets, AllTokens
<1>4. ASSUME NEW in \in Inputs[r], Begin(r, in) PROVE Other
  BY <1>4 DEF Begin, OnlyReads, sessionHistory
<1>5. ASSUME Login(r) \/ Refresh(r) \/ Reset(r) \/ ResetClear(r) PROVE Other
  BY <1>5, LoginMoves, RefreshMoves, ResetMoves, ResetClearMoves DEF OnlyReads, sessionHistory
<1>6. ASSUME OrgUpdate(r) \/ OrgRemove(r) \/ OrgCount(r) PROVE Other
  BY <1>6, OrgUpdateMoves, OrgReadMoves DEF OnlyReads, sessionHistory
<1>7. ASSUME Register(r) \/ AdminCreate(r) \/ AdminUpdate(r) \/ AdminRemove(r) PROVE Other
  BY <1>7 DEF Register, AdminCreate, NewAdmin, AdminUpdate, AdminRemove, sessionHistory
<1>8. ASSUME Drop(r) \/ Spend(r) \/ Forgot(r) PROVE Other
  BY <1>8 DEF Drop, Spend, Forgot, sessionHistory
<1>9. ASSUME OrgCreate(r) \/ OrgGrant(r) \/ OrgDelete(r) PROVE Other
  BY <1>9 DEF OrgCreate, OrgGrant, OrgDelete, sessionHistory
<1> HIDE DEF Other
<1> QED
  BY <1>1, <1>2, <1>3, <1>4, <1>5, <1>6, <1>7, <1>8, <1>9 DEF Acts

-----------------------------------------------------------------------------
(* A reset ends the sessions.                                              *)

\* What a step leaves of the rows: no session is new, no version is.
Older == /\ live' \subseteq live
         /\ UNCHANGED <<holder, born, version, late>>

\* Steps that insert no session leave the others of the requests alone.
LEMMA OlderSessions ==
    ASSUME Types, Flow, SessionInv, NEW r \in Requests, Moves(r), Older
    PROVE  /\ ResetEndsSessions'
           /\ \A q \in Requests \ {r} : WillInsert(q)' /\ WillEnd(q)'
<1>1. ResetEndsSessions'
  BY DEF Older, SessionInv, ResetEndsSessions
<1>2. ASSUME NEW q \in Requests \ {r} PROVE WillInsert(q)' /\ WillEnd(q)'
  <2>1. Same(q) /\ WillInsert(q) /\ WillEnd(q)
    BY DEF Moves, SessionInv
  <2>2. WillInsert(q)'
    BY <2>1 DEF Same, WillInsert, In, Older
  <2>3. WillEnd(q)'
    BY <2>1 DEF Same, WillEnd, SessionsOf, Older
  <2> QED
    BY <2>2, <2>3
<1> QED
  BY <1>1, <1>2

\* What a login, a refresh or a reset has read is as old as the rows.
LEMMA ReadSessions ==
    ASSUME Types, Flow, SessionInv, NEW r \in Requests,
           Login(r) \/ Refresh(r) \/ Spend(r) \/ ResetClear(r)
    PROVE  SessionInv'
<1>1. Moves(r) /\ Older
  BY LoginMoves, RefreshMoves, SpendMoves, ResetClearMoves
     DEF Older, OnlyReads, sessions, sessionHistory
<1>2. CASE Ends(r)
  BY <1>1, <1>2, OlderSessions DEF Ends, Ended, WillInsert, WillEnd, SessionInv
<1>3. CASE Login(r) /\ ~Ends(r)
  <2>1. /\ pc'[r] = "issue" /\ local'[r].admin = In(r).admin
        /\ local'[r].born = version[In(r).admin]
    BY <1>3, LoginMoves DEF Goes
  <2>2. WillInsert(r)' /\ WillEnd(r)'
    BY <1>1, <2>1 DEF WillInsert, WillEnd, Older
  <2> QED
    BY <1>1, <2>2, OlderSessions DEF SessionInv
<1>4. CASE Refresh(r) /\ ~Ends(r)
  <2> DEFINE k == input[r].token
  <2>1. /\ pc'[r] \in {"dropExpired", "spend"} /\ input'[r] = input[r] /\ k \in live
        /\ local'[r].admin = holder[k] /\ local'[r].born = born[k]
    BY <1>4, RefreshMoves DEF Goes, In
  <2>2. k \in late \/ born[k] = version[holder[k]]
    BY <2>1 DEF SessionInv, ResetEndsSessions
  <2>3. WillInsert(r)' /\ WillEnd(r)'
    BY <1>1, <2>1, <2>2 DEF WillInsert, WillEnd, Older, In
  <2> QED
    BY <1>1, <2>3, OlderSessions DEF SessionInv
<1>5. CASE Spend(r) /\ ~Ends(r)
  <2>1. /\ pc[r] = "spend" /\ pc'[r] = "issue" /\ input'[r] = input[r] /\ local'[r] = local[r]
    BY <1>5, SpendMoves DEF Goes, Keeps
  <2>2. WillInsert(r)' /\ WillEnd(r)'
    BY <1>1, <2>1 DEF WillInsert, WillEnd, Older, In, SessionInv
  <2> QED
    BY <1>1, <2>2, OlderSessions DEF SessionInv
<1>6. CASE ResetClear(r) /\ ~Ends(r)
  <2>1. /\ pc'[r] = "resetCommit" /\ local'[r].admin = local[r].admin
        /\ local'[r].seen = SessionsOf(local[r].admin)
    BY <1>6, ResetClearMoves DEF Goes
  <2>2. WillInsert(r)' /\ WillEnd(r)'
    BY <1>1, <2>1 DEF WillInsert, WillEnd, Older, SessionsOf
  <2> QED
    BY <1>1, <2>2, OlderSessions DEF SessionInv
<1> QED
  BY <1>2, <1>3, <1>4, <1>5, <1>6

\* A new session is as old as the password, or late.
LEMMA IssueSessions ==
    ASSUME Types, Flow, RefreshInv, SessionInv, NEW r \in Requests, Issue(r)
    PROVE  SessionInv'
<1> DEFINE k == CHOOSE k \in FreshTokens : TRUE
           a == local[r].admin
<1>1. Moves(r) /\ pc[r] = "issue" /\ pc'[r] \in Ended
  BY Finishes DEF Ends, Issue, InsertToken
<1>2. CASE a \notin admins
  <2>1. Older
    BY <1>2 DEF Issue, InsertToken, Older
  <2> QED
    BY <1>1, <2>1, OlderSessions DEF Ended, WillInsert, WillEnd, SessionInv
<1>3. CASE a \in admins
  <2>1. /\ FreshTokens # {} /\ live' = live \cup {k} /\ version' = version
        /\ holder' = [holder EXCEPT ![k] = a] /\ born' = [born EXCEPT ![k] = local[r].born]
        /\ late' = IF \/ <<"password", a>> \in local[r].crossed \/ ResetPending(a)
                      \/ In(r).token \in late
                   THEN late \cup {k} ELSE late
    BY <1>3 DEF Issue, InsertToken
  <2>2. k \in Tokens /\ holder[k] = None
    BY <2>1 DEF FreshTokens
  <2> HIDE DEF k, a
  <2>3. k \notin live
    BY <2>2 DEF RefreshInv
  <2>4. /\ live \subseteq Tokens /\ late \subseteq late'
        /\ \A x \in Tokens : /\ holder'[x] = IF x = k THEN a ELSE holder[x]
                             /\ born'[x] = IF x = k THEN local[r].born ELSE born[x]
    BY <2>1 DEF Types, TypeOK
  <2>5. k \in late' \/ local[r].born = version[a]
    BY <1>1, <2>1 DEF SessionInv, WillInsert, a
  <2>6. ResetEndsSessions'
    BY <2>1, <2>2, <2>3, <2>4, <2>5 DEF SessionInv, ResetEndsSessions
  <2>7. ASSUME NEW q \in Requests PROVE WillInsert(q)' /\ WillEnd(q)'
    <3>1. CASE q = r
      BY <1>1, <3>1 DEF Ended, WillInsert, WillEnd
    <3>2. CASE q # r
      <4>1. Same(q) /\ WillInsert(q) /\ WillEnd(q)
        BY <1>1, <3>2 DEF Moves, SessionInv
      <4>2. WillInsert(q)'
        BY <2>1, <2>4, <4>1 DEF Same, WillInsert, In
      <4>3. ASSUME pc[q] = "resetCommit", local[q].admin = a PROVE k \in late'
        BY <2>1, <4>3 DEF ResetPending
      <4>4. \A x \in live' : x # k => x \in live /\ holder'[x] = holder[x]
        BY <2>1, <2>4
      <4>5. holder'[k] = a
        BY <2>2, <2>4
      <4>6. WillEnd(q)'
        BY <2>4, <4>1, <4>3, <4>4, <4>5 DEF Same, WillEnd, SessionsOf
      <4> QED
        BY <4>2, <4>6
    <3> QED
      BY <3>1, <3>2
  <2> QED
    BY <2>6, <2>7 DEF SessionInv
<1> QED
  BY <1>2, <1>3

\* A reset ends the sessions it has seen, and crosses those who will insert one.
LEMMA CommitSessions ==
    ASSUME Types, Flow, ResetInv, SessionInv, NEW r \in Requests, ResetCommit(r)
    PROVE  SessionInv'
<1> DEFINE a == local[r].admin
<1>1. /\ Moves(r) /\ pc'[r] \in Ended /\ pc[r] = "resetCommit"
      /\ Resets(r) \/ UNCHANGED <<resets, password, live, version, uses>>
      /\ UNCHANGED <<holder, born, late>>
  BY ResetCommitMoves DEF Ends
<1>2. CASE UNCHANGED <<resets, password, live, version, uses>>
  <2>1. Older
    BY <1>1, <1>2 DEF Older
  <2> QED
    BY <1>1, <2>1, OlderSessions DEF Ended, WillInsert, WillEnd, SessionInv
<1>3. CASE Resets(r)
  <2>1. /\ live' = live \ local[r].seen /\ version' = [version EXCEPT ![a] = @ + 1]
        /\ Crosses(r, <<"password", a>>)
    BY <1>3 DEF Resets
  <2>2. SessionsOf(a) \subseteq late \cup local[r].seen
    BY <1>1 DEF SessionInv, WillEnd
  <2> HIDE DEF a
  <2>3. \A b \in Admins : b # a => version'[b] = version[b]
    BY <2>1 DEF Types
  <2>4. \A k \in live' : k \in late' \/ born'[k] = version'[holder'[k]]
    <3>1. \A k \in live : holder[k] \in Admins
      BY DEF Types, TypeOK
    <3> QED
      BY <1>1, <2>1, <2>2, <2>3, <3>1 DEF SessionsOf, SessionInv, ResetEndsSessions
  <2>5. ASSUME NEW q \in Requests PROVE WillInsert(q)' /\ WillEnd(q)'
    <3>1. CASE q = r
      BY <1>1, <3>1 DEF Ended, WillInsert, WillEnd
    <3>2. CASE q # r
      <4>1. Same(q) /\ WillInsert(q) /\ WillEnd(q) /\ FlowOf(q)
        BY <1>1, <3>2 DEF Moves, SessionInv, Flow
      <4>2. pc[q] \in {"spend", "issue"} =>
              local[q].admin \in Admins /\ <<"password", a>> \in local'[q].crossed
        BY <2>1, <3>2, <4>1 DEF FlowOf, Crosses, Ended
      <4>3. WillInsert(q)'
        BY <1>1, <2>3, <4>1, <4>2 DEF Same, WillInsert, In
      <4>4. WillEnd(q)'
        BY <1>1, <2>1, <4>1 DEF Same, WillEnd, SessionsOf
      <4> QED
        BY <4>3, <4>4
    <3> QED
      BY <3>1, <3>2
  <2> QED
    BY <2>4, <2>5 DEF SessionInv, ResetEndsSessions
<1> QED
  BY <1>1, <1>2, <1>3

\* All steps of a request, for the sessions.
LEMMA SessionStep ==
    ASSUME Types, Flow, RefreshInv, ResetInv, SessionInv, NEW r \in Requests, Acts(r)
    PROVE  SessionInv'
<1> DEFINE Other == Moves(r) /\ Older /\ pc'[r] \notin {"spend", "issue", "resetCommit"}
<1>1. ASSUME Other PROVE SessionInv'
  BY <1>1, OlderSessions DEF WillInsert, WillEnd, SessionInv
<1>2. CASE Login(r) \/ Refresh(r) \/ Spend(r) \/ ResetClear(r) \/ Issue(r) \/ ResetCommit(r)
  BY <1>2, ReadSessions, IssueSessions, CommitSessions
<1>3. ASSUME NEW in \in Inputs[r], Begin(r, in) PROVE Other
  <2>1. in.op \in Ops
    BY InputsAre DEF Input
  <2> QED
    BY <1>3, <2>1, BeginMoves DEF OnlyReads, Older, sessions, sessionHistory, Ends, Ended, Ops
<1>4. ASSUME Reset(r) \/ OrgUpdate(r) \/ OrgRemove(r) \/ OrgCount(r) PROVE Other
  BY <1>4, ResetMoves, OrgUpdateMoves, OrgReadMoves
     DEF OnlyReads, Older, sessions, sessionHistory, Ends, Ended, Goes
<1>5. ASSUME Register(r) \/ AdminCreate(r) \/ AdminUpdate(r) \/ Forgot(r) \/ Drop(r) PROVE Other
  BY <1>5, Finishes DEF Register, AdminCreate, NewAdmin, AdminUpdate, Forgot, Drop, Older,
                        sessions, sessionHistory, Ends, Ended
<1>6. ASSUME AdminRemove(r) PROVE Other
  BY <1>6, AdminRemoveMoves DEF AdminRemove, Older, sessionHistory, Ends, Ended
<1>7. ASSUME OrgCreate(r) \/ OrgGrant(r) \/ OrgDelete(r) PROVE Other
  <2>1. Moves(r) /\ Ends(r)
    BY <1>7, ChangeMoves
  <2>2. UNCHANGED <<sessions, sessionHistory>>
    BY <1>7 DEF OrgCreate, OrgGrant, OrgDelete
  <2> QED
    BY <2>1, <2>2 DEF Older, sessions, sessionHistory, Ends, Ended
<1> HIDE DEF Other
<1> QED
  BY <1>1, <1>2, <1>3, <1>4, <1>5, <1>6, <1>7 DEF Acts

-----------------------------------------------------------------------------
(* Organizers.                                                             *)

\* Steps that leave the organizers there are.
LEMMA OrganizersKept ==
    ASSUME Types, OrganizerInv, NEW r \in Requests, Moves(r),
           admins \subseteq admins', UNCHANGED <<organizers, organizerHistory>>
    PROVE  /\ OrganizersExplained'
           /\ \A q \in Requests \ {r} : WillGrant(q)' /\ WillDelete(q)'
<1>1. /\ owner' = owner /\ permissions' = permissions /\ given' = given
      /\ mixed' = mixed /\ uncounted' = uncounted
  BY DEF organizers, organizerHistory
<1>2. Organizers \subseteq Organizers'
  BY <1>1 DEF Organizers
<1>3. OrganizersExplained'
  BY <1>1, <1>2 DEF OrganizerInv, OrganizersExplained, PermissionsReplaced
<1>4. ASSUME NEW q \in Requests \ {r} PROVE WillGrant(q)' /\ WillDelete(q)'
  <2>1. Same(q) /\ WillGrant(q) /\ WillDelete(q)
    BY DEF Moves, OrganizerInv
  <2>2. WillGrant(q)'
    BY <1>1, <2>1 DEF Same, WillGrant, In
  <2>3. WillDelete(q)'
    BY <1>2, <2>1 DEF Same, WillDelete
  <2> QED
    BY <2>2, <2>3
<1> QED
  BY <1>3, <1>4

\* A change of an admin's permissions crosses all others.
LEMMA OthersCrossed ==
    ASSUME Types, OrganizerInv, NEW r \in Requests, Moves(r),
           NEW a \in Admins, Crosses(r, <<"permissions", a>>),
           \A b \in Admins : b # a => permissions'[b] = permissions[b],
           Flow
    PROVE  \A q \in Requests \ {r} : WillGrant(q)' /\ WillDelete(q)'
<1> SUFFICES ASSUME NEW q \in Requests \ {r} PROVE WillGrant(q)' /\ WillDelete(q)'
  OBVIOUS
<1>1. Same(q) /\ WillGrant(q)
  BY DEF Moves, OrganizerInv
<1>2. pc[q] \in {"orgGrant", "orgDelete"} => <<"permissions", a>> \in local'[q].crossed
  BY DEF Crosses, Ended
<1>3. pc[q] = "orgGrant" => input[q].admin \in Admins
  <2> HAVE pc[q] = "orgGrant"
  <2>1. In(q) \in Inputs[q] /\ In(q).op = "orgUpdate"
    BY DEF Flow, FlowOf
  <2> QED
    BY <2>1, InputsAre DEF In
<1>4. WillGrant(q)'
  BY <1>1, <1>2, <1>3 DEF WillGrant, Same, In
<1>5. WillDelete(q)'
  BY <1>1, <1>2 DEF WillDelete, Same
<1> QED
  BY <1>4, <1>5

\* A count above one means two organizers.
LEMMA TwoOrganizers ==
    ASSUME ~(Cardinality(Organizers) <= 1)
    PROVE  \E a, b \in Organizers : a # b
<1> SUFFICES ASSUME \A a, b \in Organizers : a = b PROVE FALSE
  OBVIOUS
<1>1. CASE Organizers = {}
  BY <1>1, FS_EmptySet
<1>2. CASE Organizers # {}
  <2>1. PICK a \in Organizers : TRUE
    BY <1>2
  <2>2. Organizers = {a}
    BY <2>1
  <2>3. Cardinality({a}) = 1
    BY FS_Singleton
  <2> QED
    BY <2>2, <2>3
<1> QED
  BY <1>1, <1>2

\* The reads of an update and of a removal.
LEMMA ReadOrganizers ==
    ASSUME Types, Flow, OrganizerInv, NEW r \in Requests, OrgUpdate(r) \/ OrgRemove(r) \/ OrgCount(r)
    PROVE  OrganizerInv'
<1>1. /\ Moves(r) /\ admins' = admins /\ UNCHANGED <<organizers, organizerHistory>>
  BY OrgUpdateMoves, OrgReadMoves DEF OnlyReads, accounts
<1>2. /\ OrganizersExplained'
      /\ \A q \in Requests \ {r} : WillGrant(q)' /\ WillDelete(q)'
  BY <1>1, OrganizersKept
<1>3. owner' = owner /\ permissions' = permissions
  BY <1>1 DEF organizers
<1>4. WillGrant(r)' /\ WillDelete(r)'
  <2>1. CASE OrgUpdate(r) /\ ~Ends(r)
    <3>1. /\ pc'[r] = "orgGrant" /\ input'[r] = input[r]
          /\ local'[r].seen = permissions[input[r].admin]
      BY <2>1, OrgUpdateMoves DEF Goes, In
    <3> QED
      BY <1>3, <3>1 DEF WillGrant, WillDelete, In
  <2>2. CASE Ends(r)
    BY <2>2 DEF Ends, Ended, WillGrant, WillDelete
  <2>3. CASE ~OrgUpdate(r) /\ ~Ends(r)
    <3>1. pc'[r] = "orgCount" \/ (pc'[r] = "orgDelete" /\ \E a, b \in Organizers : a # b)
      BY <2>3, OrgReadMoves, TwoOrganizers DEF Goes
    <3>2. Organizers' = Organizers
      BY <1>1, <1>3 DEF Organizers
    <3> QED
      BY <3>1, <3>2 DEF WillGrant, WillDelete
  <2> QED
    BY <2>1, <2>2, <2>3
<1> QED
  BY <1>2, <1>4 DEF OrganizerInv

\* Changes of permissions replace them, and leave an organizer unless crossed.
LEMMA ChangeOrganizers ==
    ASSUME Types, Flow, OrganizerInv, NEW r \in Requests, OrgCreate(r) \/ OrgGrant(r) \/ OrgDelete(r)
    PROVE  OrganizerInv'
<1> DEFINE a == In(r).admin
<1>1. Moves(r) /\ pc'[r] \in Ended /\ a \in Admins
  BY ChangeMoves DEF Ends
<1>2. admins' = admins /\ owner' = owner
  BY DEF OrgCreate, OrgGrant, OrgDelete, accounts
<1>3. CASE OnlyReads
  BY <1>1, <1>2, <1>3, OrganizersKept DEF OnlyReads, Ended, WillGrant, WillDelete, OrganizerInv
<1>4. ASSUME NEW new, NEW asked, Changes(r, new, asked),
             a \notin mixed /\ <<"permissions", a>> \notin local[r].crossed => new = asked,
             \/ a \in admins /\ new # {} /\ uncounted' = uncounted
             \/ uncounted'
             \/ uncounted' = uncounted /\ \E b, c \in Organizers : b # c
      PROVE  OrganizerInv'
  <2>1. /\ permissions' = [permissions EXCEPT ![a] = new]
        /\ given' = [given EXCEPT ![a] = asked]
        /\ mixed' = IF <<"permissions", a>> \in local[r].crossed THEN mixed \cup {a} ELSE mixed
        /\ Crosses(r, <<"permissions", a>>)
    BY <1>4 DEF Changes
  <2> HIDE DEF a
  <2>2. \A b \in Admins : /\ permissions'[b] = IF b = a THEN new ELSE permissions[b]
                          /\ given'[b] = IF b = a THEN asked ELSE given[b]
    BY <2>1 DEF Types, TypeOK
  <2>3. PermissionsReplaced'
    BY <1>4, <2>1, <2>2 DEF PermissionsReplaced, OrganizerInv, OrganizersExplained
  <2>4. \A b \in Organizers : b # a => b \in Organizers'
    BY <1>2, <2>2 DEF Organizers, Types, TypeOK
  <2>5. Organizers' # {} \/ uncounted'
    <3>1. CASE a \in admins /\ new # {} /\ uncounted' = uncounted
      BY <1>1, <1>2, <2>2, <3>1 DEF Organizers
    <3>2. CASE \E b, c \in Organizers : b # c
      BY <2>4, <3>2
    <3> QED
      BY <1>4, <3>1, <3>2
  <2>6. \A q \in Requests \ {r} : WillGrant(q)' /\ WillDelete(q)'
    BY <1>1, <2>1, <2>2, OthersCrossed
  <2>7. WillGrant(r)' /\ WillDelete(r)'
    BY <1>1 DEF Ended, WillGrant, WillDelete
  <2> QED
    BY <2>3, <2>5, <2>6, <2>7 DEF OrganizerInv, OrganizersExplained
<1>5. ASSUME OrgCreate(r) \/ OrgGrant(r), ~OnlyReads PROVE In(r).permissions # {}
  <2>1. In(r) \in Inputs[r] /\ In(r).op \in {"orgCreate", "orgUpdate"}
    BY <1>5 DEF OrgCreate, OrgGrant, Flow, FlowOf, Ops
  <2> QED
    BY <2>1, AccessAssumption
<1>6. CASE OrgCreate(r) /\ ~OnlyReads
  <2>1. /\ a \in admins /\ uncounted' = uncounted
        /\ Changes(r, permissions[a] \cup In(r).permissions, given[a] \cup In(r).permissions)
    BY <1>6, ChangeMoves DEF OrgCreate
  <2>2. a \notin mixed => permissions[a] = given[a]
    BY <1>1 DEF OrganizerInv, OrganizersExplained, PermissionsReplaced
  <2>3. permissions[a] \cup In(r).permissions # {}
    BY <1>5, <1>6
  <2> QED
    BY <1>4, <2>1, <2>2, <2>3
<1>7. CASE OrgGrant(r) /\ ~OnlyReads
  <2>1. /\ a \in admins /\ uncounted' = uncounted /\ pc[r] = "orgGrant"
        /\ Changes(r, (permissions[a] \ local[r].seen) \cup In(r).permissions, In(r).permissions)
    BY <1>7, ChangeMoves DEF OrgGrant
  <2>2. <<"permissions", a>> \notin local[r].crossed => permissions[a] = local[r].seen
    BY <2>1 DEF OrganizerInv, WillGrant
  <2>3. (permissions[a] \ local[r].seen) \cup In(r).permissions # {}
    BY <1>5, <1>7
  <2> QED
    BY <1>4, <2>1, <2>2, <2>3
<1>8. CASE OrgDelete(r)
  <2>1. /\ pc[r] = "orgDelete" /\ Changes(r, {}, {})
        /\ uncounted' = (uncounted \/ \E c \in local[r].crossed : c[1] = "permissions")
    BY <1>8, ChangeMoves DEF OrgDelete
  <2>2. \/ \E c \in local[r].crossed : c[1] = "permissions"
        \/ \E b, c \in Organizers : b # c
    BY <2>1 DEF OrganizerInv, WillDelete
  <2>3. uncounted' \/ (uncounted' = uncounted /\ \E b, c \in Organizers : b # c)
    BY <2>1, <2>2 DEF Types, TypeOK
  <2> QED
    BY <1>4, <2>1, <2>3
<1> QED
  BY <1>3, <1>6, <1>7, <1>8

\* The removal of an account.
LEMMA RemoveOrganizers ==
    ASSUME Types, Flow, OrganizerInv, NEW r \in Requests, AdminRemove(r)
    PROVE  OrganizerInv'
<1> DEFINE a == In(r).admin
<1>1. Moves(r) /\ pc'[r] \in Ended
  BY AdminRemoveMoves DEF Ends
<1>2. WillGrant(r)' /\ WillDelete(r)'
  BY <1>1 DEF Ended, WillGrant, WillDelete
<1>3. CASE OnlyReads
  BY <1>1, <1>2, <1>3, OrganizersKept DEF OnlyReads, accounts, OrganizerInv
<1>4. CASE ~OnlyReads
  <2>1. a # In(r).actor /\ a \in admins
    <3> SUFFICES ASSUME ~(a # In(r).actor /\ a \in admins) PROVE OnlyReads
      BY <1>4
    <3> QED
      BY DEF AdminRemove, OnlyReads, accounts, organizers, sessions, resetting,
             sessionHistory, organizerHistory
  <2>2. /\ admins' = admins \ {a} /\ permissions' = [permissions EXCEPT ![a] = {}]
        /\ given' = [given EXCEPT ![a] = {}] /\ mixed' = mixed
        /\ owner' = IF owner = a THEN None ELSE owner
        /\ uncounted' = (uncounted \/ Organizers = {a})
    BY <2>1 DEF AdminRemove
  <2>3. Crosses(r, <<"permissions", a>>)
    BY <1>4, AdminRemoveMoves
  <2>4. a \in Admins
    BY <2>1 DEF Types, TypeOK
  <2> HIDE DEF a
  <2>5. \A b \in Admins : /\ permissions'[b] = IF b = a THEN {} ELSE permissions[b]
                          /\ given'[b] = IF b = a THEN {} ELSE given[b]
    BY <2>2 DEF Types, TypeOK
  <2>6. PermissionsReplaced'
    BY <2>2, <2>5 DEF PermissionsReplaced, OrganizerInv, OrganizersExplained
  <2>7. \A b \in Organizers : b # a => b \in Organizers'
    BY <2>2, <2>5 DEF Organizers, Types, TypeOK
  <2>8. Organizers' # {} \/ uncounted'
    <3>1. CASE Organizers = {a} \/ Organizers = {}
      BY <2>2, <3>1 DEF OrganizerInv, OrganizersExplained
    <3>2. CASE ~(Organizers = {a} \/ Organizers = {})
      <4>1. \E b \in Organizers : b # a
        BY <3>2
      <4> QED
        BY <2>7, <4>1
    <3> QED
      BY <3>1, <3>2
  <2>9. \A q \in Requests \ {r} : WillGrant(q)' /\ WillDelete(q)'
    BY <1>1, <2>3, <2>4, <2>5, OthersCrossed
  <2> QED
    BY <1>2, <2>6, <2>8, <2>9 DEF OrganizerInv, OrganizersExplained
<1> QED
  BY <1>3, <1>4

\* All steps of a request, for the organizers.
LEMMA OrganizerStep ==
    ASSUME Types, Flow, ResetInv, OrganizerInv, NEW r \in Requests, Acts(r)
    PROVE  OrganizerInv'
<1> DEFINE Other == /\ Moves(r) /\ admins \subseteq admins'
                    /\ UNCHANGED <<organizers, organizerHistory>>
                    /\ pc'[r] \notin {"orgGrant", "orgDelete"}
<1>1. ASSUME Other PROVE OrganizerInv'
  BY <1>1, OrganizersKept DEF WillGrant, WillDelete, OrganizerInv
<1>2. CASE \/ OrgCreate(r) \/ OrgUpdate(r) \/ OrgGrant(r) \/ OrgRemove(r) \/ OrgCount(r)
           \/ OrgDelete(r) \/ AdminRemove(r)
  BY <1>2, ReadOrganizers, ChangeOrganizers, RemoveOrganizers
<1>3. ASSUME NEW in \in Inputs[r], Begin(r, in) PROVE Other
  <2>1. in.op \in Ops
    BY InputsAre DEF Input
  <2> QED
    BY <1>3, <2>1, BeginMoves DEF OnlyReads, accounts, Ends, Ended, Ops
<1>4. ASSUME Login(r) \/ Refresh(r) \/ Reset(r) \/ ResetClear(r) PROVE Other
  BY <1>4, LoginMoves, RefreshMoves, ResetMoves, ResetClearMoves
     DEF OnlyReads, accounts, Ends, Ended, Goes
<1>5. ASSUME Register(r) \/ AdminCreate(r) PROVE Other
  BY <1>5, Finishes DEF Register, AdminCreate, NewAdmin, accounts, Ends, Ended
<1>6. ASSUME AdminUpdate(r) \/ Forgot(r) \/ Drop(r) \/ Issue(r) PROVE Other
  BY <1>6, Finishes DEF AdminUpdate, Forgot, Drop, Issue, InsertToken, accounts, Ends, Ended
<1>7. ASSUME Spend(r) PROVE Other
  BY <1>7, SpendMoves DEF accounts, Ends, Ended, Goes
<1>8. ASSUME ResetCommit(r) PROVE Other
  BY <1>8, ResetCommitMoves DEF Ends, Ended
<1> HIDE DEF Other
<1> QED
  BY <1>1, <1>2, <1>3, <1>4, <1>5, <1>6, <1>7, <1>8 DEF Acts

-----------------------------------------------------------------------------
(* The invariant.                                                          *)

\* The invariant holds at the start, ...
LEMMA InitAccess == Init => AccessInv
<1> SUFFICES ASSUME Init PROVE AccessInv
  OBVIOUS
<1>1. Types
  BY InitTypes
<1>2. /\ FirstToken \in Tokens /\ FirstReset \in ResetTokens
      /\ Owner \in Admins /\ Owner # None
  BY AccessAssumption DEF FirstToken, FirstReset
<1>3. \A r \in Requests : pc[r] = "idle"
  BY DEF Init
<1>4. Flow
  BY <1>3 DEF Flow, FlowOf, Ops
<1>5. \A t \in AllTokens : uses[t] = 0
  BY DEF Init, AllTokens
<1>6. TokenSpentOnce
  BY <1>5 DEF TokenSpentOnce, AllTokens
<1>7. /\ live = {FirstToken} /\ resets = {FirstReset}
      /\ \A k \in Tokens : holder[k] = IF k = FirstToken THEN Owner ELSE None
      /\ \A z \in ResetTokens : resetOf[z] = IF z = FirstReset THEN Owner ELSE None
  BY DEF Init
<1>8. RefreshInv
  BY <1>2, <1>3, <1>5, <1>7 DEF RefreshInv, Exchanges, AllTokens
<1>9. ResetInv
  BY <1>2, <1>3, <1>5, <1>7 DEF ResetInv, AllTokens
<1>10. SessionInv
  <2>1. born[FirstToken] = 0 /\ version[Owner] = 0 /\ holder[FirstToken] = Owner
    BY <1>2, <1>7 DEF Init
  <2>2. ResetEndsSessions
    BY <1>7, <2>1 DEF ResetEndsSessions
  <2> QED
    BY <1>3, <2>2 DEF SessionInv, WillInsert, WillEnd
<1>11. OrganizerInv
  <2>1. Owner \in Organizers
    BY AccessAssumption DEF Init, Organizers
  <2>2. PermissionsReplaced
    BY DEF Init, PermissionsReplaced
  <2> QED
    BY <1>3, <2>1, <2>2 DEF OrganizerInv, OrganizersExplained, WillGrant, WillDelete
<1> QED
  BY <1>1, <1>4, <1>6, <1>8, <1>9, <1>10, <1>11 DEF AccessInv

\* Time, and a step that changes nothing.
LEMMA QuietStep ==
    ASSUME AccessInv, (\E t \in Tokens \cup ResetTokens : Expire(t)) \/ UNCHANGED vars
    PROVE  AccessInv'
<1>1. /\ UNCHANGED <<admins, known, password, owner, permissions, live, holder, resets, resetOf>>
      /\ UNCHANGED <<pc, input, local, version, born, late, uses, given, mixed, uncounted>>
  BY DEF Expire, vars, accounts, organizers, sessions, resetting, requests, sessionHistory,
         organizerHistory
<1>2. expired' \subseteq Tokens \cup ResetTokens
  BY DEF Expire, vars, sessions, AccessInv, Types, TypeOK
<1>3. Types'
  BY <1>1, <1>2 DEF AccessInv, Types, TypeOK
<1>4. Flow' /\ TokenSpentOnce'
  BY <1>1 DEF AccessInv, Flow, FlowOf, In, TokenSpentOnce
<1>5. RefreshInv' /\ ResetInv'
  BY <1>1 DEF AccessInv, RefreshInv, Exchanges, ResetInv, In
<1>6. SessionInv'
  BY <1>1 DEF AccessInv, SessionInv, ResetEndsSessions, WillInsert, WillEnd, SessionsOf, In
<1>7. OrganizerInv'
  BY <1>1 DEF AccessInv, OrganizerInv, OrganizersExplained, PermissionsReplaced, WillGrant,
              WillDelete, Organizers, In
<1> QED
  BY <1>3, <1>4, <1>5, <1>6, <1>7 DEF AccessInv

\* ... and every step preserves it.
THEOREM AccessInvariant == Spec => []AccessInv
<1>1. AccessInv /\ [Next]_vars => AccessInv'
  <2> SUFFICES ASSUME AccessInv, [Next]_vars PROVE AccessInv'
    OBVIOUS
  <2>1. CASE \E r \in Requests : Acts(r)
    <3>1. PICK r \in Requests : Acts(r)
      BY <2>1
    <3> QED
      BY <3>1, TypesStep, FlowStep, SpentStep, RefreshStep, ResetStep, SessionStep, OrganizerStep
         DEF AccessInv
  <2>2. CASE (\E t \in Tokens \cup ResetTokens : Expire(t)) \/ UNCHANGED vars
    BY <2>2, QuietStep
  <2> QED
    BY <2>1, <2>2 DEF Next, Acts
<1> QED
  BY <1>1, InitAccess, PTL DEF Spec

\* The rows of the accounts, organizers and tokens are as the schema has them:
\* tokens and permissions only of admins who exist.
THEOREM AccessTypes == Spec => []TypeOK
<1>1. AccessInv => TypeOK
  BY DEF AccessInv, Types
<1> QED
  BY <1>1, AccessInvariant, PTL

\* refreshTokens and resetPassword exchange a token once, however many requests
\* present it.
THEOREM TokensSpentOnce == Spec => []TokenSpentOnce
<1>1. AccessInv => TokenSpentOnce
  BY DEF AccessInv
<1> QED
  BY <1>1, AccessInvariant, PTL

\* resetPassword ends every session of its admin that no overlapping request
\* inserts.
THEOREM ResetsEndSessions == Spec => []ResetEndsSessions
<1>1. AccessInv => ResetEndsSessions
  BY DEF AccessInv, SessionInv
<1> QED
  BY <1>1, AccessInvariant, PTL

\* OrganizersService leaves the event an organizer, unless a removal overlapped
\* another change or an account was deleted; permissions are those asked for.
THEOREM OrganizersAreExplained == Spec => []OrganizersExplained
<1>1. AccessInv => OrganizersExplained
  BY DEF AccessInv, OrganizerInv
<1> QED
  BY <1>1, AccessInvariant, PTL
=============================================================================
