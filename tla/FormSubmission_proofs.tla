----------------------- MODULE FormSubmission_proofs -----------------------
(***************************************************************************)
(* Theorems about FormSubmission, for every set of requests, blocks and    *)
(* uploads and every choice of capacities.                                 *)
(***************************************************************************)
EXTENDS FormSubmission, FiniteSetTheorems, TLAPS

-----------------------------------------------------------------------------
(* The fields of a body, and of a handler's variables.                     *)

LEMMA InputFields ==
  ASSUME NEW in \in Inputs
  PROVE  /\ in.kind \in FormKinds \cup AdminKinds
         /\ in.email \in Emails \cup {None}
         /\ in.target \in People \cup {None}
         /\ in.attrs \in Seq(Attributes)
         /\ in.file \in Tokens \cup {None}
         /\ in.choice \in Seq(Blocks)
BY InputsAssumption DEF Input

LEMMA FreshLocal == Fresh \in Local
BY DEF Fresh, Local

LEMMA LocalFields ==
  ASSUME NEW l \in Local
  PROVE  /\ l.todo \in Seq(Attributes)
         /\ l.pending \in Seq(Blocks)
         /\ l.kept \in SUBSET Blocks
         /\ l.seen \in Nat
         /\ l.old \in SUBSET Tokens
BY DEF Local

LEMMA UpdateLocal ==
  ASSUME NEW l \in Local
  PROVE  /\ \A x \in Seq(Attributes) : [l EXCEPT !.todo = x] \in Local
         /\ \A x \in Seq(Blocks) : [l EXCEPT !.pending = x] \in Local
         /\ \A x \in SUBSET Blocks : [l EXCEPT !.kept = x] \in Local
         /\ \A x \in Nat : [l EXCEPT !.seen = x] \in Local
         /\ \A x \in SUBSET Tokens : [l EXCEPT !.old = x] \in Local
BY DEF Local

\* The next attribute or block is taken off a handler's queue.
LEMMA TakeTodo ==
  ASSUME TypeOK, NEW r \in Requests, local[r].todo # << >>, NextAnswer(r)
  PROVE  local' \in [Requests -> Local]
<1>1. Tail(local[r].todo) \in Seq(Attributes)
  BY LocalFields DEF TypeOK
<1>2. [local[r] EXCEPT !.todo = Tail(local[r].todo)] \in Local
  BY <1>1, UpdateLocal DEF TypeOK
<1>3. local' = [local EXCEPT ![r] = [local[r] EXCEPT !.todo = Tail(local[r].todo)]]
  BY DEF NextAnswer
<1>4. QED
  BY <1>2, <1>3 DEF TypeOK

LEMMA TakePending ==
  ASSUME TypeOK, NEW r \in Requests, local[r].pending # << >>,
         local' = [local EXCEPT ![r].pending = Tail(@)]
  PROVE  local' \in [Requests -> Local]
<1>1. Tail(local[r].pending) \in Seq(Blocks)
  BY LocalFields DEF TypeOK
<1>2. [local[r] EXCEPT !.pending = Tail(local[r].pending)] \in Local
  BY <1>1, UpdateLocal DEF TypeOK
<1>3. QED
  BY <1>2 DEF TypeOK

LEMMA SetOld ==
  ASSUME TypeOK, NEW r \in Requests, NEW S \in SUBSET Tokens,
         local' = [local EXCEPT ![r].old = S]
  PROVE  local' \in [Requests -> Local]
<1>1. [local[r] EXCEPT !.old = S] \in Local
  BY UpdateLocal DEF TypeOK
<1>2. QED
  BY <1>1 DEF TypeOK

-----------------------------------------------------------------------------
(* Types.                                                                  *)

LEMMA FailType ==
  ASSUME TypeOK, NEW r \in Requests, Fail(r)
  PROVE  TypeOK'
BY FreshLocal DEF TypeOK, Fail, Forget, Unlock, Goto, Active, Ended, OuterStates,
                  InnerStates, AdminStates, people, reaper

LEMMA SeenType == TypeOK => Cardinality(registered) \in Nat
BY SetsAssumption, FS_Subset, FS_CardinalityType DEF TypeOK

\* One step keeps the types, given what handlers may rely on.
LEMMA TypeStep ==
  ASSUME TypeOK, HandlersOK, [Next]_vars
  PROVE  TypeOK'
<1> USE DEF TypeOK, tables, people, blocks, uploads, reaper, request, Goto, Query,
            Active, Ended, OuterStates, InnerStates, AdminStates
<1>1. ASSUME NEW r \in Requests, Begin(r) PROVE TypeOK'
  <2>1. [local[r] EXCEPT !.seen = Cardinality(registered)] \in Local
    BY SeenType, UpdateLocal
  <2>2. [[local[r] EXCEPT !.seen = Cardinality(registered)] EXCEPT !.todo = input[r].attrs]
           \in Local
    BY <2>1, UpdateLocal, InputFields
  <2>3. local' = [local EXCEPT ![r] =
           [[local[r] EXCEPT !.seen = Cardinality(registered)] EXCEPT !.todo = input[r].attrs]]
    BY <1>1 DEF Begin
  <2>4. QED
    BY <1>1, <2>2, <2>3 DEF Begin
<1>2. ASSUME NEW r \in Requests, BeginAdmin(r) PROVE TypeOK'
  <2>1. input[r].kind \in AdminKinds
    BY <1>2, InputFields DEF BeginAdmin, IsForm
  <2>2. QED
    BY <1>2, <2>1 DEF BeginAdmin, AdminKinds
<1>3. ASSUME NEW r \in Requests, CheckForm(r) \/ BeginInner(r) PROVE TypeOK'
  BY <1>3 DEF CheckForm, BeginInner
<1>4. ASSUME NEW r \in Requests, Reject(r) PROVE TypeOK'
  BY <1>4, FailType DEF Reject
<1>5. ASSUME NEW r \in Requests, ReadToken(r) PROVE TypeOK'
  <2>1. CASE Fail(r)
    BY <2>1, FailType
  <2>2. CASE NextAnswer(r) /\ UNCHANGED <<tables, pc, input, outer, wrote>>
    <3>1. local' \in [Requests -> Local]
      BY <1>5, <2>2, TakeTodo DEF ReadToken
    <3>2. QED
      BY <2>2, <3>1
  <2>3. CASE Goto(r, "claim") /\ UNCHANGED <<tables, input, outer, wrote, local>>
    BY <2>3
  <2>4. QED
    BY <1>5, <2>1, <2>2, <2>3 DEF ReadToken
<1>6. ASSUME NEW r \in Requests, ClaimToken(r) PROVE TypeOK'
  <2>1. CASE Fail(r)
    BY <2>1, FailType
  <2>2. CASE NextAnswer(r) /\ Goto(r, "answers")
             /\ claimer' = [claimer EXCEPT ![input[r].file] = r]
             /\ UNCHANGED <<people, blocks, row, object, reaper, input, outer, wrote>>
    <3>1. local' \in [Requests -> Local]
      BY <1>6, <2>2, TakeTodo DEF ClaimToken, HandlersOK
    <3>2. QED
      BY <2>2, <3>1
  <2>3. QED
    BY <1>6, <2>1, <2>2 DEF ClaimToken
<1>7. ASSUME NEW r \in Requests, ReadPrevious(r) PROVE TypeOK'
  <2> DEFINE K == IF input[r].target = None THEN {} ELSE seats[input[r].target]
  <2>1. K \in SUBSET Blocks
    BY InputFields
  <2>2. [local[r] EXCEPT !.pending = input[r].choice] \in Local
    BY UpdateLocal, InputFields
  <2>3. [[local[r] EXCEPT !.pending = input[r].choice] EXCEPT !.kept = K] \in Local
    BY <2>1, <2>2, UpdateLocal
  <2>4. local' = [local EXCEPT ![r] =
           [[local[r] EXCEPT !.pending = input[r].choice] EXCEPT !.kept = K]]
    BY <1>7 DEF ReadPrevious
  <2>5. QED
    BY <1>7, <2>3, <2>4 DEF ReadPrevious
<1>8. ASSUME NEW r \in Requests, KeepBlock(r) PROVE TypeOK'
  <2>1. local' \in [Requests -> Local]
    BY <1>8, TakePending DEF KeepBlock
  <2>2. QED
    BY <1>8, <2>1 DEF KeepBlock
<1>9. ASSUME NEW r \in Requests, LockBlock(r) PROVE TypeOK'
  BY <1>9 DEF LockBlock
<1>10. ASSUME NEW r \in Requests, CountBlock(r) PROVE TypeOK'
  <2>1. CASE Fail(r)
    BY <2>1, FailType
  <2>2. CASE /\ local' = [local EXCEPT ![r].pending = Tail(@)]
             /\ Goto(r, "lock")
             /\ UNCHANGED <<tables, input, outer, wrote>>
    <3>1. local' \in [Requests -> Local]
      BY <1>10, <2>2, TakePending DEF CountBlock, HandlersOK
    <3>2. QED
      BY <2>2, <3>1
  <2>3. QED
    BY <1>10, <2>1, <2>2 DEF CountBlock
<1>11. ASSUME NEW r \in Requests, BlocksChecked(r) PROVE TypeOK'
  <2>1. local' \in [Requests -> Local]
    BY <1>11, TakeTodo DEF BlocksChecked, HandlersOK
  <2>2. QED
    BY <1>11, <2>1 DEF BlocksChecked
<1>12. ASSUME NEW r \in Requests, CheckRequired(r) PROVE TypeOK'
  BY <1>12, FailType DEF CheckRequired
<1>13. ASSUME NEW r \in Requests, Register(r) PROVE TypeOK'
  <2>1. r \in People /\ input[r].email \in Emails \cup {None}
        /\ input[r].file \in Tokens \cup {None} /\ Range(input[r].choice) \subseteq Blocks
    BY InputFields DEF People, Range
  <2>2. CASE EmailFree(input[r].email, r)
    <3>1. registered' \subseteq People /\ email' \in [People -> Emails \cup {None}]
          /\ file' \in [People -> Tokens \cup {None}] /\ revived' \subseteq Tokens
      BY <1>13, <2>1, <2>2 DEF Register
    <3>2. seats' \in [People -> SUBSET Blocks] /\ guarded' \in [Blocks -> SUBSET People]
      BY <1>13, <2>1, <2>2 DEF Register, Reseat
    <3>3. local' \in [Requests -> Local] /\ wrote' \in [Requests -> BOOLEAN]
      <4>1. Forget(r) /\ Written(r)
        BY <1>13, <2>2 DEF Register
      <4>2. QED
        BY <4>1, FreshLocal DEF Written, Forget
    <3>4. pc' \in [Requests -> {"idle"} \cup Active \cup Ended]
      BY <1>13, <2>2 DEF Register
    <3>5. QED
      BY <1>13, <2>2, <3>1, <3>2, <3>3, <3>4 DEF Register
  <2>3. CASE ~EmailFree(input[r].email, r)
    BY <1>13, <2>3, FailType DEF Register
  <2>4. QED
    BY <2>2, <2>3
<1>14. ASSUME NEW r \in Requests, Lookup(r) \/ Prepare(r) PROVE TypeOK'
  BY <1>14, FailType DEF Lookup, Prepare
<1>15. ASSUME NEW r \in Requests, ReadFiles(r) PROVE TypeOK'
  <2> DEFINE S == IF Submitted(r, "file")
                  THEN {file[input[r].target]} \ {None, input[r].file} ELSE {}
  <2>1. S \in SUBSET Tokens
    BY <1>15, InputFields DEF ReadFiles, HandlersOK
  <2>2. local' \in [Requests -> Local]
    BY <1>15, <2>1, SetOld DEF ReadFiles
  <2>3. QED
    BY <1>15, <2>2 DEF ReadFiles
<1>16. ASSUME NEW r \in Requests, Write(r) PROVE TypeOK'
  <2>1. input[r].email \in Emails \cup {None}
        /\ input[r].file \in Tokens \cup {None} /\ Range(input[r].choice) \subseteq Blocks
    BY InputFields DEF Range
  <2>2. CASE Fail(r)
    BY <2>2, FailType
  <2>3. CASE ~Fail(r)
    <3>1. input[r].target \in registered
      BY <1>16, <2>3 DEF Write
    <3>2. email' \in [People -> Emails \cup {None}] /\ file' \in [People -> Tokens \cup {None}]
          /\ revived' \subseteq Tokens
      BY <1>16, <2>1, <2>3, <3>1 DEF Write
    <3> DEFINE B == IF Submitted(r, "blocks") THEN Range(input[r].choice)
                                              ELSE seats[input[r].target]
    <3>3. seats' \in [People -> SUBSET Blocks] /\ guarded' \in [Blocks -> SUBSET People]
      <4>1. B \subseteq Blocks /\ input[r].target \in People
        BY <2>1, <3>1
      <4>2. Reseat(r, input[r].target, B)
        BY <1>16, <2>3 DEF Write
      <4>3. QED
        BY <4>1, <4>2 DEF Reseat
    <3>4. QED
      BY <1>16, <2>3, <3>2, <3>3 DEF Write, Written
  <2>4. QED
    BY <2>2, <2>3
<1>17. ASSUME NEW r \in Requests, ReadRow(r) PROVE TypeOK'
  <2>1. CASE input[r].target \in registered
    <3> DEFINE S == {file[input[r].target]} \ {None}
    <3>1. S \in SUBSET Tokens
      BY <2>1
    <3>2. local' = [local EXCEPT ![r].old = S]
      BY <1>17, <2>1 DEF ReadRow
    <3> HIDE DEF S
    <3>4. local' \in [Requests -> Local]
      BY <3>1, <3>2, SetOld
    <3>3. QED
      BY <1>17, <2>1, <3>4 DEF ReadRow
  <2>2. CASE input[r].target \notin registered
    BY <1>17, <2>2, FailType DEF ReadRow
  <2>3. QED
    BY <2>1, <2>2
<1>18. ASSUME NEW r \in Requests, Delete(r) PROVE TypeOK'
  <2>1. CASE input[r].target \in registered
    <3>1. seats' \in [People -> SUBSET Blocks] /\ guarded' \in [Blocks -> SUBSET People]
      BY <1>18, <2>1 DEF Delete, Reseat
    <3>2. email' \in [People -> Emails \cup {None}] /\ file' \in [People -> Tokens \cup {None}]
      BY <1>18, <2>1 DEF Delete
    <3>3. QED
      BY <1>18, <2>1, <3>1, <3>2 DEF Delete, Written
  <2>2. CASE input[r].target \notin registered
    BY <1>18, <2>2, FailType DEF Delete
  <2>3. QED
    BY <2>1, <2>2
<1>19. ASSUME NEW r \in Requests, Purge(r) PROVE TypeOK'
  <2>1. CASE local[r].old = {}
    BY <1>19, <2>1, FreshLocal DEF Purge, Forget
  <2>2. CASE local[r].old # {}
    <3>1. PICK t \in local[r].old :
            /\ local' = [local EXCEPT ![r].old = local[r].old \ {t}]
            /\ object' \in {object, object \ {t}}
            /\ UNCHANGED <<people, blocks, row, claimer, reaper, pc, input, outer, wrote>>
      BY <1>19, <2>2 DEF Purge
    <3>2. local[r].old \ {t} \in SUBSET Tokens
      BY LocalFields
    <3>3. local' \in [Requests -> Local]
      BY <3>1, <3>2, SetOld
    <3>4. QED
      BY <3>1, <3>3
  <2>3. QED
    BY <2>1, <2>2
<1>20. ASSUME NEW r \in Requests, Commit(r) PROVE TypeOK'
  BY <1>20 DEF Commit, Unlock
<1>21. ASSUME NEW r \in Requests, FindExpired(r) PROVE TypeOK'
  BY <1>21, FailType DEF FindExpired
<1>22. ASSUME NEW r \in Requests, Expire(r) PROVE TypeOK'
  BY <1>22 DEF Expire, Unlock
<1>23. ASSUME NEW r \in Requests, DeadlockVictim(r) PROVE TypeOK'
  BY <1>23, FailType DEF DeadlockVictim
<1>24. ASSUME Crash PROVE TypeOK'
  BY <1>24, FreshLocal DEF Crash
<1>25. ASSUME NEW b \in Blocks, SetCapacity(b) PROVE TypeOK'
  BY <1>25 DEF SetCapacity
<1>26. ASSUME NEW t \in Tokens, PutObject(t) \/ CreateRow(t) \/ ReapObject(t)
       PROVE TypeOK'
  BY <1>26 DEF PutObject, CreateRow, ReapObject
<1>27. ASSUME FindExpiredFiles \/ ReapRows PROVE TypeOK'
  BY <1>27 DEF FindExpiredFiles, ReapRows
<1>28. CASE UNCHANGED vars
  BY <1>28 DEF vars
<1>29. QED
  BY <1>1, <1>2, <1>3, <1>4, <1>5, <1>6, <1>7, <1>8, <1>9, <1>10, <1>11,
     <1>12, <1>13, <1>14, <1>15, <1>16, <1>17, <1>18, <1>19, <1>20, <1>21,
     <1>22, <1>23, <1>24, <1>25, <1>26, <1>27, <1>28 DEF Next, Step

-----------------------------------------------------------------------------
(* What handlers rely on.                                                  *)

LEMMA FailHandlers ==
  ASSUME TypeOK, HandlersOK, NEW r \in Requests, Fail(r)
  PROVE  HandlersOK'
BY DEF TypeOK, HandlersOK, Fail, Goto, Forget, Ended, IsForm, OuterStates

LEMMA HandlersStep ==
  ASSUME TypeOK, HandlersOK, [Next]_vars
  PROVE  HandlersOK'
<1> USE DEF TypeOK, HandlersOK, Local, Goto, Query, Ended, IsForm, OuterStates
<1>1. ASSUME NEW r \in Requests, Begin(r) PROVE HandlersOK'
  BY <1>1 DEF Begin
<1>2. ASSUME NEW r \in Requests, BeginAdmin(r) PROVE HandlersOK'
  BY <1>2, InputFields DEF BeginAdmin, IsForm, AdminKinds
<1>3. ASSUME NEW r \in Requests, CheckForm(r) \/ BeginInner(r) PROVE HandlersOK'
  BY ZenonT(40), <1>3 DEF CheckForm, BeginInner
<1>4. ASSUME NEW r \in Requests, Reject(r) PROVE HandlersOK'
  BY <1>4, FailHandlers DEF Reject
<1>5. ASSUME NEW r \in Requests, ReadToken(r) PROVE HandlersOK'
  BY ZenonT(40), <1>5, FailHandlers DEF ReadToken, NextAnswer
<1>6. ASSUME NEW r \in Requests, ClaimToken(r) PROVE HandlersOK'
  <2>1. CASE Fail(r)
    BY <2>1, FailHandlers
  <2>2. CASE NextAnswer(r) /\ Goto(r, "answers") /\ UNCHANGED <<input, wrote>>
    BY <1>6, <2>2 DEF ClaimToken, NextAnswer
  <2>3. QED
    BY <1>6, <2>1, <2>2 DEF ClaimToken
<1>7. ASSUME NEW r \in Requests, ReadPrevious(r) PROVE HandlersOK'
  BY <1>7 DEF ReadPrevious
<1>8. ASSUME NEW r \in Requests, KeepBlock(r) PROVE HandlersOK'
  BY <1>8 DEF KeepBlock
<1>9. ASSUME NEW r \in Requests, LockBlock(r) PROVE HandlersOK'
  BY <1>9 DEF LockBlock
<1>10. ASSUME NEW r \in Requests, CountBlock(r) PROVE HandlersOK'
  <2>1. CASE Fail(r)
    BY <2>1, FailHandlers
  <2>2. CASE /\ local' = [local EXCEPT ![r].pending = Tail(@)]
             /\ Goto(r, "lock")
             /\ UNCHANGED <<tables, input, outer, wrote>>
    BY <1>10, <2>2 DEF CountBlock
  <2>3. QED
    BY <1>10, <2>1, <2>2 DEF CountBlock
<1>11. ASSUME NEW r \in Requests, BlocksChecked(r) PROVE HandlersOK'
  BY <1>11 DEF BlocksChecked, NextAnswer
<1>12. ASSUME NEW r \in Requests, CheckRequired(r) PROVE HandlersOK'
  BY ZenonT(40), <1>12, FailHandlers DEF CheckRequired
<1>13. ASSUME NEW r \in Requests, Register(r) PROVE HandlersOK'
  <2>1. CASE Fail(r)
    BY <2>1, FailHandlers
  <2>2. CASE /\ Written(r)
             /\ Goto(r, IF IsForm(r) THEN "commit" ELSE "done")
             /\ Forget(r)
             /\ input' = input
    BY <2>2 DEF Written, Forget
  <2>3. QED
    BY <1>13, <2>1, <2>2 DEF Register
<1>14. ASSUME NEW r \in Requests, Lookup(r) \/ Prepare(r) PROVE HandlersOK'
  <2>1. CASE Fail(r)
    BY <2>1, FailHandlers
  <2>2. CASE ~Fail(r) /\ Lookup(r)
    BY <2>2, SetsAssumption DEF Lookup
  <2>3. CASE ~Fail(r) /\ Prepare(r)
    BY <2>3 DEF Prepare
  <2> QED
    BY <1>14, <2>1, <2>2, <2>3
<1>15. ASSUME NEW r \in Requests, ReadFiles(r) PROVE HandlersOK'
  BY <1>15 DEF ReadFiles
<1>16. ASSUME NEW r \in Requests, Write(r) PROVE HandlersOK'
  BY ZenonT(40), <1>16, FailHandlers DEF Write, Written
<1>17. ASSUME NEW r \in Requests, ReadRow(r) PROVE HandlersOK'
  BY ZenonT(40), <1>17, FailHandlers, SetsAssumption DEF ReadRow
<1>18. ASSUME NEW r \in Requests, Delete(r) PROVE HandlersOK'
  BY ZenonT(40), <1>18, FailHandlers DEF Delete, Written
<1>19. ASSUME NEW r \in Requests, Purge(r) PROVE HandlersOK'
  <2>1. CASE UNCHANGED <<pc, input, outer, wrote>>
    <3>1. \A s \in Requests : pc[s] \in {"claim", "lock", "count"} => local'[s] = local[s]
      BY <1>19, <2>1 DEF Purge, Forget
    <3>2. QED
      BY <2>1, <3>1
  <2>2. CASE Goto(r, IF IsForm(r) THEN "commit" ELSE "done") /\ Forget(r)
             /\ UNCHANGED <<input, wrote>>
    BY <2>2 DEF Forget
  <2>3. QED
    BY <1>19, <2>1, <2>2 DEF Purge
<1>20. ASSUME NEW r \in Requests, Commit(r) PROVE HandlersOK'
  BY <1>20 DEF Commit
<1>21. ASSUME NEW r \in Requests, FindExpired(r) PROVE HandlersOK'
  BY <1>21, FailHandlers DEF FindExpired
<1>22. ASSUME NEW r \in Requests, Expire(r) PROVE HandlersOK'
  BY <1>22 DEF Expire
<1>23. ASSUME NEW r \in Requests, DeadlockVictim(r) PROVE HandlersOK'
  BY <1>23, FailHandlers DEF DeadlockVictim
<1>24. ASSUME Crash PROVE HandlersOK'
  BY <1>24 DEF Crash
<1>25. ASSUME NEW b \in Blocks, SetCapacity(b) PROVE HandlersOK'
  BY <1>25 DEF SetCapacity, request
<1>26. ASSUME NEW t \in Tokens, PutObject(t) \/ CreateRow(t) \/ ReapObject(t)
       PROVE HandlersOK'
  BY <1>26 DEF PutObject, CreateRow, ReapObject, request
<1>27. ASSUME FindExpiredFiles \/ ReapRows PROVE HandlersOK'
  BY <1>27 DEF FindExpiredFiles, ReapRows, request
<1>28. CASE UNCHANGED vars
  BY <1>28 DEF vars, request
<1>29. QED
  BY <1>1, <1>2, <1>3, <1>4, <1>5, <1>6, <1>7, <1>8, <1>9, <1>10, <1>11,
     <1>12, <1>13, <1>14, <1>15, <1>16, <1>17, <1>18, <1>19, <1>20, <1>21,
     <1>22, <1>23, <1>24, <1>25, <1>26, <1>27, <1>28 DEF Next, Step

-----------------------------------------------------------------------------
(* Every step is one of five kinds, as far as seats are concerned.         *)

\* No seat changes; locks are only given up, and a handler that counts under
\* a lock it keeps goes on counting the same block.
Calm ==
  /\ UNCHANGED <<people, capacity, wrote>>
  /\ \A b \in Blocks, s \in Requests :
        lock'[b] = s => /\ lock[b] = s
                        /\ pc[s] = "count" => /\ pc'[s] = "count"
                                              /\ local'[s].pending = local[s].pending

\* Request r gives participant p the blocks B (none: p is removed).
Seating(r, p, B) ==
  /\ Reseat(r, p, B)
  /\ Written(r)
  /\ ~wrote[r]
  /\ pc[r] # "count"
  /\ UNCHANGED <<capacity, lock>>
  /\ \A s \in Requests \ {r} : pc'[s] = pc[s] /\ local'[s] = local[s]
  /\ registered \ {p} \subseteq registered'
  /\ B # {} => p \in registered'

Counted(r) ==
  /\ pc[r] = "count"
  /\ HasRoom(capacity[Head(local[r].pending)], Cardinality(Seated(Head(local[r].pending))))
  /\ UNCHANGED <<people, capacity, lock, wrote>>
  /\ \A s \in Requests \ {r} : pc'[s] = pc[s] /\ local'[s] = local[s]

LEMMA FailIsCalm ==
  ASSUME TypeOK, NEW r \in Requests, Fail(r)
  PROVE  Calm
BY SetsAssumption DEF TypeOK, Fail, Goto, Unlock, Forget, Calm, People

LEMMA SeatingKinds ==
  ASSUME TypeOK, HandlersOK, NEW r \in Requests,
         Register(r) \/ Write(r) \/ Delete(r)
  PROVE  Calm \/ \E p \in People, B \in SUBSET Blocks : Seating(r, p, B)
<1> USE DEF TypeOK
<1>1. CASE Fail(r)
  BY <1>1, FailIsCalm
<1>2. CASE Register(r) /\ ~Fail(r)
  <2> DEFINE B == IF Submitted(r, "blocks") THEN Range(input[r].choice) ELSE {}
  <2>1. r \in People /\ B \in SUBSET Blocks
    BY InputFields DEF People, Range
  <2>2. Reseat(r, r, B) /\ Written(r)
    BY <1>2 DEF Register
  <2>3. Seating(r, r, B)
    BY <1>2, <2>2 DEF Register, Seating, blocks, Goto, Forget, HandlersOK, Ended
  <2>4. QED
    BY <2>1, <2>3
<1>3. CASE Write(r) /\ ~Fail(r)
  <2> DEFINE p == input[r].target
             B == IF Submitted(r, "blocks") THEN Range(input[r].choice) ELSE seats[p]
  <2>1. p \in registered /\ Reseat(r, p, B) /\ Written(r)
    BY <1>3 DEF Write
  <2>2. B \in SUBSET Blocks
    BY <2>1, InputFields DEF Range
  <2>3. Seating(r, p, B)
    BY <1>3, <2>1 DEF Write, Seating, blocks, Goto, HandlersOK, Ended
  <2>4. QED
    BY <2>1, <2>2, <2>3
<1>4. CASE Delete(r) /\ ~Fail(r)
  <2>1. Seating(r, input[r].target, {}) /\ input[r].target \in registered
    BY <1>4 DEF Delete, Seating, blocks, Goto, HandlersOK, Ended
  <2>2. QED
    BY <2>1
<1>5. QED
  BY <1>1, <1>2, <1>3, <1>4

LEMMA StepKinds ==
  ASSUME TypeOK, HandlersOK, [Next]_vars
  PROVE  \/ Calm
         \/ \E r \in Requests : LockBlock(r) \/ Counted(r)
         \/ \E r \in Requests, p \in People, B \in SUBSET Blocks : Seating(r, p, B)
         \/ \E b \in Blocks : SetCapacity(b)
<1> USE DEF TypeOK, Local, Goto, Query, tables, blocks
<1>1. ASSUME NEW r \in Requests,
             Begin(r) \/ BeginAdmin(r) \/ CheckForm(r) \/ BeginInner(r)
      PROVE  Calm
  BY <1>1 DEF Begin, BeginAdmin, CheckForm, BeginInner, Calm
<1>2. ASSUME NEW r \in Requests, Reject(r) \/ FindExpired(r) \/ DeadlockVictim(r) PROVE Calm
  BY <1>2, FailIsCalm DEF Reject, FindExpired, DeadlockVictim
<1>3. ASSUME NEW r \in Requests, ReadToken(r) \/ ClaimToken(r) PROVE Calm
  BY <1>3, FailIsCalm DEF ReadToken, ClaimToken, NextAnswer, Calm
<1>4. ASSUME NEW r \in Requests, ReadPrevious(r) \/ KeepBlock(r) \/ BlocksChecked(r)
      PROVE  Calm
  BY <1>4 DEF ReadPrevious, KeepBlock, BlocksChecked, NextAnswer, Calm
<1>5. ASSUME NEW r \in Requests, CountBlock(r) PROVE Calm \/ Counted(r)
  BY <1>5, FailIsCalm DEF CountBlock, Counted
<1>6. ASSUME NEW r \in Requests,
             CheckRequired(r) \/ Lookup(r) \/ Prepare(r) \/ ReadRow(r)
      PROVE  Calm
  BY <1>6, FailIsCalm DEF CheckRequired, Lookup, Prepare, ReadRow, Calm
<1>7. ASSUME NEW r \in Requests, ReadFiles(r) \/ Purge(r) PROVE Calm
  BY <1>7 DEF ReadFiles, Purge, Forget, Calm
<1>8. ASSUME NEW r \in Requests, Commit(r) \/ Expire(r) PROVE Calm
  BY <1>8, SetsAssumption DEF Commit, Expire, Unlock, Calm, People
<1>9. ASSUME Crash PROVE Calm
  BY <1>9, SetsAssumption DEF Crash, Calm, People
<1>10. ASSUME NEW t \in Tokens, PutObject(t) \/ CreateRow(t) \/ ReapObject(t) PROVE Calm
  BY <1>10 DEF PutObject, CreateRow, ReapObject, Calm, request
<1>11. ASSUME FindExpiredFiles \/ ReapRows PROVE Calm
  BY <1>11 DEF FindExpiredFiles, ReapRows, Calm, request
<1>12. CASE UNCHANGED vars
  BY <1>12 DEF vars, request, Calm
<1>13. QED
  BY <1>1, <1>2, <1>3, <1>4, <1>5, <1>6, <1>7, <1>8, <1>9, <1>10, <1>11, <1>12,
     SeatingKinds DEF Next, Step

-----------------------------------------------------------------------------
(* Seats.                                                                  *)

LEMMA FinitePeople ==
  ASSUME NEW S \in SUBSET People
  PROVE  IsFiniteSet(S) /\ Cardinality(S) \in Nat
BY SetsAssumption, FS_Subset, FS_CardinalityType

\* A smaller set of seats leaves at least as much room.
LEMMA RoomShrinks ==
  ASSUME NEW S \in SUBSET People, NEW T \in SUBSET S, NEW cap \in Capacities,
         HasRoom(cap, Cardinality(S))
  PROVE  HasRoom(cap, Cardinality(T))
<1>1. /\ Cardinality(T) <= Cardinality(S)
      /\ Cardinality(S) \in Nat /\ Cardinality(T) \in Nat
  BY FinitePeople, FS_Subset
<1>2. QED
  BY <1>1, CapacitiesAssumption DEF HasRoom

LEMMA SeatedPeople ==
  ASSUME TypeOK, NEW b \in Blocks
  PROVE  Seated(b) \in SUBSET People
BY DEF TypeOK, Seated

LEMMA GuardedStep ==
  ASSUME SeatInv, [Next]_vars
  PROVE  GuardedSeats'
<1> USE DEF SeatInv, TypeOK, GuardedSeats, Seated
<1>1. CASE Calm
  BY <1>1 DEF Calm, people
<1>2. ASSUME NEW r \in Requests, LockBlock(r) \/ Counted(r) PROVE GuardedSeats'
  BY <1>2 DEF LockBlock, Counted, people
<1>3. ASSUME NEW r \in Requests, NEW p \in People, NEW B \in SUBSET Blocks, Seating(r, p, B)
      PROVE  GuardedSeats'
  <2> SUFFICES ASSUME NEW b \in Blocks, NEW q \in guarded'[b]
               PROVE  q \in registered' /\ b \in seats'[q]
    OBVIOUS
  <2>1. CASE q = p
    BY <1>3, <2>1 DEF Seating, Reseat
  <2>2. CASE q # p
    <3>1. q \in guarded[b]
      BY <1>3, <2>2 DEF Seating, Reseat
    <3>2. QED
      BY <1>3, <2>2, <3>1 DEF Seating, Reseat
  <2>3. QED
    BY <2>1, <2>2
<1>4. ASSUME NEW b \in Blocks, SetCapacity(b) PROVE GuardedSeats'
  BY <1>4 DEF SetCapacity, people
<1>5. QED
  BY <1>1, <1>2, <1>3, <1>4, StepKinds

LEMMA ReservedStep ==
  ASSUME SeatInv, TypeOK', [Next]_vars
  PROVE  SeatReserved'
<1> USE DEF SeatInv
<1>1. CASE Calm
  BY <1>1 DEF Calm, people, SeatReserved
<1>2. ASSUME NEW r \in Requests, LockBlock(r) PROVE SeatReserved'
  BY <1>2 DEF LockBlock, Query, Goto, people, SeatReserved, TypeOK
<1>3. ASSUME NEW r \in Requests, Counted(r) PROVE SeatReserved'
  <2> DEFINE h == Head(local[r].pending)
  <2> SUFFICES ASSUME NEW b \in Blocks, NEW s \in Requests,
                      lock'[b] = s, ~wrote'[s],
                      ~(pc'[s] = "count" /\ Head(local'[s].pending) = b)
               PROVE  HasRoom(capacity'[b], Cardinality(guarded'[b]))
    BY DEF SeatReserved
  <2>1. CASE s = r /\ b = h
    <3>1. guarded[b] \in SUBSET Seated(b) /\ capacity[b] \in Capacities
      BY DEF GuardedSeats, TypeOK
    <3>2. HasRoom(capacity[b], Cardinality(Seated(b)))
      BY <1>3, <2>1 DEF Counted
    <3>3. QED
      BY <1>3, <3>1, <3>2, RoomShrinks, SeatedPeople DEF Counted, people
  <2>2. CASE ~(s = r /\ b = h)
    <3>1. lock[b] = s /\ ~wrote[s] /\ ~(pc[s] = "count" /\ Head(local[s].pending) = b)
      BY <1>3, <2>2 DEF Counted
    <3>2. QED
      BY <1>3, <3>1 DEF Counted, people, SeatReserved
  <2>3. QED
    BY <2>1, <2>2
<1>4. ASSUME NEW r \in Requests, NEW p \in People, NEW B \in SUBSET Blocks, Seating(r, p, B)
      PROVE  SeatReserved'
  <2> SUFFICES ASSUME NEW b \in Blocks, NEW s \in Requests,
                      lock'[b] = s, ~wrote'[s],
                      ~(pc'[s] = "count" /\ Head(local'[s].pending) = b)
               PROVE  HasRoom(capacity'[b], Cardinality(guarded'[b]))
    BY DEF SeatReserved
  <2>1. s # r
    BY <1>4 DEF Seating, Written, TypeOK
  <2>2. HasRoom(capacity[b], Cardinality(guarded[b]))
    BY <1>4, <2>1 DEF Seating, Written, SeatReserved, TypeOK
  <2>3. guarded'[b] \in SUBSET guarded[b]
    BY <1>4, <2>1 DEF Seating, Reseat
  <2>4. QED
    BY <1>4, <2>2, <2>3, RoomShrinks DEF Seating, TypeOK
<1>5. ASSUME NEW b \in Blocks, SetCapacity(b) PROVE SeatReserved'
  BY <1>5, SetsAssumption DEF SetCapacity, people, request, SeatReserved, TypeOK, People
<1>6. QED
  BY <1>1, <1>2, <1>3, <1>4, <1>5, StepKinds

LEMMA InitSeats == Init => SeatInv
<1> SUFFICES ASSUME Init PROVE SeatInv
  OBVIOUS
<1>1. TypeOK
  BY CapacitiesAssumption, FreshLocal DEF Init, TypeOK, People
<1>2. HandlersOK /\ GuardedSeats /\ SeatReserved
  BY SetsAssumption DEF Init, HandlersOK, GuardedSeats, SeatReserved, Seated, People, OuterStates
<1>3. QED
  BY <1>1, <1>2 DEF SeatInv

LEMMA SeatInvariant == Spec => []SeatInv
<1>1. SeatInv /\ [Next]_vars => SeatInv'
  <2> SUFFICES ASSUME SeatInv, [Next]_vars PROVE SeatInv'
    OBVIOUS
  <2>1. TypeOK' /\ HandlersOK'
    BY TypeStep, HandlersStep DEF SeatInv
  <2>2. QED
    BY <2>1, GuardedStep, ReservedStep DEF SeatInv
<1>2. QED
  BY <1>1, InitSeats, PTL DEF Spec

\* Every variable keeps its type: in particular a handler's queues stay
\* sequences of the attributes and blocks its request named.
THEOREM TypeCorrect == Spec => []TypeOK
BY SeatInvariant, PTL DEF SeatInv

\* From the count under the block's lock to the write in the other transaction
\* the seat stays free, among the seats taken under the lock: for any number of
\* submissions, crashes, expired transactions and organizers' edits.
THEOREM SeatsReserved == Spec => []SeatReserved
BY SeatInvariant, PTL DEF SeatInv

-----------------------------------------------------------------------------
(* The submission implements BlockSeats.                                   *)

\* BlockSeats counts with the same operator.
LEMMA SameCount == \A S : Seats!Cardinality(S) = Cardinality(S)
BY DEF Seats!Cardinality, Cardinality

\* A write seats p anew only in blocks whose lock its request holds, and there
\* the seat was reserved.
LEMMA SeatingIsReseat ==
  ASSUME SeatInv, NEW r \in Requests, NEW p \in People, NEW B \in SUBSET Blocks,
         Seating(r, p, B)
  PROVE  \E C \in SUBSET Blocks : Seats!Reseat(p, C)
<1> DEFINE C == {b \in B : lock[b] = r \/ p \in guarded[b]}
<1>1. \A b \in C : p \in guarded[b] \/ HasRoom(capacity[b], Cardinality(guarded[b]))
  BY DEF SeatInv, SeatReserved, Seating
<1>2. guarded' = [b \in Blocks |-> IF b \in C THEN guarded[b] \cup {p} ELSE guarded[b] \ {p}]
  <2>1. \A b \in B : p \notin guarded[b] /\ lock[b] # r => guarded[b] = guarded[b] \ {p}
    OBVIOUS
  <2>2. \A b \in B : p \in guarded[b] => guarded[b] = guarded[b] \cup {p}
    OBVIOUS
  <2>3. QED
    BY <2>1, <2>2 DEF Seating, Reseat
<1> HIDE DEF C
<1>3. Seats!Reseat(p, C)
  BY <1>1, <1>2, SameCount DEF Seats!Reseat, Seats!HasRoom, HasRoom, Seating
<1>4. QED
  BY <1>3 DEF C

\* Seats taken under a block's lock keep what BlockSeats promises: the lock in
\* the outer transaction protects a write that another transaction commits.
THEOREM SubmissionImplementsBlockSeats == Spec => SeatsPromise
<1>1. Init => Seats!Init
  <2> SUFFICES ASSUME Init PROVE Seats!Init
    OBVIOUS
  <2>1. guarded \in [Blocks -> SUBSET People] /\ capacity \in [Blocks -> Capacities]
    BY DEF Init, People
  <2>2. \A b \in Blocks : Seats!Within(capacity[b], Cardinality(guarded[b]))
    BY SameCount DEF Init, Within, Seats!Within
  <2>3. QED
    BY <2>1, <2>2, SameCount DEF Seats!Init, Seats!TypeOK
<1>2. SeatInv /\ [Next]_vars => [Seats!Next]_(Seats!vars)
  <2> SUFFICES ASSUME SeatInv, [Next]_vars PROVE [Seats!Next]_(Seats!vars)
    OBVIOUS
  <2>1. CASE Calm
    BY <2>1 DEF Calm, people, Seats!vars
  <2>2. ASSUME NEW r \in Requests, LockBlock(r) \/ Counted(r)
        PROVE  UNCHANGED Seats!vars
    BY <2>2 DEF LockBlock, Counted, people, Seats!vars
  <2>3. ASSUME NEW r \in Requests, NEW p \in People, NEW B \in SUBSET Blocks,
               Seating(r, p, B)
        PROVE  Seats!Next
    BY <2>3, SeatingIsReseat DEF Seats!Next
  <2>4. ASSUME NEW b \in Blocks, SetCapacity(b) PROVE Seats!Next
    BY <2>4 DEF SetCapacity, people, Seats!Next, Seats!SetCapacity
  <2>5. QED
    BY <2>1, <2>2, <2>3, <2>4, StepKinds DEF SeatInv
<1>3. QED
  BY <1>1, <1>2, SeatInvariant, PTL DEF Spec, SeatsPromise, Seats!Spec

-----------------------------------------------------------------------------
(* What the end of a request leaves behind.                                *)

\* Only a handler that waits for a lock is chosen as a deadlock's victim, and
\* it has not written yet.
LEMMA VictimWaits ==
  ASSUME NEW r \in Requests, InCycle(r)
  PROVE  pc[r] \in {"lock", "claim"}
BY DEF InCycle, WaitsFor

LEMMA FailOutcome ==
  ASSUME TypeOK, OutcomeInv, NEW r \in Requests, Fail(r),
         pc[r] # "done", wrote[r] => outer[r] = "expired"
  PROVE  OutcomeInv'
<1> USE DEF TypeOK, Fail, Goto, people, reaper
<1>1. NoTokenBurnt'
  BY DEF OutcomeInv, NoTokenBurnt, IsForm
<1>2. FailureLeavesNothing'
  BY DEF OutcomeInv, FailureLeavesNothing
<1>3. QED
  BY <1>1, <1>2 DEF OutcomeInv, Unlock, IsForm

\* A step that leaves the claims alone, and takes a handler to its last states
\* only when it has written, keeps the invariant.
Harmless ==
  /\ row' = row /\ claimer' = claimer /\ input' = input
  /\ \A r \in Requests :
        /\ wrote[r] => wrote'[r]
        /\ pc[r] = "done" => pc'[r] = "done"
        /\ pc'[r] \in {"purge", "commit"} => wrote'[r]
        /\ pc'[r] = "failed" /\ wrote'[r] => outer'[r] = "expired"

LEMMA HarmlessOutcome == OutcomeInv /\ Harmless => OutcomeInv'
BY DEF Harmless, OutcomeInv, NoTokenBurnt, FailureLeavesNothing, IsForm

LEMMA OutcomeStep ==
  ASSUME TypeOK, HandlersOK, OutcomeInv, [Next]_vars
  PROVE  OutcomeInv'
<1> USE DEF TypeOK, HandlersOK, Ended, tables, uploads, Goto, Query, IsForm
<1>1. \A r \in Requests : wrote[r] /\ pc[r] = "failed" => outer[r] = "expired"
  BY DEF OutcomeInv, FailureLeavesNothing
<1>2. \A r \in Requests : pc[r] \in {"purge", "commit"} => wrote[r]
  BY DEF OutcomeInv
<1> USE DEF Harmless
<1>3. ASSUME NEW r \in Requests, Begin(r) \/ BeginAdmin(r) PROVE OutcomeInv'
  BY <1>1, <1>2, <1>3, HarmlessOutcome, InputFields DEF Begin, BeginAdmin, AdminKinds
<1>4. ASSUME NEW r \in Requests, Fail(r), Step(r) \/ DeadlockVictim(r) PROVE OutcomeInv'
  <2>1. CASE Reject(r)
    BY <1>4, <2>1, FailOutcome DEF Reject, InnerOpen
  <2>2. CASE FindExpired(r)
    BY <1>4, <2>2, FailOutcome DEF FindExpired, OuterStates
  <2>3. CASE DeadlockVictim(r)
    BY <1>4, <2>3, FailOutcome, VictimWaits DEF DeadlockVictim
  <2>4. CASE ~Reject(r) /\ ~FindExpired(r) /\ ~DeadlockVictim(r)
    <3>1. pc[r] \notin Ended \cup {"purge", "commit"} \/ pc'[r] # "failed"
      BY <1>4, <2>4 DEF Step, CheckForm, ReadToken, ClaimToken, ReadPrevious, KeepBlock,
           LockBlock, CountBlock, BlocksChecked, CheckRequired, BeginInner, Register, Lookup,
           Prepare, ReadFiles, Write, ReadRow, Delete, Purge, Commit
    <3>2. pc'[r] = "failed"
      BY <1>4 DEF Fail
    <3>3. QED
      BY <1>1, <1>4, <3>1, <3>2, FailOutcome
  <2>5. QED
    BY <2>1, <2>2, <2>3, <2>4
<1>5. ASSUME NEW r \in Requests, ~Fail(r),
             \/ CheckForm(r) \/ ReadToken(r) \/ ReadPrevious(r) \/ KeepBlock(r)
             \/ LockBlock(r) \/ CountBlock(r) \/ BlocksChecked(r) \/ CheckRequired(r)
             \/ BeginInner(r) \/ Lookup(r) \/ Prepare(r) \/ ReadFiles(r) \/ ReadRow(r)
      PROVE  OutcomeInv'
  BY SMTT(20), <1>1, <1>2, <1>5, HarmlessOutcome DEF CheckForm, ReadToken, ReadPrevious, KeepBlock,
       LockBlock, CountBlock, BlocksChecked, CheckRequired, BeginInner, Lookup, Prepare,
       ReadFiles, ReadRow, NextAnswer
<1>6. ASSUME NEW r \in Requests, ~Fail(r), Register(r) \/ Write(r) \/ Delete(r)
      PROVE  OutcomeInv'
  BY <1>1, <1>2, <1>6, HarmlessOutcome DEF Register, Write, Delete, Written
<1>7. ASSUME NEW r \in Requests, Purge(r) PROVE OutcomeInv'
  BY <1>1, <1>2, <1>7, HarmlessOutcome DEF Purge
<1>8. ASSUME NEW r \in Requests, ~Fail(r), ClaimToken(r) PROVE OutcomeInv'
  <2>1. IsForm(r) /\ input' = input /\ wrote' = wrote /\ row' = row
        /\ pc[r] = "claim" /\ pc' = [pc EXCEPT ![r] = "answers"] /\ outer' = outer
        /\ claimer' = [claimer EXCEPT ![input[r].file] = r]
    BY <1>8 DEF ClaimToken, OuterStates
  <2> QED
    BY <2>1 DEF OutcomeInv, NoTokenBurnt, FailureLeavesNothing
<1>9. ASSUME NEW r \in Requests, Commit(r) PROVE OutcomeInv'
  <2>1. NoTokenBurnt'
    BY <1>2, <1>9, SetsAssumption DEF Commit, OutcomeInv, NoTokenBurnt, People
  <2>2. QED
    BY <1>9, <2>1 DEF Commit, Unlock, OutcomeInv, FailureLeavesNothing
<1>10. ASSUME NEW r \in Requests, Expire(r) PROVE OutcomeInv'
  BY <1>10 DEF Expire, Unlock, OutcomeInv, NoTokenBurnt, FailureLeavesNothing
<1>11. ASSUME Crash PROVE OutcomeInv'
  <2>1. NoTokenBurnt'
    <3> SUFFICES ASSUME NEW t \in Tokens, row'[t] = "claimed"
                 PROVE  \E r \in Requests : /\ IsForm(r)' /\ pc'[r] = "done" /\ wrote'[r]
                                           /\ input'[r].file = t
      BY DEF NoTokenBurnt
    <3>1. row[t] = "claimed"
      BY <1>11 DEF Crash
    <3>2. PICK r \in Requests : IsForm(r) /\ pc[r] = "done" /\ wrote[r] /\ input[r].file = t
      BY <3>1 DEF OutcomeInv, NoTokenBurnt
    <3>3. pc'[r] = "done"
      BY <1>11, <3>2 DEF Crash, Active, OuterStates, InnerStates, AdminStates
    <3>4. QED
      BY <1>11, <3>2, <3>3 DEF Crash
  <2>2. FailureLeavesNothing'
    BY <1>11 DEF Crash, OutcomeInv, FailureLeavesNothing
  <2>3. \A r \in Requests : pc'[r] \notin {"purge", "commit"}
    BY <1>11 DEF Crash, Active
  <2>4. QED
    BY <1>11, <2>1, <2>2, <2>3 DEF Crash, OutcomeInv
<1>12. ASSUME NEW b \in Blocks, SetCapacity(b) PROVE OutcomeInv'
  BY <1>1, <1>2, <1>12, HarmlessOutcome DEF SetCapacity, request
<1>13. ASSUME NEW t \in Tokens, PutObject(t) \/ CreateRow(t) \/ ReapObject(t)
       PROVE  OutcomeInv'
  BY <1>13 DEF PutObject, CreateRow, ReapObject, request, OutcomeInv, NoTokenBurnt,
               FailureLeavesNothing
<1>14. ASSUME FindExpiredFiles \/ ReapRows PROVE OutcomeInv'
  BY <1>14 DEF FindExpiredFiles, ReapRows, request, OutcomeInv, NoTokenBurnt,
               FailureLeavesNothing
<1>15. CASE UNCHANGED vars
  BY <1>1, <1>2, <1>15, HarmlessOutcome DEF vars, request
<1>16. QED
  BY <1>3, <1>4, <1>5, <1>6, <1>7, <1>8, <1>9, <1>10, <1>11, <1>12, <1>13, <1>14, <1>15
     DEF Next, Step, Reject, FindExpired, DeadlockVictim

LEMMA OutcomeInvariant == Spec => []OutcomeInv
<1>1. Init => OutcomeInv
  BY DEF Init, OutcomeInv, NoTokenBurnt, FailureLeavesNothing
<1>2. SeatInv /\ OutcomeInv /\ [Next]_vars => OutcomeInv'
  BY OutcomeStep DEF SeatInv
<1>3. QED
  BY <1>1, <1>2, SeatInvariant, PTL DEF Spec

\* An upload is consumed only by a submission that was carried out, although
\* the claim and the participant are written by different transactions.
THEOREM NoTokenIsBurnt == Spec => []NoTokenBurnt
BY OutcomeInvariant, PTL DEF OutcomeInv

\* A request that fails has written nothing, unless its outer transaction ran
\* into the time limit after the inner one had committed.
THEOREM FailuresLeaveNothing == Spec => []FailureLeavesNothing
BY OutcomeInvariant, PTL DEF OutcomeInv

-----------------------------------------------------------------------------
(* What becomes of files.                                                  *)

\* The handler of each kind of request has states of its own.
FlowOf(r) ==
  LET kind == input[r].kind IN
  /\ pc[r] \in OuterStates => IsForm(r)
  /\ pc[r] = "enter" => kind # "remove"
  /\ pc[r] = "insert" => kind \in {"registration", "create"}
  /\ pc[r] \in {"lookup", "prepare", "readFiles", "write"} => kind \in {"update", "edit"}
  /\ pc[r] \in AdminStates => kind = "remove"

\* A submission whose file is no longer to be handled names an upload that was
\* stored.
Stored(t) == row[t] # "new"
AnswersOf(r) ==
  /\ pc[r] \in {"lock", "count"} => Head(local[r].todo) = "blocks"
  /\ pc[r] = "claim" => Stored(input[r].file)
  /\ pc[r] \in InnerStates /\ IsForm(r) => local[r].todo = << >>
  /\ /\ pc[r] \in OuterStates \cup InnerStates
     /\ IsForm(r) /\ Submitted(r, "file") /\ input[r].file # None
     => "file" \in Range(local[r].todo) \/ Stored(input[r].file)

StoredInv ==
  /\ \A r \in Requests : FlowOf(r) /\ AnswersOf(r)
  /\ \A t \in Tokens : claimer[t] # None \/ t \in reapRows => Stored(t)

\* The participant whose values a request writes.
Owner(r) == IF input[r].kind \in {"registration", "create"} THEN r ELSE input[r].target
Gave(r, t, p) == IsForm(r) /\ wrote[r] /\ input[r].file = t /\ Owner(r) = p
Once(t) == \E r \in Requests : IsForm(r) /\ wrote[r] /\ input[r].file = t
Twice(t) == \E r, s \in Requests :
              /\ r # s /\ IsForm(r) /\ IsForm(s) /\ wrote[r] /\ wrote[s]
              /\ input[r].file = t /\ input[s].file = t

\* A file was given to its participant by a submission, and so was one that an
\* organizer's edit sends back; one that is noted for deletion was given to the
\* participant it is taken from, and if that one has it again when it is
\* deleted, a second submission gave it or an edit put it back.
HeldOf(p) ==
  file[p] # None => p \in registered /\ \E r \in Requests : Gave(r, file[p], p)
NotedOf(r) ==
  \A t \in local[r].old :
    /\ pc[r] \in {"write", "delete", "purge"}
    /\ \E s \in Requests : Gave(s, t, input[r].target)
    /\ pc[r] = "write" => Submitted(r, "file") /\ t # input[r].file
    /\ pc[r] = "purge" /\ file[input[r].target] = t => Twice(t) \/ t \in revived
SentOf(r) ==
  pc[r] \in {"readFiles", "write"} /\ ~IsForm(r) /\ input[r].file # None =>
    \E s \in Requests : Gave(s, input[r].file, input[r].target)

\* An object that is gone was never put, was reaped, or a request gave it to a
\* participant.
GoneOf(t) == t \notin object => ~Stored(t) \/ t \in reaped \/ Once(t)

FilesInv ==
  /\ LostFileExplained
  /\ \A p \in People : HeldOf(p)
  /\ \A r \in Requests : NotedOf(r) /\ SentOf(r)
  /\ \A t \in Tokens : GoneOf(t)

\* What a queue holds is its head or in the rest.
LEMMA AfterHead ==
  ASSUME NEW S, NEW q \in Seq(S), q # << >>
  PROVE  Range(q) \subseteq {Head(q)} \cup Range(Tail(q))
<1> SUFFICES ASSUME NEW i \in 1..Len(q)
             PROVE  q[i] = Head(q) \/ q[i] \in Range(Tail(q))
  BY DEF Range
<1>1. CASE i = 1
  BY <1>1
<1>2. CASE i # 1
  <2>1. i - 1 \in 1..Len(Tail(q)) /\ Tail(q)[i - 1] = q[i]
    BY <1>2
  <2>2. DOMAIN Tail(q) = 1..Len(Tail(q))
    OBVIOUS
  <2> QED
    BY <2>1, <2>2 DEF Range
<1> QED
  BY <1>1, <1>2

\* The step of one request leaves the others where they are.
LEMMA StoredKept ==
  ASSUME TypeOK, StoredInv, NEW r \in Requests, input' = input,
         \A s \in Requests \ {r} : pc'[s] = pc[s] /\ local'[s] = local[s],
         row' = row, reapRows' = reapRows,
         \A t \in Tokens : claimer'[t] # None => claimer[t] # None,
         FlowOf(r)', AnswersOf(r)'
  PROVE  StoredInv'
BY DEF StoredInv, FlowOf, AnswersOf, Stored, IsForm, Submitted

\* A request that fails names nothing any more.
LEMMA StoredFail ==
  ASSUME TypeOK, StoredInv, NEW r \in Requests, Fail(r)
  PROVE  StoredInv'
<1>1. FlowOf(r)' /\ AnswersOf(r)'
  BY DEF TypeOK, Fail, Goto, FlowOf, AnswersOf, OuterStates, InnerStates, AdminStates
<1>2. \A t \in Tokens : claimer'[t] # None => claimer[t] # None
  BY DEF TypeOK, Fail, Unlock
<1> QED
  BY <1>1, <1>2, StoredKept DEF TypeOK, Fail, Goto, Forget, reaper

\* A handler that goes on with the same answers and stays where it may be.
LEMMA StoredGoes ==
  ASSUME TypeOK, StoredInv, NEW r \in Requests, NEW s,
         Goto(r, s), UNCHANGED <<tables, input>>,
         \A q \in Requests \ {r} : local'[q] = local[q],
         FlowOf(r)', AnswersOf(r)'
  PROVE  StoredInv'
BY StoredKept DEF TypeOK, Goto, tables, uploads, reaper

\* Files that requests name were stored: a handler takes an upload from its
\* answers only when it has seen the row.
LEMMA StoredStep ==
  ASSUME TypeOK, HandlersOK, OutcomeInv, StoredInv, [Next]_vars
  PROVE  StoredInv'
<1> USE DEF TypeOK, Goto, Query
<1>1. ASSUME NEW r \in Requests, Begin(r) PROVE StoredInv'
  <2>1. FlowOf(r)' /\ AnswersOf(r)'
    BY <1>1 DEF Begin, FlowOf, AnswersOf, IsForm, Submitted, OuterStates, InnerStates,
                AdminStates
  <2> QED
    BY <1>1, <2>1, StoredGoes DEF Begin
<1>2. ASSUME NEW r \in Requests, BeginAdmin(r) PROVE StoredInv'
  <2>1. input[r].kind \in AdminKinds
    BY <1>2, InputFields DEF BeginAdmin, IsForm
  <2>2. FlowOf(r)' /\ AnswersOf(r)'
    BY <1>2, <2>1 DEF BeginAdmin, FlowOf, AnswersOf, IsForm, Submitted, OuterStates,
                InnerStates, AdminStates, AdminKinds, FormKinds
  <2> QED
    BY <1>2, <2>2, StoredKept DEF BeginAdmin, tables, uploads, reaper
<1>3. ASSUME NEW r \in Requests, CheckForm(r) \/ BeginInner(r) PROVE StoredInv'
  <2>1. input[r].kind \in FormKinds \cup AdminKinds
    BY InputFields
  <2>2. FlowOf(r)' /\ AnswersOf(r)'
    BY <1>3, <2>1 DEF CheckForm, BeginInner, StoredInv, FlowOf, AnswersOf, IsForm, Submitted,
                OuterStates, InnerStates, AdminStates, FormKinds, AdminKinds, Stored, tables,
                uploads
  <2> QED
    BY <1>3, <2>2, StoredKept DEF CheckForm, BeginInner, tables, uploads, reaper
<1>4. ASSUME NEW r \in Requests, Fail(r) PROVE StoredInv'
  BY <1>4, StoredFail
<1>5. ASSUME NEW r \in Requests, ~Fail(r), ReadToken(r) PROVE StoredInv'
  <2>1. CASE NextAnswer(r) /\ input[r].file = None /\ UNCHANGED <<tables, pc, input>>
    <3>1. FlowOf(r)' /\ AnswersOf(r)'
      BY <1>5, <2>1 DEF ReadToken, StoredInv, FlowOf, AnswersOf, IsForm, Submitted,
                OuterStates, InnerStates, AdminStates
    <3> QED
      BY <2>1, <3>1, StoredKept DEF NextAnswer, tables, uploads, reaper
  <2>2. CASE /\ input[r].file # None /\ RowSeenBy(r, input[r].file) = "unclaimed"
             /\ Goto(r, "claim") /\ UNCHANGED <<tables, input, local>>
    <3>1. Stored(input[r].file)
      BY <2>2 DEF RowSeenBy, Stored
    <3>2. FlowOf(r)' /\ AnswersOf(r)'
      BY <1>5, <2>2, <3>1 DEF ReadToken, StoredInv, FlowOf, AnswersOf, IsForm, Submitted,
                Stored, OuterStates, InnerStates, AdminStates, tables, uploads
    <3> QED
      BY <2>2, <3>2, StoredKept DEF tables, uploads, reaper
  <2> QED
    BY <1>5, <2>1, <2>2 DEF ReadToken
<1>6. ASSUME NEW r \in Requests, ~Fail(r), ClaimToken(r) PROVE StoredInv'
  <2> USE <1>6
  <2>1. /\ input[r].file \in Tokens /\ Stored(input[r].file)
        /\ claimer' = [claimer EXCEPT ![input[r].file] = r]
        /\ NextAnswer(r) /\ Goto(r, "answers")
        /\ UNCHANGED <<row, reaper, input>>
    BY InputFields DEF ClaimToken, HandlersOK, StoredInv, AnswersOf
  <2>2. \A s \in Requests \ {r} : pc'[s] = pc[s] /\ local'[s] = local[s]
    BY <2>1 DEF NextAnswer
  <2>3. FlowOf(r)' /\ AnswersOf(r)'
    BY <2>1 DEF ClaimToken, StoredInv, FlowOf, AnswersOf, IsForm, Submitted, Stored,
                OuterStates, InnerStates, AdminStates
  <2>4. \A t \in Tokens : (claimer'[t] # None \/ t \in reapRows') => Stored(t)'
    BY <2>1 DEF StoredInv, Stored, reaper
  <2> QED
    BY <2>1, <2>2, <2>3, <2>4 DEF StoredInv, FlowOf, AnswersOf, Stored, IsForm, Submitted
<1>7. ASSUME NEW r \in Requests, ReadPrevious(r) PROVE StoredInv'
  <2>1. /\ local'[r].todo = local[r].todo /\ pc'[r] = "lock"
        /\ \A s \in Requests \ {r} : pc'[s] = pc[s] /\ local'[s] = local[s]
    BY <1>7 DEF ReadPrevious, Local
  <2>2. FlowOf(r)' /\ AnswersOf(r)'
    BY <1>7, <2>1 DEF ReadPrevious, StoredInv, FlowOf, AnswersOf, IsForm, Submitted,
                Stored, OuterStates, InnerStates, AdminStates, tables, uploads
  <2> QED
    BY <1>7, <2>1, <2>2, StoredKept DEF ReadPrevious, tables, uploads, reaper
<1>8. ASSUME NEW r \in Requests, ~Fail(r), KeepBlock(r) \/ LockBlock(r) \/ CountBlock(r)
      PROVE  StoredInv'
  <2>1. /\ local'[r].todo = local[r].todo
        /\ pc[r] \in {"lock", "count"} /\ pc'[r] \in {"lock", "count"}
        /\ \A s \in Requests \ {r} : pc'[s] = pc[s] /\ local'[s] = local[s]
        /\ UNCHANGED <<uploads, reaper, input>>
    BY <1>8 DEF KeepBlock, LockBlock, CountBlock, Local, tables
  <2>2. FlowOf(r)' /\ AnswersOf(r)'
    BY <2>1 DEF StoredInv, FlowOf, AnswersOf, IsForm, Submitted,
                Stored, OuterStates, InnerStates, AdminStates, uploads
  <2> QED
    BY <2>1, <2>2, StoredKept DEF uploads, reaper
<1>9. ASSUME NEW r \in Requests, BlocksChecked(r) PROVE StoredInv'
  <2>1. /\ local[r].todo \in Seq(Attributes) /\ local[r].todo # << >>
        /\ Head(local[r].todo) = "blocks"
    BY <1>9, LocalFields DEF BlocksChecked, HandlersOK, StoredInv, AnswersOf
  <2>2. local'[r].todo = Tail(local[r].todo)
    BY <1>9 DEF BlocksChecked, NextAnswer, Local
  <2>3. "file" \in Range(local[r].todo) => "file" \in Range(local'[r].todo)
    BY <2>1, <2>2, AfterHead
  <2>4. FlowOf(r)' /\ AnswersOf(r)'
    BY <1>9, <2>3 DEF BlocksChecked, StoredInv, FlowOf, AnswersOf, IsForm, Submitted,
                Stored, OuterStates, InnerStates, AdminStates, tables, uploads
  <2> QED
    BY <1>9, <2>4, StoredKept DEF BlocksChecked, NextAnswer, tables, uploads, reaper
<1>10. ASSUME NEW r \in Requests, ~Fail(r), CheckRequired(r) PROVE StoredInv'
  <2>1. /\ pc[r] = "answers" /\ local[r].todo = << >>
        /\ pc'[r] = IF input[r].kind = "registration" THEN "enter" ELSE "lookup"
        /\ UNCHANGED <<tables, input, local>>
    BY <1>10 DEF CheckRequired
  <2>2. FlowOf(r)' /\ AnswersOf(r)'
    BY <2>1 DEF StoredInv, FlowOf, AnswersOf, IsForm, Submitted, FormKinds,
                Stored, OuterStates, InnerStates, AdminStates, tables, uploads
  <2> QED
    BY <1>10, <2>1, <2>2, StoredKept DEF CheckRequired, tables, uploads, reaper
<1>11. ASSUME NEW r \in Requests, ~Fail(r), Register(r) \/ Write(r) \/ Delete(r)
       PROVE  StoredInv'
  <2>1. /\ pc'[r] \in {"purge", "commit", "done"}
        /\ \A s \in Requests \ {r} : pc'[s] = pc[s] /\ local'[s] = local[s]
        /\ UNCHANGED <<uploads, reaper, input>>
    BY <1>11 DEF Register, Write, Delete, Forget
  <2>2. FlowOf(r)' /\ AnswersOf(r)'
    BY <2>1 DEF FlowOf, AnswersOf, OuterStates, InnerStates, AdminStates
  <2> QED
    BY <2>1, <2>2, StoredKept DEF uploads, reaper
<1>12. ASSUME NEW r \in Requests, ~Fail(r), Lookup(r) \/ Prepare(r) PROVE StoredInv'
  <2>1. /\ \/ pc[r] = "lookup" /\ Goto(r, "enter")
           \/ pc[r] = "prepare" /\ Goto(r, "readFiles")
        /\ UNCHANGED <<tables, input, local>>
    BY <1>12 DEF Lookup, Prepare
  <2>2. FlowOf(r)' /\ AnswersOf(r)'
    BY <2>1 DEF StoredInv, FlowOf, AnswersOf, IsForm, Submitted,
                Stored, OuterStates, InnerStates, AdminStates, tables, uploads
  <2> QED
    BY <2>1, <2>2, StoredGoes
<1>13. ASSUME NEW r \in Requests, ReadFiles(r) PROVE StoredInv'
  <2>1. /\ pc[r] = "readFiles" /\ Goto(r, "write") /\ UNCHANGED <<tables, input>>
        /\ \A s \in Requests \ {r} : local'[s] = local[s]
        /\ local'[r].todo = local[r].todo
    BY <1>13 DEF ReadFiles, Local
  <2>2. FlowOf(r)' /\ AnswersOf(r)'
    BY <2>1 DEF StoredInv, FlowOf, AnswersOf, IsForm, Submitted,
                Stored, OuterStates, InnerStates, AdminStates, tables, uploads
  <2> QED
    BY <2>1, <2>2, StoredGoes
<1>14. ASSUME NEW r \in Requests, ~Fail(r), ReadRow(r) PROVE StoredInv'
  <2>1. /\ pc[r] = "readRow" /\ pc'[r] = "delete"
        /\ \A s \in Requests \ {r} : pc'[s] = pc[s] /\ local'[s] = local[s]
        /\ UNCHANGED <<tables, input>>
    BY <1>14 DEF ReadRow
  <2>2. FlowOf(r)' /\ AnswersOf(r)'
    BY <2>1 DEF StoredInv, FlowOf, AnswersOf, OuterStates, InnerStates, AdminStates
  <2> QED
    BY <2>1, <2>2, StoredKept DEF tables, uploads, reaper
<1>15. ASSUME NEW r \in Requests, Purge(r) PROVE StoredInv'
  <2>1. /\ pc'[r] \in {"purge", "commit", "done"}
        /\ \A s \in Requests \ {r} : pc'[s] = pc[s] /\ local'[s] = local[s]
        /\ UNCHANGED <<row, claimer, reapRows, input>>
    BY <1>15 DEF Purge, Forget, tables, uploads, reaper
  <2>2. FlowOf(r)' /\ AnswersOf(r)'
    BY <2>1 DEF FlowOf, AnswersOf, OuterStates, InnerStates, AdminStates
  <2> QED
    BY <2>1, <2>2, StoredKept
<1>16. ASSUME NEW r \in Requests, Commit(r) \/ Expire(r) PROVE StoredInv'
  <2>1. /\ UNCHANGED <<input, local, reaper>>
        /\ pc' = pc \/ pc' = [pc EXCEPT ![r] = "done"]
        /\ \A t \in Tokens : Stored(t) => Stored(t)'
        /\ \A t \in Tokens : claimer'[t] # None => claimer[t] # None
    BY <1>16 DEF Commit, Expire, Unlock, Stored, reaper
  <2>2. \A q \in Requests : pc'[q] = pc[q] \/ pc'[q] = "done"
    BY <2>1
  <2>3. \A q \in Requests : FlowOf(q)'
    BY <2>1, <2>2 DEF StoredInv, FlowOf, IsForm, OuterStates, InnerStates, AdminStates
  <2>4. \A q \in Requests : AnswersOf(q)'
    <3> SUFFICES ASSUME NEW q \in Requests PROVE AnswersOf(q)'
      OBVIOUS
    <3>1. CASE pc'[q] = "done"
      BY <3>1 DEF AnswersOf, OuterStates, InnerStates
    <3>2. CASE pc'[q] = pc[q]
      <4>1. input[q].file # None => input[q].file \in Tokens
        BY InputFields
      <4>2. AnswersOf(q)
        BY DEF StoredInv
      <4>3. Stored(input[q].file) /\ input[q].file # None => Stored(input[q].file)'
        BY <2>1, <4>1 DEF Stored
      <4>4. pc[q] = "claim" => input[q].file # None
        BY DEF HandlersOK
      <4> QED
        BY <2>1, <3>2, <4>2, <4>3, <4>4 DEF AnswersOf, IsForm, Submitted, Stored
    <3> QED
      BY <2>2, <3>1, <3>2
  <2> QED
    BY <2>1, <2>3, <2>4 DEF StoredInv, reaper
<1>17. ASSUME Crash PROVE StoredInv'
  <2>1. \A q \in Requests : pc'[q] \notin Active
    BY <1>17 DEF Crash, Active, OuterStates, InnerStates, AdminStates
  <2>2. \A q \in Requests : FlowOf(q)' /\ AnswersOf(q)'
    BY <2>1 DEF FlowOf, AnswersOf, Active, OuterStates, InnerStates, AdminStates
  <2> QED
    BY <1>17, <2>2 DEF Crash, StoredInv
<1>18. ASSUME NEW b \in Blocks, SetCapacity(b) PROVE StoredInv'
  BY <1>18 DEF SetCapacity, StoredInv, FlowOf, AnswersOf, Stored, IsForm, Submitted, request,
               uploads, reaper
<1>19. ASSUME \/ \E t \in Tokens : PutObject(t) \/ CreateRow(t) \/ ReapObject(t)
              \/ FindExpiredFiles \/ ReapRows
       PROVE  StoredInv'
  <2>1. /\ UNCHANGED request
        /\ \A t \in Tokens : Stored(t) => Stored(t)'
        /\ \A t \in Tokens : claimer'[t] # None => claimer[t] # None
        /\ \A t \in Tokens : t \in reapRows' => Stored(t)'
    BY <1>19 DEF PutObject, CreateRow, ReapObject, FindExpiredFiles, ReapRows, Stored,
                 StoredInv, reaper, uploads, request
  <2>2. \A q \in Requests : FlowOf(q)'
    BY <2>1 DEF StoredInv, FlowOf, IsForm, request
  <2>3. \A q \in Requests : AnswersOf(q)'
    <3> SUFFICES ASSUME NEW q \in Requests PROVE AnswersOf(q)'
      OBVIOUS
    <3>1. input[q].file # None => input[q].file \in Tokens
      BY InputFields
    <3>2. AnswersOf(q)
      BY DEF StoredInv
    <3>3. Stored(input[q].file) /\ input[q].file # None => Stored(input[q].file)'
      BY <2>1, <3>1 DEF Stored, request
    <3>4. pc[q] = "claim" => input[q].file # None
      BY DEF HandlersOK
    <3> QED
      BY <2>1, <3>2, <3>3, <3>4 DEF AnswersOf, IsForm, Submitted, Stored, request
  <2> QED
    BY <2>1, <2>2, <2>3 DEF StoredInv
<1>20. CASE UNCHANGED vars
  BY <1>20 DEF vars, tables, StoredInv, FlowOf, AnswersOf, Stored, IsForm, Submitted, request,
               uploads, reaper
<1> QED
  BY <1>1, <1>2, <1>3, <1>4, <1>5, <1>6, <1>7, <1>8, <1>9, <1>10, <1>11, <1>12, <1>14, <1>15,
     <1>16, <1>17, <1>18, <1>19, <1>20, <1>13 DEF Next, Step, Reject, FindExpired, DeadlockVictim

-----------------------------------------------------------------------------
(* What becomes of files: steps that give none to a participant.           *)

\* No participant gets or loses a file, an object goes only when it is reaped,
\* and an organizer's edit goes on with no file or with the current one.
Still ==
  /\ UNCHANGED <<registered, file, wrote, input, revived>>
  /\ \A r \in Requests :
        pc'[r] \in {"readFiles", "write"} =>
          \/ pc[r] \in {"readFiles", "write"} \/ IsForm(r)
          \/ input[r].target \in People /\ input[r].file \in {None, file[input[r].target]}
  /\ \A r \in Requests :
        /\ local'[r].old \subseteq local[r].old
        /\ local'[r].old # {} => pc'[r] = pc[r]
  /\ reaped \subseteq reaped'
  /\ \A t \in Tokens \ object' : IF t \in object THEN t \in reaped' ELSE Stored(t)' => Stored(t)

\* A still step keeps what files there are and who gave them.
LEMMA StillKeeps ==
  ASSUME TypeOK, FilesInv, Still
  PROVE  FilesInv'
<1> USE DEF Still, TypeOK
<1>1. \A r \in Requests : local[r].old \subseteq Tokens
  BY LocalFields
<1>2. \A t : Once(t)' <=> Once(t)
  BY DEF Once, IsForm
<1>3. \A t : Twice(t)' <=> Twice(t)
  BY DEF Twice, IsForm
<1>4. \A r \in Requests : \A t, p : Gave(r, t, p)' <=> Gave(r, t, p)
  BY DEF Gave, Owner, IsForm
<1>9. \A r \in Requests : SentOf(r)'
  <2> SUFFICES ASSUME NEW r \in Requests, pc'[r] \in {"readFiles", "write"}, ~IsForm(r),
                      input[r].file # None
               PROVE  \E s \in Requests : Gave(s, input[r].file, input[r].target)
    BY <1>4 DEF SentOf, IsForm
  <2>1. CASE pc[r] \in {"readFiles", "write"}
    BY <2>1 DEF FilesInv, SentOf
  <2>2. CASE pc[r] \notin {"readFiles", "write"}
    BY <2>2 DEF FilesInv, HeldOf
  <2> QED
    BY <2>1, <2>2
<1>5. \A t \in Tokens : GoneOf(t)'
  BY <1>2 DEF FilesInv, GoneOf
<1>6. \A p \in People : HeldOf(p)'
  BY <1>4 DEF FilesInv, HeldOf
<1>7. \A r \in Requests : NotedOf(r)'
  BY <1>3, <1>4 DEF FilesInv, NotedOf, Submitted
<1>8. LostFileExplained'
  BY DEF FilesInv, LostFileExplained, IsForm
<1> QED
  BY <1>5, <1>6, <1>7, <1>8, <1>9 DEF FilesInv

\* A request that fails leaves every file.
LEMMA FailIsStill ==
  ASSUME TypeOK, NEW r \in Requests, Fail(r)
  PROVE  Still
BY DEF TypeOK, Fail, Goto, Forget, Fresh, Still, people, reaper, Stored

\* Whoever holds no notes goes on without any.
NoNotes(r) == local[r].old = {}

\* Files are noted only between reading a participant and the end of the purge.
LEMMA NotesAreLate ==
  ASSUME FilesInv, NEW r \in Requests, pc[r] \notin {"write", "delete", "purge"}
  PROVE  NoNotes(r)
BY DEF FilesInv, NotedOf, NoNotes

\* What a submission does before its participant is written.
LEMMA StillSteps ==
  ASSUME TypeOK, HandlersOK, StoredInv, FilesInv, NEW r \in Requests, ~Fail(r),
         \/ Begin(r) \/ BeginAdmin(r) \/ CheckForm(r) \/ ReadToken(r) \/ ReadPrevious(r)
         \/ KeepBlock(r) \/ LockBlock(r) \/ CountBlock(r) \/ BlocksChecked(r)
         \/ CheckRequired(r) \/ BeginInner(r) \/ Lookup(r) \/ Prepare(r)
         \/ ClaimToken(r) \/ Expire(r)
  PROVE  Still
<1> USE DEF TypeOK, Local, Goto, Query, NextAnswer
<1>1. /\ UNCHANGED <<registered, file, wrote, input, object, reaped, revived>>
      /\ \A t \in Tokens : Stored(t)' = Stored(t)
  BY DEF Begin, BeginAdmin, CheckForm, ReadToken, ReadPrevious, KeepBlock, LockBlock,
         CountBlock, BlocksChecked, CheckRequired, BeginInner, Lookup, Prepare, ClaimToken, Expire,
         tables, people, uploads, reaper, Stored
<1>2. \A s \in Requests \ {r} : pc'[s] = pc[s] /\ local'[s] = local[s]
  BY DEF Begin, BeginAdmin, CheckForm, ReadToken, ReadPrevious, KeepBlock, LockBlock,
         CountBlock, BlocksChecked, CheckRequired, BeginInner, Lookup, Prepare, ClaimToken, Expire
<1>3. local'[r].old = local[r].old
  <2>1. CASE Begin(r)
    BY <2>1 DEF Begin
  <2>2. CASE ReadPrevious(r)
    BY <2>2 DEF ReadPrevious
  <2>3. CASE ~Begin(r) /\ ~ReadPrevious(r)
    BY <2>3 DEF BeginAdmin, CheckForm, ReadToken, KeepBlock, LockBlock,
         CountBlock, BlocksChecked, CheckRequired, BeginInner, Lookup, Prepare, ClaimToken, Expire
  <2> QED
    BY <2>1, <2>2, <2>3
<1>4. pc[r] \in {"write", "delete", "purge"} => pc'[r] = pc[r]
  BY DEF Begin, BeginAdmin, CheckForm, ReadToken, ReadPrevious, KeepBlock, LockBlock,
         CountBlock, BlocksChecked, CheckRequired, BeginInner, Lookup, Prepare, ClaimToken, Expire
<1>5. pc'[r] \in {"readFiles", "write"} =>
        \/ pc[r] \in {"readFiles", "write"} \/ IsForm(r)
        \/ input[r].target \in People /\ input[r].file \in {None, file[input[r].target]}
  <2>1. CASE Prepare(r)
    BY <2>1, InputFields DEF Prepare, HandlersOK
  <2>2. CASE \/ Begin(r) \/ BeginAdmin(r) \/ CheckForm(r) \/ ReadPrevious(r)
             \/ KeepBlock(r) \/ LockBlock(r) \/ BlocksChecked(r) \/ BeginInner(r)
             \/ Expire(r)
    <3>1. \/ pc' = pc
          \/ \E s \in {"form", "answers", "lock", "count", "insert", "prepare"} :
                pc' = [pc EXCEPT ![r] = s]
          \/ pc' = [pc EXCEPT ![r] = CASE input[r].kind = "create" -> "enter"
                                       [] input[r].kind = "edit"   -> "lookup"
                                       [] input[r].kind = "remove" -> "readRow"]
      BY <2>2 DEF Begin, BeginAdmin, CheckForm, ReadPrevious, KeepBlock, LockBlock,
                  BlocksChecked, BeginInner, Expire
    <3>2. ~IsForm(r) => input[r].kind \in {"create", "edit", "remove"}
      BY InputFields DEF IsForm, AdminKinds
    <3> QED
      BY <3>1, <3>2
  <2>3. CASE ReadToken(r) \/ ClaimToken(r) \/ CountBlock(r)
    <3>1. pc' = pc \/ pc' = [pc EXCEPT ![r] = "claim"] \/ pc' = [pc EXCEPT ![r] = "answers"]
          \/ pc' = [pc EXCEPT ![r] = "lock"]
      BY <2>3 DEF ReadToken, ClaimToken, CountBlock
    <3> QED
      BY <3>1
  <2>4. CASE CheckRequired(r) \/ Lookup(r)
    <3>1. pc' = [pc EXCEPT ![r] = "enter"] \/ pc' = [pc EXCEPT ![r] = "lookup"]
      BY <2>4 DEF CheckRequired, Lookup
    <3> QED
      BY <3>1
  <2> QED
    BY <2>1, <2>2, <2>3, <2>4
<1> QED
  BY <1>1, <1>2, <1>3, <1>4, <1>5, NotesAreLate DEF Still, NoNotes

\* The end of a submission, crashes, uploads and the reaper.
LEMMA StillOutside ==
  ASSUME TypeOK, StoredInv, FilesInv,
         \/ \E r \in Requests : Commit(r)
         \/ Crash
         \/ \E b \in Blocks : SetCapacity(b)
         \/ \E t \in Tokens : PutObject(t) \/ CreateRow(t) \/ ReapObject(t)
         \/ FindExpiredFiles \/ ReapRows
         \/ UNCHANGED vars
  PROVE  Still
<1> USE DEF TypeOK
<1>1. ASSUME NEW r \in Requests, Commit(r) PROVE Still
  <2>1. \A t \in Tokens : Stored(t)' => Stored(t)
    BY <1>1, SetsAssumption DEF Commit, Stored, StoredInv, People
  <2>2. NoNotes(r)
    BY <1>1, NotesAreLate DEF Commit, Query
  <2> QED
    BY <1>1, <2>1, <2>2 DEF Commit, Still, Goto, people, reaper, NoNotes
<1>2. CASE Crash
  <2>1. \A t \in Tokens : Stored(t)' => Stored(t)
    BY <1>2 DEF Crash, Stored
  <2>2. \A r \in Requests : local'[r].old \subseteq local[r].old
                            /\ (local'[r].old # {} => pc'[r] = pc[r])
    BY <1>2 DEF Crash, Fresh
  <2> QED
    BY <1>2, <2>1, <2>2 DEF Crash, Still, people
<1>3. ASSUME NEW b \in Blocks, SetCapacity(b) PROVE Still
  BY <1>3 DEF SetCapacity, Still, people, uploads, reaper, request, Stored
<1>4. ASSUME NEW t \in Tokens, PutObject(t) \/ CreateRow(t) \/ ReapObject(t) PROVE Still
  BY <1>4 DEF PutObject, CreateRow, ReapObject, Still, people, reaper, request, Stored
<1>5. CASE FindExpiredFiles
  BY <1>5 DEF FindExpiredFiles, Still, people, uploads, request, Stored
<1>6. CASE ReapRows
  BY <1>6 DEF ReapRows, Still, people, request, Stored, StoredInv
<1>7. CASE UNCHANGED vars
  BY <1>7 DEF vars, tables, Still, people, uploads, reaper, request, Stored
<1> QED
  BY <1>1, <1>2, <1>3, <1>4, <1>5, <1>6, <1>7

-----------------------------------------------------------------------------
(* What becomes of files: steps that give, note and delete them.           *)

\* r notes what its participant has, and goes on.
Notes(r, s) ==
  /\ UNCHANGED <<tables, input, wrote>>
  /\ Goto(r, s)
  /\ \A q \in Requests \ {r} : local'[q] = local[q]
  /\ local'[r].old \subseteq {file[input[r].target]} \ {None}

\* A note is of a file that its participant has, which a request gave.
LEMMA NotesKeep ==
  ASSUME TypeOK, FilesInv, NEW r \in Requests, NEW s \in {"write", "delete"}, Notes(r, s),
         input[r].target \in People, s = "write" => pc[r] = "readFiles",
         s = "write" => \A t \in local'[r].old : Submitted(r, "file") /\ t # input[r].file
  PROVE  FilesInv'
<1> USE DEF TypeOK, Notes, Goto
<1>1. UNCHANGED <<registered, file, row, object, reaped, revived, input, wrote>>
  BY DEF tables, people, uploads, reaper
<1>2. \A q \in Requests : \A t, p : Gave(q, t, p)' <=> Gave(q, t, p)
  BY <1>1 DEF Gave, Owner, IsForm
<1>3. \A t : (Once(t)' <=> Once(t)) /\ (Twice(t)' <=> Twice(t))
  BY <1>1 DEF Once, Twice, IsForm
<1>4. NotedOf(r)'
  BY <1>1, <1>2 DEF FilesInv, NotedOf, HeldOf, Submitted
<1>5. ASSUME NEW q \in Requests \ {r} PROVE NotedOf(q)'
  <2>1. local'[q] = local[q] /\ pc'[q] = pc[q]
    BY <1>5
  <2> QED
    BY <1>1, <1>2, <1>3, <2>1 DEF FilesInv, NotedOf, Submitted
<1>6. \A p \in People : HeldOf(p)'
  BY <1>1, <1>2 DEF FilesInv, HeldOf
<1>7. \A t \in Tokens : GoneOf(t)'
  BY <1>1, <1>3 DEF FilesInv, GoneOf, Stored
<1>8. LostFileExplained'
  BY <1>1 DEF FilesInv, LostFileExplained, IsForm
<1>9. \A q \in Requests : SentOf(q)'
  BY <1>1, <1>2 DEF FilesInv, SentOf, IsForm
<1> QED
  BY <1>4, <1>5, <1>6, <1>7, <1>8, <1>9 DEF FilesInv

\* A noted object is deleted, or not: whoever has it got it from a second
\* submission or from an edit that put it back.
LEMMA PurgeKeeps ==
  ASSUME TypeOK, FilesInv, NEW r \in Requests, Purge(r)
  PROVE  FilesInv'
<1> USE DEF TypeOK, Goto
<1>1. CASE /\ Goto(r, IF IsForm(r) THEN "commit" ELSE "done")
           /\ Forget(r)
           /\ UNCHANGED <<tables, input, outer, wrote>>
  <2>1. Still
    BY <1>1 DEF Purge, Still, Forget, Fresh, tables, people, uploads, reaper, Stored
  <2> QED
    BY <2>1, StillKeeps
<1>2. CASE \E t \in local[r].old :
             /\ local' = [local EXCEPT ![r].old = @ \ {t}]
             /\ object' \in {object, object \ {t}}
             /\ UNCHANGED <<people, blocks, row, claimer, reaper, pc, input, outer, wrote>>
  <2>1. PICK t \in local[r].old :
             /\ local' = [local EXCEPT ![r].old = @ \ {t}]
             /\ object' \in {object, object \ {t}}
             /\ UNCHANGED <<people, row, reaper, pc, input, wrote>>
    BY <1>2
  <2>2. UNCHANGED <<registered, file, row, reaped, revived, input, wrote, pc>>
    BY <2>1 DEF people, reaper
  <2>3. \A q \in Requests : \A u, p : Gave(q, u, p)' <=> Gave(q, u, p)
    BY <2>2 DEF Gave, Owner, IsForm
  <2>4. \A u : (Once(u)' <=> Once(u)) /\ (Twice(u)' <=> Twice(u))
    BY <2>2 DEF Once, Twice, IsForm
  <2>5. /\ t \in Tokens /\ pc[r] = "purge"
        /\ \E s \in Requests : Gave(s, t, input[r].target)
        /\ file[input[r].target] = t => Twice(t) \/ t \in revived
    <3>1. pc[r] = "purge" /\ NotedOf(r) /\ t \in Tokens
      BY <2>1, LocalFields DEF Purge, FilesInv
    <3> QED
      BY <3>1 DEF NotedOf
  <2>6. Once(t)
    BY <2>5 DEF Once, Gave
  <2>7. ASSUME NEW p \in registered, file[p] = t PROVE Twice(t) \/ t \in revived
    <3>1. PICK s \in Requests : Gave(s, t, input[r].target)
      BY <2>5
    <3>2. PICK q \in Requests : Gave(q, t, p)
      BY <2>5, <2>7, SetsAssumption DEF FilesInv, HeldOf
    <3>3. CASE p = input[r].target
      BY <2>5, <2>7, <3>3
    <3>4. CASE p # input[r].target
      BY <3>1, <3>2, <3>4 DEF Gave, Twice
    <3> QED
      BY <3>3, <3>4
  <2>8. LostFileExplained'
    BY <2>1, <2>2, <2>7 DEF FilesInv, LostFileExplained, Twice, IsForm
  <2>9. \A p \in People : HeldOf(p)'
    BY <2>2, <2>3 DEF FilesInv, HeldOf
  <2>10. \A u \in Tokens : GoneOf(u)'
    BY <2>1, <2>2, <2>4, <2>6 DEF FilesInv, GoneOf, Stored
  <2>11. \A q \in Requests : local'[q].old \subseteq local[q].old
    BY <2>1 DEF Local
  <2>12. \A q \in Requests : NotedOf(q)'
    BY <2>2, <2>3, <2>4, <2>11 DEF FilesInv, NotedOf, Submitted
  <2>13. \A q \in Requests : SentOf(q)'
    BY <2>2, <2>3 DEF FilesInv, SentOf, IsForm
  <2> QED
    BY <2>8, <2>9, <2>10, <2>12, <2>13 DEF FilesInv
<1> QED
  BY <1>1, <1>2 DEF Purge

\* Participant p gets file f of submission r, keeps its own, or gets a former
\* one back.
Gives(r, p, f) ==
  /\ ~wrote[r] /\ Written(r) /\ input' = input
  /\ Owner(r) = p
  /\ file' = [file EXCEPT ![p] = f]
  /\ f # None /\ f # file[p] =>
        \/ IsForm(r) /\ f = input[r].file /\ Stored(f)
        \/ f \in revived' /\ \E s \in Requests : Gave(s, f, p)
  /\ revived \subseteq revived'
  /\ pc'[r] \notin {"readFiles", "write"}
  /\ registered' \ {p} = registered \ {p} /\ (f # None => p \in registered')
  /\ UNCHANGED <<row, object, reaped>>
  /\ \A q \in Requests \ {r} : pc'[q] = pc[q] /\ local'[q] = local[q]
  /\ local'[r].old \subseteq local[r].old
  /\ local'[r].old # {} => pc'[r] = "purge" /\ input[r].target = p
  /\ \A t \in local'[r].old : t # f

\* A file that a second request gives is given twice.
LEMMA GivesKeeps ==
  ASSUME TypeOK, FilesInv, NEW r \in Requests, NEW p \in People,
         NEW f \in Tokens \cup {None}, Gives(r, p, f)
  PROVE  FilesInv'
<1> USE DEF TypeOK, Gives
<1>1. /\ wrote'[r] /\ \A q \in Requests : wrote[q] => wrote'[q] /\ q # r
      /\ UNCHANGED <<input, row, object, reaped>>
      /\ file'[p] = f /\ \A q \in People \ {p} : file'[q] = file[q]
  BY DEF Written
<1>2. \A q \in Requests : \A t, u : Gave(q, t, u) => Gave(q, t, u)'
  BY <1>1 DEF Gave, Owner, IsForm
<1>3. \A t : (Once(t) => Once(t)') /\ (Twice(t) => Twice(t)')
  BY <1>1 DEF Once, Twice, IsForm
<1>4. \A t : IsForm(r) /\ t = input[r].file /\ Once(t) => Twice(t)'
  BY <1>1 DEF Once, Twice, IsForm
<1>5. f # None /\ f # file[p] =>
        \/ IsForm(r) /\ f = input[r].file /\ Stored(f) /\ Gave(r, f, p)'
        \/ f \in revived' /\ \E s \in Requests : Gave(s, f, p)'
  BY <1>1, <1>2 DEF Gave, Owner, IsForm
<1>6. \A q \in People : HeldOf(q)'
  <2>1. HeldOf(p)'
    BY <1>1, <1>2, <1>5 DEF FilesInv, HeldOf
  <2> QED
    BY <1>1, <1>2, <2>1 DEF FilesInv, HeldOf
<1>7. \A t \in Tokens : GoneOf(t)'
  BY <1>1, <1>3 DEF FilesInv, GoneOf, Stored
<1>8. LostFileExplained'
  <2>1. ASSUME NEW q \in registered', NEW t \in Tokens, file'[q] = t, t \notin object
        PROVE  t \in reaped \cup revived' \/ Twice(t)'
    <3>1. q \in People
      BY <2>1
    <3>2. CASE q = p /\ f # file[p] /\ t \notin revived'
      <4>1. IsForm(r) /\ t = input[r].file /\ Stored(t)
        BY <1>1, <1>5, <2>1, <3>2, SetsAssumption
      <4>2. t \in reaped \/ Once(t)
        BY <2>1, <4>1 DEF FilesInv, GoneOf
      <4> QED
        BY <1>4, <4>1, <4>2
    <3>3. CASE q # p \/ f = file[p]
      <4>1. file[q] = t
        BY <1>1, <2>1, <3>1, <3>3
      <4>2. q \in registered
        BY <2>1, <3>1, <4>1, SetsAssumption DEF FilesInv, HeldOf
      <4>3. t \in reaped \cup revived \/ Twice(t)
        BY <2>1, <4>1, <4>2, SetsAssumption DEF FilesInv, LostFileExplained, Twice
      <4> QED
        BY <1>3, <4>3
    <3>4. CASE t \in revived'
      BY <3>4
    <3> QED
      BY <3>2, <3>3, <3>4
  <2>2. \A q \in registered' : file'[q] # None => file'[q] \in Tokens
    BY <1>1
  <2> QED
    BY <1>1, <2>1, <2>2 DEF LostFileExplained, Twice
<1>9. NotedOf(r)'
  BY <1>1, <1>2 DEF FilesInv, NotedOf
<1>10. ASSUME NEW q \in Requests \ {r} PROVE NotedOf(q)'
  <2> SUFFICES ASSUME NEW t \in local[q].old,
                      pc[q] = "purge", file'[input[q].target] = t
               PROVE  Twice(t)' \/ t \in revived'
    BY <1>1, <1>2 DEF FilesInv, NotedOf, Submitted
  <2>1. /\ t \in Tokens /\ t # None /\ Once(t)
        /\ file[input[q].target] = t => Twice(t) \/ t \in revived
    <3>1. t \in Tokens
      BY LocalFields
    <3>2. NotedOf(q)
      BY DEF FilesInv
    <3>3. \E z \in Requests : Gave(z, t, input[q].target)
      BY <3>2 DEF NotedOf
    <3>4. file[input[q].target] = t => Twice(t) \/ t \in revived
      BY <3>2 DEF NotedOf
    <3> QED
      BY <3>1, <3>3, <3>4, SetsAssumption DEF Once, Gave
  <2>2. CASE input[q].target = p /\ f # file[p]
    BY <1>1, <1>4, <1>5, <2>1, <2>2
  <2>3. CASE input[q].target # p \/ f = file[p]
    <3>1. file'[input[q].target] = file[input[q].target]
      BY <1>1, <2>3
    <3> QED
      BY <1>3, <2>1, <3>1
  <2> QED
    BY <2>2, <2>3
<1>11. \A q \in Requests : SentOf(q)'
  BY <1>1, <1>2 DEF FilesInv, SentOf, IsForm
<1> QED
  BY <1>6, <1>7, <1>8, <1>9, <1>10, <1>11 DEF FilesInv

\* register, update and remove give a file or take one.
LEMMA GivingSteps ==
  ASSUME TypeOK, HandlersOK, StoredInv, FilesInv, NEW r \in Requests, ~Fail(r),
         Register(r) \/ Write(r) \/ Delete(r)
  PROVE  FilesInv'
<1> USE DEF TypeOK, Goto
<1>1. /\ input[r] \in Inputs /\ input[r].file \in Tokens \cup {None}
      /\ FlowOf(r) /\ AnswersOf(r) /\ NotedOf(r) /\ SentOf(r)
      /\ local[r].old \subseteq Tokens
  BY InputFields, LocalFields DEF StoredInv, FilesInv
<1>2. ASSUME pc[r] \in InnerStates, IsForm(r), Submitted(r, "file"), input[r].file # None
      PROVE  Stored(input[r].file)
  <2>2. local[r].todo = << >>
    BY <1>1, <1>2 DEF AnswersOf
  <2>3. "file" \notin Range(local[r].todo)
    BY <2>2 DEF Range
  <2> QED
    BY <1>1, <1>2, <2>3 DEF AnswersOf
<1>3. CASE Register(r)
  <2> DEFINE f == IF Submitted(r, "file") THEN input[r].file ELSE None
  <2>1. /\ pc[r] = "insert" /\ Written(r) /\ Forget(r)
        /\ pc' = [pc EXCEPT ![r] = IF IsForm(r) THEN "commit" ELSE "done"]
        /\ registered' = registered \cup {r}
        /\ file' = [file EXCEPT ![r] = f]
        /\ UNCHANGED <<input, row, object, reaped, revived>>
    BY <1>3 DEF Register, uploads, reaper
  <2>2. Owner(r) = r /\ r \in People /\ f \in Tokens \cup {None}
    BY <1>1, <2>1 DEF Owner, FlowOf, People
  <2>3. f # None => IsForm(r) /\ f = input[r].file /\ Stored(f)
    <3>1. f # None => input[r].kind # "create"
      BY <1>1, InputsAssumption
    <3>2. f # None => IsForm(r)
      BY <1>1, <2>1, <3>1 DEF FlowOf, IsForm, FormKinds
    <3> QED
      BY <1>2, <2>1, <3>2 DEF InnerStates
  <2>4. local'[r].old = {} /\ \A q \in Requests \ {r} : pc'[q] = pc[q] /\ local'[q] = local[q]
    BY <2>1 DEF Forget, Fresh
  <2>5. ~wrote[r]
    BY <2>1 DEF HandlersOK, Ended
  <2>6. Gives(r, r, f)
    BY <2>1, <2>2, <2>3, <2>4, <2>5 DEF Gives
  <2> QED
    BY <2>2, <2>6, GivesKeeps
<1>4. CASE Write(r)
  <2> DEFINE p == input[r].target
             f == IF Submitted(r, "file") THEN input[r].file ELSE file[p]
  <2>1. /\ pc[r] = "write" /\ Written(r) /\ p \in registered
        /\ pc' = [pc EXCEPT ![r] = "purge"]
        /\ file' = [file EXCEPT ![p] = f]
        /\ revived' = IF IsForm(r) THEN revived
                                    ELSE revived \cup ({input[r].file} \ {None, file[p]})
        /\ UNCHANGED <<registered, input, row, object, reaped, local>>
    BY <1>4 DEF Write, uploads, reaper
  <2>2. Owner(r) = p /\ p \in People /\ f \in Tokens \cup {None}
    BY <1>1, <2>1 DEF Owner, FlowOf
  <2>3. f # None /\ f # file[p] =>
          \/ IsForm(r) /\ f = input[r].file /\ Stored(f)
          \/ f \in revived' /\ \E s \in Requests : Gave(s, f, p)
    <3>1. CASE IsForm(r)
      BY <1>2, <2>1, <3>1 DEF InnerStates
    <3>2. CASE ~IsForm(r)
      BY <1>1, <2>1, <3>2 DEF SentOf
    <3> QED
      BY <3>1, <3>2
  <2>4. \A t \in local[r].old : t # f
    BY <1>1, <2>1 DEF NotedOf
  <2>5. ~wrote[r]
    BY <2>1 DEF HandlersOK, Ended
  <2>6. Gives(r, p, f)
    BY <2>1, <2>2, <2>3, <2>4, <2>5 DEF Gives
  <2> QED
    BY <2>2, <2>6, GivesKeeps
<1>5. CASE Delete(r)
  <2> DEFINE p == input[r].target
  <2>1. /\ pc[r] = "delete" /\ Written(r) /\ p \in registered
        /\ pc' = [pc EXCEPT ![r] = "purge"]
        /\ registered' = registered \ {p}
        /\ file' = [file EXCEPT ![p] = None]
        /\ UNCHANGED <<input, row, object, reaped, revived, local>>
    BY <1>5 DEF Delete, uploads, reaper
  <2>2. Owner(r) = p /\ p \in People
    BY <1>1, <2>1 DEF Owner, FlowOf, AdminStates
  <2>3. ~wrote[r] /\ \A t \in local[r].old : t # None
    BY <1>1, <2>1, SetsAssumption DEF HandlersOK, Ended
  <2>4. Gives(r, p, None)
    BY <2>1, <2>2, <2>3 DEF Gives
  <2> QED
    BY <2>2, <2>4, GivesKeeps
<1> QED
  BY <1>3, <1>4, <1>5

\* update and remove note what will be deleted.
LEMMA NotingSteps ==
  ASSUME TypeOK, HandlersOK, FilesInv, NEW r \in Requests, ~Fail(r), ReadFiles(r) \/ ReadRow(r)
  PROVE  FilesInv'
<1> USE DEF TypeOK, Goto, Local
<1>1. CASE ReadFiles(r)
  <2>1. /\ Notes(r, "write") /\ pc[r] = "readFiles"
        /\ \A t \in local'[r].old : Submitted(r, "file") /\ t # input[r].file
    BY <1>1 DEF ReadFiles, Notes
  <2>2. input[r].target \in People
    BY <2>1, InputFields DEF HandlersOK
  <2> QED
    BY <2>1, <2>2, NotesKeep
<1>2. CASE ReadRow(r)
  <2>1. Notes(r, "delete") /\ input[r].target \in registered
    BY <1>2 DEF ReadRow, Notes
  <2> QED
    BY <2>1, NotesKeep
<1> QED
  BY <1>1, <1>2

\* Each step is still, notes a file, deletes a noted one, or gives or takes one.
LEMMA FilesStep ==
  ASSUME TypeOK, HandlersOK, StoredInv, FilesInv, [Next]_vars
  PROVE  FilesInv'
<1>1. ASSUME NEW r \in Requests, Fail(r) PROVE FilesInv'
  BY <1>1, FailIsStill, StillKeeps
<1>2. ASSUME NEW r \in Requests, ~Fail(r),
             Begin(r) \/ BeginAdmin(r) \/ Step(r) \/ Expire(r) \/ DeadlockVictim(r)
      PROVE  FilesInv'
  <2>1. CASE Register(r) \/ Write(r) \/ Delete(r)
    BY <1>2, <2>1, GivingSteps
  <2>2. CASE ReadFiles(r) \/ ReadRow(r)
    BY <1>2, <2>2, NotingSteps
  <2>3. CASE Purge(r)
    BY <2>3, PurgeKeeps
  <2>4. CASE Commit(r)
    BY <2>4, StillOutside, StillKeeps
  <2>5. CASE \/ Begin(r) \/ BeginAdmin(r) \/ CheckForm(r) \/ ReadToken(r) \/ ReadPrevious(r)
             \/ KeepBlock(r) \/ LockBlock(r) \/ CountBlock(r) \/ BlocksChecked(r)
             \/ CheckRequired(r) \/ BeginInner(r) \/ Lookup(r) \/ Prepare(r)
             \/ ClaimToken(r) \/ Expire(r)
    BY <1>2, <2>5, StillSteps, StillKeeps
  <2> QED
    BY <1>2, <2>1, <2>2, <2>3, <2>4, <2>5 DEF Step, Reject, FindExpired, DeadlockVictim
<1>3. CASE \/ Crash
           \/ \E b \in Blocks : SetCapacity(b)
           \/ \E t \in Tokens : PutObject(t) \/ CreateRow(t) \/ ReapObject(t)
           \/ FindExpiredFiles \/ ReapRows
           \/ UNCHANGED vars
  BY <1>3, StillOutside, StillKeeps
<1> QED
  BY <1>1, <1>2, <1>3 DEF Next

\* The inductive invariant about uploads and files.
LEMMA FilesInvariant == Spec => [](StoredInv /\ FilesInv)
<1>1. Init => StoredInv /\ FilesInv
  <2> SUFFICES ASSUME Init PROVE StoredInv /\ FilesInv
    OBVIOUS
  <2>1. StoredInv
    BY DEF Init, StoredInv, FlowOf, AnswersOf, OuterStates, InnerStates, AdminStates
  <2>2. FilesInv
    BY DEF Init, FilesInv, LostFileExplained, HeldOf, NotedOf, SentOf, GoneOf, Stored, Fresh,
           People
  <2> QED
    BY <2>1, <2>2
<1>2. SeatInv /\ OutcomeInv /\ StoredInv /\ FilesInv /\ [Next]_vars => (StoredInv /\ FilesInv)'
  BY StoredStep, FilesStep DEF SeatInv
<1> QED
  BY <1>1, <1>2, SeatInvariant, OutcomeInvariant, PTL DEF Spec

\* A participant whose file is gone lost it to the reaper, or another accepted
\* submission named the same upload, or an organizer's edit put it back after it
\* had been replaced: whatever else is replaced, removed, retried or crashes, no
\* deletion takes a file that only one submission was given.
THEOREM LostFilesAreExplained == Spec => []LostFileExplained
BY FilesInvariant, PTL DEF FilesInv
=============================================================================
