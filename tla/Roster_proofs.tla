---------------------------- MODULE Roster_proofs ----------------------------
(***************************************************************************)
(* What holds of Roster for every list, number of participants and         *)
(* requests: types, the account of an import, the notices to the mail      *)
(* listeners, and files.                                                   *)
(***************************************************************************)
EXTENDS Roster, FiniteSetTheorems, SequenceTheorems, TLAPS

Locals == [known : SUBSET Emails, outcome : Seq(Reasons), seen : SUBSET Participants,
           keys : SUBSET Keys, new : Keys \cup {None}, crossed : SUBSET Participants]
BulkSteps == {"bulkRead", "bulkClear", "bulkWrite", "bulkDrop", "bulkTell"}
UploadSteps == {"uploadRead", "uploadClear", "uploadWrite", "uploadDrop", "uploadTell"}
Steps == Ops \cup BulkSteps \cup UploadSteps \cup
         {"idle", "done", "refused", "imported", "announce", "importItem", "importTell",
          "removeRows", "removeTell", "removeDrop"}
Values == Keys \cup Texts \cup {None}

Rows ==
    /\ TypeOK
    /\ pc \in [Requests -> Steps]
    /\ local \in [Requests -> Locals]
    /\ \A p \in people : email[p] \in addresses
    /\ \A s \in Start : s.people \subseteq used
    /\ file => value \in [Participants -> Keys \cup {None}]
    /\ held \in [Participants -> SUBSET Values]
    /\ registered \in [Participants -> Nat] /\ deleted \in [Participants -> Nat]
    /\ raced \subseteq Participants /\ lostKeys \subseteq Keys

\* What a request that is under way may rely on.
FlowOf(r) ==
    /\ pc[r] \notin {"idle", "done", "refused"} =>
         In(r) \in Inputs[r] /\ In(r).people \subseteq used
    /\ pc[r] \in Ops => In(r).op = pc[r]
    /\ pc[r] \in Ops \cup {"idle"} => local[r].outcome = << >>
    /\ pc[r] \in BulkSteps => In(r).op = "bulk" /\ (file => In(r).value = None)
    /\ pc[r] \in UploadSteps => In(r).op = "upload" /\ file /\ local[r].new \in Keys
Flow == \A r \in Requests : FlowOf(r)

-----------------------------------------------------------------------------
(* The control.                                                            *)

\* What a step leaves of the other requests.
Same(q) ==
    /\ pc'[q] = pc[q] /\ input'[q] = input[q]
    /\ local'[q].known = local[q].known /\ local'[q].outcome = local[q].outcome
    /\ local'[q].seen = local[q].seen /\ local'[q].keys = local[q].keys
    /\ local'[q].new = local[q].new
Moves(r) ==
    /\ pc' \in [Requests -> Steps]
    /\ input' \in [Requests -> Input]
    /\ local' \in [Requests -> Locals]
    /\ \A q \in Requests \ {r} : Same(q)

Stops(r) == pc'[r] \in {"done", "refused"}
Goes(r, next) == pc'[r] = next /\ input'[r] = input[r]

\* A step of r: its own next await, and what the others keep.
LEMMA StepIs ==
    ASSUME Rows, NEW r \in Requests, NEW next \in Steps, NEW l \in Locals,
           NEW written \in SUBSET Participants, Step(r, next, l, written)
    PROVE  /\ Moves(r) /\ pc'[r] = next
           /\ next \notin {"done", "refused"} => input'[r] = input[r] /\ local'[r] = l
<1>1. Nothing \in Input /\ Fresh \in Locals
  BY DEF Nothing, Input, Ops, Fresh, Locals
<1>2. input \in [Requests -> Input] /\ pc \in [Requests -> Steps] /\ local \in [Requests -> Locals]
  BY DEF Rows, TypeOK
<1>3. \A q \in Requests \ {r} : [local[q] EXCEPT !.crossed = @ \cup written] \in Locals
  BY <1>2 DEF Locals
<1>4. local' \in [Requests -> Locals]
  BY <1>1, <1>2, <1>3 DEF Step
<1>5. ASSUME NEW q \in Requests \ {r}
      PROVE  Same(q)
  <2>1. pc'[q] = pc[q] /\ input'[q] = input[q] /\ local[q] \in Locals
    BY <1>2 DEF Step
  <2>2. local'[q] = IF pc[q] \in Ended \cup {"idle"} THEN local[q]
                    ELSE [local[q] EXCEPT !.crossed = @ \cup written]
    BY DEF Step
  <2>3. CASE pc[q] \notin Ended \cup {"idle"}
    <3>1. local'[q] = [local[q] EXCEPT !.crossed = @ \cup written]
      BY <2>2, <2>3
    <3> QED
      BY <2>1, <3>1 DEF Same, Locals
  <2>4. CASE pc[q] \in Ended \cup {"idle"}
    BY <2>1, <2>2, <2>4 DEF Same
  <2> QED
    BY <2>3, <2>4
<1>6. pc' \in [Requests -> Steps] /\ pc'[r] = next /\ input' \in [Requests -> Input]
  BY <1>1, <1>2 DEF Step
<1>7. next \notin {"done", "refused"} => input'[r] = input[r] /\ local'[r] = l
  BY <1>2 DEF Step
<1> QED
  BY <1>4, <1>5, <1>6, <1>7 DEF Moves

\* The same for a request that only goes on, or ends.
LEMMA GotoIs ==
    ASSUME Rows, NEW r \in Requests, NEW next \in Steps, Goto(r, next)
    PROVE  /\ Moves(r) /\ pc'[r] = next
           /\ next \notin {"done", "refused"} => input'[r] = input[r] /\ local'[r] = local[r]
<1>1. local[r] \in Locals
  BY DEF Rows
<1> QED
  BY <1>1, StepIs DEF Goto

\* A request begins with an input it may have.
LEMMA BeginIs ==
    ASSUME Rows, NEW r \in Requests, NEW in \in Inputs[r], Begin(r, in)
    PROVE  /\ Moves(r) /\ pc[r] = "idle" /\ pc'[r] = in.op /\ in.op \in Ops
           /\ input'[r] = in /\ in.people \subseteq used /\ local' = local
           /\ UNCHANGED <<tables, past, held, notices, raced, lostKeys>>
<1>1. in \in Input
  BY RosterAssumption
<1>2. in.op \in Steps /\ in.op \in Ops
  BY <1>1 DEF Input, Steps
<1>3. input \in [Requests -> Input] /\ pc \in [Requests -> Steps] /\ local \in [Requests -> Locals]
  BY DEF Rows, TypeOK
<1> QED
  BY <1>1, <1>2, <1>3 DEF Begin, Moves, Same

\* A new participant.
LEMMA InsertIs ==
    ASSUME Rows, NEW e, Insert(e)
    PROVE  \E p \in Participants \ used :
             /\ people' = people \cup {p} /\ used' = used \cup {p} /\ used' \ used = {p}
             /\ email' = [email EXCEPT ![p] = e] /\ addresses' = addresses \cup {e}
             /\ UNCHANGED <<value, held>>
<1> DEFINE p == CHOOSE q \in Participants \ used : TRUE
<1>1. p \in Participants \ used
  BY DEF Insert
<1>2. /\ people' = people \cup {p} /\ used' = used \cup {p}
      /\ email' = [email EXCEPT ![p] = e] /\ addresses' = addresses \cup {e}
      /\ UNCHANGED <<value, held>>
  BY DEF Insert
<1> HIDE DEF p
<1>3. used' \ used = {p}
  BY <1>1, <1>2
<1> QED
  BY <1>1, <1>2, <1>3

\* register refuses an address that is taken, or inserts a participant.
LEMMA RegisterIs ==
    ASSUME Rows, NEW r \in Requests, Register(r)
    PROVE  /\ Moves(r) /\ pc[r] = "register" /\ SameFiles /\ Silent /\ raced' = raced
           /\ UNCHANGED <<value, held>>
           /\ \/ Stops(r) /\ UNCHANGED <<people, email, past>>
              \/ /\ Goes(r, "announce") /\ ~Taken(In(r).email) /\ Insert(In(r).email)
                 /\ \E p \in Participants \ used :
                      /\ people' = people \cup {p} /\ used' = used \cup {p}
                      /\ email' = [email EXCEPT ![p] = In(r).email]
                      /\ addresses' = addresses \cup {In(r).email}
                      /\ local'[r].seen = {p}
<1>1. pc[r] = "register" /\ SameFiles /\ Silent /\ raced' = raced
  BY DEF Register
<1>2. CASE Taken(In(r).email)
  <2>1. Goto(r, "refused") /\ UNCHANGED <<people, email, past, value, held>> /\ "refused" \in Steps
    BY <1>2 DEF Register, Steps
  <2> QED
    BY <1>1, <2>1, GotoIs DEF Stops
<1>3. CASE ~Taken(In(r).email)
  <2>1. Insert(In(r).email)
    BY <1>3 DEF Register
  <2>2. PICK p \in Participants \ used :
          /\ people' = people \cup {p} /\ used' = used \cup {p} /\ used' \ used = {p}
          /\ email' = [email EXCEPT ![p] = In(r).email]
          /\ addresses' = addresses \cup {In(r).email}
          /\ UNCHANGED <<value, held>>
    BY <2>1, InsertIs
  <2> DEFINE l == [local[r] EXCEPT !.seen = used' \ used]
  <2>3. Step(r, "announce", l, {})
    BY <1>3 DEF Register
  <2>4. local[r] \in Locals
    BY DEF Rows
  <2>5. l \in Locals /\ l.seen = {p} /\ "announce" \in Steps
    BY <2>2, <2>4 DEF Locals, Steps
  <2> HIDE DEF l
  <2>6. Moves(r) /\ pc'[r] = "announce" /\ input'[r] = input[r] /\ local'[r] = l
    BY <2>3, <2>5, StepIs
  <2> QED
    BY <1>1, <1>3, <2>1, <2>2, <2>5, <2>6 DEF Goes
<1> QED
  BY <1>2, <1>3

\* A participant's address is changed to one that nobody else has, or not.
LEMMA UpdateIs ==
    ASSUME Rows, Flow, NEW r \in Requests, Update(r)
    PROVE  /\ Moves(r) /\ pc[r] = "update" /\ Stops(r) /\ SameFiles /\ Silent
           /\ UNCHANGED <<people, value, used, held, raced>>
           /\ \/ UNCHANGED <<email, addresses>>
              \/ /\ In(r).email \in Emails /\ addresses' = addresses \cup {In(r).email}
                 /\ \E p \in people : /\ email' = [email EXCEPT ![p] = In(r).email]
                                     /\ \A q \in people \ {p} : email[q] # In(r).email
<1>1. /\ pc[r] = "update" /\ SameFiles /\ Silent /\ UNCHANGED <<people, value, used, held, raced>>
      /\ Goto(r, "done") \/ Goto(r, "refused")
  BY DEF Update
<1>2. Moves(r) /\ Stops(r)
  BY <1>1, GotoIs DEF Steps, Stops
<1>3. In(r) \in Inputs[r] /\ In(r).op = "update" /\ In(r) \in Input
  BY <1>1 DEF Flow, FlowOf, Ops, Rows, TypeOK, In
<1>4. PICK p \in Participants : In(r).people = {p}
  BY <1>3, RosterAssumption
<1>5. In(r).email \in Emails
  BY <1>3, RosterAssumption DEF Input
<1> DEFINE e == In(r).email
<1>6. \/ UNCHANGED <<email, addresses>>
      \/ /\ {p} \subseteq people /\ (\A q \in people \ {p} : email[q] # e)
         /\ email' = [q \in Participants |-> IF q \in {p} THEN e ELSE email[q]]
         /\ addresses' = addresses \cup {e}
  BY <1>4 DEF Update
<1>7. email \in [Participants -> Emails \cup {None}]
  BY DEF Rows, TypeOK
<1> HIDE DEF e
<1>8. CASE UNCHANGED <<email, addresses>>
  BY <1>1, <1>2, <1>8
<1>9. CASE ~UNCHANGED <<email, addresses>>
  <2>1. p \in people /\ email' = [email EXCEPT ![p] = e] /\ addresses' = addresses \cup {e}
    BY <1>6, <1>7, <1>9
  <2>2. \A q \in people \ {p} : email[q] # e
    BY <1>6, <1>9
  <2> QED
    BY <1>1, <1>2, <1>5, <2>1, <2>2 DEF e
<1> QED
  BY <1>8, <1>9

\* Both notices of a new participant.
LEMMA TellIs ==
    ASSUME Rows, NEW r \in Requests, Announce(r) \/ ImportTell(r)
    PROVE  /\ Moves(r) /\ pc[r] \in {"announce", "importTell"}
           /\ UNCHANGED <<tables, past, held, deleted, changed, raced, lostKeys>>
           /\ registered' = [p \in Participants |->
                               registered[p] + IF p \in local[r].seen THEN 1 ELSE 0]
           /\ \/ Stops(r)
              \/ Goes(r, "importItem") /\ local'[r] = local[r] /\ pc[r] = "importTell"
<1>1. PICK next \in {"done", "importItem"} :
        Goto(r, next) /\ (next = "importItem" => pc[r] = "importTell")
  BY DEF Announce, ImportTell
<1>2. next \in Steps
  BY DEF Steps
<1> QED
  BY <1>1, <1>2, GotoIs DEF Announce, ImportTell, Stops, Goes

\* An import looks its addresses up.
LEMMA ImportReadIs ==
    ASSUME Rows, NEW r \in Requests, ImportRead(r)
    PROVE  /\ Moves(r) /\ pc[r] = "import" /\ Goes(r, "importItem")
           /\ UNCHANGED <<tables, past, held, notices, raced, lostKeys>>
           /\ local'[r].known \subseteq {Lower[e] : e \in addresses}
           /\ local'[r].outcome = local[r].outcome
<1> DEFINE wanted == {Address(r, i) : i \in Valid(r)}
           known == {Lower[e] : e \in wanted \cap {email[p] : p \in people}}
           l == [local[r] EXCEPT !.known = known]
<1>1. /\ pc[r] = "import" /\ Step(r, "importItem", l, {})
      /\ UNCHANGED <<tables, past, held, notices, raced, lostKeys>>
  BY DEF ImportRead, Silent
<1>2. known \subseteq {Lower[email[p]] : p \in people}
  OBVIOUS
<1>3. \A p \in people : email[p] \in addresses /\ addresses \subseteq Emails
  BY DEF Rows, TypeOK
<1>4. known \subseteq Emails
  BY <1>2, <1>3, RosterAssumption
<1>5. local[r] \in Locals
  BY DEF Rows
<1> HIDE DEF known
<1>6. l \in Locals /\ l.known = known /\ l.outcome = local[r].outcome
  BY <1>4, <1>5 DEF Locals
<1>7. "importItem" \in Steps
  BY DEF Steps
<1> HIDE DEF l
<1>8. known \subseteq {Lower[e] : e \in addresses}
  BY <1>2, <1>3
<1> QED
  BY <1>1, <1>8, <1>6, <1>7, StepIs DEF Goes

\* Why an item may end so.
Reason(r, i, reason) ==
    /\ reason \in Reasons
    /\ reason = "imported" => i \in Valid(r) /\ ~Taken(Address(r, i))
    /\ reason = "already_exists" => Address(r, i) \in local[r].known
    /\ i \in Valid(r) => (reason = "duplicate_in_file" <=> Duplicate(r, i))

\* An import handles its next item.
LEMMA ImportItemIs ==
    ASSUME Rows, NEW r \in Requests, ImportItem(r)
    PROVE  LET i == Len(local[r].outcome) + 1
               e == Address(r, i) IN
           /\ Moves(r) /\ pc[r] = "importItem" /\ i <= Len(In(r).list)
           /\ SameFiles /\ Silent /\ raced' = raced /\ UNCHANGED <<value, held>>
           /\ local'[r].known = local[r].known
           /\ \E reason : /\ Reason(r, i, reason)
                          /\ local'[r].outcome = Append(local[r].outcome, reason)
                          /\ reason = "imported" => e \in addresses'
           /\ \/ /\ Goes(r, "importItem") /\ UNCHANGED <<people, email, past>>
              \/ /\ Goes(r, "importTell") /\ i \in Valid(r) /\ ~Taken(e)
                 /\ \E p \in Participants \ used :
                      /\ people' = people \cup {p} /\ used' = used \cup {p}
                      /\ email' = [email EXCEPT ![p] = e] /\ addresses' = addresses \cup {e}
                      /\ local'[r].seen = {p}
<1> DEFINE i == Len(local[r].outcome) + 1
           e == Address(r, i)
           skip == IF i \notin Valid(r) THEN "failed"
                   ELSE IF Duplicate(r, i) THEN "duplicate_in_file"
                   ELSE IF e \in local[r].known THEN "already_exists" ELSE "none"
           reason == IF skip = "none" THEN "failed" ELSE skip
           l == [local[r] EXCEPT !.outcome = Append(@, reason)]
           n == [local[r] EXCEPT !.outcome = Append(@, "imported")]
           m == [n EXCEPT !.seen = used' \ used]
<1>1. /\ pc[r] = "importItem" /\ i <= Len(In(r).list)
      /\ SameFiles /\ Silent /\ raced' = raced
      /\ \/ skip = "none" /\ ~Taken(e) /\ Insert(e) /\ Step(r, "importTell", m, {})
         \/ Step(r, "importItem", l, {}) /\ UNCHANGED <<people, email, past, value, held>>
  BY DEF ImportItem
<1>2. Reason(r, i, reason) /\ reason # "imported"
  BY DEF Reason, Reasons
<1>3. skip = "none" /\ ~Taken(e) => Reason(r, i, "imported") /\ i \in Valid(r)
  BY DEF Reason, Reasons
<1>4. local[r] \in Locals /\ reason \in Reasons /\ "imported" \in Reasons
  BY <1>2 DEF Rows, Reason, Reasons
<1> HIDE DEF i, e, reason, skip
<1>5. Append(local[r].outcome, reason) \in Seq(Reasons) /\ Append(local[r].outcome, "imported") \in Seq(Reasons)
  BY <1>4, AppendProperties DEF Locals
<1>6. /\ l \in Locals /\ l.known = local[r].known
      /\ l.outcome = Append(local[r].outcome, reason)
      /\ n \in Locals /\ n.known = local[r].known
      /\ n.outcome = Append(local[r].outcome, "imported")
  BY <1>4, <1>5 DEF Locals
<1>7. "importItem" \in Steps /\ "importTell" \in Steps
  BY DEF Steps
<1> HIDE DEF l, n
<1>8. CASE Step(r, "importItem", l, {}) /\ UNCHANGED <<people, email, past, value, held>>
  <2>1. Moves(r) /\ Goes(r, "importItem") /\ local'[r] = l
    BY <1>6, <1>7, <1>8, StepIs DEF Goes
  <2> QED
    BY <1>1, <1>2, <1>6, <1>8, <2>1 DEF i, e
<1>9. CASE skip = "none" /\ ~Taken(e) /\ Insert(e) /\ Step(r, "importTell", m, {})
  <2>1. PICK p \in Participants \ used :
          /\ people' = people \cup {p} /\ used' = used \cup {p} /\ used' \ used = {p}
          /\ email' = [email EXCEPT ![p] = e] /\ addresses' = addresses \cup {e}
          /\ UNCHANGED <<value, held>>
    BY <1>9, InsertIs
  <2>2. m \in Locals /\ m.known = n.known /\ m.outcome = n.outcome /\ m.seen = {p}
    BY <1>6, <2>1 DEF Locals
  <2> HIDE DEF m
  <2>3. Moves(r) /\ Goes(r, "importTell") /\ local'[r] = m
    BY <1>7, <1>9, <2>2, StepIs DEF Goes
  <2>4. e \in addresses'
    BY <2>1
  <2> QED
    BY <1>1, <1>3, <1>6, <1>9, <2>1, <2>2, <2>3, <2>4 DEF i, e
<1> QED
  BY <1>1, <1>8, <1>9

\* An import ends when all items are done.
LEMMA ImportEndIs ==
    ASSUME Rows, NEW r \in Requests, ImportEnd(r)
    PROVE  /\ Moves(r) /\ pc[r] = "importItem" /\ Goes(r, "imported") /\ local'[r] = local[r]
           /\ Len(local[r].outcome) = Len(In(r).list)
           /\ UNCHANGED <<tables, past, held, notices, raced, lostKeys>>
<1>1. "imported" \in Steps
  BY DEF Steps
<1> QED
  BY <1>1, GotoIs DEF ImportEnd, Silent, Goes

\* What a change of many, an upload and a removal leave alone.
Still == UNCHANGED <<people, email, file, past>>

\* The value of a change of many is checked.
LEMMA BulkCheckIs ==
    ASSUME Rows, NEW r \in Requests, BulkCheck(r)
    PROVE  /\ Moves(r) /\ pc[r] = "bulk"
           /\ UNCHANGED <<tables, past, held, notices, raced, lostKeys>>
           /\ \/ Stops(r)
              \/ /\ Goes(r, "bulkRead") /\ local'[r] = local[r]
                 /\ file => In(r).value = None
<1>1. PICK next \in {"bulkRead", "refused"} :
        Goto(r, next) /\ (next = "bulkRead" => (file => In(r).value = None))
  BY DEF BulkCheck
<1>2. next \in Steps
  BY DEF Steps, BulkSteps
<1> QED
  BY <1>1, <1>2, GotoIs DEF BulkCheck, Silent, Stops, Goes

\* The values of participants that are keys.
LEMMA KeysAre ==
    ASSUME Rows, NEW S \in SUBSET Participants
    PROVE  /\ KeysOf(S) \subseteq Keys
           /\ file => \A p \in S : value[p] = None \/ value[p] \in KeysOf(S)
           /\ \A k \in KeysOf(S) : \E p \in S : value[p] = k /\ k # None
<1>1. CASE file
  <2>1. value \in [Participants -> Keys \cup {None}]
    BY <1>1 DEF Rows
  <2>2. KeysOf(S) = {value[p] : p \in S} \ {None}
    BY <1>1 DEF KeysOf
  <2> QED
    BY <2>1, <2>2
<1>2. CASE ~file
  BY <1>2 DEF KeysOf
<1> QED
  BY <1>1, <1>2 DEF Rows, TypeOK

\* Where a change of one attribute goes.
Reading == {"bulkClear", "uploadClear"}
Writing == {"bulkWrite", "uploadWrite"}
Dropping == {"bulkDrop", "uploadDrop", "removeTell", "removeDrop"}
ToTell == {"bulkTell", "uploadTell"}
Written == {"bulkDrop", "uploadDrop"} \cup ToTell

\* The transaction reads the keys of its rows, ...
LEMMA ReadIs ==
    ASSUME Rows, Flow, NEW r \in Requests, NEW next \in Reading, Read(r, next)
    PROVE  /\ Moves(r) /\ Goes(r, next)
           /\ UNCHANGED <<tables, past, held, notices, raced, lostKeys>>
           /\ local'[r].keys = KeysOf(In(r).people) /\ local'[r].new = local[r].new
<1> DEFINE l == [local[r] EXCEPT !.keys = KeysOf(In(r).people)]
<1>1. Step(r, next, l, {}) /\ UNCHANGED <<tables, past, held, notices, raced, lostKeys>>
  BY DEF Read, Silent
<1>2. local[r] \in Locals /\ In(r).people \subseteq Participants
  BY DEF Rows, TypeOK, In, Input
<1>3. KeysOf(In(r).people) \subseteq Keys
  BY <1>2, KeysAre
<1>4. /\ l \in Locals /\ l.keys = KeysOf(In(r).people) /\ l.new = local[r].new
      /\ next \in Steps \ {"done", "refused"}
  BY <1>2, <1>3 DEF Locals, Steps, Reading, BulkSteps, UploadSteps
<1> HIDE DEF l
<1> QED
  BY <1>1, <1>4, StepIs DEF Goes

\* ... deletes them, ...
LEMMA ClearIs ==
    ASSUME Rows, Flow, NEW r \in Requests, NEW next \in Writing, Clear(r, next)
    PROVE  /\ Moves(r) /\ Goes(r, next)
           /\ UNCHANGED <<tables, past, held, notices, raced, lostKeys>>
           /\ local'[r].keys = local[r].keys /\ local'[r].new = local[r].new
<1> DEFINE l == [local[r] EXCEPT !.crossed = {}]
<1>1. Step(r, next, l, {}) /\ UNCHANGED <<tables, past, held, notices, raced, lostKeys>>
  BY DEF Clear, Silent
<1>2. local[r] \in Locals
  BY DEF Rows
<1>3. /\ l \in Locals /\ l.keys = local[r].keys /\ l.new = local[r].new
      /\ next \in Steps \ {"done", "refused"}
  BY <1>2 DEF Locals, Steps, Writing, BulkSteps, UploadSteps
<1> HIDE DEF l
<1> QED
  BY <1>1, <1>3, StepIs DEF Goes

\* ... and writes them, or is refused.
LEMMA WriteIs ==
    ASSUME Rows, Flow, NEW r \in Requests, NEW next \in Written, Write(r, next)
    PROVE  /\ Moves(r) /\ Still /\ Silent /\ UNCHANGED <<objects, raced>>
           /\ \/ /\ Stops(r) /\ UNCHANGED <<value, held>>
                 /\ lostKeys' = lostKeys \cup ({local[r].new} \ {None})
              \/ LET S == In(r).people IN
                 /\ S \subseteq people /\ Goes(r, next) /\ local'[r] = local[r]
                 /\ value' = [p \in Participants |-> IF p \in S THEN Wanted(r) ELSE value[p]]
                 /\ held' = [p \in Participants |->
                               held[p] \cup IF p \in S THEN {Wanted(r)} ELSE {}]
                 /\ lostKeys' = lostKeys \cup (KeysOf(S) \ local[r].keys)
<1> DEFINE S == In(r).people
<1>1. Still /\ Silent /\ UNCHANGED <<objects, raced>>
  BY DEF Write, Still
<1>2. next \in Steps \ {"done", "refused"} /\ "refused" \in Steps
  BY DEF Steps, Written, ToTell, BulkSteps, UploadSteps
<1>3. local[r] \in Locals /\ S \in SUBSET Participants
  BY DEF Rows, TypeOK, In, Input
<1>4. CASE S \subseteq people /\ S \cap local[r].crossed = {}
  <2>1. /\ value' = [p \in Participants |-> IF p \in S THEN Wanted(r) ELSE value[p]]
        /\ held' = [p \in Participants |-> held[p] \cup IF p \in S THEN {Wanted(r)} ELSE {}]
        /\ lostKeys' = lostKeys \cup (KeysOf(S) \ local[r].keys)
        /\ Step(r, next, local[r], S)
    BY <1>4 DEF Write
  <2>2. Moves(r) /\ Goes(r, next) /\ local'[r] = local[r]
    BY <1>2, <1>3, <2>1, StepIs DEF Goes
  <2> QED
    BY <1>1, <1>4, <2>1, <2>2
<1>5. CASE ~(S \subseteq people /\ S \cap local[r].crossed = {})
  <2>1. /\ Goto(r, "refused") /\ UNCHANGED <<value, held>>
        /\ lostKeys' = lostKeys \cup ({local[r].new} \ {None})
    BY <1>5 DEF Write
  <2> QED
    BY <1>1, <1>2, <2>1, GotoIs DEF Stops
<1> QED
  BY <1>4, <1>5

\* Objects go, but for those that S3 keeps.
LEMMA DropIs ==
    ASSUME Rows, NEW r \in Requests, NEW next \in ToTell \cup {"done"}, Drop(r, next)
    PROVE  /\ Moves(r) /\ Silent /\ Still /\ UNCHANGED <<value, held, raced>>
           /\ \E kept \in SUBSET local[r].keys :
                /\ objects' = objects \ (local[r].keys \ kept)
                /\ lostKeys' = lostKeys \cup kept
           /\ \/ Stops(r) /\ next = "done"
              \/ Goes(r, next) /\ local'[r] = local[r]
<1>1. Goto(r, next) /\ next \in Steps
  BY DEF Drop, Steps, ToTell, BulkSteps, UploadSteps
<1>2. /\ Silent /\ Still /\ UNCHANGED <<value, held, raced>>
      /\ \E kept \in SUBSET local[r].keys :
           /\ objects' = objects \ (local[r].keys \ kept)
           /\ lostKeys' = lostKeys \cup kept
  BY DEF Drop, Still
<1> QED
  BY <1>1, <1>2, GotoIs DEF Stops, Goes, ToTell

\* The listeners are told of the change.
LEMMA ChangeIs ==
    ASSUME Rows, NEW r \in Requests, Tell(r)
    PROVE  /\ Moves(r) /\ Stops(r)
           /\ UNCHANGED <<tables, past, held, registered, deleted, raced, lostKeys>>
           /\ changed' = changed \cup (In(r).people \X {Wanted(r)})
<1>1. "done" \in Steps
  BY DEF Steps
<1> QED
  BY <1>1, GotoIs DEF Tell, Stops

\* The steps that both changes share.
Clears(r) == BulkClear(r) \/ UploadClear(r)
Writes(r) == BulkWrite(r) \/ UploadWrite(r)
Drops(r) == BulkDrop(r) \/ UploadDrop(r) \/ RemoveDrop(r)
Changes(r) == BulkTell(r) \/ UploadTell(r)

\* Where each of them goes.
LEMMA PairsAre ==
    ASSUME Rows, Flow, NEW r \in Requests
    PROVE  /\ BulkRead(r) => pc[r] = "bulkRead" /\ Read(r, "bulkClear")
           /\ Clears(r) => \/ pc[r] = "bulkClear" /\ Clear(r, "bulkWrite")
                           \/ pc[r] = "uploadClear" /\ Clear(r, "uploadWrite")
           /\ Writes(r) => pc[r] \in Writing /\ \E next \in Written :
                             /\ Write(r, next)
                             /\ local[r].keys # {} => next \in Dropping
                             /\ next \in BulkSteps <=> pc[r] = "bulkWrite"
           /\ Drops(r) => pc[r] \in Dropping \ {"removeTell"} /\ \E next \in ToTell \cup {"done"} :
                            /\ Drop(r, next)
                            /\ next = "bulkTell" => pc[r] = "bulkDrop"
                            /\ next = "uploadTell" => pc[r] = "uploadDrop"
           /\ Changes(r) => pc[r] \in ToTell /\ Tell(r)
<1> USE DEF Written, ToTell, Writing, Dropping
<1>1. BulkRead(r) => pc[r] = "bulkRead" /\ Read(r, "bulkClear")
  BY DEF BulkRead
<1>2. Clears(r) => \/ pc[r] = "bulkClear" /\ Clear(r, "bulkWrite")
                   \/ pc[r] = "uploadClear" /\ Clear(r, "uploadWrite")
  BY DEF Clears, BulkClear, UploadClear
<1>3. BulkWrite(r) => pc[r] \in Writing /\ \E next \in Written :
                        /\ Write(r, next)
                        /\ local[r].keys # {} => next \in Dropping
                        /\ next \in BulkSteps <=> pc[r] = "bulkWrite"
  BY DEF BulkWrite, BulkSteps
<1>4. UploadWrite(r) => pc[r] \in Writing /\ \E next \in Written :
                          /\ Write(r, next)
                          /\ local[r].keys # {} => next \in Dropping
                          /\ next \in BulkSteps <=> pc[r] = "bulkWrite"
  BY DEF UploadWrite, BulkSteps
<1>5. Drops(r) => pc[r] \in Dropping \ {"removeTell"} /\ \E next \in ToTell \cup {"done"} :
                    /\ Drop(r, next)
                    /\ next = "bulkTell" => pc[r] = "bulkDrop"
                    /\ next = "uploadTell" => pc[r] = "uploadDrop"
  BY DEF Drops, BulkDrop, UploadDrop, RemoveDrop
<1>6. Changes(r) => pc[r] \in ToTell /\ Tell(r)
  BY DEF Changes, BulkTell, UploadTell
<1> QED
  BY <1>1, <1>2, <1>3, <1>4, <1>5, <1>6 DEF Writes

\* A change of many reads its keys.
LEMMA BulkReadIs ==
    ASSUME Rows, Flow, NEW r \in Requests, BulkRead(r)
    PROVE  /\ Moves(r) /\ pc[r] = "bulkRead" /\ Goes(r, "bulkClear")
           /\ UNCHANGED <<tables, past, held, notices, raced, lostKeys>>
           /\ local'[r].keys = KeysOf(In(r).people)
BY PairsAre, ReadIs DEF Reading

\* Both delete.
LEMMA ClearsAre ==
    ASSUME Rows, Flow, NEW r \in Requests, Clears(r)
    PROVE  /\ Moves(r)
           /\ \/ pc[r] = "bulkClear" /\ Goes(r, "bulkWrite")
              \/ pc[r] = "uploadClear" /\ Goes(r, "uploadWrite")
           /\ UNCHANGED <<tables, past, held, notices, raced, lostKeys>>
           /\ local'[r].keys = local[r].keys /\ local'[r].new = local[r].new
BY PairsAre, ClearIs DEF Writing

\* Both write.
LEMMA WritesAre ==
    ASSUME Rows, Flow, NEW r \in Requests, Writes(r)
    PROVE  /\ Moves(r) /\ Still /\ Silent /\ UNCHANGED <<objects, raced>> /\ pc[r] \in Writing
           /\ \/ /\ Stops(r) /\ UNCHANGED <<value, held>>
                 /\ lostKeys' = lostKeys \cup ({local[r].new} \ {None})
              \/ LET S == In(r).people IN
                 /\ S \subseteq people /\ input'[r] = input[r] /\ local'[r] = local[r]
                 /\ pc'[r] \in Written /\ (local[r].keys # {} => pc'[r] \in Dropping)
                 /\ pc'[r] \in BulkSteps <=> pc[r] = "bulkWrite"
                 /\ value' = [p \in Participants |-> IF p \in S THEN Wanted(r) ELSE value[p]]
                 /\ held' = [p \in Participants |->
                               held[p] \cup IF p \in S THEN {Wanted(r)} ELSE {}]
                 /\ lostKeys' = lostKeys \cup (KeysOf(S) \ local[r].keys)
<1>1. PICK next \in Written :
        /\ Write(r, next) /\ pc[r] \in Writing
        /\ local[r].keys # {} => next \in Dropping
        /\ next \in BulkSteps <=> pc[r] = "bulkWrite"
  BY PairsAre
<1> QED
  BY <1>1, WriteIs DEF Goes

\* All three drop.
LEMMA DropsAre ==
    ASSUME Rows, Flow, NEW r \in Requests, Drops(r)
    PROVE  /\ Moves(r) /\ Silent /\ Still /\ UNCHANGED <<value, held, raced>>
           /\ pc[r] \in Dropping \ {"removeTell"}
           /\ \E kept \in SUBSET local[r].keys :
                /\ objects' = objects \ (local[r].keys \ kept)
                /\ lostKeys' = lostKeys \cup kept
           /\ \/ Stops(r)
              \/ /\ input'[r] = input[r] /\ local'[r] = local[r]
                 /\ \/ pc[r] = "bulkDrop" /\ pc'[r] = "bulkTell"
                    \/ pc[r] = "uploadDrop" /\ pc'[r] = "uploadTell"
<1>1. PICK next \in ToTell \cup {"done"} :
        /\ Drop(r, next) /\ pc[r] \in Dropping \ {"removeTell"}
        /\ next = "bulkTell" => pc[r] = "bulkDrop"
        /\ next = "uploadTell" => pc[r] = "uploadDrop"
  BY PairsAre
<1> QED
  BY <1>1, DropIs DEF Goes, ToTell, Stops

\* Both tell.
LEMMA ChangesAre ==
    ASSUME Rows, Flow, NEW r \in Requests, Changes(r)
    PROVE  /\ Moves(r) /\ Stops(r) /\ pc[r] \in ToTell
           /\ UNCHANGED <<tables, past, held, registered, deleted, raced, lostKeys>>
           /\ changed' = changed \cup (In(r).people \X {Wanted(r)})
BY PairsAre, ChangeIs

\* A form brings an object, ...
LEMMA UploadKeyIs ==
    ASSUME Rows, NEW r \in Requests, UploadKey(r)
    PROVE  /\ Moves(r) /\ pc[r] = "upload" /\ file /\ Goes(r, "uploadRead") /\ Silent /\ Still
           /\ UNCHANGED <<value, held, raced, lostKeys>>
           /\ \E k \in Free : objects' = objects \cup {k} /\ local'[r].new = k
<1> DEFINE k == CHOOSE x \in Free : TRUE
           l == [local[r] EXCEPT !.new = k]
<1>1. /\ pc[r] = "upload" /\ file /\ Free # {} /\ objects' = objects \cup {k}
      /\ Step(r, "uploadRead", l, {}) /\ Silent /\ Still
      /\ UNCHANGED <<value, held, raced, lostKeys>>
  BY DEF UploadKey, Still
<1>2. k \in Free /\ Free \subseteq Keys
  BY <1>1 DEF Free
<1> HIDE DEF k
<1>3. local[r] \in Locals
  BY DEF Rows
<1>4. l \in Locals /\ l.new = k /\ "uploadRead" \in Steps
  BY <1>2, <1>3 DEF Locals, Steps, UploadSteps
<1> HIDE DEF l
<1> QED
  BY <1>1, <1>2, <1>4, StepIs DEF Goes

\* ... and the participant's keys are read, when it is still there.
LEMMA UploadReadIs ==
    ASSUME Rows, Flow, NEW r \in Requests, UploadRead(r)
    PROVE  /\ Moves(r) /\ pc[r] = "uploadRead" /\ Silent
           /\ UNCHANGED <<tables, past, held, raced>>
           /\ \/ /\ Goes(r, "uploadClear") /\ lostKeys' = lostKeys
                 /\ local'[r].keys = KeysOf(In(r).people) /\ local'[r].new = local[r].new
              \/ Stops(r) /\ lostKeys' = lostKeys \cup {local[r].new}
<1>1. pc[r] = "uploadRead"
  BY DEF UploadRead
<1>2. CASE Read(r, "uploadClear")
  BY <1>1, <1>2, ReadIs DEF Reading, Silent
<1>3. CASE ~Read(r, "uploadClear")
  <2>1. /\ lostKeys' = lostKeys \cup {local[r].new} /\ Goto(r, "refused")
        /\ UNCHANGED <<tables, past, held, raced>> /\ Silent
    BY <1>3 DEF UploadRead
  <2> QED
    BY <1>1, <2>1, GotoIs DEF Stops, Steps
<1> QED
  BY <1>2, <1>3

\* A removal reads its participants and their files, ...
LEMMA RemoveReadIs ==
    ASSUME Rows, NEW r \in Requests, RemoveRead(r)
    PROVE  /\ Moves(r) /\ pc[r] \in {"remove", "removeMany"}
           /\ UNCHANGED <<tables, past, held, notices, raced, lostKeys>>
           /\ \/ Stops(r)
              \/ /\ Goes(r, "removeRows")
                 /\ local'[r].seen = In(r).people \cap people
                 /\ local'[r].keys = KeysOf(In(r).people \cap people)
<1> DEFINE seen == In(r).people \cap people
           l == [local[r] EXCEPT !.seen = seen, !.keys = KeysOf(seen)]
<1>1. /\ pc[r] \in {"remove", "removeMany"}
      /\ UNCHANGED <<tables, past, held, notices, raced, lostKeys>>
      /\ Goto(r, "refused") \/ Step(r, "removeRows", l, {})
  BY DEF RemoveRead, Silent
<1>2. local[r] \in Locals /\ seen \in SUBSET Participants
  BY DEF Rows, TypeOK, In, Input
<1>3. KeysOf(seen) \subseteq Keys
  BY <1>2, KeysAre
<1>4. l \in Locals /\ l.seen = seen /\ l.keys = KeysOf(seen)
  BY <1>2, <1>3 DEF Locals
<1>5. "removeRows" \in Steps /\ "refused" \in Steps
  BY DEF Steps
<1> HIDE DEF l
<1> QED
  BY <1>1, <1>4, <1>5, StepIs, GotoIs DEF Goes, Stops

\* ... deletes the rows, ...
LEMMA RemoveRowsIs ==
    ASSUME Rows, NEW r \in Requests, RemoveRows(r)
    PROVE  LET S == In(r).people IN
           /\ Moves(r) /\ pc[r] = "removeRows" /\ Silent
           /\ UNCHANGED <<email, file, objects, past, held>>
           /\ \/ Stops(r) /\ UNCHANGED <<people, value, raced, lostKeys>>
              \/ /\ Goes(r, "removeTell") /\ local'[r] = local[r]
                 /\ people' = people \ S
                 /\ value' = [p \in Participants |-> IF p \in S THEN None ELSE value[p]]
                 /\ raced' = raced \cup (local[r].seen \ people)
                 /\ lostKeys' = lostKeys \cup (KeysOf(S) \ local[r].keys)
<1> DEFINE S == In(r).people
<1>1. /\ pc[r] = "removeRows" /\ Silent /\ UNCHANGED <<email, file, objects, past, held>>
      /\ \/ Goto(r, "refused") /\ UNCHANGED <<people, value, raced, lostKeys>>
         \/ DeleteRows(r, S) /\ Step(r, "removeTell", local[r], S)
  BY DEF RemoveRows
<1>2. local[r] \in Locals /\ S \in SUBSET Participants
  BY DEF Rows, TypeOK, In, Input
<1>3. "removeTell" \in Steps /\ "refused" \in Steps
  BY DEF Steps
<1> QED
  BY <1>1, <1>2, <1>3, StepIs, GotoIs DEF DeleteRows, Goes, Stops

\* ... and tells the listeners.
LEMMA RemoveTellIs ==
    ASSUME Rows, NEW r \in Requests, RemoveTell(r)
    PROVE  /\ Moves(r) /\ pc[r] = "removeTell"
           /\ UNCHANGED <<tables, past, held, registered, changed, raced, lostKeys>>
           /\ deleted' = [p \in Participants |-> deleted[p] + IF p \in local[r].seen THEN 1 ELSE 0]
           /\ \/ Stops(r) /\ local[r].keys = {}
              \/ Goes(r, "removeDrop") /\ local'[r] = local[r]
<1>1. PICK next \in {"done", "removeDrop"} :
        Goto(r, next) /\ (next = "done" => local[r].keys = {})
  BY DEF RemoveTell
<1>2. next \in Steps
  BY DEF Steps
<1> QED
  BY <1>1, <1>2, GotoIs DEF RemoveTell, Stops, Goes

Acts(r) ==
    \/ \E in \in Inputs[r] : Begin(r, in)
    \/ Register(r) \/ Announce(r) \/ Update(r)
    \/ ImportRead(r) \/ ImportItem(r) \/ ImportTell(r) \/ ImportEnd(r)
    \/ BulkCheck(r) \/ BulkRead(r) \/ UploadKey(r) \/ UploadRead(r)
    \/ Clears(r) \/ Writes(r) \/ Drops(r) \/ Changes(r)
    \/ RemoveRead(r) \/ RemoveRows(r) \/ RemoveTell(r)

\* Every step of a request is such a move.
LEMMA AllMove ==
    ASSUME Rows, Flow, NEW r \in Requests, Acts(r)
    PROVE  Moves(r)
BY BeginIs, RegisterIs, TellIs, UpdateIs, ImportReadIs, ImportItemIs, ImportEndIs, BulkCheckIs,
   BulkReadIs, UploadKeyIs, UploadReadIs, ClearsAre, WritesAre, DropsAre, ChangesAre, RemoveReadIs,
   RemoveRowsIs, RemoveTellIs DEF Acts

-----------------------------------------------------------------------------
(* Types.                                                                  *)

Reads(r) ==
    \/ \E in \in Inputs[r] : Begin(r, in)
    \/ ImportRead(r) \/ ImportEnd(r) \/ BulkCheck(r) \/ BulkRead(r) \/ Clears(r) \/ RemoveRead(r)

\* The steps that only read.
LEMMA ReadsAre ==
    ASSUME Rows, Flow, NEW r \in Requests, Reads(r)
    PROVE  Moves(r) /\ UNCHANGED <<tables, past, held, notices, raced, lostKeys>>
BY BeginIs, ImportReadIs, ImportEndIs, BulkCheckIs, BulkReadIs, ClearsAre, RemoveReadIs DEF Reads

\* A new participant has an address that nobody else has.
LEMMA InsertTypes ==
    ASSUME Rows, NEW r \in Requests, Moves(r), SameFiles, Silent, raced' = raced,
           UNCHANGED <<value, held>>, NEW e \in Emails, ~Taken(e),
           NEW p \in Participants \ used, people' = people \cup {p}, used' = used \cup {p},
           email' = [email EXCEPT ![p] = e], addresses' = addresses \cup {e}
    PROVE  Rows'
<1>1. /\ people \subseteq used /\ used \subseteq Participants
      /\ email \in [Participants -> Emails \cup {None}] /\ addresses \subseteq Emails
      /\ \A a, b \in people : email[a] = email[b] => a = b
  BY DEF Rows, TypeOK
<1>2. email' \in [Participants -> Emails \cup {None}] /\ email'[p] = e
  BY <1>1
<1>3. \A a \in people : email[a] # e /\ email'[a] = email[a]
  BY <1>1 DEF Taken
<1>4. \A a, b \in people' : email'[a] = email'[b] => a = b
  BY <1>1, <1>2, <1>3
<1>5. \A a \in people' : email'[a] \in addresses'
  BY <1>1, <1>2, <1>3 DEF Rows
<1> QED
  BY <1>1, <1>2, <1>4, <1>5 DEF Rows, TypeOK, Moves, SameFiles, Silent, notices, Locals

\* What a change of one attribute writes.
LEMMA WantedIs ==
    ASSUME Rows, Flow, NEW r \in Requests, pc[r] \in BulkSteps \cup UploadSteps
    PROVE  Wanted(r) \in Values /\ (file => Wanted(r) \in Keys \cup {None})
<1>1. In(r).value \in Texts \cup {None}
  BY DEF Rows, TypeOK, In, Input
<1>2. CASE pc[r] \in BulkSteps
  BY <1>1, <1>2 DEF Flow, FlowOf, Wanted, Values
<1>3. CASE pc[r] \in UploadSteps
  BY <1>3 DEF Flow, FlowOf, Wanted, Values
<1> QED
  BY <1>2, <1>3

\* All steps of a request, for the types.
LEMMA RowsStep ==
    ASSUME Rows, Flow, NEW r \in Requests, Acts(r)
    PROVE  Rows'
<1>1. Moves(r)
  BY AllMove
<1>2. In(r) \in Input /\ In(r).people \in SUBSET Participants
  BY DEF Rows, TypeOK, In, Input
<1>3. \A q \in Requests : /\ local'[q].outcome \in Seq(Reasons) /\ local'[q].keys \subseteq Keys
                          /\ local'[q].new \in Keys \cup {None}
  BY <1>1 DEF Moves, Locals
<1>4. CASE Reads(r)
  BY <1>1, <1>3, <1>4, ReadsAre DEF Rows, TypeOK, Moves, tables, notices, past
<1>5. CASE Register(r)
  <2>1. In(r) \in Inputs[r] /\ In(r).op = "register"
    BY <1>5, RegisterIs DEF Flow, FlowOf, Ops
  <2>2. In(r).email \in Emails
    BY <1>2, <2>1, RosterAssumption DEF Input
  <2>3. /\ SameFiles /\ Silent /\ raced' = raced /\ UNCHANGED <<value, held>>
    BY <1>5, RegisterIs
  <2>4. CASE UNCHANGED <<people, email, past>>
    BY <1>1, <1>3, <2>3, <2>4 DEF Rows, TypeOK, Moves, SameFiles, Silent, notices, past
  <2>5. CASE ~UNCHANGED <<people, email, past>>
    BY <1>1, <1>5, <2>2, <2>3, <2>5, RegisterIs, InsertTypes
  <2> QED
    BY <2>4, <2>5
<1>6. CASE Announce(r) \/ ImportTell(r)
  <2>1. /\ UNCHANGED <<tables, past, held, deleted, changed, raced, lostKeys>>
        /\ registered' \in [Participants -> Nat]
    <3>1. \A p \in Participants : registered[p] + (IF p \in local[r].seen THEN 1 ELSE 0) \in Nat
      BY DEF Rows
    <3> QED
      BY <1>6, <3>1, TellIs
  <2> QED
    BY <1>1, <1>3, <2>1 DEF Rows, TypeOK, Moves, tables, past
<1>7. CASE ImportItem(r)
  <2> DEFINE i == Len(local[r].outcome) + 1
             e == Address(r, i)
  <2>1. /\ SameFiles /\ Silent /\ raced' = raced /\ UNCHANGED <<value, held>>
        /\ \/ UNCHANGED <<people, email, past>>
           \/ /\ i \in Valid(r) /\ ~Taken(e)
              /\ \E p \in Participants \ used :
                   /\ people' = people \cup {p} /\ used' = used \cup {p}
                   /\ email' = [email EXCEPT ![p] = e] /\ addresses' = addresses \cup {e}
    BY <1>7, ImportItemIs
  <2>2. CASE UNCHANGED <<people, email, past>>
    BY <1>1, <1>3, <2>1, <2>2 DEF Rows, TypeOK, Moves, SameFiles, Silent, notices, past
  <2>3. CASE ~UNCHANGED <<people, email, past>>
    <3>2. i \in Valid(r) /\ ~Taken(e)
      BY <2>1, <2>3
    <3>3. e \in Emails
      <4>1. In(r).list \in Seq(Emails) /\ i \in DOMAIN In(r).list
        BY <1>2, <3>2 DEF Input, Valid
      <4>2. In(r).list[i] \in Emails
        BY <4>1
      <4> QED
        BY <4>2, RosterAssumption DEF Address
    <3> HIDE DEF e, i
    <3> QED
      BY <1>1, <2>1, <2>3, <3>2, <3>3, InsertTypes
  <2> QED
    BY <2>2, <2>3
<1>8. CASE Update(r)
  <2>1. /\ SameFiles /\ Silent /\ UNCHANGED <<people, value, used, held, raced>>
        /\ \/ UNCHANGED <<email, addresses>>
           \/ \E e \in Emails : \E p \in people :
                /\ addresses' = addresses \cup {e} /\ email' = [email EXCEPT ![p] = e]
                /\ \A q \in people \ {p} : email[q] # e
    BY <1>8, UpdateIs
  <2>2. /\ email' \in [Participants -> Emails \cup {None}] /\ addresses' \subseteq Emails
        /\ \A p, q \in people : email'[p] = email'[q] => p = q
        /\ \A p \in people : email'[p] \in addresses'
    <3>1. /\ email \in [Participants -> Emails \cup {None}] /\ addresses \subseteq Emails
          /\ people \subseteq Participants
          /\ \A p, q \in people : email[p] = email[q] => p = q
          /\ \A p \in people : email[p] \in addresses
      BY DEF Rows, TypeOK
    <3>2. CASE UNCHANGED <<email, addresses>>
      BY <3>1, <3>2
    <3>3. CASE ~UNCHANGED <<email, addresses>>
      <4>1. PICK e \in Emails, p \in people :
              /\ addresses' = addresses \cup {e} /\ email' = [email EXCEPT ![p] = e]
              /\ \A q \in people \ {p} : email[q] # e
        BY <2>1, <3>3
      <4>2. \A q \in people : email'[q] = IF q = p THEN e ELSE email[q]
        BY <3>1, <4>1
      <4> QED
        BY <3>1, <4>1, <4>2
    <3> QED
      BY <3>2, <3>3
  <2> QED
    BY <1>1, <1>3, <2>1, <2>2 DEF Rows, TypeOK, Moves, SameFiles, Silent, notices
<1>9. CASE Writes(r)
  <2> DEFINE S == In(r).people  v == Wanted(r)
  <2>1. Still /\ Silent /\ UNCHANGED <<objects, raced>> /\ pc[r] \in Writing
    BY <1>9, WritesAre
  <2>2. v \in Values /\ (file => v \in Keys \cup {None})
    BY <2>1, WantedIs DEF Writing, BulkSteps, UploadSteps
  <2>3. /\ value \in [Participants -> Values] /\ held \in [Participants -> SUBSET Values]
        /\ file => value \in [Participants -> Keys \cup {None}]
    BY DEF Rows, TypeOK, Values
  <2>4. local[r].new \in Keys \cup {None} /\ KeysOf(S) \subseteq Keys /\ lostKeys \subseteq Keys
    BY <1>2, KeysAre DEF Rows, Locals
  <2>5. \/ UNCHANGED <<value, held>>
        \/ /\ value' = [p \in Participants |-> IF p \in S THEN v ELSE value[p]]
           /\ held' = [p \in Participants |-> held[p] \cup IF p \in S THEN {v} ELSE {}]
    BY <1>9, WritesAre
  <2>6. \/ lostKeys' = lostKeys \cup ({local[r].new} \ {None})
        \/ lostKeys' = lostKeys \cup (KeysOf(S) \ local[r].keys)
    BY <1>9, WritesAre
  <2> HIDE DEF S, v
  <2>7. lostKeys' \subseteq Keys
    BY <2>4, <2>6
  <2>8. value' \in [Participants -> Values]
    BY <2>2, <2>3, <2>5
  <2>9. held' \in [Participants -> SUBSET Values]
    BY <2>2, <2>3, <2>5
  <2>10. file => value' \in [Participants -> Keys \cup {None}]
    BY <2>2, <2>3, <2>5
  <2> QED
    BY <1>1, <1>3, <2>1, <2>7, <2>8, <2>9, <2>10
       DEF Rows, TypeOK, Moves, Still, Silent, notices, past, Values
<1>10. CASE Drops(r)
  <2>1. /\ Silent /\ Still /\ UNCHANGED <<value, held, raced>>
        /\ \E kept \in SUBSET local[r].keys :
             objects' = objects \ (local[r].keys \ kept) /\ lostKeys' = lostKeys \cup kept
    BY <1>10, DropsAre
  <2>2. objects' \subseteq Keys /\ lostKeys' \subseteq Keys
    BY <2>1 DEF Rows, TypeOK
  <2> QED
    BY <1>1, <1>3, <2>1, <2>2 DEF Rows, TypeOK, Moves, Still, Silent, notices, past
<1>11. CASE Changes(r)
  BY <1>1, <1>3, <1>11, ChangesAre DEF Rows, TypeOK, Moves, tables, past
<1>12. CASE UploadKey(r)
  <2>1. Silent /\ Still /\ UNCHANGED <<value, held, raced, lostKeys>> /\ objects' \subseteq Keys
    BY <1>12, UploadKeyIs DEF Free, Rows, TypeOK
  <2> QED
    BY <1>1, <1>3, <2>1 DEF Rows, TypeOK, Moves, Still, Silent, notices, past
<1>13. CASE UploadRead(r)
  <2>1. /\ Silent /\ UNCHANGED <<tables, past, held, raced>>
        /\ lostKeys' = lostKeys \/ lostKeys' = lostKeys \cup {local[r].new}
        /\ pc[r] = "uploadRead"
    BY <1>13, UploadReadIs
  <2>2. lostKeys' \subseteq Keys
    BY <2>1 DEF Rows, Flow, FlowOf, UploadSteps
  <2> QED
    BY <1>1, <1>3, <2>1, <2>2 DEF Rows, TypeOK, Moves, Silent, notices, tables, past
<1>14. CASE RemoveRows(r)
  <2>1. Silent /\ UNCHANGED <<email, file, objects, past, held>>
    BY <1>14, RemoveRowsIs
  <2>2. local[r].seen \subseteq Participants /\ KeysOf(In(r).people) \subseteq Keys
    BY <1>2, KeysAre DEF Rows, Locals
  <2>3. /\ people' \subseteq people /\ raced' \subseteq Participants /\ lostKeys' \subseteq Keys
        /\ value' \in [Participants -> Values]
        /\ file => value' \in [Participants -> Keys \cup {None}]
    BY <1>14, <2>2, RemoveRowsIs DEF Rows, TypeOK, Values
  <2> QED
    BY <1>1, <1>3, <2>1, <2>3 DEF Rows, TypeOK, Moves, Silent, notices, past, Values
<1>15. CASE RemoveTell(r)
  <2>1. /\ UNCHANGED <<tables, past, held, registered, changed, raced, lostKeys>>
        /\ deleted' \in [Participants -> Nat]
    <3>1. \A p \in Participants : deleted[p] + (IF p \in local[r].seen THEN 1 ELSE 0) \in Nat
      BY DEF Rows
    <3> QED
      BY <1>15, <3>1, RemoveTellIs
  <2> QED
    BY <1>1, <1>3, <2>1 DEF Rows, TypeOK, Moves, tables, past
<1> QED
  BY <1>4, <1>5, <1>6, <1>7, <1>8, <1>9, <1>10, <1>11, <1>12, <1>13, <1>14, <1>15 DEF Acts, Reads

\* Participants and addresses that ever were are never forgotten; the values
\* they had are kept, too; the kind of the attribute is fixed.
Grows ==
    /\ used \subseteq used' /\ addresses \subseteq addresses'
    /\ \A p \in people' : p \in people \/ p \in Participants \ used
    /\ \A p \in Participants : held[p] \subseteq held'[p]
    /\ file' = file /\ lostKeys \subseteq lostKeys' /\ raced \subseteq raced'

\* All steps of a request.
LEMMA GrowStep ==
    ASSUME Rows, Flow, NEW r \in Requests, Acts(r)
    PROVE  Grows
<1>0. people \subseteq used /\ used \subseteq Participants
  BY DEF Rows, TypeOK
<1> USE DEF past
<1>1. CASE Reads(r)
  BY <1>1, ReadsAre DEF Grows, tables
<1>2. CASE Register(r)
  BY <1>0, <1>2, RegisterIs DEF Grows, SameFiles, Rows, TypeOK
<1>3. CASE ImportItem(r)
  <2>1. /\ SameFiles /\ raced' = raced /\ UNCHANGED <<value, held>>
        /\ \/ UNCHANGED <<people, email, past>>
           \/ \E p \in Participants \ used : \E e :
                /\ people' = people \cup {p} /\ used' = used \cup {p}
                /\ addresses' = addresses \cup {e}
    BY <1>3, ImportItemIs
  <2> QED
    BY <1>0, <2>1 DEF Grows, SameFiles, Rows, TypeOK
<1>4. CASE Announce(r) \/ ImportTell(r) \/ Changes(r) \/ RemoveTell(r)
  BY <1>4, TellIs, ChangesAre, RemoveTellIs DEF Grows, tables
<1>5. CASE Writes(r)
  <2>1. /\ Still /\ UNCHANGED <<objects, raced>> /\ lostKeys \subseteq lostKeys'
        /\ \/ held' = held
           \/ held' = [p \in Participants |->
                         held[p] \cup IF p \in In(r).people THEN {Wanted(r)} ELSE {}]
    BY <1>5, WritesAre
  <2> QED
    BY <2>1 DEF Grows, Still
<1>6. CASE Drops(r) \/ UploadKey(r) \/ UploadRead(r)
  <2>1. UNCHANGED <<people, past, held, file, raced>> /\ lostKeys \subseteq lostKeys'
    BY <1>6, DropsAre, UploadKeyIs, UploadReadIs DEF Still, tables
  <2> QED
    BY <2>1 DEF Grows
<1>7. CASE Update(r)
  BY <1>7, UpdateIs DEF Grows, SameFiles
<1>8. CASE RemoveRows(r)
  BY <1>8, RemoveRowsIs DEF Grows
<1> QED
  BY <1>1, <1>2, <1>3, <1>4, <1>5, <1>6, <1>7, <1>8 DEF Acts, Reads

\* All steps of a request, for the control.
LEMMA FlowStep ==
    ASSUME Rows, Flow, NEW r \in Requests, Acts(r)
    PROVE  Flow'
<1>1. Moves(r) /\ Grows
  BY AllMove, GrowStep
<1>2. ASSUME NEW q \in Requests \ {r} PROVE FlowOf(q)'
  BY <1>1, <1>2 DEF Moves, Same, Grows, Flow, FlowOf, In
<1>3. FlowOf(r)'
  <2>1. FlowOf(r)
    BY DEF Flow
  <2>2. CASE Stops(r)
    BY <2>2 DEF FlowOf, Stops, Ops, BulkSteps, UploadSteps
  <2>3. ASSUME NEW in \in Inputs[r], Begin(r, in) PROVE FlowOf(r)'
    BY <1>1, <2>1, <2>3, BeginIs DEF FlowOf, Ops, In, Grows, BulkSteps, UploadSteps
  <2>4. ASSUME pc'[r] \in Steps \ (Ops \cup {"idle", "done", "refused"} \cup BulkSteps \cup UploadSteps),
               input'[r] = input[r], pc[r] \notin {"idle", "done", "refused"}
        PROVE  FlowOf(r)'
    BY <1>1, <2>1, <2>4 DEF FlowOf, In, Grows
  <2>5. ASSUME pc'[r] \in BulkSteps, input'[r] = input[r], pc[r] \in BulkSteps
        PROVE  FlowOf(r)'
    BY <1>1, <2>1, <2>5 DEF FlowOf, In, Grows, Ops, BulkSteps, UploadSteps
  <2>6. ASSUME pc'[r] \in UploadSteps, input'[r] = input[r], pc[r] \in UploadSteps,
               local'[r].new = local[r].new
        PROVE  FlowOf(r)'
    BY <1>1, <2>1, <2>6 DEF FlowOf, In, Grows, Ops, BulkSteps, UploadSteps
  <2>7. CASE Register(r)
    BY <2>2, <2>4, <2>7, RegisterIs DEF Steps, Ops, Goes, BulkSteps, UploadSteps
  <2>8. CASE Announce(r) \/ ImportTell(r)
    BY <2>2, <2>4, <2>8, TellIs DEF Steps, Ops, Goes, BulkSteps, UploadSteps
  <2>9. CASE ImportRead(r)
    BY <2>4, <2>9, ImportReadIs DEF Steps, Ops, Goes, BulkSteps, UploadSteps
  <2>10. CASE ImportItem(r)
    BY <2>4, <2>10, ImportItemIs DEF Steps, Ops, Goes, BulkSteps, UploadSteps
  <2>11. CASE ImportEnd(r)
    BY <2>4, <2>11, ImportEndIs DEF Steps, Ops, Goes, BulkSteps, UploadSteps
  <2>12. CASE Update(r)
    BY <2>2, <2>12, UpdateIs
  <2>13. CASE BulkCheck(r)
    BY <1>1, <2>1, <2>2, <2>13, BulkCheckIs
       DEF FlowOf, Goes, In, Grows, Ops, BulkSteps, UploadSteps
  <2>14. CASE BulkRead(r)
    BY <2>5, <2>14, BulkReadIs DEF Goes, BulkSteps
  <2>15. CASE Clears(r)
    BY <2>5, <2>6, <2>15, ClearsAre DEF Goes, BulkSteps, UploadSteps
  <2>16. CASE Writes(r)
    <3>1. CASE Stops(r)
      BY <2>2, <3>1
    <3>2. CASE ~Stops(r)
      <4>1. /\ input'[r] = input[r] /\ local'[r] = local[r] /\ pc[r] \in Writing
            /\ pc'[r] \in Written /\ (pc'[r] \in BulkSteps <=> pc[r] = "bulkWrite")
        BY <2>16, <3>2, WritesAre
      <4> QED
        BY <2>5, <2>6, <4>1 DEF Writing, Written, ToTell, BulkSteps, UploadSteps
    <3> QED
      BY <3>1, <3>2
  <2>17. CASE Drops(r)
    BY <2>2, <2>5, <2>6, <2>17, DropsAre DEF BulkSteps, UploadSteps
  <2>18. CASE Changes(r)
    BY <2>2, <2>18, ChangesAre
  <2>19. CASE UploadKey(r)
    <3>1. local'[r].new \in Keys
      BY <2>19, UploadKeyIs DEF Free
    <3>2. pc[r] = "upload" /\ file /\ Goes(r, "uploadRead")
      BY <2>19, UploadKeyIs
    <3> QED
      BY <1>1, <2>1, <3>1, <3>2 DEF FlowOf, Goes, In, Grows, Ops, BulkSteps, UploadSteps
  <2>20. CASE UploadRead(r)
    BY <2>2, <2>6, <2>20, UploadReadIs DEF Goes, UploadSteps
  <2>21. CASE RemoveRead(r)
    BY <2>2, <2>4, <2>21, RemoveReadIs DEF Steps, Ops, Goes, BulkSteps, UploadSteps
  <2>22. CASE RemoveRows(r)
    BY <2>2, <2>4, <2>22, RemoveRowsIs DEF Steps, Ops, Goes, BulkSteps, UploadSteps
  <2>23. CASE RemoveTell(r)
    BY <2>2, <2>4, <2>23, RemoveTellIs DEF Steps, Ops, Goes, BulkSteps, UploadSteps
  <2> QED
    BY <2>3, <2>7, <2>8, <2>9, <2>10, <2>11, <2>12, <2>13, <2>14, <2>15, <2>16, <2>17, <2>18,
       <2>19, <2>20, <2>21, <2>22, <2>23 DEF Acts
<1> QED
  BY <1>2, <1>3 DEF Flow

\* All steps of a request, for the three.
Base == Rows /\ Flow
LEMMA BaseStep ==
    ASSUME Base, NEW r \in Requests, Acts(r)
    PROVE  Base' /\ Moves(r) /\ Grows
BY RowsStep, FlowStep, AllMove, GrowStep DEF Base

-----------------------------------------------------------------------------
(* Imports.                                                                *)

\* The items that an import has done.
Known(r, i) == \E e \in addresses : Lower[e] = Address(r, i)
Item(r, i, reason) ==
    /\ reason = "imported" => i \in Valid(r)
    /\ reason \in {"imported", "already_exists"} /\ i \in Valid(r) => Known(r, i)
    /\ i \in Valid(r) => (reason = "duplicate_in_file" <=> Duplicate(r, i))
Settled(r) ==
    /\ Len(local[r].outcome) <= Len(In(r).list)
    /\ local[r].known \subseteq {Lower[e] : e \in addresses}
    /\ \A i \in 1..Len(local[r].outcome) : Item(r, i, local[r].outcome[i])
ImportOf(r) ==
    /\ pc[r] \in {"importItem", "importTell", "imported"} => Settled(r)
    /\ pc[r] = "imported" => Len(local[r].outcome) = Len(In(r).list)
ImportInv == \A r \in Requests : ImportOf(r)

\* What a request knows of its list does not change.
LEMMA ListStays ==
    ASSUME NEW q \in Requests, input'[q] = input[q]
    PROVE  /\ In(q)' = In(q) /\ Valid(q)' = Valid(q)
           /\ \A i : Address(q, i)' = Address(q, i)
           /\ \A i : Duplicate(q, i)' <=> Duplicate(q, i)
<1>1. In(q)' = In(q)
  BY DEF In
<1>2. \A i : Address(q, i)' = Address(q, i)
  BY <1>1 DEF Address, In
<1>3. Valid(q)' = Valid(q)
  BY <1>1, <1>2 DEF Valid, Address, In
<1> QED
  BY <1>1, <1>2, <1>3 DEF Duplicate, Address, In

\* What is true of an item stays true.
LEMMA ItemStays ==
    ASSUME Grows, NEW q \in Requests, input'[q] = input[q], NEW i, NEW reason, Item(q, i, reason)
    PROVE  Item(q, i, reason)'
<1>1. /\ Valid(q)' = Valid(q) /\ Address(q, i)' = Address(q, i)
      /\ Duplicate(q, i)' <=> Duplicate(q, i)
  BY ListStays
<1>2. Known(q, i) => Known(q, i)'
  BY <1>1 DEF Known, Grows
<1> QED
  BY <1>1, <1>2 DEF Item

\* Items that are done stay so, whatever others do.
LEMMA SettledStays ==
    ASSUME Rows, Grows, NEW q \in Requests, input'[q] = input[q], Settled(q),
           local'[q].known = local[q].known, local'[q].outcome = local[q].outcome
    PROVE  Settled(q)'
<1>1. In(q)' = In(q)
  BY DEF In
<1>2. {Lower[e] : e \in addresses} \subseteq {Lower[e] : e \in addresses'}
  BY DEF Grows
<1>3. \A i \in 1..Len(local[q].outcome) : Item(q, i, local[q].outcome[i])'
  <2> TAKE i \in 1..Len(local[q].outcome)
  <2>1. PICK reason : reason = local[q].outcome[i]
    OBVIOUS
  <2>2. Item(q, i, reason) /\ local'[q].outcome[i] = reason
    BY <2>1 DEF Settled
  <2>3. Item(q, i, reason)'
    BY <2>2, ItemStays
  <2> QED
    BY <2>2, <2>3 DEF Item
<1> QED
  BY <1>1, <1>2, <1>3 DEF Settled

\* The next item is handled.
LEMMA ItemIsSettled ==
    ASSUME Base, NEW r \in Requests, ImportItem(r), Settled(r)
    PROVE  Settled(r)'
<1>0. PICK n \in Nat, i \in Nat : n = Len(local[r].outcome) /\ i = n + 1
  <2>1. Len(local[r].outcome) \in Nat
    BY DEF Base, Rows, TypeOK
  <2> QED
    BY <2>1
<1> DEFINE e == Address(r, i)
<1>1. PICK reason : /\ Reason(r, i, reason)
                    /\ local'[r].outcome = Append(local[r].outcome, reason)
                    /\ reason = "imported" => e \in addresses'
  BY <1>0, ImportItemIs DEF Base
<1>2. i <= Len(In(r).list) /\ input'[r] = input[r] /\ local'[r].known = local[r].known
  BY <1>0, ImportItemIs DEF Base, Goes
<1>3. Grows /\ Rows
  BY BaseStep DEF Base, Acts
<1>4. /\ In(r)' = In(r) /\ Valid(r)' = Valid(r) /\ Address(r, i)' = e
      /\ Duplicate(r, i)' <=> Duplicate(r, i)
  BY <1>2, ListStays
<1>5. local[r].outcome \in Seq(Reasons) /\ reason \in Reasons /\ In(r).list \in Seq(Emails)
  BY <1>1, <1>3 DEF Rows, TypeOK, Reason, In, Input
<1>6. i \in Valid(r) => Lower[e] = e
  <2>1. i \in Valid(r) => In(r).list[i] \in Emails
    BY <1>5 DEF Valid
  <2> QED
    BY <2>1, RosterAssumption DEF Address
<1>7. ASSUME reason \in {"imported", "already_exists"}, i \in Valid(r)
      PROVE  \E a \in addresses' : Lower[a] = e
  <2>1. CASE reason = "imported"
    BY <1>1, <1>6, <1>7, <2>1
  <2>2. CASE reason = "already_exists"
    <3>1. e \in local[r].known
      BY <1>1, <2>2 DEF Reason
    <3> QED
      BY <1>3, <3>1 DEF Settled, Grows
  <2> QED
    BY <1>7, <2>1, <2>2
<1>8. Item(r, i, reason)'
  BY <1>1, <1>4, <1>7 DEF Item, Known, Reason
<1>9. /\ Len(local'[r].outcome) = i /\ local'[r].outcome[i] = reason
      /\ \A j \in 1..n : local'[r].outcome[j] = local[r].outcome[j]
  BY <1>0, <1>1, <1>5, AppendProperties
<1>10. local'[r].known \subseteq {Lower[a] : a \in addresses'}
  BY <1>2, <1>3 DEF Settled, Grows
<1>11. ASSUME NEW j \in 1..i PROVE Item(r, j, local[r].outcome[j])'
  <2>1. CASE j = i
    BY <1>8, <1>9, <2>1 DEF Item
  <2>2. CASE j # i
    <3>1. j \in 1..n
      BY <1>0, <2>2
    <3>2. PICK done : done = local[r].outcome[j]
      OBVIOUS
    <3>3. Item(r, j, done) /\ local'[r].outcome[j] = done
      BY <1>0, <1>9, <3>1, <3>2 DEF Settled
    <3>4. Item(r, j, done)'
      BY <1>2, <1>3, <3>3, ItemStays
    <3> QED
      BY <3>3, <3>4 DEF Item
  <2> QED
    BY <2>1, <2>2
<1> QED
  BY <1>0, <1>2, <1>4, <1>9, <1>10, <1>11 DEF Settled

\* All steps of a request, for imports.
LEMMA ImportStep ==
    ASSUME Base, ImportInv, NEW r \in Requests, Acts(r)
    PROVE  ImportInv'
<1>1. Moves(r) /\ Grows /\ Rows
  BY BaseStep DEF Base
<1>2. ASSUME NEW q \in Requests \ {r} PROVE ImportOf(q)'
  <2>1. Same(q) /\ ImportOf(q)
    BY <1>1, <1>2 DEF Moves, ImportInv
  <2>2. In(q)' = In(q)
    BY <2>1 DEF Same, In
  <2>3. Settled(q) => Settled(q)'
    BY <1>1, <2>1, SettledStays DEF Same
  <2> QED
    BY <2>1, <2>2, <2>3 DEF ImportOf, Same
<1>3. ImportOf(r)'
  <2>0. ImportOf(r)
    BY DEF ImportInv
  <2>1. CASE ImportRead(r)
    <3>1. /\ pc[r] = "import" /\ input'[r] = input[r] /\ pc'[r] = "importItem"
          /\ local'[r].known \subseteq {Lower[e] : e \in addresses}
          /\ local'[r].outcome = local[r].outcome
      BY <2>1, ImportReadIs DEF Base, Goes
    <3>2. local'[r].outcome = << >>
      BY <3>1 DEF Base, Flow, FlowOf, Ops
    <3>4. local'[r].known \subseteq {Lower[e] : e \in addresses'}
      BY <1>1, <3>1 DEF Grows
    <3>5. In(r).list \in Seq(Emails) /\ In(r)' = In(r)
      BY <1>1, <3>1 DEF Rows, TypeOK, In, Input
    <3>6. Len(local'[r].outcome) = 0 /\ Len(In(r)'.list) \in Nat
      BY <3>2, <3>5
    <3> QED
      BY <3>1, <3>4, <3>6 DEF ImportOf, Settled
  <2>2. CASE ImportItem(r)
    <3>1. Settled(r)'
      BY <2>0, <2>2, ItemIsSettled DEF ImportOf, ImportItem
    <3> QED
      BY <2>2, <3>1, ImportItemIs DEF ImportOf, Base, Goes
  <2>3. CASE ImportTell(r)
    <3>1. Settled(r) /\ (~Stops(r) => input'[r] = input[r] /\ local'[r] = local[r] /\ pc'[r] = "importItem")
      BY <2>0, <2>3, TellIs DEF ImportOf, Base, Goes, ImportTell
    <3> QED
      BY <1>1, <3>1, SettledStays DEF ImportOf, Stops
  <2>4. CASE ImportEnd(r)
    <3>1. /\ Settled(r) /\ input'[r] = input[r] /\ local'[r] = local[r]
          /\ Len(local[r].outcome) = Len(In(r).list)
      BY <2>0, <2>4, ImportEndIs DEF ImportOf, Base, Goes
    <3>2. Settled(r)' /\ In(r)' = In(r)
      BY <1>1, <3>1, SettledStays DEF In
    <3> QED
      BY <3>1, <3>2 DEF ImportOf
  <2>5. ASSUME pc'[r] \notin {"importItem", "importTell", "imported"} PROVE ImportOf(r)'
    BY <2>5 DEF ImportOf
  <2>6. CASE Stops(r)
    BY <2>5, <2>6 DEF Stops
  <2>7. ASSUME NEW in \in Inputs[r], Begin(r, in) PROVE ImportOf(r)'
    BY <2>5, <2>7, BeginIs DEF Base, Ops
  <2>8. CASE Register(r) \/ Announce(r)
    BY <2>5, <2>6, <2>8, RegisterIs, TellIs DEF Base, Goes, Announce
  <2>9. CASE BulkCheck(r) \/ BulkRead(r) \/ Clears(r) \/ Writes(r)
    BY <2>5, <2>6, <2>9, BulkCheckIs, BulkReadIs, ClearsAre, WritesAre DEF Base, Goes, Written, ToTell
  <2>10. CASE Drops(r) \/ Changes(r) \/ Update(r)
    BY <2>5, <2>6, <2>10, DropsAre, ChangesAre, UpdateIs DEF Base, Goes
  <2>11. CASE UploadKey(r) \/ UploadRead(r)
    BY <2>5, <2>6, <2>11, UploadKeyIs, UploadReadIs DEF Base, Goes
  <2>12. CASE RemoveRead(r) \/ RemoveRows(r) \/ RemoveTell(r)
    BY <2>5, <2>6, <2>12, RemoveReadIs, RemoveRowsIs, RemoveTellIs DEF Base, Goes
  <2> QED
    BY <2>1, <2>2, <2>3, <2>4, <2>7, <2>8, <2>9, <2>10, <2>11, <2>12 DEF Acts
<1> QED
  BY <1>2, <1>3 DEF ImportInv

\* Of the items of one address the first is no duplicate.
LEMMA FirstOfThem ==
    ASSUME Rows, NEW r \in Requests, NEW i \in Valid(r), Duplicate(r, i)
    PROVE  \E j \in Valid(r) : j < i /\ Address(r, j) = Address(r, i) /\ ~Duplicate(r, j)
<1> DEFINE Twins == {j \in Nat : j \in Valid(r) /\ Address(r, j) = Address(r, i)}
<1>1. Valid(r) \subseteq Nat
  BY DEF Rows, TypeOK, In, Input, Valid
<1>2. i \in Twins
  BY <1>1
<1>3. Twins \in SUBSET Nat /\ Twins # {}
  BY <1>2
<1> HIDE DEF Twins
<1>4. PICK j \in Twins : \A k \in Twins : j <= k
  <2>1. PICK j \in Twins : \A k \in Twins : <<k, j>> \notin OpToRel(<, Nat)
    BY <1>3, NatLessThanWellFounded, WFMin
  <2>2. \A k \in Twins : ~(k < j)
    BY <1>3, <2>1 DEF OpToRel
  <2> QED
    BY <1>3, <2>2
<1>5. PICK k \in Valid(r) : k < i /\ Address(r, k) = Address(r, i)
  BY DEF Duplicate
<1>6. j <= k /\ k \in Nat /\ i \in Nat /\ j \in Nat
  BY <1>1, <1>4, <1>5 DEF Twins
<1>7. j \in Valid(r) /\ j < i /\ Address(r, j) = Address(r, i)
  BY <1>4, <1>5, <1>6 DEF Twins
<1>8. ~Duplicate(r, j)
  BY <1>1, <1>4, <1>7 DEF Duplicate, Twins
<1> QED
  BY <1>7, <1>8

\* What an import promises follows.
LEMMA ImportSays ==
    ASSUME Rows, ImportInv
    PROVE  ImportAccounts
<1> SUFFICES ASSUME NEW r \in Requests, pc[r] = "imported", NEW i \in Valid(r)
             PROVE  LET outcome == local[r].outcome
                        twins == {j \in Valid(r) \ {i} : Address(r, j) = Address(r, i)}
                    IN
                    /\ outcome[i] \in {"imported", "already_exists"} =>
                         \E e \in addresses : Lower[e] = Address(r, i)
                    /\ outcome[i] = "imported" => \A j \in twins : outcome[j] = "duplicate_in_file"
                    /\ outcome[i] = "duplicate_in_file" =>
                         \E j \in twins : j < i /\ outcome[j] # "duplicate_in_file"
  BY DEF ImportAccounts
<1> DEFINE outcome == local[r].outcome
<1>1. Settled(r) /\ Len(outcome) = Len(In(r).list)
  BY DEF ImportInv, ImportOf
<1>2. outcome \in Seq(Reasons) /\ In(r).list \in Seq(Emails)
  BY DEF Rows, TypeOK, In, Input
<1>3. Valid(r) \subseteq 1..Len(outcome)
  BY <1>1, <1>2 DEF Valid
<1>4. \A j \in Valid(r) : Item(r, j, outcome[j])
  BY <1>1, <1>3 DEF Settled
<1> HIDE DEF outcome
<1>5. outcome[i] \in {"imported", "already_exists"} => \E e \in addresses : Lower[e] = Address(r, i)
  BY <1>4 DEF Item, Known
<1>6. ASSUME outcome[i] = "imported", NEW j \in Valid(r) \ {i}, Address(r, j) = Address(r, i)
      PROVE  outcome[j] = "duplicate_in_file"
  <2>1. ~Duplicate(r, i)
    BY <1>4, <1>6 DEF Item
  <2>2. i \in Nat /\ j \in Nat
    BY <1>2, <1>3 DEF outcome
  <2>3. i < j
    BY <1>6, <2>1, <2>2 DEF Duplicate
  <2>4. Duplicate(r, j)
    BY <1>6, <2>3 DEF Duplicate
  <2> QED
    BY <1>4, <2>4 DEF Item
<1>7. ASSUME outcome[i] = "duplicate_in_file"
      PROVE  \E j \in Valid(r) \ {i} : /\ Address(r, j) = Address(r, i)
                                       /\ j < i /\ outcome[j] # "duplicate_in_file"
  <2>1. Duplicate(r, i)
    BY <1>4, <1>7 DEF Item
  <2>2. PICK j \in Valid(r) : j < i /\ Address(r, j) = Address(r, i) /\ ~Duplicate(r, j)
    BY <2>1, FirstOfThem
  <2>3. outcome[j] # "duplicate_in_file"
    BY <1>4, <2>2 DEF Item
  <2>4. j # i
    BY <1>7, <2>3
  <2> QED
    BY <2>2, <2>3, <2>4
<1> QED
  BY <1>5, <1>6, <1>7 DEF outcome

-----------------------------------------------------------------------------
(* What the mail listeners are told.                                       *)

Tells == {"announce", "importTell"}
Telling(p) == {r \in Requests : pc[r] \in Tells /\ p \in local[r].seen}
Removing(p) == {r \in Requests : pc[r] = "removeTell" /\ p \in local[r].seen}
First(p) == \E s \in Start : p \in s.people

\* What a request has read or written when it tells.
NewsOf(r) ==
    /\ pc[r] \in Tells => local[r].seen \subseteq used
    /\ pc[r] = "removeRows" => In(r).people \cap people \subseteq local[r].seen
    /\ pc[r] \in {"removeRows", "removeTell"} => local[r].seen \subseteq In(r).people
    /\ pc[r] \in Written => \A p \in In(r).people : Wanted(r) \in held[p]

\* The notices sent and still to be sent about one participant.
RegisteredOf(p) == registered[p] + Cardinality(Telling(p)) = IF p \in used /\ ~First(p) THEN 1 ELSE 0
DeletedOf(p) ==
    IF p \in people \/ p \notin used THEN deleted[p] = 0 /\ Removing(p) = {}
    ELSE LET n == deleted[p] + Cardinality(Removing(p)) IN n >= 1 /\ (n > 1 => p \in raced)
ChangedInv == \A c \in changed : c[1] \in Participants /\ c[2] \in held[c[1]]
NoticeInv ==
    /\ \A r \in Requests : NewsOf(r)
    /\ \A p \in Participants : RegisteredOf(p) /\ DeletedOf(p)
    /\ ChangedInv

\* The notices under way are finitely many.
LEMMA TellersAreFinite ==
    ASSUME NEW p
    PROVE  /\ IsFiniteSet(Telling(p)) /\ IsFiniteSet(Removing(p))
           /\ IsFiniteSet(Telling(p)') /\ IsFiniteSet(Removing(p)')
<1>1. /\ Telling(p) \subseteq Requests /\ Removing(p) \subseteq Requests
      /\ Telling(p)' \subseteq Requests /\ Removing(p)' \subseteq Requests
  BY DEF Telling, Removing
<1> QED
  BY <1>1, FS_Subset, RosterAssumption

\* The others tell what they told before.
LEMMA TellersMove ==
    ASSUME NEW r \in Requests, Moves(r), NEW p
    PROVE  /\ Telling(p)' \ {r} = Telling(p) \ {r} /\ Removing(p)' \ {r} = Removing(p) \ {r}
           /\ r \in Telling(p) <=> pc[r] \in Tells /\ p \in local[r].seen
           /\ r \in Telling(p)' <=> pc'[r] \in Tells /\ p \in local'[r].seen
           /\ r \in Removing(p) <=> pc[r] = "removeTell" /\ p \in local[r].seen
           /\ r \in Removing(p)' <=> pc'[r] = "removeTell" /\ p \in local'[r].seen
<1>1. \A q \in Requests \ {r} : pc'[q] = pc[q] /\ local'[q].seen = local[q].seen
  BY DEF Moves, Same
<1> QED
  BY <1>1 DEF Telling, Removing

\* One request more or less in a set.
LEMMA OneMore ==
    ASSUME NEW A, NEW B, NEW r, IsFiniteSet(A), IsFiniteSet(B), A \ {r} = B \ {r}
    PROVE  /\ Cardinality(A) \in Nat /\ Cardinality(B) \in Nat
           /\ (r \in A <=> r \in B) => A = B
           /\ r \notin A /\ r \in B => Cardinality(B) = Cardinality(A) + 1
<1>1. Cardinality(A) \in Nat /\ Cardinality(B) \in Nat
  BY FS_CardinalityType
<1>2. (r \in A <=> r \in B) => A = B
  OBVIOUS
<1>3. r \notin A /\ r \in B => B = A \cup {r}
  OBVIOUS
<1> QED
  BY <1>1, <1>2, <1>3, FS_AddElement

\* Where a step of r changes nothing that is told.
Quiet(r) ==
    /\ UNCHANGED <<people, used, registered, deleted>>
    /\ pc[r] \notin Tells \cup {"removeTell"} /\ pc'[r] \notin Tells \cup {"removeTell"}

\* The steps that say nothing about who was registered or removed.
LEMMA QuietOnes ==
    ASSUME Base, NEW r \in Requests, Acts(r)
    PROVE  \/ Quiet(r) \/ Register(r) \/ ImportItem(r) \/ Announce(r) \/ ImportTell(r)
           \/ RemoveRows(r) \/ RemoveTell(r)
<1>1. CASE Reads(r)
  <2>1. UNCHANGED <<people, used, registered, deleted>>
    BY <1>1, ReadsAre DEF Base, tables, notices, past
  <2>2. pc[r] \notin Tells \cup {"removeTell"} /\ pc'[r] \notin Tells \cup {"removeTell"}
    BY <1>1, BeginIs, ImportReadIs, ImportEndIs, BulkCheckIs, BulkReadIs, ClearsAre, RemoveReadIs
       DEF Base, Reads, Tells, Goes, Stops, Ops
  <2> QED
    BY <2>1, <2>2 DEF Quiet
<1>2. CASE Writes(r)
  BY <1>2, WritesAre
     DEF Base, Quiet, Tells, Stops, Silent, Still, Writing, Written, ToTell, notices, past
<1>3. CASE Drops(r)
  BY <1>3, DropsAre DEF Base, Quiet, Tells, Stops, Silent, Still, Dropping, notices, past
<1>4. CASE Changes(r)
  BY <1>4, ChangesAre DEF Base, Quiet, Tells, Stops, ToTell, tables, past
<1>5. CASE UploadKey(r)
  BY <1>5, UploadKeyIs DEF Base, Quiet, Tells, Goes, Silent, Still, notices, past
<1>6. CASE UploadRead(r)
  BY <1>6, UploadReadIs DEF Base, Quiet, Tells, Goes, Stops, Silent, tables, notices, past
<1>7. CASE Update(r)
  BY <1>7, UpdateIs DEF Base, Quiet, Tells, Stops, Silent, notices
<1> QED
  BY <1>1, <1>2, <1>3, <1>4, <1>5, <1>6, <1>7 DEF Acts, Reads

\* Who inserts tells next of the new participant.
LEMMA Inserts ==
    ASSUME Base, NEW r \in Requests, Register(r) \/ ImportItem(r)
    PROVE  /\ pc[r] \notin Tells \cup {"removeTell"} /\ pc'[r] # "removeTell"
           /\ UNCHANGED <<registered, deleted>>
           /\ \/ pc'[r] \notin Tells /\ UNCHANGED <<people, used>>
              \/ /\ pc'[r] \in Tells
                 /\ \E p \in Participants \ used :
                      /\ people' = people \cup {p} /\ used' = used \cup {p}
                      /\ local'[r].seen = {p}
<1>1. CASE Register(r)
  BY <1>1, RegisterIs DEF Base, Tells, Goes, Stops, Silent, notices, past
<1>2. CASE ImportItem(r)
  BY <1>2, ImportItemIs DEF Base, Tells, Goes, Silent, notices, past
<1> QED
  BY <1>1, <1>2

\* All steps of a request, for the notices of those who register.
LEMMA RegisteredStep ==
    ASSUME Base, NoticeInv, NEW r \in Requests, Acts(r), NEW p \in Participants
    PROVE  RegisteredOf(p)'
<1> DEFINE A == Telling(p)  B == Telling(p)'
<1>1. Moves(r) /\ Rows /\ RegisteredOf(p) /\ NewsOf(r)
  BY BaseStep DEF Base, NoticeInv
<1>2. /\ IsFiniteSet(A) /\ IsFiniteSet(B) /\ B \ {r} = A \ {r}
      /\ r \in A <=> pc[r] \in Tells /\ p \in local[r].seen
      /\ r \in B <=> pc'[r] \in Tells /\ p \in local'[r].seen
  BY <1>1, TellersAreFinite, TellersMove
<1>3. registered[p] + Cardinality(A) = IF p \in used /\ ~First(p) THEN 1 ELSE 0
  BY <1>1 DEF RegisteredOf
<1>4. SUFFICES registered'[p] + Cardinality(B) = IF p \in used' /\ ~First(p) THEN 1 ELSE 0
  BY DEF RegisteredOf, First
<1>5. First(p) => p \in used
  BY <1>1 DEF Rows, First
<1>6. registered[p] \in Nat
  BY <1>1 DEF Rows
<1> HIDE DEF A, B
<1>7. /\ Cardinality(A) \in Nat /\ Cardinality(B) \in Nat
      /\ (r \in A <=> r \in B) => A = B
      /\ r \notin A /\ r \in B => Cardinality(B) = Cardinality(A) + 1
      /\ r \notin B /\ r \in A => Cardinality(A) = Cardinality(B) + 1
  BY <1>2, OneMore
<1>8. CASE Quiet(r)
  BY <1>2, <1>3, <1>7, <1>8 DEF Quiet
<1>9. CASE Register(r) \/ ImportItem(r)
  <2>1. registered' = registered /\ r \notin A
    BY <1>2, <1>9, Inserts
  <2>2. CASE pc'[r] \notin Tells
    BY <1>2, <1>3, <1>7, <1>9, <2>1, <2>2, Inserts
  <2>3. CASE pc'[r] \in Tells
    <3>1. PICK n \in Participants \ used : used' = used \cup {n} /\ local'[r].seen = {n}
      BY <1>9, <2>3, Inserts
    <3>2. CASE p = n
      BY <1>2, <1>3, <1>5, <1>6, <1>7, <2>1, <2>3, <3>1, <3>2
    <3>3. CASE p # n
      BY <1>2, <1>3, <1>7, <2>1, <3>1, <3>3
    <3> QED
      BY <3>2, <3>3
  <2> QED
    BY <2>2, <2>3
<1>10. CASE Announce(r) \/ ImportTell(r)
  <2>1. /\ used' = used /\ pc[r] \in Tells /\ pc'[r] \notin Tells
        /\ registered'[p] = registered[p] + IF p \in local[r].seen THEN 1 ELSE 0
    BY <1>10, TellIs DEF Base, Tells, Stops, Goes, past
  <2> QED
    BY <1>2, <1>3, <1>6, <1>7, <2>1
<1>11. CASE RemoveRows(r) \/ RemoveTell(r)
  <2>1. /\ used' = used /\ registered' = registered
        /\ pc[r] \notin Tells /\ pc'[r] \notin Tells
    BY <1>11, RemoveRowsIs, RemoveTellIs DEF Base, Tells, Stops, Goes, Silent, notices, tables, past
  <2> QED
    BY <1>2, <1>3, <1>7, <2>1
<1> QED
  BY <1>8, <1>9, <1>10, <1>11, QuietOnes

\* All steps of a request, for the notices of those who are removed.
LEMMA DeletedStep ==
    ASSUME Base, NoticeInv, NEW r \in Requests, Acts(r), NEW p \in Participants
    PROVE  DeletedOf(p)'
<1> DEFINE A == Removing(p)  B == Removing(p)'
           Counted(d, n, x) == d + n >= 1 /\ (d + n > 1 => x)
<1>1. Moves(r) /\ Rows /\ DeletedOf(p) /\ NewsOf(r) /\ Grows
  BY BaseStep DEF Base, NoticeInv
<1>2. /\ IsFiniteSet(A) /\ IsFiniteSet(B) /\ B \ {r} = A \ {r}
      /\ r \in A <=> pc[r] = "removeTell" /\ p \in local[r].seen
      /\ r \in B <=> pc'[r] = "removeTell" /\ p \in local'[r].seen
  BY <1>1, TellersAreFinite, TellersMove
<1>3. IF p \in people \/ p \notin used THEN deleted[p] = 0 /\ A = {}
      ELSE Counted(deleted[p], Cardinality(A), p \in raced)
  BY <1>1 DEF DeletedOf
<1>4. SUFFICES IF p \in people' \/ p \notin used' THEN deleted'[p] = 0 /\ B = {}
               ELSE Counted(deleted'[p], Cardinality(B), p \in raced')
  BY DEF DeletedOf
<1>5. deleted[p] \in Nat /\ people \subseteq used /\ raced \subseteq raced'
  BY <1>1 DEF Rows, TypeOK, Grows
<1>6. (r \in A <=> r \in B) => A = B
  BY <1>2, OneMore
<1>7. A = {} => Cardinality(A) = 0
  BY FS_EmptySet
<1> HIDE DEF A, B
<1>8. /\ Cardinality(A) \in Nat /\ Cardinality(B) \in Nat
      /\ r \notin A /\ r \in B => Cardinality(B) = Cardinality(A) + 1
      /\ r \notin B /\ r \in A => Cardinality(A) = Cardinality(B) + 1
  BY <1>2, OneMore
<1>9. ASSUME UNCHANGED <<people, used>>, deleted'[p] = deleted[p], r \in A <=> r \in B
      PROVE  IF p \in people' \/ p \notin used' THEN deleted'[p] = 0 /\ B = {}
             ELSE Counted(deleted'[p], Cardinality(B), p \in raced')
  BY <1>3, <1>5, <1>6, <1>8, <1>9
<1>10. CASE Quiet(r)
  BY <1>2, <1>9, <1>10 DEF Quiet
<1>11. CASE Register(r) \/ ImportItem(r)
  <2>1. deleted' = deleted /\ B = A
    BY <1>2, <1>6, <1>11, Inserts
  <2>2. \/ UNCHANGED <<people, used>>
        \/ \E n \in Participants \ used : people' = people \cup {n} /\ used' = used \cup {n}
    BY <1>11, Inserts
  <2>3. CASE UNCHANGED <<people, used>>
    BY <1>9, <2>1, <2>3
  <2>4. CASE \E n \in Participants \ used : people' = people \cup {n} /\ used' = used \cup {n}
    BY <1>3, <1>5, <1>8, <2>1, <2>4
  <2> QED
    BY <2>2, <2>3, <2>4
<1>12. CASE Announce(r) \/ ImportTell(r)
  <2>1. UNCHANGED <<people, used, deleted>> /\ r \notin A /\ r \notin B
    BY <1>2, <1>12, TellIs DEF Base, Stops, Goes, tables, past
  <2> QED
    BY <1>9, <2>1
<1>13. CASE RemoveRows(r)
  <2>1. pc[r] = "removeRows" /\ r \notin A /\ used' = used /\ deleted' = deleted
    BY <1>2, <1>13, RemoveRowsIs DEF Base, Silent, notices, past
  <2>2. CASE Stops(r) /\ people' = people
    BY <1>2, <1>9, <2>1, <2>2 DEF Stops
  <2>3. CASE ~(Stops(r) /\ people' = people)
    <3> DEFINE S == In(r).people
    <3>1. /\ people' = people \ S /\ raced' = raced \cup (local[r].seen \ people)
          /\ pc'[r] = "removeTell" /\ local'[r].seen = local[r].seen
      BY <1>13, <2>3, RemoveRowsIs DEF Base, Goes
    <3>2. /\ S \cap people \subseteq local[r].seen /\ local[r].seen \subseteq S
          /\ S \subseteq used
      BY <1>1, <2>1 DEF NewsOf, Base, Flow, FlowOf
    <3> HIDE DEF S
    <3>3. CASE p \in local[r].seen
      <4>1. Cardinality(B) = Cardinality(A) + 1 /\ p \notin people' /\ p \in used'
        BY <1>2, <1>8, <2>1, <3>1, <3>2, <3>3
      <4>2. CASE p \in people
        BY <1>3, <1>7, <2>1, <4>1, <4>2
      <4>3. CASE p \notin people
        BY <1>3, <1>5, <1>8, <2>1, <3>1, <3>3, <4>1, <4>3
      <4> QED
        BY <4>2, <4>3
    <3>4. CASE p \notin local[r].seen
      <4>1. B = A /\ (p \in people' <=> p \in people)
        BY <1>2, <1>6, <2>1, <3>1, <3>2, <3>4
      <4> QED
        BY <1>3, <1>5, <2>1, <4>1
    <3> QED
      BY <3>3, <3>4
  <2> QED
    BY <2>2, <2>3
<1>14. CASE RemoveTell(r)
  <2>1. /\ UNCHANGED <<people, used, raced>> /\ pc[r] = "removeTell" /\ r \notin B
        /\ deleted'[p] = deleted[p] + IF p \in local[r].seen THEN 1 ELSE 0
    BY <1>2, <1>14, RemoveTellIs DEF Base, Stops, Goes, tables, past
  <2>2. CASE p \in local[r].seen
    <3>1. r \in A /\ Cardinality(A) = Cardinality(B) + 1
      BY <1>2, <1>8, <2>1, <2>2
    <3> QED
      BY <1>3, <1>5, <1>8, <2>1, <2>2, <3>1
  <2>3. CASE p \notin local[r].seen
    BY <1>2, <1>5, <1>9, <2>1, <2>3
  <2> QED
    BY <2>2, <2>3
<1> QED
  BY <1>10, <1>11, <1>12, <1>13, <1>14, QuietOnes

\* All steps of a request, for what requests have read and written.
LEMMA NewsStep ==
    ASSUME Base, NoticeInv, NEW r \in Requests, Acts(r), NEW q \in Requests
    PROVE  NewsOf(q)'
<1>1. Moves(r) /\ Grows /\ Rows /\ Flow
  BY BaseStep DEF Base
<1>2. /\ people \subseteq used /\ used \subseteq used'
      /\ \A p \in people' : p \in people \/ p \notin used
      /\ \A p \in Participants : held[p] \subseteq held'[p]
  BY <1>1 DEF Rows, TypeOK, Grows
<1>3. NewsOf(q) /\ FlowOf(q) /\ NewsOf(r) /\ FlowOf(r)
  BY <1>1 DEF NoticeInv, Flow
<1>4. In(q).people \subseteq Participants /\ In(r).people \subseteq Participants
  BY <1>1 DEF Rows, TypeOK, In, Input
<1>5. ASSUME input'[q] = input[q], pc'[q] = pc[q], local'[q].seen = local[q].seen,
             local'[q].new = local[q].new
      PROVE  NewsOf(q)'
  <2>1. In(q)' = In(q) /\ Wanted(q)' = Wanted(q)
    BY <1>5 DEF In, Wanted
  <2>2. pc[q] = "removeRows" => In(q).people \subseteq used
    BY <1>3 DEF FlowOf
  <2> QED
    BY <1>2, <1>3, <1>4, <1>5, <2>1, <2>2 DEF NewsOf
<1>6. CASE q # r
  BY <1>1, <1>5, <1>6 DEF Moves, Same
<1>7. NewsOf(r)'
  <2>1. ASSUME pc'[r] \notin Tells \cup {"removeRows", "removeTell"} \cup Written
        PROVE  NewsOf(r)'
    BY <2>1 DEF NewsOf
  <2>2. CASE Register(r) \/ ImportItem(r)
    <3>1. \/ pc'[r] \notin Tells
          \/ pc'[r] \in Tells /\ local'[r].seen \subseteq used'
      BY <2>2, Inserts
    <3>2. pc'[r] \notin {"removeRows", "removeTell"} \cup Written
      BY <2>2, RegisterIs, ImportItemIs DEF Base, Goes, Stops, Written, ToTell
    <3> QED
      BY <3>1, <3>2 DEF NewsOf
  <2>3. CASE Announce(r) \/ ImportTell(r)
    BY <2>1, <2>3, TellIs DEF Base, Stops, Goes, Tells, Written, ToTell
  <2>0. CASE Stops(r)
    BY <2>0, <2>1 DEF Stops, Tells, Written, ToTell
  <2>4. CASE Writes(r) /\ ~Stops(r)
    <3>1. /\ input'[r] = input[r] /\ local'[r] = local[r] /\ pc'[r] \in Written
          /\ held' = [p \in Participants |->
                        held[p] \cup IF p \in In(r).people THEN {Wanted(r)} ELSE {}]
      BY <2>4, WritesAre DEF Base
    <3>2. In(r)' = In(r) /\ Wanted(r)' = Wanted(r)
      BY <3>1 DEF In, Wanted
    <3>3. \A p \in In(r).people : Wanted(r) \in held'[p]
      BY <1>4, <3>1
    <3> QED
      BY <3>1, <3>2, <3>3 DEF NewsOf, Tells, Written, ToTell
  <2>5. CASE Drops(r) /\ ~Stops(r)
    <3>1. /\ input'[r] = input[r] /\ local'[r] = local[r] /\ held' = held
          /\ pc[r] \in {"bulkDrop", "uploadDrop"} /\ pc'[r] \in ToTell
      BY <2>5, DropsAre DEF Base, ToTell
    <3>2. In(r)' = In(r) /\ Wanted(r)' = Wanted(r)
      BY <3>1 DEF In, Wanted
    <3> QED
      BY <1>3, <3>1, <3>2 DEF NewsOf, Tells, Written, ToTell
  <2>6. CASE RemoveRead(r)
    <3>1. CASE Stops(r)
      BY <2>0, <3>1
    <3>2. CASE ~Stops(r)
      <4>1. /\ input'[r] = input[r] /\ pc'[r] = "removeRows"
            /\ local'[r].seen = In(r).people \cap people /\ people' = people
        BY <2>6, <3>2, RemoveReadIs DEF Base, Goes, tables
      <4>2. In(r)' = In(r)
        BY <4>1 DEF In
      <4> QED
        BY <4>1, <4>2 DEF NewsOf, Tells, Written, ToTell
    <3> QED
      BY <3>1, <3>2
  <2>7. CASE RemoveRows(r)
    <3>1. CASE Stops(r)
      BY <2>0, <3>1
    <3>2. CASE ~Stops(r)
      <4>1. /\ input'[r] = input[r] /\ pc'[r] = "removeTell" /\ pc[r] = "removeRows"
            /\ local'[r].seen = local[r].seen
        BY <2>7, <3>2, RemoveRowsIs DEF Base, Goes
      <4>2. In(r)' = In(r)
        BY <4>1 DEF In
      <4> QED
        BY <1>3, <4>1, <4>2 DEF NewsOf, Tells, Written, ToTell
    <3> QED
      BY <3>1, <3>2
  <2>8. CASE Reads(r) /\ ~RemoveRead(r)
    BY <2>1, <2>8, BeginIs, ImportReadIs, ImportEndIs, BulkCheckIs, BulkReadIs, ClearsAre
       DEF Base, Reads, Tells, Goes, Stops, Ops, Written, ToTell
  <2>9. CASE Update(r) \/ Changes(r) \/ UploadKey(r) \/ UploadRead(r) \/ RemoveTell(r)
    BY <2>0, <2>1, <2>9, UpdateIs, ChangesAre, UploadKeyIs, UploadReadIs, RemoveTellIs
       DEF Base, Tells, Goes, Written, ToTell
  <2> QED
    BY <2>0, <2>2, <2>3, <2>4, <2>5, <2>6, <2>7, <2>8, <2>9 DEF Acts, Reads
<1> QED
  BY <1>6, <1>7

\* All steps of a request, for changes.
LEMMA ChangedStep ==
    ASSUME Base, NoticeInv, NEW r \in Requests, Acts(r)
    PROVE  ChangedInv'
<1>1. \A p \in Participants : held[p] \subseteq held'[p]
  BY BaseStep DEF Grows
<1>2. CASE changed' = changed
  BY <1>1, <1>2 DEF NoticeInv, ChangedInv
<1>3. CASE Changes(r)
  <2>1. changed' = changed \cup (In(r).people \X {Wanted(r)}) /\ pc[r] \in Written
    BY <1>3, ChangesAre DEF Base, Written
  <2>2. /\ \A p \in In(r).people : Wanted(r) \in held[p]
        /\ In(r).people \subseteq Participants
    BY <2>1 DEF NoticeInv, NewsOf, Base, Rows, TypeOK, In, Input
  <2>3. \A c \in In(r).people \X {Wanted(r)} : c[1] \in In(r).people /\ c[2] = Wanted(r)
    OBVIOUS
  <2> QED
    BY <1>1, <2>1, <2>2, <2>3 DEF NoticeInv, ChangedInv
<1>4. ~Changes(r) => changed' = changed
  <2>1. CASE Reads(r)
    BY <2>1, ReadsAre DEF Base, notices
  <2>2. CASE Register(r) \/ ImportItem(r) \/ Announce(r) \/ ImportTell(r)
    BY <2>2, RegisterIs, ImportItemIs, TellIs DEF Base, Silent, notices
  <2>3. CASE Writes(r) \/ Drops(r) \/ UploadKey(r)
    BY <2>3, WritesAre, DropsAre, UploadKeyIs DEF Base, Silent, notices
  <2>4. CASE UploadRead(r) \/ Update(r)
    BY <2>4, UploadReadIs, UpdateIs DEF Base, Silent, notices
  <2>5. CASE RemoveRows(r) \/ RemoveTell(r)
    BY <2>5, RemoveRowsIs, RemoveTellIs DEF Base, Silent, notices
  <2> QED
    BY <2>1, <2>2, <2>3, <2>4, <2>5 DEF Acts, Reads
<1> QED
  BY <1>2, <1>3, <1>4

\* All steps of a request, for the notices.
LEMMA NoticeStep ==
    ASSUME Base, NoticeInv, NEW r \in Requests, Acts(r)
    PROVE  NoticeInv'
<1>1. \A q \in Requests : NewsOf(q)'
  BY NewsStep
<1>2. \A p \in Participants : RegisteredOf(p)' /\ DeletedOf(p)'
  BY RegisteredStep, DeletedStep
<1> QED
  BY <1>1, <1>2, ChangedStep DEF NoticeInv

\* What the listeners are promised follows.
LEMMA NoticesSay ==
    ASSUME Rows, NoticeInv
    PROVE  ToldTruly
<1>1. used \subseteq Participants /\ people \subseteq used
  BY DEF Rows, TypeOK
<1>2. RegisteredOnce
  <2>1. \A p \in used : registered[p] + Cardinality(Telling(p)) = IF First(p) THEN 0 ELSE 1
    BY <1>1 DEF NoticeInv, RegisteredOf
  <2> QED
    BY <2>1 DEF RegisteredOnce, Telling, Tells, First
<1>3. DeletedOnce
  <2>1. ASSUME NEW p \in used
        PROVE  IF p \in people THEN deleted[p] = 0
               ELSE LET n == deleted[p] + Cardinality(Removing(p)) IN
                    n = 1 \/ (n > 1 /\ p \in raced)
    <3>1. DeletedOf(p) /\ deleted[p] \in Nat /\ Cardinality(Removing(p)) \in Nat
      BY <1>1, TellersAreFinite, FS_CardinalityType DEF NoticeInv, Rows
    <3> QED
      BY <3>1 DEF DeletedOf
  <2> QED
    BY <2>1 DEF DeletedOnce, Removing
<1>4. ToldWasHeld
  BY DEF NoticeInv, ChangedInv, ToldWasHeld
<1> QED
  BY <1>2, <1>3, <1>4 DEF ToldTruly

-----------------------------------------------------------------------------
(* Files.                                                                  *)

\* Where a request has read keys, and where it has a new one.
HasRead == {"bulkClear", "bulkWrite", "uploadClear", "uploadWrite", "removeRows"}
Holds == HasRead \cup Dropping
Uploading == {"uploadRead", "uploadClear", "uploadWrite"}

\* An object is a participant's, in the hands of a request, or lost.
Explained(k) ==
    \/ \E p \in people : value[p] = k
    \/ \E r \in Requests : pc[r] \in Dropping /\ k \in local[r].keys
    \/ \E r \in Requests : pc[r] \in Uploading /\ local[r].new = k
    \/ k \in lostKeys
FileRows ==
    /\ \A p \in people : value[p] # None => value[p] \in objects
    /\ \A k \in objects : Explained(k)
    /\ \A p, q \in people : value[p] = value[q] /\ value[p] # None => p = q
    /\ \A p \in Participants \ people : value[p] = None

\* Keys that were read belong to the request's participants or to nobody, keys
\* that go next to nobody; a new key is nobody's and in one hand.
Alone(r) ==
    /\ local[r].new \in objects
    /\ \A p \in people : value[p] # local[r].new
    /\ \A q \in Requests : pc[q] \in Holds => local[r].new \notin local[q].keys
    /\ \A q \in Requests \ {r} : pc[q] \in Uploading => local[q].new # local[r].new
HandOf(r) ==
    /\ pc[r] \in HasRead => \A p \in people : value[p] \in local[r].keys => p \in In(r).people
    /\ pc[r] \in Dropping => \A p \in people : value[p] \notin local[r].keys
    /\ pc[r] \in Uploading => Alone(r)
FilesInv == file => FileRows /\ \A r \in Requests : HandOf(r)

\* What a step of r does to values, objects and keys.
Trades(r) ==
    /\ \A p \in people' : \/ value'[p] = value[p] /\ p \in people
                          \/ value'[p] = None
                          \/ pc[r] \in Uploading /\ value'[p] = local[r].new
    /\ \A k \in objects \ objects' : pc[r] \in Holds /\ k \in local[r].keys
    /\ pc'[r] \in Holds => \A k \in local'[r].keys :
         (pc[r] \in Holds /\ k \in local[r].keys) \/ \E p \in people : value[p] = k
    /\ pc'[r] \in Uploading =>
         \/ pc[r] \in Uploading /\ local'[r].new = local[r].new
         \/ local'[r].new \notin objects

\* After such a step the others hold what they held.
LEMMA HandStays ==
    ASSUME Base, file, FileRows, NEW r \in Requests, HandOf(r), Moves(r), Trades(r),
           NEW q \in Requests \ {r}, HandOf(q)
    PROVE  HandOf(q)'
<1>1. /\ pc'[q] = pc[q] /\ In(q)' = In(q) /\ local'[q].keys = local[q].keys
      /\ local'[q].new = local[q].new
  BY DEF Moves, Same, In
<1>2. None \notin local[q].keys
  BY RosterAssumption DEF Base, Rows, Locals
<1>3. ASSUME NEW p \in people', value'[p] \in local[q].keys, pc[q] \in Holds
      PROVE  p \in people /\ value'[p] = value[p]
  <2>1. value'[p] # None
    BY <1>2, <1>3
  <2>2. pc[r] \in Uploading => value'[p] # local[r].new
    BY <1>3 DEF HandOf, Alone
  <2> QED
    BY <2>1, <2>2 DEF Trades
<1>4. pc'[q] \in HasRead => \A p \in people' : value'[p] \in local'[q].keys => p \in In(q)'.people
  BY <1>1, <1>3 DEF HandOf, Holds
<1>5. pc'[q] \in Dropping => \A p \in people' : value'[p] \notin local'[q].keys
  BY <1>1, <1>3 DEF HandOf, Holds
<1>6. ASSUME pc'[q] \in Uploading PROVE Alone(q)'
  <2>1. /\ Alone(q) /\ pc[q] \in Uploading /\ local[q].new # None
    BY <1>1, <1>6, RosterAssumption
       DEF HandOf, Base, Flow, FlowOf, UploadSteps, Uploading
  <2>2. local[q].new \in objects'
    BY <2>1 DEF Trades, Alone
  <2>3. \A p \in people' : value'[p] # local[q].new
    BY <2>1 DEF Trades, Alone
  <2>4. pc'[r] \in Holds => local[q].new \notin local'[r].keys
    BY <2>1 DEF Trades, Alone
  <2>5. pc'[r] \in Uploading => local'[r].new # local[q].new
    BY <2>1 DEF Trades, Alone
  <2>6. ASSUME NEW o \in Requests \ {r}
        PROVE  pc'[o] = pc[o] /\ local'[o].keys = local[o].keys /\ local'[o].new = local[o].new
    BY DEF Moves, Same
  <2> QED
    BY <1>1, <2>1, <2>2, <2>3, <2>4, <2>5, <2>6 DEF Alone
<1> QED
  BY <1>4, <1>5, <1>6 DEF HandOf

\* So a step that trades keeps the files if it does so for its own hand and for
\* the rows.
LEMMA TradeSteps ==
    ASSUME Base, FilesInv, NEW r \in Requests, Moves(r), Grows,
           file => Trades(r) /\ HandOf(r)' /\ FileRows'
    PROVE  FilesInv'
<1> SUFFICES ASSUME file PROVE FileRows' /\ \A q \in Requests : HandOf(q)'
  BY DEF FilesInv, Grows
<1>1. \A q \in Requests \ {r} : HandOf(q)'
  BY HandStays DEF FilesInv
<1> QED
  BY <1>1

\* What others explain stays explained.
LEMMA ExplainedStays ==
    ASSUME FileRows, NEW r \in Requests, Moves(r), Grows, NEW k \in objects,
           \/ \E p \in people : p \in people' /\ value'[p] = value[p] /\ value[p] = k
           \/ /\ ~\E p \in people : value[p] = k
              /\ pc[r] \in Dropping => k \notin local[r].keys
              /\ pc[r] \in Uploading => k # local[r].new
    PROVE  Explained(k)'
<1>1. Explained(k)
  BY DEF FileRows
<1>2. ASSUME NEW q \in Requests, q # r, pc[q] \in Dropping, k \in local[q].keys PROVE Explained(k)'
  <2>1. pc'[q] \in Dropping /\ k \in local'[q].keys
    BY <1>2 DEF Moves, Same
  <2> QED
    BY <2>1 DEF Explained
<1>3. ASSUME NEW q \in Requests, q # r, pc[q] \in Uploading, local[q].new = k PROVE Explained(k)'
  <2>1. pc'[q] \in Uploading /\ local'[q].new = k
    BY <1>3 DEF Moves, Same
  <2> QED
    BY <2>1 DEF Explained
<1>4. k \in lostKeys => Explained(k)'
  BY DEF Grows, Explained
<1>5. (\E p \in people : p \in people' /\ value'[p] = value[p] /\ value[p] = k) => Explained(k)'
  BY DEF Explained
<1> QED
  BY <1>1, <1>2, <1>3, <1>4, <1>5 DEF Explained

\* What a step owes to the files.
Keeps(r) == Trades(r) /\ HandOf(r)' /\ FileRows'

\* Steps of a request that has no keys.
LEMMA KeepsAside ==
    ASSUME Base, file, FileRows, NEW r \in Requests, Moves(r), Grows, people \subseteq people',
           UNCHANGED <<value, objects, lostKeys>>, pc[r] \notin Holds \cup Uploading,
           pc'[r] \notin Holds \cup Uploading
    PROVE  Keeps(r)
<1>1. \A p \in people' : p \in people \/ value[p] = None
  BY DEF Grows, FileRows, Base, Rows, TypeOK
<1>2. Trades(r)
  BY <1>1 DEF Trades
<1>3. HandOf(r)'
  BY DEF HandOf, Holds
<1>4. \A k \in objects : Explained(k)'
  BY ExplainedStays DEF Holds
<1>5. FileRows'
  BY <1>1, <1>4 DEF FileRows
<1> QED
  BY <1>2, <1>3, <1>5 DEF Keeps

\* Steps that read the keys of participants.
LEMMA KeepsRead ==
    ASSUME Base, file, FileRows, NEW r \in Requests, HandOf(r), Moves(r), Grows,
           UNCHANGED <<people, value, objects, lostKeys>>, input'[r] = input[r],
           pc[r] \notin Holds, pc'[r] \in HasRead,
           \/ pc[r] \notin Uploading /\ pc'[r] \notin Uploading
           \/ pc[r] \in Uploading /\ pc'[r] \in Uploading /\ local'[r].new = local[r].new,
           NEW T \in SUBSET In(r).people, local'[r].keys = KeysOf(T)
    PROVE  Keeps(r)
<1>1. In(r)' = In(r) /\ T \subseteq Participants
  BY DEF In, Base, Rows, TypeOK, Input
<1>2. \A k \in KeysOf(T) : \E p \in T : value[p] = k /\ k # None
  BY <1>1, KeysAre DEF Base
<1>3. \A k \in KeysOf(T) : \E p \in T \cap people : value[p] = k /\ k # None
  BY <1>1, <1>2 DEF FileRows
<1> DEFINE keys == KeysOf(T)
<1>4. /\ local'[r].keys = keys
      /\ \A k \in keys : \E p \in people : value[p] = k
      /\ \A p \in people : value[p] \in keys => p \in In(r).people
  BY <1>3 DEF FileRows
<1> HIDE DEF keys
<1>5. Trades(r)
  BY <1>4 DEF Trades
<1>6. pc'[r] \in Uploading => Alone(r)'
  <2> SUFFICES ASSUME pc'[r] \in Uploading PROVE Alone(r)'
    OBVIOUS
  <2>1. Alone(r) /\ local'[r].new = local[r].new
    BY DEF HandOf
  <2>2. local[r].new \notin keys
    BY <1>4, <2>1 DEF Alone
  <2>3. \A q \in Requests \ {r} : /\ pc'[q] = pc[q] /\ local'[q].keys = local[q].keys
                                  /\ local'[q].new = local[q].new
    BY DEF Moves, Same
  <2> QED
    BY <1>4, <2>1, <2>2, <2>3 DEF Alone
<1>7. HandOf(r)'
  BY <1>1, <1>4, <1>6 DEF HandOf, HasRead, Dropping
<1>8. \A k \in objects : Explained(k)'
  <2> TAKE k \in objects
  <2>1. CASE pc[r] \in Uploading /\ k = local[r].new
    BY <2>1 DEF Explained
  <2>2. CASE ~(pc[r] \in Uploading /\ k = local[r].new)
    BY <2>2, ExplainedStays DEF Holds
  <2> QED
    BY <2>1, <2>2
<1>9. FileRows'
  BY <1>8 DEF FileRows
<1> QED
  BY <1>5, <1>7, <1>9 DEF Keeps

\* Steps that carry their keys on.
LEMMA KeepsOn ==
    ASSUME Base, file, FileRows, NEW r \in Requests, HandOf(r), Moves(r), Grows,
           UNCHANGED <<people, value, objects, lostKeys>>, input'[r] = input[r],
           local'[r].keys = local[r].keys, local'[r].new = local[r].new,
           pc[r] \in HasRead <=> pc'[r] \in HasRead,
           pc[r] \in Dropping <=> pc'[r] \in Dropping,
           pc[r] \in Uploading <=> pc'[r] \in Uploading
    PROVE  Keeps(r)
<1>1. In(r)' = In(r) /\ (pc[r] \in Holds <=> pc'[r] \in Holds)
  BY DEF In, Holds
<1>2. Trades(r)
  BY <1>1 DEF Trades
<1>3. \A q \in Requests : /\ pc'[q] \in Holds <=> pc[q] \in Holds
                          /\ pc'[q] \in Uploading <=> pc[q] \in Uploading
                          /\ local'[q].keys = local[q].keys /\ local'[q].new = local[q].new
  BY <1>1 DEF Moves, Same
<1>4. Alone(r) => Alone(r)'
  BY <1>3 DEF Alone
<1>5. HandOf(r)'
  BY <1>1, <1>4 DEF HandOf
<1>6. ASSUME NEW k \in objects PROVE Explained(k)'
  <2>1. CASE pc[r] \in Dropping /\ k \in local[r].keys
    BY <2>1 DEF Explained
  <2>2. CASE pc[r] \in Uploading /\ k = local[r].new
    BY <2>2 DEF Explained
  <2>3. CASE ~(pc[r] \in Dropping /\ k \in local[r].keys) /\ ~(pc[r] \in Uploading /\ k = local[r].new)
    BY <2>3, ExplainedStays
  <2> QED
    BY <2>1, <2>2, <2>3
<1>7. FileRows'
  BY <1>6 DEF FileRows
<1> QED
  BY <1>2, <1>5, <1>7 DEF Keeps

\* A new object.
LEMMA KeepsKey ==
    ASSUME Base, file, FileRows, NEW r \in Requests, Moves(r), Grows, UploadKey(r)
    PROVE  Keeps(r)
<1>1. /\ pc[r] = "upload" /\ pc'[r] = "uploadRead" /\ UNCHANGED <<people, value, lostKeys>>
      /\ \E k \in Free : objects' = objects \cup {k} /\ local'[r].new = k
  BY UploadKeyIs DEF Base, Goes, Still
<1>2. PICK k \in Free : objects' = objects \cup {k} /\ local'[r].new = k
  BY <1>1
<1>3. /\ k \in Keys /\ k \notin objects /\ k # None
      /\ \A q \in Requests : k \notin local[q].keys /\ local[q].new # k
  BY RosterAssumption DEF Free
<1>4. Trades(r)
  BY <1>1, <1>2, <1>3 DEF Trades, Holds, HasRead, Dropping, Uploading
<1>5. \A p \in people : value[p] # k
  BY <1>3 DEF FileRows
<1>6. HandOf(r)'
  <2>1. \A q \in Requests \ {r} : k \notin local'[q].keys /\ local'[q].new # k
    BY <1>3 DEF Moves, Same
  <2>2. pc'[r] \notin Holds
    BY <1>1 DEF Holds, HasRead, Dropping
  <2>3. Alone(r)'
    BY <1>1, <1>2, <1>5, <2>1, <2>2 DEF Alone
  <2> QED
    BY <2>2, <2>3 DEF HandOf, Holds
<1>7. \A o \in objects : Explained(o)'
  BY <1>1, ExplainedStays DEF Dropping, Uploading
<1>8. Explained(k)'
  BY <1>1, <1>2 DEF Explained, Uploading
<1>9. FileRows'
  BY <1>1, <1>2, <1>7, <1>8 DEF FileRows
<1> QED
  BY <1>4, <1>6, <1>9 DEF Keeps

\* A request that is refused leaves its new object, if it has one.
LEMMA KeepsRefused ==
    ASSUME Base, file, FileRows, NEW r \in Requests, Moves(r), Grows, Stops(r),
           UNCHANGED <<people, value, objects>>, pc[r] \notin Dropping,
           pc[r] \in Uploading => local[r].new \in lostKeys'
    PROVE  Keeps(r)
<1>1. pc'[r] \notin Holds \cup Uploading
  BY DEF Stops, Holds, HasRead, Dropping, Uploading
<1>2. Trades(r) /\ HandOf(r)'
  BY <1>1 DEF Trades, HandOf, Holds
<1>3. ASSUME NEW k \in objects PROVE Explained(k)'
  <2>1. CASE pc[r] \in Uploading /\ k = local[r].new
    BY <2>1 DEF Explained
  <2>2. CASE ~(pc[r] \in Uploading /\ k = local[r].new)
    BY <2>2, ExplainedStays
  <2> QED
    BY <2>1, <2>2
<1>4. FileRows'
  BY <1>3 DEF FileRows
<1> QED
  BY <1>2, <1>4 DEF Keeps

\* The rows of some are written, or go with them.
LEMMA KeepsWrite ==
    ASSUME Base, file, FileRows, NEW r \in Requests, HandOf(r), Moves(r), Grows,
           NEW S \in SUBSET Participants, S = In(r).people, NEW v, NEW K \in SUBSET Keys,
           K = local[r].keys, pc[r] \in HasRead, pc'[r] \notin HasRead \cup Uploading,
           K # {} => pc'[r] \in Dropping /\ local'[r].keys = K,
           pc'[r] \in Dropping => local'[r].keys = K,
           objects' = objects, lostKeys' = lostKeys \cup (KeysOf(S) \ K),
           value' = [p \in Participants |-> IF p \in S THEN v ELSE value[p]],
           \/ v = None /\ pc[r] \notin Uploading /\ people' \subseteq people
              /\ people \ people' \subseteq S
           \/ /\ v = local[r].new /\ pc[r] \in Uploading /\ people' = people
              /\ \E p \in people : S = {p}
    PROVE  Keeps(r)
<1>1. None \notin K /\ people \subseteq Participants /\ objects \subseteq Keys /\ people' \subseteq people
  BY RosterAssumption DEF Base, Rows, TypeOK
<1>2. \A p \in Participants : value'[p] = IF p \in S THEN v ELSE value[p]
  OBVIOUS
<1>3. pc[r] \in Uploading => Alone(r) /\ v # None
  BY RosterAssumption DEF HandOf, Base, Flow, FlowOf, UploadSteps, Uploading
<1>4. pc[r] \in Uploading => v = local[r].new
  OBVIOUS
<1>5. \A p \in people : value[p] \in K => p \in S
  BY DEF HandOf
<1>6. \A k \in K : k # v
  BY <1>1, <1>3, <1>4 DEF Alone, Holds
<1>7. \A p \in people' : value'[p] \notin K
  BY <1>1, <1>2, <1>5, <1>6
<1>8. Trades(r)
  <2>1. \A p \in people' : \/ value'[p] = value[p] /\ p \in people
                           \/ value'[p] = None
                           \/ pc[r] \in Uploading /\ value'[p] = local[r].new
    BY <1>1, <1>2
  <2>2. pc'[r] \in Holds => \A k \in local'[r].keys : pc[r] \in Holds /\ k \in local[r].keys
    BY DEF Holds
  <2> QED
    BY <2>1, <2>2 DEF Trades
<1>9. HandOf(r)'
  BY <1>7 DEF HandOf
<1>10. ASSUME NEW o \in objects' PROVE Explained(o)'
  <2>1. o # None /\ o \in objects
    BY <1>1, <1>10, RosterAssumption
  <2>2. CASE pc[r] \in Uploading /\ o = local[r].new
    BY <1>1, <1>2, <1>4, <2>2 DEF Explained
  <2>3. CASE \E p \in people \ S : value[p] = o
    <3>1. PICK p \in people \ S : value[p] = o
      BY <2>3
    <3>2. p \in people' /\ value'[p] = o
      BY <1>1, <1>2, <3>1
    <3> QED
      BY <3>2 DEF Explained
  <2>4. CASE \E p \in S : value[p] = o
    <3>1. o \in KeysOf(S)
      BY <2>1, <2>4, KeysAre DEF Base
    <3>2. CASE o \in K
      BY <3>2 DEF Explained
    <3>3. CASE o \notin K
      BY <3>1, <3>3 DEF Explained
    <3> QED
      BY <3>2, <3>3
  <2>5. CASE ~(pc[r] \in Uploading /\ o = local[r].new) /\ ~\E p \in people : value[p] = o
    BY <2>1, <2>5, ExplainedStays DEF HasRead, Dropping
  <2> QED
    BY <1>1, <2>2, <2>3, <2>4, <2>5
<1>11. \A p \in people' : value'[p] # None => value'[p] \in objects'
  BY <1>1, <1>2, <1>3 DEF FileRows, Alone
<1>12. \A p, q \in people' : value'[p] = value'[q] /\ value'[p] # None => p = q
  <2> SUFFICES ASSUME NEW p \in people', NEW q \in people', value'[p] = value'[q], value'[p] # None
               PROVE  p = q
    OBVIOUS
  <2>1. p \in people /\ q \in people /\ p \in Participants /\ q \in Participants
    BY <1>1
  <2>2. CASE p \notin S /\ q \notin S
    BY <1>2, <2>1, <2>2 DEF FileRows
  <2>3. CASE p \in S \/ q \in S
    <3>1. pc[r] \in Uploading /\ v = local[r].new /\ \E a \in people : S = {a}
      BY <1>2, <2>1, <2>3
    <3>2. \A a \in people : value[a] # v
      BY <1>3, <3>1 DEF Alone
    <3> QED
      BY <1>2, <2>1, <2>3, <3>1, <3>2
  <2> QED
    BY <2>2, <2>3
<1>13. \A p \in Participants \ people' : value'[p] = None
  BY <1>1, <1>2 DEF FileRows
<1> QED
  BY <1>8, <1>9, <1>10, <1>11, <1>12, <1>13 DEF Keeps, FileRows

\* Objects that are nobody's go.
LEMMA KeepsDrop ==
    ASSUME Base, file, FileRows, NEW r \in Requests, HandOf(r), Moves(r), Grows, Drops(r)
    PROVE  Keeps(r)
<1>1. /\ pc[r] \in Dropping /\ UNCHANGED <<people, value>>
      /\ pc'[r] \notin Holds \cup Uploading
      /\ \E kept \in SUBSET local[r].keys :
           objects' = objects \ (local[r].keys \ kept) /\ lostKeys' = lostKeys \cup kept
  BY DropsAre DEF Base, Still, Stops, Holds, HasRead, Dropping, Uploading
<1>2. PICK kept \in SUBSET local[r].keys :
        objects' = objects \ (local[r].keys \ kept) /\ lostKeys' = lostKeys \cup kept
  BY <1>1
<1>3. \A p \in people : value[p] \notin local[r].keys
  BY <1>1 DEF HandOf
<1>4. Trades(r) /\ HandOf(r)'
  BY <1>1, <1>2 DEF Trades, HandOf, Holds
<1>5. ASSUME NEW o \in objects' PROVE Explained(o)'
  <2>1. CASE o \in kept
    BY <1>2, <2>1 DEF Explained
  <2>2. CASE o \notin kept
    <3>1. o \in objects /\ o \notin local[r].keys /\ pc[r] \notin Uploading
      BY <1>1, <1>2, <1>5, <2>2 DEF Dropping, Uploading
    <3> QED
      BY <1>1, <3>1, ExplainedStays
  <2> QED
    BY <2>1, <2>2
<1>6. FileRows'
  BY <1>1, <1>2, <1>3, <1>5 DEF FileRows
<1> QED
  BY <1>4, <1>6 DEF Keeps

\* Between, the listeners are told.
LEMMA KeepsTell ==
    ASSUME Base, file, FileRows, NEW r \in Requests, HandOf(r), Moves(r), Grows, RemoveTell(r)
    PROVE  Keeps(r)
<1>1. /\ pc[r] = "removeTell" /\ UNCHANGED <<people, value, objects, lostKeys>>
      /\ \/ Stops(r) /\ local[r].keys = {}
         \/ pc'[r] = "removeDrop" /\ local'[r] = local[r] /\ input'[r] = input[r]
  BY RemoveTellIs DEF Base, Goes, tables
<1>2. CASE pc'[r] = "removeDrop" /\ local'[r] = local[r] /\ input'[r] = input[r]
  BY <1>1, <1>2, KeepsOn DEF HasRead, Dropping, Uploading
<1>3. CASE Stops(r) /\ local[r].keys = {}
  <2>1. pc'[r] \notin Holds \cup Uploading /\ pc[r] \notin Uploading
    BY <1>1, <1>3 DEF Stops, Holds, HasRead, Dropping, Uploading
  <2>2. Trades(r) /\ HandOf(r)'
    BY <1>1, <2>1 DEF Trades, HandOf, Holds
  <2>3. \A o \in objects : Explained(o)'
    BY <1>1, <1>3, <2>1, ExplainedStays
  <2>4. FileRows'
    BY <1>1, <2>3 DEF FileRows
  <2> QED
    BY <2>2, <2>4 DEF Keeps
<1> QED
  BY <1>1, <1>2, <1>3

\* Both ways to write a file.
LEMMA KeepsValue ==
    ASSUME Base, file, FileRows, NEW r \in Requests, HandOf(r), Moves(r), Grows, Writes(r)
    PROVE  Keeps(r)
<1> DEFINE S == In(r).people  K == local[r].keys  v == Wanted(r)
<1>1. Still /\ objects' = objects /\ pc[r] \in Writing
  BY WritesAre DEF Base
<1>2. S \in SUBSET Participants /\ K \in SUBSET Keys
  BY DEF Base, Rows, TypeOK, In, Input, Locals
<1>3. CASE Stops(r)
  <2>1. value' = value /\ lostKeys' = lostKeys \cup ({local[r].new} \ {None})
    BY <1>3, WritesAre DEF Base, Stops, Written, ToTell
  <2>2. pc[r] \in Uploading => local[r].new \in Keys
    BY DEF Base, Flow, FlowOf, Uploading, UploadSteps
  <2>3. pc[r] \in Uploading => local[r].new \in lostKeys'
    BY <2>1, <2>2, RosterAssumption
  <2> QED
    BY <1>1, <1>3, <2>1, <2>3, KeepsRefused DEF Still, Writing, Dropping
<1>4. CASE ~Stops(r)
  <2>1. /\ S \subseteq people /\ local'[r] = local[r]
        /\ pc'[r] \in Written /\ (K # {} => pc'[r] \in Dropping)
        /\ value' = [p \in Participants |-> IF p \in S THEN v ELSE value[p]]
        /\ lostKeys' = lostKeys \cup (KeysOf(S) \ K)
    BY <1>4, WritesAre DEF Base
  <2>2. pc[r] \in HasRead /\ pc'[r] \notin HasRead \cup Uploading
    BY <1>1, <2>1 DEF Writing, Written, ToTell, HasRead, Uploading
  <2>3. CASE pc[r] = "bulkWrite"
    <3>1. v = None /\ pc[r] \notin Uploading
      BY <2>3 DEF Base, Flow, FlowOf, BulkSteps, Wanted, Uploading
    <3> HIDE DEF S, K, v
    <3>2. people' = people /\ S = In(r).people /\ K = local[r].keys
      BY <1>1 DEF Still, S, K
    <3> QED
      BY <1>1, <1>2, <2>1, <2>2, <3>1, <3>2, KeepsWrite
  <2>4. CASE pc[r] = "uploadWrite"
    <3>1. /\ v = local[r].new /\ pc[r] \in Uploading /\ \E p \in Participants : S = {p}
      BY <2>4, RosterAssumption DEF Base, Flow, FlowOf, UploadSteps, Wanted, Uploading
    <3>2. \E p \in people : S = {p}
      BY <2>1, <3>1
    <3> HIDE DEF S, K, v
    <3>3. people' = people /\ S = In(r).people /\ K = local[r].keys
      BY <1>1 DEF Still, S, K
    <3>4. v = local[r].new /\ pc[r] \in Uploading /\ people' = people /\ \E p \in people : S = {p}
      BY <3>1, <3>2, <3>3
    <3> QED
      BY <1>1, <1>2, <2>1, <2>2, <3>3, <3>4, KeepsWrite
  <2> QED
    BY <1>1, <2>3, <2>4 DEF Writing
<1> QED
  BY <1>3, <1>4

\* Participants go with their rows.
LEMMA KeepsRemove ==
    ASSUME Base, file, FileRows, NEW r \in Requests, HandOf(r), Moves(r), Grows, RemoveRows(r)
    PROVE  Keeps(r)
<1> DEFINE S == In(r).people  K == local[r].keys
<1>1. pc[r] = "removeRows" /\ objects' = objects
  BY RemoveRowsIs DEF Base
<1>2. S \in SUBSET Participants /\ K \in SUBSET Keys
  BY DEF Base, Rows, TypeOK, In, Input, Locals
<1>3. CASE Stops(r)
  <2>1. UNCHANGED <<people, value, lostKeys>>
    BY <1>3, RemoveRowsIs DEF Base, Stops, Goes
  <2> QED
    BY <1>1, <1>3, <2>1, KeepsRefused DEF Dropping, Uploading
<1>4. CASE ~Stops(r)
  <2>1. /\ pc'[r] = "removeTell" /\ local'[r] = local[r] /\ people' = people \ S
        /\ value' = [p \in Participants |-> IF p \in S THEN None ELSE value[p]]
        /\ lostKeys' = lostKeys \cup (KeysOf(S) \ K)
    BY <1>4, RemoveRowsIs DEF Base, Goes
  <2>2. /\ pc[r] \in HasRead /\ pc'[r] \notin HasRead \cup Uploading
        /\ pc[r] \notin Uploading /\ pc'[r] \in Dropping
    BY <1>1, <2>1 DEF HasRead, Uploading, Dropping
  <2> HIDE DEF S, K
  <2>3. S = In(r).people /\ K = local[r].keys /\ people' \subseteq people /\ people \ people' \subseteq S
    BY <2>1 DEF S, K
  <2> QED
    BY <1>1, <1>2, <2>1, <2>2, <2>3, KeepsWrite
<1> QED
  BY <1>3, <1>4

\* All steps of a request, for the files.
LEMMA FilesStep ==
    ASSUME Base, FilesInv, NEW r \in Requests, Acts(r)
    PROVE  FilesInv'
<1>1. Moves(r) /\ Grows
  BY BaseStep
<1>2. SUFFICES ASSUME file PROVE Keeps(r)
  BY <1>1, TradeSteps DEF Keeps
<1>3. FileRows /\ HandOf(r)
  BY <1>2 DEF FilesInv
<1>4. ASSUME people \subseteq people', UNCHANGED <<value, objects, lostKeys>>,
             pc[r] \notin Holds \cup Uploading, pc'[r] \notin Holds \cup Uploading
      PROVE  Keeps(r)
  BY <1>1, <1>2, <1>3, <1>4, KeepsAside
<1> DEFINE Apart == pc[r] \notin Holds \cup Uploading /\ pc'[r] \notin Holds \cup Uploading
<1>5. ASSUME \/ \E in \in Inputs[r] : Begin(r, in)
             \/ ImportRead(r) \/ ImportEnd(r) \/ BulkCheck(r)
      PROVE  Keeps(r)
  <2>1. UNCHANGED <<people, value, objects, lostKeys>> /\ Apart
    BY <1>5, BeginIs, ImportReadIs, ImportEndIs, BulkCheckIs
       DEF Base, tables, Holds, HasRead, Dropping, Uploading, Goes, Stops, Ops
  <2> QED
    BY <1>4, <2>1
<1>6. CASE Announce(r) \/ ImportTell(r) \/ Changes(r) \/ Update(r)
  <2>1. UNCHANGED <<people, value, objects, lostKeys>> /\ Apart
    BY <1>6, TellIs, ChangesAre, UpdateIs
       DEF Base, tables, SameFiles, Holds, HasRead, Dropping, Uploading, ToTell, Goes, Stops
  <2> QED
    BY <1>4, <2>1
<1>7. CASE Register(r) \/ ImportItem(r)
  <2>1. UNCHANGED <<value, objects, lostKeys>> /\ Apart
    BY <1>7, RegisterIs, ImportItemIs
       DEF Base, SameFiles, Holds, HasRead, Dropping, Uploading, Goes, Stops
  <2>2. people \subseteq people'
    BY <1>7, Inserts
  <2> QED
    BY <1>4, <2>1, <2>2
<1>8. CASE RemoveRead(r) /\ Stops(r)
  <2>1. UNCHANGED <<people, value, objects, lostKeys>> /\ Apart
    BY <1>8, RemoveReadIs DEF Base, tables, Holds, HasRead, Dropping, Uploading, Stops
  <2> QED
    BY <1>4, <2>1
<1> HIDE DEF Apart
<1>9. CASE BulkRead(r)
  <2>1. /\ UNCHANGED <<people, value, objects, lostKeys>> /\ input'[r] = input[r]
        /\ pc[r] \notin Holds \cup Uploading /\ pc'[r] \in HasRead \ Uploading
        /\ local'[r].keys = KeysOf(In(r).people)
    BY <1>9, BulkReadIs DEF Base, tables, Holds, HasRead, Dropping, Uploading, Goes
  <2>2. In(r).people \in SUBSET In(r).people
    OBVIOUS
  <2> QED
    BY <1>1, <1>2, <1>3, <2>1, <2>2, KeepsRead
<1>10. CASE RemoveRead(r) /\ ~Stops(r)
  <2>1. /\ UNCHANGED <<people, value, objects, lostKeys>> /\ input'[r] = input[r]
        /\ pc[r] \notin Holds \cup Uploading /\ pc'[r] \in HasRead \ Uploading
        /\ local'[r].keys = KeysOf(In(r).people \cap people)
    BY <1>10, RemoveReadIs DEF Base, tables, Holds, HasRead, Dropping, Uploading, Goes
  <2>2. In(r).people \cap people \in SUBSET In(r).people
    OBVIOUS
  <2> QED
    BY <1>1, <1>2, <1>3, <2>1, <2>2, KeepsRead
<1>11. CASE UploadRead(r) /\ ~Stops(r)
  <2>1. /\ UNCHANGED <<people, value, objects, lostKeys>> /\ input'[r] = input[r]
        /\ pc[r] \in Uploading \ Holds /\ pc'[r] \in HasRead \cap Uploading
        /\ local'[r].keys = KeysOf(In(r).people) /\ local'[r].new = local[r].new
    BY <1>11, UploadReadIs DEF Base, tables, Holds, HasRead, Dropping, Uploading, Goes
  <2>2. In(r).people \in SUBSET In(r).people
    OBVIOUS
  <2> QED
    BY <1>1, <1>2, <1>3, <2>1, <2>2, KeepsRead
<1>12. CASE UploadRead(r) /\ Stops(r)
  <2>1. /\ UNCHANGED <<people, value, objects>> /\ pc[r] = "uploadRead"
        /\ local[r].new \in lostKeys'
    BY <1>12, UploadReadIs DEF Base, tables, Goes, Stops
  <2> QED
    BY <1>1, <1>2, <1>3, <1>12, <2>1, KeepsRefused DEF Dropping
<1>13. CASE Clears(r)
  <2>1. /\ UNCHANGED <<people, value, objects, lostKeys>> /\ input'[r] = input[r]
        /\ local'[r].keys = local[r].keys /\ local'[r].new = local[r].new
        /\ \/ pc[r] = "bulkClear" /\ pc'[r] = "bulkWrite"
           \/ pc[r] = "uploadClear" /\ pc'[r] = "uploadWrite"
    BY <1>13, ClearsAre DEF Base, tables, Goes
  <2>2. /\ pc[r] \in HasRead <=> pc'[r] \in HasRead
        /\ pc[r] \in Dropping <=> pc'[r] \in Dropping
        /\ pc[r] \in Uploading <=> pc'[r] \in Uploading
    BY <2>1 DEF HasRead, Dropping, Uploading
  <2> QED
    BY <1>1, <1>2, <1>3, <2>1, <2>2, KeepsOn
<1>14. CASE UploadKey(r)
  BY <1>1, <1>2, <1>3, <1>14, KeepsKey
<1>15. CASE Writes(r)
  BY <1>1, <1>2, <1>3, <1>15, KeepsValue
<1>16. CASE Drops(r)
  BY <1>1, <1>2, <1>3, <1>16, KeepsDrop
<1>17. CASE RemoveRows(r)
  BY <1>1, <1>2, <1>3, <1>17, KeepsRemove
<1>18. CASE RemoveTell(r)
  BY <1>1, <1>2, <1>3, <1>18, KeepsTell
<1> QED
  BY <1>5, <1>6, <1>7, <1>8, <1>9, <1>10, <1>11, <1>12, <1>13, <1>14, <1>15, <1>16, <1>17, <1>18
     DEF Acts

\* What is promised of files follows.
LEMMA FilesSay ==
    ASSUME FilesInv
    PROVE  FilesExplained
<1> SUFFICES ASSUME file
             PROVE  /\ \A p \in people : value[p] # None => value[p] \in objects
                    /\ objects \subseteq {value[p] : p \in people} \cup InHand \cup lostKeys
  BY DEF FilesExplained
<1>1. FileRows
  BY DEF FilesInv
<1>2. \A k \in objects : k \in {value[p] : p \in people} \cup InHand \cup lostKeys
  <2> TAKE k \in objects
  <2>1. Explained(k)
    BY <1>1 DEF FileRows
  <2>2. ASSUME NEW r \in Requests, pc[r] \in Dropping, k \in local[r].keys PROVE k \in InHand
    BY <2>2 DEF InHand, At, Dropping
  <2>3. ASSUME NEW r \in Requests, pc[r] \in Uploading, local[r].new = k PROVE k \in InHand
    BY <2>3 DEF InHand, At, Uploading
  <2> QED
    BY <2>1, <2>2, <2>3 DEF Explained
<1> QED
  BY <1>1, <1>2 DEF FileRows

-----------------------------------------------------------------------------
(* The theorems.                                                           *)

RosterInv == Base /\ ImportInv /\ NoticeInv /\ FilesInv

\* Nothing that the invariant is about changes: for stuttering.
LEMMA Stutters ==
    ASSUME RosterInv, UNCHANGED vars
    PROVE  RosterInv'
<1> USE DEF vars, tables, requests, past, notices
<1>1. Base'
  <2>1. Rows'
    BY DEF RosterInv, Base, Rows, TypeOK
  <2>2. Flow'
    BY DEF RosterInv, Base, Flow, FlowOf, In
  <2> QED
    BY <2>1, <2>2 DEF Base
<1>2. ImportInv'
  BY DEF RosterInv, ImportInv, ImportOf, Settled, Known, Valid, Item, Duplicate, Address, In
<1>3. NoticeInv'
  BY DEF RosterInv, NoticeInv, NewsOf, RegisteredOf, DeletedOf, ChangedInv, Telling, Removing, First, Wanted,
         In
<1>4. FilesInv'
  BY DEF RosterInv, FilesInv, FileRows, HandOf, Alone, Explained, In
<1> QED
  BY <1>1, <1>2, <1>3, <1>4 DEF RosterInv

\* It holds at the start.
LEMMA Starts ==
    ASSUME Init
    PROVE  RosterInv
<1>1. PICK s \in Start :
        /\ people = s.people /\ used = s.people /\ email = s.email
        /\ value = [p \in Participants |-> IF file THEN s.key[p] ELSE None]
        /\ objects = {value[p] : p \in s.people} \ {None}
        /\ addresses = {email[p] : p \in people}
  BY DEF Init
<1>2. /\ s.people \subseteq Participants
      /\ s.email \in [Participants -> Emails \cup {None}]
      /\ s.key \in [Participants -> Keys \cup {None}]
      /\ \A p \in s.people : s.email[p] # None
      /\ \A p \in Participants \ s.people : s.key[p] = None
      /\ \A p, q \in s.people : s.email[p] = s.email[q] => p = q
      /\ \A p, q \in s.people : s.key[p] # None /\ s.key[p] = s.key[q] => p = q
      /\ \A t \in Start : t.people = s.people
  BY StartAssumption
<1>3. /\ file \in BOOLEAN /\ held = [p \in Participants |-> {value[p]}]
      /\ pc = [r \in Requests |-> "idle"] /\ input = [r \in Requests |-> Nothing]
      /\ local = [r \in Requests |-> Fresh]
      /\ registered = [p \in Participants |-> 0] /\ deleted = [p \in Participants |-> 0]
      /\ changed = {} /\ raced = {} /\ lostKeys = {}
  BY DEF Init
<1>4. Nothing \in Input /\ Fresh \in Locals /\ Fresh.outcome = << >> /\ Fresh.keys = {} /\ Fresh.seen = {}
      /\ Fresh.new = None
  BY DEF Nothing, Input, Ops, Fresh, Locals
<1>5. value \in [Participants -> Keys \cup {None}]
  BY <1>1, <1>2
<1>6. Rows
  <2>1. objects \subseteq Keys
    BY <1>1, <1>2, <1>5
  <2>2. \A p, q \in people : email[p] = email[q] => p = q
    BY <1>1, <1>2
  <2>3. /\ pc \in [Requests -> Steps] /\ input \in [Requests -> Input]
        /\ local \in [Requests -> Locals]
    BY <1>3, <1>4 DEF Steps
  <2>4. \A r \in Requests : local[r].outcome \in Seq(Reasons) /\ local[r].keys \subseteq Keys
                              /\ local[r].new \in Keys \cup {None}
    BY <1>3, <1>4 DEF Locals
  <2>5. TypeOK
    BY <1>1, <1>2, <1>3, <1>5, <2>1, <2>2, <2>3, <2>4 DEF TypeOK
  <2>6. held \in [Participants -> SUBSET Values]
    BY <1>3, <1>5 DEF Values
  <2> QED
    BY <1>1, <1>2, <1>3, <1>5, <2>3, <2>5, <2>6 DEF Rows
<1>7. Flow
  BY <1>3, <1>4 DEF Flow, FlowOf, Ops, BulkSteps, UploadSteps
<1>8. ImportInv
  BY <1>3 DEF ImportInv, ImportOf
<1>9. NoticeInv
  <2>1. \A p : Telling(p) = {} /\ Removing(p) = {}
    BY <1>3 DEF Telling, Removing, Tells
  <2>2. \A p : First(p) <=> p \in used
    BY <1>1, <1>2 DEF First
  <2>3. \A p \in Participants : RegisteredOf(p)
    BY <1>3, <2>1, <2>2, FS_EmptySet DEF RegisteredOf
  <2>4. \A p \in Participants : DeletedOf(p)
    BY <1>1, <1>3, <2>1 DEF DeletedOf
  <2>5. \A r \in Requests : NewsOf(r)
    BY <1>3 DEF NewsOf, Tells, Written, ToTell
  <2> QED
    BY <1>3, <2>3, <2>4, <2>5 DEF NoticeInv, ChangedInv
<1>10. FilesInv
  <2> SUFFICES ASSUME file PROVE FileRows /\ \A r \in Requests : HandOf(r)
    BY DEF FilesInv
  <2>1. value = s.key
    BY <1>1, <1>2
  <2>2. FileRows
    BY <1>1, <1>2, <2>1 DEF FileRows, Explained
  <2>3. \A r \in Requests : HandOf(r)
    BY <1>3 DEF HandOf, HasRead, Dropping, Uploading
  <2> QED
    BY <2>2, <2>3
<1> QED
  BY <1>6, <1>7, <1>8, <1>9, <1>10 DEF RosterInv, Base

\* The invariant that the promises rest on.
THEOREM RosterInvariant == Spec => []RosterInv
<1>1. Init => RosterInv
  BY Starts
<1>2. RosterInv /\ [Next]_vars => RosterInv'
  <2> SUFFICES ASSUME RosterInv, [Next]_vars PROVE RosterInv'
    OBVIOUS
  <2>1. CASE UNCHANGED vars
    BY <2>1, Stutters
  <2>2. CASE Next
    <3>1. PICK r \in Requests : Acts(r)
      BY <2>2 DEF Next, Acts, Clears, Writes, Drops, Changes
    <3> QED
      BY <3>1, BaseStep, ImportStep, NoticeStep, FilesStep DEF RosterInv
  <2> QED
    BY <2>1, <2>2
<1> QED
  BY <1>1, <1>2, PTL DEF Spec

\* Rows, addresses and what requests carry are of their types, and an address is
\* a participant's once, whatever requests do at once.
THEOREM RosterTypes == Spec => []TypeOK
<1>1. RosterInv => TypeOK
  BY DEF RosterInv, Base, Rows
<1> QED
  BY <1>1, RosterInvariant, PTL

\* What an import that has ended answers is true: an item that is imported or
\* exists has, or had, its participant, one item of an address at most is
\* imported, and a duplicate comes after an item that was tried.
THEOREM ImportsAccount == Spec => []ImportAccounts
<1>1. RosterInv => ImportAccounts
  BY ImportSays DEF RosterInv, Base
<1> QED
  BY <1>1, RosterInvariant, PTL

\* PARTICIPANT_REGISTERED, PARTICIPANT_DELETED and ATTRIBUTE_CHANGED tell of what
\* happened, and of a registration once.
THEOREM NoticesAreTrue == Spec => []ToldTruly
<1>1. RosterInv => ToldTruly
  BY NoticesSay DEF RosterInv, Base
<1> QED
  BY <1>1, RosterInvariant, PTL

\* Every participant's file is there, and no object is left that neither a row
\* nor a request names, unless S3 refused to delete it, the upload was refused, or
\* its row was written after a request that deletes it had read it.
THEOREM FilesAreExplained == Spec => []FilesExplained
<1>1. RosterInv => FilesExplained
  BY FilesSay DEF RosterInv
<1> QED
  BY <1>1, RosterInvariant, PTL
=============================================================================
