-------------------------- MODULE Catalogue_proofs --------------------------
(***************************************************************************)
(* What holds of Catalogue for every number of attributes, blocks, tickets *)
(* and requests: types, one root per attribute, tickets on block           *)
(* attributes, and check-ins.                                              *)
(***************************************************************************)
EXTENDS Catalogue, FiniteSetTheorems, TLAPS

Locals == [type : Types \cup {None}, hasRoot : BOOLEAN, parent : Blocks \cup {None},
           shown : SUBSET Attrs, touched : SUBSET (Attrs \cup {None})]
Steps == Ops \cup {"idle", "done", "refused", "conflict", "attrTicket", "attrWrite", "attrRoot",
                   "attrCommit", "blockInsert", "blockMove", "blockDelete", "ticketShown",
                   "ticketInsert", "ticketClear", "ticketShow", "scanPerson", "scanCheckIn",
                   "admit"}

Rows ==
    /\ TypeOK
    /\ pc \in [Requests -> Steps]
    /\ local \in [Requests -> Locals]

\* What a request that is under way has found out, and what of it lasts.
Retyping == {"attrTicket", "attrWrite", "attrRoot", "attrCommit"}
Scanning == {"scanPerson", "scanCheckIn", "admit"}
FlowOf(r) ==
    /\ pc[r] \notin Ended \cup {"idle"} => In(r) \in Inputs[r]
    /\ pc[r] \in Ops => In(r).op = pc[r]
    /\ pc[r] \in Retyping => /\ In(r).op = "attrUpdate" /\ In(r).attr \in Attrs
                             /\ type[In(r).attr] # "none" /\ local[r].type \in Types
    /\ pc[r] = "blockInsert" => In(r).attr \in Attrs /\ type[In(r).attr] # "none"
    /\ pc[r] \in {"ticketShown", "ticketInsert"} => In(r).op = "ticketCreate"
    /\ pc[r] \in {"ticketClear", "ticketShow"} => In(r).ticket \in Tickets
    /\ pc[r] \in Scanning =>
         /\ In(r).op \in {"scan", "confirm"} /\ In(r).ticket \in issued
         /\ IF target[In(r).ticket] = None THEN In(r).block = None
            ELSE In(r).block \in Blocks /\ row[In(r).block].attr = target[In(r).ticket]
    /\ pc[r] \in Scanning \ {"scanPerson"} => In(r).person \in People \ Strangers
Flow == \A r \in Requests : FlowOf(r)

\* Blocks belong to attributes that were created; an attribute has one root; the
\* request that will insert one holds the attribute's row and has seen none.
RootInv ==
    /\ \A b \in blocks : row[b].attr # None /\ type[row[b].attr] # "none"
    /\ \A a \in Attrs : \A b, c \in Roots(a) : b = c
    /\ \A r \in Requests : pc[r] \in {"attrRoot", "attrCommit"} => lock[In(r).attr] = r
    /\ \A r \in Requests : pc[r] = "attrCommit" /\ Enters(r) /\ ~local[r].hasRoot =>
         Roots(In(r).attr) = {}

\* What a request about a ticket or a type read still holds, unless it was
\* touched.
Untouched(r) == In(r).attr \notin local[r].touched
SeenType(r) == pc[r] \in Retyping /\ Untouched(r) => local[r].type = type[In(r).attr]
SeenTickets(r) ==
    pc[r] \in Retyping \ {"attrTicket"} /\ local[r].type = "block"
      /\ In(r).type \notin {None, "block"} /\ Untouched(r)
    => \A t \in tickets : target[t] # In(r).attr
SeenBlock(r) ==
    /\ pc[r] \in {"ticketShown", "ticketInsert"} /\ In(r).attr # None =>
         In(r).attr \in Attrs /\ type[In(r).attr] # "none"
    /\ pc[r] \in {"ticketShown", "ticketInsert"} /\ In(r).attr # None /\ Untouched(r) =>
         type[In(r).attr] = "block"
TicketInv ==
    /\ TicketUnlessRaced
    /\ \A t \in tickets : target[t] # None => type[target[t]] # "none"
    /\ \A r \in Requests : SeenType(r) /\ SeenTickets(r) /\ SeenBlock(r)

\* A check-in is counted once, and stays until one of its three parts is gone
\* for good.
Over(c) == \/ c[1] \in issued \ tickets
           \/ c[2] \notin people
           \/ c[3] \in Blocks \ blocks /\ row[c[3]].attr # None
CheckInInv ==
    /\ CheckInConsistent
    /\ \A c \in checkIns : admitted[c] = 1
    /\ \A c \in Triples \ checkIns : admitted[c] = 0 \/ (admitted[c] = 1 /\ Over(c))
    /\ ConflictMeansAdmitted
    /\ \A r \in Requests :
         pc[r] = "conflict" /\ In(r).op \in {"scan", "confirm"} => Triple(r) \in Triples

\* Blocks hang under blocks of their attribute; those of an attribute hang below
\* its roots, unless one was put under its descendant.
Parented == \A b \in blocks : row[b].parent # None => row[b].parent \in BlocksOf(row[b].attr)
Rooted == \A a \in Attrs \ looped : BlocksOf(a) \subseteq Below(Roots(a))
Shaped(a) == type[a] # "gone" =>
    /\ config[a] = type[a]
    /\ (type[a] = "block") = (Roots(a) # {})
    /\ type[a] # "block" => BlocksOf(a) = {}

\* What a request found out about blocks, and what the row that it locked keeps.
Above(r) == IF In(r).op = "blockCreate" THEN In(r).parent ELSE local[r].parent
FoundOf(r) ==
    /\ pc[r] = "blockInsert" => Above(r) \in Blocks /\ row[Above(r)].attr = In(r).attr
    /\ pc[r] \in {"blockMove", "blockDelete"} =>
         /\ In(r).block \in Blocks
         /\ row[In(r).block].attr # None /\ row[In(r).block].parent # None
    /\ pc[r] = "blockMove" =>
         In(r).parent \in Blocks /\ row[In(r).parent].attr = row[In(r).block].attr
    /\ pc[r] \in {"attrRoot", "attrCommit"} => In(r).attr \in Present
    /\ pc[r] = "attrCommit" /\ Enters(r) /\ local[r].hasRoot => Roots(In(r).attr) # {}
TreeInv ==
    /\ Parented /\ Rooted
    /\ \A a \in Attrs \ raced : Shaped(a)
    /\ \A r \in Requests : FoundOf(r)

CatalogueInv == Rows /\ Flow /\ RootInv /\ TicketInv /\ CheckInInv /\ TreeInv

-----------------------------------------------------------------------------
(* The control.                                                            *)

\* What a step leaves of the other requests.
Same(q) ==
    /\ pc'[q] = pc[q] /\ input'[q] = input[q]
    /\ local'[q].type = local[q].type /\ local'[q].hasRoot = local[q].hasRoot
    /\ local'[q].parent = local[q].parent
    /\ local[q].touched \subseteq local'[q].touched
Moves(r) ==
    /\ pc' \in [Requests -> Steps]
    /\ input' \in [Requests -> Input]
    /\ local' \in [Requests -> Locals]
    /\ \A q \in Requests \ {r} : Same(q)
\* The others under way are told of an attribute that r wrote.
Touches(r, a) ==
    \A q \in Requests \ {r} : pc[q] \notin Ended \cup {"idle"} => a \in local'[q].touched

Ends(r) == pc'[r] \in {"done", "refused"}
Goes(r, next) == pc'[r] = next /\ input'[r] = input[r]

\* A step of r: its own next await, and what the others keep.
LEMMA StepIs ==
    ASSUME Rows, NEW r \in Requests, NEW next \in Steps, NEW l \in Locals,
           NEW written \in SUBSET (Attrs \cup {None}), Step(r, next, l, written)
    PROVE  /\ Moves(r) /\ pc'[r] = next
           /\ next \notin {"done", "refused"} => input'[r] = input[r]
           /\ next \notin Ended => local'[r] = l
           /\ \A a \in written : Touches(r, a)
<1>1. Nothing \in Input /\ Fresh \in Locals
  BY DEF Nothing, Input, Ops, Fresh, Locals
<1>2. input \in [Requests -> Input] /\ pc \in [Requests -> Steps] /\ local \in [Requests -> Locals]
  BY DEF Rows, TypeOK
<1>3. ASSUME NEW q \in Requests \ {r}
      PROVE  [local[q] EXCEPT !.touched = @ \cup written, !.shown = @ \ Renewed(r, next, q)] \in Locals
  <2>1. local[q] \in Locals
    BY <1>2
  <2>2. local[q].touched \cup written \subseteq Attrs \cup {None}
    BY <2>1 DEF Locals
  <2>3. local[q].shown \ Renewed(r, next, q) \subseteq Attrs
    BY <2>1 DEF Locals
  <2> QED
    BY <2>1, <2>2, <2>3 DEF Locals
<1>4. local' \in [Requests -> Locals]
  BY <1>1, <1>2, <1>3 DEF Step
<1>5. ASSUME NEW q \in Requests \ {r}
      PROVE  /\ Same(q)
             /\ pc[q] \notin Ended \cup {"idle"} => written \subseteq local'[q].touched
  <2>1. pc'[q] = pc[q] /\ input'[q] = input[q] /\ local[q] \in Locals
    BY <1>2 DEF Step
  <2>2. local'[q] = IF q \in InFlight
                    THEN [local[q] EXCEPT !.touched = @ \cup written,
                                          !.shown = @ \ Renewed(r, next, q)]
                    ELSE local[q]
    BY DEF Step
  <2>3. CASE q \in InFlight
    <3>1. local'[q] = [local[q] EXCEPT !.touched = @ \cup written, !.shown = @ \ Renewed(r, next, q)]
      BY <2>2, <2>3
    <3> QED
      BY <2>1, <3>1 DEF Same, Locals
  <2>4. CASE q \notin InFlight
    BY <2>1, <2>2, <2>4 DEF Same, InFlight
  <2> QED
    BY <2>3, <2>4
<1>6. pc' \in [Requests -> Steps] /\ pc'[r] = next /\ input' \in [Requests -> Input]
  BY <1>1, <1>2 DEF Step
<1>7. /\ next \notin {"done", "refused"} => input'[r] = input[r]
      /\ next \notin Ended => local'[r] = l
  BY <1>2 DEF Step
<1> QED
  BY <1>4, <1>5, <1>6, <1>7 DEF Moves, Touches

\* The same for a request that only goes on, or ends.
LEMMA GotoIs ==
    ASSUME Rows, NEW r \in Requests, NEW next \in Steps, Goto(r, next) \/ End(r, next)
    PROVE  /\ Moves(r) /\ pc'[r] = next
           /\ next \notin {"done", "refused"} => input'[r] = input[r]
           /\ next \notin Ended => local'[r] = local[r]
<1>1. local[r] \in Locals
  BY DEF Rows
<1> QED
  BY <1>1, StepIs DEF Goto, End

\* The end of a request that is done.
LEMMA EndIs ==
    ASSUME Rows, NEW r \in Requests, NEW next \in {"done", "refused"},
           Goto(r, next) \/ End(r, next)
    PROVE  Moves(r) /\ Ends(r)
BY GotoIs DEF Ends, Steps

\* The end of a request that wrote an attribute.
LEMMA WriteIs ==
    ASSUME Rows, NEW r \in Requests, NEW written \in SUBSET (Attrs \cup {None}),
           Step(r, "done", local[r], written)
    PROVE  Moves(r) /\ Ends(r) /\ \A a \in written : Touches(r, a)
<1>1. local[r] \in Locals /\ "done" \in Steps
  BY DEF Rows, Steps
<1> QED
  BY <1>1, StepIs DEF Ends

\* A request begins with an input it may have.
LEMMA BeginMoves ==
    ASSUME Rows, NEW r \in Requests, NEW in \in Inputs[r], Begin(r, in)
    PROVE  /\ Moves(r) /\ OnlyReads /\ pc'[r] = in.op /\ input'[r] = in /\ in.op \in Ops
<1>1. in \in Input
  BY CatalogueAssumption
<1>2. in.op \in Steps /\ in.op \in Ops
  BY <1>1 DEF Input, Steps
<1>3. input \in [Requests -> Input] /\ pc \in [Requests -> Steps] /\ local \in [Requests -> Locals]
  BY DEF Rows, TypeOK
<1> QED
  BY <1>1, <1>2, <1>3 DEF Begin, Moves, Same, OnlyReads

\* updateTx remembers the type it reads; only a change away from block looks at
\* the tickets.
LEMMA AttrReadMoves ==
    ASSUME Rows, NEW r \in Requests, AttrRead(r)
    PROVE  /\ Moves(r) /\ OnlyReads /\ pc[r] = "attrUpdate"
           /\ Ends(r) \/ ( /\ Goes(r, "attrTicket") \/ Goes(r, "attrWrite")
                           /\ In(r).attr \in Present
                           /\ local'[r].type = type[In(r).attr]
                           /\ pc'[r] = "attrWrite" /\ local'[r].type = "block" =>
                                In(r).type \in {None, "block"} )
<1>1. OnlyReads /\ pc[r] = "attrUpdate"
  BY DEF AttrRead
<1>2. CASE In(r).attr \in Present
  <2> DEFINE found == [local[r] EXCEPT !.type = type[In(r).attr]]
             next == IF found.type = "block" /\ In(r).type \notin {None, "block"}
                     THEN "attrTicket" ELSE "attrWrite"
  <2>1. Step(r, next, found, {})
    BY <1>2 DEF AttrRead
  <2>2. type[In(r).attr] \in Types /\ local[r] \in Locals
    BY <1>2 DEF Present, Rows
  <2>3. found \in Locals /\ found.type = type[In(r).attr]
    BY <2>2 DEF Locals
  <2>4. /\ next \in {"attrTicket", "attrWrite"} /\ next \in Steps
        /\ next = "attrWrite" /\ found.type = "block" => In(r).type \in {None, "block"}
    BY DEF Steps
  <2> HIDE DEF found, next
  <2>5. Moves(r) /\ pc'[r] = next /\ input'[r] = input[r] /\ local'[r] = found
    BY <2>1, <2>3, <2>4, StepIs DEF Ended
  <2> QED
    BY <1>1, <1>2, <2>3, <2>4, <2>5 DEF Goes
<1>3. CASE In(r).attr \notin Present
  <2>1. End(r, "refused")
    BY <1>3 DEF AttrRead
  <2> QED
    BY <1>1, <2>1, EndIs
<1> QED
  BY <1>2, <1>3

\* The ticket of the attribute is a conflict.
LEMMA AttrTicketMoves ==
    ASSUME Rows, NEW r \in Requests, AttrTicket(r)
    PROVE  /\ Moves(r) /\ OnlyReads /\ pc[r] = "attrTicket"
           /\ \/ Goes(r, "conflict")
              \/ /\ Goes(r, "attrWrite") /\ local'[r] = local[r]
                 /\ \A t \in tickets : target[t] # In(r).attr
<1>1. OnlyReads /\ pc[r] = "attrTicket"
  BY DEF AttrTicket
<1>2. CASE \E t \in tickets : target[t] = In(r).attr
  <2>1. End(r, "conflict") /\ "conflict" \in Steps
    BY <1>2 DEF AttrTicket, Steps
  <2> QED
    BY <1>1, <2>1, GotoIs DEF Goes
<1>3. CASE ~\E t \in tickets : target[t] = In(r).attr
  <2>1. Goto(r, "attrWrite") /\ "attrWrite" \in Steps
    BY <1>3 DEF AttrTicket, Steps
  <2> QED
    BY <1>1, <1>3, <2>1, GotoIs DEF Goes, Ended
<1> QED
  BY <1>2, <1>3

\* ensureRootBlock remembers whether there is a root.
LEMMA AttrRootMoves ==
    ASSUME Rows, NEW r \in Requests, AttrRoot(r)
    PROVE  /\ Moves(r) /\ OnlyReads /\ pc[r] = "attrRoot" /\ Goes(r, "attrCommit")
           /\ local'[r].type = local[r].type /\ local'[r].touched = local[r].touched
           /\ local'[r].hasRoot = (Roots(In(r).attr) # {})
<1> DEFINE l == [local[r] EXCEPT !.hasRoot = Roots(In(r).attr) # {}]
<1>1. OnlyReads /\ pc[r] = "attrRoot" /\ Step(r, "attrCommit", l, {})
  BY DEF AttrRoot
<1>2. local[r] \in Locals
  BY DEF Rows
<1>3. /\ l \in Locals /\ l.type = local[r].type /\ l.touched = local[r].touched
      /\ l.hasRoot = (Roots(In(r).attr) # {})
  BY <1>2 DEF Locals
<1>4. "attrCommit" \in Steps
  BY DEF Steps
<1> HIDE DEF l
<1> QED
  BY <1>1, <1>3, <1>4, StepIs DEF Goes, Ended

\* create and duplicate of a block go on for an attribute that was created.
LEMMA BlockReadMoves ==
    ASSUME Rows, NEW r \in Requests, BlockCreate(r) \/ BlockDuplicate(r)
    PROVE  /\ Moves(r) /\ OnlyReads /\ pc[r] \in {"blockCreate", "blockDuplicate"}
           /\ Ends(r) \/ ( /\ Goes(r, "blockInsert")
                           /\ In(r).attr \in Present \/ BlocksOf(In(r).attr) # {} )
<1>1. CASE BlockCreate(r)
  <2> DEFINE next == IF In(r).attr \in Present /\ In(r).parent \in BlocksOf(In(r).attr)
                     THEN "blockInsert" ELSE "refused"
  <2>1. OnlyReads /\ pc[r] = "blockCreate" /\ Goto(r, next)
    BY <1>1 DEF BlockCreate
  <2>2. /\ next \in {"blockInsert", "refused"} /\ next \in Steps
        /\ next = "blockInsert" => In(r).attr \in Present
    BY DEF Steps
  <2> HIDE DEF next
  <2> QED
    BY <2>1, <2>2, GotoIs DEF Ends, Goes
<1>2. CASE BlockDuplicate(r)
  <2> DEFINE b == In(r).block
             l == [local[r] EXCEPT !.parent = row[b].parent]
  <2>1. OnlyReads /\ pc[r] = "blockDuplicate"
    BY <1>2 DEF BlockDuplicate
  <2>2. CASE b \in BlocksOf(In(r).attr) /\ ~IsRoot(b)
    <3>1. Step(r, "blockInsert", l, {})
      BY <1>2, <2>2 DEF BlockDuplicate
    <3>2. row[b].parent \in Blocks \cup {None} /\ local[r] \in Locals
      BY <2>2 DEF BlocksOf, Rows, TypeOK, BlockRow
    <3>3. l \in Locals /\ "blockInsert" \in Steps
      BY <3>2 DEF Locals, Steps
    <3> HIDE DEF l
    <3> QED
      BY <2>1, <2>2, <3>1, <3>3, StepIs DEF Goes
  <2>3. CASE ~(b \in BlocksOf(In(r).attr) /\ ~IsRoot(b))
    <3>1. End(r, "refused")
      BY <1>2, <2>3 DEF BlockDuplicate
    <3> QED
      BY <2>1, <3>1, EndIs
  <2> QED
    BY <2>2, <2>3
<1> QED
  BY <1>1, <1>2

\* update and remove of a block look for it first.
LEMMA BlockFindMoves ==
    ASSUME Rows, NEW r \in Requests, BlockUpdate(r) \/ BlockFind(r)
    PROVE  /\ Moves(r) /\ OnlyReads
           /\ Ends(r) \/ Goes(r, "blockMove") \/ Goes(r, "blockDelete")
<1>1. PICK next \in {"blockMove", "blockDelete", "refused"} : Goto(r, next)
  BY DEF BlockUpdate, BlockFind
<1>2. OnlyReads /\ next \in Steps
  BY DEF BlockUpdate, BlockFind, Steps
<1> QED
  BY <1>1, <1>2, GotoIs DEF Ends, Goes

\* A new ticket: its attribute, if it has one, is of type block.
LEMMA TicketTargetMoves ==
    ASSUME Rows, NEW r \in Requests, TicketTarget(r)
    PROVE  /\ Moves(r) /\ OnlyReads /\ pc[r] = "ticketCreate"
           /\ Ends(r) \/ ( /\ Goes(r, "ticketShown")
                           /\ In(r).attr # None =>
                                In(r).attr \in Present /\ type[In(r).attr] = "block" )
<1> DEFINE bad == In(r).attr # None /\ (In(r).attr \notin Present \/ type[In(r).attr] # "block")
           next == IF bad THEN "refused" ELSE "ticketShown"
<1>1. OnlyReads /\ pc[r] = "ticketCreate" /\ Goto(r, next)
  BY DEF TicketTarget
<1>2. next \in {"refused", "ticketShown"} /\ next \in Steps /\ (next = "ticketShown" => ~bad)
  BY DEF Steps
<1>3. ~bad => (In(r).attr # None => In(r).attr \in Present /\ type[In(r).attr] = "block")
  OBVIOUS
<1> HIDE DEF bad, next
<1> QED
  BY <1>1, <1>2, <1>3, GotoIs DEF Ends, Goes

\* Both requests about tickets check what is shown; update finds its ticket.
LEMMA TicketShownMoves ==
    ASSUME Rows, NEW r \in Requests, TicketShown(r)
    PROVE  /\ Moves(r) /\ OnlyReads /\ pc[r] \in {"ticketShown", "ticketUpdate"}
           /\ \/ Ends(r)
              \/ /\ Goes(r, "ticketClear") /\ In(r).op = "ticketUpdate"
                 /\ In(r).ticket \in Tickets
              \/ /\ Goes(r, "ticketInsert") /\ In(r).op # "ticketUpdate"
                 /\ local'[r] = local[r]
<1>1. OnlyReads /\ pc[r] \in {"ticketShown", "ticketUpdate"}
  BY DEF TicketShown
<1>2. PICK next \in {"refused", "ticketClear", "ticketInsert"} :
        /\ Goto(r, next)
        /\ next = "ticketClear" => In(r).op = "ticketUpdate" /\ In(r).ticket \in tickets
        /\ next = "ticketInsert" => In(r).op # "ticketUpdate"
  BY DEF TicketShown
<1>3. next \in Steps /\ tickets \subseteq Tickets
  BY DEF Steps, Rows, TypeOK
<1> QED
  BY <1>1, <1>2, <1>3, GotoIs DEF Ends, Goes, Ended

\* An update of a ticket has seen what is shown.
LEMMA TicketClearMoves ==
    ASSUME Rows, Flow, NEW r \in Requests, TicketClear(r)
    PROVE  Moves(r) /\ OnlyReads /\ pc[r] = "ticketClear" /\ Goes(r, "ticketShow")
<1> DEFINE l == [local[r] EXCEPT !.shown = shown[In(r).ticket]]
<1>1. OnlyReads /\ pc[r] = "ticketClear" /\ Step(r, "ticketShow", l, {})
  BY DEF TicketClear
<1>2. local[r] \in Locals /\ shown[In(r).ticket] \subseteq Attrs
  BY <1>1 DEF Rows, TypeOK, Flow, FlowOf
<1>3. l \in Locals /\ "ticketShow" \in Steps
  BY <1>2 DEF Locals, Steps
<1> HIDE DEF l
<1> QED
  BY <1>1, <1>3, StepIs DEF Goes

\* A scan finds its ticket with a block of the ticket's attribute, or none, ...
LEMMA ScanTicketMoves ==
    ASSUME Rows, NEW r \in Requests, ScanTicket(r)
    PROVE  /\ Moves(r) /\ OnlyReads /\ pc[r] \in {"scan", "confirm"}
           /\ Ends(r) \/ ( /\ Goes(r, "scanPerson") /\ In(r).ticket \in issued
                           /\ IF target[In(r).ticket] = None THEN In(r).block = None
                              ELSE /\ In(r).block \in Blocks
                                   /\ row[In(r).block].attr = target[In(r).ticket] )
<1> DEFINE t == In(r).ticket
           good == /\ t \in tickets
                   /\ IF target[t] = None THEN In(r).block = None
                      ELSE In(r).block \in BlocksOf(target[t])
           next == IF good THEN "scanPerson" ELSE "refused"
<1>1. OnlyReads /\ pc[r] \in {"scan", "confirm"} /\ Goto(r, next)
  BY DEF ScanTicket
<1>2. next \in {"refused", "scanPerson"} /\ next \in Steps /\ (next = "scanPerson" => good)
  BY DEF Steps
<1>3. good => /\ t \in issued
              /\ IF target[t] = None THEN In(r).block = None
                 ELSE In(r).block \in Blocks /\ row[In(r).block].attr = target[t]
  BY DEF BlocksOf, Rows, TypeOK
<1> HIDE DEF good, next
<1> QED
  BY <1>1, <1>2, <1>3, GotoIs DEF Ends, Goes

\* ... the participant, of the same event, ...
LEMMA ScanPersonMoves ==
    ASSUME Rows, NEW r \in Requests, ScanPerson(r)
    PROVE  /\ Moves(r) /\ OnlyReads /\ pc[r] = "scanPerson"
           /\ Ends(r) \/ ( /\ Goes(r, "scanCheckIn")
                           /\ In(r).person \in People \ Strangers )
<1> DEFINE p == In(r).person
           good == /\ p \in people /\ p \notin Strangers
                   /\ In(r).block # None => In(r).block \in chosen[p]
           next == IF good THEN "scanCheckIn" ELSE "refused"
<1>1. OnlyReads /\ pc[r] = "scanPerson" /\ Goto(r, next)
  BY DEF ScanPerson
<1>2. next \in {"refused", "scanCheckIn"} /\ next \in Steps /\ (next = "scanCheckIn" => good)
  BY DEF Steps
<1>3. good => p \in People \ Strangers
  BY DEF Rows, TypeOK
<1> HIDE DEF good, next
<1> QED
  BY <1>1, <1>2, <1>3, GotoIs DEF Ends, Goes

\* ... and the check-in.
LEMMA ScanCheckInMoves ==
    ASSUME Rows, NEW r \in Requests, ScanCheckIn(r)
    PROVE  /\ Moves(r) /\ OnlyReads /\ pc[r] = "scanCheckIn"
           /\ \/ Ends(r)
              \/ Goes(r, "conflict") /\ Triple(r) \in checkIns
              \/ Goes(r, "admit")
<1>1. OnlyReads /\ pc[r] = "scanCheckIn"
  BY DEF ScanCheckIn
<1>2. PICK next \in {"conflict", "admit", "done"} :
        Goto(r, next) /\ (next = "conflict" => Triple(r) \in checkIns)
  BY DEF ScanCheckIn
<1>3. next \in Steps
  BY DEF Steps
<1> QED
  BY <1>1, <1>2, <1>3, GotoIs DEF Ends, Goes

\* The requests that write and end, with nothing that touches others.
LEMMA Finishes ==
    ASSUME Rows, NEW r \in Requests,
           \/ AttrCreate(r) \/ AttrRollback(r) \/ BlockInsert(r) \/ BlockMove(r)
           \/ BlockDelete(r) \/ TicketShow(r) \/ TicketRemove(r)
    PROVE  Moves(r) /\ Ends(r)
<1>1. PICK next \in {"done", "refused"} : End(r, next)
  BY DEF AttrCreate, AttrRollback, BlockInsert, BlockMove, BlockDelete, TicketShow, TicketRemove
<1> QED
  BY <1>1, EndIs

\* The update of an attribute's row waits for the row and locks it.
LEMMA AttrWriteMoves ==
    ASSUME Rows, NEW r \in Requests, AttrWrite(r)
    PROVE  /\ Moves(r) /\ pc[r] = "attrWrite"
           /\ UNCHANGED <<type, config, tree, ticketing, visitors, checkIns, admitted, raced, looped>>
           /\ \/ Ends(r) /\ lock' = lock
              \/ /\ Goes(r, "attrRoot") \/ (Goes(r, "attrCommit") /\ ~Enters(r))
                 /\ local'[r] = local[r] /\ lock[In(r).attr] = None
                 /\ lock' = [lock EXCEPT ![In(r).attr] = r]
<1>1. /\ pc[r] = "attrWrite"
      /\ UNCHANGED <<type, config, tree, ticketing, visitors, checkIns, admitted, raced, looped>>
  BY DEF AttrWrite
<1>2. \/ End(r, "refused") /\ lock' = lock
      \/ /\ lock[In(r).attr] = None
         /\ lock' = [lock EXCEPT ![In(r).attr] = r]
         /\ Goto(r, "attrRoot") \/ (Goto(r, "attrCommit") /\ ~Enters(r))
  BY DEF AttrWrite
<1>3. "attrRoot" \in Steps /\ "attrCommit" \in Steps
  BY DEF Steps
<1> QED
  BY <1>1, <1>2, <1>3, EndIs, GotoIs DEF Goes, Ended

\* The commit of an update touches the others.
LEMMA AttrCommitMoves ==
    ASSUME Rows, Flow, NEW r \in Requests, AttrCommit(r)
    PROVE  /\ Moves(r) /\ Ends(r) /\ pc[r] = "attrCommit" /\ Touches(r, In(r).attr)
           /\ In(r).attr \in Attrs /\ local[r].type \in Types
<1>1. pc[r] = "attrCommit" /\ Step(r, "done", local[r], {In(r).attr})
  BY DEF AttrCommit, Commit
<1>2. In(r).attr \in Attrs /\ local[r].type \in Types
  BY <1>1 DEF Flow, FlowOf, Retyping
<1> QED
  BY <1>1, <1>2, WriteIs

\* The removal of an attribute, or its refusal.
LEMMA AttrRemoveMoves ==
    ASSUME Rows, NEW r \in Requests, AttrRemove(r)
    PROVE  /\ Moves(r) /\ Ends(r)
           /\ UNCHANGED <<config, lock, row, target, issued, admitted, raced, looped>>
           /\ \/ UNCHANGED <<type, blocks, tickets, people, checkIns, shown, chosen>>
              \/ LET a == In(r).attr IN
                 /\ a \in Present /\ lock[a] = None
                 /\ type' = [type EXCEPT ![a] = "gone"]
                 /\ Delete(BlocksOf(a), {t \in tickets : target[t] = a}, {})
                 /\ shown' = [t \in Tickets |-> shown[t] \ {a}]
                 /\ chosen' = [p \in People |-> chosen[p] \ BlocksOf(a)]
                 /\ Touches(r, a)
<1>1. UNCHANGED <<config, lock, row, target, issued, admitted, raced, looped>>
  BY DEF AttrRemove
<1>2. CASE In(r).attr \in Present
  <2>1. /\ lock[In(r).attr] = None
        /\ type' = [type EXCEPT ![In(r).attr] = "gone"]
        /\ Delete(BlocksOf(In(r).attr), {t \in tickets : target[t] = In(r).attr}, {})
        /\ shown' = [t \in Tickets |-> shown[t] \ {In(r).attr}]
        /\ chosen' = [p \in People |-> chosen[p] \ BlocksOf(In(r).attr)]
        /\ Step(r, "done", local[r], {In(r).attr})
    BY <1>2 DEF AttrRemove
  <2>2. {In(r).attr} \in SUBSET (Attrs \cup {None})
    BY <1>2 DEF Present
  <2>3. Moves(r) /\ Ends(r) /\ Touches(r, In(r).attr)
    BY <2>1, <2>2, WriteIs
  <2> QED
    BY <1>1, <1>2, <2>1, <2>3
<1>3. CASE In(r).attr \notin Present
  <2>1. /\ End(r, "refused")
        /\ UNCHANGED <<type, blocks, tickets, people, checkIns, shown, chosen>>
    BY <1>3 DEF AttrRemove
  <2> QED
    BY <1>1, <2>1, EndIs
<1> QED
  BY <1>2, <1>3

\* The insertion of a ticket: a conflict, an error, or a new ticket.
LEMMA TicketInsertMoves ==
    ASSUME Rows, NEW r \in Requests, TicketInsert(r)
    PROVE  /\ Moves(r) /\ pc[r] = "ticketInsert"
           /\ UNCHANGED <<attributes, tree, visitors, checkIns, admitted, looped>>
           /\ \/ (Ends(r) \/ Goes(r, "conflict")) /\ UNCHANGED <<ticketing, raced>>
              \/ /\ Ends(r) /\ Race(r, In(r).attr)
                 /\ In(r).attr # None => In(r).attr \in Present
                 /\ \E t \in Tickets \ issued :
                      /\ tickets' = tickets \cup {t}
                      /\ target' = [target EXCEPT ![t] = In(r).attr]
                      /\ shown' = [shown EXCEPT ![t] = In(r).shown]
                      /\ issued' = issued \cup {t}
<1>1. /\ pc[r] = "ticketInsert"
      /\ UNCHANGED <<attributes, tree, visitors, checkIns, admitted, looped>>
  BY DEF TicketInsert
<1>2. CASE \E t \in tickets : target[t] = In(r).attr
  <2>1. End(r, "conflict") /\ UNCHANGED <<ticketing, raced>> /\ "conflict" \in Steps
    BY <1>2 DEF TicketInsert, Steps
  <2> QED
    BY <1>1, <2>1, GotoIs DEF Goes
<1>3. CASE /\ ~\E t \in tickets : target[t] = In(r).attr
           /\ In(r).shown \cup ({In(r).attr} \ {None}) \subseteq Present
  <2>1. /\ Race(r, In(r).attr)
        /\ \E t \in Tickets \ issued :
             /\ tickets' = tickets \cup {t}
             /\ target' = [target EXCEPT ![t] = In(r).attr]
             /\ shown' = [shown EXCEPT ![t] = In(r).shown]
             /\ issued' = issued \cup {t}
        /\ Step(r, "done", local[r], {In(r).attr} \ {None})
    BY <1>3 DEF TicketInsert
  <2>2. {In(r).attr} \ {None} \in SUBSET (Attrs \cup {None})
    BY <1>3 DEF Present
  <2>3. Moves(r) /\ Ends(r)
    BY <2>1, <2>2, WriteIs
  <2> QED
    BY <1>1, <1>3, <2>1, <2>3
<1>4. CASE /\ ~\E t \in tickets : target[t] = In(r).attr
           /\ ~(In(r).shown \cup ({In(r).attr} \ {None}) \subseteq Present)
  <2>1. End(r, "refused") /\ UNCHANGED <<ticketing, raced>>
    BY <1>4 DEF TicketInsert
  <2> QED
    BY <1>1, <2>1, EndIs
<1> QED
  BY <1>2, <1>3, <1>4

\* A ticket on an attribute touches the requests about the attribute.
LEMMA TicketTouches ==
    ASSUME Rows, NEW r \in Requests, TicketInsert(r), tickets' # tickets, In(r).attr # None
    PROVE  Touches(r, In(r).attr)
<1>1. /\ In(r).shown \cup ({In(r).attr} \ {None}) \subseteq Present
      /\ Step(r, "done", local[r], {In(r).attr} \ {None})
  BY DEF TicketInsert, ticketing
<1>2. {In(r).attr} \ {None} \in SUBSET (Attrs \cup {None}) /\ In(r).attr \in {In(r).attr} \ {None}
  BY <1>1 DEF Present
<1> QED
  BY <1>1, <1>2, WriteIs

\* A confirm: a conflict, an error, or a check-in.
LEMMA AdmitMoves ==
    ASSUME Rows, NEW r \in Requests, Admit(r)
    PROVE  /\ Moves(r) /\ pc[r] = "admit"
           /\ UNCHANGED <<attributes, tree, ticketing, visitors, raced, looped>>
           /\ \/ Goes(r, "conflict") /\ Triple(r) \in checkIns /\ UNCHANGED <<checkIns, admitted>>
              \/ Ends(r) /\ UNCHANGED <<checkIns, admitted>>
              \/ /\ Ends(r) /\ Triple(r) \notin checkIns
                 /\ In(r).ticket \in tickets /\ In(r).person \in people
                 /\ In(r).block \in blocks \cup {None}
                 /\ checkIns' = checkIns \cup {Triple(r)}
                 /\ admitted' = [admitted EXCEPT ![Triple(r)] = @ + 1]
<1>1. /\ pc[r] = "admit"
      /\ UNCHANGED <<attributes, tree, ticketing, visitors, raced, looped>>
  BY DEF Admit, Confirm
<1>2. \/ /\ Triple(r) \in checkIns /\ End(r, "conflict") /\ UNCHANGED <<checkIns, admitted>>
      \/ /\ Triple(r) \notin checkIns
         /\ In(r).ticket \in tickets /\ In(r).person \in people
         /\ In(r).block \in blocks \cup {None}
         /\ checkIns' = checkIns \cup {Triple(r)}
         /\ admitted' = [admitted EXCEPT ![Triple(r)] = @ + 1]
         /\ End(r, "done")
      \/ End(r, "refused") /\ UNCHANGED <<checkIns, admitted>>
  BY DEF Admit, Confirm
<1>3. "conflict" \in Steps
  BY DEF Steps
<1> QED
  BY <1>1, <1>2, <1>3, EndIs, GotoIs DEF Goes

Reads(r) ==
    \/ \E in \in Inputs[r] : Begin(r, in)
    \/ AttrRead(r) \/ AttrTicket(r) \/ AttrRoot(r) \/ BlockCreate(r) \/ BlockDuplicate(r)
    \/ BlockUpdate(r) \/ BlockFind(r) \/ TicketTarget(r) \/ TicketShown(r) \/ TicketClear(r)
    \/ ScanTicket(r) \/ ScanPerson(r) \/ ScanCheckIn(r)
Acts(r) ==
    \/ Reads(r)
    \/ AttrCreate(r) \/ AttrWrite(r) \/ AttrCommit(r) \/ AttrRollback(r) \/ AttrRemove(r)
    \/ BlockInsert(r) \/ BlockMove(r) \/ BlockDelete(r)
    \/ TicketInsert(r) \/ TicketShow(r) \/ TicketRemove(r) \/ Admit(r)

\* The requests that read leave the rows alone.
LEMMA ReadsOnly ==
    ASSUME Rows, Flow, NEW r \in Requests, Reads(r)
    PROVE  Moves(r) /\ OnlyReads
BY BeginMoves, AttrReadMoves, AttrTicketMoves, AttrRootMoves, BlockReadMoves, BlockFindMoves,
   TicketTargetMoves, TicketShownMoves, TicketClearMoves, ScanTicketMoves, ScanPersonMoves,
   ScanCheckInMoves DEF Reads

\* Every step of a request is such a move.
LEMMA AllMove ==
    ASSUME Rows, Flow, NEW r \in Requests, Acts(r)
    PROVE  Moves(r)
BY ReadsOnly, Finishes, AttrWriteMoves, AttrCommitMoves, AttrRemoveMoves, TicketInsertMoves,
   AdmitMoves DEF Acts

-----------------------------------------------------------------------------
(* Types.                                                                  *)

\* A new block has an unused uuid and the row it is given.
LEMMA InsertIs ==
    ASSUME Rows, NEW a \in Attrs \cup {None}, NEW p \in Blocks \cup {None}, InsertBlock(a, p)
    PROVE  /\ row' \in [Blocks -> BlockRow] /\ blocks' \subseteq Blocks
           /\ \E b \in Blocks :
                /\ row[b].attr = None /\ blocks' = blocks \cup {b}
                /\ row'[b].attr = a /\ row'[b].parent = p
                /\ \A c \in Blocks \ {b} : row'[c] = row[c]
<1> DEFINE b == CHOOSE b \in Unused : TRUE
           new == [attr |-> a, parent |-> p]
<1>1. /\ Unused # {} /\ blocks' = blocks \cup {b} /\ row' = [row EXCEPT ![b] = new]
  BY DEF InsertBlock
<1>2. b \in Unused
  BY <1>1
<1>3. b \in Blocks /\ row[b].attr = None
  BY <1>2 DEF Unused
<1>4. new \in BlockRow /\ new.attr = a /\ new.parent = p
  BY DEF BlockRow
<1>5. row \in [Blocks -> BlockRow] /\ blocks \subseteq Blocks
  BY DEF Rows, TypeOK
<1> HIDE DEF b, new
<1>6. row'[b] = new /\ \A c \in Blocks \ {b} : row'[c] = row[c]
  BY <1>1, <1>3, <1>5
<1>7. row' \in [Blocks -> BlockRow] /\ blocks' \subseteq Blocks
  BY <1>1, <1>3, <1>4, <1>5
<1> QED
  BY <1>1, <1>3, <1>4, <1>6, <1>7

\* What a deletion leaves is of the same types.
LEMMA DeleteTypes ==
    ASSUME Rows, NEW bs, NEW ts, NEW ps, Delete(bs, ts, ps)
    PROVE  /\ blocks' \subseteq blocks /\ tickets' \subseteq tickets
           /\ people' \subseteq people /\ checkIns' \subseteq checkIns
BY DEF Delete

\* Who changes nothing but a few rows keeps the types.
LEMMA ReadTypes ==
    ASSUME Rows, NEW r \in Requests, Moves(r), OnlyReads
    PROVE  Rows'
BY DEF Rows, TypeOK, Moves, OnlyReads, attributes, tree, ticketing, visitors

\* The commit of an update writes a type and a config of the right kind.
LEMMA CommitTypes ==
    ASSUME Rows, Flow, NEW r \in Requests, AttrCommit(r)
    PROVE  Rows'
<1> DEFINE a == In(r).attr
<1>1. Moves(r) /\ a \in Attrs /\ local[r].type \in Types
  BY AttrCommitMoves
<1>2. In(r).type \in Types \cup {None}
  BY DEF Rows, TypeOK, Input, In
<1>3. NextType(r) \in Types
  BY <1>1, <1>2 DEF NextType
<1>4. TypeAfter(r) \in Types \cup {"none", "gone"}
  BY <1>1, <1>2 DEF TypeAfter, Rows, TypeOK
<1>5. /\ lock' = [lock EXCEPT ![a] = None]
      /\ type' = [type EXCEPT ![a] = TypeAfter(r)]
      /\ config' = [config EXCEPT ![a] = IF In(r).config \/ NextType(r) # local[r].type
                                         THEN NextType(r) ELSE @]
      /\ raced' = IF a \in local[r].touched THEN raced \cup {a} ELSE raced
      /\ UNCHANGED <<target, shown, issued, chosen, admitted, looped>>
  BY DEF AttrCommit, Commit, Race
<1>6. /\ type' \in [Attrs -> Types \cup {"none", "gone"}]
      /\ config' \in [Attrs -> Types \cup {"none", "gone"}]
      /\ lock' \in [Attrs -> Requests \cup {None}]
  BY <1>3, <1>4, <1>5 DEF Rows, TypeOK
<1>7. \/ InsertBlock(a, None) /\ UNCHANGED <<tickets, people, checkIns>>
      \/ Delete(Dropped(r), {}, {}) /\ UNCHANGED row
  BY DEF AttrCommit, Commit
<1>8. /\ row' \in [Blocks -> BlockRow] /\ blocks' \subseteq Blocks
      /\ tickets' \subseteq tickets /\ people' \subseteq people /\ checkIns' \subseteq checkIns
  <2>1. row \in [Blocks -> BlockRow] /\ blocks \subseteq Blocks
    BY DEF Rows, TypeOK
  <2>2. CASE InsertBlock(a, None) /\ UNCHANGED <<tickets, people, checkIns>>
    BY <1>1, <2>2, InsertIs
  <2>3. CASE Delete(Dropped(r), {}, {}) /\ UNCHANGED row
    BY <2>1, <2>3, DeleteTypes
  <2> QED
    BY <1>7, <2>2, <2>3
<1>9. raced' \subseteq Attrs \cup {None}
  BY <1>1, <1>5 DEF Rows, TypeOK
<1> QED
  BY <1>1, <1>5, <1>6, <1>8, <1>9 DEF Rows, TypeOK, Moves

\* All steps of a request, for the types.
LEMMA RowsStep ==
    ASSUME Rows, Flow, RootInv, NEW r \in Requests, Acts(r)
    PROVE  Rows'
<1>1. Moves(r)
  BY AllMove
<1>2. In(r) \in Input
  BY DEF Rows, TypeOK, In
<1>3. CASE Reads(r)
  BY <1>3, ReadsOnly, ReadTypes
<1>4. CASE AttrCreate(r)
  <2>1. PICK a \in Attrs :
          /\ type' = [type EXCEPT ![a] = In(r).type]
          /\ config' = [config EXCEPT ![a] = In(r).type]
          /\ InsertBlock(a, None) \/ UNCHANGED tree
    BY <1>4 DEF AttrCreate
  <2>2. In(r) \in Inputs[r] /\ In(r).op = "attrCreate"
    BY <1>4 DEF AttrCreate, Flow, FlowOf, Ops, Ended
  <2>3. In(r).type \in Types
    BY <1>2, <2>2, CatalogueAssumption DEF Input
  <2>4. /\ type' \in [Attrs -> Types \cup {"none", "gone"}]
        /\ config' \in [Attrs -> Types \cup {"none", "gone"}]
    BY <2>1, <2>3 DEF Rows, TypeOK
  <2>5. row' \in [Blocks -> BlockRow] /\ blocks' \subseteq Blocks
    BY <2>1, InsertIs DEF tree, Rows, TypeOK
  <2>6. UNCHANGED <<lock, ticketing, visitors, checkIns, admitted, raced, looped>>
    BY <1>4 DEF AttrCreate
  <2> QED
    BY <1>1, <2>4, <2>5, <2>6 DEF Rows, TypeOK, Moves, ticketing, visitors
<1>5. CASE AttrWrite(r)
  <2>1. /\ lock' \in [Attrs -> Requests \cup {None}]
        /\ UNCHANGED <<type, config, tree, ticketing, visitors, checkIns, admitted, raced, looped>>
    BY <1>5, AttrWriteMoves DEF Rows, TypeOK
  <2> QED
    BY <1>1, <2>1 DEF Rows, TypeOK, Moves, tree, ticketing, visitors
<1>6. CASE AttrCommit(r)
  BY <1>6, CommitTypes
<1>7. CASE AttrRollback(r)
  <2>1. /\ lock' \in [Attrs -> Requests \cup {None}]
        /\ UNCHANGED <<type, config, tree, ticketing, visitors, checkIns, admitted, raced, looped>>
    BY <1>7 DEF AttrRollback, Rows, TypeOK
  <2> QED
    BY <1>1, <2>1 DEF Rows, TypeOK, Moves, tree, ticketing, visitors
<1>8. CASE AttrRemove(r)
  <2>1. UNCHANGED <<config, lock, row, target, issued, admitted, raced, looped>>
    BY <1>8, AttrRemoveMoves
  <2>2. /\ type' \in [Attrs -> Types \cup {"none", "gone"}]
        /\ shown' \in [Tickets -> SUBSET Attrs] /\ chosen' \in [People -> SUBSET Blocks]
        /\ blocks' \subseteq blocks /\ tickets' \subseteq tickets
        /\ people' \subseteq people /\ checkIns' \subseteq checkIns
    <3> DEFINE a == In(r).attr
    <3>1. CASE UNCHANGED <<type, blocks, tickets, people, checkIns, shown, chosen>>
      BY <3>1 DEF Rows, TypeOK
    <3>2. CASE /\ type' = [type EXCEPT ![a] = "gone"]
               /\ Delete(BlocksOf(a), {t \in tickets : target[t] = a}, {})
               /\ shown' = [t \in Tickets |-> shown[t] \ {a}]
               /\ chosen' = [p \in People |-> chosen[p] \ BlocksOf(a)]
      <4>1. type' \in [Attrs -> Types \cup {"none", "gone"}]
        BY <3>2 DEF Rows, TypeOK
      <4>2. shown' \in [Tickets -> SUBSET Attrs] /\ chosen' \in [People -> SUBSET Blocks]
        BY <3>2 DEF Rows, TypeOK
      <4> QED
        BY <3>2, <4>1, <4>2, DeleteTypes
    <3> QED
      BY <1>8, <3>1, <3>2, AttrRemoveMoves
  <2> QED
    BY <1>1, <2>1, <2>2 DEF Rows, TypeOK, Moves
<1>9. CASE BlockInsert(r)
  <2> DEFINE parent == IF In(r).op = "blockCreate" THEN In(r).parent ELSE local[r].parent
  <2>1. In(r).attr \in Attrs
    BY <1>9 DEF BlockInsert, Flow, FlowOf
  <2>2. (parent \in blocks /\ InsertBlock(In(r).attr, parent)) \/ UNCHANGED tree
    BY <1>9 DEF BlockInsert
  <2>3. row' \in [Blocks -> BlockRow] /\ blocks' \subseteq Blocks
    BY <2>1, <2>2, InsertIs DEF tree, Rows, TypeOK
  <2>4. UNCHANGED <<attributes, ticketing, visitors, checkIns, admitted, raced, looped>>
    BY <1>9 DEF BlockInsert
  <2> QED
    BY <1>1, <2>3, <2>4 DEF Rows, TypeOK, Moves, attributes, ticketing, visitors
<1>10. CASE BlockMove(r)
  <2>1. UNCHANGED <<attributes, blocks, ticketing, visitors, checkIns, admitted, raced>>
    BY <1>10 DEF BlockMove
  <2>2. row' \in [Blocks -> BlockRow]
    BY <1>10 DEF BlockMove, Rows, TypeOK, BlockRow
  <2>3. looped' \subseteq Attrs
    <3>1. \A b \in blocks : row[b].attr \in Attrs
      BY DEF Rows, TypeOK, BlockRow, RootInv
    <3> QED
      BY <1>10, <3>1 DEF BlockMove, Rows, TypeOK
  <2> QED
    BY <1>1, <2>1, <2>2, <2>3 DEF Rows, TypeOK, Moves, attributes, ticketing, visitors
<1>11. CASE BlockDelete(r) \/ TicketRemove(r)
  <2>1. /\ UNCHANGED <<attributes, row, target, shown, issued, chosen, admitted, raced, looped>>
        /\ blocks' \subseteq blocks /\ tickets' \subseteq tickets
        /\ people' \subseteq people /\ checkIns' \subseteq checkIns
    BY <1>11, DeleteTypes DEF BlockDelete, TicketRemove
  <2> QED
    BY <1>1, <2>1 DEF Rows, TypeOK, Moves, attributes
<1>12. CASE TicketInsert(r)
  <2>1. UNCHANGED <<attributes, tree, visitors, checkIns, admitted, looped>>
    BY <1>12, TicketInsertMoves
  <2>2. /\ tickets' \subseteq issued' /\ issued' \subseteq Tickets
        /\ target' \in [Tickets -> Attrs \cup {None}] /\ shown' \in [Tickets -> SUBSET Attrs]
    <3>1. In(r).attr \in Attrs \cup {None} /\ In(r).shown \in SUBSET Attrs
      BY <1>2 DEF Input
    <3>2. CASE UNCHANGED ticketing
      BY <3>2 DEF ticketing, Rows, TypeOK
    <3>3. CASE \E t \in Tickets \ issued :
                 /\ tickets' = tickets \cup {t}
                 /\ target' = [target EXCEPT ![t] = In(r).attr]
                 /\ shown' = [shown EXCEPT ![t] = In(r).shown]
                 /\ issued' = issued \cup {t}
      BY <3>1, <3>3 DEF Rows, TypeOK
    <3> QED
      BY <1>12, <3>2, <3>3, TicketInsertMoves
  <2>3. raced' \subseteq Attrs \cup {None}
    BY <1>2, <1>12, TicketInsertMoves DEF Race, Rows, TypeOK, Input
  <2> QED
    BY <1>1, <2>1, <2>2, <2>3 DEF Rows, TypeOK, Moves, attributes, tree, visitors
<1>13. CASE TicketShow(r)
  <2>1. UNCHANGED <<attributes, tree, tickets, target, issued, visitors, checkIns,
                    admitted, raced, looped>>
    BY <1>13 DEF TicketShow
  <2>2. shown' \in [Tickets -> SUBSET Attrs]
    BY <1>2, <1>13 DEF TicketShow, Rows, TypeOK, Input
  <2> QED
    BY <1>1, <2>1, <2>2 DEF Rows, TypeOK, Moves, attributes, tree, visitors
<1>14. CASE Admit(r)
  <2>1. UNCHANGED <<attributes, tree, ticketing, visitors, raced, looped>>
    BY <1>14, AdmitMoves
  <2>2. checkIns' \subseteq Triples /\ admitted' \in [Triples -> Nat]
    <3>1. /\ In(r).ticket \in tickets /\ In(r).person \in people /\ In(r).block \in blocks \cup {None}
          => Triple(r) \in Triples
      BY DEF Rows, TypeOK, Triples, Triple
    <3> QED
      BY <1>14, <3>1, AdmitMoves DEF Rows, TypeOK
  <2> QED
    BY <1>1, <2>1, <2>2 DEF Rows, TypeOK, Moves, attributes, tree, ticketing, visitors
<1> QED
  BY <1>3, <1>4, <1>5, <1>6, <1>7, <1>8, <1>9, <1>10, <1>11, <1>12, <1>13, <1>14 DEF Acts

-----------------------------------------------------------------------------
(* What is written once.                                                   *)

\* An attribute that was created stays so; uuids are not used again; a block
\* keeps its attribute, a ticket its target.
Grows ==
    /\ \A a \in Attrs : type[a] # "none" => type'[a] # "none"
    /\ \A b \in Blocks : row[b].attr # None => row'[b].attr = row[b].attr
    /\ \A b \in blocks' : b \in blocks \/ (b \in Blocks /\ row[b].attr = None)
    /\ issued \subseteq issued' /\ \A t \in tickets' : t \in tickets \/ t \notin issued
    /\ \A t \in issued : target'[t] = target[t]
    /\ people' \subseteq people

\* Steps that insert nothing.
LEMMA Shrinks ==
    ASSUME Rows, blocks' \subseteq blocks, row' = row, tickets' \subseteq tickets,
           issued' = issued, target' = target, people' \subseteq people,
           type' = type \/ \E a \in Attrs : \E v \in Types \cup {"gone"} :
                             type' = [type EXCEPT ![a] = v]
    PROVE  Grows
<1>1. \A a \in Attrs : type[a] # "none" => type'[a] # "none"
  BY DEF Rows, TypeOK, Types
<1> QED
  BY <1>1 DEF Grows

\* All steps of a request.
LEMMA GrowStep ==
    ASSUME Rows, Flow, RootInv, NEW r \in Requests, Acts(r)
    PROVE  Grows
<1>1. CASE Reads(r)
  BY <1>1, ReadsOnly, Shrinks DEF OnlyReads, attributes, tree, ticketing, visitors
<1>2. CASE AttrCreate(r)
  <2>1. PICK a \in Attrs :
          /\ type[a] = "none"
          /\ type' = [type EXCEPT ![a] = In(r).type]
          /\ InsertBlock(a, None) \/ UNCHANGED tree
    BY <1>2 DEF AttrCreate
  <2>2. UNCHANGED <<lock, ticketing, visitors, checkIns, admitted, raced, looped>>
    BY <1>2 DEF AttrCreate
  <2>3. /\ \A b \in Blocks : row[b].attr # None => row'[b].attr = row[b].attr
        /\ \A b \in blocks' : b \in blocks \/ (b \in Blocks /\ row[b].attr = None)
    BY <2>1, InsertIs DEF tree
  <2>4. \A b \in Attrs : type[b] # "none" => type'[b] # "none"
    BY <2>1 DEF Rows, TypeOK
  <2>5. tickets \subseteq issued
    BY DEF Rows, TypeOK
  <2> QED
    BY <2>2, <2>3, <2>4, <2>5 DEF Grows, ticketing, visitors
<1>3. CASE AttrWrite(r) \/ AttrRollback(r)
  <2>1. UNCHANGED <<type, config, tree, ticketing, visitors, checkIns, admitted, raced, looped>>
    BY <1>3, AttrWriteMoves DEF AttrRollback
  <2> QED
    BY <2>1, Shrinks DEF tree, ticketing, visitors
<1>4. CASE AttrCommit(r)
  <2> DEFINE a == In(r).attr
  <2>1. /\ a \in Attrs /\ local[r].type \in Types /\ pc[r] = "attrCommit"
    BY <1>4, AttrCommitMoves
  <2>2. type[a] # "none"
    BY <2>1 DEF Flow, FlowOf, Retyping
  <2>3. In(r).type \in Types \cup {None} /\ TypeAfter(r) # "none"
    BY <2>2, CatalogueAssumption DEF TypeAfter, Rows, TypeOK, Input, In, Types
  <2>4. /\ type' = [type EXCEPT ![a] = TypeAfter(r)]
        /\ UNCHANGED <<target, shown, issued, chosen, admitted, looped>>
        /\ \/ InsertBlock(a, None) /\ UNCHANGED <<tickets, people, checkIns>>
           \/ Delete(Dropped(r), {}, {}) /\ UNCHANGED row
    BY <1>4 DEF AttrCommit, Commit
  <2>5. \A b \in Attrs : type[b] # "none" => type'[b] # "none"
    BY <2>3, <2>4 DEF Rows, TypeOK
  <2>6. /\ \A b \in Blocks : row[b].attr # None => row'[b].attr = row[b].attr
        /\ \A b \in blocks' : b \in blocks \/ (b \in Blocks /\ row[b].attr = None)
        /\ tickets' \subseteq tickets /\ people' \subseteq people
    BY <2>1, <2>4, InsertIs, DeleteTypes
  <2> QED
    BY <2>4, <2>5, <2>6 DEF Grows
<1>5. CASE AttrRemove(r)
  <2>1. UNCHANGED <<config, lock, row, target, issued, admitted, raced, looped>>
    BY <1>5, AttrRemoveMoves
  <2>2. /\ blocks' \subseteq blocks /\ tickets' \subseteq tickets /\ people' \subseteq people
        /\ type' = type \/ \E a \in Attrs : type' = [type EXCEPT ![a] = "gone"]
    BY <1>5, AttrRemoveMoves, DeleteTypes DEF Present
  <2> QED
    BY <2>1, <2>2, Shrinks
<1>6. CASE BlockInsert(r)
  <2> DEFINE parent == IF In(r).op = "blockCreate" THEN In(r).parent ELSE local[r].parent
  <2>1. In(r).attr \in Attrs
    BY <1>6 DEF BlockInsert, Flow, FlowOf
  <2>2. (parent \in blocks /\ InsertBlock(In(r).attr, parent)) \/ UNCHANGED tree
    BY <1>6 DEF BlockInsert
  <2>3. blocks \subseteq Blocks
    BY DEF Rows, TypeOK
  <2>4. /\ \A b \in Blocks : row[b].attr # None => row'[b].attr = row[b].attr
        /\ \A b \in blocks' : b \in blocks \/ (b \in Blocks /\ row[b].attr = None)
    BY <2>1, <2>2, <2>3, InsertIs DEF tree
  <2>5. UNCHANGED <<attributes, ticketing, visitors, checkIns, admitted, raced, looped>>
    BY <1>6 DEF BlockInsert
  <2> QED
    BY <2>4, <2>5 DEF Grows, attributes, ticketing, visitors
<1>7. CASE BlockMove(r)
  <2>1. UNCHANGED <<attributes, blocks, ticketing, visitors, checkIns, admitted, raced>>
    BY <1>7 DEF BlockMove
  <2>2. \A b \in Blocks : row'[b].attr = row[b].attr
    BY <1>7 DEF BlockMove, Rows, TypeOK, BlockRow
  <2> QED
    BY <2>1, <2>2 DEF Grows, attributes, ticketing, visitors
<1>8. CASE BlockDelete(r) \/ TicketRemove(r)
  <2>1. /\ UNCHANGED <<attributes, row, target, shown, issued, chosen, admitted, raced, looped>>
        /\ blocks' \subseteq blocks /\ tickets' \subseteq tickets /\ people' \subseteq people
    BY <1>8, DeleteTypes DEF BlockDelete, TicketRemove
  <2> QED
    BY <2>1, Shrinks DEF attributes
<1>9. CASE TicketInsert(r)
  <2>1. UNCHANGED <<attributes, tree, visitors, checkIns, admitted, looped>>
    BY <1>9, TicketInsertMoves
  <2>2. /\ issued \subseteq issued' /\ \A t \in tickets' : t \in tickets \/ t \notin issued
        /\ \A t \in issued : target'[t] = target[t]
    BY <1>9, TicketInsertMoves DEF ticketing, Rows, TypeOK
  <2> QED
    BY <2>1, <2>2 DEF Grows, attributes, tree, visitors
<1>10. CASE TicketShow(r)
  <2>1. UNCHANGED <<attributes, tree, tickets, target, issued, visitors, checkIns,
                    admitted, raced, looped>>
    BY <1>10 DEF TicketShow
  <2> QED
    BY <2>1, Shrinks DEF attributes, tree, visitors
<1>11. CASE Admit(r)
  BY <1>11, AdmitMoves, Shrinks DEF attributes, tree, ticketing, visitors
<1> QED
  BY <1>1, <1>2, <1>3, <1>4, <1>5, <1>6, <1>7, <1>8, <1>9, <1>10, <1>11 DEF Acts

-----------------------------------------------------------------------------
(* The control.                                                            *)

\* What a request has found out lasts.
LEMMA FlowKept ==
    ASSUME Rows, NEW q \in Requests, FlowOf(q), Same(q), Grows
    PROVE  FlowOf(q)'
<1>1. /\ pc'[q] = pc[q] /\ input'[q] = input[q] /\ local'[q].type = local[q].type
  BY DEF Same
<1>2. issued \subseteq Tickets
  BY DEF Rows, TypeOK
<1>3. pc[q] \in Scanning /\ target[input[q].ticket] # None =>
        row[input[q].block].attr # None /\ input[q].block \in Blocks
  BY DEF FlowOf, In
<1>4. pc[q] \in Scanning =>
        /\ input[q].op \in {"scan", "confirm"} /\ input[q].ticket \in issued'
        /\ IF target'[input[q].ticket] = None THEN input[q].block = None
           ELSE /\ input[q].block \in Blocks
                /\ row'[input[q].block].attr = target'[input[q].ticket]
  BY <1>3 DEF FlowOf, In, Grows
<1> QED
  BY <1>1, <1>4 DEF FlowOf, In, Grows

\* All steps of a request, for the control.
LEMMA FlowStep ==
    ASSUME Rows, Flow, RootInv, NEW r \in Requests, Acts(r)
    PROVE  Flow'
<1>0. Moves(r) /\ Grows /\ FlowOf(r)
  BY AllMove, GrowStep DEF Flow
<1> DEFINE Quiet == type' = type /\ row' = row /\ issued' = issued /\ target' = target
<1>1. ASSUME Reads(r) PROVE Quiet
  BY <1>1, ReadsOnly DEF OnlyReads, attributes, tree, ticketing
<1>2. FlowOf(r)'
  <2>1. CASE Ends(r)
    BY <2>1 DEF FlowOf, Ends, Ended, Ops, Retyping, Scanning
  <2>2. ASSUME pc'[r] = "conflict" PROVE FlowOf(r)'
    BY <2>2 DEF FlowOf, Ended, Ops, Retyping, Scanning
  <2>3. ASSUME NEW in \in Inputs[r], Begin(r, in) PROVE FlowOf(r)'
    BY <2>3, BeginMoves DEF FlowOf, Ops, Ended, In, Retyping, Scanning
  <2>4. CASE AttrRead(r)
    BY <1>0, <1>1, <2>1, <2>4, AttrReadMoves
       DEF FlowOf, In, Goes, Ops, Ended, Retyping, Scanning, Reads, Present, Types
  <2>5. CASE AttrTicket(r)
    BY <1>0, <1>1, <2>2, <2>5, AttrTicketMoves
       DEF FlowOf, In, Goes, Ops, Ended, Retyping, Scanning, Reads
  <2>6. CASE AttrRoot(r)
    BY <1>0, <1>1, <2>6, AttrRootMoves
       DEF FlowOf, In, Goes, Ops, Ended, Retyping, Scanning, Reads
  <2>7. CASE AttrWrite(r)
    BY <1>0, <2>1, <2>7, AttrWriteMoves
       DEF FlowOf, In, Goes, Ops, Ended, Retyping, Scanning
  <2>8. CASE BlockCreate(r) \/ BlockDuplicate(r)
    <3>1. In(r).attr \in Present \/ BlocksOf(In(r).attr) # {} =>
            In(r).attr \in Attrs /\ type[In(r).attr] # "none"
      BY DEF Present, Types, BlocksOf, RootInv, Rows, TypeOK, BlockRow
    <3> QED
      BY <1>0, <1>1, <2>1, <2>8, <3>1, BlockReadMoves
         DEF FlowOf, In, Goes, Ops, Ended, Retyping, Scanning, Reads
  <2>9. CASE BlockUpdate(r) \/ BlockFind(r)
    <3>1. pc[r] \in {"blockUpdate", "blockRemove"}
      BY <2>9 DEF BlockUpdate, BlockFind
    <3> QED
      BY <1>0, <2>1, <2>9, <3>1, BlockFindMoves
         DEF FlowOf, In, Goes, Ops, Ended, Retyping, Scanning
  <2>10. CASE TicketTarget(r)
    BY <1>0, <2>1, <2>10, TicketTargetMoves
       DEF FlowOf, In, Goes, Ops, Ended, Retyping, Scanning
  <2>11. CASE TicketShown(r)
    BY <1>0, <2>1, <2>11, TicketShownMoves
       DEF FlowOf, In, Goes, Ops, Ended, Retyping, Scanning
  <2>12. CASE TicketClear(r)
    BY <1>0, <2>12, TicketClearMoves
       DEF FlowOf, In, Goes, Ops, Ended, Retyping, Scanning
  <2>13. CASE ScanTicket(r)
    BY <1>0, <1>1, <2>1, <2>13, ScanTicketMoves
       DEF FlowOf, In, Goes, Ops, Ended, Retyping, Scanning, Reads
  <2>14. CASE ScanPerson(r)
    BY <1>0, <1>1, <2>1, <2>14, ScanPersonMoves
       DEF FlowOf, In, Goes, Ops, Ended, Retyping, Scanning, Reads
  <2>15. CASE ScanCheckIn(r)
    BY <1>0, <1>1, <2>1, <2>2, <2>15, ScanCheckInMoves
       DEF FlowOf, In, Goes, Ops, Ended, Retyping, Scanning, Reads
  <2>16. CASE \/ AttrCreate(r) \/ AttrRollback(r) \/ BlockInsert(r) \/ BlockMove(r)
              \/ BlockDelete(r) \/ TicketShow(r) \/ TicketRemove(r)
    BY <2>1, <2>16, Finishes
  <2>17. CASE AttrCommit(r) \/ AttrRemove(r)
    BY <2>1, <2>17, AttrCommitMoves, AttrRemoveMoves
  <2>18. CASE TicketInsert(r) \/ Admit(r)
    BY <2>1, <2>2, <2>18, TicketInsertMoves, AdmitMoves DEF Goes
  <2> QED
    BY <2>3, <2>4, <2>5, <2>6, <2>7, <2>8, <2>9, <2>10, <2>11, <2>12, <2>13, <2>14, <2>15,
       <2>16, <2>17, <2>18 DEF Acts, Reads
<1>3. \A q \in Requests \ {r} : FlowOf(q)'
  BY <1>0, FlowKept DEF Flow, Moves
<1> QED
  BY <1>2, <1>3 DEF Flow

-----------------------------------------------------------------------------
(* One root.                                                               *)

Locks == \A r \in Requests : pc[r] \in {"attrRoot", "attrCommit"} => lock[In(r).attr] = r

\* One transaction at a time holds an attribute's row.
LEMMA LockStep ==
    ASSUME Rows, Flow, Locks, NEW r \in Requests, Acts(r)
    PROVE  Locks'
<1>1. Moves(r)
  BY AllMove
<1>2. \A q \in Requests \ {r} : pc'[q] = pc[q] /\ input'[q] = input[q]
  BY <1>1 DEF Moves, Same
<1>3. CASE /\ lock' = lock
           /\ pc'[r] \in {"attrRoot", "attrCommit"} =>
                pc[r] \in {"attrRoot", "attrCommit"} /\ input'[r] = input[r]
  BY <1>2, <1>3 DEF Locks, In
<1>4. CASE AttrWrite(r)
  <2>1. CASE Ends(r) /\ lock' = lock
    BY <1>3, <2>1 DEF Ends
  <2>2. CASE ~(Ends(r) /\ lock' = lock)
    <3>1. /\ input'[r] = input[r] /\ lock[In(r).attr] = None
          /\ lock' = [lock EXCEPT ![In(r).attr] = r] /\ In(r).attr \in Attrs
      BY <1>4, <2>2, AttrWriteMoves DEF Goes, Flow, FlowOf, Retyping
    <3>2. None \notin Requests /\ \A q \in Requests : pc[q] \in Retyping => In(q).attr \in Attrs
      BY CatalogueAssumption DEF Flow, FlowOf
    <3> QED
      BY <1>2, <3>1, <3>2 DEF Locks, In, Retyping, Rows, TypeOK
  <2> QED
    BY <2>1, <2>2
<1>5. CASE AttrCommit(r) \/ AttrRollback(r)
  <2>1. /\ pc[r] \in {"attrRoot", "attrCommit"} /\ pc'[r] \in {"done", "refused"}
        /\ lock' = [lock EXCEPT ![In(r).attr] = None]
    BY <1>5, AttrCommitMoves, Finishes DEF AttrCommit, Commit, AttrRollback, Ends
  <2>2. lock[In(r).attr] = r
    BY <2>1 DEF Locks
  <2>3. \A q \in Requests : pc[q] \in Retyping => In(q).attr \in Attrs
    BY DEF Flow, FlowOf
  <2> QED
    BY <1>2, <2>1, <2>2, <2>3 DEF Locks, In, Retyping, Rows, TypeOK
<1>6. CASE Reads(r)
  <2>1. lock' = lock
    BY <1>6, ReadsOnly DEF OnlyReads, attributes
  <2>2. pc'[r] \in {"attrRoot", "attrCommit"} => pc[r] = "attrRoot" /\ input'[r] = input[r]
    <3>1. ASSUME NEW in \in Inputs[r], Begin(r, in)
          PROVE  pc'[r] \notin {"attrRoot", "attrCommit"}
      BY <3>1, BeginMoves DEF Ops
    <3> QED
      BY <1>6, <3>1, AttrReadMoves, AttrTicketMoves, AttrRootMoves, BlockReadMoves, BlockFindMoves,
         TicketTargetMoves, TicketShownMoves, TicketClearMoves, ScanTicketMoves,
         ScanPersonMoves, ScanCheckInMoves DEF Reads, Goes, Ends
  <2> QED
    BY <1>3, <2>1, <2>2
<1>7. CASE AttrCreate(r) \/ BlockInsert(r) \/ BlockMove(r) \/ BlockDelete(r) \/ TicketShow(r) \/ TicketRemove(r)
  <2>1. lock' = lock
    BY <1>7 DEF AttrCreate, BlockInsert, BlockMove, BlockDelete, TicketShow, TicketRemove, attributes
  <2> QED
    BY <1>3, <1>7, <2>1, Finishes DEF Ends
<1>8. CASE AttrRemove(r) \/ TicketInsert(r) \/ Admit(r)
  <2>1. lock' = lock
    BY <1>8, AttrRemoveMoves, TicketInsertMoves, AdmitMoves DEF attributes
  <2> QED
    BY <1>3, <1>8, <2>1, AttrRemoveMoves, TicketInsertMoves, AdmitMoves DEF Ends, Goes
<1> QED
  BY <1>4, <1>5, <1>6, <1>7, <1>8 DEF Acts

WillRoot(r) == pc[r] = "attrCommit" /\ Enters(r) /\ ~local[r].hasRoot => Roots(In(r).attr) = {}
Fewer == \A a \in Attrs : Roots(a)' \subseteq Roots(a)
NewFit == \A b \in blocks' : b \notin blocks => row'[b].attr # None /\ type'[row'[b].attr] # "none"

\* Blocks belong to attributes that were created.
LEMMA BlocksFit ==
    ASSUME Rows, RootInv, Grows, NewFit
    PROVE  \A b \in blocks' : row'[b].attr # None /\ type'[row'[b].attr] # "none"
<1> SUFFICES ASSUME NEW b \in blocks'
             PROVE  row'[b].attr # None /\ type'[row'[b].attr] # "none"
  OBVIOUS
<1>1. CASE b \notin blocks
  BY <1>1 DEF NewFit
<1>2. CASE b \in blocks
  <2>1. b \in Blocks /\ row[b].attr # None /\ type[row[b].attr] # "none" /\ row[b].attr \in Attrs
    BY <1>2 DEF RootInv, Rows, TypeOK, BlockRow
  <2> QED
    BY <2>1 DEF Grows
<1> QED
  BY <1>1, <1>2

\* Steps that make no block a root.
LEMMA RootKept ==
    ASSUME Rows, Flow, RootInv, NEW r \in Requests, Acts(r), Fewer, NewFit, WillRoot(r)'
    PROVE  RootInv'
<1>1. Moves(r) /\ Grows /\ Locks'
  BY AllMove, GrowStep, LockStep DEF RootInv, Locks
<1>2. \A b \in blocks' : row'[b].attr # None /\ type'[row'[b].attr] # "none"
  BY <1>1, BlocksFit
<1>3. \A a \in Attrs : \A b, c \in Roots(a)' : b = c
  BY DEF Fewer, RootInv
<1>4. ASSUME NEW q \in Requests PROVE WillRoot(q)'
  <2>1. CASE q # r
    <3>1. /\ pc'[q] = pc[q] /\ input'[q] = input[q] /\ local'[q].type = local[q].type
          /\ local'[q].hasRoot = local[q].hasRoot
      BY <1>1, <2>1 DEF Moves, Same
    <3>2. WillRoot(q) /\ (pc[q] = "attrCommit" => In(q).attr \in Attrs)
      BY DEF RootInv, WillRoot, Flow, FlowOf, Retyping
    <3>3. Enters(q)' = Enters(q)
      BY <3>1 DEF Enters, NextType, In
    <3>4. pc[q] = "attrCommit" => Roots(In(q).attr)' \subseteq Roots(In(q).attr)
      BY <3>1, <3>2 DEF Fewer, In, Roots, BlocksOf, IsRoot
    <3> QED
      BY <3>1, <3>2, <3>3, <3>4 DEF WillRoot
  <2> QED
    BY <2>1
<1> QED
  BY <1>1, <1>2, <1>3, <1>4 DEF RootInv, WillRoot, Locks

\* A new root in an attribute that had none, and that no other request will give
\* one.
LEMMA RootNew ==
    ASSUME Rows, Flow, RootInv, NEW r \in Requests, Acts(r), Ends(r),
           NEW a \in Attrs, InsertBlock(a, None), Roots(a) = {}, type'[a] # "none",
           \A q \in Requests \ {r} : pc[q] = "attrCommit" => In(q).attr # a
    PROVE  RootInv'
<1>1. Moves(r) /\ Grows /\ Locks'
  BY AllMove, GrowStep, LockStep DEF RootInv, Locks
<1>2. PICK n \in Blocks :
        /\ row[n].attr = None /\ blocks' = blocks \cup {n}
        /\ row'[n].attr = a /\ row'[n].parent = None
        /\ \A c \in Blocks \ {n} : row'[c] = row[c]
  BY InsertIs
<1>3. blocks \subseteq Blocks /\ n \notin blocks /\ a # None
  BY <1>2, CatalogueAssumption DEF Rows, TypeOK, RootInv
<1>4. \A b \in blocks' : row'[b].attr # None /\ type'[row'[b].attr] # "none"
  <2>1. NewFit
    BY <1>2, <1>3 DEF NewFit
  <2> QED
    BY <1>1, <2>1, BlocksFit
<1>5. \A c \in Attrs : \A b \in Roots(c)' : (c = a /\ b = n) \/ (c # a /\ b \in Roots(c))
  BY <1>2, <1>3 DEF Roots, BlocksOf, IsRoot
<1>6. \A c \in Attrs : \A b, d \in Roots(c)' : b = d
  BY <1>5 DEF RootInv
<1>7. ASSUME NEW q \in Requests PROVE WillRoot(q)'
  <2>1. CASE q = r
    BY <2>1 DEF WillRoot, Ends
  <2>2. CASE q # r
    <3>1. /\ pc'[q] = pc[q] /\ input'[q] = input[q] /\ local'[q].type = local[q].type
          /\ local'[q].hasRoot = local[q].hasRoot
      BY <1>1, <2>2 DEF Moves, Same
    <3>2. WillRoot(q) /\ (pc[q] = "attrCommit" => In(q).attr \in Attrs /\ In(q).attr # a)
      BY <2>2 DEF RootInv, WillRoot, Flow, FlowOf, Retyping
    <3>3. Enters(q)' = Enters(q)
      BY <3>1 DEF Enters, NextType, In
    <3>4. pc[q] = "attrCommit" => Roots(In(q).attr)' \subseteq Roots(In(q).attr)
      BY <1>5, <3>1, <3>2 DEF In, Roots, BlocksOf, IsRoot
    <3> QED
      BY <3>1, <3>2, <3>3, <3>4 DEF WillRoot
  <2> QED
    BY <2>1, <2>2
<1> QED
  BY <1>1, <1>4, <1>6, <1>7 DEF RootInv, WillRoot, Locks

\* All steps of a request, for the roots.
LEMMA RootStep ==
    ASSUME Rows, Flow, RootInv, NEW r \in Requests, Acts(r)
    PROVE  RootInv'
<1> DEFINE Less == row' = row /\ blocks' \subseteq blocks
           Away == pc'[r] # "attrCommit"
<1>1. ASSUME Less, Away PROVE RootInv'
  <2>1. Fewer /\ NewFit
    BY <1>1 DEF Fewer, NewFit, Roots, BlocksOf, IsRoot
  <2> QED
    BY <1>1, <2>1, RootKept DEF WillRoot
<1>2. CASE AttrRoot(r)
  <2>1. Less /\ /\ pc'[r] = "attrCommit" /\ input'[r] = input[r]
                /\ local'[r].hasRoot = (Roots(In(r).attr) # {})
    BY <1>2, AttrRootMoves DEF OnlyReads, tree, Goes
  <2>2. Fewer /\ NewFit /\ Roots(In(r).attr)' = Roots(In(r).attr)
    <3>1. blocks' = blocks
      BY <1>2, AttrRootMoves DEF OnlyReads, tree
    <3> QED
      BY <2>1, <3>1 DEF Fewer, NewFit, Roots, BlocksOf, IsRoot, In
  <2>3. WillRoot(r)'
    BY <2>1, <2>2 DEF WillRoot
  <2> QED
    BY <2>2, <2>3, RootKept
<1>3. CASE AttrWrite(r)
  <2>1. Less
    BY <1>3, AttrWriteMoves DEF tree
  <2>2. CASE Away
    BY <1>1, <2>1, <2>2
  <2>3. CASE ~Away
    <3>1. input'[r] = input[r] /\ local'[r] = local[r] /\ ~Enters(r)
      BY <1>3, <2>3, AttrWriteMoves DEF Ends, Goes
    <3>2. WillRoot(r)'
      BY <3>1 DEF WillRoot, Enters, NextType, In
    <3>3. Fewer /\ NewFit
      BY <2>1 DEF Fewer, NewFit, Roots, BlocksOf, IsRoot
    <3> QED
      BY <3>2, <3>3, RootKept
  <2> QED
    BY <2>2, <2>3
<1>4. CASE AttrCommit(r)
  <2> DEFINE a == In(r).attr
  <2>1. Ends(r) /\ a \in Attrs /\ pc[r] = "attrCommit" /\ type[a] # "none"
    BY <1>4, AttrCommitMoves DEF Flow, FlowOf, Retyping
  <2>2. CASE Enters(r) /\ ~local[r].hasRoot
    <3>1. InsertBlock(a, None)
      BY <1>4, <2>2 DEF AttrCommit, Commit
    <3>2. Roots(a) = {} /\ lock[a] = r
      BY <2>1, <2>2 DEF RootInv
    <3>3. \A q \in Requests \ {r} : pc[q] = "attrCommit" => In(q).attr # a
      BY <3>2 DEF RootInv
    <3>4. type'[a] # "none"
      BY <2>1, GrowStep DEF Grows
    <3> QED
      BY <2>1, <3>1, <3>2, <3>3, <3>4, RootNew
  <2>3. CASE ~(Enters(r) /\ ~local[r].hasRoot)
    <3>1. Less
      BY <1>4, <2>3, DeleteTypes DEF AttrCommit, Commit
    <3> QED
      BY <1>1, <2>1, <3>1 DEF Ends
  <2> QED
    BY <2>2, <2>3
<1>5. CASE AttrCreate(r)
  <2>1. Ends(r)
    BY <1>5, Finishes
  <2>2. PICK a \in Attrs :
          /\ type[a] = "none" /\ type' = [type EXCEPT ![a] = In(r).type]
          /\ InsertBlock(a, None) \/ UNCHANGED tree
    BY <1>5 DEF AttrCreate
  <2>3. CASE UNCHANGED tree
    BY <1>1, <2>1, <2>3 DEF tree, Ends
  <2>4. CASE InsertBlock(a, None)
    <3>1. Roots(a) = {}
      BY <2>2 DEF Roots, BlocksOf, RootInv
    <3>2. \A q \in Requests \ {r} : pc[q] = "attrCommit" => In(q).attr # a
      BY <2>2 DEF Flow, FlowOf, Retyping
    <3>3. In(r) \in Inputs[r] /\ In(r).op = "attrCreate" /\ In(r) \in Input
      BY <1>5 DEF AttrCreate, Flow, FlowOf, Ops, Ended, Rows, TypeOK, In
    <3>4. In(r).type \in Types
      BY <3>3, CatalogueAssumption DEF Input
    <3>5. type'[a] # "none"
      BY <2>2, <3>4 DEF Types, Rows, TypeOK
    <3> QED
      BY <2>1, <2>4, <3>1, <3>2, <3>5, RootNew
  <2> QED
    BY <2>2, <2>3, <2>4
<1>6. CASE BlockInsert(r)
  <2> DEFINE parent == IF In(r).op = "blockCreate" THEN In(r).parent ELSE local[r].parent
             a == In(r).attr
  <2>1. Ends(r) /\ a \in Attrs /\ type[a] # "none" /\ type' = type
    BY <1>6, Finishes DEF BlockInsert, Flow, FlowOf, attributes
  <2>2. CASE UNCHANGED tree
    BY <1>1, <2>1, <2>2 DEF tree, Ends
  <2>3. CASE parent \in blocks /\ InsertBlock(a, parent)
    <3>1. parent \in Blocks /\ parent # None
      BY <2>3, CatalogueAssumption DEF Rows, TypeOK
    <3>2. \E n \in Blocks :
            /\ row[n].attr = None /\ blocks' = blocks \cup {n}
            /\ row'[n].attr = a /\ row'[n].parent = parent
            /\ \A c \in Blocks \ {n} : row'[c] = row[c]
      BY <2>1, <2>3, <3>1, InsertIs
    <3> HIDE DEF parent, a
    <3>3. blocks \subseteq Blocks /\ a # None
      BY <2>1, CatalogueAssumption DEF Rows, TypeOK
    <3>4. Fewer /\ NewFit
      BY <2>1, <3>1, <3>2, <3>3 DEF Fewer, NewFit, Roots, BlocksOf, IsRoot
    <3> QED
      BY <2>1, <3>4, RootKept DEF Ends, WillRoot
  <2> QED
    BY <1>6, <2>2, <2>3 DEF BlockInsert
<1>7. CASE BlockMove(r)
  <2>1. Ends(r) /\ blocks' = blocks
    BY <1>7, Finishes DEF BlockMove
  <2>2. \/ row' = row
        \/ /\ In(r).parent \in blocks /\ In(r).block \in blocks
           /\ row' = [row EXCEPT ![In(r).block].parent = In(r).parent]
    BY <1>7 DEF BlockMove
  <2>3. CASE row' = row
    BY <1>1, <2>1, <2>3 DEF Ends
  <2>4. CASE /\ In(r).parent \in blocks /\ In(r).block \in blocks
             /\ row' = [row EXCEPT ![In(r).block].parent = In(r).parent]
    <3>1. In(r).parent # None /\ blocks \subseteq Blocks /\ row \in [Blocks -> BlockRow]
      BY <2>4, CatalogueAssumption DEF Rows, TypeOK
    <3>2. \A b \in blocks : /\ row'[b].attr = row[b].attr
                            /\ row'[b].parent = None => row[b].parent = None
      BY <2>4, <3>1 DEF BlockRow
    <3>3. Fewer /\ NewFit
      BY <2>1, <3>2 DEF Fewer, NewFit, Roots, BlocksOf, IsRoot
    <3> QED
      BY <2>1, <3>3, RootKept DEF Ends, WillRoot
  <2> QED
    BY <2>2, <2>3, <2>4
<1>8. CASE Reads(r) /\ ~AttrRoot(r)
  <2>1. Less
    BY <1>8, ReadsOnly DEF OnlyReads, tree
  <2>2. ASSUME NEW in \in Inputs[r], Begin(r, in) PROVE Away
    BY <2>2, BeginMoves DEF Ops
  <2>3. Away
    BY <1>8, <2>2, AttrReadMoves, AttrTicketMoves, BlockReadMoves, BlockFindMoves,
       TicketTargetMoves, TicketShownMoves, TicketClearMoves, ScanTicketMoves,
       ScanPersonMoves, ScanCheckInMoves DEF Reads, Goes, Ends
  <2> QED
    BY <1>1, <2>1, <2>3
<1>9. CASE AttrRollback(r) \/ BlockDelete(r) \/ TicketShow(r) \/ TicketRemove(r)
  <2>1. Less
    BY <1>9, DeleteTypes DEF AttrRollback, BlockDelete, TicketShow, TicketRemove, tree
  <2> QED
    BY <1>1, <1>9, <2>1, Finishes DEF Ends
<1>10. CASE AttrRemove(r) \/ TicketInsert(r) \/ Admit(r)
  <2>1. Less
    BY <1>10, AttrRemoveMoves, TicketInsertMoves, AdmitMoves, DeleteTypes DEF tree
  <2> QED
    BY <1>1, <1>10, <2>1, AttrRemoveMoves, TicketInsertMoves, AdmitMoves DEF Ends, Goes
<1> QED
  BY <1>2, <1>3, <1>4, <1>5, <1>6, <1>7, <1>8, <1>9, <1>10 DEF Acts

-----------------------------------------------------------------------------
(* Check-ins.                                                              *)

\* A check-in stays exactly as long as its three parts.
Trims ==
    /\ checkIns' \subseteq checkIns /\ admitted' = admitted
    /\ \A c \in checkIns : (c \in checkIns') = ( /\ c[1] \in tickets' /\ c[2] \in people'
                                                 /\ c[3] = None \/ c[3] \in blocks' )
\* Who is in conflict has been, or has seen the check-in.
Told == \A q \in Requests : pc'[q] = "conflict" /\ input'[q].op \in {"scan", "confirm"} =>
            input'[q] = input[q] /\ (pc[q] = "conflict" \/ Triple(q) \in checkIns)

\* The parts of a triple.
LEMMA TripleParts ==
    ASSUME NEW c \in Triples
    PROVE  c[1] \in Tickets /\ c[2] \in People /\ c[3] \in Blocks \cup {None}
BY DEF Triples

\* The parts of a check-in.
LEMMA CheckInParts ==
    ASSUME Rows, CheckInInv, NEW c \in checkIns
    PROVE  /\ c \in Triples /\ c[1] \in tickets /\ c[2] \in people
           /\ c[3] # None => c[3] \in blocks
BY DEF CheckInInv, CheckInConsistent, BlocksOf, Rows, TypeOK

\* Deletions trim the check-ins.
LEMMA DeleteTrims ==
    ASSUME Rows, CheckInInv, NEW bs, NEW ts, NEW ps, Delete(bs, ts, ps), admitted' = admitted
    PROVE  Trims
<1> DEFINE gone == Below(bs)
<1>1. /\ blocks' = blocks \ gone /\ tickets' = tickets \ ts /\ people' = people \ ps
      /\ checkIns' = {c \in checkIns : c[1] \notin ts /\ c[2] \notin ps /\ c[3] \notin gone}
  BY DEF Delete
<1>2. gone \subseteq blocks
  BY DEF Below, Hung
<1> HIDE DEF gone
<1>3. None \notin gone
  BY <1>2, CatalogueAssumption DEF Rows, TypeOK
<1>4. ASSUME NEW c \in checkIns
      PROVE  (c \in checkIns') = ( /\ c[1] \in tickets' /\ c[2] \in people'
                                   /\ c[3] = None \/ c[3] \in blocks' )
  <2>1. c[1] \in tickets /\ c[2] \in people /\ (c[3] # None => c[3] \in blocks)
    BY CheckInParts
  <2>2. (c \in checkIns') = (c[1] \notin ts /\ c[2] \notin ps /\ c[3] \notin gone)
    BY <1>1
  <2> QED
    BY <1>1, <1>3, <2>1, <2>2
<1> QED
  BY <1>1, <1>4 DEF Trims

\* Steps that delete nothing leave them alone.
LEMMA KeepTrims ==
    ASSUME Rows, CheckInInv, checkIns' = checkIns, admitted' = admitted,
           tickets \subseteq tickets', people' = people, blocks \subseteq blocks'
    PROVE  Trims
<1>1. ASSUME NEW c \in checkIns
      PROVE  c[1] \in tickets' /\ c[2] \in people' /\ (c[3] = None \/ c[3] \in blocks')
  <2>1. c[1] \in tickets /\ c[2] \in people /\ (c[3] # None => c[3] \in blocks)
    BY CheckInParts
  <2> QED
    BY <2>1
<1> QED
  BY <1>1 DEF Trims

\* What is over stays over; a check-in that is trimmed is.
LEMMA OverKept ==
    ASSUME Rows, RootInv, CheckInInv, Grows, NEW c \in Triples,
           Over(c) \/ (c \in checkIns /\ Trims /\ c \notin checkIns')
    PROVE  Over(c)'
<1>1. CASE c[1] \in issued \ tickets \/ (c[1] \in tickets /\ c[1] \notin tickets')
  BY <1>1 DEF Over, Grows, Rows, TypeOK
<1>2. CASE c[2] \notin people'
  BY <1>2 DEF Over
<1>3. CASE \/ c[3] \in Blocks \ blocks /\ row[c[3]].attr # None
           \/ c[3] \in blocks /\ c[3] \notin blocks'
  <2>1. c[3] \in Blocks /\ row[c[3]].attr # None
    BY <1>3 DEF RootInv, Rows, TypeOK
  <2>2. c[3] \notin blocks' /\ row'[c[3]].attr # None
    BY <1>3, <2>1 DEF Grows
  <2> QED
    BY <2>1, <2>2 DEF Over
<1>4. ASSUME Over(c) PROVE Over(c)'
  <2>1. c[2] \notin people => c[2] \notin people'
    BY DEF Grows
  <2> QED
    BY <1>1, <1>2, <1>3, <1>4, <2>1 DEF Over
<1>5. ASSUME c \in checkIns, Trims, c \notin checkIns' PROVE Over(c)'
  <2>1. c[1] \in tickets /\ c[2] \in people /\ (c[3] # None => c[3] \in blocks)
    BY <1>5, CheckInParts
  <2>2. c[1] \notin tickets' \/ c[2] \notin people' \/ (c[3] # None /\ c[3] \notin blocks')
    BY <1>5 DEF Trims
  <2> QED
    BY <1>1, <1>2, <1>3, <2>1, <2>2
<1> QED
  BY <1>4, <1>5

\* A step that trims check-ins, and tells no more than what was.
LEMMA TrimStep ==
    ASSUME Rows, RootInv, CheckInInv, Grows, Trims, Told
    PROVE  CheckInInv'
<1>1. CheckInConsistent'
  <2> SUFFICES ASSUME NEW c \in checkIns'
               PROVE  /\ c[1] \in tickets' /\ c[2] \in people' \ Strangers
                      /\ IF target'[c[1]] = None THEN c[3] = None
                         ELSE c[3] \in blocks' /\ row'[c[3]].attr = target'[c[1]]
    BY DEF CheckInConsistent, BlocksOf
  <2>1. /\ c \in checkIns /\ c[1] \in tickets' /\ c[2] \in people'
        /\ c[3] = None \/ c[3] \in blocks'
    BY DEF Trims
  <2>2. /\ c[1] \in issued /\ c[2] \notin Strangers
        /\ IF target[c[1]] = None THEN c[3] = None
           ELSE c[3] \in blocks /\ row[c[3]].attr = target[c[1]]
    BY <2>1 DEF CheckInInv, CheckInConsistent, BlocksOf, Rows, TypeOK
  <2>3. target'[c[1]] = target[c[1]]
    BY <2>2 DEF Grows
  <2>4. CASE target[c[1]] = None
    BY <2>1, <2>2, <2>3, <2>4
  <2>5. CASE target[c[1]] # None
    <3>1. c[3] \in Blocks /\ c[3] # None /\ row[c[3]].attr # None
      BY <2>2, <2>5, CatalogueAssumption DEF Rows, TypeOK
    <3> QED
      BY <2>1, <2>2, <2>3, <2>5, <3>1 DEF Grows
  <2> QED
    BY <2>4, <2>5
<1>2. checkIns' \subseteq checkIns /\ admitted' = admitted /\ checkIns \subseteq Triples
  BY DEF Trims, Rows, TypeOK
<1>3. \A c \in checkIns' : admitted'[c] = 1
  BY <1>2 DEF CheckInInv
<1>4. ASSUME NEW c \in Triples \ checkIns'
      PROVE  admitted'[c] = 0 \/ (admitted'[c] = 1 /\ Over(c)')
  <2>1. CASE c \in checkIns
    BY <1>2, <2>1, OverKept DEF CheckInInv
  <2>2. CASE c \notin checkIns
    BY <1>2, <2>2, OverKept DEF CheckInInv
  <2> QED
    BY <2>1, <2>2
<1>5. ASSUME NEW q \in Requests, pc'[q] = "conflict", input'[q].op \in {"scan", "confirm"}
      PROVE  Triple(q)' \in Triples /\ admitted'[Triple(q)'] = 1
  <2>1. input'[q] = input[q] /\ (pc[q] = "conflict" \/ Triple(q) \in checkIns)
    BY <1>5 DEF Told
  <2>2. Triple(q)' = Triple(q)
    BY <2>1 DEF Triple, In
  <2>3. Triple(q) \in Triples /\ admitted[Triple(q)] = 1
    BY <1>2, <1>5, <2>1 DEF CheckInInv, ConflictMeansAdmitted, In
  <2> QED
    BY <1>2, <2>2, <2>3
<1> QED
  BY <1>1, <1>3, <1>4, <1>5 DEF CheckInInv, ConflictMeansAdmitted, In

\* Only the index and the check-in that was found tell of a check-in.
LEMMA ToldStep ==
    ASSUME Rows, Flow, NEW r \in Requests, Acts(r)
    PROVE  Told
<1> SUFFICES ASSUME NEW q \in Requests, pc'[q] = "conflict", input'[q].op \in {"scan", "confirm"}
             PROVE  input'[q] = input[q] /\ (pc[q] = "conflict" \/ Triple(q) \in checkIns)
  BY DEF Told
<1>1. Moves(r) /\ FlowOf(r)
  BY AllMove DEF Flow
<1>2. CASE q # r
  BY <1>1, <1>2 DEF Moves, Same
<1>3. CASE q = r
  <2>1. ASSUME NEW in \in Inputs[r], Begin(r, in) PROVE FALSE
    BY <1>3, <2>1, BeginMoves DEF Ops
  <2>2. CASE AttrTicket(r)
    BY <1>1, <1>3, <2>2, AttrTicketMoves DEF Goes, FlowOf, Retyping, In
  <2>3. CASE ScanCheckIn(r)
    BY <1>3, <2>3, ScanCheckInMoves DEF Goes, Ends
  <2>4. CASE TicketInsert(r)
    BY <1>1, <1>3, <2>4, TicketInsertMoves DEF Goes, Ends, FlowOf, In
  <2>5. CASE Admit(r)
    BY <1>3, <2>5, AdmitMoves DEF Goes, Ends
  <2>6. CASE Reads(r) /\ ~AttrTicket(r) /\ ~ScanCheckIn(r)
    BY <1>3, <2>1, <2>6, AttrReadMoves, AttrRootMoves, BlockReadMoves, BlockFindMoves,
       TicketTargetMoves, TicketShownMoves, TicketClearMoves, ScanTicketMoves, ScanPersonMoves
       DEF Reads, Goes, Ends
  <2>7. CASE \/ AttrCreate(r) \/ AttrRollback(r) \/ BlockInsert(r) \/ BlockMove(r)
             \/ BlockDelete(r) \/ TicketShow(r) \/ TicketRemove(r)
    BY <1>3, <2>7, Finishes DEF Ends
  <2>8. CASE AttrWrite(r) \/ AttrCommit(r) \/ AttrRemove(r)
    BY <1>3, <2>8, AttrWriteMoves, AttrCommitMoves, AttrRemoveMoves DEF Goes, Ends
  <2> QED
    BY <2>2, <2>3, <2>4, <2>5, <2>6, <2>7, <2>8 DEF Acts
<1> QED
  BY <1>2, <1>3

\* The check-in that a confirm inserts.
LEMMA AdmitStep ==
    ASSUME Rows, Flow, CheckInInv, NEW r \in Requests, Admit(r), checkIns' # checkIns
    PROVE  CheckInInv'
<1> DEFINE n == Triple(r)
<1>1. /\ Ends(r) /\ n \notin checkIns /\ pc[r] = "admit"
      /\ In(r).ticket \in tickets /\ In(r).person \in people /\ In(r).block \in blocks \cup {None}
      /\ checkIns' = checkIns \cup {n}
      /\ admitted' = [admitted EXCEPT ![n] = @ + 1]
      /\ UNCHANGED <<attributes, tree, ticketing, visitors, raced, looped>>
      /\ Moves(r)
  BY AdmitMoves
<1>2. /\ In(r).person \in People \ Strangers
      /\ IF target[In(r).ticket] = None THEN In(r).block = None
         ELSE In(r).block \in Blocks /\ row[In(r).block].attr = target[In(r).ticket]
  BY <1>1 DEF Flow, FlowOf, Scanning
<1>3. n \in Triples /\ n[1] = In(r).ticket /\ n[2] = In(r).person /\ n[3] = In(r).block
  BY <1>1 DEF Triple, Triples, Rows, TypeOK
<1> HIDE DEF n
<1>4. admitted[n] = 0
  <2>1. tickets \subseteq issued /\ None \notin Blocks
    BY CatalogueAssumption DEF Rows, TypeOK
  <2>2. ~Over(n)
    BY <1>1, <1>3, <2>1 DEF Over
  <2> QED
    BY <1>1, <1>3, <2>2 DEF CheckInInv
<1>5. admitted'[n] = 1 /\ \A c \in Triples \ {n} : admitted'[c] = admitted[c]
  BY <1>1, <1>3, <1>4 DEF Rows, TypeOK
<1>6. checkIns \subseteq Triples
  BY DEF Rows, TypeOK
<1>7. CheckInConsistent'
  <2>1. /\ n[1] \in tickets /\ n[2] \in people \ Strangers
        /\ IF target[n[1]] = None THEN n[3] = None ELSE n[3] \in BlocksOf(target[n[1]])
    BY <1>1, <1>2, <1>3, CatalogueAssumption DEF BlocksOf
  <2>2. /\ tickets' = tickets /\ people' = people /\ target' = target
        /\ blocks' = blocks /\ row' = row
    BY <1>1 DEF tree, ticketing, visitors
  <2> QED
    BY <1>1, <2>1, <2>2 DEF CheckInInv, CheckInConsistent, BlocksOf
<1>8. \A c \in checkIns' : admitted'[c] = 1
  BY <1>1, <1>5, <1>6 DEF CheckInInv
<1>9. \A c \in Triples \ checkIns' : admitted'[c] = 0 \/ (admitted'[c] = 1 /\ Over(c)')
  <2>1. \A c \in Triples : Over(c)' = Over(c)
    BY <1>1 DEF Over, tree, ticketing, visitors
  <2> QED
    BY <1>1, <1>5, <2>1 DEF CheckInInv
<1>10. ASSUME NEW q \in Requests, pc'[q] = "conflict", input'[q].op \in {"scan", "confirm"}
       PROVE  Triple(q)' \in Triples /\ admitted'[Triple(q)'] = 1
  <2>1. q # r
    BY <1>1, <1>10 DEF Ends
  <2>2. pc[q] = "conflict" /\ input'[q] = input[q]
    BY <1>1, <1>10, <2>1 DEF Moves, Same
  <2>3. Triple(q)' = Triple(q)
    BY <2>2 DEF Triple, In
  <2>4. Triple(q) \in Triples /\ admitted[Triple(q)] = 1
    BY <1>10, <2>2 DEF CheckInInv, ConflictMeansAdmitted, In
  <2> QED
    BY <1>5, <2>3, <2>4
<1> QED
  BY <1>7, <1>8, <1>9, <1>10 DEF CheckInInv, ConflictMeansAdmitted, In

\* All steps of a request, for the check-ins.
LEMMA CheckInStep ==
    ASSUME Rows, Flow, RootInv, CheckInInv, NEW r \in Requests, Acts(r)
    PROVE  CheckInInv'
<1>1. Grows /\ Told
  BY GrowStep, ToldStep
<1>2. ASSUME Trims PROVE CheckInInv'
  BY <1>1, <1>2, TrimStep
<1>4. CASE Reads(r)
  <2>1. /\ checkIns' = checkIns /\ admitted' = admitted /\ tickets' = tickets
        /\ people' = people /\ blocks' = blocks
    BY <1>4, ReadsOnly DEF OnlyReads, tree, ticketing, visitors
  <2> QED
    BY <1>2, <2>1, KeepTrims
<1>5. CASE AttrCreate(r)
  <2>1. UNCHANGED <<ticketing, visitors, checkIns, admitted>>
    BY <1>5 DEF AttrCreate
  <2>2. blocks \subseteq blocks'
    BY <1>5 DEF AttrCreate, InsertBlock, tree
  <2> QED
    BY <1>2, <2>1, <2>2, KeepTrims DEF ticketing, visitors
<1>6. CASE AttrWrite(r) \/ AttrRollback(r) \/ BlockMove(r) \/ TicketShow(r)
  <2>1. /\ checkIns' = checkIns /\ admitted' = admitted /\ tickets' = tickets
        /\ people' = people /\ blocks' = blocks
    BY <1>6, AttrWriteMoves DEF AttrRollback, BlockMove, TicketShow, tree, ticketing, visitors
  <2> QED
    BY <1>2, <2>1, KeepTrims
<1>7. CASE AttrCommit(r)
  <2>1. /\ admitted' = admitted
        /\ \/ InsertBlock(In(r).attr, None) /\ UNCHANGED <<tickets, people, checkIns>>
           \/ Delete(Dropped(r), {}, {})
    BY <1>7 DEF AttrCommit, Commit
  <2>2. CASE InsertBlock(In(r).attr, None) /\ UNCHANGED <<tickets, people, checkIns>>
    <3>1. blocks \subseteq blocks'
      BY <2>2 DEF InsertBlock
    <3> QED
      BY <1>2, <2>1, <2>2, <3>1, KeepTrims
  <2>3. CASE Delete(Dropped(r), {}, {})
    BY <1>2, <2>1, <2>3, DeleteTrims
  <2> QED
    BY <2>1, <2>2, <2>3
<1>8. CASE AttrRemove(r)
  <2>1. admitted' = admitted
    BY <1>8, AttrRemoveMoves
  <2>2. \/ UNCHANGED <<type, blocks, tickets, people, checkIns, shown, chosen>>
        \/ Delete(BlocksOf(In(r).attr), {t \in tickets : target[t] = In(r).attr}, {})
    BY <1>8, AttrRemoveMoves
  <2>3. CASE UNCHANGED <<type, blocks, tickets, people, checkIns, shown, chosen>>
    BY <1>2, <2>1, <2>3, KeepTrims
  <2>4. CASE Delete(BlocksOf(In(r).attr), {t \in tickets : target[t] = In(r).attr}, {})
    BY <1>2, <2>1, <2>4, DeleteTrims
  <2> QED
    BY <2>2, <2>3, <2>4
<1>9. CASE BlockInsert(r)
  <2>1. UNCHANGED <<ticketing, visitors, checkIns, admitted>>
    BY <1>9 DEF BlockInsert
  <2>2. blocks \subseteq blocks'
    BY <1>9 DEF BlockInsert, InsertBlock, tree
  <2> QED
    BY <1>2, <2>1, <2>2, KeepTrims DEF ticketing, visitors
<1>10. CASE BlockDelete(r)
  <2>1. Delete({In(r).block}, {}, {}) /\ admitted' = admitted
    BY <1>10 DEF BlockDelete
  <2> QED
    BY <1>2, <2>1, DeleteTrims
<1>11. CASE TicketRemove(r)
  <2>1. Delete({}, {In(r).ticket}, {}) /\ admitted' = admitted
    BY <1>11 DEF TicketRemove
  <2> QED
    BY <1>2, <2>1, DeleteTrims
<1>12. CASE TicketInsert(r)
  <2>1. UNCHANGED <<tree, visitors, checkIns, admitted>>
    BY <1>12, TicketInsertMoves
  <2>2. tickets \subseteq tickets'
    BY <1>12, TicketInsertMoves DEF ticketing
  <2> QED
    BY <1>2, <2>1, <2>2, KeepTrims DEF tree, visitors
<1>13. CASE Admit(r)
  <2>1. CASE checkIns' # checkIns
    BY <1>13, <2>1, AdmitStep
  <2>2. CASE checkIns' = checkIns
    <3>1. /\ admitted' = admitted /\ tickets' = tickets /\ people' = people /\ blocks' = blocks
      BY <1>13, <2>2, AdmitMoves DEF tree, ticketing, visitors
    <3> QED
      BY <1>2, <2>2, <3>1, KeepTrims
  <2> QED
    BY <2>1, <2>2
<1> QED
  BY <1>4, <1>5, <1>6, <1>7, <1>8, <1>9, <1>10, <1>11, <1>12, <1>13 DEF Acts

-----------------------------------------------------------------------------
(* Tickets on block attributes.                                            *)

Seen(r) == SeenType(r) /\ SeenTickets(r) /\ SeenBlock(r)
\* r writes the type of an attribute, or a ticket on it, only where it tells
\* the others.
Tells(r) ==
    /\ \A a \in Attrs : type[a] # "none" => type'[a] = type[a] \/ Touches(r, a)
    /\ \A t \in tickets' : t \in tickets \/ target'[t] = None \/ Touches(r, target'[t])
\* r goes on with what it has seen, or with nothing.
Rests(r) ==
    \/ pc'[r] \notin Retyping \cup {"ticketShown", "ticketInsert"}
    \/ /\ input'[r] = input[r] /\ local'[r].type = local[r].type
       /\ local'[r].touched = local[r].touched
       /\ UNCHANGED <<type, tickets, target>>
       /\ \/ pc[r] \in Retyping \ {"attrTicket"} /\ pc'[r] \in Retyping \ {"attrTicket"}
          \/ pc[r] \in {"ticketShown", "ticketInsert"} /\ pc'[r] \in {"ticketShown", "ticketInsert"}

\* What another request has seen still holds, or it has been told.
LEMMA SeenKept ==
    ASSUME Rows, Flow, TicketInv, Grows, NEW r \in Requests, Moves(r), Tells(r),
           NEW q \in Requests \ {r}
    PROVE  Seen(q)'
<1> DEFINE a == In(q).attr
           busy == pc[q] \in Retyping \cup {"ticketShown", "ticketInsert"}
<1>1. /\ pc'[q] = pc[q] /\ In(q)' = In(q) /\ local'[q].type = local[q].type
      /\ local[q].touched \subseteq local'[q].touched
  BY DEF Moves, Same, In
<1>2. Seen(q) /\ FlowOf(q)
  BY DEF TicketInv, Seen, Flow
<1>3. CASE ~busy
  BY <1>1, <1>3 DEF Seen, SeenType, SeenTickets, SeenBlock
<1>4. CASE busy /\ a \notin Attrs
  <2>1. pc[q] \in {"ticketShown", "ticketInsert"} /\ a = None
    BY <1>2, <1>4 DEF FlowOf, Seen, SeenBlock
  <2> QED
    BY <1>1, <2>1 DEF Seen, SeenType, SeenTickets, SeenBlock, Retyping
<1>5. CASE busy /\ a \in Attrs
  <2>1. type[a] # "none" /\ a # None
    BY <1>2, <1>5, CatalogueAssumption DEF FlowOf, Seen, SeenBlock
  <2>2. type'[a] # "none"
    BY <1>5, <2>1 DEF Grows
  <2>3. pc[q] \notin Ended \cup {"idle"}
    BY <1>5 DEF Ended, Retyping
  <2>4. CASE a \in local'[q].touched
    BY <1>1, <1>5, <2>2, <2>4 DEF Seen, SeenType, SeenTickets, SeenBlock, Untouched
  <2>5. CASE a \notin local'[q].touched
    <3>1. ~Touches(r, a) /\ a \notin local[q].touched
      BY <1>1, <2>3, <2>5 DEF Touches
    <3>2. type'[a] = type[a]
      BY <1>5, <2>1, <3>1 DEF Tells
    <3>3. \A t \in tickets' : target'[t] = a => t \in tickets /\ target[t] = a
      BY <2>1, <3>1 DEF Tells, Grows, Rows, TypeOK
    <3> QED
      BY <1>1, <1>2, <1>5, <3>1, <3>2, <3>3 DEF Seen, SeenType, SeenTickets, SeenBlock, Untouched
  <2> QED
    BY <2>4, <2>5
<1> QED
  BY <1>3, <1>4, <1>5

\* Who rests has seen what it had.
LEMMA Rested ==
    ASSUME NEW r \in Requests, Seen(r), Rests(r)
    PROVE  Seen(r)'
<1>1. CASE pc'[r] \notin Retyping \cup {"ticketShown", "ticketInsert"}
  BY <1>1 DEF Seen, SeenType, SeenTickets, SeenBlock
<1>2. CASE /\ input'[r] = input[r] /\ local'[r].type = local[r].type
           /\ local'[r].touched = local[r].touched
           /\ UNCHANGED <<type, tickets, target>>
           /\ pc[r] \in Retyping \ {"attrTicket"} /\ pc'[r] \in Retyping \ {"attrTicket"}
  BY <1>2 DEF Seen, SeenType, SeenTickets, SeenBlock, Untouched, In, Retyping
<1>3. CASE /\ input'[r] = input[r] /\ local'[r].type = local[r].type
           /\ local'[r].touched = local[r].touched
           /\ UNCHANGED <<type, tickets, target>>
           /\ pc[r] \in {"ticketShown", "ticketInsert"} /\ pc'[r] \in {"ticketShown", "ticketInsert"}
  BY <1>3 DEF Seen, SeenType, SeenTickets, SeenBlock, Untouched, In, Retyping
<1> QED
  BY <1>1, <1>2, <1>3 DEF Rests

\* A step that tells what it writes.
LEMMA TicketKept ==
    ASSUME Rows, Flow, TicketInv, Grows, NEW r \in Requests, Moves(r), Tells(r),
           Seen(r)', TicketUnlessRaced',
           \A t \in tickets' : t \in tickets \/ target'[t] = None \/ type'[target'[t]] # "none"
    PROVE  TicketInv'
<1>1. \A q \in Requests : Seen(q)'
  BY SeenKept
<1>2. ASSUME NEW t \in tickets', target'[t] # None PROVE type'[target'[t]] # "none"
  <2>1. CASE t \in tickets
    BY <1>2, <2>1 DEF TicketInv, Grows, Rows, TypeOK
  <2> QED
    BY <1>2, <2>1
<1> QED
  BY <1>1, <1>2 DEF TicketInv, Seen

\* A step that adds no ticket and leaves the types of the attributes there are.
LEMMA TicketQuiet ==
    ASSUME Rows, Flow, TicketInv, Grows, NEW r \in Requests, Moves(r), Seen(r)',
           tickets' \subseteq tickets, raced \subseteq raced',
           \A a \in Attrs : type[a] # "none" => type'[a] = type[a]
    PROVE  TicketInv'
<1>1. Tells(r)
  BY DEF Tells
<1>2. TicketUnlessRaced'
  <2> SUFFICES ASSUME NEW t \in tickets', target'[t] # None
               PROVE  target'[t] \in raced' \/ type'[target'[t]] = "block"
    BY DEF TicketUnlessRaced
  <2>1. t \in tickets /\ target'[t] = target[t] /\ target[t] \in Attrs
    BY DEF Grows, Rows, TypeOK
  <2>2. type[target[t]] # "none" /\ (target[t] \in raced \/ type[target[t]] = "block")
    BY <2>1 DEF TicketInv, TicketUnlessRaced
  <2> QED
    BY <2>1, <2>2
<1> QED
  BY <1>1, <1>2, TicketKept

\* The commit of an update races, or acts on what it has seen.
LEMMA TicketCommit ==
    ASSUME Rows, Flow, RootInv, TicketInv, NEW r \in Requests, AttrCommit(r)
    PROVE  TicketInv'
<1> DEFINE a == In(r).attr
<1>1. /\ Moves(r) /\ Ends(r) /\ pc[r] = "attrCommit" /\ Touches(r, a)
      /\ a \in Attrs /\ local[r].type \in Types
  BY AttrCommitMoves
<1>2. /\ type' = [type EXCEPT ![a] = TypeAfter(r)]
      /\ raced' = IF a \in local[r].touched THEN raced \cup {a} ELSE raced
      /\ target' = target
  BY DEF AttrCommit, Commit, Race
<1>3. tickets' \subseteq tickets
  BY DeleteTypes DEF AttrCommit, Commit
<1>4. \A b \in Attrs \ {a} : type'[b] = type[b]
  BY <1>1, <1>2 DEF Rows, TypeOK
<1>5. Tells(r)
  BY <1>1, <1>3, <1>4 DEF Tells
<1>6. Seen(r)'
  BY <1>1 DEF Ends, Seen, SeenType, SeenTickets, SeenBlock, Retyping
<1>7. TicketUnlessRaced'
  <2> SUFFICES ASSUME NEW t \in tickets, target[t] # None
               PROVE  target[t] \in raced' \/ type'[target[t]] = "block"
    BY <1>2, <1>3 DEF TicketUnlessRaced
  <2>1. target[t] \in Attrs /\ (target[t] \in raced \/ type[target[t]] = "block")
    BY DEF TicketInv, TicketUnlessRaced, Rows, TypeOK
  <2>2. CASE target[t] # a \/ target[t] \in raced
    BY <1>2, <1>4, <2>1, <2>2
  <2>3. CASE target[t] = a /\ a \in local[r].touched
    BY <1>2, <2>3
  <2>4. CASE target[t] = a /\ a \notin local[r].touched /\ a \notin raced
    <3>1. local[r].type = "block" /\ type[a] = "block"
      BY <1>1, <2>1, <2>4 DEF TicketInv, SeenType, Untouched, Retyping
    <3>2. In(r).type \in {None, "block"}
      BY <1>1, <2>4, <3>1 DEF TicketInv, SeenTickets, Untouched, Retyping
    <3>3. TypeAfter(r) = "block"
      BY <3>1, <3>2 DEF TypeAfter
    <3> QED
      BY <1>1, <1>2, <2>4, <3>3 DEF Rows, TypeOK
  <2> QED
    BY <2>2, <2>3, <2>4
<1>8. Grows
  BY GrowStep DEF Acts
<1> QED
  BY <1>1, <1>3, <1>5, <1>6, <1>7, <1>8, TicketKept

\* The removal of an attribute takes its ticket.
LEMMA TicketAttrGone ==
    ASSUME Rows, Flow, RootInv, TicketInv, NEW r \in Requests, AttrRemove(r)
    PROVE  TicketInv'
<1> DEFINE a == In(r).attr
<1>1. Moves(r) /\ Ends(r) /\ target' = target /\ raced' = raced /\ Grows
  BY AttrRemoveMoves, GrowStep DEF Acts
<1>2. Seen(r)'
  BY <1>1 DEF Ends, Seen, SeenType, SeenTickets, SeenBlock, Retyping
<1>3. CASE UNCHANGED <<type, blocks, tickets, people, checkIns, shown, chosen>>
  BY <1>1, <1>2, <1>3, TicketQuiet
<1>4. CASE /\ a \in Present /\ type' = [type EXCEPT ![a] = "gone"] /\ Touches(r, a)
           /\ Delete(BlocksOf(a), {t \in tickets : target[t] = a}, {})
  <2>1. \A t \in tickets' : t \in tickets /\ target[t] # a
    BY <1>4 DEF Delete
  <2>2. \A b \in Attrs \ {a} : type'[b] = type[b]
    BY <1>4 DEF Rows, TypeOK
  <2>3. Tells(r)
    BY <1>4, <2>1, <2>2 DEF Tells
  <2>4. TicketUnlessRaced'
    BY <1>1, <2>1, <2>2 DEF TicketInv, TicketUnlessRaced, Rows, TypeOK
  <2> QED
    BY <1>1, <1>2, <2>1, <2>3, <2>4, TicketKept
<1> QED
  BY <1>3, <1>4, AttrRemoveMoves

\* A new ticket races, or is on an attribute that was seen to be of type block.
LEMMA TicketNew ==
    ASSUME Rows, Flow, RootInv, TicketInv, NEW r \in Requests, TicketInsert(r)
    PROVE  TicketInv'
<1> DEFINE a == In(r).attr
<1>1. /\ Moves(r) /\ pc[r] = "ticketInsert" /\ Grows
      /\ UNCHANGED <<attributes, tree, visitors, checkIns, admitted, looped>>
  BY TicketInsertMoves, GrowStep DEF Acts
<1>2. Seen(r)'
  BY TicketInsertMoves DEF Ends, Goes, Seen, SeenType, SeenTickets, SeenBlock, Retyping
<1>3. CASE UNCHANGED <<ticketing, raced>>
  BY <1>1, <1>2, <1>3, TicketQuiet DEF ticketing, attributes
<1>4. CASE /\ Race(r, a)
           /\ a # None => a \in Present
           /\ \E t \in Tickets \ issued :
                /\ tickets' = tickets \cup {t}
                /\ target' = [target EXCEPT ![t] = a]
  <2>1. PICK t \in Tickets \ issued :
          tickets' = tickets \cup {t} /\ target' = [target EXCEPT ![t] = a]
    BY <1>4
  <2>2. tickets \subseteq issued /\ issued \subseteq Tickets /\ target \in [Tickets -> Attrs \cup {None}]
    BY DEF Rows, TypeOK
  <2>3. t \notin tickets /\ target'[t] = a /\ \A s \in tickets : target'[s] = target[s]
    BY <2>1, <2>2
  <2>4. type' = type /\ (a # None => type[a] # "none")
    BY <1>1, <1>4 DEF attributes, Present, Types
  <2>5. Tells(r)
    BY <2>1, <2>3, <2>4, TicketTouches DEF Tells
  <2>6. raced \subseteq raced'
    BY <1>4 DEF Race
  <2>7. a # None => a \in raced' \/ type[a] = "block"
    <3>1. CASE a \in local[r].touched
      BY <1>4, <3>1 DEF Race
    <3>2. CASE a \notin local[r].touched
      BY <1>1, <3>2 DEF TicketInv, SeenBlock, Untouched
    <3> QED
      BY <3>1, <3>2
  <2>8. TicketUnlessRaced'
    BY <2>1, <2>3, <2>4, <2>6, <2>7 DEF TicketInv, TicketUnlessRaced
  <2> QED
    BY <1>1, <1>2, <2>1, <2>3, <2>4, <2>5, <2>8, TicketKept
<1> QED
  BY <1>3, <1>4, TicketInsertMoves

\* All steps of a request, for the tickets.
LEMMA TicketStep ==
    ASSUME Rows, Flow, RootInv, TicketInv, NEW r \in Requests, Acts(r)
    PROVE  TicketInv'
<1>1. Moves(r) /\ Grows /\ Seen(r) /\ FlowOf(r)
  BY AllMove, GrowStep DEF TicketInv, Seen, Flow
<1>2. CASE Reads(r)
  <2>1. UNCHANGED <<type, tickets, target, raced>>
    BY <1>2, ReadsOnly DEF OnlyReads, attributes, ticketing
  <2>2. Seen(r)'
    <3>1. ASSUME NEW in \in Inputs[r], Begin(r, in) PROVE Rests(r)
      BY <3>1, BeginMoves DEF Rests, Ops, Retyping
    <3>2. CASE AttrRead(r)
      BY <2>1, <3>2, AttrReadMoves DEF Seen, SeenType, SeenTickets, SeenBlock, Retyping, Ends,
         Goes, In
    <3>3. CASE AttrTicket(r)
      BY <1>1, <2>1, <3>3, AttrTicketMoves DEF Seen, SeenType, SeenTickets, SeenBlock, Retyping,
         Goes, In, Untouched
    <3>4. CASE AttrRoot(r)
      <4>1. /\ input'[r] = input[r] /\ local'[r].type = local[r].type
            /\ local'[r].touched = local[r].touched
            /\ pc[r] = "attrRoot" /\ pc'[r] = "attrCommit"
        BY <3>4, AttrRootMoves DEF Goes
      <4>2. Rests(r)
        BY <2>1, <4>1 DEF Rests, Retyping
      <4> QED
        BY <1>1, <4>2, Rested
    <3>5. CASE TicketTarget(r)
      BY <2>1, <3>5, TicketTargetMoves DEF Seen, SeenType, SeenTickets, SeenBlock, Retyping, Ends,
         Goes, In, Present, Types
    <3>6. CASE TicketShown(r)
      <4>1. /\ pc[r] \in {"ticketShown", "ticketUpdate"}
            /\ \/ pc'[r] \in {"done", "refused", "ticketClear"}
               \/ /\ pc'[r] = "ticketInsert" /\ input'[r] = input[r]
                  /\ In(r).op # "ticketUpdate" /\ local'[r] = local[r]
        BY <3>6, TicketShownMoves DEF Goes, Ends
      <4>2. pc[r] = "ticketUpdate" => In(r).op = "ticketUpdate"
        BY <1>1 DEF FlowOf, Ops
      <4>3. Rests(r)
        BY <2>1, <4>1, <4>2 DEF Rests, Retyping
      <4> QED
        BY <1>1, <4>3, Rested
    <3>7. CASE ~AttrRead(r) /\ ~AttrTicket(r) /\ ~AttrRoot(r) /\ ~TicketTarget(r) /\ ~TicketShown(r)
      BY <1>2, <3>1, <3>7, BlockReadMoves, BlockFindMoves, TicketClearMoves, ScanTicketMoves,
         ScanPersonMoves, ScanCheckInMoves, Rested, <1>1
         DEF Reads, Rests, Goes, Ends, Retyping
    <3> QED
      BY <1>1, <3>2, <3>3, <3>4, <3>5, <3>6, <3>7, Rested
  <2> QED
    BY <1>1, <2>1, <2>2, TicketQuiet
<1>3. CASE AttrWrite(r)
  <2>1. UNCHANGED <<type, tickets, target, raced>>
    BY <1>3, AttrWriteMoves DEF ticketing
  <2>2. Rests(r)
    BY <1>3, <2>1, AttrWriteMoves DEF Rests, Goes, Ends, Retyping
  <2> QED
    BY <1>1, <2>1, <2>2, Rested, TicketQuiet
<1>4. ASSUME Ends(r) PROVE Seen(r)'
  BY <1>4 DEF Ends, Seen, SeenType, SeenTickets, SeenBlock, Retyping
<1>5. CASE AttrCreate(r)
  <2>1. tickets' = tickets /\ raced' = raced /\ Ends(r)
    BY <1>5, Finishes DEF AttrCreate, ticketing
  <2>2. \A a \in Attrs : type[a] # "none" => type'[a] = type[a]
    BY <1>5 DEF AttrCreate, Rows, TypeOK
  <2> QED
    BY <1>1, <1>4, <2>1, <2>2, TicketQuiet
<1>6. CASE AttrRollback(r) \/ BlockInsert(r) \/ BlockMove(r) \/ BlockDelete(r) \/ TicketShow(r) \/ TicketRemove(r)
  <2>1. tickets' \subseteq tickets /\ raced' = raced /\ type' = type /\ Ends(r)
    BY <1>6, Finishes, DeleteTypes
       DEF AttrRollback, BlockInsert, BlockMove, BlockDelete, TicketShow, TicketRemove,
           ticketing, attributes
  <2> QED
    BY <1>1, <1>4, <2>1, TicketQuiet
<1>7. CASE Admit(r)
  <2>1. tickets' = tickets /\ raced' = raced /\ type' = type
    BY <1>7, AdmitMoves DEF ticketing, attributes
  <2>2. Rests(r)
    BY <1>7, AdmitMoves DEF Rests, Goes, Ends, Retyping
  <2> QED
    BY <1>1, <2>1, <2>2, Rested, TicketQuiet
<1> QED
  BY <1>2, <1>3, <1>5, <1>6, <1>7, TicketCommit, TicketAttrGone, TicketNew DEF Acts

-----------------------------------------------------------------------------
(* The tree.                                                               *)

\* What hangs below S: S itself and, with every block, its children.
LEMMA HungIs ==
    ASSUME NEW bs, NEW rw, NEW S
    PROVE  /\ Hung(bs, rw, S) \subseteq bs /\ S \cap bs \subseteq Hung(bs, rw, S)
           /\ \A b \in bs : rw[b].parent \in Hung(bs, rw, S) => b \in Hung(bs, rw, S)
BY DEF Hung

\* It is the least such set.
LEMMA HungLeast ==
    ASSUME NEW bs, NEW rw, NEW S, NEW T \in SUBSET bs, S \cap bs \subseteq T,
           \A b \in bs : rw[b].parent \in T => b \in T
    PROVE  Hung(bs, rw, S) \subseteq T
BY DEF Hung

\* A block without a parent hangs below itself only.
LEMMA HungTop ==
    ASSUME NEW bs, NEW rw, NEW S, NEW b \in Hung(bs, rw, S), rw[b].parent \notin bs
    PROVE  b \in S
<1> SUFFICES ASSUME b \notin S PROVE FALSE
  OBVIOUS
<1> DEFINE T == Hung(bs, rw, S) \ {b}
<1>1. T \in SUBSET bs /\ S \cap bs \subseteq T
  BY HungIs
<1>2. \A c \in bs : rw[c].parent \in T => c \in T
  BY HungIs
<1>3. Hung(bs, rw, S) \subseteq T
  <2> HIDE DEF T
  <2> QED
    BY <1>1, <1>2, HungLeast
<1> QED
  BY <1>3

\* Nothing hangs below nothing.
LEMMA HungNone ==
    ASSUME NEW bs, NEW rw PROVE Hung(bs, rw, {}) = {}
<1>1. Hung(bs, rw, {}) \subseteq {}
  BY HungLeast
<1> QED
  BY <1>1

\* A cascade leaves the rest hanging below what is left of S.
LEMMA HungLeft ==
    ASSUME NEW bs, NEW rw, NEW S, NEW D
    PROVE  Hung(bs, rw, S) \ Hung(bs, rw, D)
             \subseteq Hung(bs \ Hung(bs, rw, D), rw, S)
<1> DEFINE gone == Hung(bs, rw, D)
           left == bs \ gone
           T == Hung(left, rw, S) \cup gone
<1>1. gone \subseteq bs /\ \A b \in bs : rw[b].parent \in gone => b \in gone
  BY HungIs
<1>2. /\ Hung(left, rw, S) \subseteq left /\ S \cap left \subseteq Hung(left, rw, S)
      /\ \A b \in left : rw[b].parent \in Hung(left, rw, S) => b \in Hung(left, rw, S)
  BY HungIs
<1> HIDE DEF gone
<1>3. T \in SUBSET bs /\ S \cap bs \subseteq T
  BY <1>1, <1>2
<1>4. \A b \in bs : rw[b].parent \in T => b \in T
  BY <1>1, <1>2
<1>5. Hung(bs, rw, S) \subseteq T
  <2> HIDE DEF T
  <2> QED
    BY <1>3, <1>4, HungLeast
<1> QED
  BY <1>5 DEF gone

\* A new block hangs where its parent does, or is a new root; the others hang
\* where they did.
LEMMA HungMore ==
    ASSUME NEW bs, NEW rw, NEW rw2, NEW S, NEW S2, NEW n, n \notin bs,
           \A b \in bs : rw2[b] = rw[b], S \subseteq S2
    PROVE  /\ Hung(bs, rw, S) \subseteq Hung(bs \cup {n}, rw2, S2)
           /\ n \in S2 \/ rw2[n].parent \in Hung(bs, rw, S) => n \in Hung(bs \cup {n}, rw2, S2)
<1> DEFINE more == bs \cup {n}
           T == Hung(more, rw2, S2) \cap bs
<1>1. /\ S2 \cap more \subseteq Hung(more, rw2, S2)
      /\ \A b \in more : rw2[b].parent \in Hung(more, rw2, S2) => b \in Hung(more, rw2, S2)
  BY HungIs
<1>2. T \in SUBSET bs /\ S \cap bs \subseteq T
  BY <1>1
<1>3. \A b \in bs : rw[b].parent \in T => b \in T
  BY <1>1
<1>4. Hung(bs, rw, S) \subseteq T
  BY <1>2, <1>3, HungLeast
<1> QED
  BY <1>1, <1>4

\* A block that is put under one that does not hang below it takes along what
\* hangs below it: what hung below S still does.
LEMMA HungMoved ==
    ASSUME NEW bs, NEW rw, NEW rw2, NEW S, NEW b \in bs,
           \A c \in bs \ {b} : rw2[c] = rw[c],
           rw2[b].parent \in Hung(bs, rw, S), rw2[b].parent \notin Hung(bs, rw, {b})
    PROVE  Hung(bs, rw, S) \subseteq Hung(bs, rw2, S)
<1> DEFINE under == Hung(bs, rw, {b})
           new == Hung(bs, rw2, S)
<1>1. b \in under /\ under \subseteq bs /\ \A c \in bs : rw[c].parent \in under => c \in under
  BY HungIs
<1>2. /\ new \subseteq bs /\ S \cap bs \subseteq new
      /\ \A c \in bs : rw2[c].parent \in new => c \in new
  BY HungIs
<1>3. Hung(bs, rw, S) \subseteq new \cup under
  <2> DEFINE T == new \cup under
  <2> HIDE DEF new, under
  <2>1. T \in SUBSET bs /\ S \cap bs \subseteq T
    BY <1>1, <1>2
  <2>2. \A c \in bs : rw[c].parent \in T => c \in T
    BY <1>1, <1>2
  <2> HIDE DEF T
  <2>3. Hung(bs, rw, S) \subseteq T
    BY <2>1, <2>2, HungLeast
  <2> QED
    BY <2>3 DEF T
<1>4. b \in new
  BY <1>2, <1>3
<1>5. under \subseteq new
  <2> HIDE DEF new
  <2>1. new \in SUBSET bs /\ {b} \cap bs \subseteq new
    BY <1>2, <1>4
  <2>2. \A c \in bs : rw[c].parent \in new => c \in new
    BY <1>2, <1>4
  <2> QED
    BY <2>1, <2>2, HungLeast
<1> QED
  BY <1>3, <1>5

\* Nothing happens below S when only blocks outside of it change, and no block
\* inside hangs from outside.
LEMMA HungApart ==
    ASSUME NEW bs, NEW rw, NEW rw2, NEW S, NEW inside \in SUBSET bs, S \subseteq inside,
           \A c \in inside : rw2[c] = rw[c],
           \A c \in inside : rw[c].parent \in bs => rw[c].parent \in inside
    PROVE  Hung(bs, rw, S) \cap inside \subseteq Hung(bs, rw2, S)
<1> DEFINE new == Hung(bs, rw2, S)
           T == new \cup (bs \ inside)
<1>1. /\ new \subseteq bs /\ S \cap bs \subseteq new
      /\ \A c \in bs : rw2[c].parent \in new => c \in new
  BY HungIs
<1> HIDE DEF new
<1>2. T \in SUBSET bs /\ S \cap bs \subseteq T
  BY <1>1
<1>3. \A c \in bs : rw[c].parent \in T => c \in T
  BY <1>1
<1>4. Hung(bs, rw, S) \subseteq T
  BY <1>2, <1>3, HungLeast
<1> QED
  BY <1>4 DEF new

\* A new block that is a root or under a block of its attribute.
LEMMA InsertTree ==
    ASSUME Rows, RootInv, Parented, Rooted, looped' = looped,
           NEW a \in Attrs, NEW p \in BlocksOf(a) \cup {None}, InsertBlock(a, p)
    PROVE  /\ Parented' /\ Rooted'
           /\ \A c \in Attrs : Roots(c) \subseteq Roots(c)'
           /\ \A c \in Attrs \ {a} : Roots(c)' = Roots(c) /\ BlocksOf(c)' = BlocksOf(c)
           /\ p = None => Roots(a)' # {}
           /\ p # None => Roots(a)' = Roots(a)
           /\ \A b \in Blocks : row[b].attr # None => row'[b] = row[b]
<1>1. blocks \subseteq Blocks /\ p \in Blocks \cup {None} /\ None \notin Blocks /\ None \notin Attrs
  BY CatalogueAssumption DEF Rows, TypeOK, BlocksOf
<1>2. PICK n \in Blocks :
        /\ row[n].attr = None /\ blocks' = blocks \cup {n}
        /\ row'[n].attr = a /\ row'[n].parent = p
        /\ \A c \in Blocks \ {n} : row'[c] = row[c]
  BY <1>1, InsertIs
<1>3. n \notin blocks
  BY <1>2 DEF RootInv
<1>4. \A b \in blocks : row'[b] = row[b]
  BY <1>1, <1>2, <1>3
<1>5. \A c \in Attrs : /\ Roots(c) \subseteq Roots(c)' /\ BlocksOf(c) \subseteq BlocksOf(c)'
                       /\ BlocksOf(c)' \subseteq BlocksOf(c) \cup {n}
  BY <1>2, <1>4 DEF Roots, BlocksOf, IsRoot
<1>6. \A c \in Attrs \ {a} : Roots(c)' = Roots(c) /\ BlocksOf(c)' = BlocksOf(c)
  BY <1>2, <1>3, <1>4 DEF Roots, BlocksOf, IsRoot
<1>7. /\ p = None => n \in Roots(a)'
      /\ p # None => Roots(a)' = Roots(a)
  BY <1>2, <1>3, <1>4 DEF Roots, BlocksOf, IsRoot
<1>8. Parented'
  <2> SUFFICES ASSUME NEW b \in blocks', row'[b].parent # None
               PROVE  row'[b].parent \in BlocksOf(row[b].attr)'
    BY DEF Parented, BlocksOf
  <2>1. CASE b = n
    BY <1>1, <1>2, <1>4, <2>1 DEF BlocksOf
  <2>2. CASE b \in blocks
    BY <1>2, <1>4, <2>2 DEF BlocksOf, Parented
  <2> QED
    BY <1>2, <2>1, <2>2
<1>9. Rooted'
  <2> SUFFICES ASSUME NEW c \in Attrs \ looped, NEW b \in BlocksOf(c)'
               PROVE  b \in Hung(blocks', row', Roots(c)')
    BY DEF Rooted, Below, BlocksOf, Roots
  <2>1. /\ Hung(blocks, row, Roots(c)) \subseteq Hung(blocks', row', Roots(c)')
        /\ n \in Roots(c)' \/ row'[n].parent \in Hung(blocks, row, Roots(c))
             => n \in Hung(blocks', row', Roots(c)')
    BY <1>2, <1>3, <1>4, <1>5, HungMore
  <2>2. BlocksOf(c) \subseteq Hung(blocks, row, Roots(c))
    BY DEF Rooted, Below
  <2>3. CASE b \in blocks
    BY <1>4, <2>1, <2>2, <2>3 DEF BlocksOf
  <2>4. CASE b = n
    <3>1. c = a
      BY <1>2, <2>4 DEF BlocksOf
    <3> QED
      BY <1>2, <1>7, <2>1, <2>2, <2>4, <3>1
  <2> QED
    BY <1>2, <2>3, <2>4 DEF BlocksOf
<1>10. \A b \in Blocks : row[b].attr # None => row'[b] = row[b]
  BY <1>2
<1> QED
  BY <1>5, <1>6, <1>7, <1>8, <1>9, <1>10

\* A cascade leaves a tree.
LEMMA DeleteTree ==
    ASSUME Rows, Parented, Rooted, looped' = looped, row' = row,
           NEW D, blocks' = blocks \ Below(D)
    PROVE  /\ Parented' /\ Rooted'
           /\ \A c \in Attrs : Roots(c) \ D \subseteq Roots(c)' /\ Roots(c)' \subseteq Roots(c)
           /\ \A c \in Attrs : BlocksOf(c)' \subseteq BlocksOf(c) \ D
<1> DEFINE gone == Hung(blocks, row, D)
<1>1. /\ gone \subseteq blocks /\ D \cap blocks \subseteq gone /\ blocks' = blocks \ gone
      /\ \A b \in blocks : row[b].parent \in gone => b \in gone
  BY HungIs DEF Below
<1>2. None \notin blocks
  BY CatalogueAssumption DEF Rows, TypeOK
<1>3. \A c \in Attrs : \A b \in Roots(c) : b \in gone => b \in D
  <2> SUFFICES ASSUME NEW c \in Attrs, NEW b \in Roots(c), b \in gone PROVE b \in D
    OBVIOUS
  <2>1. row[b].parent \notin blocks
    BY <1>2 DEF Roots, IsRoot
  <2> QED
    BY <2>1, HungTop
<1>4. \A c \in Attrs : Roots(c)' = Roots(c) \ gone /\ BlocksOf(c)' = BlocksOf(c) \ gone
  BY <1>1 DEF Roots, BlocksOf, IsRoot
<1>5. Parented'
  <2> SUFFICES ASSUME NEW b \in blocks', row[b].parent # None
               PROVE  row[b].parent \in BlocksOf(row[b].attr)'
    BY DEF Parented, BlocksOf
  <2>1. row[b].parent \in BlocksOf(row[b].attr) /\ row[b].parent \notin gone
    BY <1>1 DEF Parented
  <2> QED
    BY <1>1, <2>1 DEF BlocksOf
<1>6. Rooted'
  <2> SUFFICES ASSUME NEW c \in Attrs \ looped, NEW b \in BlocksOf(c)'
               PROVE  b \in Hung(blocks', row, Roots(c)')
    BY DEF Rooted, Below, BlocksOf, Roots
  <2>1. b \in BlocksOf(c) /\ b \notin gone
    BY <1>4
  <2>2. b \in Hung(blocks, row, Roots(c))
    BY <2>1 DEF Rooted, Below
  <2>3. b \in Hung(blocks', row, Roots(c))
    BY <1>1, <2>1, <2>2, HungLeft
  <2>4. Hung(blocks', row, Roots(c)) = Hung(blocks', row, Roots(c)')
    <3>1. Roots(c) \cap blocks' = Roots(c)' \cap blocks'
      BY <1>1, <1>4
    <3> QED
      BY <3>1 DEF Hung
  <2> QED
    BY <2>3, <2>4
<1> QED
  BY <1>1, <1>3, <1>4, <1>5, <1>6 DEF BlocksOf

\* A block that gets another parent, of its attribute.
LEMMA MoveTree ==
    ASSUME Rows, Parented, Rooted, NEW b \in blocks, NEW p \in blocks,
           row[b].parent # None, row[p].attr = row[b].attr, blocks' = blocks,
           row' = [row EXCEPT ![b].parent = p],
           looped' = IF p \in Below({b}) THEN looped \cup {row[b].attr} ELSE looped
    PROVE  /\ Parented' /\ Rooted'
           /\ \A c \in Attrs : Roots(c)' = Roots(c) /\ BlocksOf(c)' = BlocksOf(c)
           /\ \A c \in Blocks : /\ row'[c].attr = row[c].attr
                                /\ row[c].parent # None => row'[c].parent # None
<1>1. /\ blocks \subseteq Blocks /\ row \in [Blocks -> BlockRow] /\ p # None
  BY CatalogueAssumption DEF Rows, TypeOK
<1>2. /\ \A c \in Blocks : row'[c].attr = row[c].attr
      /\ \A c \in Blocks \ {b} : row'[c] = row[c]
      /\ row'[b].parent = p
  BY <1>1 DEF BlockRow
<1>3. \A c \in Attrs : Roots(c)' = Roots(c) /\ BlocksOf(c)' = BlocksOf(c)
  BY <1>1, <1>2 DEF Roots, BlocksOf, IsRoot
<1>4. Parented'
  BY <1>1, <1>2 DEF Parented, BlocksOf
<1>5. Rooted'
  <2> SUFFICES ASSUME NEW a \in Attrs, a \notin looped'
               PROVE  BlocksOf(a) \subseteq Hung(blocks, row', Roots(a))
    BY <1>3 DEF Rooted, Below
  <2>1. BlocksOf(a) \subseteq Hung(blocks, row, Roots(a))
    BY DEF Rooted, Below
  <2>2. CASE row[b].attr = a
    <3>1. p \notin Hung(blocks, row, {b}) /\ p \in BlocksOf(a)
      BY <2>2 DEF Below, BlocksOf
    <3> DEFINE top == Roots(a)
               new == row'
    <3>2. /\ \A c \in blocks \ {b} : new[c] = row[c]
          /\ new[b].parent \in Hung(blocks, row, top)
          /\ new[b].parent \notin Hung(blocks, row, {b})
      BY <1>1, <1>2, <2>1, <3>1
    <3> HIDE DEF top, new
    <3>3. Hung(blocks, row, top) \subseteq Hung(blocks, new, top)
      BY <3>2, HungMoved
    <3> QED
      BY <2>1, <3>3 DEF top, new
  <2>3. CASE row[b].attr # a
    <3> DEFINE inside == BlocksOf(a)
               top == Roots(a)
               new == row'
    <3>1. /\ inside \in SUBSET blocks /\ top \subseteq inside
          /\ \A c \in inside : new[c] = row[c]
          /\ \A c \in inside : row[c].parent \in blocks => row[c].parent \in inside
      <4>1. inside \in SUBSET blocks /\ top \subseteq inside
        BY DEF BlocksOf, Roots
      <4>2. \A c \in inside : c \in Blocks \ {b} /\ row[c].attr = a
        BY <1>1, <2>3 DEF BlocksOf
      <4>3. None \notin blocks
        BY CatalogueAssumption, <1>1
      <4> QED
        BY <1>2, <4>1, <4>2, <4>3 DEF Parented
    <3> HIDE DEF inside, top, new
    <3>2. Hung(blocks, row, top) \cap inside \subseteq Hung(blocks, new, top)
      BY <3>1, HungApart
    <3> QED
      BY <2>1, <3>2 DEF inside, top, new
  <2> QED
    BY <2>2, <2>3
<1> QED
  BY <1>1, <1>2, <1>3, <1>4, <1>5

\* What a step of r leaves to the requests that hold the row of an attribute.
Held(r) == \A a \in Attrs : lock[a] \notin {None, r} =>
    /\ a \in Present => type'[a] \in Types
    /\ Roots(a) # {} => Roots(a)' # {}
ParentsStay == \A b \in Blocks : row[b].attr # None /\ row[b].parent # None => row'[b].parent # None

\* What a request found out about blocks lasts.
LEMMA FoundKept ==
    ASSUME Rows, Flow, RootInv, NEW r \in Requests, NEW q \in Requests \ {r}, FoundOf(q), Same(q),
           Grows, Held(r), ParentsStay
    PROVE  FoundOf(q)'
<1>1. /\ pc'[q] = pc[q] /\ input'[q] = input[q] /\ local'[q].type = local[q].type
      /\ local'[q].parent = local[q].parent /\ local'[q].hasRoot = local[q].hasRoot
  BY DEF Same
<1>2. Above(q)' = Above(q) /\ In(q)' = In(q) /\ Enters(q)' = Enters(q)
  BY <1>1 DEF Above, In, Enters, NextType
<1>3. pc[q] = "blockInsert" => Above(q) \in Blocks /\ row'[Above(q)].attr = In(q).attr
  <2>1. pc[q] = "blockInsert" => In(q).attr # None
    BY CatalogueAssumption DEF Flow, FlowOf
  <2> QED
    BY <2>1 DEF FoundOf, Grows
<1>4. pc[q] \in {"blockMove", "blockDelete"} =>
        /\ In(q).block \in Blocks
        /\ row'[In(q).block].attr # None /\ row'[In(q).block].parent # None
  BY DEF FoundOf, Grows, ParentsStay
<1>5. pc[q] = "blockMove" =>
        In(q).parent \in Blocks /\ row'[In(q).parent].attr = row'[In(q).block].attr
  BY DEF FoundOf, Grows
<1>6. pc[q] \in {"attrRoot", "attrCommit"} =>
        In(q).attr \in Attrs /\ lock[In(q).attr] = q /\ q # None
  BY CatalogueAssumption DEF RootInv, Flow, FlowOf, Retyping
<1>7. pc[q] \in {"attrRoot", "attrCommit"} => type'[In(q).attr] \in Types
  BY <1>6 DEF FoundOf, Held
<1>8. pc[q] = "attrCommit" /\ Enters(q) /\ local[q].hasRoot => Roots(In(q).attr)' # {}
  <2> SUFFICES ASSUME pc[q] = "attrCommit", Enters(q), local[q].hasRoot
               PROVE  Roots(In(q).attr)' # {}
    OBVIOUS
  <2>1. PICK a \in Attrs : a = In(q).attr /\ lock[a] \notin {None, r} /\ Roots(a) # {}
    BY <1>6 DEF FoundOf
  <2>2. Roots(a)' # {}
    BY <2>1 DEF Held
  <2> QED
    BY <1>2, <2>1, <2>2 DEF Roots, BlocksOf, IsRoot
<1> QED
  BY <1>1, <1>2, <1>3, <1>4, <1>5, <1>6, <1>7, <1>8 DEF FoundOf, Present

\* A step keeps the tree when it keeps its parts.
LEMMA TreeKept ==
    ASSUME Rows, Flow, RootInv, TreeInv, NEW r \in Requests, Acts(r), Parented', Rooted', Held(r),
           ParentsStay, FoundOf(r)', \A a \in Attrs \ raced' : Shaped(a)'
    PROVE  TreeInv'
<1>1. Moves(r) /\ Grows
  BY AllMove, GrowStep
<1>2. ASSUME NEW q \in Requests PROVE FoundOf(q)'
  <2>1. CASE q = r
    BY <2>1
  <2>2. CASE q # r
    BY <1>1, <2>2, FoundKept DEF TreeInv, Moves
  <2> QED
    BY <2>1, <2>2
<1> QED
  BY <1>2 DEF TreeInv

\* An attribute keeps its shape with its type, its config and its blocks.
LEMMA ShapeKept ==
    ASSUME NEW a \in Attrs, Shaped(a), type'[a] = type[a], config'[a] = config[a],
           (Roots(a) # {}) = (Roots(a)' # {}), BlocksOf(a) = {} => BlocksOf(a)' = {}
    PROVE  Shaped(a)'
BY DEF Shaped

\* Steps that leave the blocks and the attributes alone.
LEMMA TreeStill ==
    ASSUME Parented, Rooted, \A a \in Attrs \ raced : Shaped(a),
           UNCHANGED <<type, config, blocks, row, looped>>, raced \subseteq raced'
    PROVE  /\ Parented' /\ Rooted' /\ ParentsStay
           /\ \A a \in Attrs \ raced' : Shaped(a)'
           /\ \A r : Held(r)
<1>1. Parented'
  BY DEF Parented, BlocksOf
<1>2. \A a : Roots(a)' = Roots(a) /\ BlocksOf(a)' = BlocksOf(a)
  BY DEF Roots, BlocksOf, IsRoot
<1>3. Rooted'
  BY <1>2 DEF Rooted, Below
<1>4. \A a \in Attrs \ raced' : Shaped(a)'
  BY <1>2 DEF Shaped
<1> QED
  BY <1>1, <1>2, <1>3, <1>4 DEF ParentsStay, Held, Present

\* Requests that read.
LEMMA TreeReads ==
    ASSUME Rows, Flow, RootInv, TreeInv, NEW r \in Requests, Reads(r)
    PROVE  TreeInv'
<1>1. OnlyReads /\ Moves(r) /\ Acts(r)
  BY ReadsOnly DEF Acts
<1>2. UNCHANGED <<type, config, blocks, row, looped, raced>>
  BY <1>1 DEF OnlyReads, attributes, tree
<1>3. /\ Parented' /\ Rooted' /\ ParentsStay /\ Held(r)
      /\ \A a \in Attrs \ raced' : Shaped(a)'
  BY <1>2, TreeStill DEF TreeInv
<1> SUFFICES FoundOf(r)'
  BY <1>1, <1>3, TreeKept
<1> DEFINE Elsewhere == pc'[r] \notin {"blockInsert", "blockMove", "blockDelete", "attrRoot",
                                       "attrCommit"}
<1>4. ASSUME Elsewhere PROVE FoundOf(r)'
  BY <1>4 DEF FoundOf
<1>5. pc[r] \in Ops => In(r).op = pc[r]
  BY DEF Flow, FlowOf
<1>6. CASE AttrRoot(r)
  <2>1. /\ pc'[r] = "attrCommit" /\ input'[r] = input[r] /\ pc[r] = "attrRoot"
        /\ local'[r].hasRoot = (Roots(In(r).attr) # {})
    BY <1>6, AttrRootMoves DEF Goes
  <2>2. In(r).attr \in Present
    BY <2>1 DEF TreeInv, FoundOf
  <2>3. Present' = Present /\ In(r)' = In(r)
    BY <1>2, <2>1 DEF Present, In
  <2>4. Roots(In(r).attr)' = Roots(In(r).attr)
    BY <1>2, <2>1 DEF Roots, BlocksOf, IsRoot, In
  <2> QED
    BY <2>1, <2>2, <2>3, <2>4 DEF FoundOf
<1>7. CASE BlockCreate(r) \/ BlockDuplicate(r)
  <2>1. CASE Ends(r)
    BY <1>4, <2>1 DEF Ends
  <2>2. CASE ~Ends(r)
    <3>1. pc'[r] = "blockInsert" /\ input'[r] = input[r]
      BY <1>7, <2>2, BlockReadMoves DEF Goes
    <3>2. Above(r)' \in BlocksOf(In(r).attr)
      <4>1. CASE BlockCreate(r)
        <5>1. In(r).op = "blockCreate" /\ In(r).parent \in BlocksOf(In(r).attr)
          <6>1. pc[r] = "blockCreate"
            BY <4>1 DEF BlockCreate
          <6>2. ASSUME Goto(r, "refused") PROVE FALSE
            BY <2>2, <6>2, EndIs
          <6> QED
            BY <1>5, <4>1, <6>1, <6>2 DEF BlockCreate, Ops
        <5> QED
          BY <3>1, <5>1 DEF Above, In
      <4>2. CASE BlockDuplicate(r)
        <5> DEFINE b == In(r).block
                   l == [local[r] EXCEPT !.parent = row[b].parent]
        <5>1. In(r).op = "blockDuplicate"
          BY <1>5, <4>2 DEF BlockDuplicate, Ops
        <5>2. ASSUME End(r, "refused") PROVE FALSE
          BY <2>2, <5>2, EndIs
        <5>3. /\ b \in BlocksOf(In(r).attr) /\ ~IsRoot(b)
              /\ Step(r, "blockInsert", l, {})
          BY <4>2, <5>2 DEF BlockDuplicate
        <5>4. row[b].parent \in BlocksOf(In(r).attr)
          BY <5>3 DEF TreeInv, Parented, BlocksOf, IsRoot
        <5>5. row[b].parent \in Blocks /\ local[r] \in Locals
          BY <5>4 DEF BlocksOf, Rows, TypeOK
        <5>6. l \in Locals /\ l.parent = row[b].parent /\ "blockInsert" \in Steps
          BY <5>5 DEF Locals, Steps
        <5> HIDE DEF l
        <5>7. local'[r] = l
          BY <5>3, <5>6, StepIs DEF Ended
        <5> QED
          BY <3>1, <5>1, <5>4, <5>6, <5>7 DEF Above, In
      <4> QED
        BY <1>7, <4>1, <4>2
    <3>3. Above(r)' \in Blocks /\ row[Above(r)'].attr = In(r)'.attr
      BY <3>1, <3>2 DEF BlocksOf, In, Rows, TypeOK
    <3> QED
      BY <1>2, <3>1, <3>3 DEF FoundOf
  <2> QED
    BY <2>1, <2>2
<1>8. CASE BlockUpdate(r) \/ BlockFind(r)
  <2>1. CASE Ends(r)
    BY <1>4, <2>1 DEF Ends
  <2>2. CASE ~Ends(r)
    <3>1. (pc'[r] = "blockMove" \/ pc'[r] = "blockDelete") /\ input'[r] = input[r]
      BY <1>8, <2>2, BlockFindMoves DEF Goes
    <3>2. ASSUME Goto(r, "refused") PROVE FALSE
      BY <2>2, <3>2, EndIs
    <3>3. In(r).block \in BlocksOf(In(r).attr) /\ ~IsRoot(In(r).block)
      BY <1>8, <3>2 DEF BlockUpdate, BlockFind, MayMove
    <3>4. pc'[r] = "blockMove" => In(r).parent \in BlocksOf(In(r).attr)
      <4>1. CASE BlockUpdate(r)
        BY <3>2, <4>1 DEF BlockUpdate
      <4>2. CASE BlockFind(r)
        <5>1. Goto(r, "blockDelete") /\ "blockDelete" \in Steps
          BY <3>2, <4>2 DEF BlockFind, Steps
        <5>2. pc'[r] = "blockDelete"
          BY <5>1, GotoIs
        <5> QED
          BY <5>2
      <4> QED
        BY <1>8, <4>1, <4>2
    <3>5. In(r)' = In(r) /\ blocks \subseteq Blocks
      BY <3>1 DEF In, Rows, TypeOK
    <3>6. /\ In(r).block \in Blocks /\ row[In(r).block].attr # None
          /\ row[In(r).block].attr = In(r).attr /\ row[In(r).block].parent # None
      BY <3>3, <3>5 DEF BlocksOf, IsRoot, RootInv
    <3>7. pc'[r] = "blockMove" => In(r).parent \in Blocks /\ row[In(r).parent].attr = In(r).attr
      BY <3>4, <3>5 DEF BlocksOf
    <3> QED
      BY <1>2, <3>1, <3>5, <3>6, <3>7 DEF FoundOf
  <2> QED
    BY <2>1, <2>2
<1>9. CASE Reads(r) /\ ~(\/ AttrRoot(r) \/ BlockCreate(r) \/ BlockDuplicate(r) \/ BlockUpdate(r)
                         \/ BlockFind(r))
  <2>1. ASSUME NEW in \in Inputs[r], Begin(r, in) PROVE Elsewhere
    BY <2>1, BeginMoves DEF Ops
  <2>2. Elsewhere
    BY <1>9, <2>1, AttrReadMoves, AttrTicketMoves, TicketTargetMoves, TicketShownMoves,
       TicketClearMoves, ScanTicketMoves, ScanPersonMoves, ScanCheckInMoves
    DEF Reads, Goes, Ends
  <2> QED
    BY <1>4, <2>2
<1> QED
  BY <1>6, <1>7, <1>8, <1>9

\* A request that is over has found out nothing.
LEMMA FoundOver ==
    ASSUME NEW r \in Requests, Ends(r) \/ pc'[r] = "conflict"
    PROVE  FoundOf(r)'
BY DEF FoundOf, Ends

\* A new attribute of type block gets its root with it.
LEMMA TreeCreate ==
    ASSUME Rows, Flow, RootInv, TreeInv, NEW r \in Requests, AttrCreate(r)
    PROVE  TreeInv'
<1>1. PICK a \in Attrs :
        /\ type[a] = "none"
        /\ type' = [type EXCEPT ![a] = In(r).type]
        /\ config' = [config EXCEPT ![a] = In(r).type]
        /\ IF In(r).type = "block" THEN InsertBlock(a, None) ELSE UNCHANGED tree
  BY DEF AttrCreate
<1>2. Ends(r) /\ raced' = raced /\ looped' = looped
  BY Finishes DEF AttrCreate
<1>3. In(r).type \in Types
  <2>1. In(r) \in Inputs[r] /\ In(r).op = "attrCreate" /\ In(r) \in Input
    BY DEF AttrCreate, Flow, FlowOf, Ops, Ended, Rows, TypeOK, In
  <2> QED
    BY <2>1, CatalogueAssumption DEF Input
<1>4. /\ type \in [Attrs -> Types \cup {"none", "gone"}]
      /\ config \in [Attrs -> Types \cup {"none", "gone"}]
  BY DEF Rows, TypeOK
<1>5. BlocksOf(a) = {} /\ Roots(a) = {}
  BY <1>1 DEF RootInv, BlocksOf, Roots
<1>6. \A c \in Attrs \ {a} : type'[c] = type[c] /\ config'[c] = config[c]
  BY <1>1, <1>4
<1>7. type'[a] = In(r).type /\ config'[a] = In(r).type /\ a \notin Present
  BY <1>1, <1>4 DEF Present, Types
<1>8. /\ Parented' /\ Rooted' /\ ParentsStay
      /\ \A c \in Attrs \ {a} : Roots(c)' = Roots(c) /\ BlocksOf(c)' = BlocksOf(c)
      /\ (Roots(a)' # {}) = (In(r).type = "block")
      /\ In(r).type # "block" => BlocksOf(a)' = {}
  <2>1. CASE In(r).type = "block"
    <3>1. None \in BlocksOf(a) \cup {None} /\ InsertBlock(a, None)
      BY <1>1, <2>1
    <3>2. /\ Parented' /\ Rooted' /\ Roots(a)' # {}
          /\ \A c \in Attrs \ {a} : Roots(c)' = Roots(c) /\ BlocksOf(c)' = BlocksOf(c)
          /\ \A b \in Blocks : row[b].attr # None => row'[b] = row[b]
      BY <1>2, <3>1, InsertTree DEF TreeInv
    <3> QED
      BY <2>1, <3>2 DEF ParentsStay
  <2>2. CASE In(r).type # "block"
    <3>1. blocks' = blocks /\ row' = row
      BY <1>1, <2>2 DEF tree
    <3>2. \A c : Roots(c)' = Roots(c) /\ BlocksOf(c)' = BlocksOf(c)
      BY <3>1 DEF Roots, BlocksOf, IsRoot
    <3>3. Parented' /\ Rooted'
      BY <1>2, <3>1, <3>2 DEF TreeInv, Parented, Rooted, Below
    <3> QED
      BY <1>5, <2>2, <3>1, <3>2, <3>3 DEF ParentsStay
  <2> QED
    BY <2>1, <2>2
<1>9. Held(r)
  BY <1>5, <1>6, <1>7, <1>8 DEF Held, Present
<1>10. ASSUME NEW c \in Attrs \ raced' PROVE Shaped(c)'
  <2>1. CASE c = a
    BY <1>7, <1>8, <2>1 DEF Shaped
  <2>2. CASE c # a
    BY <1>2, <1>6, <1>8, <2>2, ShapeKept DEF TreeInv
  <2> QED
    BY <2>1, <2>2
<1> QED
  BY <1>2, <1>8, <1>9, <1>10, TreeKept, FoundOver DEF Acts

\* The commit of a change of the type: whoever read the type that is there leaves
\* a root exactly for type block.
LEMMA TreeCommit ==
    ASSUME Rows, Flow, RootInv, TicketInv, TreeInv, NEW r \in Requests, AttrCommit(r)
    PROVE  TreeInv'
<1>1. PICK a \in Attrs : a = In(r).attr
  BY AttrCommitMoves
<1> DEFINE made == Enters(r) /\ ~local[r].hasRoot
<1>2. /\ Ends(r) /\ pc[r] = "attrCommit" /\ local[r].type \in Types
  BY AttrCommitMoves
<1>3. /\ type' = [type EXCEPT ![a] = TypeAfter(r)]
      /\ config' = [config EXCEPT ![a] = IF In(r).config \/ NextType(r) # local[r].type
                                         THEN NextType(r) ELSE @]
      /\ raced' = IF a \in local[r].touched THEN raced \cup {a} ELSE raced
      /\ looped' = looped
  BY <1>1 DEF AttrCommit, Commit, Race
<1>4. /\ type \in [Attrs -> Types \cup {"none", "gone"}]
      /\ config \in [Attrs -> Types \cup {"none", "gone"}]
      /\ In(r).type \in Types \cup {None} /\ type[a] \in Types
  BY <1>1, <1>2 DEF Rows, TypeOK, Input, In, TreeInv, FoundOf, Present
<1>5. lock[a] = r
  BY <1>1, <1>2 DEF RootInv
<1>6. TypeAfter(r) \in Types
  BY <1>1, <1>4 DEF TypeAfter
<1>7. \A c \in Attrs \ {a} : type'[c] = type[c] /\ config'[c] = config[c]
  BY <1>3, <1>4
<1>8. /\ Parented' /\ Rooted' /\ ParentsStay
      /\ \A c \in Attrs \ {a} : /\ (Roots(c)' # {}) = (Roots(c) # {})
                                /\ BlocksOf(c) = {} => BlocksOf(c)' = {}
      /\ made => Roots(a)' # {}
      /\ ~made /\ Leaves(r) => BlocksOf(a)' = {} /\ Roots(a)' = {}
      /\ ~made /\ ~Leaves(r) => Roots(a)' = Roots(a) /\ BlocksOf(a)' = BlocksOf(a)
  <2>1. CASE made
    <3>1. None \in BlocksOf(a) \cup {None} /\ InsertBlock(a, None)
      BY <1>1, <2>1 DEF AttrCommit, Commit
    <3>2. /\ Parented' /\ Rooted' /\ Roots(a)' # {}
          /\ \A c \in Attrs \ {a} : Roots(c)' = Roots(c) /\ BlocksOf(c)' = BlocksOf(c)
          /\ \A b \in Blocks : row[b].attr # None => row'[b] = row[b]
      BY <1>2, <1>3, <3>1, InsertTree DEF TreeInv
    <3> QED
      BY <2>1, <3>2 DEF ParentsStay
  <2>2. CASE ~made
    <3>1. blocks' = blocks \ Below(Dropped(r)) /\ row' = row
      BY <2>2 DEF AttrCommit, Commit, Delete
    <3>2. /\ Parented' /\ Rooted'
          /\ \A c \in Attrs : Roots(c) \ Dropped(r) \subseteq Roots(c)' /\ Roots(c)' \subseteq Roots(c)
          /\ \A c \in Attrs : BlocksOf(c)' \subseteq BlocksOf(c) \ Dropped(r)
      BY <1>3, <3>1, DeleteTree DEF TreeInv
    <3>3. Dropped(r) \subseteq BlocksOf(a) /\ (Leaves(r) => Dropped(r) = BlocksOf(a))
      BY <1>1 DEF Dropped
    <3>4. \A c \in Attrs \ {a} : Roots(c) \cap Dropped(r) = {}
      BY <3>3 DEF Roots, BlocksOf
    <3>5. ~Leaves(r) => blocks' = blocks
      BY <3>1, HungNone DEF Dropped, Below
    <3>6. ~Leaves(r) => Roots(a)' = Roots(a) /\ BlocksOf(a)' = BlocksOf(a)
      BY <1>2, <3>1, <3>5 DEF Roots, BlocksOf, IsRoot
    <3>7. Leaves(r) => BlocksOf(a)' = {} /\ Roots(a)' = {}
      <4>1. Roots(a)' \subseteq BlocksOf(a)'
        BY DEF Roots
      <4> QED
        BY <1>2, <3>2, <3>3, <4>1
    <3> QED
      BY <2>2, <3>1, <3>2, <3>4, <3>6, <3>7 DEF ParentsStay
  <2> QED
    BY <2>1, <2>2
<1>9. Held(r)
  <2> SUFFICES ASSUME NEW c \in Attrs \ {a}
               PROVE  /\ c \in Present => type'[c] \in Types
                      /\ Roots(c) # {} => Roots(c)' # {}
    BY <1>5 DEF Held
  <2> QED
    BY <1>7, <1>8 DEF Present
<1>10. ASSUME a \notin raced' PROVE Shaped(a)'
  <2>1. a \notin raced /\ Untouched(r)
    BY <1>1, <1>3, <1>10 DEF Untouched
  <2>2. local[r].type = type[a] /\ NextType(r) = TypeAfter(r)
    BY <1>1, <1>2, <2>1 DEF TicketInv, SeenType, Retyping, NextType, TypeAfter
  <2>3. /\ config[a] = type[a] /\ (type[a] = "block") = (Roots(a) # {})
        /\ type[a] # "block" => BlocksOf(a) = {}
    BY <1>2, <1>4, <2>1 DEF TreeInv, Shaped, Types
  <2>4. type'[a] = TypeAfter(r) /\ config'[a] = TypeAfter(r)
    BY <1>2, <1>3, <1>4, <2>2, <2>3
  <2>5. Enters(r) = (type[a] # "block" /\ TypeAfter(r) = "block")
    BY <2>2 DEF Enters
  <2>6. Leaves(r) = (type[a] = "block" /\ TypeAfter(r) # "block")
    BY <2>2 DEF Leaves
  <2>7. Enters(r) => ~local[r].hasRoot
    BY <1>1, <1>2, <2>3, <2>5 DEF TreeInv, FoundOf
  <2>8. (TypeAfter(r) = "block") = (Roots(a)' # {})
    <3>1. CASE TypeAfter(r) = "block"
      BY <1>8, <2>3, <2>5, <2>6, <2>7, <3>1
    <3>2. CASE TypeAfter(r) # "block"
      BY <1>8, <2>3, <2>5, <2>6, <2>7, <3>2
    <3> QED
      BY <3>1, <3>2
  <2>9. TypeAfter(r) # "block" => BlocksOf(a)' = {}
    BY <1>8, <2>3, <2>5, <2>6, <2>7
  <2> QED
    BY <2>4, <2>8, <2>9 DEF Shaped
<1>11. ASSUME NEW c \in Attrs \ raced' PROVE Shaped(c)'
  <2>1. CASE c = a
    BY <1>10, <2>1
  <2>2. CASE c # a
    BY <1>3, <1>7, <1>8, <2>2, ShapeKept DEF TreeInv
  <2> QED
    BY <2>1, <2>2
<1> QED
  BY <1>2, <1>8, <1>9, <1>11, TreeKept, FoundOver DEF Acts

\* The removal of an attribute takes its blocks and no others.
LEMMA TreeRemove ==
    ASSUME Rows, Flow, RootInv, TreeInv, NEW r \in Requests, AttrRemove(r)
    PROVE  TreeInv'
<1>1. Ends(r) /\ UNCHANGED <<config, lock, row, raced, looped>>
  BY AttrRemoveMoves
<1>2. CASE UNCHANGED <<type, blocks>>
  <2>1. /\ Parented' /\ Rooted' /\ ParentsStay /\ Held(r)
        /\ \A a \in Attrs \ raced' : Shaped(a)'
    BY <1>1, <1>2, TreeStill DEF TreeInv
  <2> QED
    BY <1>1, <2>1, TreeKept, FoundOver DEF Acts
<1>3. CASE ~UNCHANGED <<type, blocks>>
  <2>1. PICK a \in Attrs :
          /\ lock[a] = None /\ type' = [type EXCEPT ![a] = "gone"]
          /\ blocks' = blocks \ Below(BlocksOf(a))
    BY <1>3, AttrRemoveMoves DEF Present, Delete
  <2> DEFINE D == BlocksOf(a)
  <2>2. /\ Parented' /\ Rooted'
        /\ \A c \in Attrs : Roots(c) \ D \subseteq Roots(c)' /\ Roots(c)' \subseteq Roots(c)
        /\ \A c \in Attrs : BlocksOf(c)' \subseteq BlocksOf(c) \ D
    <3>1. blocks' = blocks \ Below(D)
      BY <2>1
    <3> HIDE DEF D
    <3> QED
      BY <1>1, <3>1, DeleteTree DEF TreeInv
  <2>3. \A c \in Attrs \ {a} : /\ (Roots(c)' # {}) = (Roots(c) # {})
                               /\ BlocksOf(c) = {} => BlocksOf(c)' = {}
    <3>1. \A c \in Attrs \ {a} : Roots(c) \cap D = {}
      BY DEF Roots, BlocksOf
    <3> QED
      BY <2>2, <3>1
  <2>4. /\ type'[a] = "gone"
        /\ \A c \in Attrs \ {a} : type'[c] = type[c] /\ config'[c] = config[c]
    BY <1>1, <2>1 DEF Rows, TypeOK
  <2>5. Held(r) /\ ParentsStay
    BY <1>1, <2>1, <2>3, <2>4 DEF Held, ParentsStay, Present
  <2>6. ASSUME NEW c \in Attrs \ raced' PROVE Shaped(c)'
    <3>1. CASE c = a
      BY <2>4, <3>1 DEF Shaped
    <3>2. CASE c # a
      BY <1>1, <2>3, <2>4, <3>2, ShapeKept DEF TreeInv
    <3> QED
      BY <3>1, <3>2
  <2> QED
    BY <1>1, <2>2, <2>5, <2>6, TreeKept, FoundOver DEF Acts
<1> QED
  BY <1>2, <1>3

\* A block is created under one of its attribute, which is still there.
LEMMA TreeInsert ==
    ASSUME Rows, Flow, RootInv, TreeInv, NEW r \in Requests, BlockInsert(r)
    PROVE  TreeInv'
<1>1. /\ Ends(r) /\ UNCHANGED <<type, config, lock, raced, looped>>
      /\ pc[r] = "blockInsert"
  BY Finishes DEF BlockInsert, attributes
<1>2. CASE UNCHANGED tree
  <2>1. /\ Parented' /\ Rooted' /\ ParentsStay /\ Held(r)
        /\ \A a \in Attrs \ raced' : Shaped(a)'
    BY <1>1, <1>2, TreeStill DEF TreeInv, tree
  <2> QED
    BY <1>1, <2>1, TreeKept, FoundOver DEF Acts
<1>3. CASE ~UNCHANGED tree
  <2>1. PICK a \in Attrs : a = In(r).attr
    BY <1>1 DEF Flow, FlowOf
  <2>2. PICK p \in BlocksOf(a) : InsertBlock(a, p)
    <3>1. Above(r) \in blocks /\ InsertBlock(a, Above(r))
      BY <1>3, <2>1 DEF BlockInsert, Above
    <3>2. Above(r) \in BlocksOf(a)
      BY <1>1, <2>1, <3>1 DEF TreeInv, FoundOf, BlocksOf
    <3> QED
      BY <3>1, <3>2
  <2>3. p # None /\ p \in BlocksOf(a) \cup {None}
    BY CatalogueAssumption DEF BlocksOf, Rows, TypeOK
  <2>4. /\ Parented' /\ Rooted' /\ Roots(a)' = Roots(a)
        /\ \A c \in Attrs \ {a} : Roots(c)' = Roots(c) /\ BlocksOf(c)' = BlocksOf(c)
        /\ \A b \in Blocks : row[b].attr # None => row'[b] = row[b]
    BY <1>1, <2>2, <2>3, InsertTree DEF TreeInv
  <2>5. Held(r) /\ ParentsStay
    BY <1>1, <2>4 DEF Held, ParentsStay, Present
  <2>6. ASSUME NEW c \in Attrs \ raced' PROVE Shaped(c)'
    BY <1>1, <2>2, <2>4, ShapeKept DEF TreeInv
  <2> QED
    BY <1>1, <2>4, <2>5, <2>6, TreeKept, FoundOver DEF Acts
<1> QED
  BY <1>2, <1>3

\* A block is put under another one of its attribute.
LEMMA TreeMove ==
    ASSUME Rows, Flow, RootInv, TreeInv, NEW r \in Requests, BlockMove(r)
    PROVE  TreeInv'
<1>1. Ends(r) /\ UNCHANGED <<type, config, lock, raced, blocks>> /\ pc[r] = "blockMove"
  BY Finishes DEF BlockMove, attributes
<1>2. CASE UNCHANGED <<row, looped>>
  <2>1. /\ Parented' /\ Rooted' /\ ParentsStay /\ Held(r)
        /\ \A a \in Attrs \ raced' : Shaped(a)'
    BY <1>1, <1>2, TreeStill DEF TreeInv
  <2> QED
    BY <1>1, <2>1, TreeKept, FoundOver DEF Acts
<1>3. CASE ~UNCHANGED <<row, looped>>
  <2>1. PICK b \in blocks, p \in blocks :
          /\ b = In(r).block /\ p = In(r).parent
          /\ row' = [row EXCEPT ![b].parent = p]
          /\ looped' = IF p \in Below({b}) THEN looped \cup {row[b].attr} ELSE looped
    BY <1>3 DEF BlockMove
  <2>2. row[b].parent # None /\ row[p].attr = row[b].attr
    BY <1>1, <2>1 DEF TreeInv, FoundOf
  <2>3. /\ Parented' /\ Rooted'
        /\ \A c \in Attrs : Roots(c)' = Roots(c) /\ BlocksOf(c)' = BlocksOf(c)
        /\ \A c \in Blocks : /\ row'[c].attr = row[c].attr
                             /\ row[c].parent # None => row'[c].parent # None
    <3>1. Parented /\ Rooted /\ blocks' = blocks
      BY <1>1 DEF TreeInv
    <3> QED
      BY <2>1, <2>2, <3>1, MoveTree
  <2>4. Held(r)
    BY <1>1, <2>3 DEF Held, Present
  <2>5. ParentsStay
    BY <2>3 DEF ParentsStay
  <2>6. ASSUME NEW c \in Attrs \ raced' PROVE Shaped(c)'
    BY <1>1, <2>3, ShapeKept DEF TreeInv
  <2> QED
    BY <1>1, <2>3, <2>4, <2>5, <2>6, TreeKept, FoundOver DEF Acts
<1> QED
  BY <1>2, <1>3

\* A block that is removed is not a root.
LEMMA TreeDelete ==
    ASSUME Rows, Flow, RootInv, TreeInv, NEW r \in Requests, BlockDelete(r)
    PROVE  TreeInv'
<1>1. Ends(r) /\ UNCHANGED <<type, config, lock, raced, row, looped>> /\ pc[r] = "blockDelete"
  BY Finishes DEF BlockDelete, attributes
<1>2. PICK b \in Blocks :
        row[b].attr # None /\ row[b].parent # None /\ blocks' = blocks \ Below({b})
  BY <1>1 DEF BlockDelete, Delete, TreeInv, FoundOf
<1>3. /\ Parented' /\ Rooted'
      /\ \A c \in Attrs : Roots(c) \ {b} \subseteq Roots(c)' /\ Roots(c)' \subseteq Roots(c)
      /\ \A c \in Attrs : BlocksOf(c)' \subseteq BlocksOf(c) \ {b}
  BY <1>1, <1>2, DeleteTree DEF TreeInv
<1>4. \A c \in Attrs : Roots(c)' = Roots(c)
  <2>1. \A c \in Attrs : b \notin Roots(c)
    BY <1>2 DEF Roots, IsRoot
  <2> QED
    BY <1>3, <2>1
<1>5. Held(r) /\ ParentsStay
  BY <1>1, <1>4 DEF Held, ParentsStay, Present
<1>6. ASSUME NEW c \in Attrs \ raced' PROVE Shaped(c)'
  BY <1>1, <1>3, <1>4, ShapeKept DEF TreeInv
<1> QED
  BY <1>1, <1>3, <1>5, <1>6, TreeKept, FoundOver DEF Acts

\* All steps of a request, for the tree.
LEMMA TreeStep ==
    ASSUME Rows, Flow, RootInv, TicketInv, TreeInv, NEW r \in Requests, Acts(r)
    PROVE  TreeInv'
<1> DEFINE Still == UNCHANGED <<type, config, blocks, row, looped>> /\ raced \subseteq raced'
<1>1. ASSUME Still, FoundOf(r)' PROVE TreeInv'
  <2>1. /\ Parented' /\ Rooted' /\ ParentsStay /\ Held(r)
        /\ \A a \in Attrs \ raced' : Shaped(a)'
    BY <1>1, TreeStill DEF TreeInv
  <2> QED
    BY <1>1, <2>1, TreeKept
<1>2. CASE AttrWrite(r)
  <2>1. Still
    BY <1>2, AttrWriteMoves DEF tree
  <2>2. CASE Ends(r)
    BY <1>1, <2>1, <2>2, FoundOver
  <2>3. CASE ~Ends(r)
    <3>1. /\ pc'[r] = "attrRoot" \/ (pc'[r] = "attrCommit" /\ ~Enters(r))
          /\ input'[r] = input[r] /\ local'[r] = local[r]
      BY <1>2, <2>3, AttrWriteMoves DEF Goes
    <3>2. ASSUME End(r, "refused") PROVE FALSE
      BY <2>3, <3>2, EndIs
    <3>3. In(r).attr \in Present
      BY <1>2, <3>2 DEF AttrWrite
    <3>4. In(r)' = In(r) /\ Enters(r)' = Enters(r) /\ Present' = Present
      BY <2>1, <3>1 DEF In, Enters, NextType, Present
    <3>5. FoundOf(r)'
      BY <3>1, <3>3, <3>4 DEF FoundOf
    <3> QED
      BY <1>1, <2>1, <3>5
  <2> QED
    BY <2>2, <2>3
<1>3. CASE AttrRollback(r) \/ TicketShow(r) \/ TicketRemove(r)
  <2>1. Still
    <3>1. UNCHANGED <<type, config, row, raced, looped>>
      BY <1>3 DEF AttrRollback, TicketShow, TicketRemove, attributes, tree
    <3>2. blocks' = blocks
      BY <1>3, HungNone DEF AttrRollback, TicketShow, TicketRemove, tree, Delete, Below
    <3> QED
      BY <3>1, <3>2
  <2> QED
    BY <1>1, <1>3, <2>1, Finishes, FoundOver
<1>4. CASE TicketInsert(r) \/ Admit(r)
  <2>1. Still
    BY <1>4, TicketInsertMoves, AdmitMoves DEF attributes, tree, Race
  <2>2. Ends(r) \/ pc'[r] = "conflict"
    BY <1>4, TicketInsertMoves, AdmitMoves DEF Goes
  <2> QED
    BY <1>1, <2>1, <2>2, FoundOver
<1> QED
  BY <1>2, <1>3, <1>4, TreeReads, TreeCreate, TreeCommit, TreeRemove, TreeInsert, TreeMove,
     TreeDelete DEF Acts

-----------------------------------------------------------------------------
(* The specification.                                                      *)

\* The initial databases.
LEMMA InitCatalogue ==
    ASSUME Init PROVE CatalogueInv
<1>1. PICK s \in Start :
        /\ type = s.type /\ config = s.config
        /\ blocks = s.blocks /\ row = s.row
        /\ tickets = s.tickets /\ target = s.target /\ issued = s.tickets
        /\ shown = s.shown
        /\ people = People /\ chosen = s.chosen
        /\ raced = s.raced /\ looped = s.looped
  BY DEF Init
<1>2. /\ lock = [a \in Attrs |-> None] /\ checkIns = {}
      /\ pc = [r \in Requests |-> "idle"] /\ input = [r \in Requests |-> Nothing]
      /\ local = [r \in Requests |-> Fresh]
      /\ admitted = [c \in Triples |-> 0]
  BY DEF Init
<1>3. /\ type \in [Attrs -> Types \cup {"none"}] /\ config \in [Attrs -> Types \cup {"none"}]
      /\ raced \in SUBSET Attrs /\ looped \in SUBSET Attrs /\ blocks \in SUBSET Blocks
      /\ row \in [Blocks -> BlockRow] /\ tickets \in SUBSET Tickets
      /\ target \in [Tickets -> Attrs \cup {None}] /\ shown \in [Tickets -> SUBSET Attrs]
      /\ chosen \in [People -> SUBSET Blocks]
  BY <1>1, StartAssumption DEF Database
<1>4. \A a \in Attrs : BlocksIn(s, a) = BlocksOf(a) /\ RootsIn(s, a) = Roots(a)
  BY <1>1 DEF BlocksIn, RootsIn, BlocksOf, Roots, IsRoot
<1>5. /\ \A b \in blocks :
           /\ row[b].attr # None /\ type[row[b].attr] # "none"
           /\ row[b].parent # None => row[b].parent \in BlocksIn(s, row[b].attr)
      /\ \A a \in Attrs : \A b, c \in Roots(a) : b = c
      /\ \A a \in Attrs \ raced :
           /\ config[a] = type[a]
           /\ (type[a] = "block") = (Roots(a) # {})
           /\ type[a] # "block" => BlocksOf(a) = {}
      /\ \A a \in Attrs \ looped : BlocksOf(a) \subseteq Hung(blocks, row, Roots(a))
      /\ \A t \in tickets : target[t] # None =>
           /\ type[target[t]] # "none"
           /\ target[t] \in raced \/ type[target[t]] = "block"
  BY <1>1, <1>4, StartAssumption
<1>6. Rows
  <2>1. Nothing \in Input /\ Fresh \in Locals /\ "idle" \in Steps
    BY DEF Nothing, Input, Ops, Fresh, Locals, Steps
  <2>2. /\ pc \in [Requests -> Steps] /\ local \in [Requests -> Locals]
        /\ input \in [Requests -> Input] /\ lock \in [Attrs -> Requests \cup {None}]
        /\ admitted \in [Triples -> Nat]
    BY <1>2, <2>1
  <2>3. /\ type \in [Attrs -> Types \cup {"none", "gone"}]
        /\ config \in [Attrs -> Types \cup {"none", "gone"}]
    BY <1>1, <1>3
  <2>4. tickets \subseteq issued /\ issued \subseteq Tickets /\ people \subseteq People
    BY <1>1, <1>3
  <2> QED
    BY <1>2, <1>3, <2>2, <2>3, <2>4 DEF Rows, TypeOK
<1>7. \A r \in Requests : pc[r] = "idle"
  BY <1>2
<1>8. Flow
  BY <1>7 DEF Flow, FlowOf, Ops, Ended, Retyping, Scanning
<1>9. RootInv
  BY <1>5, <1>7 DEF RootInv
<1>10. TicketInv
  BY <1>5, <1>7 DEF TicketInv, TicketUnlessRaced, SeenType, SeenTickets, SeenBlock, Retyping
<1>11. CheckInInv
  BY <1>2, <1>7 DEF CheckInInv, CheckInConsistent, ConflictMeansAdmitted
<1>12. TreeInv
  <2>1. Parented
    <3> SUFFICES ASSUME NEW b \in blocks, row[b].parent # None
                 PROVE  row[b].parent \in BlocksOf(row[b].attr)
      BY DEF Parented
    <3>1. row[b].attr \in Attrs
      BY <1>3, <1>5 DEF BlockRow
    <3> QED
      BY <1>4, <1>5, <3>1
  <2>2. Rooted
    BY <1>5 DEF Rooted, Below
  <2>3. \A a \in Attrs \ raced : Shaped(a)
    BY <1>5 DEF Shaped
  <2>4. \A r \in Requests : FoundOf(r)
    BY <1>7 DEF FoundOf
  <2> QED
    BY <2>1, <2>2, <2>3, <2>4 DEF TreeInv
<1> QED
  BY <1>6, <1>8, <1>9, <1>10, <1>11, <1>12 DEF CatalogueInv

\* Steps of no request.
LEMMA OthersStep ==
    ASSUME CatalogueInv, Rows', Trims, UNCHANGED requests,
           UNCHANGED <<type, config, lock, blocks, row, target, issued, raced, looped>>,
           tickets' \subseteq tickets, people' \subseteq people
    PROVE  CatalogueInv'
<1>1. pc' = pc /\ input' = input /\ local' = local
  BY DEF requests
<1>2. Grows /\ Told
  BY <1>1 DEF Grows, Told
<1>3. Flow'
  <2>1. ASSUME NEW q \in Requests PROVE FlowOf(q)'
    BY <1>1, <1>2, <2>1, FlowKept DEF CatalogueInv, Flow, Same
  <2> QED
    BY <2>1 DEF Flow
<1>4. RootInv'
  <2>1. \A a : Roots(a)' \subseteq Roots(a)
    BY DEF Roots, BlocksOf, IsRoot
  <2>2. \A q \in Requests : Enters(q)' = Enters(q) /\ In(q)' = In(q)
    BY <1>1 DEF Enters, NextType, In
  <2>3. \A b \in blocks' : row'[b].attr # None /\ type'[row'[b].attr] # "none"
    BY DEF CatalogueInv, RootInv
  <2>4. \A a \in Attrs : \A b, c \in Roots(a)' : b = c
    BY <2>1 DEF CatalogueInv, RootInv
  <2>5. \A q \in Requests : pc'[q] \in {"attrRoot", "attrCommit"} => lock'[In(q)'.attr] = q
    BY <1>1, <2>2 DEF CatalogueInv, RootInv
  <2>6. ASSUME NEW q \in Requests, pc'[q] = "attrCommit", Enters(q)', ~local'[q].hasRoot
        PROVE  Roots(In(q).attr)' = {}
    <3>1. Roots(In(q).attr) = {}
      BY <1>1, <2>2, <2>6 DEF CatalogueInv, RootInv
    <3>2. Roots(In(q).attr)' \subseteq Roots(In(q).attr)
      BY <1>1 DEF Roots, BlocksOf, IsRoot, In
    <3> QED
      BY <3>1, <3>2
  <2> QED
    BY <2>3, <2>4, <2>5, <2>6 DEF RootInv
<1>5. TicketInv'
  BY <1>1 DEF CatalogueInv, TicketInv, TicketUnlessRaced, SeenType, SeenTickets, SeenBlock,
     Untouched, In
<1>6. CheckInInv'
  BY <1>2, TrimStep DEF CatalogueInv
<1>7. TreeInv'
  <2>1. Parented' /\ Rooted' /\ \A a \in Attrs \ raced' : Shaped(a)'
    BY TreeStill DEF CatalogueInv, TreeInv
  <2>2. ASSUME NEW q \in Requests PROVE FoundOf(q)'
    <3>1. FoundOf(q)
      BY DEF CatalogueInv, TreeInv
    <3>2. Above(q)' = Above(q) /\ In(q)' = In(q) /\ Enters(q)' = Enters(q) /\ Present' = Present
      BY <1>1 DEF Above, In, Enters, NextType, Present
    <3>3. Roots(In(q).attr)' = Roots(In(q).attr)
      BY <1>1 DEF Roots, BlocksOf, IsRoot, In
    <3> QED
      BY <1>1, <3>1, <3>2, <3>3 DEF FoundOf
  <2> QED
    BY <2>1, <2>2 DEF TreeInv
<1> QED
  BY <1>3, <1>4, <1>5, <1>6, <1>7 DEF CatalogueInv

\* The invariant is inductive.
LEMMA CatalogueStep ==
    ASSUME CatalogueInv, [Next]_vars PROVE CatalogueInv'
<1>0. Rows /\ Flow /\ RootInv /\ TicketInv /\ CheckInInv /\ TreeInv
  BY DEF CatalogueInv
<1>1. ASSUME NEW r \in Requests, Acts(r) PROVE CatalogueInv'
  BY <1>0, <1>1, RowsStep, FlowStep, RootStep, TicketStep, CheckInStep,
     TreeStep DEF CatalogueInv
<1>2. ASSUME NEW p \in People, NEW S \in Choices, Choose(p, S) PROVE CatalogueInv'
  <2>1. /\ UNCHANGED <<attributes, tree, ticketing, people, checkIns, requests,
                       admitted, raced, looped>>
        /\ chosen' = [chosen EXCEPT ![p] = S] /\ S \subseteq blocks
    BY <1>2 DEF Choose
  <2>2. Trims
    BY <1>0, <2>1, KeepTrims DEF tree, ticketing
  <2>3. Rows'
    BY <1>0, <2>1 DEF Rows, TypeOK, attributes, tree, ticketing, requests
  <2> QED
    BY <2>1, <2>2, <2>3, OthersStep DEF attributes, tree, ticketing
<1>3. ASSUME NEW p \in People, PersonLeaves(p) PROVE CatalogueInv'
  <2>1. /\ UNCHANGED <<attributes, row, target, shown, issued, chosen, requests,
                       admitted, raced, looped>>
        /\ Delete({}, {}, {p})
    BY <1>3 DEF PersonLeaves
  <2>2. Trims
    BY <1>0, <2>1, DeleteTrims
  <2>3. /\ blocks' = blocks /\ tickets' \subseteq tickets
        /\ people' \subseteq people /\ checkIns' \subseteq checkIns
    BY <1>0, <2>1, DeleteTypes, HungNone DEF Delete, Below
  <2>4. Rows'
    BY <1>0, <2>1, <2>3 DEF Rows, TypeOK, attributes, requests
  <2> QED
    BY <2>1, <2>2, <2>3, <2>4, OthersStep DEF attributes
<1>4. CASE UNCHANGED vars
  <2>1. UNCHANGED <<attributes, tree, ticketing, visitors, checkIns, requests,
                    admitted, raced, looped>>
    BY <1>4 DEF vars
  <2>2. Trims
    BY <1>0, <2>1, KeepTrims DEF tree, ticketing, visitors
  <2>3. Rows'
    BY <1>0, <2>1 DEF Rows, TypeOK, attributes, tree, ticketing, visitors, requests
  <2> QED
    BY <2>1, <2>2, <2>3, OthersStep DEF attributes, tree, ticketing, visitors
<1> QED
  BY <1>1, <1>2, <1>3, <1>4 DEF Next, Acts, Reads

\* Every reachable state satisfies the inductive invariant.
THEOREM CatalogueInvariant == Spec => []CatalogueInv
BY InitCatalogue, CatalogueStep, PTL DEF Spec

\* Requests only ever leave well-typed rows.
THEOREM CatalogueTypes == Spec => []TypeOK
<1>1. CatalogueInv => TypeOK
  BY DEF CatalogueInv, Rows
<1> QED
  BY <1>1, CatalogueInvariant, PTL

\* ensureRootBlock never makes a second root, whatever changes of the type,
\* creations and removals overlap: its search and its insertion come after the
\* update that locks the attribute's row.
THEOREM RootsAreUnique == Spec => []OneRoot
<1>1. CatalogueInv => OneRoot
  <2> SUFFICES ASSUME CatalogueInv, NEW a \in Attrs PROVE Cardinality(Roots(a)) <= 1
    BY DEF OneRoot
  <2>1. \A b, c \in Roots(a) : b = c
    BY DEF CatalogueInv, RootInv
  <2>2. CASE Roots(a) = {}
    BY <2>2, FS_EmptySet
  <2>3. CASE Roots(a) # {}
    <3>1. PICK b : Roots(a) = {b}
      BY <2>1, <2>3
    <3> QED
      BY <3>1, FS_Singleton
  <2> QED
    BY <2>2, <2>3
<1> QED
  BY <1>1, CatalogueInvariant, PTL

\* A BLOCK ticket is on an attribute of type block, unless its creation and a
\* change of the type overlapped: both read what the other writes.
THEOREM TicketsOnBlocks == Spec => []TicketUnlessRaced
<1>1. CatalogueInv => TicketUnlessRaced
  BY DEF CatalogueInv, TicketInv
<1> QED
  BY <1>1, CatalogueInvariant, PTL

\* A check-in's ticket, participant and block exist and belong together, across
\* everything that is deleted while devices scan.
THEOREM CheckInsFit == Spec => []CheckInConsistent
<1>1. CatalogueInv => CheckInConsistent
  BY DEF CatalogueInv, CheckInInv
<1> QED
  BY <1>1, CatalogueInvariant, PTL

\* A ticket admits a participant once per block, and who is told that it was
\* confirmed was admitted, however many devices confirm.
THEOREM AdmissionIsOnce == Spec => []AdmittedOnce
<1>1. CatalogueInv => AdmittedOnce
  <2> SUFFICES ASSUME CatalogueInv PROVE AdmittedOnce
    OBVIOUS
  <2>1. \A c \in Triples : admitted[c] = 0 \/ admitted[c] = 1
    BY DEF CatalogueInv, CheckInInv
  <2>2. \A c \in Triples : admitted[c] <= 1
    BY <2>1
  <2> QED
    BY <2>2 DEF AdmittedOnce, CatalogueInv, CheckInInv
<1> QED
  BY <1>1, CatalogueInvariant, PTL

\* Exactly the attributes of type block have a root and blocks, and a config has
\* its attribute's type, for every number of requests, unless two requests about
\* the attribute overlapped: updateTx decides on the type that it read.
THEOREM ShapesFit == Spec => []ShapeUnlessRaced
<1>1. CatalogueInv => ShapeUnlessRaced
  BY DEF CatalogueInv, TreeInv, Shaped, ShapeUnlessRaced, Present, Types
<1> QED
  BY <1>1, CatalogueInvariant, PTL

\* findAll and getBlockTree list every block of an attribute, whatever creations,
\* moves, removals and changes of the type overlap, unless update put a block
\* under its own descendant.
THEOREM TreesAreWhole == Spec => []TreeUnlessLooped
<1>1. CatalogueInv => TreeUnlessLooped
  <2> SUFFICES ASSUME CatalogueInv, NEW a \in Attrs \ looped PROVE Tree(a) = BlocksOf(a)
    BY DEF TreeUnlessLooped
  <2>1. BlocksOf(a) \subseteq Below(Roots(a))
    BY DEF CatalogueInv, TreeInv, Rooted
  <2> QED
    BY <2>1 DEF Tree
<1> QED
  BY <1>1, CatalogueInvariant, PTL
=============================================================================
