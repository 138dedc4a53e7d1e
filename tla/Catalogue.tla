----------------------------- MODULE Catalogue -----------------------------
(***************************************************************************)
(* The catalogue of an event: attributes and their types, the tree of      *)
(* blocks under an attribute of type block, tickets and the check-ins at   *)
(* the door.  Requests interleave between their awaits; each statement and *)
(* each commit is a step of the database (read committed, foreign keys     *)
(* with cascades, unique indexes).                                         *)
(***************************************************************************)
EXTENDS Naturals, FiniteSets

CONSTANTS
    Requests,
    Attrs, Blocks, Tickets, People,   \* uuids
    Strangers,      \* participants of another event
    Inputs,         \* what each request may ask for
    Choices,        \* sets of blocks a participant may choose
    Start,          \* the possible initial databases
    None

Types == {"text", "select", "block", "file"}
NotDisplayable == {"file"}

\* Whether a request of a kind exists is decided by its "op".
Ops == {"attrCreate", "attrUpdate", "attrRemove", "blockCreate", "blockUpdate",
        "blockDuplicate", "blockRemove", "ticketCreate", "ticketUpdate",
        "ticketRemove", "scan", "confirm"}

Input == [op : Ops,
          attr : Attrs \cup {None},       \* attributeUuid
          type : Types \cup {None},       \* None: not in the body
          config : BOOLEAN,               \* a config is in the body
          block : Blocks \cup {None}, parent : Blocks \cup {None},
          ticket : Tickets \cup {None}, shown : SUBSET Attrs,
          person : People \cup {None}]

Nothing == [op |-> "scan", attr |-> None, type |-> None, config |-> FALSE,
            block |-> None, parent |-> None, ticket |-> None, shown |-> {},
            person |-> None]

BlockRow == [attr : Attrs \cup {None}, parent : Blocks \cup {None}]
Triples == Tickets \X People \X (Blocks \cup {None})

ASSUME CatalogueAssumption ==
    /\ Inputs \in [Requests -> SUBSET Input]
    /\ \A r \in Requests : \A in \in Inputs[r] :         \* what the DTOs require
         in.op = "attrCreate" => in.type # None
    /\ Choices \subseteq SUBSET Blocks
    /\ Strangers \subseteq People
    /\ None \notin Blocks \cup Attrs \cup Tickets \cup People \cup Requests \cup Types

\* S and everything that hangs below it: the least set of blocks that a cascade
\* from S can leave no child of.
Hung(bs, rw, S) ==
    LET closed == {T \in SUBSET bs : /\ S \cap bs \subseteq T
                                     /\ \A b \in bs : rw[b].parent \in T => b \in T}
    IN {b \in bs : \A T \in closed : b \in T}

\* Databases that the service can have written, with their history: blocks hang
\* under blocks of their attribute, an attribute has one root at most, and what
\* holds unless requests overlapped or a block was put under its descendant.
Database ==
    [type : [Attrs -> Types \cup {"none"}], config : [Attrs -> Types \cup {"none"}],
     blocks : SUBSET Blocks, row : [Blocks -> BlockRow],
     tickets : SUBSET Tickets, target : [Tickets -> Attrs \cup {None}],
     shown : [Tickets -> SUBSET Attrs], chosen : [People -> SUBSET Blocks],
     raced : SUBSET Attrs, looped : SUBSET Attrs]
BlocksIn(s, a) == {b \in s.blocks : s.row[b].attr = a}
RootsIn(s, a) == {b \in BlocksIn(s, a) : s.row[b].parent = None}
ASSUME StartAssumption ==
    \A s \in Start :
         /\ s \in Database
         /\ \A b \in s.blocks :
              /\ s.row[b].attr # None /\ s.type[s.row[b].attr] # "none"
              /\ s.row[b].parent # None => s.row[b].parent \in BlocksIn(s, s.row[b].attr)
         /\ \A a \in Attrs : \A b, c \in RootsIn(s, a) : b = c
         /\ \A a \in Attrs \ s.raced :
              /\ s.config[a] = s.type[a]
              /\ (s.type[a] = "block") = (RootsIn(s, a) # {})
              /\ s.type[a] # "block" => BlocksIn(s, a) = {}
         /\ \A a \in Attrs \ s.looped :
              BlocksIn(s, a) \subseteq Hung(s.blocks, s.row, RootsIn(s, a))
         /\ \A t \in s.tickets : s.target[t] # None =>
              /\ s.type[s.target[t]] # "none"
              /\ s.target[t] \in s.raced \/ s.type[s.target[t]] = "block"

VARIABLES
    type,       \* of an attribute: "none" before it exists, "gone" after
    config,     \* the type whose shape the attribute's config has
    lock,       \* the transaction that updated the attribute's row
    blocks, row,            \* live blocks, their rows
    tickets, target, shown, \* live tickets, attributeUuid, TicketAttributes
    issued,                 \* uuids of tickets that were used
    people, chosen,         \* participants and the blocks in their values
    checkIns,
    pc, input, local,       \* the requests
    \* history: successful confirms; attributes two overlapping requests wrote;
    \* attributes in which a block was put under one of its descendants
    admitted, raced, looped

attributes == <<type, config, lock>>
tree == <<blocks, row>>
ticketing == <<tickets, target, shown, issued>>
visitors == <<people, chosen>>
requests == <<pc, input, local>>
vars == <<attributes, tree, ticketing, visitors, checkIns, requests,
          admitted, raced, looped>>

Present == {a \in Attrs : type[a] \in Types}
BlocksOf(a) == {b \in blocks : row[b].attr = a}
\* isRootBlock: only ensureRootBlock creates a block without a parent, and no
\* request writes either column of a root.
IsRoot(b) == row[b].parent = None
Roots(a) == {b \in BlocksOf(a) : IsRoot(b)}

Below(S) == Hung(blocks, row, S)

\* What findAll and getBlockTree list: children hung under their parents,
\* then everything under the root.
Tree(a) == Below(Roots(a)) \cap BlocksOf(a)

-----------------------------------------------------------------------------
(* Requests.                                                               *)

Fresh == [type |-> None,       \* attribute.type as it was read
          hasRoot |-> FALSE,   \* ensureRootBlock found a root
          parent |-> None,     \* block.parentUuid as it was read
          shown |-> {},        \* the ticket's rows that the update deleted
          touched |-> {}]      \* history: attributes others wrote meanwhile

Ended == {"done", "refused", "conflict"}
InFlight == {r \in Requests : pc[r] \notin Ended \cup {"idle"}}
In(r) == input[r]

\* Rows that r creates for a ticket are not those that q deleted of it.
Renewed(r, next, q) ==
    IF pc[r] = "ticketShow" /\ next = "done" /\ In(q).ticket = In(r).ticket
    THEN In(r).shown ELSE {}

\* The end of r, or its next await; what r wrote touches the others.
Step(r, next, l, written) ==
    /\ pc' = [pc EXCEPT ![r] = next]
    /\ local' = [q \in Requests |->
          IF q = r THEN (IF next \in Ended THEN Fresh ELSE l)
          ELSE IF q \in InFlight
          THEN [local[q] EXCEPT !.touched = @ \cup written, !.shown = @ \ Renewed(r, next, q)]
          ELSE local[q]]
    /\ input' = [input EXCEPT ![r] = IF next \in {"done", "refused"} THEN Nothing ELSE @]

OnlyReads == UNCHANGED <<attributes, tree, ticketing, visitors, checkIns,
                         admitted, raced, looped>>

Goto(r, next) == Step(r, next, local[r], {})
End(r, answer) == Goto(r, answer)

\* Rows written in an attribute that someone else wrote since r began.
Race(r, a) == raced' = IF a \in local[r].touched THEN raced \cup {a} ELSE raced

\* DELETE with its cascades: blocks take the blocks below them, and blocks,
\* tickets and participants take their check-ins.
Delete(bs, ts, ps) ==
    /\ blocks' = blocks \ Below(bs)
    /\ tickets' = tickets \ ts
    /\ people' = people \ ps
    /\ checkIns' = {c \in checkIns : /\ c[1] \notin ts /\ c[2] \notin ps
                                     /\ c[3] \notin Below(bs)}

\* A row with a new uuid.
Unused == {b \in Blocks : row[b].attr = None}
InsertBlock(a, p) ==
    LET b == CHOOSE b \in Unused : TRUE IN
    /\ Unused # {}
    /\ blocks' = blocks \cup {b}
    /\ row' = [row EXCEPT ![b] = [attr |-> a, parent |-> p]]

Begin(r, in) ==
    /\ pc[r] = "idle"
    /\ input' = [input EXCEPT ![r] = in]
    /\ pc' = [pc EXCEPT ![r] = in.op]
    /\ UNCHANGED <<attributes, tree, ticketing, visitors, checkIns, local,
                   admitted, raced, looped>>

-----------------------------------------------------------------------------
(* AttributesService.                                                      *)

\* One transaction: the row and, for a block attribute, its root.
AttrCreate(r) ==
    /\ pc[r] = "attrCreate"
    /\ \E a \in Attrs :
        /\ type[a] = "none"
        /\ type' = [type EXCEPT ![a] = In(r).type]
        /\ config' = [config EXCEPT ![a] = In(r).type]
        /\ IF In(r).type = "block"
           THEN InsertBlock(a, None)
           ELSE UNCHANGED tree
    /\ End(r, "done")
    /\ UNCHANGED <<lock, ticketing, visitors, checkIns, admitted, raced, looped>>

NextType(r) == IF In(r).type = None THEN local[r].type ELSE In(r).type
Leaves(r) == local[r].type = "block" /\ NextType(r) # "block"
Enters(r) == local[r].type # "block" /\ NextType(r) = "block"

AttrRead(r) ==
    /\ pc[r] = "attrUpdate"
    /\ IF In(r).attr \in Present
       THEN LET found == [local[r] EXCEPT !.type = type[In(r).attr]]
            IN Step(r, IF found.type = "block" /\ In(r).type \notin {None, "block"}
                       THEN "attrTicket" ELSE "attrWrite", found, {})
       ELSE End(r, "refused")
    /\ OnlyReads

\* Mutant of AttrTicket: the tickets are not looked at.
AttrTicketUnchecked(r) ==
    /\ pc[r] = "attrTicket"
    /\ Goto(r, "attrWrite")
    /\ OnlyReads

AttrTicket(r) ==
    /\ pc[r] = "attrTicket"
    /\ IF \E t \in tickets : target[t] = In(r).attr
       THEN End(r, "conflict") ELSE Goto(r, "attrWrite")
    /\ OnlyReads

\* Mutant of AttrWrite: another transaction's uncommitted update is not awaited.
AttrWriteUnlocked(r) ==
    /\ pc[r] = "attrWrite"
    /\ In(r).attr \in Present
    /\ Goto(r, IF Enters(r) THEN "attrRoot" ELSE "attrCommit")
    /\ lock' = [lock EXCEPT ![In(r).attr] = r]
    /\ UNCHANGED <<type, config, tree, ticketing, visitors, checkIns, admitted, raced, looped>>

\* attribute.update locks the row until the commit; a row that is gone, or a
\* config that its next type requires and the body lacks, is an error.
AttrWrite(r) ==
    LET a == In(r).attr IN
    /\ pc[r] = "attrWrite"
    /\ IF \/ a \notin Present
          \/ NextType(r) = "select" /\ local[r].type # "select" /\ ~In(r).config
       THEN End(r, "refused") /\ UNCHANGED lock
       ELSE /\ lock[a] = None
            /\ lock' = [lock EXCEPT ![a] = r]
            /\ Goto(r, IF Enters(r) THEN "attrRoot" ELSE "attrCommit")
    /\ UNCHANGED <<type, config, tree, ticketing, visitors, checkIns, admitted, raced, looped>>

\* ensureRootBlock looks for a root that is committed.
AttrRoot(r) ==
    /\ pc[r] = "attrRoot"
    /\ Step(r, "attrCommit", [local[r] EXCEPT !.hasRoot = Roots(In(r).attr) # {}], {})
    /\ OnlyReads

\* The commit makes the update, the new root or the deletion of the dropped
\* blocks visible.  (A block created under one of them meanwhile waits for this
\* commit on its foreign key.)  The config is left alone when neither it nor,
\* as read, the type changes.
Commit(r, newType, dropped) ==
    LET a == In(r).attr IN
    /\ pc[r] = "attrCommit"
    /\ lock' = [lock EXCEPT ![a] = None]
    /\ type' = [type EXCEPT ![a] = newType]
    /\ config' = [config EXCEPT ![a] = IF In(r).config \/ NextType(r) # local[r].type
                                       THEN NextType(r) ELSE @]
    /\ IF Enters(r) /\ ~local[r].hasRoot
       THEN /\ InsertBlock(a, None)
            /\ UNCHANGED <<tickets, people, checkIns>>
       ELSE Delete(dropped, {}, {}) /\ UNCHANGED row
    /\ Race(r, a)
    /\ Step(r, "done", local[r], {a})
    /\ UNCHANGED <<target, shown, issued, chosen, admitted, looped>>

TypeAfter(r) == IF In(r).type = None THEN type[In(r).attr] ELSE In(r).type
Dropped(r) == IF Leaves(r) THEN BlocksOf(In(r).attr) ELSE {}

\* Mutants of AttrCommit: the blocks stay; a type that is absent is written.
AttrCommitKeepingBlocks(r) == Commit(r, TypeAfter(r), {})
AttrCommitNoType(r) == Commit(r, In(r).type, Dropped(r))

\* deleteRootBlocks deletes all blocks of the attribute.
AttrCommit(r) == Commit(r, TypeAfter(r), Dropped(r))

\* The transaction may run into its time limit instead.
AttrRollback(r) ==
    /\ pc[r] \in {"attrRoot", "attrCommit"}
    /\ lock' = [lock EXCEPT ![In(r).attr] = None]
    /\ End(r, "refused")
    /\ UNCHANGED <<type, config, tree, ticketing, visitors, checkIns, admitted, raced, looped>>

\* remove: blocks and attribute in one transaction, which waits for the row;
\* the foreign keys take the ticket, its check-ins, the shown rows and the
\* participants' values.
AttrRemove(r) ==
    LET a == In(r).attr IN
    /\ pc[r] = "attrRemove"
    /\ IF a \in Present
       THEN /\ lock[a] = None
            /\ type' = [type EXCEPT ![a] = "gone"]
            /\ Delete(BlocksOf(a), {t \in tickets : target[t] = a}, {})
            /\ shown' = [t \in Tickets |-> shown[t] \ {a}]
            /\ chosen' = [p \in People |-> chosen[p] \ BlocksOf(a)]
            /\ Step(r, "done", local[r], {a})
       ELSE /\ End(r, "refused")
            /\ UNCHANGED <<type, blocks, tickets, people, checkIns, shown, chosen>>
    /\ UNCHANGED <<config, lock, row, target, issued, admitted, raced, looped>>

-----------------------------------------------------------------------------
(* BlocksService.                                                          *)

\* checkAttributeExists, checkParentBlockExists
BlockCreate(r) ==
    /\ pc[r] = "blockCreate"
    /\ Goto(r, IF In(r).attr \in Present /\ In(r).parent \in BlocksOf(In(r).attr)
               THEN "blockInsert" ELSE "refused")
    /\ OnlyReads

\* duplicate: findOne; a root is refused, the parent is remembered.
BlockDuplicate(r) ==
    /\ pc[r] = "blockDuplicate"
    /\ IF In(r).block \in BlocksOf(In(r).attr) /\ ~IsRoot(In(r).block)
       THEN Step(r, "blockInsert", [local[r] EXCEPT !.parent = row[In(r).block].parent], {})
       ELSE End(r, "refused")
    /\ OnlyReads

\* block.create: the foreign key refuses a parent that is gone.
BlockInsert(r) ==
    LET parent == IF In(r).op = "blockCreate" THEN In(r).parent ELSE local[r].parent IN
    /\ pc[r] = "blockInsert"
    /\ IF parent \in blocks
       THEN InsertBlock(In(r).attr, parent) /\ End(r, "done")
       ELSE End(r, "refused") /\ UNCHANGED tree
    /\ UNCHANGED <<attributes, ticketing, visitors, checkIns, admitted, raced, looped>>

\* Not the root, not its own parent.
MayMove(b, a, parent) ==
    b \in BlocksOf(a) /\ ~IsRoot(b) /\ parent # b

\* Mutant of BlockUpdate: any block may become the parent.
BlockUpdateAnyParent(r) ==
    /\ pc[r] = "blockUpdate"
    /\ Goto(r, IF MayMove(In(r).block, In(r).attr, In(r).parent) /\ In(r).parent \in blocks
               THEN "blockMove" ELSE "refused")
    /\ OnlyReads

\* update: the new parent is one of the same attribute.
BlockUpdate(r) ==
    /\ pc[r] = "blockUpdate"
    /\ Goto(r, IF /\ MayMove(In(r).block, In(r).attr, In(r).parent)
                  /\ In(r).parent \in BlocksOf(In(r).attr)
               THEN "blockMove" ELSE "refused")
    /\ OnlyReads

\* block.update by uuid
BlockMove(r) ==
    /\ pc[r] = "blockMove"
    /\ IF {In(r).block, In(r).parent} \subseteq blocks
       THEN /\ row' = [row EXCEPT ![In(r).block].parent = In(r).parent]
            /\ looped' = IF In(r).parent \in Below({In(r).block})
                         THEN looped \cup {row[In(r).block].attr} ELSE looped
            /\ End(r, "done")
       ELSE End(r, "refused") /\ UNCHANGED <<row, looped>>
    /\ UNCHANGED <<attributes, blocks, ticketing, visitors, checkIns, admitted, raced>>

\* remove: findOne, then the deletion with everything below it.
BlockFind(r) ==
    /\ pc[r] = "blockRemove"
    /\ Goto(r, IF In(r).block \in BlocksOf(In(r).attr) /\ ~IsRoot(In(r).block)
               THEN "blockDelete" ELSE "refused")
    /\ OnlyReads

BlockDelete(r) ==
    /\ pc[r] = "blockDelete"
    /\ End(r, IF In(r).block \in blocks THEN "done" ELSE "refused")
    /\ Delete({In(r).block}, {}, {})
    /\ UNCHANGED <<attributes, row, target, shown, issued, chosen, admitted, raced, looped>>

-----------------------------------------------------------------------------
(* TicketsService.  A ticket is of mode EVENT when it has no attribute.    *)

Displayable(S) == S \subseteq Present /\ \A a \in S : type[a] \notin NotDisplayable

\* validateTargetAttribute
TicketTarget(r) ==
    /\ pc[r] = "ticketCreate"
    /\ Goto(r, IF In(r).attr # None /\ (In(r).attr \notin Present \/ type[In(r).attr] # "block")
               THEN "refused" ELSE "ticketShown")
    /\ OnlyReads

\* validateShownAttributes, of create and update; update finds its ticket first.
TicketShown(r) ==
    /\ pc[r] \in {"ticketShown", "ticketUpdate"}
    /\ Goto(r, IF \/ ~Displayable(In(r).shown)
                  \/ In(r).op = "ticketUpdate" /\ In(r).ticket \notin tickets
               THEN "refused"
               ELSE IF In(r).op = "ticketUpdate" THEN "ticketClear" ELSE "ticketInsert")
    /\ OnlyReads

\* The unique indexes: one ticket per attribute, one of mode EVENT; the foreign
\* keys: attributes that still exist.
TicketInsert(r) ==
    /\ pc[r] = "ticketInsert"
    /\ IF \E t \in tickets : target[t] = In(r).attr
       THEN End(r, "conflict") /\ UNCHANGED <<ticketing, raced>>
       ELSE IF In(r).shown \cup ({In(r).attr} \ {None}) \subseteq Present
       THEN /\ \E t \in Tickets \ issued :
                  /\ tickets' = tickets \cup {t}
                  /\ target' = [target EXCEPT ![t] = In(r).attr]
                  /\ shown' = [shown EXCEPT ![t] = In(r).shown]
                  /\ issued' = issued \cup {t}
            /\ Race(r, In(r).attr)
            /\ Step(r, "done", local[r], {In(r).attr} \ {None})
       ELSE End(r, "refused") /\ UNCHANGED <<ticketing, raced>>
    /\ UNCHANGED <<attributes, tree, visitors, checkIns, admitted, looped>>

\* update, in its transaction: the rows it can see go, ...
TicketClear(r) ==
    /\ pc[r] = "ticketClear"
    /\ Step(r, "ticketShow", [local[r] EXCEPT !.shown = shown[In(r).ticket]], {})
    /\ OnlyReads

\* ... and its own come, unless another update added one of them since.
TicketShow(r) ==
    LET t == In(r).ticket
        kept == shown[t] \ local[r].shown
    IN
    /\ pc[r] = "ticketShow"
    /\ IF /\ t \in tickets /\ In(r).shown \subseteq Present
          /\ kept \cap In(r).shown = {}
       THEN shown' = [shown EXCEPT ![t] = kept \cup In(r).shown] /\ End(r, "done")
       ELSE End(r, "refused") /\ UNCHANGED shown
    /\ UNCHANGED <<attributes, tree, tickets, target, issued, visitors, checkIns,
                   admitted, raced, looped>>

\* remove; of two requests the second one finds no row, here or at its delete.
TicketRemove(r) ==
    /\ pc[r] = "ticketRemove"
    /\ End(r, IF In(r).ticket \in tickets THEN "done" ELSE "refused")
    /\ Delete({}, {In(r).ticket}, {})
    /\ UNCHANGED <<attributes, row, target, shown, issued, chosen, admitted, raced, looped>>

-----------------------------------------------------------------------------
(* TicketScanService.                                                      *)

Triple(r) == <<In(r).ticket, In(r).person, In(r).block>>

\* findForBlockContext: a block for a BLOCK ticket only, and in its attribute.
ScanTicket(r) ==
    LET t == In(r).ticket IN
    /\ pc[r] \in {"scan", "confirm"}
    /\ Goto(r, IF /\ t \in tickets
                  /\ IF target[t] = None THEN In(r).block = None
                     ELSE In(r).block \in BlocksOf(target[t])
               THEN "scanPerson" ELSE "refused")
    /\ OnlyReads

\* Mutant of ScanPerson: the participant's event is not compared.
ScanPersonAnyEvent(r) ==
    LET p == In(r).person IN
    /\ pc[r] = "scanPerson"
    /\ Goto(r, IF p \in people /\ (In(r).block # None => In(r).block \in chosen[p])
               THEN "scanCheckIn" ELSE "refused")
    /\ OnlyReads

\* INVALID_TICKET, WRONG_EVENT, WRONG_BLOCK, or on to the check-in.
ScanPerson(r) ==
    LET p == In(r).person IN
    /\ pc[r] = "scanPerson"
    /\ Goto(r, IF /\ p \in people /\ p \notin Strangers
                  /\ In(r).block # None => In(r).block \in chosen[p]
               THEN "scanCheckIn" ELSE "refused")
    /\ OnlyReads

\* ALREADY_CONFIRMED or VALID
ScanCheckIn(r) ==
    /\ pc[r] = "scanCheckIn"
    /\ Goto(r, IF Triple(r) \in checkIns THEN "conflict"
               ELSE IF In(r).op = "confirm" THEN "admit" ELSE "done")
    /\ OnlyReads

\* ticketCheckIn.create: a unique index that this row violates or not, then the
\* foreign keys.
Confirm(r, taken) ==
    /\ pc[r] = "admit"
    /\ IF taken
       THEN End(r, "conflict") /\ UNCHANGED <<checkIns, admitted>>
       ELSE IF /\ In(r).ticket \in tickets /\ In(r).person \in people
               /\ In(r).block \in blocks \cup {None}
       THEN /\ checkIns' = checkIns \cup {Triple(r)}
            /\ admitted' = [admitted EXCEPT ![Triple(r)] = @ + 1]
            /\ End(r, "done")
       ELSE End(r, "refused") /\ UNCHANGED <<checkIns, admitted>>
    /\ UNCHANGED <<attributes, tree, ticketing, visitors, raced, looped>>

\* Mutant of Admit: there is no unique index.
AdmitTwice(r) == Confirm(r, FALSE)

\* The index is unique with nulls not distinct.
Admit(r) == Confirm(r, Triple(r) \in checkIns)

-----------------------------------------------------------------------------
(* Submissions and removals of participants of the event, in a step each   *)
(* (FormSubmission has them in detail).                                    *)

Choose(p, S) ==
    /\ p \in people \ Strangers
    /\ S \subseteq blocks /\ \A b \in S : ~IsRoot(b)
    /\ chosen' = [chosen EXCEPT ![p] = S]
    /\ UNCHANGED <<attributes, tree, ticketing, people, checkIns, requests,
                   admitted, raced, looped>>

PersonLeaves(p) ==
    /\ p \in people \ Strangers
    /\ Delete({}, {}, {p})
    /\ UNCHANGED <<attributes, row, target, shown, issued, chosen, requests,
                   admitted, raced, looped>>

-----------------------------------------------------------------------------
Init ==
    /\ \E s \in Start :
        /\ type = s.type /\ config = s.config
        /\ blocks = s.blocks /\ row = s.row
        /\ tickets = s.tickets /\ target = s.target /\ issued = s.tickets
        /\ shown = s.shown
        /\ people = People /\ chosen = s.chosen
        /\ raced = s.raced /\ looped = s.looped
    /\ lock = [a \in Attrs |-> None]
    /\ checkIns = {}
    /\ pc = [r \in Requests |-> "idle"]
    /\ input = [r \in Requests |-> Nothing]
    /\ local = [r \in Requests |-> Fresh]
    /\ admitted = [c \in Triples |-> 0]

Next ==
    \/ \E r \in Requests :
        \/ \E in \in Inputs[r] : Begin(r, in)
        \/ AttrCreate(r) \/ AttrRead(r) \/ AttrTicket(r) \/ AttrWrite(r)
        \/ AttrRoot(r) \/ AttrCommit(r) \/ AttrRollback(r) \/ AttrRemove(r)
        \/ BlockCreate(r) \/ BlockDuplicate(r) \/ BlockInsert(r) \/ BlockUpdate(r)
        \/ BlockMove(r) \/ BlockFind(r) \/ BlockDelete(r)
        \/ TicketTarget(r) \/ TicketShown(r) \/ TicketInsert(r) \/ TicketClear(r)
        \/ TicketShow(r) \/ TicketRemove(r)
        \/ ScanTicket(r) \/ ScanPerson(r) \/ ScanCheckIn(r) \/ Admit(r)
    \/ \E p \in People : \/ \E S \in Choices : Choose(p, S)
                         \/ PersonLeaves(p)

Spec == Init /\ [][Next]_vars

-----------------------------------------------------------------------------
TypeOK ==
    /\ type \in [Attrs -> Types \cup {"none", "gone"}]
    /\ config \in [Attrs -> Types \cup {"none", "gone"}]
    /\ lock \in [Attrs -> Requests \cup {None}]
    /\ blocks \subseteq Blocks /\ row \in [Blocks -> BlockRow]
    /\ tickets \subseteq issued /\ issued \subseteq Tickets
    /\ target \in [Tickets -> Attrs \cup {None}]
    /\ shown \in [Tickets -> SUBSET Attrs]
    /\ people \subseteq People /\ chosen \in [People -> SUBSET Blocks]
    /\ checkIns \subseteq Triples
    /\ input \in [Requests -> Input]
    /\ admitted \in [Triples -> Nat]
    /\ raced \subseteq Attrs \cup {None} /\ looped \subseteq Attrs

\* No attribute ever has two root blocks, however many requests change its type
\* to block at once: findFirst and create in ensureRootBlock come after the
\* update that locked the attribute's row.
OneRoot == \A a \in Attrs : Cardinality(Roots(a)) <= 1

\* Exactly the attributes of type block have a root and blocks, and a config has
\* the shape of its attribute's type, unless two requests about the attribute
\* overlapped: updateTx decides on what it read.
ShapeUnlessRaced ==
    \A a \in Present \ raced :
        /\ config[a] = type[a]
        /\ (type[a] = "block") = (Roots(a) # {})
        /\ type[a] # "block" => BlocksOf(a) = {}

\* Every block is in the tree that findAll and getBlockTree list, unless update
\* put one under its own descendant: whatever else overlaps, no block is cut off.
TreeUnlessLooped == \A a \in Attrs \ looped : Tree(a) = BlocksOf(a)

\* A BLOCK ticket is on an attribute of type block, unless its creation and the
\* change of the type overlapped (tickets.service.ts:72, attributes.service.ts:270).
TicketUnlessRaced ==
    \A t \in tickets : target[t] # None =>
        target[t] \in raced \/ type[target[t]] = "block"

\* A check-in belongs to a ticket and a participant of the event that still
\* exist, and to a block exactly when the ticket has an attribute, then one of
\* that attribute.
CheckInConsistent ==
    \A c \in checkIns :
        /\ c[1] \in tickets /\ c[2] \in people \ Strangers
        /\ IF target[c[1]] = None THEN c[3] = None ELSE c[3] \in BlocksOf(target[c[1]])

\* Who is told that the ticket was confirmed was admitted: by that ticket, at
\* that block.
ConflictMeansAdmitted ==
    \A r \in Requests :
        pc[r] = "conflict" /\ In(r).op \in {"scan", "confirm"} => admitted[Triple(r)] = 1

\* However many devices confirm at once, a ticket admits a participant once, per
\* block for a BLOCK ticket; and who is turned away was admitted.
AdmittedOnce == (\A c \in Triples : admitted[c] <= 1) /\ ConflictMeansAdmitted
=============================================================================
