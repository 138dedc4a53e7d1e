----------------------------- MODULE BlockSeats -----------------------------
(***************************************************************************)
(* What the capacity of a block promises, without locks or transactions:   *)
(* a participant gains a seat only while the block still has one.  The     *)
(* organizer may change a capacity at any time, also to less than the      *)
(* number of seats taken: nobody is moved then, but nobody new comes in.   *)
(***************************************************************************)
EXTENDS Naturals, FiniteSets

CONSTANTS
    Blocks,       \* the selectable blocks of the event
    People,       \* everybody who may hold a seat
    Capacities,   \* the capacities an organizer sets
    Unlimited     \* Block.capacity = null

\* What the promise needs to know of its constants; FormSubmission assumes it of
\* the sets it implements this module with.
ConstantsOK ==
    /\ Capacities \subseteq Nat \cup {Unlimited}
    /\ Unlimited \notin Nat
    /\ IsFiniteSet(People)

VARIABLES
    taken,        \* taken[b]: who holds a seat of block b
    capacity      \* capacity[b]

vars == <<taken, capacity>>

HasRoom(cap, n) == cap # Unlimited => n < cap

Within(cap, n) == cap # Unlimited => n <= cap

TypeOK ==
    /\ taken \in [Blocks -> SUBSET People]
    /\ capacity \in [Blocks -> Capacities]

Init ==
    /\ TypeOK
    /\ \A b \in Blocks : Within(capacity[b], Cardinality(taken[b]))

\* p holds seats of exactly the blocks of B afterwards; each new one had room.
Reseat(p, B) ==
    /\ \A b \in B : p \in taken[b] \/ HasRoom(capacity[b], Cardinality(taken[b]))
    /\ taken' = [b \in Blocks |-> IF b \in B THEN taken[b] \cup {p}
                                             ELSE taken[b] \ {p}]
    /\ UNCHANGED capacity

SetCapacity(b, c) ==
    /\ capacity' = [capacity EXCEPT ![b] = c]
    /\ UNCHANGED taken

Next ==
    \/ \E p \in People, B \in SUBSET Blocks : Reseat(p, B)
    \/ \E b \in Blocks, c \in Capacities : SetCapacity(b, c)

Spec == Init /\ [][Next]_vars

\* A step that seats somebody new leaves the block within its capacity,
\* whatever the organizer did to the capacity before.
NeverOversold ==
    [][\A b \in Blocks :
          ~(taken'[b] \subseteq taken[b])
             => Within(capacity'[b], Cardinality(taken'[b]))]_vars
=============================================================================
