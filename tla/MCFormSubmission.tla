-------------------------- MODULE MCFormSubmission --------------------------
(***************************************************************************)
(* Instances of FormSubmission for TLC.  Each run takes one of the sets of *)
(* request bodies defined here and the small sets of its .cfg.             *)
(***************************************************************************)
EXTENDS FormSubmission, TLC

CONSTANTS r1, r2, r3, g1, e1, e2, b1, b2, t1, t2, inf

Body(kind, e, p, attrs, f, choice) ==
    [kind |-> kind, email |-> e, target |-> p, attrs |-> attrs,
     file |-> f, choice |-> choice]

OnlyBlocks == <<"blocks">>
OnlyFile == <<"file">>

\* Two submissions that lock two blocks in opposite orders, a participant
\* moving between blocks, and an organizer moving the same participant.
SeatInputs ==
    {Body("registration", e1, None, OnlyBlocks, None, <<b1, b2>>),
     Body("registration", e2, None, OnlyBlocks, None, <<b2, b1>>),
     Body("update", None, g1, OnlyBlocks, None, <<b1>>),
     Body("edit", None, g1, OnlyBlocks, None, <<b2>>)}

SeatGuests == [p \in {g1} |-> {b1}]

\* Uploads: registrations and an update with the same token, submissions that
\* leave the required file out, an organizer who adds a participant, clears the
\* file, sends it back or removes the participant.
FileInputs ==
    {Body("registration", e1, None, OnlyFile, t1, << >>),
     Body("registration", e2, None, OnlyFile, None, << >>),
     Body("update", e2, g1, OnlyFile, t1, << >>),
     Body("update", e1, g1, << >>, None, << >>),
     Body("create", e1, None, << >>, None, << >>),
     Body("edit", None, g1, OnlyFile, None, << >>),
     Body("edit", None, g1, OnlyFile, t1, << >>),
     Body("remove", None, g1, << >>, None, << >>)}

\* For liveness: blocks and an upload locked in opposite orders, a participant
\* of the event who moves, and an organizer's request.
WaitInputs ==
    {Body("registration", e1, None, <<"file", "blocks">>, t1, <<b1, b2>>),
     Body("update", None, g1, <<"blocks", "file">>, t1, <<b2, b1>>),
     Body("registration", e2, None, OnlyBlocks, None, <<b2, b1>>),
     Body("edit", None, g1, OnlyBlocks, None, <<b2>>)}

\* The same without the organizer: only form submissions.
FormInputs ==
    {Body("registration", e1, None, OnlyBlocks, None, <<b1>>),
     Body("registration", e2, None, OnlyBlocks, None, <<b1>>)}

NoSeats == [p \in {g1} |-> {}]

CapOne == {1}
CapsOneTwo == {1, 2}
NoCaps == {inf}

RequestSymmetry == Permutations({r1, r2, r3})
=============================================================================
