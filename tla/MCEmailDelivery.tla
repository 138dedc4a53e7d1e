-------------------------- MODULE MCEmailDelivery --------------------------
(***************************************************************************)
(* EmailDelivery for TLC: an organizer's mail to two participants, or the  *)
(* mail about one who registered or, with the snapshot, was deleted.       *)
(***************************************************************************)
EXTENDS EmailDelivery

CONSTANTS s1, p1, p2, t1

Request == [kind |-> "request", template |-> t1, people |-> {p1, p2}]
Registered == [kind |-> "event", template |-> t1, people |-> {p1}]
Deleted == [kind |-> "deletion", template |-> t1, people |-> {p2}]

Calls == {Request, Registered, Deleted}
=============================================================================
