----------------------------- MODULE MailLedger -----------------------------
(***************************************************************************)
(* What a delivery status promises, without queue, worker or attempts: a   *)
(* mail is announced before it goes out, and recorded as sent only after   *)
(* one has gone out.  The record may be dropped with its participant or    *)
(* template; a record says "sent" or "failed" of the last attempt it heard *)
(* of, so it may change from either to the other.                          *)
(***************************************************************************)
EXTENDS Naturals

CONSTANT Deliveries

VARIABLES
    status,   \* status[d]: "none" before the delivery is announced
    mails     \* mails[d]: how many mails have gone out for d

vars == <<status, mails>>

Statuses == {"none", "pending", "sent", "failed", "gone"}

Init ==
    /\ status = [d \in Deliveries |-> "none"]
    /\ mails = [d \in Deliveries |-> 0]

Announced(d) == status[d] # "none"

\* One request announces all its deliveries together.
Announce(D) ==
    /\ \A d \in D : ~Announced(d)
    /\ status' = [d \in Deliveries |-> IF d \in D THEN "pending" ELSE status[d]]
    /\ UNCHANGED mails

Mail(d) ==
    /\ Announced(d)
    /\ mails' = [mails EXCEPT ![d] = @ + 1]
    /\ UNCHANGED status

Record(d, st) ==
    /\ status[d] \in {"pending", "sent", "failed"}
    /\ st = "sent" => mails[d] > 0
    /\ status' = [status EXCEPT ![d] = st]
    /\ UNCHANGED mails

Drop(D) ==
    /\ \A d \in D : Announced(d)
    /\ status' = [d \in Deliveries |-> IF d \in D THEN "gone" ELSE status[d]]
    /\ UNCHANGED mails

Next ==
    \/ \E D \in SUBSET Deliveries : Announce(D) \/ Drop(D)
    \/ \E d \in Deliveries : Mail(d) \/ Record(d, "sent") \/ Record(d, "failed")

Spec == Init /\ [][Next]_vars
=============================================================================
