------------------------------ MODULE MCSending ------------------------------
(***************************************************************************)
(* The sender worker's destinations, small enough for TLC: in all of them  *)
(* rows queue up behind a transaction; EDUs of the server overflow the     *)
(* budget, and two pushes of a transaction can have different outcomes.    *)
(***************************************************************************)
EXTENDS Sending

Server(pdus, edus) ==
    [kind |-> "federation", pdus |-> pdus, edus |-> edus, badges |-> {}]
Appservice(pdus, edus) ==
    [kind |-> "appservice", pdus |-> pdus, edus |-> edus, badges |-> {}]
Pusher(pdus, badges) ==
    [kind |-> "push", pdus |-> pdus, edus |-> {}, badges |-> badges]

\* Without restarts: three EDUs overflow a budget of two beside a PDU, three or
\* four rows outgrow a transaction of two.
Steady == {Server({1}, {2, 3, 4}), Appservice({1, 2}, {3}), Pusher({1, 2, 3}, {4})}

\* Destinations whose worker arms wakes: an appservice is retried only by the
\* next message for it.
Waking == {Server({}, {1, 2}), Pusher({1, 2}, {3})}

OneServer == {Server({1, 2, 3}, {})}
=============================================================================
