------------------------------ MODULE AsyncCalls ------------------------------
(***************************************************************************)
(* What the client library promises of an asynchronous call: it is         *)
(* answered at most once, and the callback is told that answer, at most    *)
(* once and never before it.  A call whose object is given up before the   *)
(* callback ran, or that could not be sent, is dropped: its callback never *)
(* runs.                                                                   *)
(***************************************************************************)
CONSTANT Call

VARIABLE status

Answers == {"ok", "failed"}

Told == [ok |-> "told_ok", failed |-> "told_failed"]

Init == status = [c \in Call |-> "new"]

Make(c) ==
    /\ status[c] = "new"
    /\ status' = [status EXCEPT ![c] = "pending"]

Answer(c) ==
    /\ status[c] = "pending"
    /\ \E a \in Answers : status' = [status EXCEPT ![c] = a]

Tell(c) ==
    /\ status[c] \in Answers
    /\ status' = [status EXCEPT ![c] = Told[status[c]]]

Undecided == {"new", "pending"} \cup Answers

\* An object may be given up, or fail to be made, with any of its calls.
Drop(c) ==
    /\ status[c] \in Undecided
    /\ status' = [status EXCEPT ![c] = "dropped"]

Next == \E c \in Call : Make(c) \/ Answer(c) \/ Tell(c) \/ Drop(c)

Spec == Init /\ [][Next]_status
=============================================================================
