------------------------------ MODULE AtomicFile ------------------------------
(***************************************************************************)
(* What gum_file_update promises of one database file: an update is        *)
(* applied as a whole or not at all, and what was reported as done is in   *)
(* the file.  An update is identified by the entry it writes.              *)
(***************************************************************************)
CONSTANT Entry

VARIABLES
    content,  \* the entries of the file
    acked     \* the entries whose update was reported successful

Init == content = {} /\ acked = {}

\* An update takes effect in one step...
Apply(e) ==
    /\ content' = content \cup {e}
    /\ UNCHANGED acked

\* ...and is acknowledged only after that.
Acknowledge(e) ==
    /\ e \in content
    /\ acked' = acked \cup {e}
    /\ UNCHANGED content

Next == \E e \in Entry : Apply(e) \/ Acknowledge(e)

Spec == Init /\ [][Next]_<<content, acked>>

\* Nothing that was reported as done is missing from the file.
AckedIsStored == acked \subseteq content
=============================================================================
