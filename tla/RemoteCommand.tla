---------------------------- MODULE RemoteCommand ----------------------------
(***************************************************************************)
(* What the command channel from the applications to the device promises:  *)
(* a command is carried out only once it was issued, and is reported to    *)
(* its application as done only once it was carried out.  Nothing is       *)
(* promised about how often a command is carried out, nor that it is.      *)
(***************************************************************************)
CONSTANT Request

VARIABLES issued, performed, confirmed

vars == <<issued, performed, confirmed>>

Init == issued = {} /\ performed = {} /\ confirmed = {}

Issue(r) ==
  /\ r \notin issued
  /\ issued' = issued \cup {r}
  /\ UNCHANGED <<performed, confirmed>>

Perform(r) ==
  /\ r \in issued
  /\ performed' = performed \cup {r}
  /\ UNCHANGED <<issued, confirmed>>

Confirm(r) ==
  /\ r \in performed
  /\ confirmed' = confirmed \cup {r}
  /\ UNCHANGED <<issued, performed>>

Next == \E r \in Request : Issue(r) \/ Perform(r) \/ Confirm(r)

Spec == Init /\ [][Next]_vars
=============================================================================
