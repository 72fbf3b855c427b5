-------------------------- MODULE ReliableDelivery --------------------------
(***************************************************************************)
(* What the event backbone promises to the components built on it: an      *)
(* event accepted with a committed transaction is executed at least once   *)
(* before it is acknowledged, or it ends in the dead-letter queue, and one *)
(* of the two happens.                                                     *)
(***************************************************************************)
CONSTANT Events

VARIABLES
  accepted,      \* events committed together with the state change they report
  executed,      \* events a handler has completed
  acknowledged,  \* events recorded as processed
  dead           \* events given up

vars == <<accepted, executed, acknowledged, dead>>

Init ==
  /\ accepted = {} /\ executed = {} /\ acknowledged = {} /\ dead = {}

Accept(e) ==
  /\ accepted' = accepted \cup {e}
  /\ UNCHANGED <<executed, acknowledged, dead>>

Execute(e) ==
  /\ e \in accepted
  /\ executed' = executed \cup {e}
  /\ UNCHANGED <<accepted, acknowledged, dead>>

Acknowledge(e) ==
  /\ e \in executed
  /\ acknowledged' = acknowledged \cup {e}
  /\ UNCHANGED <<accepted, executed, dead>>

Bury(e) ==
  /\ e \in accepted
  /\ dead' = dead \cup {e}
  /\ UNCHANGED <<accepted, executed, acknowledged>>

Next == \E e \in Events : Accept(e) \/ Execute(e) \/ Acknowledge(e) \/ Bury(e)

Resolve(e) ==
  /\ e \notin acknowledged \cup dead
  /\ Acknowledge(e) \/ Bury(e)

Safe == Init /\ [][Next]_vars
Spec == Safe /\ \A e \in Events : WF_vars(Resolve(e))
=============================================================================
