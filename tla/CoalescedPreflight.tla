------------------------- MODULE CoalescedPreflight -------------------------
(***************************************************************************)
(* What RefillTriggerCoordinator promises its callers: however many         *)
(* requests trigger it, at most one preflight is executing, and two starts  *)
(* within one life of the service are at least Debounce apart.              *)
(***************************************************************************)
EXTENDS Integers

CONSTANT Debounce

VARIABLES
    active,             \* preflights executing
    sinceStart          \* time since the last start, up to Debounce

Init == active = 0 /\ sinceStart = Debounce

Start ==
    /\ active = 0 /\ active' = 1
    /\ sinceStart = Debounce /\ sinceStart' = 0

End == active = 1 /\ active' = 0 /\ UNCHANGED sinceStart

Tick ==
    /\ sinceStart < Debounce
    /\ sinceStart' = sinceStart + 1
    /\ UNCHANGED active

\* A restart forgets both.
Restart == active' = 0 /\ sinceStart' = Debounce

Next == Start \/ End \/ Tick \/ Restart

Spec == Init /\ [][Next]_<<active, sinceStart>>

=============================================================================
