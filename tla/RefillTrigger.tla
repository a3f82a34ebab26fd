---------------------------- MODULE RefillTrigger ----------------------------
(***************************************************************************)
(* RefillTriggerCoordinator: the guard every sponsored request passes on   *)
(* its way to an automatic refill.  The class compares Date.now() with     *)
(* nextAllowedAtMs only; the module keeps the difference of the two, the   *)
(* time that must still pass, which never grows and stops at 0.            *)
(***************************************************************************)
EXTENDS Integers

CONSTANT Debounce               \* scheduleDebounceMs, in ticks of the clock

ASSUME DebounceAssumption == Debounce \in Nat

VARIABLES
    preflightInFlight,          \* a started runFn has not settled yet
    untilAllowed                \* nextAllowedAtMs - now, 0 when it has passed

triggerVars == <<preflightInFlight, untilAllowed>>

TriggerTypeOK ==
    /\ preflightInFlight \in BOOLEAN
    /\ untilAllowed \in 0..Debounce

TriggerInit ==
    /\ preflightInFlight = FALSE
    /\ untilAllowed = 0

\* Variants of the operations below with one plausible mistake each: a run that
\* violates a property with one of them in place shows that the property can fail.
TriggerWhileRunning ==
    /\ untilAllowed = 0
    /\ preflightInFlight' = TRUE
    /\ untilAllowed' = Debounce

TriggerInsideWindow ==
    /\ ~preflightInFlight
    /\ preflightInFlight' = TRUE
    /\ untilAllowed' = Debounce

SettleWithoutFinally == UNCHANGED triggerVars

\* trigger(): skipped while a preflight runs and inside the debounce window (no
\* state changes then); otherwise takes the flag and opens a new window.
Trigger ==
    /\ ~preflightInFlight
    /\ untilAllowed = 0
    /\ preflightInFlight' = TRUE
    /\ untilAllowed' = Debounce

\* finally(): runFn resolved or rejected; the window stays as it is.
Settle ==
    /\ preflightInFlight' = FALSE
    /\ UNCHANGED untilAllowed

\* A new process constructs a new coordinator.
TriggerRestart ==
    /\ preflightInFlight' = FALSE
    /\ untilAllowed' = 0

TriggerTick ==
    /\ untilAllowed' = IF untilAllowed > 0 THEN untilAllowed - 1 ELSE 0
    /\ UNCHANGED preflightInFlight

=============================================================================
