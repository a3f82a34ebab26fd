--------------------------- MODULE RefillCooldown ---------------------------
(***************************************************************************)
(* How often the paymaster's USDC is spent automatically.  The service     *)
(* measures the cooldown with lastRefillAt, a variable of its memory; this *)
(* module runs module Refill with a history beside it that no restart      *)
(* forgets: the real time since the last refill that completed, of either  *)
(* kind.  The history restrains no step and no step of the code reads it.  *)
(***************************************************************************)
EXTENDS Refill

VARIABLES
    sinceCompleted,             \* time since a refill completed, up to Cooldown
    restarted,                  \* the service has restarted since then
    overtaken                   \* automatic runs a manual refill completed
                                \* beside, after their look at the cooldown

historyVars == <<sinceCompleted, restarted, overtaken>>
cooldownVars == <<vars, historyVars>>

CooldownInit ==
    /\ Init
    /\ sinceCompleted = Cooldown
    /\ restarted = FALSE
    /\ overtaken = {}

-----------------------------------------------------------------------------

\* Automatic runs that have found the cooldown over and not withdrawn yet.
Decided ==
    {r \in Autos : pc[r] = "size" \/ (pc[r] = "withdraw" /\ receipt[r] = "none")}

\* Run r returns "completed": its last send has a receipt, or nothing was left to
\* send.
Completes(r) ==
    /\ \/ pc[r] = "split"
       \/ pc[r] = "send" /\ receipt[r] # "none"
    /\ pc'[r] = "idle"
    /\ faults' = faults

Remember(r) ==
    IF Completes(r)
    THEN /\ sinceCompleted' = 0
         /\ restarted' = FALSE
         /\ overtaken' = (IF r \in Manuals THEN overtaken \cup Decided ELSE overtaken) \ {r}
    ELSE /\ overtaken' = IF pc'[r] = "idle" THEN overtaken \ {r} ELSE overtaken
         /\ UNCHANGED <<sinceCompleted, restarted>>

RememberRestart ==
    /\ restarted' = TRUE
    /\ overtaken' = {}
    /\ UNCHANGED sinceCompleted

RememberTick ==
    /\ sinceCompleted' = IF sinceCompleted < Cooldown THEN sinceCompleted + 1
                         ELSE sinceCompleted
    /\ UNCHANGED <<restarted, overtaken>>

Work(r) ==
    \/ Schedule(r) \/ RequestManual(r) \/ Continue(r)
    \/ Throw(r) \/ LoseReceipt(r)

World ==
    \/ MineTx \/ RevertTx
    \/ \E i \in Legs, d \in Drains : Drain(i, d)
    \/ \E u \in Incomes : Income(u)
    \/ \E min \in MinChoices : SetPolicy(min)

CooldownNext ==
    \/ \E r \in Runs : Work(r) /\ Remember(r)
    \/ Crash /\ RememberRestart
    \/ Tick /\ RememberTick
    \/ World /\ UNCHANGED historyVars

CooldownSpec == CooldownInit /\ [][CooldownNext]_cooldownVars

-----------------------------------------------------------------------------
(* Properties *)

\* Run r sends the transaction that takes USDC from the paymaster.
Withdraws(r) ==
    pc[r] = "withdraw" /\ receipt[r] = "none" /\ receipt'[r] = "pending"

\* An automatic refill takes USDC from the paymaster inside a cooldown of the last
\* completed one, automatic or manual, in two cases only: the service has restarted
\* since and has forgotten lastRefillAt, or a manual refill, let in beside it by the
\* flag, completed after the run had looked at the clock.  Everything else that
\* happens between that look and the withdrawal (awaits, faults, receipts lost,
\* transactions of runs given up) leaves the cooldown kept.
AutomaticRefillsCoolDown ==
    [][\A r \in Autos :
          Withdraws(r) /\ sinceCompleted < Cooldown => restarted \/ r \in overtaken
      ]_cooldownVars

=============================================================================
