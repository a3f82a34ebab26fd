------------------------------- MODULE Refill -------------------------------
(***************************************************************************)
(* The operational refill of the paymaster-api (refillRunner.ts): sponsored *)
(* requests trigger automatic runs through the coordinator, operators       *)
(* start manual ones, and each run goes through                             *)
(*   policy -> snapshot -> sizing -> withdrawUsdc -> approve -> swap ->     *)
(*   wrapped balance -> recordGasPurchase -> unwrap -> split -> sends,      *)
(* one action per stretch of code between two awaits.                       *)
(*                                                                         *)
(* lastRefillAt is kept as the time since then: the code only asks whether *)
(* Date.now() - lastRefillAt has reached REFILL_COOLDOWN_MS.               *)
(***************************************************************************)
EXTENDS RefillTrigger, RefillChain

CONSTANTS
    Autos,                      \* runs the trigger may start
    Manuals,                    \* runs of POST /operational-refill
    Cooldown,                   \* REFILL_COOLDOWN_MS, in ticks
    Reserve,                    \* native wei the owner keeps for gas
    TargetBps,                  \* TargetBps[i]: target of leg i, in bps of min
    MinChoices,                 \* values the policy's minimum may have
    BootMin,                    \* the minimum the service was started with
    InitUsdc, InitOwner, InitBal,
    Drains,                     \* wei one user operation may cost a leg
    Incomes,                    \* USDC one user operation may bring in
    MaxUsdc,                    \* bound: USDC in the model
    MaxFaults                   \* bound: faults in a behaviour

ASSUME RunsAssumption == Runs = Autos \cup Manuals /\ Autos \cap Manuals = {}
ASSUME CooldownAssumption == Cooldown \in Nat
ASSUME ReserveAssumption == Reserve \in Nat
ASSUME TargetAssumption == TargetBps \in [Legs -> Nat]
ASSUME MinAssumption == MinChoices \subseteq Nat \ {0} /\ BootMin \in MinChoices
ASSUME InitAssumption ==
    /\ InitUsdc \in Nat
    /\ InitOwner \in [usdc : Nat, wrapped : Nat, native : Nat, allowance : Nat]
    /\ InitBal \in [Legs -> Nat]
ASSUME FlowAssumption == Drains \subseteq Nat /\ Incomes \subseteq Nat
ASSUME BoundAssumption == MaxUsdc \in Nat /\ MaxFaults \in Nat

VARIABLES
    refillInFlight,             \* the module-level flag of refillRunner.ts
    sinceRefill,                \* Date.now() - lastRefillAt, up to Cooldown
    pc,                         \* pc[r], where run r awaits
    job,                        \* job[r], the locals of run r
    minNativeWei,               \* the policy in Redis, set by the dashboard
    faults                      \* faults so far (bound)

runnerVars == <<refillInFlight, sinceRefill, pc, job>>
vars == <<triggerVars, chainVars, runnerVars, minNativeWei, faults>>

EarlySteps == {"preflight policy", "preflight balances", "settle"}
TxSteps == {"withdraw", "approve", "swap", "record", "unwrap", "send"}
Steps == {"idle"} \cup EarlySteps \cup TxSteps
            \cup {"policy", "snapshot", "size", "wrapped balance", "split"}

Job == [min : Nat, deficit : [Legs -> Nat], usdc : Nat, minOut : Nat,
        wBal : Nat, plan : [Legs -> Nat], leg : 0..NLegs]

NoJob == [min |-> 0, deficit |-> Nothing, usdc |-> 0, minOut |-> 0,
          wBal |-> 0, plan |-> Nothing, leg |-> 0]

TypeOK ==
    /\ TriggerTypeOK
    /\ ChainTypeOK
    /\ refillInFlight \in BOOLEAN
    /\ sinceRefill \in 0..Cooldown
    /\ pc \in [Runs -> Steps]
    /\ job \in [Runs -> Job]
    /\ \A r \in Runs : pc[r] = "send" => job[r].leg \in Legs
    /\ minNativeWei \in MinChoices
    /\ faults \in 0..MaxFaults

Init ==
    /\ TriggerInit
    /\ pmUsdc = InitUsdc
    /\ owner = InitOwner
    /\ books = [usdc |-> 0, wei |-> 0]
    /\ pool = [usdc |-> 0, wei |-> 0]
    /\ bal = InitBal
    /\ mempool = <<>>
    /\ receipt = [r \in Runs |-> "none"]
    /\ refillInFlight = FALSE
    /\ sinceRefill = Cooldown
    /\ pc = [r \in Runs |-> "idle"]
    /\ job = [r \in Runs |-> NoJob]
    /\ minNativeWei = BootMin
    /\ faults = 0

-----------------------------------------------------------------------------
(* Starting and returning *)

Goto(r, step) == pc' = [pc EXCEPT ![r] = step]

Fault == faults < MaxFaults /\ faults' = faults + 1

Forget(r) ==
    /\ Goto(r, "idle")
    /\ job' = [job EXCEPT ![r] = NoJob]

\* runOperationalRefill returned or threw: the caller's finally clears the
\* flag, and an automatic run's promise settles.
Finish(r) ==
    /\ Forget(r)
    /\ refillInFlight' = FALSE
    /\ IF r \in Autos THEN Settle ELSE UNCHANGED triggerVars

\* The coordinator's run ends before it took the flag.
FinishEarly(r) ==
    /\ Forget(r)
    /\ Settle
    /\ UNCHANGED refillInFlight

\* A sponsored request calls scheduleOperationalRefillIfNeeded.  The run looks at
\* the flag in the same synchronous stretch and gives up if it is set.
Schedule(r) ==
    /\ r \in Autos
    /\ pc[r] = "idle"
    /\ Trigger
    /\ Goto(r, IF refillInFlight THEN "settle" ELSE "preflight policy")
    /\ UNCHANGED <<chainVars, refillInFlight, sinceRefill, job, minNativeWei, faults>>

SettleInFlight(r) ==
    /\ pc[r] = "settle"
    /\ FinishEarly(r)
    /\ UNCHANGED <<chainVars, sinceRefill, minNativeWei, faults>>

\* POST /operational-refill: refused while a refill is in flight (no state
\* changes then); test and set of the flag are one synchronous stretch.
RequestManual(r) ==
    /\ r \in Manuals
    /\ pc[r] = "idle"
    /\ ~refillInFlight
    /\ refillInFlight' = TRUE
    /\ Goto(r, "policy")
    /\ UNCHANGED <<triggerVars, chainVars, sinceRefill, job, minNativeWei, faults>>

\* resolveLiveRefillPolicy: the dashboard's value, or the caller's when Redis
\* does not answer (the failure is swallowed).
LivePolicy(r, fallback) ==
    \/ /\ job' = [job EXCEPT ![r].min = minNativeWei]
       /\ UNCHANGED faults
    \/ /\ Fault
       /\ job' = [job EXCEPT ![r].min = fallback]

PreflightPolicy(r) ==
    /\ pc[r] = "preflight policy"
    /\ LivePolicy(r, BootMin)
    /\ Goto(r, "preflight balances")
    /\ UNCHANGED <<triggerVars, chainVars, refillInFlight, sinceRefill, minNativeWei>>

Target(min, i) == (min * TargetBps[i]) \div 10000

\* Variant with a mistake: what the account has already is not subtracted.
DeficitFromZero(min) ==
    [i \in Legs |-> IF bal[i] >= min THEN 0 ELSE Target(min, i)]

\* loadPartySnapshots: an account below the minimum is short of its target.
Deficit(min) ==
    [i \in Legs |-> IF bal[i] >= min THEN 0 ELSE Larger(Target(min, i) - bal[i], 0)]

\* anyPartyBelowMin, and then the flag, which is not looked at again.
PreflightBalances(r) ==
    /\ pc[r] = "preflight balances"
    /\ IF Total(Deficit(job[r].min)) > 0
       THEN /\ refillInFlight' = TRUE
            /\ Goto(r, "policy")
            /\ UNCHANGED <<job, triggerVars>>
       ELSE FinishEarly(r)
    /\ UNCHANGED <<chainVars, sinceRefill, minNativeWei, faults>>

-----------------------------------------------------------------------------
(* runOperationalRefill up to its first transaction *)

ReadPolicy(r) ==
    /\ pc[r] = "policy"
    /\ LivePolicy(r, IF r \in Autos THEN job[r].min ELSE BootMin)
    /\ Goto(r, "snapshot")
    /\ UNCHANGED <<triggerVars, chainVars, refillInFlight, sinceRefill, minNativeWei>>

Cooling(r) == r \in Autos /\ sinceRefill < Cooldown

\* Nothing to do, or an automatic run inside the cooldown: skipped.
Snapshot(r) ==
    LET deficit == Deficit(job[r].min)
    IN  /\ pc[r] = "snapshot"
        /\ IF Total(deficit) = 0 \/ Cooling(r)
           THEN Finish(r)
           ELSE /\ job' = [job EXCEPT ![r].deficit = deficit]
                /\ Goto(r, "size")
                /\ UNCHANGED <<triggerVars, refillInFlight>>
        /\ UNCHANGED <<chainVars, sinceRefill, minNativeWei, faults>>

CeilDiv(a, b) == (a + b - 1) \div b

\* The deficit with DEFICIT_BUFFER_BPS, priced by the quoter in USDC and raised
\* by the quote slippage.
RequiredUsdc(deficit, rate) ==
    LET quoted == CeilDiv((Total(deficit) * 10500) \div 10000, rate)
    IN  CeilDiv(quoted * 10100, 10000)

\* quoteWrappedNativeOutForUsdcIn.
QuotedOut(usdc, rate) == usdc * rate

\* amountOutMinimum: the quoted output less the swap slippage, at least 1.
MinimumOut(usdc, rate) == Larger((QuotedOut(usdc, rate) * 9900) \div 10000, 1)

\* The amount to swap, from the exact-output quote, and its minimum, from the
\* exact-input quote made after it; the run is skipped if there is no USDC.
Size(r) ==
    /\ pc[r] = "size"
    /\ \E rate, later \in Rates :
          LET usdc == Smaller(RequiredUsdc(job[r].deficit, rate), pmUsdc)
          IN  IF usdc = 0 THEN Finish(r)
              ELSE /\ job' = [job EXCEPT ![r].usdc = usdc,
                                         ![r].minOut = MinimumOut(usdc, later)]
                   /\ Goto(r, "withdraw")
                   /\ UNCHANGED <<triggerVars, refillInFlight>>
    /\ UNCHANGED <<chainVars, sinceRefill, minNativeWei, faults>>

\* The quoter fails on the exact-input quote only: the swap goes on with
\* amountOutMinimum = 1.
SizeWithoutMinimum(r) ==
    /\ pc[r] = "size"
    /\ Fault
    /\ \E rate \in Rates :
          LET usdc == Smaller(RequiredUsdc(job[r].deficit, rate), pmUsdc)
          IN  /\ usdc > 0
              /\ job' = [job EXCEPT ![r].usdc = usdc, ![r].minOut = 1]
    /\ Goto(r, "withdraw")
    /\ UNCHANGED <<triggerVars, chainVars, refillInFlight, sinceRefill, minNativeWei>>

-----------------------------------------------------------------------------
(* The transactions *)

TxOf(r) ==
    LET j == job[r]
        tx(usdc, wei, leg) ==
            [by |-> r, kind |-> pc[r], usdc |-> usdc, wei |-> wei, leg |-> leg]
    IN  CASE pc[r] = "withdraw" -> tx(j.usdc, 0, 0)
          [] pc[r] = "approve"  -> tx(j.usdc, 0, 0)
          [] pc[r] = "swap"     -> tx(j.usdc, j.minOut, 0)
          [] pc[r] = "record"   -> tx(j.usdc, j.wBal, 0)
          [] pc[r] = "unwrap"   -> tx(0, j.wBal, 0)
          [] OTHER              -> tx(0, j.plan[j.leg], j.leg)

SubmitTx(r) ==
    /\ pc[r] \in TxSteps
    /\ receipt[r] = "none"
    /\ Submit(r, TxOf(r))
    /\ UNCHANGED <<triggerVars, runnerVars, minNativeWei, faults>>

\* The node refuses a send the balance does not cover: the run's catch returns
\* "failed", and what was done before stays done.
Refused(r) ==
    /\ pc[r] = "send"
    /\ receipt[r] = "none"
    /\ ~Accepted(TxOf(r))
    /\ Finish(r)
    /\ UNCHANGED <<chainVars, sinceRefill, minNativeWei, faults>>

\* The first leg after i with something to send, NLegs + 1 if there is none.
NextLeg(plan, i) ==
    CHOOSE l \in i + 1..NLegs + 1 :
        /\ l = NLegs + 1 \/ plan[l] > 0
        /\ \A m \in i + 1..l - 1 : plan[m] = 0

\* Variant with a mistake: an operator's refill does not start the cooldown.
SendFromUntimed(r, plan, i) ==
    IF NextLeg(plan, i) = NLegs + 1
    THEN /\ sinceRefill' = IF r \in Autos THEN 0 ELSE sinceRefill
         /\ Finish(r)
    ELSE /\ job' = [job EXCEPT ![r].plan = plan, ![r].leg = NextLeg(plan, i)]
         /\ Goto(r, "send")
         /\ UNCHANGED <<triggerVars, refillInFlight, sinceRefill>>

\* On to the sends after leg i; after the last one the refill is complete and
\* only then starts the cooldown.
SendFrom(r, plan, i) ==
    IF NextLeg(plan, i) = NLegs + 1
    THEN /\ sinceRefill' = 0
         /\ Finish(r)
    ELSE /\ job' = [job EXCEPT ![r].plan = plan, ![r].leg = NextLeg(plan, i)]
         /\ Goto(r, "send")
         /\ UNCHANGED <<triggerVars, refillInFlight, sinceRefill>>

\* Variant with a mistake: the wrapped native is not unwrapped.
AfterWithoutUnwrap == [withdraw |-> "approve", approve |-> "swap", record |-> "split"]

After == [withdraw |-> "approve", approve |-> "swap", record |-> "unwrap",
          unwrap |-> "split"]

\* Variant with a mistake: any receipt of the swap will do.
SwapAnswered(r) == receipt[r] # "none"

SwapSucceeded(r) == receipt[r] = "success"

\* waitForTransactionReceipt resolves.  Only the swap's status is looked at.
Receive(r) ==
    /\ receipt[r] \in {"success", "reverted"}
    /\ TakeReceipt(r)
    /\ \/ /\ pc[r] \in DOMAIN After
          /\ Goto(r, After[pc[r]])
          /\ UNCHANGED <<triggerVars, refillInFlight, sinceRefill, job>>
       \/ /\ pc[r] = "swap"
          /\ IF SwapSucceeded(r)
             THEN /\ Goto(r, "wrapped balance")
                  /\ UNCHANGED <<triggerVars, refillInFlight, job>>
             ELSE Finish(r)
          /\ UNCHANGED sinceRefill
       \/ /\ pc[r] = "send"
          /\ SendFrom(r, job[r].plan, job[r].leg)
    /\ UNCHANGED <<pmUsdc, owner, books, pool, bal, mempool, minNativeWei, faults>>

\* wBal: all the wrapped native the owner has.
ReadWrapped(r) ==
    /\ pc[r] = "wrapped balance"
    /\ IF owner.wrapped = 0 THEN Finish(r)
       ELSE /\ job' = [job EXCEPT ![r].wBal = owner.wrapped]
            /\ Goto(r, "record")
            /\ UNCHANGED <<triggerVars, refillInFlight>>
    /\ UNCHANGED <<chainVars, sinceRefill, minNativeWei, faults>>

\* Variant with a mistake: the reserve is given away.
SpendableWithoutReserve == owner.native

\* spendable(): the reserve stays with the owner.
Spendable == Larger(owner.native - Reserve, 0)

\* The amount is split over the deficits of the snapshot.
Split(r) ==
    /\ pc[r] = "split"
    /\ SendFrom(r, Allocate(job[r].deficit, Spendable), 0)
    /\ UNCHANGED <<chainVars, minNativeWei, faults>>

-----------------------------------------------------------------------------
(* Faults *)

\* Variant with a mistake: no finally around the run.
ThrowPastFinally(r) ==
    /\ pc[r] # "idle" /\ pc[r] # "settle"
    /\ receipt[r] = "none"
    /\ Fault
    /\ Forget(r)
    /\ Settle
    /\ UNCHANGED <<chainVars, refillInFlight, sinceRefill, minNativeWei>>

\* An RPC or Redis call of run r throws before anything is submitted; early
\* runs reject and settle, the others return through finally.
Throw(r) ==
    /\ pc[r] # "idle" /\ pc[r] # "settle"
    /\ receipt[r] = "none"
    /\ Fault
    /\ IF pc[r] \in EarlySteps THEN FinishEarly(r) ELSE Finish(r)
    /\ UNCHANGED <<chainVars, sinceRefill, minNativeWei>>

\* The wait for a receipt fails (timeout, lost connection, lost answer of the
\* submission): the run fails, its transaction executes all the same.
LoseReceipt(r) ==
    /\ pc[r] \in TxSteps /\ receipt[r] # "none"
    /\ Fault
    /\ Finish(r)
    /\ Disown({r})
    /\ UNCHANGED <<pmUsdc, owner, books, pool, bal, sinceRefill, minNativeWei>>

\* The service dies and starts again: everything in its memory is lost.
Crash ==
    /\ Fault
    /\ TriggerRestart
    /\ refillInFlight' = FALSE
    /\ sinceRefill' = Cooldown
    /\ pc' = [r \in Runs |-> "idle"]
    /\ job' = [r \in Runs |-> NoJob]
    /\ Disown(Runs)
    /\ UNCHANGED <<pmUsdc, owner, books, pool, bal, minNativeWei>>

-----------------------------------------------------------------------------
(* The chain and the users *)

MineTx ==
    /\ Mine
    /\ UNCHANGED <<triggerVars, runnerVars, minNativeWei, faults>>

RevertTx ==
    /\ mempool # <<>>
    /\ \/ MustRevert(Head(mempool)) /\ UNCHANGED faults
       \/ Fault
    /\ Revert
    /\ UNCHANGED <<triggerVars, runnerVars, minNativeWei>>

\* A user operation costs the EntryPoint deposit or a bundler account gas.
Drain(i, d) ==
    /\ d > 0 /\ bal[i] >= d
    /\ bal' = [bal EXCEPT ![i] = @ - d]
    /\ UNCHANGED <<triggerVars, runnerVars, minNativeWei, faults,
                   pmUsdc, owner, books, pool, mempool, receipt>>

\* postOp pays USDC to the treasury, which is the paymaster contract.
Income(u) ==
    /\ u > 0 /\ pmUsdc + owner.usdc + pool.usdc + u <= MaxUsdc
    /\ pmUsdc' = pmUsdc + u
    /\ UNCHANGED <<triggerVars, runnerVars, minNativeWei, faults,
                   owner, books, pool, bal, mempool, receipt>>

\* POST /api/control-plane/refill-min-wei of the dashboard.
SetPolicy(min) ==
    /\ minNativeWei' = min
    /\ UNCHANGED <<triggerVars, chainVars, runnerVars, faults>>

Tick ==
    /\ TriggerTick
    /\ sinceRefill' = IF sinceRefill < Cooldown THEN sinceRefill + 1 ELSE sinceRefill
    /\ UNCHANGED <<chainVars, refillInFlight, pc, job, minNativeWei, faults>>

-----------------------------------------------------------------------------

\* What run r does once started, faults aside.
Continue(r) ==
    \/ SettleInFlight(r) \/ PreflightPolicy(r) \/ PreflightBalances(r)
    \/ ReadPolicy(r) \/ Snapshot(r) \/ Size(r) \/ SizeWithoutMinimum(r)
    \/ SubmitTx(r) \/ Refused(r) \/ Receive(r) \/ ReadWrapped(r) \/ Split(r)

Environment ==
    \/ MineTx \/ RevertTx \/ Tick
    \/ \E i \in Legs, d \in Drains : Drain(i, d)
    \/ \E u \in Incomes : Income(u)
    \/ \E min \in MinChoices : SetPolicy(min)

Next ==
    \/ \E r \in Runs : Schedule(r) \/ RequestManual(r) \/ Continue(r)
    \/ \E r \in Runs : Throw(r) \/ LoseReceipt(r)
    \/ Crash
    \/ Environment

Spec == Init /\ [][Next]_vars

(***************************************************************************)
(* The event loop runs every continuation whose await resolved, blocks     *)
(* keep coming, time passes, and users keep sponsoring operations.         *)
(***************************************************************************)
Fairness ==
    /\ \A r \in Runs : WF_vars(Continue(r))
    /\ WF_vars(MineTx \/ RevertTx)
    /\ WF_vars(Tick)
    /\ WF_vars(\E r \in Autos : Schedule(r))

FairSpec == Spec /\ Fairness

-----------------------------------------------------------------------------
(* Properties *)

\* Runs inside the stretch that refillInFlight is meant to protect.
Refilling == {r \in Runs : pc[r] \notin {"idle"} \cup EarlySteps}

\* No two refills at a time: what the reason "refill_already_in_flight" tells
\* whoever asks for a second one.
OneRefillAtATime == \A r, s \in Refilling : r = s

\* The contract's counters never claim more USDC spent on gas than the swaps
\* really paid: a run records only after its own swap succeeded, whatever
\* fails, times out, restarts or runs beside it.
PurchasesBacked == books.usdc <= pool.usdc

\* ... and never more wei bought than the swaps returned: the price that
\* sponsored operations are charged is the quotient of the two.
RecordedWeiBought == books.wei <= pool.wei

\* The reserve that pays for the owner's gas is never given away, not even
\* when a send of an earlier, failed run executes late.
ReserveKept == owner.native - PendingSends >= Reserve

\* Without faults a refill tops up to the target, never above it, although it
\* sends what it sized long before from balances that moved since.
NeverAboveTarget ==
    faults = 0 => \A i \in Legs : \E min \in MinChoices :
        bal[i] <= Larger(Target(min, i), InitBal[i])

\* Without faults the books are closed between refills: all that was bought is
\* recorded and unwrapped.
BooksClosedAtRest ==
    faults = 0 /\ Refilling = {} /\ mempool = <<>> => books = pool /\ owner.wrapped = 0

\* The coordinator keeps its promise inside the refill.
Coalesced == INSTANCE CoalescedPreflight WITH
    active <- Cardinality({r \in Autos : pc[r] # "idle"}),
    sinceStart <- Debounce - untilAllowed

CoalescedSpec == Coalesced!Spec

\* Between the swap of run r and the recording of what it returned.
Bought(r) ==
    \/ pc[r] = "swap" /\ receipt[r] = "success"
    \/ pc[r] = "wrapped balance"
    \/ pc[r] = "record" /\ receipt[r] \in {"none", "pending"}

Buyers == {r \in Runs : Bought(r)}

\* The legs that run r may still pay of its purchase.
Open(r) ==
    {i \in Legs :
        \/ Bought(r) \/ pc[r] \in {"record", "unwrap", "split"}
        \/ /\ pc[r] = "send"
           /\ i > job[r].leg \/ (i = job[r].leg /\ receipt[r] \in {"none", "pending"})}

StillOpen == UNION {Open(r) : r \in Runs}

\* What has been bought counts from the swap on, as it will be recorded.
Purchases ==
    [usdc |-> books.usdc + SumOver([r \in Runs |-> job[r].usdc], Buyers),
     wei  |-> books.wei + IF Buyers = {} THEN 0 ELSE owner.wrapped]

\* Until something fails, the stages of a refill are one purchase, however user
\* operations, prices and the policy move between its awaits.
Purchase == INSTANCE GasPurchase WITH
    usdc <- pmUsdc + owner.usdc,
    native <- owner.native + owner.wrapped,
    books <- Purchases,
    open <- StillOpen,
    disturbed <- faults > 0

PurchaseSpec == Purchase!Spec

\* Every refill returns, and the flag does not stay set behind it.
FlagReleased == refillInFlight ~> ~refillInFlight

\* While users keep sponsoring operations and the paymaster has USDC, a leg
\* below the minimum is eventually refilled.
NeedServed ==
    \A i \in Legs : bal[i] < minNativeWei ~> bal[i] >= minNativeWei \/ pmUsdc = 0

=============================================================================
