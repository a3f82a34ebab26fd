------------------------------ MODULE LocalChain ------------------------------
(***************************************************************************)
(* The development chain and those who put money on it: the paymaster-api's *)
(* two funding routes (anvilDevTools), which the dashboard's buttons and    *)
(* the simulation call, and the simulation itself, which prepares the       *)
(* EntryPoint deposit, the paymaster and its account before it sends        *)
(* operations and measures what they cost; and the smoke test, which        *)
(* prepares the deposit and the same account, and sends one operation, or   *)
(* goes on until the account is empty.                                      *)
(*                                                                         *)
(* Everybody reads, decides and writes in calls of their own, sets balances *)
(* outright, and borrows the same few accounts by impersonation.  The gas   *)
(* of all this is left out, and so are the bundler's balances.              *)
(***************************************************************************)
EXTENDS Integers, Sequences, FiniteSets

CONSTANTS
    Clients,                    \* runs of the simulation and the smoke test; all use
                                \* the default owner
    Buttons,                    \* other requests for a funding route
    Whales,                     \* the accounts USDC is borrowed from, in the order tried
    NativeTopup,                \* PAYMASTER_API_ANVIL_DEV_NATIVE_WEI
    ApiAmount,                  \* the 20 USDC of fund-usdc
    SeedMin,                    \* the USDC the paymaster needs for its first refill
    AccountMin, AccountFund,    \* the account's least USDC, and what it is given
    MinToContinue,              \* TOOLS_MIN_USDC_TO_CONTINUE
    DepositMin, DepositTopup,   \* TOOLS_PAYMASTER_EP_MIN_WEI, _TOPUP_WEI
    Costs                       \* bound: the USDC an operation may cost

ASSUME AmountsAssumption ==
    /\ {NativeTopup, ApiAmount, SeedMin, AccountMin, AccountFund, MinToContinue,
        DepositMin, DepositTopup} \subseteq Nat
    /\ Costs \subseteq Nat \ {0}
ASSUME WhalesAssumption == Len(Whales) \in Nat \ {0}
ASSUME ActorsAssumption == Clients \cap Buttons = {}

Actors == Clients \cup Buttons

WhaleSet == {Whales[i] : i \in 1..Len(Whales)}

\* The lenders are strangers to the paymaster and to the simulation's account.
ASSUME LendersAssumption == WhaleSet \cap {"paymaster", "account"} = {}

\* Who may hold USDC.
Holders == WhaleSet \cup {"paymaster", "account"}

\* How the chain and its users are set up at first.
Worlds == [usdc : [Holders -> Nat], ops : Nat, faults : Nat,
           kinds : [Clients -> {"simulation", "smoke", "until-empty"}]]

\* fund-usdc borrows from a configured account, here the simulation's first choice.
ApiWhale == Whales[1]

VARIABLES
    native,                     \* the paymaster's native balance
    deposit,                    \* its deposit at the EntryPoint
    funder,                     \* the balance of the account that tops up the deposit
    usdc,                       \* of the paymaster, of the simulation's account, of the whales
    borrowed,                   \* accounts that are impersonated
    mempool,                    \* transactions and operations not executed yet
    actor,                      \* kind: "simulation", "smoke" (one operation),
                                \* "until-empty", "button"; at; for whom a whale is
                                \* borrowed, and which; the last balance read (seen);
                                \* operations left, and whether one was sent; fee: what
                                \* the last one cost by its own measure; cost: what it cost;
                                \* alone: nobody else was at work meanwhile; why it failed
    added,                      \* history: native additions that were confirmed
    faults                      \* bound: calls of the node that may still fail

chainVars == <<native, deposit, funder, usdc, borrowed, mempool>>
localVars == <<chainVars, actor, added, faults>>

LocalInit(world) ==
    /\ native = 0 /\ deposit = 0 /\ funder = 0 /\ added = 0
    /\ usdc = world.usdc /\ faults = world.faults
    /\ borrowed = {} /\ mempool = {}
    /\ actor = [p \in Actors |->
           [kind |-> IF p \in Clients THEN world.kinds[p] ELSE "button", at |-> "idle",
            for |-> "seed", whale |-> ApiWhale, seen |-> 0, ops |-> world.ops, sent |-> FALSE,
            fee |-> 0, cost |-> 0, alone |-> TRUE, why |-> "nothing"]]

Pending(p, what) == \E tx \in mempool : tx.by = p /\ tx.what = what

\* A client, or the paymaster-api for a button; what it sent is still its work.
AtWork == {p \in Actors : \/ actor[p].at \notin {"idle", "done", "failed"}
                          \/ \E tx \in mempool : tx.by = p}

Goes(p, at) == actor' = [actor EXCEPT ![p].at = at]

\* An error ends a run; the one that goes on until the account is empty reports what
\* it has sent, if anything.
Ended(p) == IF actor[p].kind = "until-empty" /\ actor[p].sent THEN "done" ELSE "failed"

Fails(p, why) == actor' = [actor EXCEPT ![p].at = Ended(p), ![p].why = why]

Submit(p, what, from, to, amount) ==
    mempool' = mempool \cup
        {[by |-> p, what |-> what, from |-> from, to |-> to, amount |-> amount]}

\* What q is once p has begun: someone new disturbs those who are at work, and is
\* disturbed by them.
Joined(q, p, at) ==
    LET others == IF q = p THEN AtWork = {} ELSE actor[q].alone /\ q \notin AtWork
    IN  [actor[q] EXCEPT !.at = IF q = p THEN at ELSE @, !.alone = others]

Begin(p, at) ==
    /\ actor[p].at = "idle"
    /\ actor' = [q \in Actors |-> Joined(q, p, at)]
    /\ UNCHANGED <<chainVars, added, faults>>

\* Where a funding route returns to: the simulation goes on.
Answered(p, next) == IF p \in Buttons THEN "done" ELSE next

\* isAnvilRpc: any error counts as no.
Probe(tools) == {tools, FALSE}

-----------------------------------------------------------------------------
(* The paymaster's address, and its deposit: ensurePaymasterEntryPointDeposit *)

\* TOOLS_PAYMASTER_ADDRESS, or what the paymaster-api says, if it says anything.
ResolveAddress(p) ==
    /\ actor[p].at = "address"
    /\ Goes(p, "deposit") \/ Fails(p, "address")
    /\ UNCHANGED <<chainVars, added, faults>>

\* The smoke test leaves the paymaster's own balances alone.
AfterDeposit(p) == IF actor[p].kind = "simulation" THEN "native" ELSE "account"

\* Variant with a mistake: the account that pays is not given the money first.
DepositUnfunded(p) ==
    /\ actor[p].at = "deposit"
    /\ Goes(p, IF deposit >= DepositMin THEN AfterDeposit(p) ELSE "send-deposit")
    /\ UNCHANGED <<chainVars, added, faults>>

CheckDeposit(p) ==
    /\ actor[p].at = "deposit"
    /\ Goes(p, IF deposit >= DepositMin THEN AfterDeposit(p) ELSE "set-funder")
    /\ UNCHANGED <<chainVars, added, faults>>

SetFunder(p) ==
    /\ actor[p].at = "set-funder"
    /\ funder' = DepositTopup + 1
    /\ Goes(p, "send-deposit")
    /\ UNCHANGED <<native, deposit, usdc, borrowed, mempool, added, faults>>

\* The node refuses a value above the balance.
SendDeposit(p) ==
    /\ actor[p].at = "send-deposit"
    /\ IF funder >= DepositTopup
       THEN Submit(p, "deposit", "funder", "deposit", DepositTopup) /\ Goes(p, "await-deposit")
       ELSE Fails(p, "funder") /\ UNCHANGED mempool
    /\ UNCHANGED <<native, deposit, funder, usdc, borrowed, added, faults>>

AwaitDeposit(p) ==
    /\ actor[p].at = "await-deposit" /\ ~Pending(p, "deposit")
    /\ Goes(p, AfterDeposit(p))
    /\ UNCHANGED <<chainVars, added, faults>>

-----------------------------------------------------------------------------
(* The routes fund-native and fund-usdc *)

ReadNative(p) ==
    /\ actor[p].at = "native"
    /\ actor' = [actor EXCEPT ![p].at = "set-native", ![p].seen = native]
    /\ UNCHANGED <<chainVars, added, faults>>

SetNative(p) ==
    /\ actor[p].at = "set-native"
    /\ native' = actor[p].seen + NativeTopup
    /\ added' = added + 1
    /\ Goes(p, Answered(p, "usdc"))
    /\ UNCHANGED <<deposit, funder, usdc, borrowed, mempool, faults>>

BorrowForApi(p) ==
    /\ actor[p].at = "usdc"
    /\ borrowed' = borrowed \cup {ApiWhale}
    /\ Goes(p, "api-send")
    /\ UNCHANGED <<native, deposit, funder, usdc, mempool, added, faults>>

\* Nobody waits for this transfer.
SendUsdc(p) ==
    /\ actor[p].at = "api-send"
    /\ IF ApiWhale \in borrowed
       THEN /\ Submit(p, "fund-usdc", ApiWhale, "paymaster", ApiAmount)
            /\ Goes(p, "return")
       ELSE /\ actor' = [actor EXCEPT ![p].at = "return", ![p].why = "signer"]
            /\ UNCHANGED mempool
    /\ UNCHANGED <<native, deposit, funder, usdc, borrowed, added, faults>>

\* finally: the account is given back, whatever became of the transfer.
ReturnWhale(p) ==
    /\ actor[p].at = "return"
    /\ borrowed' = borrowed \ {ApiWhale}
    /\ Goes(p, IF actor[p].why = "nothing" THEN Answered(p, "seed") ELSE "failed")
    /\ UNCHANGED <<native, deposit, funder, usdc, mempool, added, faults>>

-----------------------------------------------------------------------------
(* The simulation: fundAccountWithUSDC for the paymaster and for its account *)

Purpose == [
    seed    |-> [holder |-> "paymaster", least |-> SeedMin, amount |-> SeedMin, next |-> "refill"],
    account |-> [holder |-> "account", least |-> AccountMin, amount |-> AccountFund, next |-> "next"]]

\* The first account that holds enough.
Rich(amount) == {i \in 1..Len(Whales) : usdc[Whales[i]] >= amount}
First(indices) == CHOOSE i \in indices : \A j \in indices : i <= j

CheckUsdc(p) ==
    /\ actor[p].at \in {"seed", "account"}
    /\ LET for == actor[p].at
           need == Purpose[for]
       IN  IF usdc[need.holder] >= need.least THEN Goes(p, need.next)
           ELSE IF Rich(need.amount) = {} THEN Fails(p, "whales")
           ELSE actor' = [actor EXCEPT ![p].at = "borrow", ![p].for = for,
                                       ![p].whale = Whales[First(Rich(need.amount))]]
    /\ UNCHANGED <<chainVars, added, faults>>

BorrowWhale(p) ==
    /\ actor[p].at = "borrow"
    /\ borrowed' = borrowed \cup {actor[p].whale}
    /\ Goes(p, "send")
    /\ UNCHANGED <<native, deposit, funder, usdc, mempool, added, faults>>

SendTransfer(p) ==
    LET need == Purpose[actor[p].for]
    IN  /\ actor[p].at = "send"
        /\ IF actor[p].whale \in borrowed
           THEN /\ Submit(p, "transfer", actor[p].whale, need.holder, need.amount)
                /\ Goes(p, "await-transfer")
           ELSE Fails(p, "signer") /\ UNCHANGED mempool
        /\ UNCHANGED <<native, deposit, funder, usdc, borrowed, added, faults>>

\* The receipt's status is not looked at.
AwaitTransfer(p) ==
    /\ actor[p].at = "await-transfer" /\ ~Pending(p, "transfer")
    /\ borrowed' = borrowed \ {actor[p].whale}
    /\ Goes(p, Purpose[actor[p].for].next)
    /\ UNCHANGED <<native, deposit, funder, usdc, mempool, added, faults>>

\* Completed, or skipped because all targets are satisfied; anything else is an error.
TriggerRefill(p) ==
    /\ actor[p].at = "refill"
    /\ Goes(p, "account") \/ Fails(p, "refill")
    /\ UNCHANGED <<chainVars, added, faults>>

-----------------------------------------------------------------------------
(* The operations: sendCommonDappUserOp, sendOneUserOp *)

\* Whether there is one more to send.
NextOp(p) ==
    LET me == actor[p]
    IN  /\ me.at = "next"
        /\ CASE me.kind = "until-empty" /\ usdc["account"] >= MinToContinue -> Goes(p, "op")
             [] me.kind = "until-empty" /\ usdc["account"] < MinToContinue /\ ~me.sent ->
                    Fails(p, "unsent")
             [] me.kind # "until-empty" /\ me.ops > 0 -> Goes(p, "op")
             [] OTHER -> Goes(p, "done")
        /\ UNCHANGED <<chainVars, added, faults>>

\* Reads the balance and asks the paymaster-api for its terms.
AskTerms(p) ==
    /\ actor[p].at = "op"
    /\ actor' = [actor EXCEPT ![p].at = "send-op", ![p].seen = usdc["account"]] \/ Fails(p, "sponsor")
    /\ UNCHANGED <<chainVars, added, faults>>

SendOp(p) ==
    /\ actor[p].at = "send-op"
    /\ Goes(p, "await-op")
    /\ \E cost \in Costs : Submit(p, "op", "account", "paymaster", cost)
    /\ UNCHANGED <<native, deposit, funder, usdc, borrowed, added, faults>>

\* The difference of the balances before and after.
Fee(p) == actor[p].seen - usdc["account"]

\* A fee that is not positive ends the run, unless that goes on until the account is
\* empty.
MeasureFee(p) ==
    /\ actor[p].at = "await-op" /\ ~Pending(p, "op")
    /\ LET measured == [actor EXCEPT ![p].fee = Fee(p), ![p].sent = TRUE, ![p].ops = @ - 1]
       IN  actor' = IF Fee(p) <= 0 /\ actor[p].kind # "until-empty"
                    THEN [measured EXCEPT ![p].at = "failed", ![p].why = "fee"]
                    ELSE [measured EXCEPT ![p].at = "next"]
    /\ UNCHANGED <<chainVars, added, faults>>

-----------------------------------------------------------------------------
(* The node *)

Covers(tx) ==
    IF tx.what = "deposit" THEN funder >= tx.amount ELSE usdc[tx.from] >= tx.amount

\* The next block takes a transaction; a transfer that is not covered reverts.
Mine ==
    \E tx \in mempool :
        /\ mempool' = mempool \ {tx}
        /\ IF tx.what = "deposit" /\ Covers(tx)
           THEN deposit' = deposit + tx.amount /\ funder' = funder - tx.amount
           ELSE UNCHANGED <<deposit, funder>>
        /\ usdc' = IF tx.what # "deposit" /\ Covers(tx)
                   THEN [usdc EXCEPT ![tx.from] = @ - tx.amount, ![tx.to] = @ + tx.amount]
                   ELSE usdc
        /\ actor' = CASE tx.what = "op" /\ Covers(tx) -> [actor EXCEPT ![tx.by].cost = tx.amount]
                      [] tx.what = "op" /\ ~Covers(tx) /\ actor[tx.by].at = "await-op" ->
                             [actor EXCEPT ![tx.by].at = Ended(tx.by), ![tx.by].why = "funds"]
                      [] tx.what = "deposit" /\ ~Covers(tx) ->
                             [actor EXCEPT ![tx.by].at = "failed", ![tx.by].why = "funder"]
                      [] OTHER -> actor
        /\ UNCHANGED <<native, borrowed, added, faults>>

\* A call of the node fails.  In fund-usdc that is after the account was borrowed and
\* before the try, or inside it; everywhere else nothing is cleaned up.
NodeFails(p) ==
    /\ faults > 0
    /\ actor[p].at \notin {"idle", "done", "failed"}
    /\ faults' = faults - 1
    /\ \/ Fails(p, "node")
       \/ actor[p].at = "api-send" /\ actor' = [actor EXCEPT ![p].at = "return", ![p].why = "node"]
    /\ UNCHANGED <<chainVars, added>>

ClientStep(p) ==
    \/ ResolveAddress(p) \/ CheckDeposit(p) \/ SetFunder(p) \/ SendDeposit(p) \/ AwaitDeposit(p)
    \/ CheckUsdc(p) \/ BorrowWhale(p) \/ SendTransfer(p) \/ AwaitTransfer(p)
    \/ TriggerRefill(p) \/ NextOp(p) \/ AskTerms(p) \/ SendOp(p) \/ MeasureFee(p)

RouteStep(p) == ReadNative(p) \/ SetNative(p) \/ BorrowForApi(p) \/ SendUsdc(p) \/ ReturnWhale(p)

LocalStep ==
    \/ \E p \in Clients : ClientStep(p)
    \/ \E p \in Actors : RouteStep(p) \/ NodeFails(p)
    \/ Mine

-----------------------------------------------------------------------------
(* Properties *)

\* A lender has less than what is borrowed of it at a time.
LenderRunsDry == \E w \in WhaleSet : \E amount \in {SeedMin, AccountFund} : usdc[w] < amount

\* A simulation or a smoke test that nobody disturbs, on a node that answers, prepares
\* what it needs and measures what its operations cost: it asks for the refill with
\* enough USDC in the paymaster, sends its first operation with the deposit and its
\* account filled, loses neither its signer nor the deposit's funds, and going
\* on until empty ends with an account that is, until somebody else begins.  Only a
\* lender that runs dry, by a transfer of fund-usdc nobody waits for, is an excuse.
LoneClientSucceeds ==
    \A c \in Clients :
        LET me == actor[c]
        IN  me.alone =>
                /\ me.why \in {"nothing", "node", "address", "sponsor", "refill", "funds"}
                      \/ LenderRunsDry
                /\ me.at = "refill" => usdc["paymaster"] >= SeedMin \/ LenderRunsDry
                /\ me.at = "op" /\ me.cost = 0 =>
                       /\ deposit >= DepositMin
                       /\ usdc["account"] >= AccountMin \/ LenderRunsDry
                /\ me.at \in {"next", "op", "done"} /\ me.why = "nothing" => me.fee = me.cost
                /\ me.at = "done" /\ me.kind = "until-empty" /\ me.why = "nothing" =>
                       /\ me.sent
                       /\ usdc["account"] < MinToContinue
                             \/ \E q \in Clients \ {c} : actor[q].at # "idle"

=============================================================================
