# Formal models of NoKYC-GasStation

TLA+ models of the gas station's own logic, TLC configurations that check them
on small instances, and TLAPS proofs about them. Paths below are relative to
`src/`.

## 1. The system

Users pay for the gas of their ERC-4337 operations in USDC. The
**paymaster-api** signs the terms of an operation; the contract
**Project4Paymaster** checks them, lets the EntryPoint pay the gas from its
deposit, and afterwards takes USDC from the sender. When the accounts that pay
for gas run low, the paymaster-api **refills** them: it withdraws the USDC the
contract earned, swaps it for native currency, records the purchase on the
contract and sends the native currency to the EntryPoint deposit and the bundler's
accounts. The recorded purchases set the price of the next operations.

| Component | State | Operations | Hard parts |
|---|---|---|---|
| Operational refill (`services/paymaster-api/src/refillRunner.ts`) | `refillInFlight`, `lastRefillAt`, the locals of each run across some forty awaits | automatic runs, `POST /operational-refill` | two entry points, one flag; transactions that outlive the run; restarts; stale balances and quotes |
| Refill trigger (`refillTriggerCoordinator.ts`) | `preflightInFlight`, `nextAllowedAtMs` | `trigger` | bursts of requests; a preflight that rejects |
| Split of native currency (`allocateNativeAcrossDeficits`) | none | one function | rounding, caps, scarcity |
| Paymaster contract (`contracts/contracts/Project4Paymaster.sol`) | gas counters per sender and in total, limits, allow list, purchase totals | `validatePaymasterUserOp`, `postOp`, the owner's functions | a bundle validates all operations before it executes one; reverts undo state; windows that restart at odd moments |
| Pool choice of a refill (`resolvePoolFeeForRefill`) | one entry that expires, shared with the dashboard's estimates | ask the tiers, remember the best | a slow quoter; overlapping calls; an entry gone bad |
| Sponsor payloads, pricing (`sponsor/*.ts`, `services/shared/src/pricing-from-counters.ts`) | the requests under way | sign terms at a price read from the contract, the pools or the configuration | the price is old when it is charged; estimate and contract compute the same sum in different ways |
| HTTP and JSON-RPC server | none | routes calls to the above | |
| Config bootstrap (`services/config-bootstrap`) | Redis hashes, sentinel, lock with expiry | seed once | a lock that expires and is deleted whoever holds it; a sentinel not read again; a reply that gets lost |
| Dashboard sign-in (`services/dashboard/src/lib/auth.ts`) | Redis: the administrator's record, sessions with expiry | login, logout, the test each handler starts with | check-then-set of the default administrator |
| Dashboard control plane (`services/dashboard/src/app/api/control-plane`) | Redis: refill policy | change the policy, start a refill | a request that times out while its refill goes on; shown and used policy have different fallbacks |
| Contract deployer (`services/contract-deployer`) | account 0's nonce, the chain's code, two files on a volume | three paths that deploy, set up, verify and write addresses | repeated runs on a chain that may be new; calls nobody waits for |
| Dashboard metrics and pages (`services/dashboard/src/lib/metrics.ts`, `userops.ts`, `entrypoint-ops.ts`, `src/app/dashboard/page.tsx`) | the page's: cards, group, rows, page number, logs kept | poll the metrics and two tables, turn pages, open a row, choose a group | every figure of calls that fail by themselves; the paymaster's address found in three orders; answers that cross |
| Development chain and its users (`anvilDevTools.ts`, `simulation/src`, `integrated-tests/src`) | balances, borrowed accounts | fund by button, prepare a simulation or a smoke test, send operations | read and set in two calls; one borrowed account for everybody; answers given up while the work goes on |
| Gas-cap discovery (`integrated-tests/src/gas-cap-*.ts`) | samples of a run | send operations, measure, recommend a cap | what is ranked, and how; a second run |
| Containers, older tests, key rotator, deployment scripts | none | third-party programs; run once | |

Interactions: every sponsored JSON-RPC request calls
`scheduleOperationalRefillIfNeeded`; the dashboard posts to
`/operational-refill` and writes the minimum into the Redis hash that each
refill reads; the refill is the owner of the contract, whose `postOp` income it
spends; the contract's counters return to the paymaster-api as the price. All
services read the hashes config-bootstrap writes, and the paymaster's address from
the deployer's file; the compose file starts them in that order, but restarts
one without the others.

What makes each part correct: one refill at a time, with cooldown and debounce;
what is recorded is what was bought; the owner's reserve stays; nobody is
filled above target, everybody in need is filled in the end; the split loses no
wei; the contract's limits bound the gas of every window; the paymaster pays a
bill itself only where the sender made that happen; a signed price rests on
fresh reads, and what it leads to is within what was advertised; a seed is
written once and survives; a replaced administrator's record stays; a retry starts
no second refill; the files name contracts that can be used; the policy on
display is the one in use; what a page shows, or leaves out, is what its calls
answered, and never what the answer to something else was; a funding that was
confirmed is not lost; a recommended cap leaves out no more operations than was
asked. `PROJECT.json` lists the
hazards one by one, at their lines, with the properties that cover them.

## 2. Modules

```
Sums ── SumsProofs                          sums without recursion, and facts
 └ Allocation ── AllocationProofs           the split
    ├ AllocationLoop                        its loops (AllocationLoopProofs)
    └ RefillChain ─┐                        balances, pending transactions
      RefillTrigger ┴ Refill ── RefillProofs
                       │ ├ MCRefill         small instances
                       │ └ RefillCooldown   its history ── MCRefillCooldown
                       └ CoalescedPreflight, GasPurchase (abstract, by INSTANCE)
 └ Paymaster ── PaymasterBundle             the contract; under the EntryPoint
    │             └ MCPaymaster, PaymasterProofs
    └ Charge                                what an operation is asked for
       └ SponsorQuote                       the signed price
          └ PoolFee                         the remembered pool
ConfigBootstrap                             seeding Redis
Deployer                                    putting the contracts on the chain
RefillPolicy                                the policy as shown and as used
DashboardAuth                               sign-in

ConfigBootstrap + Deployer + RefillPolicy ── Station: the stack starts
   └ MCStation, StationProofs
PoolFee + DashboardAuth ── ControlPlane: the stack runs
   └ MCControlPlane, ControlPlaneProofs

Places ── Tables ── Rows                    the live tables; on the page
 └ Metrics ── Overview                      the figures; on the page (with Charge)
LocalChain                                  the development chain and its users
Panel                                       the control plane tab
GasCaps                                     the tool for gas caps

Rows + Overview + LocalChain + Panel + GasCaps ── Desk: who sits at the stack
   └ MCDesk, DeskProofs
```

**Allocation** is `allocateNativeAcrossDeficits` as a closed form; the loops with
their counters are **AllocationLoop**, one iteration per step.

**RefillTrigger** is the class of the same file; the clock is kept as the time
that must still pass, which is all the class asks. **CoalescedPreflight** is what
its comment promises.

**RefillChain** holds what a refill acts on. `mempool` is the owner's submitted
transactions in nonce order; `receipt[r]` is what `waitForTransactionReceipt` of
run `r` will return. A transaction stays in the mempool when its run gives up.

**Refill** has one action for each stretch of code between two awaits, named for
what it does; `pc[r]` says where run `r` awaits and `job[r]` holds its locals. The
flag and the cooldown are the module-level variables of `refillRunner.ts`.
Every transaction is `SubmitTx` (gas estimate and submission), `MineTx` or
`RevertTx`, `Receive`. `Throw` is an exception anywhere before a submission,
`LoseReceipt` a wait that fails although the transaction lives, `Crash` a restart.
Integer arithmetic (`RequiredUsdc`, `MinimumOut`) keeps the code's rounding.

**RefillCooldown** runs Refill with a history beside it, which restrains nothing and is read by
no step: the time since the last refill completed, of whichever kind, which a restart does not
forget as it does `lastRefillAt`; whether there was a restart since; and which
automatic runs a manual one overtook between their look at the cooldown and their withdrawal
(`Decided`, `Completes`).

**GasPurchase** is a refill as its caller thinks of it: `Buy` in one step, at one
price, if some account is in need; then `Give` to the accounts in need. Refill implements it
until something fails. The mapping adds up what a withdrawal and an unwrapping only move: the USDC of
paymaster and owner, the owner's native currency wrapped or not. What a swap has bought
and `recordGasPurchase` has not yet entered is in the abstract books already
(`Purchases`), so the purchase happens when the swap executes; `StillOpen` are the
accounts the run has not come to.

**Paymaster** has the contract's state and what its functions compute;
**PaymasterBundle** puts them under the EntryPoint: `Validate` adds an operation
to the bundle, `StartExecution` ends the validation loop, `Execute` runs the next
operation with its `postOp`. The four ways it can end are four disjuncts. When
`postOp` reverts, nothing of it and of the operation remains, and the deposit
is charged. What the sponsor signed travels in the operation as `seal`, the
terms the digest was made of (`BuildPaymasterDigest`); the operation's own fields
may have been changed since, and `RecoverSigner` gives the signer's key only while
they agree with the seal. `log` and `since` are history for the properties.

**Charge** is the arithmetic of an operation's reserve and charge in the contract;
Paymaster and SponsorQuote share it.

**SponsorQuote** is a request for terms, one action for each stretch between two reads
of the chain: `ReadCounters`, `AskPool` (one per tier), `PriceFromPools` or
`Fallback`, `FetchGasPrice`, `Sign`. `left` is the time until the `validUntil` the
request computed when it came in; `age` is history, the age of the oldest read in
the price. `Record`, `MarketMoves`, `GasPriceMoves` and `QuotesAge` are the world
between the reads.

**PoolFee** is `resolvePoolFeeForRefill` and its cache: `AskCached`, `AskTier`,
`Remember`. The time is read once, before the first question, so an entry's time
runs while the tiers are still asked; `age` and `silent` are history.

**ConfigBootstrap** has one action for each Redis call of a run (`ReadSentinel`,
`TakeLock`, `PollDone`, `Seed`, `Release`). `MULTI` is one action whose reply
may be lost; `Crash` ends a run anywhere, and leaves its lock to expire.

**Deployer** is `main` on its three paths. `chain.pool` is account 0's pending
transactions; `dep` holds where the deployer is, what it waits for and how its last run
ended. The requests of the deployment script reach the node in any order
(`Arrive`); the `setNonce` nobody waits for is `lateNonce`.

**RefillPolicy** has the two readings of the policy's fields, `Shown` (the dashboard's
GET) and `Used` (`resolveLiveRefillPolicy`), with their different fallbacks. `Used` takes
whether Redis answered: a failed read is swallowed there (`refillRunner.ts:55-57`), and without
`VALKEY_URL` none is made (32-34); then the refill goes by what the api was started with.

**Station** composes the three as the compose file does: `RunDeployer` waits for a
bootstrap that ended well, `StartApi` for a configuration that loads and a
paymaster that answers; `SavePolicy` is the dashboard's POST.

**DashboardAuth** is login, one action for each Redis call, logout and
`getSessionFromRequest` (`Admits`). Replacing the record is the operator's, by
hand: the dashboard has no form for it.

**ControlPlane** composes PoolFee, SponsorQuote and DashboardAuth with the refill
button. `click[c]` is a request to `/api/control-plane/refill`: `at` is where the
paymaster-api is with it and `answer` what the browser was told, which are two
things once the dashboard gave up. A refill is one stretch here, between taking
and releasing the flag; its steps are in Refill. `Restart` restarts the
paymaster-api.

**Places** is where the dashboard finds the paymaster's address, with the order of
preference each of its three readers has.

**Tables** is the two live tables: `Poll` takes the address, `ReadBlockNumber` the head, and
`ReadLogs` the logs of the range that ends there, newest first, cut off at the
limit. `handled` is the chain: in which block, for which
paymaster and with which event an operation was handled.

**Rows** is the same tables on the page: the polls of the open tab, the page number
and its clamped reading, the row that is expanded, the one that is loading, and the
answers about logs, kept for good once they came (`LogsAnswered`).

**Metrics** is `collectMetrics`, group by group in the code's order, each call
answered or failed; `LoadDashboardConfig` and the counters, gas price and settings
make the price. **Overview** is the page that polls it: which cards there are
(`CardsOf`), what each is made of, the group that is chosen, and the ways a poll can
end.

**LocalChain** has the calls of the two funding routes and of the preparation and the
operations of the simulation and of the smoke test, one action each, on balances the
node reads and sets, with the impersonated accounts as a set anybody may change. A
transfer whose signer was given back before it is executed fails. The smoke test is the
simulation without the steps that fill the paymaster; its `kind` says whether it sends
one operation or goes on until the account is empty, and then an error ends it (`Ended`)
without being one if something was sent.

**Panel** is the tab's React state: what a click asks for and which buttons it keeps
off meanwhile (`Enabled`, `Busy`), and what each answer does to it. The estimate goes
through `Forward`, `BeginEstimate`, `SnapshotForEstimate` and `QuoteEstimate` on the
server while refills run.

**GasCaps** is the discovery tool: operations of two profiles one after the other,
their samples, and the cap from a percentile of what the successful ones cost.

**Desk** composes them: a funding button is `Press` in Panel, then `Received` by the
paymaster-api on LocalChain, and ends as `FundAnswered` or `GivenUp`; `FundElsewhere` is such a
request from another tab or browser, of which this panel sees nothing.

Names ending in a mistake (`PeriodOverAtOnce`, `SwapAnswered`, ...) that are
introduced as a *variant* are plausible bugs, used only to show that the property
they break can fail; no specification uses them.

### Abstractions

- The balances of the accounts are read one after another in the code
  (`refillRunner.ts:627-646`) and in one step in `Snapshot` and
  `PreflightBalances`; `Size` joins the chain id, the balance and the two
  quotes, which see two prices.
- Two accounts: one deposit and one bundler account. Target multipliers do
  not change; the minimum does.
- Gas of the owner's transactions is not charged; the reserve is what pays it.
- The node accepts a transaction with a value only if the balance covers it
  together with what is pending; nonces are consecutive, so transactions
  execute in order.
- In Refill the pool-fee cache is part of the price: any price of `Rates` may be
  quoted. The cache itself is in PoolFee, with one entry, since chain, quoter and
  tokens do not change. Tiers are asked in ascending order of fee, as shipped; the
  fixed tier, which asks once and keeps nothing, is left out.
- The coordinator is rebuilt only if the debounce changes, which the
  environment of one process does not do.
- A user operation is its own fields, what it will do, and the terms that were
  signed; two digests are equal if their terms are. `paymasterAndData` is whole, too
  short, or of lengths that contradict each other. Nonces and account
  validation are external, so an operation of the menu may come again with another nonce; the account of a
  sender is created by its first operation (`deployed`).
- The menu's actual gas is at most `gasLimit`, from which the EntryPoint takes
  its prefund; the cost is gas times price, as the EntryPoint passes it.
- Time to live and patience are counted down in ticks; every ratio between two
  durations that matters is a constant.
- A configuration field holds a class of values: nothing, text no number can be made
  of, a number out of range, the default, another legal one. Secrets are not
  written to the hashes.
- Account 0's `n`-th transaction makes the contract with address `n`. Three fixed
  contracts, one per factory they come from, stand for three dozen; the calls that
  set up the account factories are one step that may fail; balances on the
  development chain are left out. Assumed: the node has executed a run's `setNonce`
  before the next run starts, the chain does not start anew while the deployer
  runs, and a late `setNonce` moves the nonce back at most once, on the first chain. A constructor does not revert: the
  deployer takes a receipt for the contract without a look at its status, and so does the model.
- Signatures, addresses, the bytes of `paymasterAndData` and the rough costs that
  are only displayed are left out of the sponsor's answer.
- On the dashboard, a balance is answered or not, how much it is does not matter;
  a policy is the number of the save that wrote it, an estimate the number of the
  last refill its balances include. Formatting, layout and what sorting does within
  one page are left out.
- On the development chain, the gas of transfers, the bundler's balances and the
  simulation's option that creates an account are left out; all runs share the
  default owner, as they do unless told otherwise.
- `postOpOverheadGas`, `gasEstimationVarianceThreshold`, the stake functions and
  ownership are left out: nothing modelled reads them.

## 3. Runs

| Run | Instance | Shows |
|---|---|---|
| AllocationLoop | 3 legs | The loops compute the closed form (`LoopComputesAllocate`); `FairShares`: all of the amount or every deficit is handed out, no deficit is exceeded, everybody in need gets something, each share is near-proportional |
| RefillAuto | two automatic runs, prices 1 and 2, a minimum that changes, one fault | Types; one refill at a time; the reserve kept; never above target; books closed at rest; the coordinator's promise and, until the fault, the single purchase of GasPurchase as refinements |
| RefillMixed | one automatic, one manual run, one leg, one price, two faults | With overlapping runs: recorded spending backed by swaps; an automatic refill spends within a cooldown of the last completed refill, measured in real time, only after a restart or overtaken by a manual refill |
| RefillLive | one automatic, one manual run, one leg, income, one fault | The flag is released; need is served |
| RefillOverlap | one of each | Violated: a manual refill can run beside an automatic one |
| RefillDoubleRecord | one automatic run, one fault | Violated: native currency recorded twice |
| Paymaster | two scenes: three senders (two without an account yet), twelve operations to choose three from, honest, altered after they were signed and malformed, one owner call; two senders that only pay, for longer | Types (no balance or allowance below zero); an unpaid bill has one of four explanations, measured by the terms that were signed; `GasWindows`: a sender stays within its limit in every window of one period, all together within twice the threshold |
| Station | three scenes: three overlapping bootstraps; two of them, the operator and an api that restarts; the deployer in three modes on a chain that starts anew | A late bootstrap writes nothing; two write at a time only after a lock expired; giving up has a cause; no seed is lost; every bootstrap ends; the files name usable contracts; `DeploymentSound`: a clean run heals them and no fixed contract is lost; the policy shown is used, with named exceptions where Redis does not answer |
| ControlPlane | four scenes: two clicks beside a sponsored request; one request for terms while all it reads changes; two logins, the operator and a click; two calls that look for a pool | The replaced record stays; refills from the dashboard overlap only with an automatic one's help; a price in force rests on fresh reads; a charge is within its estimate; a pool is remembered no longer than allowed, and given up only if all fail; every click is answered |
| Desk | fourteen scenes: a simulation or two other tabs beside the funding buttons; a simulation beside another simulation or a smoke test; one that sends two operations, and a smoke test until the account is empty, on a node that fails once; the buttons alone, with failing calls; policy and estimate, with another administrator; the tables while blocks come; the price while its sources change; the cards; the rows and their logs; the pages; the tool, run twice | Confirmed additions are kept, unless a simulation or another tab was at work at once with somebody else; a simulation or smoke test nobody disturbs succeeds; the panel shows what is current; the two tables differ only with a reason; a price shown is what is charged, within its stated conditions; a missing card has a failed call of its own; an open row is the one the clicks should leave open, with its own logs, and pages turn; the caps meet their target |
| PaymasterBreaker | two senders | Violated: the breaker does not pause the paymaster |
| PaymasterRate | two senders | Violated: the rate limit is not one of gas per period |

### Bounds

Bounds are the constants marked so in the modules: `MaxDeficit`, `MaxAv`,
`MaxUsdc`, `MaxFaults`, `MaxBundle`, `MaxOps`, `MaxChanges`, `MaxNonce`,
`MaxResets`, `MaxPurchases`, `Counters`, `Outs`, `GasPrices`, `MaxRequests`,
`MaxPolicies`, `Costs`, `MaxBlock`, `Purchases`, `NodePrices`, `Settings`, `Txs`,
`MaxFetches`, `Units`, `MaxRuns` and `Scenes`. In the
refill, both accounts can be below the minimum, one at a time or together, USDC
suffices for one full and one short refill, and two prices a factor of two apart
make a swap revert, underfill and overfill its quote. `MaxFaults = 1` puts one
fault at every point of a behaviour; two faults with overlapping runs are
in RefillMixed, with one leg and one price, which bear neither on the clock nor on what is
recorded. RefillLive has one leg, too: the split between legs is RefillAuto's. For the windows, three operations are enough to use one window
from both sides of a global reset, and a sender can fill its limit, wait, and fill
it again; a scene's clock runs to its `until`, at most `Late`. The bundle bound of two is the smallest that puts an operation between
validation and charge of another. 
`Scenes` keeps concerns that share no state apart: a behaviour of Station,
ControlPlane or Desk is one of a few scenes, each of which lets everything it contains
interleave freely. But for liveness, the properties of all three are theorems for any set of
scenes. `LockTTL = 2` and `WaitLimit = 1` are the code's
120 s and 30 s, the ratio rounded down to the smallest in which a waiter gives up
before the lock expires. Three bootstraps are one that keeps its lock too long, one
that takes it over, and one that the first's `DEL` lets in. `MaxNonce = 4` is room
for a paymaster, its treasury, a burner and one transaction more, so that a
second deployment starts and may run out; one new chain is what the files on
the volume can be stale about. `Validity = 2`, `CacheTTL = 1`, `SessionTTL = 2` and
`Patience = 1` let time run out between any two steps; two pools make one better, one
dead. One purchase is what may come between the reads of one request.

On the desk, five requests of the panel are its three first effects, a click and what
a refill's end asks for; `first` and `last` of a scene keep the funding buttons to one
or two clicks; two requests from other tabs are the least that lose an addition to each other. Two policies are one of this panel and one of somebody else. Three
operations in three blocks, a range of one block and a limit of one row cut a
table off at either end. Two transactions, two requests for logs at a
time and pages of one row are the least that can cross. One call of the metrics may fail in
the scene of the price, two in that of the cards. Three and two operations per profile with two
costs give percentiles that differ; a second run of the tool finds the first one's
accounts. One `collectMetrics` is under way at a time, as one page asks.

Deadlock checking is off where the bounds end every behaviour (the contract, the
start of the stack), on for the refill, the split and the running stack.

### Fairness

`RefillLive` assumes that the event loop runs each continuation whose await
resolved (`WF` of `Continue(r)`), that blocks come (`WF` of `MineTx \/ RevertTx`),
that time passes, and that users keep sponsoring operations, since only they
trigger a refill. No fairness is assumed of faults, drains, income or the
dashboard. `NeedServed` allows for an empty paymaster: with no USDC nothing can be
bought.

`Station` assumes that a bootstrap takes its next step while it is not killed, since the Redis
client fails a request after three reconnections and every failure has its step, and
that time passes; a Redis that keeps the connection open and never answers is outside
this assumption. `ControlPlane` assumes that time
passes and that the dashboard's own abort timer fires; nothing of the paymaster-api, the
node or Redis, so that `ClicksAnswered` holds with a refill that hangs.

## 4. Findings

1. *Two refills at once* (`RefillOverlap`). `refillRunner.ts:1190` tests the flag,
   1205 sets it two awaits later. A manual refill that starts in between runs
   beside the automatic one; the first to finish clears the flag for both.
2. *A purchase recorded twice* (`RefillDoubleRecord`). A run records the owner's
   whole wrapped balance (`refillRunner.ts:934-968`), including what an earlier run
   recorded but could not unwrap; the price derived from it falls too low.
3. *The breaker does not pause* (`PaymasterBreaker`).
   `Project4Paymaster.sol:514-523` sets `paused` and reverts; README.md:341 says
   "Circuit breakers pause operations if gas usage exceeds thresholds".
4. *The rate limit is not per hour* (`PaymasterRate`). A sender's counter starts
   anew only after a whole period of silence (508-510, 527); README.md:186 says
   "Rate limiting (1 hour window)".

Met on the way, and left as remarks, because no line of the repository states a
property they break, or because it is a matter of words:

- The price on the dashboard is said to match the sponsor's (`metrics.ts:126`, `:555`), but
  asks no pool, and takes the fallback for a recorded price below one unit.
  `ShownPriceIsCharged` names these exceptions.
- `metrics.ts:3` promises to fail softly per section. A pricing setting in Redis that is
  no number fails the whole request (517-530), outside every section.
- Where the counters cannot be read, the card of the price shows one made of the fallback,
  like a reading (`metrics.ts:573-596`).
- Two fundings at once, from two tabs or beside a simulation, may add once: `anvilDevTools.ts:189-208`
  reads the balance and sets the sum without a lock. Without its exception for
  them, `AdditionsKept` is violated in the scene with other tabs.
- A restart sets `lastRefillAt` to zero, and a manual refill may complete after an automatic one
  has looked at it: either way USDC is spent twice within a cooldown. `AutomaticRefillsCoolDown` names both,
  and is violated without either of them.
- The minimum output of a swap comes from a quote of its own: if the price falls after the
  first quote, the accounts are filled by less than was planned, and nothing says so.
- A poll of the metrics that fails takes the whole page away, with the control plane's
  tab and what was typed there (`page.tsx:912`).
- An error about a transaction's logs is kept like an answer, so that it is never asked
  again; a poll of a table that fails leaves the old rows and says nothing; *Previous*
  counts from a page number that may be past the end.
- The three readers of the paymaster's address prefer three different places, so that
  tables and prices of different paymasters may stand beside each other.
- The gas of a bundle is taken for its last operation's if it held several.
- `preload-config.mjs:36-46` takes a reply that ends with a chunk for whole.

## 5. Proofs

Every proof rests on the named assumptions of the modules and nothing else, and
holds for all constants that satisfy them. The invariants below were checked by TLC on the
instances of the runs before they were proved.

### The refill (`AllocationProofs`, `AllocationLoopProofs`, `RefillProofs`)

- `AllocateCapped`, `AllocateExact`, `AllocateServesAll`: the split gives no leg more than its
  deficit, hands out exactly the smaller of what there is and what is missing, and forgets
  nobody if there is a wei for each. Behind them is `GreedyFill`: who serves the legs in the order
  of a sort, each with what is left up to its room, hands out the smaller of the amount
  and all the room.
- `AllocateFair`: each share differs from the exact proportion by less than `NLegs` wei. The wei
  given in advance and the floor cost a leg less than that; the
  leftover is less than the number of legs in need, and no leg gets more of it than there is.
- `LoopsComputeTheSplit` and `SharesAreFair`: the loops end with the closed form, so all that is
  proved of it holds of them. `LoopInv` says for each loop that
  what is assigned is the closed form's part of the legs visited, and that these come first in
  the order of the sort (`InOrder`); the same orders break ties in both. The closed form
  names the legs before a leg in the stable sort by a set, so no sorted sequence has to exist.
- `TypeCorrect`: `TypeOK` is inductive. The arithmetic is in the
  chain's actions, where each guard keeps a balance from going below zero, and in
  `AllocateCapped`, which makes a plan a vector of naturals.
- `OneEntryExcludes`: if only automatic or only manual runs exist, then
  `OneRefillAtATime`. `RunsInv` strengthens it: only automatic runs
  are in the early steps, two automatic runs are never active together (the
  coordinator's flag is set while one is), and while a manual run is active
  and no automatic run exists the flag is set. `RefillOverlap` is the
  counterexample without the hypothesis.
- `PreflightsCoalesce`: `Spec => CoalescedSpec`, by the same invariant: a step maps to
  a start, an end, a tick or a restart of `CoalescedPreflight`, or to a stutter.
- `QueueInv` is what the proofs about money share: a transaction in the mempool whose run
  has not given up is the one that run waits for, and there is one of each run.
- `PurchasesAreBacked`, for any runs side by side: by `BackedInv`, that what is recorded, with
  what the runs past their swap have still to record, is no more than what swaps paid.
- `ReserveIsKept`: by `ReserveInv`, that the owner can pay the sends that are pending, whoever
  sent them, and those that a run has planned and not yet submitted, and keep the reserve.
- `BooksAreClosed`: by `BooksInv`, which follows the wrapped balance and what is recorded through
  the steps of the one run that is at work.
- `NoLegOverfilled`: by `TargetInv`: what a run has still to send to an account, with what the
  account has, is within the target of the minimum that run read.
- The last three hold under `OneEntry`, that only one of the two ways into a refill is used;
  with both, `RefillOverlap` lets two runs plan with the same money. Then `FifoInv` holds: the
  queue ends with the transaction the run waits for and is empty when it has the receipt, so
  that what earlier runs left behind has been executed by then, too. The hypotheses on the owner's first balances (the
  reserve is there, nothing is wrapped) say what the properties mean.
- `RefillsCoolDown`: `CooldownSpec => AutomaticRefillsCoolDown`, for any automatic and manual runs. By
  `CoolInv`: unless the service restarted since, the code's clock shows the
  real time since the last completion; and a run that has found the cooldown over keeps what it found
  over the awaits to its withdrawal, unless a manual refill overtakes it (a second automatic one
  cannot, as in `RunsInv`).
- `RefillIsOnePurchase`: `Spec => PurchaseSpec`, under `OneEntry`, an owner that starts with the
  reserve and nothing wrapped. A fault sets `disturbed`, after which nothing
  is promised (`RefillDoubleRecord` shows what may happen). Until
  then there is one run at work at most (`OnlyRun`), and each of its transactions is a step:
  the swap is `Buy`, a send is `Give`, the others change nothing that is mapped. `BooksInv`
  gives the swap its amount and says that nothing is wrapped before, `NeedInv` (a
  run on its way to the swap has measured a deficit) with `TargetInv` that the need is still
  there, `ReserveInv` what may be given, `PlanInv` that it is more than nothing.

### The contract (`PaymasterProofs`)

- `PaymasterTypeCorrect`: no balance, allowance or counter leaves its range, for any
  operations and fees.
- `LossesAreExplained`: by `AcceptedInv`: an operation that waits for its execution still has the terms
  that were signed, and the first of its sender in the bundle still finds the
  balance it was accepted for.
- `GasLimitsBound`: by `WindowInv`. A sender's counter bounds the gas of every window of one
  period that reaches to its last operation, because the counter starts anew only after a
  period without one. The counter of all senders starts anew when its period is over, so a window may
  lie across two of them: each half is within the threshold, hence twice. Sums over the parts of the log are
  in `SumsProofs`.

### The start of the stack (`StationProofs`)

- `BootTypeCorrect`, `LateRunsWriteNothing` (by `LateInv`: there are late runs only once
  the sentinel is set, and nothing unsets it), `NoSeedIsLost` (inductive as it stands).
- `SeedersExcludeEachOther`: by `LockInv`. While no run's lease has reached nought, a run
  that holds the lock is the only one, and its lease is the lock's remaining time;
  so an overlap needs a lease that ran out.
- `TimeOutsHaveACause`: by `WaitInv`. A waiter's patience and the lease of the run it may
  blame run down together. It needs `WaitLimit <= LockTTL`, the code's 30 s and 120 s.
- `BootstrapIsSafe` lifts these to Station: of its other parts only the operator's
  save writes what the bootstrap reads.
- `ShownPolicyIsUsed`: by `PolicyInv`. A minimum that is absent now was absent when the api
  started, because nothing deletes a field; so the api falls back to the default
  the dashboard shows. Without an answer from Redis it goes by the minimum of its start, which is still the one
  shown unless it was changed since (`changed`).
- `FilesAreUsable`, `DeploymentIsSound`: by `DeployInv`, of four parts. `TipInv`: unless the nonce was
  moved back, the pending transactions have the next nonces, no two the same, and the
  addresses they deploy to are free; so a receipt stands for the contract. `JobInv`: a file gets
  the address of a paymaster only after its treasury was set. `HealInv`: while nothing failed on this chain,
  the paymaster in the file is usable, or nothing was deployed, or the run is about to replace it. `ScriptInv`: a factory is
  there before what needs it is sent.
- `StationTypeCorrect`.

### The running stack (`ControlPlaneProofs`)

Action by action: what requests for terms and the search for a pool keep, then sign-in
and clicks; then the parts are put together.

- `ControlPlaneTypeCorrect`.
- `RecordStays`: by `RecordInv`. After the operator replaced the record there is one,
  and either some login had looked before, or no login is about to create.
- `RetriesAreExclusive`: by `FlagInv`. Unless an automatic refill joined, at most one click
  is served, the flag is set while one is, and an automatic one excludes clicks.
- `PricesAreFresh`: by `Fresh`: while a request is served, the age of its oldest read
  and the time it has left add up to at most the validity and one tick.
- `EstimatesCoverCharges`: by `Estimated`: the answer is the formula of the signed price at
  the operation's own fee; that it covers what the contract computes, which rounds
  in another order, is a lemma about division.
- `PoolsAreChosenWell`: by `Young`: time left and age of an entry, or of a call that asks,
  add up to at most the time to live; while no tier has answered, all those passed are
  silent.

### The desk (`DeskProofs`)

Each part has an invariant over its own variables; a lemma per part says that the steps of the
others leave them alone.

- `PanelCorrect`: by `PanelInv`. Unless requests crossed, at most one about the policy
  is under way, what it brings is what is in Redis, and once it is over the panel shows that
  or an error; the newest estimate read its balances after the last refill whose end
  was seen; the buttons let one request for money through at a time.
- `TablesCorrect`: by `TablesInv`: what a table shows is still the newest of the logs up to the block it was
  read at, since blocks only add logs above.
- `RowsCorrect`: by `RowsInv`: with one click at a time, the request under way is for the row
  clicked last, and the page number is the one turned to while no list was too short.
- `MetricsCorrect`: by `MetricsInv`: unless a source changed since the request began, what was read
  is what the sources still say; the last step is the lemma that
  `PriceOf` is what the contract charges to the unit rounded away.
- `OverviewCorrect`: by `OverviewInv` beside it: for each card, the calls it is made of were
  made before and either answered, or are among those that failed, or were not set.
- `AdditionsCorrect`: by `DeskInv`: what a button works on is its request until that is given
  up (`ButtonInv`), who works alone is the only one (`LoneInv`), and while nobody is disturbed
  (`Quiet`: no request given up, no simulation and no other tab in anybody's company)
  all additions are in the balance and who is about to set it has seen it as it is (`SeenInv`).
- `LoneClientCorrect`: by `ClientsInv`, what a simulation nobody disturbs may count on at each of its
  awaits. It assumes `Sensible`, that as much is paid as is needed: the code's defaults are a
  deposit of at least 1 coin topped up by 5 (`sponsored-userop-usdc-fee.ts:46-48`), 1000 USDC for an
  account (`:40`), and an end below 0.1 (`:42`). With
  the numbers the other way round the preparation could not succeed.
- `CapsCorrect`: by `CapsInv`: there is one sample for each operation sent, and unless a bundle was shared it
  tells what that operation used; in a first run each operation of the other profile deploys. Above it is the
  arithmetic: the value at a percentile's rank is exceeded by no larger a share than the rank leaves.

The scenes of Desk are constrained by assumptions, which say how parts may be put together
and are true of the code or of how the model is cut: the buttons are the panel's requests and
those of other tabs (`ButtonsAssumption`); put on the page, the panel asks for each thing once at most, and for no money
(`FirstAssumption`); a scene has the panel's buttons or the tables of the page (`KindsAssumption`), and what
is in it are clients, places, prices and settings (`WorldAssumption`); the price is
followed either while its sources change or on the page (`CardsAssumption`); no actor is both client and button
(`ActorsAssumption`), and the lenders are strangers to the paymaster and to the account
(`LendersAssumption`).

### Only model-checked

- `FlagReleased`, `NeedServed`, `BootstrapEnds` and `ClicksAnswered`: liveness is beyond the prover.

All invariants, the other action properties and both refinements are theorems. The runs that
expect a violation show by their counterexamples what no theorem can claim.

## 6. Plan

Done: the refill with its trigger, split and pool choice; the contract under the
EntryPoint, with its signature; the price; the start of the stack; the dashboard's
sign-in, control plane, figures and tables; the development chain, the simulation's
preparation and the tool for gas caps. Of the properties the runs check, all but the four of
liveness are theorems.

Left: a refill in the same block as user operations, which Refill and Paymaster now
see from either side.

## 7. Not modelled

About five lines in eight of the repository are not the station's own logic, or nothing of
them would be true or false of a model:

- The generated types and factories of the contracts (`contracts/types`), some 3500 lines.
- What React lays out of the state modelled here, the landing page, formatting and sorting;
  the amounts on the cards, each one call.
- The older integrated tests (`integrated-tests/old`) and the unit tests: they run what is
  modelled and keep no state of their own. Of the newer ones, what they print and report; the simulation's
  option that creates an account.
- The key rotator and the deployment scripts: a person runs them once.
- The containers of the bundler and the development chain. The bundler's preload reads one
  hash from Redis when it starts and overwrites its environment; nobody else is involved.
- `services/shared/src`: inventory, reconciler and profitability: only tests import them. They
  are no reference for the rest, either: `profitability.ts` describes a cap on the price
  that the contract does not have any more. The tables of names, and the holder of the Redis
  connection.
- Parsing of the environment; the health and address routes and the bundler proxy, which only
  read or forward; names, wording and logs; the fixed fee tier.
- In the contract: stake, ownership, two settings nothing reads, and the bytes of
  what is signed.
