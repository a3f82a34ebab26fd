-------------------------------- MODULE Panel --------------------------------
(***************************************************************************)
(* The control plane tab of the dashboard in one browser: what it asks for, *)
(* which buttons it keeps off meanwhile, and what it shows of the answers.  *)
(* Answers come in any order; the latest to come is what is shown.          *)
(*                                                                         *)
(* A policy is the number of the save that wrote it, an estimate the number *)
(* of refills that were over when its balances were read.                   *)
(***************************************************************************)
EXTENDS Naturals, Sequences

CONSTANTS
    MaxRequests,                \* bound: requests this panel sends
    MaxPolicies                 \* bound: policies that are saved, by anybody

ASSUME PanelBoundsAssumption == MaxRequests \in Nat \ {0} /\ MaxPolicies \in Nat

Requests == 1..MaxRequests

VARIABLES
    policy,                     \* the policy in Redis, the last of all that were saved
    refills,                    \* refills that are over
    request,                    \* kind; at; what the server read or wrote (saw)
    panel,                      \* the component's state: the policy shown (min) and
                                \* whether there is one, the estimate likewise, their
                                \* errors, its busy flags, and anvil's buttons
    mixed,                      \* history: the newest request about the policy was
                                \* sent beside another, or somebody else saved since
    crossed,                    \* history: the newest estimate was asked for beside another
    seenRefills                 \* history: refills over when this panel saw one end

panelVars == <<policy, refills, request, panel, mixed, crossed, seenRefills>>

\* What is in flight, of some kinds.
Open(kinds) == {r \in Requests : request[r].at \notin {"unsent", "over"} /\ request[r].kind \in kinds}

\* The number of the next request.
Unsent(r) == request[r].at = "unsent" /\ \A q \in Requests : request[q].at = "unsent" => r <= q

\* The component's effects when it is put on the page, of those in first.
PanelInit(first) ==
    /\ policy = 0 /\ refills = 0
    /\ request = [r \in Requests |->
           [at |-> IF r <= Len(first) THEN "asked" ELSE "unsent", saw |-> 0,
            kind |-> IF r <= Len(first) THEN first[r] ELSE "none"]]
    /\ panel = [min |-> 0, minShown |-> FALSE, minError |-> FALSE,
                minLoading |-> TRUE, minSaving |-> FALSE,
                estimate |-> 0, estimateShown |-> FALSE, estimateError |-> FALSE,
                estimateLoading |-> TRUE,
                loading |-> FALSE, devAction |-> FALSE, anvilEnabled |-> FALSE]
    /\ mixed = FALSE /\ crossed = FALSE /\ seenRefills = 0

-----------------------------------------------------------------------------
(* Asking *)

\* There are buttons for funding once the chain is known to be anvil; either keeps both off.
FundingEnabled == panel.anvilEnabled /\ ~panel.devAction

\* Variant with a mistake: a funding button is kept off by its own kind alone.
EnabledBeside(kind) ==
    CASE kind = "load"     -> ~panel.minLoading
      [] kind = "save"     -> ~panel.minSaving /\ ~panel.minLoading
      [] kind = "estimate" -> ~panel.estimateLoading
      [] kind = "refill"   -> ~panel.loading
      [] OTHER             -> panel.anvilEnabled

\* What keeps a button off.  Loading does not wait for a save.
Enabled(kind) ==
    CASE kind = "load"     -> ~panel.minLoading
      [] kind = "save"     -> ~panel.minSaving /\ ~panel.minLoading
      [] kind = "estimate" -> ~panel.estimateLoading
      [] kind = "refill"   -> ~panel.loading
      [] OTHER             -> FundingEnabled

\* The component's state once a request of that kind has gone out.
Busy(kind) ==
    CASE kind = "load"     -> [panel EXCEPT !.minLoading = TRUE, !.minError = FALSE]
      [] kind = "save"     -> [panel EXCEPT !.minSaving = TRUE, !.minError = FALSE]
      [] kind = "estimate" -> [panel EXCEPT !.estimateLoading = TRUE, !.estimateError = FALSE]
      [] kind = "refill"   -> [panel EXCEPT !.loading = TRUE]
      [] OTHER             -> [panel EXCEPT !.devAction = TRUE]

\* A button is pressed: refreshMinWei, saveMinWei, refreshEstimate, runRefill, runAnvilFund.
Press(r, kind) ==
    /\ Unsent(r) /\ Enabled(kind)
    /\ panel' = Busy(kind)
    /\ request' = [request EXCEPT ![r] = [at |-> "asked", saw |-> 0, kind |-> kind]]
    /\ mixed' = IF kind \in {"load", "save"} THEN Open({"load", "save"}) # {} ELSE mixed
    /\ crossed' = IF kind = "estimate" THEN Open({"estimate"}) # {} ELSE crossed
    /\ UNCHANGED <<policy, refills, seenRefills>>

-----------------------------------------------------------------------------
(* The server's side: the routes under api/control-plane *)

Served(r, saw) == request' = [request EXCEPT ![r].at = "served", ![r].saw = saw]

ServePolicy(r) ==
    /\ request[r].at = "asked"
    /\ \/ request[r].kind = "load" /\ Served(r, policy) /\ UNCHANGED policy
       \/ /\ request[r].kind = "save" /\ policy < MaxPolicies
          /\ policy' = policy + 1 /\ Served(r, policy + 1)
    /\ UNCHANGED <<refills, panel, mixed, crossed, seenRefills>>

ServeRefill(r) ==
    /\ request[r].at = "asked" /\ request[r].kind = "refill"
    /\ refills' = refills + 1 /\ Served(r, refills + 1)
    /\ UNCHANGED <<policy, panel, mixed, crossed, seenRefills>>

\* The dashboard's route forwards the request for an estimate, with its secret.
Forward(r) ==
    /\ request[r].at = "asked" /\ request[r].kind = "estimate"
    /\ request' = [request EXCEPT ![r].at = "forwarded"]
    /\ UNCHANGED <<policy, refills, panel, mixed, crossed, seenRefills>>

\* The paymaster-api takes it and reads the policy.
BeginEstimate(r) ==
    /\ request[r].at = "forwarded"
    /\ request' = [request EXCEPT ![r].at = "policy"]
    /\ UNCHANGED <<policy, refills, panel, mixed, crossed, seenRefills>>

\* Then the balances, one after the other; nothing more if no account is in need.
SnapshotForEstimate(r) ==
    /\ request[r].at = "policy"
    /\ \E at \in {"balances", "served"} :
           request' = [request EXCEPT ![r].at = at, ![r].saw = refills]
    /\ UNCHANGED <<policy, refills, panel, mixed, crossed, seenRefills>>

\* Then what the USDC would have to be; there may be no pool to ask.
QuoteEstimate(r) ==
    /\ request[r].at = "balances"
    /\ request' = [request EXCEPT ![r].at = "served"]
    /\ UNCHANGED <<policy, refills, panel, mixed, crossed, seenRefills>>

\* Another administrator saves a policy.
SaveElsewhere ==
    /\ policy < MaxPolicies
    /\ policy' = policy + 1
    /\ mixed' = TRUE
    /\ UNCHANGED <<refills, request, panel, crossed, seenRefills>>

-----------------------------------------------------------------------------
(* Answers.  One that is an error may come before the server did anything or *)
(* after it did everything. *)

Over(r) == request' = [request EXCEPT ![r].at = "over"]

\* The rest of refreshMinWei: an error takes the policy off the page.
Loaded(r) ==
    /\ request[r].kind = "load"
    /\ \/ /\ request[r].at = "served"
          /\ panel' = [panel EXCEPT !.minLoading = FALSE, !.min = request[r].saw, !.minShown = TRUE]
       \/ /\ request[r].at \in {"asked", "served"}
          /\ panel' = [panel EXCEPT !.minLoading = FALSE, !.minError = TRUE, !.minShown = FALSE]
    /\ Over(r)
    /\ UNCHANGED <<policy, refills, mixed, crossed, seenRefills>>

\* The rest of saveMinWei: an error leaves the page as it is.
Saved(r) ==
    /\ request[r].kind = "save"
    /\ \/ /\ request[r].at = "served"
          /\ panel' = [panel EXCEPT !.minSaving = FALSE, !.min = request[r].saw, !.minShown = TRUE]
       \/ /\ request[r].at \in {"asked", "served"}
          /\ panel' = [panel EXCEPT !.minSaving = FALSE, !.minError = TRUE]
    /\ Over(r)
    /\ UNCHANGED <<policy, refills, mixed, crossed, seenRefills>>

\* The rest of refreshEstimate: an error that is JSON takes the place of the estimate.
Estimated(r) ==
    /\ request[r].kind = "estimate"
    /\ \/ /\ request[r].at = "served"
          /\ panel' = [panel EXCEPT !.estimateLoading = FALSE,
                                    !.estimate = request[r].saw, !.estimateShown = TRUE]
       \/ /\ request[r].at \notin {"unsent", "over"}
          /\ \E shown \in {FALSE, panel.estimateShown} :
                 panel' = [panel EXCEPT !.estimateLoading = FALSE, !.estimateError = TRUE,
                                        !.estimateShown = shown]
    /\ Over(r)
    /\ UNCHANGED <<policy, refills, mixed, crossed, seenRefills>>

\* Variant with a mistake: the estimate is not asked for again.
AfterRefill(r, next) ==
    /\ panel' = [panel EXCEPT !.loading = FALSE]
    /\ Over(r)
    /\ UNCHANGED crossed

\* finally: whatever the answer was, a new estimate is asked for.
Refresh(r, next) ==
    /\ panel' = [Busy("estimate") EXCEPT !.loading = FALSE]
    /\ request' = [request EXCEPT ![r].at = "over",
                                  ![next] = [at |-> "asked", saw |-> 0, kind |-> "estimate"]]
    /\ crossed' = (Open({"estimate"}) # {})

\* The rest of runRefill.
Refilled(r, next) ==
    /\ request[r].kind = "refill" /\ Unsent(next)
    /\ Refresh(r, next)
    /\ \/ request[r].at = "served" /\ seenRefills' = request[r].saw
       \/ request[r].at \in {"asked", "served"} /\ UNCHANGED seenRefills
    /\ UNCHANGED <<policy, refills, mixed>>

\* The first effect: the buttons for anvil are there once it is known to be one.
StatusKnown(r, answers) ==
    /\ request[r].kind = "status" /\ request[r].at = "asked"
    /\ \E enabled \in answers : panel' = [panel EXCEPT !.anvilEnabled = enabled]
    /\ Over(r)
    /\ UNCHANGED <<policy, refills, mixed, crossed, seenRefills>>

\* The rest of runAnvilFund, whatever the answer is.
Funded(r) ==
    /\ request[r].kind \in {"native", "usdc"} /\ request[r].at \in {"asked", "served"}
    /\ panel' = [panel EXCEPT !.devAction = FALSE]
    /\ Over(r)
    /\ UNCHANGED <<policy, refills, mixed, crossed, seenRefills>>

PanelStep(last, kinds, answers) ==
    \E r \in Requests :
        \/ r <= last /\ \E kind \in kinds : Press(r, kind)
        \/ ServePolicy(r) \/ ServeRefill(r)
        \/ Forward(r) \/ BeginEstimate(r) \/ SnapshotForEstimate(r) \/ QuoteEstimate(r)
        \/ Loaded(r) \/ Saved(r) \/ Estimated(r) \/ StatusKnown(r, answers)
        \/ \E next \in Requests : Refilled(r, next)

-----------------------------------------------------------------------------
(* Properties *)

\* With nothing under way and no error on the page, the policy shown is the one
\* in Redis, unless requests about it crossed or somebody else saved it; and the
\* estimate shown was made of balances read after the last refill this panel saw
\* end, unless two estimates crossed.
PanelIsCurrent ==
    Open({"load", "save", "estimate", "refill"}) = {} =>
        /\ panel.minShown /\ ~panel.minError /\ ~mixed => panel.min = policy
        /\ panel.estimateShown /\ ~panel.estimateError /\ ~crossed =>
               panel.estimate >= seenRefills

=============================================================================
