------------------------------- MODULE Overview -------------------------------
(***************************************************************************)
(* The dashboard's page in one browser: it asks for the metrics now and     *)
(* then and shows a card for each that was answered, by groups of which the *)
(* operator looks at one.  A request that fails takes the page away until   *)
(* one succeeds; one that is refused sends the operator to the login page.  *)
(***************************************************************************)
EXTENDS Metrics, Functions

VARIABLES
    session,                    \* the browser's cookie is that of a session of an admin
    page,                       \* view; the answer awaited, if any (due); the cards; the
                                \* group looked at; failed: the calls that did not answer
    chosen                      \* history: the group the operator chose, unless there
                                \* was no card in it, or no page, since

overviewVars == <<session, page, chosen>>

Groups == <<"treasury", "chain-gas", "sponsor-pricing", "bundler-wallets">>

NoPage == [view |-> "loading", due |-> "none", cards |-> {}, group |-> "none", failed |-> {}]

OverviewInit ==
    /\ session = TRUE
    /\ page = NoPage
    /\ chosen = "none"

-----------------------------------------------------------------------------
(* HeroSection: which cards there are, group by group *)

Treasury == {"entryPointDeposit", "paymasterContractNativeReserve",
             "paymasterContractUsdcReserve", "refillOwnerNativeBalance",
             "refillOwnerUsdcBalance"}

ChainGas == {"gasPriceWei"}

SponsorPricing == {"paymasterGasUnitsProcessed", "paymasterGasBoughtWei",
                   "paymasterUsdcSpentForGasE6", "paymasterUsdcPerGas",
                   "paymasterAmplifierBps", "paymasterServiceFeeBps"}

BundlerWallets == {"bundlerUtilityBalance", "bundlerExecutorBalances"}

CardsOf(group) ==
    CASE group = "treasury"        -> Treasury
      [] group = "chain-gas"       -> ChainGas
      [] group = "sponsor-pricing" -> SponsorPricing
      [] group = "bundler-wallets" -> BundlerWallets

\* The groups there is a card in.
MetricGroups(cards) == SelectSeq(Groups, LAMBDA g : CardsOf(g) \cap cards # {})

\* Variant with a mistake: the group goes back to the first with every answer.
GroupAtEveryAnswer(prev, cards) ==
    IF MetricGroups(cards) = <<>> THEN prev ELSE Head(MetricGroups(cards))

\* The group looked at stays while it has a card; else it is the first.
HeroGroup(prev, cards) ==
    IF MetricGroups(cards) = <<>> \/ prev \in Range(MetricGroups(cards)) THEN prev
    ELSE Head(MetricGroups(cards))

\* The bar at the top.
AllSystemsOperational == {"paymasterApi", "bundler"} \subseteq page.cards

-----------------------------------------------------------------------------
(* The page asks and is answered *)

\* When it is put up, every five minutes, after an error, or by its button; never
\* twice at once.
PollMetrics ==
    /\ page.view # "login" /\ page.due = "none"
    /\ IF session THEN LoadDashboardConfig /\ page' = [page EXCEPT !.due = "answer"]
       ELSE page' = [page EXCEPT !.due = "refusal"] /\ UNCHANGED metricsVars
    /\ UNCHANGED <<session, chosen>>

\* The page makes room for the error, and what was looked at is forgotten.
Failed == [page EXCEPT !.view = "failed", !.due = "none", !.group = "none"]

TakeMetrics ==
    /\ page.due = "answer" /\ metric.at = 0
    /\ IF metric.threw THEN page' = Failed /\ chosen' = "none"
       ELSE /\ page' = [view |-> "shown", due |-> "none", cards |-> metric.answered,
                        group |-> HeroGroup(page.group, metric.answered),
                        failed |-> metric.failed]
            /\ chosen' = IF chosen \in Range(MetricGroups(metric.answered))
                            \/ MetricGroups(metric.answered) = <<>>
                         THEN chosen ELSE "none"
    /\ UNCHANGED <<metricsVars, session>>

\* The answer is lost on its way.
AnswerLost ==
    /\ page.due = "answer" /\ metric.at = 0 /\ spare > 0 /\ spare' = spare - 1
    /\ page' = Failed /\ chosen' = "none"
    /\ UNCHANGED <<served, counters, nodePrice, setting, started, keys, metric, session>>

Leave == page' = [NoPage EXCEPT !.view = "login"] /\ chosen' = "none" /\ UNCHANGED metricsVars

Refused == page.due = "refusal" /\ Leave /\ UNCHANGED session

\* Even if the server is not reached, and the session remains.
Logout ==
    /\ page.view = "shown" /\ Leave
    /\ session' \in {FALSE, session}

ChooseGroup(g) ==
    /\ page.view = "shown" /\ Len(MetricGroups(page.cards)) > 1
    /\ g \in Range(MetricGroups(page.cards))
    /\ page' = [page EXCEPT !.group = g] /\ chosen' = g
    /\ UNCHANGED <<metricsVars, session>>

-----------------------------------------------------------------------------
(* The operator and the server *)

SignIn ==
    /\ page.view = "login" /\ metric.at = 0
    /\ session' = TRUE /\ page' = NoPage
    /\ UNCHANGED <<metricsVars, chosen>>

SessionExpires ==
    /\ session /\ session' = FALSE
    /\ UNCHANGED <<metricsVars, page, chosen>>

OverviewStep ==
    \/ PollMetrics \/ TakeMetrics \/ AnswerLost \/ Refused \/ Logout
    \/ \E g \in Range(Groups) : ChooseGroup(g)
    \/ SignIn \/ SessionExpires

-----------------------------------------------------------------------------
(* Properties *)

\* What a card is made of: the calls, and what must be set up.
MadeOf(card) ==
    CASE card = "entryPointDeposit"              -> {"deposit"}
      [] card = "paymasterContractNativeReserve" -> {"native"}
      [] card = "paymasterContractUsdcReserve"   -> {"usdc"}
      [] card = "refillOwnerNativeBalance"       -> {"owner"}
      [] card = "refillOwnerUsdcBalance"         -> {"owner", "ownerUsdc"}
      [] card = "bundlerUtilityBalance"          -> {"utility"}
      [] card = "bundlerExecutorBalances"        -> {"executor", "lastExecutor"}
      [] card = "gasPriceWei"                    -> {"gas"}
      [] card = "paymasterUsdcPerGas"            -> {"settings", "gas"}
      [] card \in {"paymasterAmplifierBps", "paymasterServiceFeeBps"} -> {"settings"}
      [] OTHER                                   -> {"counters"}

Unset(card) ==
    \/ AddressForMetrics = "none" /\ MadeOf(card) \cap {"deposit", "native", "usdc", "counters"} # {}
    \/ MadeOf(card) \cap ({"owner", "utility", "executor"} \ keys) # {}
    \/ ~setting.hasServiceFee /\ card \in {"paymasterServiceFeeBps", "paymasterUsdcPerGas"}

\* Each card fails by itself: one that is not on the page is made of a call that
\* failed, or is not set up; no other failure takes it away.  And the bar at the top
\* says that all is well whatever else failed, if both services said so.  (The
\* settings are not changed meanwhile.)
FailSoft ==
    page.view = "shown" /\ "config" \notin page.failed =>
        /\ \A card \in Treasury \cup ChainGas \cup SponsorPricing \cup BundlerWallets :
               card \in page.cards \/ MadeOf(card) \cap page.failed # {} \/ Unset(card)
        /\ AllSystemsOperational <=> {"apiHealth", "bundlerHealth"} \cap page.failed = {}

\* The operator looks at the group that was chosen last, whatever has been asked
\* for since, unless a moment came without a card in it or without the page.
ChosenGroupStays == page.view = "shown" /\ chosen # "none" => page.group = chosen

OverviewExplained == FailSoft /\ ChosenGroupStays

=============================================================================
