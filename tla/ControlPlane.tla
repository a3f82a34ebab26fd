----------------------------- MODULE ControlPlane -----------------------------
(***************************************************************************)
(* The running stack seen from outside: operators sign in to the dashboard  *)
(* and start refills, the dashboard passes them on to the paymaster-api and *)
(* gives up on it after 120 seconds, sponsored requests start refills on    *)
(* their own and get terms signed, and what a refill records goes into the  *)
(* next price.                                                              *)
(*                                                                         *)
(* A refill is one stretch here (its steps are in module Refill); what      *)
(* matters is when the flag refillInFlight is looked at and set, and that   *)
(* nobody can call a refill back.                                           *)
(***************************************************************************)
EXTENDS PoolFee, DashboardAuth

CONSTANTS
    Clicks,                     \* requests for a refill, from any browser
    Patience,                   \* the dashboard's 120 s, in ticks
    Scenes                      \* bound: the logins, clicks, quotes and resolutions of
                                \* one behaviour, the logins whose session is open when
                                \* it starts, what quotes ask for, the worlds it may
                                \* start in, and what happens besides

ASSUME PatienceAssumption == Patience \in Nat
ASSUME ScenesAssumption ==
    Scenes \subseteq [logins : SUBSET Logins, clicks : SUBSET Clicks,
                      quotes : SUBSET Quotes, resolutions : SUBSET Resolutions,
                      open : SUBSET Logins, asks : SUBSET Asks,
                      worlds : SUBSET Worlds, has : SUBSET {"operator", "world", "restart"}]

VARIABLES
    scene,
    refillInFlight,             \* the flag
    click,                      \* the requests: where the paymaster-api is with each
                                \* (at), what the browser was told, and how long the
                                \* dashboard still waits
    auto,                       \* the automatic refill
    joined                      \* history: the automatic refill began beside another
                                \* one, and the refills of that time are not over

panelVars == <<refillInFlight, click, auto, joined>>
vars == <<scene, quoteVars, poolFeeVars, authVars, panelVars>>

Init ==
    /\ scene \in Scenes
    /\ QuoteInit(scene.worlds)
    /\ PoolFeeInit
    /\ AuthInit(scene.open)
    /\ refillInFlight = FALSE
    /\ click = [c \in Clicks |-> [at |-> "idle", answer |-> "none", patience |-> 0]]
    /\ auto = "idle"
    /\ joined = FALSE

Running == {c \in Clicks : click[c].at = "running"}

TypeOK ==
    /\ scene \in Scenes /\ QuoteTypeOK /\ PoolFeeTypeOK /\ AuthTypeOK
    /\ click \in [Clicks -> [at : {"idle", "sent", "running", "over"}, patience : 0..Patience,
                            answer : {"none", "refused", "busy", "rejected", "completed",
                                      "skipped", "failed", "lost"}]]
    /\ refillInFlight \in BOOLEAN /\ joined \in BOOLEAN
    /\ auto \in {"idle", "preflight", "running"}

\* A refill that is over releases the flag, whoever set it.
Release(stillRunning) ==
    /\ refillInFlight' = FALSE
    /\ joined' = (joined /\ stillRunning)

-----------------------------------------------------------------------------
(* A refill from the dashboard *)

\* api/control-plane/refill; without a live administrator's session: 401, 403.
Click(c) ==
    /\ c \in scene.clicks /\ click[c].at = "idle"
    /\ \E l \in scene.logins \cup scene.open :
           click' = [click EXCEPT ![c] =
               IF Admits(l) THEN [at |-> "sent", answer |-> "none", patience |-> Patience]
               ELSE [at |-> "over", answer |-> "refused", patience |-> 0]]
    /\ UNCHANGED <<scene, poolFeeVars, quoteVars, authVars, refillInFlight, auto, joined>>

\* What the browser is told, if the dashboard still waits.
Told(c, answer) == IF click[c].answer = "none" THEN answer ELSE click[c].answer

Over(c, answer) == click' = [click EXCEPT ![c] =
    [at |-> "over", answer |-> Told(c, answer), patience |-> 0]]

\* POST /operational-refill and runOperationalRefillExclusive: 409 while a refill
\* runs; 401, 400 or 503 when the secrets differ or refills are switched off.
Receive(c) ==
    /\ click[c].at = "sent"
    /\ \/ ~refillInFlight /\ click' = [click EXCEPT ![c].at = "running"] /\ refillInFlight' = TRUE
       \/ refillInFlight /\ Over(c, "busy") /\ UNCHANGED refillInFlight
       \/ Over(c, "rejected") /\ UNCHANGED refillInFlight
    /\ UNCHANGED <<scene, poolFeeVars, quoteVars, authVars, auto, joined>>

\* The refill is over, whether the dashboard still waits or not.  It may have
\* failed after its purchase was recorded.
Finish(c) ==
    /\ click[c].at = "running"
    /\ \/ \E answer \in {"completed", "failed"}, bought \in Counters : Over(c, answer) /\ Record(bought)
       \/ \E answer \in {"skipped", "failed"} : Over(c, answer) /\ UNCHANGED <<counters, recorded>>
    /\ Release(Running # {c} \/ auto = "running")
    /\ UNCHANGED <<scene, poolFeeVars, market, gasPrice, quote, authVars, auto>>

\* Variant with a mistake: who gives up cancels the refill, and frees the flag.
GiveUpAndCancel(c) ==
    /\ click[c].at \in {"sent", "running"} /\ click[c].answer = "none" /\ click[c].patience = 0
    /\ click' = [click EXCEPT ![c].answer = "lost"]
    /\ refillInFlight' = FALSE
    /\ UNCHANGED <<scene, poolFeeVars, quoteVars, authVars, auto, joined>>

\* Variant with a mistake: the fetch has no time limit.
NoTimeLimit(c) == FALSE

\* The fetch is aborted after 120 s (502); the paymaster-api goes on.
GiveUp(c) ==
    /\ click[c].at \in {"sent", "running"} /\ click[c].answer = "none" /\ click[c].patience = 0
    /\ click' = [click EXCEPT ![c].answer = "lost"]
    /\ UNCHANGED <<scene, poolFeeVars, quoteVars, authVars, refillInFlight, auto, joined>>

\* A request that was aborted before it was read never arrives.
NeverArrives(c) ==
    /\ click[c].at = "sent" /\ click[c].answer = "lost"
    /\ Over(c, "lost")
    /\ UNCHANGED <<scene, poolFeeVars, quoteVars, authVars, refillInFlight, auto, joined>>

-----------------------------------------------------------------------------
(* A refill from pm_sponsorUserOperation *)

\* scheduleOperationalRefillIfNeeded, then the terms.
Sponsor(q) ==
    /\ q \in scene.quotes
    /\ \E ask \in scene.asks : BeginQuote(q, ask)
         /\ auto' \in IF ~ask.stub /\ auto = "idle" /\ ~refillInFlight THEN {"idle", "preflight"}
                      ELSE {auto}
    /\ UNCHANGED <<scene, poolFeeVars, authVars, refillInFlight, click, joined>>

\* Somebody is below the minimum: the flag is set without a second look.
BeginAutomatic ==
    /\ auto = "preflight"
    /\ \/ /\ auto' = "running" /\ refillInFlight' = TRUE
          /\ joined' = (joined \/ Running # {})
       \/ auto' = "idle" /\ UNCHANGED <<refillInFlight, joined>>
    /\ UNCHANGED <<scene, poolFeeVars, quoteVars, authVars, click>>

EndAutomatic ==
    /\ auto = "running" /\ auto' = "idle"
    /\ (\E bought \in Counters : Record(bought)) \/ UNCHANGED <<counters, recorded>>
    /\ Release(Running # {})
    /\ UNCHANGED <<scene, poolFeeVars, market, gasPrice, quote, authVars, click>>

\* The paymaster-api restarts: refills, requests and its cache are gone, the
\* connections break, and the flag is FALSE.
Restart ==
    /\ "restart" \in scene.has
    /\ refillInFlight' = FALSE /\ auto' = "idle" /\ joined' = FALSE
    /\ click' = [c \in Clicks |-> IF click[c].at \in {"sent", "running"}
                                  THEN [at |-> "over", answer |-> Told(c, "lost"), patience |-> 0]
                                  ELSE click[c]]
    /\ quote' = [q \in Quotes |-> IF quote[q].at \in {"idle", "answered", "failed"} THEN quote[q]
                                  ELSE [quote[q] EXCEPT !.at = "failed", !.left = 0]]
    /\ cache' = NoEntry /\ resolution' = [s \in Resolutions |-> NoResolution]
    /\ UNCHANGED <<scene, counters, recorded, market, gasPrice, authVars>>

-----------------------------------------------------------------------------
(* The rest *)

Quoting ==
    /\ \E q \in scene.quotes : QuoteStep(q)
    /\ UNCHANGED <<scene, poolFeeVars, authVars, panelVars>>

\* A refill or an estimate looks for a pool.
Resolving ==
    /\ \E s \in scene.resolutions : ResolutionStep(s)
    /\ UNCHANGED <<scene, quoteVars, authVars, panelVars>>

World ==
    /\ "world" \in scene.has
    /\ MarketMoves \/ GasPriceMoves
    /\ UNCHANGED <<scene, poolFeeVars, authVars, panelVars>>

SignIn ==
    /\ \/ \E l \in scene.logins : LoginStep(l) \/ \E password \in Passwords : Login(l, password)
       \/ "operator" \in scene.has /\ ReplaceRecord
    /\ UNCHANGED <<scene, poolFeeVars, quoteVars, panelVars>>

Time ==
    /\ QuotesAge /\ PoolFeesAge /\ SessionsAge
    /\ click' = [c \in Clicks |-> [click[c] EXCEPT !.patience = IF @ > 0 THEN @ - 1 ELSE 0]]
    /\ UNCHANGED <<scene, counters, recorded, market, gasPrice, admin, login, replaced, raced,
                   refillInFlight, auto, joined>>

Next ==
    \/ \E c \in Clicks : Click(c) \/ Receive(c) \/ Finish(c) \/ GiveUp(c) \/ NeverArrives(c)
    \/ \E q \in Quotes : Sponsor(q)
    \/ BeginAutomatic \/ EndAutomatic
    \/ Restart
    \/ Quoting \/ Resolving \/ World \/ SignIn \/ Time

\* Time passes, and the dashboard's timer fires; nothing is assumed of the
\* paymaster-api, the node or Redis.
Fairness ==
    /\ WF_vars(Time)
    /\ \A c \in Clicks : WF_vars(GiveUp(c))

Spec == Init /\ [][Next]_vars /\ Fairness

-----------------------------------------------------------------------------
(* Properties *)

\* Two refills from the dashboard run at a time, by a retry after a time-out or
\* from two browsers, only if an automatic one began beside the first and, being
\* done, released the flag for both.
OverlapNeedsAutomatic == \A b, c \in Running : b = c \/ joined

\* The browser is told something in the end, even if the paymaster-api hangs: the
\* button comes back.  (There are finitely many clicks.)
ClicksAnswered ==
    <>[](\A c \in Clicks : click[c].at = "idle" \/ click[c].answer # "none")

=============================================================================
