--------------------------------- MODULE Desk ---------------------------------
(***************************************************************************)
(* What an operator and a developer do at their desks: the control plane    *)
(* tab and the funding buttons it sends to the development chain, where     *)
(* simulations are at work; the live tables and the price of gas on the     *)
(* first tab; the tool that recommends gas caps.                            *)
(*                                                                         *)
(* A behaviour is a scene: it says which of these take part.                *)
(***************************************************************************)
EXTENDS LocalChain, Panel, Rows, Overview, GasCaps

CONSTANTS
    Others,                     \* funding requests from other tabs and other browsers
    Scenes                      \* has: what takes part; clients: the simulations; world:
                                \* of the chain; tools: whether it is anvil; first, kinds:
                                \* what the panel asks for when it is put on the page, and
                                \* may ask for later, up to the last request; places: what
                                \* is in them; served, prices, started: the api's paymaster,
                                \* the node's gas price, the settings; watching: whether
                                \* the tool for gas caps knows the paymaster

ASSUME ButtonsAssumption == Buttons = Requests \cup Others /\ Requests \cap Others = {}

\* When it is put on the page, the panel asks for each thing once at most, and for no
\* money.
ASSUME FirstAssumption == \A s \in Scenes :
    /\ s.first \in Seq({"status", "load", "estimate"})
    /\ \A i, j \in DOMAIN s.first : s.first[i] = s.first[j] => i = j

\* The panel's buttons, or the tables on the page.
ASSUME KindsAssumption == \A s \in Scenes :
    /\ "panel" \in s.has => s.kinds \subseteq {"load", "save", "estimate", "refill", "native", "usdc"}
    /\ "pages" \in s.has => s.kinds \subseteq Kinds /\ s.lists \subseteq Seq(Txs)

ASSUME WorldAssumption == \A s \in Scenes :
    /\ s.clients \subseteq Clients /\ s.world \in Worlds /\ s.tools \in BOOLEAN /\ s.places \subseteq Place
    /\ s.watching \subseteq BOOLEAN
    /\ s.served \subseteq Paymasters /\ s.prices \subseteq Nat /\ s.started \subseteq Setting

\* While the cards are on the page nothing in the world changes.
ASSUME CardsAssumption == \A s \in Scenes : ~({"metrics", "overview"} \subseteq s.has)

VARIABLES
    scene,
    abandoned                   \* history: a funding request was given up while the
                                \* api was at work on it

deskVars == <<localVars, panelVars, place, tablesVars, rowsVars, metricsVars, overviewVars,
              capsVars, scene, abandoned>>

Has(part) == part \in scene.has

Init ==
    /\ scene \in Scenes
    /\ abandoned = FALSE
    /\ place \in scene.places
    /\ LocalInit(scene.world)
    /\ PanelInit(scene.first)
    /\ TablesInit
    /\ RowsInit
    /\ MetricsInit(scene.served, scene.prices, scene.started, scene.keys, scene.failing)
    /\ OverviewInit
    /\ CapsInit(scene.watching)

Only(part) ==
    /\ part # "chain"   => UNCHANGED localVars
    /\ part # "panel"   => UNCHANGED panelVars
    /\ part # "tables"  => UNCHANGED tablesVars
    /\ part # "rows"    => UNCHANGED rowsVars
    /\ part \notin {"metrics", "overview"} => UNCHANGED metricsVars
    /\ part # "overview" => UNCHANGED overviewVars
    /\ part # "caps"    => UNCHANGED capsVars
    /\ UNCHANGED <<place, scene, abandoned>>

-----------------------------------------------------------------------------
(* A funding button: from the panel through the dashboard's route to the *)
(* paymaster-api, which goes to work on the chain *)

\* What the routes answer the panel's first effect: any error counts as no.
StatusAnswers(tools) == Probe(tools) \cup {FALSE}

\* ensureAnvilDevActive: the chain may be found to be anvil.
MayBeActive(tools) == TRUE \in Probe(tools)

\* Either button has a route of its own, which does the same.
Funding(r) == request[r].kind \in {"native", "usdc"}

\* The api finds out that it is a development chain, and begins.
Received(r) ==
    /\ Funding(r) /\ request[r].at = "asked"
    /\ MayBeActive(scene.tools)
    /\ Begin(r, request[r].kind)
    /\ Served(r, 0)
    /\ UNCHANGED <<policy, refills, panel, mixed, crossed, seenRefills>>
    /\ UNCHANGED <<place, tablesVars, rowsVars, metricsVars, overviewVars, capsVars, scene,
                   abandoned>>

\* Refused, by the dashboard or by the api; or answered, when the work is over.
FundAnswered(r) ==
    /\ Funding(r)
    /\ request[r].at = "asked" \/ actor[r].at \in {"done", "failed"}
    /\ Funded(r)
    /\ Only("panel")

\* The route gives up after 120 s.  The api goes on, and so may its transfer.
GivenUp(r) ==
    /\ Funding(r) /\ actor[r].at \notin {"idle", "done", "failed"}
    /\ Funded(r)
    /\ abandoned' = TRUE
    /\ UNCHANGED <<localVars, place, tablesVars, rowsVars, metricsVars, overviewVars, capsVars,
                   scene>>

\* A funding button in another tab: what this panel shows stays, but the api has no
\* lock and begins.
FundElsewhere(b, kind) ==
    /\ MayBeActive(scene.tools)
    /\ Begin(b, kind)

-----------------------------------------------------------------------------
Next ==
    \/ Has("chain") /\ Only("chain") /\ LocalStep
    \/ Only("chain") /\ \E c \in scene.clients : Begin(c, "address")
    \/ /\ Has("other tabs") /\ Only("chain")
       /\ \E b \in Others, kind \in {"native", "usdc"} : FundElsewhere(b, kind)
    \/ /\ Has("panel") /\ Only("panel")
       /\ PanelStep(scene.last, scene.kinds, StatusAnswers(scene.tools))
    \/ Has("elsewhere") /\ Only("panel") /\ SaveElsewhere
    \/ \E r \in Requests : Received(r) \/ FundAnswered(r) \/ GivenUp(r)
    \/ Has("tables") /\ Only("tables") /\ (TablesStep \/ \E ops \in SUBSET Unhandled : Block(ops))
    \/ Has("rows") /\ Only("rows") /\ RowsStep
    \/ Has("pages") /\ Only("rows") /\ TableRowsStep(scene.kinds, scene.lists)
    \/ (Has("metrics") \/ Has("overview")) /\ Only("metrics") /\ MetricsGoOn
    \/ Has("overview") /\ Only("overview") /\ OverviewStep
    \/ Has("metrics") /\ Only("metrics") /\ LoadDashboardConfig
    \/ /\ Has("metrics") /\ Only("metrics")
       /\ \/ \E p \in Paymasters, bought \in Purchases : Purchase(p, bought)
          \/ \E new \in NodePrices : NodePriceMoves(new)
          \/ \E new \in Settings : Configure(new)
          \/ Restart
    \/ Has("caps") /\ Only("caps") /\ CapsStep

Spec == Init /\ [][Next]_deskVars

-----------------------------------------------------------------------------
(* Properties *)

\* fund-native reads the balance and sets the sum, and the api has no lock: all that
\* keeps the two buttons of one panel apart is the panel's own busy flag.  By it every
\* addition that was confirmed is in the balance, unless a request was given up while
\* the api was at work on it, or a simulation, or a request from another tab, was at
\* work at the same time as somebody else: those may lose an addition.
AdditionsKept ==
    \/ native = added * NativeTopup
    \/ abandoned
    \/ \E p \in Clients \cup Others : ~actor[p].alone

=============================================================================
