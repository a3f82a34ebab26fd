-------------------------------- MODULE MCDesk --------------------------------
(***************************************************************************)
(* A small instance of Desk.  A behaviour is one of fourteen scenes: a      *)
(* simulation beside the panel's funding buttons, or beside another         *)
(* simulation or a smoke test; two other tabs beside those buttons; one of  *)
(* these alone, and the buttons alone, with calls of the node that fail;    *)
(* the panel's policy and estimate; the live tables; the price of gas; the  *)
(* cards of the page; the rows of its tables; or the tool for gas caps.     *)
(***************************************************************************)
EXTENDS Desk, TLC

CONSTANTS c1, c2, w1, w2, o1, o2, o3, a1, a2, t1, t2, e1, e2

MCWhales == <<w1, w2>>
MCCandidates == <<500, 670>>
MCPurchases == {[usdc |-> 30, wei |-> 10], [usdc |-> 1, wei |-> 7]}

Rates(amplifier, serviceFee, fallback) ==
    [amplifier |-> amplifier, serviceFee |-> serviceFee, hasServiceFee |-> TRUE,
     fallback |-> fallback, numbers |-> TRUE]

MCSettings == {Rates(1000, 2500, 3), Rates(0, 500, 30),
               [Rates(1000, 2500, 3) EXCEPT !.hasServiceFee = FALSE],
               [Rates(1000, 2500, 3) EXCEPT !.numbers = FALSE]}

Stock == [h \in {"paymaster", "account", w1, w2} |-> IF h \in {w1, w2} THEN 4 ELSE 0]

World(each, failing) ==
    [usdc |-> Stock, ops |-> each, faults |-> failing, kinds |-> [c \in Clients |-> "simulation"]]

Smokes(kind) == [c \in {c1} |-> kind] @@ [c \in Clients |-> "simulation"]

OneAddress == [redis |-> "none", env |-> "none", file |-> a1, api |-> a1]

\* Nobody takes part yet.
Nobody == [has |-> {}, clients |-> {}, world |-> World(1, 0), tools |-> TRUE,
           first |-> <<>>, kinds |-> {}, last |-> MaxRequests,
           places |-> {OneAddress}, served |-> {a1}, prices |-> {4},
           started |-> {Rates(1000, 2500, 3)}, keys |-> {{}}, failing |-> 2,
           lists |-> {<<>>, <<t1>>, <<t2, t1, t1>>},
           watching |-> {TRUE}]

FundKinds == {"native", "usdc"}
PolicyKinds == {"load", "save", "estimate", "refill"}

MCScenes ==
    {[Nobody EXCEPT !.has = {"chain", "panel"}, !.clients = {c1}, !.first = <<"status">>,
                    !.kinds = FundKinds, !.last = 3],
     [Nobody EXCEPT !.has = {"chain", "panel", "other tabs"}, !.first = <<"status">>,
                    !.kinds = FundKinds, !.last = 3],
     [Nobody EXCEPT !.has = {"chain"}, !.clients = {c1, c2}],
     [Nobody EXCEPT !.has = {"chain"}, !.clients = {c1}, !.world = World(2, 1)],
     [Nobody EXCEPT !.has = {"chain"}, !.clients = {c1, c2},
                    !.world = [World(1, 0) EXCEPT !.kinds = Smokes("smoke")]],
     [Nobody EXCEPT !.has = {"chain"}, !.clients = {c1},
                    !.world = [World(1, 1) EXCEPT !.kinds = Smokes("until-empty")]],
     [Nobody EXCEPT !.has = {"chain", "panel"}, !.first = <<"status">>, !.kinds = FundKinds,
                    !.last = 3, !.world = World(1, 2)],
     [Nobody EXCEPT !.has = {"panel", "elsewhere"}, !.first = <<"status", "load", "estimate">>,
                    !.kinds = PolicyKinds, !.tools = FALSE],
     [Nobody EXCEPT !.has = {"tables"},
                    !.places = {[OneAddress EXCEPT !.file = "unreadable"],
                                [OneAddress EXCEPT !.file = "empty", !.api = "unreadable"],
                                [OneAddress EXCEPT !.redis = a2]}],
     [Nobody EXCEPT !.has = {"metrics"}, !.failing = 1,
                    !.started = {s \in MCSettings : s.numbers}, !.prices = NodePrices,
                    !.places = {OneAddress, [OneAddress EXCEPT !.redis = a2],
                                [OneAddress EXCEPT !.file = "unreadable"]}],
     [Nobody EXCEPT !.has = {"overview"},
                    !.started = {s \in MCSettings : s.amplifier > 0},
                    !.keys = {{}, {"owner", "utility", "executor"}},
                    !.places = {OneAddress, [OneAddress EXCEPT !.file = "empty"]}],
     [Nobody EXCEPT !.has = {"rows", "pages"}, !.kinds = {"userops"},
                    !.lists = {<<t2, t1>>}],
     [Nobody EXCEPT !.has = {"pages"}, !.kinds = Kinds],
     [Nobody EXCEPT !.has = {"caps"}, !.watching = BOOLEAN]}

=============================================================================
