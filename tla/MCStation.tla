------------------------------ MODULE MCStation ------------------------------
(***************************************************************************)
(* A small instance of Station.  A behaviour is one of three scenes: three  *)
(* runs of config-bootstrap that overlap; two of them, the operator and the *)
(* api; or the deployer in all its modes, on a chain that starts anew.      *)
(***************************************************************************)
EXTENDS Station

CONSTANTS b1, b2, b3

With(url, min, mult) ==
    [f \in Fields |-> CASE f = "url" -> url [] f = "min" -> min [] OTHER -> mult]

Three(e, f, g) == [r \in Runs |-> CASE r = b1 -> e [] r = b2 -> f [] OTHER -> g]

Complete == With(Default, Default, Default)

NoPolicy == With(Default, Absent, Absent)
NoUrl == With(Absent, Chosen, Bad)
BadMin == With(Default, Bad, Chosen)
BadRange == With(Default, OutOfRange, OutOfRange)

MCEnvs == {Complete, NoPolicy, NoUrl, BadMin, BadRange}

\* The runs differ in their environments alone, so that one order is enough.
MCScenes ==
    [runs : {{b1, b2, b3}}, modes : {{"production"}}, has : {{"clock"}},
     env : {Three(Complete, NoUrl, NoUrl), Three(Complete, Complete, NoUrl)}]
    \cup
    [runs : {{b1, b2}}, modes : {{"production"}}, has : {{"clock", "deployed", "operator"}},
     env : {Three(NoPolicy, BadMin, BadMin), Three(NoPolicy, BadRange, BadRange),
            Three(BadMin, BadRange, BadRange)}]
    \cup
    [runs : {{b1}}, modes : {Modes}, has : {{"deployer"}},
     env : {Three(Complete, Complete, Complete)}]

=============================================================================
