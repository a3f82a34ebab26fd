---------------------------- MODULE MCControlPlane ----------------------------
(***************************************************************************)
(* A small instance of ControlPlane.  A behaviour is one of four scenes:    *)
(* retries of a refill from an open session, beside a sponsored request;    *)
(* one request for terms while everything it reads changes; logins, the     *)
(* operator in Redis and a click; or two calls that look for a pool.        *)
(***************************************************************************)
EXTENDS ControlPlane

CONSTANTS c1, c2, q1, s1, s2, l1, l2

Asked(stub, initCode, maxFee, refBps) ==
    [stub |-> stub, initCode |-> initCode, maxFee |-> maxFee, refBps |-> refBps]

MCAsks == {Asked(TRUE, FALSE, 1, 500), Asked(FALSE, FALSE, 2, 0),
           Asked(FALSE, TRUE, 1, 500), Asked(FALSE, TRUE, 0, 500)}

MCCounters == {[usdc |-> 30, wei |-> 10], [usdc |-> 1, wei |-> 40]}

Quiet == [counters |-> [usdc |-> 30, wei |-> 10], market |-> [p \in 1..Pools |-> 4],
          gasPrice |-> 1]

MCScenes ==
    {[logins |-> {}, open |-> {l1}, clicks |-> {c1, c2}, quotes |-> {q1}, resolutions |-> {},
      asks |-> {Asked(FALSE, FALSE, 2, 0)}, worlds |-> {Quiet}, has |-> {}],
     [logins |-> {}, open |-> {}, clicks |-> {}, quotes |-> {q1}, resolutions |-> {},
      asks |-> MCAsks, worlds |-> Worlds, has |-> {"world", "restart"}],
     [logins |-> {l1, l2}, open |-> {}, clicks |-> {c1}, quotes |-> {}, resolutions |-> {},
      asks |-> {}, worlds |-> {Quiet}, has |-> {"operator", "restart"}],
     [logins |-> {}, open |-> {}, clicks |-> {}, quotes |-> {}, resolutions |-> {s1, s2},
      asks |-> {}, worlds |-> {Quiet}, has |-> {"restart"}]}

=============================================================================
