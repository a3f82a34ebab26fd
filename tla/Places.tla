------------------------------- MODULE Places --------------------------------
(***************************************************************************)
(* Where the dashboard looks for the paymaster's address: its own           *)
(* environment, Redis, the file the deployer wrote and the paymaster-api.   *)
(* Each of its three readers has an order of its own.                       *)
(***************************************************************************)

CONSTANTS
    Paymasters                  \* addresses

VARIABLES
    place                       \* what is in each place

\* What a place may hold: nothing, no address that can be read, an empty file.
Place == [redis : Paymasters \cup {"none"},
          env   : Paymasters \cup {"none"},
          file  : Paymasters \cup {"none", "unreadable", "empty"},
          api   : Paymasters \cup {"unreadable"}]

\* Of two places in order of preference, what the first that holds something holds.
Prefer(a, b) == IF a # "none" THEN a ELSE b

FromApi == IF place.api \in Paymasters THEN place.api ELSE "none"

\* The live tables: a configured file that gives no address is made up for by the api.
FromFile == IF place.file \in Paymasters THEN place.file ELSE FromApi

AddressForUserOps == Prefer(Prefer(place.redis, place.env), FromFile)

AddressForEntryPointOps == Prefer(place.env, FromFile)

\* The metrics: the api is asked only when the file cannot be read.
AddressForMetrics ==
    Prefer(Prefer(place.env, place.redis),
          CASE place.file \in Paymasters -> place.file
            [] place.file = "unreadable" -> FromApi
            [] OTHER                     -> "none")

=============================================================================
