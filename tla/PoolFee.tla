------------------------------- MODULE PoolFee -------------------------------
(***************************************************************************)
(* Which pool a refill swaps in.  Refills and the dashboard's estimates ask *)
(* the quoter for every fee tier, take the cheapest, and remember it for    *)
(* some minutes in one cache they share; the remembered tier is asked for a *)
(* new quote each time it is used, and forgotten if it gives none.          *)
(*                                                                         *)
(* A resolution is one call of resolvePoolFeeForRefill, by whichever of the *)
(* two.  Chain, quoter and tokens do not change, so the cache has one       *)
(* entry; the tiers are 1..Pools in the order they are asked, of ascending  *)
(* fees; a pool that gives more for USDC is the cheaper one.  The fixed     *)
(* tier (POOL_FEE_AUTO=false) asks for one quote and keeps nothing; it is   *)
(* left out.                                                                *)
(***************************************************************************)
EXTENDS SponsorQuote

CONSTANTS
    Resolutions,                \* calls that may be under way at a time
    CacheTTL                    \* poolFeeCacheTtlMs, in ticks

ASSUME CacheTTLAssumption == CacheTTL \in Nat \ {0}

VARIABLES
    cache,                      \* the entry: the tier, the time it has left, and
                                \* the age of the comparison the tier won
    resolution                  \* the calls: at, the tier taken and its answer so
                                \* far, the next to ask, the time an entry of theirs
                                \* would have left, the age of their comparison;
                                \* silent: history, the tiers that gave no quote

poolFeeVars == <<cache, resolution>>

NoEntry == [tier |-> 0, left |-> 0, age |-> 0]

ResolutionRecord ==
    [at : {"idle", "cached", "asking", "found", "none"}, tier : 0..Pools, best : Nat,
     next : 1..(Pools + 1), left : 0..CacheTTL, age : 0..(CacheTTL + 1),
     silent : SUBSET (1..Pools)]

PoolFeeTypeOK ==
    /\ cache \in [tier : 0..Pools, left : 0..CacheTTL, age : 0..(CacheTTL + 1)]
    /\ resolution \in [Resolutions -> ResolutionRecord]

NoResolution == [at |-> "idle", tier |-> 0, best |-> 0, next |-> 1, left |-> 0,
                 age |-> 0, silent |-> {}]

PoolFeeInit ==
    /\ cache = NoEntry
    /\ resolution = [s \in Resolutions |-> NoResolution]

Resolves(s, new) == resolution' = [resolution EXCEPT ![s] = new]

\* The time is read once, before the first question; an entry that has not
\* expired by then is a hit.
BeginResolution(s) ==
    /\ resolution[s].at \in {"idle", "found", "none"}
    /\ Resolves(s, IF cache.left > 0
                   THEN [NoResolution EXCEPT !.at = "cached", !.tier = cache.tier, !.left = CacheTTL]
                   ELSE [NoResolution EXCEPT !.at = "asking", !.left = CacheTTL])
    /\ UNCHANGED cache

\* The quoter's answer; an error, or nothing, is none.
TierAnswers(tier) == {0, market[tier]}

\* The remembered tier is asked; without a quote the entry is deleted, even if
\* another call has replaced it, and all tiers are asked.
AskCached(s) ==
    /\ resolution[s].at = "cached"
    /\ \E out \in TierAnswers(resolution[s].tier) :
           IF out > 0
           THEN Resolves(s, [resolution[s] EXCEPT !.at = "found"]) /\ UNCHANGED cache
           ELSE /\ Resolves(s, [resolution[s] EXCEPT
                       !.at = "asking", !.silent = {resolution[s].tier}, !.tier = 0])
                /\ cache' = NoEntry

AskTier(s) ==
    /\ resolution[s].at = "asking" /\ resolution[s].next <= Pools
    /\ \E out \in TierAnswers(resolution[s].next) :
           LET asked == resolution[s].next
               better == out > resolution[s].best
           IN  Resolves(s, [resolution[s] EXCEPT
                   !.next = @ + 1,
                   !.tier = IF better THEN asked ELSE @,
                   !.best = IF better THEN out ELSE @,
                   !.silent = IF out = 0 THEN @ \cup {asked} ELSE @])
    /\ UNCHANGED cache

\* Variant with a mistake: the entry's time is counted from the last answer.
RememberFromEnd(s) ==
    /\ resolution[s].at = "asking" /\ resolution[s].next > Pools
    /\ IF resolution[s].best = 0
       THEN Resolves(s, [resolution[s] EXCEPT !.at = "none"]) /\ UNCHANGED cache
       ELSE /\ Resolves(s, [resolution[s] EXCEPT !.at = "found"])
            /\ cache' = [tier |-> resolution[s].tier, left |-> CacheTTL,
                         age |-> resolution[s].age]

\* The best tier is remembered, in place of what another call has put there,
\* until the time to live since this call began is over.
Remember(s) ==
    /\ resolution[s].at = "asking" /\ resolution[s].next > Pools
    /\ IF resolution[s].best = 0
       THEN Resolves(s, [resolution[s] EXCEPT !.at = "none"]) /\ UNCHANGED cache
       ELSE /\ Resolves(s, [resolution[s] EXCEPT !.at = "found"])
            /\ cache' = IF resolution[s].left = 0 THEN NoEntry
                        ELSE [tier |-> resolution[s].tier, left |-> resolution[s].left,
                              age |-> resolution[s].age]

ResolutionStep(s) == BeginResolution(s) \/ AskCached(s) \/ AskTier(s) \/ Remember(s)

\* Nothing depends on an age beyond CacheTTL + 1, nor on an expired entry.
PoolFeesAge ==
    /\ cache' = IF cache.left <= 1 THEN NoEntry
                ELSE [cache EXCEPT !.left = @ - 1, !.age = IF @ <= CacheTTL THEN @ + 1 ELSE @]
    /\ resolution' = [s \in Resolutions |->
           LET r == resolution[s]
           IN  IF r.at \in {"cached", "asking"}
               THEN [r EXCEPT !.left = IF @ > 0 THEN @ - 1 ELSE 0,
                              !.age = IF r.at = "asking" /\ @ <= CacheTTL THEN @ + 1 ELSE @]
               ELSE r]

-----------------------------------------------------------------------------
(* Properties *)

\* However slow the quoter is and however calls overlap: a tier is taken from
\* the cache only within the time to live of the moment its comparison with the
\* others began, and a refill is refused for want of a pool only if every pool
\* failed to quote for it; an entry gone bad never keeps it from the others.
PoolChosenWell ==
    /\ cache.left > 0 => cache.age <= CacheTTL
    /\ \A s \in Resolutions :
           resolution[s].at = "none" => resolution[s].silent = 1..Pools

=============================================================================
