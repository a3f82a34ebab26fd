------------------------------- MODULE Station -------------------------------
(***************************************************************************)
(* The stack as `docker compose up` starts it: config-bootstrap seeds       *)
(* Redis, contract-deployer puts the contracts on the chain, paymaster-api  *)
(* loads its configuration and the paymaster's address, and the operator    *)
(* changes the refill policy in the dashboard while all this may be         *)
(* repeated.  The order is the depends_on of the compose file; a restarted  *)
(* paymaster-api does not wait for anybody.                                 *)
(***************************************************************************)
EXTENDS ConfigBootstrap, Deployer, RefillPolicy

CONSTANTS
    Scenes                      \* bound: the runs of config-bootstrap in one
                                \* behaviour, each run's environment, the deployer's
                                \* modes, and which of these there are: the clock,
                                \* the deployer or what it left, the operator

ASSUME ScenesAssumption ==
    /\ Scenes \subseteq [runs : SUBSET Runs, env : [Runs -> Envs], modes : SUBSET Modes,
                         has : SUBSET {"clock", "deployer", "deployed", "operator"}]
    /\ \A s \in Scenes : "deployed" \in s.has => "production" \in s.modes
ASSUME FieldsAssumption ==
    {"min", "mult"} \subseteq Fields /\ FieldValues = Values /\ Missing = Absent

VARIABLES
    scene,
    api,                        \* paymaster-api: up, the minimum it read when it
                                \* started; whether its environment lets it refill,
                                \* and with which multiplier
    changed                     \* history: the minimum in Redis is not the one that
                                \* was there when the api that is up started

stationVars == <<scene, api, changed>>
vars == <<bootVars, deployVars, stationVars>>

TypeOK ==
    /\ BootTypeOK
    /\ DeployerTypeOK
    /\ scene \in Scenes
    /\ api \in [up : BOOLEAN, min : Legal, refill : BOOLEAN, mult : Legal]
    /\ changed \in BOOLEAN

Init ==
    /\ scene \in Scenes
    /\ env = scene.env /\ BootInit
    /\ IF "deployed" \in scene.has THEN DeployedBefore
       ELSE DeployerInit /\ mode \in scene.modes
    /\ api = [up |-> FALSE, min |-> Default, refill |-> FALSE, mult |-> Default]
    /\ changed = FALSE

-----------------------------------------------------------------------------
(* What the services find *)

\* depends_on: service_completed_successfully.
Bootstrapped == \E r \in Runs : bpc[r] = "ok"

\* loadStrictRedisConfig and loadDashboardRedisConfig do not throw.
ConfigLoads == \A f \in Required : hash[f] # Missing

\* assertSignerMatchesOnChainVerifier and assertRefillOwnerMatchesOnChain: the
\* file names a contract that answers verifier() and owner(); every paymaster
\* the deployer makes answers with the keys of the same environment.
PaymasterAnswers ==
    /\ file["paymaster"] # None
    /\ chain.code[file["paymaster"]] = "paymaster"

\* What the environment of a started api may hold.
Environments ==
    IF "operator" \in scene.has THEN [has : SUBSET RefillNeeds, mult : FieldValues]
    ELSE {[has |-> RefillNeeds, mult |-> Default]}

\* buildRefillRunnerConfig and the refill: what the next refill goes by, whether or
\* not Redis answers it.
NextRefill(answered) == Used(answered, hash["min"], hash["mult"], api.min, api.mult)

-----------------------------------------------------------------------------
(* Actions *)

NoteChange == changed' = (changed \/ (api.up /\ hash'["min"] # hash["min"]))

Bootstrap ==
    /\ \E r \in scene.runs : Start(r) \/ BootStep(r) \/ Crash(r)
    /\ NoteChange
    /\ UNCHANGED <<deployVars, scene, api>>

\* The deployer's configuration is loaded first.
RunDeployer ==
    /\ "deployer" \in scene.has
    /\ Bootstrapped /\ ConfigLoads
    /\ StartRun
    /\ UNCHANGED <<bootVars, stationVars>>

RestOfDeployer ==
    /\ DeployerStep \/ CrashRun \/ ChainStep \/ ResetChain
    /\ UNCHANGED <<bootVars, stationVars>>

\* main of paymaster-api; a start that fails changes nothing.
StartApi ==
    /\ ~api.up
    /\ ConfigLoads /\ PaymasterAnswers
    /\ \E environ \in Environments :
           LET parsed == ParseRefillConfig(environ)
           IN  api' = [up |-> TRUE, min |-> StartupMin(hash["min"]),
                       refill |-> parsed.refill, mult |-> parsed.mult]
    /\ changed' = FALSE
    /\ UNCHANGED <<bootVars, deployVars, scene>>

StopApi ==
    /\ api.up
    /\ api' = [api EXCEPT !.up = FALSE]
    /\ changed' = FALSE
    /\ UNCHANGED <<bootVars, deployVars, scene>>

\* The dashboard's POST: both fields, in one HSET.
SavePolicy ==
    /\ "operator" \in scene.has /\ Bootstrapped
    /\ \E mult \in Legal : hash' = [hash EXCEPT !["min"] = Chosen, !["mult"] = mult]
    /\ NoteChange
    /\ UNCHANGED <<done, lock, bpc, env, patience, lease, late, seeded,
                   deployVars, scene, api>>

Time == "clock" \in scene.has /\ Tick /\ UNCHANGED <<deployVars, stationVars>>

Next ==
    \/ Bootstrap \/ Time
    \/ RunDeployer \/ RestOfDeployer
    \/ StartApi \/ StopApi
    \/ SavePolicy

\* The runs of config-bootstrap take their next step in the end, and time passes.
Fairness ==
    /\ \A r \in Runs : WF_vars(BootStep(r) /\ NoteChange /\ UNCHANGED <<deployVars, scene, api>>)
    /\ WF_vars(Time)

Spec == Init /\ [][Next]_vars /\ Fairness

-----------------------------------------------------------------------------
(* Properties *)

\* The policy the dashboard shows is the one the next refill uses, however often it
\* was saved, seeded again or read by a restarted api, with these exceptions.  When
\* Redis does not answer the refill (or the api has no VALKEY_URL), the minimum may be
\* another one if it was changed since the api started, and the multiplier is that of
\* the api's environment; that is also the multiplier where Redis holds none or one
\* that is not legal.  An api whose environment is not complete does not refill.
PolicyShownIsUsed ==
    LET shown == Shown(hash["min"], hash["mult"])
    IN  api.up /\ api.refill /\ shown.ok =>
            \A answered \in BOOLEAN :
                LET next == NextRefill(answered)
                IN  /\ next.min = shown.min \/ (~answered /\ changed)
                    /\ \/ next.mult = shown.mult
                       \/ (~answered \/ hash["mult"] \notin Legal) /\ next.mult = api.mult

=============================================================================
