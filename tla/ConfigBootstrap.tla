--------------------------- MODULE ConfigBootstrap ---------------------------
(***************************************************************************)
(* The one-shot container config-bootstrap: it writes the configuration of  *)
(* all services from its environment into Redis, once, under a lock that    *)
(* expires.  `docker compose up` may start it again at any time, and a run  *)
(* may overlap another.                                                     *)
(*                                                                         *)
(* Time is counted in steps: the lock's time to live and a waiter's         *)
(* patience only run down, so no bound on time is needed.  A field's value  *)
(* is a member of a small set; secrets never reach the hash and are left    *)
(* out.                                                                     *)
(***************************************************************************)
EXTENDS Naturals

CONSTANTS
    Runs,                       \* runs of the container
    Fields,                     \* configuration fields the hashes may hold
    Values, Missing,            \* their values; Missing: none
    Required,                   \* fields without which a service does not load
    Envs,                       \* environments a run may have
    LockTTL, WaitLimit          \* 120 s and 30 s, in units of 30 s

ASSUME EnvsAssumption ==
    /\ Missing \in Values
    /\ Envs \subseteq [Fields -> Values]
    /\ Required \subseteq Fields
ASSUME LockAssumption ==
    /\ LockTTL \in Nat \ {0}
    /\ WaitLimit \in Nat /\ WaitLimit <= LockTTL

VARIABLES
    hash,                       \* the Redis hashes config:*
    done,                       \* config:bootstrap:done is "1"
    lock,                       \* time config:bootstrap:lock has left; 0: none
    bpc,                        \* where each run is
    env,                        \* each run's environment
    patience,                   \* polls a waiting run has left
    lease,                      \* history: time left of the lock a run took,
                                \* when it let go of it
    late,                       \* history: runs that started after done was set
    seeded                      \* history: runs whose transaction was executed

bootVars == <<hash, done, lock, bpc, env, patience, lease, late, seeded>>

Stages == {"idle", "check", "lock", "wait", "seed", "release", "fail",
           "ok", "failed", "timed out", "crashed"}

Ended == {"ok", "failed", "timed out", "crashed"}

BootTypeOK ==
    /\ hash \in [Fields -> Values]
    /\ done \in BOOLEAN
    /\ lock \in 0..LockTTL
    /\ bpc \in [Runs -> Stages]
    /\ env \in [Runs -> Envs]
    /\ patience \in [Runs -> 0..WaitLimit]
    /\ lease \in [Runs -> 0..LockTTL]
    /\ late \in SUBSET Runs
    /\ seeded \in SUBSET Runs

BootInit ==
    /\ hash = [f \in Fields |-> Missing]
    /\ done = FALSE
    /\ lock = 0
    /\ bpc = [r \in Runs |-> "idle"]
    /\ env \in [Runs -> Envs]
    /\ patience = [r \in Runs |-> 0]
    /\ lease = [r \in Runs |-> LockTTL]
    /\ late = {}
    /\ seeded = {}

At(r, from, to) == bpc[r] = from /\ bpc' = [bpc EXCEPT ![r] = to]

-----------------------------------------------------------------------------
(* runConfigBootstrap *)

Start(r) ==
    /\ At(r, "idle", "check")
    /\ late' = IF done THEN late \cup {r} ELSE late
    /\ UNCHANGED <<hash, done, lock, env, patience, lease, seeded>>

\* GET of the sentinel: the run has nothing to do, or goes for the lock.
ReadSentinel(r) ==
    /\ At(r, "check", IF done THEN "ok" ELSE "lock")
    /\ UNCHANGED <<hash, done, lock, env, patience, lease, late, seeded>>

\* Variant with a mistake: SET without NX.
TakeLockAnyway(r) ==
    /\ At(r, "lock", "seed")
    /\ lock' = LockTTL
    /\ UNCHANGED <<hash, done, env, patience, lease, late, seeded>>

\* SET EX 120 NX.
TakeLock(r) ==
    /\ lock = 0
    /\ At(r, "lock", "seed")
    /\ lock' = LockTTL
    /\ UNCHANGED <<hash, done, env, patience, lease, late, seeded>>

\* Somebody holds it: poll the sentinel, 60 times.
MissLock(r) ==
    /\ lock > 0
    /\ At(r, "lock", "wait")
    /\ patience' = [patience EXCEPT ![r] = WaitLimit]
    /\ UNCHANGED <<hash, done, lock, env, lease, late, seeded>>

PollDone(r) ==
    /\ done
    /\ At(r, "wait", "ok")
    /\ patience' = [patience EXCEPT ![r] = 0]
    /\ UNCHANGED <<hash, done, lock, env, lease, late, seeded>>

\* Variant with a mistake: the loop gives up at once.
GiveUpAtOnce(r) ==
    /\ ~done
    /\ At(r, "wait", "timed out")
    /\ UNCHANGED <<hash, done, lock, env, patience, lease, late, seeded>>

\* Variant with a mistake: the loop has no limit.
NeverGiveUp(r) == FALSE

GiveUp(r) ==
    /\ ~done /\ patience[r] = 0
    /\ At(r, "wait", "timed out")
    /\ UNCHANGED <<hash, done, lock, env, patience, lease, late, seeded>>

\* Variant with a mistake: the hashes are replaced, not merged into.
HashReplaced(r) == env[r]

\* HSET of the fields the environment has; the others stay.
HashSeeded(r) == [f \in Fields |-> IF env[r][f] = Missing THEN hash[f] ELSE env[r][f]]

\* MULTI: the hashes and the sentinel together.  The reply may get lost after
\* the transaction was executed.
Seed(r) ==
    /\ \E next \in {"release", "fail"} : At(r, "seed", next)
    /\ hash' = HashSeeded(r)
    /\ done' = TRUE
    /\ seeded' = seeded \cup {r}
    /\ UNCHANGED <<lock, env, patience, lease, late>>

SeedFails(r) ==
    /\ At(r, "seed", "fail")
    /\ UNCHANGED <<hash, done, lock, env, patience, lease, late, seeded>>

\* finally: DEL, whoever's lock it is by now.  It may fail as well.
Release(r) ==
    /\ \/ At(r, "release", "ok") /\ lock' = 0
       \/ \E from \in {"release", "fail"} :
              At(r, from, "failed") /\ lock' \in {0, lock}
    /\ UNCHANGED <<hash, done, env, patience, lease, late, seeded>>

Crash(r) ==
    /\ bpc[r] \notin Ended \cup {"idle"}
    /\ bpc' = [bpc EXCEPT ![r] = "crashed"]
    /\ patience' = [patience EXCEPT ![r] = 0]
    /\ UNCHANGED <<hash, done, lock, env, lease, late, seeded>>

Holding == {"seed", "release", "fail"}

Down(n) == IF n > 0 THEN n - 1 ELSE 0

\* 30 seconds pass.
Tick ==
    /\ lock' = Down(lock)
    /\ patience' = [r \in Runs |-> IF bpc[r] = "wait" THEN Down(patience[r]) ELSE patience[r]]
    /\ lease' = [r \in Runs |-> IF bpc[r] \in Holding THEN Down(lease[r]) ELSE lease[r]]
    /\ UNCHANGED <<hash, done, bpc, env, late, seeded>>

BootStep(r) ==
    \/ ReadSentinel(r) \/ TakeLock(r) \/ MissLock(r)
    \/ PollDone(r) \/ GiveUp(r)
    \/ Seed(r) \/ SeedFails(r) \/ Release(r)

BootNext == \E r \in Runs : Start(r) \/ BootStep(r) \/ Crash(r)

BootSpec == BootInit /\ [][BootNext \/ Tick]_bootVars

-----------------------------------------------------------------------------
(* Properties *)

\* A run that starts when the sentinel is set is a no-op: it takes no lock and
\* writes nothing, so it never undoes what the operator has saved since.
LateRunIsNoOp == \A r \in late : bpc[r] \in {"check", "ok", "crashed"}

\* Two runs write at a time only if some run kept the lock until it expired:
\* that run's unconditional DEL lets in one more.
SeedersOverlapAfterExpiry ==
    \A q, r \in Runs : q # r /\ bpc[q] = "seed" /\ bpc[r] = "seed" =>
        \E s \in Runs : lease[s] = 0

\* A run that gave up waiting for another has one to blame, which crashed,
\* failed, or took longer than the 30 seconds it was given.
GivingUpHasACause ==
    \A r \in Runs : bpc[r] = "timed out" =>
        \E q \in Runs \ {r} : \/ bpc[q] \in {"crashed", "failed"}
                               \/ lease[q] + WaitLimit <= LockTTL

\* However runs overlap, what any of them wrote is there: a service that needs
\* a field one of them had will load.
SeedsSurvive ==
    /\ done => seeded # {}
    /\ \A r \in seeded, f \in Fields : env[r][f] # Missing => hash[f] # Missing

\* Every run ends: none waits for ever for a lock nobody gives back.  (There are
\* finitely many runs, so that in the end none is under way.)
BootstrapEnds == <>[](\A r \in Runs : bpc[r] \in Ended \cup {"idle"})

=============================================================================
