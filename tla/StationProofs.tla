---------------------------- MODULE StationProofs ----------------------------
(***************************************************************************)
(* Proofs about the bootstrap of the configuration, for every set of runs,  *)
(* of fields and of environments, and for every time to live of the lock;   *)
(* and about the station it is part of: the policy the dashboard shows is   *)
(* the policy of the refills, for any number of bootstraps, environments    *)
(* and restarts, and whatever the deployer and the chain do meanwhile; and  *)
(* the files name contracts that can be used, whatever fails in the         *)
(* deployer's runs.                                                         *)
(***************************************************************************)
EXTENDS Station, FiniteSetTheorems, TLAPS

-----------------------------------------------------------------------------
(* Types *)

LEMMA DownBounded == \A n \in Nat : \A m \in 0..n : Down(m) \in 0..n
  BY DEF Down

LEMMA SeededHash ==
  ASSUME BootTypeOK, NEW r \in Runs
  PROVE  HashSeeded(r) \in [Fields -> Values]
<1>1. env[r] \in [Fields -> Values]
  BY EnvsAssumption DEF BootTypeOK
<1> QED
  BY <1>1 DEF BootTypeOK, HashSeeded

\* What an action does to a run's stage keeps the stages in their set.
LEMMA StageKept ==
  ASSUME BootTypeOK, NEW r \in Runs, NEW from, NEW to \in Stages, At(r, from, to)
  PROVE  bpc' \in [Runs -> Stages]
  BY DEF BootTypeOK, At

LEMMA TypeInit == BootInit => BootTypeOK
<1> SUFFICES ASSUME BootInit PROVE BootTypeOK
  OBVIOUS
<1>1. hash \in [Fields -> Values]
  BY EnvsAssumption DEF BootInit
<1>2. bpc \in [Runs -> Stages]
  BY DEF BootInit, Stages
<1>3. lock \in 0..LockTTL /\ lease \in [Runs -> 0..LockTTL] /\ patience \in [Runs -> 0..WaitLimit]
  BY LockAssumption DEF BootInit
<1> QED
  BY <1>1, <1>2, <1>3 DEF BootInit, BootTypeOK

LEMMA TypeStep == BootTypeOK /\ [BootNext \/ Tick]_bootVars => BootTypeOK'
<1> SUFFICES ASSUME BootTypeOK, [BootNext \/ Tick]_bootVars
             PROVE  BootTypeOK'
  OBVIOUS
<1>0. LockTTL \in Nat /\ WaitLimit \in Nat
  BY LockAssumption
<1>1. ASSUME NEW r \in Runs, Start(r)
      PROVE  BootTypeOK'
  <2>1. bpc' \in [Runs -> Stages]
    BY <1>1, StageKept DEF Start, Stages
  <2>2. late' \in SUBSET Runs
    BY <1>1 DEF Start, BootTypeOK
  <2> QED
    BY <1>1, <2>1, <2>2 DEF Start, BootTypeOK
<1>2. ASSUME NEW r \in Runs, ReadSentinel(r)
      PROVE  BootTypeOK'
  <2>1. bpc' \in [Runs -> Stages]
    <3>1. CASE done
      BY <1>2, <3>1, StageKept DEF ReadSentinel, Stages
    <3>2. CASE ~done
      BY <1>2, <3>2, StageKept DEF ReadSentinel, Stages
    <3> QED
      BY <3>1, <3>2
  <2> QED
    BY <1>2, <2>1 DEF ReadSentinel, BootTypeOK
<1>3. ASSUME NEW r \in Runs, TakeLock(r)
      PROVE  BootTypeOK'
  <2>1. bpc' \in [Runs -> Stages]
    BY <1>3, StageKept DEF TakeLock, Stages
  <2>2. lock' \in 0..LockTTL
    BY <1>0, <1>3 DEF TakeLock
  <2> QED
    BY <1>3, <2>1, <2>2 DEF TakeLock, BootTypeOK
<1>4. ASSUME NEW r \in Runs, MissLock(r)
      PROVE  BootTypeOK'
  <2>1. bpc' \in [Runs -> Stages]
    BY <1>4, StageKept DEF MissLock, Stages
  <2>2. patience' \in [Runs -> 0..WaitLimit]
    BY <1>0, <1>4 DEF MissLock, BootTypeOK
  <2> QED
    BY <1>4, <2>1, <2>2 DEF MissLock, BootTypeOK
<1>5. ASSUME NEW r \in Runs, PollDone(r)
      PROVE  BootTypeOK'
  <2>1. bpc' \in [Runs -> Stages]
    BY <1>5, StageKept DEF PollDone, Stages
  <2>2. patience' \in [Runs -> 0..WaitLimit]
    BY <1>0, <1>5 DEF PollDone, BootTypeOK
  <2> QED
    BY <1>5, <2>1, <2>2 DEF PollDone, BootTypeOK
<1>6. ASSUME NEW r \in Runs, GiveUp(r)
      PROVE  BootTypeOK'
  <2>1. bpc' \in [Runs -> Stages]
    BY <1>6, StageKept DEF GiveUp, Stages
  <2> QED
    BY <1>6, <2>1 DEF GiveUp, BootTypeOK
<1>7. ASSUME NEW r \in Runs, Seed(r)
      PROVE  BootTypeOK'
  <2>1. bpc' \in [Runs -> Stages]
    BY <1>7, StageKept DEF Seed, Stages
  <2>2. hash' \in [Fields -> Values]
    BY <1>7, SeededHash DEF Seed
  <2>3. seeded' \in SUBSET Runs
    BY <1>7 DEF Seed, BootTypeOK
  <2> QED
    BY <1>7, <2>1, <2>2, <2>3 DEF Seed, BootTypeOK
<1>8. ASSUME NEW r \in Runs, SeedFails(r)
      PROVE  BootTypeOK'
  <2>1. bpc' \in [Runs -> Stages]
    BY <1>8, StageKept DEF SeedFails, Stages
  <2> QED
    BY <1>8, <2>1 DEF SeedFails, BootTypeOK
<1>9. ASSUME NEW r \in Runs, Release(r)
      PROVE  BootTypeOK'
  <2>1. bpc' \in [Runs -> Stages]
    BY <1>9, StageKept DEF Release, Stages
  <2>2. lock' \in 0..LockTTL
    BY <1>0, <1>9 DEF Release, BootTypeOK
  <2> QED
    BY <1>9, <2>1, <2>2 DEF Release, BootTypeOK
<1>10. ASSUME NEW r \in Runs, Crash(r)
       PROVE  BootTypeOK'
  <2>1. bpc' \in [Runs -> Stages]
    BY <1>10 DEF Crash, BootTypeOK, Stages
  <2>2. patience' \in [Runs -> 0..WaitLimit]
    BY <1>0, <1>10 DEF Crash, BootTypeOK
  <2> QED
    BY <1>10, <2>1, <2>2 DEF Crash, BootTypeOK
<1>11. CASE Tick
  <2>1. lock' \in 0..LockTTL
    BY <1>0, <1>11, DownBounded DEF Tick, BootTypeOK
  <2>2. patience' \in [Runs -> 0..WaitLimit]
    BY <1>0, <1>11, DownBounded DEF Tick, BootTypeOK
  <2>3. lease' \in [Runs -> 0..LockTTL]
    BY <1>0, <1>11, DownBounded DEF Tick, BootTypeOK
  <2> QED
    BY <1>11, <2>1, <2>2, <2>3 DEF Tick, BootTypeOK
<1>12. CASE UNCHANGED bootVars
  BY <1>12 DEF bootVars, BootTypeOK
<1> QED
  BY <1>1, <1>2, <1>3, <1>4, <1>5, <1>6, <1>7, <1>8, <1>9, <1>10, <1>11, <1>12
  DEF BootNext, BootStep

\* Every variable of the bootstrap keeps its type; in particular the lock's time
\* to live and a waiter's patience never run below zero.
THEOREM BootTypeCorrect == BootSpec => []BootTypeOK
<1> QED
  BY TypeInit, TypeStep, PTL DEF BootSpec

-----------------------------------------------------------------------------
(* Late runs *)

\* The sentinel, once set, stays, so that a late run sees it.
LateInv == LateRunIsNoOp /\ (late # {} => done)

LEMMA LateStep == BootTypeOK /\ LateInv /\ [BootNext \/ Tick]_bootVars => LateInv'
<1> SUFFICES ASSUME BootTypeOK, LateInv, [BootNext \/ Tick]_bootVars
             PROVE  LateInv'
  OBVIOUS
<1> USE DEF LateInv, LateRunIsNoOp
<1>1. ASSUME NEW r \in Runs, Start(r)
      PROVE  LateInv'
  BY <1>1 DEF Start, At, BootTypeOK
<1>2. ASSUME NEW r \in Runs, BootStep(r)
      PROVE  LateInv'
  <2>1. late' = late /\ (done => done')
    BY <1>2 DEF BootStep, ReadSentinel, TakeLock, MissLock, PollDone, GiveUp, Seed,
                SeedFails, Release
  <2>2. \A q \in Runs \ {r} : bpc'[q] = bpc[q]
    BY <1>2 DEF BootStep, ReadSentinel, TakeLock, MissLock, PollDone, GiveUp, Seed,
                SeedFails, Release, At, BootTypeOK
  <2>3. r \in late => bpc'[r] = "ok"
    BY <1>2 DEF BootStep, ReadSentinel, TakeLock, MissLock, PollDone, GiveUp, Seed,
                SeedFails, Release, At, BootTypeOK
  <2> QED
    BY <2>1, <2>2, <2>3 DEF BootTypeOK
<1>3. ASSUME NEW r \in Runs, Crash(r)
      PROVE  LateInv'
  BY <1>3 DEF Crash, BootTypeOK
<1>4. CASE Tick
  BY <1>4 DEF Tick
<1>5. CASE UNCHANGED bootVars
  BY <1>5 DEF bootVars
<1> QED
  BY <1>1, <1>2, <1>3, <1>4, <1>5 DEF BootNext

\* A run that starts after the configuration was seeded writes nothing, whatever
\* the other runs do meanwhile.
THEOREM LateRunsWriteNothing == BootSpec => []LateRunIsNoOp
<1>1. BootInit => LateInv
  BY DEF BootInit, LateInv, LateRunIsNoOp
<1>2. LateInv => LateRunIsNoOp
  BY DEF LateInv
<1> QED
  BY <1>1, <1>2, LateStep, BootTypeCorrect, PTL DEF BootSpec

-----------------------------------------------------------------------------
(* What was seeded stays *)

LEMMA SeedsStep == BootTypeOK /\ SeedsSurvive /\ [BootNext \/ Tick]_bootVars => SeedsSurvive'
<1> SUFFICES ASSUME BootTypeOK, SeedsSurvive, [BootNext \/ Tick]_bootVars
             PROVE  SeedsSurvive'
  OBVIOUS
<1>1. ASSUME NEW r \in Runs, Seed(r)
      PROVE  SeedsSurvive'
  <2>1. seeded' # {}
    BY <1>1 DEF Seed
  <2>2. ASSUME NEW q \in seeded', NEW f \in Fields, env'[q][f] # Missing
        PROVE  hash'[f] # Missing
    <3>1. hash'[f] = IF env[r][f] = Missing THEN hash[f] ELSE env[r][f]
      BY <1>1 DEF Seed, HashSeeded
    <3>2. env' = env /\ (q \in seeded \/ q = r)
      BY <1>1 DEF Seed
    <3> QED
      BY <2>2, <3>1, <3>2 DEF SeedsSurvive
  <2> QED
    BY <2>1, <2>2 DEF SeedsSurvive
<1>2. CASE UNCHANGED <<hash, done, env, seeded>>
  BY <1>2 DEF SeedsSurvive
<1>3. (\E r \in Runs : Seed(r)) \/ UNCHANGED <<hash, done, env, seeded>>
  BY DEF BootNext, BootStep, Start, ReadSentinel, TakeLock, MissLock, PollDone, GiveUp,
         SeedFails, Release, Crash, Tick, bootVars
<1> QED
  BY <1>1, <1>2, <1>3

\* However runs of the bootstrap overlap, crash or lose their lock, no field that
\* one of them has written is missing afterwards.
THEOREM NoSeedIsLost == BootSpec => []SeedsSurvive
<1>1. BootInit => SeedsSurvive
  BY DEF BootInit, SeedsSurvive
<1> QED
  BY <1>1, SeedsStep, BootTypeCorrect, PTL DEF BootSpec

-----------------------------------------------------------------------------
(* The lock *)

Early == {"idle", "check", "lock", "wait"}

\* As long as nobody kept the lock until it expired, the one run that writes is
\* the one whose lock it is, and what is left of the lock is what it has left.
LockInv ==
    /\ \A r \in Runs : bpc[r] \in Early => lease[r] = LockTTL
    /\ (\A s \in Runs : lease[s] > 0) =>
           \A r \in Runs : bpc[r] \in Holding =>
               /\ lock = lease[r]
               /\ \A q \in Runs : bpc[q] \in Holding => q = r

\* A step that lets nobody new write, and leaves the times alone.
LEMMA LockKept ==
  ASSUME BootTypeOK, LockInv, lock' = lock, lease' = lease,
         \A r \in Runs : /\ bpc'[r] \in Early => bpc[r] \in Early
                         /\ bpc'[r] \in Holding => bpc[r] \in Holding
  PROVE  LockInv'
  BY DEF LockInv

LEMMA LockTaken ==
  ASSUME BootTypeOK, LockInv, NEW r \in Runs, TakeLock(r)
  PROVE  LockInv'
<1>1. bpc' = [bpc EXCEPT ![r] = "seed"] /\ bpc[r] = "lock" /\ lock = 0
      /\ lock' = LockTTL /\ lease' = lease
  BY DEF TakeLock, At
<1>2. lease[r] = LockTTL
  BY <1>1 DEF LockInv, Early
<1>3. ASSUME NEW q \in Runs, bpc'[q] \in Early
      PROVE  lease'[q] = LockTTL
  BY <1>1, <1>3 DEF LockInv, Early, BootTypeOK
<1>4. ASSUME \A s \in Runs : lease'[s] > 0, NEW q \in Runs, bpc'[q] \in Holding
      PROVE  q = r
  <2>1. SUFFICES ASSUME q # r PROVE FALSE
    OBVIOUS
  <2>2. bpc[q] \in Holding
    BY <1>1, <1>4, <2>1 DEF BootTypeOK
  <2>3. lock = lease[q] /\ lease[q] > 0
    BY <1>1, <1>4, <2>2 DEF LockInv
  <2> QED
    BY <1>1, <2>3
<1> QED
  BY <1>1, <1>2, <1>3, <1>4 DEF LockInv

LEMMA LockGivenBack ==
  ASSUME BootTypeOK, LockInv, NEW r \in Runs, Release(r)
  PROVE  LockInv'
<1>1. bpc[r] \in Holding /\ lease' = lease
  BY DEF Release, At, Holding
<1>2. bpc'[r] \notin Holding \cup Early /\ \A q \in Runs \ {r} : bpc'[q] = bpc[q]
  BY DEF Release, At, Holding, Early, BootTypeOK
<1>3. ASSUME \A s \in Runs : lease'[s] > 0, NEW q \in Runs
      PROVE  bpc'[q] \notin Holding
  BY <1>1, <1>2, <1>3 DEF LockInv
<1>4. ASSUME NEW q \in Runs, bpc'[q] \in Early
      PROVE  lease'[q] = LockTTL
  BY <1>1, <1>2, <1>4 DEF LockInv
<1> QED
  BY <1>3, <1>4 DEF LockInv

LEMMA LockRunsDown ==
  ASSUME BootTypeOK, LockInv, Tick
  PROVE  LockInv'
<1>1. bpc' = bpc /\ lock' = Down(lock)
  BY DEF Tick
<1>2. \A r \in Runs : lease'[r] = IF bpc[r] \in Holding THEN Down(lease[r]) ELSE lease[r]
  BY DEF Tick
<1>3. Early \cap Holding = {}
  BY DEF Early, Holding
<1>4. ASSUME NEW r \in Runs, bpc'[r] \in Early
      PROVE  lease'[r] = LockTTL
  BY <1>1, <1>2, <1>3, <1>4 DEF LockInv
<1>5. ASSUME NEW r \in Runs, lease'[r] > 0
      PROVE  lease[r] > 0
  BY <1>2, <1>5, LockAssumption DEF Down, BootTypeOK
<1>6. ASSUME \A s \in Runs : lease'[s] > 0, NEW r \in Runs, bpc'[r] \in Holding
      PROVE  /\ lock' = lease'[r]
             /\ \A q \in Runs : bpc'[q] \in Holding => q = r
  <2>1. lock = lease[r] /\ \A q \in Runs : bpc[q] \in Holding => q = r
    BY <1>1, <1>5, <1>6 DEF LockInv
  <2> QED
    BY <1>1, <1>2, <1>6, <2>1
<1> QED
  BY <1>4, <1>6 DEF LockInv

LEMMA LockStep == BootTypeOK /\ LockInv /\ [BootNext \/ Tick]_bootVars => LockInv'
<1> SUFFICES ASSUME BootTypeOK, LockInv, [BootNext \/ Tick]_bootVars
             PROVE  LockInv'
  OBVIOUS
<1>1. ASSUME NEW r \in Runs, \/ Start(r) \/ ReadSentinel(r) \/ MissLock(r) \/ PollDone(r)
                             \/ GiveUp(r) \/ Seed(r) \/ SeedFails(r)
      PROVE  LockInv'
  <2>1. lock' = lock /\ lease' = lease
    BY <1>1 DEF Start, ReadSentinel, MissLock, PollDone, GiveUp, Seed, SeedFails
  <2>2. \A q \in Runs \ {r} : bpc'[q] = bpc[q]
    BY <1>1 DEF Start, ReadSentinel, MissLock, PollDone, GiveUp, Seed, SeedFails, At, BootTypeOK
  <2>3. /\ bpc'[r] \in Early => bpc[r] \in Early
        /\ bpc'[r] \in Holding => bpc[r] \in Holding
    BY <1>1 DEF Start, ReadSentinel, MissLock, PollDone, GiveUp, Seed, SeedFails, At,
                BootTypeOK, Early, Holding
  <2> QED
    BY <2>1, <2>2, <2>3, LockKept
<1>2. ASSUME NEW r \in Runs, Crash(r)
      PROVE  LockInv'
  BY <1>2, LockKept DEF Crash, BootTypeOK, Early, Holding
<1>3. CASE UNCHANGED bootVars
  BY <1>3, LockKept DEF bootVars
<1> QED
  BY <1>1, <1>2, <1>3, LockTaken, LockGivenBack, LockRunsDown DEF BootNext, BootStep

\* Two runs write the configuration at a time only if some run held on to the
\* lock for its whole time to live.
THEOREM SeedersExcludeEachOther == BootSpec => []SeedersOverlapAfterExpiry
<1>1. BootInit => LockInv
  BY DEF BootInit, LockInv, Holding
<1>2. BootTypeOK /\ LockInv => SeedersOverlapAfterExpiry
  <2> SUFFICES ASSUME BootTypeOK, LockInv, NEW q \in Runs, NEW r \in Runs,
                      q # r, bpc[q] = "seed", bpc[r] = "seed",
                      \A s \in Runs : lease[s] # 0
               PROVE  FALSE
    BY DEF SeedersOverlapAfterExpiry
  <2>1. ASSUME NEW s \in Runs
        PROVE  lease[s] > 0
    <3>1. lease[s] \in 0..LockTTL /\ LockTTL \in Nat
      BY LockAssumption DEF BootTypeOK
    <3>2. lease[s] # 0
      OBVIOUS
    <3> QED
      BY <3>1, <3>2
  <2> QED
    BY <2>1 DEF LockInv, Holding
<1> QED
  BY <1>1, <1>2, LockStep, BootTypeCorrect, PTL DEF BootSpec

-----------------------------------------------------------------------------
(* Waiting for another run *)

\* Run q can be blamed by one that has p polls left.
Blamed(q, p) ==
    \/ bpc[q] \in {"crashed", "failed"}
    \/ bpc[q] \in Holding /\ lease[q] + WaitLimit <= LockTTL + p

\* Somebody is behind a lock that is held.  A waiting run's patience and the time
\* the one it waits for has left run down together.
WaitInv ==
    /\ GivingUpHasACause
    /\ \A q \in Runs : bpc[q] \in {"release", "ok"} => done
    /\ lock > 0 => done \/ \E q \in Runs : bpc[q] \in Holding \cup {"crashed", "failed"}
    /\ \A r \in Runs : bpc[r] = "wait" =>
           done \/ \E q \in Runs \ {r} : Blamed(q, patience[r])

\* A step of one run that is not the start or the end of its waiting.
LEMMA WaitKept ==
  ASSUME BootTypeOK, WaitInv, NEW r \in Runs,
         done => done', lease' = lease, patience' = patience,
         \A q \in Runs \ {r} : bpc'[q] = bpc[q],
         bpc[r] \in Holding => bpc'[r] \in Holding \cup {"crashed", "failed"} \/ done',
         bpc[r] \notin {"crashed", "failed", "timed out", "ok"},
         bpc'[r] \notin {"wait", "timed out"},
         bpc'[r] \in {"release", "ok"} => done',
         lock' > 0 => lock > 0 \/ bpc'[r] \in Holding
  PROVE  WaitInv'
<1>1. ASSUME NEW q \in Runs, bpc[q] \in {"crashed", "failed"}
      PROVE  bpc'[q] = bpc[q]
  BY <1>1
<1>2. ASSUME NEW q \in Runs, bpc'[q] \in {"wait", "timed out"}
      PROVE  q # r /\ bpc[q] = bpc'[q]
  BY <1>2
<1>3. GivingUpHasACause'
  BY <1>1, <1>2 DEF GivingUpHasACause, WaitInv
<1>4. \A q \in Runs : bpc'[q] \in {"release", "ok"} => done'
  BY DEF WaitInv
<1>5. lock' > 0 => done' \/ \E q \in Runs : bpc'[q] \in Holding \cup {"crashed", "failed"}
  <2>1. CASE lock > 0
    BY <1>1, <2>1 DEF WaitInv
  <2> QED
    BY <2>1
<1>6. ASSUME NEW s \in Runs, bpc'[s] = "wait", ~done'
      PROVE  \E q \in Runs \ {s} : Blamed(q, patience[s])'
  <2>1. bpc[s] = "wait" /\ ~done
    BY <1>2, <1>6
  <2>2. PICK q \in Runs \ {s} : Blamed(q, patience[s])
    BY <2>1 DEF WaitInv
  <2>3. Blamed(q, patience[s])'
    <3>1. CASE bpc[q] \in {"crashed", "failed"}
      BY <1>1, <3>1 DEF Blamed
    <3>2. CASE bpc[q] \in Holding /\ lease[q] + WaitLimit <= LockTTL + patience[s]
      BY <1>6, <3>2 DEF Blamed
    <3> QED
      BY <2>2, <3>1, <3>2 DEF Blamed
  <2> QED
    BY <2>3
<1> QED
  BY <1>3, <1>4, <1>5, <1>6 DEF WaitInv

\* Whoever waits has missed a lock that somebody else took at most LockTTL ago.
LEMMA WaitBegins ==
  ASSUME BootTypeOK, WaitInv, NEW r \in Runs, MissLock(r)
  PROVE  WaitInv'
<1>1. /\ bpc[r] = "lock" /\ bpc' = [bpc EXCEPT ![r] = "wait"] /\ lock > 0
      /\ patience' = [patience EXCEPT ![r] = WaitLimit]
  BY DEF MissLock, At
<1>2. UNCHANGED <<done, lock, lease>>
  BY DEF MissLock
<1>3. \A q \in Runs \ {r} : bpc'[q] = bpc[q] /\ patience'[q] = patience[q]
  BY <1>1 DEF BootTypeOK
<1>4. bpc'[r] = "wait" /\ patience'[r] = WaitLimit
  BY <1>1 DEF BootTypeOK
<1>5. GivingUpHasACause'
  BY <1>1, <1>2, <1>3, <1>4 DEF GivingUpHasACause, WaitInv
<1>6. \A q \in Runs : bpc'[q] \in {"release", "ok"} => done'
  BY <1>2, <1>3, <1>4 DEF WaitInv
<1>7. done \/ \E q \in Runs \ {r} : bpc[q] \in Holding \cup {"crashed", "failed"}
  BY <1>1 DEF WaitInv, Holding
<1>8. ASSUME NEW s \in Runs, bpc'[s] = "wait", ~done'
      PROVE  \E q \in Runs \ {s} : Blamed(q, patience[s])'
  <2>1. CASE s = r
    <3>1. PICK q \in Runs \ {r} : bpc[q] \in Holding \cup {"crashed", "failed"}
      BY <1>2, <1>7, <1>8
    <3>2. lease[q] <= LockTTL /\ lease[q] \in Nat
      BY LockAssumption DEF BootTypeOK
    <3>3. Blamed(q, patience[s])'
      BY <1>2, <1>3, <1>4, <2>1, <3>1, <3>2, LockAssumption DEF Blamed
    <3> QED
      BY <2>1, <3>3
  <2>2. CASE s # r
    <3>1. PICK q \in Runs \ {s} : Blamed(q, patience[s])
      BY <1>2, <1>3, <1>8, <2>2 DEF WaitInv
    <3>2. q # r
      BY <1>1, <3>1 DEF Blamed, Holding
    <3>3. Blamed(q, patience[s])'
      BY <1>2, <1>3, <2>2, <3>1, <3>2 DEF Blamed
    <3> QED
      BY <3>3
  <2> QED
    BY <2>1, <2>2
<1> QED
  BY <1>1, <1>2, <1>5, <1>6, <1>3, <1>7, <1>8 DEF WaitInv

LEMMA WaitEnds ==
  ASSUME BootTypeOK, WaitInv, NEW r \in Runs, GiveUp(r)
  PROVE  WaitInv'
<1>1. /\ ~done /\ patience[r] = 0 /\ bpc[r] = "wait"
      /\ bpc' = [bpc EXCEPT ![r] = "timed out"]
  BY DEF GiveUp, At
<1>2. UNCHANGED <<done, lock, patience, lease>>
  BY DEF GiveUp
<1>3. bpc'[r] = "timed out" /\ \A q \in Runs \ {r} : bpc'[q] = bpc[q]
  BY <1>1 DEF BootTypeOK
<1>4. PICK q \in Runs \ {r} : Blamed(q, 0)
  BY <1>1 DEF WaitInv
<1>5. bpc'[q] \in {"crashed", "failed"} \/ lease'[q] + WaitLimit <= LockTTL
  <2>1. CASE bpc[q] \in {"crashed", "failed"}
    BY <1>3, <2>1
  <2>2. CASE lease[q] + WaitLimit <= LockTTL + 0
    BY <1>2, <2>2, LockAssumption
  <2> QED
    BY <1>4, <2>1, <2>2 DEF Blamed
<1>6. GivingUpHasACause'
  <2> SUFFICES ASSUME NEW s \in Runs, bpc'[s] = "timed out"
               PROVE  \E t \in Runs \ {s} : \/ bpc'[t] \in {"crashed", "failed"}
                                            \/ lease'[t] + WaitLimit <= LockTTL
    BY DEF GivingUpHasACause
  <2>1. CASE s = r
    BY <1>5, <2>1
  <2>2. CASE s # r
    <3>1. PICK t \in Runs \ {s} : \/ bpc[t] \in {"crashed", "failed"}
                                  \/ lease[t] + WaitLimit <= LockTTL
      BY <1>3, <2>2 DEF WaitInv, GivingUpHasACause
    <3>2. bpc'[t] \in {"crashed", "failed"} \/ lease'[t] + WaitLimit <= LockTTL
      BY <1>1, <1>2, <1>3, <3>1
    <3> QED
      BY <3>2
  <2> QED
    BY <2>1, <2>2
<1>7. \A s \in Runs : bpc'[s] \in {"release", "ok"} => done'
  BY <1>2, <1>3 DEF WaitInv
<1>8. lock' > 0 => done' \/ \E s \in Runs : bpc'[s] \in Holding \cup {"crashed", "failed"}
  BY <1>1, <1>2, <1>3 DEF WaitInv, Holding
<1>9. ASSUME NEW s \in Runs, bpc'[s] = "wait"
      PROVE  done' \/ \E t \in Runs \ {s} : Blamed(t, patience[s])'
  <2>1. PICK t \in Runs \ {s} : Blamed(t, patience[s])
    BY <1>1, <1>3, <1>9 DEF WaitInv
  <2>2. t # r
    BY <1>1, <2>1 DEF Blamed, Holding
  <2>3. Blamed(t, patience[s])'
    BY <1>2, <1>3, <2>1, <2>2 DEF Blamed
  <2> QED
    BY <2>3
<1> QED
  BY <1>6, <1>7, <1>8, <1>9 DEF WaitInv

\* A run that leaves the waiting room, because the others are done or by a crash.
LEMMA WaitLeft ==
  ASSUME BootTypeOK, WaitInv, NEW r \in Runs, PollDone(r) \/ Crash(r)
  PROVE  WaitInv'
<1>1. UNCHANGED <<done, lock, lease>>
  BY DEF PollDone, Crash
<1>2. \A q \in Runs \ {r} : bpc'[q] = bpc[q] /\ patience'[q] = patience[q]
  BY DEF PollDone, Crash, At, BootTypeOK
<1>3. bpc'[r] = "crashed" \/ (bpc'[r] = "ok" /\ bpc[r] = "wait" /\ done)
  BY DEF PollDone, Crash, At, BootTypeOK
<1>4. bpc[r] \notin {"crashed", "failed", "timed out"}
  BY DEF PollDone, Crash, At, Ended
<1>5. GivingUpHasACause'
  BY <1>1, <1>2, <1>3, <1>4 DEF GivingUpHasACause, WaitInv
<1>6. \A s \in Runs : bpc'[s] \in {"release", "ok"} => done'
  BY <1>1, <1>2, <1>3 DEF WaitInv
<1>7. lock' > 0 => done' \/ \E s \in Runs : bpc'[s] \in Holding \cup {"crashed", "failed"}
  BY <1>1, <1>2, <1>3 DEF WaitInv
<1>8. ASSUME NEW s \in Runs, bpc'[s] = "wait", ~done'
      PROVE  \E t \in Runs \ {s} : Blamed(t, patience[s])'
  <2>1. s # r /\ bpc'[r] = "crashed"
    BY <1>1, <1>3, <1>8
  <2>2. PICK t \in Runs \ {s} : Blamed(t, patience[s])
    BY <1>1, <1>2, <1>8, <2>1 DEF WaitInv
  <2>3. Blamed(t, patience[s])'
    BY <1>1, <1>2, <2>1, <2>2 DEF Blamed
  <2> QED
    BY <2>3
<1> QED
  BY <1>5, <1>6, <1>7, <1>8 DEF WaitInv

LEMMA WaitGoesOn ==
  ASSUME BootTypeOK, WaitInv, Tick
  PROVE  WaitInv'
<1>1. bpc' = bpc /\ done' = done /\ lock' = Down(lock)
  BY DEF Tick
<1>2. \A q \in Runs : lease'[q] = IF bpc[q] \in Holding THEN Down(lease[q]) ELSE lease[q]
  BY DEF Tick
<1>3. \A q \in Runs : lease[q] \in 0..LockTTL /\ lease'[q] <= lease[q] /\ lease'[q] \in Nat
  BY <1>2, LockAssumption DEF BootTypeOK, Down
<1>3a. \A q \in Runs : lease[q] + WaitLimit <= LockTTL => lease'[q] + WaitLimit <= LockTTL
  BY <1>3, LockAssumption
<1>4. GivingUpHasACause'
  <2> SUFFICES ASSUME NEW s \in Runs, bpc'[s] = "timed out"
               PROVE  \E t \in Runs \ {s} : \/ bpc'[t] \in {"crashed", "failed"}
                                            \/ lease'[t] + WaitLimit <= LockTTL
    BY DEF GivingUpHasACause
  <2>1. PICK t \in Runs \ {s} : \/ bpc[t] \in {"crashed", "failed"}
                                \/ lease[t] + WaitLimit <= LockTTL
    BY <1>1 DEF WaitInv, GivingUpHasACause
  <2>2. CASE bpc[t] \in {"crashed", "failed"}
    BY <1>1, <2>2
  <2>3. CASE lease[t] + WaitLimit <= LockTTL
    BY <1>3a, <2>1, <2>3
  <2> QED
    BY <2>1, <2>2, <2>3
<1>5. lock' > 0 => lock > 0
  BY <1>1, LockAssumption DEF Down, BootTypeOK
<1>6. ASSUME NEW s \in Runs, bpc'[s] = "wait", ~done'
      PROVE  \E t \in Runs \ {s} : Blamed(t, patience[s])'
  <2>1. PICK t \in Runs \ {s} : Blamed(t, patience[s])
    BY <1>1, <1>6 DEF WaitInv
  <2>2. patience[s] \in 0..WaitLimit /\ patience'[s] = Down(patience[s])
    BY <1>1, <1>6 DEF BootTypeOK, Tick
  <2>3. CASE bpc[t] \in {"crashed", "failed"}
    BY <1>1, <2>3 DEF Blamed
  <2>4. CASE bpc[t] \in Holding /\ lease[t] + WaitLimit <= LockTTL + patience[s]
    <3>1. lease'[t] = Down(lease[t]) /\ lease[t] \in 0..LockTTL
      BY <1>2, <1>3, <2>4
    <3>2. lease'[t] + WaitLimit <= LockTTL + patience'[s]
      BY <2>2, <2>4, <3>1, LockAssumption DEF Down
    <3> QED
      BY <1>1, <2>4, <3>2 DEF Blamed
  <2> QED
    BY <2>1, <2>3, <2>4 DEF Blamed
<1> QED
  BY <1>1, <1>4, <1>5, <1>6 DEF WaitInv

LEMMA WaitStep == BootTypeOK /\ WaitInv /\ [BootNext \/ Tick]_bootVars => WaitInv'
<1> SUFFICES ASSUME BootTypeOK, WaitInv, [BootNext \/ Tick]_bootVars
             PROVE  WaitInv'
  OBVIOUS
<1>1. ASSUME NEW r \in Runs,
             Start(r) \/ ReadSentinel(r) \/ TakeLock(r) \/ Seed(r) \/ SeedFails(r) \/ Release(r)
      PROVE  WaitInv'
  <2>1. (done => done') /\ lease' = lease /\ patience' = patience
    BY <1>1 DEF Start, ReadSentinel, TakeLock, Seed, SeedFails, Release
  <2>2. \A q \in Runs \ {r} : bpc'[q] = bpc[q]
    BY <1>1 DEF Start, ReadSentinel, TakeLock, Seed, SeedFails, Release, At, BootTypeOK
  <2>3. /\ bpc[r] \notin {"crashed", "failed", "timed out", "ok"}
        /\ bpc'[r] \notin {"wait", "timed out"}
    BY <1>1 DEF Start, ReadSentinel, TakeLock, Seed, SeedFails, Release, At, BootTypeOK
  <2>4. bpc'[r] \in {"release", "ok"} => done'
    BY <1>1 DEF Start, ReadSentinel, TakeLock, Seed, SeedFails, Release, At, BootTypeOK, WaitInv
  <2>5. bpc[r] \in Holding => bpc'[r] \in Holding \cup {"crashed", "failed"} \/ done'
    BY <1>1 DEF Start, ReadSentinel, TakeLock, Seed, SeedFails, Release, At, BootTypeOK,
                WaitInv, Holding
  <2>6. lock' > 0 => lock > 0 \/ bpc'[r] \in Holding
    BY <1>1 DEF Start, ReadSentinel, TakeLock, Seed, SeedFails, Release, At, BootTypeOK, Holding
  <2> QED
    BY <2>1, <2>2, <2>3, <2>4, <2>5, <2>6, WaitKept
<1>2. CASE UNCHANGED bootVars
  BY <1>2 DEF bootVars, WaitInv, GivingUpHasACause, Blamed
<1> QED
  BY <1>1, <1>2, WaitBegins, WaitEnds, WaitLeft, WaitGoesOn DEF BootNext, BootStep

\* A run that times out had reason to: the run it waited for crashed, failed, or
\* kept the lock longer than a waiter is patient.
THEOREM TimeOutsHaveACause == BootSpec => []GivingUpHasACause
<1>1. BootInit => WaitInv
  BY LockAssumption DEF BootInit, WaitInv, GivingUpHasACause
<1>2. WaitInv => GivingUpHasACause
  BY DEF WaitInv
<1> QED
  BY <1>1, <1>2, WaitStep, BootTypeCorrect, PTL DEF BootSpec

-----------------------------------------------------------------------------
(* The policy *)

\* A minimum that is still absent was absent when the api last started, so that
\* what the api falls back to is the shipped default, which the dashboard shows.
\* Until the minimum is changed, an api that is up falls back to what is in Redis.
PolicyInv ==
    /\ hash \in [Fields -> Values]
    /\ env \in [Runs -> Envs]
    /\ scene \in Scenes
    /\ api \in [up : BOOLEAN, min : Legal, refill : BOOLEAN, mult : Legal]
    /\ changed \in BOOLEAN
    /\ hash["min"] = Absent => api.min = Default
    /\ api.up /\ ~changed => api.min = StartupMin(hash["min"])

\* A field that has a value keeps one: nothing deletes a field.
LEMMA PolicyKept ==
    ASSUME PolicyInv, UNCHANGED <<hash, env, api, scene>>, NoteChange \/ UNCHANGED changed
    PROVE  PolicyInv'
BY DEF PolicyInv, NoteChange

LEMMA SeededKeeps ==
    ASSUME PolicyInv, NEW r \in Runs, hash' = HashSeeded(r), NoteChange,
           UNCHANGED <<env, api, scene>>
    PROVE  PolicyInv'
<1>1. env[r] \in [Fields -> Values]
  BY EnvsAssumption DEF PolicyInv
<1>2. \A f \in Fields : hash'[f] = IF env[r][f] = Missing THEN hash[f] ELSE env[r][f]
  BY DEF HashSeeded
<1>3. hash' \in [Fields -> Values]
  BY <1>1 DEF HashSeeded, PolicyInv
<1>4. hash'["min"] = Absent => hash["min"] = Absent
  BY <1>2, FieldsAssumption
<1>5. QED
  BY <1>3, <1>4 DEF PolicyInv, NoteChange

LEMMA BootstrapKeeps == PolicyInv /\ Bootstrap => PolicyInv'
<1> SUFFICES ASSUME PolicyInv, Bootstrap PROVE PolicyInv'
  OBVIOUS
<1>1. PICK r \in Runs : Start(r) \/ BootStep(r) \/ Crash(r)
  BY ScenesAssumption DEF Bootstrap, PolicyInv
<1>2. UNCHANGED <<api, scene>> /\ NoteChange
  BY DEF Bootstrap
<1>3. CASE Seed(r)
  BY <1>2, <1>3, SeededKeeps DEF Seed
<1>4. CASE Start(r) \/ Crash(r)
  BY <1>2, <1>4, PolicyKept DEF Start, Crash
<1>5. CASE \/ ReadSentinel(r) \/ TakeLock(r) \/ MissLock(r) \/ PollDone(r)
           \/ GiveUp(r) \/ SeedFails(r) \/ Release(r)
  BY <1>2, <1>5, PolicyKept
     DEF ReadSentinel, TakeLock, MissLock, PollDone, GiveUp, SeedFails, Release
<1>6. QED
  BY <1>1, <1>3, <1>4, <1>5 DEF BootStep

LEMMA StartApiKeeps == PolicyInv /\ StartApi => PolicyInv'
<1> SUFFICES ASSUME PolicyInv, StartApi PROVE PolicyInv'
  OBVIOUS
<1>1. PICK refill \in BOOLEAN, mult \in Legal :
          api' = [up |-> TRUE, min |-> StartupMin(hash["min"]), refill |-> refill, mult |-> mult]
  <2>1. PICK environ : LET parsed == ParseRefillConfig(environ)
                       IN  api' = [up |-> TRUE, min |-> StartupMin(hash["min"]),
                                   refill |-> parsed.refill, mult |-> parsed.mult]
    BY DEF StartApi
  <2>2. ParseRefillConfig(environ).refill \in BOOLEAN /\ ParseRefillConfig(environ).mult \in Legal
    BY DEF ParseRefillConfig, Bps, Legal
  <2>3. QED
    BY <2>1, <2>2
<1>2. StartupMin(hash["min"]) \in Legal
  BY DEF StartupMin, Legal
<1>3. hash["min"] = Absent => StartupMin(hash["min"]) = Default
  BY DEF StartupMin, Legal, Absent, Default, Chosen
<1>4. UNCHANGED <<hash, env, scene>> /\ changed' = FALSE
  BY DEF StartApi, bootVars
<1>5. QED
  BY <1>1, <1>2, <1>3, <1>4 DEF PolicyInv

LEMMA SavePolicyKeeps == PolicyInv /\ SavePolicy => PolicyInv'
<1> SUFFICES ASSUME PolicyInv, SavePolicy PROVE PolicyInv'
  OBVIOUS
<1>1. PICK mult \in Legal : hash' = [hash EXCEPT !["min"] = Chosen, !["mult"] = mult]
  BY DEF SavePolicy
<1>2. Chosen \in Values /\ mult \in Values
  BY FieldsAssumption DEF FieldValues, Legal
<1>3. hash' \in [Fields -> Values] /\ hash'["min"] = Chosen
  BY <1>1, <1>2, FieldsAssumption DEF PolicyInv
<1>4. UNCHANGED <<env, api, scene>> /\ NoteChange
  BY DEF SavePolicy
<1>5. QED
  BY <1>3, <1>4 DEF PolicyInv, NoteChange, Absent, Chosen

LEMMA PolicyStarts == Init => PolicyInv
<1> SUFFICES ASSUME Init PROVE PolicyInv
  OBVIOUS
<1>1. scene \in Scenes /\ env \in [Runs -> Envs]
  BY ScenesAssumption DEF Init
<1>2. hash \in [Fields -> Values]
  BY EnvsAssumption DEF Init, BootInit
<1>3. api \in [up : BOOLEAN, min : Legal, refill : BOOLEAN, mult : Legal] /\ api.min = Default
      /\ ~api.up /\ changed = FALSE
  BY DEF Init, Legal
<1>4. QED
  BY <1>1, <1>2, <1>3 DEF PolicyInv

LEMMA PolicyStep == PolicyInv /\ [Next]_vars => PolicyInv'
<1> SUFFICES ASSUME PolicyInv, [Next]_vars PROVE PolicyInv'
  OBVIOUS
<1>1. CASE Time
  BY <1>1, PolicyKept DEF Time, Tick, stationVars
<1>2. CASE RunDeployer \/ RestOfDeployer
  BY <1>2, PolicyKept DEF RunDeployer, RestOfDeployer, bootVars, stationVars
<1>3. CASE StopApi
  <2>1. UNCHANGED <<hash, env, scene>> /\ api' = [api EXCEPT !.up = FALSE] /\ changed' = FALSE
    BY <1>3 DEF StopApi, bootVars
  <2>2. QED
    BY <2>1 DEF PolicyInv
<1>4. CASE UNCHANGED vars
  BY <1>4, PolicyKept DEF vars, bootVars, stationVars
<1>5. QED
  BY <1>1, <1>2, <1>3, <1>4, BootstrapKeeps, StartApiKeeps, SavePolicyKeeps DEF Next

\* Whatever is saved, seeded again or restarted, and in any order: the policy the
\* dashboard's GET shows is the one resolveLiveRefillPolicy gives the next refill; when
\* Redis does not answer that call, the minimum is so if nobody has changed it since
\* the api started, and the multiplier is that of the api's environment.
THEOREM ShownPolicyIsUsed == Spec => []PolicyShownIsUsed
<1>1. PolicyInv => PolicyShownIsUsed
  <2> SUFFICES ASSUME PolicyInv PROVE PolicyShownIsUsed
    OBVIOUS
  <2>1. hash["min"] \in FieldValues
    BY FieldsAssumption DEF PolicyInv
  <2>2. QED
    BY <2>1 DEF PolicyInv, PolicyShownIsUsed, NextRefill, Shown, Used, Refused, Bps,
                StartupMin, FieldValues, Legal, Absent, Bad, OutOfRange, Default, Chosen
<1>2. QED
  BY <1>1, PolicyStarts, PolicyStep, PTL DEF Spec

-----------------------------------------------------------------------------
(* The deployer: what its steps rely on *)

Usable(a) == a # None /\ chain.code[a] = "paymaster" /\ a \in chain.ownTreasury

\* A run starts with the paymaster.  A transaction that is waited for is one of
\* the job's; treasury calls are for the
\* paymaster just deployed, and what is written of it is usable.
JobInv ==
    /\ dep.pc = "off" => dep.job = "paymaster"
    /\ \A t \in chain.pool : t.kind = "treasury" => t.to \in Addrs
    /\ dep.pc \in {"deploying", "treasury"} => dep.awaited \in Tx
    /\ dep.pc = "deploying" => dep.awaited.kind = dep.job
    /\ dep.pc = "treasury" =>
           /\ dep.job = "paymaster" /\ dep.awaited.kind = "treasury"
           /\ dep.target \in Addrs /\ dep.awaited.to = dep.target
           /\ chain.code[dep.target] = "paymaster"
           /\ dep.receipt # "none" => dep.target \in chain.ownTreasury
    /\ dep.pc = "write" /\ dep.job = "paymaster" => Usable(dep.target)

\* Unless the nonce was moved back, the transactions in the pool have the nonces
\* that come next, no two the same, and the addresses they deploy to are free, so
\* that a receipt stands for the contract.
TipInv ==
    ~hist.rolledBack =>
        /\ \A t \in chain.pool : /\ chain.nonce <= t.nonce
                                 /\ t.nonce < chain.nonce + Cardinality(chain.pool)
        /\ \A s, t \in chain.pool : s.nonce = t.nonce => s = t
        /\ \A a \in Addrs : a >= chain.nonce => chain.code[a] = "none"
        /\ dep.pc = "deploying" /\ dep.receipt # "none" =>
               chain.code[dep.awaited.nonce] = dep.job
        /\ dep.pc = "write" /\ dep.job = "burner" =>
               dep.target \in Addrs /\ chain.code[dep.target] = "burner"

\* As long as nothing failed on this chain, the paymaster in the file is usable,
\* or nothing was deployed, or the run is about to replace the file; the gas
\* burner and the verification come after that.
HealInv ==
    /\ hist.healed => ~hist.faulty /\ Usable(file["paymaster"])
    /\ ~hist.faulty =>
           \/ Usable(file["paymaster"])
           \/ chain.pool = {} /\ \A a \in Addrs : chain.code[a] = "none"
           \/ dep.job = "paymaster" /\ dep.pc \in {"deploying", "treasury", "write"}
    /\ ~hist.faulty /\ (dep.job = "burner" \/ dep.pc = "verify") => Usable(file["paymaster"])

\* A factory is there before the transactions that need it are sent, so that each
\* that is mined deploys its contract.
ScriptInv ==
    /\ 1 \in chain.factories
    /\ dep.pc = "script" =>
           /\ \A k \in Fixed : k <= Taken("etch") + 1 => k \in chain.factories
           /\ \A i \in dep.arrived : i <= Taken("send")
           /\ \A i \in Fixed : i <= dep.mined => i \in chain.fixed
    /\ dep.pc = "nonces" => mode = "skip"
    /\ ScriptDoneMeansDeployed

DeployInv ==
    /\ DeployerTypeOK /\ IsFiniteSet(chain.pool)
    /\ JobInv /\ TipInv /\ FilesNameUsableContracts /\ HealInv /\ ScriptInv

\* The sends and the etchings of the script alternate.
LEMMA StepsOfScript ==
  \A n \in 0..5 :
      /\ Cardinality({i \in 1..n : Script[i] = "send"}) = (n + 1) \div 2
      /\ Cardinality({i \in 1..n : Script[i] = "etch"}) = n \div 2
<1> DEFINE Of(n, what) == Cardinality({i \in 1..n : Script[i] = what})
<1>1. /\ Script[1] = "send" /\ Script[2] = "etch" /\ Script[3] = "send"
      /\ Script[4] = "etch" /\ Script[5] = "send"
  BY DEF Script
<1>2. /\ Cardinality({}) = 0
      /\ Cardinality({1}) = 1 /\ Cardinality({2}) = 1
      /\ Cardinality({1, 3}) = 2 /\ Cardinality({2, 4}) = 2
      /\ Cardinality({1, 3, 5}) = 3
  <2>1. Cardinality({}) = 0
    BY FS_EmptySet
  <2>2. /\ Cardinality({1}) = 1 /\ IsFiniteSet({1})
        /\ Cardinality({2}) = 1 /\ IsFiniteSet({2})
    BY FS_Singleton
  <2>3. {1} \cup {3} = {1, 3} /\ {2} \cup {4} = {2, 4} /\ {1, 3} \cup {5} = {1, 3, 5}
    OBVIOUS
  <2>4. IsFiniteSet({1} \cup {3}) /\ Cardinality({1} \cup {3}) = 1 + 1
    <3>1. 3 \notin {1}
      OBVIOUS
    <3> QED
      BY <2>2, <3>1, FS_AddElement
  <2>5. Cardinality({2} \cup {4}) = 1 + 1
    <3>1. 4 \notin {2}
      OBVIOUS
    <3> QED
      BY <2>2, <3>1, FS_AddElement
  <2>6. Cardinality({1, 3} \cup {5}) = 1 + 1 + 1
    <3>1. 5 \notin {1, 3} /\ IsFiniteSet({1, 3}) /\ Cardinality({1, 3}) = 1 + 1
      BY <2>3, <2>4
    <3> QED
      BY <3>1, FS_AddElement
  <2>7. 1 + 1 = 2 /\ 1 + 1 + 1 = 3
    OBVIOUS
  <2> QED
    BY <2>1, <2>2, <2>3, <2>4, <2>5, <2>6, <2>7, Zenon
<1>3. Of(0, "send") = 0 /\ Of(0, "etch") = 0
  <2>1. {i \in 1..0 : Script[i] = "send"} = {} /\ {i \in 1..0 : Script[i] = "etch"} = {}
    OBVIOUS
  <2> QED
    BY <1>2, <2>1
<1>4. Of(1, "send") = 1 /\ Of(1, "etch") = 0
  <2>1. {i \in 1..1 : Script[i] = "send"} = {1} /\ {i \in 1..1 : Script[i] = "etch"} = {}
    BY <1>1
  <2> QED
    BY <1>2, <2>1
<1>5. Of(2, "send") = 1 /\ Of(2, "etch") = 1
  <2>1. {i \in 1..2 : Script[i] = "send"} = {1} /\ {i \in 1..2 : Script[i] = "etch"} = {2}
    BY <1>1
  <2> QED
    BY <1>2, <2>1
<1>6. Of(3, "send") = 2 /\ Of(3, "etch") = 1
  <2>1. {i \in 1..3 : Script[i] = "send"} = {1, 3} /\ {i \in 1..3 : Script[i] = "etch"} = {2}
    BY <1>1
  <2> QED
    BY <1>2, <2>1
<1>7. Of(4, "send") = 2 /\ Of(4, "etch") = 2
  <2>1. {i \in 1..4 : Script[i] = "send"} = {1, 3} /\ {i \in 1..4 : Script[i] = "etch"} = {2, 4}
    BY <1>1
  <2> QED
    BY <1>2, <2>1
<1>8. Of(5, "send") = 3 /\ Of(5, "etch") = 2
  <2>1. {i \in 1..5 : Script[i] = "send"} = {1, 3, 5} /\ {i \in 1..5 : Script[i] = "etch"} = {2, 4}
    BY <1>1
  <2> QED
    BY <1>2, <2>1
<1> HIDE DEF Of
<1>9. ASSUME NEW n \in 0..5
      PROVE  Of(n, "send") = (n + 1) \div 2 /\ Of(n, "etch") = n \div 2
  <2>1. n = 0 \/ n = 1 \/ n = 2 \/ n = 3 \/ n = 4 \/ n = 5
    OBVIOUS
  <2> QED
    BY <1>3, <1>4, <1>5, <1>6, <1>7, <1>8, <2>1
<1> QED
  BY <1>9 DEF Of

LEMMA TakenIs ==
  ASSUME dep.script \in 0..5
  PROVE  /\ Taken("send") = (dep.script + 1) \div 2
         /\ Taken("etch") = dep.script \div 2
BY StepsOfScript DEF Taken

LEMMA DeployStarts == Init => DeployInv
<1> SUFFICES ASSUME Init PROVE DeployInv
  OBVIOUS
<1> USE DeployerBoundsAssumption
<1>1. /\ mode \in Modes /\ lateNonce = None
      /\ file["paymaster"] = None \/ file["paymaster"] = 0
      /\ file["burner"] = None /\ file \in [Jobs -> Addrs \cup {None}]
      /\ dep = Before("off", dep.exit) /\ dep.exit \in {"none", "ok"}
      /\ hist.resets = 0 /\ hist.rolledBack = FALSE /\ hist.faulty = FALSE
      /\ hist \in [resets : 0..MaxResets, rolledBack : BOOLEAN, faulty : BOOLEAN, healed : BOOLEAN]
  <2>1. CASE "deployed" \in scene.has
    <3>1. scene \in Scenes /\ DeployedBefore
      BY <2>1 DEF Init
    <3>2. mode \in Modes
      BY <2>1, <3>1, ScenesAssumption DEF DeployedBefore
    <3>3. /\ file \in [Jobs -> Addrs \cup {None}]
          /\ file["paymaster"] = 0 /\ file["burner"] = None
      BY <3>1 DEF DeployedBefore, Addrs, None, Jobs
    <3>4. dep = Before("off", dep.exit) /\ dep.exit = "ok"
      BY <3>1 DEF DeployedBefore, Before
    <3> QED
      BY <3>1, <3>2, <3>3, <3>4 DEF DeployedBefore
  <2>2. CASE "deployed" \notin scene.has
    <3>1. DeployerInit
      BY <2>2 DEF Init
    <3>2. /\ file \in [Jobs -> Addrs \cup {None}]
          /\ file["paymaster"] = None /\ file["burner"] = None
      BY <3>1 DEF DeployerInit, Jobs
    <3>3. dep = Before("off", dep.exit) /\ dep.exit = "none"
      BY <3>1 DEF DeployerInit, Before
    <3> QED
      BY <3>1, <3>2, <3>3 DEF DeployerInit
  <2> QED
    BY <2>1, <2>2
<1>2. /\ chain.pool = {} /\ chain.factories = {1} /\ chain.fixed = {}
      /\ chain \in [code : [Addrs -> Jobs \cup {"none"}], ownTreasury : SUBSET Addrs,
                    nonce : 0..MaxNonce, pool : SUBSET Tx,
                    factories : SUBSET Fixed, fixed : SUBSET Fixed]
      /\ \A a \in Addrs : a >= chain.nonce => chain.code[a] = "none"
      /\ \/ Usable(file["paymaster"])
         \/ /\ file["paymaster"] = None /\ ~hist.healed
            /\ \A a \in Addrs : chain.code[a] = "none"
  <2>1. CASE "deployed" \in scene.has
    <3>1. /\ DeployedBefore /\ 0 \in Addrs /\ 0 # None /\ 2 \in 0..MaxNonce
      BY <2>1 DEF Init, Addrs, None
    <3>2. /\ chain.pool = {} /\ chain.factories = {1} /\ chain.fixed = {}
          /\ chain.ownTreasury = {0} /\ chain.nonce = 2
          /\ chain.code = [[a \in Addrs |-> "none"] EXCEPT ![0] = "paymaster"]
          /\ chain = [code |-> chain.code, ownTreasury |-> {0}, nonce |-> 2, pool |-> {},
                      factories |-> {1}, fixed |-> {}]
      BY <3>1 DEF DeployedBefore, NewChain
    <3>3. /\ chain.code \in [Addrs -> Jobs \cup {"none"}] /\ chain.code[0] = "paymaster"
          /\ \A a \in Addrs : a >= 2 => chain.code[a] = "none"
      BY <3>1, <3>2 DEF Jobs, Addrs
    <3>4. file["paymaster"] = 0
      BY <3>1 DEF DeployedBefore, Jobs
    <3>5. Usable(file["paymaster"])
      BY <3>1, <3>2, <3>3, <3>4 DEF Usable
    <3>6. {0} \subseteq Addrs /\ {1} \subseteq Fixed
      BY <3>1 DEF Fixed
    <3> QED
      BY <3>1, <3>2, <3>3, <3>5, <3>6
  <2>2. CASE "deployed" \notin scene.has
    BY <2>2 DEF Init, DeployerInit, NewChain, Addrs, None, Jobs, Fixed
  <2> QED
    BY <2>1, <2>2
<1>3. dep.pc = "off" /\ dep.job = "paymaster"
  BY <1>1 DEF Before
<1>4. DeployerTypeOK
  <2>1. dep \in [pc : {"off", "script", "setup", "nonces", "check", "deploying",
                      "treasury", "write", "verify"},
                job : Jobs, awaited : Tx \cup {NoTx},
                receipt : {"none", "success", "reverted"}, target : Addrs \cup {None},
                script : 0..5, arrived : SUBSET Fixed, mined : 0..3,
                exit : {"none", "ok", "failed"}]
    BY <1>1 DEF Before, Jobs
  <2> QED
    BY <1>1, <1>2, <2>1 DEF DeployerTypeOK
<1>5. IsFiniteSet(chain.pool)
  BY <1>2, FS_EmptySet
<1>6. JobInv
  BY <1>2, <1>3 DEF JobInv
<1>7. TipInv
  BY <1>2, <1>3 DEF TipInv
<1>8. FilesNameUsableContracts
  BY <1>1, <1>2 DEF FilesNameUsableContracts, Usable
<1>9. HealInv
  BY <1>1, <1>2, <1>3 DEF HealInv
<1>10. ScriptInv
  BY <1>2, <1>3 DEF ScriptInv, ScriptDoneMeansDeployed
<1> QED
  BY <1>4, <1>5, <1>6, <1>7, <1>8, <1>9, <1>10 DEF DeployInv

\* A step before the first contract, which neither deploys nor writes.
LEMMA QuietKeeps ==
  ASSUME DeployInv, UNCHANGED <<mode, file, hist>>,
         chain'.code = chain.code, chain'.ownTreasury = chain.ownTreasury,
         chain'.nonce = chain.nonce, chain'.pool = chain.pool,
         dep.pc \in {"off", "script", "setup", "nonces", "check"},
         dep'.pc \in {"script", "setup", "nonces", "check"},
         dep'.job \in {dep.job, "paymaster"}
  PROVE  /\ IsFiniteSet(chain'.pool)
         /\ JobInv' /\ TipInv' /\ FilesNameUsableContracts' /\ HealInv'
<1>1. JobInv'
  BY DEF JobInv, DeployInv
<1>2. TipInv'
  BY DEF TipInv, DeployInv
<1>3. FilesNameUsableContracts'
  BY DEF FilesNameUsableContracts, DeployInv
<1>4. HealInv'
  BY DEF HealInv, DeployInv, Usable
<1> QED
  BY <1>1, <1>2, <1>3, <1>4 DEF DeployInv

LEMMA StartRunKeeps == ASSUME DeployInv, StartRun PROVE DeployInv'
<1>1. /\ dep.pc = "off" /\ UNCHANGED <<mode, chain, file, lateNonce, hist>>
      /\ \/ mode = "full" /\ dep' = Before("script", dep.exit)
         \/ mode = "skip" /\ dep' = Before("nonces", dep.exit)
         \/ mode \notin {"full", "skip"} /\ dep' = Before("check", dep.exit)
  BY DEF StartRun
<1>2. /\ dep'.pc \in {"script", "nonces", "check"} /\ dep'.job = "paymaster"
      /\ dep'.script = 0 /\ dep'.arrived = {} /\ dep'.mined = 0
      /\ dep'.pc = "nonces" => mode = "skip"
      /\ dep'.pc = "check" => mode # "full"
  BY <1>1 DEF Before
<1>3. DeployerTypeOK'
  BY <1>1 DEF Before, DeployInv, DeployerTypeOK, Jobs
<1>4. ScriptInv'
  <2>1. Taken("etch")' = 0
    <3>1. dep'.script \in 0..5 => Taken("etch")' = Cardinality({i \in 1..0 : Script[i] = "etch"})
      BY <1>2 DEF Taken
    <3>2. {i \in 1..0 : Script[i] = "etch"} = {}
      OBVIOUS
    <3> QED
      BY <1>2, <3>1, <3>2, FS_EmptySet
  <2> QED
    BY <1>1, <1>2, <2>1 DEF ScriptInv, DeployInv, ScriptDoneMeansDeployed, Fixed
<1> QED
  BY <1>1, <1>2, <1>3, <1>4, QuietKeeps DEF DeployInv

\* The sends and etchings after a step of the script.
LEMMA TakenNext ==
  ASSUME dep'.script \in 0..5
  PROVE  /\ Taken("send")' = (dep'.script + 1) \div 2
         /\ Taken("etch")' = dep'.script \div 2
BY StepsOfScript DEF Taken

LEMMA ScriptStepKeeps == ASSUME DeployInv, ScriptStep PROVE DeployInv'
<1>1. /\ dep.pc = "script" /\ dep.script \in 0..5 /\ dep.script < 5
      /\ dep' = [dep EXCEPT !.script = dep.script + 1]
      /\ UNCHANGED <<mode, file, lateNonce, hist>>
      /\ \/ /\ Script[dep.script + 1] = "etch"
            /\ chain' = [chain EXCEPT !.factories = @ \cup {Taken("etch") + 2}]
         \/ /\ Script[dep.script + 1] # "etch" /\ chain' = chain
  BY DEF ScriptStep, Script, DeployInv, DeployerTypeOK
<1>2. /\ dep'.pc = "script" /\ dep'.job = dep.job /\ dep'.script = dep.script + 1
      /\ dep'.arrived = dep.arrived /\ dep'.mined = dep.mined
  BY <1>1 DEF DeployInv, DeployerTypeOK
<1>3. /\ Script[1] = "send" /\ Script[2] = "etch" /\ Script[3] = "send"
      /\ Script[4] = "etch" /\ Script[5] = "send"
  BY DEF Script
<1>4. /\ dep.script = 1 \/ dep.script = 3 => Script[dep.script + 1] = "etch"
      /\ Script[dep.script + 1] = "etch" => dep.script = 1 \/ dep.script = 3
  <2>1. dep.script = 0 \/ dep.script = 1 \/ dep.script = 2 \/ dep.script = 3 \/ dep.script = 4
    BY <1>1
  <2> QED
    BY <1>3, <2>1
<1>5. /\ Taken("send") = (dep.script + 1) \div 2 /\ Taken("etch") = dep.script \div 2
      /\ Taken("send")' = (dep.script + 2) \div 2 /\ Taken("etch")' = (dep.script + 1) \div 2
  BY <1>1, <1>2, TakenIs, TakenNext
<1>6. Script[dep.script + 1] = "etch" => Taken("etch") + 2 \in Fixed /\ Taken("etch")' = Taken("etch") + 1
  BY <1>4, <1>5 DEF Fixed
<1>7. Script[dep.script + 1] # "etch" => Taken("etch")' = Taken("etch")
  BY <1>1, <1>4, <1>5
<1>8. /\ chain'.code = chain.code /\ chain'.ownTreasury = chain.ownTreasury
      /\ chain'.nonce = chain.nonce /\ chain'.pool = chain.pool /\ chain'.fixed = chain.fixed
      /\ chain.factories \subseteq chain'.factories
      /\ Script[dep.script + 1] = "etch" => Taken("etch") + 2 \in chain'.factories
  BY <1>1 DEF DeployInv, DeployerTypeOK
<1>9. DeployerTypeOK'
  <2>1. dep'.script \in 0..5
    BY <1>1, <1>2
  <2>2. chain'.factories \in SUBSET Fixed
    BY <1>1, <1>6 DEF DeployInv, DeployerTypeOK
  <2> QED
    BY <1>1, <2>1, <2>2 DEF DeployInv, DeployerTypeOK
<1>10. ScriptInv'
  <2>1. ASSUME NEW k \in Fixed, k <= Taken("etch")' + 1
        PROVE  k \in chain'.factories
    <3>1. k <= Taken("etch") + 1 => k \in chain.factories
      BY <1>1, <2>1 DEF ScriptInv, DeployInv
    <3>2. Taken("etch") \in Nat
      BY <1>1, <1>5
    <3> QED
      BY <1>6, <1>7, <1>8, <2>1, <3>1, <3>2 DEF Fixed
  <2>2. \A i \in dep.arrived : i <= Taken("send")'
    <3>1. Taken("send") <= Taken("send")' /\ Taken("send") \in Nat /\ Taken("send")' \in Nat
      BY <1>1, <1>5
    <3>2. \A i \in dep.arrived : i \in Nat /\ i <= Taken("send")
      BY <1>1 DEF ScriptInv, DeployInv, DeployerTypeOK, Fixed
    <3> QED
      BY <3>1, <3>2
  <2> QED
    BY <1>1, <1>2, <1>8, <2>1, <2>2 DEF ScriptInv, DeployInv, ScriptDoneMeansDeployed
<1> QED
  BY <1>1, <1>2, <1>8, <1>9, <1>10, QuietKeeps DEF DeployInv

LEMMA ArriveKeeps == ASSUME DeployInv, NEW i \in Fixed, Arrive(i) PROVE DeployInv'
<1>1. /\ dep.pc = "script" /\ i <= Taken("send")
      /\ dep' = [dep EXCEPT !.arrived = dep.arrived \cup {i}]
      /\ UNCHANGED <<mode, chain, file, lateNonce, hist>>
  BY DEF Arrive
<1>2. /\ dep'.pc = "script" /\ dep'.job = dep.job /\ dep'.script = dep.script
      /\ dep'.arrived = dep.arrived \cup {i} /\ dep'.mined = dep.mined
  BY <1>1 DEF DeployInv, DeployerTypeOK
<1>3. Taken("send")' = Taken("send") /\ Taken("etch")' = Taken("etch")
  BY <1>2 DEF Taken
<1>4. DeployerTypeOK'
  BY <1>1 DEF DeployInv, DeployerTypeOK
<1>5. ScriptInv'
  BY <1>1, <1>2, <1>3 DEF ScriptInv, DeployInv, ScriptDoneMeansDeployed
<1> QED
  BY <1>1, <1>2, <1>4, <1>5, QuietKeeps DEF DeployInv

LEMMA MineFixedKeeps == ASSUME DeployInv, MineFixed PROVE DeployInv'
<1>1. /\ dep.pc = "script" /\ dep.mined + 1 \in dep.arrived
      /\ dep' = [dep EXCEPT !.mined = dep.mined + 1]
      /\ chain' = [chain EXCEPT !.fixed = IF dep.mined + 1 \in chain.factories
                                          THEN @ \cup {dep.mined + 1} ELSE @]
      /\ UNCHANGED <<mode, file, lateNonce, hist>>
  BY DEF MineFixed
<1>2. /\ dep'.pc = "script" /\ dep'.job = dep.job /\ dep'.script = dep.script
      /\ dep'.arrived = dep.arrived /\ dep'.mined = dep.mined + 1
      /\ dep.mined \in 0..3 /\ dep.mined + 1 \in Fixed /\ dep.script \in 0..5
  BY <1>1 DEF DeployInv, DeployerTypeOK
<1>3. Taken("send")' = Taken("send") /\ Taken("etch")' = Taken("etch")
  BY <1>2 DEF Taken
<1>4. dep.mined + 1 \in chain.factories
  <2>1. dep.mined + 1 <= Taken("send")
    BY <1>1 DEF ScriptInv, DeployInv
  <2>2. Taken("send") = (dep.script + 1) \div 2 /\ Taken("etch") = dep.script \div 2
    BY <1>2, TakenIs
  <2>3. dep.mined + 1 <= Taken("etch") + 1
    BY <1>2, <2>1, <2>2 DEF Fixed
  <2> QED
    BY <1>1, <1>2, <2>3 DEF ScriptInv, DeployInv
<1>5. /\ chain'.code = chain.code /\ chain'.ownTreasury = chain.ownTreasury
      /\ chain'.nonce = chain.nonce /\ chain'.pool = chain.pool
      /\ chain'.factories = chain.factories /\ chain'.fixed = chain.fixed \cup {dep.mined + 1}
  BY <1>1, <1>4 DEF DeployInv, DeployerTypeOK
<1>6. DeployerTypeOK'
  <2>1. dep'.mined \in 0..3
    BY <1>2 DEF Fixed
  <2> QED
    BY <1>1, <1>2, <2>1 DEF DeployInv, DeployerTypeOK
<1>7. ScriptInv'
  <2>1. \A j \in Fixed : j <= dep.mined + 1 => j \in chain'.fixed
    BY <1>1, <1>2, <1>5 DEF ScriptInv, DeployInv, Fixed
  <2> QED
    BY <1>1, <1>2, <1>3, <1>5, <2>1 DEF ScriptInv, DeployInv, ScriptDoneMeansDeployed
<1> QED
  BY <1>1, <1>2, <1>5, <1>6, <1>7, QuietKeeps DEF DeployInv

LEMMA ScriptEndKeeps == ASSUME DeployInv, ScriptDone PROVE DeployInv'
<1>1. /\ dep.pc = "script" /\ dep.script = 5 /\ dep.mined = Taken("send")
      /\ dep' = Before("setup", dep.exit)
      /\ UNCHANGED <<mode, chain, file, lateNonce, hist>>
  BY DEF ScriptDone, Script
<1>2. dep'.pc = "setup" /\ dep'.job = "paymaster"
  BY <1>1 DEF Before
<1>3. chain.fixed = Fixed
  <2>1. dep.mined = 3
    BY <1>1, TakenIs
  <2>2. \A j \in Fixed : j \in chain.fixed
    BY <1>1, <2>1 DEF ScriptInv, DeployInv, Fixed
  <2> QED
    BY <2>2 DEF DeployInv, DeployerTypeOK
<1>4. DeployerTypeOK'
  BY <1>1 DEF Before, DeployInv, DeployerTypeOK, Jobs
<1>5. ScriptInv'
  BY <1>1, <1>2, <1>3 DEF ScriptInv, DeployInv, ScriptDoneMeansDeployed
<1> QED
  BY <1>1, <1>2, <1>4, <1>5, QuietKeeps DEF DeployInv

LEMMA SetUpKeeps == ASSUME DeployInv, SetUp PROVE DeployInv'
<1>1. /\ dep.pc = "setup" /\ dep' = [dep EXCEPT !.pc = "check"]
      /\ UNCHANGED <<mode, chain, file, lateNonce, hist>>
  BY DEF SetUp
<1>2. dep'.pc = "check" /\ dep'.job = dep.job
  BY <1>1 DEF DeployInv, DeployerTypeOK
<1>3. DeployerTypeOK'
  BY <1>1 DEF DeployInv, DeployerTypeOK
<1>4. ScriptInv'
  BY <1>1, <1>2 DEF ScriptInv, DeployInv, ScriptDoneMeansDeployed
<1> QED
  BY <1>1, <1>2, <1>3, <1>4, QuietKeeps DEF DeployInv

LEMMA SendNonceKeeps == ASSUME DeployInv, SendNonce PROVE DeployInv'
<1>1. /\ dep.pc = "nonces" /\ dep' = [dep EXCEPT !.pc = "check"] /\ lateNonce' = chain.nonce
      /\ UNCHANGED <<mode, chain, file, hist>>
  BY DEF SendNonce
<1>2. dep'.pc = "check" /\ dep'.job = dep.job
  BY <1>1 DEF DeployInv, DeployerTypeOK
<1>3. DeployerTypeOK'
  <2>1. chain.nonce \in Addrs \cup {None}
    BY DeployerBoundsAssumption DEF DeployInv, DeployerTypeOK, Addrs, None
  <2> QED
    BY <1>1, <2>1 DEF DeployInv, DeployerTypeOK
<1>4. ScriptInv'
  <2>1. mode = "skip"
    BY <1>1 DEF ScriptInv, DeployInv
  <2> QED
    BY <1>1, <1>2, <2>1 DEF ScriptInv, DeployInv, ScriptDoneMeansDeployed
<1> QED
  BY <1>1, <1>2, <1>3, <1>4, QuietKeeps DEF DeployInv

LEMMA AfterJobIs ==
  ASSUME DeployInv
  PROVE  /\ AfterJob.pc \in {"check", "verify", "off"}
         /\ AfterJob.pc = "verify" => mode = "full"
         /\ AfterJob.job \in Jobs
         /\ AfterJob.job = "burner" => AfterJob.pc = "check" /\ dep.job = "paymaster"
         /\ AfterJob \in [pc : {"off", "script", "setup", "nonces", "check", "deploying",
                      "treasury", "write", "verify"},
                job : Jobs, awaited : Tx \cup {NoTx},
                receipt : {"none", "success", "reverted"}, target : Addrs \cup {None},
                script : 0..5, arrived : SUBSET Fixed, mined : 0..3,
                exit : {"none", "ok", "failed"}]
BY DEF AfterJob, Before, Jobs, DeployInv, DeployerTypeOK

\* A step of the deployer that ends a job, or the run, and may write the file.
LEMMA EndKeeps ==
  ASSUME DeployInv, UNCHANGED <<mode, chain>>,
         dep'.pc \in {"check", "verify", "off"},
         dep'.pc = "off" => dep'.job = "paymaster",
         ~hist'.faulty => Usable(file'["paymaster"]),
         hist' \in [resets : 0..MaxResets, rolledBack : BOOLEAN, faulty : BOOLEAN, healed : BOOLEAN],
         hist'.resets = hist.resets, hist'.rolledBack = hist.rolledBack,
         hist'.healed => ~hist'.faulty,
         file' \in [Jobs -> Addrs \cup {None}],
         \/ file'["paymaster"] \in {None, file["paymaster"]}
         \/ Usable(file'["paymaster"]),
         \/ file'["burner"] \in {None, file["burner"]}
         \/ ~hist.rolledBack => chain.code[file'["burner"]] = "burner"
  PROVE  JobInv' /\ TipInv' /\ FilesNameUsableContracts' /\ HealInv'
<1>1. JobInv'
  BY DEF JobInv, DeployInv
<1>2. TipInv'
  BY DEF TipInv, DeployInv
<1>3. FilesNameUsableContracts'
  BY DEF FilesNameUsableContracts, DeployInv, Usable
<1>4. HealInv'
  BY DEF HealInv, Usable
<1> QED
  BY <1>1, <1>2, <1>3, <1>4

LEMMA SkipKeeps == ASSUME DeployInv, Skip PROVE DeployInv'
<1>1. /\ dep.pc = "check" /\ Found /\ dep' = AfterJob
      /\ hist' = [hist EXCEPT !.healed = @ \/ (AfterJob.pc = "off" /\ ~hist.faulty)]
      /\ UNCHANGED <<mode, chain, file, lateNonce>>
  BY DEF Skip, JobDone
<1>2. ~hist.faulty => Usable(file["paymaster"])
  <2> SUFFICES ASSUME ~hist.faulty PROVE Usable(file["paymaster"])
    OBVIOUS
  <2>1. CASE dep.job = "burner"
    BY <2>1 DEF HealInv, DeployInv
  <2>2. CASE dep.job = "paymaster"
    <3>1. file["paymaster"] \in Addrs /\ chain.code[file["paymaster"]] # "none"
      BY <1>1, <2>2 DEF Found, DeployInv, DeployerTypeOK, Jobs
    <3> QED
      BY <1>1, <3>1 DEF HealInv, DeployInv
  <2> QED
    BY <2>1, <2>2 DEF DeployInv, DeployerTypeOK, Jobs
<1>3. /\ hist' \in [resets : 0..MaxResets, rolledBack : BOOLEAN, faulty : BOOLEAN, healed : BOOLEAN]
      /\ hist'.resets = hist.resets /\ hist'.rolledBack = hist.rolledBack
      /\ hist'.faulty = hist.faulty /\ hist'.healed => ~hist'.faulty
  <2>1. hist.healed => ~hist.faulty
    BY DEF HealInv, DeployInv
  <2>2. (hist.healed \/ (AfterJob.pc = "off" /\ ~hist.faulty)) \in BOOLEAN
    BY DEF DeployInv, DeployerTypeOK
  <2> QED
    BY <1>1, <2>1, <2>2 DEF DeployInv, DeployerTypeOK
<1>4. DeployerTypeOK'
  BY <1>1, <1>3, AfterJobIs DEF DeployInv, DeployerTypeOK
<1>5. ScriptInv'
  BY <1>1, AfterJobIs DEF ScriptInv, DeployInv, ScriptDoneMeansDeployed
<1>6. JobInv' /\ TipInv' /\ FilesNameUsableContracts' /\ HealInv'
  <2>1. file \in [Jobs -> Addrs \cup {None}]
    BY DEF DeployInv, DeployerTypeOK
  <2>2. dep'.pc \in {"check", "verify", "off"} /\ (dep'.pc = "off" => dep'.job = "paymaster")
    BY <1>1, AfterJobIs DEF Jobs
  <2>3. ~hist'.faulty => Usable(file'["paymaster"])
    BY <1>1, <1>2, <1>3
  <2> QED
    BY <1>1, <1>3, <2>1, <2>2, <2>3, EndKeeps
<1> QED
  BY <1>1, <1>4, <1>5, <1>6 DEF DeployInv

LEMMA VerifyKeeps == ASSUME DeployInv, Verify PROVE DeployInv'
<1>1. /\ dep.pc = "verify"
      /\ dep' = Before("off", "ok") \/ dep' = Before("off", "failed")
      /\ hist' = [hist EXCEPT !.healed = @ \/ (chain.fixed = Fixed /\ ~hist.faulty)]
      /\ UNCHANGED <<mode, chain, file, lateNonce>>
  BY DEF Verify
<1>2. dep'.pc = "off" /\ dep'.job = "paymaster"
  BY <1>1 DEF Before
<1>3. /\ hist' \in [resets : 0..MaxResets, rolledBack : BOOLEAN, faulty : BOOLEAN, healed : BOOLEAN]
      /\ hist'.resets = hist.resets /\ hist'.rolledBack = hist.rolledBack
      /\ hist'.faulty = hist.faulty /\ hist'.healed => ~hist'.faulty
  <2>1. hist.healed => ~hist.faulty
    BY DEF HealInv, DeployInv
  <2>2. (hist.healed \/ (chain.fixed = Fixed /\ ~hist.faulty)) \in BOOLEAN
    BY DEF DeployInv, DeployerTypeOK
  <2> QED
    BY <1>1, <2>1, <2>2 DEF DeployInv, DeployerTypeOK
<1>4. DeployerTypeOK'
  BY <1>1, <1>3 DEF Before, DeployInv, DeployerTypeOK, Jobs
<1>5. ScriptInv'
  BY <1>1, <1>2 DEF ScriptInv, DeployInv, ScriptDoneMeansDeployed
<1>6. JobInv' /\ TipInv' /\ FilesNameUsableContracts' /\ HealInv'
  <2>1. file \in [Jobs -> Addrs \cup {None}]
    BY DEF DeployInv, DeployerTypeOK
  <2>2. ~hist'.faulty => Usable(file'["paymaster"])
    BY <1>1, <1>3 DEF HealInv, DeployInv, Usable
  <2> QED
    BY <1>1, <1>2, <1>3, <2>1, <2>2, EndKeeps
<1> QED
  BY <1>1, <1>4, <1>5, <1>6 DEF DeployInv

LEMMA FaultIs ==
  ASSUME DeployInv, Fault
  PROVE  /\ hist' \in [resets : 0..MaxResets, rolledBack : BOOLEAN, faulty : BOOLEAN,
                       healed : BOOLEAN]
         /\ hist'.resets = hist.resets /\ hist'.rolledBack = hist.rolledBack
         /\ hist'.faulty = TRUE /\ hist'.healed = FALSE
BY DEF Fault, DeployInv, DeployerTypeOK

LEMMA JobFailsKeeps == ASSUME DeployInv, JobFails PROVE DeployInv'
<1>1. /\ dep.pc \in {"check", "deploying", "treasury"} /\ dep' = AfterJob /\ Fault
      /\ UNCHANGED <<mode, chain, file, lateNonce>>
  BY DEF JobFails
<1>2. DeployerTypeOK'
  BY <1>1, FaultIs, AfterJobIs DEF DeployInv, DeployerTypeOK
<1>3. ScriptInv'
  BY <1>1, AfterJobIs DEF ScriptInv, DeployInv, ScriptDoneMeansDeployed
<1>4. JobInv' /\ TipInv' /\ FilesNameUsableContracts' /\ HealInv'
  <2>1. file \in [Jobs -> Addrs \cup {None}]
    BY DEF DeployInv, DeployerTypeOK
  <2>2. dep'.pc \in {"check", "verify", "off"} /\ (dep'.pc = "off" => dep'.job = "paymaster")
    BY <1>1, AfterJobIs DEF Jobs
  <2> QED
    BY <1>1, <2>1, <2>2, FaultIs, EndKeeps
<1> QED
  BY <1>1, <1>2, <1>3, <1>4 DEF DeployInv

LEMMA CrashRunKeeps == ASSUME DeployInv, CrashRun PROVE DeployInv'
<1>1. /\ dep' = Before("off", "failed") /\ Fault
      /\ UNCHANGED <<mode, chain, lateNonce>>
      /\ file' = file \/ file' = [file EXCEPT ![dep.job] = None]
  BY DEF CrashRun
<1>2. dep'.pc = "off" /\ dep'.job = "paymaster"
  BY <1>1 DEF Before
<1>3. /\ file' \in [Jobs -> Addrs \cup {None}]
      /\ file'["paymaster"] \in {None, file["paymaster"]}
      /\ file'["burner"] \in {None, file["burner"]}
  BY <1>1 DEF DeployInv, DeployerTypeOK, Jobs
<1>4. DeployerTypeOK'
  <2>1. hist' \in [resets : 0..MaxResets, rolledBack : BOOLEAN, faulty : BOOLEAN,
                   healed : BOOLEAN]
    BY <1>1, FaultIs
  <2> QED
    BY <1>1, <1>3, <2>1 DEF Before, DeployInv, DeployerTypeOK, Jobs
<1>5. ScriptInv'
  BY <1>1, <1>2 DEF ScriptInv, DeployInv, ScriptDoneMeansDeployed
<1>6. JobInv' /\ TipInv' /\ FilesNameUsableContracts' /\ HealInv'
  BY <1>1, <1>2, <1>3, FaultIs, EndKeeps
<1> QED
  BY <1>1, <1>4, <1>5, <1>6 DEF DeployInv

LEMMA WriteKeeps == ASSUME DeployInv, Write PROVE DeployInv'
<1>1. /\ dep.pc = "write" /\ dep' = AfterJob
      /\ file' = [file EXCEPT ![dep.job] = dep.target]
      /\ hist' = [hist EXCEPT !.healed = @ \/ (AfterJob.pc = "off" /\ ~hist.faulty)]
      /\ UNCHANGED <<mode, chain, lateNonce>>
  BY DEF Write, JobDone
<1>2. /\ file' \in [Jobs -> Addrs \cup {None}]
      /\ dep.job = "paymaster" =>
             file'["paymaster"] = dep.target /\ file'["burner"] = file["burner"]
      /\ dep.job = "burner" =>
             file'["paymaster"] = file["paymaster"] /\ file'["burner"] = dep.target
      /\ dep.job = "paymaster" \/ dep.job = "burner"
  BY <1>1 DEF DeployInv, DeployerTypeOK, Jobs
<1>3. dep.job = "paymaster" => Usable(dep.target)
  BY <1>1 DEF JobInv, DeployInv
<1>4. dep.job = "burner" /\ ~hist.rolledBack => chain.code[dep.target] = "burner"
  BY <1>1 DEF TipInv, DeployInv
<1>5. ~hist.faulty => Usable(file'["paymaster"])
  BY <1>2, <1>3 DEF HealInv, DeployInv
<1>6. /\ hist' \in [resets : 0..MaxResets, rolledBack : BOOLEAN, faulty : BOOLEAN, healed : BOOLEAN]
      /\ hist'.resets = hist.resets /\ hist'.rolledBack = hist.rolledBack
      /\ hist'.faulty = hist.faulty /\ hist'.healed => ~hist'.faulty
  <2>1. hist.healed => ~hist.faulty
    BY DEF HealInv, DeployInv
  <2>2. (hist.healed \/ (AfterJob.pc = "off" /\ ~hist.faulty)) \in BOOLEAN
    BY DEF DeployInv, DeployerTypeOK
  <2> QED
    BY <1>1, <2>1, <2>2 DEF DeployInv, DeployerTypeOK
<1>7. DeployerTypeOK'
  BY <1>1, <1>2, <1>6, AfterJobIs DEF DeployInv, DeployerTypeOK
<1>8. ScriptInv'
  BY <1>1, AfterJobIs DEF ScriptInv, DeployInv, ScriptDoneMeansDeployed
<1>9. JobInv' /\ TipInv' /\ FilesNameUsableContracts' /\ HealInv'
  <2>1. dep'.pc \in {"check", "verify", "off"} /\ (dep'.pc = "off" => dep'.job = "paymaster")
    BY <1>1, AfterJobIs DEF Jobs
  <2>2. \/ file'["paymaster"] \in {None, file["paymaster"]}
        \/ Usable(file'["paymaster"])
    BY <1>2, <1>3
  <2>3. \/ file'["burner"] \in {None, file["burner"]}
        \/ ~hist.rolledBack => chain.code[file'["burner"]] = "burner"
    BY <1>2, <1>4
  <2> QED
    BY <1>1, <1>2, <1>5, <1>6, <2>1, <2>2, <2>3, EndKeeps
<1> QED
  BY <1>1, <1>7, <1>8, <1>9 DEF DeployInv

LEMMA SetNonceKeeps == ASSUME DeployInv, SetNonce PROVE DeployInv'
<1>1. /\ lateNonce # None /\ lateNonce' = None
      /\ chain' = [chain EXCEPT !.nonce = lateNonce]
      /\ hist' = [hist EXCEPT !.rolledBack = @ \/ chain.nonce # lateNonce]
      /\ UNCHANGED <<mode, file, dep>>
  BY DEF SetNonce
<1>2. /\ chain'.code = chain.code /\ chain'.ownTreasury = chain.ownTreasury
      /\ chain'.nonce = lateNonce /\ chain'.pool = chain.pool
      /\ chain'.factories = chain.factories /\ chain'.fixed = chain.fixed
  BY <1>1 DEF DeployInv, DeployerTypeOK
<1>3. /\ hist' \in [resets : 0..MaxResets, rolledBack : BOOLEAN, faulty : BOOLEAN, healed : BOOLEAN]
      /\ hist'.resets = hist.resets /\ hist'.faulty = hist.faulty /\ hist'.healed = hist.healed
      /\ ~hist'.rolledBack => ~hist.rolledBack /\ chain.nonce = lateNonce
  <2>1. (hist.rolledBack \/ chain.nonce # lateNonce) \in BOOLEAN
    BY DEF DeployInv, DeployerTypeOK
  <2> QED
    BY <1>1, <2>1 DEF DeployInv, DeployerTypeOK
<1>4. DeployerTypeOK'
  <2>1. lateNonce \in 0..MaxNonce
    BY DeployerBoundsAssumption DEF DeployInv, DeployerTypeOK, Addrs, None
  <2> QED
    BY <1>1, <1>3, <2>1 DEF DeployInv, DeployerTypeOK
<1>5. JobInv'
  BY <1>1, <1>2 DEF JobInv, DeployInv, Usable
<1>6. TipInv'
  BY <1>1, <1>2, <1>3 DEF TipInv, DeployInv
<1>7. FilesNameUsableContracts'
  BY <1>1, <1>2, <1>3 DEF FilesNameUsableContracts, DeployInv
<1>8. HealInv'
  BY <1>1, <1>2, <1>3 DEF HealInv, DeployInv, Usable
<1>9. ScriptInv'
  <2>1. Taken("send")' = Taken("send") /\ Taken("etch")' = Taken("etch")
    BY <1>1 DEF Taken
  <2> QED
    BY <1>1, <1>2, <2>1 DEF ScriptInv, DeployInv, ScriptDoneMeansDeployed
<1> QED
  BY <1>2, <1>4, <1>5, <1>6, <1>7, <1>8, <1>9 DEF DeployInv

LEMMA ResetKeeps == ASSUME DeployInv, ResetChain PROVE DeployInv'
<1>1. /\ dep.pc = "off" /\ hist.resets < MaxResets /\ chain' = NewChain /\ lateNonce' = None
      /\ hist' = [hist EXCEPT !.resets = @ + 1, !.rolledBack = FALSE,
                              !.faulty = FALSE, !.healed = FALSE]
      /\ UNCHANGED <<mode, file, dep>>
  BY DEF ResetChain
<1>2. /\ chain'.pool = {} /\ chain'.factories = {1} /\ chain'.fixed = {}
      /\ \A a \in Addrs : chain'.code[a] = "none"
      /\ chain' \in [code : [Addrs -> Jobs \cup {"none"}], ownTreasury : SUBSET Addrs,
                     nonce : 0..MaxNonce, pool : SUBSET Tx,
                     factories : SUBSET Fixed, fixed : SUBSET Fixed]
  BY <1>1, DeployerBoundsAssumption DEF NewChain, Fixed
<1>3. /\ hist' \in [resets : 0..MaxResets, rolledBack : BOOLEAN, faulty : BOOLEAN, healed : BOOLEAN]
      /\ hist'.resets # 0 /\ ~hist'.healed
  <2>1. hist.resets + 1 \in 0..MaxResets /\ hist.resets + 1 # 0
    BY <1>1, DeployerBoundsAssumption DEF DeployInv, DeployerTypeOK
  <2> QED
    BY <1>1, <2>1 DEF DeployInv, DeployerTypeOK
<1>4. DeployerTypeOK'
  BY <1>1, <1>2, <1>3 DEF DeployInv, DeployerTypeOK
<1>5. dep'.pc = "off" /\ dep'.job = "paymaster"
  BY <1>1 DEF JobInv, DeployInv
<1>6. IsFiniteSet(chain'.pool)
  BY <1>2, FS_EmptySet
<1>7. JobInv'
  BY <1>2, <1>5 DEF JobInv
<1>8. TipInv'
  BY <1>2, <1>5 DEF TipInv
<1>9. FilesNameUsableContracts'
  BY <1>3 DEF FilesNameUsableContracts
<1>10. HealInv'
  BY <1>2, <1>3, <1>5 DEF HealInv
<1>11. ScriptInv'
  BY <1>2, <1>5 DEF ScriptInv, ScriptDoneMeansDeployed
<1> QED
  BY <1>4, <1>6, <1>7, <1>8, <1>9, <1>10, <1>11 DEF DeployInv

\* The transaction sent is the next one: while the nonce was never moved back, it
\* comes after all the others in the pool.
Sent(kind, to) ==
    \E tx \in Tx :
        /\ tx.kind = kind /\ tx.to = to
        /\ ~hist.rolledBack => tx.nonce = chain.nonce + Cardinality(chain.pool)
        /\ chain' = [chain EXCEPT !.pool = @ \cup {tx}]
        /\ dep' = [dep EXCEPT !.pc = IF kind = "treasury" THEN "treasury" ELSE "deploying",
                              !.target = to, !.awaited = tx, !.receipt = "none"]

LEMMA SendIs ==
  ASSUME DeployInv, NEW kind \in Jobs \cup {"treasury"}, NEW to \in Addrs \cup {None},
         Send(kind, to)
  PROVE  Sent(kind, to)
<1> DEFINE pending == {t \in chain.pool : t.nonce >= chain.nonce}
           tx == [kind |-> kind, to |-> to, nonce |-> chain.nonce + Cardinality(pending)]
<1>1. /\ tx.nonce \in Addrs
      /\ chain' = [chain EXCEPT !.pool = @ \cup {tx}]
      /\ dep' = [dep EXCEPT !.pc = IF kind = "treasury" THEN "treasury" ELSE "deploying",
                            !.target = to, !.awaited = tx, !.receipt = "none"]
  BY DEF Send
<1>2. ~hist.rolledBack => pending = chain.pool
  <2>1. ~hist.rolledBack => \A t \in chain.pool : chain.nonce <= t.nonce
    BY DEF DeployInv, TipInv
  <2>2. chain.nonce \in Nat /\ \A t \in chain.pool : t.nonce \in Nat
    BY DeployerBoundsAssumption DEF DeployInv, DeployerTypeOK, Tx, Addrs
  <2> QED
    BY <2>1, <2>2
<1>3. tx \in Tx
  BY <1>1 DEF Tx
<1> QED
  BY <1>1, <1>2, <1>3 DEF Sent

LEMMA SendKeeps ==
  ASSUME DeployInv, NEW kind \in Jobs \cup {"treasury"}, NEW to \in Addrs \cup {None},
         Send(kind, to), UNCHANGED <<mode, file, lateNonce>>,
         kind = "treasury" => /\ dep.job = "paymaster" /\ to \in Addrs
                              /\ chain.code[to] = "paymaster",
         kind # "treasury" => dep.job = kind,
         dep.pc \in {"check", "deploying"},
         hist' \in [resets : 0..MaxResets, rolledBack : BOOLEAN, faulty : BOOLEAN, healed : BOOLEAN],
         hist'.resets = hist.resets, hist'.rolledBack = hist.rolledBack,
         ~hist'.faulty => ~hist.faulty, hist'.healed => hist.healed /\ ~hist'.faulty
  PROVE  DeployInv'
<1>0. Sent(kind, to)
  BY SendIs
<1>1. PICK tx \in Tx :
           /\ tx.kind = kind /\ tx.to = to
           /\ ~hist.rolledBack => tx.nonce = chain.nonce + Cardinality(chain.pool)
           /\ chain' = [chain EXCEPT !.pool = @ \cup {tx}]
           /\ dep' = [dep EXCEPT !.pc = IF kind = "treasury" THEN "treasury" ELSE "deploying",
                                 !.target = to, !.awaited = tx, !.receipt = "none"]
  BY <1>0 DEF Sent
<1>2. /\ chain'.code = chain.code /\ chain'.ownTreasury = chain.ownTreasury
      /\ chain'.nonce = chain.nonce /\ chain'.pool = chain.pool \cup {tx}
      /\ chain'.factories = chain.factories /\ chain'.fixed = chain.fixed
  BY <1>1 DEF DeployInv, DeployerTypeOK
<1>3. /\ dep'.pc = (IF kind = "treasury" THEN "treasury" ELSE "deploying")
      /\ dep'.target = to /\ dep'.awaited = tx /\ dep'.receipt = "none" /\ dep'.job = dep.job
  BY <1>1 DEF DeployInv, DeployerTypeOK
<1>4. DeployerTypeOK'
  <2>1. (IF kind = "treasury" THEN "treasury" ELSE "deploying") \in
            {"off", "script", "setup", "nonces", "check", "deploying",
             "treasury", "write", "verify"}
    OBVIOUS
  <2>2. chain' \in [code : [Addrs -> Jobs \cup {"none"}], ownTreasury : SUBSET Addrs,
                    nonce : 0..MaxNonce, pool : SUBSET Tx,
                    factories : SUBSET Fixed, fixed : SUBSET Fixed]
    BY <1>1 DEF DeployInv, DeployerTypeOK
  <2> QED
    BY ZenonT(30), <1>1, <2>1, <2>2 DEF DeployInv, DeployerTypeOK
<1>5. IsFiniteSet(chain'.pool)
  BY <1>2, FS_AddElement DEF DeployInv
<1>6. JobInv'
  <2>1. dep.job \in Jobs /\ kind \in Jobs \cup {"treasury"}
    BY DEF DeployInv, DeployerTypeOK
  <2> QED
    BY <1>1, <1>2, <1>3, <2>1 DEF JobInv, DeployInv
<1>7. TipInv'
  <2> SUFFICES ASSUME ~hist.rolledBack PROVE TipInv'
    BY DEF TipInv
  <2>1. /\ chain.nonce \in Nat /\ Cardinality(chain.pool) \in Nat
        /\ \A t \in chain.pool : t.nonce \in Nat
    BY FS_CardinalityType, DeployerBoundsAssumption DEF DeployInv, DeployerTypeOK, Tx, Addrs
  <2>2. \A t \in chain.pool : /\ chain.nonce <= t.nonce
                              /\ t.nonce < chain.nonce + Cardinality(chain.pool)
    BY DEF TipInv, DeployInv
  <2>3. tx \notin chain.pool /\ \A t \in chain.pool : t.nonce # tx.nonce
    BY <1>1, <2>1, <2>2
  <2>4. Cardinality(chain'.pool) = Cardinality(chain.pool) + 1
    BY <1>2, <2>3, FS_AddElement DEF DeployInv
  <2>5. \A t \in chain'.pool : /\ chain.nonce <= t.nonce
                               /\ t.nonce < chain.nonce + Cardinality(chain'.pool)
    BY <1>1, <1>2, <2>1, <2>2, <2>4
  <2>6. \A s, t \in chain'.pool : s.nonce = t.nonce => s = t
    BY <1>2, <2>3 DEF TipInv, DeployInv
  <2>7. \A a \in Addrs : a >= chain.nonce => chain.code[a] = "none"
    BY DEF TipInv, DeployInv
  <2> QED
    BY ZenonT(30), <1>2, <1>3, <2>5, <2>6, <2>7 DEF TipInv
<1>8. FilesNameUsableContracts'
  BY <1>2 DEF FilesNameUsableContracts, DeployInv
<1>9. HealInv'
  <2>1. dep.job = "paymaster" \/ dep.job = "burner"
    BY DEF DeployInv, DeployerTypeOK, Jobs
  <2>2. ~hist.faulty /\ dep.job = "burner" => Usable(file["paymaster"])
    BY DEF HealInv, DeployInv
  <2>3. Usable(file["paymaster"])' <=> Usable(file["paymaster"])
    BY <1>2 DEF Usable
  <2>4. dep'.pc \in {"deploying", "treasury"}
    BY <1>3
  <2>5. hist.healed => Usable(file["paymaster"])
    BY DEF HealInv, DeployInv
  <2> QED
    BY <1>3, <2>1, <2>2, <2>3, <2>4, <2>5 DEF HealInv
<1>10. ScriptInv'
  <2>1. dep'.pc \notin {"script", "nonces"}
    BY <1>3
  <2> QED
    BY <1>2, <2>1 DEF ScriptInv, DeployInv, ScriptDoneMeansDeployed
<1> QED
  BY <1>4, <1>5, <1>6, <1>7, <1>8, <1>9, <1>10 DEF DeployInv

LEMMA DeployKeeps == ASSUME DeployInv, Deploy PROVE DeployInv'
<1>1. /\ dep.pc = "check" /\ Send(dep.job, None) /\ UNCHANGED <<mode, file, lateNonce>>
      /\ Fault \/ hist' = hist
  BY DEF Deploy
<1>2. dep.job \in Jobs /\ dep.job # "treasury"
  BY DEF DeployInv, DeployerTypeOK, Jobs
<1>3. /\ hist' \in [resets : 0..MaxResets, rolledBack : BOOLEAN, faulty : BOOLEAN, healed : BOOLEAN]
      /\ hist'.resets = hist.resets /\ hist'.rolledBack = hist.rolledBack
      /\ ~hist'.faulty => ~hist.faulty
      /\ hist'.healed => hist.healed /\ ~hist'.faulty
  <2>1. CASE Fault
    BY <2>1, FaultIs
  <2>2. CASE hist' = hist
    BY <2>2 DEF DeployInv, DeployerTypeOK, HealInv
  <2> QED
    BY <1>1, <2>1, <2>2
<1> QED
  BY <1>1, <1>2, <1>3, SendKeeps

LEMMA DeployedKeeps == ASSUME DeployInv, Deployed PROVE DeployInv'
<1>1. /\ dep.pc = "deploying" /\ dep.receipt # "none"
      /\ UNCHANGED <<mode, file, lateNonce, hist>>
      /\ dep.awaited \in Tx /\ dep.awaited.nonce \in Addrs /\ dep.job \in Jobs
  BY DEF Deployed, DeployInv, JobInv, DeployerTypeOK, Tx
<1>2. CASE dep.job = "paymaster"
  <2>1. /\ chain.code[dep.awaited.nonce] = "paymaster"
        /\ Send("treasury", dep.awaited.nonce)
    BY <1>2 DEF Deployed, SetOwnTreasury
  <2>2. /\ hist \in [resets : 0..MaxResets, rolledBack : BOOLEAN, faulty : BOOLEAN, healed : BOOLEAN]
        /\ hist.healed => ~hist.faulty
    BY DEF DeployInv, DeployerTypeOK, HealInv
  <2> QED
    BY <1>1, <1>2, <2>1, <2>2, SendKeeps
<1>3. CASE dep.job = "burner"
  <2>1. /\ dep' = [dep EXCEPT !.pc = "write", !.target = dep.awaited.nonce]
        /\ UNCHANGED chain
    BY <1>3 DEF Deployed
  <2>2. dep'.pc = "write" /\ dep'.job = "burner" /\ dep'.target = dep.awaited.nonce
    BY <1>3, <2>1 DEF DeployInv, DeployerTypeOK
  <2>3. DeployerTypeOK'
    BY <1>1, <2>1 DEF DeployInv, DeployerTypeOK
  <2>4. JobInv'
    BY <2>1, <2>2 DEF JobInv, DeployInv
  <2>5. TipInv'
    BY <1>1, <1>3, <2>1, <2>2 DEF TipInv, DeployInv
  <2>6. FilesNameUsableContracts'
    BY <1>1, <2>1 DEF FilesNameUsableContracts, DeployInv
  <2>7. HealInv'
    BY <1>1, <1>3, <2>1, <2>2 DEF HealInv, DeployInv, Usable
  <2>8. ScriptInv'
    BY <1>1, <2>1, <2>2 DEF ScriptInv, DeployInv, ScriptDoneMeansDeployed
  <2> QED
    BY <2>1, <2>3, <2>4, <2>5, <2>6, <2>7, <2>8 DEF DeployInv
<1> QED
  BY <1>1, <1>2, <1>3 DEF Jobs

LEMMA TreasurySetKeeps == ASSUME DeployInv, TreasurySet PROVE DeployInv'
<1>1. /\ dep.pc = "treasury" /\ dep.receipt # "none"
      /\ dep' = [dep EXCEPT !.pc = "write"]
      /\ UNCHANGED <<mode, chain, file, lateNonce, hist>>
  BY DEF TreasurySet
<1>2. /\ dep'.pc = "write" /\ dep'.job = dep.job /\ dep'.target = dep.target
      /\ dep.job = "paymaster"
  BY <1>1 DEF DeployInv, DeployerTypeOK, JobInv
<1>3. DeployerTypeOK'
  BY <1>1 DEF DeployInv, DeployerTypeOK
<1>4. JobInv'
  <2>1. dep.target \in Addrs /\ chain.code[dep.target] = "paymaster" /\ dep.target \in chain.ownTreasury
    BY <1>1 DEF DeployInv, JobInv
  <2>2. dep.target # None
    BY <2>1, DeployerBoundsAssumption DEF Addrs, None
  <2> QED
    BY <1>1, <1>2, <2>1, <2>2 DEF JobInv, DeployInv, Usable
<1>5. TipInv'
  BY <1>1, <1>2 DEF TipInv, DeployInv
<1>6. FilesNameUsableContracts'
  BY <1>1 DEF FilesNameUsableContracts, DeployInv
<1>7. HealInv'
  BY <1>1, <1>2 DEF HealInv, DeployInv, Usable
<1>8. ScriptInv'
  BY <1>1, <1>2 DEF ScriptInv, DeployInv, ScriptDoneMeansDeployed
<1> QED
  BY <1>1, <1>3, <1>4, <1>5, <1>6, <1>7, <1>8 DEF DeployInv

LEMMA MineKeeps == ASSUME DeployInv, NEW tx \in chain.pool, Mine(tx) PROVE DeployInv'
<1> DEFINE success == tx.kind = "treasury" \/ chain.code[tx.nonce] = "none"
<1>1. /\ tx.nonce = chain.nonce
      /\ chain' = [chain EXCEPT
             !.nonce = @ + 1, !.pool = @ \ {tx},
             !.code = IF tx.kind # "treasury" /\ success
                      THEN [@ EXCEPT ![tx.nonce] = tx.kind] ELSE @,
             !.ownTreasury = IF tx.kind = "treasury" THEN @ \cup {tx.to} ELSE @]
      /\ dep' = IF tx = dep.awaited
                THEN [dep EXCEPT !.receipt = IF success THEN "success" ELSE "reverted"]
                ELSE dep
      /\ UNCHANGED <<mode, file, lateNonce, hist>>
  BY DEF Mine
<1>2. /\ tx \in Tx /\ tx.nonce \in Addrs /\ tx.to \in Addrs \cup {None}
      /\ tx.kind \in Jobs \cup {"treasury"}
      /\ tx.nonce \in Nat /\ tx.nonce < MaxNonce /\ MaxNonce \in Nat
  BY DeployerBoundsAssumption DEF DeployInv, DeployerTypeOK, Tx, Addrs
<1>3. /\ chain'.nonce = tx.nonce + 1 /\ chain'.pool = chain.pool \ {tx}
      /\ chain'.factories = chain.factories /\ chain'.fixed = chain.fixed
      /\ chain'.code = (IF tx.kind # "treasury" /\ success
                        THEN [chain.code EXCEPT ![tx.nonce] = tx.kind] ELSE chain.code)
      /\ chain'.ownTreasury = (IF tx.kind = "treasury" THEN chain.ownTreasury \cup {tx.to}
                               ELSE chain.ownTreasury)
  BY <1>1 DEF DeployInv, DeployerTypeOK
<1>4. /\ \A a \in Addrs : chain.code[a] # "none" => chain'.code[a] = chain.code[a]
      /\ \A a \in Addrs \ {tx.nonce} : chain'.code[a] = chain.code[a]
      /\ tx.kind # "treasury" /\ success => chain'.code[tx.nonce] = tx.kind
      /\ chain.ownTreasury \subseteq chain'.ownTreasury
      /\ tx.kind = "treasury" => tx.to \in chain'.ownTreasury
      /\ chain'.code \in [Addrs -> Jobs \cup {"none"}]
  <2>1. chain.code \in [Addrs -> Jobs \cup {"none"}] /\ chain.ownTreasury \subseteq Addrs
    BY DEF DeployInv, DeployerTypeOK
  <2> QED
    BY <1>2, <1>3, <2>1
<1>5. /\ dep'.pc = dep.pc /\ dep'.job = dep.job /\ dep'.awaited = dep.awaited
      /\ dep'.target = dep.target /\ dep'.script = dep.script /\ dep'.arrived = dep.arrived
      /\ dep'.mined = dep.mined
      /\ dep'.receipt = dep.receipt \/ tx = dep.awaited
  BY <1>1 DEF DeployInv, DeployerTypeOK
<1>6. \A a : Usable(a) /\ a \in Addrs => Usable(a)'
  BY <1>4 DEF Usable
<1>7. IsFiniteSet(chain'.pool)
  BY <1>3, FS_RemoveElement DEF DeployInv
<1>8. JobInv'
  <2>1. dep.pc \in {"deploying", "treasury"} => dep.awaited \in Tx
    BY DEF JobInv, DeployInv
  <2>2. ASSUME dep.pc = "treasury"
        PROVE  /\ dep.job = "paymaster" /\ dep.awaited.kind = "treasury"
               /\ dep.target \in Addrs /\ dep.awaited.to = dep.target
               /\ chain'.code[dep.target] = "paymaster"
               /\ dep'.receipt # "none" => dep.target \in chain'.ownTreasury
    <3>1. /\ dep.job = "paymaster" /\ dep.awaited.kind = "treasury"
          /\ dep.target \in Addrs /\ dep.awaited.to = dep.target
          /\ chain.code[dep.target] = "paymaster"
          /\ dep.receipt # "none" => dep.target \in chain.ownTreasury
      BY <2>2 DEF JobInv, DeployInv
    <3>2. chain'.code[dep.target] = "paymaster"
      BY <1>4, <3>1
    <3>3. CASE tx = dep.awaited
      BY <1>4, <3>1, <3>2, <3>3
    <3>4. CASE tx # dep.awaited
      BY <1>4, <1>5, <3>1, <3>2, <3>4
    <3> QED
      BY <3>3, <3>4
  <2>3. dep.pc = "write" /\ dep.job = "paymaster" => Usable(dep.target)'
    <3> SUFFICES ASSUME dep.pc = "write" /\ dep.job = "paymaster" PROVE Usable(dep.target)'
      OBVIOUS
    <3>1. Usable(dep.target) /\ dep.target \in Addrs
      BY DEF JobInv, DeployInv, DeployerTypeOK, Usable
    <3>2. Usable(dep.target)' <=> (/\ dep.target # None /\ chain'.code[dep.target] = "paymaster"
                                   /\ dep.target \in chain'.ownTreasury)
      BY <1>5 DEF Usable
    <3> QED
      BY <1>4, <3>1, <3>2 DEF Usable
  <2> QED
    BY <1>3, <1>5, <2>1, <2>2, <2>3 DEF JobInv, DeployInv
<1>9. TipInv'
  <2> SUFFICES ASSUME ~hist.rolledBack PROVE TipInv'
    BY <1>1 DEF TipInv
  <2>1. /\ \A t \in chain.pool : /\ chain.nonce <= t.nonce
                                 /\ t.nonce < chain.nonce + Cardinality(chain.pool)
        /\ \A s, t \in chain.pool : s.nonce = t.nonce => s = t
        /\ \A a \in Addrs : a >= chain.nonce => chain.code[a] = "none"
        /\ dep.pc = "deploying" /\ dep.receipt # "none" =>
               chain.code[dep.awaited.nonce] = dep.job
        /\ dep.pc = "write" /\ dep.job = "burner" =>
               dep.target \in Addrs /\ chain.code[dep.target] = "burner"
    BY DEF TipInv, DeployInv
  <2>2. /\ chain.nonce \in Nat /\ Cardinality(chain.pool) \in Nat
        /\ \A t \in chain.pool : t.nonce \in Nat
        /\ Cardinality(chain'.pool) = Cardinality(chain.pool) - 1
    <3>1. /\ chain.nonce \in Nat /\ Cardinality(chain.pool) \in Nat
          /\ \A t \in chain.pool : t.nonce \in Nat
      BY FS_CardinalityType, DeployerBoundsAssumption DEF DeployInv, DeployerTypeOK, Tx, Addrs
    <3>2. Cardinality(chain.pool \ {tx}) = Cardinality(chain.pool) - 1
      BY FS_RemoveElement DEF DeployInv
    <3> QED
      BY <1>3, <3>1, <3>2
  <2>3. \A t \in chain'.pool : /\ chain'.nonce <= t.nonce
                               /\ t.nonce < chain'.nonce + Cardinality(chain'.pool)
    <3> SUFFICES ASSUME NEW t \in chain.pool, t # tx
                 PROVE  /\ tx.nonce + 1 <= t.nonce
                        /\ t.nonce < tx.nonce + 1 + (Cardinality(chain.pool) - 1)
      BY <1>3, <2>2
    <3>1. t.nonce # tx.nonce
      BY <2>1
    <3> QED
      BY <1>1, <2>1, <2>2, <3>1
  <2>4. \A s, t \in chain'.pool : s.nonce = t.nonce => s = t
    BY <1>3, <2>1
  <2>5. \A a \in Addrs : a >= chain'.nonce => chain'.code[a] = "none"
    <3> SUFFICES ASSUME NEW a \in Addrs, a >= tx.nonce + 1 PROVE chain'.code[a] = "none"
      BY <1>3
    <3>1. a # tx.nonce /\ a >= chain.nonce
      BY <1>1, <1>2, DeployerBoundsAssumption DEF Addrs
    <3> QED
      BY <1>4, <2>1, <3>1
  <2>6. success
    BY <1>1, <1>2, <2>1, DeployerBoundsAssumption DEF Addrs
  <2>7. ASSUME dep.pc = "deploying", dep'.receipt # "none"
        PROVE  chain'.code[dep.awaited.nonce] = dep.job
    <3>1. dep.awaited \in Tx /\ dep.awaited.kind = dep.job /\ dep.job \in Jobs
      BY <2>7 DEF JobInv, DeployInv, DeployerTypeOK
    <3>2. CASE tx = dep.awaited
      BY <1>4, <2>6, <3>1, <3>2 DEF Jobs
    <3>3. CASE tx # dep.awaited
      <4>1. chain.code[dep.awaited.nonce] = dep.job /\ dep.awaited.nonce \in Addrs
        BY <1>5, <2>1, <2>7, <3>1, <3>3 DEF Tx
      <4> QED
        BY <1>4, <3>1, <4>1 DEF Jobs
    <3> QED
      BY <3>2, <3>3
  <2>8. dep.pc = "write" /\ dep.job = "burner" =>
            dep.target \in Addrs /\ chain'.code[dep.target] = "burner"
    BY <1>4, <2>1
  <2> QED
    BY <1>5, <2>3, <2>4, <2>5, <2>7, <2>8 DEF TipInv
<1>10. FilesNameUsableContracts'
  <2>1. file["paymaster"] \in Addrs \cup {None} /\ file["burner"] \in Addrs \cup {None}
    BY DEF DeployInv, DeployerTypeOK, Jobs
  <2> QED
    BY <1>1, <1>4, <2>1 DEF FilesNameUsableContracts, DeployInv
<1>11. HealInv'
  <2>1. file["paymaster"] \in Addrs \cup {None}
    BY DEF DeployInv, DeployerTypeOK, Jobs
  <2>2. Usable(file["paymaster"]) => Usable(file["paymaster"])'
    BY <1>1, <1>4, <2>1 DEF Usable
  <2>3. chain.pool # {}
    OBVIOUS
  <2> QED
    BY <1>1, <1>5, <2>2, <2>3 DEF HealInv, DeployInv
<1>12. ScriptInv'
  <2>1. Taken("send")' = Taken("send") /\ Taken("etch")' = Taken("etch")
    BY <1>5 DEF Taken
  <2> QED
    BY <1>1, <1>3, <1>5, <2>1 DEF ScriptInv, DeployInv, ScriptDoneMeansDeployed
<1>13. DeployerTypeOK'
  <2>1. dep' \in [pc : {"off", "script", "setup", "nonces", "check", "deploying",
                      "treasury", "write", "verify"},
                job : Jobs, awaited : Tx \cup {NoTx},
                receipt : {"none", "success", "reverted"}, target : Addrs \cup {None},
                script : 0..5, arrived : SUBSET Fixed, mined : 0..3,
                exit : {"none", "ok", "failed"}]
    BY <1>1 DEF DeployInv, DeployerTypeOK
  <2>2. chain'.ownTreasury \subseteq Addrs
    BY <1>3 DEF JobInv, DeployInv, DeployerTypeOK
  <2>3. chain'.nonce \in 0..MaxNonce
    BY <1>2, <1>3
  <2> QED
    BY <1>1, <1>4, <2>1, <2>2, <2>3 DEF DeployInv, DeployerTypeOK
<1> QED
  BY <1>7, <1>8, <1>9, <1>10, <1>11, <1>12, <1>13 DEF DeployInv

LEMMA DeployStep == DeployInv /\ [Next]_vars => DeployInv'
<1> SUFFICES ASSUME DeployInv, [Next]_vars PROVE DeployInv'
  OBVIOUS
<1>1. CASE UNCHANGED deployVars
  <2>1. UNCHANGED <<mode, chain, file, dep, lateNonce, hist>>
    BY <1>1 DEF deployVars
  <2>2. Taken("send")' = Taken("send") /\ Taken("etch")' = Taken("etch")
    BY <2>1 DEF Taken
  <2>3. DeployerTypeOK' /\ JobInv' /\ TipInv' /\ FilesNameUsableContracts' /\ HealInv'
    BY <2>1 DEF DeployInv, DeployerTypeOK, JobInv, TipInv, FilesNameUsableContracts, HealInv, Usable
  <2>4. ScriptInv'
    BY <2>1, <2>2 DEF DeployInv, ScriptInv, ScriptDoneMeansDeployed
  <2> QED
    BY <2>1, <2>3, <2>4 DEF DeployInv
<1>2. CASE RunDeployer
  BY <1>2, StartRunKeeps DEF RunDeployer
<1>3. CASE RestOfDeployer
  <2>1. CASE DeployerStep
    BY <2>1, ScriptStepKeeps, ScriptEndKeeps, SetUpKeeps, VerifyKeeps, SendNonceKeeps, SkipKeeps,
       DeployKeeps, DeployedKeeps, TreasurySetKeeps, WriteKeeps, JobFailsKeeps DEF DeployerStep
  <2>2. CASE ChainStep
    BY <2>2, ArriveKeeps, MineFixedKeeps, SetNonceKeeps, MineKeeps DEF ChainStep
  <2> QED
    BY <1>3, <2>1, <2>2, CrashRunKeeps, ResetKeeps DEF RestOfDeployer
<1>4. CASE Bootstrap \/ Time \/ StartApi \/ StopApi \/ SavePolicy
  BY <1>1, <1>4 DEF Bootstrap, Time, StartApi, StopApi, SavePolicy
<1>5. CASE UNCHANGED vars
  BY <1>1, <1>5 DEF vars
<1> QED
  BY <1>2, <1>3, <1>4, <1>5 DEF Next

\* Whatever fails, is killed or repeated while the chain stands, the address in the
\* paymaster's file is a paymaster whose treasury is itself, and, unless a late
\* setNonce moved the nonce back, the one in the burner's file is a gas burner.
THEOREM FilesAreUsable == Spec => []FilesNameUsableContracts
<1>1. DeployInv => FilesNameUsableContracts
  BY DEF DeployInv
<1> QED
  BY <1>1, DeployStarts, DeployStep, PTL DEF Spec

\* A deployment that ends well with nothing failing leaves a usable paymaster in the
\* file, on a new chain too, and no fixed contract is lost for want of its factory.
THEOREM DeploymentIsSound == Spec => []DeploymentSound
<1>1. DeployInv => DeploymentSound
  BY DEF DeployInv, DeploymentSound, HealInv, Usable, CleanRunHeals, ScriptInv
<1> QED
  BY <1>1, DeployStarts, DeployStep, PTL DEF Spec

-----------------------------------------------------------------------------
(* The bootstrap within the station *)

\* What holds of the bootstrap alone holds of it when the operator, the deployer and
\* the api do their steps in between: only the operator's touches its variables, and
\* the two fields it sets get values.
BootInv == BootTypeOK /\ LateInv /\ SeedsSurvive /\ LockInv /\ WaitInv

LEMMA BootStarts == Init => BootInv
<1> SUFFICES ASSUME Init PROVE BootInv
  OBVIOUS
<1>1. BootInit
  BY DEF Init
<1>2. BootTypeOK
  BY <1>1, TypeInit
<1>3. LateInv /\ SeedsSurvive /\ LockInv /\ WaitInv
  BY <1>1, LockAssumption DEF BootInit, LateInv, LateRunIsNoOp, SeedsSurvive, LockInv, WaitInv,
     GivingUpHasACause, Holding
<1> QED
  BY <1>2, <1>3 DEF BootInv

LEMMA SavePolicyKeepsBoot == ASSUME BootInv, SavePolicy PROVE BootInv'
<1>1. PICK mult \in Legal : hash' = [hash EXCEPT !["min"] = Chosen, !["mult"] = mult]
  BY DEF SavePolicy
<1>2. UNCHANGED <<done, lock, bpc, env, patience, lease, late, seeded>>
  BY DEF SavePolicy
<1>3. /\ Chosen \in Values /\ mult \in Values
      /\ Chosen # Missing /\ mult # Missing
  BY FieldsAssumption DEF FieldValues, Legal, Absent, Chosen, Default
<1>4. hash' \in [Fields -> Values]
  BY <1>1, <1>3 DEF BootInv, BootTypeOK
<1>5. \A f \in Fields : hash[f] # Missing => hash'[f] # Missing
  BY <1>1, <1>3 DEF BootInv, BootTypeOK
<1>6. BootTypeOK'
  BY <1>2, <1>4 DEF BootInv, BootTypeOK
<1>7. LateInv'
  BY <1>2 DEF BootInv, LateInv, LateRunIsNoOp
<1>8. SeedsSurvive'
  BY <1>2, <1>5 DEF BootInv, SeedsSurvive
<1>9. LockInv'
  BY <1>2 DEF BootInv, LockInv
<1>10. WaitInv'
  BY <1>2 DEF BootInv, WaitInv, GivingUpHasACause, Blamed
<1> QED
  BY <1>6, <1>7, <1>8, <1>9, <1>10 DEF BootInv

LEMMA BootKept == BootInv /\ PolicyInv /\ [Next]_vars => BootInv'
<1> SUFFICES ASSUME BootInv, PolicyInv, [Next]_vars PROVE BootInv'
  OBVIOUS
<1>1. SavePolicy \/ [BootNext \/ Tick]_bootVars
  <2>1. CASE Bootstrap
    <3>1. PICK r \in scene.runs : Start(r) \/ BootStep(r) \/ Crash(r)
      BY <2>1 DEF Bootstrap
    <3>2. r \in Runs
      BY <3>1, ScenesAssumption DEF PolicyInv
    <3> QED
      BY <3>1, <3>2 DEF BootNext
  <2>2. CASE Time
    BY <2>2 DEF Time
  <2>3. CASE RunDeployer \/ RestOfDeployer \/ StartApi \/ StopApi \/ UNCHANGED vars
    BY <2>3 DEF RunDeployer, RestOfDeployer, StartApi, StopApi, vars
  <2> QED
    BY <2>1, <2>2, <2>3 DEF Next
<1> QED
  BY <1>1, SavePolicyKeepsBoot, TypeStep, LateStep, SeedsStep, LockStep, WaitStep DEF BootInv

\* In the station every variable keeps its type.
THEOREM StationTypeCorrect == Spec => []TypeOK
<1>1. BootInv /\ PolicyInv /\ DeployInv => TypeOK
  BY DEF BootInv, PolicyInv, DeployInv, TypeOK
<1> QED
  BY <1>1, BootStarts, BootKept, PolicyStarts, PolicyStep, DeployStarts, DeployStep, PTL DEF Spec

\* Runs that overlap, crash and lose their lock, with the operator saving in between:
\* two write at once only after a lock expired, who gave up waiting had reason to, and
\* no field a run wrote is missing.
THEOREM BootstrapIsSafe ==
    Spec => [](SeedersOverlapAfterExpiry /\ GivingUpHasACause /\ SeedsSurvive)
<1>1. BootInv => SeedersOverlapAfterExpiry /\ GivingUpHasACause /\ SeedsSurvive
  <2> SUFFICES ASSUME BootInv PROVE SeedersOverlapAfterExpiry
    BY DEF BootInv, WaitInv
  <2>1. \A r \in Runs : lease[r] \in Nat
    BY LockAssumption DEF BootInv, BootTypeOK
  <2> QED
    BY <2>1 DEF BootInv, LockInv, SeedersOverlapAfterExpiry, Holding
<1> QED
  BY <1>1, BootStarts, BootKept, PolicyStarts, PolicyStep, PTL DEF Spec

=============================================================================
