------------------------- MODULE ConfigReloadProofs -------------------------
(***************************************************************************)
(* Proofs about reloading: for any number of writes and listeners, every   *)
(* listener serves the last good file that names it.                       *)
(***************************************************************************)
EXTENDS ConfigReload, DataLemmas, SequenceTheorems

-----------------------------------------------------------------------------
(* Reloading                                                               *)

\* What the watcher holds at each of its steps.
Held ==
    /\ pc \in {"build", "swap", "finish"} => content # None
    /\ pc = "build" => content.kind # "unreadable"
    /\ pc \in {"swap", "finish"} => content.kind = "ok" /\ todo \subseteq content.names
    /\ pc = "finish" => todo = {}

\* In the middle of a reload the listeners already swapped are at the new
\* generation, the others still where they were.
SwapProgress ==
    pc \in {"swap", "finish"} =>
        \A l \in Listeners :
            IF l \in content.names /\ l \notin todo
            THEN live[l] = NextGeneration
            ELSE IsLatest(live[l], l)

\* Only the newest token is not cancelled, also for threads yet to run.
HealthInv ==
    /\ token = IF pc = "finish" THEN NextGeneration ELSE Len(applied)
    /\ (probing \cup threads) \ cancelled \subseteq {token}

ReloadInv == TypeOK /\ Held /\ SwapProgress /\ AtRest /\ HealthInv

-----------------------------------------------------------------------------
LEMMA InitReload == Init => ReloadInv
<1> SUFFICES ASSUME Init PROVE ReloadInv
  OBVIOUS
<1>1. file \in Config /\ applied \in Seq(Config)
  BY DEF Init
<1>2. threads \subseteq Nat
  BY DEF Init
<1>3. TypeOK
  <2>1. writes \in 0..MaxWrites /\ channel \in 0..Capacity /\ token \in Nat
    BY ReloadAssumption DEF Init
  <2>2. live \in [Listeners -> Nat]
    BY DEF Init
  <2>3. unwatched \in BOOLEAN /\ pc \in Idle
    BY DEF Init, Idle
  <2> QED BY <1>1, <1>2, <2>1, <2>2, <2>3 DEF Init, TypeOK
<1>4. Held /\ SwapProgress
  BY DEF Init, Held, SwapProgress
<1>5. AtRest
  BY DEF Init, AtRest, IsLatest, GoodFor
<1>6. HealthInv
  BY DEF Init, HealthInv, NextGeneration
<1> QED BY <1>3, <1>4, <1>5, <1>6 DEF ReloadInv

LEMMA TypeStep == ASSUME ReloadInv, [Next]_vars PROVE TypeOK'
<1> USE ReloadAssumption DEF ReloadInv, TypeOK, Held, Idle, health, disk
<1>1. CASE WriteFile
  BY <1>1 DEF WriteFile, Config
<1>2. CASE Notify
  BY <1>2 DEF Notify, TrySend
<1>3. CASE SetupWatcher \/ Debounced
  BY <1>3 DEF SetupWatcher, Debounced
<1>11. CASE Recv \/ TryRecv
  <2>1. channel' \in 0..Capacity
    BY <1>11 DEF Recv, TryRecv
  <2> QED BY <1>11, <2>1 DEF Recv, TryRecv
<1>4. CASE ReadConfig
  BY <1>4 DEF ReadConfig
<1>5. CASE ResolvePipelines
  BY <1>5 DEF ResolvePipelines, Config
<1>6. CASE Swap
  BY <1>6 DEF Swap, NextGeneration
<1>7. CASE RespawnHealthChecks
  <2>1. Len(applied) + 1 \in Nat
    OBVIOUS
  <2>2. cancelled' \subseteq Nat /\ threads' \subseteq Nat /\ token' \in Nat
    BY <1>7, <2>1 DEF RespawnHealthChecks, NextGeneration, CancelOldChecks
  <2> QED BY <1>7, <2>2 DEF RespawnHealthChecks
<1>8. CASE Finish
  BY <1>8 DEF Finish
<1>9. CASE HealthThreadRuns
  BY <1>9 DEF HealthThreadRuns
<1>10. CASE UNCHANGED vars
  BY <1>10 DEF vars
<1> QED BY <1>1, <1>2, <1>3, <1>4, <1>5, <1>6, <1>7, <1>8, <1>9, <1>10, <1>11 DEF Next, Watcher

LEMMA HeldStep == ASSUME ReloadInv, [Next]_vars PROVE Held'
<1> USE ReloadAssumption DEF ReloadInv, TypeOK, Held, Idle, health, disk
<1>1. CASE WriteFile \/ Notify \/ HealthThreadRuns \/ UNCHANGED vars
  BY <1>1 DEF WriteFile, Notify, HealthThreadRuns, vars
<1>2. CASE SetupWatcher \/ Recv \/ Debounced \/ TryRecv
  BY <1>2 DEF SetupWatcher, Recv, Debounced, TryRecv
<1>3. CASE ReadConfig
  BY <1>3 DEF ReadConfig
<1>4. CASE ResolvePipelines
  BY <1>4 DEF ResolvePipelines
<1>5. CASE Swap
  BY <1>5 DEF Swap
<1>6. CASE RespawnHealthChecks \/ Finish
  BY <1>6 DEF RespawnHealthChecks, Finish
<1> QED BY <1>1, <1>2, <1>3, <1>4, <1>5, <1>6 DEF Next, Watcher

\* Once the configuration of a complete swap is recorded, the listeners it
\* names are at the latest generation and the others stay where they were.
LEMMA LatestAfterFinish ==
    ASSUME ReloadInv, Finish, NEW l \in Listeners
    PROVE  IsLatest(live[l], l)'
<1> USE DEF ReloadInv, TypeOK, Held, Finish, NextGeneration
<1>1. /\ applied' = Append(applied, content) /\ content \in Config /\ live' = live
      /\ content.kind = "ok" /\ todo = {} /\ applied \in Seq(Config)
  OBVIOUS
<1>2. /\ DOMAIN applied' = DOMAIN applied \cup {Len(applied) + 1}
      /\ \A g \in DOMAIN applied : applied'[g] = applied[g]
      /\ applied'[Len(applied) + 1] = content
      /\ \A g \in DOMAIN applied : g \in Nat /\ g <= Len(applied)
  BY <1>1
<1>3. CASE l \in content.names
  <2>1. live[l] = Len(applied) + 1
    BY <1>1, <1>3 DEF SwapProgress
  <2> QED BY <1>1, <1>2, <1>3, <2>1 DEF IsLatest, GoodFor
<1>4. CASE l \notin content.names
  <2>1. IsLatest(live[l], l)
    BY <1>1, <1>4 DEF SwapProgress
  <2> QED BY <1>1, <1>2, <1>4, <2>1 DEF IsLatest, GoodFor
<1> QED BY <1>3, <1>4

LEMMA SwapStep == ASSUME ReloadInv, [Next]_vars PROVE SwapProgress' /\ AtRest'
<1> USE DEF ReloadInv, TypeOK, Held, Idle, health, disk
<1>1. CASE WriteFile \/ Notify \/ HealthThreadRuns \/ UNCHANGED vars
  BY <1>1 DEF WriteFile, Notify, HealthThreadRuns, vars, SwapProgress, AtRest,
              IsLatest, GoodFor, NextGeneration
<1>2. CASE SetupWatcher \/ Recv \/ Debounced \/ TryRecv \/ ReadConfig
  BY <1>2 DEF SetupWatcher, Recv, Debounced, TryRecv, ReadConfig, SwapProgress, AtRest,
              IsLatest, GoodFor, NextGeneration
<1>3. CASE ResolvePipelines
  BY <1>3 DEF ResolvePipelines, SwapProgress, AtRest, IsLatest, GoodFor, NextGeneration
<1>4. CASE Swap
  <2>1. PICK n \in todo : /\ todo' = todo \ {n}
                          /\ live' = [l \in Listeners |-> IF l = n THEN NextGeneration ELSE live[l]]
    BY <1>4 DEF Swap
  <2>2. pc = "swap" /\ pc' = "swap" /\ content' = content /\ applied' = applied
    BY <1>4 DEF Swap
  <2>3. ASSUME NEW l \in Listeners
        PROVE  IF l \in content.names /\ l \notin todo'
               THEN live'[l] = NextGeneration ELSE IsLatest(live'[l], l)
    <3>1. CASE l = n
      BY <2>1, <2>2, <2>3, <3>1 DEF SwapProgress
    <3>2. CASE l # n
      BY <2>1, <2>2, <2>3, <3>2 DEF SwapProgress
    <3> QED BY <3>1, <3>2
  <2>4. SwapProgress'
    BY <2>2, <2>3 DEF SwapProgress, NextGeneration, IsLatest, GoodFor
  <2> QED BY <2>2, <2>4 DEF AtRest
<1>5. CASE RespawnHealthChecks
  BY <1>5 DEF RespawnHealthChecks, SwapProgress, AtRest, IsLatest, GoodFor, NextGeneration
<1>6. CASE Finish
  <2>1. pc' = "recv"
    BY <1>6 DEF Finish
  <2> QED BY <1>6, <2>1, LatestAfterFinish DEF SwapProgress, AtRest
<1> QED BY <1>1, <1>2, <1>3, <1>4, <1>5, <1>6 DEF Next, Watcher

LEMMA HealthStep == ASSUME ReloadInv, [Next]_vars PROVE HealthInv'
<1> USE DEF ReloadInv, TypeOK, Idle, health, disk, HealthInv, NextGeneration
<1>1. CASE WriteFile \/ Notify \/ UNCHANGED vars
  BY <1>1 DEF WriteFile, Notify, vars
<1>2. CASE SetupWatcher \/ Recv \/ Debounced \/ TryRecv \/ ReadConfig
  BY <1>2 DEF SetupWatcher, Recv, Debounced, TryRecv, ReadConfig
<1>3. CASE ResolvePipelines \/ Swap
  BY <1>3 DEF ResolvePipelines, Swap
<1>4. CASE RespawnHealthChecks
  BY <1>4 DEF RespawnHealthChecks, CancelOldChecks
<1>5. CASE Finish
  BY <1>5 DEF Finish, Held
<1>6. CASE HealthThreadRuns
  BY <1>6 DEF HealthThreadRuns
<1> QED BY <1>1, <1>2, <1>3, <1>4, <1>5, <1>6 DEF Next, Watcher

LEMMA ReloadInvariant == Spec => []ReloadInv
<1>1. ReloadInv /\ [Next]_vars => ReloadInv'
  BY TypeStep, HeldStep, SwapStep, HealthStep DEF ReloadInv
<1> QED BY <1>1, InitReload, PTL DEF Spec

-----------------------------------------------------------------------------
\* The state of file, channel, watcher and health checks is well-typed, for
\* any number of writes and listeners.
THEOREM ReloadTypeCorrect == Spec => []TypeOK
<1>1. ReloadInv => TypeOK
  BY DEF ReloadInv
<1> QED BY <1>1, ReloadInvariant, PTL

\* reload_pipelines and handle_reload: whenever no swap is under way every
\* listener serves the last good configuration that names it.
THEOREM ListenersAtRest == Spec => []AtRest
<1>1. ReloadInv => AtRest
  BY DEF ReloadInv
<1> QED BY <1>1, ReloadInvariant, PTL

\* respawn_health_checks: at most one generation of health checks is running,
\* and between reloads it is the current one's.
THEOREM OneHealthGeneration == Spec => []OneGeneration
<1>1. ASSUME ReloadInv PROVE OneGeneration
  <2>1. probing \ cancelled \in SUBSET {token}
    BY <1>1 DEF ReloadInv, HealthInv
  <2>2. IsFiniteSet({token}) /\ Cardinality({token}) = 1
    BY FS_Singleton
  <2>3. /\ Cardinality(probing \ cancelled) <= Cardinality({token})
        /\ IsFiniteSet(probing \ cancelled)
    BY <2>1, <2>2, FS_Subset
  <2>4. Cardinality(probing \ cancelled) <= 1
    BY <2>2, <2>3
  <2>5. pc \in Idle => token = Len(applied)
    BY <1>1 DEF ReloadInv, HealthInv, Idle
  <2> QED BY <2>1, <2>4, <2>5 DEF OneGeneration
<1> QED BY <1>1, ReloadInvariant, PTL
=============================================================================
