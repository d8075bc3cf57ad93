---------------------------- MODULE MapperProofs ----------------------------
(***************************************************************************)
(* Theorems about the mapper, for every mesh, every scenario and every     *)
(* placement of the dynamic tasks.                                         *)
(***************************************************************************)
EXTENDS MapperInvariant, FiniteSetTheorems, TLAPS

-----------------------------------------------------------------------------
(* Counting.                                                               *)

LEMMA CountNat ==
  ASSUME NEW S, IsFiniteSet(S), NEW T \in SUBSET S
  PROVE  IsFiniteSet(T) /\ Cardinality(T) \in Nat
BY FS_Subset, FS_CardinalityType

LEMMA TasksCountNat ==
  ASSUME NEW T \in SUBSET Tasks
  PROVE  IsFiniteSet(T) /\ Cardinality(T) \in Nat
BY CountNat, ConstantsAssumption

LEMMA PairsFinite == IsFiniteSet(Tasks \X PEs)
BY FS_Product, ConstantsAssumption

LEMMA PairsCountNat ==
  ASSUME NEW T \in SUBSET (Tasks \X PEs)
  PROVE  IsFiniteSet(T) /\ Cardinality(T) \in Nat
BY CountNat, PairsFinite

LEMMA RanksCountNat ==
  ASSUME NEW n \in Nat, NEW k \in Nat, NEW T \in SUBSET (PEs \X (k .. n))
  PROVE  IsFiniteSet(T) /\ Cardinality(T) \in Nat
<1>1. IsFiniteSet(k .. n)
  BY FS_Interval
<1>2. IsFiniteSet(PEs \X (k .. n))
  BY <1>1, FS_Product, ConstantsAssumption
<1> QED
  BY <1>2, CountNat

LEMMA TaskCntNat ==
  ASSUME NEW a
  PROVE  TaskCnt(a) \in Nat /\ \A p : Cardinality(StaticAt(a, p)) \in Nat
<1>1. AppTasks(a) \in SUBSET Tasks /\ \A p : StaticAt(a, p) \in SUBSET Tasks
  BY DEF AppTasks, StaticAt
<1> QED
  BY <1>1, TasksCountNat DEF TaskCnt

LEMMA CapacityNat == Capacity \in Nat
BY FS_CardinalityType, ConstantsAssumption DEF Capacity

-----------------------------------------------------------------------------
(* Types.                                                                  *)

LEMMA ReservedType ==
  ASSUME NEW m \in MapType, NEW a
  PROVE  Reserved(m, a) \in MapType
<1>7. \A p \in PEs : Cardinality(StaticAt(a, p)) \in Nat
  BY TaskCntNat
<1>1. [p \in PEs |-> m.reserved[p] + Cardinality(StaticAt(a, p))] \in [PEs -> Int]
  BY <1>7 DEF MapType
<1> QED
  BY <1>1 DEF Reserved, MapType

LEMMA ReservationFailuresNat ==
  ASSUME NEW m, NEW a
  PROVE  ReservationFailures(m, a) \in Nat
<1>1. TaskCnt(a) \in Nat
  BY TaskCntNat
<1> QED
  BY <1>1, RanksCountNat DEF ReservationFailures

LEMMA PushedType ==
  ASSUME NEW m \in MapType, NEW a \in Apps, NEW place \in [AppTasks(a) -> PEs]
  PROVE  Pushed(m, a, place) \in MapType
<1> DEFINE given(p) == Cardinality({t \in AppTasks(a) : place[t] = p})
           fixed(p) == Cardinality(StaticAt(a, p))
           new == {<<t, place[t]>> : t \in AppTasks(a)}
           n == TaskCnt(a)
<1>1. n \in Nat /\ \A p \in PEs : given(p) \in Nat /\ fixed(p) \in Nat
  BY TaskCntNat, TasksCountNat DEF AppTasks
<1>2. new \subseteq Tasks \X PEs
  BY DEF AppTasks
<1> HIDE DEF given, fixed, new, n
<1>3. /\ [p \in PEs |-> m.free[p] - given(p)] \in [PEs -> Int]
      /\ [p \in PEs |-> m.reserved[p] - fixed(p)] \in [PEs -> Int]
      /\ m.slots - n \in Int /\ m.held \cup new \subseteq Tasks \X PEs
      /\ m.apps \cup {a} \subseteq Apps
  BY <1>1, <1>2 DEF MapType
<1>4. [m EXCEPT !.slots = @ - n, !.free = [p \in PEs |-> m.free[p] - given(p)],
                !.reserved = [p \in PEs |-> m.reserved[p] - fixed(p)],
                !.held = @ \cup new, !.apps = @ \cup {a}] \in MapType
  BY <1>3 DEF MapType
<1> QED
  BY <1>4 DEF Pushed, given, fixed, new, n

LEMMA FreedType ==
  ASSUME NEW m \in MapType, NEW pairs, IsFiniteSet(pairs)
  PROVE  Freed(m, pairs) \in MapType
<1> DEFINE back(p) == Cardinality(At(pairs \cap m.held, p))
           n == Cardinality(pairs)
<1>1. n \in Nat
  BY FS_CardinalityType
<1>2. ASSUME NEW p \in PEs
      PROVE  back(p) \in Nat
  <2>1. At(pairs \cap m.held, p) \in SUBSET pairs
    BY DEF At
  <2> QED
    BY <2>1, CountNat
<1> HIDE DEF back, n
<1>3. /\ [p \in PEs |-> m.free[p] + back(p)] \in [PEs -> Int]
      /\ m.slots + n \in Int /\ m.held \ pairs \subseteq Tasks \X PEs
  BY <1>1, <1>2 DEF MapType
<1>4. [m EXCEPT !.slots = @ + n, !.free = [p \in PEs |-> m.free[p] + back(p)],
                !.held = @ \ pairs] \in MapType
  BY <1>3 DEF MapType
<1> QED
  BY <1>4 DEF Freed, back, n

LEMMA PagesFinite ==
  ASSUME TypeOK, NEW S \in SUBSET Tasks
  PROVE  /\ PagesOf(S) \in SUBSET (Tasks \X (PEs \cup {NoPE}))
         /\ IsFiniteSet(PagesOf(S))
<1>1. PagesOf(S) \in SUBSET (Tasks \X (PEs \cup {NoPE}))
  BY DEF PagesOf, TypeOK
<1>2. IsFiniteSet(PEs \cup {NoPE})
  BY FS_AddElement, ConstantsAssumption
<1>3. IsFiniteSet(Tasks \X (PEs \cup {NoPE}))
  BY <1>2, FS_Product, ConstantsAssumption
<1> QED
  BY <1>1, <1>3, CountNat

LEMMA ReleasedType ==
  ASSUME TypeOK, NEW m \in MapType, NEW S \in SUBSET Tasks
  PROVE  Released(m, S) \in MapType
<1> DEFINE pairs == PagesOf(S)
<1>1. IsFiniteSet(pairs)
  BY PagesFinite
<1>2. Freed(m, pairs) \in MapType
  BY <1>1, FreedType
<1>3. Cardinality(pairs) \in Nat
  BY <1>1, FS_CardinalityType
<1>4. Unblocked(m, pairs) \in Nat
  BY <1>3, RanksCountNat DEF Unblocked
<1> HIDE DEF pairs
<1>5. [Freed(m, pairs) EXCEPT
         !.failed = IF pending = NoApp THEN @ ELSE @ - Unblocked(m, pairs)] \in MapType
  BY <1>2, <1>4 DEF MapType
<1> QED
  BY <1>5 DEF Released, pairs

LEMMA MapDoType ==
  ASSUME TypeOK, NEW m \in MapType, NEW a \in Apps, NEW place \in Placements(m, a),
         MapDo(m, a, place)
  PROVE  /\ map' \in MapType /\ pe' \in [Tasks -> PEs \cup {NoPE}]
         /\ kernel' \in [Tasks -> KernelStates] /\ at' \in [Tasks -> PEs \cup {NoPE}]
         /\ moving' = moving /\ appid_cnt' \in Nat /\ injecting' \in BOOLEAN
<1> DEFINE pushed == Pushed(m, a, place)
           S == AppTasks(a) \ {MapperTask}
<1>1. place \in [AppTasks(a) -> PEs] /\ AppTasks(a) \subseteq Tasks
  BY DEF Placements, AppTasks
<1>2. pushed \in MapType
  BY <1>1, PushedType
<1>3. /\ pe' = [t \in Tasks |-> IF t \in AppTasks(a) THEN place[t] ELSE pe[t]]
      /\ kernel' = [t \in Tasks |-> IF t \in S THEN "assigned" ELSE kernel[t]]
      /\ at' = [t \in Tasks |-> IF t \in S THEN place[t] ELSE at[t]]
      /\ moving' = moving
  BY DEF MapDo, Assign
<1>4. \/ map' = pushed
      \/ map' = [pushed EXCEPT !.allocated[a] = pushed.allocated[a] + 1]
  BY DEF MapDo
<1>5. appid_cnt' \in {appid_cnt, appid_cnt + 1} /\ injecting' \in BOOLEAN
  BY DEF MapDo, MappingComplete
<1> HIDE DEF pushed
<1>6. map' \in MapType
  BY <1>2, <1>4 DEF MapType
<1> QED
  BY <1>1, <1>3, <1>5, <1>6 DEF TypeOK, KernelStates

LEMMA VerifyPendingType ==
  ASSUME TypeOK, NEW m \in MapType, VerifyPending(m)
  PROVE  /\ map' \in MapType /\ pe' \in [Tasks -> PEs \cup {NoPE}]
         /\ kernel' \in [Tasks -> KernelStates] /\ at' \in [Tasks -> PEs \cup {NoPE}]
         /\ moving' = moving /\ appid_cnt' \in Nat /\ injecting' \in BOOLEAN
         /\ pending' \in Apps \cup {NoApp}
<1>1. CASE CanResume(m)
  <2>1. pending \in Apps /\ pending' = NoApp
    BY <1>1 DEF VerifyPending, CanResume, TypeOK
  <2>2. PICK place \in Placements(m, pending) : MapDo(m, pending, place)
    BY <1>1 DEF VerifyPending
  <2> QED
    BY <2>1, <2>2, MapDoType
<1>2. CASE ~CanResume(m)
  BY <1>2 DEF VerifyPending, TypeOK, kernelVars
<1> QED
  BY <1>1, <1>2

LEMMA TypeInit == Init => TypeOK
<1> SUFFICES ASSUME Init PROVE TypeOK
  OBVIOUS
<1>1. map \in MapType
  BY CapacityNat, ConstantsAssumption DEF Init, MapType
<1>2. /\ at \in [Tasks -> PEs \cup {NoPE}]
      /\ kernel \in [Tasks -> KernelStates]
  BY ConstantsAssumption DEF Init, KernelStates
<1>3. /\ finished_cnt \in Nat /\ appid_cnt \in Nat /\ pending \in Apps \cup {NoApp}
      /\ injected \in 0 .. AppCnt
  BY ConstantsAssumption DEF Init
<1>4. /\ status \in [Tasks -> Statuses]
      /\ mail \in [Tasks -> SUBSET Services]
  BY DEF Init, Statuses
<1> QED
  BY <1>1, <1>2, <1>3, <1>4 DEF Init, TypeOK

-----------------------------------------------------------------------------
(* The steps of the environment.                                           *)

LEMMA EnvironmentStep ==
  ASSUME Inv, TypeOK', UNCHANGED <<mapperVars, injected, injecting>>,
         aborting' \subseteq aborting,
         \A t \in Tasks : TaskInv(t)',
         \A t \in Tasks : AppOf[t] = appid_cnt =>
           ((kernel'[t] = "blocked" /\ mail'[t] = {})
              <=> (kernel[t] = "blocked" /\ mail[t] = {}))
  PROVE  Inv'
<1>4. /\ map' = map /\ appid_cnt' = appid_cnt /\ pending' = pending
      /\ status' = status /\ pe' = pe /\ old_pe' = old_pe
      /\ injected' = injected /\ injecting' = injecting
  BY DEF mapperVars
<1>1. InjectionInv'
  BY <1>4 DEF Inv, InjectionInv
<1>2. HeldInv'
  BY <1>4 DEF Inv, HeldInv, Listed
<1>3. AllocatedInv'
  <2>1. ASSUME NEW a \in Apps, a \in map.apps
        PROVE  Counted(a)' = Counted(a)
    <3>1. a <= appid_cnt
      BY <2>1 DEF Inv, InjectionInv
    <3>2. \A t \in AppTasks(a) : t \in Tasks /\ AppOf[t] = a
      BY DEF AppTasks
    <3> QED
      BY <1>4, <3>1, <3>2 DEF Counted, AppTasks, Inv, TypeOK, Apps
  <2> QED
    BY <1>4, <2>1 DEF Inv, AllocatedInv
<1>5. AbortingInv'
  BY <1>4 DEF Inv, AbortingInv
<1> QED
  BY <1>1, <1>2, <1>3, <1>5 DEF Inv

LEMMA Phases ==
  ASSUME Inv, NEW t \in Tasks
  PROVE  /\ AppOf[t] \in Apps /\ AppOf[t] \in Int /\ appid_cnt \in Nat
         /\ \/ Future(t) /\ FutureInv(t)
            \/ Loading(t) /\ LoadingInv(t)
            \/ AppOf[t] < appid_cnt /\ StartedInv(t) /\ (Listed(t) => ListedInv(t))
<1>1. AppOf[t] \in Apps /\ AppOf[t] \in Int /\ appid_cnt \in Nat
  BY ConstantsAssumption DEF Inv, TypeOK, Apps
<1>2. Future(t) \/ Loading(t) \/ AppOf[t] < appid_cnt
  BY <1>1 DEF Future, Loading
<1> QED
  BY <1>1, <1>2 DEF Inv, TaskInv

LEMMA LoadingPhase ==
  ASSUME Inv, NEW t \in Tasks,
         kernel[t] \in {"assigned", "blocked"} \/ "TASK_ALLOCATED" \in mail[t]
  PROVE  Loading(t) /\ LoadingInv(t) /\ t # MapperTask
BY Phases DEF FutureInv, StartedInv, LoadingInv

LEMMA StartedPhase ==
  ASSUME Inv, NEW t \in Tasks,
         \/ kernel[t] \in {"released", "gone"}
         \/ kernel[t] = "running" /\ AppOf[t] # 0
         \/ moving[t] # NoPE
         \/ t \in asked
         \/ mail[t] \cap {"TASK_MIGRATED", "TASK_TERMINATED", "TASK_ABORTED"} # {}
  PROVE  AppOf[t] < appid_cnt /\ StartedInv(t) /\ (Listed(t) => ListedInv(t))
BY Phases, ConstantsAssumption DEF FutureInv, LoadingInv

\* A step keeps the invariant of a task it does not touch.
LEMMA TaskFrame ==
  ASSUME Inv, NEW u \in Tasks,
         Listed(u)' = Listed(u), appid_cnt' = appid_cnt,
         status'[u] = status[u], pe'[u] = pe[u], old_pe'[u] = old_pe[u],
         kernel'[u] = kernel[u], at'[u] = at[u], moving'[u] = moving[u],
         mail'[u] = mail[u], u \in asked' => u \in asked
  PROVE  TaskInv(u)'
<1>1. TaskInv(u)
  BY DEF Inv
<1> QED
  BY <1>1 DEF TaskInv, Future, FutureInv, Loading, LoadingInv, StartedInv, ListedInv

LEMMA StepLoad ==
  ASSUME Inv, NEW t \in Tasks, Load(t)
  PROVE  Inv'
<1>1. TypeOK'
  BY DEF Load, Inv, TypeOK, mapperVars, KernelStates, Services
<1>2. Loading(t) /\ LoadingInv(t) /\ mail[t] = {} /\ t # MapperTask
  BY LoadingPhase DEF Load, LoadingInv
<1>3. /\ kernel' = [kernel EXCEPT ![t] = "blocked"]
      /\ mail' = [mail EXCEPT ![t] = {"TASK_ALLOCATED"}]
      /\ UNCHANGED <<mapperVars, injected, injecting, at, moving, asked>>
  BY <1>2 DEF Load, Inv, TypeOK
<1>4. ASSUME NEW u \in Tasks
      PROVE  TaskInv(u)'
  <2>1. CASE u = t
    BY <1>2, <1>3, <2>1 DEF Inv, TypeOK, TaskInv, Future, Loading, LoadingInv, Listed, mapperVars
  <2>2. CASE u # t
    BY <1>3, <2>2, TaskFrame DEF Inv, TypeOK, mapperVars, Listed
  <2> QED
    BY <2>1, <2>2
<1> QED
  BY <1>1, <1>2, <1>3, <1>4, EnvironmentStep DEF Load, Inv, TypeOK

LEMMA StepStart ==
  ASSUME Inv, NEW t \in Tasks, Start(t)
  PROVE  Inv'
<1>1. TypeOK'
  BY DEF Start, Inv, TypeOK, mapperVars, KernelStates
<1>2. AppOf[t] < appid_cnt /\ StartedInv(t) /\ (Listed(t) => ListedInv(t))
  BY StartedPhase DEF Start
<1>3. /\ kernel' = [kernel EXCEPT ![t] = "running"] /\ kernel[t] = "released"
      /\ UNCHANGED <<mapperVars, injected, injecting, at, moving, mail, asked>>
  BY DEF Start
<1>4. ASSUME NEW u \in Tasks
      PROVE  TaskInv(u)'
  <2>1. CASE u = t
    <3>1. ~Future(t)' /\ ~Loading(t)'
      BY <1>2, <1>3, Phases DEF Future, Loading, Listed, mapperVars
    <3>2. StartedInv(t)' /\ (Listed(t)' => ListedInv(t)')
      BY <1>2, <1>3 DEF StartedInv, ListedInv, Listed, mapperVars, Inv, TypeOK
    <3> QED
      BY <2>1, <3>1, <3>2 DEF TaskInv
  <2>2. CASE u # t
    BY <1>3, <2>2, TaskFrame DEF Inv, TypeOK, mapperVars, Listed
  <2> QED
    BY <2>1, <2>2
<1> QED
  BY <1>1, <1>2, <1>3, <1>4, EnvironmentStep DEF Start, Inv, TypeOK

LEMMA StepEnd ==
  ASSUME Inv, NEW t \in Tasks, NEW s \in {"TASK_TERMINATED", "TASK_ABORTED"}, End(t, s)
  PROVE  Inv'
<1>1. TypeOK'
  BY DEF End, Inv, TypeOK, mapperVars, KernelStates, Services
<1>2. AppOf[t] < appid_cnt /\ StartedInv(t) /\ (Listed(t) => ListedInv(t))
  BY StartedPhase DEF End
<1>3. /\ kernel' = [kernel EXCEPT ![t] = "gone"] /\ kernel[t] = "running"
      /\ moving' = [moving EXCEPT ![t] = NoPE]
      /\ mail' = [mail EXCEPT ![t] = @ \cup {s}]
      /\ UNCHANGED <<mapperVars, injected, injecting, at, asked>>
  BY DEF End
<1>4. ASSUME NEW u \in Tasks
      PROVE  TaskInv(u)'
  <2>1. CASE u = t
    <3>1. ~Future(t)' /\ ~Loading(t)'
      BY <1>2, <1>3, Phases DEF Future, Loading, Listed, mapperVars
    <3>2. StartedInv(t)'
      BY <1>2, <1>3 DEF StartedInv, Inv, TypeOK
    <3>3. ASSUME Listed(t)
          PROVE  ListedInv(t)'
      BY <1>2, <1>3, <3>3 DEF ListedInv, Listed, mapperVars, Inv, TypeOK
    <3>4. Listed(t)' = Listed(t)
      BY <1>3 DEF Listed, mapperVars
    <3> QED
      BY <2>1, <3>1, <3>2, <3>3, <3>4 DEF TaskInv
  <2>2. CASE u # t
    BY <1>3, <2>2, TaskFrame DEF Inv, TypeOK, mapperVars, Listed
  <2> QED
    BY <2>1, <2>2
<1> QED
  BY <1>1, <1>2, <1>3, <1>4, EnvironmentStep DEF End, Inv, TypeOK

LEMMA StepMigrate ==
  ASSUME Inv, NEW t \in Tasks, Migrate(t)
  PROVE  Inv'
<1>1. TypeOK'
  BY DEF Migrate, Inv, TypeOK, mapperVars, Services
<1>2. AppOf[t] < appid_cnt /\ StartedInv(t) /\ (Listed(t) => ListedInv(t))
  BY StartedPhase DEF Migrate
<1>3. /\ at' = [at EXCEPT ![t] = moving[t]] /\ moving[t] # NoPE
      /\ moving' = [moving EXCEPT ![t] = NoPE]
      /\ mail' = [mail EXCEPT ![t] = @ \cup {"TASK_MIGRATED"}]
      /\ UNCHANGED <<mapperVars, injected, injecting, kernel, asked>>
  BY DEF Migrate
<1>4. ASSUME NEW u \in Tasks
      PROVE  TaskInv(u)'
  <2>1. CASE u = t
    <3>1. ~Future(t)' /\ ~Loading(t)'
      BY <1>2, <1>3, Phases DEF Future, Loading, Listed, mapperVars
    <3>2. StartedInv(t)'
      BY <1>2, <1>3 DEF StartedInv, Inv, TypeOK
    <3>3. ASSUME Listed(t)
          PROVE  ListedInv(t)'
      BY <1>2, <1>3, <3>3 DEF ListedInv, StartedInv, Listed, mapperVars, Inv, TypeOK, Statuses
    <3>4. Listed(t)' = Listed(t)
      BY <1>3 DEF Listed, mapperVars
    <3> QED
      BY <2>1, <3>1, <3>2, <3>3, <3>4 DEF TaskInv
  <2>2. CASE u # t
    BY <1>3, <2>2, TaskFrame DEF Inv, TypeOK, mapperVars, Listed
  <2> QED
    BY <2>1, <2>2
<1> QED
  BY <1>1, <1>2, <1>3, <1>4, EnvironmentStep DEF Migrate, Inv, TypeOK

LEMMA StepAskMigration ==
  ASSUME Inv, NEW t \in Tasks, AskMigration(t)
  PROVE  Inv'
<1>1. TypeOK'
  BY DEF AskMigration, Inv, TypeOK, mapperVars, kernelVars
<1>2. AppOf[t] < appid_cnt /\ StartedInv(t) /\ (Listed(t) => ListedInv(t))
  BY StartedPhase, ManagementAssumption DEF AskMigration
<1>3. /\ asked' = asked \cup {t} /\ kernel[t] = "running"
      /\ UNCHANGED <<mapperVars, injected, injecting, kernel, at, moving, mail, aborting>>
  BY DEF AskMigration, kernelVars
<1>4. ASSUME NEW u \in Tasks
      PROVE  TaskInv(u)'
  <2>1. CASE u = t
    BY <1>2, <1>3, <2>1, Phases
       DEF TaskInv, Future, Loading, StartedInv, ListedInv, Listed, mapperVars
  <2>2. CASE u # t
    BY <1>3, <2>2, TaskFrame DEF Inv, TypeOK, mapperVars, Listed
  <2> QED
    BY <2>1, <2>2
<1> QED
  BY <1>1, <1>2, <1>3, <1>4, EnvironmentStep

LEMMA StepAbortTask ==
  ASSUME Inv, NEW t \in Tasks, NEW p \in PEs, AbortTask(t, p)
  PROVE  Inv'
<1>1. TypeOK'
  BY DEF AbortTask, Inv, TypeOK, mapperVars, KernelStates
<1>2. AppOf[t] < appid_cnt /\ StartedInv(t) /\ ~Listed(t)
  BY Phases DEF AbortTask, Inv, AbortingInv, Future, Loading, Listed
<1>3. /\ UNCHANGED <<mapperVars, injected, injecting, at, mail, asked>>
      /\ aborting' \subseteq aborting
      /\ \/ UNCHANGED <<kernel, moving>>
         \/ /\ kernel' = [kernel EXCEPT ![t] = "gone"]
            /\ moving' = [moving EXCEPT ![t] = NoPE]
  BY DEF AbortTask
<1>4. ASSUME NEW u \in Tasks
      PROVE  TaskInv(u)'
  <2>1. CASE u = t
    <3>1. ~Future(t)' /\ ~Loading(t)' /\ ~Listed(t)'
      BY <1>2, <1>3, Phases DEF Future, Loading, Listed, mapperVars
    <3>2. StartedInv(t)'
      BY <1>2, <1>3 DEF StartedInv, Inv, TypeOK
    <3> QED
      BY <2>1, <3>1, <3>2 DEF TaskInv
  <2>2. CASE u # t
    BY <1>3, <2>2, TaskFrame DEF Inv, TypeOK, mapperVars, Listed
  <2> QED
    BY <2>1, <2>2
<1> QED
  BY <1>1, <1>2, <1>3, <1>4, EnvironmentStep DEF Inv, TypeOK

-----------------------------------------------------------------------------
(* The handlers that neither map nor release an application.               *)

LEMMA StepRequestFinish ==
  ASSUME Inv, RequestFinish
  PROVE  Inv'
<1>1. TypeOK'
  BY DEF RequestFinish, Inv, TypeOK, kernelVars
<1>2. /\ UNCHANGED <<map, appid_cnt, pending, status, pe, old_pe, injected, injecting,
                     kernel, at, moving, mail, asked, aborting>>
  BY DEF RequestFinish, kernelVars
<1>3. \A u \in Tasks : TaskInv(u)'
  BY <1>2, TaskFrame DEF Listed
<1>4. \A a : Counted(a)' = Counted(a)
  BY <1>2 DEF Counted
<1>5. InjectionInv' /\ HeldInv' /\ AllocatedInv' /\ AbortingInv'
  BY <1>2, <1>4 DEF Inv, InjectionInv, HeldInv, AllocatedInv, AbortingInv, Listed
<1> QED
  BY <1>1, <1>3, <1>5 DEF Inv

LEMMA StepPeHalted ==
  ASSUME Inv, NEW p \in PEs, PeHalted(p)
  PROVE  Inv'
<1>1. TypeOK'
  BY DEF PeHalted, Inv, TypeOK, kernelVars
<1>2. /\ UNCHANGED <<map, appid_cnt, pending, status, pe, old_pe, injected, injecting,
                     kernel, at, moving, mail, asked, aborting>>
  BY DEF PeHalted, kernelVars
<1>3. \A u \in Tasks : TaskInv(u)'
  BY <1>2, TaskFrame DEF Listed
<1>4. \A a : Counted(a)' = Counted(a)
  BY <1>2 DEF Counted
<1>5. InjectionInv' /\ HeldInv' /\ AllocatedInv' /\ AbortingInv'
  BY <1>2, <1>4 DEF Inv, InjectionInv, HeldInv, AllocatedInv, AbortingInv, Listed
<1> QED
  BY <1>1, <1>3, <1>5 DEF Inv

LEMMA StepMigrationMap ==
  ASSUME Inv, NEW t \in Tasks, MigrationMap(t)
  PROVE  Inv'
<1>1. AppOf[t] < appid_cnt /\ StartedInv(t) /\ (Listed(t) => ListedInv(t))
  BY StartedPhase DEF MigrationMap
<1>2. /\ UNCHANGED <<appid_cnt, pending, finished, finished_cnt, injected, injecting, kernel,
                     at, mail, aborting, halting>>
      /\ asked' = asked \ {t}
  BY DEF MigrationMap
<1>3. CASE UNCHANGED <<map, status, pe, old_pe, moving>>
  <2>1. TypeOK'
    BY <1>2, <1>3 DEF Inv, TypeOK
  <2>2. \A u \in Tasks : TaskInv(u)'
    BY <1>2, <1>3, TaskFrame DEF Listed
  <2>3. \A a : Counted(a)' = Counted(a)
    BY <1>2, <1>3 DEF Counted
  <2>4. InjectionInv' /\ HeldInv' /\ AllocatedInv' /\ AbortingInv'
    BY <1>2, <1>3, <2>3 DEF Inv, InjectionInv, HeldInv, AllocatedInv, AbortingInv, Listed
  <2> QED
    BY <2>1, <2>2, <2>4 DEF Inv
<1>4. ASSUME Listed(t), status[t] \notin {"TERMINATED", "MIGRATING"},
             NEW target \in PEs, target # pe[t],
             map' = [map EXCEPT !.slots = @ - 1, !.free[target] = @ - 1,
                                !.held = @ \cup {<<t, target>>}],
             old_pe' = [old_pe EXCEPT ![t] = pe[t]],
             pe' = [pe EXCEPT ![t] = target],
             status' = [status EXCEPT ![t] = "MIGRATING"],
             moving' = IF kernel[t] = "running" THEN [moving EXCEPT ![t] = target] ELSE moving
      PROVE  Inv'
  <2>1. ListedInv(t) /\ status[t] \in {"BLOCKED", "RUNNING"}
    BY <1>1, <1>4 DEF Inv, TypeOK, Statuses
  <2>2. map' \in MapType
    <3> DEFINE f == [map.free EXCEPT ![target] = @ - 1]
               h == map.held \cup {<<t, target>>}
    <3>1. /\ map \in MapType /\ f \in [PEs -> Int] /\ h \in SUBSET (Tasks \X PEs)
          /\ map.slots - 1 \in Int
      BY DEF Inv, TypeOK, MapType
    <3>2. map' = [map EXCEPT !.slots = @ - 1, !.free = f, !.held = h]
      BY <1>4, <3>1 DEF MapType
    <3> HIDE DEF f, h
    <3> QED
      BY <3>1, <3>2 DEF MapType
  <2>3. TypeOK'
    <3>1. /\ moving' \in [Tasks -> PEs \cup {NoPE}] /\ pe' \in [Tasks -> PEs \cup {NoPE}]
          /\ old_pe' \in [Tasks -> PEs \cup {NoPE}] /\ status' \in [Tasks -> Statuses]
      BY <1>4, <2>1 DEF Inv, TypeOK, ListedInv, Statuses
    <3>2. asked' \subseteq Tasks
      BY <1>2 DEF Inv, TypeOK
    <3> QED
      BY <1>2, <2>2, <3>1, <3>2 DEF Inv, TypeOK
  <2>4. /\ map'.apps = map.apps /\ map'.allocated = map.allocated
        /\ map'.held = map.held \cup {<<t, target>>}
    BY <1>4 DEF Inv, TypeOK, MapType
  <2>5. t \in asked
    BY DEF MigrationMap
  <2>6. ASSUME NEW u \in Tasks
        PROVE  TaskInv(u)'
    <3>1. CASE u = t
      <4>1. ~Future(t)' /\ ~Loading(t)'
        BY <1>1, <1>2, <2>4, Phases DEF Future, Loading, Listed
      <4>2. StartedInv(t)'
        BY <1>1, <1>2, <1>4, <2>5 DEF StartedInv, Inv, TypeOK
      <4>3. ListedInv(t)'
        BY <1>1, <1>2, <1>4, <2>1, <2>5 DEF ListedInv, StartedInv, Inv, TypeOK
      <4> QED
        BY <3>1, <4>1, <4>2, <4>3 DEF TaskInv
    <3>2. CASE u # t
      BY <1>2, <1>4, <2>4, <3>2, TaskFrame DEF Inv, TypeOK, Listed
    <3> QED
      BY <3>1, <3>2
  <2>7. InjectionInv' /\ AbortingInv'
    BY <1>2, <2>4 DEF Inv, InjectionInv, AbortingInv
  <2>8. HeldInv'
    <3> SUFFICES ASSUME NEW u \in Tasks, NEW p \in PEs
                 PROVE  <<u, p>> \in map'.held <=>
                          /\ AppOf[u] \in map'.apps /\ status'[u] # "TERMINATED"
                          /\ p \in {pe'[u], old_pe'[u]}
      BY DEF HeldInv, Listed
    <3>1. CASE u = t
      BY <1>4, <2>1, <2>4, <3>1, ConstantsAssumption DEF Inv, TypeOK, HeldInv, Listed, ListedInv
    <3>2. CASE u # t
      BY <1>4, <2>4, <3>2 DEF Inv, TypeOK, HeldInv, Listed
    <3> QED
      BY <3>1, <3>2
  <2>9. AllocatedInv'
    <3>1. ASSUME NEW a \in Apps
          PROVE  Counted(a)' = Counted(a)
      <4>1. \A u \in AppTasks(a) : u \in Tasks
        BY DEF AppTasks
      <4>2. \A u \in AppTasks(a) : (status'[u] = "TERMINATED") <=> (status[u] = "TERMINATED")
        BY <1>4, <4>1 DEF Inv, TypeOK
      <4> QED
        BY <1>2, <4>2 DEF Counted
    <3> QED
      BY <1>2, <2>4, <3>1 DEF Inv, AllocatedInv
  <2> QED
    BY <2>3, <2>6, <2>7, <2>8, <2>9 DEF Inv
<1> QED
  BY <1>3, <1>4 DEF MigrationMap, CanMigrate, Listed

LEMMA StepTaskMigrated ==
  ASSUME Inv, NEW t \in Tasks, TaskMigrated(t)
  PROVE  Inv'
<1>1. AppOf[t] < appid_cnt /\ StartedInv(t) /\ (Listed(t) => ListedInv(t))
  BY StartedPhase DEF TaskMigrated, Deliver
<1>2. /\ UNCHANGED <<appid_cnt, pending, finished, finished_cnt, pe, injected, injecting,
                     kernel, at, moving, asked, aborting, halting>>
      /\ "TASK_MIGRATED" \in mail[t]
      /\ mail' = [mail EXCEPT ![t] = @ \ {"TASK_MIGRATED"}]
  BY DEF TaskMigrated, Deliver, kernelVars
<1>3. CASE ~Listed(t)
  <2>1. UNCHANGED <<map, status, old_pe>>
    BY <1>3 DEF TaskMigrated, Listed
  <2>2. TypeOK'
    BY <1>2, <2>1 DEF Inv, TypeOK
  <2>3. ASSUME NEW u \in Tasks
        PROVE  TaskInv(u)'
    <3>1. CASE u = t
      <4>1. ~Future(t)' /\ ~Loading(t)' /\ ~Listed(t)'
        BY <1>1, <1>2, <1>3, <2>1, Phases DEF Future, Loading, Listed
      <4>2. StartedInv(t)'
        BY <1>1, <1>2 DEF StartedInv, Inv, TypeOK
      <4> QED
        BY <3>1, <4>1, <4>2 DEF TaskInv
    <3>2. CASE u # t
      BY <1>2, <2>1, <3>2, TaskFrame DEF Inv, TypeOK, Listed
    <3> QED
      BY <3>1, <3>2
  <2>4. ASSUME NEW a \in Apps, a \in map.apps
        PROVE  Counted(a)' = Counted(a)
    <3>1. \A u \in AppTasks(a) : u # t /\ u \in Tasks
      BY <1>3, <2>4 DEF AppTasks, Listed
    <3> QED
      BY <1>2, <2>1, <3>1 DEF Counted, Inv, TypeOK
  <2>5. InjectionInv' /\ HeldInv' /\ AllocatedInv' /\ AbortingInv'
    BY <1>2, <2>1, <2>4 DEF Inv, InjectionInv, HeldInv, AllocatedInv, AbortingInv, Listed
  <2> QED
    BY <2>2, <2>3, <2>5 DEF Inv
<1>4. CASE Listed(t)
  <2>1. ListedInv(t) /\ status[t] = "MIGRATING"
    BY <1>1, <1>2, <1>4 DEF ListedInv, Inv, TypeOK, Statuses
  <2>2. /\ map' = Freed(map, {<<t, old_pe[t]>>})
        /\ status' = [status EXCEPT ![t] = "RUNNING"]
        /\ old_pe' = [old_pe EXCEPT ![t] = NoPE]
    BY <1>4 DEF TaskMigrated, Listed
  <2>3. map' \in MapType
    BY <2>2, FreedType, FS_Singleton DEF Inv, TypeOK
  <2>4. TypeOK'
    BY <1>2, <2>2, <2>3 DEF Inv, TypeOK, Statuses
  <2>5. /\ map'.apps = map.apps /\ map'.allocated = map.allocated
        /\ map'.held = map.held \ {<<t, old_pe[t]>>}
    BY <2>2 DEF Freed, Inv, TypeOK, MapType
  <2>6. ASSUME NEW u \in Tasks
        PROVE  TaskInv(u)'
    <3>1. CASE u = t
      <4>1. ~Future(t)' /\ ~Loading(t)'
        BY <1>1, <1>2, <2>5, Phases DEF Future, Loading, Listed
      <4>2. StartedInv(t)'
        BY <1>1, <1>2 DEF StartedInv, Inv, TypeOK
      <4>3. ListedInv(t)'
        BY <1>1, <1>2, <2>1, <2>2 DEF ListedInv, StartedInv, Inv, TypeOK
      <4> QED
        BY <3>1, <4>1, <4>2, <4>3 DEF TaskInv
    <3>2. CASE u # t
      BY <1>2, <2>2, <2>5, <3>2, TaskFrame DEF Inv, TypeOK, Listed
    <3> QED
      BY <3>1, <3>2
  <2>7. InjectionInv' /\ AbortingInv'
    BY <1>2, <2>5 DEF Inv, InjectionInv, AbortingInv
  <2>8. HeldInv'
    <3> SUFFICES ASSUME NEW u \in Tasks, NEW p \in PEs
                 PROVE  <<u, p>> \in map'.held <=>
                          /\ AppOf[u] \in map'.apps /\ status'[u] # "TERMINATED"
                          /\ p \in {pe'[u], old_pe'[u]}
      BY DEF HeldInv, Listed
    <3>1. CASE u = t
      BY <1>2, <1>4, <2>1, <2>2, <2>5, <3>1, ConstantsAssumption
         DEF Inv, TypeOK, HeldInv, Listed, ListedInv
    <3>2. CASE u # t
      BY <1>2, <2>2, <2>5, <3>2 DEF Inv, TypeOK, HeldInv, Listed
    <3> QED
      BY <3>1, <3>2
  <2>9. AllocatedInv'
    <3>1. ASSUME NEW a \in Apps
          PROVE  Counted(a)' = Counted(a)
      <4>1. \A u \in AppTasks(a) : u \in Tasks /\ AppOf[u] = a
        BY DEF AppTasks
      <4>2. \A u \in AppTasks(a) : (status'[u] = "TERMINATED") <=> (status[u] = "TERMINATED")
        BY <2>1, <2>2, <4>1 DEF Inv, TypeOK
      <4>3. \A u \in AppTasks(a) : a >= appid_cnt => mail'[u] = mail[u]
        BY <1>1, <1>2, <4>1, Phases DEF Inv, TypeOK
      <4> QED
        BY <1>2, <4>1, <4>2, <4>3 DEF Counted, Inv, TypeOK, Apps
    <3> QED
      BY <1>2, <2>5, <3>1 DEF Inv, AllocatedInv
  <2> QED
    BY <2>4, <2>6, <2>7, <2>8, <2>9 DEF Inv
<1> QED
  BY <1>3, <1>4

-----------------------------------------------------------------------------
(* The handlers that map and release applications.                         *)

LEMMA StepTaskAllocated ==
  ASSUME Inv, NEW t \in Tasks, TaskAllocated(t)
  PROVE  Inv'
<1> DEFINE a == AppOf[t]
           n == map.allocated[a] + 1
<1>1. /\ "TASK_ALLOCATED" \in mail[t] /\ mail' = [mail EXCEPT ![t] = @ \ {"TASK_ALLOCATED"}]
      /\ UNCHANGED <<pending, finished, finished_cnt, pe, injected, at, moving, asked,
                     aborting, halting>>
  BY DEF TaskAllocated, Deliver
<1>2. /\ a \in Apps /\ a = appid_cnt /\ a \in map.apps /\ t # MapperTask
      /\ kernel[t] = "blocked" /\ mail'[t] = {} /\ a \in Int
  BY <1>1, LoadingPhase, Phases DEF Loading, LoadingInv, Listed, Inv, TypeOK
<1>3. map' = [map EXCEPT !.allocated[a] = n]
  BY <1>2 DEF TaskAllocated, MappingComplete
<1>4. /\ map' \in MapType /\ map'.apps = map.apps /\ map'.held = map.held
      /\ map'.allocated = [map.allocated EXCEPT ![a] = n]
  <2> DEFINE f == [map.allocated EXCEPT ![a] = n]
  <2>1. map \in MapType /\ f \in [Apps -> Int]
    BY <1>2 DEF Inv, TypeOK, MapType
  <2>2. map' = [map EXCEPT !.allocated = f]
    BY <1>3, <2>1 DEF MapType
  <2> HIDE DEF f
  <2>3. map' \in MapType /\ map'.apps = map.apps /\ map'.held = map.held /\ map'.allocated = f
    BY <2>1, <2>2 DEF MapType
  <2> QED
    BY <2>3 DEF f
<1>5. /\ Counted(a) \in SUBSET Tasks /\ AppTasks(a) \in SUBSET Tasks
      /\ Counted(a) \cup {t} \subseteq AppTasks(a) /\ t \notin Counted(a)
      /\ map.allocated[a] = Cardinality(Counted(a))
  BY <1>1, <1>2 DEF Counted, AppTasks, Inv, AllocatedInv
<1>6. IsFiniteSet(Counted(a) \cup {t}) /\ Cardinality(Counted(a) \cup {t}) = n
  BY <1>5, TasksCountNat, FS_AddElement
<1>7. \A u \in AppTasks(a) : u \in Tasks /\ AppOf[u] = a
  BY DEF AppTasks
<1>8. injecting /\ pending = NoApp
  BY <1>2 DEF Inv, InjectionInv
<1>9. CASE n # TaskCnt(a)
  <2>1. UNCHANGED <<status, old_pe, kernel, injecting, appid_cnt>>
    BY <1>2, <1>9 DEF TaskAllocated, MappingComplete
  <2>2. TypeOK'
    BY <1>1, <1>4, <2>1 DEF Inv, TypeOK
  <2>3. ASSUME NEW u \in Tasks
        PROVE  TaskInv(u)'
    <3>1. CASE u = t
      <4>1. LoadingInv(t) /\ Loading(t)
        BY <1>1, LoadingPhase
      <4>2. LoadingInv(t)'
        BY <1>1, <1>2, <2>1, <4>1 DEF LoadingInv
      <4> QED
        BY <1>2, <1>4, <2>1, <3>1, <4>2 DEF TaskInv, Future, Loading, Listed
    <3>2. CASE u # t
      BY <1>1, <1>4, <2>1, <3>2, TaskFrame DEF Inv, TypeOK, Listed
    <3> QED
      BY <3>1, <3>2
  <2>4. InjectionInv' /\ HeldInv' /\ AbortingInv'
    BY <1>1, <1>4, <2>1 DEF Inv, InjectionInv, HeldInv, AbortingInv, Listed
  <2>5. Counted(a)' = Counted(a) \cup {t}
    BY <1>1, <1>2, <1>5, <1>7, <2>1 DEF Counted, Inv, TypeOK, AppTasks
  <2>6. ASSUME NEW b \in Apps, b \in map.apps, b # a
        PROVE  Counted(b)' = Counted(b)
    <3>1. b < appid_cnt
      BY <1>2, <2>6 DEF Inv, InjectionInv, Apps
    <3> QED
      BY <2>1, <3>1 DEF Counted
  <2>7. AllocatedInv'
    <3> SUFFICES ASSUME NEW b \in Apps
                 PROVE  /\ b \in map'.apps => map'.allocated[b] = Cardinality(Counted(b)')
                        /\ b \notin map'.apps /\ b >= appid_cnt' => map'.allocated[b] = 0
      BY DEF AllocatedInv
    <3>1. map.allocated \in [Apps -> Int]
      BY DEF Inv, TypeOK, MapType
    <3>2. CASE b = a
      BY <1>2, <1>4, <1>6, <2>5, <3>1, <3>2
    <3>3. CASE b # a
      BY <1>2, <1>4, <2>1, <2>6, <3>1, <3>3 DEF Inv, AllocatedInv
    <3> QED
      BY <3>2, <3>3
  <2> QED
    BY <2>2, <2>3, <2>4, <2>7 DEF Inv
<1>10. CASE n = TaskCnt(a)
  <2>1. /\ status' = [u \in Tasks |-> IF AppOf[u] = a THEN "RUNNING" ELSE status[u]]
        /\ old_pe' = [u \in Tasks |-> IF AppOf[u] = a THEN NoPE ELSE old_pe[u]]
        /\ kernel' = [u \in Tasks |-> IF AppOf[u] = a /\ kernel[u] = "blocked"
                                      THEN "released" ELSE kernel[u]]
        /\ injecting' = FALSE /\ appid_cnt' = appid_cnt + 1
    BY <1>2, <1>10 DEF TaskAllocated, MappingComplete
  <2>2. TypeOK'
    <3>1. /\ status' \in [Tasks -> Statuses] /\ old_pe' \in [Tasks -> PEs \cup {NoPE}]
          /\ kernel' \in [Tasks -> KernelStates] /\ mail' \in [Tasks -> SUBSET Services]
          /\ appid_cnt' \in Nat
      BY <1>1, <2>1 DEF Inv, TypeOK, Statuses, KernelStates
    <3> QED
      BY <1>1, <1>4, <2>1, <3>1 DEF Inv, TypeOK
  <2>3. Counted(a) \cup {t} = AppTasks(a)
    BY <1>5, <1>6, <1>10, TasksCountNat, FS_Subset DEF TaskCnt
  <2>4. ASSUME NEW u \in Tasks
        PROVE  TaskInv(u)'
    <3>1. CASE AppOf[u] = a
      <4>1. Loading(u) /\ LoadingInv(u) /\ mail'[u] = {}
        <5>1. Loading(u) /\ LoadingInv(u)
          BY <1>2, <3>1 DEF Inv, TaskInv, Loading, Listed
        <5>2. u \in AppTasks(a)
          BY <3>1 DEF AppTasks
        <5>3. u = t \/ (u \in Counted(a) /\ u # t)
          BY <2>3, <5>2
        <5> QED
          BY <1>1, <1>2, <5>1, <5>3 DEF Counted, LoadingInv, Inv, TypeOK
      <4>2. kernel'[u] \in {"released", "running"}
        <5>1. u = MapperTask \/ kernel[u] = "blocked"
          BY <1>2, <2>3, <3>1 DEF Counted, AppTasks
        <5> QED
          BY <2>1, <3>1, <4>1, <5>1 DEF LoadingInv
      <4>3. status'[u] = "RUNNING" /\ old_pe'[u] = NoPE
        BY <2>1, <3>1
      <4>4. StartedInv(u)' /\ ListedInv(u)'
        BY <1>1, <4>1, <4>2, <4>3 DEF LoadingInv, StartedInv, ListedInv
      <4> QED
        BY <1>2, <2>1, <3>1, <4>4, Phases DEF TaskInv, Future, Loading
    <3>2. CASE AppOf[u] # a
      <4>1. /\ status'[u] = status[u] /\ old_pe'[u] = old_pe[u] /\ kernel'[u] = kernel[u]
            /\ pe'[u] = pe[u] /\ at'[u] = at[u] /\ moving'[u] = moving[u]
            /\ mail'[u] = mail[u] /\ asked' = asked /\ Listed(u)' = Listed(u)
        BY <1>1, <1>4, <2>1, <3>2 DEF Inv, TypeOK, Listed
      <4>2. CASE AppOf[u] < appid_cnt
        <5>1. StartedInv(u)' /\ (Listed(u)' => ListedInv(u)')
          BY <4>1, <4>2 DEF Inv, TaskInv, StartedInv, ListedInv
        <5> QED
          BY <2>1, <4>2, <5>1, Phases DEF TaskInv, Future, Loading
      <4>3. CASE ~(AppOf[u] < appid_cnt)
        <5>1. FutureInv(u) /\ AppOf[u] > appid_cnt
          BY <1>2, <3>2, <4>3, Phases DEF Loading
        <5>2. FutureInv(u)' /\ ~Loading(u)' /\ ~(AppOf[u] < appid_cnt')
          BY <2>1, <4>1, <5>1, Phases DEF FutureInv, Loading
        <5> QED
          BY <5>2 DEF TaskInv
      <4> QED
        BY <4>2, <4>3
    <3> QED
      BY <3>1, <3>2
  <2>5. InjectionInv'
    <3>1. injected' = appid_cnt + 1
      BY <1>1, <1>8 DEF Inv, InjectionInv
    <3>2. \A b \in map'.apps : b <= appid_cnt /\ b \in Int
      BY <1>4 DEF Inv, InjectionInv, TypeOK, MapType, Apps
    <3> QED
      BY <1>1, <1>8, <2>1, <3>1, <3>2 DEF InjectionInv, Inv, TypeOK
  <2>6. HeldInv'
    <3> SUFFICES ASSUME NEW u \in Tasks, NEW p \in PEs
                 PROVE  <<u, p>> \in map'.held <=>
                          /\ AppOf[u] \in map'.apps /\ status'[u] # "TERMINATED"
                          /\ p \in {pe'[u], old_pe'[u]}
      BY DEF HeldInv, Listed
    <3>1. CASE AppOf[u] = a
      <4>1. LoadingInv(u)
        BY <1>2, <3>1 DEF Inv, TaskInv, Loading, Listed
      <4> QED
        BY <1>1, <1>4, <2>1, <3>1, <4>1 DEF LoadingInv, Inv, HeldInv, Listed
    <3>2. CASE AppOf[u] # a
      BY <1>1, <1>4, <2>1, <3>2 DEF Inv, HeldInv, Listed
    <3> QED
      BY <3>1, <3>2
  <2>7. AllocatedInv'
    <3>1. Counted(a)' = AppTasks(a)
      BY <1>2, <1>7, <2>1 DEF Counted
    <3>2. ASSUME NEW b \in Apps, b \in map.apps, b # a
          PROVE  Counted(b)' = Counted(b)
      <4>1. b < appid_cnt /\ b < appid_cnt'
        BY <1>2, <2>1, <3>2 DEF Inv, InjectionInv, Apps
      <4>2. \A u \in AppTasks(b) : status'[u] = status[u]
        BY <2>1, <3>2 DEF AppTasks
      <4> QED
        BY <4>1, <4>2 DEF Counted
    <3>3. \A b \in Apps : b >= appid_cnt' => b # a /\ b >= appid_cnt
      BY <1>2, <2>1 DEF Apps
    <3> QED
      BY <1>2, <1>4, <1>10, <3>1, <3>2, <3>3
         DEF Inv, TypeOK, MapType, AllocatedInv, TaskCnt
  <2>8. AbortingInv'
    <3>1. \A h \in aborting : AppOf[h[1]] \in Int
      BY Phases DEF Inv, TypeOK
    <3> QED
      BY <1>1, <1>2, <1>4, <2>1, <3>1 DEF Inv, AbortingInv
  <2> QED
    BY <2>2, <2>4, <2>5, <2>6, <2>7, <2>8 DEF Inv
<1> QED
  BY <1>9, <1>10

\* The state between the end of an application or task and _map_verify_pending, and
\* between the reservation and _map_do: the counters are at m, and the records of the
\* tasks that are mapped already follow them.
Between(m) ==
  /\ m \in MapType
  /\ m.apps \subseteq map.apps
  /\ \A a \in map.apps \ m.apps : a < appid_cnt
  /\ old_pe' = old_pe /\ asked' = asked
  /\ \A u \in Tasks :
       AppOf[u] >= appid_cnt => status'[u] = status[u] /\ mail'[u] = mail[u]
  /\ \A u \in Tasks, p \in PEs :
       <<u, p>> \in m.held <=>
         AppOf[u] \in m.apps /\ status'[u] # "TERMINATED" /\ p \in {pe[u], old_pe[u]}
  /\ \A a \in Apps :
       /\ a \in m.apps /\ a < appid_cnt =>
            m.allocated[a] = Cardinality({u \in AppTasks(a) : status'[u] # "TERMINATED"})
       /\ a >= appid_cnt => m.allocated[a] = map.allocated[a]
  /\ \A h \in aborting' : h \in Tasks \X PEs /\ AppOf[h[1]] < appid_cnt /\ AppOf[h[1]] \notin m.apps

\* What _map_do and _map_verify_pending leave alone: a task that was released.
Kept(u, m) ==
  /\ pe'[u] = pe[u] /\ kernel'[u] = kernel[u] /\ at'[u] = at[u] /\ moving'[u] = moving[u]
  /\ AppOf[u] < appid_cnt'
  /\ Listed(u)' <=> AppOf[u] \in m.apps

Mapped(m) ==
  /\ InjectionInv' /\ HeldInv' /\ AllocatedInv' /\ AbortingInv'
  /\ \A u \in Tasks : IF AppOf[u] >= appid_cnt THEN TaskInv(u)' ELSE Kept(u, m)

NewPages(a, place) == {<<t, place[t]>> : t \in AppTasks(a)}
GivenAt(a, place, p) == Cardinality({t \in AppTasks(a) : place[t] = p})
FreeAfter(m, a, place) == [p \in PEs |-> m.free[p] - GivenAt(a, place, p)]
ReservedAfter(m, a) == [p \in PEs |-> m.reserved[p] - Cardinality(StaticAt(a, p))]

LEMMA PushedFields ==
  ASSUME NEW m \in MapType, NEW a \in Apps, NEW place \in [AppTasks(a) -> PEs]
  PROVE  LET pushed == Pushed(m, a, place)
         IN  /\ pushed.held = m.held \cup NewPages(a, place)
             /\ pushed.apps = m.apps \cup {a}
             /\ pushed.allocated = m.allocated
             /\ pushed.slots = m.slots - TaskCnt(a)
             /\ pushed.failed = m.failed
             /\ pushed.free = FreeAfter(m, a, place)
             /\ pushed.reserved = ReservedAfter(m, a)
<1> DEFINE given == FreeAfter(m, a, place)
           fixed == ReservedAfter(m, a)
           new == NewPages(a, place)
           n == TaskCnt(a)
<1>1. Pushed(m, a, place) = [m EXCEPT !.slots = @ - n, !.free = given, !.reserved = fixed,
                                      !.held = @ \cup new, !.apps = @ \cup {a}]
  BY DEF Pushed, NewPages, GivenAt, FreeAfter, ReservedAfter
<1> HIDE DEF given, fixed, new, n
<1>2. /\ Pushed(m, a, place).held = m.held \cup new
      /\ Pushed(m, a, place).apps = m.apps \cup {a}
      /\ Pushed(m, a, place).allocated = m.allocated
      /\ Pushed(m, a, place).slots = m.slots - n
      /\ Pushed(m, a, place).failed = m.failed
      /\ Pushed(m, a, place).free = given
      /\ Pushed(m, a, place).reserved = fixed
  BY <1>1 DEF MapType
<1> QED
  BY <1>2 DEF given, fixed, new, n

LEMMA MapDoFields ==
  ASSUME NEW m \in MapType, NEW a \in Apps, NEW place \in Placements(m, a),
         MapDo(m, a, place)
  PROVE  /\ map' \in MapType
         /\ map'.held = m.held \cup NewPages(a, place)
         /\ map'.apps = m.apps \cup {a}
         /\ map'.allocated = IF appid_cnt = 0 THEN [m.allocated EXCEPT ![a] = @ + 1]
                             ELSE m.allocated
         /\ map'.slots = m.slots - TaskCnt(a)
         /\ map'.failed = m.failed
         /\ map'.free = FreeAfter(m, a, place) /\ map'.reserved = ReservedAfter(m, a)
<1> DEFINE pushed == Pushed(m, a, place)
           allocated == [pushed.allocated EXCEPT ![a] = pushed.allocated[a] + 1]
<1>1. place \in [AppTasks(a) -> PEs]
  BY DEF Placements
<1>2. pushed \in MapType /\ pushed.allocated = m.allocated
  BY <1>1, PushedType, PushedFields
<1>3. map' = IF appid_cnt = 0
             THEN [pushed EXCEPT !.allocated[a] = pushed.allocated[a] + 1] ELSE pushed
  BY DEF MapDo
<1>4. map' = IF appid_cnt = 0 THEN [pushed EXCEPT !.allocated = allocated] ELSE pushed
  <2> HIDE DEF pushed
  <2> QED
    BY <1>2, <1>3 DEF MapType
<1>5. allocated \in [Apps -> Int]
  <2> HIDE DEF pushed
  <2> QED
    BY <1>2 DEF MapType
<1>6. /\ map' \in MapType /\ map'.held = pushed.held /\ map'.apps = pushed.apps
      /\ map'.allocated = IF appid_cnt = 0 THEN allocated ELSE pushed.allocated
      /\ map'.slots = pushed.slots /\ map'.failed = pushed.failed
      /\ map'.free = pushed.free /\ map'.reserved = pushed.reserved
  <2> HIDE DEF pushed, allocated
  <2> QED
    BY <1>2, <1>4, <1>5 DEF MapType
<1>7. allocated = [m.allocated EXCEPT ![a] = @ + 1]
  BY <1>2
<1> QED
  BY <1>1, <1>2, <1>6, <1>7, PushedFields

\* Mapping the next application establishes what the invariant says of it.
LEMMA MapDoMaps ==
  ASSUME Inv, NEW m, Between(m), NEW a \in Apps, a = appid_cnt, a \notin map.apps,
         NEW place \in Placements(m, a), MapDo(m, a, place),
         pending' = NoApp, injected' = a + 1
  PROVE  Mapped(m)
<1> DEFINE S == AppTasks(a)
           done == a = 0 /\ m.allocated[a] + 1 = TaskCnt(a)
           i == IF done THEN a + 1 ELSE a
<1>1. /\ m \in MapType /\ m.apps \subseteq map.apps /\ a \notin m.apps
      /\ place \in [S -> PEs] /\ a \in Nat /\ a \in Apps
  BY DEF Between, Placements, Inv, TypeOK
<1>2. /\ map' \in MapType /\ map'.apps = m.apps \cup {a}
      /\ map'.held = m.held \cup {<<t, place[t]>> : t \in S}
      /\ map'.allocated = IF a = 0 THEN [m.allocated EXCEPT ![a] = @ + 1] ELSE m.allocated
  <2>1. map' \in MapType
    BY <1>1, MapDoFields
  <2>2. map'.apps = m.apps \cup {a}
    BY <1>1, MapDoFields
  <2>3. map'.held = m.held \cup {<<t, place[t]>> : t \in S}
    <3>1. map'.held = m.held \cup NewPages(a, place)
      BY <1>1, MapDoFields
    <3> QED
      BY <3>1 DEF NewPages
  <2>4. map'.allocated = IF appid_cnt = 0 THEN [m.allocated EXCEPT ![a] = @ + 1] ELSE m.allocated
    BY <1>1, MapDoFields
  <2> QED
    BY <2>1, <2>2, <2>3, <2>4
<1>3. Pushed(m, a, place).allocated = m.allocated
  <2>1. m \in MapType /\ place \in [AppTasks(a) -> PEs]
    BY <1>1
  <2> QED
    BY <2>1, PushedFields
<1>4. /\ appid_cnt' = i /\ injecting' = ~done
      /\ pe' = [t \in Tasks |-> IF t \in S THEN place[t] ELSE pe[t]]
      /\ kernel' = [t \in Tasks |-> IF t \in S \ {MapperTask} THEN "assigned" ELSE kernel[t]]
      /\ at' = [t \in Tasks |-> IF t \in S \ {MapperTask} THEN place[t] ELSE at[t]]
      /\ moving' = moving
  BY <1>3 DEF MapDo, Assign, MappingComplete
<1>5. \A u \in Tasks : u \in S <=> AppOf[u] = a
  BY DEF AppTasks
<1>6. ASSUME NEW u \in Tasks, AppOf[u] >= a
      PROVE  /\ FutureInv(u) /\ status'[u] = status[u] /\ mail'[u] = mail[u]
             /\ old_pe' = old_pe /\ asked' = asked
  <2>1. Future(u)
    BY <1>6, Phases DEF Future, Listed
  <2> QED
    BY <1>6, <2>1 DEF Inv, TaskInv, Between
<1>7. m.allocated[a] = 0 /\ (\A b \in Apps : b >= a => m.allocated[b] = 0)
  <2>1. \A b \in Apps : b \in Int /\ (b >= a => b \notin map.apps)
    BY <1>1 DEF Inv, InjectionInv, Apps
  <2>2. \A b \in Apps : b >= a => map.allocated[b] = 0
    BY <2>1 DEF Inv, AllocatedInv
  <2>3. \A b \in Apps : b >= a => m.allocated[b] = map.allocated[b]
    BY DEF Between
  <2>4. \A b \in Apps : b >= a => m.allocated[b] = 0
    BY <2>2, <2>3
  <2>5. a \in Apps /\ a >= a
    BY <1>1
  <2> QED
    BY <2>4, <2>5
<1>8. done => a = 0 /\ S = {MapperTask}
  <2> SUFFICES ASSUME done PROVE S = {MapperTask}
    OBVIOUS
  <2>1. Cardinality(S) = 1 /\ S \in SUBSET Tasks /\ MapperTask \in S
    BY <1>7, ConstantsAssumption DEF AppTasks, TaskCnt
  <2>2. IsFiniteSet(S) /\ IsFiniteSet({MapperTask}) /\ Cardinality({MapperTask}) = 1
    BY <2>1, TasksCountNat, FS_Singleton
  <2> QED
    BY <2>1, <2>2, FS_Subset
<1>9. ASSUME NEW u \in Tasks, AppOf[u] = a
      PROVE  /\ pe'[u] = place[u] /\ pe'[u] \in PEs /\ at'[u] = place[u]
             /\ kernel'[u] = (IF u = MapperTask THEN "running" ELSE "assigned")
             /\ moving'[u] = NoPE /\ mail'[u] = {} /\ status'[u] = "BLOCKED"
             /\ old_pe'[u] = NoPE /\ u \notin asked' /\ Listed(u)'
  <2>1. u \in S /\ FutureInv(u)
    BY <1>5, <1>6, <1>9, Phases
  <2>2. u = MapperTask => place[u] = Static[u]
    BY <2>1, ManagementAssumption DEF Placements
  <2> QED
    BY <1>1, <1>2, <1>4, <1>6, <1>9, <2>1, <2>2, Phases DEF FutureInv, Listed
<1> HIDE DEF done
<1>10. InjectionInv'
  <2>1. \A b \in map.apps : b <= a /\ b \in Int
    BY DEF Inv, InjectionInv, TypeOK, MapType, Apps
  <2>2. \A b \in map'.apps : b <= a /\ b \in Int
    BY <1>1, <1>2, <2>1
  <2> QED
    <3>1. ~done => a \in map'.apps /\ injecting' = TRUE /\ appid_cnt' = a
      BY <1>2, <1>4
    <3>2. done => injecting' = FALSE /\ appid_cnt' = a + 1 /\ a + 1 \notin map'.apps
      <4>1. a + 1 \notin map'.apps
        BY <1>1, <2>2
      <4> QED
        BY <1>4, <4>1
    <3>3. \A b \in map'.apps : b <= appid_cnt'
      BY <1>1, <1>4, <2>2
    <3> QED
      BY <1>1, <3>1, <3>2, <3>3 DEF InjectionInv
<1>11. HeldInv'
  <2> SUFFICES ASSUME NEW u \in Tasks, NEW p \in PEs
               PROVE  <<u, p>> \in map'.held <=>
                        /\ AppOf[u] \in map'.apps /\ status'[u] # "TERMINATED"
                        /\ p \in {pe'[u], old_pe'[u]}
    BY DEF HeldInv, Listed
  <2>1. <<u, p>> \in m.held <=>
          AppOf[u] \in m.apps /\ status'[u] # "TERMINATED" /\ p \in {pe[u], old_pe[u]}
    BY DEF Between
  <2>2. CASE AppOf[u] = a
    <3>1. <<u, p>> \in map'.held <=> p = place[u]
      BY <1>1, <1>2, <1>5, <2>1, <2>2
    <3> QED
      BY <1>2, <1>9, <2>2, <3>1, ConstantsAssumption
  <2>3. CASE AppOf[u] # a
    BY <1>1, <1>2, <1>4, <1>5, <2>1, <2>3 DEF Between
  <2> QED
    BY <2>2, <2>3
<1>12. AllocatedInv'
  <2> SUFFICES ASSUME NEW b \in Apps
               PROVE  /\ b \in map'.apps => map'.allocated[b] = Cardinality(Counted(b)')
                      /\ b \notin map'.apps /\ b >= i => map'.allocated[b] = 0
    BY <1>4 DEF AllocatedInv
  <2>1. b \in Int /\ m.allocated \in [Apps -> Int] /\ AppTasks(b) \subseteq Tasks
    BY <1>1 DEF Apps, MapType, AppTasks
  <2>2. CASE b = a
    <3>1. Counted(b)' = IF a = 0 THEN {MapperTask} ELSE {}
      <4>1. done => S = {MapperTask} /\ a = 0 /\ appid_cnt' = 1
        BY <1>4, <1>8
      <4>2. ~done => appid_cnt' = a
        BY <1>4
      <4>3. MapperTask \in S <=> a = 0
        BY <1>5, ConstantsAssumption
      <4>4. \A u \in S : u \in Tasks /\ AppOf[u] = a
        BY <1>5 DEF AppTasks
      <4>5. CASE done
        BY <1>9, <2>2, <4>1, <4>4, <4>5 DEF Counted
      <4>6. CASE ~done
        <5>1. ~(b < appid_cnt')
          BY <1>1, <2>2, <4>2, <4>6
        <5>2. \A u \in S : ~(kernel'[u] = "blocked" /\ mail'[u] = {})
          BY <1>9, <4>4
        <5> QED
          BY <2>2, <4>3, <5>1, <5>2 DEF Counted
      <4> QED
        BY <4>5, <4>6
    <3>2. map'.allocated[b] = IF a = 0 THEN 1 ELSE 0
      BY <1>1, <1>2, <1>7, <2>1, <2>2
    <3> QED
      BY <1>2, <2>2, <3>1, <3>2, FS_Singleton, FS_EmptySet
  <2>3. CASE b # a
    <3>1. b \in map'.apps => b \in m.apps /\ b < a
      <4>1. b \in map.apps => b <= a
        BY DEF Inv, InjectionInv
      <4> QED
        BY <1>1, <1>2, <2>1, <2>3, <4>1
    <3>2. map'.allocated[b] = m.allocated[b]
      BY <1>1, <1>2, <2>1, <2>3
    <3>3. b < a => Counted(b)' = {u \in AppTasks(b) : status'[u] # "TERMINATED"}
      BY <1>1, <1>4, <2>1 DEF Counted
    <3>4. b \in m.apps /\ b < a =>
            m.allocated[b] = Cardinality({u \in AppTasks(b) : status'[u] # "TERMINATED"})
      BY DEF Between
    <3>5. b >= i => m.allocated[b] = 0
      BY <1>1, <1>7, <2>1
    <3> QED
      BY <3>1, <3>2, <3>3, <3>4, <3>5
  <2> QED
    BY <2>2, <2>3
<1>13. AbortingInv'
  <2>1. \A h \in aborting' : AppOf[h[1]] \in Int /\ AppOf[h[1]] < a /\ AppOf[h[1]] \notin m.apps
    BY Phases DEF Between
  <2> QED
    BY <1>1, <1>2, <1>4, <2>1 DEF AbortingInv
<1>14. ASSUME NEW u \in Tasks
       PROVE  IF AppOf[u] >= a THEN TaskInv(u)' ELSE Kept(u, m)
  <2>1. CASE AppOf[u] < a
    <3>1. u \notin S /\ AppOf[u] < i /\ AppOf[u] # a
      BY <1>1, <1>5, <2>1, Phases
    <3> QED
      BY <1>1, <1>2, <1>4, <2>1, <3>1, Phases DEF Kept, Listed
  <2>2. CASE AppOf[u] = a
    <3>1. CASE done
      <4>1. u = MapperTask /\ AppOf[u] < appid_cnt' /\ AppOf[u] \in Int /\ AppOf[u] >= a
        BY <1>1, <1>4, <1>5, <1>8, <2>2, <3>1, Phases
      <4>2. StartedInv(u)' /\ ListedInv(u)'
        BY <1>9, <2>2, <4>1 DEF StartedInv, ListedInv
      <4>3. ~Future(u)' /\ ~Loading(u)'
        BY <1>4, <4>1, <1>1 DEF Future, Loading
      <4> QED
        BY <4>1, <4>2, <4>3 DEF TaskInv
    <3>2. CASE ~done
      <4>1. LoadingInv(u)'
        BY <1>9, <2>2 DEF LoadingInv
      <4>2. ~Future(u)' /\ ~(AppOf[u] < appid_cnt')
        BY <1>1, <1>4, <1>9, <2>2, <3>2 DEF Future
      <4> QED
        BY <1>1, <2>2, <4>1, <4>2 DEF TaskInv
    <3> QED
      BY <3>1, <3>2
  <2>3. CASE AppOf[u] > a
    <3>1. FutureInv(u) /\ u \notin S /\ AppOf[u] \in Int /\ AppOf[u] >= a /\ u # MapperTask
      BY <1>1, <1>5, <1>6, <2>3, Phases, ConstantsAssumption
    <3>2. ~Listed(u)'
      BY <1>1, <1>2, <2>3, <3>1 DEF FutureInv, Listed
    <3>3. FutureInv(u)'
      BY <1>4, <1>6, <3>1, <3>2 DEF FutureInv
    <3>4. ~(AppOf[u] < appid_cnt') /\ ~Loading(u)'
      BY <1>1, <1>4, <2>3, <3>1, <3>2 DEF Loading
    <3> QED
      BY <3>1, <3>3, <3>4 DEF TaskInv
  <2> QED
    BY <1>1, <2>1, <2>2, <2>3, Phases
<1> QED
  BY <1>10, <1>11, <1>12, <1>13, <1>14 DEF Mapped

\* Whether or not the waiting application is mapped, the invariant is kept.
LEMMA VerifyPendingMaps ==
  ASSUME Inv, NEW m, Between(m), VerifyPending(m), injected' = injected
  PROVE  Mapped(m)
<1>1. CASE CanResume(m)
  <2>1. /\ pending \in Apps /\ pending = appid_cnt /\ pending \notin map.apps
        /\ injected = appid_cnt + 1
    BY <1>1, ConstantsAssumption DEF CanResume, Inv, TypeOK, InjectionInv
  <2>2. pending' = NoApp /\ \E place \in Placements(m, pending) : MapDo(m, pending, place)
    BY <1>1 DEF VerifyPending
  <2> QED
    BY <2>1, <2>2, MapDoMaps
<1>2. CASE ~CanResume(m)
  <2>1. /\ map' = m /\ pe' = pe /\ kernel' = kernel /\ at' = at /\ moving' = moving
        /\ appid_cnt' = appid_cnt /\ injecting' = injecting /\ pending' = pending
    BY <1>2 DEF VerifyPending, kernelVars
  <2>2. /\ m \in MapType /\ m.apps \subseteq map.apps /\ appid_cnt \in Nat
        /\ \A a \in Apps : a >= appid_cnt => (a \in m.apps <=> a \in map.apps)
    BY DEF Between, Inv, TypeOK, Apps
  <2>3. InjectionInv'
    <3>1. appid_cnt \in m.apps <=> appid_cnt \in map.apps
      BY <2>2 DEF MapType, Between, Inv, TypeOK
    <3> QED
      BY <2>1, <2>2, <3>1 DEF Inv, InjectionInv
  <2>4. HeldInv' /\ AbortingInv'
    BY <2>1 DEF Between, HeldInv, AbortingInv, Listed
  <2>5. AllocatedInv'
    <3> SUFFICES ASSUME NEW b \in Apps
                 PROVE  /\ b \in m.apps => m.allocated[b] = Cardinality(Counted(b)')
                        /\ b \notin m.apps /\ b >= appid_cnt => m.allocated[b] = 0
      BY <2>1 DEF AllocatedInv
    <3>1. CASE b < appid_cnt
      <4>1. Counted(b)' = {u \in AppTasks(b) : status'[u] # "TERMINATED"}
        BY <2>1, <3>1 DEF Counted
      <4>2. b \in m.apps =>
              m.allocated[b] = Cardinality({u \in AppTasks(b) : status'[u] # "TERMINATED"})
        BY <3>1 DEF Between
      <4> QED
        BY <2>2, <3>1, <4>1, <4>2 DEF Apps
    <3>2. CASE ~(b < appid_cnt)
      <4>1. b >= appid_cnt /\ (b \in m.apps <=> b \in map.apps)
        BY <2>2, <3>2 DEF Apps
      <4>2. \A u \in AppTasks(b) : u \in Tasks /\ AppOf[u] = b
        BY DEF AppTasks
      <4>3. \A u \in AppTasks(b) : mail'[u] = mail[u]
        BY <4>1, <4>2 DEF Between
      <4>4. Counted(b)' = Counted(b)
        BY <2>1, <3>2, <4>3 DEF Counted
      <4>5. m.allocated[b] = map.allocated[b]
        BY <4>1 DEF Between
      <4> QED
        BY <4>1, <4>4, <4>5 DEF Inv, AllocatedInv
    <3> QED
      BY <3>1, <3>2
  <2>6. ASSUME NEW u \in Tasks
        PROVE  IF AppOf[u] >= appid_cnt THEN TaskInv(u)' ELSE Kept(u, m)
    <3>1. CASE AppOf[u] >= appid_cnt
      <4>1. Listed(u)' = Listed(u)
        BY <2>1, <2>2, <3>1, Phases DEF Listed
      <4>2. /\ status'[u] = status[u] /\ old_pe'[u] = old_pe[u] /\ mail'[u] = mail[u]
            /\ asked' = asked
        BY <3>1 DEF Between
      <4> QED
        BY <2>1, <3>1, <4>1, <4>2, TaskFrame
    <3>2. CASE ~(AppOf[u] >= appid_cnt)
      BY <2>1, <2>2, <3>2, Phases DEF Kept, Listed
    <3> QED
      BY <3>1, <3>2
  <2> QED
    BY <2>3, <2>4, <2>5, <2>6 DEF Mapped
<1> QED
  BY <1>1, <1>2

LEMMA StepNewApp ==
  ASSUME Inv, NewApp
  PROVE  Inv'
<1> DEFINE m == Reserved(map, appid_cnt)
<1>1. /\ ~injecting /\ injected < AppCnt /\ injected' = injected + 1
      /\ UNCHANGED <<finished, finished_cnt, status, old_pe, mail, asked, aborting, halting>>
  BY DEF NewApp
<1>2. /\ appid_cnt \in Apps /\ appid_cnt \notin map.apps /\ injected' = appid_cnt + 1
      /\ pending = NoApp
  BY <1>1, ConstantsAssumption DEF Inv, InjectionInv, TypeOK, Apps
<1>3. m \in MapType
  BY ReservedType DEF Inv, TypeOK
<1>4. m.apps = map.apps /\ m.held = map.held /\ m.allocated = map.allocated
  <2> DEFINE r == [p \in PEs |-> map.reserved[p] + Cardinality(StaticAt(appid_cnt, p))]
  <2>1. m = [map EXCEPT !.reserved = r]
    BY DEF Reserved
  <2> HIDE DEF r, m
  <2> QED
    BY <2>1 DEF Inv, TypeOK, MapType
<1>5. Between(m)
  <2>1. \A a \in Apps : a \in map.apps /\ a < appid_cnt =>
          map.allocated[a] = Cardinality({u \in AppTasks(a) : status'[u] # "TERMINATED"})
    <3> SUFFICES ASSUME NEW a \in Apps, a \in map.apps, a < appid_cnt
                 PROVE  map.allocated[a]
                          = Cardinality({u \in AppTasks(a) : status'[u] # "TERMINATED"})
      OBVIOUS
    <3>1. Counted(a) = {u \in AppTasks(a) : status'[u] # "TERMINATED"}
      BY <1>1 DEF Counted
    <3> QED
      BY <3>1 DEF Inv, AllocatedInv
  <2>2. \A u \in Tasks, p \in PEs :
          <<u, p>> \in m.held <=>
            AppOf[u] \in m.apps /\ status'[u] # "TERMINATED" /\ p \in {pe[u], old_pe[u]}
    BY <1>1, <1>4 DEF Inv, HeldInv, Listed
  <2>3. \A h \in aborting' :
          h \in Tasks \X PEs /\ AppOf[h[1]] < appid_cnt /\ AppOf[h[1]] \notin m.apps
    BY <1>1, <1>4 DEF Inv, TypeOK, AbortingInv
  <2> HIDE DEF m
  <2> QED
    BY <1>1, <1>3, <1>4, <2>1, <2>2, <2>3 DEF Between
<1>6. CASE /\ map' = [m EXCEPT !.failed = ReservationFailures(map, appid_cnt)]
           /\ pending' = appid_cnt /\ injecting' = TRUE
           /\ UNCHANGED <<pe, kernelVars, appid_cnt>>
  <2>1. map' \in MapType /\ map'.apps = map.apps /\ map'.held = map.held
        /\ map'.allocated = map.allocated
    <3> DEFINE n == ReservationFailures(map, appid_cnt)
    <3>1. n \in Nat /\ map' = [m EXCEPT !.failed = n]
      BY <1>6, ReservationFailuresNat
    <3> HIDE DEF n, m
    <3> QED
      BY <1>3, <1>4, <3>1 DEF MapType
  <2>2. /\ pe' = pe /\ kernel' = kernel /\ at' = at /\ moving' = moving
        /\ appid_cnt' = appid_cnt /\ injecting' = TRUE /\ pending' = appid_cnt
    BY <1>6 DEF kernelVars
  <2>3. TypeOK'
    <3>1. injected' \in 0 .. AppCnt /\ pending' \in Apps \cup {NoApp}
      BY <1>1, <1>2, <2>2, ConstantsAssumption DEF Inv, TypeOK
    <3> QED
      BY <1>1, <2>1, <2>2, <3>1 DEF Inv, TypeOK
  <2>4. \A u \in Tasks : TaskInv(u)'
    BY <1>1, <2>1, <2>2, TaskFrame DEF Listed
  <2>5. \A a : Counted(a)' = Counted(a)
    BY <1>1, <2>2 DEF Counted
  <2>6. HeldInv' /\ AllocatedInv' /\ AbortingInv'
    BY <1>1, <2>1, <2>2, <2>5 DEF Inv, HeldInv, AllocatedInv, AbortingInv, Listed
  <2>7. InjectionInv'
    BY <1>2, <2>1, <2>2 DEF Inv, InjectionInv
  <2> QED
    BY <2>3, <2>4, <2>6, <2>7 DEF Inv
<1>7. ASSUME NEW place \in Placements(m, appid_cnt), MapDo(m, appid_cnt, place),
             pending' = pending
      PROVE  Inv'
  <2>1. Mapped(m)
    BY <1>2, <1>5, <1>7, MapDoMaps
  <2>2. TypeOK'
    <3>1. /\ map' \in MapType /\ pe' \in [Tasks -> PEs \cup {NoPE}]
          /\ kernel' \in [Tasks -> KernelStates] /\ at' \in [Tasks -> PEs \cup {NoPE}]
          /\ moving' = moving /\ appid_cnt' \in Nat /\ injecting' \in BOOLEAN
      BY <1>2, <1>3, <1>7, MapDoType DEF Inv
    <3>2. injected' \in 0 .. AppCnt /\ pending' \in Apps \cup {NoApp}
      BY <1>1, <1>2, <1>7, ConstantsAssumption DEF Inv, TypeOK
    <3> QED
      BY <1>1, <3>1, <3>2 DEF Inv, TypeOK
  <2>3. ASSUME NEW u \in Tasks
        PROVE  TaskInv(u)'
    <3>1. CASE AppOf[u] >= appid_cnt
      BY <2>1, <3>1 DEF Mapped
    <3>2. CASE ~(AppOf[u] >= appid_cnt)
      <4>1. Kept(u, m) /\ AppOf[u] < appid_cnt
        BY <2>1, <3>2, Phases DEF Mapped
      <4>2. StartedInv(u)' /\ (Listed(u)' => ListedInv(u)')
        BY <1>1, <1>4, <4>1
           DEF Inv, TaskInv, Kept, StartedInv, ListedInv, Listed
      <4> QED
        BY <2>2, <4>1, <4>2, Phases DEF Kept, TaskInv, Future, Loading, TypeOK
    <3> QED
      BY <3>1, <3>2
  <2> QED
    BY <2>1, <2>2, <2>3 DEF Mapped, Inv
<1> QED
  BY <1>6, <1>7 DEF NewApp

LEMMA ReleasedFields ==
  ASSUME Inv, NEW S \in SUBSET Tasks
  PROVE  LET m == Released(map, S)
         IN  /\ m \in MapType
             /\ m.held = map.held \ PagesOf(S)
             /\ m.apps = map.apps /\ m.allocated = map.allocated
<1> DEFINE pairs == PagesOf(S)
           back == [p \in PEs |-> map.free[p] + Cardinality(At(pairs \cap map.held, p))]
           n == Cardinality(pairs)
           k == IF pending = NoApp THEN Freed(map, pairs).failed
                ELSE Freed(map, pairs).failed - Unblocked(map, pairs)
<1>1. Released(map, S) \in MapType /\ Freed(map, pairs) \in MapType
  BY ReleasedType, PagesFinite, FreedType DEF Inv, TypeOK
<1>2. Released(map, S) = [Freed(map, pairs) EXCEPT !.failed = k]
  BY DEF Released
<1>3. Freed(map, pairs) = [map EXCEPT !.slots = @ + n, !.free = back, !.held = @ \ pairs]
  BY DEF Freed
<1> HIDE DEF pairs, back, n, k
<1>4. /\ Released(map, S).held = Freed(map, pairs).held
      /\ Released(map, S).apps = Freed(map, pairs).apps
      /\ Released(map, S).allocated = Freed(map, pairs).allocated
  BY <1>1, <1>2 DEF MapType
<1>5. /\ Freed(map, pairs).held = map.held \ pairs
      /\ Freed(map, pairs).apps = map.apps
      /\ Freed(map, pairs).allocated = map.allocated
  BY <1>3 DEF Inv, TypeOK, MapType
<1> QED
  BY <1>1, <1>4, <1>5 DEF pairs

\* The pages in the records of released tasks.
LEMMA PagesOfMember ==
  ASSUME Inv, NEW S \in SUBSET Tasks, NEW u \in Tasks, NEW p \in PEs
  PROVE  <<u, p>> \in PagesOf(S) <=> u \in S /\ p \in {pe[u], old_pe[u]}
BY ConstantsAssumption DEF PagesOf

\* After a task ended: its pages are freed, the others' records stay, and the
\* application leaves the list with its last task.
LEMMA EndBetween ==
  ASSUME Inv, NEW t \in Tasks, AppOf[t] \in map.apps, AppOf[t] < appid_cnt,
         NEW service, mail' = [mail EXCEPT ![t] = @ \ {service}],
         NEW S \in SUBSET AppTasks(AppOf[t]), t \in S,
         NEW rest \in MapType, rest.held = map.held \ PagesOf(S),
         NEW left \in Int, rest.allocated = [map.allocated EXCEPT ![AppOf[t]] = left],
         rest.apps \in {map.apps, map.apps \ {AppOf[t]}},
         AppOf[t] \in rest.apps =>
           left = Cardinality(Counted(AppOf[t]) \ S),
         AppOf[t] \notin rest.apps => Counted(AppOf[t]) \subseteq S,
         \A u \in Tasks : status'[u] = IF u \in S THEN "TERMINATED" ELSE status[u],
         old_pe' = old_pe, asked' = asked,
         \A h \in aborting' : h \in aborting \/ (AppOf[t] \notin rest.apps /\ h \in S \X PEs)
  PROVE  Between(rest)
<1> DEFINE a == AppOf[t]
<1>1. a \in Apps /\ a \in Int /\ appid_cnt \in Nat /\ AppTasks(a) \subseteq Tasks
  BY Phases DEF AppTasks
<1>2. /\ rest.apps \subseteq map.apps
      /\ \A b \in map.apps \ rest.apps : b < appid_cnt
      /\ \A u \in S : u \in Tasks /\ AppOf[u] = a
  BY DEF AppTasks
<1>3. \A u \in Tasks : AppOf[u] >= appid_cnt => status'[u] = status[u] /\ mail'[u] = mail[u]
  BY <1>1, <1>2, Phases DEF Inv, TypeOK
<1>4. ASSUME NEW u \in Tasks, NEW p \in PEs
      PROVE  <<u, p>> \in rest.held <=>
               AppOf[u] \in rest.apps /\ status'[u] # "TERMINATED" /\ p \in {pe[u], old_pe[u]}
  <2>1. <<u, p>> \in map.held <=>
          AppOf[u] \in map.apps /\ status[u] # "TERMINATED" /\ p \in {pe[u], old_pe[u]}
    BY DEF Inv, HeldInv, Listed
  <2>2. <<u, p>> \in rest.held <=>
          <<u, p>> \in map.held /\ ~(u \in S /\ p \in {pe[u], old_pe[u]})
    BY <1>1, PagesOfMember
  <2>3. status'[u] # "TERMINATED" <=> u \notin S /\ status[u] # "TERMINATED"
    OBVIOUS
  <2>4. CASE AppOf[u] = a /\ a \notin rest.apps
    <3>1. u \in Counted(a) <=> status[u] # "TERMINATED"
      BY <2>4 DEF Counted, AppTasks
    <3> QED
      BY <2>1, <2>2, <2>3, <2>4, <3>1
  <2>5. CASE ~(AppOf[u] = a /\ a \notin rest.apps)
    BY <2>1, <2>2, <2>3, <2>5
  <2> QED
    BY <2>4, <2>5
<1>5. ASSUME NEW b \in Apps
      PROVE  /\ b \in rest.apps /\ b < appid_cnt =>
                  rest.allocated[b]
                    = Cardinality({u \in AppTasks(b) : status'[u] # "TERMINATED"})
             /\ b >= appid_cnt => rest.allocated[b] = map.allocated[b]
  <2>1. map.allocated \in [Apps -> Int] /\ b \in Int
    BY DEF Inv, TypeOK, MapType, Apps
  <2>2. CASE b = a
    <3>1. {u \in AppTasks(a) : status'[u] # "TERMINATED"} = Counted(a) \ S
      BY <1>1 DEF Counted
    <3>2. rest.allocated[a] = left /\ ~(a >= appid_cnt)
      BY <1>1, <2>1
    <3> QED
      BY <2>2, <3>1, <3>2
  <2>3. CASE b # a
    <3>1. \A u \in AppTasks(b) : status'[u] = status[u]
      BY <1>2, <2>3 DEF AppTasks
    <3>2. b < appid_cnt =>
            Counted(b) = {u \in AppTasks(b) : status'[u] # "TERMINATED"}
      BY <3>1 DEF Counted
    <3> QED
      BY <1>2, <2>1, <2>3, <3>2 DEF Inv, AllocatedInv
  <2> QED
    BY <2>2, <2>3
<1>6. \A h \in aborting' :
        h \in Tasks \X PEs /\ AppOf[h[1]] < appid_cnt /\ AppOf[h[1]] \notin rest.apps
  BY <1>2 DEF Inv, TypeOK, AbortingInv
<1> QED
  BY <1>2, <1>3, <1>4, <1>5, <1>6 DEF Between

\* The steps that end tasks keep the invariant of each task.
LEMMA EndTasks ==
  ASSUME Inv, NEW t \in Tasks, AppOf[t] < appid_cnt,
         "TASK_MIGRATED" \notin mail[t],
         NEW service \in {"TASK_TERMINATED", "TASK_ABORTED"}, service \in mail[t],
         mail' = [mail EXCEPT ![t] = @ \ {service}],
         NEW S \in SUBSET AppTasks(AppOf[t]),
         NEW rest, AppOf[t] \in rest.apps => S = {t} /\ AppOf[t] \in map.apps,
         rest.apps \subseteq map.apps,
         \A a \in map.apps \ rest.apps : a = AppOf[t],
         \A u \in Tasks : status'[u] = IF u \in S THEN "TERMINATED" ELSE status[u],
         old_pe' = old_pe, asked' = asked,
         TypeOK', Mapped(rest)
  PROVE  \A u \in Tasks : TaskInv(u)'
<1> SUFFICES ASSUME NEW u \in Tasks
             PROVE  TaskInv(u)'
  OBVIOUS
<1>1. CASE AppOf[u] >= appid_cnt
  BY <1>1 DEF Mapped
<1>2. CASE ~(AppOf[u] >= appid_cnt)
  <2>1. Kept(u, rest) /\ AppOf[u] < appid_cnt
    BY <1>2, Phases DEF Mapped
  <2>2. StartedInv(u) /\ (Listed(u) => ListedInv(u))
    BY <2>1 DEF Inv, TaskInv
  <2>3. mail'[u] = IF u = t THEN mail[u] \ {service} ELSE mail[u]
    BY DEF Inv, TypeOK
  <2>4. StartedInv(u)'
    BY <2>1, <2>2, <2>3 DEF StartedInv, Kept
  <2>5. ASSUME Listed(u)'
        PROVE  ListedInv(u)'
    <3>1. Listed(u) /\ ListedInv(u) /\ AppOf[u] \in rest.apps
      BY <2>1, <2>2, <2>5 DEF Kept, Listed
    <3>2. CASE u \in S
      <4>1. AppOf[u] = AppOf[t] /\ u = t
        BY <3>1, <3>2 DEF AppTasks
      <4>2. kernel[t] = "gone" /\ mail'[t] \cap {"TASK_MIGRATED", "TASK_TERMINATED", "TASK_ABORTED"} = {}
        BY <2>3, <3>1, <4>1 DEF ListedInv, Services, Inv, TypeOK
      <4>3. mail'[t] = {}
        BY <2>4, <4>1, <4>2 DEF StartedInv, TypeOK, Services
      <4> QED
        BY <2>1, <3>1, <3>2, <4>1, <4>2, <4>3 DEF ListedInv, Kept
    <3>3. CASE u \notin S
      <4>1. u # t
        BY <3>1, <3>3
      <4> QED
        BY <2>1, <2>3, <3>1, <3>3, <4>1 DEF ListedInv, Kept
    <3> QED
      BY <3>2, <3>3
  <2> QED
    BY <2>1, <2>4, <2>5, Phases DEF Kept, TaskInv, Future, Loading, TypeOK
<1> QED
  BY <1>1, <1>2

\* A message about a task of an application that left the list changes nothing else.
LEMMA EndUnlisted ==
  ASSUME Inv, NEW t \in Tasks, AppOf[t] \notin map.apps, AppOf[t] < appid_cnt,
         NEW service, mail' = [mail EXCEPT ![t] = @ \ {service}],
         UNCHANGED <<mapperVars, injected, injecting, kernelVars, asked, aborting, halting>>
  PROVE  Inv'
<1>1. /\ map' = map /\ appid_cnt' = appid_cnt /\ pending' = pending
      /\ finished' = finished /\ finished_cnt' = finished_cnt
      /\ status' = status /\ pe' = pe /\ old_pe' = old_pe
      /\ injected' = injected /\ injecting' = injecting
      /\ kernel' = kernel /\ at' = at /\ moving' = moving
      /\ asked' = asked /\ aborting' = aborting /\ halting' = halting
  BY DEF mapperVars, kernelVars
<1>2. TypeOK'
  BY <1>1 DEF Inv, TypeOK
<1>3. ASSUME NEW u \in Tasks
      PROVE  TaskInv(u)'
  <2>1. CASE u = t
    <3>1. ~Future(t)' /\ ~Loading(t)' /\ ~Listed(t)'
      BY <1>1, Phases DEF Future, Loading, Listed
    <3>2. StartedInv(t)'
      BY <1>1 DEF Inv, TypeOK, TaskInv, StartedInv
    <3> QED
      BY <2>1, <3>1, <3>2 DEF TaskInv
  <2>2. CASE u # t
    BY <1>1, <2>2, TaskFrame DEF Inv, TypeOK, Listed
  <2> QED
    BY <2>1, <2>2
<1>4. ASSUME NEW u \in Tasks, AppOf[u] = appid_cnt
      PROVE  mail'[u] = mail[u]
  BY <1>4, Phases DEF Inv, TypeOK
<1> QED
  BY <1>1, <1>2, <1>3, <1>4, EnvironmentStep DEF mapperVars

LEMMA StepTaskTerminated ==
  ASSUME Inv, NEW t \in Tasks, TaskTerminated(t)
  PROVE  Inv'
<1> DEFINE a == AppOf[t]
           m == Released(map, {t})
           left == m.allocated[a] - 1
           rest == [m EXCEPT !.allocated[a] = left,
                             !.apps = IF left = 0 THEN @ \ {a} ELSE @]
<1>1. /\ "TASK_MIGRATED" \notin mail[t] /\ "TASK_TERMINATED" \in mail[t]
      /\ mail' = [mail EXCEPT ![t] = @ \ {"TASK_TERMINATED"}]
      /\ UNCHANGED <<finished, finished_cnt, old_pe, injected, asked, aborting>>
  BY DEF TaskTerminated, Deliver
<1>2. a < appid_cnt /\ (Listed(t) => ListedInv(t)) /\ a \in Apps /\ a \in Int
  BY <1>1, StartedPhase, Phases
<1>3. CASE /\ a \notin map.apps
           /\ UNCHANGED <<map, pe, kernelVars, appid_cnt, injecting, pending, status, halting>>
  BY <1>1, <1>2, <1>3, EndUnlisted DEF mapperVars
<1>4. CASE /\ a \in map.apps /\ VerifyPending(rest)
           /\ status' = [status EXCEPT ![t] = "TERMINATED"]
           /\ IF left = 0 THEN RequestHalt(rest) ELSE UNCHANGED halting
  <2>1. /\ m \in MapType /\ m.held = map.held \ PagesOf({t})
        /\ m.apps = map.apps /\ m.allocated = map.allocated
    BY ReleasedFields
  <2>2. /\ left \in Int /\ rest \in MapType /\ rest.held = m.held
        /\ rest.allocated = [m.allocated EXCEPT ![a] = left]
        /\ rest.apps = IF left = 0 THEN m.apps \ {a} ELSE m.apps
    <3> DEFINE f == [m.allocated EXCEPT ![a] = left]
               s == IF left = 0 THEN m.apps \ {a} ELSE m.apps
    <3>1. left \in Int /\ f \in [Apps -> Int] /\ s \in SUBSET Apps
      <4> HIDE DEF m
      <4> QED
        BY <1>2, <2>1 DEF MapType
    <3>2. rest = [m EXCEPT !.allocated = f, !.apps = s]
      <4> HIDE DEF m
      <4> QED
        BY <2>1 DEF MapType
    <3>3. rest \in MapType /\ rest.held = m.held /\ rest.allocated = f /\ rest.apps = s
      <4> HIDE DEF rest, m, f, s
      <4> QED
        BY <2>1, <3>1, <3>2 DEF MapType
    <3> QED
      BY <3>1, <3>3
  <2>3. /\ t \in Counted(a) /\ Counted(a) \in SUBSET Tasks
        /\ map.allocated[a] = Cardinality(Counted(a))
    <3>1. status[t] # "TERMINATED"
      BY <1>1, <1>2, <1>4 DEF Listed, ListedInv
    <3> QED
      BY <1>2, <1>4, <3>1 DEF Counted, AppTasks, Inv, AllocatedInv
  <2>4. /\ left = Cardinality(Counted(a) \ {t})
        /\ left = 0 => Counted(a) \subseteq {t}
    <3>1. IsFiniteSet(Counted(a)) /\ IsFiniteSet(Counted(a) \ {t})
      BY <2>3, TasksCountNat
    <3>2. left = Cardinality(Counted(a)) - 1
      BY <2>1, <2>3
    <3>3. Cardinality(Counted(a) \ {t}) = Cardinality(Counted(a)) - 1
      BY <2>3, <3>1, FS_RemoveElement
    <3>4. Cardinality(Counted(a) \ {t}) = 0 => Counted(a) \ {t} = {}
      BY <3>1, FS_EmptySet
    <3> QED
      BY <3>2, <3>3, <3>4
  <2>5. /\ \A u \in Tasks : status'[u] = IF u \in {t} THEN "TERMINATED" ELSE status[u]
        /\ {t} \in SUBSET AppTasks(a)
    BY <1>4 DEF Inv, TypeOK, AppTasks
  <2> HIDE DEF m, left, rest
  <2>6. Between(rest)
    <3>1. /\ rest.held = map.held \ PagesOf({t})
          /\ rest.allocated = [map.allocated EXCEPT ![a] = left]
          /\ rest.apps \in {map.apps, map.apps \ {a}}
          /\ a \in rest.apps => left = Cardinality(Counted(a) \ {t})
          /\ a \notin rest.apps => Counted(a) \subseteq {t}
      BY <1>4, <2>1, <2>2, <2>4
    <3>2. /\ a \in map.apps /\ a < appid_cnt /\ left \in Int /\ rest \in MapType
          /\ {t} \in SUBSET AppTasks(a) /\ t \in {t}
          /\ \A h \in aborting' : h \in aborting \/ (a \notin rest.apps /\ h \in {t} \X PEs)
      BY <1>1, <1>2, <1>4, <2>2, <2>5
    <3> QED
      BY <1>1, <2>5, <3>1, <3>2, EndBetween
  <2>7. Mapped(rest)
    BY <1>1, <1>4, <2>6, VerifyPendingMaps
  <2>8. TypeOK'
    <3>1. /\ map' \in MapType /\ pe' \in [Tasks -> PEs \cup {NoPE}]
          /\ kernel' \in [Tasks -> KernelStates] /\ at' \in [Tasks -> PEs \cup {NoPE}]
          /\ moving' = moving /\ appid_cnt' \in Nat /\ injecting' \in BOOLEAN
          /\ pending' \in Apps \cup {NoApp}
      BY <1>4, <2>2, VerifyPendingType DEF Inv
    <3>2. halting' \subseteq PEs
      BY <1>4 DEF RequestHalt, Inv, TypeOK
    <3>3. /\ status' \in [Tasks -> Statuses] /\ mail' \in [Tasks -> SUBSET Services]
      BY <1>1, <1>4 DEF Inv, TypeOK, Statuses
    <3> QED
      BY <1>1, <3>1, <3>2, <3>3 DEF Inv, TypeOK
  <2>9. \A u \in Tasks : TaskInv(u)'
    <3>1. /\ rest.apps \subseteq map.apps
          /\ \A b \in map.apps \ rest.apps : b = a
      BY <2>1, <2>2
    <3> QED
      BY <1>1, <1>2, <1>4, <2>5, <2>7, <2>8, <3>1, EndTasks
  <2> QED
    BY <2>7, <2>8, <2>9 DEF Mapped, Inv
<1> QED
  BY <1>3, <1>4 DEF TaskTerminated

LEMMA StepTaskAborted ==
  ASSUME Inv, NEW t \in Tasks, TaskAborted(t)
  PROVE  Inv'
<1> DEFINE a == AppOf[t]
           left == map.allocated[a] - 1
           others == Others(t, left)
           S == others \cup {t}
           m == Released(map, S)
           rest == [m EXCEPT !.allocated[a] = left, !.apps = @ \ {a}]
           orders == {<<u, Holder(u)>> : u \in others}
<1>1. /\ "TASK_MIGRATED" \notin mail[t] /\ "TASK_ABORTED" \in mail[t]
      /\ mail' = [mail EXCEPT ![t] = @ \ {"TASK_ABORTED"}]
      /\ UNCHANGED <<finished, finished_cnt, old_pe, injected, asked>>
  BY DEF TaskAborted, Deliver
<1>2. a < appid_cnt /\ (Listed(t) => ListedInv(t)) /\ a \in Apps /\ a \in Int
  BY <1>1, StartedPhase, Phases
<1>3. CASE /\ a \notin map.apps
           /\ UNCHANGED <<map, pe, kernelVars, appid_cnt, injecting, pending, status,
                          aborting, halting>>
  BY <1>1, <1>2, <1>3, EndUnlisted DEF mapperVars
<1>4. CASE /\ a \in map.apps /\ VerifyPending(rest) /\ RequestHalt(rest)
           /\ status' = [u \in Tasks |-> IF u \in S THEN "TERMINATED" ELSE status[u]]
           /\ aborting' = aborting \cup orders
  <2>1. S \in SUBSET Tasks /\ S \in SUBSET AppTasks(a) /\ t \in S /\ others \subseteq S
    BY DEF AppTasks, Others
  <2>2. /\ m \in MapType /\ m.held = map.held \ PagesOf(S)
        /\ m.apps = map.apps /\ m.allocated = map.allocated
    <3> HIDE DEF S
    <3> QED
      BY <2>1, ReleasedFields
  <2>3. /\ left \in Int /\ rest \in MapType /\ rest.held = m.held
        /\ rest.allocated = [m.allocated EXCEPT ![a] = left]
        /\ rest.apps = m.apps \ {a}
    <3> DEFINE f == [m.allocated EXCEPT ![a] = left]
               s == m.apps \ {a}
    <3>1. left \in Int
      BY <1>2 DEF Inv, TypeOK, MapType
    <3> HIDE DEF left, m
    <3>2. f \in [Apps -> Int] /\ s \in SUBSET Apps
      BY <1>2, <2>2, <3>1 DEF MapType
    <3>3. rest = [m EXCEPT !.allocated = f, !.apps = s]
      BY <2>2 DEF MapType
    <3> HIDE DEF f, s, rest
    <3>4. rest \in MapType /\ rest.held = m.held /\ rest.allocated = f /\ rest.apps = s
      BY <2>2, <3>2, <3>3 DEF MapType
    <3> QED
      BY <3>1, <3>4 DEF f, s
  <2>4. Counted(a) \subseteq S
    <3>1. /\ Counted(a) = {u \in AppTasks(a) : status[u] # "TERMINATED"}
          /\ Counted(a) \in SUBSET Tasks /\ map.allocated[a] = Cardinality(Counted(a))
      BY <1>2, <1>4 DEF Counted, AppTasks, Inv, AllocatedInv
    <3>2. CASE left # 0
      BY <3>1, <3>2 DEF Others
    <3>3. CASE left = 0
      <4>1. IsFiniteSet(Counted(a)) /\ Cardinality(Counted(a)) = 1
        BY <1>2, <3>1, <3>3, TasksCountNat DEF Inv, TypeOK, MapType
      <4>2. status[t] # "TERMINATED"
        BY <1>1, <1>2, <1>4 DEF Listed, ListedInv
      <4>3. t \in Counted(a)
        BY <3>1, <4>2 DEF AppTasks
      <4>4. IsFiniteSet(Counted(a) \ {t}) /\ Cardinality(Counted(a) \ {t}) = 0
        BY <4>1, <4>3, FS_RemoveElement
      <4>5. Counted(a) \ {t} = {}
        BY <4>4, FS_EmptySet
      <4> QED
        BY <4>5
    <3> QED
      BY <3>2, <3>3
  <2>5. orders \subseteq S \X PEs
    <3> SUFFICES ASSUME NEW u \in others
                 PROVE  Holder(u) \in PEs
      BY <2>1
    <3>1. u \in Tasks /\ Listed(u) /\ AppOf[u] < appid_cnt
      BY <1>2, <1>4 DEF AppTasks, Listed, Others
    <3> QED
      BY <3>1 DEF Inv, TaskInv, ListedInv, Holder
  <2>6. /\ \A u \in Tasks : status'[u] = IF u \in S THEN "TERMINATED" ELSE status[u]
        /\ status' \in [Tasks -> Statuses]
    BY <1>4 DEF Inv, TypeOK, Statuses
  <2>7. VerifyPending(rest) /\ RequestHalt(rest)
    BY <1>4
  <2> HIDE DEF others, S, left, m, rest, orders
  <2>8. Between(rest)
    <3>1. /\ rest.held = map.held \ PagesOf(S)
          /\ rest.allocated = [map.allocated EXCEPT ![a] = left]
          /\ rest.apps \in {map.apps, map.apps \ {a}} /\ a \notin rest.apps
      BY <2>2, <2>3
    <3>2. \A h \in aborting' : h \in aborting \/ (a \notin rest.apps /\ h \in S \X PEs)
      BY <1>4, <2>5, <3>1
    <3> QED
      BY <1>1, <1>2, <1>4, <2>1, <2>3, <2>4, <2>6, <3>1, <3>2, EndBetween
  <2>9. Mapped(rest)
    BY <1>1, <2>7, <2>8, VerifyPendingMaps
  <2>10. TypeOK'
    <3>1. /\ map' \in MapType /\ pe' \in [Tasks -> PEs \cup {NoPE}]
          /\ kernel' \in [Tasks -> KernelStates] /\ at' \in [Tasks -> PEs \cup {NoPE}]
          /\ moving' = moving /\ appid_cnt' \in Nat /\ injecting' \in BOOLEAN
          /\ pending' \in Apps \cup {NoApp}
      BY <2>3, <2>7, VerifyPendingType DEF Inv
    <3>2. halting' \subseteq PEs
      BY <2>7 DEF RequestHalt, Inv, TypeOK
    <3>3. mail' \in [Tasks -> SUBSET Services] /\ aborting' \subseteq Tasks \X PEs
      BY <1>1, <1>4, <2>1, <2>5 DEF Inv, TypeOK
    <3> QED
      BY <1>1, <2>6, <3>1, <3>2, <3>3 DEF Inv, TypeOK
  <2>11. \A u \in Tasks : TaskInv(u)'
    <3>1. /\ rest.apps \subseteq map.apps /\ a \notin rest.apps
          /\ \A b \in map.apps \ rest.apps : b = a
      BY <2>2, <2>3
    <3> QED
      BY <1>1, <1>2, <1>4, <2>1, <2>6, <2>9, <2>10, <3>1, EndTasks
  <2> QED
    BY <2>9, <2>10, <2>11 DEF Mapped, Inv
<1> QED
  BY <1>3, <1>4 DEF TaskAborted

-----------------------------------------------------------------------------
(* The theorems.                                                           *)

LEMMA InvInit == Init => Inv
<1> SUFFICES ASSUME Init PROVE Inv
  OBVIOUS
<1>1. TypeOK
  BY TypeInit
<1>2. /\ map.apps = {} /\ map.held = {} /\ map.allocated = [a \in Apps |-> 0]
      /\ appid_cnt = 0 /\ pending = NoApp /\ injected = 0 /\ injecting = FALSE
      /\ aborting = {} /\ asked = {}
  BY DEF Init
<1>3. ASSUME NEW t \in Tasks
      PROVE  TaskInv(t)
  <2>1. AppOf[t] \in Nat
    BY ConstantsAssumption DEF Apps
  <2>2. FutureInv(t)
    BY <1>2 DEF Init, FutureInv, Listed
  <2> QED
    BY <1>2, <2>1, <2>2 DEF TaskInv, Loading, Listed
<1> QED
  BY <1>1, <1>2, <1>3 DEF Inv, InjectionInv, HeldInv, AllocatedInv, AbortingInv, Listed

LEMMA InvNext == Inv /\ [Next]_vars => Inv'
<1> SUFFICES ASSUME Inv, [Next]_vars
             PROVE  Inv'
  OBVIOUS
<1>1. CASE UNCHANGED vars
  <2>1. /\ UNCHANGED <<map, appid_cnt, pending, finished, finished_cnt, status, pe, old_pe>>
        /\ UNCHANGED <<injected, injecting, kernel, at, moving, mail, asked, aborting, halting>>
    BY <1>1 DEF vars, mapperVars, kernelVars
  <2>2. TypeOK'
    BY <2>1 DEF Inv, TypeOK
  <2>3. \A u \in Tasks : TaskInv(u)'
    BY <2>1, TaskFrame DEF Listed
  <2> QED
    BY <2>1, <2>2, <2>3, EnvironmentStep DEF mapperVars
<1>2. CASE NewApp
  BY <1>2, StepNewApp
<1>3. CASE RequestFinish
  BY <1>3, StepRequestFinish
<1>4. ASSUME NEW p \in PEs, PeHalted(p)
      PROVE  Inv'
  BY <1>4, StepPeHalted
<1>5. ASSUME NEW t \in Tasks, Handler(t)
      PROVE  Inv'
  BY <1>5, StepTaskAllocated, StepTaskTerminated, StepTaskAborted, StepMigrationMap,
     StepTaskMigrated DEF Handler
<1>6. ASSUME NEW t \in Tasks, Environment(t)
      PROVE  Inv'
  BY <1>6, StepLoad, StepStart, StepEnd, StepMigrate, StepAbortTask, StepAskMigration
     DEF Environment, Terminate, Abort
<1> QED
  BY <1>1, <1>2, <1>3, <1>4, <1>5, <1>6 DEF Next

\* In every reachable state the records of the mapper, the kernels and the messages
\* between them are related as Inv says.
THEOREM Invariance == Spec => []Inv
BY InvInit, InvNext, PTL DEF Spec

\* Every handler leaves well-typed counters and records, in particular the processor
\* pointers that other handlers follow.
THEOREM TypeCorrect == Spec => []TypeOK
<1>1. Inv => TypeOK
  BY DEF Inv
<1> QED
  BY <1>1, Invariance, PTL

\* map_task_migrated frees the page of old_pe without a test of the pointer: there is
\* a processor in it whenever the message arrives for a listed application.
THEOREM MigrationsExpected == Spec => []MigratedExpected
<1>1. Inv => MigratedExpected
  <2> SUFFICES ASSUME Inv, NEW t \in Tasks, "TASK_MIGRATED" \in mail[t], Listed(t)
               PROVE  old_pe[t] # NoPE /\ <<t, old_pe[t]>> \in map.held
    BY DEF MigratedExpected, Listed
  <2>1. ListedInv(t)
    BY StartedPhase
  <2>2. status[t] = "MIGRATING" /\ old_pe[t] \in PEs
    BY <2>1 DEF ListedInv, Inv, TypeOK, Statuses
  <2> QED
    BY <2>2, ConstantsAssumption DEF Inv, HeldInv
<1> QED
  BY <1>1, Invariance, PTL

\* No processor lists a task of an application the mapper has freed, so that walking
\* the lists never follows a pointer to a freed descriptor.
THEOREM NoTaskDangles == Spec => []NoDanglingTask
<1>1. Inv => NoDanglingTask
  BY DEF Inv, TypeOK, MapType, HeldInv, Listed, NoDanglingTask
<1> QED
  BY <1>1, Invariance, PTL

\* As long as an application is listed, the mapper counts as used every page in which
\* a kernel has, or is about to receive, one of its tasks.
THEOREM PagesOutlive == Spec => []PagesOutliveTasks
<1>1. Inv => PagesOutliveTasks
  <2> SUFFICES ASSUME Inv, NEW t \in Tasks, Listed(t), NEW p \in Resident(t)
               PROVE  <<t, p>> \in map.held
    BY DEF PagesOutliveTasks, Listed
  <2>1. kernel[t] \notin {"none", "gone"} /\ p \in PEs /\ p \in {at[t], moving[t]}
    BY DEF Resident, Inv, TypeOK
  <2>2. CASE Loading(t)
    <3>1. LoadingInv(t)
      BY <2>2 DEF Inv, TaskInv
    <3> QED
      BY <2>1, <3>1, ConstantsAssumption DEF LoadingInv, Inv, HeldInv
  <2>3. CASE ~Loading(t)
    <3>1. StartedInv(t) /\ ListedInv(t)
      BY <2>3, Phases DEF FutureInv
    <3>2. status[t] # "TERMINATED" /\ p \in {pe[t], old_pe[t]}
      BY <2>1, <3>1, ConstantsAssumption DEF ListedInv, Inv, TypeOK, Statuses
    <3> QED
      BY <2>1, <3>2 DEF Inv, HeldInv
  <2> QED
    BY <2>2, <2>3
<1> QED
  BY <1>1, Invariance, PTL

\* The n-th application announced by an injector gets the identifier n, whatever
\* waits, terminates, aborts or migrates in between.
THEOREM IdentifiersFollow == Spec => []IdentifiersFollowInjection
<1>1. Inv => IdentifiersFollowInjection
  BY DEF Inv, InjectionInv, IdentifiersFollowInjection
<1> QED
  BY <1>1, Invariance, PTL
=============================================================================
