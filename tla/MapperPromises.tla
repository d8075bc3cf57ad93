--------------------------- MODULE MapperPromises ---------------------------
(***************************************************************************)
(* Theorems about what the mapper owes to others: the pages it counts are  *)
(* those of the tasks, a task that has ended stays ended, every task of an *)
(* aborted application is found, the processors are halted once, when all  *)
(* applications are through, the pages promised to a waiting application   *)
(* are kept for it, and no page is given twice.                            *)
(***************************************************************************)
EXTENDS MapperProofs

-----------------------------------------------------------------------------
(* SlotsConserved, for any state m of the counters.                        *)

Accounts(m) ==
  /\ m.slots + Cardinality(m.held) = Capacity
  /\ \A p \in PEs : m.free[p] + Cardinality(At(m.held, p)) = MaxTasks

LEMMA HeldCounts ==
  ASSUME NEW held \in SUBSET (Tasks \X PEs), NEW p
  PROVE  /\ IsFiniteSet(held) /\ Cardinality(held) \in Nat
         /\ At(held, p) \in SUBSET held
         /\ IsFiniteSet(At(held, p)) /\ Cardinality(At(held, p)) \in Nat
<1>1. At(held, p) \in SUBSET held
  BY DEF At
<1> QED
  BY <1>1, PairsCountNat

LEMMA DifferenceCount ==
  ASSUME NEW A, NEW B, IsFiniteSet(A), A \cap B = B
  PROVE  Cardinality(A \ B) = Cardinality(A) - Cardinality(B)
BY FS_Difference

LEMMA FreedAccounts ==
  ASSUME NEW m \in MapType, Accounts(m), NEW pairs \in SUBSET m.held
  PROVE  Accounts(Freed(m, pairs))
<1> DEFINE back == [p \in PEs |-> m.free[p] + Cardinality(At(pairs \cap m.held, p))]
           n == Cardinality(pairs)
           freed == Freed(m, pairs)
<1>1. /\ m.held \in SUBSET (Tasks \X PEs) /\ pairs \in SUBSET (Tasks \X PEs)
      /\ m.slots \in Int /\ m.free \in [PEs -> Int]
  BY DEF MapType
<1>2. pairs \cap m.held = pairs /\ m.held \cap pairs = pairs
  OBVIOUS
<1>3. n \in Nat /\ Cardinality(m.held) \in Nat
  BY <1>1, PairsCountNat
<1>4. Cardinality(m.held \ pairs) = Cardinality(m.held) - n
  <2>1. IsFiniteSet(m.held)
    BY <1>1, PairsCountNat
  <2> QED
    BY <1>2, <2>1, DifferenceCount
<1>5. ASSUME NEW p \in PEs
      PROVE  back[p] + Cardinality(At(m.held \ pairs, p)) = MaxTasks
  <2>1. /\ IsFiniteSet(At(m.held, p)) /\ Cardinality(At(m.held, p)) \in Nat
        /\ Cardinality(At(pairs, p)) \in Nat
    BY <1>1, HeldCounts
  <2>2. /\ At(m.held \ pairs, p) = At(m.held, p) \ At(pairs, p)
        /\ At(m.held, p) \cap At(pairs, p) = At(pairs, p)
    BY DEF At
  <2>3. Cardinality(At(m.held \ pairs, p)) = Cardinality(At(m.held, p)) - Cardinality(At(pairs, p))
    BY <2>1, <2>2, DifferenceCount
  <2>4. m.free[p] \in Int /\ m.free[p] + Cardinality(At(m.held, p)) = MaxTasks
    BY <1>1 DEF Accounts
  <2>5. back[p] = m.free[p] + Cardinality(At(pairs, p))
    BY <1>2
  <2> QED
    BY <2>1, <2>3, <2>4, <2>5
<1>6. freed.slots = m.slots + n /\ freed.free = back /\ freed.held = m.held \ pairs
  <2>1. freed = [m EXCEPT !.slots = @ + n, !.free = back, !.held = @ \ pairs]
    BY DEF Freed
  <2> HIDE DEF freed, back, n
  <2> QED
    BY <2>1 DEF MapType
<1> HIDE DEF freed, back, n
<1>7. freed.slots + Cardinality(freed.held) = Capacity
  BY <1>1, <1>3, <1>4, <1>6 DEF Accounts
<1>8. \A p \in PEs : freed.free[p] + Cardinality(At(freed.held, p)) = MaxTasks
  BY <1>5, <1>6
<1> QED
  BY <1>7, <1>8 DEF Accounts, freed

\* An application that is mapped takes as many pages as it has tasks.
LEMMA NewPagesCount ==
  ASSUME NEW a, NEW place \in [AppTasks(a) -> PEs]
  PROVE  /\ NewPages(a, place) \in SUBSET (Tasks \X PEs)
         /\ Cardinality(NewPages(a, place)) = TaskCnt(a)
         /\ \A p \in PEs : Cardinality(At(NewPages(a, place), p)) = GivenAt(a, place, p)
<1>1. ASSUME NEW S \in SUBSET AppTasks(a)
      PROVE  Cardinality({<<t, place[t]>> : t \in S}) = Cardinality(S)
  <2> DEFINE T == {<<t, place[t]>> : t \in S}
             f == [t \in S |-> <<t, place[t]>>]
  <2>1. f \in [S -> T] /\ (\A t, u \in S : f[t] = f[u] => t = u) /\ (\A h \in T : \E t \in S : f[t] = h)
    OBVIOUS
  <2> HIDE DEF f, T
  <2>2. f \in Bijection(S, T)
    BY <2>1 DEF Bijection, Injection, Surjection, IsInjective
  <2>3. ExistsBijection(S, T)
    BY <2>2 DEF ExistsBijection
  <2>4. IsFiniteSet(S)
    BY TasksCountNat DEF AppTasks
  <2>5. Cardinality(T) = Cardinality(S)
    BY <2>3, <2>4, FS_Bijection
  <2> QED
    BY <2>5 DEF T
<1>2. NewPages(a, place) \in SUBSET (Tasks \X PEs)
  BY DEF NewPages, AppTasks
<1>3. Cardinality(NewPages(a, place)) = TaskCnt(a)
  BY <1>1 DEF NewPages, TaskCnt
<1>4. ASSUME NEW p \in PEs
      PROVE  Cardinality(At(NewPages(a, place), p)) = GivenAt(a, place, p)
  <2> DEFINE S == {t \in AppTasks(a) : place[t] = p}
  <2>1. At(NewPages(a, place), p) = {<<t, place[t]>> : t \in S}
    BY DEF At, NewPages
  <2>2. S \in SUBSET AppTasks(a)
    OBVIOUS
  <2> HIDE DEF S
  <2>3. Cardinality(At(NewPages(a, place), p)) = Cardinality(S)
    BY <1>1, <2>1, <2>2
  <2> QED
    BY <2>3 DEF S, GivenAt
<1> QED
  BY <1>2, <1>3, <1>4

LEMMA MapDoAccounts ==
  ASSUME NEW m \in MapType, Accounts(m), NEW a \in Apps,
         \A h \in m.held : AppOf[h[1]] # a,
         NEW place \in Placements(m, a), MapDo(m, a, place)
  PROVE  Accounts(map')
<1> DEFINE new == NewPages(a, place)
           n == TaskCnt(a)
<1>1. place \in [AppTasks(a) -> PEs]
  BY DEF Placements
<1>2. /\ new \in SUBSET (Tasks \X PEs) /\ Cardinality(new) = n
      /\ \A p \in PEs : Cardinality(At(new, p)) = GivenAt(a, place, p)
  BY <1>1, NewPagesCount
<1>3. /\ map'.held = m.held \cup new /\ map'.slots = m.slots - n
      /\ map'.free = FreeAfter(m, a, place)
  BY MapDoFields
<1>4. m.held \in SUBSET (Tasks \X PEs) /\ m.slots \in Int /\ m.free \in [PEs -> Int]
  BY DEF MapType
<1>5. m.held \cap new = {}
  BY DEF NewPages, AppTasks
<1>6. n \in Nat
  BY TaskCntNat
<1> HIDE DEF new, n
<1>7. map'.slots + Cardinality(map'.held) = Capacity
  <2>1. IsFiniteSet(m.held) /\ IsFiniteSet(new) /\ Cardinality(m.held) \in Nat
    BY <1>2, <1>4, PairsCountNat
  <2>2. Cardinality(m.held \cup new) = Cardinality(m.held) + Cardinality(new)
                                       - Cardinality(m.held \cap new)
    BY <2>1, FS_Union
  <2>3. Cardinality(m.held \cap new) = 0
    BY <1>5, FS_EmptySet
  <2> QED
    BY <1>2, <1>3, <1>4, <1>6, <2>1, <2>2, <2>3 DEF Accounts
<1>8. ASSUME NEW p \in PEs
      PROVE  map'.free[p] + Cardinality(At(map'.held, p)) = MaxTasks
  <2>1. /\ At(m.held \cup new, p) = At(m.held, p) \cup At(new, p)
        /\ At(m.held, p) \cap At(new, p) = {}
    BY <1>5 DEF At
  <2>2. /\ IsFiniteSet(At(m.held, p)) /\ Cardinality(At(m.held, p)) \in Nat
        /\ IsFiniteSet(At(new, p)) /\ Cardinality(At(new, p)) \in Nat
    BY <1>2, <1>4, HeldCounts
  <2>3. Cardinality(At(m.held, p) \cup At(new, p))
          = Cardinality(At(m.held, p)) + Cardinality(At(new, p)) - Cardinality({})
    BY <2>1, <2>2, FS_Union
  <2>4. Cardinality({}) = 0
    BY FS_EmptySet
  <2>5. /\ Cardinality(At(new, p)) = GivenAt(a, place, p)
        /\ map'.free[p] = m.free[p] - GivenAt(a, place, p) /\ m.free[p] \in Int
        /\ m.free[p] + Cardinality(At(m.held, p)) = MaxTasks
    BY <1>2, <1>3, <1>4 DEF Accounts, FreeAfter
  <2>6. At(map'.held, p) = At(m.held, p) \cup At(new, p)
    BY <1>3, <2>1
  <2>7. Cardinality(At(map'.held, p)) = Cardinality(At(m.held, p)) + Cardinality(At(new, p))
    BY <2>2, <2>3, <2>4, <2>6
  <2> QED
    BY <2>2, <2>5, <2>7
<1> QED
  BY <1>7, <1>8 DEF Accounts

\* The page counters of m are not changed by what else a handler counts.
LEMMA SameAccounts ==
  ASSUME NEW m, NEW r, Accounts(m), r.slots = m.slots, r.free = m.free, r.held = m.held
  PROVE  Accounts(r)
BY DEF Accounts

LEMMA VerifyPendingAccounts ==
  ASSUME Inv, NEW m \in MapType, Accounts(m), m.held \subseteq map.held, VerifyPending(m)
  PROVE  Accounts(map')
<1>1. CASE CanResume(m)
  <2>1. pending \in Apps /\ pending \notin map.apps
    BY <1>1 DEF CanResume, Inv, TypeOK, InjectionInv
  <2>2. \A h \in m.held : AppOf[h[1]] # pending
    BY <2>1 DEF Inv, TypeOK, MapType, HeldInv, Listed
  <2>3. PICK place \in Placements(m, pending) : MapDo(m, pending, place)
    BY <1>1 DEF VerifyPending
  <2> QED
    BY <2>1, <2>2, <2>3, MapDoAccounts
<1>2. CASE ~CanResume(m)
  BY <1>2 DEF VerifyPending
<1> QED
  BY <1>1, <1>2

\* _map_release_resources: tasks of a listed application that are not TERMINATED are
\* in the lists of their processors.
LEMMA ReleasedAccounts ==
  ASSUME Inv, Accounts(map), NEW S \in SUBSET Tasks,
         \A u \in S : Listed(u) /\ AppOf[u] < appid_cnt /\ status[u] # "TERMINATED"
  PROVE  Accounts(Released(map, S))
<1> DEFINE pairs == PagesOf(S)
           k == IF pending = NoApp THEN Freed(map, pairs).failed
                ELSE Freed(map, pairs).failed - Unblocked(map, pairs)
<1>1. pairs \in SUBSET map.held
  <2>1. \A u \in S : u \in Tasks /\ pe[u] \in PEs /\ old_pe[u] \in PEs \cup {NoPE}
    BY DEF Inv, TypeOK, TaskInv, ListedInv
  <2>2. \A u \in S, p \in PEs : p \in {pe[u], old_pe[u]} => <<u, p>> \in map.held
    BY DEF Inv, HeldInv
  <2> QED
    BY <2>1, <2>2 DEF PagesOf
<1>2. Freed(map, pairs) \in MapType /\ Accounts(Freed(map, pairs))
  BY <1>1, FreedAccounts, FreedType, PagesFinite DEF Inv, TypeOK
<1>3. Released(map, S) = [Freed(map, pairs) EXCEPT !.failed = k]
  BY DEF Released
<1> HIDE DEF pairs, k
<1>4. /\ Released(map, S).slots = Freed(map, pairs).slots
      /\ Released(map, S).free = Freed(map, pairs).free
      /\ Released(map, S).held = Freed(map, pairs).held
  BY <1>2, <1>3 DEF MapType
<1> QED
  BY <1>2, <1>4, SameAccounts

\* The part of TaskTerminated and of TaskAborted that changes the counters.
LEMMA EndAccounts ==
  ASSUME Inv, Accounts(map), NEW S \in SUBSET Tasks,
         \A u \in S : Listed(u) /\ AppOf[u] < appid_cnt /\ status[u] # "TERMINATED",
         NEW a \in Apps, NEW left \in Int, NEW s \in SUBSET Apps,
         VerifyPending([Released(map, S) EXCEPT !.allocated[a] = left, !.apps = s])
  PROVE  Accounts(map')
<1> DEFINE m == Released(map, S)
           rest == [m EXCEPT !.allocated[a] = left, !.apps = s]
           f == [m.allocated EXCEPT ![a] = left]
<1>1. m \in MapType /\ Accounts(m) /\ m.held \subseteq map.held
  BY ReleasedFields, ReleasedAccounts
<1> HIDE DEF m
<1>2. f \in [Apps -> Int] /\ rest = [m EXCEPT !.allocated = f, !.apps = s]
  BY <1>1 DEF MapType
<1> HIDE DEF f, rest
<1>3. /\ rest \in MapType /\ rest.held = m.held /\ rest.slots = m.slots /\ rest.free = m.free
  BY <1>1, <1>2 DEF MapType
<1>4. Accounts(rest)
  BY <1>1, <1>3, SameAccounts
<1>5. VerifyPending(rest)
  BY DEF rest, m
<1> QED
  BY <1>1, <1>3, <1>4, <1>5, VerifyPendingAccounts

LEMMA EndedListed ==
  ASSUME Inv, NEW t \in Tasks, AppOf[t] \in map.apps,
         mail[t] \cap {"TASK_TERMINATED", "TASK_ABORTED"} # {}
  PROVE  AppOf[t] < appid_cnt /\ status[t] # "TERMINATED" /\ AppOf[t] \in Apps
BY StartedPhase, Phases DEF Listed, ListedInv

LEMMA AccountsInit == Init => Accounts(map)
<1> SUFFICES ASSUME Init PROVE Accounts(map)
  OBVIOUS
<1>1. /\ map.slots = Capacity /\ map.held = {} /\ map.free = [p \in PEs |-> MaxTasks]
  BY DEF Init
<1>2. \A p \in PEs : At({}, p) = {}
  BY DEF At
<1>3. Cardinality({}) = 0
  BY FS_EmptySet
<1>4. map.slots + Cardinality(map.held) = Capacity
  BY <1>1, <1>3, CapacityNat
<1>5. ASSUME NEW p \in PEs
      PROVE  map.free[p] + Cardinality(At(map.held, p)) = MaxTasks
  BY <1>1, <1>2, <1>3, ConstantsAssumption
<1> QED
  BY <1>4, <1>5 DEF Accounts

LEMMA AccountsNext == Inv /\ Accounts(map) /\ [Next]_vars => Accounts(map)'
<1> SUFFICES ASSUME Inv, Accounts(map), [Next]_vars
             PROVE  Accounts(map')
  OBVIOUS
<1>1. ASSUME map' = map
      PROVE  Accounts(map')
  BY <1>1
<1>2. CASE NewApp
  <2> DEFINE m == Reserved(map, appid_cnt)
             n == ReservationFailures(map, appid_cnt)
             r == [p \in PEs |-> map.reserved[p] + Cardinality(StaticAt(appid_cnt, p))]
  <2>1. appid_cnt \in Apps /\ appid_cnt \notin map.apps
    BY <1>2, ConstantsAssumption DEF NewApp, Inv, InjectionInv, TypeOK, Apps
  <2>2. m \in MapType
    BY ReservedType DEF Inv, TypeOK
  <2>3. m = [map EXCEPT !.reserved = r]
    BY DEF Reserved
  <2>4. \/ map' = [m EXCEPT !.failed = n]
        \/ \E place \in Placements(m, appid_cnt) : MapDo(m, appid_cnt, place)
    BY <1>2 DEF NewApp
  <2> HIDE DEF m, n, r
  <2>5. m.slots = map.slots /\ m.free = map.free /\ m.held = map.held
    BY <2>3 DEF Inv, TypeOK, MapType
  <2>6. Accounts(m)
    BY <2>5, SameAccounts
  <2>7. CASE map' = [m EXCEPT !.failed = n]
    <3>1. map'.slots = m.slots /\ map'.free = m.free /\ map'.held = m.held
      BY <2>2, <2>7 DEF MapType
    <3> QED
      BY <2>6, <3>1, SameAccounts
  <2>8. ASSUME NEW place \in Placements(m, appid_cnt), MapDo(m, appid_cnt, place)
        PROVE  Accounts(map')
    <3>1. \A h \in m.held : AppOf[h[1]] # appid_cnt
      BY <2>1, <2>5 DEF Inv, TypeOK, MapType, HeldInv, Listed
    <3> QED
      BY <2>1, <2>2, <2>6, <2>8, <3>1, MapDoAccounts
  <2> QED
    BY <2>4, <2>7, <2>8
<1>3. ASSUME NEW t \in Tasks, TaskAllocated(t)
      PROVE  Accounts(map')
  <2> DEFINE f == [map.allocated EXCEPT ![AppOf[t]] = map.allocated[AppOf[t]] + 1]
  <2>1. map' \in {map, [map EXCEPT !.allocated = f]}
    BY <1>3 DEF TaskAllocated, Inv, TypeOK, MapType
  <2> HIDE DEF f
  <2>2. map'.slots = map.slots /\ map'.free = map.free /\ map'.held = map.held
    BY <2>1 DEF Inv, TypeOK, MapType
  <2> QED
    BY <2>2, SameAccounts
<1>4. ASSUME NEW t \in Tasks, TaskTerminated(t)
      PROVE  Accounts(map')
  <2> DEFINE left == Released(map, {t}).allocated[AppOf[t]] - 1
             s == IF left = 0 THEN Released(map, {t}).apps \ {AppOf[t]} ELSE Released(map, {t}).apps
  <2>1. CASE AppOf[t] \in map.apps
    <3>1. AppOf[t] < appid_cnt /\ status[t] # "TERMINATED" /\ AppOf[t] \in Apps
      BY <1>4, <2>1, EndedListed DEF TaskTerminated, Deliver
    <3>2. Released(map, {t}) \in MapType
      BY ReleasedFields
    <3>3. left \in Int /\ s \in SUBSET Apps
      BY <3>1, <3>2 DEF MapType
    <3>4. VerifyPending([Released(map, {t}) EXCEPT !.allocated[AppOf[t]] = left, !.apps = s])
      BY <1>4, <2>1 DEF TaskTerminated
    <3> HIDE DEF left, s
    <3> QED
      BY <2>1, <3>1, <3>3, <3>4, EndAccounts DEF Listed
  <2>2. CASE AppOf[t] \notin map.apps
    BY <1>1, <1>4, <2>2 DEF TaskTerminated
  <2> QED
    BY <2>1, <2>2
<1>5. ASSUME NEW t \in Tasks, TaskAborted(t)
      PROVE  Accounts(map')
  <2> DEFINE left == map.allocated[AppOf[t]] - 1
             S == Others(t, left) \cup {t}
             s == Released(map, S).apps \ {AppOf[t]}
  <2>1. CASE AppOf[t] \in map.apps
    <3>1. AppOf[t] < appid_cnt /\ status[t] # "TERMINATED" /\ AppOf[t] \in Apps
      BY <1>5, <2>1, EndedListed DEF TaskAborted, Deliver
    <3>2. /\ S \in SUBSET Tasks
          /\ \A u \in S : Listed(u) /\ AppOf[u] < appid_cnt /\ status[u] # "TERMINATED"
      BY <2>1, <3>1 DEF AppTasks, Others, Listed
    <3>3. VerifyPending([Released(map, S) EXCEPT !.allocated[AppOf[t]] = left, !.apps = s])
      BY <1>5, <2>1 DEF TaskAborted
    <3>4. left \in Int
      BY <3>1 DEF Inv, TypeOK, MapType
    <3> HIDE DEF left, S
    <3>5. s \in SUBSET Apps
      BY <3>2, ReleasedFields DEF MapType
    <3> HIDE DEF s
    <3> QED
      BY <3>1, <3>2, <3>3, <3>4, <3>5, EndAccounts
  <2>2. CASE AppOf[t] \notin map.apps
    BY <1>1, <1>5, <2>2 DEF TaskAborted
  <2> QED
    BY <2>1, <2>2
<1>6. ASSUME NEW t \in Tasks, MigrationMap(t)
      PROVE  Accounts(map')
  <2>1. CASE map' = map
    BY <1>1, <2>1
  <2>2. ASSUME NEW target \in PEs, target # pe[t], Listed(t),
               status[t] \notin {"TERMINATED", "MIGRATING"},
               map' = [map EXCEPT !.slots = @ - 1, !.free[target] = @ - 1,
                                  !.held = @ \cup {<<t, target>>}]
        PROVE  Accounts(map')
    <3> DEFINE f == [map.free EXCEPT ![target] = @ - 1]
               h == map.held \cup {<<t, target>>}
    <3>1. /\ map \in MapType /\ map.slots \in Int /\ map.held \in SUBSET (Tasks \X PEs)
          /\ map.free \in [PEs -> Int] /\ map' = [map EXCEPT !.slots = @ - 1, !.free = f, !.held = h]
      BY <2>2 DEF Inv, TypeOK, MapType
    <3>2. <<t, target>> \notin map.held
      <4>1. AppOf[t] < appid_cnt /\ ListedInv(t)
        BY <1>6, <2>2, StartedPhase DEF MigrationMap
      <4>2. old_pe[t] = NoPE
        BY <2>2, <4>1 DEF ListedInv, Inv, TypeOK, Statuses
      <4> QED
        BY <2>2, <4>2, ConstantsAssumption DEF Inv, HeldInv
    <3>3. map'.slots = map.slots - 1 /\ map'.free = f /\ map'.held = h
      <4> HIDE DEF f, h
      <4> QED
        BY <3>1 DEF MapType
    <3>4. Cardinality(h) = Cardinality(map.held) + 1 /\ Cardinality(map.held) \in Nat
      BY <3>1, <3>2, HeldCounts, FS_AddElement
    <3>5. map'.slots + Cardinality(map'.held) = Capacity
      BY <3>1, <3>3, <3>4 DEF Accounts
    <3>6. ASSUME NEW p \in PEs
          PROVE  map'.free[p] + Cardinality(At(map'.held, p)) = MaxTasks
      <4>1. /\ IsFiniteSet(At(map.held, p)) /\ Cardinality(At(map.held, p)) \in Nat
            /\ map.free[p] \in Int /\ map.free[p] + Cardinality(At(map.held, p)) = MaxTasks
        BY <3>1, HeldCounts DEF Accounts
      <4>2. CASE p = target
        <5>1. At(h, p) = At(map.held, p) \cup {<<t, target>>} /\ <<t, target>> \notin At(map.held, p)
          BY <3>2, <4>2 DEF At
        <5>2. Cardinality(At(h, p)) = Cardinality(At(map.held, p)) + 1
          BY <4>1, <5>1, FS_AddElement
        <5> QED
          BY <3>1, <3>3, <4>1, <4>2, <5>2
      <4>3. CASE p # target
        <5>1. At(h, p) = At(map.held, p)
          BY <4>3 DEF At
        <5> QED
          BY <3>1, <3>3, <4>1, <4>3, <5>1
      <4> QED
        BY <4>2, <4>3
    <3> QED
      BY <3>5, <3>6 DEF Accounts
  <2> QED
    BY <1>6, <2>1, <2>2 DEF MigrationMap, CanMigrate, Listed
<1>7. ASSUME NEW t \in Tasks, TaskMigrated(t)
      PROVE  Accounts(map')
  <2>1. CASE AppOf[t] \in map.apps
    <3>1. ListedInv(t) /\ "TASK_MIGRATED" \in mail[t]
      BY <1>7, <2>1, StartedPhase DEF TaskMigrated, Deliver, Listed
    <3>2. status[t] = "MIGRATING" /\ old_pe[t] \in PEs
      BY <3>1 DEF ListedInv, Inv, TypeOK, Statuses
    <3>3. {<<t, old_pe[t]>>} \in SUBSET map.held
      BY <2>1, <3>2 DEF Inv, HeldInv, Listed
    <3>4. map' = Freed(map, {<<t, old_pe[t]>>})
      BY <1>7, <2>1 DEF TaskMigrated
    <3> QED
      BY <3>3, <3>4, FreedAccounts DEF Inv, TypeOK
  <2>2. CASE AppOf[t] \notin map.apps
    BY <1>1, <1>7, <2>2 DEF TaskMigrated
  <2> QED
    BY <2>1, <2>2
<1>8. CASE UNCHANGED map
  BY <1>1, <1>8
<1>9. ASSUME NEW t \in Tasks, Environment(t)
      PROVE  map' = map
  BY <1>9 DEF Environment, Load, Start, Terminate, Abort, End, Migrate, AbortTask,
     AskMigration, mapperVars
<1> QED
  BY <1>1, <1>2, <1>3, <1>4, <1>5, <1>6, <1>7, <1>8, <1>9
     DEF Next, Handler, RequestFinish, PeHalted, vars, mapperVars

\* The total counter, the counters of the processors and their task lists always agree.
THEOREM SlotsAgree == Spec => []SlotsConserved
<1>1. Accounts(map) => SlotsConserved
  BY DEF Accounts, SlotsConserved
<1> QED
  BY <1>1, AccountsInit, AccountsNext, Invariance, PTL DEF Spec

-----------------------------------------------------------------------------
(* Ended tasks.                                                            *)

LEMMA TerminatedStays ==
  ASSUME Inv, [Next]_vars, NEW u \in Tasks, status[u] = "TERMINATED"
  PROVE  status'[u] = "TERMINATED"
<1>1. ASSUME NEW t \in Tasks, TaskAllocated(t)
      PROVE  status'[u] = "TERMINATED"
  <2>1. Loading(t)
    BY <1>1, LoadingPhase DEF TaskAllocated, Deliver
  <2>2. AppOf[u] # AppOf[t]
    <3>1. AppOf[u] = AppOf[t] => LoadingInv(u)
      BY <2>1 DEF Loading, Listed, Inv, TaskInv
    <3> QED
      BY <3>1 DEF LoadingInv
  <2> QED
    BY <1>1, <2>2 DEF TaskAllocated, Inv, TypeOK
<1>2. ASSUME NEW t \in Tasks, TaskTerminated(t) \/ TaskAborted(t)
      PROVE  status'[u] = "TERMINATED"
  BY <1>2 DEF TaskTerminated, TaskAborted, Inv, TypeOK
<1>3. ASSUME NEW t \in Tasks, MigrationMap(t)
      PROVE  status'[u] = "TERMINATED"
  BY <1>3 DEF MigrationMap, CanMigrate, Inv, TypeOK
<1>4. ASSUME NEW t \in Tasks, TaskMigrated(t)
      PROVE  status'[u] = "TERMINATED"
  <2>1. Listed(t) => ListedInv(t) /\ "TASK_MIGRATED" \in mail[t]
    BY <1>4, StartedPhase DEF TaskMigrated, Deliver
  <2>2. Listed(t) => t # u
    BY <2>1 DEF ListedInv
  <2> QED
    BY <1>4, <2>2 DEF TaskMigrated, Listed, Inv, TypeOK
<1>5. ASSUME NEW t \in Tasks, Environment(t)
      PROVE  status'[u] = "TERMINATED"
  BY <1>5 DEF Environment, Load, Start, Terminate, Abort, End, Migrate, AbortTask,
     AskMigration, mapperVars
<1>6. CASE NewApp \/ RequestFinish \/ (\E p \in PEs : PeHalted(p)) \/ UNCHANGED vars
  BY <1>6 DEF NewApp, RequestFinish, PeHalted, vars, mapperVars
<1> QED
  BY <1>1, <1>2, <1>3, <1>4, <1>5, <1>6 DEF Next, Handler

\* No message that was overtaken brings a task back whose end the mapper has handled:
\* its pages were given away.
THEOREM TerminatedForEver == Spec => NoResurrection
<1>1. Inv /\ [Next]_vars =>
        [\A t \in Tasks : status[t] = "TERMINATED" => status'[t] = "TERMINATED"]_vars
  BY TerminatedStays
<1> QED
  BY <1>1, Invariance, PTL DEF Spec, NoResurrection

-----------------------------------------------------------------------------
(* What the handlers do to lists, kernels and orders.                      *)

LEMMA MapDoKeeps ==
  ASSUME Inv, NEW m \in MapType, NEW a \in Apps, a = appid_cnt,
         NEW place \in Placements(m, a), MapDo(m, a, place)
  PROVE  /\ moving' = moving /\ map'.apps = m.apps \cup {a}
         /\ appid_cnt' = a \/ (a = 0 /\ appid_cnt' = 1)
         /\ \A u \in Tasks : kernel'[u] \in {kernel[u], "assigned"}
         /\ \A u \in Tasks : AppOf[u] # a => kernel'[u] = kernel[u] /\ at'[u] = at[u]
<1>1. map'.apps = m.apps \cup {a}
  BY MapDoFields
<1>2. moving' = moving /\ (appid_cnt' = a \/ (a = 0 /\ appid_cnt' = 1))
  BY DEF MapDo, Assign
<1>3. /\ kernel' = [t \in Tasks |-> IF t \in AppTasks(a) \ {MapperTask} THEN "assigned"
                                    ELSE kernel[t]]
      /\ at' = [t \in Tasks |-> IF t \in AppTasks(a) \ {MapperTask} THEN place[t] ELSE at[t]]
  BY DEF MapDo, Assign
<1> QED
  BY <1>1, <1>2, <1>3 DEF AppTasks

LEMMA VerifyPendingKeeps ==
  ASSUME Inv, NEW m \in MapType, VerifyPending(m)
  PROVE  /\ moving' = moving /\ map'.apps \in {m.apps, m.apps \cup {appid_cnt}}
         /\ \/ appid_cnt' = appid_cnt
            \/ appid_cnt = 0 /\ appid_cnt' = 1 /\ 0 \in map'.apps
         /\ \A u \in Tasks : kernel'[u] \in {kernel[u], "assigned"}
         /\ \A u \in Tasks : AppOf[u] # appid_cnt => kernel'[u] = kernel[u] /\ at'[u] = at[u]
         /\ ~injecting => map' = m /\ injecting' = injecting
<1>1. CASE CanResume(m)
  <2>1. pending \in Apps /\ pending = appid_cnt /\ injecting
    BY <1>1, ConstantsAssumption DEF CanResume, Inv, TypeOK, InjectionInv
  <2>2. PICK place \in Placements(m, pending) : MapDo(m, pending, place)
    BY <1>1 DEF VerifyPending
  <2> QED
    BY <2>1, <2>2, MapDoKeeps
<1>2. CASE ~CanResume(m)
  BY <1>2 DEF VerifyPending, kernelVars
<1> QED
  BY <1>1, <1>2

\* map_new_app: the application that is announced is the next one.
LEMMA NewAppKeeps ==
  ASSUME Inv, NewApp
  PROVE  /\ appid_cnt \in Apps /\ appid_cnt \notin map.apps
         /\ ~injecting /\ injected < AppCnt /\ moving' = moving
         /\ map'.apps \in {map.apps, map.apps \cup {appid_cnt}}
         /\ \/ appid_cnt' = appid_cnt
            \/ appid_cnt = 0 /\ appid_cnt' = 1 /\ 0 \in map'.apps
         /\ \A u \in Tasks : kernel'[u] \in {kernel[u], "assigned"}
         /\ \A u \in Tasks : AppOf[u] # appid_cnt => kernel'[u] = kernel[u] /\ at'[u] = at[u]
<1> DEFINE m == Reserved(map, appid_cnt)
           n == ReservationFailures(map, appid_cnt)
           r == [p \in PEs |-> map.reserved[p] + Cardinality(StaticAt(appid_cnt, p))]
<1>1. appid_cnt \in Apps /\ appid_cnt \notin map.apps /\ ~injecting /\ injected < AppCnt
  BY ConstantsAssumption DEF NewApp, Inv, InjectionInv, TypeOK, Apps
<1>2. m \in MapType
  BY ReservedType DEF Inv, TypeOK
<1>3. m = [map EXCEPT !.reserved = r]
  BY DEF Reserved
<1>4. \/ map' = [m EXCEPT !.failed = n] /\ UNCHANGED <<kernelVars, appid_cnt>>
      \/ \E place \in Placements(m, appid_cnt) : MapDo(m, appid_cnt, place)
  BY DEF NewApp
<1> HIDE DEF m, n, r
<1>5. m.apps = map.apps
  BY <1>3 DEF Inv, TypeOK, MapType
<1>6. CASE map' = [m EXCEPT !.failed = n] /\ UNCHANGED <<kernelVars, appid_cnt>>
  <2>1. map'.apps = m.apps
    BY <1>2, <1>6 DEF MapType
  <2> QED
    BY <1>1, <1>5, <1>6, <2>1 DEF kernelVars
<1>7. ASSUME NEW place \in Placements(m, appid_cnt), MapDo(m, appid_cnt, place)
      PROVE  /\ moving' = moving /\ map'.apps = map.apps \cup {appid_cnt}
             /\ \/ appid_cnt' = appid_cnt
                \/ appid_cnt = 0 /\ appid_cnt' = 1 /\ 0 \in map'.apps
             /\ \A u \in Tasks : kernel'[u] \in {kernel[u], "assigned"}
             /\ \A u \in Tasks : AppOf[u] # appid_cnt => kernel'[u] = kernel[u] /\ at'[u] = at[u]
  BY <1>1, <1>2, <1>5, <1>7, MapDoKeeps
<1> QED
  BY <1>1, <1>4, <1>6, <1>7

\* Migrations leave the list of applications alone.
LEMMA SameApps ==
  ASSUME Inv, NEW t \in Tasks, MigrationMap(t) \/ TaskMigrated(t)
  PROVE  map'.apps = map.apps
<1> DEFINE f(p) == [map.free EXCEPT ![p] = @ - 1]
<1>1. \/ map' \in {map, Freed(map, {<<t, old_pe[t]>>})}
      \/ \E p \in PEs : map' = [map EXCEPT !.slots = @ - 1, !.free = f(p),
                                           !.held = @ \cup {<<t, p>>}]
  BY DEF MigrationMap, TaskMigrated, Inv, TypeOK, MapType
<1> HIDE DEF f
<1> QED
  BY <1>1 DEF Freed, Inv, TypeOK, MapType

LEMMA TaskAllocatedKeeps ==
  ASSUME Inv, NEW t \in Tasks, TaskAllocated(t)
  PROVE  /\ map'.apps = map.apps /\ injecting /\ moving' = moving
         /\ \/ appid_cnt' = appid_cnt
            \/ appid_cnt' = appid_cnt + 1 /\ appid_cnt \in map.apps /\ injecting' = FALSE
         /\ \A u \in Tasks : AppOf[u] < appid_cnt => kernel'[u] = kernel[u]
         /\ \A u \in Tasks : kernel'[u] = "gone" => kernel[u] = "gone"
         /\ \A u \in Tasks : status'[u] = "MIGRATING" => status[u] = "MIGRATING"
<1> DEFINE f == [map.allocated EXCEPT ![AppOf[t]] = map.allocated[AppOf[t]] + 1]
<1>1. map' \in {map, [map EXCEPT !.allocated = f]}
  BY DEF TaskAllocated, Inv, TypeOK, MapType
<1>2. AppOf[t] = appid_cnt /\ appid_cnt \in map.apps /\ injecting
  BY LoadingPhase DEF TaskAllocated, Deliver, Loading, Listed, Inv, InjectionInv
<1> HIDE DEF f
<1>3. map'.apps = map.apps
  BY <1>1 DEF Inv, TypeOK, MapType
<1>4. \A u \in Tasks : AppOf[u] < appid_cnt => AppOf[u] # appid_cnt
  BY Phases
<1> QED
  BY <1>2, <1>3, <1>4 DEF TaskAllocated, Inv, TypeOK

\* What the handlers of ended tasks start _map_terminate_app and _map_verify_pending
\* from.
Rest(S, a, left, s) == [Released(map, S) EXCEPT !.allocated[a] = left, !.apps = s]

LEMMA RestFields ==
  ASSUME Inv, NEW S \in SUBSET Tasks, NEW a \in Apps, NEW left \in Int, NEW s \in SUBSET Apps
  PROVE  Rest(S, a, left, s) \in MapType /\ Rest(S, a, left, s).apps = s
<1> DEFINE m == Released(map, S)
           f == [m.allocated EXCEPT ![a] = left]
<1>1. m \in MapType /\ Rest(S, a, left, s) = [m EXCEPT !.allocated[a] = left, !.apps = s]
  BY ReleasedFields DEF Rest
<1> HIDE DEF m
<1>2. /\ f \in [Apps -> Int]
      /\ Rest(S, a, left, s) = [m EXCEPT !.allocated = f, !.apps = s]
  BY <1>1 DEF MapType
<1> HIDE DEF f
<1> QED
  BY <1>1, <1>2 DEF MapType

\* Nothing is left of an application when its last task has ended.
LEMMA LastTask ==
  ASSUME Inv, NEW t \in Tasks, AppOf[t] \in map.apps, AppOf[t] < appid_cnt,
         status[t] # "TERMINATED", map.allocated[AppOf[t]] - 1 = 0
  PROVE  \A u \in AppTasks(AppOf[t]) \ {t} : status[u] = "TERMINATED"
<1> DEFINE a == AppOf[t]
<1>1. /\ Counted(a) = {u \in AppTasks(a) : status[u] # "TERMINATED"}
      /\ Counted(a) \in SUBSET Tasks /\ map.allocated[a] = Cardinality(Counted(a))
  BY ConstantsAssumption DEF Counted, AppTasks, Inv, AllocatedInv
<1>2. IsFiniteSet(Counted(a)) /\ Cardinality(Counted(a)) \in Nat
  BY <1>1, TasksCountNat
<1>3. Cardinality(Counted(a)) = 1
  BY <1>1, <1>2
<1>4. t \in Counted(a)
  BY <1>1 DEF AppTasks
<1>5. IsFiniteSet(Counted(a) \ {t}) /\ Cardinality(Counted(a) \ {t}) = 0
  BY <1>2, <1>3, <1>4, FS_RemoveElement
<1>6. Counted(a) \ {t} = {}
  BY <1>5, FS_EmptySet
<1> QED
  BY <1>1, <1>6

LEMMA TaskTerminatedKeeps ==
  ASSUME Inv, NEW t \in Tasks, TaskTerminated(t), Listed(t)
  PROVE  LET a == AppOf[t]
             last == map.allocated[a] - 1 = 0
         IN  /\ a \in Apps /\ a < appid_cnt /\ kernel[t] = "gone"
             /\ last => \A u \in AppTasks(a) \ {t} : status[u] = "TERMINATED"
             /\ \E rest \in MapType :
                  /\ rest.apps = IF last THEN map.apps \ {a} ELSE map.apps
                  /\ VerifyPending(rest)
                  /\ IF last THEN RequestHalt(rest) ELSE UNCHANGED halting
<1> DEFINE a == AppOf[t]
           S == {t}
           m == Released(map, S)
           left == m.allocated[a] - 1
           s == IF left = 0 THEN m.apps \ {a} ELSE m.apps
           rest == Rest(S, a, left, s)
<1>1. /\ a < appid_cnt /\ status[t] # "TERMINATED" /\ a \in Apps
      /\ kernel[t] = "gone"
  BY EndedListed, StartedPhase DEF TaskTerminated, Deliver, Listed, ListedInv
<1>2. m \in MapType /\ m.apps = map.apps /\ m.allocated = map.allocated
  BY ReleasedFields
<1>3. left \in Int /\ s \in SUBSET Apps
  <2> HIDE DEF m
  <2> QED
    BY <1>1, <1>2 DEF MapType
<1>4. VerifyPending(rest) /\ IF left = 0 THEN RequestHalt(rest) ELSE UNCHANGED halting
  BY DEF TaskTerminated, Listed, Rest
<1>5. rest \in MapType /\ rest.apps = s
  <2>1. S \in SUBSET Tasks
    OBVIOUS
  <2> HIDE DEF left, s, S, m
  <2> QED
    BY <1>1, <1>3, <2>1, RestFields
<1>6. left = map.allocated[a] - 1 /\ s = IF left = 0 THEN map.apps \ {a} ELSE map.apps
  BY <1>2
<1>7. left = 0 => \A u \in AppTasks(a) \ {t} : status[u] = "TERMINATED"
  BY <1>1, <1>6, LastTask DEF Listed
<1> HIDE DEF rest, left, s
<1> QED
  BY <1>1, <1>4, <1>5, <1>6, <1>7

LEMMA TaskAbortedKeeps ==
  ASSUME Inv, NEW t \in Tasks, TaskAborted(t), Listed(t)
  PROVE  LET a == AppOf[t]
             others == Others(t, map.allocated[a] - 1)
         IN  /\ a \in Apps /\ a < appid_cnt /\ kernel[t] = "gone"
             /\ \A u \in AppTasks(a) \ {t} : u \in others \/ status[u] = "TERMINATED"
             /\ aborting' = aborting \cup {<<u, Holder(u)>> : u \in others}
             /\ \A u \in Tasks : status'[u] \in {"TERMINATED", status[u]}
             /\ \E rest \in MapType :
                  /\ rest.apps = map.apps \ {a}
                  /\ VerifyPending(rest) /\ RequestHalt(rest)
<1> DEFINE a == AppOf[t]
           left == map.allocated[a] - 1
           S == Others(t, left) \cup {t}
           s == Released(map, S).apps \ {a}
           rest == Rest(S, a, left, s)
<1>1. /\ a < appid_cnt /\ status[t] # "TERMINATED" /\ a \in Apps
      /\ kernel[t] = "gone"
  BY EndedListed, StartedPhase DEF TaskAborted, Deliver, Listed, ListedInv
<1>2. VerifyPending(rest) /\ RequestHalt(rest)
  BY DEF TaskAborted, Listed, Rest
<1>3. /\ aborting' = aborting \cup {<<u, Holder(u)>> : u \in Others(t, left)}
      /\ \A u \in Tasks : status'[u] \in {"TERMINATED", status[u]}
  BY DEF TaskAborted, Listed
<1>4. S \in SUBSET Tasks
  BY DEF Others, AppTasks
<1>5. left \in Int
  BY <1>1 DEF Inv, TypeOK, MapType
<1>6. \A u \in AppTasks(a) \ {t} : u \in Others(t, left) \/ status[u] = "TERMINATED"
  <2>1. CASE left = 0
    BY <1>1, <2>1, LastTask DEF Listed
  <2>2. CASE left # 0
    BY <2>2 DEF Others
  <2> QED
    BY <2>1, <2>2
<1> HIDE DEF left, S
<1>7. s = map.apps \ {a} /\ s \in SUBSET Apps
  BY <1>4, ReleasedFields DEF MapType
<1>8. rest \in MapType /\ rest.apps = s
  <2> HIDE DEF s
  <2> QED
    BY <1>1, <1>4, <1>5, <1>7, RestFields
<1> HIDE DEF rest, s
<1> QED
  BY <1>1, <1>2, <1>3, <1>6, <1>7, <1>8 DEF left

-----------------------------------------------------------------------------
(* The invariant.                                                          *)

LEMMA EndInit == Init => EndInv
<1> SUFFICES ASSUME Init PROVE EndInv
  OBVIOUS
<1>1. MigratingInv /\ LeftBehindInv /\ AbortedInv
  BY ConstantsAssumption DEF Init, MigratingInv, LeftBehindInv, AbortedInv, Apps
<1>2. ManagementInv
  BY DEF Init, ManagementInv
<1>3. HaltInv
  BY DEF Init, HaltInv
<1> QED
  BY <1>1, <1>2, <1>3 DEF EndInv

LEMMA MigratingNext ==
  ASSUME Inv, MigratingInv, [Next]_vars
  PROVE  MigratingInv'
<1>1. ASSUME asked' \subseteq asked, moving' = moving,
             \A u \in Tasks : status'[u] = "MIGRATING" => status[u] = "MIGRATING"
      PROVE  MigratingInv'
  BY <1>1 DEF MigratingInv
<1>2. CASE NewApp
  BY <1>1, <1>2, NewAppKeeps DEF NewApp
<1>3. ASSUME NEW t \in Tasks, TaskAllocated(t)
      PROVE  MigratingInv'
  BY <1>1, <1>3, TaskAllocatedKeeps DEF TaskAllocated
<1>4. ASSUME NEW t \in Tasks, TaskTerminated(t)
      PROVE  MigratingInv'
  <2>1. CASE Listed(t)
    <3>1. moving' = moving
      BY <1>4, <2>1, TaskTerminatedKeeps, VerifyPendingKeeps
    <3> QED
      BY <1>1, <1>4, <2>1, <3>1 DEF TaskTerminated, Listed, Inv, TypeOK
  <2>2. CASE ~Listed(t)
    BY <1>1, <1>4, <2>2 DEF TaskTerminated, Listed, kernelVars
  <2> QED
    BY <2>1, <2>2
<1>5. ASSUME NEW t \in Tasks, TaskAborted(t)
      PROVE  MigratingInv'
  <2>1. CASE Listed(t)
    <3>1. moving' = moving /\ \A u \in Tasks : status'[u] \in {"TERMINATED", status[u]}
      BY <1>5, <2>1, TaskAbortedKeeps, VerifyPendingKeeps
    <3> QED
      BY <1>1, <1>5, <3>1 DEF TaskAborted
  <2>2. CASE ~Listed(t)
    BY <1>1, <1>5, <2>2 DEF TaskAborted, Listed, kernelVars
  <2> QED
    BY <2>1, <2>2
<1>6. ASSUME NEW t \in Tasks, MigrationMap(t)
      PROVE  MigratingInv'
  BY <1>6 DEF MigrationMap, MigratingInv, Inv, TypeOK
<1>7. ASSUME NEW t \in Tasks, TaskMigrated(t)
      PROVE  MigratingInv'
  BY <1>1, <1>7 DEF TaskMigrated, kernelVars, Inv, TypeOK
<1>8. ASSUME NEW t \in Tasks, Environment(t)
      PROVE  MigratingInv'
  BY <1>8 DEF Environment, Load, Start, Terminate, Abort, End, Migrate, AbortTask,
     AskMigration, mapperVars, kernelVars, MigratingInv, Inv, TypeOK
<1>9. CASE RequestFinish \/ (\E p \in PEs : PeHalted(p)) \/ UNCHANGED vars
  BY <1>1, <1>9 DEF RequestFinish, PeHalted, vars, mapperVars, kernelVars
<1> QED
  BY <1>2, <1>3, <1>4, <1>5, <1>6, <1>7, <1>8, <1>9 DEF Next, Handler

LEMMA LeftBehindNext ==
  ASSUME Inv, EndInv, [Next]_vars
  PROVE  LeftBehindInv'
<1> DEFINE Found(u) == /\ AppOf[u] < appid_cnt /\ ~Listed(u) /\ kernel[u] # "gone"
                       /\ u \notin Migratable \/ Abortable = {}
                       => <<u, at[u]>> \in aborting
<1>1. \A u \in Tasks : Found(u)
  BY DEF EndInv, LeftBehindInv
<1>2. ASSUME NEW u \in Tasks, aborting \subseteq aborting',
             AppOf[u] < appid_cnt' => AppOf[u] < appid_cnt \/ Listed(u)',
             AppOf[u] < appid_cnt =>
               /\ kernel'[u] = "gone" \/ (kernel'[u] # "gone" /\ kernel[u] # "gone" /\ at'[u] = at[u])
               /\ Listed(u) => Listed(u)'
      PROVE  Found(u)'
  BY <1>1, <1>2
<1>3. CASE NewApp
  <2>1. ASSUME NEW u \in Tasks
        PROVE  Found(u)'
    <3>1. aborting' = aborting
      BY <1>3 DEF NewApp
    <3>2. AppOf[u] \in Nat /\ appid_cnt \in Nat
      BY Phases DEF Apps
    <3>3. AppOf[u] < appid_cnt' => AppOf[u] < appid_cnt \/ Listed(u)'
      BY <1>3, <3>2, NewAppKeeps DEF Listed
    <3>4. AppOf[u] < appid_cnt =>
            /\ kernel'[u] = kernel[u] /\ at'[u] = at[u]
            /\ Listed(u) => Listed(u)'
      BY <1>3, <3>2, NewAppKeeps DEF Listed
    <3> HIDE DEF Found
    <3> QED
      BY <1>2, <3>1, <3>3, <3>4
  <2> QED
    BY <2>1 DEF LeftBehindInv
<1>4. ASSUME NEW t \in Tasks, TaskAllocated(t)
      PROVE  LeftBehindInv'
  <2>1. ASSUME NEW u \in Tasks
        PROVE  Found(u)'
    <3>1. aborting' = aborting /\ at' = at
      BY <1>4 DEF TaskAllocated
    <3>2. AppOf[u] \in Nat /\ appid_cnt \in Nat
      BY Phases DEF Apps
    <3>3. AppOf[u] < appid_cnt' => AppOf[u] < appid_cnt \/ Listed(u)'
      <4>1. /\ map'.apps = map.apps
            /\ appid_cnt' = appid_cnt \/ (appid_cnt' = appid_cnt + 1 /\ appid_cnt \in map.apps)
        BY <1>4, TaskAllocatedKeeps
      <4> QED
        BY <3>2, <4>1 DEF Listed
    <3>4. AppOf[u] < appid_cnt =>
            /\ kernel'[u] = kernel[u] /\ at'[u] = at[u]
            /\ Listed(u) => Listed(u)'
      BY <1>4, <3>1, TaskAllocatedKeeps DEF Listed
    <3> HIDE DEF Found
    <3> QED
      BY <1>2, <3>1, <3>3, <3>4
  <2> QED
    BY <2>1 DEF LeftBehindInv
<1>5. ASSUME NEW t \in Tasks, TaskTerminated(t)
      PROVE  LeftBehindInv'
  <2>1. CASE Listed(t)
    <3> DEFINE a == AppOf[t]
               last == map.allocated[a] - 1 = 0
    <3>1. /\ a \in Apps /\ a < appid_cnt /\ kernel[t] = "gone"
          /\ last => \A u \in AppTasks(a) \ {t} : status[u] = "TERMINATED"
      BY <1>5, <2>1, TaskTerminatedKeeps
    <3>2. PICK rest \in MapType : /\ rest.apps = IF last THEN map.apps \ {a} ELSE map.apps
                                  /\ VerifyPending(rest)
      BY <1>5, <2>1, TaskTerminatedKeeps
    <3>3. aborting' = aborting
      BY <1>5 DEF TaskTerminated
    <3>4. ASSUME NEW u \in Tasks
          PROVE  Found(u)'
      <4>1. AppOf[u] \in Nat /\ appid_cnt \in Nat
        BY Phases DEF Apps
      <4>2. /\ AppOf[u] < appid_cnt => kernel'[u] = kernel[u] /\ at'[u] = at[u]
            /\ AppOf[u] < appid_cnt' => AppOf[u] < appid_cnt \/ Listed(u)'
            /\ rest.apps \subseteq map'.apps
        BY <3>2, <4>1, VerifyPendingKeeps DEF Listed
      <4>3. CASE AppOf[u] < appid_cnt /\ AppOf[u] = a /\ last
        <5>1. kernel[u] = "gone"
          <6>1. u = t \/ status[u] = "TERMINATED"
            BY <3>1, <4>3 DEF AppTasks
          <6>2. ListedInv(u)
            BY <2>1, <4>3 DEF Listed, Inv, TaskInv
          <6> QED
            BY <3>1, <6>1, <6>2 DEF ListedInv
        <5> QED
          BY <4>2, <4>3, <5>1
      <4>4. CASE ~(AppOf[u] < appid_cnt /\ AppOf[u] = a /\ last)
        <5>1. AppOf[u] < appid_cnt => (Listed(u) => Listed(u)')
          BY <3>2, <4>2, <4>4 DEF Listed
        <5> HIDE DEF Found
        <5> QED
          BY <1>2, <3>3, <4>2, <5>1
      <4> QED
        BY <4>3, <4>4
    <3> QED
      BY <3>4 DEF LeftBehindInv
  <2>2. CASE ~Listed(t)
    BY <1>5, <2>2 DEF TaskTerminated, Listed, kernelVars, EndInv, LeftBehindInv
  <2> QED
    BY <2>1, <2>2
<1>6. ASSUME NEW t \in Tasks, TaskAborted(t)
      PROVE  LeftBehindInv'
  <2>1. CASE Listed(t)
    <3> DEFINE a == AppOf[t]
               others == Others(t, map.allocated[a] - 1)
    <3>1. /\ a \in Apps /\ a < appid_cnt /\ kernel[t] = "gone"
          /\ \A u \in AppTasks(a) \ {t} : u \in others \/ status[u] = "TERMINATED"
          /\ aborting' = aborting \cup {<<u, Holder(u)>> : u \in others}
      BY <1>6, <2>1, TaskAbortedKeeps
    <3>2. PICK rest \in MapType : rest.apps = map.apps \ {a} /\ VerifyPending(rest)
      BY <1>6, <2>1, TaskAbortedKeeps
    <3>3. ASSUME NEW u \in Tasks
          PROVE  Found(u)'
      <4>1. AppOf[u] \in Nat /\ appid_cnt \in Nat
        BY Phases DEF Apps
      <4>2. /\ AppOf[u] < appid_cnt => kernel'[u] = kernel[u] /\ at'[u] = at[u]
            /\ AppOf[u] < appid_cnt' => AppOf[u] < appid_cnt \/ Listed(u)'
            /\ rest.apps \subseteq map'.apps
        BY <3>2, <4>1, VerifyPendingKeeps DEF Listed
      <4>3. CASE AppOf[u] < appid_cnt /\ AppOf[u] = a
        <5> SUFFICES ASSUME kernel[u] # "gone", u \notin Migratable \/ Abortable = {}
                     PROVE  <<u, at[u]>> \in aborting'
          BY <4>2, <4>3
        <5>1. Abortable # {}
          BY <1>6 DEF TaskAborted, Deliver, EndInv, AbortedInv
        <5>2. ListedInv(u) /\ u # t
          BY <2>1, <3>1, <4>3 DEF Listed, Inv, TaskInv
        <5>3. u \in others
          BY <3>1, <4>3, <5>2 DEF AppTasks, ListedInv
        <5>4. status[u] \notin {"MIGRATING", "TERMINATED"}
          BY <5>1, <5>2 DEF EndInv, MigratingInv, ListedInv
        <5>5. at[u] = pe[u] /\ Holder(u) = pe[u]
          BY <5>2, <5>4 DEF ListedInv, Holder, Inv, TypeOK, Statuses
        <5> HIDE DEF others
        <5> QED
          BY <3>1, <5>3, <5>5
      <4>4. CASE ~(AppOf[u] < appid_cnt /\ AppOf[u] = a)
        <5>1. AppOf[u] < appid_cnt => (Listed(u) => Listed(u)')
          BY <3>2, <4>2, <4>4 DEF Listed
        <5>2. aborting \subseteq aborting'
          BY <3>1
        <5> HIDE DEF Found
        <5> QED
          BY <1>2, <4>2, <5>1, <5>2
      <4> QED
        BY <4>3, <4>4
    <3> QED
      BY <3>3 DEF LeftBehindInv
  <2>2. CASE ~Listed(t)
    BY <1>6, <2>2 DEF TaskAborted, Listed, kernelVars, EndInv, LeftBehindInv
  <2> QED
    BY <2>1, <2>2
<1>7. ASSUME NEW t \in Tasks, MigrationMap(t)
      PROVE  LeftBehindInv'
  BY <1>7, SameApps DEF MigrationMap, Listed, EndInv, LeftBehindInv
<1>8. ASSUME NEW t \in Tasks, TaskMigrated(t)
      PROVE  LeftBehindInv'
  BY <1>8, SameApps DEF TaskMigrated, kernelVars, Listed, EndInv, LeftBehindInv
<1>9. ASSUME NEW t \in Tasks, Load(t) \/ Start(t)
      PROVE  LeftBehindInv'
  BY <1>9 DEF Load, Start, mapperVars, Listed, EndInv, LeftBehindInv, Inv, TypeOK
<1>10. ASSUME NEW t \in Tasks, NEW s, End(t, s)
       PROVE  LeftBehindInv'
  BY <1>10 DEF End, mapperVars, Listed, EndInv, LeftBehindInv, Inv, TypeOK
<1>11. ASSUME NEW t \in Tasks, Migrate(t)
       PROVE  LeftBehindInv'
  <2>1. /\ UNCHANGED <<mapperVars, kernel, aborting>> /\ t \in Migratable
        /\ AppOf[t] < appid_cnt /\ kernel[t] # "gone"
        /\ \A u \in Tasks \ {t} : at'[u] = at[u]
    BY <1>11, StartedPhase DEF Migrate, EndInv, MigratingInv, StartedInv, Inv, TypeOK
  <2>2. Abortable = {} => aborting = {}
    BY DEF EndInv, AbortedInv
  <2>3. ASSUME NEW u \in Tasks
        PROVE  Found(u)'
    <3>1. Found(u)
      BY <1>1
    <3> QED
      BY <2>1, <2>2, <3>1 DEF mapperVars, Listed
  <2> QED
    BY <2>3 DEF LeftBehindInv
<1>12. ASSUME NEW t \in Tasks, NEW p \in PEs, AbortTask(t, p)
       PROVE  LeftBehindInv'
  <2>1. /\ UNCHANGED <<mapperVars, at>> /\ aborting' = aborting \ {<<t, p>>}
        /\ \A u \in Tasks : kernel'[u] = "gone" \/ kernel'[u] = kernel[u]
        /\ at[t] = p /\ kernel[t] \in {"blocked", "released", "running"} => kernel'[t] = "gone"
    BY <1>12 DEF AbortTask, Inv, TypeOK
  <2>2. AppOf[t] < appid_cnt => kernel[t] \in {"released", "running", "gone"}
    BY DEF Inv, TaskInv, StartedInv
  <2>3. ASSUME NEW u \in Tasks
        PROVE  Found(u)'
    <3>1. Found(u)
      BY <1>1
    <3> QED
      BY <2>1, <2>2, <3>1 DEF mapperVars, Listed
  <2> QED
    BY <2>3 DEF LeftBehindInv
<1>13. ASSUME NEW t \in Tasks, AskMigration(t)
       PROVE  LeftBehindInv'
  BY <1>13 DEF AskMigration, mapperVars, kernelVars, Listed, EndInv, LeftBehindInv
<1>14. CASE RequestFinish \/ (\E p \in PEs : PeHalted(p)) \/ UNCHANGED vars
  BY <1>14 DEF RequestFinish, PeHalted, vars, mapperVars, kernelVars, Listed, EndInv,
     LeftBehindInv
<1> QED
  BY <1>3, <1>4, <1>5, <1>6, <1>7, <1>8, <1>9, <1>10, <1>11, <1>12, <1>13, <1>14
     DEF Next, Handler, Environment, Terminate, Abort

LEMMA AbortedNext ==
  ASSUME Inv, AbortedInv, [Next]_vars
  PROVE  AbortedInv'
<1> SUFFICES ASSUME Abortable = {}
             PROVE  aborting' = {} /\ \A t \in Tasks : "TASK_ABORTED" \notin mail'[t]
  BY DEF AbortedInv
<1>1. aborting = {} /\ \A t \in Tasks : "TASK_ABORTED" \notin mail[t]
  BY DEF AbortedInv
<1>2. ASSUME NEW t \in Tasks, Handler(t)
      PROVE  aborting' = {} /\ \A u \in Tasks : "TASK_ABORTED" \notin mail'[u]
  BY <1>1, <1>2 DEF Handler, TaskAllocated, TaskTerminated, TaskAborted, MigrationMap,
     TaskMigrated, Deliver, Inv, TypeOK
<1>3. ASSUME NEW t \in Tasks, Environment(t)
      PROVE  aborting' = {} /\ \A u \in Tasks : "TASK_ABORTED" \notin mail'[u]
  BY <1>1, <1>3 DEF Environment, Load, Start, Terminate, Abort, End, Migrate, AbortTask,
     AskMigration, Inv, TypeOK
<1>4. CASE NewApp \/ RequestFinish \/ (\E p \in PEs : PeHalted(p)) \/ UNCHANGED vars
  BY <1>1, <1>4 DEF NewApp, RequestFinish, PeHalted, vars
<1> QED
  BY <1>2, <1>3, <1>4 DEF Next

\* The tasks of the management application never end, so that it is never taken off
\* the list.
LEMMA ManagementNext ==
  ASSUME Inv, ManagementInv, [Next]_vars
  PROVE  ManagementInv'
<1>1. ASSUME \A u \in Tasks : AppOf[u] = 0 => kernel'[u] # "gone",
             appid_cnt' > 0 => 0 \in map'.apps
      PROVE  ManagementInv'
  BY <1>1 DEF ManagementInv
<1>2. /\ appid_cnt > 0 => 0 \in map.apps
      /\ \A u \in Tasks : AppOf[u] = 0 => kernel[u] # "gone"
      /\ appid_cnt \in Nat
  BY DEF ManagementInv, Inv, TypeOK
<1>3. CASE NewApp
  BY <1>1, <1>2, <1>3, NewAppKeeps
<1>4. ASSUME NEW t \in Tasks, TaskAllocated(t)
      PROVE  ManagementInv'
  <2>1. /\ map'.apps = map.apps
        /\ appid_cnt' = appid_cnt \/ (appid_cnt' = appid_cnt + 1 /\ appid_cnt \in map.apps)
        /\ \A u \in Tasks : kernel'[u] = "gone" => kernel[u] = "gone"
    BY <1>4, TaskAllocatedKeeps
  <2>2. appid_cnt' > 0 => 0 \in map'.apps
    BY <1>2, <2>1
  <2> QED
    BY <1>1, <1>2, <2>1, <2>2
<1>5. ASSUME NEW t \in Tasks, TaskTerminated(t)
      PROVE  ManagementInv'
  <2>1. CASE Listed(t)
    <3>1. AppOf[t] # 0
      BY <1>2, <1>5, <2>1, TaskTerminatedKeeps
    <3>2. PICK rest \in MapType : /\ rest.apps \in {map.apps, map.apps \ {AppOf[t]}}
                                  /\ VerifyPending(rest)
      BY <1>5, <2>1, TaskTerminatedKeeps
    <3>3. 0 \in map.apps => 0 \in rest.apps
      BY <3>1, <3>2
    <3> QED
      BY <1>1, <1>2, <3>2, <3>3, VerifyPendingKeeps
  <2>2. CASE ~Listed(t)
    BY <1>1, <1>2, <1>5, <2>2 DEF TaskTerminated, Listed, kernelVars
  <2> QED
    BY <2>1, <2>2
<1>6. ASSUME NEW t \in Tasks, TaskAborted(t)
      PROVE  ManagementInv'
  <2>1. CASE Listed(t)
    <3>1. AppOf[t] # 0
      BY <1>2, <1>6, <2>1, TaskAbortedKeeps
    <3>2. PICK rest \in MapType : rest.apps = map.apps \ {AppOf[t]} /\ VerifyPending(rest)
      BY <1>6, <2>1, TaskAbortedKeeps
    <3>3. 0 \in map.apps => 0 \in rest.apps
      BY <3>1, <3>2
    <3> QED
      BY <1>1, <1>2, <3>2, <3>3, VerifyPendingKeeps
  <2>2. CASE ~Listed(t)
    BY <1>1, <1>2, <1>6, <2>2 DEF TaskAborted, Listed, kernelVars
  <2> QED
    BY <2>1, <2>2
<1>7. ASSUME NEW t \in Tasks, MigrationMap(t) \/ TaskMigrated(t)
      PROVE  ManagementInv'
  <2>1. map'.apps = map.apps
    BY <1>7, SameApps
  <2>2. kernel' = kernel /\ appid_cnt' = appid_cnt
    BY <1>7 DEF MigrationMap, TaskMigrated, kernelVars
  <2> QED
    BY <1>1, <1>2, <2>1, <2>2
<1>8. ASSUME NEW t \in Tasks, Environment(t), \A p \in PEs : ~AbortTask(t, p)
      PROVE  ManagementInv'
  <2>1. map' = map /\ appid_cnt' = appid_cnt
    BY <1>8 DEF Environment, Load, Start, Terminate, Abort, End, Migrate, AskMigration, mapperVars
  <2>2. \A u \in Tasks : AppOf[u] = 0 /\ kernel'[u] = "gone" => kernel[u] = "gone"
    BY <1>8 DEF Environment, Load, Start, Terminate, Abort, End, Migrate, AskMigration,
       kernelVars, Inv, TypeOK
  <2> QED
    BY <1>1, <1>2, <2>1, <2>2
<1>9. ASSUME NEW t \in Tasks, NEW p \in PEs, AbortTask(t, p)
      PROVE  ManagementInv'
  <2>1. AppOf[t] # 0 /\ \A u \in Tasks : kernel'[u] = "gone" => kernel[u] = "gone" \/ u = t
    BY <1>2, <1>9 DEF AbortTask, Inv, AbortingInv, TypeOK
  <2> QED
    BY <1>1, <1>2, <1>9, <2>1 DEF AbortTask, mapperVars
<1>10. CASE RequestFinish \/ (\E p \in PEs : PeHalted(p)) \/ UNCHANGED vars
  BY <1>1, <1>2, <1>10 DEF RequestFinish, PeHalted, vars, mapperVars, kernelVars
<1> QED
  BY <1>3, <1>4, <1>5, <1>6, <1>7, <1>8, <1>9, <1>10 DEF Next, Handler

LEMMA HaltNext ==
  ASSUME Inv, ManagementInv, HaltInv, [Next]_vars
  PROVE  HaltInv'
<1> DEFINE Done == halting # {} \/ finished_cnt > 0
<1>1. IsFiniteSet(PEs) /\ Cardinality(PEs) \in Nat /\ finished_cnt \in Nat /\ halting \subseteq PEs
  BY FS_CardinalityType, ConstantsAssumption DEF Inv, TypeOK
<1>2. ASSUME map'.apps = map.apps, injecting' => injecting, injected' = injected,
             UNCHANGED <<finished, finished_cnt, halting>>
      PROVE  HaltInv'
  BY <1>2 DEF HaltInv, Inv, TypeOK
<1>3. CASE NewApp
  <2>1. ~finished /\ ~Done
    BY <1>3, NewAppKeeps, ConstantsAssumption DEF HaltInv, Inv, TypeOK
  <2> QED
    BY <1>3, <2>1 DEF NewApp, HaltInv
<1>4. CASE RequestFinish
  BY <1>4 DEF RequestFinish, HaltInv
<1>5. ASSUME NEW p \in PEs, PeHalted(p)
      PROVE  HaltInv'
  <2>1. IsFiniteSet(halting) /\ Cardinality(halting) \in Nat /\ p \in halting
    BY <1>1, <1>5, CountNat DEF PeHalted
  <2>2. Cardinality(halting \ {p}) = Cardinality(halting) - 1
    BY <2>1, FS_RemoveElement
  <2> QED
    BY <1>1, <1>5, <2>1, <2>2 DEF PeHalted, HaltInv
<1>6. ASSUME NEW t \in Tasks, TaskAllocated(t)
      PROVE  HaltInv'
  <2>1. ~finished /\ ~Done
    BY <1>6, TaskAllocatedKeeps DEF HaltInv
  <2> QED
    BY <1>6, <2>1 DEF TaskAllocated, HaltInv
<1>7. ASSUME NEW t \in Tasks, Listed(t), AppOf[t] # 0, NEW rest \in MapType,
             rest.apps \in {map.apps, map.apps \ {AppOf[t]}}, VerifyPending(rest),
             RequestHalt(rest) \/ UNCHANGED halting,
             UNCHANGED <<finished, finished_cnt, injected>>
      PROVE  HaltInv'
  <2>1. ~Done /\ finished_cnt = 0
    BY <1>1, <1>7 DEF HaltInv, Listed
  <2>2. finished => ~injecting /\ injected = AppCnt /\ injecting' = injecting /\ map' = rest
    BY <1>7, VerifyPendingKeeps DEF HaltInv
  <2>3. CASE halting' = halting
    BY <1>7, <2>1, <2>2, <2>3 DEF HaltInv
  <2>4. CASE halting' # halting
    <3>1. halting' = PEs /\ finished /\ Cardinality(rest.apps) = 1
      BY <1>7, <2>4 DEF RequestHalt
    <3>2. 0 \in map.apps
      <4>1. appid_cnt > 0
        BY <2>2, <3>1, ConstantsAssumption DEF Inv, InjectionInv
      <4> QED
        BY <4>1 DEF ManagementInv
    <3>3. 0 \in rest.apps /\ IsFiniteSet(rest.apps)
      <4>1. IsFiniteSet(Apps) /\ rest.apps \in SUBSET Apps
        BY FS_Interval, ConstantsAssumption DEF Apps, MapType
      <4> QED
        BY <1>7, <3>2, <4>1, CountNat
    <3>4. rest.apps = {0}
      <4> DEFINE S == rest.apps
      <4>1. IsFiniteSet(S) /\ 0 \in S /\ Cardinality(S) = 1
        BY <3>1, <3>3
      <4> HIDE DEF S
      <4>2. S = {0}
        BY <4>1, FS_Singleton, FS_Subset
      <4> QED
        BY <4>2 DEF S
    <3> QED
      BY <1>1, <1>7, <2>1, <2>2, <3>1, <3>4 DEF HaltInv
  <2> QED
    BY <2>3, <2>4
<1>8. ASSUME NEW t \in Tasks, TaskTerminated(t)
      PROVE  HaltInv'
  <2>1. CASE Listed(t)
    <3>1. /\ kernel[t] = "gone"
          /\ \E rest \in MapType : /\ rest.apps \in {map.apps, map.apps \ {AppOf[t]}}
                                   /\ VerifyPending(rest)
                                   /\ RequestHalt(rest) \/ UNCHANGED halting
      BY <1>8, <2>1, TaskTerminatedKeeps
    <3> QED
      BY <1>7, <1>8, <2>1, <3>1 DEF TaskTerminated, ManagementInv
  <2>2. CASE ~Listed(t)
    BY <1>2, <1>8, <2>2 DEF TaskTerminated, Listed
  <2> QED
    BY <2>1, <2>2
<1>9. ASSUME NEW t \in Tasks, TaskAborted(t)
      PROVE  HaltInv'
  <2>1. CASE Listed(t)
    <3>1. /\ kernel[t] = "gone"
          /\ \E rest \in MapType : /\ rest.apps = map.apps \ {AppOf[t]}
                                   /\ VerifyPending(rest) /\ RequestHalt(rest)
      BY <1>9, <2>1, TaskAbortedKeeps
    <3> QED
      BY <1>7, <1>9, <2>1, <3>1 DEF TaskAborted, ManagementInv
  <2>2. CASE ~Listed(t)
    BY <1>2, <1>9, <2>2 DEF TaskAborted, Listed
  <2> QED
    BY <2>1, <2>2
<1>10. ASSUME NEW t \in Tasks, MigrationMap(t) \/ TaskMigrated(t)
       PROVE  HaltInv'
  BY <1>2, <1>10, SameApps DEF MigrationMap, TaskMigrated
<1>11. ASSUME NEW t \in Tasks, Environment(t)
       PROVE  HaltInv'
  BY <1>2, <1>11 DEF Environment, Load, Start, Terminate, Abort, End, Migrate, AbortTask,
     AskMigration, mapperVars
<1>12. CASE UNCHANGED vars
  BY <1>2, <1>12 DEF vars, mapperVars
<1> QED
  BY <1>3, <1>4, <1>5, <1>6, <1>8, <1>9, <1>10, <1>11, <1>12 DEF Next, Handler

LEMMA EndNext == Inv /\ EndInv /\ [Next]_vars => EndInv'
BY MigratingNext, LeftBehindNext, AbortedNext, ManagementNext, HaltNext DEF EndInv

-----------------------------------------------------------------------------
(* The theorems.                                                           *)

LEMMA EndInvariance == Spec => []EndInv
BY EndInit, EndNext, Invariance, PTL DEF Spec

\* Where observers migrate nothing, or kernels abort nothing, the tasks that
\* map_task_aborted ends are where it sends their ABORT_TASK orders.
THEOREM AbortsReach ==
  Spec /\ (Migratable = {} \/ Abortable = {}) => []AbortReachesTask
<1> DEFINE NotBoth == Migratable = {} \/ Abortable = {}
<1>1. EndInv /\ NotBoth => AbortReachesTask
  BY DEF EndInv, LeftBehindInv, Listed, AbortReachesTask
<1>2. NotBoth => NotBoth'
  OBVIOUS
<1> HIDE DEF NotBoth
<1>3. Spec /\ NotBoth => []AbortReachesTask
  BY <1>1, <1>2, EndInvariance, PTL DEF Spec
<1> QED
  BY <1>3 DEF NotBoth

\* HALT_PE is broadcast once, after the request to finish, when the management
\* application is the only one left; every processor is counted once.
THEOREM HaltsOnce == Spec => []HaltInv
<1>1. EndInv => HaltInv
  BY DEF EndInv
<1> QED
  BY <1>1, EndInvariance, PTL

\* When kernels abort nothing, no kernel has a task of a user application then.
THEOREM HaltsWhenDone == Spec /\ Abortable = {} => []HaltWhenDone
<1> DEFINE NoAborts == Abortable = {}
<1>1. Inv /\ EndInv /\ NoAborts => HaltWhenDone
  <2> SUFFICES ASSUME Inv, EndInv, Abortable = {}, halting # {} \/ finished_cnt > 0
               PROVE  /\ finished /\ map.apps = {0}
                      /\ finished_cnt + Cardinality(halting) = Cardinality(PEs)
                      /\ \A t \in Tasks : AppOf[t] # 0 => Resident(t) = {}
    BY DEF HaltWhenDone
  <2>1. /\ finished /\ map.apps = {0} /\ injected = AppCnt /\ ~injecting
        /\ finished_cnt + Cardinality(halting) = Cardinality(PEs)
    BY DEF EndInv, HaltInv
  <2>2. appid_cnt = AppCnt
    BY <2>1 DEF Inv, InjectionInv
  <2>3. ASSUME NEW t \in Tasks, AppOf[t] # 0
        PROVE  kernel[t] = "gone"
    <3>1. AppOf[t] < appid_cnt /\ ~Listed(t)
      BY <2>1, <2>2, <2>3, ConstantsAssumption DEF Apps, Listed
    <3> QED
      BY <3>1 DEF EndInv, LeftBehindInv, AbortedInv
  <2> QED
    BY <2>1, <2>3 DEF Resident
<1>2. NoAborts => NoAborts'
  OBVIOUS
<1> HIDE DEF NoAborts
<1>3. Spec /\ NoAborts => []HaltWhenDone
  BY <1>1, <1>2, EndInvariance, Invariance, PTL DEF Spec
<1> QED
  BY <1>3 DEF NoAborts

-----------------------------------------------------------------------------
(* Counting promised pages.                                                *)

LEMMA MissingFinite ==
  ASSUME NEW m, NEW a
  PROVE  IsFiniteSet(Missing(m, a)) /\ Cardinality(Missing(m, a)) \in Nat
<1>1. TaskCnt(a) \in Nat /\ Missing(m, a) \in SUBSET (PEs \X (1 .. TaskCnt(a)))
  BY TaskCntNat DEF Missing
<1> QED
  BY <1>1, RanksCountNat

LEMMA StaticCount ==
  ASSUME NEW a, NEW p
  PROVE  Cardinality(StaticAt(a, p)) \in 0 .. TaskCnt(a) /\ TaskCnt(a) \in Nat
<1>1. StaticAt(a, p) \in SUBSET AppTasks(a) /\ IsFiniteSet(AppTasks(a))
  BY TasksCountNat DEF StaticAt, AppTasks
<1> QED
  BY <1>1, FS_Subset, TaskCntNat DEF TaskCnt

\* What is promised and what is missing depends on four of the counters.
LEMMA SamePromises ==
  ASSUME NEW m, NEW r, NEW a, Promises(m, a),
         r.slots = m.slots, r.free = m.free, r.reserved = m.reserved, r.failed = m.failed
  PROVE  Promises(r, a)
BY DEF Promises, Missing

\* pe_task_remove returns true once for every promised page that becomes free.
LEMMA UnblockedCount ==
  ASSUME NEW m \in MapType, NEW a \in Apps, Promises(m, a),
         NEW pairs, IsFiniteSet(pairs), NEW r,
         r.free = [p \in PEs |-> m.free[p] + Cardinality(At(pairs \cap m.held, p))],
         r.reserved = m.reserved
  PROVE  /\ Unblocked(m, pairs) \in Nat
         /\ Cardinality(Missing(r, a)) = Cardinality(Missing(m, a)) - Unblocked(m, pairs)
<1> DEFINE n(p) == Cardinality(At(pairs \cap m.held, p))
           N == Cardinality(pairs)
           T == TaskCnt(a)
           A == Missing(m, a)
           B == Missing(r, a)
           U == {u \in PEs \X (0 .. N) :
                   u[2] < n(u[1]) /\ ULess(m.free[u[1]] + u[2], m.reserved[u[1]])}
           f == [u \in U |-> <<u[1], m.free[u[1]] + u[2] + 1>>]
<1>1. N \in Nat /\ T \in Nat /\ a # NoApp
  BY FS_CardinalityType, TaskCntNat DEF Apps, NoApp
<1>2. ASSUME NEW p \in PEs
      PROVE  /\ n(p) \in 0 .. N /\ m.free[p] \in Nat /\ m.reserved[p] \in 0 .. T
             /\ r.free[p] = m.free[p] + n(p) /\ r.reserved[p] = m.reserved[p]
  <2>1. At(pairs \cap m.held, p) \in SUBSET pairs
    BY DEF At
  <2>2. n(p) \in 0 .. N
    <3>1. n(p) \in Nat /\ n(p) <= N
      BY <2>1, FS_Subset, FS_CardinalityType
    <3> QED
      BY <1>1, <3>1
  <2>3. m.free[p] \in Nat
    BY DEF Promises, MapType
  <2>4. m.reserved[p] \in 0 .. T
    BY <1>1, StaticCount DEF Promises
  <2> QED
    BY <2>2, <2>3, <2>4
<1>3. Unblocked(m, pairs) = Cardinality(U)
  BY DEF Unblocked
<1> HIDE DEF n, N, T
<1>4. ASSUME NEW p \in PEs, NEW k \in Int
      PROVE  /\ <<p, k>> \in A <=> k \in 1 .. T /\ m.free[p] < k /\ k <= m.reserved[p]
             /\ <<p, k>> \in B <=> k \in 1 .. T /\ m.free[p] + n(p) < k /\ k <= m.reserved[p]
             /\ <<p, k>> \in U <=> k \in 0 .. N /\ k < n(p) /\ m.free[p] + k < m.reserved[p]
  <2>1. <<p, k>> \in A <=> k \in 1 .. T /\ m.free[p] < k /\ k <= m.reserved[p]
    BY DEF Missing, T
  <2>2. <<p, k>> \in B <=> k \in 1 .. T /\ m.free[p] + n(p) < k /\ k <= m.reserved[p]
    BY <1>2 DEF Missing, T
  <2>3. k \in 0 .. N => (ULess(m.free[p] + k, m.reserved[p]) <=> m.free[p] + k < m.reserved[p])
    BY <1>1, <1>2 DEF ULess
  <2> QED
    BY <2>1, <2>2, <2>3
<1>5. A \in SUBSET (PEs \X Int) /\ B \in SUBSET (PEs \X Int) /\ U \in SUBSET (PEs \X Int)
  BY <1>1 DEF Missing, T
<1> HIDE DEF A, B, U
<1>6. B \in SUBSET A
  <2> SUFFICES ASSUME NEW p \in PEs, NEW k \in Int, <<p, k>> \in B
               PROVE  <<p, k>> \in A
    BY <1>5
  <2> QED
    BY <1>1, <1>2, <1>4
<1>7. \A u \in U : u[1] \in PEs /\ u[2] \in Int /\ u = <<u[1], u[2]>>
  BY <1>5
<1>8. f \in [U -> A \ B]
  <2> SUFFICES ASSUME NEW u \in U
               PROVE  <<u[1], m.free[u[1]] + u[2] + 1>> \in A \ B
    OBVIOUS
  <2> DEFINE p == u[1]
             j == u[2]
  <2>1. p \in PEs /\ j \in Int /\ <<p, j>> \in U
    BY <1>7
  <2> HIDE DEF p, j
  <2>2. <<p, m.free[p] + j + 1>> \in A \ B
    BY <1>1, <1>2, <1>4, <2>1
  <2> QED
    BY <2>2 DEF p, j
<1>9. \A u, v \in U : f[u] = f[v] => u = v
  <2> SUFFICES ASSUME NEW u \in U, NEW v \in U, f[u] = f[v]
               PROVE  u = v
    OBVIOUS
  <2>1. u[1] = v[1] /\ m.free[u[1]] + u[2] + 1 = m.free[v[1]] + v[2] + 1
    OBVIOUS
  <2>2. m.free[u[1]] \in Int /\ u[2] \in Int /\ v[2] \in Int
    BY <1>2, <1>7
  <2>3. u[2] = v[2]
    <3> DEFINE x == m.free[u[1]]
               j == u[2]
               k == v[2]
    <3>1. x + j + 1 = x + k + 1 /\ x \in Int /\ j \in Int /\ k \in Int
      BY <2>1, <2>2
    <3> HIDE DEF x, j, k
    <3>2. j = k
      BY <3>1
    <3> QED
      BY <3>2 DEF j, k
  <2>4. u = <<u[1], u[2]>> /\ v = <<v[1], v[2]>>
    BY <1>7
  <2> QED
    BY <2>1, <2>3, <2>4
<1>10. ASSUME NEW h \in A \ B
       PROVE  \E u \in U : f[u] = h
  <2> DEFINE p == h[1]
             k == h[2]
             j == k - m.free[p] - 1
  <2>1. p \in PEs /\ k \in Int /\ h = <<p, k>>
    BY <1>5
  <2> HIDE DEF p, k
  <2>2. j \in Int /\ <<p, j>> \in U /\ m.free[p] + j + 1 = k
    BY <1>1, <1>2, <1>4, <1>10, <2>1
  <2> HIDE DEF j
  <2>3. f[<<p, j>>] = <<p, m.free[p] + j + 1>>
    BY <2>2
  <2> QED
    BY <2>1, <2>2, <2>3
<1> HIDE DEF f
<1>11. IsFiniteSet(A) /\ Cardinality(A) \in Nat /\ Cardinality(B) \in Nat
  BY MissingFinite DEF A, B
<1>12. Cardinality(A \ B) = Cardinality(A) - Cardinality(B) /\ IsFiniteSet(A \ B)
  <2>1. A \cap B = B
    BY <1>6
  <2> QED
    BY <1>11, <2>1, DifferenceCount, FS_Difference
<1>13. Cardinality(U) = Cardinality(A \ B)
  <2>1. f \in Bijection(U, A \ B)
    BY <1>8, <1>9, <1>10 DEF Bijection, Injection, Surjection, IsInjective
  <2>2. IsFiniteSet(U)
    <3>1. U \in SUBSET (PEs \X (0 .. N))
      BY DEF U
    <3> QED
      BY <1>1, <3>1, RanksCountNat
  <2> QED
    BY <2>1, <2>2, FS_Bijection DEF ExistsBijection
<1>14. Cardinality(U) \in Nat
  <2>1. IsFiniteSet(A \ B)
    BY <1>12
  <2> QED
    BY <1>13, <2>1, FS_CardinalityType
<1> QED
  BY <1>3, <1>11, <1>12, <1>13, <1>14 DEF A, B

\* _map_release_resources keeps failed_cnt exact.
LEMMA ReleasedPromises ==
  ASSUME Inv, Promises(map, pending), NEW S \in SUBSET Tasks
  PROVE  Promises(Released(map, S), pending)
<1> DEFINE pairs == PagesOf(S)
           back == [p \in PEs |-> map.free[p] + Cardinality(At(pairs \cap map.held, p))]
           n == Cardinality(pairs)
           freed == Freed(map, pairs)
           k == IF pending = NoApp THEN freed.failed ELSE freed.failed - Unblocked(map, pairs)
           m == Released(map, S)
<1>1. map \in MapType /\ IsFiniteSet(pairs) /\ n \in Nat /\ freed \in MapType
  BY PagesFinite, FreedType, FS_CardinalityType DEF Inv, TypeOK
<1>2. m = [freed EXCEPT !.failed = k]
  BY DEF Released
<1>3. freed = [map EXCEPT !.slots = @ + n, !.free = back, !.held = @ \ pairs]
  BY DEF Freed
<1>4. \A p \in PEs : Cardinality(At(pairs \cap map.held, p)) \in Nat
  <2>1. \A p : At(pairs \cap map.held, p) \in SUBSET pairs
    BY DEF At
  <2> QED
    BY <1>1, <2>1, CountNat
<1>5. ASSUME NEW p \in PEs
      PROVE  back[p] >= 0
  <2>1. map.free[p] \in Nat
    BY <1>1 DEF Promises, MapType
  <2> HIDE DEF pairs
  <2>2. back[p] = map.free[p] + Cardinality(At(pairs \cap map.held, p))
    OBVIOUS
  <2>3. Cardinality(At(pairs \cap map.held, p)) \in Nat
    BY <1>4
  <2> HIDE DEF back
  <2> QED
    BY <2>1, <2>2, <2>3
<1> HIDE DEF m, freed, n, pairs, k, back
<1>6. /\ freed.slots = map.slots + n /\ freed.free = back
      /\ freed.reserved = map.reserved /\ freed.failed = map.failed
  BY <1>1, <1>3 DEF MapType
<1>7. /\ m.slots = map.slots + n /\ m.free = back /\ m.reserved = map.reserved
      /\ m.failed = k
  BY <1>1, <1>2, <1>6 DEF MapType
<1>8. ASSUME pending # NoApp
      PROVE  m.failed = Cardinality(Missing(m, pending))
  <2>1. pending \in Apps
    BY <1>8 DEF Inv, TypeOK
  <2>2. m.free = [p \in PEs |-> map.free[p] + Cardinality(At(pairs \cap map.held, p))]
    BY <1>7 DEF back
  <2>3. Cardinality(Missing(m, pending)) = Cardinality(Missing(map, pending)) - Unblocked(map, pairs)
    BY <1>1, <1>7, <2>1, <2>2, UnblockedCount
  <2>4. k = map.failed - Unblocked(map, pairs)
    BY <1>6, <1>8 DEF k
  <2> QED
    BY <1>7, <1>8, <2>3, <2>4 DEF Promises
<1>9. m.slots >= 0
  BY <1>1, <1>7 DEF Promises, MapType
<1>10. Promises(m, pending)
  BY <1>5, <1>7, <1>8, <1>9 DEF Promises
<1> QED
  BY <1>10 DEF m

LEMMA RestPromises ==
  ASSUME Inv, Promises(map, pending), NEW S \in SUBSET Tasks, NEW a \in Apps, NEW left \in Int,
         NEW s \in SUBSET Apps
  PROVE  Promises(Rest(S, a, left, s), pending)
<1> DEFINE m == Released(map, S)
           f == [m.allocated EXCEPT ![a] = left]
<1>1. m \in MapType /\ Rest(S, a, left, s) = [m EXCEPT !.allocated[a] = left, !.apps = s]
  BY ReleasedFields DEF Rest
<1>2. Promises(m, pending)
  BY ReleasedPromises
<1> HIDE DEF m
<1>3. Rest(S, a, left, s) = [m EXCEPT !.allocated = f, !.apps = s]
  BY <1>1 DEF MapType
<1> HIDE DEF f
<1>4. /\ Rest(S, a, left, s).slots = m.slots /\ Rest(S, a, left, s).free = m.free
      /\ Rest(S, a, left, s).reserved = m.reserved /\ Rest(S, a, left, s).failed = m.failed
  BY <1>1, <1>3 DEF MapType
<1> QED
  BY <1>2, <1>4, SamePromises

\* An application none of whose promised pages is missing finds a page for each task.
LEMMA MapDoPromises ==
  ASSUME NEW m \in MapType, NEW a \in Apps,
         m.slots >= 0, ~ULess(m.slots, TaskCnt(a)),
         \A p \in PEs : m.free[p] >= 0 /\ m.reserved[p] = Cardinality(StaticAt(a, p)),
         Missing(m, a) = {},
         NEW place \in Placements(m, a), MapDo(m, a, place)
  PROVE  Promises(map', NoApp)
<1>1. /\ map'.slots = m.slots - TaskCnt(a) /\ map'.free = FreeAfter(m, a, place)
      /\ map'.reserved = ReservedAfter(m, a)
  BY MapDoFields
<1>2. TaskCnt(a) \in Nat /\ m.slots \in Int
  BY TaskCntNat DEF MapType
<1>3. map'.slots >= 0
  BY <1>1, <1>2 DEF ULess
<1>4. ASSUME NEW p \in PEs
      PROVE  map'.free[p] >= 0 /\ map'.reserved[p] = 0
  <2> DEFINE fixed == Cardinality(StaticAt(a, p))
             given == GivenAt(a, place, p)
  <2>1. fixed \in 0 .. TaskCnt(a) /\ m.free[p] \in Nat /\ m.reserved[p] = fixed
    BY StaticCount DEF MapType
  <2>2. given \in Nat
    BY TasksCountNat DEF GivenAt, AppTasks
  <2>3. given > fixed => given <= m.free[p] \/ m.free[p] - fixed < 0
    BY DEF Placements, GivenAt
  <2>4. /\ map'.free[p] = m.free[p] - given
        /\ map'.reserved[p] = m.reserved[p] - fixed
    BY <1>1 DEF FreeAfter, ReservedAfter
  <2> HIDE DEF fixed, given
  <2>5. fixed <= m.free[p]
    <3>1. <<p, fixed>> \notin Missing(m, a)
      OBVIOUS
    <3> QED
      BY <1>2, <2>1, <3>1 DEF Missing
  <2> QED
    BY <2>1, <2>2, <2>3, <2>4, <2>5
<1> QED
  BY <1>3, <1>4 DEF Promises

LEMMA VerifyPendingPromises ==
  ASSUME Inv, NEW m \in MapType, Promises(m, pending), VerifyPending(m)
  PROVE  Promises(map', pending')
<1>1. CASE CanResume(m)
  <2>1. pending \in Apps /\ pending' = NoApp /\ ~ULess(m.slots, TaskCnt(pending)) /\ m.failed = 0
    BY <1>1 DEF VerifyPending, CanResume, Inv, TypeOK
  <2>2. PICK place \in Placements(m, pending) : MapDo(m, pending, place)
    BY <1>1 DEF VerifyPending
  <2>3. pending # NoApp
    BY <1>1 DEF CanResume
  <2>4. Missing(m, pending) = {}
    <3>1. Cardinality(Missing(m, pending)) = 0
      BY <2>1, <2>3 DEF Promises
    <3> QED
      BY <3>1, MissingFinite, FS_EmptySet
  <2> QED
    BY <2>1, <2>2, <2>3, <2>4, MapDoPromises DEF Promises
<1>2. CASE ~CanResume(m)
  BY <1>2 DEF VerifyPending
<1> QED
  BY <1>1, <1>2

\* Where a processor has a free page the total counter is not zero.
LEMMA FreePageCounted ==
  ASSUME map \in MapType, Accounts(map), \A p \in PEs : map.free[p] >= 0,
         NEW target \in PEs, map.free[target] # 0
  PROVE  map.slots >= 1
<1> DEFINE H == map.held
           n(p) == Cardinality(At(H, p))
           b == [p \in PEs |-> CHOOSE f : f \in Bijection(1 .. n(p), At(H, p))]
           grid == PEs \X (1 .. MaxTasks)
           I == {r \in grid : r[2] <= n(r[1])}
           g == [r \in I |-> b[r[1]][r[2]]]
           corner == <<target, MaxTasks>>
<1>1. H \in SUBSET (Tasks \X PEs) /\ MaxTasks \in Nat /\ map.free \in [PEs -> Int]
  BY ConstantsAssumption DEF MapType
<1>2. ASSUME NEW p \in PEs
      PROVE  /\ n(p) \in 0 .. MaxTasks /\ n(p) = MaxTasks - map.free[p]
             /\ b[p] \in Bijection(1 .. n(p), At(H, p))
  <2>1. IsFiniteSet(At(H, p)) /\ n(p) \in Nat
    BY <1>1, HeldCounts
  <2>2. n(p) = MaxTasks - map.free[p] /\ map.free[p] \in Nat
    BY <1>1, <2>1 DEF Accounts
  <2>3. \E f : f \in Bijection(1 .. n(p), At(H, p))
    BY <2>1, FS_CardinalityType DEF ExistsBijection
  <2> QED
    BY <1>1, <2>1, <2>2, <2>3
<1> HIDE DEF n, b
<1>3. \A r \in I : r[1] \in PEs /\ r[2] \in 1 .. n(r[1]) /\ r = <<r[1], r[2]>>
  BY <1>1, <1>2
<1>4. \A r \in I : g[r] \in At(H, r[1])
  BY <1>2, <1>3 DEF Bijection, Injection
<1>5. \A r \in I : g[r] \in H /\ g[r][2] = r[1]
  BY <1>4 DEF At
<1>6. ASSUME NEW r \in I, NEW s \in I, g[r] = g[s]
      PROVE  r = s
  <2>1. r[1] = s[1]
    BY <1>5, <1>6
  <2>2. b[r[1]][r[2]] = b[r[1]][s[2]]
    BY <1>6, <2>1
  <2>3. r[2] = s[2]
    BY <1>2, <1>3, <2>1, <2>2 DEF Bijection, Injection, IsInjective
  <2> QED
    BY <1>3, <2>1, <2>3
<1>7. ASSUME NEW h \in H
      PROVE  \E r \in I : g[r] = h
  <2>1. h[2] \in PEs /\ h \in At(H, h[2])
    BY <1>1 DEF At
  <2>2. PICK j \in 1 .. n(h[2]) : b[h[2]][j] = h
    BY <1>2, <2>1 DEF Bijection, Surjection
  <2>3. <<h[2], j>> \in I
    BY <1>1, <1>2, <2>1, <2>2
  <2> QED
    BY <2>2, <2>3
<1>8. IsFiniteSet(grid) /\ Cardinality(grid) = Capacity /\ Capacity \in Nat
  <2>1. IsFiniteSet(1 .. MaxTasks) /\ Cardinality(1 .. MaxTasks) = MaxTasks
    BY <1>1, FS_Interval
  <2> QED
    BY <1>1, <2>1, FS_Product, CapacityNat, ConstantsAssumption DEF Capacity
<1>9. corner \in grid /\ corner \notin I
  BY <1>1, <1>2
<1>10. Cardinality(I) <= Capacity - 1 /\ IsFiniteSet(I) /\ Cardinality(I) \in Nat
  <2>1. IsFiniteSet(grid \ {corner}) /\ Cardinality(grid \ {corner}) = Capacity - 1
    BY <1>8, <1>9, FS_RemoveElement
  <2>2. I \in SUBSET (grid \ {corner})
    BY <1>9
  <2> HIDE DEF I
  <2> QED
    BY <2>1, <2>2, FS_Subset, FS_CardinalityType
<1> HIDE DEF I, g
<1>11. g \in Bijection(I, H)
  <2>1. g \in [I -> H]
    BY <1>5 DEF g
  <2> QED
    BY <1>6, <1>7, <2>1 DEF Bijection, Injection, Surjection, IsInjective
<1>12. Cardinality(H) = Cardinality(I)
  BY <1>10, <1>11, FS_Bijection DEF ExistsBijection
<1> QED
  BY <1>8, <1>10, <1>12 DEF Accounts, MapType

-----------------------------------------------------------------------------
(* The invariant.                                                          *)

LEMMA PromisesInit ==
  ASSUME Init
  PROVE  Promises(map, pending)
<1>1. Capacity \in Nat /\ MaxTasks \in Nat
  BY CapacityNat, ConstantsAssumption
<1> QED
  BY <1>1 DEF Init, Promises

\* task_set_pe counts the promised pages that are missing.
LEMMA NewAppPromises ==
  ASSUME Inv, Promises(map, pending), NewApp
  PROVE  Promises(map', pending')
<1> DEFINE a == appid_cnt
           m == Reserved(map, a)
           n == ReservationFailures(map, a)
           r == [p \in PEs |-> map.reserved[p] + Cardinality(StaticAt(a, p))]
<1>1. a \in Apps /\ pending = NoApp /\ map \in MapType /\ m \in MapType
  BY NewAppKeeps, ReservedType DEF Inv, InjectionInv, TypeOK
<1>2. m = [map EXCEPT !.reserved = r]
  BY DEF Reserved
<1>3. a # NoApp /\ TaskCnt(a) \in Nat
  BY <1>1, TaskCntNat DEF Apps, NoApp
<1>4. ASSUME NEW p \in PEs
      PROVE  /\ map.free[p] \in Nat /\ map.reserved[p] = 0
             /\ r[p] = Cardinality(StaticAt(a, p)) /\ Cardinality(StaticAt(a, p)) \in Nat
  BY <1>1, StaticCount DEF Promises, MapType
<1>5. ASSUME NEW x, x.free = map.free, x.reserved = r
      PROVE  Cardinality(Missing(x, a)) = n
  <2>1. ASSUME NEW p \in PEs, NEW k \in 1 .. TaskCnt(a)
        PROVE  /\ k <= Cardinality(StaticAt(a, p)) /\ ULess(map.free[p], map.reserved[p] + k)
               <=> x.free[p] < k /\ k <= x.reserved[p]
    BY <1>3, <1>4, <1>5, <2>1 DEF ULess
  <2>2. Missing(x, a) = {h \in PEs \X (1 .. TaskCnt(a)) :
                           /\ h[2] <= Cardinality(StaticAt(a, h[1]))
                           /\ ULess(map.free[h[1]], map.reserved[h[1]] + h[2])}
    <3> HIDE DEF r
    <3> QED
      BY <2>1 DEF Missing
  <2> QED
    BY <2>2 DEF ReservationFailures
<1>6. /\ \/ map' = [m EXCEPT !.failed = n] /\ pending' = a
         \/ /\ ~ULess(map.slots, TaskCnt(a)) /\ n = 0
            /\ \E place \in Placements(m, a) : MapDo(m, a, place)
            /\ pending' = pending
  BY DEF NewApp
<1>7. n \in Nat
  BY ReservationFailuresNat
<1> HIDE DEF m, n
<1>8. m.slots = map.slots /\ m.free = map.free /\ m.reserved = r
  BY <1>1, <1>2 DEF MapType
<1>9. /\ m.slots >= 0
      /\ \A p \in PEs : m.free[p] >= 0 /\ m.reserved[p] = Cardinality(StaticAt(a, p))
  BY <1>4, <1>8 DEF Promises
<1>10. CASE map' = [m EXCEPT !.failed = n] /\ pending' = a
  <2>1. map'.slots = m.slots /\ map'.free = m.free /\ map'.reserved = r /\ map'.failed = n
    BY <1>1, <1>8, <1>10 DEF MapType
  <2>2. Cardinality(Missing(map', a)) = n
    BY <1>5, <1>8, <2>1
  <2> HIDE DEF a, r
  <2> QED
    BY <1>3, <1>8, <1>9, <1>10, <2>1, <2>2 DEF Promises
<1>11. ASSUME ~ULess(map.slots, TaskCnt(a)), n = 0, pending' = pending,
              NEW place \in Placements(m, a), MapDo(m, a, place)
       PROVE  Promises(map', pending')
  <2>1. Missing(m, a) = {}
    BY <1>5, <1>8, <1>11, MissingFinite, FS_EmptySet
  <2>2. Promises(map', NoApp)
    BY <1>1, <1>8, <1>9, <1>11, <2>1, MapDoPromises
  <2> QED
    BY <1>1, <1>11, <2>2
<1> QED
  BY <1>6, <1>10, <1>11

\* A task that migrates while another application is mapped: no page is promised then.
LEMMA NoPromise ==
  ASSUME Inv, MigratingInv, Promises(map, pending), Undisturbed,
         NEW t \in Migratable, AppOf[t] < appid_cnt
  PROVE  /\ \A p \in PEs : map.reserved[p] = 0
         /\ pending # NoApp => map.failed = 0
         /\ \A m : (\A p \in PEs : m.reserved[p] = 0 /\ m.free[p] >= 0)
                     => Missing(m, pending) = {}
<1>1. AppOf[t] \in Nat /\ appid_cnt \in Nat
  BY Phases, ConstantsAssumption DEF Apps
<1>2. pending # NoApp => pending \in Apps /\ pending # 0
  <2>1. pending = NoApp \/ pending = appid_cnt
    BY DEF Inv, InjectionInv
  <2> QED
    BY <1>1, <2>1 DEF Inv, TypeOK
<1>3. ASSUME NEW p \in PEs, pending # NoApp
      PROVE  Cardinality(StaticAt(pending, p)) = 0
  <2>1. StaticAt(pending, p) = {}
    BY <1>2, <1>3, ConstantsAssumption DEF Undisturbed, StaticAt, AppTasks
  <2> QED
    BY <2>1, FS_EmptySet
<1>4. \A p \in PEs : map.reserved[p] = 0
  BY <1>3 DEF Promises
<1>5. ASSUME NEW m, \A p \in PEs : m.reserved[p] = 0 /\ m.free[p] >= 0
      PROVE  Missing(m, pending) = {}
  BY <1>5, TaskCntNat DEF Missing
<1>6. pending # NoApp => map.failed = 0
  <2>1. Missing(map, pending) = {}
    BY <1>4, <1>5 DEF Promises
  <2> QED
    BY <2>1, FS_EmptySet DEF Promises
<1> QED
  BY <1>4, <1>5, <1>6

\* The counters after a migration keep the promises made when no page is promised.
LEMMA MigrationPromises ==
  ASSUME Inv, MigratingInv, Promises(map, pending), Undisturbed,
         NEW t \in Migratable, AppOf[t] < appid_cnt,
         NEW m, m.slots >= 0, \A p \in PEs : m.free[p] >= 0,
         m.reserved = map.reserved, m.failed = map.failed
  PROVE  Promises(m, pending)
<1>1. Missing(m, pending) = {} /\ (pending # NoApp => m.failed = 0)
  BY NoPromise
<1>2. Cardinality(Missing(m, pending)) = 0
  BY <1>1, FS_EmptySet
<1>3. \A p \in PEs :
        m.reserved[p] = IF pending = NoApp THEN 0 ELSE Cardinality(StaticAt(pending, p))
  BY DEF Promises
<1> QED
  BY <1>1, <1>2, <1>3 DEF Promises

LEMMA MigrationMapPromises ==
  ASSUME Inv, Accounts(map), MigratingInv, Promises(map, pending), Undisturbed,
         NEW t \in Tasks, MigrationMap(t)
  PROVE  Promises(map', pending')
<1>1. pending' = pending /\ t \in Migratable /\ AppOf[t] < appid_cnt
  BY StartedPhase DEF MigrationMap, MigratingInv
<1>2. ASSUME NEW target \in PEs, map.free[target] # 0,
             map' = [map EXCEPT !.slots = @ - 1, !.free[target] = @ - 1,
                                !.held = @ \cup {<<t, target>>}]
      PROVE  Promises(map', pending)
  <2> DEFINE f == [map.free EXCEPT ![target] = @ - 1]
             h == map.held \cup {<<t, target>>}
  <2>1. map \in MapType /\ map' = [map EXCEPT !.slots = @ - 1, !.free = f, !.held = h]
    BY <1>2 DEF Inv, TypeOK, MapType
  <2>2. map.slots >= 1
    BY <1>2, <2>1, FreePageCounted DEF Promises
  <2>3. \A p \in PEs : f[p] >= 0
    BY <1>2, <2>1 DEF Promises, MapType
  <2> HIDE DEF f, h
  <2>4. /\ map'.slots = map.slots - 1 /\ map'.free = f
        /\ map'.reserved = map.reserved /\ map'.failed = map.failed
    BY <2>1 DEF MapType
  <2>5. map'.slots >= 0
    BY <2>1, <2>2, <2>4 DEF MapType
  <2> QED
    BY <1>1, <2>3, <2>4, <2>5, MigrationPromises
<1> QED
  BY <1>1, <1>2 DEF MigrationMap

LEMMA TaskMigratedPromises ==
  ASSUME Inv, MigratingInv, Promises(map, pending), Undisturbed,
         NEW t \in Tasks, TaskMigrated(t)
  PROVE  Promises(map', pending')
<1>1. pending' = pending
  BY DEF TaskMigrated
<1>2. CASE Listed(t)
  <2> DEFINE pairs == {<<t, old_pe[t]>>}
             back == [p \in PEs |-> map.free[p] + Cardinality(At(pairs \cap map.held, p))]
             n == Cardinality(pairs)
  <2>1. ListedInv(t) /\ "TASK_MIGRATED" \in mail[t] /\ AppOf[t] < appid_cnt
    BY <1>2, StartedPhase DEF TaskMigrated, Deliver
  <2>2. t \in Migratable
    BY <2>1 DEF ListedInv, MigratingInv, Inv, TypeOK, Statuses
  <2>3. IsFiniteSet(pairs) /\ n \in Nat
    <3>1. IsFiniteSet(pairs)
      BY FS_Singleton
    <3> QED
      BY <3>1, FS_CardinalityType
  <2>4. map' = [map EXCEPT !.slots = @ + n, !.free = back, !.held = @ \ pairs]
    BY <1>2 DEF TaskMigrated, Freed, Listed
  <2>5. ASSUME NEW p \in PEs
        PROVE  back[p] >= 0
    <3>1. map.free[p] \in Nat
      BY DEF Promises, Inv, TypeOK, MapType
    <3> HIDE DEF pairs
    <3>2. back[p] = map.free[p] + Cardinality(At(pairs \cap map.held, p))
      OBVIOUS
    <3>3. Cardinality(At(pairs \cap map.held, p)) \in Nat
      <4>1. At(pairs \cap map.held, p) \in SUBSET pairs
        BY DEF At
      <4> QED
        BY <2>3, <4>1, CountNat
    <3> HIDE DEF back
    <3> QED
      BY <3>1, <3>2, <3>3
  <2> HIDE DEF pairs, back, n
  <2>6. /\ map'.slots = map.slots + n /\ map'.free = back
        /\ map'.reserved = map.reserved /\ map'.failed = map.failed
    BY <2>4 DEF Inv, TypeOK, MapType
  <2>7. map'.slots >= 0
    BY <2>3, <2>6 DEF Promises, Inv, TypeOK, MapType
  <2> QED
    BY <1>1, <2>1, <2>2, <2>5, <2>6, <2>7, MigrationPromises
<1>3. CASE ~Listed(t)
  BY <1>1, <1>3 DEF TaskMigrated, Listed
<1> QED
  BY <1>2, <1>3

LEMMA PromisesNext ==
  ASSUME Inv, Accounts(map), MigratingInv, Promises(map, pending), Undisturbed, [Next]_vars
  PROVE  Promises(map', pending')
<1>1. CASE NewApp
  BY <1>1, NewAppPromises
<1>2. ASSUME NEW t \in Tasks, TaskAllocated(t)
      PROVE  Promises(map', pending')
  <2> DEFINE f == [map.allocated EXCEPT ![AppOf[t]] = map.allocated[AppOf[t]] + 1]
  <2>1. map' \in {map, [map EXCEPT !.allocated = f]} /\ pending' = pending
    BY <1>2 DEF TaskAllocated, Inv, TypeOK, MapType
  <2> HIDE DEF f
  <2>2. /\ map'.slots = map.slots /\ map'.free = map.free
        /\ map'.reserved = map.reserved /\ map'.failed = map.failed
    BY <2>1 DEF Inv, TypeOK, MapType
  <2> QED
    BY <2>1, <2>2, SamePromises
<1>3. ASSUME NEW S \in SUBSET Tasks, NEW a \in Apps, NEW left \in Int, NEW s \in SUBSET Apps,
             VerifyPending(Rest(S, a, left, s))
      PROVE  Promises(map', pending')
  BY <1>3, RestFields, RestPromises, VerifyPendingPromises
<1>4. ASSUME NEW t \in Tasks, TaskTerminated(t)
      PROVE  Promises(map', pending')
  <2> DEFINE a == AppOf[t]
             S == {t}
             m == Released(map, S)
             left == m.allocated[a] - 1
             s == IF left = 0 THEN m.apps \ {a} ELSE m.apps
  <2>1. CASE Listed(t)
    <3>1. VerifyPending(Rest(S, a, left, s))
      BY <1>4, <2>1 DEF TaskTerminated, Listed, Rest
    <3>2. S \in SUBSET Tasks /\ a \in Apps
      BY ConstantsAssumption
    <3>3. left \in Int /\ s \in SUBSET Apps
      <4>1. m \in MapType
        BY ReleasedFields
      <4> HIDE DEF m
      <4> QED
        BY <3>2, <4>1 DEF MapType
    <3> HIDE DEF S, left, s, a
    <3> QED
      BY <1>3, <3>1, <3>2, <3>3
  <2>2. CASE ~Listed(t)
    BY <1>4, <2>2 DEF TaskTerminated, Listed
  <2> QED
    BY <2>1, <2>2
<1>5. ASSUME NEW t \in Tasks, TaskAborted(t)
      PROVE  Promises(map', pending')
  <2> DEFINE a == AppOf[t]
             left == map.allocated[a] - 1
             S == Others(t, left) \cup {t}
             m == Released(map, S)
             s == m.apps \ {a}
  <2>1. CASE Listed(t)
    <3>1. VerifyPending(Rest(S, a, left, s))
      BY <1>5, <2>1 DEF TaskAborted, Listed, Rest
    <3>2. S \in SUBSET Tasks /\ a \in Apps
      BY ConstantsAssumption DEF Others, AppTasks
    <3>3. left \in Int
      BY <3>2 DEF Inv, TypeOK, MapType
    <3> HIDE DEF S, left
    <3>4. s \in SUBSET Apps
      <4>1. m \in MapType
        BY <3>2, ReleasedFields
      <4> HIDE DEF m
      <4> QED
        BY <4>1 DEF MapType
    <3> HIDE DEF s, a
    <3> QED
      BY <1>3, <3>1, <3>2, <3>3, <3>4
  <2>2. CASE ~Listed(t)
    BY <1>5, <2>2 DEF TaskAborted, Listed
  <2> QED
    BY <2>1, <2>2
<1>6. ASSUME NEW t \in Tasks, MigrationMap(t) \/ TaskMigrated(t)
      PROVE  Promises(map', pending')
  BY <1>6, MigrationMapPromises, TaskMigratedPromises
<1>7. CASE UNCHANGED <<map, pending>>
  BY <1>7
<1>8. ASSUME NEW t \in Tasks, Environment(t)
      PROVE  UNCHANGED <<map, pending>>
  BY <1>8 DEF Environment, Load, Start, Terminate, Abort, End, Migrate, AbortTask,
     AskMigration, mapperVars
<1> QED
  BY <1>1, <1>2, <1>4, <1>5, <1>6, <1>7, <1>8
     DEF Next, Handler, RequestFinish, PeHalted, vars, mapperVars

LEMMA PromisesInvariance == Spec /\ Undisturbed => []PromisesInv
<1>1. Init /\ Undisturbed => PromisesInv
  BY PromisesInit DEF PromisesInv
<1>2. Inv /\ Accounts(map) /\ EndInv /\ PromisesInv /\ [Next]_vars => PromisesInv'
  <2> SUFFICES ASSUME Inv, Accounts(map), EndInv, PromisesInv, [Next]_vars
               PROVE  PromisesInv'
    OBVIOUS
  <2>1. Promises(map, pending)' /\ Undisturbed
    BY PromisesNext DEF PromisesInv, EndInv
  <2> QED
    BY <2>1 DEF PromisesInv, Undisturbed
<1> QED
  BY <1>1, <1>2, AccountsInit, AccountsNext, EndInvariance, Invariance, PTL DEF Spec

-----------------------------------------------------------------------------
(* The theorems.                                                           *)

\* Where migrations cannot take a promised page, no unsigned counter of the mapper
\* ever wraps below zero: no processor is given more tasks than it has pages.
THEOREM NeverOvercommits == Spec /\ Undisturbed => []NoOvercommit
<1>1. PromisesInv => NoOvercommit
  BY DEF PromisesInv, Promises, NoOvercommit
<1> QED
  BY <1>1, PromisesInvariance, PTL

\* failed_cnt, which task_set_pe and pe_task_remove count in steps of one, is the
\* number of promised pages that are not free as long as the application waits.
THEOREM FailedCountIsExact == Spec /\ Undisturbed => []FailedCountExact
<1>1. PromisesInv => FailedCountExact
  BY DEF PromisesInv, Promises, Missing, FailedCountExact
<1> QED
  BY <1>1, PromisesInvariance, PTL

LEMMA KernelHasRoom ==
  ASSUME Inv, EndInv, PromisesInv, Accounts(map), PagesOutliveTasks, Abortable = {},
         MaxTasks # 0, NEW p \in PEs
  PROVE  Cardinality({t \in Tasks : p \in Resident(t)}) <= MaxTasks
<1> DEFINE S == {t \in Tasks : p \in Resident(t)}
<1>1. MaxTasks \in Nat /\ S \in SUBSET Tasks /\ IsFiniteSet(S) /\ p # NoPE
  BY TasksCountNat, ConstantsAssumption
<1>2. ASSUME NEW t \in S, ~Listed(t)
      PROVE  t = MapperTask /\ appid_cnt = 0
  <2>1. t \in Tasks /\ kernel[t] \notin {"none", "gone"}
    BY DEF Resident
  <2>2. AppOf[t] < appid_cnt => kernel[t] = "gone"
    BY <1>2, <2>1 DEF EndInv, LeftBehindInv, AbortedInv
  <2>3. Future(t) /\ FutureInv(t)
    BY <1>2, <2>1, <2>2, Phases DEF Loading
  <2>4. t = MapperTask /\ AppOf[t] = 0
    BY <2>1, <2>3, ConstantsAssumption DEF FutureInv
  <2> QED
    BY <2>1, <2>3, <2>4, Phases DEF Future
<1>3. CASE \A t \in S : Listed(t)
  <2> DEFINE T == {<<t, p>> : t \in S}
             f == [t \in S |-> <<t, p>>]
             H == At(map.held, p)
  <2>1. T \in SUBSET H
    BY <1>3 DEF PagesOutliveTasks, Listed, At
  <2>2. IsFiniteSet(H) /\ Cardinality(H) \in Nat
    BY HeldCounts DEF Inv, TypeOK, MapType
  <2>3. /\ f \in [S -> T] /\ (\A t, u \in S : f[t] = f[u] => t = u)
        /\ (\A h \in T : \E t \in S : f[t] = h)
    OBVIOUS
  <2>4. Cardinality(H) <= MaxTasks
    <3>1. map.free[p] \in Nat /\ map.free[p] + Cardinality(H) = MaxTasks
      BY DEF PromisesInv, Promises, Accounts, Inv, TypeOK, MapType
    <3> HIDE DEF H
    <3> QED
      BY <1>1, <2>2, <3>1
  <2> HIDE DEF f, T, S, H
  <2>5. Cardinality(T) = Cardinality(S)
    <3>1. f \in Bijection(S, T)
      BY <2>3 DEF Bijection, Injection, Surjection, IsInjective
    <3> QED
      BY <1>1, <3>1, FS_Bijection DEF ExistsBijection
  <2>6. Cardinality(T) <= Cardinality(H) /\ Cardinality(S) \in Nat
    BY <1>1, <2>1, <2>2, FS_Subset, FS_CardinalityType
  <2> QED
    BY <1>1, <2>2, <2>4, <2>5, <2>6 DEF S
<1>4. CASE \E t \in S : ~Listed(t)
  <2>1. appid_cnt = 0 /\ ~Listed(MapperTask) /\ 0 \notin map.apps
    BY <1>2, <1>4, ConstantsAssumption DEF Listed
  <2>2. S \in SUBSET {MapperTask}
    <3>1. \A t \in Tasks : ~Listed(t)
      BY <2>1, Phases, ConstantsAssumption DEF Listed, Inv, InjectionInv, Apps
    <3> QED
      BY <1>1, <1>2, <3>1
  <2>3. IsFiniteSet({MapperTask}) /\ Cardinality({MapperTask}) = 1
    BY FS_Singleton
  <2> HIDE DEF S
  <2>4. Cardinality(S) <= 1 /\ Cardinality(S) \in Nat
    BY <1>1, <2>2, <2>3, FS_Subset, FS_CardinalityType
  <2> QED
    BY <1>1, <2>4 DEF S
<1> QED
  BY <1>3, <1>4

\* When kernels abort nothing either, no kernel ever has more tasks than pages: what
\* the mapper counts free is free.
THEOREM KernelsHaveRoom ==
  Spec /\ Undisturbed /\ Abortable = {} /\ MaxTasks # 0 => []KernelsFit
<1> DEFINE Room == Abortable = {} /\ MaxTasks # 0
<1>1. Inv /\ EndInv /\ PromisesInv /\ Accounts(map) /\ PagesOutliveTasks /\ Room => KernelsFit
  BY KernelHasRoom DEF KernelsFit
<1>2. Room => Room'
  OBVIOUS
<1> HIDE DEF Room
<1>3. Spec /\ Undisturbed /\ Room => []KernelsFit
  BY <1>1, <1>2, AccountsInit, AccountsNext, PagesOutlive, PromisesInvariance, EndInvariance,
     Invariance, PTL DEF Spec
<1> QED
  BY <1>3 DEF Room

LEMMA ResumedIsMapped ==
  ASSUME Inv, NEW m \in MapType, VerifyPending(m), pending' # pending
  PROVE  /\ pending' = NoApp /\ pending \in map'.apps
         /\ \A t \in AppTasks(pending) :
              /\ Static[t] # NoPE => pe'[t] = Static[t]
              /\ <<t, pe'[t]>> \in map'.held
<1>1. CanResume(m) /\ pending' = NoApp /\ pending \in Apps
  BY DEF VerifyPending, CanResume, Inv, TypeOK
<1>2. PICK place \in Placements(m, pending) : MapDo(m, pending, place)
  BY DEF VerifyPending
<1>3. map'.apps = m.apps \cup {pending} /\ map'.held = m.held \cup NewPages(pending, place)
  BY <1>1, <1>2, MapDoFields
<1>4. ASSUME NEW t \in AppTasks(pending)
      PROVE  pe'[t] = place[t]
  BY <1>2 DEF MapDo, AppTasks
<1>5. \A t \in AppTasks(pending) : Static[t] # NoPE => place[t] = Static[t]
  BY DEF Placements
<1> QED
  BY <1>1, <1>3, <1>4, <1>5 DEF NewPages

\* A waiting application leaves its place only to be mapped whole, with its static
\* tasks where they were asked for; no new application takes its place.
THEOREM WaitsToBeMapped == Spec => PendingIsMapped
<1> DEFINE Done == /\ pending' = NoApp /\ pending \in map'.apps
                   /\ \A t \in AppTasks(pending) :
                        /\ Static[t] # NoPE => pe'[t] = Static[t]
                        /\ <<t, pe'[t]>> \in map'.held
<1>1. ASSUME Inv, Next, pending # NoApp, pending' # pending
      PROVE  Done
  <2>1. CASE NewApp
    BY <1>1, <2>1 DEF NewApp, Inv, InjectionInv
  <2>2. ASSUME NEW t \in Tasks, TaskTerminated(t)
        PROVE  Done
    <3>1. Listed(t)
      BY <1>1, <2>2 DEF TaskTerminated, Listed
    <3>2. \E rest \in MapType : VerifyPending(rest)
      BY <1>1, <2>2, <3>1, TaskTerminatedKeeps
    <3> QED
      BY <1>1, <3>2, ResumedIsMapped
  <2>3. ASSUME NEW t \in Tasks, TaskAborted(t)
        PROVE  Done
    <3>1. Listed(t)
      BY <1>1, <2>3 DEF TaskAborted, Listed
    <3>2. \E rest \in MapType : VerifyPending(rest)
      BY <1>1, <2>3, <3>1, TaskAbortedKeeps
    <3> QED
      BY <1>1, <3>2, ResumedIsMapped
  <2>4. ASSUME NEW t \in Tasks, TaskAllocated(t) \/ MigrationMap(t) \/ TaskMigrated(t)
        PROVE  Done
    BY <1>1, <2>4 DEF TaskAllocated, MigrationMap, TaskMigrated
  <2>5. ASSUME NEW t \in Tasks, Environment(t)
        PROVE  Done
    BY <1>1, <2>5 DEF Environment, Load, Start, Terminate, Abort, End, Migrate, AbortTask,
       AskMigration, mapperVars
  <2>6. CASE RequestFinish \/ \E p \in PEs : PeHalted(p)
    BY <1>1, <2>6 DEF RequestFinish, PeHalted
  <2> QED
    BY <1>1, <2>1, <2>2, <2>3, <2>4, <2>5, <2>6 DEF Next, Handler
<1>2. Inv /\ [Next]_vars => [pending # NoApp /\ pending' # pending => Done]_vars
  BY <1>1
<1> QED
  BY <1>2, Invariance, PTL DEF Spec, PendingIsMapped
=============================================================================
