------------------------------- MODULE Mapper -------------------------------
(***************************************************************************)
(* The mapper task of the MA-Memphis management application                *)
(* (src/management/mapper_task) with the parties it talks to: the          *)
(* injectors, the kernels that run the tasks, and the observers that ask   *)
(* for migrations.                                                         *)
(*                                                                         *)
(* The mapper is a single-threaded event loop (main.c): each iteration     *)
(* receives one message and runs one handler to its end, so that every     *)
(* handler is one action.  The placement heuristics (windows and costs)    *)
(* are left out: a dynamic task may go to any processor with a free page,  *)
(* which contains whatever the heuristics select.                          *)
(*                                                                         *)
(* The injectors and the kernels are not part of the mapper; they are      *)
(* modelled from the messages they exchange with it.                       *)
(***************************************************************************)
EXTENDS Integers, FiniteSets

CONSTANTS
  PEs,         \* the processing elements of the mesh
  NoPE,        \* the NULL processor pointer, and the address -1 of a descriptor
  MaxTasks,    \* memory pages of a processor, memphis_get_max_tasks()
  Tasks,       \* every task of every application of the scenario
  AppCnt,      \* number of applications, the management application included
  AppOf,       \* the application of a task: its identifier shifted right by 8
  Static,      \* the processor in the descriptor of a task, or NoPE
  MapperTask,  \* the task that runs this code, task 0 of application 0
  Migratable,  \* tasks an observer may ask to migrate
  Abortable    \* tasks a kernel may abort

Apps == 0 .. AppCnt - 1
NoApp == -1

ASSUME ConstantsAssumption ==
  /\ IsFiniteSet(PEs) /\ PEs # {} /\ NoPE \notin PEs
  /\ IsFiniteSet(Tasks)
  /\ MaxTasks \in Nat /\ AppCnt \in Nat \ {0}
  /\ AppOf \in [Tasks -> Apps]
  /\ Static \in [Tasks -> PEs \cup {NoPE}]
  /\ MapperTask \in Tasks /\ AppOf[MapperTask] = 0
  /\ Migratable \subseteq Tasks /\ Abortable \subseteq Tasks

\* The mapper task has a static mapping, and the management tasks run for ever and
\* are neither moved nor aborted.
ASSUME ManagementAssumption ==
  /\ Static[MapperTask] # NoPE
  /\ \A t \in Migratable \cup Abortable : AppOf[t] # 0

VARIABLES
  map,           \* map_t, its processors and its applications: see MapType
  appid_cnt,     \* identifier of the next application
  pending,       \* the application waiting for resources, or NoApp
  finished,      \* REQUEST_FINISH was received
  finished_cnt,  \* processors that answered the halt request
  status,        \* task_t.status
  pe,            \* task_t.pe
  old_pe,        \* task_t.old_pe
  injected,      \* applications the injectors have announced
  injecting,     \* an injector waits for APP_MAPPING_COMPLETE
  kernel,        \* what the kernels know of each task
  at,            \* the processor whose kernel holds the task
  moving,        \* the target of a TASK_MIGRATION order on its way or under way
  mail,          \* messages of the kernels to the mapper, by task
  asked,         \* TASK_MIGRATION_MAP requests on their way to the mapper
  aborting,      \* ABORT_TASK orders on their way: pairs of a task and a processor
  halting        \* processors that have HALT_PE to answer

mapperVars == <<map, appid_cnt, pending, finished, finished_cnt, status, pe, old_pe>>
kernelVars == <<kernel, at, moving>>
vars == <<mapperVars, injected, injecting, kernelVars, mail, asked, aborting, halting>>

Statuses == {"BLOCKED", "RUNNING", "MIGRATING", "TERMINATED"}
Services == {"TASK_ALLOCATED", "TASK_MIGRATED", "TASK_TERMINATED", "TASK_ABORTED"}
KernelStates == {"none", "assigned", "blocked", "released", "running", "gone"}

AppTasks(a) == {t \in Tasks : AppOf[t] = a}
TaskCnt(a) == Cardinality(AppTasks(a))
StaticAt(a, p) == {t \in AppTasks(a) : Static[t] = p}
Capacity == Cardinality(PEs) * MaxTasks

\* The pairs of a set of pairs <<task, processor>> on processor p.
At(pairs, p) == {h \in pairs : h[2] = p}

\* Comparison of two unsigned counters, for values kept as integers: a counter
\* decremented below zero is a huge unsigned number.
ULess(x, y) == IF (x < 0) = (y < 0) THEN x < y ELSE y < 0

-----------------------------------------------------------------------------
(* The resources the mapper counts.                                        *)
MapType ==
  [slots     : Int,                     \* map_t.slots: free pages of the system
   free      : [PEs -> Int],            \* pe_t.slots
   reserved  : [PEs -> Int],            \* pe_t.pending_cnt
   held      : SUBSET (Tasks \X PEs),   \* the lists pe_t.tasks
   failed    : Int,                     \* failed_cnt of the pending application
   apps      : SUBSET Apps,             \* the list map_t.apps
   allocated : [Apps -> Int]]           \* app_t.allocated_cnt

\* Variants of the definitions below, named <definition>_<fault>, carry the faults a
\* change of the code might introduce; no specification uses them.

ReservationFailures_LastPage(m, a) ==
  Cardinality({r \in PEs \X (1 .. TaskCnt(a)) :
                 /\ r[2] <= Cardinality(StaticAt(a, r[1]))
                 /\ ULess(m.free[r[1]] + 1, m.reserved[r[1]] + r[2])})

\* task_set_pe on every statically mapped task of a new application: the number
\* of those that find their processor already full or promised.
ReservationFailures(m, a) ==
  Cardinality({r \in PEs \X (1 .. TaskCnt(a)) :
                 /\ r[2] <= Cardinality(StaticAt(a, r[1]))
                 /\ ULess(m.free[r[1]], m.reserved[r[1]] + r[2])})

Reserved(m, a) ==
  [m EXCEPT !.reserved = [p \in PEs |-> m.reserved[p] + Cardinality(StaticAt(a, p))]]

Placements_StaticIsAHint(m, a) ==
  {place \in [AppTasks(a) -> PEs] :
     \A p \in PEs : Cardinality({t \in AppTasks(a) : place[t] = p}) <= m.free[p]}

Placements_OnePageTooMany(m, a) ==
  {place \in [AppTasks(a) -> PEs] :
     /\ \A t \in AppTasks(a) : Static[t] # NoPE => place[t] = Static[t]
     /\ \A p \in PEs : Cardinality({t \in AppTasks(a) : place[t] = p}) <= m.free[p] + 1}

\* Where the tasks of application a may go: static tasks to their processor, the
\* others to processors whose page count is not zero when their turn comes.
Placements(m, a) ==
  {place \in [AppTasks(a) -> PEs] :
     /\ \A t \in AppTasks(a) : Static[t] # NoPE => place[t] = Static[t]
     /\ \A p \in PEs :
          LET fixed == Cardinality(StaticAt(a, p))
              given == Cardinality({t \in AppTasks(a) : place[t] = p})
          IN  given > fixed => \/ given <= m.free[p]
                               \/ m.free[p] - fixed < 0}

Pushed_StaticAlreadyPaid(m, a, place) ==
  [m EXCEPT
     !.slots    = @ - TaskCnt(a),
     !.free     = [p \in PEs |-> m.free[p] - Cardinality({t \in AppTasks(a) :
                                                place[t] = p /\ Static[t] = NoPE})],
     !.reserved = [p \in PEs |-> m.reserved[p] - Cardinality(StaticAt(a, p))],
     !.held     = @ \cup {<<t, place[t]>> : t \in AppTasks(a)},
     !.apps     = @ \cup {a}]

\* pe_task_push_back of every task, each at its place: static tasks use the
\* reservation made before, dynamic ones a reservation made on the spot.
Pushed(m, a, place) ==
  [m EXCEPT
     !.slots    = @ - TaskCnt(a),
     !.free     = [p \in PEs |-> m.free[p] - Cardinality({t \in AppTasks(a) : place[t] = p})],
     !.reserved = [p \in PEs |-> m.reserved[p] - Cardinality(StaticAt(a, p))],
     !.held     = @ \cup {<<t, place[t]>> : t \in AppTasks(a)},
     !.apps     = @ \cup {a}]

PagesOf_NewPageOnly(S) == {<<t, pe[t]>> : t \in S}

\* The pages a task holds according to its descriptor: the one it runs on and,
\* while it migrates, the one it leaves.
PagesOf(S) ==
  {<<t, pe[t]>> : t \in S} \cup {<<t, old_pe[t]>> : t \in {u \in S : old_pe[u] # NoPE}}

\* pe_task_remove of every pair, with the total counter.
Freed(m, pairs) ==
  [m EXCEPT
     !.slots = @ + Cardinality(pairs),
     !.free  = [p \in PEs |-> m.free[p] + Cardinality(At(pairs \cap m.held, p))],
     !.held  = @ \ pairs]

Unblocked_TestAfterRemoval(m, pairs) ==
  Cardinality({r \in PEs \X (0 .. Cardinality(pairs)) :
                 /\ r[2] < Cardinality(At(pairs \cap m.held, r[1]))
                 /\ ULess(m.free[r[1]] + r[2] + 1, m.reserved[r[1]])})

\* How many of the removals return true: those made while the processor had more
\* reservations than pages.
Unblocked(m, pairs) ==
  Cardinality({r \in PEs \X (0 .. Cardinality(pairs)) :
                 /\ r[2] < Cardinality(At(pairs \cap m.held, r[1]))
                 /\ ULess(m.free[r[1]] + r[2], m.reserved[r[1]])})

Released_CountsOnce(m, S) ==
  LET pairs == PagesOf(S)
  IN  [Freed(m, pairs) EXCEPT
         !.failed = IF pending = NoApp \/ Unblocked(m, pairs) = 0 THEN @ ELSE @ - 1]

\* _map_release_resources for the tasks of S.
Released(m, S) ==
  LET pairs == PagesOf(S)
  IN  [Freed(m, pairs) EXCEPT
         !.failed = IF pending = NoApp THEN @ ELSE @ - Unblocked(m, pairs)]

-----------------------------------------------------------------------------
(* The common parts of the handlers.                                       *)

MappingComplete_OneEarly(a, allocated) == allocated + 1 >= TaskCnt(a)

\* app_mapping_complete
MappingComplete(a, allocated) == allocated = TaskCnt(a)

\* APP_ALLOCATION_REQUEST: the injector will send each task to its processor.
\* The mapper task itself is already there.
Assign(a, place) ==
  LET S == AppTasks(a) \ {MapperTask}
  IN  /\ kernel' = [t \in Tasks |-> IF t \in S THEN "assigned" ELSE kernel[t]]
      /\ at' = [t \in Tasks |-> IF t \in S THEN place[t] ELSE at[t]]
      /\ UNCHANGED moving

\* _map_do: m is the state of the counters when it is called.
MapDo(m, a, place) ==
  LET pushed == Pushed(m, a, place)
      counted == pushed.allocated[a] + 1
  IN  /\ pe' = [t \in Tasks |-> IF t \in AppTasks(a) THEN place[t] ELSE pe[t]]
      /\ Assign(a, place)
      /\ IF appid_cnt = 0
         THEN /\ map' = [pushed EXCEPT !.allocated[a] = counted]
              /\ appid_cnt' = IF MappingComplete(a, counted) THEN appid_cnt + 1 ELSE appid_cnt
              /\ injecting' = ~MappingComplete(a, counted)
         ELSE /\ map' = pushed
              /\ injecting' = TRUE
              /\ UNCHANGED appid_cnt

CanResume(m) ==
  /\ pending # NoApp
  /\ ~ULess(m.slots, TaskCnt(pending))
  /\ m.failed = 0

\* _map_verify_pending, after a handler that left the counters at m.
VerifyPending(m) ==
  \/ /\ CanResume(m)
     /\ \E place \in Placements(m, pending) : MapDo(m, pending, place)
     /\ pending' = NoApp
  \/ /\ ~CanResume(m)
     /\ map' = m
     /\ UNCHANGED <<pe, kernelVars, appid_cnt, injecting, pending>>

RequestHalt_NotAsked(m) ==
  halting' = IF Cardinality(m.apps) = 1 THEN PEs ELSE halting

RequestHalt_LastApp(m) ==
  halting' = IF finished /\ m.apps = {} THEN PEs ELSE halting

\* _map_terminate_app: m is the state of the counters after the application left
\* the list.
RequestHalt(m) ==
  halting' = IF finished /\ Cardinality(m.apps) = 1 THEN PEs ELSE halting

Deliver(t, service) ==
  /\ service \in mail[t]
  /\ mail' = [mail EXCEPT ![t] = @ \ {service}]

-----------------------------------------------------------------------------
(* The handlers of the mapper.                                             *)

\* map_new_app: the application is mapped at once, or put in the only place for a
\* pending application.
NewApp ==
  LET a == appid_cnt
      failures == ReservationFailures(map, a)
      reserved == Reserved(map, a)
  IN  /\ ~injecting /\ injected < AppCnt
      /\ injected' = injected + 1
      /\ \/ /\ ULess(map.slots, TaskCnt(a)) \/ failures > 0
            /\ map' = [reserved EXCEPT !.failed = failures]
            /\ pending' = a
            /\ injecting' = TRUE
            /\ UNCHANGED <<pe, kernelVars, appid_cnt>>
         \/ /\ ~ULess(map.slots, TaskCnt(a)) /\ failures = 0
            /\ \E place \in Placements(reserved, a) : MapDo(reserved, a, place)
            /\ UNCHANGED pending
      /\ UNCHANGED <<finished, finished_cnt, status, old_pe, mail, asked, aborting, halting>>

\* map_task_allocated: with the last task, the application is released and the
\* injector is told that the mapping is complete.
TaskAllocated(t) ==
  LET a == AppOf[t]
      counted == map.allocated[a] + 1
      last == a \in map.apps /\ MappingComplete(a, counted)
  IN  /\ Deliver(t, "TASK_ALLOCATED")
      /\ map' = IF a \in map.apps THEN [map EXCEPT !.allocated[a] = counted] ELSE map
      /\ IF last
         THEN /\ status' = [u \in Tasks |-> IF AppOf[u] = a THEN "RUNNING" ELSE status[u]]
              /\ old_pe' = [u \in Tasks |-> IF AppOf[u] = a THEN NoPE ELSE old_pe[u]]
              /\ kernel' = [u \in Tasks |-> IF AppOf[u] = a /\ kernel[u] = "blocked"
                                            THEN "released" ELSE kernel[u]]
              /\ injecting' = FALSE
              /\ appid_cnt' = appid_cnt + 1
         ELSE UNCHANGED <<status, old_pe, kernel, injecting, appid_cnt>>
      /\ UNCHANGED <<pending, finished, finished_cnt, pe, injected, at, moving,
                     asked, aborting, halting>>

\* map_task_terminated
TaskTerminated(t) ==
  LET a == AppOf[t]
      m == Released(map, {t})
      left == m.allocated[a] - 1
      rest == [m EXCEPT !.allocated[a] = left,
                        !.apps = IF left = 0 THEN @ \ {a} ELSE @]
  IN  /\ "TASK_MIGRATED" \notin mail[t]
      /\ Deliver(t, "TASK_TERMINATED")
      /\ \/ /\ a \in map.apps
            /\ status' = [status EXCEPT ![t] = "TERMINATED"]
            /\ IF left = 0 THEN RequestHalt(rest) ELSE UNCHANGED halting
            /\ VerifyPending(rest)
         \/ /\ a \notin map.apps
            /\ UNCHANGED <<map, pe, kernelVars, appid_cnt, injecting, pending, status, halting>>
      /\ UNCHANGED <<finished, finished_cnt, old_pe, injected, asked, aborting>>

Holder_Previous(u) == old_pe[u]

\* Where map_task_aborted expects a task to be.
Holder(u) == IF status[u] = "MIGRATING" THEN old_pe[u] ELSE pe[u]

Others_MoreThanOne(t, left) ==
  {u \in AppTasks(AppOf[t]) \ {t} : left \notin {0, 1} /\ status[u] # "TERMINATED"}

\* The tasks that map_task_aborted ends with t: none when t is the last one.
Others(t, left) ==
  {u \in AppTasks(AppOf[t]) \ {t} : left # 0 /\ status[u] # "TERMINATED"}

\* map_task_aborted: the other tasks of the application are ended too, each with an
\* ABORT_TASK order to the processor the mapper believes it is on.
TaskAborted(t) ==
  LET a == AppOf[t]
      left == map.allocated[a] - 1
      others == Others(t, left)
      m == Released(map, others \cup {t})
      rest == [m EXCEPT !.allocated[a] = left, !.apps = @ \ {a}]
  IN  /\ "TASK_MIGRATED" \notin mail[t]
      /\ Deliver(t, "TASK_ABORTED")
      /\ \/ /\ a \in map.apps
            /\ status' = [u \in Tasks |-> IF u \in others \cup {t} THEN "TERMINATED"
                                          ELSE status[u]]
            /\ aborting' = aborting \cup {<<u, Holder(u)>> : u \in others}
            /\ RequestHalt(rest)
            /\ VerifyPending(rest)
         \/ /\ a \notin map.apps
            /\ UNCHANGED <<map, pe, kernelVars, appid_cnt, injecting, pending, status,
                           aborting, halting>>
      /\ UNCHANGED <<finished, finished_cnt, old_pe, injected, asked>>

CanMigrate_Twice(t) == AppOf[t] \in map.apps /\ status[t] # "TERMINATED"
CanMigrate_Ended(t) == AppOf[t] \in map.apps /\ status[t] # "MIGRATING"

\* The requests map_migration_map does not drop.
CanMigrate(t) ==
  AppOf[t] \in map.apps /\ status[t] \notin {"TERMINATED", "MIGRATING"}

\* map_migration_map: the order to migrate goes to the kernel that holds the task.
\* The free pages counted for the current processor include the task's own.
MigrationMap(t) ==
  /\ t \in asked
  /\ asked' = asked \ {t}
  /\ \/ /\ CanMigrate(t)
        /\ \E target \in PEs :
             \/ /\ target = pe[t]
                /\ map.free[target] + 1 # 0
                /\ UNCHANGED <<map, status, pe, old_pe, moving>>
             \/ /\ target # pe[t]
                /\ map.free[target] # 0
                /\ map' = [map EXCEPT !.slots = @ - 1,
                                      !.free[target] = @ - 1,
                                      !.held = @ \cup {<<t, target>>}]
                /\ old_pe' = [old_pe EXCEPT ![t] = pe[t]]
                /\ pe' = [pe EXCEPT ![t] = target]
                /\ status' = [status EXCEPT ![t] = "MIGRATING"]
                /\ moving' = IF kernel[t] = "running" THEN [moving EXCEPT ![t] = target]
                             ELSE moving
     \/ /\ ~CanMigrate(t)
        /\ UNCHANGED <<map, status, pe, old_pe, moving>>
  /\ UNCHANGED <<appid_cnt, pending, finished, finished_cnt, injected, injecting,
                 kernel, at, mail, aborting, halting>>

TaskMigrated_FreesNewPage(t) ==
  /\ Deliver(t, "TASK_MIGRATED")
  /\ IF AppOf[t] \in map.apps
     THEN /\ map' = Freed(map, {<<t, pe[t]>>})
          /\ status' = [status EXCEPT ![t] = "RUNNING"]
          /\ old_pe' = [old_pe EXCEPT ![t] = NoPE]
     ELSE UNCHANGED <<map, status, old_pe>>
  /\ UNCHANGED <<appid_cnt, pending, finished, finished_cnt, pe, injected, injecting,
                 kernelVars, asked, aborting, halting>>

\* map_task_migrated: the page left behind is free again.  That it may be one the waiting
\* application was refused is not looked at: failed_cnt stays, and nothing is mapped.
TaskMigrated(t) ==
  /\ Deliver(t, "TASK_MIGRATED")
  /\ IF AppOf[t] \in map.apps
     THEN /\ map' = Freed(map, {<<t, old_pe[t]>>})
          /\ status' = [status EXCEPT ![t] = "RUNNING"]
          /\ old_pe' = [old_pe EXCEPT ![t] = NoPE]
     ELSE UNCHANGED <<map, status, old_pe>>
  /\ UNCHANGED <<appid_cnt, pending, finished, finished_cnt, pe, injected, injecting,
                 kernelVars, asked, aborting, halting>>

\* map_request_finish: the injector sends REQUEST_FINISH once, when it has no more
\* applications and the mapping of the last one is complete.
RequestFinish ==
  /\ ~injecting /\ injected = AppCnt /\ ~finished
  /\ finished' = TRUE
  /\ UNCHANGED <<map, appid_cnt, pending, finished_cnt, status, pe, old_pe, injected,
                 injecting, kernelVars, mail, asked, aborting, halting>>

\* map_pe_halted: the simulation ends with the last answer.
PeHalted(p) ==
  /\ p \in halting
  /\ halting' = halting \ {p}
  /\ finished_cnt' = finished_cnt + 1
  /\ UNCHANGED <<map, appid_cnt, pending, finished, status, pe, old_pe, injected,
                 injecting, kernelVars, mail, asked, aborting>>

-----------------------------------------------------------------------------
(* The kernels and the observers, as the mapper sees them.                 *)

\* The injector's TASK_ALLOCATION packet reaches the kernel, which answers.
Load(t) ==
  /\ kernel[t] = "assigned"
  /\ kernel' = [kernel EXCEPT ![t] = "blocked"]
  /\ mail' = [mail EXCEPT ![t] = @ \cup {"TASK_ALLOCATED"}]
  /\ UNCHANGED <<mapperVars, injected, injecting, at, moving, asked, aborting, halting>>

\* TASK_RELEASE reaches the kernel.
Start(t) ==
  /\ kernel[t] = "released"
  /\ kernel' = [kernel EXCEPT ![t] = "running"]
  /\ UNCHANGED <<mapperVars, injected, injecting, at, moving, mail, asked, aborting, halting>>

\* A task ends.  An order to migrate that has not been carried out is dropped.
End(t, service) ==
  /\ kernel[t] = "running" /\ AppOf[t] # 0
  /\ kernel' = [kernel EXCEPT ![t] = "gone"]
  /\ moving' = [moving EXCEPT ![t] = NoPE]
  /\ mail' = [mail EXCEPT ![t] = @ \cup {service}]
  /\ UNCHANGED <<mapperVars, injected, injecting, at, asked, aborting, halting>>

Terminate(t) == End(t, "TASK_TERMINATED")
Abort(t) == t \in Abortable /\ End(t, "TASK_ABORTED")

\* The migration is carried out and the kernel of the target reports it.
Migrate(t) ==
  /\ moving[t] # NoPE
  /\ at' = [at EXCEPT ![t] = moving[t]]
  /\ moving' = [moving EXCEPT ![t] = NoPE]
  /\ mail' = [mail EXCEPT ![t] = @ \cup {"TASK_MIGRATED"}]
  /\ UNCHANGED <<mapperVars, injected, injecting, kernel, asked, aborting, halting>>

\* ABORT_TASK reaches a kernel, which knows the task or not.
AbortTask(t, p) ==
  /\ <<t, p>> \in aborting
  /\ aborting' = aborting \ {<<t, p>>}
  /\ IF at[t] = p /\ kernel[t] \in {"blocked", "released", "running"}
     THEN /\ kernel' = [kernel EXCEPT ![t] = "gone"]
          /\ moving' = [moving EXCEPT ![t] = NoPE]
     ELSE UNCHANGED <<kernel, moving>>
  /\ UNCHANGED <<mapperVars, injected, injecting, at, mail, asked, halting>>

\* The migration task asks the mapper to migrate a task it saw miss deadlines.
AskMigration(t) ==
  /\ t \in Migratable \ asked
  /\ kernel[t] = "running"
  /\ asked' = asked \cup {t}
  /\ UNCHANGED <<mapperVars, injected, injecting, kernelVars, mail, aborting, halting>>

-----------------------------------------------------------------------------
Init ==
  /\ map = [slots     |-> Capacity,
            free      |-> [p \in PEs |-> MaxTasks],
            reserved  |-> [p \in PEs |-> 0],
            held      |-> {},
            failed    |-> 0,
            apps      |-> {},
            allocated |-> [a \in Apps |-> 0]]
  /\ appid_cnt = 0 /\ pending = NoApp
  /\ finished = FALSE /\ finished_cnt = 0
  /\ status = [t \in Tasks |-> "BLOCKED"]
  /\ pe = [t \in Tasks |-> NoPE]
  /\ old_pe = [t \in Tasks |-> NoPE]
  /\ injected = 0 /\ injecting = FALSE
  /\ kernel = [t \in Tasks |-> IF t = MapperTask THEN "running" ELSE "none"]
  /\ at = [t \in Tasks |-> IF t = MapperTask THEN Static[t] ELSE NoPE]
  /\ moving = [t \in Tasks |-> NoPE]
  /\ mail = [t \in Tasks |-> {}]
  /\ asked = {} /\ aborting = {} /\ halting = {}

Handler(t) ==
  \/ TaskAllocated(t)
  \/ TaskTerminated(t)
  \/ TaskAborted(t)
  \/ MigrationMap(t)
  \/ TaskMigrated(t)

Environment(t) ==
  \/ Load(t)
  \/ Start(t)
  \/ Terminate(t)
  \/ Abort(t)
  \/ Migrate(t)
  \/ \E p \in PEs : AbortTask(t, p)
  \/ AskMigration(t)

Next ==
  \/ NewApp
  \/ RequestFinish
  \/ \E p \in PEs : PeHalted(p)
  \/ \E t \in Tasks : Handler(t) \/ Environment(t)

Spec == Init /\ [][Next]_vars

\* Messages are delivered and handled, injectors announce every application, orders
\* are carried out, and tasks other than the management ones end.  Nothing forces a
\* task to be aborted or to be migrated.
Fairness ==
  /\ WF_vars(NewApp) /\ WF_vars(RequestFinish)
  /\ \A p \in PEs : WF_vars(PeHalted(p))
  /\ \A t \in Tasks :
       /\ WF_vars(TaskAllocated(t)) /\ WF_vars(TaskTerminated(t)) /\ WF_vars(TaskAborted(t))
       /\ WF_vars(MigrationMap(t)) /\ WF_vars(TaskMigrated(t))
       /\ WF_vars(Load(t)) /\ WF_vars(Start(t)) /\ WF_vars(Migrate(t))
       /\ WF_vars(Terminate(t))
       /\ \A p \in PEs : WF_vars(AbortTask(t, p))

FairSpec == Spec /\ Fairness

-----------------------------------------------------------------------------
(* Properties.                                                             *)

TypeOK ==
  /\ map \in MapType
  /\ appid_cnt \in Nat /\ pending \in Apps \cup {NoApp}
  /\ finished \in BOOLEAN /\ finished_cnt \in Nat
  /\ status \in [Tasks -> Statuses]
  /\ pe \in [Tasks -> PEs \cup {NoPE}]
  /\ old_pe \in [Tasks -> PEs \cup {NoPE}]
  /\ injected \in 0 .. AppCnt /\ injecting \in BOOLEAN
  /\ kernel \in [Tasks -> KernelStates]
  /\ at \in [Tasks -> PEs \cup {NoPE}]
  /\ moving \in [Tasks -> PEs \cup {NoPE}]
  /\ mail \in [Tasks -> SUBSET Services]
  /\ asked \subseteq Tasks
  /\ aborting \subseteq Tasks \X PEs
  /\ halting \subseteq PEs

\* The three accounts of the pages agree: the total counter of the mapper, the
\* counter of each processor, and the task lists of the processors.  Handlers update
\* them in different places (_map_do, _map_release_resources, task_migrate,
\* map_task_migrated).
SlotsConserved ==
  /\ map.slots + Cardinality(map.held) = Capacity
  /\ \A p \in PEs : map.free[p] + Cardinality(At(map.held, p)) = MaxTasks

\* No processor is given more tasks than it has pages: the unsigned counters never
\* wrap below zero, whatever terminates, aborts or migrates while an application
\* with static tasks waits.
NoOvercommit == map.slots >= 0 /\ \A p \in PEs : map.free[p] >= 0

\* While an application waits, its failed_cnt is the number of its promised pages
\* that are not free, which is what _map_verify_pending relies on.
FailedCountExact ==
  pending # NoApp =>
    map.failed = Cardinality({r \in PEs \X (1 .. TaskCnt(pending)) :
                                map.free[r[1]] < r[2] /\ r[2] <= map.reserved[r[1]]})

\* The lists of the processors hold the tasks of listed applications only: an
\* application is freed when the last of its tasks has left every list, so that
\* task_map never follows a pointer to freed memory.
NoDanglingTask == \A h \in map.held : AppOf[h[1]] \in map.apps

\* The processors whose kernel has, or is about to receive, the task.
Resident(t) ==
  IF kernel[t] \in {"none", "gone"} THEN {} ELSE {at[t], moving[t]} \ {NoPE}

\* The mapper never believes a page free while a kernel still has a task of a
\* listed application in it, although kernels act before they report.
PagesOutliveTasks ==
  \A t \in Tasks :
    AppOf[t] \in map.apps => \A p \in Resident(t) : <<t, p>> \in map.held

\* No kernel ever has more tasks than pages.
KernelsFit ==
  \A p \in PEs : Cardinality({t \in Tasks : p \in Resident(t)}) <= MaxTasks

\* TASK_MIGRATED always finds the processor left behind in old_pe:
\* map_task_migrated does not test the pointer.
MigratedExpected ==
  \A t \in Tasks :
    "TASK_MIGRATED" \in mail[t] /\ AppOf[t] \in map.apps =>
      old_pe[t] # NoPE /\ <<t, old_pe[t]>> \in map.held

\* A task of an application that left the list is on no kernel, or an ABORT_TASK
\* order on its way will find it: map_task_aborted addresses the order to the
\* processor the task is on.
AbortReachesTask ==
  \A t \in Tasks :
    /\ AppOf[t] < appid_cnt /\ AppOf[t] \notin map.apps
    /\ kernel[t] \in {"released", "running"}
    => <<t, at[t]>> \in aborting

\* The identifiers the mapper gives follow the order in which the injectors announce
\* the applications; AppInjector finds the code of an application by its identifier
\* alone.
IdentifiersFollowInjection ==
  /\ injecting => injected = appid_cnt + 1
  /\ ~injecting => injected = appid_cnt

\* HALT_PE is broadcast once, and only when every application was mapped and no
\* kernel has a task of a user application.
HaltWhenDone ==
  halting # {} \/ finished_cnt > 0 =>
    /\ finished /\ map.apps = {0}
    /\ finished_cnt + Cardinality(halting) = Cardinality(PEs)
    /\ \A t \in Tasks : AppOf[t] # 0 => Resident(t) = {}

\* A terminated task never runs again: a late TASK_ALLOCATED or TASK_MIGRATED does
\* not bring it back.
NoResurrection ==
  [][\A t \in Tasks : status[t] = "TERMINATED" => status'[t] = "TERMINATED"]_vars

\* A waiting application leaves its place only to be mapped with every one of its
\* static tasks on the processor asked for.
PendingIsMapped ==
  [][pending # NoApp /\ pending' # pending =>
       /\ pending' = NoApp /\ pending \in map'.apps
       /\ \A t \in AppTasks(pending) :
            /\ Static[t] # NoPE => pe'[t] = Static[t]
            /\ <<t, pe'[t]>> \in map'.held]_vars

\* Every application announced by an injector is mapped and released.
EveryAppReleased == \A a \in Apps : <>(appid_cnt > a)

\* A waiting application is mapped once there are enough pages in total and its static
\* tasks find their processors free.  It is not after a migration off one of these: the
\* handler leaves failed_cnt as it was, and _map_verify_pending finds it above zero whenever
\* a task or an application ends.
AbleToMap(a) ==
  /\ pending = a
  /\ ~ULess(map.slots, TaskCnt(a))
  /\ \A p \in PEs : Cardinality(StaticAt(a, p)) <= map.free[p]
AbleToMapIsMapped == \A a \in Apps : AbleToMap(a) ~> a \in map.apps

\* Once the request to finish arrived while user applications were still listed,
\* every processor is halted.
HaltsAfterApps ==
  (finished /\ map.apps # {0}) ~> (finished_cnt = Cardinality(PEs))

\* Once the request to finish arrived, every processor is halted in the end.
HaltsAfterFinish == finished ~> (finished_cnt = Cardinality(PEs))
=============================================================================
