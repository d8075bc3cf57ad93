-------------------------- MODULE MapperInvariant --------------------------
(***************************************************************************)
(* The inductive invariant of the mapper.  It says, for each task, which   *)
(* combinations of the mapper's record, the kernel's state and the         *)
(* messages on their way are possible, and it ties the counters of the     *)
(* mapper to those combinations.                                           *)
(***************************************************************************)
EXTENDS Mapper

Listed(t) == AppOf[t] \in map.apps

\* A task of an application that is not mapped yet.
Future(t) == AppOf[t] > appid_cnt \/ (AppOf[t] = appid_cnt /\ ~Listed(t))

FutureInv(t) ==
  /\ ~Listed(t)
  /\ status[t] = "BLOCKED" /\ old_pe[t] = NoPE /\ moving[t] = NoPE
  /\ mail[t] = {} /\ t \notin asked
  /\ IF t = MapperTask THEN kernel[t] = "running" /\ at[t] = Static[t]
                        ELSE kernel[t] = "none"

\* A task of the application that is being loaded.
Loading(t) == AppOf[t] = appid_cnt /\ Listed(t)

LoadingInv(t) ==
  /\ pe[t] \in PEs /\ at[t] = pe[t]
  /\ status[t] = "BLOCKED" /\ old_pe[t] = NoPE /\ moving[t] = NoPE /\ t \notin asked
  /\ IF t = MapperTask
     THEN kernel[t] = "running" /\ mail[t] = {}
     ELSE \/ kernel[t] = "assigned" /\ mail[t] = {}
          \/ kernel[t] = "blocked" /\ mail[t] \subseteq {"TASK_ALLOCATED"}

\* A task of a released application: what holds whether or not it is listed still.
StartedInv(t) ==
  /\ kernel[t] \in {"released", "running", "gone"}
  /\ "TASK_ALLOCATED" \notin mail[t]
  /\ moving[t] # NoPE => kernel[t] = "running"
  /\ t \in asked => kernel[t] \in {"running", "gone"}

\* A task of a released application that is listed: the mapper's record follows the
\* kernel, up to the messages on their way.
ListedInv(t) ==
  /\ pe[t] \in PEs
  /\ status[t] = "TERMINATED" => kernel[t] = "gone" /\ mail[t] = {}
  /\ mail[t] \cap {"TASK_TERMINATED", "TASK_ABORTED"} # {} => kernel[t] = "gone"
  /\ status[t] \in {"BLOCKED", "RUNNING"} =>
       /\ old_pe[t] = NoPE /\ moving[t] = NoPE /\ "TASK_MIGRATED" \notin mail[t]
       /\ kernel[t] # "gone" => at[t] = pe[t]
  /\ status[t] = "MIGRATING" =>
       /\ old_pe[t] \in PEs /\ old_pe[t] # pe[t]
       /\ \/ kernel[t] = "gone"
          \/ moving[t] = pe[t] /\ at[t] = old_pe[t] /\ "TASK_MIGRATED" \notin mail[t]
          \/ moving[t] = NoPE /\ at[t] = pe[t] /\ "TASK_MIGRATED" \in mail[t]
  /\ ~ {"TASK_TERMINATED", "TASK_ABORTED"} \subseteq mail[t]

TaskInv(t) ==
  /\ Future(t) => FutureInv(t)
  /\ Loading(t) => LoadingInv(t)
  /\ AppOf[t] < appid_cnt => StartedInv(t) /\ (Listed(t) => ListedInv(t))

\* One application at a time is being mapped, and it bears the next identifier.
InjectionInv ==
  /\ \A a \in map.apps : a <= appid_cnt
  /\ injected = IF injecting THEN appid_cnt + 1 ELSE appid_cnt
  /\ ~injecting => pending = NoApp /\ appid_cnt \notin map.apps
  /\ injecting => \/ pending = appid_cnt /\ appid_cnt \notin map.apps
                  \/ pending = NoApp /\ appid_cnt \in map.apps

\* The lists of the processors follow from the records of the tasks.
HeldInv ==
  \A t \in Tasks, p \in PEs :
    <<t, p>> \in map.held <=>
      Listed(t) /\ status[t] # "TERMINATED" /\ p \in {pe[t], old_pe[t]}

\* The tasks allocated_cnt counts.
Counted(a) ==
  {t \in AppTasks(a) :
     IF a < appid_cnt THEN status[t] # "TERMINATED"
     ELSE t = MapperTask \/ (kernel[t] = "blocked" /\ mail[t] = {})}

AllocatedInv ==
  \A a \in Apps :
    /\ a \in map.apps => map.allocated[a] = Cardinality(Counted(a))
    /\ a \notin map.apps /\ a >= appid_cnt => map.allocated[a] = 0

\* Tasks are ordered to abort only when their application has left the list.
AbortingInv ==
  \A h \in aborting : AppOf[h[1]] < appid_cnt /\ AppOf[h[1]] \notin map.apps

Inv ==
  /\ TypeOK
  /\ InjectionInv
  /\ \A t \in Tasks : TaskInv(t)
  /\ HeldInv
  /\ AllocatedInv
  /\ AbortingInv

-----------------------------------------------------------------------------
(* The promises made to the application that waits.                        *)

\* Only the management application is static, as the configuration guide asks, or
\* nothing migrates: no migration takes or frees a page that was promised.
Undisturbed ==
  Migratable = {} \/ \A t \in Tasks : AppOf[t] # 0 => Static[t] = NoPE

\* The promised pages of application a that are not free, each with its rank.
Missing(m, a) ==
  {r \in PEs \X (1 .. TaskCnt(a)) : m.free[r[1]] < r[2] /\ r[2] <= m.reserved[r[1]]}

Promises(m, a) ==
  /\ m.slots >= 0 /\ \A p \in PEs : m.free[p] >= 0
  /\ \A p \in PEs :
       m.reserved[p] = IF a = NoApp THEN 0 ELSE Cardinality(StaticAt(a, p))
  /\ a # NoApp => m.failed = Cardinality(Missing(m, a))

\* Only tasks an observer may ask to migrate are ever about to.
MigratingInv ==
  /\ asked \subseteq Migratable
  /\ \A t \in Tasks : status[t] = "MIGRATING" \/ moving[t] # NoPE => t \in Migratable

PromisesInv == Undisturbed /\ Promises(map, pending)

-----------------------------------------------------------------------------
(* The end of applications and of the system.                              *)

\* A task left behind by its application is about to be aborted where it is.
LeftBehindInv ==
  \A t \in Tasks :
    /\ AppOf[t] < appid_cnt /\ ~Listed(t) /\ kernel[t] # "gone"
    /\ t \notin Migratable \/ Abortable = {}
    => <<t, at[t]>> \in aborting

AbortedInv ==
  Abortable = {} => aborting = {} /\ \A t \in Tasks : "TASK_ABORTED" \notin mail[t]

\* The management application stays.
ManagementInv ==
  /\ appid_cnt > 0 => 0 \in map.apps
  /\ \A t \in Tasks : AppOf[t] = 0 => kernel[t] # "gone"

\* The processors are halted once, when nothing but the management application is left.
HaltInv ==
  /\ finished => ~injecting /\ injected = AppCnt
  /\ halting # {} \/ finished_cnt > 0 =>
       /\ finished /\ map.apps = {0}
       /\ finished_cnt + Cardinality(halting) = Cardinality(PEs)

EndInv == MigratingInv /\ LeftBehindInv /\ AbortedInv /\ ManagementInv /\ HaltInv
=============================================================================
