------------------------------ MODULE Injector ------------------------------
(***************************************************************************)
(* The two peripherals that bring the tasks into the system: MAInjector    *)
(* brings the mapper and the other management tasks (MAInjector.cpp),      *)
(* AppInjector the applications (AppInjector.cpp).                         *)
(*                                                                         *)
(* Each is made of three processes: one that decides what comes next, one  *)
(* that sends and one that receives.  Their states are plain variables     *)
(* that all three read and write on the same edge of the clock, so what    *)
(* they see of one another depends on the order in which they run.  order  *)
(* is that order.  The two sources differ in names only where they do the  *)
(* same; the names here are those of AppInjector.                          *)
(***************************************************************************)
EXTENDS Integers, Sequences, SequencesExt

CONSTANTS
  CONSTANT_PACKET_SIZE,   \* flits of a packet without payload
  MapperAddress,          \* where the mapper runs
  Endpoint(_),            \* where an injector is
  TIME_BOUND,             \* the last start of an application: the time is not counted further
  LOCAL_PORT,             \* the port of a packet that stays in the mesh
  NoFlit,                 \* the value of a wire that has not been driven
  Flits(_),               \* the flits of a packet
  AsCount(_)              \* the number a flit stands for

VARIABLES
  inj,     \* the state of each injector
  order    \* the order of its processes

MA == "MAInjector"
App == "AppInjector"
Injectors == {MA, App}

Processes == {"monitor", "send", "receive"}
Orders == {s \in [1 .. 3 -> Processes] : {s[1], s[2], s[3]} = Processes}

-----------------------------------------------------------------------------
(* Packets.                                                                *)

Packet(from, target, service, body, words) ==
  [from |-> Endpoint(from), target |-> target, io |-> LOCAL_PORT, service |-> service, body |-> body,
   size |-> CONSTANT_PACKET_SIZE - 2 + words]

Control(k, service) == Packet(k, MapperAddress, service, <<>>, 0)

\* The code of a task: ma.tasks and app.tasks are the numbers of words of each.
task_load(id, address, tasks) ==
  Packet(MA, address, "TASK_ALLOCATION", <<"MANAGEMENT", id>>, tasks[id + 1])
task_allocation_loader(id, address, app) ==
  Packet(App, address, "TASK_ALLOCATION", <<app.name, id>>, app.tasks[id + 1])

\* The description of a set of tasks: address and type of each, then its consumers up to
\* a 0; three words before.
ma_load(tasks) ==
  Packet(MA, MapperAddress, "MESSAGE_DELIVERY", <<"NEW_APP", Len(tasks)>>, Len(tasks) * 3 + 3)
app_descriptor_loader(app) ==
  Packet(App, MapperAddress, "MESSAGE_DELIVERY", <<"NEW_APP", Len(app.tasks)>>,
         Len(app.tasks) * 2 + 3 + Len(app.tasks) + app.edges)
request_finish == Packet(App, MapperAddress, "MESSAGE_DELIVERY", <<"REQUEST_FINISH">>, 1)

-----------------------------------------------------------------------------
(* What comes next.  The words of packet_in after the first are pairs of   *)
(* a task and the place the mapper has given it.                           *)

Pairs(i) == (Len(i.packet_in) - 1) \div 2
TaskOf(i, n) == i.packet_in[2 + n * 2]
PlaceOf(i, n) == i.packet_in[3 + n * 2]

\* The first task is the mapper: its code goes without asking.
ma_boot(i) ==
  CASE i.monitor = "BOOT_INIT" ->
         [i EXCEPT !.packet = task_load(0, MapperAddress, i.tasks), !.monitor = "BOOT_WAIT"]
    [] i.monitor = "BOOT_WAIT" ->
         IF i.send = "FINISHED" THEN [i EXCEPT !.packet = ma_load(i.tasks), !.monitor = "BOOT_TASKS"] ELSE i
    [] i.monitor = "BOOT_TASKS" ->
         IF i.send = "FINISHED" THEN [i EXCEPT !.sent_task = 1, !.monitor = "BOOT_MAP"] ELSE i
    [] i.monitor = "BOOT_MAP" ->
         IF i.rcv # "WAIT_ALLOCATION" THEN i
         ELSE IF i.sent_task < Pairs(i)
           THEN [i EXCEPT !.packet = task_load(TaskOf(i, i.sent_task), PlaceOf(i, i.sent_task), i.tasks),
                          !.monitor = "BOOT_SEND"]
           ELSE [i EXCEPT !.monitor = "BOOT_CONFIRM"]
    [] i.monitor = "BOOT_SEND" ->
         IF i.send # "FINISHED" THEN i
         ELSE [i EXCEPT !.sent_task = i.sent_task + 1,
                        !.monitor = IF i.sent_task + 1 < Pairs(i) THEN "BOOT_MAP" ELSE "BOOT_CONFIRM"]
    [] i.monitor = "BOOT_CONFIRM" ->
         IF i.rcv = "RECEIVE_MAPPING_COMPLETE" THEN [i EXCEPT !.monitor = "BOOT_FINISHED"] ELSE i
    [] i.monitor = "BOOT_FINISHED" -> i

timer(i) == [i EXCEPT !.tick_cnt = IF i.tick_cnt < TIME_BOUND THEN i.tick_cnt + 1 ELSE i.tick_cnt]

\* app_start.txt is the sequence apps.
monitor_new_app(i) ==
  CASE i.monitor = "IDLE" -> IF i.rcv = "RECEIVE_MAPPING_COMPLETE" THEN [i EXCEPT !.monitor = "ACTIVE"] ELSE i
    [] i.monitor = "ACTIVE" ->
         IF i.apps # <<>>
           THEN [i EXCEPT !.app = Head(i.apps), !.apps = Tail(i.apps), !.monitor = "WAIT_TIME"]
           ELSE [i EXCEPT !.packet = request_finish, !.monitor = "SEND_FINISH"]
    [] i.monitor = "WAIT_TIME" ->
         IF i.rcv = "HEADER" /\ i.app.start_time <= i.tick_cnt
           THEN [i EXCEPT !.packet = app_descriptor_loader(i.app), !.monitor = "SEND_NEW_APP"] ELSE i
    [] i.monitor = "SEND_NEW_APP" ->
         IF i.send = "FINISHED" THEN [i EXCEPT !.sent_task = 0, !.monitor = "MAP"] ELSE i
    [] i.monitor = "MAP" ->
         IF i.rcv # "WAIT_ALLOCATION" THEN i
         ELSE [i EXCEPT !.packet = task_allocation_loader(TaskOf(i, i.sent_task), PlaceOf(i, i.sent_task), i.app),
                        !.monitor = "SEND_TASK"]
    [] i.monitor = "SEND_TASK" ->
         IF i.send # "FINISHED" THEN i
         ELSE [i EXCEPT !.sent_task = i.sent_task + 1,
                        !.monitor = IF i.sent_task + 1 < Pairs(i) THEN "MAP" ELSE "IDLE"]
    [] i.monitor = "SEND_FINISH" -> IF i.send = "FINISHED" THEN [i EXCEPT !.monitor = "IDLE"] ELSE i

-----------------------------------------------------------------------------
(* Sending.  With credit one more flit is driven each cycle.  Without, the *)
(* flit of the cycle before has not been taken: it is driven again when    *)
(* there is credit.                                                        *)

Drive(i, p, idx, after, credit_in) ==
  CASE ~credit_in -> [i EXCEPT !.tx = FALSE, !.last_state = i.send, !.send = "WAIT_CREDIT"]
    [] credit_in /\ idx = Len(Flits(p)) -> [i EXCEPT !.tx = FALSE, !.send = after]
    [] OTHER -> [i EXCEPT !.tx = TRUE, !.data_out = Flits(p)[idx + 1]]

\* aux_pkt and packet have an index each.
DriveAux(i, after, credit_in) ==
  LET j == Drive(i, i.aux_pkt, i.aux_idx, after, credit_in)
  IN  [j EXCEPT !.aux_idx = IF j.tx THEN i.aux_idx + 1 ELSE i.aux_idx]
DrivePacket(i, credit_in) ==
  LET j == Drive(i, i.packet, i.pkt_idx, "FINISHED", credit_in)
  IN  [j EXCEPT !.pkt_idx = IF j.tx THEN i.pkt_idx + 1 ELSE i.pkt_idx]

\* direct says that the packet is sent at once, announced that it waits for a request.
Begin(k, i, direct, announced) ==
  CASE direct -> [i EXCEPT !.pkt_idx = 0, !.send = "PACKET"]
    [] ~direct /\ announced -> [i EXCEPT !.aux_idx = 0, !.aux_pkt = Control(k, "DATA_AV"), !.send = "DATA_AV"]
    [] ~direct /\ ~announced /\ i.rcv = "WAIT_REQ" ->
         [i EXCEPT !.aux_idx = 0, !.aux_pkt = Control(k, "MESSAGE_REQUEST"), !.send = "MSG_REQUEST"]
    [] OTHER -> i

Sending(k, i, credit_in, direct, announced) ==
  CASE i.send = "IDLE" -> IF credit_in THEN Begin(k, i, direct, announced) ELSE i
    [] i.send = "DATA_AV" -> DriveAux(i, "WAIT_REQUEST", credit_in)
    [] i.send = "MSG_REQUEST" -> DriveAux(i, "FINISHED", credit_in)
    [] i.send = "WAIT_REQUEST" ->
         IF i.rcv = "WAIT_DLVR" /\ credit_in THEN [i EXCEPT !.pkt_idx = 0, !.send = "PACKET"] ELSE i
    [] i.send = "PACKET" -> DrivePacket(i, credit_in)
    [] i.send = "WAIT_CREDIT" -> IF credit_in THEN [i EXCEPT !.tx = TRUE, !.send = i.last_state] ELSE i
    [] i.send = "FINISHED" -> [i EXCEPT !.send = "IDLE"]

MASend(i, credit_in) ==
  Sending(MA, i, credit_in, i.monitor \in {"BOOT_WAIT", "BOOT_SEND"}, i.monitor = "BOOT_TASKS")
AppSend(i, credit_in) ==
  Sending(App, i, credit_in, i.monitor = "SEND_TASK", i.monitor \in {"SEND_NEW_APP", "SEND_FINISH"})

-----------------------------------------------------------------------------
(* Receiving.  A flit is taken when the credit that the network has seen,  *)
(* decided on the edge before, says so.                                    *)

Service(f) == IF f[2] = 2 THEN f[1].service ELSE "UNKNOWN"
Word(f) == IF f[2] - 12 \in DOMAIN f[1].body THEN f[1].body[f[2] - 12] ELSE 0

AfterService ==
  [DATA_AV |-> "DATA_AV", MESSAGE_REQUEST |-> "MESSAGE_REQUEST", MESSAGE_DELIVERY |-> "MESSAGE_DELIVERY"]

\* The eighth flit says how long the message is: what there was of another is forgotten.
Collect(i, f) ==
  CASE i.flit_counter = 6 -> [i EXCEPT !.packet_in = <<>>]
    [] i.flit_counter >= CONSTANT_PACKET_SIZE - 2 -> [i EXCEPT !.packet_in = Append(i.packet_in, Word(f))]
    [] OTHER -> i

Counted(i) == [i EXCEPT !.flit_counter = i.flit_counter + 1]

\* A flit that is taken.
Taken(i, f) ==
  CASE i.rcv = "HEADER" -> [i EXCEPT !.rcv = "PAYLOAD_SIZE"]
    [] i.rcv = "PAYLOAD_SIZE" -> [i EXCEPT !.payload_size = AsCount(f), !.flit_counter = 0, !.rcv = "SERVICE"]
    [] i.rcv = "SERVICE" ->
         [Counted(i) EXCEPT !.rcv = IF Service(f) \in DOMAIN AfterService THEN AfterService[Service(f)] ELSE i.rcv]
    [] i.rcv \in {"DATA_AV", "MESSAGE_REQUEST"} -> Counted(i)
    [] i.rcv = "MESSAGE_DELIVERY" -> Counted(Collect(i, f))
    [] OTHER -> i

\* The end of a packet, looked for in every cycle.
Complete(i) ==
  CASE i.rcv = "DATA_AV" -> "WAIT_REQ"
    [] i.rcv = "MESSAGE_REQUEST" -> "WAIT_DLVR"
    [] i.rcv = "MESSAGE_DELIVERY" /\ i.packet_in[1] = "APP_ALLOCATION_REQUEST" -> "WAIT_ALLOCATION"
    [] i.rcv = "MESSAGE_DELIVERY" /\ i.packet_in[1] = "APP_MAPPING_COMPLETE" -> "RECEIVE_MAPPING_COMPLETE"
    [] OTHER -> i.rcv

\* allocated says that the places of the tasks are no longer needed.
Receiving(i, rx, f, allocated) ==
  CASE i.rcv \in {"HEADER", "PAYLOAD_SIZE", "SERVICE"} -> IF rx /\ i.credit THEN Taken(i, f) ELSE i
    [] i.rcv \in {"DATA_AV", "MESSAGE_REQUEST", "MESSAGE_DELIVERY"} ->
         LET j == IF rx /\ i.credit THEN Taken(i, f) ELSE i
         IN  IF j.flit_counter = j.payload_size THEN [j EXCEPT !.rcv = Complete(j)] ELSE j
    [] i.rcv \in {"WAIT_REQ", "WAIT_DLVR"} -> IF i.send = "FINISHED" THEN [i EXCEPT !.rcv = "HEADER"] ELSE i
    [] i.rcv = "WAIT_ALLOCATION" -> IF allocated THEN [i EXCEPT !.rcv = "HEADER"] ELSE i
    [] i.rcv = "RECEIVE_MAPPING_COMPLETE" -> [i EXCEPT !.packet_in = <<>>, !.rcv = "HEADER"]

\* Fault: no credit for the announcement of the places.
Listens_NotForPlaces(i, always, mapping) == i.send = "WAIT_REQUEST" \/ i.monitor = always

\* The credit of the next cycle.
Listens(i, always, mapping) ==
  \/ i.send = "WAIT_REQUEST"
  \/ i.monitor = always
  \/ i.monitor = mapping /\ i.rcv \notin {"WAIT_REQ", "WAIT_ALLOCATION"}

MAReceive(i, rx, f) ==
  [Receiving(i, rx, f, i.monitor = "BOOT_CONFIRM") EXCEPT !.credit = Listens(i, "BOOT_CONFIRM", "BOOT_MAP")]
AppReceive(i, rx, f) ==
  [Receiving(i, rx, f, i.monitor = "IDLE") EXCEPT !.credit = Listens(i, "IDLE", "MAP")]

-----------------------------------------------------------------------------
Silent ==
  [tick_cnt |-> 0, send |-> "IDLE", rcv |-> "HEADER", packet |-> request_finish, pkt_idx |-> 0, aux_pkt |-> request_finish,
   aux_idx |-> 0, last_state |-> "IDLE", tx |-> FALSE, data_out |-> NoFlit, credit |-> TRUE,
   packet_in |-> <<>>, payload_size |-> 0, flit_counter |-> 0, sent_task |-> 0]

With(others) ==
  [x \in DOMAIN Silent \cup DOMAIN others |-> IF x \in DOMAIN others THEN others[x] ELSE Silent[x]]

InjectorInit(tasks, apps) ==
  /\ inj = [k \in Injectors |->
              IF k = MA THEN With([monitor |-> "BOOT_INIT", tasks |-> tasks])
                        ELSE With([monitor |-> "ACTIVE", apps |-> apps, app |-> apps[1]])]
  /\ order \in Orders

Process(k, p, i, rx, f, credit_in) ==
  CASE k = MA /\ p = "monitor" -> ma_boot(i)
    [] k = MA /\ p = "send"    -> MASend(i, credit_in)
    [] k = MA /\ p = "receive" -> MAReceive(i, rx, f)
    [] k = App /\ p = "monitor" -> monitor_new_app(i)
    [] k = App /\ p = "send"    -> AppSend(i, credit_in)
    [] k = App /\ p = "receive" -> AppReceive(i, rx, f)

\* A rising edge: what the router drives to each injector, and its credit.
InjectorClock(rx, f, credit_in) ==
  LET run(k, p, i) == Process(k, p, i, rx[k], f[k], credit_in[k])
      after(k) == run(k, order[3], run(k, order[2], run(k, order[1], timer(inj[k]))))
  IN  inj' = [MAInjector |-> after(MA), AppInjector |-> after(App)] /\ UNCHANGED order

=============================================================================
