------------------------------- MODULE BrLite -------------------------------
(***************************************************************************)
(* The broadcast network BrLite (BrLiteRouter.cpp) with the processor side *)
(* of its local ports (BrLiteControl.cpp, BrLiteBuffer.cpp).               *)
(*                                                                         *)
(* A message floods the mesh: a router keeps it in its table (the CAM),    *)
(* forwards it to every port but the one it came from, and ignores the     *)
(* copies that come later.  CLEAR_INTERVAL cycles after the message left,  *)
(* its source floods a CLEAR that erases it from the tables.               *)
(*                                                                         *)
(* All routers share one clock.  The three methods of a router run on its  *)
(* rising edge and read what the others wrote before the edge, so that a   *)
(* cycle of the whole network is one step, Tick.                           *)
(***************************************************************************)
EXTENDS Integers, FiniteSets, Sequences, SequencesExt, FiniteSetsExt

CONSTANTS
  XCnt, YCnt,      \* dimensions of the mesh
  CAM_SIZE,        \* lines of a table
  CLEAR_INTERVAL,  \* cycles between a message and its CLEAR
  ID_CNT,          \* identifiers of the messages of a source, 31 in the code
  BUFFER_SIZE,     \* messages the buffer of a processor holds
  Outgoing,        \* for each router, the sequence of messages its kernel sends
  Poppers,         \* routers whose kernel reads its buffer
  Prompt           \* routers whose kernel sends as soon as it can

Routers == (0 .. XCnt - 1) \X (0 .. YCnt - 1)

EAST == 0
WEST == 1
NORTH == 2
SOUTH == 3
LOCAL_PORT == 4
NPORT == 5
MeshPorts == {EAST, WEST, NORTH, SOUTH}
Ports == MeshPorts \cup {LOCAL_PORT}
Lines == 0 .. CAM_SIZE - 1

\* The services below TARGET, of the monitors, are routed as TARGET is.
Services == {"TARGET", "ALL", "CLEAR"}

\* A message: its source, the rank of the message among those of the source, its
\* service and its target.  The network sees the rank modulo ID_CNT.
Messages == [src : Routers, rank : Nat, svc : Services, target : Routers]

ASSUME NetworkAssumption ==
  /\ XCnt \in Nat \ {0} /\ YCnt \in Nat \ {0} /\ CAM_SIZE \in Nat \ {0}
  /\ CLEAR_INTERVAL \in Nat /\ ID_CNT \in Nat \ {0} /\ BUFFER_SIZE \in Nat
  /\ Poppers \subseteq Routers /\ Prompt \subseteq Routers
  /\ \A r \in Routers : Outgoing[r] \in Seq([svc : {"TARGET", "ALL"}, target : Routers])

VARIABLES
  inp,   \* registers of the method input of each router
  outp,  \* registers of the method output
  tab,   \* registers of the method input_output, with the table
  ctl,   \* whether BrLiteControl requests to send the last message of the kernel
  sent,  \* number of messages the kernel of each router has sent
  buf,   \* BrLiteBuffer: its acknowledge and the number of messages it holds
  got    \* all the messages each buffer has taken, in order

vars == <<inp, outp, tab, ctl, sent, buf, got>>

NoMsg == [src |-> <<0, 0>>, rank |-> 0, svc |-> "CLEAR", target |-> <<0, 0>>]
FreeLine == [used |-> FALSE, pending |-> FALSE, origin |-> LOCAL_PORT, msg |-> NoMsg]
SameId(m, n) == m.src = n.src /\ m.rank % ID_CNT = n.rank % ID_CNT
AsClear(line) == [line EXCEPT !.msg.svc = "CLEAR", !.pending = TRUE]

\* The first of the n ports or lines after k, in a circle, that is in S; k if none is.
Turn(S, k, n) ==
  LET ahead == {d \in 1 .. n - 1 : (k + d) % n \in S}
  IN  IF ahead = {} THEN k ELSE (k + Min(ahead)) % n

-----------------------------------------------------------------------------
(* Wires (Memphis::br_interconnection and the local port of PE).           *)

Opposite(p) == CASE p = EAST -> WEST [] p = WEST -> EAST [] p = NORTH -> SOUTH [] p = SOUTH -> NORTH

Neighbour(r, p) ==
  CASE p = EAST  -> <<r[1] + 1, r[2]>>
    [] p = WEST  -> <<r[1] - 1, r[2]>>
    [] p = NORTH -> <<r[1], r[2] + 1>>
    [] p = SOUTH -> <<r[1], r[2] - 1>>

Linked(r, p) == p \in MeshPorts /\ Neighbour(r, p) \in Routers

ReqIn(r, p) ==
  \/ Linked(r, p) /\ Opposite(p) \in outp[Neighbour(r, p)].req
  \/ p = LOCAL_PORT /\ ctl[r]

\* Message number rank of router r, as its kernel writes it in BrLiteControl.
Message(r, rank) ==
  [src |-> r, rank |-> rank, svc |-> Outgoing[r][rank + 1].svc,
   target |-> Outgoing[r][rank + 1].target]

DataIn(r, p) == IF p = LOCAL_PORT THEN Message(r, sent[r] - 1) ELSE outp[Neighbour(r, p)].flit

\* At the border of the mesh the acknowledge is tied to one.
AckIn(r, p) ==
  \/ Linked(r, p) /\ Opposite(p) \in inp[Neighbour(r, p)].ack
  \/ p \in MeshPorts /\ ~Linked(r, p)
  \/ p = LOCAL_PORT /\ buf[r].ack

-----------------------------------------------------------------------------
(* BrLiteRouter::input                                                     *)

TestSpace_Duplicates(r) ==
  LET s == inp[r]
      cam == tab[r].cam
      m == DataIn(r, s.port)
      found == {i \in Lines : cam[i].used /\ cam[i].pending /\ SameId(cam[i].msg, m)}
      unused == {i \in Lines : ~cam[i].used}
      ignored == [s EXCEPT !.state = "WAIT_REQ_DOWN", !.ack = @ \cup {s.port}]
  IN  IF found = {} /\ m.svc # "CLEAR"
      THEN IF unused = {} THEN [s EXCEPT !.state = "INIT"]
           ELSE [s EXCEPT !.state = "WRITE", !.free_idx = Min(unused)]
      ELSE ignored

\* IN_TEST_SPACE: a new message is written if there is a free line, and tried again
\* later if there is none; a CLEAR of a message that is not pending is taken; anything
\* else is acknowledged and ignored.
TestSpace(r) ==
  LET s == inp[r]
      cam == tab[r].cam
      m == DataIn(r, s.port)
      found == {i \in Lines : cam[i].used /\ SameId(cam[i].msg, m)}
      unused == {i \in Lines : ~cam[i].used}
      ignored == [s EXCEPT !.state = "WAIT_REQ_DOWN", !.ack = @ \cup {s.port}]
  IN  IF found = {}
      THEN IF m.svc = "CLEAR" THEN ignored
           ELSE IF unused = {} THEN [s EXCEPT !.state = "INIT"]
           ELSE [s EXCEPT !.state = "WRITE", !.free_idx = Min(unused)]
      ELSE LET known == [s EXCEPT !.source_idx = Min(found)]
           IN  IF m.svc = "CLEAR" /\ ~cam[Min(found)].pending
               THEN [known EXCEPT !.state = "CLEAR"]
               ELSE [ignored EXCEPT !.source_idx = Min(found)]

Input(r) ==
  LET s == inp[r]
      reqs == {p \in Ports : ReqIn(r, p)}
  IN  CASE s.state = "INIT" ->
             IF ~tab[r].clear_local /\ reqs # {} THEN [s EXCEPT !.state = "ARBITRATION"] ELSE s
        [] s.state = "ARBITRATION" ->
             [s EXCEPT !.port = Turn(reqs, s.port, NPORT), !.state = "TEST_SPACE"]
        [] s.state = "TEST_SPACE" -> TestSpace(r)
        [] s.state \in {"WRITE", "CLEAR"} ->
             [s EXCEPT !.ack = @ \cup {s.port}, !.state = "WAIT_REQ_DOWN"]
        [] s.state = "WAIT_REQ_DOWN" ->
             IF s.port \in reqs THEN s
             ELSE [s EXCEPT !.ack = @ \ {s.port}, !.state = "INIT"]

-----------------------------------------------------------------------------
(* BrLiteRouter::output                                                    *)

Pending(r) == {i \in Lines : tab[r].cam[i].used /\ tab[r].cam[i].pending}

\* The ports a line is sent to; the others count as acknowledged.
Propagated(r, line) ==
  (MeshPorts \ {line.origin}) \cup
  (IF line.msg.svc = "ALL" /\ line.msg.src # r THEN {LOCAL_PORT} ELSE {})

TestSvc_AtSource(r) ==
  LET s == outp[r]
      line == tab[r].cam[s.line]
      dest == Propagated(r, line)
  IN  IF line.msg.svc = "TARGET" /\ line.msg.src = r
      THEN [s EXCEPT !.req = @ \cup {LOCAL_PORT}, !.flit = line.msg, !.state = "SEND_LOCAL"]
      ELSE [s EXCEPT !.req = @ \cup dest, !.flit = line.msg,
                     !.ack_ports = @ \cup (Ports \ dest), !.state = "WAIT_ACK_PORTS"]

\* OUT_TEST_SVC: a message for this processor stops here, others go on.
TestSvc(r) ==
  LET s == outp[r]
      line == tab[r].cam[s.line]
      dest == Propagated(r, line)
  IN  IF line.msg.svc = "TARGET" /\ line.msg.target = r
      THEN [s EXCEPT !.req = @ \cup {LOCAL_PORT}, !.flit = line.msg, !.state = "SEND_LOCAL"]
      ELSE [s EXCEPT !.req = @ \cup dest, !.flit = line.msg,
                     !.ack_ports = @ \cup (Ports \ dest), !.state = "WAIT_ACK_PORTS"]

WaitAckPorts_ClearKept(r) ==
  LET s == outp[r]
      new == {p \in Ports \ s.ack_ports : AckIn(r, p)}
  IN  IF s.ack_ports \cup new = Ports
      THEN [s EXCEPT !.ack_ports = {}, !.req = @ \ new, !.state = "INIT"]
      ELSE [s EXCEPT !.ack_ports = @ \cup new, !.req = @ \ new]

\* OUT_WAIT_ACK_PORTS: the table decides what comes next, not the message sent.
WaitAckPorts(r) ==
  LET s == outp[r]
      new == {p \in Ports \ s.ack_ports : AckIn(r, p)}
  IN  IF s.ack_ports \cup new = Ports
      THEN [s EXCEPT !.ack_ports = {}, !.req = @ \ new,
                     !.state = IF tab[r].cam[s.line].msg.svc = "CLEAR"
                               THEN "CLEAR_TABLE" ELSE "INIT"]
      ELSE [s EXCEPT !.ack_ports = @ \cup new, !.req = @ \ new]

Output(r) ==
  LET s == outp[r]
  IN  CASE s.state = "INIT" ->
             IF ~tab[r].clear_local /\ Pending(r) # {} THEN [s EXCEPT !.state = "ARBITRATION"]
             ELSE s
        [] s.state = "ARBITRATION" ->
             [s EXCEPT !.line = Turn(Pending(r), s.line, CAM_SIZE), !.state = "TEST_SVC"]
        [] s.state = "TEST_SVC" -> TestSvc(r)
        [] s.state = "SEND_LOCAL" ->
             IF AckIn(r, LOCAL_PORT)
             THEN [s EXCEPT !.req = @ \ {LOCAL_PORT}, !.state = "WAIT_ACK_DOWN"] ELSE s
        [] s.state = "WAIT_ACK_PORTS" -> WaitAckPorts(r)
        [] s.state = "WAIT_ACK_DOWN" ->
             IF AckIn(r, LOCAL_PORT) THEN s ELSE [s EXCEPT !.state = "INIT"]
        [] s.state = "CLEAR_TABLE" -> [s EXCEPT !.state = "INIT"]

-----------------------------------------------------------------------------
(* BrLiteRouter::input_output                                              *)

\* The clear of the local message waits until both sides of the router rest.
Triggered(r) == tab[r].clear_local /\ inp[r].state = "INIT" /\ outp[r].state = "INIT"

Expired_Inverted(r) == tab[r].wrote_local /\ tab[r].age + 1 < CLEAR_INTERVAL

\* The counter age is current_tick - wrote_tick.
Expired(r) == tab[r].wrote_local /\ tab[r].age + 1 >= CLEAR_INTERVAL

WrittenLocal(r) == inp[r].state = "WRITE" /\ inp[r].port = LOCAL_PORT

\* The table.  The fields of a line that is not used are not read.
Cam(r) ==
  LET t == tab[r]
      s == inp[r]
      line(i) ==
        CASE Triggered(r) /\ i = t.wrote_idx -> AsClear(t.cam[i])
          [] s.state = "WRITE" /\ i = s.free_idx ->
               [used |-> TRUE, pending |-> TRUE, origin |-> s.port, msg |-> DataIn(r, s.port)]
          [] s.state = "CLEAR" /\ i = s.source_idx
               /\ t.cam[i].msg.svc # "CLEAR" /\ ~t.cam[i].pending -> AsClear(t.cam[i])
          [] outp[r].state = "TEST_SVC" /\ i = outp[r].line -> [t.cam[i] EXCEPT !.pending = FALSE]
          [] outp[r].state = "CLEAR_TABLE" /\ i = outp[r].line -> FreeLine
          [] OTHER -> t.cam[i]
  IN  [i \in Lines |-> line(i)]

InputOutput(r) ==
  LET t == tab[r]
  IN  [cam         |-> Cam(r),
       clear_local |-> Expired(r) \/ (t.clear_local /\ ~Triggered(r)),
       wrote_local |-> WrittenLocal(r) \/ (t.wrote_local /\ ~Expired(r)),
       local_busy  |-> WrittenLocal(r) \/ (t.local_busy /\ ~Triggered(r)),
       wrote_idx   |-> IF WrittenLocal(r) THEN inp[r].free_idx ELSE t.wrote_idx,
       age         |-> IF t.wrote_local /\ ~Expired(r) THEN t.age + 1 ELSE 0]

-----------------------------------------------------------------------------
(* The local port: BrLiteBuffer and BrLiteControl.                         *)

Pops(r, popping) == r \in popping /\ buf[r].stored > 0

\* A pop has priority over a message that arrives.
Taken(r, popping) ==
  /\ ~Pops(r, popping)
  /\ LOCAL_PORT \in outp[r].req /\ buf[r].stored < BUFFER_SIZE /\ ~buf[r].ack

Buffer_AckUntilRead(r, popping) ==
  [ack    |-> Taken(r, popping) \/ (buf[r].ack /\ buf[r].stored > 0),
   stored |-> IF Pops(r, popping) THEN buf[r].stored - 1
              ELSE IF Taken(r, popping) THEN buf[r].stored + 1 ELSE buf[r].stored]

Buffer(r, popping) ==
  [ack    |-> LOCAL_PORT \in outp[r].req /\ (buf[r].ack \/ Taken(r, popping)),
   stored |-> IF Pops(r, popping) THEN buf[r].stored - 1
              ELSE IF Taken(r, popping) THEN buf[r].stored + 1 ELSE buf[r].stored]

\* The request of BrLiteControl falls with the acknowledge of the router, at once.
Control(r, input) == ctl[r] /\ LOCAL_PORT \notin input.ack

Tick(popping) ==
  /\ inp' = [r \in Routers |-> Input(r)]
  /\ outp' = [r \in Routers |-> Output(r)]
  /\ tab' = [r \in Routers |-> InputOutput(r)]
  /\ ctl' = [r \in Routers |-> Control(r, inp'[r])]
  /\ buf' = [r \in Routers |-> Buffer(r, popping)]
  /\ got' = [r \in Routers |->
               IF Taken(r, popping) THEN Append(got[r], outp[r].flit) ELSE got[r]]
  /\ UNCHANGED sent

Busy_RequestOnly(r) == ctl[r]

\* BR_LOCAL_BUSY, which the kernel reads before it sends.
Busy(r) == tab[r].local_busy \/ ctl[r]

CanSend(r) == sent[r] < Len(Outgoing[r]) /\ ~Busy(r)

\* The kernel of r sends its next message, between two cycles.
Send(r) ==
  /\ CanSend(r)
  /\ ctl' = [ctl EXCEPT ![r] = TRUE]
  /\ sent' = [sent EXCEPT ![r] = @ + 1]
  /\ UNCHANGED <<inp, outp, tab, buf, got>>

Init ==
  /\ inp = [r \in Routers |-> [state |-> "INIT", port |-> LOCAL_PORT, source_idx |-> 0,
                               free_idx |-> 0, ack |-> {}]]
  /\ outp = [r \in Routers |-> [state |-> "INIT", line |-> CAM_SIZE - 1, ack_ports |-> {},
                                req |-> {}, flit |-> NoMsg]]
  /\ tab = [r \in Routers |-> [cam |-> [i \in Lines |-> FreeLine], clear_local |-> FALSE,
                               wrote_local |-> FALSE, local_busy |-> FALSE,
                               wrote_idx |-> 0, age |-> 0]]
  /\ ctl = [r \in Routers |-> FALSE]
  /\ sent = [r \in Routers |-> 0]
  /\ buf = [r \in Routers |-> [ack |-> FALSE, stored |-> 0]]
  /\ got = [r \in Routers |-> <<>>]

Cycle ==
  /\ \A r \in Prompt : ~CanSend(r)
  /\ \E popping \in SUBSET Poppers : Tick(popping)

Next == Cycle \/ \E r \in Routers : Send(r)

Spec == Init /\ [][Next]_vars

\* The clock runs, and every kernel sends its messages when the network lets it.
FairSpec == Spec /\ WF_vars(Cycle) /\ \A r \in Routers : WF_vars(Send(r))

-----------------------------------------------------------------------------
(* Properties.                                                             *)

TypeOK ==
  /\ \A r \in Routers :
       /\ ctl[r] \in BOOLEAN
       /\ inp[r].state \in {"INIT", "ARBITRATION", "TEST_SPACE", "WRITE", "CLEAR",
                            "WAIT_REQ_DOWN"}
       /\ outp[r].state \in {"INIT", "ARBITRATION", "TEST_SVC", "WAIT_ACK_PORTS",
                             "CLEAR_TABLE", "SEND_LOCAL", "WAIT_ACK_DOWN"}
       /\ inp[r].ack \subseteq Ports /\ outp[r].req \subseteq Ports
       /\ outp[r].ack_ports \subseteq Ports /\ outp[r].flit \in Messages
       /\ \A i \in Lines : tab[r].cam[i].msg \in Messages /\ tab[r].cam[i].origin \in Ports
       /\ buf[r].stored \in 0 .. BUFFER_SIZE
       /\ sent[r] \in 0 .. Len(Outgoing[r])

\* The destinations of message number rank of router r.
Dest(r, rank) ==
  LET m == Outgoing[r][rank + 1]
  IN  IF m.svc = "ALL" THEN Routers \ {r} ELSE {m.target}

\* The network is a broadcast network: it delivers only what was sent, to those it is
\* addressed to, and to each of them once, although copies of a message reach a router
\* from several sides and its table forgets the message after the CLEAR.
heard == [r \in Routers |-> [i \in 1 .. Len(got[r]) |-> <<got[r][i].src, got[r][i].rank>>]]
Abstract == INSTANCE Broadcast WITH Nodes <- Routers, MessagesOf <- Outgoing
ImplementsBroadcast == Abstract!Spec

\* A request rises on a wire only when the acknowledge of the previous one is down:
\* the output side leaves OUT_WAIT_ACK_PORTS without waiting for that, and would take
\* an old acknowledge for a new one.
FreshHandshakes ==
  [][\A r \in Routers, p \in Ports :
       Linked(r, p) \/ p = LOCAL_PORT =>
         (p \in outp'[r].req /\ p \notin outp[r].req => ~AckIn(r, p)')]_vars

\* A message that the local kernel sent and did not see cleared is in the table of its
\* router, on the line that the CLEAR will mark.
ClearFindsItsLine ==
  \A r \in Routers :
    tab[r].wrote_local \/ tab[r].clear_local =>
      /\ tab[r].local_busy
      /\ tab[r].cam[tab[r].wrote_idx].used
      /\ tab[r].cam[tab[r].wrote_idx].msg.src = r

SameMessage(m, n) == m.src = n.src /\ m.rank = n.rank
Remembered(r, m) == \E i \in Lines : tab[r].cam[i].used /\ SameMessage(tab[r].cam[i].msg, m)

\* The routers that have still to send message m, and those that are sent it.
Senders(m) ==
  {r \in Routers : \E i \in Lines :
     tab[r].cam[i].used /\ tab[r].cam[i].pending /\ tab[r].cam[i].msg = m}
Receivers(m) ==
  {r \in Routers : \E p \in Ports \ inp[r].ack : Linked(r, p) /\ ReqIn(r, p) /\ DataIn(r, p) = m}

\* A message does not outlive its clear: when a router erases its line of a message, no
\* router has still to send the message, and it is only sent to others that have it.  This
\* is what the interval between the two is for, and nothing else ensures it.
ClearsComeLast ==
  \A r \in Routers :
    LET c == tab[r].cam[outp[r].line].msg
        m == Message(c.src, c.rank)
    IN  outp[r].state = "CLEAR_TABLE" =>
          Senders(m) = {} /\ \A n \in Receivers(m) : n # r /\ Remembered(n, m)

AllHeard ==
  \A r \in Routers : \A k \in 0 .. Len(Outgoing[r]) - 1 : \A d \in Dest(r, k) :
    \E i \in 1 .. Len(got[d]) : got[d][i].src = r /\ got[d][i].rank = k

\* Every message of every kernel reaches all its destinations: no kernel waits for
\* ever to send, no copy is dropped before a neighbour has it, and the routers do not
\* wait for each other.
EveryMessageHeard == <>AllHeard

\* In the end every table is empty: a line that is never cleared would make its router
\* ignore the message of the same source that gets the same identifier later.
TablesEmptied == <>[](\A r \in Routers : \A i \in Lines : ~tab[r].cam[i].used)
=============================================================================
