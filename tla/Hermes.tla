------------------------------- MODULE Hermes -------------------------------
(***************************************************************************)
(* The packet network Hermes: in each router five input queues (queue.cpp, *)
(* class fila), a control that connects inputs to outputs                  *)
(* (switchcontrol.cpp), and the crossbar (router_cc.cpp); and the wires    *)
(* between the routers (Memphis.cpp).                                      *)
(*                                                                         *)
(* A packet is a header with the address of its target, a flit with the    *)
(* number of flits that follow, and these.  It holds the ports it crosses  *)
(* until its last flit has left them.                                      *)
(*                                                                         *)
(* HermesClock is a clock cycle of all routers: the methods that run on    *)
(* the rising edge read what was there before it, those of the falling     *)
(* edge read what the rising edge left.                                    *)
(***************************************************************************)
EXTENDS Integers, Sequences, FiniteSets, FiniteSetsExt

CONSTANTS
  XCnt, YCnt,   \* dimensions of the mesh
  BUFFER_TAM,   \* places of a queue
  NoPacket      \* stands for a packet where there is none

Routers == (0 .. XCnt - 1) \X (0 .. YCnt - 1)

EAST == 0
WEST == 1
NORTH == 2
SOUTH == 3
LOCAL_PORT == 4
NPORT == 5
Ports == 0 .. NPORT - 1

ASSUME MeshAssumption == XCnt \in Nat \ {0} /\ YCnt \in Nat \ {0} /\ BUFFER_TAM \in Nat \ 0 .. 3

VARIABLES
  fila,   \* the input queues of each router
  switch  \* the control of each router, with its crossbar

hermesVars == <<fila, switch>>

-----------------------------------------------------------------------------
(* Flits.  A packet is a record with target, io and size, the number of    *)
(* its flits after the first two; io is the port of the target's router    *)
(* the packet leaves the mesh by, LOCAL_PORT when it stays.                *)

NoFlit == <<NoPacket, 0>>
Flits(p) == [i \in 1 .. p.size + 2 |-> <<p, i - 1>>]

\* What a flit is read as where a number of flits is expected: the second flit is
\* that number, any other stands for some word.
AsCount(f) == IF f[2] = 1 THEN f[1].size ELSE 0

-----------------------------------------------------------------------------
(* Queues.                                                                 *)

After(k) == (k + 1) % BUFFER_TAM
HeadFlit(q) == q.buffer[q.first]

EmptyQueue ==
  [buffer |-> [k \in 0 .. BUFFER_TAM - 1 |-> NoFlit], first |-> 0, last |-> 0, credit |-> TRUE,
   ea |-> "INIT", h |-> FALSE, data_av |-> FALSE, sender |-> FALSE, counter |-> 0]

\* Fault: the turn of the indexes is not seen.
AlmostFull_NoTurn(q) == q.first = q.last + 2 \/ q.first = q.last + 1

\* The indexes have four bits, so that last + 1 and last + 2 do not wrap at BUFFER_TAM.
AlmostFull(q) ==
  \/ q.first = 0 /\ q.last = BUFFER_TAM - 2
  \/ q.first = q.last + 2
  \/ q.first = q.last + 1
AlmostEmpty(q) == q.last - q.first = 2 \/ q.first - q.last = BUFFER_TAM - 2

in_proc_FSM(q) == IF AlmostFull(q) THEN FALSE ELSE q.credit \/ AlmostEmpty(q)

in_proc_updPtr(q, rx, f) ==
  IF rx /\ q.credit THEN [q EXCEPT !.buffer[q.last] = f, !.last = After(q.last)] ELSE q

Pop(q) == [q EXCEPT !.first = After(q.first), !.data_av = After(q.first) # q.last]

out_proc_FSM(q, ack_h, data_ack) ==
  CASE q.ea = "INIT" ->
         IF q.first # q.last
           THEN [q EXCEPT !.counter = 0, !.data_av = FALSE, !.h = TRUE, !.ea = "HEADER"]
           ELSE [q EXCEPT !.counter = 0, !.data_av = FALSE, !.h = FALSE]
    [] q.ea = "HEADER" ->
         IF ack_h THEN [q EXCEPT !.ea = "SENDHEADER", !.h = FALSE, !.data_av = TRUE, !.sender = TRUE]
                  ELSE q
    [] q.ea = "SENDHEADER" -> IF data_ack THEN [Pop(q) EXCEPT !.ea = "PAYLOAD"] ELSE q
    [] q.ea = "PAYLOAD" ->
         IF ~data_ack THEN [q EXCEPT !.data_av = q.data_av \/ q.first # q.last]
         ELSE IF q.counter = 1
           THEN [Pop(q) EXCEPT !.data_av = FALSE, !.sender = FALSE, !.ea = "END"]
           ELSE [Pop(q) EXCEPT !.counter = IF q.counter = 0 THEN AsCount(HeadFlit(q)) ELSE q.counter - 1]
    [] q.ea = "END" -> [q EXCEPT !.data_av = FALSE, !.ea = "END2"]
    [] q.ea = "END2" -> [q EXCEPT !.data_av = FALSE, !.ea = "INIT"]

QueueEdge(q, ack_h, data_ack) == [out_proc_FSM(q, ack_h, data_ack) EXCEPT !.credit = in_proc_FSM(q)]

-----------------------------------------------------------------------------
(* The control of a router.  ack is the set of inputs with ack_h raised.   *)

ResetSwitch ==
  [ea |-> "S1", sel |-> EAST, ack |-> {}, free |-> [p \in Ports |-> TRUE],
   mux_in |-> [p \in Ports |-> EAST], mux_out |-> [p \in Ports |-> EAST],
   sender_ant |-> [p \in Ports |-> FALSE], tx |-> [p \in Ports |-> FALSE]]

\* Fault: the search for the next input does not get to the last one.
prox_NotTheLast(sel, qs) ==
  LET ahead == {d \in 1 .. NPORT - 2 : qs[(sel + d) % NPORT].h}
  IN  IF ahead = {} THEN sel ELSE (sel + Min(ahead)) % NPORT

\* The next input in turn that asks for an output; the selected one if no other does.
prox(sel, qs) ==
  LET ahead == {d \in 1 .. NPORT - 1 : qs[(sel + d) % NPORT].h}
  IN  IF ahead = {} THEN sel ELSE (sel + Min(ahead)) % NPORT

dirx(r, p) == IF r[1] > p.target[1] \/ p.io = WEST THEN WEST ELSE EAST
diry(r, p) == IF r[2] < p.target[2] \/ p.io = NORTH THEN NORTH ELSE SOUTH

\* The state after S3: which kind of output the selected packet gets, if it is free.
Routed(r, s, p) ==
  CASE r = p.target /\ p.io # LOCAL_PORT ->
         IF p.io \in {EAST, WEST} /\ s.free[dirx(r, p)] THEN "S5"
         ELSE IF p.io \in {NORTH, SOUTH} /\ s.free[diry(r, p)] THEN "S6" ELSE "S1"
    [] r = p.target /\ p.io = LOCAL_PORT -> IF s.free[LOCAL_PORT] THEN "S4" ELSE "S1"
    [] r[1] # p.target[1] -> IF s.free[dirx(r, p)] THEN "S5" ELSE "S1"
    [] OTHER -> IF s.free[diry(r, p)] THEN "S6" ELSE "S1"

controle_comb(r, s, qs) ==
  CASE s.ea = "S1" -> IF \E p \in Ports : qs[p].h THEN "S2" ELSE "S1"
    [] s.ea = "S2" -> "S3"
    [] s.ea = "S3" -> Routed(r, s, HeadFlit(qs[s.sel])[1])
    [] s.ea \in {"S4", "S5", "S6"} -> "S7"
    [] s.ea = "S7" -> "S1"

\* Fault: the output is not taken.
Connect_NotTaken(s, out) ==
  [s EXCEPT !.mux_in[s.sel] = out, !.mux_out[out] = s.sel, !.ack = s.ack \cup {s.sel}]

Connect(s, out) ==
  [s EXCEPT !.mux_in[s.sel] = out, !.mux_out[out] = s.sel, !.free[out] = FALSE, !.ack = s.ack \cup {s.sel}]

\* An input whose packet has ended frees the output it was connected to.
Release(s, t, qs) ==
  LET ended == {s.mux_in[p] : p \in {q \in Ports : s.sender_ant[q] /\ ~qs[q].sender}}
  IN  [t EXCEPT !.free = [p \in Ports |-> t.free[p] \/ p \in ended],
                !.sender_ant = [p \in Ports |-> qs[p].sender]]

controle_sequ(r, s, qs) ==
  LET p == HeadFlit(qs[s.sel])[1]
  IN  Release(s,
        CASE s.ea = "S1" -> [s EXCEPT !.ack = {}]
          [] s.ea = "S2" -> [s EXCEPT !.sel = prox(s.sel, qs)]
          [] s.ea = "S4" -> Connect(s, LOCAL_PORT)
          [] s.ea = "S5" -> Connect(s, dirx(r, p))
          [] s.ea = "S6" -> Connect(s, diry(r, p))
          [] OTHER -> [s EXCEPT !.ack = s.ack \ {s.sel}],
        qs)

-----------------------------------------------------------------------------
(* The crossbar.  An output that is free keeps the value it had.           *)

upd_tx(s, qs) ==
  [o \in Ports |-> IF s.mux_out[o] = o THEN FALSE
                   ELSE IF s.free[o] THEN s.tx[o] ELSE qs[s.mux_out[o]].data_av]

data_out(s, qs, o) == HeadFlit(qs[s.mux_out[o]])

upd_dataack(s, q, p, creditIn) == q.data_av /\ s.mux_in[p] # p /\ creditIn[s.mux_in[p]]

-----------------------------------------------------------------------------
(* The wires between routers.                                              *)

Opposite(p) == CASE p = EAST -> WEST [] p = WEST -> EAST [] p = NORTH -> SOUTH [] p = SOUTH -> NORTH

Neighbour(r, p) ==
  CASE p = EAST  -> <<r[1] + 1, r[2]>>
    [] p = WEST  -> <<r[1] - 1, r[2]>>
    [] p = NORTH -> <<r[1], r[2] + 1>>
    [] p = SOUTH -> <<r[1], r[2] - 1>>
    [] p = LOCAL_PORT -> r

IsLink(r, p) == p # LOCAL_PORT /\ Neighbour(r, p) \in Routers

\* The credit of the receiver at each output of a router; outer[r][p] where the port
\* does not lead to another router.
CreditIn(r, outer) ==
  [p \in Ports |-> IF IsLink(r, p) THEN fila[Neighbour(r, p)][Opposite(p)].credit ELSE outer[r][p]]

-----------------------------------------------------------------------------
HermesInit ==
  /\ fila = [r \in Routers |-> [p \in Ports |-> EmptyQueue]]
  /\ switch = [r \in Routers |-> ResetSwitch]

\* The rising edge of the queues and of the control of a router.
QueuesUp(r, outer) ==
  LET credit == CreditIn(r, outer)
  IN  [p \in Ports |-> QueueEdge(fila[r][p], p \in switch[r].ack,
                                 upd_dataack(switch[r], fila[r][p], p, credit))]

SwitchUp(r, qs) == LET s == controle_sequ(r, switch[r], fila[r]) IN [s EXCEPT !.tx = upd_tx(s, qs)]

\* A cycle.  outer is the credit at the ports that lead to no router, before the cycle,
\* sent what their transmitters drive in it: whether there is a flit, and the flit.
HermesClock(outer, sent) ==
  LET up == [r \in Routers |-> QueuesUp(r, outer)]
      sw == [r \in Routers |-> SwitchUp(r, up[r])]
      wire(r, p) == IF ~IsLink(r, p) THEN sent[r][p]
                    ELSE LET n == Neighbour(r, p)
                             o == Opposite(p)
                         IN  <<sw[n].tx[o], data_out(sw[n], up[n], o)>>
  IN  /\ fila' = [r \in Routers |-> [p \in Ports |->
                    LET w == wire(r, p) IN in_proc_updPtr(up[r][p], w[1], w[2])]]
      /\ switch' = [r \in Routers |-> [sw[r] EXCEPT !.ea = controle_comb(r, sw[r], up[r])]]

=============================================================================
