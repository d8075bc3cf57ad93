--------------------------- MODULE HermesInvariant ---------------------------
(***************************************************************************)
(* The inductive invariant of the routers, whatever is connected to them.  *)
(***************************************************************************)
EXTENDS Hermes

Slots == 0 .. BUFFER_TAM - 1
QueueStates == {"INIT", "HEADER", "SENDHEADER", "PAYLOAD", "END", "END2"}
SwitchStates == {"S1", "S2", "S3", "S4", "S5", "S6", "S7"}

QueueType(q) ==
  /\ q \in [buffer : {q.buffer}, first : Slots, last : Slots, credit : BOOLEAN,
            ea : QueueStates, h : BOOLEAN, data_av : BOOLEAN, sender : BOOLEAN,
            counter : {q.counter}]
  /\ DOMAIN q.buffer = Slots

\* A queue that asks for an output, or offers a flit, has one.  The one case of a queue
\* almost full that AlmostFull does not tell is never reached.
QueueInv(q) ==
  /\ QueueType(q)
  /\ ~(q.first = 0 /\ q.last = BUFFER_TAM - 1)
  /\ q.data_av \/ q.ea = "HEADER" => q.first # q.last
  /\ q.ea = "SENDHEADER" => q.data_av
  /\ q.h <=> q.ea = "HEADER"
  /\ q.sender <=> q.ea \in {"SENDHEADER", "PAYLOAD"}

SwitchType(s) ==
  s \in [ea : SwitchStates, sel : Ports, ack : SUBSET Ports, free : [Ports -> BOOLEAN],
         mux_in : [Ports -> Ports], mux_out : [Ports -> Ports],
         sender_ant : [Ports -> BOOLEAN], tx : {s.tx}]

\* The output the selected packet is about to be given.
Chosen(r, s, qs) ==
  CASE s.ea = "S4" -> LOCAL_PORT
    [] s.ea = "S5" -> dirx(r, HeadFlit(qs[s.sel])[1])
    [] OTHER -> diry(r, HeadFlit(qs[s.sel])[1])

\* An input holds an output from the acknowledgement of its header until the control has
\* seen that its packet has ended.
Holding(s, qs, p) == p \in s.ack \/ qs[p].sender \/ s.sender_ant[p]
Held(s, p) == s.mux_out[s.mux_in[p]] = p /\ ~s.free[s.mux_in[p]]

SwitchInv(r, s, qs) ==
  /\ SwitchType(s)
  /\ s.ack = IF s.ea = "S7" THEN {s.sel} ELSE {}
  /\ s.ea = "S2" => \E p \in Ports : qs[p].h
  /\ s.ea \in {"S3", "S4", "S5", "S6", "S7"} => qs[s.sel].ea = "HEADER"
  /\ s.ea \in {"S4", "S5", "S6"} => s.free[Chosen(r, s, qs)]
  /\ \A p \in Ports : s.sender_ant[p] /\ ~qs[p].sender => qs[p].ea = "END"
  /\ \A p \in Ports : Holding(s, qs, p) => Held(s, p)

HermesInv ==
  /\ fila = [r \in Routers |-> [p \in Ports |-> fila[r][p]]]
  /\ switch = [r \in Routers |-> switch[r]]
  /\ \A r \in Routers : (\A p \in Ports : QueueInv(fila[r][p])) /\ SwitchInv(r, switch[r], fila[r])

-----------------------------------------------------------------------------
(* Packets go through whole, if those that come in at the outer ports do.  *)
(* P are the packets there are.                                            *)

ArePackets(P) == \A p \in P : p # NoPacket /\ p.size \in Nat \ {0}

IsFlit(f, P) == f \in P \X Nat /\ f[2] <= f[1].size + 1
Ends(f) == f = NoFlit \/ f[2] = f[1].size + 1
Follows(f, g) == IF Ends(f) THEN g[2] = 0 ELSE g = <<f[1], f[2] + 1>>

\* A place keeps its flit when it is given free, and no queue is filled to the last place:
\* the flit that has left last is still there, and so is the one that came last.
Before(k) == IF k = 0 THEN BUFFER_TAM - 1 ELSE k - 1
LastIn(q) == q.buffer[Before(q.last)]
LastOut(q) == q.buffer[Before(q.first)]
InQueue(q, k) ==
  IF q.first <= q.last THEN q.first <= k /\ k < q.last ELSE q.first <= k \/ k < q.last

\* The flits of a queue follow one another, and the one that left last; counter is what is
\* left of the packet that goes through.
QueueFlow(q, P) ==
  /\ \A k \in Slots : q.buffer[k] = NoFlit \/ IsFlit(q.buffer[k], P)
  /\ \A k \in Slots :
       InQueue(q, k) => IsFlit(q.buffer[k], P) /\ Follows(q.buffer[Before(k)], q.buffer[k])
  /\ q.data_av => q.ea \in {"SENDHEADER", "PAYLOAD"}
  /\ q.ea # "PAYLOAD" => Ends(LastOut(q))
  /\ q.ea \in {"HEADER", "SENDHEADER"} => q.counter = 0
  /\ q.ea = "PAYLOAD" =>
       /\ IsFlit(LastOut(q), P) /\ q.counter \in Nat
       /\ IF q.counter = 0 THEN LastOut(q)[2] = 0
          ELSE LastOut(q)[2] # 0 /\ LastOut(q)[2] + q.counter = LastOut(q)[1].size + 1

\* An output that is not free is held by the input it is connected to.
SwitchFlow(s, qs) ==
  \A o \in Ports :
    LET p == s.mux_out[o]
    IN  /\ ~s.free[o] => Holding(s, qs, p) /\ s.mux_in[p] = o
        /\ s.tx[o] = (~s.free[o] /\ p # o /\ qs[p].data_av)

\* What a queue has given to the one it is connected to, of which credit is the credit and
\* last the flit that came last: a flit that is offered while there is credit has been
\* copied, and leaves on the next edge.
PassedOn(q, credit, last) ==
  IF q.ea = "PAYLOAD" \/ (q.ea = "SENDHEADER" /\ credit)
    THEN last = IF q.data_av /\ credit THEN HeadFlit(q) ELSE LastOut(q)
    ELSE Ends(last)

\* The same for what is behind an output.
Given(s, qs, o, credit, last) ==
  LET p == s.mux_out[o]
  IN  IF ~s.free[o] /\ p # o THEN PassedOn(qs[p], credit, last) ELSE Ends(last)

\* fl are the queues and sw the controls.
LinkFlow(fl, sw, r, p) ==
  LET n == Neighbour(r, p)
  IN  IsLink(r, p) => Given(sw[n], fl[n], Opposite(p), fl[r][p].credit, LastIn(fl[r][p]))

\* A packet that leaves at the local port has reached its target.
Carried(q) == IF q.ea = "PAYLOAD" THEN LastOut(q)[1] ELSE HeadFlit(q)[1]
IsFor(r, p) == p.target = r /\ p.io = LOCAL_PORT
TargetFlow(r, s, qs) ==
  /\ s.ea = "S4" => IsFor(r, HeadFlit(qs[s.sel])[1])
  /\ \A p \in Ports : (p \in s.ack \/ qs[p].sender) /\ s.mux_in[p] = LOCAL_PORT => IsFor(r, Carried(qs[p]))

FlowInv(fl, sw, P) ==
  \A r \in Routers :
    /\ \A p \in Ports : QueueFlow(fl[r][p], P) /\ LinkFlow(fl, sw, r, p)
    /\ SwitchFlow(sw[r], fl[r]) /\ TargetFlow(r, sw[r], fl[r])
=============================================================================
