---------------------------- MODULE HermesProofs ----------------------------
(***************************************************************************)
(* Theorems about the queues and the control of the routers.               *)
(***************************************************************************)
EXTENDS HermesInvariant, TLAPS

-----------------------------------------------------------------------------
(* Queues.                                                                 *)

LEMMA AfterSlot ==
  ASSUME NEW k \in Slots
  PROVE  After(k) = (IF k = BUFFER_TAM - 1 THEN 0 ELSE k + 1) /\ After(k) \in Slots
<1> DEFINE B == BUFFER_TAM
<1>1. B \in Nat /\ B >= 4 /\ k \in 0 .. B - 1
  BY MeshAssumption DEF Slots
<1> HIDE DEF B
<1>2. (k + 1) % B = IF k = B - 1 THEN 0 ELSE k + 1
  BY <1>1
<1> QED
  BY <1>1, <1>2 DEF After, Slots, B

LEMMA EmptyQueueInv == QueueInv(EmptyQueue)
BY MeshAssumption DEF EmptyQueue, QueueInv, QueueType, Slots, QueueStates

\* The falling edge of the input: a flit is stored where there is a place.
LEMMA StoredQueue ==
  ASSUME NEW q, QueueInv(q), NEW rx, NEW f,
         ~(q.credit /\ After(q.last) = q.first),
         ~(q.credit /\ q.first = 0 /\ q.last = BUFFER_TAM - 2)
  PROVE  LET n == in_proc_updPtr(q, rx, f)
         IN  /\ QueueInv(n)
             /\ n.first = q.first /\ n.ea = q.ea /\ n.h = q.h /\ n.sender = q.sender
             /\ n.last # q.last => n.last # n.first
             /\ q.first # q.last => HeadFlit(n) = HeadFlit(q)
<1> DEFINE n == in_proc_updPtr(q, rx, f)
           b == [q.buffer EXCEPT ![q.last] = f]
<1>1. /\ q.first \in Slots /\ q.last \in Slots /\ QueueType(q)
      /\ After(q.last) = (IF q.last = BUFFER_TAM - 1 THEN 0 ELSE q.last + 1) /\ After(q.last) \in Slots
  BY AfterSlot DEF QueueInv, QueueType
<1>2. CASE rx /\ q.credit
  <2>1. n = [q EXCEPT !.buffer = b, !.last = After(q.last)]
    BY <1>2 DEF in_proc_updPtr, QueueInv, QueueType
  <2>2. DOMAIN b = Slots /\ (q.first # q.last => b[q.first] = q.buffer[q.first])
    BY <1>1 DEF QueueType
  <2> HIDE DEF b, n
  <2>3. /\ n.first = q.first /\ n.last = After(q.last) /\ n.ea = q.ea /\ n.h = q.h
        /\ n.sender = q.sender /\ n.data_av = q.data_av /\ n.buffer = b
    BY <1>1, <2>1 DEF QueueType
  <2>4. QueueType(n)
    BY <1>1, <2>1, <2>2 DEF QueueType
  <2>5. n.last # n.first /\ ~(n.first = 0 /\ n.last = BUFFER_TAM - 1)
    BY <1>1, <1>2, <2>3, MeshAssumption DEF Slots
  <2>6. QueueInv(n)
    BY <2>3, <2>4, <2>5 DEF QueueInv
  <2>7. q.first # q.last => HeadFlit(n) = HeadFlit(q)
    BY <2>2, <2>3 DEF HeadFlit
  <2> QED
    BY <2>3, <2>5, <2>6, <2>7 DEF n
<1>3. CASE ~(rx /\ q.credit)
  BY <1>3 DEF in_proc_updPtr
<1> QED
  BY <1>2, <1>3

LEMMA PopQueue ==
  ASSUME NEW q, QueueInv(q), q.first # q.last
  PROVE  LET n == Pop(q)
         IN  /\ QueueType(n) /\ n.buffer = q.buffer /\ n.last = q.last
             /\ n.first = After(q.first) /\ n.data_av = (n.first # n.last)
             /\ n.ea = q.ea /\ n.h = q.h /\ n.sender = q.sender /\ n.credit = q.credit
             /\ ~(n.first = 0 /\ n.last = BUFFER_TAM - 1)
<1> DEFINE x == After(q.first)
           n == Pop(q)
<1>1. /\ q.first \in Slots /\ q.last \in Slots /\ QueueType(q) /\ x \in Slots
      /\ x = (IF q.first = BUFFER_TAM - 1 THEN 0 ELSE q.first + 1)
  BY AfterSlot DEF QueueInv, QueueType
<1>2. n = [q EXCEPT !.first = x, !.data_av = (x # q.last)]
  BY DEF Pop
<1>3. ~(x = 0 /\ q.last = BUFFER_TAM - 1)
  BY <1>1, MeshAssumption DEF Slots
<1> HIDE DEF x, n
<1>4. /\ QueueType(n) /\ n.buffer = q.buffer /\ n.last = q.last /\ n.first = x
      /\ n.data_av = (x # q.last) /\ n.ea = q.ea /\ n.h = q.h /\ n.sender = q.sender
      /\ n.credit = q.credit
  BY <1>1, <1>2 DEF QueueType
<1> QED
  BY <1>3, <1>4 DEF n, x

\* The rising edge: the process of the output and the credit.
LEMMA QueueEdgeInv ==
  ASSUME NEW q, QueueInv(q), NEW ack_h \in BOOLEAN, NEW data_ack \in BOOLEAN,
         data_ack => q.data_av
  PROVE  LET n == QueueEdge(q, ack_h, data_ack)
         IN  /\ QueueInv(n)
             /\ n.buffer = q.buffer /\ n.last = q.last
             /\ ~(n.credit /\ After(n.last) = n.first)
             /\ ~(n.credit /\ n.first = 0 /\ n.last = BUFFER_TAM - 2)
             /\ n.credit => ~AlmostFull(n)
             /\ n.sender => q.sender \/ (ack_h /\ q.ea = "HEADER")
             /\ q.sender /\ ~n.sender => n.ea = "END"
             /\ ~q.sender => n.ea # "END"
             /\ q.ea = "HEADER" /\ ~ack_h => n.ea = "HEADER" /\ n.first = q.first
<1> DEFINE m == out_proc_FSM(q, ack_h, data_ack)
           n == QueueEdge(q, ack_h, data_ack)
           c == in_proc_FSM(q)
<1>1. /\ q.first \in Slots /\ q.last \in Slots /\ QueueType(q) /\ c \in BOOLEAN
      /\ After(q.first) = (IF q.first = BUFFER_TAM - 1 THEN 0 ELSE q.first + 1)
      /\ After(q.first) \in Slots
      /\ After(q.last) = (IF q.last = BUFFER_TAM - 1 THEN 0 ELSE q.last + 1)
  BY AfterSlot DEF QueueInv, QueueType, in_proc_FSM
<1>2. n = [m EXCEPT !.credit = c]
  BY DEF QueueEdge
<1>3. c => ~AlmostFull(q)
  BY DEF in_proc_FSM
<1> HIDE DEF c, n
<1> DEFINE x == After(q.first)
           PopIs(p) == /\ QueueType(p) /\ p.buffer = q.buffer /\ p.last = q.last
                       /\ p.first = x /\ p.data_av = (p.first # p.last)
                       /\ p.ea = q.ea /\ p.h = q.h /\ p.sender = q.sender
                       /\ ~(p.first = 0 /\ p.last = BUFFER_TAM - 1)
<1>4. /\ QueueInv(m) /\ m.buffer = q.buffer /\ m.last = q.last
      /\ m.first = q.first \/ (m.first = x /\ q.first # q.last)
      /\ m.sender => q.sender \/ (ack_h /\ q.ea = "HEADER")
      /\ q.sender /\ ~m.sender => m.ea = "END"
      /\ ~q.sender => m.ea # "END"
      /\ q.ea = "HEADER" /\ ~ack_h => m.ea = "HEADER" /\ m.first = q.first
  <2> HIDE DEF x
  <2>1. CASE q.ea = "INIT"
    BY <1>1, <2>1 DEF out_proc_FSM, QueueInv, QueueType, QueueStates
  <2>2. CASE q.ea = "HEADER"
    BY <1>1, <2>2 DEF out_proc_FSM, QueueInv, QueueType, QueueStates
  <2>3. CASE q.ea = "SENDHEADER"
    <3>1. q.data_av /\ q.first # q.last
      BY <2>3 DEF QueueInv
    <3>2. m = IF data_ack THEN [Pop(q) EXCEPT !.ea = "PAYLOAD"] ELSE q
      BY <2>3 DEF out_proc_FSM
    <3> HIDE DEF m
    <3> DEFINE p == Pop(q)
    <3>3. PopIs(p)
      BY <3>1, PopQueue DEF x
    <3> HIDE DEF p
    <3> QED
      BY <2>3, <3>1, <3>2, <3>3 DEF QueueInv, QueueType, QueueStates, p
  <2>4. CASE q.ea = "PAYLOAD"
    <3>1. CASE ~data_ack
      BY <1>1, <2>4, <3>1 DEF out_proc_FSM, QueueInv, QueueType, QueueStates
    <3>2. CASE data_ack
      <4> DEFINE p == Pop(q)
                 k == IF q.counter = 0 THEN AsCount(HeadFlit(q)) ELSE q.counter - 1
      <4>1. m = IF q.counter = 1 THEN [p EXCEPT !.data_av = FALSE, !.sender = FALSE, !.ea = "END"]
                ELSE [p EXCEPT !.counter = k]
        BY <2>4, <3>2 DEF out_proc_FSM
      <4>2. PopIs(p) /\ q.first # q.last
        BY <3>2, PopQueue DEF QueueInv, x
      <4> HIDE DEF m, p, k
      <4> QED
        BY <2>4, <3>2, <4>1, <4>2 DEF QueueInv, QueueType, QueueStates
    <3> QED
      BY <3>1, <3>2
  <2>5. CASE q.ea \in {"END", "END2"}
    BY <1>1, <2>5 DEF out_proc_FSM, QueueInv, QueueType, QueueStates
  <2> QED
    BY <2>1, <2>2, <2>3, <2>4, <2>5 DEF QueueInv, QueueType, QueueStates
<1> HIDE DEF m
<1>5. /\ n.buffer = m.buffer /\ n.first = m.first /\ n.last = m.last /\ n.credit = c
      /\ n.ea = m.ea /\ n.sender = m.sender /\ QueueInv(n)
  BY <1>1, <1>2, <1>4 DEF QueueInv, QueueType
<1>6. /\ ~(c /\ After(q.last) = m.first)
      /\ ~(c /\ m.first = 0 /\ q.last = BUFFER_TAM - 2)
  BY <1>1, <1>3, <1>4, MeshAssumption DEF AlmostFull, Slots, QueueInv
<1>7. c => ~AlmostFull(n)
  BY <1>1, <1>3, <1>4, <1>5, MeshAssumption DEF AlmostFull, Slots, QueueInv
<1> QED
  BY <1>4, <1>5, <1>6, <1>7 DEF n

\* What a cycle makes of a queue: u is the queue after the rising edge, n at the end.
QueueStep(q, u, n, ack_h) ==
  /\ QueueInv(n)
  /\ n.ea = u.ea /\ n.h = u.h /\ n.sender = u.sender
  /\ n.sender => q.sender \/ (ack_h /\ q.ea = "HEADER")
  /\ q.sender /\ ~n.sender => n.ea = "END"
  /\ ~q.sender => n.ea # "END"
  /\ q.ea = "HEADER" /\ ~ack_h => n.ea = "HEADER" /\ HeadFlit(n) = HeadFlit(q)
  /\ n.ea = "HEADER" => HeadFlit(n) = HeadFlit(u)
  /\ n.last # q.last => n.last # n.first

LEMMA QueueCycle ==
  ASSUME NEW q, QueueInv(q), NEW ack_h \in BOOLEAN, NEW data_ack \in BOOLEAN,
         data_ack => q.data_av, NEW rx, NEW f
  PROVE  LET u == QueueEdge(q, ack_h, data_ack)
         IN  QueueStep(q, u, in_proc_updPtr(u, rx, f), ack_h)
<1> DEFINE u == QueueEdge(q, ack_h, data_ack)
           n == in_proc_updPtr(u, rx, f)
<1>1. /\ QueueInv(u)
      /\ u.buffer = q.buffer /\ u.last = q.last
      /\ ~(u.credit /\ After(u.last) = u.first)
      /\ ~(u.credit /\ u.first = 0 /\ u.last = BUFFER_TAM - 2)
      /\ u.sender => q.sender \/ (ack_h /\ q.ea = "HEADER")
      /\ q.sender /\ ~u.sender => u.ea = "END"
      /\ ~q.sender => u.ea # "END"
      /\ q.ea = "HEADER" /\ ~ack_h => u.ea = "HEADER" /\ u.first = q.first
  BY QueueEdgeInv
<1> HIDE DEF u
<1>2. /\ QueueInv(n)
      /\ n.first = u.first /\ n.ea = u.ea /\ n.h = u.h /\ n.sender = u.sender
      /\ n.last # u.last => n.last # n.first
      /\ u.first # u.last => HeadFlit(n) = HeadFlit(u)
  BY <1>1, StoredQueue
<1> HIDE DEF n
<1>3. u.ea = "HEADER" => u.first # u.last
  BY <1>1 DEF QueueInv
<1>4. u.first = q.first => HeadFlit(u) = HeadFlit(q)
  BY <1>1 DEF HeadFlit
<1>5. QueueStep(q, u, n, ack_h)
  BY <1>1, <1>2, <1>3, <1>4 DEF QueueStep
<1> QED
  BY <1>5 DEF u, n

-----------------------------------------------------------------------------
(* The control of a router.                                                *)

LEMMA NextInput ==
  ASSUME NEW sel \in Ports, NEW qs, \E p \in Ports : qs[p].h, \A p \in Ports : qs[p].h \in BOOLEAN
  PROVE  prox(sel, qs) \in Ports /\ qs[prox(sel, qs)].h
<1> DEFINE ahead == {d \in 1 .. NPORT - 1 : qs[(sel + d) % NPORT].h}
<1>1. \A d \in 1 .. 4 : (sel + d) % 5 = (IF sel + d < 5 THEN sel + d ELSE sel + d - 5)
  BY DEF Ports, NPORT
<1>2. CASE ahead = {}
  <2>1. \A p \in Ports : p # sel => ~qs[p].h
    <3> SUFFICES ASSUME NEW p \in Ports, p # sel
                 PROVE  \E d \in 1 .. 4 : (sel + d) % 5 = p
      BY <1>2 DEF NPORT
    <3>1. CASE p > sel
      <4>1. p - sel \in 1 .. 4 /\ sel + (p - sel) = p /\ p < 5
        BY <3>1 DEF Ports, NPORT
      <4> QED
        BY <1>1, <4>1
    <3>2. CASE p < sel
      <4>1. p - sel + 5 \in 1 .. 4 /\ sel + (p - sel + 5) - 5 = p /\ ~(sel + (p - sel + 5) < 5)
        BY <3>2 DEF Ports, NPORT
      <4> QED
        BY <1>1, <4>1
    <3> QED
      BY <3>1, <3>2 DEF Ports, NPORT
  <2> QED
    BY <1>2, <2>1 DEF prox
<1>3. CASE ahead # {}
  <2>1. \E d \in ahead : \A e \in ahead : d <= e
    <3>1. ahead \subseteq {1, 2, 3, 4}
      BY DEF NPORT
    <3> HIDE DEF ahead
    <3>2. CASE 1 \in ahead
      BY <3>1, <3>2
    <3>3. CASE 1 \notin ahead /\ 2 \in ahead
      BY <3>1, <3>3
    <3>4. CASE 1 \notin ahead /\ 2 \notin ahead /\ 3 \in ahead
      BY <3>1, <3>4
    <3>5. CASE 1 \notin ahead /\ 2 \notin ahead /\ 3 \notin ahead
      <4>1. ahead = {4}
        BY <1>3, <3>1, <3>5
      <4> QED
        BY <4>1
    <3> QED
      BY <3>2, <3>3, <3>4, <3>5
  <2>2. Min(ahead) \in ahead
    <3> HIDE DEF ahead
    <3> QED
      BY <2>1 DEF Min
  <2>3. prox(sel, qs) = (sel + Min(ahead)) % NPORT
    BY <1>3 DEF prox
  <2> DEFINE d == Min(ahead)
  <2> HIDE DEF d
  <2>4. d \in 1 .. 4 /\ qs[(sel + d) % 5].h
    <3>1. d \in {e \in 1 .. NPORT - 1 : qs[(sel + e) % NPORT].h}
      BY <2>2 DEF d
    <3> QED
      BY <3>1 DEF NPORT
  <2>5. (sel + d) % 5 \in Ports
    BY <1>1, <2>4 DEF Ports, NPORT
  <2> QED
    BY <2>3, <2>4, <2>5 DEF NPORT, d
<1> QED
  BY <1>2, <1>3

LEMMA ReleaseFields ==
  ASSUME NEW s, SwitchType(s), NEW t, SwitchType(t),
         NEW qs, \A p \in Ports : qs[p].sender \in BOOLEAN
  PROVE  LET n == Release(s, t, qs)
         IN  /\ SwitchType(n)
             /\ n.ea = t.ea /\ n.sel = t.sel /\ n.ack = t.ack
             /\ n.mux_in = t.mux_in /\ n.mux_out = t.mux_out
             /\ \A p \in Ports : n.sender_ant[p] = qs[p].sender
             /\ \A o \in Ports : n.free[o] =>
                  \/ t.free[o]
                  \/ \E p \in Ports : s.mux_in[p] = o /\ s.sender_ant[p] /\ ~qs[p].sender
<1> DEFINE ended == {s.mux_in[p] : p \in {q \in Ports : s.sender_ant[q] /\ ~qs[q].sender}}
           free == [p \in Ports |-> t.free[p] \/ p \in ended]
           ant == [p \in Ports |-> qs[p].sender]
           n == Release(s, t, qs)
<1>1. n = [t EXCEPT !.free = free, !.sender_ant = ant]
  BY DEF Release
<1>2. /\ free \in [Ports -> BOOLEAN] /\ ant \in [Ports -> BOOLEAN]
      /\ \A p \in Ports : ant[p] = qs[p].sender
      /\ \A o \in Ports : free[o] =>
           \/ t.free[o]
           \/ \E p \in Ports : s.mux_in[p] = o /\ s.sender_ant[p] /\ ~qs[p].sender
  OBVIOUS
<1> HIDE DEF free, ant, n
<1>3. /\ SwitchType(n) /\ n.free = free /\ n.sender_ant = ant
      /\ n.ea = t.ea /\ n.sel = t.sel /\ n.ack = t.ack
      /\ n.mux_in = t.mux_in /\ n.mux_out = t.mux_out
  BY <1>1, <1>2 DEF SwitchType
<1> QED
  BY <1>2, <1>3 DEF n

LEMMA ConnectFields ==
  ASSUME NEW s, SwitchType(s), NEW out \in Ports
  PROVE  LET t == Connect(s, out)
         IN  /\ SwitchType(t) /\ t.ea = s.ea /\ t.sel = s.sel /\ t.ack = s.ack \cup {s.sel}
             /\ t.mux_in = [s.mux_in EXCEPT ![s.sel] = out]
             /\ t.mux_out = [s.mux_out EXCEPT ![out] = s.sel]
             /\ t.free = [s.free EXCEPT ![out] = FALSE]
<1> DEFINE i == [s.mux_in EXCEPT ![s.sel] = out]
           o == [s.mux_out EXCEPT ![out] = s.sel]
           f == [s.free EXCEPT ![out] = FALSE]
           a == s.ack \cup {s.sel}
           t == Connect(s, out)
<1>1. t = [s EXCEPT !.mux_in = i, !.mux_out = o, !.free = f, !.ack = a]
  BY DEF Connect, SwitchType
<1>2. i \in [Ports -> Ports] /\ o \in [Ports -> Ports] /\ f \in [Ports -> BOOLEAN] /\ a \in SUBSET Ports
  BY DEF SwitchType
<1> HIDE DEF i, o, f, a, t
<1>3. SwitchType(t) /\ t.ea = s.ea /\ t.sel = s.sel /\ t.ack = a /\ t.mux_in = i /\ t.mux_out = o /\ t.free = f
  BY <1>1, <1>2 DEF SwitchType
<1> QED
  BY <1>3 DEF i, o, f, a, t

\* The rising edge of the control.
LEMMA ControlEdge ==
  ASSUME NEW r, NEW s, NEW qs, SwitchInv(r, s, qs), \A p \in Ports : QueueInv(qs[p])
  PROVE  LET t == controle_sequ(r, s, qs)
         IN  /\ SwitchType(t) /\ t.ea = s.ea
             /\ t.ack = IF s.ea \in {"S4", "S5", "S6"} THEN {s.sel} ELSE {}
             /\ IF s.ea = "S2" THEN qs[t.sel].h ELSE t.sel = s.sel
             /\ \A p \in Ports : t.sender_ant[p] = qs[p].sender
             /\ \A p \in Ports : p \in t.ack \/ p \in s.ack \/ qs[p].sender => Held(t, p)
<1> DEFINE out == Chosen(r, s, qs)
           connects == s.ea \in {"S4", "S5", "S6"}
           t == controle_sequ(r, s, qs)
           m == CASE s.ea = "S1" -> [s EXCEPT !.ack = {}]
                  [] s.ea = "S2" -> [s EXCEPT !.sel = prox(s.sel, qs)]
                  [] s.ea = "S4" -> Connect(s, LOCAL_PORT)
                  [] s.ea = "S5" -> Connect(s, dirx(r, HeadFlit(qs[s.sel])[1]))
                  [] s.ea = "S6" -> Connect(s, diry(r, HeadFlit(qs[s.sel])[1]))
                  [] OTHER -> [s EXCEPT !.ack = s.ack \ {s.sel}]
<1>1. SwitchType(s) /\ s.ack = IF s.ea = "S7" THEN {s.sel} ELSE {}
  BY DEF SwitchInv
<1>2. t = Release(s, m, qs)
  BY DEF controle_sequ
<1>3. \A p \in Ports : qs[p].sender \in BOOLEAN /\ qs[p].h \in BOOLEAN
  BY DEF QueueInv, QueueType
<1>4. out \in Ports
  BY DEF Chosen, dirx, diry, Ports, NPORT, EAST, WEST, NORTH, SOUTH, LOCAL_PORT
<1>5. connects => m = Connect(s, out)
  BY DEF Chosen
<1>6. /\ SwitchType(m) /\ m.ea = s.ea
      /\ m.ack = IF connects THEN {s.sel} ELSE {}
      /\ IF s.ea = "S2" THEN m.sel \in Ports /\ qs[m.sel].h ELSE m.sel = s.sel
      /\ IF connects
         THEN /\ m.mux_in = [s.mux_in EXCEPT ![s.sel] = out]
              /\ m.mux_out = [s.mux_out EXCEPT ![out] = s.sel]
              /\ m.free = [s.free EXCEPT ![out] = FALSE]
         ELSE m.mux_in = s.mux_in /\ m.mux_out = s.mux_out /\ m.free = s.free
  <2>1. CASE connects
    <3> HIDE DEF m, out
    <3> QED
      <4>1. /\ SwitchType(m) /\ m.ea = s.ea /\ m.sel = s.sel /\ m.ack = s.ack \cup {s.sel}
            /\ m.mux_in = [s.mux_in EXCEPT ![s.sel] = out]
            /\ m.mux_out = [s.mux_out EXCEPT ![out] = s.sel]
            /\ m.free = [s.free EXCEPT ![out] = FALSE]
        BY <1>1, <1>4, <1>5, <2>1, ConnectFields
      <4> QED
        BY <1>1, <2>1, <4>1
  <2>2. CASE s.ea = "S2"
    <3> DEFINE x == prox(s.sel, qs)
    <3>1. x \in Ports /\ qs[x].h
      BY <1>1, <1>3, <2>2, NextInput DEF SwitchInv, SwitchType
    <3>2. m = [s EXCEPT !.sel = x]
      BY <2>2
    <3> HIDE DEF m, x
    <3> QED
      BY <1>1, <2>2, <3>1, <3>2 DEF SwitchType
  <2>3. CASE ~connects /\ s.ea # "S2"
    <3>1. m = [s EXCEPT !.ack = {}]
      BY <1>1, <2>3
    <3> HIDE DEF m
    <3> QED
      BY <1>1, <2>3, <3>1 DEF SwitchType
  <2> QED
    BY <2>1, <2>2, <2>3
<1> HIDE DEF m, t
<1>7. /\ SwitchType(t)
      /\ t.ea = m.ea /\ t.sel = m.sel /\ t.ack = m.ack
      /\ t.mux_in = m.mux_in /\ t.mux_out = m.mux_out
      /\ \A p \in Ports : t.sender_ant[p] = qs[p].sender
      /\ \A o \in Ports : t.free[o] =>
           \/ m.free[o]
           \/ \E p \in Ports : s.mux_in[p] = o /\ s.sender_ant[p] /\ ~qs[p].sender
  <2>1. SwitchType(m)
    BY <1>6
  <2> QED
    BY <1>1, <1>2, <1>3, <2>1, ReleaseFields
<1>8. ASSUME NEW p \in Ports, p \in t.ack \/ p \in s.ack \/ qs[p].sender
      PROVE  Held(t, p)
  <2>1. \A q \in Ports : Holding(s, qs, q) => Held(s, q)
    BY DEF SwitchInv
  <2>2. s.mux_in[p] \in Ports /\ s.sel \in Ports /\ t.mux_in[p] \in Ports
    BY <1>1, <1>7 DEF SwitchType
  <2>3. CASE p \in t.ack
    <3>1. connects /\ p = s.sel /\ s.free[out]
      BY <1>6, <1>7, <2>3 DEF SwitchInv
    <3>2. t.mux_in[p] = out /\ t.mux_out[out] = p /\ ~m.free[out]
      BY <1>1, <1>4, <1>6, <1>7, <3>1 DEF SwitchType
    <3>3. \A q \in Ports : s.sender_ant[q] => s.mux_in[q] # out
      BY <2>1, <3>1 DEF Holding, Held
    <3> QED
      BY <1>4, <1>7, <3>2, <3>3 DEF Held
  <2>4. CASE p \notin t.ack
    <3> DEFINE o == s.mux_in[p]
    <3>1. Held(s, p) /\ s.mux_out[o] = p /\ ~s.free[o]
      BY <1>8, <2>1, <2>4 DEF Holding, Held
    <3>2. ~(s.sender_ant[p] /\ ~qs[p].sender)
      BY <1>1, <1>8, <2>4 DEF SwitchInv
    <3>3. \A q \in Ports : s.sender_ant[q] /\ ~qs[q].sender => s.mux_in[q] # o
      BY <2>1, <3>1, <3>2 DEF Holding, Held
    <3>4. m.mux_in[p] = o /\ m.mux_out[o] = p /\ ~m.free[o]
      <4>1. CASE connects
        <5>1. p # s.sel /\ o # out
          BY <1>6, <1>7, <2>4, <3>1, <4>1 DEF SwitchInv
        <5> QED
          BY <1>1, <1>4, <1>6, <2>2, <3>1, <4>1, <5>1 DEF SwitchType
      <4>2. CASE ~connects
        BY <1>6, <3>1, <4>2
      <4> QED
        BY <4>1, <4>2
    <3> QED
      BY <1>7, <2>2, <3>3, <3>4 DEF Held
  <2> QED
    BY <2>3, <2>4
<1> QED
  BY <1>6, <1>7, <1>8 DEF t

\* What the control does in a cycle in which the queues qs become up, then nq.
LEMMA ControlCycle ==
  ASSUME NEW r, NEW s, NEW qs, SwitchInv(r, s, qs), \A p \in Ports : QueueInv(qs[p]),
         NEW up, NEW nq, \A p \in Ports : QueueStep(qs[p], up[p], nq[p], p \in s.ack),
         NEW tx
  PROVE  LET t == [controle_sequ(r, s, qs) EXCEPT !.tx = tx]
         IN  SwitchInv(r, [t EXCEPT !.ea = controle_comb(r, t, up)], nq)
<1> DEFINE c == controle_sequ(r, s, qs)
           t == [c EXCEPT !.tx = tx]
           ea == controle_comb(r, t, up)
           n == [t EXCEPT !.ea = ea]
<1>1. /\ SwitchType(c) /\ c.ea = s.ea
      /\ c.ack = IF s.ea \in {"S4", "S5", "S6"} THEN {s.sel} ELSE {}
      /\ IF s.ea = "S2" THEN qs[c.sel].h ELSE c.sel = s.sel
      /\ \A p \in Ports : c.sender_ant[p] = qs[p].sender
      /\ \A p \in Ports : p \in c.ack \/ p \in s.ack \/ qs[p].sender => Held(c, p)
  BY ControlEdge
<1> HIDE DEF c
<1>2. /\ SwitchType(t) /\ t.ea = s.ea /\ t.sel = c.sel /\ t.ack = c.ack /\ t.free = c.free
      /\ t.mux_in = c.mux_in /\ t.mux_out = c.mux_out /\ t.sender_ant = c.sender_ant
  BY <1>1 DEF SwitchType
<1>3. s.ea \in SwitchStates /\ s.ack = IF s.ea = "S7" THEN {s.sel} ELSE {}
  BY DEF SwitchInv, SwitchType
<1> HIDE DEF t
<1>4. /\ s.ea = "S1" => ea \in {"S1", "S2"} /\ (ea = "S2" => \E p \in Ports : up[p].h)
      /\ s.ea = "S2" => ea = "S3"
      /\ s.ea \in {"S4", "S5", "S6"} => ea = "S7"
      /\ s.ea = "S7" => ea = "S1"
  BY <1>2 DEF controle_comb
<1> DEFINE f == HeadFlit(up[t.sel])[1]
<1>5. s.ea = "S3" => /\ ea \in {"S1", "S4", "S5", "S6"}
                     /\ ea = "S4" => t.free[LOCAL_PORT]
                     /\ ea = "S5" => t.free[dirx(r, f)]
                     /\ ea = "S6" => t.free[diry(r, f)]
  <2>1. s.ea = "S3" => ea = Routed(r, t, f)
    BY <1>2 DEF controle_comb
  <2> HIDE DEF ea, f
  <2> QED
    BY <2>1 DEF Routed
<1>6. /\ ea \in SwitchStates
      /\ ea = "S2" => s.ea = "S1"
      /\ ea = "S3" => s.ea = "S2"
      /\ ea \in {"S4", "S5", "S6"} => s.ea = "S3"
      /\ ea = "S7" <=> s.ea \in {"S4", "S5", "S6"}
  <2> HIDE DEF ea
  <2> QED
    BY <1>3, <1>4, <1>5 DEF SwitchStates
<1> HIDE DEF ea, n, f
<1>7. /\ SwitchType(n) /\ n.ea = ea /\ n.sel = c.sel /\ n.ack = c.ack /\ n.free = t.free
      /\ n.mux_in = c.mux_in /\ n.mux_out = c.mux_out /\ n.sender_ant = c.sender_ant
      /\ n.free = c.free
  BY <1>2, <1>6 DEF SwitchType, n
<1>8. \A p \in Ports : (nq[p].h <=> nq[p].ea = "HEADER") /\ nq[p].ea = up[p].ea /\ nq[p].h = up[p].h
  BY DEF QueueStep, QueueInv
<1>9. n.ack = IF n.ea = "S7" THEN {n.sel} ELSE {}
  BY <1>1, <1>6, <1>7
<1>10. n.ea = "S2" => \E p \in Ports : nq[p].h
  BY <1>4, <1>6, <1>7, <1>8
<1>11. n.ea \in {"S3", "S4", "S5", "S6", "S7"} => nq[n.sel].ea = "HEADER"
  <2> SUFFICES ASSUME n.ea \in {"S3", "S4", "S5", "S6", "S7"}
               PROVE  nq[n.sel].ea = "HEADER"
    OBVIOUS
  <2>1. s.ea \in {"S2", "S3", "S4", "S5", "S6"} /\ n.sel \in Ports /\ s.ack = {}
    BY <1>3, <1>6, <1>7 DEF SwitchType
  <2>2. qs[n.sel].ea = "HEADER"
    BY <1>1, <1>7, <2>1 DEF SwitchInv, QueueInv
  <2> QED
    BY <2>1, <2>2 DEF QueueStep
<1>12. n.ea \in {"S4", "S5", "S6"} => n.free[Chosen(r, n, nq)]
  <2> SUFFICES ASSUME n.ea \in {"S4", "S5", "S6"}
               PROVE  n.free[Chosen(r, n, nq)]
    OBVIOUS
  <2>1. s.ea = "S3" /\ nq[n.sel].ea = "HEADER" /\ n.sel \in Ports
    BY <1>6, <1>7, <1>11 DEF SwitchType
  <2>2. HeadFlit(nq[n.sel])[1] = f
    BY <1>2, <1>7, <2>1 DEF QueueStep, f
  <2> QED
    BY <1>5, <1>7, <2>1, <2>2 DEF Chosen
<1>13. \A p \in Ports : n.sender_ant[p] /\ ~nq[p].sender => nq[p].ea = "END"
  BY <1>1, <1>7 DEF QueueStep
<1>14. ASSUME NEW p \in Ports, Holding(n, nq, p)
       PROVE  Held(n, p)
  <2>1. p \in c.ack \/ p \in s.ack \/ qs[p].sender
    BY <1>1, <1>7, <1>14 DEF Holding, QueueStep
  <2> QED
    BY <1>1, <1>7, <2>1 DEF Held
<1>15. SwitchInv(r, n, nq)
  BY <1>7, <1>9, <1>10, <1>11, <1>12, <1>13, <1>14 DEF SwitchInv
<1> QED
  BY <1>15 DEF c, t, ea, n

-----------------------------------------------------------------------------
(* The routers together.                                                   *)

LEMMA HermesStart == HermesInit => HermesInv
<1> SUFFICES ASSUME HermesInit PROVE HermesInv
  OBVIOUS
<1>1. ASSUME NEW r \in Routers
      PROVE  SwitchInv(r, ResetSwitch, [p \in Ports |-> EmptyQueue])
  BY DEF SwitchInv, SwitchType, ResetSwitch, SwitchStates, Ports, NPORT, EAST, Holding, EmptyQueue
<1> QED
  BY <1>1, EmptyQueueInv DEF HermesInit, HermesInv

\* What a cycle does to the queues of a router.
LEMMA RouterCycle ==
  ASSUME HermesInv, NEW outer, NEW sent, HermesClock(outer, sent), NEW r \in Routers
  PROVE  /\ \A p \in Ports : QueueStep(fila[r][p], QueuesUp(r, outer)[p], fila'[r][p], p \in switch[r].ack)
         /\ SwitchInv(r, switch'[r], fila'[r])
<1> DEFINE up == [i \in Routers |-> QueuesUp(i, outer)]
           sw == [i \in Routers |-> SwitchUp(i, up[i])]
           wire(i, p) == IF ~IsLink(i, p) THEN sent[i][p]
                         ELSE LET n == Neighbour(i, p)
                                  o == Opposite(p)
                              IN  <<sw[n].tx[o], data_out(sw[n], up[n], o)>>
           s == switch[r]
           qs == fila[r]
           ack(p) == upd_dataack(s, qs[p], p, CreditIn(r, outer))
<1>1. /\ fila' = [i \in Routers |-> [p \in Ports |->
                     LET w == wire(i, p) IN in_proc_updPtr(up[i][p], w[1], w[2])]]
      /\ switch' = [i \in Routers |-> [sw[i] EXCEPT !.ea = controle_comb(i, sw[i], up[i])]]
  BY DEF HermesClock
<1>2. /\ \A p \in Ports : QueueInv(qs[p])
      /\ SwitchInv(r, s, qs)
  BY DEF HermesInv
<1>3. ASSUME NEW p \in Ports
      PROVE  QueueStep(qs[p], up[r][p], fila'[r][p], p \in s.ack)
  <2>1. fila'[r][p] = in_proc_updPtr(up[r][p], wire(r, p)[1], wire(r, p)[2])
    BY <1>1
  <2>2. up[r][p] = QueueEdge(qs[p], p \in s.ack, ack(p))
    BY DEF QueuesUp
  <2>3. (p \in s.ack) \in BOOLEAN /\ ack(p) \in BOOLEAN /\ (ack(p) => qs[p].data_av)
    BY DEF upd_dataack
  <2> HIDE DEF wire, up, ack, s, qs
  <2> QED
    BY <1>2, <2>1, <2>2, <2>3, QueueCycle
<1>4. SwitchInv(r, switch'[r], fila'[r])
  <2> DEFINE tx == upd_tx(controle_sequ(r, s, qs), up[r])
             t == [controle_sequ(r, s, qs) EXCEPT !.tx = tx]
  <2>1. switch'[r] = [t EXCEPT !.ea = controle_comb(r, t, up[r])]
    BY <1>1 DEF SwitchUp
  <2> HIDE DEF tx, up, wire, s, qs
  <2>2. SwitchInv(r, [t EXCEPT !.ea = controle_comb(r, t, up[r])], fila'[r])
    BY <1>2, <1>3, ControlCycle
  <2> QED
    BY <2>1, <2>2
<1> QED
  BY <1>3, <1>4

LEMMA HermesStep ==
  ASSUME HermesInv, NEW outer, NEW sent, HermesClock(outer, sent)
  PROVE  HermesInv'
<1>1. ASSUME NEW r \in Routers
      PROVE  (\A p \in Ports : QueueInv(fila'[r][p])) /\ SwitchInv(r, switch'[r], fila'[r])
  BY RouterCycle DEF QueueStep
<1>2. /\ fila' = [r \in Routers |-> [p \in Ports |-> fila'[r][p]]]
      /\ switch' = [r \in Routers |-> switch'[r]]
  BY DEF HermesClock
<1> QED
  BY <1>1, <1>2 DEF HermesInv

-----------------------------------------------------------------------------
(* The network alone, with anything connected to the outer ports.          *)

HermesNext == \E outer, driven : HermesClock(outer, driven)
HermesAlone == HermesInit /\ [][HermesNext]_hermesVars

\* The invariant of queues and controls holds whatever the transmitters at the outer
\* ports drive and whatever credit they give.
THEOREM HermesInvariance == HermesAlone => []HermesInv
<1>1. HermesInv /\ [HermesNext]_hermesVars => HermesInv'
  <2> SUFFICES ASSUME HermesInv, [HermesNext]_hermesVars
               PROVE  HermesInv'
    OBVIOUS
  <2>1. CASE HermesNext
    BY <2>1, HermesStep DEF HermesNext
  <2>2. CASE UNCHANGED hermesVars
    BY <2>2 DEF hermesVars, HermesInv, SwitchInv, Holding, Chosen
  <2> QED
    BY <2>1, <2>2
<1> QED
  BY <1>1, HermesStart, PTL DEF HermesAlone

-----------------------------------------------------------------------------
(* Packets stay whole: the flits of a queue.                               *)

LEMMA BeforeSlot ==
  ASSUME NEW k \in Slots
  PROVE  /\ Before(k) \in Slots
         /\ Before(After(k)) = k /\ After(Before(k)) = k
         /\ k # After(k) /\ k # Before(k)
<1>1. BUFFER_TAM \in Nat /\ BUFFER_TAM >= 4 /\ k \in Int /\ 0 <= k /\ k <= BUFFER_TAM - 1
  BY MeshAssumption DEF Slots
<1>2. Before(k) \in Slots
  BY <1>1 DEF Before, Slots
<1>3. After(k) = (IF k = BUFFER_TAM - 1 THEN 0 ELSE k + 1) /\ After(k) \in Slots
  BY AfterSlot
<1>4. After(Before(k)) = (IF Before(k) = BUFFER_TAM - 1 THEN 0 ELSE Before(k) + 1)
  BY <1>2, AfterSlot
<1> QED
  BY <1>1, <1>2, <1>3, <1>4 DEF Before

LEMMA FlitIs ==
  ASSUME NEW P, ArePackets(P), NEW f, IsFlit(f, P)
  PROVE  /\ f = <<f[1], f[2]>> /\ f[1] \in P /\ f[1].size \in Nat /\ f[1].size >= 1
         /\ f[2] \in Nat /\ f[2] <= f[1].size + 1
         /\ Ends(f) <=> f[2] = f[1].size + 1
<1>1. f \in P \X Nat /\ f[2] <= f[1].size + 1
  BY DEF IsFlit
<1>2. f = <<f[1], f[2]>> /\ f[1] \in P /\ f[2] \in Nat
  BY <1>1
<1>3. f[1] # NoPacket /\ f[1].size \in Nat \ {0}
  BY <1>2 DEF ArePackets
<1>4. f # NoFlit
  BY <1>3 DEF NoFlit
<1> QED
  BY <1>1, <1>2, <1>3, <1>4 DEF Ends

\* The rising edge of a queue: a flit leaves, or none does.
LEMMA FlowEdge ==
  ASSUME NEW P, ArePackets(P), NEW q, QueueInv(q), QueueFlow(q, P),
         NEW ack_h \in BOOLEAN, NEW data_ack \in BOOLEAN, data_ack => q.data_av
  PROVE  LET u == QueueEdge(q, ack_h, data_ack)
         IN  /\ QueueFlow(u, P)
             /\ LastIn(u) = LastIn(q)
             /\ IF data_ack
                THEN /\ LastOut(u) = HeadFlit(q) /\ IsFlit(HeadFlit(q), P) /\ u.ea \in {"PAYLOAD", "END"}
                     /\ u.ea = "PAYLOAD" => u.first = After(q.first)
                ELSE /\ LastOut(u) = LastOut(q) /\ HeadFlit(u) = HeadFlit(q)
                     /\ u.ea = "PAYLOAD" <=> q.ea = "PAYLOAD"
                     /\ u.ea = "SENDHEADER" <=> q.ea = "SENDHEADER" \/ (q.ea = "HEADER" /\ ack_h)
             /\ q.ea = "HEADER" /\ ack_h => u.ea = "SENDHEADER"
             /\ u.ea \in {"SENDHEADER", "PAYLOAD"} => Carried(u) = Carried(q)
<1> DEFINE m == out_proc_FSM(q, ack_h, data_ack)
           n == QueueEdge(q, ack_h, data_ack)
           c == in_proc_FSM(q)
           x == After(q.first)
           k == IF q.counter = 0 THEN AsCount(HeadFlit(q)) ELSE q.counter - 1
<1>1. /\ q.first \in Slots /\ q.last \in Slots /\ QueueType(q)
      /\ x \in Slots /\ Before(x) = q.first /\ Before(q.first) \in Slots
  BY AfterSlot, BeforeSlot DEF QueueInv, QueueType
<1>2. n = [m EXCEPT !.credit = c]
  BY DEF QueueEdge
<1>3. data_ack => /\ q.ea \in {"SENDHEADER", "PAYLOAD"} /\ q.first # q.last
                  /\ InQueue(q, q.first)
                  /\ IsFlit(HeadFlit(q), P) /\ Follows(LastOut(q), HeadFlit(q))
  <2> SUFFICES ASSUME data_ack PROVE /\ q.ea \in {"SENDHEADER", "PAYLOAD"} /\ q.first # q.last
                  /\ InQueue(q, q.first)
                  /\ IsFlit(HeadFlit(q), P) /\ Follows(LastOut(q), HeadFlit(q))
    OBVIOUS
  <2>1. q.ea \in {"SENDHEADER", "PAYLOAD"} /\ q.first # q.last
    BY DEF QueueInv, QueueFlow
  <2>2. InQueue(q, q.first)
    BY <1>1, <2>1 DEF InQueue, Slots
  <2> QED
    BY <1>1, <2>1, <2>2 DEF QueueFlow, HeadFlit, LastOut
<1> HIDE DEF c, n, x, k
<1>4. q.data_av \in BOOLEAN /\ q.ea \in QueueStates
  BY DEF QueueInv, QueueType
\* What the edge makes of the fields.
<1> DEFINE Fields ==
      /\ m.buffer = q.buffer /\ m.last = q.last /\ DOMAIN m = DOMAIN q
      /\ m.data_av => m.ea \in {"SENDHEADER", "PAYLOAD"}
      /\ m.ea \in {"HEADER", "SENDHEADER"} => m.counter = 0
      /\ q.ea = "HEADER" /\ ack_h => m.ea = "SENDHEADER"
      /\ IF data_ack
         THEN /\ m.first = x
              /\ IF q.ea = "PAYLOAD" /\ q.counter = 1 THEN m.ea = "END"
                 ELSE m.ea = "PAYLOAD" /\ m.counter = IF q.ea = "PAYLOAD" THEN k ELSE 0
         ELSE /\ m.first = q.first
              /\ m.ea = "PAYLOAD" <=> q.ea = "PAYLOAD"
              /\ m.ea = "SENDHEADER" <=> q.ea = "SENDHEADER" \/ (q.ea = "HEADER" /\ ack_h)
              /\ m.ea = "PAYLOAD" => m.counter = q.counter
<1>5. Fields
  <2>1. CASE q.ea = "INIT"
    <3>1. m = IF q.first # q.last
                THEN [q EXCEPT !.counter = 0, !.data_av = FALSE, !.h = TRUE, !.ea = "HEADER"]
                ELSE [q EXCEPT !.counter = 0, !.data_av = FALSE, !.h = FALSE]
      BY <2>1 DEF out_proc_FSM
    <3> HIDE DEF m
    <3> QED
      BY <1>1, <1>3, <2>1, <3>1 DEF QueueType
  <2>2. CASE q.ea = "HEADER"
    <3>1. m = IF ack_h THEN [q EXCEPT !.ea = "SENDHEADER", !.h = FALSE, !.data_av = TRUE, !.sender = TRUE]
              ELSE q
      BY <2>2 DEF out_proc_FSM
    <3>2. q.counter = 0 /\ ~q.data_av
      BY <2>2 DEF QueueFlow
    <3> HIDE DEF m
    <3> QED
      BY <1>1, <1>3, <2>2, <3>1, <3>2 DEF QueueType
  <2>3. CASE q.ea = "SENDHEADER"
    <3>1. m = IF data_ack THEN [Pop(q) EXCEPT !.ea = "PAYLOAD"] ELSE q
      BY <2>3 DEF out_proc_FSM
    <3>2. q.counter = 0
      BY <2>3 DEF QueueFlow
    <3> HIDE DEF m
    <3>3. CASE data_ack
      BY <1>1, <1>3, <2>3, <3>1, <3>2, <3>3 DEF Pop, QueueType, x
    <3>4. CASE ~data_ack
      BY <1>1, <2>3, <3>1, <3>2, <3>4 DEF QueueType
    <3> QED
      BY <3>3, <3>4
  <2>4. CASE q.ea = "PAYLOAD"
    <3>1. m = IF ~data_ack THEN [q EXCEPT !.data_av = q.data_av \/ q.first # q.last]
              ELSE IF q.counter = 1
                THEN [Pop(q) EXCEPT !.data_av = FALSE, !.sender = FALSE, !.ea = "END"]
                ELSE [Pop(q) EXCEPT !.counter = k]
      BY <2>4 DEF out_proc_FSM, k
    <3> HIDE DEF m
    <3>2. CASE data_ack
      BY <1>1, <2>4, <3>1, <3>2 DEF Pop, QueueType, x
    <3>3. CASE ~data_ack
      BY <1>1, <2>4, <3>1, <3>3 DEF QueueType
    <3> QED
      BY <3>2, <3>3
  <2>5. CASE q.ea \in {"END", "END2"}
    <3>1. m = IF q.ea = "END" THEN [q EXCEPT !.data_av = FALSE, !.ea = "END2"]
              ELSE [q EXCEPT !.data_av = FALSE, !.ea = "INIT"]
      BY <2>5 DEF out_proc_FSM
    <3> HIDE DEF m
    <3> QED
      BY <1>1, <1>3, <2>5, <3>1 DEF QueueType
  <2> HIDE DEF Fields
  <2> QED
    BY <1>4, <2>1, <2>2, <2>3, <2>4, <2>5 DEF QueueStates
<1> HIDE DEF m
<1>6. /\ n.buffer = q.buffer /\ n.last = q.last /\ n.first = m.first /\ n.ea = m.ea
      /\ n.counter = m.counter /\ n.data_av = m.data_av
  BY <1>1, <1>2, <1>5 DEF QueueType
<1>7. data_ack => LastOut(n) = HeadFlit(q)
  BY <1>1, <1>5, <1>6 DEF LastOut, HeadFlit
<1>8. ~data_ack => LastOut(n) = LastOut(q) /\ HeadFlit(n) = HeadFlit(q)
  BY <1>5, <1>6 DEF LastOut, HeadFlit
<1>9. \A i \in Slots : InQueue(n, i) => InQueue(q, i)
  BY <1>1, <1>3, <1>5, <1>6, AfterSlot, MeshAssumption DEF InQueue, Slots, x
<1> DEFINE Left ==
      /\ q.ea = "PAYLOAD" => HeadFlit(q)[1] = LastOut(q)[1]
      /\ IF n.ea = "PAYLOAD"
         THEN /\ n.counter \in Nat
              /\ IF n.counter = 0 THEN HeadFlit(q)[2] = 0
                 ELSE HeadFlit(q)[2] # 0 /\ HeadFlit(q)[2] + n.counter = HeadFlit(q)[1].size + 1
         ELSE Ends(HeadFlit(q))
<1>10. data_ack => Left
  <2> SUFFICES ASSUME data_ack PROVE Left
    OBVIOUS
  <2> DEFINE h == HeadFlit(q)
             l == LastOut(q)
  <2>1. /\ h = <<h[1], h[2]>> /\ h[1].size \in Nat /\ h[1].size >= 1 /\ h[2] \in Nat
        /\ Ends(h) <=> h[2] = h[1].size + 1
        /\ Follows(l, h)
    BY <1>3, FlitIs
  <2> HIDE DEF h, l
  <2>2. CASE q.ea = "SENDHEADER"
    <3>1. Ends(l)
      BY <2>2 DEF QueueFlow, l
    <3> QED
      BY <1>5, <1>6, <2>1, <2>2, <3>1 DEF Follows, h
  <2>3. CASE q.ea = "PAYLOAD"
    <3>1. /\ IsFlit(l, P) /\ q.counter \in Nat
          /\ IF q.counter = 0 THEN l[2] = 0 ELSE l[2] # 0 /\ l[2] + q.counter = l[1].size + 1
      BY <2>3 DEF QueueFlow, l
    <3>2. l[1].size \in Nat /\ l[1].size >= 1 /\ l[2] \in Nat /\ (Ends(l) <=> l[2] = l[1].size + 1)
      BY <3>1, FlitIs
    <3>3. ~Ends(l)
      BY <3>1, <3>2
    <3>4. h[1] = l[1] /\ h[2] = l[2] + 1
      BY <2>1, <3>3 DEF Follows
    <3>5. k = IF q.counter = 0 THEN IF h[2] = 1 THEN h[1].size ELSE 0 ELSE q.counter - 1
      BY DEF k, AsCount, h
    <3> QED
      BY <1>5, <1>6, <2>1, <2>3, <3>1, <3>2, <3>4, <3>5 DEF h, l
  <2> QED
    BY <1>3, <2>2, <2>3
<1>11. QueueFlow(n, P)
  <2>1. n.ea # "PAYLOAD" => Ends(LastOut(n))
    <3>1. CASE data_ack
      BY <1>7, <1>10, <3>1
    <3>2. CASE ~data_ack
      BY <1>5, <1>6, <1>8, <3>2 DEF QueueFlow
    <3> QED
      BY <3>1, <3>2
  <2>2. n.ea = "PAYLOAD" =>
       /\ IsFlit(LastOut(n), P) /\ n.counter \in Nat
       /\ IF n.counter = 0 THEN LastOut(n)[2] = 0
          ELSE LastOut(n)[2] # 0 /\ LastOut(n)[2] + n.counter = LastOut(n)[1].size + 1
    <3>1. CASE data_ack
      BY <1>3, <1>7, <1>10, <3>1
    <3>2. CASE ~data_ack
      BY <1>5, <1>6, <1>8, <3>2 DEF QueueFlow
    <3> QED
      BY <3>1, <3>2
  <2> QED
    BY <1>5, <1>6, <1>9, <2>1, <2>2 DEF QueueFlow
<1>12. LastIn(n) = LastIn(q)
  BY <1>6 DEF LastIn
<1>13. n.ea \in {"SENDHEADER", "PAYLOAD"} => Carried(n) = Carried(q)
  BY <1>3, <1>5, <1>6, <1>7, <1>8, <1>10 DEF Carried
<1> QED
  BY <1>3, <1>5, <1>6, <1>7, <1>8, <1>11, <1>12, <1>13 DEF n, x

\* The falling edge of a queue: a flit that follows what came last may be stored.
LEMMA FlowStored ==
  ASSUME NEW P, ArePackets(P), NEW q, QueueInv(q), QueueFlow(q, P),
         ~(q.credit /\ After(q.last) = q.first),
         NEW rx \in BOOLEAN, NEW f, rx /\ q.credit => IsFlit(f, P) /\ Follows(LastIn(q), f)
  PROVE  LET n == in_proc_updPtr(q, rx, f)
         IN  /\ QueueFlow(n, P)
             /\ n.ea = q.ea /\ n.credit = q.credit /\ n.data_av = q.data_av
             /\ LastIn(n) = IF rx /\ q.credit THEN f ELSE LastIn(q)
             /\ LastOut(n) = LastOut(q)
             /\ q.first # q.last => HeadFlit(n) = HeadFlit(q)
<1> DEFINE n == in_proc_updPtr(q, rx, f)
           b == [q.buffer EXCEPT ![q.last] = f]
           y == After(q.last)
<1>1. /\ q.first \in Slots /\ q.last \in Slots /\ QueueType(q) /\ q.credit \in BOOLEAN
      /\ y = (IF q.last = BUFFER_TAM - 1 THEN 0 ELSE q.last + 1) /\ y \in Slots /\ Before(y) = q.last
      /\ Before(q.last) \in Slots /\ Before(q.first) \in Slots /\ Before(q.last) # q.last
      /\ After(Before(q.first)) = q.first
  BY AfterSlot, BeforeSlot DEF QueueInv, QueueType
<1>2. CASE rx /\ q.credit
  <2>1. n = [q EXCEPT !.buffer = b, !.last = y]
    BY <1>2 DEF in_proc_updPtr, QueueInv, QueueType
  <2>2. /\ DOMAIN b = Slots /\ b[q.last] = f
        /\ \A k \in Slots : k # q.last => b[k] = q.buffer[k]
    BY <1>1 DEF QueueType
  <2> HIDE DEF b, n
  <2>3. /\ n.first = q.first /\ n.last = y /\ n.ea = q.ea /\ n.credit = q.credit
        /\ n.data_av = q.data_av /\ n.buffer = b /\ n.counter = q.counter
    BY <1>1, <2>1 DEF QueueType
  <2>4. y # q.first /\ Before(q.first) # q.last
    BY <1>1, <1>2
  <2>5. LastIn(n) = f /\ LastOut(n) = LastOut(q)
    BY <1>1, <2>2, <2>3, <2>4 DEF LastIn, LastOut
  <2>6. q.first # q.last => HeadFlit(n) = HeadFlit(q)
    BY <1>1, <2>2, <2>3 DEF HeadFlit
  <2>7. \A k \in Slots : InQueue(n, k) => k = q.last \/ (InQueue(q, k) /\ k # q.last)
    BY <1>1, <2>3, MeshAssumption DEF InQueue, Slots
  <2>8. ASSUME NEW k \in Slots
        PROVE  /\ n.buffer[k] = NoFlit \/ IsFlit(n.buffer[k], P)
               /\ InQueue(n, k) => IsFlit(n.buffer[k], P) /\ Follows(n.buffer[Before(k)], n.buffer[k])
    <3>1. CASE k = q.last
      BY <1>1, <1>2, <2>2, <2>3, <3>1 DEF LastIn
    <3>2. CASE k # q.last
      <4>1. n.buffer[k] = q.buffer[k]
        BY <2>2, <2>3, <3>2
      <4>2. ASSUME InQueue(n, k)
            PROVE  IsFlit(n.buffer[k], P) /\ Follows(n.buffer[Before(k)], n.buffer[k])
        <5>1. InQueue(q, k) /\ Before(k) \in Slots /\ After(Before(k)) = k
          BY <2>7, <3>2, <4>2, BeforeSlot
        <5>2. Before(k) # q.last
          \* k would be the place after the last one
          <6>1. SUFFICES ASSUME k = y PROVE FALSE
            BY <5>1
          <6> QED
            BY <1>1, <2>4, <5>1, <6>1, MeshAssumption DEF InQueue, Slots
        <5>3. n.buffer[Before(k)] = q.buffer[Before(k)]
          BY <2>2, <2>3, <5>1, <5>2
        <5> QED
          BY <4>1, <5>1, <5>3 DEF QueueFlow
      <4> QED
        BY <4>1, <4>2 DEF QueueFlow
    <3> QED
      BY <3>1, <3>2
  <2>9. QueueFlow(n, P)
    BY <2>3, <2>5, <2>8 DEF QueueFlow
  <2> QED
    BY <1>2, <2>3, <2>5, <2>6, <2>9 DEF n
<1>3. CASE ~(rx /\ q.credit)
  BY <1>3 DEF in_proc_updPtr
<1> QED
  BY <1>2, <1>3

\* What the queue behind an output gets from the one that has the output.
LEMMA FlowPassed ==
  ASSUME NEW P, ArePackets(P), NEW q, QueueInv(q), QueueFlow(q, P),
         NEW ack_h \in BOOLEAN, NEW c1 \in BOOLEAN, NEW c2 \in BOOLEAN, NEW last, PassedOn(q, c1, last)
  PROVE  LET u == QueueEdge(q, ack_h, q.data_av /\ c1)
         IN  /\ u.data_av => IsFlit(HeadFlit(u), P) /\ Follows(last, HeadFlit(u))
             /\ PassedOn(u, c2, IF u.data_av /\ c2 THEN HeadFlit(u) ELSE last)
<1> DEFINE dack == q.data_av /\ c1
           u == QueueEdge(q, ack_h, dack)
           Goal == /\ u.data_av => IsFlit(HeadFlit(u), P) /\ Follows(last, HeadFlit(u))
                   /\ PassedOn(u, c2, IF u.data_av /\ c2 THEN HeadFlit(u) ELSE last)
<1>1. dack \in BOOLEAN /\ (dack => q.data_av)
  OBVIOUS
<1> HIDE DEF dack
<1>2. /\ QueueInv(u) /\ QueueFlow(u, P)
      /\ IF dack THEN LastOut(u) = HeadFlit(q) /\ u.ea \in {"PAYLOAD", "END"}
         ELSE /\ LastOut(u) = LastOut(q) /\ HeadFlit(u) = HeadFlit(q)
              /\ u.ea = "PAYLOAD" <=> q.ea = "PAYLOAD"
              /\ u.ea = "SENDHEADER" <=> q.ea = "SENDHEADER" \/ (q.ea = "HEADER" /\ ack_h)
  BY <1>1, FlowEdge, QueueEdgeInv
<1> HIDE DEF u
<1>3. u.data_av => IsFlit(HeadFlit(u), P) /\ Follows(LastOut(u), HeadFlit(u))
  <2> SUFFICES ASSUME u.data_av PROVE IsFlit(HeadFlit(u), P) /\ Follows(LastOut(u), HeadFlit(u))
    OBVIOUS
  <2>1. u.first \in Slots /\ u.last \in Slots /\ u.first # u.last
    BY <1>2 DEF QueueInv, QueueType
  <2>2. InQueue(u, u.first)
    BY <2>1 DEF InQueue, Slots
  <2> QED
    BY <1>2, <2>1, <2>2 DEF QueueFlow, HeadFlit, LastOut
<1>4. /\ u.data_av => u.ea \in {"SENDHEADER", "PAYLOAD"}
      /\ u.ea # "PAYLOAD" => Ends(LastOut(u))
      /\ q.data_av => q.ea \in {"SENDHEADER", "PAYLOAD"}
      /\ q.ea = "SENDHEADER" => q.data_av
      /\ u.ea = "SENDHEADER" => u.data_av
      /\ u.data_av \in BOOLEAN
  BY <1>2 DEF QueueFlow, QueueInv, QueueType
<1>5. ASSUME dack PROVE Goal
  <2>1. last = LastOut(u) /\ u.ea \in {"PAYLOAD", "END"}
    BY <1>2, <1>4, <1>5 DEF PassedOn, dack
  <2> QED
    BY <1>3, <1>4, <2>1 DEF PassedOn
<1>6. ASSUME ~dack PROVE Goal
  <2>1. CASE q.ea = "PAYLOAD"
    <3>1. last = LastOut(u) /\ u.ea = "PAYLOAD"
      BY <1>2, <1>6, <2>1 DEF PassedOn, dack
    <3> QED
      BY <1>3, <1>4, <3>1 DEF PassedOn
  <2>2. CASE q.ea # "PAYLOAD"
    <3>1. Ends(last) /\ u.ea # "PAYLOAD"
      BY <1>2, <1>4, <1>6, <2>2 DEF PassedOn, dack
    <3>2. u.data_av => Follows(last, HeadFlit(u))
      BY <1>3, <1>4, <3>1 DEF Follows
    <3> QED
      BY <1>3, <1>4, <3>1, <3>2 DEF PassedOn
  <2> QED
    BY <2>1, <2>2
<1>7. Goal
  BY <1>5, <1>6
<1> QED
  BY <1>7 DEF u, dack

-----------------------------------------------------------------------------
(* The outputs of a router.                                                *)

Connects(s) == s.ea \in {"S4", "S5", "S6"}
HasEnded(s, qs, o) == \E p \in Ports : s.mux_in[p] = o /\ s.sender_ant[p] /\ ~qs[p].sender

\* What the rising edge of the control makes of the connections.
LEMMA ControlFields ==
  ASSUME NEW r, NEW s, NEW qs, SwitchInv(r, s, qs), \A p \in Ports : QueueInv(qs[p])
  PROVE  LET t == controle_sequ(r, s, qs)
             out == Chosen(r, s, qs)
         IN  /\ t.tx = s.tx /\ out \in Ports
             /\ t.mux_in = IF Connects(s) THEN [s.mux_in EXCEPT ![s.sel] = out] ELSE s.mux_in
             /\ t.mux_out = IF Connects(s) THEN [s.mux_out EXCEPT ![out] = s.sel] ELSE s.mux_out
             /\ \A o \in Ports : t.free[o] <=> (s.free[o] /\ ~(Connects(s) /\ o = out)) \/ HasEnded(s, qs, o)
<1> DEFINE out == Chosen(r, s, qs)
           t == controle_sequ(r, s, qs)
           m == CASE s.ea = "S1" -> [s EXCEPT !.ack = {}]
                  [] s.ea = "S2" -> [s EXCEPT !.sel = prox(s.sel, qs)]
                  [] s.ea = "S4" -> Connect(s, LOCAL_PORT)
                  [] s.ea = "S5" -> Connect(s, dirx(r, HeadFlit(qs[s.sel])[1]))
                  [] s.ea = "S6" -> Connect(s, diry(r, HeadFlit(qs[s.sel])[1]))
                  [] OTHER -> [s EXCEPT !.ack = s.ack \ {s.sel}]
           ended == {s.mux_in[p] : p \in {q \in Ports : s.sender_ant[q] /\ ~qs[q].sender}}
           free == [p \in Ports |-> m.free[p] \/ p \in ended]
           ant == [p \in Ports |-> qs[p].sender]
<1>1. SwitchType(s)
  BY DEF SwitchInv
<1>2. t = [m EXCEPT !.free = free, !.sender_ant = ant]
  BY DEF controle_sequ, Release
<1>3. out \in Ports
  BY DEF Chosen, dirx, diry, Ports, NPORT, EAST, WEST, NORTH, SOUTH, LOCAL_PORT
<1>4. Connects(s) => m = Connect(s, out)
  BY DEF Chosen, Connects
<1>5. /\ SwitchType(m) /\ m.tx = s.tx
      /\ IF Connects(s)
         THEN /\ m.mux_in = [s.mux_in EXCEPT ![s.sel] = out]
              /\ m.mux_out = [s.mux_out EXCEPT ![out] = s.sel]
              /\ m.free = [s.free EXCEPT ![out] = FALSE]
         ELSE m.mux_in = s.mux_in /\ m.mux_out = s.mux_out /\ m.free = s.free
  <2>1. CASE Connects(s)
    <3> HIDE DEF m, out
    <3>1. /\ SwitchType(m) /\ m.mux_in = [s.mux_in EXCEPT ![s.sel] = out]
          /\ m.mux_out = [s.mux_out EXCEPT ![out] = s.sel]
          /\ m.free = [s.free EXCEPT ![out] = FALSE]
      BY <1>1, <1>3, <1>4, <2>1, ConnectFields
    <3>2. m.tx = s.tx
      <4> DEFINE i == [s.mux_in EXCEPT ![s.sel] = out]
                 o == [s.mux_out EXCEPT ![out] = s.sel]
                 f == [s.free EXCEPT ![out] = FALSE]
                 a == s.ack \cup {s.sel}
      <4>1. m = [s EXCEPT !.mux_in = i, !.mux_out = o, !.free = f, !.ack = a]
        BY <1>1, <1>4, <2>1 DEF Connect, SwitchType
      <4> HIDE DEF i, o, f, a
      <4> QED
        BY <1>1, <4>1 DEF SwitchType
    <3> QED
      BY <2>1, <3>1, <3>2
  <2>2. CASE s.ea = "S2"
    <3> DEFINE x == prox(s.sel, qs)
    <3>1. x \in Ports
      <4>1. \A p \in Ports : qs[p].h \in BOOLEAN
        BY DEF QueueInv, QueueType
      <4> QED
        BY <1>1, <2>2, <4>1, NextInput DEF SwitchInv, SwitchType
    <3>2. m = [s EXCEPT !.sel = x]
      BY <2>2
    <3> HIDE DEF m, x
    <3> QED
      BY <1>1, <2>2, <3>1, <3>2 DEF SwitchType, Connects
  <2>3. CASE ~Connects(s) /\ s.ea # "S2"
    <3>1. m = IF s.ea = "S1" THEN [s EXCEPT !.ack = {}] ELSE [s EXCEPT !.ack = s.ack \ {s.sel}]
      BY <2>3 DEF Connects
    <3> HIDE DEF m
    <3> QED
      BY <1>1, <2>3, <3>1 DEF SwitchType
  <2> QED
    BY <2>1, <2>2, <2>3
<1> HIDE DEF m, t
<1>6. \A o \in Ports : o \in ended <=> HasEnded(s, qs, o)
  BY DEF HasEnded
<1>7. \A o \in Ports : free[o] <=> m.free[o] \/ o \in ended
  OBVIOUS
<1> HIDE DEF free, ant, ended, out
<1>8. t.free = free /\ t.tx = m.tx /\ t.mux_in = m.mux_in /\ t.mux_out = m.mux_out
  BY <1>2, <1>5 DEF SwitchType
<1>9. \A o \in Ports : m.free[o] <=> s.free[o] /\ ~(Connects(s) /\ o = out)
  <2>1. s.free \in [Ports -> BOOLEAN]
    BY <1>1 DEF SwitchType
  <2> QED
    BY <1>5, <2>1
<1> QED
  BY <1>3, <1>5, <1>6, <1>7, <1>8, <1>9 DEF t, out

\* An output on the rising edge: it stays with the input that has it, or is given to the
\* selected one, or is free and nothing is offered there.
Stays(s, qs, c, o) ==
  LET p == s.mux_out[o]
  IN  /\ ~s.free[o] /\ ~c.free[o] /\ c.mux_out[o] = p /\ s.mux_in[p] = o /\ c.mux_in[p] = o
      /\ p \in s.ack \/ qs[p].sender
IsGiven(s, qs, c, o) ==
  /\ s.free[o] /\ ~c.free[o] /\ c.mux_out[o] = s.sel /\ c.mux_in[s.sel] = o
  /\ Connects(s) /\ qs[s.sel].ea = "HEADER"
IsFree(s, qs, c, o) ==
  c.free[o] /\ c.tx[o] = FALSE /\ (s.free[o] \/ qs[s.mux_out[o]].ea = "END")

LEMMA OutputStep ==
  ASSUME NEW r, NEW s, NEW qs, SwitchInv(r, s, qs), SwitchFlow(s, qs),
         \A p \in Ports : QueueInv(qs[p]) /\ (qs[p].data_av => qs[p].ea \in {"SENDHEADER", "PAYLOAD"}),
         NEW o \in Ports
  PROVE  LET c == controle_sequ(r, s, qs)
         IN  /\ Stays(s, qs, c, o) \/ IsGiven(s, qs, c, o) \/ IsFree(s, qs, c, o)
             /\ IsGiven(s, qs, c, o) => o = Chosen(r, s, qs)
<1> DEFINE c == controle_sequ(r, s, qs)
           out == Chosen(r, s, qs)
           Goal == /\ Stays(s, qs, c, o) \/ IsGiven(s, qs, c, o) \/ IsFree(s, qs, c, o)
                   /\ IsGiven(s, qs, c, o) => o = out
<1>1. /\ c.tx = s.tx /\ out \in Ports
      /\ c.mux_in = IF Connects(s) THEN [s.mux_in EXCEPT ![s.sel] = out] ELSE s.mux_in
      /\ c.mux_out = IF Connects(s) THEN [s.mux_out EXCEPT ![out] = s.sel] ELSE s.mux_out
      /\ \A x \in Ports : c.free[x] <=> (s.free[x] /\ ~(Connects(s) /\ x = out)) \/ HasEnded(s, qs, x)
  BY ControlFields
<1>2. SwitchType(s) /\ s.sel \in Ports /\ s.mux_out[o] \in Ports
  BY DEF SwitchInv, SwitchType
<1>3. Connects(s) => s.free[out] /\ qs[s.sel].ea = "HEADER" /\ ~qs[s.sel].sender /\ s.sel \notin s.ack
  BY <1>2 DEF SwitchInv, Connects, QueueInv
<1> HIDE DEF c, out
<1>4. ASSUME c.free[o] PROVE Goal
  <2>1. ~IsGiven(s, qs, c, o)
    BY <1>4 DEF IsGiven
  <2>2. CASE s.free[o]
    <3>1. s.tx[o] = FALSE
      BY <2>2 DEF SwitchFlow
    <3> QED
      BY <1>1, <1>4, <2>1, <2>2, <3>1 DEF IsFree
  <2>3. CASE ~s.free[o]
    <3>1. PICK p \in Ports : s.mux_in[p] = o /\ s.sender_ant[p] /\ ~qs[p].sender
      BY <1>1, <1>4, <2>3 DEF HasEnded
    <3>2. s.mux_out[o] = p /\ qs[p].ea = "END"
      BY <3>1 DEF SwitchInv, Holding, Held
    <3>3. ~qs[p].data_av
      BY <3>2
    <3>4. s.tx[o] = FALSE
      BY <3>2, <3>3 DEF SwitchFlow
    <3> QED
      BY <1>1, <1>4, <2>1, <3>2, <3>4 DEF IsFree
  <2> QED
    BY <2>2, <2>3
<1>5. ASSUME ~c.free[o], Connects(s), o = out PROVE Goal
  <2>1. c.mux_out[o] = s.sel /\ c.mux_in[s.sel] = o
    BY <1>1, <1>2, <1>5 DEF SwitchType
  <2> QED
    BY <1>3, <1>5, <2>1 DEF IsGiven
<1>6. ASSUME ~c.free[o], ~(Connects(s) /\ o = out) PROVE Goal
  <2> DEFINE p == s.mux_out[o]
  <2>1. ~s.free[o] /\ ~HasEnded(s, qs, o)
    BY <1>1, <1>6
  <2>2. Holding(s, qs, p) /\ s.mux_in[p] = o
    BY <2>1 DEF SwitchFlow
  <2>3. p \in s.ack \/ qs[p].sender
    BY <1>2, <2>1, <2>2 DEF Holding, HasEnded
  <2>4. Connects(s) => p # s.sel
    BY <1>3, <2>3
  <2>5. c.mux_out[o] = p /\ c.mux_in[p] = o
    BY <1>1, <1>2, <1>6, <2>2, <2>4 DEF SwitchType
  <2> QED
    BY <1>6, <2>1, <2>2, <2>3, <2>5 DEF Stays, IsGiven
<1>7. Goal
  BY <1>4, <1>5, <1>6
<1> QED
  BY <1>7 DEF c, out

\* The same for a receiver that takes a flit on the edge on which it leaves.
LEMMA FlowTaken ==
  ASSUME NEW P, ArePackets(P), NEW q, QueueInv(q), QueueFlow(q, P),
         NEW ack_h \in BOOLEAN, NEW c \in BOOLEAN, NEW last, PassedOn(q, FALSE, last)
  PROVE  LET u == QueueEdge(q, ack_h, q.data_av /\ c)
         IN  /\ q.data_av => IsFlit(HeadFlit(q), P) /\ Follows(last, HeadFlit(q))
             /\ PassedOn(u, FALSE, IF q.data_av /\ c THEN HeadFlit(q) ELSE last)
<1> DEFINE dack == q.data_av /\ c
           u == QueueEdge(q, ack_h, dack)
           Goal == /\ q.data_av => IsFlit(HeadFlit(q), P) /\ Follows(last, HeadFlit(q))
                   /\ PassedOn(u, FALSE, IF dack THEN HeadFlit(q) ELSE last)
<1>1. dack \in BOOLEAN /\ (dack => q.data_av)
  OBVIOUS
<1> HIDE DEF dack
<1>2. /\ QueueInv(u) /\ QueueFlow(u, P)
      /\ IF dack THEN LastOut(u) = HeadFlit(q) /\ u.ea \in {"PAYLOAD", "END"}
         ELSE /\ LastOut(u) = LastOut(q)
              /\ u.ea = "PAYLOAD" <=> q.ea = "PAYLOAD"
  BY <1>1, FlowEdge, QueueEdgeInv
<1> HIDE DEF u
<1>3. /\ u.ea # "PAYLOAD" => Ends(LastOut(u))
      /\ q.ea # "PAYLOAD" => Ends(LastOut(q))
      /\ q.data_av => q.ea \in {"SENDHEADER", "PAYLOAD"}
  BY <1>2 DEF QueueFlow
<1>4. q.ea = "PAYLOAD" => last = LastOut(q)
  BY DEF PassedOn
<1>5. q.ea # "PAYLOAD" => Ends(last)
  BY DEF PassedOn
<1>6. q.data_av => IsFlit(HeadFlit(q), P) /\ Follows(LastOut(q), HeadFlit(q))
  <2> SUFFICES ASSUME q.data_av PROVE IsFlit(HeadFlit(q), P) /\ Follows(LastOut(q), HeadFlit(q))
    OBVIOUS
  <2>1. q.first \in Slots /\ q.last \in Slots /\ q.first # q.last
    BY DEF QueueInv, QueueType
  <2>2. InQueue(q, q.first)
    BY <2>1 DEF InQueue, Slots
  <2> QED
    BY <2>1, <2>2 DEF QueueFlow, HeadFlit, LastOut
<1>7. q.data_av => Follows(last, HeadFlit(q))
  BY <1>3, <1>4, <1>5, <1>6 DEF Follows
<1>8. PassedOn(u, FALSE, IF dack THEN HeadFlit(q) ELSE last)
  BY <1>2, <1>3, <1>4, <1>5 DEF PassedOn
<1>9. Goal
  BY <1>6, <1>7, <1>8
<1> QED
  BY <1>9 DEF u, dack

FlowOf(r, s, qs, P) ==
  /\ \A p \in Ports : QueueInv(qs[p]) /\ QueueFlow(qs[p], P)
  /\ SwitchInv(r, s, qs) /\ SwitchFlow(s, qs) /\ TargetFlow(r, s, qs)

\* What the rising edge makes of the queues and of the control, and the cycle of the control.
IsUp(s, qs, creditIn, up) ==
  \A p \in Ports : up[p] = QueueEdge(qs[p], p \in s.ack, upd_dataack(s, qs[p], p, creditIn))
IsControlUp(r, s, qs, up, sw) ==
  sw = [controle_sequ(r, s, qs) EXCEPT !.tx = upd_tx(controle_sequ(r, s, qs), up)]
IsNext(r, up, sw, n) == n = [sw EXCEPT !.ea = controle_comb(r, sw, up)]

\* What an output makes of last, the flit that came last behind it, where c is the credit
\* there: the next router takes what is offered after the edge, if it has then credit, and
\* others what was offered before it.
OutputFlow(P, s, qs, up, sw, o, c, last) ==
  /\ Given(s, qs, o, c, last) =>
       /\ sw.tx[o] => IsFlit(data_out(sw, up, o), P) /\ Follows(last, data_out(sw, up, o))
       /\ \A c2 \in BOOLEAN :
            Given(sw, up, o, c2, IF sw.tx[o] /\ c2 THEN data_out(sw, up, o) ELSE last)
  /\ Given(s, qs, o, FALSE, last) =>
       /\ s.tx[o] => IsFlit(data_out(s, qs, o), P) /\ Follows(last, data_out(s, qs, o))
       /\ Given(sw, up, o, FALSE, IF s.tx[o] /\ c THEN data_out(s, qs, o) ELSE last)

\* A rising edge of a router, for an output.
LEMMA OutputEdge ==
  ASSUME NEW P, ArePackets(P), NEW r, NEW s, NEW qs, FlowOf(r, s, qs, P),
         NEW creditIn, NEW up,
         IsUp(s, qs, creditIn, up),
         NEW sw, IsControlUp(r, s, qs, up, sw),
         NEW o \in Ports, creditIn[o] \in BOOLEAN, NEW last
  PROVE  /\ OutputFlow(P, s, qs, up, sw, o, creditIn[o], last)
         /\ sw.tx[o] = (~sw.free[o] /\ sw.mux_out[o] # o /\ up[sw.mux_out[o]].data_av)
<1> USE DEF IsUp, IsControlUp, OutputFlow
<1> DEFINE c == controle_sequ(r, s, qs)
           tx == upd_tx(c, up)
           p == s.mux_out[o]
           c1 == creditIn[o]
<1>1. /\ \A x \in Ports : QueueInv(qs[x]) /\ QueueFlow(qs[x], P)
      /\ \A x \in Ports : qs[x].data_av => qs[x].ea \in {"SENDHEADER", "PAYLOAD"}
      /\ SwitchInv(r, s, qs) /\ SwitchFlow(s, qs)
  BY DEF FlowOf, QueueFlow
<1>2. SwitchType(s) /\ SwitchType(c) /\ s.sel \in Ports /\ p \in Ports
  BY <1>1, ControlEdge DEF SwitchInv, SwitchType
<1>3. Stays(s, qs, c, o) \/ IsGiven(s, qs, c, o) \/ IsFree(s, qs, c, o)
  BY <1>1, OutputStep
<1> HIDE DEF c
<1>4. tx[o] = IF c.mux_out[o] = o THEN FALSE ELSE IF c.free[o] THEN c.tx[o] ELSE up[c.mux_out[o]].data_av
  BY DEF upd_tx
<1> HIDE DEF tx
<1>5. sw = [c EXCEPT !.tx = tx]
  BY DEF c, tx
<1>6. sw.tx = tx /\ sw.free = c.free /\ sw.mux_out = c.mux_out
  BY <1>2, <1>5 DEF SwitchType
<1>7. s.tx[o] = (~s.free[o] /\ p # o /\ qs[p].data_av)
  BY <1>1 DEF SwitchFlow
<1>8. c.mux_out[o] \in Ports /\ c.free[o] \in BOOLEAN /\ s.free[o] \in BOOLEAN
  BY <1>2 DEF SwitchType
<1> HIDE DEF p, c1
<1>9. \A x \in Ports : up[x].data_av \in BOOLEAN
  <2> SUFFICES ASSUME NEW x \in Ports PROVE up[x].data_av \in BOOLEAN
    OBVIOUS
  <2> DEFINE d == upd_dataack(s, qs[x], x, creditIn)
             a == x \in s.ack
  <2>1. d \in BOOLEAN /\ (d => qs[x].data_av) /\ a \in BOOLEAN
    BY DEF upd_dataack
  <2>2. up[x] = QueueEdge(qs[x], a, d) /\ QueueInv(qs[x])
    BY <1>1
  <2> HIDE DEF a, d
  <2>3. QueueInv(up[x])
    BY <2>1, <2>2, QueueEdgeInv
  <2> QED
    BY <2>3 DEF QueueInv, QueueType
<1>10. CASE Stays(s, qs, c, o)
  <2>1. ~c.free[o] /\ ~s.free[o] /\ c.mux_out[o] = p /\ s.mux_in[p] = o
    BY <1>10 DEF Stays, p
  <2>2. CASE p = o
    BY <1>4, <1>6, <1>7, <2>1, <2>2 DEF Given, p
  <2>3. CASE p # o
    <3> DEFINE a == p \in s.ack
               u == QueueEdge(qs[p], a, qs[p].data_av /\ c1)
    <3>1. up[p] = u
      BY <1>2, <2>1, <2>3 DEF upd_dataack, c1
    <3>2. a \in BOOLEAN /\ c1 \in BOOLEAN /\ QueueInv(qs[p]) /\ QueueFlow(qs[p], P)
      BY <1>1, <1>2 DEF c1
    <3> HIDE DEF a
    <3>3. ASSUME PassedOn(qs[p], c1, last), NEW c2 \in BOOLEAN
          PROVE  /\ u.data_av => IsFlit(HeadFlit(u), P) /\ Follows(last, HeadFlit(u))
                 /\ PassedOn(u, c2, IF u.data_av /\ c2 THEN HeadFlit(u) ELSE last)
      BY <3>2, <3>3, FlowPassed
    <3>4. ASSUME PassedOn(qs[p], FALSE, last)
          PROVE  /\ qs[p].data_av => IsFlit(HeadFlit(qs[p]), P) /\ Follows(last, HeadFlit(qs[p]))
                 /\ PassedOn(u, FALSE, IF qs[p].data_av /\ c1 THEN HeadFlit(qs[p]) ELSE last)
      BY <3>2, <3>4, FlowTaken
    <3> HIDE DEF u
    <3>5. tx[o] = u.data_av /\ data_out(sw, up, o) = HeadFlit(u)
      BY <1>4, <1>6, <2>1, <2>3, <3>1 DEF data_out
    <3>6. s.tx[o] = qs[p].data_av /\ data_out(s, qs, o) = HeadFlit(qs[p])
      <4>1. qs[p].data_av \in BOOLEAN
        BY <3>2 DEF QueueInv, QueueType
      <4> QED
        BY <1>7, <2>1, <2>3, <4>1 DEF data_out, p
    <3>7. \A x, l : Given(s, qs, o, x, l) <=> PassedOn(qs[p], x, l)
      BY <2>1, <2>3 DEF Given, p
    <3>8. \A x, l : Given(sw, up, o, x, l) <=> PassedOn(u, x, l)
      BY <1>6, <2>1, <2>3, <3>1 DEF Given
    <3>9. sw.tx[o] = (~sw.free[o] /\ sw.mux_out[o] # o /\ up[sw.mux_out[o]].data_av)
      BY <1>2, <1>6, <1>9, <2>1, <2>3, <3>1, <3>5
    <3> QED
      BY <1>6, <3>3, <3>4, <3>5, <3>6, <3>7, <3>8, <3>9 DEF c1
  <2> QED
    BY <2>2, <2>3
<1>11. CASE IsGiven(s, qs, c, o)
  <2>1. /\ s.free[o] /\ ~c.free[o] /\ c.mux_out[o] = s.sel /\ qs[s.sel].ea = "HEADER"
        /\ s.sel \notin s.ack
    BY <1>1, <1>2, <1>11 DEF IsGiven, Connects, SwitchInv
  <2>2. up[s.sel].ea = "HEADER" /\ ~up[s.sel].data_av
    <3> DEFINE d == upd_dataack(s, qs[s.sel], s.sel, creditIn)
               a == s.sel \in s.ack
    <3>1. d \in BOOLEAN /\ (d => qs[s.sel].data_av) /\ up[s.sel] = QueueEdge(qs[s.sel], a, d)
      BY <1>2 DEF upd_dataack
    <3>2. a \in BOOLEAN /\ ~a
      BY <2>1
    <3> HIDE DEF a, d
    <3> DEFINE q == qs[s.sel]
               u == QueueEdge(q, a, d)
    <3>3. QueueInv(q) /\ QueueFlow(q, P) /\ q.ea = "HEADER"
      BY <1>1, <1>2, <2>1
    <3> HIDE DEF q
    <3>4. u.ea = "HEADER"
      BY <3>1, <3>2, <3>3, QueueEdgeInv DEF q
    <3>5. QueueFlow(u, P)
      BY <3>1, <3>2, <3>3, FlowEdge DEF q
    <3>6. up[s.sel] = u
      BY <3>1 DEF q
    <3> QED
      BY <3>4, <3>5, <3>6 DEF QueueFlow
  <2>3. tx[o] = FALSE /\ s.tx[o] = FALSE
    BY <1>2, <1>4, <1>7, <1>9, <2>1, <2>2
  <2>4. \A x, l : Given(s, qs, o, x, l) => Ends(l)
    BY <2>1 DEF Given
  <2>5. \A x, l : Ends(l) => Given(sw, up, o, x, l)
    BY <1>6, <2>1, <2>2 DEF Given, PassedOn
  <2>6. sw.tx[o] = (~sw.free[o] /\ sw.mux_out[o] # o /\ up[sw.mux_out[o]].data_av)
    BY <1>6, <2>1, <2>2, <2>3
  <2> QED
    BY <1>6, <2>3, <2>4, <2>5, <2>6
<1>12. CASE IsFree(s, qs, c, o)
  <2>1. c.free[o] /\ c.tx[o] = FALSE /\ (s.free[o] \/ qs[p].ea = "END")
    BY <1>12 DEF IsFree, p
  <2>2. tx[o] = FALSE
    BY <1>4, <2>1
  <2>3. s.tx[o] = FALSE
    BY <1>1, <1>2, <1>7, <2>1 DEF p
  <2>4. \A x, l : Given(s, qs, o, x, l) => Ends(l)
    BY <2>1 DEF Given, PassedOn, p
  <2>5. \A x, l : Ends(l) => Given(sw, up, o, x, l)
    BY <1>6, <2>1 DEF Given
  <2>6. sw.tx[o] = (~sw.free[o] /\ sw.mux_out[o] # o /\ up[sw.mux_out[o]].data_av)
    BY <1>6, <2>1, <2>2
  <2> QED
    BY <1>6, <2>2, <2>3, <2>4, <2>5, <2>6
<1> QED
  BY <1>3, <1>10, <1>11, <1>12

SameFront(u, n) ==
  /\ n.ea = u.ea /\ n.data_av = u.data_av /\ LastOut(n) = LastOut(u)
  /\ u.first # u.last => HeadFlit(n) = HeadFlit(u)

LEMMA ControlInput ==
  ASSUME NEW r, NEW s, NEW qs, SwitchInv(r, s, qs), \A p \in Ports : QueueInv(qs[p])
  PROVE  controle_sequ(r, s, qs).mux_in =
           IF Connects(s) THEN [s.mux_in EXCEPT ![s.sel] = Chosen(r, s, qs)] ELSE s.mux_in
<1> DEFINE t == controle_sequ(r, s, qs)
           out == Chosen(r, s, qs)
<1>1. /\ t.tx = s.tx /\ out \in Ports
      /\ t.mux_in = IF Connects(s) THEN [s.mux_in EXCEPT ![s.sel] = out] ELSE s.mux_in
      /\ t.mux_out = IF Connects(s) THEN [s.mux_out EXCEPT ![out] = s.sel] ELSE s.mux_out
      /\ \A x \in Ports : t.free[x] <=> (s.free[x] /\ ~(Connects(s) /\ x = out)) \/ HasEnded(s, qs, x)
  BY ControlFields
<1> QED
  BY <1>1

\* A cycle of a router in which its queues become up, then nq, and its control sw, then n.
LEMMA RouterFlow ==
  ASSUME NEW P, ArePackets(P), NEW r, NEW s, NEW qs, FlowOf(r, s, qs, P),
         NEW creditIn, \A p \in Ports : creditIn[p] \in BOOLEAN, NEW up,
         IsUp(s, qs, creditIn, up),
         NEW sw, IsControlUp(r, s, qs, up, sw),
         NEW nq, \A p \in Ports : QueueInv(nq[p]) /\ SameFront(up[p], nq[p]),
         NEW n, IsNext(r, up, sw, n)
  PROVE  /\ SwitchFlow(n, nq) /\ TargetFlow(r, n, nq)
         /\ \A o \in Ports : \A x, l : Given(sw, up, o, x, l) => Given(n, nq, o, x, l)
<1> USE DEF IsUp, IsControlUp, IsNext
<1> DEFINE c == controle_sequ(r, s, qs)
<1>1. /\ \A p \in Ports : QueueInv(qs[p]) /\ QueueFlow(qs[p], P)
      /\ \A p \in Ports : qs[p].data_av => qs[p].ea \in {"SENDHEADER", "PAYLOAD"}
      /\ SwitchInv(r, s, qs) /\ SwitchFlow(s, qs) /\ TargetFlow(r, s, qs)
  BY DEF FlowOf, QueueFlow
<1>2. /\ SwitchType(s) /\ SwitchType(c) /\ c.ea = s.ea
      /\ c.ack = IF Connects(s) THEN {s.sel} ELSE {}
      /\ s.ea = "S3" => c.sel = s.sel
      /\ \A p \in Ports : c.sender_ant[p] = qs[p].sender
  BY <1>1, ControlEdge DEF SwitchInv, Connects
<1>3. \A o \in Ports : /\ Stays(s, qs, c, o) \/ IsGiven(s, qs, c, o) \/ IsFree(s, qs, c, o)
                       /\ IsGiven(s, qs, c, o) => o = Chosen(r, s, qs)
  BY <1>1, OutputStep
<1>4. c.mux_in = IF Connects(s) THEN [s.mux_in EXCEPT ![s.sel] = Chosen(r, s, qs)] ELSE s.mux_in
  BY <1>1, ControlInput
\* The queues on the edge.
<1>5. ASSUME NEW p \in Ports
      PROVE  LET q == qs[p]
                 u == up[p]
             IN  /\ QueueInv(u)
                 /\ u.sender => q.sender \/ (p \in s.ack /\ q.ea = "HEADER")
                 /\ p \in s.ack => u.sender
                 /\ p \notin s.ack /\ q.ea = "HEADER" => u.ea = "HEADER" /\ HeadFlit(u) = HeadFlit(q)
                 /\ u.sender => Carried(u) = Carried(q)
                 /\ p \in s.ack => q.ea = "HEADER"
  <2> DEFINE q == qs[p]
             u == up[p]
             d == upd_dataack(s, q, p, creditIn)
             a == p \in s.ack
  <2>1. d \in BOOLEAN /\ (d => q.data_av) /\ a \in BOOLEAN
    BY DEF upd_dataack
  <2>2. u = QueueEdge(q, a, d) /\ QueueInv(q) /\ QueueFlow(q, P)
    BY <1>1
  <2>3. a => q.ea = "HEADER"
    BY <1>1 DEF SwitchInv
  <2> HIDE DEF a, d, q, u
  <2>4. /\ QueueInv(u)
        /\ u.sender => q.sender \/ (a /\ q.ea = "HEADER")
        /\ ~a /\ q.ea = "HEADER" => u.ea = "HEADER"
    BY <2>1, <2>2, QueueEdgeInv
  <2>5. /\ a => u.ea = "SENDHEADER"
        /\ u.ea \in {"SENDHEADER", "PAYLOAD"} => Carried(u) = Carried(q)
        /\ ~d => HeadFlit(u) = HeadFlit(q)
    BY <2>1, <2>2, <2>3, FlowEdge
  <2>6. u.sender <=> u.ea \in {"SENDHEADER", "PAYLOAD"}
    BY <2>4 DEF QueueInv
  <2>7. q.ea = "HEADER" => ~d
    BY <2>1, <2>2 DEF QueueFlow
  <2> QED
    BY <2>3, <2>4, <2>5, <2>6, <2>7 DEF a, q, u
<1> DEFINE t == upd_tx(c, up)
           ea == controle_comb(r, sw, up)
<1>6. sw = [c EXCEPT !.tx = t]
  OBVIOUS
<1> HIDE DEF c, t, ea
<1>7. /\ sw.free = c.free /\ sw.mux_out = c.mux_out /\ sw.mux_in = c.mux_in /\ sw.sel = c.sel
      /\ sw.ea = s.ea /\ sw.ack = c.ack /\ sw.sender_ant = c.sender_ant
      /\ DOMAIN sw = DOMAIN c
  BY <1>2, <1>6 DEF SwitchType
<1>8. n = [sw EXCEPT !.ea = ea]
  BY DEF ea
<1>9. /\ n.free = c.free /\ n.mux_out = c.mux_out /\ n.mux_in = c.mux_in /\ n.sel = c.sel
      /\ n.ea = ea /\ n.ack = c.ack /\ n.sender_ant = c.sender_ant /\ n.tx = sw.tx
  BY <1>2, <1>7, <1>8 DEF SwitchType
<1>10. \A p \in Ports : /\ nq[p].sender = up[p].sender /\ nq[p].ea = up[p].ea
                        /\ nq[p].data_av = up[p].data_av /\ LastOut(nq[p]) = LastOut(up[p])
                        /\ nq[p].data_av \/ nq[p].ea = "HEADER" => HeadFlit(nq[p]) = HeadFlit(up[p])
  BY <1>5 DEF SameFront, QueueInv, QueueType
<1>11. s.sel \in Ports /\ \A o \in Ports : s.mux_out[o] \in Ports /\ c.mux_out[o] \in Ports
  BY <1>2 DEF SwitchType
<1>12. ASSUME NEW o \in Ports
       PROVE  LET p == n.mux_out[o]
              IN  /\ ~n.free[o] => Holding(n, nq, p) /\ n.mux_in[p] = o
                  /\ n.tx[o] = (~n.free[o] /\ p # o /\ nq[p].data_av)
  <2> DEFINE p == n.mux_out[o]
  <2>1. n.tx[o] = (~n.free[o] /\ p # o /\ nq[p].data_av)
    <3>1. t[o] = IF p = o THEN FALSE ELSE IF n.free[o] THEN c.tx[o] ELSE nq[p].data_av
      BY <1>9, <1>10, <1>11 DEF t, upd_tx
    <3>2. n.free[o] => c.tx[o] = FALSE
      BY <1>3, <1>9 DEF IsFree, Stays, IsGiven
    <3>3. n.tx = t
      BY <1>2, <1>6, <1>9 DEF SwitchType
    <3>4. n.free[o] \in BOOLEAN /\ nq[p].data_av \in BOOLEAN
      BY <1>2, <1>9, <1>11 DEF SwitchType, QueueInv, QueueType
    <3> HIDE DEF p
    <3> QED
      BY <3>1, <3>2, <3>3, <3>4
  <2>2. CASE Stays(s, qs, c, o)
    <3>1. p = s.mux_out[o] /\ n.mux_in[p] = o /\ (p \in s.ack \/ qs[p].sender)
      BY <1>9, <2>2 DEF Stays
    <3>2. Holding(n, nq, p)
      BY <1>2, <1>5, <1>9, <1>10, <1>11, <3>1 DEF Holding
    <3> QED
      BY <2>1, <3>1, <3>2
  <2>3. CASE IsGiven(s, qs, c, o)
    <3>1. p = s.sel /\ n.mux_in[p] = o /\ p \in n.ack
      BY <1>2, <1>9, <2>3 DEF IsGiven
    <3> QED
      BY <2>1, <3>1 DEF Holding
  <2>4. CASE IsFree(s, qs, c, o)
    BY <1>9, <2>1, <2>4 DEF IsFree
  <2> QED
    BY <1>3, <2>2, <2>3, <2>4
<1>13. SwitchFlow(n, nq)
  BY <1>12 DEF SwitchFlow
<1>14. ASSUME n.ea = "S4"
       PROVE  IsFor(r, HeadFlit(nq[n.sel])[1])
  <2>1. s.ea = "S3" /\ IsFor(r, HeadFlit(up[s.sel])[1])
    <3>1. controle_comb(r, sw, up) = "S4"
      BY <1>9, <1>14 DEF ea
    <3>2. s.ea \in SwitchStates
      BY <1>2 DEF SwitchType
    <3>3. s.ea = "S3"
      BY <1>7, <3>1, <3>2 DEF controle_comb, SwitchStates
    <3>4. Routed(r, sw, HeadFlit(up[s.sel])[1]) = "S4"
      BY <1>2, <1>7, <3>1, <3>3 DEF controle_comb
    <3> QED
      BY <3>3, <3>4 DEF Routed, IsFor
  <2>2. n.sel = s.sel /\ qs[s.sel].ea = "HEADER" /\ s.sel \notin s.ack
    BY <1>1, <1>2, <1>9, <2>1 DEF SwitchInv
  <2>3. nq[s.sel].ea = "HEADER"
    BY <1>5, <1>10, <1>11, <2>2
  <2> QED
    BY <1>10, <1>11, <2>1, <2>2, <2>3
<1>15. ASSUME NEW p \in Ports, p \in n.ack \/ nq[p].sender, n.mux_in[p] = LOCAL_PORT
       PROVE  IsFor(r, Carried(nq[p]))
  <2>1. LOCAL_PORT \in Ports /\ \A f : dirx(r, f) # LOCAL_PORT /\ diry(r, f) # LOCAL_PORT
    BY DEF Ports, NPORT, LOCAL_PORT, dirx, diry, EAST, WEST, NORTH, SOUTH
  <2>2. Connects(s) => /\ s.sel \notin s.ack /\ ~qs[s.sel].sender /\ qs[s.sel].ea = "HEADER"
                       /\ ~up[s.sel].sender /\ nq[s.sel].ea = "HEADER"
                       /\ HeadFlit(nq[s.sel]) = HeadFlit(qs[s.sel])
    <3> SUFFICES ASSUME Connects(s)
                 PROVE  /\ s.sel \notin s.ack /\ ~qs[s.sel].sender /\ qs[s.sel].ea = "HEADER"
                        /\ ~up[s.sel].sender /\ nq[s.sel].ea = "HEADER"
                        /\ HeadFlit(nq[s.sel]) = HeadFlit(qs[s.sel])
      OBVIOUS
    <3>1. s.sel \notin s.ack /\ qs[s.sel].ea = "HEADER"
      BY <1>1 DEF SwitchInv, Connects
    <3>2. ~qs[s.sel].sender
      BY <1>1, <1>11, <3>1 DEF QueueInv
    <3> QED
      BY <1>5, <1>10, <1>11, <3>1, <3>2
  <2>3. CASE p \in n.ack
    <3>1. Connects(s) /\ p = s.sel
      BY <1>2, <1>9, <2>3
    <3>2. Chosen(r, s, qs) = LOCAL_PORT
      <4>1. c.mux_in = [s.mux_in EXCEPT ![s.sel] = Chosen(r, s, qs)]
        BY <1>4, <3>1
      <4> QED
        BY <1>2, <1>9, <1>11, <1>15, <3>1, <4>1 DEF SwitchType
    <3>3. s.ea = "S4"
      BY <2>1, <3>1, <3>2 DEF Chosen, Connects
    <3>4. IsFor(r, HeadFlit(qs[s.sel])[1])
      BY <1>1, <3>3 DEF TargetFlow
    <3> QED
      BY <2>2, <3>1, <3>4 DEF Carried
  <2>4. CASE p \notin n.ack /\ nq[p].sender
    <3>1. up[p].sender /\ (p \in s.ack \/ qs[p].sender) /\ Carried(up[p]) = Carried(qs[p])
      BY <1>5, <1>10, <2>4
    <3>2. c.mux_in[p] = s.mux_in[p]
      <4>1. Connects(s) => p # s.sel
        BY <2>2, <3>1
      <4>2. c.mux_in = IF Connects(s) THEN [s.mux_in EXCEPT ![s.sel] = Chosen(r, s, qs)] ELSE s.mux_in
        BY <1>4
      <4> QED
        BY <1>2, <4>1, <4>2 DEF SwitchType
    <3>3. IsFor(r, Carried(qs[p]))
      BY <1>1, <1>9, <1>15, <3>1, <3>2 DEF TargetFlow
    <3>4. Carried(nq[p]) = Carried(up[p])
      <4>1. nq[p].ea \in {"SENDHEADER", "PAYLOAD"} /\ (nq[p].ea = "SENDHEADER" => nq[p].data_av)
        BY <2>4 DEF QueueInv
      <4> QED
        BY <1>10, <4>1 DEF Carried
    <3> QED
      BY <3>1, <3>3, <3>4
  <2> QED
    BY <1>15, <2>3, <2>4
<1>16. TargetFlow(r, n, nq)
  BY <1>14, <1>15 DEF TargetFlow
<1>17. ASSUME NEW o \in Ports, NEW x, NEW l, Given(sw, up, o, x, l)
       PROVE  Given(n, nq, o, x, l)
  <2>1. CASE ~sw.free[o] /\ sw.mux_out[o] # o
    <3> DEFINE p == sw.mux_out[o]
    <3>1. PassedOn(up[p], x, l) /\ p \in Ports
      BY <1>7, <1>11, <1>17, <2>1 DEF Given
    <3>2. PassedOn(nq[p], x, l)
      BY <1>10, <3>1 DEF PassedOn
    <3> QED
      BY <1>7, <1>9, <2>1, <3>2 DEF Given
  <2>2. CASE ~(~sw.free[o] /\ sw.mux_out[o] # o)
    BY <1>7, <1>9, <1>17, <2>2 DEF Given
  <2> QED
    BY <2>1, <2>2
<1> QED
  BY <1>13, <1>16, <1>17

-----------------------------------------------------------------------------
(* The links.                                                              *)

\* A link seen from its other end.
LEMMA LinkEnds ==
  ASSUME NEW r \in Routers, NEW p \in Ports, IsLink(r, p)
  PROVE  LET n == Neighbour(r, p)
             o == Opposite(p)
         IN  n \in Routers /\ o \in Ports /\ IsLink(n, o) /\ Neighbour(n, o) = r /\ Opposite(o) = p
<1> DEFINE n == Neighbour(r, p)
           o == Opposite(p)
<1>1. /\ r = <<r[1], r[2]>> /\ r[1] \in 0 .. XCnt - 1 /\ r[2] \in 0 .. YCnt - 1
      /\ XCnt \in Nat /\ YCnt \in Nat
  BY MeshAssumption DEF Routers
<1>2. n \in Routers /\ p \in {EAST, WEST, NORTH, SOUTH}
  BY DEF IsLink, Ports, NPORT, EAST, WEST, NORTH, SOUTH, LOCAL_PORT
<1>3. CASE p = EAST
  <2>1. n = <<r[1] + 1, r[2]>> /\ o = WEST /\ Neighbour(n, o) = <<n[1] - 1, n[2]>> /\ Opposite(o) = p
    BY <1>3 DEF Neighbour, Opposite, EAST, WEST, NORTH, SOUTH, LOCAL_PORT
  <2>2. Neighbour(n, o) = r
    BY <1>1, <2>1
  <2> QED
    BY <1>2, <2>1, <2>2 DEF IsLink, EAST, WEST, LOCAL_PORT, Ports, NPORT
<1>4. CASE p = WEST
  <2>1. n = <<r[1] - 1, r[2]>> /\ o = EAST /\ Neighbour(n, o) = <<n[1] + 1, n[2]>> /\ Opposite(o) = p
    BY <1>4 DEF Neighbour, Opposite, EAST, WEST, NORTH, SOUTH, LOCAL_PORT
  <2>2. Neighbour(n, o) = r
    BY <1>1, <2>1
  <2> QED
    BY <1>2, <2>1, <2>2 DEF IsLink, EAST, WEST, LOCAL_PORT, Ports, NPORT
<1>5. CASE p = NORTH
  <2>1. n = <<r[1], r[2] + 1>> /\ o = SOUTH /\ Neighbour(n, o) = <<n[1], n[2] - 1>> /\ Opposite(o) = p
    BY <1>5 DEF Neighbour, Opposite, EAST, WEST, NORTH, SOUTH, LOCAL_PORT
  <2>2. Neighbour(n, o) = r
    BY <1>1, <2>1
  <2> QED
    BY <1>2, <2>1, <2>2 DEF IsLink, SOUTH, LOCAL_PORT, Ports, NPORT
<1>6. CASE p = SOUTH
  <2>1. n = <<r[1], r[2] - 1>> /\ o = NORTH /\ Neighbour(n, o) = <<n[1], n[2] + 1>> /\ Opposite(o) = p
    BY <1>6 DEF Neighbour, Opposite, EAST, WEST, NORTH, SOUTH, LOCAL_PORT
  <2>2. Neighbour(n, o) = r
    BY <1>1, <2>1
  <2> QED
    BY <1>2, <2>1, <2>2 DEF IsLink, NORTH, LOCAL_PORT, Ports, NPORT
<1> QED
  BY <1>2, <1>3, <1>4, <1>5, <1>6

\* What the outer ports give: a credit, and flits of P of which each that is taken follows
\* the one taken before it.
Credits(outer) == \A r \in Routers, p \in Ports : ~IsLink(r, p) => outer[r][p] \in BOOLEAN
Offers(driven, P) ==
  \A r \in Routers, p \in Ports :
    ~IsLink(r, p) =>
      /\ driven[r][p][1] \in BOOLEAN
      /\ driven[r][p][1] /\ in_proc_FSM(fila[r][p]) =>
           IsFlit(driven[r][p][2], P) /\ Follows(LastIn(fila[r][p]), driven[r][p][2])

\* The rising edge of a router among the others.
LEMMA FlowUp ==
  ASSUME HermesInv, NEW P, ArePackets(P), FlowInv(fila, switch, P), NEW outer, Credits(outer),
         NEW r \in Routers
  PROVE  /\ FlowOf(r, switch[r], fila[r], P)
         /\ \A p \in Ports :
              LET q == fila[r][p]
                  u == QueuesUp(r, outer)[p]
              IN  /\ CreditIn(r, outer)[p] \in BOOLEAN
                  /\ u = QueueEdge(q, p \in switch[r].ack, upd_dataack(switch[r], q, p, CreditIn(r, outer)))
                  /\ QueueInv(u) /\ QueueFlow(u, P) /\ LastIn(u) = LastIn(q)
                  /\ u.credit = in_proc_FSM(q) /\ u.credit \in BOOLEAN
                  /\ ~(u.credit /\ After(u.last) = u.first)
<1>1. FlowOf(r, switch[r], fila[r], P)
  BY DEF HermesInv, FlowInv, FlowOf
<1>2. ASSUME NEW p \in Ports
      PROVE  CreditIn(r, outer)[p] \in BOOLEAN
  <2>1. CASE IsLink(r, p)
    <3> DEFINE n == Neighbour(r, p)
               o == Opposite(p)
    <3>1. n \in Routers /\ o \in Ports
      BY <2>1, LinkEnds
    <3> HIDE DEF n, o
    <3>2. fila[n][o].credit \in BOOLEAN
      BY <3>1 DEF HermesInv, QueueInv, QueueType
    <3> QED
      BY <2>1, <3>2 DEF CreditIn, n, o
  <2>2. CASE ~IsLink(r, p)
    BY <2>2 DEF CreditIn, Credits
  <2> QED
    BY <2>1, <2>2
<1>3. ASSUME NEW p \in Ports
      PROVE  LET q == fila[r][p]
                 u == QueuesUp(r, outer)[p]
             IN  /\ u = QueueEdge(q, p \in switch[r].ack, upd_dataack(switch[r], q, p, CreditIn(r, outer)))
                 /\ QueueInv(u) /\ QueueFlow(u, P) /\ LastIn(u) = LastIn(q)
                 /\ u.credit = in_proc_FSM(q) /\ u.credit \in BOOLEAN
                 /\ ~(u.credit /\ After(u.last) = u.first)
  <2> DEFINE q == fila[r][p]
             u == QueuesUp(r, outer)[p]
             a == p \in switch[r].ack
             d == upd_dataack(switch[r], q, p, CreditIn(r, outer))
  <2>1. u = QueueEdge(q, a, d)
    BY DEF QueuesUp
  <2>2. a \in BOOLEAN /\ d \in BOOLEAN /\ (d => q.data_av)
    BY DEF upd_dataack
  <2>3. QueueInv(q) /\ QueueFlow(q, P)
    BY <1>1 DEF FlowOf
  <2> HIDE DEF a, d, q, u
  <2>4. QueueFlow(u, P) /\ LastIn(u) = LastIn(q)
    BY <2>1, <2>2, <2>3, FlowEdge
  <2>5. QueueInv(u) /\ ~(u.credit /\ After(u.last) = u.first)
    BY <2>1, <2>2, <2>3, QueueEdgeInv
  <2>6. u.credit \in BOOLEAN
    BY <2>5 DEF QueueInv, QueueType
  <2>7. u.credit = in_proc_FSM(q)
    <3> DEFINE m == out_proc_FSM(q, a, d)
               c == in_proc_FSM(q)
    <3>1. u = [m EXCEPT !.credit = c]
      BY <2>1 DEF QueueEdge
    <3> HIDE DEF m, c
    <3>2. DOMAIN u = DOMAIN m /\ "credit" \in DOMAIN u
      BY <2>5, <3>1 DEF QueueInv, QueueType
    <3> QED
      BY <3>1, <3>2 DEF c
  <2> QED
    BY <2>1, <2>4, <2>5, <2>6, <2>7 DEF a, d, q, u
<1> QED
  BY <1>1, <1>2, <1>3

\* A cycle of the network.
LEMMA FlowStep ==
  ASSUME HermesInv, NEW P, ArePackets(P), FlowInv(fila, switch, P),
         NEW outer, Credits(outer), NEW driven, Offers(driven, P), HermesClock(outer, driven)
  PROVE  /\ FlowInv(fila', switch', P)
         /\ \A r \in Routers, p \in Ports :
              ~IsLink(r, p) =>
                /\ LastIn(fila'[r][p]) = IF driven[r][p][1] /\ in_proc_FSM(fila[r][p])
                                         THEN driven[r][p][2] ELSE LastIn(fila[r][p])
                /\ fila'[r][p].credit = in_proc_FSM(fila[r][p])
         /\ \A r \in Routers, p \in Ports : \A last :
              Given(switch[r], fila[r], p, FALSE, last) =>
                LET f == data_out(switch[r], fila[r], p)
                IN  /\ switch[r].tx[p] => IsFlit(f, P) /\ Follows(last, f)
                    /\ Given(switch'[r], fila'[r], p, FALSE,
                             IF switch[r].tx[p] /\ CreditIn(r, outer)[p] THEN f ELSE last)
<1> DEFINE up == [i \in Routers |-> QueuesUp(i, outer)]
           sw == [i \in Routers |-> SwitchUp(i, up[i])]
           wire(i, p) == IF ~IsLink(i, p) THEN driven[i][p]
                         ELSE LET n == Neighbour(i, p)
                                  o == Opposite(p)
                              IN  <<sw[n].tx[o], data_out(sw[n], up[n], o)>>
           ci(r) == CreditIn(r, outer)
<1>1. /\ fila' = [i \in Routers |-> [p \in Ports |->
                     LET w == wire(i, p) IN in_proc_updPtr(up[i][p], w[1], w[2])]]
      /\ switch' = [i \in Routers |-> [sw[i] EXCEPT !.ea = controle_comb(i, sw[i], up[i])]]
  BY DEF HermesClock
<1>2. ASSUME NEW r \in Routers
      PROVE  /\ FlowOf(r, switch[r], fila[r], P)
             /\ \A p \in Ports :
                  LET q == fila[r][p]
                      u == up[r][p]
                  IN  /\ ci(r)[p] \in BOOLEAN
                      /\ u = QueueEdge(q, p \in switch[r].ack, upd_dataack(switch[r], q, p, ci(r)))
                      /\ QueueInv(u) /\ QueueFlow(u, P) /\ LastIn(u) = LastIn(q)
                      /\ u.credit = in_proc_FSM(q) /\ u.credit \in BOOLEAN
                      /\ ~(u.credit /\ After(u.last) = u.first)
             /\ sw[r] = [controle_sequ(r, switch[r], fila[r]) EXCEPT
                           !.tx = upd_tx(controle_sequ(r, switch[r], fila[r]), up[r])]
  BY FlowUp DEF SwitchUp
<1> HIDE DEF up, sw, ci
\* The outputs.
<1>3. ASSUME NEW r \in Routers, NEW o \in Ports, NEW last
      PROVE  /\ Given(switch[r], fila[r], o, ci(r)[o], last) =>
                  /\ sw[r].tx[o] => IsFlit(data_out(sw[r], up[r], o), P) /\ Follows(last, data_out(sw[r], up[r], o))
                  /\ \A c2 \in BOOLEAN :
                       Given(sw[r], up[r], o, c2, IF sw[r].tx[o] /\ c2 THEN data_out(sw[r], up[r], o) ELSE last)
             /\ Given(switch[r], fila[r], o, FALSE, last) =>
                  /\ switch[r].tx[o] =>
                       /\ IsFlit(data_out(switch[r], fila[r], o), P)
                       /\ Follows(last, data_out(switch[r], fila[r], o))
                  /\ Given(sw[r], up[r], o, FALSE,
                           IF switch[r].tx[o] /\ ci(r)[o] THEN data_out(switch[r], fila[r], o) ELSE last)
             /\ sw[r].tx[o] \in BOOLEAN
  <2> DEFINE s == switch[r]
             qs == fila[r]
             v == up[r]
             w == sw[r]
             c == ci(r)
  <2>1. /\ FlowOf(r, s, qs, P)
        /\ IsUp(s, qs, c, v) /\ IsControlUp(r, s, qs, v, w)
        /\ c[o] \in BOOLEAN
    BY <1>2 DEF IsUp, IsControlUp
  <2> HIDE DEF s, qs, v, w, c
  <2>2. /\ OutputFlow(P, s, qs, v, w, o, c[o], last)
        /\ w.tx[o] = (~w.free[o] /\ w.mux_out[o] # o /\ v[w.mux_out[o]].data_av)
    BY <2>1, OutputEdge
  <2>3. w.tx[o] \in BOOLEAN
    BY <2>2
  <2> QED
    BY <2>2, <2>3 DEF OutputFlow, s, qs, v, w, c
\* The inputs.
<1>4. ASSUME NEW r \in Routers, NEW p \in Ports
      PROVE  LET u == up[r][p]
                 rx == wire(r, p)[1]
                 f == wire(r, p)[2]
                 n == fila'[r][p]
             IN  /\ QueueFlow(n, P) /\ SameFront(u, n) /\ n.credit = u.credit
                 /\ LastIn(n) = IF rx /\ u.credit THEN f ELSE LastIn(fila[r][p])
  <2> DEFINE u == up[r][p]
             w == wire(r, p)
             rx == w[1]
             f == w[2]
             n == fila'[r][p]
  <2>1. n = in_proc_updPtr(u, rx, f)
    BY <1>1
  <2>2. /\ QueueInv(u) /\ QueueFlow(u, P) /\ LastIn(u) = LastIn(fila[r][p])
        /\ u.credit = in_proc_FSM(fila[r][p])
        /\ ~(u.credit /\ After(u.last) = u.first)
    BY <1>2
  <2>3. rx \in BOOLEAN /\ (rx /\ u.credit => IsFlit(f, P) /\ Follows(LastIn(u), f))
    <3>1. CASE IsLink(r, p)
      <4> DEFINE m == Neighbour(r, p)
                 o == Opposite(p)
      <4>1. m \in Routers /\ o \in Ports /\ IsLink(m, o) /\ Neighbour(m, o) = r /\ Opposite(o) = p
        BY <3>1, LinkEnds
      <4>2. Given(switch[m], fila[m], o, fila[r][p].credit, LastIn(fila[r][p]))
        BY <3>1 DEF FlowInv, LinkFlow
      <4>3. w = <<sw[m].tx[o], data_out(sw[m], up[m], o)>>
        BY <3>1
      <4> HIDE DEF m, o, w, u
      <4>4. ci(m)[o] = fila[r][p].credit
        BY <4>1 DEF CreditIn, ci
      <4>5. sw[m].tx[o] => IsFlit(data_out(sw[m], up[m], o), P) /\ Follows(LastIn(fila[r][p]), data_out(sw[m], up[m], o))
        BY <1>3, <4>1, <4>2, <4>4
      <4>6. sw[m].tx[o] \in BOOLEAN
        BY <1>3, <4>1
      <4> QED
        BY <2>2, <4>3, <4>5, <4>6
    <3>2. CASE ~IsLink(r, p)
      <4>1. w = driven[r][p]
        BY <3>2
      <4> HIDE DEF w, u
      <4> QED
        BY <2>2, <3>2, <4>1 DEF Offers
    <3> QED
      BY <3>1, <3>2
  <2> HIDE DEF u, w, n
  <2>4. /\ QueueFlow(n, P)
        /\ n.ea = u.ea /\ n.credit = u.credit /\ n.data_av = u.data_av
        /\ LastIn(n) = IF rx /\ u.credit THEN f ELSE LastIn(u)
        /\ LastOut(n) = LastOut(u)
        /\ u.first # u.last => HeadFlit(n) = HeadFlit(u)
    <3> HIDE DEF rx, f
    <3> QED
      BY <2>1, <2>2, <2>3, FlowStored
  <2>5. SameFront(u, n)
    BY <2>4 DEF SameFront
  <2> QED
    BY <2>2, <2>4, <2>5 DEF u, w, n
<1>5. ASSUME NEW r \in Routers
      PROVE  /\ SwitchFlow(switch'[r], fila'[r]) /\ TargetFlow(r, switch'[r], fila'[r])
             /\ \A o \in Ports : \A x, l : Given(sw[r], up[r], o, x, l) => Given(switch'[r], fila'[r], o, x, l)
  <2> DEFINE s == switch[r]
             qs == fila[r]
             v == up[r]
             w == sw[r]
             c == ci(r)
             nq == fila'[r]
             n == switch'[r]
  <2>1. /\ FlowOf(r, s, qs, P)
        /\ \A p \in Ports : c[p] \in BOOLEAN
        /\ IsUp(s, qs, c, v) /\ IsControlUp(r, s, qs, v, w)
    BY <1>2 DEF IsUp, IsControlUp
  <2>2. \A p \in Ports : QueueInv(nq[p])
    BY RouterCycle DEF QueueStep
  <2>3. \A p \in Ports : SameFront(v[p], nq[p])
    BY <1>4
  <2>4. IsNext(r, v, w, n)
    BY <1>1 DEF IsNext
  <2> HIDE DEF s, qs, v, w, c, nq, n
  <2>5. \A p \in Ports : QueueInv(nq[p]) /\ SameFront(v[p], nq[p])
    BY <2>2, <2>3
  <2>6. /\ SwitchFlow(n, nq) /\ TargetFlow(r, n, nq)
        /\ \A o \in Ports : \A x, l : Given(w, v, o, x, l) => Given(n, nq, o, x, l)
    BY <2>1, <2>4, <2>5, RouterFlow
  <2> QED
    BY <2>6 DEF s, qs, v, w, c, nq, n
<1>6. ASSUME NEW r \in Routers, NEW p \in Ports
      PROVE  LinkFlow(fila', switch', r, p)
  <2> SUFFICES ASSUME IsLink(r, p)
               PROVE  Given(switch'[Neighbour(r, p)], fila'[Neighbour(r, p)], Opposite(p), fila'[r][p].credit,
                            LastIn(fila'[r][p]))
    BY DEF LinkFlow
  <2> DEFINE m == Neighbour(r, p)
             o == Opposite(p)
             f == data_out(sw[m], up[m], o)
             q == fila[r][p]
             n == fila'[r][p]
             c2 == up[r][p].credit
  <2>1. m \in Routers /\ o \in Ports /\ IsLink(m, o) /\ Neighbour(m, o) = r /\ Opposite(o) = p
    BY LinkEnds
  <2>2. Given(switch[m], fila[m], o, q.credit, LastIn(q))
    BY DEF FlowInv, LinkFlow
  <2>3. wire(r, p) = <<sw[m].tx[o], f>>
    OBVIOUS
  <2>4. n.credit = c2 /\ LastIn(n) = IF sw[m].tx[o] /\ c2 THEN f ELSE LastIn(q)
    BY <1>4, <2>3
  <2>5. c2 \in BOOLEAN
    BY <1>2
  <2> HIDE DEF m, o, wire, n, c2
  <2>6. ci(m)[o] = q.credit
    BY <2>1 DEF CreditIn, ci
  <2> HIDE DEF f, q
  <2>7. Given(sw[m], up[m], o, c2, IF sw[m].tx[o] /\ c2 THEN f ELSE LastIn(q))
    BY <1>3, <2>1, <2>2, <2>5, <2>6 DEF f
  <2>8. Given(switch'[m], fila'[m], o, n.credit, LastIn(n))
    BY <1>5, <2>1, <2>4, <2>7
  <2> QED
    BY <2>8 DEF m, o, n
<1>7. FlowInv(fila', switch', P)
  <2>1. \A r \in Routers, p \in Ports : QueueFlow(fila'[r][p], P)
    BY <1>4
  <2> QED
    BY <1>5, <1>6, <2>1 DEF FlowInv
<1>8. ASSUME NEW r \in Routers, NEW p \in Ports, ~IsLink(r, p)
      PROVE  /\ LastIn(fila'[r][p]) = IF driven[r][p][1] /\ in_proc_FSM(fila[r][p])
                                         THEN driven[r][p][2] ELSE LastIn(fila[r][p])
             /\ fila'[r][p].credit = in_proc_FSM(fila[r][p])
  <2>1. wire(r, p) = driven[r][p]
    BY <1>8
  <2>2. up[r][p].credit = in_proc_FSM(fila[r][p])
    BY <1>2
  <2> QED
    BY <1>4, <2>1, <2>2
<1>9. ASSUME NEW r \in Routers, NEW p \in Ports, NEW last, Given(switch[r], fila[r], p, FALSE, last)
      PROVE  LET f == data_out(switch[r], fila[r], p)
             IN  /\ switch[r].tx[p] => IsFlit(f, P) /\ Follows(last, f)
                 /\ Given(switch'[r], fila'[r], p, FALSE,
                          IF switch[r].tx[p] /\ CreditIn(r, outer)[p] THEN f ELSE last)
  <2> DEFINE f == data_out(switch[r], fila[r], p)
             l == IF switch[r].tx[p] /\ ci(r)[p] THEN f ELSE last
  <2>1. (switch[r].tx[p] => IsFlit(f, P) /\ Follows(last, f)) /\ Given(sw[r], up[r], p, FALSE, l)
    BY <1>3, <1>9
  <2>2. Given(switch'[r], fila'[r], p, FALSE, l)
    BY <1>5, <2>1
  <2> QED
    BY <2>1, <2>2 DEF ci
<1> QED
  BY <1>7, <1>8, <1>9

-----------------------------------------------------------------------------
(* The network with whole packets at its outer ports.                      *)

LEMMA FlowStart == ASSUME NEW P PROVE HermesInit => FlowInv(fila, switch, P)
<1> SUFFICES ASSUME HermesInit PROVE FlowInv(fila, switch, P)
  OBVIOUS
<1>1. BUFFER_TAM \in Nat /\ BUFFER_TAM >= 4 /\ 0 \in Slots /\ Before(0) \in Slots
  BY MeshAssumption, BeforeSlot DEF Slots
<1>2. /\ EmptyQueue.first = 0 /\ EmptyQueue.last = 0 /\ EmptyQueue.ea = "INIT" /\ ~EmptyQueue.data_av
      /\ ~EmptyQueue.sender
      /\ \A k \in Slots : EmptyQueue.buffer[k] = NoFlit
  BY DEF EmptyQueue, Slots
<1>3. \A k \in Slots : ~InQueue(EmptyQueue, k)
  BY <1>1, <1>2 DEF InQueue, Slots
<1>4. QueueFlow(EmptyQueue, P) /\ Ends(LastIn(EmptyQueue))
  BY <1>1, <1>2, <1>3 DEF QueueFlow, LastIn, LastOut, Ends
<1>5. ASSUME NEW r \in Routers
      PROVE  /\ \A p \in Ports : fila[r][p] = EmptyQueue
             /\ switch[r].ea = "S1" /\ switch[r].ack = {}
             /\ \A o \in Ports : switch[r].free[o] /\ switch[r].tx[o] = FALSE
  BY DEF HermesInit, ResetSwitch
<1>6. \A r \in Routers, p \in Ports : LinkFlow(fila, switch, r, p)
  <2> SUFFICES ASSUME NEW r \in Routers, NEW p \in Ports, IsLink(r, p)
               PROVE  Given(switch[Neighbour(r, p)], fila[Neighbour(r, p)], Opposite(p),
                            fila[r][p].credit, LastIn(fila[r][p]))
    BY DEF LinkFlow
  <2> DEFINE n == Neighbour(r, p)
             o == Opposite(p)
  <2>1. n \in Routers /\ o \in Ports
    BY LinkEnds
  <2> HIDE DEF n, o
  <2>2. switch[n].free[o] /\ Ends(LastIn(fila[r][p]))
    BY <1>4, <1>5, <2>1
  <2> QED
    BY <2>2 DEF Given, n, o
<1>7. ASSUME NEW r \in Routers
      PROVE  SwitchFlow(switch[r], fila[r]) /\ TargetFlow(r, switch[r], fila[r])
  <2>1. \A p \in Ports : ~fila[r][p].sender
    BY <1>2, <1>5
  <2> QED
    BY <1>5, <2>1 DEF SwitchFlow, TargetFlow
<1> QED
  BY <1>4, <1>5, <1>6, <1>7 DEF FlowInv

LEMMA FlowOfMore ==
  ASSUME NEW P, NEW Q, P \subseteq Q, NEW fl, NEW sw, FlowInv(fl, sw, P)
  PROVE  FlowInv(fl, sw, Q)
<1>1. \A f : IsFlit(f, P) => IsFlit(f, Q)
  BY DEF IsFlit
<1>2. \A q : QueueFlow(q, P) => QueueFlow(q, Q)
  <2> SUFFICES ASSUME NEW q, QueueFlow(q, P) PROVE QueueFlow(q, Q)
    OBVIOUS
  <2> QED
    BY <1>1 DEF QueueFlow
<1> QED
  BY <1>2 DEF FlowInv

\* A flit offered at the local output is of a packet for that router.
LEMMA LocalFlit ==
  ASSUME HermesInv, NEW P, ArePackets(P), FlowInv(fila, switch, P), NEW r \in Routers,
         switch[r].tx[LOCAL_PORT]
  PROVE  LET f == data_out(switch[r], fila[r], LOCAL_PORT) IN IsFlit(f, P) /\ IsFor(r, f[1])
<1> DEFINE s == switch[r]
           p == s.mux_out[LOCAL_PORT]
           q == fila[r][p]
<1>1. LOCAL_PORT \in Ports
  BY DEF Ports, NPORT, LOCAL_PORT
<1>2. SwitchInv(r, s, fila[r]) /\ SwitchFlow(s, fila[r]) /\ TargetFlow(r, s, fila[r])
  BY DEF HermesInv, FlowInv
<1>3. p \in Ports
  BY <1>1, <1>2 DEF SwitchInv, SwitchType
<1>4. q.data_av /\ s.mux_in[p] = LOCAL_PORT
  BY <1>1, <1>2 DEF SwitchFlow
<1>5. QueueInv(q) /\ QueueFlow(q, P)
  BY <1>3 DEF HermesInv, FlowInv
<1>6. q.first \in Slots /\ InQueue(q, q.first)
  BY <1>4, <1>5 DEF QueueInv, QueueType, InQueue, Slots
<1>7. IsFlit(HeadFlit(q), P) /\ Follows(LastOut(q), HeadFlit(q)) /\ q.ea \in {"SENDHEADER", "PAYLOAD"}
  BY <1>4, <1>5, <1>6 DEF QueueFlow, HeadFlit, LastOut
<1>8. IsFor(r, Carried(q))
  BY <1>2, <1>3, <1>4, <1>5, <1>7 DEF TargetFlow, QueueInv
<1>9. Carried(q) = HeadFlit(q)[1]
  <2>1. CASE q.ea = "PAYLOAD"
    <3>1. IsFlit(LastOut(q), P) /\ q.counter \in Nat
          /\ IF q.counter = 0 THEN LastOut(q)[2] = 0
             ELSE LastOut(q)[2] # 0 /\ LastOut(q)[2] + q.counter = LastOut(q)[1].size + 1
      BY <1>5, <2>1 DEF QueueFlow
    <3>2. ~Ends(LastOut(q))
      BY <3>1, FlitIs
    <3> QED
      BY <1>7, <2>1, <3>2 DEF Follows, Carried
  <2>2. CASE q.ea # "PAYLOAD"
    BY <2>2 DEF Carried
  <2> QED
    BY <2>1, <2>2
<1> QED
  BY <1>7, <1>8, <1>9 DEF data_out

HermesWholeNext(P) ==
  \E outer, driven : Credits(outer) /\ Offers(driven, P) /\ HermesClock(outer, driven)
HermesWhole(P) == HermesInit /\ [][HermesWholeNext(P)]_hermesVars

\* Whatever the load and the credits, the packets stay whole on every link and in every
\* queue if they come in whole at the outer ports.
THEOREM HermesKeepsWhole ==
  ASSUME NEW P, ArePackets(P)
  PROVE  HermesWhole(P) => [](HermesInv /\ FlowInv(fila, switch, P))
<1> DEFINE Inv == HermesInv /\ FlowInv(fila, switch, P)
<1>1. HermesInit => Inv
  BY HermesStart, FlowStart
<1>2. Inv /\ [HermesWholeNext(P)]_hermesVars => Inv'
  <2> SUFFICES ASSUME Inv, [HermesWholeNext(P)]_hermesVars PROVE Inv'
    OBVIOUS
  <2>1. CASE HermesWholeNext(P)
    BY <2>1, HermesStep, FlowStep DEF HermesWholeNext
  <2>2. CASE UNCHANGED hermesVars
    <3>1. fila' = fila /\ switch' = switch
      BY <2>2 DEF hermesVars
    <3>2. HermesInv'
      BY <3>1 DEF HermesInv, SwitchInv, Holding, Chosen
    <3> QED
      BY <3>1, <3>2
  <2> QED
    BY <2>1, <2>2
<1> QED
  BY <1>1, <1>2, PTL DEF HermesWhole

\* So no packet leaves at the local port of a router it is not for.
THEOREM HermesDeliversToTarget ==
  ASSUME NEW P, ArePackets(P)
  PROVE  HermesWhole(P) => [](\A r \in Routers : switch[r].tx[LOCAL_PORT] =>
                                LET f == data_out(switch[r], fila[r], LOCAL_PORT)
                                IN  IsFlit(f, P) /\ IsFor(r, f[1]))
<1> DEFINE Inv == HermesInv /\ FlowInv(fila, switch, P)
           Local == \A r \in Routers : switch[r].tx[LOCAL_PORT] =>
                      LET f == data_out(switch[r], fila[r], LOCAL_PORT)
                      IN  IsFlit(f, P) /\ IsFor(r, f[1])
<1>1. Inv => Local
  BY LocalFlit
<1>2. HermesWhole(P) => []Inv
  BY HermesKeepsWhole
<1> QED
  BY <1>1, <1>2, PTL
=============================================================================
