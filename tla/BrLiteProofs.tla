---------------------------- MODULE BrLiteProofs ----------------------------
(***************************************************************************)
(* Theorems about the broadcast network.                                   *)
(***************************************************************************)
EXTENDS BrLiteInvariant, TLAPS, WellFoundedInduction

-----------------------------------------------------------------------------
(* Operators.                                                              *)

LEMMA LeastElement ==
  ASSUME NEW S \in SUBSET Nat, S # {}
  PROVE  Min(S) \in S /\ \A y \in S : Min(S) <= y
<1>1. \A a, b \in Nat : a < b => <<a, b>> \in OpToRel(<, Nat)
  BY Zenon DEF OpToRel
<1>2. PICK x \in S : \A y \in S : ~ (<<y, x>> \in OpToRel(<, Nat))
  BY WFMin, NatLessThanWellFounded
<1>3. \A y \in S : ~(y < x)
  BY <1>1, <1>2, Zenon
<1>4. \A y \in S : x <= y
  BY <1>3
<1> QED
  BY <1>4 DEF Min

\* The arbiters select a member of the set, if it has one.
LEMMA TurnSelects ==
  ASSUME NEW n \in Nat \ {0}, NEW k \in 0 .. n - 1, NEW S \in SUBSET (0 .. n - 1)
  PROVE  Turn(S, k, n) \in 0 .. n - 1 /\ (S # {} => Turn(S, k, n) \in S)
<1> DEFINE ahead == {d \in 1 .. n - 1 : (k + d) % n \in S}
<1>1. ahead \in SUBSET Nat
  OBVIOUS
<1>2. CASE ahead = {}
  <2>1. Turn(S, k, n) = k
    BY <1>2 DEF Turn
  <2>2. ASSUME NEW j \in S, j # k
        PROVE  FALSE
    <3> DEFINE d == IF j > k THEN j - k ELSE j - k + n
    <3>1. d \in 1 .. n - 1 /\ k + d = (IF j > k THEN j ELSE j + n) /\ j \in 0 .. n - 1
      BY <2>2
    <3>2. j % n = j /\ (j + n) % n = j
      BY <3>1
    <3>3. (k + d) % n \in S
      BY <3>1, <3>2
    <3> HIDE DEF d
    <3> QED
      BY <1>2, <3>1, <3>3
  <2> QED
    BY <2>1, <2>2
<1>3. CASE ahead # {}
  <2>1. Min(ahead) \in ahead
    BY <1>1, <1>3, LeastElement
  <2>2. Turn(S, k, n) = (k + Min(ahead)) % n
    BY <1>3 DEF Turn
  <2> QED
    BY <2>1, <2>2
<1> QED
  BY <1>2, <1>3

LEMMA PortNumbers == Ports = 0 .. NPORT - 1 /\ LOCAL_PORT \in Ports /\ LOCAL_PORT \notin MeshPorts
BY DEF Ports, MeshPorts, NPORT, LOCAL_PORT, EAST, WEST, NORTH, SOUTH

LEMMA LineNumbers == CAM_SIZE \in Nat \ {0} /\ Lines \in SUBSET Nat /\ 0 \in Lines /\ CAM_SIZE - 1 \in Lines
BY NetworkAssumption DEF Lines

\* A wire seen from its two ends.
LEMMA Wires ==
  ASSUME NEW r \in Routers, NEW p, Linked(r, p)
  PROVE  LET n == Neighbour(r, p)
             q == Opposite(p)
         IN  /\ n \in Routers /\ q \in MeshPorts /\ Linked(n, q)
             /\ Neighbour(n, q) = r /\ Opposite(q) = p
<1>1. p \in MeshPorts /\ Neighbour(r, p) \in Routers
  BY DEF Linked
<1>2. r = <<r[1], r[2]>> /\ r[1] \in Int /\ r[2] \in Int
  BY NetworkAssumption DEF Routers
<1> USE DEF MeshPorts, Neighbour, Opposite, EAST, WEST, NORTH, SOUTH
<1>3. CASE p = EAST
  BY <1>1, <1>2, <1>3 DEF Linked
<1>4. CASE p = WEST
  BY <1>1, <1>2, <1>4 DEF Linked
<1>5. CASE p = NORTH
  BY <1>1, <1>2, <1>5 DEF Linked
<1>6. CASE p = SOUTH
  BY <1>1, <1>2, <1>6 DEF Linked
<1> QED
  BY <1>1, <1>3, <1>4, <1>5, <1>6

-----------------------------------------------------------------------------
(* The messages on the wires.                                              *)

\* The message that a kernel sent last.
LEMMA LastMessage ==
  ASSUME TypeInv, NEW r \in Routers, sent[r] > 0
  PROVE  LET m == Message(r, sent[r] - 1)
         IN  /\ m \in Messages /\ m.src = r /\ m.rank = sent[r] - 1 /\ m.rank < sent[r]
             /\ m.svc # "CLEAR" /\ Known(m)
<1> DEFINE k == sent[r] - 1
           q == Outgoing[r]
           X == [svc : {"TARGET", "ALL"}, target : Routers]
           m == Message(r, k)
<1>1. k \in Nat /\ k + 1 \in 1 .. Len(q) /\ k < sent[r]
  <2>1. q \in Seq(X) /\ sent[r] \in Nat /\ sent[r] <= Len(q)
    BY NetworkAssumption DEF TypeInv
  <2> QED
    BY <2>1
<1>2. q[k + 1] \in X
  <2>1. q \in Seq(X)
    BY NetworkAssumption
  <2> HIDE DEF q, X, k
  <2> QED
    BY <1>1, <2>1
<1> HIDE DEF k
<1>3. m \in Messages /\ m.src = r /\ m.rank = k /\ m.svc # "CLEAR"
  BY <1>1, <1>2 DEF Message, Messages, Services
<1> HIDE DEF m
<1>4. Known(m)
  BY <1>1, <1>3 DEF Known, m
<1> QED
  BY <1>1, <1>3, <1>4 DEF k, m

\* A request comes with a message that some kernel sent, or its clear.
LEMMA RequestedMessage ==
  ASSUME TypeInv, \A r \in Routers : LocalInv(r) /\ ContentInv(r),
         NEW r \in Routers, NEW p \in Ports, ReqIn(r, p)
  PROVE  /\ DataIn(r, p) \in Messages /\ Known(DataIn(r, p))
         /\ IF p = LOCAL_PORT
            THEN ctl[r] /\ sent[r] > 0 /\ DataIn(r, p) = Message(r, sent[r] - 1)
            ELSE \E n \in Routers : outp[n].req # {} /\ DataIn(r, p) = outp[n].flit
<1>1. CASE p = LOCAL_PORT
  <2>1. ctl[r] /\ sent[r] > 0
    BY <1>1, PortNumbers DEF ReqIn, Linked, LocalInv, Busy
  <2>2. DataIn(r, p) = Message(r, sent[r] - 1)
    BY <1>1 DEF DataIn
  <2> QED
    BY <1>1, <2>1, <2>2, LastMessage
<1>2. CASE p # LOCAL_PORT
  <2> DEFINE n == Neighbour(r, p)
  <2>1. n \in Routers /\ outp[n].req # {} /\ DataIn(r, p) = outp[n].flit
    BY <1>2 DEF ReqIn, Linked, DataIn
  <2>2. outp[n].flit \in Messages
    BY <2>1 DEF TypeInv, OutputSide
  <2> QED
    BY <1>2, <2>1, <2>2 DEF ContentInv
<1> QED
  BY <1>1, <1>2

-----------------------------------------------------------------------------
(* The input side of a router.                                             *)

\* What a cycle makes of the input side: s becomes n.
InputStep(r, s, n) ==
  /\ n \in InputSide
  /\ n.ack = IF n.state = "WAIT_REQ_DOWN" THEN {n.port} ELSE {}
  /\ n.state = "ARBITRATION" => s.state = "INIT" /\ \E p \in Ports : ReqIn(r, p)
  /\ n.state = "TEST_SPACE" => s.state = "ARBITRATION" /\ ReqIn(r, n.port)
  /\ n.state \in {"WRITE", "CLEAR"} =>
       s.state = "TEST_SPACE" /\ n.port = s.port /\ ReqIn(r, n.port)
  /\ n.state = "WAIT_REQ_DOWN" => s.state # "INIT" /\ n.port = s.port /\ ReqIn(r, n.port)
  /\ n.state = "WRITE" => ~tab[r].cam[n.free_idx].used
  /\ n.state = "CLEAR" => /\ DataIn(r, n.port).svc = "CLEAR"
                          /\ tab[r].cam[n.source_idx].used
                          /\ SameId(tab[r].cam[n.source_idx].msg, DataIn(r, n.port))
  /\ s.state \in {"WRITE", "CLEAR"} => n.ack = {s.port}

LEMMA TestSpaceStep ==
  ASSUME NEW r \in Routers, inp[r] \in InputSide, inp[r].state = "TEST_SPACE",
         inp[r].ack = {}, ReqIn(r, inp[r].port)
  PROVE  InputStep(r, inp[r], TestSpace(r))
<1> DEFINE s == inp[r]
           cam == tab[r].cam
           m == DataIn(r, s.port)
           found == {i \in Lines : cam[i].used /\ SameId(cam[i].msg, m)}
           unused == {i \in Lines : ~cam[i].used}
           f == Min(found)
           u == Min(unused)
           n == TestSpace(r)
<1>1. /\ found # {} => f \in Lines /\ cam[f].used /\ SameId(cam[f].msg, m)
      /\ unused # {} => u \in Lines /\ ~cam[u].used
  <2>1. found \in SUBSET Nat /\ unused \in SUBSET Nat
    BY LineNumbers
  <2>2. found # {} => f \in found
    <3> HIDE DEF found
    <3> QED
      BY <2>1, LeastElement
  <2>3. unused # {} => u \in unused
    <3> HIDE DEF unused
    <3> QED
      BY <2>1, LeastElement
  <2> QED
    BY <2>2, <2>3
<1>2. /\ s \in InputSide /\ s.state = "TEST_SPACE" /\ s.ack = {} /\ ReqIn(r, s.port)
      /\ s.port \in Ports
  BY DEF InputSide
<1>3. \/ n = [s EXCEPT !.state = "WAIT_REQ_DOWN", !.ack = @ \cup {s.port}]
      \/ n = [s EXCEPT !.state = "INIT"]
      \/ n = [s EXCEPT !.state = "WRITE", !.free_idx = u] /\ unused # {}
      \/ n = [s EXCEPT !.source_idx = f, !.state = "CLEAR"] /\ found # {} /\ m.svc = "CLEAR"
      \/ /\ n = [s EXCEPT !.state = "WAIT_REQ_DOWN", !.ack = @ \cup {s.port}, !.source_idx = f]
         /\ found # {}
  BY Zenon DEF TestSpace
<1> SUFFICES InputStep(r, s, n)
  OBVIOUS
<1> HIDE DEF n, found, unused, f, u, s, m, cam
<1> USE DEF InputSide, InStates
<1>4. CASE n = [s EXCEPT !.state = "WAIT_REQ_DOWN", !.ack = @ \cup {s.port}]
  BY <1>2, <1>4 DEF InputStep
<1>5. CASE n = [s EXCEPT !.state = "INIT"]
  BY <1>2, <1>5 DEF InputStep
<1>6. CASE n = [s EXCEPT !.state = "WRITE", !.free_idx = u] /\ unused # {}
  BY <1>1, <1>2, <1>6 DEF InputStep, cam
<1>7. CASE n = [s EXCEPT !.source_idx = f, !.state = "CLEAR"] /\ found # {} /\ m.svc = "CLEAR"
  <2>1. n \in InputSide /\ n.port = s.port /\ n.state = "CLEAR" /\ n.source_idx = f /\ n.ack = {}
    BY <1>1, <1>2, <1>7
  <2> QED
    BY <1>1, <1>2, <1>7, <2>1 DEF InputStep, cam, m
<1>8. CASE /\ n = [s EXCEPT !.state = "WAIT_REQ_DOWN", !.ack = @ \cup {s.port}, !.source_idx = f]
           /\ found # {}
  BY <1>1, <1>2, <1>8 DEF InputStep
<1> QED
  BY <1>3, <1>4, <1>5, <1>6, <1>7, <1>8

LEMMA InputCycle ==
  ASSUME TypeInv, NEW r \in Routers, InputInv(r)
  PROVE  InputStep(r, inp[r], Input(r))
<1> DEFINE s == inp[r]
           reqs == {p \in Ports : ReqIn(r, p)}
           x == Turn(reqs, s.port, NPORT)
           n == Input(r)
<1>1. /\ s \in InputSide /\ s.state \in InStates /\ s.port \in Ports
      /\ s.ack = IF s.state = "WAIT_REQ_DOWN" THEN {s.port} ELSE {}
  BY DEF TypeInv, InputSide, InputInv
<1>2. s.state = "ARBITRATION" => x \in Ports /\ ReqIn(r, x)
  <2>1. reqs # {} => x \in reqs
    <3>1. NPORT \in Nat \ {0} /\ s.port \in 0 .. NPORT - 1 /\ reqs \in SUBSET (0 .. NPORT - 1)
      BY <1>1, PortNumbers DEF NPORT
    <3> HIDE DEF reqs, s
    <3> QED
      BY <3>1, TurnSelects
  <2>2. s.state = "ARBITRATION" => reqs # {}
    BY DEF InputInv
  <2> QED
    BY <2>1, <2>2
<1> SUFFICES InputStep(r, s, n)
  OBVIOUS
<1>3. CASE s.state = "INIT"
  <2>1. n = s \/ (n = [s EXCEPT !.state = "ARBITRATION"] /\ reqs # {})
    BY <1>3 DEF Input
  <2>2. reqs # {} => \E p \in Ports : ReqIn(r, p)
    OBVIOUS
  <2> HIDE DEF n, s, reqs
  <2> QED
    BY <1>1, <1>3, <2>1, <2>2 DEF InputStep, InputSide, InStates
<1>4. CASE s.state = "ARBITRATION"
  <2>1. n = [s EXCEPT !.port = x, !.state = "TEST_SPACE"]
    BY <1>4 DEF Input
  <2> HIDE DEF n, s, x
  <2> QED
    BY <1>1, <1>2, <1>4, <2>1 DEF InputStep, InputSide, InStates
<1>5. CASE s.state = "TEST_SPACE"
  <2>1. n = TestSpace(r)
    BY <1>5 DEF Input
  <2> QED
    BY <1>1, <1>5, <2>1, TestSpaceStep DEF InputInv
<1>6. CASE s.state \in {"WRITE", "CLEAR"}
  <2>1. n = [s EXCEPT !.ack = @ \cup {s.port}, !.state = "WAIT_REQ_DOWN"] /\ ReqIn(r, s.port)
    BY <1>6 DEF Input, InputInv
  <2> HIDE DEF n, s
  <2> QED
    BY <1>1, <1>6, <2>1 DEF InputStep, InputSide, InStates
<1>7. CASE s.state = "WAIT_REQ_DOWN"
  <2>1. \/ n = s /\ ReqIn(r, s.port)
        \/ n = [s EXCEPT !.ack = @ \ {s.port}, !.state = "INIT"]
    BY <1>1, <1>7 DEF Input
  <2> HIDE DEF n, s
  <2> QED
    BY <1>1, <1>7, <2>1 DEF InputStep, InputSide, InStates
<1> QED
  BY <1>1, <1>3, <1>4, <1>5, <1>6, <1>7 DEF InStates

-----------------------------------------------------------------------------
(* The output side of a router.                                            *)

\* What a cycle makes of the output side: s becomes n, cam is the table before.
OutputStep(r, s, n, cam) ==
  /\ n \in OutputSide
  /\ n.state \notin {"WAIT_ACK_PORTS", "SEND_LOCAL"} => n.req = {}
  /\ n.state = "SEND_LOCAL" => n.req = {LOCAL_PORT}
  /\ n.req \cap n.ack_ports = {}
  /\ n.state # "WAIT_ACK_PORTS" => n.ack_ports = {}
  /\ n.req # {} => \/ /\ s.state = "TEST_SVC" /\ n.line = s.line
                      /\ n.flit = cam[n.line].msg /\ cam[n.line].used
                   \/ n.req \subseteq s.req /\ n.flit = s.flit /\ s.state # "TEST_SVC"
  /\ s.state = "TEST_SVC" /\ LOCAL_PORT \in n.req => Addressed(r, n.flit)
  /\ \A q \in MeshPorts : q \in s.req /\ ~AckIn(r, q) => q \in n.req
  /\ n.state = "ARBITRATION" => s.state = "INIT" /\ Pending(r) # {}
  /\ n.state = "TEST_SVC" => s.state = "ARBITRATION" /\ n.line \in Pending(r)
  /\ n.state \in {"WAIT_ACK_PORTS", "CLEAR_TABLE"} =>
       s.state \in {"TEST_SVC", "WAIT_ACK_PORTS"} /\ n.line = s.line
  /\ n.state = "CLEAR_TABLE" => cam[n.line].msg.svc = "CLEAR"

LEMMA TestSvcStep ==
  ASSUME NEW r \in Routers, outp[r] \in OutputSide, outp[r].state = "TEST_SVC",
         outp[r].req = {}, outp[r].ack_ports = {}, tab[r].cam[outp[r].line].used,
         tab[r].cam[outp[r].line].msg \in Messages
  PROVE  OutputStep(r, outp[r], TestSvc(r), tab[r].cam)
<1> DEFINE s == outp[r]
           cam == tab[r].cam
           line == cam[s.line]
           dest == Propagated(r, line)
           n == TestSvc(r)
<1>1. s \in OutputSide /\ s.req = {} /\ s.ack_ports = {} /\ line.used /\ line.msg \in Messages
  OBVIOUS
<1>2. /\ dest \subseteq Ports
      /\ LOCAL_PORT \in dest => line.msg.svc = "ALL" /\ line.msg.src # r
  BY PortNumbers DEF Propagated, Ports
<1>3. \/ /\ n = [s EXCEPT !.req = @ \cup {LOCAL_PORT}, !.flit = line.msg, !.state = "SEND_LOCAL"]
         /\ line.msg.svc = "TARGET" /\ line.msg.target = r
      \/ n = [s EXCEPT !.req = @ \cup dest, !.flit = line.msg,
                       !.ack_ports = @ \cup (Ports \ dest), !.state = "WAIT_ACK_PORTS"]
  BY Zenon DEF TestSvc
<1> SUFFICES OutputStep(r, s, n, cam)
  OBVIOUS
<1>4. s.state = "TEST_SVC" /\ line = cam[s.line] /\ LOCAL_PORT \in Ports
  BY PortNumbers
<1> HIDE DEF n, s, cam, line, dest
<1> USE DEF OutputSide, OutStates, OutputStep
<1>5. CASE /\ n = [s EXCEPT !.req = @ \cup {LOCAL_PORT}, !.flit = line.msg, !.state = "SEND_LOCAL"]
           /\ line.msg.svc = "TARGET" /\ line.msg.target = r
  <2>1. /\ n \in OutputSide /\ n.state = "SEND_LOCAL" /\ n.req = {LOCAL_PORT} /\ n.flit = line.msg
        /\ n.ack_ports = {} /\ n.line = s.line
    BY <1>1, <1>4, <1>5
  <2> QED
    BY <1>1, <1>4, <1>5, <2>1 DEF Addressed
<1>6. CASE n = [s EXCEPT !.req = @ \cup dest, !.flit = line.msg,
                         !.ack_ports = @ \cup (Ports \ dest), !.state = "WAIT_ACK_PORTS"]
  <2>1. /\ n \in OutputSide /\ n.state = "WAIT_ACK_PORTS" /\ n.req = dest /\ n.flit = line.msg
        /\ n.ack_ports = Ports \ dest /\ n.line = s.line
    BY <1>1, <1>2, <1>4, <1>6
  <2> QED
    BY <1>1, <1>2, <1>4, <2>1 DEF Addressed
<1> QED
  BY <1>3, <1>5, <1>6

LEMMA WaitAckPortsStep ==
  ASSUME NEW r \in Routers, outp[r] \in OutputSide, outp[r].state = "WAIT_ACK_PORTS",
         outp[r].req \cap outp[r].ack_ports = {}
  PROVE  OutputStep(r, outp[r], WaitAckPorts(r), tab[r].cam)
<1> DEFINE s == outp[r]
           cam == tab[r].cam
           new == {p \in Ports \ s.ack_ports : AckIn(r, p)}
           next == IF cam[s.line].msg.svc = "CLEAR" THEN "CLEAR_TABLE" ELSE "INIT"
           n == WaitAckPorts(r)
<1>1. /\ s \in OutputSide /\ s.req \cap s.ack_ports = {} /\ s.state = "WAIT_ACK_PORTS"
      /\ s.req \subseteq Ports
  BY DEF OutputSide
<1>2. /\ new \subseteq Ports
      /\ \A q \in MeshPorts : q \in s.req /\ ~AckIn(r, q) => q \notin new
  BY DEF Ports
<1>3. next \in {"CLEAR_TABLE", "INIT"} /\ (next = "CLEAR_TABLE" => cam[s.line].msg.svc = "CLEAR")
  OBVIOUS
<1>4. \/ /\ n = [s EXCEPT !.ack_ports = {}, !.req = @ \ new, !.state = next]
         /\ s.ack_ports \cup new = Ports
      \/ n = [s EXCEPT !.ack_ports = @ \cup new, !.req = @ \ new]
  BY Zenon DEF WaitAckPorts
<1> SUFFICES OutputStep(r, s, n, cam)
  OBVIOUS
<1> HIDE DEF n, s, cam, new, next
<1> USE DEF OutputSide, OutStates, OutputStep
<1>5. CASE /\ n = [s EXCEPT !.ack_ports = {}, !.req = @ \ new, !.state = next]
           /\ s.ack_ports \cup new = Ports
  <2>1. /\ n \in OutputSide /\ n.state = next /\ n.req = {} /\ n.ack_ports = {} /\ n.line = s.line
        /\ \A q \in s.req : q \in new
    BY <1>1, <1>2, <1>3, <1>5
  <2> QED
    BY <1>1, <1>2, <1>3, <2>1
<1>6. CASE n = [s EXCEPT !.ack_ports = @ \cup new, !.req = @ \ new]
  <2>1. /\ n \in OutputSide /\ n.state = "WAIT_ACK_PORTS" /\ n.req = s.req \ new
        /\ n.ack_ports = s.ack_ports \cup new /\ n.line = s.line /\ n.flit = s.flit
    BY <1>1, <1>2, <1>6
  <2> QED
    BY <1>1, <1>2, <2>1
<1> QED
  BY <1>4, <1>5, <1>6

LEMMA OutputCycle ==
  ASSUME TypeInv, NEW r \in Routers, OutputInv(r)
  PROVE  OutputStep(r, outp[r], Output(r), tab[r].cam)
<1> DEFINE s == outp[r]
           cam == tab[r].cam
           x == Turn(Pending(r), s.line, CAM_SIZE)
           n == Output(r)
<1>1. /\ s \in OutputSide /\ s.state \in OutStates /\ s.line \in Lines
      /\ s.state \notin {"WAIT_ACK_PORTS", "SEND_LOCAL"} => s.req = {}
      /\ s.state = "SEND_LOCAL" => s.req = {LOCAL_PORT}
      /\ s.state # "WAIT_ACK_PORTS" => s.ack_ports = {}
  BY DEF TypeInv, OutputSide, OutputInv
<1>2. s.state = "ARBITRATION" => x \in Lines /\ x \in Pending(r)
  <2>1. Pending(r) # {} => x \in Pending(r)
    <3>1. CAM_SIZE \in Nat \ {0} /\ s.line \in 0 .. CAM_SIZE - 1 /\ Pending(r) \in SUBSET (0 .. CAM_SIZE - 1)
      BY <1>1, LineNumbers DEF Lines, Pending
    <3> HIDE DEF s
    <3> QED
      BY <3>1, TurnSelects
  <2>2. s.state = "ARBITRATION" => Pending(r) # {}
    BY DEF OutputInv
  <2> QED
    BY <2>1, <2>2 DEF Pending
<1>3. LOCAL_PORT \notin MeshPorts
  BY PortNumbers
<1> SUFFICES OutputStep(r, s, n, cam)
  OBVIOUS
<1>4. CASE s.state = "INIT"
  <2>1. n = s \/ (n = [s EXCEPT !.state = "ARBITRATION"] /\ Pending(r) # {})
    BY <1>4 DEF Output
  <2> HIDE DEF n, s, cam
  <2> QED
    BY <1>1, <1>4, <2>1 DEF OutputStep, OutputSide, OutStates
<1>5. CASE s.state = "ARBITRATION"
  <2>1. n = [s EXCEPT !.line = x, !.state = "TEST_SVC"]
    BY <1>5 DEF Output
  <2> HIDE DEF n, s, x, cam
  <2> QED
    BY <1>1, <1>2, <1>5, <2>1 DEF OutputStep, OutputSide, OutStates
<1>6. CASE s.state = "TEST_SVC"
  <2>1. n = TestSvc(r)
    BY <1>6 DEF Output
  <2>2. cam[s.line].msg \in Messages /\ cam[s.line].used
    BY <1>1, <1>6 DEF TypeInv, Table, TableLine, OutputInv
  <2> QED
    BY <1>1, <1>6, <2>1, <2>2, TestSvcStep
<1>7. CASE s.state = "WAIT_ACK_PORTS"
  <2>1. n = WaitAckPorts(r)
    BY <1>7 DEF Output
  <2> QED
    BY <1>1, <1>7, <2>1, WaitAckPortsStep DEF OutputInv
<1>8. CASE s.state = "SEND_LOCAL"
  <2>1. n = s \/ n = [s EXCEPT !.req = @ \ {LOCAL_PORT}, !.state = "WAIT_ACK_DOWN"]
    BY <1>8 DEF Output
  <2> HIDE DEF n, s, cam
  <2> QED
    BY <1>1, <1>3, <1>8, <2>1 DEF OutputStep, OutputSide, OutStates
<1>9. CASE s.state = "WAIT_ACK_DOWN"
  <2>1. n = s \/ n = [s EXCEPT !.state = "INIT"]
    BY <1>9 DEF Output
  <2> HIDE DEF n, s, cam
  <2> QED
    BY <1>1, <1>9, <2>1 DEF OutputStep, OutputSide, OutStates
<1>10. CASE s.state = "CLEAR_TABLE"
  <2>1. n = [s EXCEPT !.state = "INIT"]
    BY <1>10 DEF Output
  <2> HIDE DEF n, s, cam
  <2> QED
    BY <1>1, <1>10, <2>1 DEF OutputStep, OutputSide, OutStates
<1> QED
  BY <1>1, <1>4, <1>5, <1>6, <1>7, <1>8, <1>9, <1>10 DEF OutStates

-----------------------------------------------------------------------------
(* The table of a router.                                                  *)

\* Line i is about to become a clear.
Marked(r, i) ==
  \/ Triggered(r) /\ i = tab[r].wrote_idx
  \/ inp[r].state = "CLEAR" /\ i = inp[r].source_idx

\* What a cycle makes of line i of the table: t becomes n.
LineStep(r, i, t, n) ==
  /\ n \in TableLine
  /\ IF inp[r].state = "WRITE" /\ i = inp[r].free_idx
     THEN n.used /\ n.pending /\ n.msg = DataIn(r, inp[r].port)
     ELSE IF outp[r].state = "CLEAR_TABLE" /\ i = outp[r].line
     THEN ~n.used
     ELSE /\ n.used = t.used
          /\ n.msg = t.msg \/ (n.msg = [t.msg EXCEPT !.svc = "CLEAR"] /\ Marked(r, i))
          /\ t.pending /\ ~n.pending => outp[r].state = "TEST_SVC" /\ i = outp[r].line
          /\ n.pending /\ n.msg.svc # "CLEAR" =>
               t.pending /\ ~(outp[r].state = "TEST_SVC" /\ i = outp[r].line)

LEMMA ClearedLine ==
  ASSUME NEW t \in TableLine
  PROVE  /\ AsClear(t) \in TableLine /\ AsClear(t).used = t.used /\ AsClear(t).pending
         /\ AsClear(t).msg = [t.msg EXCEPT !.svc = "CLEAR"]
<1> DEFINE m == [t.msg EXCEPT !.svc = "CLEAR"]
<1>1. m \in Messages
  BY DEF TableLine, Messages, Services
<1>2. AsClear(t) = [[t EXCEPT !.msg = m] EXCEPT !.pending = TRUE]
  BY DEF AsClear, TableLine
<1> HIDE DEF m
<1>3. AsClear(t) \in TableLine /\ AsClear(t).used = t.used /\ AsClear(t).pending /\ AsClear(t).msg = m
  BY <1>1, <1>2 DEF TableLine
<1> QED
  BY <1>3 DEF m

LEMMA LineCycle ==
  ASSUME TypeInv, \A r \in Routers : LocalInv(r) /\ ContentInv(r) /\ InputInv(r) /\ OutputInv(r),
         NEW r \in Routers, NEW i \in Lines
  PROVE  LineStep(r, i, tab[r].cam[i], Cam(r)[i])
<1> DEFINE t == tab[r].cam[i]
           s == inp[r]
           o == outp[r]
           n == Cam(r)[i]
           mark == s.state = "CLEAR" /\ i = s.source_idx /\ t.msg.svc # "CLEAR" /\ ~t.pending
           write == s.state = "WRITE" /\ i = s.free_idx
           free == o.state = "CLEAR_TABLE" /\ i = o.line
           trig == Triggered(r) /\ i = tab[r].wrote_idx
           test == o.state = "TEST_SVC" /\ i = o.line
           line == [used |-> TRUE, pending |-> TRUE, origin |-> s.port, msg |-> DataIn(r, s.port)]
<1>1. t \in TableLine /\ s.port \in Ports
  BY DEF TypeInv, Table, InputSide
<1>2. n = CASE trig -> AsClear(t)
            [] write -> line
            [] mark -> AsClear(t)
            [] test -> [t EXCEPT !.pending = FALSE]
            [] free -> FreeLine
            [] OTHER -> t
  BY DEF Cam
<1>3. /\ trig => ~write /\ ~free /\ ~mark /\ ~test
      /\ write => ~mark /\ ~test /\ ~free
      /\ mark => ~test /\ ~free
      /\ test => ~free
  BY DEF Triggered, OutputInv, InputInv
<1>4. write => line \in TableLine
  BY <1>1, RequestedMessage DEF InputInv, TableLine
<1>5. FreeLine \in TableLine /\ ~FreeLine.used
  BY PortNumbers, LineNumbers, NetworkAssumption DEF FreeLine, TableLine, NoMsg, Messages, Services, Routers
<1>6. /\ AsClear(t) \in TableLine /\ AsClear(t).used = t.used /\ AsClear(t).pending
      /\ AsClear(t).msg = [t.msg EXCEPT !.svc = "CLEAR"] /\ AsClear(t).msg.svc = "CLEAR"
  BY <1>1, ClearedLine DEF TableLine, Messages
<1>7. mark => s.state = "CLEAR" /\ i = s.source_idx
  OBVIOUS
<1>8. Marked(r, i) <=> trig \/ (s.state = "CLEAR" /\ i = s.source_idx)
  BY DEF Marked
<1> SUFFICES /\ n \in TableLine
             /\ IF write THEN n.used /\ n.pending /\ n.msg = DataIn(r, s.port)
                ELSE IF free THEN ~n.used
                ELSE /\ n.used = t.used
                     /\ n.msg = t.msg \/ (n.msg = [t.msg EXCEPT !.svc = "CLEAR"] /\ Marked(r, i))
                     /\ t.pending /\ ~n.pending => test
                     /\ n.pending /\ n.msg.svc # "CLEAR" => t.pending /\ ~test
  BY DEF LineStep
<1> HIDE DEF n, t, trig, free, test, write, mark
<1>9. CASE trig
  BY <1>2, <1>3, <1>6, <1>8, <1>9
<1>10. CASE write
  <2>1. n = line
    BY <1>2, <1>3, <1>10
  <2> QED
    BY <1>4, <1>10, <2>1
<1>11. CASE ~trig /\ ~write /\ mark
  <2>1. n = AsClear(t)
    BY <1>2, <1>3, <1>11
  <2> QED
    BY <1>3, <1>6, <1>7, <1>8, <1>11, <2>1
<1>12. CASE ~trig /\ ~write /\ ~mark /\ test
  <2>1. n = [t EXCEPT !.pending = FALSE]
    BY <1>2, <1>3, <1>12
  <2>2. n \in TableLine /\ n.used = t.used /\ n.msg = t.msg /\ ~n.pending
    BY <1>1, <2>1 DEF TableLine
  <2> QED
    BY <1>3, <1>12, <2>2
<1>13. CASE ~trig /\ ~write /\ ~mark /\ ~test /\ free
  BY <1>2, <1>5, <1>13
<1>14. CASE ~trig /\ ~write /\ ~mark /\ ~test /\ ~free
  BY <1>1, <1>2, <1>14
<1> QED
  BY <1>9, <1>10, <1>11, <1>12, <1>13, <1>14

-----------------------------------------------------------------------------
(* A cycle of the network.                                                 *)

\* What a cycle makes of every router.
LEMMA CycleSteps ==
  ASSUME NetworkInv, NEW popping, Tick(popping), NEW r \in Routers
  PROVE  /\ InputStep(r, inp[r], inp'[r])
         /\ OutputStep(r, outp[r], outp'[r], tab[r].cam)
         /\ \A i \in Lines : LineStep(r, i, tab[r].cam[i], tab'[r].cam[i])
         /\ tab'[r] = InputOutput(r)
         /\ ctl'[r] = (ctl[r] /\ LOCAL_PORT \notin inp'[r].ack)
         /\ sent' = sent
<1>1. /\ inp'[r] = Input(r) /\ outp'[r] = Output(r) /\ tab'[r] = InputOutput(r)
      /\ ctl'[r] = Control(r, inp'[r]) /\ sent' = sent
  BY DEF Tick
<1>2. tab'[r].cam = Cam(r)
  BY <1>1 DEF InputOutput
<1>3. TypeInv /\ \A x \in Routers : InputInv(x) /\ OutputInv(x) /\ LocalInv(x) /\ ContentInv(x)
  BY DEF NetworkInv
<1>4. InputStep(r, inp[r], Input(r)) /\ OutputStep(r, outp[r], Output(r), tab[r].cam)
  BY <1>3, InputCycle, OutputCycle
<1>5. \A i \in Lines : LineStep(r, i, tab[r].cam[i], Cam(r)[i])
  BY <1>3, LineCycle
<1> QED
  BY <1>1, <1>2, <1>4, <1>5 DEF Control

\* A request stays until it is acknowledged.
LEMMA RequestPersists ==
  ASSUME NetworkInv, NEW popping, Tick(popping), NEW r \in Routers, NEW p \in Ports,
         ReqIn(r, p), p \notin inp[r].ack, p \notin inp'[r].ack
  PROVE  ReqIn(r, p)'
<1>1. CASE Linked(r, p) /\ Opposite(p) \in outp[Neighbour(r, p)].req
  <2> DEFINE n == Neighbour(r, p)
             q == Opposite(p)
  <2>1. /\ n \in Routers /\ q \in MeshPorts /\ Linked(n, q)
        /\ Neighbour(n, q) = r /\ Opposite(q) = p /\ q \in outp[n].req
    BY <1>1, Wires
  <2> HIDE DEF n, q
  <2>2. ~AckIn(n, q)
    BY <2>1, PortNumbers DEF AckIn
  <2>3. OutputStep(n, outp[n], outp'[n], tab[n].cam)
    BY <2>1, CycleSteps
  <2>4. q \in outp'[n].req
    BY <2>1, <2>2, <2>3 DEF OutputStep
  <2> QED
    BY <1>1, <2>4 DEF ReqIn, n, q
<1>2. CASE p = LOCAL_PORT /\ ctl[r]
  BY <1>2, CycleSteps DEF ReqIn
<1> QED
  BY <1>1, <1>2 DEF ReqIn

\* An acknowledge does not rise, and does not stay, where there is no request.
LEMMA NoStaleAcknowledge ==
  ASSUME NetworkInv, NEW popping, Tick(popping), NEW r \in Routers, NEW p \in Ports,
         Linked(r, p) \/ p = LOCAL_PORT, p \notin outp[r].req
  PROVE  ~AckIn(r, p)'
<1>1. CASE Linked(r, p)
  <2> DEFINE n == Neighbour(r, p)
             q == Opposite(p)
  <2>1. /\ n \in Routers /\ q \in MeshPorts /\ Neighbour(n, q) = r /\ Opposite(q) = p
        /\ p \in MeshPorts /\ p # LOCAL_PORT /\ q # LOCAL_PORT
    BY <1>1, Wires, PortNumbers DEF Linked
  <2> HIDE DEF n, q
  <2>2. ~ReqIn(n, q)
    BY <2>1 DEF ReqIn
  <2>3. InputStep(n, inp[n], inp'[n])
    BY <2>1, CycleSteps
  <2>4. q \notin inp'[n].ack
    BY <2>2, <2>3 DEF InputStep
  <2> QED
    BY <1>1, <2>1, <2>4 DEF AckIn, n, q
<1>2. CASE p = LOCAL_PORT
  <2>1. ~buf'[r].ack
    <3> DEFINE a == LOCAL_PORT \in outp[r].req /\ (buf[r].ack \/ Taken(r, popping))
    <3>1. buf'[r].ack = a
      BY DEF Tick, Buffer
    <3> QED
      BY <1>2, <3>1
  <2> QED
    BY <1>2, <2>1, PortNumbers DEF AckIn, Linked
<1> QED
  BY <1>1, <1>2

LEMMA CycleType ==
  ASSUME NetworkInv, NEW popping, Tick(popping)
  PROVE  TypeInv'
<1>1. TypeInv
  BY DEF NetworkInv
<1>2. ASSUME NEW r \in Routers
      PROVE  inp'[r] \in InputSide /\ outp'[r] \in OutputSide /\ ctl'[r] \in BOOLEAN
  BY <1>1, CycleSteps DEF InputStep, OutputStep, TypeInv
<1>3. ASSUME NEW r \in Routers
      PROVE  InputOutput(r) \in Table
  <2> DEFINE cam == Cam(r)
  <2>1. cam \in [Lines -> TableLine]
    <3>1. tab'[r].cam = cam
      <4>1. tab'[r] = InputOutput(r)
        BY CycleSteps
      <4> QED
        BY <4>1 DEF InputOutput
    <3>2. \A i \in Lines : cam[i] \in TableLine
      BY <3>1, CycleSteps DEF LineStep
    <3> QED
      BY <3>2 DEF Cam
  <2>2. /\ tab[r] \in Table /\ tab[r].wrote_idx \in Lines /\ inp[r].free_idx \in Lines
        /\ tab[r].age \in Nat /\ tab[r].wrote_local \in BOOLEAN /\ tab[r].clear_local \in BOOLEAN
        /\ tab[r].local_busy \in BOOLEAN
    BY <1>1 DEF TypeInv, InputSide, Table
  <2>3. Triggered(r) \in BOOLEAN /\ Expired(r) \in BOOLEAN /\ WrittenLocal(r) \in BOOLEAN
    BY <2>2 DEF Triggered, Expired, WrittenLocal
  <2> HIDE DEF cam
  <2> DEFINE c == Expired(r) \/ (tab[r].clear_local /\ ~Triggered(r))
             w == WrittenLocal(r) \/ (tab[r].wrote_local /\ ~Expired(r))
             b == WrittenLocal(r) \/ (tab[r].local_busy /\ ~Triggered(r))
             i == IF WrittenLocal(r) THEN inp[r].free_idx ELSE tab[r].wrote_idx
             a == IF tab[r].wrote_local /\ ~Expired(r) THEN tab[r].age + 1 ELSE 0
  <2>4. c \in BOOLEAN /\ w \in BOOLEAN /\ b \in BOOLEAN /\ i \in Lines /\ a \in Nat
    BY <2>2, <2>3
  <2>5. InputOutput(r) = [cam |-> cam, clear_local |-> c, wrote_local |-> w, local_busy |-> b,
                          wrote_idx |-> i, age |-> a]
    BY DEF InputOutput, cam
  <2> HIDE DEF c, w, b, i, a
  <2> QED
    BY <2>1, <2>4, <2>5 DEF Table
<1>4. ASSUME NEW r \in Routers
      PROVE  Buffer(r, popping) \in [ack : BOOLEAN, stored : 0 .. BUFFER_SIZE]
  <2>1. buf[r] \in [ack : BOOLEAN, stored : 0 .. BUFFER_SIZE] /\ BUFFER_SIZE \in Nat
    BY <1>1, NetworkAssumption DEF TypeInv
  <2>2. /\ Pops(r, popping) => buf[r].stored > 0
        /\ Taken(r, popping) => buf[r].stored < BUFFER_SIZE
    BY DEF Pops, Taken
  <2>3. (LOCAL_PORT \in outp[r].req /\ (buf[r].ack \/ Taken(r, popping))) \in BOOLEAN
    OBVIOUS
  <2> QED
    BY <2>1, <2>2, <2>3 DEF Buffer
<1>5. ASSUME NEW r \in Routers
      PROVE  (IF Taken(r, popping) THEN Append(got[r], outp[r].flit) ELSE got[r]) \in Seq(Messages)
  <2>1. got[r] \in Seq(Messages) /\ outp[r].flit \in Messages
    BY <1>1 DEF TypeInv, OutputSide
  <2> QED
    BY <2>1
<1>6. /\ inp' \in [Routers -> InputSide] /\ outp' \in [Routers -> OutputSide]
      /\ ctl' \in [Routers -> BOOLEAN]
  <2>1. /\ inp' = [r \in Routers |-> inp'[r]] /\ outp' = [r \in Routers |-> outp'[r]]
        /\ ctl' = [r \in Routers |-> ctl'[r]]
    BY DEF Tick
  <2> QED
    BY <1>2, <2>1
<1>7. tab' \in [Routers -> Table]
  BY <1>3 DEF Tick
<1>8. buf' \in [Routers -> [ack : BOOLEAN, stored : 0 .. BUFFER_SIZE]]
  BY <1>4 DEF Tick
<1>9. got' \in [Routers -> Seq(Messages)]
  BY <1>5 DEF Tick
<1>10. sent' \in [Routers -> Nat] /\ \A r \in Routers : sent'[r] <= Len(Outgoing[r])
  BY <1>1 DEF Tick, TypeInv
<1> QED
  BY <1>6, <1>7, <1>8, <1>9, <1>10 DEF TypeInv

-----------------------------------------------------------------------------
(* The invariant of the network.                                           *)

LEMMA CycleInput ==
  ASSUME NetworkInv, NEW popping, Tick(popping), NEW r \in Routers
  PROVE  InputInv(r)'
<1> DEFINE s == inp[r]
           n == inp'[r]
<1>1. InputInv(r) /\ InputStep(r, s, n) /\ s \in InputSide
  BY CycleSteps DEF NetworkInv, TypeInv
<1>2. n \in InputSide /\ n.port \in Ports /\ n.free_idx \in Lines
  BY <1>1 DEF InputStep, InputSide
<1> DEFINE requested(p) == \/ Linked(r, p) /\ Opposite(p) \in outp'[Neighbour(r, p)].req
                           \/ p = LOCAL_PORT /\ ctl'[r]
<1>3. \A p \in Ports : ReqIn(r, p) /\ p \notin s.ack /\ p \notin n.ack => requested(p)
  BY RequestPersists DEF ReqIn
<1> HIDE DEF requested
<1>4. n.ack = IF n.state = "WAIT_REQ_DOWN" THEN {n.port} ELSE {}
  BY <1>1 DEF InputStep
<1>5. n.state = "ARBITRATION" => \E p \in Ports : requested(p)
  BY <1>1, <1>3, <1>4 DEF InputStep, InputInv
<1>6. n.state \in {"TEST_SPACE", "WRITE", "CLEAR"} => requested(n.port)
  BY <1>1, <1>2, <1>3, <1>4 DEF InputStep, InputInv
<1>7. n.state = "WRITE" => ~tab'[r].cam[n.free_idx].used
  <2> SUFFICES ASSUME n.state = "WRITE"
               PROVE  ~tab'[r].cam[n.free_idx].used
    OBVIOUS
  <2> DEFINE i == n.free_idx
  <2>1. s.state = "TEST_SPACE" /\ ~tab[r].cam[i].used
    BY <1>1 DEF InputStep
  <2>2. LineStep(r, i, tab[r].cam[i], tab'[r].cam[i])
    BY <1>2, CycleSteps
  <2> QED
    BY <2>1, <2>2 DEF LineStep
<1> QED
  BY <1>4, <1>5, <1>6, <1>7 DEF InputInv, ReqIn, requested

LEMMA CycleOutput ==
  ASSUME NetworkInv, NEW popping, Tick(popping), NEW r \in Routers
  PROVE  OutputInv(r)'
<1> DEFINE s == outp[r]
           n == outp'[r]
           cam == tab[r].cam
           new == tab'[r].cam
<1>1. /\ InputInv(r) /\ OutputInv(r) /\ OutputStep(r, s, n, cam)
      /\ \A i \in Lines : LineStep(r, i, cam[i], new[i]) /\ cam[i].msg \in Messages
  BY CycleSteps DEF NetworkInv, TypeInv, Table, TableLine
<1>2. n.line \in Lines
  BY <1>1 DEF OutputStep, OutputSide
<1>3. \A i \in Pending(r) : s.state \notin {"TEST_SVC", "CLEAR_TABLE"} => i \in Pending(r)'
  BY <1>1 DEF LineStep, Pending
<1>4. \A i \in Lines : cam[i].used /\ s.state # "CLEAR_TABLE" => new[i].used
  BY <1>1 DEF LineStep
<1>5. n.state = "ARBITRATION" => Pending(r)' # {}
  BY <1>1, <1>3 DEF OutputStep
<1>6. n.state = "TEST_SVC" => new[n.line].used /\ new[n.line].pending
  BY <1>1, <1>3 DEF OutputStep, Pending
<1>7. n.state \in {"WAIT_ACK_PORTS", "CLEAR_TABLE"} => new[n.line].used /\ cam[n.line].used
  BY <1>1, <1>2, <1>4 DEF OutputStep, OutputInv
<1>8. n.state = "CLEAR_TABLE" => new[n.line].msg.svc = "CLEAR"
  <2> SUFFICES ASSUME n.state = "CLEAR_TABLE"
               PROVE  new[n.line].msg.svc = "CLEAR"
    OBVIOUS
  <2> DEFINE i == n.line
  <2>1. /\ cam[i].msg.svc = "CLEAR" /\ s.state # "CLEAR_TABLE" /\ cam[i].used
        /\ LineStep(r, i, cam[i], new[i]) /\ cam[i].msg \in Messages
        /\ ~(inp[r].state = "WRITE" /\ i = inp[r].free_idx)
    BY <1>1, <1>2, <1>7 DEF OutputStep, InputInv
  <2>2. new[i].msg = cam[i].msg \/ new[i].msg = [cam[i].msg EXCEPT !.svc = "CLEAR"]
    BY <2>1 DEF LineStep
  <2> QED
    BY <2>1, <2>2 DEF Messages
<1> QED
  BY <1>1, <1>5, <1>6, <1>7, <1>8 DEF OutputStep, OutputInv

\* The request of the local port is taken when its message is written.
LEMMA CycleLocal ==
  ASSUME NetworkInv, NEW popping, Tick(popping), NEW r \in Routers
  PROVE  /\ LocalInv(r)'
         /\ Busy(r)' => Busy(r)
         /\ WrittenLocal(r) => /\ ctl[r] /\ ~ctl'[r] /\ ~tab[r].local_busy
                               /\ ~tab[r].wrote_local /\ ~tab[r].clear_local
<1> DEFINE t == tab[r]
           n == tab'[r]
<1>1. /\ InputInv(r) /\ LocalInv(r) /\ InputStep(r, inp[r], inp'[r])
      /\ ctl'[r] = (ctl[r] /\ LOCAL_PORT \notin inp'[r].ack) /\ sent' = sent
      /\ n = InputOutput(r) /\ t \in Table /\ ctl[r] \in BOOLEAN
  BY CycleSteps DEF NetworkInv, TypeInv
<1>2. WrittenLocal(r) => ctl[r] /\ ~ctl'[r]
  BY <1>1, PortNumbers DEF WrittenLocal, InputInv, InputStep, ReqIn, Linked
<1>3. /\ t.local_busy <=> t.wrote_local \/ t.clear_local
      /\ ~(t.wrote_local /\ t.clear_local)
      /\ ctl[r] => ~t.local_busy
      /\ ctl[r] \/ t.local_busy => sent[r] > 0
  BY <1>1 DEF LocalInv, Busy
<1> DEFINE w == WrittenLocal(r)
           e == Expired(r)
           g == Triggered(r)
<1>4. (e => t.wrote_local) /\ (g => t.clear_local)
  BY DEF Expired, Triggered
<1> HIDE DEF w, e, g, n
<1>5. /\ n.clear_local = (e \/ (t.clear_local /\ ~g))
      /\ n.wrote_local = (w \/ (t.wrote_local /\ ~e))
      /\ n.local_busy = (w \/ (t.local_busy /\ ~g))
  BY <1>1 DEF InputOutput, w, e, g
<1>6. ctl'[r] => ctl[r]
  BY <1>1
<1> HIDE DEF t
<1>7. w => ctl[r] /\ ~ctl'[r] /\ ~t.local_busy /\ ~t.wrote_local /\ ~t.clear_local
  BY <1>2, <1>3 DEF w
<1>8. /\ n.local_busy <=> n.wrote_local \/ n.clear_local
      /\ ~(n.wrote_local /\ n.clear_local)
      /\ ctl'[r] => ~n.local_busy
  BY <1>3, <1>4, <1>5, <1>6, <1>7, Zenon
<1>9. ctl'[r] \/ n.local_busy => ctl[r] \/ t.local_busy
  BY <1>5, <1>6, <1>7
<1> QED
  BY <1>1, <1>3, <1>7, <1>8, <1>9 DEF LocalInv, Busy, n, t, w

LEMMA CycleContent ==
  ASSUME NetworkInv, NEW popping, Tick(popping), NEW r \in Routers
  PROVE  ContentInv(r)' /\ (\A k \in 1 .. Len(got[r]) : Known(got[r][k]) /\ Addressed(r, got[r][k]))'
<1>1. /\ TypeInv /\ InputInv(r) /\ OutputInv(r) /\ ContentInv(r)
      /\ \A x \in Routers : LocalInv(x) /\ ContentInv(x)
  BY DEF NetworkInv
<1>2. /\ OutputStep(r, outp[r], outp'[r], tab[r].cam) /\ sent' = sent
      /\ \A i \in Lines : LineStep(r, i, tab[r].cam[i], tab'[r].cam[i]) /\ tab[r].cam[i].msg \in Messages
  BY <1>1, CycleSteps DEF TypeInv, Table, TableLine
<1>3. ASSUME NEW m \in Messages, Known(m)
      PROVE  Known([m EXCEPT !.svc = "CLEAR"])
  BY <1>3 DEF Known, Messages
<1>4. ASSUME NEW i \in Lines, tab'[r].cam[i].used
      PROVE  Known(tab'[r].cam[i].msg)
  <2> DEFINE t == tab[r].cam[i]
             n == tab'[r].cam[i]
  <2>1. LineStep(r, i, t, n) /\ t.msg \in Messages /\ (t.used => Known(t.msg))
    BY <1>1, <1>2 DEF ContentInv
  <2>2. CASE inp[r].state = "WRITE" /\ i = inp[r].free_idx
    <3>1. n.msg = DataIn(r, inp[r].port) /\ ReqIn(r, inp[r].port) /\ inp[r].port \in Ports
      BY <1>1, <2>1, <2>2 DEF LineStep, InputInv, TypeInv, InputSide
    <3> QED
      BY <1>1, <3>1, RequestedMessage
  <2>3. CASE ~(inp[r].state = "WRITE" /\ i = inp[r].free_idx)
    <3>1. t.used /\ (n.msg = t.msg \/ n.msg = [t.msg EXCEPT !.svc = "CLEAR"])
      BY <1>4, <2>1, <2>3 DEF LineStep
    <3> QED
      BY <1>3, <2>1, <3>1
  <2> QED
    BY <2>2, <2>3
<1>5. outp'[r].req # {} => Known(outp'[r].flit)
  <2> SUFFICES ASSUME outp'[r].req # {}
               PROVE  Known(outp'[r].flit)
    OBVIOUS
  <2>1. CASE /\ outp[r].state = "TEST_SVC" /\ outp'[r].flit = tab[r].cam[outp'[r].line].msg
             /\ tab[r].cam[outp'[r].line].used
    <3>1. outp'[r].line \in Lines
      BY <1>2 DEF OutputStep, OutputSide
    <3> QED
      BY <1>1, <2>1, <3>1 DEF ContentInv
  <2>2. CASE outp'[r].req \subseteq outp[r].req /\ outp'[r].flit = outp[r].flit
    BY <1>1, <2>2 DEF ContentInv
  <2> QED
    BY <1>2, <2>1, <2>2 DEF OutputStep
<1>6. LOCAL_PORT \in outp'[r].req => Addressed(r, outp'[r].flit)
  BY <1>1, <1>2 DEF OutputStep, ContentInv
<1>7. ASSUME NEW k \in 1 .. Len(got'[r])
      PROVE  Known(got'[r][k]) /\ Addressed(r, got'[r][k])
  <2>1. \A j \in 1 .. Len(got[r]) : Known(got[r][j]) /\ Addressed(r, got[r][j])
    BY DEF NetworkInv, HeardWasSent
  <2>2. got'[r] = IF Taken(r, popping) THEN Append(got[r], outp[r].flit) ELSE got[r]
    BY DEF Tick
  <2>3. Taken(r, popping) => Known(outp[r].flit) /\ Addressed(r, outp[r].flit)
    BY <1>1 DEF Taken, ContentInv
  <2>4. got[r] \in Seq(Messages) /\ outp[r].flit \in Messages
    BY <1>1 DEF TypeInv, OutputSide
  <2> QED
    BY <2>1, <2>2, <2>3, <2>4
<1> QED
  BY <1>2, <1>4, <1>5, <1>6, <1>7 DEF ContentInv, Addressed, Known

LEMMA NetworkCycle ==
  ASSUME NetworkInv, NEW popping, Tick(popping)
  PROVE  NetworkInv'
<1>1. \A r \in Routers : (InputInv(r) /\ OutputInv(r) /\ LocalInv(r) /\ ContentInv(r))'
  BY CycleInput, CycleOutput, CycleLocal, CycleContent
<1>2. HeardWasSent'
  BY CycleContent DEF HeardWasSent
<1> QED
  BY <1>1, <1>2, CycleType DEF NetworkInv

\* A kernel that sends touches nothing but its own request.
LEMMA NetworkSend ==
  ASSUME NetworkInv, NEW k \in Routers, Send(k)
  PROVE  /\ NetworkInv' /\ ~Busy(k)
         /\ \A r \in Routers : /\ ctl'[r] = (ctl[r] \/ r = k)
                               /\ sent'[r] = IF r = k THEN sent[r] + 1 ELSE sent[r]
<1>1. /\ TypeInv /\ HeardWasSent
      /\ \A r \in Routers : InputInv(r) /\ OutputInv(r) /\ LocalInv(r) /\ ContentInv(r)
  BY DEF NetworkInv
<1>2. /\ sent[k] < Len(Outgoing[k]) /\ ~Busy(k)
      /\ inp' = inp /\ outp' = outp /\ tab' = tab /\ buf' = buf /\ got' = got
      /\ ctl' = [ctl EXCEPT ![k] = TRUE] /\ sent' = [sent EXCEPT ![k] = sent[k] + 1]
  BY DEF Send, CanSend
<1>3. /\ \A r \in Routers : ctl'[r] = (ctl[r] \/ r = k)
      /\ \A r \in Routers : sent'[r] = IF r = k THEN sent[r] + 1 ELSE sent[r]
  BY <1>1, <1>2 DEF TypeInv
<1>4. TypeInv'
  <2>1. Len(Outgoing[k]) \in Nat
    BY NetworkAssumption
  <2>2. sent' \in [Routers -> Nat] /\ \A r \in Routers : sent'[r] <= Len(Outgoing[r])
    BY <1>1, <1>2, <2>1 DEF TypeInv
  <2>3. ctl' \in [Routers -> BOOLEAN]
    BY <1>1, <1>2 DEF TypeInv
  <2> QED
    BY <1>1, <1>2, <2>2, <2>3 DEF TypeInv
<1> DEFINE known(m) == /\ m.rank < sent'[m.src]
                       /\ m.svc \in {"CLEAR", Message(m.src, m.rank).svc}
                       /\ m.target = Message(m.src, m.rank).target
<1>5. ASSUME NEW m \in Messages, Known(m)
      PROVE  known(m)
  <2>1. m.src \in Routers /\ m.rank \in Nat /\ sent[m.src] \in Nat
    BY <1>1 DEF TypeInv, Messages
  <2> QED
    BY <1>3, <1>5, <2>1 DEF Known
<1>6. ASSUME NEW r \in Routers
      PROVE  InputInv(r)'
  <2>1. \A p \in Ports : ReqIn(r, p) => ReqIn(r, p)'
    BY <1>2, <1>3 DEF ReqIn
  <2>2. inp[r].port \in Ports
    BY <1>1 DEF TypeInv, InputSide
  <2> QED
    BY <1>1, <1>2, <2>1, <2>2 DEF InputInv, ReqIn
<1>7. ASSUME NEW r \in Routers
      PROVE  OutputInv(r)'
  BY <1>1, <1>2 DEF OutputInv, Pending
<1>8. ASSUME NEW r \in Routers
      PROVE  LocalInv(r)'
  <2>1. sent[r] \in Nat
    BY <1>1 DEF TypeInv
  <2> QED
    BY <1>1, <1>2, <1>3, <2>1 DEF LocalInv, Busy
<1>9. ASSUME NEW r \in Routers
      PROVE  ContentInv(r)'
  <2>1. outp[r].flit \in Messages /\ \A i \in Lines : tab[r].cam[i].msg \in Messages
    BY <1>1 DEF TypeInv, OutputSide, Table, TableLine
  <2>2. ContentInv(r)
    BY <1>1
  <2> HIDE DEF known
  <2>3. \A i \in Lines : tab[r].cam[i].used => known(tab[r].cam[i].msg)
    BY <1>5, <2>1, <2>2 DEF ContentInv
  <2>4. outp[r].req # {} => known(outp[r].flit)
    BY <1>5, <2>1, <2>2 DEF ContentInv
  <2> QED
    BY <1>2, <2>2, <2>3, <2>4 DEF ContentInv, Known, Addressed, known
<1>10. HeardWasSent'
  <2> SUFFICES ASSUME NEW r \in Routers, NEW j \in 1 .. Len(got[r])
               PROVE  known(got[r][j]) /\ Addressed(r, got[r][j])
    BY <1>2 DEF HeardWasSent, Known, Addressed
  <2>1. got[r][j] \in Messages
    BY <1>1 DEF TypeInv
  <2>2. Known(got[r][j]) /\ Addressed(r, got[r][j])
    BY <1>1 DEF HeardWasSent
  <2> QED
    BY <1>5, <2>1, <2>2
<1> QED
  BY <1>2, <1>3, <1>4, <1>6, <1>7, <1>8, <1>9, <1>10 DEF NetworkInv

LEMMA NetworkStart == Init => NetworkInv
<1> SUFFICES ASSUME Init PROVE NetworkInv
  OBVIOUS
<1>1. NoMsg \in Messages /\ FreeLine \in TableLine /\ ~FreeLine.used
  BY PortNumbers, NetworkAssumption DEF FreeLine, TableLine, NoMsg, Messages, Services, Routers
<1>2. LOCAL_PORT \in Ports /\ 0 \in Lines /\ CAM_SIZE - 1 \in Lines /\ BUFFER_SIZE \in Nat
  BY PortNumbers, LineNumbers, NetworkAssumption
<1>3. TypeInv
  <2>1. inp \in [Routers -> InputSide]
    BY <1>2 DEF Init, InputSide, InStates
  <2>2. outp \in [Routers -> OutputSide]
    BY <1>1, <1>2 DEF Init, OutputSide, OutStates
  <2>3. tab \in [Routers -> Table]
    BY <1>1, <1>2 DEF Init, Table
  <2>4. \A r \in Routers : Len(Outgoing[r]) \in Nat
    BY NetworkAssumption
  <2>5. got \in [Routers -> Seq(Messages)]
    BY DEF Init
  <2>6. buf \in [Routers -> [ack : BOOLEAN, stored : 0 .. BUFFER_SIZE]]
    BY <1>2 DEF Init
  <2>7. ctl \in [Routers -> BOOLEAN] /\ sent \in [Routers -> Nat] /\ \A r \in Routers : sent[r] = 0
    BY DEF Init
  <2> QED
    BY <2>1, <2>2, <2>3, <2>4, <2>5, <2>6, <2>7 DEF TypeInv
<1>4. ASSUME NEW r \in Routers
      PROVE  InputInv(r) /\ OutputInv(r) /\ LocalInv(r) /\ ContentInv(r)
  BY <1>1 DEF Init, InputInv, OutputInv, LocalInv, ContentInv, Busy
<1>5. HeardWasSent
  BY DEF Init, HeardWasSent
<1> QED
  BY <1>3, <1>4, <1>5 DEF NetworkInv

LEMMA NetworkStep == NetworkInv /\ [Next]_vars => NetworkInv'
<1> SUFFICES ASSUME NetworkInv, [Next]_vars
             PROVE  NetworkInv'
  OBVIOUS
<1>1. CASE Cycle
  BY <1>1, NetworkCycle DEF Cycle
<1>2. ASSUME NEW r \in Routers, Send(r)
      PROVE  NetworkInv'
  BY <1>2, NetworkSend
<1>3. CASE UNCHANGED vars
  <2> USE <1>3 DEF vars
  <2>1. TypeInv' /\ HeardWasSent'
    BY DEF NetworkInv, TypeInv, HeardWasSent, Known, Addressed
  <2>2. ASSUME NEW r \in Routers
        PROVE  (InputInv(r) /\ OutputInv(r))'
    BY DEF NetworkInv, InputInv, OutputInv, ReqIn, Pending
  <2>3. ASSUME NEW r \in Routers
        PROVE  (LocalInv(r) /\ ContentInv(r))'
    BY DEF NetworkInv, LocalInv, ContentInv, Busy, Known, Addressed
  <2> QED
    BY <2>1, <2>2, <2>3 DEF NetworkInv
<1> QED
  BY <1>1, <1>2, <1>3 DEF Next

\* The inductive invariant of the network, for a mesh, a table and a buffer of any size
\* and any messages of the kernels.
THEOREM NetworkInvariance == Spec => []NetworkInv
BY NetworkStart, NetworkStep, PTL DEF Spec

\* In every behaviour the registers of the routers and of the local ports keep their types.
THEOREM TypeCorrect == Spec => []TypeOK
<1>1. NetworkInv => TypeOK
  BY DEF NetworkInv, TypeInv, TypeOK, InputSide, InStates, OutputSide, OutStates, Table, TableLine
<1> QED
  BY <1>1, NetworkInvariance, PTL

\* A kernel hears only messages that some kernel sent before, and only those addressed to
\* it: no message is invented, altered or misdelivered, and no CLEAR reaches a kernel.
THEOREM NothingInvented == Spec => []HeardWasSent
<1>1. NetworkInv => HeardWasSent
  BY DEF NetworkInv
<1> QED
  BY <1>1, NetworkInvariance, PTL

\* No router takes an old acknowledge for a new one, although its output side does not
\* wait for the acknowledges to fall before it goes on: the three cycles it takes to
\* request again are enough for every neighbour and for the buffer.
THEOREM HandshakesAreFresh == Spec => FreshHandshakes
<1>1. NetworkInv /\ [Next]_vars =>
        [\A r \in Routers, p \in Ports :
           Linked(r, p) \/ p = LOCAL_PORT =>
             (p \in outp'[r].req /\ p \notin outp[r].req => ~AckIn(r, p)')]_vars
  <2> SUFFICES ASSUME NetworkInv, Next, NEW r \in Routers, NEW p \in Ports,
                      Linked(r, p) \/ p = LOCAL_PORT, p \in outp'[r].req, p \notin outp[r].req
               PROVE  ~AckIn(r, p)'
    OBVIOUS
  <2>1. CASE Cycle
    BY <2>1, NoStaleAcknowledge DEF Cycle
  <2>2. CASE \E k \in Routers : Send(k)
    BY <2>2 DEF Send
  <2> QED
    BY <2>1, <2>2 DEF Next
<1> QED
  BY <1>1, NetworkInvariance, PTL DEF Spec, FreshHandshakes

-----------------------------------------------------------------------------
(* The clears.                                                             *)

\* A message stays settled: its source becomes busy with a later one only.
LEMMA SettledStays ==
  ASSUME NetworkInv, NEW popping, Tick(popping), NEW m \in Messages, Settled(m)
  PROVE  /\ m.rank < sent'[m.src]
         /\ tab'[m.src].local_busy \/ ctl'[m.src] => m.rank # sent'[m.src] - 1
<1>1. m.src \in Routers
  BY DEF Messages
<1>2. (tab'[m.src].local_busy \/ ctl'[m.src] => Busy(m.src)) /\ sent' = sent
  BY <1>1, CycleLocal, CycleSteps DEF Busy
<1> QED
  BY <1>2 DEF Settled

\* A line that the input side is about to mark was settled by the clear it received.
LEMMA ReceivedClear ==
  ASSUME NetworkInv, ClearInv, IdsAreFree, NEW r \in Routers, NEW p \in Ports, ReqIn(r, p),
         DataIn(r, p).svc = "CLEAR",
         NEW m \in Messages, Known(m), SameId(m, DataIn(r, p))
  PROVE  Settled(m)
<1> DEFINE c == DataIn(r, p)
           last == sent[m.src] - 1
<1>1. TypeInv /\ \A x \in Routers : LocalInv(x) /\ ContentInv(x)
  BY DEF NetworkInv
<1>2. p # LOCAL_PORT
  BY <1>1, RequestedMessage, LastMessage
<1>3. PICK n \in Routers : outp[n].req # {} /\ c = outp[n].flit
  BY <1>1, <1>2, RequestedMessage
<1>4. /\ c.svc = "CLEAR" /\ Settled(c) /\ m.src = c.src
      /\ m.rank % ID_CNT = c.rank % ID_CNT
  BY <1>3 DEF ClearInv, SameId
<1>5. SUFFICES ASSUME Busy(m.src), m.rank = last
               PROVE  FALSE
  BY DEF Settled, Known
<1>6. Busy(c.src) /\ c.rank # sent[c.src] - 1
  BY <1>4, <1>5 DEF Settled
<1>7. ~SameId(c, Message(c.src, sent[c.src] - 1))
  BY <1>3, <1>4, <1>6 DEF IdsAreFree
<1>8. Message(c.src, last).src = c.src /\ Message(c.src, last).rank = last
  BY DEF Message
<1> QED
  BY <1>4, <1>5, <1>7, <1>8 DEF SameId

LEMMA ClearCycle ==
  ASSUME NetworkInv, ClearInv, IdsAreFree, NEW popping, Tick(popping)
  PROVE  ClearInv'
<1> DEFINE settled(m) ==
             /\ m.rank < sent'[m.src]
             /\ tab'[m.src].local_busy \/ ctl'[m.src] => m.rank # sent'[m.src] - 1
<1> SUFFICES ASSUME NEW r \in Routers
             PROVE  /\ \A i \in Lines :
                         tab'[r].cam[i].used /\ tab'[r].cam[i].msg.svc = "CLEAR" =>
                           settled(tab'[r].cam[i].msg)
                    /\ outp'[r].req # {} /\ outp'[r].flit.svc = "CLEAR" => settled(outp'[r].flit)
                    /\ inp'[r].state = "CLEAR" /\ tab'[r].cam[inp'[r].source_idx].used =>
                         settled(tab'[r].cam[inp'[r].source_idx].msg)
                    /\ tab'[r].local_busy =>
                         /\ tab'[r].cam[tab'[r].wrote_idx].used
                         /\ tab'[r].cam[tab'[r].wrote_idx].msg = Message(r, sent'[r] - 1)
  BY DEF ClearInv, Settled, Busy
<1> DEFINE cam == tab[r].cam
           new == tab'[r].cam
           s == inp[r]
           o == outp[r]
<1>1. /\ TypeInv /\ InputInv(r) /\ OutputInv(r) /\ LocalInv(r) /\ ContentInv(r)
      /\ \A x \in Routers : LocalInv(x) /\ ContentInv(x)
  BY DEF NetworkInv
<1>2. /\ InputStep(r, s, inp'[r]) /\ OutputStep(r, o, outp'[r], cam) /\ sent' = sent
      /\ \A i \in Lines : LineStep(r, i, cam[i], new[i])
      /\ tab'[r] = InputOutput(r)
  BY CycleSteps
<1>3. /\ \A i \in Lines : cam[i].msg \in Messages
      /\ s.port \in Ports /\ o.flit \in Messages
      /\ tab[r].wrote_idx \in Lines /\ s.free_idx \in Lines
      /\ outp'[r].line \in Lines /\ inp'[r].source_idx \in Lines
  BY <1>1, <1>2 DEF TypeInv, Table, TableLine, InputSide, OutputSide, InputStep, OutputStep
<1>4. \A m \in Messages : Settled(m) => settled(m)
  BY SettledStays
<1>5. /\ \A i \in Lines : cam[i].used /\ cam[i].msg.svc = "CLEAR" => Settled(cam[i].msg)
      /\ \A x \in Routers : outp[x].req # {} /\ outp[x].flit.svc = "CLEAR" => Settled(outp[x].flit)
      /\ s.state = "CLEAR" /\ cam[s.source_idx].used => Settled(cam[s.source_idx].msg)
      /\ tab[r].local_busy => /\ cam[tab[r].wrote_idx].used
                              /\ cam[tab[r].wrote_idx].msg = Message(r, sent[r] - 1)
  BY DEF ClearInv
<1>6. /\ tab[r].clear_local => tab[r].local_busy
      /\ tab[r].local_busy => ~ctl[r] /\ sent[r] > 0
      /\ sent[r] \in Nat
  BY <1>1 DEF LocalInv, Busy, TypeInv
<1>7. /\ tab'[r].local_busy <=> WrittenLocal(r) \/ (tab[r].local_busy /\ ~Triggered(r))
      /\ WrittenLocal(r) => tab'[r].wrote_idx = s.free_idx
      /\ ~WrittenLocal(r) => tab'[r].wrote_idx = tab[r].wrote_idx
  <2> DEFINE b == WrittenLocal(r) \/ (tab[r].local_busy /\ ~Triggered(r))
  <2>1. tab'[r].local_busy = b
    BY <1>2 DEF InputOutput
  <2>2. tab'[r].wrote_idx = IF WrittenLocal(r) THEN s.free_idx ELSE tab[r].wrote_idx
    BY <1>2 DEF InputOutput
  <2> QED
    BY <2>1, <2>2, Zenon
<1> HIDE DEF settled
\* The lines.
<1>8. ASSUME NEW i \in Lines, new[i].used, new[i].msg.svc = "CLEAR"
      PROVE  settled(new[i].msg)
  <2>1. LineStep(r, i, cam[i], new[i])
    BY <1>2
  <2>2. CASE s.state = "WRITE" /\ i = s.free_idx
    <3>1. new[i].msg = DataIn(r, s.port) /\ ReqIn(r, s.port)
      BY <1>1, <2>1, <2>2 DEF LineStep, InputInv
    <3>2. s.port # LOCAL_PORT
      BY <1>1, <1>3, <1>8, <3>1, RequestedMessage, LastMessage
    <3>3. PICK n \in Routers : outp[n].req # {} /\ DataIn(r, s.port) = outp[n].flit
      BY <1>1, <1>3, <3>1, <3>2, RequestedMessage
    <3>4. outp[n].flit \in Messages
      BY <1>1 DEF TypeInv, OutputSide
    <3> QED
      BY <1>4, <1>5, <1>8, <3>1, <3>3, <3>4
  <2>3. CASE ~(s.state = "WRITE" /\ i = s.free_idx)
    <3>1. cam[i].used /\ (new[i].msg = cam[i].msg \/
                          (new[i].msg = [cam[i].msg EXCEPT !.svc = "CLEAR"] /\ Marked(r, i)))
      BY <1>8, <2>1, <2>3 DEF LineStep
    <3>2. CASE new[i].msg = cam[i].msg
      BY <1>3, <1>4, <1>5, <1>8, <3>1, <3>2
    <3>3. CASE new[i].msg = [cam[i].msg EXCEPT !.svc = "CLEAR"] /\ Marked(r, i)
      <4>1. new[i].msg.src = cam[i].msg.src /\ new[i].msg.rank = cam[i].msg.rank
        BY <1>3, <3>3 DEF Messages
      <4>2. SUFFICES settled(cam[i].msg)
        BY <4>1 DEF settled
      <4>3. CASE Triggered(r) /\ i = tab[r].wrote_idx
        <5>1. tab[r].clear_local /\ tab[r].local_busy /\ s.state = "INIT"
          BY <1>6, <4>3 DEF Triggered
        <5>2. cam[i].msg.src = r /\ cam[i].msg.rank = sent[r] - 1
          BY <1>5, <4>3, <5>1 DEF Message
        <5>3. ~tab'[r].local_busy /\ ~ctl'[r]
          <6>1. ~WrittenLocal(r)
            BY <5>1 DEF WrittenLocal
          <6>2. ~tab'[r].local_busy
            BY <1>7, <4>3, <6>1
          <6>3. ~ctl'[r]
            BY <1>6, <5>1, CycleSteps
          <6> QED
            BY <6>2, <6>3
        <5> QED
          BY <1>2, <1>6, <5>2, <5>3 DEF settled
      <4>4. CASE s.state = "CLEAR" /\ i = s.source_idx
        BY <1>3, <1>4, <1>5, <3>1, <4>4
      <4> QED
        BY <3>3, <4>3, <4>4 DEF Marked
    <3> QED
      BY <3>1, <3>2, <3>3
  <2> QED
    BY <2>2, <2>3
\* The wires.
<1>9. ASSUME outp'[r].req # {}, outp'[r].flit.svc = "CLEAR"
      PROVE  settled(outp'[r].flit)
  <2>1. CASE outp'[r].flit = cam[outp'[r].line].msg /\ cam[outp'[r].line].used
    BY <1>3, <1>4, <1>5, <1>9, <2>1
  <2>2. CASE outp'[r].req \subseteq o.req /\ outp'[r].flit = o.flit
    BY <1>3, <1>4, <1>5, <1>9, <2>2
  <2> QED
    BY <1>2, <1>9, <2>1, <2>2 DEF OutputStep
\* The line that the input side has found.
<1>10. ASSUME inp'[r].state = "CLEAR", new[inp'[r].source_idx].used
      PROVE  settled(new[inp'[r].source_idx].msg)
  <2> DEFINE i == inp'[r].source_idx
  <2>1. /\ s.state = "TEST_SPACE" /\ inp'[r].port = s.port /\ ReqIn(r, s.port)
        /\ DataIn(r, s.port).svc = "CLEAR" /\ cam[i].used /\ SameId(cam[i].msg, DataIn(r, s.port))
    BY <1>2, <1>10 DEF InputStep
  <2>2. Known(cam[i].msg) /\ cam[i].msg \in Messages
    BY <1>1, <1>3, <2>1 DEF ContentInv
  <2>3. Settled(cam[i].msg)
    BY <1>3, <2>1, <2>2, ReceivedClear
  <2>4. new[i].msg = cam[i].msg
    BY <1>2, <1>3, <1>10, <2>1 DEF LineStep, Marked, Triggered
  <2> QED
    BY <1>4, <2>2, <2>3, <2>4
\* The line of the local message.
<1>11. ASSUME tab'[r].local_busy
       PROVE  /\ new[tab'[r].wrote_idx].used
              /\ new[tab'[r].wrote_idx].msg = Message(r, sent'[r] - 1)
  <2>1. CASE WrittenLocal(r)
    <3>1. s.state = "WRITE" /\ s.port = LOCAL_PORT /\ ReqIn(r, s.port)
      BY <1>1, <2>1 DEF WrittenLocal, InputInv
    <3>2. tab'[r].wrote_idx = s.free_idx
      BY <1>7, <2>1
    <3>3. LineStep(r, s.free_idx, cam[s.free_idx], new[s.free_idx])
      BY <1>2, <1>3
    <3>4. DataIn(r, s.port) = Message(r, sent[r] - 1)
      BY <3>1 DEF DataIn
    <3> QED
      BY <1>2, <3>1, <3>2, <3>3, <3>4 DEF LineStep
  <2>2. CASE ~WrittenLocal(r)
    <3> DEFINE i == tab[r].wrote_idx
    <3>1. tab[r].local_busy /\ ~Triggered(r) /\ tab'[r].wrote_idx = i
      BY <1>11, <1>7, <2>2
    <3>2. cam[i].used /\ cam[i].msg = Message(r, sent[r] - 1)
      BY <1>5, <3>1
    <3>3. cam[i].msg.svc # "CLEAR" /\ cam[i].msg.src = r /\ cam[i].msg.rank = sent[r] - 1
      BY <1>1, <1>6, <3>1, <3>2, LastMessage
    <3>4. ~(s.state = "CLEAR" /\ i = s.source_idx)
      BY <1>5, <3>1, <3>2, <3>3 DEF Settled, Busy
    <3>5. ~(s.state = "WRITE" /\ i = s.free_idx) /\ ~(o.state = "CLEAR_TABLE" /\ i = o.line)
      BY <1>1, <3>2, <3>3 DEF InputInv, OutputInv
    <3>6. LineStep(r, i, cam[i], new[i]) /\ ~Marked(r, i)
      BY <1>2, <1>3, <3>1, <3>4 DEF Marked
    <3> QED
      BY <1>2, <3>1, <3>2, <3>5, <3>6 DEF LineStep
  <2> QED
    BY <2>1, <2>2
<1> QED
  BY <1>8, <1>9, <1>10, <1>11

LEMMA ClearSend ==
  ASSUME NetworkInv, ClearInv, NEW k \in Routers, Send(k)
  PROVE  ClearInv'
<1> DEFINE settled(m) ==
             /\ m.rank < sent'[m.src]
             /\ tab[m.src].local_busy \/ ctl'[m.src] => m.rank # sent'[m.src] - 1
<1>1. /\ ~Busy(k) /\ inp' = inp /\ outp' = outp /\ tab' = tab
      /\ \A r \in Routers : /\ ctl'[r] = (ctl[r] \/ r = k)
                            /\ sent'[r] = IF r = k THEN sent[r] + 1 ELSE sent[r]
  BY NetworkSend DEF Send
<1>2. \A r \in Routers : outp[r].flit \in Messages /\ \A i \in Lines : tab[r].cam[i].msg \in Messages
  BY DEF NetworkInv, TypeInv, OutputSide, Table, TableLine
<1>3. \A r \in Routers : inp[r].source_idx \in Lines
  BY DEF NetworkInv, TypeInv, InputSide
<1>4. ASSUME NEW m \in Messages, Settled(m)
      PROVE  settled(m)
  <2>1. m.src \in Routers /\ m.rank \in Nat /\ sent[m.src] \in Nat
    BY DEF NetworkInv, TypeInv, Messages
  <2>2. m.rank < sent[m.src]
    BY <1>4 DEF Settled
  <2>3. CASE m.src = k
    <3>1. sent'[m.src] = sent[m.src] + 1
      BY <1>1, <2>3
    <3> QED
      BY <2>1, <2>2, <3>1
  <2>4. CASE m.src # k
    <3>1. sent'[m.src] = sent[m.src] /\ ctl'[m.src] = (ctl[m.src] \/ m.src = k)
      BY <1>1, <2>1, <2>4
    <3>2. tab[m.src].local_busy \/ ctl'[m.src] => Busy(m.src)
      BY <2>4, <3>1 DEF Busy
    <3> QED
      BY <1>4, <2>2, <3>1, <3>2 DEF Settled
  <2> QED
    BY <2>3, <2>4
<1> HIDE DEF settled
<1>5. ASSUME NEW r \in Routers
      PROVE  /\ \A i \in Lines : tab[r].cam[i].used /\ tab[r].cam[i].msg.svc = "CLEAR" =>
                                   settled(tab[r].cam[i].msg)
             /\ outp[r].req # {} /\ outp[r].flit.svc = "CLEAR" => settled(outp[r].flit)
             /\ inp[r].state = "CLEAR" /\ tab[r].cam[inp[r].source_idx].used =>
                  settled(tab[r].cam[inp[r].source_idx].msg)
             /\ tab[r].local_busy =>
                  /\ tab[r].cam[tab[r].wrote_idx].used
                  /\ tab[r].cam[tab[r].wrote_idx].msg = Message(r, sent'[r] - 1)
  <2>1. tab[r].local_busy => r # k
    BY <1>1 DEF Busy
  <2>2. tab[r].local_busy => sent'[r] = sent[r]
    BY <1>1, <2>1
  <2> QED
    BY <1>2, <1>3, <1>4, <2>2 DEF ClearInv
<1> QED
  BY <1>1, <1>5 DEF ClearInv, Settled, Busy, settled

LEMMA ClearStep == NetworkInv /\ ClearInv /\ IdsAreFree /\ [Next]_vars => ClearInv'
<1> SUFFICES ASSUME NetworkInv, ClearInv, IdsAreFree, [Next]_vars
             PROVE  ClearInv'
  OBVIOUS
<1>1. CASE Cycle
  BY <1>1, ClearCycle DEF Cycle
<1>2. ASSUME NEW r \in Routers, Send(r)
      PROVE  ClearInv'
  BY <1>2, ClearSend
<1>3. CASE UNCHANGED vars
  BY <1>3 DEF vars, ClearInv, Settled, Busy
<1> QED
  BY <1>1, <1>2, <1>3 DEF Next

\* The message that a kernel sent last stays in the table of its own router, as it was
\* sent, until its CLEAR starts, as long as no identifier comes back while the clear of
\* the message that had it before is still on its way.
THEOREM ClearsFindTheirLines == Spec /\ []IdsAreFree => []ClearFindsItsLine
<1>1. Init => ClearInv
  BY DEF Init, ClearInv, FreeLine
<1>2. NetworkInv /\ ClearInv => ClearFindsItsLine
  <2> SUFFICES ASSUME NetworkInv, ClearInv, NEW r \in Routers,
                      tab[r].wrote_local \/ tab[r].clear_local
               PROVE  /\ tab[r].local_busy
                      /\ tab[r].cam[tab[r].wrote_idx].used
                      /\ tab[r].cam[tab[r].wrote_idx].msg.src = r
    BY DEF ClearFindsItsLine
  <2>1. tab[r].local_busy
    BY DEF NetworkInv, LocalInv
  <2>2. /\ tab[r].cam[tab[r].wrote_idx].used
        /\ tab[r].cam[tab[r].wrote_idx].msg = Message(r, sent[r] - 1)
    BY <2>1 DEF ClearInv
  <2> QED
    BY <2>1, <2>2 DEF Message
<1> QED
  BY <1>1, <1>2, NetworkInvariance, ClearStep, PTL DEF Spec

\* The same when every kernel sends at most as many messages as there are identifiers.
THEOREM ClearsFindLinesBeforeWrap == Spec /\ IdsNeverWrap => []ClearFindsItsLine
<1>1. NetworkInv /\ IdsNeverWrap => IdsAreFree
  <2> SUFFICES ASSUME NetworkInv, IdsNeverWrap, NEW r \in Routers, outp[r].req # {},
                      Busy(outp[r].flit.src), outp[r].flit.rank # sent[outp[r].flit.src] - 1
               PROVE  ~SameId(outp[r].flit, Message(outp[r].flit.src, sent[outp[r].flit.src] - 1))
    BY DEF IdsAreFree
  <2> DEFINE m == outp[r].flit
             n == sent[m.src]
             last == Message(m.src, n - 1)
  <2>1. TypeInv /\ m \in Messages /\ Known(m) /\ LocalInv(m.src) /\ m.src \in Routers
    BY DEF NetworkInv, TypeInv, OutputSide, ContentInv, Messages
  <2>2. m.rank \in Nat /\ n \in Nat /\ m.rank < n /\ n <= ID_CNT /\ n > 0 /\ m.rank # n - 1
    <3>1. Len(Outgoing[m.src]) \in Nat /\ n <= Len(Outgoing[m.src])
      BY <2>1, NetworkAssumption DEF TypeInv
    <3>2. m.rank \in Nat /\ n \in Nat /\ m.rank < n
      BY <2>1 DEF TypeInv, Messages, Known
    <3>3. n > 0
      BY <2>1 DEF LocalInv
    <3>4. n <= ID_CNT
      <4>1. Len(Outgoing[m.src]) <= ID_CNT
        BY <2>1 DEF IdsNeverWrap
      <4> HIDE DEF m, n
      <4> QED
        BY <3>1, <3>2, <4>1, NetworkAssumption
    <3> QED
      BY <3>2, <3>3, <3>4
  <2>3. last.rank = n - 1
    BY DEF Message
  <2> HIDE DEF m, n, last
  <2>4. m.rank % ID_CNT = m.rank /\ (n - 1) % ID_CNT = n - 1
    <3> DEFINE a == m.rank
               b == n - 1
    <3>1. a \in 0 .. ID_CNT - 1 /\ b \in 0 .. ID_CNT - 1 /\ ID_CNT \in Nat \ {0}
      BY <2>2, NetworkAssumption
    <3> HIDE DEF a, b
    <3>2. a % ID_CNT = a /\ b % ID_CNT = b
      BY <3>1
    <3> QED
      BY <3>2 DEF a, b
  <2> QED
    BY <2>2, <2>3, <2>4 DEF SameId, m, n, last
<1>2. IdsNeverWrap /\ [Next]_vars => IdsNeverWrap'
  BY DEF IdsNeverWrap
<1>3. Spec /\ IdsNeverWrap => []IdsNeverWrap
  BY <1>2, PTL DEF Spec
<1> QED
  BY <1>1, <1>3, NetworkInvariance, ClearsFindTheirLines, PTL
=============================================================================
