--------------------------- MODULE BroadcastProofs ---------------------------
(***************************************************************************)
(* The network delivers every message once: BrLite implements Broadcast.   *)
(***************************************************************************)
EXTENDS BrLiteProofs, SequenceTheorems

-----------------------------------------------------------------------------
(* Messages and requests.                                                  *)

LEMMA AppendedSequence ==
  ASSUME NEW S, NEW s \in Seq(S), NEW e \in S, NEW t \in Seq(S), Len(t) = Len(s) + 1,
         \A i \in 1 .. Len(s) : t[i] = s[i], t[Len(s) + 1] = e
  PROVE  t = Append(s, e)
<1>1. /\ Append(s, e) \in Seq(S) /\ Len(Append(s, e)) = Len(s) + 1
      /\ \A i \in 1 .. Len(s) : Append(s, e)[i] = s[i]
      /\ Append(s, e)[Len(s) + 1] = e
  BY AppendProperties
<1>2. \A i \in 1 .. Len(t) : t[i] = Append(s, e)[i]
  <2>1. \A i \in 1 .. Len(t) : i \in 1 .. Len(s) \/ i = Len(s) + 1
    BY LenProperties
  <2> QED
    BY <1>1, <2>1
<1> QED
  BY <1>1, <1>2, SeqEqual

\* All but the clear of a message is as its kernel wrote it.
LEMMA Original ==
  ASSUME NEW m \in Messages, Known(m), m.svc # "CLEAR"
  PROVE  m = Message(m.src, m.rank)
BY DEF Known, Message, Messages

\* A line, a wire and a kernel have known messages; kernels have no clears.
LEMMA KnownMessages ==
  ASSUME NetworkInv, NEW r \in Routers, NEW m
  PROVE  /\ \A i \in Lines : /\ tab[r].cam[i] \in TableLine /\ tab[r].cam[i].msg \in Messages
                             /\ tab[r].cam[i].used => Known(tab[r].cam[i].msg)
         /\ outp[r].flit \in Messages /\ (outp[r].req # {} => Known(outp[r].flit))
         /\ Got(r, m) \/ Offered(r, m) =>
              m \in Messages /\ Known(m) /\ Addressed(r, m) /\ m.svc # "CLEAR"
<1>1. /\ \A i \in Lines : /\ tab[r].cam[i] \in TableLine /\ tab[r].cam[i].msg \in Messages
                          /\ tab[r].cam[i].used => Known(tab[r].cam[i].msg)
      /\ outp[r].flit \in Messages /\ (outp[r].req # {} => Known(outp[r].flit))
  BY DEF NetworkInv, TypeInv, Table, TableLine, OutputSide, ContentInv
<1>2. Got(r, m) => m \in Messages /\ Known(m) /\ Addressed(r, m)
  <2>1. got[r] \in Seq(Messages)
    BY DEF NetworkInv, TypeInv
  <2> QED
    BY <2>1 DEF Got, NetworkInv, HeardWasSent
<1>3. Offered(r, m) => m \in Messages /\ Known(m) /\ Addressed(r, m)
  BY <1>1 DEF Offered, NetworkInv, ContentInv
<1> QED
  BY <1>1, <1>2, <1>3 DEF Addressed

\* An acknowledge stays as long as the request.
LEMMA AcknowledgeStays ==
  ASSUME NetworkInv, NEW popping, Tick(popping), NEW r \in Routers, NEW p \in Ports,
         ReqIn(r, p), p \in inp[r].ack
  PROVE  p \in inp'[r].ack
<1>1. InputInv(r) /\ inp'[r] = Input(r)
  BY DEF NetworkInv, Tick
<1>2. inp[r].state = "WAIT_REQ_DOWN" /\ inp[r].port = p
  BY <1>1 DEF InputInv
<1>3. Input(r) = inp[r]
  BY <1>2 DEF Input
<1> QED
  BY <1>1, <1>3

\* The message stays on the wire until it is acknowledged.
LEMMA DataStays ==
  ASSUME NetworkInv, NEW popping, Tick(popping), NEW r \in Routers, NEW p \in Ports,
         ReqIn(r, p), p \notin inp[r].ack, p \notin inp'[r].ack
  PROVE  DataIn(r, p)' = DataIn(r, p)
<1>1. CASE p = LOCAL_PORT
  BY <1>1, CycleSteps DEF DataIn, Message
<1>2. CASE p # LOCAL_PORT
  <2> DEFINE n == Neighbour(r, p)
             q == Opposite(p)
  <2>1. Linked(r, p) /\ q \in outp[n].req
    BY <1>2 DEF ReqIn
  <2>2. /\ n \in Routers /\ q \in MeshPorts /\ Linked(n, q)
        /\ Neighbour(n, q) = r /\ Opposite(q) = p
    BY <2>1, Wires
  <2>3. DataIn(r, p) = outp[n].flit /\ DataIn(r, p)' = outp'[n].flit
    BY <1>2 DEF DataIn
  <2> HIDE DEF n, q
  <2>4. ~AckIn(n, q)
    BY <2>1, <2>2, PortNumbers DEF AckIn
  <2>5. OutputStep(n, outp[n], outp'[n], tab[n].cam) /\ OutputInv(n)
    BY <2>2, CycleSteps DEF NetworkInv
  <2>6. q \in outp'[n].req /\ outp[n].state # "TEST_SVC"
    BY <2>1, <2>2, <2>4, <2>5 DEF OutputStep, OutputInv
  <2>7. outp'[n].flit = outp[n].flit
    BY <2>5, <2>6 DEF OutputStep
  <2> QED
    BY <2>3, <2>7
<1> QED
  BY <1>1, <1>2

\* What a request of the next cycle brings was on the wire, or its sender had still to
\* send it.
LEMMA ReceiverStep ==
  ASSUME NetworkInv, NEW popping, Tick(popping), NEW m \in Messages, m.svc # "CLEAR",
         NEW r \in Receivers(m)'
  PROVE  r \in Receivers(m) \/ Senders(m) # {}
<1>1. r \in Routers
  BY DEF Receivers
<1>2. PICK p \in Ports \ inp'[r].ack : Linked(r, p) /\ ReqIn(r, p)' /\ DataIn(r, p)' = m
  BY DEF Receivers, Linked
<1> DEFINE n == Neighbour(r, p)
           q == Opposite(p)
<1>3. /\ n \in Routers /\ q \in MeshPorts /\ Linked(n, q)
      /\ Neighbour(n, q) = r /\ Opposite(q) = p /\ p # LOCAL_PORT
  BY <1>1, <1>2, Wires, PortNumbers DEF Linked
<1>4. q \in outp'[n].req /\ outp'[n].flit = m
  BY <1>2, <1>3 DEF ReqIn, DataIn, Linked
<1>5. DataIn(r, p) = outp[n].flit
  BY <1>3 DEF DataIn
<1>6. q \in outp[n].req => ReqIn(r, p)
  BY <1>2 DEF ReqIn
<1> HIDE DEF n, q
<1>7. OutputStep(n, outp[n], outp'[n], tab[n].cam) /\ OutputInv(n)
  BY <1>3, CycleSteps DEF NetworkInv
<1>8. CASE q \in outp[n].req /\ outp[n].flit = m
  <2>1. p \notin inp[r].ack
    BY <1>1, <1>2, <1>6, <1>8, AcknowledgeStays
  <2> QED
    BY <1>1, <1>2, <1>5, <1>6, <1>8, <2>1 DEF Receivers
<1>9. CASE ~(q \in outp[n].req /\ outp[n].flit = m)
  <2>1. outp[n].state = "TEST_SVC" /\ outp'[n].line = outp[n].line /\ tab[n].cam[outp[n].line].msg = m
    BY <1>4, <1>7, <1>9 DEF OutputStep
  <2>2. tab[n].cam[outp[n].line].used /\ tab[n].cam[outp[n].line].pending
    BY <1>7, <2>1 DEF OutputInv
  <2>3. outp[n].line \in Lines
    BY <1>3 DEF NetworkInv, TypeInv, OutputSide
  <2> QED
    BY <1>3, <2>1, <2>2, <2>3 DEF Senders
<1> QED
  BY <1>8, <1>9

\* A router that has to send a message had to before, or is writing it.
LEMMA SenderStep ==
  ASSUME NetworkInv, NEW popping, Tick(popping), NEW m \in Messages, m.svc # "CLEAR",
         NEW r \in Senders(m)'
  PROVE  \/ r \in Senders(m)
         \/ r \in Routers /\ inp[r].state = "WRITE" /\ DataIn(r, inp[r].port) = m
<1>1. r \in Routers
  BY DEF Senders
<1>2. PICK i \in Lines : tab'[r].cam[i].used /\ tab'[r].cam[i].pending /\ tab'[r].cam[i].msg = m
  BY DEF Senders
<1>3. LineStep(r, i, tab[r].cam[i], tab'[r].cam[i]) /\ tab[r].cam[i].msg \in Messages
  BY <1>1, CycleSteps, KnownMessages
<1>4. CASE inp[r].state = "WRITE" /\ i = inp[r].free_idx
  BY <1>1, <1>2, <1>3, <1>4 DEF LineStep
<1>5. CASE ~(inp[r].state = "WRITE" /\ i = inp[r].free_idx)
  <2>1. tab[r].cam[i].used /\ tab[r].cam[i].pending /\ tab[r].cam[i].msg = m
    BY <1>2, <1>3, <1>5 DEF LineStep, Messages
  <2> QED
    BY <1>1, <2>1 DEF Senders
<1> QED
  BY <1>4, <1>5

\* A message that is being written was waiting, or on a link to a router that has not
\* had it before.
LEMMA WrittenMessage ==
  ASSUME NetworkInv, NEW r \in Routers, DistinctInv(r), inp[r].state = "WRITE"
  PROVE  LET m == DataIn(r, inp[r].port)
         IN  /\ m \in Messages /\ Known(m) /\ inp[r].port \in Ports
             /\ ~Remembered(r, m)
             /\ IF inp[r].port = LOCAL_PORT THEN m.src = r /\ Waiting(m) ELSE r \in Receivers(m)
             /\ ~Gone(m)
<1> DEFINE m == DataIn(r, inp[r].port)
           p == inp[r].port
<1>1. p \in Ports /\ ReqIn(r, p) /\ inp[r].ack = {}
  BY DEF NetworkInv, TypeInv, InputSide, InputInv
<1>2. /\ m \in Messages /\ Known(m)
      /\ p = LOCAL_PORT => ctl[r] /\ sent[r] > 0 /\ m = Message(r, sent[r] - 1)
  BY <1>1, RequestedMessage DEF NetworkInv
<1>3. ~Remembered(r, m)
  BY DEF DistinctInv, Remembered, SameMessage, SameId
<1>4. p = LOCAL_PORT => m.src = r /\ Waiting(m)
  BY <1>2 DEF Message, Waiting
<1>5. p # LOCAL_PORT => r \in Receivers(m)
  BY <1>1 DEF Receivers, ReqIn
<1>6. ~Gone(m)
  BY <1>3, <1>4, <1>5 DEF Gone
<1> QED
  BY <1>1, <1>2, <1>3, <1>4, <1>5, <1>6

-----------------------------------------------------------------------------
(* What a cycle does to the messages that are gone, and to the tables.     *)

\* A kernel's request is not made again for a message.
LEMMA WaitingStep ==
  ASSUME NetworkInv, NEW popping, Tick(popping), NEW m \in Messages, Waiting(m)'
  PROVE  Waiting(m)
<1>1. m.src \in Routers
  BY DEF Messages
<1>2. (ctl'[m.src] => ctl[m.src]) /\ sent' = sent
  BY <1>1, CycleSteps
<1> QED
  BY <1>2 DEF Waiting

\* A table keeps the messages it knows but the one whose clear is through.
LEMMA RememberedStep ==
  ASSUME NetworkInv, NEW popping, Tick(popping), NEW r \in Routers, NEW m \in Messages,
         Remembered(r, m)
  PROVE  \/ Remembered(r, m)'
         \/ /\ outp[r].state = "CLEAR_TABLE" /\ outp[r].line \in Lines
            /\ tab[r].cam[outp[r].line].used /\ SameMessage(tab[r].cam[outp[r].line].msg, m)
<1>1. PICK i \in Lines : tab[r].cam[i].used /\ SameMessage(tab[r].cam[i].msg, m)
  BY DEF Remembered
<1>2. LineStep(r, i, tab[r].cam[i], tab'[r].cam[i]) /\ tab[r].cam[i].msg \in Messages
  BY CycleSteps, KnownMessages
<1>3. ~(inp[r].state = "WRITE" /\ i = inp[r].free_idx)
  BY <1>1 DEF NetworkInv, InputInv
<1>4. CASE outp[r].state = "CLEAR_TABLE" /\ i = outp[r].line
  BY <1>1, <1>4
<1>5. CASE ~(outp[r].state = "CLEAR_TABLE" /\ i = outp[r].line)
  <2>1. /\ tab'[r].cam[i].used
        /\ \/ tab'[r].cam[i].msg = tab[r].cam[i].msg
           \/ tab'[r].cam[i].msg = [tab[r].cam[i].msg EXCEPT !.svc = "CLEAR"]
    BY <1>1, <1>2, <1>3, <1>5 DEF LineStep
  <2>2. SameMessage(tab'[r].cam[i].msg, m)
    BY <1>1, <1>2, <2>1 DEF SameMessage, Messages
  <2> QED
    BY <2>1, <2>2 DEF Remembered
<1> QED
  BY <1>4, <1>5

\* The message whose clear is through at a router is in flight to others that have it only.
LEMMA ErasedMessage ==
  ASSUME NetworkInv, ClearsComeLast, NEW r \in Routers, outp[r].state = "CLEAR_TABLE",
         NEW m \in Messages, Known(m), m.svc # "CLEAR",
         SameMessage(tab[r].cam[outp[r].line].msg, m)
  PROVE  Senders(m) = {} /\ \A n \in Receivers(m) : n # r /\ Remembered(n, m)
<1> DEFINE c == tab[r].cam[outp[r].line].msg
<1>1. Message(c.src, c.rank) = Message(m.src, m.rank)
  BY DEF SameMessage
<1>2. Message(m.src, m.rank) = m
  BY Original
<1> QED
  BY <1>1, <1>2 DEF ClearsComeLast

LEMMA GoneStays ==
  ASSUME NetworkInv, \A r \in Routers : DistinctInv(r), ClearsComeLast,
         NEW popping, Tick(popping), NEW m \in Messages, Known(m), m.svc # "CLEAR", Gone(m)
  PROVE  Gone(m)'
<1>1. ~Waiting(m) /\ Senders(m) = {} /\ \A n \in Receivers(m) : Remembered(n, m)
  BY DEF Gone
<1>2. ~Waiting(m)'
  BY <1>1, WaitingStep
<1>3. Senders(m)' = {}
  <2>1. SUFFICES ASSUME NEW r \in Senders(m)'
                 PROVE  FALSE
    OBVIOUS
  <2>2. r \in Routers /\ inp[r].state = "WRITE" /\ DataIn(r, inp[r].port) = m
    BY <1>1, SenderStep
  <2> QED
    BY <2>2, WrittenMessage
<1>4. ASSUME NEW n \in Receivers(m)'
      PROVE  Remembered(n, m)'
  <2>1. n \in Receivers(m) /\ n \in Routers
    BY <1>1, ReceiverStep DEF Receivers
  <2>2. Remembered(n, m)
    BY <1>1, <2>1
  <2>3. ~(outp[n].state = "CLEAR_TABLE" /\ SameMessage(tab[n].cam[outp[n].line].msg, m))
    BY <2>1, ErasedMessage
  <2> QED
    BY <2>1, <2>2, <2>3, RememberedStep
<1> QED
  BY <1>2, <1>3, <1>4 DEF Gone

\* What a kernel gets was offered to it; what it is offered is a line that the router tests.
LEMMA GotStep ==
  ASSUME NetworkInv, NEW popping, Tick(popping), NEW r \in Routers, NEW m
  PROVE  /\ Got(r, m)' => Got(r, m) \/ (Offered(r, m) /\ Taken(r, popping))
         /\ Offered(r, m)' =>
              \/ Offered(r, m) /\ outp[r].state # "TEST_SVC"
              \/ /\ outp[r].state = "TEST_SVC" /\ outp[r].line \in Lines
                 /\ tab[r].cam[outp[r].line].used /\ tab[r].cam[outp[r].line].pending
                 /\ tab[r].cam[outp[r].line].msg = m
<1>1. got[r] \in Seq(Messages) /\ outp[r].flit \in Messages /\ outp[r].line \in Lines
  BY DEF NetworkInv, TypeInv, OutputSide
<1>2. got'[r] = IF Taken(r, popping) THEN Append(got[r], outp[r].flit) ELSE got[r]
  BY DEF Tick
<1>3. Got(r, m)' => Got(r, m) \/ (Offered(r, m) /\ Taken(r, popping))
  <2> DEFINE g == got[r]
             h == got'[r]
             f == outp[r].flit
  <2>1. CASE Taken(r, popping)
    <3>1. h = Append(g, f) /\ LOCAL_PORT \in outp[r].req
      BY <1>2, <2>1 DEF Taken
    <3>2. SUFFICES ASSUME NEW k \in 1 .. Len(h), h[k] = m
                   PROVE  f = m \/ \E j \in 1 .. Len(g) : g[j] = m
      BY <2>1, <3>1 DEF Got, Offered
    <3> HIDE DEF g, h, f
    <3>3. (k \in 1 .. Len(g) /\ h[k] = g[k]) \/ h[k] = f
      BY <1>1, <3>1 DEF g, f
    <3> QED
      BY <3>2, <3>3
  <2>2. CASE ~Taken(r, popping)
    BY <1>2, <2>2 DEF Got
  <2> QED
    BY <2>1, <2>2
<1>4. ASSUME Offered(r, m)'
      PROVE  \/ Offered(r, m) /\ outp[r].state # "TEST_SVC"
             \/ /\ outp[r].state = "TEST_SVC"
                /\ tab[r].cam[outp[r].line].used /\ tab[r].cam[outp[r].line].pending
                /\ tab[r].cam[outp[r].line].msg = m
  <2>1. LOCAL_PORT \in outp'[r].req /\ outp'[r].flit = m
    BY <1>4 DEF Offered
  <2>2. OutputStep(r, outp[r], outp'[r], tab[r].cam) /\ OutputInv(r)
    BY CycleSteps DEF NetworkInv
  <2> QED
    BY <2>1, <2>2 DEF OutputStep, OutputInv, Offered
<1> QED
  BY <1>1, <1>3, <1>4

-----------------------------------------------------------------------------
(* The parts of the invariant, in a cycle.                                 *)

\* A line that is used after the cycle was used before for the same message, or is written.
LEMMA UsedLine ==
  ASSUME NetworkInv, NEW popping, Tick(popping), NEW r \in Routers, NEW i \in Lines,
         tab'[r].cam[i].used
  PROVE  IF inp[r].state = "WRITE" /\ i = inp[r].free_idx
         THEN tab'[r].cam[i].msg = DataIn(r, inp[r].port)
         ELSE tab[r].cam[i].used /\ SameMessage(tab'[r].cam[i].msg, tab[r].cam[i].msg)
<1>1. LineStep(r, i, tab[r].cam[i], tab'[r].cam[i]) /\ tab[r].cam[i].msg \in Messages
  BY CycleSteps, KnownMessages
<1> QED
  BY <1>1 DEF LineStep, SameMessage, Messages

\* IN_TEST_SPACE lets a message through only if no line has its identifier.
LEMMA WriteIsNew ==
  ASSUME NetworkInv, NEW popping, Tick(popping), NEW r \in Routers, inp'[r].state = "WRITE"
  PROVE  /\ inp[r].state = "TEST_SPACE" /\ inp'[r].port = inp[r].port
         /\ \A i \in Lines : tab[r].cam[i].used => ~SameId(tab[r].cam[i].msg, DataIn(r, inp[r].port))
<1> DEFINE s == inp[r]
           m == DataIn(r, s.port)
           found == {i \in Lines : tab[r].cam[i].used /\ SameId(tab[r].cam[i].msg, m)}
<1>1. s.state = "TEST_SPACE" /\ inp'[r].port = s.port
  BY CycleSteps DEF InputStep
<1>2. inp'[r] = TestSpace(r) /\ s \in InputSide
  BY <1>1 DEF Tick, Input, NetworkInv, TypeInv
<1>3. found # {} => TestSpace(r).state # "WRITE"
  <2>1. SUFFICES ASSUME found # {}
                 PROVE  TestSpace(r).state # "WRITE"
    OBVIOUS
  <2>2. \/ TestSpace(r) = [s EXCEPT !.source_idx = Min(found), !.state = "CLEAR"]
        \/ TestSpace(r) = [s EXCEPT !.state = "WAIT_REQ_DOWN", !.ack = @ \cup {s.port},
                                    !.source_idx = Min(found)]
    BY <2>1, Zenon DEF TestSpace
  <2> HIDE DEF s, found
  <2> QED
    BY <1>2, <2>2 DEF InputSide
<1> QED
  BY <1>1, <1>2, <1>3

LEMMA DistinctCycle ==
  ASSUME NetworkInv, NEW popping, Tick(popping), NEW r \in Routers, DistinctInv(r)
  PROVE  DistinctInv(r)'
<1> DEFINE cam == tab[r].cam
           new == tab'[r].cam
           w == inp[r].state = "WRITE"
           f == inp[r].free_idx
           m == DataIn(r, inp[r].port)
<1>1. ASSUME NEW i \in Lines, new[i].used
      PROVE  IF w /\ i = f THEN new[i].msg = m
             ELSE cam[i].used /\ SameMessage(new[i].msg, cam[i].msg)
  BY <1>1, UsedLine
<1>2. /\ \A i, j \in Lines : cam[i].used /\ cam[j].used /\ SameId(cam[i].msg, cam[j].msg) => i = j
      /\ w => \A i \in Lines : cam[i].used => ~SameId(cam[i].msg, m)
  BY DEF DistinctInv
<1> HIDE DEF cam, new, w, f, m
<1>3. ASSUME NEW i \in Lines, NEW j \in Lines, new[i].used, new[j].used,
             SameId(new[i].msg, new[j].msg)
      PROVE  i = j
  BY <1>1, <1>2, <1>3 DEF SameId, SameMessage
<1>4. ASSUME inp'[r].state = "WRITE", NEW i \in Lines, new[i].used
      PROVE  ~SameId(new[i].msg, DataIn(r, inp[r].port)')
  <2>1. /\ inp[r].state = "TEST_SPACE" /\ inp'[r].port = inp[r].port
        /\ \A j \in Lines : cam[j].used => ~SameId(cam[j].msg, m)
    BY <1>4, WriteIsNew DEF cam, m
  <2>2. /\ inp[r].port \in Ports /\ ReqIn(r, inp[r].port) /\ inp[r].ack = {} /\ inp'[r].ack = {}
    BY <1>4, <2>1, CycleSteps DEF NetworkInv, TypeInv, InputSide, InputInv, InputStep
  <2>3. DataIn(r, inp[r].port)' = m
    <3>1. PICK p \in Ports : p = inp[r].port /\ p = inp'[r].port
      BY <2>1, <2>2
    <3>2. DataIn(r, p)' = DataIn(r, p)
      BY <2>2, <3>1, DataStays
    <3> QED
      BY <3>1, <3>2 DEF m, DataIn
  <2> QED
    BY <1>1, <1>4, <2>1, <2>3 DEF SameId, SameMessage, w
<1> QED
  BY <1>3, <1>4 DEF DistinctInv, SameId, new

LEMMA EnteredCycle ==
  ASSUME NetworkInv, NEW popping, Tick(popping), \A x \in Routers : EnteredInv(x),
         NEW r \in Routers
  PROVE  EnteredInv(r)'
<1>1. ASSUME NEW m \in Messages, ~Waiting(m), NEW n, n.src = m.src, n.rank = m.rank
      PROVE  ~(ctl'[n.src] /\ n.rank = sent'[n.src] - 1)
  BY <1>1, WaitingStep DEF Waiting
<1>2. ASSUME NEW i \in Lines, tab'[r].cam[i].used
      PROVE  ~(ctl'[tab'[r].cam[i].msg.src] /\ tab'[r].cam[i].msg.rank = sent'[tab'[r].cam[i].msg.src] - 1)
  <2>1. CASE inp[r].state = "WRITE" /\ i = inp[r].free_idx
    <3> DEFINE p == inp[r].port
               m == DataIn(r, p)
    <3>1. tab'[r].cam[i].msg = m
      BY <1>2, <2>1, UsedLine
    <3>2. p \in Ports /\ ReqIn(r, p) /\ inp'[r].ack = {p}
      BY <2>1, CycleSteps DEF NetworkInv, TypeInv, InputSide, InputInv, InputStep
    <3>3. /\ m \in Messages
          /\ p = LOCAL_PORT => ctl[r] /\ m = Message(r, sent[r] - 1)
          /\ p # LOCAL_PORT => \E n \in Routers : outp[n].req # {} /\ m = outp[n].flit
      BY <3>2, RequestedMessage DEF NetworkInv
    <3>4. CASE p = LOCAL_PORT
      <4>1. m.src = r
        BY <3>3, <3>4 DEF Message
      <4>2. ~ctl'[r]
        BY <3>2, <3>4, CycleSteps
      <4> QED
        BY <3>1, <4>1, <4>2
    <3>5. CASE p # LOCAL_PORT
      <4>1. ~Waiting(m)
        BY <3>3, <3>5 DEF EnteredInv
      <4> QED
        BY <1>1, <3>1, <3>3, <4>1
    <3> QED
      BY <3>4, <3>5
  <2>2. CASE ~(inp[r].state = "WRITE" /\ i = inp[r].free_idx)
    <3>1. tab[r].cam[i].used /\ SameMessage(tab'[r].cam[i].msg, tab[r].cam[i].msg)
      BY <1>2, <2>2, UsedLine
    <3>2. tab[r].cam[i].msg \in Messages /\ ~Waiting(tab[r].cam[i].msg)
      BY <3>1, KnownMessages DEF EnteredInv
    <3> QED
      BY <1>1, <3>1, <3>2 DEF SameMessage
  <2> QED
    BY <2>1, <2>2
<1>3. ASSUME outp'[r].req # {}
      PROVE  ~(ctl'[outp'[r].flit.src] /\ outp'[r].flit.rank = sent'[outp'[r].flit.src] - 1)
  <2> DEFINE line == tab[r].cam[outp[r].line]
  <2>1. \/ outp'[r].flit = line.msg /\ line.used
        \/ outp[r].req # {} /\ outp'[r].flit = outp[r].flit
    BY <1>3, CycleSteps DEF OutputStep
  <2>2. outp[r].line \in Lines
    BY DEF NetworkInv, TypeInv, OutputSide
  <2>3. outp'[r].flit \in Messages /\ ~Waiting(outp'[r].flit)
    BY <2>1, <2>2, KnownMessages DEF EnteredInv, Waiting
  <2> QED
    BY <1>1, <2>3
<1> QED
  BY <1>2, <1>3 DEF EnteredInv, Waiting

LEMMA OnceCycle ==
  ASSUME NetworkInv, ClearsComeLast, DeliveryInv, NEW popping, Tick(popping), NEW r \in Routers
  PROVE  OnceInv(r)'
<1> DEFINE cam == tab[r].cam
           new == tab'[r].cam
<1>1. /\ DistinctInv(r) /\ EnteredInv(r) /\ OnceInv(r)
      /\ \A x \in Routers : DistinctInv(x)
  BY DEF DeliveryInv
<1>2. \A m : /\ Got(r, m)' => Got(r, m) \/ Offered(r, m)
             /\ Offered(r, m)' =>
                  \/ Offered(r, m)
                  \/ /\ outp[r].state = "TEST_SVC" /\ outp[r].line \in Lines
                     /\ cam[outp[r].line].used /\ cam[outp[r].line].pending
                     /\ cam[outp[r].line].msg = m
  BY GotStep
\* What a kernel has stays in the table until it is gone.
<1>3. ASSUME NEW m \in Messages, Got(r, m)' \/ Offered(r, m)'
      PROVE  Remembered(r, m)' \/ Gone(m)'
  <2>1. Known(m) /\ m.svc # "CLEAR"
    <3>1. Got(r, m) \/ Offered(r, m) => Known(m) /\ m.svc # "CLEAR"
      BY KnownMessages
    <3>2. ASSUME Offered(r, m)', ~Offered(r, m)
          PROVE  Known(m) /\ m.svc # "CLEAR"
      <4>1. outp[r].state = "TEST_SVC" /\ outp[r].line \in Lines /\ cam[outp[r].line].used
            /\ cam[outp[r].line].msg = m
        BY <1>2, <3>2
      <4>2. Known(m)
        BY <4>1, KnownMessages
      <4>3. LOCAL_PORT \in outp'[r].req /\ outp'[r].flit = m
        BY <3>2 DEF Offered
      <4>4. Addressed(r, m)
        BY <4>1, <4>3, CycleSteps DEF OutputStep
      <4> QED
        BY <4>2, <4>4 DEF Addressed
    <3> QED
      BY <1>2, <1>3, <3>1, <3>2
  <2>2. Remembered(r, m) \/ Gone(m)
    <3>1. Got(r, m) \/ Offered(r, m) => Remembered(r, m) \/ Gone(m)
      BY <1>1 DEF OnceInv
    <3>2. ASSUME outp[r].line \in Lines, cam[outp[r].line].used, cam[outp[r].line].msg = m
          PROVE  Remembered(r, m)
      BY <3>2 DEF Remembered, SameMessage
    <3> QED
      BY <1>2, <1>3, <3>1, <3>2
  <2>3. CASE Gone(m)
    BY <1>1, <2>1, <2>3, GoneStays
  <2>4. CASE Remembered(r, m) /\ ~Gone(m)
    <3>1. SUFFICES ASSUME ~Remembered(r, m)'
                   PROVE  FALSE
      OBVIOUS
    <3>2. /\ outp[r].state = "CLEAR_TABLE" /\ outp[r].line \in Lines
          /\ cam[outp[r].line].used /\ SameMessage(cam[outp[r].line].msg, m)
      BY <2>4, <3>1, RememberedStep
    <3>3. Senders(m) = {} /\ \A n \in Receivers(m) : Remembered(n, m)
      BY <2>1, <3>2, ErasedMessage
    <3>4. ~Waiting(m)
      BY <1>1, <3>2 DEF EnteredInv, Waiting, SameMessage
    <3> QED
      BY <2>4, <3>3, <3>4 DEF Gone
  <2> QED
    BY <2>2, <2>3, <2>4
\* What it is offered, it does not have.
<1>4. ASSUME LOCAL_PORT \in outp'[r].req, ~buf'[r].ack
      PROVE  ~Got(r, outp[r].flit)'
  <2>1. PICK m : m = outp'[r].flit
    OBVIOUS
  <2>2. ~(LOCAL_PORT \in outp[r].req /\ (buf[r].ack \/ Taken(r, popping)))
    <3> DEFINE a == LOCAL_PORT \in outp[r].req /\ (buf[r].ack \/ Taken(r, popping))
    <3>1. buf'[r].ack = a
      BY DEF Tick, Buffer
    <3> QED
      BY <1>4, <3>1
  <2>3. got'[r] = got[r]
    BY <2>2 DEF Taken, Tick
  <2>4. SUFFICES ~Got(r, m)
    BY <2>1, <2>3 DEF Got
  <2>5. Offered(r, m)'
    BY <1>4, <2>1 DEF Offered
  <2>6. CASE Offered(r, m)
    <3>1. LOCAL_PORT \in outp[r].req /\ ~buf[r].ack /\ outp[r].flit = m
      BY <2>2, <2>6 DEF Offered
    <3> QED
      BY <1>1, <3>1 DEF OnceInv
  <2>7. CASE ~Offered(r, m)
    <3>1. /\ outp[r].state = "TEST_SVC" /\ outp[r].line \in Lines
          /\ cam[outp[r].line].used /\ cam[outp[r].line].pending /\ cam[outp[r].line].msg = m
      BY <1>2, <2>5, <2>7
    <3>2. Addressed(r, m)
      BY <1>4, <2>1, <3>1, CycleSteps DEF OutputStep
    <3> QED
      BY <1>1, <3>1, <3>2 DEF OnceInv, Addressed
  <2> QED
    BY <2>6, <2>7
\* What is yet to be sent, it neither has nor is offered.
<1>5. ASSUME NEW i \in Lines, new[i].used, new[i].pending, new[i].msg.svc # "CLEAR",
             NEW m, m = new[i].msg
      PROVE  ~Got(r, m)' /\ ~Offered(r, m)'
  <2>1. LineStep(r, i, cam[i], new[i]) /\ cam[i].msg \in Messages
    BY CycleSteps, KnownMessages
  <2>2. CASE inp[r].state = "WRITE" /\ i = inp[r].free_idx
    <3>1. m = DataIn(r, inp[r].port)
      BY <1>5, <2>1, <2>2 DEF LineStep
    <3>2. m \in Messages /\ ~Remembered(r, m) /\ ~Gone(m)
      BY <1>1, <2>2, <3>1, WrittenMessage
    <3>3. ~Got(r, m) /\ ~Offered(r, m)
      BY <1>1, <3>2 DEF OnceInv
    <3>4. ~(outp[r].line \in Lines /\ cam[outp[r].line].used /\ cam[outp[r].line].msg = m)
      BY <3>2 DEF Remembered, SameMessage
    <3> QED
      BY <1>2, <3>3, <3>4
  <2>3. CASE ~(inp[r].state = "WRITE" /\ i = inp[r].free_idx)
    <3>1. /\ cam[i].used /\ cam[i].pending /\ cam[i].msg = m
          /\ ~(outp[r].state = "TEST_SVC" /\ i = outp[r].line)
      BY <1>5, <2>1, <2>3 DEF LineStep, Messages
    <3>2. ~Got(r, m) /\ ~Offered(r, m)
      BY <1>1, <1>5, <3>1 DEF OnceInv
    <3>3. ~(outp[r].state = "TEST_SVC" /\ outp[r].line \in Lines /\ cam[outp[r].line].used
            /\ cam[outp[r].line].msg = m)
      BY <1>1, <3>1 DEF DistinctInv, SameId
    <3> QED
      BY <1>2, <3>2, <3>3
  <2> QED
    BY <2>2, <2>3
<1>6. ASSUME NEW i \in Lines, new[i].used, new[i].pending, new[i].msg.svc # "CLEAR"
      PROVE  ~Got(r, tab[r].cam[i].msg)' /\ ~Offered(r, tab[r].cam[i].msg)'
  <2>1. PICK m : m = new[i].msg
    OBVIOUS
  <2> QED
    BY <1>5, <1>6, <2>1 DEF Got, Offered
<1> QED
  BY <1>3, <1>4, <1>6 DEF OnceInv

-----------------------------------------------------------------------------
(* The invariant.                                                          *)

LEMMA DeliverySend ==
  ASSUME NetworkInv, DeliveryInv, NEW k \in Routers, Send(k)
  PROVE  DeliveryInv'
<1>1. /\ ~Busy(k) /\ inp' = inp /\ outp' = outp /\ tab' = tab /\ got' = got /\ buf' = buf
      /\ \A r \in Routers : /\ ctl'[r] = (ctl[r] \/ r = k)
                            /\ sent'[r] = IF r = k THEN sent[r] + 1 ELSE sent[r]
  BY NetworkSend DEF Send, CanSend
<1>2. ASSUME NEW m \in Messages, Known(m), ~Waiting(m)
      PROVE  ~Waiting(m)'
  <2>1. m.src \in Routers /\ m.rank \in Nat /\ sent[m.src] \in Nat /\ m.rank < sent[m.src]
    BY <1>2 DEF Messages, NetworkInv, TypeInv, Known
  <2>2. CASE m.src = k
    <3>1. sent'[m.src] = sent[m.src] + 1
      BY <1>1, <2>1, <2>2
    <3>2. m.rank # sent'[m.src] - 1
      BY <2>1, <3>1
    <3> QED
      BY <3>2 DEF Waiting
  <2>3. CASE m.src # k
    <3>1. sent'[m.src] = sent[m.src] /\ ctl'[m.src] = (ctl[m.src] \/ m.src = k)
      BY <1>1, <2>1, <2>3
    <3> QED
      BY <1>2, <2>3, <3>1 DEF Waiting
  <2> QED
    BY <2>2, <2>3
<1>3. ASSUME NEW r \in Routers, NEW p, Linked(r, p)
      PROVE  ReqIn(r, p)' = ReqIn(r, p) /\ DataIn(r, p)' = DataIn(r, p)
  BY <1>1, <1>3, PortNumbers DEF ReqIn, DataIn, Linked
<1>4. ASSUME NEW m \in Messages, Known(m), Gone(m)
      PROVE  Gone(m)'
  <2>1. ~Waiting(m) /\ Senders(m) = {} /\ \A n \in Receivers(m) : Remembered(n, m)
    BY <1>4 DEF Gone
  <2>2. ~Waiting(m)'
    BY <1>2, <1>4, <2>1
  <2>3. Senders(m)' = {}
    BY <1>1, <2>1 DEF Senders
  <2>4. \A n \in Receivers(m)' : n \in Receivers(m)
    <3>1. SUFFICES ASSUME NEW n \in Routers, NEW p \in Ports \ inp'[n].ack, Linked(n, p),
                          ReqIn(n, p)', DataIn(n, p)' = m
                   PROVE  n \in Receivers(m)
      BY DEF Receivers, Linked
    <3> QED
      BY <1>1, <1>3, <3>1 DEF Receivers
  <2>5. \A n \in Receivers(m)' : Remembered(n, m)'
    BY <1>1, <2>1, <2>4 DEF Remembered
  <2> QED
    BY <2>2, <2>3, <2>5 DEF Gone
<1>5. ASSUME NEW r \in Routers
      PROVE  DistinctInv(r)'
  <2>1. DistinctInv(r)
    BY DEF DeliveryInv
  <2>2. inp[r].state = "WRITE" => DataIn(r, inp[r].port)' = DataIn(r, inp[r].port)
    <3>1. SUFFICES ASSUME ReqIn(r, inp[r].port)
                   PROVE  DataIn(r, inp[r].port)' = DataIn(r, inp[r].port)
      BY DEF NetworkInv, InputInv
    <3>2. CASE inp[r].port = LOCAL_PORT
      <4>1. ctl[r]
        BY <3>1, <3>2, PortNumbers DEF ReqIn, Linked
      <4>2. sent'[r] = sent[r]
        BY <1>1, <4>1 DEF Busy
      <4> QED
        BY <1>1, <3>2, <4>2 DEF DataIn, Message
    <3>3. CASE inp[r].port # LOCAL_PORT
      BY <1>1, <3>3 DEF DataIn
    <3> QED
      BY <3>2, <3>3
  <2> QED
    BY <1>1, <2>1, <2>2 DEF DistinctInv
<1>6. ASSUME NEW r \in Routers
      PROVE  EnteredInv(r)'
  <2>1. EnteredInv(r)
    BY DEF DeliveryInv
  <2>2. \A i \in Lines : tab[r].cam[i].used => ~Waiting(tab[r].cam[i].msg)'
    <3>1. SUFFICES ASSUME NEW i \in Lines, tab[r].cam[i].used
                   PROVE  ~Waiting(tab[r].cam[i].msg)'
      OBVIOUS
    <3>2. PICK m \in Messages : m = tab[r].cam[i].msg /\ Known(m)
      BY <3>1, KnownMessages
    <3>3. ~Waiting(m)'
      BY <1>2, <2>1, <3>1, <3>2 DEF EnteredInv
    <3> QED
      BY <1>1, <3>2, <3>3 DEF Waiting
  <2>3. outp[r].req # {} => ~Waiting(outp[r].flit)'
    <3>1. SUFFICES ASSUME outp[r].req # {}
                   PROVE  ~Waiting(outp[r].flit)'
      OBVIOUS
    <3>2. PICK m \in Messages : m = outp[r].flit /\ Known(m)
      BY <3>1, KnownMessages
    <3>3. ~Waiting(m)'
      BY <1>2, <2>1, <3>1, <3>2 DEF EnteredInv
    <3> QED
      BY <1>1, <3>2, <3>3 DEF Waiting
  <2> QED
    BY <1>1, <2>2, <2>3 DEF EnteredInv
<1>7. ASSUME NEW r \in Routers
      PROVE  OnceInv(r)'
  <2>1. OnceInv(r)
    BY DEF DeliveryInv
  <2>2. ASSUME NEW m \in Messages, Got(r, m) \/ Offered(r, m)
        PROVE  Remembered(r, m)' \/ Gone(m)'
    <3>1. Known(m) /\ (Remembered(r, m) \/ Gone(m))
      BY <2>1, <2>2, KnownMessages DEF OnceInv
    <3>2. Remembered(r, m) => Remembered(r, m)'
      BY <1>1 DEF Remembered
    <3> QED
      BY <1>4, <3>1, <3>2
  <2> QED
    BY <1>1, <2>1, <2>2 DEF OnceInv, Got, Offered
<1> QED
  BY <1>5, <1>6, <1>7 DEF DeliveryInv

LEMMA DeliveryStep == NetworkInv /\ DeliveryInv /\ ClearsComeLast /\ [Next]_vars => DeliveryInv'
<1> SUFFICES ASSUME NetworkInv, DeliveryInv, ClearsComeLast, [Next]_vars
             PROVE  DeliveryInv'
  OBVIOUS
<1>1. CASE Cycle
  <2>1. PICK popping \in SUBSET Poppers : Tick(popping)
    BY <1>1 DEF Cycle
  <2>2. \A r \in Routers : DistinctInv(r) /\ EnteredInv(r)
    BY DEF DeliveryInv
  <2>3. \A r \in Routers : DistinctInv(r)' /\ EnteredInv(r)' /\ OnceInv(r)'
    BY <2>1, <2>2, DistinctCycle, EnteredCycle, OnceCycle
  <2> QED
    BY <2>3 DEF DeliveryInv
<1>2. ASSUME NEW k \in Routers, Send(k)
      PROVE  DeliveryInv'
  BY <1>2, DeliverySend
<1>3. CASE UNCHANGED vars
  <2>1. /\ inp' = inp /\ outp' = outp /\ tab' = tab /\ ctl' = ctl /\ sent' = sent /\ buf' = buf
        /\ got' = got
    BY <1>3 DEF vars
  <2>2. ASSUME NEW r \in Routers
        PROVE  DistinctInv(r)' /\ EnteredInv(r)'
    BY <2>1 DEF DeliveryInv, DistinctInv, EnteredInv, DataIn, Waiting
  <2>3. ASSUME NEW m
        PROVE  Gone(m)' <=> Gone(m)
    BY <2>1 DEF Gone, Waiting, Senders, Receivers, Remembered, ReqIn, DataIn
  <2>4. ASSUME NEW r \in Routers
        PROVE  OnceInv(r)'
    BY <2>1, <2>3 DEF DeliveryInv, OnceInv, Got, Offered, Remembered
  <2> QED
    BY <2>2, <2>4 DEF DeliveryInv
<1> QED
  BY <1>1, <1>2, <1>3 DEF Next

LEMMA DeliveryStart == Init => DeliveryInv
<1> SUFFICES ASSUME Init
             PROVE  DeliveryInv
  OBVIOUS
<1>1. ASSUME NEW r \in Routers
      PROVE  /\ inp[r].state = "INIT" /\ outp[r].req = {} /\ got[r] = <<>>
             /\ \A i \in Lines : ~tab[r].cam[i].used
  BY DEF Init, FreeLine
<1> QED
  BY <1>1 DEF DeliveryInv, DistinctInv, EnteredInv, OnceInv, Got, Offered

-----------------------------------------------------------------------------
(* The refinement.                                                         *)

LEMMA TakenIsDeliverable ==
  ASSUME NetworkInv, DeliveryInv, NEW popping, NEW r \in Routers, Taken(r, popping)
  PROVE  LET m == outp[r].flit
         IN  /\ m.src \in Routers /\ m.rank \in 0 .. Len(Outgoing[m.src]) - 1
             /\ Abstract!Deliverable(r, m.src, m.rank)
<1> DEFINE m == outp[r].flit
<1>1. Offered(r, m) /\ ~buf[r].ack
  BY DEF Taken, Offered
<1>2. m \in Messages /\ Known(m) /\ Addressed(r, m) /\ m.svc # "CLEAR"
  BY <1>1, KnownMessages
<1>3. m.src \in Routers /\ m.rank \in Nat /\ m.rank < sent[m.src]
  BY <1>2 DEF Messages, Known
<1>4. m.rank \in 0 .. Len(Outgoing[m.src]) - 1
  <2>1. /\ Outgoing[m.src] \in Seq([svc : {"TARGET", "ALL"}, target : Routers])
        /\ sent[m.src] \in Nat /\ sent[m.src] <= Len(Outgoing[m.src])
    BY <1>3, NetworkAssumption DEF NetworkInv, TypeInv
  <2>2. Len(Outgoing[m.src]) \in Nat
    BY <2>1
  <2> QED
    BY <1>3, <2>1, <2>2
<1>5. r \in Dest(m.src, m.rank)
  <2>1. m = Message(m.src, m.rank)
    BY <1>2, Original
  <2>2. /\ m.svc = Outgoing[m.src][m.rank + 1].svc
        /\ m.target = Outgoing[m.src][m.rank + 1].target
    BY <2>1 DEF Message
  <2> HIDE DEF m
  <2> QED
    BY <1>2, <2>2 DEF Dest, Addressed
<1>6. ~Abstract!Heard(r, m.src, m.rank)
  <2>1. ~Got(r, m)
    BY <1>1, <1>2 DEF DeliveryInv, OnceInv, Offered
  <2>2. SUFFICES ASSUME Abstract!Heard(r, m.src, m.rank)
                 PROVE  FALSE
    OBVIOUS
  <2>3. PICK k \in 1 .. Len(heard[r]) : heard[r][k] = <<m.src, m.rank>>
    BY <2>2 DEF Abstract!Heard
  <2> DEFINE x == got[r][k]
  <2>4. k \in 1 .. Len(got[r]) /\ heard[r][k] = <<x.src, x.rank>>
    <3>1. heard[r] = [i \in 1 .. Len(got[r]) |-> <<got[r][i].src, got[r][i].rank>>]
      BY DEF heard
    <3>2. Len(heard[r]) = Len(got[r])
      <4>1. got[r] \in Seq(Messages)
        BY DEF NetworkInv, TypeInv
      <4> QED
        BY <3>1, <4>1, LenProperties
    <3> QED
      BY <3>1, <3>2
  <2>5. Got(r, x)
    BY <2>4 DEF Got
  <2>6. x \in Messages /\ Known(x) /\ x.svc # "CLEAR"
    BY <2>5, KnownMessages
  <2>7. x = Message(x.src, x.rank) /\ m = Message(m.src, m.rank)
    BY <1>2, <2>6, Original
  <2>8. x.src = m.src /\ x.rank = m.rank
    <3> DEFINE a == x.src
               b == x.rank
               c == m.src
               d == m.rank
    <3>1. <<a, b>> = <<c, d>>
      BY <2>3, <2>4
    <3> HIDE DEF a, b, c, d
    <3>2. a = c /\ b = d
      BY <3>1
    <3> QED
      BY <3>2 DEF a, b, c, d
  <2> QED
    BY <2>1, <2>5, <2>7, <2>8
<1> QED
  BY <1>3, <1>4, <1>5, <1>6 DEF Abstract!Deliverable, Abstract!SentBefore

LEMMA CycleDelivers ==
  ASSUME NetworkInv, DeliveryInv, NEW popping, Tick(popping)
  PROVE  Abstract!Deliver
<1>1. DOMAIN heard' = Routers /\ sent' = sent
  BY DEF heard, Tick
<1>2. ASSUME NEW n \in Routers
      PROVE  \/ heard'[n] = heard[n]
             \/ \E src \in Routers : \E rank \in 0 .. Len(Outgoing[src]) - 1 :
                  /\ Abstract!Deliverable(n, src, rank)
                  /\ heard'[n] = Append(heard[n], <<src, rank>>)
  <2> DEFINE m == outp[n].flit
  <2>1. /\ heard[n] = [i \in 1 .. Len(got[n]) |-> <<got[n][i].src, got[n][i].rank>>]
        /\ heard'[n] = [i \in 1 .. Len(got'[n]) |-> <<got'[n][i].src, got'[n][i].rank>>]
    BY DEF heard
  <2>2. CASE Taken(n, popping)
    <3>1. got'[n] = Append(got[n], m)
      BY <2>2 DEF Tick
    <3>2. got[n] \in Seq(Messages) /\ m \in Messages
      BY DEF NetworkInv, TypeInv, OutputSide
    <3> DEFINE g == got[n]
               h == heard[n]
               e == <<m.src, m.rank>>
    <3>3. /\ Len(g) \in Nat /\ Len(got'[n]) = Len(g) + 1
          /\ \A i \in 1 .. Len(g) + 1 : got'[n][i] = IF i = Len(g) + 1 THEN m ELSE g[i]
      <4> HIDE DEF m
      <4> QED
        BY <3>1, <3>2
    <3> DEFINE S == Routers \X Nat
               t == heard'[n]
    <3>4. e \in S /\ \A x \in Messages : <<x.src, x.rank>> \in S
      BY <3>2 DEF Messages
    <3> HIDE DEF S
    <3>5. h \in Seq(S) /\ Len(h) = Len(g) /\ \A i \in 1 .. Len(g) : h[i] = <<g[i].src, g[i].rank>>
      <4>1. h = [i \in 1 .. Len(g) |-> <<g[i].src, g[i].rank>>]
        BY <2>1
      <4>2. \A i \in 1 .. Len(g) : <<g[i].src, g[i].rank>> \in S
        BY <3>2, <3>4
      <4> HIDE DEF g, h
      <4> QED
        BY <3>3, <4>1, <4>2
    <3>6. /\ t \in Seq(S) /\ Len(t) = Len(g) + 1
          /\ \A i \in 1 .. Len(g) : t[i] = h[i]
          /\ t[Len(g) + 1] = e
      <4>1. t = [i \in 1 .. Len(g) + 1 |-> <<got'[n][i].src, got'[n][i].rank>>]
        BY <2>1, <3>3
      <4>2. \A i \in 1 .. Len(g) : got'[n][i] = g[i] /\ g[i] \in Messages
        BY <3>2, <3>3
      <4>3. got'[n][Len(g) + 1] = m
        BY <3>3
      <4>4. \A i \in 1 .. Len(g) + 1 : i \in 1 .. Len(g) \/ i = Len(g) + 1
        BY <3>3
      <4>5. t[Len(g) + 1] = e
        BY <3>3, <4>1, <4>3
      <4>6. \A i \in 1 .. Len(g) : t[i] = h[i] /\ t[i] \in S
        <5>1. \A i \in 1 .. Len(g) : t[i] = <<g[i].src, g[i].rank>>
          <6> HIDE DEF g, t
          <6> QED
            BY <3>3, <4>1, <4>2
        <5> HIDE DEF g, t, h
        <5> QED
          BY <3>4, <3>5, <4>2, <5>1
      <4>7. \A i \in 1 .. Len(g) + 1 : t[i] \in S
        <5> HIDE DEF t, g, e
        <5> QED
          BY <3>4, <4>4, <4>5, <4>6
      <4>8. t \in Seq(S) /\ Len(t) = Len(g) + 1
        <5>1. DOMAIN t = 1 .. Len(g) + 1 /\ t = [i \in 1 .. Len(g) + 1 |-> t[i]]
          <6>1. DOMAIN t = 1 .. Len(g) + 1
            BY <4>1
          <6>2. t = [i \in DOMAIN t |-> t[i]]
            BY <4>1
          <6> HIDE DEF t
          <6> QED
            BY <6>1, <6>2
        <5> HIDE DEF t, g
        <5> QED
          BY <3>3, <4>7, <5>1
      <4> QED
        BY <4>5, <4>6, <4>8
    <3>7. t = Append(h, e)
      <4> HIDE DEF t, h, e, g
      <4> QED
        BY <3>4, <3>5, <3>6, AppendedSequence
    <3> QED
      BY <2>2, <3>7, TakenIsDeliverable
  <2>3. CASE ~Taken(n, popping)
    <3>1. got'[n] = got[n]
      BY <2>3 DEF Tick
    <3> QED
      BY <2>1, <3>1
  <2> QED
    BY <2>2, <2>3
<1> QED
  BY <1>1, <1>2 DEF Abstract!Deliver

\* As long as a message does not outlive its clear, the network is a broadcast network: it
\* delivers only what was sent, after it was sent, to those it is addressed to, and to each
\* of them once.  What CLEAR_INTERVAL is for is all that the protocol needs.
THEOREM DeliversOnce == Spec /\ []ClearsComeLast => ImplementsBroadcast
<1>1. Init => Abstract!Init
  BY DEF Init, Abstract!Init, heard
<1>2. NetworkInv /\ DeliveryInv /\ [Next]_vars => [Abstract!Next]_<<sent, heard>>
  <2> SUFFICES ASSUME NetworkInv, DeliveryInv, [Next]_vars
               PROVE  [Abstract!Next]_<<sent, heard>>
    OBVIOUS
  <2>1. CASE Cycle
    BY <2>1, CycleDelivers DEF Cycle, Abstract!Next
  <2>2. ASSUME NEW r \in Routers, Send(r)
        PROVE  Abstract!Next
    <3>1. Abstract!Send(r)
      BY <2>2 DEF Send, CanSend, Abstract!Send, heard
    <3> QED
      BY <3>1 DEF Abstract!Next
  <2>3. CASE UNCHANGED vars
    BY <2>3 DEF vars, heard
  <2> QED
    BY <2>1, <2>2, <2>3 DEF Next
<1>3. Spec /\ []ClearsComeLast => []DeliveryInv
  BY DeliveryStart, DeliveryStep, NetworkInvariance, PTL DEF Spec
<1>4. Spec /\ []ClearsComeLast => [][Abstract!Next]_<<sent, heard>>
  BY <1>2, <1>3, NetworkInvariance, PTL DEF Spec
<1> QED
  BY <1>1, <1>4, PTL DEF Spec, ImplementsBroadcast, Abstract!Spec, Abstract!vars
=============================================================================
