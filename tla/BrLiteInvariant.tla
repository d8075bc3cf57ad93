--------------------------- MODULE BrLiteInvariant ---------------------------
(***************************************************************************)
(* The inductive invariant of the broadcast network.                       *)
(***************************************************************************)
EXTENDS BrLite

InStates == {"INIT", "ARBITRATION", "TEST_SPACE", "WRITE", "CLEAR", "WAIT_REQ_DOWN"}
OutStates == {"INIT", "ARBITRATION", "TEST_SVC", "WAIT_ACK_PORTS", "CLEAR_TABLE",
              "SEND_LOCAL", "WAIT_ACK_DOWN"}
TableLine == [used : BOOLEAN, pending : BOOLEAN, origin : Ports, msg : Messages]

InputSide == [state : InStates, port : Ports, source_idx : Lines, free_idx : Lines,
              ack : SUBSET Ports]
OutputSide == [state : OutStates, line : Lines, ack_ports : SUBSET Ports,
               req : SUBSET Ports, flit : Messages]
Table == [cam : [Lines -> TableLine], clear_local : BOOLEAN, wrote_local : BOOLEAN,
          local_busy : BOOLEAN, wrote_idx : Lines, age : Nat]

TypeInv ==
  /\ inp \in [Routers -> InputSide]
  /\ outp \in [Routers -> OutputSide]
  /\ tab \in [Routers -> Table]
  /\ ctl \in [Routers -> BOOLEAN]
  /\ sent \in [Routers -> Nat] /\ \A r \in Routers : sent[r] <= Len(Outgoing[r])
  /\ buf \in [Routers -> [ack : BOOLEAN, stored : 0 .. BUFFER_SIZE]]
  /\ got \in [Routers -> Seq(Messages)]

\* An input that has seen a request still has it when it selects a port, looks at the
\* message and writes it; it acknowledges that port only, until the request falls.
InputInv(r) ==
  /\ inp[r].ack = IF inp[r].state = "WAIT_REQ_DOWN" THEN {inp[r].port} ELSE {}
  /\ inp[r].state = "ARBITRATION" => \E p \in Ports : ReqIn(r, p)
  /\ inp[r].state \in {"TEST_SPACE", "WRITE", "CLEAR"} => ReqIn(r, inp[r].port)
  /\ inp[r].state = "WRITE" => ~tab[r].cam[inp[r].free_idx].used

\* An output requests while it waits for acknowledges only, and works on a line in use.
OutputInv(r) ==
  /\ outp[r].state \notin {"WAIT_ACK_PORTS", "SEND_LOCAL"} => outp[r].req = {}
  /\ outp[r].state = "SEND_LOCAL" => outp[r].req = {LOCAL_PORT}
  /\ outp[r].req \cap outp[r].ack_ports = {}
  /\ outp[r].state # "WAIT_ACK_PORTS" => outp[r].ack_ports = {}
  /\ outp[r].state = "ARBITRATION" => Pending(r) # {}
  /\ outp[r].state \in {"TEST_SVC", "WAIT_ACK_PORTS", "CLEAR_TABLE"} =>
       tab[r].cam[outp[r].line].used
  /\ outp[r].state = "TEST_SVC" => tab[r].cam[outp[r].line].pending
  /\ outp[r].state = "CLEAR_TABLE" => tab[r].cam[outp[r].line].msg.svc = "CLEAR"

\* BR_LOCAL_BUSY rises when the request of the kernel is taken, and falls when the clear
\* of its message starts.
LocalInv(r) ==
  /\ tab[r].local_busy <=> tab[r].wrote_local \/ tab[r].clear_local
  /\ ~(tab[r].wrote_local /\ tab[r].clear_local)
  /\ ctl[r] => ~tab[r].local_busy
  /\ Busy(r) => sent[r] > 0

\* A message that a kernel sent, or the clear of such a message.
Known(m) ==
  /\ m.rank < sent[m.src]
  /\ m.svc \in {"CLEAR", Message(m.src, m.rank).svc}
  /\ m.target = Message(m.src, m.rank).target

Addressed(r, m) == (m.svc = "TARGET" /\ m.target = r) \/ (m.svc = "ALL" /\ m.src # r)

ContentInv(r) ==
  /\ \A i \in Lines : tab[r].cam[i].used => Known(tab[r].cam[i].msg)
  /\ outp[r].req # {} => Known(outp[r].flit)
  /\ LOCAL_PORT \in outp[r].req => Addressed(r, outp[r].flit)

\* A kernel hears only what some kernel sent, to it or to all.
HeardWasSent ==
  \A r \in Routers : \A k \in 1 .. Len(got[r]) : Known(got[r][k]) /\ Addressed(r, got[r][k])

NetworkInv ==
  /\ TypeInv
  /\ \A r \in Routers : InputInv(r) /\ OutputInv(r) /\ LocalInv(r) /\ ContentInv(r)
  /\ HeardWasSent

\* The source of a message is done with it: no clear of a message exists before.
Settled(m) == m.rank < sent[m.src] /\ (Busy(m.src) => m.rank # sent[m.src] - 1)

\* No clear of an older message is on a wire with the identifier of the message that its
\* source is busy with.
IdsAreFree ==
  \A r \in Routers :
    LET m == outp[r].flit
        last == sent[m.src] - 1
    IN  outp[r].req # {} /\ m.svc = "CLEAR" /\ Busy(m.src) /\ m.rank # last =>
          ~SameId(m, Message(m.src, last))

\* No kernel sends so many messages that an identifier is used twice.
IdsNeverWrap == \A r \in Routers : Len(Outgoing[r]) <= ID_CNT

ClearInv ==
  \A r \in Routers :
    /\ \A i \in Lines :
         tab[r].cam[i].used /\ tab[r].cam[i].msg.svc = "CLEAR" => Settled(tab[r].cam[i].msg)
    /\ outp[r].req # {} /\ outp[r].flit.svc = "CLEAR" => Settled(outp[r].flit)
    /\ inp[r].state = "CLEAR" /\ tab[r].cam[inp[r].source_idx].used =>
         Settled(tab[r].cam[inp[r].source_idx].msg)
    /\ tab[r].local_busy => /\ tab[r].cam[tab[r].wrote_idx].used
                            /\ tab[r].cam[tab[r].wrote_idx].msg = Message(r, sent[r] - 1)

-----------------------------------------------------------------------------
(* Once each.                                                              *)

Got(r, m) == \E k \in 1 .. Len(got[r]) : got[r][k] = m
Offered(r, m) == LOCAL_PORT \in outp[r].req /\ outp[r].flit = m

\* The lines of a table hold different messages, and so does the one being written.
DistinctInv(r) ==
  /\ \A i, j \in Lines :
       tab[r].cam[i].used /\ tab[r].cam[j].used /\ SameId(tab[r].cam[i].msg, tab[r].cam[j].msg)
         => i = j
  /\ inp[r].state = "WRITE" =>
       \A i \in Lines : tab[r].cam[i].used => ~SameId(tab[r].cam[i].msg, DataIn(r, inp[r].port))

\* The message of a kernel that its router has not taken yet.
Waiting(m) == ctl[m.src] /\ m.rank = sent[m.src] - 1

\* No router takes message m any more.
Gone(m) == ~Waiting(m) /\ Senders(m) = {} /\ \A n \in Receivers(m) : Remembered(n, m)

\* A message that a router knows, or its clear, is not waiting.
EnteredInv(r) ==
  /\ \A i \in Lines : tab[r].cam[i].used => ~Waiting(tab[r].cam[i].msg)
  /\ outp[r].req # {} => ~Waiting(outp[r].flit)

\* A message that a kernel has, or is offered, stays in the table until it is gone; one
\* that is yet to be sent from the table was not offered before.
OnceInv(r) ==
  /\ \A m \in Messages : Got(r, m) \/ Offered(r, m) => Remembered(r, m) \/ Gone(m)
  /\ LOCAL_PORT \in outp[r].req /\ ~buf[r].ack => ~Got(r, outp[r].flit)
  /\ \A i \in Lines :
       LET l == tab[r].cam[i]
       IN  l.used /\ l.pending /\ l.msg.svc # "CLEAR" => ~Got(r, l.msg) /\ ~Offered(r, l.msg)

DeliveryInv == \A r \in Routers : DistinctInv(r) /\ EnteredInv(r) /\ OnceInv(r)
=============================================================================
