----------------------------- MODULE Broadcast -----------------------------
(***************************************************************************)
(* What a broadcast network promises to the kernels: a message that a      *)
(* kernel sends reaches every destination once, in any order.              *)
(***************************************************************************)
EXTENDS Integers, Sequences

CONSTANTS
  Nodes,       \* the processors
  MessagesOf,  \* for each processor, the sequence of the messages it sends
  Dest(_, _)   \* the destinations of a processor's message of a rank

VARIABLES
  sent,   \* number of messages each processor has sent
  heard   \* for each processor, the sequence of messages it has received

vars == <<sent, heard>>

SentBefore(src, rank) == rank < sent[src]
Heard(n, src, rank) == \E i \in 1 .. Len(heard[n]) : heard[n][i] = <<src, rank>>

\* A message that a processor may be given: sent, addressed to it, and new to it.
Deliverable(n, src, rank) ==
  SentBefore(src, rank) /\ n \in Dest(src, rank) /\ ~Heard(n, src, rank)

Send(src) ==
  /\ sent[src] < Len(MessagesOf[src])
  /\ sent' = [sent EXCEPT ![src] = @ + 1]
  /\ UNCHANGED heard

\* Several processors may be given a message at the same time.
Deliver ==
  /\ \A n \in Nodes :
       \/ heard'[n] = heard[n]
       \/ \E src \in Nodes : \E rank \in 0 .. Len(MessagesOf[src]) - 1 :
            /\ Deliverable(n, src, rank)
            /\ heard'[n] = Append(heard[n], <<src, rank>>)
  /\ DOMAIN heard' = Nodes
  /\ UNCHANGED sent

Init == sent = [n \in Nodes |-> 0] /\ heard = [n \in Nodes |-> <<>>]

Next == Deliver \/ \E src \in Nodes : Send(src)

Spec == Init /\ [][Next]_vars
=============================================================================
