------------------------------ MODULE Delivery ------------------------------
(***************************************************************************)
(* What a packet network promises: a packet that has been sent arrives     *)
(* whole, once, and after those the same sender sent before it to the same *)
(* receiver.  Nothing is promised about packets of different senders or    *)
(* for different receivers.                                                *)
(***************************************************************************)
EXTENDS Sequences, SequencesExt

CONSTANTS
  Endpoints,   \* who sends and receives
  From(_),     \* the sender of a packet
  To(_)        \* its receiver

VARIABLES
  sent,        \* the packets each endpoint has sent
  received     \* those that have arrived at each endpoint

\* What s has sent to d and is still on its way.
Due(s, d) ==
  LET out == SelectSeq(sent[s], LAMBDA p : To(p) = d)
      in  == SelectSeq(received[d], LAMBDA p : From(p) = s)
  IN  SubSeq(out, Len(in) + 1, Len(out))

Init ==
  /\ sent = [e \in Endpoints |-> <<>>]
  /\ received = [e \in Endpoints |-> <<>>]

Sends(s) ==
  \/ sent'[s] = sent[s]
  \/ Len(sent'[s]) = Len(sent[s]) + 1 /\ IsPrefix(sent[s], sent'[s])

Receives(d) ==
  \/ received'[d] = received[d]
  \/ \E s \in Endpoints : Due(s, d) # <<>> /\ received'[d] = Append(received[d], Head(Due(s, d)))

\* Any number of endpoints may send and receive at the same time.
Next == \A e \in Endpoints : Sends(e) /\ Receives(e)

Spec == Init /\ [][Next]_<<sent, received>>
=============================================================================
