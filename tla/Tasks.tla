------------------------------- MODULE Tasks -------------------------------
(***************************************************************************)
(* The language the tasks of src/applications are written in, as far as    *)
(* they depend on each other: a program is a sequence of calls.            *)
(*                                                                         *)
(* memphis_send, memphis_receive and memphis_real_time belong to the       *)
(* library of MAestro, which is not part of this repository; what they do  *)
(* is in module Applications.  The fields of a call:                       *)
(*   do    which function is called,                                       *)
(*   with  the other task, and size the bytes of its buffer,               *)
(*   data  what a message says, when a task depends on it,                 *)
(*   note  what the task remembers of the call,                            *)
(*   then  where it goes on: at the "next" call, or as its loop says.      *)
(***************************************************************************)
EXTENDS Naturals, SequencesExt

Words(n) == 4 * n

Call(do, with, size, data, note, then) ==
  <<[do |-> do, with |-> with, size |-> size, data |-> data, note |-> note, then |-> then]>>

\* What comes after the last call.
End == [do |-> "end"]

Send(to, size) == Call("send", to, size, <<>>, "nothing", "next")
Tell(to, size, data) == Call("send", to, size, data, "nothing", "next")
Receive(from, size) == Call("receive", from, size, <<>>, "nothing", "next")
RealTime == Call("real_time", "kernel", 0, <<>>, "nothing", "next")

\* A call after which the task remembers something or takes another way.
Noting(call, note) == <<[call[1] EXCEPT !.note = note]>>
Leading(call, then) == <<[call[1] EXCEPT !.then = then]>>

Repeat(n, calls) == [i \in 1..(n * Len(calls)) |-> calls[1 + ((i - 1) % Len(calls))]]
ToEach(tasks, size) == FlattenSeq([i \in 1..Len(tasks) |-> Send(tasks[i], size)])
FromEach(tasks, size) == FlattenSeq([i \in 1..Len(tasks) |-> Receive(tasks[i], size)])

\* n messages of msg[128].
Sends(n, to) == Repeat(n, Send(to, Words(128)))
Receives(n, from) == Repeat(n, Receive(from, Words(128)))
=============================================================================
