---------------------------- MODULE Applications ----------------------------
(***************************************************************************)
(* The applications of src/applications at work: one is loaded, and its    *)
(* tasks run as the kernels schedule them.                                 *)
(*                                                                         *)
(* memphis_send keeps one message per task: it leaves the message in the   *)
(* pipe of its task, once the one before was taken, and goes on;           *)
(* memphis_receive waits for a message of the task it names to its own.    *)
(* This is how the tasks use these functions of the library of MAestro,    *)
(* which is not part of the repository.                                    *)
(*                                                                         *)
(* A task only waits for tasks it names, so that every schedule that goes  *)
(* on long enough comes to the same end.  With order = "any", the steps of *)
(* the tasks interleave; with "all", for the applications whose            *)
(* interleavings are too many, all tasks that can move do so at once.      *)
(***************************************************************************)
EXTENDS Tasks, Farms, Sorting

CONSTANTS
  Program,       \* the calls of every task of every application
  Interleaved,   \* the applications whose tasks interleave
  Arrays,        \* the arrays that are sorted
  MaxSends       \* a bound on how often malicious2 sends before its time is over

Sorts == {"bubble_sort", "insertion_sort", "selection_sort", "quick_sort", "merge_sort"}

VARIABLES
  app,     \* the application that runs
  order,   \* how its tasks are scheduled
  at,      \* how far each task is in its program
  now,     \* the call it is at, or the end
  memory,  \* what each task remembers of its calls
  pipe,    \* the message each task has sent and nobody has taken, <<>> or <<message>>
  clock    \* changes with every step

vars == <<app, order, at, now, memory, pipe, clock>>

Names == DOMAIN at
Ended(t) == now[t] = End

\* The message a task receives next, when it is there.
IsFor(t, from) == pipe[from] # <<>> /\ pipe[from][1].to = t

Ready(t) ==
  /\ ~Ended(t)
  /\ \/ now[t].do \in {"real_time", "sort"}
     \/ now[t].do = "send" /\ pipe[t] = <<>>
     \/ now[t].do = "receive" /\ IsFor(t, now[t].with)

Received(t) == IF now[t].do = "receive" THEN pipe[now[t].with][1].data ELSE <<>>

Remembered(t) ==
  CASE now[t].note = "order" -> Received(t)
    [] now[t].note = "one less" -> <<memory[t][1], memory[t][2] - 1>>
    [] now[t].note = "add" -> memory[t] \o Received(t)
    [] now[t].note = "add all" -> memory[t] \o Received(t) \o <<UNWRITTEN>>
    [] now[t].note = "result" -> IF Received(t) = <<-1>> THEN <<memory[t][1] + 1>> ELSE memory[t]
    [] now[t].note = "flag" -> Received(t)
    [] now[t].note = "time passes" -> <<memory[t][1] - 1>>
    [] now[t].note = "sorted" -> Append(memory[t], Sorted(t, memory[t][1]))
    [] OTHER -> memory[t]

\* Where a task goes on, with what it remembers of the call.
Following(t) ==
  LET m == Remembered(t)
  IN  CASE now[t].then = "obey" ->
             IF m[1] = END_TASK THEN at[t] + 3 ELSE IF m[2] = 0 THEN at[t] ELSE at[t] + 1
        [] now[t].then = "another" -> IF m[2] = 0 THEN at[t] - 2 ELSE at[t] - 1
        [] now[t].then = "until all ended" -> IF m[1] = NPROC THEN at[t] + 1 ELSE at[t] - (NPROC - 1)
        [] now[t].then = "until the flag" -> IF m[1] = 0 THEN at[t] + 1 ELSE at[t]
        [] now[t].then = "while there is time" -> IF m[1] = 0 THEN at[t] + 1 ELSE at[t]
        [] OTHER -> at[t] + 1

Message(t) ==
  [to |-> now[t].with, size |-> now[t].size,
   data |-> IF now[t].note = "tell the sum" THEN memory[t] ELSE now[t].data]

\* The calls the tasks are at.
CallsAt(place) ==
  [t \in Names |-> LET calls == Program[app][t] IN IF place[t] > Len(calls) THEN End ELSE calls[place[t]]]

\* The tasks of s make a step together.
Move(s) ==
  /\ at' = [t \in Names |-> IF t \in s THEN Following(t) ELSE at[t]]
  /\ now' = CallsAt(at')
  /\ memory' = [t \in Names |-> IF t \in s THEN Remembered(t) ELSE memory[t]]
  /\ pipe' = [t \in Names |->
       IF t \in s /\ now[t].do = "send" THEN <<Message(t)>>
       ELSE IF \E r \in s : now[r].do = "receive" /\ now[r].with = t THEN <<>>
       ELSE pipe[t]]
  /\ UNCHANGED <<app, order>>

Edge == clock' = 1 - clock

Run ==
  LET ready == {t \in Names : Ready(t)}
  IN  /\ IF order = "any" THEN \E t \in ready : Move({t}) ELSE ready # {} /\ Move(ready)
      /\ Edge

\* An application that has ended stays so, and one that is stuck as well.
Stay ==
  /\ \A t \in Names : ~Ready(t)
  /\ Edge
  /\ UNCHANGED <<app, order, at, now, memory, pipe>>

\* What a task has in its memory when it starts.
Memories(t) ==
  CASE t = "print" -> {<<0>>}
    [] t = "producer" -> {<<n>> : n \in 1..MaxSends}
    [] t \in Sorts -> {<<arr>> : arr \in Arrays}
    [] OTHER -> {<<>>}

Init ==
  /\ app \in DOMAIN Program
  /\ order = IF app \in Interleaved THEN "any" ELSE "all"
  /\ at = [t \in DOMAIN Program[app] |-> 1]
  /\ now = [t \in Names |-> Program[app][t][1]]
  /\ memory \in {m \in [Names -> UNION {Memories(t) : t \in Names}] : \A t \in Names : m[t] \in Memories(t)}
  /\ pipe = [t \in Names |-> <<>>]
  /\ clock = 0

Next == Run \/ Stay

\* Time goes on, and the kernels schedule a task that can go on.
Fairness == WF_clock(Edge)

Spec == Init /\ [][Next]_vars /\ Fairness

-----------------------------------------------------------------------------
AllEnded == \A t \in Names : Ended(t)

\* Every application comes to its end: no task waits for ever for a message that is never sent
\* to it, or for one of its own to be taken by a task that waits for another.
EveryTaskEnds == <>[](AllEnded /\ \A t \in Names : pipe[t] = <<>>)

\* Applications whose receivers have room for more than they are sent.
Roomy == {"aes", "aes_rt", "map_reduce", "audio_video", "audio_video_rt"}

\* A message is taken by a call that has room for it, and that waits for one of that length:
\* the full messages and the rests of a transfer do not get mixed up.
MessagesFit ==
  \A t \in Names : Ready(t) /\ now[t].do = "receive" =>
    LET sent == pipe[now[t].with][1].size
    IN  sent <= now[t].size /\ (sent = now[t].size \/ app \in Roomy)

\* What is computed is right, as far as it is: a result that a worker of dijkstra sends is a
\* shortest path, and so would be those of the 96 pairs of 120 that no worker computes, all of
\* them having the rank 0; the sums that the workers of map_reduce send the master hold every
\* slice once; and what is sorted is in order and complete.  Nothing is claimed of the total
\* that the master of map_reduce prints: it adds the rest of its buffer, which nothing wrote,
\* to each of the three sums.
ResultsAreRight ==
  /\ app \in {"dijkstra", "dijkstra_rt"} =>
       /\ \A t \in Names : pipe[t] # <<>> /\ Len(pipe[t][1].data) > 1 => IsShortestPath(pipe[t][1].data)
       /\ AllEnded => \A k \in 1..Len(nodes_tasks) :
                        LET pair == nodes_tasks[k] IN IsShortestPath(sendResult(pair[1], pair[2]))
  /\ app = "map_reduce" /\ AllEnded =>
       LET sent == SelectSeq(memory["master"], LAMBDA slice : slice # UNWRITTEN)
       IN  /\ Len(sent) = NUMBER_OF_TASKS - 1
           /\ ToSet(sent) = 1..(NUMBER_OF_TASKS - 1)
  /\ app \in Sorts /\ AllEnded =>
       InOrder(memory[app][2]) /\ SameElements(memory[app][1], memory[app][2])
=============================================================================
