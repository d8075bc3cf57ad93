------------------------------ MODULE Dijkstra ------------------------------
(***************************************************************************)
(* What the tasks of src/applications/dijkstra and dijkstra_rt compute:    *)
(* shortest paths between the pairs of nodes of a fixed graph.             *)
(***************************************************************************)
EXTENDS Integers, SequencesExt

NONE == 9999
NUM_NODES == 16
NPROC == 5
Nodes == 0..(NUM_NODES - 1)

fpTrix == <<
  1,    6,    3,    9999, 9999, 9999, 9999, 9999, 9999, 9999, 9999, 9999, 9999, 9999, 9999, 9999,
  6,    1,    2,    5,    9999, 9999, 1,    9999, 9999, 9999, 9999, 9999, 9999, 9999, 9999, 9999,
  3,    2,    1,    3,    4,    9999, 9999, 9999, 9999, 9999, 9999, 9999, 9999, 9999, 9999, 9999,
  9999, 5,    3,    1,    2,    3,    9999, 9999, 9999, 9999, 9999, 9999, 9999, 9999, 9999, 9999,
  9999, 9999, 4,    2,    1,    5,    9999, 9999, 9999, 9999, 9999, 9999, 9999, 9999, 9999, 9999,
  9999, 9999, 9999, 3,    5,    1,    3,    2,    9999, 9999, 9999, 9999, 9999, 9999, 9999, 9999,
  9999, 1,    9999, 9999, 9999, 3,    1,    4,    9999, 9999, 9999, 9999, 9999, 9999, 9999, 9999,
  9999, 9999, 9999, 9999, 9999, 2,    4,    1,    7,    9999, 9999, 9999, 9999, 9999, 9999, 9999,
  9999, 9999, 9999, 9999, 9999, 9999, 9999, 7,    1,    5,    1,    9999, 9999, 9999, 9999, 9999,
  9999, 9999, 9999, 9999, 9999, 9999, 9999, 9999, 5,    1,    9999, 3,    9999, 9999, 9999, 9999,
  9999, 9999, 9999, 9999, 9999, 9999, 9999, 9999, 1,    9999, 1,    9999, 4,    9999, 9999, 8,
  9999, 9999, 9999, 9999, 9999, 9999, 9999, 9999, 9999, 3,    9999, 1,    9999, 2,    9999, 9999,
  9999, 9999, 9999, 9999, 9999, 9999, 9999, 9999, 9999, 9999, 4,    9999, 1,    1,    9999, 2,
  9999, 9999, 9999, 9999, 9999, 9999, 9999, 9999, 9999, 9999, 9999, 2,    1,    1,    6,    9999,
  9999, 9999, 9999, 9999, 9999, 9999, 9999, 9999, 9999, 9999, 9999, 9999, 9999, 6,    1,    3,
  9999, 9999, 9999, 9999, 9999, 9999, 9999, 9999, 9999, 9999, 8,    9999, 2,    9999, 3,    1 >>

AdjMatrix == [i \in Nodes |-> [j \in Nodes |-> fpTrix[NUM_NODES * i + j + 1]]]

\* The pairs i < j, and the part of their list that worker i computes, <<first, after the last>>.
nodes_tasks == FlattenSeq([i \in 1..(NUM_NODES - 1) |-> [d \in 1..(NUM_NODES - i) |-> <<i - 1, i - 1 + d>>]])

divide_task_group(i) ==
  LET task == Len(nodes_tasks)
  IN  <<(task \div NPROC) * i, (task \div NPROC) * (i + 1) + (IF i + 1 = NPROC THEN task % NPROC ELSE 0)>>

\* Mutant: the first open node is caught, not the closest.
Catch_First(s) ==
  LET open == {i \in Nodes : ~s.caught[i] /\ s.dist[i] # 0 /\ s.dist[i] < NONE}
      u == IF open = {} THEN s.u ELSE Min(open)
      closer == {v \in Nodes \ {u} : ~s.caught[v] /\ s.dist[v] > s.dist[u] + AdjMatrix[u][v]}
  IN  [u |-> u,
       count |-> IF open = {} THEN s.count ELSE s.count + 1,
       caught |-> [s.caught EXCEPT ![u] = TRUE],
       dist |-> [v \in Nodes |-> IF v \in closer THEN s.dist[u] + AdjMatrix[u][v] ELSE s.dist[v]],
       prev |-> [v \in Nodes |-> IF v \in closer THEN u ELSE s.prev[v]]]

\* One turn of the while: the closest node that is not caught is caught, the others get closer by it.
Catch(s) ==
  LET open == {i \in Nodes : ~s.caught[i] /\ s.dist[i] # 0 /\ s.dist[i] < NONE}
      u == IF open = {} THEN s.u
           ELSE CHOOSE i \in open : \A j \in open \ {i} : s.dist[i] < s.dist[j] \/ (s.dist[i] = s.dist[j] /\ i < j)
      closer == {v \in Nodes \ {u} : ~s.caught[v] /\ s.dist[v] > s.dist[u] + AdjMatrix[u][v]}
  IN  [u |-> u,
       count |-> IF open = {} THEN s.count ELSE s.count + 1,
       caught |-> [s.caught EXCEPT ![u] = TRUE],
       dist |-> [v \in Nodes |-> IF v \in closer THEN s.dist[u] + AdjMatrix[u][v] ELSE s.dist[v]],
       prev |-> [v \in Nodes |-> IF v \in closer THEN u ELSE s.prev[v]]]

Clear(chStart) ==
  [u |-> -1, count |-> 0, caught |-> [v \in Nodes |-> FALSE], dist |-> AdjMatrix[chStart],
   prev |-> [v \in Nodes |-> NONE]]

\* The searches from every node, after as many turns as nodes have to be caught.
Search ==
  [chStart \in Nodes |->
     LET turn[n \in 0..(NUM_NODES - 1)] == IF n = 0 THEN Clear(chStart) ELSE Catch(turn[n - 1])
     IN  turn[NUM_NODES - 1]]

\* The nodes of a path, from 1, without the first.
sendPath(s, chEnd) ==
  LET path[n \in Nodes] == IF s.prev[n] = NONE THEN <<n + 1>> ELSE Append(path[s.prev[n]], n + 1)
  IN  path[chEnd]

sendResult(chStart, chEnd) ==
  <<chStart, chEnd, Search[chStart].dist[chEnd]>> \o sendPath(Search[chStart], chEnd)

-----------------------------------------------------------------------------
\* Weights are positive, so the distances d from a node are the only ones that are 0 there and
\* elsewhere one edge more than those of the closest neighbour.
AreDistancesFrom(chStart, d) ==
  /\ d[chStart] = 0
  /\ \A v \in Nodes \ {chStart} : d[v] = Min({d[u] + AdjMatrix[u][v] : u \in Nodes \ {v}})

\* A result says the shortest distance, and its path goes from the first node to the last over it.
IsShortestPath(result) ==
  LET nodes == <<result[1]>> \o [k \in 1..(Len(result) - 3) |-> result[k + 3] - 1]
      along[k \in 1..Len(nodes)] == IF k = 1 THEN 0 ELSE along[k - 1] + AdjMatrix[nodes[k - 1]][nodes[k]]
  IN  /\ AreDistancesFrom(result[1], [Search[result[1]].dist EXCEPT ![result[1]] = 0])
      /\ result[3] = Search[result[1]].dist[result[2]]
      /\ nodes[Len(nodes)] = result[2]
      /\ along[Len(nodes)] = result[3]
=============================================================================
