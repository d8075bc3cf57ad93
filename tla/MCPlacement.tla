---------------------------- MODULE MCPlacement ----------------------------
(* Instances of Placement for TLC.                                             *)
EXTENDS Placement

MCApps == {"pipe", "ring", "wide"}

\* A pipeline of three tasks; a task with a static mapping beside a cycle of two; and
\* 33 tasks, three of them in a pipeline, which need a window of 4 x 5 with two pages a
\* processor.  On a mesh of 6 x 6 the search for these starts at (2, 1), and so does the
\* next one with windows of 3 x 3, whose raster has the columns and rows 0, 2 and 3.
MCTaskCnt == [a \in MCApps |-> IF a = "wide" THEN 33 ELSE 3]
Edges ==
  [pipe |-> <<<<2>>, <<3>>, <<>>>>,
   ring |-> <<<<>>, <<3>>, <<2>>>>,
   wide |-> [t \in 1 .. 33 |-> IF t \in {1, 2} THEN <<t + 1>> ELSE <<>>]]
MCSuccs == [a \in MCApps |-> Edges[a]]
Pinned(c) ==
  [a \in MCApps |-> [t \in 1 .. MCTaskCnt[a] |->
     IF a = "ring" /\ t = 1 THEN c ELSE NoCoord]]
MCStatic == Pinned(<<5, 5>>)

\* The indexes of the cells of some columns and rows.
At(xs, ys) == {CoordToIdx(c) : c \in xs \X ys}

\* Processor (5, 5), (0, 0) or (5, 0), and two others on the even coordinates or in the
\* last column have free pages; or a block in the middle of the mesh; or 17 in the window
\* of 4 x 5 at the origin, as many as the 33 tasks need, and two in the last column.
Free(S, n) == [i \in Indexes |-> IF i \in S THEN n ELSE 0]
Spread == At({0, 2, 5}, {0, 2, 4}) \cup At({4}, {1})
Scattered == {S \in kSubset(3, Spread) : S \cap At({0, 5}, {0}) # {}}
Between == [Free(At(0 .. 3, 0 .. 3), 2) EXCEPT ![24] = 1, ![17] = 2, ![29] = 2]
ScatteredLoads == {Free(S \cup {35}, 2) : S \in Scattered} \cup {Free(At(1 .. 4, 1 .. 4) \cup {35}, 1), Between}

\* A mesh of 3 x 3 with three free pages, one of them on processor (1, 1).
FullStatic == Pinned(<<1, 1>>)
FullLoads == {Free({4} \cup S, 1) : S \in {{i, j} : i, j \in Indexes \ {4}} \ {{i} : i \in Indexes}}
=============================================================================
