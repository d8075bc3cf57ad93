----------------------------- MODULE Placement -----------------------------
(***************************************************************************)
(* The mapping heuristic of the mapper task (window.c, task_map,           *)
(* app_get_order and the second phase of _map_do): a rectangular window of *)
(* the mesh is slid and grown until it has enough free pages, then the     *)
(* tasks of the application are placed one by one, in an order that        *)
(* follows their communications, each on the cheapest processor of the     *)
(* window.  A migration uses the same search for a single task.            *)
(*                                                                         *)
(* Module Mapper keeps the event loop and lets a dynamic task go to any    *)
(* processor with a free page; this module shows that the heuristic always *)
(* finds one.  A search of the single-threaded mapper runs to its end      *)
(* before the next request: searching is a state, and every window tried   *)
(* is a step.                                                              *)
(***************************************************************************)
EXTENDS Integers, FiniteSets, Sequences, SequencesExt, FiniteSetsExt

CONSTANTS
  XCnt, YCnt,  \* dimensions of the mesh, memphis_get_nprocs()
  MaxTasks,    \* pages of a processor
  Apps,        \* the applications
  TaskCnt,     \* the number of tasks of an application, numbered from 1
  Succs,       \* for each task of an application, the sequence of its successors
  Static,      \* for each task of an application, its coordinate or NoCoord
  Migratable,  \* applications whose tasks may be migrated
  Loads        \* the free pages the processors may have at first

MIN_WX == 3    \* MAP_MIN_WX and MAP_MIN_WY
MIN_WY == 3
STRIDE == 2    \* MAP_STRIDE

NoPE == -1
NoCoord == <<-1, -1>>
NoApp == "none"
Indexes == 0 .. XCnt * YCnt - 1
TaskIds(a) == 1 .. TaskCnt[a]

ASSUME MeshAssumption ==
  /\ XCnt \in Nat /\ XCnt >= MIN_WX /\ YCnt \in Nat /\ YCnt >= MIN_WY
  /\ MaxTasks \in Nat \ {0} /\ NoApp \notin Apps /\ Migratable \subseteq Apps
  /\ \A a \in Apps :
       /\ TaskCnt[a] \in Nat \ {0}
       /\ Succs[a] \in [TaskIds(a) -> Seq(TaskIds(a))]
       /\ Static[a] \in [TaskIds(a) ->
                           ((0 .. XCnt - 1) \X (0 .. YCnt - 1)) \cup {NoCoord}]
  /\ Loads \subseteq [Indexes -> 0 .. MaxTasks]

VARIABLES
  free,        \* pe_t.slots of each element of the array pes
  place,       \* task_t.pe of every task, an index of pes or NoPE
  old,         \* task_t.old_pe of every task
  last,        \* the static variables last_x, last_y and initialized of _map_do
  app,         \* the application of the search under way, or NoApp
  migrant,     \* the task to migrate, or 0 when a new application is placed
  search,      \* its phase, its window, the one it started from, and the pages it asks for
  order        \* tasks still to be placed, once a window is found

vars == <<free, place, old, last, app, migrant, search, order>>

Lesser(i, j) == IF i < j THEN i ELSE j
SumOver(f, S) == MapThenSumSet(LAMBDA i : f[i], S)

-----------------------------------------------------------------------------
(* Coordinates and indexes of the array pes.                               *)

CoordToIdx(c) == c[1] + c[2] * XCnt
IdxToCoord(i) == <<i % XCnt, i \div XCnt>>

\* map_xy_to_idx multiplies by the other dimension.
XyToIdx(x, y) == x + y * YCnt

Manhattan(c, d) ==
  LET dist(i) == IF c[i] < d[i] THEN d[i] - c[i] ELSE c[i] - d[i]
  IN  dist(1) + dist(2)

-----------------------------------------------------------------------------
(* Windows (window.c).                                                     *)

Cells(w) == (w.x .. w.x + w.wx - 1) \X (w.y .. w.y + w.wy - 1)

InMesh(w) ==
  /\ w.x >= 0 /\ w.x + w.wx <= XCnt
  /\ w.y >= 0 /\ w.y + w.wy <= YCnt

\* The indexes that wdo_has_slots and task_map compute are those of elements of pes.
Readable(w) == \A c \in Cells(w) : XyToIdx(c[1], c[2]) \in Indexes

FreeIn(w) == SumOver([c \in Cells(w) |-> free[XyToIdx(c[1], c[2])]], Cells(w))

HasSlots_OneLess(w, req) == FreeIn(w) + 1 >= req

\* wdo_has_slots
HasSlots(w, req) == FreeIn(w) >= req

Slide_NoClamp(w) ==
  IF w.x + w.wx < XCnt
  THEN [w EXCEPT !.x = @ + STRIDE]
  ELSE IF w.y + w.wy < YCnt
  THEN [w EXCEPT !.x = 0, !.y = Lesser(@ + STRIDE, YCnt - w.wy)]
  ELSE [w EXCEPT !.x = 0, !.y = 0]

\* wdo_slide: along x, then to the next line, then back to the origin.
Slide(w) ==
  IF w.x + w.wx < XCnt
  THEN [w EXCEPT !.x = Lesser(@ + STRIDE, XCnt - w.wx)]
  ELSE IF w.y + w.wy < YCnt
  THEN [w EXCEPT !.x = 0, !.y = Lesser(@ + STRIDE, YCnt - w.wy)]
  ELSE [w EXCEPT !.x = 0, !.y = 0]

\* Changing the size of the window when no window of its size has enough pages.
Grow(w) == IF w.wy <= w.wx THEN [w EXCEPT !.wy = @ + 1] ELSE [w EXCEPT !.wx = @ + 1]

\* The far corner of the mesh, for windows of the size of w.
Corner(w) == [w EXCEPT !.x = XCnt - w.wx, !.y = YCnt - w.wy]

\* The clamping of wdo_from_center, before the search and after each growth.
Inside(w) ==
  [w EXCEPT !.x = Lesser(@, XCnt - w.wx), !.y = Lesser(@, YCnt - w.wy)]

NotNegative(w) ==
  [w EXCEPT !.x = IF @ < 0 THEN 0 ELSE @, !.y = IF @ < 0 THEN 0 ELSE @]

\* The pre-growth of _map_do: the first size with a page for each of the n tasks,
\* cut to the mesh.
FirstSize(n) ==
  LET sizes == {<<k, k>> : k \in MIN_WX .. MIN_WX + n} \cup
               {<<k, k + 1>> : k \in MIN_WX .. MIN_WX + n}
      enough == {s \in sizes : s[1] * s[2] * MaxTasks >= n}
      least == CHOOSE s \in enough : \A r \in enough : s[1] * s[2] <= r[1] * r[2]
  IN  <<Lesser(least[1], XCnt), Lesser(least[2], YCnt)>>

-----------------------------------------------------------------------------
(* The order of the tasks (app_get_order).                                 *)

Preds(a, t) == {s \in TaskIds(a) : Contains(Succs[a][s], t)}

\* task_get_order after the task is pushed: its successors follow, once each.
Visit(a, tasks, t) ==
  LET pushed(seq, s) == IF Contains(seq, s) THEN seq ELSE Append(seq, s)
  IN  IF Contains(tasks, t) THEN tasks
      ELSE FoldLeft(pushed, Append(tasks, t), Succs[a][t])

Order_InitialsOnly(a) ==
  LET ids == [t \in TaskIds(a) |-> t]
      visit(tasks, t) == Visit(a, tasks, t)
  IN  FoldLeft(visit, <<>>, SelectSeq(ids, LAMBDA t : Preds(a, t) = {}))

\* First the tasks without predecessors, then those left, which depend on a cycle
\* or are further than one step from an initial task.
Order(a) ==
  LET ids == [t \in TaskIds(a) |-> t]
      visit(tasks, t) == Visit(a, tasks, t)
      initials == FoldLeft(visit, <<>>, SelectSeq(ids, LAMBDA t : Preds(a, t) = {}))
  IN  FoldLeft(visit, initials, ids)

Orders == [a \in Apps |-> Order(a)]

-----------------------------------------------------------------------------
(* The choice of a processor (task_map).                                   *)

\* The pages of processor i that task t may use: its own counts as free.
Usable(a, t, i) == free[i] + (IF place[a][t] = i THEN 1 ELSE 0)

\* Tasks of the same application in the list of processor i, t not counted.
SameApp(a, t, i) ==
  Cardinality({s \in TaskIds(a) \ {t} : place[a][s] = i}) +
  Cardinality({s \in TaskIds(a) : old[a][s] = i})

Hops(a, i, S) ==
  MapThenSumSet(LAMBDA s : Manhattan(IdxToCoord(i), IdxToCoord(place[a][s])),
                {s \in S : place[a][s] # NoPE})

\* S is the set of successors or of predecessors: a task that is both counts twice.
Cost(a, t, i) ==
  LET same == SameApp(a, t, i)
  IN  (MaxTasks - (Usable(a, t, i) + same)) * 4 + same * 2
        + Hops(a, i, ToSet(Succs[a][t])) + Hops(a, i, Preds(a, t))

Candidates(a, t, w) == {c \in Cells(w) : Usable(a, t, XyToIdx(c[1], c[2])) # 0}

\* The traversal goes along y first.
Precedes(c, d) == c[1] < d[1] \/ (c[1] = d[1] /\ c[2] <= d[2])

\* The first processor of the window with the least cost.
Best(a, t, w) ==
  LET cost(c) == Cost(a, t, XyToIdx(c[1], c[2]))
      sel == CHOOSE c \in Candidates(a, t, w) :
               \A d \in Candidates(a, t, w) :
                 cost(c) < cost(d) \/ (cost(c) = cost(d) /\ Precedes(c, d))
  IN  XyToIdx(sel[1], sel[2])

-----------------------------------------------------------------------------
(* The steps.                                                              *)
Windows == [x : Int, y : Int, wx : Nat, wy : Nat]

Started(a) == \E t \in TaskIds(a) : place[a][t] # NoPE

\* Start of wdo_from_center.
FromCenter(c, size, req) ==
  LET w == Inside(NotNegative([x |-> c[1] - size[1] \div 2, y |-> c[2] - size[2] \div 2,
                               wx |-> size[1], wy |-> size[2]]))
  IN  [phase |-> "center", window |-> w, from |-> w, req |-> req]

\* Start of wdo_from_last.
FromLast(base, size, req) ==
  LET w == [x |-> base[1], y |-> base[2], wx |-> size[1], wy |-> size[2]]
  IN  [phase |-> "up", window |-> Slide(w), from |-> w, req |-> req]

\* The mean of the coordinates that function at gives to the tasks of S.
Mean(S, at) ==
  <<MapThenSumSet(LAMBDA t : at[t][1], S) \div Cardinality(S),
    MapThenSumSet(LAMBDA t : at[t][2], S) \div Cardinality(S)>>

StaticTasks(a) == {t \in TaskIds(a) : Static[a][t] # NoCoord}

\* map_new_app for an application that is mapped at once, with the first phase of
\* _map_do and the choice of the first window.  The pages asked of the window are
\* those of all the tasks, although the static ones have taken theirs.
NewApp(a) ==
  LET n == TaskCnt[a]
      fixed == StaticTasks(a)
      size == FirstSize(n)
      fresh == size # <<MIN_WX, MIN_WY>> \/ last = NoCoord
      base == IF fresh THEN <<XCnt - size[1], YCnt - size[2]>> ELSE last
      pinned(i) == Cardinality({t \in fixed : CoordToIdx(Static[a][t]) = i})
  IN  /\ app = NoApp /\ ~Started(a)
      /\ n <= SumOver(free, Indexes)
      /\ \A i \in Indexes : pinned(i) <= free[i]
      /\ free' = [i \in Indexes |-> free[i] - pinned(i)]
      /\ place' = [place EXCEPT ![a] = [t \in TaskIds(a) |->
                     IF t \in fixed THEN CoordToIdx(Static[a][t]) ELSE NoPE]]
      /\ \/ /\ fixed = TaskIds(a)
            /\ UNCHANGED <<app, search, last>>
         \/ /\ fixed # {} /\ fixed # TaskIds(a)
            /\ app' = a
            /\ search' = FromCenter(Mean(fixed, Static[a]), size, n)
            /\ UNCHANGED last
         \/ /\ fixed = {}
            /\ app' = a
            /\ last' = base
            /\ search' = FromLast(base, size, n)
      /\ UNCHANGED <<old, migrant, order>>

\* map_migration_map for a task that is not migrating: the search runs with the
\* current page of the task released.
MigrationMap(a, t) ==
  LET others == TaskIds(a) \ {t}
      center == IF others = {} THEN <<0, 0>>
                ELSE Mean(others, [s \in others |-> IdxToCoord(place[a][s])])
  IN  /\ app = NoApp /\ Started(a) /\ a \in Migratable /\ old[a][t] = NoPE
      /\ app' = a /\ migrant' = t
      /\ free' = [free EXCEPT ![place[a][t]] = @ + 1]
      /\ search' = FromCenter(center, <<MIN_WX, MIN_WX>>, 1)
      /\ UNCHANGED <<place, old, last, order>>

\* A window outside the mesh makes the code read outside the array: what follows is
\* undefined, and the model stops there.
Trying(phases) ==
  /\ app # NoApp /\ search.phase \in phases
  /\ InMesh(search.window) /\ Readable(search.window)

\* A window with enough pages ends the search.  For a migration the page of the task
\* is taken again.
Found ==
  /\ HasSlots(search.window, search.req)
  /\ search' = [search EXCEPT !.phase = "found"]
  /\ IF migrant = 0
     THEN order' = Orders[app] /\ UNCHANGED free
     ELSE order' = <<migrant>> /\ free' = [free EXCEPT ![place[app][migrant]] = @ - 1]

NotFound(next) ==
  /\ ~HasSlots(search.window, search.req)
  /\ search' = next
  /\ UNCHANGED <<free, order>>

\* A step of wdo_from_center.
TryCenter ==
  /\ Trying({"center"})
  /\ Found \/ NotFound([search EXCEPT !.window = Inside(Grow(@))])
  /\ UNCHANGED <<place, old, last, app, migrant>>

Beyond == search.window.x > search.from.x \/ search.window.y > search.from.y

Before_OrEqual == search.window.x <= search.from.x \/ search.window.y <= search.from.y

Before == search.window.x < search.from.x \/ search.window.y < search.from.y

\* wdo_from_last: from the last window to the top right corner.
TryUp ==
  /\ Trying({"up"}) /\ Beyond
  /\ Found \/ NotFound([search EXCEPT !.window = Slide(@)])
  /\ UNCHANGED <<place, old, last, app, migrant>>

\* wdo_from_last: from the bottom left corner to the last window.
TryDown ==
  /\ Trying({"up", "down"}) /\ (search.phase = "up" => ~Beyond) /\ Before
  /\ Found \/ NotFound([search EXCEPT !.phase = "down", !.window = Slide(@)])
  /\ UNCHANGED <<place, old, last, app, migrant>>

TryLast_Untested ==
  LET corner == Corner(Grow(search.window))
  IN  /\ Trying({"up", "down"}) /\ (search.phase = "up" => ~Beyond) /\ ~Before
      /\ search' = [search EXCEPT !.phase = "up", !.window = Slide(corner), !.from = corner]
      /\ UNCHANGED <<free, order, place, old, last, app, migrant>>

\* wdo_from_last: exactly the last window, then a larger one.
TryLast ==
  LET corner == Corner(Grow(search.window))
  IN  /\ Trying({"up", "down"}) /\ (search.phase = "up" => ~Beyond) /\ ~Before
      /\ Found \/ NotFound([search EXCEPT !.phase = "up", !.window = Slide(corner),
                                          !.from = corner])
      /\ UNCHANGED <<place, old, last, app, migrant>>

Done ==
  /\ app' = NoApp /\ migrant' = 0
  /\ search' = [search EXCEPT !.phase = "idle"]

\* One turn of the placement loop: tasks with a processor are skipped.
PlaceNext ==
  LET t == Head(order)
      i == Best(app, t, search.window)
  IN  /\ search.phase = "found" /\ migrant = 0 /\ order # <<>>
      /\ order' = Tail(order)
      /\ IF place[app][t] # NoPE THEN UNCHANGED <<free, place>>
         ELSE /\ free' = [free EXCEPT ![i] = @ - 1]
              /\ place' = [place EXCEPT ![app][t] = i]
      /\ IF Tail(order) = <<>> THEN Done ELSE UNCHANGED <<app, migrant, search>>
      /\ UNCHANGED <<old, last>>

\* The end of map_migration_map: nothing moves when the best processor is the
\* current one.
PlaceMigrant ==
  LET i == Best(app, migrant, search.window)
  IN  /\ search.phase = "found" /\ migrant # 0
      /\ order' = <<>>
      /\ IF i = place[app][migrant] THEN UNCHANGED <<free, place, old>>
         ELSE /\ free' = [free EXCEPT ![i] = @ - 1]
              /\ old' = [old EXCEPT ![app][migrant] = place[app][migrant]]
              /\ place' = [place EXCEPT ![app][migrant] = i]
      /\ Done
      /\ UNCHANGED last

\* map_task_migrated, between two searches.
TaskMigrated(a, t) ==
  /\ app = NoApp /\ old[a][t] # NoPE
  /\ free' = [free EXCEPT ![old[a][t]] = @ + 1]
  /\ old' = [old EXCEPT ![a][t] = NoPE]
  /\ UNCHANGED <<place, last, app, migrant, search, order>>

NoWindow == [x |-> 0, y |-> 0, wx |-> MIN_WX, wy |-> MIN_WY]

Init ==
  /\ free \in Loads
  /\ place = [a \in Apps |-> [t \in TaskIds(a) |-> NoPE]]
  /\ old = [a \in Apps |-> [t \in TaskIds(a) |-> NoPE]]
  /\ last = NoCoord /\ app = NoApp /\ migrant = 0 /\ order = <<>>
  /\ search = [phase |-> "idle", window |-> NoWindow, from |-> NoWindow, req |-> 0]

Heuristic == TryCenter \/ TryUp \/ TryDown \/ TryLast \/ PlaceNext \/ PlaceMigrant

Next ==
  \/ \E a \in Apps : NewApp(a)
  \/ \E a \in Apps : \E t \in TaskIds(a) : MigrationMap(a, t) \/ TaskMigrated(a, t)
  \/ Heuristic

Spec == Init /\ [][Next]_vars

\* The mapper does not stop in the middle of a handler.
FairSpec == Spec /\ WF_vars(Heuristic)

-----------------------------------------------------------------------------
(* Properties.                                                             *)

\* A window that the search tries is inside the mesh, however often it grew: the
\* loops of window.c have no other bound, and wdo_has_slots does not check its index.
WindowInMesh == app # NoApp => InMesh(search.window)

\* While tasks are placed, the window has a page for each task still to come, so that
\* task_map never returns NULL, which _map_do would dereference.
WindowSuffices ==
  app # NoApp /\ search.phase = "found" =>
    IF migrant # 0 THEN Candidates(app, migrant, search.window) # {}
    ELSE FreeIn(search.window) >=
           Len(SelectSeq(order, LAMBDA t : place[app][t] = NoPE))

\* Between two searches every task of every application that was accepted has a
\* processor: the order visits every task, also those on a cycle of communications.  No
\* processor is given more tasks than it has pages.
EveryTaskPlaced ==
  /\ app = NoApp =>
       \A a \in Apps : Started(a) => \A t \in TaskIds(a) : place[a][t] # NoPE
  /\ \A i \in Indexes : free[i] \in 0 .. MaxTasks

\* The windows of a size that sliding from the origin visits.
Raster(wx, wy) ==
  LET stops(size, cnt) == {Lesser(k * STRIDE, cnt - size) : k \in 0 .. cnt}
  IN  {[x |-> i, y |-> j, wx |-> wx, wy |-> wy] : i \in stops(wx, XCnt), j \in stops(wy, YCnt)}

\* The search of wdo_from_last resorts to a larger window only when no window of the
\* raster has enough pages, if it started from a window of the raster: then its two loops
\* and its last test cover all of them.  From a start in between, which _map_do gives it
\* when last_x and last_y are those of an application with a larger window, the loops
\* leave some windows out, and "No window found" is not what they have found.
GrowsOnlyWhenNoneFits ==
  [][LET w == search.window
     IN  search.phase \in {"up", "down"} /\ search'.phase = "up"
           /\ <<search'.window.wx, search'.window.wy>> # <<w.wx, w.wy>>
           /\ app = app' /\ search.from \in Raster(w.wx, w.wy) =>
           \A r \in Raster(w.wx, w.wy) : ~HasSlots(r, search.req)]_vars

\* Every search ends and every accepted application is completely placed.
SearchEnds == (app # NoApp) ~> (app = NoApp)
=============================================================================
