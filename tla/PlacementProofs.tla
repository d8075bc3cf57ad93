--------------------------- MODULE PlacementProofs ---------------------------
(***************************************************************************)
(* Theorems about the search for a window.                                 *)
(***************************************************************************)
EXTENDS Placement, TLAPS, WellFoundedInduction

-----------------------------------------------------------------------------
(* The invariant.                                                          *)

\* Window r comes after window w of the same size when sliding from the origin.
Later(w, r) == r.y > w.y \/ (r.y = w.y /\ r.x > w.x)

\* The windows of the size of the one that is tried.
Tried == Raster(search.window.wx, search.window.wy)

\* What is known, in the loop towards the top right corner, of the windows behind the one
\* the search started from, and in the loop from the bottom left corner of those before it.
\* Sliding from the corner leads to the origin and to the second loop.
UpInv ==
  LET w == search.window
      f == search.from
  IN  \/ /\ Later(f, w)
         /\ \A r \in Tried : Later(f, r) /\ Later(r, w) => ~HasSlots(r, search.req)
      \/ /\ w.x = 0 /\ w.y = 0
         /\ \A r \in Tried : Later(f, r) => ~HasSlots(r, search.req)

DownInv ==
  LET w == search.window
      f == search.from
  IN  /\ ~Later(f, w)
      /\ \A r \in Tried : Later(f, r) \/ Later(r, w) => ~HasSlots(r, search.req)

FitsMesh(w) == w.wx <= XCnt /\ w.wy <= YCnt

\* A window that does not fit the mesh is not tried.  Nothing is known of the windows behind
\* a search that started off the raster, but that it is the next one that starts on it.
SearchInv ==
  search.phase \in {"up", "down"} =>
    LET w == search.window
        f == search.from
    IN  /\ app # NoApp /\ w \in Windows /\ w.wx # 0 /\ w.wy # 0
        /\ FitsMesh(w) /\ f \in Tried =>
             w \in Tried /\ IF search.phase = "up" THEN UpInv ELSE DownInv

LastInv == last \in Int \X Int

IsSearch(s) == s = [phase |-> s.phase, window |-> s.window, from |-> s.from, req |-> s.req]

PlacementInv == IsSearch(search) /\ LastInv /\ SearchInv

-----------------------------------------------------------------------------
(* The raster.                                                             *)

Stops(size, cnt) == {Lesser(k * STRIDE, cnt - size) : k \in 0 .. cnt}

LEMMA StopElements ==
  ASSUME NEW cnt \in Nat, NEW size \in Nat \ {0}, size <= cnt
  PROVE  \A s : s \in Stops(size, cnt) <=>
                  s \in 0 .. cnt - size /\ (s % 2 = 0 \/ s = cnt - size)
<1>1. ASSUME NEW s \in Stops(size, cnt)
      PROVE  s \in 0 .. cnt - size /\ (s % 2 = 0 \/ s = cnt - size)
  <2>1. PICK k \in 0 .. cnt : s = Lesser(k * 2, cnt - size)
    BY DEF Stops, STRIDE
  <2>2. (k * 2) % 2 = 0 /\ k * 2 >= 0
    OBVIOUS
  <2> QED
    BY <2>1, <2>2 DEF Lesser
<1>2. ASSUME NEW s \in 0 .. cnt - size, s % 2 = 0 \/ s = cnt - size
      PROVE  s \in Stops(size, cnt)
  <2>1. PICK k \in 0 .. cnt : s = Lesser(k * 2, cnt - size)
    <3>1. CASE s = cnt - size
      BY <3>1 DEF Lesser
    <3>2. CASE s # cnt - size
      <4>1. s = (s \div 2) * 2 /\ s \div 2 \in 0 .. cnt
        BY <1>2, <3>2
      <4> QED
        BY <4>1, <3>2 DEF Lesser
    <3> QED
      BY <3>1, <3>2
  <2> QED
    BY <2>1 DEF Stops, STRIDE
<1> QED
  BY <1>1, <1>2

LEMMA RasterElements ==
  ASSUME NEW wx, NEW wy, NEW r
  PROVE  r \in Raster(wx, wy) <=>
           /\ r = [x |-> r.x, y |-> r.y, wx |-> wx, wy |-> wy]
           /\ r.x \in Stops(wx, XCnt) /\ r.y \in Stops(wy, YCnt)
BY DEF Raster, Stops

\* In a row or a column, a slide leads to the next stop.
LEMMA NextStop ==
  ASSUME NEW cnt \in Nat, NEW size \in Nat \ {0}, size <= cnt, NEW s \in Stops(size, cnt)
  PROVE  /\ s \in 0 .. cnt - size /\ 0 \in Stops(size, cnt) /\ cnt - size \in Stops(size, cnt)
         /\ s + size < cnt =>
              LET n == Lesser(s + STRIDE, cnt - size)
              IN  n \in Stops(size, cnt) /\ n > s /\ \A t \in Stops(size, cnt) : ~(s < t /\ t < n)
<1>1. \A t : t \in Stops(size, cnt) <=> t \in 0 .. cnt - size /\ (t % 2 = 0 \/ t = cnt - size)
  BY StopElements
<1>2. s \in 0 .. cnt - size /\ 0 \in Stops(size, cnt) /\ cnt - size \in Stops(size, cnt)
  BY <1>1
<1>3. ASSUME s + size < cnt
      PROVE  LET n == Lesser(s + STRIDE, cnt - size)
             IN  n \in Stops(size, cnt) /\ n > s
                 /\ \A t \in Stops(size, cnt) : ~(s < t /\ t < n)
  <2>1. s % 2 = 0 /\ (s + 1) % 2 = 1 /\ (s + 2) % 2 = 0
    BY <1>1, <1>2, <1>3
  <2>2. Lesser(s + STRIDE, cnt - size) =
          IF s + 2 < cnt - size THEN s + 2 ELSE cnt - size
    BY DEF Lesser, STRIDE
  <2>3. ASSUME NEW t \in Stops(size, cnt), s < t, t < s + 2, t < cnt - size
        PROVE  FALSE
    <3>1. t = s + 1 /\ t % 2 = 0
      BY <1>1, <1>2, <2>3
    <3> QED
      BY <2>1, <3>1
  <2> QED
    BY <1>1, <1>2, <1>3, <2>1, <2>2, <2>3
<1> QED
  BY <1>2, <1>3

\* A slide leads to the next window, and from the last one, the corner, to the first.
LEMMA SlideIsNext ==
  ASSUME NEW wx \in Nat \ {0}, NEW wy \in Nat \ {0}, wx <= XCnt, wy <= YCnt,
         NEW w \in Raster(wx, wy)
  PROVE  /\ Slide(w) \in Raster(wx, wy)
         /\ \/ /\ Later(w, Slide(w))
               /\ \A r \in Raster(wx, wy) : ~(Later(w, r) /\ Later(r, Slide(w)))
            \/ /\ Slide(w).x = 0 /\ Slide(w).y = 0
               /\ \A r \in Raster(wx, wy) : ~Later(w, r)
<1> DEFINE X == Stops(wx, XCnt)
           Y == Stops(wy, YCnt)
<1>1. XCnt \in Nat /\ YCnt \in Nat
  BY MeshAssumption
<1>2. /\ w = [x |-> w.x, y |-> w.y, wx |-> wx, wy |-> wy]
      /\ w.x \in X /\ w.y \in Y /\ w.wx = wx /\ w.wy = wy
  <2>1. w = [x |-> w.x, y |-> w.y, wx |-> wx, wy |-> wy] /\ w.x \in X /\ w.y \in Y
    BY RasterElements
  <2> QED
    BY <2>1
<1>3. \A s \in X : s \in 0 .. XCnt - wx
  BY <1>1, StopElements
<1>4. \A s \in Y : s \in 0 .. YCnt - wy
  BY <1>1, StopElements
<1>5. \A r \in Raster(wx, wy) : r.x \in X /\ r.y \in Y
  BY RasterElements
<1>6. 0 \in X /\ 0 \in Y
  BY <1>1, <1>2, NextStop
<1>7. \A i \in X, j \in Y : [x |-> i, y |-> j, wx |-> wx, wy |-> wy] \in Raster(wx, wy)
  <2> SUFFICES ASSUME NEW i \in X, NEW j \in Y
               PROVE  [x |-> i, y |-> j, wx |-> wx, wy |-> wy] \in Raster(wx, wy)
    OBVIOUS
  <2> DEFINE r == [x |-> i, y |-> j, wx |-> wx, wy |-> wy]
  <2>1. r = [x |-> r.x, y |-> r.y, wx |-> wx, wy |-> wy] /\ r.x \in X /\ r.y \in Y
    OBVIOUS
  <2> QED
    BY <2>1, RasterElements
<1>8. CASE w.x + w.wx < XCnt
  <2> DEFINE n == Lesser(w.x + STRIDE, XCnt - wx)
  <2>1. n \in X /\ n > w.x /\ \A t \in X : ~(w.x < t /\ t < n)
    BY <1>1, <1>2, <1>8, NextStop
  <2>2. Slide(w) = [x |-> n, y |-> w.y, wx |-> wx, wy |-> wy]
    <3>1. Slide(w) = [w EXCEPT !.x = n]
      BY <1>2, <1>8 DEF Slide
    <3> HIDE DEF n
    <3> QED
      BY <1>2, <3>1
  <2> HIDE DEF n, X, Y
  <2>3. Slide(w) \in Raster(wx, wy) /\ Slide(w).x = n /\ Slide(w).y = w.y
    BY <1>2, <1>7, <2>1, <2>2
  <2> QED
    BY <1>1, <1>2, <1>3, <1>4, <1>5, <2>1, <2>3 DEF Later
<1>9. CASE w.x + w.wx >= XCnt /\ w.y + w.wy < YCnt
  <2> DEFINE n == Lesser(w.y + STRIDE, YCnt - wy)
  <2>1. n \in Y /\ n > w.y /\ \A t \in Y : ~(w.y < t /\ t < n)
    BY <1>1, <1>2, <1>9, NextStop
  <2>2. Slide(w) = [x |-> 0, y |-> n, wx |-> wx, wy |-> wy]
    <3>1. ~(w.x + w.wx < XCnt)
      BY <1>1, <1>2, <1>3, <1>9
    <3>2. Slide(w) = [w EXCEPT !.x = 0, !.y = n]
      BY <1>2, <1>9, <3>1 DEF Slide
    <3> HIDE DEF n
    <3> QED
      BY <1>2, <3>2
  <2> HIDE DEF n, X, Y
  <2>3. Slide(w) \in Raster(wx, wy) /\ Slide(w).x = 0 /\ Slide(w).y = n
    BY <1>6, <1>7, <2>1, <2>2
  <2>4. w.x = XCnt - wx
    BY <1>1, <1>2, <1>3, <1>9
  <2> QED
    BY <1>1, <1>2, <1>3, <1>4, <1>5, <2>1, <2>3, <2>4 DEF Later
<1>10. CASE w.x + w.wx >= XCnt /\ w.y + w.wy >= YCnt
  <2>1. Slide(w) = [x |-> 0, y |-> 0, wx |-> wx, wy |-> wy]
    <3>1. ~(w.x + w.wx < XCnt) /\ ~(w.y + w.wy < YCnt)
      BY <1>1, <1>2, <1>3, <1>4, <1>10
    <3>2. Slide(w) = [w EXCEPT !.x = 0, !.y = 0]
      BY <3>1 DEF Slide
    <3> QED
      BY <1>2, <3>2
  <2> HIDE DEF X, Y
  <2>2. Slide(w) \in Raster(wx, wy) /\ Slide(w).x = 0 /\ Slide(w).y = 0
    BY <1>6, <1>7, <2>1
  <2>3. w.x = XCnt - wx /\ w.y = YCnt - wy
    BY <1>1, <1>2, <1>3, <1>4, <1>10
  <2> QED
    BY <1>1, <1>2, <1>3, <1>4, <1>5, <2>2, <2>3 DEF Later
<1> QED
  BY <1>1, <1>2, <1>3, <1>4, <1>8, <1>9, <1>10

-----------------------------------------------------------------------------
(* The first window.                                                       *)

LEMMA LeastNatural ==
  ASSUME NEW S \in SUBSET Nat, S # {}
  PROVE  \E x \in S : \A y \in S : x <= y
<1>1. \A a, b \in Nat : a < b => <<a, b>> \in OpToRel(<, Nat)
  BY Zenon DEF OpToRel
<1>2. PICK x \in S : \A y \in S : ~ (<<y, x>> \in OpToRel(<, Nat))
  BY WFMin, NatLessThanWellFounded
<1>3. \A y \in S : ~(y < x)
  BY <1>1, <1>2, Zenon
<1> QED
  BY <1>3

\* The first size is at least the minimum and fits the mesh.
LEMMA FirstSizeFits ==
  ASSUME NEW n \in Nat \ {0}
  PROVE  /\ FirstSize(n) = <<FirstSize(n)[1], FirstSize(n)[2]>>
         /\ FirstSize(n)[1] \in MIN_WX .. XCnt /\ FirstSize(n)[2] \in MIN_WY .. YCnt
<1> DEFINE sizes == {<<k, k>> : k \in MIN_WX .. MIN_WX + n} \cup
                    {<<k, k + 1>> : k \in MIN_WX .. MIN_WX + n}
           enough == {s \in sizes : s[1] * s[2] * MaxTasks >= n}
           least == CHOOSE s \in enough : \A r \in enough : s[1] * s[2] <= r[1] * r[2]
<1>1. XCnt \in Nat /\ XCnt >= 3 /\ YCnt \in Nat /\ YCnt >= 3 /\ MaxTasks \in Nat \ {0}
  BY MeshAssumption DEF MIN_WX, MIN_WY
<1>2. \A s \in sizes : s[1] \in Nat /\ s[2] \in Nat /\ s[1] >= 3 /\ s[2] >= 3
  BY DEF MIN_WX
<1>3. enough # {}
  <2>1. <<3 + n, 3 + n>> \in sizes
    BY DEF MIN_WX
  <2>2. (3 + n) * (3 + n) \in Nat /\ (3 + n) * (3 + n) >= n
    OBVIOUS
  <2>3. \A k \in Nat : k >= n => k * MaxTasks >= n
    BY <1>1
  <2> DEFINE side == 3 + n
  <2>4. side * side * MaxTasks >= n
    BY <2>2, <2>3
  <2>5. <<side, side>> \in sizes /\ <<side, side>>[1] = side /\ <<side, side>>[2] = side
    BY <2>1
  <2> HIDE DEF side, sizes
  <2> QED
    BY <2>4, <2>5
<1>4. \E s \in enough : \A r \in enough : s[1] * s[2] <= r[1] * r[2]
  <2> DEFINE areas == {s[1] * s[2] : s \in enough}
  <2>1. areas \in SUBSET Nat
    BY <1>2
  <2>2. areas # {}
    BY <1>3
  <2> HIDE DEF areas
  <2>3. PICK x \in areas : \A y \in areas : x <= y
    BY <2>1, <2>2, LeastNatural
  <2> USE DEF areas
  <2> HIDE DEF enough
  <2> QED
    BY <2>3
<1>5. least \in enough
  <2> HIDE DEF enough
  <2> QED
    BY <1>4
<1>6. FirstSize(n) = <<Lesser(least[1], XCnt), Lesser(least[2], YCnt)>>
  BY DEF FirstSize
<1> HIDE DEF least
<1> QED
  BY <1>1, <1>2, <1>5, <1>6 DEF Lesser, MIN_WX, MIN_WY

\* The far corner is on the raster.
LEMMA CornerOnRaster ==
  ASSUME NEW w, NEW wx \in Nat \ {0}, NEW wy \in Nat \ {0}, wx <= XCnt, wy <= YCnt,
         w = [x |-> XCnt - wx, y |-> YCnt - wy, wx |-> wx, wy |-> wy]
  PROVE  w \in Raster(wx, wy)
<1>1. XCnt \in Nat /\ YCnt \in Nat
  BY MeshAssumption
<1>2. XCnt - wx \in Stops(wx, XCnt) /\ YCnt - wy \in Stops(wy, YCnt)
  BY <1>1, StopElements
<1> QED
  BY <1>2, RasterElements

-----------------------------------------------------------------------------
(* The steps.                                                              *)

\* What the windows offer does not change during a search.
LEMMA SameSlots ==
  ASSUME UNCHANGED free, search'.req = search.req
  PROVE  \A r : HasSlots(r, search.req)' <=> HasSlots(r, search.req)
<1> SUFFICES ASSUME NEW r PROVE HasSlots(r, search.req)' <=> HasSlots(r, search.req)
  OBVIOUS
<1>1. FreeIn(r)' = FreeIn(r)
  BY DEF FreeIn
<1> QED
  BY <1>1 DEF HasSlots

\* A slide changes the place of a window and not its size.
LEMMA SlideKeepsSize ==
  ASSUME NEW f \in Windows
  PROVE  Slide(f) \in Windows /\ Slide(f).wx = f.wx /\ Slide(f).wy = f.wy
<1> DEFINE i == Lesser(f.x + STRIDE, XCnt - f.wx)
           j == Lesser(f.y + STRIDE, YCnt - f.wy)
<1>1. f = [x |-> f.x, y |-> f.y, wx |-> f.wx, wy |-> f.wy] /\ f.x \in Int /\ f.y \in Int
      /\ f.wx \in Nat /\ f.wy \in Nat
  BY DEF Windows
<1>2. i \in Int /\ j \in Int
  BY <1>1, MeshAssumption DEF Lesser, STRIDE
<1>3. Slide(f) = [f EXCEPT !.x = i] \/ \E b \in {0, j} : Slide(f) = [f EXCEPT !.x = 0, !.y = b]
  BY DEF Slide
<1> HIDE DEF i, j
<1>4. \E a, b \in Int : Slide(f) = [x |-> a, y |-> b, wx |-> f.wx, wy |-> f.wy]
  <2>1. CASE Slide(f) = [f EXCEPT !.x = i]
    BY <1>1, <1>2, <2>1
  <2>2. ASSUME NEW b \in {0, j}, Slide(f) = [f EXCEPT !.x = 0, !.y = b]
        PROVE  Slide(f) = [x |-> 0, y |-> b, wx |-> f.wx, wy |-> f.wy] /\ b \in Int
    <3>1. Slide(f) = [x |-> 0, y |-> b, wx |-> f.wx, wy |-> f.wy]
      BY <1>1, <2>2
    <3> QED
      BY <1>2, <3>1
  <2> QED
    BY <1>3, <2>1, <2>2
<1> QED
  BY <1>1, <1>4 DEF Windows

\* A turn of the outer loop of wdo_from_last starts one window further than the one it
\* ends with.
LEMMA TurnStarts ==
  ASSUME NEW f \in Windows, f.wx # 0, f.wy # 0,
         app' # NoApp, search'.phase = "up", search'.from = f, search'.window = Slide(f)
  PROVE  SearchInv'
<1>1. XCnt \in Nat /\ YCnt \in Nat
  BY MeshAssumption
<1>2. Slide(f) \in Windows /\ Slide(f).wx = f.wx /\ Slide(f).wy = f.wy
  BY SlideKeepsSize
<1>3. Tried' = Raster(f.wx, f.wy)
  BY <1>2 DEF Tried
<1>4. CASE ~(FitsMesh(f) /\ f \in Raster(f.wx, f.wy))
  BY <1>2, <1>3, <1>4 DEF SearchInv, FitsMesh
<1>5. CASE FitsMesh(f) /\ f \in Raster(f.wx, f.wy)
  <2>1. f.wx \in Nat \ {0} /\ f.wy \in Nat \ {0} /\ f.wx <= XCnt /\ f.wy <= YCnt
    BY <1>5 DEF FitsMesh, Windows
  <2>2. /\ Slide(f) \in Raster(f.wx, f.wy)
        /\ \/ /\ Later(f, Slide(f))
              /\ \A r \in Raster(f.wx, f.wy) : ~(Later(f, r) /\ Later(r, Slide(f)))
           \/ /\ Slide(f).x = 0 /\ Slide(f).y = 0
              /\ \A r \in Raster(f.wx, f.wy) : ~Later(f, r)
    BY <1>5, <2>1, SlideIsNext
  <2>3. UpInv'
    BY <1>3, <2>2 DEF UpInv
  <2> QED
    BY <1>2, <1>3, <2>2, <2>3 DEF SearchInv
<1> QED
  BY <1>4, <1>5

\* The windows of a raster are in order.
LEMMA RasterOrder ==
  ASSUME NEW wx \in Nat \ {0}, NEW wy \in Nat \ {0}, wx <= XCnt, wy <= YCnt,
         NEW w \in Raster(wx, wy)
  PROVE  /\ w \in Windows /\ w.wx = wx /\ w.wy = wy /\ w.x \in Nat /\ w.y \in Nat
         /\ \A r \in Raster(wx, wy) : r = w \/ Later(w, r) \/ Later(r, w)
<1>1. XCnt \in Nat /\ YCnt \in Nat
  BY MeshAssumption
<1>2. \A r \in Raster(wx, wy) : r = [x |-> r.x, y |-> r.y, wx |-> wx, wy |-> wy]
                                /\ r.x \in Stops(wx, XCnt) /\ r.y \in Stops(wy, YCnt)
  BY RasterElements
<1>3. \A s \in Stops(wx, XCnt) : s \in Nat
  BY <1>1, StopElements
<1>4. \A s \in Stops(wy, YCnt) : s \in Nat
  BY <1>1, StopElements
<1>5. \A r \in Raster(wx, wy) : r.x \in Nat /\ r.y \in Nat
  BY <1>2, <1>3, <1>4
<1>6. w \in Windows /\ w.wx = wx /\ w.wy = wy
  BY <1>2, <1>5 DEF Windows
<1>7. ASSUME NEW r \in Raster(wx, wy)
      PROVE  r = w \/ Later(w, r) \/ Later(r, w)
  <2>1. CASE r.x = w.x /\ r.y = w.y
    BY <1>2, <2>1
  <2>2. CASE r.x # w.x \/ r.y # w.y
    BY <1>5, <2>2 DEF Later
  <2> QED
    BY <2>1, <2>2
<1> QED
  BY <1>5, <1>6, <1>7

\* The window that is tried fits the mesh, and it is on the raster when the search started
\* there.
LEMMA TriedFits ==
  ASSUME SearchInv, Trying({"up", "down"})
  PROVE  LET w == search.window
         IN  /\ app # NoApp /\ w \in Windows /\ FitsMesh(w)
             /\ w.wx \in Nat \ {0} /\ w.wy \in Nat \ {0} /\ w.wx <= XCnt /\ w.wy <= YCnt
<1> DEFINE w == search.window
<1>1. XCnt \in Nat /\ YCnt \in Nat
  BY MeshAssumption
<1>2. w \in Windows /\ w.wx \in Nat \ {0} /\ w.wy \in Nat \ {0} /\ app # NoApp
  BY DEF SearchInv, Trying, Windows
<1>3. FitsMesh(w) /\ w.wx <= XCnt /\ w.wy <= YCnt
  BY <1>1, <1>2 DEF Trying, InMesh, FitsMesh, Windows
<1> QED
  BY <1>2, <1>3

LEMMA TriedOnRaster ==
  ASSUME SearchInv, Trying({"up", "down"}), search.from \in Tried
  PROVE  LET w == search.window
             f == search.from
         IN  /\ w \in Tried /\ w.x \in Nat /\ w.y \in Nat /\ f.x \in Nat /\ f.y \in Nat
             /\ IF search.phase = "up" THEN UpInv ELSE DownInv
<1> DEFINE w == search.window
           f == search.from
<1>1. w \in Tried /\ (IF search.phase = "up" THEN UpInv ELSE DownInv)
  BY TriedFits DEF SearchInv, Trying
<1>2. \A r \in Tried : r.x \in Nat /\ r.y \in Nat
  BY TriedFits, RasterOrder DEF Tried
<1> QED
  BY <1>1, <1>2

\* A slide of either loop.
LEMMA SlideStep ==
  ASSUME PlacementInv, Trying({"up", "down"}), UNCHANGED <<app, free>>,
         ~HasSlots(search.window, search.req), NEW ph \in {"up", "down"},
         search' = [search EXCEPT !.phase = ph, !.window = Slide(@)],
         IF ph = "up" THEN search.phase = "up" /\ Beyond
         ELSE (search.phase = "up" => ~Beyond) /\ Before
  PROVE  SearchInv'
<1> DEFINE w == search.window
           f == search.from
           n == Slide(w)
           R == Raster(w.wx, w.wy)
           Fits(r) == HasSlots(r, search.req)
<1>1. /\ search'.phase = ph /\ search'.window = n /\ search'.from = f
      /\ search'.req = search.req /\ app' = app
  BY DEF PlacementInv, IsSearch
<1>fits. /\ app # NoApp /\ w \in Windows /\ FitsMesh(w)
      /\ w.wx \in Nat \ {0} /\ w.wy \in Nat \ {0} /\ w.wx <= XCnt /\ w.wy <= YCnt
  BY TriedFits DEF PlacementInv
<1>kept. /\ n \in Windows /\ n.wx = w.wx /\ n.wy = w.wy
      /\ Tried = R /\ Tried' = R
  BY <1>1, <1>fits, SlideKeepsSize DEF Tried
<1>off. CASE f \notin R
  BY <1>1, <1>fits, <1>kept, <1>off DEF SearchInv
<1> SUFFICES ASSUME f \in R
             PROVE  SearchInv'
  BY <1>off
<1>2. /\ app # NoApp /\ w \in Windows /\ FitsMesh(w)
      /\ w.wx \in Nat \ {0} /\ w.wy \in Nat \ {0} /\ w.wx <= XCnt /\ w.wy <= YCnt
      /\ w \in R /\ f \in R
      /\ w.x \in Nat /\ w.y \in Nat /\ f.x \in Nat /\ f.y \in Nat
      /\ IF search.phase = "up" THEN UpInv ELSE DownInv
  BY <1>fits, <1>kept, TriedOnRaster DEF PlacementInv
<1>3. /\ n \in R
      /\ \/ Later(w, n) /\ \A r \in R : ~(Later(w, r) /\ Later(r, n))
         \/ n.x = 0 /\ n.y = 0 /\ \A r \in R : ~Later(w, r)
  BY <1>2, SlideIsNext
<1>4. \A r \in R : /\ r \in Windows /\ r.wx = w.wx /\ r.wy = w.wy /\ r.x \in Nat /\ r.y \in Nat
                   /\ r = w \/ Later(w, r) \/ Later(r, w)
  BY <1>2, RasterOrder
<1>5. \A r \in R : HasSlots(r, search.req)' <=> Fits(r)
  BY <1>1, SameSlots
<1>6. Tried = R /\ Tried' = R
  BY <1>kept
<1> HIDE DEF n, R, Fits
<1>7. CASE ph = "up"
  <2>1. Later(f, w) /\ \A r \in R : Later(f, r) /\ Later(r, w) => ~Fits(r)
    BY <1>2, <1>6, <1>7 DEF UpInv, Beyond, Fits
  <2>2. \A r \in R : Later(f, r) /\ ~Later(w, r) => ~Fits(r)
    BY <1>4, <2>1 DEF Fits
  <2>3. UpInv'
    <3>1. CASE Later(w, n) /\ \A r \in R : ~(Later(w, r) /\ Later(r, n))
      <4>1. Later(f, n)
        BY <1>2, <1>3, <1>4, <2>1, <3>1 DEF Later
      <4>2. \A r \in R : Later(f, r) /\ Later(r, n) => ~Fits(r)
        BY <2>2, <3>1
      <4> QED
        BY <1>1, <1>5, <1>6, <4>1, <4>2 DEF UpInv
    <3>2. CASE n.x = 0 /\ n.y = 0 /\ \A r \in R : ~Later(w, r)
      BY <1>1, <1>5, <1>6, <2>2, <3>2 DEF UpInv
    <3> QED
      BY <1>3, <3>1, <3>2
  <2> QED
    BY <1>1, <1>2, <1>3, <1>4, <1>6, <1>7, <2>3 DEF SearchInv
<1>8. CASE ph = "down"
  <2>1. ~Later(f, w) /\ \A r \in R : Later(f, r) \/ Later(r, w) => ~Fits(r)
    <3>1. CASE search.phase = "up"
      <4>1. ~Later(f, w)
        BY <1>8, <3>1 DEF Beyond, Later
      <4>2. w.x = 0 /\ w.y = 0 /\ \A r \in R : Later(f, r) => ~Fits(r)
        BY <1>2, <1>6, <3>1, <4>1 DEF UpInv, Fits
      <4>3. \A r \in R : ~Later(r, w)
        BY <1>4, <4>2 DEF Later
      <4> QED
        BY <4>1, <4>2, <4>3
    <3>2. CASE search.phase # "up"
      BY <1>2, <1>6, <3>2 DEF DownInv, Fits
    <3> QED
      BY <3>1, <3>2
  <2>2. Later(w, f)
    <3>1. f # w
      BY <1>2, <1>8 DEF Before
    <3> QED
      BY <1>2, <1>4, <2>1, <3>1
  <2>3. Later(w, n) /\ \A r \in R : ~(Later(w, r) /\ Later(r, n))
    BY <1>2, <1>3, <2>2
  <2>4. ~Later(f, n)
    BY <1>2, <2>2, <2>3
  <2>5. \A r \in R : Later(f, r) \/ Later(r, n) => ~Fits(r)
    BY <1>4, <2>1, <2>3 DEF Fits
  <2>6. DownInv'
    BY <1>1, <1>5, <1>6, <2>4, <2>5 DEF DownInv
  <2> QED
    BY <1>1, <1>2, <1>3, <1>4, <1>6, <1>8, <2>6 DEF SearchInv
<1> QED
  BY <1>7, <1>8

\* The larger window after the last test.
LEMMA GrowStep ==
  ASSUME PlacementInv, Trying({"up", "down"}), UNCHANGED app,
         LET corner == Corner(Grow(search.window))
         IN  search' = [search EXCEPT !.phase = "up", !.window = Slide(corner), !.from = corner]
  PROVE  SearchInv'
<1> DEFINE g == Grow(search.window)
           c == Corner(g)
<1>1. /\ search'.phase = "up" /\ search'.window = Slide(c) /\ search'.from = c
      /\ search'.req = search.req /\ app' = app
  BY DEF PlacementInv, IsSearch
<1>2. /\ search.window \in Windows /\ app # NoApp
      /\ search.window.wx \in Nat \ {0} /\ search.window.wy \in Nat \ {0}
  BY TriedFits DEF PlacementInv
<1>3. g \in Windows /\ g.wx \in Nat \ {0} /\ g.wy \in Nat \ {0}
  BY <1>2 DEF Grow, Windows
<1>4. /\ c = [x |-> XCnt - g.wx, y |-> YCnt - g.wy, wx |-> g.wx, wy |-> g.wy]
      /\ c \in Windows
  <2> HIDE DEF g
  <2>1. g = [x |-> g.x, y |-> g.y, wx |-> g.wx, wy |-> g.wy]
    BY <1>3 DEF Windows
  <2>2. c = [x |-> XCnt - g.wx, y |-> YCnt - g.wy, wx |-> g.wx, wy |-> g.wy]
    <3> DEFINE i == XCnt - g.wx
               j == YCnt - g.wy
    <3>1. c = [g EXCEPT !.x = i, !.y = j]
      BY DEF Corner
    <3> HIDE DEF i, j, c
    <3>2. c = [x |-> i, y |-> j, wx |-> g.wx, wy |-> g.wy]
      BY <2>1, <3>1
    <3> QED
      BY <3>2 DEF i, j
  <2>3. XCnt - g.wx \in Int /\ YCnt - g.wy \in Int
    BY <1>3, MeshAssumption
  <2> HIDE DEF c
  <2> QED
    BY <1>3, <2>2, <2>3 DEF Windows
<1>5. c.wx # 0 /\ c.wy # 0
  <2> HIDE DEF g, c
  <2> QED
    BY <1>3, <1>4
<1> HIDE DEF c
<1> QED
  BY <1>1, <1>2, <1>4, <1>5, TurnStarts

\* The start of a search for the tasks of a new application.
LEMMA NewAppStep ==
  ASSUME PlacementInv, NEW a \in Apps, NewApp(a)
  PROVE  PlacementInv'
<1> DEFINE n == TaskCnt[a]
           fixed == StaticTasks(a)
           size == FirstSize(n)
           fresh == size # <<MIN_WX, MIN_WY>> \/ last = NoCoord
           base == IF fresh THEN <<XCnt - size[1], YCnt - size[2]>> ELSE last
           w == [x |-> base[1], y |-> base[2], wx |-> size[1], wy |-> size[2]]
<1>1. CASE UNCHANGED <<app, search, last>> /\ app = NoApp
  BY <1>1 DEF PlacementInv, LastInv, SearchInv
<1>2. CASE UNCHANGED last /\ \E c : search' = FromCenter(c, size, n)
  BY <1>2 DEF PlacementInv, LastInv, SearchInv, IsSearch, FromCenter
<1>3. CASE fixed = {} /\ app' = a /\ last' = base /\ search' = FromLast(base, size, n)
  <2>1. /\ size = <<size[1], size[2]>>
        /\ size[1] \in 3 .. XCnt /\ size[2] \in 3 .. YCnt /\ XCnt \in Nat /\ YCnt \in Nat
        /\ a # NoApp
    <3>1. n \in Nat \ {0} /\ XCnt \in Nat /\ YCnt \in Nat /\ NoApp \notin Apps
      BY MeshAssumption
    <3> QED
      BY <3>1, FirstSizeFits DEF MIN_WX, MIN_WY
  <2> HIDE DEF size
  <2>2. base \in Int \X Int
    <3>1. CASE fresh
      BY <2>1, <3>1
    <3>2. CASE ~fresh
      BY <3>2 DEF PlacementInv, LastInv
    <3> QED
      BY <3>1, <3>2
  <2>3. w \in Windows /\ w.wx # 0 /\ w.wy # 0
    <3>1. base[1] \in Int /\ base[2] \in Int /\ size[1] \in Nat \ {0} /\ size[2] \in Nat \ {0}
      BY <2>1, <2>2
    <3> HIDE DEF base
    <3> QED
      BY <3>1 DEF Windows
  <2>4. IsSearch(search)' /\ search'.phase = "up" /\ search'.from = w /\ search'.window = Slide(w)
    BY <1>3 DEF IsSearch, FromLast
  <2>5. SearchInv'
    <3> HIDE DEF w
    <3> QED
      BY <1>3, <2>1, <2>3, <2>4, TurnStarts
  <2>6. LastInv'
    BY <1>3, <2>2 DEF LastInv
  <2> QED
    BY <2>4, <2>5, <2>6 DEF PlacementInv
<1> QED
  BY <1>1, <1>2, <1>3 DEF NewApp

LEMMA PlacementStart == Init => PlacementInv
BY DEF Init, PlacementInv, IsSearch, LastInv, NoCoord, SearchInv

LEMMA PlacementStep ==
  ASSUME PlacementInv, [Next]_vars
  PROVE  PlacementInv'
<1>1. ASSUME NEW a \in Apps, NewApp(a)
      PROVE  PlacementInv'
  BY <1>1, NewAppStep
<1>2. ASSUME NEW a \in Apps, NEW t \in TaskIds(a), MigrationMap(a, t)
      PROVE  PlacementInv'
  BY <1>2 DEF MigrationMap, PlacementInv, IsSearch, LastInv, SearchInv, FromCenter
<1>3. ASSUME NEW a \in Apps, NEW t \in TaskIds(a), TaskMigrated(a, t)
      PROVE  PlacementInv'
  BY <1>3 DEF TaskMigrated, PlacementInv, IsSearch, LastInv, SearchInv
<1>4. ASSUME UNCHANGED last, IsSearch(search)', search'.phase \notin {"up", "down"}
      PROVE  PlacementInv'
  BY <1>4 DEF PlacementInv, LastInv, SearchInv
<1>5. CASE Found /\ UNCHANGED last
  <2>1. IsSearch(search)' /\ search'.phase = "found"
    BY <1>5 DEF Found, PlacementInv, IsSearch
  <2> QED
    BY <1>4, <1>5, <2>1
<1>6. CASE TryCenter
  <2>1. CASE NotFound([search EXCEPT !.window = Inside(Grow(@))])
    <3>1. IsSearch(search)' /\ search'.phase = "center"
      BY <1>6, <2>1 DEF TryCenter, Trying, NotFound, PlacementInv, IsSearch
    <3> QED
      BY <1>4, <1>6, <3>1 DEF TryCenter
  <2> QED
    BY <1>5, <1>6, <2>1 DEF TryCenter
<1>7. CASE TryUp
  <2>1. CASE NotFound([search EXCEPT !.window = Slide(@)])
    <3>1. search' = [search EXCEPT !.phase = "up", !.window = Slide(@)]
      BY <1>7, <2>1 DEF TryUp, Trying, NotFound, PlacementInv, IsSearch
    <3>2. SearchInv'
      BY <1>7, <2>1, <3>1, SlideStep DEF TryUp, Trying, NotFound
    <3> QED
      BY <1>7, <3>1, <3>2 DEF TryUp, PlacementInv, IsSearch, LastInv
  <2> QED
    BY <1>5, <1>7, <2>1 DEF TryUp
<1>8. CASE TryDown
  <2>1. CASE NotFound([search EXCEPT !.phase = "down", !.window = Slide(@)])
    <3>1. SearchInv'
      BY <1>8, <2>1, SlideStep DEF TryDown, NotFound
    <3> QED
      BY <1>8, <2>1, <3>1 DEF TryDown, NotFound, PlacementInv, IsSearch, LastInv
  <2> QED
    BY <1>5, <1>8, <2>1 DEF TryDown
<1>9. CASE TryLast
  <2> DEFINE corner == Corner(Grow(search.window))
  <2>1. CASE NotFound([search EXCEPT !.phase = "up", !.window = Slide(corner),
                                     !.from = corner])
    <3>1. SearchInv'
      BY <1>9, <2>1, GrowStep DEF TryLast, NotFound
    <3> QED
      BY <1>9, <2>1, <3>1 DEF TryLast, NotFound, PlacementInv, IsSearch, LastInv
  <2> QED
    BY <1>5, <1>9, <2>1 DEF TryLast
<1>10. CASE PlaceNext
  <2>1. UNCHANGED last /\ (search' = search \/ search' = [search EXCEPT !.phase = "idle"])
        /\ search.phase = "found"
    BY <1>10 DEF PlaceNext, Done
  <2> QED
    BY <1>4, <2>1 DEF PlacementInv, IsSearch
<1>11. CASE PlaceMigrant
  <2>1. UNCHANGED last /\ search' = [search EXCEPT !.phase = "idle"]
    BY <1>11 DEF PlaceMigrant, Done
  <2> QED
    BY <1>4, <2>1 DEF PlacementInv, IsSearch
<1>12. CASE UNCHANGED vars
  <2>1. UNCHANGED <<app, search, last, free>>
    BY <1>12 DEF vars
  <2>2. (\A r : HasSlots(r, search.req)' <=> HasSlots(r, search.req))
    BY <2>1, SameSlots
  <2>3. SearchInv'
    BY <2>1, <2>2 DEF PlacementInv, SearchInv, Tried, UpInv, DownInv
  <2> QED
    BY <2>1, <2>3 DEF PlacementInv, LastInv, IsSearch
<1> QED
  BY <1>1, <1>2, <1>3, <1>6, <1>7, <1>8, <1>9, <1>10, <1>11, <1>12 DEF Next, Heuristic

-----------------------------------------------------------------------------
(* The result.                                                             *)

\* In every mesh and for all applications and loads, wdo_from_last resorts to a larger window
\* only when it has tried all windows of a size that sliding from the origin visits, if it
\* started from one of these.  Its two loops, whose conditions compare both coordinates with
\* those of the start, skip some otherwise: that it starts there is a condition of
\* GrowsOnlyWhenNoneFits, since _map_do does not see to it.
THEOREM GrowsLast == Spec => GrowsOnlyWhenNoneFits
<1> DEFINE w == search.window
           grows == /\ search.phase \in {"up", "down"} /\ search'.phase = "up"
                    /\ <<search'.window.wx, search'.window.wy>> # <<w.wx, w.wy>>
                    /\ app = app' /\ search.from \in Raster(w.wx, w.wy)
           none == \A r \in Raster(w.wx, w.wy) : ~HasSlots(r, search.req)
<1>1. PlacementInv /\ [Next]_vars => [grows => none]_vars
  <2> SUFFICES ASSUME PlacementInv, Next, grows
               PROVE  none
    OBVIOUS
  <2>1. /\ app # NoApp
        /\ ~PlaceNext /\ ~PlaceMigrant /\ ~TryCenter
    BY DEF PlacementInv, SearchInv, PlaceNext, PlaceMigrant, Done, TryCenter, Trying
  <2>2. TryUp \/ TryDown \/ TryLast
    BY <2>1 DEF Next, Heuristic, NewApp, MigrationMap, TaskMigrated
  <2>3. Trying({"up", "down"}) /\ ~Found
    BY <2>2 DEF TryUp, TryDown, TryLast, Found, Trying, PlacementInv, IsSearch
  <2>4. /\ FitsMesh(w) /\ w \in Tried /\ search.from \in Tried
        /\ w.wx \in Nat \ {0} /\ w.wy \in Nat \ {0} /\ w.wx <= XCnt /\ w.wy <= YCnt
        /\ w.x \in Nat /\ w.y \in Nat /\ search.from.x \in Nat /\ search.from.y \in Nat
        /\ IF search.phase = "up" THEN UpInv ELSE DownInv
    BY <2>3, TriedFits, TriedOnRaster DEF PlacementInv, Tried
  <2>5. Slide(w) \in Raster(w.wx, w.wy)
    BY <2>4, SlideIsNext DEF Tried
  <2>6. Slide(w).wx = w.wx /\ Slide(w).wy = w.wy
    BY <2>4, <2>5, RasterOrder
  <2>7. ~TryUp /\ ~TryDown
    BY <2>3, <2>6 DEF TryUp, TryDown, NotFound, PlacementInv, IsSearch
  <2>8. TryLast /\ ~HasSlots(w, search.req)
    BY <2>2, <2>3, <2>7 DEF TryLast, NotFound
  <2>9. ~Later(search.from, w) /\ ~Before
        /\ \A r \in Tried : Later(search.from, r) \/ Later(r, w) => ~HasSlots(r, search.req)
    <3>1. CASE search.phase = "up"
      <4>1. ~Beyond /\ ~Before
        BY <2>8, <3>1 DEF TryLast
      <4>2. ~Later(search.from, w)
        BY <2>4, <4>1 DEF Beyond, Later
      <4>3. w.x = 0 /\ w.y = 0 /\ \A r \in Tried : Later(search.from, r) => ~HasSlots(r, search.req)
        BY <2>4, <3>1, <4>2 DEF UpInv
      <4>4. \A r \in Tried : ~Later(r, w)
        BY <2>4, <4>3, RasterOrder DEF Tried, Later
      <4> QED
        BY <4>1, <4>2, <4>3, <4>4
    <3>2. CASE search.phase # "up"
      BY <2>4, <2>8, <3>2 DEF TryLast, DownInv
    <3> QED
      BY <3>1, <3>2
  <2>10. search.from = w
    <3>1. search.from = w \/ Later(w, search.from) \/ Later(search.from, w)
      BY <2>4, RasterOrder DEF Tried
    <3> QED
      BY <2>4, <2>9, <3>1 DEF Before, Later
  <2>11. \A r \in Tried : Later(w, r) \/ Later(r, w) \/ r = w
    BY <2>4, RasterOrder DEF Tried
  <2> QED
    BY <2>8, <2>9, <2>10, <2>11 DEF Tried
<1>2. Spec => []PlacementInv
  BY PlacementStart, PlacementStep, PTL DEF Spec
<1> QED
  BY <1>1, <1>2, PTL DEF Spec, GrowsOnlyWhenNoneFits
=============================================================================
