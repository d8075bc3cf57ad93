------------------------------ MODULE Sorting ------------------------------
(***************************************************************************)
(* The five applications of one task that sort an array, with the helpers  *)
(* of their sorting_util.h.  An array is a function on 0..n-1.             *)
(***************************************************************************)
EXTENDS Tasks, Integers

Length(arr) == Cardinality(DOMAIN arr)

\* for (i = a; i < b; i++)
From(a, b) == [k \in 1..(IF a < b THEN b - a ELSE 0) |-> a + k - 1]

swap(arr, x, y) == [arr EXCEPT ![x] = arr[y], ![y] = arr[x]]

bubbleSort(arr) ==
  LET Pass(a, i) ==
        FoldLeft(LAMBDA b, j : IF b[j] > b[j + 1] THEN swap(b, j, j + 1) ELSE b, a, From(0, Length(arr) - i - 1))
  IN  FoldLeft(Pass, arr, From(0, Length(arr) - 1))

\* The key goes behind the last of the elements before it that is not greater.
insertionSort(arr) ==
  LET Insert(a, i) ==
        LET place == Max({-1} \cup {j \in 0..(i - 1) : a[j] <= a[i]}) + 1
        IN  [k \in DOMAIN a |-> IF k = place THEN a[i] ELSE IF k \in place..i THEN a[k - 1] ELSE a[k]]
  IN  FoldLeft(Insert, arr, From(1, Length(arr)))

selectionSort(arr) ==
  LET Select(a, i) ==
        LET min_idx == FoldLeft(LAMBDA m, j : IF a[j] < a[m] THEN j ELSE m, i, From(i + 1, Length(arr)))
        IN  swap(a, min_idx, i)
  IN  FoldLeft(Select, arr, From(0, Length(arr) - 1))

\* The array with the pivot, the last element, at its place pi.
partition(arr, low, high) ==
  LET Visit(s, j) ==
        IF s.arr[j] <= arr[high] THEN [arr |-> swap(s.arr, s.pi, j), pi |-> s.pi + 1] ELSE s
      visited == FoldLeft(Visit, [arr |-> arr, pi |-> low], From(low, high))
  IN  [visited EXCEPT !.arr = swap(visited.arr, visited.pi, high)]

RECURSIVE quickSort(_, _, _)
quickSort(arr, low, high) ==
  IF low >= high THEN arr
  ELSE LET parts == partition(arr, low, high)
       IN  quickSort(quickSort(parts.arr, low, parts.pi - 1), parts.pi + 1, high)

\* arr[l..m] and arr[m+1..r] are read from copies while arr is written; i and j are read next.
merge(arr, l, m, r) ==
  LET Take(s, k) ==
        IF s.j > r \/ (s.i <= m /\ arr[s.i] <= arr[s.j])
          THEN [s EXCEPT !.arr[k] = arr[s.i], !.i = @ + 1]
          ELSE [s EXCEPT !.arr[k] = arr[s.j], !.j = @ + 1]
  IN  FoldLeft(Take, [arr |-> arr, i |-> l, j |-> m + 1], From(l, r + 1)).arr

RECURSIVE mergeSort(_, _, _)
mergeSort(arr, l, r) ==
  IF l >= r THEN arr
  ELSE LET m == l + (r - l) \div 2
       IN  merge(mergeSort(mergeSort(arr, l, m), m + 1, r), l, m, r)

Sorted(task, arr) ==
  CASE task = "bubble_sort" -> bubbleSort(arr)
    [] task = "insertion_sort" -> insertionSort(arr)
    [] task = "selection_sort" -> selectionSort(arr)
    [] task = "quick_sort" -> quickSort(arr, 0, Length(arr) - 1)
    [] task = "merge_sort" -> mergeSort(arr, 0, Length(arr) - 1)

\* The application of one task, which sorts its array.
SortsItsArray(task) == task :> Call("sort", "nobody", 0, <<>>, "sorted", "next")

-----------------------------------------------------------------------------
\* What sorting means: in order, and the same elements as often.
InOrder(arr) == \A i, j \in DOMAIN arr : i < j => arr[i] <= arr[j]
Times(arr, x) == Cardinality({i \in DOMAIN arr : arr[i] = x})
SameElements(a, b) == DOMAIN a = DOMAIN b /\ \A i \in DOMAIN a : Times(a, a[i]) = Times(b, a[i])
=============================================================================
