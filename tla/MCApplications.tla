--------------------------- MODULE MCApplications ---------------------------
(***************************************************************************)
(* The applications interleave where that is small, and every array of     *)
(* four elements is sorted, and the descending one of sorting_util.h, cut  *)
(* to twelve.                                                              *)
(***************************************************************************)
EXTENDS Applications, Synthetic, Benchmarks, Media

MCProgram ==
  [communication |-> communication, synthetic |-> synthetic, synthetic1 |-> synthetic1,
   prod_cons |-> prod_cons, malicious |-> malicious, malicious2 |-> malicious2,
   MPEG4 |-> MPEG4, MWD |-> MWD, VOPD |-> VOPD, mpeg |-> mpeg,
   audio_video |-> audio_video, audio_video_rt |-> audio_video_rt, fixe_base |-> fixe_base,
   aes |-> aes, aes_rt |-> aes_rt, dtw |-> dtw, dtw_rt |-> dtw_rt, map_reduce |-> map_reduce,
   dijkstra |-> dijkstra, dijkstra_rt |-> dijkstra_rt]
  @@ [name \in Sorts |-> SortsItsArray(name)]

MCInterleaved ==
  {"synthetic", "synthetic1", "prod_cons", "malicious", "malicious2"}

MCArrays == [0..3 -> 0..3] \cup {[i \in 0..11 |-> 11 - i]}
=============================================================================
