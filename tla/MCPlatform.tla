----------------------------- MODULE MCPlatform -----------------------------
(***************************************************************************)
(* A mesh of 2 x 2.  The mapper runs at <<0, 0>> and the monitor at        *)
(* <<1, 0>>; MAInjector is above <<1, 1>> and AppInjector left of <<0, 1>>.*)
(***************************************************************************)
EXTENDS Platform

MCMapperAddress == <<0, 0>>
MCMonitorAddress == <<1, 0>>
MCNoPacket ==
  [from |-> <<<<0, 0>>, LOCAL_PORT>>, target |-> <<0, 0>>, io |-> LOCAL_PORT, service |-> "NOTHING",
   body |-> <<"NOTHING">>, size |-> 0]
MCIoPe == [MAInjector |-> <<1, 1>>, AppInjector |-> <<0, 1>>]
MCIoPort == [MAInjector |-> NORTH, AppInjector |-> WEST]
MCma_start == <<2, 1>>
MCapp_start == <<[name |-> "app", tasks |-> <<1, 3, 0>>, edges |-> 2, start_time |-> 0]>>
MCPlaces ==
  [MAInjector |-> <<<<0, 0>>, <<1, 0>>>>, AppInjector |-> <<<<0, 1>>, <<1, 1>>, <<1, 0>>>>]

\* Reports of three tasks at <<0, 1>>, where a table has two lines, and of one at <<1, 1>>;
\* a task is removed while they come.
Task(n) == <<MCNoPacket, n>>
Report(src, n, v) == [src |-> src, task |-> Task(n), payload |-> <<MCNoPacket, v>>]
SomeReports ==
  <<Report(<<0, 1>>, 1, 7), Report(<<1, 1>>, 2, 8), Report(<<0, 1>>, 1, 9), Report(<<0, 1>>, 3, 5),
    Report(<<0, 1>>, 4, 6), Report(<<1, 1>>, 2, 4), Report(<<0, 1>>, 4, 3)>>

To(r, n) == [to |-> r, words |-> n]
Behaviour(sends, pause) == [sends |-> sends, pause |-> pause, writes |-> <<>>, reports |-> <<>>]

\* What the tasks at <<0, 1>>, <<1, 1>> and <<1, 0>> send, and how slow the kernels are.
PlanOf(a, b, c, pause) ==
  (<<0, 0>> :> Behaviour(<<>>, pause)) @@ (<<0, 1>> :> Behaviour(a, 0)) @@ (<<1, 1>> :> Behaviour(b, 0))
  @@ (<<1, 0>> :> [Behaviour(c, pause) EXCEPT !.writes = Pause(60) \o <<Set("clear_task", Task(1))>>,
                                               !.reports = SomeReports])

\* With the pauses of 5 and 6 a header comes on the edge on which a reception begins.
MCPlans ==
  {PlanOf(<<To(<<1, 0>>, 12), To(<<1, 1>>, 1)>>, <<To(<<1, 0>>, 12), To(<<0, 1>>, 3)>>, <<To(<<0, 1>>, 12)>>, n) :
     n \in {0, 5, 6}}
  \cup
  {PlanOf(<<To(<<1, 0>>, 12), To(<<1, 0>>, 9)>>, <<To(<<1, 0>>, 5)>>, <<To(<<0, 1>>, 12), To(<<1, 1>>, 12)>>, 25),
   PlanOf(<<To(<<0, 0>>, 12)>>, <<To(<<0, 0>>, 12)>>, <<To(<<0, 0>>, 12)>>, 40)}
=============================================================================
