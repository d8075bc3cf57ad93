----------------------------- MODULE Synthetic -----------------------------
(***************************************************************************)
(* The tasks of the small applications of src/applications: communication, *)
(* synthetic, synthetic1, prod_cons, malicious and malicious2.             *)
(***************************************************************************)
EXTENDS Tasks

communication_taskA == Repeat(500, Send("taskB", Words(128)) \o Send("taskC", Words(128)))
communication_taskB == Repeat(500, Receive("taskA", Words(128)) \o Send("taskD", Words(128)))
communication_taskC == Repeat(500, Receive("taskA", Words(128)) \o Send("taskD", Words(128)))
communication_taskD == Repeat(500, Receive("taskB", Words(128)) \o Receive("taskC", Words(128)))

communication ==
  [taskA |-> communication_taskA, taskB |-> communication_taskB, taskC |-> communication_taskC,
   taskD |-> communication_taskD]

synthetic_taskA == Repeat(100, Send("taskB", Words(128)) \o Send("taskC", Words(128)))
synthetic_taskB == Repeat(100, Receive("taskA", Words(128)) \o Send("taskD", Words(128)))
synthetic_taskC == Repeat(100, Receive("taskA", Words(128)) \o Send("taskD", Words(128)))
synthetic_taskD == Repeat(100, Receive("taskB", Words(128)) \o Receive("taskC", Words(128)))

synthetic ==
  [taskA |-> synthetic_taskA, taskB |-> synthetic_taskB, taskC |-> synthetic_taskC, taskD |-> synthetic_taskD]

synthetic1_taskA == Repeat(10, Send("taskC", Words(30)))
synthetic1_taskB == Repeat(10, Send("taskC", Words(30)))
synthetic1_taskC ==
  Repeat(10, Receive("taskA", Words(30)) \o Send("taskD", Words(30))
             \o Receive("taskB", Words(30)) \o Send("taskE", Words(30)))
synthetic1_taskD == Repeat(10, Receive("taskC", Words(30)) \o Send("taskF", Words(30)))
synthetic1_taskE == Repeat(10, Receive("taskC", Words(30)) \o Send("taskF", Words(30)))
synthetic1_taskF == Repeat(10, Receive("taskE", Words(30)) \o Receive("taskD", Words(30)))

synthetic1 ==
  [taskA |-> synthetic1_taskA, taskB |-> synthetic1_taskB, taskC |-> synthetic1_taskC,
   taskD |-> synthetic1_taskD, taskE |-> synthetic1_taskE, taskF |-> synthetic1_taskF]

prod_cons_prod == Repeat(50, Send("cons", Words(128)))
prod_cons_cons == Repeat(50, Receive("prod", Words(128)))

prod_cons == [prod |-> prod_cons_prod, cons |-> prod_cons_cons]

malicious_producer == Repeat(150, Send("consumer", Words(1)))
malicious_consumer == Repeat(150, Receive("producer", Words(1)))

malicious == [producer |-> malicious_producer, consumer |-> malicious_consumer]

\* The producer sends at least once, and again while its clock allows; a 0 ends the consumer.
malicious2_producer ==
  Leading(Noting(Tell("consumer", Words(1), <<1>>), "time passes"), "while there is time")
  \o Tell("consumer", Words(1), <<0>>)
malicious2_consumer ==
  Leading(Noting(Receive("producer", Words(1)), "flag"), "until the flag")

malicious2 == [producer |-> malicious2_producer, consumer |-> malicious2_consumer]
=============================================================================
