------------------------------- MODULE Farms -------------------------------
(***************************************************************************)
(* The applications in which a task deals work out and others do it:       *)
(* src/applications/aes, aes_rt, dtw, dtw_rt, map_reduce, dijkstra and     *)
(* dijkstra_rt.                                                            *)
(***************************************************************************)
EXTENDS Tasks, Dijkstra

AES_BLOCK_SIZE == 16
NUMBER_OF_SLAVES == 8
CIPHER_MODE == 0
DECIPHER_MODE == 1
END_TASK == 2

\* The blocks of a message of 256 bytes.
blocks == 256 \div AES_BLOCK_SIZE

Slave == <<"aes_slave1", "aes_slave2", "aes_slave3", "aes_slave4",
           "aes_slave5", "aes_slave6", "aes_slave7", "aes_slave8">>

\* How many blocks a slave is given to encrypt and to decrypt; the latter may be one too many.
ToCipher == [x \in 1..NUMBER_OF_SLAVES |->
               (blocks \div NUMBER_OF_SLAVES) + (IF x - 1 < blocks % NUMBER_OF_SLAVES THEN 1 ELSE 0)]
ToDecipher == [x \in 1..NUMBER_OF_SLAVES |->
                 (blocks \div NUMBER_OF_SLAVES) + (IF x - 1 <= blocks % NUMBER_OF_SLAVES THEN 1 ELSE 0)]

Configure(mode, qtd_messages) ==
  FlattenSeq([x \in 1..NUMBER_OF_SLAVES |-> Tell(Slave[x], Words(3), <<mode, qtd_messages[x]>>)])

\* Mutant: as many rounds as the blocks need when none is counted twice, x < blocks.
Blocks_NoExtraRound(qtd_messages) ==
  FlattenSeq([round \in 1..(blocks \div NUMBER_OF_SLAVES) |->
    LET busy == SelectSeq([y \in 1..NUMBER_OF_SLAVES |-> y], LAMBDA y : qtd_messages[y] >= round)
        names == [k \in 1..Len(busy) |-> Slave[busy[k]]]
    IN  ToEach(names, AES_BLOCK_SIZE) \o FromEach(names, AES_BLOCK_SIZE)])

\* In every round, a block to each slave that still has some to get, then their answers.
Blocks(qtd_messages) ==
  FlattenSeq([round \in 1..(blocks \div NUMBER_OF_SLAVES + 1) |->
    LET busy == SelectSeq([y \in 1..NUMBER_OF_SLAVES |-> y], LAMBDA y : qtd_messages[y] >= round)
        names == [k \in 1..Len(busy) |-> Slave[busy[k]]]
    IN  ToEach(names, AES_BLOCK_SIZE) \o FromEach(names, AES_BLOCK_SIZE)])

aes_master ==
  Configure(CIPHER_MODE, ToCipher) \o Blocks(ToCipher) \o Configure(DECIPHER_MODE, ToDecipher)
  \o Blocks(ToDecipher) \o Configure(END_TASK, [x \in 1..NUMBER_OF_SLAVES |-> 0])

\* A slave is told a mode and a number of blocks, answers so many, and waits for the next order.
aes_slave1 ==
  Leading(Noting(Receive("aes_master", AES_BLOCK_SIZE), "order"), "obey")
  \o Noting(Receive("aes_master", AES_BLOCK_SIZE), "one less")
  \o Leading(Send("aes_master", AES_BLOCK_SIZE), "another")
aes_slave2 == aes_slave1
aes_slave3 == aes_slave1
aes_slave4 == aes_slave1
aes_slave5 == aes_slave1
aes_slave6 == aes_slave1
aes_slave7 == aes_slave1
aes_slave8 == aes_slave1

aes ==
  [aes_master |-> aes_master, aes_slave1 |-> aes_slave1, aes_slave2 |-> aes_slave2, aes_slave3 |-> aes_slave3,
   aes_slave4 |-> aes_slave4, aes_slave5 |-> aes_slave5, aes_slave6 |-> aes_slave6, aes_slave7 |-> aes_slave7,
   aes_slave8 |-> aes_slave8]

aes_rt_master == aes_master
aes_rt_slave1 == RealTime \o aes_slave1
aes_rt_slave2 == RealTime \o aes_slave2
aes_rt_slave3 == RealTime \o aes_slave3
aes_rt_slave4 == RealTime \o aes_slave4
aes_rt_slave5 == RealTime \o aes_slave5
aes_rt_slave6 == RealTime \o aes_slave6
aes_rt_slave7 == RealTime \o aes_slave7
aes_rt_slave8 == RealTime \o aes_slave8

aes_rt ==
  [aes_master |-> aes_rt_master, aes_slave1 |-> aes_rt_slave1, aes_slave2 |-> aes_rt_slave2,
   aes_slave3 |-> aes_rt_slave3, aes_slave4 |-> aes_rt_slave4, aes_slave5 |-> aes_rt_slave5,
   aes_slave6 |-> aes_rt_slave6, aes_slave7 |-> aes_rt_slave7, aes_slave8 |-> aes_rt_slave8]

-----------------------------------------------------------------------------
PATTERN_PER_TASK == 20
SIZE == 11
P == <<"p1", "p2", "p3", "p4">>

dtw_bank == Repeat(PATTERN_PER_TASK, ToEach(P, Words(SIZE * SIZE)))
dtw_p1 ==
  Receive("recognizer", Words(SIZE * SIZE))
  \o Repeat(PATTERN_PER_TASK, Receive("bank", Words(SIZE * SIZE)) \o Send("recognizer", Words(1)))
dtw_p2 == dtw_p1
dtw_p3 == dtw_p1
dtw_p4 == dtw_p1
dtw_recognizer == ToEach(P, Words(SIZE * SIZE)) \o Repeat(PATTERN_PER_TASK, FromEach(P, Words(1)))

dtw ==
  [bank |-> dtw_bank, p1 |-> dtw_p1, p2 |-> dtw_p2, p3 |-> dtw_p3, p4 |-> dtw_p4, recognizer |-> dtw_recognizer]

dtw_rt_bank == dtw_bank
dtw_rt_p1 == RealTime \o dtw_p1
dtw_rt_p2 == RealTime \o dtw_p2
dtw_rt_p3 == RealTime \o dtw_p3
dtw_rt_p4 == RealTime \o dtw_p4
dtw_rt_recognizer == dtw_recognizer

dtw_rt ==
  [bank |-> dtw_rt_bank, p1 |-> dtw_rt_p1, p2 |-> dtw_rt_p2, p3 |-> dtw_rt_p3, p4 |-> dtw_rt_p4,
   recognizer |-> dtw_rt_recognizer]

-----------------------------------------------------------------------------
NUMBER_OF_TASKS == 8
div_number == 1024 \div NUMBER_OF_TASKS

worker == <<"worker01", "worker02", "worker03", "worker04", "worker05", "worker06", "worker07">>

\* A sum is the list of the slices that are added in it; a task adds what it receives to its own.
Add(from, bytes) == Noting(Receive(from, bytes), "add")
Total(to) == Noting(Send(to, Words(1)), "tell the sum")

\* What words of the heap that no message wrote add to a sum: an unknown number.
UNWRITTEN == 0

\* The master takes a word into a buffer of div_number words, and adds all words of it.
AddAll(from, bytes) == Noting(Receive(from, bytes), "add all")

\* The master keeps the last slice; it has room for a pointer's bytes of an answer.
map_reduce_master ==
  FlattenSeq([slice \in 1..(NUMBER_OF_TASKS - 1) |-> Tell(worker[slice], Words(div_number), <<slice>>)])
  \o AddAll("worker01", 4) \o AddAll("worker02", 4) \o AddAll("worker04", 4)
map_reduce_worker01 == Add("master", Words(256)) \o Total("master")
map_reduce_worker02 == Add("master", Words(256)) \o Add("worker03", Words(1)) \o Total("master")
map_reduce_worker03 == Add("master", Words(256)) \o Total("worker02")
map_reduce_worker04 ==
  Add("master", Words(256)) \o Add("worker05", Words(1)) \o Add("worker06", Words(1)) \o Total("master")
map_reduce_worker05 == Add("master", Words(256)) \o Total("worker04")
map_reduce_worker06 == Add("master", Words(256)) \o Add("worker07", Words(1)) \o Total("worker04")
map_reduce_worker07 == Add("master", Words(256)) \o Total("worker06")

map_reduce ==
  [master |-> map_reduce_master, worker01 |-> map_reduce_worker01, worker02 |-> map_reduce_worker02,
   worker03 |-> map_reduce_worker03, worker04 |-> map_reduce_worker04, worker05 |-> map_reduce_worker05,
   worker06 |-> map_reduce_worker06, worker07 |-> map_reduce_worker07]

-----------------------------------------------------------------------------
MAXPROCESSORS == 64
MSG_SIZE == Words(Len(nodes_tasks))
Workers == <<"dijkstra_0", "dijkstra_1", "dijkstra_2", "dijkstra_3", "dijkstra_4">>

\* The pairs, the division of their list, and the graph, by columns.
dijkstra_divider ==
  Repeat(2, ToEach(Workers, MSG_SIZE)) \o Repeat(2, ToEach(Workers, Words(MAXPROCESSORS)))
  \o Repeat(NUM_NODES, ToEach(Workers, Words(NUM_NODES)))

Graph ==
  Repeat(2, Receive("divider", MSG_SIZE)) \o Repeat(2, Receive("divider", Words(MAXPROCESSORS)))
  \o Repeat(NUM_NODES, Receive("divider", Words(NUM_NODES)))

\* What the worker of a rank answers; one whose search catches too few nodes goes on for ever.
Results(rank) ==
  LET mine == SubSeq(nodes_tasks, divide_task_group(rank)[1] + 1, divide_task_group(rank)[2])
      Result(pair) ==
        IF Search[pair[1]].count = NUM_NODES - 1
          THEN Tell("print", Words(33), sendResult(pair[1], pair[2]))
          ELSE Call("search", "nobody", 0, <<>>, "nothing", "next")
  IN  FlattenSeq([k \in 1..Len(mine) |-> Result(mine[k])]) \o Tell("print", Words(33), <<-1>>)

\* Every worker has the rank 0.
dijkstra_0 == Graph \o Results(0)
dijkstra_1 == Graph \o Results(0)
dijkstra_2 == Graph \o Results(0)
dijkstra_3 == Graph \o Results(0)
dijkstra_4 == Graph \o Results(0)

\* One result of every worker in turn, until all have said that they end.
dijkstra_print ==
  LET round == FlattenSeq([i \in 1..NPROC |-> Noting(Receive(Workers[i], Words(33)), "result")])
  IN  SubSeq(round, 1, NPROC - 1) \o Leading(<<round[NPROC]>>, "until all ended")

dijkstra ==
  [divider |-> dijkstra_divider, dijkstra_0 |-> dijkstra_0, dijkstra_1 |-> dijkstra_1, dijkstra_2 |-> dijkstra_2,
   dijkstra_3 |-> dijkstra_3, dijkstra_4 |-> dijkstra_4, print |-> dijkstra_print]

dijkstra_rt_divider == dijkstra_divider
dijkstra_rt_0 == Graph \o RealTime \o Results(0)
dijkstra_rt_1 == Graph \o RealTime \o Results(0)
dijkstra_rt_2 == Graph \o RealTime \o Results(0)
dijkstra_rt_3 == Graph \o RealTime \o Results(0)
dijkstra_rt_4 == Graph \o RealTime \o Results(0)
dijkstra_rt_print == dijkstra_print

dijkstra_rt ==
  [divider |-> dijkstra_rt_divider, dijkstra_0 |-> dijkstra_rt_0, dijkstra_1 |-> dijkstra_rt_1,
   dijkstra_2 |-> dijkstra_rt_2, dijkstra_3 |-> dijkstra_rt_3, dijkstra_4 |-> dijkstra_rt_4,
   print |-> dijkstra_rt_print]
=============================================================================
