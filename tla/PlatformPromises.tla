-------------------------- MODULE PlatformPromises --------------------------
(***************************************************************************)
(* Theorems about the platform as a whole: what the processing elements,   *)
(* the injectors and the network keep together.                            *)
(***************************************************************************)
EXTENDS PlatformProofs

-----------------------------------------------------------------------------
(* The memory.                                                             *)

\* The memory after the port and the processor have written to it.
AfterWrites(m, m2, port, store) ==
  /\ DOMAIN m2 = 0 .. RAM_SIZE - 1
  /\ \A a \in 0 .. RAM_SIZE - 1 :
       m2[a] = IF a \in DOMAIN store THEN store[a] ELSE IF port.we /\ port.address = a THEN port.data ELSE m[a]

LEMMA AfterWritesIs ==
  ASSUME NEW m, DOMAIN m = 0 .. RAM_SIZE - 1, NEW port, NEW store
  PROVE  LET w == write_b(m, port)
         IN  AfterWrites(m, [a \in DOMAIN w |-> IF a \in DOMAIN store THEN store[a] ELSE w[a]], port, store)
<1> DEFINE w == write_b(m, port)
           all == 0 .. RAM_SIZE - 1
           x == port.address
           d == port.data
           m2 == [a \in DOMAIN w |-> IF a \in DOMAIN store THEN store[a] ELSE w[a]]
<1>1. DOMAIN w = all /\ \A a \in all : w[a] = IF port.we /\ x = a THEN d ELSE m[a]
  <2>1. CASE port.we /\ x \in all
    <3>1. w = [m EXCEPT ![x] = d]
      BY <2>1 DEF write_b, InRam
    <3> HIDE DEF w, all, x, d
    <3>2. DOMAIN m = all
      BY DEF all
    <3> QED
      BY <2>1, <3>1, <3>2
  <2>2. CASE ~(port.we /\ x \in all)
    <3>1. w = m
      BY <2>2 DEF write_b, InRam
    <3> HIDE DEF w
    <3> QED
      BY <2>2, <3>1
  <2> QED
    BY <2>1, <2>2
<1> HIDE DEF w, all, x, d
<1>2. DOMAIN m2 = all /\ \A a \in all : m2[a] = IF a \in DOMAIN store THEN store[a] ELSE IF port.we /\ x = a THEN d ELSE m[a]
  BY <1>1
<1> HIDE DEF m2
<1>3. AfterWrites(m, m2, port, store)
  BY <1>2 DEF AfterWrites, all, x, d
<1> QED
  BY <1>3 DEF m2, w

LEMMA MemoryPlaces ==
  /\ OutHeader = 1 /\ OutBody = 1 + CONSTANT_PACKET_SIZE /\ InHeader = 1 + CONSTANT_PACKET_SIZE + BODY_SIZE
  /\ InBody = InHeader + CONSTANT_PACKET_SIZE /\ MonTable = InBody + BODY_SIZE
  /\ CONSTANT_PACKET_SIZE \in Nat /\ CONSTANT_PACKET_SIZE > 8 /\ BODY_SIZE \in Nat
  /\ RAM_SIZE \in Int /\ RAM_SIZE >= MonTable
<1>1. /\ OutHeader = 1 /\ OutBody = 1 + CONSTANT_PACKET_SIZE /\ InHeader = 1 + CONSTANT_PACKET_SIZE + BODY_SIZE
      /\ InBody = InHeader + CONSTANT_PACKET_SIZE /\ MonTable = InBody + BODY_SIZE
      /\ CONSTANT_PACKET_SIZE \in Nat /\ CONSTANT_PACKET_SIZE > 8 /\ BODY_SIZE \in Nat
  BY PlatformAssumption DEF OutHeader, OutBody, InHeader, InBody, MonTable
<1>2. XCnt * YCnt \in Nat /\ TASK_PER_PE \in Nat
  BY MeshAssumption, PlatformAssumption
<1>3. XCnt * YCnt * TASK_PER_PE \in Nat
  BY <1>2, SMT
<1>4. RAM_SIZE \in Int /\ RAM_SIZE >= MonTable
  BY <1>1, <1>3 DEF RAM_SIZE
<1> QED
  BY <1>1, <1>4

\* A packet that is being sent stays in the memory.
LEMMA KeepsPacket ==
  ASSUME NEW m, NEW m2, NEW port, AfterWrites(m, m2, port, <<>>),
         port.we => port.address \in Int /\ port.address >= InHeader,
         NEW p, Fits(p), InMemory(m, p)
  PROVE  InMemory(m2, p)
<1>1. p.size \in Nat /\ p.size + 2 <= CONSTANT_PACKET_SIZE + BODY_SIZE
  BY MemoryPlaces DEF Fits
<1>2. ASSUME NEW i \in 0 .. p.size + 1 PROVE m2[OutHeader + i] = <<p, i>>
  <2> DEFINE a == OutHeader + i
  <2>1. a \in 0 .. RAM_SIZE - 1 /\ a < InHeader /\ InHeader \in Int
    BY <1>1, MemoryPlaces
  <2> HIDE DEF a
  <2>2. ~(port.we /\ port.address = a)
    BY <2>1
  <2>3. m2[a] = m[a]
    BY <2>1, <2>2 DEF AfterWrites
  <2> QED
    BY <1>2, <2>3 DEF InMemory, a
<1> QED
  BY <1>2 DEF InMemory

\* A packet is in the memory when its transmission is programmed.
LEMMA StoresPacket ==
  ASSUME NEW m, NEW m2, NEW port, NEW p, Fits(p), AfterWrites(m, m2, port, Stored(p))
  PROVE  InMemory(m2, p)
<1>1. p.size \in Nat /\ p.size + 2 >= CONSTANT_PACKET_SIZE /\ p.size + 2 <= CONSTANT_PACKET_SIZE + BODY_SIZE
  BY MemoryPlaces DEF Fits
<1>2. ASSUME NEW i \in 0 .. p.size + 1 PROVE m2[OutHeader + i] = <<p, i>>
  <2> DEFINE a == OutHeader + i
             D == OutHeader .. OutBody - 1 \cup OutBody .. OutBody + p.size + 1 - CONSTANT_PACKET_SIZE
  <2>1. a \in 0 .. RAM_SIZE - 1 /\ a - OutHeader = i /\ a \in D
    BY <1>1, MemoryPlaces
  <2> HIDE DEF a, D
  <2>2. Stored(p) = [x \in D |-> Flits(p)[x - OutHeader + 1]]
    BY DEF Stored, D
  <2>3. a \in DOMAIN Stored(p) /\ Stored(p)[a] = Flits(p)[a - OutHeader + 1]
    BY <2>1, <2>2
  <2>4. a - OutHeader + 1 = i + 1
    BY <2>1
  <2>5. Flits(p)[i + 1] = <<p, i>>
    BY <1>1 DEF Flits
  <2>6. m2[a] = <<p, i>>
    BY <2>1, <2>3, <2>4, <2>5 DEF AfterWrites
  <2> QED
    BY <2>6 DEF a
<1> QED
  BY <1>2 DEF InMemory

LEMMA StoredBelow ==
  ASSUME NEW p, Fits(p), NEW a \in DOMAIN Stored(p)
  PROVE  a \in Int /\ a < InHeader
<1> DEFINE D == OutHeader .. OutBody - 1 \cup OutBody .. OutBody + p.size + 1 - CONSTANT_PACKET_SIZE
<1>1. p.size \in Nat /\ p.size + 2 >= CONSTANT_PACKET_SIZE /\ p.size + 2 <= CONSTANT_PACKET_SIZE + BODY_SIZE
  BY MemoryPlaces DEF Fits
<1>2. DOMAIN Stored(p) = D
  <2> HIDE DEF D
  <2>1. Stored(p) = [x \in D |-> Flits(p)[x - OutHeader + 1]]
    BY DEF Stored, D
  <2> QED
    BY <2>1
<1> QED
  BY <1>1, <1>2, MemoryPlaces

\* The words that have been taken from the buffer get to the memory and stay there.
LEMMA KeepsReceived ==
  ASSUME NEW P, AllFit(P), NEW q, IsFlit(q.noc_data_write, P), NEW m, Received(q, m),
         NEW m2, NEW port, NEW store, AfterWrites(m, m2, port, store),
         \A a \in DOMAIN store : a \in Int /\ a < InHeader,
         port.we => \/ port.address \in Int /\ port.address >= MonTable
                    \/ port.address = InHeader + q.noc_data_write[2] /\ port.data = q.noc_data_write,
         q.noc_we => port.we /\ port.address = InHeader + q.noc_data_write[2] /\ port.data = q.noc_data_write
  PROVE  Delivered(q.noc_data_write, m2)
<1> DEFINE w == q.noc_data_write
<1>1. w = <<w[1], w[2]>> /\ w[1] \in P /\ w[2] \in Nat /\ w[2] <= w[1].size + 1 /\ w[1].size \in Nat
      /\ w[1].size + 2 <= CONSTANT_PACKET_SIZE + BODY_SIZE
  BY FitPackets, FlitIs
<1>2. ASSUME NEW i \in 0 .. w[2] PROVE m2[InHeader + i] = <<w[1], i>>
  <2> DEFINE a == InHeader + i
  <2>1. (i = w[2] /\ q.noc_we) \/ m[a] = <<w[1], i>>
    BY DEF Received
  <2>2. port.we => \/ port.address \in Int /\ port.address >= MonTable
                   \/ port.address = InHeader + w[2] /\ port.data = w
    OBVIOUS
  <2>3. q.noc_we => port.we /\ port.address = InHeader + w[2] /\ port.data = w
    OBVIOUS
  <2> HIDE DEF w
  <2>4. a \in 0 .. RAM_SIZE - 1 /\ a < MonTable /\ MonTable \in Int /\ InHeader \in Int /\ a >= InHeader /\ i \in Nat
        /\ (a = InHeader + w[2] <=> i = w[2])
    BY <1>1, MemoryPlaces
  <2> HIDE DEF a
  <2>5. a \notin DOMAIN store
    BY <2>4
  <2>6. m2[a] = IF port.we /\ port.address = a THEN port.data ELSE m[a]
    BY <2>4, <2>5 DEF AfterWrites
  <2>7. CASE port.we /\ port.address = a
    <3>1. i = w[2] /\ port.data = w
      BY <2>2, <2>4, <2>7
    <3> QED
      BY <1>1, <2>6, <2>7, <3>1 DEF a
  <2>8. CASE ~(port.we /\ port.address = a)
    <3>1. ~(i = w[2] /\ q.noc_we)
      BY <2>3, <2>4, <2>8
    <3> QED
      BY <2>1, <2>6, <2>8, <3>1 DEF a
  <2> QED
    BY <2>7, <2>8
<1> QED
  BY <1>2 DEF Delivered

-----------------------------------------------------------------------------
(* The registers of the interface.                                         *)

LEMMA ConfigFields ==
  ASSUME NEW c, ConfigRecord(c), NEW cmd
  PROVE  LET d == config(c, cmd)
         IN  /\ ConfigRecord(d)
             /\ d.address = IF cmd.set = "address" THEN cmd.data ELSE c.address
             /\ d.address_2 = IF cmd.set = "address" THEN 0 ELSE IF cmd.set = "address_2" THEN cmd.data ELSE c.address_2
             /\ d.size = IF cmd.set = "size" THEN cmd.data ELSE c.size
             /\ d.size_2 = IF cmd.set = "size" THEN 0 ELSE IF cmd.set = "size_2" THEN cmd.data ELSE c.size_2
             /\ d.operation = IF cmd.set = "op" THEN cmd.data ELSE c.operation
<1> DEFINE d == config(c, cmd)
           v == cmd.data
<1>1. CASE cmd.set = "address"
  <2>1. d = [c EXCEPT !.address = v, !.address_2 = 0]
    BY <1>1 DEF config, Tables
  <2> HIDE DEF d, v
  <2>2. /\ ConfigRecord(d) /\ d.address = v /\ d.address_2 = 0 /\ d.size = c.size /\ d.size_2 = c.size_2
        /\ d.operation = c.operation
    BY <2>1 DEF ConfigRecord
  <2> QED
    BY <1>1, <2>2 DEF d, v
<1>2. CASE cmd.set = "address_2"
  <2>1. d = [c EXCEPT !.address_2 = v]
    BY <1>2 DEF config, Tables
  <2> HIDE DEF d, v
  <2>2. /\ ConfigRecord(d) /\ d.address = c.address /\ d.address_2 = v /\ d.size = c.size /\ d.size_2 = c.size_2
        /\ d.operation = c.operation
    BY <2>1 DEF ConfigRecord
  <2> QED
    BY <1>2, <2>2 DEF d, v
<1>3. CASE cmd.set = "size"
  <2>1. d = [c EXCEPT !.size = v, !.size_2 = 0]
    BY <1>3 DEF config, Tables
  <2> HIDE DEF d, v
  <2>2. /\ ConfigRecord(d) /\ d.address = c.address /\ d.address_2 = c.address_2 /\ d.size = v /\ d.size_2 = 0
        /\ d.operation = c.operation
    BY <2>1 DEF ConfigRecord
  <2> QED
    BY <1>3, <2>2 DEF d, v
<1>4. CASE cmd.set = "size_2"
  <2>1. d = [c EXCEPT !.size_2 = v]
    BY <1>4 DEF config, Tables
  <2> HIDE DEF d, v
  <2>2. /\ ConfigRecord(d) /\ d.address = c.address /\ d.address_2 = c.address_2 /\ d.size = c.size /\ d.size_2 = v
        /\ d.operation = c.operation
    BY <2>1 DEF ConfigRecord
  <2> QED
    BY <1>4, <2>2 DEF d, v
<1>5. CASE cmd.set = "op"
  <2>1. d = [c EXCEPT !.operation = v]
    BY <1>5 DEF config, Tables
  <2> HIDE DEF d, v
  <2>2. /\ ConfigRecord(d) /\ d.address = c.address /\ d.address_2 = c.address_2 /\ d.size = c.size /\ d.size_2 = c.size_2
        /\ d.operation = v
    BY <2>1 DEF ConfigRecord
  <2> QED
    BY <1>5, <2>2 DEF d, v
<1>6. CASE cmd.set \in Tables
  <2> DEFINE p == [c.monitor_ptrs EXCEPT ![cmd.set] = v]
  <2>1. d = [c EXCEPT !.monitor_ptrs = p]
    BY <1>6 DEF config, Tables
  <2> HIDE DEF d, v, p
  <2>2. /\ ConfigRecord(d) /\ d.address = c.address /\ d.address_2 = c.address_2 /\ d.size = c.size /\ d.size_2 = c.size_2
        /\ d.operation = c.operation
    BY <2>1 DEF ConfigRecord
  <2> QED
    BY <1>6, <2>2 DEF d, v, Tables
<1>7. CASE cmd.set \notin {"address", "address_2", "size", "size_2", "op"} \cup Tables
  <2>1. d = c
    BY <1>7 DEF config
  <2> HIDE DEF d
  <2> QED
    BY <1>7, <2>1 DEF d
<1> QED
  BY <1>1, <1>2, <1>3, <1>4, <1>5, <1>6, <1>7

\* A kernel that has written the first command of a program goes on with it.
LEMMA ProgramStep ==
  ASSUME NEW S, NEW t \in Seq(S), t # <<>>, NEW C, NEW commands \in Seq(C), IsProgram(t, commands)
  PROVE  /\ IsProgram(Tail(t), commands) /\ Len(Tail(t)) = Len(t) - 1 /\ Len(t) \in Nat /\ Len(t) >= 1
         /\ IF Len(t) <= Len(commands) THEN Head(t) = commands[Len(commands) - Len(t) + 1] ELSE Quiet(Head(t))
<1> DEFINE n == Len(commands)
<1>1. Len(t) \in Nat /\ Len(t) >= 1 /\ n \in Nat /\ Len(Tail(t)) = Len(t) - 1 /\ Head(t) = t[1]
      /\ DOMAIN t = 1 .. Len(t) /\ DOMAIN Tail(t) = 1 .. Len(t) - 1
      /\ \A i \in DOMAIN Tail(t) : Tail(t)[i] = t[i + 1]
  OBVIOUS
<1>2. \A i \in DOMAIN t : IF Len(t) - i < n THEN t[i] = commands[n - (Len(t) - i)] ELSE Quiet(t[i])
  BY DEF IsProgram
<1>3. ASSUME NEW i \in DOMAIN Tail(t)
      PROVE  IF Len(Tail(t)) - i < n THEN Tail(t)[i] = commands[n - (Len(Tail(t)) - i)] ELSE Quiet(Tail(t)[i])
  <2>1. i + 1 \in DOMAIN t /\ Len(Tail(t)) - i = Len(t) - (i + 1) /\ Tail(t)[i] = t[i + 1]
    BY <1>1
  <2> HIDE DEF n
  <2> QED
    BY <1>2, <2>1
<1>4. IsProgram(Tail(t), commands)
  BY <1>3 DEF IsProgram
<1>5. IF Len(t) <= n THEN Head(t) = commands[n - Len(t) + 1] ELSE Quiet(Head(t))
  <2>1. 1 \in DOMAIN t
    BY <1>1
  <2> HIDE DEF n
  <2>2. IF Len(t) - 1 < n THEN t[1] = commands[n - (Len(t) - 1)] ELSE Quiet(t[1])
    BY <1>2, <2>1
  <2>3. Len(t) <= n <=> Len(t) - 1 < n
    BY <1>1
  <2>4. n - (Len(t) - 1) = n - Len(t) + 1
    BY <1>1
  <2> QED
    BY <1>1, <2>2, <2>3, <2>4
<1> QED
  BY <1>1, <1>4, <1>5

LEMMA ReceiveProgram ==
  ASSUME NEW t, t \in Seq(Range(t)), t # <<>>, NEW c, ConfigRecord(c), NEW address, NEW size,
         Programs(c, t, address, size)
  PROVE  /\ Programs(config(c, Head(t)), Tail(t), address, size)
         /\ Head(t).set = "start" <=> Tail(t) = <<>>
         /\ Head(t).set = "start" => c.address = address /\ c.size = size /\ c.operation = 1
<1> DEFINE commands == ReceiveCommands(address, size)
           h == Head(t)
           u == Tail(t)
           d == config(c, h)
           n == Len(t)
<1>1. /\ commands \in Seq(Range(commands)) /\ Len(commands) = 4
      /\ commands[1] = Set("address", address) /\ commands[2] = Set("size", size)
      /\ commands[3] = Set("op", 1) /\ commands[4] = Set("start", 0)
  BY DEF ReceiveCommands, Range
<1>2. IsProgram(t, commands) /\ (n <= 3 => c.address = address) /\ (n <= 2 => c.size = size) /\ (n <= 1 => c.operation = 1)
  BY DEF Programs
<1>3. /\ IsProgram(u, commands) /\ Len(u) = n - 1 /\ n \in Nat /\ n >= 1
      /\ IF n <= 4 THEN h = commands[4 - n + 1] ELSE Quiet(h)
  <2> HIDE DEF commands
  <2> QED
    BY <1>1, <1>2, ProgramStep
<1>4. /\ d.address = (IF h.set = "address" THEN h.data ELSE c.address)
      /\ d.size = (IF h.set = "size" THEN h.data ELSE c.size)
      /\ d.operation = (IF h.set = "op" THEN h.data ELSE c.operation)
  <2> HIDE DEF d
  <2> QED
    BY ConfigFields DEF d
<1>5. u = <<>> <=> n = 1
  <2>1. u \in Seq(Range(t)) /\ Len(u) = n - 1 /\ n \in Nat
    BY <1>3
  <2> HIDE DEF u, n
  <2> QED
    BY <2>1
<1> HIDE DEF commands, h, u, d, n
<1>6. /\ n > 4 => h.set \notin {"address", "size", "op", "start"}
      /\ n = 4 => h.set = "address" /\ h.data = address
      /\ n = 3 => h.set = "size" /\ h.data = size
      /\ n = 2 => h.set = "op" /\ h.data = 1
      /\ n = 1 => h.set = "start"
  <2>1. n > 4 => h.set \notin {"address", "size", "op", "start"}
    BY <1>3 DEF Quiet
  <2>2. (n = 4 => h = commands[1]) /\ (n = 3 => h = commands[2]) /\ (n = 2 => h = commands[3]) /\ (n = 1 => h = commands[4])
    BY <1>3
  <2> QED
    BY <1>1, <2>1, <2>2 DEF Set
<1>7. n = 1 \/ n = 2 \/ n = 3 \/ n = 4 \/ n > 4
  BY <1>3
<1>8. (Len(u) <= 3 => d.address = address) /\ (Len(u) <= 2 => d.size = size) /\ (Len(u) <= 1 => d.operation = 1)
  BY <1>2, <1>3, <1>4, <1>6, <1>7
<1>9. Programs(d, u, address, size)
  BY <1>3, <1>8 DEF Programs, commands
<1>10. h.set = "start" <=> n = 1
  BY <1>6, <1>7
<1>11. n = 1 => c.address = address /\ c.size = size /\ c.operation = 1
  BY <1>2
<1> QED
  BY <1>5, <1>9, <1>10, <1>11 DEF h, u, d, n

LEMMA SendProgram ==
  ASSUME NEW t, t \in Seq(Range(t)), t # <<>>, NEW c, ConfigRecord(c), NEW p, ProgramsSend(c, t, p)
  PROVE  /\ ProgramsSend(config(c, Head(t)), Tail(t), p)
         /\ Head(t).set = "start" <=> Tail(t) = <<>>
         /\ Head(t).set = "start" => StartsPacket(c, p) /\ c.operation = 0
<1> DEFINE commands == SendCommands(p)
           h == Head(t)
           u == Tail(t)
           d == config(c, h)
           n == Len(t)
           rest == p.size + 2 - CONSTANT_PACKET_SIZE
<1>1. /\ commands \in Seq(Range(commands)) /\ Len(commands) = 6
      /\ commands[1] = Set("address", OutHeader) /\ commands[2] = Set("size", CONSTANT_PACKET_SIZE)
      /\ commands[3] = Set("address_2", OutBody) /\ commands[4] = Set("size_2", rest)
      /\ commands[5] = Set("op", 0) /\ commands[6] = Set("start", 0)
  BY DEF SendCommands, Range
<1>2. /\ IsProgram(t, commands) /\ (n <= 5 => c.address = OutHeader) /\ (n <= 4 => c.size = CONSTANT_PACKET_SIZE)
      /\ (n <= 3 => c.address_2 = OutBody) /\ (n <= 2 => c.size_2 = rest) /\ (n <= 1 => c.operation = 0)
  BY DEF ProgramsSend
<1>3. /\ IsProgram(u, commands) /\ Len(u) = n - 1 /\ n \in Nat /\ n >= 1
      /\ IF n <= 6 THEN h = commands[6 - n + 1] ELSE Quiet(h)
  <2> HIDE DEF commands, rest
  <2> QED
    BY <1>1, <1>2, ProgramStep
<1>4. /\ d.address = (IF h.set = "address" THEN h.data ELSE c.address)
      /\ d.address_2 = (IF h.set = "address" THEN 0 ELSE IF h.set = "address_2" THEN h.data ELSE c.address_2)
      /\ d.size = (IF h.set = "size" THEN h.data ELSE c.size)
      /\ d.size_2 = (IF h.set = "size" THEN 0 ELSE IF h.set = "size_2" THEN h.data ELSE c.size_2)
      /\ d.operation = (IF h.set = "op" THEN h.data ELSE c.operation)
  <2> HIDE DEF d
  <2> QED
    BY ConfigFields DEF d
<1>5. u = <<>> <=> n = 1
  <2>1. u \in Seq(Range(t)) /\ Len(u) = n - 1 /\ n \in Nat
    BY <1>3
  <2> HIDE DEF u, n
  <2> QED
    BY <2>1
<1> HIDE DEF commands, h, u, d, n, rest
<1>6. /\ n > 6 => h.set \notin {"address", "size", "address_2", "size_2", "op", "start"}
      /\ n = 6 => h.set = "address" /\ h.data = OutHeader
      /\ n = 5 => h.set = "size" /\ h.data = CONSTANT_PACKET_SIZE
      /\ n = 4 => h.set = "address_2" /\ h.data = OutBody
      /\ n = 3 => h.set = "size_2" /\ h.data = rest
      /\ n = 2 => h.set = "op" /\ h.data = 0
      /\ n = 1 => h.set = "start"
  <2>1. n > 6 => h.set \notin {"address", "size", "address_2", "size_2", "op", "start"}
    BY <1>3 DEF Quiet
  <2>2. /\ (n = 6 => h = commands[1]) /\ (n = 5 => h = commands[2]) /\ (n = 4 => h = commands[3])
        /\ (n = 3 => h = commands[4]) /\ (n = 2 => h = commands[5]) /\ (n = 1 => h = commands[6])
    BY <1>3
  <2> QED
    BY <1>1, <2>1, <2>2 DEF Set
<1>7. n = 1 \/ n = 2 \/ n = 3 \/ n = 4 \/ n = 5 \/ n = 6 \/ n > 6
  BY <1>3
<1>8. /\ (Len(u) <= 5 => d.address = OutHeader) /\ (Len(u) <= 4 => d.size = CONSTANT_PACKET_SIZE)
      /\ (Len(u) <= 3 => d.address_2 = OutBody) /\ (Len(u) <= 2 => d.size_2 = rest) /\ (Len(u) <= 1 => d.operation = 0)
  BY <1>2, <1>3, <1>4, <1>6, <1>7
<1>9. ProgramsSend(d, u, p)
  BY <1>3, <1>8 DEF ProgramsSend, commands, rest
<1>10. h.set = "start" <=> n = 1
  BY <1>6, <1>7
<1>11. n = 1 => StartsPacket(c, p) /\ c.operation = 0
  BY <1>2 DEF StartsPacket, rest
<1> QED
  BY <1>5, <1>9, <1>10, <1>11 DEF h, u, d, n

\* Programs begin as they are written, after commands that change no transfer.
LEMMA JoinProgram ==
  ASSUME NEW S, NEW s \in Seq(S), AllQuiet(s), NEW C, NEW commands \in Seq(C)
  PROVE  IsProgram(s \o commands, commands) /\ Len(s \o commands) >= Len(commands)
<1> DEFINE t == s \o commands
           n == Len(commands)
<1>1. n \in Nat /\ Len(s) \in Nat /\ Len(t) = Len(s) + n /\ DOMAIN t = 1 .. Len(t) /\ DOMAIN s = 1 .. Len(s)
      /\ \A i \in DOMAIN t : t[i] = IF i <= Len(s) THEN s[i] ELSE commands[i - Len(s)]
  OBVIOUS
<1> HIDE DEF t, n
<1>2. ASSUME NEW i \in DOMAIN t
      PROVE  IF Len(t) - i < n THEN t[i] = commands[n - (Len(t) - i)] ELSE Quiet(t[i])
  <2>1. CASE i <= Len(s)
    <3>1. i \in DOMAIN s /\ ~(Len(t) - i < n)
      BY <1>1, <2>1
    <3> QED
      BY <1>1, <2>1, <3>1 DEF AllQuiet
  <2>2. CASE ~(i <= Len(s))
    <3>1. Len(t) - i < n /\ n - (Len(t) - i) = i - Len(s)
      BY <1>1, <2>2
    <3> QED
      BY <1>1, <2>2, <3>1
  <2> QED
    BY <2>1, <2>2
<1>3. IsProgram(t, commands)
  BY <1>2 DEF IsProgram, n
<1> QED
  BY <1>1, <1>3 DEF t, n

-----------------------------------------------------------------------------
\* What a cycle makes of the memory, as far as packets are concerned.
KeepsSent(m, m2, P) == \A p \in P : InMemory(m, p) => InMemory(m2, p)
KeepsTaken(q, m, m2, Q) == IsFlit(q.noc_data_write, Q) /\ Received(q, m) => Delivered(q.noc_data_write, m2)

Opening(h, c) == h.set = "start" /\ c.operation = 1
Command(t) == IF t = <<>> THEN NoCommand ELSE Head(t)

LEMMA TailQuiet ==
  ASSUME NEW S, NEW t \in Seq(S), t # <<>>, AllQuiet(t)
  PROVE  AllQuiet(Tail(t)) /\ Quiet(Head(t))
BY DEF AllQuiet

\* A kernel that waits for no packet.
LEMMA RestsOn ==
  ASSUME NEW P, NEW t, t \in Seq(Range(t)), NEW c, ConfigRecord(c), NEW q, NEW s, NEW m, RestsInv(t, c, q, s, m, P)
  PROVE  LET h == Command(t)
         IN  /\ ~Opening(h, c)
             /\ Starting(s, c, h) => \E p \in P : InMemory(m, p) /\ StartsPacket(c, p)
             /\ t # <<>> =>
                  \A u, s2, m2 :
                    /\ StillWaits(q, u) /\ KeepsSent(m, m2, P)
                    /\ s.DMNI_Send = "WAIT" /\ ~Starting(s, c, h) => s2.DMNI_Send = "WAIT"
                    => RestsInv(Tail(t), config(c, h), u, s2, m2, P)
<1> DEFINE h == Command(t)
           d == config(c, h)
<1>1. q.DMNI_Receive = "WAIT" /\ Ends(q.noc_data_write)
  BY DEF RestsInv
<1>2. ASSUME NEW u, StillWaits(q, u) PROVE u.DMNI_Receive = "WAIT" /\ Ends(u.noc_data_write)
  BY <1>1, <1>2 DEF StillWaits, SameWord
<1>3. CASE t = <<>>
  BY <1>3 DEF Command, NoCommand, Opening, Starting
<1>4. CASE t # <<>> /\ AllQuiet(t)
  <2>1. AllQuiet(Tail(t)) /\ Quiet(h)
    BY <1>4, TailQuiet DEF Command
  <2>2. h.set # "start"
    BY <2>1 DEF Quiet
  <2> HIDE DEF h, d
  <2>3. ASSUME NEW u, NEW s2, NEW m2, StillWaits(q, u) PROVE RestsInv(Tail(t), d, u, s2, m2, P)
    BY <1>2, <2>1, <2>3 DEF RestsInv
  <2> QED
    BY <2>2, <2>3 DEF Opening, Starting, h, d
<1>5. CASE t # <<>> /\ s.DMNI_Send = "WAIT" /\ \E p \in P : InMemory(m, p) /\ ProgramsSend(c, t, p)
  <2>1. PICK p \in P : InMemory(m, p) /\ ProgramsSend(c, t, p)
    BY <1>5
  <2>2. h = Head(t)
    BY <1>5 DEF Command
  <2>3. /\ ProgramsSend(d, Tail(t), p)
        /\ h.set = "start" <=> Tail(t) = <<>>
        /\ h.set = "start" => StartsPacket(c, p) /\ c.operation = 0
    BY <1>5, <2>1, <2>2, SendProgram
  <2> HIDE DEF h, d
  <2>4. ASSUME NEW u, NEW s2, NEW m2, StillWaits(q, u), KeepsSent(m, m2, P),
               s.DMNI_Send = "WAIT" /\ ~Starting(s, c, h) => s2.DMNI_Send = "WAIT"
        PROVE  RestsInv(Tail(t), d, u, s2, m2, P)
    <3>1. CASE h.set = "start"
      <4>1. AllQuiet(Tail(t))
        BY <2>3, <3>1 DEF AllQuiet
      <4> QED
        BY <1>2, <2>4, <4>1 DEF RestsInv
    <3>2. CASE h.set # "start"
      <4>1. s2.DMNI_Send = "WAIT" /\ InMemory(m2, p)
        BY <1>5, <2>1, <2>4, <3>2 DEF Starting, KeepsSent
      <4> QED
        BY <1>2, <2>3, <2>4, <4>1 DEF RestsInv
    <3> QED
      BY <3>1, <3>2
  <2>5. ~Opening(h, c)
    BY <2>3 DEF Opening
  <2>6. Starting(s, c, h) => InMemory(m, p) /\ StartsPacket(c, p)
    BY <2>1, <2>3 DEF Starting
  <2> QED
    BY <2>4, <2>5, <2>6 DEF h, d
<1> QED
  BY <1>3, <1>4, <1>5 DEF RestsInv

\* A kernel that waits for a header.
LEMMA HeaderOn ==
  ASSUME NEW P, AllFit(P), NEW t, t \in Seq(Range(t)), NEW c, ConfigRecord(c), NEW q, ~q.noc_we \/ q.DMNI_Receive # "WAIT",
         NEW m, HeaderInv(t, c, q, m, P), NEW s
  PROVE  LET h == Command(t)
         IN  /\ ~Starting(s, c, h)
             /\ \A u, m2, enable :
                  ReceivesAs(q, u, c, h.set = "start", enable, P) /\ KeepsTaken(q, m, m2, P) =>
                    HeaderInv(IF t = <<>> THEN t ELSE Tail(t), config(c, h), u, m2, P)
<1> DEFINE h == Command(t)
           d == config(c, h)
<1>1. CASE t = <<>>
  <2>1. h = NoCommand /\ h.set = "nothing"
    BY <1>1 DEF Command, NoCommand
  <2>2. HeaderBegins(q) \/ (Copying(q, P, CONSTANT_PACKET_SIZE) /\ Received(q, m))
    BY <1>1 DEF HeaderInv
  <2> HIDE DEF h, d
  <2>3. ASSUME NEW u, NEW m2, NEW enable, ReceivesAs(q, u, c, h.set = "start", enable, P), KeepsTaken(q, m, m2, P)
        PROVE  HeaderInv(t, d, u, m2, P)
    <3>1. ReceivesAs(q, u, c, FALSE, enable, P)
      <4>1. (h.set = "start") = FALSE
        BY <2>1
      <4> QED
        BY <2>3, <4>1
    <3>2. CASE HeaderBegins(q)
      <4>1. HeaderBegins(u) \/ (Copying(u, P, CONSTANT_PACKET_SIZE) /\ Received(u, m2))
        BY <3>1, <3>2, CopyBegins
      <4> QED
        BY <1>1, <4>1 DEF HeaderInv
    <3>3. CASE Copying(q, P, CONSTANT_PACKET_SIZE) /\ Received(q, m)
      <4>1. IsFlit(q.noc_data_write, P)
        BY <3>3 DEF Copying
      <4>2. q.noc_data_write[1] \in P
        BY <4>1 DEF IsFlit
      <4>3. CONSTANT_PACKET_SIZE \in Nat /\ CONSTANT_PACKET_SIZE <= q.noc_data_write[1].size + 2
        BY <4>2, FitPackets
      <4>4. Delivered(q.noc_data_write, m2)
        BY <2>3, <3>3, <4>1 DEF KeepsTaken
      <4>5. Copying(u, P, CONSTANT_PACKET_SIZE) /\ Received(u, m2)
        BY <3>1, <3>3, <4>3, <4>4, CopyOn
      <4> QED
        BY <1>1, <4>5 DEF HeaderInv
    <3> QED
      BY <2>2, <3>2, <3>3
  <2> QED
    BY <1>1, <2>1, <2>3 DEF h, d, Starting
<1>2. CASE t # <<>>
  <2>1. /\ q.DMNI_Receive = "WAIT" /\ Ends(q.noc_data_write) /\ read_av(q)
        /\ Programs(c, t, InHeader, CONSTANT_PACKET_SIZE)
    BY <1>2 DEF HeaderInv
  <2>2. h = Head(t)
    BY <1>2 DEF Command
  <2>3. /\ Programs(d, Tail(t), InHeader, CONSTANT_PACKET_SIZE)
        /\ h.set = "start" <=> Tail(t) = <<>>
        /\ h.set = "start" => c.address = InHeader /\ c.size = CONSTANT_PACKET_SIZE /\ c.operation = 1
    BY <1>2, <2>1, <2>2, ReceiveProgram
  <2> HIDE DEF h, d
  <2>4. ASSUME NEW u, NEW m2, NEW enable, ReceivesAs(q, u, c, h.set = "start", enable, P)
        PROVE  HeaderInv(Tail(t), d, u, m2, P)
    <3>1. CASE h.set = "start"
      <4>1. HasOpened(q, u, c)
        BY <2>1, <2>3, <2>4, <3>1 DEF ReceivesAs
      <4>2. InHeader # 0
        BY MemoryPlaces
      <4>3. HeaderBegins(u)
        BY <2>1, <2>3, <3>1, <4>1, <4>2 DEF HasOpened, SameWord, HeaderBegins
      <4> QED
        BY <2>3, <3>1, <4>3 DEF HeaderInv
    <3>2. CASE h.set # "start"
      <4>1. StillWaits(q, u)
        BY <2>1, <2>4, <3>2 DEF ReceivesAs
      <4>2. u.DMNI_Receive = "WAIT" /\ Ends(u.noc_data_write) /\ read_av(u)
        BY <2>1, <4>1 DEF StillWaits, SameWord
      <4> QED
        BY <2>3, <3>2, <4>2 DEF HeaderInv
    <3> QED
      BY <3>1, <3>2
  <2> QED
    BY <1>2, <2>3, <2>4 DEF h, d, Starting
<1> QED
  BY <1>1, <1>2

\* A kernel that waits for what follows.
LEMMA BodyOn ==
  ASSUME NEW P, AllFit(P), NEW t, t \in Seq(Range(t)), NEW c, ConfigRecord(c), NEW q, ~q.noc_we \/ q.DMNI_Receive # "WAIT",
         NEW m, BodyInv(t, c, q, m, P), NEW s
  PROVE  LET h == Command(t)
         IN  /\ ~Starting(s, c, h)
             /\ \A u, m2, enable :
                  ReceivesAs(q, u, c, h.set = "start", enable, P) /\ KeepsTaken(q, m, m2, P) =>
                    BodyInv(IF t = <<>> THEN t ELSE Tail(t), config(c, h), u, m2, P)
<1> DEFINE h == Command(t)
           d == config(c, h)
           w == q.noc_data_write
           words == w[1].size + 2
<1>1. IsFlit(w, P) /\ words > CONSTANT_PACKET_SIZE /\ Received(q, m)
  BY DEF BodyInv
<1>2. w[1] \in P /\ w[2] \in Nat /\ words \in Nat /\ w[1].size \in Nat /\ CONSTANT_PACKET_SIZE \in Nat
      /\ words <= w[1].size + 2
  <2>1. w[1] \in P /\ w[2] \in Nat
    BY <1>1 DEF IsFlit
  <2> HIDE DEF w
  <2> QED
    BY <2>1, FitPackets
<1>3. ASSUME NEW m2, KeepsTaken(q, m, m2, P) PROVE Delivered(w, m2)
  BY <1>1, <1>3 DEF KeepsTaken
<1>4. CASE t = <<>>
  <2>1. h = NoCommand /\ h.set = "nothing"
    BY <1>4 DEF Command, NoCommand
  <2>2. Copying(q, P, words) /\ w[2] >= CONSTANT_PACKET_SIZE - 1
    BY <1>4 DEF BodyInv
  <2> HIDE DEF h, d
  <2>3. ASSUME NEW u, NEW m2, NEW enable, ReceivesAs(q, u, c, h.set = "start", enable, P), KeepsTaken(q, m, m2, P)
        PROVE  BodyInv(t, d, u, m2, P)
    <3>1. ReceivesAs(q, u, c, FALSE, enable, P)
      <4>1. (h.set = "start") = FALSE
        BY <2>1
      <4> QED
        BY <2>3, <4>1
    <3> DEFINE v == u.noc_data_write
    <3>2. Delivered(w, m2)
      BY <1>3, <2>3
    <3>3. /\ Copying(u, P, words) /\ Received(u, m2) /\ v[1] = w[1] /\ v[2] >= w[2]
      <4>1. words \in Nat /\ words <= q.noc_data_write[1].size + 2
        BY <1>2
      <4>2. Copying(q, P, words)
        BY <2>2
      <4>3. Delivered(q.noc_data_write, m2)
        BY <3>2
      <4> HIDE DEF words
      <4> QED
        BY <3>1, <4>1, <4>2, <4>3, CopyOn
    <3>4. IsFlit(v, P)
      BY <3>3 DEF Copying
    <3>5. v[1].size + 2 = words /\ v[2] >= CONSTANT_PACKET_SIZE - 1
      <4>1. v[2] \in Nat
        BY <3>4 DEF IsFlit
      <4> HIDE DEF v, w
      <4> QED
        BY <1>2, <2>2, <3>3, <4>1
    <3> HIDE DEF v, w, words
    <3> QED
      BY <1>1, <1>4, <3>3, <3>4, <3>5 DEF BodyInv, v
  <2> QED
    BY <1>4, <2>1, <2>3 DEF h, d, Starting
<1>5. CASE t # <<>>
  <2>1. /\ q.DMNI_Receive = "WAIT" /\ w[2] = CONSTANT_PACKET_SIZE - 1
        /\ Programs(c, t, InBody, words - CONSTANT_PACKET_SIZE)
    BY <1>5 DEF BodyInv
  <2>2. h = Head(t)
    BY <1>5 DEF Command
  <2>3. /\ Programs(d, Tail(t), InBody, words - CONSTANT_PACKET_SIZE)
        /\ h.set = "start" <=> Tail(t) = <<>>
        /\ h.set = "start" => c.address = InBody /\ c.size = words - CONSTANT_PACKET_SIZE /\ c.operation = 1
    <3> HIDE DEF words
    <3> QED
      BY <1>5, <2>1, <2>2, ReceiveProgram
  <2>4. ~q.noc_we
    BY <2>1
  <2> HIDE DEF h, d
  <2>5. ASSUME NEW u, u.noc_data_write = w, u.noc_we = q.noc_we, NEW m2, KeepsTaken(q, m, m2, P)
        PROVE  Received(u, m2)
    <3>1. Delivered(w, m2)
      BY <1>3, <2>5
    <3> HIDE DEF w
    <3> QED
      BY <2>5, <3>1 DEF Received, Delivered
  <2>6. ASSUME NEW u, NEW m2, NEW enable, ReceivesAs(q, u, c, h.set = "start", enable, P), KeepsTaken(q, m, m2, P)
        PROVE  BodyInv(Tail(t), d, u, m2, P)
    <3>1. CASE h.set = "start"
      <4>1. HasOpened(q, u, c)
        BY <2>1, <2>3, <2>6, <3>1 DEF ReceivesAs
      <4>2. /\ u.noc_data_write = w /\ u.noc_we = q.noc_we /\ u.recv_address = c.address - 1 /\ u.recv_size = c.size - 1
            /\ u.DMNI_Receive = IF c.address = 0 THEN "DROP_MESSAGE" ELSE "COPY_TO_MEM"
        BY <4>1 DEF HasOpened, SameWord
      <4>3. Received(u, m2)
        BY <2>5, <2>6, <4>2
      <4> HIDE DEF w, words
      <4>4. u.DMNI_Receive = "COPY_TO_MEM" /\ u.recv_address = InHeader + w[2] /\ u.recv_size = words - 2 - w[2]
            /\ w[2] <= words - 2 /\ w[2] >= CONSTANT_PACKET_SIZE - 1
        BY <1>1, <1>2, <2>1, <2>3, <3>1, <4>2, MemoryPlaces
      <4>5. Copying(u, P, words)
        BY <1>1, <4>2, <4>4 DEF Copying
      <4> QED
        BY <1>1, <2>3, <3>1, <4>2, <4>3, <4>4, <4>5 DEF BodyInv, words
    <3>2. CASE h.set # "start"
      <4>1. StillWaits(q, u)
        BY <2>1, <2>6, <3>2 DEF ReceivesAs
      <4>2. u.DMNI_Receive = "WAIT" /\ u.noc_data_write = w /\ u.noc_we = q.noc_we
        BY <4>1 DEF StillWaits, SameWord
      <4>3. Received(u, m2)
        BY <2>5, <2>6, <4>2
      <4> HIDE DEF w
      <4> QED
        BY <1>1, <2>1, <2>3, <3>2, <4>2, <4>3 DEF BodyInv
    <3> QED
      BY <3>1, <3>2
  <2> QED
    BY <1>5, <2>3, <2>6 DEF h, d, Starting
<1> QED
  BY <1>4, <1>5

-----------------------------------------------------------------------------
(* The kernels.                                                            *)

QuietSeq(s) == s \in Seq(Range(s)) /\ \A w \in Range(s) : Quiet(w)

LEMMA QuietOf ==
  ASSUME NEW S, NEW s \in Seq(S), \A w \in S : Quiet(w)
  PROVE  QuietSeq(s)
BY SeqOfRange, RangeOfSeq DEF QuietSeq

LEMMA QuietIsAll ==
  ASSUME NEW s, QuietSeq(s)
  PROVE  s \in Seq(Range(s)) /\ AllQuiet(s)
BY DEF QuietSeq, AllQuiet, Range

\* What a kernel writes of its own changes no transfer.
LEMMA WritesQuiet ==
  ASSUME IsPlan(plan), NEW r \in Routers
  PROVE  /\ QuietSeq(Pause(plan[r].pause))
         /\ \A p : QuietSeq(KernelWrites(r, p))
<1> DEFINE n == plan[r].pause
           w == plan[r].writes
<1>1. n \in Nat /\ w \in Seq(Range(w)) /\ \A x \in Range(w) : x.set \in {"nothing", "clear_task"}
  BY DEF IsPlan
<1> HIDE DEF n, w
<1>2. QuietSeq(w)
  BY <1>1 DEF QuietSeq, Quiet
<1>3. QuietSeq(Pause(n))
  <2>1. Pause(n) \in Seq({NoCommand})
    BY <1>1 DEF Pause
  <2>2. \A x \in {NoCommand} : Quiet(x)
    BY DEF NoCommand, Quiet
  <2> QED
    BY <2>1, <2>2, QuietOf
<1>4. QuietSeq(Pause(n) \o w)
  BY <1>2, <1>3, JoinIs DEF QuietSeq
<1>5. QuietSeq(<<Set("MON_TABLE_QOS", MonTable)>>)
  <2> DEFINE x == Set("MON_TABLE_QOS", MonTable)
  <2>1. Quiet(x)
    BY DEF Set, Quiet
  <2> HIDE DEF x
  <2> DEFINE s == <<x>>
  <2>2. s \in Seq({x})
    OBVIOUS
  <2> HIDE DEF s
  <2>3. QuietSeq(s)
    BY <2>1, <2>2, QuietOf
  <2> QED
    BY <2>3 DEF s, x
<1>6. QuietSeq(<<>>)
  <2> DEFINE s == <<>>
  <2>1. s \in Seq({})
    OBVIOUS
  <2> HIDE DEF s
  <2>2. QuietSeq(s)
    BY <2>1, QuietOf
  <2> QED
    BY <2>2 DEF s
<1>7. ASSUME NEW p PROVE QuietSeq(KernelWrites(r, p))
  <2> HIDE DEF QuietSeq
  <2> QED
    BY <1>4, <1>5, <1>6 DEF KernelWrites, n, w
<1> QED
  BY <1>3, <1>7 DEF n

\* The six things a kernel may do in a cycle.
WritesOn(r, k, n) ==
  ~Free(r) /\ n.todo = Tail(k.todo) /\ n.outbox = k.outbox /\ n.reading = k.reading
HasPacket(r, k, n) ==
  /\ Arrived(r)
  /\ n.todo = KernelWrites(r, Found(r)) /\ n.outbox = k.outbox \o Answers(r, Found(r)) /\ n.reading = "nothing"
HasHeader(r, k, n) ==
  /\ HeaderIn(r) /\ ~Arrived(r)
  /\ n.todo = ReceiveCommands(InBody, BodySize(r)) /\ n.outbox = k.outbox /\ n.reading = "body"
IsInterrupted(r, k, n) ==
  /\ Interrupted(r)
  /\ n.todo = Pause(plan[r].pause) \o ReceiveCommands(InHeader, CONSTANT_PACKET_SIZE)
  /\ n.outbox = k.outbox /\ n.reading = "header"
BeginsToSend(r, k, n) ==
  /\ MaySend(r)
  /\ n.todo = SendCommands(Head(k.outbox)) /\ n.outbox = Tail(k.outbox) /\ n.reading = "nothing"
DoesNothing(r, k, n) == Free(r) /\ ~Arrived(r) /\ ~HeaderIn(r) /\ ~Interrupted(r) /\ ~MaySend(r) /\ n = k

LEMMA KernelFields ==
  ASSUME NEW r, KernelType(kernel[r])
  PROVE  LET k == kernel[r]
             n == Kernel(r)
         IN  /\ KernelType(n)
             /\ \/ WritesOn(r, k, n) \/ HasPacket(r, k, n) \/ HasHeader(r, k, n)
                \/ IsInterrupted(r, k, n) \/ BeginsToSend(r, k, n) \/ DoesNothing(r, k, n)
<1> DEFINE k == kernel[r]
           n == Kernel(r)
<1>1. KernelType(k)
  OBVIOUS
<1>2. ASSUME NEW todo, NEW outbox, NEW reading, n = [k EXCEPT !.todo = todo, !.outbox = outbox, !.reading = reading]
      PROVE  KernelType(n) /\ n.todo = todo /\ n.outbox = outbox /\ n.reading = reading
  <2> HIDE DEF k, n
  <2> QED
    BY <1>1, <1>2 DEF KernelType
<1>3. CASE ~Free(r)
  <2> DEFINE todo == Tail(k.todo)
  <2>1. n = [k EXCEPT !.todo = todo]
    BY <1>3 DEF Kernel, Arrived, BodyIn, HeaderIn, Interrupted, MaySend
  <2>2. n = [k EXCEPT !.todo = todo, !.outbox = k.outbox, !.reading = k.reading]
    <3> HIDE DEF k, n, todo
    <3> QED
      BY <1>1, <2>1 DEF KernelType
  <2>3. KernelType(n) /\ n.todo = todo /\ n.outbox = k.outbox /\ n.reading = k.reading
    <3> HIDE DEF k, n, todo
    <3> QED
      BY <1>2, <2>2
  <2> QED
    BY <1>3, <2>3 DEF WritesOn
<1>4. CASE Free(r) /\ Arrived(r)
  <2> DEFINE todo == KernelWrites(r, Found(r))
             outbox == k.outbox \o Answers(r, Found(r))
  <2>1. n = [k EXCEPT !.reading = "nothing", !.todo = todo, !.outbox = outbox]
    BY <1>4 DEF Kernel, Arrived, BodyIn, HeaderIn, Interrupted, MaySend
  <2>2. n = [k EXCEPT !.todo = todo, !.outbox = outbox, !.reading = "nothing"]
    <3> HIDE DEF k, n, todo, outbox
    <3> QED
      BY <1>1, <2>1 DEF KernelType
  <2>3. KernelType(n) /\ n.todo = todo /\ n.outbox = outbox /\ n.reading = "nothing"
    <3> HIDE DEF k, n, todo
    <3> QED
      BY <1>2, <2>2
  <2> QED
    BY <1>4, <2>3 DEF HasPacket
<1>5. CASE Free(r) /\ ~Arrived(r) /\ HeaderIn(r)
  <2> DEFINE todo == ReceiveCommands(InBody, BodySize(r))
  <2>1. n = [k EXCEPT !.reading = "body", !.todo = todo]
    BY <1>5 DEF Kernel, Arrived, BodyIn, HeaderIn, Interrupted, MaySend
  <2>2. n = [k EXCEPT !.todo = todo, !.outbox = k.outbox, !.reading = "body"]
    <3> HIDE DEF k, n, todo
    <3> QED
      BY <1>1, <2>1 DEF KernelType
  <2>3. KernelType(n) /\ n.todo = todo /\ n.outbox = k.outbox /\ n.reading = "body"
    <3> HIDE DEF k, n, todo
    <3> QED
      BY <1>2, <2>2
  <2> QED
    BY <1>5, <2>3 DEF HasHeader
<1>6. CASE Free(r) /\ ~Arrived(r) /\ ~HeaderIn(r) /\ Interrupted(r)
  <2> DEFINE todo == Pause(plan[r].pause) \o ReceiveCommands(InHeader, CONSTANT_PACKET_SIZE)
  <2>1. n = [k EXCEPT !.reading = "header", !.todo = todo]
    BY <1>6 DEF Kernel, Arrived, BodyIn, HeaderIn, Interrupted, MaySend
  <2>2. n = [k EXCEPT !.todo = todo, !.outbox = k.outbox, !.reading = "header"]
    <3> HIDE DEF k, n, todo
    <3> QED
      BY <1>1, <2>1 DEF KernelType
  <2>3. KernelType(n) /\ n.todo = todo /\ n.outbox = k.outbox /\ n.reading = "header"
    <3> HIDE DEF k, n, todo
    <3> QED
      BY <1>2, <2>2
  <2> QED
    BY <1>6, <2>3 DEF IsInterrupted
<1>7. CASE Free(r) /\ ~Arrived(r) /\ ~HeaderIn(r) /\ ~Interrupted(r) /\ MaySend(r)
  <2> DEFINE todo == SendCommands(Head(k.outbox))
             outbox == Tail(k.outbox)
  <2>1. n = [k EXCEPT !.todo = todo, !.outbox = outbox]
    BY <1>7 DEF Kernel
  <2>2. n = [k EXCEPT !.todo = todo, !.outbox = outbox, !.reading = k.reading]
    <3> HIDE DEF k, n, todo, outbox
    <3> QED
      BY <1>1, <2>1 DEF KernelType
  <2>3. KernelType(n) /\ n.todo = todo /\ n.outbox = outbox /\ n.reading = k.reading
    <3> HIDE DEF k, n, todo
    <3> QED
      BY <1>2, <2>2
  <2>4. k.reading = "nothing"
    BY <1>7 DEF MaySend
  <2> QED
    BY <1>7, <2>3, <2>4 DEF BeginsToSend
<1>8. CASE Free(r) /\ ~Arrived(r) /\ ~HeaderIn(r) /\ ~Interrupted(r) /\ ~MaySend(r)
  <2>1. n = k
    BY <1>8 DEF Kernel
  <2> QED
    BY <1>8, <2>1 DEF DoesNothing
<1> QED
  BY <1>3, <1>4, <1>5, <1>6, <1>7, <1>8

-----------------------------------------------------------------------------
\* What the kernel reads from the header is what the header says.
LEMMA HeaderFound ==
  ASSUME NEW r, NEW P, AllFit(P), NEW q, IsFlit(q.noc_data_write, P), ~q.noc_we, Received(q, mem[r]),
         q.noc_data_write[2] >= 1
  PROVE  /\ InBox(r) = q.noc_data_write[1]
         /\ BodySize(r) = q.noc_data_write[1].size + 2 - CONSTANT_PACKET_SIZE
<1> DEFINE w == q.noc_data_write
<1>1. w[2] \in Nat /\ w[2] >= 1 /\ \A i \in 0 .. w[2] : mem[r][InHeader + i] = <<w[1], i>>
  BY DEF IsFlit, Received
<1> HIDE DEF w
<1>2. mem[r][InHeader + 0] = <<w[1], 0>> /\ mem[r][InHeader + 1] = <<w[1], 1>>
  BY <1>1
<1>3. InHeader + 0 = InHeader
  BY MemoryPlaces
<1>4. InBox(r) = w[1]
  BY <1>2, <1>3 DEF InBox
<1>5. AsCount(<<w[1], 1>>) = w[1].size
  BY DEF AsCount
<1> QED
  BY <1>2, <1>4, <1>5 DEF BodySize, w

LEMMA PacketFound ==
  ASSUME NEW r, NEW P, AllFit(P), NEW q, IsFlit(q.noc_data_write, P), ~q.noc_we, Received(q, mem[r]),
         q.noc_data_write[2] = q.noc_data_write[1].size + 1
  PROVE  Found(r) = q.noc_data_write[1] /\ Found(r) \in P
<1> DEFINE w == q.noc_data_write
<1>1. w[1] \in P /\ w[2] \in Nat /\ \A i \in 0 .. w[2] : mem[r][InHeader + i] = <<w[1], i>>
  BY DEF IsFlit, Received
<1>2. w[1].size \in Nat /\ CONSTANT_PACKET_SIZE \in Nat /\ w[2] = w[1].size + 1 /\ InHeader \in Int
  BY <1>1, FitPackets, MemoryPlaces
<1>3. w[2] >= 1
  BY <1>1, <1>2
<1>4. InBox(r) = w[1] /\ BodySize(r) = w[1].size + 2 - CONSTANT_PACKET_SIZE
  BY <1>3, HeaderFound
<1> HIDE DEF w
<1>5. CONSTANT_PACKET_SIZE + BodySize(r) = w[1].size + 2
  BY <1>2, <1>4
<1>6. ASSUME NEW i \in 1 .. w[1].size + 2 PROVE mem[r][InHeader + i - 1] = <<InBox(r), i - 1>>
  <2>1. i - 1 \in 0 .. w[2] /\ InHeader + i - 1 = InHeader + (i - 1)
    BY <1>2
  <2> QED
    BY <1>1, <1>4, <2>1
<1>7. Found(r) = InBox(r)
  BY <1>5, <1>6 DEF Found
<1> QED
  BY <1>1, <1>4, <1>7 DEF w

\* What a kernel answers are packets in a sequence.
IsSeq(s) == s \in Seq(Range(s))

LEMMA SeqsAre ==
  /\ IsSeq(<<>>)
  /\ \A x : IsSeq(<<x>>)
  /\ \A s, t : IsSeq(s) /\ IsSeq(t) => IsSeq(s \o t)
<1>1. ASSUME NEW S, NEW s \in Seq(S) PROVE IsSeq(s)
  BY <1>1, SeqOfRange DEF IsSeq
<1>2. IsSeq(<<>>)
  <2> DEFINE s == <<>>
  <2>1. s \in Seq({})
    OBVIOUS
  <2> HIDE DEF s
  <2>2. IsSeq(s)
    BY <1>1, <2>1
  <2> QED
    BY <2>2 DEF s
<1>3. ASSUME NEW x PROVE IsSeq(<<x>>)
  <2> DEFINE s == <<x>>
  <2>1. s \in Seq({x})
    OBVIOUS
  <2> HIDE DEF s
  <2>2. IsSeq(s)
    BY <1>1, <2>1
  <2> QED
    BY <2>2 DEF s
<1>4. ASSUME NEW s, NEW t, IsSeq(s), IsSeq(t) PROVE IsSeq(s \o t)
  BY <1>4, JoinIs DEF IsSeq
<1> QED
  BY <1>2, <1>3, <1>4

LEMMA ReleasesAre ==
  ASSUME NEW m, m.loading \in Injectors
  PROVE  IsSeq(Releases(m))
<1> DEFINE k == m.loading
           n == Cardinality(Loaded(k))
           e(i) == FromMapper(PE(Places[k][SetToSortSeq(Loaded(k), <)[i]]), "TASK_RELEASE", <<>>)
           s == [i \in 1 .. n |-> e(i)]
<1>1. Places[k] \in Seq(Range(Places[k]))
  BY PlatformAssumption
<1>2. Len(Places[k]) \in Nat
  BY <1>1, LenProperties
<1>3. IsFiniteSet(Loaded(k))
  <2> DEFINE l == Len(Places[k])
  <2>1. IsFiniteSet(1 .. l) /\ IsFiniteSet(2 .. l)
    <3> HIDE DEF l
    <3> QED
      BY <1>2, FS_Interval, SMTT(30) DEF l
  <2> QED
    BY <2>1 DEF Loaded
<1>4. n \in Nat
  BY <1>3, FS_CardinalityType
<1>5. Releases(m) = s
  BY DEF Releases
<1> HIDE DEF n, e
<1>6. s \in Seq({e(i) : i \in 1 .. n})
  BY <1>4
<1> HIDE DEF s
<1>7. IsSeq(s)
  BY <1>6, SeqOfRange DEF IsSeq
<1> QED
  BY <1>5, <1>7

LEMMA AnswersAre ==
  ASSUME MapperInv, IsPlan(plan), NEW r \in Routers, NEW p
  PROVE  IsSeq(Answers(r, p))
<1> HIDE DEF IsSeq
<1>1. mapper.loading \in Injectors
  BY DEF MapperInv
<1>2. IsSeq(KernelAnswers(r, p))
  <2> DEFINE e(i) == From(r, PE(plan[r].sends[i].to), "MESSAGE_DELIVERY", <<"DATA", i>>, plan[r].sends[i].words)
             D == DOMAIN plan[r].sends
             s == [i \in D |-> e(i)]
  <2>1. plan[r].sends \in Seq(Range(plan[r].sends))
    BY DEF IsPlan
  <2>2. D = 1 .. Len(plan[r].sends) /\ Len(plan[r].sends) \in Nat
    BY <2>1, LenProperties
  <2>3. s \in Seq({e(i) : i \in D})
    <3> HIDE DEF e, D
    <3> QED
      BY <2>2
  <2> HIDE DEF s
  <2>4. IsSeq(s)
    BY <2>3, SeqOfRange DEF IsSeq
  <2>5. KernelAnswers(r, p) = <<From(r, PE(MapperAddress), "TASK_ALLOCATED", <<>>, 0)>>
        \/ KernelAnswers(r, p) = s \/ KernelAnswers(r, p) = <<>>
    BY DEF KernelAnswers, s
  <2> QED
    BY <2>4, <2>5, SeqsAre
<1>3. \A to : IsSeq(Announce(mapper, to))
  BY SeqsAre DEF Announce
<1>4. IsSeq(MapperAnswers(mapper, p))
  <2>1. IsSeq(<<FromMapper(p.from, "DATA_AV", <<>>)>>) /\ IsSeq(<<FromMapper(p.from, "MESSAGE_REQUEST", <<>>)>>)
    BY SeqsAre
  <2> DEFINE a == <<FromMapper(p.from, "MESSAGE_DELIVERY", Head(mapper.pending).body)>>
             b == IF Len(mapper.pending) > 1 THEN <<FromMapper(mapper.pending[2].to, "DATA_AV", <<>>)>> ELSE <<>>
             c == Releases(mapper)
             d == Announce(mapper, EndpointOf(mapper.loading))
  <2>2. IsSeq(a) /\ IsSeq(b)
    BY SeqsAre
  <2>3. IsSeq(c) /\ IsSeq(d)
    BY <1>1, <1>3, ReleasesAre
  <2>4. \/ MapperAnswers(mapper, p) = <<FromMapper(p.from, "MESSAGE_REQUEST", <<>>)>>
        \/ MapperAnswers(mapper, p) = Announce(mapper, p.from)
        \/ MapperAnswers(mapper, p) = a \o b
        \/ MapperAnswers(mapper, p) = c \o d
        \/ MapperAnswers(mapper, p) = <<>>
    BY DEF MapperAnswers
  <2> HIDE DEF a, b, c, d
  <2>5. IsSeq(a \o b) /\ IsSeq(c \o d)
    BY <2>2, <2>3, SeqsAre
  <2> QED
    BY <1>3, <2>1, <2>4, <2>5, SeqsAre
<1>5. IsSeq(MapperAnswers(mapper, p) \o KernelAnswers(r, p))
  BY <1>2, <1>4, SeqsAre
<1> QED
  BY <1>2, <1>5 DEF Answers

LEMMA MapperStep ==
  ASSUME MapperInv, KernelClock
  PROVE  MapperInv'
<1> DEFINE m == mapper
           p == Found(MapperAddress)
<1>1. m \in [pending : {m.pending}, loading : Injectors, missing : {m.missing}, opens : {m.opens}]
  BY DEF MapperInv
<1>2. mapper' = m \/ mapper' = MapperAfter(m, p)
  BY DEF KernelClock
<1>3. ASSUME NEW to, NEW body
      PROVE  LET n == Pend(m, to, body)
             IN  n \in [pending : {n.pending}, loading : Injectors, missing : {m.missing}, opens : {m.opens}]
  <2> DEFINE x == Append(m.pending, [to |-> to, body |-> body])
  <2>1. Pend(m, to, body) = [m EXCEPT !.pending = x]
    BY DEF Pend
  <2> HIDE DEF x, m
  <2> QED
    BY <1>1, <2>1
<1> DEFINE Good(n) == n \in [pending : {n.pending}, loading : Injectors, missing : {n.missing}, opens : {n.opens}]
<1>4. Good(MapperAfter(m, p))
  <2>1. ASSUME NEW k \in Injectors, NEW to, NEW body, NEW x PROVE Good([Pend(m, to, body) EXCEPT !.loading = k, !.missing = x])
    <3> DEFINE n == Pend(m, to, body)
    <3>1. n \in [pending : {n.pending}, loading : Injectors, missing : {m.missing}, opens : {m.opens}]
      BY <1>3
    <3> HIDE DEF n, m
    <3>2. Good([n EXCEPT !.loading = k, !.missing = x])
      BY <3>1
    <3> QED
      BY <3>2 DEF n
  <2>2. ASSUME NEW to, NEW body, NEW x, NEW y PROVE Good([Pend(m, to, body) EXCEPT !.missing = x, !.opens = y])
    <3> DEFINE n == Pend(m, to, body)
    <3>1. n \in [pending : {n.pending}, loading : Injectors, missing : {m.missing}, opens : {m.opens}]
      BY <1>3
    <3> HIDE DEF n, m
    <3>2. Good([n EXCEPT !.missing = x, !.opens = y])
      BY <3>1
    <3> QED
      BY <3>2 DEF n
  <2>3. ASSUME NEW x PROVE Good([m EXCEPT !.pending = x]) /\ Good([m EXCEPT !.missing = x])
    <3> HIDE DEF m
    <3> QED
      BY <1>1
  <2>4. Good(m)
    BY <1>1
  <2> DEFINE k == InjectorAt(p.from)
             n == Cardinality(Loaded(k))
             req == AllocationRequest(k, p.body[2])
             fin == <<"APP_MAPPING_COMPLETE">>
             at == EndpointOf(m.loading)
             t == Tail(m.pending)
             l == m.missing - 1
  <2>5. \/ MapperAfter(m, p) = [Pend(m, p.from, req) EXCEPT !.loading = k, !.missing = n]
        \/ MapperAfter(m, p) = [m EXCEPT !.pending = t]
        \/ MapperAfter(m, p) = [Pend(m, at, fin) EXCEPT !.missing = 0, !.opens = TRUE]
        \/ MapperAfter(m, p) = [m EXCEPT !.missing = l]
        \/ MapperAfter(m, p) = m
    BY DEF MapperAfter
  <2>6. k \in Injectors
    BY DEF InjectorAt, Injectors
  <2>7. Good([Pend(m, p.from, req) EXCEPT !.loading = k, !.missing = n])
    <3> HIDE DEF k, n, req, Good, m
    <3> QED
      BY <2>1, <2>6
  <2>8. Good([Pend(m, at, fin) EXCEPT !.missing = 0, !.opens = TRUE])
    <3> HIDE DEF fin, at, Good, m
    <3> QED
      BY <2>2
  <2>9. Good([m EXCEPT !.pending = t]) /\ Good([m EXCEPT !.missing = l])
    <3> HIDE DEF t, l, Good, m
    <3> QED
      BY <2>3
  <2> HIDE DEF k, n, req, fin, at, t, l, Good, m, p
  <2> QED
    BY <2>4, <2>5, <2>7, <2>8, <2>9
<1> HIDE DEF m
<1>5. Good(mapper')
  BY <1>1, <1>2, <1>4 DEF m
<1> QED
  BY <1>5 DEF MapperInv

-----------------------------------------------------------------------------
(* The kernels and what they have received.                                *)

\* A kernel that gets a packet has all of it, one that gets a header knows what follows.
LEMMA ArrivedIs ==
  ASSUME NEW r, NEW P, AllFit(P), NEW Q, AllFit(Q),
         KernelInv(kernel[r], cfg[r], rcv[r], snd[r], mem[r], P, Q), ReceiverInv(rcv[r], arb[r])
  PROVE  LET w == rcv[r].noc_data_write
         IN  /\ Arrived(r) => Found(r) \in Q /\ rcv[r].DMNI_Receive = "WAIT" /\ Ends(w)
             /\ HeaderIn(r) /\ ~Arrived(r) =>
                  /\ rcv[r].DMNI_Receive = "WAIT" /\ IsFlit(w, Q) /\ Received(rcv[r], mem[r])
                  /\ w[2] = CONSTANT_PACKET_SIZE - 1 /\ w[1].size + 2 > CONSTANT_PACKET_SIZE
                  /\ BodySize(r) = w[1].size + 2 - CONSTANT_PACKET_SIZE
             /\ Interrupted(r) => rcv[r].DMNI_Receive = "WAIT" /\ Ends(w)
             /\ MaySend(r) => rcv[r].DMNI_Receive = "WAIT" /\ Ends(w)
<1> DEFINE q == rcv[r]
           w == q.noc_data_write
           k == kernel[r]
<1>1. /\ k.reading = "nothing" => RestsInv(k.todo, cfg[r], q, snd[r], mem[r], P)
      /\ k.reading = "header" => HeaderInv(k.todo, cfg[r], q, mem[r], Q)
      /\ k.reading = "body" => BodyInv(k.todo, cfg[r], q, mem[r], Q)
  BY DEF KernelInv
<1>2. /\ q.receive_active = (q.DMNI_Receive # "WAIT")
      /\ q.noc_we => q.DMNI_Receive \in {"COPY_TO_MEM", "END"}
  BY DEF ReceiverInv
<1>3. ASSUME IsFlit(w, Q)
      PROVE  w[1] \in Q /\ w[2] \in Nat /\ w[1].size \in Nat /\ w[1].size + 2 >= CONSTANT_PACKET_SIZE
             /\ CONSTANT_PACKET_SIZE \in Nat /\ CONSTANT_PACKET_SIZE > 8 /\ (Ends(w) <=> w[2] = w[1].size + 1)
  BY <1>3, FitPackets, FlitIs
<1> HIDE DEF q, w, k
<1>4. ASSUME HeaderIn(r)
      PROVE  /\ q.DMNI_Receive = "WAIT" /\ IsFlit(w, Q) /\ Received(q, mem[r]) /\ ~q.noc_we
             /\ w[2] = CONSTANT_PACKET_SIZE - 1
             /\ BodySize(r) = w[1].size + 2 - CONSTANT_PACKET_SIZE
  <2>1. k.todo = <<>> /\ k.reading = "header" /\ ~q.receive_active
    BY <1>4 DEF HeaderIn, Free, k, q
  <2>2. q.DMNI_Receive = "WAIT" /\ ~q.noc_we
    BY <1>2, <2>1
  <2>3. HeaderBegins(q) \/ (Copying(q, Q, CONSTANT_PACKET_SIZE) /\ Received(q, mem[r]))
    BY <1>1, <2>1 DEF HeaderInv
  <2>4. Copying(q, Q, CONSTANT_PACKET_SIZE) /\ Received(q, mem[r])
    BY <2>2, <2>3 DEF HeaderBegins
  <2>5. IsFlit(w, Q) /\ w[2] = CONSTANT_PACKET_SIZE - 1
    BY <2>2, <2>4 DEF Copying, w
  <2>6. w[2] >= 1
    BY <1>3, <2>5
  <2>7. BodySize(r) = w[1].size + 2 - CONSTANT_PACKET_SIZE
    BY <2>2, <2>4, <2>5, <2>6, HeaderFound DEF w
  <2> QED
    BY <2>2, <2>4, <2>5, <2>7
<1>5. ASSUME BodyIn(r)
      PROVE  /\ q.DMNI_Receive = "WAIT" /\ IsFlit(w, Q) /\ Received(q, mem[r]) /\ ~q.noc_we
             /\ w[2] = w[1].size + 1
  <2>1. k.todo = <<>> /\ k.reading = "body" /\ ~q.receive_active
    BY <1>5 DEF BodyIn, Free, k, q
  <2>2. q.DMNI_Receive = "WAIT" /\ ~q.noc_we
    BY <1>2, <2>1
  <2> DEFINE words == w[1].size + 2
  <2>3. Copying(q, Q, words) /\ Received(q, mem[r])
    BY <1>1, <2>1 DEF BodyInv, w
  <2> HIDE DEF words
  <2>4. IsFlit(w, Q) /\ w[2] = words - 1
    BY <2>2, <2>3 DEF Copying, w
  <2>5. w[2] = w[1].size + 1
    BY <1>3, <2>4 DEF words
  <2> QED
    BY <2>2, <2>3, <2>4, <2>5
<1>6. ASSUME Arrived(r)
      PROVE  Found(r) \in Q /\ q.DMNI_Receive = "WAIT" /\ Ends(w)
  <2>1. /\ q.DMNI_Receive = "WAIT" /\ IsFlit(w, Q) /\ Received(q, mem[r]) /\ ~q.noc_we
        /\ w[2] = w[1].size + 1
    <3>1. CASE BodyIn(r)
      BY <1>5, <3>1
    <3>2. CASE HeaderIn(r) /\ BodySize(r) = 0
      BY <1>3, <1>4, <3>2
    <3> QED
      BY <1>6, <3>1, <3>2 DEF Arrived
  <2>2. Found(r) \in Q
    BY <2>1, PacketFound DEF w
  <2>3. Ends(w)
    BY <1>3, <2>1
  <2> QED
    BY <2>1, <2>2, <2>3
<1>7. ASSUME HeaderIn(r), ~Arrived(r)
      PROVE  w[1].size + 2 > CONSTANT_PACKET_SIZE
  <2>1. BodySize(r) # 0
    BY <1>7 DEF Arrived
  <2> QED
    BY <1>3, <1>4, <1>7, <2>1
<1>8. Interrupted(r) \/ MaySend(r) => k.reading = "nothing"
  BY DEF Interrupted, MaySend, k
<1>9. k.reading = "nothing" => q.DMNI_Receive = "WAIT" /\ Ends(w)
  BY <1>1 DEF RestsInv, w
<1> QED
  BY <1>4, <1>6, <1>7, <1>8, <1>9 DEF q, w

\* A kernel that is interrupted finds a word in the buffer.
LEMMA InterruptedIs ==
  ASSUME NEW q, BufferInv(q), q.DMNI_Receive = "WAIT", intr(q)
  PROVE  read_av(q)
<1>1. BufferType(q) /\ q.intr_count = Cardinality(Headers(q)) - IF BeingReceived(q) THEN 1 ELSE 0
  BY DEF BufferInv, CountInv
<1>2. ~BeingReceived(q)
  BY DEF BeingReceived
<1>3. q.intr_count = Cardinality(Headers(q)) /\ Cardinality(Headers(q)) \in Nat
  BY <1>1, <1>2, HeadersFinite
<1>4. Headers(q) # {}
  BY <1>3, FS_EmptySet DEF intr
<1> QED
  BY <1>1, <1>4, HoldsFirst

LEMMA EmptyRests ==
  ASSUME NEW P, NEW c, NEW q, NEW s, NEW m, q.DMNI_Receive = "WAIT", Ends(q.noc_data_write), NEW t, AllQuiet(t)
  PROVE  RestsInv(t, c, q, s, m, P)
BY DEF RestsInv

LEMMA BodyNext ==
  ASSUME NEW t, t # <<>>, NEW c, NEW q, NEW m, NEW Q, NEW w, w = q.noc_data_write, NEW words, words = w[1].size + 2,
         IsFlit(w, Q), words > CONSTANT_PACKET_SIZE, Received(q, m), q.DMNI_Receive = "WAIT",
         w[2] = CONSTANT_PACKET_SIZE - 1, Programs(c, t, InBody, words - CONSTANT_PACKET_SIZE)
  PROVE  BodyInv(t, c, q, m, Q)
BY DEF BodyInv

LEMMA KernelFlow ==
  ASSUME NEW r \in Routers, IsPlan(plan), MapperInv, NEW P, AllFit(P), NEW Q, AllFit(Q),
         KernelInv(kernel[r], cfg[r], rcv[r], snd[r], mem[r], P, Q),
         BufferInv(rcv[r]), ReceiverInv(rcv[r], arb[r]),
         NEW h, h = Command(kernel[r].todo),
         NEW u, ReceivesAs(rcv[r], u, cfg[r], h.set = "start", arb[r].ARB = "RECEIVE", Q),
         NEW s2, snd[r].DMNI_Send = "WAIT" /\ ~Starting(snd[r], cfg[r], h) => s2.DMNI_Send = "WAIT",
         snd[r].send_active <=> snd[r].DMNI_Send # "WAIT",
         NEW m2, ~MaySend(r) => KeepsSent(mem[r], m2, P), KeepsTaken(rcv[r], mem[r], m2, Q),
         MaySend(r) => Head(kernel[r].outbox) \in P /\ InMemory(m2, Head(kernel[r].outbox))
  PROVE  KernelInv(Kernel(r), config(cfg[r], h), u, s2, m2, P, Q)
<1> DEFINE k == kernel[r]
           n == Kernel(r)
           c == cfg[r]
           d == config(c, h)
           q == rcv[r]
           s == snd[r]
           m == mem[r]
           t == k.todo
           start == (h.set = "start")
           enable == (arb[r].ARB = "RECEIVE")
<1>1. /\ KernelType(k) /\ t \in Seq(Range(t)) /\ k.outbox \in Seq(Range(k.outbox)) /\ ConfigRecord(c)
      /\ k.reading \in {"nothing", "header", "body"}
      /\ k.reading = "nothing" => RestsInv(t, c, q, s, m, P)
      /\ k.reading = "header" => HeaderInv(t, c, q, m, Q)
      /\ k.reading = "body" => BodyInv(t, c, q, m, Q)
  BY DEF KernelInv
<1>2. /\ KernelType(n)
      /\ \/ WritesOn(r, k, n) \/ HasPacket(r, k, n) \/ HasHeader(r, k, n)
         \/ IsInterrupted(r, k, n) \/ BeginsToSend(r, k, n) \/ DoesNothing(r, k, n)
  BY <1>1, KernelFields
<1>3. ConfigRecord(d)
  BY <1>1, ConfigFields
<1>4. ~q.noc_we \/ q.DMNI_Receive # "WAIT"
  BY DEF ReceiverInv
<1>5. LET w == q.noc_data_write
      IN  /\ Arrived(r) => Found(r) \in Q /\ q.DMNI_Receive = "WAIT" /\ Ends(w)
          /\ HeaderIn(r) /\ ~Arrived(r) =>
               /\ q.DMNI_Receive = "WAIT" /\ IsFlit(w, Q) /\ Received(q, m)
               /\ w[2] = CONSTANT_PACKET_SIZE - 1 /\ w[1].size + 2 > CONSTANT_PACKET_SIZE
               /\ BodySize(r) = w[1].size + 2 - CONSTANT_PACKET_SIZE
          /\ Interrupted(r) => q.DMNI_Receive = "WAIT" /\ Ends(w)
          /\ MaySend(r) => q.DMNI_Receive = "WAIT" /\ Ends(w)
  BY ArrivedIs
<1>6. t = <<>> => h.set = "nothing"
  BY DEF Command, NoCommand
<1>7. ReceivesAs(q, u, c, start, enable, Q)
  OBVIOUS
<1> HIDE DEF enable, d
<1>8. ASSUME q.DMNI_Receive = "WAIT", ~Opening(h, c)
      PROVE  /\ StillWaits(q, u) /\ u.DMNI_Receive = "WAIT" /\ u.noc_data_write = q.noc_data_write
             /\ (read_av(q) => read_av(u)) /\ u.noc_we = q.noc_we
  <2>1. StillWaits(q, u)
    BY <1>7, <1>8 DEF ReceivesAs, Opening
  <2> QED
    BY <2>1 DEF StillWaits, SameWord
<1>9. t = <<>> => ~Opening(h, c)
  BY <1>6 DEF Opening
<1>10. h = Command(t)
  OBVIOUS
<1> HIDE DEF start, k, n, c, q, s, m, t
<1>a. t = k.todo /\ (t = <<>> <=> Free(r))
  BY DEF t, k, Free
<1>11. CASE WritesOn(r, k, n)
  <2>1. t # <<>> /\ n.todo = Tail(t) /\ n.outbox = k.outbox /\ n.reading = k.reading
    BY <1>11, <1>a DEF WritesOn
  <2>2. Tail(t) \in Seq(Range(Tail(t)))
    BY <1>1, <2>1, TailIs
  <2>3. ASSUME k.reading = "nothing" PROVE RestsInv(Tail(t), d, u, s2, m2, P)
    <3>1. /\ ~Opening(h, c)
          /\ \A u1, s1, m1 :
               /\ StillWaits(q, u1) /\ KeepsSent(m, m1, P)
               /\ s.DMNI_Send = "WAIT" /\ ~Starting(s, c, h) => s1.DMNI_Send = "WAIT"
               => RestsInv(Tail(t), d, u1, s1, m1, P)
      BY <1>1, <1>10, <2>1, <2>3, RestsOn DEF d
    <3>2. q.DMNI_Receive = "WAIT"
      BY <1>1, <2>3 DEF RestsInv
    <3>3. StillWaits(q, u)
      BY <1>8, <3>1, <3>2
    <3>4. KeepsSent(m, m2, P)
      BY <2>1, <1>a DEF MaySend, m
    <3>5. s.DMNI_Send = "WAIT" /\ ~Starting(s, c, h) => s2.DMNI_Send = "WAIT"
      BY DEF s, c
    <3> QED
      BY <3>1, <3>3, <3>4, <3>5
  <2>4. ASSUME k.reading = "header" PROVE HeaderInv(Tail(t), d, u, m2, Q)
    <3>1. \A u1, m1, e1 : ReceivesAs(q, u1, c, h.set = "start", e1, Q) /\ KeepsTaken(q, m, m1, Q) =>
                            HeaderInv(IF t = <<>> THEN t ELSE Tail(t), d, u1, m1, Q)
      BY <1>1, <1>4, <1>10, <2>4, HeaderOn DEF d
    <3>2. KeepsTaken(q, m, m2, Q)
      BY DEF q, m
    <3> QED
      BY <1>7, <2>1, <3>1, <3>2 DEF start
  <2>5. ASSUME k.reading = "body" PROVE BodyInv(Tail(t), d, u, m2, Q)
    <3>1. \A u1, m1, e1 : ReceivesAs(q, u1, c, h.set = "start", e1, Q) /\ KeepsTaken(q, m, m1, Q) =>
                            BodyInv(IF t = <<>> THEN t ELSE Tail(t), d, u1, m1, Q)
      BY <1>1, <1>4, <1>10, <2>5, BodyOn DEF d
    <3>2. KeepsTaken(q, m, m2, Q)
      BY DEF q, m
    <3> QED
      BY <1>7, <2>1, <3>1, <3>2 DEF start
  <2> QED
    BY <1>1, <1>2, <1>3, <2>1, <2>2, <2>3, <2>4, <2>5 DEF KernelInv, d, n, c
<1>12. CASE HasPacket(r, k, n)
  <2>1. Arrived(r) /\ n.todo = KernelWrites(r, Found(r)) /\ n.outbox = k.outbox \o Answers(r, Found(r))
        /\ n.reading = "nothing"
    BY <1>12 DEF HasPacket
  <2>2. t = <<>>
    BY <1>a, <2>1 DEF Arrived, BodyIn, HeaderIn
  <2>3. n.todo \in Seq(Range(n.todo)) /\ AllQuiet(n.todo)
    BY <2>1, WritesQuiet, QuietIsAll
  <2>4. n.outbox \in Seq(Range(n.outbox))
    <3>1. IsSeq(k.outbox) /\ IsSeq(Answers(r, Found(r)))
      BY <1>1, AnswersAre DEF IsSeq
    <3> QED
      BY <2>1, <3>1, SeqsAre DEF IsSeq
  <2>5. u.DMNI_Receive = "WAIT" /\ Ends(u.noc_data_write)
    BY <1>5, <1>8, <1>9, <2>1, <2>2
  <2>6. RestsInv(n.todo, d, u, s2, m2, P)
    BY <2>3, <2>5, EmptyRests
  <2> QED
    BY <1>2, <1>3, <2>1, <2>3, <2>4, <2>6 DEF KernelInv, d, n, c
<1>13. CASE HasHeader(r, k, n)
  <2> DEFINE w == q.noc_data_write
  <2>1. HeaderIn(r) /\ ~Arrived(r) /\ n.todo = ReceiveCommands(InBody, BodySize(r)) /\ n.outbox = k.outbox /\ n.reading = "body"
    BY <1>13 DEF HasHeader
  <2>2. t = <<>>
    BY <1>a, <2>1 DEF HeaderIn
  <2>b. /\ q.DMNI_Receive = "WAIT" /\ IsFlit(w, Q) /\ Received(q, m)
        /\ w[2] = CONSTANT_PACKET_SIZE - 1 /\ w[1].size + 2 > CONSTANT_PACKET_SIZE
        /\ BodySize(r) = w[1].size + 2 - CONSTANT_PACKET_SIZE
    BY <1>5, <2>1
  <2> HIDE DEF w
  <2>c. \E words, size : words = w[1].size + 2 /\ size = words - CONSTANT_PACKET_SIZE
    OBVIOUS
  <2>a. PICK words, size : words = w[1].size + 2 /\ size = words - CONSTANT_PACKET_SIZE
    BY <2>c
  <2>3. /\ q.DMNI_Receive = "WAIT" /\ IsFlit(w, Q) /\ Received(q, m)
        /\ w[2] = CONSTANT_PACKET_SIZE - 1 /\ words > CONSTANT_PACKET_SIZE
    BY <2>a, <2>b
  <2>d. BodySize(r) = size
    <3>1. w[1].size \in Nat /\ CONSTANT_PACKET_SIZE \in Nat
      BY <2>b, FitPackets, FlitIs
    <3> QED
      BY <2>a, <2>b, <3>1
  <2>4. u.DMNI_Receive = "WAIT" /\ u.noc_data_write = w /\ ~u.noc_we
    BY <1>4, <1>8, <1>9, <2>2, <2>b DEF w
  <2>5. n.todo = ReceiveCommands(InBody, size)
    BY <2>1, <2>d
  <2> DEFINE x == ReceiveCommands(InBody, size)
  <2>6. x \in Seq(Range(x)) /\ Len(x) = 4 /\ x # <<>> /\ IsProgram(x, x)
    <3>1. x \in Seq(Range(x)) /\ Len(x) = 4 /\ x # <<>> /\ DOMAIN x = 1 .. 4
      BY DEF ReceiveCommands, Range
    <3> HIDE DEF x
    <3>2. ASSUME NEW i \in 1 .. 4 PROVE Len(x) - i < Len(x) /\ x[i] = x[Len(x) - (Len(x) - i)]
      BY <3>1
    <3> QED
      BY <3>1, <3>2 DEF IsProgram
  <2>7. Programs(d, x, InBody, size)
    BY <2>6 DEF Programs
  <2>8. Received(u, m2)
    <3>1. KeepsTaken(q, m, m2, Q)
      BY DEF q, m
    <3>2. Delivered(w, m2)
      BY <2>3, <3>1 DEF KeepsTaken, w
    <3> QED
      BY <2>4, <3>2 DEF Received, Delivered
  <2>9. BodyInv(x, d, u, m2, Q)
    <3>1. x # <<>>
      BY <2>6
    <3> HIDE DEF x
    <3>4. IsFlit(w, Q) /\ Received(u, m2) /\ u.DMNI_Receive = "WAIT" /\ w = u.noc_data_write /\ w[2] = CONSTANT_PACKET_SIZE - 1
      BY <2>3, <2>4, <2>8
    <3> QED
      BY <2>3, <2>7, <2>a, <3>1, <3>4, BodyNext
  <2> HIDE DEF x
  <2>10. n.todo = x
    BY <2>5 DEF x
  <2> QED
    BY <1>1, <1>2, <1>3, <2>1, <2>6, <2>9, <2>10 DEF KernelInv, d, n, c
<1>14. CASE IsInterrupted(r, k, n)
  <2> DEFINE x == ReceiveCommands(InHeader, CONSTANT_PACKET_SIZE)
             y == Pause(plan[r].pause)
             z == y \o x
  <2>1. Interrupted(r) /\ n.todo = z /\ n.outbox = k.outbox /\ n.reading = "header"
    BY <1>14 DEF IsInterrupted
  <2>2. t = <<>> /\ intr(q)
    BY <1>a, <2>1 DEF Interrupted, q
  <2>3. q.DMNI_Receive = "WAIT" /\ Ends(q.noc_data_write)
    BY <1>5, <2>1
  <2>4. read_av(q)
    BY <2>2, <2>3, InterruptedIs DEF q
  <2>5. u.DMNI_Receive = "WAIT" /\ Ends(u.noc_data_write) /\ read_av(u)
    BY <1>8, <1>9, <2>2, <2>3, <2>4
  <2>6. x \in Seq(Range(x)) /\ Len(x) = 4
    BY DEF ReceiveCommands, Range
  <2>7. y \in Seq(Range(y)) /\ AllQuiet(y)
    BY WritesQuiet, QuietIsAll
  <2> HIDE DEF x, y
  <2>8. IsProgram(z, x) /\ Len(z) >= 4
    BY <2>6, <2>7, JoinProgram
  <2>9. z \in Seq(Range(z)) /\ z # <<>>
    <3>1. z \in Seq(Range(z))
      BY <2>6, <2>7, JoinIs
    <3> HIDE DEF z
    <3> QED
      BY <2>8, <3>1
  <2> HIDE DEF z
  <2>a. Len(z) \in Nat
    BY <2>9
  <2>10. Programs(d, z, InHeader, CONSTANT_PACKET_SIZE)
    BY <2>8, <2>a DEF Programs, x
  <2>11. HeaderInv(z, d, u, m2, Q)
    BY <2>5, <2>9, <2>10 DEF HeaderInv
  <2> QED
    BY <1>1, <1>2, <1>3, <2>1, <2>9, <2>11 DEF KernelInv, d, n, c
<1>15. CASE BeginsToSend(r, k, n)
  <2> DEFINE p == Head(k.outbox)
             x == SendCommands(p)
  <2>1. MaySend(r) /\ n.todo = x /\ n.outbox = Tail(k.outbox) /\ n.reading = "nothing"
    BY <1>15 DEF BeginsToSend
  <2>2. t = <<>> /\ k.outbox # <<>> /\ ~s.send_active
    BY <1>a, <2>1 DEF MaySend, k, s
  <2>3. p \in P /\ InMemory(m2, p)
    BY <2>1 DEF k
  <2>4. u.DMNI_Receive = "WAIT" /\ Ends(u.noc_data_write)
    BY <1>5, <1>8, <1>9, <2>1, <2>2
  <2>5. s2.DMNI_Send = "WAIT"
    <3>1. s.DMNI_Send = "WAIT" /\ ~Starting(s, c, h)
      BY <1>6, <2>2 DEF Starting, s
    <3> QED
      BY <3>1 DEF s, c
  <2> HIDE DEF p
  <2>6. x \in Seq(Range(x)) /\ Len(x) = 6 /\ IsProgram(x, x)
    <3>1. x \in Seq(Range(x)) /\ Len(x) = 6 /\ DOMAIN x = 1 .. 6
      BY DEF SendCommands, Range
    <3> HIDE DEF x
    <3>2. ASSUME NEW i \in 1 .. 6 PROVE Len(x) - i < Len(x) /\ x[i] = x[Len(x) - (Len(x) - i)]
      BY <3>1
    <3> QED
      BY <3>1, <3>2 DEF IsProgram
  <2>7. ProgramsSend(d, x, p)
    BY <2>6 DEF ProgramsSend
  <2>8. Tail(k.outbox) \in Seq(Range(Tail(k.outbox)))
    BY <1>1, <2>2, TailIs
  <2> HIDE DEF x
  <2>9. RestsInv(x, d, u, s2, m2, P)
    BY <2>3, <2>4, <2>5, <2>7 DEF RestsInv
  <2> QED
    BY <1>2, <1>3, <2>1, <2>6, <2>8, <2>9 DEF KernelInv, d, n, c
<1>16. CASE DoesNothing(r, k, n)
  <2>1. t = <<>> /\ n = k
    BY <1>16, <1>a DEF DoesNothing
  <2>2. ASSUME k.reading = "nothing" PROVE RestsInv(t, d, u, s2, m2, P)
    <3>1. q.DMNI_Receive = "WAIT" /\ Ends(q.noc_data_write)
      BY <1>1, <2>2 DEF RestsInv
    <3>2. u.DMNI_Receive = "WAIT" /\ Ends(u.noc_data_write)
      BY <1>8, <1>9, <2>1, <3>1
    <3>3. AllQuiet(t)
      BY <2>1 DEF AllQuiet
    <3> QED
      BY <3>2, <3>3, EmptyRests
  <2>4. ASSUME k.reading = "header" PROVE HeaderInv(t, d, u, m2, Q)
    <3>1. \A u1, m1, e1 : ReceivesAs(q, u1, c, h.set = "start", e1, Q) /\ KeepsTaken(q, m, m1, Q) =>
                            HeaderInv(IF t = <<>> THEN t ELSE Tail(t), d, u1, m1, Q)
      BY <1>1, <1>4, <1>10, <2>4, HeaderOn DEF d
    <3>2. KeepsTaken(q, m, m2, Q)
      BY DEF q, m
    <3> QED
      BY <1>7, <2>1, <3>1, <3>2 DEF start
  <2>5. ASSUME k.reading = "body" PROVE BodyInv(t, d, u, m2, Q)
    <3>1. \A u1, m1, e1 : ReceivesAs(q, u1, c, h.set = "start", e1, Q) /\ KeepsTaken(q, m, m1, Q) =>
                            BodyInv(IF t = <<>> THEN t ELSE Tail(t), d, u1, m1, Q)
      BY <1>1, <1>4, <1>10, <2>5, BodyOn DEF d
    <3>2. KeepsTaken(q, m, m2, Q)
      BY DEF q, m
    <3> QED
      BY <1>7, <2>1, <3>1, <3>2 DEF start
  <2> QED
    BY <1>1, <1>3, <1>a, <2>1, <2>2, <2>4, <2>5 DEF KernelInv, d, n, c
<1> QED
  BY <1>2, <1>11, <1>12, <1>13, <1>14, <1>15, <1>16

-----------------------------------------------------------------------------
(* The memory port.                                                        *)

\* The arbiter and what a reception has on its way to the memory.
LEMMA ReceiverStep ==
  ASSUME NEW a, ArbiterType(a), NEW q, ReceiverInv(q, a), NEW u, NEW c, NEW start, NEW P,
         ReceivesAs(q, u, c, start, a.ARB = "RECEIVE", P), NEW s, NEW m, NEW b
  PROVE  ReceiverInv(u, arbiter(a, q, s, m, c, b))
<1> DEFINE n == arbiter(a, q, s, m, c, b)
<1>1. /\ q.receive_active = (q.DMNI_Receive # "WAIT")
      /\ q.noc_we \in BOOLEAN
      /\ q.noc_we => q.DMNI_Receive \in {"COPY_TO_MEM", "END"}
  BY DEF ReceiverInv
<1>2. a.ARB = "RECEIVE" => PortOwner(n) = "RECEIVE"
  <2> SUFFICES ASSUME a.ARB = "RECEIVE" PROVE PortOwner(n) = "RECEIVE"
    OBVIOUS
  <2>1. n = Round(a) \/ n = Elapse(a)
    BY DEF arbiter
  <2>2. Round(a).ARB = "ROUND" /\ Round(a).last_arb = "RECEIVE"
    BY DEF Round
  <2>3. Elapse(a).ARB = "RECEIVE"
    <3> DEFINE k == (a.timer + 1) % 256
    <3>1. Elapse(a) = [a EXCEPT !.timer = k]
      BY DEF Elapse
    <3> HIDE DEF k
    <3> QED
      BY <3>1 DEF ArbiterType
  <2> HIDE DEF n
  <2> QED
    BY <2>1, <2>2, <2>3 DEF PortOwner
<1> HIDE DEF n
<1> DEFINE Goal == /\ u.receive_active = (u.DMNI_Receive # "WAIT")
                   /\ u.noc_we \in BOOLEAN
                   /\ u.noc_we => a.ARB = "RECEIVE" /\ u.DMNI_Receive \in {"COPY_TO_MEM", "END"}
<1>3. SUFFICES Goal
  BY <1>2 DEF ReceiverInv, n
<1>4. CASE q.DMNI_Receive = "WAIT"
  <2>1. q.noc_we = FALSE /\ q.receive_active = FALSE
    BY <1>1, <1>4
  <2>2. HasOpened(q, u, c) \/ StillWaits(q, u)
    BY <1>4 DEF ReceivesAs
  <2>3. u.noc_we = FALSE
    BY <2>1, <2>2 DEF HasOpened, StillWaits
  <2>4. u.receive_active = (u.DMNI_Receive # "WAIT")
    BY <2>1, <2>2 DEF HasOpened, StillWaits
  <2> QED
    BY <2>3, <2>4
<1>5. CASE q.DMNI_Receive = "COPY_TO_MEM"
  <2>1. q.receive_active = TRUE
    BY <1>1, <1>5
  <2>2. (a.ARB = "RECEIVE" /\ HasTaken(q, u, P)) \/ HasPaused(q, u)
    BY <1>5 DEF ReceivesAs
  <2> QED
    BY <2>1, <2>2 DEF HasTaken, HasPaused
<1>6. CASE q.DMNI_Receive = "END"
  <2>1. HasClosed(q, u)
    BY <1>6 DEF ReceivesAs
  <2> QED
    BY <2>1 DEF HasClosed
<1> QED
  BY <1>4, <1>5, <1>6 DEF ReceivesAs

\* Where there is no monitor no report is written.
LEMMA NoReportsStep ==
  ASSUME Tick, NEW r \in Routers, r # MonitorAddress, NoReports(r), ReportType(mon[r]), ArbiterType(arb[r])
  PROVE  ReportType(mon'[r]) /\ NoReports(r)'
<1> DEFINE m == mon[r]
           b == Request(r)
           c == cfg[r]
           cmd == IF Free(r) THEN NoCommand ELSE Head(kernel[r].todo)
           k == Acknowledge(m, c, b)
           w == WriteLine(k, c, b, FALSE)
           n == arbiter(arb[r], rcv[r], snd[r], m, c, b)
<1>1. ~m.br_we /\ m.br_rcv_state = "BR_RCV_IDLE" /\ arb[r].ARB # "BR_RECEIVE"
  BY DEF NoReports
<1>2. b.req = FALSE
  BY DEF Request, NoRequest
<1>3. mon'[r] = br_receive(m, c, cmd, b, arb[r].ARB = "BR_RECEIVE") /\ arb'[r] = n
  BY DEF Tick, DmniClock
<1>4. n.ARB # "BR_RECEIVE"
  <2> HIDE DEF b, c, m
  <2> QED
    BY <1>1, <1>2, ArbiterStep
<1>5. ReportType(k) /\ ~k.br_we /\ k.br_rcv_state = "BR_RCV_IDLE"
  <2>1. k = [m EXCEPT !.br_ack_mon = FALSE]
    BY <1>2 DEF Acknowledge
  <2> HIDE DEF k, m
  <2> QED
    BY <1>1, <2>1 DEF ReportType, m
<1> HIDE DEF k
<1>6. w = k
  BY <1>5 DEF WriteLine
<1>7. br_receive(m, c, cmd, b, FALSE) \in {k, ClearTask(k, cmd.data)}
  BY <1>6 DEF br_receive, k
<1>8. mon'[r] \in {k, ClearTask(k, cmd.data)}
  BY <1>1, <1>3, <1>7
<1>9. LET u == ClearTask(k, cmd.data)
      IN  ReportType(u) /\ u.br_rcv_state = k.br_rcv_state /\ u.br_we = k.br_we
  <2> HIDE DEF cmd
  <2> QED
    BY <1>5, ClearedFields
<1> HIDE DEF cmd
<1>10. ReportType(mon'[r]) /\ ~mon'[r].br_we /\ mon'[r].br_rcv_state = "BR_RCV_IDLE"
  BY <1>5, <1>8, <1>9
<1> HIDE DEF n
<1> QED
  BY <1>3, <1>4, <1>10 DEF NoReports

\* What a reception has on its way goes to its place, and it is of a packet.
LEMMA OnItsWay ==
  ASSUME NEW k, NEW c, NEW q, NEW s, NEW m, NEW P, NEW Q, KernelInv(k, c, q, s, m, P, Q),
         q.noc_we, q.DMNI_Receive \in {"COPY_TO_MEM", "END"}
  PROVE  IsFlit(q.noc_data_write, Q) /\ q.recv_address = InHeader + q.noc_data_write[2]
<1>1. k.reading # "nothing"
  BY DEF KernelInv, RestsInv
<1>2. CASE k.reading = "header"
  <2>1. HeaderInv(k.todo, c, q, m, Q)
    BY <1>2 DEF KernelInv
  <2>2. Copying(q, Q, CONSTANT_PACKET_SIZE)
    BY <2>1 DEF HeaderInv, HeaderBegins
  <2> QED
    BY <2>2 DEF Copying
<1>3. CASE k.reading = "body"
  <2> DEFINE words == q.noc_data_write[1].size + 2
  <2>1. BodyInv(k.todo, c, q, m, Q)
    BY <1>3 DEF KernelInv
  <2>2. Copying(q, Q, words)
    BY <2>1 DEF BodyInv
  <2> HIDE DEF words
  <2> QED
    BY <2>2 DEF Copying
<1> QED
  BY <1>1, <1>2, <1>3 DEF KernelInv

\* A report goes to the table.
LEMMA ReportAbove ==
  ASSUME TableInv, mon[MonitorAddress].br_we
  PROVE  mon[MonitorAddress].br_mem_addr \in Int /\ mon[MonitorAddress].br_mem_addr >= MonTable
<1> DEFINE m == mon[MonitorAddress]
           a == m.br_mem_addr
<1>1. MonTable \in Nat
  BY Sizes
<1>2. /\ PhaseInv(m, arb[MonitorAddress]) /\ BeginsInv(m) /\ FinishesInv(m) /\ EnvironmentInv
  BY DEF TableInv
<1> HIDE DEF m
<1>3. m.br_rcv_state \in {"BR_RCV_TASKID", "BR_RCV_END"}
  BY <1>2 DEF PhaseInv, ReportType, m
<1>4. CASE m.br_rcv_state = "BR_RCV_TASKID"
  <2>1. reports.req
    BY <1>2, <1>4 DEF PhaseInv
  <2>2. Reported.src \in Routers
    BY <1>2, <2>1, ReportedIs
  <2>3. PICK i \in Indexes : a = LineAt(Reported.src, i) + 1
    BY <1>2, <1>4 DEF BeginsInv, Begins
  <2>4. LineAt(Reported.src, i) \in Nat /\ MonTable <= LineAt(Reported.src, i)
    BY <2>2, LinesApart
  <2> QED
    BY <1>1, <2>3, <2>4 DEF m
<1>5. CASE m.br_rcv_state = "BR_RCV_END"
  <2>1. PICK n \in Routers, i \in Indexes : a = LineAt(n, i)
    BY <1>2, <1>5 DEF FinishesInv, Finishes, m
  <2>2. LineAt(n, i) \in Nat /\ MonTable <= LineAt(n, i)
    BY LinesApart
  <2> QED
    BY <1>1, <2>1, <2>2 DEF m
<1> QED
  BY <1>3, <1>4, <1>5

MemoryPort(r) == mem_address_update(arb[r], rcv[r], snd[r], mon[r])

LEMMA PortIs ==
  ASSUME TableInv, NEW r \in Routers, ArbiterType(arb[r]), NEW P, NEW Q,
         KernelInv(kernel[r], cfg[r], rcv[r], snd[r], mem[r], P, Q), ReceiverInv(rcv[r], arb[r]), NoReports(r)
  PROVE  LET q == rcv[r]
             w == q.noc_data_write
             port == MemoryPort(r)
         IN  /\ arb[r].ARB = "SEND" => port.address = snd[r].send_address
             /\ port.we => \/ port.address \in Int /\ port.address >= MonTable
                           \/ IsFlit(w, Q) /\ port.address = InHeader + w[2] /\ port.data = w
             /\ q.noc_we => port.we /\ port.address = InHeader + w[2] /\ port.data = w
<1> DEFINE q == rcv[r]
           w == q.noc_data_write
           m == mon[r]
           a == arb[r]
           port == MemoryPort(r)
<1>1. \/ PortOwner(a) = "SEND" /\ port.we = FALSE /\ port.address = snd[r].send_address
      \/ PortOwner(a) = "RECEIVE" /\ port.we = q.noc_we /\ port.address = q.recv_address /\ port.data = w
      \/ PortOwner(a) = "BR_RECEIVE" /\ port.we = m.br_we /\ port.address = m.br_mem_addr
  <2>1. PortOwner(a) \in {"SEND", "RECEIVE", "BR_RECEIVE"}
    BY DEF PortOwner, ArbiterType
  <2> QED
    BY <2>1 DEF mem_address_update, MemoryPort
<1>2. a.ARB = "SEND" => PortOwner(a) = "SEND"
  BY DEF PortOwner
<1>3. q.noc_we => PortOwner(a) = "RECEIVE" /\ q.DMNI_Receive \in {"COPY_TO_MEM", "END"}
  BY DEF ReceiverInv
<1>4. q.noc_we => IsFlit(w, Q) /\ q.recv_address = InHeader + w[2]
  BY <1>3, OnItsWay
<1>5. m.br_we => m.br_mem_addr \in Int /\ m.br_mem_addr >= MonTable
  BY ReportAbove DEF NoReports
<1> HIDE DEF port, q, w, m, a
<1>6. /\ a.ARB = "SEND" => port.address = snd[r].send_address
      /\ port.we => \/ port.address \in Int /\ port.address >= MonTable
                    \/ IsFlit(w, Q) /\ port.address = InHeader + w[2] /\ port.data = w
      /\ q.noc_we => port.we /\ port.address = InHeader + w[2] /\ port.data = w
  BY <1>1, <1>2, <1>3, <1>4, <1>5
<1> QED
  BY <1>6 DEF port, q, w, m, a

StoreOf(r) == IF MaySend(r) THEN Stored(Head(kernel[r].outbox)) ELSE <<>>

LEMMA MemoryOf ==
  ASSUME Tick, TableInv, NEW r \in Routers, ArbiterType(arb[r]), NEW P, AllFit(P), NEW Q, AllFit(Q),
         KernelInv(kernel[r], cfg[r], rcv[r], snd[r], mem[r], P, Q), ReceiverInv(rcv[r], arb[r]), NoReports(r),
         DOMAIN mem[r] = 0 .. RAM_SIZE - 1, MaySend(r) => Fits(Head(kernel[r].outbox))
  PROVE  /\ DOMAIN mem'[r] = 0 .. RAM_SIZE - 1
         /\ ~MaySend(r) => /\ KeepsSent(mem[r], mem'[r], P)
                           /\ MemoryServes(snd[r], mem[r], mem'[r], arb[r].ARB = "SEND", mem_data_read'[r], P)
         /\ KeepsTaken(rcv[r], mem[r], mem'[r], Q)
         /\ MaySend(r) => InMemory(mem'[r], Head(kernel[r].outbox))
<1> DEFINE q == rcv[r]
           w == q.noc_data_write
           m == mem[r]
           m2 == mem'[r]
           p == Head(kernel[r].outbox)
           port == MemoryPort(r)
           store == StoreOf(r)
           x == write_b(m, port)
<1>1. /\ arb[r].ARB = "SEND" => port.address = snd[r].send_address
      /\ port.we => \/ port.address \in Int /\ port.address >= MonTable
                    \/ IsFlit(w, Q) /\ port.address = InHeader + w[2] /\ port.data = w
      /\ q.noc_we => port.we /\ port.address = InHeader + w[2] /\ port.data = w
  BY PortIs
<1>2. m2 = [a \in DOMAIN x |-> IF a \in DOMAIN store THEN store[a] ELSE x[a]]
  BY DEF Tick, DmniClock, MemoryPort, StoreOf
<1>3. mem_data_read'[r] = read_b(m, port, mem_data_read[r])
  BY DEF Tick, DmniClock, MemoryPort
<1>4. AfterWrites(m, m2, port, store)
  <2> HIDE DEF port, store, m2, m
  <2> QED
    BY <1>2, AfterWritesIs DEF m
<1>5. DOMAIN m2 = 0 .. RAM_SIZE - 1
  BY <1>4 DEF AfterWrites
<1>6. \A a \in DOMAIN store : a \in Int /\ a < InHeader
  <2>1. CASE MaySend(r)
    BY <2>1, StoredBelow DEF StoreOf
  <2>2. CASE ~MaySend(r)
    <3>1. store = <<>>
      BY <2>2 DEF StoreOf
    <3> QED
      BY <3>1
  <2> QED
    BY <2>1, <2>2
<1>7. port.we => port.address \in Int /\ port.address >= InHeader
  <2>1. IsFlit(w, Q) => w[2] \in Nat
    BY FitPackets, FlitIs
  <2> HIDE DEF w, port, q
  <2>2. MonTable \in Int /\ InHeader \in Int /\ MonTable >= InHeader
    BY MemoryPlaces
  <2> QED
    BY <1>1, <2>1, <2>2
<1>8. KeepsTaken(q, m, m2, Q)
  <2> SUFFICES ASSUME IsFlit(q.noc_data_write, Q), Received(q, m) PROVE Delivered(q.noc_data_write, m2)
    BY DEF KeepsTaken
  <2> HIDE DEF port, store, m, m2, q
  <2> QED
    BY <1>1, <1>4, <1>6, KeepsReceived
<1>9. MaySend(r) => InMemory(m2, p)
  <2> SUFFICES ASSUME MaySend(r) PROVE InMemory(m2, p)
    OBVIOUS
  <2>1. store = Stored(p)
    BY DEF StoreOf
  <2> HIDE DEF port, store, m2, p
  <2> QED
    BY <1>4, <2>1, StoresPacket DEF p
<1>10. ASSUME ~MaySend(r) PROVE KeepsSent(m, m2, P)
  <2>1. store = <<>>
    BY <1>10 DEF StoreOf
  <2>2. \A y \in P : Fits(y)
    BY DEF AllFit
  <2> HIDE DEF port, store, m2, m
  <2> QED
    BY <1>4, <1>7, <2>1, <2>2, KeepsPacket DEF KeepsSent
<1>11. ASSUME arb[r].ARB = "SEND", InRam(snd[r].send_address) PROVE mem_data_read'[r] = m[snd[r].send_address]
  BY <1>1, <1>3, <1>11 DEF read_b
<1>12. ASSUME ~MaySend(r) PROVE MemoryServes(snd[r], m, m2, arb[r].ARB = "SEND", mem_data_read'[r], P)
  BY <1>10, <1>11, <1>12 DEF MemoryServes, KeepsSent
<1> QED
  BY <1>5, <1>8, <1>9, <1>10, <1>12

-----------------------------------------------------------------------------
(* A processing element.                                                   *)

\* A processing element: P are the packets that are sent, Q those that are for it.
ProcessorParts(r, P, Q) ==
  LET q == fila[r][LOCAL_PORT]
  IN  /\ DOMAIN mem[r] = 0 .. RAM_SIZE - 1 /\ ArbiterType(arb[r]) /\ ReportType(mon[r])
      /\ CreditInv(q, snd[r].tx)
      /\ SendInv(snd[r], q, mem[r], mem_data_read[r], P)
      /\ WordsFlow(rcv[r], Q)
      /\ KernelInv(kernel[r], cfg[r], rcv[r], snd[r], mem[r], P, Q)
      /\ ReceiverInv(rcv[r], arb[r]) /\ NoReports(r)

LEMMA FlitOfMore ==
  ASSUME NEW P, NEW P2, P \subseteq P2, NEW f, IsFlit(f, P)
  PROVE  IsFlit(f, P2)
BY DEF IsFlit

\* What is true with some packets is true with more.
LEMMA SendsMore ==
  ASSUME NEW P, NEW P2, P \subseteq P2, NEW s, NEW q, NEW m, NEW d, SendInv(s, q, m, d, P)
  PROVE  SendInv(s, q, m, d, P2)
BY DEF SendInv

LEMMA FlowsMore ==
  ASSUME NEW P, NEW P2, P \subseteq P2, NEW q, WordsFlow(q, P)
  PROVE  WordsFlow(q, P2)
BY FlitOfMore DEF WordsFlow

LEMMA KernelMore ==
  ASSUME NEW P, NEW P2, P \subseteq P2, NEW Q, NEW Q2, Q \subseteq Q2, NEW k, NEW c, NEW q, NEW s, NEW m,
         KernelInv(k, c, q, s, m, P, Q)
  PROVE  KernelInv(k, c, q, s, m, P2, Q2)
<1>1. \A words : Copying(q, Q, words) => Copying(q, Q2, words)
  BY FlitOfMore DEF Copying
<1>2. RestsInv(k.todo, c, q, s, m, P) => RestsInv(k.todo, c, q, s, m, P2)
  BY DEF RestsInv
<1>3. HeaderInv(k.todo, c, q, m, Q) => HeaderInv(k.todo, c, q, m, Q2)
  BY <1>1 DEF HeaderInv
<1>4. BodyInv(k.todo, c, q, m, Q) => BodyInv(k.todo, c, q, m, Q2)
  BY <1>1, FlitOfMore DEF BodyInv
<1> QED
  BY <1>2, <1>3, <1>4 DEF KernelInv

LEMMA PartsMore ==
  ASSUME NEW P, NEW P2, P \subseteq P2, NEW Q, NEW Q2, Q \subseteq Q2, NEW r, ProcessorParts(r, P, Q)
  PROVE  ProcessorParts(r, P2, Q2)
BY SendsMore, FlowsMore, KernelMore DEF ProcessorParts

-----------------------------------------------------------------------------
\* The kernel starts a transmission when the packet is in the memory and the transmission
\* is configured for it.
LEMMA StartsWhole ==
  ASSUME NEW k, NEW c, NEW q, NEW s, NEW m, NEW P, AllFit(P), NEW Q, AllFit(Q), KernelInv(k, c, q, s, m, P, Q),
         NEW a, ReceiverInv(q, a)
  PROVE  Starting(s, c, Command(k.todo)) => \E p \in P : InMemory(m, p) /\ StartsPacket(c, p)
<1> DEFINE t == k.todo
           h == Command(t)
           Goal == Starting(s, c, h) => \E p \in P : InMemory(m, p) /\ StartsPacket(c, p)
<1>1. /\ t \in Seq(Range(t)) /\ ConfigRecord(c) /\ k.reading \in {"nothing", "header", "body"}
      /\ k.reading = "nothing" => RestsInv(t, c, q, s, m, P)
      /\ k.reading = "header" => HeaderInv(t, c, q, m, Q)
      /\ k.reading = "body" => BodyInv(t, c, q, m, Q)
  BY DEF KernelInv
<1>2. ~q.noc_we \/ q.DMNI_Receive # "WAIT"
  BY DEF ReceiverInv
<1> HIDE DEF t
<1>a. SUFFICES Goal
  BY DEF t
<1>3. CASE k.reading = "nothing"
  BY <1>1, <1>3, RestsOn
<1>4. CASE k.reading = "header"
  <2>1. ~Starting(s, c, h)
    BY <1>1, <1>2, <1>4, HeaderOn
  <2> QED
    BY <2>1
<1>5. CASE k.reading = "body"
  <2>1. ~Starting(s, c, h)
    BY <1>1, <1>2, <1>5, BodyOn
  <2> QED
    BY <2>1
<1> QED
  BY <1>1, <1>3, <1>4, <1>5

\* What a processing element sends.
LEMMA SenderOf ==
  ASSUME Tick, TableInv, NEW r \in Routers, NEW P, AllFit(P), NEW Q, AllFit(Q), ProcessorParts(r, P, Q),
         fila[r][LOCAL_PORT].credit \in BOOLEAN, MaySend(r) => Fits(Head(kernel[r].outbox))
  PROVE  LET s == snd[r]
             h == Command(kernel[r].todo)
             q == fila[r][LOCAL_PORT]
         IN  /\ Sends(s, snd'[r], q, P)
             /\ s.DMNI_Send = "WAIT" /\ ~Starting(s, cfg[r], h) => snd'[r].DMNI_Send = "WAIT"
             /\ s.send_active <=> s.DMNI_Send # "WAIT"
             /\ \A q2 : Accepts(q, q2, snd'[r]) => SendInv(snd'[r], q2, mem'[r], mem_data_read'[r], P)
<1> DEFINE s == snd[r]
           h == Command(kernel[r].todo)
           q == fila[r][LOCAL_PORT]
           c == cfg[r]
           m == mem[r]
           data == mem_data_read[r]
           enable == (arb[r].ARB = "SEND")
           t == send(s, c, h, data, q.credit, enable)
           m2 == mem'[r]
           data2 == mem_data_read'[r]
<1>1. /\ ArbiterType(arb[r]) /\ CreditInv(q, s.tx) /\ SendInv(s, q, m, data, P)
      /\ KernelInv(kernel[r], c, rcv[r], s, m, P, Q) /\ ReceiverInv(rcv[r], arb[r]) /\ NoReports(r)
      /\ DOMAIN m = 0 .. RAM_SIZE - 1
  BY DEF ProcessorParts
<1>2. snd'[r] = t
  BY DEF Tick, DmniClock, Command, Free
<1>3. Starting(s, c, h) => \E p \in P : InMemory(m, p) /\ StartsPacket(c, p)
  BY <1>1, StartsWhole
<1>4. ~MaySend(r) => MemoryServes(s, m, m2, enable, data2, P)
  BY <1>1, MemoryOf
<1>5. s.send_active <=> s.DMNI_Send # "WAIT"
  BY <1>1 DEF SendInv
<1>6. s.DMNI_Send # "WAIT" \/ Starting(s, c, h) => ~MaySend(r)
  BY <1>5 DEF MaySend, Free, Starting, Command, NoCommand
<1>7. enable \in BOOLEAN /\ q.credit \in BOOLEAN
  OBVIOUS
<1> HIDE DEF enable, h
<1>8. /\ Sends(s, t, q, P)
      /\ (t.DMNI_Send = "WAIT" <=> (s.DMNI_Send = "WAIT" /\ ~Starting(s, c, h)) \/ s.DMNI_Send = "END")
      /\ SendsOn(s, t, q, m, c, h, enable, P)
  <2> HIDE DEF s, q, c, m, data
  <2> QED
    BY <1>1, <1>3, <1>7, SendStep
<1> HIDE DEF t
<1>9. \A q2 : Accepts(q, q2, t) => SendInv(t, q2, m2, data2, P)
  BY <1>4, <1>6, <1>8 DEF SendsOn
<1> QED
  BY <1>2, <1>5, <1>8, <1>9 DEF h

\* What a processing element receives.
LEMMA ReceptionOf ==
  ASSUME Tick, NEW r \in Routers, NEW Q, AllFit(Q), BufferInv(rcv[r]), WordsFlow(rcv[r], Q),
         Tx(PE(r)) => IsFlit(Out(PE(r)), Q) /\ Follows(LastPut(rcv[r]), Out(PE(r)))
  PROVE  /\ WordsFlow(rcv'[r], Q)
         /\ LastPut(rcv'[r]) = IF Tx(PE(r)) /\ slot_available(rcv[r]) THEN Out(PE(r)) ELSE LastPut(rcv[r])
         /\ ReceivesAs(rcv[r], rcv'[r], cfg[r], Command(kernel[r].todo).set = "start", arb[r].ARB = "RECEIVE", Q)
<1> DEFINE h == Command(kernel[r].todo)
           rx == Tx(PE(r))
           word == Out(PE(r))
           enable == (arb[r].ARB = "RECEIVE")
<1>1. rcv'[r] = receive(rcv[r], cfg[r], h, rx, word, enable)
  BY DEF Tick, DmniClock, Command, Free
<1> HIDE DEF h, rx, word, enable
<1>2. LET u == receive(rcv[r], cfg[r], h, rx, word, enable)
      IN  /\ WordsFlow(u, Q)
          /\ LastPut(u) = IF rx /\ slot_available(rcv[r]) THEN word ELSE LastPut(rcv[r])
          /\ ReceivesAs(rcv[r], u, cfg[r], h.set = "start", enable, Q)
  <2>1. rx => IsFlit(word, Q) /\ Follows(LastPut(rcv[r]), word)
    BY DEF rx, word
  <2> QED
    BY <2>1, ReceptionStep
<1> QED
  BY <1>1, <1>2 DEF h, rx, word, enable

-----------------------------------------------------------------------------
\* What a cycle makes of the arbiter and of the writing of reports.
LEMMA ReportsOf ==
  ASSUME Tick, TableInv, TableInv', NEW r \in Routers, ArbiterType(arb[r]), ReportType(mon[r]), NoReports(r)
  PROVE  ArbiterType(arb'[r]) /\ ReportType(mon'[r]) /\ NoReports(r)'
<1>1. arb'[r] = arbiter(arb[r], rcv[r], snd[r], mon[r], cfg[r], Request(r))
  BY DEF Tick, DmniClock
<1>2. ArbiterType(arb'[r])
  BY <1>1, ArbiterStep
<1>3. CASE r # MonitorAddress
  BY <1>2, <1>3, NoReportsStep
<1>4. CASE r = MonitorAddress
  <2>1. ReportType(mon'[MonitorAddress])
    BY DEF TableInv, PhaseInv
  <2> QED
    BY <1>2, <1>4, <2>1 DEF NoReports
<1> QED
  BY <1>3, <1>4

\* A cycle of a processing element.
LEMMA ProcessorStep ==
  ASSUME Tick, TableInv, TableInv', MapperInv, NEW r \in Routers, NEW P, AllFit(P), NEW Q, AllFit(Q),
         ProcessorParts(r, P, Q), BufferInv(rcv[r]), fila[r][LOCAL_PORT].credit \in BOOLEAN,
         MaySend(r) => Head(kernel[r].outbox) \in P,
         Tx(PE(r)) => IsFlit(Out(PE(r)), Q) /\ Follows(LastPut(rcv[r]), Out(PE(r))),
         Accepts(fila[r][LOCAL_PORT], fila'[r][LOCAL_PORT], snd'[r]),
         CreditInv(fila'[r][LOCAL_PORT], snd'[r].tx)
  PROVE  LET q == fila'[r][LOCAL_PORT]
         IN  /\ DOMAIN mem'[r] = 0 .. RAM_SIZE - 1 /\ ArbiterType(arb'[r]) /\ ReportType(mon'[r])
             /\ CreditInv(q, snd'[r].tx)
             /\ SendInv(snd'[r], q, mem'[r], mem_data_read'[r], P)
             /\ WordsFlow(rcv'[r], Q)
             /\ KernelInv(kernel'[r], cfg'[r], rcv'[r], snd'[r], mem'[r], P, Q)
             /\ ReceiverInv(rcv'[r], arb'[r]) /\ NoReports(r)'
<1> DEFINE h == Command(kernel[r].todo)
<1>1. /\ DOMAIN mem[r] = 0 .. RAM_SIZE - 1 /\ ArbiterType(arb[r]) /\ ReportType(mon[r])
      /\ WordsFlow(rcv[r], Q)
      /\ KernelInv(kernel[r], cfg[r], rcv[r], snd[r], mem[r], P, Q)
      /\ ReceiverInv(rcv[r], arb[r]) /\ NoReports(r)
  BY DEF ProcessorParts
<1>2. MaySend(r) => Fits(Head(kernel[r].outbox))
  BY DEF AllFit
<1>3. ArbiterType(arb'[r]) /\ ReportType(mon'[r]) /\ NoReports(r)'
  BY <1>1, ReportsOf
<1>4. /\ snd[r].DMNI_Send = "WAIT" /\ ~Starting(snd[r], cfg[r], h) => snd'[r].DMNI_Send = "WAIT"
      /\ snd[r].send_active <=> snd[r].DMNI_Send # "WAIT"
      /\ SendInv(snd'[r], fila'[r][LOCAL_PORT], mem'[r], mem_data_read'[r], P)
  BY <1>2, SenderOf
<1>5. /\ WordsFlow(rcv'[r], Q)
      /\ ReceivesAs(rcv[r], rcv'[r], cfg[r], h.set = "start", arb[r].ARB = "RECEIVE", Q)
  BY <1>1, ReceptionOf
<1>6. /\ DOMAIN mem'[r] = 0 .. RAM_SIZE - 1
      /\ ~MaySend(r) => KeepsSent(mem[r], mem'[r], P)
      /\ KeepsTaken(rcv[r], mem[r], mem'[r], Q)
      /\ MaySend(r) => InMemory(mem'[r], Head(kernel[r].outbox))
  BY <1>1, <1>2, MemoryOf
<1>7. kernel'[r] = Kernel(r)
  BY DEF Tick, KernelClock
<1>8. cfg'[r] = config(cfg[r], h)
  BY DEF Tick, DmniClock, Command, Free
<1>9. arb'[r] = arbiter(arb[r], rcv[r], snd[r], mon[r], cfg[r], Request(r))
  BY DEF Tick, DmniClock
<1>10. ReceiverInv(rcv'[r], arb'[r])
  <2> DEFINE start == (h.set = "start")
  <2>1. ReceivesAs(rcv[r], rcv'[r], cfg[r], start, arb[r].ARB = "RECEIVE", Q)
    BY <1>5
  <2> HIDE DEF start
  <2>2. \A s, m, b : ReceiverInv(rcv'[r], arbiter(arb[r], rcv[r], s, m, cfg[r], b))
    BY <1>1, <2>1, ReceiverStep
  <2> QED
    BY <1>9, <2>2
<1>11. IsPlan(plan)
  BY DEF TableInv, EnvironmentInv
<1> HIDE DEF h
<1>12. h = Command(kernel[r].todo)
  BY DEF h
<1>13. KernelInv(Kernel(r), config(cfg[r], h), rcv'[r], snd'[r], mem'[r], P, Q)
  BY <1>1, <1>4, <1>5, <1>6, <1>11, <1>12, KernelFlow
<1> QED
  BY <1>3, <1>4, <1>5, <1>6, <1>7, <1>8, <1>10, <1>13

-----------------------------------------------------------------------------
(* The reception and the network.                                          *)

USE DEF Cells

\* While a packet has words to come, its reception finds them.
LEMMA MoreWords ==
  ASSUME NEW Q, NEW q, WordsFlow(q, Q), ~Ends(q.noc_data_write)
  PROVE  Comes(q)
<1>1. ~read_av(q) => LastPut(q) = q.noc_data_write
  BY DEF WordsFlow
<1>2. q.SR = "HEADER" <=> Ends(LastPut(q))
  BY DEF WordsFlow
<1> QED
  BY <1>1, <1>2 DEF Comes

\* After a word that does not end its packet there is no header.
LEMMA NoHeaderNext ==
  ASSUME NEW Q, AllFit(Q), NEW q, BufferType(q), WordsFlow(q, Q), read_av(q), ~Ends(q.buffer[q.first])
  PROVE  ~NextIsHeader(q)
<1> DEFINE k == q.first
           n == NextCell(k)
           f == q.buffer[k]
<1>1. k \in Cells /\ n \in Cells /\ q.last \in Cells /\ Holds(q, k)
  BY HoldsFirst, NextCellIs DEF BufferType
<1>2. n = (q.first + 1) % BUFFER_SIZE
  BY DEF NextCell
<1> HIDE DEF n
<1>3. CASE n = q.last
  <2>1. k = PrevCell(q.last)
    BY <1>1, <1>3, HoldsAround DEF n
  <2>2. LastPut(q) = f
    BY <2>1 DEF LastPut
  <2>3. q.SR = "HEADER" <=> Ends(LastPut(q))
    BY DEF WordsFlow
  <2>4. q.SR # "HEADER"
    BY <2>2, <2>3
  <2> QED
    BY <1>2, <1>3, <2>4 DEF NextIsHeader
<1>4. CASE n # q.last
  <2>1. Holds(q, n) /\ n # q.first
    BY <1>1, <1>4, HoldsAround DEF n
  <2>2. PrevCell(n) = k
    BY <1>1, PrevCellIs DEF n
  <2>3. /\ IsFlit(f, Q) /\ IsFlit(q.buffer[n], Q) /\ (q.is_header[n] <=> q.buffer[n][2] = 0)
        /\ Follows(f, q.buffer[n])
    BY <1>1, <2>1, <2>2 DEF WordsFlow
  <2> DEFINE g == q.buffer[n]
  <2> HIDE DEF f, g
  <2>4. (Ends(f) <=> g[2] = 0)
    BY <2>3, FollowsIs DEF g
  <2>5. ~q.is_header[n]
    BY <2>3, <2>4 DEF f, g
  <2> QED
    BY <1>2, <1>4, <2>5 DEF NextIsHeader
<1> QED
  BY <1>3, <1>4

\* A part of a packet that is being copied goes on with words of that packet.
LEMMA CopiesPart ==
  ASSUME NEW Q, AllFit(Q), NEW q, BufferType(q), WordsFlow(q, Q), q.DMNI_Receive = "COPY_TO_MEM",
         NEW words \in Nat, Copying(q, Q, words), words <= q.noc_data_write[1].size + 2
  PROVE  Comes(q) /\ (q.recv_size # 0 /\ read_av(q) => ~NextIsHeader(q))
<1> DEFINE w == q.noc_data_write
           f == q.buffer[q.first]
<1>1. IsFlit(w, Q) /\ w[2] <= words - 2 /\ q.recv_size = words - 2 - w[2] /\ words <= w[1].size + 2
  BY DEF Copying
<1>2. read_av(q) => Follows(w, f) /\ IsFlit(f, Q)
  BY HoldsFirst DEF WordsFlow
<1> HIDE DEF w, f
<1>3. w[1].size \in Nat /\ w[2] \in Nat /\ (Ends(w) <=> w[2] = w[1].size + 1)
  BY <1>1, FitPackets, FlitIs
<1>4. ~Ends(w)
  BY <1>1, <1>3
<1>5. Comes(q)
  BY <1>4, MoreWords DEF w
<1>6. ASSUME q.recv_size # 0, read_av(q)
      PROVE  ~NextIsHeader(q)
  <2>1. (Ends(f) <=> f[2] = f[1].size + 1) /\ f[1] = w[1] /\ f[2] = w[2] + 1
    BY <1>1, <1>2, <1>4, <1>6, FollowsIs
  <2>2. ~Ends(f)
    BY <1>1, <1>3, <1>6, <2>1
  <2> QED
    BY <1>6, <2>2, NoHeaderNext DEF f
<1> QED
  BY <1>5, <1>6

\* So does the part that begins with a header.
LEMMA CopiesHeader ==
  ASSUME NEW Q, AllFit(Q), NEW q, BufferType(q), WordsFlow(q, Q), HeaderBegins(q)
  PROVE  Comes(q) /\ ~NextIsHeader(q)
<1> DEFINE w == q.noc_data_write
           f == q.buffer[q.first]
<1>1. read_av(q) /\ Ends(w)
  BY DEF HeaderBegins
<1>2. Follows(w, f) /\ IsFlit(f, Q) /\ (w = NoFlit \/ IsFlit(w, Q))
  BY <1>1, HoldsFirst DEF WordsFlow
<1> HIDE DEF w, f
<1>3. (Ends(f) <=> f[2] = f[1].size + 1) /\ (Ends(w) <=> f[2] = 0) /\ f[1].size \in Nat
  BY <1>2, FollowsIs
<1>4. ~Ends(f)
  BY <1>1, <1>3
<1> QED
  BY <1>1, <1>4, NoHeaderNext DEF f, Comes

\* What the reception relies on.
LEMMA ReceptionRelies ==
  ASSUME NEW P, NEW Q, AllFit(Q), NEW k, NEW c, NEW q, NEW s, NEW m, KernelInv(k, c, q, s, m, P, Q),
         BufferType(q), WordsFlow(q, Q), q.DMNI_Receive = "COPY_TO_MEM"
  PROVE  Comes(q) /\ (q.recv_size # 0 /\ read_av(q) => ~NextIsHeader(q))
<1>1. k.reading # "nothing"
  BY DEF KernelInv, RestsInv
<1>2. CASE k.reading = "header"
  <2>1. HeaderInv(k.todo, c, q, m, Q)
    BY <1>2 DEF KernelInv
  <2>2. HeaderBegins(q) \/ Copying(q, Q, CONSTANT_PACKET_SIZE)
    BY <2>1 DEF HeaderInv
  <2>3. CASE HeaderBegins(q)
    BY <2>3, CopiesHeader
  <2>4. CASE Copying(q, Q, CONSTANT_PACKET_SIZE)
    <3> DEFINE w == q.noc_data_write
    <3>1. IsFlit(w, Q)
      BY <2>4 DEF Copying
    <3> HIDE DEF w
    <3>2. CONSTANT_PACKET_SIZE <= w[1].size + 2 /\ CONSTANT_PACKET_SIZE \in Nat
      BY <3>1, FitPackets, FlitIs
    <3> QED
      BY <2>4, <3>2, CopiesPart DEF w
  <2> QED
    BY <2>2, <2>3, <2>4
<1>3. CASE k.reading = "body"
  <2> DEFINE w == q.noc_data_write
             words == w[1].size + 2
  <2>1. BodyInv(k.todo, c, q, m, Q)
    BY <1>3 DEF KernelInv
  <2>2. Copying(q, Q, words) /\ IsFlit(w, Q)
    BY <2>1 DEF BodyInv
  <2>3. w[1].size \in Nat
    <3> HIDE DEF w
    <3> QED
      BY <2>2, FitPackets, FlitIs
  <2>4. words \in Nat /\ words <= w[1].size + 2
    BY <2>3
  <2> HIDE DEF words
  <2> QED
    BY <2>2, <2>4, CopiesPart
<1> QED
  BY <1>1, <1>2, <1>3 DEF KernelInv

\* What a reception is started with.
LEMMA StartRelies ==
  ASSUME NEW P, AllFit(P), NEW Q, AllFit(Q), NEW k, NEW c, NEW q, NEW s, NEW m, KernelInv(k, c, q, s, m, P, Q),
         WordsFlow(q, Q), k.todo # <<>>, Head(k.todo).set = "start", c.operation = 1, q.DMNI_Receive = "WAIT"
  PROVE  /\ c.address # 0 /\ Comes(q)
         /\ c.address \in Nat /\ c.size \in Nat \ {0} /\ c.address + c.size <= MonTable
<1> DEFINE t == k.todo
<1>1. /\ t \in Seq(Range(t)) /\ ConfigRecord(c) /\ t # <<>> /\ Head(t).set = "start"
      /\ k.reading \in {"nothing", "header", "body"}
      /\ k.reading = "nothing" => RestsInv(t, c, q, s, m, P)
      /\ k.reading = "header" => HeaderInv(t, c, q, m, Q)
      /\ k.reading = "body" => BodyInv(t, c, q, m, Q)
  BY DEF KernelInv
<1> HIDE DEF t
<1>2. k.reading # "nothing"
  <2> SUFFICES ASSUME k.reading = "nothing" PROVE FALSE
    OBVIOUS
  <2>1. ~Opening(Command(t), c)
    BY <1>1, RestsOn
  <2> QED
    BY <1>1, <2>1 DEF Opening, Command
<1>3. /\ InHeader = 1 + CONSTANT_PACKET_SIZE + BODY_SIZE
      /\ InBody = InHeader + CONSTANT_PACKET_SIZE /\ MonTable = InBody + BODY_SIZE
      /\ CONSTANT_PACKET_SIZE \in Nat /\ CONSTANT_PACKET_SIZE > 8 /\ BODY_SIZE \in Nat
  BY MemoryPlaces
<1>4. CASE k.reading = "header"
  <2>1. read_av(q) /\ Programs(c, t, InHeader, CONSTANT_PACKET_SIZE)
    BY <1>1, <1>4 DEF HeaderInv
  <2>2. c.address = InHeader /\ c.size = CONSTANT_PACKET_SIZE
    BY <1>1, <2>1, ReceiveProgram
  <2>3. Comes(q)
    BY <2>1 DEF Comes
  <2> QED
    BY <1>3, <2>2, <2>3
<1>5. CASE k.reading = "body"
  <2> DEFINE w == q.noc_data_write
             size == (w[1].size + 2) - CONSTANT_PACKET_SIZE
  <2>0. BodyInv(t, c, q, m, Q)
    BY <1>1, <1>5
  <2>1. /\ Programs(c, t, InBody, size) /\ IsFlit(w, Q) /\ w[1].size + 2 > CONSTANT_PACKET_SIZE
        /\ w[2] = CONSTANT_PACKET_SIZE - 1
    BY <1>1, <2>0 DEF BodyInv
  <2> HIDE DEF size
  <2>2. c.address = InBody /\ c.size = size
    BY <1>1, <2>1, ReceiveProgram
  <2> HIDE DEF w
  <2>3. /\ w[1].size \in Nat /\ w[1].size + 2 <= CONSTANT_PACKET_SIZE + BODY_SIZE
        /\ (Ends(w) <=> w[2] = w[1].size + 1)
    BY <2>1, FitPackets, FlitIs
  <2>4. ~Ends(w)
    BY <1>3, <2>1, <2>3
  <2>5. Comes(q)
    BY <2>4, MoreWords DEF w
  <2>6. size \in Nat \ {0} /\ size <= BODY_SIZE
    BY <1>3, <2>1, <2>3 DEF size
  <2> QED
    BY <1>3, <2>2, <2>5, <2>6
<1> QED
  BY <1>1, <1>2, <1>4, <1>5

\* The kernels behave while the processing elements are as they should be.
LEMMA Behave ==
  ASSUME PacketsFit, BuffersInv,
         \A r \in Routers : /\ AllFit(SentTo(r)) /\ ReceiverInv(rcv[r], arb[r]) /\ WordsFlow(rcv[r], SentTo(r))
                            /\ KernelInv(kernel[r], cfg[r], rcv[r], snd[r], mem[r], SentPackets, SentTo(r)),
         AllFit(SentPackets)
  PROVE  ReceivesByPacket /\ LeavesTable
<1>1. ASSUME NEW r \in Routers
      PROVE  /\ KernelInv(kernel[r], cfg[r], rcv[r], snd[r], mem[r], SentPackets, SentTo(r))
             /\ BufferType(rcv[r]) /\ WordsFlow(rcv[r], SentTo(r)) /\ AllFit(SentTo(r))
  BY DEF BuffersInv, BufferInv
<1>2. ASSUME NEW r \in Routers, Starts(r)
      PROVE  /\ cfg[r].address # 0 /\ Comes(rcv[r])
             /\ cfg[r].address \in Nat /\ cfg[r].size \in Nat \ {0} /\ cfg[r].address + cfg[r].size <= MonTable
  <2>1. kernel[r].todo # <<>> /\ Head(kernel[r].todo).set = "start" /\ cfg[r].operation = 1 /\ rcv[r].DMNI_Receive = "WAIT"
    BY <1>2 DEF Starts, Free
  <2> QED
    BY <1>1, <2>1, StartRelies
<1>3. ASSUME NEW r \in Routers, rcv[r].DMNI_Receive = "COPY_TO_MEM"
      PROVE  Comes(rcv[r]) /\ (rcv[r].recv_size # 0 /\ read_av(rcv[r]) => ~NextIsHeader(rcv[r]))
  BY <1>1, <1>3, ReceptionRelies
<1>4. ReceivesByPacket
  BY <1>2, <1>3 DEF ReceivesByPacket
<1>5. MonitorAddress \in Routers
  BY Sizes
<1>6. ASSUME MaySend(MonitorAddress), NEW a \in DOMAIN Stored(Head(kernel[MonitorAddress].outbox))
      PROVE  a < MonTable
  <2> DEFINE s == kernel[MonitorAddress].outbox
  <2>1. s # <<>>
    BY <1>6 DEF MaySend
  <2>2. s \in Seq(Range(s))
    BY <1>1, <1>5 DEF KernelInv
  <2>3. \A i \in DOMAIN s : Fits(s[i])
    BY <1>5 DEF PacketsFit
  <2> HIDE DEF s
  <2>4. Fits(Head(s))
    BY <2>1, <2>2, <2>3
  <2>5. a \in Int /\ a < InHeader
    BY <1>6, <2>4, StoredBelow DEF s
  <2> QED
    BY <2>5, MemoryPlaces
<1> QED
  BY <1>2, <1>4, <1>5, <1>6 DEF LeavesTable

HIDE DEF Cells

-----------------------------------------------------------------------------
(* The injectors.  k is an injector, q the queue it sends to, open whether *)
(* its port is open.                                                       *)

\* What the transmission of an injector reads and writes is as it was.
Announced == {"DATA_AV", "WAIT_REQUEST", "PACKET"}
SameSend(i, j) ==
  /\ DOMAIN j = DOMAIN i
  /\ j.send = i.send /\ j.last_state = i.last_state /\ j.tx = i.tx /\ j.data_out = i.data_out
  /\ j.aux_pkt = i.aux_pkt /\ j.aux_idx = i.aux_idx /\ j.pkt_idx = i.pkt_idx
  /\ Stage(i) \in Announced => j.packet = i.packet /\ j.monitor = i.monitor

LEMMA StageKept ==
  ASSUME NEW i, NEW j, SameSend(i, j)
  PROVE  /\ Stage(j) = Stage(i) /\ NextIdx(j) = NextIdx(i)
         /\ Stage(i) \in Driving => Current(j) = Current(i)
BY DEF SameSend, Stage, NextIdx, Current, Announced, Driving

LEMMA InjectKept ==
  ASSUME NEW k, NEW i, NEW j, SameSend(i, j), NEW q, NEW open, NEW P, InjectInv(k, i, q, open, P)
  PROVE  InjectInv(k, j, q, open, P)
<1>1. /\ Stage(j) = Stage(i) /\ NextIdx(j) = NextIdx(i)
      /\ Stage(i) \in Driving => Current(j) = Current(i)
  BY StageKept
<1>2. /\ j.send = i.send /\ j.last_state = i.last_state /\ j.tx = i.tx /\ j.data_out = i.data_out
      /\ Stage(i) \in Announced => j.monitor = i.monitor
  BY DEF SameSend
<1>3. i.send \in Driving \/ i.send = "WAIT_CREDIT" \/ i.tx => Stage(i) \in Driving
  BY DEF InjectInv, StageInv, Stage, Driving
<1>4. StageInv(k, j, P)
  <2>1. StageInv(k, i, P)
    BY DEF InjectInv
  <2> QED
    BY <1>1, <1>2, <1>3, <2>1 DEF StageInv, Announced
<1> QED
  BY <1>1, <1>2, <1>3, <1>4 DEF InjectInv

LEMMA InjectMore ==
  ASSUME NEW P, NEW P2, P \subseteq P2, NEW k, NEW i, NEW q, NEW open, InjectInv(k, i, q, open, P)
  PROVE  InjectInv(k, i, q, open, P2)
BY DEF InjectInv, StageInv

\* A packet is not replaced while it waits, and the process that decides what comes next
\* changes nothing else of the transmission.
LEMMA MonitorKeeps ==
  ASSUME NEW k \in Injectors, NEW i, InjectorType(k, i), Stage(i) \in Announced => i.monitor \in Waiting(k)
  PROVE  LET j == IF k = MA THEN ma_boot(i) ELSE monitor_new_app(i)
         IN  SameSend(i, j) /\ InjectorType(k, j)
<1> DEFINE Goal(j) == SameSend(i, j) /\ InjectorType(k, j)
<1>1. /\ SendFields \cup {"monitor", "rcv", "credit"} \subseteq DOMAIN i
      /\ i.monitor \in MonitorStates(k) /\ i.rcv \in ReceiveStates /\ i.credit \in BOOLEAN
  BY DEF InjectorType
<1>2. ASSUME i.send = "FINISHED" PROVE Stage(i) \notin Announced
  BY <1>2 DEF Stage, Announced
<1>3. Goal(i)
  BY <1>1 DEF SameSend, InjectorType
<1>4. ASSUME Stage(i) \notin Announced, NEW p, NEW m \in MonitorStates(k)
      PROVE  Goal([i EXCEPT !.packet = p, !.monitor = m])
  BY <1>1, <1>4 DEF SameSend, InjectorType, SendFields
<1>5. ASSUME Stage(i) \notin Announced, NEW p, NEW m \in MonitorStates(k)
      PROVE  Goal([i EXCEPT !.sent_task = p, !.monitor = m])
  BY <1>1, <1>5 DEF SameSend, InjectorType, SendFields
<1>6. ASSUME Stage(i) \notin Announced, NEW m \in MonitorStates(k)
      PROVE  Goal([i EXCEPT !.monitor = m])
  BY <1>1, <1>6 DEF SameSend, InjectorType, SendFields
<1>7. ASSUME Stage(i) \notin Announced, NEW a, NEW b, NEW m \in MonitorStates(k)
      PROVE  Goal([i EXCEPT !.app = a, !.apps = b, !.monitor = m])
  BY <1>1, <1>7 DEF SameSend, InjectorType, SendFields
<1> HIDE DEF Goal
<1>8. ASSUME k = MA PROVE Goal(ma_boot(i))
  <2>1. MonitorStates(k) = {"BOOT_WAIT", "BOOT_TASKS", "BOOT_SEND", "BOOT_INIT", "BOOT_MAP", "BOOT_CONFIRM", "BOOT_FINISHED"}
        /\ Waiting(k) = {"BOOT_WAIT", "BOOT_TASKS", "BOOT_SEND"}
    BY <1>8, SMTT(30) DEF MonitorStates, Waiting
  <2>2. CASE i.monitor = "BOOT_INIT"
    BY <2>1, <2>2, <1>4, ZenonT(30) DEF ma_boot
  <2>3. CASE i.monitor = "BOOT_WAIT"
    BY <2>1, <2>3, <1>2, <1>3, <1>4, ZenonT(30) DEF ma_boot
  <2>4. CASE i.monitor = "BOOT_TASKS"
    BY <2>1, <2>4, <1>2, <1>3, <1>5, ZenonT(30) DEF ma_boot
  <2>5. CASE i.monitor = "BOOT_MAP"
    BY <2>1, <2>5, <1>3, <1>4, <1>6, ZenonT(30) DEF ma_boot
  <2>6. CASE i.monitor = "BOOT_SEND"
    <3> DEFINE m == IF i.sent_task + 1 < Pairs(i) THEN "BOOT_MAP" ELSE "BOOT_CONFIRM"
               n == i.sent_task + 1
    <3>1. ma_boot(i) = IF i.send # "FINISHED" THEN i ELSE [i EXCEPT !.sent_task = n, !.monitor = m]
      BY <2>6 DEF ma_boot
    <3>2. m \in MonitorStates(k)
      BY <2>1
    <3> HIDE DEF m, n
    <3> QED
      BY <1>2, <1>3, <1>5, <3>1, <3>2
  <2>7. CASE i.monitor = "BOOT_CONFIRM"
    BY <2>1, <2>7, <1>3, <1>6 DEF ma_boot
  <2>8. CASE i.monitor = "BOOT_FINISHED"
    BY <2>8, <1>3 DEF ma_boot
  <2> QED
    BY <1>1, <2>1, <2>2, <2>3, <2>4, <2>5, <2>6, <2>7, <2>8
<1>9. ASSUME k = App PROVE Goal(monitor_new_app(i))
  <2>1. /\ MonitorStates(k) = {"SEND_NEW_APP", "SEND_TASK", "SEND_FINISH", "IDLE", "ACTIVE", "WAIT_TIME", "MAP"}
        /\ Waiting(k) = {"SEND_NEW_APP", "SEND_TASK", "SEND_FINISH"}
    BY <1>9 DEF MonitorStates, Waiting, App, MA
  <2>2. CASE i.monitor = "IDLE"
    BY <2>1, <2>2, <1>3, <1>6, SMTT(30) DEF monitor_new_app
  <2>3. CASE i.monitor = "ACTIVE"
    BY <2>1, <2>3, <1>3, <1>4, <1>7, ZenonT(30) DEF monitor_new_app
  <2>4. CASE i.monitor = "WAIT_TIME"
    BY <2>1, <2>4, <1>3, <1>4, ZenonT(30) DEF monitor_new_app
  <2>5. CASE i.monitor = "SEND_NEW_APP"
    BY <2>1, <2>5, <1>2, <1>3, <1>5, ZenonT(30) DEF monitor_new_app
  <2>6. CASE i.monitor = "MAP"
    BY <2>1, <2>6, <1>3, <1>4, ZenonT(30) DEF monitor_new_app
  <2>7. CASE i.monitor = "SEND_TASK"
    <3> DEFINE m == IF i.sent_task + 1 < Pairs(i) THEN "MAP" ELSE "IDLE"
               n == i.sent_task + 1
    <3>1. monitor_new_app(i) = IF i.send # "FINISHED" THEN i ELSE [i EXCEPT !.sent_task = n, !.monitor = m]
      BY <2>7 DEF monitor_new_app
    <3>2. m \in MonitorStates(k)
      BY <2>1
    <3> HIDE DEF m, n
    <3> QED
      BY <1>2, <1>3, <1>5, <3>1, <3>2
  <2>8. CASE i.monitor = "SEND_FINISH"
    BY <2>1, <2>8, <1>2, <1>3, <1>6 DEF monitor_new_app
  <2> QED
    BY <1>1, <2>1, <2>2, <2>3, <2>4, <2>5, <2>6, <2>7, <2>8
<1>10. App # MA
  BY DEF App, MA
<1> QED
  BY <1>8, <1>9, <1>10 DEF Injectors, Goal

\* The process that receives changes nothing of the transmission.
LEMMA ReceiveKeeps ==
  ASSUME NEW k, NEW i, InjectorType(k, i), NEW rx, NEW f, NEW allocated, NEW c \in BOOLEAN
  PROVE  LET j == [Receiving(i, rx, f, allocated) EXCEPT !.credit = c]
         IN  SameSend(i, j) /\ InjectorType(k, j)
<1> DEFINE Goal(x) == SameSend(i, x) /\ InjectorType(k, x)
<1>1. Goal(i)
  BY DEF SameSend, InjectorType
<1>2. ASSUME NEW x, Goal(x), NEW v \in ReceiveStates PROVE Goal([x EXCEPT !.rcv = v])
  BY <1>2 DEF SameSend, InjectorType, SendFields
<1>3. ASSUME NEW x, Goal(x), NEW v PROVE Goal([x EXCEPT !.flit_counter = v])
  BY <1>3 DEF SameSend, InjectorType, SendFields
<1>4. ASSUME NEW x, Goal(x), NEW v PROVE Goal([x EXCEPT !.packet_in = v])
  BY <1>4 DEF SameSend, InjectorType, SendFields
<1>5. ASSUME NEW x, Goal(x), NEW v, NEW w, NEW s \in ReceiveStates
      PROVE  Goal([x EXCEPT !.payload_size = v, !.flit_counter = w, !.rcv = s])
  BY <1>5 DEF SameSend, InjectorType, SendFields
<1>6. ASSUME NEW x, Goal(x), NEW v, NEW s \in ReceiveStates PROVE Goal([x EXCEPT !.packet_in = v, !.rcv = s])
  BY <1>6 DEF SameSend, InjectorType, SendFields
<1>7. ASSUME NEW x, Goal(x) PROVE Goal([x EXCEPT !.credit = c])
  BY <1>7 DEF SameSend, InjectorType, SendFields
<1>8. ASSUME NEW x, Goal(x) PROVE x.rcv \in ReceiveStates
  BY <1>8 DEF InjectorType
<1> HIDE DEF Goal
<1>9. ASSUME NEW x, Goal(x) PROVE Goal(Counted(x))
  BY <1>3, <1>9 DEF Counted
<1>10. Goal(Collect(i, f))
  BY <1>1, <1>4 DEF Collect
<1>11. Goal(Taken(i, f))
  <2> DEFINE v == IF Service(f) \in DOMAIN AfterService THEN AfterService[Service(f)] ELSE i.rcv
  <2>1. v \in ReceiveStates
    BY <1>1, <1>8 DEF AfterService, ReceiveStates
  <2> HIDE DEF v
  <2>2. Goal([Counted(i) EXCEPT !.rcv = v])
    BY <1>1, <1>2, <1>9, <2>1
  <2>3. Goal([i EXCEPT !.rcv = "PAYLOAD_SIZE"])
    BY <1>1, <1>2, ZenonT(30) DEF ReceiveStates
  <2>4. Goal([i EXCEPT !.payload_size = AsCount(f), !.flit_counter = 0, !.rcv = "SERVICE"])
    BY <1>1, <1>5, ZenonT(30) DEF ReceiveStates
  <2> QED
    BY <1>1, <1>9, <1>10, <2>2, <2>3, <2>4 DEF Taken, v
<1>12. ASSUME NEW x, Goal(x) PROVE Complete(x) \in ReceiveStates
  BY <1>8, <1>12 DEF Complete, ReceiveStates
<1>13. Goal(Receiving(i, rx, f, allocated))
  <2> DEFINE j == IF rx /\ i.credit THEN Taken(i, f) ELSE i
             v == Complete(j)
  <2>1. Goal(j)
    BY <1>1, <1>11
  <2>2. v \in ReceiveStates
    BY <1>12, <2>1
  <2>3. Receiving(i, rx, f, allocated) \in {i, j, [j EXCEPT !.rcv = v], [i EXCEPT !.rcv = "HEADER"],
                                            [i EXCEPT !.packet_in = <<>>, !.rcv = "HEADER"]}
    BY <1>1, <1>8, SMTT(30) DEF Receiving, ReceiveStates
  <2> HIDE DEF j, v
  <2>4. Goal([j EXCEPT !.rcv = v]) /\ Goal([i EXCEPT !.rcv = "HEADER"])
        /\ Goal([i EXCEPT !.packet_in = <<>>, !.rcv = "HEADER"])
    BY <1>1, <1>2, <1>6, <2>1, <2>2, ZenonT(30) DEF ReceiveStates
  <2> QED
    BY <1>1, <2>1, <2>3, <2>4
<1> QED
  BY <1>7, <1>13 DEF Goal

-----------------------------------------------------------------------------
\* What a cycle of the transmission leaves, until the other processes have run.
Injects(k, j, q, open, P) ==
  /\ InjectorType(k, j) /\ StageInv(k, j, P)
  /\ j.tx /\ in_proc_FSM(q) => IsFlit(j.data_out, P) /\ Follows(LastIn(q), j.data_out)
  /\ \A q2 : Accepts(q, q2, j) => InjectInv(k, j, q2, open, P)

LEMMA InjectsKept ==
  ASSUME NEW k, NEW i, NEW q, NEW open, NEW P, Injects(k, i, q, open, P), NEW j, SameSend(i, j), InjectorType(k, j)
  PROVE  Injects(k, j, q, open, P)
<1>1. /\ StageInv(k, i, P)
      /\ i.tx /\ in_proc_FSM(q) => IsFlit(i.data_out, P) /\ Follows(LastIn(q), i.data_out)
      /\ \A q2 : Accepts(q, q2, i) => InjectInv(k, i, q2, open, P)
  BY DEF Injects
<1>2. j.tx = i.tx /\ j.data_out = i.data_out
  BY DEF SameSend
<1>3. ASSUME NEW q2, Accepts(q, q2, j) PROVE InjectInv(k, j, q2, open, P)
  <2>1. Accepts(q, q2, i)
    BY <1>2, <1>3 DEF Accepts
  <2> QED
    BY <1>1, <2>1, InjectKept
<1>4. StageInv(k, j, P)
  <2>1. /\ Stage(j) = Stage(i) /\ NextIdx(j) = NextIdx(i)
        /\ Stage(i) \in Driving => Current(j) = Current(i)
    BY StageKept
  <2>2. i.send = "WAIT_CREDIT" \/ i.tx => Stage(i) \in Driving
    BY <1>1 DEF StageInv, Stage, Driving
  <2> QED
    BY <1>1, <2>1, <2>2 DEF StageInv, SameSend, Announced
<1> QED
  BY <1>1, <1>2, <1>3, <1>4 DEF Injects

-----------------------------------------------------------------------------
(* The transmission of an injector.                                        *)

SamePackets(i, j) ==
  /\ DOMAIN j = DOMAIN i /\ j.monitor = i.monitor /\ j.rcv = i.rcv /\ j.credit = i.credit
  /\ j.packet = i.packet /\ j.aux_pkt = i.aux_pkt

LEMMA FlitsOf ==
  ASSUME NEW p, p.size \in Nat
  PROVE  Len(Flits(p)) = p.size + 2 /\ \A n \in 0 .. p.size + 1 : Flits(p)[n + 1] = <<p, n>>
<1>1. DOMAIN Flits(p) = 1 .. p.size + 2
  BY DEF Flits
<1>2. Len(Flits(p)) = p.size + 2
  <2> DEFINE m == p.size + 2
             e(x) == <<p, x - 1>>
             s == [x \in 1 .. m |-> e(x)]
  <2>1. m \in Nat /\ Flits(p) = s
    BY DEF Flits
  <2> HIDE DEF m, e
  <2>2. s \in Seq({e(x) : x \in 1 .. m})
    BY <2>1
  <2>3. DOMAIN s = 1 .. m
    OBVIOUS
  <2> HIDE DEF s
  <2>4. Len(s) = m
    BY <2>1, <2>2, <2>3
  <2> QED
    BY <2>1, <2>4 DEF m
<1>3. ASSUME NEW n \in 0 .. p.size + 1 PROVE Flits(p)[n + 1] = <<p, n>>
  <2>1. n + 1 \in 1 .. p.size + 2 /\ (n + 1) - 1 = n
    OBVIOUS
  <2> QED
    BY <2>1 DEF Flits
<1> QED
  BY <1>2, <1>3

\* What the process that sends makes of a packet that it drives: it waits, has finished or
\* drives one more flit.
WaitsForCredit(i, j) ==
  /\ j.tx = FALSE /\ j.send = "WAIT_CREDIT" /\ j.last_state = i.send /\ j.data_out = i.data_out
  /\ j.aux_idx = i.aux_idx /\ j.pkt_idx = i.pkt_idx
HasSent(i, j, after) == NextIdx(i) = Current(i).size + 2 /\ j.tx = FALSE /\ j.send = after
DrivesOn(i, j) ==
  /\ NextIdx(i) # Current(i).size + 2 /\ j.tx = TRUE /\ j.send = i.send
  /\ j.data_out = <<Current(i), NextIdx(i)>> /\ NextIdx(j) = NextIdx(i) + 1

LEMMA DriveFields ==
  ASSUME NEW k, NEW i, InjectorType(k, i), i.send \in Driving, Current(i).size \in Nat,
         NextIdx(i) \in 0 .. Current(i).size + 2, NEW after, NEW credit_in \in BOOLEAN
  PROVE  LET j == IF i.send = "PACKET" THEN DrivePacket(i, credit_in) ELSE DriveAux(i, after, credit_in)
         IN  /\ SamePackets(i, j)
             /\ \/ ~credit_in /\ WaitsForCredit(i, j)
                \/ credit_in /\ HasSent(i, j, IF i.send = "PACKET" THEN "FINISHED" ELSE after)
                \/ credit_in /\ DrivesOn(i, j)
<1> DEFINE p == Current(i)
           n == NextIdx(i)
           next == IF i.send = "PACKET" THEN "FINISHED" ELSE after
           j == IF i.send = "PACKET" THEN DrivePacket(i, credit_in) ELSE DriveAux(i, after, credit_in)
           d == Drive(i, p, n, next, credit_in)
<1>1. SendFields \cup {"monitor", "rcv", "credit"} \subseteq DOMAIN i
  BY DEF InjectorType
<1>2. p = (IF i.send = "PACKET" THEN i.packet ELSE i.aux_pkt) /\ n = (IF i.send = "PACKET" THEN i.pkt_idx ELSE i.aux_idx)
  BY DEF Current, NextIdx, Stage, Driving
<1>3. j = IF i.send = "PACKET" THEN [d EXCEPT !.pkt_idx = IF d.tx THEN n + 1 ELSE n]
          ELSE [d EXCEPT !.aux_idx = IF d.tx THEN n + 1 ELSE n]
  BY <1>2 DEF DrivePacket, DriveAux
<1>4. Len(Flits(p)) = p.size + 2 /\ \A x \in 0 .. p.size + 1 : Flits(p)[x + 1] = <<p, x>>
  BY FlitsOf
<1>5. d = CASE ~credit_in -> [i EXCEPT !.tx = FALSE, !.last_state = i.send, !.send = "WAIT_CREDIT"]
            [] credit_in /\ n = p.size + 2 -> [i EXCEPT !.tx = FALSE, !.send = next]
            [] OTHER -> [i EXCEPT !.tx = TRUE, !.data_out = <<p, n>>]
  <2>1. CASE n = p.size + 2
    BY <1>4, <2>1 DEF Drive
  <2>2. CASE n # p.size + 2
    <3>1. Flits(p)[n + 1] = <<p, n>>
      BY <1>4, <2>2
    <3> HIDE DEF p, n, next
    <3> QED
      BY <1>4, <2>2, <3>1 DEF Drive
  <2> QED
    BY <2>1, <2>2
<1> HIDE DEF p, n, next, d, j
<1>6. CASE ~credit_in
  <2>1. d = [i EXCEPT !.tx = FALSE, !.last_state = i.send, !.send = "WAIT_CREDIT"]
    BY <1>5, <1>6
  <2>2. SamePackets(i, d) /\ WaitsForCredit(i, d)
    BY <1>1, <2>1 DEF SamePackets, WaitsForCredit, SendFields
  <2>3. j = IF i.send = "PACKET" THEN [d EXCEPT !.pkt_idx = n] ELSE [d EXCEPT !.aux_idx = n]
    BY <1>3, <2>2 DEF WaitsForCredit
  <2>4. SamePackets(i, j) /\ WaitsForCredit(i, j)
    BY <1>1, <1>2, <2>2, <2>3 DEF SamePackets, WaitsForCredit, SendFields
  <2> QED
    BY <1>6, <2>4 DEF j
<1>7. CASE credit_in /\ n = p.size + 2
  <2>1. d = [i EXCEPT !.tx = FALSE, !.send = next]
    BY <1>5, <1>7
  <2>2. SamePackets(i, d) /\ d.tx = FALSE /\ d.send = next
    BY <1>1, <2>1 DEF SamePackets, SendFields
  <2>3. j = IF i.send = "PACKET" THEN [d EXCEPT !.pkt_idx = n] ELSE [d EXCEPT !.aux_idx = n]
    BY <1>3, <2>2
  <2>4. SamePackets(i, j) /\ j.tx = FALSE /\ j.send = next
    BY <1>1, <2>2, <2>3 DEF SamePackets, SendFields
  <2> QED
    BY <1>7, <2>4 DEF j, HasSent, n, p, next
<1>8. CASE credit_in /\ n # p.size + 2
  <2>1. d = [i EXCEPT !.tx = TRUE, !.data_out = <<p, n>>]
    BY <1>5, <1>8
  <2>2. SamePackets(i, d) /\ d.tx = TRUE /\ d.send = i.send /\ d.data_out = <<p, n>>
    BY <1>1, <2>1 DEF SamePackets, SendFields
  <2>3. j = IF i.send = "PACKET" THEN [d EXCEPT !.pkt_idx = n + 1] ELSE [d EXCEPT !.aux_idx = n + 1]
    BY <1>3, <2>2
  <2>4. /\ SamePackets(i, j) /\ j.tx = TRUE /\ j.send = i.send /\ j.data_out = <<p, n>>
        /\ IF i.send = "PACKET" THEN j.pkt_idx = n + 1 ELSE j.aux_idx = n + 1
    BY <1>1, <2>1, <2>2, <2>3 DEF SamePackets, SendFields
  <2>5. NextIdx(j) = n + 1
    BY <2>4 DEF NextIdx, Stage, Driving
  <2> QED
    BY <1>8, <2>4, <2>5 DEF j, DrivesOn, n, p
<1> QED
  BY <1>6, <1>7, <1>8

\* Who begins a packet has credit for its first flit.
LEMMA Beginning ==
  ASSUME NEW k, NEW j, InjectorType(k, j), NEW q, q.credit, CreditInv(q, FALSE), Ends(LastIn(q)),
         NEW open, open, NEW P, j.send \in Driving, j.tx = FALSE, NextIdx(j) = 0, Current(j) \in P,
         Current(j).size \in Nat, j.send # "MSG_REQUEST" => j.monitor \in Waiting(k)
  PROVE  Injects(k, j, q, open, P)
<1>1. Stage(j) = j.send
  BY DEF Stage, Driving
<1>0. NextIdx(j) \in 0 .. Current(j).size + 2
  OBVIOUS
<1>2. StageInv(k, j, P)
  BY <1>0, <1>1 DEF StageInv, Driving
<1>3. in_proc_FSM(q)
  BY DEF CreditInv, in_proc_FSM
<1>4. ASSUME NEW q2, Accepts(q, q2, j) PROVE InjectInv(k, j, q2, open, P)
  <2>1. q2.credit /\ LastIn(q2) = LastIn(q)
    BY <1>3, <1>4 DEF Accepts
  <2> QED
    BY <1>2, <2>1 DEF InjectInv, Driving
<1> QED
  BY <1>2, <1>4 DEF Injects

\* Who sends nothing waits for nothing.
LEMMA Resting ==
  ASSUME NEW k, NEW j, InjectorType(k, j), NEW q, NEW open, NEW P, j.tx = FALSE, Ends(LastIn(q)),
         j.send \in {"IDLE", "WAIT_REQUEST", "FINISHED"}, j.send # "IDLE" => open,
         j.send = "WAIT_REQUEST" => j.monitor \in Waiting(k)
  PROVE  Injects(k, j, q, open, P)
<1>1. Stage(j) = j.send
  BY DEF Stage
<1>2. StageInv(k, j, P)
  BY <1>1 DEF StageInv, Driving
<1>3. ASSUME NEW q2, Accepts(q, q2, j) PROVE InjectInv(k, j, q2, open, P)
  <2>1. LastIn(q2) = LastIn(q)
    BY <1>3 DEF Accepts
  <2> QED
    BY <1>2, <2>1 DEF InjectInv, Driving
<1> QED
  BY <1>2, <1>3 DEF Injects

\* Who drives a flit drives the next one.
LEMMA GoesOn ==
  ASSUME NEW k, NEW j, InjectorType(k, j), NEW P, AllFit(P), NEW q, NEW open, open,
         j.send \in Driving, j.tx = TRUE, Current(j) \in P, Stage(j) # "MSG_REQUEST" => j.monitor \in Waiting(k),
         NextIdx(j) \in 1 .. Current(j).size + 2, j.data_out = <<Current(j), NextIdx(j) - 1>>,
         Upto(LastIn(q), Current(j), NextIdx(j) - 1)
  PROVE  Injects(k, j, q, open, P)
<1> DEFINE p == Current(j)
           n == NextIdx(j) - 1
           f == <<p, n>>
<1>1. Stage(j) = j.send
  BY DEF Stage, Driving
<1>2. p.size \in Nat
  BY FitPackets
<1>0. n \in 0 .. p.size + 1 /\ NextIdx(j) = n + 1 /\ p \in P /\ j.data_out = f /\ Upto(LastIn(q), p, n)
  BY <1>2
<1> HIDE DEF p, n
<1>3. IsFlit(f, P) /\ Follows(LastIn(q), f)
  BY <1>0, UptoNext
<1>4. NextIdx(j) - 1 = n /\ NextIdx(j) # 0 /\ NextIdx(j) \in 0 .. p.size + 2
  BY <1>0, <1>2
<1>5. StageInv(k, j, P)
  BY <1>0, <1>1, <1>4 DEF StageInv, Driving, p
<1>6. ASSUME NEW q2, Accepts(q, q2, j) PROVE InjectInv(k, j, q2, open, P)
  <2>1. LastIn(q2) = IF q2.credit THEN f ELSE LastIn(q)
    BY <1>0, <1>6 DEF Accepts
  <2>2. Upto(LastIn(q2), p, IF q2.credit THEN NextIdx(j) ELSE NextIdx(j) - 1)
    <3>1. Upto(f, p, n + 1)
      BY <1>0, UptoNext
    <3> QED
      BY <1>0, <1>4, <2>1, <3>1
  <2> QED
    BY <1>5, <2>2 DEF InjectInv, Driving, p
<1> QED
  BY <1>0, <1>3, <1>5, <1>6 DEF Injects

\* Who waits for credit keeps the flit that has not been taken.
LEMMA StandsStill ==
  ASSUME NEW k, NEW j, InjectorType(k, j), NEW q, NEW open, open, NEW P, j.send = "WAIT_CREDIT", j.tx = FALSE,
         j.last_state \in Driving, Current(j) \in P, NextIdx(j) \in 0 .. Current(j).size + 2,
         Stage(j) # "MSG_REQUEST" => j.monitor \in Waiting(k),
         NextIdx(j) # 0, j.data_out = <<Current(j), NextIdx(j) - 1>>, Upto(LastIn(q), Current(j), NextIdx(j) - 1)
  PROVE  Injects(k, j, q, open, P)
<1>1. Stage(j) = j.last_state
  BY DEF Stage
<1>2. StageInv(k, j, P)
  BY <1>1 DEF StageInv, Driving
<1>3. ASSUME NEW q2, Accepts(q, q2, j) PROVE InjectInv(k, j, q2, open, P)
  <2>1. LastIn(q2) = LastIn(q)
    BY <1>3 DEF Accepts
  <2> QED
    BY <1>2, <2>1 DEF InjectInv, Driving
<1> QED
  BY <1>2, <1>3 DEF Injects

\* The packets that are begun, as the history has them.
NewPackets(i, j, P) ==
  i.send # "WAIT_CREDIT" /\ j.send # i.send =>
    /\ j.send \in {"DATA_AV", "MSG_REQUEST"} => j.aux_pkt \in P
    /\ j.send = "PACKET" => j.packet \in P

\* A cycle of the process that sends.
LEMMA SendingStep ==
  ASSUME NEW k, NEW P, AllFit(P), NEW i, InjectorType(k, i), NEW q, q.credit \in BOOLEAN, CreditInv(q, i.tx),
         NEW open \in BOOLEAN, InjectInv(k, i, q, open, P), NEW direct \in BOOLEAN, NEW announced \in BOOLEAN,
         direct \/ announced => i.monitor \in Waiting(k), NEW credit_in \in BOOLEAN, credit_in <=> q.credit /\ open,
         NEW j, j = Sending(k, i, credit_in, direct, announced), NewPackets(i, j, P)
  PROVE  Injects(k, j, q, open, P)
<1>1. SendFields \cup {"monitor", "rcv", "credit"} \subseteq DOMAIN i
      /\ i.monitor \in MonitorStates(k) /\ i.rcv \in ReceiveStates /\ i.credit \in BOOLEAN
  BY DEF InjectorType
<1>2. /\ i.send \in {"IDLE", "WAIT_REQUEST", "FINISHED"} \/ Stage(i) \in Driving
      /\ i.tx \in BOOLEAN
      /\ Stage(i) \in {"DATA_AV", "WAIT_REQUEST", "PACKET"} => i.monitor \in Waiting(k)
      /\ Stage(i) \in Driving => Current(i) \in P /\ NextIdx(i) \in 0 .. Current(i).size + 2
      /\ i.send \notin Driving => ~i.tx
      /\ i.tx \/ i.send = "WAIT_CREDIT" => NextIdx(i) # 0 /\ i.data_out = <<Current(i), NextIdx(i) - 1>>
  BY DEF InjectInv, StageInv
<1>3. /\ i.send # "IDLE" => open
      /\ i.send \in {"IDLE", "WAIT_REQUEST", "FINISHED"} => Ends(LastIn(q))
      /\ i.send = "WAIT_CREDIT" => Upto(LastIn(q), Current(i), NextIdx(i) - 1)
      /\ i.send \in Driving =>
           IF i.tx THEN Upto(LastIn(q), Current(i), IF q.credit THEN NextIdx(i) ELSE NextIdx(i) - 1)
           ELSE NextIdx(i) = 0 /\ q.credit /\ Ends(LastIn(q))
  BY DEF InjectInv
<1>4. \A p \in P : p.size \in Nat
  BY FitPackets
<1>5. ASSUME NEW x, SamePackets(i, x) PROVE InjectorType(k, x)
  BY <1>1, <1>5 DEF SamePackets, InjectorType
<1>6. CASE i.send = "IDLE"
  <2>1. i.tx = FALSE
    BY <1>2, <1>6 DEF Driving
  <2>2. CASE j = i
    BY <1>3, <1>6, <2>1, <2>2, Resting
  <2>3. CASE j # i
    <3>1. credit_in /\ j = Begin(k, i, direct, announced)
      BY <1>6, <2>3 DEF Sending
    <3>2. q.credit /\ open /\ CreditInv(q, FALSE)
      BY <2>1, <3>1
    <3>3. CASE direct
      <4>1. j = [i EXCEPT !.pkt_idx = 0, !.send = "PACKET"]
        BY <3>1, <3>3 DEF Begin
      <4>2. j.send = "PACKET" /\ j.pkt_idx = 0 /\ j.tx = FALSE /\ j.monitor = i.monitor /\ InjectorType(k, j)
        BY <1>1, <2>1, <4>1 DEF SendFields, InjectorType
      <4>3. j.packet \in P
        BY <1>6, <4>2 DEF NewPackets
      <4>4. NextIdx(j) = 0 /\ Current(j) = j.packet
        BY <4>2 DEF NextIdx, Current, Stage
      <4>5. j.send \in Driving /\ Current(j) \in P /\ Current(j).size \in Nat
        BY <1>4, <4>2, <4>3, <4>4 DEF Driving
      <4>6. Ends(LastIn(q)) /\ j.monitor \in Waiting(k) /\ j.tx = FALSE /\ NextIdx(j) = 0
        BY <1>3, <1>6, <3>3, <4>2, <4>4
      <4>7. InjectorType(k, j)
        BY <4>2
      <4> QED
        BY <3>2, <4>5, <4>6, <4>7, Beginning
    <3>4. CASE ~direct
      <4> DEFINE s == IF announced THEN "DATA_AV" ELSE "MSG_REQUEST"
                 p == IF announced THEN Control(k, "DATA_AV") ELSE Control(k, "MESSAGE_REQUEST")
      <4>1. j = [i EXCEPT !.aux_idx = 0, !.aux_pkt = IF announced THEN Control(k, "DATA_AV") ELSE Control(k, "MESSAGE_REQUEST"),
                          !.send = s]
        <5>1. CASE announced
          BY <3>1, <3>4, <5>1 DEF Begin
        <5>2. CASE ~announced
          BY <2>3, <3>1, <3>4, <5>2 DEF Begin
        <5> QED
          BY <5>1, <5>2
      <4>2. s \in {"DATA_AV", "MSG_REQUEST"} /\ (s # "MSG_REQUEST" => announced)
        OBVIOUS
      <4> HIDE DEF s, p
      <4>3. j.send = s /\ j.aux_idx = 0 /\ j.tx = FALSE /\ j.monitor = i.monitor /\ InjectorType(k, j)
        BY <1>1, <2>1, <4>1 DEF SendFields, InjectorType
      <4>4. j.aux_pkt \in P
        BY <1>6, <4>2, <4>3 DEF NewPackets
      <4>5. NextIdx(j) = 0 /\ Current(j) = j.aux_pkt
        BY <4>2, <4>3 DEF NextIdx, Current, Stage
      <4>6. j.send \in Driving /\ Current(j) \in P /\ Current(j).size \in Nat
        BY <1>4, <4>2, <4>3, <4>4, <4>5 DEF Driving
      <4>7. Ends(LastIn(q)) /\ j.tx = FALSE /\ NextIdx(j) = 0
        BY <1>3, <1>6, <4>3, <4>5
      <4>8. j.send # "MSG_REQUEST" => j.monitor \in Waiting(k)
        BY <4>2, <4>3
      <4>9. InjectorType(k, j)
        BY <4>3
      <4> QED
        BY <3>2, <4>6, <4>7, <4>8, <4>9, Beginning
    <3> QED
      BY <3>3, <3>4
  <2> QED
    BY <2>2, <2>3
<1>7. CASE i.send \in Driving
  <2> DEFINE after == IF i.send = "DATA_AV" THEN "WAIT_REQUEST" ELSE "FINISHED"
             next == IF i.send = "PACKET" THEN "FINISHED" ELSE after
  <2>1. Stage(i) = i.send /\ open /\ credit_in = q.credit
    BY <1>3, <1>7 DEF Stage, Driving
  <2>2. Current(i) \in P /\ NextIdx(i) \in 0 .. Current(i).size + 2 /\ Current(i).size \in Nat
    BY <1>2, <1>4, <1>7, <2>1
  <2>3. j = IF i.send = "PACKET" THEN DrivePacket(i, credit_in) ELSE DriveAux(i, after, credit_in)
    BY <1>7 DEF Sending, Driving
  <2>4. next \in {"WAIT_REQUEST", "FINISHED"} /\ (next = "WAIT_REQUEST" => i.send = "DATA_AV")
    OBVIOUS
  <2>5. /\ SamePackets(i, j)
        /\ \/ ~credit_in /\ WaitsForCredit(i, j)
           \/ credit_in /\ HasSent(i, j, next)
           \/ credit_in /\ DrivesOn(i, j)
    BY <1>7, <2>2, <2>3, DriveFields
  <2>6. /\ InjectorType(k, j) /\ j.monitor = i.monitor /\ j.packet = i.packet /\ j.aux_pkt = i.aux_pkt
    BY <1>5, <2>5 DEF SamePackets
  <2> HIDE DEF after, next
  <2>7. CASE ~credit_in /\ WaitsForCredit(i, j)
    <3>1. /\ j.tx = FALSE /\ j.send = "WAIT_CREDIT" /\ j.last_state = i.send /\ j.data_out = i.data_out
          /\ j.aux_idx = i.aux_idx /\ j.pkt_idx = i.pkt_idx
      BY <2>7 DEF WaitsForCredit
    <3>2. Stage(j) = i.send /\ Current(j) = Current(i) /\ NextIdx(j) = NextIdx(i)
      BY <2>1, <2>6, <3>1 DEF Current, NextIdx, Stage
    <3>3. i.tx /\ Upto(LastIn(q), Current(i), NextIdx(i) - 1)
      BY <1>3, <1>7, <2>1, <2>7
    <3>4. i.send # "MSG_REQUEST" => i.monitor \in Waiting(k)
      BY <1>2, <1>7, <2>1 DEF Driving
    <3> QED
      BY <1>2, <1>7, <2>1, <2>2, <2>6, <3>1, <3>2, <3>3, <3>4, StandsStill
  <2>8. CASE credit_in /\ HasSent(i, j, next)
    <3>1. NextIdx(i) = Current(i).size + 2 /\ j.tx = FALSE /\ j.send = next
      BY <2>8 DEF HasSent
    <3>2. i.tx /\ Upto(LastIn(q), Current(i), NextIdx(i))
      <4>1. NextIdx(i) # 0
        BY <2>2, <3>1
      <4> QED
        BY <1>3, <1>7, <2>1, <2>8, <4>1
    <3>3. Ends(LastIn(q))
      <4>1. NextIdx(i) # 0 /\ NextIdx(i) - 1 = Current(i).size + 1
        BY <2>2, <3>1
      <4>2. LastIn(q) = <<Current(i), NextIdx(i) - 1>>
        BY <3>2, <4>1 DEF Upto
      <4> QED
        BY <4>1, <4>2 DEF Ends
    <3>4. next = "WAIT_REQUEST" => i.monitor \in Waiting(k)
      BY <1>2, <2>1, <2>4
    <3> QED
      BY <2>1, <2>4, <2>6, <3>1, <3>3, <3>4, Resting
  <2>9. CASE credit_in /\ DrivesOn(i, j)
    <3>1. /\ NextIdx(i) # Current(i).size + 2 /\ j.tx = TRUE /\ j.send = i.send
          /\ j.data_out = <<Current(i), NextIdx(i)>> /\ NextIdx(j) = NextIdx(i) + 1
      BY <2>9 DEF DrivesOn
    <3>2. Current(j) = Current(i) /\ Stage(j) = i.send
      BY <1>7, <2>6, <3>1 DEF Current, Stage, Driving
    <3>3. NextIdx(i) \in 0 .. Current(i).size + 1
      BY <2>2, <3>1
    <3>4. Upto(LastIn(q), Current(i), NextIdx(i))
      BY <1>3, <1>7, <2>1, <2>9 DEF Upto
    <3>5. i.send # "MSG_REQUEST" => i.monitor \in Waiting(k)
      BY <1>2, <1>7, <2>1 DEF Driving
    <3> DEFINE n == NextIdx(i)
    <3>6. j.send \in Driving /\ j.tx = TRUE /\ Current(j) \in P /\ InjectorType(k, j)
      BY <1>7, <2>2, <2>6, <3>1, <3>2
    <3>7. Stage(j) # "MSG_REQUEST" => j.monitor \in Waiting(k)
      BY <2>6, <3>2, <3>5
    <3>8. n + 1 \in 1 .. Current(j).size + 2 /\ (n + 1) - 1 = n
      BY <2>2, <3>2, <3>3
    <3>9. /\ NextIdx(j) \in 1 .. Current(j).size + 2 /\ j.data_out = <<Current(j), NextIdx(j) - 1>>
          /\ Upto(LastIn(q), Current(j), NextIdx(j) - 1)
      BY <3>1, <3>2, <3>4, <3>8
    <3> QED
      BY <2>1, <3>6, <3>7, <3>9, GoesOn
  <2> QED
    BY <2>5, <2>7, <2>8, <2>9
<1>8. CASE i.send = "WAIT_CREDIT"
  <2>1. /\ Stage(i) = i.last_state /\ i.last_state \in Driving /\ open /\ i.tx = FALSE
        /\ Current(i) \in P /\ NextIdx(i) \in 0 .. Current(i).size + 2 /\ NextIdx(i) # 0
        /\ i.data_out = <<Current(i), NextIdx(i) - 1>> /\ Upto(LastIn(q), Current(i), NextIdx(i) - 1)
        /\ i.last_state # "MSG_REQUEST" => i.monitor \in Waiting(k)
    BY <1>2, <1>3, <1>8 DEF Stage, Driving
  <2>2. CASE credit_in
    <3>1. j = [i EXCEPT !.tx = TRUE, !.send = i.last_state]
      BY <1>8, <2>2 DEF Sending
    <3>2. /\ j.tx = TRUE /\ j.send = i.last_state /\ j.data_out = i.data_out /\ j.aux_idx = i.aux_idx
          /\ j.pkt_idx = i.pkt_idx /\ SamePackets(i, j)
      BY <1>1, <3>1 DEF SendFields, SamePackets
    <3>3. Stage(j) = Stage(i) /\ NextIdx(j) = NextIdx(i) /\ Current(j) = Current(i)
      BY <2>1, <3>2 DEF Stage, NextIdx, Current, Driving, SamePackets
    <3>5. j.monitor = i.monitor /\ InjectorType(k, j)
      BY <1>5, <3>2 DEF SamePackets
    <3>7. j.send \in Driving /\ j.tx = TRUE /\ Current(j) \in P
      BY <2>1, <3>2, <3>3
    <3>9. /\ NextIdx(j) \in 1 .. Current(j).size + 2 /\ j.data_out = <<Current(j), NextIdx(j) - 1>>
          /\ Upto(LastIn(q), Current(j), NextIdx(j) - 1)
      BY <1>4, <2>1, <3>2, <3>3
    <3>8. Stage(j) # "MSG_REQUEST" => j.monitor \in Waiting(k)
      BY <2>1, <3>3, <3>5
    <3> QED
      BY <2>1, <3>5, <3>7, <3>8, <3>9, GoesOn
  <2>3. CASE ~credit_in
    <3>1. j = i
      BY <1>8, <2>3 DEF Sending
    <3> QED
      BY <1>8, <2>1, <3>1, StandsStill
  <2> QED
    BY <2>2, <2>3
<1>9. CASE i.send = "WAIT_REQUEST"
  <2>1. i.tx = FALSE /\ open /\ Stage(i) = "WAIT_REQUEST" /\ i.monitor \in Waiting(k) /\ Ends(LastIn(q))
    BY <1>2, <1>3, <1>9 DEF Driving, Stage
  <2>2. CASE i.rcv = "WAIT_DLVR" /\ credit_in
    <3>1. j = [i EXCEPT !.pkt_idx = 0, !.send = "PACKET"]
      BY <1>9, <2>2 DEF Sending
    <3>2. j.send = "PACKET" /\ j.pkt_idx = 0 /\ j.tx = FALSE /\ j.monitor = i.monitor /\ InjectorType(k, j)
      BY <1>1, <2>1, <3>1 DEF SendFields, InjectorType
    <3>3. j.packet \in P
      BY <1>9, <3>2 DEF NewPackets
    <3>4. NextIdx(j) = 0 /\ Current(j) = j.packet
      BY <3>2 DEF NextIdx, Current, Stage
    <3>5. q.credit /\ CreditInv(q, FALSE)
      BY <2>1, <2>2
    <3>6. j.send \in Driving /\ Current(j) \in P /\ Current(j).size \in Nat
      BY <1>4, <3>2, <3>3, <3>4 DEF Driving
    <3>7. Ends(LastIn(q)) /\ open /\ j.monitor \in Waiting(k) /\ j.tx = FALSE /\ NextIdx(j) = 0
      BY <2>1, <3>2, <3>4
    <3>8. InjectorType(k, j)
      BY <3>2
    <3> QED
      BY <3>5, <3>6, <3>7, <3>8, Beginning
  <2>3. CASE ~(i.rcv = "WAIT_DLVR" /\ credit_in)
    <3>1. j = i
      BY <1>9, <2>3 DEF Sending
    <3> QED
      BY <1>9, <2>1, <3>1, Resting
  <2> QED
    BY <2>2, <2>3
<1>10. CASE i.send = "FINISHED"
  <2>1. i.tx = FALSE /\ Ends(LastIn(q))
    BY <1>2, <1>3, <1>10 DEF Driving
  <2>2. j = [i EXCEPT !.send = "IDLE"]
    BY <1>10 DEF Sending
  <2>3. j.send = "IDLE" /\ j.tx = FALSE /\ InjectorType(k, j)
    BY <1>1, <2>1, <2>2 DEF SendFields, InjectorType
  <2> QED
    BY <2>1, <2>3, Resting
<1>11. i.send \in {"IDLE", "WAIT_REQUEST", "FINISHED", "WAIT_CREDIT"} \cup Driving
  BY <1>2 DEF Stage
<1> QED
  BY <1>6, <1>7, <1>8, <1>9, <1>10, <1>11

-----------------------------------------------------------------------------
\* The processes of an injector, one after another.
LEMMA SameSendTransitive ==
  ASSUME NEW i, NEW j, NEW l, SameSend(i, j), SameSend(j, l)
  PROVE  SameSend(i, l)
<1>1. Stage(j) = Stage(i)
  BY StageKept
<1> QED
  BY <1>1 DEF SameSend

WaitsWell(k, i) == InjectorType(k, i) /\ (Stage(i) \in Announced => i.monitor \in Waiting(k))

LEMMA TimerKeeps ==
  ASSUME NEW k, NEW i, InjectorType(k, i)
  PROVE  SameSend(i, timer(i)) /\ InjectorType(k, timer(i))
<1> DEFINE v == IF i.tick_cnt < TIME_BOUND THEN i.tick_cnt + 1 ELSE i.tick_cnt
<1>1. timer(i) = [i EXCEPT !.tick_cnt = v]
  BY DEF timer
<1> HIDE DEF v
<1> QED
  BY <1>1 DEF SameSend, InjectorType, SendFields

\* Whether the announcement and the data are sent follows from what the monitor waits for.
LEMMA SendWaits ==
  ASSUME NEW k, NEW i, WaitsWell(k, i), NEW credit_in, NEW direct \in BOOLEAN, NEW announced \in BOOLEAN,
         direct \/ announced => i.monitor \in Waiting(k),
         i.send \in {"IDLE", "WAIT_REQUEST", "FINISHED", "WAIT_CREDIT"} \cup Driving
  PROVE  WaitsWell(k, Sending(k, i, credit_in, direct, announced))
<1> DEFINE j == Sending(k, i, credit_in, direct, announced)
<1>1. /\ SendFields \cup {"monitor", "rcv", "credit"} \subseteq DOMAIN i
      /\ i.monitor \in MonitorStates(k) /\ i.rcv \in ReceiveStates /\ i.credit \in BOOLEAN
      /\ Stage(i) \in Announced => i.monitor \in Waiting(k)
  BY DEF WaitsWell, InjectorType
<1>2. WaitsWell(k, i)
  OBVIOUS
\* A record that differs in fields of the transmission.
<1>3. ASSUME NEW v, i.monitor \in Waiting(k) PROVE WaitsWell(k, [i EXCEPT !.pkt_idx = v, !.send = "PACKET"])
  BY <1>1, <1>3 DEF WaitsWell, InjectorType, SendFields
<1>4. ASSUME NEW v, NEW p, i.monitor \in Waiting(k)
      PROVE  WaitsWell(k, [i EXCEPT !.aux_idx = v, !.aux_pkt = p, !.send = "DATA_AV"])
  BY <1>1, <1>4 DEF WaitsWell, InjectorType, SendFields
<1>5. ASSUME NEW v, NEW p
      PROVE  WaitsWell(k, [i EXCEPT !.aux_idx = v, !.aux_pkt = p, !.send = "MSG_REQUEST"])
  BY <1>1, <1>5 DEF WaitsWell, InjectorType, SendFields, Stage, Announced
<1>6. ASSUME NEW x, WaitsWell(k, x), NEW v PROVE WaitsWell(k, [x EXCEPT !.pkt_idx = v]) /\ WaitsWell(k, [x EXCEPT !.aux_idx = v])
  BY <1>6 DEF WaitsWell, InjectorType, SendFields, Stage
<1>7. ASSUME NEW p, NEW idx, NEW after, after \in {"FINISHED"} \/ (after = "WAIT_REQUEST" /\ i.monitor \in Waiting(k)),
             i.send # "WAIT_CREDIT"
      PROVE  WaitsWell(k, Drive(i, p, idx, after, credit_in))
  <2> DEFINE v == Flits(p)[idx + 1]
             d == Drive(i, p, idx, after, credit_in)
  <2>1. d \in {[i EXCEPT !.tx = FALSE, !.last_state = i.send, !.send = "WAIT_CREDIT"],
               [i EXCEPT !.tx = FALSE, !.send = after], [i EXCEPT !.tx = TRUE, !.data_out = v]}
    BY DEF Drive
  <2> HIDE DEF v, d
  <2>2. WaitsWell(k, [i EXCEPT !.tx = FALSE, !.last_state = i.send, !.send = "WAIT_CREDIT"])
    BY <1>1, <1>7 DEF WaitsWell, InjectorType, SendFields, Stage
  <2>3. WaitsWell(k, [i EXCEPT !.tx = FALSE, !.send = after])
    BY <1>1, <1>7 DEF WaitsWell, InjectorType, SendFields, Stage, Announced
  <2>4. WaitsWell(k, [i EXCEPT !.tx = TRUE, !.data_out = v])
    BY <1>1 DEF WaitsWell, InjectorType, SendFields, Stage
  <2> QED
    BY <2>1, <2>2, <2>3, <2>4 DEF d
<1>8. CASE i.send = "IDLE"
  BY <1>2, <1>3, <1>4, <1>5, <1>8 DEF Sending, Begin
<1>9. CASE i.send = "DATA_AV"
  <2>1. i.monitor \in Waiting(k)
    BY <1>1, <1>9 DEF Stage, Announced
  <2>2. j = DriveAux(i, "WAIT_REQUEST", credit_in)
    BY <1>9 DEF Sending
  <2> DEFINE d == Drive(i, i.aux_pkt, i.aux_idx, "WAIT_REQUEST", credit_in)
             v == IF d.tx THEN i.aux_idx + 1 ELSE i.aux_idx
  <2>3. j = [d EXCEPT !.aux_idx = v]
    BY <2>2 DEF DriveAux
  <2>4. WaitsWell(k, d)
    BY <1>7, <1>9, <2>1
  <2> HIDE DEF d, v, j
  <2>5. WaitsWell(k, [d EXCEPT !.aux_idx = v])
    BY <1>6, <2>4
  <2>6. WaitsWell(k, j)
    BY <2>3, <2>5
  <2> QED
    BY <2>6 DEF j
<1>10. CASE i.send = "MSG_REQUEST"
  <2>2. j = DriveAux(i, "FINISHED", credit_in)
    BY <1>10 DEF Sending
  <2> DEFINE d == Drive(i, i.aux_pkt, i.aux_idx, "FINISHED", credit_in)
             v == IF d.tx THEN i.aux_idx + 1 ELSE i.aux_idx
  <2>3. j = [d EXCEPT !.aux_idx = v]
    BY <2>2 DEF DriveAux
  <2>4. WaitsWell(k, d)
    BY <1>7, <1>10
  <2> HIDE DEF d, v, j
  <2>5. WaitsWell(k, [d EXCEPT !.aux_idx = v])
    BY <1>6, <2>4
  <2>6. WaitsWell(k, j)
    BY <2>3, <2>5
  <2> QED
    BY <2>6 DEF j
<1>11. CASE i.send = "WAIT_REQUEST"
  <2>1. i.monitor \in Waiting(k)
    BY <1>1, <1>11 DEF Stage, Announced
  <2> QED
    BY <1>2, <1>3, <1>11, <2>1 DEF Sending
<1>12. CASE i.send = "PACKET"
  <2>2. j = DrivePacket(i, credit_in)
    BY <1>12 DEF Sending
  <2> DEFINE d == Drive(i, i.packet, i.pkt_idx, "FINISHED", credit_in)
             v == IF d.tx THEN i.pkt_idx + 1 ELSE i.pkt_idx
  <2>3. j = [d EXCEPT !.pkt_idx = v]
    BY <2>2 DEF DrivePacket
  <2>4. WaitsWell(k, d)
    BY <1>7, <1>12
  <2> HIDE DEF d, v, j
  <2>5. WaitsWell(k, [d EXCEPT !.pkt_idx = v])
    BY <1>6, <2>4
  <2>6. WaitsWell(k, j)
    BY <2>3, <2>5
  <2> QED
    BY <2>6 DEF j
<1>13. CASE i.send = "WAIT_CREDIT"
  <2>1. WaitsWell(k, [i EXCEPT !.tx = TRUE, !.send = i.last_state])
    <3> DEFINE l == [i EXCEPT !.tx = TRUE, !.send = i.last_state]
    <3>1. l.monitor = i.monitor /\ l.send = i.last_state /\ l.last_state = i.last_state /\ InjectorType(k, l)
      BY <1>1 DEF InjectorType, SendFields
    <3>2. Stage(i) = i.last_state /\ Stage(l) = i.last_state
      BY <1>13, <3>1 DEF Stage
    <3> QED
      BY <1>1, <3>1, <3>2 DEF WaitsWell
  <2> QED
    BY <1>2, <1>13, <2>1 DEF Sending
<1>14. CASE i.send = "FINISHED"
  <2>1. WaitsWell(k, [i EXCEPT !.send = "IDLE"])
    BY <1>1 DEF WaitsWell, InjectorType, SendFields, Stage, Announced
  <2> QED
    BY <1>14, <2>1 DEF Sending
<1> QED
  BY <1>8, <1>9, <1>10, <1>11, <1>12, <1>13, <1>14 DEF Driving

LEMMA MonitorProcess ==
  ASSUME NEW k \in Injectors, NEW i, WaitsWell(k, i), NEW rx, NEW f, NEW credit_in
  PROVE  LET j == Process(k, "monitor", i, rx, f, credit_in) IN SameSend(i, j) /\ InjectorType(k, j)
<1>1. Process(k, "monitor", i, rx, f, credit_in) = IF k = MA THEN ma_boot(i) ELSE monitor_new_app(i)
  BY DEF Process, Injectors, MA, App
<1> QED
  BY <1>1, MonitorKeeps DEF WaitsWell

LEMMA ReceiveProcess ==
  ASSUME NEW k \in Injectors, NEW i, InjectorType(k, i), NEW rx, NEW f, NEW credit_in
  PROVE  LET j == Process(k, "receive", i, rx, f, credit_in) IN SameSend(i, j) /\ InjectorType(k, j)
<1>1. Process(k, "receive", i, rx, f, credit_in) = IF k = MA THEN MAReceive(i, rx, f) ELSE AppReceive(i, rx, f)
  BY DEF Process, Injectors, MA, App
<1> DEFINE a == i.monitor = "BOOT_CONFIRM"
           b == i.monitor = "IDLE"
           c == Listens(i, "BOOT_CONFIRM", "BOOT_MAP")
           d == Listens(i, "IDLE", "MAP")
<1>2. c \in BOOLEAN /\ d \in BOOLEAN
  BY DEF Listens
<1>3. /\ MAReceive(i, rx, f) = [Receiving(i, rx, f, a) EXCEPT !.credit = c]
      /\ AppReceive(i, rx, f) = [Receiving(i, rx, f, b) EXCEPT !.credit = d]
  BY DEF MAReceive, AppReceive
<1> HIDE DEF a, b, c, d
<1>4. LET j == [Receiving(i, rx, f, a) EXCEPT !.credit = c] IN SameSend(i, j) /\ InjectorType(k, j)
  BY <1>2, ReceiveKeeps
<1>5. LET j == [Receiving(i, rx, f, b) EXCEPT !.credit = d] IN SameSend(i, j) /\ InjectorType(k, j)
  BY <1>2, ReceiveKeeps
<1> QED
  BY <1>1, <1>3, <1>4, <1>5

Direct(k, i) == i.monitor \in IF k = MA THEN {"BOOT_WAIT", "BOOT_SEND"} ELSE {"SEND_TASK"}
Announces(k, i) == i.monitor \in IF k = MA THEN {"BOOT_TASKS"} ELSE {"SEND_NEW_APP", "SEND_FINISH"}

LEMMA SendProcess ==
  ASSUME NEW k \in Injectors, NEW i, NEW rx, NEW f, NEW credit_in
  PROVE  /\ Process(k, "send", i, rx, f, credit_in) = Sending(k, i, credit_in, Direct(k, i), Announces(k, i))
         /\ Direct(k, i) \in BOOLEAN /\ Announces(k, i) \in BOOLEAN
         /\ Direct(k, i) \/ Announces(k, i) => i.monitor \in Waiting(k)
<1>1. App # MA
  BY DEF App, MA
<1>2. CASE k = MA
  <2> DEFINE a == i.monitor \in {"BOOT_WAIT", "BOOT_SEND"}
             b == i.monitor = "BOOT_TASKS"
  <2>1. Process(k, "send", i, rx, f, credit_in) = Sending(k, i, credit_in, a, b)
    BY <1>1, <1>2 DEF Process, MASend
  <2>2. a = Direct(k, i) /\ b = Announces(k, i)
    BY <1>2 DEF Direct, Announces
  <2>3. a \in BOOLEAN /\ b \in BOOLEAN /\ (a \/ b => i.monitor \in Waiting(k))
    BY <1>2 DEF Waiting
  <2> HIDE DEF a, b
  <2> QED
    BY <2>1, <2>2, <2>3
<1>3. CASE k = App
  <2> DEFINE a == i.monitor = "SEND_TASK"
             b == i.monitor \in {"SEND_NEW_APP", "SEND_FINISH"}
  <2>1. Process(k, "send", i, rx, f, credit_in) = Sending(k, i, credit_in, a, b)
    BY <1>1, <1>3 DEF Process, AppSend
  <2>2. a = Direct(k, i) /\ b = Announces(k, i)
    BY <1>1, <1>3 DEF Direct, Announces
  <2>3. a \in BOOLEAN /\ b \in BOOLEAN /\ (a \/ b => i.monitor \in Waiting(k))
    BY <1>1, <1>3 DEF Waiting
  <2> HIDE DEF a, b
  <2> QED
    BY <2>1, <2>2, <2>3
<1> QED
  BY <1>2, <1>3 DEF Injectors

LEMMA NewPacketsKept ==
  ASSUME NEW i, NEW x, NEW y, NEW c, NEW P, SameSend(i, x), SameSend(y, c), NewPackets(i, c, P)
  PROVE  NewPackets(x, y, P)
<1>1. y.send = "PACKET" => Stage(y) \in Announced
  BY DEF Stage, Announced
<1> QED
  BY <1>1 DEF SameSend, NewPackets

\* A cycle of an injector, whatever the order of its processes.
LEMMA InjectorStep ==
  ASSUME NEW k \in Injectors, NEW P, AllFit(P), NEW i, InjectorType(k, i), NEW q, q.credit \in BOOLEAN,
         CreditInv(q, i.tx), NEW open \in BOOLEAN, InjectInv(k, i, q, open, P), NEW rx, NEW f,
         NEW credit_in \in BOOLEAN, credit_in <=> q.credit /\ open,
         order \in Orders, NEW c,
         c = LET run(p, j) == Process(k, p, j, rx, f, credit_in)
             IN  run(order[3], run(order[2], run(order[1], timer(i)))),
         NewPackets(i, c, P)
  PROVE  Injects(k, c, q, open, P)
<1> DEFINE run(p, j) == Process(k, p, j, rx, f, credit_in)
           t == timer(i)
\* Before the process that sends.
<1>1. ASSUME NEW x, SameSend(i, x), InjectorType(k, x)
      PROVE  WaitsWell(k, x) /\ InjectInv(k, x, q, open, P) /\ CreditInv(q, x.tx)
  <2>1. InjectInv(k, x, q, open, P) /\ x.tx = i.tx
    BY <1>1, InjectKept DEF SameSend
  <2>2. CreditInv(q, x.tx)
    BY <2>1
  <2>3. WaitsWell(k, x)
    BY <1>1, <2>1 DEF WaitsWell, InjectInv, StageInv, Announced
  <2> QED
    BY <2>1, <2>2, <2>3
<1>2. SameSend(i, t) /\ InjectorType(k, t)
  BY TimerKeeps
<1>3. ASSUME NEW x, SameSend(i, x), InjectorType(k, x), NEW p \in {"monitor", "receive"}
      PROVE  SameSend(i, run(p, x)) /\ InjectorType(k, run(p, x))
  <2>1. WaitsWell(k, x)
    BY <1>1, <1>3
  <2> DEFINE m == run("monitor", x)
             r == run("receive", x)
  <2>2. SameSend(x, m) /\ InjectorType(k, m)
    BY <2>1, MonitorProcess
  <2>3. SameSend(x, r) /\ InjectorType(k, r)
    BY <1>3, ReceiveProcess
  <2> HIDE DEF m, r
  <2>4. SameSend(i, m) /\ SameSend(i, r)
    BY <1>3, <2>2, <2>3, SameSendTransitive
  <2> QED
    BY <1>3, <2>2, <2>3, <2>4 DEF m, r
\* The process that sends, and after it.
<1>4. ASSUME NEW x, SameSend(i, x), InjectorType(k, x) PROVE WaitsWell(k, run("send", x))
  <2> DEFINE d == Direct(k, x)
             a == Announces(k, x)
  <2>1. /\ run("send", x) = Sending(k, x, credit_in, d, a) /\ d \in BOOLEAN /\ a \in BOOLEAN
        /\ d \/ a => x.monitor \in Waiting(k)
    BY SendProcess
  <2>2. WaitsWell(k, x) /\ StageInv(k, x, P)
    BY <1>1, <1>4 DEF InjectInv
  <2>3. x.send \in {"IDLE", "WAIT_REQUEST", "FINISHED", "WAIT_CREDIT"} \cup Driving
    BY <2>2 DEF StageInv, Stage
  <2> HIDE DEF d, a
  <2>4. WaitsWell(k, Sending(k, x, credit_in, d, a))
    BY <2>1, <2>2, <2>3, SendWaits
  <2> QED
    BY <2>1, <2>4
<1>5. ASSUME NEW x, SameSend(i, x), InjectorType(k, x), NEW y, y = run("send", x), SameSend(y, c), InjectorType(k, c)
      PROVE  Injects(k, c, q, open, P)
  <2> DEFINE d == Direct(k, x)
             a == Announces(k, x)
  <2>1. /\ y = Sending(k, x, credit_in, d, a) /\ d \in BOOLEAN /\ a \in BOOLEAN
        /\ d \/ a => x.monitor \in Waiting(k)
    BY <1>5, SendProcess
  <2>2. InjectInv(k, x, q, open, P) /\ CreditInv(q, x.tx)
    BY <1>1, <1>5
  <2>3. NewPackets(x, y, P)
    BY <1>5, NewPacketsKept
  <2> HIDE DEF d, a
  <2>4. InjectorType(k, x) /\ CreditInv(q, x.tx) /\ InjectInv(k, x, q, open, P) /\ y = Sending(k, x, credit_in, d, a)
    BY <1>5, <2>1, <2>2
  <2>5. Injects(k, y, q, open, P)
    BY <2>1, <2>3, <2>4, SendingStep
  <2> QED
    BY <1>5, <2>5, InjectsKept
<1>6. ASSUME NEW y, WaitsWell(k, y), NEW p \in {"monitor", "receive"}
      PROVE  SameSend(y, run(p, y)) /\ InjectorType(k, run(p, y))
  <2> DEFINE m == run("monitor", y)
             r == run("receive", y)
  <2>1. SameSend(y, m) /\ InjectorType(k, m)
    BY <1>6, MonitorProcess
  <2>2. SameSend(y, r) /\ InjectorType(k, r)
    BY <1>6, ReceiveProcess DEF WaitsWell
  <2> HIDE DEF m, r
  <2> QED
    BY <1>6, <2>1, <2>2 DEF m, r
<1>7. SameSend(c, c)
  BY DEF SameSend
<1> DEFINE o1 == order[1]
           o2 == order[2]
           o3 == order[3]
<1>8. \/ o1 = "send" /\ o2 \in {"monitor", "receive"} /\ o3 \in {"monitor", "receive"} /\ o2 # o3
      \/ o2 = "send" /\ o1 \in {"monitor", "receive"} /\ o3 \in {"monitor", "receive"}
      \/ o3 = "send" /\ o1 \in {"monitor", "receive"} /\ o2 \in {"monitor", "receive"}
  BY DEF Orders, Processes
<1>9. c = run(o3, run(o2, run(o1, t)))
  OBVIOUS
<1> HIDE DEF o1, o2, o3, run, t
<1>10. CASE o3 = "send" /\ o1 \in {"monitor", "receive"} /\ o2 \in {"monitor", "receive"}
  <2> DEFINE x == run(o1, t)
             y == run(o2, x)
  <2>1. SameSend(i, x) /\ InjectorType(k, x)
    BY <1>2, <1>3, <1>10
  <2> HIDE DEF x
  <2>2. SameSend(i, y) /\ InjectorType(k, y)
    BY <1>3, <1>10, <2>1
  <2>3. c = run("send", y)
    BY <1>9, <1>10 DEF x
  <2> HIDE DEF y
  <2>4. InjectorType(k, c)
    BY <1>4, <2>2, <2>3 DEF WaitsWell
  <2> QED
    BY <1>5, <1>7, <2>2, <2>3, <2>4
<1>11. CASE o2 = "send" /\ o1 \in {"monitor", "receive"} /\ o3 \in {"monitor", "receive"}
  <2> DEFINE x == run(o1, t)
             y == run("send", x)
  <2>1. SameSend(i, x) /\ InjectorType(k, x)
    BY <1>2, <1>3, <1>11
  <2> HIDE DEF x
  <2>2. WaitsWell(k, y)
    BY <1>4, <2>1
  <2>3. c = run(o3, y)
    BY <1>9, <1>11 DEF x
  <2>4. y = run("send", x)
    OBVIOUS
  <2> HIDE DEF y
  <2>5. SameSend(y, c) /\ InjectorType(k, c)
    BY <1>6, <1>11, <2>2, <2>3
  <2> QED
    BY <1>5, <2>1, <2>4, <2>5
<1>12. CASE o1 = "send" /\ o2 \in {"monitor", "receive"} /\ o3 \in {"monitor", "receive"} /\ o2 # o3
  <2> DEFINE y == run("send", t)
             z == run(o2, y)
  <2>1. WaitsWell(k, y)
    BY <1>2, <1>4
  <2>2. y = run("send", t)
    OBVIOUS
  <2>3. c = run(o3, z)
    BY <1>9, <1>12
  <2> HIDE DEF y
  <2>4. SameSend(y, z) /\ InjectorType(k, z)
    BY <1>6, <1>12, <2>1
  <2> HIDE DEF z
  <2>5. WaitsWell(k, z)
    <3>1. Stage(z) = Stage(y)
      BY <2>4, StageKept
    <3> QED
      BY <2>1, <2>4, <3>1 DEF WaitsWell, SameSend
  <2>6. SameSend(z, c) /\ InjectorType(k, c)
    BY <1>6, <1>12, <2>3, <2>5
  <2>7. SameSend(y, c)
    BY <2>4, <2>6, SameSendTransitive
  <2> QED
    BY <1>2, <1>5, <2>2, <2>6, <2>7
<1> QED
  BY <1>8, <1>10, <1>11, <1>12

-----------------------------------------------------------------------------
(* The packets that are sent.                                              *)

\* The packets that have been sent, before and after a cycle.
SentSeqs == \A e \in Endpoints : sent[e] \in Seq(Range(sent[e]))

LEMMA AllSentFit == PacketsFit => AllFit(SentPackets)
BY DEF PacketsFit, AllFit, SentPackets, Range

LEMMA PeripheralEndpoint ==
  ASSUME NEW k \in Injectors
  PROVE  /\ EndpointOf(k) \in Endpoints /\ EndpointOf(k)[1] = IoPe[k] /\ EndpointOf(k)[2] = IoPort[k]
         /\ IoPe[k] \in Routers /\ IoPort[k] \in Ports \ {LOCAL_PORT} /\ ~IsLink(IoPe[k], IoPort[k])
         /\ InjectorAt(EndpointOf(k)) = k
<1>1. IoPe[k] \in Routers /\ IoPort[k] \in Ports \ {LOCAL_PORT} /\ ~IsLink(IoPe[k], IoPort[k])
  BY PlatformAssumption DEF Injectors
<1>2. EndpointOf(MA) # EndpointOf(App)
  BY PlatformAssumption
<1>3. InjectorAt(EndpointOf(k)) = k
  BY <1>2 DEF InjectorAt, Injectors
<1>4. EndpointOf(k) \in Endpoints
  BY DEF Endpoints
<1> QED
  BY <1>1, <1>3, <1>4 DEF EndpointOf

LEMMA BegunIsSeq ==
  ASSUME NEW e
  PROVE  IsSeq(Begun(e))
<1> HIDE DEF IsSeq
<1> DEFINE k == InjectorAt(e)
           a == Head(kernel[e[1]].outbox)
           b == inj'[k].aux_pkt
           c == inj'[k].packet
<1>1. Begun(e) \in {<<>>, <<a>>, <<b>>, <<c>>}
  BY DEF Begun
<1> HIDE DEF a, b, c
<1> QED
  BY <1>1, SeqsAre

LEMMA SentGrows ==
  ASSUME Tick, SentSeqs
  PROVE  /\ SentSeqs' /\ SentPackets \subseteq SentPackets'
         /\ \A e \in Endpoints : Range(Begun(e)) \subseteq SentPackets'
<1>1. ASSUME NEW e \in Endpoints
      PROVE  /\ sent'[e] \in Seq(Range(sent'[e]))
             /\ Range(sent'[e]) = Range(sent[e]) \cup Range(Begun(e))
  <2>1. sent'[e] = sent[e] \o Begun(e)
    BY DEF Tick, HistoryClock
  <2> DEFINE s == sent[e]
             t == Begun(e)
  <2>2. s \in Seq(Range(s)) /\ t \in Seq(Range(t))
    BY BegunIsSeq DEF SentSeqs, IsSeq
  <2> HIDE DEF s, t
  <2>3. s \o t \in Seq(Range(s \o t)) /\ Range(s \o t) = Range(s) \cup Range(t)
    BY <2>2, JoinIs
  <2> QED
    BY <2>1, <2>3 DEF s, t
<1>2. SentSeqs'
  BY <1>1 DEF SentSeqs
<1>3. \A e \in Endpoints : Range(sent'[e]) \subseteq SentPackets'
  BY DEF SentPackets
<1>4. \A x \in SentPackets : \E e \in Endpoints : x \in Range(sent[e])
  BY DEF SentPackets
<1>5. SentPackets \subseteq SentPackets'
  BY <1>1, <1>3, <1>4
<1> QED
  BY <1>1, <1>2, <1>3, <1>5

\* The first of the packets a kernel sends.
LEMMA SentFirst ==
  ASSUME Tick, SentSeqs, NEW r \in Routers, MaySend(r)
  PROVE  Head(kernel[r].outbox) \in SentPackets'
<1> DEFINE e == PE(r)
           p == Head(kernel[r].outbox)
<1>1. e \in Endpoints /\ e[1] = r /\ e[2] = LOCAL_PORT
  BY DEF PE, Endpoints
<1>2. Begun(e) = <<p>>
  BY <1>1 DEF Begun
<1>3. Range(Begun(e)) \subseteq SentPackets'
  BY <1>1, SentGrows
<1> HIDE DEF e, p
<1>4. p \in Range(<<p>>)
  <2> DEFINE s == <<p>>
  <2>1. 1 \in DOMAIN s /\ s[1] = p
    OBVIOUS
  <2> HIDE DEF s
  <2>2. p \in Range(s)
    BY <2>1 DEF Range
  <2> QED
    BY <2>2 DEF s
<1> QED
  BY <1>2, <1>3, <1>4 DEF p

\* What an injector has begun to send.
LEMMA InjectorBegins ==
  ASSUME Tick, SentSeqs, NEW k \in Injectors
  PROVE  NewPackets(inj[k], inj'[k], SentPackets')
<1> DEFINE e == EndpointOf(k)
           i == inj[k]
           j == inj'[k]
           a == j.aux_pkt
           b == j.packet
<1>1. e \in Endpoints /\ e[2] # LOCAL_PORT /\ InjectorAt(e) = k
  BY PeripheralEndpoint
<1>2. Begun(e) = IF j.send = i.send \/ i.send = "WAIT_CREDIT" THEN <<>>
                 ELSE IF j.send \in {"DATA_AV", "MSG_REQUEST"} THEN <<a>>
                 ELSE IF j.send = "PACKET" THEN <<b>> ELSE <<>>
  BY <1>1 DEF Begun
<1>3. Range(Begun(e)) \subseteq SentPackets'
  BY <1>1, SentGrows
<1>4. ASSUME NEW p PROVE p \in Range(<<p>>)
  <2> DEFINE s == <<p>>
  <2>1. 1 \in DOMAIN s /\ s[1] = p
    OBVIOUS
  <2> HIDE DEF s
  <2>2. p \in Range(s)
    BY <2>1 DEF Range
  <2> QED
    BY <2>2 DEF s
<1> DEFINE P == SentPackets'
<1> HIDE DEF e, a, b, P
<1>5. j.send # i.send /\ i.send # "WAIT_CREDIT" /\ j.send \in {"DATA_AV", "MSG_REQUEST"} => a \in P
  <2> SUFFICES ASSUME j.send # i.send, i.send # "WAIT_CREDIT", j.send \in {"DATA_AV", "MSG_REQUEST"} PROVE a \in P
    OBVIOUS
  <2>1. Begun(e) = <<a>>
    BY <1>2
  <2> QED
    BY <1>3, <1>4, <2>1 DEF P
<1>6. j.send # i.send /\ i.send # "WAIT_CREDIT" /\ j.send = "PACKET" => b \in P
  <2> SUFFICES ASSUME j.send # i.send, i.send # "WAIT_CREDIT", j.send = "PACKET" PROVE b \in P
    OBVIOUS
  <2>1. Begun(e) = <<b>>
    BY <1>2
  <2> QED
    BY <1>3, <1>4, <2>1 DEF P
<1> QED
  BY <1>5, <1>6 DEF NewPackets, P, a, b

\* A cycle of the injectors.
LEMMA InjectorsStep ==
  ASSUME Tick, SentSeqs, order \in Orders, mem_peripheral \in BOOLEAN, NEW k \in Injectors, PeripheralInv(k),
         PortOf(k).credit \in BOOLEAN, AllFit(SentPackets')
  PROVE  Injects(k, inj'[k], PortOf(k), Opened(k), SentPackets')
<1> DEFINE i == inj[k]
           j == inj'[k]
           q == PortOf(k)
           P == SentPackets'
           open == Opened(k)
           rx == Tx(EndpointOf(k))
           f == Out(EndpointOf(k))
           c == update_credit(k)
<1>1. j = LET run(p, x) == Process(k, p, x, rx, f, c)
          IN  run(order[3], run(order[2], run(order[1], timer(i))))
  <2>1. InjectorClock([x \in Injectors |-> Tx(EndpointOf(x))], [x \in Injectors |-> Out(EndpointOf(x))],
                      [x \in Injectors |-> update_credit(x)])
    BY DEF Tick
  <2> DEFINE after(x) == Process(x, order[3], Process(x, order[2], Process(x, order[1], timer(inj[x]),
                                   Tx(EndpointOf(x)), Out(EndpointOf(x)), update_credit(x)),
                                   Tx(EndpointOf(x)), Out(EndpointOf(x)), update_credit(x)),
                                   Tx(EndpointOf(x)), Out(EndpointOf(x)), update_credit(x))
  <2>2. inj' = [MAInjector |-> after(MA), AppInjector |-> after(App)]
    BY <2>1 DEF InjectorClock, Injectors
  <2> HIDE DEF after
  <2>3. inj'[k] = after(k)
    BY <2>2 DEF Injectors, MA, App
  <2> QED
    BY <2>3 DEF after
<1>2. open \in BOOLEAN /\ c \in BOOLEAN /\ (c <=> q.credit /\ open)
  BY DEF Opened, update_credit, PortOf
<1>3. InjectorType(k, i) /\ CreditInv(q, i.tx) /\ InjectInv(k, i, q, open, SentPackets)
  BY DEF PeripheralInv
<1>4. SentPackets \subseteq P
  BY SentGrows
<1>5. NewPackets(i, j, P)
  BY InjectorBegins
<1>6. AllFit(P) /\ q.credit \in BOOLEAN
  OBVIOUS
<1> HIDE DEF i, j, q, P, open, rx, f, c
<1>7. InjectInv(k, i, q, open, P)
  BY <1>3, <1>4, InjectMore
<1>8. Injects(k, j, q, open, P)
  BY <1>1, <1>2, <1>3, <1>5, <1>6, <1>7, InjectorStep
<1> QED
  BY <1>8 DEF j, q, P, open

-----------------------------------------------------------------------------
(* A cycle of the platform.                                                *)

\* A cycle of the platform.  P are the packets that have been sent when it ends.
Wired == [r \in Routers |-> [p \in Ports |-> Outer(r, p)]]
Sent == [r \in Routers |-> [p \in Ports |-> Driven(r, p)]]
For(r, P) == {p \in P : IsFor(r, p)}

\* What is true before it, said of those packets.
Ready(P) ==
  /\ AllFit(P) /\ SentPackets \subseteq P
  /\ \A r \in Routers : /\ ProcessorParts(r, P, For(r, P)) /\ BufferInv(rcv[r]) /\ fila[r][LOCAL_PORT].credit \in BOOLEAN
                        /\ MaySend(r) => Head(kernel[r].outbox) \in P
  /\ FlowInv(fila, switch, P)
  /\ \A r \in Routers : Given(switch[r], fila[r], LOCAL_PORT, FALSE, LastPut(rcv[r]))
  /\ \A k \in Injectors : PortOf(k).credit \in BOOLEAN /\ Injects(k, inj'[k], PortOf(k), Opened(k), P)
                          /\ InjectorType(k, inj[k])

LEMMA QueueCredit ==
  ASSUME HermesInv, NEW r \in Routers, NEW p \in Ports
  PROVE  fila[r][p].credit \in BOOLEAN
BY DEF HermesInv, QueueInv, QueueType

LEMMA WholeParts ==
  ASSUME WholeInv, NEW r \in Routers
  PROVE  /\ ProcessorParts(r, SentPackets, SentTo(r))
         /\ Given(switch[r], fila[r], LOCAL_PORT, FALSE, LastPut(rcv[r]))
BY DEF WholeInv, ProcessorInv, ProcessorParts

LEMMA IsReady ==
  ASSUME Tick, HermesInv, WholeInv, BuffersInv, AllFit(SentPackets')
  PROVE  Ready(SentPackets')
<1> DEFINE P == SentPackets'
<1>1. SentSeqs /\ order \in Orders /\ mem_peripheral \in BOOLEAN
  BY DEF WholeInv, SentSeqs
<1>2. SentPackets \subseteq P
  BY <1>1, SentGrows
<1>3. LOCAL_PORT \in Ports
  BY DEF Ports, NPORT, LOCAL_PORT
<1>4. ASSUME NEW k \in Injectors
      PROVE  PortOf(k).credit \in BOOLEAN /\ Injects(k, inj'[k], PortOf(k), Opened(k), P) /\ InjectorType(k, inj[k])
  <2>1. PeripheralInv(k)
    BY DEF WholeInv
  <2>2. PortOf(k).credit \in BOOLEAN
    BY PeripheralEndpoint, QueueCredit DEF PortOf
  <2> QED
    BY <1>1, <2>1, <2>2, InjectorsStep DEF PeripheralInv
<1>5. ASSUME NEW r \in Routers
      PROVE  /\ ProcessorParts(r, P, For(r, P)) /\ BufferInv(rcv[r]) /\ fila[r][LOCAL_PORT].credit \in BOOLEAN
             /\ MaySend(r) => Head(kernel[r].outbox) \in P
             /\ Given(switch[r], fila[r], LOCAL_PORT, FALSE, LastPut(rcv[r]))
  <2>1. SentTo(r) \subseteq For(r, P)
    BY <1>2 DEF SentTo, For
  <2>2. /\ ProcessorParts(r, SentPackets, SentTo(r))
        /\ Given(switch[r], fila[r], LOCAL_PORT, FALSE, LastPut(rcv[r]))
    BY WholeParts
  <2>3. BufferInv(rcv[r]) /\ fila[r][LOCAL_PORT].credit \in BOOLEAN
    BY <1>3, QueueCredit DEF BuffersInv
  <2>4. MaySend(r) => Head(kernel[r].outbox) \in P
    BY <1>1, SentFirst
  <2> DEFINE Q == For(r, P)
  <2> HIDE DEF P, Q
  <2>5. ProcessorParts(r, P, Q)
    BY <1>2, <2>1, <2>2, PartsMore DEF Q
  <2> QED
    BY <2>2, <2>3, <2>4, <2>5 DEF P, Q
<1>6. FlowInv(fila, switch, P)
  <2>1. FlowInv(fila, switch, SentPackets)
    BY DEF WholeInv
  <2> HIDE DEF P
  <2> QED
    BY <1>2, <2>1, FlowOfMore
<1> HIDE DEF P
<1>7. AllFit(P)
  BY DEF P
<1>8. Ready(P)
  BY <1>2, <1>4, <1>5, <1>6, <1>7 DEF Ready
<1> QED
  BY <1>8 DEF P

\* What is connected to the network keeps to its rules.
LEMMA PortsAre ==
  ASSUME Tick, TableInv, NEW P, Ready(P)
  PROVE  /\ ArePackets(P) /\ Credits(Wired) /\ Offers(Sent, P) /\ HermesClock(Wired, Sent)
         /\ \A r \in Routers : /\ Sent[r][LOCAL_PORT] = <<snd'[r].tx, snd'[r].data_out>>
                               /\ Wired[r][LOCAL_PORT] = slot_available(rcv[r])
                               /\ Sent[r][LOCAL_PORT][1] \in BOOLEAN
         /\ \A k \in Injectors : /\ Sent[IoPe[k]][IoPort[k]] = <<inj'[k].tx, inj'[k].data_out>>
                                 /\ Sent[IoPe[k]][IoPort[k]][1] \in BOOLEAN
<1>1. LOCAL_PORT \in Ports
  BY DEF Ports, NPORT, LOCAL_PORT
<1>2. /\ \A r \in Routers : /\ ProcessorParts(r, P, For(r, P)) /\ BufferInv(rcv[r]) /\ fila[r][LOCAL_PORT].credit \in BOOLEAN
                            /\ MaySend(r) => Head(kernel[r].outbox) \in P
      /\ \A k \in Injectors : Injects(k, inj'[k], PortOf(k), Opened(k), P) /\ InjectorType(k, inj[k])
      /\ AllFit(P)
  BY DEF Ready
<1>3. ASSUME NEW r \in Routers
      PROVE  /\ snd'[r].tx \in BOOLEAN
             /\ snd'[r].tx => IsFlit(snd'[r].data_out, P) /\ Follows(LastIn(fila[r][LOCAL_PORT]), snd'[r].data_out)
  <2> DEFINE Q == For(r, P)
  <2>1. AllFit(Q)
    BY <1>2 DEF AllFit, For
  <2>2. MaySend(r) => Fits(Head(kernel[r].outbox))
    BY <1>2 DEF AllFit
  <2>3. ProcessorParts(r, P, Q) /\ fila[r][LOCAL_PORT].credit \in BOOLEAN
    BY <1>2
  <2> HIDE DEF Q
  <2>4. Sends(snd[r], snd'[r], fila[r][LOCAL_PORT], P)
    BY <1>2, <2>1, <2>2, <2>3, SenderOf
  <2> QED
    BY <2>4 DEF Sends
<1>4. ASSUME NEW r \in Routers
      PROVE  /\ Sent[r][LOCAL_PORT] = <<snd'[r].tx, snd'[r].data_out>> /\ Wired[r][LOCAL_PORT] = slot_available(rcv[r])
             /\ Wired[r][LOCAL_PORT] \in BOOLEAN
  <2>1. Sent[r][LOCAL_PORT] = Driven(r, LOCAL_PORT) /\ Wired[r][LOCAL_PORT] = Outer(r, LOCAL_PORT)
    BY <1>1 DEF Sent, Wired
  <2>0. ~IsIo(r, LOCAL_PORT)
    BY PeripheralEndpoint DEF IsIo
  <2>2. Driven(r, LOCAL_PORT) = <<snd'[r].tx, snd'[r].data_out>>
    BY <2>0 DEF Driven
  <2>3. Outer(r, LOCAL_PORT) = slot_available(rcv[r])
    BY <2>0 DEF Outer
  <2>4. slot_available(rcv[r]) \in BOOLEAN
    BY DEF slot_available
  <2> QED
    BY <2>1, <2>2, <2>3, <2>4
<1>5. ASSUME NEW r \in Routers, NEW p \in Ports, p # LOCAL_PORT, IsIo(r, p)
      PROVE  \E k \in Injectors :
               /\ r = IoPe[k] /\ p = IoPort[k] /\ Sent[r][p] = <<inj'[k].tx, inj'[k].data_out>>
               /\ Wired[r][p] = inj[k].credit
  <2>1. PICK k \in Injectors : EndpointOf(k) = <<r, p>>
    BY <1>5 DEF IsIo
  <2>2. r = IoPe[k] /\ p = IoPort[k] /\ InjectorAt(<<r, p>>) = k
    BY <2>1, PeripheralEndpoint
  <2>3. Driven(r, p) = <<inj'[k].tx, inj'[k].data_out>>
    BY <1>5, <2>2 DEF Driven
  <2>4. Outer(r, p) = inj[k].credit
    BY <1>5, <2>2 DEF Outer
  <2>5. Sent[r][p] = Driven(r, p) /\ Wired[r][p] = Outer(r, p)
    BY DEF Sent, Wired
  <2> QED
    BY <2>2, <2>3, <2>4, <2>5
<1>6. ASSUME NEW r \in Routers, NEW p \in Ports, p # LOCAL_PORT, ~IsIo(r, p)
      PROVE  Sent[r][p] = <<FALSE, NoFlit>> /\ Wired[r][p] = FALSE
  BY <1>6 DEF Sent, Wired, Driven, Outer
<1>7. ASSUME NEW k \in Injectors
      PROVE  /\ inj'[k].tx \in BOOLEAN /\ inj[k].credit \in BOOLEAN
             /\ inj'[k].tx /\ in_proc_FSM(fila[IoPe[k]][IoPort[k]]) =>
                  IsFlit(inj'[k].data_out, P) /\ Follows(LastIn(fila[IoPe[k]][IoPort[k]]), inj'[k].data_out)
  BY <1>2 DEF Injects, InjectorType, StageInv, PortOf
<1>8. Credits(Wired)
  <2> SUFFICES ASSUME NEW r \in Routers, NEW p \in Ports PROVE Wired[r][p] \in BOOLEAN
    BY DEF Credits
  <2> QED
    BY <1>4, <1>5, <1>6, <1>7
<1>9. Offers(Sent, P)
  <2> SUFFICES ASSUME NEW r \in Routers, NEW p \in Ports
               PROVE  /\ Sent[r][p][1] \in BOOLEAN
                      /\ Sent[r][p][1] /\ in_proc_FSM(fila[r][p]) =>
                           IsFlit(Sent[r][p][2], P) /\ Follows(LastIn(fila[r][p]), Sent[r][p][2])
    BY DEF Offers
  <2>1. CASE p = LOCAL_PORT
    BY <1>3, <1>4, <2>1
  <2>2. CASE p # LOCAL_PORT /\ IsIo(r, p)
    <3>1. PICK k \in Injectors : r = IoPe[k] /\ p = IoPort[k] /\ Sent[r][p] = <<inj'[k].tx, inj'[k].data_out>>
      BY <1>5, <2>2
    <3> QED
      BY <1>7, <3>1
  <2>3. CASE p # LOCAL_PORT /\ ~IsIo(r, p)
    <3>1. Sent[r][p] = <<FALSE, NoFlit>>
      BY <1>6, <2>3
    <3>2. Sent[r][p][1] = FALSE
      BY <3>1
    <3> QED
      BY <3>2
  <2> QED
    BY <2>1, <2>2, <2>3
<1>10. HermesClock(Wired, Sent)
  BY DEF Tick, Wired, Sent
<1>11. ArePackets(P)
  BY <1>2, FitPackets
<1>12. ASSUME NEW k \in Injectors
       PROVE  Sent[IoPe[k]][IoPort[k]] = <<inj'[k].tx, inj'[k].data_out>>
  <2>1. /\ IoPe[k] \in Routers /\ IoPort[k] \in Ports /\ IoPort[k] # LOCAL_PORT
        /\ InjectorAt(EndpointOf(k)) = k /\ EndpointOf(k) = <<IoPe[k], IoPort[k]>>
    BY PeripheralEndpoint DEF EndpointOf
  <2>2. IsIo(IoPe[k], IoPort[k])
    BY <2>1 DEF IsIo
  <2>3. Driven(IoPe[k], IoPort[k]) = <<inj'[k].tx, inj'[k].data_out>>
    BY <2>1, <2>2 DEF Driven
  <2> QED
    BY <2>1, <2>3 DEF Sent
<1>13. \A r \in Routers : Sent[r][LOCAL_PORT][1] \in BOOLEAN
  <2> SUFFICES ASSUME NEW r \in Routers PROVE Sent[r][LOCAL_PORT][1] \in BOOLEAN
    OBVIOUS
  <2>1. Sent[r][LOCAL_PORT][1] = snd'[r].tx
    BY <1>4
  <2> QED
    BY <1>3, <2>1
<1>14. \A k \in Injectors : Sent[IoPe[k]][IoPort[k]][1] \in BOOLEAN
  <2> SUFFICES ASSUME NEW k \in Injectors PROVE Sent[IoPe[k]][IoPort[k]][1] \in BOOLEAN
    OBVIOUS
  <2> DEFINE w == Sent[IoPe[k]][IoPort[k]]
             a == inj'[k].tx
             b == inj'[k].data_out
  <2>1. w = <<a, b>>
    BY <1>12
  <2>2. a \in BOOLEAN
    BY <1>7
  <2> HIDE DEF w, a, b
  <2>3. w[1] \in BOOLEAN
    BY <2>1, <2>2
  <2> QED
    BY <2>3 DEF w
<1> QED
  BY <1>4, <1>8, <1>9, <1>10, <1>11, <1>12, <1>13, <1>14

\* What a cycle makes of a processing element.
LEMMA ProcessorCycle ==
  ASSUME Tick, HermesInv, TableInv, TableInv', MapperInv, NEW P, Ready(P), NEW r \in Routers
  PROVE  LET q == fila'[r][LOCAL_PORT]
             Q == For(r, P)
         IN  /\ DOMAIN mem'[r] = 0 .. RAM_SIZE - 1 /\ ArbiterType(arb'[r]) /\ ReportType(mon'[r])
             /\ CreditInv(q, snd'[r].tx)
             /\ SendInv(snd'[r], q, mem'[r], mem_data_read'[r], P)
             /\ Given(switch'[r], fila'[r], LOCAL_PORT, FALSE, LastPut(rcv'[r]))
             /\ WordsFlow(rcv'[r], Q)
             /\ KernelInv(kernel'[r], cfg'[r], rcv'[r], snd'[r], mem'[r], P, Q)
             /\ ReceiverInv(rcv'[r], arb'[r]) /\ NoReports(r)'
<1> DEFINE Q == For(r, P)
           L == LOCAL_PORT
           f == data_out(switch[r], fila[r], L)
           tx == switch[r].tx[L]
           last == LastPut(rcv[r])
           w == <<snd'[r].tx, snd'[r].data_out>>
<1>1. L \in Ports /\ ~IsLink(r, L)
  BY DEF Ports, NPORT, LOCAL_PORT, IsLink
<1>2. /\ ArePackets(P) /\ Credits(Wired) /\ Offers(Sent, P) /\ HermesClock(Wired, Sent)
      /\ Sent[r][L] = w /\ Wired[r][L] = slot_available(rcv[r]) /\ Sent[r][L][1] \in BOOLEAN
  BY PortsAre
<1>3. /\ ProcessorParts(r, P, Q) /\ BufferInv(rcv[r]) /\ fila[r][L].credit \in BOOLEAN
      /\ MaySend(r) => Head(kernel[r].outbox) \in P
      /\ FlowInv(fila, switch, P) /\ Given(switch[r], fila[r], L, FALSE, last) /\ AllFit(P)
  BY DEF Ready
<1>4. AllFit(Q)
  BY <1>3 DEF AllFit, For
<1>5. /\ LastIn(fila'[r][L]) = (IF Sent[r][L][1] /\ in_proc_FSM(fila[r][L]) THEN Sent[r][L][2] ELSE LastIn(fila[r][L]))
      /\ fila'[r][L].credit = in_proc_FSM(fila[r][L])
      /\ tx => IsFlit(f, P) /\ Follows(last, f)
      /\ Given(switch'[r], fila'[r], L, FALSE, IF tx /\ CreditIn(r, Wired)[L] THEN f ELSE last)
  <2> HIDE DEF L, f, tx, last
  <2>1. /\ \A x \in Routers, p \in Ports :
             ~IsLink(x, p) =>
               /\ LastIn(fila'[x][p]) = IF Sent[x][p][1] /\ in_proc_FSM(fila[x][p])
                                        THEN Sent[x][p][2] ELSE LastIn(fila[x][p])
               /\ fila'[x][p].credit = in_proc_FSM(fila[x][p])
        /\ \A x \in Routers, p \in Ports : \A l :
             Given(switch[x], fila[x], p, FALSE, l) =>
               LET g == data_out(switch[x], fila[x], p)
               IN  /\ switch[x].tx[p] => IsFlit(g, P) /\ Follows(l, g)
                   /\ Given(switch'[x], fila'[x], p, FALSE,
                            IF switch[x].tx[p] /\ CreditIn(x, Wired)[p] THEN g ELSE l)
    BY <1>2, <1>3, FlowStep
  <2>2. /\ switch[r].tx[L] => IsFlit(data_out(switch[r], fila[r], L), P) /\ Follows(last, data_out(switch[r], fila[r], L))
        /\ Given(switch'[r], fila'[r], L, FALSE,
                 IF switch[r].tx[L] /\ CreditIn(r, Wired)[L] THEN data_out(switch[r], fila[r], L) ELSE last)
    BY <1>1, <1>3, <2>1
  <2> QED
    BY <1>1, <2>1, <2>2 DEF tx, f
<1>6. Accepts(fila[r][L], fila'[r][L], snd'[r])
  <2> DEFINE s == Sent[r][L]
             a == snd'[r].tx
             b == snd'[r].data_out
  <2>1. s = <<a, b>>
    BY <1>2
  <2> HIDE DEF s, a, b
  <2>2. s[1] = a /\ s[2] = b
    BY <2>1
  <2> QED
    BY <1>5, <2>2 DEF Accepts, s, a, b
<1>7. CreditInv(fila'[r][L], snd'[r].tx)
  <2> DEFINE s == Sent[r][L]
             a == snd'[r].tx
             b == snd'[r].data_out
  <2>1. s = <<a, b>>
    BY <1>2
  <2>2. CreditInv(fila'[r][L], s[1])
    BY <1>1, <1>2, CreditKept
  <2> HIDE DEF s, a, b
  <2>3. s[1] = a
    BY <2>1
  <2>4. CreditInv(fila'[r][L], a)
    BY <2>2, <2>3
  <2> QED
    BY <2>4 DEF a
<1>8. Tx(PE(r)) = tx /\ Out(PE(r)) = f
  BY DEF Tx, Out, PE
<1>9. tx => IsFlit(f, Q) /\ Follows(last, f)
  <2> SUFFICES ASSUME tx PROVE IsFlit(f, Q)
    BY <1>5
  <2>1. IsFlit(f, P) /\ IsFor(r, f[1])
    BY <1>2, <1>3, LocalFlit
  <2> HIDE DEF f
  <2> QED
    BY <2>1 DEF IsFlit, For
<1>10. Tx(PE(r)) => IsFlit(Out(PE(r)), Q) /\ Follows(LastPut(rcv[r]), Out(PE(r)))
  BY <1>8, <1>9
<1>11. LastPut(rcv'[r]) = IF Tx(PE(r)) /\ slot_available(rcv[r]) THEN Out(PE(r)) ELSE LastPut(rcv[r])
  <2>1. WordsFlow(rcv[r], Q)
    BY <1>3 DEF ProcessorParts
  <2> HIDE DEF Q
  <2> QED
    BY <1>3, <1>4, <1>10, <2>1, ReceptionOf
<1>12. CreditIn(r, Wired)[L] = slot_available(rcv[r])
  BY <1>1, <1>2 DEF CreditIn
<1>13. Given(switch'[r], fila'[r], L, FALSE, LastPut(rcv'[r]))
  <2> HIDE DEF f, tx, last, L
  <2> QED
    BY <1>5, <1>8, <1>11, <1>12 DEF last
<1> HIDE DEF Q, f, tx, last, w
<1>14. LET q == fila'[r][LOCAL_PORT]
       IN  /\ DOMAIN mem'[r] = 0 .. RAM_SIZE - 1 /\ ArbiterType(arb'[r]) /\ ReportType(mon'[r])
           /\ CreditInv(q, snd'[r].tx)
           /\ SendInv(snd'[r], q, mem'[r], mem_data_read'[r], P)
           /\ WordsFlow(rcv'[r], Q)
           /\ KernelInv(kernel'[r], cfg'[r], rcv'[r], snd'[r], mem'[r], P, Q)
           /\ ReceiverInv(rcv'[r], arb'[r]) /\ NoReports(r)'
  BY <1>3, <1>4, <1>6, <1>7, <1>10, ProcessorStep
<1> QED
  BY <1>13, <1>14 DEF Q

\* A port that has been opened stays open.
LEMMA InjectOpens ==
  ASSUME NEW k, NEW i, NEW q, NEW P, NEW open, NEW open2, open => open2, InjectInv(k, i, q, open, P)
  PROVE  InjectInv(k, i, q, open2, P)
BY DEF InjectInv

\* What a cycle makes of an injector.
LEMMA PeripheralCycle ==
  ASSUME Tick, HermesInv, TableInv, NEW P, Ready(P), NEW k \in Injectors
  PROVE  /\ InjectorType(k, inj'[k]) /\ CreditInv(PortOf(k)', inj'[k].tx)
         /\ InjectInv(k, inj'[k], PortOf(k)', Opened(k)', P)
<1> DEFINE r == IoPe[k]
           p == IoPort[k]
           j == inj'[k]
           w == Sent[r][p]
           a == j.tx
           b == j.data_out
           open == Opened(k)
           open2 == Opened(k)'
<1>1. r \in Routers /\ p \in Ports /\ ~IsLink(r, p)
  BY PeripheralEndpoint
<1>2. /\ ArePackets(P) /\ Credits(Wired) /\ Offers(Sent, P) /\ HermesClock(Wired, Sent)
      /\ w = <<a, b>> /\ w[1] \in BOOLEAN
  BY PortsAre
<1>3. FlowInv(fila, switch, P) /\ Injects(k, j, fila[r][p], open, P)
  BY DEF Ready, PortOf
<1> HIDE DEF r, p
<1>4. /\ LastIn(fila'[r][p]) = (IF w[1] /\ in_proc_FSM(fila[r][p]) THEN w[2] ELSE LastIn(fila[r][p]))
      /\ fila'[r][p].credit = in_proc_FSM(fila[r][p])
  BY <1>1, <1>2, <1>3, FlowStep
<1>5. CreditInv(fila'[r][p], w[1])
  BY <1>1, <1>2, CreditKept
<1> HIDE DEF w, a, b
<1>6. w[1] = a /\ w[2] = b
  BY <1>2
<1>7. Accepts(fila[r][p], fila'[r][p], j)
  BY <1>4, <1>6 DEF Accepts, a, b
<1>8. CreditInv(fila'[r][p], a)
  BY <1>5, <1>6
<1>9. open => open2
  BY DEF Tick, KernelClock, Opened
<1> HIDE DEF j, open, open2
<1>10. InjectorType(k, j) /\ InjectInv(k, j, fila'[r][p], open, P)
  BY <1>3, <1>7 DEF Injects
<1>11. InjectInv(k, j, fila'[r][p], open2, P)
  BY <1>9, <1>10, InjectOpens
<1> QED
  BY <1>8, <1>10, <1>11 DEF j, a, r, p, open2, PortOf

-----------------------------------------------------------------------------
(* The invariant of the platform.                                          *)

SystemInv == HermesInv /\ WholeInv /\ BuffersInv /\ TableInv

\* With packets that fit, the kernels behave.
LEMMA KernelsDo ==
  ASSUME PacketsFit, SystemInv
  PROVE  ReceivesByPacket /\ LeavesTable
<1>1. AllFit(SentPackets) /\ \A r \in Routers : AllFit(SentTo(r))
  BY AllSentFit DEF AllFit, SentTo
<1>2. \A r \in Routers : /\ ReceiverInv(rcv[r], arb[r]) /\ WordsFlow(rcv[r], SentTo(r))
                         /\ KernelInv(kernel[r], cfg[r], rcv[r], snd[r], mem[r], SentPackets, SentTo(r))
  BY DEF SystemInv, WholeInv, ProcessorInv
<1>3. BuffersInv
  BY DEF SystemInv
<1> QED
  BY <1>1, <1>2, <1>3, Behave

LEMMA SystemTick ==
  ASSUME Tick, PacketsFit, AllFit(SentPackets'), SystemInv
  PROVE  SystemInv'
<1> DEFINE P == SentPackets'
<1>1. HermesInv /\ WholeInv /\ BuffersInv /\ TableInv /\ MapperInv /\ SentSeqs /\ order \in Orders /\ mem_peripheral \in BOOLEAN
  BY DEF SystemInv, WholeInv, SentSeqs
<1>2. ReceivesByPacket /\ LeavesTable
  BY KernelsDo
<1>3. BuffersInv' /\ TableInv'
  BY <1>1, <1>2, BuffersKept, TableKept
<1>4. Ready(P)
  BY <1>1, IsReady
<1>5. /\ ArePackets(P) /\ Credits(Wired) /\ Offers(Sent, P) /\ HermesClock(Wired, Sent)
  BY <1>1, <1>4, PortsAre
<1>6. HermesInv'
  BY <1>1, <1>5, HermesStep
<1>7. FlowInv(fila', switch', P)
  <2>1. FlowInv(fila, switch, P)
    BY <1>4 DEF Ready
  <2> HIDE DEF P
  <2> QED
    BY <1>1, <1>5, <2>1, FlowStep
<1>8. MapperInv' /\ SentSeqs'
  BY <1>1, MapperStep, SentGrows DEF Tick
<1>9. ASSUME NEW r \in Routers PROVE ProcessorInv(r)'
  <2> DEFINE Q == For(r, P)
  <2>1. LET q == fila'[r][LOCAL_PORT]
        IN  /\ DOMAIN mem'[r] = 0 .. RAM_SIZE - 1 /\ ArbiterType(arb'[r]) /\ ReportType(mon'[r])
            /\ CreditInv(q, snd'[r].tx)
            /\ SendInv(snd'[r], q, mem'[r], mem_data_read'[r], P)
            /\ Given(switch'[r], fila'[r], LOCAL_PORT, FALSE, LastPut(rcv'[r]))
            /\ WordsFlow(rcv'[r], Q)
            /\ KernelInv(kernel'[r], cfg'[r], rcv'[r], snd'[r], mem'[r], P, Q)
            /\ ReceiverInv(rcv'[r], arb'[r]) /\ NoReports(r)'
    BY <1>1, <1>3, <1>4, ProcessorCycle
  <2>2. SentTo(r)' = Q
    BY DEF SentTo, For
  <2> HIDE DEF Q
  <2> QED
    BY <2>1, <2>2 DEF ProcessorInv
<1>10. ASSUME NEW k \in Injectors PROVE PeripheralInv(k)'
  <2>1. /\ InjectorType(k, inj'[k]) /\ CreditInv(PortOf(k)', inj'[k].tx)
        /\ InjectInv(k, inj'[k], PortOf(k)', Opened(k)', P)
    BY <1>1, <1>4, PeripheralCycle
  <2> QED
    BY <2>1 DEF PeripheralInv
<1>11. order' \in Orders /\ mem_peripheral' \in BOOLEAN
  BY <1>1 DEF Tick, InjectorClock, KernelClock
<1>12. WholeInv'
  BY <1>7, <1>8, <1>9, <1>10, <1>11 DEF WholeInv, SentSeqs
<1> QED
  BY <1>3, <1>6, <1>12 DEF SystemInv

LEMMA SystemKept == SystemInv /\ PacketsFit /\ PacketsFit' /\ [Tick]_platformVars => SystemInv'
<1>1. ASSUME SystemInv, PacketsFit, PacketsFit', Tick PROVE SystemInv'
  <2>1. AllFit(SentPackets')
    BY <1>1 DEF PacketsFit, AllFit, SentPackets, Range
  <2> QED
    BY <1>1, <2>1, SystemTick
<1>2. ASSUME SystemInv, PacketsFit, UNCHANGED platformVars PROVE SystemInv'
  <2>0. /\ fila' = fila /\ switch' = switch /\ arb' = arb /\ cfg' = cfg /\ rcv' = rcv /\ snd' = snd /\ mon' = mon
        /\ mem' = mem /\ mem_data_read' = mem_data_read /\ inj' = inj /\ order' = order /\ kernel' = kernel
        /\ mapper' = mapper /\ mem_peripheral' = mem_peripheral /\ sent' = sent
    BY <1>2 DEF platformVars
  <2>1. HermesInv'
    BY <1>2, <2>0 DEF SystemInv, HermesInv, SwitchInv, Holding, Chosen
  <2>2. ReceivesByPacket /\ LeavesTable
    BY <1>2, KernelsDo
  <2>3. BuffersInv' /\ TableInv'
    BY <1>2, <2>2, BuffersKept, TableKept DEF SystemInv
  <2>4. SentPackets' = SentPackets /\ \A r \in Routers : SentTo(r)' = SentTo(r)
    BY <2>0 DEF SentPackets, SentTo
  <2>5. \A k \in Injectors : PortOf(k)' = PortOf(k) /\ Opened(k)' = Opened(k)
    BY <2>0 DEF PortOf, Opened
  <2>6. MapperInv' /\ \A r \in Routers : NoReports(r)' = NoReports(r)
    BY <1>2, <2>0 DEF SystemInv, WholeInv, MapperInv, NoReports
  <2>7. WholeInv /\ MapperInv
    BY <1>2 DEF SystemInv, WholeInv
  <2>8. ASSUME NEW r \in Routers PROVE ProcessorInv(r)'
    <3>1. ProcessorInv(r)
      BY <2>7 DEF WholeInv
    <3> QED
      BY <2>0, <2>4, <2>6, <3>1 DEF ProcessorInv
  <2>9. ASSUME NEW k \in Injectors PROVE PeripheralInv(k)'
    <3>1. PeripheralInv(k)
      BY <2>7 DEF WholeInv
    <3> QED
      BY <2>0, <2>4, <2>5, <3>1 DEF PeripheralInv
  <2>10. /\ \A e \in Endpoints : sent'[e] \in Seq(Range(sent'[e]))
         /\ FlowInv(fila', switch', SentPackets')
         /\ order' \in Orders /\ mem_peripheral' \in BOOLEAN
    BY <2>0, <2>4, <2>7 DEF WholeInv
  <2> QED
    BY <2>1, <2>3, <2>6, <2>8, <2>9, <2>10 DEF SystemInv, WholeInv
<1> QED
  BY <1>1, <1>2

-----------------------------------------------------------------------------
(* At first nothing is on its way.                                         *)

LEMMA EmptyQueueIs ==
  /\ EmptyQueue.credit = TRUE /\ LastIn(EmptyQueue) = NoFlit /\ Ends(LastIn(EmptyQueue)) /\ ~AlmostFull(EmptyQueue)
<1>1. BUFFER_TAM \in Nat /\ BUFFER_TAM >= 4 /\ BUFFER_TAM - 1 \in 0 .. BUFFER_TAM - 1
  BY MeshAssumption
<1>2. EmptyQueue.first = 0 /\ EmptyQueue.last = 0 /\ EmptyQueue.credit = TRUE
      /\ \A k \in 0 .. BUFFER_TAM - 1 : EmptyQueue.buffer[k] = NoFlit
  BY DEF EmptyQueue
<1>3. ~AlmostFull(EmptyQueue)
  BY <1>1, <1>2 DEF AlmostFull
<1> QED
  BY <1>1, <1>2, <1>3 DEF LastIn, Before, Ends

LEMMA ProcessorStart ==
  ASSUME Init, NEW r \in Routers
  PROVE  ProcessorInv(r)
<1> DEFINE L == LOCAL_PORT
           s == snd[r]
           q == rcv[r]
           Q == SentTo(r)
           P == SentPackets
<1>1. L \in Ports
  BY DEF Ports, NPORT, LOCAL_PORT
<1>2. fila[r][L] = EmptyQueue /\ switch[r] = ResetSwitch
  BY <1>1 DEF Init, HermesInit
<1>3. DOMAIN mem[r] = 0 .. RAM_SIZE - 1
  BY DEF Init, DmniInit
<1>4. arb[r] = [ARB |-> "ROUND", last_arb |-> "SEND", timer |-> 0]
  BY DEF Init, DmniInit
<1>5. ArbiterType(arb[r]) /\ arb[r].ARB = "ROUND"
  BY <1>4 DEF ArbiterType
<1>6. ReportType(mon[r]) /\ ~mon[r].br_we /\ mon[r].br_rcv_state = "BR_RCV_IDLE"
  <2> DEFINE t == [o \in Routers |-> [i \in 0 .. TASK_PER_PE - 1 |-> NoTask]]
             m == mon[r]
  <2>1. m = [br_rcv_state |-> "BR_RCV_IDLE", br_ack_mon |-> FALSE, br_mem_addr |-> 0, br_mem_data |-> NoFlit,
             br_we |-> FALSE, mon_table |-> t]
    BY DEF Init, DmniInit
  <2>2. LinesType(t)
    BY DEF LinesType, Indexes
  <2> HIDE DEF t, m
  <2>3. ReportType(m) /\ m.br_we = FALSE /\ m.br_rcv_state = "BR_RCV_IDLE"
    BY <2>1, <2>2 DEF ReportType
  <2> QED
    BY <2>3 DEF m
<1>7. s = [DMNI_Send |-> "WAIT", send_address |-> 0, send_address_2 |-> 0, send_size |-> 0, send_size_2 |-> 0,
           send_active |-> FALSE, tx |-> FALSE, data_out |-> NoFlit]
  BY DEF Init, DmniInit
<1>8. s.tx = FALSE /\ s.DMNI_Send = "WAIT" /\ s.send_active = FALSE /\ SendType(s)
  BY <1>7 DEF SendType
<1>9. CreditInv(fila[r][L], s.tx) /\ SendInv(s, fila[r][L], mem[r], mem_data_read[r], P)
  BY <1>2, <1>8, EmptyQueueIs DEF CreditInv, SendInv
<1>10. BufferType(q) /\ \A k \in Cells : ~Holds(q, k)
  <2>1. BufferType(q)
    BY BuffersInitially DEF BuffersInv, BufferInv
  <2>2. q.first = 0 /\ q.last = 0 /\ q.add_buffer = FALSE
    BY DEF Init, DmniInit
  <2> QED
    BY <2>1, <2>2 DEF Holds
<1>11. /\ q.SR = "HEADER" /\ q.DMNI_Receive = "WAIT" /\ q.noc_data_write = NoFlit /\ q.noc_we = FALSE
       /\ q.receive_active = FALSE /\ q.first = 0 /\ q.last = 0 /\ q.add_buffer = FALSE
       /\ q.buffer = [i \in 0 .. BUFFER_SIZE - 1 |-> NoFlit]
  BY DEF Init, DmniInit
<1>12. LastPut(q) = NoFlit /\ Ends(NoFlit) /\ DOMAIN q.buffer = Cells
  <2>1. BUFFER_SIZE \in Nat /\ BUFFER_SIZE >= 1
    BY PlatformAssumption
  <2>2. BUFFER_SIZE - 1 \in 0 .. BUFFER_SIZE - 1
    BY <2>1
  <2> QED
    BY <1>11, <2>2 DEF LastPut, PrevCell, Ends, Cells
<1>13. WordsFlow(q, Q)
  <2>1. ~read_av(q)
    BY <1>11 DEF read_av
  <2> HIDE DEF q, Q
  <2> QED
    BY <1>10, <1>11, <1>12, <2>1 DEF WordsFlow
<1>14. Given(switch[r], fila[r], L, FALSE, LastPut(q))
  <2>1. switch[r].free[L]
    BY <1>1, <1>2 DEF ResetSwitch
  <2> QED
    BY <1>12, <2>1 DEF Given
<1>15. KernelInv(kernel[r], cfg[r], q, s, mem[r], P, Q)
  <2> DEFINE c == cfg[r]
             v == [t \in Tables |-> 0]
             k == kernel[r]
  <2>1. k = [todo |-> <<>>, outbox |-> <<>>, reading |-> "nothing"]
    BY DEF Init
  <2>2. KernelType(k) /\ k.todo = <<>> /\ k.outbox = <<>> /\ k.reading = "nothing"
    BY <2>1 DEF KernelType
  <2>3. c = [address |-> 0, address_2 |-> 0, size |-> 0, size_2 |-> 0, operation |-> 0, monitor_ptrs |-> v]
    BY DEF Init, DmniInit
  <2> HIDE DEF v, c
  <2>4. ConfigRecord(c)
    BY <2>3 DEF ConfigRecord
  <2>5. IsSeq(<<>>)
    BY SeqsAre
  <2>6. k.todo \in Seq(Range(k.todo)) /\ k.outbox \in Seq(Range(k.outbox))
    BY <2>2, <2>5 DEF IsSeq
  <2>7. AllQuiet(k.todo)
    BY <2>2 DEF AllQuiet
  <2> HIDE DEF k
  <2>8. RestsInv(k.todo, c, q, s, mem[r], P)
    BY <1>11, <1>12, <2>7 DEF RestsInv
  <2> QED
    BY <2>2, <2>4, <2>6, <2>8 DEF KernelInv, c, k
<1>16. ReceiverInv(q, arb[r]) /\ NoReports(r)
  BY <1>5, <1>6, <1>11 DEF ReceiverInv, NoReports
<1> QED
  BY <1>3, <1>5, <1>6, <1>9, <1>13, <1>14, <1>15, <1>16 DEF ProcessorInv

LEMMA SilentIs ==
  ASSUME NEW d, DOMAIN d \cap DOMAIN Silent = {}
  PROVE  LET i == With(d)
         IN  /\ SendFields \cup {"rcv", "credit"} \subseteq DOMAIN i /\ DOMAIN d \subseteq DOMAIN i
             /\ i.send = "IDLE" /\ i.tx = FALSE /\ i.rcv = "HEADER" /\ i.credit = TRUE
             /\ ("monitor" \in DOMAIN d => i.monitor = d.monitor)
<1> DEFINE s == Silent
<1>1. /\ SendFields \cup {"rcv", "credit"} \subseteq DOMAIN s
      /\ s.send = "IDLE" /\ s.tx = FALSE /\ s.rcv = "HEADER" /\ s.credit = TRUE
  BY DEF Silent, SendFields
<1> HIDE DEF s
<1>2. With(d) = [x \in DOMAIN s \cup DOMAIN d |-> IF x \in DOMAIN d THEN d[x] ELSE s[x]]
  BY DEF With, s
<1>3. DOMAIN d \cap DOMAIN s = {}
  BY DEF s
<1> QED
  BY <1>1, <1>2, <1>3 DEF SendFields

LEMMA PeripheralStart ==
  ASSUME Init, NEW k \in Injectors
  PROVE  PeripheralInv(k)
<1> DEFINE i == inj[k]
           q == PortOf(k)
<1>1. ASSUME k = MA
      PROVE  /\ SendFields \cup {"monitor", "rcv", "credit"} \subseteq DOMAIN i
             /\ i.send = "IDLE" /\ i.tx = FALSE /\ i.rcv = "HEADER" /\ i.credit = TRUE /\ i.monitor = "BOOT_INIT"
  <2> DEFINE d == [monitor |-> "BOOT_INIT", tasks |-> ma_start]
  <2>1. DOMAIN d = {"monitor", "tasks"} /\ d.monitor = "BOOT_INIT"
    OBVIOUS
  <2>2. i = With(d)
    BY <1>1 DEF Init, InjectorInit, Injectors
  <2>3. DOMAIN d \cap DOMAIN Silent = {}
    BY DEF Silent
  <2> HIDE DEF d, i
  <2> QED
    BY <2>1, <2>2, <2>3, SilentIs
<1>2. ASSUME k = App
      PROVE  /\ SendFields \cup {"monitor", "rcv", "credit"} \subseteq DOMAIN i
             /\ i.send = "IDLE" /\ i.tx = FALSE /\ i.rcv = "HEADER" /\ i.credit = TRUE /\ i.monitor = "ACTIVE"
  <2> DEFINE d == [monitor |-> "ACTIVE", apps |-> app_start, app |-> app_start[1]]
  <2>1. DOMAIN d = {"monitor", "apps", "app"} /\ d.monitor = "ACTIVE"
    OBVIOUS
  <2>2. i = With(d)
    BY <1>2 DEF Init, InjectorInit, Injectors, MA, App
  <2>3. DOMAIN d \cap DOMAIN Silent = {}
    BY DEF Silent
  <2> HIDE DEF d, i
  <2> QED
    BY <2>1, <2>2, <2>3, SilentIs
<1>3. /\ SendFields \cup {"monitor", "rcv", "credit"} \subseteq DOMAIN i
      /\ i.send = "IDLE" /\ i.tx = FALSE /\ i.rcv = "HEADER" /\ i.credit = TRUE
      /\ k = MA => i.monitor = "BOOT_INIT"
      /\ k = App => i.monitor = "ACTIVE"
      /\ k = MA \/ (k = App /\ k # MA)
  BY <1>1, <1>2 DEF Injectors, MA, App
<1>4. q = EmptyQueue
  BY PeripheralEndpoint DEF PortOf, Init, HermesInit
<1> HIDE DEF i, q
<1>5. InjectorType(k, i)
  BY <1>3 DEF InjectorType, MonitorStates, ReceiveStates
<1>6. CreditInv(q, i.tx)
  BY <1>3, <1>4, EmptyQueueIs DEF CreditInv
<1>7. StageInv(k, i, SentPackets)
  BY <1>3 DEF StageInv, Stage, Driving
<1>8. InjectInv(k, i, q, Opened(k), SentPackets)
  BY <1>3, <1>4, <1>7, EmptyQueueIs DEF InjectInv, Driving
<1> QED
  BY <1>5, <1>6, <1>8 DEF PeripheralInv, i, q

-----------------------------------------------------------------------------
(* The theorems.                                                           *)

LEMMA SystemStart == Init => SystemInv
<1> SUFFICES ASSUME Init
             PROVE  SystemInv
  OBVIOUS
<1>1. HermesInv /\ FlowInv(fila, switch, SentPackets)
  BY HermesStart, FlowStart DEF Init
<1>2. BuffersInv /\ TableInv
  BY BuffersInitially, TableInitially
<1>3. MapperInv
  <2>1. mapper = [pending |-> <<>>, loading |-> MA, missing |-> 0, opens |-> FALSE]
    BY DEF Init
  <2> QED
    BY <2>1 DEF MapperInv, Injectors
<1>4. \A e \in Endpoints : sent[e] \in Seq(Range(sent[e]))
  <2>1. \A e \in Endpoints : sent[e] = <<>>
    BY DEF Init
  <2>2. <<>> \in Seq(Range(<<>>))
    BY SeqsAre DEF IsSeq
  <2> QED
    BY <2>1, <2>2
<1>5. order \in Orders /\ mem_peripheral \in BOOLEAN
  BY DEF Init, InjectorInit
<1> QED
  BY <1>1, <1>2, <1>3, <1>4, <1>5, ProcessorStart, PeripheralStart DEF SystemInv, WholeInv

LEMMA SystemInvariance == Spec /\ []PacketsFit => []SystemInv
BY SystemStart, SystemKept, PTL DEF Spec

\* The kernels of the platform behave whatever the network, the buffers and the turns of
\* the memory do, as long as no packet is larger than the place for its payload: each
\* reception is programmed for one whole packet, from its header on, with the size that its
\* own words have, and never over the table of the monitor.
THEOREM KernelsReceiveByPacket == Spec /\ []PacketsFit => []KernelsBehave
<1>1. PacketsFit /\ SystemInv => KernelsBehave
  BY KernelsDo DEF KernelsBehave
<1> QED
  BY <1>1, SystemInvariance, PTL

\* A kernel that goes to work on a packet has all of it: what it finds in its memory is a
\* packet that was sent to it, no word of it lost, torn or of another packet.
THEOREM PacketsArriveWhole == Spec /\ []PacketsFit => []ArrivesWhole
<1>1. ASSUME PacketsFit, SystemInv
      PROVE  ArrivesWhole
  <2>1. AllFit(SentPackets) /\ \A r \in Routers : AllFit(SentTo(r))
    BY <1>1, AllSentFit DEF AllFit, SentTo
  <2>2. ASSUME NEW r \in Routers, Arrived(r)
        PROVE  Found(r) \in SentTo(r)
    <3> DEFINE P == SentPackets
               Q == SentTo(r)
    <3>1. KernelInv(kernel[r], cfg[r], rcv[r], snd[r], mem[r], P, Q) /\ ReceiverInv(rcv[r], arb[r])
      BY <1>1 DEF SystemInv, WholeInv, ProcessorInv
    <3>2. AllFit(P) /\ AllFit(Q)
      BY <2>1
    <3> HIDE DEF P, Q
    <3>3. Found(r) \in Q
      BY <2>2, <3>1, <3>2, ArrivedIs
    <3> QED
      BY <3>3 DEF Q
  <2> QED
    BY <2>2 DEF ArrivesWhole
<1> QED
  BY <1>1, SystemInvariance, PTL

\* The interrupt counts the packets: for every packet that the memory has not begun to take,
\* one interrupt, whatever comes while the processor programs, and however full the buffer is.
THEOREM InterruptsPerPacket == Spec /\ []PacketsFit => []InterruptPerPacket
<1>1. SystemInv => InterruptPerPacket
  BY BuffersCount DEF SystemInv
<1> QED
  BY <1>1, SystemInvariance, PTL

\* The table of the monitor follows what the tasks report: lines of the same task, values
\* that come while a line is written, tasks that are removed meanwhile, the packets that go
\* and come and the turns of the memory notwithstanding.
THEOREM TableIsKept == Spec /\ []PacketsFit => []TableFollowsReports
<1>1. SystemInv => TableFollowsReports
  BY LinesShown DEF SystemInv
<1> QED
  BY <1>1, SystemInvariance, PTL
=============================================================================
