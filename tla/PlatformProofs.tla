--------------------------- MODULE PlatformProofs ---------------------------
(***************************************************************************)
(* Theorems about the platform.                                            *)
(***************************************************************************)
EXTENDS PlatformInvariant, HermesProofs, FiniteSetTheorems, SequenceTheorems

-----------------------------------------------------------------------------
(* The routers in the platform.                                            *)

\* The platform is one of the environments of Hermes.
LEMMA PlatformIsHermes == Spec => HermesAlone
<1>1. Init => HermesInit
  BY DEF Init
<1>2. [Tick]_platformVars => [HermesNext]_hermesVars
  BY DEF Tick, platformVars, hermesVars, HermesNext
<1> QED
  BY <1>1, <1>2, PTL DEF Spec, HermesAlone

\* Whatever the processing elements and the injectors drive, an input whose packet is
\* going through has an output to itself until the last flit has left.
THEOREM OutputsHeld == Spec => []OutputsAreHeld
<1>1. HermesInv => OutputsAreHeld
  BY DEF HermesInv, SwitchInv, Holding, Held, OutputsAreHeld
<1> QED
  BY <1>1, PlatformIsHermes, HermesInvariance, PTL

\* Whatever they drive, no queue takes a flit into its last free place: the credit, although
\* it is decided a cycle early and misses one of the cases, is taken back in time.
THEOREM QueuesNeverWrap == Spec => QueueNeverWraps
<1>1. HermesInv /\ [HermesNext]_hermesVars =>
        [\A r \in Routers, p \in Ports :
           fila'[r][p].last # fila[r][p].last => fila'[r][p].last # fila'[r][p].first]_fila
  <2> SUFFICES ASSUME HermesInv, NEW outer, NEW driven, HermesClock(outer, driven),
                      NEW r \in Routers, NEW p \in Ports
               PROVE  fila'[r][p].last # fila[r][p].last => fila'[r][p].last # fila'[r][p].first
    BY DEF hermesVars, HermesNext
  <2> QED
    BY RouterCycle DEF QueueStep
<1> QED
  BY <1>1, PlatformIsHermes, HermesInvariance, PTL DEF HermesAlone, QueueNeverWraps

-----------------------------------------------------------------------------
(* The buffer between network and memory.                                  *)

USE DEF Cells

LEMMA BufferSize == BUFFER_SIZE \in Nat /\ 0 < BUFFER_SIZE /\ BUFFER_SIZE <= 16
BY PlatformAssumption

LEMMA NextCellIs ==
  ASSUME NEW k \in Cells
  PROVE  NextCell(k) \in Cells /\ NextCell(k) = (IF k = BUFFER_SIZE - 1 THEN 0 ELSE k + 1)
<1> DEFINE B == BUFFER_SIZE
<1>1. B \in Nat /\ 0 < B /\ k \in 0 .. B - 1
  BY BufferSize
<1> HIDE DEF B
<1>2. (k + 1) % B = IF k = B - 1 THEN 0 ELSE k + 1
  BY <1>1
<1> QED
  BY <1>1, <1>2 DEF NextCell, B

\* Words, in the property, are the places that hold a word.
LEMMA WordsAre ==
  ASSUME NEW q, BufferType(q)
  PROVE  Words(q) = {k \in Cells : Holds(q, k)}
<1> DEFINE B == BUFFER_SIZE
           f == q.first
           l == q.last
           n == IF f = l THEN IF q.add_buffer THEN B ELSE 0 ELSE (l - f) % B
<1>1. B \in Nat /\ 0 < B /\ f \in 0 .. B - 1 /\ l \in 0 .. B - 1
  BY BufferSize DEF BufferType
<1>2. (l - f) % B = IF f <= l THEN l - f ELSE l - f + B
  <2> HIDE DEF B, f, l
  <2> QED
    BY <1>1
<1>3. \A i \in 0 .. B - 1 : (f + i) % B = IF f + i < B THEN f + i ELSE f + i - B
  <2> HIDE DEF B, f, l
  <2> QED
    BY <1>1
<1>4. n \in 0 .. B
  BY <1>1, <1>2
<1>5. ASSUME NEW i \in 0 .. n - 1
      PROVE  (f + i) % B \in Cells /\ Holds(q, (f + i) % B)
  <2>1. i \in 0 .. B - 1
    BY <1>1, <1>4
  <2> QED
    BY <1>1, <1>2, <1>3, <2>1 DEF Holds
<1>6. ASSUME NEW k \in Cells, Holds(q, k)
      PROVE  \E i \in 0 .. n - 1 : k = (f + i) % B
  <2> DEFINE i == IF f <= k THEN k - f ELSE k - f + B
  <2>1. i \in 0 .. B - 1 /\ i \in 0 .. n - 1
    BY <1>1, <1>2, <1>6 DEF Holds
  <2>2. k = (f + i) % B
    BY <1>1, <1>3, <2>1, SMTT(30)
  <2> QED
    BY <2>1, <2>2
<1>7. Words(q) = {(f + i) % B : i \in 0 .. n - 1}
  BY DEF Words
<1> HIDE DEF n, f, l
<1> QED
  BY <1>5, <1>6, <1>7

LEMMA HeadersFinite ==
  ASSUME NEW q
  PROVE  IsFiniteSet(Headers(q)) /\ Cardinality(Headers(q)) \in Nat /\ Headers(q) \subseteq Cells
<1>1. IsFiniteSet(Cells)
  BY BufferSize, FS_Interval
<1> QED
  BY <1>1, FS_Subset, FS_CardinalityType DEF Headers

\* Headers that are apart never fill the buffer, so that they can be counted in four bits.
LEMMA FewHeaders ==
  ASSUME NEW q, BufferType(q), ApartInv(q)
  PROVE  Cardinality(Headers(q)) <= 15
<1>1. BUFFER_SIZE = 16 => \E k \in Cells : k \notin Headers(q)
  <2> SUFFICES ASSUME BUFFER_SIZE = 16, \A k \in Cells : k \in Headers(q)
               PROVE  FALSE
    OBVIOUS
  <2>1. \A k \in Cells : Holds(q, k) /\ q.is_header[k]
    BY DEF Headers
  <2>2. q.first \in Cells /\ NextCell(q.first) \in Cells /\ NextCell(q.first) # q.first
    BY NextCellIs DEF BufferType
  <2> QED
    BY <2>1, <2>2 DEF ApartInv
<1>2. PICK T \in SUBSET (0 .. 15) : Headers(q) \subseteq T /\ T # 0 .. 15
  <2>1. CASE BUFFER_SIZE = 16
    <3>1. Cells = 0 .. 15 /\ Headers(q) \subseteq Cells /\ \E k \in Cells : k \notin Headers(q)
      BY <1>1, <2>1, HeadersFinite
    <3>2. Headers(q) \in SUBSET (0 .. 15) /\ Headers(q) # 0 .. 15
      BY <3>1
    <3> QED
      BY <3>2
  <2>2. CASE BUFFER_SIZE # 16
    <3>1. Cells \in SUBSET (0 .. 15) /\ 15 \notin Cells /\ 15 \in 0 .. 15
      BY <2>2, BufferSize
    <3>2. Headers(q) \subseteq Cells /\ Cells # 0 .. 15
      BY <3>1, HeadersFinite
    <3> HIDE DEF Cells
    <3> QED
      BY <3>1, <3>2
  <2> QED
    BY <2>1, <2>2
<1>3. IsFiniteSet(0 .. 15) /\ Cardinality(0 .. 15) = 16
  <2>1. \A a, b \in Int : IsFiniteSet(a .. b) /\ Cardinality(a .. b) = IF a > b THEN 0 ELSE b - a + 1
    BY FS_Interval
  <2>2. IsFiniteSet(0 .. 15) /\ Cardinality(0 .. 15) = IF 0 > 15 THEN 0 ELSE 15 - 0 + 1
    <3>1. 0 \in Int /\ 15 \in Int
      OBVIOUS
    <3> QED
      BY ONLY <2>1, <3>1, Zenon
  <2> QED
    BY <2>2
<1>4. /\ IsFiniteSet(T) /\ Cardinality(T) <= 16 /\ Cardinality(T) # 16
      /\ Cardinality(T) \in Nat
  <2> DEFINE R == 0 .. 15
  <2> HIDE DEF R
  <2>1. IsFiniteSet(R) /\ Cardinality(R) = 16 /\ T \in SUBSET R /\ T # R
    BY <1>2, <1>3 DEF R
  <2>2. IsFiniteSet(T) /\ Cardinality(T) <= Cardinality(R) /\ (Cardinality(R) = Cardinality(T) => R = T)
    BY <2>1, FS_Subset
  <2>3. Cardinality(T) \in Nat
    BY <2>2, FS_CardinalityType
  <2> QED
    BY <2>1, <2>2, <2>3
<1>5. Cardinality(Headers(q)) <= Cardinality(T)
  BY <1>2, <1>4, FS_Subset
<1> QED
  BY <1>4, <1>5, HeadersFinite
-----------------------------------------------------------------------------
(* A word comes in, a word goes out.                                       *)

Came(q, t) ==
  /\ slot_available(q)
  /\ BufferType(t) /\ t.first = q.first /\ t.last = NextCell(q.last) /\ t.add_buffer
  /\ t.is_header = [q.is_header EXCEPT ![q.last] = (q.SR = "HEADER")]
  /\ t.DMNI_Receive = q.DMNI_Receive /\ t.recv_size = q.recv_size
  /\ q.SR = "HEADER" => t.SR = "PAYLOAD"
  /\ t.intr_count = IF q.SR = "HEADER" THEN (q.intr_count + 1) % 16 ELSE q.intr_count

LEMMA PutFields ==
  ASSUME NEW q, BufferType(q), NEW word
  PROVE  LET t == Put(q, word)
         IN  /\ BufferType(t) /\ t.first = q.first /\ t.last = NextCell(q.last) /\ t.add_buffer
             /\ t.is_header = [q.is_header EXCEPT ![q.last] = (q.SR = "HEADER")]
             /\ t.DMNI_Receive = q.DMNI_Receive /\ t.recv_size = q.recv_size
             /\ t.SR = q.SR /\ t.intr_count = q.intr_count
             /\ t.recv_address = q.recv_address /\ t.noc_we = q.noc_we
             /\ t.noc_data_write = q.noc_data_write /\ t.receive_active = q.receive_active
<1> DEFINE b == [q.buffer EXCEPT ![q.last] = word]
           h == [q.is_header EXCEPT ![q.last] = (q.SR = "HEADER")]
           n == NextCell(q.last)
           t == Put(q, word)
<1>1. n \in Cells /\ h \in [Cells -> BOOLEAN]
  BY NextCellIs DEF BufferType
<1>2. t = [q EXCEPT !.buffer = b, !.is_header = h, !.add_buffer = TRUE, !.last = n]
  BY DEF Put, BufferType, NextCell
<1> HIDE DEF b, h, n, t
<1>3. /\ t.first = q.first /\ t.last = n /\ t.add_buffer = TRUE /\ t.is_header = h /\ t.buffer = b
      /\ t.DMNI_Receive = q.DMNI_Receive /\ t.recv_size = q.recv_size
      /\ t.SR = q.SR /\ t.intr_count = q.intr_count
      /\ t.recv_address = q.recv_address /\ t.noc_we = q.noc_we
      /\ t.noc_data_write = q.noc_data_write /\ t.receive_active = q.receive_active
      /\ t.payload_size = q.payload_size
  BY <1>2 DEF BufferType
<1>4. BufferType(t)
  BY <1>1, <1>2 DEF BufferType
<1> QED
  BY <1>3, <1>4 DEF b, h, n, t

LEMMA FromNocFields ==
  ASSUME NEW q, BufferType(q), NEW rx, NEW word
  PROVE  LET t == FromNoc(q, rx, word)
         IN  /\ IF rx /\ slot_available(q) THEN Came(q, t) ELSE t = q
             /\ t.recv_address = q.recv_address /\ t.noc_we = q.noc_we
<1> DEFINE p == Put(q, word)
           t == FromNoc(q, rx, word)
           c == (q.intr_count + 1) % 16
<1>1. CASE ~(rx /\ slot_available(q))
  BY <1>1 DEF FromNoc
<1>2. CASE rx /\ slot_available(q)
  <2>1. c \in 0 .. 15
    BY DEF BufferType
  <2>2. \/ q.SR = "HEADER" /\ t = [p EXCEPT !.SR = "PAYLOAD", !.intr_count = c]
        \/ q.SR = "PAYLOAD" /\ t = [p EXCEPT !.SR = "DATA", !.payload_size = AsCount(word) - 1]
        \/ q.SR = "DATA" /\ t = [p EXCEPT !.SR = "HEADER"]
        \/ q.SR = "DATA" /\ t = [p EXCEPT !.payload_size = q.payload_size - 1]
    BY <1>2 DEF FromNoc, BufferType
  <2> DEFINE m == AsCount(word) - 1
             d == q.payload_size - 1
  <2>3. BufferType(p)
    BY PutFields
  <2>8. /\ p.first = q.first /\ p.last = NextCell(q.last) /\ p.add_buffer
        /\ p.is_header = [q.is_header EXCEPT ![q.last] = (q.SR = "HEADER")]
        /\ p.DMNI_Receive = q.DMNI_Receive /\ p.recv_size = q.recv_size
        /\ p.SR = q.SR /\ p.intr_count = q.intr_count
        /\ p.recv_address = q.recv_address /\ p.noc_we = q.noc_we
    BY PutFields
  <2> HIDE DEF p, t, c, m, d
  <2>4. CASE q.SR = "HEADER" /\ t = [p EXCEPT !.SR = "PAYLOAD", !.intr_count = c]
    <3>1. /\ t.SR = "PAYLOAD" /\ t.intr_count = c /\ BufferType(t)
          /\ t.first = p.first /\ t.last = p.last /\ t.add_buffer = p.add_buffer
          /\ t.is_header = p.is_header /\ t.DMNI_Receive = p.DMNI_Receive
          /\ t.recv_size = p.recv_size /\ t.recv_address = p.recv_address /\ t.noc_we = p.noc_we
      BY <2>1, <2>3, <2>4 DEF BufferType
    <3> QED
      BY <1>2, <2>8, <2>4, <3>1 DEF Came, c, t
  <2>5. CASE q.SR = "PAYLOAD" /\ t = [p EXCEPT !.SR = "DATA", !.payload_size = m]
    <3>1. /\ t.SR = "DATA" /\ t.intr_count = p.intr_count /\ BufferType(t)
          /\ t.first = p.first /\ t.last = p.last /\ t.add_buffer = p.add_buffer
          /\ t.is_header = p.is_header /\ t.DMNI_Receive = p.DMNI_Receive
          /\ t.recv_size = p.recv_size /\ t.recv_address = p.recv_address /\ t.noc_we = p.noc_we
      BY <2>3, <2>5 DEF BufferType
    <3> QED
      BY <1>2, <2>8, <2>5, <3>1 DEF Came, t
  <2>6. CASE q.SR = "DATA" /\ t = [p EXCEPT !.SR = "HEADER"]
    <3>1. /\ t.SR = "HEADER" /\ t.intr_count = p.intr_count /\ BufferType(t)
          /\ t.first = p.first /\ t.last = p.last /\ t.add_buffer = p.add_buffer
          /\ t.is_header = p.is_header /\ t.DMNI_Receive = p.DMNI_Receive
          /\ t.recv_size = p.recv_size /\ t.recv_address = p.recv_address /\ t.noc_we = p.noc_we
      BY <2>3, <2>6 DEF BufferType
    <3> QED
      BY <1>2, <2>8, <2>6, <3>1 DEF Came, t
  <2>7. CASE q.SR = "DATA" /\ t = [p EXCEPT !.payload_size = d]
    <3>1. /\ t.SR = p.SR /\ t.intr_count = p.intr_count /\ BufferType(t)
          /\ t.first = p.first /\ t.last = p.last /\ t.add_buffer = p.add_buffer
          /\ t.is_header = p.is_header /\ t.DMNI_Receive = p.DMNI_Receive
          /\ t.recv_size = p.recv_size /\ t.recv_address = p.recv_address /\ t.noc_we = p.noc_we
      BY <2>3, <2>7 DEF BufferType
    <3> QED
      BY <1>2, <2>8, <2>7, <3>1 DEF Came, t
  <2> QED
    BY <2>2, <2>4, <2>5, <2>6, <2>7 DEF m, d, t
<1> QED
  BY <1>1, <1>2
\* A word that comes is behind the others, and is a header when the one before ended.
LEMMA CameHeaders ==
  ASSUME NEW q, BufferType(q), ApartInv(q), NEW t, Came(q, t)
  PROVE  /\ ApartInv(t) /\ read_av(t)
         /\ \A k \in Cells : Holds(t, k) <=> Holds(q, k) \/ k = q.last
         /\ ~Holds(q, q.last)
         /\ Headers(t) = Headers(q) \cup (IF q.SR = "HEADER" THEN {q.last} ELSE {})
<1>1. /\ q.first \in Cells /\ q.last \in Cells /\ q.add_buffer \in BOOLEAN
      /\ q.is_header \in [Cells -> BOOLEAN] /\ t.is_header \in [Cells -> BOOLEAN]
      /\ t.first = q.first /\ t.last = NextCell(q.last) /\ t.add_buffer = TRUE
      /\ ~(q.first = q.last /\ q.add_buffer)
  BY DEF BufferType, Came, slot_available
<1>2. \A k \in Cells : NextCell(k) \in Cells /\ NextCell(k) = IF k = BUFFER_SIZE - 1 THEN 0 ELSE k + 1
  BY NextCellIs
<1>3. /\ \A k \in Cells : Holds(t, k) <=> Holds(q, k) \/ k = q.last
      /\ ~Holds(q, q.last)
  BY <1>1, <1>2, BufferSize DEF Holds
<1>4. \A k \in Cells : t.is_header[k] = IF k = q.last THEN q.SR = "HEADER" ELSE q.is_header[k]
  BY <1>1 DEF Came
<1>5. ASSUME NEW k \in Cells, Holds(t, k), NextCell(k) = t.last, t.is_header[k]
      PROVE  t.SR = "PAYLOAD"
  <2>1. k = q.last
    <3> DEFINE l == q.last
               Turned(c) == IF c = BUFFER_SIZE - 1 THEN 0 ELSE c + 1
    <3>1. k \in Cells /\ l \in Cells /\ Turned(k) = Turned(l)
      BY <1>1, <1>2, <1>5
    <3> HIDE DEF l
    <3>2. k = l
      BY <3>1, BufferSize
    <3> QED
      BY <3>2 DEF l
  <2> QED
    BY <1>4, <1>5, <2>1 DEF Came
<1>6. ASSUME NEW k \in Cells, Holds(t, k), Holds(t, NextCell(k)), NextCell(k) # t.first,
             t.is_header[k], t.is_header[NextCell(k)]
      PROVE  FALSE
  <2>1. CASE NextCell(k) = q.last
    <3>1. Holds(q, k)
      BY <1>1, <1>2, <1>3, <1>6, <2>1, BufferSize DEF Holds
    <3>2. k # q.last
      BY <1>3, <3>1
    <3>3. q.is_header[k] /\ q.SR = "HEADER"
      BY <1>2, <1>4, <1>6, <2>1, <3>2
    <3> QED
      BY <2>1, <3>1, <3>3 DEF ApartInv
  <2>2. CASE NextCell(k) # q.last /\ k = q.last
    BY <1>1, <1>2, <1>3, <1>6, <2>2, BufferSize DEF Holds
  <2>3. CASE NextCell(k) # q.last /\ k # q.last
    BY <1>1, <1>2, <1>3, <1>4, <1>6, <2>3 DEF ApartInv
  <2> QED
    BY <2>1, <2>2, <2>3
<1>7. ApartInv(t)
  BY <1>5, <1>6 DEF ApartInv
<1>8. read_av(t)
  BY <1>1 DEF read_av
<1>9. Headers(t) = Headers(q) \cup (IF q.SR = "HEADER" THEN {q.last} ELSE {})
  BY <1>1, <1>3, <1>4 DEF Headers
<1> QED
  BY <1>3, <1>7, <1>8, <1>9

Went(t, u) ==
  /\ BufferType(u) /\ u.first = NextCell(t.first) /\ u.last = t.last /\ ~u.add_buffer
  /\ u.is_header = t.is_header /\ u.SR = t.SR /\ u.intr_count = t.intr_count

\* A word that goes is the first one; u is t without it, even if a word came meanwhile.
LEMMA WentHeaders ==
  ASSUME NEW t, BufferType(t), ApartInv(t), read_av(t), NEW u, Went(t, u)
  PROVE  /\ ApartInv(u)
         /\ \A k \in Cells : Holds(u, k) <=> Holds(t, k) /\ k # t.first
         /\ Holds(t, t.first)
         /\ Headers(u) = Headers(t) \ {t.first}
<1>1. /\ t.first \in Cells /\ t.last \in Cells /\ t.add_buffer \in BOOLEAN
      /\ t.is_header \in [Cells -> BOOLEAN]
      /\ u.first = NextCell(t.first) /\ u.last = t.last /\ u.add_buffer = FALSE
      /\ ~(t.first = t.last /\ ~t.add_buffer)
  BY DEF BufferType, Went, read_av
<1>2. \A k \in Cells : NextCell(k) \in Cells /\ NextCell(k) = IF k = BUFFER_SIZE - 1 THEN 0 ELSE k + 1
  BY NextCellIs
<1>3. /\ \A k \in Cells : Holds(u, k) <=> Holds(t, k) /\ k # t.first
      /\ Holds(t, t.first)
  BY <1>1, <1>2, BufferSize DEF Holds
<1>4. ApartInv(u)
  <2>1. ASSUME NEW k \in Cells, Holds(u, k), NextCell(k) = u.last, u.is_header[k]
        PROVE  u.SR = "PAYLOAD"
    BY <1>1, <1>3, <2>1 DEF ApartInv, Went
  <2>2. ASSUME NEW k \in Cells, Holds(u, k), Holds(u, NextCell(k)), NextCell(k) # u.first,
               u.is_header[k], u.is_header[NextCell(k)]
        PROVE  FALSE
    BY <1>1, <1>2, <1>3, <2>2 DEF ApartInv, Went
  <2> QED
    BY <2>1, <2>2 DEF ApartInv
<1>5. Headers(u) = Headers(t) \ {t.first}
  BY <1>1, <1>3 DEF Headers, Went
<1> QED
  BY <1>3, <1>4, <1>5
-----------------------------------------------------------------------------
(* The reception.                                                          *)

\* What becomes of the buffer t, which is q after what came, in a cycle of the side of the
\* memory: nothing, the start of a reception, or the removal of a word.
Began(q, t, u, c) ==
  /\ q.DMNI_Receive = "WAIT" /\ c.operation = 1
  /\ BufferType(u) /\ u.first = t.first /\ u.last = t.last /\ u.add_buffer = t.add_buffer
  /\ u.is_header = t.is_header /\ u.SR = t.SR
  /\ u.intr_count = IF q.is_header[q.first] /\ t.intr_count > 0 THEN t.intr_count - 1 ELSE t.intr_count
  /\ c.address # 0 => u.DMNI_Receive = "COPY_TO_MEM"
Stayed(q, t, u) ==
  /\ BufferType(u) /\ u.first = t.first /\ u.last = t.last /\ u.add_buffer = t.add_buffer
  /\ u.is_header = t.is_header /\ u.SR = t.SR /\ u.intr_count = t.intr_count
  /\ u.DMNI_Receive = q.DMNI_Receive \/ (q.DMNI_Receive = "END" /\ u.DMNI_Receive = "WAIT")
Copied(q, t, u) ==
  /\ q.DMNI_Receive = "COPY_TO_MEM" /\ read_av(q) /\ Went(t, u)
  /\ u.DMNI_Receive = IF q.recv_size = 0 THEN "END" ELSE "COPY_TO_MEM"

LEMMA ToMemoryFields ==
  ASSUME NEW q, BufferType(q), q.DMNI_Receive # "DROP_MESSAGE",
         NEW t, BufferType(t), t.first = q.first, t.DMNI_Receive = q.DMNI_Receive,
         NEW c, NEW start, NEW enable
  PROVE  LET u == ToMemory(q, t, c, start, enable)
         IN  (start /\ Began(q, t, u, c)) \/ Stayed(q, t, u) \/ Copied(q, t, u)
<1> DEFINE u == ToMemory(q, t, c, start, enable)
<1>1. CASE q.DMNI_Receive = "WAIT" /\ ~(start /\ c.operation = 1)
  <2>1. u = t
    BY <1>1 DEF ToMemory
  <2> QED
    BY <1>1, <2>1 DEF Stayed
<1>2. CASE q.DMNI_Receive = "WAIT" /\ start /\ c.operation = 1
  <2> DEFINE a == c.address - 1
             s == c.size - 1
             i == IF q.is_header[q.first] /\ t.intr_count > 0 THEN t.intr_count - 1 ELSE t.intr_count
             d == IF c.address = 0 THEN "DROP_MESSAGE" ELSE "COPY_TO_MEM"
  <2>1. u = [t EXCEPT !.recv_address = a, !.recv_size = s, !.receive_active = TRUE, !.intr_count = i,
                      !.DMNI_Receive = d]
    BY <1>2 DEF ToMemory
  <2>2. i \in 0 .. 15 /\ d \in {"DROP_MESSAGE", "COPY_TO_MEM"} /\ (c.address # 0 => d = "COPY_TO_MEM")
    BY DEF BufferType
  <2> HIDE DEF a, s, i, d, u
  <2>3. /\ BufferType(u) /\ u.first = t.first /\ u.last = t.last /\ u.add_buffer = t.add_buffer
        /\ u.is_header = t.is_header /\ u.SR = t.SR /\ u.intr_count = i /\ u.DMNI_Receive = d
    BY <2>1, <2>2 DEF BufferType
  <2>4. Began(q, t, u, c)
    BY <1>2, <2>2, <2>3 DEF Began, i
  <2> QED
    BY <1>2, <2>4 DEF u
<1>3. CASE q.DMNI_Receive = "COPY_TO_MEM" /\ enable /\ read_av(q)
  <2> DEFINE n == NextCell(q.first)
             s == q.recv_size - 1
             d == IF q.recv_size = 0 THEN "END" ELSE q.DMNI_Receive
             w == q.buffer[q.first]
             a == q.recv_address + 1
             v == [t EXCEPT !.first = n, !.add_buffer = FALSE, !.recv_size = s, !.DMNI_Receive = d]
  <2>1. Take(q, t) = v
    BY DEF Take, NextCell
  <2>2. u = [v EXCEPT !.noc_we = TRUE, !.noc_data_write = w, !.recv_address = a]
    BY <1>3, <2>1 DEF ToMemory
  <2>3. n \in Cells /\ d \in {"END", "COPY_TO_MEM"} /\ (d = IF q.recv_size = 0 THEN "END" ELSE "COPY_TO_MEM")
    BY <1>3, NextCellIs DEF BufferType
  <2> HIDE DEF n, s, d, w, a, u
  <2>4. /\ BufferType(v) /\ v.first = n /\ v.last = t.last /\ v.add_buffer = FALSE
        /\ v.is_header = t.is_header /\ v.SR = t.SR /\ v.intr_count = t.intr_count /\ v.DMNI_Receive = d
    BY <2>3 DEF BufferType
  <2> HIDE DEF v
  <2>5. /\ BufferType(u) /\ u.first = v.first /\ u.last = v.last /\ u.add_buffer = v.add_buffer
        /\ u.is_header = v.is_header /\ u.SR = v.SR /\ u.intr_count = v.intr_count
        /\ u.DMNI_Receive = v.DMNI_Receive
    BY <2>2, <2>4 DEF BufferType
  <2>6. n = NextCell(t.first)
    BY DEF n
  <2>7. Went(t, u)
    BY <2>4, <2>5, <2>6 DEF Went
  <2>8. Copied(q, t, u)
    BY <1>3, <2>3, <2>4, <2>5, <2>7 DEF Copied
  <2> QED
    BY <2>8 DEF u
<1>4. CASE q.DMNI_Receive = "COPY_TO_MEM" /\ ~(enable /\ read_av(q))
  <2>1. u = [t EXCEPT !.noc_we = FALSE]
    BY <1>4 DEF ToMemory
  <2> HIDE DEF u
  <2>2. Stayed(q, t, u)
    BY <2>1 DEF Stayed, BufferType
  <2> QED
    BY <2>2 DEF u
<1>5. CASE q.DMNI_Receive = "END"
  <2>1. u = [t EXCEPT !.receive_active = FALSE, !.noc_we = FALSE, !.recv_address = 0, !.recv_size = 0,
                      !.DMNI_Receive = "WAIT"]
    BY <1>5 DEF ToMemory
  <2> HIDE DEF u
  <2>2. Stayed(q, t, u)
    BY <1>5, <2>1 DEF Stayed, BufferType
  <2> QED
    BY <2>2 DEF u
<1> QED
  BY <1>1, <1>2, <1>3, <1>4, <1>5 DEF BufferType
LEMMA HoldsFirst ==
  ASSUME NEW q, BufferType(q)
  PROVE  q.first \in Cells /\ (read_av(q) <=> Holds(q, q.first)) /\ (~read_av(q) => Headers(q) = {})
BY DEF BufferType, read_av, Holds, Headers

\* What comes is counted if it is a header, and does not disturb the first word.
LEMMA CameCount ==
  ASSUME NEW q, BufferInv(q), NEW t, t = q \/ Came(q, t)
  PROVE  /\ BufferType(t) /\ ApartInv(t)
         /\ t.first = q.first /\ t.DMNI_Receive = q.DMNI_Receive /\ t.recv_size = q.recv_size
         /\ t.intr_count = Cardinality(Headers(t)) - IF BeingReceived(q) THEN 1 ELSE 0
         /\ read_av(q) => read_av(t) /\ t.is_header[t.first] = q.is_header[q.first]
         /\ Comes(q) /\ ~read_av(q) => ~(read_av(t) /\ t.is_header[t.first])
<1>1. CASE t = q
  BY <1>1 DEF BufferInv, CountInv
<1>2. CASE Came(q, t)
  <2>1. /\ BufferType(q) /\ ApartInv(q) /\ CountInv(q) /\ q.last \in Cells
        /\ q.is_header \in [Cells -> BOOLEAN]
    BY DEF BufferInv, BufferType
  <2>2. /\ BufferType(t) /\ t.first = q.first /\ t.DMNI_Receive = q.DMNI_Receive
        /\ t.recv_size = q.recv_size
    BY <1>2 DEF Came
  <2>3. /\ ApartInv(t) /\ read_av(t) /\ ~Holds(q, q.last)
        /\ Headers(t) = Headers(q) \cup (IF q.SR = "HEADER" THEN {q.last} ELSE {})
    BY <1>2, <2>1, CameHeaders
  <2>4. t.intr_count = Cardinality(Headers(t)) - IF BeingReceived(q) THEN 1 ELSE 0
    <3> DEFINE n == Cardinality(Headers(q))
               d == IF BeingReceived(q) THEN 1 ELSE 0
    <3>1. n \in Nat /\ q.intr_count = n - d /\ q.intr_count \in 0 .. 15
      BY <2>1, HeadersFinite DEF CountInv, BufferType
    <3>2. CASE q.SR = "HEADER"
      <4>1. q.last \notin Headers(q) /\ Headers(t) = Headers(q) \cup {q.last}
        BY <2>3, <3>2 DEF Headers
      <4>2. Cardinality(Headers(t)) = n + 1
        BY <4>1, HeadersFinite, FS_AddElement
      <4>3. Cardinality(Headers(t)) <= 15
        BY <2>2, <2>3, FewHeaders
      <4>4. q.intr_count + 1 \in 0 .. 15
        BY <3>1, <4>2, <4>3
      <4>5. t.intr_count = (q.intr_count + 1) % 16
        BY <1>2, <3>2 DEF Came
      <4>6. t.intr_count = q.intr_count + 1
        BY <4>4, <4>5
      <4> HIDE DEF n, d
      <4>7. t.intr_count = Cardinality(Headers(t)) - d
        BY <3>1, <4>2, <4>6 DEF d
      <4> QED
        BY <4>7 DEF d
    <3>3. CASE q.SR # "HEADER"
      <4>1. Headers(t) = Headers(q) /\ t.intr_count = q.intr_count
        BY <1>2, <2>3, <3>3 DEF Came
      <4> QED
        BY <3>1, <4>1
    <3> QED
      BY <3>2, <3>3
  <2>5. ASSUME read_av(q)
        PROVE  t.is_header[t.first] = q.is_header[q.first]
    <3>1. q.first \in Cells /\ q.first # q.last
      BY <2>1, <2>3, <2>5, HoldsFirst
    <3> QED
      BY <1>2, <2>1, <2>2, <3>1 DEF Came
  <2>6. ASSUME Comes(q), ~read_av(q)
        PROVE  ~t.is_header[t.first]
    <3>1. q.first = q.last /\ q.SR # "HEADER"
      BY <2>6 DEF Comes, read_av
    <3> QED
      BY <1>2, <2>1, <2>2, <3>1 DEF Came
  <2> QED
    BY <2>2, <2>3, <2>4, <2>5, <2>6
<1> QED
  BY <1>1, <1>2

\* A cycle of the reception: headers are counted when they come, and no more when their
\* reception begins, whatever happens on the same edge.
LEMMA BufferStep ==
  ASSUME NEW q, BufferInv(q), NEW c, NEW cmd, NEW rx, NEW word, NEW enable,
         cmd.set = "start" /\ c.operation = 1 /\ q.DMNI_Receive = "WAIT" =>
           c.address # 0 /\ Comes(q),
         q.DMNI_Receive = "COPY_TO_MEM" =>
           Comes(q) /\ (q.recv_size # 0 /\ read_av(q) => ~NextIsHeader(q))
  PROVE  BufferInv(receive(q, c, cmd, rx, word, enable))
<1> DEFINE t == FromNoc(q, rx, word)
           start == cmd.set = "start"
           u == ToMemory(q, t, c, start, enable)
           h == Cardinality(Headers(t))
<1>1. BufferType(q) /\ ApartInv(q) /\ q.DMNI_Receive # "DROP_MESSAGE"
  BY DEF BufferInv
<1>2. t = q \/ Came(q, t)
  BY <1>1, FromNocFields
<1>3. /\ BufferType(t) /\ ApartInv(t)
      /\ t.first = q.first /\ t.DMNI_Receive = q.DMNI_Receive /\ t.recv_size = q.recv_size
      /\ t.intr_count = h - IF BeingReceived(q) THEN 1 ELSE 0
      /\ read_av(q) => read_av(t) /\ t.is_header[t.first] = q.is_header[q.first]
      /\ Comes(q) /\ ~read_av(q) => ~(read_av(t) /\ t.is_header[t.first])
  BY <1>2, CameCount
<1>4. (start /\ Began(q, t, u, c)) \/ Stayed(q, t, u) \/ Copied(q, t, u)
  BY <1>1, <1>3, ToMemoryFields
<1>5. h \in Nat
  BY HeadersFinite
<1>6. receive(q, c, cmd, rx, word, enable) = u
  BY DEF receive
<1> HIDE DEF t, u, h
<1>7. ASSUME u.first = t.first, u.last = t.last, u.add_buffer = t.add_buffer,
             u.is_header = t.is_header, u.SR = t.SR
      PROVE  /\ ApartInv(u) /\ Cardinality(Headers(u)) = h
             /\ read_av(u) = read_av(t)
  BY <1>3, <1>7 DEF ApartInv, Headers, Holds, read_av, h
<1>8. CASE start /\ Began(q, t, u, c)
  <2>1. /\ q.DMNI_Receive = "WAIT" /\ c.address # 0 /\ Comes(q) /\ ~BeingReceived(q)
        /\ u.DMNI_Receive = "COPY_TO_MEM" /\ BufferType(u)
    BY <1>8 DEF Began, BeingReceived
  <2>2. ApartInv(u) /\ Cardinality(Headers(u)) = h /\ read_av(u) = read_av(t)
        /\ u.is_header[u.first] = t.is_header[t.first]
    BY <1>7, <1>8 DEF Began
  <2>3. u.intr_count = IF q.is_header[q.first] /\ h > 0 THEN h - 1 ELSE h
    BY <1>3, <1>5, <1>8, <2>1 DEF Began
  <2>4. CASE read_av(q)
    <3>1. read_av(t) /\ t.is_header[t.first] = q.is_header[q.first]
      BY <1>3, <2>4
    <3>2. t.is_header[t.first] => h > 0
      <4>1. t.first \in Cells /\ Holds(t, t.first)
        BY <1>3, <3>1, HoldsFirst
      <4>2. t.is_header[t.first] => Headers(t) # {}
        BY <4>1 DEF Headers
      <4>3. h = 0 => Headers(t) = {}
        BY HeadersFinite, FS_EmptySet DEF h
      <4> QED
        BY <1>5, <4>2, <4>3
    <3>3. BeingReceived(u) <=> q.is_header[q.first]
      BY <2>1, <2>2, <3>1 DEF BeingReceived
    <3>4. CountInv(u)
      BY <1>5, <2>2, <2>3, <3>1, <3>2, <3>3 DEF CountInv
    <3> QED
      BY <1>6, <2>1, <2>2, <3>4 DEF BufferInv
  <2>5. CASE ~read_av(q)
    <3>1. ~BeingReceived(u)
      BY <1>3, <2>1, <2>2, <2>5 DEF BeingReceived
    <3>2. h = 0
      <4>1. Headers(t) = {}
        <5>1. Headers(q) = {} /\ q.SR # "HEADER"
          BY <1>1, <2>1, <2>5, HoldsFirst DEF Comes
        <5> QED
          BY <1>1, <1>2, <5>1, CameHeaders
      <4> QED
        BY <4>1, FS_EmptySet DEF h
    <3>3. ~(h > 0) /\ u.intr_count = h
      BY <2>3, <3>2
    <3>4. CountInv(u)
      BY <1>5, <2>2, <3>1, <3>3 DEF CountInv
    <3> QED
      BY <1>6, <2>1, <2>2, <3>4 DEF BufferInv
  <2> QED
    BY <2>4, <2>5
<1>9. CASE Stayed(q, t, u)
  <2>1. /\ BufferType(u) /\ ApartInv(u) /\ Cardinality(Headers(u)) = h /\ read_av(u) = read_av(t)
        /\ u.is_header[u.first] = t.is_header[t.first] /\ u.intr_count = t.intr_count
        /\ u.DMNI_Receive = q.DMNI_Receive \/ (q.DMNI_Receive = "END" /\ u.DMNI_Receive = "WAIT")
    BY <1>7, <1>9 DEF Stayed
  <2>2. BeingReceived(u) <=> BeingReceived(q)
    <3>1. CASE q.DMNI_Receive # "COPY_TO_MEM"
      BY <2>1, <3>1 DEF BeingReceived
    <3>2. CASE q.DMNI_Receive = "COPY_TO_MEM"
      BY <1>3, <2>1, <3>2 DEF BeingReceived
    <3> QED
      BY <3>1, <3>2
  <2>3. CountInv(u)
    BY <1>3, <2>1, <2>2 DEF CountInv
  <2>4. u.DMNI_Receive # "DROP_MESSAGE"
    BY <1>1, <2>1
  <2> QED
    BY <1>6, <2>1, <2>3, <2>4 DEF BufferInv
<1>10. CASE Copied(q, t, u)
  <2>1. /\ q.DMNI_Receive = "COPY_TO_MEM" /\ read_av(q) /\ Went(t, u) /\ read_av(t)
        /\ u.DMNI_Receive = IF q.recv_size = 0 THEN "END" ELSE "COPY_TO_MEM"
        /\ BeingReceived(q) <=> t.is_header[t.first]
    BY <1>3, <1>10 DEF Copied, BeingReceived
  <2>2. ApartInv(u) /\ Headers(u) = Headers(t) \ {t.first} /\ Holds(t, t.first) /\ t.first \in Cells
    BY <1>3, <2>1, WentHeaders, HoldsFirst
  <2>3. Cardinality(Headers(u)) = h - IF BeingReceived(q) THEN 1 ELSE 0
    <3>1. CASE BeingReceived(q)
      <4>1. t.first \in Headers(t)
        BY <2>1, <2>2, <3>1 DEF Headers
      <4>2. Cardinality(Headers(t) \ {t.first}) = Cardinality(Headers(t)) - 1
        BY <4>1, HeadersFinite, FS_RemoveElement
      <4> QED
        BY <2>2, <3>1, <4>2 DEF h
    <3>2. CASE ~BeingReceived(q)
      <4>1. Headers(u) = Headers(t)
        BY <2>1, <2>2, <3>2 DEF Headers
      <4> QED
        BY <1>5, <3>2, <4>1 DEF h
    <3> QED
      BY <3>1, <3>2
  <2>4. ~BeingReceived(u)
    <3> SUFFICES ASSUME q.recv_size # 0, read_av(u), u.is_header[u.first]
                 PROVE  FALSE
      BY <2>1 DEF BeingReceived
    <3> DEFINE n == NextCell(q.first)
    <3>1. ~NextIsHeader(q)
      BY <2>1
    <3>2. /\ u.first = n /\ u.last = t.last /\ ~u.add_buffer /\ u.first # u.last
          /\ t.is_header[n] /\ n \in Cells
      BY <1>1, <1>3, <2>1, <2>2, NextCellIs DEF Went, read_av
    <3>3. t # q => Came(q, t)
      BY <1>2
    <3>4. q.last \in Cells /\ q.is_header \in [Cells -> BOOLEAN]
      BY <1>1 DEF BufferType
    <3>5. CASE n = q.last
      <4>1. t # q /\ q.SR # "HEADER"
        BY <3>1, <3>2, <3>5 DEF NextIsHeader, NextCell
      <4> QED
        BY <3>2, <3>3, <3>4, <3>5, <4>1 DEF Came
    <3>6. CASE n # q.last
      <4>1. ~q.is_header[n]
        BY <3>1, <3>6 DEF NextIsHeader, NextCell
      <4> QED
        BY <3>2, <3>3, <3>4, <3>6, <4>1 DEF Came
    <3> QED
      BY <3>5, <3>6
  <2>5. CountInv(u)
    <3>1. u.intr_count = t.intr_count
      BY <2>1 DEF Went
    <3> QED
      BY <1>3, <1>5, <2>3, <2>4, <3>1 DEF CountInv
  <2> QED
    BY <1>6, <2>1, <2>2, <2>5 DEF BufferInv, Went
<1> QED
  BY <1>4, <1>8, <1>9, <1>10

-----------------------------------------------------------------------------
(* All buffers.                                                            *)

BuffersInv == \A r \in Routers : BufferInv(rcv[r])

LEMMA BuffersInitially == Init => BuffersInv
<1> SUFFICES ASSUME Init, NEW r \in Routers
             PROVE  BufferInv(rcv[r])
  BY DEF BuffersInv
<1> DEFINE q == rcv[r]
<1>1. q = [SR |-> "HEADER", payload_size |-> 0, buffer |-> [i \in 0 .. BUFFER_SIZE - 1 |-> NoFlit],
           is_header |-> [i \in 0 .. BUFFER_SIZE - 1 |-> FALSE], first |-> 0, last |-> 0, add_buffer |-> FALSE,
           DMNI_Receive |-> "WAIT", recv_address |-> 0, recv_size |-> 0, receive_active |-> FALSE,
           noc_data_write |-> NoFlit, noc_we |-> FALSE, intr_count |-> 0]
  BY DEF Init, DmniInit
<1> HIDE DEF q
<1>2. BufferType(q)
  <2> DEFINE b == [i \in 0 .. BUFFER_SIZE - 1 |-> NoFlit]
             h == [i \in 0 .. BUFFER_SIZE - 1 |-> FALSE]
  <2>1. 0 \in Cells /\ 0 \in 0 .. 15
    BY BufferSize
  <2>3. h \in [Cells -> BOOLEAN]
    OBVIOUS
  <2> HIDE DEF Cells, b, h
  <2>2. q = [SR |-> "HEADER", payload_size |-> 0, buffer |-> b, is_header |-> h, first |-> 0, last |-> 0,
             add_buffer |-> FALSE, DMNI_Receive |-> "WAIT", recv_address |-> 0, recv_size |-> 0,
             receive_active |-> FALSE, noc_data_write |-> NoFlit, noc_we |-> FALSE, intr_count |-> 0]
    BY <1>1 DEF b, h
  <2> QED
    BY <2>1, <2>2, <2>3 DEF BufferType
<1>3. \A k \in Cells : ~Holds(q, k)
  BY <1>1 DEF Holds
<1>4. Headers(q) = {} /\ ApartInv(q)
  <2>1. \A k \in Cells : NextCell(k) \in Cells
    BY NextCellIs
  <2> QED
    BY <1>3, <2>1 DEF Headers, ApartInv
<1>5. CountInv(q) /\ q.DMNI_Receive # "DROP_MESSAGE"
  <2>1. Cardinality(Headers(q)) = 0
    BY <1>4, FS_EmptySet
  <2>2. ~BeingReceived(q) /\ q.intr_count = 0 /\ q.DMNI_Receive = "WAIT"
    BY <1>1 DEF BeingReceived
  <2> DEFINE n == Cardinality(Headers(q))
  <2> HIDE DEF n
  <2>3. q.intr_count = n - 0
    BY <2>1, <2>2 DEF n
  <2>4. n - 0 = n - IF BeingReceived(q) THEN 1 ELSE 0
    BY <2>2
  <2> QED
    BY <2>2, <2>3, <2>4 DEF CountInv, n
<1> QED
  BY <1>2, <1>4, <1>5 DEF BufferInv, q

LEMMA BuffersKept == BuffersInv /\ ReceivesByPacket /\ [Tick]_platformVars => BuffersInv'
<1> SUFFICES ASSUME BuffersInv, ReceivesByPacket, [Tick]_platformVars, NEW r \in Routers
             PROVE  BufferInv(rcv'[r])
  BY DEF BuffersInv
<1>1. CASE UNCHANGED platformVars
  BY <1>1 DEF BuffersInv, platformVars
<1>2. CASE Tick
  <2> DEFINE cmd == IF Free(r) THEN NoCommand ELSE Head(kernel[r].todo)
  <2>1. PICK rx, word, enable : rcv'[r] = receive(rcv[r], cfg[r], cmd, rx, word, enable)
    BY <1>2 DEF Tick, DmniClock
  <2>2. BufferInv(rcv[r])
    BY DEF BuffersInv
  <2>3. cmd.set = "start" /\ cfg[r].operation = 1 /\ rcv[r].DMNI_Receive = "WAIT" =>
          cfg[r].address # 0 /\ Comes(rcv[r])
    BY DEF ReceivesByPacket, Starts, NoCommand
  <2>4. rcv[r].DMNI_Receive = "COPY_TO_MEM" =>
          Comes(rcv[r]) /\ (rcv[r].recv_size # 0 /\ read_av(rcv[r]) => ~NextIsHeader(rcv[r]))
    BY DEF ReceivesByPacket
  <2> HIDE DEF cmd
  <2> QED
    BY <2>1, <2>2, <2>3, <2>4, BufferStep
<1> QED
  BY <1>1, <1>2

\* Buffers that are as the invariant says have counted their packets.
LEMMA BuffersCount == BuffersInv => InterruptPerPacket
<1> SUFFICES ASSUME BuffersInv, NEW r \in Routers
             PROVE  rcv[r].intr_count = Cardinality({i \in Words(rcv[r]) : rcv[r].is_header[i]})
                                        - IF BeingReceived(rcv[r]) THEN 1 ELSE 0
  BY DEF InterruptPerPacket
<1>1. BufferType(rcv[r]) /\ CountInv(rcv[r])
  BY DEF BuffersInv, BufferInv
<1>2. {i \in Words(rcv[r]) : rcv[r].is_header[i]} = Headers(rcv[r])
  BY <1>1, WordsAre DEF Headers
<1> QED
  BY <1>1, <1>2 DEF CountInv

-----------------------------------------------------------------------------
(* The lines of the table of the monitor.                                  *)

LEMMA Sizes ==
  /\ MonTable \in Nat /\ 0 < MonTable /\ TASK_PER_PE \in Nat /\ 0 < TASK_PER_PE
  /\ XCnt \in Nat /\ 0 < XCnt /\ YCnt \in Nat /\ 0 < YCnt
  /\ MonitorAddress \in Routers /\ MapperAddress \in Routers
BY PlatformAssumption, MeshAssumption DEF MonTable, InBody, InHeader, OutBody, OutHeader

\* Places in rows of T.
LEMMA RowsApart ==
  ASSUME NEW T \in Nat, NEW a \in Nat, NEW b \in Nat, a < b, NEW i \in 0 .. T - 1
  PROVE  a * T + i < b * T /\ a * T + i \in Nat /\ b * T \in Nat
<1>1. PICK d \in Nat : b = a + 1 + d
  <2>1. b - a - 1 \in Nat /\ b = a + 1 + (b - a - 1)
    OBVIOUS
  <2> QED
    BY <2>1
<1>2. b * T = a * T + T + d * T
  BY <1>1
<1>3. d * T \in Nat /\ a * T \in Nat /\ b * T \in Nat
  OBVIOUS
<1> QED
  BY <1>2, <1>3

LEMMA RowsDiffer ==
  ASSUME NEW T \in Nat, NEW a \in Nat, NEW b \in Nat, a < b, NEW i \in 0 .. T - 1, NEW j \in Nat
  PROVE  a * T + i # b * T + j
<1>1. a * T + i < b * T /\ a * T + i \in Nat /\ b * T \in Nat
  BY RowsApart
<1> QED
  BY <1>1

LEMMA Ranks ==
  /\ \A r \in Routers : Seq_addr(r) \in Nat /\ Seq_addr(r) < XCnt * YCnt
  /\ \A r, s \in Routers : Seq_addr(r) = Seq_addr(s) => r = s
<1>1. ASSUME NEW r \in Routers
      PROVE  /\ r[1] \in 0 .. XCnt - 1 /\ r[2] \in 0 .. YCnt - 1 /\ r = <<r[1], r[2]>>
             /\ r[1] \in Nat /\ r[2] \in Nat /\ Seq_addr(r) = r[2] * XCnt + r[1]
  BY Sizes DEF Routers, Seq_addr
<1>2. ASSUME NEW r \in Routers
      PROVE  Seq_addr(r) \in Nat /\ Seq_addr(r) < XCnt * YCnt
  <2> DEFINE a == r[2]
             i == r[1]
  <2>0. a \in Nat /\ XCnt \in Nat /\ YCnt \in Nat /\ a < YCnt /\ i \in 0 .. XCnt - 1
    BY <1>1, Sizes
  <2> HIDE DEF a, i
  <2>a. a * XCnt + i < YCnt * XCnt /\ a * XCnt + i \in Nat
    BY <2>0, RowsApart
  <2>1. r[2] * XCnt + r[1] < YCnt * XCnt /\ r[2] * XCnt + r[1] \in Nat
    BY <2>a DEF a, i
  <2>2. YCnt * XCnt = XCnt * YCnt
    BY Sizes
  <2> QED
    BY <1>1, <2>1, <2>2
<1>3. ASSUME NEW r \in Routers, NEW s \in Routers, Seq_addr(r) = Seq_addr(s)
      PROVE  r = s
  <2>1. ~(r[2] < s[2])
    BY <1>1, <1>3, Sizes, RowsDiffer
  <2>2. ~(s[2] < r[2])
    BY <1>1, <1>3, Sizes, RowsDiffer
  <2>3. r[2] = s[2]
    BY <1>1, <2>1, <2>2
  <2>4. r[2] * XCnt \in Nat
    BY <1>1, Sizes
  <2>5. r[1] = s[1]
    BY <1>1, <1>3, <2>3, <2>4
  <2> QED
    BY <1>1, <2>3, <2>5
<1> QED
  BY <1>2, <1>3

\* The lines are in the memory, behind all else, and do not overlap.
LEMMA LinesApart ==
  ASSUME NEW n \in Routers, NEW i \in Indexes
  PROVE  /\ LineAt(n, i) \in Nat /\ MonTable <= LineAt(n, i) /\ LineAt(n, i) + 1 < RAM_SIZE
         /\ \A o \in Routers, j \in Indexes :
              /\ LineAt(n, i) # LineAt(o, j) + 1
              /\ LineAt(n, i) = LineAt(o, j) => n = o /\ i = j
<1> DEFINE T == TASK_PER_PE
           Index(o, j) == Seq_addr(o) * T + j
<1>1. T \in Nat /\ Indexes = 0 .. T - 1 /\ MonTable \in Nat
  BY Sizes DEF Indexes
<1>2. ASSUME NEW o \in Routers, NEW j \in Indexes
      PROVE  Index(o, j) \in Nat /\ Index(o, j) < XCnt * YCnt * T /\ LineAt(o, j) = MonTable + Index(o, j) * 2
  <2>1. Seq_addr(o) \in Nat /\ XCnt * YCnt \in Nat /\ Seq_addr(o) < XCnt * YCnt
    BY Ranks, Sizes
  <2>2. Seq_addr(o) * T + j < XCnt * YCnt * T /\ Seq_addr(o) * T + j \in Nat
    BY <1>1, <2>1, RowsApart
  <2>3. XCnt * YCnt * T \in Nat
    BY <1>1, <2>1
  <2> QED
    BY <2>2, <2>3 DEF LineAt
<1>3. RAM_SIZE = MonTable + XCnt * YCnt * T * 2 /\ XCnt * YCnt * T \in Nat
  BY Sizes DEF RAM_SIZE
<1>4. ASSUME NEW o \in Routers, NEW j \in Indexes, Index(n, i) = Index(o, j)
      PROVE  n = o /\ i = j
  <2>1. Seq_addr(n) \in Nat /\ Seq_addr(o) \in Nat /\ i \in 0 .. T - 1 /\ j \in 0 .. T - 1
    BY <1>1, Ranks
  <2>2. ~(Seq_addr(n) < Seq_addr(o))
    BY <1>1, <1>4, <2>1, RowsDiffer
  <2>3. ~(Seq_addr(o) < Seq_addr(n))
    BY <1>1, <1>4, <2>1, RowsDiffer
  <2>4. Seq_addr(n) = Seq_addr(o)
    BY <2>1, <2>2, <2>3
  <2>5. n = o
    BY <2>4, Ranks
  <2>6. Seq_addr(n) * T \in Nat
    BY <1>1, <2>1
  <2> QED
    BY <1>4, <2>1, <2>5, <2>6
<1> HIDE DEF T, Index
<1>5. LineAt(n, i) \in Nat /\ MonTable <= LineAt(n, i)
  BY <1>1, <1>2
<1>6. LineAt(n, i) + 1 < RAM_SIZE
  <2> DEFINE w == Index(n, i)
             z == XCnt * YCnt * T
  <2>1. w \in Nat /\ z \in Nat /\ w < z /\ LineAt(n, i) = MonTable + w * 2 /\ RAM_SIZE = MonTable + z * 2
    BY <1>2, <1>3
  <2> HIDE DEF w, z
  <2> QED
    BY <1>1, <2>1
<1>7. ASSUME NEW o \in Routers, NEW j \in Indexes
      PROVE  /\ LineAt(n, i) # LineAt(o, j) + 1
             /\ LineAt(n, i) = LineAt(o, j) => Index(n, i) = Index(o, j)
  <2> DEFINE w == Index(n, i)
             z == Index(o, j)
  <2>1. w \in Nat /\ z \in Nat /\ LineAt(n, i) = MonTable + w * 2 /\ LineAt(o, j) = MonTable + z * 2
    BY <1>2
  <2> HIDE DEF w, z
  <2>2. MonTable + w * 2 # MonTable + z * 2 + 1 /\ (MonTable + w * 2 = MonTable + z * 2 => w = z)
    BY <1>1, <2>1
  <2> QED
    BY <2>1, <2>2 DEF w, z
<1> QED
  BY <1>4, <1>5, <1>6, <1>7

LEMMA LeastNatural ==
  ASSUME NEW L \in SUBSET Nat, L # {}
  PROVE  LET least == CHOOSE i \in L : \A j \in L : i <= j
         IN  least \in L /\ \A j \in L : least <= j
<1>1. \A a, b \in Nat : a < b => <<a, b>> \in OpToRel(<, Nat)
  BY Zenon DEF OpToRel
<1>2. PICK x \in L : \A y \in L : ~ (<<y, x>> \in OpToRel(<, Nat))
  BY WFMin, NatLessThanWellFounded
<1>3. \A y \in L : ~(y < x)
  BY <1>1, <1>2, Zenon
<1>4. x \in L /\ \A y \in L : x <= y
  BY <1>3
<1> QED
  BY <1>4, Zenon

\* The line of a report is the one that holds its task, or an unused one if there is none.
LEMMA LineForIs ==
  ASSUME NEW m, NEW b, LineFor(m, b) # -1
  PROVE  /\ LineFor(m, b) \in Indexes
         /\ m.mon_table[b.src][LineFor(m, b)] \in {b.task, NoTask}
         /\ \A j \in Indexes : m.mon_table[b.src][j] = b.task =>
              m.mon_table[b.src][LineFor(m, b)] = b.task
<1> DEFINE own == LinesOf(m, b.src, b.task)
           unused == LinesOf(m, b.src, NoTask)
           lines == IF own # {} THEN own ELSE unused
           idx == CHOOSE i \in lines : \A j \in lines : i <= j
<1>1. lines # {} /\ LineFor(m, b) = idx
  BY DEF LineFor
<1>2. lines \subseteq Indexes
  BY DEF LinesOf, Indexes
<1>3. idx \in lines
  <2>1. lines \in SUBSET Nat
    BY <1>2, Sizes DEF Indexes
  <2> HIDE DEF lines
  <2> QED
    BY <1>1, <2>1, LeastNatural
<1>4. idx \in Indexes /\ m.mon_table[b.src][idx] \in {b.task, NoTask}
  <2> HIDE DEF idx
  <2> QED
    BY <1>3 DEF LinesOf, Indexes
<1>5. ASSUME NEW j \in Indexes, m.mon_table[b.src][j] = b.task
      PROVE  m.mon_table[b.src][idx] = b.task
  <2>1. j \in own
    BY <1>5 DEF LinesOf, Indexes
  <2>2. idx \in own
    BY <1>3, <2>1, Zenon
  <2> HIDE DEF idx
  <2> QED
    BY <2>2 DEF LinesOf
<1> HIDE DEF idx
<1> QED
  BY <1>1, <1>4, <1>5

\* The arbiter gives the port to a report that is there, and takes it back when it is written.
LEMMA ArbiterStep ==
  ASSUME NEW a, ArbiterType(a), NEW q, NEW s, NEW m, NEW c, NEW b
  PROVE  LET n == arbiter(a, q, s, m, c, b)
         IN  /\ ArbiterType(n)
             /\ a.ARB = "BR_RECEIVE" /\ m.br_rcv_state # "BR_RCV_END" => n.ARB = "BR_RECEIVE"
             /\ a.ARB = "BR_RECEIVE" /\ m.br_rcv_state = "BR_RCV_END" => n.ARB = "ROUND"
             /\ a.ARB # "BR_RECEIVE" /\ n.ARB = "BR_RECEIVE" =>
                  b.req /\ ~m.br_ack_mon /\ c.monitor_ptrs[b.svc] # 0
<1> DEFINE n == arbiter(a, q, s, m, c, b)
           turn == Turn(a.last_arb)
           asking == {i \in 1 .. 3 : Asks(turn[i], q, s, m, c, b)}
           first == CHOOSE i \in asking : \A j \in asking : i <= j
<1>1. CASE a.ARB = "ROUND"
  <2>1. CASE asking = {}
    <3>1. n = a
      BY <1>1, <2>1 DEF arbiter
    <3> QED
      BY <1>1, <3>1
  <2>2. CASE asking # {}
    <3>2. first \in asking
      <4>1. asking \in SUBSET Nat
        OBVIOUS
      <4> HIDE DEF asking
      <4> QED
        BY <2>2, <4>1, LeastNatural
    <3>3. first \in 1 .. 3 /\ Asks(turn[first], q, s, m, c, b)
      BY <3>2
    <3>4. n = [a EXCEPT !.ARB = turn[first]]
      BY <1>1, <2>2 DEF arbiter
    <3> HIDE DEF first, asking, n
    <3>5. turn[first] \in {"SEND", "RECEIVE", "BR_RECEIVE"}
      BY <3>3 DEF Turn, ArbiterType
    <3> HIDE DEF turn
    <3>6. ArbiterType(n) /\ n.ARB = turn[first]
      BY <3>4, <3>5 DEF ArbiterType
    <3>7. n.ARB = "BR_RECEIVE" => b.req /\ ~m.br_ack_mon /\ c.monitor_ptrs[b.svc] # 0
      BY <3>3, <3>6 DEF Asks
    <3> QED
      BY <1>1, <3>6, <3>7 DEF n
  <2> QED
    BY <2>1, <2>2
<1>2. CASE a.ARB # "ROUND"
  <2>1. n = IF Yields(a, q, s, m) THEN Round(a) ELSE Elapse(a)
    BY <1>2 DEF arbiter
  <2>2. ArbiterType(Round(a)) /\ Round(a).ARB = "ROUND"
    BY <1>2 DEF Round, ArbiterType
  <2>3. ArbiterType(Elapse(a)) /\ Elapse(a).ARB = a.ARB
    <3> DEFINE k == (a.timer + 1) % 256
    <3>1. Elapse(a) = a \/ Elapse(a) = [a EXCEPT !.timer = k]
      BY DEF Elapse
    <3> HIDE DEF k
    <3> QED
      BY <3>1 DEF ArbiterType
  <2>4. a.ARB = "BR_RECEIVE" => (Yields(a, q, s, m) <=> m.br_rcv_state = "BR_RCV_END")
    BY DEF Yields
  <2> HIDE DEF n
  <2>5. CASE Yields(a, q, s, m)
    BY <2>1, <2>2, <2>4, <2>5 DEF n
  <2>6. CASE ~Yields(a, q, s, m)
    BY <2>1, <2>3, <2>4, <2>6 DEF n
  <2> QED
    BY <2>5, <2>6
<1> QED
  BY <1>1, <1>2

\* A line may lose its task, and no more.
LEMMA ClearedFields ==
  ASSUME NEW m, ReportType(m), NEW task
  PROVE  LET u == ClearTask(m, task)
         IN  /\ ReportType(u)
             /\ u.br_rcv_state = m.br_rcv_state /\ u.br_ack_mon = m.br_ack_mon /\ u.br_we = m.br_we
             /\ u.br_mem_addr = m.br_mem_addr /\ u.br_mem_data = m.br_mem_data
             /\ \A n \in Routers, i \in Indexes : u.mon_table[n][i] \in {m.mon_table[n][i], NoTask}
<1> DEFINE nodes == {n \in Routers : LinesOf(m, n, task) # {}}
           node == CHOOSE n \in nodes : \A o \in nodes : Seq_addr(n) <= Seq_addr(o)
           line == CHOOSE i \in LinesOf(m, node, task) : \A j \in LinesOf(m, node, task) : i <= j
           u == ClearTask(m, task)
<1>1. CASE nodes = {}
  <2>1. u = m
    BY <1>1 DEF ClearTask
  <2> QED
    BY <2>1
<1>2. CASE nodes # {}
  <2> DEFINE t == [m.mon_table EXCEPT ![node][line] = NoTask]
  <2>1. u = [m EXCEPT !.mon_table = t]
    BY <1>2 DEF ClearTask, ReportType
  <2>2. /\ LinesType(t)
        /\ \A n \in Routers, i \in Indexes : t[n][i] \in {m.mon_table[n][i], NoTask}
    <3> HIDE DEF node, line, nodes
    <3>1. /\ DOMAIN t = Routers
          /\ \A n \in Routers : t[n] = IF n = node THEN [m.mon_table[n] EXCEPT ![line] = NoTask] ELSE m.mon_table[n]
      BY DEF ReportType, LinesType
    <3>2. \A n \in Routers : m.mon_table[n] = [i \in Indexes |-> m.mon_table[n][i]]
      BY DEF ReportType, LinesType
    <3>3. \A n \in Routers :
            /\ t[n] = [i \in Indexes |-> t[n][i]]
            /\ \A i \in Indexes : t[n][i] \in {m.mon_table[n][i], NoTask}
      <4> HIDE DEF t
      <4> QED
        BY <3>1, <3>2
    <3>4. t = [n \in Routers |-> t[n]]
      BY <3>1
    <3> HIDE DEF t
    <3> QED
      BY <3>3, <3>4 DEF LinesType
  <2> HIDE DEF t, u
  <2>3. /\ ReportType(u) /\ u.mon_table = t
        /\ u.br_rcv_state = m.br_rcv_state /\ u.br_ack_mon = m.br_ack_mon /\ u.br_we = m.br_we
        /\ u.br_mem_addr = m.br_mem_addr /\ u.br_mem_data = m.br_mem_data
    BY <2>1, <2>2 DEF ReportType
  <2> QED
    BY <2>2, <2>3 DEF u
<1> QED
  BY <1>1, <1>2

\* What a cycle does of the writing of a line, w of m.
Written(m, c, b, enable, w) ==
  LET idx == LineFor(m, b)
  IN  /\ m.br_rcv_state = "BR_RCV_IDLE" /\ ~enable =>
           /\ ReportType(w) /\ w.br_rcv_state = "BR_RCV_IDLE"
           /\ w.br_we = m.br_we /\ w.mon_table = m.mon_table
           /\ b.req /\ c.monitor_ptrs[b.svc] # 0 => w.br_ack_mon = m.br_ack_mon
      /\ m.br_rcv_state = "BR_RCV_IDLE" /\ enable /\ idx = -1 =>
           /\ ReportType(w) /\ w.br_rcv_state = "BR_RCV_END"
           /\ w.br_we = m.br_we /\ w.mon_table = m.mon_table
      /\ m.br_rcv_state = "BR_RCV_IDLE" /\ enable /\ idx # -1 =>
           w = [m EXCEPT !.br_mem_data = b.payload, !.br_mem_addr = Line(c, b, idx) + 1,
                         !.br_we = TRUE, !.mon_table = [m.mon_table EXCEPT ![b.src][idx] = b.task],
                         !.br_rcv_state = "BR_RCV_TASKID"]
      /\ m.br_rcv_state = "BR_RCV_TASKID" =>
           /\ ReportType(w) /\ w.br_rcv_state = "BR_RCV_END" /\ w.br_we /\ w.mon_table = m.mon_table
           /\ w.br_mem_data = b.task /\ w.br_mem_addr = m.br_mem_addr - 1
      /\ m.br_rcv_state = "BR_RCV_END" =>
           /\ ReportType(w) /\ w.br_rcv_state = "BR_RCV_IDLE" /\ ~w.br_we /\ w.mon_table = m.mon_table

LEMMA WrittenFields ==
  ASSUME NEW m, ReportType(m), NEW c, NEW b, NEW owner,
         owner = "BR_RECEIVE" /\ m.br_rcv_state = "BR_RCV_IDLE" => b.req /\ c.monitor_ptrs[b.svc] # 0
  PROVE  Written(m, c, b, owner = "BR_RECEIVE",
                 WriteLine(Acknowledge(m, c, b), c, b, owner = "BR_RECEIVE"))
<1> DEFINE enable == owner = "BR_RECEIVE"
           k == Acknowledge(m, c, b)
           w == WriteLine(k, c, b, enable)
           idx == LineFor(m, b)
<1>1. /\ ReportType(k) /\ k.br_rcv_state = m.br_rcv_state /\ k.br_we = m.br_we /\ k.mon_table = m.mon_table
      /\ k.br_mem_addr = m.br_mem_addr /\ k.br_mem_data = m.br_mem_data
      /\ b.req /\ c.monitor_ptrs[b.svc] # 0 => k = m
  <2>1. \/ k = m
        \/ ~b.req /\ k = [m EXCEPT !.br_ack_mon = FALSE]
        \/ c.monitor_ptrs[b.svc] = 0 /\ k = [m EXCEPT !.br_ack_mon = TRUE]
    BY DEF Acknowledge
  <2> HIDE DEF k
  <2> QED
    BY <2>1 DEF ReportType
<1>2. LineFor(k, b) = idx
  BY <1>1 DEF LineFor, LinesOf
<1> SUFFICES Written(m, c, b, enable, w)
  OBVIOUS
<1> HIDE DEF k
<1>3. CASE m.br_rcv_state = "BR_RCV_IDLE" /\ ~enable
  <2>1. w = k
    BY <1>1, <1>3 DEF WriteLine
  <2> QED
    BY <1>1, <1>3, <2>1 DEF Written
<1>4. CASE m.br_rcv_state = "BR_RCV_IDLE" /\ enable /\ idx = -1
  <2>1. w = [k EXCEPT !.br_mem_data = b.payload, !.br_ack_mon = TRUE, !.br_rcv_state = "BR_RCV_END"]
    BY <1>1, <1>2, <1>4 DEF WriteLine, BeginLine
  <2> HIDE DEF w, idx
  <2>2. ReportType(w) /\ w.br_rcv_state = "BR_RCV_END" /\ w.br_we = m.br_we /\ w.mon_table = m.mon_table
    BY <1>1, <2>1 DEF ReportType
  <2> QED
    BY <1>4, <2>2 DEF Written, idx
<1>5. CASE m.br_rcv_state = "BR_RCV_IDLE" /\ enable /\ idx # -1
  <2>1. k = m
    BY <1>1, <1>5
  <2>2. w = BeginLine(m, c, b)
    BY <1>5, <2>1 DEF WriteLine
  <2>3. w = [m EXCEPT !.br_mem_data = b.payload, !.br_mem_addr = Line(c, b, idx) + 1,
                      !.br_we = TRUE, !.mon_table = [m.mon_table EXCEPT ![b.src][idx] = b.task],
                      !.br_rcv_state = "BR_RCV_TASKID"]
    BY <1>5, <2>2 DEF BeginLine, ReportType
  <2> QED
    BY <1>5, <2>3 DEF Written
<1>6. CASE m.br_rcv_state = "BR_RCV_TASKID"
  <2> DEFINE d == b.task
             l == m.br_mem_addr - 1
  <2>1. w = [k EXCEPT !.br_mem_data = d, !.br_mem_addr = l, !.br_we = TRUE,
                      !.br_ack_mon = TRUE, !.br_rcv_state = "BR_RCV_END"]
    BY <1>1, <1>6 DEF WriteLine
  <2> HIDE DEF w, l, d
  <2>2. /\ ReportType(w) /\ w.br_rcv_state = "BR_RCV_END" /\ w.br_we /\ w.mon_table = m.mon_table
        /\ w.br_mem_data = d /\ w.br_mem_addr = l
    BY <1>1, <2>1 DEF ReportType
  <2> QED
    BY <1>6, <2>2 DEF Written, l, d
<1>7. CASE m.br_rcv_state = "BR_RCV_END"
  <2>1. w = [k EXCEPT !.br_we = FALSE, !.br_rcv_state = "BR_RCV_IDLE"]
    BY <1>1, <1>7 DEF WriteLine
  <2> HIDE DEF w
  <2>2. ReportType(w) /\ w.br_rcv_state = "BR_RCV_IDLE" /\ ~w.br_we /\ w.mon_table = m.mon_table
    BY <1>1, <2>1 DEF ReportType
  <2> QED
    BY <1>7, <2>2 DEF Written
<1>8. m.br_rcv_state \in {"BR_RCV_IDLE", "BR_RCV_TASKID", "BR_RCV_END"}
  BY DEF ReportType
<1> QED
  BY <1>3, <1>4, <1>5, <1>6, <1>7, <1>8

-----------------------------------------------------------------------------
(* What the rest of the platform does to the table.                        *)

\* What is received stays below the table, if the reception has been given such a place.
LEMMA PlaceStep ==
  ASSUME NEW q, BufferType(q), PlaceInv(q), NEW c, NEW cmd, NEW rx, NEW word, NEW enable,
         cmd.set = "start" /\ c.operation = 1 /\ q.DMNI_Receive = "WAIT" =>
           c.address \in Nat /\ c.size \in Nat \ {0} /\ c.address + c.size <= MonTable
  PROVE  LET u == receive(q, c, cmd, rx, word, enable)
         IN  BufferType(u) /\ PlaceInv(u)
<1> DEFINE t == FromNoc(q, rx, word)
           start == cmd.set = "start"
           u == ToMemory(q, t, c, start, enable)
<1>1. receive(q, c, cmd, rx, word, enable) = u
  BY DEF receive
<1>2. t = q \/ Came(q, t)
  BY FromNocFields
<1>3. /\ BufferType(t) /\ t.first = q.first /\ t.DMNI_Receive = q.DMNI_Receive /\ t.recv_size = q.recv_size
      /\ t.recv_address = q.recv_address /\ t.noc_we = q.noc_we
  <2>1. t.recv_address = q.recv_address /\ t.noc_we = q.noc_we
    BY FromNocFields
  <2> HIDE DEF t
  <2> QED
    BY <1>2, <2>1 DEF Came
<1>4. MonTable \in Nat
  BY Sizes
<1>5. q.noc_we \in BOOLEAN
  BY DEF PlaceInv
<1> HIDE DEF t
<1>6. CASE q.DMNI_Receive = "WAIT" /\ ~(start /\ c.operation = 1)
  <2>1. u = t
    BY <1>6 DEF ToMemory
  <2> QED
    BY <1>1, <1>3, <1>6, <2>1 DEF PlaceInv
<1>7. CASE q.DMNI_Receive = "WAIT" /\ start /\ c.operation = 1
  <2> DEFINE a == c.address - 1
             s == c.size - 1
             i == IF q.is_header[q.first] /\ t.intr_count > 0 THEN t.intr_count - 1 ELSE t.intr_count
             d == IF c.address = 0 THEN "DROP_MESSAGE" ELSE "COPY_TO_MEM"
  <2>1. u = [t EXCEPT !.recv_address = a, !.recv_size = s, !.receive_active = TRUE, !.intr_count = i,
                      !.DMNI_Receive = d]
    BY <1>7 DEF ToMemory
  <2>2. i \in 0 .. 15 /\ d \in {"DROP_MESSAGE", "COPY_TO_MEM"}
    BY <1>3 DEF BufferType
  <2>3. a \in Int /\ s \in Nat /\ a + s + 2 <= MonTable
    BY <1>4, <1>7
  <2>4. q.noc_we = FALSE
    BY <1>7 DEF PlaceInv
  <2> HIDE DEF a, s, i, d, u
  <2>5. /\ BufferType(u) /\ u.DMNI_Receive = d /\ u.recv_address = a /\ u.recv_size = s
        /\ u.noc_we = FALSE
    BY <1>3, <2>1, <2>2, <2>4 DEF BufferType
  <2>6. PlaceInv(u)
    BY <2>3, <2>5 DEF PlaceInv
  <2> QED
    BY <1>1, <2>5, <2>6 DEF u
<1>8. CASE q.DMNI_Receive = "COPY_TO_MEM" /\ enable /\ read_av(q)
  <2> DEFINE n == NextCell(q.first)
             s == q.recv_size - 1
             d == IF q.recv_size = 0 THEN "END" ELSE q.DMNI_Receive
             w == q.buffer[q.first]
             a == q.recv_address + 1
             v == [t EXCEPT !.first = n, !.add_buffer = FALSE, !.recv_size = s, !.DMNI_Receive = d]
  <2>1. Take(q, t) = v
    BY DEF Take, NextCell
  <2>2. u = [v EXCEPT !.noc_we = TRUE, !.noc_data_write = w, !.recv_address = a]
    BY <1>8, <2>1 DEF ToMemory
  <2>3. n \in Cells /\ d \in {"END", "COPY_TO_MEM"} /\ (d = "COPY_TO_MEM" => q.recv_size # 0)
    BY <1>8, NextCellIs DEF BufferType
  <2>4. a \in Int /\ a < MonTable /\ (q.recv_size # 0 => s \in Nat /\ a + s + 2 <= MonTable)
    BY <1>4, <1>8 DEF PlaceInv
  <2> HIDE DEF n, s, d, w, a, u
  <2>5. BufferType(v) /\ v.DMNI_Receive = d /\ v.recv_size = s
    BY <1>3, <2>3 DEF BufferType
  <2> HIDE DEF v
  <2>6. /\ BufferType(u) /\ u.DMNI_Receive = d /\ u.recv_size = s /\ u.recv_address = a /\ u.noc_we = TRUE
    BY <2>2, <2>5 DEF BufferType
  <2>7. PlaceInv(u)
    BY <2>3, <2>4, <2>6 DEF PlaceInv
  <2> QED
    BY <1>1, <2>6, <2>7 DEF u
<1>9. CASE q.DMNI_Receive = "COPY_TO_MEM" /\ ~(enable /\ read_av(q))
  <2>1. u = [t EXCEPT !.noc_we = FALSE]
    BY <1>9 DEF ToMemory
  <2> HIDE DEF u
  <2>2. /\ BufferType(u) /\ u.noc_we = FALSE /\ u.DMNI_Receive = q.DMNI_Receive
        /\ u.recv_address = q.recv_address /\ u.recv_size = q.recv_size
    BY <1>3, <2>1 DEF BufferType
  <2>3. PlaceInv(u)
    BY <1>9, <2>2 DEF PlaceInv
  <2> QED
    BY <1>1, <2>2, <2>3 DEF u
<1>10. CASE q.DMNI_Receive = "DROP_MESSAGE"
  <2> DEFINE n == NextCell(q.first)
             s == q.recv_size - 1
             d == IF q.recv_size = 0 THEN "END" ELSE q.DMNI_Receive
             taken == [t EXCEPT !.first = n, !.add_buffer = FALSE, !.recv_size = s, !.DMNI_Receive = d]
             v == IF read_av(q) THEN taken ELSE t
  <2>1. Take(q, t) = taken
    BY DEF Take, NextCell
  <2>2. u = [v EXCEPT !.noc_we = FALSE, !.noc_data_write = NoFlit, !.recv_address = 0]
    BY <1>10, <2>1 DEF ToMemory
  <2>3. n \in Cells /\ d \in {"END", "DROP_MESSAGE"}
    BY <1>10, NextCellIs DEF BufferType
  <2> HIDE DEF n, s, d, u
  <2>4. BufferType(taken) /\ taken.DMNI_Receive = d
    BY <1>3, <2>3 DEF BufferType
  <2> HIDE DEF taken
  <2>5. BufferType(v) /\ v.DMNI_Receive \in {"END", "DROP_MESSAGE"}
    BY <1>3, <1>10, <2>3, <2>4
  <2> HIDE DEF v
  <2>6. BufferType(u) /\ u.DMNI_Receive \in {"END", "DROP_MESSAGE"} /\ u.noc_we = FALSE
    BY <2>2, <2>5 DEF BufferType
  <2>7. PlaceInv(u)
    BY <2>6 DEF PlaceInv
  <2> QED
    BY <1>1, <2>6, <2>7 DEF u
<1>11. CASE q.DMNI_Receive = "END"
  <2>1. u = [t EXCEPT !.receive_active = FALSE, !.noc_we = FALSE, !.recv_address = 0, !.recv_size = 0,
                      !.DMNI_Receive = "WAIT"]
    BY <1>11 DEF ToMemory
  <2> HIDE DEF u
  <2>2. BufferType(u) /\ u.DMNI_Receive = "WAIT" /\ u.noc_we = FALSE
    BY <1>3, <2>1 DEF BufferType
  <2>3. PlaceInv(u)
    BY <2>2 DEF PlaceInv
  <2> QED
    BY <1>1, <2>2, <2>3 DEF u
<1> QED
  BY <1>6, <1>7, <1>8, <1>9, <1>10, <1>11 DEF BufferType

LEMMA TailIs ==
  ASSUME NEW s, s \in Seq(Range(s)), s # <<>>
  PROVE  /\ Head(s) \in Range(s)
         /\ Tail(s) \in Seq(Range(Tail(s))) /\ Range(Tail(s)) \subseteq Range(s)
<1>1. Head(s) \in Range(s) /\ Tail(s) \in Seq(Range(s))
  BY HeadTailProperties
<1> QED
  BY <1>1, SeqOfRange, RangeOfSeq

LEMMA JoinIs ==
  ASSUME NEW s, s \in Seq(Range(s)), NEW t, t \in Seq(Range(t))
  PROVE  /\ s \o t \in Seq(Range(s \o t)) /\ Range(s \o t) = Range(s) \cup Range(t)
         /\ s # <<>> => s \o t # <<>> /\ Head(s \o t) = Head(s)
<1> DEFINE S == Range(s) \cup Range(t)
<1>1. s \in Seq(S) /\ t \in Seq(S)
  BY SeqMonotonic
<1> HIDE DEF S
<1>2. s \o t \in Seq(S) /\ Range(s \o t) = Range(s) \cup Range(t)
  BY <1>1, ConcatProperties, RangeConcatenation
<1>3. s \o t \in Seq(Range(s \o t))
  BY <1>2, SeqOfRange
<1>4. ASSUME s # <<>>
      PROVE  s \o t # <<>> /\ Head(s \o t) = Head(s)
  <2>1. Len(s) \in Nat \ {0} /\ Len(t) \in Nat
    BY <1>1, <1>4, EmptySeq, LenProperties
  <2>2. Len(s \o t) = Len(s) + Len(t) /\ (s \o t)[1] = s[1]
    BY <1>1, <2>1, ConcatProperties
  <2>3. s \o t # <<>>
    BY <2>1, <2>2
  <2>4. Head(s \o t) = (s \o t)[1] /\ Head(s) = s[1]
    BY <1>1, <1>2, <1>4, <2>3
  <2> QED
    BY <2>2, <2>3, <2>4
<1> QED
  BY <1>2, <1>3, <1>4

LEMMA OnlySeq ==
  ASSUME NEW S, NEW s \in Seq(S), \A w \in S : w.set = "MON_TABLE_QOS" => w.data = MonTable
  PROVE  OnlyTable(s)
BY SeqOfRange, RangeOfSeq DEF OnlyTable

LEMMA OnlyJoin ==
  ASSUME NEW s, OnlyTable(s), NEW t, OnlyTable(t)
  PROVE  OnlyTable(s \o t)
BY JoinIs DEF OnlyTable

LEMMA OnlyWrites ==
  /\ OnlyTable(<<>>)
  /\ \A n \in Nat : OnlyTable(Pause(n))
  /\ \A a, n : OnlyTable(ReceiveCommands(a, n))
  /\ \A p : OnlyTable(SendCommands(p))
  /\ OnlyTable(<<Set("MON_TABLE_QOS", MonTable)>>)
<1>1. OnlyTable(<<>>)
  <2> DEFINE s == <<>>
  <2>1. s \in Seq({})
    OBVIOUS
  <2> HIDE DEF s
  <2>2. OnlyTable(s)
    BY <2>1, OnlySeq
  <2> QED
    BY <2>2 DEF s
<1>2. ASSUME NEW n \in Nat
      PROVE  OnlyTable(Pause(n))
  <2>1. Pause(n) \in Seq({NoCommand})
    BY DEF Pause
  <2>2. \A w \in {NoCommand} : w.set # "MON_TABLE_QOS"
    BY DEF NoCommand
  <2> QED
    BY <2>1, <2>2, OnlySeq
<1>3. ASSUME NEW a, NEW n
      PROVE  OnlyTable(ReceiveCommands(a, n))
  <2> DEFINE S == {Set("address", a), Set("size", n), Set("op", 1), Set("start", 0)}
  <2>1. ReceiveCommands(a, n) \in Seq(S)
    BY DEF ReceiveCommands
  <2>2. \A w \in S : w.set # "MON_TABLE_QOS"
    BY DEF Set
  <2> QED
    BY <2>1, <2>2, OnlySeq
<1>4. ASSUME NEW p
      PROVE  OnlyTable(SendCommands(p))
  <2> DEFINE n == p.size + 2 - CONSTANT_PACKET_SIZE
             S == {Set("address", OutHeader), Set("size", CONSTANT_PACKET_SIZE), Set("address_2", OutBody),
                   Set("size_2", n), Set("op", 0), Set("start", 0)}
  <2>1. SendCommands(p) \in Seq(S)
    BY DEF SendCommands
  <2>2. \A w \in S : w.set # "MON_TABLE_QOS"
    BY DEF Set
  <2> QED
    BY <2>1, <2>2, OnlySeq
<1>5. OnlyTable(<<Set("MON_TABLE_QOS", MonTable)>>)
  <2> DEFINE w == Set("MON_TABLE_QOS", MonTable)
  <2>1. w.data = MonTable
    BY DEF Set
  <2> HIDE DEF w
  <2> DEFINE s == <<w>>
  <2>2. s \in Seq({w})
    OBVIOUS
  <2> HIDE DEF s
  <2>3. OnlyTable(s)
    BY <2>1, <2>2, OnlySeq
  <2> QED
    BY <2>3 DEF s, w
<1> QED
  BY <1>1, <1>2, <1>3, <1>4, <1>5

\* The kernel of the monitor writes the address of its table, and no other.
LEMMA KernelStep ==
  ASSUME EnvironmentInv
  PROVE  LET k == Kernel(MonitorAddress)
         IN  KernelType(k) /\ OnlyTable(k.todo)
<1> DEFINE M == MonitorAddress
           k == kernel[M]
           n == Kernel(M)
           writes == KernelWrites(M, Found(M))
           pause == Pause(plan[M].pause) \o ReceiveCommands(InHeader, CONSTANT_PACKET_SIZE)
<1>1. KernelType(k) /\ OnlyTable(k.todo) /\ IsPlan(plan)
  BY DEF EnvironmentInv
<1>2. plan[M].pause \in Nat /\ OnlyTable(plan[M].writes)
  BY <1>1, PlatformAssumption DEF IsPlan, OnlyTable
<1>3. OnlyTable(writes)
  <2>1. OnlyTable(Pause(plan[M].pause) \o plan[M].writes)
    BY <1>2, OnlyWrites, OnlyJoin
  <2> QED
    BY <2>1, OnlyWrites DEF KernelWrites
<1>4. OnlyTable(pause)
  BY <1>2, OnlyWrites, OnlyJoin
<1>5. ~Free(M) => OnlyTable(Tail(k.todo))
  BY <1>1, TailIs DEF Free, OnlyTable
<1>6. ASSUME NEW todo, NEW outbox, NEW reading, OnlyTable(todo),
             n = [k EXCEPT !.todo = todo, !.outbox = outbox, !.reading = reading]
      PROVE  KernelType(n) /\ OnlyTable(n.todo)
  <2> HIDE DEF k, n
  <2> QED
    BY <1>1, <1>6 DEF KernelType
<1>7. CASE ~Free(M)
  <2>1. n = [k EXCEPT !.todo = Tail(k.todo)]
    BY <1>7 DEF Kernel, Arrived, BodyIn, HeaderIn, Interrupted, MaySend
  <2>2. n = [k EXCEPT !.todo = Tail(k.todo), !.outbox = k.outbox, !.reading = k.reading]
    <3> HIDE DEF k, n
    <3> QED
      BY <1>1, <2>1 DEF KernelType
  <2> QED
    BY <1>5, <1>6, <1>7, <2>2
<1>8. CASE Free(M) /\ Arrived(M)
  <2> DEFINE outbox == k.outbox \o Answers(M, Found(M))
  <2>1. n = [k EXCEPT !.reading = "nothing", !.todo = writes, !.outbox = outbox]
    BY <1>8 DEF Kernel, Arrived, BodyIn, HeaderIn, Interrupted, MaySend
  <2>2. n = [k EXCEPT !.todo = writes, !.outbox = outbox, !.reading = "nothing"]
    <3> HIDE DEF k, n, writes, outbox
    <3> QED
      BY <1>1, <2>1 DEF KernelType
  <2> QED
    BY <1>3, <1>6, <2>2
<1>9. CASE Free(M) /\ ~Arrived(M) /\ HeaderIn(M)
  <2> DEFINE todo == ReceiveCommands(InBody, BodySize(M))
  <2>1. n = [k EXCEPT !.reading = "body", !.todo = todo]
    BY <1>9 DEF Kernel, Arrived, BodyIn, HeaderIn, Interrupted, MaySend
  <2>2. n = [k EXCEPT !.todo = todo, !.outbox = k.outbox, !.reading = "body"]
    <3> HIDE DEF k, n, todo
    <3> QED
      BY <1>1, <2>1 DEF KernelType
  <2>3. OnlyTable(todo)
    BY OnlyWrites
  <2> QED
    BY <1>6, <2>2, <2>3
<1>10. CASE Free(M) /\ ~Arrived(M) /\ ~HeaderIn(M) /\ Interrupted(M)
  <2>1. n = [k EXCEPT !.reading = "header", !.todo = pause]
    BY <1>10 DEF Kernel, Arrived, BodyIn, HeaderIn, Interrupted, MaySend
  <2>2. n = [k EXCEPT !.todo = pause, !.outbox = k.outbox, !.reading = "header"]
    <3> HIDE DEF k, n, pause
    <3> QED
      BY <1>1, <2>1 DEF KernelType
  <2> QED
    BY <1>4, <1>6, <2>2
<1>11. CASE Free(M) /\ ~Arrived(M) /\ ~HeaderIn(M) /\ ~Interrupted(M) /\ MaySend(M)
  <2> DEFINE todo == SendCommands(Head(k.outbox))
             outbox == Tail(k.outbox)
  <2>1. n = [k EXCEPT !.todo = todo, !.outbox = outbox]
    BY <1>11 DEF Kernel
  <2>2. n = [k EXCEPT !.todo = todo, !.outbox = outbox, !.reading = k.reading]
    <3> HIDE DEF k, n, todo, outbox
    <3> QED
      BY <1>1, <2>1 DEF KernelType
  <2>3. OnlyTable(todo)
    BY OnlyWrites
  <2> QED
    BY <1>6, <2>2, <2>3
<1>12. CASE Free(M) /\ ~Arrived(M) /\ ~HeaderIn(M) /\ ~Interrupted(M) /\ ~MaySend(M)
  <2>1. n = k
    BY <1>12 DEF Kernel
  <2> QED
    BY <1>1, <2>1
<1> QED
  BY <1>7, <1>8, <1>9, <1>10, <1>11, <1>12

LEMMA ConfigStep ==
  ASSUME NEW c, ConfigType(c), NEW cmd, cmd.set = "MON_TABLE_QOS" => cmd.data = MonTable
  PROVE  LET d == config(c, cmd)
         IN  /\ ConfigType(d)
             /\ c.monitor_ptrs["MON_TABLE_QOS"] = MonTable => d.monitor_ptrs["MON_TABLE_QOS"] = MonTable
<1> DEFINE d == config(c, cmd)
           v == cmd.data
           p == [c.monitor_ptrs EXCEPT !["MON_TABLE_QOS"] = MonTable]
<1>1. p \in [Tables -> {0, MonTable}] /\ p["MON_TABLE_QOS"] = MonTable
  BY DEF ConfigType, Tables
<1> HIDE DEF p, v
<1>2. \/ d = [c EXCEPT !.address = v, !.address_2 = 0]
      \/ d = [c EXCEPT !.address_2 = v]
      \/ d = [c EXCEPT !.size = v, !.size_2 = 0]
      \/ d = [c EXCEPT !.size_2 = v]
      \/ d = [c EXCEPT !.operation = v]
      \/ d = [c EXCEPT !.monitor_ptrs = p]
      \/ d = c
  <2>1. CASE cmd.set \in {"address", "address_2", "size", "size_2", "op"}
    BY <2>1 DEF config, Tables, v
  <2>2. CASE cmd.set = "MON_TABLE_QOS"
    <3>1. d = [c EXCEPT !.monitor_ptrs["MON_TABLE_QOS"] = MonTable]
      BY <2>2 DEF config, Tables
    <3> HIDE DEF d
    <3>2. d = [c EXCEPT !.monitor_ptrs = p]
      BY <3>1 DEF p, ConfigType
    <3> QED
      BY <3>2
  <2>3. CASE cmd.set \notin {"address", "address_2", "size", "size_2", "op", "MON_TABLE_QOS"}
    BY <2>3 DEF config, Tables
  <2> QED
    BY <2>1, <2>2, <2>3
<1> HIDE DEF d
<1>3. ConfigType(d) /\ (d.monitor_ptrs = c.monitor_ptrs \/ d.monitor_ptrs = p)
  BY <1>1, <1>2 DEF ConfigType
<1> QED
  BY <1>1, <1>3 DEF d

\* A report that is asked for stays until it is acknowledged.
LEMMA ReportsStep ==
  ASSUME EnvironmentInv, PlanClock
  PROVE  /\ IsPlan(plan')
         /\ reports' \in [queue : {reports'.queue}, req : BOOLEAN]
         /\ IsReports(reports'.queue) /\ (reports'.req => reports'.queue # <<>>)
         /\ reports.req /\ ~mon[MonitorAddress].br_ack_mon => reports'.req /\ Reported' = Reported
<1> DEFINE q == reports.queue
           ack == mon[MonitorAddress].br_ack_mon
<1>1. /\ IsPlan(plan) /\ reports \in [queue : {q}, req : BOOLEAN] /\ IsReports(q)
      /\ (reports.req => q # <<>>)
  BY DEF EnvironmentInv
<1>2. CASE /\ plan' \in Plans
           /\ reports' = [reports EXCEPT !.queue = q \o plan'[MonitorAddress].reports]
  <2> DEFINE more == plan'[MonitorAddress].reports
             joined == q \o more
  <2>1. IsPlan(plan')
    BY <1>2, PlansAssumption
  <2>2. IsReports(more)
    BY <2>1 DEF IsPlan
  <2>3. IsReports(joined) /\ (q # <<>> => joined # <<>> /\ Head(joined) = Head(q))
    BY <1>1, <2>2, JoinIs DEF IsReports
  <2>4. reports' = [reports EXCEPT !.queue = joined]
    BY <1>2
  <2> HIDE DEF joined
  <2>5. reports'.queue = joined /\ reports'.req = reports.req
        /\ reports' \in [queue : {reports'.queue}, req : BOOLEAN]
    BY <1>1, <2>4
  <2> QED
    BY <1>1, <2>1, <2>3, <2>5 DEF Reported
<1>3. CASE /\ plan' = plan
           /\ reports' = IF reports.req THEN IF ack THEN [queue |-> Tail(q), req |-> FALSE] ELSE reports
                         ELSE [reports EXCEPT !.req = q # <<>> /\ ~ack]
  <2>1. CASE reports.req /\ ack
    <3>1. IsReports(Tail(q))
      BY <1>1, <2>1, TailIs DEF IsReports
    <3>2. reports' = [queue |-> Tail(q), req |-> FALSE]
      BY <1>3, <2>1
    <3>3. reports'.queue = Tail(q) /\ reports'.req = FALSE
          /\ reports' \in [queue : {reports'.queue}, req : BOOLEAN]
      BY <3>2
    <3> QED
      BY <1>1, <1>3, <2>1, <3>1, <3>3
  <2>2. CASE reports.req /\ ~ack
    <3>1. reports' = reports
      BY <1>3, <2>2
    <3> QED
      BY <1>1, <1>3, <2>2, <3>1 DEF Reported
  <2>3. CASE ~reports.req
    <3> DEFINE req == q # <<>> /\ ~ack
    <3>1. reports' = [reports EXCEPT !.req = req] /\ req \in BOOLEAN /\ (req => q # <<>>)
      BY <1>3, <2>3
    <3> HIDE DEF req
    <3>2. reports'.queue = q /\ reports'.req = req
          /\ reports' \in [queue : {reports'.queue}, req : BOOLEAN]
      BY <1>1, <3>1
    <3> QED
      BY <1>1, <1>3, <2>3, <3>1, <3>2
  <2> QED
    BY <2>1, <2>2, <2>3
<1> QED
  BY <1>2, <1>3 DEF PlanClock

LEMMA EnvironmentStep ==
  ASSUME EnvironmentInv, LeavesTable, Tick
  PROVE  /\ EnvironmentInv'
         /\ Pointer = MonTable => Pointer' = MonTable
<1> DEFINE M == MonitorAddress
           cmd == IF Free(M) THEN NoCommand ELSE Head(kernel[M].todo)
<1>1. M \in Routers
  BY Sizes
<1>2. OnlyTable(kernel[M].todo) /\ ConfigType(cfg[M]) /\ BufferType(rcv[M]) /\ PlaceInv(rcv[M])
  BY DEF EnvironmentInv
<1>3. kernel'[M] = Kernel(M)
  BY <1>1 DEF Tick, KernelClock
<1>4. cfg'[M] = config(cfg[M], cmd)
  BY <1>1 DEF Tick, DmniClock
<1>5. PICK rx, word, enable : rcv'[M] = receive(rcv[M], cfg[M], cmd, rx, word, enable)
  BY <1>1 DEF Tick, DmniClock
<1>6. cmd.set = "MON_TABLE_QOS" => cmd.data = MonTable
  BY <1>2, TailIs DEF OnlyTable, Free, NoCommand
<1>7. cmd.set = "start" /\ cfg[M].operation = 1 /\ rcv[M].DMNI_Receive = "WAIT" =>
        cfg[M].address \in Nat /\ cfg[M].size \in Nat \ {0} /\ cfg[M].address + cfg[M].size <= MonTable
  BY DEF LeavesTable, Starts, NoCommand
<1> HIDE DEF cmd
<1>8. KernelType(kernel'[M]) /\ OnlyTable(kernel'[M].todo)
  BY <1>3, KernelStep
<1>9. ConfigType(cfg'[M]) /\ (Pointer = MonTable => Pointer' = MonTable)
  BY <1>2, <1>4, <1>6, ConfigStep DEF Pointer
<1>10. BufferType(rcv'[M]) /\ PlaceInv(rcv'[M])
  BY <1>2, <1>5, <1>7, PlaceStep
<1>11. /\ IsPlan(plan')
       /\ reports' \in [queue : {reports'.queue}, req : BOOLEAN]
       /\ IsReports(reports'.queue) /\ (reports'.req => reports'.queue # <<>>)
  BY ReportsStep DEF Tick
<1> QED
  BY <1>8, <1>9, <1>10, <1>11 DEF EnvironmentInv

\* The words of the table change when a report is written, and only then.
LEMMA MemoryStep ==
  ASSUME TableInv, LeavesTable, Tick
  PROVE  LET m == mon[MonitorAddress]
             memory == mem[MonitorAddress]
         IN  /\ MemoryType'
             /\ \A a \in MonTable .. RAM_SIZE - 1 :
                  mem'[MonitorAddress][a] =
                    IF m.br_rcv_state # "BR_RCV_IDLE" /\ m.br_we /\ m.br_mem_addr = a
                      THEN m.br_mem_data ELSE memory[a]
<1> DEFINE M == MonitorAddress
           a == arb[M]
           q == rcv[M]
           m == mon[M]
           memory == mem[M]
           port == mem_address_update(a, q, snd[M], m)
           written == write_b(memory, port)
           store == IF MaySend(M) THEN Stored(Head(kernel[M].outbox)) ELSE <<>>
           all == 0 .. RAM_SIZE - 1
<1>1. M \in Routers /\ MonTable \in Nat
  BY Sizes
<1>2. mem'[M] = [w \in DOMAIN written |-> IF w \in DOMAIN store THEN store[w] ELSE written[w]]
  BY <1>1 DEF Tick, DmniClock
<1>3. /\ memory = [w \in all |-> memory[w]]
      /\ ArbiterType(a) /\ ReportType(m) /\ PlaceInv(q)
      /\ m.br_rcv_state = "BR_RCV_IDLE" => ~m.br_we
      /\ m.br_rcv_state # "BR_RCV_IDLE" => a.ARB = "BR_RECEIVE"
  BY DEF TableInv, MemoryType, PhaseInv, EnvironmentInv
<1>4. \A w \in DOMAIN store : w < MonTable
  BY DEF LeavesTable
<1>5. \/ PortOwner(a) = "SEND" /\ port.we = FALSE
      \/ PortOwner(a) = "RECEIVE" /\ port.we = q.noc_we /\ port.address = q.recv_address
      \/ /\ PortOwner(a) = "BR_RECEIVE"
         /\ port.we = m.br_we /\ port.address = m.br_mem_addr /\ port.data = m.br_mem_data
  <2>1. PortOwner(a) \in {"SEND", "RECEIVE", "BR_RECEIVE"}
    BY <1>3 DEF PortOwner, ArbiterType
  <2> QED
    BY <2>1 DEF mem_address_update
<1>6. a.ARB = "BR_RECEIVE" => PortOwner(a) = "BR_RECEIVE"
  BY DEF PortOwner
<1>7. /\ written = [w \in all |-> written[w]]
      /\ \A w \in all : written[w] = IF port.we /\ port.address = w THEN port.data ELSE memory[w]
  <2> HIDE DEF memory, port
  <2>1. CASE port.we /\ port.address \in all
    <3>1. written = [memory EXCEPT ![port.address] = port.data]
      BY <2>1 DEF write_b, InRam
    <3> HIDE DEF written, all
    <3> QED
      BY <1>3, <2>1, <3>1
  <2>2. CASE ~(port.we /\ port.address \in all)
    <3>1. written = memory
      BY <2>2 DEF write_b, InRam
    <3> HIDE DEF written, all
    <3> QED
      BY <1>3, <2>2, <3>1
  <2> QED
    BY <2>1, <2>2
<1>8. MemoryType'
  <2>1. mem'[M] = [w \in all |-> IF w \in DOMAIN store THEN store[w] ELSE written[w]]
    <3> HIDE DEF written, store, all
    <3> QED
      BY <1>2, <1>7
  <2>2. mem'[M] = [w \in all |-> mem'[M][w]]
    <3> HIDE DEF written, store, all
    <3> QED
      BY <2>1
  <2> QED
    BY <2>2 DEF MemoryType
<1>9. ASSUME NEW w \in MonTable .. RAM_SIZE - 1
      PROVE  mem'[M][w] = IF m.br_rcv_state # "BR_RCV_IDLE" /\ m.br_we /\ m.br_mem_addr = w
                            THEN m.br_mem_data ELSE memory[w]
  <2>1. w \in Int /\ MonTable <= w /\ w \in all
    <3>1. RAM_SIZE \in Int
      BY Sizes DEF RAM_SIZE
    <3> QED
      BY <1>1, <3>1
  <2>2. w \notin DOMAIN store
    BY <1>1, <1>4, <2>1
  <2>3. mem'[M][w] = written[w]
    <3> HIDE DEF written, store, all
    <3> QED
      BY <1>2, <1>7, <2>1, <2>2
  <2> HIDE DEF port, written, store, all, memory, a, q, m
  <2>4. mem'[M][w] = IF port.we /\ port.address = w THEN port.data ELSE memory[w]
    BY <1>7, <2>1, <2>3
  <2>5. CASE PortOwner(a) = "SEND" /\ port.we = FALSE
    BY <1>3, <1>6, <2>4, <2>5
  <2>6. CASE PortOwner(a) = "RECEIVE" /\ port.we = q.noc_we /\ port.address = q.recv_address
    <3>1. ~(port.we /\ port.address = w)
      BY <1>1, <1>3, <2>1, <2>6 DEF PlaceInv
    <3> QED
      BY <1>3, <1>6, <2>4, <2>6, <3>1
  <2>7. CASE /\ PortOwner(a) = "BR_RECEIVE"
             /\ port.we = m.br_we /\ port.address = m.br_mem_addr /\ port.data = m.br_mem_data
    BY <1>3, <2>4, <2>7
  <2> QED
    BY <1>5, <2>5, <2>6, <2>7
<1> QED
  BY <1>8, <1>9

-----------------------------------------------------------------------------
(* The writing of a report.                                                *)

\* The five things a cycle may do in the writing of reports: m before, n after, b the report.
Kept(m, n) ==
  \A r \in Routers, i \in Indexes : n.mon_table[r][i] \in {m.mon_table[r][i], NoTask}
Idles(m, n) ==
  m.br_rcv_state = "BR_RCV_IDLE" /\ n.br_rcv_state = "BR_RCV_IDLE" /\ ~n.br_we /\ Kept(m, n)
FindsNoLine(m, n) ==
  m.br_rcv_state = "BR_RCV_IDLE" /\ n.br_rcv_state = "BR_RCV_END" /\ ~n.br_we /\ Kept(m, n)
WritesValue(m, n, b) ==
  /\ m.br_rcv_state = "BR_RCV_IDLE" /\ n.br_rcv_state = "BR_RCV_TASKID"
  /\ n.br_we /\ n.br_mem_data = b.payload /\ ~n.br_ack_mon
  /\ \E i \in Indexes :
       /\ n.br_mem_addr = LineAt(b.src, i) + 1
       /\ m.mon_table[b.src][i] \in {b.task, NoTask} /\ n.mon_table[b.src][i] \in {b.task, NoTask}
       /\ \A j \in Indexes : m.mon_table[b.src][j] = b.task => m.mon_table[b.src][i] = b.task
       /\ \A r \in Routers, j \in Indexes :
            r # b.src \/ j # i => n.mon_table[r][j] \in {m.mon_table[r][j], NoTask}
WritesTask(m, n, b) ==
  /\ m.br_rcv_state = "BR_RCV_TASKID" /\ n.br_rcv_state = "BR_RCV_END"
  /\ n.br_we /\ n.br_mem_data = b.task /\ n.br_mem_addr = m.br_mem_addr - 1
  /\ Kept(m, n)
EndsLine(m, n) ==
  m.br_rcv_state = "BR_RCV_END" /\ n.br_rcv_state = "BR_RCV_IDLE" /\ ~n.br_we /\ Kept(m, n)

LEMMA ReportedIs ==
  ASSUME EnvironmentInv, reports.req
  PROVE  /\ Reported.src \in Routers /\ Reported.task # NoTask
         /\ LET b == Request(MonitorAddress)
            IN  /\ b.req = TRUE /\ b.svc = "MON_TABLE_QOS"
                /\ b.src = Reported.src /\ b.task = Reported.task /\ b.payload = Reported.payload
<1>1. Reported \in Range(reports.queue)
  BY TailIs DEF EnvironmentInv, IsReports, Reported
<1>2. Reported.src \in Routers /\ Reported.task # NoTask
  BY <1>1 DEF EnvironmentInv, IsReports
<1>3. Request(MonitorAddress) =
        [req |-> TRUE, svc |-> "MON_TABLE_QOS", src |-> Reported.src, task |-> Reported.task,
         payload |-> Reported.payload]
  BY DEF Request, Reported
<1> QED
  BY <1>2, <1>3

LEMMA WritingStep ==
  ASSUME TableInv, Tick
  PROVE  LET m == mon[MonitorAddress]
             n == mon'[MonitorAddress]
             a == arb[MonitorAddress]
         IN  /\ ReportType(n)
             /\ \/ a.ARB # "BR_RECEIVE" /\ Idles(m, n)
                \/ a.ARB = "BR_RECEIVE" /\ (FindsNoLine(m, n) \/ WritesValue(m, n, Reported))
                \/ WritesTask(m, n, Reported) \/ EndsLine(m, n)
             /\ Idles(m, n) /\ reports.req /\ Pointer = MonTable => n.br_ack_mon = m.br_ack_mon
<1> DEFINE M == MonitorAddress
           m == mon[M]
           n == mon'[M]
           a == arb[M]
           c == cfg[M]
           b == Request(M)
           cmd == IF Free(M) THEN NoCommand ELSE Head(kernel[M].todo)
           owner == a.ARB
           enable == owner = "BR_RECEIVE"
           idx == LineFor(m, b)
           w == WriteLine(Acknowledge(m, c, b), c, b, enable)
<1>1. M \in Routers /\ MonTable \in Nat /\ 0 < MonTable
  BY Sizes
<1>2. /\ EnvironmentInv /\ ReportType(m)
      /\ m.br_rcv_state = "BR_RCV_IDLE" => ~m.br_we
      /\ m.br_rcv_state # "BR_RCV_IDLE" => enable
      /\ enable /\ m.br_rcv_state # "BR_RCV_END" => reports.req /\ ~m.br_ack_mon /\ Pointer = MonTable
  BY DEF TableInv, PhaseInv
<1>3. reports.req =>
        /\ b.req /\ b.svc = "MON_TABLE_QOS"
        /\ b.src = Reported.src /\ b.task = Reported.task /\ b.payload = Reported.payload
        /\ Reported.src \in Routers /\ Reported.task # NoTask
        /\ c.monitor_ptrs[b.svc] = Pointer
  BY <1>2, ReportedIs DEF Pointer
<1>4. n = IF cmd.set = "clear_task" THEN ClearTask(w, cmd.data) ELSE w
  BY <1>1 DEF Tick, DmniClock, br_receive
<1>5. enable \in BOOLEAN /\ (enable /\ m.br_rcv_state = "BR_RCV_IDLE" => b.req /\ c.monitor_ptrs[b.svc] # 0)
  BY <1>1, <1>2, <1>3
<1>14. Written(m, c, b, enable, w)
  <2> HIDE DEF m, c, b, owner
  <2> QED
    BY <1>2, <1>5, WrittenFields
<1> HIDE DEF cmd
<1>6. ASSUME ReportType(w)
      PROVE  /\ ReportType(n)
             /\ n.br_rcv_state = w.br_rcv_state /\ n.br_ack_mon = w.br_ack_mon /\ n.br_we = w.br_we
             /\ n.br_mem_addr = w.br_mem_addr /\ n.br_mem_data = w.br_mem_data
             /\ Kept(w, n)
  <2> HIDE DEF w, n
  <2>1. CASE cmd.set = "clear_task"
    BY <1>4, <1>6, <2>1, ClearedFields DEF Kept
  <2>2. CASE cmd.set # "clear_task"
    BY <1>4, <1>6, <2>2, SMTT(30) DEF Kept
  <2> QED
    BY <2>1, <2>2
<1>7. ReportType(w) /\ w.mon_table = m.mon_table => Kept(m, n)
  BY <1>6 DEF Kept
<1>8. CASE m.br_rcv_state = "BR_RCV_IDLE" /\ ~enable
  <2>1. /\ ReportType(w) /\ w.br_rcv_state = "BR_RCV_IDLE"
        /\ w.br_we = m.br_we /\ w.mon_table = m.mon_table
        /\ b.req /\ c.monitor_ptrs[b.svc] # 0 => w.br_ack_mon = m.br_ack_mon
    <3> HIDE DEF m, c, b, owner, w
    <3> QED
      BY <1>14, <1>8 DEF Written
  <2> HIDE DEF w
  <2>2. Idles(m, n) /\ ReportType(n) /\ n.br_ack_mon = w.br_ack_mon
    BY <1>2, <1>6, <1>7, <1>8, <2>1 DEF Idles
  <2> QED
    BY <1>1, <1>3, <1>8, <2>1, <2>2
<1>9. CASE m.br_rcv_state = "BR_RCV_IDLE" /\ enable /\ idx = -1
  <2>1. /\ ReportType(w) /\ w.br_rcv_state = "BR_RCV_END"
        /\ w.br_we = m.br_we /\ w.mon_table = m.mon_table
    <3> HIDE DEF m, c, b, owner, w
    <3> QED
      BY <1>14, <1>9 DEF Written
  <2> HIDE DEF w
  <2>2. FindsNoLine(m, n) /\ ReportType(n)
    BY <1>2, <1>6, <1>7, <1>9, <2>1 DEF FindsNoLine
  <2> QED
    BY <1>9, <2>2 DEF FindsNoLine, Idles
<1>10. CASE m.br_rcv_state = "BR_RCV_IDLE" /\ enable /\ idx # -1
  <2> DEFINE t == [m.mon_table EXCEPT ![b.src][idx] = b.task]
             l == Line(c, b, idx) + 1
  <2>1. w = [m EXCEPT !.br_mem_data = b.payload, !.br_mem_addr = l, !.br_we = TRUE, !.mon_table = t,
                      !.br_rcv_state = "BR_RCV_TASKID"]
    <3> HIDE DEF m, c, b, owner, w
    <3> QED
      BY <1>14, <1>10 DEF Written
  <2>2. /\ idx \in Indexes /\ m.mon_table[b.src][idx] \in {b.task, NoTask}
        /\ \A j \in Indexes : m.mon_table[b.src][j] = b.task => m.mon_table[b.src][idx] = b.task
    BY <1>10, LineForIs
  <2>3. /\ reports.req /\ b.src \in Routers
        /\ l = LineAt(b.src, idx) + 1
    BY <1>2, <1>3, <1>10 DEF Line, LineAt
  <2> HIDE DEF idx, l
  <2>4. /\ LinesType(t) /\ t[b.src][idx] = b.task
        /\ \A r \in Routers, j \in Indexes : r # b.src \/ j # idx => t[r][j] = m.mon_table[r][j]
    <3> DEFINE old == m.mon_table
    <3>1. LinesType(old)
      BY <1>2 DEF ReportType
    <3> HIDE DEF old, b
    <3> QED
      BY <2>2, <2>3, <3>1 DEF LinesType, old
  <2> HIDE DEF t, w
  <2>5. /\ ReportType(w) /\ w.br_rcv_state = "BR_RCV_TASKID" /\ w.br_we /\ w.br_mem_data = b.payload
        /\ w.br_mem_addr = l /\ w.mon_table = t /\ ~w.br_ack_mon
    BY <1>2, <1>10, <2>1, <2>4 DEF ReportType
  <2> HIDE DEF n, m, b
  <2>6. /\ n.br_rcv_state = "BR_RCV_TASKID" /\ n.br_we /\ n.br_mem_data = b.payload
        /\ n.br_mem_addr = LineAt(b.src, idx) + 1 /\ ReportType(n) /\ Kept(w, n) /\ ~n.br_ack_mon
    BY <1>6, <2>3, <2>5
  <2>7. /\ n.mon_table[b.src][idx] \in {b.task, NoTask}
        /\ \A r \in Routers, j \in Indexes :
             r # b.src \/ j # idx => n.mon_table[r][j] \in {m.mon_table[r][j], NoTask}
    BY <2>2, <2>3, <2>4, <2>5, <2>6 DEF Kept
  <2>8. WritesValue(m, n, b)
    BY <1>10, <2>2, <2>6, <2>7 DEF WritesValue
  <2>9. WritesValue(m, n, Reported)
    BY <1>3, <2>3, <2>8 DEF WritesValue
  <2> QED
    BY <1>10, <2>6, <2>9 DEF n, m, Idles
<1>11. CASE m.br_rcv_state = "BR_RCV_TASKID"
  <2>1. /\ ReportType(w) /\ w.br_rcv_state = "BR_RCV_END" /\ w.br_we /\ w.mon_table = m.mon_table
        /\ w.br_mem_data = b.task /\ w.br_mem_addr = m.br_mem_addr - 1
    <3> HIDE DEF m, c, b, owner, w
    <3> QED
      BY <1>14, <1>11 DEF Written
  <2>2. b.task = Reported.task
    BY <1>2, <1>3, <1>11
  <2> HIDE DEF w
  <2>3. WritesTask(m, n, Reported) /\ ReportType(n)
    BY <1>6, <1>7, <1>11, <2>1, <2>2 DEF WritesTask
  <2> QED
    BY <2>3 DEF WritesTask, Idles
<1>12. CASE m.br_rcv_state = "BR_RCV_END"
  <2>1. ReportType(w) /\ w.br_rcv_state = "BR_RCV_IDLE" /\ ~w.br_we /\ w.mon_table = m.mon_table
    <3> HIDE DEF m, c, b, owner, w
    <3> QED
      BY <1>14, <1>12 DEF Written
  <2> HIDE DEF w
  <2>2. EndsLine(m, n) /\ ReportType(n)
    BY <1>6, <1>7, <1>12, <2>1 DEF EndsLine
  <2> QED
    BY <2>2 DEF EndsLine, Idles
<1>13. m.br_rcv_state \in {"BR_RCV_IDLE", "BR_RCV_TASKID", "BR_RCV_END"}
  BY <1>2 DEF ReportType
<1> QED
  BY <1>8, <1>9, <1>10, <1>11, <1>12, <1>13

LEMMA PhaseStep ==
  ASSUME TableInv, LeavesTable, Tick
  PROVE  PhaseInv(mon[MonitorAddress], arb[MonitorAddress])'
<1> DEFINE M == MonitorAddress
           m == mon[M]
           n == mon'[M]
           a == arb[M]
           o == arb'[M]
           b == Request(M)
<1>1. M \in Routers
  BY Sizes
<1>2. /\ EnvironmentInv /\ ReportType(m) /\ ArbiterType(a)
      /\ m.br_rcv_state # "BR_RCV_IDLE" => a.ARB = "BR_RECEIVE"
      /\ a.ARB = "BR_RECEIVE" /\ m.br_rcv_state # "BR_RCV_END" =>
           reports.req /\ ~m.br_ack_mon /\ Pointer = MonTable
  BY DEF TableInv, PhaseInv
<1>3. o = arbiter(a, rcv[M], snd[M], m, cfg[M], b)
  BY <1>1 DEF Tick, DmniClock
<1>4. /\ ArbiterType(o)
      /\ a.ARB = "BR_RECEIVE" /\ m.br_rcv_state # "BR_RCV_END" => o.ARB = "BR_RECEIVE"
      /\ a.ARB = "BR_RECEIVE" /\ m.br_rcv_state = "BR_RCV_END" => o.ARB = "ROUND"
      /\ a.ARB # "BR_RECEIVE" /\ o.ARB = "BR_RECEIVE" =>
           b.req /\ ~m.br_ack_mon /\ cfg[M].monitor_ptrs[b.svc] # 0
  <2> HIDE DEF a, m, b, o
  <2> QED
    BY <1>2, <1>3, ArbiterStep
<1>5. reports.req /\ ~m.br_ack_mon => reports'.req
  BY <1>2, ReportsStep DEF Tick
<1>6. Pointer = MonTable => Pointer' = MonTable
  BY <1>2, EnvironmentStep
<1>7. a.ARB # "BR_RECEIVE" /\ o.ARB = "BR_RECEIVE" => reports.req /\ ~m.br_ack_mon /\ Pointer = MonTable
  <2> SUFFICES ASSUME b.req, cfg[M].monitor_ptrs[b.svc] # 0
               PROVE  reports.req /\ Pointer = MonTable
    BY <1>4
  <2>1. reports.req
    BY DEF Request, NoRequest
  <2>2. b.svc = "MON_TABLE_QOS"
    BY <1>2, <2>1, ReportedIs
  <2> QED
    BY <1>2, <2>1, <2>2 DEF Pointer, EnvironmentInv, ConfigType, Tables
<1>8. /\ ReportType(n)
      /\ \/ a.ARB # "BR_RECEIVE" /\ Idles(m, n)
         \/ a.ARB = "BR_RECEIVE" /\ (FindsNoLine(m, n) \/ WritesValue(m, n, Reported))
         \/ WritesTask(m, n, Reported) \/ EndsLine(m, n)
      /\ Idles(m, n) /\ reports.req /\ Pointer = MonTable => n.br_ack_mon = m.br_ack_mon
  BY WritingStep
<1> DEFINE Phase == /\ ReportType(n) /\ ArbiterType(o)
                    /\ n.br_rcv_state = "BR_RCV_IDLE" => ~n.br_we
                    /\ n.br_rcv_state # "BR_RCV_IDLE" => o.ARB = "BR_RECEIVE"
                    /\ o.ARB = "BR_RECEIVE" /\ n.br_rcv_state # "BR_RCV_END" =>
                         reports'.req /\ ~n.br_ack_mon /\ Pointer' = MonTable
<1>9. Phase
  <2> HIDE DEF a, m, b, o, n
  <2>1. CASE a.ARB # "BR_RECEIVE" /\ Idles(m, n)
    <3>1. n.br_rcv_state = "BR_RCV_IDLE" /\ ~n.br_we
      BY <2>1 DEF Idles
    <3> QED
      BY <1>4, <1>5, <1>6, <1>7, <1>8, <2>1, <3>1
  <2>2. CASE a.ARB = "BR_RECEIVE" /\ FindsNoLine(m, n)
    BY <1>4, <1>8, <2>2 DEF FindsNoLine
  <2>3. CASE a.ARB = "BR_RECEIVE" /\ WritesValue(m, n, Reported)
    <3>1. m.br_rcv_state = "BR_RCV_IDLE" /\ n.br_rcv_state = "BR_RCV_TASKID" /\ ~n.br_ack_mon
      BY <2>3 DEF WritesValue
    <3> QED
      BY <1>2, <1>4, <1>5, <1>6, <1>8, <2>3, <3>1
  <2>4. CASE WritesTask(m, n, Reported)
    <3>1. m.br_rcv_state = "BR_RCV_TASKID" /\ n.br_rcv_state = "BR_RCV_END"
      BY <2>4 DEF WritesTask
    <3> QED
      BY <1>2, <1>4, <1>8, <3>1
  <2>5. CASE EndsLine(m, n)
    <3>1. m.br_rcv_state = "BR_RCV_END" /\ n.br_rcv_state = "BR_RCV_IDLE" /\ ~n.br_we
      BY <2>5 DEF EndsLine
    <3> QED
      BY <1>2, <1>4, <1>8, <3>1
  <2> QED
    BY <1>8, <2>1, <2>2, <2>3, <2>4, <2>5
<1> QED
  BY <1>9 DEF PhaseInv

\* What is recorded of a line stays if the line is not written to and no newer value comes.
LEMMA StaysRecorded ==
  ASSUME TableInv, LeavesTable, Tick, NEW r \in Routers, NEW j \in Indexes, NEW task,
         LET m == mon[MonitorAddress]
         IN  /\ m.br_rcv_state # "BR_RCV_IDLE" /\ m.br_we =>
                  m.br_mem_addr # LineAt(r, j) /\ m.br_mem_addr # LineAt(r, j) + 1
             /\ m.br_rcv_state = "BR_RCV_TASKID" => <<r, task>> # <<Reported.src, Reported.task>>
  PROVE  /\ mem'[MonitorAddress][LineAt(r, j)] = mem[MonitorAddress][LineAt(r, j)]
         /\ Reports(r, task, LineAt(r, j) + 1) =>
              HasLast(mem'[MonitorAddress], lastReport', r, task, LineAt(r, j) + 1)
<1> DEFINE M == MonitorAddress
           m == mon[M]
           l == LineAt(r, j)
           e == <<r, task>>
<1>1. l \in MonTable .. RAM_SIZE - 1 /\ l + 1 \in MonTable .. RAM_SIZE - 1
  BY Sizes, LinesApart DEF RAM_SIZE
<1>2. mem'[M][l] = mem[M][l] /\ mem'[M][l + 1] = mem[M][l + 1]
  BY <1>1, MemoryStep
<1>3. e \in DOMAIN lastReport => e \in DOMAIN lastReport' /\ lastReport'[e] = lastReport[e]
  <2>1. CASE m.br_rcv_state = "BR_RCV_TASKID"
    BY <2>1 DEF Tick, HistoryClock, Reported
  <2>2. CASE m.br_rcv_state # "BR_RCV_TASKID"
    BY <2>2 DEF Tick, HistoryClock
  <2> QED
    BY <2>1, <2>2
<1> QED
  BY <1>2, <1>3 DEF Reports, HasLast

\* The line of the report that is being written is in the table once.
LEMMA LinesStep ==
  ASSUME TableInv, LeavesTable, Tick
  PROVE  BeginsInv(mon[MonitorAddress])' /\ OneLineInv(mon[MonitorAddress])'
<1> DEFINE M == MonitorAddress
           m == mon[M]
           n == mon'[M]
           a == arb[M]
           b == Reported
<1>1. /\ EnvironmentInv /\ OneLineInv(m)
      /\ a.ARB = "BR_RECEIVE" /\ m.br_rcv_state # "BR_RCV_END" => reports.req /\ ~m.br_ack_mon
  BY DEF TableInv, PhaseInv
<1>2. \/ a.ARB # "BR_RECEIVE" /\ Idles(m, n)
      \/ a.ARB = "BR_RECEIVE" /\ (FindsNoLine(m, n) \/ WritesValue(m, n, b))
      \/ WritesTask(m, n, b) \/ EndsLine(m, n)
  BY WritingStep
<1>3. CASE Kept(m, n) /\ n.br_rcv_state # "BR_RCV_TASKID"
  <2> HIDE DEF m, n
  <2>1. ASSUME NEW r \in Routers, NEW i \in Indexes, NEW j \in Indexes,
               n.mon_table[r][i] = n.mon_table[r][j], n.mon_table[r][i] # NoTask
        PROVE  i = j
    <3>1. m.mon_table[r][i] = m.mon_table[r][j] /\ m.mon_table[r][i] # NoTask
      BY <1>3, <2>1 DEF Kept
    <3> QED
      BY <1>1, <3>1 DEF OneLineInv
  <2> QED
    BY <1>3, <2>1 DEF BeginsInv, OneLineInv, n
<1>4. CASE a.ARB = "BR_RECEIVE" /\ WritesValue(m, n, b)
  <2>1. /\ m.br_rcv_state = "BR_RCV_IDLE" /\ n.br_rcv_state = "BR_RCV_TASKID"
        /\ n.br_we /\ n.br_mem_data = b.payload
    BY <1>4 DEF WritesValue
  <2>2. PICK i \in Indexes :
          /\ n.br_mem_addr = LineAt(b.src, i) + 1
          /\ m.mon_table[b.src][i] \in {b.task, NoTask} /\ n.mon_table[b.src][i] \in {b.task, NoTask}
          /\ \A j \in Indexes : m.mon_table[b.src][j] = b.task => m.mon_table[b.src][i] = b.task
          /\ \A r \in Routers, j \in Indexes :
               r # b.src \/ j # i => n.mon_table[r][j] \in {m.mon_table[r][j], NoTask}
    BY <1>4 DEF WritesValue
  <2>3. reports.req /\ ~m.br_ack_mon
    BY <1>1, <1>4, <2>1
  <2>4. Reported' = b /\ b.src \in Routers /\ b.task # NoTask
    BY <1>1, <2>3, ReportsStep, ReportedIs DEF Tick
  <2>5. ASSUME NEW j \in Indexes, n.mon_table[b.src][j] = b.task
        PROVE  j = i
    <3> SUFFICES ASSUME j # i
                 PROVE  FALSE
      OBVIOUS
    <3> HIDE DEF m, n, b
    <3>1. m.mon_table[b.src][j] = b.task
      BY <2>2, <2>4, <2>5
    <3>2. m.mon_table[b.src][i] = b.task
      BY <2>2, <3>1
    <3> QED
      BY <1>1, <2>4, <3>1, <3>2 DEF OneLineInv
  <2>6. BeginsInv(mon[M])'
    <3> DEFINE c == Reported'
    <3>1. /\ n.br_we /\ n.br_mem_data = c.payload
          /\ n.br_rcv_state = "BR_RCV_TASKID" /\ n.br_mem_addr = LineAt(c.src, i) + 1
          /\ n.mon_table[c.src][i] \in {c.task, NoTask}
          /\ \A j \in Indexes : n.mon_table[c.src][j] = c.task => j = i
      BY <2>1, <2>2, <2>4, <2>5
    <3> HIDE DEF c
    <3>2. \E k \in Indexes :
            /\ n.br_rcv_state = "BR_RCV_TASKID" /\ n.br_mem_addr = LineAt(c.src, k) + 1
            /\ n.mon_table[c.src][k] \in {c.task, NoTask}
            /\ \A j \in Indexes : n.mon_table[c.src][j] = c.task => j = k
      BY <3>1
    <3> QED
      BY <3>1, <3>2 DEF BeginsInv, Begins, c
  <2>7. ASSUME NEW r \in Routers, NEW k \in Indexes, NEW j \in Indexes,
               n.mon_table[r][k] = n.mon_table[r][j], n.mon_table[r][k] # NoTask
        PROVE  k = j
    <3> HIDE DEF m, n, b
    <3>1. CASE r = b.src /\ (k = i \/ j = i)
      <4>1. n.mon_table[b.src][k] = b.task /\ n.mon_table[b.src][j] = b.task
        BY <2>2, <2>7, <3>1
      <4> QED
        BY <2>5, <4>1
    <3>2. CASE r # b.src \/ (k # i /\ j # i)
      <4>1. m.mon_table[r][k] = m.mon_table[r][j] /\ m.mon_table[r][k] # NoTask
        BY <2>2, <2>7, <3>2
      <4> QED
        BY <1>1, <4>1 DEF OneLineInv
    <3> QED
      BY <3>1, <3>2
  <2> HIDE DEF m
  <2> QED
    BY <2>6, <2>7 DEF OneLineInv
<1>5. Idles(m, n) \/ FindsNoLine(m, n) \/ WritesTask(m, n, b) \/ EndsLine(m, n) =>
        Kept(m, n) /\ n.br_rcv_state # "BR_RCV_TASKID"
  <2> HIDE DEF m, n, b
  <2> QED
    BY DEF Idles, FindsNoLine, WritesTask, EndsLine
<1> QED
  BY <1>2, <1>3, <1>4, <1>5

\* When the task is written the value is there already, and it is the last one reported.
LEMMA FinishesStep ==
  ASSUME TableInv, LeavesTable, Tick
  PROVE  FinishesInv(mon[MonitorAddress])'
<1> DEFINE M == MonitorAddress
           m == mon[M]
           n == mon'[M]
           b == Reported
<1>1. /\ EnvironmentInv /\ BeginsInv(m)
      /\ m.br_rcv_state # "BR_RCV_IDLE" => arb[M].ARB = "BR_RECEIVE"
      /\ arb[M].ARB = "BR_RECEIVE" /\ m.br_rcv_state # "BR_RCV_END" => reports.req
  BY DEF TableInv, PhaseInv
<1>2. \/ Idles(m, n) \/ FindsNoLine(m, n) \/ WritesValue(m, n, b) \/ EndsLine(m, n)
      \/ WritesTask(m, n, b)
  BY WritingStep
<1>3. CASE Idles(m, n) \/ FindsNoLine(m, n) \/ WritesValue(m, n, b) \/ EndsLine(m, n)
  <2>1. n.br_rcv_state # "BR_RCV_END" \/ ~n.br_we
    <3> HIDE DEF m, n, b
    <3> QED
      BY <1>3 DEF Idles, FindsNoLine, WritesValue, EndsLine
  <2> QED
    BY <2>1 DEF FinishesInv
<1>4. CASE WritesTask(m, n, b)
  <2>1. /\ m.br_rcv_state = "BR_RCV_TASKID" /\ n.br_rcv_state = "BR_RCV_END"
        /\ n.br_we /\ n.br_mem_data = b.task /\ n.br_mem_addr = m.br_mem_addr - 1
        /\ Kept(m, n)
    BY <1>4 DEF WritesTask
  <2>2. m.br_we /\ m.br_mem_data = b.payload
    BY <1>1, <2>1 DEF BeginsInv
  <2>3. PICK i \in Indexes :
          /\ m.br_mem_addr = LineAt(b.src, i) + 1 /\ m.mon_table[b.src][i] \in {b.task, NoTask}
    BY <1>1, <2>1 DEF BeginsInv, Begins
  <2>4. b.src \in Routers
    BY <1>1, <2>1, ReportedIs
  <2> DEFINE l == LineAt(b.src, i)
  <2>5. l \in Nat /\ l + 1 \in MonTable .. RAM_SIZE - 1
    BY <2>4, Sizes, LinesApart DEF RAM_SIZE
  <2>6. mem'[M][l + 1] = b.payload
    <3> HIDE DEF l
    <3>1. m.br_mem_addr = l + 1
      BY <2>3 DEF l
    <3> QED
      BY <2>1, <2>2, <2>5, <3>1, MemoryStep
  <2>7. <<b.src, b.task>> \in DOMAIN lastReport' /\ lastReport'[<<b.src, b.task>>] = b.payload
    BY <2>1 DEF Tick, HistoryClock, Reported
  <2>8. n.mon_table[b.src][i] \in {b.task, NoTask}
    <3> HIDE DEF m, n, b
    <3> QED
      BY <2>1, <2>3, <2>4 DEF Kept
  <2>9. n.br_mem_addr = l
    <3> HIDE DEF l
    <3>1. m.br_mem_addr = l + 1
      BY <2>3 DEF l
    <3> QED
      BY <2>1, <2>5, <3>1
  <2> HIDE DEF l, b
  <2>10. /\ n.br_mem_addr = LineAt(b.src, i) /\ n.mon_table[b.src][i] \in {n.br_mem_data, NoTask}
         /\ <<b.src, n.br_mem_data>> \in DOMAIN lastReport'
         /\ mem'[M][n.br_mem_addr + 1] = lastReport'[<<b.src, n.br_mem_data>>]
    BY <2>1, <2>6, <2>7, <2>8, <2>9 DEF l
  <2> QED
    BY <2>1, <2>4, <2>10 DEF FinishesInv, Finishes, Reports, HasLast
<1> QED
  BY <1>2, <1>3, <1>4

\* All other lines stay as they are.
LEMMA RecordedStep ==
  ASSUME TableInv, LeavesTable, Tick
  PROVE  RecordedInv(mon[MonitorAddress])'
<1> DEFINE M == MonitorAddress
           m == mon[M]
           n == mon'[M]
           b == Reported
<1> SUFFICES ASSUME NEW r \in Routers, NEW j \in Indexes,
                    n.mon_table[r][j] # NoTask, ~Begins(n, r, j), ~Finishes(n, r, j)
             PROVE  /\ mem'[M][LineAt(r, j)] = n.mon_table[r][j]
                    /\ HasLast(mem'[M], lastReport', r, n.mon_table[r][j], LineAt(r, j) + 1)
  BY DEF RecordedInv, Begins, Finishes, Reports
<1> DEFINE task == m.mon_table[r][j]
           l == LineAt(r, j)
<1>1. /\ BeginsInv(m) /\ FinishesInv(m) /\ RecordedInv(m) /\ EnvironmentInv
      /\ m.br_rcv_state = "BR_RCV_IDLE" => ~m.br_we
      /\ m.br_rcv_state # "BR_RCV_IDLE" => arb[M].ARB = "BR_RECEIVE"
      /\ arb[M].ARB = "BR_RECEIVE" /\ m.br_rcv_state # "BR_RCV_END" => reports.req
  BY DEF TableInv, PhaseInv
<1>2. Idles(m, n) \/ FindsNoLine(m, n) \/ WritesValue(m, n, b) \/ WritesTask(m, n, b) \/ EndsLine(m, n)
  BY WritingStep
<1>3. /\ l \in MonTable .. RAM_SIZE - 1 /\ l + 1 \in MonTable .. RAM_SIZE - 1
      /\ \A o \in Routers, i \in Indexes :
           /\ l # LineAt(o, i) + 1 /\ LineAt(o, i) # l + 1
           /\ l = LineAt(o, i) => r = o /\ j = i
  BY Sizes, LinesApart DEF RAM_SIZE
<1>4. n.mon_table[r][j] = task
  <2> HIDE DEF m, n, b
  <2>1. CASE Kept(m, n)
    BY <2>1 DEF Kept
  <2>2. CASE WritesValue(m, n, b)
    <3>1. PICK i \in Indexes :
            /\ n.br_mem_addr = LineAt(b.src, i) + 1
            /\ r # b.src \/ j # i => n.mon_table[r][j] \in {m.mon_table[r][j], NoTask}
      BY <2>2 DEF WritesValue
    <3>2. n.br_rcv_state = "BR_RCV_TASKID"
      BY <2>2 DEF WritesValue
    <3> QED
      BY <3>1, <3>2 DEF Begins
  <2> QED
    BY <1>2, <2>1, <2>2 DEF Idles, FindsNoLine, WritesTask, EndsLine
<1>5. ASSUME m.br_rcv_state # "BR_RCV_IDLE" /\ m.br_we => m.br_mem_addr # l /\ m.br_mem_addr # l + 1,
             m.br_rcv_state = "BR_RCV_TASKID" => <<r, task>> # <<b.src, b.task>>
      PROVE  mem'[M][l] = mem[M][l] /\ (Reports(r, task, l + 1) => HasLast(mem'[M], lastReport', r, task, l + 1))
  BY <1>5, StaysRecorded
<1>6. ~Begins(m, r, j) /\ ~Finishes(m, r, j) => mem[M][l] = task /\ Reports(r, task, l + 1)
  BY <1>1, <1>4 DEF RecordedInv
<1> SUFFICES mem'[M][l] = task /\ HasLast(mem'[M], lastReport', r, task, l + 1)
  <2> HIDE DEF task
  <2> QED
    BY <1>4
<1> HIDE DEF task, l
<1>7. CASE m.br_rcv_state = "BR_RCV_IDLE"
  BY <1>5, <1>6, <1>7 DEF Begins, Finishes
<1>8. CASE m.br_rcv_state = "BR_RCV_TASKID"
  <2>1. PICK i \in Indexes :
          /\ m.br_mem_addr = LineAt(b.src, i) + 1
          /\ \A k \in Indexes : m.mon_table[b.src][k] = b.task => k = i
    BY <1>1, <1>8 DEF BeginsInv, Begins
  <2>2. b.src \in Routers
    BY <1>1, <1>8, ReportedIs
  <2>3. WritesTask(m, n, b)
    BY <1>2, <1>8 DEF Idles, FindsNoLine, WritesValue, EndsLine
  <2>4. ~(r = b.src /\ j = i)
    <3> SUFFICES ASSUME r = b.src, j = i
                 PROVE  Finishes(n, r, j)
      OBVIOUS
    <3>1. n.br_rcv_state = "BR_RCV_END" /\ n.br_we /\ n.br_mem_addr = m.br_mem_addr - 1
      BY <2>3 DEF WritesTask
    <3>2. m.br_mem_addr = l + 1 /\ l \in Int
      BY <1>3, <2>1, Sizes DEF l
    <3>3. n.br_mem_addr = l
      BY <3>1, <3>2
    <3> QED
      BY <3>1, <3>3 DEF Finishes, l
  <2>5. m.br_mem_addr # l /\ m.br_mem_addr # l + 1
    <3>1. LineAt(b.src, i) \in Nat /\ l \in Int
      BY <1>3, <2>2, Sizes, LinesApart
    <3>2. l # LineAt(b.src, i) /\ l # LineAt(b.src, i) + 1
      BY <1>3, <2>2, <2>4
    <3> QED
      BY <2>1, <3>1, <3>2
  <2>6. <<r, task>> # <<b.src, b.task>>
    <3> HIDE DEF m, b
    <3> SUFFICES ASSUME r = b.src, task = b.task
                 PROVE  FALSE
      OBVIOUS
    <3>1. j = i
      BY <2>1 DEF task
    <3> QED
      BY <2>4, <3>1
  <2>7. ~Begins(m, r, j) /\ ~Finishes(m, r, j)
    BY <1>8, <2>5 DEF Begins, Finishes, l
  <2> QED
    BY <1>5, <1>6, <2>5, <2>6, <2>7
<1>9. CASE m.br_rcv_state = "BR_RCV_END" /\ Finishes(m, r, j)
  <2>1. m.br_we /\ m.br_mem_addr = l
    BY <1>9 DEF Finishes, l
  <2>2. PICK o \in Routers, i \in Indexes :
          /\ m.br_mem_addr = LineAt(o, i) /\ m.mon_table[o][i] \in {m.br_mem_data, NoTask}
          /\ Reports(o, m.br_mem_data, m.br_mem_addr + 1)
    BY <1>1, <1>9, <2>1 DEF FinishesInv, Finishes
  <2>3. r = o /\ j = i
    BY <1>3, <2>1, <2>2
  <2>4. m.br_mem_data = task
    <3> HIDE DEF m, n
    <3> QED
      BY <1>4, <2>2, <2>3 DEF task
  <2>5. mem'[M][l] = task /\ mem'[M][l + 1] = mem[M][l + 1]
    <3>1. l \in Int
      BY <1>3, Sizes
    <3>2. m.br_mem_addr # l + 1
      BY <2>1, <3>1
    <3> QED
      BY <1>3, <1>9, <2>1, <2>4, <3>2, MemoryStep
  <2>6. lastReport' = lastReport
    BY <1>9 DEF Tick, HistoryClock
  <2>7. Reports(r, task, l + 1)
    BY <2>1, <2>2, <2>3, <2>4
  <2> QED
    BY <2>5, <2>6, <2>7 DEF Reports, HasLast
<1>10. CASE m.br_rcv_state = "BR_RCV_END" /\ ~Finishes(m, r, j)
  <2>1. m.br_we => m.br_mem_addr # l /\ m.br_mem_addr # l + 1
    <3> SUFFICES ASSUME m.br_we
                 PROVE  m.br_mem_addr # l /\ m.br_mem_addr # l + 1
      OBVIOUS
    <3>1. PICK o \in Routers, i \in Indexes : Finishes(m, o, i)
      BY <1>1, <1>10 DEF FinishesInv
    <3> QED
      BY <1>3, <1>10, <3>1 DEF Finishes
  <2> QED
    BY <1>5, <1>6, <1>10, <2>1 DEF Begins
<1>11. m.br_rcv_state \in {"BR_RCV_IDLE", "BR_RCV_TASKID", "BR_RCV_END"}
  BY DEF TableInv, PhaseInv, ReportType
<1> QED
  BY <1>7, <1>8, <1>9, <1>10, <1>11

LEMMA TableInitially == Init => TableInv
<1> SUFFICES ASSUME Init
             PROVE  TableInv
  OBVIOUS
<1> DEFINE M == MonitorAddress
           m == mon[M]
           q == rcv[M]
           t == [o \in Routers |-> [i \in 0 .. TASK_PER_PE - 1 |-> NoTask]]
<1>1. M \in Routers /\ MonTable \in Nat
  BY Sizes
<1>2. m = [br_rcv_state |-> "BR_RCV_IDLE", br_ack_mon |-> FALSE, br_mem_addr |-> 0, br_mem_data |-> NoFlit,
           br_we |-> FALSE, mon_table |-> t]
  BY <1>1 DEF Init, DmniInit
<1>3. ReportType(m) /\ \A r \in Routers, i \in Indexes : m.mon_table[r][i] = NoTask
  <2>1. LinesType(t) /\ \A r \in Routers, i \in Indexes : t[r][i] = NoTask
    BY DEF LinesType, Indexes
  <2> HIDE DEF t, m
  <2> QED
    BY <1>2, <2>1 DEF ReportType
<1>4. /\ m.br_rcv_state = "BR_RCV_IDLE" /\ ~m.br_we
      /\ BeginsInv(m) /\ FinishesInv(m) /\ OneLineInv(m) /\ RecordedInv(m)
  <2> HIDE DEF m
  <2>1. m.br_rcv_state = "BR_RCV_IDLE" /\ m.br_we = FALSE
    BY <1>2
  <2> QED
    BY <1>3, <2>1 DEF BeginsInv, FinishesInv, OneLineInv, RecordedInv
<1>5. PhaseInv(m, arb[M])
  <2>1. arb[M] = [ARB |-> "ROUND", last_arb |-> "SEND", timer |-> 0]
    BY <1>1 DEF Init, DmniInit
  <2>2. ArbiterType(arb[M]) /\ arb[M].ARB = "ROUND"
    BY <2>1 DEF ArbiterType
  <2> HIDE DEF m
  <2> QED
    BY <1>3, <1>4, <2>2 DEF PhaseInv
<1>6. MemoryType
  <2>1. mem[M] = [a \in 0 .. RAM_SIZE - 1 |-> NoFlit]
    BY <1>1 DEF Init, DmniInit
  <2> QED
    BY <2>1 DEF MemoryType
<1>7. BufferType(q) /\ PlaceInv(q)
  <2>1. BufferType(q)
    BY <1>1, BuffersInitially DEF BuffersInv, BufferInv
  <2>2. q.noc_we = FALSE /\ q.DMNI_Receive = "WAIT"
    BY <1>1 DEF Init, DmniInit
  <2> QED
    BY <2>1, <2>2 DEF PlaceInv
<1>8. ConfigType(cfg[M])
  <2> DEFINE p == [s \in Tables |-> 0]
  <2>1. cfg[M] = [address |-> 0, address_2 |-> 0, size |-> 0, size_2 |-> 0, operation |-> 0, monitor_ptrs |-> p]
    BY <1>1 DEF Init, DmniInit
  <2>2. p \in [Tables -> {0, MonTable}]
    OBVIOUS
  <2> HIDE DEF p
  <2> QED
    BY <2>1, <2>2 DEF ConfigType
<1>9. KernelType(kernel[M]) /\ OnlyTable(kernel[M].todo)
  <2>1. kernel[M] = [todo |-> <<>>, outbox |-> <<>>, reading |-> "nothing"]
    BY <1>1 DEF Init
  <2>2. KernelType(kernel[M]) /\ kernel[M].todo = <<>>
    BY <2>1 DEF KernelType
  <2> QED
    BY <2>2, OnlyWrites
<1>10. IsPlan(plan)
  <2>1. \A r \in Routers : plan[r].pause = 0 /\ plan[r].sends = <<>> /\ plan[r].writes = <<>> /\ plan[r].reports = <<>>
    BY <1>1 DEF Init, NoPlan
  <2>2. <<>> \in Seq(Range(<<>>)) /\ Range(<<>>) = {}
    BY DEF Range
  <2>3. IsReports(plan[M].reports)
    BY <1>1, <2>1, <2>2 DEF IsReports
  <2>4. ASSUME NEW r \in Routers
        PROVE  /\ plan[r].pause \in Nat /\ plan[r].sends \in Seq(Range(plan[r].sends))
               /\ plan[r].writes \in Seq(Range(plan[r].writes))
               /\ \A w \in Range(plan[r].writes) : w.set \in {"nothing", "clear_task"}
    <3>1. plan[r].pause = 0 /\ plan[r].sends = <<>> /\ plan[r].writes = <<>>
      BY <2>1
    <3> QED
      BY <2>2, <3>1
  <2> QED
    BY <2>3, <2>4 DEF IsPlan
<1>11. reports \in [queue : {reports.queue}, req : BOOLEAN] /\ IsReports(reports.queue) /\ ~reports.req
  <2>1. reports = [queue |-> <<>>, req |-> FALSE]
    BY DEF Init
  <2>2. reports.queue = <<>> /\ reports.req = FALSE
    BY <2>1
  <2>3. <<>> \in Seq(Range(<<>>)) /\ Range(<<>>) = {}
    BY DEF Range
  <2> QED
    BY <2>1, <2>2, <2>3 DEF IsReports
<1> QED
  BY <1>4, <1>5, <1>6, <1>7, <1>8, <1>9, <1>10, <1>11 DEF TableInv, EnvironmentInv

LEMMA TableKept == TableInv /\ LeavesTable /\ [Tick]_platformVars => TableInv'
<1>1. ASSUME TableInv, UNCHANGED platformVars
      PROVE  TableInv'
  <2>1. /\ mon' = mon /\ arb' = arb /\ cfg' = cfg /\ rcv' = rcv /\ mem' = mem /\ kernel' = kernel
        /\ plan' = plan /\ reports' = reports /\ lastReport' = lastReport
    BY <1>1 DEF platformVars
  <2>2. EnvironmentInv' /\ MemoryType' /\ Reported' = Reported /\ Pointer' = Pointer
    BY <1>1, <2>1 DEF TableInv, EnvironmentInv, MemoryType, Reported, Pointer
  <2>3. PhaseInv(mon[MonitorAddress], arb[MonitorAddress])'
    BY <1>1, <2>1, <2>2 DEF TableInv, PhaseInv
  <2>4. BeginsInv(mon[MonitorAddress])' /\ OneLineInv(mon[MonitorAddress])'
    BY <1>1, <2>1, <2>2 DEF TableInv, BeginsInv, OneLineInv, Begins
  <2>5. FinishesInv(mon[MonitorAddress])' /\ RecordedInv(mon[MonitorAddress])'
    BY <1>1, <2>1 DEF TableInv, FinishesInv, RecordedInv, Begins, Finishes, Reports
  <2> QED
    BY <2>2, <2>3, <2>4, <2>5 DEF TableInv
<1>2. ASSUME TableInv, LeavesTable, Tick
      PROVE  TableInv'
  BY <1>2, EnvironmentStep, MemoryStep, PhaseStep, LinesStep, FinishesStep, RecordedStep DEF TableInv
<1> QED
  BY <1>1, <1>2

\* Lines that are as the invariant says are the reports.
LEMMA LinesShown == TableInv => TableFollowsReports
<1> SUFFICES ASSUME TableInv, mon[MonitorAddress].br_rcv_state = "BR_RCV_IDLE",
                    NEW n \in Routers, NEW i \in 0 .. TASK_PER_PE - 1,
                    mon[MonitorAddress].mon_table[n][i] # NoTask
             PROVE  LET task == mon[MonitorAddress].mon_table[n][i]
                    IN  /\ mem[MonitorAddress][LineAt(n, i)] = task
                        /\ mem[MonitorAddress][LineAt(n, i) + 1] = lastReport[<<n, task>>]
  BY DEF TableFollowsReports, LineAt
<1>1. RecordedInv(mon[MonitorAddress]) /\ i \in Indexes
  BY DEF TableInv, Indexes
<1> QED
  BY <1>1 DEF RecordedInv, Begins, Finishes, Reports, HasLast

HIDE DEF Cells

-----------------------------------------------------------------------------
(* The credit of a queue.                                                  *)

\* A queue that is not offered a flit keeps room for the next one while it has credit.
LEMMA CreditKept ==
  ASSUME HermesInv, NEW outer, NEW driven, HermesClock(outer, driven),
         NEW r \in Routers, NEW p \in Ports, ~IsLink(r, p), driven[r][p][1] \in BOOLEAN
  PROVE  CreditInv(fila'[r][p], driven[r][p][1])
<1> DEFINE q == fila[r][p]
           u == QueuesUp(r, outer)[p]
           da == upd_dataack(switch[r], q, p, CreditIn(r, outer))
           n == fila'[r][p]
           ah == p \in switch[r].ack
<1>1. u = QueueEdge(q, ah, da)
  BY DEF QueuesUp
<1>2. n = in_proc_updPtr(u, driven[r][p][1], driven[r][p][2])
  BY DEF HermesClock
<1>3. QueueInv(q)
  BY DEF HermesInv
<1>4. ah \in BOOLEAN /\ da \in BOOLEAN /\ (da => q.data_av)
  BY DEF upd_dataack
<1> HIDE DEF ah, da, u, q, n
<1>5. u.credit => ~AlmostFull(u)
  BY <1>1, <1>3, <1>4, QueueEdgeInv
<1>6. ~driven[r][p][1] => n = u
  BY <1>2 DEF in_proc_updPtr
<1>7. CreditInv(n, driven[r][p][1])
  BY <1>5, <1>6 DEF CreditInv
<1> QED
  BY <1>7 DEF n

-----------------------------------------------------------------------------
(* Flits and packets.                                                      *)

AllFit(P) == \A p \in P : Fits(p)

LEMMA FitPackets ==
  ASSUME NEW P, AllFit(P)
  PROVE  /\ ArePackets(P)
         /\ \A p \in P : p # NoPacket /\ p.size \in Nat /\ p.size + 2 >= CONSTANT_PACKET_SIZE
                         /\ p.size + 2 <= CONSTANT_PACKET_SIZE + BODY_SIZE
         /\ CONSTANT_PACKET_SIZE \in Nat /\ CONSTANT_PACKET_SIZE > 8 /\ BODY_SIZE \in Nat
BY PlatformAssumption DEF AllFit, Fits, ArePackets

\* What a part of a packet that has come is followed by.
LEMMA UptoNext ==
  ASSUME NEW P, AllFit(P), NEW p \in P, NEW n \in 0 .. p.size + 1, NEW last, Upto(last, p, n)
  PROVE  LET f == <<p, n>>
         IN  IsFlit(f, P) /\ Follows(last, f) /\ f[1] = p /\ f[2] = n /\ Upto(f, p, n + 1)
             /\ (n = p.size + 1 => Ends(f)) /\ (n # p.size + 1 => ~Ends(f))
<1>1. p # NoPacket /\ p.size \in Nat
  BY FitPackets
<1>2. n # 0 => last[1] = p /\ last[2] = n - 1 /\ last # NoFlit
  BY <1>1 DEF Upto, NoFlit
<1> QED
  BY <1>1, <1>2 DEF IsFlit, Follows, Upto, Ends, NoFlit

\* What the process of the transmission drives.
Sends(s, t, q, P) ==
  /\ t.tx \in BOOLEAN
  /\ t.tx => IsFlit(t.data_out, P) /\ Follows(LastIn(q), t.data_out)
Starting(s, c, cmd) == s.DMNI_Send = "WAIT" /\ cmd.set = "start" /\ c.operation = 0
StartsPacket(c, p) ==
  /\ c.address = OutHeader /\ c.size = CONSTANT_PACKET_SIZE
  /\ c.address_2 = OutBody /\ c.size_2 = p.size + 2 - CONSTANT_PACKET_SIZE

\* The memory has answered to the address.
Reads(s, enable, p, data2) ==
  \A i \in 0 .. p.size + 1 : enable /\ s.send_address = OutHeader + i => data2 = <<p, i>>

Loads(s, t, q, enable, p, n) ==
  /\ SendType(t) /\ t.send_active /\ t.DMNI_Send # "WAIT" /\ ~t.tx
  /\ \A q2, data2 :
       /\ LastIn(q2) = LastIn(q)
       /\ q.credit => q2.credit
       /\ Reads(s, enable, p, data2)
       => Progress(t, p, n, q2, data2)

LEMMA LoadStep ==
  ASSUME NEW P, AllFit(P), NEW p \in P, NEW n \in 0 .. p.size + 2, NEW s, SendType(s), s.send_active,
         NEW q, q.credit \in BOOLEAN, NEW data, Progress(s, p, n, q, data), s.DMNI_Send = "LOAD",
         NEW c, NEW cmd, NEW enable \in BOOLEAN
  PROVE  Loads(s, send(s, c, cmd, data, q.credit, enable), q, enable, p, n)
<1> DEFINE t == send(s, c, cmd, data, q.credit, enable)
<1> USE DEF Loads
<1>1. n \in Nat /\ p.size \in Nat /\ CONSTANT_PACKET_SIZE \in Nat /\ CONSTANT_PACKET_SIZE > 8
      /\ p.size + 2 >= CONSTANT_PACKET_SIZE
  BY FitPackets
<1>2. s.send_address = OutHeader + n /\ ~s.tx /\ OutHeader \in Nat
  BY DEF Progress, OutHeader
<1>3. CASE q.credit /\ enable
  <2>1. t = [s EXCEPT !.send_address = OutHeader + n + 1, !.DMNI_Send = "COPY_FROM_MEM"]
    BY <1>2, <1>3 DEF send
  <2> HIDE DEF t
  <2>2. /\ SendType(t) /\ t.send_active /\ t.DMNI_Send = "COPY_FROM_MEM" /\ ~t.tx
        /\ t.send_address = OutHeader + n + 1 /\ t.send_size = s.send_size /\ t.send_size_2 = s.send_size_2
        /\ t.send_address_2 = s.send_address_2
    BY <1>2, <2>1 DEF SendType
  <2>3. ASSUME NEW q2, NEW data2, LastIn(q2) = LastIn(q), q2.credit, Reads(s, enable, p, data2)
        PROVE  Progress(t, p, n, q2, data2)
    BY <1>1, <1>2, <1>3, <2>2, <2>3 DEF Progress, Reads
  <2> QED
    BY <1>3, <2>2, <2>3 DEF t
<1>4. CASE ~(q.credit /\ enable)
  <2>1. t = s
    BY <1>4 DEF send
  <2> HIDE DEF t
  <2>3. ASSUME NEW q2, NEW data2, LastIn(q2) = LastIn(q)
        PROVE  Progress(t, p, n, q2, data2)
    BY <2>1, <2>3 DEF Progress
  <2> QED
    BY <1>2, <2>1, <2>3 DEF t
<1> QED
  BY <1>3, <1>4

Copies(s, t, q, enable, p, P) ==
  /\ SendType(t) /\ t.send_active /\ t.DMNI_Send # "WAIT" /\ Sends(s, t, q, P)
  /\ \A q2, data2 :
       /\ LastIn(q2) = IF t.tx /\ q2.credit THEN t.data_out ELSE LastIn(q)
       /\ q2.credit \in BOOLEAN
       /\ Reads(s, enable, p, data2)
       => \E k \in 0 .. p.size + 2 : Progress(t, p, k, q2, data2)

LEMMA CopyStep ==
  ASSUME NEW P, AllFit(P), NEW p \in P, NEW n \in 0 .. p.size + 2, NEW s, SendType(s), s.send_active,
         NEW q, q.credit \in BOOLEAN, NEW data, Progress(s, p, n, q, data), s.DMNI_Send = "COPY_FROM_MEM",
         NEW c, NEW cmd, NEW enable \in BOOLEAN
  PROVE  Copies(s, send(s, c, cmd, data, q.credit, enable), q, enable, p, P)
<1> DEFINE t == send(s, c, cmd, data, q.credit, enable)
<1> USE DEF Copies
<1>1. n \in Nat /\ p.size \in Nat /\ CONSTANT_PACKET_SIZE \in Nat /\ CONSTANT_PACKET_SIZE > 8
      /\ p.size + 2 >= CONSTANT_PACKET_SIZE
  BY FitPackets
<1>2. s.send_address = OutHeader + n + 1 /\ OutHeader \in Nat /\ OutBody = OutHeader + CONSTANT_PACKET_SIZE
  BY DEF Progress, OutHeader, OutBody
<1>3. /\ s.send_size \in Nat /\ s.send_size_2 \in Nat
      /\ s.send_size = (IF s.send_size_2 # 0 THEN CONSTANT_PACKET_SIZE - n ELSE p.size + 2 - n)
      /\ s.send_size_2 # 0 => /\ s.send_size_2 = p.size + 2 - CONSTANT_PACKET_SIZE /\ s.send_address_2 = OutBody
                               /\ n <= CONSTANT_PACKET_SIZE
  BY <1>1 DEF Progress
<1>4. /\ s.send_size # 0 => data = <<p, n>>
      /\ q.credit => Upto(LastIn(q), p, n)
      /\ ~q.credit => s.tx /\ n # 0 /\ Upto(LastIn(q), p, n - 1)
  BY DEF Progress
<1>5. CASE q.credit /\ enable /\ s.send_size > 0
  <2>1. t = [s EXCEPT !.tx = TRUE, !.data_out = data, !.send_address = s.send_address + 1,
                      !.send_size = s.send_size - 1]
    BY <1>5 DEF send, NextWord
  <2> HIDE DEF t
  <2>a. /\ SendType(t) /\ t.send_active = s.send_active /\ t.DMNI_Send = s.DMNI_Send /\ t.tx = TRUE /\ t.data_out = data
        /\ t.send_address = s.send_address + 1 /\ t.send_size = s.send_size - 1 /\ t.send_size_2 = s.send_size_2
        /\ t.send_address_2 = s.send_address_2
    BY <2>1 DEF SendType
  <2>2. /\ SendType(t) /\ t.send_active /\ t.DMNI_Send = "COPY_FROM_MEM" /\ t.tx /\ t.data_out = <<p, n>>
        /\ t.send_address = OutHeader + (n + 1) + 1 /\ t.send_size = s.send_size - 1 /\ t.send_size_2 = s.send_size_2
        /\ t.send_address_2 = s.send_address_2
    BY <1>1, <1>2, <1>3, <1>4, <1>5, <2>a
  <2>3. n \in 0 .. p.size + 1
    BY <1>1, <1>3, <1>5
  <2>4. IsFlit(<<p, n>>, P) /\ Follows(LastIn(q), <<p, n>>) /\ Upto(<<p, n>>, p, n + 1)
    BY <1>4, <1>5, <2>3, UptoNext
  <2>5. Sends(s, t, q, P)
    BY <2>2, <2>4 DEF Sends
  <2>6. ASSUME NEW q2, NEW data2, LastIn(q2) = IF q2.credit THEN <<p, n>> ELSE LastIn(q), q2.credit \in BOOLEAN,
               Reads(s, enable, p, data2)
        PROVE  Progress(t, p, n + 1, q2, data2)
    <3>1. t.send_size # 0 => data2 = <<p, n + 1>>
      BY <1>1, <1>2, <1>3, <1>5, <2>2, <2>3, <2>6 DEF Reads
    <3>2. Upto(LastIn(q2), p, IF q2.credit THEN n + 1 ELSE n + 1 - 1)
      BY <1>1, <1>4, <1>5, <2>4, <2>6
    <3>3. /\ n + 1 \in 0 .. p.size + 2 /\ n + 1 \in Nat /\ n + 1 # 0 /\ n + 1 - 1 = n
          /\ t.send_size_2 # 0 => /\ n + 1 <= CONSTANT_PACKET_SIZE /\ t.send_size = CONSTANT_PACKET_SIZE - (n + 1)
                                 /\ t.send_size_2 = p.size + 2 - CONSTANT_PACKET_SIZE /\ t.send_address_2 = OutBody
          /\ t.send_size_2 = 0 => t.send_size = p.size + 2 - (n + 1)
      BY <1>1, <1>3, <1>5, <2>2, <2>3
    <3>4. t.DMNI_Send = "COPY_FROM_MEM" /\ t.send_address = OutHeader + (n + 1) + 1 /\ t.tx /\ t.data_out = <<p, n + 1 - 1>>
      BY <2>2, <3>3
    <3> QED
      BY <3>1, <3>2, <3>3, <3>4 DEF Progress
  <2> QED
    BY <1>1, <2>2, <2>3, <2>5, <2>6 DEF t
<1>6. CASE q.credit /\ enable /\ s.send_size = 0 /\ s.send_size_2 > 0
  <2>1. t = [s EXCEPT !.tx = FALSE, !.send_size = s.send_size_2, !.send_size_2 = 0,
                      !.send_address = s.send_address_2, !.DMNI_Send = "LOAD"]
    BY <1>6 DEF send, NextWord
  <2> HIDE DEF t
  <2>a. /\ SendType(t) /\ t.send_active = s.send_active /\ t.DMNI_Send = "LOAD" /\ t.tx = FALSE
        /\ t.send_address = s.send_address_2 /\ t.send_size = s.send_size_2 /\ t.send_size_2 = 0
    BY <2>1 DEF SendType
  <2>2. /\ SendType(t) /\ t.send_active /\ t.DMNI_Send = "LOAD" /\ ~t.tx /\ n = CONSTANT_PACKET_SIZE
        /\ t.send_address = OutHeader + n /\ t.send_size = p.size + 2 - n /\ t.send_size_2 = 0
    BY <1>1, <1>2, <1>3, <1>6, <2>a
  <2>3. Sends(s, t, q, P)
    BY <2>2 DEF Sends, SendType
  <2>4. ASSUME NEW q2, NEW data2, LastIn(q2) = LastIn(q) PROVE Progress(t, p, n, q2, data2)
    BY <1>1, <1>4, <1>6, <2>2, <2>4 DEF Progress
  <2> QED
    BY <2>2, <2>3, <2>4 DEF t
<1>7. CASE q.credit /\ enable /\ s.send_size = 0 /\ s.send_size_2 = 0
  <2>1. t = [s EXCEPT !.tx = FALSE, !.DMNI_Send = "END"]
    BY <1>7 DEF send, NextWord
  <2> HIDE DEF t
  <2>a. /\ SendType(t) /\ t.send_active = s.send_active /\ t.DMNI_Send = "END" /\ t.tx = FALSE
        /\ t.send_size = s.send_size /\ t.send_size_2 = s.send_size_2
    BY <2>1 DEF SendType
  <2>2. /\ SendType(t) /\ t.send_active /\ t.DMNI_Send = "END" /\ ~t.tx /\ n = p.size + 2
        /\ t.send_size = 0 /\ t.send_size_2 = 0
    BY <1>1, <1>3, <1>7, <2>a
  <2>3. Sends(s, t, q, P)
    BY <2>2 DEF Sends, SendType
  <2>4. Ends(LastIn(q))
    BY <1>1, <1>4, <1>7, <2>2 DEF Upto, Ends
  <2>5. ASSUME NEW q2, NEW data2, LastIn(q2) = LastIn(q) PROVE Progress(t, p, n, q2, data2)
    BY <1>1, <2>2, <2>4, <2>5 DEF Progress
  <2> QED
    BY <2>2, <2>3, <2>5 DEF t
<1>8. CASE q.credit /\ ~enable
  <2>1. t = [s EXCEPT !.tx = FALSE, !.DMNI_Send = "LOAD", !.send_address = s.send_address - 1]
    BY <1>8 DEF send, GoBack
  <2> HIDE DEF t
  <2>a. /\ SendType(t) /\ t.send_active = s.send_active /\ t.DMNI_Send = "LOAD" /\ t.tx = FALSE
        /\ t.send_address = s.send_address - 1 /\ t.send_size = s.send_size /\ t.send_size_2 = s.send_size_2
        /\ t.send_address_2 = s.send_address_2
    BY <2>1 DEF SendType
  <2>2. /\ SendType(t) /\ t.send_active /\ t.DMNI_Send = "LOAD" /\ ~t.tx
        /\ t.send_address = OutHeader + n /\ t.send_size = s.send_size /\ t.send_size_2 = s.send_size_2
        /\ t.send_address_2 = s.send_address_2
    BY <1>1, <1>2, <2>a
  <2>3. Sends(s, t, q, P)
    BY <2>2 DEF Sends, SendType
  <2>4. ASSUME NEW q2, NEW data2, LastIn(q2) = LastIn(q) PROVE Progress(t, p, n, q2, data2)
    BY <1>3, <1>4, <1>8, <2>2, <2>4 DEF Progress
  <2> QED
    BY <2>2, <2>3, <2>4 DEF t
<1>9. CASE ~q.credit
  <2>1. t = [s EXCEPT !.tx = FALSE, !.DMNI_Send = "LOAD", !.send_address = s.send_address - 2,
                      !.send_size = s.send_size + 1]
    BY <1>9 DEF send, GoBack
  <2> HIDE DEF t
  <2>a. /\ SendType(t) /\ t.send_active = s.send_active /\ t.DMNI_Send = "LOAD" /\ t.tx = FALSE
        /\ t.send_address = s.send_address - 2 /\ t.send_size = s.send_size + 1 /\ t.send_size_2 = s.send_size_2
        /\ t.send_address_2 = s.send_address_2
    BY <2>1 DEF SendType
  <2>2. /\ SendType(t) /\ t.send_active /\ t.DMNI_Send = "LOAD" /\ ~t.tx
        /\ t.send_address = OutHeader + (n - 1) /\ t.send_size = s.send_size + 1 /\ t.send_size_2 = s.send_size_2
        /\ t.send_address_2 = s.send_address_2
    BY <1>1, <1>2, <2>a
  <2>3. Sends(s, t, q, P)
    BY <2>2 DEF Sends, SendType
  <2>4. ASSUME NEW q2, NEW data2, LastIn(q2) = LastIn(q) PROVE Progress(t, p, n - 1, q2, data2)
    BY <1>1, <1>3, <1>4, <1>9, <2>2, <2>4 DEF Progress
  <2> QED
    BY <1>1, <1>4, <1>9, <2>2, <2>3, <2>4 DEF t
<1> QED
  BY <1>3, <1>5, <1>6, <1>7, <1>8, <1>9
\* The memory keeps the packets that are being sent, and answers.
MemoryServes(s, m, m2, enable, data2, P) ==
  /\ \A p \in P : InMemory(m, p) => InMemory(m2, p)
  /\ enable /\ InRam(s.send_address) => data2 = m[s.send_address]
Accepts(q, q2, t) ==
  /\ q2.credit = in_proc_FSM(q)
  /\ LastIn(q2) = IF t.tx /\ in_proc_FSM(q) THEN t.data_out ELSE LastIn(q)

SendsOn(s, t, q, m, c, cmd, enable, P) ==
  \A q2, m2, data2 :
    /\ Accepts(q, q2, t)
    /\ s.DMNI_Send # "WAIT" \/ Starting(s, c, cmd) => MemoryServes(s, m, m2, enable, data2, P)
    => SendInv(t, q2, m2, data2, P)

LEMMA SendStep ==
  ASSUME NEW P, AllFit(P), NEW s, NEW q, q.credit \in BOOLEAN, CreditInv(q, s.tx), NEW m, NEW data,
         SendInv(s, q, m, data, P), NEW c, NEW cmd, NEW enable \in BOOLEAN,
         Starting(s, c, cmd) => \E p \in P : InMemory(m, p) /\ StartsPacket(c, p)
  PROVE  LET t == send(s, c, cmd, data, q.credit, enable)
         IN  /\ Sends(s, t, q, P)
             /\ (t.DMNI_Send = "WAIT" <=> (s.DMNI_Send = "WAIT" /\ ~Starting(s, c, cmd)) \/ s.DMNI_Send = "END")
             /\ SendsOn(s, t, q, m, c, cmd, enable, P)
<1> USE DEF SendsOn
<1> DEFINE t == send(s, c, cmd, data, q.credit, enable)
<1>1. /\ SendType(s) /\ s.send_active = (s.DMNI_Send # "WAIT")
      /\ s.DMNI_Send = "WAIT" => ~s.tx /\ Ends(LastIn(q))
  BY DEF SendInv, SendType
<1>a. s.DMNI_Send # "WAIT" => s.send_active
  BY <1>1
<1>2. /\ in_proc_FSM(q) \in BOOLEAN
      /\ ~s.tx /\ q.credit => in_proc_FSM(q)
  BY DEF in_proc_FSM, CreditInv
<1>3. CASE s.DMNI_Send = "WAIT" /\ ~Starting(s, c, cmd)
  <2>1. t = s
    BY <1>3 DEF send, Starting
  <2> HIDE DEF t
  <2>2. ASSUME NEW q2, NEW m2, NEW data2, Accepts(q, q2, t) PROVE SendInv(t, q2, m2, data2, P)
    BY <1>1, <1>3, <2>1, <2>2 DEF SendInv, Accepts
  <2>3. Sends(s, t, q, P) /\ t.DMNI_Send = "WAIT"
    BY <1>1, <1>3, <2>1 DEF Sends, SendType
  <2> QED
    BY <1>3, <2>2, <2>3 DEF t
<1>4. CASE Starting(s, c, cmd)
  <2>1. t = StartSend(s, c) /\ s.DMNI_Send = "WAIT"
    BY <1>4 DEF send, Starting
  <2> HIDE DEF t
  <2>2. /\ SendType(t) /\ t.DMNI_Send = "LOAD" /\ t.send_active = TRUE /\ t.tx = s.tx
        /\ t.send_address = c.address /\ t.send_address_2 = c.address_2
        /\ t.send_size = c.size /\ t.send_size_2 = c.size_2
    BY <1>1, <2>1 DEF SendType, StartSend
  <2>3. PICK p \in P : InMemory(m, p) /\ StartsPacket(c, p)
    BY <1>4
  <2>4. p.size \in Nat /\ CONSTANT_PACKET_SIZE \in Nat /\ p.size + 2 >= CONSTANT_PACKET_SIZE
    BY FitPackets
  <2>5. ASSUME NEW q2, NEW data2, Accepts(q, q2, t) PROVE Progress(t, p, 0, q2, data2)
    <3>1. Upto(LastIn(q2), p, 0)
      BY <1>1, <2>1, <2>2, <2>5 DEF Accepts, Upto
    <3> QED
      BY <1>1, <2>1, <2>2, <2>3, <2>4, <3>1 DEF Progress, StartsPacket, OutHeader, OutBody
  <2>6. ASSUME NEW q2, NEW m2, NEW data2, Accepts(q, q2, t), MemoryServes(s, m, m2, enable, data2, P)
        PROVE  SendInv(t, q2, m2, data2, P)
    <3>1. InMemory(m2, p) /\ Progress(t, p, 0, q2, data2) /\ 0 \in 0 .. p.size + 2
      BY <2>3, <2>4, <2>5, <2>6 DEF MemoryServes
    <3> QED
      BY <2>2, <3>1 DEF SendInv
  <2>7. Sends(s, t, q, P) /\ t.DMNI_Send # "WAIT" /\ s.DMNI_Send # "END"
    BY <1>1, <2>1, <2>2 DEF Sends, SendType
  <2> QED
    BY <1>4, <2>6, <2>7 DEF t
<1>5. CASE s.DMNI_Send = "END"
  <2>1. t = EndSend(s)
    BY <1>5 DEF send
  <2> HIDE DEF t
  <2>2. SendType(t) /\ t.DMNI_Send = "WAIT" /\ t.send_active = FALSE /\ t.tx = s.tx
    BY <1>1, <2>1 DEF SendType, EndSend
  <2>3. ~s.tx /\ Ends(LastIn(q))
    BY <1>5 DEF SendInv, Progress
  <2>4. ASSUME NEW q2, NEW m2, NEW data2, Accepts(q, q2, t) PROVE SendInv(t, q2, m2, data2, P)
    BY <2>2, <2>3, <2>4 DEF SendInv, Accepts
  <2>5. Sends(s, t, q, P) /\ t.DMNI_Send = "WAIT"
    BY <1>1, <2>2, <2>3 DEF Sends, SendType
  <2> QED
    BY <1>5, <2>4, <2>5 DEF t
<1>6. ASSUME s.DMNI_Send \in {"LOAD", "COPY_FROM_MEM"}
      PROVE  \E p \in P : InMemory(m, p) /\ \E n \in 0 .. p.size + 2 : Progress(s, p, n, q, data)
  BY <1>6 DEF SendInv
<1>7. ASSUME NEW p \in P, NEW m2, NEW data2, MemoryServes(s, m, m2, enable, data2, P), InMemory(m, p)
      PROVE  InMemory(m2, p) /\ Reads(s, enable, p, data2)
  <2>1. /\ p.size \in Nat /\ CONSTANT_PACKET_SIZE \in Nat /\ BODY_SIZE \in Nat
        /\ p.size + 2 <= CONSTANT_PACKET_SIZE + BODY_SIZE
    BY FitPackets
  <2>2. OutHeader = 1 /\ MonTable \in Nat /\ MonTable >= OutHeader + p.size + 2 /\ RAM_SIZE \in Int /\ RAM_SIZE >= MonTable
    <3>1. XCnt * YCnt \in Nat /\ TASK_PER_PE \in Nat
      BY MeshAssumption, PlatformAssumption
    <3>2. XCnt * YCnt * TASK_PER_PE \in Nat
      BY <3>1, SMT
    <3> HIDE DEF InRam
    <3> QED
      BY <2>1, <3>2 DEF MonTable, RAM_SIZE, OutHeader, OutBody, InHeader, InBody
  <2>3. \A i \in 0 .. p.size + 1 : InRam(OutHeader + i)
    BY <2>1, <2>2 DEF InRam
  <2> QED
    BY <1>7, <2>3 DEF MemoryServes, InMemory, Reads
<1> USE DEF Loads, Copies
<1>8. CASE s.DMNI_Send = "LOAD"
  <2>1. PICK p \in P : InMemory(m, p) /\ \E n \in 0 .. p.size + 2 : Progress(s, p, n, q, data)
    BY <1>6, <1>8
  <2>2. PICK n \in 0 .. p.size + 2 : Progress(s, p, n, q, data)
    BY <2>1
  <2>3. ~s.tx
    BY <1>8, <2>2 DEF Progress
  <2>4. Loads(s, t, q, enable, p, n)
    <3> HIDE DEF Loads
    <3>1. SendType(s) /\ s.send_active
      BY <1>1, <1>a, <1>8
    <3> QED
      BY <3>1, <1>8, <2>2, LoadStep, SMTT(30)
  <2> HIDE DEF t
  <2>5. ASSUME NEW q2, NEW m2, NEW data2, Accepts(q, q2, t), MemoryServes(s, m, m2, enable, data2, P)
        PROVE  SendInv(t, q2, m2, data2, P)
    <3>1. InMemory(m2, p) /\ Reads(s, enable, p, data2)
      BY <1>7, <2>1, <2>5
    <3>2. LastIn(q2) = LastIn(q) /\ (q.credit => q2.credit)
      BY <1>2, <2>3, <2>4, <2>5 DEF Accepts
    <3>3. Progress(t, p, n, q2, data2)
      BY <2>4, <3>1, <3>2
    <3> QED
      BY <2>4, <3>1, <3>3 DEF SendInv
  <2>6. Sends(s, t, q, P)
    BY <2>4 DEF Sends, SendType
  <2> QED
    BY <1>8, <2>4, <2>5, <2>6 DEF t
<1>9. CASE s.DMNI_Send = "COPY_FROM_MEM"
  <2>1. PICK p \in P : InMemory(m, p) /\ \E n \in 0 .. p.size + 2 : Progress(s, p, n, q, data)
    BY <1>6, <1>9
  <2>2. PICK n \in 0 .. p.size + 2 : Progress(s, p, n, q, data)
    BY <2>1
  <2>3. Copies(s, t, q, enable, p, P)
    <3> HIDE DEF Copies
    <3> QED
      BY <1>1, <1>a, <1>9, <2>2, CopyStep
  <2> HIDE DEF t
  <2>4. ASSUME NEW q2, NEW m2, NEW data2, Accepts(q, q2, t), MemoryServes(s, m, m2, enable, data2, P)
        PROVE  SendInv(t, q2, m2, data2, P)
    <3>1. InMemory(m2, p) /\ Reads(s, enable, p, data2)
      BY <1>7, <2>1, <2>4
    <3>2. LastIn(q2) = (IF t.tx /\ q2.credit THEN t.data_out ELSE LastIn(q)) /\ q2.credit \in BOOLEAN
      BY <1>2, <2>4 DEF Accepts
    <3>3. \E k \in 0 .. p.size + 2 : Progress(t, p, k, q2, data2)
      BY <2>3, <3>1, <3>2
    <3> QED
      BY <2>3, <3>1, <3>3 DEF SendInv
  <2> QED
    BY <1>9, <2>3, <2>4 DEF t
<1>10. s.DMNI_Send \in {"WAIT", "LOAD", "COPY_FROM_MEM", "END"}
  BY <1>1 DEF SendType
<1> QED
  BY <1>3, <1>4, <1>5, <1>8, <1>9, <1>10

-----------------------------------------------------------------------------
(* Reception.                                                              *)

\* What is on the side of the memory.
SameReception(q, t) ==
  /\ t.DMNI_Receive = q.DMNI_Receive /\ t.recv_address = q.recv_address /\ t.recv_size = q.recv_size
  /\ t.receive_active = q.receive_active /\ t.noc_data_write = q.noc_data_write /\ t.noc_we = q.noc_we
\* What is on the side of the network, with the word that has left last.
SameWords(t, u) ==
  /\ u.buffer = t.buffer /\ u.is_header = t.is_header /\ u.SR = t.SR /\ u.payload_size = t.payload_size
  /\ u.first = t.first /\ u.last = t.last /\ u.add_buffer = t.add_buffer
  /\ u.noc_data_write = t.noc_data_write

Added(q, t, word) ==
  /\ Came(q, t) /\ t.buffer = [q.buffer EXCEPT ![q.last] = word]
  /\ q.SR = "PAYLOAD" => t.SR = "DATA" /\ t.payload_size = AsCount(word) - 1
  /\ q.SR = "DATA" /\ q.payload_size = 0 => t.SR = "HEADER"
  /\ q.SR = "DATA" /\ q.payload_size # 0 => t.SR = "DATA" /\ t.payload_size = q.payload_size - 1

LEMMA WordsComeFields ==
  ASSUME NEW q, BufferType(q), NEW rx, NEW word
  PROVE  LET t == FromNoc(q, rx, word)
         IN  /\ ~(rx /\ slot_available(q)) => t = q
             /\ rx /\ slot_available(q) => Added(q, t, word)
             /\ SameReception(q, t)
<1> DEFINE p == Put(q, word)
           t == FromNoc(q, rx, word)
           c == (q.intr_count + 1) % 16
           b == [q.buffer EXCEPT ![q.last] = word]
           m == AsCount(word) - 1
           d == q.payload_size - 1
<1>1. CASE ~(rx /\ slot_available(q))
  BY <1>1 DEF FromNoc, SameReception
<1>2. CASE rx /\ slot_available(q)
  <2>1. Came(q, t)
    BY <1>2, FromNocFields
  <2>2. \/ q.SR = "HEADER" /\ t = [p EXCEPT !.SR = "PAYLOAD", !.intr_count = c]
        \/ q.SR = "PAYLOAD" /\ t = [p EXCEPT !.SR = "DATA", !.payload_size = m]
        \/ q.SR = "DATA" /\ q.payload_size = 0 /\ t = [p EXCEPT !.SR = "HEADER"]
        \/ q.SR = "DATA" /\ q.payload_size # 0 /\ t = [p EXCEPT !.payload_size = d]
    BY <1>2 DEF FromNoc, BufferType
  <2>3. /\ BufferType(p) /\ p.last = NextCell(q.last) /\ SameReception(q, p) /\ p.add_buffer /\ p.first = q.first
        /\ p.is_header = [q.is_header EXCEPT ![q.last] = (q.SR = "HEADER")]
        /\ p.SR = q.SR /\ p.intr_count = q.intr_count
    BY PutFields DEF SameReception
  <2>4. p.buffer = b
    <3> DEFINE h == [q.is_header EXCEPT ![q.last] = (q.SR = "HEADER")]
               n == NextCell(q.last)
    <3>1. p = [q EXCEPT !.buffer = b, !.is_header = h, !.add_buffer = TRUE, !.last = n]
      BY DEF Put, BufferType, NextCell
    <3> HIDE DEF b, h, n, p
    <3> QED
      BY <3>1 DEF BufferType
  <2> HIDE DEF p, t, c, m, d, b
  <2>5. /\ t.buffer = p.buffer /\ SameReception(p, t)
        /\ t.first = p.first /\ t.last = p.last /\ t.add_buffer = p.add_buffer /\ t.is_header = p.is_header
        /\ q.SR = "HEADER" => t.SR = "PAYLOAD" /\ t.intr_count = c
        /\ q.SR = "PAYLOAD" => t.SR = "DATA" /\ t.payload_size = m
        /\ q.SR = "DATA" /\ q.payload_size = 0 => t.SR = "HEADER"
        /\ q.SR = "DATA" /\ q.payload_size # 0 => t.SR = "DATA" /\ t.payload_size = d
        /\ q.SR # "HEADER" => t.intr_count = p.intr_count
    <3>1. CASE q.SR = "HEADER" /\ t = [p EXCEPT !.SR = "PAYLOAD", !.intr_count = c]
      BY <2>3, <3>1 DEF BufferType, SameReception
    <3>2. CASE q.SR = "PAYLOAD" /\ t = [p EXCEPT !.SR = "DATA", !.payload_size = m]
      BY <2>3, <3>2 DEF BufferType, SameReception
    <3>3. CASE q.SR = "DATA" /\ q.payload_size = 0 /\ t = [p EXCEPT !.SR = "HEADER"]
      BY <2>3, <3>3 DEF BufferType, SameReception
    <3>4. CASE q.SR = "DATA" /\ q.payload_size # 0 /\ t = [p EXCEPT !.payload_size = d]
      BY <2>3, <3>4 DEF BufferType, SameReception
    <3> QED
      BY <2>2, <3>1, <3>2, <3>3, <3>4
  <2>6. SameReception(q, t)
    BY <2>3, <2>5 DEF SameReception
  <2> QED
    BY <1>2, <2>1, <2>4, <2>5, <2>6 DEF m, d, b, t, Added
<1> QED
  BY <1>1, <1>2

-----------------------------------------------------------------------------
(* The words of a packet in the buffer.                                    *)

USE DEF Cells

LEMMA PrevCellIs ==
  ASSUME NEW k \in Cells
  PROVE  /\ PrevCell(k) \in Cells /\ NextCell(PrevCell(k)) = k /\ PrevCell(NextCell(k)) = k
         /\ \A j \in Cells : PrevCell(j) = PrevCell(k) => j = k
<1> DEFINE B == BUFFER_SIZE
<1>1. B \in Nat /\ 0 < B
  BY BufferSize
<1>2. \A j \in Cells : PrevCell(j) \in Cells /\ PrevCell(j) = (IF j = 0 THEN B - 1 ELSE j - 1)
  BY <1>1 DEF PrevCell
<1>3. \A j \in Cells : NextCell(j) \in Cells /\ NextCell(j) = (IF j = B - 1 THEN 0 ELSE j + 1)
  BY NextCellIs
<1> HIDE DEF B
<1> QED
  BY <1>1, <1>2, <1>3 DEF B

\* The neighbours of the places that hold a word.
LEMMA HoldsAround ==
  ASSUME NEW q, BufferType(q), NEW k \in Cells, Holds(q, k)
  PROVE  /\ k # q.first => Holds(q, PrevCell(k)) /\ (q.first # q.last => PrevCell(k) # q.last)
         /\ NextCell(k) # q.last => Holds(q, NextCell(k)) /\ NextCell(k) # q.first
         /\ NextCell(k) = q.last => k = PrevCell(q.last)
         /\ k = q.last => q.first = q.last
<1> DEFINE B == BUFFER_SIZE
<1>1. B \in Nat /\ 0 < B /\ q.first \in Cells /\ q.last \in Cells /\ q.add_buffer \in BOOLEAN
  BY BufferSize DEF BufferType
<1>2. \A j \in Cells : PrevCell(j) \in Cells /\ PrevCell(j) = (IF j = 0 THEN B - 1 ELSE j - 1)
  BY <1>1 DEF PrevCell
<1>3. \A j \in Cells : NextCell(j) \in Cells /\ NextCell(j) = (IF j = B - 1 THEN 0 ELSE j + 1)
  BY NextCellIs
<1> DEFINE p == PrevCell(k)
           n == NextCell(k)
           o == PrevCell(q.last)
           f == q.first
           l == q.last
<1>4. /\ B \in Nat /\ 0 < B /\ k \in 0 .. B - 1 /\ f \in 0 .. B - 1 /\ l \in 0 .. B - 1
      /\ p \in Cells /\ n \in Cells
      /\ p = (IF k = 0 THEN B - 1 ELSE k - 1) /\ n = (IF k = B - 1 THEN 0 ELSE k + 1)
      /\ o = (IF l = 0 THEN B - 1 ELSE l - 1)
  BY <1>1, <1>2, <1>3
<1>5. /\ Holds(q, k) <=> IF f < l THEN f <= k /\ k < l ELSE IF f > l THEN f <= k \/ k < l ELSE q.add_buffer
      /\ Holds(q, p) <=> IF f < l THEN f <= p /\ p < l ELSE IF f > l THEN f <= p \/ p < l ELSE q.add_buffer
      /\ Holds(q, n) <=> IF f < l THEN f <= n /\ n < l ELSE IF f > l THEN f <= n \/ n < l ELSE q.add_buffer
  BY <1>4 DEF Holds
<1> HIDE DEF B, p, n, o, f, l
<1>6. k # f => Holds(q, p) /\ (f # l => p # l)
  BY <1>4, <1>5
<1>7. n # l => Holds(q, n) /\ n # f
  BY <1>4, <1>5
<1>8. (n = l => k = o) /\ (k = l => f = l)
  BY <1>4, <1>5
<1> QED
  BY <1>6, <1>7, <1>8 DEF p, n, o, f, l

\* How much of a packet has come by its last word.
LEMMA FollowsIs ==
  ASSUME NEW P, AllFit(P), NEW f, f = NoFlit \/ IsFlit(f, P), NEW g, IsFlit(g, P), Follows(f, g)
  PROVE  /\ g[1].size \in Nat /\ g[1].size >= 7 /\ g[2] \in Nat /\ g[2] <= g[1].size + 1
         /\ Ends(g) <=> g[2] = g[1].size + 1
         /\ Ends(f) <=> g[2] = 0
         /\ ~Ends(f) => g[1] = f[1] /\ g[2] = f[2] + 1 /\ f[2] \in Nat
<1>1. g[1] \in P /\ g[2] \in Nat /\ g[2] <= g[1].size + 1 /\ g # NoFlit /\ (Ends(g) <=> g[2] = g[1].size + 1)
  <2>1. ArePackets(P)
    BY FitPackets
  <2>2. g = <<g[1], g[2]>> /\ g[1] \in P /\ g[2] \in Nat /\ g[2] <= g[1].size + 1 /\ (Ends(g) <=> g[2] = g[1].size + 1)
    BY <2>1, FlitIs
  <2>3. g[1] # NoPacket
    BY <2>2, FitPackets
  <2> QED
    BY <2>2, <2>3 DEF NoFlit
<1>2. g[1].size \in Nat /\ g[1].size >= 7
  BY <1>1, FitPackets
<1>3. ~Ends(f) => IsFlit(f, P) /\ g = <<f[1], f[2] + 1>>
  BY DEF Ends, Follows
<1>4. ~Ends(f) => f[2] \in Nat
  BY <1>3, FitPackets, FlitIs
<1>5. ~Ends(f) => g[1] = f[1] /\ g[2] = f[2] + 1
  BY <1>3
<1>6. Ends(f) => g[2] = 0
  BY DEF Follows
<1> QED
  BY <1>1, <1>2, <1>4, <1>5, <1>6

LEMMA WordsCome ==
  ASSUME NEW P, AllFit(P), NEW q, BufferType(q), WordsFlow(q, P), NEW rx, NEW word,
         rx => IsFlit(word, P) /\ Follows(LastPut(q), word)
  PROVE  LET t == FromNoc(q, rx, word)
         IN  /\ BufferType(t) /\ WordsFlow(t, P) /\ SameReception(q, t)
             /\ LastPut(t) = IF rx /\ slot_available(q) THEN word ELSE LastPut(q)
             /\ t.first = q.first
             /\ read_av(q) => read_av(t) /\ t.buffer[t.first] = q.buffer[q.first]
<1> DEFINE t == FromNoc(q, rx, word)
<1>1. SameReception(q, t)
  BY WordsComeFields
<1>2. CASE ~(rx /\ slot_available(q))
  <2>1. t = q
    BY <1>2, WordsComeFields
  <2> HIDE DEF t
  <2> QED
    BY <1>1, <1>2, <2>1 DEF t
<1>3. CASE rx /\ slot_available(q)
  <2> DEFINE l == q.last
             o == LastPut(q)
  <2>1. Added(q, t, word) /\ SameReception(q, t)
    BY <1>3, WordsComeFields
  <2> HIDE DEF t
  <2>a. Came(q, t) /\ SameReception(q, t) /\ t.buffer = [q.buffer EXCEPT ![l] = word]
    BY <2>1 DEF Added
  <2>2. /\ BufferType(t) /\ t.first = q.first /\ t.last = NextCell(l) /\ t.add_buffer = TRUE
        /\ l \in Cells /\ q.first \in Cells /\ q.add_buffer \in BOOLEAN /\ (q.first = l => ~q.add_buffer)
        /\ t.is_header = [q.is_header EXCEPT ![l] = (q.SR = "HEADER")] /\ q.is_header \in [Cells -> BOOLEAN]
        /\ DOMAIN q.buffer = Cells /\ t.buffer = [q.buffer EXCEPT ![l] = word]
        /\ t.noc_data_write = q.noc_data_write
    <3>1. BufferType(t) /\ t.first = q.first /\ t.last = NextCell(l) /\ t.add_buffer
      BY <2>a DEF Came
    <3>2. t.add_buffer = TRUE
      BY <3>1
    <3>3. l \in Cells /\ q.first \in Cells /\ q.add_buffer \in BOOLEAN /\ q.is_header \in [Cells -> BOOLEAN]
      BY DEF BufferType
    <3>4. (q.first = l => ~q.add_buffer) /\ DOMAIN q.buffer = Cells
      BY <1>3 DEF slot_available, WordsFlow
    <3>5. t.is_header = [q.is_header EXCEPT ![l] = (q.SR = "HEADER")]
      BY <2>a DEF Came
    <3> QED
      BY <2>a, <3>1, <3>2, <3>3, <3>4, <3>5 DEF SameReception
  <2>3. /\ DOMAIN t.buffer = Cells /\ t.buffer[l] = word /\ t.is_header[l] = (q.SR = "HEADER")
        /\ \A k \in Cells : k # l => t.buffer[k] = q.buffer[k] /\ t.is_header[k] = q.is_header[k]
    <3>1. DOMAIN t.buffer = Cells /\ t.buffer[l] = word /\ \A k \in Cells : k # l => t.buffer[k] = q.buffer[k]
      BY <2>2
    <3> DEFINE h == q.SR = "HEADER"
    <3>2. t.is_header[l] = h /\ \A k \in Cells : k # l => t.is_header[k] = q.is_header[k]
      <4>1. t.is_header = [q.is_header EXCEPT ![l] = h] /\ q.is_header \in [Cells -> BOOLEAN] /\ l \in Cells
        BY <2>2
      <4> HIDE DEF h
      <4> QED
        BY <4>1
    <3> QED
      BY <3>1, <3>2
  <2>b. /\ q.SR = "HEADER" => t.SR = "PAYLOAD"
        /\ q.SR = "PAYLOAD" => t.SR = "DATA" /\ t.payload_size = AsCount(word) - 1
        /\ q.SR = "DATA" /\ q.payload_size = 0 => t.SR = "HEADER"
        /\ q.SR = "DATA" /\ q.payload_size # 0 => t.SR = "DATA" /\ t.payload_size = q.payload_size - 1
    BY <2>1 DEF Came, Added
  <2>4. LastPut(t) = word
    BY <2>2, <2>3, PrevCellIs DEF LastPut
  <2>5. IsFlit(word, P) /\ Follows(o, word) /\ (o = NoFlit \/ IsFlit(o, P))
    BY <1>3 DEF WordsFlow
  <2>6. /\ word[1].size \in Nat /\ word[1].size >= 7 /\ word[2] \in Nat /\ word[2] <= word[1].size + 1
        /\ Ends(word) <=> word[2] = word[1].size + 1
        /\ Ends(o) <=> word[2] = 0
        /\ ~Ends(o) => word[1] = o[1] /\ word[2] = o[2] + 1 /\ o[2] \in Nat
    BY <2>5, FollowsIs
  <2>7. \A k \in Cells : Holds(t, k) <=> Holds(q, k) \/ k = l
    <3> DEFINE B == BUFFER_SIZE
    <3>1. B \in Nat /\ 0 < B
      BY BufferSize
    <3>2. NextCell(l) \in Cells /\ NextCell(l) = (IF l = B - 1 THEN 0 ELSE l + 1)
      BY <2>2, NextCellIs
    <3> HIDE DEF B
    <3> QED
      BY <2>2, <3>1, <3>2 DEF Holds, B
  <2>8. read_av(t) /\ (read_av(q) => q.first # l) /\ (~read_av(q) => q.first = l)
    BY <2>2 DEF read_av
  <2>9. /\ q.SR = "HEADER" <=> Ends(o)
        /\ q.SR = "PAYLOAD" <=> ~Ends(o) /\ o[2] = 0
        /\ q.SR = "DATA" => q.payload_size = o[1].size - o[2]
        /\ q.SR \in {"HEADER", "PAYLOAD", "DATA"}
    BY DEF WordsFlow, BufferType
  <2>10. /\ t.SR = "HEADER" <=> Ends(word)
         /\ t.SR = "PAYLOAD" <=> ~Ends(word) /\ word[2] = 0
         /\ t.SR = "DATA" => t.payload_size = word[1].size - word[2]
    <3>1. CASE q.SR = "HEADER"
      <4>1. t.SR = "PAYLOAD" /\ word[2] = 0
        BY <2>b, <2>6, <2>9, <3>1
      <4> QED
        BY <2>6, <4>1
    <3>2. CASE q.SR = "PAYLOAD"
      <4>1. t.SR = "DATA" /\ t.payload_size = AsCount(word) - 1 /\ word[2] = 1
        BY <2>b, <2>6, <2>9, <3>2
      <4>2. AsCount(word) = word[1].size
        BY <4>1 DEF AsCount
      <4> QED
        BY <2>6, <4>1, <4>2
    <3>3. CASE q.SR = "DATA"
      <4>1. word[2] # 0 /\ word[2] # 1 /\ q.payload_size = word[1].size - (word[2] - 1)
        BY <2>6, <2>9, <3>3
      <4> QED
        BY <2>b, <2>6, <3>3, <4>1
    <3> QED
      BY <2>9, <3>1, <3>2, <3>3
  <2>11. ASSUME NEW k \in Cells, Holds(t, k)
         PROVE  /\ IsFlit(t.buffer[k], P) /\ (t.is_header[k] <=> t.buffer[k][2] = 0)
                /\ k # t.first => Follows(t.buffer[PrevCell(k)], t.buffer[k])
    <3>1. CASE k = l
      <4>1. k # t.first => PrevCell(l) # l /\ PrevCell(l) \in Cells
        BY <2>2, <2>8, <3>1, PrevCellIs, BufferSize DEF PrevCell
      <4>2. k # t.first => t.buffer[PrevCell(l)] = o
        BY <2>3, <4>1 DEF LastPut
      <4> QED
        BY <2>3, <2>5, <2>6, <2>9, <3>1, <4>2
    <3>2. CASE k # l
      <4>1. Holds(q, k)
        BY <2>7, <2>11, <3>2
      <4>2. k # q.first => PrevCell(k) # l /\ PrevCell(k) \in Cells
        <5>1. q.first # l
          BY <2>2, <4>1 DEF Holds
        <5> QED
          BY <4>1, <5>1, HoldsAround, PrevCellIs
      <4>3. /\ IsFlit(q.buffer[k], P) /\ (q.is_header[k] <=> q.buffer[k][2] = 0)
            /\ k # q.first => Follows(q.buffer[PrevCell(k)], q.buffer[k])
        BY <4>1 DEF WordsFlow
      <4> QED
        BY <2>2, <2>3, <3>2, <4>2, <4>3
    <3> QED
      BY <3>1, <3>2
  <2>12. Follows(t.noc_data_write, t.buffer[t.first])
    <3>1. CASE read_av(q)
      BY <2>2, <2>3, <2>8, <3>1 DEF WordsFlow
    <3>2. CASE ~read_av(q)
      BY <2>2, <2>3, <2>5, <2>8, <3>2 DEF WordsFlow
    <3> QED
      BY <3>1, <3>2
  <2>13. WordsFlow(t, P)
    BY <2>2, <2>3, <2>4, <2>5, <2>8, <2>10, <2>11, <2>12 DEF WordsFlow
  <2>14. read_av(q) => t.buffer[t.first] = q.buffer[q.first]
    BY <2>2, <2>3, <2>8
  <2>15. /\ BufferType(t) /\ WordsFlow(t, P) /\ SameReception(q, t) /\ LastPut(t) = word
         /\ t.first = q.first
         /\ read_av(q) => read_av(t) /\ t.buffer[t.first] = q.buffer[q.first]
    BY <2>a, <2>2, <2>4, <2>8, <2>13, <2>14
  <2> QED
    BY <1>3, <2>15 DEF t
<1> QED
  BY <1>2, <1>3

HIDE DEF Cells

USE DEF Cells

\* The first word has left t for the memory.
Gone(t, u) ==
  /\ u.buffer = t.buffer /\ u.is_header = t.is_header /\ u.SR = t.SR /\ u.payload_size = t.payload_size
  /\ u.first = NextCell(t.first) /\ u.last = t.last /\ u.add_buffer = FALSE
  /\ u.noc_data_write = t.buffer[t.first]

LEMMA WordsStay ==
  ASSUME NEW P, NEW t, WordsFlow(t, P), NEW u, SameWords(t, u)
  PROVE  WordsFlow(u, P) /\ LastPut(u) = LastPut(t)
<1>1. /\ u.buffer = t.buffer /\ u.is_header = t.is_header /\ u.SR = t.SR /\ u.payload_size = t.payload_size
      /\ u.first = t.first /\ u.last = t.last /\ u.add_buffer = t.add_buffer
      /\ u.noc_data_write = t.noc_data_write
  BY DEF SameWords
<1>2. LastPut(u) = LastPut(t)
  BY <1>1 DEF LastPut
<1>3. (read_av(u) <=> read_av(t)) /\ \A k \in Cells : Holds(u, k) <=> Holds(t, k)
  BY <1>1 DEF read_av, Holds
<1> QED
  BY <1>1, <1>2, <1>3 DEF WordsFlow

LEMMA WordsGo ==
  ASSUME NEW P, NEW t, BufferType(t), WordsFlow(t, P), read_av(t), NEW u, Gone(t, u)
  PROVE  WordsFlow(u, P) /\ LastPut(u) = LastPut(t)
<1> DEFINE f == t.first
           l == t.last
           n == NextCell(f)
<1>1. /\ u.buffer = t.buffer /\ u.is_header = t.is_header /\ u.SR = t.SR /\ u.payload_size = t.payload_size
      /\ u.first = n /\ u.last = l /\ u.add_buffer = FALSE /\ u.noc_data_write = t.buffer[f]
  BY DEF Gone
<1>2. f \in Cells /\ l \in Cells /\ t.add_buffer \in BOOLEAN /\ Holds(t, f)
  BY HoldsFirst DEF BufferType
<1>3. LastPut(u) = LastPut(t)
  BY <1>1 DEF LastPut
<1>4. n \in Cells /\ PrevCell(n) = f /\ (n = l => f = PrevCell(l)) /\ (n # l => Holds(t, n) /\ n # f)
  BY <1>2, NextCellIs, PrevCellIs, HoldsAround
<1>5. \A k \in Cells : Holds(u, k) => Holds(t, k) /\ k # f
  <2> DEFINE B == BUFFER_SIZE
  <2>1. B \in Nat /\ 0 < B /\ n = (IF f = B - 1 THEN 0 ELSE f + 1)
    BY <1>2, NextCellIs, BufferSize
  <2>2. ~(f = l /\ ~t.add_buffer)
    BY DEF read_av
  <2> HIDE DEF B, n, f, l
  <2>3. ASSUME NEW k \in Cells, Holds(u, k) PROVE Holds(t, k) /\ k # f
    <3>1. k \in 0 .. B - 1 /\ f \in 0 .. B - 1 /\ l \in 0 .. B - 1
      BY <1>2 DEF B
    <3>2. IF n < l THEN n <= k /\ k < l ELSE IF n > l THEN n <= k \/ k < l ELSE FALSE
      BY <1>1, <1>4, <1>2, <2>3 DEF Holds
    <3>3. Holds(t, k) <=> IF f < l THEN f <= k /\ k < l ELSE IF f > l THEN f <= k \/ k < l ELSE t.add_buffer
      BY <1>2 DEF Holds, f, l
    <3> QED
      BY <2>1, <2>2, <3>1, <3>2, <3>3
  <2> QED
    BY <2>3
<1>6. /\ DOMAIN t.buffer = Cells
      /\ LastPut(t) = NoFlit \/ IsFlit(LastPut(t), P)
      /\ \A k \in Cells :
           Holds(t, k) => /\ IsFlit(t.buffer[k], P) /\ (t.is_header[k] <=> t.buffer[k][2] = 0)
                          /\ k # f => Follows(t.buffer[PrevCell(k)], t.buffer[k])
      /\ t.SR = "HEADER" <=> Ends(LastPut(t))
      /\ t.SR = "PAYLOAD" <=> ~Ends(LastPut(t)) /\ LastPut(t)[2] = 0
      /\ t.SR = "DATA" => t.payload_size = LastPut(t)[1].size - LastPut(t)[2]
  BY DEF WordsFlow
<1> HIDE DEF n, f, l
<1>7. read_av(u) => n # l
  BY <1>1 DEF read_av
<1>8. IF read_av(u) THEN Follows(u.noc_data_write, u.buffer[u.first]) ELSE LastPut(u) = u.noc_data_write
  <2>1. CASE read_av(u)
    BY <1>1, <1>4, <1>6, <1>7, <2>1
  <2>2. CASE ~read_av(u)
    <3>1. n = l
      BY <1>1, <2>2 DEF read_av
    <3> QED
      BY <1>1, <1>3, <1>4, <2>2, <3>1 DEF LastPut, l
  <2> QED
    BY <2>1, <2>2
<1>9. IsFlit(u.noc_data_write, P)
  BY <1>1, <1>2, <1>6
<1>10. ASSUME NEW k \in Cells, Holds(u, k)
       PROVE  /\ IsFlit(u.buffer[k], P) /\ (u.is_header[k] <=> u.buffer[k][2] = 0)
              /\ k # u.first => Follows(u.buffer[PrevCell(k)], u.buffer[k])
  BY <1>1, <1>5, <1>6, <1>10
<1> QED
  BY <1>1, <1>3, <1>6, <1>8, <1>9, <1>10 DEF WordsFlow

\* What a cycle makes of the side of the memory.
Waits(q, t, u, c, start) == q.DMNI_Receive = "WAIT" /\ ~(start /\ c.operation = 1) /\ u = t
Opens(q, t, u, c, start) ==
  /\ q.DMNI_Receive = "WAIT" /\ start /\ c.operation = 1
  /\ SameWords(t, u) /\ u.DMNI_Receive = IF c.address = 0 THEN "DROP_MESSAGE" ELSE "COPY_TO_MEM"
  /\ u.recv_address = c.address - 1 /\ u.recv_size = c.size - 1
  /\ u.receive_active = TRUE /\ u.noc_we = q.noc_we
Takes(q, t, u, enable) ==
  /\ q.DMNI_Receive = "COPY_TO_MEM" /\ enable /\ read_av(q) /\ Gone(t, u)
  /\ u.DMNI_Receive = IF q.recv_size = 0 THEN "END" ELSE "COPY_TO_MEM"
  /\ u.recv_address = q.recv_address + 1 /\ u.recv_size = q.recv_size - 1
  /\ u.receive_active = q.receive_active /\ u.noc_we = TRUE
Pauses(q, t, u, enable) ==
  /\ q.DMNI_Receive = "COPY_TO_MEM" /\ ~(enable /\ read_av(q)) /\ SameWords(t, u)
  /\ u.DMNI_Receive = "COPY_TO_MEM"
  /\ u.recv_address = q.recv_address /\ u.recv_size = q.recv_size
  /\ u.receive_active = q.receive_active /\ u.noc_we = FALSE
Closes(q, t, u) ==
  /\ q.DMNI_Receive = "END" /\ SameWords(t, u) /\ u.DMNI_Receive = "WAIT"
  /\ u.receive_active = FALSE /\ u.noc_we = FALSE

LEMMA MemorySide ==
  ASSUME NEW q, BufferType(q), q.DMNI_Receive # "DROP_MESSAGE", NEW t, BufferType(t), SameReception(q, t),
         t.first = q.first, read_av(q) => t.buffer[t.first] = q.buffer[q.first],
         NEW c, NEW start, NEW enable
  PROVE  LET u == ToMemory(q, t, c, start, enable)
         IN  \/ Waits(q, t, u, c, start) \/ Opens(q, t, u, c, start) \/ Takes(q, t, u, enable)
             \/ Pauses(q, t, u, enable) \/ Closes(q, t, u)
<1> DEFINE u == ToMemory(q, t, c, start, enable)
<1>1. CASE q.DMNI_Receive = "WAIT" /\ ~(start /\ c.operation = 1)
  <2>1. u = t
    BY <1>1 DEF ToMemory
  <2> QED
    BY <1>1, <2>1 DEF Waits
<1>2. CASE q.DMNI_Receive = "WAIT" /\ start /\ c.operation = 1
  <2> DEFINE a == c.address - 1
             s == c.size - 1
             i == IF q.is_header[q.first] /\ t.intr_count > 0 THEN t.intr_count - 1 ELSE t.intr_count
             d == IF c.address = 0 THEN "DROP_MESSAGE" ELSE "COPY_TO_MEM"
  <2>1. u = [t EXCEPT !.recv_address = a, !.recv_size = s, !.receive_active = TRUE, !.intr_count = i,
                      !.DMNI_Receive = d]
    BY <1>2 DEF ToMemory
  <2> HIDE DEF a, s, i, d, u
  <2>2. SameWords(t, u) /\ u.DMNI_Receive = d /\ u.recv_address = a /\ u.recv_size = s /\ u.receive_active = TRUE
        /\ u.noc_we = t.noc_we
    BY <2>1 DEF BufferType, SameWords
  <2>3. u.noc_we = q.noc_we
    BY <2>2 DEF SameReception
  <2> QED
    BY <1>2, <2>2, <2>3 DEF Opens, a, s, d, u
<1>3. CASE q.DMNI_Receive = "COPY_TO_MEM" /\ enable /\ read_av(q)
  <2> DEFINE n == NextCell(q.first)
             s == q.recv_size - 1
             d == IF q.recv_size = 0 THEN "END" ELSE q.DMNI_Receive
             w == q.buffer[q.first]
             a == q.recv_address + 1
             v == [t EXCEPT !.first = n, !.add_buffer = FALSE, !.recv_size = s, !.DMNI_Receive = d]
  <2>1. Take(q, t) = v
    BY DEF Take, NextCell
  <2>2. u = [v EXCEPT !.noc_we = TRUE, !.noc_data_write = w, !.recv_address = a]
    BY <1>3, <2>1 DEF ToMemory
  <2>3. d = (IF q.recv_size = 0 THEN "END" ELSE "COPY_TO_MEM") /\ w = t.buffer[t.first] /\ n = NextCell(t.first)
    BY <1>3
  <2> HIDE DEF n, s, d, w, a, u
  <2>4. u = [t EXCEPT !.first = n, !.add_buffer = FALSE, !.recv_size = s, !.DMNI_Receive = d, !.noc_we = TRUE,
                      !.noc_data_write = w, !.recv_address = a]
    BY <2>2
  <2>5. /\ u.buffer = t.buffer /\ u.is_header = t.is_header /\ u.SR = t.SR /\ u.payload_size = t.payload_size
        /\ u.first = n /\ u.last = t.last /\ u.add_buffer = FALSE /\ u.noc_data_write = w
        /\ u.DMNI_Receive = d /\ u.recv_address = a /\ u.recv_size = s /\ u.receive_active = t.receive_active
        /\ u.noc_we = TRUE
    BY <2>4 DEF BufferType
  <2>6. Gone(t, u)
    BY <2>3, <2>5 DEF Gone
  <2>7. u.receive_active = q.receive_active
    BY <2>5 DEF SameReception
  <2>8. Takes(q, t, u, enable)
    BY <1>3, <2>3, <2>5, <2>6, <2>7 DEF Takes, a, s
  <2> QED
    BY <2>8 DEF u
<1>4. CASE q.DMNI_Receive = "COPY_TO_MEM" /\ ~(enable /\ read_av(q))
  <2>1. u = [t EXCEPT !.noc_we = FALSE]
    BY <1>4 DEF ToMemory
  <2> HIDE DEF u
  <2>2. /\ SameWords(t, u) /\ u.DMNI_Receive = t.DMNI_Receive /\ u.recv_address = t.recv_address
        /\ u.recv_size = t.recv_size /\ u.receive_active = t.receive_active /\ u.noc_we = FALSE
    BY <2>1 DEF BufferType, SameWords
  <2>3. Pauses(q, t, u, enable)
    BY <1>4, <2>2 DEF Pauses, SameReception
  <2> QED
    BY <2>3 DEF u
<1>5. CASE q.DMNI_Receive = "END"
  <2>1. u = [t EXCEPT !.receive_active = FALSE, !.noc_we = FALSE, !.recv_address = 0, !.recv_size = 0,
                      !.DMNI_Receive = "WAIT"]
    BY <1>5 DEF ToMemory
  <2> HIDE DEF u
  <2>2. SameWords(t, u) /\ u.DMNI_Receive = "WAIT" /\ u.receive_active = FALSE /\ u.noc_we = FALSE
    BY <2>1 DEF BufferType, SameWords
  <2>3. Closes(q, t, u)
    BY <1>5, <2>2 DEF Closes
  <2> QED
    BY <2>3 DEF u
<1> QED
  BY <1>1, <1>2, <1>3, <1>4, <1>5 DEF BufferType

HIDE DEF Cells

USE DEF Cells

\* What a cycle makes of a reception: q before, u after.
SameWord(q, u) == u.noc_data_write = q.noc_data_write /\ (read_av(q) => read_av(u))
StillWaits(q, u) ==
  /\ SameWord(q, u) /\ u.DMNI_Receive = "WAIT"
  /\ u.noc_we = q.noc_we /\ u.receive_active = q.receive_active
HasOpened(q, u, c) ==
  /\ SameWord(q, u) /\ u.DMNI_Receive = IF c.address = 0 THEN "DROP_MESSAGE" ELSE "COPY_TO_MEM"
  /\ u.recv_address = c.address - 1 /\ u.recv_size = c.size - 1
  /\ u.noc_we = q.noc_we /\ u.receive_active = TRUE
HasTaken(q, u, P) ==
  /\ read_av(q) /\ IsFlit(u.noc_data_write, P) /\ Follows(q.noc_data_write, u.noc_data_write)
  /\ u.DMNI_Receive = IF q.recv_size = 0 THEN "END" ELSE "COPY_TO_MEM"
  /\ u.recv_address = q.recv_address + 1 /\ u.recv_size = q.recv_size - 1
  /\ u.noc_we = TRUE /\ u.receive_active = q.receive_active
HasPaused(q, u) ==
  /\ SameWord(q, u) /\ u.DMNI_Receive = "COPY_TO_MEM"
  /\ u.recv_address = q.recv_address /\ u.recv_size = q.recv_size
  /\ u.noc_we = FALSE /\ u.receive_active = q.receive_active
HasClosed(q, u) ==
  SameWord(q, u) /\ u.DMNI_Receive = "WAIT" /\ u.noc_we = FALSE /\ u.receive_active = FALSE

ReceivesAs(q, u, c, start, enable, P) ==
  /\ q.DMNI_Receive \in {"WAIT", "COPY_TO_MEM", "END"}
  /\ q.DMNI_Receive = "WAIT" => IF start /\ c.operation = 1 THEN HasOpened(q, u, c) ELSE StillWaits(q, u)
  /\ q.DMNI_Receive = "COPY_TO_MEM" => (enable /\ HasTaken(q, u, P)) \/ HasPaused(q, u)
  /\ q.DMNI_Receive = "END" => HasClosed(q, u)

LEMMA ReceptionStep ==
  ASSUME NEW P, AllFit(P), NEW q, BufferInv(q), WordsFlow(q, P), NEW rx, NEW word,
         rx => IsFlit(word, P) /\ Follows(LastPut(q), word),
         NEW c, NEW cmd, NEW enable
  PROVE  LET u == receive(q, c, cmd, rx, word, enable)
         IN  /\ WordsFlow(u, P)
             /\ LastPut(u) = IF rx /\ slot_available(q) THEN word ELSE LastPut(q)
             /\ ReceivesAs(q, u, c, cmd.set = "start", enable, P)
<1> DEFINE t == FromNoc(q, rx, word)
           start == (cmd.set = "start")
           u == ToMemory(q, t, c, start, enable)
<1>1. BufferType(q) /\ q.DMNI_Receive # "DROP_MESSAGE" /\ q.DMNI_Receive \in {"WAIT", "COPY_TO_MEM", "END"}
  BY DEF BufferInv, BufferType
<1>2. /\ BufferType(t) /\ WordsFlow(t, P) /\ SameReception(q, t)
      /\ LastPut(t) = (IF rx /\ slot_available(q) THEN word ELSE LastPut(q))
      /\ t.first = q.first
      /\ read_av(q) => read_av(t) /\ t.buffer[t.first] = q.buffer[q.first]
  <2> HIDE DEF t
  <2> QED
    BY <1>1, WordsCome DEF t
<1> HIDE DEF t, start
<1>3. \/ Waits(q, t, u, c, start) \/ Opens(q, t, u, c, start) \/ Takes(q, t, u, enable)
      \/ Pauses(q, t, u, enable) \/ Closes(q, t, u)
  BY <1>1, <1>2, MemorySide
<1> HIDE DEF u
<1>a. t.noc_data_write = q.noc_data_write
  BY <1>2 DEF SameReception
<1>b. ASSUME SameWords(t, u)
      PROVE  WordsFlow(u, P) /\ LastPut(u) = LastPut(t) /\ SameWord(q, u)
  <2>1. WordsFlow(u, P) /\ LastPut(u) = LastPut(t)
    BY <1>2, <1>b, WordsStay
  <2>2. u.noc_data_write = t.noc_data_write /\ (read_av(t) => read_av(u))
    BY <1>b DEF SameWords, read_av
  <2> QED
    BY <1>a, <1>2, <2>1, <2>2 DEF SameWord
<1> DEFINE Goal == WordsFlow(u, P) /\ LastPut(u) = LastPut(t) /\ ReceivesAs(q, u, c, start, enable, P)
<1>9. SUFFICES Goal
  BY <1>2 DEF receive, u, t, start
<1>4. CASE Waits(q, t, u, c, start)
  <2>1. u = t /\ SameWords(t, u) /\ q.DMNI_Receive = "WAIT" /\ ~(start /\ c.operation = 1)
    BY <1>4 DEF Waits, SameWords
  <2>2. StillWaits(q, u)
    BY <1>b, <1>2, <2>1 DEF StillWaits, SameReception
  <2> QED
    BY <1>b, <2>1, <2>2 DEF ReceivesAs
<1>5. CASE Opens(q, t, u, c, start)
  <2>1. SameWords(t, u) /\ q.DMNI_Receive = "WAIT" /\ start /\ c.operation = 1
    BY <1>5 DEF Opens
  <2>2. HasOpened(q, u, c)
    BY <1>b, <1>5, <2>1 DEF HasOpened, Opens
  <2> QED
    BY <1>b, <2>1, <2>2 DEF ReceivesAs
<1>6. CASE Takes(q, t, u, enable)
  <2>1. q.DMNI_Receive = "COPY_TO_MEM" /\ enable /\ read_av(q) /\ read_av(t) /\ Gone(t, u)
    BY <1>2, <1>6 DEF Takes
  <2>2. WordsFlow(u, P) /\ LastPut(u) = LastPut(t)
    BY <1>2, <2>1, WordsGo
  <2>3. u.noc_data_write = t.buffer[t.first] /\ t.first \in Cells /\ Holds(t, t.first)
    BY <1>2, <2>1, HoldsFirst DEF Gone
  <2>4. IsFlit(u.noc_data_write, P) /\ Follows(q.noc_data_write, u.noc_data_write)
    BY <1>a, <1>2, <2>1, <2>3 DEF WordsFlow
  <2>5. HasTaken(q, u, P)
    BY <1>6, <2>1, <2>4 DEF HasTaken, Takes
  <2> QED
    BY <2>1, <2>2, <2>5 DEF ReceivesAs
<1>7. CASE Pauses(q, t, u, enable)
  <2>1. SameWords(t, u) /\ q.DMNI_Receive = "COPY_TO_MEM"
    BY <1>7 DEF Pauses
  <2>2. HasPaused(q, u)
    BY <1>b, <1>7, <2>1 DEF HasPaused, Pauses
  <2> QED
    BY <1>b, <2>1, <2>2 DEF ReceivesAs
<1>8. CASE Closes(q, t, u)
  <2>1. SameWords(t, u) /\ q.DMNI_Receive = "END"
    BY <1>8 DEF Closes
  <2>2. HasClosed(q, u)
    BY <1>b, <1>8, <2>1 DEF HasClosed, Closes
  <2> QED
    BY <1>b, <2>1, <2>2 DEF ReceivesAs
<1> QED
  BY <1>3, <1>4, <1>5, <1>6, <1>7, <1>8

HIDE DEF Cells

-----------------------------------------------------------------------------
(* What is received in the memory.                                         *)

\* The words of a packet up to f are in the memory.
Delivered(f, m) == \A i \in 0 .. f[2] : m[InHeader + i] = <<f[1], i>>

\* The copying of a part of a packet goes on.
LEMMA CopyOn ==
  ASSUME NEW P, AllFit(P), NEW q, NEW words \in Nat, Copying(q, P, words),
         words <= q.noc_data_write[1].size + 2,
         NEW u, NEW c, NEW enable, ReceivesAs(q, u, c, FALSE, enable, P),
         NEW m, Delivered(q.noc_data_write, m)
  PROVE  /\ Copying(u, P, words) /\ Received(u, m)
         /\ u.noc_data_write[1] = q.noc_data_write[1] /\ u.noc_data_write[2] >= q.noc_data_write[2]
<1> DEFINE w == q.noc_data_write
           v == u.noc_data_write
<1>1. /\ IsFlit(w, P)
      /\ q.DMNI_Receive # "WAIT" => q.recv_address = InHeader + w[2]
      /\ IF q.DMNI_Receive = "COPY_TO_MEM" THEN w[2] <= words - 2 /\ q.recv_size = words - 2 - w[2]
         ELSE w[2] = words - 1
  BY DEF Copying
<1>2. w[2] \in Nat /\ w[1].size \in Nat /\ (Ends(w) <=> w[2] = w[1].size + 1)
  BY <1>1, FitPackets, FlitIs
<1>3. InHeader \in Int
  BY PlatformAssumption DEF InHeader, OutBody, OutHeader
<1> DEFINE Goal == Copying(u, P, words) /\ Received(u, m) /\ v[1] = w[1] /\ v[2] >= w[2]
<1>4. SUFFICES Goal
  OBVIOUS
<1>5. Delivered(w, m)
  OBVIOUS
<1>6. ASSUME v = w PROVE Received(u, m) /\ v[1] = w[1] /\ v[2] >= w[2]
  <2>1. v[1] = w[1] /\ v[2] = w[2]
    BY <1>6
  <2> HIDE DEF v, w
  <2>2. Received(u, m)
    BY <1>5, <2>1 DEF Received, Delivered, v
  <2> QED
    BY <1>2, <2>1, <2>2
<1>7. CASE q.DMNI_Receive \in {"WAIT", "END"}
  <2>1. u.DMNI_Receive = "WAIT" /\ v = w
    BY <1>7 DEF ReceivesAs, StillWaits, HasClosed, SameWord
  <2>2. w[2] = words - 1
    BY <1>1, <1>7
  <2> HIDE DEF w, v
  <2>3. Copying(u, P, words)
    BY <1>1, <2>1, <2>2 DEF Copying, v
  <2> QED
    BY <1>6, <2>1, <2>3
<1>8. CASE q.DMNI_Receive = "COPY_TO_MEM" /\ HasPaused(q, u)
  <2>1. u.DMNI_Receive = "COPY_TO_MEM" /\ v = w /\ u.recv_address = q.recv_address /\ u.recv_size = q.recv_size
    BY <1>8 DEF HasPaused, SameWord
  <2> HIDE DEF w, v
  <2>3. Copying(u, P, words)
    BY <1>1, <1>8, <2>1 DEF Copying, v
  <2> QED
    BY <1>6, <2>1, <2>3
<1>9. CASE q.DMNI_Receive = "COPY_TO_MEM" /\ HasTaken(q, u, P)
  <2>1. /\ IsFlit(v, P) /\ Follows(w, v) /\ u.noc_we = TRUE
        /\ u.DMNI_Receive = (IF q.recv_size = 0 THEN "END" ELSE "COPY_TO_MEM")
        /\ u.recv_address = q.recv_address + 1 /\ u.recv_size = q.recv_size - 1
    BY <1>9 DEF HasTaken
  <2>2. w[2] <= words - 2 /\ q.recv_size = words - 2 - w[2] /\ q.recv_address = InHeader + w[2]
    BY <1>1, <1>9
  <2>3. ~Ends(w)
    BY <1>2, <2>2
  <2>4. v[1] = w[1] /\ v[2] = w[2] + 1
    BY <1>1, <2>1, <2>3, FollowsIs
  <2> HIDE DEF w, v
  <2>5. /\ u.recv_address = InHeader + v[2]
        /\ IF u.DMNI_Receive = "COPY_TO_MEM" THEN v[2] <= words - 2 /\ u.recv_size = words - 2 - v[2]
           ELSE v[2] = words - 1
    BY <1>2, <1>3, <2>1, <2>2, <2>4
  <2>6. Copying(u, P, words)
    BY <2>1, <2>5 DEF Copying, v
  <2>7. Received(u, m)
    <3>1. ASSUME NEW i \in 0 .. v[2], i # v[2] PROVE m[InHeader + i] = <<v[1], i>>
      <4>1. i \in 0 .. w[2]
        BY <1>2, <2>4, <3>1
      <4> QED
        BY <1>5, <2>4, <4>1 DEF Delivered
    <3> QED
      BY <2>1, <3>1 DEF Received, v
  <2> QED
    BY <1>2, <2>4, <2>6, <2>7
<1> QED
  BY <1>7, <1>8, <1>9 DEF ReceivesAs

LEMMA CopyBegins ==
  ASSUME NEW P, AllFit(P), NEW q, HeaderBegins(q),
         NEW u, NEW c, NEW enable, ReceivesAs(q, u, c, FALSE, enable, P), NEW m
  PROVE  HeaderBegins(u) \/ (Copying(u, P, CONSTANT_PACKET_SIZE) /\ Received(u, m))
<1> DEFINE w == q.noc_data_write
           v == u.noc_data_write
<1>1. /\ q.DMNI_Receive = "COPY_TO_MEM" /\ Ends(w) /\ read_av(q)
      /\ q.recv_size = CONSTANT_PACKET_SIZE - 1 /\ q.recv_address = InHeader - 1
  BY DEF HeaderBegins
<1>2. HasTaken(q, u, P) \/ HasPaused(q, u)
  BY <1>1 DEF ReceivesAs
<1>3. CASE HasPaused(q, u)
  BY <1>1, <1>3 DEF HeaderBegins, HasPaused, SameWord
<1>4. CASE HasTaken(q, u, P)
  <2>1. /\ IsFlit(v, P) /\ Follows(w, v) /\ u.noc_we = TRUE
        /\ u.DMNI_Receive = (IF q.recv_size = 0 THEN "END" ELSE "COPY_TO_MEM")
        /\ u.recv_address = q.recv_address + 1 /\ u.recv_size = q.recv_size - 1
    BY <1>4 DEF HasTaken
  <2>2. v[2] = 0
    BY <1>1, <2>1 DEF Follows
  <2>3. CONSTANT_PACKET_SIZE \in Nat /\ CONSTANT_PACKET_SIZE > 8 /\ InHeader \in Int
    BY PlatformAssumption DEF InHeader, OutBody, OutHeader
  <2> HIDE DEF w, v
  <2>4. Copying(u, P, CONSTANT_PACKET_SIZE)
    BY <1>1, <2>1, <2>2, <2>3 DEF Copying, v
  <2>5. Received(u, m)
    BY <2>1, <2>2 DEF Received, v
  <2> QED
    BY <2>4, <2>5
<1> QED
  BY <1>2, <1>3, <1>4
=============================================================================
