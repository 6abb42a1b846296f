--------------------------- MODULE WeaveKVProofs ---------------------------
(* Proofs about WeaveKV, for every set of keys and values and every bound. *)
EXTENDS WeaveKV, WellFoundedInduction, SequenceTheorems, TLAPS

(* A nonempty set of naturals that is bounded has a last element: the      *)
(* CHOOSE of Applied, Logged and Replay picks a real entry.                *)
LEMMA LastExists ==
  ASSUME NEW N \in Nat, NEW S, S \subseteq 0..N, S # {}
  PROVE  \E n \in S : IsLast(n, S)
<1> DEFINE T == {N - n : n \in S}
           R == OpToRel(<, Nat)
<1>0. \A n \in S : n \in 0..N /\ N - n \in Nat
  OBVIOUS
<1>1. T \subseteq Nat /\ T # {}
  BY <1>0
<1>2. IsWellFoundedOn(R, Nat)
  BY NatLessThanWellFounded
<1> HIDE DEF T, R
<1>3. PICK x \in T : \A y \in T : ~(<<y, x>> \in R)
  BY <1>1, <1>2, WFMin
<1>4. PICK n \in S : x = N - n
  BY DEF T
<1>5. ASSUME NEW m \in S
      PROVE  m <= n
  <2>1. N - m \in T
    BY DEF T
  <2>2. ~(N - m < x)
    BY <1>1, <1>3, <2>1 DEF R, OpToRel
  <2> QED
    BY <1>4, <2>2
<1> QED
  BY <1>5 DEF IsLast

(* The store after a batch holds a value or null for every key. *)
LEMMA AppliedType ==
  ASSUME NEW st \in [Key -> Val \cup {NULL}], NEW q \in Seq(Entry)
  PROVE  Applied(st, q) \in [Key -> Val \cup {NULL}]
<1> SUFFICES ASSUME NEW k \in Key
             PROVE  Applied(st, q)[k] \in Val \cup {NULL}
  BY DEF Applied
<1>1. CASE Touching(q, k) = {}
  BY <1>1 DEF Applied
<1>2. CASE Touching(q, k) # {}
  <2> DEFINE n == CHOOSE n \in 1..Len(q) : IsLast(n, Touching(q, k))
  <2>1. Touching(q, k) \subseteq 1..Len(q) /\ Len(q) \in Nat
    BY DEF Touching
  <2>2. \E m \in 1..Len(q) : IsLast(m, Touching(q, k))
    BY <1>2, <2>1, LastExists
  <2>3. n \in 1..Len(q) /\ IsLast(n, Touching(q, k))
    BY <2>2
  <2>4. q[n] \in Entry /\ q[n].cl[k] # UNDEF
    <3>1. \A m \in 1..Len(q) : q[m] \in Entry
      OBVIOUS
    <3>2. n \in Touching(q, k)
      BY <2>3 DEF IsLast
    <3>3. \A m \in Touching(q, k) : q[m].cl[k] # UNDEF
      BY DEF Touching
    <3> HIDE DEF n
    <3> QED
      BY <2>3, <3>1, <3>2, <3>3
  <2>5. q[n].cl[k] \in Val \cup {NULL}
    BY <2>4 DEF Entry, Buffer, Cell
  <2> QED
    BY <1>2, <2>5 DEF Applied
<1> QED
  BY <1>1, <1>2

(* The entries of a log after a batch are buffers, keyed by the numbers    *)
(* that were there and the numbers of the batch.                           *)
LEMMA LoggedType ==
  ASSUME NEW log, DOMAIN log \subseteq Nat, \A j \in DOMAIN log : log[j] \in Buffer,
         NEW q \in Seq(Entry), NEW K
  PROVE  /\ DOMAIN Logged(log, q, K) = DOMAIN log \cup Numbers(q)
         /\ DOMAIN Logged(log, q, K) \subseteq Nat
         /\ \A j \in DOMAIN Logged(log, q, K) : Logged(log, q, K)[j] \in Buffer
         /\ \A j \in DOMAIN log \ Numbers(q) : Logged(log, q, K)[j] = log[j]
<1>1. Numbers(q) \subseteq Nat
  <2>1. \A n \in 1..Len(q) : q[n] \in Entry
    OBVIOUS
  <2>2. \A n \in 1..Len(q) : q[n].i \in Nat
    BY <2>1 DEF Entry
  <2> QED
    BY <2>2 DEF Numbers
<1>2. DOMAIN Logged(log, q, K) = DOMAIN log \cup Numbers(q)
  BY DEF Logged
<1>3. ASSUME NEW j \in DOMAIN log \cup Numbers(q)
      PROVE  Logged(log, q, K)[j] \in Buffer
  <2>1. CASE j \in Numbers(q)
    <3> DEFINE S == {m \in 1..Len(q) : q[m].i = j}
               n == CHOOSE n \in 1..Len(q) : IsLast(n, S)
    <3>1. S # {} /\ S \subseteq 1..Len(q) /\ S \subseteq 0..Len(q) /\ Len(q) \in Nat
      BY <2>1 DEF Numbers
    <3> HIDE DEF S
    <3>2. \E m \in 1..Len(q) : IsLast(m, S)
      BY <3>1, LastExists
    <3>3. n \in 1..Len(q)
      BY <3>2
    <3> HIDE DEF n
    <3>4. q[n] \in Entry
      BY <3>3
    <3>5. q[n].cl \in Buffer
      BY <3>4 DEF Entry
    <3>6. Logged(log, q, K)[j] = Only(q[n].cl, K)
      BY <2>1 DEF Logged, n, S
    <3>7. Only(q[n].cl, K) \in Buffer
      BY <3>5 DEF Only, Buffer, Cell
    <3> QED
      BY <3>6, <3>7
  <2>2. CASE j \notin Numbers(q)
    BY <2>2 DEF Logged
  <2> QED
    BY <2>1, <2>2
<1>4. ASSUME NEW j \in DOMAIN log \ Numbers(q)
      PROVE  Logged(log, q, K)[j] = log[j]
  BY DEF Logged
<1> QED
  BY <1>1, <1>2, <1>3, <1>4

(* Removing an element keeps the others in order. *)
LEMMA WithoutProperties ==
  ASSUME NEW X, NEW q \in Seq(X), NEW n \in 1..Len(q)
  PROVE  /\ Without(q, n) \in Seq(X)
         /\ Len(Without(q, n)) = Len(q) - 1
         /\ \A m \in 1..(n - 1) : Without(q, n)[m] = q[m]
         /\ \A m \in (n + 1)..Len(q) : Without(q, n)[m - 1] = q[m]
<1> DEFINE a == SubSeq(q, 1, n - 1)
           b == SubSeq(q, n + 1, Len(q))
<1>1. a \in Seq(X) /\ Len(a) = n - 1 /\ \A m \in 1..(n - 1) : a[m] = q[m]
  BY SubSeqProperties
<1>2. b \in Seq(X) /\ Len(b) = Len(q) - n /\ \A m \in 1..(Len(q) - n) : b[m] = q[n + m]
  BY SubSeqProperties
<1>3. Without(q, n) = a \o b
  BY DEF Without
<1> HIDE DEF a, b
<1>4. /\ a \o b \in Seq(X)
      /\ Len(a \o b) = Len(a) + Len(b)
      /\ \A m \in 1..(Len(a) + Len(b)) : (a \o b)[m] = IF m <= Len(a) THEN a[m] ELSE b[m - Len(a)]
  BY <1>1, <1>2, ConcatProperties
<1>5. ASSUME NEW m \in 1..(n - 1)
      PROVE  (a \o b)[m] = q[m]
  BY <1>1, <1>2, <1>4
<1>6. ASSUME NEW m \in (n + 1)..Len(q)
      PROVE  (a \o b)[m - 1] = q[m]
  <2>1. m - 1 \in 1..(Len(a) + Len(b)) /\ ~(m - 1 <= Len(a)) /\ m - 1 - Len(a) = m - n
    BY <1>1, <1>2
  <2>2. m - n \in 1..(Len(q) - n) /\ n + (m - n) = m
    OBVIOUS
  <2>3. b[m - n] = q[n + (m - n)]
    BY <1>2, <2>2
  <2>4. (a \o b)[m - 1] = b[m - 1 - Len(a)]
    BY <1>4, <2>1
  <2> QED
    BY <2>1, <2>2, <2>3, <2>4
<1> QED
  BY <1>1, <1>2, <1>3, <1>4, <1>5, <1>6

LEMMA AtType ==
  ASSUME NEW pc \in {"queued", "ran", "unwind"}, NEW depth \in Nat \ {0}, NEW data \in Seq(Nat)
  PROVE  At(pc, depth, data) \in Flush
BY DEF At, Flush

LEMMA FlushFields ==
  ASSUME NEW q \in Seq(Flush), NEW n \in 1..Len(q)
  PROVE  /\ q[n].depth \in Nat \ {0}
         /\ q[n].data \in Seq(Nat)
         /\ q[n].pc \in {"queued", "ran", "unwind"}
<1>1. q[n] \in Flush
  OBVIOUS
<1> QED
  BY <1>1 DEF Flush

LEMMA EnteredType ==
  ASSUME NEW q \in Seq(Flush), NEW depth \in Nat \ {0}
  PROVE  Entered(q, depth) \in Seq(Flush)
<1>1. At("queued", depth, <<>>) \in Flush
  BY AtType, EmptySeq
<1> QED
  BY <1>1, AppendProperties DEF Entered

LEMMA DrainedType ==
  ASSUME NEW q \in Seq(Entry)
  PROVE  Drained(q) \in Seq(Nat)
<1>1. \A m \in 1..Len(q) : q[m] \in Entry
  OBVIOUS
<1>2. \A m \in 1..Len(q) : q[m].i \in Nat
  BY <1>1 DEF Entry
<1> QED
  BY <1>2, IsASeq DEF Drained

-----------------------------------------------------------------------------
(* weavekv.js keeps its variables well formed: in particular the durable   *)
(* store never holds an undefined value, whatever batch was drained.       *)
THEOREM TypeCorrect == Spec => []TypeOK
<1>1. Init => TypeOK
  <2> SUFFICES ASSUME Init
               PROVE  TypeOK
    OBVIOUS
  <2>1. l \in Buffer /\ s \in Buffer /\ store \in [Key -> Val \cup {NULL}]
    BY DEF Init, Empty, Buffer, Cell
  <2>2. i \in Nat /\ base \in Nat /\ current \in Nat \cup {-1}
    BY DEF Init, firstNumber
  <2>3. c \in Seq(Entry) /\ flushes \in Seq(Flush) /\ sent \in Seq(Nat) /\ on \in BOOLEAN
    BY EmptySeq DEF Init
  <2>4. DOMAIN wal = {} /\ DOMAIN privWal = {}
    BY DEF Init
  <2> QED
    BY <2>1, <2>2, <2>3, <2>4 DEF TypeOK
<1>2. TypeOK /\ [Next]_vars => TypeOK'
  <2> SUFFICES ASSUME TypeOK, [Next]_vars
               PROVE  TypeOK'
    OBVIOUS
  <2> USE DEF TypeOK, memory, disk
  <2>1. ASSUME NEW k \in Key, NEW v \in Val \cup {NULL}, put(k, v)
        PROVE  TypeOK'
    BY <2>1 DEF put, Buffer, Cell
  <2>2. CASE reset
    BY <2>2 DEF reset, Empty, Buffer, Cell
  <2>3. CASE commit
    <3>1. Over(s, l) \in Buffer /\ Empty \in Buffer
      BY DEF Over, Empty, Buffer, Cell
    <3>2. [i |-> i, cl |-> l] \in Entry
      BY DEF Entry
    <3>3. c' \in Seq(Entry)
      BY <2>3, <3>2, AppendProperties DEF commit
    <3>4. flushes' \in Seq(Flush)
      BY <2>3, EnteredType DEF commit
    <3> QED
      BY <2>3, <3>1, <3>3, <3>4 DEF commit
  <2>4. ASSUME NEW n \in 1..Len(flushes), transaction(n)
        PROVE  TypeOK'
    <3>1. store' \in [Key -> Val \cup {NULL}]
      BY <2>4, AppliedType DEF transaction
    <3>2. /\ DOMAIN wal' \subseteq Nat /\ \A j \in DOMAIN wal' : wal'[j] \in Buffer
          /\ DOMAIN privWal' \subseteq Nat /\ \A j \in DOMAIN privWal' : privWal'[j] \in Buffer
      BY <2>4, LoggedType DEF transaction
    <3>3. current' \in Nat \cup {-1}
      <4>1. CASE c # <<>>
        <5>1. c[Len(c)] \in Entry
          BY <4>1
        <5> QED
          BY <2>4, <4>1, <5>1 DEF transaction, Entry
      <4> QED
        BY <2>4, <4>1 DEF transaction
    <3>4. At("ran", flushes[n].depth, Drained(c)) \in Flush
      BY DrainedType, FlushFields, AtType
    <3>5. flushes' \in Seq(Flush)
      BY <2>4, <3>4, ExceptSeq DEF transaction
    <3>6. c' \in Seq(Entry)
      BY <2>4, EmptySeq DEF transaction
    <3> QED
      BY <2>4, <3>1, <3>2, <3>3, <3>5, <3>6 DEF transaction
  <2>5. ASSUME NEW n \in 1..Len(flushes), settle(n)
        PROVE  TypeOK'
    <3>1. flushes[n].depth \in Nat \ {0} /\ flushes[n].depth + 1 \in Nat \ {0}
      BY FlushFields
    <3>2. sent' \in Seq(Nat)
      BY <2>5, FlushFields, ConcatProperties DEF settle
    <3>3. Entered(Without(flushes, n), flushes[n].depth + 1) \in Seq(Flush)
      BY <3>1, WithoutProperties, EnteredType
    <3>4. At("unwind", flushes[n].depth, <<>>) \in Flush
      BY <3>1, AtType, EmptySeq
    <3>5. [flushes EXCEPT ![n] = At("unwind", flushes[n].depth, <<>>)] \in Seq(Flush)
      BY <3>4, ExceptSeq
    <3>6. flushes' \in Seq(Flush) /\ on' \in BOOLEAN
      BY <2>5, <3>3, <3>5 DEF settle, recommit
    <3> QED
      BY <2>5, <3>2, <3>6 DEF settle
  <2>6. ASSUME NEW n \in 1..Len(flushes), unwind(n)
        PROVE  TypeOK'
    <3>1. flushes[n].depth \in Nat \ {0}
      BY FlushFields
    <3>2. Without(flushes, n) \in Seq(Flush)
      BY WithoutProperties
    <3>3. ASSUME flushes[n].depth # 1
          PROVE  At("unwind", flushes[n].depth - 1, <<>>) \in Flush
      <4>1. flushes[n].depth - 1 \in Nat \ {0}
        BY <3>1, <3>3
      <4> QED
        BY <4>1, AtType, EmptySeq
    <3>4. flushes' \in Seq(Flush)
      BY <2>6, <3>2, <3>3, ExceptSeq DEF unwind
    <3> QED
      BY <2>6, <3>4 DEF unwind
  <2>7. CASE restart
    <3>1. c' \in Seq(Entry) /\ flushes' \in Seq(Flush) /\ sent' \in Seq(Nat)
      BY <2>7, EmptySeq DEF restart
    <3>2. i' \in Nat /\ base' \in Nat
      BY <2>7 DEF restart, firstNumber
    <3>3. l' \in Buffer /\ s' \in Buffer
      BY <2>7 DEF restart, Empty, Buffer, Cell
    <3> QED
      BY <2>7, <3>1, <3>2, <3>3 DEF restart
  <2>8. CASE UNCHANGED vars
    BY <2>8 DEF vars
  <2> QED
    BY <2>1, <2>2, <2>3, <2>4, <2>5, <2>6, <2>7, <2>8 DEF Next
<1> QED
  BY <1>1, <1>2, PTL DEF Spec

-----------------------------------------------------------------------------
(* The numbers of a queue that continues the WAL. *)
LEMMA QueueNumbers ==
  ASSUME TypeOK, WalGapless
  PROVE  /\ Len(c) \in Nat
         /\ Numbers(c) = (current + 1)..(current + Len(c))
         /\ c # <<>> => c[Len(c)].i = current + Len(c)
<1>1. Len(c) \in Nat /\ current \in Int
  BY DEF TypeOK
<1>2. \A n \in 1..Len(c) : c[n].i = current + n
  BY DEF WalGapless
<1>3. ASSUME NEW j \in (current + 1)..(current + Len(c))
      PROVE  j \in Numbers(c)
  <2>1. j - current \in 1..Len(c) /\ current + (j - current) = j
    BY <1>1
  <2>2. c[j - current].i = j
    BY <1>2, <2>1
  <2> QED
    BY <2>1, <2>2 DEF Numbers
<1>4. ASSUME NEW n \in 1..Len(c)
      PROVE  c[n].i \in (current + 1)..(current + Len(c))
  BY <1>1, <1>2
<1>5. c # <<>> => Len(c) \in 1..Len(c)
  BY <1>1, EmptySeq DEF TypeOK
<1> QED
  BY <1>1, <1>2, <1>3, <1>4, <1>5 DEF Numbers

(* The durable WAL of weavekv.js has no gap and the queue continues it, so *)
(* that no restart can give a number twice.                                *)
THEOREM WalIsGapless == Spec => []WalGapless
<1>1. Init => WalGapless
  BY DEF Init, WalGapless, firstNumber
<1>2. TypeOK /\ WalGapless /\ [Next]_vars => WalGapless'
  <2> SUFFICES ASSUME TypeOK, WalGapless, [Next]_vars
               PROVE  WalGapless'
    OBVIOUS
  <2> USE DEF memory, disk
  <2>1. ASSUME NEW k \in Key, NEW v \in Val \cup {NULL}, put(k, v)
        PROVE  WalGapless'
    BY <2>1 DEF put, WalGapless
  <2>2. CASE reset
    BY <2>2 DEF reset, WalGapless
  <2>3. CASE commit
    <3> DEFINE e == [i |-> i, cl |-> l]
    <3>1. e \in Entry /\ c \in Seq(Entry) /\ i \in Nat /\ current \in Int /\ Len(c) \in Nat
      BY DEF TypeOK, Entry
    <3>2. /\ Len(c') = Len(c) + 1
          /\ \A n \in 1..Len(c) : c'[n] = c[n]
          /\ c'[Len(c) + 1].i = i
      BY <2>3, <3>1, AppendProperties DEF commit
    <3>3. ASSUME NEW n \in 1..Len(c')
          PROVE  c'[n].i = current + n
      <4>1. CASE n = Len(c) + 1
        BY <3>1, <3>2, <4>1 DEF WalGapless
      <4>2. CASE n \in 1..Len(c)
        BY <3>2, <4>2 DEF WalGapless
      <4> QED
        BY <3>1, <3>2, <4>1, <4>2
    <3> QED
      BY <2>3, <3>1, <3>2, <3>3 DEF commit, WalGapless
  <2>4. ASSUME NEW n \in 1..Len(flushes), transaction(n)
        PROVE  WalGapless'
    <3>1. DOMAIN wal' = DOMAIN wal \cup Numbers(c)
      BY <2>4 DEF transaction, Logged
    <3>2. current' = current + Len(c) /\ Len(c) \in Nat /\ current \in Nat \cup {-1}
      <4>1. CASE c = <<>>
        BY <2>4, <4>1, EmptySeq DEF transaction, TypeOK
      <4>2. CASE c # <<>>
        BY <2>4, <4>2, QueueNumbers DEF transaction, TypeOK
      <4> QED
        BY <4>1, <4>2
    <3>3. DOMAIN wal' = 0..current'
      BY <3>1, <3>2, QueueNumbers, SMTT(30) DEF WalGapless
    <3>4. Len(c') = 0
      BY <2>4, EmptySeq DEF transaction
    <3> QED
      BY <2>4, <3>2, <3>3, <3>4 DEF transaction, WalGapless
  <2>5. ASSUME NEW n \in 1..Len(flushes), settle(n)
        PROVE  WalGapless'
    BY <2>5 DEF settle, WalGapless
  <2>6. ASSUME NEW n \in 1..Len(flushes), unwind(n)
        PROVE  WalGapless'
    BY <2>6 DEF unwind, WalGapless
  <2>7. CASE restart
    <3>1. Len(c') = 0
      BY <2>7, EmptySeq DEF restart
    <3> QED
      BY <2>7, <3>1 DEF restart, WalGapless, firstNumber, TypeOK
  <2>8. CASE UNCHANGED vars
    BY <2>8 DEF vars, WalGapless
  <2> QED
    BY <2>1, <2>2, <2>3, <2>4, <2>5, <2>6, <2>7, <2>8 DEF Next
<1> QED
  BY <1>1, <1>2, TypeCorrect, PTL DEF Spec

(* No step rewrites or drops a durable WAL entry. *)
THEOREM WalIsAppendOnly == Spec => WalAppendOnly
<1> DEFINE Keeps == /\ DOMAIN wal \subseteq DOMAIN wal'
                    /\ \A j \in DOMAIN wal : wal'[j] = wal[j]
<1>1. TypeOK /\ WalGapless /\ [Next]_vars => [Keeps]_vars
  <2> SUFFICES ASSUME TypeOK, WalGapless, [Next]_vars
               PROVE  Keeps \/ UNCHANGED vars
    OBVIOUS
  <2> USE DEF disk
  <2>1. ASSUME NEW k \in Key, NEW v \in Val \cup {NULL}, put(k, v)
        PROVE  Keeps
    BY <2>1 DEF put
  <2>2. CASE reset
    BY <2>2 DEF reset
  <2>3. CASE commit
    BY <2>3 DEF commit
  <2>4. ASSUME NEW n \in 1..Len(flushes), transaction(n)
        PROVE  Keeps
    <3>1. /\ DOMAIN wal' = DOMAIN wal \cup Numbers(c)
          /\ \A j \in DOMAIN wal \ Numbers(c) : wal'[j] = wal[j]
      BY <2>4 DEF transaction, Logged
    <3>2. DOMAIN wal \cap Numbers(c) = {}
      BY QueueNumbers DEF WalGapless, TypeOK
    <3> QED
      BY <3>1, <3>2
  <2>5. ASSUME NEW n \in 1..Len(flushes), settle(n)
        PROVE  Keeps
    BY <2>5 DEF settle
  <2>6. ASSUME NEW n \in 1..Len(flushes), unwind(n)
        PROVE  Keeps
    BY <2>6 DEF unwind
  <2>7. CASE restart
    BY <2>7 DEF restart
  <2> QED
    BY <2>1, <2>2, <2>3, <2>4, <2>5, <2>6, <2>7 DEF Next
<1> QED
  BY <1>1, TypeCorrect, WalIsGapless, PTL DEF Spec, WalAppendOnly

-----------------------------------------------------------------------------
Waits(fs) == \E n \in 1..Len(fs) : fs[n].pc \in {"queued", "ran"}

LEMMA EnteredWaits ==
  ASSUME NEW q \in Seq(Flush), NEW depth \in Nat \ {0}
  PROVE  Waits(Entered(q, depth))
<1>1. At("queued", depth, <<>>) \in Flush
  BY AtType, EmptySeq
<1>2. /\ Len(Entered(q, depth)) = Len(q) + 1
      /\ Entered(q, depth)[Len(q) + 1] = At("queued", depth, <<>>)
  BY <1>1, AppendProperties DEF Entered
<1>3. Len(q) + 1 \in 1..Len(Entered(q, depth))
  BY <1>2
<1> QED
  BY <1>2, <1>3 DEF Waits, At

(* Dropping a flush that only unwinds leaves the ones that wait. *)
LEMMA WithoutWaits ==
  ASSUME NEW q \in Seq(Flush), NEW n \in 1..Len(q), q[n].pc = "unwind", Waits(q)
  PROVE  Waits(Without(q, n))
<1>1. PICK m \in 1..Len(q) : q[m].pc \in {"queued", "ran"}
  BY DEF Waits
<1>2. m # n
  BY <1>1
<1>3. CASE m < n
  <2>1. m \in 1..(n - 1) /\ m \in 1..Len(Without(q, n))
    BY <1>3, WithoutProperties
  <2> QED
    BY <1>1, <2>1, WithoutProperties DEF Waits
<1>4. CASE m > n
  <2>1. m \in (n + 1)..Len(q) /\ m - 1 \in 1..Len(Without(q, n))
    BY <1>4, WithoutProperties
  <2> QED
    BY <1>1, <2>1, WithoutProperties DEF Waits
<1> QED
  BY <1>2, <1>3, <1>4

(* Writing one flush, to a state that waits or in place of one that does   *)
(* not wait, leaves a flush that waits.                                    *)
LEMMA ExceptWaits ==
  ASSUME NEW q \in Seq(Flush), NEW n \in 1..Len(q), NEW f \in Flush,
         \/ f.pc \in {"queued", "ran"}
         \/ q[n].pc = "unwind" /\ Waits(q)
  PROVE  Waits([q EXCEPT ![n] = f])
<1>1. Len([q EXCEPT ![n] = f]) = Len(q)
  BY ExceptSeq
<1>2. \A m \in 1..Len(q) : [q EXCEPT ![n] = f][m] = IF m = n THEN f ELSE q[m]
  BY ExceptSeq
<1>3. CASE f.pc \in {"queued", "ran"}
  BY <1>1, <1>2, <1>3 DEF Waits
<1>4. CASE q[n].pc = "unwind" /\ Waits(q)
  <2>1. PICK m \in 1..Len(q) : q[m].pc \in {"queued", "ran"}
    BY <1>4 DEF Waits
  <2>2. m # n
    BY <1>4, <2>1
  <2> QED
    BY <1>1, <1>2, <2>1, <2>2 DEF Waits
<1> QED
  BY <1>3, <1>4

(* The flag `on' of weavekv.js is cleared once per frame, also for a flush *)
(* that another commit() started meanwhile; still no transaction is left   *)
(* in the queue with nobody to flush it.                                   *)
THEOREM FlushIsNeverLost == Spec => []NoLostFlush
<1> DEFINE Sound == FlagIsSound /\ NoLostFlush
<1>0. Sound <=> ((on => Waits(flushes)) /\ (c # <<>> => Waits(flushes)))
  BY DEF FlagIsSound, NoLostFlush, Waits
<1>1. Init => Sound
  BY DEF Init, FlagIsSound, NoLostFlush
<1>2. TypeOK /\ Sound /\ [Next]_vars => Sound'
  <2> SUFFICES ASSUME TypeOK, Sound, [Next]_vars
               PROVE  /\ on' => Waits(flushes')
                      /\ c' # <<>> => Waits(flushes')
    BY DEF FlagIsSound, NoLostFlush, Waits
  <2>0. flushes \in Seq(Flush)
    BY DEF TypeOK
  <2> HIDE DEF Sound
  <2> DEFINE Goal == (on' => Waits(flushes')) /\ (c' # <<>> => Waits(flushes'))
  <2>1. ASSUME NEW k \in Key, NEW v \in Val \cup {NULL}, put(k, v)
        PROVE  Goal
    BY <1>0, <2>1 DEF put
  <2>2. CASE reset
    BY <1>0, <2>2 DEF reset
  <2>3. CASE commit
    <3>1. Waits(flushes')
      BY <1>0, <2>0, <2>3, EnteredWaits DEF commit
    <3> QED
      BY <3>1
  <2>4. ASSUME NEW n \in 1..Len(flushes), transaction(n)
        PROVE  Goal
    <3>1. At("ran", flushes[n].depth, Drained(c)) \in Flush
      BY <2>0, DrainedType, FlushFields, AtType DEF TypeOK
    <3>2. Waits(flushes')
      BY <2>0, <2>4, <3>1, ExceptWaits DEF transaction, At
    <3> QED
      BY <3>2
  <2>5. ASSUME NEW n \in 1..Len(flushes), settle(n)
        PROVE  Goal
    <3>1. CASE c # <<>>
      <4>1. flushes[n].depth + 1 \in Nat \ {0}
        BY <2>0, FlushFields
      <4>2. Without(flushes, n) \in Seq(Flush)
        BY <2>0, WithoutProperties
      <4>3. Waits(flushes')
        BY <2>5, <3>1, <4>1, <4>2, EnteredWaits DEF settle, recommit
      <4> QED
        BY <4>3
    <3>2. CASE c = <<>>
      BY <2>5, <3>2 DEF settle, recommit
    <3> QED
      BY <3>1, <3>2
  <2>6. ASSUME NEW n \in 1..Len(flushes), unwind(n)
        PROVE  Goal
    <3>1. on' = FALSE /\ c' = c /\ flushes[n].pc = "unwind"
      BY <2>6 DEF unwind
    <3>2. ASSUME c # <<>>
          PROVE  Waits(flushes')
      <4>1. Waits(flushes)
        BY <1>0, <3>2
      <4>2. CASE flushes[n].depth = 1
        BY <2>0, <2>6, <3>1, <4>1, <4>2, WithoutWaits DEF unwind
      <4>3. CASE flushes[n].depth # 1
        <5>1. flushes[n].depth - 1 \in Nat \ {0}
          BY <2>0, <4>3, FlushFields
        <5>2. At("unwind", flushes[n].depth - 1, <<>>) \in Flush
          BY <5>1, AtType, EmptySeq
        <5> QED
          BY <2>0, <2>6, <3>1, <4>1, <4>3, <5>2, ExceptWaits DEF unwind
      <4> QED
        BY <4>2, <4>3
    <3> QED
      BY <3>1, <3>2
  <2>7. CASE restart
    BY <2>7 DEF restart
  <2>8. CASE UNCHANGED vars
    BY <1>0, <2>8 DEF vars, memory
  <2> QED
    BY <2>1, <2>2, <2>3, <2>4, <2>5, <2>6, <2>7, <2>8 DEF Next
<1> QED
  BY <1>1, <1>2, TypeCorrect, PTL DEF Spec

-----------------------------------------------------------------------------
LEMMA LastUnique ==
  ASSUME NEW S, S \subseteq Int, NEW n, NEW m, IsLast(n, S), IsLast(m, S)
  PROVE  n = m
BY DEF IsLast

(* The CHOOSE of Applied is the entry that touches the key last. *)
LEMMA AppliedAt ==
  ASSUME NEW st, NEW q \in Seq(Entry), NEW k \in Key,
         NEW n \in 1..Len(q), IsLast(n, Touching(q, k))
  PROVE  Applied(st, q)[k] = q[n].cl[k]
<1> DEFINE m == CHOOSE m \in 1..Len(q) : IsLast(m, Touching(q, k))
<1>1. m \in 1..Len(q) /\ IsLast(m, Touching(q, k))
  OBVIOUS
<1>2. Touching(q, k) \subseteq Int /\ Touching(q, k) # {}
  BY DEF Touching, IsLast
<1>3. m = n
  <2> HIDE DEF m
  <2> QED
    BY <1>1, <1>2, LastUnique
<1>4. Applied(st, q)[k] = q[m].cl[k]
  BY <1>2 DEF Applied
<1> QED
  BY <1>3, <1>4

LEMMA ReplayAt ==
  ASSUME NEW log, DOMAIN log \subseteq Nat, NEW k,
         NEW j \in DOMAIN log, IsLast(j, Touched(log, k))
  PROVE  Replay(log, k) = log[j][k]
<1> DEFINE m == CHOOSE m \in DOMAIN log : IsLast(m, Touched(log, k))
<1>1. m \in DOMAIN log /\ IsLast(m, Touched(log, k))
  OBVIOUS
<1>2. Touched(log, k) \subseteq Int /\ Touched(log, k) # {}
  BY DEF Touched, IsLast
<1>3. m = j
  <2> HIDE DEF m
  <2> QED
    BY <1>1, <1>2, LastUnique
<1>4. Replay(log, k) = log[m][k]
  BY <1>2 DEF Replay
<1> QED
  BY <1>3, <1>4

(* A batch that continues the WAL puts the changes of its nth transaction  *)
(* under the number current + n.                                           *)
LEMMA LoggedAt ==
  ASSUME TypeOK, WalGapless, NEW K, NEW n \in 1..Len(c)
  PROVE  Logged(wal, c, K)[current + n] = Only(c[n].cl, K)
<1> DEFINE j == current + n
           S == {m \in 1..Len(c) : c[m].i = j}
           x == CHOOSE x \in 1..Len(c) : IsLast(x, S)
<1>1. Len(c) \in Nat /\ current \in Int
  BY DEF TypeOK
<1>2. S = {n}
  BY <1>1 DEF WalGapless
<1>3. j \in Numbers(c)
  BY <1>2 DEF Numbers
<1>4. IsLast(n, S)
  BY <1>1, <1>2 DEF IsLast
<1>5. x \in 1..Len(c) /\ IsLast(x, S)
  BY <1>4
<1>6. x = n
  BY <1>2, <1>5 DEF IsLast
<1>7. Logged(wal, c, K)[j] = Only(c[x].cl, K)
  BY <1>3 DEF Logged
<1> QED
  BY <1>6, <1>7

(* The public part of the durable store of weavekv.js is at every moment   *)
(* what replaying its durable WAL gives.                                   *)
THEOREM StoreIsAReplay == Spec => []StoreIsReplay
<1>1. Init => StoreIsReplay
  <2>1. ASSUME Init, NEW k \in Key
        PROVE  Touched(wal, k) = {} /\ store[k] = NULL
    BY <2>1 DEF Init, Touched
  <2> QED
    BY <2>1 DEF StoreIsReplay, Replay
<1>2. TypeOK /\ WalGapless /\ StoreIsReplay /\ [Next]_vars => StoreIsReplay'
  <2> SUFFICES ASSUME TypeOK, WalGapless, StoreIsReplay, [Next]_vars
               PROVE  StoreIsReplay'
    OBVIOUS
  <2>1. ASSUME UNCHANGED disk
        PROVE  StoreIsReplay'
    BY <2>1 DEF disk, StoreIsReplay, Replay, Touched
  <2>2. ASSUME NEW n \in 1..Len(flushes), transaction(n)
        PROVE  StoreIsReplay'
    <3> DEFINE P == Key \ Private
    <3> SUFFICES ASSUME NEW k \in P
                 PROVE  store'[k] = Replay(wal', k)
      BY DEF StoreIsReplay, Replay, Touched
    <3>1. /\ wal' = Logged(wal, c, P)
          /\ store' = Applied(store, c)
      BY <2>2 DEF transaction
    <3>2. Len(c) \in Nat /\ current \in Nat \cup {-1} /\ c \in Seq(Entry) /\ DOMAIN wal = 0..current
      BY DEF TypeOK, WalGapless
    <3>3. /\ DOMAIN wal' = DOMAIN wal \cup Numbers(c)
          /\ DOMAIN wal' \subseteq Nat
          /\ \A j \in DOMAIN wal \ Numbers(c) : wal'[j] = wal[j]
      <4> HIDE DEF P
      <4>1. /\ DOMAIN wal \subseteq Nat /\ \A j \in DOMAIN wal : wal[j] \in Buffer
            /\ c \in Seq(Entry)
        BY DEF TypeOK
      <4>2. /\ DOMAIN Logged(wal, c, P) = DOMAIN wal \cup Numbers(c)
            /\ DOMAIN Logged(wal, c, P) \subseteq Nat
            /\ \A j \in DOMAIN wal \ Numbers(c) : Logged(wal, c, P)[j] = wal[j]
        BY <4>1, LoggedType
      <4> QED
        BY <3>1, <4>2
    <3>4. Numbers(c) = (current + 1)..(current + Len(c))
      BY QueueNumbers
    <3>5. \A j \in DOMAIN wal : wal'[j] = wal[j] /\ j <= current
      BY <3>2, <3>3, <3>4
    <3>6. \A m \in 1..Len(c) : wal'[current + m][k] = c[m].cl[k] /\ current + m \in DOMAIN wal'
      <4>1. ASSUME NEW m \in 1..Len(c)
            PROVE  wal'[current + m][k] = c[m].cl[k]
        <5> HIDE DEF P
        <5>1. Logged(wal, c, P)[current + m] = Only(c[m].cl, P)
          BY LoggedAt
        <5>2. k \in Key
          BY DEF P
        <5> QED
          BY <3>1, <5>1, <5>2 DEF Only
      <4>2. ASSUME NEW m \in 1..Len(c)
            PROVE  current + m \in DOMAIN wal'
        BY <3>2, <3>3, <3>4
      <4> QED
        BY <4>1, <4>2
    <3>7. \A j \in DOMAIN wal' : j \in DOMAIN wal \/ (j - current \in 1..Len(c) /\ current + (j - current) = j)
      BY <3>2, <3>3, <3>4
    <3>8. CASE Touching(c, k) = {}
      <4>1. \A m \in 1..Len(c) : c[m].cl[k] = UNDEF
        BY <3>8 DEF Touching
      <4>2. Touched(wal', k) = Touched(wal, k)
        <5>1. ASSUME NEW j \in Touched(wal', k)
              PROVE  j \in Touched(wal, k)
          BY <3>5, <3>6, <3>7, <4>1 DEF Touched
        <5>2. ASSUME NEW j \in Touched(wal, k)
              PROVE  j \in Touched(wal', k)
          BY <3>3, <3>5 DEF Touched
        <5> QED
          BY <5>1, <5>2
      <4>3. store'[k] = store[k]
        BY <3>1, <3>8 DEF Applied
      <4>4. CASE Touched(wal, k) = {}
        BY <4>2, <4>3, <4>4 DEF StoreIsReplay, Replay
      <4>5. CASE Touched(wal, k) # {}
        <5>1. Touched(wal, k) \subseteq 0..current /\ current \in Nat
          BY <3>2, <4>5 DEF Touched
        <5>2. PICK j \in Touched(wal, k) : IsLast(j, Touched(wal, k))
          BY <4>5, <5>1, LastExists
        <5>3. j \in DOMAIN wal /\ j \in DOMAIN wal' /\ wal'[j] = wal[j]
          BY <3>3, <3>5 DEF Touched
        <5>4. Replay(wal, k) = wal[j][k]
          BY <3>2, <5>2, <5>3, ReplayAt
        <5>5. Replay(wal', k) = wal'[j][k]
          BY <3>3, <4>2, <5>2, <5>3, ReplayAt
        <5> QED
          BY <4>3, <5>3, <5>4, <5>5 DEF StoreIsReplay
      <4> QED
        BY <4>4, <4>5
    <3>9. CASE Touching(c, k) # {}
      <4>1. Touching(c, k) \subseteq 0..Len(c)
        BY <3>2 DEF Touching
      <4>2. PICK m \in Touching(c, k) : IsLast(m, Touching(c, k))
        BY <3>2, <3>9, <4>1, LastExists
      <4>3. m \in 1..Len(c) /\ c[m].cl[k] # UNDEF
        BY DEF Touching
      <4>4. store'[k] = c[m].cl[k]
        BY <3>1, <3>2, <4>2, <4>3, AppliedAt
      <4>5. current + m \in DOMAIN wal' /\ wal'[current + m][k] = c[m].cl[k]
        BY <3>6, <4>3
      <4>6. ASSUME NEW j \in Touched(wal', k)
            PROVE  j <= current + m
        <5>1. CASE j \in DOMAIN wal
          BY <3>2, <3>5, <4>3, <5>1
        <5>2. CASE j - current \in 1..Len(c) /\ current + (j - current) = j
          <6>1. c[j - current].cl[k] # UNDEF
            BY <3>6, <5>2 DEF Touched
          <6>2. j - current <= m
            BY <4>2, <5>2, <6>1 DEF Touching, IsLast
          <6>3. j \in Nat
            BY <3>3 DEF Touched
          <6> QED
            BY <3>2, <4>3, <6>2, <6>3
        <5> QED
          BY <3>7, <5>1, <5>2 DEF Touched
      <4>7. IsLast(current + m, Touched(wal', k))
        BY <4>3, <4>5, <4>6 DEF IsLast, Touched
      <4>8. Replay(wal', k) = wal'[current + m][k]
        BY <3>3, <4>5, <4>7, ReplayAt
      <4> QED
        BY <4>4, <4>5, <4>8
    <3> QED
      BY <3>8, <3>9
  <2>3. (\E k \in Key, v \in Val \cup {NULL} : put(k, v)) => UNCHANGED disk
    BY DEF put
  <2>4. reset \/ commit \/ restart => UNCHANGED disk
    BY DEF reset, commit, restart
  <2>5. (\E n \in 1..Len(flushes) : settle(n) \/ unwind(n)) => UNCHANGED disk
    BY DEF settle, unwind
  <2>6. UNCHANGED vars => UNCHANGED disk
    BY DEF vars
  <2> QED
    BY <2>1, <2>2, <2>3, <2>4, <2>5, <2>6 DEF Next
<1> QED
  BY <1>1, <1>2, TypeCorrect, WalIsGapless, PTL DEF Spec

-----------------------------------------------------------------------------
LEMMA OnlyType ==
  ASSUME NEW cl \in Buffer, NEW K
  PROVE  Only(cl, K) \in Buffer
BY DEF Only, Buffer, Cell

(* The abstract log is a sequence of the transactions numbered so far. *)
LEMMA CommittedSeq ==
  ASSUME TypeOK, WalGapless
  PROVE  /\ Committed \in Seq(Buffer)
         /\ Len(Committed) = i
<1>1. ASSUME NEW n \in 1..i
      PROVE  Committed[n] \in Buffer
  <2>1. CASE n <= current + 1
    <3>1. n - 1 \in DOMAIN wal
      BY <2>1 DEF TypeOK, WalGapless
    <3> QED
      BY <2>1, <3>1 DEF Committed, TypeOK
  <2>2. CASE ~(n <= current + 1)
    <3>1. n - 1 - current \in 1..Len(c)
      BY <2>2 DEF TypeOK, WalGapless
    <3>2. c[n - 1 - current] \in Entry
      BY <3>1 DEF TypeOK
    <3>3. c[n - 1 - current].cl \in Buffer
      BY <3>2 DEF Entry
    <3>4. Only(c[n - 1 - current].cl, Key \ Private) \in Buffer
      BY <3>3, OnlyType
    <3> QED
      BY <2>2, <3>4 DEF Committed
  <2> QED
    BY <2>1, <2>2
<1>2. i \in Nat /\ DOMAIN Committed = 1..i
  BY DEF TypeOK, Committed
<1>3. Committed = [n \in 1..i |-> Committed[n]]
  BY DEF Committed
<1>4. Committed \in [1..i -> Buffer]
  BY <1>1, <1>2, <1>3
<1> QED
  BY <1>2, <1>4

(* weavekv.js implements the abstract commit log: its public commit() is   *)
(* Commit, the callback of io.transaction is Flush, a restart is Crash,    *)
(* and nothing else it does can be seen in the log.                        *)
THEOREM StoreImplementsCommitLog == Spec => ImplementsCommitLog
<1> DEFINE IsSeq == Committed \in Seq(Buffer) /\ Len(Committed) = i
<1>0. TypeOK /\ WalGapless => IsSeq
  BY CommittedSeq
<1>1. Init => Abstract!Init
  <2> SUFFICES ASSUME Init
               PROVE  Committed = <<>> /\ current + 1 = 0
    BY DEF Abstract!Init
  <2>1. i = 0 /\ current = -1
    BY DEF Init, firstNumber
  <2>2. DOMAIN Committed = {}
    BY <2>1 DEF Committed
  <2>3. Committed = [n \in {} |-> Committed[n]]
    BY <2>1 DEF Committed
  <2> QED
    BY <2>1, <2>2, <2>3
<1>2. TypeOK /\ TypeOK' /\ WalGapless /\ WalGapless' /\ IsSeq' /\ [Next]_vars
        => [Abstract!Next]_<<Committed, current + 1>>
  <2> SUFFICES ASSUME TypeOK, TypeOK', WalGapless, WalGapless', IsSeq', [Next]_vars
               PROVE  [Abstract!Next]_<<Committed, current + 1>>
    OBVIOUS
  <2>0. /\ Committed \in Seq(Buffer) /\ Len(Committed) = i
        /\ i \in Nat /\ current \in Nat \cup {-1} /\ Len(c) \in Nat
        /\ i = current + 1 + Len(c)
    <3>1. Committed \in Seq(Buffer) /\ Len(Committed) = i
      BY CommittedSeq
    <3>2. i \in Nat /\ current \in Nat \cup {-1} /\ Len(c) \in Nat
      BY DEF TypeOK
    <3>3. i = current + 1 + Len(c)
      BY <3>2 DEF WalGapless
    <3> QED
      BY <3>1, <3>2, <3>3
  <2>1. ASSUME UNCHANGED <<c, i, wal, current>>
        PROVE  UNCHANGED <<Committed, current + 1>>
    BY <2>1 DEF Committed
  <2>2. CASE commit
    <3> DEFINE e == Only(l, Key \ Private)
    <3>1. e \in Buffer
      BY OnlyType DEF TypeOK
    <3>2. /\ i' = i + 1 /\ wal' = wal /\ current' = current
          /\ c' = Append(c, [i |-> i, cl |-> l])
      BY <2>2 DEF commit, disk
    <3>3. c \in Seq(Entry) /\ [i |-> i, cl |-> l] \in Entry
      BY DEF TypeOK, Entry
    <3>4. /\ \A n \in 1..Len(c) : c'[n] = c[n]
          /\ c'[Len(c) + 1] = [i |-> i, cl |-> l]
      BY <3>2, <3>3, AppendProperties
    <3>5. ASSUME NEW n \in 1..i
          PROVE  Committed'[n] = Committed[n]
      <4>1. Committed'[n] = IF n <= current + 1 THEN wal[n - 1]
                            ELSE Only(c'[n - 1 - current].cl, Key \ Private)
        BY <2>0, <3>2 DEF Committed
      <4>2. ~(n <= current + 1) => c'[n - 1 - current] = c[n - 1 - current]
        <5>1. ~(n <= current + 1) => n - 1 - current \in 1..Len(c)
          BY <2>0
        <5> QED
          BY <3>4, <5>1
      <4> QED
        BY <4>1, <4>2 DEF Committed
    <3>6. Committed'[i + 1] = e
      <4>1. Committed'[i + 1] = IF i + 1 <= current + 1 THEN wal[i]
                                ELSE Only(c'[i + 1 - 1 - current].cl, Key \ Private)
        BY <2>0, <3>2 DEF Committed
      <4>2. i + 1 - 1 - current = Len(c) + 1 /\ ~(i + 1 <= current + 1)
        BY <2>0
      <4> QED
        BY <3>4, <4>1, <4>2
    <3>7. Committed' \in Seq(Buffer) /\ Len(Committed') = i + 1
      <4>1. Committed' \in Seq(Buffer) /\ Len(Committed') = i'
        OBVIOUS
      <4> QED
        BY <3>2, <4>1
    <3>8. Committed' = Append(Committed, e)
      <4> HIDE DEF e
      <4>1. /\ Append(Committed, e) \in Seq(Buffer)
            /\ Len(Append(Committed, e)) = i + 1
            /\ \A n \in 1..i : Append(Committed, e)[n] = Committed[n]
            /\ Append(Committed, e)[i + 1] = e
        BY <2>0, <3>1, AppendProperties
      <4>2. \A n \in 1..Len(Committed') : Committed'[n] = Append(Committed, e)[n]
        BY <2>0, <3>5, <3>6, <3>7, <4>1
      <4> QED
        BY <3>7, <4>1, <4>2, SeqEqual
    <3> QED
      BY <3>1, <3>2, <3>8 DEF Abstract!Next, Abstract!Commit
  <2>3. ASSUME NEW n \in 1..Len(flushes), transaction(n)
        PROVE  Abstract!Flush
    <3> DEFINE P == Key \ Private
    <3>1. /\ wal' = Logged(wal, c, P) /\ c' = <<>> /\ i' = i
      BY <2>3 DEF transaction
    <3>2. current' = current + Len(c)
      <4> HIDE DEF IsSeq, P
      <4>1. i' = current' + 1 + Len(c')
        BY DEF WalGapless
      <4>2. current' \in Nat \cup {-1}
        BY DEF TypeOK
      <4>3. Len(c') = 0
        BY <3>1, EmptySeq
      <4>4. i = current' + 1
        BY <3>1, <4>1, <4>2, <4>3
      <4>5. current \in Int /\ current' \in Int
        BY <2>0, <4>2
      <4>6. PICK m \in Int : m = Len(c)
        BY <2>0
      <4>7. i = current + 1 + m /\ i \in Int
        BY <2>0, <4>6
      <4>8. current' = current + m
        <5>1. PICK x \in Int, y \in Int : x = current /\ y = current'
          BY <4>5
        <5>2. i = y + 1 /\ i = x + 1 + m
          BY <4>4, <4>7, <5>1
        <5>3. y = x + m
          BY <5>2
        <5> QED
          BY <5>1, <5>3
      <4> QED
        BY <4>6, <4>8
    <3>3. ASSUME NEW m \in 1..i
          PROVE  Committed'[m] = Committed[m]
      <4>1. Committed'[m] = wal'[m - 1]
        BY <2>0, <3>1, <3>2 DEF Committed
      <4>2. CASE m <= current + 1
        <5>1. m - 1 \in DOMAIN wal
          BY <2>0, <4>2 DEF WalGapless
        <5>2. Numbers(c) = (current + 1)..(current + Len(c))
          BY QueueNumbers
        <5>3. m - 1 \notin Numbers(c)
          BY <2>0, <4>2, <5>2
        <5>4. wal'[m - 1] = wal[m - 1]
          BY <3>1, <5>1, <5>3 DEF Logged
        <5> QED
          BY <4>1, <4>2, <5>4 DEF Committed
      <4>3. CASE ~(m <= current + 1)
        <5>1. m - 1 - current \in 1..Len(c) /\ m - 1 = current + (m - 1 - current)
          BY <2>0, <4>3
        <5>2. Logged(wal, c, P)[current + (m - 1 - current)] = Only(c[m - 1 - current].cl, P)
          <6> HIDE DEF P
          <6> QED
            BY <5>1, LoggedAt
        <5> QED
          BY <3>1, <4>1, <4>3, <5>1, <5>2 DEF Committed
      <4> QED
        BY <4>2, <4>3
    <3>4. Committed' \in Seq(Buffer) /\ Len(Committed') = i
      <4>1. Committed' \in Seq(Buffer) /\ Len(Committed') = i'
        OBVIOUS
      <4> QED
        BY <3>1, <4>1
    <3>5. Committed' = Committed
      BY <2>0, <3>3, <3>4, SeqEqual
    <3> QED
      BY <2>0, <3>2, <3>5 DEF Abstract!Flush
  <2>4. CASE restart
    <3>1. /\ i' = current + 1 /\ wal' = wal /\ current' = current /\ c' = <<>>
      BY <2>4 DEF restart, firstNumber, disk
    <3>2. ASSUME NEW n \in 1..(current + 1)
          PROVE  Committed'[n] = Committed[n]
      BY <2>0, <3>1 DEF Committed
    <3>3. Committed' \in Seq(Buffer) /\ Len(Committed') = current + 1
      <4>1. Committed' \in Seq(Buffer) /\ Len(Committed') = i'
        OBVIOUS
      <4> QED
        BY <3>1, <4>1
    <3>4. Committed' = SubSeq(Committed, 1, current + 1)
      <4>1. /\ SubSeq(Committed, 1, current + 1) \in Seq(Buffer)
            /\ Len(SubSeq(Committed, 1, current + 1)) = current + 1
            /\ \A n \in 1..(current + 1) :
                 SubSeq(Committed, 1, current + 1)[n] = Committed[n]
        BY <2>0, SubSeqProperties
      <4> QED
        BY <3>2, <3>3, <4>1, SeqEqual
    <3> QED
      BY <3>1, <3>4 DEF Abstract!Next, Abstract!Crash
  <2>5. (\E k \in Key, v \in Val \cup {NULL} : put(k, v))
          => UNCHANGED <<c, i, wal, current>>
    BY DEF put, disk
  <2>6. reset => UNCHANGED <<c, i, wal, current>>
    BY DEF reset, disk
  <2>7. (\E n \in 1..Len(flushes) : settle(n) \/ unwind(n))
          => UNCHANGED <<c, i, wal, current>>
    BY DEF settle, unwind, disk
  <2>8. UNCHANGED vars => UNCHANGED <<c, i, wal, current>>
    BY DEF vars, memory, disk
  <2> QED
    BY <2>1, <2>2, <2>3, <2>4, <2>5, <2>6, <2>7, <2>8 DEF Next, Abstract!Next
<1> QED
  BY <1>0, <1>1, <1>2, TypeCorrect, WalIsGapless, PTL DEF Spec, ImplementsCommitLog, Abstract!Spec

-----------------------------------------------------------------------------
(* The cache s agrees with what the flushes that are due will leave in the *)
(* store, and knows every key that the queue touches.                      *)
CacheIsAhead ==
  \A k \in Key :
    /\ s[k] = UNDEF => Touching(c, k) = {}
    /\ s[k] # UNDEF => Applied(store, c)[k] = s[k]

LEMMA AppliedEmpty ==
  ASSUME NEW st, NEW k \in Key
  PROVE  Touching(<<>>, k) = {} /\ Applied(st, <<>>)[k] = st[k]
<1>1. Len(<<>>) = 0
  BY EmptySeq
<1>2. Touching(<<>>, k) = {}
  BY <1>1 DEF Touching
<1> QED
  BY <1>2 DEF Applied

(* A transaction that is queued decides the keys it touches, and no other. *)
LEMMA AppliedAppend ==
  ASSUME NEW st, NEW q \in Seq(Entry), NEW e \in Entry, NEW k \in Key
  PROVE  /\ e.cl[k] = UNDEF => /\ Touching(Append(q, e), k) = Touching(q, k)
                               /\ Applied(st, Append(q, e))[k] = Applied(st, q)[k]
         /\ e.cl[k] # UNDEF => Applied(st, Append(q, e))[k] = e.cl[k]
<1> DEFINE r == Append(q, e)
<1>1. /\ r \in Seq(Entry) /\ Len(r) = Len(q) + 1 /\ Len(q) \in Nat
      /\ \A n \in 1..Len(q) : r[n] = q[n]
      /\ r[Len(q) + 1] = e
  BY AppendProperties
<1> HIDE DEF r
<1>2. CASE e.cl[k] = UNDEF
  <2>1. Touching(r, k) = Touching(q, k)
    BY <1>1, <1>2 DEF Touching
  <2>2. CASE Touching(q, k) = {}
    BY <2>1, <2>2, <1>2 DEF Applied, r
  <2>3. CASE Touching(q, k) # {}
    <3>1. Touching(q, k) \subseteq 0..Len(q)
      BY <1>1 DEF Touching
    <3>2. PICK n \in Touching(q, k) : IsLast(n, Touching(q, k))
      BY <1>1, <2>3, <3>1, LastExists
    <3>3. n \in 1..Len(q) /\ n \in 1..Len(r) /\ r[n] = q[n]
      BY <1>1 DEF Touching
    <3>4. Applied(st, q)[k] = q[n].cl[k]
      BY <3>2, <3>3, AppliedAt
    <3>5. Applied(st, r)[k] = r[n].cl[k]
      BY <1>1, <2>1, <3>2, <3>3, AppliedAt
    <3> QED
      BY <1>2, <2>1, <3>3, <3>4, <3>5 DEF r
  <2> QED
    BY <2>2, <2>3
<1>3. CASE e.cl[k] # UNDEF
  <2>1. IsLast(Len(r), Touching(r, k)) /\ Len(r) \in 1..Len(r)
    BY <1>1, <1>3 DEF IsLast, Touching
  <2>2. Applied(st, r)[k] = r[Len(r)].cl[k]
    BY <1>1, <2>1, AppliedAt
  <2> QED
    BY <1>1, <1>3, <2>2 DEF r
<1> QED
  BY <1>2, <1>3

(* kv.get outside a query returns the last committed value, whatever has   *)
(* been flushed, except behind a delete that is not flushed yet.           *)
THEOREM ReadsAreLatest == Spec => []ReadsLatest
<1>1. Init => CacheIsAhead
  <2> SUFFICES ASSUME Init
               PROVE  \A k \in Key : s[k] = UNDEF /\ Touching(c, k) = {}
    BY Zenon DEF CacheIsAhead
  <2>1. c = <<>> /\ \A k \in Key : s[k] = UNDEF
    BY DEF Init, Empty
  <2> QED
    BY <2>1, AppliedEmpty, Zenon
<1>2. TypeOK /\ CacheIsAhead /\ [Next]_vars => CacheIsAhead'
  <2> SUFFICES ASSUME TypeOK, CacheIsAhead, [Next]_vars,
                      NEW k \in Key
               PROVE  /\ s'[k] = UNDEF => Touching(c', k) = {}
                      /\ s'[k] # UNDEF => Applied(store', c')[k] = s'[k]
    BY DEF CacheIsAhead, Touching, Applied, IsLast
  <2>1. ASSUME UNCHANGED <<s, c, store>>
        PROVE  /\ s'[k] = UNDEF => Touching(c', k) = {}
               /\ s'[k] # UNDEF => Applied(store', c')[k] = s'[k]
    BY <2>1 DEF CacheIsAhead
  <2>2. CASE commit
    <3> DEFINE e == [i |-> i, cl |-> l]
    <3>1. e \in Entry /\ c \in Seq(Entry) /\ e.cl = l
      BY DEF TypeOK, Entry
    <3>2. c' = Append(c, e) /\ store' = store /\ s' = Over(s, l)
      BY <2>2 DEF commit, disk
    <3>3. s'[k] = IF l[k] = UNDEF THEN s[k] ELSE l[k]
      BY <3>2 DEF Over
    <3> HIDE DEF e
    <3>4. /\ l[k] = UNDEF => /\ Touching(c', k) = Touching(c, k)
                             /\ Applied(store', c')[k] = Applied(store, c)[k]
          /\ l[k] # UNDEF => Applied(store', c')[k] = l[k]
      BY <3>1, <3>2, AppliedAppend
    <3> QED
      BY <3>3, <3>4 DEF CacheIsAhead
  <2>3. ASSUME NEW n \in 1..Len(flushes), transaction(n)
        PROVE  /\ s'[k] = UNDEF => Touching(c', k) = {}
               /\ s'[k] # UNDEF => Applied(store', c')[k] = s'[k]
    <3>1. c' = <<>> /\ store' = Applied(store, c) /\ s' = s
      BY <2>3 DEF transaction
    <3>2. Touching(c', k) = {} /\ Applied(store', c')[k] = store'[k]
      BY <3>1, AppliedEmpty
    <3> QED
      BY <3>1, <3>2 DEF CacheIsAhead
  <2>4. CASE restart
    <3>1. c' = <<>> /\ s'[k] = UNDEF
      BY <2>4 DEF restart, Empty
    <3> QED
      BY <3>1, AppliedEmpty
  <2>5. (\E j \in Key, v \in Val \cup {NULL} : put(j, v)) => UNCHANGED <<s, c, store>>
    BY DEF put, disk
  <2>6. reset => UNCHANGED <<s, c, store>>
    BY DEF reset, disk
  <2>7. (\E n \in 1..Len(flushes) : settle(n) \/ unwind(n)) => UNCHANGED <<s, c, store>>
    BY DEF settle, unwind, disk
  <2>8. UNCHANGED vars => UNCHANGED <<s, c, store>>
    BY DEF vars, memory, disk
  <2> QED
    BY <2>1, <2>2, <2>3, <2>4, <2>5, <2>6, <2>7, <2>8 DEF Next
<1>3. TypeOK /\ CacheIsAhead => ReadsLatest
  <2> SUFFICES ASSUME TypeOK, CacheIsAhead, NEW k \in Key, l[k] = UNDEF
               PROVE  \/ get(k) = Applied(store, c)[k]
                      \/ /\ Applied(store, c)[k] = NULL
                         /\ Touching(c, k) # {}
                         /\ get(k) = store[k]
    BY DEF ReadsLatest
  <2>1. get(k) = IF s[k] \in {NULL, UNDEF} THEN store[k] ELSE s[k]
    BY DEF get, Coalesce
  <2>2. Touching(c, k) = {} => Applied(store, c)[k] = store[k]
    BY DEF Applied
  <2> QED
    BY <2>1, <2>2 DEF CacheIsAhead
<1> QED
  BY <1>1, <1>2, <1>3, TypeCorrect, PTL DEF Spec

-----------------------------------------------------------------------------
(* The transactions that have run and are not reported yet continue what   *)
(* was reported, in the order of their flushes.  at[n] is the number that  *)
(* follows everything drained by the flushes before the nth: it starts at  *)
(* lo, ends at hi, and only a flush that has run moves it.                 *)
Ran(fs, n) == fs[n].pc = "ran"
ChainAt(fs, at, lo, hi) ==
  /\ at \in [1..(Len(fs) + 1) -> Nat]
  /\ at[1] = lo /\ at[Len(fs) + 1] = hi
  /\ \A m, n \in 1..(Len(fs) + 1) :
       m <= n /\ (\A x \in m..(n - 1) : ~Ran(fs, x)) => at[m] = at[n]
  /\ \A n \in 1..Len(fs) : Ran(fs, n) =>
       /\ at[n + 1] = at[n] + Len(fs[n].data)
       /\ \A x \in 1..Len(fs[n].data) : fs[n].data[x] = at[n] + x - 1
Chain(fs, lo, hi) == \E at \in [1..(Len(fs) + 1) -> Nat] : ChainAt(fs, at, lo, hi)

(* No flush that waits for its transaction is older than one that has run. *)
RunInOrder(fs) ==
  \A m, n \in 1..Len(fs) : m < n => ~(fs[m].pc = "queued" /\ Ran(fs, n))

LEMMA ChainAppend ==
  ASSUME NEW fs \in Seq(Flush), NEW e \in Flush, e.pc # "ran",
         NEW lo \in Nat, NEW hi \in Nat, Chain(fs, lo, hi)
  PROVE  Chain(Append(fs, e), lo, hi)
<1> DEFINE gs == Append(fs, e)
<1>1. /\ gs \in Seq(Flush) /\ Len(gs) = Len(fs) + 1 /\ Len(fs) \in Nat
      /\ \A n \in 1..Len(fs) : gs[n] = fs[n]
      /\ gs[Len(fs) + 1] = e
  BY AppendProperties
<1> HIDE DEF gs
<1>2. PICK at \in [1..(Len(fs) + 1) -> Nat] : ChainAt(fs, at, lo, hi)
  BY DEF Chain
<1> DEFINE bt == [n \in 1..(Len(gs) + 1) |-> IF n <= Len(fs) + 1 THEN at[n] ELSE hi]
<1>3. bt \in [1..(Len(gs) + 1) -> Nat] /\ bt[1] = lo /\ bt[Len(gs) + 1] = hi
  BY <1>1, <1>2 DEF ChainAt
<1>4. ASSUME NEW m \in 1..(Len(gs) + 1), NEW n \in 1..(Len(gs) + 1),
             m <= n, \A x \in m..(n - 1) : ~Ran(gs, x)
      PROVE  bt[m] = bt[n]
  <2>1. CASE n <= Len(fs) + 1
    <3>1. \A x \in m..(n - 1) : ~Ran(fs, x)
      BY <1>1, <1>4, <2>1 DEF Ran
    <3>2. m \in 1..(Len(fs) + 1) /\ n \in 1..(Len(fs) + 1)
      BY <1>1, <1>4, <2>1
    <3>3. at[m] = at[n]
      BY <1>2, <1>4, <3>1, <3>2 DEF ChainAt
    <3> QED
      BY <1>1, <2>1, <3>2, <3>3
  <2>2. CASE ~(n <= Len(fs) + 1)
    <3>1. n = Len(fs) + 2
      BY <1>1, <2>2
    <3>2. CASE m = n
      BY <3>2
    <3>3. CASE m # n
      <4>1. m \in 1..(Len(fs) + 1)
        BY <1>1, <1>4, <3>1, <3>3
      <4>2. \A x \in m..(Len(fs) + 1 - 1) : ~Ran(fs, x)
        BY <1>1, <1>4, <3>1, <4>1 DEF Ran
      <4>3. at[m] = at[Len(fs) + 1]
        BY <1>1, <1>2, <4>1, <4>2 DEF ChainAt
      <4> QED
        BY <1>1, <1>2, <3>1, <4>1, <4>3 DEF ChainAt
    <3> QED
      BY <3>2, <3>3
  <2> QED
    BY <2>1, <2>2
<1>5. ASSUME NEW n \in 1..Len(gs), Ran(gs, n)
      PROVE  /\ bt[n + 1] = bt[n] + Len(gs[n].data)
             /\ \A x \in 1..Len(gs[n].data) : gs[n].data[x] = bt[n] + x - 1
  <2>1. n \in 1..Len(fs) /\ Ran(fs, n) /\ gs[n] = fs[n]
    BY <1>1, <1>5 DEF Ran
  <2>2. bt[n] = at[n] /\ bt[n + 1] = at[n + 1]
    BY <1>1, <2>1
  <2> QED
    BY <1>2, <2>1, <2>2 DEF ChainAt
<1> HIDE DEF bt
<1>6. ChainAt(gs, bt, lo, hi)
  BY <1>3, <1>4, <1>5 DEF ChainAt
<1> QED
  BY <1>3, <1>6 DEF Chain, gs

(* The oldest queued flush runs its transaction: what it drains follows    *)
(* what all others have drained.                                           *)
LEMMA ChainRuns ==
  ASSUME NEW fs \in Seq(Flush), NEW e \in Flush, e.pc = "ran", NEW n \in 1..Len(fs),
         NEW lo \in Nat, NEW hi \in Nat, Chain(fs, lo, hi),
         \A m \in n..Len(fs) : ~Ran(fs, m),
         \A x \in 1..Len(e.data) : e.data[x] = hi + x - 1,
         Len(e.data) \in Nat
  PROVE  Chain([fs EXCEPT ![n] = e], lo, hi + Len(e.data))
<1> DEFINE gs == [fs EXCEPT ![n] = e]
           top == hi + Len(e.data)
<1>1. /\ gs \in Seq(Flush) /\ Len(gs) = Len(fs) /\ Len(fs) \in Nat
      /\ \A m \in 1..Len(fs) : m # n => gs[m] = fs[m]
      /\ gs[n] = e
  BY ExceptSeq
<1> HIDE DEF gs
<1>2. PICK at \in [1..(Len(fs) + 1) -> Nat] : ChainAt(fs, at, lo, hi)
  BY DEF Chain
<1>3. \A m \in n..(Len(fs) + 1) : at[m] = hi
  <2> SUFFICES ASSUME NEW m \in n..(Len(fs) + 1)
               PROVE  at[m] = hi
    OBVIOUS
  <2>1. m \in 1..(Len(fs) + 1) /\ \A x \in m..(Len(fs) + 1 - 1) : ~Ran(fs, x)
    BY <1>1
  <2> QED
    BY <1>1, <1>2, <2>1 DEF ChainAt
<1> DEFINE bt == [m \in 1..(Len(gs) + 1) |-> IF m <= n THEN at[m] ELSE top]
<1>4. bt \in [1..(Len(gs) + 1) -> Nat] /\ bt[1] = lo /\ bt[Len(gs) + 1] = top
  BY <1>1, <1>2 DEF ChainAt
<1>5. ASSUME NEW m \in 1..(Len(gs) + 1), NEW k \in 1..(Len(gs) + 1),
             m <= k, \A x \in m..(k - 1) : ~Ran(gs, x)
      PROVE  bt[m] = bt[k]
  <2>1. CASE k <= n
    <3>1. \A x \in m..(k - 1) : ~Ran(fs, x)
      BY <1>1, <1>5, <2>1 DEF Ran
    <3>2. at[m] = at[k]
      BY <1>1, <1>2, <1>5, <3>1 DEF ChainAt
    <3> QED
      BY <1>1, <1>5, <2>1, <3>2
  <2>2. CASE n < m
    BY <1>1, <1>5, <2>2
  <2>3. CASE m <= n /\ n < k
    <3>1. n \in m..(k - 1) /\ Ran(gs, n)
      BY <1>1, <2>3 DEF Ran
    <3> QED
      BY <1>5, <3>1
  <2> QED
    BY <1>1, <1>5, <2>1, <2>2, <2>3
<1>6. ASSUME NEW k \in 1..Len(gs), Ran(gs, k)
      PROVE  /\ bt[k + 1] = bt[k] + Len(gs[k].data)
             /\ \A x \in 1..Len(gs[k].data) : gs[k].data[x] = bt[k] + x - 1
  <2>1. CASE k = n
    <3>1. bt[k] = hi /\ bt[k + 1] = top /\ gs[k] = e
      BY <1>1, <1>3, <2>1
    <3> QED
      BY <3>1
  <2>2. CASE k # n
    <3>1. k < n /\ Ran(fs, k) /\ gs[k] = fs[k] /\ k \in 1..Len(fs)
      BY <1>1, <1>6, <2>2 DEF Ran
    <3>2. bt[k] = at[k] /\ bt[k + 1] = at[k + 1]
      BY <1>1, <3>1
    <3> QED
      BY <1>2, <3>1, <3>2 DEF ChainAt
  <2> QED
    BY <2>1, <2>2
<1>7. top \in Nat
  OBVIOUS
<1> HIDE DEF bt, top
<1>8. ChainAt(gs, bt, lo, top)
  BY <1>4, <1>5, <1>6 DEF ChainAt
<1> QED
  BY <1>4, <1>8 DEF Chain, gs, top

(* The oldest flush that has run is reported: it goes on from lo. *)
LEMMA ChainReports ==
  ASSUME NEW fs \in Seq(Flush), NEW e \in Flush, e.pc # "ran", NEW n \in 1..Len(fs),
         NEW lo \in Nat, NEW hi \in Nat, Chain(fs, lo, hi),
         Ran(fs, n), \A m \in 1..(n - 1) : ~Ran(fs, m), Len(fs[n].data) \in Nat
  PROVE  /\ Chain([fs EXCEPT ![n] = e], lo + Len(fs[n].data), hi)
         /\ \A x \in 1..Len(fs[n].data) : fs[n].data[x] = lo + x - 1
<1> DEFINE gs == [fs EXCEPT ![n] = e]
           low == lo + Len(fs[n].data)
<1>1. /\ gs \in Seq(Flush) /\ Len(gs) = Len(fs) /\ Len(fs) \in Nat
      /\ \A m \in 1..Len(fs) : m # n => gs[m] = fs[m]
      /\ gs[n] = e
  BY ExceptSeq
<1> HIDE DEF gs
<1>2. PICK at \in [1..(Len(fs) + 1) -> Nat] : ChainAt(fs, at, lo, hi)
  BY DEF Chain
<1>3. at[n] = lo
  <2>1. 1 \in 1..(Len(fs) + 1) /\ n \in 1..(Len(fs) + 1) /\ 1 <= n
    BY <1>1
  <2> QED
    BY <1>2, <2>1 DEF ChainAt
<1>4. /\ at[n + 1] = low
      /\ \A x \in 1..Len(fs[n].data) : fs[n].data[x] = lo + x - 1
  BY <1>2, <1>3 DEF ChainAt
<1> DEFINE bt == [m \in 1..(Len(gs) + 1) |-> IF m <= n THEN low ELSE at[m]]
<1>5. bt \in [1..(Len(gs) + 1) -> Nat] /\ bt[1] = low /\ bt[Len(gs) + 1] = hi
  BY <1>1, <1>2 DEF ChainAt
<1>6. ASSUME NEW m \in 1..(Len(gs) + 1), NEW k \in 1..(Len(gs) + 1),
             m <= k, \A x \in m..(k - 1) : ~Ran(gs, x)
      PROVE  bt[m] = bt[k]
  <2>1. CASE k <= n
    BY <1>1, <1>6, <2>1
  <2>2. CASE n < m
    <3>1. \A x \in m..(k - 1) : ~Ran(fs, x)
      BY <1>1, <1>6, <2>2 DEF Ran
    <3>2. at[m] = at[k]
      BY <1>1, <1>2, <1>6, <3>1 DEF ChainAt
    <3> QED
      BY <1>1, <1>6, <2>2, <3>2
  <2>3. CASE m <= n /\ n < k
    <3>1. ASSUME NEW x \in (n + 1)..(k - 1)
          PROVE  ~Ran(fs, x)
      <4>1. x \in m..(k - 1) /\ x \in 1..Len(fs) /\ x # n
        BY <1>1, <1>6, <2>3
      <4> QED
        BY <1>1, <1>6, <4>1 DEF Ran
    <3>2. at[n + 1] = at[k]
      <4>1. n + 1 \in 1..(Len(fs) + 1) /\ k \in 1..(Len(fs) + 1) /\ n + 1 <= k
        BY <1>1, <1>6, <2>3
      <4> QED
        BY <1>2, <3>1, <4>1 DEF ChainAt
    <3> QED
      BY <1>1, <1>4, <2>3, <3>2
  <2> QED
    BY <1>1, <1>6, <2>1, <2>2, <2>3
<1>7. ASSUME NEW k \in 1..Len(gs), Ran(gs, k)
      PROVE  /\ bt[k + 1] = bt[k] + Len(gs[k].data)
             /\ \A x \in 1..Len(gs[k].data) : gs[k].data[x] = bt[k] + x - 1
  <2>1. n < k /\ Ran(fs, k) /\ gs[k] = fs[k] /\ k \in 1..Len(fs)
    <3>1. k \in 1..Len(fs) /\ k # n
      BY <1>1, <1>7 DEF Ran
    <3>2. gs[k] = fs[k]
      BY <1>1, <3>1
    <3>3. Ran(fs, k)
      BY <1>7, <3>2 DEF Ran
    <3>4. ~(k < n)
      BY <3>1, <3>3
    <3> QED
      BY <3>1, <3>2, <3>3, <3>4
  <2>2. bt[k] = at[k] /\ bt[k + 1] = at[k + 1]
    BY <1>1, <2>1
  <2> QED
    BY <1>2, <2>1, <2>2, SMTT(30) DEF ChainAt
<1>8. low \in Nat
  OBVIOUS
<1> HIDE DEF bt, low
<1>9. ChainAt(gs, bt, low, hi)
  BY <1>5, <1>6, <1>7 DEF ChainAt
<1> QED
  BY <1>4, <1>5, <1>9 DEF Chain, gs, low

(* A flush that has nothing to report can leave. *)
LEMMA ChainWithout ==
  ASSUME NEW fs \in Seq(Flush), NEW n \in 1..Len(fs), ~Ran(fs, n),
         NEW lo \in Nat, NEW hi \in Nat, Chain(fs, lo, hi)
  PROVE  Chain(Without(fs, n), lo, hi)
<1> DEFINE gs == Without(fs, n)
<1>1. /\ gs \in Seq(Flush) /\ Len(gs) = Len(fs) - 1 /\ Len(fs) \in Nat /\ Len(gs) \in Nat
      /\ \A m \in 1..(n - 1) : gs[m] = fs[m]
      /\ \A m \in (n + 1)..Len(fs) : gs[m - 1] = fs[m]
  <2>1. /\ gs \in Seq(Flush) /\ Len(gs) = Len(fs) - 1
        /\ \A m \in 1..(n - 1) : gs[m] = fs[m]
        /\ \A m \in (n + 1)..Len(fs) : gs[m - 1] = fs[m]
    BY WithoutProperties
  <2> HIDE DEF gs
  <2>2. Len(fs) \in Nat /\ Len(gs) \in Nat
    BY <2>1
  <2> QED
    BY <2>1, <2>2, Zenon
<1> HIDE DEF gs
<1>2. \A m \in n..Len(gs) : gs[m] = fs[m + 1]
  <2> SUFFICES ASSUME NEW m \in n..Len(gs)
               PROVE  gs[m] = fs[m + 1]
    OBVIOUS
  <2>1. m + 1 \in (n + 1)..Len(fs) /\ (m + 1) - 1 = m
    BY <1>1
  <2> QED
    BY <1>1, <2>1
<1>3. PICK at \in [1..(Len(fs) + 1) -> Nat] : ChainAt(fs, at, lo, hi)
  BY DEF Chain
<1>4. at[n] = at[n + 1]
  <2>1. \A x \in n..(n + 1 - 1) : ~Ran(fs, x)
    OBVIOUS
  <2>2. n \in 1..(Len(fs) + 1) /\ n + 1 \in 1..(Len(fs) + 1) /\ n <= n + 1
    BY <1>1
  <2> QED
    BY <1>3, <2>1, <2>2 DEF ChainAt
<1> DEFINE bt == [m \in 1..(Len(gs) + 1) |-> IF m <= n THEN at[m] ELSE at[m + 1]]
<1>5. bt \in [1..(Len(gs) + 1) -> Nat] /\ bt[1] = lo /\ bt[Len(gs) + 1] = hi
  <2>1. bt \in [1..(Len(gs) + 1) -> Nat]
    BY <1>1
  <2>2. bt[1] = lo
    BY <1>1, <1>3 DEF ChainAt
  <2>3. bt[Len(gs) + 1] = hi
    BY <1>1, <1>3, <1>4 DEF ChainAt
  <2> QED
    BY <2>1, <2>2, <2>3
<1>6. ASSUME NEW m \in 1..(Len(gs) + 1), NEW k \in 1..(Len(gs) + 1),
             m <= k, \A x \in m..(k - 1) : ~Ran(gs, x)
      PROVE  bt[m] = bt[k]
  <2>1. CASE k <= n
    <3>1. \A x \in m..(k - 1) : ~Ran(fs, x)
      BY <1>1, <1>6, <2>1, SMTT(30) DEF Ran
    <3>2. at[m] = at[k]
      BY <1>1, <1>3, <1>6, <3>1 DEF ChainAt
    <3> QED
      BY <1>1, <1>6, <2>1, <3>2
  <2>2. CASE n < m
    <3>1. \A x \in (m + 1)..((k + 1) - 1) : ~Ran(fs, x)
      <4> SUFFICES ASSUME NEW x \in (m + 1)..((k + 1) - 1)
                   PROVE  ~Ran(fs, x)
        OBVIOUS
      <4>1. x - 1 \in m..(k - 1) /\ x \in (n + 1)..Len(fs)
        BY <1>1, <1>6, <2>2
      <4> QED
        BY <1>1, <1>6, <4>1 DEF Ran
    <3>2. at[m + 1] = at[k + 1]
      <4>1. m + 1 \in 1..(Len(fs) + 1) /\ k + 1 \in 1..(Len(fs) + 1) /\ m + 1 <= k + 1
        BY <1>1, <1>6
      <4> QED
        BY <1>3, <3>1, <4>1 DEF ChainAt
    <3> QED
      BY <1>1, <1>6, <2>2, <3>2
  <2>3. CASE m <= n /\ n < k
    <3>1. ASSUME NEW x \in m..((k + 1) - 1)
          PROVE  ~Ran(fs, x)
      <4>1. CASE x < n
        <5>1. x \in m..(k - 1) /\ x \in 1..(n - 1)
          BY <1>1, <1>6, <2>3, <4>1
        <5> QED
          BY <1>1, <1>6, <5>1 DEF Ran
      <4>2. CASE x = n
        BY <4>2
      <4>3. CASE n < x
        <5>1. x - 1 \in m..(k - 1) /\ x \in (n + 1)..Len(fs)
          BY <1>1, <1>6, <2>3, <4>3
        <5> QED
          BY <1>1, <1>6, <5>1 DEF Ran
      <4> QED
        BY <4>1, <4>2, <4>3
    <3>2. at[m] = at[k + 1]
      <4>1. m \in 1..(Len(fs) + 1) /\ k + 1 \in 1..(Len(fs) + 1) /\ m <= k + 1
        BY <1>1, <1>6
      <4> QED
        BY <1>3, <3>1, <4>1 DEF ChainAt
    <3> QED
      BY <1>1, <2>3, <3>2
  <2> QED
    BY <1>1, <1>6, <2>1, <2>2, <2>3
<1>7. ASSUME NEW k \in 1..Len(gs), Ran(gs, k)
      PROVE  /\ bt[k + 1] = bt[k] + Len(gs[k].data)
             /\ \A x \in 1..Len(gs[k].data) : gs[k].data[x] = bt[k] + x - 1
  <2>1. CASE k < n
    <3>1. Ran(fs, k) /\ gs[k] = fs[k] /\ k \in 1..Len(fs)
      <4>1. k \in 1..(n - 1) /\ k \in 1..Len(fs)
        BY <1>1, <2>1
      <4>2. gs[k] = fs[k]
        BY <1>1, <4>1
      <4> QED
        BY <1>7, <4>1, <4>2 DEF Ran
    <3>2. bt[k] = at[k] /\ bt[k + 1] = at[k + 1]
      BY <1>1, <2>1
    <3>3. /\ at[k + 1] = at[k] + Len(fs[k].data)
          /\ \A x \in 1..Len(fs[k].data) : fs[k].data[x] = at[k] + x - 1
      BY <1>3, <3>1 DEF ChainAt
    <3> QED
      BY <3>1, <3>2, <3>3
  <2>2. CASE n <= k
    <3>1. Ran(fs, k + 1) /\ gs[k] = fs[k + 1] /\ k + 1 \in 1..Len(fs)
      BY <1>1, <1>2, <1>7, <2>2 DEF Ran
    <3>2. bt[k] = at[k + 1] /\ bt[k + 1] = at[(k + 1) + 1]
      BY <1>1, <1>4, <2>2
    <3> QED
      BY <1>3, <3>1, <3>2 DEF ChainAt
  <2> QED
    BY <1>1, <2>1, <2>2
<1> HIDE DEF bt
<1>8. ChainAt(gs, bt, lo, hi)
  BY <1>5, <1>6, <1>7 DEF ChainAt
<1> QED
  BY <1>5, <1>8 DEF Chain, gs

(* Nor does it matter how such a flush changes. *)
LEMMA ChainExcept ==
  ASSUME NEW fs \in Seq(Flush), NEW n \in 1..Len(fs), ~Ran(fs, n),
         NEW e \in Flush, e.pc # "ran",
         NEW lo \in Nat, NEW hi \in Nat, Chain(fs, lo, hi)
  PROVE  Chain([fs EXCEPT ![n] = e], lo, hi)
<1> DEFINE gs == [fs EXCEPT ![n] = e]
<1>1. /\ gs \in Seq(Flush) /\ Len(gs) = Len(fs) /\ Len(fs) \in Nat
      /\ \A m \in 1..Len(fs) : m # n => gs[m] = fs[m]
      /\ gs[n] = e
  BY ExceptSeq
<1> HIDE DEF gs
<1>2. PICK at \in [1..(Len(fs) + 1) -> Nat] : ChainAt(fs, at, lo, hi)
  BY DEF Chain
<1>3. ASSUME NEW m \in 1..Len(fs)
      PROVE  /\ Ran(gs, m) <=> Ran(fs, m)
             /\ Ran(gs, m) => gs[m] = fs[m]
  BY <1>1 DEF Ran
<1>4. ASSUME NEW m \in 1..(Len(gs) + 1), NEW k \in 1..(Len(gs) + 1),
             m <= k, \A x \in m..(k - 1) : ~Ran(gs, x)
      PROVE  at[m] = at[k]
  <2>1. ASSUME NEW x \in m..(k - 1)
        PROVE  ~Ran(fs, x)
    <3>1. x \in 1..Len(fs)
      BY <1>1, <1>4
    <3> QED
      BY <1>3, <1>4, <3>1
  <2> QED
    BY <1>1, <1>2, <1>4, <2>1 DEF ChainAt
<1>5. ASSUME NEW k \in 1..Len(gs), Ran(gs, k)
      PROVE  /\ at[k + 1] = at[k] + Len(gs[k].data)
             /\ \A x \in 1..Len(gs[k].data) : gs[k].data[x] = at[k] + x - 1
  <2>1. k \in 1..Len(fs) /\ Ran(fs, k) /\ gs[k] = fs[k]
    BY <1>1, <1>3, <1>5
  <2> QED
    BY <1>2, <2>1 DEF ChainAt
<1>6. ChainAt(gs, at, lo, hi)
  BY <1>1, <1>2, <1>4, <1>5 DEF ChainAt
<1> QED
  BY <1>1, <1>2, <1>6 DEF Chain, gs

LEMMA OrderAppend ==
  ASSUME NEW fs \in Seq(Flush), NEW e \in Flush, e.pc # "ran", RunInOrder(fs)
  PROVE  RunInOrder(Append(fs, e))
<1> DEFINE gs == Append(fs, e)
<1>1. /\ Len(gs) = Len(fs) + 1 /\ Len(fs) \in Nat
      /\ \A n \in 1..Len(fs) : gs[n] = fs[n]
      /\ gs[Len(fs) + 1] = e
  BY AppendProperties
<1> HIDE DEF gs
<1>2. RunInOrder(gs)
  <2> SUFFICES ASSUME NEW m \in 1..Len(gs), NEW n \in 1..Len(gs), m < n, Ran(gs, n)
               PROVE  gs[m].pc # "queued"
    BY DEF RunInOrder
  <2>1. m \in 1..Len(fs) /\ n \in 1..Len(fs) /\ gs[m] = fs[m] /\ gs[n] = fs[n]
    BY <1>1 DEF Ran
  <2> QED
    BY <2>1 DEF RunInOrder, Ran
<1> QED
  BY <1>2 DEF gs

LEMMA OrderWithout ==
  ASSUME NEW fs \in Seq(Flush), NEW k \in 1..Len(fs), RunInOrder(fs)
  PROVE  RunInOrder(Without(fs, k))
<1> DEFINE gs == Without(fs, k)
<1>1. /\ gs \in Seq(Flush) /\ Len(gs) = Len(fs) - 1
      /\ \A m \in 1..(k - 1) : gs[m] = fs[m]
      /\ \A m \in (k + 1)..Len(fs) : gs[m - 1] = fs[m]
  BY WithoutProperties
<1> HIDE DEF gs
<1>2. Len(fs) \in Nat /\ Len(gs) \in Nat
  BY <1>1
<1> DEFINE old(m) == IF m < k THEN m ELSE m + 1
<1>3. ASSUME NEW m \in 1..Len(gs)
      PROVE  old(m) \in 1..Len(fs) /\ gs[m] = fs[old(m)]
  <2>1. CASE m < k
    BY <1>1, <1>2, <2>1
  <2>2. CASE ~(m < k)
    <3>1. m + 1 \in (k + 1)..Len(fs) /\ (m + 1) - 1 = m
      BY <1>1, <1>2, <2>2
    <3> QED
      BY <1>1, <1>2, <2>2, <3>1
  <2> QED
    BY <2>1, <2>2
<1>4. \A m, n \in 1..Len(gs) : m < n => old(m) < old(n)
  BY <1>2
<1> HIDE DEF old
<1>5. RunInOrder(gs)
  BY <1>3, <1>4 DEF RunInOrder, Ran
<1> QED
  BY <1>5 DEF gs

(* Replacing a flush keeps the order if it is not queued any more and, when *)
(* it has run, no older one is queued.                                     *)
LEMMA OrderExcept ==
  ASSUME NEW fs \in Seq(Flush), NEW e \in Flush, NEW k \in 1..Len(fs), RunInOrder(fs),
         e.pc # "queued",
         e.pc = "ran" => \A m \in 1..(k - 1) : fs[m].pc # "queued"
  PROVE  RunInOrder([fs EXCEPT ![k] = e])
<1> DEFINE gs == [fs EXCEPT ![k] = e]
<1>1. /\ Len(gs) = Len(fs) /\ Len(fs) \in Nat
      /\ \A m \in 1..Len(fs) : m # k => gs[m] = fs[m]
      /\ gs[k] = e
  BY ExceptSeq
<1> HIDE DEF gs
<1>2. RunInOrder(gs)
  <2> SUFFICES ASSUME NEW m \in 1..Len(gs), NEW n \in 1..Len(gs), m < n, Ran(gs, n)
               PROVE  gs[m].pc # "queued"
    BY DEF RunInOrder
  <2>1. CASE n = k
    BY <1>1, <2>1 DEF Ran
  <2>2. CASE n # k
    BY <1>1, <2>2 DEF Ran, RunInOrder
  <2> QED
    BY <2>1, <2>2
<1> QED
  BY <1>2 DEF gs

(* The inductive invariant behind EventsInOrder. *)
ReportsContinue ==
  /\ \A n \in 1..Len(sent) : sent[n] = base + n - 1
  /\ Chain(flushes, base + Len(sent), current + 1)
  /\ RunInOrder(flushes)

LEMMA WithoutExcept ==
  ASSUME NEW fs \in Seq(Flush), NEW e \in Flush, NEW n \in 1..Len(fs)
  PROVE  Without([fs EXCEPT ![n] = e], n) = Without(fs, n)
<1> DEFINE gs == [fs EXCEPT ![n] = e]
           a == Without(gs, n)
           b == Without(fs, n)
<1>1. /\ gs \in Seq(Flush) /\ Len(gs) = Len(fs) /\ Len(fs) \in Nat
      /\ \A m \in 1..Len(fs) : m # n => gs[m] = fs[m]
  BY ExceptSeq
<1> HIDE DEF gs
<1>2. /\ a \in Seq(Flush) /\ Len(a) = Len(gs) - 1
      /\ \A m \in 1..(n - 1) : a[m] = gs[m]
      /\ \A m \in (n + 1)..Len(gs) : a[m - 1] = gs[m]
  BY <1>1, WithoutProperties
<1>3. /\ b \in Seq(Flush) /\ Len(b) = Len(fs) - 1
      /\ \A m \in 1..(n - 1) : b[m] = fs[m]
      /\ \A m \in (n + 1)..Len(fs) : b[m - 1] = fs[m]
  BY WithoutProperties
<1> HIDE DEF a, b
<1>4. ASSUME NEW m \in 1..Len(a)
      PROVE  a[m] = b[m]
  <2>1. CASE m < n
    BY <1>1, <1>2, <1>3, <2>1
  <2>2. CASE ~(m < n)
    <3>1. m + 1 \in (n + 1)..Len(fs) /\ (m + 1) - 1 = m
      BY <1>1, <1>2, <2>2
    <3> QED
      BY <1>1, <1>2, <1>3, <3>1
  <2> QED
    BY <2>1, <2>2
<1>5. a = b
  BY <1>1, <1>2, <1>3, <1>4, SeqEqual
<1> QED
  BY <1>5 DEF a, b, gs

(* fn is told of every durable entry of the process once and in order,     *)
(* however many flushes of weavekv.js are in flight.                       *)
THEOREM EventsAreInOrder == Spec => []EventsInOrder
<1> DEFINE lo == base + Len(sent)
           hi == current + 1
<1>1. Init => ReportsContinue
  <2> SUFFICES ASSUME Init
               PROVE  ReportsContinue
    OBVIOUS
  <2>1. Len(flushes) = 0 /\ Len(sent) = 0 /\ base = 0 /\ current + 1 = 0
    BY EmptySeq DEF Init, firstNumber
  <2> DEFINE at == [n \in 1..1 |-> 0]
  <2>2. at \in [1..(Len(flushes) + 1) -> Nat] /\ ChainAt(flushes, at, 0, 0)
    BY <2>1 DEF ChainAt
  <2>3. Chain(flushes, 0, 0)
    BY <2>2 DEF Chain
  <2> QED
    BY <2>1, <2>3 DEF ReportsContinue, RunInOrder
<1>2. TypeOK /\ TypeOK' /\ WalGapless /\ WalGapless' /\ ReportsContinue /\ [Next]_vars
        => ReportsContinue'
  <2> SUFFICES ASSUME TypeOK, TypeOK', WalGapless, WalGapless', ReportsContinue, [Next]_vars
               PROVE  ReportsContinue'
    OBVIOUS
  <2>0. /\ flushes \in Seq(Flush) /\ sent \in Seq(Nat) /\ Len(sent) \in Nat
        /\ base \in Nat /\ lo \in Nat /\ hi \in Nat
        /\ Chain(flushes, lo, hi) /\ RunInOrder(flushes)
    BY DEF TypeOK, ReportsContinue
  <2>1. ASSUME UNCHANGED <<sent, base, current>>,
               Chain(flushes', lo, hi), RunInOrder(flushes')
        PROVE  ReportsContinue'
    BY <2>1 DEF ReportsContinue
  <2>2. CASE commit
    <3>1. UNCHANGED <<sent, base, current>>
      BY <2>2 DEF commit, disk
    <3> DEFINE e == At("queued", 1, <<>>)
    <3>2. e \in Flush /\ e.pc # "ran"
      <4>1. 1 \in Nat \ {0} /\ <<>> \in Seq(Nat)
        BY EmptySeq
      <4>2. e \in Flush
        BY <4>1, AtType
      <4> QED
        BY <4>2 DEF At
    <3>3. flushes' = IF on THEN flushes ELSE Append(flushes, e)
      BY <2>2 DEF commit, Entered
    <3> HIDE DEF e
    <3>4. Chain(Append(flushes, e), lo, hi) /\ RunInOrder(Append(flushes, e))
      <4> HIDE DEF lo, hi
      <4> QED
        BY <2>0, <3>2, ChainAppend, OrderAppend
    <3> HIDE DEF lo, hi
    <3>5. Chain(flushes', lo, hi) /\ RunInOrder(flushes')
      BY <2>0, <3>3, <3>4
    <3> QED
      BY <2>1, <3>1, <3>5
  <2>3. ASSUME NEW n \in 1..Len(flushes), transaction(n)
        PROVE  ReportsContinue'
    <3> DEFINE e == At("ran", flushes[n].depth, Drained(c))
    <3>1. e \in Flush /\ e.pc = "ran" /\ e.data = Drained(c)
      <4>1. e \in Flush
        BY <2>0, DrainedType, FlushFields, AtType DEF TypeOK
      <4> QED
        BY <4>1 DEF At
    <3>2. flushes' = [flushes EXCEPT ![n] = e] /\ UNCHANGED <<sent, base, i>> /\ c' = <<>>
      BY <2>3 DEF transaction
    <3>3. Len(e.data) = Len(c) /\ Len(c) \in Nat /\ \A x \in 1..Len(c) : e.data[x] = hi + x - 1
      <4>1. c \in Seq(Entry) /\ \A x \in 1..Len(c) : c[x].i = current + x
        BY DEF TypeOK, WalGapless
      <4>2. Len(Drained(c)) = Len(c) /\ \A x \in 1..Len(c) : Drained(c)[x] = c[x].i
        BY <4>1 DEF Drained
      <4>3. current \in Int
        BY DEF TypeOK
      <4> HIDE DEF e
      <4> QED
        BY <3>1, <4>1, <4>2, <4>3
    <3>4. current' + 1 = hi + Len(e.data)
      <4>1. i = current + 1 + Len(c) /\ i = current' + 1 + Len(c')
        BY <3>2 DEF WalGapless
      <4>2. Len(c') = 0
        BY <3>2, EmptySeq
      <4>3. current \in Int /\ current' \in Int
        BY DEF TypeOK
      <4> HIDE DEF e, hi
      <4>4. PICK x \in Int, y \in Int, z \in Int : x = current /\ y = current' /\ z = Len(c)
        BY <3>3, <4>3
      <4>5. i = x + 1 + z /\ i = y + 1 + 0
        BY <4>1, <4>2, <4>4
      <4>6. y + 1 = x + 1 + z
        BY <4>5
      <4> QED
        BY <3>3, <4>4, <4>6 DEF hi
    <3>5. flushes[n].pc = "queued" /\ \A m \in 1..(n - 1) : flushes[m].pc # "queued"
      BY <2>3 DEF transaction, FirstAt
    <3>6. \A m \in n..Len(flushes) : ~Ran(flushes, m)
      <4> SUFFICES ASSUME NEW m \in n..Len(flushes)
                   PROVE  ~Ran(flushes, m)
        OBVIOUS
      <4>1. CASE m = n
        BY <3>5, <4>1 DEF Ran
      <4>2. CASE m # n
        <5>1. n < m /\ m \in 1..Len(flushes)
          BY <2>0, <4>2
        <5> QED
          BY <2>0, <3>5, <5>1 DEF RunInOrder
      <4> QED
        BY <4>1, <4>2
    <3> HIDE DEF e, lo, hi
    <3>7. Chain([flushes EXCEPT ![n] = e], lo, hi + Len(e.data))
      BY <2>0, <3>1, <3>3, <3>6, ChainRuns
    <3>8. RunInOrder([flushes EXCEPT ![n] = e])
      BY <2>0, <3>1, <3>5, OrderExcept
    <3>9. Chain(flushes', lo, current' + 1) /\ RunInOrder(flushes')
      BY <3>2, <3>4, <3>7, <3>8
    <3> QED
      BY <3>2, <3>9 DEF ReportsContinue, lo
  <2>4. ASSUME NEW n \in 1..Len(flushes), settle(n)
        PROVE  ReportsContinue'
    <3> DEFINE d == flushes[n].data
               e == At("unwind", flushes[n].depth, <<>>)
               fs == [flushes EXCEPT ![n] = e]
               f == At("queued", flushes[n].depth + 1, <<>>)
    <3>1. d \in Seq(Nat) /\ flushes[n].depth \in Nat \ {0} /\ flushes[n].depth + 1 \in Nat \ {0}
      BY <2>0, FlushFields
    <3>2. e \in Flush /\ f \in Flush /\ e.pc = "unwind" /\ f.pc = "queued"
      <4>1. e \in Flush /\ f \in Flush
        BY <3>1, AtType, EmptySeq
      <4> QED
        BY <4>1 DEF At
    <3>3. Ran(flushes, n) /\ \A m \in 1..(n - 1) : ~Ran(flushes, m)
      BY <2>4 DEF settle, FirstAt, Ran
    <3>4. sent' = sent \o d /\ UNCHANGED <<base, current>>
      BY <2>4 DEF settle, disk
    <3>5. /\ Len(sent') = Len(sent) + Len(d) /\ Len(d) \in Nat
          /\ \A x \in 1..Len(sent) : sent'[x] = sent[x]
          /\ \A x \in 1..Len(d) : sent'[Len(sent) + x] = d[x]
      <4> HIDE DEF d
      <4>1. /\ Len(sent \o d) = Len(sent) + Len(d) /\ Len(d) \in Nat
            /\ \A x \in 1..(Len(sent) + Len(d)) :
                 (sent \o d)[x] = IF x <= Len(sent) THEN sent[x] ELSE d[x - Len(sent)]
        BY <2>0, <3>1, ConcatProperties
      <4>2. ASSUME NEW x \in 1..Len(d)
            PROVE  (sent \o d)[Len(sent) + x] = d[x]
        <5>1. Len(sent) + x \in 1..(Len(sent) + Len(d)) /\ ~(Len(sent) + x <= Len(sent))
              /\ (Len(sent) + x) - Len(sent) = x
          BY <2>0, <4>1
        <5> QED
          BY <4>1, <5>1
      <4>3. ASSUME NEW x \in 1..Len(sent)
            PROVE  (sent \o d)[x] = sent[x]
        <5>1. x \in 1..(Len(sent) + Len(d)) /\ x <= Len(sent)
          BY <2>0, <4>1
        <5> QED
          BY <4>1, <5>1
      <4> QED
        BY <3>4, <4>1, <4>2, <4>3
    <3>6. /\ Chain(fs, lo + Len(d), hi)
          /\ \A x \in 1..Len(d) : d[x] = lo + x - 1
      <4> HIDE DEF e, lo, hi
      <4> QED
        BY <2>0, <3>2, <3>3, <3>5, ChainReports
    <3>7. RunInOrder(fs) /\ fs \in Seq(Flush) /\ Len(fs) = Len(flushes) /\ ~Ran(fs, n)
      <4> HIDE DEF e
      <4>1. fs \in Seq(Flush) /\ Len(fs) = Len(flushes) /\ fs[n] = e
        BY <2>0, <3>2, ExceptSeq
      <4>2. RunInOrder(fs)
        BY <2>0, <3>2, OrderExcept
      <4> QED
        BY <3>2, <4>1, <4>2 DEF Ran
    <3>8. lo' = lo + Len(d) /\ lo + Len(d) \in Nat
      <4> HIDE DEF d
      <4> QED
        BY <2>0, <3>4, <3>5
    <3>9. \A x \in 1..Len(sent') : sent'[x] = base' + x - 1
      <4> SUFFICES ASSUME NEW x \in 1..Len(sent')
                   PROVE  sent'[x] = base + x - 1
        BY <3>4
      <4> HIDE DEF d
      <4>1. CASE x <= Len(sent)
        BY <2>0, <3>5, <4>1 DEF ReportsContinue
      <4>2. CASE ~(x <= Len(sent))
        <5>1. x - Len(sent) \in 1..Len(d) /\ Len(sent) + (x - Len(sent)) = x
          BY <2>0, <3>5, <4>2
        <5>2. sent'[x] = lo + (x - Len(sent)) - 1
          BY <3>5, <3>6, <5>1
        <5> QED
          BY <2>0, <5>1, <5>2
      <4> QED
        BY <4>1, <4>2
    <3>10. Chain(flushes', lo', hi) /\ RunInOrder(flushes')
      <4>1. CASE flushes' = fs
        <5> HIDE DEF fs, lo, hi, d
        <5> QED
          BY <3>6, <3>7, <3>8, <4>1
      <4>2. CASE flushes' = Append(Without(flushes, n), f)
        <5>1. Without(fs, n) = Without(flushes, n)
          <6> HIDE DEF e
          <6> QED
            BY <2>0, <3>2, WithoutExcept
        <5> HIDE DEF fs, lo, hi, d, f
        <5>2. Without(fs, n) \in Seq(Flush)
          BY <3>7, WithoutProperties
        <5>3. Chain(Without(fs, n), lo + Len(d), hi)
          BY <2>0, <3>6, <3>7, <3>8, ChainWithout
        <5>4. RunInOrder(Without(fs, n))
          BY <3>7, OrderWithout
        <5>5. Chain(Append(Without(fs, n), f), lo + Len(d), hi)
          BY <2>0, <3>2, <3>8, <5>2, <5>3, ChainAppend
        <5>6. RunInOrder(Append(Without(fs, n), f))
          BY <3>2, <5>2, <5>4, OrderAppend
        <5> QED
          BY <3>8, <4>2, <5>1, <5>5, <5>6
      <4> QED
        BY <2>4, <4>1, <4>2 DEF settle, recommit, Entered
    <3> HIDE DEF d, e, fs, f
    <3> QED
      BY <3>4, <3>9, <3>10 DEF ReportsContinue
  <2>5. ASSUME NEW n \in 1..Len(flushes), unwind(n)
        PROVE  ReportsContinue'
    <3>1. UNCHANGED <<sent, base, current>> /\ ~Ran(flushes, n)
      BY <2>5 DEF unwind, disk, Ran
    <3>2. CASE flushes' = Without(flushes, n)
      <4> HIDE DEF lo, hi
      <4>1. Chain(flushes', lo, hi) /\ RunInOrder(flushes')
        BY <2>0, <3>1, <3>2, ChainWithout, OrderWithout
      <4> QED
        BY <2>1, <3>1, <4>1
    <3>3. ASSUME flushes[n].depth # 1,
                 flushes' = [flushes EXCEPT ![n] = At("unwind", flushes[n].depth - 1, <<>>)]
          PROVE  ReportsContinue'
      <4> DEFINE e == At("unwind", flushes[n].depth - 1, <<>>)
      <4>1. flushes[n].depth - 1 \in Nat \ {0}
        BY <2>0, <3>3, FlushFields
      <4>2. e \in Flush /\ e.pc = "unwind"
        <5>1. e \in Flush
          BY <4>1, AtType, EmptySeq
        <5> QED
          BY <5>1 DEF At
      <4>3. flushes' = [flushes EXCEPT ![n] = e]
        BY <3>3
      <4> HIDE DEF e, lo, hi
      <4>4. Chain(flushes', lo, hi)
        BY <2>0, <3>1, <4>2, <4>3, ChainExcept
      <4>5. RunInOrder(flushes')
        BY <2>0, <4>2, <4>3, OrderExcept
      <4> QED
        BY <2>1, <3>1, <4>4, <4>5
    <3> QED
      BY <2>5, <3>2, <3>3 DEF unwind
  <2>6. CASE restart
    <3>1. /\ sent' = <<>> /\ flushes' = <<>> /\ base' = current + 1 /\ current' = current
      BY <2>6 DEF restart, firstNumber, disk
    <3>2. Len(flushes') = 0 /\ Len(sent') = 0 /\ base' + Len(sent') = hi /\ current' + 1 = hi
      BY <2>0, <3>1, EmptySeq
    <3> DEFINE at == [n \in 1..1 |-> hi]
    <3> HIDE DEF hi
    <3>3. at \in [1..(Len(flushes') + 1) -> Nat] /\ ChainAt(flushes', at, hi, hi)
      BY <2>0, <3>2 DEF ChainAt
    <3>4. Chain(flushes', hi, hi)
      BY <3>3 DEF Chain
    <3>5. RunInOrder(flushes')
      BY <3>2 DEF RunInOrder
    <3> QED
      BY <3>2, <3>4, <3>5 DEF ReportsContinue
  <2>7. ASSUME UNCHANGED <<sent, base, current, flushes>>
        PROVE  ReportsContinue'
    BY <2>0, <2>1, <2>7
  <2>8. (\E k \in Key, v \in Val \cup {NULL} : put(k, v)) => UNCHANGED <<sent, base, current, flushes>>
    BY DEF put, disk
  <2>9. reset => UNCHANGED <<sent, base, current, flushes>>
    BY DEF reset, disk
  <2>10. UNCHANGED vars => UNCHANGED <<sent, base, current, flushes>>
    BY DEF vars, memory, disk
  <2> QED
    BY <2>2, <2>3, <2>4, <2>5, <2>6, <2>7, <2>8, <2>9, <2>10 DEF Next
<1>3. TypeOK /\ ReportsContinue => EventsInOrder
  <2> SUFFICES ASSUME TypeOK, ReportsContinue,
                      \A n \in 1..Len(flushes) : ~Ran(flushes, n)
               PROVE  lo = hi
    BY DEF EventsInOrder, ReportsContinue, Ran
  <2> HIDE DEF lo, hi
  <2>1. PICK at \in [1..(Len(flushes) + 1) -> Nat] : ChainAt(flushes, at, lo, hi)
    BY DEF ReportsContinue, Chain, lo, hi
  <2>2. Len(flushes) \in Nat
    BY DEF TypeOK
  <2>3. 1 \in 1..(Len(flushes) + 1) /\ Len(flushes) + 1 \in 1..(Len(flushes) + 1) /\ 1 <= Len(flushes) + 1
        /\ \A x \in 1..(Len(flushes) + 1 - 1) : ~Ran(flushes, x)
    BY <2>2
  <2> QED
    BY <2>1, <2>3 DEF ChainAt
<1> QED
  BY <1>1, <1>2, <1>3, TypeCorrect, WalIsGapless, PTL DEF Spec
=============================================================================
