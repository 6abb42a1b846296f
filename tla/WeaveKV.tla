------------------------------ MODULE WeaveKV ------------------------------
(***************************************************************************)
(* The transactional key-value layer of the database engine,               *)
(* core/src/weavekv.js, over a durable ordered store (LMDB in a node,      *)
(* core/src/io.js in memory).                                              *)
(*                                                                         *)
(* A query writes into the buffer l.  The public commit() copies l into    *)
(* the committed cache s, numbers the transaction i, appends it to the     *)
(* queue c and, unless the flag `on' says that one is running, starts a    *)
(* flush: the private async commit(), which drains the whole queue in one  *)
(* io.transaction, reports the drained entries to fn, calls itself again   *)
(* and clears `on'.                                                        *)
(*                                                                         *)
(* A flush is suspended at its two awaits, so other queries run between    *)
(* its steps, and several flushes may exist: a frame that returns clears   *)
(* `on' again, one microtask after its callee did, and so may clear it for *)
(* a flush that was started in between.                                    *)
(***************************************************************************)
EXTENDS Integers, Sequences

CONSTANTS
  Key,        \* the keys of the store
  Private,    \* the keys that match /^__.*$/
  Val,        \* the values a key can have
  NULL,       \* JavaScript's null: written by del, and "absent" in the store
  UNDEF,      \* JavaScript's undefined: not written in a buffer
  MaxWal      \* bound on the number of the last transaction, for TLC only

ASSUME KVAssumption ==
  /\ Private \subseteq Key
  /\ NULL \notin Val
  /\ UNDEF \notin Val
  /\ NULL # UNDEF
  /\ MaxWal \in Nat

VARIABLES
  l,        \* buffer of the running query
  s,        \* values committed by this process
  c,        \* committed transactions waiting to be flushed
  i,        \* number of the next transaction
  on,       \* a flush is believed to be running
  flushes,  \* the flushes that are suspended at an await, oldest first
  store,    \* durable: the keys of the database
  wal,      \* durable: ["__wal__", i]
  privWal,  \* durable: ["__priv_wal__", i]
  current,  \* durable: __meta__/current, -1 when there is none
  sent,     \* the numbers of the entries reported to fn by this process
  base      \* the number this process started from

memory == <<l, s, c, i, on, flushes, sent, base>>
disk == <<store, wal, privWal, current>>
vars == <<memory, disk>>

-----------------------------------------------------------------------------
Cell == Val \cup {NULL, UNDEF}
Buffer == [Key -> Cell]
Empty == [k \in Key |-> UNDEF]
Entry == [i : Nat, cl : Buffer]

(* The changes of a transaction to the keys of K only. *)
Only(cl, K) == [k \in Key |-> IF k \in K THEN cl[k] ELSE UNDEF]

(* a ?? b *)
Coalesce(a, b) == IF a \in {NULL, UNDEF} THEN b ELSE a

(* kv.get: null falls through as undefined does. *)
get(k) == Coalesce(l[k], Coalesce(s[k], store[k]))

(* Faulty variant: a delete does not reach the cache. *)
Over_KeepsDeleted(old, cl) ==
  [k \in Key |-> IF cl[k] \in {UNDEF, NULL} THEN old[k] ELSE cl[k]]

(* What cl[k] leaves in place of the older value: undefined leaves it. *)
Over(old, cl) == [k \in Key |-> IF cl[k] = UNDEF THEN old[k] ELSE cl[k]]

(* The store after the transactions of q, in order: the last one of them   *)
(* that touches a key decides.                                             *)
Touching(q, k) == {n \in 1..Len(q) : q[n].cl[k] # UNDEF}
IsLast(n, S) == n \in S /\ \A m \in S : m <= n

(* Faulty variant: only the first transaction of a batch is applied. *)
Applied_FirstOnly(st, q) ==
  [k \in Key |-> IF q = <<>> \/ q[1].cl[k] = UNDEF THEN st[k] ELSE q[1].cl[k]]

Applied(st, q) ==
  [k \in Key |-> IF Touching(q, k) = {}
                 THEN st[k]
                 ELSE q[CHOOSE n \in 1..Len(q) : IsLast(n, Touching(q, k))].cl[k]]

(* A log keyed by transaction number after the puts of the entries of q;   *)
(* a number that is already there is overwritten.                          *)
Numbers(q) == {q[n].i : n \in 1..Len(q)}
Logged(log, q, K) ==
  [j \in DOMAIN log \cup Numbers(q) |->
     IF j \in Numbers(q)
     THEN Only(q[CHOOSE n \in 1..Len(q) :
                   IsLast(n, {m \in 1..Len(q) : q[m].i = j})].cl, K)
     ELSE log[j]]

-----------------------------------------------------------------------------
(* A flush: "queued" waits for its io.transaction, "ran" for the promise   *)
(* of the transaction, "unwind" for the frames below it to return.  depth  *)
(* counts the frames of the recursive commit() and data holds the numbers  *)
(* the transaction drained.                                                *)
Flush == [pc : {"queued", "ran", "unwind"}, depth : Nat \ {0}, data : Seq(Nat)]
At(pc, depth, data) == [pc |-> pc, depth |-> depth, data |-> data]

Without(q, n) == SubSeq(q, 1, n - 1) \o SubSeq(q, n + 1, Len(q))

FirstAt(n, pc) ==
  /\ n \in 1..Len(flushes)
  /\ flushes[n].pc = pc
  /\ \A m \in 1..(n - 1) : flushes[m].pc # pc

(* The number a new kv() starts from, given __meta__/current. *)
firstNumber_Reuses(cur) == IF cur = -1 THEN 0 ELSE cur   \* faulty variant
firstNumber(cur) == cur + 1

Init ==
  /\ l = Empty /\ s = Empty /\ c = <<>>
  /\ on = FALSE /\ flushes = <<>> /\ sent = <<>>
  /\ i = firstNumber(-1) /\ base = i
  /\ store = [k \in Key |-> NULL]
  /\ wal = [j \in {} |-> Empty]
  /\ privWal = [j \in {} |-> Empty]
  /\ current = -1

(* kv.put; kv.del is a put of null. *)
put(k, v) ==
  /\ l' = [l EXCEPT ![k] = v]
  /\ UNCHANGED <<s, c, i, on, flushes, sent, base, disk>>

(* kv.reset: the query failed. *)
reset ==
  /\ l # Empty
  /\ l' = Empty
  /\ UNCHANGED <<s, c, i, on, flushes, sent, base, disk>>

(* Entering the private commit() with a queue that is not empty: the flag  *)
(* is set and the transaction is handed to the store.                      *)
Entered(fs, depth) ==
  Append(fs, At("queued", depth, <<>>))

(* The public commit(). *)
commit ==
  /\ i < MaxWal
  /\ c' = Append(c, [i |-> i, cl |-> l])
  /\ s' = Over(s, l)
  /\ l' = Empty
  /\ i' = i + 1
  /\ on' = TRUE
  /\ flushes' = IF on THEN flushes ELSE Entered(flushes, 1)
  /\ UNCHANGED <<sent, base, disk>>

(* The callback of io.transaction.  The store runs the transactions in the *)
(* order they were handed to it, and a transaction is durable as a whole.  *)
(* (Drained_Last, a faulty variant, keeps the last entry only.)            *)
Drained_Last(q) == IF q = <<>> THEN <<>> ELSE <<q[Len(q)].i>>
Drained(q) == [n \in 1..Len(q) |-> q[n].i]

transaction(n) ==
  /\ FirstAt(n, "queued")
  /\ store' = Applied(store, c)
  /\ wal' = Logged(wal, c, Key \ Private)
  /\ privWal' = Logged(privWal, c, Key \ Private)
  /\ current' = IF c = <<>> THEN current ELSE c[Len(c)].i
  /\ flushes' = [flushes EXCEPT ![n] = At("ran", flushes[n].depth, Drained(c))]
  /\ c' = <<>>
  /\ UNCHANGED <<l, s, i, on, sent, base>>

(* commit() calls itself.  Either there is more to flush, or the callee    *)
(* clears the flag and the frames start to return.                         *)
recommit_Never(n) ==   \* faulty variant: no second look at the queue
  /\ on' = FALSE
  /\ flushes' = [flushes EXCEPT ![n] = At("unwind", flushes[n].depth, <<>>)]

recommit(n) ==
  \/ /\ c # <<>>
     /\ on' = TRUE
     /\ flushes' = Entered(Without(flushes, n), flushes[n].depth + 1)
  \/ /\ c = <<>>
     /\ on' = FALSE
     /\ flushes' = [flushes EXCEPT ![n] = At("unwind", flushes[n].depth, <<>>)]

(* After `await io.transaction': fn is told of the drained entries and     *)
(* commit() is called again.                                               *)
settle(n) ==
  /\ FirstAt(n, "ran")
  /\ sent' = sent \o flushes[n].data
  /\ recommit(n)
  /\ UNCHANGED <<l, s, c, i, base, disk>>

(* A frame returns from `await commit()' and clears the flag. *)
unwind(n) ==
  /\ n \in 1..Len(flushes)
  /\ flushes[n].pc = "unwind"
  /\ on' = FALSE
  /\ flushes' = IF flushes[n].depth = 1
                THEN Without(flushes, n)
                ELSE [flushes EXCEPT ![n] = At("unwind", flushes[n].depth - 1, <<>>)]
  /\ UNCHANGED <<l, s, c, i, sent, base, disk>>

(* The process dies, or the promise of a transaction is rejected, which    *)
(* nothing catches; a new kv() then starts from what is durable.           *)
restart ==
  /\ l' = Empty /\ s' = Empty /\ c' = <<>>
  /\ on' = FALSE /\ flushes' = <<>> /\ sent' = <<>>
  /\ i' = firstNumber(current)
  /\ base' = i'
  /\ UNCHANGED disk

Next ==
  \/ \E k \in Key, v \in Val \cup {NULL} : put(k, v)
  \/ reset
  \/ commit
  \/ \E n \in 1..Len(flushes) : transaction(n)
  \/ \E n \in 1..Len(flushes) : settle(n)
  \/ \E n \in 1..Len(flushes) : unwind(n)
  \/ restart

Spec == Init /\ [][Next]_vars

(* The store runs the transactions it is handed and resolves their         *)
(* promises, and the event loop runs the microtasks that are ready.        *)
Fairness ==
  \A n \in 1..(MaxWal + 1) :
    WF_vars(n <= Len(flushes) /\ (transaction(n) \/ settle(n) \/ unwind(n)))

FairSpec == Spec /\ Fairness

-----------------------------------------------------------------------------
TypeOK ==
  /\ l \in Buffer /\ s \in Buffer
  /\ c \in Seq(Entry)
  /\ i \in Nat /\ base \in Nat
  /\ on \in BOOLEAN
  /\ flushes \in Seq(Flush)
  /\ sent \in Seq(Nat)
  /\ store \in [Key -> Val \cup {NULL}]
  /\ current \in Nat \cup {-1}
  /\ DOMAIN wal \subseteq Nat /\ \A j \in DOMAIN wal : wal[j] \in Buffer
  /\ DOMAIN privWal \subseteq Nat
  /\ \A j \in DOMAIN privWal : privWal[j] \in Buffer

(* weavekv.js numbers transactions in memory and in __meta__/current.  The *)
(* durable WAL has no gap and ends at __meta__/current, and the queue      *)
(* continues it: this is what lets wal.js stop at the first missing number *)
(* and a restarted process go on from current.i + 1.                       *)
WalGapless ==
  /\ DOMAIN wal = 0..current
  /\ \A n \in 1..Len(c) : c[n].i = current + n
  /\ i = current + 1 + Len(c)

(* The value of a key that a log of changes leaves: its last change.       *)
Touched(log, k) == {j \in DOMAIN log : log[j][k] # UNDEF}
Replay(log, k) ==
  IF Touched(log, k) = {}
  THEN NULL
  ELSE log[CHOOSE j \in DOMAIN log : IsLast(j, Touched(log, k))][k]

(* Every public key of the durable store, written by io.put and io.remove  *)
(* in the same transaction as the WAL, is what replaying the durable WAL   *)
(* gives, after any interleaving of commits, flushes and restarts.         *)
StoreIsReplay == \A k \in Key \ Private : store[k] = Replay(wal, k)

(* A read outside a query, which looks in s and then in the store, returns *)
(* the last committed value.  The one exception is a delete that is not    *)
(* flushed yet: its null in s falls through to the store, which still has  *)
(* the old value.                                                          *)
ReadsLatest ==
  \A k \in Key :
    l[k] = UNDEF =>
      \/ get(k) = Applied(store, c)[k]
      \/ /\ Applied(store, c)[k] = NULL
         /\ Touching(c, k) # {}
         /\ get(k) = store[k]

(* A queue that is not empty has a flush that will look at it again: the   *)
(* flag that frames clear late never makes commit() skip the last flush.   *)
NoLostFlush ==
  c # <<>> => \E n \in 1..Len(flushes) : flushes[n].pc \in {"queued", "ran"}

(* What makes NoLostFlush inductive: the flag is up only while some flush  *)
(* will look at the queue.                                                 *)
FlagIsSound ==
  on => \E n \in 1..Len(flushes) : flushes[n].pc \in {"queued", "ran"}

(* fn is told of every durable entry of this process once and in order,    *)
(* although several flushes may be in flight: it is behind by exactly what *)
(* transactions have drained whose promise has not been seen yet.          *)
EventsInOrder ==
  /\ \A n \in 1..Len(sent) : sent[n] = base + n - 1
  /\ (\A n \in 1..Len(flushes) : flushes[n].pc # "ran")
       => base + Len(sent) = current + 1

(* No step, restarts included, rewrites or drops a WAL entry that is       *)
(* durable: wal.js may already have sent it.                               *)
WalAppendOnly ==
  [][/\ DOMAIN wal \subseteq DOMAIN wal'
     /\ \A j \in DOMAIN wal : wal'[j] = wal[j]]_vars

(* A committed transaction becomes durable unless the process restarts     *)
(* first, which takes its number back.                                     *)
EventuallyDurable ==
  \A j \in 0..(MaxWal - 1) : (i > j) ~> (current >= j \/ i <= j)

(* The abstract view of the store: the public changes of the transactions  *)
(* that are in the WAL or in the queue, of which the WAL is durable.       *)
Committed ==
  [n \in 1..i |->
     IF n <= current + 1 THEN wal[n - 1]
                         ELSE Only(c[n - 1 - current].cl, Key \ Private)]

Abstract == INSTANCE CommitLog WITH
              Entry <- Buffer, log <- Committed, durable <- current + 1

(* weavekv.js implements CommitLog: commit() appends one transaction, one  *)
(* io.transaction makes all that are queued durable, and what a restarted  *)
(* process sees is exactly the durable prefix.                             *)
ImplementsCommitLog == Abstract!Spec
=============================================================================
