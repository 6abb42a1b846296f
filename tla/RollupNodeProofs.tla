-------------------------- MODULE RollupNodeProofs --------------------------
(* For every number of signers, queries, bundles, loops and crashes, what  *)
(* is shipped is durable and no query is in a log twice.                   *)
EXTENDS RollupNode, SequenceTheorems, TLAPS

(* No bundle is empty, so that recover() finds an entry at its position.   *)
Filled ==
  /\ \A k \in 1..Len(hb) : hb[k] # <<>>
  /\ \A n \in 1..Len(loops) : loops[n].pc # "idle" => loops[n].bundle # <<>>
  /\ \A b \in late : b # <<>>

AtEntry ==
  /\ rec.last <= Len(hb) /\ rec.slot >= 1 /\ rec.pos >= 1
  /\ rec.slot <= rec.last => rec.pos <= Len(hb[rec.slot])

(* Every signer in a prefix of the log has a last query in it.             *)
LastExists ==
  \A p \in 0..Len(log), a \in Account :
    (\E n \in 1..p : log[n].acct = a) =>
      \E n \in 1..p : log[n].acct = a /\ \A m \in 1..p : log[m].acct = a => m <= n

TypeInv == TypeOK /\ Filled /\ AtEntry

-----------------------------------------------------------------------------
LEMMA InitTypeInv == Init => TypeInv
<1> SUFFICES ASSUME Init PROVE TypeInv
  OBVIOUS
<1>1. Kv!TypeOK
  BY DEF Init, Kv!Init, Kv!TypeOK
<1>2. rec \in Rec
  BY DEF Init, Rec, NoRec
<1>3. TypeOK
  <2>1. hb \in Seq(Seq(Msg)) /\ loops \in Seq(Loop)
    BY DEF Init
  <2> QED BY <1>1, <1>2, <2>1 DEF Init, TypeOK
<1>4. AtEntry
  BY DEF Init, AtEntry, NoRec
<1>5. Filled
  <2>1. Len(hb) = 0 /\ Len(loops) = 0 /\ late = {}
    BY DEF Init
  <2> QED BY <2>1 DEF Filled
<1> QED BY <1>3, <1>4, <1>5 DEF TypeInv

(* A query that is committed is appended; the entries before it stay.      *)
LEMMA CommitAppends ==
  ASSUME TypeOK, NEW q \in Query, Kv!Commit(q)
  PROVE  /\ Kv!TypeOK'
         /\ Len(log') = Len(log) + 1
         /\ log'[Len(log) + 1] = q
         /\ \A n \in 1..Len(log) : log'[n] = log[n]
         /\ durable' = durable
BY DEF TypeOK, Kv!TypeOK, Kv!Commit

LEMMA BundleIsMsgs ==
  ASSUME TypeOK, NEW h \in Nat, h < durable
  PROVE  /\ Bundle(h, durable) \in Seq(Msg) /\ Bundle(h, durable) # <<>>
         /\ IsCopy(Bundle(h, durable))
<1> DEFINE b == Bundle(h, durable)
<1>1. durable \in Nat /\ durable <= Len(log) /\ log \in Seq(Query)
  BY DEF TypeOK, Kv!TypeOK
<1>2. \A k \in 1..(durable - h) : [slot |-> h + k - 1, q |-> log[h + k]] \in Msg
  BY <1>1 DEF Msg
<1>3. b \in Seq(Msg) /\ Len(b) = durable - h
  BY <1>1, <1>2 DEF Bundle
<1>4. \A k \in 1..(durable - h) : b[k].slot = h + k - 1 /\ b[k].q = log[h + k]
  BY <1>1 DEF Bundle
<1>5. \A k \in 1..Len(b) : b[k].slot = b[1].slot + k - 1 /\ b[k].slot < durable /\ b[k].q = log[b[k].slot + 1]
  BY <1>1, <1>3, <1>4
<1> QED BY <1>1, <1>3, <1>5 DEF IsCopy

(* The bundle that a page is at, and what follows it.                      *)
LEMMA PageIsRec ==
  ASSUME TypeInv, NEW i \in Nat, NEW h \in Nat, NEW d \in BOOLEAN, NEW from \in Nat, NEW to \in Nat
  PROVE  /\ Page(i, h, d, from, to) \in Rec
         /\ Page(i, h, d, from, to).last <= Len(hb)
         /\ Page(i, h, d, from, to).slot >= 1
         /\ Page(i, h, d, from, to).pos = 1
<1>1. Len(hb) \in Nat
  BY DEF TypeInv, TypeOK
<1> QED BY <1>1 DEF Page, Rec

LEMMA PageStarts ==
  ASSUME TypeInv, rec' \in Rec, rec'.last <= Len(hb), rec'.slot >= 1, rec'.pos = 1, hb' = hb
  PROVE  AtEntry'
<1>1. rec'.slot \in Nat /\ rec'.last \in Nat /\ Len(hb) \in Nat
  BY DEF Rec, TypeInv, TypeOK
<1>2. ASSUME rec'.slot <= rec'.last PROVE 1 <= Len(hb[rec'.slot])
  <2>1. rec'.slot \in 1..Len(hb)
    BY <1>1, <1>2
  <2>2. hb[rec'.slot] \in Seq(Msg) /\ hb[rec'.slot] # <<>>
    BY <2>1 DEF TypeInv, TypeOK, Filled
  <2> QED BY <2>2
<1> QED BY <1>2 DEF AtEntry

LEMMA EntryIsMsg ==
  ASSUME TypeInv, ~PageDone
  PROVE  hb[rec.slot] \in Seq(Msg) /\ rec.pos \in 1..Len(hb[rec.slot])
         /\ hb[rec.slot][rec.pos] \in Msg
<1>1. rec \in Rec /\ hb \in Seq(Seq(Msg))
  BY DEF TypeInv, TypeOK
<1>2. rec.slot \in 1..Len(hb) /\ rec.slot <= rec.last
  BY <1>1 DEF TypeInv, AtEntry, PageDone, Rec
<1>3. rec.pos \in 1..Len(hb[rec.slot])
  BY <1>1, <1>2 DEF TypeInv, AtEntry, Rec
<1> QED BY <1>1, <1>2, <1>3

LEMMA NextQueryIsQuery ==
  ASSUME TypeInv, NEW op \in {"init", "set", "void"}, NEW a \in Account, nonceOf(log, a) \in Nat
  PROVE  NextQuery(op, a) \in Query
BY DEF NextQuery, Query

(* The last query of a signer has the nonce that its next one follows.     *)
LEMMA NonceIsLast ==
  ASSUME log \in Seq(Query), LastExists, NEW a \in Account
  PROVE  /\ nonceOf(log, a) \in Nat
         /\ Of(log, a) # {} =>
              \E n \in Of(log, a) : /\ nonceOf(log, a) = log[n].nonce
                                    /\ \A m \in Of(log, a) : m <= n
<1>1. CASE Of(log, a) = {}
  BY <1>1 DEF nonceOf
<1>2. CASE Of(log, a) # {}
  <2> DEFINE n == CHOOSE n \in Of(log, a) : \A m \in Of(log, a) : m <= n
  <2>1. Len(log) \in 0..Len(log)
    OBVIOUS
  <2>2. \E k \in Of(log, a) : \A m \in Of(log, a) : m <= k
    BY <1>2, <2>1 DEF LastExists, Of
  <2>3. n \in Of(log, a) /\ \A m \in Of(log, a) : m <= n
    BY <2>2
  <2>4. nonceOf(log, a) = log[n].nonce
    BY <1>2 DEF nonceOf
  <2>5. log[n] \in Query
    BY <2>3 DEF Of
  <2> QED BY <2>3, <2>4, <2>5 DEF Query
<1> QED BY <1>1, <1>2

-----------------------------------------------------------------------------
(* What a step does to the log: it appends a query that the engine accepts,*)
(* it falls back to what is durable, or leaves it alone.                   *)
Appends(q) == q \in Query /\ accepts(log, q) /\ Kv!Commit(q)
LogStep ==
  \/ \E q : Appends(q)
  \/ Kv!Crash
  \/ Kv!Flush
  \/ UNCHANGED <<log, durable>>

LEMMA StepOfLog == TypeInv /\ LastExists /\ [Next]_vars => LogStep
<1> SUFFICES ASSUME TypeInv, LastExists, [Next]_vars PROVE LogStep
  OBVIOUS
<1>0. log \in Seq(Query)
  BY DEF TypeInv, TypeOK, Kv!TypeOK
<1>1. ASSUME NEW op \in {"init", "set", "void"}, NEW a \in Account, set(op, a) PROVE LogStep
  <2>1. NextQuery(op, a) \in Query
    BY <1>0, NonceIsLast, NextQueryIsQuery
  <2> QED BY <1>1, <2>1 DEF set, LogStep, Appends
<1>2. ASSUME NEW a \in Account, initDB(a) PROVE LogStep
  <2>1. NextQuery("init", a) \in Query
    BY <1>0, NonceIsLast, NextQueryIsQuery
  <2> QED BY <1>2, <2>1 DEF initDB, LogStep, Appends
<1>3. CASE replay
  <2>1. hb[rec.slot][rec.pos].q \in Query
    BY <1>3, EntryIsMsg DEF replay, Msg
  <2>2. \/ accepts(log, hb[rec.slot][rec.pos].q) /\ Kv!Commit(hb[rec.slot][rec.pos].q)
        \/ UNCHANGED <<log, durable>>
    BY <1>3 DEF replay
  <2> QED BY <2>1, <2>2 DEF LogStep, Appends
<1>4. CASE crash
  BY <1>4 DEF crash, LogStep
<1>5. CASE flush
  BY <1>5 DEF flush, LogStep
<1>6. CASE UNCHANGED <<log, durable>>
  BY <1>6 DEF LogStep
<1>7. ASSUME NEW n \in 1..Len(loops), poll(n) \/ accept(n) \/ answer(n) \/ fail(n)
      PROVE  UNCHANGED <<log, durable>>
  BY <1>7 DEF poll, accept, answer, fail
<1>8. ASSUME NEW b \in late, arrive(b) \/ vanish(b) PROVE UNCHANGED <<log, durable>>
  BY <1>8 DEF arrive, vanish
<1>9. ASSUME recover \/ nextPage \/ recoverFails PROVE UNCHANGED <<log, durable>>
  BY <1>9 DEF recover, nextPage, recoverFails
<1> QED BY <1>1, <1>2, <1>3, <1>4, <1>5, <1>6, <1>7, <1>8, <1>9 DEF Next, vars

LEMMA LogIsLog == TypeInv /\ LogStep => Kv!TypeOK'
<1> SUFFICES ASSUME TypeInv, LogStep PROVE Kv!TypeOK'
  OBVIOUS
<1>0. log \in Seq(Query) /\ durable \in 0..Len(log)
  BY DEF TypeInv, TypeOK, Kv!TypeOK
<1>1. CASE \E q : Appends(q)
  BY <1>0, <1>1 DEF Appends, Kv!Commit, Kv!TypeOK
<1>2. CASE Kv!Crash
  BY <1>0, <1>2 DEF Kv!Crash, Kv!TypeOK
<1>3. CASE Kv!Flush
  BY <1>0, <1>3 DEF Kv!Flush, Kv!TypeOK
<1>4. CASE UNCHANGED <<log, durable>>
  BY <1>0, <1>4 DEF Kv!TypeOK
<1> QED BY <1>1, <1>2, <1>3, <1>4 DEF LogStep

LogInv == NoReplayedQuery /\ LastExists

LEMMA LogStepKeeps == TypeInv /\ LogInv /\ LogStep => LogInv'
<1> SUFFICES ASSUME TypeInv, NoReplayedQuery, LastExists, LogStep
             PROVE  NoReplayedQuery' /\ LastExists'
  BY DEF LogInv
<1>0. log \in Seq(Query) /\ durable \in 0..Len(log)
  BY DEF TypeInv, TypeOK, Kv!TypeOK
<1>1. ASSUME NEW q, Appends(q) PROVE NoReplayedQuery' /\ LastExists'
  <2> DEFINE top == Len(log) + 1
  <2>1. /\ q \in Query /\ q.acct \in Account
        /\ Len(log') = top /\ log'[top] = q
        /\ \A n \in 1..Len(log) : log'[n] = log[n]
    BY <1>0, <1>1 DEF Appends, Kv!Commit, Query
  <2>2. /\ q.nonce = nonceOf(log, q.acct) + 1
        /\ q.op = "init" => \A m \in 1..Len(log) : log[m].op # "init"
        /\ q.op = "set" => \E m \in 1..Len(log) : log[m].op = "init"
    BY <1>1 DEF Appends, accepts, hasInit
  <2>3. \A m \in 1..Len(log) : log[m].acct = q.acct => log[m].nonce < q.nonce
    <3> SUFFICES ASSUME NEW m \in 1..Len(log), log[m].acct = q.acct
                 PROVE  log[m].nonce < q.nonce
      OBVIOUS
    <3>1. m \in Of(log, q.acct)
      BY DEF Of
    <3>2. PICK n \in Of(log, q.acct) : /\ nonceOf(log, q.acct) = log[n].nonce
                                      /\ \A k \in Of(log, q.acct) : k <= n
      BY <1>0, <2>1, <3>1, NonceIsLast
    <3>3. n \in 1..Len(log) /\ log[n].acct = q.acct /\ m <= n
      BY <3>1, <3>2 DEF Of
    <3>4. log[m].nonce \in Nat /\ log[n].nonce \in Nat
      <4>1. log[m] \in Query /\ log[n] \in Query
        BY <1>0, <3>3
      <4> QED BY <4>1 DEF Query
    <3>5. log[m].nonce <= log[n].nonce
      BY <3>3, <3>4 DEF NoReplayedQuery
    <3> QED BY <2>2, <3>2, <3>4, <3>5
  <2>4. ASSUME NEW n \in 1..top
        PROVE  /\ log'[n].op = "init" => \A m \in 1..(n - 1) : log'[m].op = "void"
               /\ log'[n].op = "set" => \E m \in 1..(n - 1) : log'[m].op = "init"
    <3>1. \A m \in 1..(n - 1) : m \in 1..Len(log) /\ log'[m] = log[m]
      BY <1>0, <2>1
    <3>2. CASE n # top
      <4>1. n \in 1..Len(log) /\ log'[n] = log[n]
        BY <1>0, <2>1, <3>2
      <4> QED BY <3>1, <4>1 DEF NoReplayedQuery
    <3>3. CASE n = top
      <4>1. n - 1 = Len(log) /\ log'[n] = q
        BY <1>0, <2>1, <3>3
      <4>2. ASSUME q.op = "init", NEW m \in 1..Len(log) PROVE log[m].op = "void"
        <5>1. log[m].op \in {"init", "set", "void"}
          <6>1. log[m] \in Query
            BY <1>0
          <6> QED BY <6>1 DEF Query
        <5>2. log[m].op # "set"
          <6>1. \A k \in 1..(m - 1) : k \in 1..Len(log)
            BY <1>0
          <6> QED BY <2>2, <4>2, <6>1 DEF NoReplayedQuery
        <5> QED BY <2>2, <4>2, <5>1, <5>2
      <4> QED BY <2>2, <3>1, <4>1, <4>2
    <3> QED BY <3>2, <3>3
  <2>5. \A m, n \in 1..top :
          m < n /\ log'[m].acct = log'[n].acct => log'[m].nonce < log'[n].nonce
    <3> SUFFICES ASSUME NEW m \in 1..top, NEW n \in 1..top,
                        m < n, log'[m].acct = log'[n].acct
                 PROVE  log'[m].nonce < log'[n].nonce
      OBVIOUS
    <3>1. m \in 1..Len(log) /\ log'[m] = log[m]
      BY <1>0, <2>1
    <3>2. CASE n = top
      BY <2>1, <2>3, <3>1, <3>2
    <3>3. CASE n # top
      <4>1. n \in 1..Len(log) /\ log'[n] = log[n]
        BY <1>0, <2>1, <3>3
      <4> QED BY <3>1, <4>1 DEF NoReplayedQuery
    <3> QED BY <3>2, <3>3
  <2>6. LastExists'
    <3> SUFFICES ASSUME NEW p \in 0..top, NEW a \in Account,
                        \E n \in 1..p : log'[n].acct = a
                 PROVE  \E n \in 1..p : /\ log'[n].acct = a
                                        /\ \A m \in 1..p : log'[m].acct = a => m <= n
      BY <2>1 DEF LastExists
    <3>1. CASE p \in 0..Len(log)
      <4>1. \A n \in 1..p : log'[n] = log[n]
        BY <1>0, <2>1, <3>1
      <4>2. \E n \in 1..p : log[n].acct = a
        BY <4>1
      <4>3. \E n \in 1..p : log[n].acct = a /\ \A m \in 1..p : log[m].acct = a => m <= n
        BY <3>1, <4>2 DEF LastExists
      <4> QED BY <4>1, <4>3
    <3>2. CASE p = top /\ q.acct = a
      BY <1>0, <2>1, <3>2
    <3>3. CASE p = top /\ q.acct # a
      <4>1. PICK n \in 1..Len(log) : log[n].acct = a
        BY <1>0, <2>1, <3>3
      <4>2. Len(log) \in 0..Len(log)
        BY <1>0
      <4>3. PICK k \in 1..Len(log) :
              log[k].acct = a /\ \A m \in 1..Len(log) : log[m].acct = a => m <= k
        BY <4>1, <4>2 DEF LastExists
      <4>4. k \in 1..p /\ log'[k].acct = a
        BY <1>0, <2>1, <3>3, <4>3
      <4>5. ASSUME NEW m \in 1..p, log'[m].acct = a PROVE m <= k
        BY <1>0, <2>1, <3>3, <4>3, <4>5
      <4> QED BY <4>4, <4>5
    <3> QED BY <1>0, <3>1, <3>2, <3>3
  <2> QED BY <2>1, <2>4, <2>5, <2>6 DEF NoReplayedQuery
<1>2. ASSUME Kv!Crash PROVE NoReplayedQuery' /\ LastExists'
  <2>1. /\ Len(log') = durable /\ durable <= Len(log)
        /\ \A n \in 1..durable : log'[n] = log[n]
    BY <1>0, <1>2 DEF Kv!Crash
  <2>2. NoReplayedQuery'
    <3>1. \A n \in 1..durable : n \in 1..Len(log) /\ \A m \in 1..(n - 1) : m \in 1..durable
      BY <1>0, <2>1
    <3> QED BY <2>1, <3>1 DEF NoReplayedQuery
  <2>3. LastExists'
    <3> SUFFICES ASSUME NEW p \in 0..durable, NEW a \in Account,
                        \E n \in 1..p : log'[n].acct = a
                 PROVE  \E n \in 1..p : /\ log'[n].acct = a
                                        /\ \A m \in 1..p : log'[m].acct = a => m <= n
      BY <2>1 DEF LastExists
    <3>1. p \in 0..Len(log) /\ \A n \in 1..p : log'[n] = log[n]
      BY <1>0, <2>1
    <3> QED BY <3>1, ZenonT(40) DEF LastExists
  <2> QED BY <2>2, <2>3
<1>3. ASSUME log' = log PROVE NoReplayedQuery' /\ LastExists'
  BY <1>3 DEF NoReplayedQuery, LastExists
<1> QED BY <1>1, <1>2, <1>3 DEF LogStep, Kv!Flush

-----------------------------------------------------------------------------
LEMMA LoopIsLoop ==
  ASSUME TypeInv, NEW n \in 1..Len(loops)
  PROVE  /\ loops[n] \in Loop
         /\ loops[n].pc # "idle" => loops[n].bundle # <<>>
BY DEF TypeInv, TypeOK, Filled

(* A loop that takes the place of another one.                             *)
LEMMA LoopReplaced ==
  ASSUME TypeInv, NEW n \in 1..Len(loops), NEW lp \in Loop,
         lp.pc # "idle" => lp.bundle # <<>>,
         loops' = [loops EXCEPT ![n] = lp]
  PROVE  /\ loops' \in Seq(Loop) /\ Len(loops') = Len(loops)
         /\ \A m \in 1..Len(loops) : loops'[m] = IF m = n THEN lp ELSE loops[m]
         /\ \A m \in 1..Len(loops') : loops'[m].pc # "idle" => loops'[m].bundle # <<>>
<1>1. loops \in Seq(Loop)
  BY DEF TypeInv, TypeOK
<1>2. /\ loops' \in Seq(Loop) /\ Len(loops') = Len(loops)
      /\ \A m \in 1..Len(loops) : loops'[m] = IF m = n THEN lp ELSE loops[m]
  BY <1>1, ExceptSeq
<1> QED BY <1>2 DEF TypeInv, Filled

(* A bundle that gets into the log of HyperBEAM.                           *)
LEMMA LogExtended ==
  ASSUME TypeInv, NEW b \in Seq(Msg), b # <<>>, hb' = Append(hb, b), UNCHANGED rec
  PROVE  /\ hb' \in Seq(Seq(Msg)) /\ Len(hb') = Len(hb) + 1
         /\ \A k \in 1..Len(hb) : hb'[k] = hb[k]
         /\ hb'[Len(hb) + 1] = b
         /\ \A k \in 1..Len(hb') : hb'[k] # <<>>
         /\ AtEntry'
<1>1. hb \in Seq(Seq(Msg)) /\ rec \in Rec
  BY DEF TypeInv, TypeOK
<1>2. /\ hb' \in Seq(Seq(Msg)) /\ Len(hb') = Len(hb) + 1
      /\ \A k \in 1..Len(hb) : hb'[k] = hb[k]
      /\ hb'[Len(hb) + 1] = b
  BY <1>1
<1>3. \A k \in 1..Len(hb') : hb'[k] # <<>>
  BY <1>2 DEF TypeInv, Filled
<1>4. AtEntry'
  BY <1>1, <1>2 DEF TypeInv, AtEntry, Rec
<1> QED BY <1>2, <1>3, <1>4

NewLoopIsLoop == \A h \in Nat : NewLoop(h) \in Loop /\ NewLoop(h).pc = "idle" /\ NewLoop(h).bundle = <<>>

LEMMA NewLoops == NewLoopIsLoop
BY DEF NewLoopIsLoop, NewLoop, Loop

(* What one message does to the variables of recover().                    *)
LEMMA ReplayStep ==
  ASSUME replay
  PROVE  \E write \in BOOLEAN :
           LET more == rec.pos < Len(hb[rec.slot])
           IN  rec' = [i |-> rec.i + 1, from |-> rec.from, last |-> rec.last,
                       height |-> IF write THEN rec.i ELSE rec.height,
                       db |-> rec.db \/ write,
                       slot |-> IF more THEN rec.slot ELSE rec.slot + 1,
                       pos |-> IF more THEN rec.pos + 1 ELSE 1]
               /\ (write => rec.i >= rec.height)
BY DEF replay

LEMMA NextTypeInv == TypeInv /\ LogInv /\ [Next]_vars => TypeInv'
<1> SUFFICES ASSUME TypeInv, LogInv, [Next]_vars PROVE TypeInv'
  OBVIOUS
<1>0. Kv!TypeOK'
  BY StepOfLog, LogIsLog DEF LogInv
<1>k. /\ Kv!TypeOK /\ height \in Nat /\ hb \in Seq(Seq(Msg)) /\ loops \in Seq(Loop) /\ rec \in Rec
      /\ pids \in Nat /\ left \in Nat /\ db \in BOOLEAN /\ calm \in BOOLEAN
  BY DEF TypeInv, TypeOK
<1>n. /\ rec.i \in Nat /\ rec.height \in Nat /\ rec.from \in Nat /\ rec.db \in BOOLEAN
      /\ rec.slot \in Nat /\ rec.pos \in Nat /\ rec.last \in Nat
  BY <1>k DEF Rec
<1>1. ASSUME UNCHANGED <<height, hb, node, loops, late, rec, lossy, crashes, calm>>
      PROVE  TypeInv'
  BY <1>0, <1>1 DEF TypeInv, TypeOK, Filled, AtEntry, node
<1>2. ASSUME NEW a \in Account, initDB(a) PROVE TypeInv'
  <2>1. /\ loops' = Append(loops, NewLoop(height)) /\ db' = TRUE
        /\ pids' \in Nat /\ calm' \in BOOLEAN
        /\ UNCHANGED <<height, hb, server, left, late, rec, lossy, crashes>>
    BY <1>2, <1>k DEF initDB
  <2>2. /\ loops' \in Seq(Loop)
        /\ \A n \in 1..Len(loops') : loops'[n].pc # "idle" => loops'[n].bundle # <<>>
    <3>1. NewLoop(height) \in Loop /\ NewLoop(height).pc = "idle"
      BY <1>k, NewLoops DEF NewLoopIsLoop
    <3>2. /\ loops' \in Seq(Loop) /\ Len(loops') = Len(loops) + 1
          /\ \A n \in 1..Len(loops) : loops'[n] = loops[n]
          /\ loops'[Len(loops) + 1] = NewLoop(height)
      BY <1>k, <2>1, <3>1, AppendProperties
    <3> QED BY <3>1, <3>2 DEF TypeInv, Filled
  <2> QED BY <1>0, <2>1, <2>2 DEF TypeInv, TypeOK, Filled, AtEntry
<1>3. ASSUME NEW n \in 1..Len(loops), poll(n) PROVE TypeInv'
  <2> DEFINE lp == [start |-> loops[n].start, height |-> loops[n].height, pc |-> "sent",
                    to |-> lastEntry, bundle |-> Bundle(loops[n].height, lastEntry)]
  <2>1. /\ loops' = [loops EXCEPT ![n] = lp] /\ loops[n].height < durable
        /\ UNCHANGED <<height, hb, node, late, rec, lossy, crashes, calm>>
    BY <1>3 DEF poll, lastEntry
  <2>2. loops[n].height \in Nat /\ loops[n].start \in Nat /\ durable \in Nat
    <3>1. loops[n] \in Loop
      BY LoopIsLoop
    <3>2. durable \in 0..Len(log) /\ Len(log) \in Nat
      BY <1>k DEF Kv!TypeOK
    <3> QED BY <3>1, <3>2 DEF Loop
  <2>3. lp \in Loop /\ lp.bundle # <<>>
    BY <2>1, <2>2, BundleIsMsgs DEF Loop, lastEntry, TypeInv
  <2>4. /\ loops' \in Seq(Loop)
        /\ \A m \in 1..Len(loops') : loops'[m].pc # "idle" => loops'[m].bundle # <<>>
    BY <2>1, <2>3, LoopReplaced
  <2> QED BY <1>0, <2>1, <2>4 DEF TypeInv, TypeOK, Filled, AtEntry, node
<1>4. ASSUME NEW n \in 1..Len(loops), accept(n) PROVE TypeInv'
  <2> DEFINE lp == [loops[n] EXCEPT !.pc = "accepted"]
  <2>1. /\ loops' = [loops EXCEPT ![n] = lp] /\ hb' = Append(hb, loops[n].bundle)
        /\ UNCHANGED <<height, node, late, rec, lossy, crashes, calm>>
    BY <1>4 DEF accept
  <2>2. loops[n].bundle \in Seq(Msg) /\ loops[n].bundle # <<>>
    BY <1>4, LoopIsLoop DEF accept, Loop
  <2>3. lp \in Loop /\ lp.bundle # <<>>
    BY <2>2, LoopIsLoop DEF Loop
  <2>4. /\ loops' \in Seq(Loop)
        /\ \A m \in 1..Len(loops') : loops'[m].pc # "idle" => loops'[m].bundle # <<>>
    BY <2>1, <2>3, LoopReplaced
  <2>5. /\ hb' \in Seq(Seq(Msg)) /\ AtEntry'
        /\ \A k \in 1..Len(hb') : hb'[k] # <<>>
    BY <2>1, <2>2, LogExtended
  <2> QED BY <1>0, <2>1, <2>4, <2>5 DEF TypeInv, TypeOK, Filled, node
<1>5. ASSUME NEW n \in 1..Len(loops), answer(n) PROVE TypeInv'
  <2> DEFINE lp == [start |-> loops[n].start, height |-> answered(loops[n]), pc |-> "idle",
                    to |-> 0, bundle |-> <<>>]
  <2>1. /\ loops' = [loops EXCEPT ![n] = lp] /\ height' = answered(loops[n])
        /\ UNCHANGED <<hb, node, late, rec, lossy, crashes, calm>>
    BY <1>5 DEF answer
  <2>2. answered(loops[n]) \in Nat /\ loops[n].start \in Nat
    BY LoopIsLoop DEF answered, Loop
  <2>3. lp \in Loop /\ lp.pc = "idle"
    BY <2>2 DEF Loop
  <2>4. /\ loops' \in Seq(Loop)
        /\ \A m \in 1..Len(loops') : loops'[m].pc # "idle" => loops'[m].bundle # <<>>
    BY <2>1, <2>3, LoopReplaced
  <2> QED BY <1>0, <2>1, <2>2, <2>4 DEF TypeInv, TypeOK, Filled, AtEntry, node
<1>6. ASSUME NEW n \in 1..Len(loops), fail(n) PROVE TypeInv'
  <2>1. /\ loops' = [loops EXCEPT ![n] = NewLoop(loops[n].start)]
        /\ UNCHANGED <<height, hb, node, late, rec, lossy, crashes, calm>>
    BY <1>6 DEF fail
  <2>2. NewLoop(loops[n].start) \in Loop /\ NewLoop(loops[n].start).pc = "idle"
    BY LoopIsLoop, NewLoops DEF Loop, NewLoopIsLoop
  <2>3. /\ loops' \in Seq(Loop)
        /\ \A m \in 1..Len(loops') : loops'[m].pc # "idle" => loops'[m].bundle # <<>>
    BY <2>1, <2>2, LoopReplaced
  <2> QED BY <1>0, <2>1, <2>3 DEF TypeInv, TypeOK, Filled, AtEntry, node
<1>7. ASSUME NEW b \in late, arrive(b) PROVE TypeInv'
  <2>1. /\ b \in Seq(Msg) /\ b # <<>> /\ hb' = Append(hb, b) /\ late' \subseteq late
        /\ UNCHANGED <<height, node, loops, rec, lossy, crashes, calm>>
    BY <1>7 DEF arrive, TypeInv, TypeOK, Filled
  <2>2. /\ hb' \in Seq(Seq(Msg)) /\ AtEntry'
        /\ \A k \in 1..Len(hb') : hb'[k] # <<>>
    BY <2>1, LogExtended
  <2> QED BY <1>0, <2>1, <2>2 DEF TypeInv, TypeOK, Filled, node
<1>8. ASSUME NEW b \in late, vanish(b) PROVE TypeInv'
  BY <1>0, <1>8 DEF vanish, TypeInv, TypeOK, Filled, AtEntry, node
<1>9. CASE crash
  <2>1. /\ server' = "starting" /\ left' = pids /\ db' = FALSE /\ loops' = <<>> /\ rec' = NoRec
        /\ late' = late \cup InFlight /\ crashes' = crashes + 1
        /\ UNCHANGED <<height, hb, pids, lossy, calm>>
    BY <1>9 DEF crash
  <2>2. \A b \in InFlight : b \in Seq(Msg) /\ b # <<>>
    BY LoopIsLoop DEF InFlight, Loop
  <2>3. loops' \in Seq(Loop) /\ Len(loops') = 0
    BY <2>1
  <2>4. rec' \in Rec /\ AtEntry'
    BY <1>k, <2>1 DEF NoRec, Rec, AtEntry
  <2>5. late' \subseteq Seq(Msg) /\ \A b \in late' : b # <<>>
    BY <2>1, <2>2 DEF TypeInv, TypeOK, Filled
  <2>6. crashes' \in Nat /\ lossy' \in BOOLEAN
    BY <2>1 DEF TypeInv, TypeOK
  <2>7. TypeOK'
    BY <1>0, <1>k, <2>1, <2>3, <2>4, <2>5, <2>6 DEF TypeOK
  <2>8. Filled'
    BY <2>1, <2>3, <2>5 DEF TypeInv, Filled
  <2> QED BY <2>4, <2>7, <2>8 DEF TypeInv
<1>10. CASE recover
  <2>1. /\ server' = "recovering" /\ left' \in Nat /\ calm' \in BOOLEAN
        /\ rec' = Page(0, height, height > 0, 0, FirstPage - 1)
        /\ UNCHANGED <<height, hb, pids, db, loops, late, lossy, crashes>>
    BY <1>10, <1>k DEF recover
  <2>2. rec' \in Rec /\ rec'.last <= Len(hb) /\ rec'.slot >= 1 /\ rec'.pos = 1
    <3>1. 0 \in Nat /\ FirstPage - 1 \in Nat /\ height \in Nat
      BY <1>k, NodeAssumption
    <3>2. \A d \in BOOLEAN : LET p == Page(0, height, d, 0, FirstPage - 1)
                              IN  p \in Rec /\ p.last <= Len(hb) /\ p.slot >= 1 /\ p.pos = 1
      BY <3>1, PageIsRec
    <3>3. (height > 0) \in BOOLEAN
      OBVIOUS
    <3> QED BY <2>1, <3>2, <3>3
  <2>3. AtEntry'
    BY <2>1, <2>2, PageStarts
  <2> QED BY <1>0, <2>1, <2>2, <2>3 DEF TypeInv, TypeOK, Filled
<1>11. CASE replay
  <2> DEFINE more == rec.pos < Len(hb[rec.slot])
  <2>1. /\ rec' \in Rec /\ rec'.last = rec.last
        /\ rec'.slot = (IF more THEN rec.slot ELSE rec.slot + 1)
        /\ rec'.pos = (IF more THEN rec.pos + 1 ELSE 1)
    <3>1. PICK write \in BOOLEAN :
            rec' = [i |-> rec.i + 1, from |-> rec.from, last |-> rec.last,
                    height |-> IF write THEN rec.i ELSE rec.height,
                    db |-> rec.db \/ write,
                    slot |-> IF more THEN rec.slot ELSE rec.slot + 1,
                    pos |-> IF more THEN rec.pos + 1 ELSE 1]
      BY <1>11, ReplayStep
    <3> HIDE DEF more
    <3> QED BY <1>n, <3>1 DEF Rec
  <2>2. rec.slot \in 1..Len(hb) /\ rec.pos \in 1..Len(hb[rec.slot])
    <3>1. rec.slot <= rec.last /\ ~PageDone
      BY <1>11, <1>n DEF replay, PageDone
    <3> QED BY <1>n, <3>1, EntryIsMsg DEF TypeInv, AtEntry
  <2>3. UNCHANGED <<height, hb, node, loops, late, lossy, crashes, calm>>
    BY <1>11 DEF replay
  <2>4. AtEntry'
    <3>1. CASE more
      BY <1>n, <2>1, <2>2, <2>3, <3>1 DEF AtEntry, TypeInv
    <3>2. CASE ~more
      <4>1. rec'.last <= Len(hb) /\ rec'.slot >= 1 /\ rec'.pos = 1
        BY <1>n, <2>1, <2>2, <3>2 DEF AtEntry, TypeInv
      <4> QED BY <2>1, <2>3, <4>1, PageStarts
    <3> QED BY <3>1, <3>2
  <2> QED BY <1>0, <2>1, <2>3, <2>4 DEF TypeInv, TypeOK, Filled, node
<1>12. CASE nextPage
  <2>1. height' \in Nat /\ UNCHANGED <<hb, pids, left, late, lossy, crashes, calm>>
    BY <1>k, <1>12 DEF nextPage, counted, Rec
  <2>2. CASE rec.from + Limit <= Len(hb)
    <3>1. /\ rec' = Page(rec.i, rec.height, rec.db, rec.from + Limit, rec.from + 2 * Limit - 1)
          /\ UNCHANGED <<server, db, loops>>
      BY <1>12, <2>2 DEF nextPage
    <3>2. rec' \in Rec /\ rec'.last <= Len(hb) /\ rec'.slot >= 1 /\ rec'.pos = 1
      <4> DEFINE from == rec.from + Limit
                 to == rec.from + 2 * Limit - 1
      <4>1. from \in Nat /\ to \in Nat
        <5>1. Limit \in Nat /\ Limit >= 1
          BY NodeAssumption
        <5> QED BY <1>n, <5>1
      <4> DEFINE i == rec.i
                 h == rec.height
                 d == rec.db
      <4>2. i \in Nat /\ h \in Nat /\ d \in BOOLEAN
        BY <1>n
      <4>3. rec' = Page(i, h, d, from, to)
        BY <3>1
      <4> HIDE DEF from, to, i, h, d
      <4>4. /\ Page(i, h, d, from, to) \in Rec
            /\ Page(i, h, d, from, to).last <= Len(hb)
            /\ Page(i, h, d, from, to).slot >= 1
            /\ Page(i, h, d, from, to).pos = 1
        BY <4>1, <4>2, PageIsRec
      <4> QED BY <4>3, <4>4
    <3>3. AtEntry'
      BY <2>1, <3>2, PageStarts
    <3> QED BY <1>0, <2>1, <3>1, <3>2, <3>3 DEF TypeInv, TypeOK, Filled
  <2>3. CASE ~(rec.from + Limit <= Len(hb))
    <3>1. /\ server' \in {"up", "starting"} /\ db' \in BOOLEAN /\ rec' = NoRec
          /\ loops' = Append(loops, NewLoop(height'))
      BY <1>12, <1>n, <2>3 DEF nextPage, goesOn
    <3>2. /\ loops' \in Seq(Loop)
          /\ \A n \in 1..Len(loops') : loops'[n].pc # "idle" => loops'[n].bundle # <<>>
      <4>1. NewLoop(height') \in Loop /\ NewLoop(height').pc = "idle"
        BY <2>1, NewLoops DEF NewLoopIsLoop
      <4>2. /\ loops' \in Seq(Loop) /\ Len(loops') = Len(loops) + 1
            /\ \A n \in 1..Len(loops) : loops'[n] = loops[n]
            /\ loops'[Len(loops) + 1] = NewLoop(height')
        BY <1>k, <3>1, <4>1, AppendProperties
      <4> QED BY <4>1, <4>2 DEF TypeInv, Filled
    <3>3. rec' \in Rec /\ AtEntry'
      BY <1>k, <2>1, <3>1 DEF NoRec, Rec, AtEntry
    <3> QED BY <1>0, <2>1, <3>1, <3>2, <3>3 DEF TypeInv, TypeOK, Filled
  <2> QED BY <2>2, <2>3
<1>13. CASE recoverFails
  <2>1. /\ height' \in Nat /\ left' \in Nat /\ server' \in {"up", "starting"} /\ rec' = NoRec
        /\ UNCHANGED <<hb, pids, db, loops, late, lossy, crashes, calm>>
    BY <1>k, <1>13 DEF recoverFails, goesOn, counted, Rec
  <2>2. rec' \in Rec /\ AtEntry'
    BY <1>k, <2>1 DEF NoRec, Rec, AtEntry
  <2> QED BY <1>0, <2>1, <2>2 DEF TypeInv, TypeOK, Filled
<1> QED BY <1>1, <1>2, <1>3, <1>4, <1>5, <1>6, <1>7, <1>8, <1>9, <1>10, <1>11, <1>12, <1>13
        DEF Next, vars, set, flush

-----------------------------------------------------------------------------
(* A copy of durable entries stays one: what is durable is never taken back*)
(* and grows at its end.                                                   *)
LEMMA DurableStays ==
  ASSUME TypeInv, LogStep
  PROVE  /\ durable <= durable'
         /\ \A n \in 1..durable : log'[n] = log[n]
<1>0. log \in Seq(Query) /\ durable \in 0..Len(log)
  BY DEF TypeInv, TypeOK, Kv!TypeOK
<1>1. CASE \E q : Appends(q)
  BY <1>0, <1>1 DEF Appends, Kv!Commit
<1>2. CASE Kv!Crash
  BY <1>0, <1>2 DEF Kv!Crash
<1>3. CASE Kv!Flush
  BY <1>0, <1>3 DEF Kv!Flush
<1>4. CASE UNCHANGED <<log, durable>>
  BY <1>0, <1>4
<1> QED BY <1>1, <1>2, <1>3, <1>4 DEF LogStep

LEMMA CopyStays ==
  ASSUME TypeInv, LogStep, NEW b \in Seq(Msg), IsCopy(b)
  PROVE  IsCopy(b)'
<1>1. durable \in Nat /\ durable' \in Nat
  BY LogIsLog DEF TypeInv, TypeOK, Kv!TypeOK
<1>2. ASSUME NEW k \in 1..Len(b)
      PROVE  b[k].slot < durable' /\ b[k].q = log'[b[k].slot + 1]
  <2>1. b[k] \in Msg
    BY <1>2
  <2>2. b[k].slot \in Nat /\ b[k].slot < durable
    BY <1>2, <2>1 DEF IsCopy, Msg
  <2>3. b[k].slot + 1 \in 1..durable
    BY <1>1, <2>2
  <2>4. durable <= durable' /\ log'[b[k].slot + 1] = log[b[k].slot + 1]
    BY <2>3, DurableStays
  <2>5. b[k].q = log[b[k].slot + 1]
    BY <1>2 DEF IsCopy
  <2> QED BY <1>1, <2>2, <2>4, <2>5
<1> QED BY <1>2 DEF IsCopy

(* The bundles there are.                                                  *)
Bundles == {hb[k] : k \in 1..Len(hb)} \cup {loops[n].bundle : n \in 1..Len(loops)} \cup late

LEMMA BundlesAreCopies == ShippedIsDurable <=> \A b \in Bundles : IsCopy(b)
BY DEF ShippedIsDurable, Bundles

(* A step makes a bundle of the durable entries, or none.                  *)
NewBundle(b) == b = <<>> \/ \E h \in Nat : h < durable /\ b = Bundle(h, durable)

LEMMA StepOfBundles ==
  ASSUME TypeInv, [Next]_vars
  PROVE  \A b \in Bundles' : b \in Bundles \/ NewBundle(b)
<1>k. hb \in Seq(Seq(Msg)) /\ loops \in Seq(Loop)
  BY DEF TypeInv, TypeOK
<1>1. ASSUME UNCHANGED <<hb, loops>>, late' \subseteq late
      PROVE  \A b \in Bundles' : b \in Bundles \/ NewBundle(b)
  BY <1>1 DEF Bundles
<1>2. ASSUME NEW n \in 1..Len(loops), NEW lp, loops' = [loops EXCEPT ![n] = lp],
             NewBundle(lp.bundle) \/ lp.bundle = loops[n].bundle,
             UNCHANGED <<hb, late>>
      PROVE  \A b \in Bundles' : b \in Bundles \/ NewBundle(b)
  <2>1. /\ Len(loops') = Len(loops) /\ loops'[n] = lp
        /\ \A m \in 1..Len(loops) : m # n => loops'[m] = loops[m]
    BY <1>k, <1>2
  <2> QED BY <1>2, <2>1 DEF Bundles
<1>3. ASSUME NEW b \in Bundles, hb' = Append(hb, b), b \in Seq(Msg),
             {loops'[n].bundle : n \in 1..Len(loops')} \subseteq Bundles, late' \subseteq late
      PROVE  \A c \in Bundles' : c \in Bundles \/ NewBundle(c)
  <2>1. /\ Len(hb') = Len(hb) + 1 /\ hb'[Len(hb) + 1] = b
        /\ \A k \in 1..Len(hb) : hb'[k] = hb[k]
    BY <1>k, <1>3
  <2>2. \A k \in 1..Len(hb') : hb'[k] \in Bundles
    BY <1>3, <2>1 DEF Bundles
  <2> QED BY <1>3, <2>2 DEF Bundles
<1>4. ASSUME NEW a \in Account, initDB(a) PROVE \A b \in Bundles' : b \in Bundles \/ NewBundle(b)
  <2>1. loops' = Append(loops, NewLoop(height)) /\ UNCHANGED <<hb, late>>
    BY <1>4 DEF initDB
  <2>2. NewLoop(height) \in Loop /\ NewLoop(height).bundle = <<>>
    BY NewLoops DEF NewLoopIsLoop, TypeInv, TypeOK
  <2>3. /\ Len(loops') = Len(loops) + 1 /\ loops'[Len(loops) + 1] = NewLoop(height)
        /\ \A n \in 1..Len(loops) : loops'[n] = loops[n]
    BY <1>k, <2>1, <2>2, AppendProperties
  <2> QED BY <2>1, <2>2, <2>3 DEF Bundles, NewBundle
<1>5. ASSUME NEW n \in 1..Len(loops), poll(n) PROVE \A b \in Bundles' : b \in Bundles \/ NewBundle(b)
  <2>1. loops[n].height \in Nat /\ loops[n].height < durable
    BY <1>5, LoopIsLoop DEF Loop, poll, lastEntry
  <2>2. NewBundle(Bundle(loops[n].height, lastEntry))
    BY <2>1 DEF NewBundle, lastEntry
  <2> QED BY <1>2, <1>5, <2>2 DEF poll
<1>6. ASSUME NEW n \in 1..Len(loops), accept(n) PROVE \A b \in Bundles' : b \in Bundles \/ NewBundle(b)
  <2>1. loops[n].bundle \in Bundles /\ loops[n].bundle \in Seq(Msg)
    BY LoopIsLoop DEF Bundles, Loop
  <2>2. /\ hb' = Append(hb, loops[n].bundle) /\ late' = late
        /\ loops' = [loops EXCEPT ![n] = [@ EXCEPT !.pc = "accepted"]]
    BY <1>6 DEF accept
  <2>3. Len(loops') = Len(loops) /\ \A m \in 1..Len(loops) : loops'[m].bundle = loops[m].bundle
    BY <1>k, <2>2, LoopIsLoop, SMTT(30) DEF Loop
  <2> QED BY <1>3, <2>1, <2>2, <2>3 DEF Bundles
<1>7. ASSUME NEW n \in 1..Len(loops), answer(n) PROVE \A b \in Bundles' : b \in Bundles \/ NewBundle(b)
  BY <1>2, <1>7 DEF answer, NewBundle
<1>8. ASSUME NEW n \in 1..Len(loops), fail(n) PROVE \A b \in Bundles' : b \in Bundles \/ NewBundle(b)
  BY <1>2, <1>8 DEF fail, NewBundle, NewLoop
<1>9. ASSUME NEW b \in late, arrive(b) PROVE \A c \in Bundles' : c \in Bundles \/ NewBundle(c)
  <2>1. b \in Bundles /\ b \in Seq(Msg)
    BY DEF Bundles, TypeInv, TypeOK
  <2> QED BY <1>3, <1>9, <2>1 DEF arrive, Bundles
<1>10. CASE crash
  <2>1. hb' = hb /\ loops' = <<>> /\ late' \subseteq Bundles
    BY <1>10 DEF crash, Bundles, InFlight
  <2> QED BY <2>1 DEF Bundles
<1>11. CASE nextPage
  <2>1. hb' = hb /\ late' = late /\ (loops' = loops \/ loops' = Append(loops, NewLoop(height')))
    BY <1>11 DEF nextPage
  <2>2. ASSUME loops' = Append(loops, NewLoop(height'))
        PROVE  \A b \in Bundles' : b \in Bundles \/ NewBundle(b)
    <3>1. height' \in Nat
      BY <1>11 DEF nextPage, counted, TypeInv, TypeOK, Rec
    <3>2. NewLoop(height') \in Loop /\ NewLoop(height').bundle = <<>>
      BY <3>1, NewLoops DEF NewLoopIsLoop
    <3>3. /\ Len(loops') = Len(loops) + 1 /\ loops'[Len(loops) + 1] = NewLoop(height')
          /\ \A n \in 1..Len(loops) : loops'[n] = loops[n]
      BY <1>k, <2>2, <3>2, AppendProperties
    <3> QED BY <2>1, <3>2, <3>3 DEF Bundles, NewBundle
  <2> QED BY <1>1, <2>1, <2>2
<1> QED BY <1>1, <1>4, <1>5, <1>6, <1>7, <1>8, <1>9, <1>10, <1>11
        DEF Next, vars, set, flush, vanish, recover, replay, recoverFails

LEMMA NextShipped == TypeInv /\ LogInv /\ ShippedIsDurable /\ [Next]_vars => ShippedIsDurable'
<1> SUFFICES ASSUME TypeInv, LogInv, ShippedIsDurable, [Next]_vars, NEW b \in Bundles'
             PROVE  IsCopy(b)'
  BY DEF ShippedIsDurable, Bundles
<1>1. LogStep
  BY StepOfLog DEF LogInv
<1>2. CASE b \in Bundles
  <2>1. b \in Seq(Msg)
    BY <1>2, LoopIsLoop, SMTT(30) DEF Bundles, TypeInv, TypeOK, Loop
  <2>2. IsCopy(b)
    BY <1>2, BundlesAreCopies
  <2> QED BY <1>1, <2>1, <2>2, CopyStays
<1>3. CASE NewBundle(b)
  <2>1. b \in Seq(Msg) /\ IsCopy(b)
    <3>1. CASE b = <<>>
      BY <3>1 DEF IsCopy
    <3>2. ASSUME NEW h \in Nat, h < durable, b = Bundle(h, durable) PROVE b \in Seq(Msg) /\ IsCopy(b)
      BY <3>2, BundleIsMsgs DEF TypeInv
    <3> QED BY <1>3, <3>1, <3>2 DEF NewBundle
  <2> QED BY <1>1, <2>1, CopyStays
<1> QED BY <1>2, <1>3, StepOfBundles

-----------------------------------------------------------------------------
LEMMA InitLogInv == Init => LogInv /\ ShippedIsDurable
<1> SUFFICES ASSUME Init PROVE LogInv /\ ShippedIsDurable
  OBVIOUS
<1>1. Len(log) = 0 /\ Len(hb) = 0 /\ Len(loops) = 0 /\ late = {}
  BY DEF Init, Kv!Init
<1> QED BY <1>1 DEF LogInv, NoReplayedQuery, LastExists, ShippedIsDurable

LEMMA NodeInv == Spec => [](TypeInv /\ LogInv /\ ShippedIsDurable)
<1>1. TypeInv /\ LogInv /\ [Next]_vars => LogInv'
  BY StepOfLog, LogStepKeeps DEF LogInv
<1> QED BY <1>1, InitTypeInv, InitLogInv, NextTypeInv, NextShipped, PTL DEF Spec

(* dev_verify.js: whatever is replayed, resent or recovered, the nonces of *)
(* a signer increase along the log, and init comes first and once.         *)
THEOREM NoQueryTwice == Spec => []NoReplayedQuery
BY NodeInv, PTL DEF LogInv

(* wal.js:32-50: every message in the HyperBEAM log, or on its way there,  *)
(* is an entry of the WAL that no crash takes back.                        *)
THEOREM ShippedStays == Spec => []ShippedIsDurable
BY NodeInv, PTL

-----------------------------------------------------------------------------
(* A message of the HyperBEAM log is an entry that the engine has, so the  *)
(* nonce of its signer has reached it.                                     *)
LEMMA ShippedIsRefused ==
  ASSUME TypeInv, LogInv, ShippedIsDurable, NEW k \in 1..Len(hb), NEW m \in 1..Len(hb[k])
  PROVE  ~accepts(log, hb[k][m].q)
<1> DEFINE v == hb[k][m]
<1>1. log \in Seq(Query) /\ durable \in 0..Len(log) /\ hb \in Seq(Seq(Msg))
  BY DEF TypeInv, TypeOK, Kv!TypeOK
<1>2. v \in Msg /\ v.slot < durable /\ v.q = log[v.slot + 1]
  <2>1. hb[k] \in Seq(Msg) /\ IsCopy(hb[k])
    BY <1>1 DEF ShippedIsDurable
  <2> QED BY <2>1 DEF IsCopy
<1> HIDE DEF v
<1>3. v.slot + 1 \in 1..Len(log) /\ v.q \in Query /\ v.q.acct \in Account /\ v.q.nonce \in Nat
  <2>1. v.slot \in Nat /\ v.q \in Query
    BY <1>2 DEF Msg
  <2>2. v.slot + 1 \in 1..Len(log)
    BY <1>1, <1>2, <2>1
  <2> QED BY <2>1, <2>2 DEF Query
<1>4. v.slot + 1 \in Of(log, v.q.acct)
  BY <1>2, <1>3 DEF Of
<1>5. PICK n \in Of(log, v.q.acct) : /\ nonceOf(log, v.q.acct) = log[n].nonce
                                     /\ \A j \in Of(log, v.q.acct) : j <= n
  BY <1>1, <1>3, <1>4, NonceIsLast DEF LogInv
<1>6. n \in 1..Len(log) /\ log[n].acct = v.q.acct /\ v.slot + 1 <= n /\ log[n].nonce \in Nat
  <2>1. n \in 1..Len(log) /\ log[n].acct = v.q.acct /\ v.slot + 1 <= n
    BY <1>4, <1>5 DEF Of
  <2>2. log[n] \in Query
    BY <1>1, <2>1
  <2> QED BY <2>1, <2>2 DEF Query
<1>7. v.q.nonce <= log[n].nonce
  <2>1. CASE v.slot + 1 = n
    BY <1>2, <1>3, <2>1
  <2>2. CASE v.slot + 1 # n
    <3>1. v.slot + 1 < n
      BY <1>3, <1>6, <2>2
    <3>2. log[v.slot + 1].nonce < log[n].nonce
      BY <1>2, <1>3, <1>6, <3>1 DEF LogInv, NoReplayedQuery
    <3> QED BY <1>2, <1>3, <1>6, <3>2
  <2> QED BY <2>1, <2>2
<1>8. v.q.nonce # nonceOf(log, v.q.acct) + 1
  BY <1>3, <1>5, <1>6, <1>7
<1> QED BY <1>8 DEF accepts, v

(* A server that is not up has nothing that is not durable.                *)
Settled == server # "up" => durable = Len(log)

(* The message that recover() is at changes nothing.                       *)
LEMMA ReplayChangesNothing ==
  ASSUME TypeInv, LogInv, ShippedIsDurable, replay
  PROVE  UNCHANGED <<log, durable>>
<1>1. ~PageDone /\ rec.slot \in 1..Len(hb) /\ rec.pos \in 1..Len(hb[rec.slot])
  <2>1. ~PageDone
    BY DEF replay
  <2>2. /\ rec.slot \in Nat /\ rec.last \in Nat /\ Len(hb) \in Nat
        /\ rec.last <= Len(hb) /\ rec.slot >= 1
    BY DEF TypeInv, TypeOK, AtEntry, Rec
  <2>3. rec.slot \in 1..Len(hb)
    BY <2>1, <2>2 DEF PageDone
  <2> QED BY <2>1, <2>3, EntryIsMsg
<1>2. ~accepts(log, hb[rec.slot][rec.pos].q)
  BY <1>1, ShippedIsRefused
<1> QED BY <1>2 DEF replay

LEMMA NextSettled == TypeInv /\ LogInv /\ ShippedIsDurable /\ Settled /\ [Next]_vars => Settled'
<1> SUFFICES ASSUME TypeInv, LogInv, ShippedIsDurable, Settled, [Next]_vars
             PROVE  Settled'
  OBVIOUS
<1>0. log \in Seq(Query) /\ durable \in 0..Len(log)
  BY DEF TypeInv, TypeOK, Kv!TypeOK
<1>1. ASSUME server' = server \/ server # "up", UNCHANGED <<log, durable>>
      PROVE  Settled'
  BY <1>1 DEF Settled
<1>2. ASSUME NEW op, NEW a, set(op, a)
      PROVE  Settled'
  BY <1>2 DEF set, node, Settled
<1>3. ASSUME NEW a, initDB(a)
      PROVE  Settled'
  BY <1>3 DEF initDB, Settled
<1>4. CASE flush
  BY <1>0, <1>4 DEF flush, Kv!Flush, Settled
<1>5. CASE crash
  BY <1>0, <1>5 DEF crash, Kv!Crash, Settled
<1>6. CASE replay
  BY <1>1, <1>6, ReplayChangesNothing DEF replay
<1>7. CASE recover \/ nextPage \/ recoverFails
  BY <1>1, <1>7 DEF recover, nextPage, recoverFails
<1>8. ASSUME NEW n \in 1..Len(loops), poll(n) \/ accept(n) \/ answer(n) \/ fail(n)
      PROVE  Settled'
  BY <1>1, <1>8 DEF poll, accept, answer, fail, node
<1>9. ASSUME NEW b \in late, arrive(b) \/ vanish(b)
      PROVE  Settled'
  BY <1>1, <1>9 DEF arrive, vanish, node
<1>10. CASE UNCHANGED vars
  BY <1>1, <1>10 DEF vars, node
<1> QED BY <1>2, <1>3, <1>4, <1>5, <1>6, <1>7, <1>8, <1>9, <1>10 DEF Next

(* recover.js:44-68: a recovery on top of a store that survived commits    *)
(* nothing, whatever was lost, sent twice or counted wrongly before, and   *)
(* when the process dies in it nothing is lost.                            *)
THEOREM RecoveryChangesNothing == Spec => RecoveryIsIdempotent
<1>1. ASSUME TypeInv, LogInv, ShippedIsDurable, Settled, [Next]_vars, server = "recovering"
      PROVE  log' = log
  <2>1. CASE replay
    BY <1>1, <2>1, ReplayChangesNothing
  <2>2. ASSUME NEW a, NEW op, set(op, a) \/ initDB(a)
        PROVE  FALSE
    BY <1>1, <2>2 DEF set, initDB
  <2>3. ASSUME NEW n \in 1..Len(loops), poll(n) \/ accept(n) \/ answer(n) \/ fail(n)
        PROVE  log' = log
    BY <2>3 DEF poll, accept, answer, fail
  <2>4. ASSUME NEW b \in late, arrive(b) \/ vanish(b)
        PROVE  log' = log
    BY <2>4 DEF arrive, vanish
  <2>5. CASE flush \/ recover \/ nextPage \/ recoverFails \/ UNCHANGED vars
    BY <2>5 DEF flush, Kv!Flush, recover, nextPage, recoverFails, vars
  <2>6. CASE crash
    <3>1. log \in Seq(Query) /\ durable = Len(log)
      BY <1>1 DEF Settled, TypeInv, TypeOK, Kv!TypeOK
    <3> QED BY <2>6, <3>1 DEF crash, Kv!Crash
  <2> QED BY <1>1, <2>1, <2>2, <2>3, <2>4, <2>5, <2>6 DEF Next
<1>2. Init => Settled
  BY DEF Init, Settled
<1>3. /\ TypeInv /\ LogInv /\ ShippedIsDurable /\ Settled /\ [Next]_vars
      => [server = "recovering" => log' = log]_vars
  BY <1>1
<1>4. (TypeInv /\ LogInv /\ ShippedIsDurable) /\ Settled /\ [Next]_vars => Settled'
  BY NextSettled
<1> QED BY <1>2, <1>3, <1>4, NodeInv, PTL DEF Spec, RecoveryIsIdempotent

-----------------------------------------------------------------------------
(* The number that follows the last message of the HyperBEAM log, and the  *)
(* number of the first message of a slot.                                  *)
Top == IF hb = <<>> THEN 0 ELSE hb[Len(hb)][Len(hb[Len(hb)])].slot + 1
Start(k) == IF k <= Len(hb) THEN hb[k][1].slot ELSE Top

(* The numbers of the messages are 0, 1, 2, ...                            *)
Contiguous ==
  /\ \A k \in 1..Len(hb) :
       hb[k][1].slot = IF k = 1 THEN 0 ELSE hb[k - 1][Len(hb[k - 1])].slot + 1
  /\ \A k \in 1..Len(hb) : hb[k][Len(hb[k])].slot < Top
  /\ \A j \in 0..(Top - 1) : IsShipped(j)

(* The loop that is running goes on where the log ends. *)
LoopAt(lp) ==
  /\ lp.pc = "idle" => lp.height = Top
  /\ lp.pc = "sent" => lp.bundle[1].slot = Top /\ lp.to = Top + Len(lp.bundle)
  /\ lp.pc = "accepted" => lp.to = Top

(* recover() has counted the messages before the one it is at. *)
RecAt ==
  /\ rec.slot <= rec.last + 1
  /\ rec.i = Start(rec.slot) + rec.pos - 1
  /\ rec.slot > rec.last => rec.pos = 1
  /\ rec.height <= Top /\ (rec.height = Top => height = Top)
  /\ rec.last = IF rec.from + Limit - 1 < Len(hb) /\ FirstPage = Limit
                THEN rec.from + Limit - 1 ELSE Len(hb)

OneLoop ==
  /\ Len(loops) <= 1
  /\ server # "up" => loops = <<>>
  /\ server = "up" /\ loops = <<>> => hb = <<>>
  /\ \A n \in 1..Len(loops) : LoopAt(loops[n])

(* The list has the pid once, so that a start recovers it once. *)
OnePid ==
  /\ pids <= 1
  /\ server = "up" /\ loops = <<>> => pids = 0
  /\ server = "starting" => left <= 1
  /\ server = "recovering" => left = 0

OneLate ==
  /\ server # "starting" => late = {}
  /\ \A b, c \in late : b = c
  /\ \A b \in late : b[1].slot = Top

ShipInv ==
  ~lossy /\ calm =>
    /\ Contiguous /\ height <= Top /\ Len(hb) <= MaxSlot
    /\ OneLoop /\ OnePid /\ OneLate
    /\ server = "recovering" => RecAt

(* The pages of recover() do not overlap, or the log fits in the first.    *)
PagesFit == FirstPage = Limit \/ (MaxSlot < Limit /\ MaxSlot < FirstPage)

(* The messages of a bundle have consecutive numbers. *)
LEMMA Consecutive ==
  ASSUME NEW b \in Seq(Msg), b # <<>>, IsCopy(b)
  PROVE  /\ Len(b) \in Nat /\ Len(b) >= 1 /\ b[1].slot \in Nat
         /\ \A m \in 1..Len(b) : b[m].slot = b[1].slot + m - 1
<1>1. Len(b) \in Nat /\ Len(b) >= 1
  OBVIOUS
<1>2. b[1] \in Msg
  BY <1>1
<1> QED BY <1>1, <1>2 DEF Msg, IsCopy

LEMMA BundleOf ==
  ASSUME TypeInv, ShippedIsDurable, NEW k \in 1..Len(hb)
  PROVE  hb[k] \in Seq(Msg) /\ hb[k] # <<>> /\ IsCopy(hb[k])
BY DEF TypeInv, TypeOK, Filled, ShippedIsDurable

LEMMA TopIsNat ==
  ASSUME TypeInv, ShippedIsDurable
  PROVE  Top \in Nat /\ Len(hb) \in Nat /\ \A k \in Nat \ {0} : Start(k) \in Nat
<1>0. Len(hb) \in Nat /\ hb \in Seq(Seq(Msg))
  BY DEF TypeInv, TypeOK
<1>1. Top \in Nat
  <2>1. CASE hb = <<>>
    BY <2>1 DEF Top
  <2>2. CASE hb # <<>>
    <3> DEFINE b == hb[Len(hb)]
    <3>1. Len(hb) \in 1..Len(hb)
      BY <1>0, <2>2
    <3>2. b \in Seq(Msg) /\ b # <<>>
      BY <3>1, BundleOf
    <3>3. b[Len(b)] \in Msg
      BY <3>2
    <3> QED BY <2>2, <3>3 DEF Top, Msg
  <2> QED BY <2>1, <2>2
<1>2. ASSUME NEW k \in Nat \ {0}
      PROVE  Start(k) \in Nat
  <2>1. CASE k <= Len(hb)
    <3>1. hb[k] \in Seq(Msg) /\ hb[k] # <<>> /\ IsCopy(hb[k])
      BY <1>0, <2>1, BundleOf
    <3>2. hb[k][1].slot \in Nat
      BY <3>1, Consecutive
    <3> QED BY <2>1, <3>2 DEF Start
  <2>2. CASE ~(k <= Len(hb))
    BY <1>1, <2>2 DEF Start
  <2> QED BY <2>1, <2>2
<1> QED BY <1>0, <1>1, <1>2

(* A slot starts where the one before it ends. *)
LEMMA StartStep ==
  ASSUME TypeInv, ShippedIsDurable, Contiguous, NEW k \in 1..Len(hb)
  PROVE  /\ Start(k + 1) = Start(k) + Len(hb[k])
         /\ Start(k) + Len(hb[k]) <= Top
         /\ Len(hb[k]) \in Nat /\ Start(k) \in Nat
<1> DEFINE b == hb[k]
           l == Len(b)
<1>1. b \in Seq(Msg) /\ b # <<>> /\ IsCopy(b)
  BY BundleOf
<1>2. l \in Nat /\ l >= 1 /\ b[1].slot \in Nat /\ b[l].slot = b[1].slot + l - 1
  BY <1>1, Consecutive
<1>3. Start(k) = b[1].slot /\ Len(hb) \in Nat
  BY TopIsNat DEF Start
<1>4. b[l].slot < Top /\ Top \in Nat
  BY TopIsNat DEF Contiguous
<1>5. Start(k + 1) = b[l].slot + 1
  <2>1. CASE k = Len(hb)
    <3>1. ~(k + 1 <= Len(hb)) /\ hb # <<>>
      BY <1>3, <2>1 DEF TypeInv, TypeOK
    <3> QED BY <2>1, <3>1 DEF Start, Top
  <2>2. CASE k # Len(hb)
    <3>1. k + 1 \in 1..Len(hb) /\ k + 1 # 1 /\ (k + 1) - 1 = k /\ k + 1 <= Len(hb)
      BY <1>3, <2>2
    <3>2. hb[k + 1][1].slot = hb[k][Len(hb[k])].slot + 1
      BY <3>1 DEF Contiguous
    <3> QED BY <3>1, <3>2 DEF Start
  <2> QED BY <2>1, <2>2
<1> HIDE DEF l
<1>6. Start(k + 1) = b[1].slot + l /\ b[1].slot + l <= Top
  BY <1>2, <1>4, <1>5
<1> QED BY <1>2, <1>3, <1>6 DEF l

(* A bundle that starts there goes on with the numbers. *)
LEMMA TopMoves ==
  ASSUME TypeInv, ShippedIsDurable, Contiguous,
         NEW b \in Seq(Msg), b # <<>>, IsCopy(b), b[1].slot = Top, hb' = Append(hb, b)
  PROVE  Contiguous' /\ Top' = Top + Len(b)
<1> DEFINE e == Len(hb) + 1
<1>1. /\ hb \in Seq(Seq(Msg)) /\ Len(hb) \in Nat /\ Top \in Nat
  BY TopIsNat DEF TypeInv, TypeOK
<1>2. /\ hb' \in Seq(Seq(Msg)) /\ Len(hb') = e /\ hb'[e] = b
      /\ \A k \in 1..Len(hb) : hb'[k] = hb[k]
  BY <1>1
<1>3. /\ Len(b) \in Nat /\ Len(b) >= 1
      /\ \A m \in 1..Len(b) : b[m].slot = Top + m - 1
  BY Consecutive
<1>4. b[Len(b)].slot = Top + Len(b) - 1
  BY <1>3
<1>5. Top' = Top + Len(b)
  <2>1. hb' # <<>>
    BY <1>1, <1>2
  <2>2. Top' = b[Len(b)].slot + 1
    BY <1>2, <2>1 DEF Top
  <2> QED BY <1>1, <1>3, <1>4, <2>2
<1>6. ASSUME NEW k \in 1..e
      PROVE  /\ hb'[k][1].slot = IF k = 1 THEN 0 ELSE hb'[k - 1][Len(hb'[k - 1])].slot + 1
             /\ hb'[k][Len(hb'[k])].slot < Top'
  <2>1. CASE k \in 1..Len(hb)
    <3>0. k # 1 => k - 1 \in 1..Len(hb)
      BY <1>1, <2>1
    <3>1. hb'[k] = hb[k] /\ (k # 1 => hb'[k - 1] = hb[k - 1])
      BY <1>2, <2>1, <3>0
    <3>2. hb[k][Len(hb[k])].slot \in Nat
      <4>1. hb[k] \in Seq(Msg) /\ hb[k] # <<>>
        BY <2>1, BundleOf
      <4>2. hb[k][Len(hb[k])] \in Msg
        BY <4>1
      <4> QED BY <4>2 DEF Msg
    <3>3. hb[k][Len(hb[k])].slot < Top
      BY <2>1 DEF Contiguous
    <3>4. hb[k][Len(hb[k])].slot < Top'
      <4>1. \A x \in Nat : x < Top => x < Top + Len(b)
        BY <1>1, <1>3
      <4> QED BY <1>5, <3>2, <3>3, <4>1
    <3> QED BY <2>1, <3>1, <3>4 DEF Contiguous
  <2>2. CASE k = e
    <3>1. hb'[k] = b /\ b[Len(b)].slot < Top'
      BY <1>1, <1>2, <1>3, <1>4, <1>5, <2>2
    <3>2. CASE k = 1
      <4>1. hb = <<>>
        BY <1>1, <2>2, <3>2
      <4> QED BY <3>1, <3>2, <4>1 DEF Top
    <3>3. CASE k # 1
      <4>1. k - 1 = Len(hb) /\ Len(hb) \in 1..Len(hb) /\ hb # <<>>
        BY <1>1, <2>2, <3>3
      <4>2. hb'[k - 1] = hb[Len(hb)]
        BY <1>2, <4>1
      <4>3. Top = hb[Len(hb)][Len(hb[Len(hb)])].slot + 1
        BY <4>1 DEF Top
      <4> QED BY <3>1, <3>3, <4>2, <4>3
    <3> QED BY <3>2, <3>3
  <2> QED BY <1>1, <2>1, <2>2
<1>7. ASSUME NEW j \in 0..(Top' - 1)
      PROVE  IsShipped(j)'
  <2>1. CASE j < Top
    <3>1. j \in 0..(Top - 1)
      BY <1>1, <2>1
    <3>2. PICK k \in 1..Len(hb) : \E m \in 1..Len(hb[k]) : hb[k][m].slot = j
      BY <3>1 DEF Contiguous, IsShipped
    <3>3. k \in 1..Len(hb') /\ hb'[k] = hb[k]
      BY <1>1, <1>2
    <3> QED BY <3>2, <3>3 DEF IsShipped
  <2>2. CASE ~(j < Top)
    <3>1. j \in Int /\ j < Top + Len(b)
      BY <1>1, <1>3, <1>5
    <3>2. (j - Top) + 1 \in 1..Len(b)
      BY <1>1, <1>3, <2>2, <3>1
    <3>3. b[(j - Top) + 1].slot = j
      <4>1. b[(j - Top) + 1].slot = Top + ((j - Top) + 1) - 1
        BY <1>3, <3>2
      <4> QED BY <1>1, <3>1, <4>1
    <3>4. e \in 1..Len(hb')
      BY <1>1, <1>2
    <3> QED BY <1>2, <3>2, <3>3, <3>4 DEF IsShipped
  <2> QED BY <2>1, <2>2
<1> QED BY <1>2, <1>5, <1>6, <1>7 DEF Contiguous

LEMMA InitShipInv == Init => ShipInv
<1> SUFFICES ASSUME Init
             PROVE  ShipInv
  OBVIOUS
<1>1. hb = <<>> /\ Len(hb) = 0 /\ loops = <<>> /\ Len(loops) = 0 /\ late = {}
      /\ server = "up" /\ height = 0
  BY DEF Init
<1>2. Top = 0
  BY <1>1 DEF Top
<1>3. Contiguous
  BY <1>1, <1>2 DEF Contiguous
<1>4. OneLoop /\ OneLate
  BY <1>1 DEF OneLoop, OneLate
<1>5. OnePid
  BY <1>1 DEF Init, OnePid
<1> QED BY <1>1, <1>2, <1>3, <1>4, <1>5, NodeAssumption DEF ShipInv

(* What depends on the HyperBEAM log only. *)
LEMMA SameLog ==
  ASSUME hb' = hb
  PROVE  /\ Top' = Top /\ (Contiguous => Contiguous')
         /\ \A k : Start(k)' = Start(k)
         /\ \A lp : LoopAt(lp) => LoopAt(lp)'
<1>1. Top' = Top
  BY DEF Top
<1>2. \A j : IsShipped(j)' <=> IsShipped(j)
  BY DEF IsShipped
<1> QED BY <1>1, <1>2 DEF Contiguous, Start, LoopAt

(* Recovery: one message, and the end of a page. *)
LEMMA ReplayCounts ==
  ASSUME TypeInv, ShippedIsDurable, Contiguous, height <= Top, server = "recovering", RecAt, replay
  PROVE  RecAt'
<1> DEFINE more == rec.pos < Len(hb[rec.slot])
<1>0. PICK write \in BOOLEAN :
        rec' = [i |-> rec.i + 1, from |-> rec.from, last |-> rec.last,
                height |-> IF write THEN rec.i ELSE rec.height,
                db |-> rec.db \/ write,
                slot |-> IF more THEN rec.slot ELSE rec.slot + 1,
                pos |-> IF more THEN rec.pos + 1 ELSE 1]
  BY ReplayStep
<1>1. UNCHANGED <<height, hb>> /\ ~PageDone
  BY DEF replay
<1>2. /\ rec'.i = rec.i + 1 /\ rec'.from = rec.from /\ rec'.last = rec.last
      /\ rec'.height = (IF write THEN rec.i ELSE rec.height)
      /\ rec'.slot = (IF more THEN rec.slot ELSE rec.slot + 1)
      /\ rec'.pos = (IF more THEN rec.pos + 1 ELSE 1)
  BY <1>0
<1>3. /\ rec.i \in Nat /\ rec.height \in Nat /\ rec.slot \in Nat /\ rec.pos \in Nat
      /\ rec.last \in Nat /\ height \in Nat
      /\ rec.last <= Len(hb) /\ rec.slot >= 1
  BY DEF TypeInv, TypeOK, Rec, AtEntry
<1>4. /\ Top \in Nat /\ Len(hb) \in Nat /\ Top' = Top
      /\ \A k : Start(k)' = Start(k)
  BY <1>1, TopIsNat, SameLog
<1>5. rec.slot <= rec.last /\ rec.slot \in 1..Len(hb)
  BY <1>1, <1>3, <1>4 DEF PageDone
<1>6. rec.pos \in 1..Len(hb[rec.slot])
  BY <1>1, EntryIsMsg
<1>7. /\ Start(rec.slot + 1) = Start(rec.slot) + Len(hb[rec.slot])
      /\ Start(rec.slot) + Len(hb[rec.slot]) <= Top
      /\ Len(hb[rec.slot]) \in Nat /\ Start(rec.slot) \in Nat
  BY <1>5, StartStep
<1>8. rec.i = Start(rec.slot) + rec.pos - 1 /\ rec.i < Top
  <2>1. rec.i = Start(rec.slot) + rec.pos - 1
    BY DEF RecAt
  <2> QED BY <1>3, <1>4, <1>6, <1>7, <2>1
<1>9. rec'.i = Start(rec'.slot) + rec'.pos - 1
  <2>1. CASE more
    BY <1>2, <1>3, <1>7, <1>8, <2>1
  <2>2. CASE ~more
    <3>1. rec.pos = Len(hb[rec.slot])
      BY <1>6, <1>7, <2>2
    <3> QED BY <1>2, <1>3, <1>7, <1>8, <2>2, <3>1
  <2> QED BY <2>1, <2>2
<1>10. rec'.height <= Top /\ (rec'.height = Top => height = Top)
  <2>1. CASE write
    BY <1>2, <1>3, <1>4, <1>8, <2>1
  <2>2. CASE ~write
    BY <1>2, <2>2 DEF RecAt
  <2> QED BY <2>1, <2>2
<1>11. rec'.slot <= rec'.last + 1 /\ (rec'.slot > rec'.last => rec'.pos = 1)
  BY <1>2, <1>3, <1>5
<1>12. rec'.last = IF rec'.from + Limit - 1 < Len(hb) /\ FirstPage = Limit
                   THEN rec'.from + Limit - 1 ELSE Len(hb)
  BY <1>2 DEF RecAt
<1> QED BY <1>1, <1>4, <1>9, <1>10, <1>11, <1>12 DEF RecAt

LEMMA FirstPageStarts ==
  ASSUME PagesFit, TypeInv, ShippedIsDurable, Contiguous, height <= Top, Len(hb) <= MaxSlot, recover
  PROVE  RecAt'
<1>1. rec' = Page(0, height, height > 0, 0, FirstPage - 1) /\ UNCHANGED <<height, hb>>
  BY DEF recover
<1>2. /\ rec'.i = 0 /\ rec'.height = height /\ rec'.from = 0 /\ rec'.slot = 1 /\ rec'.pos = 1
      /\ rec'.last = IF FirstPage - 1 < Len(hb) THEN FirstPage - 1 ELSE Len(hb)
  BY <1>1 DEF Page
<1>3. Top \in Nat /\ Len(hb) \in Nat /\ height \in Nat /\ Top' = Top /\ Start(1)' = Start(1)
  BY <1>1, TopIsNat, SameLog DEF TypeInv, TypeOK
<1>4. Start(1) = 0
  <2>1. CASE hb = <<>>
    BY <2>1 DEF Start, Top
  <2>2. CASE hb # <<>>
    <3>1. 1 \in 1..Len(hb) /\ 1 <= Len(hb)
      BY <1>3, <2>2 DEF TypeInv, TypeOK
    <3> QED BY <3>1 DEF Start, Contiguous
  <2> QED BY <2>1, <2>2
<1>5. /\ FirstPage \in Nat /\ FirstPage >= 1 /\ Limit \in Nat /\ Limit >= 1 /\ MaxSlot \in Nat
  BY NodeAssumption
<1>6. rec'.last = IF 0 + Limit - 1 < Len(hb) /\ FirstPage = Limit
                  THEN 0 + Limit - 1 ELSE Len(hb)
  BY <1>2, <1>3, <1>5 DEF PagesFit
<1>7. rec'.last \in Nat
  BY <1>3, <1>5, <1>6
<1> QED BY <1>1, <1>2, <1>3, <1>4, <1>6, <1>7 DEF RecAt

(* A full page is followed by the slot after it; the last page ends with   *)
(* the log.                                                                *)
LEMMA PageEnds ==
  ASSUME PagesFit, TypeInv, ShippedIsDurable, Contiguous, height <= Top, Len(hb) <= MaxSlot,
         server = "recovering", RecAt, nextPage
  PROVE  /\ height' <= Top
         /\ rec.from + Limit <= Len(hb) => RecAt'
         /\ ~(rec.from + Limit <= Len(hb)) => height' = Top
<1>1. /\ rec.slot > rec.last /\ UNCHANGED hb
      /\ height' = IF rec.i > rec.height THEN rec.i ELSE height
  BY DEF nextPage, PageDone, counted
<1>2. /\ rec.i \in Nat /\ rec.height \in Nat /\ rec.from \in Nat /\ rec.slot \in Nat
      /\ rec.pos \in Nat /\ rec.last \in Nat /\ height \in Nat /\ rec.last <= Len(hb)
  BY DEF TypeInv, TypeOK, Rec, AtEntry
<1>3. /\ Top \in Nat /\ Len(hb) \in Nat /\ Top' = Top
      /\ \A k : Start(k)' = Start(k)
  BY <1>1, TopIsNat, SameLog
<1>4. Limit \in Nat /\ Limit >= 1 /\ FirstPage \in Nat /\ MaxSlot \in Nat
  BY NodeAssumption
<1>5. /\ rec.slot = rec.last + 1 /\ rec.i = Start(rec.slot) /\ rec.pos = 1
      /\ rec.height <= Top /\ (rec.height = Top => height = Top)
  <2>1. rec.slot <= rec.last + 1 /\ rec.pos = 1
    BY <1>1 DEF RecAt
  <2>2. rec.slot = rec.last + 1 /\ rec.slot \in Nat \ {0}
    BY <1>1, <1>2, <2>1
  <2>3. Start(rec.slot) \in Nat
    BY <2>2, TopIsNat
  <2>4. rec.i = Start(rec.slot) + rec.pos - 1
    BY DEF RecAt
  <2>5. rec.i = Start(rec.slot)
    BY <2>1, <2>3, <2>4
  <2> QED BY <2>1, <2>2, <2>5 DEF RecAt
<1>6. rec.i <= Top
  <2>1. CASE rec.slot <= Len(hb)
    <3>1. rec.slot \in 1..Len(hb)
      BY <1>2, <1>3, <1>5, <2>1
    <3>2. Start(rec.slot) + Len(hb[rec.slot]) <= Top /\ Len(hb[rec.slot]) \in Nat
      BY <3>1, StartStep
    <3> QED BY <1>2, <1>3, <1>5, <3>2
  <2>2. CASE ~(rec.slot <= Len(hb))
    BY <1>2, <1>3, <1>5, <2>2 DEF Start
  <2> QED BY <2>1, <2>2
<1>7. height' <= Top
  BY <1>1, <1>6
<1>8. ASSUME rec.from + Limit <= Len(hb)
      PROVE  RecAt'
  <2>1. FirstPage = Limit
    BY <1>2, <1>3, <1>4, <1>8 DEF PagesFit
  <2>2. rec.last = rec.from + Limit - 1
    <3>1. rec.from + Limit - 1 < Len(hb)
      BY <1>2, <1>3, <1>4, <1>8
    <3> QED BY <2>1, <3>1 DEF RecAt
  <2>3. rec' = Page(rec.i, rec.height, rec.db, rec.from + Limit, rec.from + 2 * Limit - 1)
    BY <1>8 DEF nextPage
  <2>4. /\ rec'.i = rec.i /\ rec'.height = rec.height /\ rec'.from = rec.from + Limit
        /\ rec'.slot = (IF rec.from + Limit = 0 THEN 1 ELSE rec.from + Limit)
        /\ rec'.pos = 1
        /\ rec'.last = IF rec.from + 2 * Limit - 1 < Len(hb)
                       THEN rec.from + 2 * Limit - 1 ELSE Len(hb)
    BY <2>3 DEF Page
  <2>5. rec'.slot = rec.slot /\ rec'.slot = rec.from + Limit
    BY <1>2, <1>4, <1>5, <2>2, <2>4
  <2>6. rec.from + 2 * Limit - 1 = (rec.from + Limit) + Limit - 1
    BY <1>2, <1>4
  <2>7. rec'.last = IF rec'.from + Limit - 1 < Len(hb) /\ FirstPage = Limit
                    THEN rec'.from + Limit - 1 ELSE Len(hb)
    BY <2>1, <2>4, <2>6
  <2>8. rec'.slot <= rec'.last + 1
    BY <1>2, <1>3, <1>4, <1>8, <2>4, <2>5, <2>6
  <2>9. rec'.i = Start(rec'.slot) + rec'.pos - 1
    <3>1. rec.i = rec.i + 1 - 1
      BY <1>2
    <3> QED BY <1>5, <2>4, <2>5, <3>1
  <2>10. rec'.height = Top => height' = Top
    BY <1>1, <1>2, <1>3, <1>5, <1>6, <2>4
  <2>11. rec'.height <= Top
    BY <1>5, <2>4
  <2> QED BY <1>1, <1>3, <2>4, <2>7, <2>8, <2>9, <2>10, <2>11 DEF RecAt
<1>9. ASSUME ~(rec.from + Limit <= Len(hb))
      PROVE  height' = Top
  <2>1. ~(rec.from + Limit - 1 < Len(hb))
    BY <1>2, <1>3, <1>4, <1>9
  <2>2. rec.last = Len(hb)
    BY <2>1 DEF RecAt
  <2>3. rec.i = Top
    BY <1>2, <1>3, <1>5, <2>2 DEF Start
  <2> QED BY <1>1, <1>2, <1>3, <1>5, <2>3
<1> QED BY <1>7, <1>8, <1>9

LEMMA NextShipInv ==
  ASSUME PagesFit, TypeInv, LogInv, ShippedIsDurable, ShipInv, [Next]_vars
  PROVE  ShipInv'
<1>l. lossy' = lossy
  BY DEF Next, vars, set, initDB, flush, poll, accept, answer, fail, arrive, vanish, crash,
         recover, replay, nextPage, recoverFails
<1>c. ASSUME calm' PROVE calm
  <2>1. CASE \E a \in Account : initDB(a)
    BY <1>c, <2>1, Zenon DEF initDB
  <2>2. CASE recover
    BY <1>c, <2>2, Zenon DEF recover
  <2>3. CASE UNCHANGED calm
    BY <1>c, <2>3
  <2> QED BY <2>1, <2>2, <2>3
          DEF Next, vars, set, flush, poll, accept, answer, fail, arrive, vanish, crash,
              replay, nextPage, recoverFails
<1> SUFFICES ASSUME ~lossy, calm, calm'
             PROVE  /\ Contiguous' /\ height' <= Top' /\ Len(hb') <= MaxSlot
                    /\ OneLoop' /\ OnePid' /\ OneLate' /\ (server' = "recovering" => RecAt')
  BY <1>l, <1>c DEF ShipInv
<1>i. /\ Contiguous /\ height <= Top /\ Len(hb) <= MaxSlot
      /\ OneLoop /\ OnePid /\ OneLate /\ (server = "recovering" => RecAt)
  BY DEF ShipInv
<1>k. /\ hb \in Seq(Seq(Msg)) /\ loops \in Seq(Loop) /\ height \in Nat /\ Top \in Nat
      /\ Len(hb) \in Nat /\ Len(loops) \in Nat /\ durable \in Nat /\ MaxSlot \in Nat
  BY TopIsNat, NodeAssumption DEF TypeInv, TypeOK, Kv!TypeOK
<1> DEFINE Goal == /\ Contiguous' /\ height' <= Top' /\ Len(hb') <= MaxSlot
                   /\ OneLoop' /\ OnePid' /\ OneLate' /\ (server' = "recovering" => RecAt')
<1>1. ASSUME UNCHANGED <<height, hb, node, loops, late, rec>>
      PROVE  Goal
  <2>1. /\ Top' = Top /\ Contiguous' /\ \A k : Start(k)' = Start(k)
        /\ \A lp : LoopAt(lp) => LoopAt(lp)'
    BY <1>i, <1>1, SameLog
  <2>2. OneLoop' /\ OnePid' /\ OneLate'
    BY <1>i, <1>1, <2>1 DEF OneLoop, OnePid, OneLate, node
  <2>3. server' = "recovering" => RecAt'
    BY <1>i, <1>1, <2>1 DEF RecAt, node
  <2> QED BY <1>i, <1>1, <2>1, <2>2, <2>3
<1>2. ASSUME NEW a \in Account, initDB(a)
      PROVE  Goal
  <2>1. /\ server = "up" /\ loops = <<>> /\ loops' = Append(loops, NewLoop(height))
        /\ pids' = pids + 1 /\ UNCHANGED <<height, hb, server, left, late, rec>>
    BY <1>2 DEF initDB
  <2>2. hb = <<>> /\ Top = 0 /\ height = 0
    <3>1. hb = <<>>
      BY <1>i, <2>1 DEF OneLoop
    <3>2. Top = 0
      BY <3>1 DEF Top
    <3> QED BY <1>i, <1>k, <3>1, <3>2
  <2>3. Top' = Top /\ Contiguous' /\ \A lp : LoopAt(lp) => LoopAt(lp)'
    BY <1>i, <2>1, SameLog
  <2>4. LoopAt(NewLoop(height))'
    <3>1. LoopAt(NewLoop(height))
      BY <2>2 DEF LoopAt, NewLoop
    <3> QED BY <2>1, <2>3, <3>1
  <2>5. Len(loops') = 1 /\ loops'[1] = NewLoop(height)
    BY <2>1
  <2>6. OneLoop'
    <3>1. \A n \in 1..Len(loops') : loops'[n] = NewLoop(height)
      BY <2>5
    <3>2. loops' # <<>>
      BY <2>5
    <3>3. (\A n \in 1..Len(loops) : LoopAt(loops[n]))'
      BY <2>1, <2>4, <3>1 DEF LoopAt
    <3> QED BY <2>1, <2>5, <3>2, <3>3 DEF OneLoop
  <2>7. OneLate'
    BY <1>i, <2>1, <2>3 DEF OneLate
  <2>8. OnePid'
    BY <1>i, <2>1, <2>5 DEF OnePid
  <2> QED BY <1>i, <2>1, <2>3, <2>6, <2>7, <2>8
<1>n. ASSUME NEW n \in 1..Len(loops)
      PROVE  /\ server = "up" /\ n = 1 /\ Len(loops) = 1 /\ late = {} /\ LoopAt(loops[n])
             /\ loops[n] \in Loop
  <2>1. server = "up"
    BY <1>i, <1>k DEF OneLoop
  <2>2. n = 1 /\ Len(loops) = 1
    <3>1. Len(loops) <= 1 /\ Len(loops) \in Nat
      BY <1>i, <1>k DEF OneLoop
    <3>2. \A m \in Nat : m <= 1 => \A x \in 1..m : x = 1 /\ m = 1
      OBVIOUS
    <3> QED BY <3>1, <3>2
  <2>3. late = {} /\ LoopAt(loops[n])
    BY <1>i, <2>1 DEF OneLoop, OneLate
  <2>4. loops[n] \in Loop
    BY <1>k
  <2> QED BY <2>1, <2>2, <2>3, <2>4
<1>r. ASSUME NEW n \in 1..Len(loops), NEW lp, loops' = [loops EXCEPT ![n] = lp],
             LoopAt(lp)', Contiguous', height' <= Top', Len(hb') <= MaxSlot, UNCHANGED <<node, late>>
      PROVE  Goal
  <2>1. Len(loops') = 1 /\ loops'[1] = lp /\ loops' # <<>>
    <3>1. n = 1 /\ Len(loops) = 1
      BY <1>n
    <3>2. Len(loops') = Len(loops) /\ loops'[n] = lp
      BY <1>k, <1>r
    <3>3. Len(<<>>) = 0
      OBVIOUS
    <3> QED BY <3>1, <3>2, <3>3
  <2>2. (\A m \in 1..Len(loops) : LoopAt(loops[m]))'
    <3>1. \A m \in 1..Len(loops') : loops'[m] = lp
      BY <2>1
    <3> QED BY <1>r, <3>1 DEF LoopAt
  <2>3. server' = "up" /\ late' = {}
    BY <1>n, <1>r DEF node
  <2>4. OneLoop'
    BY <2>1, <2>2, <2>3 DEF OneLoop
  <2>5. OneLate'
    BY <2>3 DEF OneLate
  <2>6. OnePid'
    BY <1>i, <1>r, <2>1, <2>3 DEF OnePid, node
  <2> QED BY <1>r, <2>3, <2>4, <2>5, <2>6
<1>3. ASSUME NEW n \in 1..Len(loops), poll(n)
      PROVE  Goal
  <2> DEFINE h == loops[n].height
             b == Bundle(h, durable)
  <2>1. h < durable /\ h = Top /\ UNCHANGED <<height, hb, node, late>>
    BY <1>3, <1>n DEF poll, lastEntry, LoopAt
  <2>2. b[1].slot = Top /\ Len(b) = durable - Top
    <3>1. b = [k \in 1..(durable - Top) |-> [slot |-> Top + k - 1, q |-> log[Top + k]]]
      BY <2>1 DEF Bundle
    <3>2. durable - Top \in Nat /\ 1 \in 1..(durable - Top) /\ Top + 1 - 1 = Top
      BY <1>k, <2>1
    <3>3. b[1].slot = Top
      BY <3>1, <3>2
    <3>4. Len(b) = durable - Top
      BY <3>1, <3>2
    <3> QED BY <3>3, <3>4
  <2> HIDE DEF b
  <2> DEFINE lp == [start |-> loops[n].start, height |-> h, pc |-> "sent",
                    to |-> durable, bundle |-> b]
  <2>3. loops' = [loops EXCEPT ![n] = lp]
    BY <1>3 DEF poll, lastEntry, b
  <2>4. durable = Top + Len(b)
    BY <1>k, <2>1, <2>2
  <2>5. lp.pc = "sent" /\ lp.bundle = b /\ lp.to = durable
    OBVIOUS
  <2> HIDE DEF lp
  <2>6. PICK c : c = lp
    OBVIOUS
  <2>7. LoopAt(c)
    BY <2>2, <2>4, <2>5, <2>6 DEF LoopAt
  <2>8. LoopAt(c)' /\ Contiguous' /\ height' <= Top'
    BY <1>i, <2>1, <2>7, SameLog
  <2> QED BY <1>i, <1>r, <2>1, <2>3, <2>6, <2>8
<1>4. ASSUME NEW n \in 1..Len(loops), accept(n)
      PROVE  Goal
  <2>b. PICK b : b = loops[n].bundle
    OBVIOUS
  <2>1. /\ loops[n].pc = "sent" /\ hb' = Append(hb, b) /\ Len(hb) < MaxSlot
        /\ loops' = [loops EXCEPT ![n] = [loops[n] EXCEPT !.pc = "accepted"]]
        /\ UNCHANGED <<height, node, late>>
    BY <1>4, <2>b DEF accept
  <2>2. /\ b \in Seq(Msg) /\ b # <<>> /\ IsCopy(b) /\ b[1].slot = Top
        /\ loops[n].to = Top + Len(b)
    BY <1>n, <2>1, <2>b, LoopIsLoop DEF Loop, LoopAt, ShippedIsDurable
  <2>3. Contiguous' /\ Top' = Top + Len(b)
    BY <1>i, <2>1, <2>2, TopMoves
  <2>4. PICK lp : lp = [loops[n] EXCEPT !.pc = "accepted"]
    OBVIOUS
  <2>5. lp.pc = "accepted" /\ lp.to = loops[n].to
    BY <1>n, <2>4 DEF Loop
  <2>6. LoopAt(lp)'
    BY <2>2, <2>3, <2>5 DEF LoopAt
  <2>7. height' <= Top' /\ Len(hb') <= MaxSlot
    <3>1. Len(b) \in Nat /\ Len(hb') = Len(hb) + 1
      BY <1>k, <2>1, <2>2
    <3> QED BY <1>i, <1>k, <2>1, <2>3, <3>1
  <2> QED BY <1>r, <2>1, <2>3, <2>4, <2>6, <2>7
<1>5. ASSUME NEW n \in 1..Len(loops), answer(n)
      PROVE  Goal
  <2>1. /\ loops[n].pc = "accepted" /\ height' = loops[n].to
        /\ loops' = [loops EXCEPT ![n] = [start |-> loops[n].start, height |-> loops[n].to,
                                          pc |-> "idle", to |-> 0, bundle |-> <<>>]]
        /\ UNCHANGED <<hb, node, late>>
    BY <1>5 DEF answer, answered
  <2>2. loops[n].to = Top
    BY <1>n, <2>1 DEF LoopAt
  <2>3. PICK lp : lp = [start |-> loops[n].start, height |-> loops[n].to,
                        pc |-> "idle", to |-> 0, bundle |-> <<>>]
    OBVIOUS
  <2>4. LoopAt(lp)
    BY <2>2, <2>3 DEF LoopAt
  <2>5. LoopAt(lp)' /\ Contiguous' /\ Top' = Top
    BY <1>i, <2>1, <2>4, SameLog
  <2>6. height' <= Top'
    BY <1>k, <2>1, <2>2, <2>5
  <2> QED BY <1>i, <1>r, <2>1, <2>3, <2>5, <2>6
<1>6. ASSUME NEW b \in late, arrive(b)
      PROVE  Goal
  <2>1. /\ hb' = Append(hb, b) /\ Len(hb) < MaxSlot /\ late' = late \ {b}
        /\ UNCHANGED <<height, node, loops>>
    BY <1>6 DEF arrive
  <2>2. server = "starting" /\ loops = <<>> /\ b[1].slot = Top /\ late' = {}
    BY <1>i, <2>1 DEF OneLate, OneLoop
  <2>3. b \in Seq(Msg) /\ b # <<>> /\ IsCopy(b)
    BY DEF TypeInv, TypeOK, Filled, ShippedIsDurable
  <2>4. Contiguous' /\ Top' = Top + Len(b)
    BY <1>i, <2>1, <2>2, <2>3, TopMoves
  <2>5. height' <= Top' /\ Len(hb') <= MaxSlot
    <3>1. Len(b) \in Nat /\ Len(hb') = Len(hb) + 1
      BY <1>k, <2>1, <2>3
    <3> QED BY <1>i, <1>k, <2>1, <2>4, <3>1
  <2>6. OneLoop'
    <3>1. loops' = <<>> /\ Len(loops') = 0 /\ server' = "starting"
      BY <2>1, <2>2 DEF node
    <3> QED BY <3>1 DEF OneLoop
  <2>7. OneLate'
    BY <2>2 DEF OneLate
  <2>8. OnePid' /\ server' = "starting"
    BY <1>i, <2>1, <2>2 DEF OnePid, node
  <2> QED BY <2>1, <2>2, <2>4, <2>5, <2>6, <2>7, <2>8
<1>7. ASSUME NEW b \in late, vanish(b)
      PROVE  Goal
  <2>1. late' \subseteq late /\ UNCHANGED <<height, hb, node, loops, rec>>
    BY <1>7 DEF vanish
  <2>2. /\ Top' = Top /\ Contiguous' /\ \A k : Start(k)' = Start(k)
        /\ \A lp : LoopAt(lp) => LoopAt(lp)'
    BY <1>i, <2>1, SameLog
  <2>3. OneLoop' /\ OnePid' /\ OneLate'
    BY <1>i, <2>1, <2>2 DEF OneLoop, OnePid, OneLate, node
  <2>4. server' = "recovering" => RecAt'
    BY <1>i, <2>1, <2>2 DEF RecAt, node
  <2> QED BY <1>i, <2>1, <2>2, <2>3, <2>4
<1>8. CASE crash
  <2>1. /\ server' = "starting" /\ left' = pids /\ loops' = <<>> /\ late' = late \cup InFlight
        /\ UNCHANGED <<height, hb, pids>>
    BY <1>8 DEF crash
  <2>2. Top' = Top /\ Contiguous'
    BY <1>i, <2>1, SameLog
  <2>3. \A b \in InFlight : late = {} /\ b = loops[1].bundle /\ b[1].slot = Top
    <3> SUFFICES ASSUME NEW b \in InFlight
                 PROVE  late = {} /\ b = loops[1].bundle /\ b[1].slot = Top
      OBVIOUS
    <3>1. PICK n \in 1..Len(loops) : loops[n].pc = "sent" /\ b = loops[n].bundle
      BY DEF InFlight
    <3> QED BY <1>n, <3>1 DEF LoopAt
  <2>4. OneLate'
    <3>1. \A b \in late' : b[1].slot = Top
      BY <1>i, <2>1, <2>3 DEF OneLate
    <3>2. \A b, c \in late' : b = c
      BY <1>i, <2>1, <2>3 DEF OneLate
    <3> QED BY <2>1, <2>2, <3>1, <3>2 DEF OneLate
  <2>5. OneLoop'
    <3>1. Len(loops') = 0
      BY <2>1
    <3> QED BY <2>1, <3>1 DEF OneLoop
  <2>6. OnePid'
    BY <1>i, <2>1 DEF OnePid
  <2> QED BY <1>i, <2>1, <2>2, <2>4, <2>5, <2>6
<1>9. CASE recover
  <2>1. /\ server = "starting" /\ server' = "recovering" /\ left > 0 /\ left' = left - 1 /\ late = {}
        /\ UNCHANGED <<height, hb, pids, loops, late>>
    BY <1>9 DEF recover
  <2>2. RecAt'
    BY <1>i, <1>9, FirstPageStarts
  <2>3. Top' = Top /\ Contiguous'
    BY <1>i, <2>1, SameLog
  <2>4. OneLoop' /\ OneLate'
    <3>1. loops' = <<>> /\ Len(loops') = 0
      BY <1>i, <2>1 DEF OneLoop
    <3> QED BY <2>1, <3>1 DEF OneLoop, OneLate
  <2>5. OnePid'
    <3>1. left \in Nat
      BY DEF TypeInv, TypeOK
    <3> QED BY <1>i, <2>1, <3>1 DEF OnePid
  <2> QED BY <1>i, <2>1, <2>2, <2>3, <2>4, <2>5
<1>10. CASE replay
  <2>1. server = "recovering" /\ UNCHANGED <<height, hb, node, loops, late>>
    BY <1>10 DEF replay
  <2>2. RecAt'
    BY <1>i, <1>10, <2>1, ReplayCounts
  <2>3. Top' = Top /\ Contiguous' /\ \A lp : LoopAt(lp) => LoopAt(lp)'
    BY <1>i, <2>1, SameLog
  <2>4. OneLoop' /\ OnePid' /\ OneLate'
    BY <1>i, <2>1, <2>3 DEF OneLoop, OnePid, OneLate, node
  <2> QED BY <1>i, <2>1, <2>2, <2>3, <2>4
<1>11. CASE nextPage
  <2>1. server = "recovering" /\ left = 0 /\ UNCHANGED <<hb, pids, left, late>>
    BY <1>i, <1>11 DEF nextPage, OnePid
  <2>2. /\ height' <= Top
        /\ rec.from + Limit <= Len(hb) => RecAt'
        /\ ~(rec.from + Limit <= Len(hb)) => height' = Top
    BY <1>i, <1>11, <2>1, PageEnds
  <2>3. Top' = Top /\ Contiguous' /\ \A lp : LoopAt(lp) => LoopAt(lp)'
    BY <1>i, <2>1, SameLog
  <2>4. late' = {} /\ loops = <<>>
    BY <1>i, <2>1 DEF OneLate, OneLoop
  <2>5. OneLate'
    BY <2>4 DEF OneLate
  <2>6. CASE rec.from + Limit <= Len(hb)
    <3>1. UNCHANGED <<server, loops>>
      BY <1>11, <2>6 DEF nextPage
    <3>2. OneLoop'
      BY <1>i, <2>1, <2>3, <3>1 DEF OneLoop
    <3>3. OnePid'
      BY <1>i, <2>1, <3>1 DEF OnePid
    <3> QED BY <1>i, <2>1, <2>2, <2>3, <2>5, <2>6, <3>2, <3>3
  <2>7. CASE ~(rec.from + Limit <= Len(hb))
    <3>1. server' = "up" /\ loops' = <<NewLoop(height')>>
      BY <1>11, <2>1, <2>4, <2>7 DEF nextPage, goesOn
    <3>2. PICK lp : lp = NewLoop(height')
      OBVIOUS
    <3>3. LoopAt(lp)'
      <4>1. LoopAt(lp)
        BY <2>2, <2>7, <3>2 DEF LoopAt, NewLoop
      <4> QED BY <2>3, <4>1
    <3>4. Len(loops') = 1 /\ loops'[1] = lp /\ loops' # <<>>
      BY <3>1, <3>2
    <3>5. (\A n \in 1..Len(loops) : LoopAt(loops[n]))'
      <4>1. \A n \in 1..Len(loops') : loops'[n] = lp
        BY <3>4
      <4> QED BY <3>3, <4>1 DEF LoopAt
    <3>6. OneLoop'
      BY <3>1, <3>4, <3>5 DEF OneLoop
    <3>7. OnePid'
      BY <1>i, <2>1, <3>1, <3>4 DEF OnePid
    <3> QED BY <1>i, <2>1, <2>2, <2>3, <2>5, <3>1, <3>6, <3>7
  <2> QED BY <2>6, <2>7
<1>12. CASE recoverFails
  BY <1>12 DEF recoverFails
<1>16. ASSUME NEW n \in 1..Len(loops), fail(n)
       PROVE  Goal
  BY <1>16 DEF fail
<1>13. CASE flush
  BY <1>1, <1>13 DEF flush
<1>14. ASSUME NEW op, NEW a, set(op, a)
       PROVE  Goal
  BY <1>1, <1>14 DEF set
<1>15. CASE UNCHANGED vars
  BY <1>1, <1>15 DEF vars
<1> QED BY <1>2, <1>3, <1>4, <1>5, <1>6, <1>7, <1>8, <1>9, <1>10, <1>11, <1>12, <1>13, <1>14,
           <1>15, <1>16 DEF Next

(* recover.js:15-78, wal.js:6-70: with no lost request the HyperBEAM log   *)
(* has every entry once and in order, wherever the process dies, and the   *)
(* height never passes it - as long as it is calm, and provided that the   *)
(* pages of recover() fit: with more than limit slots its pages overlap    *)
(* and it counts messages twice.                                           *)
THEOREM ShipsOnce == PagesFit => (Spec => []ShippedOnce)
<1> SUFFICES ASSUME PagesFit
             PROVE  Spec => []ShippedOnce
  OBVIOUS
<1> DEFINE Inv == TypeInv /\ LogInv /\ ShippedIsDurable /\ ShipInv
<1>1. Inv => ShippedOnce
  <2> SUFFICES ASSUME TypeInv, ShippedIsDurable, ShipInv, ~lossy, calm,
                      NEW j \in 0..(durable - 1), j < height
               PROVE  Contiguous /\ IsShipped(j)
    BY DEF ShippedOnce, Contiguous, ShipInv
  <2>1. Top \in Nat /\ height \in Nat /\ height <= Top /\ Contiguous /\ durable \in Nat
    BY TopIsNat DEF ShipInv, TypeInv, TypeOK, Kv!TypeOK
  <2>2. j \in 0..(Top - 1)
    BY <2>1
  <2> QED BY <2>1, <2>2 DEF Contiguous
<1>2. Init => Inv
  BY InitTypeInv, InitLogInv, InitShipInv
<1>3. Inv /\ [Next]_vars => Inv'
  <2>1. TypeInv /\ LogInv /\ [Next]_vars => LogInv'
    BY StepOfLog, LogStepKeeps DEF LogInv
  <2> QED BY <2>1, NextTypeInv, NextShipped, NextShipInv
<1> QED BY <1>1, <1>2, <1>3, PTL DEF Spec

-----------------------------------------------------------------------------
(* Legal logs: a prefix of one is legal, and so is one with another        *)
(* accepted query.                                                         *)
LEMMA LegalPrefix ==
  ASSUME NEW lg, Legal(lg), NEW n \in 0..Len(lg)
  PROVE  Legal(SubSeq(lg, 1, n))
<1> DEFINE pre == SubSeq(lg, 1, n)
<1>0. lg \in Seq(Query) /\ Len(lg) \in Nat /\ n \in Nat
  BY DEF Legal
<1>1. pre \in Seq(Query) /\ Len(pre) = n /\ \A k \in 1..n : pre[k] = lg[k]
  BY <1>0
<1> HIDE DEF pre
<1>2. ASSUME NEW k \in 1..n
      PROVE  accepts(SubSeq(pre, 1, k - 1), pre[k])
  <2>1. SubSeq(pre, 1, k - 1) = SubSeq(lg, 1, k - 1)
    <3>1. SubSeq(pre, 1, k - 1) = [m \in 1..(k - 1) |-> pre[m]]
      BY <1>0, <1>1
    <3>2. SubSeq(lg, 1, k - 1) = [m \in 1..(k - 1) |-> lg[m]]
      BY <1>0
    <3>3. \A m \in 1..(k - 1) : pre[m] = lg[m]
      BY <1>0, <1>1
    <3> QED BY <3>1, <3>2, <3>3
  <2>2. k \in 1..Len(lg) /\ pre[k] = lg[k]
    BY <1>0, <1>1
  <2>3. accepts(SubSeq(lg, 1, k - 1), lg[k])
    BY <2>2 DEF Legal
  <2> QED BY <2>1, <2>2, <2>3
<1>3. Legal(pre)
  BY <1>1, <1>2 DEF Legal
<1> QED BY <1>3 DEF pre

LEMMA LegalOneMore ==
  ASSUME NEW lg, Legal(lg), NEW q \in Query, accepts(lg, q)
  PROVE  Legal(Append(lg, q))
<1> DEFINE new == Append(lg, q)
<1>0. lg \in Seq(Query) /\ Len(lg) \in Nat
  BY DEF Legal
<1>1. /\ new \in Seq(Query) /\ Len(new) = Len(lg) + 1 /\ new[Len(lg) + 1] = q
      /\ \A k \in 1..Len(lg) : new[k] = lg[k]
  BY <1>0
<1> HIDE DEF new
<1>2. ASSUME NEW k \in 1..Len(new)
      PROVE  accepts(SubSeq(new, 1, k - 1), new[k])
  <2>1. k - 1 \in 0..Len(lg)
    BY <1>0, <1>1
  <2>2. SubSeq(new, 1, k - 1) = SubSeq(lg, 1, k - 1)
    <3>1. SubSeq(new, 1, k - 1) = [m \in 1..(k - 1) |-> new[m]]
      BY <1>1, <2>1
    <3>2. SubSeq(lg, 1, k - 1) = [m \in 1..(k - 1) |-> lg[m]]
      BY <1>0, <2>1
    <3>3. \A m \in 1..(k - 1) : new[m] = lg[m]
      BY <1>0, <1>1, <2>1
    <3> QED BY <3>1, <3>2, <3>3
  <2>3. CASE k = Len(lg) + 1
    <3>1. SubSeq(lg, 1, k - 1) = lg
      BY <1>0, <2>3
    <3> QED BY <1>1, <2>2, <2>3, <3>1
  <2>4. CASE k # Len(lg) + 1
    <3>1. k \in 1..Len(lg) /\ new[k] = lg[k]
      BY <1>0, <1>1, <2>4
    <3>2. accepts(SubSeq(lg, 1, k - 1), lg[k])
      BY <3>1 DEF Legal
    <3> QED BY <2>2, <3>1, <3>2
  <2> QED BY <2>3, <2>4
<1> QED BY <1>1, <1>2 DEF Legal, new

(* dev_verify.js, recover.js: the log of a node is at any time one that    *)
(* the engine would accept from its start, query by query, with crashes    *)
(* and recoveries in between.  Validator assumes it of the WAL it follows. *)
THEOREM LogIsLegal == Spec => []Legal(log)
<1>1. Init => Legal(log)
  <2> SUFFICES ASSUME Init PROVE Legal(log)
    OBVIOUS
  <2>1. log \in Seq(Query) /\ Len(log) = 0
    BY DEF Init, Kv!Init
  <2> QED BY <2>1 DEF Legal
<1>2. TypeInv /\ LogInv /\ Legal(log) /\ [Next]_vars => Legal(log)'
  <2> SUFFICES ASSUME TypeInv, LogInv, Legal(log), [Next]_vars
               PROVE  Legal(log')
    OBVIOUS
  <2>0. log \in Seq(Query) /\ durable \in 0..Len(log)
    BY DEF TypeInv, TypeOK, Kv!TypeOK
  <2>1. ASSUME NEW q, Appends(q) PROVE Legal(log')
    BY <2>1, LegalOneMore DEF Appends, Kv!Commit
  <2>2. CASE Kv!Crash
    BY <2>0, <2>2, LegalPrefix DEF Kv!Crash
  <2>3. CASE Kv!Flush \/ UNCHANGED <<log, durable>>
    BY <2>3 DEF Kv!Flush
  <2>4. LogStep
    BY StepOfLog DEF LogInv
  <2> QED BY <2>1, <2>2, <2>3, <2>4 DEF LogStep
<1> QED BY <1>1, <1>2, NodeInv, PTL DEF Spec

-----------------------------------------------------------------------------
(* A bundle that gets into the log of HyperBEAM is one of the abstract     *)
(* feed: consecutive numbers of entries that are durable.                  *)
LEMMA BundleIsShip ==
  ASSUME TypeInv, NEW b \in Seq(Msg), b # <<>>, IsCopy(b),
         hb' = Append(hb, b), UNCHANGED durable
  PROVE  Feed!Next
<1> DEFINE f == b[1].slot
           t == f + Len(b)
           nums(c) == [m \in 1..Len(c) |-> c[m].slot]
<1>1. durable \in Nat /\ hb \in Seq(Seq(Msg)) /\ Len(hb) \in Nat
  BY DEF TypeInv, TypeOK, Kv!TypeOK
<1>2. Len(b) \in Nat \ {0} /\ \A m \in 1..Len(b) : b[m].slot \in Nat
  <2>1. Len(b) \in Nat /\ \A m \in 1..Len(b) : b[m] \in Msg
    OBVIOUS
  <2> QED BY <2>1 DEF Msg
<1>3. \A m \in 1..Len(b) : b[m].slot = f + m - 1 /\ b[m].slot < durable
  BY DEF IsCopy
<1>4. f \in Nat /\ t \in Nat /\ t - f = Len(b) /\ f < t
  BY <1>2
<1>5. t <= durable
  <2>1. Len(b) \in 1..Len(b)
    BY <1>2
  <2>2. f + Len(b) - 1 < durable
    BY <1>3, <2>1
  <2> QED BY <1>1, <1>2, <1>4, <2>2
<1>6. nums(b) = [k \in 1..(t - f) |-> f + k - 1]
  BY <1>3, <1>4
<1>7. Numbers' = Append(Numbers, nums(b))
  <2>1. /\ Len(hb') = Len(hb) + 1 /\ hb'[Len(hb) + 1] = b
        /\ \A k \in 1..Len(hb) : hb'[k] = hb[k]
    BY <1>1
  <2>2. Numbers' = [k \in 1..(Len(hb) + 1) |-> nums(hb'[k])]
    BY <2>1 DEF Numbers
  <2> DEFINE S == {nums(c) : c \in Seq(Msg)}
  <2>3. Numbers = [k \in 1..Len(hb) |-> nums(hb[k])]
    BY DEF Numbers
  <2> HIDE DEF nums
  <2>4. ASSUME NEW k \in 1..Len(hb) PROVE nums(hb[k]) \in S
    <3>1. hb[k] \in Seq(Msg)
      BY <1>1
    <3> QED BY <3>1
  <2>5. nums(b) \in S
    OBVIOUS
  <2> HIDE DEF S
  <2>6. Numbers \in Seq(S) /\ Len(Numbers) = Len(hb)
    BY <1>1, <2>3, <2>4
  <2> DEFINE new == Append(Numbers, nums(b))
  <2>7. /\ new \in Seq(S) /\ Len(new) = Len(hb) + 1 /\ new[Len(hb) + 1] = nums(b)
        /\ \A k \in 1..Len(hb) : new[k] = Numbers[k]
    BY <2>5, <2>6, AppendProperties
  <2> HIDE DEF new
  <2>8. \A k \in 1..(Len(hb) + 1) : new[k] = nums(hb'[k])
    BY <1>1, <2>1, <2>3, <2>7
  <2>9. new = [k \in 1..(Len(hb) + 1) |-> nums(hb'[k])]
    BY <2>7, <2>8
  <2> QED BY <2>2, <2>9 DEF new
<1>8. f \in 0..durable /\ t \in 1..durable
  <2> HIDE DEF f, t
  <2> QED BY <1>1, <1>4, <1>5
<1>9. Feed!Ship(f, t)
  <2>1. Numbers' = Append(Numbers, [k \in 1..(t - f) |-> f + k - 1])
    BY <1>6, <1>7
  <2> HIDE DEF f, t
  <2> QED BY <1>4, <1>5, <2>1 DEF Feed!Ship
<1> HIDE DEF f, t
<1> QED BY <1>8, <1>9 DEF Feed!Next

(* wal.js, recover.js: whatever is resent, arrives late or is recovered,   *)
(* the HyperBEAM log only ever gets bundles of consecutive entries of the  *)
(* durable WAL.  Validator downloads from that feed.                       *)
THEOREM NodeImplementsWalFeed == Spec => ImplementsWalFeed
<1>1. Init => Feed!Init
  <2> SUFFICES ASSUME Init PROVE Feed!Init
    OBVIOUS
  <2>1. durable = 0 /\ hb = <<>>
    BY DEF Init, Kv!Init
  <2>2. Numbers = <<>>
    BY <2>1 DEF Numbers
  <2> QED BY <2>1, <2>2 DEF Feed!Init
<1>2. TypeInv /\ LogInv /\ ShippedIsDurable /\ [Next]_vars => [Feed!Next]_(<<durable, Numbers>>)
  <2> SUFFICES ASSUME TypeInv, LogInv, ShippedIsDurable, [Next]_vars
               PROVE  Feed!Next \/ UNCHANGED <<durable, Numbers>>
    OBVIOUS
  <2>0. log \in Seq(Query) /\ durable \in 0..Len(log) /\ Len(log) \in Nat
    BY DEF TypeInv, TypeOK, Kv!TypeOK
  <2>1. ASSUME UNCHANGED <<durable, hb>> PROVE UNCHANGED <<durable, Numbers>>
    BY <2>1 DEF Numbers
  <2>2. ASSUME NEW op, NEW a, set(op, a) \/ initDB(a) PROVE UNCHANGED <<durable, hb>>
    BY <2>2 DEF set, initDB, Kv!Commit
  <2>3. CASE flush
    <3>1. durable' = Len(log) /\ durable < Len(log) /\ hb' = hb
      BY <2>3 DEF flush, Kv!Flush
    <3>2. Numbers' = Numbers
      BY <3>1 DEF Numbers
    <3> QED BY <2>0, <3>1, <3>2 DEF Feed!Next, Feed!Grow
  <2>4. ASSUME NEW n \in 1..Len(loops), accept(n) PROVE Feed!Next
    <3>1. loops[n].bundle \in Seq(Msg) /\ loops[n].bundle # <<>>
      <4>1. loops[n] \in Loop /\ loops[n].pc = "sent"
        BY <2>4, LoopIsLoop DEF accept
      <4> QED BY <4>1, LoopIsLoop DEF Loop
    <3>2. IsCopy(loops[n].bundle)
      BY DEF ShippedIsDurable
    <3>3. hb' = Append(hb, loops[n].bundle) /\ durable' = durable
      BY <2>4 DEF accept
    <3> QED BY <3>1, <3>2, <3>3, BundleIsShip
  <2>5. ASSUME NEW b \in late, arrive(b) PROVE Feed!Next
    <3>1. b \in Seq(Msg) /\ b # <<>> /\ IsCopy(b)
      BY DEF TypeInv, TypeOK, Filled, ShippedIsDurable
    <3>2. hb' = Append(hb, b) /\ durable' = durable
      BY <2>5 DEF arrive
    <3> QED BY <3>1, <3>2, BundleIsShip
  <2>6. ASSUME NEW n \in 1..Len(loops), poll(n) \/ answer(n) \/ fail(n)
        PROVE  UNCHANGED <<durable, hb>>
    BY <2>6 DEF poll, answer, fail
  <2>7. ASSUME NEW b \in late, vanish(b) PROVE UNCHANGED <<durable, hb>>
    BY <2>7 DEF vanish
  <2>8. ASSUME crash PROVE UNCHANGED <<durable, hb>>
    BY <2>8 DEF crash, Kv!Crash
  <2>9. ASSUME recover \/ nextPage \/ recoverFails PROVE UNCHANGED <<durable, hb>>
    BY <2>9 DEF recover, nextPage, recoverFails
  <2>10. ASSUME replay PROVE UNCHANGED <<durable, hb>>
    BY <2>10 DEF replay, Kv!Commit
  <2>11. ASSUME UNCHANGED vars PROVE UNCHANGED <<durable, hb>>
    BY <2>11 DEF vars
  <2> QED BY <2>1, <2>2, <2>3, <2>4, <2>5, <2>6, <2>7, <2>8, <2>9, <2>10, <2>11 DEF Next
<1> QED BY <1>1, <1>2, NodeInv, PTL DEF Spec, ImplementsWalFeed, Feed!Spec
=============================================================================
