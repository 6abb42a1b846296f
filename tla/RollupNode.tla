----------------------------- MODULE RollupNode -----------------------------
(***************************************************************************)
(* One database of a rollup node: the /set handler of hb/src/server.js,    *)
(* the WAL loop of hb/src/wal.js that ships the durable WAL in bundles to  *)
(* the HyperBEAM process, and hb/src/recover.js, which replays the         *)
(* HyperBEAM log when the server starts.  The engine's store is a          *)
(* CommitLog, which WeaveKV implements; HyperBEAM is external.             *)
(*                                                                         *)
(* A WAL entry is its signed query.  Which queries the engine accepts is   *)
(* the module Nonces.  The list of databases that the server keeps may     *)
(* hold this one several times: it is then recovered as many times, one    *)
(* after the other, and each recovery starts a loop.                       *)
(***************************************************************************)
EXTENDS Nonces

CONSTANTS
  FirstPage,    \* slots in the first answer of getMsgs: 0..99 in the code
  Limit,        \* slots in the later ones: 20 in the code
  MaxLog, MaxSlot, MaxCrash, MaxLoop    \* bounds, for TLC only

ASSUME NodeAssumption ==
  /\ FirstPage \in Nat \ {0} /\ Limit \in Nat \ {0}
  /\ MaxLog \in Nat /\ MaxSlot \in Nat /\ MaxCrash \in Nat /\ MaxLoop \in Nat

VARIABLES
  log, durable,  \* the engine's store: see CommitLog
  height,        \* durable: __meta__/height, what the node believes is shipped
  hb,            \* the bundles in the HyperBEAM log; slot 0 is the spawn message
  pids,          \* durable: how many times the list of pids holds this one
  server,        \* "up", "recovering", or "starting": between two recoveries
  left,          \* the recoveries that this start has still to begin
  db,            \* dbs[pid]: an engine is attached
  loops,         \* the WAL loops of this process
  late,          \* bundles a dead process had sent, not in the log yet
  rec,           \* the local variables of recover()
  lossy,         \* chosen once: requests fail and answers get lost
  crashes,
  calm           \* so far init started no loop beside another one, and no
                 \* bundle of a dead process was on its way when one recovered

node == <<pids, server, left, db>>
vars == <<log, durable, height, hb, node, loops, late, rec, lossy, crashes, calm>>

-----------------------------------------------------------------------------
Msg == [slot : Nat, q : Query]
Loop == [start : Nat, height : Nat, pc : {"idle", "sent", "accepted"},
         to : Nat, bundle : Seq(Msg)]
Rec == [i : Nat, height : Nat, db : BOOLEAN, from : Nat, slot : Nat, pos : Nat, last : Nat]
NoRec ==
  [i |-> 0, height |-> 0, db |-> FALSE, from |-> 0, slot |-> 1, pos |-> 1, last |-> 0]

Kv == INSTANCE CommitLog WITH Entry <- Query

(* A query that a client may sign. *)
NextQuery(op, a) == [op |-> op, acct |-> a, nonce |-> nonceOf(log, a) + 1]

(* getMsgs: of the slots from..to those that are in the HyperBEAM log; the *)
(* spawn message in slot 0 has no data.                                    *)
Page(i, h, attached, from, to) ==
  [i |-> i, height |-> h, db |-> attached, from |-> from,
   slot |-> IF from = 0 THEN 1 ELSE from, pos |-> 1,
   last |-> IF to < Len(hb) THEN to ELSE Len(hb)]
PageDone == rec.slot > rec.last

-----------------------------------------------------------------------------
Init ==
  /\ Kv!Init
  /\ height = 0 /\ hb = <<>>
  /\ pids = 0 /\ server = "up" /\ left = 0 /\ db = FALSE /\ loops = <<>>
  /\ late = {} /\ rec = NoRec /\ lossy \in BOOLEAN /\ crashes = 0 /\ calm = TRUE

(* wal(): a loop starts from the durable height. *)
NewLoop(h) ==
  [start |-> h, height |-> h, pc |-> "idle", to |-> 0, bundle |-> <<>>]

(* POST /set with a query for a database that is attached.  A query that   *)
(* the engine does not accept changes nothing.                             *)
set(op, a) ==
  /\ server = "up" /\ db
  /\ Len(log) < MaxLog
  /\ accepts(log, NextQuery(op, a))
  /\ Kv!Commit(NextQuery(op, a))
  /\ UNCHANGED <<height, hb, node, loops, late, rec, lossy, crashes, calm>>

(* POST /set with init while dbs[pid] is not set: an engine is attached to *)
(* the directory, a WAL loop is started whether or not there is one, the   *)
(* pid is pushed whether or not it is in the list, and then the query is   *)
(* written, or refused.                                                    *)
initDB(a) ==
  /\ server = "up" /\ ~db
  /\ pids < MaxLoop /\ Len(log) < MaxLog
  /\ db' = TRUE
  /\ loops' = Append(loops, NewLoop(height))
  /\ pids' = pids + 1
  /\ calm' = (calm /\ loops = <<>>)
  /\ \/ accepts(log, NextQuery("init", a)) /\ Kv!Commit(NextQuery("init", a))
     \/ UNCHANGED <<log, durable>>
  /\ UNCHANGED <<height, hb, server, left, late, rec, lossy, crashes>>

(* weavekv makes what is committed durable. *)
flush ==
  /\ durable < Len(log)
  /\ Kv!Flush
  /\ UNCHANGED <<height, hb, node, loops, late, rec, lossy, crashes, calm>>

-----------------------------------------------------------------------------
(* The WAL entries h..to-1.  (Faulty variant: numbered from 1.) *)
Bundle_FromOne(h, to) == [k \in 1..(to - h) |-> [slot |-> h + k, q |-> log[h + k]]]
Bundle(h, to) == [k \in 1..(to - h) |-> [slot |-> h + k - 1, q |-> log[h + k]]]

(* Faulty variant: the loop also reads entries that are not durable. *)
lastEntry_Cached == Len(log)
(* io.get(["__wal__", h]) is null from here on: the loop reads the store,  *)
(* not the engine's memory.                                                *)
lastEntry == durable

(* commit() of wal.js: the timer fires, and what is there is sent. *)
poll(n) ==
  /\ loops[n].pc = "idle"
  /\ loops[n].height < lastEntry
  /\ loops' = [loops EXCEPT ![n] =
       [start |-> loops[n].start, height |-> loops[n].height, pc |-> "sent",
        to |-> lastEntry, bundle |-> Bundle(loops[n].height, lastEntry)]]
  /\ UNCHANGED <<log, durable, height, hb, node, late, rec, lossy, crashes, calm>>

(* HyperBEAM schedules the message. *)
accept(n) ==
  /\ loops[n].pc = "sent"
  /\ Len(hb) < MaxSlot
  /\ hb' = Append(hb, loops[n].bundle)
  /\ loops' = [loops EXCEPT ![n].pc = "accepted"]
  /\ UNCHANGED <<log, durable, height, node, late, rec, lossy, crashes, calm>>

(* The height the loop goes on from when its message was answered with ok. *)
(* (Faulty variant: it skips an entry.)                                    *)
answered_Skips(lp) == lp.to + 1
answered(lp) == lp.to

(* The answer arrives. *)
answer(n) ==
  /\ loops[n].pc = "accepted"
  /\ height' = answered(loops[n])
  /\ loops' = [loops EXCEPT ![n] =
       [start |-> loops[n].start, height |-> answered(loops[n]), pc |-> "idle",
        to |-> 0, bundle |-> <<>>]]
  /\ UNCHANGED <<log, durable, hb, node, late, rec, lossy, crashes, calm>>

(* The request fails, before or after HyperBEAM has scheduled the message, *)
(* or ok is not true: start() returns and is called again with the height  *)
(* that wal() read when it started.                                        *)
fail(n) ==
  /\ lossy
  /\ loops[n].pc \in {"sent", "accepted"}
  /\ loops' = [loops EXCEPT ![n] = NewLoop(loops[n].start)]
  /\ UNCHANGED <<log, durable, height, hb, node, late, rec, lossy, crashes, calm>>

(* A message of a dead process arrives after all. *)
arrive(b) ==
  /\ b \in late
  /\ Len(hb) < MaxSlot
  /\ hb' = Append(hb, b)
  /\ late' = late \ {b}
  /\ UNCHANGED <<log, durable, height, node, loops, rec, lossy, crashes, calm>>

(* A message of a dead process never arrives. *)
vanish(b) ==
  /\ b \in late
  /\ late' = late \ {b}
  /\ UNCHANGED <<log, durable, height, hb, node, loops, rec, lossy, crashes, calm>>

-----------------------------------------------------------------------------
(* The process dies; a request it was making may still be on its way. *)
InFlight == {loops[n].bundle : n \in {m \in 1..Len(loops) : loops[m].pc = "sent"}}

(* What this process had is gone, and the server starts again. *)
crash ==
  /\ crashes < MaxCrash
  /\ pids > 0
  /\ server' = "starting" /\ left' = pids
  /\ db' = FALSE /\ loops' = <<>> /\ rec' = NoRec
  /\ late' = late \cup InFlight
  /\ crashes' = crashes + 1
  /\ Kv!Crash
  /\ UNCHANGED <<height, hb, pids, lossy, calm>>

(* recover(): the engine is attached if the node had shipped something,    *)
(* and the first request takes the default range of getMsgs.               *)
recover ==
  /\ server = "starting" /\ left > 0
  /\ server' = "recovering" /\ left' = left - 1
  /\ rec' = Page(0, height, height > 0, 0, FirstPage - 1)
  /\ calm' = (calm /\ late = {})
  /\ UNCHANGED <<log, durable, height, hb, pids, db, loops, late, lossy, crashes>>

(* The entry numbered 1 has an engine attached anew, with the version in   *)
(* its query; of a query that writes nothing it may be that there is none  *)
(* to read, which throws.                                                  *)
Reads(v) == IF v.q.op = "void" THEN BOOLEAN ELSE {TRUE}
attached(v, reads) == IF v.slot = 1 THEN reads ELSE rec.db

(* One message of the page: replayed unless the node has shipped as many   *)
(* messages.  db.write on null throws, and is caught.                      *)
replay ==
  /\ server = "recovering" /\ ~PageDone
  /\ LET v == hb[rec.slot][rec.pos]
         more == rec.pos < Len(hb[rec.slot])
     IN  \E reads \in Reads(v) :
           LET write == rec.i >= rec.height /\ attached(v, reads)
           IN  /\ rec' = [i |-> rec.i + 1, from |-> rec.from, last |-> rec.last,
                          height |-> IF write THEN rec.i ELSE rec.height,
                          db |-> rec.db \/ write,
                          slot |-> IF more THEN rec.slot ELSE rec.slot + 1,
                          pos |-> IF more THEN rec.pos + 1 ELSE 1]
               /\ IF write /\ accepts(log, v.q)
                  THEN Kv!Commit(v.q)
                  ELSE UNCHANGED <<log, durable>>
  /\ UNCHANGED <<height, hb, node, loops, late, lossy, crashes, calm>>

(* The count that recover() stores at the end of a page.  (Faulty variant: *)
(* nothing is stored.)                                                     *)
counted_Never(r, h) == h
counted(r, h) == IF r.i > r.height THEN r.i ELSE h

(* The server recovers the next pid of its list, or listens. *)
goesOn == server' = IF left' = 0 THEN "up" ELSE "starting"

(* The end of a page: the height is stored and the next page requested; an *)
(* empty page ends the recovery, and a WAL loop starts.                    *)
nextPage ==
  /\ server = "recovering" /\ PageDone
  /\ height' = counted(rec, height)
  /\ UNCHANGED left
  /\ IF rec.from + Limit <= Len(hb)
     THEN /\ rec' = Page(rec.i, rec.height, rec.db, rec.from + Limit, rec.from + 2 * Limit - 1)
          /\ UNCHANGED <<server, db, loops>>
     ELSE /\ goesOn
          /\ db' = rec.db
          /\ rec' = NoRec
          /\ loops' = Append(loops, NewLoop(height'))
  /\ UNCHANGED <<log, durable, hb, pids, late, lossy, crashes, calm>>

(* A request of recover() fails, the first one or a later one: the server  *)
(* goes on with what it has of the database, and without this loop.        *)
recoverFails ==
  /\ lossy
  /\ \/ server = "starting" /\ left > 0 /\ left' = left - 1
     \/ server = "recovering" /\ PageDone /\ UNCHANGED left
  /\ height' = counted(rec, height)
  /\ goesOn
  /\ rec' = NoRec
  /\ UNCHANGED <<log, durable, hb, pids, db, loops, late, lossy, crashes, calm>>

Next ==
  \/ \E op \in {"init", "set", "void"}, a \in Account : set(op, a)
  \/ \E a \in Account : initDB(a)
  \/ flush
  \/ \E n \in 1..Len(loops) : poll(n)
  \/ \E n \in 1..Len(loops) : accept(n)
  \/ \E n \in 1..Len(loops) : answer(n)
  \/ \E n \in 1..Len(loops) : fail(n)
  \/ \E b \in late : arrive(b)
  \/ \E b \in late : vanish(b)
  \/ crash
  \/ recover
  \/ replay
  \/ nextPage
  \/ recoverFails

Spec == Init /\ [][Next]_vars

(* recover() in an empty directory: HyperBEAM has the log of a database    *)
(* whose node shipped its queries one by one or in one bundle.             *)
FreshInit ==
  /\ Kv!Init
  /\ \E a \in Account :
       LET m(k) == [slot |-> k - 1, q |-> [op |-> IF k = 1 THEN "init" ELSE "set",
                                           acct |-> a, nonce |-> k]]
       IN  hb \in {<<<<m(1)>>, <<m(2)>>, <<m(3)>>>>, <<<<m(1), m(2), m(3)>>>>}
  /\ height = 0 /\ pids = 1 /\ server = "starting" /\ left = 1 /\ db = FALSE /\ loops = <<>>
  /\ late = {} /\ rec = NoRec /\ lossy = FALSE /\ crashes = 0 /\ calm = TRUE

FreshSpec == FreshInit /\ [][Next]_vars

(* The timer of the WAL loop fires, HyperBEAM answers, the store flushes,  *)
(* and a server that starts runs its recoveries.                           *)
Fairness ==
  /\ WF_vars(flush)
  /\ WF_vars(recover) /\ WF_vars(replay) /\ WF_vars(nextPage)
  /\ WF_vars(\E b \in late : vanish(b))
  /\ \A n \in 1..MaxLoop :
       WF_vars(n <= Len(loops) /\ (poll(n) \/ accept(n) \/ answer(n)))

FairSpec == Spec /\ Fairness

-----------------------------------------------------------------------------
TypeOK ==
  /\ Kv!TypeOK
  /\ height \in Nat
  /\ hb \in Seq(Seq(Msg))
  /\ pids \in Nat /\ left \in Nat
  /\ server \in {"up", "starting", "recovering"}
  /\ db \in BOOLEAN
  /\ loops \in Seq(Loop)
  /\ late \subseteq Seq(Msg)
  /\ rec \in Rec /\ lossy \in BOOLEAN
  /\ crashes \in Nat /\ calm \in BOOLEAN

(* A bundle holds consecutive entries of the durable WAL. *)
IsCopy(b) ==
  \A k \in 1..Len(b) :
    /\ b[k].slot = b[1].slot + k - 1
    /\ b[k].slot < durable
    /\ b[k].q = log[b[k].slot + 1]

(* wal.js reads the store, not the engine's memory: every message in the   *)
(* HyperBEAM log, or on its way there, is an entry of the local WAL that   *)
(* no crash can take back, under its own number.                           *)
ShippedIsDurable ==
  /\ \A k \in 1..Len(hb) : IsCopy(hb[k])
  /\ \A n \in 1..Len(loops) : IsCopy(loops[n].bundle)
  /\ \A b \in late : IsCopy(b)

(* The HyperBEAM log as the numbers of the entries. *)
Numbers == [k \in 1..Len(hb) |-> [m \in 1..Len(hb[k]) |-> hb[k][m].slot]]
Feed == INSTANCE WalFeed WITH size <- durable, hb <- Numbers

(* wal.js, recover.js: whatever is resent, arrives late or is recovered,   *)
(* those who follow the HyperBEAM log get bundles of consecutive entries   *)
(* of the durable WAL under their numbers, one per message, and nothing    *)
(* that they got is changed.                                               *)
ImplementsWalFeed == Feed!Spec

(* dev_verify.js: whatever is replayed, resent or recovered, the log of a  *)
(* database has the nonces of each signer in increasing order, and init    *)
(* comes once, before all that writes.                                     *)
NoReplayedQuery ==
  /\ \A m, n \in 1..Len(log) :
       m < n /\ log[m].acct = log[n].acct => log[m].nonce < log[n].nonce
  /\ \A n \in 1..Len(log) :
       /\ log[n].op = "init" => \A m \in 1..(n - 1) : log[m].op = "void"
       /\ log[n].op = "set" => \E m \in 1..(n - 1) : log[m].op = "init"

(* Recovery on top of a store that survived commits nothing, and has       *)
(* nothing to lose: recover.js replays what it believes to be new, and the *)
(* engine refuses all of it.                                               *)
RecoveryIsIdempotent == [][server = "recovering" => log' = log]_vars

IsShipped(j) == \E k \in 1..Len(hb) : \E m \in 1..Len(hb[k]) : hb[k][m].slot = j

(* structure.mdx: the state is recoverable from the AO process.  With no   *)
(* lost request the numbers in the HyperBEAM log, in its order, are 0, 1,  *)
(* 2, ..., although a process may die between the scheduling of a bundle   *)
(* and the write of the height, and the height never passes an entry of    *)
(* the WAL that HyperBEAM does not have - until init starts a second loop, *)
(* or a bundle of a dead process overtakes the recovery.                   *)
ShippedOnce ==
  lossy \/ ~calm \/
    /\ \A k \in 1..Len(hb) :
         hb[k][1].slot = IF k = 1 THEN 0 ELSE hb[k - 1][Len(hb[k - 1])].slot + 1
    /\ \A j \in 0..(durable - 1) : j < height => IsShipped(j)

(* Every entry of the durable WAL gets into the HyperBEAM log, if requests *)
(* are answered and nothing sends it twice.                                *)
EventuallyShipped ==
  \A j \in 0..(MaxLog - 1) : (~lossy /\ durable > j) ~> (IsShipped(j) \/ ~calm)

(* hb/test/db.js recovers the HyperBEAM log into an empty directory and    *)
(* finds the documents there.                                              *)
FreshHasEverything ==
  server = "up" =>
    \A k \in 1..Len(hb) : \A m \in 1..Len(hb[k]) :
      \E n \in 1..Len(log) : log[n] = hb[k][m].q
=============================================================================
