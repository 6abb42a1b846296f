------------------------------- MODULE Engine -------------------------------
(***************************************************************************)
(* The write pipeline of the database engine: the routes `write' and       *)
(* `read' of core/src/db.js, run by core/src/build.js.                     *)
(*                                                                         *)
(* A signed query passes normalize, verify, parse, auth and write, and is  *)
(* committed by result.  Each step changes the buffer of the store; if one *)
(* throws, the buffer is reset.  A query runs to its end before the next   *)
(* one (core/src/queue.js), so it is one action here; a batch is one query *)
(* of any number of operations, none included.                             *)
(*                                                                         *)
(* `seen' is what the engine reads: the committed state with the buffer on *)
(* top.  `st' is the committed state.  They differ after the route `read', *)
(* which normalizes and neither commits nor resets.                        *)
(*                                                                         *)
(* `disk' is the documents in the durable store.  A deletion is a null,    *)
(* and get() of weavekv.js looks behind a null: a document that a query    *)
(* deletes is still read in that query, and afterwards until the deletion  *)
(* is flushed.                                                             *)
(*                                                                         *)
(* A replica replays the log of committed queries (recover.js,             *)
(* validate.js).  The pipeline gives a query the time of the clock of the  *)
(* process that runs it: pickInput of dev_normalize_httpsig.js keeps the   *)
(* signed headers only, so setEnv never finds a msg.ts.                    *)
(***************************************************************************)
EXTENDS Integers, Sequences, FiniteSets

CONSTANTS
  Account,          \* signers; the one who creates the database is its owner
  Dir,              \* directories
  RuleSet,          \* lists of access rules that setAuth is called with
  Batches,          \* lists of operations that batch is called with
  Histories,        \* logs that the database may have behind it
  NONE,
  MaxWrite, MaxId, MaxTime, MaxRead   \* bounds, for TLC only

DocId == 0..MaxId
Rule == [ops : SUBSET {"add", "set", "update", "del"}, who : {"owner", "anyone"}]
Op ==
  {[op |-> "init"]}
    \cup {[op |-> "mkdir", dir |-> d] : d \in Dir}
    \cup {[op |-> "setAuth", dir |-> d, rules |-> rs] : d \in Dir, rs \in RuleSet}
    \cup {[op |-> "add", dir |-> d] : d \in Dir}
    \cup {[op |-> o, dir |-> d, doc |-> k] : o \in {"set", "update", "del"}, d \in Dir, k \in DocId}
Signed ==
  {q \in [signer : Account, nonce : Nat, batch : BOOLEAN, ops : Seq(Op)] :
     ~q.batch => Len(q.ops) = 1}

ASSUME EngineAssumption ==
  /\ NONE \notin Account
  /\ RuleSet \subseteq Seq(Rule) /\ Batches \subseteq Seq(Op)
  /\ MaxWrite \in Nat /\ MaxId \in Nat /\ MaxTime \in Nat /\ MaxRead \in Nat

VARIABLES
  st,       \* the committed state
  seen,     \* the state the next query starts from
  disk,     \* the documents in the durable store
  wal,      \* the committed queries with their number and timestamp
  clock,    \* Date.now()
  writes, reads   \* counters, for the bounds

vars == <<st, seen, disk, wal, clock, writes, reads>>

-----------------------------------------------------------------------------
(* A database: _config/info, __ts__/latest, _accounts, the directories     *)
(* (_/<dir>), the bodies of their access rules (_config/auth_<index>_<ref>)*)
(* and the document ids.  Documents are numbered: genDocID encodes         *)
(* numbers.  The indexes over the documents are the module Directory.      *)
NoDir == [index |-> -1, autoid |-> -1, auth |-> <<>>, auth_index |-> -1]

Blank ==
  [id |-> FALSE, owner |-> NONE, i |-> -1, ts |-> 0, dirs |-> 0,
   latest |-> [ts |-> -1, count |-> -1],
   nonce |-> [a \in Account |-> 0],
   dir |-> [d \in Dir |-> NoDir],
   rules |-> [r \in {} |-> NONE],
   docs |-> [d \in Dir |-> {}]]

Exists(s, d) == s.dir[d].index >= 0

(* setTS64 *)
Counted_Forgets(latest, ts) == [ts |-> ts, count |-> 0]   \* faulty variant
Counted(latest, ts) ==
  IF latest.ts \in {-1, ts} THEN [ts |-> ts, count |-> latest.count + 1]
                            ELSE [ts |-> ts, count |-> 0]
ts64(s) == s.ts * 1000 + s.latest.count

(* normalize: setEnv and setTS64.  The query gets its number and its time. *)
normalize(s, now) ==
  [s EXCEPT !.i = s.i + 1, !.ts = now, !.latest = Counted(s.latest, now)]

(* verify.  (Faulty variant: a nonce is used up by a batch per operation.) *)
verify_PerOp(s, q) ==
  [s EXCEPT !.nonce[q.signer] = s.nonce[q.signer] + Len(q.ops)]
verify(s, q) == [s EXCEPT !.nonce[q.signer] = s.nonce[q.signer] + 1]

-----------------------------------------------------------------------------
(* auth: the owner's operations, and the first rule of the directory that  *)
(* names the operation.  An entry of dirinfo.auth without a body is        *)
(* skipped.                                                                *)
BodyKey(s, d, k) == <<s.dir[d].index, s.dir[d].auth[k].ref>>
Matching(s, o) ==
  {k \in 1..Len(s.dir[o.dir].auth) :
     /\ BodyKey(s, o.dir, k) \in DOMAIN s.rules
     /\ o.op \in s.rules[BodyKey(s, o.dir, k)].ops}
RuleOf(s, o) ==
  s.rules[BodyKey(s, o.dir, CHOOSE k \in Matching(s, o) :
                              \A m \in Matching(s, o) : k <= m)]

auth(s, o, signer) ==
  CASE o.op = "init" -> TRUE
    [] o.op \in {"mkdir", "setAuth"} -> signer = s.owner
    [] OTHER -> /\ Exists(s, o.dir)
                /\ Matching(s, o) # {}
                /\ RuleOf(s, o).who = "anyone" \/ signer = s.owner

(* What kv.get finds of a directory: the buffer, the committed state and   *)
(* the store.  `old' is what the last two hold when the query begins.      *)
visible(s, d, old) == s.docs[d] \cup old[d]

(* The other conditions under which an operation does not throw.  (Faulty  *)
(* variant: init does not look whether it was called before.)              *)
possible_InitAgain(s, o, old) ==
  CASE o.op = "init" -> TRUE
    [] o.op = "mkdir" -> ~Exists(s, o.dir)
    [] o.op = "setAuth" -> Exists(s, o.dir)
    [] o.op = "update" -> o.doc \in visible(s, o.dir, old)
    [] OTHER -> Exists(s, o.dir)
possible(s, o, old) ==
  CASE o.op = "init" -> ~s.id
    [] o.op = "mkdir" -> ~Exists(s, o.dir)
    [] o.op = "setAuth" -> Exists(s, o.dir)
    [] o.op = "update" -> o.doc \in visible(s, o.dir, old)
    [] OTHER -> Exists(s, o.dir)

(* dev_init: info is written anew, with the number and the time of the     *)
(* query; the indexes 0, 1 and 2 are the system directories.               *)
init(s, signer) == [s EXCEPT !.id = TRUE, !.owner = signer, !.dirs = 3]

mkdir(s, d) ==
  [s EXCEPT !.dir[d] = [NoDir EXCEPT !.index = s.dirs], !.dirs = s.dirs + 1]

(* dev_set_auth.  The rules get the numbers 0, 1, ..., and old bodies that *)
(* are not overwritten are deleted.  dirinfo.auth is an object: a key that *)
(* comes again keeps its place and takes the new number.                   *)
Assigned(auths, key, ref) ==
  IF \E k \in 1..Len(auths) : auths[k].key = key
  THEN [k \in 1..Len(auths) |->
          IF auths[k].key = key THEN [key |-> key, ref |-> ref] ELSE auths[k]]
  ELSE Append(auths, [key |-> key, ref |-> ref])
AuthOf(rs) ==
  LET at[k \in 0..Len(rs)] ==
        IF k = 0 THEN <<>> ELSE Assigned(at[k - 1], rs[k].ops, k - 1)
  IN  at[Len(rs)]

(* The bodies that are left of the old ones. *)
Kept_All(s, d, rs) == DOMAIN s.rules    \* faulty variant: none is deleted
Kept(s, d, rs) ==
  DOMAIN s.rules \ {<<s.dir[d].index, r>> : r \in Len(rs)..s.dir[d].auth_index}

setAuth(s, d, rs) ==
  LET x == s.dir[d].index
      new == {<<x, k - 1>> : k \in 1..Len(rs)}
  IN  [s EXCEPT
         !.dir[d] = [s.dir[d] EXCEPT !.auth = AuthOf(rs), !.auth_index = Len(rs) - 1],
         !.rules = [r \in Kept(s, d, rs) \cup new |->
                      IF r \in new THEN rs[r[2] + 1] ELSE s.rules[r]]]

(* genDocID: the first number after the last one that is not taken. *)
genDocID_NoProbe(s, d, old) == s.dir[d].autoid + 1   \* faulty variant
genDocID(s, d, old) ==
  LET first == s.dir[d].autoid + 1
      taken == visible(s, d, old)
  IN  CHOOSE k \in first..(first + Cardinality(taken)) :
        k \notin taken /\ \A m \in first..(k - 1) : m \in taken

(* putData and delData, as far as the documents are concerned. *)
put(s, d, k) == [s EXCEPT !.docs[d] = s.docs[d] \cup {k}]
del(s, d, k) == [s EXCEPT !.docs[d] = s.docs[d] \ {k}]

add(s, d, old) ==
  LET k == genDocID(s, d, old)
  IN  put([s EXCEPT !.dir[d].autoid = k], d, k)

(* What an operation does to the state when nothing throws. *)
effect(s, o, signer, old) ==
  CASE o.op = "init" -> init(s, signer)
    [] o.op = "mkdir" -> mkdir(s, o.dir)
    [] o.op = "setAuth" -> setAuth(s, o.dir, o.rules)
    [] o.op = "add" -> add(s, o.dir, old)
    [] o.op = "del" -> del(s, o.dir, o.doc)
    [] OTHER -> put(s, o.dir, o.doc)

(* dev_batch has no writer for init, mkdir and setAuth: in a batch they    *)
(* are authorised like the others, and then nothing happens.               *)
HasWriter(q, o) == q.batch => o.op \in {"add", "set", "update", "del"}

may(s, q, o, old) ==
  auth(s, o, q.signer) /\ (HasWriter(q, o) => possible(s, o, old))
step(s, q, o, old) ==
  IF HasWriter(q, o) THEN effect(s, o, q.signer, old) ELSE s

(* The operations of a query one after the other, after normalize and      *)
(* verify: the states they lead through.                                   *)
start(s, q, now) == verify(normalize(s, now), q)
Old(s, store) == [d \in Dir |-> s.docs[d] \cup store[d]]
Steps(s, q, old) ==
  LET at[k \in 0..Len(q.ops)] ==
        IF k = 0 THEN s ELSE step(at[k - 1], q, q.ops[k], old)
  IN  at

(* The whole pipeline throws nowhere: the nonce follows, and each          *)
(* operation passes on what the ones before it left.                       *)
passes(s, q, now, store) ==
  /\ q.nonce = s.nonce[q.signer] + 1
  /\ LET old == Old(s, store)
         at == Steps(start(s, q, now), q, old)
     IN  \A k \in 1..Len(q.ops) : may(at[k - 1], q, q.ops[k], old)

(* The state it then leaves. *)
run(s, q, now, store) == Steps(start(s, q, now), q, Old(s, store))[Len(q.ops)]

(* A replica replays a log of committed queries; a query that throws there *)
(* changes nothing.  It is slow enough to flush every query before the     *)
(* next.                                                                   *)
redo(s, q, now) == IF passes(s, q, now, s.docs) THEN run(s, q, now, s.docs) ELSE s
replay(log, now) ==
  LET at[k \in 0..Len(log)] ==
        IF k = 0 THEN Blank ELSE redo(at[k - 1], log[k].q, now)
  IN  at
replayed(log, now) == replay(log, now)[Len(log)]

-----------------------------------------------------------------------------
(* A history is a log of committed queries: none of them throws. *)
ASSUME HistoryAssumption ==
  \A log \in Histories :
    /\ log \in Seq([q : Signed])
    /\ \A k \in 1..Len(log) :
         passes(replay(log, 0)[k - 1], log[k].q, 0, replay(log, 0)[k - 1].docs)

Single(a, n, o) == [signer |-> a, nonce |-> n, batch |-> FALSE, ops |-> <<o>>]
Batch(a, n, ops) == [signer |-> a, nonce |-> n, batch |-> TRUE, ops |-> ops]

(* Queries with the right nonce, and one with a nonce that was used before *)
(* (the nonce is checked before the operation is looked at).               *)
Query(s) ==
  {Single(a, s.nonce[a] + 1, o) : a \in Account, o \in Op}
    \cup {Batch(a, s.nonce[a] + 1, ops) : a \in Account, ops \in Batches}
    \cup {Single(a, s.nonce[a], [op |-> "init"]) : a \in Account}

Entry(q, s, late) == [q |-> q, i |-> s.i, ts64 |-> ts64(s), late |-> late]

(* A database that is new, or that has one of the histories behind it. *)
Init ==
  /\ \E log \in Histories :
       /\ st = replayed(log, 0)
       /\ wal = [k \in 1..Len(log) |-> Entry(log[k].q, replay(log, 0)[k], FALSE)]
  /\ seen = st /\ disk = st.docs
  /\ clock = 0 /\ writes = 0 /\ reads = 0

(* The route `write': the query is committed, or the buffer is reset.  The *)
(* entry notes whether a deletion was waiting to be flushed.               *)
Deleted == \E d \in Dir : disk[d] \ st.docs[d] # {}
write(q) ==
  /\ writes < MaxWrite
  /\ passes(seen, q, clock, disk)
  /\ st' = run(seen, q, clock, disk)
  /\ seen' = st'
  /\ wal' = Append(wal, Entry(q, st', Deleted))
  /\ writes' = writes + 1
  /\ UNCHANGED <<disk, clock, reads>>

(* Faulty variant: the buffer is kept. *)
fail_KeepsBuffer(q) ==
  /\ ~passes(seen, q, clock, disk)
  /\ seen' = verify(normalize(seen, clock), q)
  /\ UNCHANGED <<st, disk, wal, clock, writes, reads>>
fail(q) ==
  /\ ~passes(seen, q, clock, disk)
  /\ seen' = st
  /\ UNCHANGED <<st, disk, wal, clock, writes, reads>>

(* The store catches up with the committed state (module WeaveKV). *)
flush ==
  /\ disk # st.docs
  /\ disk' = st.docs
  /\ UNCHANGED <<st, seen, wal, clock, writes, reads>>

(* The route `read'. *)
read ==
  /\ reads < MaxRead
  /\ seen.id
  /\ seen' = normalize(seen, clock)
  /\ reads' = reads + 1
  /\ UNCHANGED <<st, disk, wal, clock, writes>>

(* The clock is not set back. *)
tick ==
  /\ clock' \in 0..MaxTime
  /\ clock' > clock
  /\ UNCHANGED <<st, seen, disk, wal, writes, reads>>

Next ==
  \/ \E q \in Query(seen) : write(q)
  \/ \E q \in Query(seen) : fail(q)
  \/ flush
  \/ read
  \/ tick

Spec == Init /\ [][Next]_vars

-----------------------------------------------------------------------------
(* dev_verify.js and build.js: a signer's nonce counts the queries of that *)
(* signer that were committed.  A failing query gives its nonce back, a    *)
(* batch uses one, and a read, which is not verified, none.                *)
NonceCountsQueries ==
  \A a \in Account :
    st.nonce[a] = Cardinality({k \in 1..Len(wal) : wal[k].q.signer = a})

(* The log as the parts around the engine know it: a query is init, or a   *)
(* batch that writes nothing, or any other.                                *)
Kind(q) ==
  CASE ~q.batch /\ q.ops[1].op = "init" -> "init"
    [] \A k \in 1..Len(q.ops) : ~HasWriter(q, q.ops[k]) -> "void"
    [] OTHER -> "set"
Queries ==
  [k \in 1..Len(wal) |->
     [op |-> Kind(wal[k].q), acct |-> wal[k].q.signer, nonce |-> wal[k].q.nonce]]
Abstract == INSTANCE QueryLog WITH log <- Queries

(* dev_verify.js, dev_auth.js, dev_batch.js, dev_init.js: whatever fails,  *)
(* is read or batched, each signer's queries are committed with the nonces *)
(* 1, 2, ... in order, init is committed at most once, and before it only  *)
(* batches that write nothing.  RollupNode and Validator rely on it.       *)
ImplementsQueryLog == Abstract!Spec

(* dev_set_auth.js: after any sequence of calls the bodies stored for a    *)
(* directory are the ones of the last call, and every entry of             *)
(* dirinfo.auth leads to a body with its own key.                          *)
RulesAreTheLast ==
  /\ DOMAIN st.rules =
       UNION {{<<st.dir[d].index, r>> : r \in 0..st.dir[d].auth_index} : d \in Dir}
  /\ \A d \in Dir : \A k \in 1..Len(st.dir[d].auth) :
       st.rules[BodyKey(st, d, k)].ops
         = st.dir[d].auth[k].key

(* genDocID: add creates a document; it never takes the id of one that is  *)
(* there, whoever put it there.                                            *)
AddCreates ==
  [][\A d \in Dir :
       wal' # wal /\ wal'[Len(wal')].q.ops = <<[op |-> "add", dir |-> d]>>
         => Cardinality(st'.docs[d]) = Cardinality(st.docs[d]) + 1]_vars

(* litepaper: any node can replay the exact sequence of operations and     *)
(* arrive at the same state.  It holds for everything that does not depend *)
(* on the clock or on the number of the query, if no query ran while a     *)
(* deletion was waiting to be flushed: what failed, and what was read in   *)
(* between, does not matter.                                               *)
SameButTime(s, t) ==
  [s EXCEPT !.i = 0, !.ts = 0, !.latest = NONE]
    = [t EXCEPT !.i = 0, !.ts = 0, !.latest = NONE]
ReplicaAgrees ==
  (\A k \in 1..Len(wal) : ~wal[k].late) => SameButTime(replayed(wal, clock), st)

(* wdb64.mdx: no two transactions have the same timestamp, and timestamps  *)
(* are in the order of the transactions, while the clock is not set back.  *)
Ts64Increases ==
  \A j, k \in 1..Len(wal) : j < k => wal[j].ts64 < wal[k].ts64
=============================================================================
