------------------------------- MODULE Service -------------------------------
(***************************************************************************)
(* A client of the SDK (sdk/src/db.js), a database of the rollup node that *)
(* it writes to (POST /set of hb/src/server.js), and the wrapper by which  *)
(* the database replaces its own engine (core/src/core.js).                *)
(*                                                                         *)
(* The client signs each query with the next nonce and, when the nonce is  *)
(* refused, reads the right one and tries once more; calls may overlap.    *)
(* An upgrade is a query like any other: when it has been executed, the    *)
(* wrapper downloads the new engine and puts it in the place of the old    *)
(* one, which a revert puts back.  Both engines work on the same store.    *)
(* Answers get lost, and the node may die and recover.                     *)
(*                                                                         *)
(* A request is executed, and its engine put back, within one turn of the  *)
(* event loop: nothing in write() of the engine waits for anything.        *)
(*                                                                         *)
(* The signer is the owner of the database, which was created with a       *)
(* version and has shipped something.  What of the state matters here are  *)
(* `_config/info' and the nonce of the signer, both of which every query   *)
(* writes (dev_normalize.js:78).                                           *)
(*                                                                         *)
(* A new engine comes with a store object of its own (kv_nosql.js), which  *)
(* the other engine uses from then on, too.  It knows nothing of what the  *)
(* object it replaces has still to flush.                                  *)
(***************************************************************************)
EXTENDS Integers

CONSTANTS
  Call,        \* the calls of set()
  Version,     \* the versions of the engine that exist
  First,       \* the version the database was created with
  Migrates,    \* the versions dev_migrate.js has a migrator for
  NONE,
  MaxCrash     \* bound, for TLC only

ASSUME VersionAssumption ==
  First \in Version /\ Version \cap {NONE, "set", "revert", "migrate"} = {}

VARIABLES
  nonce, count,   \* the client's _nonce and count
  pc, query,      \* where each call is, and what it asks for
  signed,         \* the nonce its request was signed with
  res,            \* what the engine answered
  st,             \* the state as the engine reads it (memory and store)
  dirty,          \* whether the store object has something to flush
  fresh,          \* whether it has nothing in memory yet, but another has
                  \* something to flush
  pending,        \* the states that replaced store objects have still to flush
  store,          \* durable: what was flushed
  db, old_db,     \* the version of _db and old_db of the wrapper, or NONE
  ran,            \* how often a call took effect
  overlapped,     \* whether two calls were ever under way at once
  lost,           \* whether an answer was lost
  stale,          \* whether a query or a read missed what is `pending'
  orphaned,       \* whether a revert did not find the engine to put back since
                  \* the node was started
  unfetched,      \* whether the engine could not be downloaded then
  crashes

client == <<nonce, count, signed>>
core == <<db, old_db, orphaned, unfetched>>
object == <<st, dirty, fresh, pending>>
node == <<object, store, ran>>
vars == <<client, pc, query, res, core, node, stale, overlapped, lost, crashes>>

-----------------------------------------------------------------------------
Query == {"set", "revert", "migrate"} \cup Version   \* a version: upgrade to it

(* The client may know its nonce or not. *)
Init ==
  /\ nonce \in {0, 1} /\ count = 0
  /\ pc = [k \in Call |-> "new"] /\ query = [k \in Call |-> NONE]
  /\ signed = [k \in Call |-> 0] /\ res = [k \in Call |-> NONE]
  /\ st = [version |-> First, upgrading |-> NONE, nonce |-> 1] /\ store = st
  /\ dirty = FALSE /\ fresh = FALSE /\ pending = {}
  /\ db = First /\ old_db = NONE
  /\ ran = [k \in Call |-> 0]
  /\ overlapped = FALSE /\ lost = FALSE /\ stale = FALSE
  /\ orphaned = FALSE /\ unfetched = FALSE /\ crashes = 0

Over == {"new", "ok", "failed", "refused", "thrown"}
goto(k, where) == pc' = [pc EXCEPT ![k] = where]

(* A call ends: with success, with an error, refused for its nonce, or by  *)
(* an exception.                                                           *)
return(k, how) ==
  /\ goto(k, how)
  /\ query' = [query EXCEPT ![k] = NONE] /\ res' = [res EXCEPT ![k] = NONE]
  /\ signed' = [signed EXCEPT ![k] = 0]

sign(k, n) == nonce' = n /\ signed' = [signed EXCEPT ![k] = n]

(* set(): the query is signed and sent. *)
set(k, q) ==
  /\ pc[k] = "new"
  /\ goto(k, "sent")
  /\ query' = [query EXCEPT ![k] = q]
  /\ sign(k, nonce + 1)
  /\ overlapped' = (overlapped \/ \E j \in Call : pc[j] \notin Over)
  /\ UNCHANGED <<count, res, core, node, stale, lost, crashes>>

-----------------------------------------------------------------------------
(* dev_version.js: which engine may execute what. *)
permits(e, q) ==
  IF st.upgrading = NONE
  THEN e = st.version
  ELSE \/ q = "revert" /\ e \in {st.version, st.upgrading}
       \/ q = "migrate" /\ e = st.upgrading /\ e # st.version

(* What the query makes of the state; NONE if its handler throws. *)
after(e, q) ==
  CASE q = "set" -> st
    [] q = "revert" -> IF st.upgrading = NONE THEN NONE ELSE [st EXCEPT !.upgrading = NONE]
    [] q = "migrate" ->
         IF st.upgrading = NONE \/ e # st.upgrading \/ st.version \notin Migrates THEN NONE
         ELSE [st EXCEPT !.version = e, !.upgrading = NONE]
    [] OTHER -> [st EXCEPT !.upgrading = q]

(* old_db is not cleared by a migration, and not set by a download that    *)
(* has not finished.  (Faulty variant: the new engine stays.)              *)
putBack_Not == UNCHANGED core
putBack ==
  /\ db' = old_db /\ old_db' = NONE
  /\ orphaned' = (orphaned \/ old_db # st.version)
  /\ UNCHANGED unfetched

(* What a store object that was replaced has to flush is not read.         *)
misses == stale' = (stale \/ pending # {})

verdict(k) ==
  IF db = NONE THEN "error"
  ELSE IF ~permits(db, query[k]) THEN "version"
  ELSE IF signed[k] # st.nonce + 1 THEN "nonce"
  ELSE IF after(db, query[k]) = NONE THEN "error"
  ELSE "success"

(* POST /set: the engine there is executes the query, or resets what it    *)
(* has done of it.  After a revert the wrapper puts the old engine back;   *)
(* after an upgrade it starts a download.                                  *)
write(k) ==
  /\ pc[k] = "sent"
  /\ res' = [res EXCEPT ![k] = verdict(k)]
  /\ IF verdict(k) = "success"
     THEN /\ st' = [after(db, query[k]) EXCEPT !.nonce = st.nonce + 1]
          /\ dirty' = TRUE /\ fresh' = FALSE
          /\ ran' = [ran EXCEPT ![k] = @ + 1]
          /\ goto(k, IF query[k] \in Version THEN "fetching" ELSE "answered")
          /\ IF query[k] = "revert" THEN putBack ELSE UNCHANGED core
     ELSE goto(k, "answered") /\ UNCHANGED <<st, dirty, fresh, ran, core>>
  /\ misses
  /\ UNCHANGED <<client, query, pending, store, overlapped, lost, crashes>>

(* The store object flushes what it has, or one that was replaced does.    *)
flush ==
  /\ \/ /\ dirty
        /\ store' = st /\ dirty' = FALSE
        /\ UNCHANGED <<st, fresh, pending>>
     \/ \E s \in pending :
          /\ store' = s /\ pending' = pending \ {s}
          /\ st' = IF fresh THEN s ELSE st
          /\ fresh' = (fresh /\ pending' # {})
          /\ UNCHANGED dirty
  /\ UNCHANGED <<client, pc, query, res, core, ran, stale, overlapped, lost, crashes>>

(* An upgrade downloads the new engine, which starts from the store ... *)
fetched(k) ==
  /\ pc[k] = "fetching"
  /\ old_db' = db /\ db' = query[k]
  /\ st' = store /\ dirty' = FALSE
  /\ pending' = IF dirty THEN pending \cup {st} ELSE pending
  /\ fresh' = (pending' # {})
  /\ goto(k, "answered")
  /\ UNCHANGED <<client, query, res, orphaned, unfetched, store, ran>>
  /\ UNCHANGED <<stale, overlapped, lost, crashes>>

(* ... or fails to; the answer is the same. *)
notFetched(k) ==
  /\ pc[k] = "fetching"
  /\ goto(k, "answered")
  /\ UNCHANGED <<client, query, res, core, node, stale, overlapped, lost, crashes>>

-----------------------------------------------------------------------------
(* set() gets the answer.  A refused nonce makes it try again, unless      *)
(* `count' says that it has done so.                                       *)
again(answer) == answer = "nonce" /\ count = 0

outcome(answer) ==
  CASE answer = "success" -> "ok" [] answer = "nonce" -> "refused" [] OTHER -> "failed"

answer(k) ==
  /\ pc[k] = "answered"
  /\ IF again(res[k])
     THEN /\ goto(k, "renonce")
          /\ UNCHANGED <<count, query, res, signed>>
     ELSE return(k, outcome(res[k])) /\ count' = 0
  /\ UNCHANGED <<nonce, core, node, stale, overlapped, lost, crashes>>

(* The request or its answer is lost: send() throws.  (Faulty variant: it  *)
(* counts as a refusal.)                                                   *)
lose_Retries(k) ==
  /\ pc[k] \in {"sent", "answered"} /\ count = 0
  /\ goto(k, "renonce") /\ lost' = TRUE
  /\ UNCHANGED <<client, query, res, core, node, stale, overlapped, crashes>>
lose(k) ==
  /\ pc[k] \in {"sent", "answered", "renonce"}
  /\ return(k, "thrown") /\ lost' = TRUE
  /\ UNCHANGED <<nonce, count, core, node, stale, overlapped, crashes>>

(* nonce(): the node is asked, and the query is signed again with what it  *)
(* said, although the nonce may have moved on in between.                  *)
askNonce(k) ==
  /\ pc[k] = "renonce" /\ db # NONE
  /\ goto(k, "nonced")
  /\ res' = [res EXCEPT ![k] = st.nonce]
  /\ misses
  /\ UNCHANGED <<client, query, core, node, overlapped, lost, crashes>>

(* (Faulty variant: the nonce that was refused is used again.)             *)
renewed_Same(k) == signed[k]
renewed(k) == res[k] + 1

retry(k) ==
  /\ pc[k] = "nonced"
  /\ goto(k, "sent")
  /\ sign(k, renewed(k)) /\ count' = count + 1
  /\ res' = [res EXCEPT ![k] = NONE]
  /\ UNCHANGED <<query, core, node, stale, overlapped, lost, crashes>>

(* The node dies and recovers with the engine of the database's version,   *)
(* or with none when that cannot be downloaded; what was not flushed is    *)
(* gone, and so are the calls it was serving.                              *)
Served == {"fetching", "answered"}
crash ==
  /\ crashes < MaxCrash /\ crashes' = crashes + 1
  /\ st' = store /\ dirty' = FALSE /\ fresh' = FALSE /\ pending' = {}
  /\ db' \in {store.version, NONE} /\ unfetched' = (db' = NONE)
  /\ old_db' = NONE /\ orphaned' = FALSE
  /\ pc' = [k \in Call |-> IF pc[k] \in Served THEN "thrown" ELSE pc[k]]
  /\ lost' = (lost \/ \E k \in Call : pc[k] \notin Over)
  /\ UNCHANGED <<client, query, res, store, ran, stale, overlapped>>

Next ==
  \/ \E k \in Call, q \in Query : set(k, q)
  \/ \E k \in Call : write(k)
  \/ \E k \in Call : fetched(k)
  \/ \E k \in Call : notFetched(k)
  \/ \E k \in Call : answer(k)
  \/ \E k \in Call : lose(k)
  \/ \E k \in Call : askNonce(k)
  \/ \E k \in Call : retry(k)
  \/ flush
  \/ crash

Spec == Init /\ [][Next]_vars

-----------------------------------------------------------------------------
(* sdk/db.js: a call takes effect at most once, retries, overlapping calls *)
(* and lost answers notwithstanding, and is told so: it took effect if it  *)
(* is answered with success, and did not if it is answered with an error.  *)
AnswerIsTrue ==
  \A k \in Call :
    /\ ran[k] <= 1
    /\ pc[k] = "ok" => ran[k] = 1
    /\ pc[k] \in {"failed", "refused"} => ran[k] = 0

(* sdk/db.js: a client that waits for each answer never fails for its      *)
(* nonce: whatever nonce it starts with, and although a query that was     *)
(* refused has used one up on its side only.  (A node that has downloaded  *)
(* an engine before it has flushed the upgrade counts the nonce too low.)  *)
SequentialSucceeds ==
  ~overlapped /\ ~lost /\ ~stale => \A k \in Call : pc[k] # "refused"

(* core.js and dev_version.js: unless a revert did not find the engine to  *)
(* put back, the engine is the one of the database's version or, during an *)
(* upgrade, the one it is upgraded to: whatever queries run while it is    *)
(* downloaded, whether they were sent before or after, and after a         *)
(* recovery; there is none just when the recovery could not download it.   *)
(* It also holds when a download has overtaken a flush, once that flush is *)
(* done and unless it was missed meanwhile.                                *)
EngineFits ==
  ~orphaned /\ ~stale /\ pending = {} =>
    db \in IF unfetched THEN {NONE}
          ELSE IF st.upgrading = NONE THEN {st.version} ELSE {st.version, st.upgrading}

(* dev_version.js:31 and dev_migrate.js:20 offer a revert throughout an    *)
(* upgrade.  Then it leaves the database with an engine.                   *)
RevertKeepsEngine == db # NONE
=============================================================================
