---------------------------- MODULE ServiceProofs ----------------------------
(* For every number of calls, versions and crashes, the answers of the     *)
(* client are true and the engine fits the database.                       *)
EXTENDS Service, TLAPS

Results == {"success", "version", "nonce", "error", NONE} \cup Int
States == [version : Version, upgrading : Version \cup {NONE}, nonce : Int]
Places == Over \cup Served \cup {"sent", "renonce", "nonced"}

Types ==
  /\ pc \in [Call -> Places]
  /\ query \in [Call -> Query \cup {NONE}]
  /\ res \in [Call -> Results]
  /\ st \in States /\ store \in States /\ pending \subseteq States
  /\ ran \in [Call -> {0, 1}]
  /\ db \in Version \cup {NONE} /\ old_db \in Version \cup {NONE}
  /\ \A k \in Call :
       /\ pc[k] \notin Over => query[k] \in Query
       /\ pc[k] = "fetching" => query[k] \in Version

(* What a call has done follows from where it is. *)
RanIsKnown ==
  \A k \in Call :
    /\ pc[k] \in {"new", "sent", "renonce", "nonced", "failed", "refused"} => ran[k] = 0
    /\ pc[k] = "fetching" => ran[k] = 1 /\ res[k] = "success"
    /\ pc[k] = "answered" => ran[k] = (IF res[k] = "success" THEN 1 ELSE 0)
    /\ pc[k] = "ok" => ran[k] = 1

(* The engine is kept while the one it is to be replaced by is downloaded, *)
(* for one call at a time, and what is kept of it afterwards is given up   *)
(* by a migration.  s is the state that the last query made.               *)
Fetching(s, k) ==
  /\ query[k] = s.upgrading
  /\ db = s.version /\ old_db # s.version

NoneFetching == \A k \in Call : pc[k] # "fetching"

Known(s) ==
  /\ db \in {s.version, s.upgrading} \ {NONE}
  /\ s.upgrading = NONE => old_db # s.version
  /\ db # s.version => old_db = s.version
  /\ \A k \in Call : pc[k] = "fetching" => Fetching(s, k)
  /\ \A j, k \in Call : pc[j] = "fetching" /\ pc[k] = "fetching" => j = k

(* Without an engine, nothing can happen to the state any more.            *)
Fits(s) == IF unfetched THEN db = NONE /\ NoneFetching ELSE Known(s)

(* The last state is the one the engine reads, or it is pending alone and  *)
(* the engine has done nothing since.                                      *)
EngineIsKnown ==
  ~stale /\ ~orphaned =>
    \/ pending = {} /\ Fits(st)
    \/ \E s \in States : pending = {s} /\ fresh /\ NoneFetching /\ Fits(s)

StoreIsRead == ~stale => (pending # {} => fresh /\ ~dirty) /\ (pending = {} => dirty \/ st = store)

IInv == Types /\ RanIsKnown /\ EngineIsKnown /\ StoreIsRead

-----------------------------------------------------------------------------
LEMMA InitIInv == Init => IInv
<1> SUFFICES ASSUME Init PROVE IInv
  OBVIOUS
<1>1. Types
  BY VersionAssumption DEF Init, Types, Places, Over, Served, States, Results
<1>2. RanIsKnown
  BY DEF Init, RanIsKnown
<1>3. EngineIsKnown
  BY VersionAssumption DEF Init, EngineIsKnown, Fits, Known
<1>4. StoreIsRead
  BY DEF Init, StoreIsRead
<1> QED BY <1>1, <1>2, <1>3, <1>4 DEF IInv

(* What a query makes of a state is a state, if it is not refused.         *)
LEMMA AfterIsState ==
  ASSUME st \in States, NEW e \in Version, NEW q \in Query, after(e, q) # NONE
  PROVE  after(e, q) \in States
BY DEF after, States, Query

(* A step that leaves the state, the engine and what the calls have done   *)
(* alone keeps what is known, if no call gets to a place where it would    *)
(* have to have done something else.                                       *)
LEMMA MoveKeeps ==
  ASSUME IInv, NEW k \in Call, NEW where \in Places, goto(k, where), where # "fetching",
         UNCHANGED <<core, node>>, stale => stale',
         query' \in [Call -> Query \cup {NONE}], res' \in [Call -> Results],
         where \notin Over => query'[k] \in Query,
         \A j \in Call \ {k} : query'[j] = query[j] /\ res'[j] = res[j],
         where \in {"new", "sent", "renonce", "nonced", "failed", "refused"} => ran[k] = 0,
         where = "answered" => ran[k] = (IF res'[k] = "success" THEN 1 ELSE 0),
         where = "ok" => ran[k] = 1
  PROVE  IInv'
<1> USE DEF IInv
<1>1. pc' = [pc EXCEPT ![k] = where] /\ pc'[k] = where /\ \A j \in Call \ {k} : pc'[j] = pc[j]
  BY DEF goto, Types
<1>2. Types'
  BY <1>1 DEF Types, core, node, object
<1>3. RanIsKnown'
  BY <1>1 DEF RanIsKnown, Types, node
<1>4. EngineIsKnown'
  <2> SUFFICES ASSUME ~stale', ~orphaned' PROVE EngineIsKnown'
    BY DEF EngineIsKnown
  <2>1. NoneFetching => NoneFetching'
    BY <1>1 DEF NoneFetching
  <2>2. \A s \in States : Fits(s) => Fits(s)'
    BY <1>1, <2>1 DEF Fits, Known, Fetching, core
  <2>3. UNCHANGED <<st, pending, fresh>> /\ st \in States
    BY DEF node, object, Types
  <2> QED BY <2>1, <2>2, <2>3 DEF EngineIsKnown, core
<1>5. StoreIsRead'
  BY DEF StoreIsRead, node, object
<1> QED BY <1>2, <1>3, <1>4, <1>5

(* The step of the engine: it executes the query of a call, or refuses it. *)
LEMMA WriteKeeps ==
  ASSUME IInv, NEW k \in Call, write(k)
  PROVE  IInv'
<1> USE DEF IInv
<1>1. /\ query' = query /\ UNCHANGED <<store, pending>> /\ pc[k] = "sent" /\ ran[k] = 0
      /\ stale' = (stale \/ pending # {})
  BY DEF write, misses, RanIsKnown
<1>2. res' = [res EXCEPT ![k] = verdict(k)] /\ verdict(k) \in Results
  BY DEF write, verdict, Results
<1>3. CASE verdict(k) # "success"
  <2>1. goto(k, "answered") /\ UNCHANGED <<core, node>>
    BY <1>1, <1>3 DEF write, node, object
  <2>2. res'[k] # "success"
    BY <1>2, <1>3 DEF Types
  <2>3. res' \in [Call -> Results] /\ \A j \in Call \ {k} : res'[j] = res[j]
    BY <1>2 DEF Types
  <2>4. query' \in [Call -> Query \cup {NONE}] /\ query'[k] \in Query
    BY <1>1 DEF Types, Over
  <2>5. "answered" \in Places
    BY DEF Places, Served
  <2> QED BY <2>1, <2>2, <2>3, <2>4, <2>5, <1>1, MoveKeeps
<1>4. CASE verdict(k) = "success"
  <2> DEFINE q == query[k]
             new == after(db, q)
             where == IF q \in Version THEN "fetching" ELSE "answered"
  <2>1. db # NONE /\ permits(db, q) /\ new # NONE
    BY <1>4 DEF verdict
  <2>2. q \in Query /\ db \in Version
    BY <1>1, <2>1 DEF Types, Over
  <2>3. /\ st' = [new EXCEPT !.nonce = st.nonce + 1]
        /\ dirty' = TRUE /\ fresh' = FALSE
        /\ ran' = [ran EXCEPT ![k] = @ + 1]
        /\ goto(k, where)
        /\ IF q = "revert" THEN putBack ELSE UNCHANGED core
    BY <1>4 DEF write
  <2>4. new \in States
    BY <2>1, <2>2, AfterIsState DEF Types
  <2>5. /\ st' \in States
        /\ st'.version = new.version /\ st'.upgrading = new.upgrading
    BY <2>3, <2>4 DEF Types, States
  <2>6. /\ pc' = [pc EXCEPT ![k] = where] /\ pc'[k] = where
        /\ \A j \in Call \ {k} : pc'[j] = pc[j]
    BY <2>3 DEF goto, Types
  <2>7. ran' = [ran EXCEPT ![k] = 1] /\ res' = [res EXCEPT ![k] = "success"]
    BY <2>3, <1>1, <1>2, <1>4
  <2>8. Types'
    BY <1>1, <2>2, <2>3, <2>5, <2>6, <2>7 DEF Types, Places, Over, Served, Results, putBack, core
  <2>9. RanIsKnown'
    BY <1>1, <2>6, <2>7 DEF RanIsKnown, Types
  <2>10. EngineIsKnown'
    <3> SUFFICES ASSUME ~stale', ~orphaned'
                 PROVE  EngineIsKnown'
      BY DEF EngineIsKnown
    <3>0. pending = {} /\ pending' = {} /\ ~stale /\ ~orphaned
      BY <1>1, <2>3 DEF putBack, core
    <3>1. Known(st) /\ ~unfetched
      BY <3>0, <2>1 DEF EngineIsKnown, Fits
    <3>9. ~unfetched'
      BY <2>3, <3>1 DEF putBack, core
    <3> SUFFICES Known(st)'
      BY <3>0, <3>9 DEF EngineIsKnown, Fits
    <3>2. \A j \in Call : pc'[j] = "fetching" => j = k \/ pc[j] = "fetching"
      BY <2>6
    <3>3. CASE q = "set"
      <4>1. new = st /\ db = st.version /\ st.upgrading = NONE
        BY <3>3, <2>1, VersionAssumption DEF after, permits
      <4>2. q \notin Version /\ UNCHANGED core
        BY <3>3, <2>3, VersionAssumption
      <4> QED BY <4>1, <4>2, <3>1, <3>2, <2>5, <2>6, <1>1 DEF Known, Fetching, core
    <3>4. CASE q = "revert"
      <4>1. new = [st EXCEPT !.upgrading = NONE] /\ st.upgrading # NONE
        BY <3>4, <2>1 DEF after
      <4>2. q \notin Version /\ db' = old_db /\ old_db' = NONE /\ old_db = st.version
        BY <3>4, <2>3, VersionAssumption DEF putBack
      <4>3. \A j \in Call : pc'[j] # "fetching"
        BY <4>2, <3>1, <3>2, <2>6 DEF Known, Fetching
      <4>4. st'.version = st.version /\ st'.upgrading = NONE
        BY <4>1, <2>5 DEF Types, States
      <4>5. st.version # NONE
        BY VersionAssumption DEF Types, States
      <4> QED BY <4>2, <4>3, <4>4, <4>5 DEF Known
    <3>5. CASE q = "migrate"
      <4>1. new = [st EXCEPT !.version = db, !.upgrading = NONE]
        BY <3>5, <2>1 DEF after
      <4>2. st.upgrading # NONE /\ db = st.upgrading /\ db # st.version
        BY <3>5, <2>1 DEF after, permits
      <4>3. q \notin Version /\ UNCHANGED core
        BY <3>5, <2>3, VersionAssumption
      <4>4. \A j \in Call : pc'[j] # "fetching"
        BY <4>2, <4>3, <3>1, <3>2, <2>6 DEF Known, Fetching
      <4>5. st'.version = db /\ st'.upgrading = NONE
        BY <4>1, <2>5 DEF Types, States
      <4> QED BY <4>2, <4>3, <4>4, <4>5, <3>1, <2>1 DEF Known, core
    <3>6. CASE q \in Version
      <4>1. q \notin {"set", "revert", "migrate"}
        BY <3>6, VersionAssumption
      <4>2. new = [st EXCEPT !.upgrading = q] /\ db = st.version /\ st.upgrading = NONE
        BY <4>1, <2>1 DEF after, permits
      <4>3. UNCHANGED core
        BY <4>1, <2>3
      <4>4. \A j \in Call : pc[j] # "fetching"
        BY <4>2, <3>1, VersionAssumption DEF Known, Fetching, Types
      <4>5. st'.version = st.version /\ st'.upgrading = q
        BY <4>2, <2>5 DEF Types, States
      <4> QED BY <4>1, <4>2, <4>3, <4>4, <4>5, <3>1, <3>2, <2>1, <2>2, <1>1, VersionAssumption
              DEF Known, Fetching, core
    <3> QED BY <3>3, <3>4, <3>5, <3>6, <2>2 DEF Query
  <2>11. StoreIsRead'
    BY <1>1, <2>3 DEF StoreIsRead
  <2> QED BY <2>8, <2>9, <2>10, <2>11
<1> QED BY <1>3, <1>4

(* An engine that has been downloaded takes the place of the old one.      *)
LEMMA FetchedKeeps ==
  ASSUME IInv, NEW k \in Call, fetched(k)
  PROVE  IInv'
<1> USE DEF IInv
<1>1. /\ pc[k] = "fetching" /\ pc' = [pc EXCEPT ![k] = "answered"]
      /\ pc'[k] = "answered" /\ \A j \in Call \ {k} : pc'[j] = pc[j]
  BY DEF fetched, goto, Types
<1>2. /\ UNCHANGED <<query, res, store, ran, orphaned, unfetched, stale>>
      /\ old_db' = db /\ db' = query[k] /\ st' = store /\ dirty' = FALSE
      /\ pending' = IF dirty THEN pending \cup {st} ELSE pending
      /\ fresh' = (pending' # {})
  BY DEF fetched
<1>3. query[k] \in Version /\ ran[k] = 1 /\ res[k] = "success"
  BY <1>1 DEF Types, RanIsKnown
<1>4. Types'
  BY <1>1, <1>2, <1>3 DEF Types, Places, Over, Served
<1>5. RanIsKnown'
  BY <1>1, <1>2, <1>3 DEF RanIsKnown, Types
<1>6. ASSUME ~stale', ~orphaned' PROVE EngineIsKnown'
  <2>1. pending = {} /\ Known(st) /\ ~unfetched
    BY <1>1, <1>2, <1>6 DEF EngineIsKnown, Fits, NoneFetching
  <2>2. query[k] = st.upgrading /\ db = st.version /\ st.upgrading # NONE
    BY <1>1, <1>3, <2>1, VersionAssumption DEF Known, Fetching
  <2>3. NoneFetching'
    BY <1>1, <2>1 DEF Known, NoneFetching
  <2>4. db' \in {st.version, st.upgrading} \ {NONE} /\ old_db' = st.version /\ ~unfetched'
    BY <1>2, <1>3, <2>1, <2>2 DEF Known
  <2>5. CASE dirty
    <3>1. pending' = {st} /\ fresh'
      BY <1>2, <2>1, <2>5
    <3>2. \A s \in States : s = st => Fits(s)'
      BY <2>2, <2>3, <2>4 DEF Fits, Known, NoneFetching
    <3>3. st \in States
      BY DEF Types
    <3> QED BY <2>3, <3>1, <3>2, <3>3 DEF EngineIsKnown
  <2>6. CASE ~dirty
    <3>1. pending' = {} /\ st' = st
      BY <1>2, <1>6, <2>1, <2>6 DEF StoreIsRead
    <3>2. Fits(st)'
      BY <2>2, <2>3, <2>4, <3>1 DEF Fits, Known, NoneFetching
    <3> QED BY <3>1, <3>2 DEF EngineIsKnown
  <2> QED BY <2>5, <2>6
<1>7. StoreIsRead'
  BY <1>2 DEF StoreIsRead
<1> QED BY <1>4, <1>5, <1>6, <1>7 DEF EngineIsKnown

(* What is pending reaches the store.                                      *)
LEMMA FlushKeeps ==
  ASSUME IInv, flush
  PROVE  IInv'
<1> USE DEF IInv
<1>1. UNCHANGED <<pc, query, res, db, old_db, orphaned, unfetched, ran, stale>>
  BY DEF flush, core
<1>2. RanIsKnown'
  BY <1>1 DEF RanIsKnown
<1>3. NoneFetching' = NoneFetching /\ \A s \in States : Fits(s)' = Fits(s)
  BY <1>1 DEF NoneFetching, Fits, Known, Fetching
<1>4. CASE dirty /\ store' = st /\ dirty' = FALSE /\ UNCHANGED <<st, fresh, pending>>
  <2>1. Types'
    BY <1>1, <1>4 DEF Types
  <2>2. EngineIsKnown'
    BY <1>1, <1>3, <1>4 DEF EngineIsKnown, Types
  <2>3. StoreIsRead'
    BY <1>1, <1>4 DEF StoreIsRead
  <2> QED BY <1>2, <2>1, <2>2, <2>3
<1>5. ASSUME NEW s \in pending,
             store' = s, pending' = pending \ {s}, st' = IF fresh THEN s ELSE st,
             fresh' = (fresh /\ pending' # {}), UNCHANGED dirty
      PROVE  IInv'
  <2>1. s \in States
    BY DEF Types
  <2>2. Types'
    BY <1>1, <1>5, <2>1 DEF Types
  <2>3. ASSUME ~stale', ~orphaned' PROVE EngineIsKnown'
    <3>1. fresh /\ pending = {s} /\ Fits(s)
      BY <1>1, <2>3 DEF EngineIsKnown
    <3>2. pending' = {} /\ st' = s
      BY <1>5, <3>1
    <3>3. Fits(st)'
      BY <1>1, <3>1, <3>2 DEF Fits, Known, Fetching, NoneFetching
    <3> QED BY <3>2, <3>3 DEF EngineIsKnown
  <2>4. ASSUME ~stale' PROVE StoreIsRead'
    <3>1. ~dirty'
      BY <1>1, <1>5, <2>4 DEF StoreIsRead
    <3> QED BY <1>1, <1>5, <2>4, <3>1 DEF StoreIsRead
  <2> QED BY <1>2, <2>2, <2>3, <2>4 DEF EngineIsKnown, StoreIsRead
<1> QED BY <1>4, <1>5 DEF flush

(* A restart begins with what was flushed and the engine that fits it, or  *)
(* with none.                                                              *)
LEMMA CrashKeeps ==
  ASSUME IInv, crash
  PROVE  IInv'
<1> USE DEF IInv
<1>1. /\ pc' = [k \in Call |-> IF pc[k] \in Served THEN "thrown" ELSE pc[k]]
      /\ UNCHANGED <<query, res, store, ran>>
      /\ st' = store /\ pending' = {} /\ dirty' = FALSE
      /\ db' \in {store.version, NONE} /\ unfetched' = (db' = NONE) /\ old_db' = NONE
  BY DEF crash
<1>2. \A k \in Call : pc'[k] # "fetching" /\ (pc'[k] = pc[k] \/ pc'[k] = "thrown")
  BY <1>1 DEF Served
<1>3. Types'
  BY <1>1, <1>2 DEF Types, States, Places, Over
<1>4. RanIsKnown'
  BY <1>1, <1>2 DEF RanIsKnown, Types
<1>5. EngineIsKnown'
  BY <1>1, <1>2, VersionAssumption DEF EngineIsKnown, Fits, NoneFetching, Known, Types, States
<1>6. StoreIsRead'
  BY <1>1 DEF StoreIsRead
<1> QED BY <1>3, <1>4, <1>5, <1>6

LEMMA NextIInv == IInv /\ [Next]_vars => IInv'
<1> SUFFICES ASSUME IInv, [Next]_vars PROVE IInv'
  OBVIOUS
<1> USE DEF IInv
<1>1. ASSUME NEW k \in Call, NEW q \in Query, set(k, q) PROVE IInv'
  <2>1. query' = [query EXCEPT ![k] = q] /\ UNCHANGED <<res, core, node, stale>>
    BY <1>1 DEF set
  <2> QED BY <1>1, <2>1, MoveKeeps DEF set, Types, Places, RanIsKnown
<1>2. ASSUME NEW k \in Call, write(k) PROVE IInv'
  BY <1>2, WriteKeeps
<1>3. ASSUME NEW k \in Call, fetched(k) PROVE IInv'
  BY <1>3, FetchedKeeps
<1>4. ASSUME NEW k \in Call, notFetched(k) PROVE IInv'
  <2>1. UNCHANGED <<query, res, core, node, stale>> /\ pc[k] = "fetching" /\ goto(k, "answered")
    BY <1>4 DEF notFetched
  <2> QED BY <2>1, MoveKeeps DEF Types, Places, Served, Over, RanIsKnown
<1>5. ASSUME NEW k \in Call, answer(k) PROVE IInv'
  <2>1. UNCHANGED <<core, node, stale>> /\ pc[k] = "answered"
    BY <1>5 DEF answer
  <2>2. CASE again(res[k])
    <3>1. UNCHANGED <<query, res>> /\ goto(k, "renonce") /\ res[k] = "nonce"
      BY <1>5, <2>2 DEF answer, again
    <3> QED BY <2>1, <3>1, MoveKeeps DEF Types, Places, Over, RanIsKnown
  <2>3. CASE ~again(res[k])
    <3>1. return(k, outcome(res[k]))
      BY <1>5, <2>3 DEF answer
    <3>2. /\ goto(k, outcome(res[k]))
          /\ query' = [query EXCEPT ![k] = NONE] /\ res' = [res EXCEPT ![k] = NONE]
      BY <3>1 DEF return
    <3>3. \/ outcome(res[k]) = "ok" /\ ran[k] = 1
          \/ outcome(res[k]) \in {"failed", "refused"} /\ ran[k] = 0
      BY <2>1 DEF outcome, RanIsKnown
    <3> QED BY <2>1, <3>2, <3>3, MoveKeeps DEF Types, Places, Over, Results
  <2> QED BY <2>2, <2>3
<1>6. ASSUME NEW k \in Call, lose(k) PROVE IInv'
  <2>1. /\ UNCHANGED <<core, node, stale>>
        /\ goto(k, "thrown")
        /\ query' = [query EXCEPT ![k] = NONE] /\ res' = [res EXCEPT ![k] = NONE]
    BY <1>6 DEF lose, return
  <2> QED BY <2>1, MoveKeeps DEF Types, Places, Over, Results
<1>7. ASSUME NEW k \in Call, askNonce(k) PROVE IInv'
  <2>1. /\ UNCHANGED <<query, core, node>> /\ (stale => stale')
        /\ goto(k, "nonced") /\ pc[k] = "renonce"
        /\ res' = [res EXCEPT ![k] = st.nonce]
    BY <1>7 DEF askNonce, misses
  <2> QED BY <2>1, MoveKeeps DEF Types, Places, Over, Results, States, RanIsKnown
<1>8. ASSUME NEW k \in Call, retry(k) PROVE IInv'
  <2>1. /\ UNCHANGED <<query, core, node, stale>>
        /\ goto(k, "sent") /\ pc[k] = "nonced"
        /\ res' = [res EXCEPT ![k] = NONE]
    BY <1>8 DEF retry
  <2> QED BY <2>1, MoveKeeps DEF Types, Places, Over, Results, RanIsKnown
<1>9. CASE flush
  BY <1>9, FlushKeeps
<1>10. CASE crash
  BY <1>10, CrashKeeps
<1>11. CASE UNCHANGED vars
  <2>1. UNCHANGED <<pc, query, res, st, store, ran, db, old_db, pending>>
    BY <1>11 DEF vars, core, node, object
  <2>2. UNCHANGED <<orphaned, unfetched, stale, dirty, fresh>>
    BY <1>11 DEF vars, core, node, object
  <2>3. Types' /\ RanIsKnown' /\ StoreIsRead'
    BY <2>1, <2>2 DEF Types, RanIsKnown, StoreIsRead
  <2>4. NoneFetching' = NoneFetching /\ \A s \in States : Fits(s)' = Fits(s)
    BY <2>1, <2>2 DEF NoneFetching, Fits, Known, Fetching
  <2>5. EngineIsKnown'
    BY <2>1, <2>2, <2>4 DEF EngineIsKnown, Types
  <2> QED BY <2>3, <2>5
<1> QED BY <1>1, <1>2, <1>3, <1>4, <1>5, <1>6, <1>7, <1>8, <1>9, <1>10, <1>11 DEF Next

(* sdk/db.js:202-253: however calls overlap, retry and lose their answers, *)
(* a call takes effect at most once and its answer says whether it did.    *)
THEOREM AnswersAreTrue == Spec => []AnswerIsTrue
<1>1. IInv => AnswerIsTrue
  <2> SUFFICES ASSUME IInv, NEW k \in Call
               PROVE  /\ ran[k] <= 1
                      /\ pc[k] = "ok" => ran[k] = 1
                      /\ pc[k] \in {"failed", "refused"} => ran[k] = 0
    BY DEF AnswerIsTrue
  <2>1. ran[k] \in {0, 1}
    BY DEF IInv, Types
  <2> QED BY <2>1 DEF IInv, RanIsKnown
<1> QED BY <1>1, InitIInv, NextIInv, PTL DEF Spec

(* core.js:46-81: unless a revert did not find the engine to put back or a *)
(* query missed what a download has overtaken, the engine is one that the  *)
(* version of the database admits; there is none just when a recovery      *)
(* could not download it.                                                  *)
THEOREM EngineAlwaysFits == Spec => []EngineFits
<1>1. IInv => EngineFits
  BY DEF IInv, EngineIsKnown, Fits, Known, EngineFits
<1> QED BY <1>1, InitIInv, NextIInv, PTL DEF Spec

-----------------------------------------------------------------------------
(* The client's side: only one call is under way, and when it has asked    *)
(* for the nonce it is the right one until it is used.                     *)
Signed ==
  /\ signed \in [Call -> Int] /\ nonce \in Int /\ count \in Int
  /\ \A k \in Call : pc[k] = "nonced" => res[k] \in Int

OneCall ==
  /\ \A j, k \in Call : pc[j] \notin Over /\ pc[k] \notin Over => j = k
  /\ \A k \in Call : pc[k] # "refused"
  /\ count \in {0, 1}
  /\ (\A k \in Call : pc[k] \in Over) => count = 0

RightNonce ==
  \A k \in Call :
    /\ pc[k] \in {"renonce", "nonced"} => count = 0
    /\ pc[k] = "nonced" => pending = {} /\ res[k] = st.nonce
    /\ pc[k] = "sent" /\ count = 1 => pending = {} /\ signed[k] = st.nonce + 1
    /\ pc[k] = "answered" /\ count = 1 => res[k] # "nonce"

SeqInv == Signed /\ (~overlapped /\ ~lost /\ ~stale => OneCall /\ RightNonce)

LEMMA NextSeqInv == IInv /\ IInv' /\ SeqInv /\ [Next]_vars => SeqInv'
<1> SUFFICES ASSUME IInv, IInv', SeqInv, [Next]_vars
             PROVE  SeqInv'
  OBVIOUS
<1>t. /\ pc \in [Call -> Places] /\ res \in [Call -> Results] /\ st.nonce \in Int /\ st'.nonce \in Int
      /\ signed \in [Call -> Int] /\ nonce \in Int /\ count \in Int
      /\ pc' \in [Call -> Places] /\ res' \in [Call -> Results]
      /\ \A k \in Call : pc[k] = "nonced" => res[k] \in Int
  BY DEF IInv, Types, SeqInv, Signed, States
<1>1. ASSUME NEW k \in Call, NEW q \in Query, set(k, q)
      PROVE  SeqInv'
  <2>1. /\ pc' = [pc EXCEPT ![k] = "sent"] /\ signed' = [signed EXCEPT ![k] = nonce + 1]
        /\ nonce' = nonce + 1 /\ UNCHANGED <<count, res, st, pending, stale, lost>> /\ pc[k] = "new"
        /\ overlapped' = (overlapped \/ \E j \in Call : pc[j] \notin Over)
    BY <1>1 DEF set, goto, sign, node, object
  <2>2. Signed'
    BY <1>t, <2>1 DEF Signed
  <2>3. ASSUME ~overlapped', ~lost', ~stale'
        PROVE  OneCall' /\ RightNonce'
    <3>1. ~overlapped /\ ~lost /\ ~stale /\ \A j \in Call : pc[j] \in Over
      BY <2>1, <2>3
    <3>2. OneCall /\ RightNonce /\ count = 0
      BY <3>1 DEF SeqInv, OneCall
    <3> QED BY <1>t, <2>1, <3>1, <3>2 DEF OneCall, RightNonce, Over
  <2> QED BY <2>2, <2>3 DEF SeqInv
<1>2. ASSUME NEW k \in Call, write(k)
      PROVE  SeqInv'
  <2>1. /\ pc[k] = "sent" /\ res' = [res EXCEPT ![k] = verdict(k)] /\ UNCHANGED <<signed, nonce, count>>
        /\ \/ pc' = [pc EXCEPT ![k] = "answered"]
           \/ pc' = [pc EXCEPT ![k] = "fetching"]
        /\ UNCHANGED <<overlapped, lost, pending>> /\ stale' = (stale \/ pending # {})
    BY <1>2 DEF write, misses, goto, client
  <2>2. Signed'
    BY <1>t, <2>1 DEF Signed
  <2>3. ASSUME ~overlapped, ~lost, ~stale'
        PROVE  OneCall' /\ RightNonce'
    <3>1. OneCall /\ RightNonce
      BY <2>1, <2>3 DEF SeqInv
    <3>2. \A j \in Call \ {k} : pc[j] \in Over /\ pc'[j] = pc[j]
      BY <1>t, <2>1, <3>1 DEF OneCall, Over
    <3>3. count = 1 => verdict(k) # "nonce"
      BY <2>1, <3>1 DEF RightNonce, verdict
    <3>4. OneCall'
      BY <1>t, <2>1, <3>1, <3>2 DEF OneCall, Over
    <3>5. RightNonce'
      BY <1>t, <2>1, <3>2, <3>3 DEF RightNonce, Over
    <3> QED BY <3>4, <3>5
  <2> QED BY <2>1, <2>2, <2>3 DEF SeqInv
<1>3. ASSUME NEW k \in Call, fetched(k) \/ notFetched(k)
      PROVE  SeqInv'
  <2>1. /\ pc[k] = "fetching" /\ pc' = [pc EXCEPT ![k] = "answered"]
        /\ UNCHANGED <<signed, nonce, count, res, stale, overlapped, lost>>
    BY <1>3 DEF fetched, notFetched, goto, client
  <2>2. Signed'
    BY <1>t, <2>1 DEF Signed
  <2>3. res[k] = "success"
    BY <2>1 DEF IInv, RanIsKnown
  <2>4. ASSUME ~overlapped, ~lost, ~stale
        PROVE  OneCall' /\ RightNonce'
    <3>1. OneCall /\ RightNonce
      BY <2>4 DEF SeqInv
    <3> QED BY <1>t, <2>1, <2>3, <3>1 DEF OneCall, RightNonce, Over
  <2> QED BY <2>1, <2>2, <2>4 DEF SeqInv
<1>4. ASSUME NEW k \in Call, answer(k)
      PROVE  SeqInv'
  <2>1. /\ pc[k] = "answered" /\ UNCHANGED <<nonce, st, pending, stale, overlapped, lost>>
        /\ \/ /\ res[k] = "nonce" /\ count = 0 /\ pc' = [pc EXCEPT ![k] = "renonce"]
              /\ UNCHANGED <<count, res, signed>>
           \/ /\ ~(res[k] = "nonce" /\ count = 0) /\ pc' = [pc EXCEPT ![k] = outcome(res[k])]
              /\ res' = [res EXCEPT ![k] = NONE] /\ signed' = [signed EXCEPT ![k] = 0] /\ count' = 0
    BY <1>4 DEF answer, again, return, goto, node, object
  <2>2. outcome(res[k]) \in {"ok", "refused", "failed"} /\ (outcome(res[k]) = "refused" => res[k] = "nonce")
    BY DEF outcome
  <2>3. Signed'
    BY <1>t, <2>1, <2>2 DEF Signed
  <2>4. ASSUME ~overlapped, ~lost, ~stale
        PROVE  OneCall' /\ RightNonce'
    <3>1. OneCall /\ RightNonce
      BY <2>4 DEF SeqInv
    <3>2. \A j \in Call \ {k} : pc[j] \in Over /\ pc'[j] = pc[j]
      BY <1>t, <2>1, <3>1 DEF OneCall, Over
    <3>3. OneCall'
      BY <1>t, <2>1, <2>2, <3>1, <3>2 DEF OneCall, RightNonce, Over
    <3>4. RightNonce'
      BY <1>t, <2>1, <2>2, <3>2 DEF RightNonce, Over
    <3> QED BY <3>3, <3>4
  <2> QED BY <2>1, <2>3, <2>4 DEF SeqInv
<1>5. ASSUME NEW k \in Call, lose(k)
      PROVE  SeqInv'
  <2>1. /\ pc' = [pc EXCEPT ![k] = "thrown"] /\ res' = [res EXCEPT ![k] = NONE]
        /\ signed' = [signed EXCEPT ![k] = 0] /\ UNCHANGED <<nonce, count>> /\ lost' = TRUE
    BY <1>5 DEF lose, return, goto
  <2>2. Signed'
    BY <1>t, <2>1 DEF Signed
  <2> QED BY <2>1, <2>2 DEF SeqInv
<1>6. ASSUME NEW k \in Call, askNonce(k)
      PROVE  SeqInv'
  <2>1. /\ pc[k] = "renonce" /\ pc' = [pc EXCEPT ![k] = "nonced"]
        /\ res' = [res EXCEPT ![k] = st.nonce]
        /\ UNCHANGED <<signed, nonce, count, st, pending, overlapped, lost>>
        /\ stale' = (stale \/ pending # {})
    BY <1>6 DEF askNonce, misses, goto, client, node, object
  <2>2. Signed'
    BY <1>t, <2>1 DEF Signed
  <2>3. ASSUME ~overlapped, ~lost, ~stale'
        PROVE  OneCall' /\ RightNonce'
    <3>1. OneCall /\ RightNonce /\ pending = {}
      BY <2>1, <2>3 DEF SeqInv
    <3> QED BY <1>t, <2>1, <3>1 DEF OneCall, RightNonce, Over
  <2> QED BY <2>1, <2>2, <2>3 DEF SeqInv
<1>7. ASSUME NEW k \in Call, retry(k)
      PROVE  SeqInv'
  <2>1. /\ pc[k] = "nonced" /\ pc' = [pc EXCEPT ![k] = "sent"]
        /\ signed' = [signed EXCEPT ![k] = res[k] + 1] /\ nonce' = res[k] + 1 /\ count' = count + 1
        /\ res' = [res EXCEPT ![k] = NONE]
        /\ UNCHANGED <<st, pending, stale, overlapped, lost>>
    BY <1>7 DEF retry, goto, sign, renewed, node, object
  <2>2. res[k] \in Int
    BY <1>t, <2>1
  <2>3. Signed'
    BY <1>t, <2>1, <2>2 DEF Signed
  <2>4. ASSUME ~overlapped, ~lost, ~stale
        PROVE  OneCall' /\ RightNonce'
    <3>1. OneCall /\ RightNonce
      BY <2>4 DEF SeqInv
    <3>2. \A j \in Call \ {k} : pc[j] \in Over /\ pc'[j] = pc[j]
      BY <1>t, <2>1, <3>1 DEF OneCall, Over
    <3>3. count = 0 /\ res[k] = st.nonce /\ pending = {}
      BY <2>1, <3>1 DEF RightNonce
    <3>4. OneCall'
      BY <1>t, <2>1, <3>1, <3>2, <3>3 DEF OneCall, Over
    <3>5. RightNonce'
      BY <1>t, <2>1, <3>2, <3>3 DEF RightNonce, Over
    <3> QED BY <3>4, <3>5
  <2> QED BY <2>1, <2>3, <2>4 DEF SeqInv
<1>8. CASE crash
  <2>1. /\ pc' = [k \in Call |-> IF pc[k] \in Served THEN "thrown" ELSE pc[k]]
        /\ lost' = (lost \/ \E k \in Call : pc[k] \notin Over)
        /\ UNCHANGED <<signed, nonce, count, res, stale, overlapped>>
    BY <1>8 DEF crash, client
  <2>2. Signed'
    BY <1>t, <2>1 DEF Signed
  <2>3. ASSUME ~overlapped', ~lost', ~stale'
        PROVE  OneCall' /\ RightNonce'
    <3>1. ~overlapped /\ ~lost /\ ~stale /\ \A j \in Call : pc[j] \in Over
      BY <2>1, <2>3
    <3>2. OneCall /\ count = 0
      BY <3>1 DEF SeqInv, OneCall
    <3>3. \A j \in Call : pc'[j] = pc[j]
      BY <2>1, <3>1 DEF Over, Served
    <3> QED BY <2>1, <3>1, <3>2, <3>3 DEF OneCall, RightNonce, Over
  <2> QED BY <2>2, <2>3 DEF SeqInv
<1>9. CASE flush
  <2>1. /\ UNCHANGED <<signed, nonce, count, pc, res, stale, overlapped, lost>>
        /\ pending = {} => pending' = {} /\ st' = st
    BY <1>9 DEF flush, client
  <2> QED BY <2>1 DEF SeqInv, Signed, OneCall, RightNonce
<1>10. CASE UNCHANGED vars
  <2>1. UNCHANGED <<signed, nonce, count, pc, res, st, pending, stale, overlapped, lost>>
    BY <1>10 DEF vars, client, node, object
  <2> QED BY <2>1 DEF SeqInv, Signed, OneCall, RightNonce
<1> QED BY <1>1, <1>2, <1>3, <1>4, <1>5, <1>6, <1>7, <1>8, <1>9, <1>10 DEF Next

(* sdk/src/db.js:246-270: a client that waits for its answers is never     *)
(* refused for its nonce, whatever nonce it starts with and however many   *)
(* calls it makes, and although the node may die between two of them.      *)
THEOREM SequentialAlwaysSucceeds == Spec => []SequentialSucceeds
<1>1. Init => SeqInv
  <2> SUFFICES ASSUME Init
               PROVE  SeqInv
    OBVIOUS
  <2>1. Signed
    BY DEF Init, Signed
  <2>2. OneCall /\ RightNonce
    BY DEF Init, OneCall, RightNonce, Over
  <2> QED BY <2>1, <2>2 DEF SeqInv
<1>2. SeqInv => SequentialSucceeds
  BY DEF SeqInv, OneCall, SequentialSucceeds
<1> QED BY <1>1, <1>2, InitIInv, NextIInv, NextSeqInv, PTL DEF Spec
=============================================================================
