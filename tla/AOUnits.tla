------------------------------- MODULE AOUnits -------------------------------
(***************************************************************************)
(* The scheduler unit (hb/src/su.js) and the compute unit (hb/src/cu.js)   *)
(* of one process, with HyperBEAM between them.                            *)
(*                                                                         *)
(* A message that is posted to the scheduler unit is scheduled on          *)
(* HyperBEAM, which asks the compute unit for the result of its slot; the  *)
(* result is sent to the process the message came from (through the        *)
(* messenger unit), and the message itself to a bundler if there is one.   *)
(* Clients may post a message again at any time.  Every await may fail, an *)
(* answer may get lost after the request was served, and each of the two   *)
(* processes may die.                                                      *)
(*                                                                         *)
(* Messages are 1, 2, ...: queries of one signer, in the order of their    *)
(* nonces.  The compute unit executes the slots of the log one by one; a   *)
(* message that does not come next in the order of the nonces is refused   *)
(* (module Engine).  sync.js, by which it downloads the log, is in module  *)
(* Validator.                                                              *)
(***************************************************************************)
EXTENDS Integers, Sequences, FiniteSets

CONSTANTS
  NMsg,             \* number of messages
  NONE,
  MaxSlot, MaxFail  \* bounds, for TLC only

ASSUME AOAssumption == NMsg \in Nat /\ MaxSlot \in Nat /\ MaxFail \in Nat

VARIABLES
  bundler,   \* whether the scheduler unit has a bundler; chosen once
  msgs,      \* memory of the scheduler unit: msgs[id], or NONE
  io,        \* durable: what it has stored of each message, or NONE
  pc,        \* where the one handler that works on the message is
  got,       \* the handler's slot and _data
  log,       \* external: the HyperBEAM log; its positions are the slots
  arweave,   \* external: the messages the bundler has taken
  sent,      \* external: the results the messenger unit has taken
  effects,   \* durable: the messages that took effect in the engine
  results,   \* durable: __results__
  wslot,     \* durable: __wslot__
  wpc,       \* where write() of the compute unit is
  outcome,   \* its _result
  fails      \* what has failed so far

su == <<msgs, io, pc, got>>
cu == <<effects, results, wslot, wpc, outcome>>
ext == <<log, arweave, sent>>
vars == <<bundler, su, cu, ext, fails>>

-----------------------------------------------------------------------------
Msg == 1..NMsg
New == [reply |-> FALSE, slot |-> NONE, data |-> NONE, ar |-> FALSE, aos |-> FALSE, done |-> FALSE]
Nothing == [slot |-> NONE, data |-> NONE]
Outcome == {"ok", "refused"}
Record == [reply : BOOLEAN, slot : Nat \cup {NONE}, data : Outcome \cup {NONE},
           ar : BOOLEAN, aos : BOOLEAN, done : BOOLEAN]

ASSUME NoneAssumption == NONE \notin Record

Init ==
  /\ bundler \in BOOLEAN
  /\ msgs = [m \in Msg |-> NONE] /\ io = [m \in Msg |-> NONE]
  /\ pc = [m \in Msg |-> "idle"] /\ got = [m \in Msg |-> Nothing]
  /\ log = <<>> /\ arweave = {} /\ sent = {}
  /\ effects = <<>> /\ results = <<>> /\ wslot = 0 /\ wpc = "idle" /\ outcome = NONE
  /\ fails = 0

isDone(rec) == rec # NONE /\ rec.done

(* POST /: a message that is done or being worked on is answered at once. *)
(* (Faulty variant: `ongoing' is not looked at.)                           *)
busy_Never(m) == FALSE
busy(m) == pc[m] # "idle"

submit(m) ==
  /\ ~isDone(msgs[m]) /\ ~busy(m) /\ ~isDone(io[m])
  /\ msgs' = [msgs EXCEPT ![m] = IF @ = NONE THEN New ELSE @]
  /\ LET rec == msgs'[m]
     IN  /\ pc' = [pc EXCEPT ![m] = IF rec.reply THEN "arweave" ELSE "schedule"]
         /\ got' = [got EXCEPT ![m] = [slot |-> rec.slot, data |-> rec.data]]
  /\ UNCHANGED <<bundler, io, cu, ext, fails>>

(* After a restart a message may be done on disk only. *)
duplicate(m) ==
  /\ ~isDone(msgs[m]) /\ ~busy(m) /\ isDone(io[m])
  /\ msgs' = [msgs EXCEPT ![m] = io[m]]
  /\ UNCHANGED <<bundler, io, pc, got, cu, ext, fails>>

(* send104: HyperBEAM schedules the message, and answers with the slot. *)
schedule(m) ==
  /\ pc[m] = "schedule" /\ Len(log) < MaxSlot
  /\ log' = Append(log, m)
  /\ pc' = [pc EXCEPT ![m] = "compute"]
  /\ got' = [got EXCEPT ![m].slot = Len(log) + 1]
  /\ UNCHANGED <<bundler, msgs, io, cu, arweave, sent, fails>>

(* The reply of a message is noted, stored, and answered with 201. *)
replied(m, slot, data) ==
  /\ msgs' = [msgs EXCEPT ![m] = [@ EXCEPT !.reply = TRUE, !.slot = slot, !.data = data]]
  /\ io' = [io EXCEPT ![m] = msgs'[m]]
  /\ pc' = [pc EXCEPT ![m] = "arweave"]
  /\ got' = [got EXCEPT ![m] = [slot |-> slot, data |-> data]]

(* hb.compute: the compute unit has the result, or calls back when it has. *)
compute(m) ==
  /\ pc[m] = "compute"
  /\ got[m].slot \in DOMAIN results
  /\ replied(m, got[m].slot, results[got[m].slot])
  /\ UNCHANGED <<bundler, cu, ext, fails>>

(* HyperBEAM answers the schedule with another status than 200. *)
refuse(m) ==
  /\ pc[m] = "schedule" /\ fails < MaxFail
  /\ replied(m, NONE, NONE)
  /\ fails' = fails + 1
  /\ UNCHANGED <<bundler, cu, ext>>

(* A request throws, the one for the schedule or the one for the result;   *)
(* so does the compute unit's timer.  The client gets 500, and the handler *)
(* goes on without data.                                                   *)
throw(m) ==
  /\ pc[m] \in {"schedule", "compute"} /\ fails < MaxFail
  /\ pc' = [pc EXCEPT ![m] = "arweave"]
  /\ got' = [got EXCEPT ![m] = Nothing]
  /\ fails' = fails + 1
  /\ UNCHANGED <<bundler, msgs, io, cu, ext>>

-----------------------------------------------------------------------------
(* toArweave, if there is a bundler that has not taken the message yet. *)
skipArweave(m) ==
  /\ pc[m] = "arweave"
  /\ ~bundler \/ msgs[m].ar
  /\ pc' = [pc EXCEPT ![m] = "aos"]
  /\ UNCHANGED <<bundler, msgs, io, got, cu, ext, fails>>

toArweave(m) ==
  /\ pc[m] = "arweave" /\ bundler /\ ~msgs[m].ar
  /\ arweave' = arweave \cup {m}
  /\ msgs' = [msgs EXCEPT ![m].ar = TRUE]
  /\ io' = [io EXCEPT ![m] = msgs'[m]]
  /\ pc' = [pc EXCEPT ![m] = "aos"]
  /\ UNCHANGED <<bundler, got, cu, log, sent, fails>>

(* The request to the bundler fails (another status than 200 is stored     *)
(* with the message, an exception is not), or its answer is lost.          *)
failArweave(m) ==
  /\ pc[m] = "arweave" /\ bundler /\ ~msgs[m].ar /\ fails < MaxFail
  /\ arweave' \in {arweave, arweave \cup {m}}
  /\ io' \in {io, [io EXCEPT ![m] = msgs[m]]}
  /\ pc' = [pc EXCEPT ![m] = "aos"]
  /\ fails' = fails + 1
  /\ UNCHANGED <<bundler, msgs, got, cu, log, sent>>

(* toAOS: createData throws if there is no data. *)
skipAOS(m) ==
  /\ pc[m] = "aos"
  /\ msgs[m].aos \/ got[m].data = NONE
  /\ pc' = [pc EXCEPT ![m] = "finish"]
  /\ UNCHANGED <<bundler, msgs, io, got, cu, ext, fails>>

toAOS(m) ==
  /\ pc[m] = "aos" /\ ~msgs[m].aos /\ got[m].data # NONE
  /\ sent' = sent \cup {[msg |-> m, slot |-> got[m].slot, data |-> got[m].data]}
  /\ msgs' = [msgs EXCEPT ![m].aos = TRUE]
  /\ io' = [io EXCEPT ![m] = msgs'[m]]
  /\ pc' = [pc EXCEPT ![m] = "finish"]
  /\ UNCHANGED <<bundler, got, cu, log, arweave, fails>>

failAOS(m) ==
  /\ pc[m] = "aos" /\ ~msgs[m].aos /\ got[m].data # NONE /\ fails < MaxFail
  /\ sent' \in {sent, sent \cup {[msg |-> m, slot |-> got[m].slot, data |-> got[m].data]}}
  /\ io' \in {io, [io EXCEPT ![m] = msgs[m]]}
  /\ pc' = [pc EXCEPT ![m] = "finish"]
  /\ fails' = fails + 1
  /\ UNCHANGED <<bundler, msgs, got, cu, log, arweave>>

(* done is stored when all three are.  (Faulty variant: without ar.) *)
isComplete_NoAr(rec) == rec.aos /\ rec.reply
isComplete(rec) == rec.aos /\ rec.reply /\ rec.ar

finish(m) ==
  /\ pc[m] = "finish"
  /\ IF isComplete(msgs[m])
     THEN /\ msgs' = [msgs EXCEPT ![m].done = TRUE]
          /\ io' = [io EXCEPT ![m] = msgs'[m]]
     ELSE UNCHANGED <<msgs, io>>
  /\ pc' = [pc EXCEPT ![m] = "idle"]
  /\ got' = [got EXCEPT ![m] = Nothing]
  /\ UNCHANGED <<bundler, cu, ext, fails>>

(* The scheduler unit dies. *)
crashSU ==
  /\ fails < MaxFail
  /\ fails' = fails + 1
  /\ msgs' = [m \in Msg |-> NONE]
  /\ pc' = [m \in Msg |-> "idle"] /\ got' = [m \in Msg |-> Nothing]
  /\ UNCHANGED <<bundler, io, cu, ext>>

-----------------------------------------------------------------------------
(* write() of the compute unit: db.write executes the next slot, and the   *)
(* engine makes it durable before anything that is stored after it.        *)
(* (Faulty variant: the nonce is not verified.)                            *)
accepts_AnyNonce(m) == TRUE
accepts(m) == m = Len(effects) + 1

execute ==
  /\ wpc = "idle" /\ wslot < Len(log)
  /\ LET m == log[wslot + 1]
     IN  IF accepts(m) THEN effects' = Append(effects, m) /\ outcome' = "ok"
                       ELSE UNCHANGED effects /\ outcome' = "refused"
  /\ wpc' = "store"
  /\ UNCHANGED <<bundler, su, results, wslot, ext, fails>>

(* io.put(["__results__", slot]), and the callbacks of the slot. *)
store ==
  /\ wpc = "store"
  /\ results' = [s \in DOMAIN results \cup {wslot + 1} |->
                   IF s = wslot + 1 THEN outcome ELSE results[s]]
  /\ wpc' = "mark"
  /\ UNCHANGED <<bundler, su, effects, wslot, outcome, ext, fails>>

(* io.put("__wslot__").  (Faulty variant: a slot is skipped.) *)
nextSlot_Skips == wslot + 2
nextSlot == wslot + 1

mark ==
  /\ wpc = "mark"
  /\ wslot' = nextSlot
  /\ wpc' = "idle" /\ outcome' = NONE
  /\ UNCHANGED <<bundler, su, effects, results, ext, fails>>

(* The compute unit dies, and with it the requests that wait for results. *)
crashCU ==
  /\ fails < MaxFail
  /\ fails' = fails + 1
  /\ wpc' = "idle" /\ outcome' = NONE
  /\ pc' = [m \in Msg |-> IF pc[m] = "compute" THEN "arweave" ELSE pc[m]]
  /\ got' = [m \in Msg |-> IF pc[m] = "compute" THEN Nothing ELSE got[m]]
  /\ UNCHANGED <<bundler, msgs, io, effects, results, wslot, ext>>

Next ==
  \/ \E m \in Msg : submit(m)
  \/ \E m \in Msg : duplicate(m)
  \/ \E m \in Msg : schedule(m)
  \/ \E m \in Msg : compute(m)
  \/ \E m \in Msg : refuse(m)
  \/ \E m \in Msg : throw(m)
  \/ \E m \in Msg : skipArweave(m)
  \/ \E m \in Msg : toArweave(m)
  \/ \E m \in Msg : failArweave(m)
  \/ \E m \in Msg : skipAOS(m)
  \/ \E m \in Msg : toAOS(m)
  \/ \E m \in Msg : failAOS(m)
  \/ \E m \in Msg : finish(m)
  \/ crashSU
  \/ execute \/ store \/ mark
  \/ crashCU

Spec == Init /\ [][Next]_vars

(* The handlers and write() go on, and HyperBEAM and the others answer. *)
Fairness ==
  /\ \A m \in Msg :
       WF_vars(schedule(m) \/ compute(m) \/ skipArweave(m) \/ toArweave(m)
                 \/ skipAOS(m) \/ toAOS(m) \/ finish(m))
  /\ WF_vars(execute \/ store \/ mark)

FairSpec == Spec /\ Fairness

-----------------------------------------------------------------------------
(* cu.js: what took effect is what executing the slots up to __wslot__     *)
(* once gives, or up to the next one while write() is at it, although a    *)
(* crash between the commit, __results__ and __wslot__ makes the compute   *)
(* unit execute a slot again, and the log has duplicates.                  *)
Replay(k) ==
  LET after[n \in 0..k] ==
        IF n = 0 THEN 0
        ELSE IF log[n] = after[n - 1] + 1 THEN log[n] ELSE after[n - 1]
  IN  after[k]

EffectsFollowLog ==
  /\ effects = [k \in 1..Len(effects) |-> k]
  /\ Len(effects) \in
       {Replay(wslot), Replay(IF wslot < Len(log) THEN wslot + 1 ELSE wslot)}
  /\ DOMAIN results \in {1..wslot, 1..(wslot + 1)}

(* su.js: a message is stored as done only when it was scheduled, its      *)
(* result was sent and the bundler has it, so that no retry is turned away *)
(* for good before that; what was sent is the result of a slot that holds  *)
(* the message.                                                            *)
DoneIsComplete ==
  /\ \A m \in Msg : isDone(io[m]) => m \in arweave /\ \E r \in sent : r.msg = m
  /\ \A r \in sent : log[r.slot] = r.msg

(* su.js: `ongoing' and `reply' keep a message that is posted several      *)
(* times, at once or one after the other, from being scheduled or answered *)
(* twice, as long as nothing fails.  A message that took effect is then    *)
(* never reported as refused.                                              *)
OnceWhileNothingFails ==
  fails = 0 =>
    /\ \A i, j \in 1..Len(log) : log[i] = log[j] => i = j
    /\ \A r, q \in sent : r.msg = q.msg => r = q
    /\ \A r \in sent : r.data = "ok" <=> \E k \in 1..Len(effects) : effects[k] = r.msg

(* su.js and cu.js: a message that is posted gets its result sent, if      *)
(* nothing fails.                                                          *)
EventuallySent ==
  \A m \in Msg : pc[m] = "schedule" ~> (fails > 0 \/ \E r \in sent : r.msg = m)
=============================================================================
