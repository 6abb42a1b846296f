------------------------------- MODULE Bundler -------------------------------
(***************************************************************************)
(* The bundler (hb/src/bundler.js) of one process: it uploads the messages *)
(* of the process, and an assignment of a slot for each, to Arweave, and   *)
(* keeps book of the slots that are done.                                  *)
(*                                                                         *)
(* HyperBEAM posts a message with its slot to /tx; every ten seconds       *)
(* processMissing fetches the messages whose slots were skipped.  A        *)
(* message is worked on by several handlers at once when it is posted      *)
(* again while an earlier post is still being served.  An upload may fail, *)
(* its answer may be lost, and the process may die; only `dbs' is read     *)
(* back when it starts again.                                              *)
(*                                                                         *)
(* Slot 0 is the process itself and has no assignment; a slot stands for   *)
(* its message.  Only a message that is an ANS-104 item with a valid       *)
(* signature is uploaded; the others are dropped without a trace.          *)
(***************************************************************************)
EXTENDS Integers

CONSTANTS
  MaxSlot,                       \* slots are 0..MaxSlot
  NONE,
  MaxPost, MaxFail               \* bounds, for TLC only

Entry == [message : BOOLEAN \cup {NONE}, assign : BOOLEAN \cup {NONE}, done : BOOLEAN]

ASSUME SlotAssumption == MaxSlot \in Nat
ASSUME NoneAssumption == NONE \notin BOOLEAN /\ NONE \notin Entry

VARIABLES
  valid,     \* external: the slots whose message can be uploaded
  msgs,      \* memory: [message, assign, done], or NONE
  ongoing,   \* memory: the slots whose message is being worked on
  pc,        \* where each handler is
  min, current, missing, done,   \* durable: dbs[pid]
  arweave,   \* external: what was uploaded
  pretended, \* what upload() reported as uploaded although it was not
  posts, fails

memory == <<msgs, ongoing, pc>>
dbs == <<min, current, missing, done>>
ext == <<valid, arweave, pretended>>
counts == <<posts, fails>>
vars == <<memory, dbs, ext, counts>>

-----------------------------------------------------------------------------
Slot == 0..MaxSlot
Handler == Slot \X {1, 2}   \* two handlers a slot are enough to race
New == [message |-> NONE, assign |-> NONE, done |-> FALSE]

Init ==
  /\ valid \in SUBSET Slot
  /\ msgs = [s \in Slot |-> NONE]
  /\ ongoing = {} /\ pc = [h \in Handler |-> "idle"]
  /\ min = -1 /\ current = -1 /\ missing = {} /\ done = {}
  /\ arweave = {} /\ pretended = {}
  /\ posts = 0 /\ fails = 0

isDone(s) == msgs[s] # NONE /\ msgs[s].done
isUploaded(s) == msgs[s] # NONE /\ msgs[s].message = TRUE

goto(h, where) == pc' = [pc EXCEPT ![h] = where]

(* processOut: the message is taken unless it is done or being worked on.  *)
claim(h) ==
  /\ h[1] \notin ongoing /\ ~isDone(h[1])
  /\ pc[h] = "idle" /\ (h[2] = 2 => pc[<<h[1], 1>>] # "idle")
  /\ ongoing' = ongoing \cup {h[1]}
  /\ goto(h, "begin")
  /\ UNCHANGED msgs

(* POST /tx.  After a post that is skipped `ongoing' is cleared all the    *)
(* same.                                                                   *)
post(h) ==
  /\ posts < MaxPost
  /\ posts' = posts + 1
  /\ \/ claim(h)
     \/ /\ h[1] \in ongoing \/ isDone(h[1])
        /\ ongoing' = ongoing \ {h[1]}
        /\ UNCHANGED <<msgs, pc>>
  /\ UNCHANGED <<dbs, ext, fails>>

(* processMissing fetches a message, and processOut takes it. *)
processMissing(h) ==
  /\ h[1] \in missing /\ claim(h)
  /\ UNCHANGED <<dbs, ext, counts>>

(* processOut goes on, unless the message has been uploaded, or is not an  *)
(* item or not signed as one; initMessage if it is not in memory.          *)
begin(h) ==
  /\ pc[h] = "begin"
  /\ IF isUploaded(h[1]) \/ h[1] \notin valid
     THEN goto(h, "end") /\ UNCHANGED msgs
     ELSE /\ goto(h, "upload")
          /\ msgs' = [msgs EXCEPT ![h[1]] = IF @ = NONE THEN New ELSE @]
  /\ UNCHANGED <<ongoing, dbs, ext, counts>>

upload(h) ==
  /\ pc[h] = "upload"
  /\ goto(h, IF isUploaded(h[1]) THEN "assign" ELSE "uploading")
  /\ UNCHANGED <<msgs, ongoing, dbs, ext, counts>>

-----------------------------------------------------------------------------
(* upload() of bundler-utils.js returns.  One time in five it has not even *)
(* tried.                                                                  *)
sent(what) == arweave' = arweave \cup {what} /\ UNCHANGED <<valid, pretended, fails>>

pretends(what) ==
  /\ fails < MaxFail /\ fails' = fails + 1
  /\ pretended' = pretended \cup {what}
  /\ UNCHANGED <<valid, arweave>>

fail(what) ==
  /\ fails < MaxFail /\ fails' = fails + 1
  /\ arweave' \in {arweave, arweave \cup {what}}
  /\ UNCHANGED <<valid, pretended>>

uploadMsg(h) ==
  /\ pc[h] = "uploading"
  /\ \E ok \in BOOLEAN :
       /\ IF ok THEN sent(<<"message", h[1]>>) \/ pretends(<<"message", h[1]>>)
                ELSE fail(<<"message", h[1]>>)
       /\ msgs' = [msgs EXCEPT ![h[1]] = [@ EXCEPT !.message = ok]]
  /\ goto(h, "assign")
  /\ UNCHANGED <<ongoing, dbs, posts>>

needsAssign(s) == s # 0 /\ msgs[s].message = TRUE /\ msgs[s].assign # TRUE

assign(h) ==
  /\ pc[h] = "assign" /\ needsAssign(h[1])
  /\ goto(h, "assigning")
  /\ UNCHANGED <<msgs, ongoing, dbs, ext, counts>>

(* The message is done when it and its assignment are.  (Faulty variant:   *)
(* the assignment is not asked for.)                                       *)
isComplete_NoAssign(s, rec) == ~rec.done /\ rec.message = TRUE
isComplete(s, rec) ==
  ~rec.done /\ rec.message = TRUE /\ (s = 0 \/ rec.assign = TRUE)

conclude(h, rec) ==
  /\ msgs' = [msgs EXCEPT ![h[1]] =
                IF isComplete(h[1], rec) THEN [rec EXCEPT !.done = TRUE] ELSE rec]
  /\ goto(h, IF isComplete(h[1], rec) THEN "record" ELSE "end")

skipAssign(h) ==
  /\ pc[h] = "assign" /\ ~needsAssign(h[1])
  /\ conclude(h, msgs[h[1]])
  /\ UNCHANGED <<ongoing, dbs, ext, counts>>

uploadAssign(h) ==
  /\ pc[h] = "assigning"
  /\ sent(<<"assign", h[1]>>) \/ pretends(<<"assign", h[1]>>)
  /\ msgs' = [msgs EXCEPT ![h[1]] = [@ EXCEPT !.assign = TRUE]]
  /\ goto(h, "check")
  /\ UNCHANGED <<ongoing, dbs, posts>>

failAssign(h) ==
  /\ pc[h] = "assigning"
  /\ fail(<<"assign", h[1]>>)
  /\ conclude(h, [msgs[h[1]] EXCEPT !.assign = FALSE])
  /\ UNCHANGED <<ongoing, dbs, posts>>

check(h) ==
  /\ pc[h] = "check"
  /\ conclude(h, msgs[h[1]])
  /\ UNCHANGED <<ongoing, dbs, ext, counts>>

-----------------------------------------------------------------------------
(* The slots that are skipped by slot s are noted as missing; a slot that  *)
(* comes late is taken off the list.                                       *)
skips(s) == (current + 1)..(s - 1)

noted(s) ==
  IF current + 1 < s THEN missing \cup (skips(s) \ done) ELSE missing \ {s}

(* delDone: `min' moves on over the slots that are done.  (Faulty variant: *)
(* it moves to the last slot that is done.)                                *)
delDone_Any(m, cur, dn) == m \in min..cur /\ (m = min \/ m \in dn)
delDone(m, cur, dn) ==
  /\ m \in min..cur
  /\ \A i \in (min + 1)..m : i \in dn /\ i < cur
  /\ m + 1 < cur => m + 1 \notin dn

record(h) ==
  /\ pc[h] = "record"
  /\ LET s == h[1]
         cur == IF s > current THEN s ELSE current
         dn == IF min < s THEN done \cup {s} ELSE done
     IN  /\ missing' = noted(s)
         /\ current' = cur
         /\ \E m \in min..cur :
              /\ delDone(m, cur, dn)
              /\ min' = m
              /\ done' = dn \ ((min + 1)..m)
  /\ goto(h, "end")
  /\ UNCHANGED <<msgs, ongoing, ext, counts>>

(* processOut ends.  (Faulty variant: the message stays marked when it did *)
(* not get done.)                                                          *)
released_Done(s) == IF isDone(s) THEN ongoing \ {s} ELSE ongoing
released(s) == ongoing \ {s}

end(h) ==
  /\ pc[h] = "end"
  /\ ongoing' = released(h[1])
  /\ goto(h, "idle")
  /\ UNCHANGED <<msgs, dbs, ext, counts>>

(* The process dies and starts again. *)
crash ==
  /\ fails < MaxFail
  /\ fails' = fails + 1
  /\ msgs' = [s \in Slot |-> NONE]
  /\ ongoing' = {} /\ pc' = [h \in Handler |-> "idle"]
  /\ UNCHANGED <<dbs, ext, posts>>

serve(h) ==
  \/ begin(h) \/ upload(h) \/ uploadMsg(h)
  \/ assign(h) \/ skipAssign(h) \/ uploadAssign(h) \/ failAssign(h) \/ check(h)
  \/ record(h) \/ end(h)

Next ==
  \/ \E h \in Handler : post(h) \/ processMissing(h) \/ serve(h)
  \/ crash

Spec == Init /\ [][Next]_vars

(* The handlers go on, and so does the timer of processMissing. *)
Fairness ==
  /\ \A h \in Handler : WF_vars(serve(h))
  /\ \A s \in Slot : WF_vars(\E i \in {1, 2} : processMissing(<<s, i>>))

FairSpec == Spec /\ Fairness

-----------------------------------------------------------------------------
(* bundler.js: dbs[pid] accounts for every slot up to `current': it is at  *)
(* most `min', or in `done', or in `missing', and never in two of them,    *)
(* in whatever order the slots come, again and after a restart.            *)
Accounted ==
  \/ /\ current = -1 /\ min = -1 /\ done = {} /\ missing = {}
  \/ /\ min >= -1 /\ min < current /\ current \in done
     /\ done \subseteq (min + 1)..current
     /\ missing = ((min + 1)..current) \ done

Recorded == {s \in Slot : s <= min \/ s \in done}

(* bundler.js: a slot counts as done only when its message and its         *)
(* assignment are on Arweave, whatever handlers of the message overtake    *)
(* one another; except what upload() only pretended to upload.             *)
RecordedIsUploaded ==
  \A s \in Recorded :
    /\ <<"message", s>> \in arweave \cup pretended
    /\ s # 0 => <<"assign", s>> \in arweave \cup pretended

(* bundler.js: a slot that is missing is done eventually, if its message   *)
(* can be uploaded at all and unless the upload of its assignment fails:   *)
(* then the message counts as uploaded and is not worked on again.         *)
MissingIsRetried ==
  \A s \in Slot :
    s \in missing \cap valid ~> (s \notin missing \/ (msgs[s] # NONE /\ msgs[s].assign = FALSE))
=============================================================================
