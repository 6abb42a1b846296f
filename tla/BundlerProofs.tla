---------------------------- MODULE BundlerProofs ----------------------------
(***************************************************************************)
(* The book of slots that the bundler keeps is exact, and a slot that is   *)
(* in it as done was uploaded, for every number of slots.                  *)
(***************************************************************************)
EXTENDS Bundler, TLAPS

Where == {"idle", "begin", "upload", "uploading", "assign", "assigning",
          "check", "record", "end"}

TypeOK ==
  /\ msgs \in [Slot -> Entry \cup {NONE}]
  /\ pc \in [Handler -> Where]
  /\ min \in Int /\ current \in Int

Working == {"upload", "uploading", "assign", "assigning", "check"}

(* A handler that works on a message finds it in memory. *)
Loaded == \A h \in Handler : pc[h] \in Working => msgs[h[1]] \in Entry

Uploaded == arweave \cup pretended

(* What memory says of a message is so. *)
MemoryIsTrue ==
  \A s \in Slot : msgs[s] \in Entry =>
    /\ msgs[s].message = TRUE => <<"message", s>> \in Uploaded
    /\ msgs[s].assign = TRUE => <<"assign", s>> \in Uploaded

IsUp(s) ==
  /\ <<"message", s>> \in Uploaded
  /\ s # 0 => <<"assign", s>> \in Uploaded

(* A handler that is about to record a slot has its uploads behind it. *)
Ready == \A h \in Handler : pc[h] = "record" => IsUp(h[1])

MemInv == TypeOK /\ Loaded /\ MemoryIsTrue /\ Ready

-----------------------------------------------------------------------------
(* The bookkeeping of a slot (bundler.js:225-246) keeps the book exact. *)
LEMMA RecordKeepsBook ==
  ASSUME Accounted, NEW s \in Slot, NEW m,
         NEW cur, cur = IF s > current THEN s ELSE current,
         NEW dn, dn = IF min < s THEN done \cup {s} ELSE done,
         min \in Int, current \in Int,
         missing' = noted(s), current' = cur,
         m \in min..cur, delDone(m, cur, dn), min' = m,
         done' = dn \ ((min + 1)..m)
  PROVE  Accounted'
<1>0. s \in Int /\ s >= 0
  BY SlotAssumption DEF Slot
<1>1. cur \in Int /\ m \in Int /\ min <= m /\ m <= cur /\ cur >= 0
  BY <1>0 DEF Accounted
<1>2. min < cur /\ cur \in dn
  BY <1>0 DEF Accounted
<1>3. dn \subseteq (min + 1)..cur
  BY <1>0 DEF Accounted
<1>4. noted(s) = ((min + 1)..cur) \ dn
  <2>1. CASE current + 1 < s
    <3>1. skips(s) = (current + 1)..(s - 1) /\ cur = s /\ dn = done \cup {s}
      BY <2>1, <1>0 DEF skips, Accounted
    <3>2. skips(s) \ done = skips(s)
      BY <3>1, <1>0 DEF Accounted
    <3>3. noted(s) = missing \cup ((current + 1)..(s - 1))
      BY <2>1, <3>1, <3>2 DEF noted
    <3>4. missing = ((min + 1)..current) \ done
      BY <1>0 DEF Accounted
    <3>5. (min + 1)..s = ((min + 1)..current) \cup ((current + 1)..(s - 1)) \cup {s}
      BY <2>1, <1>0 DEF Accounted
    <3>6. s \notin (min + 1)..current /\ s \notin (current + 1)..(s - 1)
      BY <2>1, <1>0
    <3>7. \A i \in (current + 1)..(s - 1) : i \notin done
      BY <2>1, <1>0 DEF Accounted
    <3> QED BY <3>1, <3>3, <3>4, <3>5, <3>6, <3>7
  <2>2. CASE s = current + 1
    <3>1. cur = s /\ dn = done \cup {s}
      BY <2>2, <1>0 DEF Accounted
    <3>2. noted(s) = missing \ {s}
      BY <2>2, <1>0 DEF noted
    <3>3. missing = ((min + 1)..current) \ done
      BY <1>0 DEF Accounted
    <3>4. (min + 1)..s = ((min + 1)..current) \cup {s} /\ s \notin (min + 1)..current
      BY <2>2, <1>0 DEF Accounted
    <3> QED BY <3>1, <3>2, <3>3, <3>4
  <2>3. CASE s <= current
    <3>1. cur = current /\ noted(s) = missing \ {s}
      BY <2>3, <1>0 DEF noted
    <3>2. missing = ((min + 1)..current) \ done
      BY <2>3, <1>0 DEF Accounted
    <3>3. CASE min < s
      BY <3>1, <3>2, <3>3
    <3>4. CASE ~(min < s)
      <4>1. s \notin (min + 1)..current
        BY <3>4, <1>0
      <4> QED BY <3>1, <3>2, <3>4, <4>1
    <3> QED BY <3>3, <3>4
  <2> QED BY <2>1, <2>2, <2>3, <1>0
<1>5. \A i \in (min + 1)..m : i \in dn /\ i < cur
  BY DEF delDone
<1>6. m < cur
  <2>1. CASE m = min
    BY <2>1, <1>2
  <2>2. CASE m # min
    <3>1. m \in (min + 1)..m
      BY <2>2, <1>1
    <3> QED BY <3>1, <1>5
  <2> QED BY <2>1, <2>2
<1>7. cur \in done'
  BY <1>2, <1>6, <1>1
<1>8. done' \subseteq (m + 1)..cur
  BY <1>3, <1>1
<1>9. missing' = ((m + 1)..cur) \ done'
  <2>1. (min + 1)..cur = ((min + 1)..m) \cup ((m + 1)..cur)
    BY <1>1, <1>6
  <2>2. \A i \in (m + 1)..cur : i \notin (min + 1)..m
    BY <1>1
  <2> QED BY <2>1, <2>2, <1>4, <1>5
<1>10. m >= -1
  BY <1>1 DEF Accounted
<1> QED BY <1>6, <1>7, <1>8, <1>9, <1>10 DEF Accounted

(* Init establishes what the proofs need. *)
LEMMA InitHolds ==
  ASSUME Init
  PROVE  MemInv /\ Accounted
<1>1. TypeOK
  BY DEF Init, TypeOK, Where
<1>2. Loaded /\ MemoryIsTrue /\ Ready
  BY NoneAssumption DEF Init, Loaded, MemoryIsTrue, Ready, Working
<1>3. Accounted
  BY DEF Init, Accounted
<1> QED
  BY <1>1, <1>2, <1>3 DEF MemInv

(* An entry whose fields are set stays an entry. *)
LEMMA EntryIsClosed ==
  ASSUME NEW rec \in Entry, NEW b \in BOOLEAN
  PROVE  /\ [rec EXCEPT !.message = b] \in Entry
         /\ [rec EXCEPT !.assign = b] \in Entry
         /\ [rec EXCEPT !.done = b] \in Entry
BY DEF Entry

(* conclude marks an entry as done, and nothing else of it changes; the    *)
(* handler goes on to record the slot only when both uploads are reported. *)
LEMMA ConcludeKeepsMemory ==
  ASSUME MemInv, NEW h \in Handler, NEW rec \in Entry, conclude(h, rec),
         rec.message = TRUE => <<"message", h[1]>> \in Uploaded',
         rec.assign = TRUE => <<"assign", h[1]>> \in Uploaded',
         Uploaded \subseteq Uploaded', min' \in Int, current' \in Int
  PROVE  MemInv'
<1> DEFINE fresh == IF isComplete(h[1], rec) THEN [rec EXCEPT !.done = TRUE] ELSE rec
           where == IF isComplete(h[1], rec) THEN "record" ELSE "end"
<1>0. h[1] \in Slot
  BY DEF Handler
<1>1. fresh \in Entry /\ fresh.message = rec.message /\ fresh.assign = rec.assign
  BY EntryIsClosed DEF Entry
<1>2. msgs' = [msgs EXCEPT ![h[1]] = fresh] /\ pc' = [pc EXCEPT ![h] = where]
  BY DEF conclude, goto
<1>3. where \in Where /\ where \notin Working
  BY DEF Where, Working
<1> HIDE DEF fresh, where
<1>4. TypeOK'
  BY <1>0, <1>1, <1>2, <1>3 DEF MemInv, TypeOK
<1>5. \A g \in Handler : g # h => pc'[g] = pc[g]
  BY <1>2 DEF MemInv, TypeOK
<1>6. pc'[h] = where /\ msgs'[h[1]] = fresh
  BY <1>0, <1>2 DEF MemInv, TypeOK
<1>7. \A t \in Slot : t # h[1] => msgs'[t] = msgs[t]
  BY <1>2 DEF MemInv, TypeOK
<1>8. Loaded'
  <2> SUFFICES ASSUME NEW g \in Handler, pc'[g] \in Working
               PROVE  msgs'[g[1]] \in Entry
    BY DEF Loaded
  <2>1. g # h /\ g[1] \in Slot
    BY <1>3, <1>6 DEF Handler
  <2>2. msgs[g[1]] \in Entry
    BY <2>1, <1>5 DEF MemInv, Loaded
  <2> QED
    BY <2>1, <2>2, <1>1, <1>6, <1>7
<1>9. MemoryIsTrue'
  <2> SUFFICES ASSUME NEW t \in Slot, msgs'[t] \in Entry
               PROVE  /\ msgs'[t].message = TRUE => <<"message", t>> \in Uploaded'
                      /\ msgs'[t].assign = TRUE => <<"assign", t>> \in Uploaded'
    BY DEF MemoryIsTrue
  <2>1. CASE t = h[1]
    BY <2>1, <1>1, <1>6
  <2>2. CASE t # h[1]
    BY <2>2, <1>7 DEF MemInv, MemoryIsTrue
  <2> QED
    BY <2>1, <2>2
<1>10. Ready'
  <2> SUFFICES ASSUME NEW g \in Handler, pc'[g] = "record"
               PROVE  IsUp(g[1])'
    BY DEF Ready
  <2>1. CASE g = h
    <3>1. isComplete(h[1], rec)
      BY <2>1, <1>6 DEF where
    <3> QED
      BY <2>1, <3>1 DEF isComplete, IsUp
  <2>2. CASE g # h
    BY <2>2, <1>5 DEF MemInv, Ready, IsUp
  <2> QED
    BY <2>1, <2>2
<1> QED
  BY <1>4, <1>8, <1>9, <1>10 DEF MemInv

(* A handler moves on, and sets at most the entry of its message.          *)
LEMMA MoveKeepsMemory ==
  ASSUME MemInv, NEW h \in Handler, NEW where \in Where, where # "record",
         goto(h, where), NEW fresh,
         \/ msgs' = msgs /\ fresh = msgs[h[1]]
         \/ msgs' = [msgs EXCEPT ![h[1]] = fresh] /\ fresh \in Entry,
         where \in Working => fresh \in Entry,
         fresh \in Entry =>
           /\ fresh.message = TRUE => <<"message", h[1]>> \in Uploaded'
           /\ fresh.assign = TRUE => <<"assign", h[1]>> \in Uploaded',
         Uploaded \subseteq Uploaded', min' \in Int, current' \in Int
  PROVE  MemInv'
<1>0. h[1] \in Slot
  BY DEF Handler
<1>1. msgs' \in [Slot -> Entry \cup {NONE}] /\ msgs'[h[1]] = fresh
  BY <1>0 DEF MemInv, TypeOK
<1>2. \A t \in Slot : t # h[1] => msgs'[t] = msgs[t]
  BY DEF MemInv, TypeOK
<1>3. pc' \in [Handler -> Where] /\ pc'[h] = where
  BY DEF MemInv, TypeOK, goto
<1>4. \A g \in Handler : g # h => pc'[g] = pc[g]
  BY DEF MemInv, TypeOK, goto
<1>5. TypeOK'
  BY <1>1, <1>3 DEF TypeOK
<1>6. Loaded'
  <2> SUFFICES ASSUME NEW g \in Handler, pc'[g] \in Working
               PROVE  msgs'[g[1]] \in Entry
    BY DEF Loaded
  <2>1. CASE g = h
    BY <2>1, <1>1, <1>3
  <2>2. CASE g # h
    <3>1. msgs[g[1]] \in Entry /\ g[1] \in Slot
      BY <2>2, <1>4 DEF MemInv, Loaded, Handler
    <3>2. CASE g[1] = h[1]
      BY <3>1, <3>2, <1>1
    <3> QED
      BY <3>1, <3>2, <1>2
  <2> QED
    BY <2>1, <2>2
<1>7. MemoryIsTrue'
  <2> SUFFICES ASSUME NEW t \in Slot, msgs'[t] \in Entry
               PROVE  /\ msgs'[t].message = TRUE => <<"message", t>> \in Uploaded'
                      /\ msgs'[t].assign = TRUE => <<"assign", t>> \in Uploaded'
    BY DEF MemoryIsTrue
  <2>1. CASE t = h[1]
    BY <2>1, <1>1
  <2>2. CASE t # h[1]
    BY <2>2, <1>2 DEF MemInv, MemoryIsTrue
  <2> QED
    BY <2>1, <2>2
<1>8. Ready'
  BY <1>3, <1>4 DEF MemInv, Ready, IsUp
<1> QED
  BY <1>5, <1>6, <1>7, <1>8 DEF MemInv

(* processOut takes a message: only the handler moves. *)
LEMMA ClaimKeepsMemory ==
  ASSUME MemInv, NEW h \in Handler, claim(h), UNCHANGED <<dbs, ext>>
  PROVE  MemInv'
<1>1. goto(h, "begin") /\ msgs' = msgs /\ h[1] \in Slot
  BY DEF claim, Handler
<1>2. Uploaded' = Uploaded /\ min' = min /\ current' = current
  BY DEF Uploaded, ext, dbs
<1>3. "begin" \in Where /\ "begin" \notin Working
  BY DEF Where, Working
<1> QED
  BY <1>1, <1>2, <1>3, MoveKeepsMemory DEF MemInv, MemoryIsTrue, TypeOK

(* What upload() returns: the book of uploads grows, and with a success    *)
(* the upload is in it.                                                    *)
LEMMA UploadsGrow ==
  /\ \A what : sent(what) \/ pretends(what) => what \in Uploaded' /\ Uploaded \subseteq Uploaded'
  /\ \A what : fail(what) => Uploaded \subseteq Uploaded'
BY DEF sent, pretends, fail, Uploaded

LEMMA BeginKeepsMemory ==
  ASSUME MemInv, NEW h \in Handler, begin(h)
  PROVE  MemInv'
<1>0. h[1] \in Slot /\ New \in Entry /\ New.message = NONE /\ New.assign = NONE
  BY DEF Handler, New, Entry
<1>1. Uploaded' = Uploaded /\ min' = min /\ current' = current
  BY DEF begin, Uploaded, ext, dbs
<1>2. "end" \in Where /\ "upload" \in Where /\ "end" \notin Working
  BY DEF Where, Working
<1>3. CASE isUploaded(h[1]) \/ h[1] \notin valid
  <2>1. goto(h, "end") /\ msgs' = msgs
    BY <1>3 DEF begin
  <2> QED
    BY <2>1, <1>0, <1>1, <1>2, MoveKeepsMemory DEF MemInv, MemoryIsTrue, TypeOK
<1>4. CASE ~isUploaded(h[1]) /\ h[1] \in valid
  <2> DEFINE fresh == IF msgs[h[1]] = NONE THEN New ELSE msgs[h[1]]
  <2>1. goto(h, "upload") /\ msgs' = [msgs EXCEPT ![h[1]] = fresh]
    BY <1>4 DEF begin
  <2>2. fresh \in Entry
    BY <1>0 DEF MemInv, TypeOK
  <2>3. /\ fresh.message = TRUE => <<"message", h[1]>> \in Uploaded'
        /\ fresh.assign = TRUE => <<"assign", h[1]>> \in Uploaded'
    <3>1. CASE msgs[h[1]] = NONE
      BY <3>1, <1>0, NoneAssumption
    <3>2. CASE msgs[h[1]] # NONE
      BY <3>2, <1>0, <1>1, <2>2 DEF MemInv, MemoryIsTrue
    <3> QED
      BY <3>1, <3>2
  <2> HIDE DEF fresh
  <2> QED
    BY <2>1, <2>2, <2>3, <1>1, <1>2, MoveKeepsMemory DEF MemInv, TypeOK
<1> QED
  BY <1>3, <1>4

(* upload and assign decide whether there is something to upload. *)
LEMMA DecideKeepsMemory ==
  ASSUME MemInv, NEW h \in Handler, upload(h) \/ assign(h)
  PROVE  MemInv'
<1>0. h[1] \in Slot /\ msgs[h[1]] \in Entry
  BY DEF Handler, upload, assign, MemInv, Loaded, Working
<1>1. Uploaded' = Uploaded /\ min' = min /\ current' = current /\ msgs' = msgs
  BY DEF upload, assign, Uploaded, ext, dbs
<1>2. \E where \in {"assign", "uploading", "assigning"} : goto(h, where)
  BY DEF upload, assign
<1>3. {"assign", "uploading", "assigning"} \subseteq Where \ {"record"}
  BY DEF Where
<1> QED
  BY <1>0, <1>1, <1>2, <1>3, MoveKeepsMemory DEF MemInv, MemoryIsTrue, TypeOK

LEMMA UploadMsgKeepsMemory ==
  ASSUME MemInv, NEW h \in Handler, uploadMsg(h)
  PROVE  MemInv'
<1>0. h[1] \in Slot /\ msgs[h[1]] \in Entry
  BY DEF Handler, uploadMsg, MemInv, Loaded, Working
<1>1. min' = min /\ current' = current /\ goto(h, "assign")
  BY DEF uploadMsg, dbs
<1>2. PICK ok \in BOOLEAN :
        /\ IF ok THEN sent(<<"message", h[1]>>) \/ pretends(<<"message", h[1]>>)
                 ELSE fail(<<"message", h[1]>>)
        /\ msgs' = [msgs EXCEPT ![h[1]] = [@ EXCEPT !.message = ok]]
  BY DEF uploadMsg
<1> DEFINE fresh == [msgs[h[1]] EXCEPT !.message = ok]
<1>3. msgs' = [msgs EXCEPT ![h[1]] = fresh]
  BY <1>2
<1>4. fresh \in Entry /\ fresh.message = ok /\ fresh.assign = msgs[h[1]].assign
  BY <1>0, EntryIsClosed DEF Entry
<1>5. Uploaded \subseteq Uploaded' /\ (ok => <<"message", h[1]>> \in Uploaded')
  BY <1>2, UploadsGrow
<1>6. /\ fresh.message = TRUE => <<"message", h[1]>> \in Uploaded'
      /\ fresh.assign = TRUE => <<"assign", h[1]>> \in Uploaded'
  BY <1>0, <1>4, <1>5 DEF MemInv, MemoryIsTrue
<1> HIDE DEF fresh
<1>7. "assign" \in Where
  BY DEF Where
<1> QED
  BY <1>1, <1>3, <1>4, <1>5, <1>6, <1>7, MoveKeepsMemory DEF MemInv, TypeOK

LEMMA UploadAssignKeepsMemory ==
  ASSUME MemInv, NEW h \in Handler, uploadAssign(h)
  PROVE  MemInv'
<1>0. h[1] \in Slot /\ msgs[h[1]] \in Entry
  BY DEF Handler, uploadAssign, MemInv, Loaded, Working
<1>1. min' = min /\ current' = current /\ goto(h, "check")
  BY DEF uploadAssign, dbs
<1> DEFINE fresh == [msgs[h[1]] EXCEPT !.assign = TRUE]
<1>2. msgs' = [msgs EXCEPT ![h[1]] = fresh]
  BY DEF uploadAssign
<1>3. fresh \in Entry /\ fresh.message = msgs[h[1]].message
  BY <1>0, EntryIsClosed DEF Entry
<1>4. Uploaded \subseteq Uploaded' /\ <<"assign", h[1]>> \in Uploaded'
  BY UploadsGrow DEF uploadAssign
<1>5. fresh.message = TRUE => <<"message", h[1]>> \in Uploaded'
  BY <1>0, <1>3, <1>4 DEF MemInv, MemoryIsTrue
<1> HIDE DEF fresh
<1>6. "check" \in Where
  BY DEF Where
<1> QED
  BY <1>1, <1>2, <1>3, <1>4, <1>5, <1>6, MoveKeepsMemory DEF MemInv, TypeOK

(* The three ways a handler comes to its conclusion. *)
LEMMA ConclusionKeepsMemory ==
  ASSUME MemInv, NEW h \in Handler, skipAssign(h) \/ failAssign(h) \/ check(h)
  PROVE  MemInv'
<1>0. h[1] \in Slot /\ msgs[h[1]] \in Entry
  BY DEF Handler, skipAssign, failAssign, check, MemInv, Loaded, Working
<1>1. min' = min /\ current' = current
  BY DEF skipAssign, failAssign, check, dbs
<1>2. Uploaded \subseteq Uploaded'
  BY UploadsGrow DEF skipAssign, failAssign, check, ext, Uploaded
<1>3. CASE failAssign(h)
  <2> DEFINE rec == [msgs[h[1]] EXCEPT !.assign = FALSE]
  <2>1. conclude(h, rec)
    BY <1>3 DEF failAssign
  <2>2. rec \in Entry /\ rec.message = msgs[h[1]].message /\ rec.assign = FALSE
    BY <1>0, EntryIsClosed DEF Entry
  <2>3. rec.message = TRUE => <<"message", h[1]>> \in Uploaded'
    BY <1>0, <1>2, <2>2 DEF MemInv, MemoryIsTrue
  <2> HIDE DEF rec
  <2> QED
    BY <2>1, <2>2, <2>3, <1>1, <1>2, ConcludeKeepsMemory DEF MemInv, TypeOK
<1>4. CASE ~failAssign(h)
  <2>1. conclude(h, msgs[h[1]])
    BY <1>4 DEF skipAssign, check
  <2> QED
    BY <2>1, <1>0, <1>1, <1>2, ConcludeKeepsMemory DEF MemInv, MemoryIsTrue, TypeOK
<1> QED
  BY <1>3, <1>4

(* What record(h) does to the book, in the form RecordKeepsBook wants it. *)
LEMMA RecordStep ==
  ASSUME TypeOK, NEW h \in Handler, record(h)
  PROVE  \E cur, dn, m :
           /\ cur = IF h[1] > current THEN h[1] ELSE current
           /\ dn = IF min < h[1] THEN done \cup {h[1]} ELSE done
           /\ missing' = noted(h[1]) /\ current' = cur
           /\ m \in min..cur /\ delDone(m, cur, dn) /\ min' = m
           /\ done' = dn \ ((min + 1)..m)
BY DEF record

LEMMA RecordKeepsMemory ==
  ASSUME MemInv, NEW h \in Handler, record(h)
  PROVE  MemInv'
<1>1. goto(h, "end") /\ msgs' = msgs /\ h[1] \in Slot
  BY DEF record, Handler
<1>2. Uploaded' = Uploaded
  BY DEF record, Uploaded, ext
<1>3. min' \in Int /\ current' \in Int
  <2>1. h[1] \in Int
    BY <1>1, SlotAssumption DEF Slot
  <2> QED
    BY <2>1, RecordStep DEF MemInv, TypeOK
<1>4. "end" \in Where /\ "end" \notin Working
  BY DEF Where, Working
<1> QED
  BY <1>1, <1>2, <1>3, <1>4, MoveKeepsMemory DEF MemInv, MemoryIsTrue

LEMMA EndKeepsMemory ==
  ASSUME MemInv, NEW h \in Handler, end(h)
  PROVE  MemInv'
<1>1. goto(h, "idle") /\ msgs' = msgs /\ h[1] \in Slot
  BY DEF end, Handler
<1>2. Uploaded' = Uploaded /\ min' = min /\ current' = current
  BY DEF end, Uploaded, ext, dbs
<1>3. "idle" \in Where /\ "idle" \notin Working
  BY DEF Where, Working
<1> QED
  BY <1>1, <1>2, <1>3, MoveKeepsMemory DEF MemInv, MemoryIsTrue, TypeOK

LEMMA StutterKeepsMemory ==
  ASSUME MemInv, UNCHANGED <<msgs, pc, dbs, ext>>
  PROVE  MemInv'
BY DEF MemInv, TypeOK, Loaded, MemoryIsTrue, Ready, IsUp, Uploaded, dbs, ext

(* What memory says of the uploads stays true, whatever handlers of one    *)
(* message overtake one another (bundler.js:193-291).                      *)
LEMMA NextKeepsMemory ==
  ASSUME MemInv, [Next]_vars
  PROVE  MemInv'
<1>1. ASSUME NEW h \in Handler, post(h)
      PROVE  MemInv'
  <2>1. UNCHANGED <<dbs, ext>>
    BY <1>1 DEF post
  <2>2. CASE claim(h)
    BY <2>1, <2>2, ClaimKeepsMemory
  <2>3. CASE UNCHANGED <<msgs, pc>>
    BY <2>1, <2>3, StutterKeepsMemory
  <2> QED
    BY <1>1, <2>2, <2>3 DEF post
<1>2. ASSUME NEW h \in Handler, processMissing(h)
      PROVE  MemInv'
  BY <1>2, ClaimKeepsMemory DEF processMissing
<1>3. ASSUME NEW h \in Handler, serve(h)
      PROVE  MemInv'
  BY <1>3, BeginKeepsMemory, DecideKeepsMemory, UploadMsgKeepsMemory,
     UploadAssignKeepsMemory, ConclusionKeepsMemory, RecordKeepsMemory,
     EndKeepsMemory DEF serve
<1>4. CASE crash
  <2>1. /\ msgs' = [s \in Slot |-> NONE] /\ pc' = [h \in Handler |-> "idle"]
        /\ Uploaded' = Uploaded /\ min' = min /\ current' = current
    BY <1>4 DEF crash, Uploaded, dbs, ext
  <2> QED
    BY <2>1, NoneAssumption
    DEF MemInv, TypeOK, Loaded, MemoryIsTrue, Ready, Working, Where
<1>5. CASE UNCHANGED vars
  BY <1>5, StutterKeepsMemory DEF vars, memory
<1> QED
  BY <1>1, <1>2, <1>3, <1>4, <1>5 DEF Next

-----------------------------------------------------------------------------
(* Only record changes the book. *)
LEMMA BookChanges ==
  ASSUME [Next]_vars, ~(\E h \in Handler : record(h))
  PROVE  UNCHANGED dbs
BY DEF Next, vars, post, processMissing, serve, begin, upload, uploadMsg, assign,
       skipAssign, uploadAssign, failAssign, check, end, crash

LEMMA UploadedGrows ==
  ASSUME [Next]_vars
  PROVE  Uploaded \subseteq Uploaded'
<1>1. ASSUME NEW h \in Handler, uploadMsg(h)
      PROVE  Uploaded \subseteq Uploaded'
  BY <1>1, UploadsGrow DEF uploadMsg
<1>2. ASSUME NEW h \in Handler, uploadAssign(h) \/ failAssign(h)
      PROVE  Uploaded \subseteq Uploaded'
  BY <1>2, UploadsGrow DEF uploadAssign, failAssign
<1>3. CASE UNCHANGED ext
  BY <1>3 DEF ext, Uploaded
<1> QED
  BY <1>1, <1>2, <1>3
  DEF Next, vars, post, processMissing, serve, begin, upload, assign,
      skipAssign, check, record, end, crash

(* bundler.js:225-246: in every reachable state the book accounts for      *)
(* every slot up to `current' exactly once.                                *)
THEOREM BookIsExact == Spec => []Accounted
<1>1. Init => MemInv /\ Accounted
  BY InitHolds
<1>2. MemInv /\ Accounted /\ [Next]_vars => (MemInv /\ Accounted)'
  <2> SUFFICES ASSUME MemInv, Accounted, [Next]_vars
               PROVE  MemInv' /\ Accounted'
    OBVIOUS
  <2>1. MemInv'
    BY NextKeepsMemory
  <2>2. ASSUME NEW h \in Handler, record(h)
        PROVE  Accounted'
    <3>1. h[1] \in Slot /\ TypeOK
      BY DEF Handler, MemInv
    <3>2. PICK cur, dn, m :
            /\ cur = IF h[1] > current THEN h[1] ELSE current
            /\ dn = IF min < h[1] THEN done \cup {h[1]} ELSE done
            /\ missing' = noted(h[1]) /\ current' = cur
            /\ m \in min..cur /\ delDone(m, cur, dn) /\ min' = m
            /\ done' = dn \ ((min + 1)..m)
      BY <2>2, <3>1, RecordStep
    <3> QED
      BY <3>1, <3>2, RecordKeepsBook DEF TypeOK
  <2>3. CASE UNCHANGED dbs
    BY <2>1, <2>3 DEF dbs, Accounted
  <2> QED
    BY <2>1, <2>2, <2>3, BookChanges
<1> QED
  BY <1>1, <1>2, PTL DEF Spec

(* bundler.js:216-246: a slot is recorded as done only when its message    *)
(* and its assignment were reported as uploaded.                           *)
THEOREM RecordedWasUploaded == Spec => []RecordedIsUploaded
<1> DEFINE Inv == MemInv /\ RecordedIsUploaded
<1>1. Init => Inv
  <2>1. Init => Recorded = {}
    BY SlotAssumption DEF Init, Recorded, Slot
  <2> QED
    BY <2>1, InitHolds DEF RecordedIsUploaded
<1>2. Inv /\ [Next]_vars => Inv'
  <2> SUFFICES ASSUME MemInv, RecordedIsUploaded, [Next]_vars
               PROVE  MemInv' /\ RecordedIsUploaded'
    OBVIOUS
  <2>1. MemInv'
    BY NextKeepsMemory
  <2>2. Uploaded \subseteq Uploaded'
    BY UploadedGrows
  <2>3. ASSUME NEW h \in Handler, record(h)
        PROVE  RecordedIsUploaded'
    <3>1. h[1] \in Slot /\ h[1] \in Int /\ TypeOK
      BY SlotAssumption DEF Handler, MemInv, Slot
    <3>2. IsUp(h[1])
      BY <2>3 DEF record, MemInv, Ready
    <3>3. PICK cur, dn, m :
            /\ cur = IF h[1] > current THEN h[1] ELSE current
            /\ dn = IF min < h[1] THEN done \cup {h[1]} ELSE done
            /\ missing' = noted(h[1]) /\ current' = cur
            /\ m \in min..cur /\ delDone(m, cur, dn) /\ min' = m
            /\ done' = dn \ ((min + 1)..m)
      BY <2>3, <3>1, RecordStep
    <3>4. ASSUME NEW s \in Slot, s <= min' \/ s \in done'
          PROVE  s = h[1] \/ s \in Recorded
      <4>1. s \in Int /\ min \in Int /\ m \in Int
        BY <3>1, <3>3, SlotAssumption DEF Slot, TypeOK
      <4>2. CASE s \in done'
        BY <3>3, <4>2 DEF Recorded
      <4>3. CASE s <= min
        BY <4>3 DEF Recorded
      <4>4. CASE s <= m /\ ~(s <= min)
        <5>1. s \in (min + 1)..m
          BY <4>1, <4>4
        <5>2. s \in dn
          BY <5>1, <3>3 DEF delDone
        <5> QED
          BY <5>2, <3>3 DEF Recorded
      <4> QED
        BY <3>3, <3>4, <4>2, <4>3, <4>4
    <3>5. \A s \in Slot : s \in Recorded => IsUp(s)
      BY DEF RecordedIsUploaded, IsUp, Uploaded
    <3>6. \A s \in Recorded' : s \in Slot /\ IsUp(s)
      BY <3>2, <3>4, <3>5 DEF Recorded
    <3> QED
      BY <3>6, <2>2 DEF RecordedIsUploaded, IsUp, Uploaded
  <2>4. CASE UNCHANGED dbs
    <3>1. Recorded' = Recorded
      BY <2>4 DEF dbs, Recorded
    <3> QED
      BY <2>1, <3>1, <2>2 DEF RecordedIsUploaded, Uploaded
  <2> QED
    BY <2>1, <2>3, <2>4, BookChanges
<1> QED
  BY <1>1, <1>2, PTL DEF Spec
=============================================================================
