---------------------------- MODULE AOUnitsProofs ----------------------------
(* For any number of messages, slots and failures: what is stored as done  *)
(* was done, and nothing is done twice as long as nothing fails.           *)
EXTENDS AOUnits, WellFoundedInduction, TLAPS

Place == {"idle", "schedule", "compute", "arweave", "aos", "finish"}

Types ==
  /\ log \in Seq(Msg)
  /\ msgs \in [Msg -> Record \cup {NONE}] /\ io \in [Msg -> Record \cup {NONE}]
  /\ pc \in [Msg -> Place]
  /\ got \in [Msg -> [slot : Nat \cup {NONE}, data : Outcome \cup {NONE}]]
  /\ fails \in Nat

(* The compute unit. *)
Units ==
  /\ wslot \in Nat /\ wslot <= Len(log)
  /\ wpc \in {"idle", "store", "mark"}
  /\ wpc # "idle" => outcome \in Outcome /\ wslot < Len(log)
  /\ \A s \in DOMAIN results : s \in 1..Len(log) /\ results[s] \in Outcome
  /\ effects \in Seq(Int) /\ \A k \in 1..Len(effects) : effects[k] = k

(* What is known of a message belongs to a slot that holds it. *)
Holds(m, slot) == slot \in 1..Len(log) /\ log[slot] = m

Kept(m, rec) ==
  rec # NONE =>
    /\ rec.ar = TRUE => m \in arweave
    /\ rec.aos = TRUE => \E x \in sent : x.msg = m
    /\ rec.done = TRUE => rec.ar = TRUE /\ rec.aos = TRUE
    /\ rec.data # NONE => Holds(m, rec.slot)

At(m) ==
  /\ Kept(m, msgs[m]) /\ Kept(m, io[m])
  /\ got[m].data # NONE => Holds(m, got[m].slot)
  /\ pc[m] = "compute" => Holds(m, got[m].slot)
  /\ pc[m] # "idle" => msgs[m] # NONE

Sent == \A r \in sent : Holds(r.msg, r.slot)

AOInv == Types /\ Units /\ Sent /\ \A m \in Msg : At(m)

(* While nothing fails. *)
Executed == IF wpc = "idle" THEN wslot ELSE wslot + 1
Stored == IF wpc = "mark" THEN wslot + 1 ELSE wslot

IsResult(slot, data) == data # NONE => slot \in DOMAIN results /\ results[slot] = data

OnceAt(m) ==
  /\ io[m] \in {NONE, msgs[m]}
  /\ msgs[m] = NONE \/ pc[m] = "schedule" => \A k \in 1..Len(log) : log[k] # m
  /\ msgs[m] # NONE /\ msgs[m].reply # TRUE => pc[m] \in {"schedule", "compute"}
  /\ msgs[m] # NONE => IsResult(msgs[m].slot, msgs[m].data)
  /\ IsResult(got[m].slot, got[m].data)

OnceLog == \A i, j \in 1..Len(log) : log[i] = log[j] => i = j
OnceSent ==
  /\ \A r \in sent : /\ r.msg \in Msg /\ msgs[r.msg] # NONE /\ msgs[r.msg].aos = TRUE
                     /\ r.slot \in DOMAIN results /\ r.data = results[r.slot]
  /\ \A r, q \in sent : r.msg = q.msg => r = q
OnceEffects ==
  /\ DOMAIN results = 1..Stored
  /\ \A e \in 1..Len(effects) : \E k \in 1..Executed : log[k] = e
  /\ \A s \in DOMAIN results : results[s] = "ok" <=> log[s] <= Len(effects)
  /\ wpc = "store" => (outcome = "ok" <=> log[wslot + 1] <= Len(effects))

OnceInv == fails = 0 => OnceLog /\ OnceSent /\ OnceEffects /\ \A m \in Msg : OnceAt(m)
-----------------------------------------------------------------------------
LEMMA Updates ==
  ASSUME NEW r \in Record, NEW slot \in Nat \cup {NONE}, NEW data \in Outcome \cup {NONE}
  PROVE  /\ [r EXCEPT !.ar = TRUE] \in Record
         /\ [r EXCEPT !.aos = TRUE] \in Record
         /\ [r EXCEPT !.done = TRUE] \in Record
         /\ [r EXCEPT !.reply = TRUE, !.slot = slot, !.data = data] \in Record
BY DEF Record

LEMMA InitAOInv == Init => AOInv
<1> SUFFICES ASSUME Init PROVE AOInv
  OBVIOUS
<1>1. log \in Seq(Msg) /\ Len(log) = 0 /\ effects \in Seq(Int) /\ Len(effects) = 0
  BY DEF Init
<1>2. DOMAIN results = {}
  BY DEF Init
<1>3. Types
  BY <1>1 DEF Init, Types, Place, Nothing
<1>4. Units
  BY <1>1, <1>2 DEF Init, Units
<1>5. \A m \in Msg : At(m)
  BY DEF Init, At, Kept, Nothing
<1> QED BY <1>3, <1>4, <1>5 DEF Init, AOInv, Sent

(* A step of the handler of m leaves the other messages alone, and what is *)
(* outside only grows.                                                     *)
Grows ==
  /\ Len(log) <= Len(log') /\ \A k \in 1..Len(log) : log'[k] = log[k]
  /\ arweave \subseteq arweave' /\ sent \subseteq sent'

Others(m) ==
  \A x \in Msg \ {m} : /\ msgs'[x] = msgs[x] /\ io'[x] = io[x]
                       /\ pc'[x] = pc[x] /\ got'[x] = got[x]

LEMMA Remains ==
  ASSUME AOInv, Types', Grows
  PROVE  /\ \A m \in Msg : \A slot : Holds(m, slot) => Holds(m, slot)'
         /\ \A m \in Msg : \A rec : Kept(m, rec) => Kept(m, rec)'
<1>1. Len(log) \in Nat /\ Len(log') \in Nat
  BY DEF AOInv, Types
<1>2. \A m \in Msg : \A slot : Holds(m, slot) => Holds(m, slot)'
  BY <1>1 DEF Holds, Grows
<1>3. arweave \subseteq arweave' /\ sent \subseteq sent'
  BY DEF Grows
<1> QED BY <1>2, <1>3 DEF Kept

LEMMA OneHandler ==
  ASSUME AOInv, Types', Sent', Grows, UNCHANGED cu,
         NEW m \in Msg, Others(m), At(m)'
  PROVE  AOInv'
<1>1. /\ \A x \in Msg : \A slot : Holds(x, slot) => Holds(x, slot)'
      /\ \A x \in Msg : \A rec : Kept(x, rec) => Kept(x, rec)'
  BY Remains
<1>2. ASSUME NEW x \in Msg, x # m PROVE At(x)'
  <2>1. msgs'[x] = msgs[x] /\ io'[x] = io[x] /\ pc'[x] = pc[x] /\ got'[x] = got[x]
    BY <1>2 DEF Others
  <2>2. At(x)
    BY DEF AOInv
  <2> QED BY <1>1, <2>1, <2>2 DEF At
<1>3. Units'
  BY DEF Units, AOInv, Types, Grows, cu
<1> QED BY <1>2, <1>3 DEF AOInv

(* What the record of a message in work is changed to. *)
LEMMA Working ==
  ASSUME AOInv, NEW m \in Msg, pc[m] # "idle"
  PROVE  msgs[m] \in Record /\ msgs[m] # NONE
BY DEF AOInv, Types, At

LEMMA HandlerKeepsInv ==
  ASSUME AOInv, NEW m \in Msg,
         submit(m) \/ duplicate(m) \/ schedule(m) \/ compute(m) \/ refuse(m) \/ throw(m)
           \/ skipArweave(m) \/ toArweave(m) \/ failArweave(m)
           \/ skipAOS(m) \/ toAOS(m) \/ failAOS(m) \/ finish(m)
  PROVE  AOInv'
<1>t. Types /\ Sent /\ At(m) /\ Units
  BY DEF AOInv
<1>n. msgs[m] \in Record \cup {NONE} /\ io[m] \in Record \cup {NONE} /\ fails + 1 \in Nat
  BY DEF AOInv, Types
<1>o. Len(log) \in Nat /\ got[m].slot \in Nat \cup {NONE} /\ got[m].data \in Outcome \cup {NONE}
  BY DEF AOInv, Types
<1>q. Nothing \in [slot : Nat \cup {NONE}, data : Outcome \cup {NONE}]
      /\ Nothing.slot = NONE /\ Nothing.data = NONE
  BY DEF Nothing
<1>1. CASE submit(m)
  <2> DEFINE r == IF msgs[m] = NONE THEN New ELSE msgs[m]
             g == [slot |-> r.slot, data |-> r.data]
  <2>1. New \in Record /\ New.ar = FALSE /\ New.aos = FALSE /\ New.done = FALSE /\ New.data = NONE
    BY DEF New, Record
  <2>2. r \in Record /\ r # NONE /\ Kept(m, r)
    BY <1>t, <1>n, <2>1, NoneAssumption DEF Kept, At
  <2>3. /\ msgs' = [msgs EXCEPT ![m] = r] /\ msgs'[m] = r
        /\ pc' = [pc EXCEPT ![m] = IF r.reply THEN "arweave" ELSE "schedule"]
        /\ got' = [got EXCEPT ![m] = g]
        /\ UNCHANGED <<io, cu, log, arweave, sent, fails>>
    BY <1>1, <1>t DEF submit, Types, ext
  <2>4. g \in [slot : Nat \cup {NONE}, data : Outcome \cup {NONE}] /\ g.slot = r.slot /\ g.data = r.data
    BY <2>2 DEF Record
  <2> HIDE DEF r, g
  <2>5. Types'
    BY <1>t, <2>2, <2>3, <2>4 DEF Types, Place
  <2>6. At(m)'
    BY <1>t, <2>2, <2>3, <2>4 DEF Types, At, Kept, Holds
  <2>7. Sent' /\ Grows /\ Others(m)
    BY <1>t, <1>o, <2>3 DEF Types, Sent, Holds, Grows, Others
  <2> QED BY <2>3, <2>5, <2>6, <2>7, OneHandler
<1>2. CASE duplicate(m)
  <2>1. io[m] # NONE /\ msgs' = [msgs EXCEPT ![m] = io[m]]
        /\ UNCHANGED <<io, pc, got, cu, log, arweave, sent, fails>>
    BY <1>2 DEF duplicate, isDone, ext
  <2>2. Types'
    BY <1>t, <1>n, <2>1 DEF Types
  <2>3. At(m)'
    BY <1>t, <2>1 DEF Types, At, Kept, Holds
  <2>4. Sent' /\ Grows /\ Others(m)
    BY <1>t, <1>o, <2>1 DEF Types, Sent, Holds, Grows, Others
  <2> QED BY <2>1, <2>2, <2>3, <2>4, OneHandler
<1>3. CASE schedule(m)
  <2>0. msgs[m] # NONE
    BY <1>3, Working DEF schedule
  <2> DEFINE g == [slot |-> Len(log) + 1, data |-> got[m].data]
  <2>1. /\ log' = Append(log, m) /\ pc' = [pc EXCEPT ![m] = "compute"]
        /\ UNCHANGED <<msgs, io, cu, arweave, sent, fails>>
    BY <1>3 DEF schedule
  <2>2. got' = [got EXCEPT ![m] = g]
    <3>1. [got[m] EXCEPT !.slot = Len(log) + 1] = g
      BY <1>t DEF Types
    <3>2. got' = [got EXCEPT ![m] = [got[m] EXCEPT !.slot = Len(log) + 1]]
      BY <1>3 DEF schedule
    <3> QED BY <3>1, <3>2
  <2>3. g \in [slot : Nat \cup {NONE}, data : Outcome \cup {NONE}]
        /\ g.slot = Len(log) + 1 /\ g.data = got[m].data
    BY <1>o
  <2>4. /\ log' \in Seq(Msg) /\ Len(log') = Len(log) + 1 /\ log'[Len(log) + 1] = m
        /\ \A k \in 1..Len(log) : log'[k] = log[k]
    BY <1>t, <2>1 DEF Types
  <2> HIDE DEF g
  <2>5. Types'
    BY <1>t, <2>1, <2>2, <2>3, <2>4 DEF Types, Place
  <2>6. Grows /\ Others(m)
    BY <1>t, <1>o, <2>1, <2>2, <2>4 DEF Types, Grows, Others
  <2>7. \A x \in Msg : \A slot : Holds(x, slot) => Holds(x, slot)'
    BY <2>5, <2>6, Remains
  <2>8. Len(log) + 1 \in 1..Len(log')
    BY <1>o, <2>4
  <2>9. At(m)'
    <3>1. got'[m] = g /\ pc'[m] = "compute" /\ msgs'[m] = msgs[m] /\ io'[m] = io[m]
      BY <1>t, <2>1, <2>2 DEF Types
    <3>2. got'[m].slot = Len(log) + 1
      BY <2>3, <3>1
    <3>5. Holds(m, got[m].slot)'
      BY <2>4, <2>8, <3>2 DEF Holds
    <3>3. \A rec : Kept(m, rec) => Kept(m, rec)'
      BY <2>5, <2>6, Remains
    <3> QED BY <1>t, <2>0, <3>1, <3>3, <3>5 DEF At
  <2>10. Sent'
    BY <1>t, <1>o, <2>1, <2>4 DEF Sent, Holds
  <2> QED BY <2>1, <2>5, <2>6, <2>9, <2>10, OneHandler
<1>r. ASSUME NEW slot \in Nat \cup {NONE}, NEW data \in Outcome \cup {NONE},
             pc[m] # "idle", data # NONE => Holds(m, slot),
             replied(m, slot, data), UNCHANGED <<cu, log, arweave, sent>>, fails' \in Nat
      PROVE  AOInv'
  <2> DEFINE r == [msgs[m] EXCEPT !.reply = TRUE, !.slot = slot, !.data = data]
             g == [slot |-> slot, data |-> data]
  <2>1. msgs[m] \in Record /\ msgs[m] # NONE
    BY <1>r, Working
  <2>2. r \in Record /\ r # NONE
    <3>1. \A x \in Record, sl \in Nat \cup {NONE}, d \in Outcome \cup {NONE} :
            [x EXCEPT !.reply = TRUE, !.slot = sl, !.data = d] \in Record
      BY Updates
    <3>2. r \in Record
      BY <1>r, <2>1, <3>1, Zenon
    <3> QED BY <3>2, NoneAssumption
  <2>3. r.ar = msgs[m].ar /\ r.aos = msgs[m].aos /\ r.done = msgs[m].done /\ r.slot = slot /\ r.data = data
    BY <2>1 DEF Record
  <2>4. g \in [slot : Nat \cup {NONE}, data : Outcome \cup {NONE}] /\ g.slot = slot /\ g.data = data
    OBVIOUS
  <2>5. msgs' = [msgs EXCEPT ![m] = r] /\ msgs'[m] = r
    BY <1>r, <1>t DEF replied, Types
  <2>6. io' = [io EXCEPT ![m] = r] /\ pc' = [pc EXCEPT ![m] = "arweave"] /\ got' = [got EXCEPT ![m] = g]
    BY <1>r, <2>5 DEF replied
  <2> HIDE DEF r, g
  <2>7. Types'
    BY <1>t, <1>r, <2>2, <2>4, <2>5, <2>6 DEF Types, Place
  <2>8. At(m)'
    <3>1. Kept(m, msgs[m])'
      BY <1>r, <1>t, <2>1, <2>2, <2>3, <2>5 DEF At, Kept, Holds
    <3>2. got'[m] = g /\ pc'[m] = "arweave" /\ io'[m] = r
      BY <1>t, <2>6 DEF Types
    <3>3. Kept(m, io[m])'
      BY <2>5, <3>1, <3>2 DEF Kept, Holds
    <3> QED BY <1>r, <2>2, <2>4, <2>5, <3>1, <3>2, <3>3 DEF At, Holds
  <2>9. Sent' /\ Grows /\ Others(m)
    BY <1>t, <1>o, <1>r, <2>5, <2>6 DEF Types, Sent, Holds, Grows, Others
  <2> QED BY <1>r, <2>7, <2>8, <2>9, OneHandler
<1>4. CASE compute(m)
  <2>1. /\ pc[m] = "compute" /\ got[m].slot \in DOMAIN results
        /\ replied(m, got[m].slot, results[got[m].slot])
        /\ UNCHANGED <<cu, log, arweave, sent, fails>>
    BY <1>4 DEF compute, ext
  <2>2. results[got[m].slot] \in Outcome /\ Holds(m, got[m].slot) /\ fails' \in Nat
    BY <1>t, <2>1 DEF Units, At, Types
  <2> QED BY <1>o, <1>r, <2>1, <2>2
<1>5. CASE refuse(m)
  BY <1>5, <1>n, <1>r DEF refuse, ext
<1>p. ASSUME NEW p \in Place \ {"idle", "compute"}, pc[m] # "idle",
             pc' = [pc EXCEPT ![m] = p],
             got' = [got EXCEPT ![m] = Nothing] \/ got' = got,
             UNCHANGED <<msgs, io, cu, log, arweave, sent>>, fails' \in Nat
      PROVE  AOInv'
  <2>1. msgs[m] # NONE
    BY <1>p, Working
  <2>2. Types'
    BY <1>t, <1>p, <1>q DEF Types, Place
  <2>3. At(m)'
    BY <1>t, <1>p, <1>q, <2>1 DEF Types, At, Kept, Holds
  <2>4. Sent' /\ Grows /\ Others(m)
    BY <1>t, <1>o, <1>p DEF Types, Sent, Holds, Grows, Others
  <2> QED BY <1>p, <2>2, <2>3, <2>4, OneHandler
<1>6. CASE throw(m)
  BY <1>6, <1>n, <1>p DEF throw, Place, ext
<1>7. CASE skipArweave(m)
  BY <1>7, <1>p, <1>t DEF skipArweave, Place, Types, ext
<1>10. CASE skipAOS(m)
  BY <1>10, <1>p, <1>t DEF skipAOS, Place, Types, ext
(* A step stores r for m and goes on. *)
<1>s. ASSUME NEW p \in Place \ {"idle", "compute"}, pc[m] # "idle",
             pc' = [pc EXCEPT ![m] = p], msgs'[m] \in Record, msgs' = [msgs EXCEPT ![m] = msgs'[m]],
             io' \in {io, [io EXCEPT ![m] = msgs'[m]]},
             UNCHANGED <<got, cu, log>>, fails' \in Nat,
             arweave \subseteq arweave', sent \subseteq sent', Kept(m, msgs[m])', Sent'
      PROVE  AOInv'
  <2>1. msgs'[m] # NONE
    BY <1>s, NoneAssumption
  <2>2. Types'
    BY <1>t, <1>n, <1>s DEF Types, Place
  <2>3. Grows /\ Others(m)
    BY <1>t, <1>o, <1>s DEF Types, Grows, Others
  <2>4. \A rec : Kept(m, rec) => Kept(m, rec)'
    BY <2>2, <2>3, Remains
  <2>5. At(m)'
    <3>1. io'[m] \in {io[m], msgs'[m]} /\ pc'[m] = p /\ got'[m] = got[m]
      BY <1>t, <1>s DEF Types
    <3> QED BY <1>t, <1>s, <2>1, <2>4, <3>1 DEF At, Holds
  <2> QED BY <1>s, <2>2, <2>3, <2>5, OneHandler
<1>w. ASSUME pc[m] # "idle"
      PROVE  /\ msgs[m] \in Record /\ Kept(m, msgs[m])
             /\ [msgs[m] EXCEPT !.ar = TRUE] \in Record
             /\ [msgs[m] EXCEPT !.aos = TRUE] \in Record
             /\ [msgs[m] EXCEPT !.done = TRUE] \in Record
             /\ msgs = [msgs EXCEPT ![m] = msgs[m]]
  <2>1. msgs[m] \in Record
    BY <1>w, Working
  <2>2. NONE \in Nat \cup {NONE} /\ NONE \in Outcome \cup {NONE}
    OBVIOUS
  <2> QED BY <1>t, <2>1, <2>2, Updates DEF At, Types
<1>8. CASE toArweave(m)
  <2> DEFINE r == [msgs[m] EXCEPT !.ar = TRUE]
  <2>1. r \in Record /\ Kept(m, msgs[m]) /\ msgs[m] \in Record
    BY <1>8, <1>w DEF toArweave
  <2>2. /\ r.ar = TRUE /\ r.aos = msgs[m].aos /\ r.done = msgs[m].done
        /\ r.slot = msgs[m].slot /\ r.data = msgs[m].data
    BY <2>1 DEF Record
  <2>3. msgs' = [msgs EXCEPT ![m] = r] /\ msgs'[m] = r
    BY <1>8, <1>t DEF toArweave, Types
  <2>4. /\ io' = [io EXCEPT ![m] = r] /\ pc' = [pc EXCEPT ![m] = "aos"] /\ arweave' = arweave \cup {m}
        /\ UNCHANGED <<got, cu, log, sent, fails>>
    BY <1>8, <2>3 DEF toArweave
  <2> HIDE DEF r
  <2>5. Kept(m, msgs[m])'
    BY <2>1, <2>2, <2>3, <2>4, NoneAssumption DEF Kept, Holds
  <2>6. Sent' /\ fails' \in Nat
    BY <1>t, <2>4 DEF Sent, Holds, Types
  <2> QED BY <1>8, <1>s, <2>1, <2>3, <2>4, <2>5, <2>6 DEF toArweave, Place
<1>9. CASE failArweave(m)
  <2>1. /\ pc' = [pc EXCEPT ![m] = "aos"] /\ io' \in {io, [io EXCEPT ![m] = msgs[m]]}
        /\ UNCHANGED <<msgs, got, cu, log, sent>> /\ arweave \subseteq arweave' /\ fails' \in Nat
    BY <1>9, <1>n DEF failArweave
  <2>2. Kept(m, msgs[m])'
    BY <1>9, <1>w, <2>1 DEF failArweave, Kept, Holds
  <2>3. Sent'
    BY <1>t, <2>1 DEF Sent, Holds
  <2> QED BY <1>9, <1>s, <1>w, <2>1, <2>2, <2>3 DEF failArweave, Place
<1>11. CASE toAOS(m)
  <2> DEFINE r == [msgs[m] EXCEPT !.aos = TRUE]
             x == [msg |-> m, slot |-> got[m].slot, data |-> got[m].data]
  <2>1. r \in Record /\ Kept(m, msgs[m]) /\ msgs[m] \in Record
    BY <1>11, <1>w DEF toAOS
  <2>2. /\ r.aos = TRUE /\ r.ar = msgs[m].ar /\ r.done = msgs[m].done
        /\ r.slot = msgs[m].slot /\ r.data = msgs[m].data
    BY <2>1 DEF Record
  <2>3. msgs' = [msgs EXCEPT ![m] = r] /\ msgs'[m] = r
    BY <1>11, <1>t DEF toAOS, Types
  <2>4. /\ io' = [io EXCEPT ![m] = r] /\ pc' = [pc EXCEPT ![m] = "finish"] /\ sent' = sent \cup {x}
        /\ UNCHANGED <<got, cu, log, arweave, fails>>
    BY <1>11, <2>3 DEF toAOS
  <2>x. x.msg = m /\ x.slot = got[m].slot /\ Holds(m, got[m].slot)
    BY <1>11, <1>t DEF toAOS, At
  <2> HIDE DEF r, x
  <2>5. Kept(m, msgs[m])'
    BY <2>1, <2>2, <2>3, <2>4, <2>x, NoneAssumption DEF Kept, Holds
  <2>6. Sent' /\ fails' \in Nat
    BY <1>t, <2>4, <2>x DEF Sent, Holds, Types
  <2> QED BY <1>11, <1>s, <2>1, <2>3, <2>4, <2>5, <2>6 DEF toAOS, Place
<1>12. CASE failAOS(m)
  <2> DEFINE x == [msg |-> m, slot |-> got[m].slot, data |-> got[m].data]
  <2>1. /\ pc' = [pc EXCEPT ![m] = "finish"] /\ io' \in {io, [io EXCEPT ![m] = msgs[m]]}
        /\ UNCHANGED <<msgs, got, cu, log, arweave>> /\ fails' \in Nat
        /\ sent' \in {sent, sent \cup {x}}
    BY <1>12, <1>n DEF failAOS
  <2>x. x.msg = m /\ x.slot = got[m].slot /\ Holds(m, got[m].slot)
    BY <1>12, <1>t DEF failAOS, At
  <2> HIDE DEF x
  <2>2. Kept(m, msgs[m])'
    BY <1>12, <1>w, <2>1 DEF failAOS, Kept, Holds
  <2>3. Sent' /\ sent \subseteq sent'
    BY <1>t, <2>1, <2>x DEF Sent, Holds
  <2> QED BY <1>12, <1>s, <1>w, <2>1, <2>2, <2>3 DEF failAOS, Place
<1>13. CASE finish(m)
  <2> DEFINE r == [msgs[m] EXCEPT !.done = TRUE]
  <2>1. r \in Record /\ Kept(m, msgs[m]) /\ msgs[m] \in Record
    BY <1>13, <1>w DEF finish
  <2>2. /\ r.aos = msgs[m].aos /\ r.ar = msgs[m].ar
        /\ r.slot = msgs[m].slot /\ r.data = msgs[m].data
    BY <2>1 DEF Record
  <2>3. /\ pc' = [pc EXCEPT ![m] = "idle"] /\ got' = [got EXCEPT ![m] = Nothing]
        /\ UNCHANGED <<cu, log, arweave, sent, fails>>
    BY <1>13 DEF finish, ext
  <2>4. \/ UNCHANGED <<msgs, io>>
        \/ /\ msgs[m].aos = TRUE /\ msgs[m].ar = TRUE /\ msgs' = [msgs EXCEPT ![m] = r]
           /\ io' = [io EXCEPT ![m] = r]
    BY <1>13, <1>t DEF finish, isComplete, Types
  <2> HIDE DEF r
  <2>5. Types'
    <3>1. CASE UNCHANGED <<msgs, io>>
      BY <1>t, <1>q, <2>3, <3>1 DEF Types, Place
    <3>2. CASE msgs' = [msgs EXCEPT ![m] = r] /\ io' = [io EXCEPT ![m] = r]
      BY <1>t, <1>q, <2>1, <2>3, <3>2 DEF Types, Place
    <3> QED BY <2>4, <3>1, <3>2
  <2>6. msgs[m].aos = TRUE /\ msgs[m].ar = TRUE /\ msgs'[m] = r => Kept(m, msgs[m])'
    BY <2>1, <2>2, <2>3, NoneAssumption DEF Kept, Holds
  <2>7. At(m)'
    <3>1. got'[m] = Nothing /\ pc'[m] = "idle"
      BY <1>t, <2>3 DEF Types
    <3>2. Kept(m, msgs[m])' /\ Kept(m, io[m])'
      <4>1. CASE UNCHANGED <<msgs, io>>
        BY <1>t, <2>3, <4>1 DEF At, Kept, Holds
      <4>2. CASE msgs[m].aos = TRUE /\ msgs[m].ar = TRUE /\ msgs' = [msgs EXCEPT ![m] = r] /\ io' = [io EXCEPT ![m] = r]
        <5>1. msgs'[m] = r /\ io'[m] = r
          BY <1>t, <4>2 DEF Types
        <5> QED BY <2>6, <4>2, <5>1 DEF Kept, Holds
      <4> QED BY <2>4, <4>1, <4>2
    <3> QED BY <1>q, <3>1, <3>2 DEF At
  <2>8. Sent' /\ Grows /\ Others(m)
    BY <1>t, <1>o, <2>3, <2>4 DEF Types, Sent, Holds, Grows, Others
  <2> QED BY <2>3, <2>5, <2>7, <2>8, OneHandler
<1> QED BY <1>1, <1>2, <1>3, <1>4, <1>5, <1>6, <1>7, <1>8, <1>9, <1>10, <1>11, <1>12, <1>13

(* The compute unit, and the two crashes. *)
LEMMA UnitsKeepInv ==
  ASSUME AOInv, execute \/ store \/ mark
  PROVE  AOInv'
<1>k. /\ wslot \in Nat /\ wslot <= Len(log) /\ Len(log) \in Nat
      /\ effects \in Seq(Int) /\ Len(effects) \in Nat /\ log \in Seq(Msg)
      /\ \A k \in 1..Len(effects) : effects[k] = k
  BY DEF AOInv, Types, Units
<1>1. UNCHANGED <<msgs, io, pc, got, log, arweave, sent, fails>>
  BY DEF execute, store, mark, su, ext
<1>2. Types' /\ Sent' /\ \A m \in Msg : At(m)'
  BY <1>1 DEF AOInv, Types, Sent, At, Kept, Holds
<1>3. CASE execute
  <2>1. /\ wpc = "idle" /\ wslot < Len(log) /\ wpc' = "store" /\ UNCHANGED <<results, wslot, log>>
        /\ \/ effects' = Append(effects, Len(effects) + 1) /\ outcome' = "ok"
           \/ UNCHANGED effects /\ outcome' = "refused"
    BY <1>3 DEF execute, accepts, ext
  <2>2. effects' \in Seq(Int) /\ \A k \in 1..Len(effects') : effects'[k] = k
    <3>1. CASE effects' = Append(effects, Len(effects) + 1)
      <4>1. Len(effects) + 1 \in Int
        BY <1>k
      <4>2. /\ effects' \in Seq(Int) /\ Len(effects') = Len(effects) + 1
            /\ effects'[Len(effects) + 1] = Len(effects) + 1
            /\ \A k \in 1..Len(effects) : effects'[k] = effects[k]
        BY <1>k, <3>1, <4>1
      <4>3. \A k \in 1..(Len(effects) + 1) : k = Len(effects) + 1 \/ k \in 1..Len(effects)
        BY <1>k
      <4> QED BY <1>k, <4>2, <4>3
    <3> QED BY <1>k, <2>1, <3>1
  <2>3. Units'
    BY <1>k, <2>1, <2>2 DEF AOInv, Units, Outcome
  <2> QED BY <1>2, <2>3 DEF AOInv
<1>4. CASE store
  <2>1. /\ wpc = "store" /\ wpc' = "mark" /\ UNCHANGED <<effects, wslot, outcome, log>>
        /\ DOMAIN results' = DOMAIN results \cup {wslot + 1}
        /\ \A s \in DOMAIN results' : results'[s] = IF s = wslot + 1 THEN outcome ELSE results[s]
    BY <1>4 DEF store, ext
  <2>2. outcome \in Outcome /\ wslot < Len(log) /\ wslot + 1 \in 1..Len(log)
    BY <1>k, <2>1 DEF AOInv, Units
  <2>3. \A s \in DOMAIN results' : s \in 1..Len(log') /\ results'[s] \in Outcome
    BY <2>1, <2>2 DEF AOInv, Units
  <2>4. Units'
    BY <1>k, <2>1, <2>2, <2>3 DEF Units
  <2> QED BY <1>2, <2>4 DEF AOInv
<1>5. CASE mark
  <2>1. wpc = "mark" /\ wslot' = wslot + 1 /\ wpc' = "idle" /\ UNCHANGED <<effects, results, log>>
    BY <1>5 DEF mark, nextSlot, ext
  <2>2. wslot < Len(log)
    BY <2>1 DEF AOInv, Units
  <2>3. Units'
    BY <1>k, <2>1, <2>2 DEF AOInv, Units
  <2> QED BY <1>2, <2>3 DEF AOInv
<1> QED BY <1>3, <1>4, <1>5

LEMMA CrashKeepsInv ==
  ASSUME AOInv, crashSU \/ crashCU
  PROVE  AOInv'
<1>1. CASE crashSU
  <2>1. /\ \A m \in Msg : msgs'[m] = NONE /\ io'[m] = io[m] /\ got'[m] = Nothing /\ pc'[m] = "idle"
        /\ Types' /\ UNCHANGED <<cu, log, arweave, sent>>
    BY <1>1 DEF crashSU, AOInv, Types, Nothing, Place, ext
  <2>2. \A m \in Msg : At(m)'
    BY <2>1 DEF AOInv, At, Kept, Holds, Nothing
  <2>3. Sent' /\ Units'
    BY <2>1 DEF AOInv, Sent, Units, Holds, cu
  <2> QED BY <2>1, <2>2, <2>3 DEF AOInv
<1>2. CASE crashCU
  <2>1. /\ \A m \in Msg : msgs'[m] = msgs[m] /\ io'[m] = io[m]
                         /\ \/ got'[m] = Nothing /\ pc[m] = "compute" /\ pc'[m] = "arweave"
                            \/ got'[m] = got[m] /\ pc'[m] = pc[m]
        /\ Types' /\ UNCHANGED <<effects, results, wslot, log, arweave, sent>> /\ wpc' = "idle"
    BY <1>2 DEF crashCU, AOInv, Types, Nothing, Place, ext
  <2>2. \A m \in Msg : At(m)'
    BY <2>1 DEF AOInv, At, Kept, Holds, Nothing
  <2>3. Sent' /\ Units'
    BY <2>1 DEF AOInv, Sent, Units, Holds
  <2> QED BY <2>1, <2>2, <2>3 DEF AOInv
<1> QED BY <1>1, <1>2

LEMMA NextAOInv == AOInv /\ [Next]_vars => AOInv'
<1> SUFFICES ASSUME AOInv, [Next]_vars PROVE AOInv'
  OBVIOUS
<1>1. CASE UNCHANGED vars
  BY <1>1 DEF AOInv, Types, Units, Sent, At, Kept, Holds, vars, su, cu, ext
<1>2. CASE Next
  BY <1>2, HandlerKeepsInv, UnitsKeepInv, CrashKeepsInv DEF Next
<1> QED BY <1>1, <1>2

LEMMA AlwaysAOInv == Spec => []AOInv
BY InitAOInv, NextAOInv, PTL DEF Spec

(* su.js:94-160: a message is stored as done only when the bundler has it  *)
(* and its result was sent, and what was sent belongs to a slot of it.     *)
THEOREM DoneMeansDone == Spec => []DoneIsComplete
<1>1. AOInv => DoneIsComplete
  <2> SUFFICES ASSUME AOInv PROVE DoneIsComplete
    OBVIOUS
  <2>1. ASSUME NEW m \in Msg, isDone(io[m])
        PROVE  m \in arweave /\ \E r \in sent : r.msg = m
    <3>1. io[m] \in Record /\ io[m] # NONE /\ io[m].done = TRUE
      BY <2>1 DEF AOInv, Types, isDone, Record
    <3> QED BY <3>1 DEF AOInv, At, Kept
  <2> QED BY <2>1 DEF AOInv, Sent, Holds, DoneIsComplete
<1> QED BY <1>1, AlwaysAOInv, PTL

-----------------------------------------------------------------------------
LEMMA InitOnceInv == Init => OnceInv
<1> SUFFICES ASSUME Init PROVE OnceInv
  OBVIOUS
<1>1. Len(log) = 0 /\ Len(effects) = 0 /\ DOMAIN results = {} /\ 1..0 = {}
  BY DEF Init
<1>2. OnceLog /\ OnceSent /\ OnceEffects
  BY <1>1 DEF Init, OnceLog, OnceSent, OnceEffects, Stored
<1>3. \A m \in Msg : OnceAt(m)
  BY <1>1 DEF Init, OnceAt, IsResult, Nothing
<1> QED BY <1>2, <1>3 DEF OnceInv

(* A step of the handler of m. *)
LEMMA OneHandlerOnce ==
  ASSUME AOInv, AOInv', OnceInv, fails = 0, UNCHANGED cu,
         NEW m \in Msg, Others(m), OnceAt(m)', OnceSent',
         \/ UNCHANGED log
         \/ log' = Append(log, m) /\ \A k \in 1..Len(log) : log[k] # m
  PROVE  OnceInv'
<1>1. /\ \A x \in Msg : OnceAt(x)
      /\ OnceLog /\ OnceEffects
  BY DEF OnceInv
<1>2. log \in Seq(Msg) /\ Len(log) \in Nat /\ wslot <= Len(log) /\ wslot \in Nat
      /\ wpc # "idle" => wslot < Len(log)
  BY DEF AOInv, Types, Units
<1>3. /\ Len(log') \in Nat /\ Len(log) <= Len(log')
      /\ \A k \in 1..Len(log) : log'[k] = log[k]
      /\ \A k \in 1..Len(log') : k \in 1..Len(log) \/ (log'[k] = m /\ k = Len(log) + 1)
      /\ Len(log') # Len(log) => \A k \in 1..Len(log) : log[k] # m
  <2>1. CASE UNCHANGED log
    BY <1>2, <2>1
  <2>2. CASE log' = Append(log, m) /\ \A k \in 1..Len(log) : log[k] # m
    BY <1>2, <2>2
  <2> QED BY <2>1, <2>2
<1>4. ASSUME NEW x \in Msg, x # m PROVE OnceAt(x)'
  <2>1. msgs'[x] = msgs[x] /\ io'[x] = io[x] /\ pc'[x] = pc[x] /\ got'[x] = got[x] /\ UNCHANGED results
    BY <1>4 DEF Others, cu
  <2>2. OnceAt(x)
    BY <1>1
  <2> QED BY <1>3, <1>4, <2>1, <2>2 DEF OnceAt, IsResult
<1>5. OnceLog'
  <2> SUFFICES ASSUME NEW i \in 1..Len(log'), NEW j \in 1..Len(log'), log'[i] = log'[j] PROVE i = j
    BY DEF OnceLog
  <2>1. CASE i \in 1..Len(log) /\ j \in 1..Len(log)
    BY <1>1, <1>3, <2>1 DEF OnceLog
  <2>2. CASE ~(i \in 1..Len(log) /\ j \in 1..Len(log))
    <3>1. Len(log') # Len(log)
      BY <2>2
    <3> QED BY <1>3, <2>2, <3>1
  <2> QED BY <2>1, <2>2
<1>6. OnceEffects'
  <2>1. UNCHANGED <<effects, results, wslot, wpc, outcome>> /\ Stored' = Stored /\ Executed' = Executed
    BY DEF cu, Stored, Executed
  <2>2. Executed \in Int /\ Stored \in Int /\ Executed <= Len(log) /\ Stored <= Len(log)
        /\ (wpc = "store" => wslot + 1 \in 1..Len(log))
    BY <1>2 DEF Executed, Stored, AOInv, Units
  <2>3. \A s \in 1..Executed : s \in 1..Len(log) /\ log'[s] = log[s]
    BY <1>2, <1>3, <2>2
  <2>4. \A s \in DOMAIN results : s \in 1..Len(log) /\ log'[s] = log[s]
    BY <1>3 DEF AOInv, Units
  <2> QED BY <1>1, <1>3, <2>1, <2>2, <2>3, <2>4 DEF OnceEffects
<1> QED BY <1>4, <1>5, <1>6 DEF OnceInv

(* ... that sends nothing and forgets nothing. *)
LEMMA SentOnce ==
  ASSUME AOInv, AOInv', OnceInv, fails = 0, UNCHANGED <<results, sent>>,
         NEW m \in Msg, Others(m),
         msgs[m] # NONE => msgs'[m] # NONE /\ (msgs[m].aos = TRUE => msgs'[m].aos = TRUE)
  PROVE  OnceSent'
BY DEF OnceInv, OnceSent, Others

LEMMA HandlerKeepsOnce ==
  ASSUME AOInv, AOInv', OnceInv, fails = 0, fails' = 0, NEW m \in Msg,
         submit(m) \/ duplicate(m) \/ schedule(m) \/ compute(m) \/ refuse(m) \/ throw(m)
           \/ skipArweave(m) \/ toArweave(m) \/ failArweave(m)
           \/ skipAOS(m) \/ toAOS(m) \/ failAOS(m) \/ finish(m)
  PROVE  OnceInv'
<1>t. /\ Types /\ Types' /\ At(m) /\ OnceAt(m) /\ OnceSent
      /\ Len(log) \in Nat
  BY DEF AOInv, Types, OnceInv
<1>v. /\ DOMAIN msgs = Msg /\ DOMAIN io = Msg /\ DOMAIN pc = Msg /\ DOMAIN got = Msg
      /\ msgs[m] \in Record \cup {NONE} /\ io[m] \in Record \cup {NONE}
  BY <1>t DEF Types
<1>0. ~(refuse(m) \/ throw(m) \/ failArweave(m) \/ failAOS(m))
  BY DEF refuse, throw, failArweave, failAOS
<1>q. Nothing.slot = NONE /\ Nothing.data = NONE
  BY DEF Nothing
<1>1. CASE submit(m)
  <2> DEFINE r == IF msgs[m] = NONE THEN New ELSE msgs[m]
             g == [slot |-> r.slot, data |-> r.data]
  <2>1. New \in Record /\ New.reply = FALSE /\ New.data = NONE
    BY DEF New, Record
  <2>2. /\ msgs'[m] = r /\ r # NONE /\ pc[m] = "idle" /\ io'[m] = io[m]
        /\ pc'[m] = (IF r.reply THEN "arweave" ELSE "schedule") /\ got'[m] = g
        /\ UNCHANGED <<cu, log, sent, results>> /\ Others(m)
    BY <1>1, <1>v, <2>1, NoneAssumption DEF submit, busy, ext, cu, Others
  <2>3. g.slot = r.slot /\ g.data = r.data
    OBVIOUS
  <2> HIDE DEF g
  <2>4. CASE msgs[m] = NONE
    <3>1. r = New /\ io[m] = NONE /\ \A k \in 1..Len(log) : log[k] # m
      BY <1>t, <2>4 DEF OnceAt
    <3>2. OnceAt(m)'
      BY <2>1, <2>2, <2>3, <3>1 DEF OnceAt, IsResult
    <3> QED BY <2>2, <2>4, <3>2, OneHandlerOnce, SentOnce
  <2>5. CASE msgs[m] # NONE
    <3>1. r = msgs[m] /\ msgs[m].reply = TRUE /\ pc'[m] = "arweave"
      BY <1>t, <2>2, <2>5 DEF OnceAt
    <3>2. OnceAt(m)'
      BY <1>t, <2>2, <2>3, <2>5, <3>1 DEF OnceAt, IsResult
    <3> QED BY <2>2, <2>5, <3>1, <3>2, OneHandlerOnce, SentOnce
  <2> QED BY <2>4, <2>5
<1>2. CASE duplicate(m)
  BY <1>2, <1>t DEF duplicate, isDone, OnceAt
<1>3. CASE schedule(m)
  <2>1. /\ pc[m] = "schedule" /\ pc'[m] = "compute" /\ log' = Append(log, m)
        /\ msgs'[m] = msgs[m] /\ io'[m] = io[m] /\ got'[m].data = got[m].data
        /\ UNCHANGED <<cu, sent, results>> /\ Others(m)
    BY <1>3, <1>v, <1>t DEF schedule, Types, cu, Others
  <2>2. msgs[m] # NONE /\ \A k \in 1..Len(log) : log[k] # m
    BY <1>t, <2>1 DEF At, OnceAt
  <2>3. got[m].data = NONE
    <3> SUFFICES ASSUME got[m].data # NONE PROVE FALSE
      OBVIOUS
    <3> QED BY <1>t, <2>2 DEF At, Holds
  <2>4. OnceAt(m)'
    BY <1>t, <2>1, <2>2, <2>3 DEF OnceAt, IsResult
  <2> QED BY <2>1, <2>2, <2>4, OneHandlerOnce, SentOnce
<1>4. CASE compute(m)
  <2> DEFINE sl == got[m].slot
             dt == results[got[m].slot]
             r == [msgs[m] EXCEPT !.reply = TRUE, !.slot = sl, !.data = dt]
             g == [slot |-> sl, data |-> dt]
  <2>1. msgs[m] \in Record /\ msgs[m] # NONE
    BY <1>4, Working DEF compute
  <2>2. r.reply = TRUE /\ r.aos = msgs[m].aos /\ r.slot = sl /\ r.data = dt
        /\ g.slot = sl /\ g.data = dt
    BY <2>1 DEF Record
  <2>3. /\ msgs'[m] = r /\ io'[m] = r /\ pc'[m] = "arweave" /\ got'[m] = g
        /\ sl \in DOMAIN results /\ UNCHANGED <<cu, log, sent, results>> /\ Others(m)
    BY <1>4, <1>v DEF compute, replied, cu, ext, Others
  <2>4. msgs'[m] \in Record \cup {NONE} /\ pc'[m] # "idle" /\ msgs'[m] # NONE
    BY <1>v, <1>t, <2>3 DEF AOInv, Types, At
  <2> HIDE DEF r, g
  <2>5. OnceAt(m)'
    BY <2>2, <2>3, <2>4 DEF OnceAt, IsResult
  <2> QED BY <2>1, <2>2, <2>3, <2>4, <2>5, OneHandlerOnce, SentOnce
<1>p. ASSUME msgs'[m] = msgs[m], io'[m] = io[m], got'[m] = got[m],
             pc[m] \in {"arweave", "aos"}, pc'[m] \in {"aos", "finish"},
             UNCHANGED <<cu, log, sent, results>>, Others(m)
      PROVE  OnceInv'
  <2>1. OnceAt(m)'
    BY <1>t, <1>p DEF OnceAt, IsResult
  <2> QED BY <1>p, <2>1, OneHandlerOnce, SentOnce
<1>5. CASE skipArweave(m)
  BY <1>5, <1>p, <1>v DEF skipArweave, ext, cu, Others
<1>6. CASE skipAOS(m)
  BY <1>6, <1>p, <1>v DEF skipAOS, ext, cu, Others
(* A step stores a new record of m. *)
<1>s. ASSUME NEW p \in {"aos", "finish", "idle"}, msgs'[m] \in Record, io'[m] = msgs'[m], pc'[m] = p,
             pc[m] \in {"arweave", "aos", "finish"},
             got'[m] = got[m] \/ got'[m] = Nothing,
             msgs'[m].reply = msgs[m].reply, msgs'[m].slot = msgs[m].slot,
             msgs'[m].data = msgs[m].data,
             UNCHANGED <<cu, log, results>>, Others(m)
      PROVE  OnceAt(m)'
  <2>1. msgs[m] # NONE /\ msgs'[m] # NONE
    BY <1>s, <1>t, NoneAssumption DEF At
  <2>2. msgs[m].reply = TRUE /\ IsResult(msgs[m].slot, msgs[m].data) /\ IsResult(got[m].slot, got[m].data)
    BY <1>s, <1>t, <2>1 DEF OnceAt
  <2> QED BY <1>s, <1>q, <2>1, <2>2 DEF OnceAt, IsResult
<1>7. CASE toArweave(m)
  <2> DEFINE r == [msgs[m] EXCEPT !.ar = TRUE]
  <2>1. msgs[m] \in Record /\ msgs[m] # NONE
    BY <1>7, Working DEF toArweave
  <2>2. r \in Record /\ r.aos = msgs[m].aos /\ r.reply = msgs[m].reply /\ r.slot = msgs[m].slot
        /\ r.data = msgs[m].data
    BY <2>1 DEF Record
  <2>3. /\ pc[m] = "arweave" /\ msgs'[m] = r /\ io'[m] = r /\ pc'[m] = "aos" /\ got'[m] = got[m]
        /\ UNCHANGED <<cu, log, sent, results>> /\ Others(m)
    BY <1>7, <1>v DEF toArweave, cu, Others
  <2> HIDE DEF r
  <2>4. OnceAt(m)'
    BY <1>s, <2>2, <2>3
  <2> QED BY <2>1, <2>2, <2>3, <2>4, NoneAssumption, OneHandlerOnce, SentOnce
<1>8. CASE toAOS(m)
  <2> DEFINE r == [msgs[m] EXCEPT !.aos = TRUE]
             x == [msg |-> m, slot |-> got[m].slot, data |-> got[m].data]
  <2>1. msgs[m] \in Record /\ msgs[m] # NONE
    BY <1>8, Working DEF toAOS
  <2>2. r \in Record /\ r.aos = TRUE /\ r.reply = msgs[m].reply /\ r.slot = msgs[m].slot
        /\ r.data = msgs[m].data
    BY <2>1 DEF Record
  <2>3. /\ pc[m] = "aos" /\ msgs'[m] = r /\ io'[m] = r /\ pc'[m] = "finish" /\ got'[m] = got[m]
        /\ UNCHANGED <<cu, log, results>> /\ Others(m)
    BY <1>8, <1>v DEF toAOS, cu, Others
  <2>4. /\ sent' = sent \cup {x} /\ msgs[m].aos # TRUE /\ got[m].data # NONE
        /\ x.msg = m /\ x.slot = got[m].slot /\ x.data = got[m].data
    BY <1>8 DEF toAOS
  <2> HIDE DEF r, x
  <2>5. OnceAt(m)'
    BY <1>s, <2>2, <2>3
  <2>6. got[m].slot \in DOMAIN results /\ results[got[m].slot] = got[m].data
    BY <1>t, <2>4 DEF OnceAt, IsResult
  <2>7. \A q \in sent : q.msg # m
    BY <1>t, <2>4 DEF OnceSent
  <2>8. OnceSent'
    <3>1. \A q \in sent' : q = x \/ (q \in sent /\ q.msg # m)
      BY <2>4, <2>7
    <3>2. msgs'[m] # NONE /\ msgs'[m].aos = TRUE
      BY <2>2, <2>3, NoneAssumption
    <3>3. ASSUME NEW q \in sent'
          PROVE  /\ q.msg \in Msg /\ msgs'[q.msg] # NONE /\ msgs'[q.msg].aos = TRUE
                 /\ q.slot \in DOMAIN results' /\ q.data = results'[q.slot]
      <4>1. CASE q = x
        BY <2>3, <2>4, <2>6, <3>2, <4>1
      <4>2. CASE q \in sent /\ q.msg # m
        <5>1. q.msg \in Msg \ {m}
          BY <1>t, <4>2 DEF OnceSent
        <5> QED BY <1>t, <2>3, <4>2, <5>1 DEF OnceSent, Others
      <4> QED BY <3>1, <4>1, <4>2
    <3>4. \A a, b \in sent' : a.msg = b.msg => a = b
      BY <1>t, <2>4, <3>1 DEF OnceSent
    <3> QED BY <3>3, <3>4 DEF OnceSent
  <2> QED BY <2>3, <2>5, <2>8, OneHandlerOnce
<1>9. CASE finish(m)
  <2> DEFINE r == [msgs[m] EXCEPT !.done = TRUE]
  <2>1. msgs[m] \in Record /\ msgs[m] # NONE
    BY <1>9, Working DEF finish
  <2>2. r \in Record /\ r.aos = msgs[m].aos /\ r.reply = msgs[m].reply /\ r.slot = msgs[m].slot
        /\ r.data = msgs[m].data
    BY <2>1 DEF Record
  <2>3. /\ pc[m] = "finish" /\ pc'[m] = "idle" /\ got'[m] = Nothing
        /\ \/ msgs'[m] = msgs[m] /\ io'[m] = io[m]
           \/ msgs'[m] = r /\ io'[m] = r
        /\ UNCHANGED <<cu, log, sent, results>> /\ Others(m)
    BY <1>9, <1>v DEF finish, cu, ext, Others
  <2> HIDE DEF r
  <2>4. OnceAt(m)'
    <3>1. CASE msgs'[m] = msgs[m] /\ io'[m] = io[m]
      BY <1>t, <1>q, <2>1, <2>3, <3>1 DEF OnceAt, IsResult
    <3>2. CASE msgs'[m] = r /\ io'[m] = r
      BY <1>s, <2>2, <2>3, <3>2
    <3> QED BY <2>3, <3>1, <3>2
  <2>5. msgs'[m] # NONE /\ msgs'[m].aos = msgs[m].aos
    BY <2>1, <2>2, <2>3, NoneAssumption
  <2> QED BY <2>3, <2>4, <2>5, OneHandlerOnce, SentOnce
<1> QED BY <1>0, <1>1, <1>2, <1>3, <1>4, <1>5, <1>6, <1>7, <1>8, <1>9

LEMMA UnitsKeepOnce ==
  ASSUME AOInv, OnceInv, fails = 0, execute \/ store \/ mark
  PROVE  OnceInv'
<1>k. /\ wslot \in Nat /\ Len(log) \in Nat /\ Len(effects) \in Nat /\ effects \in Seq(Int)
      /\ log \in Seq(Msg) /\ wslot <= Len(log) /\ (wpc # "idle" => wslot < Len(log))
      /\ \A k \in 1..Len(log) : log[k] \in Int
      /\ \A s \in DOMAIN results : s \in 1..Len(log)
  <2>1. \A k \in 1..Len(log) : log[k] \in Int
    BY AOAssumption DEF AOInv, Types, Msg
  <2> QED BY <2>1 DEF AOInv, Types, Units
<1>o. OnceLog /\ OnceSent /\ OnceEffects /\ \A m \in Msg : OnceAt(m)
  BY DEF OnceInv
<1>1. UNCHANGED <<msgs, io, pc, got, log, sent>>
  BY DEF execute, store, mark, su, ext
<1>2. OnceLog'
  BY <1>1, <1>o DEF OnceLog
<1>3. ASSUME UNCHANGED results PROVE OnceSent' /\ \A m \in Msg : OnceAt(m)'
  BY <1>1, <1>3, <1>o, ZenonT(40) DEF OnceSent, OnceAt, IsResult
<1>4. CASE execute
  <2> DEFINE s == wslot + 1
             E == Len(effects)
             F == Len(effects')
  <2>1. /\ wpc = "idle" /\ wslot < Len(log) /\ wpc' = "store" /\ UNCHANGED <<results, wslot>>
        /\ \/ log[s] = E + 1 /\ effects' = Append(effects, log[s]) /\ outcome' = "ok"
           \/ log[s] # E + 1 /\ UNCHANGED effects /\ outcome' = "refused"
    BY <1>4 DEF execute, accepts
  <2>2. /\ s \in 1..Len(log) /\ log[s] \in Int /\ Executed = wslot /\ Executed' = s
        /\ Stored = wslot /\ Stored' = wslot
    BY <1>k, <2>1 DEF Executed, Stored
  <2>3. \/ F = E + 1 /\ log[s] = E + 1 /\ outcome' = "ok"
        \/ F = E /\ log[s] # E + 1 /\ outcome' = "refused"
    BY <1>k, <2>1, <2>2
  <2>4. \A k \in 1..wslot : log[k] # log[s]
    BY <1>k, <1>o, <2>2 DEF OnceLog
  <2>5. \A e \in 1..E : \E k \in 1..wslot : log[k] = e
    BY <1>o, <2>2 DEF OnceEffects
  <2>6. \A e \in 1..F : \E k \in 1..s : log[k] = e
    <3> SUFFICES ASSUME NEW e \in 1..F PROVE \E k \in 1..s : log[k] = e
      OBVIOUS
    <3>1. CASE e \in 1..E
      BY <1>k, <2>5, <3>1
    <3>2. CASE e \notin 1..E
      <4>1. log[s] = e /\ s \in 1..s
        BY <1>k, <2>3, <3>2
      <4> QED BY <4>1
    <3> QED BY <3>1, <3>2
  <2>7. log[s] >= 1
    BY <2>2, <1>k, AOAssumption DEF AOInv, Types, Msg
  <2>8. outcome' = "ok" <=> log[s] <= F
    <3>1. CASE log[s] = E + 1
      BY <1>k, <2>3, <3>1
    <3>2. CASE log[s] # E + 1
      <4>1. ~(log[s] <= E)
        <5> SUFFICES ASSUME log[s] <= E PROVE FALSE
          OBVIOUS
        <5>1. log[s] \in 1..E
          BY <1>k, <2>2, <2>7
        <5>2. PICK k \in 1..wslot : log[k] = log[s]
          BY <2>5, <5>1
        <5> QED BY <2>4, <5>2
      <4> QED BY <2>3, <3>2, <4>1
    <3> QED BY <3>1, <3>2
  <2>9. \A k \in DOMAIN results : results[k] = "ok" <=> log[k] <= F
    <3> SUFFICES ASSUME NEW k \in DOMAIN results PROVE results[k] = "ok" <=> log[k] <= F
      OBVIOUS
    <3>1. k \in 1..wslot /\ log[k] \in Int /\ log[k] # log[s]
      BY <1>k, <1>o, <2>2, <2>4 DEF OnceEffects
    <3>2. results[k] = "ok" <=> log[k] <= E
      BY <1>o DEF OnceEffects
    <3> QED BY <1>k, <2>3, <3>1, <3>2
  <2>10. OnceEffects'
    BY <1>1, <1>o, <2>1, <2>2, <2>6, <2>8, <2>9 DEF OnceEffects
  <2> QED BY <1>2, <1>3, <2>1, <2>10 DEF OnceInv
<1>5. CASE store
  <2> DEFINE s == wslot + 1
  <2>1. /\ wpc = "store" /\ wpc' = "mark" /\ UNCHANGED <<effects, wslot, outcome>>
        /\ DOMAIN results' = DOMAIN results \cup {s}
        /\ \A k \in DOMAIN results' : results'[k] = IF k = s THEN outcome ELSE results[k]
    BY <1>5 DEF store
  <2>2. /\ Executed = s /\ Executed' = s /\ Stored = wslot /\ Stored' = s
        /\ DOMAIN results = 1..wslot /\ DOMAIN results' = 1..s
    BY <1>k, <1>o, <2>1 DEF Executed, Stored, OnceEffects
  <2>3. \A k \in DOMAIN results : k \in DOMAIN results' /\ results'[k] = results[k]
    BY <1>k, <2>1, <2>2
  <2>4. OnceSent' /\ \A m \in Msg : OnceAt(m)'
    <3>1. OnceSent'
      BY <1>1, <1>o, <2>3 DEF OnceSent
    <3>2. ASSUME NEW m \in Msg PROVE OnceAt(m)'
      <4>1. \A slot, data : IsResult(slot, data) => IsResult(slot, data)'
        BY <2>3 DEF IsResult
      <4>2. OnceAt(m)
        BY <1>o
      <4> QED BY <1>1, <4>1, <4>2 DEF OnceAt
    <3> QED BY <3>1, <3>2
  <2>5. outcome = "ok" <=> log[s] <= Len(effects)
    BY <1>o, <2>1 DEF OnceEffects
  <2>6. \A k \in DOMAIN results' : results'[k] = "ok" <=> log[k] <= Len(effects)
    BY <1>o, <2>1, <2>5 DEF OnceEffects
  <2>7. OnceEffects'
    BY <1>1, <1>o, <2>1, <2>2, <2>6 DEF OnceEffects
  <2> QED BY <1>2, <2>4, <2>7 DEF OnceInv
<1>6. CASE mark
  <2>1. wpc = "mark" /\ wpc' = "idle" /\ wslot' = wslot + 1 /\ UNCHANGED <<effects, results>>
    BY <1>6 DEF mark, nextSlot
  <2>2. Executed' = Executed /\ Stored' = Stored
    BY <2>1 DEF Executed, Stored
  <2>3. OnceEffects'
    BY <1>1, <1>o, <2>1, <2>2 DEF OnceEffects
  <2> QED BY <1>2, <1>3, <2>1, <2>3 DEF OnceInv
<1> QED BY <1>4, <1>5, <1>6

LEMMA NextOnceInv == AOInv /\ AOInv' /\ OnceInv /\ [Next]_vars => OnceInv'
<1> SUFFICES ASSUME AOInv, AOInv', OnceInv, [Next]_vars, fails' = 0 PROVE OnceInv'
  BY DEF OnceInv
<1>1. fails \in Nat
  BY DEF AOInv, Types
<1>2. CASE UNCHANGED vars
  <2>1. UNCHANGED <<msgs, io, pc, got, log, sent, effects, results, wslot, wpc, outcome, fails>>
    BY <1>2 DEF vars, su, cu, ext
  <2>2. OnceLog /\ OnceSent /\ OnceEffects /\ \A m \in Msg : OnceAt(m)
    BY <2>1 DEF OnceInv
  <2>3. OnceLog' /\ OnceSent'
    BY <2>1, <2>2 DEF OnceLog, OnceSent
  <2>4. OnceEffects'
    BY <2>1, <2>2 DEF OnceEffects, Executed, Stored
  <2>5. \A m \in Msg : OnceAt(m)'
    BY <2>1, <2>2 DEF OnceAt, IsResult
  <2> QED BY <2>3, <2>4, <2>5 DEF OnceInv
<1>3. ASSUME NEW m \in Msg,
             submit(m) \/ duplicate(m) \/ schedule(m) \/ compute(m) \/ refuse(m) \/ throw(m)
               \/ skipArweave(m) \/ toArweave(m) \/ failArweave(m)
               \/ skipAOS(m) \/ toAOS(m) \/ failAOS(m) \/ finish(m)
      PROVE  OnceInv'
  <2>1. fails = 0
    BY <1>1, <1>3 DEF submit, duplicate, schedule, compute, refuse, throw, skipArweave, toArweave,
                      failArweave, skipAOS, toAOS, failAOS, finish
  <2> QED BY <1>3, <2>1, HandlerKeepsOnce
<1>4. CASE execute \/ store \/ mark
  <2>1. fails = 0
    BY <1>4 DEF execute, store, mark
  <2> QED BY <1>4, <2>1, UnitsKeepOnce
<1>5. ~(crashSU \/ crashCU)
  BY <1>1 DEF crashSU, crashCU
<1> QED BY <1>2, <1>3, <1>4, <1>5 DEF Next

(* su.js:94-160 and cu.js:212-240: while nothing fails a message that is   *)
(* posted again and again is scheduled and answered once, and the answer   *)
(* says whether it took effect.                                            *)
THEOREM NothingTwice == Spec => []OnceWhileNothingFails
<1>1. AOInv /\ OnceInv => OnceWhileNothingFails
  <2> SUFFICES ASSUME AOInv, OnceInv, fails = 0
               PROVE  /\ \A i, j \in 1..Len(log) : log[i] = log[j] => i = j
                      /\ \A r, q \in sent : r.msg = q.msg => r = q
                      /\ \A r \in sent : r.data = "ok" <=> \E k \in 1..Len(effects) : effects[k] = r.msg
    BY DEF OnceWhileNothingFails
  <2>1. OnceLog /\ OnceSent /\ OnceEffects
    BY DEF OnceInv
  <2>2. ASSUME NEW r \in sent
        PROVE  r.data = "ok" <=> \E k \in 1..Len(effects) : effects[k] = r.msg
    <3>1. /\ r.slot \in DOMAIN results /\ r.data = results[r.slot] /\ log[r.slot] = r.msg
          /\ r.msg \in Msg
      BY <2>1 DEF OnceSent, AOInv, Sent, Holds
    <3>2. r.data = "ok" <=> r.msg <= Len(effects)
      BY <2>1, <3>1 DEF OnceEffects
    <3>3. r.msg \in Nat /\ r.msg >= 1
      BY <3>1, AOAssumption DEF Msg
    <3>4. Len(effects) \in Nat /\ \A k \in 1..Len(effects) : effects[k] = k
      BY DEF AOInv, Units
    <3> QED BY <3>2, <3>3, <3>4
  <2> QED BY <2>1, <2>2 DEF OnceLog, OnceSent
<1>2. Init => AOInv /\ OnceInv
  BY InitAOInv, InitOnceInv
<1>3. AOInv /\ OnceInv /\ [Next]_vars => (AOInv /\ OnceInv)'
  BY NextAOInv, NextOnceInv
<1> QED BY <1>1, <1>2, <1>3, PTL DEF Spec

-----------------------------------------------------------------------------
(* Induction over the naturals, for a set. *)
LEMMA Induction ==
  ASSUME NEW S, 0 \in S, \A n \in Nat : n \in S => n + 1 \in S
  PROVE  \A n \in Nat : n \in S
<1> DEFINE T == Nat \ S
           R == OpToRel(<, Nat)
<1> SUFFICES ASSUME T # {}
             PROVE  FALSE
  OBVIOUS
<1>1. T \subseteq Nat /\ IsWellFoundedOn(R, Nat)
  BY NatLessThanWellFounded
<1> HIDE DEF T, R
<1>2. PICK x \in T : \A y \in T : ~(<<y, x>> \in R)
  BY <1>1, WFMin
<1>3. x \in Nat /\ x # 0 /\ x \notin S
  BY <1>1 DEF T
<1>4. x - 1 \in Nat /\ x - 1 < x /\ (x - 1) + 1 = x
  BY <1>3
<1>5. x - 1 \notin T
  BY <1>2, <1>3, <1>4 DEF R, OpToRel
<1> QED
  BY <1>3, <1>4, <1>5 DEF T

(* What the function in Replay is: its values for the slots of lg up to k. *)
After(g, lg, k) ==
  g = [n \in 0..k |-> IF n = 0 THEN 0
                      ELSE IF lg[n] = g[n - 1] + 1 THEN lg[n] ELSE g[n - 1]]

LEMMA AfterExists ==
  ASSUME NEW lg
  PROVE  \A k \in Nat : \E g : After(g, lg, k)
<1> DEFINE S == {k \in Nat : \E g : After(g, lg, k)}
<1>1. 0 \in S
  <2> DEFINE g == [n \in 0..0 |-> 0]
  <2>1. After(g, lg, 0)
    BY DEF After
  <2> QED BY <2>1
<1>2. ASSUME NEW k \in Nat, k \in S
      PROVE  k + 1 \in S
  <2>1. PICK g : After(g, lg, k)
    BY <1>2
  <2>2. /\ \A n \in 0..k : g[n] = IF n = 0 THEN 0
                                  ELSE IF lg[n] = g[n - 1] + 1 THEN lg[n] ELSE g[n - 1]
    BY <2>1 DEF After
  <2> DEFINE last == IF lg[k + 1] = g[k] + 1 THEN lg[k + 1] ELSE g[k]
             h == [n \in 0..(k + 1) |-> IF n <= k THEN g[n] ELSE last]
             f == [n \in 0..(k + 1) |-> IF n = 0 THEN 0
                      ELSE IF lg[n] = h[n - 1] + 1 THEN lg[n] ELSE h[n - 1]]
  <2>3. ASSUME NEW n \in 0..(k + 1)
        PROVE  h[n] = f[n]
    <3>1. CASE n = 0
      BY <2>2, <3>1
    <3>2. CASE n # 0 /\ n <= k
      <4>1. n \in 0..k /\ n - 1 \in 0..k /\ n - 1 \in 0..(k + 1) /\ n - 1 <= k
        BY <3>2
      <4>2. h[n] = g[n] /\ h[n - 1] = g[n - 1]
        BY <3>2, <4>1
      <4> QED BY <2>2, <3>2, <4>1, <4>2
    <3>3. CASE ~(n <= k)
      <4>1. n = k + 1 /\ n - 1 = k /\ n # 0 /\ k \in 0..(k + 1) /\ k <= k
        BY <3>3
      <4>2. h[n] = last /\ h[n - 1] = g[k]
        BY <3>3, <4>1
      <4> QED BY <4>1, <4>2
    <3> QED BY <3>1, <3>2, <3>3
  <2>4. h = f
    <3> HIDE DEF last
    <3>1. DOMAIN h = 0..(k + 1) /\ DOMAIN f = 0..(k + 1)
      OBVIOUS
    <3> QED BY <2>3, <3>1
  <2>5. After(h, lg, k + 1)
    BY <2>4 DEF After
  <2> QED BY <2>5
<1> HIDE DEF S
<1>3. \A k \in Nat : k \in S
  BY <1>1, <1>2, Induction
<1> QED BY <1>3 DEF S

(* Its value for the slot m depends on the slots up to m only. *)
Obeys(g, lg, m) ==
  \A n \in 0..m : g[n] = IF n = 0 THEN 0
                         ELSE IF lg[n] = g[n - 1] + 1 THEN lg[n] ELSE g[n - 1]

LEMMA AfterAgrees ==
  ASSUME NEW lg, NEW lh, NEW m \in Nat, \A n \in 1..m : lg[n] = lh[n],
         NEW g, NEW h, Obeys(g, lg, m), Obeys(h, lh, m)
  PROVE  g[m] = h[m]
<1> DEFINE S == {n \in Nat : n <= m => g[n] = h[n]}
<1>1. 0 \in S
  <2>1. 0 \in 0..m
    OBVIOUS
  <2> QED BY <2>1 DEF Obeys
<1>2. ASSUME NEW n \in Nat, n \in S
      PROVE  n + 1 \in S
  <2> SUFFICES ASSUME n + 1 <= m
               PROVE  g[n + 1] = h[n + 1]
    OBVIOUS
  <2>1. /\ n + 1 \in 0..m /\ n + 1 # 0 /\ (n + 1) - 1 = n
        /\ n + 1 \in 1..m /\ n <= m
    OBVIOUS
  <2>2. g[n] = h[n] /\ lg[n + 1] = lh[n + 1]
    BY <1>2, <2>1
  <2> QED BY <2>1, <2>2 DEF Obeys
<1> HIDE DEF S
<1>3. m \in S
  BY <1>1, <1>2, Induction
<1> QED BY <1>3 DEF S

LEMMA ReplayIs ==
  ASSUME NEW k \in Nat
  PROVE  \E g : After(g, log, k) /\ Replay(k) = g[k]
<1> DEFINE h == CHOOSE g : After(g, log, k)
<1>1. After(h, log, k)
  BY AfterExists
<1>2. Replay(k) = h[k]
  BY DEF Replay, After
<1> QED BY <1>1, <1>2

(* Replay executes the slots one by one. *)
LEMMA ReplayStep ==
  ASSUME NEW k \in Nat
  PROVE  Replay(k + 1) = IF log[k + 1] = Replay(k) + 1 THEN log[k + 1] ELSE Replay(k)
<1>1. PICK g : After(g, log, k) /\ Replay(k) = g[k]
  BY ReplayIs
<1>2. k + 1 \in Nat
  OBVIOUS
<1>3. PICK h : After(h, log, k + 1) /\ Replay(k + 1) = h[k + 1]
  BY <1>2, ReplayIs
<1>4. Obeys(g, log, k) /\ Obeys(h, log, k)
  BY <1>1, <1>3 DEF After, Obeys
<1>5. g[k] = h[k]
  BY <1>4, AfterAgrees, ZenonT(40)
<1>6. k + 1 \in 0..(k + 1) /\ k + 1 # 0 /\ (k + 1) - 1 = k
  OBVIOUS
<1>7. h[k + 1] = IF log[k + 1] = h[k] + 1 THEN log[k + 1] ELSE h[k]
  BY <1>3, <1>6 DEF After
<1> QED BY <1>1, <1>3, <1>5, <1>7

(* A log that grows does not change it. *)
LEMMA ReplayKeeps ==
  ASSUME NEW k \in Nat, \A n \in 1..k : log'[n] = log[n]
  PROVE  Replay(k)' = Replay(k)
<1>1. PICK g : After(g, log, k) /\ Replay(k) = g[k]
  BY ReplayIs
<1> DEFINE h == CHOOSE f : After(f, log', k)
<1>2. After(h, log', k)
  BY AfterExists
<1>3. Replay(k)' = h[k]
  BY DEF Replay, After
<1> HIDE DEF h
<1>4. Obeys(g, log, k) /\ Obeys(h, log', k)
  BY <1>1, <1>2 DEF After, Obeys
<1>5. g[k] = h[k]
  BY <1>4, AfterAgrees
<1> QED BY <1>1, <1>3, <1>5

(* Where write() is decides which slots are behind it. *)
NextSlot == IF wslot < Len(log) THEN wslot + 1 ELSE wslot
FollowInv ==
  /\ wpc = "idle" => Len(effects) \in {Replay(wslot), Replay(NextSlot)}
  /\ wpc # "idle" => Len(effects) = Replay(wslot + 1)
  /\ DOMAIN results \in {1..wslot, 1..(wslot + 1)}
  /\ wpc = "mark" => DOMAIN results = 1..(wslot + 1)

LEMMA NextFollowInv == AOInv /\ AOInv' /\ FollowInv /\ [Next]_vars => FollowInv'
<1> SUFFICES ASSUME AOInv, AOInv', FollowInv, [Next]_vars
             PROVE  FollowInv'
  OBVIOUS
<1>k. /\ wslot \in Nat /\ wslot + 1 \in Nat /\ wslot <= Len(log) /\ Len(log) \in Nat
      /\ effects \in Seq(Int) /\ Len(effects) \in Nat /\ log \in Seq(Msg)
      /\ wpc \in {"idle", "store", "mark"}
      /\ wpc # "idle" => wslot < Len(log)
  BY DEF AOInv, Types, Units
<1>1. ASSUME UNCHANGED <<log, effects, results, wslot, wpc>>
      PROVE  FollowInv'
  <2>1. Replay(wslot)' = Replay(wslot) /\ Replay(NextSlot)' = Replay(NextSlot)
        /\ Replay(wslot + 1)' = Replay(wslot + 1)
    BY <1>1 DEF Replay, NextSlot
  <2> QED BY <1>1, <2>1 DEF FollowInv
<1>2. ASSUME NEW m \in Msg, schedule(m)
      PROVE  FollowInv'
  <2>1. log' = Append(log, m) /\ UNCHANGED <<effects, results, wslot, wpc>>
    BY <1>2 DEF schedule, cu
  <2>2. Len(log') = Len(log) + 1 /\ \A n \in 1..Len(log) : log'[n] = log[n]
    BY <1>k, <2>1
  <2>3. Replay(wslot)' = Replay(wslot)
    <3>1. \A n \in 1..wslot : log'[n] = log[n]
      BY <1>k, <2>2
    <3>2. UNCHANGED wslot
      BY <2>1
    <3>3. ASSUME NEW k \in Nat, k = wslot
          PROVE  Replay(k)' = Replay(k)
      BY <3>1, <3>3, ReplayKeeps
    <3> QED BY <1>k, <3>2, <3>3 DEF Replay
  <2>4. wslot < Len(log) => Replay(wslot + 1)' = Replay(wslot + 1)
    <3> SUFFICES ASSUME wslot < Len(log)
                 PROVE  Replay(wslot + 1)' = Replay(wslot + 1)
      OBVIOUS
    <3>1. \A n \in 1..(wslot + 1) : log'[n] = log[n]
      BY <1>k, <2>2
    <3>2. UNCHANGED wslot
      BY <2>1
    <3>3. ASSUME NEW k \in Nat, k = wslot + 1
          PROVE  Replay(k)' = Replay(k)
      BY <3>1, <3>3, ReplayKeeps
    <3> QED BY <1>k, <3>2, <3>3 DEF Replay
  <2>5. wslot' < Len(log') /\ NextSlot' = wslot' + 1 /\ wslot' = wslot
    BY <1>k, <2>1, <2>2 DEF NextSlot
  <2>6. NextSlot = wslot \/ (wslot < Len(log) /\ NextSlot = wslot + 1)
    BY DEF NextSlot
  <2>7. wpc' = "idle" => Len(effects') \in {Replay(wslot)', Replay(NextSlot)'}
    <3> SUFFICES ASSUME wpc = "idle"
                 PROVE  Len(effects) \in {Replay(wslot)', Replay(NextSlot)'}
      BY <2>1
    <3>1. CASE NextSlot = wslot
      BY <2>3, <3>1 DEF FollowInv
    <3>2. CASE wslot < Len(log) /\ NextSlot = wslot + 1
      <4>1. Replay(NextSlot)' = Replay(wslot + 1)'
        BY <2>5 DEF Replay
      <4> QED BY <2>3, <2>4, <3>2, <4>1 DEF FollowInv
    <3> QED BY <2>6, <3>1, <3>2
  <2>8. wpc' # "idle" => Len(effects') = Replay(wslot + 1)'
    BY <1>k, <2>1, <2>4 DEF FollowInv
  <2>9. /\ DOMAIN results' \in {1..wslot', 1..(wslot' + 1)}
        /\ wpc' = "mark" => DOMAIN results' = 1..(wslot' + 1)
    BY <2>1 DEF FollowInv
  <2> QED BY <2>7, <2>8, <2>9 DEF FollowInv
<1>3. CASE execute
  <2> DEFINE m == log[wslot + 1]
  <2>1. /\ wpc = "idle" /\ wslot < Len(log) /\ wpc' = "store" /\ UNCHANGED <<results, wslot, log>>
        /\ effects' = IF m = Len(effects) + 1 THEN Append(effects, m) ELSE effects
    BY <1>3 DEF execute, accepts, ext
  <2>2. m \in Nat
    BY <1>k, <2>1, AOAssumption DEF Msg
  <2>3. Replay(wslot + 1) = IF m = Replay(wslot) + 1 THEN m ELSE Replay(wslot)
    BY <1>k, ReplayStep
  <2>4. NextSlot = wslot + 1
    BY <2>1 DEF NextSlot
  <2>5. Len(effects) \in {Replay(wslot), Replay(wslot + 1)}
    BY <2>1, <2>4 DEF FollowInv
  <2>6. Len(effects') = IF m = Len(effects) + 1 THEN Len(effects) + 1 ELSE Len(effects)
    BY <1>k, <2>1, <2>2
  <2> HIDE DEF m
  <2>7. Len(effects') = Replay(wslot + 1)
    BY <1>k, <2>2, <2>3, <2>5, <2>6
  <2>8. Replay(wslot + 1)' = Replay(wslot + 1)
    BY <2>1 DEF Replay
  <2> QED BY <2>1, <2>7, <2>8 DEF FollowInv
<1>4. CASE store
  <2>1. /\ wpc = "store" /\ wpc' = "mark" /\ UNCHANGED <<effects, wslot, log>>
        /\ DOMAIN results' = DOMAIN results \cup {wslot + 1}
    BY <1>4 DEF store, ext
  <2>2. DOMAIN results' = 1..(wslot + 1)
    BY <1>k, <2>1 DEF FollowInv
  <2>3. Replay(wslot + 1)' = Replay(wslot + 1)
    BY <2>1 DEF Replay
  <2> QED BY <2>1, <2>2, <2>3 DEF FollowInv
<1>5. CASE mark
  <2>1. wpc = "mark" /\ wslot' = wslot + 1 /\ wpc' = "idle" /\ UNCHANGED <<effects, results, log>>
    BY <1>5 DEF mark, nextSlot, ext
  <2>2. Replay(wslot)' = Replay(wslot + 1)
    BY <2>1 DEF Replay
  <2> QED BY <2>1, <2>2 DEF FollowInv
<1>6. CASE crashCU
  <2>1. wpc' = "idle" /\ UNCHANGED <<effects, results, wslot, log>>
    BY <1>6 DEF crashCU, ext
  <2>2. /\ Replay(wslot)' = Replay(wslot) /\ Replay(NextSlot)' = Replay(NextSlot)
        /\ wpc # "idle" => NextSlot = wslot + 1
    BY <1>k, <2>1 DEF Replay, NextSlot
  <2> QED BY <2>1, <2>2 DEF FollowInv
<1>7. CASE crashSU
  BY <1>1, <1>7 DEF crashSU, cu, ext
<1>8. ASSUME NEW m \in Msg,
             submit(m) \/ duplicate(m) \/ compute(m) \/ refuse(m) \/ throw(m)
               \/ skipArweave(m) \/ toArweave(m) \/ failArweave(m)
               \/ skipAOS(m) \/ toAOS(m) \/ failAOS(m) \/ finish(m)
      PROVE  FollowInv'
  BY <1>1, <1>8 DEF submit, duplicate, compute, refuse, throw, skipArweave, toArweave,
                    failArweave, skipAOS, toAOS, failAOS, finish, cu, ext
<1>9. CASE UNCHANGED vars
  BY <1>1, <1>9 DEF vars, cu, ext
<1> QED BY <1>2, <1>3, <1>4, <1>5, <1>6, <1>7, <1>8, <1>9 DEF Next

(* cu.js:212-240: what took effect is what executing the slots once gives, *)
(* whatever the log holds twice and wherever the compute unit dies.        *)
THEOREM EffectsAreTheLog == Spec => []EffectsFollowLog
<1>1. Init => FollowInv
  <2> SUFFICES ASSUME Init
               PROVE  FollowInv
    OBVIOUS
  <2>1. Len(effects) = 0 /\ wslot = 0 /\ wpc = "idle" /\ DOMAIN results = 1..0 /\ Len(log) = 0
    BY DEF Init
  <2>2. PICK g : After(g, log, 0) /\ Replay(0) = g[0]
    BY ReplayIs
  <2>3. Replay(0) = 0
    BY <2>2 DEF After
  <2> QED BY <2>1, <2>3 DEF FollowInv
<1>2. AOInv /\ FollowInv => EffectsFollowLog
  <2> SUFFICES ASSUME AOInv, FollowInv
               PROVE  EffectsFollowLog
    OBVIOUS
  <2>1. effects \in Seq(Int) /\ \A k \in 1..Len(effects) : effects[k] = k
    BY DEF AOInv, Units
  <2>2. effects = [k \in 1..Len(effects) |-> k]
    BY <2>1
  <2>3. /\ wpc # "idle" => NextSlot = wslot + 1
        /\ NextSlot = IF wslot < Len(log) THEN wslot + 1 ELSE wslot
    BY DEF AOInv, Units, NextSlot
  <2>4. Len(effects) \in {Replay(wslot), Replay(NextSlot)}
    BY <2>3 DEF FollowInv
  <2> QED BY <2>2, <2>3, <2>4 DEF FollowInv, EffectsFollowLog
<1>3. Init => AOInv
  BY InitAOInv
<1>4. AOInv /\ [Next]_vars => AOInv'
  BY NextAOInv
<1>5. AOInv /\ AOInv' /\ FollowInv /\ [Next]_vars => FollowInv'
  BY NextFollowInv
<1> QED BY <1>1, <1>2, <1>3, <1>4, <1>5, PTL DEF Spec
=============================================================================
