--------------------------- MODULE ValidatorProofs ---------------------------
(* For every log, page, batch and number of crashes: what a validator has  *)
(* downloaded, replayed and posted.                                        *)
EXTENDS Validator, WellFoundedInduction, TLAPS

(* Downloading. *)
Pages == [from : Int, next : Int, pos : Nat, last : Int]

IsComplete(k) == Range(hb[k]) \subseteq wmsg

SyncTypes ==
  /\ hb \in Seq(Seq(Int)) /\ page \in Pages
  /\ slot \in Int /\ savedSlot \in Int

Place ==
  /\ -1 <= savedSlot /\ savedSlot <= slot /\ slot <= Len(hb) /\ page.last <= Len(hb)
  /\ page # NoPage => slot = IF page.pos > 0 THEN page.next ELSE page.next - 1

AtMsg ==
  page.pos > 0 =>
    /\ page # NoPage /\ page.next <= page.last /\ slot >= 1 /\ savedSlot < slot
    /\ page.pos <= Len(hb[slot])
    /\ \A p \in 1..(page.pos - 1) : hb[slot][p] \in wmsg

Downloaded == \A k \in 1..slot : IsComplete(k) \/ (page.pos > 0 /\ k = slot)

SyncInv == SyncTypes /\ Place /\ AtMsg /\ Downloaded

LEMMA InitSyncInv == Init => SyncInv
<1> SUFFICES ASSUME Init PROVE SyncInv
  OBVIOUS
<1>1. hb \in Seq(Seq(Int)) /\ Len(hb) = 0
  BY DEF Init
<1>2. page = NoPage /\ page \in Pages /\ page.pos = 0 /\ page.last = -1
  BY DEF Init, NoPage, Pages
<1> QED BY <1>1, <1>2 DEF Init, SyncInv, SyncTypes, Place, AtMsg, Downloaded

LEMMA PageIsPage ==
  ASSUME SyncInv, NEW from \in Int, NEW to \in Int
  PROVE  /\ PageOf(from, to) \in Pages /\ PageOf(from, to).pos = 0
         /\ PageOf(from, to).next = from /\ PageOf(from, to).last <= Len(hb)
<1>1. Len(hb) \in Nat
  BY DEF SyncInv, SyncTypes
<1> QED BY <1>1 DEF PageOf, Pages

LEMMA NextSyncInv == SyncInv /\ [Next]_vars => SyncInv'
<1> SUFFICES ASSUME SyncInv, [Next]_vars PROVE SyncInv'
  OBVIOUS
<1>k. /\ hb \in Seq(Seq(Int)) /\ Len(hb) \in Nat /\ page \in Pages
      /\ page.pos \in Nat /\ page.next \in Int /\ page.last \in Int /\ page.from \in Int
  BY DEF SyncInv, SyncTypes, Pages
<1>i. slot \in Int /\ savedSlot \in Int
  BY DEF SyncInv, SyncTypes
<1>d. Place /\ AtMsg /\ Downloaded
  BY DEF SyncInv
<1> USE DEF SyncInv
<1>1. ASSUME UNCHANGED <<hb, sync>> PROVE SyncInv'
  BY <1>1 DEF SyncTypes, Place, AtMsg, Downloaded, IsComplete, sync
<1>2. ASSUME NEW f \in Entries, NEW t \in 1..Len(Wal), ship(f, t) PROVE SyncInv'
  <2> DEFINE b == [k \in 1..(t - f) |-> f + k - 1]
  <2>1. f \in Int /\ t \in Int
    BY ValidatorAssumption DEF Entries
  <2>2. b \in Seq(Int)
    BY <2>1
  <2>3. hb' = Append(hb, b) /\ UNCHANGED sync
    BY <1>2 DEF ship, Feed!Ship
  <2> HIDE DEF b
  <2>4. /\ hb' \in Seq(Seq(Int)) /\ Len(hb') = Len(hb) + 1
        /\ \A k \in 1..Len(hb) : hb'[k] = hb[k]
    BY <1>k, <2>2, <2>3
  <2>5. SyncTypes' /\ Place'
    BY <1>k, <1>i, <1>d, <2>3, <2>4 DEF SyncTypes, Place, sync
  <2>6. AtMsg'
    <3>1. slot >= 1 => slot \in 1..Len(hb)
      BY <1>k, <1>i, <1>d DEF Place
    <3> QED BY <1>d, <2>3, <2>4, <3>1 DEF AtMsg, sync
  <2>7. Downloaded'
    <3>1. \A k \in 1..slot : k \in 1..Len(hb)
      BY <1>k, <1>i, <1>d DEF Place
    <3> QED BY <1>d, <2>3, <2>4, <3>1 DEF Downloaded, IsComplete, sync
  <2> QED BY <2>5, <2>6, <2>7
<1>3. CASE get
  <2>1. page' = PageOf(slot + 1, slot + Limit) /\ page = NoPage
        /\ UNCHANGED <<hb, slot, savedSlot, wmsg>>
    BY <1>3 DEF get
  <2>2. /\ page' \in Pages /\ page'.pos = 0 /\ page'.next = slot + 1 /\ page'.last <= Len(hb)
    <3>1. slot + 1 \in Int /\ slot + Limit \in Int
      BY <1>i, ValidatorAssumption
    <3>2. \A from, to \in Int :
            /\ PageOf(from, to) \in Pages /\ PageOf(from, to).pos = 0
            /\ PageOf(from, to).next = from /\ PageOf(from, to).last <= Len(hb)
      BY PageIsPage
    <3> QED BY <2>1, <3>1, <3>2
  <2>3. page.pos = 0
    BY <2>1 DEF NoPage
  <2>4. SyncTypes' /\ Place' /\ AtMsg'
    BY <1>k, <1>i, <1>d, <2>1, <2>2 DEF SyncTypes, Place, AtMsg
  <2> QED BY <1>d, <2>1, <2>2, <2>3, <2>4 DEF Downloaded, IsComplete
<1>4. CASE nextMsg
  <2>1. /\ page # NoPage /\ page.pos = 0 /\ slot = page.next - 1
        /\ page.next <= page.last /\ slot' = page.next
        /\ UNCHANGED <<hb, savedSlot, wmsg>>
    BY <1>k, <1>i, <1>d, <1>4 DEF nextMsg, Place
  <2>2. page.next >= 0 /\ page.next <= Len(hb)
    BY <1>k, <1>i, <1>d, <2>1 DEF Place
  <2>3. CASE Data(page.next) = <<>>
    <3>1. page' = [page EXCEPT !.next = page.next + 1]
      BY <1>4, <2>3 DEF nextMsg
    <3>2. page' \in Pages /\ page'.pos = 0 /\ page'.next = page.next + 1 /\ page'.last = page.last
      BY <1>k, <2>1, <3>1 DEF Pages
    <3>3. slot' >= 1 => IsComplete(slot')
      BY <1>k, <2>1, <2>3 DEF Data, IsComplete, Range
    <3>4. \A k \in 1..slot' : IsComplete(k)'
      <4>1. \A k \in 1..slot' : k \in 1..slot \/ k = slot'
        BY <1>k, <1>i, <2>1
      <4>2. \A k \in 1..slot' : IsComplete(k)
        BY <1>k, <1>i, <1>d, <2>1, <3>3, <4>1 DEF Downloaded
      <4> QED BY <2>1, <4>2 DEF IsComplete
    <3>5. SyncTypes' /\ Place' /\ AtMsg'
      BY <1>k, <1>i, <1>d, <2>1, <2>2, <3>2 DEF SyncTypes, Place, AtMsg
    <3> QED BY <3>4, <3>5 DEF Downloaded
  <2>4. CASE Data(page.next) # <<>>
    <3>1. page' = [page EXCEPT !.pos = 1]
      BY <1>4, <2>4 DEF nextMsg
    <3>2. page' \in Pages /\ page'.pos = 1 /\ page'.next = page.next /\ page'.last = page.last
      BY <1>k, <2>1, <3>1 DEF Pages
    <3>3. page.next \in 1..Len(hb) /\ Len(hb[page.next]) >= 1
      BY <1>k, <2>2, <2>4 DEF Data
    <3>4. page' # NoPage
      BY <3>2 DEF NoPage
    <3>5. \A k \in 1..slot' : IsComplete(k)' \/ k = slot'
      <4>1. \A k \in 1..slot' : k \in 1..slot \/ k = slot'
        BY <1>k, <1>i, <2>1
      <4> QED BY <1>k, <1>d, <2>1, <4>1 DEF Downloaded, IsComplete
    <3>6. SyncTypes' /\ Place'
      BY <1>k, <1>i, <1>d, <2>1, <2>2, <3>2 DEF SyncTypes, Place
    <3>7. AtMsg'
      BY <1>k, <1>i, <1>d, <2>1, <2>2, <3>2, <3>3, <3>4 DEF AtMsg, Place
    <3> QED BY <3>2, <3>5, <3>6, <3>7 DEF Downloaded
  <2> QED BY <2>3, <2>4
<1>5. CASE onslot
  <2> DEFINE e == Data(page.next)[page.pos]
  <2>1. /\ page.pos > 0 /\ wmsg' = wmsg \cup {e} /\ UNCHANGED <<hb, slot, savedSlot>>
        /\ page # NoPage /\ slot = page.next /\ slot \in 1..Len(hb)
        /\ page.pos \in 1..Len(hb[slot])
    BY <1>k, <1>i, <1>d, <1>5 DEF onslot, Place, AtMsg
  <2>2. Data(page.next) = hb[slot] /\ e = hb[slot][page.pos]
    BY <2>1 DEF Data
  <2>3. \A p \in 1..page.pos : hb[slot][p] \in wmsg'
    BY <1>k, <1>d, <2>1, <2>2, SMTT(30) DEF AtMsg
  <2>4. \A k \in 1..slot : k # slot => IsComplete(k)'
    BY <1>d, <2>1 DEF Downloaded, IsComplete
  <2>5. hb[slot] \in Seq(Int)
    BY <1>k, <2>1
  <2>6. CASE page.pos < Len(hb[slot])
    <3>1. page' = [page EXCEPT !.pos = page.pos + 1]
      BY <1>5, <2>2, <2>6 DEF onslot
    <3>2. page' \in Pages /\ page'.pos = page.pos + 1 /\ page'.next = page.next /\ page'.last = page.last
      <4>1. page' = [from |-> page.from, next |-> page.next, pos |-> page.pos + 1, last |-> page.last]
        BY <1>k, <3>1 DEF Pages
      <4> QED BY <1>k, <4>1 DEF Pages
    <3>3. page' # NoPage
      BY <1>k, <3>2 DEF NoPage
    <3>4. /\ page'.pos > 0 /\ page'.pos <= Len(hb[slot])
          /\ \A p \in 1..(page'.pos - 1) : hb[slot][p] \in wmsg'
      BY <1>k, <2>3, <2>5, <2>6, <3>2, SMTT(30)
    <3>5. SyncTypes' /\ Place'
      BY <1>k, <1>i, <1>d, <2>1, <3>2 DEF SyncTypes, Place
    <3>6. AtMsg'
      BY <1>k, <1>i, <1>d, <2>1, <3>2, <3>3, <3>4 DEF AtMsg
    <3> QED BY <2>1, <2>4, <3>4, <3>5, <3>6 DEF Downloaded
  <2>7. CASE ~(page.pos < Len(hb[slot]))
    <3>1. page' = [page EXCEPT !.pos = 0, !.next = page.next + 1]
      BY <1>5, <2>2, <2>7 DEF onslot
    <3>2. page' \in Pages /\ page'.pos = 0 /\ page'.next = page.next + 1 /\ page'.last = page.last
      <4>1. page' = [from |-> page.from, next |-> page.next + 1, pos |-> 0, last |-> page.last]
        BY <1>k, <3>1 DEF Pages
      <4> QED BY <1>k, <4>1 DEF Pages
    <3>3. page.pos = Len(hb[slot])
      BY <1>k, <2>1, <2>5, <2>7
    <3>4. IsComplete(slot)'
      BY <2>1, <2>3, <2>5, <3>3, SMTT(30) DEF IsComplete, Range
    <3>5. SyncTypes' /\ Place' /\ AtMsg'
      BY <1>k, <1>i, <1>d, <2>1, <3>2 DEF SyncTypes, Place, AtMsg
    <3> QED BY <2>1, <2>4, <3>4, <3>5 DEF Downloaded
  <2> QED BY <2>6, <2>7
<1>6. CASE nextPage
  <2>1. page # NoPage /\ page.next > page.last /\ savedSlot' = slot /\ UNCHANGED <<hb, slot, wmsg>>
    BY <1>6 DEF nextPage
  <2>2. page.pos = 0 /\ slot = page.next - 1
    BY <1>k, <1>d, <2>1 DEF AtMsg, Place
  <2>3. \/ page' = NoPage
        \/ page' = PageOf(page.next, page.next + Limit)
    BY <1>6 DEF nextPage
  <2>4. /\ page' \in Pages /\ page'.pos = 0 /\ page'.last <= Len(hb)
        /\ page' # NoPage => page'.next = page.next
    <3>1. CASE page' = NoPage
      BY <1>k, <3>1 DEF NoPage, Pages
    <3>2. CASE page' = PageOf(page.next, page.next + Limit)
      <4>1. page.next + Limit \in Int
        BY <1>k, ValidatorAssumption
      <4>2. \A from, to \in Int :
              /\ PageOf(from, to) \in Pages /\ PageOf(from, to).pos = 0
              /\ PageOf(from, to).next = from /\ PageOf(from, to).last <= Len(hb)
        BY PageIsPage
      <4> QED BY <1>k, <3>2, <4>1, <4>2
    <3> QED BY <2>3, <3>1, <3>2
  <2>5. SyncTypes' /\ Place' /\ AtMsg'
    BY <1>k, <1>i, <1>d, <2>1, <2>2, <2>4 DEF SyncTypes, Place, AtMsg
  <2> QED BY <1>d, <2>1, <2>2, <2>5 DEF Downloaded, IsComplete
<1>7. ASSUME Restarted PROVE SyncInv'
  <2>1. slot' = savedSlot /\ page' = NoPage /\ UNCHANGED <<hb, savedSlot, wmsg>>
    BY <1>7 DEF Restarted
  <2>2. page' \in Pages /\ page'.pos = 0 /\ page'.last = -1
    BY <2>1 DEF NoPage, Pages
  <2>3. SyncTypes' /\ Place' /\ AtMsg'
    BY <1>k, <1>i, <1>d, <2>1, <2>2 DEF SyncTypes, Place, AtMsg
  <2>4. \A k \in 1..savedSlot : IsComplete(k)
    BY <1>k, <1>i, <1>d DEF Downloaded, AtMsg, Place
  <2> QED BY <2>1, <2>3, <2>4 DEF Downloaded, IsComplete
<1> QED BY <1>1, <1>2, <1>3, <1>4, <1>5, <1>6, <1>7
        DEF Next, vars, crash, exit,
            write, dbWrite, mark, wkvCommit, flush, putCh, putChanges, post, take, done

(* Posting: the nonce of this process is at most the one that follows.     *)
following == IF cpc = "taken" THEN cslot + 2 ELSE cslot + 1

PostInv ==
  /\ cslot \in Int /\ nonce \in Int /\ posted \in Seq(Int)
  /\ cpc \in {"idle", "sent", "taken", "refused"}
  /\ cslot >= -1 /\ nonce <= cslot + 3
  /\ \A k \in 1..Len(posted) : posted[k] = k - 1
  /\ following <= Len(posted)
  /\ steady => cpc # "refused" /\ nonce = cslot + 3 /\ following = Len(posted)

LEMMA InitPostInv == Init => PostInv
BY DEF Init, PostInv, following

LEMMA NextPostInv == PostInv /\ [Next]_vars => PostInv'
<1> SUFFICES ASSUME PostInv, [Next]_vars PROVE PostInv'
  OBVIOUS
<1> USE DEF PostInv, following
<1>1. ASSUME UNCHANGED <<posting, steady>> PROVE PostInv'
  BY <1>1 DEF posting
<1>2. CASE post
  BY <1>2 DEF post
<1>3. CASE take
  <2>1. CASE nonce = Len(posted) + 2
    <3>1. Len(posted) = cslot + 1 /\ posted' = Append(posted, cslot + 1) /\ cpc' = "taken"
      BY <1>3, <2>1 DEF take
    <3>2. /\ posted' \in Seq(Int) /\ Len(posted') = Len(posted) + 1
          /\ \A k \in 1..Len(posted') : posted'[k] = k - 1
      BY <3>1
    <3> QED BY <1>3, <3>1, <3>2 DEF take
  <2>2. CASE nonce # Len(posted) + 2
    BY <1>3, <2>2 DEF take
  <2> QED BY <2>1, <2>2
<1>4. CASE done
  BY <1>4 DEF done, nextCslot
<1>5. CASE crash
  BY <1>5 DEF crash, Restarted
<1>6. CASE exit
  BY <1>6 DEF exit, Restarted
<1> QED BY <1>1, <1>2, <1>3, <1>4, <1>5, <1>6
        DEF Next, vars, ship, get, nextMsg, onslot, nextPage,
            write, dbWrite, mark, wkvCommit, flush, putCh, putChanges

-----------------------------------------------------------------------------
(* What is shipped and downloaded are entries of the WAL.                  *)
KnownInv ==
  /\ \A k \in 1..Len(hb) : \A p \in 1..Len(hb[k]) : hb[k][p] \in Entries
  /\ wmsg \subseteq Entries

LEMMA InitKnownInv == Init => KnownInv
<1> SUFFICES ASSUME Init PROVE KnownInv
  OBVIOUS
<1>1. Len(hb) = 0
  BY DEF Init
<1> QED BY <1>1 DEF Init, KnownInv

LEMMA NextKnownInv == KnownInv /\ SyncInv /\ [Next]_vars => KnownInv'
<1> SUFFICES ASSUME KnownInv, SyncInv, [Next]_vars PROVE KnownInv'
  OBVIOUS
<1>k. hb \in Seq(Seq(Int)) /\ Len(hb) \in Nat /\ page \in Pages /\ slot \in Int
  BY DEF SyncInv, SyncTypes
<1>1. ASSUME UNCHANGED <<hb, wmsg>> PROVE KnownInv'
  BY <1>1 DEF KnownInv
<1>2. ASSUME NEW f \in Entries, NEW t \in 1..Len(Wal), ship(f, t) PROVE KnownInv'
  <2> DEFINE b == [k \in 1..(t - f) |-> f + k - 1]
  <2>1. f \in Nat /\ t \in Nat /\ Len(Wal) \in Nat /\ f < t /\ t <= Len(Wal)
    BY <1>2, ValidatorAssumption DEF Entries, ship, Feed!Ship, Legal
  <2>2. b \in Seq(Int) /\ Len(b) = t - f
    BY <2>1
  <2>3. \A p \in 1..Len(b) : b[p] \in Entries
    BY <2>1, <2>2 DEF Entries
  <2>4. hb' = Append(hb, b) /\ UNCHANGED wmsg
    BY <1>2 DEF ship, Feed!Ship, sync
  <2> HIDE DEF b
  <2>5. /\ Len(hb') = Len(hb) + 1 /\ hb'[Len(hb) + 1] = b
        /\ \A k \in 1..Len(hb) : hb'[k] = hb[k]
    BY <1>k, <2>2, <2>4
  <2>6. \A k \in 1..Len(hb') : k \in 1..Len(hb) \/ k = Len(hb) + 1
    BY <1>k, <2>5
  <2> QED BY <2>3, <2>4, <2>5, <2>6 DEF KnownInv
<1>3. CASE onslot
  <2>1. /\ page.pos \in Nat /\ page.pos > 0 /\ slot = page.next /\ slot \in 1..Len(hb)
        /\ page.pos \in 1..Len(hb[slot])
    BY <1>k, <1>3 DEF onslot, SyncInv, Place, AtMsg, Pages
  <2>2. Data(page.next) = hb[slot]
    BY <2>1 DEF Data
  <2>3. hb[slot][page.pos] \in Entries
    BY <2>1 DEF KnownInv
  <2> QED BY <1>3, <2>2, <2>3 DEF onslot, KnownInv
<1> QED BY <1>1, <1>2, <1>3
        DEF Next, vars, sync, get, nextMsg, nextPage, write, dbWrite, mark, wkvCommit, flush,
            putCh, putChanges, post, take, done, crash, exit, Restarted

-----------------------------------------------------------------------------
(* Replaying: what the engine sees is below the entry that is next.        *)
Engaged == {"apply", "mark"}
Taken ==
  IF wpc = "flush" THEN store \o batch
  ELSE IF wpc \in Engaged THEN store \o buf
  ELSE store

next == IF wpc = "mark" THEN wslot + 2 ELSE wslot + 1

WriteInv ==
  /\ wslot \in Int /\ wslot >= -1
  /\ wpc \in {"idle", "apply", "mark", "flush", "ch", "changes"}
  /\ store \in Seq(Int) /\ batch \in Seq(Int) /\ buf \in Seq(Int)
  /\ wpc \notin Engaged => buf = <<>>
  /\ \A k \in 1..Len(store) : store[k] <= wslot
  /\ wpc = "flush" => \A k \in 1..Len(batch) : batch[k] <= wslot
  /\ \A k \in 1..Len(buf) : buf[k] < next
  /\ \A j, k \in 1..Len(Taken) : j < k => Taken[j] < Taken[k]
  /\ steady => Taken = [k \in 1..next |-> k - 1]

LEMMA SeenIsTaken == WriteInv => Seen = Taken
<1> SUFFICES ASSUME WriteInv PROVE Seen = Taken
  OBVIOUS
<1>1. store \in Seq(Int) /\ batch \in Seq(Int)
  BY DEF WriteInv
<1>2. store \o batch \in Seq(Int)
  BY <1>1
<1>3. CASE wpc \in Engaged
  BY <1>3 DEF Seen, Taken, Engaged
<1>4. CASE wpc = "flush"
  BY <1>2, <1>4 DEF WriteInv, Seen, Taken, Engaged
<1>5. CASE wpc \notin Engaged /\ wpc # "flush"
  BY <1>1, <1>5 DEF WriteInv, Seen, Taken
<1> QED BY <1>3, <1>4, <1>5

LEMMA InitWriteInv == Init => WriteInv
<1> SUFFICES ASSUME Init PROVE WriteInv
  OBVIOUS
<1>1. store = <<>> /\ Taken = <<>> /\ next = 0
  BY DEF Init, Taken, Engaged, next
<1> QED BY <1>1 DEF Init, WriteInv, Engaged

(* What one more entry in the buffer does to the whole. *)
LEMMA OneMore ==
  ASSUME NEW s \in Seq(Int), NEW t \in Seq(Int), NEW e \in Int,
         NEW u, u = Append(t, e), NEW v, v = s \o t, NEW w, w = s \o u
  PROVE  /\ v \in Seq(Int) /\ w \in Seq(Int)
         /\ Len(w) = Len(v) + 1 /\ w[Len(v) + 1] = e
         /\ \A k \in 1..Len(v) : w[k] = v[k]
<1>1. /\ u \in Seq(Int) /\ Len(u) = Len(t) + 1 /\ u[Len(t) + 1] = e
      /\ \A k \in 1..Len(t) : u[k] = t[k]
  OBVIOUS
<1>2. v \in Seq(Int) /\ Len(v) = Len(s) + Len(t)
  OBVIOUS
<1>3. w \in Seq(Int) /\ Len(w) = Len(s) + Len(u)
  BY <1>1
<1>4. Len(s) \in Nat /\ Len(t) \in Nat
  OBVIOUS
<1>5. w[Len(v) + 1] = e
  BY <1>1, <1>2, <1>4
<1>6. ASSUME NEW k \in 1..Len(v) PROVE w[k] = v[k]
  <2>1. CASE k <= Len(s)
    BY <1>1, <1>2, <1>4, <2>1
  <2>2. CASE k > Len(s)
    <3>1. k - Len(s) \in 1..Len(t)
      BY <1>2, <1>4, <2>2
    <3>2. v[k] = t[k - Len(s)]
      BY <1>2, <1>4, <2>2
    <3>3. w[k] = u[k - Len(s)]
      BY <1>1, <1>2, <1>4, <2>2
    <3> QED BY <1>1, <3>1, <3>2, <3>3
  <2> QED BY <1>2, <1>4, <2>1, <2>2
<1> QED BY <1>1, <1>2, <1>3, <1>4, <1>5, <1>6

(* What is executed next is above everything the engine has seen; as long  *)
(* as the process lives it is not refused.                                 *)
LEMMA WriteIsNext ==
  ASSUME WriteInv, KnownInv, dbWrite
  PROVE  WriteInv'
<1> DEFINE m == wslot + 1
<1>0. m \in Entries
  BY DEF dbWrite, hasNext, KnownInv
<1>1. /\ wpc = "apply" /\ wpc' = "mark" /\ buf' = buffered(m)
      /\ UNCHANGED <<wslot, batch, store, steady>>
  BY DEF dbWrite
<1>2. /\ wslot \in Int /\ wslot >= -1
      /\ store \in Seq(Int) /\ batch \in Seq(Int) /\ buf \in Seq(Int)
  BY DEF WriteInv
<1>3. Taken = store \o buf /\ Taken' = store \o buf' /\ next = m /\ next' = m + 1
  BY <1>1, <1>2 DEF Taken, Engaged, next
<1>4. \A k \in 1..Len(buf) : buf[k] <= wslot
  BY <1>1, <1>2 DEF WriteInv, next
<1>5. CASE accepted(m)
  <2>1. buf' = Append(buf, m)
    BY <1>1, <1>5 DEF buffered
  <2>2. /\ buf' \in Seq(Int) /\ Len(buf') = Len(buf) + 1 /\ buf'[Len(buf) + 1] = m
        /\ \A k \in 1..Len(buf) : buf'[k] = buf[k]
    BY <1>2, <2>1
  <2>3. /\ Taken' \in Seq(Int) /\ Taken \in Seq(Int)
        /\ Len(Taken') = Len(Taken) + 1 /\ Taken'[Len(Taken) + 1] = m
        /\ \A k \in 1..Len(Taken) : Taken'[k] = Taken[k]
    <3>1. m \in Int
      BY <1>2
    <3> QED BY <1>2, <1>3, <2>1, <3>1, OneMore
  <2>4. \A k \in 1..Len(Taken) : Taken[k] < m
    <3>1. \A k \in 1..Len(store) : store[k] <= wslot
      BY DEF WriteInv
    <3>2. \A k \in 1..Len(store \o buf) : (store \o buf)[k] <= wslot
      BY <1>2, <1>4, <3>1
    <3>3. \A k \in 1..Len(Taken) : Taken[k] \in Int
      BY <2>3
    <3> QED BY <1>2, <1>3, <3>2, <3>3, SMTT(30)
  <2>5. \A j, k \in 1..Len(Taken') : j < k => Taken'[j] < Taken'[k]
    <3> SUFFICES ASSUME NEW j \in 1..Len(Taken'), NEW k \in 1..Len(Taken'), j < k
                 PROVE  Taken'[j] < Taken'[k]
      OBVIOUS
    <3>1. Len(Taken) \in Nat /\ j \in 1..Len(Taken) /\ Taken'[j] = Taken[j]
      BY <2>3
    <3>2. CASE k = Len(Taken) + 1
      BY <2>3, <2>4, <3>1, <3>2
    <3>3. CASE k # Len(Taken) + 1
      <4>1. Len(Taken') = Len(Taken) + 1
        BY <2>3
      <4>2. k \in 1..Len(Taken)
        BY <3>1, <3>3, <4>1
      <4>3. Taken'[k] = Taken[k]
        BY <2>3, <4>2
      <4> QED BY <3>1, <4>2, <4>3 DEF WriteInv
    <3> QED BY <3>2, <3>3
  <2>6. \A k \in 1..Len(buf') : buf'[k] < next'
    <3> SUFFICES ASSUME NEW k \in 1..Len(buf') PROVE buf'[k] < next'
      OBVIOUS
    <3>1. Len(buf) \in Nat /\ Len(buf') = Len(buf) + 1
      BY <1>2, <2>2
    <3>2. CASE k = Len(buf) + 1
      BY <1>2, <1>3, <2>2, <3>2
    <3>3. CASE k # Len(buf) + 1
      <4>1. k \in 1..Len(buf)
        BY <3>1, <3>3
      <4>2. buf'[k] = buf[k] /\ buf[k] \in Int /\ buf[k] <= wslot
        BY <1>2, <1>4, <2>2, <4>1
      <4> QED BY <1>2, <1>3, <4>2
    <3> QED BY <3>2, <3>3
  <2>7. ASSUME steady PROVE Taken' = [k \in 1..(m + 1) |-> k - 1]
    <3>1. Taken = [k \in 1..m |-> k - 1]
      BY <1>3, <2>7 DEF WriteInv
    <3>2. Len(Taken) = m
      <4>1. m \in Nat /\ DOMAIN Taken = 1..m
        BY <1>2, <3>1
      <4>2. DOMAIN Taken = 1..Len(Taken) /\ Len(Taken) \in Nat
        BY <2>3
      <4>3. \A a, b \in Nat : 1..a = 1..b => a = b
        <5> SUFFICES ASSUME NEW a \in Nat, NEW b \in Nat, 1..a = 1..b, a # b PROVE FALSE
          OBVIOUS
        <5>1. a # 0 => a \in 1..a
          OBVIOUS
        <5>2. b # 0 => b \in 1..b
          OBVIOUS
        <5>3. a # 0 => a \in 1..b /\ a <= b
          BY <5>1
        <5>4. b # 0 => b \in 1..a /\ b <= a
          BY <5>2
        <5> QED BY <5>3, <5>4
      <4> QED BY <4>1, <4>2, <4>3
    <3>3. DOMAIN Taken' = 1..(m + 1) /\ \A k \in 1..(m + 1) : Taken'[k] = k - 1
      <4>1. m \in Nat /\ DOMAIN Taken' = 1..(m + 1)
        BY <1>2, <2>3, <3>2
      <4>2. Taken'[m + 1] = m
        BY <2>3, <3>2
      <4>3. ASSUME NEW k \in 1..m PROVE Taken'[k] = k - 1
        <5>1. Taken'[k] = Taken[k]
          BY <2>3, <3>2
        <5>2. Taken[k] = k - 1
          BY <3>1
        <5> QED BY <5>1, <5>2
      <4>4. \A k \in 1..(m + 1) : k = m + 1 \/ k \in 1..m
        BY <4>1
      <4>5. m = (m + 1) - 1
        BY <4>1
      <4> QED BY <4>1, <4>2, <4>3, <4>4, <4>5
    <3>4. Taken' = [k \in DOMAIN Taken' |-> Taken'[k]]
      BY <2>3
    <3> QED BY <3>3, <3>4
  <2> QED BY <1>1, <1>2, <1>3, <2>2, <2>5, <2>6, <2>7 DEF WriteInv, Engaged
<1>6. CASE ~accepted(m)
  <2>1. buf' = <<>> /\ buf' \in Seq(Int)
    BY <1>1, <1>6 DEF buffered
  <2>2. Taken' = store
    BY <1>2, <1>3, <2>1
  <2>3. /\ Len(store) <= Len(Taken) /\ \A k \in 1..Len(store) : Taken[k] = store[k]
    BY <1>2, <1>3
  <2>4. \A j, k \in 1..Len(Taken') : j < k => Taken'[j] < Taken'[k]
    BY <1>2, <1>3, <2>2, <2>3 DEF WriteInv
  <2>5. ~steady
    <3> SUFFICES ASSUME steady PROVE accepted(m)
      BY <1>6
    <3>1. Seen = [k \in 1..m |-> k - 1]
      BY <1>3, SeenIsTaken DEF WriteInv
    <3>2. m + 1 \in 1..Len(Wal) /\ m \in Nat /\ Wal \in Seq(Query)
      BY <1>0, ValidatorAssumption DEF Entries, Legal
    <3>3. Queries(Seen) = SubSeq(Wal, 1, m)
      <4>1. Queries(Seen) = [k \in 1..m |-> Wal[k]]
        <5>1. Len(Seen) = m /\ \A k \in 1..m : Seen[k] + 1 = k
          BY <3>1, <3>2
        <5> QED BY <5>1 DEF Queries
      <4> QED BY <3>2, <4>1
    <3>4. accepts(SubSeq(Wal, 1, (m + 1) - 1), Wal[m + 1])
      BY <3>2, ValidatorAssumption DEF Legal
    <3>5. (m + 1) - 1 = m
      BY <3>2
    <3> QED BY <3>3, <3>4, <3>5 DEF accepted
  <2> QED BY <1>1, <1>2, <2>1, <2>4, <2>5 DEF WriteInv, Engaged
<1> QED BY <1>5, <1>6

LEMMA NextWriteInv == WriteInv /\ PostInv /\ KnownInv /\ [Next]_vars => WriteInv'
<1> SUFFICES ASSUME WriteInv, PostInv, KnownInv, [Next]_vars PROVE WriteInv'
  OBVIOUS
<1>k. /\ wslot \in Int /\ wslot >= -1
      /\ store \in Seq(Int) /\ batch \in Seq(Int) /\ buf \in Seq(Int)
  BY DEF WriteInv
<1>1. ASSUME UNCHANGED <<writing, steady>> PROVE WriteInv'
  BY <1>1 DEF writing, WriteInv, Taken, next
<1>2. CASE write
  <2>1. wpc = "idle" /\ wpc' = "apply" /\ UNCHANGED <<wslot, buf, batch, store, steady>> /\ buf = <<>>
    BY <1>2 DEF write, WriteInv, Engaged
  <2>2. Taken = store /\ Taken' = store \o <<>> /\ next = wslot + 1 /\ next' = wslot + 1
    BY <2>1 DEF Taken, Engaged, next
  <2>3. Taken' = Taken
    BY <1>k, <2>2
  <2> QED BY <1>k, <2>1, <2>2, <2>3 DEF WriteInv, Engaged
<1>3. CASE dbWrite
  BY <1>3, WriteIsNext
<1>4. CASE mark
  <2>1. /\ wpc = "mark" /\ wpc' = "apply" /\ wslot' = wslot + 1
        /\ UNCHANGED <<buf, batch, store, steady>>
    BY <1>4 DEF mark
  <2>2. Taken' = Taken /\ next' = next /\ next = wslot + 2
    BY <1>k, <2>1 DEF Taken, Engaged, next
  <2> QED BY <1>k, <2>1, <2>2 DEF WriteInv, Engaged
<1>5. CASE wkvCommit
  <2>1. /\ wpc = "apply" /\ wpc' = "flush" /\ batch' = buf /\ buf' = <<>>
        /\ UNCHANGED <<wslot, store, steady>>
    BY <1>5 DEF wkvCommit, leftover
  <2>2. Taken = store \o buf /\ Taken' = store \o buf /\ next = wslot + 1 /\ next' = wslot + 1
    BY <2>1 DEF Taken, Engaged, next
  <2>3. \A k \in 1..Len(batch') : batch'[k] <= wslot
    BY <1>k, <2>1, <2>2 DEF WriteInv
  <2> QED BY <1>k, <2>1, <2>2, <2>3 DEF WriteInv, Engaged
<1>6. CASE flush
  <2>1. /\ wpc = "flush" /\ wpc' = "ch" /\ store' = store \o batch
        /\ UNCHANGED <<wslot, buf, batch, steady>>
    BY <1>6 DEF flush
  <2>2. Taken' = Taken /\ next' = next /\ Taken' = store'
    BY <2>1 DEF Taken, Engaged, next
  <2>3. store' \in Seq(Int) /\ \A k \in 1..Len(store') : store'[k] <= wslot
    BY <1>k, <2>1 DEF WriteInv
  <2> QED BY <1>k, <2>1, <2>2, <2>3 DEF WriteInv, Engaged
<1>7. ASSUME wpc \in {"ch", "changes"}, wpc' \in {"changes", "idle"}, batch' \in {batch, <<>>},
             UNCHANGED <<wslot, buf, store, steady>>
      PROVE  WriteInv'
  <2>1. wpc' # "flush" /\ wpc # "flush" /\ wpc \notin Engaged /\ wpc' \notin Engaged
        /\ wpc # "mark" /\ wpc' # "mark"
    BY <1>7 DEF Engaged
  <2>2. Taken' = Taken /\ next' = next
    BY <1>7, <2>1 DEF Taken, next
  <2>3. batch' \in Seq(Int)
    <3>1. <<>> \in Seq(Int)
      OBVIOUS
    <3>2. batch' = batch \/ batch' = <<>>
      BY <1>7
    <3> QED BY <1>k, <3>1, <3>2
  <2> QED BY <1>k, <1>7, <2>1, <2>2, <2>3 DEF WriteInv
<1>8. ASSUME Restarted, ~steady PROVE WriteInv'
  <2>1. /\ wpc' = "idle" /\ buf' = <<>> /\ batch' = <<>> /\ ~steady'
        /\ UNCHANGED <<wslot, store>>
    BY <1>8 DEF Restarted
  <2>2. Taken' = store
    BY <2>1 DEF Taken, Engaged
  <2>3. \A j, k \in 1..Len(store) : j < k => store[j] < store[k]
    <3>1. Len(store) <= Len(Taken) /\ \A k \in 1..Len(store) : Taken[k] = store[k]
      BY <1>k DEF Taken
    <3>2. Len(Taken) \in Nat /\ Len(store) \in Nat
      BY <1>k DEF Taken
    <3> SUFFICES ASSUME NEW j \in 1..Len(store), NEW k \in 1..Len(store), j < k
                 PROVE  store[j] < store[k]
      OBVIOUS
    <3>3. j \in 1..Len(Taken) /\ k \in 1..Len(Taken)
      BY <3>1, <3>2
    <3>4. Taken[j] < Taken[k]
      BY <3>3 DEF WriteInv
    <3> QED BY <3>1, <3>4
  <2> QED BY <1>k, <2>1, <2>2, <2>3 DEF WriteInv, Engaged
<1>9. CASE putCh
  BY <1>7, <1>9 DEF putCh
<1>10. CASE putChanges
  BY <1>7, <1>10 DEF putChanges
<1>11. CASE crash
  BY <1>8, <1>11 DEF crash
<1>12. CASE exit
  BY <1>8, <1>12 DEF exit, PostInv
<1> QED BY <1>1, <1>2, <1>3, <1>4, <1>5, <1>6, <1>9, <1>10, <1>11, <1>12
        DEF Next, vars, ship, get, nextMsg, onslot, nextPage, post, take, done

-----------------------------------------------------------------------------
LEMMA ValidatorInv == Spec => [](SyncInv /\ KnownInv /\ PostInv /\ WriteInv)
BY InitSyncInv, InitKnownInv, InitPostInv, InitWriteInv,
   NextSyncInv, NextKnownInv, NextPostInv, NextWriteInv, PTL DEF Spec

(* sync.js:46-64: no entry of a slot up to the stored one is missing.      *)
THEOREM DownloadIsComplete == Spec => []SavedSlotIsComplete
<1>1. SyncInv => SavedSlotIsComplete
  BY DEF SyncInv, SyncTypes, Pages, Place, AtMsg, Downloaded, IsComplete, SavedSlotIsComplete
<1> QED BY <1>1, ValidatorInv, PTL

(* validate.js:104-152: an entry takes effect at most once, in the order of*)
(* the WAL, wherever the process dies.                                     *)
THEOREM EffectsInOrder == Spec => []TakesEffectOnce
<1>1. WriteInv => TakesEffectOnce
  BY SeenIsTaken DEF WriteInv, TakesEffectOnce
<1> QED BY <1>1, ValidatorInv, PTL

(* validate.js:181-240: the changes are posted once each and in order.     *)
THEOREM PostsInOrder == Spec => []PostedInOrder
<1>1. PostInv => PostedInOrder
  BY DEF PostInv, following, PostedInOrder
<1> QED BY <1>1, ValidatorInv, PTL

(* While the process lives it replays the whole WAL.                       *)
THEOREM ReplayIsWhole == Spec => []ReplaysWhileAlive
<1>1. WriteInv => ReplaysWhileAlive
  <2> SUFFICES ASSUME WriteInv, steady PROVE ReplaysWholeLog
    BY DEF ReplaysWhileAlive
  <2>1. Seen = [k \in 1..next |-> k - 1]
    BY SeenIsTaken DEF WriteInv
  <2>2. next = wslot + IF wpc = "mark" THEN 2 ELSE 1
    BY DEF next, WriteInv
  <2> QED BY <2>1, <2>2 DEF ReplaysWholeLog
<1> QED BY <1>1, ValidatorInv, PTL

-----------------------------------------------------------------------------
(* Induction over the naturals, for a set. *)
LEMMA Induction ==
  ASSUME NEW S, 0 \in S, \A k \in Nat : k \in S => k + 1 \in S
  PROVE  \A k \in Nat : k \in S
<1> DEFINE T == Nat \ S
           R == OpToRel(<, Nat)
<1> SUFFICES ASSUME T # {}
             PROVE  FALSE
  OBVIOUS
<1>1. T \subseteq Nat /\ IsWellFoundedOn(R, Nat)
  BY NatLessThanWellFounded
<1> HIDE DEF T, R
<1>2. PICK x \in T : \A y \in T : ~(<<y, x>> \in R)
  BY <1>1, WFMin
<1>3. x \in Nat /\ x # 0 /\ x \notin S
  BY <1>1 DEF T
<1>4. x - 1 \in Nat /\ x - 1 < x /\ (x - 1) + 1 = x
  BY <1>3
<1>5. x - 1 \notin T
  BY <1>2, <1>3, <1>4 DEF R, OpToRel
<1> QED
  BY <1>3, <1>4, <1>5 DEF T

(* g[k] is the concatenation of the first k sequences of s. *)
Flattens(g, s, m) ==
  /\ g[0] = <<>>
  /\ \A k \in 1..m : g[k] \in Seq(Int) /\ g[k] = g[k - 1] \o s[k]

LEMMA FlattenIs ==
  ASSUME NEW m \in Nat, NEW s, s \in Seq(Seq(Int)), Len(s) = m,
         NEW g, Flattens(g, s, m)
  PROVE  FlattenSeq(s) = g[m]
<1>0. \A k \in 1..m : s[k] \in Seq(Int)
  OBVIOUS
<1>1. CASE m = 0
  <2>1. s = <<>>
    BY <1>1
  <2> QED BY <1>1, <2>1 DEF FlattenSeq, Flattens
<1>2. CASE m # 0
  <2> DEFINE Obeys(f) == f = [i \in 1..m |-> IF i = 1 THEN s[i] ELSE f[i - 1] \o s[i]]
             h == [i \in 1..m |-> g[i]]
             f == CHOOSE x : Obeys(x)
  <2>1. Obeys(h)
    <3> DEFINE r == [i \in 1..m |-> IF i = 1 THEN s[i] ELSE h[i - 1] \o s[i]]
    <3>1. ASSUME NEW i \in 1..m
          PROVE  h[i] = r[i]
      <4>1. CASE i = 1
        <5>1. s[i] \in Seq(Int) /\ r[i] = s[i] /\ h[i] = g[i]
          BY <1>0, <4>1
        <5>2. g[i] = g[0] \o s[i] /\ g[0] = <<>>
          <6>1. i - 1 = 0
            BY <4>1
          <6>2. g[i] = g[i - 1] \o s[i] /\ g[0] = <<>>
            BY DEF Flattens
          <6> QED BY <6>1, <6>2
        <5> HIDE DEF h, r
        <5>3. <<>> \o s[i] = s[i]
          BY <5>1
        <5> QED BY <5>1, <5>2, <5>3
      <4>2. CASE i # 1
        <5>1. i - 1 \in 1..m
          BY <4>2
        <5> QED BY <4>2, <5>1 DEF Flattens
      <4> QED BY <4>1, <4>2
    <3>2. h = [i \in 1..m |-> h[i]] /\ r = [i \in 1..m |-> r[i]]
      OBVIOUS
    <3>3. h = r
      <4> HIDE DEF h, r
      <4> QED BY <3>1, <3>2
    <3> QED BY <3>3
  <2>2. Obeys(f)
    BY <2>1
  <2>3. FlattenSeq(s) = f[m]
    BY <1>2 DEF FlattenSeq
  <2>4. \A i \in 1..m : f[i] = IF i = 1 THEN s[i] ELSE f[i - 1] \o s[i]
    BY <2>2
  <2> HIDE DEF h, f, Obeys
  <2> DEFINE S == {k \in Nat : k \in 1..m => f[k] = g[k]}
  <2>5. 0 \in S
    OBVIOUS
  <2>6. ASSUME NEW k \in Nat, k \in S
        PROVE  k + 1 \in S
    <3> SUFFICES ASSUME k + 1 \in 1..m
                 PROVE  f[k + 1] = g[k + 1]
      OBVIOUS
    <3>1. g[k + 1] = g[k] \o s[k + 1] /\ s[k + 1] \in Seq(Int)
      <4>1. (k + 1) - 1 = k
        OBVIOUS
      <4> QED BY <1>0, <4>1 DEF Flattens
    <3>2. CASE k = 0
      <4>1. f[k + 1] = s[k + 1]
        BY <2>4, <3>2, SMTT(30)
      <4>2. <<>> \o s[k + 1] = s[k + 1] /\ g[k] = <<>>
        BY <3>1, <3>2 DEF Flattens
      <4> QED BY <3>1, <4>1, <4>2
    <3>3. CASE k # 0
      <4>1. k \in 1..m /\ k + 1 # 1 /\ (k + 1) - 1 = k
        BY <3>3
      <4>2. f[k] = g[k]
        BY <2>6, <4>1
      <4> QED BY <2>4, <3>1, <4>1, <4>2
    <3> QED BY <3>2, <3>3
  <2> HIDE DEF S
  <2>7. m \in S
    BY <2>5, <2>6, Induction
  <2> QED BY <1>2, <2>3, <2>7 DEF S
<1> QED BY <1>1, <1>2

LEMMA PrefixOfMore ==
  ASSUME NEW s \in Seq(Int), NEW t \in Seq(Int), NEW u \in Seq(Int), IsPrefix(s, t)
  PROVE  IsPrefix(s, t \o u)
<1>1. /\ Len(s) \in Nat /\ Len(t) \in Nat /\ Len(s) <= Len(t)
      /\ SubSeq(s, 1, Len(s)) = SubSeq(t, 1, Len(s))
  BY DEF IsPrefix
<1>2. /\ t \o u \in Seq(Int) /\ Len(t \o u) >= Len(t)
      /\ \A k \in 1..Len(t) : (t \o u)[k] = t[k]
  OBVIOUS
<1> DEFINE v == t \o u
<1>3. SubSeq(t, 1, Len(s)) = SubSeq(v, 1, Len(s))
  <2> HIDE DEF v
  <2>1. SubSeq(t, 1, Len(s)) = [i \in 1..Len(s) |-> t[i]]
    BY <1>1
  <2>2. v \in Seq(Int) /\ Len(v) \in Nat /\ Len(s) <= Len(v) /\ \A i \in 1..Len(s) : v[i] = t[i]
    BY <1>1, <1>2 DEF v
  <2>3. SubSeq(v, 1, Len(s)) = [i \in 1..Len(s) |-> v[i]]
    BY <1>1, <2>2
  <2> QED BY <2>1, <2>2, <2>3
<1> QED BY <1>1, <1>2, <1>3 DEF IsPrefix

LEMMA PrefixItself ==
  ASSUME NEW s \in Seq(Int)
  PROVE  IsPrefix(s, s)
BY DEF IsPrefix

(* The changes that are recorded, and the store they add up to. *)
recorded == IF wpc = "changes" THEN ch ELSE ch + 1
AddUp(g) ==
  /\ g[0] = <<>>
  /\ \A k \in 1..recorded : g[k] = g[k - 1] \o changes[k - 1]
  /\ \A k \in 0..recorded : g[k] \in Seq(Int) /\ IsPrefix(g[k], store)
  /\ wpc \in {"ch", "changes"} => store = g[recorded] \o batch
  /\ wpc \notin {"ch", "changes"} => store = g[recorded]

BatchInv ==
  steady =>
    /\ ch \in Int /\ recorded \in Nat
    /\ DOMAIN changes = 0..(recorded - 1)
    /\ \A k \in DOMAIN changes : changes[k] \in Seq(Int)
    /\ cpc = "sent" => cslot + 1 < recorded
    /\ Len(posted) <= recorded
    /\ \E g : AddUp(g)

LEMMA InitBatchInv == Init => BatchInv
<1> SUFFICES ASSUME Init
             PROVE  BatchInv
  OBVIOUS
<1>1. recorded = 0 /\ DOMAIN changes = {} /\ Len(posted) = 0
  BY DEF Init, recorded
<1>2. {} = 0..(0 - 1)
  OBVIOUS
<1> DEFINE g == [k \in 0..0 |-> <<>>]
<1>3. AddUp(g)
  <2>1. <<>> \in Seq(Int) /\ store = <<>> /\ wpc = "idle"
    BY DEF Init
  <2>2. IsPrefix(<<>>, store)
    BY <2>1, PrefixItself
  <2> QED BY <1>1, <2>1, <2>2 DEF AddUp
<1> HIDE DEF g
<1> QED BY <1>1, <1>2, <1>3 DEF BatchInv, Init

LEMMA NextBatchInv ==
  WriteInv /\ PostInv /\ BatchInv /\ [Next]_vars => BatchInv'
<1> SUFFICES ASSUME WriteInv, PostInv, BatchInv, [Next]_vars, steady'
             PROVE  BatchInv'
  BY DEF BatchInv
<1>s. steady
  BY DEF Next, vars, ship, get, nextMsg, onslot, nextPage, write, dbWrite, mark, wkvCommit,
         flush, putCh, putChanges, post, take, done, crash, exit, Restarted
<1>k. /\ store \in Seq(Int) /\ batch \in Seq(Int) /\ buf \in Seq(Int)
      /\ cslot \in Int /\ posted \in Seq(Int) /\ cpc # "refused"
      /\ following = Len(posted)
  BY <1>s DEF WriteInv, PostInv
<1>b. /\ ch \in Int /\ recorded \in Nat
      /\ DOMAIN changes = 0..(recorded - 1)
      /\ \A k \in DOMAIN changes : changes[k] \in Seq(Int)
      /\ cpc = "sent" => cslot + 1 < recorded
      /\ Len(posted) <= recorded
  BY <1>s DEF BatchInv
<1>g. PICK g : AddUp(g)
  BY <1>s DEF BatchInv
<1>1. ASSUME UNCHANGED <<ch, changes, store, posting>>,
             wpc \notin {"ch", "changes"}, wpc' \notin {"ch", "changes"}
      PROVE  BatchInv'
  <2>1. recorded' = recorded
    BY <1>1 DEF recorded
  <2>2. AddUp(g)'
    BY <1>1, <1>g, <2>1 DEF AddUp
  <2> QED BY <1>1, <1>b, <2>1, <2>2 DEF BatchInv, posting
<1>2. ASSUME UNCHANGED <<ch, changes, store, batch, wpc>>,
             Len(posted') <= recorded, cpc' = "sent" => cslot' + 1 < recorded
      PROVE  BatchInv'
  <2>1. recorded' = recorded
    BY <1>2 DEF recorded
  <2>2. AddUp(g)'
    BY <1>2, <1>g, <2>1 DEF AddUp
  <2> QED BY <1>2, <1>b, <2>1, <2>2 DEF BatchInv
<1>3. ASSUME UNCHANGED <<writing, posting>>
      PROVE  BatchInv'
  BY <1>2, <1>3, <1>b DEF writing, posting
<1>4. CASE write \/ dbWrite \/ mark \/ wkvCommit
  BY <1>1, <1>4 DEF write, dbWrite, mark, wkvCommit
<1>5. CASE flush
  <2>1. /\ wpc = "flush" /\ wpc' = "ch" /\ store' = store \o batch
        /\ UNCHANGED <<ch, changes, batch, posting>>
    BY <1>5 DEF flush
  <2>2. recorded' = recorded
    BY <2>1 DEF recorded
  <2>3. \A k \in 0..recorded : g[k] \in Seq(Int) /\ IsPrefix(g[k], store')
    BY <1>k, <1>g, <2>1, PrefixOfMore DEF AddUp
  <2>4. AddUp(g)'
    BY <1>g, <2>1, <2>2, <2>3 DEF AddUp
  <2> QED BY <1>b, <2>1, <2>2, <2>4 DEF BatchInv, posting
<1>6. CASE putCh
  <2>1. /\ wpc = "ch" /\ wpc' = "changes" /\ ch' = ch + 1
        /\ UNCHANGED <<changes, batch, store, posting>>
    BY <1>6 DEF putCh
  <2>2. recorded' = recorded /\ ch' \in Int
    BY <1>b, <2>1 DEF recorded
  <2>3. AddUp(g)'
    BY <1>g, <2>1, <2>2 DEF AddUp
  <2> QED BY <1>b, <2>1, <2>2, <2>3 DEF BatchInv, posting
<1>7. CASE putChanges
  <2>1. /\ wpc = "changes" /\ wpc' = "idle"
        /\ changes' = [k \in DOMAIN changes \cup {ch} |-> IF k = ch THEN batch ELSE changes[k]]
        /\ UNCHANGED <<ch, store, posting>>
    BY <1>7 DEF putChanges, changeKey
  <2>2. recorded = ch /\ recorded' = ch + 1 /\ ch \in Nat
    BY <1>b, <2>1 DEF recorded
  <2>3. (0..(ch - 1)) \cup {ch} = 0..ch /\ (ch + 1) - 1 = ch
    BY <2>2
  <2>4. /\ DOMAIN changes' = 0..ch /\ changes'[ch] = batch
        /\ \A k \in 0..(ch - 1) : changes'[k] = changes[k] /\ changes[k] \in Seq(Int)
    <3>1. DOMAIN changes' = DOMAIN changes \cup {ch} /\ DOMAIN changes = 0..(ch - 1)
      BY <1>b, <2>1, <2>2
    <3>2. \A k \in 0..(ch - 1) : k # ch /\ changes[k] \in Seq(Int)
      BY <1>b, <2>2
    <3> QED BY <2>1, <2>3, <3>1, <3>2
  <2>5. \A k \in DOMAIN changes' : changes'[k] \in Seq(Int)
    <3>1. \A k \in 0..ch : k = ch \/ k \in 0..(ch - 1)
      BY <2>2
    <3> QED BY <1>k, <2>4, <3>1
  <2>h. PICK h : h = [k \in 0..(ch + 1) |-> IF k = ch + 1 THEN store ELSE g[k]]
    OBVIOUS
  <2>6. AddUp(h)'
    <3>1. h[ch + 1] = store /\ \A k \in 0..ch : h[k] = g[k]
      BY <2>2, <2>h
    <3>2. store = g[ch] \o batch
      BY <1>g, <2>1, <2>2 DEF AddUp
    <3>3. ASSUME NEW k \in 1..(ch + 1)
          PROVE  h[k] = h[k - 1] \o changes'[k - 1]
      <4>1. CASE k = ch + 1
        <5>1. k - 1 = ch /\ ch \in 0..ch
          BY <2>2, <4>1
        <5> QED BY <2>4, <3>1, <3>2, <4>1, <5>1
      <4>2. CASE k # ch + 1
        <5>1. k \in 1..ch /\ k \in 0..ch /\ k - 1 \in 0..ch /\ k - 1 \in 0..(ch - 1)
          BY <2>2, <4>2
        <5>2. g[k] = g[k - 1] \o changes[k - 1]
          BY <1>g, <2>2, <5>1 DEF AddUp
        <5> QED BY <2>4, <3>1, <5>1, <5>2
      <4> QED BY <4>1, <4>2
    <3>4. ASSUME NEW k \in 0..(ch + 1)
          PROVE  h[k] \in Seq(Int) /\ IsPrefix(h[k], store)
      <4>1. k = ch + 1 \/ k \in 0..ch
        BY <2>2
      <4>2. CASE k = ch + 1
        BY <1>k, <3>1, <4>2, PrefixItself
      <4>3. CASE k \in 0..ch
        BY <1>g, <2>2, <3>1, <4>3 DEF AddUp
      <4> QED BY <4>1, <4>2, <4>3
    <3>5. h[0] = <<>>
      <4>1. 0 \in 0..ch
        BY <2>2
      <4> QED BY <1>g, <3>1, <4>1 DEF AddUp
    <3> QED BY <2>1, <2>2, <3>1, <3>3, <3>4, <3>5 DEF AddUp
  <2>7. /\ recorded' \in Nat /\ DOMAIN changes' = 0..(recorded' - 1)
        /\ Len(posted') <= recorded' /\ (cpc' = "sent" => cslot' + 1 < recorded')
    <3>1. Len(posted) \in Nat /\ posted' = posted /\ cpc' = cpc /\ cslot' = cslot
      BY <1>k, <2>1 DEF posting
    <3> QED BY <1>b, <1>k, <2>2, <2>3, <2>4, <3>1
  <2> QED BY <1>b, <2>1, <2>5, <2>6, <2>7 DEF BatchInv
<1>8. CASE post
  <2>1. cslot + 1 \in DOMAIN changes /\ UNCHANGED <<writing, posted, cslot>> /\ cpc' = "sent"
    BY <1>8 DEF post
  <2>2. cslot + 1 < recorded
    BY <1>b, <1>k, <2>1
  <2> QED BY <1>2, <1>b, <2>1, <2>2 DEF writing
<1>9. CASE take
  <2>1. cpc = "sent" /\ cpc' \in {"taken", "refused"} /\ UNCHANGED <<writing, cslot>>
    BY <1>9 DEF take
  <2>2. Len(posted) = cslot + 1 /\ cslot + 1 < recorded
    BY <1>b, <1>k, <2>1 DEF following
  <2>3. Len(posted') <= recorded
    <3>1. posted' = posted \/ posted' = Append(posted, cslot + 1)
      BY <1>9 DEF take
    <3>2. Len(posted') = Len(posted) \/ Len(posted') = Len(posted) + 1
      BY <1>k, <3>1
    <3> QED BY <1>b, <1>k, <2>2, <3>2
  <2> QED BY <1>2, <2>1, <2>3 DEF writing
<1>10. CASE done
  BY <1>2, <1>b, <1>10 DEF done, writing
<1>11. ~crash /\ ~exit
  BY <1>s, <1>k DEF crash, exit
<1> QED BY <1>3, <1>4, <1>5, <1>6, <1>7, <1>8, <1>9, <1>10, <1>11
        DEF Next, vars, ship, get, nextMsg, onslot, nextPage, writing, posting

(* validate.js:104-240: what the validation process has taken, batch after *)
(* batch, is the beginning of the store, while the process lives.          *)
THEOREM PostsAreTheStore == Spec => []PostedIsStore
<1>1. PostInv /\ BatchInv => PostedIsStore
  <2> SUFFICES ASSUME PostInv, BatchInv, steady
               PROVE  IsPrefix(FlattenSeq([k \in 1..Len(posted) |-> changes[posted[k]]]), store)
    BY DEF PostedIsStore
  <2> DEFINE m == Len(posted)
             s == [k \in 1..m |-> changes[posted[k]]]
  <2>1. /\ m \in Nat /\ m <= recorded /\ recorded \in Nat
        /\ \A k \in 1..m : posted[k] = k - 1
    BY DEF PostInv, BatchInv
  <2>2. PICK g : AddUp(g)
    BY DEF BatchInv
  <2> HIDE DEF m
  <2>3. ASSUME NEW k \in 1..m
        PROVE  s[k] = changes[k - 1] /\ s[k] \in Seq(Int)
    <3>1. k - 1 \in 0..(recorded - 1)
      BY <2>1
    <3> QED BY <2>1, <3>1 DEF BatchInv
  <2>4. s \in Seq(Seq(Int)) /\ Len(s) = m
    BY <2>1, <2>3
  <2> HIDE DEF s
  <2>5. Flattens(g, s, m)
    <3>1. \A k \in 1..m : k \in 1..recorded /\ k \in 0..recorded
      BY <2>1
    <3> QED BY <2>2, <2>3, <3>1 DEF AddUp, Flattens
  <2>6. FlattenSeq(s) = g[m]
    BY <2>1, <2>4, <2>5, FlattenIs
  <2>7. m \in 0..recorded
    BY <2>1
  <2>8. IsPrefix(FlattenSeq(s), store)
    BY <2>2, <2>6, <2>7 DEF AddUp
  <2> QED BY <2>8 DEF s, m
<1>2. Init => SyncInv /\ KnownInv /\ PostInv /\ WriteInv /\ BatchInv
  BY InitSyncInv, InitKnownInv, InitPostInv, InitWriteInv, InitBatchInv
<1>3. SyncInv /\ KnownInv /\ PostInv /\ WriteInv /\ BatchInv /\ [Next]_vars
      => (SyncInv /\ KnownInv /\ PostInv /\ WriteInv /\ BatchInv)'
  BY NextSyncInv, NextKnownInv, NextPostInv, NextWriteInv, NextBatchInv
<1> QED BY <1>1, <1>2, <1>3, PTL DEF Spec

-----------------------------------------------------------------------------
(* Legal logs: in what order a signer's queries can be. *)
LEMMA LastIn ==
  ASSUME NEW N \in Nat, NEW T, T \subseteq 1..N, T # {}
  PROVE  \E x \in T : \A y \in T : y <= x
<1> DEFINE HasLast(V) == \E x \in V : \A y \in V : y <= x
           S == {k \in Nat : \A V \in SUBSET (1..k) : V # {} => HasLast(V)}
<1>1. 0 \in S
  <2>1. 1..0 = {}
    OBVIOUS
  <2> QED BY <2>1
<1>2. ASSUME NEW k \in Nat, k \in S
      PROVE  k + 1 \in S
  <2> SUFFICES ASSUME NEW V \in SUBSET (1..(k + 1)), V # {}
               PROVE  HasLast(V)
    OBVIOUS
  <2>1. CASE k + 1 \in V
    <3>1. \A y \in V : y <= k + 1
      OBVIOUS
    <3> QED BY <2>1, <3>1
  <2>2. CASE k + 1 \notin V
    <3>1. \A y \in V : y \in 1..k
      BY <2>2
    <3>2. V \in SUBSET (1..k)
      BY <3>1
    <3> QED BY <1>2, <3>2
  <2> QED BY <2>1, <2>2
<1> HIDE DEF S
<1>3. N \in S
  BY <1>1, <1>2, Induction
<1> QED BY <1>3 DEF S

(* Query k was accepted after query j of the same signer, the last one     *)
(* before it, or is the signer's first.                                    *)
Follows(lg, k, j) ==
  /\ j < k /\ lg[j].acct = lg[k].acct /\ lg[k].nonce = lg[j].nonce + 1
  /\ \A m \in 1..(k - 1) : lg[m].acct = lg[k].acct => m <= j
IsFirst(lg, k) ==
  lg[k].nonce = 1 /\ \A m \in 1..(k - 1) : lg[m].acct # lg[k].acct

LEMMA LegalFollows ==
  ASSUME NEW lg, Legal(lg), NEW k \in 1..Len(lg)
  PROVE  /\ IsFirst(lg, k) \/ \E j \in 1..Len(lg) : Follows(lg, k, j)
         /\ lg[k].op = "set" => \E j \in 1..(k - 1) : lg[j].op = "init"
<1> DEFINE pre == SubSeq(lg, 1, k - 1)
           a == lg[k].acct
<1>1. lg \in Seq(Query) /\ Len(lg) \in Nat /\ k - 1 \in 0..Len(lg) /\ k \in Nat
  BY DEF Legal
<1>2. /\ pre \in Seq(Query) /\ Len(pre) = k - 1
      /\ \A m \in 1..(k - 1) : pre[m] = lg[m]
  BY <1>1
<1>3. accepts(pre, lg[k])
  BY DEF Legal
<1> HIDE DEF pre
<1>4. Of(pre, a) = {m \in 1..(k - 1) : lg[m].acct = a}
  BY <1>2 DEF Of
<1>5. IsFirst(lg, k) \/ \E j \in 1..Len(lg) : Follows(lg, k, j)
  <2>1. CASE Of(pre, a) = {}
    <3>1. lg[k].nonce = 0 + 1
      BY <1>3, <2>1 DEF accepts, nonceOf
    <3>2. \A m \in 1..(k - 1) : lg[m].acct # a
      BY <1>4, <2>1
    <3> QED BY <3>1, <3>2 DEF IsFirst
  <2>2. CASE Of(pre, a) # {}
    <3> DEFINE j == CHOOSE h \in Of(pre, a) : \A m \in Of(pre, a) : m <= h
    <3>1. Of(pre, a) \subseteq 1..(k - 1) /\ k - 1 \in Nat
      BY <1>1, <1>4
    <3>2. \E h \in Of(pre, a) : \A m \in Of(pre, a) : m <= h
      BY <2>2, <3>1, LastIn
    <3>3. j \in Of(pre, a) /\ \A m \in Of(pre, a) : m <= j
      BY <3>2
    <3>4. lg[k].nonce = pre[j].nonce + 1
      BY <1>3, <2>2 DEF accepts, nonceOf
    <3> HIDE DEF j
    <3>5. j \in 1..(k - 1) /\ lg[j].acct = a
      BY <1>4, <3>3
    <3>6. j \in 1..Len(lg) /\ j < k
      BY <1>1, <3>5
    <3>7. pre[j] = lg[j]
      BY <1>2, <3>5
    <3>8. \A m \in 1..(k - 1) : lg[m].acct = a => m <= j
      BY <1>4, <3>3
    <3> QED BY <3>4, <3>5, <3>6, <3>7, <3>8 DEF Follows
  <2> QED BY <2>1, <2>2
<1>6. lg[k].op = "set" => \E j \in 1..(k - 1) : lg[j].op = "init"
  BY <1>2, <1>3 DEF accepts, hasInit
<1> QED BY <1>5, <1>6

(* A signer's nonces increase, and none is left out. *)
Ordered(lg, k) ==
  /\ \A m \in 1..(k - 1) : lg[m].acct = lg[k].acct => lg[m].nonce < lg[k].nonce
  /\ \A v \in 1..(lg[k].nonce - 1) :
       \E m \in 1..(k - 1) : lg[m].acct = lg[k].acct /\ lg[m].nonce = v

LEMMA LegalOrdered ==
  ASSUME NEW lg, Legal(lg)
  PROVE  \A k \in 1..Len(lg) : Ordered(lg, k)
<1>0. Len(lg) \in Nat /\ \A k \in 1..Len(lg) : lg[k].nonce \in Nat \ {0}
  <2>1. lg \in Seq(Query)
    BY DEF Legal
  <2>2. Len(lg) \in Nat /\ \A k \in 1..Len(lg) : lg[k] \in Query
    BY <2>1
  <2> QED BY <2>2 DEF Query
<1> DEFINE S == {h \in Nat : \A k \in 1..Len(lg) : k <= h => Ordered(lg, k)}
<1>1. 0 \in S
  BY <1>0
<1>2. ASSUME NEW h \in Nat, h \in S
      PROVE  h + 1 \in S
  <2> SUFFICES ASSUME h + 1 \in 1..Len(lg)
               PROVE  Ordered(lg, h + 1)
    BY <1>0, <1>2
  <2> DEFINE k == h + 1
  <2>0. k \in 1..Len(lg) /\ k \in Nat /\ k - 1 = h
    OBVIOUS
  <2>s. \A j \in 1..Len(lg) : j <= h => Ordered(lg, j)
    BY <1>2
  <2> HIDE DEF k, S
  <2>1. ASSUME IsFirst(lg, k) PROVE Ordered(lg, k)
    <3>1. 1..(lg[k].nonce - 1) = {}
      BY <2>1 DEF IsFirst
    <3> QED BY <2>1, <3>1 DEF IsFirst, Ordered
  <2>2. ASSUME NEW j \in 1..Len(lg), Follows(lg, k, j)
        PROVE  Ordered(lg, k)
    <3>1. /\ j < k /\ j \in 1..(k - 1) /\ j <= h /\ lg[j].acct = lg[k].acct
          /\ lg[k].nonce = lg[j].nonce + 1
      BY <2>0, <2>2 DEF Follows
    <3>2. Ordered(lg, j)
      BY <2>s, <3>1
    <3>3. lg[j].nonce \in Nat \ {0} /\ lg[k].nonce \in Nat \ {0}
      BY <1>0, <2>0
    <3>4. ASSUME NEW m \in 1..(k - 1), lg[m].acct = lg[k].acct
          PROVE  lg[m].nonce < lg[k].nonce
      <4>1. m <= j /\ lg[m].nonce \in Nat
        BY <1>0, <2>0, <2>2, <3>4 DEF Follows
      <4>2. CASE m = j
        BY <3>1, <3>3, <4>2
      <4>3. CASE m # j
        <5>1. m \in 1..(j - 1)
          BY <4>1, <4>3
        <5>2. lg[m].nonce < lg[j].nonce
          BY <3>1, <3>2, <3>4, <5>1 DEF Ordered
        <5> QED BY <3>1, <3>3, <4>1, <5>2, SMTT(30)
      <4> QED BY <4>2, <4>3
    <3>5. ASSUME NEW v \in 1..(lg[k].nonce - 1)
          PROVE  \E m \in 1..(k - 1) : lg[m].acct = lg[k].acct /\ lg[m].nonce = v
      <4>1. CASE v = lg[j].nonce
        BY <3>1, <4>1
      <4>2. CASE v # lg[j].nonce
        <5>1. v \in 1..(lg[j].nonce - 1)
          BY <3>1, <3>3, <4>2
        <5>2. PICK m \in 1..(j - 1) : lg[m].acct = lg[j].acct /\ lg[m].nonce = v
          BY <3>2, <5>1 DEF Ordered
        <5>3. m \in 1..(k - 1)
          BY <2>0, <3>1, <5>2
        <5> QED BY <3>1, <5>2, <5>3
      <4> QED BY <4>1, <4>2
    <3> QED BY <3>4, <3>5 DEF Ordered
  <2>3. IsFirst(lg, k) \/ \E j \in 1..Len(lg) : Follows(lg, k, j)
    BY <2>0, LegalFollows
  <2>4. Ordered(lg, k)
    BY <2>1, <2>2, <2>3
  <2> QED BY <2>4 DEF k
<1> HIDE DEF S
<1>3. Len(lg) \in S
  BY <1>0, <1>1, <1>2, Induction
<1> QED BY <1>0, <1>3 DEF S

LEMMA LegalPrefix ==
  ASSUME NEW lg, Legal(lg), NEW h \in 0..Len(lg),
         NEW pre \in Seq(Query), Len(pre) = h, \A k \in 1..h : pre[k] = lg[k]
  PROVE  Legal(pre)
<1>0. lg \in Seq(Query) /\ Len(lg) \in Nat /\ h \in Nat
  BY DEF Legal
<1>1. ASSUME NEW k \in 1..h
      PROVE  accepts(SubSeq(pre, 1, k - 1), pre[k])
  <2>1. SubSeq(pre, 1, k - 1) = SubSeq(lg, 1, k - 1)
    <3>1. SubSeq(pre, 1, k - 1) = [m \in 1..(k - 1) |-> pre[m]]
      BY <1>0
    <3>2. SubSeq(lg, 1, k - 1) = [m \in 1..(k - 1) |-> lg[m]]
      BY <1>0
    <3>3. \A m \in 1..(k - 1) : pre[m] = lg[m]
      BY <1>0
    <3> QED BY <3>1, <3>2, <3>3
  <2>2. k \in 1..Len(lg) /\ pre[k] = lg[k]
    BY <1>0
  <2>3. accepts(SubSeq(lg, 1, k - 1), lg[k])
    BY <2>2 DEF Legal
  <2> QED BY <2>1, <2>2, <2>3
<1> QED BY <1>1 DEF Legal

LEMMA LegalOneMore ==
  ASSUME NEW lg, Legal(lg), NEW q \in Query, accepts(lg, q)
  PROVE  Legal(Append(lg, q))
<1> DEFINE new == Append(lg, q)
<1>0. lg \in Seq(Query) /\ Len(lg) \in Nat
  BY DEF Legal
<1>1. /\ new \in Seq(Query) /\ Len(new) = Len(lg) + 1 /\ new[Len(lg) + 1] = q
      /\ \A k \in 1..Len(lg) : new[k] = lg[k]
  BY <1>0
<1> HIDE DEF new
<1>2. ASSUME NEW k \in 1..Len(new)
      PROVE  accepts(SubSeq(new, 1, k - 1), new[k])
  <2>1. k - 1 \in 0..Len(lg)
    BY <1>0, <1>1
  <2>2. SubSeq(new, 1, k - 1) = SubSeq(lg, 1, k - 1)
    <3>1. SubSeq(new, 1, k - 1) = [m \in 1..(k - 1) |-> new[m]]
      BY <1>1, <2>1
    <3>2. SubSeq(lg, 1, k - 1) = [m \in 1..(k - 1) |-> lg[m]]
      BY <1>0, <2>1
    <3>3. \A m \in 1..(k - 1) : new[m] = lg[m]
      BY <1>0, <1>1, <2>1
    <3> QED BY <3>1, <3>2, <3>3
  <2>3. CASE k = Len(lg) + 1
    <3>1. SubSeq(lg, 1, k - 1) = lg
      BY <1>0, <2>3
    <3> QED BY <1>1, <2>2, <2>3, <3>1
  <2>4. CASE k # Len(lg) + 1
    <3>1. k \in 1..Len(lg) /\ new[k] = lg[k]
      BY <1>0, <1>1, <2>4
    <3>2. accepts(SubSeq(lg, 1, k - 1), lg[k])
      BY <3>1 DEF Legal
    <3> QED BY <2>2, <3>1, <3>2
  <2> QED BY <2>3, <2>4
<1> QED BY <1>1, <1>2 DEF Legal, new

-----------------------------------------------------------------------------
(* What the engine has seen is a legal log of entries of the WAL. *)
LegalInv ==
  /\ \A k \in 1..Len(Taken) : Taken[k] \in Entries
  /\ Legal(Queries(Taken))

LEMMA TakenTypes ==
  ASSUME WriteInv
  PROVE  /\ Taken \in Seq(Int) /\ Len(Taken) \in Nat /\ store \in Seq(Int)
         /\ Len(store) \in 0..Len(Taken) /\ \A k \in 1..Len(store) : Taken[k] = store[k]
<1>1. store \in Seq(Int) /\ batch \in Seq(Int) /\ buf \in Seq(Int)
  BY DEF WriteInv
<1>2. \A s, t \in Seq(Int) : /\ s \o t \in Seq(Int) /\ Len(s \o t) \in Nat
                             /\ Len(s) \in 0..Len(s \o t)
                             /\ \A k \in 1..Len(s) : (s \o t)[k] = s[k]
  OBVIOUS
<1>3. /\ store \in Seq(Int) /\ Len(store) \in Nat /\ Len(store) \in 0..Len(store)
  BY <1>1
<1> QED BY <1>1, <1>2, <1>3 DEF Taken

(* A prefix of it is one too. *)
LEMMA LegalCut ==
  ASSUME LegalInv, WriteInv, Taken' = store
  PROVE  LegalInv'
<1>1. /\ Taken \in Seq(Int) /\ Len(Taken) \in Nat /\ store \in Seq(Int)
      /\ Len(store) \in 0..Len(Taken) /\ \A k \in 1..Len(store) : Taken[k] = store[k]
  BY TakenTypes
<1>2. \A k \in 1..Len(store) : k \in 1..Len(Taken) /\ store[k] \in Entries
  BY <1>1 DEF LegalInv
<1> DEFINE lg == Queries(Taken)
           pre == Queries(store)
<1>3. Wal \in Seq(Query)
  BY ValidatorAssumption DEF Legal
<1>4. lg \in Seq(Query) /\ Len(lg) = Len(Taken) /\ \A k \in 1..Len(Taken) : lg[k] = Wal[Taken[k] + 1]
  BY <1>1 DEF LegalInv, Legal, Queries
<1>5. Len(pre) = Len(store) /\ \A k \in 1..Len(store) : pre[k] = Wal[store[k] + 1]
  BY <1>1 DEF Queries
<1>6. \A k \in 1..Len(store) : pre[k] = lg[k]
  BY <1>1, <1>2, <1>4, <1>5
<1>7. pre \in Seq(Query)
  <2>1. \A k \in 1..Len(store) : pre[k] \in Query
    BY <1>2, <1>4, <1>6
  <2>2. pre = [k \in 1..Len(store) |-> pre[k]] /\ Len(store) \in Nat
    BY <1>1, <1>5 DEF Queries
  <2> HIDE DEF pre
  <2> QED BY <2>1, <2>2
<1>8. Legal(lg)
  BY DEF LegalInv
<1> HIDE DEF lg, pre
<1>9. Legal(pre)
  BY <1>1, <1>4, <1>5, <1>6, <1>7, <1>8, LegalPrefix
<1>10. Queries(Taken)' = pre
  BY DEF pre, Queries
<1> QED BY <1>2, <1>9, <1>10 DEF LegalInv, Entries

LEMMA LegalStep ==
  ASSUME LegalInv, WriteInv, KnownInv, dbWrite
  PROVE  LegalInv'
<1> DEFINE m == wslot + 1
<1>1. /\ wpc = "apply" /\ wpc' = "mark" /\ buf' = buffered(m) /\ m \in Entries
      /\ UNCHANGED <<store, batch>>
  BY DEF dbWrite, hasNext, KnownInv
<1>2. store \in Seq(Int) /\ buf \in Seq(Int)
  BY DEF WriteInv
<1>3. Taken = store \o buf /\ Taken' = store \o buf'
  BY <1>1 DEF Taken, Engaged
<1> HIDE DEF m
<1>4. CASE ~accepted(m)
  <2>1. Taken' = store
    BY <1>1, <1>2, <1>3, <1>4 DEF buffered
  <2> QED BY <2>1, LegalCut
<1>5. CASE accepted(m)
  <2> DEFINE q == Wal[m + 1]
             lg == Queries(Taken)
             new == Append(lg, q)
  <2>1. m \in Int /\ m + 1 \in 1..Len(Wal) /\ Wal \in Seq(Query) /\ q \in Query
    BY <1>1, ValidatorAssumption DEF Entries, Legal
  <2>2. buf' = Append(buf, m)
    BY <1>1, <1>5 DEF buffered
  <2>3. /\ Taken \in Seq(Int) /\ Taken' \in Seq(Int) /\ Len(Taken') = Len(Taken) + 1
        /\ Taken'[Len(Taken) + 1] = m /\ \A k \in 1..Len(Taken) : Taken'[k] = Taken[k]
    BY <1>2, <1>3, <2>1, <2>2, OneMore, SMTT(30)
  <2>4. Len(Taken) \in Nat /\ \A k \in 1..Len(Taken') : k \in 1..Len(Taken) \/ k = Len(Taken) + 1
    BY <2>3
  <2>5. \A k \in 1..Len(Taken') : Taken'[k] \in Entries
    BY <1>1, <2>3, <2>4 DEF LegalInv
  <2>6. Legal(lg) /\ accepts(lg, q)
    BY <1>5, SeenIsTaken DEF LegalInv, accepted
  <2>7. Legal(new)
    BY <2>1, <2>6, LegalOneMore
  <2>8. lg \in Seq(Query) /\ Len(lg) = Len(Taken) /\ \A k \in 1..Len(Taken) : lg[k] = Wal[Taken[k] + 1]
    BY <2>4 DEF LegalInv, Legal, Queries
  <2>9. Queries(Taken') = new
    <3>1. Queries(Taken') = [k \in 1..(Len(Taken) + 1) |-> Wal[Taken'[k] + 1]]
      BY <2>3 DEF Queries
    <3>2. /\ new = [k \in 1..(Len(Taken) + 1) |-> new[k]] /\ new[Len(Taken) + 1] = q
          /\ \A k \in 1..Len(Taken) : new[k] = lg[k]
      <4> HIDE DEF lg, q
      <4>1. new \in Seq(Query) /\ Len(new) = Len(lg) + 1
        BY <2>1, <2>8
      <4>2. new[Len(lg) + 1] = q /\ \A k \in 1..Len(lg) : new[k] = lg[k]
        BY <2>1, <2>8
      <4> HIDE DEF new
      <4>3. new = [k \in 1..Len(new) |-> new[k]]
        BY <4>1
      <4> QED BY <2>8, <4>1, <4>2, <4>3
    <3>3. \A k \in 1..(Len(Taken) + 1) : new[k] = Wal[Taken'[k] + 1]
      <4> HIDE DEF new, lg
      <4> QED BY <2>3, <2>4, <2>8, <3>2
    <3> HIDE DEF new
    <3> QED BY <3>1, <3>2, <3>3
  <2>10. Queries(Taken)' = Queries(Taken')
    BY DEF Queries
  <2> HIDE DEF new
  <2> QED BY <2>5, <2>7, <2>9, <2>10 DEF LegalInv, Entries
<1> QED BY <1>4, <1>5

LEMMA NextLegalInv == LegalInv /\ WriteInv /\ KnownInv /\ [Next]_vars => LegalInv'
<1> SUFFICES ASSUME LegalInv, WriteInv, KnownInv, [Next]_vars PROVE LegalInv'
  OBVIOUS
<1>k. store \in Seq(Int) /\ batch \in Seq(Int) /\ buf \in Seq(Int)
  BY DEF WriteInv
<1>1. ASSUME Taken' = Taken PROVE LegalInv'
  BY <1>1 DEF LegalInv, Queries, Entries
<1>2. ASSUME UNCHANGED writing PROVE LegalInv'
  BY <1>1, <1>2 DEF Taken, writing
<1>3. CASE write
  <2>1. Taken = store /\ Taken' = store \o <<>>
    BY <1>3 DEF write, WriteInv, Taken, Engaged
  <2> QED BY <1>1, <1>k, <2>1
<1>4. CASE mark
  BY <1>1, <1>4 DEF mark, Taken, Engaged
<1>5. CASE wkvCommit
  BY <1>1, <1>5 DEF wkvCommit, Taken, Engaged
<1>6. CASE flush
  BY <1>1, <1>6 DEF flush, Taken, Engaged
<1>7. CASE putCh
  BY <1>1, <1>7 DEF putCh, Taken, Engaged
<1>8. CASE putChanges
  BY <1>1, <1>8 DEF putChanges, Taken, Engaged
<1>9. ASSUME Restarted PROVE LegalInv'
  <2>1. Taken' = store
    BY <1>9 DEF Restarted, Taken, Engaged
  <2> QED BY <2>1, LegalCut
<1>10. CASE dbWrite
  BY <1>10, LegalStep
<1> QED BY <1>2, <1>3, <1>4, <1>5, <1>6, <1>7, <1>8, <1>9, <1>10
        DEF Next, vars, ship, get, nextMsg, onslot, nextPage, post, take, done, crash, exit

(* What is taken is in the order of its signers. *)
LEMMA LegalIsInOrder == LegalInv /\ WriteInv => SignersInOrder
<1> SUFFICES ASSUME LegalInv, WriteInv, NEW k \in 1..Len(Taken)
             PROVE  /\ Wal[Taken[k] + 1].op = "set"
                         => \E j \in 1..(k - 1) : Wal[Taken[j] + 1].op = "init"
                    /\ \A m \in 0..(Taken[k] - 1) :
                         Wal[m + 1].acct = Wal[Taken[k] + 1].acct
                           => \E j \in 1..(k - 1) : Taken[j] = m
  <2>1. ASSUME WriteInv PROVE TakesEffectOnce
    BY <2>1, SeenIsTaken DEF WriteInv, TakesEffectOnce
  <2> QED BY <2>1, SeenIsTaken DEF SignersInOrder
<1> DEFINE lg == Queries(Taken)
<1>1. /\ Taken \in Seq(Int) /\ Len(Taken) \in Nat
      /\ \A h \in 1..Len(Taken) : Taken[h] \in Entries
  BY TakenTypes DEF LegalInv
<1>2. Legal(lg) /\ Len(lg) = Len(Taken) /\ \A h \in 1..Len(Taken) : lg[h] = Wal[Taken[h] + 1]
  BY <1>1 DEF LegalInv, Queries
<1> HIDE DEF lg
<1>3. Legal(Wal) /\ Wal \in Seq(Query) /\ Len(Wal) \in Nat
  BY ValidatorAssumption DEF Legal
<1>4. \A h \in Entries : h \in Nat /\ h + 1 \in 1..Len(Wal)
  BY <1>3 DEF Entries
<1>5. ASSUME Wal[Taken[k] + 1].op = "set"
      PROVE  \E j \in 1..(k - 1) : Wal[Taken[j] + 1].op = "init"
  <2>1. lg[k].op = "set" /\ k \in 1..Len(lg)
    BY <1>2, <1>5
  <2>2. PICK j \in 1..(k - 1) : lg[j].op = "init"
    BY <1>2, <2>1, LegalFollows
  <2>3. j \in 1..Len(Taken)
    BY <1>1
  <2> QED BY <1>2, <2>2, <2>3
<1>6. ASSUME NEW m \in 0..(Taken[k] - 1), Wal[m + 1].acct = Wal[Taken[k] + 1].acct
      PROVE  \E j \in 1..(k - 1) : Taken[j] = m
  <2> DEFINE e == Taken[k] + 1
             v == Wal[m + 1].nonce
  <2>1. Taken[k] \in Nat /\ e \in 1..Len(Wal) /\ m \in Nat /\ m + 1 \in 1..Len(Wal) /\ m + 1 \in 1..(e - 1)
    BY <1>1, <1>3, <1>4
  <2>2. v \in Nat \ {0} /\ Wal[e].nonce \in Nat \ {0}
    <3>1. Wal[m + 1] \in Query /\ Wal[e] \in Query
      BY <1>3, <2>1
    <3> QED BY <3>1 DEF Query
  <2>3. Ordered(Wal, e) /\ Ordered(lg, k)
    BY <1>2, <1>3, <2>1, LegalOrdered
  <2>4. lg[k] = Wal[e]
    BY <1>2
  <2> HIDE DEF e
  <2>5. v < Wal[e].nonce
    BY <1>6, <2>1, <2>3 DEF Ordered, e
  <2>6. v \in 1..(lg[k].nonce - 1)
    BY <2>2, <2>4, <2>5
  <2> HIDE DEF v
  <2>7. PICK j \in 1..(k - 1) : lg[j].acct = lg[k].acct /\ lg[j].nonce = v
    BY <2>3, <2>6 DEF Ordered
  <2>8. j \in 1..Len(Taken)
    BY <1>1
  <2> DEFINE d == Taken[j] + 1
  <2>9. /\ Taken[j] \in Nat /\ d \in 1..Len(Wal) /\ Wal[d].acct = Wal[m + 1].acct
        /\ Wal[d].nonce = Wal[m + 1].nonce
    BY <1>1, <1>2, <1>4, <1>6, <2>4, <2>7, <2>8 DEF e, v
  <2> HIDE DEF d
  <2>10. d = m + 1
    <3>1. Ordered(Wal, d) /\ Ordered(Wal, m + 1)
      BY <1>3, <2>1, <2>9, LegalOrdered
    <3>2. v \in Nat /\ v = Wal[d].nonce /\ v = Wal[m + 1].nonce
      BY <2>2, <2>9 DEF v
    <3>3. CASE d < m + 1
      <4>1. d \in 1..((m + 1) - 1)
        BY <2>1, <2>9, <3>3
      <4>2. Wal[d].nonce < Wal[m + 1].nonce
        BY <2>9, <3>1, <4>1 DEF Ordered
      <4> QED BY <3>2, <4>2
    <3>4. CASE m + 1 < d
      <4>1. m + 1 \in 1..(d - 1)
        BY <2>1, <2>9, <3>4
      <4>2. Wal[m + 1].nonce < Wal[d].nonce
        BY <2>9, <3>1, <4>1 DEF Ordered
      <4> QED BY <3>2, <4>2
    <3> QED BY <2>1, <2>9, <3>3, <3>4
  <2>11. Taken[j] = m
    BY <2>1, <2>9, <2>10 DEF d
  <2> QED BY <2>11
<1> QED BY <1>5, <1>6

(* validate.js:316-368, dev_verify.js:3-13: whatever a crash loses,        *)
(* nothing takes effect twice, out of order, or without what its signer    *)
(* had done before it.                                                     *)
THEOREM EffectsFollowSigners == Spec => []SignersInOrder
<1>1. Init => LegalInv
  <2> SUFFICES ASSUME Init PROVE LegalInv
    OBVIOUS
  <2>1. Taken = <<>>
    BY DEF Init, Taken, Engaged
  <2>2. Len(Taken) = 0 /\ Queries(Taken) = <<>>
    BY <2>1 DEF Queries
  <2> QED BY <2>2 DEF LegalInv, Legal
<1>2. SyncInv /\ KnownInv /\ PostInv /\ WriteInv /\ LegalInv /\ [Next]_vars => LegalInv'
  BY NextLegalInv
<1>3. LegalInv /\ WriteInv => SignersInOrder
  BY LegalIsInOrder
<1> QED BY <1>1, <1>2, <1>3, ValidatorInv, PTL DEF Spec
=============================================================================
