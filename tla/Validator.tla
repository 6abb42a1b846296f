----------------------------- MODULE Validator -----------------------------
(***************************************************************************)
(* A validator: hb/src/sync.js downloads the HyperBEAM log of a database,  *)
(* and hb/src/validate.js unpacks its bundles, replays the WAL entries in  *)
(* batches into an engine that does not commit by itself, records the      *)
(* changes of every batch and posts them to the validation process, which  *)
(* is external, in order.                                                  *)
(*                                                                         *)
(* The timers of sync, write and commit run in one process, so their steps *)
(* interleave at every await.  The process may die at any of them and is   *)
(* then started again; process.exit() in buildBundle is one way to die.    *)
(*                                                                         *)
(* A WAL entry is its number.  A batch is the sequence of the entries that *)
(* took effect in it.  The node that ships the entries is a WalFeed, which *)
(* RollupNode implements; the engine that replays them accepts what the    *)
(* module Nonces says.                                                     *)
(***************************************************************************)
EXTENDS Nonces, SequencesExt

CONSTANTS
  Wal,        \* the queries of the entries, first entry first
  Attaches,   \* entry 0 has a second element, which write() reads: no empty batch
  Limit,      \* slots in a page of sync.js
  MaxMsgs,    \* entries in a batch
  MaxSlot, MaxCrash   \* bounds, for TLC only

ASSUME ValidatorAssumption ==
  /\ Legal(Wal)
  /\ Attaches \in BOOLEAN
  /\ Wal # <<>> /\ Wal[1].op # "void" => Attaches
  /\ Limit \in Nat \ {0} /\ MaxMsgs \in Nat \ {0}
  /\ MaxSlot \in Nat /\ MaxCrash \in Nat

VARIABLES
  hb,        \* external: the bundles of slots 1, 2, ...; slot 0 is the spawn message
  slot,      \* this.slot
  page,      \* the page get() is working on
  savedSlot, \* durable: __slot__
  wmsg,      \* durable: the entries under __wmsg__
  wslot,     \* durable: __wslot__, the last entry that was replayed
  wpc, n,    \* where write() is, and its counter i
  buf,       \* the engine's buffer: entries replayed, not committed
  batch,     \* the committed batch
  store,     \* durable: the entries that took effect in the store
  ch,        \* durable: __ch__
  changes,   \* durable: __changes__
  cslot,     \* durable: __cslot__, the last changes that were posted
  cpc,       \* where commit() is
  nonce,     \* the module-level nonce of validate.js
  posted,    \* external: the changes the validation process has taken
  steady,    \* chosen once: the process does not die and no request fails
  crashes

sync == <<slot, page, savedSlot, wmsg>>
writing == <<wslot, wpc, n, buf, batch, store, ch, changes>>
posting == <<cslot, cpc, nonce, posted>>
vars == <<hb, sync, writing, posting, steady, crashes>>

-----------------------------------------------------------------------------
Entries == 0..(Len(Wal) - 1)
NoPage == [from |-> -1, next |-> 0, pos |-> 0, last |-> -1]

(* Slots from..to, as far as they are in the log. *)
PageOf(from, to) ==
  [from |-> from, next |-> from, pos |-> 0,
   last |-> IF to < Len(hb) THEN to ELSE Len(hb)]

(* The entries of a slot. *)
Data(k) == IF k = 0 THEN <<>> ELSE hb[k]

Init ==
  /\ hb = <<>>
  /\ slot = -1 /\ page = NoPage /\ savedSlot = -1 /\ wmsg = {}
  /\ wslot = -1 /\ wpc = "idle" /\ n = 0 /\ buf = <<>> /\ batch = <<>>
  /\ store = <<>> /\ ch = -1 /\ changes = <<>>
  /\ cslot = -1 /\ cpc = "idle" /\ nonce = 2 /\ posted = <<>>
  /\ steady \in BOOLEAN /\ crashes = 0

-----------------------------------------------------------------------------
(* The node ships the entries f..t-1; which ones, and in which order, is   *)
(* up to the node.                                                         *)
Feed == INSTANCE WalFeed WITH size <- Len(Wal)

ship(f, t) ==
  /\ Len(hb) < MaxSlot
  /\ Feed!Ship(f, t)
  /\ UNCHANGED <<sync, writing, posting, steady, crashes>>

-----------------------------------------------------------------------------
(* get(): the first page.  An empty answer ends the call. *)
get ==
  /\ page = NoPage
  /\ slot + 1 <= Len(hb)
  /\ page' = PageOf(slot + 1, slot + Limit)
  /\ UNCHANGED <<hb, slot, savedSlot, wmsg, writing, posting, steady, crashes>>

(* Faulty variant: __slot__ is stored before the entries are. *)
nextMsg_SavesFirst ==
  /\ page # NoPage /\ page.next <= page.last /\ page.pos = 0
  /\ slot' = IF slot + 1 = page.next THEN page.next ELSE slot
  /\ savedSlot' = slot'
  /\ page' = IF Data(page.next) = <<>> THEN [page EXCEPT !.next = page.next + 1]
                                       ELSE [page EXCEPT !.pos = 1]
  /\ UNCHANGED <<hb, wmsg, writing, posting, steady, crashes>>

(* One message of the page is stored and handed to onslot; then its        *)
(* entries are stored one by one.                                          *)
nextMsg ==
  /\ page # NoPage /\ page.next <= page.last /\ page.pos = 0
  /\ slot' = IF slot + 1 = page.next THEN page.next ELSE slot
  /\ page' = IF Data(page.next) = <<>> THEN [page EXCEPT !.next = page.next + 1]
                                       ELSE [page EXCEPT !.pos = 1]
  /\ UNCHANGED <<hb, savedSlot, wmsg, writing, posting, steady, crashes>>

(* io.put(`__wmsg__/${v.slot}`, v) *)
onslot ==
  /\ page.pos > 0
  /\ wmsg' = wmsg \cup {Data(page.next)[page.pos]}
  /\ page' = IF page.pos < Len(Data(page.next))
             THEN [page EXCEPT !.pos = page.pos + 1]
             ELSE [page EXCEPT !.pos = 0, !.next = page.next + 1]
  /\ UNCHANGED <<hb, slot, savedSlot, writing, posting, steady, crashes>>

(* The end of a page: __slot__ is stored, and a full page is followed by   *)
(* another one, which is one slot longer.                                  *)
nextPage ==
  /\ page # NoPage /\ page.next > page.last
  /\ savedSlot' = slot
  /\ page' = IF page.next - page.from >= Limit /\ page.next <= Len(hb)
             THEN PageOf(page.next, page.next + Limit)
             ELSE NoPage
  /\ UNCHANGED <<hb, slot, wmsg, writing, posting, steady, crashes>>

-----------------------------------------------------------------------------
(* The entries the engine sees: a batch is in its cache before it is in    *)
(* the store.                                                              *)
Seen == IF wpc = "flush" THEN store \o batch \o buf ELSE store \o buf

(* The engine takes entry m after those. *)
Queries(s) == [k \in 1..Len(s) |-> Wal[s[k] + 1]]
accepted(m) == accepts(Queries(Seen), Wal[m + 1])

(* write(): the timer fires.  Before entry 0 an engine is attached, with   *)
(* the version in that entry; when there is none to read this throws, and  *)
(* does so for ever.                                                       *)
hasNext == wslot + 1 \in wmsg

write ==
  /\ wpc = "idle"
  /\ hasNext
  /\ wslot = -1 => Attaches
  /\ wpc' = "apply" /\ n' = 0
  /\ UNCHANGED <<hb, sync, wslot, buf, batch, store, ch, changes, posting, steady, crashes>>

(* What db.write leaves in the buffer: a query that throws resets all of   *)
(* it.                                                                     *)
buffered(m) == IF accepted(m) THEN Append(buf, m) ELSE <<>>

dbWrite ==
  /\ wpc = "apply" /\ hasNext /\ n < MaxMsgs
  /\ buf' = buffered(wslot + 1)
  /\ wpc' = "mark"
  /\ UNCHANGED <<hb, sync, wslot, n, batch, store, ch, changes, posting, steady, crashes>>

(* io.put("__wslot__", this.wslot) *)
mark ==
  /\ wpc = "mark"
  /\ wslot' = wslot + 1
  /\ n' = n + 1
  /\ wpc' = "apply"
  /\ UNCHANGED <<hb, sync, buf, batch, store, ch, changes, posting, steady, crashes>>

(* What commit leaves in the buffer.  (Faulty variant: no reset.) *)
leftover_Kept == buf
leftover == <<>>

(* wkv.commit: the buffer becomes the batch. *)
wkvCommit ==
  /\ wpc = "apply" /\ ~(hasNext /\ n < MaxMsgs)
  /\ batch' = buf
  /\ buf' = leftover
  /\ wpc' = "flush"
  /\ UNCHANGED <<hb, sync, wslot, n, store, ch, changes, posting, steady, crashes>>

flush ==
  /\ wpc = "flush"
  /\ store' = store \o batch
  /\ wpc' = "ch"
  /\ UNCHANGED <<hb, sync, wslot, n, buf, batch, ch, changes, posting, steady, crashes>>

(* The callback fn of getKV: __ch__ is stored, then __changes__. *)
putCh ==
  /\ wpc = "ch"
  /\ ch' = ch + 1
  /\ wpc' = "changes"
  /\ UNCHANGED <<hb, sync, wslot, n, buf, batch, store, changes, posting, steady, crashes>>

(* The key of the changes.  (Faulty variant: as before the increment.) *)
changeKey_Old == ch - 1
changeKey == ch

putChanges ==
  /\ wpc = "changes"
  /\ changes' = [k \in DOMAIN changes \cup {changeKey} |->
                   IF k = changeKey THEN batch ELSE changes[k]]
  /\ batch' = <<>>
  /\ wpc' = "idle"
  /\ UNCHANGED <<hb, sync, wslot, n, buf, store, ch, posting, steady, crashes>>

-----------------------------------------------------------------------------
(* commit(): the next changes are sent with the nonce of this process. *)
post ==
  /\ cpc = "idle"
  /\ cslot + 1 \in DOMAIN changes
  /\ cpc' = "sent"
  /\ UNCHANGED <<hb, sync, writing, cslot, nonce, posted, steady, crashes>>

(* The validation process was spawned with nonce 1 and takes a message     *)
(* whose nonce follows.                                                    *)
take ==
  /\ cpc = "sent"
  /\ IF nonce = Len(posted) + 2
     THEN posted' = Append(posted, cslot + 1) /\ cpc' = "taken"
     ELSE UNCHANGED posted /\ cpc' = "refused"
  /\ UNCHANGED <<hb, sync, writing, cslot, nonce, steady, crashes>>

(* Faulty variant: the position is not advanced. *)
nextCslot_Stays == cslot
nextCslot == cslot + 1

(* The answer arrives: the nonce and __cslot__ advance. *)
done ==
  /\ cpc = "taken"
  /\ nonce' = nonce + 1
  /\ cslot' = nextCslot
  /\ cpc' = "idle"
  /\ UNCHANGED <<hb, sync, writing, posted, steady, crashes>>

-----------------------------------------------------------------------------
(* A new process: what is not durable is gone. *)
Restarted ==
  /\ slot' = savedSlot /\ page' = NoPage
  /\ wpc' = "idle" /\ n' = 0 /\ buf' = <<>> /\ batch' = <<>>
  /\ cpc' = "idle" /\ nonce' = 2
  /\ UNCHANGED <<hb, savedSlot, wmsg, wslot, store, ch, changes, cslot, posted, steady>>

crash ==
  /\ ~steady /\ crashes < MaxCrash
  /\ crashes' = crashes + 1
  /\ Restarted

(* A refused nonce is corrected in memory, but compute() only asks for the *)
(* result of the same slot again, and after five attempts the process      *)
(* exits; so it does when the request fails or its answer is lost.         *)
exit ==
  /\ cpc = "refused" \/ (~steady /\ cpc \in {"sent", "taken"})
  /\ Restarted
  /\ UNCHANGED crashes

Next ==
  \/ \E f \in Entries, t \in 1..Len(Wal) : ship(f, t)
  \/ get \/ nextMsg \/ onslot \/ nextPage
  \/ write \/ dbWrite \/ mark \/ wkvCommit \/ flush \/ putCh \/ putChanges
  \/ post \/ take \/ done
  \/ crash \/ exit

Spec == Init /\ [][Next]_vars

(* The three timers fire and the store and the validation process answer. *)
Fairness ==
  /\ WF_vars(get \/ nextMsg \/ onslot \/ nextPage)
  /\ WF_vars(write \/ dbWrite \/ mark \/ wkvCommit \/ flush \/ putCh \/ putChanges)
  /\ WF_vars(post \/ take \/ done)
  /\ WF_vars(exit)

FairSpec == Spec /\ Fairness

-----------------------------------------------------------------------------
(* sync.js stores __slot__ at the end of a page only, and starts from it   *)
(* again after a crash: no entry of a slot up to it is missing, so write() *)
(* never waits for an entry that was downloaded and forgotten.             *)
SavedSlotIsComplete ==
  \A k \in 1..savedSlot : Range(hb[k]) \subseteq wmsg

(* An entry takes effect at most once, in the order of the WAL, although   *)
(* the log has duplicates and the process may die anywhere.                *)
TakesEffectOnce ==
  \A j, k \in 1..Len(Seen) : j < k => Seen[j] < Seen[k]

(* Nor does anything take effect without what its signer had done before:  *)
(* when a crash loses entries that were marked as replayed, all later ones *)
(* of their signers are refused, and if init is among them so is all that  *)
(* writes.                                                                 *)
SignersInOrder ==
  /\ TakesEffectOnce
  /\ \A k \in 1..Len(Seen) :
       /\ Wal[Seen[k] + 1].op = "set"
            => \E j \in 1..(k - 1) : Wal[Seen[j] + 1].op = "init"
       /\ \A m \in 0..(Seen[k] - 1) :
            Wal[m + 1].acct = Wal[Seen[k] + 1].acct
              => \E j \in 1..(k - 1) : Seen[j] = m

(* The validation process has the changes 0, 1, 2, ... once each: a repeat *)
(* after a crash between the post and __cslot__ is refused by its nonce.   *)
PostedInOrder ==
  /\ \A k \in 1..Len(posted) : posted[k] = k - 1
  /\ cslot + 1 <= Len(posted)

(* litepaper: validators verify state transitions by replaying from the    *)
(* HyperBEAM WAL.  Then what the engine has seen is the whole WAL up to    *)
(* the entry it claims.                                                    *)
ReplaysWholeLog ==
  Seen = [k \in 1..(wslot + IF wpc = "mark" THEN 2 ELSE 1) |-> k - 1]

(* validate.js: so it is while the process lives, whatever duplicates the  *)
(* log has and wherever a batch ends.                                      *)
ReplaysWhileAlive == steady => ReplaysWholeLog

(* What is posted is what took effect, in order: nothing of the store is   *)
(* left out between two posts, while the process lives.                    *)
PostedIsStore ==
  steady => IsPrefix(FlattenSeq([k \in 1..Len(posted) |-> changes[posted[k]]]), store)

(* Every entry that was shipped with all before it gets posted, if the     *)
(* process lives.                                                          *)
Shipped == UNION {Range(hb[k]) : k \in 1..Len(hb)}
EventuallyPublished ==
  \A m \in Entries :
    (steady /\ Attaches /\ 0..m \subseteq Shipped) ~> (\E k \in Range(posted) : m \in Range(changes[k]))
=============================================================================
