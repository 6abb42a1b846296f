---------------------------- MODULE EngineProofs ----------------------------
(* For every number of signers, directories, rules, queries, reads and     *)
(* flushes: what the write pipeline keeps.                                 *)
EXTENDS Engine, FiniteSetTheorems, WellFoundedInduction, TLAPS

Fields == {"id", "owner", "i", "ts", "dirs", "latest", "nonce", "dir", "rules", "docs"}
Keys == SUBSET {"add", "set", "update", "del"}
Auths == [key : Keys, ref : Nat]
DirInfo == [index : Int, autoid : Int, auth : Seq(Auths), auth_index : Int]
Finite(docs) == docs \in [Dir -> SUBSET Nat] /\ \A d \in Dir : IsFiniteSet(docs[d])

StateOK(s) ==
  /\ s = [f \in Fields |-> s[f]]
  /\ s.id \in BOOLEAN /\ s.i \in Int /\ s.ts \in Int /\ s.dirs \in Nat
  /\ s.latest \in [ts : Int, count : Int]
  /\ s.nonce \in [Account -> Nat]
  /\ s.dir \in [Dir -> DirInfo]
  /\ Finite(s.docs)

(* The directories have indexes of their own; there is none before init.   *)
DirsOK(s) ==
  /\ \A d \in Dir : /\ s.dir[d].index = -1 => s.dir[d].auth_index = -1 /\ s.dir[d].auth = <<>>
                    /\ s.dir[d].index < s.dirs /\ s.dir[d].index >= -1
                    /\ s.dir[d].auth_index >= -1 /\ s.dir[d].autoid >= -1
  /\ \A d, e \in Dir : d # e /\ s.dir[d].index = s.dir[e].index => s.dir[d].index = -1
  /\ ~s.id => s.owner = NONE /\ \A d \in Dir : s.dir[d].index = -1

(* The bodies of the rules are the ones of the last call. *)
Stored(s, x) ==
  \E d \in Dir : \E r \in 0..s.dir[d].auth_index : x = <<s.dir[d].index, r>>
RulesOK(s) ==
  /\ \A x : x \in DOMAIN s.rules <=> Stored(s, x)
  /\ \A d \in Dir : \A k \in 1..Len(s.dir[d].auth) :
       /\ s.dir[d].auth[k].ref \in 0..s.dir[d].auth_index
       /\ s.rules[<<s.dir[d].index, s.dir[d].auth[k].ref>>].ops = s.dir[d].auth[k].key

Good(s) == StateOK(s) /\ DirsOK(s) /\ RulesOK(s)

-----------------------------------------------------------------------------
(* Induction over the naturals, for a set. *)
LEMMA Induction ==
  ASSUME NEW S, 0 \in S, \A n \in Nat : n \in S => n + 1 \in S
  PROVE  \A n \in Nat : n \in S
<1> DEFINE T == Nat \ S
           R == OpToRel(<, Nat)
<1> SUFFICES ASSUME T # {}
             PROVE  FALSE
  OBVIOUS
<1>1. T \subseteq Nat /\ IsWellFoundedOn(R, Nat)
  BY NatLessThanWellFounded
<1> HIDE DEF T, R
<1>2. PICK x \in T : \A y \in T : ~(<<y, x>> \in R)
  BY <1>1, WFMin
<1>3. x \in Nat /\ x # 0 /\ x \notin S
  BY <1>1 DEF T
<1>4. x - 1 \in Nat /\ x - 1 < x /\ (x - 1) + 1 = x
  BY <1>3
<1>5. x - 1 \notin T
  BY <1>2, <1>3, <1>4 DEF R, OpToRel
<1> QED
  BY <1>3, <1>4, <1>5 DEF T

(* The least element of a set of numbers from a on. *)
LEMMA LeastFrom ==
  ASSUME NEW a \in Nat, NEW T, \E n \in Nat : n >= a /\ n \notin T
  PROVE  \E n \in Nat : n >= a /\ n \notin T /\ \A m \in a..(n - 1) : m \in T
<1> DEFINE U == {n \in Nat : n >= a /\ n \notin T}
           R == OpToRel(<, Nat)
<1>1. U \subseteq Nat /\ IsWellFoundedOn(R, Nat) /\ U # {}
  BY NatLessThanWellFounded
<1> HIDE DEF U, R
<1>2. PICK n \in U : \A y \in U : ~(<<y, n>> \in R)
  BY <1>1, WFMin
<1>3. n \in Nat /\ n >= a /\ n \notin T
  BY DEF U
<1>4. ASSUME NEW m \in a..(n - 1)
      PROVE  m \in T
  <2>1. m \in Nat /\ m < n /\ m >= a
    BY <1>3
  <2>2. m \notin U
    BY <1>2, <1>3, <2>1 DEF R, OpToRel
  <2> QED BY <2>1, <2>2 DEF U
<1> QED BY <1>3, <1>4

-----------------------------------------------------------------------------
(* dirinfo.auth: after k rules every entry leads to a rule with its key.   *)
AuthUpTo(g, rs, n) ==
  g = [k \in 0..n |-> IF k = 0 THEN <<>> ELSE Assigned(g[k - 1], rs[k].ops, k - 1)]

LEMMA AuthExists ==
  ASSUME NEW rs
  PROVE  \A n \in Nat : \E g : AuthUpTo(g, rs, n)
<1> DEFINE S == {n \in Nat : \E g : AuthUpTo(g, rs, n)}
<1>1. 0 \in S
  <2> DEFINE g == [k \in 0..0 |-> <<>>]
  <2>1. AuthUpTo(g, rs, 0)
    BY DEF AuthUpTo
  <2> QED BY <2>1
<1>2. ASSUME NEW n \in Nat, n \in S
      PROVE  n + 1 \in S
  <2>1. PICK g : AuthUpTo(g, rs, n)
    BY <1>2
  <2>2. \A k \in 0..n : g[k] = IF k = 0 THEN <<>> ELSE Assigned(g[k - 1], rs[k].ops, k - 1)
    BY <2>1 DEF AuthUpTo
  <2> DEFINE last == Assigned(g[n], rs[n + 1].ops, n)
             h == [k \in 0..(n + 1) |-> IF k <= n THEN g[k] ELSE last]
             f == [k \in 0..(n + 1) |-> IF k = 0 THEN <<>> ELSE Assigned(h[k - 1], rs[k].ops, k - 1)]
  <2>3. ASSUME NEW k \in 0..(n + 1)
        PROVE  h[k] = f[k]
    <3>1. CASE k = 0
      BY <2>2, <3>1
    <3>2. CASE k # 0 /\ k <= n
      <4>1. k \in 0..n /\ k - 1 \in 0..n /\ k - 1 \in 0..(n + 1) /\ k - 1 <= n
        BY <3>2
      <4>2. h[k] = g[k] /\ h[k - 1] = g[k - 1]
        BY <3>2, <4>1
      <4> QED BY <2>2, <3>2, <4>1, <4>2
    <3>3. CASE ~(k <= n)
      <4>1. k = n + 1 /\ k - 1 = n /\ k # 0 /\ n \in 0..(n + 1) /\ n <= n
        BY <3>3
      <4>2. h[k] = last /\ h[k - 1] = g[n]
        BY <3>3, <4>1
      <4> QED BY <4>1, <4>2
    <3> QED BY <3>1, <3>2, <3>3
  <2>4. h = f
    <3> HIDE DEF last
    <3>1. DOMAIN h = 0..(n + 1) /\ DOMAIN f = 0..(n + 1)
      OBVIOUS
    <3> QED BY <2>3, <3>1
  <2>5. AuthUpTo(h, rs, n + 1)
    BY <2>4 DEF AuthUpTo
  <2> QED BY <2>5
<1> HIDE DEF S
<1>3. \A n \in Nat : n \in S
  BY <1>1, <1>2, Induction
<1> QED BY <1>3 DEF S

Leads(auths, rs, n) ==
  /\ auths \in Seq(Auths)
  /\ \A k \in 1..Len(auths) : auths[k].ref \in 0..(n - 1) /\ rs[auths[k].ref + 1].ops = auths[k].key

LEMMA AssignedLeads ==
  ASSUME NEW rs \in Seq(Rule), NEW n \in Nat, n + 1 <= Len(rs), NEW auths, Leads(auths, rs, n)
  PROVE  Leads(Assigned(auths, rs[n + 1].ops, n), rs, n + 1)
<1> DEFINE e == [key |-> rs[n + 1].ops, ref |-> n]
           new == Assigned(auths, rs[n + 1].ops, n)
<1>1. n + 1 \in 1..Len(rs)
  OBVIOUS
<1>2. rs[n + 1] \in Rule
  BY <1>1
<1>3. e \in Auths /\ e.ref = n /\ e.key = rs[n + 1].ops
  BY <1>2 DEF Auths, Rule, Keys
<1>4. /\ auths \in Seq(Auths) /\ Len(auths) \in Nat
      /\ \A k \in 1..Len(auths) : auths[k].ref \in 0..n /\ rs[auths[k].ref + 1].ops = auths[k].key
  <2>1. 0..(n - 1) \subseteq 0..n
    OBVIOUS
  <2> QED BY <2>1 DEF Leads
<1> HIDE DEF e
<1>5. CASE \E k \in 1..Len(auths) : auths[k].key = rs[n + 1].ops
  <2>1. new = [k \in 1..Len(auths) |-> IF auths[k].key = rs[n + 1].ops THEN e ELSE auths[k]]
    BY <1>5 DEF Assigned, e
  <2>2. new \in Seq(Auths) /\ Len(new) = Len(auths)
    <3>1. \A k \in 1..Len(auths) : (IF auths[k].key = rs[n + 1].ops THEN e ELSE auths[k]) \in Auths
      BY <1>3, <1>4
    <3> QED BY <1>4, <2>1, <3>1
  <2>3. ASSUME NEW k \in 1..Len(new)
        PROVE  new[k].ref \in 0..n /\ rs[new[k].ref + 1].ops = new[k].key
    <3>1. CASE auths[k].key = rs[n + 1].ops
      <4>1. new[k] = e
        BY <2>1, <2>2, <3>1
      <4> QED BY <1>3, <4>1
    <3>2. CASE auths[k].key # rs[n + 1].ops
      <4>1. new[k] = auths[k] /\ k \in 1..Len(auths)
        BY <2>1, <2>2, <3>2
      <4> QED BY <1>4, <4>1
    <3> QED BY <3>1, <3>2
  <2>4. (n + 1) - 1 = n
    OBVIOUS
  <2> QED BY <2>2, <2>3, <2>4 DEF Leads
<1>6. CASE ~(\E k \in 1..Len(auths) : auths[k].key = rs[n + 1].ops)
  <2>1. new = Append(auths, e)
    BY <1>6 DEF Assigned, e
  <2>2. /\ new \in Seq(Auths) /\ Len(new) = Len(auths) + 1 /\ new[Len(auths) + 1] = e
        /\ \A k \in 1..Len(auths) : new[k] = auths[k]
    BY <1>3, <1>4, <2>1
  <2>3. ASSUME NEW k \in 1..Len(new)
        PROVE  new[k].ref \in 0..n /\ rs[new[k].ref + 1].ops = new[k].key
    <3>1. CASE k = Len(auths) + 1
      BY <1>3, <2>2, <3>1
    <3>2. CASE k # Len(auths) + 1
      <4>1. k \in 1..Len(auths)
        BY <1>4, <2>2, <3>2
      <4> QED BY <1>4, <2>2, <4>1
    <3> QED BY <3>1, <3>2
  <2>4. (n + 1) - 1 = n
    OBVIOUS
  <2> QED BY <2>2, <2>3, <2>4 DEF Leads
<1> QED BY <1>5, <1>6

LEMMA AuthLeads ==
  ASSUME NEW rs \in Seq(Rule)
  PROVE  Leads(AuthOf(rs), rs, Len(rs))
<1> DEFINE n == Len(rs)
           g == CHOOSE f : AuthUpTo(f, rs, n)
           S == {k \in Nat : k <= n => Leads(g[k], rs, k)}
<1>0. n \in Nat
  OBVIOUS
<1>1. AuthUpTo(g, rs, n)
  BY <1>0, AuthExists
<1>2. AuthOf(rs) = g[n]
  BY DEF AuthOf, AuthUpTo
<1>3. \A k \in 0..n : g[k] = IF k = 0 THEN <<>> ELSE Assigned(g[k - 1], rs[k].ops, k - 1)
  BY <1>1 DEF AuthUpTo
<1> HIDE DEF g, n
<1>4. 0 \in S
  <2>1. 0 \in 0..n
    BY <1>0
  <2>2. g[0] = <<>>
    BY <1>3, <2>1
  <2>3. <<>> \in Seq(Auths) /\ Len(<<>>) = 0
    OBVIOUS
  <2>4. Leads(<<>>, rs, 0)
    BY <2>3 DEF Leads
  <2> QED BY <2>2, <2>4
<1>5. ASSUME NEW k \in Nat, k \in S
      PROVE  k + 1 \in S
  <2> SUFFICES ASSUME k + 1 <= n
               PROVE  Leads(g[k + 1], rs, k + 1)
    OBVIOUS
  <2>1. k + 1 \in 0..n /\ k + 1 # 0 /\ (k + 1) - 1 = k /\ k <= n
    BY <1>0
  <2>2. g[k + 1] = Assigned(g[k], rs[k + 1].ops, k)
    BY <1>3, <2>1
  <2>3. Leads(g[k], rs, k)
    BY <1>5, <2>1
  <2>4. k + 1 <= Len(rs)
    BY DEF n
  <2> QED BY <2>2, <2>3, <2>4, AssignedLeads
<1> HIDE DEF S
<1>6. n \in S
  BY <1>0, <1>4, <1>5, Induction
<1>7. n <= n
  BY <1>0
<1> QED BY <1>2, <1>6, <1>7 DEF S, n

-----------------------------------------------------------------------------
(* What the operations leave of a state, field by field.                   *)
Same(s, t, F) == \A f \in F : t[f] = s[f]
IsRecord(s) == s = [f \in Fields |-> s[f]]

LEMMA InitIs ==
  ASSUME NEW s, IsRecord(s), NEW a
  PROVE  /\ IsRecord(init(s, a)) /\ Same(s, init(s, a), Fields \ {"id", "owner", "dirs"})
         /\ init(s, a).id = TRUE /\ init(s, a).owner = a /\ init(s, a).dirs = 3
BY DEF init, IsRecord, Fields, Same

LEMMA MkdirIs ==
  ASSUME NEW s, IsRecord(s), NEW d \in Dir
  PROVE  /\ IsRecord(mkdir(s, d)) /\ Same(s, mkdir(s, d), Fields \ {"dir", "dirs"})
         /\ mkdir(s, d).dir = [s.dir EXCEPT ![d] = [NoDir EXCEPT !.index = s.dirs]]
         /\ mkdir(s, d).dirs = s.dirs + 1
BY DEF mkdir, IsRecord, Fields, Same

SetDir(s, d, rs) == [s.dir[d] EXCEPT !.auth = AuthOf(rs), !.auth_index = Len(rs) - 1]
NewKeys(s, d, rs) == {<<s.dir[d].index, k - 1>> : k \in 1..Len(rs)}
SetRules(s, d, rs) ==
  [r \in Kept(s, d, rs) \cup NewKeys(s, d, rs) |->
     IF r \in NewKeys(s, d, rs) THEN rs[r[2] + 1] ELSE s.rules[r]]
LEMMA SetAuthIs ==
  ASSUME NEW s, IsRecord(s), NEW d \in Dir, NEW rs
  PROVE  /\ IsRecord(setAuth(s, d, rs)) /\ Same(s, setAuth(s, d, rs), Fields \ {"dir", "rules"})
         /\ setAuth(s, d, rs).dir = [s.dir EXCEPT ![d] = SetDir(s, d, rs)]
         /\ setAuth(s, d, rs).rules = SetRules(s, d, rs)
<1>1. setAuth(s, d, rs) = [s EXCEPT !.dir[d] = SetDir(s, d, rs), !.rules = SetRules(s, d, rs)]
  BY DEF setAuth, SetDir, SetRules, NewKeys
<1> QED BY <1>1 DEF IsRecord, Fields, Same

AddDir(s, d, old) == [s.dir EXCEPT ![d].autoid = genDocID(s, d, old)]
AddDocs(s, d, old) == [s.docs EXCEPT ![d] = s.docs[d] \cup {genDocID(s, d, old)}]
LEMMA AddIs ==
  ASSUME NEW s, IsRecord(s), NEW d \in Dir, NEW old
  PROVE  /\ IsRecord(add(s, d, old)) /\ Same(s, add(s, d, old), Fields \ {"docs", "dir"})
         /\ add(s, d, old).dir = AddDir(s, d, old)
         /\ add(s, d, old).docs = AddDocs(s, d, old)
<1> DEFINE k == genDocID(s, d, old)
           t == [s EXCEPT !.dir[d].autoid = k]
<1>1. add(s, d, old) = put(t, d, k)
  BY DEF add
<1> HIDE DEF k
<1>2. /\ IsRecord(t) /\ Same(s, t, Fields \ {"dir"})
      /\ t.dir = [s.dir EXCEPT ![d].autoid = k]
  BY DEF IsRecord, Fields, Same
<1> HIDE DEF t
<1>3. /\ IsRecord(put(t, d, k)) /\ Same(t, put(t, d, k), Fields \ {"docs"})
      /\ put(t, d, k).docs = [t.docs EXCEPT ![d] = t.docs[d] \cup {k}]
  BY <1>2 DEF put, IsRecord, Fields, Same
<1>4. t.docs = s.docs
  BY <1>2 DEF Same, Fields
<1> QED BY <1>1, <1>2, <1>3, <1>4 DEF Same, Fields, AddDir, AddDocs, k

LEMMA StartIs ==
  ASSUME NEW s, IsRecord(s), NEW q, NEW now
  PROVE  /\ IsRecord(start(s, q, now))
         /\ Same(s, start(s, q, now), Fields \ {"i", "ts", "latest", "nonce"})
         /\ start(s, q, now).i = s.i + 1 /\ start(s, q, now).ts = now
         /\ start(s, q, now).latest = Counted(s.latest, now)
         /\ start(s, q, now).nonce = [s.nonce EXCEPT ![q.signer] = s.nonce[q.signer] + 1]
<1> DEFINE t == normalize(s, now)
<1>1. /\ IsRecord(t) /\ Same(s, t, Fields \ {"i", "ts", "latest"})
      /\ t.i = s.i + 1 /\ t.ts = now /\ t.latest = Counted(s.latest, now)
  BY DEF normalize, IsRecord, Fields, Same
<1> HIDE DEF t
<1>2. /\ IsRecord(verify(t, q)) /\ Same(t, verify(t, q), Fields \ {"nonce"})
      /\ verify(t, q).nonce = [t.nonce EXCEPT ![q.signer] = t.nonce[q.signer] + 1]
  BY <1>1 DEF verify, IsRecord, Fields, Same
<1>3. start(s, q, now) = verify(t, q)
  BY DEF start, t
<1> QED BY <1>1, <1>2, <1>3 DEF Same, Fields

-----------------------------------------------------------------------------
(* genDocID finds a number, and it is not taken. *)
LEMMA GenFinds ==
  ASSUME NEW s, NEW d \in Dir, NEW old, s.dir[d].autoid \in Int, s.dir[d].autoid >= -1,
         IsFiniteSet(visible(s, d, old))
  PROVE  /\ genDocID(s, d, old) \in Nat /\ genDocID(s, d, old) \notin visible(s, d, old)
<1> DEFINE first == s.dir[d].autoid + 1
           taken == visible(s, d, old)
           c == Cardinality(taken)
           I == first..(first + c)
           P(k) == k \notin taken /\ \A m \in first..(k - 1) : m \in taken
<1>1. first \in Nat /\ c \in Nat
  <2>1. first \in Nat
    OBVIOUS
  <2>2. c \in Nat
    BY FS_CardinalityType
  <2> QED BY <2>1, <2>2
<1> HIDE DEF taken, c, first
<1>2. \E w \in I : w \notin taken
  <2> SUFFICES ASSUME I \subseteq taken
               PROVE  FALSE
    OBVIOUS
  <2>1. Cardinality(I) = c + 1
    <3>1. Cardinality(first..(first + c)) = IF first > first + c THEN 0 ELSE (first + c) - first + 1
      BY <1>1, FS_Interval
    <3> QED BY <1>1, <3>1
  <2>2. Cardinality(I) <= c
    <3>1. IsFiniteSet(taken)
      BY DEF taken
    <3> HIDE DEF I
    <3> QED BY <3>1, FS_Subset DEF c
  <2> QED BY <1>1, <2>1, <2>2
<1>3. PICK w \in I : w \notin taken
  BY <1>2
<1>4. w \in Nat /\ w >= first /\ w <= first + c
  BY <1>1
<1>5. PICK n \in Nat : n >= first /\ n \notin taken /\ \A m \in first..(n - 1) : m \in taken
  BY <1>1, <1>3, <1>4, LeastFrom
<1>6. n \in I
  <2>1. ASSUME n > w
        PROVE  FALSE
    <3>1. w \in first..(n - 1)
      BY <1>1, <1>4, <1>5, <2>1
    <3> QED BY <1>3, <1>5, <3>1
  <2> QED BY <1>1, <1>4, <1>5, <2>1
<1>7. P(n)
  BY <1>5
<1>8. genDocID(s, d, old) = CHOOSE k \in I : P(k)
  BY DEF genDocID, first, taken, c
<1> HIDE DEF P
<1>9. (CHOOSE k \in I : P(k)) \in I /\ P(CHOOSE k \in I : P(k))
  BY <1>6, <1>7
<1> QED BY <1>1, <1>8, <1>9 DEF P, taken

-----------------------------------------------------------------------------
(* The operations keep what holds of a state. *)
LEMMA OpIs ==
  ASSUME NEW o \in Op
  PROVE  \/ o.op = "init"
         \/ o.op = "mkdir" /\ o.dir \in Dir
         \/ o.op = "setAuth" /\ o.dir \in Dir /\ o.rules \in Seq(Rule)
         \/ o.op = "add" /\ o.dir \in Dir
         \/ o.op = "del" /\ o.dir \in Dir /\ o.doc \in Nat
         \/ o.op \in {"set", "update"} /\ o.dir \in Dir /\ o.doc \in Nat
<1>1. RuleSet \subseteq Seq(Rule) /\ DocId \subseteq Nat
  BY EngineAssumption DEF DocId
<1> HIDE DEF Rule, DocId
<1> QED BY <1>1 DEF Op

LEMMA GoodByFields ==
  ASSUME NEW s, Good(s), NEW t, IsRecord(t), Same(s, t, {"id", "owner", "dirs", "dir", "rules"}),
         t.i \in Int, t.ts \in Int, t.latest \in [ts : Int, count : Int],
         t.nonce \in [Account -> Nat], Finite(t.docs)
  PROVE  Good(t)
<1>1. t.id = s.id /\ t.owner = s.owner /\ t.dirs = s.dirs /\ t.dir = s.dir /\ t.rules = s.rules
  BY DEF Same
<1>2. StateOK(t)
  BY <1>1 DEF Good, StateOK, IsRecord
<1>3. DirsOK(t)
  BY <1>1 DEF Good, DirsOK
<1>4. RulesOK(t)
  <2>1. \A x : Stored(t, x) <=> Stored(s, x)
    BY <1>1 DEF Stored
  <2> QED BY <1>1, <2>1 DEF Good, RulesOK
<1> QED BY <1>2, <1>3, <1>4 DEF Good

Clockwise == {"i", "ts", "latest", "nonce"}

LEMMA DocsGood ==
  ASSUME NEW s, Good(s), NEW t, IsRecord(t), Same(s, t, Fields \ {"docs"}), NEW d \in Dir,
         NEW k \in Nat,
         \/ t.docs = [s.docs EXCEPT ![d] = s.docs[d] \cup {k}]
         \/ t.docs = [s.docs EXCEPT ![d] = s.docs[d] \ {k}]
  PROVE  Good(t) /\ Same(s, t, Clockwise)
<1>1. Same(s, t, Clockwise) /\ Same(s, t, {"id", "owner", "dirs", "dir", "rules"})
  BY DEF Same, Fields, Clockwise
<1>2. t.i = s.i /\ t.ts = s.ts /\ t.latest = s.latest /\ t.nonce = s.nonce
  BY <1>1 DEF Same, Clockwise
<1>3. Finite(s.docs)
  BY DEF Good, StateOK
<1>4. IsFiniteSet(s.docs[d] \cup {k}) /\ IsFiniteSet(s.docs[d] \ {k})
  <2>1. IsFiniteSet(s.docs[d])
    BY <1>3 DEF Finite
  <2> QED BY <2>1, FS_AddElement, FS_RemoveElement
<1>5. Finite(t.docs)
  BY <1>3, <1>4 DEF Finite
<1>6. t.i \in Int /\ t.ts \in Int /\ t.latest \in [ts : Int, count : Int] /\ t.nonce \in [Account -> Nat]
  BY <1>2 DEF Good, StateOK
<1> QED BY <1>1, <1>5, <1>6, GoodByFields

LEMMA InitGood ==
  ASSUME NEW s, Good(s), ~s.id, NEW a
  PROVE  Good(init(s, a)) /\ Same(s, init(s, a), Clockwise)
<1> DEFINE t == init(s, a)
<1>1. IsRecord(s)
  BY DEF Good, StateOK, IsRecord
<1>2. /\ IsRecord(t) /\ Same(s, t, Fields \ {"id", "owner", "dirs"})
      /\ t.id = TRUE /\ t.dirs = 3
  BY <1>1, InitIs
<1> HIDE DEF t
<1>3. /\ Same(s, t, Clockwise)
      /\ t.i = s.i /\ t.ts = s.ts /\ t.latest = s.latest /\ t.nonce = s.nonce
      /\ t.dir = s.dir /\ t.rules = s.rules /\ t.docs = s.docs
  BY <1>2 DEF Same, Fields, Clockwise
<1>4. StateOK(t)
  <2>1. t.id \in BOOLEAN
    BY <1>2
  <2>2. t.dirs \in Nat
    BY <1>2
  <2>3. /\ s.i \in Int /\ s.ts \in Int /\ s.latest \in [ts : Int, count : Int]
        /\ s.nonce \in [Account -> Nat] /\ s.dir \in [Dir -> DirInfo] /\ Finite(s.docs)
    BY DEF Good, StateOK
  <2> QED BY <1>2, <1>3, <2>1, <2>2, <2>3, Zenon DEF StateOK, IsRecord
<1>5. DirsOK(t)
  BY <1>2, <1>3 DEF Good, DirsOK
<1>6. RulesOK(t)
  <2>1. \A x : Stored(t, x) <=> Stored(s, x)
    BY <1>3 DEF Stored
  <2> QED BY <1>3, <2>1 DEF Good, RulesOK
<1> QED BY <1>3, <1>4, <1>5, <1>6 DEF Good, t

LEMMA MkdirGood ==
  ASSUME NEW s, Good(s), s.id, NEW d \in Dir, ~Exists(s, d)
  PROVE  Good(mkdir(s, d)) /\ Same(s, mkdir(s, d), Clockwise)
<1> DEFINE t == mkdir(s, d)
           i == [NoDir EXCEPT !.index = s.dirs]
<1>1. IsRecord(s)
  BY DEF Good, StateOK, IsRecord
<1>2. /\ IsRecord(t) /\ Same(s, t, Fields \ {"dir", "dirs"})
      /\ t.dir = [s.dir EXCEPT ![d] = i]
      /\ t.dirs = s.dirs + 1
  BY <1>1, MkdirIs
<1> HIDE DEF t
<1>3. /\ Same(s, t, Clockwise)
      /\ t.i = s.i /\ t.ts = s.ts /\ t.latest = s.latest /\ t.nonce = s.nonce
      /\ t.id = s.id /\ t.owner = s.owner /\ t.rules = s.rules /\ t.docs = s.docs
  BY <1>2 DEF Same, Fields, Clockwise
<1>4. s.dirs \in Nat /\ s.dir \in [Dir -> DirInfo]
  BY DEF Good, StateOK
<1>5. i = [index |-> s.dirs, autoid |-> -1, auth |-> <<>>, auth_index |-> -1]
  BY DEF NoDir
<1>6. i \in DirInfo /\ i.index = s.dirs /\ i.autoid = -1 /\ i.auth = <<>> /\ i.auth_index = -1
  <2>1. <<>> \in Seq(Auths) /\ -1 \in Int /\ s.dirs \in Int
    BY <1>4
  <2> QED BY <1>5, <2>1 DEF DirInfo
<1> HIDE DEF i
<1>7. t.dir \in [Dir -> DirInfo] /\ t.dir[d] = i /\ \A e \in Dir : e # d => t.dir[e] = s.dir[e]
  BY <1>2, <1>4, <1>6
<1>8. StateOK(t)
  BY <1>2, <1>3, <1>4, <1>7 DEF Good, StateOK, IsRecord
<1>9. \A e \in Dir : s.dir[e].index \in Int /\ s.dir[e].auth_index \in Int /\ s.dir[e].autoid \in Int
  BY <1>4 DEF DirInfo
<1>10. DirsOK(t)
  <2>1. /\ \A e \in Dir : /\ s.dir[e].index = -1 => s.dir[e].auth_index = -1 /\ s.dir[e].auth = <<>>
                          /\ s.dir[e].index < s.dirs /\ s.dir[e].index >= -1
                          /\ s.dir[e].auth_index >= -1 /\ s.dir[e].autoid >= -1
        /\ \A e, f \in Dir : e # f /\ s.dir[e].index = s.dir[f].index => s.dir[e].index = -1
    BY DEF Good, DirsOK
  <2>2. ASSUME NEW e \in Dir
        PROVE  /\ t.dir[e].index = -1 => t.dir[e].auth_index = -1 /\ t.dir[e].auth = <<>>
               /\ t.dir[e].index < t.dirs /\ t.dir[e].index >= -1
               /\ t.dir[e].auth_index >= -1 /\ t.dir[e].autoid >= -1
    <3>1. CASE e = d
      BY <1>2, <1>4, <1>6, <1>7, <3>1
    <3>2. CASE e # d
      BY <1>2, <1>4, <1>7, <1>9, <2>1, <3>2
    <3> QED BY <3>1, <3>2
  <2>3. \A e \in Dir : e # d => t.dir[e].index < s.dirs
    BY <1>7, <2>1
  <2>4. ASSUME NEW e \in Dir, NEW f \in Dir, e # f, t.dir[e].index = t.dir[f].index
        PROVE  t.dir[e].index = -1
    <3>1. e # d /\ f # d
      BY <1>4, <1>6, <1>7, <1>9, <2>3, <2>4
    <3> QED BY <1>7, <2>1, <2>4, <3>1
  <2> QED BY <1>3, <2>2, <2>4 DEF DirsOK
<1>11. RulesOK(t)
  <2>1. s.dir[d].index = -1
    BY <1>9 DEF Good, DirsOK, Exists
  <2>2. s.dir[d].auth_index = -1 /\ s.dir[d].auth = <<>>
    BY <2>1 DEF Good, DirsOK
  <2>3. \A x : Stored(t, x) <=> Stored(s, x)
    <3>1. 0..s.dir[d].auth_index = {} /\ 0..t.dir[d].auth_index = {}
      BY <1>6, <1>7, <2>2
    <3> QED BY <1>7, <3>1 DEF Stored
  <2>4. ASSUME NEW e \in Dir, NEW k \in 1..Len(t.dir[e].auth)
        PROVE  /\ t.dir[e].auth[k].ref \in 0..t.dir[e].auth_index
               /\ t.rules[<<t.dir[e].index, t.dir[e].auth[k].ref>>].ops = t.dir[e].auth[k].key
    <3>1. e # d
      <4>1. Len(<<>>) = 0
        OBVIOUS
      <4> QED BY <1>6, <1>7, <4>1
    <3>2. t.dir[e] = s.dir[e] /\ t.rules = s.rules
      BY <1>3, <1>7, <3>1
    <3>3. \A m \in 1..Len(s.dir[e].auth) :
            /\ s.dir[e].auth[m].ref \in 0..s.dir[e].auth_index
            /\ s.rules[<<s.dir[e].index, s.dir[e].auth[m].ref>>].ops = s.dir[e].auth[m].key
      BY DEF Good, RulesOK
    <3> QED BY <3>2, <3>3
  <2>5. \A x : x \in DOMAIN t.rules <=> Stored(t, x)
    BY <1>3, <2>3 DEF Good, RulesOK
  <2> QED BY <2>4, <2>5 DEF RulesOK
<1> QED BY <1>3, <1>8, <1>10, <1>11 DEF Good, t

LEMMA AddGood ==
  ASSUME NEW s, Good(s), NEW d \in Dir, NEW old, Finite(old), Exists(s, d)
  PROVE  Good(add(s, d, old)) /\ Same(s, add(s, d, old), Clockwise)
<1> DEFINE k == genDocID(s, d, old)
           t == add(s, d, old)
           u == [s EXCEPT !.dir[d].autoid = k]
<1>1. IsRecord(s)
  BY DEF Good, StateOK, IsRecord
<1>2. IsRecord(u) /\ Same(s, u, Fields \ {"dir"}) /\ u.dir = [s.dir EXCEPT ![d].autoid = k]
  BY <1>1 DEF IsRecord, Fields, Same
<1>3. t = put(u, d, k)
  BY DEF add
<1>4. k \in Nat
  <2>1. s.dir[d].autoid \in Int /\ s.dir[d].autoid >= -1
    BY DEF Good, DirsOK, StateOK, DirInfo
  <2>2. IsFiniteSet(visible(s, d, old))
    BY FS_Union DEF Good, StateOK, Finite, visible
  <2> QED BY <2>1, <2>2, GenFinds
<1> HIDE DEF u, k
<1>5. /\ u.i = s.i /\ u.ts = s.ts /\ u.latest = s.latest /\ u.nonce = s.nonce /\ u.dirs = s.dirs
      /\ u.id = s.id /\ u.owner = s.owner /\ u.rules = s.rules /\ u.docs = s.docs
  BY <1>2 DEF Same, Fields
<1>6. s.dir \in [Dir -> DirInfo]
  BY DEF Good, StateOK
<1>7. /\ u.dir \in [Dir -> DirInfo]
      /\ \A e \in Dir : /\ u.dir[e].index = s.dir[e].index /\ u.dir[e].auth = s.dir[e].auth
                        /\ u.dir[e].auth_index = s.dir[e].auth_index
                        /\ u.dir[e].autoid \in {s.dir[e].autoid, k}
  <2>1. PICK i \in DirInfo : i = s.dir[d]
    BY <1>6
  <2>2. PICK j : j = [i EXCEPT !.autoid = k]
    OBVIOUS
  <2>3. /\ j \in DirInfo /\ j.index = i.index /\ j.auth = i.auth
        /\ j.auth_index = i.auth_index /\ j.autoid = k
    BY <1>4, <2>2 DEF DirInfo
  <2>4. u.dir = [s.dir EXCEPT ![d] = j]
    BY <1>2, <2>1, <2>2
  <2>5. u.dir \in [Dir -> DirInfo] /\ u.dir[d] = j /\ \A e \in Dir : e # d => u.dir[e] = s.dir[e]
    BY <1>6, <2>3, <2>4
  <2> QED BY <2>1, <2>3, <2>5
<1>8. StateOK(u)
  BY <1>2, <1>5, <1>7 DEF Good, StateOK, IsRecord
<1>9. DirsOK(u)
  BY <1>4, <1>5, <1>7 DEF Good, DirsOK
<1>10. RulesOK(u)
  <2>1. \A x : Stored(u, x) <=> Stored(s, x)
    BY <1>7 DEF Stored
  <2>2. \A x : x \in DOMAIN u.rules <=> Stored(u, x)
    BY <1>5, <2>1 DEF Good, RulesOK
  <2>3. ASSUME NEW e \in Dir, NEW m \in 1..Len(u.dir[e].auth)
        PROVE  /\ u.dir[e].auth[m].ref \in 0..u.dir[e].auth_index
               /\ u.rules[<<u.dir[e].index, u.dir[e].auth[m].ref>>].ops = u.dir[e].auth[m].key
    <3>1. \A n \in 1..Len(s.dir[e].auth) :
            /\ s.dir[e].auth[n].ref \in 0..s.dir[e].auth_index
            /\ s.rules[<<s.dir[e].index, s.dir[e].auth[n].ref>>].ops = s.dir[e].auth[n].key
      BY DEF Good, RulesOK
    <3>2. /\ u.dir[e].index = s.dir[e].index /\ u.dir[e].auth = s.dir[e].auth
          /\ u.dir[e].auth_index = s.dir[e].auth_index /\ u.rules = s.rules
      BY <1>5, <1>7
    <3> QED BY <3>1, <3>2
  <2> QED BY <2>2, <2>3 DEF RulesOK
<1>11. Good(u)
  BY <1>8, <1>9, <1>10 DEF Good
<1>12. /\ IsRecord(put(u, d, k)) /\ Same(u, put(u, d, k), Fields \ {"docs"})
       /\ put(u, d, k).docs = [u.docs EXCEPT ![d] = u.docs[d] \cup {k}]
  BY <1>2 DEF put, IsRecord, Fields, Same
<1>13. Good(put(u, d, k)) /\ Same(u, put(u, d, k), Clockwise)
  BY <1>4, <1>11, <1>12, DocsGood
<1>14. Same(s, u, Clockwise)
  BY <1>5 DEF Same, Clockwise
<1>15. Same(s, put(u, d, k), Clockwise)
  BY <1>13, <1>14 DEF Same
<1> QED BY <1>3, <1>13, <1>15

LEMMA SetAuthGood ==
  ASSUME NEW s, Good(s), NEW d \in Dir, NEW rs \in Seq(Rule), Exists(s, d)
  PROVE  Good(setAuth(s, d, rs)) /\ Same(s, setAuth(s, d, rs), Clockwise)
<1> DEFINE t == setAuth(s, d, rs)
           n == Len(rs)
           x == s.dir[d].index
           I == SetDir(s, d, rs)
<1>1. IsRecord(s)
  BY DEF Good, StateOK, IsRecord
<1>2. /\ IsRecord(t) /\ Same(s, t, Fields \ {"dir", "rules"})
      /\ t.dir = [s.dir EXCEPT ![d] = I]
      /\ t.rules = SetRules(s, d, rs)
  BY <1>1, SetAuthIs
<1> HIDE DEF t
<1>3. /\ Same(s, t, Clockwise)
      /\ t.i = s.i /\ t.ts = s.ts /\ t.latest = s.latest /\ t.nonce = s.nonce
      /\ t.id = s.id /\ t.owner = s.owner /\ t.dirs = s.dirs /\ t.docs = s.docs
  BY <1>2 DEF Same, Fields, Clockwise
<1>4. s.dirs \in Nat /\ s.dir \in [Dir -> DirInfo]
  BY DEF Good, StateOK
<1>5. n \in Nat
  OBVIOUS
<1>6. Leads(AuthOf(rs), rs, n)
  BY AuthLeads
<1>7. x \in Int /\ s.dir[d].auth_index \in Int /\ x >= 0 /\ x # -1
  BY <1>4 DEF DirInfo, Exists
<1> HIDE DEF n
<1>8. I \in DirInfo /\ I.index = x /\ I.autoid = s.dir[d].autoid /\ I.auth = AuthOf(rs) /\ I.auth_index = n - 1
  <2>1. AuthOf(rs) \in Seq(Auths)
    BY <1>6 DEF Leads
  <2>2. s.dir[d] \in DirInfo
    BY <1>4
  <2>3. I = [s.dir[d] EXCEPT !.auth = AuthOf(rs), !.auth_index = n - 1]
    BY DEF SetDir, n
  <2>4. n - 1 \in Int
    BY <1>5
  <2>5. PICK i \in DirInfo : i = s.dir[d]
    BY <2>2
  <2>6. PICK a \in Seq(Auths) : a = AuthOf(rs)
    BY <2>1
  <2>7. PICK m \in Int : m = n - 1
    BY <2>4
  <2>8. I = [i EXCEPT !.auth = a, !.auth_index = m]
    BY <2>3, <2>5, <2>6, <2>7
  <2> HIDE DEF I
  <2>9. I \in DirInfo /\ I.index = i.index /\ I.autoid = i.autoid /\ I.auth = a /\ I.auth_index = m
    BY <2>8 DEF DirInfo
  <2> QED BY <2>5, <2>6, <2>7, <2>9
<1> HIDE DEF I
<1>9. t.dir \in [Dir -> DirInfo] /\ t.dir[d] = I /\ \A e \in Dir : e # d => t.dir[e] = s.dir[e]
  BY <1>2, <1>4, <1>8
<1>10. StateOK(t)
  BY <1>2, <1>3, <1>9 DEF Good, StateOK, IsRecord
<1>11. /\ \A e \in Dir : /\ s.dir[e].index = -1 => s.dir[e].auth_index = -1 /\ s.dir[e].auth = <<>>
                         /\ s.dir[e].index < s.dirs /\ s.dir[e].index >= -1
                         /\ s.dir[e].auth_index >= -1 /\ s.dir[e].autoid >= -1
       /\ \A e, f \in Dir : e # f /\ s.dir[e].index = s.dir[f].index => s.dir[e].index = -1
       /\ ~s.id => s.owner = NONE /\ \A e \in Dir : s.dir[e].index = -1
  BY DEF Good, DirsOK
<1>12. \A e \in Dir : t.dir[e].index = s.dir[e].index /\ t.dir[e].autoid = s.dir[e].autoid
  BY <1>8, <1>9
<1>13. DirsOK(t)
  <2>1. ASSUME NEW e \in Dir
        PROVE  /\ t.dir[e].index = -1 => t.dir[e].auth_index = -1 /\ t.dir[e].auth = <<>>
               /\ t.dir[e].auth_index >= -1
    <3>1. CASE e = d
      BY <1>5, <1>7, <1>8, <1>9, <3>1
    <3>2. CASE e # d
      BY <1>9, <1>11, <3>2
    <3> QED BY <3>1, <3>2
  <2> QED BY <1>3, <1>11, <1>12, <2>1 DEF DirsOK
<1> DEFINE gone == {<<x, r>> : r \in n..s.dir[d].auth_index}
           new == {<<x, k - 1>> : k \in 1..n}
<1>14. /\ DOMAIN t.rules = (DOMAIN s.rules \ gone) \cup new
       /\ \A y \in DOMAIN t.rules : t.rules[y] = IF y \in new THEN rs[y[2] + 1] ELSE s.rules[y]
  BY <1>2 DEF SetRules, Kept, NewKeys, n
<1>15. \A r : <<x, r>> \in new <=> r \in 0..(n - 1)
  <2>1. ASSUME NEW r \in 0..(n - 1)
        PROVE  <<x, r>> \in new
    <3>1. r + 1 \in 1..n /\ (r + 1) - 1 = r
      BY <1>5
    <3> QED BY <3>1
  <2>2. ASSUME NEW r, <<x, r>> \in new
        PROVE  r \in 0..(n - 1)
    <3>1. PICK k \in 1..n : r = k - 1
      BY <2>2
    <3> QED BY <1>5, <3>1
  <2> QED BY <2>1, <2>2
<1>16. \A y : y \in new => \E r \in 0..(n - 1) : y = <<x, r>>
  <2> SUFFICES ASSUME NEW y, y \in new
               PROVE  \E r \in 0..(n - 1) : y = <<x, r>>
    OBVIOUS
  <2>1. PICK k \in 1..n : y = <<x, k - 1>>
    OBVIOUS
  <2>2. k - 1 \in 0..(n - 1)
    BY <1>5
  <2> QED BY <2>1, <2>2
<1>17. \A y : y \in gone <=> \E r \in n..s.dir[d].auth_index : y = <<x, r>>
  OBVIOUS
<1> HIDE DEF new, gone
<1>18. \A e \in Dir : e # d /\ s.dir[e].index = x => FALSE
  BY <1>7, <1>11
<1>19. \A y : y \in DOMAIN s.rules <=> Stored(s, y)
  BY DEF Good, RulesOK
<1>20. ASSUME NEW y
       PROVE  y \in DOMAIN t.rules <=> Stored(t, y)
  <2>1. ASSUME y \in DOMAIN t.rules
        PROVE  Stored(t, y)
    <3>1. CASE y \in new
      <4>1. PICK r \in 0..(n - 1) : y = <<x, r>>
        BY <1>16, <3>1
      <4> QED BY <1>8, <1>9, <4>1 DEF Stored
    <3>2. CASE y \in DOMAIN s.rules /\ y \notin gone
      <4>1. PICK e \in Dir : \E r \in 0..s.dir[e].auth_index : y = <<s.dir[e].index, r>>
        BY <1>19, <3>2 DEF Stored
      <4>2. PICK r \in 0..s.dir[e].auth_index : y = <<s.dir[e].index, r>>
        BY <4>1
      <4>3. CASE e = d
        <5>1. r \notin n..s.dir[d].auth_index
          BY <1>17, <3>2, <4>2, <4>3
        <5>2. r \in 0..(n - 1)
          BY <1>5, <1>7, <4>2, <4>3, <5>1
        <5> QED BY <1>8, <1>9, <4>2, <4>3, <5>2 DEF Stored
      <4>4. CASE e # d
        BY <1>9, <4>2, <4>4 DEF Stored
      <4> QED BY <4>3, <4>4
    <3> QED BY <1>14, <2>1, <3>1, <3>2
  <2>2. ASSUME Stored(t, y)
        PROVE  y \in DOMAIN t.rules
    <3>1. PICK e \in Dir : \E r \in 0..t.dir[e].auth_index : y = <<t.dir[e].index, r>>
      BY <2>2 DEF Stored
    <3>2. PICK r \in 0..t.dir[e].auth_index : y = <<t.dir[e].index, r>>
      BY <3>1
    <3>3. CASE e = d
      BY <1>8, <1>9, <1>14, <1>15, <3>2, <3>3
    <3>4. CASE e # d
      <4>1. r \in 0..s.dir[e].auth_index /\ y = <<s.dir[e].index, r>>
        BY <1>9, <3>2, <3>4
      <4>2. y \in DOMAIN s.rules
        BY <1>19, <4>1 DEF Stored
      <4>3. y \notin gone
        BY <1>17, <1>18, <3>4, <4>1
      <4> QED BY <1>14, <4>2, <4>3
    <3> QED BY <3>3, <3>4
  <2> QED BY <2>1, <2>2
<1>21. ASSUME NEW e \in Dir, NEW k \in 1..Len(t.dir[e].auth)
       PROVE  /\ t.dir[e].auth[k].ref \in 0..t.dir[e].auth_index
              /\ t.rules[<<t.dir[e].index, t.dir[e].auth[k].ref>>].ops = t.dir[e].auth[k].key
  <2>1. CASE e = d
    <3> DEFINE a == AuthOf(rs)[k]
    <3>1. t.dir[e].auth = AuthOf(rs) /\ t.dir[e].auth_index = n - 1 /\ t.dir[e].index = x
      BY <1>8, <1>9, <2>1
    <3>2. a.ref \in 0..(n - 1) /\ rs[a.ref + 1].ops = a.key
      BY <1>6, <3>1 DEF Leads
    <3>3. <<x, a.ref>> \in new /\ <<x, a.ref>> \in DOMAIN t.rules
      BY <1>14, <1>15, <3>2
    <3>4. t.rules[<<x, a.ref>>] = rs[<<x, a.ref>>[2] + 1]
      BY <1>14, <3>3
    <3>5. <<x, a.ref>>[2] = a.ref
      OBVIOUS
    <3> HIDE DEF a
    <3>6. t.rules[<<x, a.ref>>].ops = a.key
      BY <3>2, <3>4, <3>5
    <3> QED BY <3>1, <3>2, <3>6 DEF a
  <2>2. CASE e # d
    <3>1. t.dir[e] = s.dir[e]
      BY <1>9, <2>2
    <3>2. /\ s.dir[e].auth[k].ref \in 0..s.dir[e].auth_index
          /\ s.rules[<<s.dir[e].index, s.dir[e].auth[k].ref>>].ops = s.dir[e].auth[k].key
      BY <3>1 DEF Good, RulesOK
    <3> DEFINE y == <<s.dir[e].index, s.dir[e].auth[k].ref>>
    <3>3. y \in DOMAIN t.rules
      BY <1>20, <3>1, <3>2 DEF Stored
    <3>4. y \notin new
      BY <1>16, <1>18, <2>2
    <3>5. t.rules[y] = s.rules[y]
      BY <1>14, <3>3, <3>4
    <3> QED BY <3>1, <3>2, <3>5
  <2> QED BY <2>1, <2>2
<1>22. RulesOK(t)
  BY <1>20, <1>21 DEF RulesOK
<1> QED BY <1>3, <1>10, <1>13, <1>22 DEF Good, t

(* Before init there is no owner and no directory, so that nothing but     *)
(* init passes.                                                            *)
LEMMA EffectGood ==
  ASSUME NEW s, Good(s), NEW o \in Op, NEW a \in Account, NEW old, Finite(old),
         auth(s, o, a), possible(s, o, old)
  PROVE  Good(effect(s, o, a, old)) /\ Same(s, effect(s, o, a, old), Clockwise)
<1>0. IsRecord(s)
  BY DEF Good, StateOK, IsRecord
<1>1. CASE o.op = "init"
  <2>1. ~s.id /\ effect(s, o, a, old) = init(s, a)
    BY <1>1 DEF possible, effect
  <2> QED BY <2>1, InitGood
<1>2. CASE o.op = "mkdir" /\ o.dir \in Dir
  <2>1. ~Exists(s, o.dir) /\ a = s.owner /\ effect(s, o, a, old) = mkdir(s, o.dir)
    BY <1>2 DEF possible, auth, effect
  <2>2. s.id
    BY <2>1, EngineAssumption DEF Good, DirsOK
  <2> QED BY <1>2, <2>1, <2>2, MkdirGood
<1>3. CASE o.op = "setAuth" /\ o.dir \in Dir /\ o.rules \in Seq(Rule)
  <2>1. Exists(s, o.dir) /\ effect(s, o, a, old) = setAuth(s, o.dir, o.rules)
    BY <1>3 DEF possible, effect
  <2> QED BY <1>3, <2>1, SetAuthGood
<1>4. CASE o.op = "add" /\ o.dir \in Dir
  <2>1. Exists(s, o.dir) /\ effect(s, o, a, old) = add(s, o.dir, old)
    BY <1>4 DEF possible, effect
  <2> QED BY <1>4, <2>1, AddGood
<1>5. CASE o.op = "del" /\ o.dir \in Dir /\ o.doc \in Nat
  <2>1. PICK d \in Dir, k \in Nat : d = o.dir /\ k = o.doc
    BY <1>5
  <2>2. effect(s, o, a, old) = del(s, d, k)
    BY <1>5, <2>1 DEF effect
  <2> DEFINE t == del(s, d, k)
  <2>3. /\ IsRecord(t) /\ Same(s, t, Fields \ {"docs"})
        /\ t.docs = [s.docs EXCEPT ![d] = s.docs[d] \ {k}]
    BY <1>0 DEF del, IsRecord, Fields, Same
  <2> HIDE DEF t
  <2>4. Good(t) /\ Same(s, t, Clockwise)
    BY <2>3, DocsGood
  <2> QED BY <2>2, <2>4 DEF t
<1>6. CASE o.op \in {"set", "update"} /\ o.dir \in Dir /\ o.doc \in Nat
  <2>1. PICK d \in Dir, k \in Nat : d = o.dir /\ k = o.doc
    BY <1>6
  <2>2. effect(s, o, a, old) = put(s, d, k)
    BY <1>6, <2>1 DEF effect
  <2> DEFINE t == put(s, d, k)
  <2>3. /\ IsRecord(t) /\ Same(s, t, Fields \ {"docs"})
        /\ t.docs = [s.docs EXCEPT ![d] = s.docs[d] \cup {k}]
    BY <1>0 DEF put, IsRecord, Fields, Same
  <2> HIDE DEF t
  <2>4. Good(t) /\ Same(s, t, Clockwise)
    BY <2>3, DocsGood
  <2> QED BY <2>2, <2>4 DEF t
<1> QED BY <1>1, <1>2, <1>3, <1>4, <1>5, <1>6, OpIs

LEMMA StepGood ==
  ASSUME NEW s, Good(s), NEW q \in Signed, NEW o \in Op, NEW old, Finite(old),
         may(s, q, o, old)
  PROVE  Good(step(s, q, o, old)) /\ Same(s, step(s, q, o, old), Clockwise)
<1>1. q.signer \in Account
  BY DEF Signed
<1>2. CASE HasWriter(q, o)
  <2>1. auth(s, o, q.signer) /\ possible(s, o, old) /\ step(s, q, o, old) = effect(s, o, q.signer, old)
    BY <1>2 DEF may, step
  <2> QED BY <1>1, <2>1, EffectGood
<1>3. CASE ~HasWriter(q, o)
  BY <1>3 DEF step, Same
<1> QED BY <1>2, <1>3

-----------------------------------------------------------------------------
(* The operations of a query one after the other. *)
StepsUpTo(g, s, q, old, n) ==
  g = [k \in 0..n |-> IF k = 0 THEN s ELSE step(g[k - 1], q, q.ops[k], old)]

LEMMA StepsExist ==
  ASSUME NEW s, NEW q, NEW old
  PROVE  \A n \in Nat : \E g : StepsUpTo(g, s, q, old, n)
<1> DEFINE S == {n \in Nat : \E g : StepsUpTo(g, s, q, old, n)}
<1>1. 0 \in S
  <2> DEFINE g == [k \in 0..0 |-> s]
  <2>1. StepsUpTo(g, s, q, old, 0)
    BY DEF StepsUpTo
  <2> QED BY <2>1
<1>2. ASSUME NEW n \in Nat, n \in S
      PROVE  n + 1 \in S
  <2>1. PICK g : StepsUpTo(g, s, q, old, n)
    BY <1>2
  <2>2. \A k \in 0..n : g[k] = IF k = 0 THEN s ELSE step(g[k - 1], q, q.ops[k], old)
    BY <2>1 DEF StepsUpTo
  <2> DEFINE last == step(g[n], q, q.ops[n + 1], old)
             h == [k \in 0..(n + 1) |-> IF k <= n THEN g[k] ELSE last]
             f == [k \in 0..(n + 1) |-> IF k = 0 THEN s ELSE step(h[k - 1], q, q.ops[k], old)]
  <2>3. ASSUME NEW k \in 0..(n + 1)
        PROVE  h[k] = f[k]
    <3>1. CASE k = 0
      BY <2>2, <3>1
    <3>2. CASE k # 0 /\ k <= n
      <4>1. k \in 0..n /\ k - 1 \in 0..n /\ k - 1 \in 0..(n + 1) /\ k - 1 <= n
        BY <3>2
      <4>2. h[k] = g[k] /\ h[k - 1] = g[k - 1]
        BY <3>2, <4>1
      <4> QED BY <2>2, <3>2, <4>1, <4>2
    <3>3. CASE ~(k <= n)
      <4>1. k = n + 1 /\ k - 1 = n /\ k # 0 /\ n \in 0..(n + 1) /\ n <= n
        BY <3>3
      <4>2. h[k] = last /\ h[k - 1] = g[n]
        BY <3>3, <4>1
      <4> QED BY <4>1, <4>2
    <3> QED BY <3>1, <3>2, <3>3
  <2>4. h = f
    <3> HIDE DEF last
    <3>1. DOMAIN h = 0..(n + 1) /\ DOMAIN f = 0..(n + 1)
      OBVIOUS
    <3> QED BY <2>3, <3>1
  <2>5. StepsUpTo(h, s, q, old, n + 1)
    BY <2>4 DEF StepsUpTo
  <2> QED BY <2>5
<1> HIDE DEF S
<1>3. \A n \in Nat : n \in S
  BY <1>1, <1>2, Induction
<1> QED BY <1>3 DEF S

Obeys(g, s, q, old) ==
  \A k \in 0..Len(q.ops) :
    g[k] = IF k = 0 THEN s ELSE step(g[k - 1], q, q.ops[k], old)

LEMMA StepsAre ==
  ASSUME NEW s, NEW q, q.ops \in Seq(Op), NEW old
  PROVE  Obeys(Steps(s, q, old), s, q, old)
<1> DEFINE n == Len(q.ops)
           g == CHOOSE f : StepsUpTo(f, s, q, old, n)
<1>0. n \in Nat
  OBVIOUS
<1>1. StepsUpTo(g, s, q, old, n)
  BY <1>0, StepsExist
<1>2. Steps(s, q, old) = g
  BY DEF Steps, StepsUpTo
<1>3. \A k \in 0..n : g[k] = IF k = 0 THEN s ELSE step(g[k - 1], q, q.ops[k], old)
  BY <1>1 DEF StepsUpTo
<1> HIDE DEF g
<1> QED BY <1>2, <1>3 DEF Obeys

(* What a query that passes leaves. *)
LEMMA StartGood ==
  ASSUME NEW s, Good(s), NEW q \in Signed, NEW now \in Int
  PROVE  Good(start(s, q, now))
<1> DEFINE t == start(s, q, now)
<1>1. IsRecord(s)
  BY DEF Good, StateOK, IsRecord
<1>2. /\ IsRecord(t) /\ Same(s, t, Fields \ {"i", "ts", "latest", "nonce"})
      /\ t.i = s.i + 1 /\ t.ts = now /\ t.latest = Counted(s.latest, now)
      /\ t.nonce = [s.nonce EXCEPT ![q.signer] = s.nonce[q.signer] + 1]
  BY <1>1, StartIs
<1> HIDE DEF t
<1>3. s.i \in Int /\ s.latest \in [ts : Int, count : Int] /\ s.nonce \in [Account -> Nat] /\ Finite(s.docs)
  BY DEF Good, StateOK
<1>4. t.docs = s.docs /\ Same(s, t, {"id", "owner", "dirs", "dir", "rules"})
  BY <1>2 DEF Same, Fields
<1>5. t.i \in Int /\ t.ts \in Int
  BY <1>2, <1>3
<1>6. t.latest \in [ts : Int, count : Int]
  <2>1. Counted(s.latest, now) \in [ts : Int, count : Int]
    BY <1>3 DEF Counted
  <2> QED BY <1>2, <2>1
<1>7. t.nonce \in [Account -> Nat]
  <2>1. q.signer \in Account
    BY DEF Signed
  <2>2. s.nonce[q.signer] + 1 \in Nat
    BY <1>3, <2>1
  <2> QED BY <1>2, <1>3, <2>2
<1> QED BY <1>2, <1>3, <1>4, <1>5, <1>6, <1>7, GoodByFields DEF t

LEMMA OldFinite ==
  ASSUME NEW s, Good(s), NEW store, Finite(store)
  PROVE  Finite(Old(s, store))
<1>1. Finite(s.docs)
  BY DEF Good, StateOK
<1>2. \A d \in Dir : IsFiniteSet(s.docs[d] \cup store[d]) /\ s.docs[d] \cup store[d] \in SUBSET Nat
  BY <1>1, FS_Union DEF Finite
<1> QED BY <1>2 DEF Finite, Old

LEMMA RunGood ==
  ASSUME NEW s, Good(s), NEW q \in Signed, NEW now \in Int, NEW store, Finite(store),
         passes(s, q, now, store)
  PROVE  /\ Good(run(s, q, now, store))
         /\ Same(start(s, q, now), run(s, q, now, store), Clockwise)
         /\ \A k \in 0..Len(q.ops) : Good(Steps(start(s, q, now), q, Old(s, store))[k])
<1> DEFINE b == start(s, q, now)
           old == Old(s, store)
           n == Len(q.ops)
           g == Steps(b, q, old)
           S == {k \in Nat : k <= n => Good(g[k]) /\ Same(b, g[k], Clockwise)}
<1>0. q.ops \in Seq(Op) /\ q.signer \in Account
  BY DEF Signed
<1>1. n \in Nat
  BY <1>0
<1>2. \A k \in 1..n : q.ops[k] \in Op
  BY <1>0
<1>3. Good(b) /\ Finite(old)
  BY StartGood, OldFinite
<1>4. \A k \in 1..n : may(g[k - 1], q, q.ops[k], old)
  BY DEF passes
<1>5. run(s, q, now, store) = g[n]
  BY DEF run
<1> HIDE DEF b, old
<1>6. \A k \in 0..n : g[k] = IF k = 0 THEN b ELSE step(g[k - 1], q, q.ops[k], old)
  <2>1. Obeys(g, b, q, old)
    BY <1>0, StepsAre
  <2> HIDE DEF g
  <2> QED BY <2>1 DEF Obeys
<1> HIDE DEF g, n
<1>7. 0 \in S
  <2>1. 0 \in 0..n
    BY <1>1
  <2>2. g[0] = b
    BY <1>6, <2>1
  <2>3. Good(g[0]) /\ Same(b, g[0], Clockwise)
    BY <1>3, <2>2 DEF Same
  <2> QED BY <2>3
<1>8. ASSUME NEW k \in Nat, k \in S
      PROVE  k + 1 \in S
  <2> SUFFICES ASSUME k + 1 <= n
               PROVE  Good(g[k + 1]) /\ Same(b, g[k + 1], Clockwise)
    OBVIOUS
  <2>1. k + 1 \in 0..n /\ k + 1 \in 1..n /\ k + 1 # 0 /\ (k + 1) - 1 = k /\ k <= n
    BY <1>1
  <2>2. g[k + 1] = step(g[k], q, q.ops[k + 1], old)
    BY <1>6, <2>1
  <2>3. Good(g[k]) /\ Same(b, g[k], Clockwise)
    BY <1>8, <2>1
  <2>4. q.ops[k + 1] \in Op /\ may(g[k], q, q.ops[k + 1], old)
    BY <1>2, <1>4, <2>1
  <2>5. Good(g[k + 1]) /\ Same(g[k], g[k + 1], Clockwise)
    BY <1>3, <2>2, <2>3, <2>4, StepGood
  <2> QED BY <2>3, <2>5 DEF Same
<1> HIDE DEF S
<1>9. \A k \in Nat : k \in S
  BY <1>7, <1>8, Induction
<1>10. \A k \in 0..n : Good(g[k]) /\ Same(b, g[k], Clockwise)
  BY <1>1, <1>9 DEF S
<1>11. n \in 0..n
  BY <1>1
<1> QED BY <1>5, <1>10, <1>11 DEF b, old, g, n

-----------------------------------------------------------------------------
(* A replay, query by query. *)
ReplayUpTo(g, log, now, n) ==
  g = [k \in 0..n |-> IF k = 0 THEN Blank ELSE redo(g[k - 1], log[k].q, now)]

LEMMA ReplayExists ==
  ASSUME NEW log, NEW now
  PROVE  \A n \in Nat : \E g : ReplayUpTo(g, log, now, n)
<1> DEFINE S == {n \in Nat : \E g : ReplayUpTo(g, log, now, n)}
<1>1. 0 \in S
  <2> DEFINE g == [k \in 0..0 |-> Blank]
  <2>1. ReplayUpTo(g, log, now, 0)
    BY DEF ReplayUpTo
  <2> QED BY <2>1
<1>2. ASSUME NEW n \in Nat, n \in S
      PROVE  n + 1 \in S
  <2>1. PICK g : ReplayUpTo(g, log, now, n)
    BY <1>2
  <2>2. \A k \in 0..n : g[k] = IF k = 0 THEN Blank ELSE redo(g[k - 1], log[k].q, now)
    BY <2>1 DEF ReplayUpTo
  <2> DEFINE last == redo(g[n], log[n + 1].q, now)
             h == [k \in 0..(n + 1) |-> IF k <= n THEN g[k] ELSE last]
             f == [k \in 0..(n + 1) |-> IF k = 0 THEN Blank ELSE redo(h[k - 1], log[k].q, now)]
  <2>3. ASSUME NEW k \in 0..(n + 1)
        PROVE  h[k] = f[k]
    <3>1. CASE k = 0
      BY <2>2, <3>1
    <3>2. CASE k # 0 /\ k <= n
      <4>1. k \in 0..n /\ k - 1 \in 0..n /\ k - 1 \in 0..(n + 1) /\ k - 1 <= n
        BY <3>2
      <4>2. h[k] = g[k] /\ h[k - 1] = g[k - 1]
        BY <3>2, <4>1
      <4> QED BY <2>2, <3>2, <4>1, <4>2
    <3>3. CASE ~(k <= n)
      <4>1. k = n + 1 /\ k - 1 = n /\ k # 0 /\ n \in 0..(n + 1) /\ n <= n
        BY <3>3
      <4>2. h[k] = last /\ h[k - 1] = g[n]
        BY <3>3, <4>1
      <4> QED BY <4>1, <4>2
    <3> QED BY <3>1, <3>2, <3>3
  <2>4. h = f
    <3> HIDE DEF last
    <3>1. DOMAIN h = 0..(n + 1) /\ DOMAIN f = 0..(n + 1)
      OBVIOUS
    <3> QED BY <2>3, <3>1
  <2>5. ReplayUpTo(h, log, now, n + 1)
    BY <2>4 DEF ReplayUpTo
  <2> QED BY <2>5
<1> HIDE DEF S
<1>3. \A n \in Nat : n \in S
  BY <1>1, <1>2, Induction
<1> QED BY <1>3 DEF S

LEMMA ReplayIs ==
  ASSUME NEW log, Len(log) \in Nat, NEW now
  PROVE  /\ replay(log, now)[0] = Blank
         /\ \A k \in 1..Len(log) : replay(log, now)[k] = redo(replay(log, now)[k - 1], log[k].q, now)
         /\ replayed(log, now) = replay(log, now)[Len(log)]
<1> DEFINE n == Len(log)
           g == CHOOSE f : ReplayUpTo(f, log, now, n)
<1>1. ReplayUpTo(g, log, now, n)
  BY ReplayExists
<1>2. replay(log, now) = g
  BY DEF replay, ReplayUpTo
<1>3. \A k \in 0..n : g[k] = IF k = 0 THEN Blank ELSE redo(g[k - 1], log[k].q, now)
  BY <1>1 DEF ReplayUpTo
<1> HIDE DEF g
<1>4. 0 \in 0..n /\ \A k \in 1..n : k \in 0..n /\ k # 0
  OBVIOUS
<1>5. replayed(log, now) = replay(log, now)[n]
  BY DEF replayed
<1> QED BY <1>2, <1>3, <1>4, <1>5

LEMMA BlankGood == Good(Blank)
<1>1. StateOK(Blank)
  <2>1. <<>> \in Seq(Auths) /\ -1 \in Int
    OBVIOUS
  <2>2. NoDir \in DirInfo
    BY <2>1 DEF NoDir, DirInfo
  <2>3. Blank = [f \in Fields |-> Blank[f]]
    BY DEF Blank, Fields
  <2>4. /\ Blank.id = FALSE /\ Blank.i = -1 /\ Blank.ts = 0 /\ Blank.dirs = 0
        /\ Blank.latest = [ts |-> -1, count |-> -1]
        /\ Blank.nonce = [a \in Account |-> 0] /\ Blank.dir = [d \in Dir |-> NoDir]
        /\ Blank.docs = [d \in Dir |-> {}]
    BY DEF Blank
  <2>5. Blank.id \in BOOLEAN
    BY <2>4
  <2>6. Blank.i \in Int /\ Blank.ts \in Int /\ Blank.dirs \in Nat
    BY <2>4
  <2>7. Blank.latest \in [ts : Int, count : Int]
    BY <2>4
  <2>8. Blank.nonce \in [Account -> Nat]
    BY <2>4
  <2>9. Blank.dir \in [Dir -> DirInfo]
    BY <2>2, <2>4
  <2>10. Finite(Blank.docs)
    BY <2>4, FS_EmptySet DEF Finite
  <2> QED BY <2>3, <2>5, <2>6, <2>7, <2>8, <2>9, <2>10 DEF StateOK
<1>2. \A d \in Dir : /\ Blank.dir[d].index = -1 /\ Blank.dir[d].autoid = -1
                     /\ Blank.dir[d].auth = <<>> /\ Blank.dir[d].auth_index = -1
  BY DEF Blank, NoDir
<1>3. DirsOK(Blank)
  <2>1. Blank.owner = NONE /\ Blank.dirs = 0
    BY DEF Blank
  <2> QED BY <1>2, <2>1 DEF DirsOK
<1>4. RulesOK(Blank)
  <2>1. DOMAIN Blank.rules = {}
    BY DEF Blank
  <2>2. 0..(-1) = {} /\ 1..Len(<<>>) = {}
    OBVIOUS
  <2>3. \A x : ~Stored(Blank, x)
    BY <1>2, <2>2 DEF Stored
  <2> QED BY <1>2, <2>1, <2>2, <2>3 DEF RulesOK
<1> QED BY <1>1, <1>3, <1>4 DEF Good

LEMMA RedoGood ==
  ASSUME NEW s, Good(s), NEW q \in Signed, NEW now \in Int
  PROVE  Good(redo(s, q, now))
<1>1. Finite(s.docs)
  BY DEF Good, StateOK
<1>2. CASE passes(s, q, now, s.docs)
  BY <1>1, <1>2, RunGood DEF redo
<1>3. CASE ~passes(s, q, now, s.docs)
  BY <1>3 DEF redo
<1> QED BY <1>2, <1>3

IsLog(log) == Len(log) \in Nat /\ \A k \in 1..Len(log) : log[k].q \in Signed

LEMMA ReplayGood ==
  ASSUME NEW log, IsLog(log), NEW now \in Int
  PROVE  \A k \in 0..Len(log) : Good(replay(log, now)[k])
<1> DEFINE n == Len(log)
           g == replay(log, now)
           S == {k \in Nat : k <= n => Good(g[k])}
<1>1. n \in Nat /\ \A k \in 1..n : log[k].q \in Signed
  BY DEF IsLog
<1>2. g[0] = Blank /\ \A k \in 1..n : g[k] = redo(g[k - 1], log[k].q, now)
  BY <1>1, ReplayIs
<1> HIDE DEF g, n
<1>3. 0 \in S
  BY <1>2, BlankGood
<1>4. ASSUME NEW k \in Nat, k \in S
      PROVE  k + 1 \in S
  <2> SUFFICES ASSUME k + 1 <= n
               PROVE  Good(g[k + 1])
    OBVIOUS
  <2>1. k + 1 \in 1..n /\ (k + 1) - 1 = k /\ k <= n
    BY <1>1
  <2>2. g[k + 1] = redo(g[k], log[k + 1].q, now) /\ log[k + 1].q \in Signed /\ Good(g[k])
    BY <1>1, <1>2, <1>4, <2>1
  <2> QED BY <2>2, RedoGood
<1> HIDE DEF S
<1>5. \A k \in Nat : k \in S
  BY <1>3, <1>4, Induction
<1> QED BY <1>1, <1>5 DEF S, g, n

-----------------------------------------------------------------------------
(* What every behaviour keeps: the committed state and the one a query     *)
(* starts from are good, and differ in what normalize sets only.           *)
Core == Fields \ {"i", "ts", "latest"}
Entries == [q : Signed, i : Int, ts64 : Int, late : BOOLEAN]
EngineInv ==
  /\ Good(st) /\ Good(seen) /\ Same(st, seen, Core)
  /\ Finite(disk) /\ clock \in Nat
  /\ wal \in Seq(Entries)

LEMMA QueryIsSigned ==
  ASSUME NEW s, s.nonce \in [Account -> Nat], NEW q \in Query(s)
  PROVE  q \in Signed
<1> DEFINE O == Op
<1>1. Batches \subseteq Seq(O) /\ [op |-> "init"] \in O
  BY EngineAssumption DEF Op
<1>2. Signed = {x \in [signer : Account, nonce : Nat, batch : BOOLEAN, ops : Seq(O)] :
                  ~x.batch => Len(x.ops) = 1}
  BY DEF Signed
<1> HIDE DEF O
<1>3. ASSUME NEW a \in Account, NEW n \in Nat, NEW o \in O
      PROVE  Single(a, n, o) \in Signed
  <2>1. <<o>> \in Seq(O) /\ Len(<<o>>) = 1
    OBVIOUS
  <2> QED BY <1>2, <2>1 DEF Single
<1>4. ASSUME NEW a \in Account, NEW n \in Nat, NEW ops \in Batches
      PROVE  Batch(a, n, ops) \in Signed
  BY <1>1, <1>2 DEF Batch
<1>5. \A a \in Account : s.nonce[a] \in Nat /\ s.nonce[a] + 1 \in Nat
  OBVIOUS
<1>6. \/ \E a \in Account, o \in O : q = Single(a, s.nonce[a] + 1, o)
      \/ \E a \in Account, ops \in Batches : q = Batch(a, s.nonce[a] + 1, ops)
      \/ \E a \in Account : q = Single(a, s.nonce[a], [op |-> "init"])
  BY DEF Query, O
<1> QED BY <1>1, <1>3, <1>4, <1>5, <1>6

LEMMA EntryIs ==
  ASSUME NEW q \in Signed, NEW s, Good(s), NEW late \in BOOLEAN
  PROVE  /\ Entry(q, s, late) \in Entries /\ Entry(q, s, late).q = q
         /\ Entry(q, s, late).ts64 = ts64(s) /\ Entry(q, s, late).late = late
<1>1. s.i \in Int /\ s.ts \in Int /\ s.latest.count \in Int
  BY DEF Good, StateOK
<1>2. ts64(s) \in Int
  BY <1>1 DEF ts64
<1> QED BY <1>1, <1>2 DEF Entry, Entries

(* A history leads to a good state. *)
LEMMA HistoryIs ==
  ASSUME NEW log \in Histories
  PROVE  /\ IsLog(log)
         /\ \A k \in 0..Len(log) : Good(replay(log, 0)[k])
         /\ \A k \in 1..Len(log) :
              /\ passes(replay(log, 0)[k - 1], log[k].q, 0, replay(log, 0)[k - 1].docs)
              /\ replay(log, 0)[k] = run(replay(log, 0)[k - 1], log[k].q, 0, replay(log, 0)[k - 1].docs)
<1>1. /\ log \in Seq([q : Signed])
      /\ \A k \in 1..Len(log) : passes(replay(log, 0)[k - 1], log[k].q, 0, replay(log, 0)[k - 1].docs)
  BY HistoryAssumption
<1>2. IsLog(log)
  <2> DEFINE R == [q : Signed]
  <2>1. \A r \in R : r.q \in Signed
    OBVIOUS
  <2>2. log \in Seq(R)
    BY <1>1
  <2> HIDE DEF R
  <2>3. Len(log) \in Nat /\ \A k \in 1..Len(log) : log[k] \in R
    BY <2>2
  <2> QED BY <2>1, <2>3 DEF IsLog
<1>3. \A k \in 1..Len(log) : replay(log, 0)[k] = redo(replay(log, 0)[k - 1], log[k].q, 0)
  BY <1>2, ReplayIs DEF IsLog
<1>4. \A k \in 0..Len(log) : Good(replay(log, 0)[k])
  BY <1>2, ReplayGood
<1> QED BY <1>1, <1>2, <1>3, <1>4 DEF redo

LEMMA InitKeeps == Init => EngineInv
<1> SUFFICES ASSUME Init
             PROVE  EngineInv
  OBVIOUS
<1>1. PICK log \in Histories :
        /\ st = replayed(log, 0)
        /\ wal = [k \in 1..Len(log) |-> Entry(log[k].q, replay(log, 0)[k], FALSE)]
  BY DEF Init
<1>2. IsLog(log) /\ \A k \in 0..Len(log) : Good(replay(log, 0)[k])
  BY HistoryIs
<1>3. Len(log) \in Nat /\ \A k \in 1..Len(log) : log[k].q \in Signed /\ k \in 0..Len(log)
  BY <1>2 DEF IsLog
<1>4. st = replay(log, 0)[Len(log)]
  BY <1>1, <1>3, ReplayIs
<1>5. Good(st)
  BY <1>2, <1>3, <1>4
<1>6. \A k \in 1..Len(log) : Entry(log[k].q, replay(log, 0)[k], FALSE) \in Entries
  BY <1>2, <1>3, EntryIs
<1>7. wal \in Seq(Entries)
  <2> DEFINE E(k) == Entry(log[k].q, replay(log, 0)[k], FALSE)
  <2>1. PICK n \in Nat : n = Len(log)
    BY <1>3
  <2>2. wal = [k \in 1..n |-> E(k)] /\ \A k \in 1..n : E(k) \in Entries
    BY <1>1, <1>6, <2>1
  <2> HIDE DEF E
  <2> QED BY <2>2
<1>8. seen = st /\ disk = st.docs /\ clock = 0
  BY DEF Init
<1>9. Finite(disk)
  BY <1>5, <1>8 DEF Good, StateOK
<1>10. Same(st, seen, Core)
  BY <1>8 DEF Same
<1> QED BY <1>5, <1>7, <1>8, <1>9, <1>10 DEF EngineInv

(* A query that is committed. *)
LEMMA WriteIs ==
  ASSUME EngineInv, NEW q \in Query(seen), write(q)
  PROVE  /\ q \in Signed /\ passes(seen, q, clock, disk) /\ st' = run(seen, q, clock, disk)
         /\ Good(st') /\ Same(start(seen, q, clock), st', Clockwise)
         /\ Entry(q, st', Deleted) \in Entries /\ wal' = Append(wal, Entry(q, st', Deleted))
         /\ Len(wal') = Len(wal) + 1
         /\ \A k \in 1..Len(wal) : wal'[k] = wal[k]
         /\ wal'[Len(wal) + 1].q = q /\ wal'[Len(wal) + 1].late = Deleted
         /\ wal'[Len(wal) + 1].ts64 = ts64(st')
<1>1. Good(seen) /\ Finite(disk) /\ clock \in Int /\ wal \in Seq(Entries)
  BY DEF EngineInv
<1>2. q \in Signed
  BY <1>1, QueryIsSigned DEF Good, StateOK
<1>3. /\ passes(seen, q, clock, disk) /\ st' = run(seen, q, clock, disk)
      /\ wal' = Append(wal, Entry(q, st', Deleted))
  BY DEF write
<1>4. Good(st') /\ Same(start(seen, q, clock), st', Clockwise)
  BY <1>1, <1>2, <1>3, RunGood
<1>5. Deleted \in BOOLEAN
  BY DEF Deleted
<1> DEFINE e == Entry(q, st', Deleted)
<1>6. e \in Entries /\ e.q = q /\ e.ts64 = ts64(st') /\ e.late = Deleted
  BY <1>2, <1>4, <1>5, EntryIs
<1> HIDE DEF e
<1>7. /\ Len(Append(wal, e)) = Len(wal) + 1
      /\ \A k \in 1..Len(wal) : Append(wal, e)[k] = wal[k]
      /\ Append(wal, e)[Len(wal) + 1] = e
  BY <1>1, <1>6
<1> QED BY <1>2, <1>3, <1>4, <1>6, <1>7 DEF e

LEMMA NormalizeIs ==
  ASSUME NEW s, Good(s), NEW now \in Int
  PROVE  /\ Good(normalize(s, now)) /\ Same(s, normalize(s, now), Core)
         /\ normalize(s, now).ts = now /\ normalize(s, now).latest = Counted(s.latest, now)
<1> DEFINE t == normalize(s, now)
<1>1. IsRecord(s) /\ s.i \in Int /\ s.latest \in [ts : Int, count : Int]
      /\ s.nonce \in [Account -> Nat] /\ Finite(s.docs)
  BY DEF Good, StateOK, IsRecord
<1>2. /\ IsRecord(t) /\ Same(s, t, Core) /\ t.i = s.i + 1 /\ t.ts = now /\ t.latest = Counted(s.latest, now)
  BY <1>1 DEF normalize, IsRecord, Fields, Same, Core
<1> HIDE DEF t
<1>3. t.docs = s.docs /\ t.nonce = s.nonce /\ Same(s, t, {"id", "owner", "dirs", "dir", "rules"})
  BY <1>2 DEF Same, Fields, Core
<1>4. Counted(s.latest, now) \in [ts : Int, count : Int] /\ s.i + 1 \in Int
  BY <1>1 DEF Counted
<1>5. Good(t)
  BY <1>1, <1>2, <1>3, <1>4, GoodByFields
<1> QED BY <1>2, <1>5 DEF t

LEMMA NextKeeps == EngineInv /\ [Next]_vars => EngineInv'
<1> SUFFICES ASSUME EngineInv, [Next]_vars
             PROVE  EngineInv'
  OBVIOUS
<1>0. /\ Good(st) /\ Good(seen) /\ Same(st, seen, Core) /\ Finite(disk) /\ clock \in Nat
      /\ wal \in Seq(Entries)
  BY DEF EngineInv
<1>1. ASSUME NEW q \in Query(seen), write(q)
      PROVE  EngineInv'
  <2>1. /\ Good(st') /\ Entry(q, st', Deleted) \in Entries /\ wal' = Append(wal, Entry(q, st', Deleted))
    BY <1>1, WriteIs
  <2>2. wal' \in Seq(Entries)
    BY <1>0, <2>1
  <2>3. seen' = st' /\ disk' = disk /\ clock' = clock
    BY <1>1 DEF write
  <2> QED BY <1>0, <2>1, <2>2, <2>3 DEF EngineInv, Same
<1>2. ASSUME NEW q \in Query(seen), fail(q)
      PROVE  EngineInv'
  BY <1>0, <1>2 DEF fail, EngineInv, Same
<1>3. CASE flush
  <2>1. Finite(st.docs)
    BY <1>0 DEF Good, StateOK
  <2> QED BY <1>0, <1>3, <2>1 DEF flush, EngineInv
<1>4. CASE read
  <2>1. Good(seen') /\ Same(seen, seen', Core)
    BY <1>0, <1>4, NormalizeIs DEF read
  <2>2. Same(st, seen', Core)
    BY <1>0, <2>1 DEF Same
  <2> QED BY <1>0, <1>4, <2>1, <2>2 DEF read, EngineInv
<1>5. CASE tick
  BY <1>0, <1>5 DEF tick, EngineInv
<1>6. CASE UNCHANGED vars
  BY <1>0, <1>6 DEF vars, EngineInv
<1> QED BY <1>1, <1>2, <1>3, <1>4, <1>5, <1>6 DEF Next

LEMMA EngineKeeps == Spec => []EngineInv
BY InitKeeps, NextKeeps, PTL DEF Spec

(* dev_set_auth.js: whatever rules setAuth is called with, and however     *)
(* often, the bodies stored for a directory are the ones of its last call, *)
(* and every entry of dirinfo.auth leads to a body with its own key.       *)
THEOREM BodiesAreTheLast == Spec => []RulesAreTheLast
<1>1. EngineInv => RulesAreTheLast
  <2> SUFFICES ASSUME EngineInv
               PROVE  RulesAreTheLast
    OBVIOUS
  <2>1. /\ \A x : x \in DOMAIN st.rules <=> Stored(st, x)
        /\ \A d \in Dir : \A k \in 1..Len(st.dir[d].auth) :
             st.rules[<<st.dir[d].index, st.dir[d].auth[k].ref>>].ops = st.dir[d].auth[k].key
    BY DEF EngineInv, Good, RulesOK
  <2>2. DOMAIN st.rules =
          UNION {{<<st.dir[d].index, r>> : r \in 0..st.dir[d].auth_index} : d \in Dir}
    BY <2>1 DEF Stored
  <2> QED BY <2>1, <2>2 DEF RulesAreTheLast, BodyKey
<1> QED BY <1>1, EngineKeeps, PTL

-----------------------------------------------------------------------------
(* Nonces *)
By(log, n, a) == {k \in 1..n : log[k].q.signer = a}

LEMMA ByStep ==
  ASSUME NEW log, NEW n \in Nat, NEW a
  PROVE  /\ Cardinality(By(log, 0, a)) = 0 /\ Cardinality(By(log, n, a)) \in Nat
         /\ Cardinality(By(log, n + 1, a))
              = Cardinality(By(log, n, a)) + (IF log[n + 1].q.signer = a THEN 1 ELSE 0)
<1>1. IsFiniteSet(1..n)
  BY FS_Interval
<1>2. By(log, n, a) \subseteq 1..n
  BY DEF By
<1>3. IsFiniteSet(By(log, n, a))
  BY <1>1, <1>2, FS_Subset
<1>4. Cardinality(By(log, n, a)) \in Nat
  BY <1>3, FS_CardinalityType
<1>5. By(log, 0, a) = {}
  BY DEF By
<1>6. CASE log[n + 1].q.signer = a
  <2>1. By(log, n + 1, a) = By(log, n, a) \cup {n + 1} /\ n + 1 \notin By(log, n, a)
    <3>1. 1..(n + 1) = (1..n) \cup {n + 1} /\ n + 1 \notin 1..n
      OBVIOUS
    <3> QED BY <1>6, <3>1 DEF By
  <2>2. Cardinality(By(log, n, a) \cup {n + 1}) = Cardinality(By(log, n, a)) + 1
    BY <1>3, <2>1, FS_AddElement
  <2> QED BY <1>4, <1>5, <1>6, <2>1, <2>2, FS_EmptySet
<1>7. CASE log[n + 1].q.signer # a
  <2>1. By(log, n + 1, a) = By(log, n, a)
    <3>1. 1..(n + 1) = (1..n) \cup {n + 1} /\ n + 1 \notin 1..n
      OBVIOUS
    <3> QED BY <1>7, <3>1 DEF By
  <2> QED BY <1>4, <1>5, <1>7, <2>1, FS_EmptySet
<1> QED BY <1>6, <1>7

LEMMA RunNonce ==
  ASSUME NEW s, Good(s), NEW q \in Signed, NEW now \in Int, NEW store, Finite(store),
         passes(s, q, now, store), NEW a \in Account
  PROVE  run(s, q, now, store).nonce[a] = s.nonce[a] + (IF q.signer = a THEN 1 ELSE 0)
<1>1. IsRecord(s) /\ s.nonce \in [Account -> Nat]
  BY DEF Good, StateOK, IsRecord
<1>2. start(s, q, now).nonce = [s.nonce EXCEPT ![q.signer] = s.nonce[q.signer] + 1]
  BY <1>1, StartIs
<1>3. run(s, q, now, store).nonce = start(s, q, now).nonce
  BY RunGood DEF Same, Clockwise
<1>4. q.signer \in Account
  BY DEF Signed
<1> QED BY <1>1, <1>2, <1>3, <1>4

LEMMA HistoryNonce ==
  ASSUME NEW log \in Histories, NEW a \in Account
  PROVE  \A k \in 0..Len(log) : replay(log, 0)[k].nonce[a] = Cardinality(By(log, k, a))
<1> DEFINE n == Len(log)
           g == replay(log, 0)
           S == {k \in Nat : k <= n => g[k].nonce[a] = Cardinality(By(log, k, a))}
<1>1. n \in Nat /\ \A k \in 1..n : log[k].q \in Signed
  BY HistoryIs DEF IsLog
<1>2. g[0] = Blank
  BY <1>1, ReplayIs
<1>3. /\ \A k \in 0..n : Good(g[k])
      /\ \A k \in 1..n : /\ passes(g[k - 1], log[k].q, 0, g[k - 1].docs)
                         /\ g[k] = run(g[k - 1], log[k].q, 0, g[k - 1].docs)
  BY HistoryIs
<1> HIDE DEF g, n
<1>4. 0 \in S
  <2>1. Blank.nonce[a] = 0
    BY DEF Blank
  <2>2. Cardinality(By(log, 0, a)) = 0
    BY ByStep
  <2> QED BY <1>2, <2>1, <2>2
<1>5. ASSUME NEW k \in Nat, k \in S
      PROVE  k + 1 \in S
  <2> SUFFICES ASSUME k + 1 <= n
               PROVE  g[k + 1].nonce[a] = Cardinality(By(log, k + 1, a))
    OBVIOUS
  <2>1. k + 1 \in 1..n /\ (k + 1) - 1 = k /\ k <= n /\ k \in 0..n
    BY <1>1
  <2>2. /\ Good(g[k]) /\ log[k + 1].q \in Signed
        /\ passes(g[k], log[k + 1].q, 0, g[k].docs)
        /\ g[k + 1] = run(g[k], log[k + 1].q, 0, g[k].docs)
    BY <1>1, <1>3, <2>1
  <2>3. Finite(g[k].docs)
    BY <2>2 DEF Good, StateOK
  <2>4. g[k + 1].nonce[a] = g[k].nonce[a] + (IF log[k + 1].q.signer = a THEN 1 ELSE 0)
    BY <2>2, <2>3, RunNonce
  <2>5. g[k].nonce[a] = Cardinality(By(log, k, a))
    BY <1>5, <2>1
  <2>6. Cardinality(By(log, k + 1, a))
          = Cardinality(By(log, k, a)) + (IF log[k + 1].q.signer = a THEN 1 ELSE 0)
    BY ByStep
  <2> QED BY <2>4, <2>5, <2>6
<1> HIDE DEF S
<1>6. \A k \in Nat : k \in S
  BY <1>4, <1>5, Induction
<1> QED BY <1>1, <1>6 DEF S, g, n

(* dev_verify.js and build.js: for any number of signers and queries, a    *)
(* signer's nonce is the number of that signer's committed queries.        *)
THEOREM NoncesCount == Spec => []NonceCountsQueries
<1> DEFINE Inv == \A a \in Account : st.nonce[a] = Cardinality(By(wal, Len(wal), a))
<1>1. Inv <=> NonceCountsQueries
  BY DEF NonceCountsQueries, By
<1>2. Init => Inv
  <2> SUFFICES ASSUME Init, NEW a \in Account
               PROVE  st.nonce[a] = Cardinality(By(wal, Len(wal), a))
    OBVIOUS
  <2>1. PICK log \in Histories :
          /\ st = replayed(log, 0)
          /\ wal = [k \in 1..Len(log) |-> Entry(log[k].q, replay(log, 0)[k], FALSE)]
    BY DEF Init
  <2>2. Len(log) \in Nat /\ Len(log) \in 0..Len(log)
    BY HistoryIs DEF IsLog
  <2>3. st = replay(log, 0)[Len(log)]
    BY <2>1, <2>2, ReplayIs
  <2>4. st.nonce[a] = Cardinality(By(log, Len(log), a))
    BY <2>2, <2>3, HistoryNonce
  <2>5. Len(wal) = Len(log) /\ \A k \in 1..Len(log) : wal[k].q = log[k].q
    <3>1. \A k \in 1..Len(log) : Entry(log[k].q, replay(log, 0)[k], FALSE).q = log[k].q
      BY DEF Entry
    <3>2. Len(wal) = Len(log)
      <4> DEFINE E(k) == Entry(log[k].q, replay(log, 0)[k], FALSE)
      <4>1. PICK n \in Nat : n = Len(log)
        BY <2>2
      <4>2. wal = [k \in 1..n |-> E(k)]
        BY <2>1, <4>1
      <4> HIDE DEF E
      <4>3. Len(wal) = n
        BY <4>2
      <4> QED BY <4>1, <4>3
    <3> QED BY <2>1, <3>1, <3>2
  <2>6. By(wal, Len(wal), a) = By(log, Len(log), a)
    BY <2>5 DEF By
  <2> QED BY <2>4, <2>6
<1>3. EngineInv /\ Inv /\ [Next]_vars => Inv'
  <2> SUFFICES ASSUME EngineInv, Inv, [Next]_vars
               PROVE  Inv'
    OBVIOUS
  <2>0. Good(seen) /\ Same(st, seen, Core) /\ Finite(disk) /\ clock \in Int /\ Len(wal) \in Nat
    BY DEF EngineInv
  <2>1. ASSUME NEW q \in Query(seen), write(q), NEW a \in Account
        PROVE  st'.nonce[a] = Cardinality(By(wal', Len(wal'), a))
    <3>1. /\ q \in Signed /\ passes(seen, q, clock, disk) /\ st' = run(seen, q, clock, disk)
          /\ Len(wal') = Len(wal) + 1 /\ wal'[Len(wal) + 1].q = q
          /\ \A k \in 1..Len(wal) : wal'[k] = wal[k]
      BY <2>1, WriteIs
    <3>2. st'.nonce[a] = seen.nonce[a] + (IF q.signer = a THEN 1 ELSE 0)
      BY <2>0, <3>1, RunNonce
    <3>3. seen.nonce = st.nonce
      BY <2>0 DEF Same, Core, Fields
    <3>4. By(wal', Len(wal), a) = By(wal, Len(wal), a)
      BY <3>1 DEF By
    <3>5. Cardinality(By(wal', Len(wal) + 1, a))
            = Cardinality(By(wal', Len(wal), a)) + (IF wal'[Len(wal) + 1].q.signer = a THEN 1 ELSE 0)
      BY <2>0, ByStep
    <3>6. st.nonce[a] = Cardinality(By(wal, Len(wal), a))
      OBVIOUS
    <3> QED BY <3>1, <3>2, <3>3, <3>4, <3>5, <3>6
  <2>2. CASE UNCHANGED <<st, wal>>
    BY <2>2 DEF By
  <2> QED BY <2>1, <2>2 DEF Next, fail, flush, read, tick, vars
<1> QED BY <1>1, <1>2, <1>3, EngineKeeps, PTL DEF Spec

-----------------------------------------------------------------------------
LEMMA AddOne ==
  ASSUME NEW s, Good(s), NEW d \in Dir, NEW old, Finite(old)
  PROVE  Cardinality(add(s, d, old).docs[d]) = Cardinality(s.docs[d]) + 1
<1> DEFINE k == genDocID(s, d, old)
<1>1. IsRecord(s) /\ Finite(s.docs) /\ s.dir[d].autoid \in Int /\ s.dir[d].autoid >= -1
  BY DEF Good, StateOK, IsRecord, DirsOK, DirInfo
<1>2. add(s, d, old).docs = [s.docs EXCEPT ![d] = s.docs[d] \cup {k}]
  BY <1>1, AddIs DEF AddDocs
<1>3. IsFiniteSet(visible(s, d, old))
  BY <1>1, FS_Union DEF visible, Finite
<1>4. k \notin s.docs[d]
  BY <1>1, <1>3, GenFinds DEF visible
<1> HIDE DEF k
<1>5. add(s, d, old).docs[d] = s.docs[d] \cup {k}
  BY <1>1, <1>2 DEF Finite
<1>6. Cardinality(s.docs[d] \cup {k}) = Cardinality(s.docs[d]) + 1
  BY <1>1, <1>4, FS_AddElement DEF Finite
<1> QED BY <1>5, <1>6

(* genDocID: for any number of documents, and whatever the store still     *)
(* holds of the deleted ones, a query that adds a document leaves one more.*)
THEOREM AddsCreate == Spec => AddCreates
<1> DEFINE Adds == \A d \in Dir :
                     wal' # wal /\ wal'[Len(wal')].q.ops = <<[op |-> "add", dir |-> d]>>
                       => Cardinality(st'.docs[d]) = Cardinality(st.docs[d]) + 1
<1>1. EngineInv /\ [Next]_vars => [Adds]_vars
  <2> SUFFICES ASSUME EngineInv, Next, NEW d \in Dir, wal' # wal,
                      wal'[Len(wal')].q.ops = <<[op |-> "add", dir |-> d]>>
               PROVE  Cardinality(st'.docs[d]) = Cardinality(st.docs[d]) + 1
    OBVIOUS
  <2>1. PICK q \in Query(seen) : write(q)
    BY DEF Next, fail, flush, read, tick
  <2>2. /\ q \in Signed /\ passes(seen, q, clock, disk) /\ st' = run(seen, q, clock, disk)
        /\ Len(wal') = Len(wal) + 1 /\ wal'[Len(wal) + 1].q = q
    BY <2>1, WriteIs
  <2>3. /\ Good(seen) /\ Same(st, seen, Core) /\ Finite(disk) /\ clock \in Int
    BY DEF EngineInv
  <2> DEFINE o == [op |-> "add", dir |-> d]
             b == start(seen, q, clock)
             old == Old(seen, disk)
             g == Steps(b, q, old)
  <2>4. q.ops = <<o>>
    BY <2>2
  <2>5. o.op = "add" /\ o.dir = d
    OBVIOUS
  <2>6. Good(b) /\ Finite(old)
    BY <2>2, <2>3, StartGood, OldFinite
  <2>7. may(g[0], q, q.ops[1], old) /\ st' = g[1]
    <3>1. 1 \in 1..Len(q.ops) /\ Len(q.ops) = 1 /\ 1 - 1 = 0
      BY <2>4
    <3>2. \A k \in 1..Len(q.ops) : may(g[k - 1], q, q.ops[k], old)
      BY <2>2 DEF passes
    <3>3. st' = g[Len(q.ops)]
      BY <2>2 DEF run
    <3> HIDE DEF g, old
    <3>4. may(g[1 - 1], q, q.ops[1], old)
      BY <3>1, <3>2
    <3> QED BY <3>1, <3>3, <3>4
  <2>8. b.docs = st.docs /\ b.docs = seen.docs
    <3>1. IsRecord(seen)
      BY <2>3 DEF Good, StateOK, IsRecord
    <3>2. Same(seen, b, Fields \ {"i", "ts", "latest", "nonce"})
      BY <3>1, StartIs
    <3> HIDE DEF b
    <3>3. b.docs = seen.docs
      BY <3>2 DEF Same, Fields
    <3> QED BY <2>3, <3>3 DEF Same, Core, Fields
  <2> HIDE DEF b, old
  <2>9. g[0] = b /\ g[1] = step(b, q, o, old)
    <3>1. q.ops \in Seq(Op)
      BY <2>2 DEF Signed
    <3>2. \A k \in 0..Len(q.ops) : g[k] = IF k = 0 THEN b ELSE step(g[k - 1], q, q.ops[k], old)
      <4>1. Obeys(g, b, q, old)
        BY <3>1, StepsAre
      <4> HIDE DEF g
      <4> QED BY <4>1 DEF Obeys
    <3>3. Len(q.ops) = 1 /\ q.ops[1] = o
      BY <2>4
    <3> HIDE DEF g, o
    <3>4. 0 \in 0..Len(q.ops) /\ 1 \in 0..Len(q.ops) /\ 1 - 1 = 0
      BY <3>3
    <3>5. g[0] = b
      BY <3>2, <3>4
    <3>6. g[1] = step(g[1 - 1], q, q.ops[1], old)
      BY <3>2, <3>4
    <3> QED BY <3>3, <3>4, <3>5, <3>6
  <2> HIDE DEF g
  <2>10. step(b, q, o, old) = add(b, d, old)
    BY <2>5 DEF effect, step, HasWriter
  <2>11. Cardinality(add(b, d, old).docs[d]) = Cardinality(b.docs[d]) + 1
    BY <2>6, AddOne
  <2> QED BY <2>7, <2>8, <2>9, <2>10, <2>11
<1>2. Spec => [][Adds]_vars
  BY <1>1, EngineKeeps, PTL DEF Spec
<1> QED BY <1>2 DEF AddCreates

-----------------------------------------------------------------------------
(* Timestamps *)
Timed(s, t, now) == t.latest = Counted(s.latest, now) /\ t.ts = now

LEMMA RunTime ==
  ASSUME NEW s, Good(s), NEW q \in Signed, NEW now \in Int, NEW store, Finite(store),
         passes(s, q, now, store)
  PROVE  Timed(s, run(s, q, now, store), now)
<1>1. IsRecord(s)
  BY DEF Good, StateOK, IsRecord
<1>2. start(s, q, now).latest = Counted(s.latest, now) /\ start(s, q, now).ts = now
  <2> DEFINE t == normalize(s, now)
  <2>1. IsRecord(t) /\ t.ts = now /\ t.latest = Counted(s.latest, now)
    BY <1>1 DEF normalize, IsRecord, Fields
  <2> HIDE DEF t
  <2>2. verify(t, q).latest = t.latest /\ verify(t, q).ts = t.ts
    BY <2>1 DEF verify, IsRecord, Fields
  <2> QED BY <2>1, <2>2 DEF start, t
<1>3. /\ run(s, q, now, store).latest = start(s, q, now).latest
      /\ run(s, q, now, store).ts = start(s, q, now).ts
  BY RunGood DEF Same, Clockwise
<1> QED BY <1>2, <1>3 DEF Timed

LEMMA HistoryTime ==
  ASSUME NEW log \in Histories
  PROVE  \A k \in 1..Len(log) :
           replay(log, 0)[k].ts = 0 /\ replay(log, 0)[k].latest = [ts |-> 0, count |-> k - 1]
<1> DEFINE n == Len(log)
           g == replay(log, 0)
           S == {k \in Nat : k <= n => IF k = 0 THEN g[k].latest = [ts |-> -1, count |-> -1]
                                       ELSE g[k].ts = 0 /\ g[k].latest = [ts |-> 0, count |-> k - 1]}
<1>1. n \in Nat /\ \A k \in 1..n : log[k].q \in Signed
  BY HistoryIs DEF IsLog
<1>2. g[0] = Blank
  BY <1>1, ReplayIs
<1>3. /\ \A k \in 0..n : Good(g[k])
      /\ \A k \in 1..n : /\ passes(g[k - 1], log[k].q, 0, g[k - 1].docs)
                         /\ g[k] = run(g[k - 1], log[k].q, 0, g[k - 1].docs)
  BY HistoryIs
<1> HIDE DEF g, n
<1>4. 0 \in S
  <2>1. Blank.latest = [ts |-> -1, count |-> -1]
    BY DEF Blank
  <2> QED BY <1>2, <2>1
<1>5. ASSUME NEW k \in Nat, k \in S
      PROVE  k + 1 \in S
  <2> SUFFICES ASSUME k + 1 <= n
               PROVE  g[k + 1].ts = 0 /\ g[k + 1].latest = [ts |-> 0, count |-> k]
    <3>1. k + 1 # 0 /\ (k + 1) - 1 = k /\ k + 1 \in Nat
      OBVIOUS
    <3> QED BY <3>1
  <2>1. k + 1 \in 1..n /\ (k + 1) - 1 = k /\ k <= n /\ k \in 0..n
    BY <1>1
  <2>2. /\ Good(g[k]) /\ log[k + 1].q \in Signed
        /\ passes(g[k], log[k + 1].q, 0, g[k].docs)
        /\ g[k + 1] = run(g[k], log[k + 1].q, 0, g[k].docs)
    BY <1>1, <1>3, <2>1
  <2>3. Finite(g[k].docs)
    BY <2>2 DEF Good, StateOK
  <2>4. g[k + 1].latest = Counted(g[k].latest, 0) /\ g[k + 1].ts = 0
    <3>1. Timed(g[k], run(g[k], log[k + 1].q, 0, g[k].docs), 0)
      BY <2>2, <2>3, RunTime
    <3> QED BY <2>2, <3>1 DEF Timed
  <2>5. CASE k = 0
    <3>1. g[k].latest = [ts |-> -1, count |-> -1]
      BY <1>5, <2>1, <2>5
    <3>2. Counted([ts |-> -1, count |-> -1], 0) = [ts |-> 0, count |-> 0]
      BY DEF Counted
    <3> QED BY <2>4, <2>5, <3>1, <3>2
  <2>6. CASE k # 0
    <3>1. g[k].latest = [ts |-> 0, count |-> k - 1]
      BY <1>5, <2>1, <2>6
    <3>2. Counted([ts |-> 0, count |-> k - 1], 0) = [ts |-> 0, count |-> k]
      BY DEF Counted
    <3> QED BY <2>4, <3>1, <3>2
  <2> QED BY <2>5, <2>6
<1> HIDE DEF S
<1>6. \A k \in Nat : k \in S
  BY <1>4, <1>5, Induction
<1>7. \A k \in 1..n : k \in Nat /\ k <= n /\ k # 0
  BY <1>1
<1> QED BY <1>6, <1>7 DEF S, g, n

(* Fewer than a thousand queries have been counted in the millisecond of   *)
(* the last one.  setTS64 does not see to it.                              *)
FewPerTick == st.latest.count < 1000

(* The time and the count of the committed state are those of the last     *)
(* entry of the log; reads only move the ones of `seen' ahead of them.     *)
TimeInv ==
  /\ st.latest.ts >= -1 /\ st.latest.count >= -1 /\ seen.latest.count >= -1
  /\ st.latest.ts = -1 => Len(wal) = 0
  /\ st.latest.ts <= seen.latest.ts /\ seen.latest.ts <= clock
  /\ st.latest.ts = seen.latest.ts => st.latest.count <= seen.latest.count
  /\ \A k \in 1..Len(wal) : wal[k].ts64 <= st.latest.ts * 1000 + st.latest.count
  /\ Ts64Increases

LEMMA InitTime == Init => TimeInv
<1> SUFFICES ASSUME Init
             PROVE  TimeInv
  OBVIOUS
<1>1. PICK log \in Histories :
        /\ st = replayed(log, 0)
        /\ wal = [k \in 1..Len(log) |-> Entry(log[k].q, replay(log, 0)[k], FALSE)]
  BY DEF Init
<1>2. PICK n \in Nat : n = Len(log)
  BY HistoryIs DEF IsLog
<1>3. st = replay(log, 0)[n] /\ replay(log, 0)[0] = Blank
  BY <1>1, <1>2, ReplayIs
<1> DEFINE E(k) == Entry(log[k].q, replay(log, 0)[k], FALSE)
<1>4. wal = [k \in 1..n |-> E(k)]
  BY <1>1, <1>2
<1>5. \A k \in 1..n : E(k).ts64 = k - 1
  <2> SUFFICES ASSUME NEW k \in 1..n
               PROVE  E(k).ts64 = k - 1
    OBVIOUS
  <2>1. replay(log, 0)[k].ts = 0 /\ replay(log, 0)[k].latest = [ts |-> 0, count |-> k - 1]
    BY <1>2, HistoryTime
  <2>2. PICK x : x = replay(log, 0)[k]
    OBVIOUS
  <2>3. x.ts = 0 /\ x.latest.count = k - 1 /\ k - 1 \in Int
    BY <2>1, <2>2
  <2>4. ts64(x) = k - 1
    BY <2>3 DEF ts64
  <2>5. E(k).ts64 = ts64(x)
    BY <2>2 DEF Entry
  <2> HIDE DEF E
  <2> QED BY <2>4, <2>5
<1> HIDE DEF E
<1>6. Len(wal) = n /\ \A k \in 1..n : wal[k].ts64 = k - 1
  BY <1>4, <1>5
<1>7. Ts64Increases
  BY <1>6 DEF Ts64Increases
<1>8. seen = st /\ clock = 0
  BY DEF Init
<1>9. CASE n = 0
  <2>1. st.latest = [ts |-> -1, count |-> -1]
    BY <1>3, <1>9 DEF Blank
  <2> QED BY <1>6, <1>7, <1>8, <1>9, <2>1 DEF TimeInv
<1>10. CASE n # 0
  <2>1. n \in 1..n
    BY <1>10
  <2>2. st.latest = [ts |-> 0, count |-> n - 1]
    BY <1>2, <1>3, <2>1, HistoryTime
  <2>3. st.latest.ts = 0 /\ st.latest.count = n - 1
    BY <2>2
  <2>4. \A k \in 1..n : k - 1 <= 0 * 1000 + (n - 1)
    OBVIOUS
  <2> QED BY <1>6, <1>7, <1>8, <2>3, <2>4 DEF TimeInv
<1> QED BY <1>9, <1>10

LEMMA CountedIs ==
  ASSUME NEW l \in [ts : Int, count : Int], NEW now \in Nat, l.count >= -1, l.ts <= now
  PROVE  /\ Counted(l, now).ts = now /\ Counted(l, now).count \in Nat
         /\ l.ts = now => Counted(l, now).count = l.count + 1
BY DEF Counted

LEMMA NextTime == EngineInv /\ FewPerTick /\ TimeInv /\ [Next]_vars => TimeInv'
<1> SUFFICES ASSUME EngineInv, FewPerTick, TimeInv, [Next]_vars
             PROVE  TimeInv'
  OBVIOUS
<1>0. /\ Good(st) /\ Good(seen) /\ Finite(disk) /\ clock \in Nat /\ clock \in Int /\ wal \in Seq(Entries)
      /\ Len(wal) \in Nat
  BY DEF EngineInv
<1>10. \A k \in 1..Len(wal) : wal[k].ts64 \in Int
  <2>1. \A k \in 1..Len(wal) : wal[k] \in Entries
    BY <1>0
  <2>2. \A e \in Entries : e.ts64 \in Int
    BY DEF Entries
  <2> QED BY <2>1, <2>2
<1>1. st.latest \in [ts : Int, count : Int] /\ seen.latest \in [ts : Int, count : Int]
  BY <1>0 DEF Good, StateOK
<1>2. st.latest.ts \in Int /\ st.latest.count \in Int /\ seen.latest.ts \in Int /\ seen.latest.count \in Int
  BY <1>1
<1>3. /\ st.latest.ts >= -1 /\ st.latest.count >= -1 /\ seen.latest.count >= -1
      /\ st.latest.ts = -1 => Len(wal) = 0
      /\ st.latest.ts <= seen.latest.ts /\ seen.latest.ts <= clock
      /\ st.latest.ts = seen.latest.ts => st.latest.count <= seen.latest.count
      /\ \A k \in 1..Len(wal) : wal[k].ts64 <= st.latest.ts * 1000 + st.latest.count
      /\ \A j, k \in 1..Len(wal) : j < k => wal[j].ts64 < wal[k].ts64
  BY DEF TimeInv, Ts64Increases
<1> DEFINE l == Counted(seen.latest, clock)
<1>4. l.ts = clock /\ l.count \in Nat /\ (seen.latest.ts = clock => l.count = seen.latest.count + 1)
  BY <1>0, <1>1, <1>3, CountedIs
<1> HIDE DEF l
<1>5. ASSUME NEW q \in Query(seen), write(q)
      PROVE  TimeInv'
  <2>1. /\ q \in Signed /\ passes(seen, q, clock, disk) /\ st' = run(seen, q, clock, disk)
        /\ Len(wal') = Len(wal) + 1 /\ wal'[Len(wal) + 1].ts64 = ts64(st')
        /\ \A k \in 1..Len(wal) : wal'[k] = wal[k]
    BY <1>5, WriteIs
  <2>2. st'.latest = l /\ st'.ts = clock
    <3>1. Timed(seen, st', clock)
      BY <1>0, <2>1, RunTime
    <3> QED BY <3>1 DEF l, Timed
  <2>3. seen' = st' /\ clock' = clock
    BY <1>5 DEF write
  <2>4. ts64(st') = clock * 1000 + l.count
    BY <2>2 DEF ts64
  <2>5. PICK N \in Int : N = clock * 1000 + l.count
    BY <1>0, <1>4
  <2>6. \A k \in 1..Len(wal) : wal[k].ts64 < N
    <3>1. PICK x \in Int, c \in Int : x = st.latest.ts /\ c = st.latest.count
      BY <1>2
    <3>2. PICK u \in Int, v \in Int : u = seen.latest.ts /\ v = seen.latest.count
      BY <1>2
    <3>3. PICK y \in Int, m \in Nat : y = clock /\ m = l.count
      BY <1>0, <1>4
    <3>4. x <= u /\ u <= y /\ (x = u => c <= v) /\ (u = y => m = v + 1) /\ c < 1000 /\ N = y * 1000 + m
      BY <1>3, <1>4, <2>5, <3>1, <3>2, <3>3 DEF FewPerTick
    <3>5. x * 1000 + c < N
      BY <3>4
    <3>6. \A k \in 1..Len(wal) : wal[k].ts64 \in Int /\ wal[k].ts64 <= x * 1000 + c
      BY <1>3, <1>10, <3>1
    <3>7. \A a, b \in Int : a <= b /\ b < N => a < N
      OBVIOUS
    <3>8. x * 1000 + c \in Int
      OBVIOUS
    <3> QED BY <3>5, <3>6, <3>7, <3>8
  <2>7. \A k \in 1..Len(wal) + 1 : k \in 1..Len(wal) \/ k = Len(wal) + 1
    BY <1>0
  <2>8. wal'[Len(wal) + 1].ts64 = N /\ \A k \in 1..Len(wal) : wal'[k].ts64 = wal[k].ts64
    BY <2>1, <2>4, <2>5
  <2>9. ASSUME NEW j \in 1..Len(wal'), NEW k \in 1..Len(wal'), j < k
        PROVE  wal'[j].ts64 < wal'[k].ts64
    <3>1. j \in 1..Len(wal)
      BY <1>0, <2>1, <2>7, <2>9
    <3>2. CASE k \in 1..Len(wal)
      BY <1>3, <2>8, <2>9, <3>1, <3>2
    <3>3. CASE k = Len(wal) + 1
      BY <2>6, <2>8, <3>1, <3>3
    <3> QED BY <2>1, <2>7, <3>2, <3>3
  <2>10. Ts64Increases'
    BY <2>9 DEF Ts64Increases
  <2>11. ASSUME NEW k \in 1..Len(wal')
         PROVE  wal'[k].ts64 <= st'.latest.ts * 1000 + st'.latest.count
    <3>1. st'.latest.ts * 1000 + st'.latest.count = N
      BY <1>4, <2>2, <2>5
    <3>2. CASE k \in 1..Len(wal)
      <4>1. wal[k].ts64 \in Int
        BY <1>10, <3>2
      <4> QED BY <2>6, <2>8, <3>1, <3>2, <4>1
    <3>3. CASE k = Len(wal) + 1
      BY <2>8, <3>1, <3>3
    <3> QED BY <2>1, <2>7, <3>2, <3>3
  <2>12. st'.latest.ts = clock /\ st'.latest.count \in Nat
    BY <1>4, <2>2
  <2> QED BY <1>0, <2>3, <2>10, <2>11, <2>12 DEF TimeInv
<1>6. ASSUME NEW q \in Query(seen), fail(q)
      PROVE  TimeInv'
  <2>1. seen' = st /\ st' = st /\ wal' = wal /\ clock' = clock
    BY <1>6 DEF fail
  <2> QED BY <1>0, <1>2, <1>3, <2>1 DEF TimeInv, Ts64Increases
<1>7. CASE read
  <2>1. seen' = normalize(seen, clock) /\ st' = st /\ wal' = wal /\ clock' = clock
    BY <1>7 DEF read
  <2>2. seen'.latest = l
    BY <1>0, <2>1, NormalizeIs DEF l
  <2>3. seen'.latest.ts = clock /\ seen'.latest.count \in Nat
    BY <1>4, <2>2
  <2>4. st.latest.ts <= clock
    BY <1>0, <1>2, <1>3
  <2>5. st.latest.ts = clock => st.latest.count <= seen'.latest.count
    <3> SUFFICES ASSUME st.latest.ts = clock
                 PROVE  st.latest.count <= l.count
      BY <2>2
    <3>1. seen.latest.ts = clock
      BY <1>0, <1>2, <1>3
    <3> QED BY <1>2, <1>3, <1>4, <3>1
  <2> QED BY <1>0, <1>2, <1>3, <2>1, <2>3, <2>4, <2>5 DEF TimeInv, Ts64Increases
<1>8. CASE tick
  <2>1. clock' \in Nat /\ clock' > clock /\ st' = st /\ seen' = seen /\ wal' = wal
    BY <1>8, EngineAssumption DEF tick
  <2>2. seen.latest.ts <= clock'
    BY <1>0, <1>2, <1>3, <2>1
  <2> QED BY <1>3, <2>1, <2>2 DEF TimeInv, Ts64Increases
<1>9. CASE UNCHANGED <<st, seen, wal, clock>>
  BY <1>3, <1>9 DEF TimeInv, Ts64Increases
<1> QED BY <1>5, <1>6, <1>7, <1>8, <1>9 DEF Next, flush, vars

(* wdb64.mdx: as long as fewer than a thousand queries are counted in one  *)
(* millisecond, no two transactions have the same timestamp, and the       *)
(* timestamps are in the order of the transactions, whatever fails and is  *)
(* read in between.                                                        *)
THEOREM TimestampsIncrease == Spec /\ []FewPerTick => []Ts64Increases
<1>1. TimeInv => Ts64Increases
  BY DEF TimeInv
<1> QED BY <1>1, InitTime, NextTime, EngineKeeps, PTL DEF Spec

-----------------------------------------------------------------------------
(* Replicas.  What normalize sets decides nothing: from states that agree  *)
(* in the rest, a query passes on both or on none, and leaves states that  *)
(* agree in the rest.                                                      *)
LEMMA CoreIs ==
  ASSUME NEW s, NEW t, Same(s, t, Core)
  PROVE  /\ t.id = s.id /\ t.owner = s.owner /\ t.dirs = s.dirs /\ t.nonce = s.nonce
         /\ t.dir = s.dir /\ t.rules = s.rules /\ t.docs = s.docs
BY DEF Same, Core, Fields

LEMMA PassSame ==
  ASSUME NEW s, NEW t, Same(s, t, Core), NEW o \in Op, NEW a, NEW old,
         auth(s, o, a)
  PROVE  auth(t, o, a) /\ (possible(s, o, old) => possible(t, o, old))
<1>1. t.id = s.id /\ t.owner = s.owner /\ t.dir = s.dir /\ t.rules = s.rules /\ t.docs = s.docs
  BY CoreIs
<1>2. Matching(t, o) = Matching(s, o)
  BY <1>1 DEF Matching, BodyKey
<1>3. RuleOf(t, o) = RuleOf(s, o)
  BY <1>1, <1>2 DEF RuleOf, BodyKey
<1>4. Exists(t, o.dir) <=> Exists(s, o.dir)
  BY <1>1 DEF Exists
<1>5. visible(t, o.dir, old) = visible(s, o.dir, old)
  BY <1>1 DEF visible
<1>6. auth(t, o, a)
  BY <1>1, <1>2, <1>3, <1>4, OpIs DEF auth
<1>7. possible(s, o, old) => possible(t, o, old)
  BY <1>1, <1>4, <1>5, OpIs DEF possible
<1> QED BY <1>6, <1>7

LEMMA EffectSame ==
  ASSUME NEW s, NEW t, IsRecord(s), IsRecord(t), Same(s, t, Core), NEW o \in Op, NEW a, NEW old
  PROVE  /\ IsRecord(effect(s, o, a, old)) /\ IsRecord(effect(t, o, a, old))
         /\ Same(effect(s, o, a, old), effect(t, o, a, old), Core)
<1>0. /\ t.id = s.id /\ t.owner = s.owner /\ t.dirs = s.dirs /\ t.nonce = s.nonce
      /\ t.dir = s.dir /\ t.rules = s.rules /\ t.docs = s.docs
  BY CoreIs
<1>1. CASE o.op = "init"
  <2>1. effect(s, o, a, old) = init(s, a) /\ effect(t, o, a, old) = init(t, a)
    BY <1>1 DEF effect
  <2>2. IsRecord(init(s, a)) /\ IsRecord(init(t, a)) /\ Same(init(s, a), init(t, a), Core)
    BY <1>0 DEF init, IsRecord, Same, Core, Fields
  <2> QED BY <2>1, <2>2
<1>2. CASE o.op = "mkdir" /\ o.dir \in Dir
  <2>1. PICK d \in Dir : d = o.dir
    BY <1>2
  <2>2. effect(s, o, a, old) = mkdir(s, d) /\ effect(t, o, a, old) = mkdir(t, d)
    BY <1>2, <2>1 DEF effect
  <2>3. IsRecord(mkdir(s, d)) /\ IsRecord(mkdir(t, d)) /\ Same(mkdir(s, d), mkdir(t, d), Core)
    BY <1>0 DEF mkdir, IsRecord, Same, Core, Fields
  <2> QED BY <2>2, <2>3
<1>3. CASE o.op = "setAuth" /\ o.dir \in Dir
  <2>1. PICK d, rs : d \in Dir /\ d = o.dir /\ rs = o.rules
    BY <1>3
  <2>2. effect(s, o, a, old) = setAuth(s, d, rs) /\ effect(t, o, a, old) = setAuth(t, d, rs)
    BY <1>3, <2>1 DEF effect
  <2>3. SetDir(t, d, rs) = SetDir(s, d, rs) /\ SetRules(t, d, rs) = SetRules(s, d, rs)
    BY <1>0 DEF SetDir, SetRules, NewKeys, Kept
  <2>4. IsRecord(setAuth(s, d, rs)) /\ IsRecord(setAuth(t, d, rs)) /\ Same(setAuth(s, d, rs), setAuth(t, d, rs), Core)
    <3>1. PICK x, y : x = SetDir(s, d, rs) /\ y = SetRules(s, d, rs)
      OBVIOUS
    <3>2. /\ setAuth(s, d, rs) = [s EXCEPT !.dir[d] = x, !.rules = y]
          /\ setAuth(t, d, rs) = [t EXCEPT !.dir[d] = x, !.rules = y]
      BY <2>3, <3>1 DEF setAuth, SetDir, SetRules, NewKeys
    <3>3. /\ IsRecord([s EXCEPT !.dir[d] = x, !.rules = y])
          /\ IsRecord([t EXCEPT !.dir[d] = x, !.rules = y])
          /\ Same([s EXCEPT !.dir[d] = x, !.rules = y], [t EXCEPT !.dir[d] = x, !.rules = y], Core)
      BY <1>0 DEF IsRecord, Same, Core, Fields
    <3> QED BY <3>2, <3>3, Zenon
  <2> QED BY <2>2, <2>4
<1>4. CASE o.op = "add" /\ o.dir \in Dir
  <2>1. PICK d \in Dir : d = o.dir
    BY <1>4
  <2>2. effect(s, o, a, old) = add(s, d, old) /\ effect(t, o, a, old) = add(t, d, old)
    BY <1>4, <2>1 DEF effect
  <2>3. genDocID(t, d, old) = genDocID(s, d, old)
    BY <1>0 DEF genDocID, visible
  <2>4. AddDir(t, d, old) = AddDir(s, d, old) /\ AddDocs(t, d, old) = AddDocs(s, d, old)
    BY <1>0, <2>3 DEF AddDir, AddDocs
  <2>5. IsRecord(add(s, d, old)) /\ IsRecord(add(t, d, old)) /\ Same(add(s, d, old), add(t, d, old), Core)
    BY <1>0, <2>4, AddIs DEF Same, Core, Fields
  <2> QED BY <2>2, <2>5
<1>5. CASE o.op = "del" /\ o.dir \in Dir
  <2>1. PICK d, k : d \in Dir /\ d = o.dir /\ k = o.doc
    BY <1>5
  <2>2. effect(s, o, a, old) = del(s, d, k) /\ effect(t, o, a, old) = del(t, d, k)
    BY <1>5, <2>1 DEF effect
  <2>3. IsRecord(del(s, d, k)) /\ IsRecord(del(t, d, k)) /\ Same(del(s, d, k), del(t, d, k), Core)
    BY <1>0 DEF del, IsRecord, Same, Core, Fields
  <2> QED BY <2>2, <2>3
<1>6. CASE o.op \in {"set", "update"} /\ o.dir \in Dir
  <2>1. PICK d, k : d \in Dir /\ d = o.dir /\ k = o.doc
    BY <1>6
  <2>2. effect(s, o, a, old) = put(s, d, k) /\ effect(t, o, a, old) = put(t, d, k)
    BY <1>6, <2>1 DEF effect
  <2>3. IsRecord(put(s, d, k)) /\ IsRecord(put(t, d, k)) /\ Same(put(s, d, k), put(t, d, k), Core)
    BY <1>0 DEF put, IsRecord, Same, Core, Fields
  <2> QED BY <2>2, <2>3
<1> QED BY <1>1, <1>2, <1>3, <1>4, <1>5, <1>6, OpIs

LEMMA MaySame ==
  ASSUME NEW s, NEW t, Same(s, t, Core), NEW q, NEW o \in Op, NEW old, may(s, q, o, old)
  PROVE  may(t, q, o, old)
<1>1. auth(s, o, q.signer) /\ (HasWriter(q, o) => possible(s, o, old))
  BY DEF may
<1>2. auth(t, o, q.signer) /\ (HasWriter(q, o) => possible(t, o, old))
  BY <1>1, PassSame
<1> QED BY <1>2 DEF may

LEMMA StepSame ==
  ASSUME NEW s, NEW t, IsRecord(s), IsRecord(t), Same(s, t, Core), NEW q, NEW o \in Op, NEW old
  PROVE  /\ IsRecord(step(s, q, o, old)) /\ IsRecord(step(t, q, o, old))
         /\ Same(step(s, q, o, old), step(t, q, o, old), Core)
<1>1. CASE HasWriter(q, o)
  BY <1>1, EffectSame DEF step
<1>2. CASE ~HasWriter(q, o)
  BY <1>2 DEF step
<1> QED BY <1>1, <1>2

LEMMA StartSame ==
  ASSUME NEW s, NEW t, IsRecord(s), IsRecord(t), Same(s, t, Core), NEW q, NEW now, NEW then
  PROVE  /\ IsRecord(start(s, q, now)) /\ IsRecord(start(t, q, then))
         /\ Same(start(s, q, now), start(t, q, then), Core)
<1>0. /\ t.id = s.id /\ t.owner = s.owner /\ t.dirs = s.dirs /\ t.nonce = s.nonce
      /\ t.dir = s.dir /\ t.rules = s.rules /\ t.docs = s.docs
  BY CoreIs
<1> DEFINE u == normalize(s, now)
           v == normalize(t, then)
<1>1. IsRecord(u) /\ IsRecord(v) /\ Same(u, v, Core)
  BY <1>0 DEF normalize, IsRecord, Fields, Same, Core
<1> HIDE DEF u, v
<1>2. IsRecord(verify(u, q)) /\ IsRecord(verify(v, q)) /\ Same(verify(u, q), verify(v, q), Core)
  BY <1>1 DEF verify, IsRecord, Fields, Same, Core
<1> QED BY <1>2 DEF start, u, v

LEMMA RunSame ==
  ASSUME NEW s, NEW t, IsRecord(s), IsRecord(t), Same(s, t, Core), NEW q \in Signed,
         NEW now, NEW then, NEW store, NEW other, Old(t, other) = Old(s, store),
         passes(s, q, now, store)
  PROVE  /\ passes(t, q, then, other)
         /\ Same(run(s, q, now, store), run(t, q, then, other), Core)
<1> DEFINE old == Old(s, store)
           b == start(s, q, now)
           c == start(t, q, then)
           n == Len(q.ops)
           g == Steps(b, q, old)
           h == Steps(c, q, old)
           S == {k \in Nat : k <= n => IsRecord(g[k]) /\ IsRecord(h[k]) /\ Same(g[k], h[k], Core)}
<1>1. q.ops \in Seq(Op)
  BY DEF Signed
<1>2. n \in Nat /\ \A k \in 1..n : q.ops[k] \in Op
  BY <1>1
<1>3. IsRecord(b) /\ IsRecord(c) /\ Same(b, c, Core)
  BY StartSame
<1>4. /\ q.nonce = s.nonce[q.signer] + 1
      /\ \A k \in 1..n : may(g[k - 1], q, q.ops[k], old)
  BY DEF passes
<1>5. run(s, q, now, store) = g[n] /\ run(t, q, then, other) = h[n]
  BY DEF run
<1>6. passes(t, q, then, other) <=>
        /\ q.nonce = t.nonce[q.signer] + 1
        /\ \A k \in 1..n : may(h[k - 1], q, q.ops[k], old)
  BY DEF passes
<1> HIDE DEF b, c, old
<1>7. \A k \in 0..n : g[k] = IF k = 0 THEN b ELSE step(g[k - 1], q, q.ops[k], old)
  <2>1. Obeys(g, b, q, old)
    BY <1>1, StepsAre
  <2> HIDE DEF g
  <2> QED BY <2>1 DEF Obeys
<1>8. \A k \in 0..n : h[k] = IF k = 0 THEN c ELSE step(h[k - 1], q, q.ops[k], old)
  <2>1. Obeys(h, c, q, old)
    BY <1>1, StepsAre
  <2> HIDE DEF h
  <2> QED BY <2>1 DEF Obeys
<1> HIDE DEF g, h, n
<1>9. 0 \in S
  <2>1. 0 \in 0..n
    BY <1>2
  <2>2. g[0] = b /\ h[0] = c
    BY <1>7, <1>8, <2>1
  <2> QED BY <1>3, <2>2
<1>10. ASSUME NEW k \in Nat, k \in S
       PROVE  k + 1 \in S
  <2> SUFFICES ASSUME k + 1 <= n
               PROVE  IsRecord(g[k + 1]) /\ IsRecord(h[k + 1]) /\ Same(g[k + 1], h[k + 1], Core)
    OBVIOUS
  <2>1. k + 1 \in 0..n /\ k + 1 \in 1..n /\ k + 1 # 0 /\ (k + 1) - 1 = k /\ k <= n
    BY <1>2
  <2>2. g[k + 1] = step(g[k], q, q.ops[k + 1], old)
    BY <1>7, <2>1
  <2>3. h[k + 1] = step(h[k], q, q.ops[k + 1], old)
    BY <1>8, <2>1
  <2>4. IsRecord(g[k]) /\ IsRecord(h[k]) /\ Same(g[k], h[k], Core) /\ q.ops[k + 1] \in Op
    BY <1>2, <1>10, <2>1
  <2> QED BY <2>2, <2>3, <2>4, StepSame
<1> HIDE DEF S
<1>11. \A k \in Nat : k \in S
  BY <1>9, <1>10, Induction
<1>12. \A k \in 0..n : Same(g[k], h[k], Core)
  BY <1>2, <1>11 DEF S
<1>13. Same(g[n], h[n], Core)
  <2>1. n \in 0..n
    BY <1>2
  <2> QED BY <1>12, <2>1
<1>14. ASSUME NEW k \in 1..n
       PROVE  may(h[k - 1], q, q.ops[k], old)
  <2>1. k - 1 \in 0..n
    BY <1>2
  <2> QED BY <1>2, <1>4, <1>12, <2>1, MaySame
<1>15. t.nonce = s.nonce /\ t.id = s.id
  BY CoreIs
<1> QED BY <1>4, <1>5, <1>6, <1>13, <1>14, <1>15

(* A replica with the same documents redoes a query that passed. *)
LEMMA RedoSame ==
  ASSUME NEW s, NEW t, IsRecord(s), IsRecord(t), Same(s, t, Core), NEW q \in Signed,
         NEW now, NEW then, NEW store,
         \A d \in Dir : store[d] \subseteq s.docs[d],
         passes(s, q, now, store)
  PROVE  Same(run(s, q, now, store), redo(t, q, then), Core)
<1>1. t.docs = s.docs
  BY CoreIs
<1>2. \A d \in Dir : s.docs[d] \cup store[d] = t.docs[d] \cup t.docs[d]
  BY <1>1
<1>3. Old(t, t.docs) = Old(s, store)
  BY <1>2 DEF Old
<1>4. /\ passes(t, q, then, t.docs)
      /\ Same(run(s, q, now, store), run(t, q, then, t.docs), Core)
  BY <1>3, RunSame
<1> QED BY <1>4 DEF redo

LEMMA ReplayPrefix ==
  ASSUME NEW log, NEW more, Len(log) \in Nat, Len(more) \in Nat, Len(log) <= Len(more),
         \A k \in 1..Len(log) : more[k].q = log[k].q, NEW now
  PROVE  \A k \in 0..Len(log) : replay(more, now)[k] = replay(log, now)[k]
<1> DEFINE n == Len(log)
           m == Len(more)
           g == replay(log, now)
           h == replay(more, now)
           S == {k \in Nat : k <= n => h[k] = g[k]}
<1>1. g[0] = Blank /\ \A k \in 1..n : g[k] = redo(g[k - 1], log[k].q, now)
  BY ReplayIs
<1>2. h[0] = Blank /\ \A k \in 1..m : h[k] = redo(h[k - 1], more[k].q, now)
  BY ReplayIs
<1> HIDE DEF g, h
<1>3. 0 \in S
  BY <1>1, <1>2
<1>4. ASSUME NEW k \in Nat, k \in S
      PROVE  k + 1 \in S
  <2> SUFFICES ASSUME k + 1 <= n
               PROVE  h[k + 1] = g[k + 1]
    OBVIOUS
  <2>1. k + 1 \in 1..n /\ k + 1 \in 1..m /\ (k + 1) - 1 = k /\ k <= n
    OBVIOUS
  <2>2. g[k + 1] = redo(g[k], log[k + 1].q, now) /\ h[k + 1] = redo(h[k], more[k + 1].q, now)
    BY <1>1, <1>2, <2>1
  <2> QED BY <1>4, <2>1, <2>2
<1> HIDE DEF S
<1>5. \A k \in Nat : k \in S
  BY <1>3, <1>4, Induction
<1> QED BY <1>5 DEF S, g, h

LEMMA HistorySame ==
  ASSUME NEW log \in Histories, NEW now \in Int
  PROVE  \A k \in 0..Len(log) : Same(replay(log, 0)[k], replay(log, now)[k], Core)
<1> DEFINE n == Len(log)
           g == replay(log, 0)
           h == replay(log, now)
           S == {k \in Nat : k <= n => Same(g[k], h[k], Core)}
<1>1. n \in Nat /\ (\A k \in 1..n : log[k].q \in Signed) /\ IsLog(log)
  BY HistoryIs DEF IsLog
<1>2. g[0] = Blank
  BY <1>1, ReplayIs
<1>3. /\ \A k \in 0..n : Good(g[k])
      /\ \A k \in 1..n : /\ passes(g[k - 1], log[k].q, 0, g[k - 1].docs)
                         /\ g[k] = run(g[k - 1], log[k].q, 0, g[k - 1].docs)
  BY HistoryIs
<1>4. h[0] = Blank /\ \A k \in 1..n : h[k] = redo(h[k - 1], log[k].q, now)
  BY <1>1, ReplayIs
<1>5. \A k \in 0..n : Good(h[k])
  BY <1>1, ReplayGood
<1> HIDE DEF g, h, n
<1>6. 0 \in S
  BY <1>2, <1>4 DEF Same
<1>7. ASSUME NEW k \in Nat, k \in S
      PROVE  k + 1 \in S
  <2> SUFFICES ASSUME k + 1 <= n
               PROVE  Same(g[k + 1], h[k + 1], Core)
    OBVIOUS
  <2>1. k + 1 \in 1..n /\ (k + 1) - 1 = k /\ k <= n /\ k \in 0..n
    BY <1>1
  <2>2. PICK s, t, q : s = g[k] /\ t = h[k] /\ q = log[k + 1].q
    OBVIOUS
  <2>3. Good(s) /\ Good(t) /\ Same(s, t, Core) /\ q \in Signed /\ passes(s, q, 0, s.docs)
    BY <1>1, <1>3, <1>5, <1>7, <2>1, <2>2
  <2>4. g[k + 1] = run(s, q, 0, s.docs) /\ h[k + 1] = redo(t, q, now)
    BY <1>3, <1>4, <2>1, <2>2
  <2>5. IsRecord(s) /\ IsRecord(t)
    BY <2>3 DEF Good, StateOK, IsRecord
  <2>6. Same(run(s, q, 0, s.docs), redo(t, q, now), Core)
    BY <2>3, <2>5, RedoSame
  <2> QED BY <2>4, <2>6
<1> HIDE DEF S
<1>8. \A k \in Nat : k \in S
  BY <1>6, <1>7, Induction
<1> QED BY <1>1, <1>8 DEF S, g, h, n

(* The replay of the log agrees with the committed state, whenever it runs. *)
OnTime == \A k \in 1..Len(wal) : ~wal[k].late
AgreeInv == OnTime => \A now \in Int : Same(st, replayed(wal, now), Core)

LEMMA InitAgrees == Init => AgreeInv
<1> SUFFICES ASSUME Init, NEW now \in Int
             PROVE  Same(st, replayed(wal, now), Core)
  BY DEF AgreeInv
<1>1. PICK log \in Histories :
        /\ st = replayed(log, 0)
        /\ wal = [k \in 1..Len(log) |-> Entry(log[k].q, replay(log, 0)[k], FALSE)]
  BY DEF Init
<1>2. PICK n \in Nat : n = Len(log)
  BY HistoryIs DEF IsLog
<1>3. st = replay(log, 0)[n]
  BY <1>1, <1>2, ReplayIs
<1> DEFINE E(k) == Entry(log[k].q, replay(log, 0)[k], FALSE)
<1>4. wal = [k \in 1..n |-> E(k)] /\ \A k \in 1..n : E(k).q = log[k].q
  BY <1>1, <1>2 DEF Entry
<1> HIDE DEF E
<1>5. Len(wal) = n /\ \A k \in 1..n : wal[k].q = log[k].q
  BY <1>4
<1>6. n \in 0..n /\ n <= n
  OBVIOUS
<1>7. replay(wal, now)[n] = replay(log, now)[n]
  BY <1>2, <1>5, <1>6, ReplayPrefix
<1>8. replayed(wal, now) = replay(wal, now)[n]
  BY <1>5, ReplayIs
<1>9. Same(replay(log, 0)[n], replay(log, now)[n], Core)
  BY <1>2, <1>6, HistorySame
<1> QED BY <1>3, <1>7, <1>8, <1>9

LEMMA LogIs == EngineInv => IsLog(wal)
<1> SUFFICES ASSUME EngineInv
             PROVE  IsLog(wal)
  OBVIOUS
<1>1. wal \in Seq(Entries)
  BY DEF EngineInv
<1>2. Len(wal) \in Nat /\ \A k \in 1..Len(wal) : wal[k] \in Entries
  BY <1>1
<1>3. \A e \in Entries : e.q \in Signed
  BY DEF Entries
<1> QED BY <1>2, <1>3 DEF IsLog

LEMMA WriteAgrees ==
  ASSUME EngineInv, AgreeInv, NEW q \in Query(seen), write(q), OnTime', NEW now \in Int
  PROVE  Same(st', replayed(wal', now), Core)
<1>1. /\ q \in Signed /\ passes(seen, q, clock, disk) /\ st' = run(seen, q, clock, disk)
      /\ Len(wal') = Len(wal) + 1 /\ wal'[Len(wal) + 1].q = q /\ wal'[Len(wal) + 1].late = Deleted
      /\ \A k \in 1..Len(wal) : wal'[k] = wal[k]
  BY WriteIs
<1>2. IsLog(wal)
  BY LogIs
<1>3. PICK n \in Nat : n = Len(wal)
  BY <1>2 DEF IsLog
<1>4. ~Deleted /\ OnTime
  <2>1. n + 1 \in 1..(n + 1) /\ \A k \in 1..n : k \in 1..(n + 1)
    OBVIOUS
  <2>2. \A k \in 1..(n + 1) : ~wal'[k].late
    BY <1>1, <1>3 DEF OnTime
  <2> QED BY <1>1, <1>3, <2>1, <2>2 DEF OnTime
<1> DEFINE r == replayed(wal, now)
<1>5. Same(st, r, Core)
  BY <1>4 DEF AgreeInv
<1>6. r = replay(wal, now)[n] /\ Good(r)
  <2>1. r = replay(wal, now)[n]
    BY <1>3, ReplayIs
  <2>2. n \in 0..n
    OBVIOUS
  <2> QED BY <1>2, <1>3, <2>1, <2>2, ReplayGood
<1>7. replayed(wal', now) = redo(r, q, now)
  <2>1. Len(wal') \in Nat /\ Len(wal') = n + 1 /\ n <= n + 1 /\ n \in 0..n /\ n + 1 \in 1..(n + 1)
        /\ (n + 1) - 1 = n
    BY <1>1, <1>3
  <2>2. replay(wal', now)[n] = replay(wal, now)[n]
    <3>1. \A k \in 1..n : wal'[k].q = wal[k].q
      BY <1>1, <1>3
    <3> QED BY <1>3, <2>1, <3>1, ReplayPrefix
  <2>3. replayed(wal', now) = replay(wal', now)[n + 1]
    BY <2>1, ReplayIs
  <2>4. replay(wal', now)[n + 1] = redo(replay(wal', now)[(n + 1) - 1], wal'[n + 1].q, now)
    BY <2>1, ReplayIs
  <2>5. wal'[n + 1].q = q
    BY <1>1, <1>3
  <2> QED BY <1>6, <2>1, <2>2, <2>3, <2>4, <2>5
<1> HIDE DEF r
<1>8. Good(seen) /\ Good(st) /\ Same(st, seen, Core) /\ Finite(disk)
  BY DEF EngineInv
<1>9. IsRecord(seen) /\ IsRecord(r)
  BY <1>6, <1>8 DEF Good, StateOK, IsRecord
<1>10. Same(seen, r, Core)
  BY <1>5, <1>8 DEF Same
<1>11. \A d \in Dir : disk[d] \subseteq seen.docs[d]
  <2>1. \A d \in Dir : disk[d] \subseteq st.docs[d]
    BY <1>4 DEF Deleted
  <2>2. seen.docs = st.docs
    BY <1>8, CoreIs
  <2> QED BY <2>1, <2>2
<1>12. Same(run(seen, q, clock, disk), redo(r, q, now), Core)
  BY <1>1, <1>9, <1>10, <1>11, RedoSame
<1> QED BY <1>1, <1>7, <1>12

LEMMA SameTime ==
  ASSUME NEW s, NEW t, IsRecord(s), IsRecord(t), Same(s, t, Core)
  PROVE  SameButTime(t, s)
<1> DEFINE u == [s EXCEPT !.i = 0, !.ts = 0, !.latest = NONE]
           v == [t EXCEPT !.i = 0, !.ts = 0, !.latest = NONE]
<1>1. IsRecord(u) /\ IsRecord(v)
  BY DEF IsRecord, Fields
<1>2. \A f \in Fields : u[f] = v[f]
  BY DEF IsRecord, Fields, Same, Core
<1> HIDE DEF u, v
<1>3. u = v
  BY <1>1, <1>2 DEF IsRecord
<1> QED BY <1>3 DEF SameButTime, u, v

(* litepaper: for any number of queries, failures and reads, a replica     *)
(* that replays the committed queries, each on its own clock, arrives at   *)
(* the committed state but for the number and the time of the last query,  *)
(* if no query ran while a deletion was waiting to be flushed.             *)
THEOREM ReplicasAgree == Spec => []ReplicaAgrees
<1>1. EngineInv /\ AgreeInv /\ [Next]_vars => AgreeInv'
  <2> SUFFICES ASSUME EngineInv, AgreeInv, [Next]_vars
               PROVE  AgreeInv'
    OBVIOUS
  <2>1. ASSUME NEW q \in Query(seen), write(q)
        PROVE  AgreeInv'
    <3>1. OnTime' => \A now \in Int : Same(st', replayed(wal', now), Core)
      BY <2>1, WriteAgrees
    <3> QED BY <3>1 DEF AgreeInv
  <2>2. CASE UNCHANGED <<st, wal>>
    BY <2>2 DEF AgreeInv, OnTime
  <2> QED BY <2>1, <2>2 DEF Next, fail, flush, read, tick, vars
<1>2. EngineInv /\ AgreeInv => ReplicaAgrees
  <2> SUFFICES ASSUME EngineInv, AgreeInv, OnTime
               PROVE  SameButTime(replayed(wal, clock), st)
    BY DEF ReplicaAgrees, OnTime
  <2>1. clock \in Int /\ Good(st) /\ IsLog(wal) /\ Len(wal) \in Nat
    BY LogIs DEF EngineInv, IsLog
  <2>2. Same(st, replayed(wal, clock), Core)
    BY <2>1 DEF AgreeInv
  <2>3. Good(replayed(wal, clock))
    <3>1. replayed(wal, clock) = replay(wal, clock)[Len(wal)]
      BY <2>1, ReplayIs
    <3>2. Len(wal) \in 0..Len(wal)
      BY <2>1
    <3> QED BY <2>1, <3>1, <3>2, ReplayGood
  <2>4. IsRecord(st) /\ IsRecord(replayed(wal, clock))
    BY <2>1, <2>3 DEF Good, StateOK, IsRecord
  <2> QED BY <2>2, <2>4, SameTime
<1> QED BY <1>1, <1>2, InitAgrees, EngineKeeps, PTL DEF Spec

-----------------------------------------------------------------------------
(* The log of queries *)

HasDb(s) == s.id = TRUE

(* Nothing passes without an owner but init, which makes one. *)
LEMMA EffectId ==
  ASSUME NEW s, Good(s), NEW o \in Op, NEW a \in Account, NEW old, Finite(old),
         auth(s, o, a), possible(s, o, old)
  PROVE  HasDb(effect(s, o, a, old)) /\ (HasDb(s) <=> o.op # "init")
<1> DEFINE t == effect(s, o, a, old)
<1>0. IsRecord(s) /\ s.id \in BOOLEAN
  BY DEF Good, StateOK, IsRecord
<1>1. CASE o.op = "init"
  <2>1. t = init(s, a)
    BY <1>1 DEF effect
  <2>2. init(s, a).id = TRUE
    BY <1>0, InitIs
  <2>3. s.id = FALSE
    BY <1>0, <1>1 DEF possible
  <2> QED BY <1>1, <2>1, <2>2, <2>3 DEF HasDb
<1>2. ASSUME o.op # "init", o.dir \in Dir
      PROVE  s.id = TRUE
  <2>1. CASE o.op = "mkdir"
    <3>1. a = s.owner
      BY <2>1 DEF auth
    <3> QED BY <1>0, <3>1, EngineAssumption DEF Good, DirsOK
  <2>2. CASE o.op # "mkdir"
    <3>1. CASE Exists(s, o.dir)
      <4>1. s.dir[o.dir].index # -1
        BY <1>2, <3>1 DEF Exists, Good, StateOK, DirInfo
      <4> QED BY <1>0, <1>2, <4>1 DEF Good, DirsOK
    <3>2. CASE o.op = "setAuth"
      <4>1. a = s.owner
        BY <3>2 DEF auth
      <4> QED BY <1>0, <4>1, EngineAssumption DEF Good, DirsOK
    <3>3. CASE o.op # "setAuth"
      <4>1. Exists(s, o.dir)
        BY <1>2, <2>2, <3>3 DEF auth
      <4> QED BY <3>1, <4>1
    <3> QED BY <3>2, <3>3
  <2> QED BY <2>1, <2>2
<1>3. CASE o.op = "mkdir" /\ o.dir \in Dir
  <2>1. t = mkdir(s, o.dir)
    BY <1>3 DEF effect
  <2>2. Same(s, mkdir(s, o.dir), Fields \ {"dir", "dirs"})
    BY <1>0, <1>3, MkdirIs
  <2>3. t.id = s.id
    BY <2>1, <2>2 DEF Same, Fields
  <2> QED BY <1>2, <1>3, <2>3 DEF HasDb
<1>4. CASE o.op = "setAuth" /\ o.dir \in Dir
  <2>1. t = setAuth(s, o.dir, o.rules)
    BY <1>4 DEF effect
  <2>2. Same(s, setAuth(s, o.dir, o.rules), Fields \ {"dir", "rules"})
    BY <1>0, <1>4, SetAuthIs
  <2>3. t.id = s.id
    BY <2>1, <2>2 DEF Same, Fields
  <2> QED BY <1>2, <1>4, <2>3 DEF HasDb
<1>5. CASE o.op = "add" /\ o.dir \in Dir
  <2>1. t = add(s, o.dir, old)
    BY <1>5 DEF effect
  <2>2. Same(s, add(s, o.dir, old), Fields \ {"docs", "dir"})
    BY <1>0, <1>5, AddIs
  <2>3. t.id = s.id
    BY <2>1, <2>2 DEF Same, Fields
  <2> QED BY <1>2, <1>5, <2>3 DEF HasDb
<1>6. CASE o.op = "del" /\ o.dir \in Dir
  <2>1. t = del(s, o.dir, o.doc)
    BY <1>6 DEF effect
  <2>2. t.id = s.id
    BY <1>0, <2>1 DEF del, IsRecord, Fields
  <2> QED BY <1>2, <1>6, <2>2 DEF HasDb
<1>7. CASE o.op \in {"set", "update"} /\ o.dir \in Dir
  <2>1. t = put(s, o.dir, o.doc)
    BY <1>7 DEF effect
  <2>2. t.id = s.id
    BY <1>0, <2>1 DEF put, IsRecord, Fields
  <2> QED BY <1>2, <1>7, <2>2 DEF HasDb
<1> QED BY <1>1, <1>3, <1>4, <1>5, <1>6, <1>7, OpIs

(* In a query of several operations none makes a database. *)
LEMMA StepId ==
  ASSUME NEW s, Good(s), NEW q \in Signed, NEW o \in Op, NEW old, Finite(old),
         may(s, q, o, old)
  PROVE  /\ HasWriter(q, o) => HasDb(step(s, q, o, old)) /\ (HasDb(s) <=> o.op # "init")
         /\ ~HasWriter(q, o) => step(s, q, o, old) = s
<1>1. q.signer \in Account
  BY DEF Signed
<1>2. ASSUME HasWriter(q, o)
      PROVE  HasDb(step(s, q, o, old)) /\ (HasDb(s) <=> o.op # "init")
  <2>1. auth(s, o, q.signer) /\ possible(s, o, old) /\ step(s, q, o, old) = effect(s, o, q.signer, old)
    BY <1>2 DEF may, step
  <2> QED BY <1>1, <2>1, EffectId
<1>3. ~HasWriter(q, o) => step(s, q, o, old) = s
  BY DEF step
<1> QED BY <1>2, <1>3

(* A query that passes is init just if it makes the database; unless it is *)
(* void, there is one afterwards, and before it unless it is init.         *)
LEMMA RunId ==
  ASSUME NEW s, Good(s), NEW q \in Signed, NEW now \in Int, NEW store, Finite(store),
         passes(s, q, now, store)
  PROVE  /\ Kind(q) = "init" => ~HasDb(s) /\ HasDb(run(s, q, now, store))
         /\ Kind(q) = "set" => HasDb(s)
         /\ Kind(q) # "init" => (HasDb(run(s, q, now, store)) <=> HasDb(s))
<1> DEFINE b == start(s, q, now)
           old == Old(s, store)
           n == Len(q.ops)
           g == Steps(b, q, old)
<1>0. q.ops \in Seq(Op) /\ q.signer \in Account /\ q.batch \in BOOLEAN /\ (~q.batch => n = 1)
  BY DEF Signed
<1>1. n \in Nat /\ \A k \in 1..n : q.ops[k] \in Op
  BY <1>0
<1>2. IsRecord(s) /\ s.id \in BOOLEAN
  BY DEF Good, StateOK, IsRecord
<1>3. HasDb(b) <=> HasDb(s)
  <2>1. Same(s, b, Fields \ {"i", "ts", "latest", "nonce"})
    BY <1>2, StartIs
  <2> HIDE DEF b
  <2> QED BY <2>1 DEF Same, Fields, HasDb
<1>4. \A k \in 1..n : may(g[k - 1], q, q.ops[k], old)
  BY DEF passes
<1>5. run(s, q, now, store) = g[n]
  BY DEF run
<1>6. \A k \in 0..n : Good(g[k])
  BY RunGood
<1>7. Finite(old)
  BY OldFinite
<1> HIDE DEF b, old
<1>8. \A k \in 0..n : g[k] = IF k = 0 THEN b ELSE step(g[k - 1], q, q.ops[k], old)
  <2>1. Obeys(g, b, q, old)
    BY <1>0, StepsAre
  <2> HIDE DEF g
  <2> QED BY <2>1 DEF Obeys
<1> HIDE DEF g, n
<1>9. g[0] = b
  BY <1>1, <1>8
<1>10. ASSUME NEW k \in 1..n
       PROVE  /\ HasWriter(q, q.ops[k]) =>
                    HasDb(g[k]) /\ (HasDb(g[k - 1]) <=> q.ops[k].op # "init")
              /\ ~HasWriter(q, q.ops[k]) => g[k] = g[k - 1]
  <2>1. k \in 0..n /\ k # 0 /\ k - 1 \in 0..n
    BY <1>1
  <2>2. g[k] = step(g[k - 1], q, q.ops[k], old)
    BY <1>8, <2>1
  <2>3. Good(g[k - 1]) /\ q.ops[k] \in Op /\ may(g[k - 1], q, q.ops[k], old)
    BY <1>1, <1>4, <1>6, <2>1
  <2> QED BY <1>7, <2>2, <2>3, StepId
<1>11. CASE ~q.batch
  <2>1. n = 1 /\ 1 \in 1..n /\ 1 - 1 = 0
    BY <1>0, <1>11
  <2>2. HasWriter(q, q.ops[1])
    BY <1>11 DEF HasWriter
  <2>3. HasDb(g[1]) /\ (HasDb(g[1 - 1]) <=> q.ops[1].op # "init")
    BY <1>10, <2>1, <2>2
  <2>4. Kind(q) = IF q.ops[1].op = "init" THEN "init" ELSE "set"
    <3>0. 1 \in 1..Len(q.ops)
      BY <2>1 DEF n
    <3>1. ~(\A k \in 1..Len(q.ops) : ~HasWriter(q, q.ops[k]))
      BY <2>2, <3>0
    <3>2. CASE q.ops[1].op = "init"
      BY <1>11, <3>1, <3>2 DEF Kind
    <3>3. CASE q.ops[1].op # "init"
      BY <3>1, <3>3 DEF Kind
    <3> QED BY <3>2, <3>3
  <2>5. HasDb(g[0]) <=> HasDb(s)
    BY <1>3, <1>9
  <2> QED BY <1>5, <2>1, <2>3, <2>4, <2>5
<1>12. CASE q.batch
  <2>1. /\ Kind(q) # "init"
        /\ Kind(q) = "set" => \E k \in 1..n : HasWriter(q, q.ops[k])
    BY <1>12 DEF Kind, n
  <2> DEFINE S == {k \in Nat : k <= n => (HasDb(g[k]) <=> HasDb(b))}
  <2>2. \A k \in 1..n : HasWriter(q, q.ops[k]) => q.ops[k].op # "init"
    BY <1>12 DEF HasWriter
  <2>3. 0 \in S
    BY <1>9
  <2>4. ASSUME NEW k \in Nat, k \in S
        PROVE  k + 1 \in S
    <3> SUFFICES ASSUME k + 1 <= n
                 PROVE  HasDb(g[k + 1]) <=> HasDb(b)
      OBVIOUS
    <3>1. k + 1 \in 1..n /\ (k + 1) - 1 = k /\ k <= n
      BY <1>1
    <3>2. HasDb(g[k]) <=> HasDb(b)
      BY <2>4, <3>1
    <3>3. /\ HasWriter(q, q.ops[k + 1]) =>
               HasDb(g[k + 1]) /\ (HasDb(g[(k + 1) - 1]) <=> q.ops[k + 1].op # "init")
          /\ ~HasWriter(q, q.ops[k + 1]) => g[k + 1] = g[(k + 1) - 1]
      BY <1>10, <3>1
    <3>4. HasWriter(q, q.ops[k + 1]) => q.ops[k + 1].op # "init"
      BY <2>2, <3>1
    <3> QED BY <3>1, <3>2, <3>3, <3>4
  <2> HIDE DEF S
  <2>5. \A k \in Nat : k \in S
    BY <2>3, <2>4, Induction
  <2>6. \A k \in 0..n : HasDb(g[k]) <=> HasDb(b)
    BY <1>1, <2>5 DEF S
  <2>7. HasDb(g[n]) <=> HasDb(s)
    BY <1>1, <1>3, <2>6
  <2>8. ASSUME NEW k \in 1..n, HasWriter(q, q.ops[k])
        PROVE  HasDb(s)
    <3>1. k \in 0..n
      BY <1>1
    <3> QED BY <1>3, <1>10, <2>6, <2>8, <3>1
  <2> QED BY <1>5, <2>1, <2>7, <2>8
<1> QED BY <1>0, <1>11, <1>12

(* A query as the parts around the engine know it. *)
Known == Abstract!Query
Plain(q) == [op |-> Kind(q), acct |-> q.signer, nonce |-> q.nonce]

(* A set of numbers up to N has a last one. *)
LEMMA LastOf ==
  ASSUME NEW N \in Nat, NEW T, T \subseteq 1..N, T # {}
  PROVE  \E x \in T : \A y \in T : y <= x
<1> DEFINE HasLast(V) == \E x \in V : \A y \in V : y <= x
           S == {k \in Nat : \A V \in SUBSET (1..k) : V # {} => HasLast(V)}
<1>1. 0 \in S
  <2>1. 1..0 = {}
    OBVIOUS
  <2> QED BY <2>1
<1>2. ASSUME NEW k \in Nat, k \in S
      PROVE  k + 1 \in S
  <2> SUFFICES ASSUME NEW V \in SUBSET (1..(k + 1)), V # {}
               PROVE  HasLast(V)
    OBVIOUS
  <2>1. CASE k + 1 \in V
    <3>1. \A y \in V : y <= k + 1
      OBVIOUS
    <3> QED BY <2>1, <3>1
  <2>2. CASE k + 1 \notin V
    <3>1. \A y \in V : y \in 1..k
      BY <2>2
    <3>2. V \in SUBSET (1..k)
      BY <3>1
    <3> QED BY <1>2, <3>2
  <2> QED BY <2>1, <2>2
<1> HIDE DEF S
<1>3. N \in S
  BY <1>1, <1>2, Induction
<1> QED BY <1>3 DEF S

(* The nonce of a signer after one more query. *)
LEMMA NonceAfter ==
  ASSUME NEW lg \in Seq(Known), NEW q \in Known, NEW a
  PROVE  Abstract!nonceOf(Append(lg, q), a)
           = IF q.acct = a THEN q.nonce ELSE Abstract!nonceOf(lg, a)
<1> DEFINE new == Append(lg, q)
           n == Len(lg) + 1
           A == Abstract!Of(lg, a)
           B == Abstract!Of(new, a)
           Last(X, x) == \A y \in X : y <= x
<1>1. Len(lg) \in Nat /\ Len(new) = n /\ new[n] = q /\ \A k \in 1..Len(lg) : new[k] = lg[k]
  OBVIOUS
<1> HIDE DEF new
<1>2. A = {k \in 1..Len(lg) : lg[k].acct = a} /\ B = {k \in 1..n : new[k].acct = a}
  BY <1>1 DEF Abstract!Of
<1>3. 1..n = (1..Len(lg)) \cup {n} /\ n \notin 1..Len(lg)
  BY <1>1
<1>4. /\ Abstract!nonceOf(lg, a) = IF A = {} THEN 0 ELSE lg[CHOOSE x \in A : Last(A, x)].nonce
      /\ Abstract!nonceOf(new, a) = IF B = {} THEN 0 ELSE new[CHOOSE x \in B : Last(B, x)].nonce
  BY DEF Abstract!nonceOf
<1> HIDE DEF A, B
<1>5. CASE q.acct = a
  <2>1. n \in B /\ Last(B, n)
    BY <1>1, <1>2, <1>3, <1>5
  <2> DEFINE x == CHOOSE x \in B : Last(B, x)
  <2>2. x \in B /\ Last(B, x)
    BY <2>1
  <2> HIDE DEF x
  <2>3. x = n
    <3>1. x <= n /\ n <= x /\ x \in 1..n
      BY <1>2, <2>1, <2>2
    <3> QED BY <1>1, <3>1
  <2>4. Abstract!nonceOf(new, a) = new[x].nonce
    BY <1>4, <2>1 DEF x
  <2> QED BY <1>1, <1>5, <2>3, <2>4 DEF new
<1>6. CASE q.acct # a
  <2>1. A = B
    BY <1>1, <1>2, <1>3, <1>6
  <2>2. CASE A = {}
    BY <1>4, <1>6, <2>1, <2>2 DEF new
  <2>3. CASE A # {}
    <3> DEFINE x == CHOOSE x \in A : Last(A, x)
    <3>1. \E y \in A : Last(A, y)
      <4>1. A \subseteq 1..Len(lg)
        BY <1>2
      <4> QED BY <1>1, <2>3, <4>1, LastOf
    <3>2. x \in A
      BY <3>1
    <3>3. Abstract!nonceOf(lg, a) = lg[x].nonce /\ Abstract!nonceOf(new, a) = new[x].nonce
      BY <1>4, <2>1, <2>3
    <3> HIDE DEF x
    <3>4. new[x] = lg[x]
      BY <1>1, <1>2, <3>2
    <3> QED BY <1>6, <3>3, <3>4 DEF new
  <2> QED BY <2>2, <2>3
<1> QED BY <1>5, <1>6

(* A state fits a log: what the pipeline checks of a query says of the     *)
(* state what `accepts' says of the log.                                   *)
Fits(s, lg) ==
  /\ \A a \in Account : s.nonce[a] = Abstract!nonceOf(lg, a)
  /\ HasDb(s) <=> Abstract!hasInit(lg)

LEMMA FitsOneMore ==
  ASSUME NEW s, Good(s), NEW q \in Signed, NEW now \in Int, NEW store, Finite(store),
         passes(s, q, now, store), NEW lg \in Seq(Known), Fits(s, lg)
  PROVE  /\ Plain(q) \in Known /\ Abstract!accepts(lg, Plain(q))
         /\ Fits(run(s, q, now, store), Append(lg, Plain(q)))
<1> DEFINE p == Plain(q)
           t == run(s, q, now, store)
<1>1. q.signer \in Account /\ q.nonce \in Nat /\ s.nonce \in [Account -> Nat]
  BY DEF Signed, Good, StateOK
<1>2. q.nonce = s.nonce[q.signer] + 1
  BY DEF passes
<1>3. /\ Kind(q) = "init" => ~HasDb(s) /\ HasDb(t)
      /\ Kind(q) = "set" => HasDb(s)
      /\ Kind(q) # "init" => (HasDb(t) <=> HasDb(s))
  BY RunId
<1>4. \A a \in Account : t.nonce[a] = s.nonce[a] + (IF q.signer = a THEN 1 ELSE 0)
  BY RunNonce
<1>5. /\ p.op = Kind(q) /\ Kind(q) \in {"init", "set", "void"}
      /\ p.acct = q.signer /\ p.nonce = q.nonce
  BY DEF Plain, Kind
<1>6. p \in Known
  <2>1. q.nonce \in Nat \ {0}
    BY <1>1, <1>2
  <2> QED BY <1>1, <1>5, <2>1 DEF Known, Abstract!Query, Plain
<1> HIDE DEF p, t
<1>7. Abstract!accepts(lg, p)
  <2>1. p.nonce = Abstract!nonceOf(lg, p.acct) + 1
    BY <1>1, <1>2, <1>5 DEF Fits
  <2>2. p.op # "void" => (p.op = "set" <=> Abstract!hasInit(lg))
    BY <1>3, <1>5 DEF Fits
  <2> QED BY <2>1, <2>2 DEF Abstract!accepts
<1>8. \A a \in Account : t.nonce[a] = Abstract!nonceOf(Append(lg, p), a)
  <2> SUFFICES ASSUME NEW a \in Account
               PROVE  t.nonce[a] = Abstract!nonceOf(Append(lg, p), a)
    OBVIOUS
  <2>1. Abstract!nonceOf(Append(lg, p), a) = IF p.acct = a THEN p.nonce ELSE Abstract!nonceOf(lg, a)
    BY <1>6, NonceAfter
  <2>2. s.nonce[a] = Abstract!nonceOf(lg, a) /\ s.nonce[a] \in Nat
    BY <1>1 DEF Fits
  <2> QED BY <1>2, <1>4, <1>5, <2>1, <2>2
<1>9. Abstract!hasInit(Append(lg, p)) <=> Abstract!hasInit(lg) \/ p.op = "init"
  <2> DEFINE new == Append(lg, p)
  <2>1. /\ Len(lg) \in Nat /\ Len(new) = Len(lg) + 1 /\ new[Len(lg) + 1] = p
        /\ \A k \in 1..Len(lg) : new[k] = lg[k]
    BY <1>6
  <2> HIDE DEF new
  <2>2. 1..Len(new) = (1..Len(lg)) \cup {Len(lg) + 1}
    BY <2>1
  <2>3. (\E k \in 1..Len(new) : new[k].op = "init")
          <=> (\E k \in 1..Len(lg) : lg[k].op = "init") \/ p.op = "init"
    BY <2>1, <2>2
  <2> QED BY <2>3 DEF Abstract!hasInit, new
<1>10. Fits(t, Append(lg, p))
  <2>1. HasDb(t) <=> (Abstract!hasInit(lg) \/ p.op = "init")
    BY <1>3, <1>5 DEF Fits
  <2> QED BY <1>8, <1>9, <2>1 DEF Fits
<1> QED BY <1>6, <1>7, <1>10 DEF p, t

LEMMA LegalOneMore ==
  ASSUME NEW lg, Abstract!Legal(lg), NEW q \in Known, Abstract!accepts(lg, q)
  PROVE  Abstract!Legal(Append(lg, q))
<1> DEFINE new == Append(lg, q)
<1>0. lg \in Seq(Known) /\ Len(lg) \in Nat
  BY DEF Abstract!Legal, Known
<1>1. /\ new \in Seq(Known) /\ Len(new) = Len(lg) + 1 /\ new[Len(lg) + 1] = q
      /\ \A k \in 1..Len(lg) : new[k] = lg[k]
  BY <1>0
<1> HIDE DEF new
<1>2. ASSUME NEW k \in 1..Len(new)
      PROVE  Abstract!accepts(SubSeq(new, 1, k - 1), new[k])
  <2>1. k - 1 \in 0..Len(lg)
    BY <1>0, <1>1
  <2>2. SubSeq(new, 1, k - 1) = SubSeq(lg, 1, k - 1)
    <3>1. SubSeq(new, 1, k - 1) = [m \in 1..(k - 1) |-> new[m]]
      BY <1>1, <2>1
    <3>2. SubSeq(lg, 1, k - 1) = [m \in 1..(k - 1) |-> lg[m]]
      BY <1>0, <2>1
    <3>3. \A m \in 1..(k - 1) : new[m] = lg[m]
      BY <1>0, <1>1, <2>1
    <3> QED BY <3>1, <3>2, <3>3
  <2>3. CASE k = Len(lg) + 1
    <3>1. SubSeq(lg, 1, k - 1) = lg
      BY <1>0, <2>3
    <3> QED BY <1>1, <2>2, <2>3, <3>1
  <2>4. CASE k # Len(lg) + 1
    <3>1. k \in 1..Len(lg) /\ new[k] = lg[k]
      BY <1>0, <1>1, <2>4
    <3>2. Abstract!accepts(SubSeq(lg, 1, k - 1), lg[k])
      BY <3>1 DEF Abstract!Legal
    <3> QED BY <2>2, <3>1, <3>2
  <2> QED BY <2>3, <2>4
<1> QED BY <1>1, <1>2 DEF Abstract!Legal, Known, new

(* The first n queries of a log. *)
PlainLog(log, n) == [k \in 1..n |-> Plain(log[k].q)]

LEMMA PlainLogGrows ==
  ASSUME NEW log, NEW n \in Nat, PlainLog(log, n) \in Seq(Known), Plain(log[n + 1].q) \in Known
  PROVE  PlainLog(log, n + 1) = Append(PlainLog(log, n), Plain(log[n + 1].q))
<1> DEFINE x(k) == Plain(log[k].q)
<1>1. PlainLog(log, n) = [k \in 1..n |-> x(k)] /\ PlainLog(log, n + 1) = [k \in 1..(n + 1) |-> x(k)]
  BY DEF PlainLog
<1> DEFINE old == PlainLog(log, n)
           new == Append(old, x(n + 1))
<1>2. old \in Seq(Known) /\ x(n + 1) \in Known
  OBVIOUS
<1> HIDE DEF x
<1>3. Len(old) = n /\ \A k \in 1..n : old[k] = x(k)
  BY <1>1
<1> HIDE DEF old
<1>4. new \in Seq(Known) /\ Len(new) = n + 1 /\ new[n + 1] = x(n + 1) /\ \A k \in 1..n : new[k] = old[k]
  BY <1>2, <1>3
<1> HIDE DEF new
<1>5. \A k \in 1..(n + 1) : new[k] = x(k)
  BY <1>3, <1>4
<1>6. new = [k \in 1..(n + 1) |-> x(k)]
  BY <1>4, <1>5
<1> QED BY <1>1, <1>6 DEF new, old, x

LEMMA HistoryFits ==
  ASSUME NEW log \in Histories
  PROVE  \A k \in 0..Len(log) :
           Abstract!Legal(PlainLog(log, k)) /\ Fits(replay(log, 0)[k], PlainLog(log, k))
<1> DEFINE n == Len(log)
           g == replay(log, 0)
           S == {k \in Nat : k <= n => Abstract!Legal(PlainLog(log, k)) /\ Fits(g[k], PlainLog(log, k))}
<1>1. n \in Nat /\ \A k \in 1..n : log[k].q \in Signed
  BY HistoryIs DEF IsLog
<1>2. g[0] = Blank
  BY <1>1, ReplayIs
<1>3. /\ \A k \in 0..n : Good(g[k])
      /\ \A k \in 1..n : /\ passes(g[k - 1], log[k].q, 0, g[k - 1].docs)
                         /\ g[k] = run(g[k - 1], log[k].q, 0, g[k - 1].docs)
  BY HistoryIs
<1> HIDE DEF g, n
<1>4. 0 \in S
  <2>1. PlainLog(log, 0) = <<>>
    BY DEF PlainLog
  <2>2. Abstract!Legal(<<>>)
    BY DEF Abstract!Legal
  <2>3. Fits(Blank, <<>>)
    <3>1. Blank.id = FALSE /\ \A a \in Account : Blank.nonce[a] = 0
      BY DEF Blank
    <3>2. \A a \in Account : Abstract!nonceOf(<<>>, a) = 0
      <4>1. \A a \in Account : Abstract!Of(<<>>, a) = {}
        BY DEF Abstract!Of
      <4> QED BY <4>1 DEF Abstract!nonceOf
    <3>3. ~Abstract!hasInit(<<>>)
      BY DEF Abstract!hasInit
    <3> QED BY <3>1, <3>2, <3>3 DEF Fits, HasDb
  <2> QED BY <1>2, <2>1, <2>2, <2>3
<1>5. ASSUME NEW k \in Nat, k \in S
      PROVE  k + 1 \in S
  <2> SUFFICES ASSUME k + 1 <= n
               PROVE  Abstract!Legal(PlainLog(log, k + 1)) /\ Fits(g[k + 1], PlainLog(log, k + 1))
    OBVIOUS
  <2>1. k + 1 \in 1..n /\ (k + 1) - 1 = k /\ k <= n /\ k \in 0..n
    BY <1>1
  <2>2. /\ Good(g[k]) /\ log[k + 1].q \in Signed
        /\ passes(g[k], log[k + 1].q, 0, g[k].docs)
        /\ g[k + 1] = run(g[k], log[k + 1].q, 0, g[k].docs)
    BY <1>1, <1>3, <2>1
  <2>3. Finite(g[k].docs)
    BY <2>2 DEF Good, StateOK
  <2>4. Abstract!Legal(PlainLog(log, k)) /\ Fits(g[k], PlainLog(log, k))
    BY <1>5, <2>1
  <2>5. PlainLog(log, k) \in Seq(Known)
    BY <2>4 DEF Abstract!Legal, Known
  <2> DEFINE q == log[k + 1].q
             lg == PlainLog(log, k)
  <2>6. /\ Plain(q) \in Known /\ Abstract!accepts(lg, Plain(q))
        /\ Fits(g[k + 1], Append(lg, Plain(q)))
    <3> HIDE DEF q, lg
    <3>1. 0 \in Int
      OBVIOUS
    <3> QED BY <2>2, <2>3, <2>4, <2>5, <3>1, FitsOneMore DEF q, lg
  <2>7. PlainLog(log, k + 1) = Append(lg, Plain(q))
    BY <2>5, <2>6, PlainLogGrows
  <2>8. Abstract!Legal(Append(lg, Plain(q)))
    BY <2>4, <2>6, LegalOneMore
  <2> QED BY <2>6, <2>7, <2>8
<1> HIDE DEF S
<1>6. \A k \in Nat : k \in S
  BY <1>4, <1>5, Induction
<1> QED BY <1>1, <1>6 DEF S, g, n

LEMMA QueriesArePlain == Queries = PlainLog(wal, Len(wal))
BY DEF Queries, PlainLog, Plain

LogFits == Abstract!Legal(Queries) /\ Fits(st, Queries)

LEMMA InitFits == Init => LogFits
<1> SUFFICES ASSUME Init
             PROVE  LogFits
  OBVIOUS
<1>1. PICK log \in Histories :
        /\ st = replayed(log, 0)
        /\ wal = [k \in 1..Len(log) |-> Entry(log[k].q, replay(log, 0)[k], FALSE)]
  BY DEF Init
<1>2. Len(log) \in Nat /\ Len(log) \in 0..Len(log)
  BY HistoryIs DEF IsLog
<1>3. st = replay(log, 0)[Len(log)]
  BY <1>1, <1>2, ReplayIs
<1>4. Len(wal) = Len(log) /\ \A k \in 1..Len(log) : wal[k].q = log[k].q
  <2>1. \A k \in 1..Len(log) : Entry(log[k].q, replay(log, 0)[k], FALSE).q = log[k].q
    BY DEF Entry
  <2>2. Len(wal) = Len(log)
    <3> DEFINE E(k) == Entry(log[k].q, replay(log, 0)[k], FALSE)
    <3>1. PICK n \in Nat : n = Len(log)
      BY <1>2
    <3>2. wal = [k \in 1..n |-> E(k)]
      BY <1>1, <3>1
    <3> HIDE DEF E
    <3>3. Len(wal) = n
      BY <3>2
    <3> QED BY <3>1, <3>3
  <2> QED BY <1>1, <2>1, <2>2
<1>5. Queries = PlainLog(log, Len(log))
  <2>1. Queries = [k \in 1..Len(log) |-> Plain(wal[k].q)]
    BY <1>4, QueriesArePlain DEF PlainLog
  <2>2. \A k \in 1..Len(log) : Plain(wal[k].q) = Plain(log[k].q)
    BY <1>4
  <2> QED BY <2>1, <2>2 DEF PlainLog
<1> QED BY <1>2, <1>3, <1>5, HistoryFits DEF LogFits

(* A query that is committed is one more query of the abstract log. *)
LEMMA WriteAccepts ==
  ASSUME EngineInv, LogFits, NEW q \in Query(seen), write(q)
  PROVE  LogFits' /\ Abstract!Accept
<1>0. Good(seen) /\ Same(st, seen, Core) /\ Finite(disk) /\ clock \in Int /\ Len(wal) \in Nat
  BY DEF EngineInv
<1>1. /\ q \in Signed /\ passes(seen, q, clock, disk) /\ st' = run(seen, q, clock, disk)
      /\ Len(wal') = Len(wal) + 1 /\ wal'[Len(wal) + 1].q = q
      /\ \A k \in 1..Len(wal) : wal'[k] = wal[k]
  BY WriteIs
<1>2. seen.nonce = st.nonce /\ seen.id = st.id
  BY <1>0 DEF Same, Core, Fields
<1>3. Fits(seen, Queries) /\ Abstract!Legal(Queries)
  BY <1>2 DEF Fits, LogFits, HasDb
<1>4. Queries \in Seq(Known)
  BY <1>3 DEF Abstract!Legal, Known
<1>5. /\ Plain(q) \in Known /\ Abstract!accepts(Queries, Plain(q))
      /\ Fits(st', Append(Queries, Plain(q)))
  BY <1>0, <1>1, <1>3, <1>4, FitsOneMore
<1>6. Queries' = Append(Queries, Plain(q))
  <2>1. PlainLog(wal', Len(wal)) = PlainLog(wal, Len(wal))
    BY <1>1 DEF PlainLog
  <2>2. PlainLog(wal', Len(wal) + 1) = Append(PlainLog(wal', Len(wal)), Plain(q))
    <3>1. PlainLog(wal', Len(wal)) \in Seq(Known)
      BY <1>4, <2>1, QueriesArePlain
    <3> QED BY <1>0, <1>1, <1>5, <3>1, PlainLogGrows
  <2>3. Queries' = PlainLog(wal', Len(wal'))
    BY DEF Queries, PlainLog, Plain
  <2> QED BY <1>1, <2>1, <2>2, <2>3, QueriesArePlain
<1>7. LogFits'
  <2>1. Abstract!Legal(Append(Queries, Plain(q)))
    BY <1>3, <1>5, LegalOneMore
  <2>2. Abstract!Legal(Queries') /\ Fits(st', Queries')
    BY <1>5, <1>6, <2>1
  <2> QED BY <2>2 DEF LogFits
<1>8. Abstract!Accept
  <2> DEFINE new == Append(Queries, Plain(q))
  <2>1. Len(new) = Len(Queries) + 1 /\ new[Len(new)] = Plain(q)
    BY <1>4, <1>5
  <2>2. Len(Queries') = Len(Queries) + 1 /\ Queries'[Len(Queries')] = Plain(q)
    BY <1>6, <2>1
  <2> QED BY <1>5, <1>6, <2>2 DEF Abstract!Accept, Known
<1> QED BY <1>7, <1>8

(* dev_verify.js, dev_auth.js, dev_batch.js, dev_init.js: whatever fails,  *)
(* is read or batched, empty batches and batches of ignored operations     *)
(* included, the pipeline commits each signer's queries with the nonces    *)
(* 1, 2, ... in order, init at most once, and nothing that writes before   *)
(* it.  RollupNode and Validator take from here which queries an engine    *)
(* accepts.                                                                *)
THEOREM EngineImplementsQueryLog == Spec => ImplementsQueryLog
<1>1. Init => LogFits /\ Abstract!Init
  BY InitFits DEF LogFits, Abstract!Init
<1>2. EngineInv /\ LogFits /\ [Next]_vars => LogFits' /\ [Abstract!Accept]_Queries
  <2> SUFFICES ASSUME EngineInv, LogFits, [Next]_vars
               PROVE  LogFits' /\ (Abstract!Accept \/ Queries' = Queries)
    OBVIOUS
  <2>1. ASSUME NEW q \in Query(seen), write(q)
        PROVE  LogFits' /\ Abstract!Accept
    BY <2>1, WriteAccepts
  <2>2. ASSUME UNCHANGED <<st, wal>>
        PROVE  LogFits' /\ Queries' = Queries
    <3>1. Queries' = Queries /\ st' = st
      BY <2>2 DEF Queries
    <3>2. Abstract!Legal(Queries') /\ Fits(st', Queries')
      BY <3>1 DEF LogFits
    <3> QED BY <3>1, <3>2 DEF LogFits
  <2>3. ASSUME NEW q \in Query(seen), fail(q) PROVE UNCHANGED <<st, wal>>
    BY <2>3 DEF fail
  <2>4. ASSUME flush \/ read \/ tick \/ UNCHANGED vars PROVE UNCHANGED <<st, wal>>
    BY <2>4 DEF flush, read, tick, vars
  <2> QED BY <2>1, <2>2, <2>3, <2>4 DEF Next
<1> QED BY <1>1, <1>2, EngineKeeps, PTL DEF Spec, ImplementsQueryLog, Abstract!Spec
=============================================================================
