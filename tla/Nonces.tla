------------------------------- MODULE Nonces -------------------------------
(***************************************************************************)
(* Which query the engine accepts after which others, as far as the parts  *)
(* around the engine are concerned: the nonce must follow the last one of  *)
(* its signer (core/src/dev_verify.js), init comes once (dev_init.js), and *)
(* nothing is written before it (dev_auth.js).  A batch that writes        *)
(* nothing, "void", is accepted at any time (dev_batch.js).  Engine is     *)
(* shown to keep to it: QueryLog.                                          *)
(***************************************************************************)
EXTENDS Integers, Sequences

CONSTANT Account    \* signers

Query == [op : {"init", "set", "void"}, acct : Account, nonce : Nat \ {0}]

(* _accounts/<signer>.nonce: the nonce of the signer's last query. *)
Of(lg, a) == {n \in 1..Len(lg) : lg[n].acct = a}
nonceOf(lg, a) ==
  IF Of(lg, a) = {} THEN 0
  ELSE lg[CHOOSE n \in Of(lg, a) : \A m \in Of(lg, a) : m <= n].nonce

(* _config/info has an id: the database was initialised. *)
hasInit(lg) == \E n \in 1..Len(lg) : lg[n].op = "init"

(* Faulty variant: verify does not look at the nonce. *)
accepts_AnyNonce(lg, q) == q.op # "void" => (q.op = "set" <=> hasInit(lg))

accepts(lg, q) ==
  /\ q.nonce = nonceOf(lg, q.acct) + 1
  /\ q.op # "void" => (q.op = "set" <=> hasInit(lg))

(* Every query was accepted after the ones before it. *)
Legal(lg) ==
  /\ lg \in Seq(Query)
  /\ \A n \in 1..Len(lg) : accepts(SubSeq(lg, 1, n - 1), lg[n])
=============================================================================
