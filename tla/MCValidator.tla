---------------------------- MODULE MCValidator ----------------------------
(* Validator for TLC: a WAL of three entries by two signers, one of which  *)
(* is accepted without init.                                               *)
EXTENDS Validator

CONSTANTS a1, a2

ThreeQueries ==
  <<[op |-> "init", acct |-> a1, nonce |-> 1],
    [op |-> "void", acct |-> a2, nonce |-> 1], [op |-> "set", acct |-> a2, nonce |-> 2]>>
=============================================================================
