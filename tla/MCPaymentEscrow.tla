-------------------------- MODULE MCPaymentEscrow --------------------------
(***************************************************************************)
(* Small instances of PaymentEscrow for TLC.                               *)
(***************************************************************************)
EXTENDS PaymentEscrow, TLC

CONSTANTS e1, e2, alice, bob, vault

AliceHasTwo == [a \in Accounts |-> IF a = alice THEN 2 ELSE 0]

IdSymmetry == Permutations(Ids)
=============================================================================
