------------------------------- MODULE MCOtp -------------------------------
(***************************************************************************)
(* A small instance of Challenges and the wallet it is paid from: three      *)
(* codes for one customer, and two recharge requests that name one bank      *)
(* payment.                                                                  *)
(***************************************************************************)
EXTENDS Challenges, TLC

OnePayment == [r \in Requests |-> "utr"]

RowAndTaskSymmetry ==
    Permutations(Tasks) \cup Permutations(Challenges) \cup Permutations(Requests)
=============================================================================
