---------------------------- MODULE PullPayments ----------------------------
(***************************************************************************)
(* The pull-payment balances that the escrow contracts keep:                *)
(* pendingWithdrawals[user][token], credited by settlements and emptied by  *)
(* the user's own withdraw call.                                            *)
(***************************************************************************)
EXTENDS Integers

(* pendingWithdrawals after adding amount for user in token tok. *)
Credit(pw, user, tok, amount) ==
  IF amount = 0 THEN pw ELSE [pw EXCEPT ![user][tok] = @ + amount]
=============================================================================
