----------------------------- MODULE CoinFetch -----------------------------
(***************************************************************************)
(* What the download part of syncOutCoinV2 (incclient/coin_cache.go)       *)
(* promises its caller: in one step it either delivers every coin of the   *)
(* account among the requested indices, or fails and delivers nothing.     *)
(* CoinSync implements it with concurrent batches; UtxoCache uses it as    *)
(* one step.                                                               *)
(***************************************************************************)

VARIABLES wanted,     \* the account's coins in the requested index range
          status,     \* "loop" (under way), "done" or "failed"
          result      \* the coins delivered

Init == status = "loop" /\ result = {}

Deliver == /\ status = "loop"
           /\ status' = "done"
           /\ result' = wanted
           /\ UNCHANGED wanted

Fail == /\ status = "loop"
        /\ status' = "failed"
        /\ UNCHANGED <<wanted, result>>

Spec == Init /\ [][Deliver \/ Fail]_<<wanted, status, result>>
=============================================================================
