------------------------- MODULE MCPaymentLifecycle -------------------------
(***************************************************************************)
(* Instances of PaymentLifecycle for TLC: which provider opens which       *)
(* payment, and the symmetry of the slots.                                 *)
(***************************************************************************)
EXTENDS PaymentLifecycle, TLC

CONSTANTS p1, p2

BankOnly      == p1 :> "kingdom_bank"
SulifuOnly    == p1 :> "sulifu_pay"
PayazaOnly    == p1 :> "payaza"
BankAndPayaza == p1 :> "kingdom_bank" @@ p2 :> "payaza"
BankAndSulifu == p1 :> "kingdom_bank" @@ p2 :> "sulifu_pay"

SlotSymmetry == Permutations(Slots)
=============================================================================
