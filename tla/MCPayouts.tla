------------------------------ MODULE MCPayouts ------------------------------
(***************************************************************************)
(* Instances of Payouts for TLC: which provider opens which payout,        *)
(* and the symmetry of the slots.                                          *)
(***************************************************************************)
EXTENDS Payouts, TLC

CONSTANTS o1, o2, o3

BankOnly         == o1 :> "kingdom_bank"
PayazaOnly       == o1 :> "payaza"
PayazaTwice      == o1 :> "payaza" @@ o2 :> "payaza"
PayazaAndPaytara == o1 :> "payaza" @@ o2 :> "paytara"
ThreeProviders   == PayazaAndPaytara @@ o3 :> "sulifu_pay"

SlotSymmetry == Permutations(Slots)
=============================================================================
