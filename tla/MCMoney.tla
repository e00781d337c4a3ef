------------------------------ MODULE MCMoney ------------------------------
(***************************************************************************)
(* Two callers, three attempts, a campaign of 2 dollars counted in halves of *)
(* a dollar, and amounts that do not divide evenly: two thirds of a dollar   *)
(* are reserved as two halves.                                             *)
(***************************************************************************)
EXTENDS CampaignCallers, TLC

CONSTANTS a1, a2, a3

Amounts == {<<2, 3>>, <<1, 1>>, <<0, 1>>, NoAmount}

SmallCalls == [attempt : {a1, a2, a3}, particulars : {"request"}, amount : Amounts]
    \cup [attempt : {a1}, particulars : {"other"}, amount : {<<2, 3>>, NoAmount}]

Symmetry == Permutations(Callers)
=============================================================================
