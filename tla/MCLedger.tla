------------------------------ MODULE MCLedger ------------------------------
(***************************************************************************)
(* A small ledger for TLC: the plan of one case (a writer, the reviewer of  *)
(* its draft, the revision that needs both).                               *)
(***************************************************************************)
EXTENDS Ledger

CONSTANTS w1, w2, w3

ChainWork == {w1, w2, w3}
ChainPlan == <<w1, w2, w3>>
ChainDeps == [w \in ChainWork |->
    CASE w = w1 -> {} [] w = w2 -> {w1} [] w = w3 -> {w1, w2}]
=============================================================================
