------------------------------ MODULE MCJudgeRun ------------------------------
(***************************************************************************)
(* Two processes and two judges, one of either kind.  One caller asks for    *)
(* everything, one for both judges with a limit that is met in the middle,   *)
(* and one for pointwise scores of the second judge.                         *)
(***************************************************************************)
EXTENDS JudgeRun, TLC

SmallKind == [jev |-> "typesafe", oa |-> "generative"]

SmallCalls ==
    {[work |-> <<"x-y", "y-x">>, judges |-> <<"jev", "oa">>, max |-> None],
     [work |-> <<"x-y", "y-x">>, judges |-> <<"jev", "oa">>, max |-> 2],
     [work |-> <<"pw:x:1">>, judges |-> <<"oa">>, max |-> 1]}

Symmetry == Permutations(Processes)
=============================================================================
