---------------------------- MODULE JudgeVerdicts ----------------------------
(***************************************************************************)
(* What a judge's reply becomes: _verdicts and _scores of                    *)
(* src/draftbench/judge/generative.py, which take a list of rows with a      *)
(* quotation each, and those of jev.py, which take one answer per question   *)
(* with a distribution.  A refused reply is a recorded failure; an accepted  *)
(* one is what report.py indexes by criterion, without a further check.      *)
(*                                                                         *)
(* A row says where its quotation occurs after white space is normalised:    *)
(* `found' is the set of texts that contain it, empty for an empty one.      *)
(* Probabilities and confidences are in hundredths.                          *)
(***************************************************************************)
EXTENDS Integers, FiniteSets, Functions, Sequences, SequencesExt

CONSTANTS
    Criteria,    \* the criterion ids of the panel
    Levels,      \* the score levels
    RowLists,    \* replies of generative judges: sequences of rows
    AnswerMaps,  \* replies of jev: functions from question ids to answers
    Refused      \* the value standing for a refused reply

(* A row is [criterion, value, found, typed]; value is a choice in a         *)
(* comparison and a level in a score; typed says that evidence and reason    *)
(* are strings.  An answer is [type, value, probabilities, confidence];      *)
(* a score between two levels is one of them.                                *)
VARIABLES
    mode,    \* "pairwise" or "pointwise"
    judge,   \* "generative" or "jev"
    reply

vars == <<mode, judge, reply>>

Values == IF mode = "pairwise" THEN {"a", "b", "tie"} ELSE Levels
NoValue == IF mode = "pairwise" THEN "unknown" ELSE "none"

-----------------------------------------------------------------------------
(* generative._verdicts and _scores: the rows one by one into a dictionary.  *)
WellFormed(row, verdicts) ==
    /\ row.criterion \in Criteria /\ row.criterion \notin DOMAIN verdicts
    /\ row.value \in Values
    /\ row.typed

(* The value counts only if the quotation was found. *)
Verdict(row) == [value |-> IF row.found # {} THEN row.value ELSE NoValue,
                 evidence_in |-> row.found]

Enter(verdicts, row) ==
    IF verdicts = Refused \/ ~WellFormed(row, verdicts) THEN Refused
    ELSE [c \in DOMAIN verdicts \cup {row.criterion} |->
             IF c = row.criterion THEN Verdict(row) ELSE verdicts[c]]

Generative(rows) ==
    LET entered[n \in 0..Len(rows)] ==
            IF n = 0 THEN <<>> ELSE Enter(entered[n - 1], rows[n])
        verdicts == entered[Len(rows)]
    IN  IF verdicts = Refused \/ DOMAIN verdicts # Criteria THEN Refused ELSE verdicts

(* jev._verdicts and _scores.  The sum may miss 1 by 0.05; at exactly that    *)
(* distance the rounding of the floats decides, and no reply here has it.    *)
Mass(probabilities) == SumFunction(probabilities)

Distribution(answer) ==
    /\ DOMAIN answer.probabilities = Values
    /\ \A v \in Values : answer.probabilities[v] \in 0..100
    /\ Mass(answer.probabilities) - 100 \in -5..5

Acceptable(answer) ==
    /\ answer.type = (IF mode = "pairwise" THEN "choice" ELSE "score")
    /\ answer.value \in Values
    /\ Distribution(answer)
    /\ answer.confidence \in 0..100

(* Mutant: an answer without its question is passed over. *)
Jev_loose(answers) ==
    IF (\A c \in DOMAIN answers : Acceptable(answers[c]))
    THEN [c \in DOMAIN answers |-> [value |-> answers[c].value, evidence_in |-> {}]]
    ELSE Refused

Jev(answers) ==
    IF DOMAIN answers = Criteria /\ \A c \in Criteria : Acceptable(answers[c])
    THEN [c \in Criteria |-> [value |-> answers[c].value, evidence_in |-> {}]]
    ELSE Refused

Accepted == IF judge = "jev" THEN Jev(reply) ELSE Generative(reply)

-----------------------------------------------------------------------------
Init ==
    /\ mode \in {"pairwise", "pointwise"}
    /\ \/ judge = "generative" /\ reply \in RowLists
       \/ judge = "jev" /\ reply \in AnswerMaps

(* Parsing changes nothing. *)
Next == UNCHANGED vars

Spec == Init /\ [][Next]_vars

-----------------------------------------------------------------------------
(* Whatever is recorded as a success can be indexed by the report: it has a   *)
(* value for every criterion of the panel and no other, and the value is one  *)
(* of the counted choices or levels, or unknown.                              *)
ReportCanIndex ==
    Accepted # Refused =>
        /\ DOMAIN Accepted = Criteria
        /\ \A c \in Criteria : Accepted[c].value \in Values \cup {NoValue}

(* A reply of rows is accepted exactly if it answers every criterion once,    *)
(* and well; no row is ever dropped, overwritten or completed.               *)
AcceptedIffComplete ==
    judge = "generative" =>
        (Accepted # Refused <=>
            /\ Len(reply) = Cardinality(Criteria)
            /\ {row.criterion : row \in ToSet(reply)} = Criteria
            /\ \A row \in ToSet(reply) : row.typed /\ row.value \in Values)

(* JUDGE_CONTRACT.md: a quotation found in neither draft turns the verdict    *)
(* into unknown, which is never scored; one that is found changes nothing.    *)
(* The order of the rows does not matter.                                    *)
ScoredOnlyWithEvidence ==
    judge = "generative" /\ Accepted # Refused =>
        /\ Generative(Reverse(reply)) = Accepted
        /\ \A row \in ToSet(reply) :
              Accepted[row.criterion].value =
                  IF row.found = {} THEN NoValue ELSE row.value

=============================================================================
