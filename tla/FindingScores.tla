---------------------------- MODULE FindingScores ----------------------------
(***************************************************************************)
(* Cases of scoring/findings.py: a review with up to MaxFindings findings, a  *)
(* reference with any of the defects, and every alignment of the two.        *)
(***************************************************************************)
EXTENDS Scoring, SequencesExt

CONSTANTS
    Findings,     \* the possible findings of a review
    Defects,      \* the possible defects of a reference
    Producers,    \* who may have made a reference or an alignment
    Conclusions,  \* the decisions a review may have come to
    Markings,     \* what it may say of the checks that it answers
    Checklists,   \* the sets of checks that a rubric may require
    Nonempty,     \* whether an artifact may have text or not: a subset of BOOLEAN
    MaxFindings

VARIABLE case

JudgmentsOf(ids, defectIds) ==
    UNION {[some -> [state : {"spurious", "ambiguous", "unassessed"}, defect : {None}]
                        \cup [state : {"matched"}, defect : defectIds]] : some \in SUBSET ids}

ReviewSet ==
    [decision : Conclusions, checks : Markings,
     findings : {f \in UNION {[1..n -> Findings] : n \in 0..MaxFindings} :
                     \A i, j \in DOMAIN f : i < j => f[i].id # f[j].id}]

ReferenceSet ==
    [producer : Producers, independence : {"independent"},
     inventory : {"complete", "partial", "unavailable"}, defects : SUBSET Defects]

(* What Reference.provenance accepts. *)
Attributed(reference) ==
    /\ reference.producer = "none" => reference.inventory = "unavailable"
    /\ reference.inventory = "unavailable" => reference.defects = {}
    /\ \A d, e \in reference.defects : d.id = e.id => d = e

IdsOf(findings) == {findings[i].id : i \in DOMAIN findings}

Init ==
    \E review \in {None} \cup ReviewSet, reference \in {r \in ReferenceSet : Attributed(r)},
       p \in Producers, nonempty \in Nonempty, required \in Checklists :
        \E judgments \in JudgmentsOf(IF review = None THEN {} ELSE IdsOf(review.findings),
                                     {d.id : d \in reference.defects}) :
            /\ p = "none" => judgments = <<>>
            /\ case = [review |-> review, reference |-> reference, nonempty |-> nonempty,
                       required |-> required,
                       alignment |-> [producer |-> p, independence |-> "independent",
                                      judgments |-> judgments]]

Next == UNCHANGED case

Spec == Init /\ [][Next]_case

-----------------------------------------------------------------------------
Score == ScoreFindings(case)

(* Every prediction is in one state and no defect is matched twice, so that   *)
(* the counts add up and no rate can raise, which would lose the report of    *)
(* the whole bundle.                                                          *)
MatchingIsOneToOne ==
    LET score == Score IN
    /\ score.predictions = score.matched + score.spurious + score.unassessed + score.ambiguous
    /\ score.defects = score.matched + Cardinality(score.unmatched)
    /\ \A r \in {score.precision, score.recall, score.critical_recall} : r.state # "raises"

(* The order of the findings cannot select a winner when several claim the    *)
(* same defect.                                                               *)
OrderFree ==
    case.review # None => ScoreFindings([case EXCEPT !.review.findings = Reverse(@)]) = Score

(* Different authorities never yield assessed rates: when precision is        *)
(* assessed, reference and alignment have one authority, every span holds and *)
(* each prediction was judged, by itself, a match of one category or          *)
(* spurious.                                                                  *)
OneAuthority ==
    Score.precision.state # "unassessed" =>
        /\ case.reference.producer = case.alignment.producer
        /\ case.reference.producer # "none"
        /\ LET rows == Predicted(case) IN
           \A i \in DOMAIN rows :
              /\ rows[i].anchored
              /\ Judgment(case, rows[i].id).state \in {"matched", "spurious"}
              /\ \A j \in DOMAIN rows \ {i} :
                    Judgment(case, rows[i].id).state = "matched" =>
                        Judgment(case, rows[j].id) # Judgment(case, rows[i].id)

(* Suggestions neither consume defects nor enter precision: taking those with *)
(* a sound span out of the review changes nothing.                            *)
SuggestionsDoNotCount ==
    case.review # None =>
        ScoreFindings([case EXCEPT !.review.findings =
            Only(@, {f \in ToSet(@) : f.kind = "defect" \/ ~f.anchored})]) = Score

(* A miss is claimed only of a complete inventory and a complete review; then *)
(* it is a defect that nothing is judged to match.                            *)
MissesAreMisses ==
    LET score == Score IN
    /\ score.recall.state # "unassessed" \/ score.critical_missed # None =>
           /\ case.reference.inventory = "complete"
           /\ Effective(case) \in {"pass", "edit", "block"}
    /\ score.critical_missed # None =>
           score.critical_missed = Cardinality({d \in case.reference.defects :
               /\ d.severity = "critical"
               /\ \A id \in DOMAIN case.alignment.judgments :
                     \/ case.alignment.judgments[id].defect # d.id
                     \/ \A i \in DOMAIN Predicted(case) : Predicted(case)[i].id # id})
=============================================================================
