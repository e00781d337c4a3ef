---------------------------- MODULE DecisionScores ----------------------------
(***************************************************************************)
(* Every bundle of up to MaxCases cases, in cohorts: scoring/decisions.py    *)
(* and score_bundle of scoring/reporting.py.                                  *)
(***************************************************************************)
EXTENDS Scoring

CONSTANTS
    Reviewers,
    Reviews,      \* what a review may be
    References,   \* what a reference may be
    Checklists,   \* the sets of checks that a rubric may require
    Nonempty,     \* whether an artifact may have text or not: a subset of BOOLEAN
    MaxCases

VARIABLE bundle

CaseSet == [reviewer : Reviewers, review : Reviews \cup {None}, reference : References,
            nonempty : Nonempty, required : Checklists]

Init == bundle \in UNION {[1..n -> CaseSet] : n \in 1..MaxCases}

Next == UNCHANGED bundle

Spec == Init /\ [][Next]_bundle

-----------------------------------------------------------------------------
Rates(score) == {score.false_pass_rate, score.false_block_rate, score.accepted_set_risk}

(* Three counts of the same cases agree and no rate can raise: every raw      *)
(* pass is either an effective pass or counted as invalid, and never turned   *)
(* into another decision.                                                     *)
CountsAgree ==
    \A cohort \in Cohorts(bundle) :
        LET score == ScoreDecisions(cohort) IN
        /\ score.decisions["pass"] = score.raw["pass"] - score.invalid_passes
        /\ score.decisions["pass"] = score.passed_known + score.passed_unknown
        /\ score.decisions["measurement_error"] >= score.raw["error"] + score.raw["missing"]
        /\ \A rate \in Rates(score) : rate.state # "raises"

(* A pass is a review that answers every required check with pass, has no     *)
(* major or critical defect and quotes nothing that is not there.             *)
PassIsEarned ==
    \A i \in DOMAIN bundle :
        LET review == bundle[i].review IN
        Effective(bundle[i]) = "pass" =>
            /\ review.decision = "pass"
            /\ \A id \in bundle[i].required : id \in DOMAIN review.checks /\ review.checks[id] = "pass"
            /\ \A j \in DOMAIN review.findings :
                  review.findings[j].anchored /\ ~Material(review.findings[j])

(* An assessed rate is about one authority: no case of its cohort has a       *)
(* reference of another kind, or of none.                                     *)
RatesOfOneAuthority ==
    \A cohort \in Cohorts(bundle) : \A rate \in Rates(ScoreDecisions(cohort)) :
        rate.state = "known" =>
            \A i \in DOMAIN cohort :
                /\ ReferenceScope(cohort[i].reference) # "unassessed"
                /\ ReferenceScope(cohort[i].reference) = ReferenceScope(cohort[1].reference)

(* The denominators of the false-pass and the false-block rate include every  *)
(* labelled case: a reviewer who abstains or errs on one, instead of deciding *)
(* it, does not change them.                                                  *)
AbstentionIsNoEscape ==
    \A cohort \in Cohorts(bundle) : \A i \in DOMAIN cohort : \A review \in Reviews :
        cohort[i].review # None =>
            LET other == ScoreDecisions([cohort EXCEPT ![i].review = review])
                score == ScoreDecisions(cohort)
            IN  /\ other.false_pass_rate.denominator = score.false_pass_rate.denominator
                /\ other.false_block_rate.denominator = score.false_block_rate.denominator
=============================================================================
