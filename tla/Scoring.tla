------------------------------- MODULE Scoring -------------------------------
(***************************************************************************)
(* Offline scoring: src/draftbench/scoring.  Pure functions of a case, which *)
(* has an artifact, a rubric, the sources that are supplied, a reference, a  *)
(* review and an alignment of the review's findings with the reference.      *)
(*                                                                         *)
(* Texts are not modelled: a span carries whether it matches the text that   *)
(* it points to, a literal whether it is found.  A digest or key is the      *)
(* value it is computed from.                                                *)
(***************************************************************************)
EXTENDS Integers, Sequences, FiniteSets, Filters

CONSTANT None

-----------------------------------------------------------------------------
(* Authority and rates (models.py) *)

(* reference_scope, of a reference and of an alignment. *)
ReferenceScope(reference) ==
    IF reference.producer = "none" \/ reference.independence = "unknown" THEN "unassessed"
    ELSE IF reference.producer = "synthetic" THEN "synthetic_reference"
    ELSE IF reference.independence = "same_system" THEN "self_agreement"
    ELSE reference.producer

(* rate: it raises unless 0 <= numerator <= denominator. *)
Rate(numerator, denominator, assessed) ==
    [numerator |-> numerator, denominator |-> denominator,
     state |-> IF numerator < 0 \/ numerator > denominator THEN "raises"
               ELSE IF ~assessed THEN "unassessed"
               ELSE IF denominator = 0 THEN "undefined"
               ELSE "known"]

-----------------------------------------------------------------------------
(* Decisions (decisions.py).  A review is None or                            *)
(* [decision, checks: what it says of each check it answers, findings].      *)

Material(finding) == finding.kind = "defect" /\ finding.severity \in {"major", "critical"}

(* assess_decision. *)
Effective(case) ==
    LET review == case.review
        Answer(id) == IF id \in DOMAIN review.checks THEN review.checks[id] ELSE "missing"
    IN
    IF \/ review = None
       \/ review.decision = "error" \/ ~case.nonempty
       \/ \E id \in DOMAIN review.checks : review.checks[id] = "invalid"
       \/ \E i \in DOMAIN review.findings : ~review.findings[i].anchored
    THEN "measurement_error"
    ELSE IF review.decision = "abstain" THEN "abstain"
    ELSE IF \/ case.required = {}
            \/ \E id \in case.required : Answer(id) \notin {"pass", "fail"}
            \/ /\ review.decision = "pass"
               /\ \/ \E id \in case.required : Answer(id) = "fail"
                  \/ \E i \in DOMAIN review.findings : Material(review.findings[i])
    THEN "measurement_error"
    ELSE review.decision

Decisions == {"pass", "edit", "block", "abstain", "measurement_error"}
RawDecisions == {"pass", "edit", "block", "abstain", "error", "missing"}
Labels == {"acceptable", "unacceptable", "unknown"}

Raw(case) == IF case.review = None THEN "missing" ELSE case.review.decision

(* Mutant: a label counts only if the reviewer came to a decision. *)
Gold_decided(case) ==
    IF ReferenceScope(case.reference) = "unassessed" \/ Effective(case) \notin {"pass", "edit", "block"}
    THEN "unknown" ELSE case.reference.acceptability

Gold(case) ==
    IF ReferenceScope(case.reference) = "unassessed" THEN "unknown"
    ELSE case.reference.acceptability

(* The places of the cases of one cohort, a sequence, by what became of them. *)
Decided(cases, decisions) == {i \in DOMAIN cases : Effective(cases[i]) \in decisions}
Said(cases, decisions) == {i \in DOMAIN cases : Raw(cases[i]) \in decisions}
Labelled(cases, labels) == {i \in DOMAIN cases : Gold(cases[i]) \in labels}

(* score_decisions. *)
ScoreDecisions(cases) ==
    LET gold == [label \in Labels |-> Cardinality(Labelled(cases, {label}))]
        passes == Decided(cases, {"pass"})
        falsePasses == Cardinality(passes \cap Labelled(cases, {"unacceptable"}))
        falseBlocks == Cardinality(Decided(cases, {"edit", "block"}) \cap Labelled(cases, {"acceptable"}))
        passedUnknown == Cardinality(passes \cap Labelled(cases, {"unknown"}))
        passedKnown == Cardinality(passes \ Labelled(cases, {"unknown"}))
        assessed == cases = <<>> \/ ReferenceScope(cases[1].reference) # "unassessed"
    IN  [count |-> Len(cases), gold |-> gold,
         decisions |-> [d \in Decisions |-> Cardinality(Decided(cases, {d}))],
         raw |-> [d \in RawDecisions |-> Cardinality(Said(cases, {d}))],
         passed_known |-> passedKnown, passed_unknown |-> passedUnknown,
         invalid_passes |-> Cardinality(Said(cases, {"pass"}) \cap Decided(cases, {"measurement_error"})),
         false_pass_rate |-> Rate(falsePasses, gold["unacceptable"], assessed),
         false_block_rate |-> Rate(falseBlocks, gold["acceptable"], assessed),
         accepted_set_risk |-> Rate(falsePasses, passedKnown, assessed)]

(* cohort_key: one rubric is supplied here. *)
CohortKey(case) ==
    [reviewer |-> IF case.review = None THEN None ELSE case.reviewer,
     scope |-> ReferenceScope(case.reference), producer |-> case.reference.producer]

(* score_bundle: the cases of each cohort in their order, scored apart.  The  *)
(* order of the cohorts is left out.                                         *)
Cohorts(cases) ==
    {Only(cases, {cases[i] : i \in {j \in DOMAIN cases : CohortKey(cases[j]) = key}}) :
        key \in {CohortKey(cases[i]) : i \in DOMAIN cases}}

-----------------------------------------------------------------------------
(* Findings (findings.py).  The findings of a review are a sequence of       *)
(* [id, kind, category, severity, anchored], the defects of a reference a    *)
(* set of the same, and judgments[id] is [state, defect] or None.            *)

Defective(findings) == {findings[i] : i \in {j \in DOMAIN findings : findings[j].kind = "defect"}}

Predicted(case) ==
    IF case.review = None THEN <<>>
    ELSE Only(case.review.findings, Defective(case.review.findings))

Judgment(case, id) ==
    IF case.alignment = None \/ id \notin DOMAIN case.alignment.judgments
    THEN [state |-> "none", defect |-> None] ELSE case.alignment.judgments[id]

Defect(case, id) == CHOOSE defect \in case.reference.defects : defect.id = id

AlignmentScope(case) ==
    IF case.alignment = None THEN "unassessed" ELSE ReferenceScope(case.alignment)

Coverage(case) ==
    IF case.review = None \/ case.review.decision = "error" THEN "unavailable"
    ELSE IF Effective(case) \in {"pass", "edit", "block"} THEN "complete"
    ELSE "incomplete"

(* Mutant: only the claims that were made before are counted. *)
Claims_before(case, defect, row) ==
    LET rows == Predicted(case) IN
    Cardinality({i \in DOMAIN rows :
        /\ \A j \in DOMAIN rows : rows[j] = row => i <= j
        /\ Judgment(case, rows[i].id) = [state |-> "matched", defect |-> defect]})

(* How many predictions, whatever their place, claim the same defect as row. *)
Claims(case, defect, row) ==
    LET rows == Predicted(case) IN
    Cardinality({i \in DOMAIN rows :
        Judgment(case, rows[i].id) = [state |-> "matched", defect |-> defect]})

(* All matched categories agree, whatever becomes of the match. *)
Agrees(case, row) ==
    LET judgment == Judgment(case, row.id) IN
    judgment.state = "matched" => row.category = Defect(case, judgment.defect).category

(* The state of a row, which depends on no other but for the claims. *)
RowState(case, row) ==
    LET judgment == Judgment(case, row.id) IN
    IF \/ judgment.state = "ambiguous"
       \/ judgment.state = "matched" /\ Claims(case, judgment.defect, row) > 1
    THEN "ambiguous"
    ELSE IF /\ judgment.state \in {"matched", "spurious"}
            /\ AlignmentScope(case) # "unassessed" /\ row.anchored
            /\ judgment.state = "matched" =>
                   Agrees(case, row) /\ Defect(case, judgment.defect).anchored
    THEN judgment.state
    ELSE "unassessed"

(* The loop over the predictions: no round needs what another has left. *)
Resolved(case, rows) == [i \in DOMAIN rows |-> RowState(case, rows[i])]

(* What the rates of a case need to be assessed. *)
Assessed(case, valid, pending) ==
    /\ valid /\ Coverage(case) # "unavailable" /\ ~pending
    /\ case.reference.inventory # "unavailable"
    /\ ReferenceScope(case.reference) # "unassessed"
    /\ ReferenceScope(case.reference) = AlignmentScope(case)

ScoredRows(case) == Predicted(case)

RecallAssessed(case, assessed) ==
    assessed /\ case.reference.inventory = "complete" /\ Coverage(case) = "complete"

(* score_findings. *)
ScoreFindings(case) ==
    LET rows == ScoredRows(case)
        defects == case.reference.defects
        states == Resolved(case, rows)
        In(some) == {i \in DOMAIN rows : states[i] \in some}
        matched == {Judgment(case, rows[i].id).defect : i \in In({"matched"})}
        valid == /\ \A defect \in defects : defect.anchored
                 /\ case.review # None =>
                        \A i \in DOMAIN case.review.findings : case.review.findings[i].anchored
                 /\ \A i \in DOMAIN rows : Agrees(case, rows[i])
        pending == {rows[i].id : i \in In({"unassessed", "ambiguous"})}
        critical == {defect.id : defect \in {d \in defects : d.severity = "critical"}}
        assessed == Assessed(case, valid, pending # {})
        recall == RecallAssessed(case, assessed)
    IN  [valid |-> valid, predictions |-> Len(rows), defects |-> Cardinality(defects),
         matched |-> Cardinality(matched), spurious |-> Cardinality(In({"spurious"})),
         unassessed |-> Cardinality(In({"unassessed"})),
         ambiguous |-> Cardinality(In({"ambiguous"})),
         pending |-> pending,
         unmatched |-> {defect.id : defect \in defects} \ matched,
         critical_missed |-> IF recall THEN Cardinality(critical \ matched) ELSE None,
         precision |-> Rate(Cardinality(matched), Len(rows), assessed),
         recall |-> Rate(Cardinality(matched), Cardinality(defects), recall),
         critical_recall |-> Rate(Cardinality(critical \cap matched),
                                  Cardinality(critical), recall)]

-----------------------------------------------------------------------------
(* Checks (deterministic.py).  A case has checks, a sequence of records with *)
(* kind and applicability, the ids of the sources that are supplied, and     *)
(* their state.  A result is "pass", "fail", "unknown", "inapplicable" or      *)
(* "invalid"; reasons are left out.                                          *)

(* _constraint: of a unit that is not there, a length or a literal is        *)
(* invalid; holds says whether the condition holds of the text.              *)
Constraint(check) ==
    IF check.kind = "nonempty" THEN "pass"
    ELSE IF ~check.unit THEN "invalid"
    ELSE IF check.holds THEN "pass"
    ELSE "fail"

(* _missing_source: only a complete supply makes the absence a failure. *)
MissingSource(case) == IF case.sources_state = "complete" THEN "fail" ELSE "unknown"

Citation(check, case) ==
    IF ~check.observed THEN "invalid"
    ELSE IF check.relevance = "irrelevant" THEN "fail"
    ELSE IF check.source \notin case.sources THEN MissingSource(case)
    ELSE IF check.relevance = "unknown" THEN "unknown"
    ELSE "pass"

(* Mutant: the span in the source is not looked at. *)
ReferenceError_loose(check, case) ==
    check.reference # None /\ check.source # None /\ check.reference.item # check.source

(* _fact_reference_error: a source that is not supplied cannot refute a span. *)
ReferenceError(check, case) ==
    LET reference == check.reference IN
    /\ reference # None
    /\ \/ check.source # None /\ reference.item # check.source
       \/ reference.item \in case.sources /\ (~reference.matches \/ ~reference.anchors)

(* _fact. *)
Fact(check, case) ==
    IF ~check.observed \/ ~check.anchored THEN "invalid"
    ELSE IF ReferenceError(check, case) THEN "invalid"
    ELSE IF ~check.asserted THEN "fail"
    ELSE IF check.relevance = "irrelevant" THEN "fail"
    ELSE IF check.source = None THEN "unknown"
    ELSE IF check.source \notin case.sources THEN MissingSource(case)
    ELSE IF check.reference = None \/ check.expected = "missing" THEN "unknown"
    ELSE IF check.relevance = "unknown" THEN "unknown"
    ELSE IF check.expected = "other" THEN "fail"
    ELSE "pass"

Authorized(check) == check.kind = "fact" /\ ~check.asserted /\ check.authorized

(* _evaluate. *)
Evaluate(check, case) ==
    IF check.applicability = "inapplicable" \/ Authorized(check) THEN "inapplicable"
    ELSE IF ~case.nonempty THEN "invalid"
    ELSE IF check.kind = "citation" THEN Citation(check, case)
    ELSE IF check.kind = "fact" THEN Fact(check, case)
    ELSE Constraint(check)

(* required_check_ids, by place. *)
Required(case) ==
    {i \in DOMAIN case.checks :
        case.checks[i].applicability = "required" /\ ~Authorized(case.checks[i])}

Gating(case) == Required(case)

(* score_deterministic. *)
Outcome(case) ==
    LET states == {Evaluate(case.checks[i], case) : i \in Gating(case)} IN
    IF ~case.nonempty \/ "invalid" \in states THEN "invalid"
    ELSE IF "fail" \in states THEN "fail"
    ELSE IF states # {"pass"} THEN "unassessed"
    ELSE "pass"

=============================================================================
