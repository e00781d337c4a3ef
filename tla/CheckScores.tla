----------------------------- MODULE CheckScores -----------------------------
(***************************************************************************)
(* A case under every rubric, over supplied and missing sources:              *)
(* scoring/deterministic.py.                                                  *)
(***************************************************************************)
EXTENDS Scoring

CONSTANTS
    Rubrics,     \* the possible rubrics, sequences of checks
    Sources      \* the ids of sources

VARIABLE case

Supplies ==
    {s \in [sources : SUBSET Sources, sources_state : {"complete", "partial", "unavailable"}] :
        s.sources_state = "unavailable" => s.sources = {}}

Init ==
    \E checks \in Rubrics, supply \in Supplies, nonempty \in BOOLEAN :
        case = [checks |-> checks, sources |-> supply.sources,
                sources_state |-> supply.sources_state, nonempty |-> nonempty]

Next == UNCHANGED case

Spec == Init /\ [][Next]_case

-----------------------------------------------------------------------------
(* Two rules say which checks are left out of the verdict, one of the check   *)
(* and one of its evaluation: a required check is never inapplicable, or a    *)
(* case with authorized fiction could never pass.                             *)
RequiredIsDecided ==
    \A i \in Required(case) : Evaluate(case.checks[i], case) # "inapplicable"

(* Optional results never gate: without its optional checks a case has the    *)
(* same outcome.                                                              *)
OptionalNeverGates ==
    LET required == {case.checks[i] : i \in
                        {j \in DOMAIN case.checks : case.checks[j].applicability = "required"}}
    IN  Outcome([case EXCEPT !.checks = Only(@, required)]) = Outcome(case)

(* A pass rests on evidence that is there: of a required fact, an asserted    *)
(* value and its source's value that are equal, each found in its quote and   *)
(* each quote found in its text.                                              *)
PassRestsOnEvidence ==
    Outcome(case) = "pass" =>
        /\ case.nonempty
        /\ \A i \in Required(case) :
              LET check == case.checks[i] IN
              /\ check.kind \in {"fact", "citation"} =>
                    check.observed /\ check.relevance = "relevant" /\ check.source \in case.sources
              /\ check.kind = "fact" =>
                    /\ check.asserted /\ check.anchored /\ check.expected = "same"
                    /\ check.reference # None
                    /\ check.reference.item = check.source
                    /\ check.reference.matches /\ check.reference.anchors

(* A source that may exist but was not supplied neither proves nor refutes:   *)
(* what passes with all sources is unknown, and not failed or invalid, when   *)
(* they are withheld from a supply that does not claim to be complete.        *)
AbsenceIsUnknown ==
    case.sources_state = "partial" =>
        \A i \in DOMAIN case.checks :
            LET check == case.checks[i] IN
            check.kind \in {"fact", "citation"} /\ Evaluate(check, case) = "pass" =>
                Evaluate(check, [case EXCEPT !.sources = {}]) = "unknown"
=============================================================================
