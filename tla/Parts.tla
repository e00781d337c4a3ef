-------------------------------- MODULE Parts --------------------------------
(***************************************************************************)
(* The parts that stand by themselves: the artifact store, and the pure      *)
(* algorithms against their references over the inputs that the constants    *)
(* give: the judgement of a plan, the scores of findings, decisions and      *)
(* checks, the reading of a judge's reply, the report on a panel, and the     *)
(* admission of attempts under a policy.  A behaviour is about one of them,  *)
(* its subject; the store rests meanwhile and what the others look at is     *)
(* None.                                                                     *)
(***************************************************************************)
EXTENDS ArtifactStore, Integers, Sequences

CONSTANTS
    Ids, MaxRows,                                                  \* PlanValidation
    Findings, Defects, Producers, Conclusions, Markings, MaxFindings, \* FindingScores
    Reviewers, Reviews, References, Checklists, Nonempty, MaxCases,\* DecisionScores
    Checks,                                                        \* what rubrics consist of
    Rubrics, Sources,                                              \* CheckScores
    ReplyRows,                                                          \* what replies consist of
    Criteria, Levels, RowLists, AnswerMaps, Refused,               \* JudgeVerdicts
    Candidates, Kind, FamilyOf, Castings, Recorded, OtherCases, Scored, Strengths,
                                                                   \* JudgeReport
    Policies, Usages, Fraction, Million, ShortContext, Base, MaxAttempts  \* TokenBudget

(* The bound on the rows is a number. *)
ASSUME PlansAssumption == MaxRows \in Nat

(* A reference has finitely many defects, all with ids; a producer is of one  *)
(* of four kinds, or there is none; and no review is none.                   *)
ASSUME FindingsAssumption ==
    /\ MaxFindings \in Nat
    /\ IsFiniteSet(Defects)
    /\ \A defect \in Defects : defect.id # None
    /\ Producers \subseteq {"none", "human", "model", "workflow", "synthetic"}
    /\ None \notin [decision : Conclusions, checks : Markings, findings : Seq(Findings)]

(* A review comes to one of five decisions; the cases of a bundle are bounded. *)
ASSUME ReviewsAssumption ==
    /\ MaxCases \in Nat
    /\ \A review \in Reviews : review.decision \in {"pass", "edit", "block", "abstain", "error"}

(* A rubric has any number of checks, of which those of facts and citations   *)
(* say how relevant their source is, and those of facts what it says.         *)
ASSUME ChecksAssumption ==
    /\ Rubrics \subseteq Seq(Checks)
    /\ \A check \in Checks :
          /\ check.kind \in {"fact", "citation"} =>
                 check.relevance \in {"relevant", "irrelevant", "unknown"}
          /\ check.kind = "fact" => check.expected \in {"same", "other", "missing"}

(* A reply is a list of rows, each found in some of the two texts, about the   *)
(* finitely many criteria of a panel; a refused one is no dictionary.         *)
ASSUME RepliesAssumption ==
    /\ IsFiniteSet(Criteria)
    /\ RowLists \subseteq Seq(ReplyRows)
    /\ \A row \in ReplyRows : row.found \in SUBSET {"a", "b"}
    /\ \A answered \in SUBSET Criteria :
          Refused \notin [answered ->
              [value : Levels \cup {"a", "b", "tie", "unknown", "none"},
               evidence_in : SUBSET {"a", "b"}]]

VARIABLES
    subject,                               \* the part
    plan, verdict, degree, ready, seen,    \* PlanValidation
    input,                                 \* a case or a bundle of cases: the scores
    mode, judge, reply,                    \* JudgeVerdicts
    names, records, other, scores, strength, \* JudgeReport
    runPolicy, runCount, runUsed, runSettled, runBilled, runBooked, runLast  \* TokenBudget

planVars == <<plan, verdict, degree, ready, seen>>
judgeVars == <<mode, judge, reply>>
reportVars == <<names, records, other, scores, strength>>
inputs == <<planVars, input, judgeVars, reportVars>>
budgetVars == <<runPolicy, runCount, runUsed, runSettled, runBilled, runBooked, runLast>>
partsVars == <<vars, subject, inputs, budgetVars>>

Plan == INSTANCE PlanValidation
FindingCase == INSTANCE FindingScores WITH case <- input
Cohort == INSTANCE DecisionScores WITH bundle <- input
Rubric == INSTANCE CheckScores WITH case <- input
Reply == INSTANCE JudgeVerdicts
Panel == INSTANCE JudgeReport
Budget == INSTANCE TokenBudget WITH
    policy <- runPolicy, count <- runCount, used <- runUsed, settled <- runSettled,
    billed <- runBilled, booked <- runBooked, last <- runLast

(* A panel has finitely many candidates, in the order of their ids, and       *)
(* finitely many judges, of which each says something of every presentation;  *)
(* no model is cast twice, as candidates are given by name; scores are 0 to 3. *)
Tables == [Panel!Presentations \X Panel!Judges -> Panel!Verdicts]
Custodies == {custody \in [Candidates -> DOMAIN FamilyOf] :
                 \A c, d \in Candidates : custody[c] = custody[d] => c = d}

ASSUME PanelsAssumption ==
    /\ IsFiniteSet(Candidates) /\ Candidates \subseteq Int
    /\ IsFiniteSet(DOMAIN Kind) /\ Castings \subseteq Custodies
    /\ Recorded # {} /\ Recorded \subseteq Tables
    /\ OtherCases # {} /\ OtherCases \subseteq [names : Custodies, records : Tables]
    /\ Scored \subseteq [Candidates -> Seq((0..3) \cup {None})] /\ None \notin 0..3
    /\ Strengths # {} /\ Strengths \subseteq [Candidates -> Int]

(* Decimal digits, of which money has eight behind the point; a policy and an  *)
(* answer are as their validation leaves them.                               *)
ASSUME PoliciesAssumption ==
    /\ Base \in Nat /\ Base >= 10 /\ Fraction \in Nat /\ Fraction >= 3
    /\ Million \in Nat /\ ShortContext \in Nat /\ MaxAttempts \in Nat
    /\ \A p \in Policies : Budget!PolicyShape(p)
    /\ Usages \subseteq [i : Nat, w : Nat, r : Nat, o : Nat]

-----------------------------------------------------------------------------
NoPlan == plan = None /\ verdict = None /\ degree = None /\ ready = None /\ seen = None
NoReply == mode = None /\ judge = None /\ reply = None
NoPanel == names = None /\ records = None /\ other = None /\ scores = None /\ strength = None

NoBudget ==
    /\ runPolicy = None /\ runCount = None /\ runUsed = None /\ runSettled = None
    /\ runBilled = None /\ runBooked = None /\ runLast = None

NoInput == NoPlan /\ input = None /\ NoReply /\ NoPanel

PartsInit ==
    /\ Init
    /\ \/ subject = "store" /\ NoInput /\ NoBudget
       \/ subject = "plan" /\ Plan!Init /\ input = None /\ NoReply /\ NoPanel /\ NoBudget
       \/ subject = "findings" /\ FindingCase!Init /\ NoPlan /\ NoReply /\ NoPanel /\ NoBudget
       \/ subject = "decisions" /\ Cohort!Init /\ NoPlan /\ NoReply /\ NoPanel /\ NoBudget
       \/ subject = "checks" /\ Rubric!Init /\ NoPlan /\ NoReply /\ NoPanel /\ NoBudget
       \/ subject = "replies" /\ Reply!Init /\ NoPlan /\ input = None /\ NoPanel /\ NoBudget
       \/ subject = "report" /\ Panel!Init /\ NoPlan /\ input = None /\ NoReply /\ NoBudget
       \/ subject = "policy" /\ Budget!Init /\ NoInput

PartsNext ==
    \/ subject = "store" /\ Next /\ UNCHANGED <<subject, inputs, budgetVars>>
    \/ /\ subject = "plan" /\ Plan!Next
       /\ UNCHANGED <<vars, subject, input, judgeVars, reportVars, budgetVars>>
    \/ subject = "policy" /\ Budget!Next /\ UNCHANGED <<vars, subject, inputs>>
    \/ subject \notin {"store", "plan", "policy"} /\ UNCHANGED partsVars

PartsSpec == PartsInit /\ [][PartsNext]_partsVars

-----------------------------------------------------------------------------
(* _validate_plan accepts a plan if and only if its ids are distinct, its     *)
(* dependencies known and its items can be done in some order.               *)
VerdictIsRight == subject = "plan" => Plan!VerdictIsRight

(* score_findings: no two findings take one defect, whatever their order,     *)
(* the counts add up and a suggestion neither helps nor harms; a rate is       *)
(* claimed only under one authority, and a miss only of a complete inventory   *)
(* and a complete review.                                                    *)
FindingsAreFair ==
    subject = "findings" =>
        /\ FindingCase!MatchingIsOneToOne /\ FindingCase!OrderFree /\ FindingCase!SuggestionsDoNotCount
        /\ FindingCase!OneAuthority /\ FindingCase!MissesAreMisses

(* score_decisions: a pass is earned by the review itself, the counts of one  *)
(* cohort agree, its rates have one authority, and a reviewer who abstains    *)
(* does not leave the denominator.                                           *)
DecisionsAreFair ==
    subject = "decisions" =>
        /\ Cohort!PassIsEarned /\ Cohort!CountsAgree
        /\ Cohort!RatesOfOneAuthority /\ Cohort!AbstentionIsNoEscape

(* evaluate_rubric: exactly the required checks gate, a pass rests on         *)
(* evidence that was supplied, and what was not supplied refutes nothing.     *)
ChecksNeedEvidence ==
    subject = "checks" =>
        /\ Rubric!RequiredIsDecided /\ Rubric!OptionalNeverGates
        /\ Rubric!PassRestsOnEvidence /\ Rubric!AbsenceIsUnknown

(* What the judges' adapters accept can be indexed by the report, answers     *)
(* every criterion once, and is scored only with a quotation that is there.   *)
RepliesAreWhole ==
    subject = "replies" =>
        Reply!ReportCanIndex /\ Reply!AcceptedIffComplete /\ Reply!ScoredOnlyWithEvidence

(* The consensus, over one panel or several, is what a count over the         *)
(* verdicts of judges outside both families gives.                           *)
ConsensusIsBlind ==
    subject = "report" => Panel!FamilyBlind /\ Panel!CombinedIsCount

(* The figures about a judge: counts that add up, position bias told from     *)
(* consistency, agreement over what both scored, and Spearman's correlation.  *)
JudgeFiguresRight ==
    subject = "report" =>
        /\ Panel!CountsAddUp /\ Panel!PositionsAreRight
        /\ Panel!AgreementOverScored /\ Panel!SpearmanIsCorrelation

(* Admission draws the line exactly where n attempts at the highest rates     *)
(* reach a cap, whatever the scales of the two rates: the attempt that fills   *)
(* it is admitted and the next is not (admit, with token_cost's precision).   *)
AdmissionExact == subject = "policy" => Budget!AdmissionExact

(* No sequence of answers from a provider that keeps to its window can bill   *)
(* more than was reserved, nor more than the cap of the policy; the tokens    *)
(* that the answers report stay within theirs; what the campaign adds up and  *)
(* what the report multiplies are the same; and while every answer has an     *)
(* estimate, the estimates cover the bill.                                  *)
CapsHold ==
    subject = "policy" =>
        Budget!BilledWithinCap /\ Budget!UsedWithinCap /\ Budget!BooksAgree /\ Budget!EstimatesCoverBill

=============================================================================
