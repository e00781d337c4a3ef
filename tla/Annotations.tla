---------------------------- MODULE Annotations ----------------------------
(***************************************************************************)
(* Annotation records from their import to a released report: the store    *)
(* that holds them, the session that decides what may go into it, and the   *)
(* reports and releases that use them.  A behaviour is about one of them,   *)
(* its subject; the store rests meanwhile and what the others look at is    *)
(* None.  Reports and releases are one module: either several commands at   *)
(* once over annotations that arrive, or one operator, who runs one command *)
(* after another, without annotations, and also removes and rebuilds a      *)
(* report under a signed approval.                                          *)
(***************************************************************************)
EXTENDS AnnotationStore

CONSTANTS
    Tasks, CaseOf, RaterOf, OriginalBatches, AdjudicationBatches,   \* AnnotationSession
    Work, Role, Parents, Rights, SuiteRights, Originals, Adjudications,
    Selections, Removable, MaxCommands, MaxApprovals,               \* Reports
    MaxAtOnce       \* bound: commands in a behaviour about reports

VARIABLES
    subject,                                                \* the part
    files, answers,                                         \* AnnotationSession
    run, known, dir, command, approvals, commands           \* Reports

sessionVars == <<files, answers>>
reportVars == <<run, known, dir, command, approvals, commands>>
allVars == <<vars, subject, sessionVars, reportVars>>

Session == INSTANCE AnnotationSession WITH records <- answers

Reporting == INSTANCE Reports WITH records <- known

ASSUME AnswersAssumption ==
    \A batch \in OriginalBatches \cup AdjudicationBatches : batch \in Seq(Session!Answers)

ASSUME ReportsAssumption ==
    /\ IsFiniteSet(Work)
    /\ None \notin Reporting!Directories
    /\ Removable \subseteq Reporting!Dirs
    /\ Selections \subseteq [panels : SUBSET Reporting!Roles, evidence : SUBSET Work]

-----------------------------------------------------------------------------
NoSession == files = None /\ answers = None
NoReports ==
    run = None /\ known = None /\ dir = None /\ command = None /\ approvals = None /\ commands = None

AnnotationsInit ==
    /\ Init
    /\ \/ subject = "store" /\ NoSession /\ NoReports
       \/ subject = "session" /\ Session!Init /\ NoReports
       \/ subject \in {"reports", "release"} /\ Reporting!Init /\ NoSession

(* Which behaviours of Reports are looked at. *)
ManyCommands == commands' <= MaxAtOnce /\ (dir["report"] # None => dir'["report"] # None)

OneOperator ==
    /\ known' = {}
    /\ \A p, q \in Processes :
           command'[p] # Reporting!Idle /\ command'[q] # Reporting!Idle => p = q

AnnotationsNext ==
    \/ subject = "store" /\ Next /\ UNCHANGED <<subject, sessionVars, reportVars>>
    \/ subject = "session" /\ Session!Next /\ UNCHANGED <<vars, subject, reportVars>>
    \/ /\ subject \in {"reports", "release"} /\ Reporting!Next
       /\ IF subject = "reports" THEN ManyCommands ELSE OneOperator
       /\ UNCHANGED <<vars, subject, sessionVars>>

AnnotationsSpec == AnnotationsInit /\ [][AnnotationsNext]_allVars

-----------------------------------------------------------------------------
(* A session that opens is whole, and what its status says of a dispute is    *)
(* what the order of the records and the reports say of it: an adjudication   *)
(* has seen every original before it, and counts until the next one arrives.  *)
SessionIsSound ==
    subject = "session" =>
        /\ Session!OpensWhole /\ Session!BasedOnEarlier
        /\ Session!ResolvedUntilNextOriginal /\ Session!ResolvedIsSelectable
        /\ Session!NoReferenceFromAbstention

(* A report shows one run with the scores of that run, uses no adjudication   *)
(* that is stale, counts nothing that is not completed, and is there as its   *)
(* command reported it.                                                      *)
ReportsAreCurrent ==
    subject = "reports" =>
        /\ Reporting!ScoredOnItsRun /\ Reporting!AdjudicationIsCurrent
        /\ Reporting!DoneIsWhole /\ Reporting!NothingPromoted

(* A release was approved under this projection of this very report, and      *)
(* shows no evidence that may not leave.                                     *)
ReleasesAreApproved ==
    subject = "release" => Reporting!ReleasedAsApproved /\ Reporting!ReleasedEvidenceIsFree

=============================================================================
