------------------------- MODULE AnnotationSession -------------------------
(***************************************************************************)
(* Blind annotation sessions: src/draftbench/annotation.py, its answer     *)
(* models, and the selection of records for a report, select_annotations of *)
(* reporting.py.  A session directory is created once; raters' answers are  *)
(* imported as originals and an adjudicator's as adjudications, each of     *)
(* them based on all the originals of its case.  Every call holds the lock  *)
(* of the directory from beginning to end, and append is one transaction    *)
(* (AnnotationStore), so a call is one step here.                           *)
(*                                                                         *)
(* An answer is reduced to what decides: the identities it repeats (`bound' *)
(* when they are those of its task), its decision, whether every required   *)
(* criterion has a verdict (`required'), its defect inventory, whether it   *)
(* lists defects, and the records it is based on.                           *)
(***************************************************************************)
EXTENDS Integers, Sequences, SequencesExt, FiniteSets, Filters

CONSTANTS
    Tasks,           \* the tasks of all packets, the domain of the next two
    CaseOf,          \* CaseOf[task]: the case behind the alias
    RaterOf,         \* RaterOf[task]: the rater whose packet holds the task
    OriginalBatches, \* the lists of answers that raters submit
    AdjudicationBatches,
    None

VARIABLES
    files,    \* the parts of the session directory
    records   \* the committed records, in order of arrival

vars == <<files, records>>

(* In the order in which create_annotation_session writes them.             *)
Parts == <<"objects", "packet", "template", "custody", "pointer", "store">>

Cases == {CaseOf[task] : task \in Tasks}

Records == ToSet(records)

-----------------------------------------------------------------------------
(* The fields of an answer that are looked at, and their types. *)
Answers ==
    [response_id : STRING, task : Tasks, bound : BOOLEAN, status : {"answered", "unanswered"},
     decision : {"acceptable", "unacceptable", "abstain", None}, required : BOOLEAN,
     inventory : {"complete", "partial", "unavailable"}, defects : BOOLEAN,
     based_on : SUBSET STRING]

(* The validators of Answer and AdjudicationAnswer. *)
ValidAnswer(answer) ==
    /\ answer.inventory = "unavailable" => ~answer.defects
    /\ IF answer.status = "unanswered"
       THEN answer.decision = None /\ answer.inventory = "unavailable" /\ ~answer.required
       ELSE answer.decision # None

ValidAdjudication(answer) ==
    /\ ValidAnswer(answer)
    /\ answer.based_on # {}
    /\ answer.status = "answered"

(* A batch is about one packet; no task and no response id occurs twice. *)
ValidBatch(batch) ==
    \A i, j \in DOMAIN batch :
        /\ RaterOf[batch[i].task] = RaterOf[batch[j].task]
        /\ \/ batch[i].task = batch[j].task
           \/ batch[i].response_id = batch[j].response_id
           => i = j

Complete(answer) ==
    /\ answer.decision # "abstain"
    /\ answer.required
    /\ answer.inventory = "complete"

(* _normalize: the record's body, which keeps the answer. *)
Normalize(answer) ==
    [case |-> CaseOf[answer.task],
     decision |-> answer.decision,
     complete |-> Complete(answer),
     inventory |-> answer.inventory,
     based_on |-> answer.based_on,
     original_response |-> answer]

RecordOf(kind, answer) ==
    [record_id |-> answer.response_id, kind |-> kind, task_id |-> answer.task,
     body |-> Normalize(answer)]

(* The ids of the originals of a case. *)
OriginalsFor(case) ==
    {record.record_id : record \in {r \in Records : r.kind = "original" /\ r.body.case = case}}

Known(id) == \E record \in Records : record.record_id = id

-----------------------------------------------------------------------------
Init ==
    /\ files = [part \in ToSet(Parts) |-> "absent"]
    /\ records = <<>>

Missing == {i \in DOMAIN Parts : files[Parts[i]] # "whole"}

Turn(i) == i \in Missing /\ \A j \in Missing : i <= j

(* create_annotation_session: each part is created exclusively and then     *)
(* written.  Its directory must be new, so after a death in between nobody  *)
(* goes on with it.                                                         *)
Create ==
    \E i \in DOMAIN Parts :
        /\ Turn(i)
        /\ files' = [files EXCEPT ![Parts[i]] = IF @ = "absent" THEN "torn" ELSE "whole"]
        /\ UNCHANGED records

(* What _session reads and compares before any call; a template is compared *)
(* as an object, its file is only there for the rater.                       *)
Opens == \A part \in ToSet(Parts) \ {"template"} : files[part] = "whole"

(* Each original an adjudication names is there and about its case.         *)
BasisKnown(answer) ==
    \A id \in answer.based_on :
        \E record \in Records :
            /\ record.record_id = id /\ record.kind = "original"
            /\ record.body.case = CaseOf[answer.task]

(* Mutant: some of the originals are enough. *)
BasisAccepted_partial(answer) == BasisKnown(answer)

(* A repetition of a recorded adjudication is left to append. *)
BasisAccepted(answer) ==
    /\ BasisKnown(answer)
    /\ Known(answer.response_id) \/ answer.based_on = OriginalsFor(CaseOf[answer.task])

Answered(batch) == Only(batch, {answer \in ToSet(batch) : answer.status = "answered"})

(* append: a known id must come with the same record. *)
NoConflict(pending) ==
    \A record \in ToSet(pending) : Known(record.record_id) => record \in Records

AppendNew(pending) ==
    records' = records \o Only(pending, {record \in ToSet(pending) : ~Known(record.record_id)})

(* import_annotation_responses, when it does not raise. *)
Import(kind, batch) ==
    LET answers == Answered(batch)
        pending == [i \in DOMAIN answers |-> RecordOf(kind, answers[i])]
    IN  /\ Opens /\ ValidBatch(batch)
        /\ \A answer \in ToSet(batch) :
              /\ answer.bound
              /\ IF kind = "adjudication"
                 THEN ValidAdjudication(answer) /\ BasisAccepted(answer)
                 ELSE ValidAnswer(answer)
        /\ NoConflict(pending)
        /\ AppendNew(pending)
        /\ UNCHANGED files

ImportOriginals == \E batch \in OriginalBatches : Import("original", batch)

ImportAdjudications == \E batch \in AdjudicationBatches : Import("adjudication", batch)

Next == Create \/ ImportOriginals \/ ImportAdjudications

Spec == Init /\ [][Next]_vars

-----------------------------------------------------------------------------
(* What annotation_status reports.                                          *)
DecisionsOf(case) ==
    {record.body.decision : record \in {r \in Records : r.kind = "original" /\ r.body.case = case}}

Disputes == {case \in Cases : {"acceptable", "unacceptable"} \subseteq DecisionsOf(case)}

Settles(record, case) ==
    /\ record.kind = "adjudication" /\ record.body.case = case
    /\ record.body.based_on = OriginalsFor(case)
    /\ record.body.complete

Resolved == {case \in Disputes : \E record \in Records : Settles(record, case)}

(* What select_annotations makes of a record that a reporter names.         *)
Selectable(record, case) ==
    /\ record.body.case = case
    /\ Normalize(record.body.original_response) = record.body
    /\ record.kind = "adjudication" => record.body.based_on = OriginalsFor(case)

Acceptability(record) ==
    CASE ~record.body.complete -> "unknown"
      [] record.body.complete /\ record.body.decision = "acceptable" -> "acceptable"
      [] OTHER -> "unacceptable"

-----------------------------------------------------------------------------
(* A session that opens is complete, the file its raters answer in included, *)
(* although _session never looks at that file: its writer may have died      *)
(* after any part.                                                          *)
OpensWhole == Opens => \A part \in ToSet(Parts) : files[part] = "whole"

(* An adjudication on record is based on exactly the originals of its case   *)
(* that had arrived before it.                                              *)
BasedOnEarlier ==
    \A i \in DOMAIN records : records[i].kind = "adjudication" =>
        records[i].body.based_on =
            {records[j].record_id : j \in {k \in 1..(i - 1) :
                /\ records[k].kind = "original"
                /\ records[k].body.case = records[i].body.case}}

(* A dispute counts as resolved as long as no original of the case has       *)
(* arrived since a complete adjudication of it: the status compares sets of  *)
(* ids and knows nothing of the order.                                      *)
ResolvedUntilNextOriginal ==
    \A case \in Disputes :
        case \in Resolved <=>
            \E i \in DOMAIN records :
                /\ records[i].kind = "adjudication"
                /\ records[i].body.case = case /\ records[i].body.complete
                /\ \A j \in (i + 1)..Len(records) :
                      records[j].kind = "original" => records[j].body.case # case

(* The status and the reports go by the same rule, written twice: a dispute  *)
(* is resolved exactly when a report can name an adjudication of its case    *)
(* and gets a reference decision from it.                                   *)
ResolvedIsSelectable ==
    \A case \in Disputes :
        case \in Resolved <=>
            \E record \in Records :
                /\ record.kind = "adjudication"
                /\ Selectable(record, case) /\ Acceptability(record) # "unknown"

(* A reference decision is never made of an abstention.                      *)
NoReferenceFromAbstention ==
    \A record \in Records :
        Selectable(record, record.body.case) /\ Acceptability(record) # "unknown" =>
            record.body.decision = Acceptability(record)

=============================================================================
