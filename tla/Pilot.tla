------------------------------- MODULE Pilot -------------------------------
(***************************************************************************)
(* The live pilot: src/draftbench/pilot.py.  One packet freezes a plan for  *)
(* several models; each model has a run directory of four items (writer,    *)
(* reviewer, revision, reviewer of the revision), all runs reserve in one   *)
(* campaign, and one command at a time, under the lock of the packet,       *)
(* drives them one item after the other.  It stops at the first invalid     *)
(* output, waits for an operator's response before each revision, and can   *)
(* die anywhere.                                                            *)
(*                                                                         *)
(* The inside of a run is ProviderRun; here an item goes through the steps  *)
(* of _drive that the pilot can see, and receipts are left out.  `output'   *)
(* is "good" when the answer passes _validate_outputs.  The comparisons of  *)
(* the frozen plan with the current files are the operator's: the files do  *)
(* not change, except for the code, which may be repaired once.             *)
(***************************************************************************)
EXTENDS Integers, Sequences, FiniteSets

CONSTANTS
    Order,      \* the models, in the order of the plan
    Ceilings    \* how many requests the campaign may have room for

ASSUME PilotAssumption ==
    /\ Ceilings \subseteq Nat
    /\ Len(Order) \in Nat /\ DOMAIN Order = 1..Len(Order)

VARIABLES
    packet,     \* prepare: "absent", "partial" or "ready"
    code,       \* the installed code: "planned" or "repaired"
    approval,   \* the record that approves the repaired code: a file
    dir,        \* dir[m]: the run directory, "absent", "partial" or "ready"
    state,      \* state[m][k]: the ledger's state of an item
    output,     \* output[m][k]: "none", "good" or "bad"
    sent,       \* sent[m][k]: how often the item was handed to the provider
    ceiling,    \* how many requests the campaign has room for
    funded,     \* the items that have a row in the campaign
    journal,    \* campaign.sqlite3-journal: "none" or "hot" (its writer died)
    request,    \* request[m][stage]: a replay request, a file
    response,   \* response[m]: "absent", "bad" or "good"
    command     \* the command that holds the lock, see Idle

files == <<packet, code, approval, request, response>>
ledgers == <<dir, state, output, sent>>
campaign == <<ceiling, funded, journal>>
vars == <<files, ledgers, campaign, command>>

Models == {Order[i] : i \in DOMAIN Order}

Items == 1..4       \* writer, reviewer, revision, reviewer of the revision

Stages == {"draft", "revision"}

FileStates == {"absent", "torn", "whole"}

ItemStates == {"planned", "reserved", "in_flight", "result_saved", "completed",
               "uncertain", "failed"}

(* pc: where the command is; at: its model; item: the item it drives;       *)
(* before: the state of that item when it was decided on; waiting: the       *)
(* models that lack a response.                                             *)
Idle(outcome) ==
    [pc |-> "idle", at |-> 1, item |-> 1, before |-> outcome, waiting |-> {}]

Go(pc) == command' = [command EXCEPT !.pc = pc]

End(outcome) == command' = Idle(outcome)

m == Order[command.at]

k == command.item

In(pc) == command.pc = pc

SetState(value) == state' = [state EXCEPT ![m][k] = value]

-----------------------------------------------------------------------------
Init ==
    /\ packet = "absent" /\ code = "planned" /\ approval = "absent"
    /\ dir = [n \in Models |-> "absent"]
    /\ state = [n \in Models |-> [j \in Items |-> "planned"]]
    /\ output = [n \in Models |-> [j \in Items |-> "none"]]
    /\ sent = [n \in Models |-> [j \in Items |-> 0]]
    /\ ceiling \in Ceilings /\ funded = {} /\ journal = "none"
    /\ request = [n \in Models |-> [stage \in Stages |-> "absent"]]
    /\ response = [n \in Models |-> "absent"]
    /\ command = Idle("none")

(* prepare: directory and campaign, then the plan.  Neither is ever reset.  *)
Prepare ==
    /\ packet \in {"absent", "partial"} /\ In("idle")
    /\ \/ packet = "absent" /\ packet' = "partial" /\ Go("prepare")
       \/ packet = "partial" /\ packet' = packet /\ End("refused")
    /\ UNCHANGED <<code, approval, request, response, ledgers, campaign>>

WritePlan ==
    /\ In("prepare")
    /\ packet' = "ready" /\ End("prepared")
    /\ UNCHANGED <<code, approval, request, response, ledgers, campaign>>

(* _checked: the plan is whole, and the campaign can be opened for reading,  *)
(* which a journal forbids.                                                 *)
Checked == packet = "ready" /\ journal = "none"

(* _record_code_approval: written once, and compared from then on.          *)
RecordApproval(next) ==
    \/ code = "planned" /\ Go(next) /\ UNCHANGED approval
    \/ code = "repaired" /\ approval = "whole" /\ Go(next) /\ UNCHANGED approval
    \/ code = "repaired" /\ approval = "torn" /\ End("refused") /\ UNCHANGED approval
    \/ code = "repaired" /\ approval = "absent" /\ approval' = "torn" /\ Go("approve")

WriteApproval ==
    /\ In("approve")
    /\ approval' = "whole" /\ Go("enter")
    /\ UNCHANGED <<packet, code, request, response, ledgers, campaign>>

(* run, with --resume or without any run directory, up to its loop.         *)
Run ==
    /\ In("idle") /\ Checked
    /\ RecordApproval("enter")
    /\ UNCHANGED <<packet, code, request, response, ledgers, campaign>>

-----------------------------------------------------------------------------
(* The loop over the models.                                                *)

NextModel(waiting) ==
    command' = [command EXCEPT !.pc = "enter", !.at = @ + 1, !.item = 1, !.before = "none",
                               !.waiting = waiting]

(* Mutant: the run is driven on without asking the ledger to recover. *)
Reopened_as_is(value) == value

(* Mutant: what was in flight is sent again. *)
Reopened_requeued(value) == IF value = "in_flight" THEN "reserved" ELSE value

(* resume_provider with no steps: what was in flight becomes uncertain, and  *)
(* a saved result completes.                                                *)
Reopened(value) ==
    CASE value = "in_flight" -> "uncertain"
      [] value = "result_saved" -> "completed"
      [] OTHER -> value

Enter ==
    /\ In("enter") /\ command.at <= Len(Order)
    /\ IF dir[m] = "partial"
       THEN End("refused") /\ UNCHANGED state
       ELSE /\ Go("loop")
            /\ state' = [state EXCEPT ![m] = [j \in Items |-> Reopened(state[m][j])]]
    /\ UNCHANGED <<files, campaign, dir, output, sent>>

(* run_provider creates the directory and the ledger in it.                 *)
CreateRun ==
    /\ In("loop") /\ dir[m] = "absent"
    /\ dir' = [dir EXCEPT ![m] = "partial"] /\ Go("create")
    /\ UNCHANGED <<files, campaign, state, output, sent>>

CreateLedger ==
    /\ In("create")
    /\ dir' = [dir EXCEPT ![m] = "ready"]
    /\ command' = [command EXCEPT !.pc = "reserve", !.item = 1, !.before = "created"]
    /\ UNCHANGED <<files, campaign, state, output, sent>>

(* _validate_outputs *)
ValidOutputs(n) ==
    /\ \A j \in Items : state[n][j] \in {"planned", "reserved", "completed"}
    /\ \A j \in Items : state[n][j] = "completed" => output[n][j] = "good"

AllCompleted(n) == \A j \in Items : state[n][j] = "completed"

AwaitsResponse(n) == state[n][3] = "planned" /\ state[n][2] = "completed"

Judging == In("loop") /\ dir[m] = "ready"

StopInvalid ==
    /\ Judging /\ ~ValidOutputs(m)
    /\ End("stopped")
    /\ UNCHANGED <<files, ledgers, campaign>>

(* _replay_request: created exclusively and then written; a file that is     *)
(* there must hold the same bytes.                                          *)
CreateReplayRequest(stage) ==
    /\ Judging /\ ValidOutputs(m)
    /\ IF stage = "draft" THEN AwaitsResponse(m) ELSE AllCompleted(m)
    /\ \/ /\ request[m][stage] = "absent"
          /\ request' = [request EXCEPT ![m][stage] = "torn"]
          /\ Go(stage)
       \/ /\ request[m][stage] = "torn"
          /\ End("refused") /\ UNCHANGED request
    /\ UNCHANGED <<packet, code, approval, response, ledgers, campaign>>

WriteReplayRequest(stage) ==
    /\ In(stage)
    /\ request' = [request EXCEPT ![m][stage] = "whole"]
    /\ Go("loop")
    /\ UNCHANGED <<packet, code, approval, response, ledgers, campaign>>

RunFinished ==
    /\ Judging /\ ValidOutputs(m) /\ AllCompleted(m)
    /\ request[m]["revision"] = "whole"
    /\ NextModel(command.waiting)
    /\ UNCHANGED <<files, ledgers, campaign>>

(* _revision_input: the response is absent, or not one to this draft.        *)
Wait ==
    /\ Judging /\ ValidOutputs(m) /\ AwaitsResponse(m)
    /\ request[m]["draft"] = "whole"
    /\ \/ response[m] = "absent" /\ NextModel(command.waiting \cup {m})
       \/ response[m] = "bad" /\ End("refused")
    /\ UNCHANGED <<files, ledgers, campaign>>

(* Mutant: the revision of a run that waits is taken up like any item. *)
Answered_never(n) == TRUE

Answered(n) ==
    AwaitsResponse(n) => request[n]["draft"] = "whole" /\ response[n] = "good"

Take ==
    /\ Judging /\ ValidOutputs(m) /\ ~AllCompleted(m) /\ Answered(m)
    /\ \E j \in Items :
          /\ state[m][j] # "completed" /\ \A i \in 1..(j - 1) : state[m][i] = "completed"
          /\ command' = [command EXCEPT !.pc = "reserve", !.item = j, !.before = state[m][j]]
    /\ UNCHANGED <<files, ledgers, campaign>>

-----------------------------------------------------------------------------
(* One step of _drive.                                                      *)

Reserve ==
    /\ In("reserve")
    /\ SetState("reserved") /\ Go("fund")
    /\ UNCHANGED <<files, campaign, dir, output, sent>>

Room == <<m, k>> \in funded \/ Cardinality(funded) < ceiling

Fund ==
    /\ In("fund") /\ Room
    /\ funded' = funded \cup {<<m, k>>} /\ Go("start")
    /\ UNCHANGED <<files, ledgers, ceiling, journal>>

Unfunded ==
    /\ In("fund") /\ ~Room
    /\ Go("after")
    /\ UNCHANGED <<files, ledgers, campaign>>

Start ==
    /\ In("start")
    /\ SetState("in_flight") /\ Go("answer")
    /\ sent' = [sent EXCEPT ![m][k] = @ + 1]
    /\ UNCHANGED <<files, campaign, dir, output>>

Answer(result) ==
    /\ In("answer")
    /\ IF result \in {"good", "bad"}
       THEN /\ SetState("result_saved") /\ Go("complete")
            /\ output' = [output EXCEPT ![m][k] = result]
       ELSE SetState(result) /\ Go("after") /\ UNCHANGED output
    /\ UNCHANGED <<files, campaign, dir, sent>>

Complete ==
    /\ In("complete")
    /\ SetState("completed") /\ Go("after")
    /\ UNCHANGED <<files, campaign, dir, output, sent>>

(* Mutant: a step that changed nothing is tried again. *)
Unchanged_ignored == FALSE

(* The states of the run are the ones from before the step. *)
Unchanged == state[m][k] = command.before

After ==
    /\ In("after")
    /\ IF Unchanged THEN End("admission_stopped") ELSE Go("loop")
    /\ UNCHANGED <<files, ledgers, campaign>>

(* Mutant: a run that waits is done for today. *)
Finish_early ==
    /\ In("enter") /\ command.at > Len(Order)
    /\ End("complete")
    /\ UNCHANGED <<files, ledgers, campaign>>

Finish ==
    /\ In("enter") /\ command.at > Len(Order)
    /\ End(IF command.waiting = {} THEN "complete" ELSE "waiting")
    /\ UNCHANGED <<files, ledgers, campaign>>

-----------------------------------------------------------------------------
(* The two recovery commands, each a single transaction of a run's ledger:   *)
(* they approve the code first and look at nothing but their own item.       *)

Recovers ==
    /\ In("idle") /\ Checked
    /\ code = "repaired" => approval # "torn"
    /\ approval' = IF code = "repaired" THEN "whole" ELSE approval
    /\ UNCHANGED <<packet, code, request, response, campaign, dir, sent, command>>

(* retry_unsent: the operator states that the only request never left.       *)
RetryUnsent(n, j) ==
    /\ Recovers /\ dir[n] = "ready"
    /\ state[n][j] = "uncertain" /\ sent[n][j] = 1
    /\ state' = [state EXCEPT ![n][j] = "reserved"]
    /\ UNCHANGED output

(* recover_receipt: an answer that the receipt holds after all, if valid.    *)
RecoverReceipt(n, j) ==
    /\ Recovers /\ dir[n] = "ready"
    /\ state[n][j] = "uncertain"
    /\ state' = [state EXCEPT ![n][j] = "completed"]
    /\ output' = [output EXCEPT ![n][j] = "good"]

-----------------------------------------------------------------------------
(* The surroundings.                                                        *)

(* The operator answers a replay request, perhaps wrongly at first. *)
Respond(n) ==
    /\ request[n]["draft"] = "whole" /\ response[n] # "good"
    /\ response' = [response EXCEPT ![n] = IF @ = "absent" THEN "bad" ELSE "good"]
    /\ UNCHANGED <<packet, code, approval, request, ledgers, campaign, command>>

RespondWell(n) ==
    /\ request[n]["draft"] = "whole" /\ response[n] = "absent"
    /\ response' = [response EXCEPT ![n] = "good"]
    /\ UNCHANGED <<packet, code, approval, request, ledgers, campaign, command>>

Repair ==
    /\ In("idle") /\ packet = "ready" /\ code = "planned"
    /\ code' = "repaired"
    /\ UNCHANGED <<packet, approval, request, response, ledgers, campaign, command>>

(* Death at any point.  In a transaction that inserts a row into the         *)
(* campaign it leaves the journal, or the row without its acknowledgement.   *)
Dies ==
    /\ ~In("idle")
    /\ End("died")
    /\ \/ UNCHANGED campaign
       \/ /\ In("fund") /\ Room /\ <<m, k>> \notin funded
          /\ \/ journal' = "hot" /\ UNCHANGED <<ceiling, funded>>
             \/ funded' = funded \cup {<<m, k>>} /\ UNCHANGED <<ceiling, journal>>
    /\ UNCHANGED <<files, ledgers>>

Step ==
    \/ WritePlan \/ WriteApproval \/ Enter \/ CreateRun \/ CreateLedger \/ StopInvalid
    \/ \E stage \in Stages : CreateReplayRequest(stage) \/ WriteReplayRequest(stage)
    \/ RunFinished \/ Wait \/ Take
    \/ Reserve \/ Fund \/ Unfunded \/ Start
    \/ \E result \in {"good", "bad", "failed", "uncertain"} : Answer(result)
    \/ Complete \/ After \/ Finish

Operator ==
    \/ Prepare \/ Run \/ Repair
    \/ \E n \in Models : Respond(n) \/ RespondWell(n)
    \/ \E n \in Models, j \in Items :
          RetryUnsent(n, j) \/ RecoverReceipt(n, j)

Next == Step \/ Operator \/ Dies

Spec == Init /\ [][Next]_vars

-----------------------------------------------------------------------------
TypeOK ==
    /\ packet \in {"absent", "partial", "ready"}
    /\ code \in {"planned", "repaired"} /\ approval \in FileStates
    /\ dir \in [Models -> {"absent", "partial", "ready"}]
    /\ state \in [Models -> [Items -> ItemStates]]
    /\ output \in [Models -> [Items -> {"none", "good", "bad"}]]
    /\ sent \in [Models -> [Items -> 0..2]]
    /\ ceiling \in Ceilings /\ funded \subseteq Models \X Items /\ journal \in {"none", "hot"}
    /\ request \in [Models -> [Stages -> FileStates]]
    /\ response \in [Models -> {"absent", "bad", "good"}]
    /\ command.at \in 1..(Len(Order) + 1) /\ command.item \in Items
    /\ command.waiting \subseteq Models

(* The pilot as Dispatch: the items of all runs are its work, each item waits *)
(* for its predecessor, and the ledger's states are its phases.              *)
Rows == Models \X Items

PhaseOf(value) ==
    CASE value \in {"planned", "reserved"} -> "idle"
      [] value = "in_flight" -> "sending"
      [] value = "uncertain" -> "unknown"
      [] value \in {"result_saved", "completed"} -> "settled"
      [] OTHER -> "closed"

Phase == [w \in Rows |-> PhaseOf(state[w[1]][w[2]])]
Answers == [w \in Rows |-> output[w[1]][w[2]]]
Sends == [w \in Rows |-> sent[w[1]][w[2]]]

D == INSTANCE Dispatch WITH
    Work <- Rows, Deps <- [w \in Rows |-> {d \in {w[1]} \X Items : d[2] = w[2] - 1}],
    Results <- {"good", "bad"}, NoResult <- "none",
    phase <- Phase, answer <- Answers, sends <- Sends

(* Every step of the pilot is one of Dispatch, for the items of all runs: no *)
(* request is sent twice without an operator's word, none before its         *)
(* predecessor has settled, and no settled answer changes.                   *)
ImplementsDispatch == D!Spec

(* In one run nothing is sent after an output that is not valid, deaths and  *)
(* recovered receipts included.                                             *)
SentAfterValid ==
    \A n \in Models, j \in Items : sent[n][j] > 0 =>
        \A i \in 1..(j - 1) : state[n][i] = "completed" /\ output[n][i] = "good"

(* A revision is sent only with a valid response to a request that was       *)
(* written whole, also when its reservation is taken up again later.         *)
RevisionAnswered ==
    \A n \in Models : sent[n][3] > 0 => request[n]["draft"] = "whole" /\ response[n] = "good"

(* What is sent has its reservation in the campaign, which is never           *)
(* overdrawn, although a death can separate the two databases.               *)
FundedBeforeSent ==
    /\ Cardinality(funded) <= ceiling
    /\ \A n \in Models, j \in Items : sent[n][j] > 0 => <<n, j>> \in funded

(* Under repaired code nothing is sent before its approval is on record.     *)
RepairApproved ==
    code = "repaired" /\ command.pc \in {"reserve", "fund", "start", "answer"} =>
        approval = "whole"

(* Whatever dies and is resumed, retried or recovered, a request is sent only *)
(* after everything it must wait for: the valid outputs before it, for a      *)
(* revision the operator's response to a whole request, its share of the      *)
(* campaign, and the approval of the code that sends it.                     *)
SentWhenCleared ==
    SentAfterValid /\ RevisionAnswered /\ FundedBeforeSent /\ RepairApproved

(* The command says how it ended as it is.  "Admission stopped" is said only   *)
(* when the campaign is exhausted and a reserved item lacks its share, though  *)
(* the command only compares states; "complete" means every item of every     *)
(* run, with valid outputs, and every request for the review of a revision on *)
(* disk.                                                                    *)
OutcomeIsHonest ==
    /\ In("idle") /\ command.before = "admission_stopped" =>
        /\ Cardinality(funded) >= ceiling
        /\ \E n \in Models, j \in Items : state[n][j] = "reserved" /\ <<n, j>> \notin funded
    /\ In("idle") /\ command.before = "complete" =>
        \A n \in Models :
            /\ request[n]["revision"] = "whole"
            /\ \A j \in Items : state[n][j] = "completed" /\ output[n][j] = "good"

(* A run is stopped for an interrupted, failed or invalid item, never for     *)
(* what a death merely left unfinished.                                      *)
StoppedForCause ==
    [][StopInvalid => \E j \in Items :
          \/ state[m][j] \in {"uncertain", "failed"}
          \/ state[m][j] = "completed" /\ output[m][j] = "bad"]_vars

(* What the docstring of run says of resume: it "validates every completed    *)
(* output before spending anything else".                                    *)
SpendsAfterAllValid ==
    [][Start => \A n \in Models, j \in Items :
          state[n][j] = "completed" => output[n][j] = "good"]_vars

=============================================================================
