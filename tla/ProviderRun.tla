----------------------------- MODULE ProviderRun -----------------------------
(***************************************************************************)
(* One run directory and the processes that work on it: run_provider and   *)
(* resume_provider (_drive of src/draftbench/provider_workflow.py), and    *)
(* the operator's authorize_unsent_provider and reconcile_provider         *)
(* (provider_recovery.py).  A process holds the run lock, may die between  *)
(* any two durable writes, and leaves behind: the attempt ledger (module   *)
(* Ledger), rows in the campaign's shared budget (module Campaign), the    *)
(* content-addressed objects, and the receipt files of attempts that did   *)
(* not succeed.  The provider is outside: a request reaches it or not, and *)
(* an answer comes back or not.                                            *)
(***************************************************************************)
EXTENDS Integers, Sequences, FiniteSets

CONSTANTS
    Work, Plan, Deps, Results, MaxRequests, Null,   \* as in Ledger
    Revisions,    \* the items whose prompt needs the operator's review input
    Externals,    \* the review inputs an operator may pass
    Unknown,      \* the items whose input the manifest does not know
    Procs,        \* processes started on the run directory
    MaxSteps,     \* max_steps of each of them
    Campaigned,   \* the manifest is bound to a campaign
    Ceiling,      \* the campaign's ceiling, in reservations of this policy
    Others        \* attempts of other runs of the campaign

(* What was validated when the run was created (see Ledger, PlanValidation). *)
ASSUME RunAssumption ==
    /\ Plan \in Seq(Work)
    /\ \A w \in Work : \E i \in 1..Len(Plan) : Plan[i] = w
    /\ \A i, j \in 1..Len(Plan) : Plan[i] = Plan[j] => i = j
    /\ Deps \in [Work -> SUBSET Work]
    /\ MaxRequests \in Nat
    /\ Ceiling \in Nat \ {0}

VARIABLES
    events, attempts, reconciliations, retries, version,   \* ledger.sqlite3
    tracking, reservations,                                 \* the campaign
    objects,    \* the digests whose objects are in the store
    receipts,   \* the files attempt-<id>.json and attempt-<id>.retry-1.json
    lock,       \* the process that holds run.lock, or Null
    proc,       \* the local variables of each process
    received    \* received[w]: how many requests for w reached the provider

ledgerVars == <<events, attempts, reconciliations, retries, version>>
campaignVars == <<tracking, reservations>>
vars == <<ledgerVars, campaignVars, objects, receipts, lock, proc, received>>

(* A request envelope names the answers it is built on, by digest.         *)
Envelopes ==
    UNION {[work : {w}, parents : [Deps[w] -> Results],
            external : IF w \in Revisions THEN Externals ELSE {Null}] : w \in Work}

(* What invoke returns: a verified success, a refusal (failed or limited), *)
(* or uncertain: with an output that success_from_receipt can restore, with *)
(* a connection error and nothing else ("unsent"), or with neither.        *)
Successes == [status : {"success"}, result : Results]

Natives == [status : {"failed", "limited", "unsent", "lost"}, request : Envelopes]
    \cup [status : {"answered"}, request : Envelopes, result : Results]

(* Null is none of the values that it stands in for. *)
ASSUME NullAssumption ==
    Null \notin Results \cup Externals \cup Procs \cup Envelopes \cup Natives

L == INSTANCE Ledger WITH Requests <- Envelopes, Receipts <- Natives

(* One policy, one reserved amount: the unit of money.                     *)
OwnCall(a, q) == [attempt |-> <<"own", a>>, particulars |-> q, amount |-> <<1, 1>>]

OtherCall(o) == [attempt |-> <<"other", o>>, particulars |-> Null, amount |-> <<1, 1>>]

Shared == INSTANCE Campaign WITH
    Calls <- {OwnCall(a, q) : a \in 1..MaxRequests, q \in Envelopes}
                 \cup {OtherCall(o) : o \in Others},
    Scale <- 1,
    NoAmount <- Null

-----------------------------------------------------------------------------
(* The prompt and the receipts *)

AttemptOf(w) == L!Current(w).attempt

(* _prompt: parents' answers by digest, and the review input. *)
Envelope(w, x) ==
    [work |-> w, parents |-> [d \in Deps[w] |-> L!Current(d).result], external |-> x]

Retried(a) == \E row \in retries : row.attempt = a

(* Mutant: the file of a retried attempt has no suffix. *)
Slot_unsuffixed(a) == <<a, FALSE>>

(* The receipt file of an attempt's current try. *)
Slot(a) == <<a, Retried(a)>>

Files(slot) == {f \in receipts : f.slot = slot}

(* native_receipt: the file parses, names this request and the object that *)
(* it points to is in the store.                                           *)
Readable(slot, q) ==
    \E f \in Files(slot) :
        f.native # Null /\ f.native.request = q /\ f.native \in objects

Native(slot) == (CHOOSE f \in Files(slot) : TRUE).native

(* A receipt file that was created but not written.                        *)
Torn(w) == \E f \in Files(Slot(AttemptOf(w))) : f.native = Null

-----------------------------------------------------------------------------
(* _report, which every command runs before it changes anything            *)

RequestReports(w, c) ==
    /\ c.request \in objects
    /\ \A d \in Deps[w] : L!Current(d).result \in objects
    /\ Envelope(w, c.request.external) = c.request

RetryReports(c) ==
    \A row \in retries : row.attempt = c.attempt =>
        Readable(<<c.attempt, FALSE>>, c.request) /\ Native(<<c.attempt, FALSE>>) = row.receipt

ReceiptReports(c) ==
    c.state \in {"failed", "limited"} \/ Files(Slot(c.attempt)) # {} =>
        Readable(Slot(c.attempt), c.request)

ResultReports(c) ==
    c.result # Null =>
        /\ c.result \in objects
        /\ \A row \in reconciliations : row.attempt = c.attempt =>
              /\ Readable(Slot(c.attempt), c.request)
              /\ Native(Slot(c.attempt)) = row.receipt
              /\ row.receipt.result = c.result
              /\ row.result = c.result

Reports ==
    \A w \in Work : LET c == L!Current(w) IN
        c.request # Null =>
            /\ RequestReports(w, c)
            /\ RetryReports(c)
            /\ ReceiptReports(c)
            /\ ResultReports(c)

-----------------------------------------------------------------------------
(* Processes *)

Idle == [pc |-> "idle", at |-> 0, steps |-> 0, input |-> Null,
         request |-> Null, outcome |-> Null]

(* The run as Ledger.create leaves it: the first Resume stands for the      *)
(* _drive that run_provider itself goes on to.                              *)
Init ==
    /\ L!Init
    /\ Shared!Init /\ tracking = FALSE
    /\ objects = {} /\ receipts = {}
    /\ lock = Null
    /\ proc = [p \in Procs |-> Idle]
    /\ received = [w \in Work |-> 0]

Item(p) == Plan[proc[p].at]
AttemptAt(p) == AttemptOf(Item(p))

Goto(p, pc) == proc' = [proc EXCEPT ![p].pc = pc]

NextItem(p, n) ==
    proc' = [proc EXCEPT ![p].pc = "loop", ![p].at = @ + 1, ![p].steps = @ + n,
                         ![p].request = Null, ![p].outcome = Null]

(* The process returns, raises or dies: the kernel drops its lock.          *)
Leave(p) ==
    /\ proc' = [proc EXCEPT ![p] = Idle]
    /\ lock' = IF lock = p THEN Null ELSE lock

LockFree == lock = Null

(* Every command opens the ledger under the lock and verifies the run.     *)
Enter(p) ==
    /\ proc[p].pc = "idle"
    /\ LockFree
    /\ Reports

(* Mutant: a resume leaves interrupted items as they are. *)
Recovered_never == UNCHANGED ledgerVars

(* Mutant: an interrupted item is queued for another try. *)
Recovered_requeue ==
    IF L!InState("in_flight") = {}
    THEN UNCHANGED ledgerVars
    ELSE \E w \in L!InState("in_flight") :
            /\ events' = Append(events, L!Follow(L!Current(w), "reserved", Null))
            /\ UNCHANGED <<attempts, reconciliations, retries, version>>

(* ledger.recover: nothing to do, or everything in flight is uncertain.    *)
Recovered ==
    IF L!InState("in_flight") = {} THEN UNCHANGED ledgerVars ELSE L!Recover

Resume(p, x) ==
    /\ Enter(p)
    /\ Recovered
    /\ lock' = p
    /\ proc' = [proc EXCEPT ![p] = [Idle EXCEPT !.pc = "loop", !.at = 1, !.input = x]]
    /\ UNCHANGED <<campaignVars, objects, receipts, received>>

-----------------------------------------------------------------------------
(* The loop of _drive over the plan *)

AtItem(p) == proc[p].pc = "loop" /\ proc[p].at <= Len(Plan)

Open(p) == AtItem(p) /\ L!State(Item(p)) \in {"planned", "reserved"}

Unstopped(p) == Open(p) /\ proc[p].steps < MaxSteps

Known(p) == Unstopped(p) /\ Item(p) \notin Unknown

Unblocked(p) == Known(p) /\ L!DependenciesCompleted(Item(p))

(* The review input: the one already on record, or the one passed now.     *)
ReviewInput(p) ==
    CASE Item(p) \notin Revisions -> Null
      [] Item(p) \in Revisions /\ L!Current(Item(p)).request # Null ->
            L!Current(Item(p)).request.external
      [] OTHER -> proc[p].input

Waits(p) == Item(p) \in Revisions /\ ReviewInput(p) = Null

CompleteSaved(p) ==
    /\ AtItem(p)
    /\ L!Complete(AttemptAt(p))
    /\ NextItem(p, 0)
    /\ UNCHANGED <<campaignVars, objects, receipts, lock, received>>

Pass(p) ==
    /\ AtItem(p)
    /\ L!State(Item(p)) \notin {"planned", "reserved", "result_saved"}
    /\ NextItem(p, 0)
    /\ UNCHANGED <<ledgerVars, campaignVars, objects, receipts, lock, received>>

(* max_steps reached, a revision without review input, or the end.         *)
Stop(p) ==
    /\ \/ Open(p) /\ proc[p].steps >= MaxSteps
       \/ Unblocked(p) /\ Waits(p)
       \/ proc[p].pc = "loop" /\ proc[p].at > Len(Plan)
    /\ Leave(p)
    /\ UNCHANGED <<ledgerVars, campaignVars, objects, receipts, received>>

SkipItem(p) ==
    /\ \/ Unstopped(p) /\ Item(p) \in Unknown /\ L!Skip(Item(p), "unavailable")
       \/ Known(p) /\ ~Unblocked(p) /\ L!Skip(Item(p), "blocked")
    /\ NextItem(p, 0)
    /\ UNCHANGED <<campaignVars, objects, receipts, lock, received>>

PutRequest(p) ==
    /\ Unblocked(p) /\ ~Waits(p)
    /\ LET q == Envelope(Item(p), ReviewInput(p)) IN
        /\ objects' = objects \cup {q}
        /\ proc' = [proc EXCEPT ![p].pc = "admit", ![p].request = q]
    /\ UNCHANGED <<ledgerVars, campaignVars, receipts, lock, received>>

Admitted == IF Campaigned THEN "fund" ELSE "start"

ReserveLocally(p) ==
    /\ proc[p].pc = "admit"
    /\ L!State(Item(p)) = "planned"
    /\ L!Reserve(Item(p), proc[p].request)
    /\ Goto(p, Admitted)
    /\ UNCHANGED <<campaignVars, objects, receipts, lock, received>>

ReuseReservation(p) ==
    /\ proc[p].pc = "admit"
    /\ L!State(Item(p)) = "reserved"
    /\ L!Current(Item(p)).request = proc[p].request
    /\ Goto(p, Admitted)
    /\ UNCHANGED <<ledgerVars, campaignVars, objects, receipts, lock, received>>

(* The admission policy has no room, or the envelope is not the reserved   *)
(* one (request_identity_mismatch).                                        *)
NotAdmitted(p) ==
    /\ proc[p].pc = "admit"
    /\ ~L!CanReserve(Item(p))
    /\ ~(/\ L!State(Item(p)) = "reserved"
         /\ L!Current(Item(p)).request = proc[p].request)
    /\ Leave(p)
    /\ UNCHANGED <<ledgerVars, campaignVars, objects, receipts, received>>

(* The shared reservation commits before the local start.                  *)
Fund(p) ==
    /\ proc[p].pc = "fund"
    /\ Shared!Reserve(OwnCall(AttemptAt(p), proc[p].request))
    /\ Goto(p, "start")
    /\ UNCHANGED <<ledgerVars, objects, receipts, lock, received>>

(* Mutant: an exhausted campaign does not stop the run. *)
Unfunded_ignored(p) ==
    /\ proc[p].pc = "fund"
    /\ ~Shared!CanReserve(OwnCall(AttemptAt(p), proc[p].request))
    /\ Goto(p, "start")
    /\ UNCHANGED <<ledgerVars, campaignVars, objects, receipts, lock, received>>

Unfunded(p) ==
    /\ proc[p].pc = "fund"
    /\ ~Shared!CanReserve(OwnCall(AttemptAt(p), proc[p].request))
    /\ Leave(p)
    /\ UNCHANGED <<ledgerVars, campaignVars, objects, receipts, received>>

StartLocally(p) ==
    /\ proc[p].pc = "start"
    /\ L!Start(AttemptAt(p))
    /\ Goto(p, "send")
    /\ UNCHANGED <<campaignVars, objects, receipts, lock, received>>

-----------------------------------------------------------------------------
(* invoke: the request reaches the provider or not, then something or      *)
(* nothing comes back.                                                     *)

Learn(p, o) == proc' = [proc EXCEPT ![p].pc = "answered", ![p].outcome = o]

Reaches(p) ==
    /\ proc[p].pc = "send"
    /\ received' = [received EXCEPT ![Item(p)] = @ + 1]
    /\ Goto(p, "wait")
    /\ UNCHANGED <<ledgerVars, campaignVars, objects, receipts, lock>>

NeverLeaves(p) ==
    /\ proc[p].pc = "send"
    /\ Learn(p, [status |-> "unsent", request |-> proc[p].request])
    /\ UNCHANGED <<ledgerVars, campaignVars, objects, receipts, lock, received>>

Answers(p) ==
    /\ proc[p].pc = "wait"
    /\ \E o \in Successes \cup {n \in Natives : n.request = proc[p].request} : Learn(p, o)
    /\ UNCHANGED <<ledgerVars, campaignVars, objects, receipts, lock, received>>

-----------------------------------------------------------------------------
(* What becomes of the answer *)

Succeeded(p) == proc[p].outcome.status = "success"

(* The digest under which the outcome is stored: of the result, or of the  *)
(* native object that a receipt will point to.                             *)
Stored(o) == IF o.status = "success" THEN o.result ELSE o

(* Mutant: the answer is referred to before it is stored. *)
PutResult_late(p) ==
    /\ proc[p].pc = "answered"
    /\ Goto(p, "saved")
    /\ UNCHANGED <<ledgerVars, campaignVars, objects, receipts, lock, received>>

PutResult(p) ==
    /\ proc[p].pc = "answered"
    /\ objects' = objects \cup {Stored(proc[p].outcome)}
    /\ Goto(p, "saved")
    /\ UNCHANGED <<ledgerVars, campaignVars, receipts, lock, received>>

RecordSuccess(p) ==
    /\ proc[p].pc = "saved" /\ Succeeded(p)
    /\ L!RecordResult(AttemptAt(p), proc[p].outcome.result)
    /\ Goto(p, "complete")
    /\ UNCHANGED <<campaignVars, objects, receipts, lock, received>>

CompleteItem(p) ==
    /\ proc[p].pc = "complete"
    /\ L!Complete(AttemptAt(p))
    /\ NextItem(p, 1)
    /\ UNCHANGED <<campaignVars, objects, receipts, lock, received>>

(* _write_receipt creates the file, which must not exist, then writes it.  *)
CreateReceipt(p) ==
    /\ proc[p].pc = "saved" /\ ~Succeeded(p)
    /\ Files(Slot(AttemptAt(p))) = {}
    /\ receipts' = receipts \cup {[slot |-> Slot(AttemptAt(p)), native |-> Null]}
    /\ Goto(p, "receipt")
    /\ UNCHANGED <<ledgerVars, campaignVars, objects, lock, received>>

WriteReceipt(p) ==
    /\ proc[p].pc = "receipt"
    /\ receipts' = (receipts \ Files(Slot(AttemptAt(p))))
            \cup {[slot |-> Slot(AttemptAt(p)), native |-> proc[p].outcome]}
    /\ Goto(p, "settle")
    /\ UNCHANGED <<ledgerVars, campaignVars, objects, lock, received>>

Settle(p) ==
    /\ proc[p].pc = "settle"
    /\ IF proc[p].outcome.status \in {"failed", "limited"}
       THEN L!Fail(AttemptAt(p), proc[p].outcome.status)
       ELSE L!Recover
    /\ NextItem(p, 1)
    /\ UNCHANGED <<campaignVars, objects, receipts, lock, received>>

-----------------------------------------------------------------------------
(* The operator's commands *)

(* authorize_unsent_provider, one transaction.  The receipt must be of a   *)
(* connection error, and the operator states that the request never left,  *)
(* which the system cannot see: here the operator tells the truth.         *)
OperatorConfirms(a) == received[attempts[a].work] = 0

AuthorizeUnsent(p, a) ==
    /\ Enter(p)
    /\ L!Holds(a, "uncertain")
    /\ Files(Slot(a)) # {}
    /\ Native(Slot(a)).status = "unsent"
    /\ OperatorConfirms(a)
    /\ L!AuthorizeUnsentRetry(a, Native(Slot(a)))
    /\ UNCHANGED <<campaignVars, objects, receipts, lock, proc, received>>

(* reconcile_provider: the ledger's transaction, and then the completion,  *)
(* which a death in between leaves to a repetition or to the next resume.  *)
Reconcilable(a) ==
    /\ Files(Slot(a)) # {}
    /\ Native(Slot(a)).status = "answered"

AtAttempt(p, a) ==
    /\ lock' = p
    /\ proc' = [proc EXCEPT ![p] =
                   [Idle EXCEPT !.pc = "finish",
                                !.at = CHOOSE i \in 1..Len(Plan) : Plan[i] = attempts[a].work]]

Reconcile(p, a) ==
    /\ Enter(p)
    /\ L!Holds(a, "uncertain")
    /\ Reconcilable(a)
    /\ LET native == Native(Slot(a)) IN
        /\ objects' = objects \cup {native.result}
        /\ L!ReconcileResult(a, native.result, native)
    /\ AtAttempt(p, a)
    /\ UNCHANGED <<campaignVars, receipts, received>>

ReconcileAgain(p, a) ==
    /\ Enter(p)
    /\ L!Holds(a, "result_saved")
    /\ Reconcilable(a)
    /\ AtAttempt(p, a)
    /\ UNCHANGED <<ledgerVars, campaignVars, objects, receipts, received>>

FinishReconciled(p) ==
    /\ proc[p].pc = "finish"
    /\ L!Complete(AttemptAt(p))
    /\ Leave(p)
    /\ UNCHANGED <<campaignVars, objects, receipts, received>>

-----------------------------------------------------------------------------
(* Death, other runs, the system *)

Dies(p) ==
    /\ proc[p].pc # "idle"
    /\ Leave(p)
    /\ UNCHANGED <<ledgerVars, campaignVars, objects, receipts, received>>

OtherRunReserves(o) ==
    /\ Campaigned
    /\ ~Shared!Reserved(<<"other", o>>)
    /\ Shared!Reserve(OtherCall(o))
    /\ UNCHANGED <<ledgerVars, objects, receipts, lock, proc, received>>

(* What a process does by itself once it has entered. *)
Drive(p) ==
    \/ CompleteSaved(p) \/ Pass(p) \/ Stop(p) \/ SkipItem(p)
    \/ PutRequest(p) \/ ReserveLocally(p) \/ ReuseReservation(p) \/ NotAdmitted(p)
    \/ Fund(p) \/ Unfunded(p) \/ StartLocally(p)
    \/ Reaches(p) \/ NeverLeaves(p) \/ Answers(p)
    \/ PutResult(p) \/ RecordSuccess(p) \/ CompleteItem(p)
    \/ CreateReceipt(p) \/ WriteReceipt(p) \/ Settle(p)
    \/ FinishReconciled(p)

Next ==
    \/ \E p \in Procs, x \in Externals \cup {Null} : Resume(p, x)
    \/ \E p \in Procs : Drive(p) \/ Dies(p)
    \/ \E p \in Procs, a \in 1..Len(attempts) :
            AuthorizeUnsent(p, a) \/ Reconcile(p, a) \/ ReconcileAgain(p, a)
    \/ \E o \in Others : OtherRunReserves(o)

Spec == Init /\ [][Next]_vars

(* A process that has entered goes on unless it dies, and a run that was   *)
(* left is resumed sooner or later.                                        *)
Resumes == \E p \in Procs, x \in Externals \cup {Null} : Resume(p, x)

FairSpec ==
    /\ Spec
    /\ \A p \in Procs : WF_vars(Drive(p))
    /\ SF_vars(Resumes)

-----------------------------------------------------------------------------
(* Properties *)

(* As long as an operator who states that a request never left is right,   *)
(* no item's request reaches the provider twice, whatever dies and whoever *)
(* resumes, retries or reconciles.                                         *)
DeliveredOnce == \A w \in Work : received[w] <= 1

(* Nothing was ever in flight without its own row in the shared budget,    *)
(* and the budget is not exceeded by the runs together.                    *)
FundedBeforeSent ==
    Campaigned =>
        /\ \A i \in 1..Len(events) : events[i].state = "in_flight" =>
              Shared!Reserved(<<"own", events[i].attempt>>)
              /\ Shared!SameBinding(OwnCall(events[i].attempt, events[i].request))
        /\ Shared!Total <= Ceiling

(* Where a process is about to call the ledger, the ledger accepts: the    *)
(* state it decided on is still the state.  And the receipt of a try never *)
(* meets a file that is already there, so that exclusive creation does not *)
(* fail a run on the answer it was waiting for.                            *)
NeverRefused ==
    \A p \in Procs :
        /\ proc[p].pc = "admit" => \/ L!State(Item(p)) = "planned"
                                  \/ /\ L!State(Item(p)) = "reserved"
                                     /\ L!Current(Item(p)).request = proc[p].request
        /\ proc[p].pc \in {"fund", "start"} => L!State(Item(p)) = "reserved"
        /\ proc[p].pc \in {"send", "wait", "answered", "saved", "receipt", "settle"} =>
              L!State(Item(p)) = "in_flight"
        /\ proc[p].pc \in {"complete", "finish"} => L!State(Item(p)) = "result_saved"
        /\ proc[p].pc = "saved" /\ ~Succeeded(p) => Files(Slot(AttemptAt(p))) = {}

(* The check that gates every command passes on whatever the commands and  *)
(* their deaths leave, with one exception: a receipt that was created but   *)
(* not written.                                                            *)
RunReopens == Reports \/ \E w \in Work : Torn(w)

(* What was in flight when its process died becomes uncertain (or is       *)
(* settled), the exception above aside.                                    *)
InterruptedRecovered ==
    \A w \in Work : L!State(w) = "in_flight" ~> L!State(w) # "in_flight" \/ Torn(w)

(* The same as the documentation has it, without the exception.            *)
CrashBecomesUncertain ==
    \A w \in Work : L!State(w) = "in_flight" ~> L!State(w) # "in_flight"

(* Every step on the run is a transaction of the ledger or leaves it alone. *)
ImplementsLedger == L!Spec
=============================================================================
