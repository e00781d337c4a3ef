----------------------------- MODULE SyntheticRun -----------------------------
(***************************************************************************)
(* An offline run: src/draftbench/workflow.py with the fake adapter or the   *)
(* Inspect fixture, over the ledger of module Ledger.  run_synthetic makes    *)
(* the run directory step by step and then drives the plan; resume_synthetic  *)
(* checks the directory and drives it again.  Processes may die at every      *)
(* step and race for the directory and for its lock.                          *)
(***************************************************************************)
EXTENDS Integers, Sequences, FiniteSets

CONSTANTS
    Work, Plan, Deps, Results, Null,   \* as in Ledger
    Manifests,    \* what runs are made for: [inspect, unknown, requests]
    Procs,        \* processes started on the run directory
    MaxSteps,     \* max_steps of each of them
    MaxDeaths     \* bound: processes that die

(* inspect: with the Inspect fixture, not the fake adapter; unknown: the items *)
(* without an input packet; requests: the fixture's max_requests.  The fake   *)
(* adapter has no policy, and then it is Null.                                *)

VARIABLES
    manifest,   \* what this run is made for, and its digest
    events, attempts, reconciliations, retries, version,   \* ledger.sqlite3
    made,       \* how much of the run directory is there
    objects,    \* the digests whose objects are in the store
    receipts,   \* the files attempt-<id>.json: [attempt, native]
    lock,       \* the process that holds run.lock, or Null
    proc,       \* the local variables of each process
    invoked,    \* invoked[w]: how often w was handed to the adapter
    deaths

ledgerVars == <<events, attempts, reconciliations, retries, version>>
vars == <<manifest, ledgerVars, made, objects, receipts, lock, proc, invoked, deaths>>

Envelopes == UNION {[work : {w}, parents : [Deps[w] -> Results]] : w \in Work}

(* The policy is looked at here (Admitted), and the ledger admits every item. *)
L == INSTANCE Ledger WITH
    Requests <- Envelopes, Receipts <- {}, MaxRequests <- Len(Plan)

(* run_synthetic in the order of its steps; the ledger's file is there, and   *)
(* empty, before the transaction that fills it.                               *)
Steps == <<"nothing", "directory", "lock_file", "objects", "snapshot", "pointer_file",
           "pointer", "ledger_file", "ledger">>
Reached(step) == \E i \in 1..made : Steps[i] = step

AttemptOf(w) == L!Current(w).attempt
Request(w) == [work |-> w, parents |-> [d \in Deps[w] |-> L!Current(d).result]]
Receipt(a) == {file \in receipts : file.attempt = a}

-----------------------------------------------------------------------------
(* _verify_artifacts *)

(* native_receipt: the file parses, names the request, and its object is      *)
(* there.                                                                     *)
ReceiptReads(c) ==
    \E file \in Receipt(c.attempt) :
        file.native # Null /\ file.native.request = c.request /\ file.native \in objects

ItemVerifies(w) ==
    LET c == L!Current(w) IN
    c.request # Null =>
        /\ L!DependenciesCompleted(w)
        /\ \A d \in Deps[w] : L!Current(d).result \in objects
        /\ c.request \in objects /\ c.request = Request(w)
        /\ c.result # Null => c.result \in objects
        /\ manifest.inspect /\ c.state \in {"failed", "limited"} => ReceiptReads(c)

Verifies == manifest \in objects /\ \A w \in Work : ItemVerifies(w)

-----------------------------------------------------------------------------
Idle == [pc |-> "idle", at |-> 0, steps |-> 0, request |-> Null, outcome |-> Null]

Init ==
    /\ manifest \in Manifests /\ L!Init
    /\ made = 1 /\ objects = {} /\ receipts = {} /\ lock = Null
    /\ proc = [p \in Procs |-> Idle]
    /\ invoked = [w \in Work |-> 0] /\ deaths = 0

Item(p) == Plan[proc[p].at]
AttemptAt(p) == AttemptOf(Item(p))
Goto(p, pc) == proc' = [proc EXCEPT ![p].pc = pc]

NextItem(p, n) ==
    proc' = [proc EXCEPT ![p].pc = "loop", ![p].at = @ + 1, ![p].steps = @ + n,
                         ![p].request = Null, ![p].outcome = Null]

(* The process returns, raises or dies: the kernel drops its lock. *)
Leave(p) ==
    /\ proc' = [proc EXCEPT ![p] = Idle]
    /\ lock' = IF lock = p THEN Null ELSE lock

(* _directory(create=True): mkdir refuses a directory that exists. *)
MakeDirectory(p) ==
    /\ proc[p].pc = "idle" /\ made = 1
    /\ made' = 2
    /\ Goto(p, "make")
    /\ UNCHANGED <<ledgerVars, objects, receipts, lock, invoked, deaths>>

MakeLockFile(p) ==
    /\ proc[p].pc = "make" /\ ~Reached("lock_file")
    /\ made' = made + 1
    /\ UNCHANGED <<ledgerVars, objects, receipts, lock, proc, invoked, deaths>>

Free == lock = Null

(* Whoever opens the lock file first holds it: a resume may be faster than    *)
(* the process that made the file, which then fails with run_busy.            *)
LockNew(p) ==
    /\ proc[p].pc = "make" /\ Reached("lock_file")
    /\ IF Free THEN lock' = p /\ Goto(p, "fill") ELSE Leave(p)
    /\ UNCHANGED <<ledgerVars, made, objects, receipts, invoked, deaths>>

(* The steps from the store to the ledger's transaction, under the lock. *)
Fill(p) ==
    /\ proc[p].pc = "fill" /\ ~Reached("ledger")
    /\ made' = made + 1
    /\ objects' = IF Steps[made'] = "snapshot" THEN objects \cup {manifest} ELSE objects
    /\ UNCHANGED <<ledgerVars, receipts, lock, proc, invoked, deaths>>

(* Ledger.create returns to run_synthetic, or resume_synthetic opens what it  *)
(* finds; both check the manifest and go on to _drive.                        *)
Filled(p) ==
    /\ proc[p].pc = "fill" /\ Reached("ledger")
    /\ Goto(p, "drive")
    /\ UNCHANGED <<ledgerVars, made, objects, receipts, lock, invoked, deaths>>

LockOld(p) ==
    /\ proc[p].pc = "idle" /\ Reached("lock_file") /\ Free
    /\ lock' = p
    /\ Goto(p, "open")
    /\ UNCHANGED <<ledgerVars, made, objects, receipts, invoked, deaths>>

OpenRun(p) ==
    /\ proc[p].pc = "open"
    /\ IF Reached("ledger") THEN Goto(p, "drive") /\ UNCHANGED lock ELSE Leave(p)
    /\ UNCHANGED <<ledgerVars, made, objects, receipts, invoked, deaths>>

-----------------------------------------------------------------------------
(* Mutant: what was in flight is taken up again. *)
Recovered_requeue ==
    IF L!InState("in_flight") = {} THEN UNCHANGED ledgerVars
    ELSE \E w \in L!InState("in_flight") :
            /\ events' = Append(events, L!Follow(L!Current(w), "reserved", Null))
            /\ UNCHANGED <<attempts, reconciliations, retries, version>>

(* ledger.recover: whatever an earlier process had in flight is uncertain. *)
Recovered == IF L!InState("in_flight") = {} THEN UNCHANGED ledgerVars ELSE L!Recover

Drive(p) ==
    /\ proc[p].pc = "drive"
    /\ IF Verifies
       THEN /\ Recovered /\ UNCHANGED lock
            /\ proc' = [proc EXCEPT ![p] = [Idle EXCEPT !.pc = "loop", !.at = 1]]
       ELSE Leave(p) /\ UNCHANGED ledgerVars
    /\ UNCHANGED <<made, objects, receipts, invoked, deaths>>

AtItem(p) == proc[p].pc = "loop" /\ proc[p].at <= Len(Plan)
Open(p) == AtItem(p) /\ L!State(Item(p)) \in {"planned", "reserved"}

CompleteSaved(p) ==
    /\ AtItem(p) /\ L!Complete(AttemptAt(p))
    /\ NextItem(p, 0)
    /\ UNCHANGED <<made, objects, receipts, lock, invoked, deaths>>

Pass(p) ==
    /\ AtItem(p) /\ L!State(Item(p)) \notin {"planned", "reserved", "result_saved"}
    /\ NextItem(p, 0)
    /\ UNCHANGED <<ledgerVars, made, objects, receipts, lock, invoked, deaths>>

(* max_steps, or the end of the plan. *)
Stop(p) ==
    /\ \/ Open(p) /\ proc[p].steps >= MaxSteps
       \/ proc[p].pc = "loop" /\ proc[p].at > Len(Plan)
    /\ Leave(p)
    /\ UNCHANGED <<ledgerVars, made, objects, receipts, invoked, deaths>>

SkipItem(p) ==
    /\ Open(p) /\ proc[p].steps < MaxSteps
    /\ IF Item(p) \in manifest.unknown THEN L!Skip(Item(p), "unavailable")
       ELSE ~L!DependenciesCompleted(Item(p)) /\ L!Skip(Item(p), "blocked")
    /\ NextItem(p, 0)
    /\ UNCHANGED <<made, objects, receipts, lock, invoked, deaths>>

PutRequest(p) ==
    /\ Open(p) /\ proc[p].steps < MaxSteps
    /\ Item(p) \notin manifest.unknown /\ L!DependenciesCompleted(Item(p))
    /\ objects' = objects \cup {Request(Item(p))}
    /\ proc' = [proc EXCEPT ![p].pc = "reserve", ![p].request = Request(Item(p))]
    /\ UNCHANGED <<ledgerVars, made, receipts, lock, invoked, deaths>>

(* The policy of the fixture; every earlier attempt counts. *)
Admitted == manifest.requests # Null => Len(attempts) < manifest.requests

(* A new reservation, or the one an earlier process left. *)
Reserve(p) ==
    /\ proc[p].pc = "reserve"
    /\ \/ Admitted /\ L!Reserve(Item(p), proc[p].request)
       \/ /\ L!State(Item(p)) = "reserved" /\ L!Current(Item(p)).request = proc[p].request
          /\ UNCHANGED ledgerVars
    /\ Goto(p, "start")
    /\ UNCHANGED <<made, objects, receipts, lock, invoked, deaths>>

(* admission_exhausted ends the loop. *)
NotAdmitted(p) ==
    /\ proc[p].pc = "reserve"
    /\ L!State(Item(p)) = "planned" /\ ~Admitted
    /\ Leave(p)
    /\ UNCHANGED <<ledgerVars, made, objects, receipts, invoked, deaths>>

Start(p) ==
    /\ proc[p].pc = "start"
    /\ L!Start(AttemptAt(p))
    /\ Goto(p, "invoke")
    /\ UNCHANGED <<made, objects, receipts, lock, invoked, deaths>>

-----------------------------------------------------------------------------
(* What invoke returns or raises: a result, an output that is no result, a    *)
(* known limit, or some other exception; the Inspect fixture also raises with *)
(* a native object for an output that is an error, cut off or unreadable.     *)
FakeOutcomes ==
    [status : {"success"}, result : Results] \cup [status : {"invalid", "limited", "raised"}]

InspectOutcomes == FakeOutcomes \cup [status : {"failed"}]

Invoke(p) ==
    /\ proc[p].pc = "invoke"
    /\ invoked' = [invoked EXCEPT ![Item(p)] = @ + 1]
    /\ \E outcome \in IF manifest.inspect THEN InspectOutcomes ELSE FakeOutcomes :
          proc' = [proc EXCEPT ![p].outcome = outcome,
                 ![p].pc = CASE outcome.status = "success" -> "put"
                             [] outcome.status = "raised" -> "fail"
                             [] OTHER -> IF manifest.inspect THEN "native" ELSE "fail"]
    /\ UNCHANGED <<ledgerVars, made, objects, receipts, lock, deaths>>

(* The Inspect fixture's native object, and its receipt in two steps. *)
Native(p) == [status |-> proc[p].outcome.status, request |-> proc[p].request]

PutNative(p) ==
    /\ proc[p].pc = "native"
    /\ objects' = objects \cup {Native(p)}
    /\ Goto(p, "create_receipt")
    /\ UNCHANGED <<ledgerVars, made, receipts, lock, invoked, deaths>>

CreateReceipt(p) ==
    /\ proc[p].pc = "create_receipt" /\ Receipt(AttemptAt(p)) = {}
    /\ receipts' = receipts \cup {[attempt |-> AttemptAt(p), native |-> Null]}
    /\ Goto(p, "write_receipt")
    /\ UNCHANGED <<ledgerVars, made, objects, lock, invoked, deaths>>

WriteReceipt(p) ==
    /\ proc[p].pc = "write_receipt"
    /\ receipts' = (receipts \ Receipt(AttemptAt(p)))
            \cup {[attempt |-> AttemptAt(p), native |-> Native(p)]}
    /\ Goto(p, "fail")
    /\ UNCHANGED <<ledgerVars, made, objects, lock, invoked, deaths>>

(* An exception of the Inspect fixture may hide a call: it is uncertain.      *)
Fail(p) ==
    /\ proc[p].pc = "fail"
    /\ LET status == proc[p].outcome.status IN
           IF status = "raised" /\ manifest.inspect THEN L!Recover
           ELSE L!Fail(AttemptAt(p), IF status = "limited" THEN "limited" ELSE "failed")
    /\ NextItem(p, 1)
    /\ UNCHANGED <<made, objects, receipts, lock, invoked, deaths>>

(* Mutant: the result is recorded before it is stored. *)
PutResult_late(p) ==
    /\ proc[p].pc = "put"
    /\ Goto(p, "record")
    /\ UNCHANGED <<ledgerVars, made, objects, receipts, lock, invoked, deaths>>

PutResult(p) ==
    /\ proc[p].pc = "put"
    /\ objects' = objects \cup {proc[p].outcome.result}
    /\ Goto(p, "record")
    /\ UNCHANGED <<ledgerVars, made, receipts, lock, invoked, deaths>>

RecordResult(p) ==
    /\ proc[p].pc = "record"
    /\ L!RecordResult(AttemptAt(p), proc[p].outcome.result)
    /\ Goto(p, "complete")
    /\ UNCHANGED <<made, objects, receipts, lock, invoked, deaths>>

Complete(p) ==
    /\ proc[p].pc = "complete"
    /\ L!Complete(AttemptAt(p))
    /\ NextItem(p, 1)
    /\ UNCHANGED <<made, objects, receipts, lock, invoked, deaths>>

(* _summary's synthetic_execution_performed: TRUE, FALSE, or unknown.      *)
Performed ==
    LET some(states) == \E w \in Work : L!State(w) \in states IN
    IF some({"result_saved", "completed", "failed", "limited"}) THEN "yes"
    ELSE IF some({"in_flight", "uncertain"}) THEN "unknown"
    ELSE "no"

Dies(p) ==
    /\ proc[p].pc # "idle" /\ deaths < MaxDeaths
    /\ deaths' = deaths + 1
    /\ Leave(p)
    /\ UNCHANGED <<ledgerVars, made, objects, receipts, invoked>>

Step(p) ==
    \/ MakeLockFile(p) \/ LockNew(p) \/ Fill(p) \/ Filled(p) \/ OpenRun(p)
    \/ Drive(p) \/ CompleteSaved(p) \/ Pass(p) \/ Stop(p) \/ SkipItem(p)
    \/ PutRequest(p) \/ Reserve(p) \/ NotAdmitted(p) \/ Start(p) \/ Invoke(p)
    \/ PutNative(p) \/ CreateReceipt(p) \/ WriteReceipt(p) \/ Fail(p)
    \/ PutResult(p) \/ RecordResult(p) \/ Complete(p)

Next ==
    /\ \E p \in Procs : MakeDirectory(p) \/ LockOld(p) \/ Step(p) \/ Dies(p)
    /\ UNCHANGED manifest

Spec == Init /\ [][Next]_vars

-----------------------------------------------------------------------------
(* Properties *)

Settled(w) == L!State(w) \in
    {"completed", "failed", "limited", "uncertain", "unavailable", "blocked"}

(* Whatever dies and whoever resumes, an item is handed to the adapter once.  *)
InvokedOnce == \A w \in Work : invoked[w] <= 1

(* What the ledger is asked to do, it accepts: nobody else works on the run   *)
(* between the state that was read and the event that is written.             *)
NeverRefused ==
    \A p \in Procs :
        LET pc == proc[p].pc IN
        /\ pc = "start" => L!State(Item(p)) = "reserved"
        /\ pc \in {"invoke", "native", "create_receipt", "write_receipt", "fail", "put",
                   "record"} => L!State(Item(p)) = "in_flight"
        /\ pc = "create_receipt" => Receipt(AttemptAt(p)) = {}
        /\ pc = "complete" => L!State(Item(p)) = "result_saved"

(* A run whose ledger is there can be opened: every object and receipt that   *)
(* the ledger speaks of was written before the event that speaks of it.       *)
RunReopens == Reached("ledger") => Verifies

(* An item is blocked only by an item that will never complete, and not by    *)
(* one that a step limit, an exhausted admission or a death has put off.      *)
BlockedForGood ==
    \A w \in Work : L!State(w) = "blocked" =>
        \E d \in Deps[w] : Settled(d) /\ L!State(d) # "completed"

(* The summary claims an execution only if there was one, and denies it only  *)
(* if there was none; a death in between makes it unknown.                    *)
SummaryHonest ==
    /\ Performed = "yes" => \E w \in Work : invoked[w] > 0
    /\ Performed = "no" => \A w \in Work : invoked[w] = 0
=============================================================================
