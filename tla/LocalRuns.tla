------------------------------ MODULE LocalRuns ------------------------------
(***************************************************************************)
(* The two kinds of runs that one machine does by itself, each in a           *)
(* directory of its own and under the lock of that directory: a judge panel   *)
(* (module JudgeRun) and an offline run (module SyntheticRun).  They share    *)
(* no state.                                                               *)
(***************************************************************************)
EXTENDS JudgeRun

CONSTANTS
    Work, Plan, Deps, Results, Null,   \* as in Ledger
    Manifests, Procs, MaxSteps, MaxDeaths   \* as in SyntheticRun

VARIABLES
    offManifest, offEvents, offAttempts, offReconciliations, offRetries, offVersion,
    offMade, offObjects, offReceipts, offLock, offProc, offInvoked, offDeaths

offVars == <<offManifest, offEvents, offAttempts, offReconciliations, offRetries, offVersion,
             offMade, offObjects, offReceipts, offLock, offProc, offInvoked, offDeaths>>

Off == INSTANCE SyntheticRun WITH
    manifest <- offManifest, events <- offEvents, attempts <- offAttempts,
    reconciliations <- offReconciliations, retries <- offRetries, version <- offVersion,
    made <- offMade, objects <- offObjects, receipts <- offReceipts, lock <- offLock,
    proc <- offProc, invoked <- offInvoked, deaths <- offDeaths

(* _plan lists every role of a case once, after what it depends on.         *)
ASSUME OfflinePlanAssumption ==
    /\ Plan \in Seq(Work)
    /\ \A i, j \in 1..Len(Plan) : Plan[i] = Plan[j] => i = j
    /\ \A w \in Work : \E i \in 1..Len(Plan) : Plan[i] = w
    /\ Deps \in [Work -> SUBSET Work]
    /\ \A i \in 1..Len(Plan) : \A d \in Deps[Plan[i]] : \E j \in 1..(i - 1) : Plan[j] = d
    /\ Manifests \subseteq
           [inspect : BOOLEAN, unknown : SUBSET Work, requests : Nat \cup {Null}]

(* Null is no result, process or request, and nothing the fixture can say.  *)
ASSUME OfflineNullAssumption ==
    /\ Null \notin Results \cup Procs \cup Off!Envelopes
    /\ Null \notin [status : {"invalid", "limited", "failed"}, request : Off!Envelopes]

-----------------------------------------------------------------------------
(* Whatever dies and whoever resumes an offline run, an item is handed to the  *)
(* adapter once, and what the ledger is asked to do, it accepts: nobody else   *)
(* works on the run between the state that was read and the event written.    *)
OfflineInvokedOnce == Off!InvokedOnce /\ Off!NeverRefused

(* What an offline run leaves can be resumed and says what happened: every     *)
(* object and receipt that the ledger speaks of is there, an item is blocked   *)
(* only by one that will never complete, and an execution is claimed, denied   *)
(* or left open as the adapter was invoked.                                  *)
OfflineIsHonest == Off!RunReopens /\ Off!BlockedForGood /\ Off!SummaryHonest
=============================================================================
