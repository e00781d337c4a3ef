------------------------------ MODULE JudgeRun ------------------------------
(***************************************************************************)
(* The runs of a judge panel and the ledger they share: run and _append of  *)
(* src/draftbench/judge/run.py, the calls of generative.py and jev.py as    *)
(* far as their result goes, and the readers of report.py.  Every process   *)
(* that runs the panel takes run.lock, reads ledger.jsonl once, sends what  *)
(* has no success yet and appends one line for each answer.  build_report   *)
(* reads the same file twice, without the lock.                             *)
(*                                                                         *)
(* A line stands for its key and its result.  The file may hold a line that *)
(* was cut off by a death or a full disk.                                   *)
(***************************************************************************)
EXTENDS Naturals, FiniteSets, Sequences, SequencesExt

CONSTANTS
    Processes,
    Kind,          \* Kind[j]: "typesafe" or "generative", for every judge j
    Calls,         \* what callers ask for: [work, judges, max]
    MaxCalls,      \* bound: invocations of run
    MaxFaults,     \* bound: deaths and failed writes
    None

ASSUME NoneAssumption ==
    None \notin Processes /\ None \notin Calls /\ None \notin {"auth_rejected", "max_requests"}

ASSUME BoundsAssumption == MaxCalls \in Nat /\ MaxFaults \in Nat

(* work: the presentations, or the candidates with their repetitions in      *)
(* pointwise mode; judges: the selected ones in the order of the panel;      *)
(* max: max_requests, or None.                                              *)
ASSUME CallsAssumption ==
    \A call \in Calls :
        /\ call.work \in Seq(STRING) /\ IsInjective(call.work)
        /\ call.judges \in Seq(DOMAIN Kind) /\ IsInjective(call.judges)
        /\ call.max \in (Nat \ {0}) \cup {None}

VARIABLES
    lockFile,   \* run.lock exists
    holder,     \* the process that has locked it
    lines,      \* ledger.jsonl
    newline,    \* the file ends with a newline, or is empty
    process,    \* process[p]: the invocation of run in process p
    report,     \* the records that the report being built has read, or None
    saved,      \* the keys whose success was appended and synced
    calls,      \* invocations so far
    faults      \* faults so far

vars == <<lockFile, holder, lines, newline, process, report, saved, calls, faults>>

Judges == DOMAIN Kind
Keys == UNION {ToSet(call.work) \X ToSet(call.judges) : call \in Calls}
Outcomes == {"success", "uncertain", "auth_rejected"}
Torn == [key |-> None, result |-> "torn"]
Lines == [key : Keys, result : Outcomes] \cup {Torn}

States == {"out", "open", "lock", "read", "loop", "asked", "answered", "ended"}

-----------------------------------------------------------------------------
Readable(file) == Torn \notin ToSet(file)

Attempts(file, judge) == Cardinality({i \in DOMAIN file : file[i].key[2] = judge})

(* latest_success: the keys of its dictionary. *)
Succeeded(file) == {line.key : line \in {l \in ToSet(file) : l.result = "success"}}

(* How a request can end for the adapter: refused with 401 or 403, another    *)
(* error of the transport or the server, an answer that the SDK calls        *)
(* unfinished, a text that is no complete set of verdicts, or one that is.   *)
Replies(judge) ==
    {"unauthorized", "error", "malformed", "verdicts"}
        \cup (IF Kind[judge] = "generative" THEN {"unfinished"} ELSE {})

(* generative._invoke: the status is success only after the parser accepted. *)
Generative(reply) ==
    CASE reply = "unauthorized" -> "auth_rejected"
      [] reply \in {"error", "unfinished", "malformed"} -> "uncertain"
      [] reply = "verdicts" -> "success"

(* jev._post: the status code is looked at before the body. *)
Jev(reply) ==
    CASE reply = "unauthorized" -> "auth_rejected"
      [] reply \in {"error", "malformed"} -> "uncertain"
      [] reply = "verdicts" -> "success"

Result(judge, reply) == IF Kind[judge] = "typesafe" THEN Jev(reply) ELSE Generative(reply)

Planned(call) == [n \in 1..(Len(call.judges) * Len(call.work)) |->
    <<call.work[1 + ((n - 1) % Len(call.work))],
      call.judges[1 + ((n - 1) \div Len(call.work))]>>]

Absent == [state |-> "out", call |-> None, create |-> FALSE, done |-> {}, at |-> 1,
           sent |-> 0, result |-> None, halted |-> None, complete |-> FALSE]

At(p, state) == process[p].state = state
Key(p) == Planned(process[p].call)[process[p].at]
Remaining(p) == process[p].at <= Len(Planned(process[p].call))

-----------------------------------------------------------------------------
Init ==
    /\ lockFile = FALSE /\ holder = None
    /\ lines = <<>> /\ newline = TRUE
    /\ process = [p \in Processes |-> Absent]
    /\ report = None
    /\ saved = {} /\ calls = 0 /\ faults = 0

(* The checks of run, up to the look at run.lock that decides whether it is  *)
(* created.                                                                 *)
Arrive(p, call) ==
    /\ At(p, "out") /\ calls < MaxCalls
    /\ process' = [process EXCEPT ![p] =
           [Absent EXCEPT !.state = "open", !.call = call, !.create = ~lockFile]]
    /\ calls' = calls + 1
    /\ UNCHANGED <<lockFile, holder, lines, newline, report, saved, faults>>

Leave(p) == process' = [process EXCEPT ![p] = Absent]

(* _run_lock: an exclusive creation, or an open of what is there. *)
OpenLock(p) ==
    /\ At(p, "open")
    /\ IF process[p].create /\ lockFile
       THEN Leave(p) /\ UNCHANGED lockFile
       ELSE /\ process' = [process EXCEPT ![p].state = "lock"]
            /\ lockFile' = TRUE
    /\ UNCHANGED <<holder, lines, newline, report, saved, calls, faults>>

(* Mutant: the lock is not exclusive. *)
Flock_shared(p) ==
    /\ At(p, "lock")
    /\ process' = [process EXCEPT ![p].state = "read"]
    /\ holder' = p
    /\ UNCHANGED <<lockFile, lines, newline, report, saved, calls, faults>>

Flock(p) ==
    /\ At(p, "lock")
    /\ IF holder = None
       THEN /\ process' = [process EXCEPT ![p].state = "read"]
            /\ holder' = p
       ELSE Leave(p) /\ UNCHANGED holder
    /\ UNCHANGED <<lockFile, lines, newline, report, saved, calls, faults>>

(* done = latest_success(read_ledger(root)): one line that does not parse     *)
(* refuses them all.                                                        *)
ReadLedger(p) ==
    /\ At(p, "read")
    /\ IF Readable(lines)
       THEN /\ process' = [process EXCEPT ![p].state = "loop", ![p].done = Succeeded(lines)]
            /\ UNCHANGED holder
       ELSE Leave(p) /\ holder' = None
    /\ UNCHANGED <<lockFile, lines, newline, report, saved, calls, faults>>

Skip(p) ==
    /\ At(p, "loop") /\ Remaining(p) /\ Key(p) \in process[p].done
    /\ process' = [process EXCEPT ![p].at = @ + 1]
    /\ UNCHANGED <<lockFile, holder, lines, newline, report, saved, calls, faults>>

Exhausted(p) == process[p].call.max # None /\ process[p].sent >= process[p].call.max

(* Mutant: complete when the loop has come to its last request. *)
Summarise_early(p, halted) ==
    /\ process' = [process EXCEPT ![p].state = "ended", ![p].halted = halted,
           ![p].complete = process[p].at >= Len(Planned(process[p].call))]
    /\ holder' = None
    /\ UNCHANGED <<lockFile, lines, newline, report, saved, calls, faults>>

(* The end of run: the lock is released and the summary returned. *)
Summarise(p, halted) ==
    /\ process' = [process EXCEPT ![p].state = "ended", ![p].halted = halted,
           ![p].complete = ToSet(Planned(process[p].call)) \subseteq process[p].done]
    /\ holder' = None
    /\ UNCHANGED <<lockFile, lines, newline, report, saved, calls, faults>>

HaltAtLimit(p) ==
    /\ At(p, "loop") /\ Remaining(p) /\ Key(p) \notin process[p].done
    /\ Exhausted(p)
    /\ Summarise(p, "max_requests")

Finish(p) ==
    /\ At(p, "loop") /\ ~Remaining(p)
    /\ Summarise(p, None)

Send(p) ==
    /\ At(p, "loop") /\ Remaining(p) /\ Key(p) \notin process[p].done
    /\ ~Exhausted(p)
    /\ process' = [process EXCEPT ![p].state = "asked"]
    /\ UNCHANGED <<lockFile, holder, lines, newline, report, saved, calls, faults>>

Answer(p, judge, reply) ==
    /\ At(p, "asked") /\ judge = Key(p)[2]
    /\ process' = [process EXCEPT ![p].state = "answered", ![p].sent = @ + 1,
                                  ![p].result = Result(judge, reply)]
    /\ UNCHANGED <<lockFile, holder, lines, newline, report, saved, calls, faults>>

(* A line appended to a file whose last line has no newline makes one line   *)
(* of the two, which does not parse.                                        *)
Appended(line) == IF newline THEN Append(lines, line) ELSE Append(Front(lines), Torn)

(* Mutant: a rejection ends the inner loop only. *)
After_inner(p) ==
    IF process[p].result = "success"
    THEN [process[p] EXCEPT !.state = "loop", !.done = @ \cup {Key(p)}, !.at = @ + 1]
    ELSE [process[p] EXCEPT !.state = "loop", !.at = @ + 1]

(* What run does with a recorded result: a rejection leaves both loops. *)
After(p) ==
    CASE process[p].result = "success" ->
           [process[p] EXCEPT !.state = "loop", !.done = @ \cup {Key(p)}, !.at = @ + 1]
      [] process[p].result = "auth_rejected" ->
           [process[p] EXCEPT !.state = "loop", !.halted = "auth_rejected"]
      [] OTHER -> [process[p] EXCEPT !.state = "loop", !.at = @ + 1]

(* _append: the whole line, flushed and synced. *)
WriteLine(p) ==
    /\ At(p, "answered")
    /\ lines' = Appended([key |-> Key(p), result |-> process[p].result])
    /\ newline' = TRUE
    /\ saved' = IF process[p].result = "success" THEN saved \cup {Key(p)} ELSE saved
    /\ process' = [process EXCEPT ![p] = After(p)]
    /\ UNCHANGED <<lockFile, holder, report, calls, faults>>

HaltOnRejection(p) ==
    /\ At(p, "loop") /\ process[p].halted = "auth_rejected"
    /\ Summarise(p, "auth_rejected")

Return(p) ==
    /\ At(p, "ended")
    /\ Leave(p)
    /\ UNCHANGED <<lockFile, holder, lines, newline, report, saved, calls, faults>>

(* A death or a full disk while the line is written and synced: none of it is *)
(* in the file, a part of it, all of it but the newline, or all of it.       *)
WriteStops(p) ==
    /\ At(p, "answered")
    /\ \/ UNCHANGED <<lines, newline>>
       \/ /\ lines' = (IF newline THEN Append(lines, Torn) ELSE Append(Front(lines), Torn))
          /\ newline' = FALSE
       \/ /\ lines' = Appended([key |-> Key(p), result |-> process[p].result])
          /\ newline' \in BOOLEAN

(* The death of a process releases its lock; a write that fails raises, which *)
(* has the same effect.                                                      *)
Fault(p) ==
    /\ ~At(p, "out") /\ ~At(p, "ended")
    /\ faults < MaxFaults
    /\ faults' = faults + 1
    /\ \/ WriteStops(p)
       \/ ~At(p, "answered") /\ UNCHANGED <<lines, newline>>
    /\ Leave(p)
    /\ holder' = IF holder = p THEN None ELSE holder
    /\ UNCHANGED <<lockFile, report, saved, calls>>

-----------------------------------------------------------------------------
(* build_report reads the file twice: the records, then the rows it counts   *)
(* attempts in.                                                             *)
FirstRead ==
    /\ report = None /\ Readable(lines)
    /\ report' = Succeeded(lines)
    /\ UNCHANGED <<lockFile, holder, lines, newline, process, saved, calls, faults>>

Rows == lines

(* The report is built, or refused because a line does not parse by now. *)
SecondRead ==
    /\ report # None
    /\ report' = None
    /\ UNCHANGED <<lockFile, holder, lines, newline, process, saved, calls, faults>>

Looping(p) == Skip(p) \/ HaltAtLimit(p) \/ Finish(p) \/ Send(p)

(* The steps of a process that is left alone. *)
Proceed(p) ==
    \/ OpenLock(p) \/ Flock(p) \/ ReadLedger(p)
    \/ process[p].halted = None /\ Looping(p)
    \/ HaltOnRejection(p)
    \/ \E judge \in Judges : \E reply \in Replies(judge) : Answer(p, judge, reply)
    \/ WriteLine(p) \/ Return(p)

Next ==
    \/ \E p \in Processes : Proceed(p) \/ Fault(p) \/ \E call \in Calls : Arrive(p, call)
    \/ FirstRead \/ SecondRead

Spec == Init /\ [][Next]_vars

-----------------------------------------------------------------------------
(* The lock has at most one holder, and only a holder is past the lock. *)
TypeOK ==
    /\ lockFile \in BOOLEAN /\ newline \in BOOLEAN
    /\ holder \in Processes \cup {None}
    /\ lines \in Seq(Lines) /\ saved \subseteq Keys
    /\ process \in [Processes ->
           [state : States, call : Calls \cup {None}, create : BOOLEAN,
            done : SUBSET Keys, at : Nat \ {0}, sent : Nat,
            result : Outcomes \cup {None},
            halted : {None, "max_requests", "auth_rejected"}, complete : BOOLEAN]]
    /\ report \in (SUBSET Keys) \cup {None}
    /\ calls \in 0..MaxCalls /\ faults \in 0..MaxFaults
    /\ \A p \in Processes :
           process[p].state \in {"read", "loop", "asked", "answered"} <=> holder = p

(* No request whose answer is recorded is paid for again: whatever processes *)
(* run the panel, in parallel, after one another or after deaths, a key has   *)
(* one successful line.                                                     *)
OneSuccessPerKey ==
    \A i, k \in DOMAIN lines :
        /\ lines[i].result = "success" /\ lines[k].result = "success"
        /\ lines[i].key = lines[k].key
        => i = k

(* An authentication rejection halts the run: the invocation that received   *)
(* one sends nothing more, to this judge or another.                         *)
RejectionEndsCall ==
    [][\A p \in Processes :
          At(p, "loop") /\ process'[p].state = "asked" =>
              process[p].result # "auth_rejected"]_vars

(* The summary tells the truth about a ledger that can be read: complete      *)
(* means that every planned request has its successful line, a halted run is  *)
(* not complete, and one that halted at its limit has sent exactly that many. *)
SummaryHonest ==
    [][\A p \in Processes :
          At(p, "loop") /\ process'[p].state = "ended" /\ Readable(lines) =>
              LET summary == process'[p] IN
                  /\ summary.complete <=>
                        ToSet(Planned(summary.call)) \subseteq Succeeded(lines)
                  /\ summary.halted # None => ~summary.complete
                  /\ summary.halted = "max_requests" => summary.sent = summary.call.max]_vars

(* An attempt stays logged when the request is repeated: lines that ended     *)
(* with their newline never change.                                         *)
AttemptsKept ==
    [][\A i \in DOMAIN lines :
          i < Len(lines) \/ newline => i \in DOMAIN lines' /\ lines'[i] = lines[i]]_vars

(* The report reads the file twice while a run may be appending to it: no     *)
(* judge has fewer attempts than completed requests.                         *)
ReportCoherent ==
    [][report # None /\ report' = None /\ Readable(lines) =>
          \A judge \in Judges :
              Cardinality({key \in report : key[2] = judge}) <= Attempts(Rows, judge)]_vars

(* What is said about the panel is so while others may be at work on it: the    *)
(* summary of an invocation and the report that is read meanwhile.           *)
FiguresHonest == SummaryHonest /\ ReportCoherent
=============================================================================
