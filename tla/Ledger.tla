------------------------------- MODULE Ledger -------------------------------
(***************************************************************************)
(* The append-only attempt ledger of one run: class Ledger of              *)
(* src/draftbench/ledger.py over its SQLite file.  One action is one       *)
(* committed transaction of a public method.  The current state of a work  *)
(* item is not stored: as in the current_states view it is the last event  *)
(* of the item.  Digests are opaque values, the error code of an event is  *)
(* left out, an attempt id is the row number in `attempts` and an event id *)
(* the position in `events`.                                               *)
(***************************************************************************)
EXTENDS Integers, Sequences, FiniteSets

SequenceOps == INSTANCE SequencesExt

CONSTANTS
    Work,         \* work ids
    Plan,         \* the frozen plan: every work id once, in order
    Deps,         \* Deps[w]: the work ids w depends on
    Requests,     \* request digests
    Results,      \* result digests
    Receipts,     \* receipt digests
    MaxRequests,  \* how many attempts the admission policy lets through
    Null          \* SQL NULL in a digest column

(* What _validate_plan leaves true of a plan (its acyclicity is not needed  *)
(* by any theorem about the ledger; see PlanValidation for the algorithm).  *)
ASSUME PlanAssumption ==
    /\ Plan \in Seq(Work)
    /\ \A w \in Work : \E i \in 1..Len(Plan) : Plan[i] = w
    /\ \A i, j \in 1..Len(Plan) : Plan[i] = Plan[j] => i = j
    /\ Deps \in [Work -> SUBSET Work]

ASSUME ValueAssumption ==
    /\ MaxRequests \in Nat
    /\ Null \notin Requests \cup Results

VARIABLES
    events,           \* table events, in event_id order
    attempts,         \* table attempts, in rowid order
    reconciliations,  \* table reconciliations (schema 2 and later)
    retries,          \* table dispatch_retries (schema 3)
    version           \* PRAGMA user_version

vars == <<events, attempts, reconciliations, retries, version>>

-----------------------------------------------------------------------------
(* Rows *)

States == {"planned", "reserved", "in_flight", "result_saved", "completed",
           "failed", "limited", "uncertain", "unavailable", "blocked"}

Moves == [s \in States |->
    CASE s = "planned"      -> {"reserved", "unavailable", "blocked"}
      [] s = "reserved"     -> {"in_flight"}
      [] s = "in_flight"    -> {"result_saved", "failed", "limited", "uncertain"}
      [] s = "result_saved" -> {"completed"}
      [] s = "uncertain"    -> {"result_saved", "reserved"}
      [] OTHER              -> {}]

Attempts == [work : Work, request : Requests]

Events == [work : Work, state : States, attempt : Nat,
           request : Requests \cup {Null}, result : Results \cup {Null}]

Reconciliations == [attempt : Nat, receipt : Receipts, result : Results]

Retries == [attempt : Nat, uncertain : Nat, receipt : Receipts]

(* Mutant: the result column is filled with 0 where it has no value. *)
Unattempted_zero(w, s) ==
    [work |-> w, state |-> s, attempt |-> 0, request |-> Null, result |-> 0]

(* An event of an item that has no attempt yet. *)
Unattempted(w, s) ==
    [work |-> w, state |-> s, attempt |-> 0, request |-> Null, result |-> Null]

(* Mutant: the digest of the answer is not written. *)
Follow_unanswered(e, s, r) == [e EXCEPT !.state = s, !.result = Null]

(* The event that moves an attempted item on to state s with result r. *)
Follow(e, s, r) == [e EXCEPT !.state = s, !.result = r]

-----------------------------------------------------------------------------
(* The current_states view *)

(* Event j is the last one of item w among the first n events. *)
IsLast(w, j, n) ==
    /\ j \in 1..n
    /\ events[j].work = w
    /\ \A k \in 1..n : events[k].work = w => k <= j

LastIndex(w) == CHOOSE j \in 1..Len(events) : IsLast(w, j, Len(events))

Current(w) == events[LastIndex(w)]

State(w) == Current(w).state

InState(s) == {w \in Work : State(w) = s}

(* Mutant: the dependency check is dropped. *)
DependenciesCompleted_unchecked(w) == w \in Work

DependenciesCompleted(w) == \A d \in Deps[w] : State(d) = "completed"

(* The one attempt of item w, if it is in the given state. *)
Holds(a, s) ==
    /\ a \in 1..Len(attempts)
    /\ State(attempts[a].work) = s
    /\ Current(attempts[a].work).attempt = a

-----------------------------------------------------------------------------
(* The schema's BEFORE INSERT triggers.  cs, rs and v are the extension     *)
(* tables and the schema version as the transaction has left them so far.   *)

AttemptsGuard(w) ==
    /\ \A a \in 1..Len(attempts) : attempts[a].work # w
    /\ State(w) = "planned"
    /\ DependenciesCompleted(w)

EventsGuard(e, as, cs, rs, v) ==
    LET c == Current(e.work) IN
    \/ /\ c.state = "planned"
       /\ e.state \in {"unavailable", "blocked"}
       /\ \A a \in 1..Len(as) : as[a].work # e.work
    \/ /\ c.state = "planned"
       /\ e.state = "reserved"
       /\ e.attempt \in 1..Len(as)
       /\ as[e.attempt] = [work |-> e.work, request |-> e.request]
       /\ DependenciesCompleted(e.work)
    \/ /\ e.attempt # 0
       /\ c.attempt = e.attempt
       /\ c.request = e.request
       /\ \/ c.state = "reserved" /\ e.state = "in_flight"
          \/ /\ c.state = "in_flight"
             /\ e.state \in {"result_saved", "failed", "limited", "uncertain"}
          \/ /\ c.state = "result_saved" /\ e.state = "completed"
             /\ c.result = e.result
          \/ /\ v >= 2
             /\ c.state = "uncertain" /\ e.state = "result_saved"
             /\ \E row \in cs : row.attempt = c.attempt /\ row.result = e.result
          \/ /\ v = 3
             /\ c.state = "uncertain" /\ e.state = "reserved"
             /\ \E row \in rs : /\ row.attempt = c.attempt
                                /\ row.uncertain = LastIndex(e.work)

ReconciliationsGuard(row) == Holds(row.attempt, "uncertain")

RetriesGuard(row) ==
    /\ \A r \in retries : r.attempt # row.attempt
    /\ Holds(row.attempt, "uncertain")
    /\ row.uncertain = LastIndex(attempts[row.attempt].work)

-----------------------------------------------------------------------------
(* The rows each transaction inserts *)

ReservedEvent(w, q) ==
    [Unattempted(w, "reserved") EXCEPT !.attempt = Len(attempts) + 1,
                                       !.request = q]

AttemptRow(w, q) == [work |-> w, request |-> q]

(* Mutant: the attempt is not passed on to _append, where it may be left out. *)
Inflight_unattempted(w) == Unattempted(w, "in_flight")

Inflight(w) == Follow(Current(w), "in_flight", Null)

RetryRow(a, k) ==
    [attempt |-> a, receipt |-> k, uncertain |-> LastIndex(attempts[a].work)]

ReconciliationRow(a, r, k) == [attempt |-> a, receipt |-> k, result |-> r]

(* Schema 1 grows the reconciliation table, any older schema the retry one. *)
RetryVersion == 3

(* Mutant: the upgrade also runs when the schema is already 3. *)
ReconcileVersion_reset == 2

ReconcileVersion == IF version = 1 THEN 2 ELSE version

-----------------------------------------------------------------------------
(* The transactions *)

Init ==
    /\ events = [i \in 1..Len(Plan) |-> Unattempted(Plan[i], "planned")]
    /\ attempts = <<>>
    /\ reconciliations = {}
    /\ retries = {}
    /\ version = 1

(* Append one event and change no other table. *)
Insert(e) ==
    /\ EventsGuard(e, attempts, reconciliations, retries, version)
    /\ events' = Append(events, e)
    /\ UNCHANGED <<attempts, reconciliations, retries, version>>

(* policy.admit, or the token and cost comparisons written out in reserve: *)
(* each is a bound on the number of attempts, this one included.           *)
Admits(count) == count <= MaxRequests

CanReserve(w) ==
    /\ State(w) = "planned"
    /\ DependenciesCompleted(w)
    /\ Admits(Len(attempts) + 1)

Reserve(w, q) ==
    LET e == ReservedEvent(w, q)
        as == Append(attempts, AttemptRow(w, q))
    IN  /\ CanReserve(w)
        /\ AttemptsGuard(w)
        /\ EventsGuard(e, as, reconciliations, retries, version)
        /\ attempts' = as
        /\ events' = Append(events, e)
        /\ UNCHANGED <<reconciliations, retries, version>>

Start(a) ==
    /\ Holds(a, "reserved")
    /\ Insert(Inflight(attempts[a].work))

RecordResult(a, r) ==
    /\ Holds(a, "in_flight")
    /\ Insert(Follow(Current(attempts[a].work), "result_saved", r))

Complete(a) ==
    /\ Holds(a, "result_saved")
    /\ Insert([Current(attempts[a].work) EXCEPT !.state = "completed"])

Fail(a, s) ==
    /\ s \in {"failed", "limited"}
    /\ Holds(a, "in_flight")
    /\ Insert(Follow(Current(attempts[a].work), s, Null))

Skip(w, s) ==
    /\ s \in {"unavailable", "blocked"}
    /\ State(w) = "planned"
    /\ Insert(Unattempted(w, s))

(* One transaction marks every interrupted item.  The query orders them by *)
(* work id, which is a hash: any order.                                    *)
Recover ==
    /\ InState("in_flight") # {}
    /\ \A w \in InState("in_flight") :
          EventsGuard(Follow(Current(w), "uncertain", Null),
                      attempts, reconciliations, retries, version)
    /\ \E f \in SequenceOps!SetToSeqs(InState("in_flight")) :
        events' = events \o [i \in 1..Len(f) |->
                                Follow(Current(f[i]), "uncertain", Null)]
    /\ UNCHANGED <<attempts, reconciliations, retries, version>>

(* Mutant: nothing refuses a second retry of the same attempt. *)
CanRetry_again(a) == Holds(a, "uncertain")

CanRetry(a) ==
    /\ Holds(a, "uncertain")
    /\ version = 3 => \A r \in retries : r.attempt # a

AuthorizeUnsentRetry(a, k) ==
    LET c == Current(attempts[a].work)
        e == Follow(c, "reserved", Null)
        rs == retries \cup {RetryRow(a, k)}
    IN  /\ CanRetry(a)
        /\ RetriesGuard(RetryRow(a, k))
        /\ EventsGuard(e, attempts, reconciliations, rs, RetryVersion)
        /\ retries' = rs
        /\ events' = Append(events, e)
        /\ version' = RetryVersion
        /\ UNCHANGED <<attempts, reconciliations>>

(* A repeated call with the same digests returns before it writes, and one *)
(* with other digests is refused: neither changes the state.               *)
CanReconcile(a) ==
    /\ version >= 2 => \A row \in reconciliations : row.attempt # a
    /\ Holds(a, "uncertain")

ReconcileResult(a, r, k) ==
    LET e == Follow(Current(attempts[a].work), "result_saved", r)
        cs == reconciliations \cup {ReconciliationRow(a, r, k)}
    IN  /\ CanReconcile(a)
        /\ ReconciliationsGuard(ReconciliationRow(a, r, k))
        /\ EventsGuard(e, attempts, cs, retries, ReconcileVersion)
        /\ reconciliations' = cs
        /\ events' = Append(events, e)
        /\ version' = ReconcileVersion
        /\ UNCHANGED <<attempts, retries>>

Next ==
    \/ \E w \in Work, q \in Requests : Reserve(w, q)
    \/ \E w \in Work, s \in {"unavailable", "blocked"} : Skip(w, s)
    \/ \E a \in 1..Len(attempts) : Start(a) \/ Complete(a)
    \/ \E a \in 1..Len(attempts), r \in Results : RecordResult(a, r)
    \/ \E a \in 1..Len(attempts), s \in {"failed", "limited"} : Fail(a, s)
    \/ Recover
    \/ \E a \in 1..Len(attempts), k \in Receipts : AuthorizeUnsentRetry(a, k)
    \/ \E a \in 1..Len(attempts), r \in Results, k \in Receipts :
            ReconcileResult(a, r, k)

Spec == Init /\ [][Next]_vars

-----------------------------------------------------------------------------
(* _verify_history, run whenever a ledger is opened and at the end of the   *)
(* two recovery transactions: replay the events and hold them against the   *)
(* other tables.                                                            *)

(* The extension tables as far as the schema version says they exist. *)
SeenRetries == IF version = 3 THEN retries ELSE {}

SeenReconciliations == IF version >= 2 THEN reconciliations ELSE {}

(* Event p is the one that item events[i].work had reached before event i. *)
Precedes(p, i) == IsLast(events[i].work, p, i - 1)

RetryMove(p, i) ==
    events[p].state = "uncertain" /\ events[i].state = "reserved"

RecoveryMove(p, i) ==
    events[p].state = "uncertain" /\ events[i].state # "reserved"

MoveVerifies(p, i) ==
    /\ events[i].state \in Moves[events[p].state]
    /\ RetryMove(p, i) =>
          \E row \in SeenRetries : row.attempt = events[i].attempt /\ row.uncertain = p
    /\ RecoveryMove(p, i) =>
          \E row \in SeenReconciliations : /\ row.attempt = events[i].attempt
                                           /\ row.result = events[i].result
    /\ events[i].state = "completed" => events[i].result = events[p].result

(* Every dependency had completed when item events[i].work was reserved,    *)
(* and a second reservation is a retry.                                     *)
ReservationVerifies(i) ==
    /\ \A d \in Deps[events[i].work] :
          \E j \in 1..(i - 1) : IsLast(d, j, i - 1) /\ events[j].state = "completed"
    /\ (\E j \in 1..(i - 1) : /\ events[j].work = events[i].work
                              /\ events[j].state = "reserved") =>
          \E p \in 1..(i - 1) : Precedes(p, i) /\ RetryMove(p, i)

EventVerifies(i) ==
    /\ \/ /\ events[i].state = "planned"
          /\ \A j \in 1..(i - 1) : events[j].work # events[i].work
       \/ \E p \in 1..(i - 1) : Precedes(p, i) /\ MoveVerifies(p, i)
    /\ events[i].attempt # 0 =>
          /\ events[i].attempt \in 1..Len(attempts)
          /\ attempts[events[i].attempt] =
                 AttemptRow(events[i].work, events[i].request)
    /\ events[i].state = "reserved" => ReservationVerifies(i)

(* Each row of an extension table explains exactly one event. *)
ExtensionsVerify ==
    /\ \A row \in SeenRetries :
          \E i \in 1..Len(events), p \in 1..Len(events) :
              /\ Precedes(p, i) /\ RetryMove(p, i)
              /\ events[i].attempt = row.attempt
    /\ \A row \in SeenReconciliations :
          \E i \in 1..Len(events), p \in 1..Len(events) :
              /\ Precedes(p, i) /\ RecoveryMove(p, i)
              /\ events[i].attempt = row.attempt

AttemptsVerify ==
    /\ \A a, b \in 1..Len(attempts) : attempts[a].work = attempts[b].work => a = b
    /\ \A w \in Work :
          (\E a \in 1..Len(attempts) : attempts[a].work = w) <=>
          (\E i \in 1..Len(events) : events[i].work = w /\ events[i].state = "reserved")

(* Mutant: the bound was not raised when retries were added. *)
EventBound_unraised == 6 * Len(Plan)

(* Six events for an item, three more for one that was retried. *)
EventBound == 6 * Len(Plan) + 3 * Cardinality(SeenRetries)

-----------------------------------------------------------------------------
(* Properties *)

(* Every table holds rows of its own shape and the schema version is one    *)
(* that _verify knows.                                                      *)
TypeOK ==
    /\ events \in Seq(Events)
    /\ attempts \in Seq(Attempts)
    /\ reconciliations \subseteq Reconciliations
    /\ retries \subseteq Retries
    /\ version \in 1..3

(* Whatever legal calls are made, in whatever order and across the schema   *)
(* upgrades of the recovery calls, the file they leave is one that the next *)
(* open accepts: _verify_history never refuses a history the API produced,  *)
(* and the check that ends a recovery transaction never rolls it back.      *)
HistoryVerifies ==
    /\ \A i \in 1..Len(events) : EventVerifies(i)
    /\ \A w \in Work : \E i \in 1..Len(events) : events[i].work = w
    /\ ExtensionsVerify
    /\ AttemptsVerify

(* The replay's bound on the number of events, six per planned item and     *)
(* three per retry, is never reached by a history the API produced.         *)
EventsWithinBound == Len(events) <= EventBound

(* The triggers in force let this row in as the only new one. *)
TriggersPass(e) == EventsGuard(e, attempts, reconciliations, retries, version)

(* The triggers of the schema in force never abort a call that the Python   *)
(* checks let through, whichever of the nine: the two copies of the         *)
(* transition rules agree, also right after a recovery call upgraded the    *)
(* schema.  What recover adds for one item leaves the others as they are,   *)
(* so that its rows are judged one by one.                                 *)
TriggersAgree ==
    /\ \A w \in Work, q \in Requests : CanReserve(w) =>
          /\ AttemptsGuard(w)
          /\ EventsGuard(ReservedEvent(w, q), Append(attempts, AttemptRow(w, q)),
                         reconciliations, retries, version)
    /\ \A w \in Work, s \in {"unavailable", "blocked"} :
          State(w) = "planned" => TriggersPass(Unattempted(w, s))
    /\ \A a \in 1..Len(attempts) :
          Holds(a, "reserved") => TriggersPass(Inflight(attempts[a].work))
    /\ \A a \in 1..Len(attempts), r \in Results :
          Holds(a, "in_flight") =>
              TriggersPass(Follow(Current(attempts[a].work), "result_saved", r))
    /\ \A a \in 1..Len(attempts) :
          Holds(a, "result_saved") =>
              TriggersPass([Current(attempts[a].work) EXCEPT !.state = "completed"])
    /\ \A a \in 1..Len(attempts), s \in {"failed", "limited"} :
          Holds(a, "in_flight") => TriggersPass(Follow(Current(attempts[a].work), s, Null))
    /\ \A w \in InState("in_flight") :
          TriggersPass(Follow(Current(w), "uncertain", Null))
    /\ \A a \in 1..Len(attempts), k \in Receipts : CanRetry(a) =>
          /\ RetriesGuard(RetryRow(a, k))
          /\ EventsGuard(Follow(Current(attempts[a].work), "reserved", Null),
                         attempts, reconciliations,
                         retries \cup {RetryRow(a, k)}, RetryVersion)
    /\ \A a \in 1..Len(attempts), r \in Results, k \in Receipts : CanReconcile(a) =>
          /\ ReconciliationsGuard(ReconciliationRow(a, r, k))
          /\ EventsGuard(Follow(Current(attempts[a].work), "result_saved", r),
                         attempts,
                         reconciliations \cup {ReconciliationRow(a, r, k)},
                         retries, ReconcileVersion)

(* The abstract view of the ledger: the phase and the answer of each item   *)
(* and how often it was handed to a model.                                  *)
PhaseOf(s) ==
    CASE s \in {"planned", "reserved"} -> "idle"
      [] s = "in_flight" -> "sending"
      [] s = "uncertain" -> "unknown"
      [] s \in {"result_saved", "completed"} -> "settled"
      [] OTHER -> "closed"

Sends(w) ==
    Cardinality({i \in 1..Len(events) :
                    events[i].work = w /\ events[i].state = "in_flight"})

Abstract == INSTANCE Dispatch WITH
    NoResult <- Null,
    phase <- [w \in Work |-> PhaseOf(State(w))],
    answer <- [w \in Work |-> Current(w).result],
    sends <- [w \in Work |-> Sends(w)]

(* The ledger implements Dispatch: no item is sent a third time, a second   *)
(* time only after an operator's statement, or before its dependencies      *)
(* settled, and what settled or closed stays as it is.                      *)
ImplementsDispatch == Abstract!Spec
=============================================================================
