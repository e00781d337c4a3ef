# A verification project for draftbench

draftbench runs language models over a frozen suite of writing cases: a writer
drafts, a reviewer reviews, a revision uses both, a second review looks at the
revision. Each request costs money and must not be sent twice by accident, and
what was asked, answered and paid must be provable from the files that are left.
Most of the code is therefore about state that outlives its process: an
append-only attempt ledger, a budget shared by several runs, content-addressed
objects, receipts of failures, and the commands with which an operator resumes,
retries or reconciles. That core is what this project models, checks and proves.

Paths below are relative to `src/draftbench/` unless they say otherwise.

## 1. Inventory

### Components, state, operations

| Component | State it keeps | Operations that change it |
| --- | --- | --- |
| attempt ledger (`ledger.py`) | SQLite: frozen plan, `attempts`, append-only `events`, `reconciliations`, `dispatch_retries`, schema version 1..3 | create, reserve, start, record_result, complete, fail, skip, recover, authorize_unsent_retry, reconcile_result |
| campaign budget (`campaign.py`) | SQLite: ceiling or tracking only, `reservations` | create, reserve |
| artifact store (`store.py`) | files named by the digest of their bytes | put |
| provider run (`provider_workflow.py`, `provider_reporting.py`, `provider_recovery.py`) | a directory with `run.lock`, ledger, objects and receipt files; the local variables of a process | run, resume, authorize an unsent retry, reconcile; report and snapshot read only |
| provider adapters (`adapters/`) | none | invoke: at most one request |
| admission policies (`adapters/token_budget.py`, `adapters/pilot_policy.py`, `adapters/inspect.py`) | none | admit |
| synthetic and inspect runs (`workflow.py`) | as a provider run, without budget or operator commands | run, resume |
| pilot (`pilot.py`) | plan packet, one campaign, one run directory per model, replay request and response files, code approvals | prepare, run, retry_unsent, recover_receipt |
| judge panel (`judge/`) | panel, append-only `ledger.jsonl` | run |
| judge report (`judge/report.py`) | none | tallies, consensus, rankings |
| annotation store (`annotation_store.py`) | SQLite: append-only records | append |
| annotation sessions (`annotation.py`) | session files, a store | create, import responses, status, export |
| scoring (`scoring/`) | none | matching of findings and decisions, constraints |
| reports and releases (`reporting.py`, `release.py`) | write-once output directories | write_report, export_release |
| suites, models, replay contract, CLI, credentials | none | validation and parsing |

### How they interact

* `provider_workflow._drive` holds the run lock and calls, in this order for
  each item: the store (request), the ledger (reserve), the campaign (reserve),
  the ledger (start), the adapter, the store (answer), and then either the
  ledger twice (result, completion) or a receipt file and the ledger once.
  Every one of these is durable by itself; a process may die between any two.
* Two runs meet only in the campaign's file. Two processes on one run directory
  meet at `run.lock`, which is not waited for.
* Every command verifies the run before it changes anything (`_manifest`,
  `_report`, and `Ledger._verify` at the open). This is what makes a fault
  permanent: a state that the verification refuses can never be left again.
* The provider and the operator are outside. The provider receives a request or
  not, and an answer arrives or not; the operator may state that a request was
  never sent.
* The pilot drives runs of several models one step at a time inside one
  campaign. Judges, annotations and reports read what finished runs left.

### What is hard

`PROJECT.json` lists the hazards with their lines. In groups:

* **death between two durable steps**: in an item of a run, in a receipt file,
  between the two databases, in a store's put, in a reconciliation;
* **double work**: a request sent again by a resume, by a second process, by a
  retry, or after a lost commit;
* **self-refusal**: a legal sequence of calls that leaves a file which the
  verification of the next open refuses;
* **two copies of one rule**: the transitions are written in Python, in three
  versions of a trigger, and in the replay;
* **interleaving**: puts of the same bytes, reservations at the ceiling,
  processes on one directory;
* **arithmetic**: rounding of money, the bound on events, Kahn's counters.

### What makes each component correct

* ledger: an item is sent at most once and once more on an operator's statement,
  after what it depends on, and what settled stays; a history the API wrote
  always verifies; triggers and Python agree; plans are judged correctly.
* campaign: exact amounts granted never exceed the ceiling; a grant is for good.
* store: no incomplete bytes under a name; what was acknowledged survives.
* provider run: delivered once, funded before it is sent, never refused by its
  own ledger, always able to reopen, and nothing in flight for ever.
* offline runs: an item is handed to the adapter once, whatever dies, and the
  summary and the check of the run agree with the files.
* policies: no run spends beyond its caps, and none is refused that would not.
* pilot: a request is sent only when everything it waits for is there; a stop
  has a cause; the command says how it ended as it is.
* judges: no presentation is paid for twice, a rejected credential ends the
  call, figures come from whole records and count everyone alike.
* annotations: batches are atomic, the limits of the writer and of the reader
  agree, stale adjudications do not count.
* scoring: order does not choose winners, abstention does not improve a rate,
  missing evidence decides nothing.
* reports and releases: no torn directory is read, a report is about one state
  of its run, what leaves is what was approved.

## 2. Plan

Built, in order of importance:

1. `Dispatch`, `Ledger`: the promise of a ledger and the ledger, one action per
   transaction; the second implements the first.
2. `Campaign`, `CampaignCallers`, `TokenBudget`: money between runs and in one.
3. `ProviderRun`: composes `Ledger` and `Campaign` with locks, objects,
   receipts, the provider and deaths. `SyntheticRun`: the offline loop over
   `Ledger`, and the creation of a run directory. `LocalRuns`: offline runs and
   panels of judges side by side; they share no state.
4. `Pilot`: several runs, each abstracted to what the pilot reads of it, one
   campaign and its journal, replay files, code approvals; implements `Dispatch`.
5. `JudgeRun`, `JudgeVerdicts`, `JudgeReport`: panels from the request to the
   figures.
6. `AnnotationStore`, `AnnotationSession`, `Reports`: records from their import
   to a release. `Annotations` composes them, over `Filters`.
7. `ArtifactStore`, `PlanValidation`, `Scoring`: the store, and pure algorithms.
   `Parts` composes these with the reading of replies and the judge report.
8. `LedgerProofs`, `FoldFacts`, `CampaignProofs`, `ProviderRunProofs` (which
   rests on the proofs of the ledger and of the campaign), `PartsProofs`,
   `LocalRunsProofs` (over those of the ledger), `AnnotationProofs`,
   `PilotProofs`.

Left: the reports on provider runs (section 7).

Bounds: two or three items are enough to have an item with one dependency, one
with two, and two that are unrelated; one attempt each is the schema's limit;
two processes race, a third adds nothing under one lock.

## 3. The modules

### Dispatch, Ledger

`Dispatch.tla` knows of each item a phase, an answer and how often it was sent.
`Ledger.tla` is class `Ledger`: the variables are the tables, one action is one
committed transaction. An attempt id is a row number, an event id a position,
digests are opaque values, and the error code of an event is left out, as
nothing decides on it. Each action carries three guards as the code does: the
Python checks (`CanReserve`, `Holds`, `CanRetry`, `CanReconcile`), the triggers
of the schema version in force (`AttemptsGuard`, `EventsGuard`, ...), and for
the two recovery calls the replay `_verify_history` at the end of the
transaction, which is the subject of `HistoryVerifies` and therefore not a guard
(if it could fail, that property would be violated). That the triggers refuse
nothing that the Python checks of the nine calls let through, so that the second
guard disables no action, is `TriggersAgree`. `Admits` abstracts the
policies to the number of attempts, of which every policy is a monotone
function. A refused call changes nothing and is not an action. SQLite's
transactions are taken to be atomic and durable.

### Campaign, CampaignCallers

`Campaign.tla` is class `CampaignBudget`: an amount is an exact ratio, the file
holds units rounded up. `CampaignCallers.tla` adds callers that are inside
`reserve`, and die: before the commit, or after it and before they hear of it.

### ProviderRun

One run directory. The ledger and the campaign are the modules above, as
instances; `objects` and `receipts` are the files; `proc[p]` holds the local
variables of `_drive`: the position in the plan, the steps taken, the review
input passed, the envelope and the outcome. One action is the code between two
durable writes, so that `Dies` can come at each of the boundaries the code has.
The actions follow the loop:

| Code of `_drive` | Action |
| --- | --- |
| open, `_report`, `recover` | `Resume` (guard `Enter`) |
| `result_saved` is completed, other states are passed | `CompleteSaved`, `Pass` |
| `max_steps`, no review input, end of the plan | `Stop` |
| unknown input, unfinished dependency | `SkipItem` |
| envelope and `put_json` | `PutRequest` |
| admission and `reserve`, or the reservation on record | `ReserveLocally`, `ReuseReservation`, `NotAdmitted` |
| `campaign.reserve` | `Fund`, `Unfunded` |
| `start` | `StartLocally` |
| `invoke` | `Reaches`, `NeverLeaves`, `Answers` |
| `put_json(result)` | `PutResult` |
| `record_result`, `complete` | `RecordSuccess`, `CompleteItem` |
| `_write_receipt` | `CreateReceipt`, `WriteReceipt` |
| `recover` or `fail` | `Settle` |
| `authorize_unsent_provider` | `AuthorizeUnsent` |
| `reconcile_provider` | `Reconcile`, `ReconcileAgain`, `FinishReconciled` |

An envelope is a record of the item, its parents' digests and the review input;
its digest is itself. The initial state is that of a created run, and the first
`Resume` stands for the `_drive` that `run_provider` goes on to. The evidence
object of a retry is stored before the row that refers to it and by the same
command, and is left out.

The operator is external and tells the truth (`OperatorConfirms`): the code
checks that the receipt is one of a connection error without an answer, but
whether the request left cannot be seen from the files. `DeliveredOnce` rests
on that assumption, as the documentation says it does.

### SyntheticRun

`workflow.py`: `run_synthetic` makes the directory in the order of `Steps`, one
action each, and goes on to the loop; `resume_synthetic` opens and checks it
(`OpenRun`, `Verifies`) first. The loop is the one of `ProviderRun` without
money and operator; what differs is modelled where it differs: the fake adapter
fails without a receipt, the Inspect fixture writes one, and the summary at the
end counts (`SummaryHonest`). `Ledger` is an instance, so each durable step is
one of its transactions. What a run does is fixed by its manifest, one of
`Manifests`, chosen at the start: the adapter, the items and, for the Inspect
fixture, a policy, which counts requests only (`Admitted`). A partial directory
is refused by the code and stays (`Reached`, `BlockedForGood`).

### TokenBudget

Admission in tokens and money for the three kinds of policy, with the decimal
precision that the code sets (`Precision`, `Rounded`), and what an answer
settles and books. Money is an integer in a unit in which every quotient that
the code forms is exact, so that what is lost is only what the precision loses.
`Power` and `Digits` are recursive functions in a LET, so that they can be proved
about; `Money` and `PolicyShape` say what the validation of a policy leaves, and
are assumed of the policies. The number of fractional digits, the tokens a rate
is for and the base are constants; the eight, the million and the ten of the
code meet their assumptions (`Fraction >= 3`, `Base >= 10`).

### Pilot

One command at a time, under the lock of the packet; `command.pc` is where it
is. The loop of `run` over the models is `NextModel` and `Enter`, the
part of a run that the pilot sees is `Take`, `Reserve`, `Fund`, `Start`,
`Answer`, `Complete`, and `Finish` compares the states before and after, as the
code does. `Dies` can come anywhere and leaves files torn, and, when it comes
within the campaign's transaction, a hot journal. Responses, retries, recovered
receipts and a repair of the code are the operator's.

| Code of `pilot.py` | Action |
| --- | --- |
| `prepare` | `Prepare`, `WritePlan` |
| plan check and code approval | `Checked`, `RecordApproval`, `WriteApproval` |
| `run`, the loop over the models | `Run`, `NextModel`, `Enter`, `CreateRun`, `CreateLedger` |
| `_validate_outputs`, a stop | `ValidOutputs`, `StopInvalid` |
| replay requests | `CreateReplayRequest`, `WriteReplayRequest` |
| waiting, admission stopped, complete | `Wait`, `Unfunded`, `RunFinished`, `Finish` |
| `retry_unsent`, `recover_receipt` | `RetryUnsent`, `RecoverReceipt` |

### JudgeRun, JudgeVerdicts, JudgeReport

`JudgeRun` is `run` of `judge/run.py`: the decision whether to create the lock
file (`Arrive`), its opening and locking (`OpenLock`, `Flock`), the one read of
the ledger (`ReadLedger`), the loop with its limit (`HaltAtLimit`) and its halt
(`HaltOnRejection`), and one appended line per answer (`WriteLine`), which a
death or a full disk can cut off (`WriteStops`). `FirstRead` and `SecondRead`
are those of `build_report`, which takes no lock. What a reply becomes is in
`Jev` and `Generative` as far as the loop asks, and in `JudgeVerdicts` in full.
`JudgeReport` has the figures, for one criterion: tallies, the family-blind
consensus, the combination of panels, agreement, pointwise scores, and
Spearman's formula over ranks. Bradley-Terry is floating-point and stands for
any ranking.

### AnnotationStore, AnnotationSession, Reports

`AnnotationStore` is the SQLite file with several connections: a batch is
checked (`Submit`), begun (`Begin`, `Busy`), inserted record by record (`Keep`,
`Refuse`) and committed or rolled back; a death leaves the journal, which the
next writable open rolls back and a read-only open refuses. `AnnotationSession`
has the session directory, made part by part, the import of originals and
adjudications, and what counts as a dispute, as resolved, and as selectable for
a report; its calls hold one lock from beginning to end and are one step each.
`Reports` has the operator's commands over a run that goes on: preparation, the
reads of snapshot, bundle, bindings and annotations one after another, the
write-once directories, replay, check, approval and export.

### Scoring

`Scoring.tla` has the rules of `scoring/` as operators. `FindingScores`,
`DecisionScores` and `CheckScores` enumerate their small inputs and hold the
properties, each against a reference definition or a change of the input that
must not matter.

### ArtifactStore

`put` with every system call that matters its own step, a page cache, and a
power loss that keeps of each unsynced file and entry either version.

### PlanValidation

`_validate_plan`: the scan, then Kahn's queue one item at a time.

### MC modules

They give the constants small values. Components that do not interact share a
run: a variable `subject` says which of them a behaviour is about and the others
stay as they are, and a property is stated for its subject. Three compositions
of this kind are modules of their own, because theorems speak of them, and hold
the assumptions about their constants: `LocalRuns` (offline runs, panels),
`Parts` (the store, the plan check, the scores, replies, the judge report and
the admission under a policy)
and `Annotations` (store, session, reports, release). `MCParts` and
`MCAnnotations` only give the last two their values; `MCRuns` is `LocalRuns`
without panels, and adds a ledger of two items by itself; `MCProgress` (provider
run, pilot, panel, plan check) composes. `MCLedger`, `MCMoney` (the callers of a
campaign), `MCProviderRun`, `MCPilot` and `MCJudgeRun` have one component each.

## 4. What the runs show

| Run | Instance | Shows |
| --- | --- | --- |
| `ledger_chain` | three items, w2 needs w1, w3 needs both; two answers | `TypeOK`, `HistoryVerifies`, `EventsWithinBound`, `TriggersAgree`, and that the ledger implements `Dispatch` |
| `ledger_users` | two unrelated items, which can be in flight together; runs of three manifests (fake; Inspect with a revision of unknown input; Inspect with room for one request), two processes, two steps, up to three deaths | `PairDispatches`, with one `recover` that interrupts both; `OfflineInvokedOnce`, `OfflineIsHonest` |
| `money` | two callers, three attempts, 2 dollars in halves | `GrantedWithinCeiling`, `GrantsRecorded` |
| `provider_shared` | writer and revision, two processes, two review inputs, a campaign that another run drains | `DeliveredOnce`, `FundedBeforeSent`, `NeverRefused`, `RunReopens` |
| `provider_alone` | no campaign, an item of unknown input, admission for one request | `ImplementsLedger`: every step is one of the ledger |
| `provider_torn_receipt` | one item, deaths anywhere, fair resumption | a violation, see below |
| `progress` | fair: one item and two processes; one model and a ceiling of three; two invocations of the judges; plans of two rows | `InterruptedRecovered`, `CommandsEnd`, and that the pilot implements `Dispatch` (`PilotDispatches`) |
| `parts` | the store with two digests, two writers, three files; all small inputs of the algorithms; three attempts under policies of every kind | `NeverTorn`, `AckedSurvives`; `VerdictIsRight`, `FindingsAreFair`, `DecisionsAreFair`, `ChecksNeedEvidence`, `RepliesAreWhole`, `ConsensusIsBlind`, `JudgeFiguresRight`; `AdmissionExact`, `CapsHold` |
| `annotations` | five records, limits of two records and four bytes; two raters and two cases; two commands; an operator with three commands | `BatchesWhole`, `LimitsAgree`, `SessionIsSound`, `ReportsAreCurrent`, `ReleasesAreApproved` |
| `pilot` | two models, room for six or eight requests | `SentWhenCleared`, `OutcomeIsHonest`, `StoppedForCause` |
| `pilot_order` | two models, room for eight | a violation, see below |
| `judge_run` | two processes, a judge of either kind, two calls, one fault | `OneSuccessPerKey`, `RejectionEndsCall`, `FiguresHonest` |

Why the bounds are enough. An item has one attempt, an attempt one retry and one
reconciliation (primary keys), so a history is finite and the ledger runs
explore all of it. What relates items is a dependency, for which one and two
suffice, or being in flight together, for which two suffice. The replay's bound
is reached only by retries, and three items that are all retried and reconciled
are in `ledger_chain`. In `provider_shared` the steps of a process are bounded
by `MaxSteps = 1`, and any number of processes follow each other, so that a run
is resumed after each step; `provider_alone` has two steps. A pilot of two models
has a model before and one behind, and six of eight requests exhaust the
campaign within the second run. One torn line stops the judge ledger for good,
so a second fault adds nothing; two processes are one that holds the lock and
one that does not. The limits of the annotation store are reached by two
batches. The caps of the policies lie at, below and above the price of one and
of two attempts, which is where an admission can be wrong. Deadlock checking is
off where the system has an end (all items closed, a decided plan, no files
left, the bounded number of commands used up).

### The findings

**A torn receipt.** `_write_receipt` (`workflow.py:453-464`) creates the receipt
file and then writes it. A process that dies between the two leaves an empty
file. `_drive` calls `_report` before `recover`, `_report` reads every receipt
that exists, and an empty one is refused: the run can be neither resumed,
retried nor reconciled, and its item stays in flight. The documentation says
that "Crashes after `in_flight` become uncertain"
(`schemas/OPENAI_CONTRACT.md:116`); the run `provider_torn_receipt` checks that
sentence and TLC finds the behaviour. `RunReopens` and `InterruptedRecovered`
are what holds instead, with the exception spelled out (`Torn`), so that they
show this is the only one. Nothing is sent twice by it: it fails safe.

**The order of validation.** The docstring of `pilot.run` says of a resume that
it "validates every completed output before spending anything else"
(`pilot.py:549`, `552-553`). The loop validates a run when its turn comes
(`pilot.py:600`): with an invalid output on record in a later run, a run before
it that waited for a response is driven on and spends first. The run
`pilot_order` shows it; `SentAfterValid`, a part of `SentWhenCleared`, is what
holds: within one run nothing is sent after an invalid output.

**Two disagreements without a run.** A death in the middle of a line of the
judge ledger leaves a partial line, which `read_ledger` refuses from then on,
where `schemas/JUDGE_CONTRACT.md:61-62` says that a resume skips completed keys
and that all failures but a rejected credential are recorded and passed (`judge/run.py:188`;
the model has such lines and nothing but a refusal follows them). And the plan
check opens the campaign read-only, which refuses a hot journal, so that after a
death within its transaction every later command is refused
(`pilot.py:332`), where `schemas/campaign-budget-v1.md:79` speaks of a rollback
at the next open. Both follow from one refusal in the code and need no search.

## 5. Fairness

* `WF_vars(Drive(p))` of a provider run: a process that holds the lock goes on
  unless it dies. The loop has no wait of its own; a request ends by the
  client's timeout (`timeout_seconds`, `max_retries=0`). A policy may leave the
  timeout out, and then the assumption is on the connection.
* `SF_vars(Resumes)`: an operator who may resume does so sooner or later. This
  is the operating procedure (`schemas/PILOT_OPERATOR.md`), not the code; it is
  strong because a process holding the lock disables the command again and
  again. Neither deaths nor the answers of a provider are fair.
* `FairProgress` of `MCProgress` adds weak fairness of a step of the pilot's
  command, of the plan check, and of each process of a panel (`Goes`,
  `GoesOn`): sequential code that was started runs on. That a command ends
  (`CommandsEnd`) is then a matter of its loop: the pilot comes round to a model
  again only after progress, which it tells by comparing states.

## 6. Proofs

All for every value of the constants, under the assumptions stated by name in
the modules.

* `LedgerProofs` (assumptions `PlanAssumption`, `ValueAssumption`): `TypeCorrect`
  and `OwnHistoryVerifies`. `HistoryVerifies` is not inductive by itself. It
  says of each event that its predecessor explains it, but to extend a history
  one must know more about the present: that each item has a last event and it
  carries the one attempt of the item (`Present`), that tables which the schema
  version does not have are empty (`NoTableNoRows`), since an upgrade makes
  their rows count, and that the dependencies of an item with an attempt have
  completed for good (`PromptsSettled`). `IInv` is the conjunction, checked with
  TLC before it was proved. The proof has one lemma per action; the common part,
  what appending one event does to the last events of all items and to the
  verification of the earlier ones, is in lemmas about a prefix of a history.
  `TriggersNeverAbort` speaks of all nine calls that write: where the Python of a
  call says yes, the triggers of the schema in force say yes to every row it goes
  on to insert. `IInv` is enough for eight of them; `recover` takes the attempt
  from the last event of the item, and that it is there (`FlightsAttempted`) is
  an invariant of its own: only `start` puts an item in flight, and names it.
  `HistoryWithinBound` needs `RInv`, which adds that each event has a higher rank
  than the earlier ones of its item (`Ranked`; a retry, of which there is one per
  attempt, lifts the rank by three) and that each retry is of an attempt: an
  item has as many events as ranks, and the rest is counting finite sets.
  `LedgerImplementsDispatch` is the refinement that `ledger_chain` checks: each
  transaction is the step of `Dispatch` of its item, `Recover` interrupts at
  once all that is in flight, and the others stutter. The lemmas named
  `...Moves` say what a transaction does to the current state of every item;
  the proofs about runs use nothing else of the ledger.
* `FoldFacts`: lemmas about what recursion over finite data gives: the members
  of a sequence that a filter keeps, in their order (`OnlyPicks`), and sums of
  weights over a finite set, by induction over its subsets (the ordering by
  strict inclusion is well-founded). What a specification computes by taking one
  element after the other, whichever, is that sum; so are the folds over
  sequences. Sums of unions, of images, of the numbers from 1 to n and of their
  squares follow, and what two numberings of one set have to do with each other
  (`NumberingsCompared`).
* `CampaignProofs` (`CampaignAssumption`, `CallsAssumption`, and
  `AmountsAssumption`: an amount is a finite decimal, of which `_units` allows a
  bounded number of places, so that finitely many denominators occur):
  `GrantsAreForGood`, which needs that the rows of one attempt are one row;
  `SumIsWithinCeiling` for the units in the file, and `NeverOverspent` for the
  exact amounts: rounding up makes each amount, scaled, at most its units, and
  different grants have different rows.
* `ProviderRunProofs` (`RunAssumption`: a plan names each item once, the ceiling
  is positive; `NullAssumption`): `RunInvariance`, `RunImplementsLedger`,
  `ItemsDeliveredOnce`, `LedgerNeverRefuses`, `RunAlwaysReopens` and
  `SendsAreFunded`, for every plan, number of processes, resume, death and
  command. `IInv` has three parts. The ledger is one of `LedgerProofs`
  (`LP!RInv`). What is durable fits together (`Durable`): each item's request
  is stored and is still the one its dependencies' answers make (`PromptStands`),
  its answer is stored, what the provider received is not ahead of the ledger
  (`SentAfterStart`), a try that has not started has no receipt file, a closed
  item has a whole one, the receipts that retries and reconciliations name are
  still there, and what was in flight has its row in the campaign. And a process
  is where the files say (`Running`): only the holder of `run.lock` is not idle,
  and for each place in the loop the current state of the item, its request,
  its receipt slot and the money are what the code at that place relies on.
  The theorems then read off `IInv`; the reopening goes through the check of
  `_report` branch by branch. `SendsAreFunded` adds that the campaign's file is
  one of `CampaignProofs`, instantiated with the calls of this run and of others.
* `PartsProofs`. The store (`NoneAssumption`): `ObjectsWhole` and
  `AckedDurable`. The invariant says how far the staged file of each process is,
  and that a name in the directory, cached or on the disk, is of a durable file.
  `PlansAreJudged` (`PlansAssumption`), for plans of any length: every number of
  `degree` is that of the item's dependencies that have not left the queue
  (`Waits`), so that what is never reached is a set in which everything waits for
  something in it, and what was reached left the queue in an order that serves.
  `FindingsStayFair`, `DecisionsStayFair`, `ChecksStayEvident` and
  `RepliesStayWhole` (`FindingsAssumption`, `ReviewsAssumption`,
  `ChecksAssumption`, `RepliesAssumption`), for reviews, references, bundles,
  rubrics and replies of any size: the code under them is a loop or a
  comprehension, so what is proved first is what the recursive function or the
  filter that models it returns. `ConsensusStaysBlind` and
  `JudgeFiguresStayRight` (`PanelsAssumption`), for any panels, verdicts and
  answers: the weights of the comparisons are cut into the pieces that one
  presentation and one judge give, counted piece by piece and added up again;
  the ranks that a stable sort gives are a numbering, whose sum and whose sum of
  squares do not depend on the values, which is all that Spearman's formula
  needs. The assumptions are the shapes that the code has checked before these
  functions are called. Admission (`PoliciesAssumption`: the shape of policies
  and answers, `Fraction >= 3`, `Base >= 10`): `AdmissionStaysExact` and
  `CapsStayHeld`. A number below `Power(k)` has at most k digits, and a number
  that has no more digits than the precision is not rounded. A rate is below the
  power of its written length and the fractional digits, so a product is below
  the power of the two lengths, and the sum of two needs one digit more, which
  the spare digits of `precision` hold (`CostIsExact`, `RoomForAll`). Nothing is
  ever rounded, then, and what n attempts reserve is n times the dearest
  (`ReservationIs`): admission compares exact numbers. The invariant `BudgetInv`
  bounds what was billed, used and booked by the attempts reserved, and an
  answer within the window costs no more than the dearest, of the long context
  and of cache writes (`BillWithin`).
* `LocalRunsProofs`. Panels of judges (`NoneAssumption`, `BoundsAssumption`,
  `CallsAssumption`): `TypeCorrect`, `PaidOnce`, `LinesStay`, `RejectionHalts`
  and `FiguresStayHonest`. That no key has two successes depends on what a
  process knows of the file it read once: only the holder of the lock is past
  the read, its `done` is the set of keys that have succeeded, and the key it
  has asked for is not among them; the loop's position makes the keys of one
  call distinct. A torn line only removes a line that was about to be written.
  For the figures `FInv` adds what holds while the file is readable (the
  successes an invocation counts are the file's, what a report has read are lines
  of it), that a file which is not is never readable again, and that only a
  rejection or the limit halts an invocation. Offline runs
  (`OfflinePlanAssumption`, which is what `_plan` builds, and
  `OfflineNullAssumption`): `OfflineRunsInvokeOnce` and `OfflineRunsStayHonest`,
  for any manifest, number of processes, deaths and resumes. The invariant
  (`OLP!IInv`, the ledger's; `OffItems`, what is stored for an item in each of
  its states; `OffDirectory`, how far the directory was made; `OffRunning`, what
  a process at each place of the loop relies on) was checked with TLC first.
* `AnnotationProofs`. The store (`NoneAssumption`, `LimitsAssumption`,
  `BatchesAssumption`): `TypeCorrect`, `ImportedStays`, `AllOrNothing`,
  `WholeAndKept`, `OnlyAppends` and `NobodyShutOut`. The invariant says what a
  client may rely on while it inserts (what it has passed is in the rows or
  pending, pending rows are of its own batch), and that rows are of whole
  batches. `NobodyShutOut` adds (`LInv`) that the rows alone, and with what a
  transaction has inserted, are within every limit, and that the batch being
  inserted was prepared; and it compares two totals of bytes, the batch's and
  the file's, as sums over positions, one of which maps into the other.
  Sessions, reports and releases (`AnswersAssumption`, `ReportsAssumption`):
  `SessionsAreSound`, `ReportsStayCurrent` and `ReleasesStayApproved`.
  `SessionInv` says that the parts of a session are made in order and that each
  adjudication was based on all originals of its case before it. `ReportsInv`
  says of each command what it has read at its place (`Loads`, `Makes`,
  `Written`, `There`) and of each directory that its content is `Proper`: a
  report shows an adjudication only with the originals that it had seen, a
  release was signed of the report that it was signed for. Directories may be
  removed and made again between two reads, and it is what was read that counts.
* `PilotProofs` (`PilotAssumption`): `TypeCorrect`, `ClearedBeforeSent`,
  `EndsAreHonest`, `StopsHaveCause` and `Dispatches`. `IInv` says of every item
  that what was sent has its row in the campaign and valid outputs before it,
  and of the command what it has established about the item that it drives
  (`Driving`): between the check of a run and the request many steps lie, and
  what was checked must still hold at the last. It does because only the holder
  of the packet's lock drives items, a response once good stays good, and a
  recovery touches only an item that is uncertain, on which no other item rests.
  `Honest` adds what the command has learned of the runs behind it, which is
  what its outcome speaks of. `Dispatches` is the refinement that `progress`
  checks for one model, here for any number: a step of an item is one of
  `Dispatch`, entering a run interrupts at once all that was in flight in it,
  and every other step stutters.

Every definition by cases that a proof unfolds has arms that exclude each other,
or is a chain of IF as the code is, since TLA+ leaves open which of two true arms
of a CASE is taken. A loop of the code is a recursive function over the positions
of a sequence or a fold over a set, and what it computes is proved by induction
over a set of positions or of subsets that has a smallest element.

Only model-checked: liveness (`InterruptedRecovered`, `CommandsEnd`), which with
fairness and `ENABLED` is outside what the prover does. A provider run with a
receipt torn by a death is excluded from `RunReopens` as in the run, and is the
finding of section 4.

## 7. What is not modelled

* Reports on finished provider runs (`provider_reporting.py`, beyond the check
  of a run), the legacy aggregate report (`report.py`), and the layout and
  rendering of all reports.
* In scoring, the pooling of finding counts and the matching of texts; in
  Inspect runs, the binding checks inside a result.
* The validation of a policy's fields, beyond what it leaves, and the reading of native responses field
  by field: `invoke` returns any outcome that the loop tells apart.
* In the export of a release, that a synthetic approval needs a synthetic report
  (`release.py:149-152`): the model exports where the code may still refuse.
* The making of blind packets and the export of annotation records, which change
  no state; the construction of judge requests.
* `DispatchAuthorization`, a capability that is made and consumed in one call,
  and the pinning of runtime dependencies.
* Bradley-Terry, which is an iteration in floating point.
* Suites, models, the replay contract, the command line and credentials: they
  validate and parse, and keep no state.
* Paths, permissions, symbolic links, sidecar files of SQLite and schema text;
  SQLite's transactions are taken to be atomic and durable.
