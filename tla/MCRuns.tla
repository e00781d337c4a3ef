------------------------------- MODULE MCRuns -------------------------------
(***************************************************************************)
(* The ledger by itself and under its offline users; a behaviour is about    *)
(* one of them, and no judge panel runs.                                    *)
(*   ledger: two unrelated items, every interleaving of their histories;     *)
(*   offline: a run of one case (the writer, the reviewer of its draft and    *)
(*     the revision) with the fake adapter, with the Inspect fixture and a    *)
(*     revision of unknown input, or with the fixture and room for one        *)
(*     request; two processes, of which some may die.                        *)
(***************************************************************************)
EXTENDS LocalRuns

CONSTANTS q1, r1, k1, MaxRequests

VARIABLES subject, events, attempts, reconciliations, retries, version

loneVars == <<events, attempts, reconciliations, retries, version>>
allVars == <<subject, loneVars, offVars, vars>>

NoKind == [judge \in {} |-> "generative"]

Case == {"writer", "reviewer", "revision"}
CasePlan == <<"writer", "reviewer", "revision">>
CaseDeps == [w \in Case |-> CASE w = "writer" -> {} [] w = "reviewer" -> {"writer"}
                              [] w = "revision" -> {"writer", "reviewer"}]

CaseManifests ==
    {[inspect |-> FALSE, unknown |-> {}, requests |-> Null],
     [inspect |-> TRUE, unknown |-> {"revision"}, requests |-> 3],
     [inspect |-> TRUE, unknown |-> {}, requests |-> 1]}

Pair == {"one", "other"}
PairPlan == <<"one", "other">>
PairDeps == [w \in Pair |-> {}]

Lone == INSTANCE Ledger WITH
    Work <- Pair, Plan <- PairPlan, Deps <- PairDeps,
    Requests <- {q1}, Results <- {r1}, Receipts <- {k1}

NoPanel ==
    /\ lockFile = FALSE /\ holder = None /\ lines = <<>> /\ newline = TRUE
    /\ process = None /\ report = None /\ saved = {} /\ calls = 0 /\ faults = 0

RunsInit ==
    /\ subject \in {"ledger", "offline"}
    /\ Lone!Init /\ Off!Init /\ NoPanel
    /\ subject = "ledger" => ~offManifest.inspect

RunsNext ==
    /\ \/ subject = "ledger" /\ Lone!Next /\ UNCHANGED offVars
       \/ subject = "offline" /\ Off!Next /\ UNCHANGED loneVars
    /\ UNCHANGED <<subject, vars>>

RunsSpec == RunsInit /\ [][RunsNext]_allVars

(* The ledger of two items implements Dispatch, also when one transaction of  *)
(* recover interrupts both.                                                 *)
PairDispatches == Lone!ImplementsDispatch
=============================================================================
