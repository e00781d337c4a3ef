----------------------------- MODULE MCProgress -----------------------------
(***************************************************************************)
(* What happens sooner or later, on instances that are small enough for it;  *)
(* a behaviour is about one of them.                                        *)
(*   provider: one item, two processes, and a resume sooner or later;        *)
(*   pilot: one model, in a campaign with room for three requests;           *)
(*   judge: two invocations of two processes, each with a limit of requests; *)
(*   plan: the validation of every plan of two rows.                        *)
(* Every process that was started goes on unless it dies.                    *)
(***************************************************************************)
EXTENDS MCProviderRun

CONSTANT m1

VARIABLES
    subject,
    packet, code, approval, dir, state, output, sent, ceiling, funded, journal,
    request, response, command,                                               \* Pilot
    lockFile, holder, lines, newline, process, report, saved, calls, faults,  \* JudgeRun
    plan, verdict, degree, ready, seen                                        \* PlanValidation

pilotVars == <<packet, code, approval, dir, state, output, sent, ceiling, funded, journal,
               request, response, command>>
judgeVars == <<lockFile, holder, lines, newline, process, report, saved, calls, faults>>
planVars == <<plan, verdict, degree, ready, seen>>
allVars == <<vars, subject, pilotVars, judgeVars, planVars>>

-----------------------------------------------------------------------------
OneModel == <<m1>>
Room == {3}

Pilot == INSTANCE Pilot WITH Order <- OneModel, Ceilings <- Room

(* One asks for both judges with a limit that is met in the middle, one for   *)
(* pointwise scores of the second judge.                                    *)
PanelKind == [jev |-> "typesafe", oa |-> "generative"]
PanelCalls ==
    {[work |-> <<"x-y", "y-x">>, judges |-> <<"jev", "oa">>, max |-> 2],
     [work |-> <<"pw:x:1">>, judges |-> <<"oa">>, max |-> 1]}

Panel == INSTANCE JudgeRun WITH
    Processes <- Procs, Kind <- PanelKind, Calls <- PanelCalls,
    MaxCalls <- 2, MaxFaults <- 1, None <- Null

Plans == INSTANCE PlanValidation WITH Ids <- {"a", "b"}, MaxRows <- 2

-----------------------------------------------------------------------------
NoPanel ==
    /\ lockFile = Null /\ holder = Null /\ lines = Null /\ newline = Null /\ process = Null
    /\ report = Null /\ saved = Null /\ calls = Null /\ faults = Null
NoPlan == plan = Null /\ verdict = Null /\ degree = Null /\ ready = Null /\ seen = Null

ProgressInit ==
    /\ Init
    /\ Pilot!Init
    /\ \/ subject \in {"provider", "pilot"} /\ NoPanel /\ NoPlan
       \/ subject = "judge" /\ Panel!Init /\ NoPlan
       \/ subject = "plan" /\ Plans!Init /\ NoPanel

(* What an action about one of the subjects leaves alone. *)
OnlyProvider == subject = "provider" /\ UNCHANGED <<subject, pilotVars, judgeVars, planVars>>
OnlyPilot == subject = "pilot" /\ UNCHANGED <<vars, subject, judgeVars, planVars>>
OnlyPanel == subject = "judge" /\ UNCHANGED <<vars, subject, pilotVars, planVars>>
OnlyPlan == subject = "plan" /\ UNCHANGED <<vars, subject, pilotVars, judgeVars>>

ProgressNext ==
    \/ OnlyProvider /\ Next
    \/ OnlyPilot /\ Pilot!Next
    \/ OnlyPanel /\ Panel!Next
    \/ OnlyPlan /\ Plans!Next

(* A command, or a validation, that is running goes on, *)
Goes == (OnlyPilot /\ Pilot!Step) \/ (OnlyPlan /\ Plans!Next)

(* and so does every process, *)
GoesOn(p) == (OnlyProvider /\ Drive(p)) \/ (OnlyPanel /\ Panel!Proceed(p))

(* and a run that was left is resumed sooner or later. *)
Resumed == OnlyProvider /\ Resumes

FairProgress ==
    /\ ProgressInit /\ [][ProgressNext]_allVars
    /\ WF_allVars(Goes)
    /\ \A p \in Procs : WF_allVars(GoesOn(p))
    /\ SF_allVars(Resumed)

-----------------------------------------------------------------------------
(* What is running; of the two processes of the panel, which are alike, one.  *)
Running ==
    CASE subject = "pilot" -> ~Pilot!In("idle")
      [] subject = "judge" -> ~Panel!At(CHOOSE p \in Procs : TRUE, "out")
      [] subject = "plan" -> verdict = "running"
      [] OTHER -> FALSE

(* What has no need of a resume ends by itself: a command of the pilot, which  *)
(* either makes progress or returns, an invocation of the judge panel, whose    *)
(* requests have a time limit, and the validation of a plan.                  *)
CommandsEnd == Running ~> ~Running

(* Every step of the pilot is one of Dispatch, for the items of its run: no   *)
(* request is sent twice without an operator's word, none before its          *)
(* predecessor has settled, and no settled answer changes.                   *)
PilotDispatches == Pilot!ImplementsDispatch
=============================================================================
