------------------------------- MODULE Reports -------------------------------
(***************************************************************************)
(* Preparation, report and local release of a finished or unfinished run:    *)
(* src/draftbench/reporting.py and release.py.  The run goes on and           *)
(* annotations are imported while an operator prepares scoring cases, builds  *)
(* a report from several inputs, replays it, checks a projection, approves it *)
(* and exports it.  Every output is a new directory that is written file by   *)
(* file and that a death leaves unfinished; the operator may remove one.     *)
(*                                                                         *)
(* An identity or digest is the value that it is computed from.  A directory  *)
(* holds `files' whole files, in the order they are written: what a torn file *)
(* adds is refused like a missing one.  A case stands for the result of its   *)
(* work item, the scores and the layout of the files are left out.            *)
(***************************************************************************)
EXTENDS Naturals, FiniteSets

CONSTANTS
    Processes,
    Work,           \* the work items of the run
    Role,           \* Role[w]: "writer", "reviewer" or "revision"
    Parents,        \* Parents[w]: the items w depends on
    Rights,         \* Rights[w]: every usage that is captured with case and components
    SuiteRights,    \* the usage that the suite states
    Originals,      \* the original annotations: [id, case]
    Adjudications,  \* ids of adjudications
    Selections,     \* release selections: [panels, evidence]
    Removable,      \* the directories that the operator may remove
    MaxCommands,    \* bound: commands that are started
    MaxApprovals,   \* bound: approvals that are signed
    None

VARIABLES
    run,        \* run[w]: the state of work item w in the ledger
    records,    \* the annotation records: [id, case, kind, based_on]
    dir,        \* dir[d]: [content, source, files] or None
    command,    \* command[p]: what process p is doing
    approvals,  \* the approvals an operator has signed: [source, projection, selection]
    commands    \* how many commands have been started

vars == <<run, records, dir, command, approvals, commands>>

RunStates == {"planned", "result_saved", "completed", "failed"}
Dirs == {"preparation", "report", "copy", "release"}
Roles == {"writer", "reviewer", "revision"}

(* bundle.json, bindings.json, rubric.json; or evidence, report.json,        *)
(* report.csv with index.html, checksums.json.                               *)
FileCount(d) == IF d = "preparation" THEN 3 ELSE 4
Idle == [op |-> "none", at |-> "idle"]

(* What the files hold: a preparation's bindings, a report, a projection.     *)
AllIds == {original.id : original \in Originals} \cup Adjudications
Records ==
    [id : AllIds, case : Work \cup {original.case : original \in Originals},
     kind : {"original", "adjudication"}, based_on : SUBSET AllIds]
Snapshots == [Work -> RunStates]
BindingsTexts == [snapshot : Snapshots, bundle : SUBSET Work]
ReportTexts ==
    [run : Snapshots \cup {None}, bundle : (SUBSET Work) \cup {None},
     bindings : BindingsTexts \cup {None},
     selected : SUBSET [record : Records, originals : SUBSET AllIds]]
Panels ==
    [role : Roles, status : {"not_run", "incomplete", "unassessed", "inconclusive"},
     counts : [RunStates -> Nat], covered : Nat]
ProjectionTexts == [panels : SUBSET Panels, evidence : SUBSET Work]
Directories ==
    [content : BindingsTexts \cup ReportTexts \cup ProjectionTexts,
     source : ReportTexts \cup {None}, files : Nat]

-----------------------------------------------------------------------------
(* bundle_from_run: the scoring cases of a snapshot. *)
Cases(snapshot) == {w \in Work : snapshot[w] = "completed" /\ Role[w] # "reviewer"}

Bindings(snapshot) == [snapshot |-> snapshot, bundle |-> Cases(snapshot)]

(* Mutant: the bundle is compared, the digest of the snapshot is not. *)
Bound_bundle(snapshot, bundle, bindings) == bundle = Cases(snapshot) /\ bindings.bundle = bundle

(* What build_report and _validate_frozen demand of a run with a bundle. *)
Bound(snapshot, bundle, bindings) ==
    bundle = Cases(snapshot) /\ bindings = Bindings(snapshot)

OriginalsOf(w) == {record \in records : record.kind = "original" /\ record.case = w}
Ids(some) == {record.id : record \in some}

(* select_annotations: an adjudication must be about all current originals. *)
Selectable(record) ==
    /\ record \in records
    /\ record.kind = "adjudication" => record.based_on = Ids(OriginalsOf(record.case))

(* A report is [run, bundle, bindings, selected]; selected holds the records  *)
(* that replaced a reference, with the originals there were for each.        *)
ValidReport(report) ==
    /\ report.run # None /\ report.bundle # None =>
           Bound(report.run, report.bundle, report.bindings)
    /\ report.run = None => report.bindings = None
    /\ report.bundle = None => report.selected = {}
    /\ {choice.record.case : choice \in report.selected}
           \subseteq (IF report.bundle = None THEN {} ELSE report.bundle)

-----------------------------------------------------------------------------
(* normalize_report: the panel of a role, its coverage and its status. *)
RowsOf(report, role) == IF report.run = None THEN {} ELSE {w \in Work : Role[w] = role}
Covered(report, role) ==
    RowsOf(report, role) \cap (IF report.bundle = None THEN {} ELSE report.bundle)

Status(report, role) ==
    LET rows == RowsOf(report, role) IN
    IF \A w \in rows : report.run[w] = "planned" THEN "not_run"
    ELSE IF \E w \in rows : report.run[w] # "completed" THEN "incomplete"
    ELSE IF Covered(report, role) = {} THEN "unassessed"
    ELSE "inconclusive"

Panel(report, role) ==
    [role |-> role, status |-> Status(report, role),
     counts |-> [s \in RunStates |->
                    Cardinality({w \in RowsOf(report, role) : report.run[w] = s})],
     covered |-> Cardinality(Covered(report, role))]

(* The evidence a report shows: results of completed work, or the supplied    *)
(* cases when there is no run.                                               *)
Evidence(report) ==
    IF report.run # None THEN {w \in Work : report.run[w] = "completed"}
    ELSE IF report.bundle # None THEN report.bundle ELSE {}

(* projection of release.py: what of a report may be shown, and when it is   *)
(* refused.                                                                  *)
Releasable(report, selection) ==
    /\ selection.evidence \subseteq Evidence(report)
    /\ selection.evidence # {} => report.run # None /\ SuiteRights = "redistributable"
    /\ \A w \in selection.evidence : Rights[w] = {"redistributable"}

Projection(report, selection) ==
    [panels |-> {Panel(report, role) : role \in selection.panels},
     evidence |-> selection.evidence]

-----------------------------------------------------------------------------
(* read_report: every file is there, and the report is what its snapshot      *)
(* gives.  A public report has no snapshot.                                   *)
Readable(d) ==
    /\ dir[d] # None /\ dir[d].files = FileCount(d)
    /\ d \in {"report", "copy"} => ValidReport(dir[d].content)

Init ==
    /\ run = [w \in Work |-> "planned"]
    /\ records = {} /\ approvals = {} /\ commands = 0
    /\ dir = [d \in Dirs |-> None]
    /\ command = [p \in Processes |-> Idle]

(* The run and the annotation session, seen from here. *)
Progress(w) ==
    /\ \E state \in RunStates :
          /\ <<run[w], state>> \in {<<"planned", "result_saved">>, <<"planned", "failed">>,
                                    <<"result_saved", "completed">>}
          /\ run' = [run EXCEPT ![w] = state]
    /\ \A v \in Parents[w] : run[v] = "completed"
    /\ UNCHANGED <<records, dir, command, approvals, commands>>

Import(original) ==
    /\ original.id \notin Ids(records) /\ run[original.case] = "completed"
    /\ records' = records \cup
           {[id |-> original.id, case |-> original.case, kind |-> "original", based_on |-> {}]}
    /\ UNCHANGED <<run, dir, command, approvals, commands>>

Adjudicate(id, w) ==
    /\ id \notin Ids(records) /\ OriginalsOf(w) # {}
    /\ records' = records \cup
           {[id |-> id, case |-> w, kind |-> "adjudication", based_on |-> Ids(OriginalsOf(w))]}
    /\ UNCHANGED <<run, dir, command, approvals, commands>>

-----------------------------------------------------------------------------
Become(p, value) == command' = [command EXCEPT ![p] = value]

Start(p) ==
    /\ command[p] = Idle /\ commands < MaxCommands
    /\ commands' = commands + 1

Writes(op, d, content, source) ==
    [op |-> op, at |-> "create", d |-> d, content |-> content, source |-> source]

(* prepare_report: a snapshot under the run's lock; nothing to score refuses. *)
Prepare(p) ==
    /\ Start(p) /\ Cases(run) # {}
    /\ Become(p, Writes("prepare", "preparation", Bindings(run), None))
    /\ UNCHANGED <<run, records, dir, approvals>>

(* build_report: which inputs it is given. *)
Inputs ==
    [run : BOOLEAN, bundle : BOOLEAN, bindings : BOOLEAN, session : BOOLEAN]

(* The forms that are refused before anything is read are left out. *)
Build(p, inputs) ==
    /\ Start(p)
    /\ inputs.bindings => inputs.bundle /\ inputs.run
    /\ inputs.run \/ inputs.bundle
    /\ inputs.session => inputs.bundle
    /\ Become(p, [op |-> "build", at |-> "load", inputs |-> inputs,
                  run |-> IF inputs.run THEN run ELSE None])
    /\ UNCHANGED <<run, records, dir, approvals>>

(* The bundle is read after the snapshot, the bindings after the bundle, and  *)
(* then the three are compared.                                              *)
LoadBundle(p) ==
    /\ command[p].at = "load"
    /\ LET prepared == dir["preparation"] IN
           Become(p, IF ~command[p].inputs.bundle
                     THEN Writes("build", "report",
                              [run |-> command[p].run, bundle |-> None, bindings |-> None,
                               selected |-> {}], None)
                     ELSE IF prepared = None \/ prepared.files = 0 THEN Idle
                     ELSE [op |-> "build", at |-> "bind", inputs |-> command[p].inputs,
                           run |-> command[p].run, bundle |-> prepared.content.bundle])
    /\ UNCHANGED <<run, records, dir, approvals, commands>>

LoadBindings(p) ==
    /\ command[p].at = "bind"
    /\ LET c == command[p]
           prepared == dir["preparation"]
           given == c.inputs.bindings
           readable == prepared # None /\ prepared.files >= 2
           bindings == IF given /\ readable THEN prepared.content ELSE None
           accepted ==
               /\ given => readable
               /\ c.inputs.run => bindings # None /\ Bound(c.run, c.bundle, bindings)
       IN  Become(p, IF ~accepted THEN Idle
                     ELSE [op |-> "build", at |-> IF c.inputs.session THEN "select" ELSE "made",
                           report |-> [run |-> c.run, bundle |-> c.bundle,
                                       bindings |-> bindings, selected |-> {}]])
    /\ UNCHANGED <<run, records, dir, approvals, commands>>

(* One record is selected for one case; under the session's lock. *)
Select(p) ==
    /\ command[p].at = "select"
    /\ \E record \in records :
          /\ record.case \in command[p].report.bundle
          /\ IF Selectable(record)
             THEN Become(p, [op |-> "build", at |-> "made",
                      report |-> [command[p].report EXCEPT !.selected =
                          {[record |-> record, originals |-> Ids(OriginalsOf(record.case))]}]])
             ELSE Become(p, Idle)
    /\ UNCHANGED <<run, records, dir, approvals, commands>>

SelectsNothing(p) ==
    /\ command[p].at = "select"
    /\ Become(p, [command[p] EXCEPT !.at = "made"])
    /\ UNCHANGED <<run, records, dir, approvals, commands>>

Made(p) ==
    /\ command[p].at = "made"
    /\ Become(p, IF ValidReport(command[p].report)
                 THEN Writes("build", "report", command[p].report, None) ELSE Idle)
    /\ UNCHANGED <<run, records, dir, approvals, commands>>

(* report replay: the same report in a new directory. *)
Replay(p) ==
    /\ Start(p) /\ Readable("report")
    /\ Become(p, Writes("replay", "copy", dir["report"].content, None))
    /\ UNCHANGED <<run, records, dir, approvals>>

(* check_release, and an operator who signs what it returned. *)
Approve(selection) ==
    /\ Readable("report") /\ Releasable(dir["report"].content, selection)
    /\ Cardinality(approvals) < MaxApprovals
    /\ approvals' = approvals \cup
           {[source |-> dir["report"].content, selection |-> selection,
             projection |-> Projection(dir["report"].content, selection)]}
    /\ UNCHANGED <<run, records, dir, command, commands>>

(* Mutant: the projection is compared, the report it was made from is not. *)
Matches_projection(approval, report) == approval.projection = Projection(report, approval.selection)

Matches(approval, report) ==
    /\ approval.source = report
    /\ approval.projection = Projection(report, approval.selection)

Export(p, approval) ==
    /\ Start(p) /\ Readable("report") /\ approval \in approvals
    /\ LET report == dir["report"].content IN
          /\ Releasable(report, approval.selection) /\ Matches(approval, report)
          /\ Become(p, Writes("export", "release", Projection(report, approval.selection), report))
    /\ UNCHANGED <<run, records, dir, approvals>>

-----------------------------------------------------------------------------
(* _directory(output, create=True): only a new directory. *)
Create(p) ==
    /\ command[p].at = "create"
    /\ IF dir[command[p].d] # None
       THEN Become(p, Idle) /\ UNCHANGED dir
       ELSE /\ dir' = [dir EXCEPT ![command[p].d] =
                  [content |-> command[p].content, source |-> command[p].source, files |-> 0]]
            /\ Become(p, [command[p] EXCEPT !.at = "write"])
    /\ UNCHANGED <<run, records, approvals, commands>>

Write(p) ==
    /\ command[p].at = "write" /\ dir[command[p].d].files < FileCount(command[p].d)
    /\ dir' = [dir EXCEPT ![command[p].d].files = @ + 1]
    /\ UNCHANGED <<run, records, command, approvals, commands>>

(* write_report reads back what it wrote before it reports success. *)
Finish(p) ==
    /\ command[p].at = "write" /\ dir[command[p].d].files = FileCount(command[p].d)
    /\ Become(p, [command[p] EXCEPT
           !.at = IF command[p].d = "preparation" \/ Readable(command[p].d) THEN "done" ELSE "refused"])
    /\ UNCHANGED <<run, records, dir, approvals, commands>>

Return(p) ==
    /\ command[p].at \in {"done", "refused"}
    /\ Become(p, Idle)
    /\ UNCHANGED <<run, records, dir, approvals, commands>>

Dies(p) ==
    /\ command[p] # Idle
    /\ Become(p, Idle)
    /\ UNCHANGED <<run, records, dir, approvals, commands>>

(* The operator removes a directory that no command is writing. *)
Remove(d) ==
    /\ dir[d] # None
    /\ \A p \in Processes : command[p].at \in {"write", "done"} => command[p].d # d
    /\ dir' = [dir EXCEPT ![d] = None]
    /\ UNCHANGED <<run, records, command, approvals, commands>>

Next ==
    \/ \E w \in Work : Progress(w)
    \/ \E original \in Originals : Import(original)
    \/ \E id \in Adjudications, w \in Work : Adjudicate(id, w)
    \/ \E p \in Processes :
          \/ Prepare(p) \/ \E inputs \in Inputs : Build(p, inputs)
          \/ LoadBundle(p) \/ LoadBindings(p) \/ Select(p) \/ SelectsNothing(p) \/ Made(p) \/ Replay(p)
          \/ \E approval \in approvals : Export(p, approval)
          \/ Create(p) \/ Write(p) \/ Finish(p) \/ Return(p) \/ Dies(p)
    \/ \E selection \in Selections : Approve(selection)
    \/ \E d \in Removable : Remove(d)

Spec == Init /\ [][Next]_vars

-----------------------------------------------------------------------------
PrivateReports == {d \in {"report", "copy"} : Readable(d)}

(* A changed run requires fresh preparation: a report with a run and scores   *)
(* was scored on exactly the completed drafts of the snapshot that it shows,  *)
(* although the snapshot, the bundle and the bindings are read one after      *)
(* another and the run goes on.                                              *)
ScoredOnItsRun ==
    \A d \in PrivateReports :
        LET report == dir[d].content IN
            report.run # None /\ report.bundle # None =>
                /\ report.bundle = {w \in Work : report.run[w] = "completed" /\ Role[w] # "reviewer"}
                /\ report.bindings.snapshot = report.run

(* Adjudications must reference exactly all current originals: a report that  *)
(* uses one discloses exactly the originals that the adjudicator has seen.    *)
AdjudicationIsCurrent ==
    \A d \in PrivateReports : \A choice \in dir[d].content.selected :
        choice.record.kind = "adjudication" => choice.record.based_on = choice.originals

(* What a command reports as written is a whole directory with exactly that   *)
(* content, whatever another command did about the same output meanwhile.     *)
DoneIsWhole ==
    \A p \in Processes :
        command[p].at = "done" =>
            LET d == command[p].d IN
                dir[d] # None /\ dir[d].content = command[p].content
                              /\ dir[d].files = FileCount(d)

(* Nothing leaves without the operator's signature under this very projection *)
(* of this very report: the report behind a release is the one that was       *)
(* checked, even if its directory has been removed and built anew since.      *)
ReleasedAsApproved ==
    Readable("release") =>
        \E approval \in approvals :
            /\ approval.projection = dir["release"].content
            /\ approval.source = dir["release"].source

(* Selected evidence is completed work of a verified run whose captured       *)
(* rights are all redistributable.                                           *)
ReleasedEvidenceIsFree ==
    Readable("release") =>
        \A w \in dir["release"].content.evidence :
            /\ dir["release"].source.run # None
            /\ dir["release"].source.run[w] = "completed"
            /\ Rights[w] \cup {SuiteRights} = {"redistributable"}

(* A result that is saved without completion is never promoted to evidence or *)
(* to a scored output of a panel.                                            *)
NothingPromoted ==
    \A d \in PrivateReports :
        LET report == dir[d].content IN
            report.run # None =>
                /\ \A w \in Evidence(report) : report.run[w] = "completed"
                /\ \A role \in Roles :
                      Panel(report, role).covered <= Panel(report, role).counts["completed"]

=============================================================================
