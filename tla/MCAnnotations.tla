--------------------------- MODULE MCAnnotations ---------------------------
(* Values for the parts of Annotations, and symmetry among the processes.    *)
EXTENDS Annotations, TLC

-----------------------------------------------------------------------------
(* The store: four records of one to three bytes over three ids (two of them *)
(* share an id), and one that is too large; four bytes and two records in     *)
(* all, so that both limits are met exactly and exceeded.                    *)
Entry(id, kind, body, bytes) ==
    [record_id |-> id, kind |-> kind, task_id |-> "t", body |-> body, bytes |-> bytes]

a  == Entry("a", "original", "acceptable", 1)
a2 == Entry("a", "adjudication", "acceptable", 1)
b  == Entry("b", "original", "unacceptable", 3)
c  == Entry("c", "original", "abstain", 1)
d  == Entry("d", "original", "long", 4)

SmallBatches ==
    {<<>>, <<a>>, <<a2>>, <<b>>, <<d>>, <<a, a>>, <<a, b>>, <<a, c>>, <<c, b>>, <<b, a2>>,
     <<a, b, c>>}

Symmetry == Permutations(Processes)

-----------------------------------------------------------------------------
(* A session: two raters, both on case c and one on case d too; three ids for *)
(* originals, one of which an adjudicator may also take, and two for          *)
(* adjudications.  Answers can be bound to another task, incomplete,          *)
(* abstentions or unanswered.                                                *)
SmallTasks == {"c1", "c2", "d1"}

SmallCaseOf == [task \in SmallTasks |-> IF task = "d1" THEN "d" ELSE "c"]

SmallRaterOf == [task \in SmallTasks |-> IF task = "c2" THEN "r2" ELSE "r1"]

Answer(id, task, decision, required, inventory) ==
    [response_id |-> id, task |-> task, bound |-> TRUE,
     status |-> IF decision = None THEN "unanswered" ELSE "answered",
     decision |-> decision, required |-> required, inventory |-> inventory,
     defects |-> FALSE, based_on |-> {}]

yes1 == Answer("o1", "c1", "acceptable", TRUE, "complete")
no2  == Answer("o2", "c2", "unacceptable", TRUE, "partial")
yes2 == Answer("o2", "c2", "acceptable", TRUE, "complete")
no3  == Answer("o3", "c1", "unacceptable", TRUE, "complete")
yes3 == Answer("o3", "d1", "acceptable", FALSE, "complete")
blank == Answer("o1", "c1", None, FALSE, "unavailable")
wrong == [yes1 EXCEPT !.bound = FALSE]
odd == [no3 EXCEPT !.inventory = "unavailable", !.defects = TRUE]

SmallOriginals ==
    {<<yes1>>, <<no2>>, <<yes2>>, <<no3>>, <<yes3>>, <<blank>>, <<wrong>>, <<odd>>,
     <<yes1, no2>>, <<yes1, yes3>>, <<no2, yes3>>, <<blank, yes2>>, <<yes2, no3>>, <<no2, wrong>>,
     <<yes1, yes1>>}

SmallAdjudications ==
    {<<[Answer(id, "c1", decision, TRUE, inventory) EXCEPT !.based_on = basis]>> :
        id \in {"j1", "j2", "o2"}, decision \in {"acceptable", "abstain"},
        inventory \in {"complete", "partial"}, basis \in SUBSET {"o1", "o2", "o3"}}
    \cup {<<[Answer("j2", "d1", "acceptable", TRUE, "complete") EXCEPT !.based_on = {"o3"}],
            [Answer("j1", "c1", "unacceptable", TRUE, "complete") EXCEPT !.based_on = basis]>> :
        basis \in SUBSET {"o1", "o2"}}

-----------------------------------------------------------------------------
(* Reports: a draft and its review.  The draft may be redistributed, the      *)
(* review may not.                                                           *)
SmallWork == {"draft", "review"}
SmallRole == [draft |-> "writer", review |-> "reviewer"]
SmallParents == [draft |-> {}, review |-> {"draft"}]
SmallRights == [draft |-> {"redistributable"}, review |-> {"redistributable", "private"}]
SmallSelections ==
    {[panels |-> {"writer"}, evidence |-> {}], [panels |-> {}, evidence |-> {"draft"}],
     [panels |-> {"writer"}, evidence |-> {"review"}]}
DraftOriginals == {[id |-> "o1", case |-> "draft"], [id |-> "o2", case |-> "draft"]}

=============================================================================
