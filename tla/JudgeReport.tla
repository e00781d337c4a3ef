----------------------------- MODULE JudgeReport -----------------------------
(***************************************************************************)
(* What src/draftbench/judge/report.py computes from the recorded verdicts   *)
(* of a panel, for one criterion: the tally of a judge, the family-blind     *)
(* tallies and their consensus, the agreement of two judges, the combination *)
(* of several panels, the pointwise scores and their rank agreement.  The    *)
(* presentations are those of panel.py.                                      *)
(*                                                                         *)
(* bradley_terry is floating-point and left out: `strength' is any ranking   *)
(* it may return.  Weights are doubled, so that a tie counts 1 and a win 2.  *)
(***************************************************************************)
EXTENDS Filters, Integers, FiniteSets, FiniteSetsExt, Functions, Sequences

CONSTANTS
    Candidates,   \* the candidate ids of a panel, numbers: their order is that of the digests
    Kind,         \* Kind[j] for every judge j: "typesafe" or a model family
    FamilyOf,     \* FamilyOf[name]: the family of a model name, or None
    Castings,     \* the custody maps: [Candidates -> DOMAIN FamilyOf]
    Recorded,     \* the verdict tables [Presentations \X Judges -> Verdicts] of the run
    OtherCases,   \* [names, records] of a second panel
    Scored,       \* the pointwise answers [Candidates -> Seq(0..3 \cup {None})] of the run
    Strengths,    \* the strengths [Candidates -> Int] of the run
    None

(* build_panel takes the candidates by name: no name is given twice in a     *)
(* casting.                                                                 *)
Judges == DOMAIN Kind

(* _build: each unordered pair in both orders. *)
Presentations == {p \in Candidates \X Candidates : p[1] # p[2]}
PairOf(p) == {p[1], p[2]}
Mirrored(p) == <<p[2], p[1]>>
Verdicts == {"a", "b", "tie", "unknown", "missing"}

VARIABLES
    names,      \* the custody map of the panel
    records,    \* the last successful verdict of each judge on each presentation
    other,      \* the second panel
    scores,     \* the pointwise answers of one judge
    strength    \* the pairwise strengths of another

vars == <<names, records, other, scores, strength>>

-----------------------------------------------------------------------------
(* _tally.  A verdict of judge j on presentation p gives comparisons; two of  *)
(* them, of half the weight, for a tie.                                      *)
Compared(j, p, choice) ==
    LET Beats(winner, loser, weight) ==
            [judge |-> j, shown |-> p, winner |-> winner, loser |-> loser, weight |-> weight]
    IN  CASE choice = "a" -> {Beats(p[1], p[2], 2)}
          [] choice = "b" -> {Beats(p[2], p[1], 2)}
          [] choice = "tie" -> {Beats(p[1], p[2], 1), Beats(p[2], p[1], 1)}
          [] OTHER -> {}

(* Mutant: only the first draft of a presentation is looked at. *)
Shown_first(exclude) == {p \in Presentations : p[1] \notin exclude}

Shown(exclude) == {p \in Presentations : PairOf(p) \cap exclude = {}}

Comparisons(table, j, exclude) ==
    UNION {Compared(j, p, table[<<p, j>>]) : p \in Shown(exclude)}

Counts(table, j, exclude) ==
    [v \in Verdicts |-> Cardinality({p \in Shown(exclude) : table[<<p, j>>] = v})]

ScoredPresentations(counts) == counts["a"] + counts["b"] + counts["tie"]

(* What a scored verdict names: a candidate or a tie. *)
Outcome(table, j, p) ==
    CASE table[<<p, j>>] = "a" -> [kind |-> "candidate", id |-> p[1], position |-> "a"]
      [] table[<<p, j>>] = "b" -> [kind |-> "candidate", id |-> p[2], position |-> "b"]
      [] table[<<p, j>>] = "tie" -> [kind |-> "tie", id |-> None, position |-> "tie"]

(* The pairs whose two presentations were both scored. *)
BothOrders(table, j, exclude) ==
    {p \in Shown(exclude) : p[1] < p[2]
        /\ {table[<<p, j>>], table[<<Mirrored(p), j>>]} \subseteq {"a", "b", "tie"}}

(* Mutant: the same position counts as the same candidate. *)
Consistent_position(first, second) == first.position = second.position

Consistent(first, second) ==
    \/ first.kind = "candidate" /\ second.kind = "candidate" /\ first.id = second.id
    \/ first.kind = "tie" /\ second.kind = "tie"

PositionBiased(first, second) ==
    /\ first.kind = "candidate" /\ second.kind = "candidate"
    /\ first.id # second.id /\ first.position = second.position

PairCount(table, j, exclude, Test(_, _)) ==
    Cardinality({p \in BothOrders(table, j, exclude) :
        Test(Outcome(table, j, p), Outcome(table, j, Mirrored(p)))})

(* _wins, over candidates or over model names. *)
Wins(who, comparisons) ==
    MapThenSumSet(LAMBDA c : IF c.winner = who THEN c.weight ELSE 0, comparisons)

Weight(comparisons) == MapThenSumSet(LAMBDA c : c.weight, comparisons)

(* _blind: the judges that have a family, each without its own candidates. *)
Pooled == {j \in Judges : Kind[j] # "typesafe"}
Own(j, custody) == {c \in Candidates : FamilyOf[custody[c]] = Kind[j]}

(* _consensus pools the comparisons of the blind tallies. *)
Consensus(table, custody) ==
    UNION {Comparisons(table, j, Own(j, custody)) : j \in Pooled}

(* build_combined pools the panels by model name. *)
Combined(cases) ==
    UNION {{[case |-> k, judge |-> c.judge, shown |-> c.shown, weight |-> c.weight,
             winner |-> cases[k].names[c.winner], loser |-> cases[k].names[c.loser]] :
                c \in Consensus(cases[k].records, cases[k].names)} : k \in DOMAIN cases}

Compares(v, w) == {v, w} \subseteq {"a", "b", "tie"}

(* _agreement. *)
ComparedBy(table, j, k) == {p \in Presentations : Compares(table[<<p, j>>], table[<<p, k>>])}
AgreedBy(table, j, k) == {p \in ComparedBy(table, j, k) : table[<<p, j>>] = table[<<p, k>>]}

-----------------------------------------------------------------------------
(* _pointwise: the mean (a fraction) of the answers that have a score. *)
Known(answers) == Only(answers, Range(answers) \ {None})
Ranked(table) == {c \in Candidates : Known(table[c]) # <<>>}
(* In thousandths, rounded. *)
Mean(table) ==
    [c \in Ranked(table) |->
        LET answers == Known(table[c])
        IN  (2000 * SumFunction(answers) + Len(answers)) \div (2 * Len(answers))]

(* ranks of spearman: a stable sort of the ids, highest value first. *)
Rank(ids, value, c) ==
    1 + Cardinality({d \in ids : value[c] < value[d] \/ (value[c] = value[d] /\ d < c)})

(* spearman, times n(n^2 - 1). *)
Size(ids) == Cardinality(ids) * (Cardinality(ids) * Cardinality(ids) - 1)
Spearman(ids, value, other_value) ==
    LET Distance(c) == Rank(ids, value, c) - Rank(ids, other_value, c)
    IN  Size(ids) - 6 * MapThenSumSet(LAMBDA c : Distance(c) * Distance(c), ids)

-----------------------------------------------------------------------------
Neutral == [c \in Candidates |-> <<>>]

Init ==
    /\ names \in Castings
    /\ \/ /\ records \in Recorded /\ other \in OtherCases
          /\ scores = Neutral /\ strength \in {CHOOSE s \in Strengths : TRUE}
       \/ /\ records \in {CHOOSE r \in Recorded : TRUE}
          /\ other \in {CHOOSE o \in OtherCases : TRUE}
          /\ scores \in Scored /\ strength \in Strengths

(* The reports change nothing: each is computed from the recorded verdicts. *)
Next == UNCHANGED vars

Spec == Init /\ [][Next]_vars

Cases == <<[names |-> names, records |-> records], other>>

-----------------------------------------------------------------------------
(* Every presentation that is shown is counted once, every scored one gives   *)
(* one win or two halves, and no pair is both consistent and biased, with or  *)
(* without the judge's own family.                                           *)
CountsAddUp ==
    \A j \in Judges : \A exclude \in {{}, Own(j, names)} :
        LET counts == Counts(records, j, exclude) IN
            /\ SumFunction(counts) = Cardinality(Shown(exclude))
            /\ Weight(Comparisons(records, j, exclude)) = 2 * ScoredPresentations(counts)
            /\ PairCount(records, j, exclude, Consistent)
                 + PairCount(records, j, exclude, PositionBiased)
                   <= Cardinality(BothOrders(records, j, exclude))

(* JUDGE_CONTRACT.md on position consistency, counted from the positions: a   *)
(* judge that said a and b, or b and a, named the same candidate; one that    *)
(* said a twice or b twice followed the position.                            *)
PositionsAreRight ==
    \A j \in Judges :
        LET Said(p) == <<records[<<p, j>>], records[<<Mirrored(p), j>>]>>
            Pairs(answers) == Cardinality({p \in Presentations : p[1] < p[2] /\ Said(p) \in answers})
        IN  /\ PairCount(records, j, {}, Consistent)
                  = Pairs({<<"a", "b">>, <<"b", "a">>, <<"tie", "tie">>})
            /\ PairCount(records, j, {}, PositionBiased) = Pairs({<<"a", "a">>, <<"b", "b">>})

(* No draft is ranked by a judge of its own family: whatever a judge said of  *)
(* presentations that show a draft of its family, the consensus is the same.  *)
FamilyBlind ==
    \A v \in Verdicts :
        LET told == [pj \in Presentations \X Judges |->
                       IF \E c \in PairOf(pj[1]) : FamilyOf[names[c]] = Kind[pj[2]]
                       THEN v ELSE records[pj]]
        IN  Consensus(told, names) = Consensus(records, names)

(* What the verdicts of one panel give a model: a win for every one of a      *)
(* judge outside both families that named its draft, and half for a tie.     *)
Fair(p, j, custody) == Kind[j] \notin {FamilyOf[custody[c]] : c \in PairOf(p)}

Named(model, case) ==
    LET Says(v, n) == {pj \in Presentations \X Pooled :
            /\ case.records[pj] = v /\ Fair(pj[1], pj[2], case.names)
            /\ case.names[pj[1][n]] = model}
    IN  2 * Cardinality(Says("a", 1)) + 2 * Cardinality(Says("b", 2))
          + Cardinality(Says("tie", 1)) + Cardinality(Says("tie", 2))

(* The ranking over several panels is what a count over their verdicts gives. *)
CombinedIsCount ==
    \A model \in DOMAIN FamilyOf :
        Wins(model, Combined(Cases)) = Named(model, Cases[1]) + Named(model, Cases[2])

(* Two judges are compared on what both have scored, and only there: the      *)
(* rate of agreement is over no more presentations than either has scored.    *)
AgreementOverScored ==
    \A j, k \in Judges :
        /\ Cardinality(ComparedBy(records, j, k))
             <= ScoredPresentations(Counts(records, j, {}))
        /\ ComparedBy(records, j, k) = ComparedBy(records, k, j)
        /\ AgreedBy(records, j, j) = ComparedBy(records, j, j)

(* What spearman returns is the correlation of the two rankings: the closed   *)
(* formula holds because ties are broken, which gives every candidate a rank  *)
(* of its own.  Candidates whose every score is unknown take no part.        *)
SpearmanIsCorrelation ==
    LET ids == Ranked(scores)
        Centred(value, c) == 2 * Rank(ids, value, c) - Cardinality(ids) - 1
    IN  Cardinality(ids) >= 3 =>
            Spearman(ids, Mean(scores), strength) =
                3 * MapThenSumSet(
                        LAMBDA c : Centred(Mean(scores), c) * Centred(strength, c), ids)

=============================================================================
