------------------------------- MODULE MCParts -------------------------------
(***************************************************************************)
(* What the parts that stand by themselves are checked over: the values of   *)
(* the constants of Parts.                                                   *)
(***************************************************************************)
EXTENDS Parts, TLC

-----------------------------------------------------------------------------
(* Three findings, one of them a suggestion, and two defects, one of them    *)
(* critical; a span of each kind that does not hold.                         *)
Finding(id, kind, category, severity, anchored) ==
    [id |-> id, kind |-> kind, category |-> category, severity |-> severity, anchored |-> anchored]

SmallFindings ==
    {Finding("f1", "defect", "fact", "critical", TRUE), Finding("f1", "defect", "fact", "major", FALSE),
     Finding("f2", "defect", "fact", "minor", TRUE), Finding("f2", "defect", "style", "minor", TRUE),
     Finding("f3", "suggestion", "fact", "suggestion", TRUE)}

SmallMarkings == {[c |-> "pass"]}

SmallDefects ==
    {Finding("d1", "defect", "fact", "critical", TRUE), Finding("d2", "defect", "fact", "minor", TRUE),
     Finding("d2", "defect", "fact", "minor", FALSE)}

-----------------------------------------------------------------------------
(* Reviews of every kind, sound and contradictory, and references of one     *)
(* human, of the reviewed system itself and of nobody.                       *)
Review(decision, checks, findings) ==
    [decision |-> decision, checks |-> checks, findings |-> findings]
Passed == [c |-> "pass"]
Cited(severity, anchored) == [kind |-> "defect", severity |-> severity, anchored |-> anchored]

SomeReviews ==
    {Review(d, Passed, <<>>) : d \in {"pass", "edit", "abstain", "error"}} \cup
    {Review("pass", [c |-> "fail"], <<>>), Review("pass", <<>>, <<>>),
     Review("pass", Passed, <<Cited("major", TRUE)>>), Review("pass", Passed, <<Cited("minor", TRUE)>>),
     Review("block", Passed, <<Cited("minor", FALSE)>>)}

Reference(producer, independence, acceptability) ==
    [producer |-> producer, independence |-> independence, acceptability |-> acceptability]

SomeReferences ==
    {Reference("human", "independent", a) : a \in {"acceptable", "unacceptable", "unknown"}} \cup
    {Reference("human", "same_system", "unacceptable"), Reference("none", "unknown", "unknown"),
     Reference("model", "unknown", "acceptable")}

-----------------------------------------------------------------------------
(* One source that may be supplied, and one that never is.                   *)
Applicability == {"required", "optional", "inapplicable"}
Relevance == {"relevant", "irrelevant", "unknown"}

SmallFacts ==
    [kind : {"fact"}, applicability : Applicability, observed : BOOLEAN, anchored : BOOLEAN,
     source : {"s1", "s2", None}, relevance : Relevance,
     reference : {None} \cup [item : {"s1", "s2"}, matches : BOOLEAN, anchors : {TRUE}]
                        \cup [item : {"s1"}, matches : {TRUE}, anchors : {FALSE}],
     expected : {"same", "other", "missing"}, asserted : BOOLEAN, authorized : BOOLEAN]

SmallCitations ==
    [kind : {"citation"}, applicability : Applicability, observed : BOOLEAN,
     source : {"s1", "s2"}, relevance : Relevance]

SmallOthers ==
    [kind : {"nonempty"}, applicability : {"required"}]
        \cup [kind : {"length"}, applicability : {"required", "optional"},
              unit : {TRUE}, holds : BOOLEAN]
        \cup [kind : {"length"}, applicability : {"optional"}, unit : {FALSE}, holds : {TRUE}]

SmallChecks == SmallFacts \cup SmallCitations \cup SmallOthers

(* One check of any kind, and a second of the other kinds. *)
SmallRubrics ==
    {<<check>> : check \in SmallChecks} \cup ((SmallFacts \cup SmallCitations) \X SmallOthers)

-----------------------------------------------------------------------------
(* Two criteria and one that is not asked for; up to three rows. *)
PanelCriteria == {"clarity", "insight"}
PanelLevels == {"0", "1"}

SmallRows ==
    [criterion : PanelCriteria \cup {"other"}, value : {"b", "0", "4", "win"},
     found : {{}, {"a"}, {"a", "b"}}, typed : BOOLEAN]

SmallRowLists ==
    LET good == {row \in SmallRows : row.typed /\ row.criterion \in PanelCriteria}
    IN  {<<>>} \cup {<<r>> : r \in SmallRows} \cup {<<r, s>> : r, s \in SmallRows}
          \cup {<<r, s, t>> : r \in good, s \in good, t \in {x \in good : x.found = {}}}

Spread(a, b, c) == [v \in {"a", "b", "tie"} |-> CASE v = "a" -> a [] v = "b" -> b [] OTHER -> c]

SmallAnswers ==
    {[type |-> type, value |-> value, probabilities |-> spread, confidence |-> confidence] :
        type \in {"choice", "score"}, value \in {"a", "1", "2"}, confidence \in {0, 100, 101},
        spread \in {Spread(40, 30, 30), Spread(100, 0, 0), Spread(40, 40, 14),
                    Spread(40, 40, 26), Spread(120, 0, 0), [v \in PanelLevels |-> 50]}}

SmallAnswerMaps ==
    UNION {[asked -> SmallAnswers] : asked \in {{}, {"clarity"}, {"clarity", "insight"}}}
      \cup {[c \in {"clarity", "insight", "other"} |-> answer] : answer \in SmallAnswers}

-----------------------------------------------------------------------------
(* Three candidates, six presentations, and three judges: one of each model  *)
(* family of the candidates and one without.  The first judge says anything; *)
(* the others repeat it, mirror it, follow the position or say nothing.      *)
PanelCandidates == {1, 2, 3}
PanelPairs == {p \in PanelCandidates \X PanelCandidates : p[1] # p[2]}

SmallKind == [oa |-> "openai", an |-> "anthropic", jev |-> "typesafe"]
SmallFamilies == [gpt |-> "openai", opus |-> "anthropic", haiku |-> "anthropic",
    mini |-> "openai", other |-> None]

SmallCastings == {<<"gpt", "opus", "haiku">>, <<"gpt", "mini", "other">>}

Mirror(v) == CASE v = "a" -> "b" [] v = "b" -> "a" [] OTHER -> v

Table(first, second, third) ==
    [pj \in PanelPairs \X DOMAIN SmallKind |->
        CASE pj[2] = "oa" -> first[pj[1]]
          [] pj[2] = "an" -> second[pj[1]]
          [] OTHER -> third[pj[1]]]

SmallRecorded ==
    UNION {{Table(first, first, [p \in PanelPairs |-> "a"]),
            Table([p \in PanelPairs |-> Mirror(first[p])], first, first),
            Table([p \in PanelPairs |-> "missing"], first, [p \in PanelPairs |-> "unknown"])} :
        first \in [PanelPairs -> {"a", "b", "tie"}]
             \cup [PanelPairs -> {"b", "missing"}]}

SmallCases ==
    {[names |-> <<"haiku", "gpt", "opus">>,
      records |-> [pj \in PanelPairs \X DOMAIN SmallKind |-> v]] : v \in {"a", "tie"}}

SmallScored == [PanelCandidates -> {<<>>, <<0>>, <<2>>, <<None>>, <<1, None, 2>>}]
SmallStrengths == [PanelCandidates -> 0..2]

-----------------------------------------------------------------------------
(* The attempts of one run under every policy, with three fractional digits, a *)
(* window of 4 tokens, of which 2 are a short context, rates of which the      *)
(* scales differ most, and caps at, below and above what one and two attempts  *)
(* reserve.                                                                  *)
Amount(value, length) == [value |-> value, length |-> length]

(* "199", "0.001", "2.5" and "0". *)
SmallRates == {Amount(199000, 3), Amount(1, 5), Amount(2500, 3), Amount(0, 1)}

Draft(kind, in, out) ==
    [kind |-> kind, tracking |-> FALSE, window |-> 4, max_output_tokens |-> 2,
     input_per_million |-> in, output_per_million |-> out,
     max_requests |-> 3, max_total_tokens |-> 18]

(* The caps that k attempts of the policy fill, or miss by a unit. *)
Capped(draft) ==
    {[max_cost |-> cap] @@ draft : cap \in
        {Amount(v, 9) : v \in {(k * Budget!Dearest(draft) + 99) \div 100 - d : k \in 1 .. 2, d \in 0 .. 1}
                                \ {-1, 0}}}

Limits(draft) ==
    {[[max_cost |-> Amount(9999999, 8)] @@ draft
        EXCEPT !.max_requests = requests, !.max_total_tokens = total]
        : requests \in 1 .. 2, total \in {11, 12, 17, 18}}

Tracking(draft) ==
    [[max_cost |-> None] @@ draft EXCEPT !.tracking = TRUE, !.max_requests = None,
        !.max_total_tokens = None, !.window = IF draft.kind = "gpt" THEN None ELSE 4,
        !.max_output_tokens = IF draft.kind = "gpt" THEN None ELSE 2]

SmallPolicies ==
    LET drafts  == {Draft(kind, in, out) : kind \in {"gpt", "anthropic"},
                                           in \in SmallRates, out \in SmallRates}
        inspect == {Draft("inspect", in, in) : in \in SmallRates}
        plain   == {Draft(kind, Amount(2500, 3), Amount(1, 5)) : kind \in {"gpt", "anthropic"}}
    IN  UNION {Capped(d) : d \in drafts \cup inspect}
          \cup UNION {Limits(d) : d \in plain \cup inspect}
          \cup {Tracking(d) : d \in plain}
          \cup {[max_cost |-> None] @@ d : d \in inspect}

(* Empty, short and long inputs, with writes and reads, and answers that      *)
(* overrun the window or the output limit.                                 *)
SmallUsages ==
    {[i |-> 0, w |-> 0, r |-> 0, o |-> 0], [i |-> 2, w |-> 0, r |-> 0, o |-> 2],
     [i |-> 4, w |-> 0, r |-> 0, o |-> 2], [i |-> 4, w |-> 4, r |-> 0, o |-> 2],
     [i |-> 2, w |-> 2, r |-> 0, o |-> 1], [i |-> 0, w |-> 4, r |-> 0, o |-> 2],
     [i |-> 1, w |-> 2, r |-> 1, o |-> 2], [i |-> 5, w |-> 0, r |-> 0, o |-> 1],
     [i |-> 2, w |-> 0, r |-> 0, o |-> 3]}

=============================================================================
