------------------------------- MODULE QueryPlans -------------------------------
(***************************************************************************)
(* The plan a reader is shown (src-tauri/src/plan): DuckDB's EXPLAIN tree  *)
(* is read node by node in preorder, and turned into a graph with one      *)
(* result: wrappers are dropped, a scan with a filter becomes two steps,   *)
(* projections that only carry a simple aggregation are taken out in an    *)
(* order a hash set gives, and the aggregate is explained by what the SQL  *)
(* says, with its grouping as a step of its own.  What a node measured is  *)
(* the set of operators its number of rows stands for.                     *)
(***************************************************************************)
EXTENDS Naturals, Sequences, FiniteSets

CONSTANT PlanSize       \* bound: operators of a plan

VARIABLES
    stage,      \* "reading", "beginner", "thinning", "told" or "fallback"
    native,     \* the operators in preorder: records [kind, parent]
    path,       \* the nodes whose children are being read, the innermost first
    query,      \* what the SQL was recognised as
    steps,      \* the nodes shown: records [id, kind, rows, time]
    flows,      \* the edges shown, from where data comes to where it goes
    surplus     \* ids of projections still to be taken out

planVars == <<stage, native, path, query, steps, flows, surplus>>

\* normalize_operator, as far as the code tells operators apart: a scan with and without
\* a filter of its own, an aggregate with and without calculations, and the wrappers.
Inputs == [scan |-> 0, filteredScan |-> 0, join |-> 2, aggregate |-> 1, bareAggregate |-> 1,
           projection |-> 1, other |-> 1, wrapper |-> 1]
Kinds == DOMAIN Inputs

\* parse_query: the calculations of the select list ("none", those of the one calculating
\* aggregate, or others), whether there are groups, DISTINCT, and only simple columns;
\* what is not looked at is left out.
Queries ==
    {q \in [calculations : {"none", "same", "others"}, grouped : BOOLEAN, distinct : BOOLEAN, simple : BOOLEAN] :
        /\ q.calculations # "same" => ~q.grouped /\ ~q.simple
        /\ q.calculations = "others" => ~q.distinct}
NoQuery == [calculations |-> "none", grouped |-> FALSE, distinct |-> FALSE, simple |-> FALSE]

Read(i) == <<"read", i>>
Filter(i) == <<"filter", i>>
Group == <<"group", 0>>
Result == <<"result", 0>>
Ids == {s.id : s \in steps}

--------------------------------------------------------------------------------
(* Reading the tree.                                                       *)

PlanInit ==
    /\ stage = "reading" /\ native = <<>> /\ path = <<>> /\ query = NoQuery
    /\ steps = {} /\ flows = {} /\ surplus = {}

ChildrenOf(i) == {j \in DOMAIN native : native[j].parent = i}

\* What DuckDB's plans are: wrappers are on top of everything else, and alone.
Fits(kind) ==
    LET Over == IF path = <<>> THEN {} ELSE {native[Head(path)].kind} IN
    /\ kind = "wrapper" => IF path = <<>> THEN native = <<>> ELSE Over = {"wrapper"}
    /\ path = <<>> => \A i \in DOMAIN native : native[i].kind # "wrapper"

\* parse_explain_node, parse_profile_node: a node is numbered before its children.
ReadNode(kind) ==
    /\ stage = "reading" /\ Len(native) < PlanSize /\ Fits(kind)
    /\ path # <<>> => Cardinality(ChildrenOf(Head(path))) < Inputs[native[Head(path)].kind]
    /\ native' = Append(native, [kind |-> kind, parent |-> IF path = <<>> THEN 0 ELSE Head(path)])
    /\ path' = <<Len(native')>> \o path
    /\ UNCHANGED <<stage, query, steps, flows, surplus>>

\* Its children are all read.
EndNode ==
    /\ stage = "reading" /\ path # <<>>
    /\ Cardinality(ChildrenOf(Head(path))) = Inputs[native[Head(path)].kind]
    /\ path' = Tail(path)
    /\ UNCHANGED <<stage, native, query, steps, flows, surplus>>

\* normalize_plan_input: something that is no such tree, or an empty one, is shown raw.
Fallback ==
    /\ stage = "reading" /\ stage' = "fallback" /\ native' = <<>> /\ path' = <<>>
    /\ UNCHANGED <<query, steps, flows, surplus>>

--------------------------------------------------------------------------------
(* beginner_plan.                                                          *)

Kept == {i \in DOMAIN native : native[i].kind # "wrapper"}
Filtered == {i \in DOMAIN native : native[i].kind = "filteredScan"}
ShownKind(kind) ==
    CASE kind = "filteredScan" -> "scan" [] OTHER -> kind

\* source_endpoint: what flows out of a scan with a filter flows out of the filter.
ReadSource(i) == Read(i)                        \* mutant: out of the scan
Source(i) == IF i \in Filtered THEN Filter(i) ELSE Read(i)

BeginnerSteps ==
    {[id |-> Read(i), kind |-> ShownKind(native[i].kind), time |-> {i},
      rows |-> IF i \in Filtered THEN {} ELSE {i}] : i \in Kept}
    \cup {[id |-> Filter(i), kind |-> "filter", time |-> {}, rows |-> {i}] : i \in Filtered}
BeginnerFlows ==
    {<<Source(i), Read(native[i].parent)>> : i \in {j \in Kept : native[j].parent \in Kept}}
    \cup {<<Read(i), Filter(i)>> : i \in Filtered}

\* What nothing else uses flows into the result, which has its rows.
Beginner ==
    /\ stage = "reading" /\ native # <<>> /\ path = <<>>
    /\ LET roots == {s \in BeginnerSteps : \A f \in BeginnerFlows : f[1] # s.id} IN
       /\ steps' = BeginnerSteps \cup
             {[id |-> Result, kind |-> "result", time |-> {}, rows |-> UNION {s.rows : s \in roots}]}
       /\ flows' = BeginnerFlows \cup {<<s.id, Result>> : s \in roots}
    /\ stage' = "beginner"
    /\ UNCHANGED <<native, path, query, surplus>>

--------------------------------------------------------------------------------
(* semantics::apply.                                                       *)

Calculating == {s \in steps : s.kind = "aggregate"}
Aggregates == {s.id : s \in {t \in steps : t.kind \in {"aggregate", "bareAggregate"}}}
Projections == {s.id : s \in {t \in steps : t.kind = "projection"}}

\* projection_reaches_aggregate: over projections only, in either direction.
Beside(ids) == {id \in Ids : \E other \in ids : <<id, other>> \in flows \/ <<other, id>> \in flows}
Near(id) ==
    LET Reached[k \in Nat] ==
            IF k = 0 THEN {id} ELSE LET near == Reached[k - 1] IN near \cup (Beside(near) \cap Projections)
    IN  Reached[PlanSize]
AllCarryAggregates == \A id \in Projections : Beside(Near(id)) \cap Aggregates # {}

Bare == {s \in steps : s.kind = "bareAggregate"}
\* annotate_distinct: the one aggregate without calculations is the DISTINCT.
Distinct(seen) ==
    IF query'.distinct /\ Cardinality(Bare) = 1
    THEN {IF s \in Bare THEN [s EXCEPT !.kind = "distinct"] ELSE s : s \in seen} ELSE seen

\* What the SQL was recognised as: if its calculations are not those of one aggregate of
\* the plan, the graph stays as it is.
Recognise(q) ==
    /\ stage = "beginner" /\ query' = q
    /\ q.calculations = "same" => Calculating # {}
    /\ IF q.calculations = "same" /\ Cardinality(Calculating) = 1
       THEN /\ stage' = "thinning" /\ UNCHANGED steps
            /\ surplus' = (IF q.simple /\ AllCarryAggregates THEN Projections ELSE {})
       ELSE /\ stage' = "told" /\ UNCHANGED surplus
            /\ steps' = (IF q.calculations = "none" THEN Distinct(steps) ELSE steps)
    /\ UNCHANGED <<native, path, flows>>

\* SQL that parse_query leaves alone: nested, not ASCII, or without SELECT and FROM.
NotRecognised ==
    /\ stage = "beginner" /\ stage' = "told"
    /\ UNCHANGED <<native, path, query, steps, flows, surplus>>

\* remove_and_rewire, one projection.
Dropped(id) == {f \in flows : id \notin {f[1], f[2]}}
Rewired(id) ==
    Dropped(id) \cup {<<f[1], g[2]>> : f \in {e \in flows : e[2] = id}, g \in {e \in flows : e[1] = id}}
TakeOut(id) ==
    /\ stage = "thinning" /\ id \in surplus
    /\ flows' = {f \in Rewired(id) : f[1] # f[2]}
    /\ steps' = {s \in steps : s.id # id} /\ surplus' = surplus \ {id}
    /\ UNCHANGED <<stage, native, path, query>>

\* The aggregate is told as the calculation it is, and with groups, what flowed into it
\* flows into the grouping first, which has no measurements.
Explain ==
    /\ stage = "thinning" /\ surplus = {} /\ stage' = "told" /\ UNCHANGED query
    /\ \E a \in Calculating :
          LET told == Distinct((steps \ {a}) \cup {[a EXCEPT !.kind = "calculation"]}) IN
          IF query.grouped
          THEN /\ steps' = told \cup {[id |-> Group, kind |-> "group", rows |-> {}, time |-> {}]}
               /\ flows' = {<<f[1], IF f[2] = a.id THEN Group ELSE f[2]>> : f \in flows} \cup {<<Group, a.id>>}
          ELSE steps' = told /\ UNCHANGED flows
    /\ UNCHANGED <<native, path, surplus>>

PlanNext ==
    \/ \E kind \in Kinds : ReadNode(kind)
    \/ EndNode \/ Fallback \/ Beginner
    \/ \E q \in Queries : Recognise(q)
    \/ NotRecognised
    \/ \E id \in surplus : TakeOut(id)
    \/ Explain

PlanSpec == PlanInit /\ [][PlanNext]_planVars

--------------------------------------------------------------------------------
(* The property.                                                           *)

\* What a node's data reaches, by at least one edge.
After(id) ==
    LET Reached[k \in Nat] ==
            LET from == IF k = 0 THEN {id} ELSE {id} \cup Reached[k - 1]
            IN  {f[2] : f \in {e \in flows : e[1] \in from}}
    IN  Reached[2 * PlanSize]
Above(i) ==
    LET Reached[j \in Nat] ==
            IF j \notin Kept \/ native[j].parent = 0 THEN {}
            ELSE {native[j].parent} \cup Reached[native[j].parent]
    IN  Reached[i] \cap Kept
Visible == {i \in Kept : Read(i) \in Ids}

\* The graph shown is one flow into one result, that of the native plan: one operator
\* feeds another in it exactly if it does natively, projections alone are left out, and
\* what an operator measured is told once, rows where its data flows out, and nowhere
\* else but at the result, which returns the rows of the native roots.
PlanIsOneFlow ==
    stage = "told" =>
        /\ \A f \in flows : {f[1], f[2]} \subseteq Ids
        /\ \A id \in Ids : id \notin After(id) /\ (id # Result => Result \in After(id))
        /\ \A i \in Visible : Source(i) \in Ids /\ {j \in Visible : Read(j) \in After(Source(i))} = Above(i) \cap Visible
        /\ \A i \in Kept \ Visible : native[i].kind = "projection"
        /\ \A i \in Visible :
              /\ {s.id : s \in {t \in steps : i \in t.rows}} \ {Result} = {IF i \in Filtered THEN Filter(i) ELSE Read(i)}
              /\ {s.id : s \in {t \in steps : i \in t.time}} = {Read(i)}
        /\ \A s \in steps : s.id = Result => s.rows = {i \in Kept : Above(i) = {}}
================================================================================
