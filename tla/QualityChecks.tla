------------------------------ MODULE QualityChecks ------------------------------
(***************************************************************************)
(* What a quality check counts: the SQL that quality.rs writes for each    *)
(* kind of check, evaluated in SQL's three-valued logic, over a table that *)
(* grows row by row.                                                       *)
(*                                                                         *)
(* A row has columns a and b; NULL is 0, and values are positive numbers.  *)
(* A timestamp is its number, and Now the time of the query.               *)
(***************************************************************************)
EXTENDS Integers, Sequences, FiniteSets

CONSTANTS
    RowLimit,       \* bound: rows of the table
    Now

NULL == 0
Values == 1..2
Rows == [a : Values \cup {NULL}, b : {NULL, 1}]
Kinds == {"not_empty", "not_null", "unique", "accepted_values", "range", "relationship", "freshness"}

VARIABLES
    draft,          \* the check: kind, columns, null policy, options
    table           \* rows of its target

qualityCheckVars == <<draft, table>>

--------------------------------------------------------------------------------
(* SQL: "true", "false" or "null".                                         *)

Truth(p) == IF p THEN "true" ELSE "false"
Not3(x) == CASE x = "true" -> "false" [] x = "false" -> "true" [] OTHER -> "null"
And3(x, y) == IF "false" \in {x, y} THEN "false" ELSE IF "null" \in {x, y} THEN "null" ELSE "true"
Or3(x, y) == Not3(And3(Not3(x), Not3(y)))
IsNull(v) == Truth(v = NULL)
Less(v, w) == IF NULL \in {v, w} THEN "null" ELSE Truth(v < w)
LessOrEqual(v, w) == IF NULL \in {v, w} THEN "null" ELSE Truth(v <= w)
In(v, S) == IF v = NULL \/ (v \notin S /\ NULL \in S) THEN "null" ELSE Truth(v \in S)
Where(rows, Holds(_)) == SelectSeq(rows, LAMBDA r : Holds(r) = "true")

--------------------------------------------------------------------------------
(* Drafts.                                                                 *)

NoOptions == [values |-> {}, minimum |-> NULL, maximum |-> NULL, inclusive |-> FALSE, parent |-> {}, age |-> 0]
Drafts ==
    [kind : Kinds, columns : {<<>>, <<"a">>, <<"a", "b">>}, nullsFail : BOOLEAN, options : {NoOptions}]
    \cup [kind : {"accepted_values"}, columns : {<<"a">>}, nullsFail : BOOLEAN,
          options : {[NoOptions EXCEPT !.values = S] : S \in SUBSET {NULL, 1}}]
    \cup [kind : {"range"}, columns : {<<"a">>}, nullsFail : BOOLEAN,
          options : {[NoOptions EXCEPT !.minimum = m, !.maximum = x, !.inclusive = i] :
                     m \in {NULL, 1}, x \in {NULL, 2}, i \in BOOLEAN}]
    \cup [kind : {"relationship"}, columns : {<<"a">>, <<"a", "b">>}, nullsFail : BOOLEAN,
          options : {[NoOptions EXCEPT !.parent = P] : P \in {{}, {[a |-> 1, b |-> 1]},
                     {[a |-> 1, b |-> NULL], [a |-> 1, b |-> 1]}, {[a |-> NULL, b |-> 1], [a |-> 2, b |-> NULL]}}}]
    \cup [kind : {"freshness"}, columns : {<<"a">>}, nullsFail : BOOLEAN,
          options : {[NoOptions EXCEPT !.age = 1]}]

\* validate_draft
AnyDraft(d) == d.columns # <<>> \/ d.kind = "not_empty"    \* mutant: options are not validated
Valid(d) ==
    CASE d.kind = "not_empty" -> d.columns = <<>>
      [] d.kind \in {"not_null", "range", "freshness", "accepted_values"} ->
            /\ Len(d.columns) = 1
            /\ d.kind = "accepted_values" => d.options.values # {} /\ NULL \notin d.options.values
            /\ d.kind = "range" => d.options.minimum # NULL \/ d.options.maximum # NULL
            /\ d.kind = "freshness" => d.options.age > 0
      [] OTHER -> d.columns # <<>>

--------------------------------------------------------------------------------
(* compile_check: the rows a check counts, by their failure predicate.     *)

Key(d, r) == [i \in DOMAIN d.columns |-> r[d.columns[i]]]
Field(d, r) == r[d.columns[1]]
AnyNull(d, r) == Truth(NULL \in {Key(d, r)[i] : i \in DOMAIN d.columns})

NullPredicate(d, r, failure) ==
    IF d.nullsFail THEN Or3(IsNull(Field(d, r)), failure)
    ELSE And3(Not3(IsNull(Field(d, r))), failure)

\* Rows whose key occurs more than once among the rows without NULL in it.
Duplicate(d, r) ==
    LET complete == Where(table, LAMBDA x : Not3(AnyNull(d, x)))
    IN  Truth(Cardinality({i \in DOMAIN complete : Key(d, complete[i]) = Key(d, r)}) > 1)

UniqueFailure(d, r) ==
    IF d.nullsFail THEN Or3(AnyNull(d, r), Duplicate(d, r))
    ELSE And3(Not3(AnyNull(d, r)), Duplicate(d, r))

Below(d, v) == IF d.options.inclusive THEN Less(v, d.options.minimum) ELSE LessOrEqual(v, d.options.minimum)
Above(d, v) == IF d.options.inclusive THEN Less(d.options.maximum, v) ELSE LessOrEqual(d.options.maximum, v)
Outside(d, v) ==
    Or3(IF d.options.minimum = NULL THEN "false" ELSE Below(d, v),
        IF d.options.maximum = NULL THEN "false" ELSE Above(d, v))

\* The left join with the distinct parent keys compares with IS NOT DISTINCT FROM.
Unmatched(d, r) == Truth(Key(d, r) \notin {Key(d, p) : p \in d.options.parent})
RelationshipFailure(d, r) ==
    IF d.nullsFail THEN Or3(AnyNull(d, r), Unmatched(d, r))
    ELSE And3(Not3(AnyNull(d, r)), Unmatched(d, r))

Stale(d, v) == Less(v, Now - d.options.age)
Latest(d) ==
    LET present == {Field(d, table[i]) : i \in DOMAIN table} \ {NULL}
    IN  IF present = {} THEN NULL ELSE CHOOSE v \in present : \A w \in present : w <= v
AggregateFailure(d) ==
    LET nulls == Truth(d.nullsFail /\ \E i \in DOMAIN table : Field(d, table[i]) = NULL)
    IN  And3(Truth(Latest(d) # NULL), Or3(nulls, Stale(d, Latest(d))))

Failure(d, r) ==
    CASE d.kind = "not_null" -> IsNull(Field(d, r))
      [] d.kind = "unique" -> UniqueFailure(d, r)
      [] d.kind = "accepted_values" -> NullPredicate(d, r, Not3(In(Field(d, r), d.options.values)))
      [] d.kind = "range" -> NullPredicate(d, r, Outside(d, Field(d, r)))
      [] d.kind = "relationship" -> RelationshipFailure(d, r)
      [] d.kind = "freshness" -> And3(AggregateFailure(d), Or3(IsNull(Field(d, r)), Stale(d, Field(d, r))))
      [] OTHER -> "false"

\* preview_sql and count_sql; a freshness check of a column without values counts NULL.
Preview(d) == Where(table, LAMBDA r : Failure(d, r))
NoCount == -1
Count(d) ==
    CASE d.kind = "not_empty" -> IF table = <<>> THEN 1 ELSE 0
      [] d.kind = "freshness" -> IF Latest(d) = NULL THEN NoCount ELSE IF AggregateFailure(d) = "true" THEN 1 ELSE 0
      [] OTHER -> Len(Preview(d))

\* finish_success
Outcome(d) == CASE Count(d) = NoCount -> "error" [] Count(d) = 0 -> "pass" [] OTHER -> "fail"

--------------------------------------------------------------------------------
QualityCheckInit == draft \in {d \in Drafts : Valid(d)} /\ table = <<>>

\* A row is added to the target.
AddRow ==
    /\ Len(table) < RowLimit
    /\ \E r \in Rows : table' = Append(table, r)
    /\ UNCHANGED draft

QualityCheckNext == AddRow
QualityCheckSpec == QualityCheckInit /\ [][QualityCheckNext]_qualityCheckVars

--------------------------------------------------------------------------------
(* Properties.                                                             *)

\* What a check promises, in plain terms of the rows (table "Type | Passes when" of
\* design/E14): NULL fails or is left out as the policy says.
Keys(d) == {Key(d, table[i]) : i \in DOMAIN table}
Complete(k) == \A i \in DOMAIN k : k[i] # NULL
Kept(d, Good(_)) == \A k \in Keys(d) : IF Complete(k) THEN Good(k) ELSE ~d.nullsFail
Promised(d) ==
    CASE d.kind = "not_empty" -> table # <<>>
      [] d.kind = "not_null" -> \A k \in Keys(d) : Complete(k)
      [] d.kind = "unique" ->
            Kept(d, LAMBDA k : \A i, j \in DOMAIN table : Key(d, table[i]) = k /\ Key(d, table[j]) = k => i = j)
      [] d.kind = "accepted_values" -> Kept(d, LAMBDA k : k[1] \in d.options.values)
      [] d.kind = "range" ->
            LET o == d.options
                from == IF o.minimum = NULL THEN 0 ELSE IF o.inclusive THEN o.minimum ELSE o.minimum + 1
                to == IF o.maximum = NULL THEN 9 ELSE IF o.inclusive THEN o.maximum ELSE o.maximum - 1
            IN  Kept(d, LAMBDA k : k[1] \in from..to)
      [] d.kind = "relationship" -> Kept(d, LAMBDA k : k \in {Key(d, p) : p \in d.options.parent})
      [] OTHER ->
            /\ \E k \in Keys(d) : Complete(k) /\ k[1] + d.options.age >= Now
            /\ Kept(d, LAMBDA k : TRUE)

\* A valid check passes on a table exactly if the table keeps its promise, through every
\* NULL, every bound and every duplicate; freshness without a value is an error, no pass;
\* and a check that failed, and no other, has rows to show, but for an empty table.
OutcomeIsThePromise ==
    /\ Outcome(draft) = "pass" <=> Promised(draft)
    /\ Outcome(draft) = "error" => draft.kind = "freshness" /\ ~\E k \in Keys(draft) : Complete(k)
    /\ Outcome(draft) = "fail" <=> Preview(draft) # <<>> \/ (draft.kind = "not_empty" /\ table = <<>>)

================================================================================
