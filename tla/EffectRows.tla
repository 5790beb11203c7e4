----------------------------- MODULE EffectRows -----------------------------
(***************************************************************************)
(* Effect rows while one function body is inferred: row variables and      *)
(* their bindings, unification, union and discharge (coerce.c), and the    *)
(* places of infer.c that drive them: a call, an argument of function type,*)
(* a handled action, the gate at the end of the body.                      *)
(*                                                                         *)
(* An interned row is its labels in ascending order, repetitions kept, and *)
(* its tail: 0 when the row is closed, otherwise a row variable.  A bare   *)
(* row variable is a value of its own.                                     *)
(***************************************************************************)
EXTENDS Naturals, Sequences, FiniteSets, SequencesExt

CONSTANTS Labels,     \* effects, numbered by their DefId
          Callees,    \* the declared labels of the functions the body calls
          MaxVars,    \* bound on the row variables of one body
          MaxSteps,   \* bound on the operations of one body
          HOPS,       \* the hop limit of the walks (64 and 256 in the code)
          SharedRows  \* pairs of rows over the function's own `..e`: the row of a
                      \* function value and the one expected where it is used

ASSUME RowsAssumption == Labels \subseteq Nat /\ MaxVars \in Nat /\ HOPS \in Nat

VARIABLES row_subst,   \* the bindings, by row variable; NoRow when unbound
          next_row_var,
          body_rows,   \* body_effect_row of the body and of the actions being isolated
          accepted,    \* the pairs row_unify accepted: actual, expected
          performed,   \* the labels each of body_rows' scopes really performs
          verdict,     \* what the end of the body decides
          steps

rowVars == <<row_subst, next_row_var, body_rows, accepted, performed, verdict, steps>>

Row(labels, tail) == [bare |-> FALSE, labels |-> labels, tail |-> tail]
RowVar(v)         == [bare |-> TRUE, labels |-> <<>>, tail |-> v]
EmptyRow          == Row(<<>>, 0)
NoRow             == Row(<<>>, MaxVars + 1)
RowError          == Row(<<>>, MaxVars + 2)
Tail_(row)        == IF row.tail = 0 THEN EmptyRow ELSE RowVar(row.tail)

\* Operators over a substitution s.  A walk takes at most HOPS steps.
row_resolve(s, row) ==
    LET at[n \in 0 .. HOPS] ==
          IF n = 0 THEN row
          ELSE LET r == at[n - 1]
               IN  IF r.bare /\ s[r.tail] # NoRow THEN s[r.tail] ELSE r
    IN  at[HOPS]

\* The labels of a row and of the rows its tail is bound to, one by one.
RowOfChain(chain) ==
    IF chain[0].bare \/ chain[0] = RowError THEN chain[0]
    ELSE Row(SortSeq(FlattenSeq([n \in 1 .. HOPS |-> chain[n - 1].labels]), <),
             IF chain[HOPS].bare THEN chain[HOPS].tail ELSE 0)
row_flatten(s, row) ==
    LET at[n \in 0 .. HOPS] ==     \* the n-th row of the chain, closed ones last
          IF n = 0 THEN row_resolve(s, row)
          ELSE LET r == at[n - 1]
               IN  IF r.bare \/ r = EmptyRow THEN r ELSE row_resolve(s, Tail_(r))
    IN  RowOfChain(at)

\* The walk ends at v itself, at a closed row, at an unbound variable or at a
\* row that is its own tail; one that has not ended counts as an occurrence.
OccursStep(s, v, r) ==
    CASE r = RowVar(v) -> r
      [] r # RowVar(v) /\ ~r.bare -> row_resolve(s, Tail_(r))
      [] OTHER -> IF s[r.tail] = NoRow THEN r ELSE s[r.tail]
occurs_in_row(s, v, row) ==
    LET at[n \in 0 .. HOPS] == IF n = 0 THEN row ELSE OccursStep(s, v, at[n - 1])
    IN  at[HOPS] = RowVar(v) \/ OccursStep(s, v, at[HOPS]) # at[HOPS]

row_without(row, label) ==
    IF row.bare \/ label \notin ToSet(row.labels) THEN row
    ELSE [row EXCEPT !.labels = Remove(row.labels, label)]

\* subst_bind behind the occurs check; what row_unify returns.
RowAnswer(ok, s) == [ok |-> ok, subst |-> s]
BindChecked(s, v, row) ==
    IF occurs_in_row(s, v, row) THEN RowAnswer(FALSE, s) ELSE RowAnswer(TRUE, [s EXCEPT ![v] = row])
BindUnchecked(s, v, row) == RowAnswer(TRUE, [s EXCEPT ![v] = row])

UnifyWithVar(s, a, b) ==
    IF a = b THEN RowAnswer(TRUE, s)
    ELSE IF a.bare THEN BindChecked(s, a.tail, b)
    ELSE IF b.bare THEN BindChecked(s, b.tail, a)
    ELSE RowAnswer(FALSE, s)

\* Variant: the rest is bound without the tail of the row it comes from.
UnifyRestsClosed(s, a, b) ==
    CASE a.labels = <<>> /\ b.labels = <<>> -> UnifyWithVar(s, Tail_(a), Tail_(b))
      [] a.labels = <<>> /\ b.labels # <<>> /\ a.tail # 0 -> BindUnchecked(s, a.tail, b)
      [] a.labels # <<>> /\ b.labels = <<>> /\ b.tail # 0 ->
           BindUnchecked(s, b.tail, Row(a.labels, 0))
      [] OTHER ->
           IF b.tail # 0 THEN BindChecked(s, b.tail, FoldLeft(row_without, a, b.labels))
           ELSE RowAnswer(FALSE, s)

\* Both rows have labels: the common prefix goes, and an open tail takes the
\* rest of the other row.
UnifyRests(s, a, b) ==
    CASE a.labels = <<>> /\ b.labels = <<>> -> UnifyWithVar(s, Tail_(a), Tail_(b))
      [] a.labels = <<>> /\ b.labels # <<>> /\ a.tail # 0 -> BindUnchecked(s, a.tail, b)
      [] a.labels # <<>> /\ b.labels = <<>> /\ b.tail # 0 -> BindUnchecked(s, b.tail, a)
      [] OTHER ->
           IF b.tail # 0 THEN BindChecked(s, b.tail, FoldLeft(row_without, a, b.labels))
           ELSE RowAnswer(FALSE, s)
RowAfter(row, n) == Row(SubSeq(row.labels, n + 1, Len(row.labels)), row.tail)
UnifyRows(s, a, b) ==
    LET common == Len(LongestCommonPrefix({a.labels, b.labels}))
    IN  UnifyRests(s, RowAfter(a, common), RowAfter(b, common))

UnifyFlat(s, a, b) ==
    IF a = b \/ a.bare \/ b.bare THEN UnifyWithVar(s, a, b) ELSE UnifyRows(s, a, b)
row_unify(s, x, y) == UnifyFlat(s, row_flatten(s, x), row_flatten(s, y))

\* The row a body has after it also performs another; NoRow if the tails clash.
Merged(row, s) == [row |-> row, subst |-> s]
MergedBy(answer, row, s) == IF answer.ok THEN Merged(row, answer.subst) ELSE Merged(NoRow, s)
MergedAt(answer, labels, v, s) ==
    IF answer.ok THEN Merged(Row(labels, row_resolve(answer.subst, RowVar(v)).tail), answer.subst)
    ELSE Merged(NoRow, s)
UnionLabels(s, a, b, labels) ==
    IF a.tail = 0 \/ b.tail = 0 THEN Merged(Row(labels, a.tail + b.tail), s)
    ELSE MergedAt(row_unify(s, RowVar(a.tail), RowVar(b.tail)), labels, a.tail, s)
UnionFlat(s, a, b) ==
    CASE RowError \in {a, b} -> Merged(RowError, s)
      [] RowError \notin {a, b} /\ (a = b \/ b = EmptyRow) -> Merged(a, s)
      [] RowError \notin {a, b} /\ a # b /\ a = EmptyRow -> Merged(b, s)
      [] RowError \notin {a, b} /\ a # b /\ EmptyRow \notin {a, b} /\ a.bare ->
           MergedBy(row_unify(s, a, b), b, s)
      [] RowError \notin {a, b} /\ EmptyRow \notin {a, b} /\ ~a.bare /\ b.bare ->
           MergedBy(row_unify(s, b, a), a, s)
      [] OTHER -> UnionLabels(s, a, b, SortSeq(a.labels \o b.labels, <))
row_union(s, x, y) == UnionFlat(s, row_flatten(s, x), row_flatten(s, y))

row_dedup(row) ==
    IF row.bare THEN row
    ELSE [row EXCEPT !.labels = SetToSortSeq(ToSet(row.labels), <)]

\* Following the bindings from a row variable never ends.
NextVar(s, v) == IF v \in 1 .. MaxVars /\ s[v] # NoRow THEN s[v].tail ELSE 0
Endless(s, v) ==
    LET at[n \in 0 .. MaxVars] == IF n = 0 THEN v ELSE NextVar(s, at[n - 1])
    IN  at[MaxVars] # 0

\* The recursion over the tails has no hop limit: GroundReturns says when it ends.
GroundReturns(s, row) == ~Endless(s, row.tail)
ground_unbound_row_vars(s, row) ==
    LET end == row_resolve(s, Tail_(row_flatten(s, row)))
    IN  IF row # RowError /\ end.bare THEN [s EXCEPT ![end.tail] = EmptyRow] ELSE s

\* The row of a function value where another is expected (the end of the
\* function case of coerce_structural_ctx): a pure function fits everywhere.
FnRowFits(s, actual, expected) ==
    IF RowError \in {actual, expected} \/ actual = expected THEN RowAnswer(TRUE, s)
    ELSE LET answer == row_unify(s, actual, expected)
         IN  RowAnswer(answer.ok \/ actual = EmptyRow, answer.subst)

-----------------------------------------------------------------------------
(* One body.  Row variable 1 is the `..e` of the function's own signature. *)

OwnVar == 1
Body   == Last(body_rows)
Scope  == Last(performed)
Replaced(stack, top) == Append(Front(stack), top)
NoVerdict == [declared |-> NoRow, gate |-> "open", inferred_row |-> NoRow]
DeclaredRows == {Row(labels, 0) : labels \in Callees \cup {<<>>}} \cup {Row(<<>>, OwnVar)}
Working(fresh) == steps < MaxSteps /\ next_row_var + fresh <= MaxVars

RowsInit ==
    /\ row_subst = [v \in 1 .. MaxVars |-> NoRow]
    /\ next_row_var = OwnVar
    /\ body_rows = <<EmptyRow>>
    /\ accepted = {}
    /\ performed = <<{}>>
    /\ verdict = NoVerdict
    /\ steps = 0

\* The row of a callee joins the body's; a clash is reported and sticks.
Adopt(rows, merged) ==
    /\ body_rows' = Replaced(rows, IF merged.row = NoRow THEN RowError ELSE merged.row)
    /\ row_subst' = merged.subst
FoldRow(s, rows, row) == Adopt(rows, row_union(s, Last(rows), row))

\* A call of a function with this declared row: its variables are renamed
\* for the call (instantiate_fn_for_call_site).
CallFn(labels, isOpen) ==
    /\ Working(IF isOpen THEN 1 ELSE 0)
    /\ next_row_var' = IF isOpen THEN next_row_var + 1 ELSE next_row_var
    /\ FoldRow(row_subst, body_rows, Row(labels, IF isOpen THEN next_row_var + 1 ELSE 0))
    /\ performed' = Replaced(performed, Scope \cup ToSet(labels))
    /\ steps' = steps + 1
    /\ UNCHANGED <<accepted, verdict>>

\* A call of a parameter `f : Fn() <labels, ..e>`: a local, so not renamed.
CallParam(labels) ==
    /\ Working(0)
    /\ FoldRow(row_subst, body_rows, Row(labels, OwnVar))
    /\ performed' = Replaced(performed, Scope \cup ToSet(labels))
    /\ steps' = steps + 1
    /\ UNCHANGED <<next_row_var, accepted, verdict>>

\* apply(g), with apply :: fn(f: Fn() <fixed, ..v>) <..v>: the argument is
\* coerced and then the callee's row joins the body's.
CallApply(arg, fixed) ==
    LET v == next_row_var + 1
        param == Row(fixed, v)
        answer == FnRowFits(row_subst, arg, param)
    IN  /\ Working(1)
        /\ next_row_var' = v
        /\ FoldRow(answer.subst, body_rows, Row(<<>>, v))
        /\ accepted' = IF answer.ok THEN accepted \cup {<<arg, param>>} ELSE accepted
        /\ performed' = Replaced(performed, Scope \cup (ToSet(arg.labels) \ ToSet(fixed)))
        /\ steps' = steps + 1
        /\ UNCHANGED verdict

\* A function value used where another function type is expected.
CoerceFnRow(pair) ==
    LET answer == FnRowFits(row_subst, pair[1], pair[2])
    IN  /\ Working(0)
        /\ row_subst' = answer.subst
        /\ accepted' = IF answer.ok THEN accepted \cup {pair} ELSE accepted
        /\ steps' = steps + 1
        /\ UNCHANGED <<next_row_var, body_rows, performed, verdict>>

\* type_action_isolated: the row of a handled action is collected apart.
BeginAction ==
    /\ Working(1) /\ Len(body_rows) < 3
    /\ body_rows' = Append(body_rows, EmptyRow)
    /\ performed' = Append(performed, {})
    /\ steps' = steps + 1
    /\ UNCHANGED <<row_subst, next_row_var, accepted, verdict>>

\* The handler of an effect: its action may perform <label | ..v>, its own
\* row is ..v.
EndAction(label) ==
    LET v == next_row_var + 1
        cont_row == row_flatten(row_subst, Body)
        s == row_unify(row_subst, cont_row, Row(<<label>>, v)).subst
    IN  /\ Working(1) /\ Len(body_rows) > 1
        /\ next_row_var' = v
        /\ FoldRow(s, Front(body_rows), row_flatten(s, RowVar(v)))
        /\ performed' = Replaced(Front(performed), Last(Front(performed)) \cup (Scope \ {label}))
        /\ steps' = steps + 1
        /\ UNCHANGED <<accepted, verdict>>

\* The end of the body.  For an annotated function (declared is not NoRow)
\* what is still unbound is closed and the body's row must unify with the
\* declared one.  Then the bindings are freed, and the function's row is read
\* off body_effect_row without them: its open tail closed, no repetitions.
\* (row_subst keeps here what the rows were accepted under.)
Gate(s, declared) ==
    LET ground == ground_unbound_row_vars(s, Body)
        flat == row_flatten(ground, Body)
    IN  IF flat = RowError THEN RowAnswer(TRUE, ground)
        ELSE row_unify(ground, flat, row_flatten(ground, declared))
InferredRow == IF Body.bare THEN EmptyRow
               ELSE IF Body = RowError THEN RowError ELSE row_dedup(Row(Body.labels, 0))
EndOfBody == Len(body_rows) = 1 /\ steps < MaxSteps + 1 /\ steps' = MaxSteps + 1
EndUnannotated ==
    /\ EndOfBody
    /\ verdict' = [declared |-> NoRow, gate |-> "none", inferred_row |-> InferredRow]
    /\ UNCHANGED <<row_subst, next_row_var, body_rows, accepted, performed>>
EndBody(declared) ==
    LET answer == Gate(row_subst, declared)
    IN  /\ EndOfBody /\ GroundReturns(row_subst, Body)
        /\ row_subst' = answer.subst
        /\ verdict' = [declared |-> declared, gate |-> IF answer.ok THEN "ok" ELSE "reported",
                       inferred_row |-> InferredRow]
        /\ UNCHANGED <<next_row_var, body_rows, accepted, performed>>

RowsNext ==
    \/ \E labels \in Callees, isOpen \in BOOLEAN : CallFn(labels, isOpen)
    \/ \E labels \in {<<>>} \cup {l \in Callees : Len(l) = 1} : CallParam(labels)
    \/ \E labels \in Callees \cup {<<>>}, tail \in {0, OwnVar}, fixed \in {<<>>} \cup {l \in Callees : Len(l) = 1} :
         CallApply(Row(labels, tail), fixed)
    \/ \E pair \in SharedRows : CoerceFnRow(pair)
    \/ BeginAction
    \/ \E label \in Labels : EndAction(label)
    \/ EndUnannotated
    \/ \E declared \in DeclaredRows : EndBody(declared)

-----------------------------------------------------------------------------
(* Properties.                                                             *)

NamedIn(row) == ToSet(row_flatten(row_subst, row).labels)

\* Inference never loses an effect: at every moment the row collected for
\* the body, and for each action being isolated, names every effect its
\* calls perform and its handlers do not discharge.
NoEffectIsLost ==
    \A i \in DOMAIN body_rows :
        body_rows[i] # RowError => performed[i] \subseteq NamedIn(body_rows[i])

\* Nor does its end: the row the function gets in the signature names what
\* the body performs, although it is read off after the bindings are freed,
\* and a body that passed the gate of a closed declaration performs nothing
\* else than is declared (an open declaration absorbs the rest).
SignatureTellsEffects ==
    verdict # NoVerdict /\ Body # RowError =>
        /\ performed[1] \subseteq ToSet(verdict.inferred_row.labels)
        /\ verdict.gate = "ok" /\ verdict.declared.tail = 0 =>
             performed[1] \subseteq ToSet(verdict.declared.labels)

\* A function value accepted where another function type is expected stays
\* acceptable under every binding made later: what it may perform is named by
\* the expected row, and its open tail ends where the expected row's does.
AcceptedStaysCovered ==
    \A pair \in accepted :
        LET a == row_flatten(row_subst, pair[1])
            b == row_flatten(row_subst, pair[2])
        IN  ToSet(a.labels) \subseteq ToSet(b.labels) /\ a.tail \in {0, b.tail}

\* "A handled effect no longer escapes" (infer.c:2759): a body names no effect
\* but the ones that are performed outside a handler for them.
HandledStaysInside ==
    \A i \in DOMAIN body_rows :
        body_rows[i] # RowError => NamedIn(body_rows[i]) \subseteq performed[i]

\* "Once this occurs check is in place, no new cycles can be introduced"
\* (coerce.c:290): no row variable is bound to a row that ends in itself.
NoCyclicRow == \A v \in 1 .. MaxVars : ~Endless(row_subst, v)

\* The rows of a body account for what it performs: no effect is lost on the
\* way or at the end, and a row once accepted stays accepted (row_unify,
\* row_union, the gate of INFER_BODY).
EffectsAccounted == NoEffectIsLost /\ SignatureTellsEffects /\ AcceptedStaysCovered
=============================================================================
