----------------------------- MODULE Inference -----------------------------
(***************************************************************************)
(* Control flow in a function body (infer.c): the type of statements,      *)
(* loops and labelled blocks, what `break` contributes to its frame, the   *)
(* coverage of a switch, and the pass that decides whether the end of a    *)
(* function that returns a value can be reached.                           *)
(*                                                                         *)
(* A statement is a record; an expression is only its type.                *)
(***************************************************************************)
EXTENDS ConstEval

CONSTANTS Functions     \* the functions to infer: [ret, body, generic]

VARIABLES fn,           \* the function
          inferred_type,\* the type of its body; NoType before it is inferred,
                        \* Skipped while a generic one waits for an instance
          reports       \* the diagnostics of the body

inferVars == <<fn, inferred_type, reports>>

NoStmt              == [k |-> "absent"]
ExprStmt(t)         == [k |-> "expr", type |-> t]      \* NoReturn: panic()
ReturnStmt(t)       == [k |-> "return", type |-> t]    \* NoType: no value
BreakStmt(label, t) == [k |-> "break", label |-> label, type |-> t]
ContinueStmt        == [k |-> "continue"]
DeferStmt(body)     == [k |-> "defer", body |-> body]
WithCall(body)      == [k |-> "with", body |-> body]   \* body: its continuation
IfStmt(cond, then, else) == [k |-> "if", cond |-> cond, then |-> then, else |-> else]
LoopStmt(label, header, body, else) ==
    [k |-> "loop", label |-> label, header |-> header, body |-> body, else |-> else]
BlockStmt(label, stmts) == [k |-> "block", label |-> label, stmts |-> stmts]
SwitchStmt(scrut, arms) == [k |-> "switch", scrut |-> scrut, arms |-> arms]
EnumType(variants)  == [tag |-> "enum", variants |-> variants]

Unbound == [v \in 1 .. MaxTypeVars |-> NoType]

\* What is being inferred: label_scope, innermost last, and the diagnostics.
Context(frames, diagnostics) == [frames |-> frames, diags |-> diagnostics]
LabelFrame(name, isLoop) == [name |-> name, accum |-> NoType, is_loop |-> isLoop]
Inferred(type, ctx) == [type |-> type, ctx |-> ctx]
Report(ctx, d) == [ctx EXCEPT !.diags = @ \cup {d}]
ReportIf(cond, ctx, d) == IF cond THEN Report(ctx, d) ELSE ctx
Push(ctx, frame) == [ctx EXCEPT !.frames = Append(@, frame)]
Pop(ctx) == [ctx EXCEPT !.frames = Front(@)]

find_label_frame(ctx, name)    == SelectLastInSeq(ctx.frames, LAMBDA f : f.name = name)
find_innermost_loop_frame(ctx) == SelectLastInSeq(ctx.frames, LAMBDA f : f.is_loop)

-----------------------------------------------------------------------------
(* Switch coverage.                                                        *)

Interval(lo, hi) == [lo |-> lo, hi |-> hi]
interval_overlaps(set, iv) == \E i \in DOMAIN set : iv.lo <= set[i].hi /\ set[i].lo <= iv.hi

\* Variant: gaps between the intervals are not looked for.
intervals_reach(set, min, max) ==
    LET iv == SortSeq(set, LAMBDA a, b : a.lo < b.lo)
    IN  iv # <<>> /\ iv[1].lo = min /\ iv[Len(iv)].hi = max

intervals_span(set, min, max) ==
    LET iv == SortSeq(set, LAMBDA a, b : a.lo < b.lo)
    IN  /\ iv # <<>> /\ iv[1].lo = min /\ iv[Len(iv)].hi = max
        /\ \A i \in 2 .. Len(iv) : iv[i - 1].hi # INT_MAX /\ iv[i].lo = iv[i - 1].hi + 1

\* No bounds for the unsigned type of a whole word.
HasBounds(t)  == is_concrete_int(t) /\ ~(~t.signed /\ t.bits = WORD)
MinOf(t)      == IF t.signed THEN -(2^(t.bits - 1)) ELSE 0
MaxOf(t)      == IF t.signed THEN 2^(t.bits - 1) - 1 ELSE 2^t.bits - 1

\* The interval of a pattern; the end of `lo ..< hi` is computed in a word.
IntervalOf(p) ==
    CASE p.tag = "lit" -> Interval(Signed(p.lo), Signed(p.lo))
      [] p.tag = "..=" -> Interval(Signed(p.lo), Signed(p.hi))
      [] p.tag = "..<" -> Interval(Signed(p.lo), Signed(p.hi - 1))
Fits(p, scrut) ==
    /\ tv_fits_in(Literal(p.lo).value, scrut)
    /\ p.tag \in {"..<", "..="} => tv_fits_in(Literal(p.hi).value, scrut)

CoverInt(acc, p, scrut) ==
    LET iv == IntervalOf(p)
        checked == IF Fits(p, scrut) THEN acc.ctx ELSE Report(acc.ctx, "pattern type")
    IN  IF iv.lo > iv.hi THEN [acc EXCEPT !.ctx = Report(checked, "empty range")]
        ELSE IF interval_overlaps(acc.ivals, iv) THEN [acc EXCEPT !.ctx = Report(checked, "overlap")]
        ELSE [acc EXCEPT !.ivals = Append(@, iv), !.ctx = checked]

CoverPattern(acc, p, scrut) ==
    IF p.tag = "_" THEN [acc EXCEPT !.wildcard = TRUE]
    ELSE IF p.tag = "variant"
    THEN [acc EXCEPT !.covered = @ \cup {p.lo},
                     !.ctx = ReportIf(scrut.tag # "enum" \/ (scrut.tag = "enum" /\ p.lo \notin scrut.variants),
                                      @, "pattern type")]
    ELSE IF p.tag = "bool"
    THEN [acc EXCEPT !.covered = IF scrut = Bool THEN @ \cup {p.lo} ELSE @,
                     !.ctx = ReportIf(scrut # Bool, @, "pattern type")]
    ELSE IF is_concrete_int(scrut) THEN CoverInt(acc, p, scrut)
    ELSE [acc EXCEPT !.ctx = Report(@, "pattern type")]

Exhaustive(acc, scrut) ==
    \/ acc.wildcard
    \/ scrut.tag = "enum" /\ scrut.variants \subseteq acc.covered
    \/ scrut = Bool /\ acc.covered = {0, 1}
    \/ HasBounds(scrut) /\ intervals_span(acc.ivals, MinOf(scrut), MaxOf(scrut))
    \/ scrut.tag # "enum" /\ scrut # Bool /\ ~is_concrete_int(scrut)

-----------------------------------------------------------------------------
(* The missing-return pass.  `typed` is false in a branch that was not     *)
(* inferred, where no node has a type.                                     *)

RECURSIVE loop_has_reachable_break(_)
loop_has_reachable_break(n) ==
    CASE n.k = "break" -> TRUE
      [] n.k = "if" -> loop_has_reachable_break(n.then) \/ loop_has_reachable_break(n.else)
      [] n.k = "switch" -> \E i \in DOMAIN n.arms : loop_has_reachable_break(n.arms[i].body)
      [] n.k = "block" -> \E i \in DOMAIN n.stmts : loop_has_reachable_break(n.stmts[i])
      [] n.k = "defer" -> loop_has_reachable_break(n.body)
      [] OTHER -> FALSE         \* loops and lambdas keep their breaks

ScrutFinite(t) == t = Bool \/ is_concrete_int(t) \/ t.tag = "enum"
FirstIsWildcard(arm) == arm.pats[1].tag = "_"

RECURSIVE infer(_, _, _), block_always_terminates(_, _)

\* Nothing is expected of the type.
type_of_expr(n, ctx) == infer(n, ctx, NoType)
TypeSeen(n) == type_of_expr(n, Context(<<>>, {})).type     \* db_lookup_node_type

\* Variant: an absent else branch counts as one that terminates.
IfTerminatesAlone(n, typed) ==
    /\ n.k = "if"
    /\ block_always_terminates(n.then, typed /\ n.cond # "false")
    /\ n.else = NoStmt \/ block_always_terminates(n.else, typed /\ n.cond # "true")

IfTerminates(n, typed) ==
    /\ n.k = "if"
    /\ block_always_terminates(n.then, typed /\ n.cond # "false")
    /\ block_always_terminates(n.else, typed /\ n.cond # "true")
\* Coverage is infer_switch's to report.
SwitchTerminates(n, typed) ==
    /\ n.k = "switch"
    /\ \A i \in DOMAIN n.arms : block_always_terminates(n.arms[i].body, typed)
    /\ \/ \E i \in DOMAIN n.arms : FirstIsWildcard(n.arms[i])
       \/ typed /\ ScrutFinite(n.scrut)
LoopTerminates(n)  == n.k = "loop" /\ ~n.header /\ ~loop_has_reachable_break(n.body)
BlockTerminates(n, typed) ==
    n.k = "block" /\ \E i \in DOMAIN n.stmts : block_always_terminates(n.stmts[i], typed)

block_always_terminates(n, typed) ==
    \/ n.k = "return"
    \/ n.k # "absent" /\ typed /\ TypeSeen(n) = NoReturn
    \/ n.k = "with" /\ block_always_terminates(n.body, typed)
    \/ IfTerminates(n, typed) \/ SwitchTerminates(n, typed)
    \/ LoopTerminates(n) \/ BlockTerminates(n, typed)

-----------------------------------------------------------------------------
(* infer_value_position, statement by statement.                           *)

kind_is_discard_construct(n) == n.k \notin {"expr", "with"}

InferReturn(n, ctx) ==
    LET ret == fn.ret
        wrong == IF n.type = NoType THEN ret \notin {Void, ErrorType}
                 ELSE ~coerce_structural(Unbound, n.type, ret).ok
    IN  Inferred(NoReturn, ReportIf(wrong, ctx, "return type"))

\* A break with a value adds its type to its frame; one without looks for none.
InferBreak(n, ctx) ==
    LET i == IF n.label = "" THEN find_innermost_loop_frame(ctx) ELSE find_label_frame(ctx, n.label)
        accum == ctx.frames[i].accum
        u == IF accum = NoType THEN n.type ELSE peer_unify(accum, n.type)
    IN  Inferred(NoReturn,
          IF n.type = NoType THEN ctx
          ELSE IF i = 0 THEN Report(ctx, "no frame")
          ELSE IF u = NoType THEN Report(ctx, "break type")
          ELSE [ctx EXCEPT !.frames[i].accum = u])

\* Check mode.  An `if` and a switch hand the type on to their branches, the
\* type of everything else is compared with it; what was refused before is not
\* reported again.
Compared(actual, expected) ==
    ReportIf(expected # NoType /\ ~coerce_structural(Unbound, actual.type, expected).ok,
             actual.ctx, "body type")
check_expr(n, ctx, expected) ==
    LET silent == n.k = "absent" \/ expected = ErrorType
        hands == n.k \in {"if", "switch"} /\ ~silent
    IN  Compared(infer(n, ctx, IF hands THEN expected ELSE NoType),
                 IF hands \/ silent THEN NoType ELSE expected)

\* Both branches are checked, whatever the condition folds to.
CheckIf(n, ctx, expected) ==
    LET noValue == n.else = NoStmt /\ expected \notin {Void, NoReturn}
        then == check_expr(n.then, ReportIf(noValue, ctx, "if without else"), expected)
    IN  Inferred(expected, check_expr(n.else, then, expected))

InferIf(n, ctx) ==
    LET then == type_of_expr(n.then, ctx)
        else == type_of_expr(n.else, then.ctx)
        u == IF n.else = NoStmt THEN NoType ELSE peer_unify(then.type, else.type)
        clash == n.else # NoStmt /\ u = NoType /\ {then.type, else.type} \cap {NoType, Void} = {}
    IN  CASE n.cond = "true" -> then
          [] n.cond = "false" -> IF n.else = NoStmt THEN Inferred(Void, ctx) ELSE type_of_expr(n.else, ctx)
          [] OTHER -> IF clash THEN Inferred(ErrorType, Report(else.ctx, "branches"))
                      ELSE Inferred(IF u = NoType THEN Void ELSE u, else.ctx)

\* expected is NoType where the switch is typed by its arms, whose types are
\* joined; otherwise every arm is checked against it.
JoinArm(covered, body, u) ==
    IF covered.result = NoType \/ body.type \in {NoType, covered.result}
    THEN [covered EXCEPT !.ctx = body.ctx, !.result = IF @ = NoType THEN body.type ELSE @]
    ELSE IF u # NoType THEN [covered EXCEPT !.ctx = body.ctx, !.result = u]
    ELSE [covered EXCEPT !.ctx = Report(body.ctx, "branches")]
InferArm(covered, arm, expected) ==
    LET body == type_of_expr(arm.body, covered.ctx)
    IN  IF expected # NoType
        THEN [covered EXCEPT !.ctx = check_expr(arm.body, covered.ctx, expected)]
        ELSE JoinArm(covered, body, peer_unify(covered.result, body.type))

CoverArm(acc, arm, scrut) == FoldLeft(LAMBDA a, p : CoverPattern(a, p, scrut), acc, arm.pats)
SwitchEnd(acc, n, expected) ==
    Inferred(IF expected # NoType THEN expected ELSE IF n.arms = <<>> THEN Void ELSE acc.result,
             ReportIf(~Exhaustive(acc, n.scrut), acc.ctx, "non-exhaustive"))
infer_switch(n, ctx, expected) ==
    LET start == [ctx |-> ctx, wildcard |-> FALSE, covered |-> {}, ivals |-> <<>>, result |-> NoType]
        step(acc, arm) == InferArm(CoverArm(acc, arm, n.scrut), arm, expected)
    IN  SwitchEnd(FoldLeft(step, start, n.arms), n, expected)

\* The else branch is outside the loop's frame.
infer_loop_expr(n, ctx) ==
    LET body == type_of_expr(n.body, Push(ctx, LabelFrame(n.label, TRUE)))
        accum == Last(body.ctx.frames).accum
        else == type_of_expr(n.else, Pop(body.ctx))
        exit == IF n.else = NoStmt THEN Void ELSE else.type
        u == peer_unify(accum, exit)
    IN  IF ~n.header
        THEN Inferred(IF accum # NoType THEN accum
                      ELSE IF loop_has_reachable_break(n.body) THEN Void ELSE NoReturn, else.ctx)
        ELSE IF accum = NoType THEN Inferred(exit, else.ctx)
        ELSE IF u # NoType THEN Inferred(u, else.ctx)
        ELSE Inferred(ErrorType, Report(else.ctx, "loop value"))

\* A block has a value only through breaks to its label.
InferBlock(n, ctx) ==
    LET step(c, stmt) ==
          LET r == type_of_expr(stmt, c)
          IN  ReportIf(r.type \notin {NoType, Void, NoReturn} /\ ~kind_is_discard_construct(stmt),
                       r.ctx, "unused value")
        inside == FoldLeft(step, IF n.label = "" THEN ctx ELSE Push(ctx, LabelFrame(n.label, FALSE)), n.stmts)
        accum == IF n.label = "" THEN NoType ELSE Last(inside.frames).accum
        after == IF n.label = "" THEN inside ELSE Pop(inside)
    IN  IF accum \notin {NoType, Void} THEN Inferred(accum, after)
        ELSE Inferred(IF BlockTerminates(n, TRUE) THEN NoReturn ELSE Void, after)

infer(n, ctx, expected) ==
    CASE n.k = "absent" -> Inferred(NoType, ctx)
      [] n.k = "expr" -> Inferred(n.type, ctx)
      [] n.k = "return" -> InferReturn(n, ctx)
      [] n.k = "break" -> InferBreak(n, ctx)
      [] n.k = "continue" -> Inferred(NoReturn, ctx)
      [] n.k \in {"defer", "with"} -> Inferred(Void, type_of_expr(n.body, ctx).ctx)
      [] n.k = "if" -> IF expected = NoType THEN InferIf(n, ctx) ELSE CheckIf(n, ctx, expected)
      [] n.k = "switch" -> infer_switch(n, ctx, expected)
      [] n.k = "loop" -> infer_loop_expr(n, ctx)
      [] n.k = "block" -> InferBlock(n, ctx)

\* A block body must end in a terminator when the function returns a value;
\* another body is its value.  The body of a generic function is dropped; each
\* instance analyses it with the types of its arguments.
Skipped == [tag |-> "skipped"]
Analysed == inferred_type \notin {NoType, Skipped}

InferBody ==
    LET valued == fn.ret \notin {Void, NoReturn}
    IN  IF fn.body.k # "block" /\ valued
        THEN Inferred(fn.ret, check_expr(fn.body, Context(<<>>, {}), fn.ret))
        ELSE type_of_expr(fn.body, Context(<<>>, {}))
MissingReturn ==
    /\ fn.body.k = "block" /\ fn.ret \notin {Void, NoReturn, ErrorType}
    /\ ~block_always_terminates(fn.body, TRUE)
FinishBody(body, missing) ==
    /\ inferred_type' = body.type
    /\ reports' = body.ctx.diags \cup (IF missing THEN {"control reaches end"} ELSE {})
    /\ UNCHANGED fn

SkipGeneric ==
    inferred_type = NoType /\ fn.generic /\ inferred_type' = Skipped /\ UNCHANGED <<fn, reports>>
\* infer_body, or infer_instance for a generic function.
Analyse ==
    /\ inferred_type = (IF fn.generic THEN Skipped ELSE NoType)
    /\ FinishBody(InferBody, MissingReturn)
InferNext == SkipGeneric \/ Analyse

InferInit == fn \in Functions /\ inferred_type = NoType /\ reports = {}

-----------------------------------------------------------------------------
(* Properties.  Reference: the ways a statement can be left.               *)

ValuesOf(t) ==
    CASE is_concrete_int(t) -> {IntValue(t, Signed(n)) : n \in MinOf(t) .. MaxOf(t)}
      [] t = Bool -> {BoolValue(TRUE), BoolValue(FALSE)}
      [] t.tag = "enum" -> {EnumVariantValue("E", v) : v \in t.variants}
      [] OTHER -> {NoValue}
Takes(arm, v) == \E j \in DOMAIN arm.pats : arm.pats[j].tag = "_" \/ (v # NoValue /\ Matches(arm.pats[j], v))
Uncovered(n) == {v \in ValuesOf(n.scrut) : \A i \in DOMAIN n.arms : ~Takes(n.arms[i], v)}

Warnings == {"unused value"}

RECURSIVE Exits(_)
Exits(n) ==
    CASE n.k = "return" -> {"return"}
      [] n.k = "break" -> {IF n.label = "" THEN "break" ELSE n.label}
      [] n.k = "continue" -> {"continue"}
      [] n.k = "expr" -> IF n.type = NoReturn THEN {} ELSE {"end"}
      [] n.k = "with" -> Exits(n.body)
      [] n.k = "if" -> (IF n.cond = "false" THEN {} ELSE Exits(n.then)) \cup
                       (IF n.cond = "true" THEN {} ELSE Exits(n.else))
      [] n.k = "switch" -> UNION {Exits(n.arms[i].body) : i \in DOMAIN n.arms} \cup
                           (IF Uncovered(n) = {} THEN {} ELSE {"end"})
      [] n.k = "loop" ->
           LET own == {"break"} \cup (IF n.label = "" THEN {} ELSE {n.label})
           IN  (Exits(n.body) \ (own \cup {"end", "continue"}))
                 \cup (IF Exits(n.body) \cap own # {} THEN {"end"} ELSE {})
                 \cup (IF n.header THEN Exits(n.else) ELSE {})
      [] n.k = "block" ->
           LET upTo(i) == \A j \in 1 .. i - 1 : "end" \in Exits(n.stmts[j])
               all == UNION {Exits(n.stmts[i]) \ {"end"} : i \in {j \in DOMAIN n.stmts : upTo(j)}}
                        \cup (IF upTo(Len(n.stmts) + 1) THEN {"end"} ELSE {})
           IN  IF n.label \in all \ {""} THEN (all \ {n.label}) \cup {"end"} ELSE all
      [] OTHER -> {"end"}

\* The jumps the pass does not follow: labelled breaks; a break or continue
\* outside any loop; a break in the else branch of a loop, which leaves the loop
\* around it; and one out of a loop whose else branch does not end.
RECURSIVE Parts(_)
Parts(n) == {n} \cup
    CASE n.k \in {"defer", "with"} -> Parts(n.body)
      [] n.k = "if" -> Parts(n.then) \cup Parts(n.else)
      [] n.k = "loop" -> Parts(n.body) \cup Parts(n.else)
      [] n.k = "switch" -> UNION {Parts(n.arms[i].body) : i \in DOMAIN n.arms}
      [] n.k = "block" -> UNION {Parts(n.stmts[i]) : i \in DOMAIN n.stmts}
      [] OTHER -> {}
UntrackedJump(n) ==
    \/ Exits(n) \cap {"break", "continue"} # {}
    \/ \E p \in Parts(n) : \/ p.k = "break" /\ p.label # ""
                           \/ p.k = "loop" /\ "break" \in Exits(p.else)
                           \/ /\ p.k = "loop" /\ p.header /\ p.else # NoStmt
                              /\ "break" \in Exits(p.body)

\* "True iff every execution path ends in an explicit terminator; false
\* positives would silence the safety gate" (infer.c:399, 413): a function with
\* a result whose body is accepted cannot run off its end, unless it jumps
\* in one of the ways the pass does not follow.
TerminationSound ==
    /\ Analysed /\ reports \subseteq Warnings /\ fn.ret # Void /\ fn.body.k = "block"
    /\ ~UntrackedJump(fn.body)
    => Exits(fn.body) \subseteq {"return"}

\* The same with no exception: what the comment says.
EndIsUnreachable ==
    Analysed /\ reports \subseteq Warnings /\ fn.ret # Void /\ fn.body.k = "block" =>
        Exits(fn.body) \subseteq {"return"}

\* A switch that is accepted without `_` takes every value of its scrutinee, and
\* over integers no value twice; one that does is accepted.  Not told: an
\* unsigned word, and a range that ends before the smallest number.
WrapsAround(p) == p.tag = "..<" /\ Signed(p.hi) = INT_MIN
Patterns(n) == UNION {ToSet(n.arms[i].pats) : i \in DOMAIN n.arms}
AllPatterns(n) == FlattenSeq([i \in DOMAIN n.arms |-> n.arms[i].pats])
TakenTwice(n) ==
    \E i, j \in DOMAIN AllPatterns(n), v \in ValuesOf(n.scrut) :
        i < j /\ Matches(AllPatterns(n)[i], v) /\ Matches(AllPatterns(n)[j], v)
Sensible(n) == \A p \in Patterns(n) :
                  p.tag # "_" /\ (is_concrete_int(n.scrut) => Fits(p, n.scrut))
                  /\ \E v \in ValuesOf(n.scrut) : Matches(p, v)
SwitchCoverage ==
    /\ Analysed /\ fn.body.k = "switch"
    /\ \A p \in Patterns(fn.body) : p.tag # "_" /\ ~WrapsAround(p)
    => LET n == fn.body
       IN  IF reports \cap {"non-exhaustive", "overlap", "empty range", "pattern type"} = {}
           THEN Uncovered(n) = {} /\ (is_concrete_int(n.scrut) => ~TakenTwice(n))
           ELSE \/ Uncovered(n) # {} \/ TakenTwice(n) \/ ~Sensible(n)
                \/ is_concrete_int(n.scrut) /\ ~HasBounds(n.scrut)
=============================================================================
