----------------------------- MODULE ConstEval -----------------------------
(***************************************************************************)
(* Compile-time evaluation (eval.c): eval_expr and eval_name over the      *)
(* constants and functions of a namespace, with the three file-level       *)
(* variables it keeps: the stack of constants being evaluated, the frames  *)
(* of the functions being executed, the branch counter.                    *)
(*                                                                         *)
(* The C recursion is a machine with a list of tasks and a stack of        *)
(* results.  A program gives each constant and each function's body as an  *)
(* expression record; its goals are evaluated one after the other, as      *)
(* separate requests would.                                                *)
(***************************************************************************)
EXTENDS Coercion

CONSTANTS Programs,
          EVAL_CYCLE_DEPTH_MAX,  \* 64 in the code
          EVAL_BRANCH_QUOTA,     \* 1000
          FRAME_CAP              \* bindings of one frame; 32

VARIABLES program, goal,         \* goal: the number of the goal being evaluated
          todo, results,         \* tasks; values of finished subexpressions
          g_eval_cycle, g_eval_frames, g_eval_branch,
          diags,                 \* diagnostics of the current goal
          answers                \* the value of every finished goal

evalVars == <<program, goal, todo, results, g_eval_cycle, g_eval_frames, g_eval_branch,
              diags, answers>>

\* Expressions.
Lit(n)            == [op |-> "lit", n |-> n]
Name(x)           == [op |-> "name", name |-> x]
Bin(o, l, r)      == [op |-> "bin", o |-> o, l |-> l, r |-> r]
Pre(o, e)         == [op |-> "pre", o |-> o, e |-> e]
If(c, t, e)       == [op |-> "if", c |-> c, t |-> t, e |-> e]
Call(f, args)     == [op |-> "call", f |-> f, args |-> args]
Comptime(e)       == [op |-> "comptime", e |-> e]
Switch(e, arms)   == [op |-> "switch", e |-> e, arms |-> arms]
Arm(pats, body)   == [pats |-> pats, body |-> body]
SizeOf(t)         == [op |-> "sizeof", type |-> t]
EnumRef(v)        == [op |-> "enumref", variant |-> v]       \* Enum.v
Bare(v)           == [op |-> "bare", variant |-> v]          \* .v
Absent            == [op |-> "absent"]                       \* an operand the parser did not find
ArrayOf(e, t)     == [op |-> "array", n |-> e, elem |-> t]

\* Declarations: a constant or variable with its initialiser; a function with
\* its statements, which are bindings, returns and others.
Const(e)   == [kind |-> "const", value |-> e]
Variable(e) == [kind |-> "variable", value |-> e]
Function(params, stmts, effects) ==
    [kind |-> "function", params |-> params, stmts |-> stmts, effects |-> effects]
Annotated(x, const, type, e) == [s |-> "bind", name |-> x, const |-> const, ann |-> type, value |-> e]
Local(x, const, e) == Annotated(x, const, NoType, e)
Return(e)  == [s |-> "return", name |-> "", value |-> e]
OtherStmt  == [s |-> "other", name |-> "", value |-> Absent]

\* A goal is an expression and the function whose body it stands in, or "",
\* after `at` of its statements, which are the ones inference has typed.
Goal(e, fn, at) == [e |-> e, fn |-> fn, at |-> at]

Decl(x)  == program.decls[x]
Known(x) == x \in DOMAIN program.decls
Result   == Last(results)
ReturnType == IntType(TRUE, WORD)

\* Tasks.  ct: in_comptime; fn: the function whose body the node is in; hint:
\* enum_ctx_hint names the enum, as for the bare side of a comparison alone.
Task(t) == [t |-> t]
Eval(e, ct, fn) == [t |-> "eval", e |-> e, ct |-> ct, fn |-> fn, hint |-> FALSE]

Deliver(n, tv) == results' = Append(SubSeq(results, 1, Len(results) - n), tv)
Continue(tasks) == todo' = tasks \o Tail(todo)
Emit(d) == diags' = diags \cup {d}
NoGlobals == UNCHANGED <<g_eval_cycle, g_eval_frames, g_eval_branch>>

eval_frame_lookup(x) == g_eval_frames # <<>> /\ x \in DOMAIN Last(g_eval_frames)
Bind(frame, x, tv)   == [y \in DOMAIN frame \cup {x} |-> IF y = x THEN tv ELSE frame[y]]
ctfe_is_scalar_value(v) == v.tag \in {"bool", "int"}

-----------------------------------------------------------------------------
(* eval_expr: one step per node.                                           *)

Now == Head(todo)
Evaluating(op) == todo # <<>> /\ Now.t = "eval" /\ Now.e.op = op
Sub(e) == Eval(e, Now.ct, Now.fn)
Rest == UNCHANGED <<program, goal, answers>>

EvalLiteral ==
    /\ Evaluating("lit")
    /\ Deliver(0, Literal(Now.e.n)) /\ Continue(<<>>)
    /\ NoGlobals /\ Rest /\ UNCHANGED diags

\* eval_expr without a case for the node, or a node with a part missing.
EvalAbsent ==
    /\ Evaluating("absent")
    /\ Deliver(0, TvNone) /\ Continue(<<>>)
    /\ NoGlobals /\ Rest /\ UNCHANGED diags

DeliverVariant(v) ==
    IF v \in program.variants
    THEN Deliver(0, Typed([tag |-> "enum"], EnumVariantValue("E", v))) /\ UNCHANGED diags
    ELSE Deliver(0, TvError) /\ Emit("no variant")

EvalEnumRef ==
    /\ Evaluating("enumref")
    /\ DeliverVariant(Now.e.variant)
    /\ Continue(<<>>) /\ NoGlobals /\ Rest

\* `.v` is of the enum the context names, and an error without one.
EvalBareVariant ==
    /\ Evaluating("bare")
    /\ IF Now.hint THEN DeliverVariant(Now.e.variant)
       ELSE Deliver(0, TvError) /\ Emit("bare variant")
    /\ Continue(<<>>) /\ NoGlobals /\ Rest

\* @sizeOf(t): comptime_int, with the value interned as a usize.
EvalSizeOf ==
    /\ Evaluating("sizeof")
    /\ LET layout == db_layout_of_type(Now.e.type)
       IN  Deliver(0, Typed(ComptimeInt, IF layout.known THEN IntValue(USize, layout.size) ELSE NoValue))
    /\ Continue(<<>>) /\ NoGlobals /\ Rest /\ UNCHANGED diags

\* x == .v or .v == x: x is evaluated first, to learn the enum of .v.
ComparesBare(e) == e.o \in {"==", "!="} /\ (e.l.op = "bare") # (e.r.op = "bare")
BinaryTasks(e) ==
    IF ComparesBare(e)
    THEN LET flip == e.l.op = "bare"
         IN  <<Sub(IF flip THEN e.r ELSE e.l),
               [t |-> "retry", o |-> e.o, bare |-> Sub(IF flip THEN e.l ELSE e.r)]>>
    ELSE <<Sub(e.l), Sub(e.r), [t |-> "bin", o |-> e.o]>>

EvalOperator ==
    /\ todo # <<>> /\ Now.t = "eval" /\ Now.e.op \in {"bin", "pre", "if", "switch", "comptime", "array"}
    /\ Continue(LET e == Now.e
                IN  CASE e.op = "bin" -> BinaryTasks(e)
                      [] e.op = "pre" -> <<Sub(e.e), [t |-> "pre", o |-> e.o]>>
                      [] e.op = "if" -> <<Sub(e.c), [t |-> "if", then |-> Sub(e.t), else |-> Sub(e.e)]>>
                      [] e.op = "switch" -> <<Sub(e.e), [t |-> "switch", arms |-> e.arms, like |-> Now]>>
                      [] e.op = "comptime" -> <<Eval(e.e, TRUE, Now.fn), Task("comptime")>>
                      [] e.op = "array" -> <<Sub(e.n), [t |-> "array", elem |-> e.elem]>>)
    /\ NoGlobals /\ Rest /\ UNCHANGED <<results, diags>>

Doing(t) == todo # <<>> /\ Now.t = t

ApplyBinary ==
    LET r == Result
        l == results[Len(results) - 1]
        tv == IF ErrorType \in {l.type, r.type} THEN TvError
              ELSE IF NoType \in {l.type, r.type} THEN TvNone
              ELSE IF Now.o \in ArithOps THEN binop_arith(Now.o, l, r)
              ELSE IF Now.o \in BitOps THEN binop_bitop(Now.o, l, r)
              ELSE IF Now.o \in {"&&", "||"} THEN binop_logical(Now.o, l, r)
              ELSE IF Now.o = "orelse" THEN binop_orelse(l)
              ELSE binop_compare(Now.o, l, r)
    IN  /\ Doing("bin") /\ Deliver(2, tv) /\ Continue(<<>>)
        /\ diags' = IF tv = TvError /\ ErrorType \notin {l.type, r.type} THEN diags \cup {"operands"} ELSE diags
        /\ NoGlobals /\ Rest

RetryVariant ==
    /\ Doing("retry")
    /\ IF Result.type = ErrorType THEN Deliver(1, TvError) /\ Continue(<<>>)
       ELSE /\ Continue(<<[Now.bare EXCEPT !.hint = Result.type.tag = "enum"],
                          [t |-> "compare", o |-> Now.o]>>)
            /\ UNCHANGED results
    /\ NoGlobals /\ Rest /\ UNCHANGED diags

\* The comparison itself, for == and != the same either way round; an operand
\* that is an error is reported once more.
CompareVariant ==
    LET tv == binop_compare(Now.o, results[Len(results) - 1], Result)
    IN  /\ Doing("compare") /\ Deliver(2, tv) /\ Continue(<<>>)
        /\ diags' = IF tv = TvError THEN diags \cup {"operands"} ELSE diags
        /\ NoGlobals /\ Rest

ApplyPrefix ==
    LET x == Result
        fits == CASE Now.o = "-" -> is_numeric(x.type) [] Now.o = "~" -> is_integer(x.type)
                  [] Now.o = "!" -> x.type = Bool
        v == CASE Now.o = "-" -> tv_prefix_neg(x.value) [] Now.o = "~" -> tv_prefix_comp(x.value)
               [] Now.o = "!" -> tv_prefix_not(x.value)
    IN  /\ Doing("pre") /\ Continue(<<>>)
        /\ Deliver(1, IF x.type \in {ErrorType, NoType} THEN x
                      ELSE IF fits THEN Typed(x.type, v) ELSE TvError)
        /\ diags' = IF x.type \in {ErrorType, NoType} \/ fits THEN diags ELSE diags \cup {"operands"}
        /\ NoGlobals /\ Rest

\* A known condition takes its branch alone; otherwise both are typed.
ApplyIf ==
    LET c == Result
    IN  /\ Doing("if")
        /\ results' = Front(results)
        /\ Continue(IF c.value.tag = "bool" THEN <<IF c.value.val THEN Now.then ELSE Now.else>>
                    ELSE <<Now.then, Now.else, Task("join")>>)
        /\ diags' = IF c.type \in {Bool, ErrorType, NoType} THEN diags ELSE diags \cup {"condition"}
        /\ NoGlobals /\ Rest

JoinBranches ==
    LET a == results[Len(results) - 1].type
        b == Result.type
        u == peer_unify(a, b)
        clash == u = NoType /\ {a, b} \cap {NoType, Void} = {}
    IN  /\ Doing("join") /\ Continue(<<>>)
        /\ Deliver(2, IF clash THEN TvError ELSE Typed(IF u = NoType THEN Void ELSE u, NoValue))
        /\ diags' = IF clash THEN diags \cup {"branches"} ELSE diags
        /\ NoGlobals /\ Rest

\* The first arm with a matching pattern; a pattern is a number, a range
\* <<lo, hi>>, a variant or the wildcard.
Pattern(tag, lo, hi) == [tag |-> tag, lo |-> lo, hi |-> hi]
Matches(p, v) ==
    CASE p.tag = "_" -> TRUE
      [] p.tag = "lit" -> tv_value_semantic_eq(Literal(p.lo).value, v)
      [] p.tag \in {"..<", "..="} ->
           tv_value_in_range(v, Literal(p.lo).value, Literal(p.hi).value, p.tag = "..=")
      [] p.tag = "variant" -> v = EnumVariantValue("E", p.lo)
      [] p.tag = "bool" -> v = BoolValue(p.lo = 1)
ApplySwitch ==
    LET v == Result.value
        winner == SelectInSeq(Now.arms, LAMBDA arm : \E j \in DOMAIN arm.pats : Matches(arm.pats[j], v))
        known == v.tag \notin {"none", "error"}
    IN  /\ Doing("switch")
        /\ IF known /\ winner # 0
           THEN results' = Front(results)
                /\ Continue(<<Eval(Now.arms[winner].body, Now.like.ct, Now.like.fn)>>)
           ELSE Deliver(1, Typed(Void, NoValue)) /\ Continue(<<>>)    \* infer_switch types it
        /\ NoGlobals /\ Rest /\ UNCHANGED diags

ApplyComptime ==
    LET x == Result
        unfoldable == x.value.tag \in {"none", "fn"} /\ x.type \notin {ErrorType, NoType}
    IN  /\ Doing("comptime") /\ Continue(<<>>)
        /\ Deliver(1, IF unfoldable THEN TvError ELSE x)
        /\ diags' = IF unfoldable THEN diags \cup {"not foldable"} ELSE diags
        /\ NoGlobals /\ Rest

ApplyArray ==
    LET x == Result
        ok == x.value.tag = "int" /\ x.value.word >= 0
    IN  /\ Doing("array") /\ Continue(<<>>)
        /\ Deliver(1, IF ok THEN Typed(TypeType, [tag |-> "type", type |-> Array(x.value.word, Now.elem)])
                      ELSE TvError)
        /\ diags' = IF ok THEN diags ELSE diags \cup {"array size"}
        /\ NoGlobals /\ Rest

-----------------------------------------------------------------------------
(* eval_name.                                                              *)

\* An initialiser is evaluated under a frame of the cycle stack; leave says
\* what becomes of its value.
Initialiser(key, e, fn, leave) ==
    IF key \in ToSet(g_eval_cycle)
    THEN Deliver(0, TvError) /\ Continue(<<>>) /\ Emit("circular") /\ NoGlobals
    ELSE IF Len(g_eval_cycle) >= EVAL_CYCLE_DEPTH_MAX
    THEN Deliver(0, TvError) /\ Continue(<<>>) /\ Emit("too deep") /\ NoGlobals
    ELSE /\ g_eval_cycle' = Append(g_eval_cycle, key)
         /\ Continue(<<Eval(e, Now.ct, fn), leave>>)
         /\ UNCHANGED <<results, diags, g_eval_frames, g_eval_branch>>

Leave(x, keep, type) == [t |-> "leave", local |-> x, keep |-> keep, ann |-> type]

\* Inference has the types of the statements before the goal; the execution of
\* a function has none (cc.types is NULL).
Typing == g_eval_frames = <<>>
LocalOf(fn, x) == SelectLastInSeq(Decl(fn).stmts, LAMBDA stmt : stmt.s = "bind" /\ stmt.name = x)
DeclaredLater(fn, x) == Typing /\ LocalOf(fn, x) > program.goals[goal].at

EvalLocal(fn, x) ==
    IF DeclaredLater(fn, x)
    THEN Deliver(0, TvError) /\ Continue(<<>>) /\ Emit("used before") /\ NoGlobals
    ELSE LET local == Decl(fn).stmts[LocalOf(fn, x)]
         IN  Initialiser(<<fn, x>>, local.value, fn,
                         Leave(x, local.const, IF Typing THEN local.ann ELSE NoType))

EvalName ==
    LET x == Now.e.name
        inBody == Now.fn # "" /\ LocalOf(Now.fn, x) # 0
        inParams == Now.fn # "" /\ x \in ToSet(Decl(Now.fn).params)
    IN  /\ Evaluating("name") /\ Rest
        /\ IF eval_frame_lookup(x)
           THEN /\ Deliver(0, Last(g_eval_frames)[x])
                /\ Continue(<<>>) /\ NoGlobals /\ UNCHANGED diags
           ELSE IF inBody THEN EvalLocal(Now.fn, x)
           ELSE IF ~inParams /\ ~Known(x)
           THEN Deliver(0, TvError) /\ Continue(<<>>) /\ Emit("unknown name") /\ NoGlobals
           ELSE IF ~inParams /\ Decl(x).kind = "const"
           THEN Initialiser(<<"", x>>, Decl(x).value, "", Leave("", TRUE, NoType))
           ELSE /\ Deliver(0, IF ~inParams /\ Decl(x).kind = "function" THEN Typed([tag |-> "fn"], FnValue(x))
                              ELSE Typed(ReturnType, NoValue))
                /\ Continue(<<>>) /\ NoGlobals /\ UNCHANGED diags

\* A local has the type of its annotation, and no value if it is `:=`.
AsBound(leave, tv) ==
    [type |-> IF leave.ann # NoType /\ tv.type # ErrorType THEN leave.ann ELSE tv.type,
     value |-> IF leave.keep THEN tv.value ELSE NoValue]

\* A local whose initialiser gave nothing has the pair inference stored, an
\* error; where nothing is stored the name is looked up outside the body.
LeaveWith(cycle) ==
    LET tv == AsBound(Now, Result)
        nothing == Now.local # "" /\ tv = TvNone
    IN  /\ Doing("leave") /\ Rest
        /\ g_eval_cycle' = cycle
        /\ IF nothing /\ ~Typing
           THEN results' = Front(results) /\ Continue(<<Eval(Name(Now.local), TRUE, "")>>)
           ELSE Deliver(1, IF nothing THEN Typed(ErrorType, NoValue) ELSE tv) /\ Continue(<<>>)
        /\ UNCHANGED <<diags, g_eval_frames, g_eval_branch>>

\* Variant: the path that drops the value leaves its frame on the cycle stack.
LeaveInitialiserOnValue == LeaveWith(IF Now.keep THEN Front(g_eval_cycle) ELSE g_eval_cycle)
LeaveInitialiser == LeaveWith(Front(g_eval_cycle))

-----------------------------------------------------------------------------
(* eval_call: the call is typed, which evaluates the arguments once, then  *)
(* the callee and the arguments are evaluated and its body executed.       *)

EvalCall ==
    LET args == [i \in DOMAIN Now.e.args |-> Sub(Now.e.args[i])]
    IN  /\ Evaluating("call")
        /\ Continue(<<Sub(Name(Now.e.f))>> \o args
                      \o <<[t |-> "typed", n |-> Len(args) + 1, args |-> args, call |-> Now]>>)
        /\ NoGlobals /\ Rest /\ UNCHANGED <<results, diags>>

\* What infer_value_position leaves: the type of the call, or an error.
CallTyped ==
    LET callee == results[Len(results) - Now.n + 1].value
        f == callee.def
        typed == IF callee.tag = "error" THEN TvError ELSE Typed(ReturnType, NoValue)
        runs == callee.tag = "fn" /\ ~Decl(f).effects
    IN  /\ Doing("typed")
        /\ IF runs THEN /\ results' = SubSeq(results, 1, Len(results) - Now.n)
                        /\ Continue(Now.args \o <<[t |-> "apply", f |-> f, n |-> Len(Now.args)]>>)
           ELSE /\ Continue(<<>>)
                /\ Deliver(Now.n, IF callee.tag = "fn" /\ Now.call.ct THEN TvError ELSE typed)
        /\ diags' = IF callee.tag = "fn" /\ ~runs /\ Now.call.ct THEN diags \cup {"effectful"}
                    ELSE IF callee.tag = "none" THEN diags \cup {"not callable"} ELSE diags
        /\ NoGlobals /\ Rest

EnterFunction ==
    LET args == SubSeq(results, Len(results) - Now.n + 1, Len(results))
        f == Now.f
        params == Decl(f).params
        folds == /\ \A i \in DOMAIN args : ctfe_is_scalar_value(args[i].value)
                 /\ Len(args) = Len(params) /\ Len(args) <= FRAME_CAP
        spent == (IF g_eval_frames = <<>> THEN 0 ELSE g_eval_branch) + 1
        refused == IF spent > EVAL_BRANCH_QUOTA THEN "quota"
                   ELSE IF Len(g_eval_cycle) >= EVAL_CYCLE_DEPTH_MAX THEN "too deep" ELSE ""
        bound == [x \in ToSet(params) |-> args[SelectLastInSeq(params, LAMBDA p : p = x)]]
    IN  /\ Doing("apply") /\ Rest
        /\ IF ~folds
           THEN /\ Deliver(Now.n, Typed(ReturnType, NoValue)) /\ Continue(<<>>)
                /\ NoGlobals /\ UNCHANGED diags
           ELSE IF refused # ""
           THEN /\ Deliver(Now.n, TvError) /\ Continue(<<>>) /\ Emit(refused)
                /\ g_eval_branch' = spent
                /\ UNCHANGED <<g_eval_cycle, g_eval_frames>>
           ELSE /\ g_eval_branch' = spent
                /\ g_eval_cycle' = Append(g_eval_cycle, <<"fn", f>>)
                /\ g_eval_frames' = Append(g_eval_frames, bound)
                /\ results' = SubSeq(results, 1, Len(results) - Now.n)
                /\ Continue(<<[t |-> "stmt", f |-> f, i |-> 1], Task("exit")>>)
                /\ UNCHANGED diags

\* eval_stmt_list: bindings are bound in order, a return ends the list, any
\* other statement makes the body one that does not fold.
RunStmt ==
    LET stmts == Decl(Now.f).stmts
        stmt == stmts[Now.i]
    IN  /\ Doing("stmt")
        /\ IF Now.i > Len(stmts) \/ stmt.s = "other"
           THEN Deliver(0, TvNone) /\ Continue(<<>>)
           ELSE /\ Continue(<<Eval(stmt.value, TRUE, Now.f)>> \o
                            (IF stmt.s = "return" THEN <<>> ELSE <<[t |-> "bind", f |-> Now.f, i |-> Now.i]>>))
                /\ UNCHANGED results
        /\ NoGlobals /\ Rest /\ UNCHANGED diags

\* Variant: after a binding the list goes on with the same statement.
BindLocalAgain ==
    LET frame == Last(g_eval_frames)
        x == Decl(Now.f).stmts[Now.i].name
        ok == /\ ctfe_is_scalar_value(Result.value)
              /\ x \in DOMAIN frame \/ Cardinality(DOMAIN frame) < FRAME_CAP
    IN  /\ Doing("bind") /\ Rest
        /\ IF ok THEN /\ g_eval_frames' = Append(Front(g_eval_frames), Bind(frame, x, Result))
                      /\ results' = Front(results)
                      /\ Continue(<<[t |-> "stmt", f |-> Now.f, i |-> Now.i]>>)
           ELSE Deliver(1, TvNone) /\ Continue(<<>>) /\ UNCHANGED g_eval_frames
        /\ UNCHANGED <<diags, g_eval_cycle, g_eval_branch>>

BindLocal ==
    LET frame == Last(g_eval_frames)
        x == Decl(Now.f).stmts[Now.i].name
        ok == /\ ctfe_is_scalar_value(Result.value)
              /\ x \in DOMAIN frame \/ Cardinality(DOMAIN frame) < FRAME_CAP
    IN  /\ Doing("bind") /\ Rest
        /\ IF ok THEN /\ g_eval_frames' = Append(Front(g_eval_frames), Bind(frame, x, Result))
                      /\ results' = Front(results)
                      /\ Continue(<<[t |-> "stmt", f |-> Now.f, i |-> Now.i + 1]>>)
           ELSE Deliver(1, TvNone) /\ Continue(<<>>) /\ UNCHANGED g_eval_frames
        /\ UNCHANGED <<diags, g_eval_cycle, g_eval_branch>>

LeaveFunction ==
    /\ Doing("exit") /\ Continue(<<>>) /\ Rest
    /\ g_eval_frames' = Front(g_eval_frames)
    /\ g_eval_cycle' = Front(g_eval_cycle)
    /\ Deliver(1, IF ctfe_is_scalar_value(Result.value) THEN Typed(ReturnType, Result.value)
                  ELSE IF Result.value.tag = "error" THEN Result ELSE Typed(ReturnType, NoValue))
    /\ UNCHANGED <<diags, g_eval_branch>>

-----------------------------------------------------------------------------

EvalInit ==
    /\ program \in Programs
    /\ goal = 1
    /\ todo = <<Eval(program.goals[1].e, FALSE, program.goals[1].fn)>>
    /\ results = <<>> /\ g_eval_cycle = <<>> /\ g_eval_frames = <<>> /\ g_eval_branch = 0
    /\ diags = {} /\ answers = <<>>

\* The next request of the same session.
NextGoal ==
    /\ todo = <<>> /\ goal <= Len(program.goals)
    /\ answers' = Append(answers, [tv |-> Result, diags |-> diags])
    /\ goal' = goal + 1
    /\ todo' = IF goal < Len(program.goals)
             THEN LET next == program.goals[goal + 1] IN <<Eval(next.e, FALSE, next.fn)>>
             ELSE <<>>
    /\ results' = <<>> /\ diags' = {}
    /\ UNCHANGED <<program, g_eval_cycle, g_eval_frames, g_eval_branch>>

EvalNext ==
    \/ EvalLiteral \/ EvalAbsent \/ EvalEnumRef \/ EvalBareVariant \/ RetryVariant \/ CompareVariant \/ EvalSizeOf \/ EvalOperator \/ EvalName \/ EvalCall
    \/ ApplyBinary \/ ApplyPrefix \/ ApplyIf \/ JoinBranches \/ ApplySwitch \/ ApplyComptime
    \/ ApplyArray \/ LeaveInitialiser \/ CallTyped \/ EnterFunction \/ RunStmt \/ BindLocal
    \/ LeaveFunction \/ NextGoal

EvalDone == todo = <<>> /\ goal > Len(program.goals)

-----------------------------------------------------------------------------
(* What an expression means: lexical scope, integers without bounds.       *)

Number(n) == [k |-> "int", n |-> n]
Truth(b)  == [k |-> "bool", n |-> IF b THEN 1 ELSE 0]
Bottom    == [k |-> "bottom", n |-> 0]     \* no end, or no value at compile time

\* A scope maps each name to its expression and that expression's scope.
Extend(scope, stmt) ==
    [y \in DOMAIN scope \cup {stmt.name} |->
       IF y = stmt.name THEN [e |-> stmt.value, env |-> scope] ELSE scope[y]]
LastStmt(f) == SelectInSeq(f.stmts, LAMBDA stmt : stmt.s # "bind")
LocalsFrom(f, i) == {f.stmts[j].name : j \in {k \in i .. Len(f.stmts) : f.stmts[k].s = "bind"}}

\* The scope after n statements: a local has no meaning before its declaration.
Nothing == [e |-> Absent, env |-> <<>>]
ScopeWithin(f, args, n) ==
    FoldLeft(Extend, [x \in DOMAIN args \cup LocalsFrom(f, 1) |-> IF x \in DOMAIN args THEN args[x] ELSE Nothing],
             SubSeq(f.stmts, 1, n))

RECURSIVE Meaning(_, _, _)
MeaningOf(x, env, fuel) ==
    IF x \in DOMAIN env THEN Meaning(env[x].e, env[x].env, fuel)
    ELSE IF Known(x) /\ Decl(x).kind = "const" THEN Meaning(Decl(x).value, <<>>, fuel)
    ELSE Bottom
Meaning(e, env, fuel) ==
    IF fuel = 0 THEN Bottom
    ELSE LET M(x) == Meaning(x, env, fuel - 1)
         IN CASE e.op = "lit" -> Number(e.n)
              [] e.op = "sizeof" -> Number(db_layout_of_type(e.type).size)
              [] e.op \in {"enumref", "bare"} -> IF e.variant \in program.variants THEN Number(e.variant) ELSE Bottom
              [] e.op = "name" -> MeaningOf(e.name, env, fuel - 1)
              [] e.op = "comptime" -> M(e.e)
              [] e.op = "pre" ->
                   LET x == M(e.e)
                   IN  IF x = Bottom THEN Bottom ELSE IF e.o = "-" THEN Number(-x.n)
                       ELSE IF e.o = "~" THEN Number(-x.n - 1) ELSE Truth(x.n = 0)
              [] e.op = "bin" ->
                   LET l == M(e.l)
                       r == M(e.r)
                   IN  IF Bottom \in {l, r} \/ (e.o \in {"/", "%"} /\ r.n = 0) THEN Bottom
                       ELSE IF e.o \in ArithOps THEN Number(Exactly(e.o, l.n, r.n))
                       ELSE IF e.o \in Orders THEN Truth(Ordered(e.o, l.n, r.n))
                       ELSE IF e.o = "&&" THEN Truth(l.n * r.n = 1)
                       ELSE IF e.o = "||" THEN Truth(l.n + r.n > 0)
                       ELSE Truth((l.n = r.n) = (e.o = "=="))
              [] e.op = "if" ->
                   LET c == M(e.c) IN IF c = Bottom THEN Bottom ELSE M(IF c.n = 1 THEN e.t ELSE e.e)
              [] e.op = "switch" ->
                   LET v == M(e.e)
                       hit(p) == \/ p.tag = "_"
                                 \/ p.tag \in {"lit", "variant"} /\ p.lo = v.n
                                 \/ p.tag = "..<" /\ v.n \in p.lo .. p.hi - 1
                                 \/ p.tag = "..=" /\ v.n \in p.lo .. p.hi
                       i == SelectInSeq(e.arms, LAMBDA a : \E j \in DOMAIN a.pats : hit(a.pats[j]))
                   IN  IF v = Bottom \/ i = 0 THEN Bottom ELSE M(e.arms[i].body)
              [] e.op = "call" ->
                   IF ~Known(e.f) \/ Decl(e.f).effects \/ Len(Decl(e.f).params) # Len(e.args) THEN Bottom
                   ELSE LET f == Decl(e.f)
                            args == [x \in ToSet(f.params) |->
                                       [e |-> e.args[SelectInSeq(f.params, LAMBDA p : p = x)], env |-> env]]
                        IN  IF /\ \A i \in DOMAIN e.args : M(e.args[i]) # Bottom
                               /\ LastStmt(f) # 0 /\ f.stmts[LastStmt(f)].s = "return"
                            THEN Meaning(f.stmts[LastStmt(f)].value, ScopeWithin(f, args, LastStmt(f) - 1), fuel - 1)
                            ELSE Bottom
              [] OTHER -> Bottom

\* A parameter outside a call has no value.
GoalMeaning(g) ==
    IF g.fn = "" THEN Meaning(g.e, <<>>, 14)
    ELSE Meaning(g.e, ScopeWithin(Decl(g.fn), [x \in ToSet(Decl(g.fn).params) |-> Nothing], g.at), 14)

-----------------------------------------------------------------------------
(* Properties.                                                             *)

Read(v) == IF v.tag = "bool" THEN Truth(v.val)
           ELSE Number(IF is_unsigned_int(v.type) /\ v.word < 0 THEN Unsigned(v.word) ELSE v.word)

\* A goal that folds to a number or a truth value folds to what the expression
\* means with lexical scope and exact arithmetic: "a comptime fn sees ITS own
\* params/locals, never the caller's (function scoping" (eval.c:206-208).  The
\* code breaks it for a constant that is evaluated while a function runs: its
\* initialiser reads the function's frame (eval.c:279, 521).
FoldsToItsMeaning ==
    \A i \in DOMAIN answers :
        ctfe_is_scalar_value(answers[i].tv.value) =>
            Read(answers[i].tv.value) = GoalMeaning(program.goals[i])

\* An evaluation is refused as circular, for a name that is not known or that is
\* declared later, only if it has no value: what an earlier request left on the
\* cycle stack or in the frames never makes a later one fail (eval_name).
RefusalsAreEarned ==
    \A i \in DOMAIN answers :
        answers[i].diags \cap {"circular", "unknown name", "used before"} # {} =>
            GoalMeaning(program.goals[i]) = Bottom

\* The two kinds of program for which the code departs from lexical scope.  A
\* constant whose initialiser mentions a name that is also a parameter or local
\* may be evaluated in that function's frame; and a body that uses a local
\* before its declaration, which inference reports, is executed all the same,
\* with the later initialiser.
RECURSIVE Mentions(_)
Mentions(e) ==
    CASE e.op = "name" -> {e.name}
      [] e.op = "call" -> {e.f} \cup UNION {Mentions(e.args[i]) : i \in DOMAIN e.args}
      [] e.op = "bin" -> Mentions(e.l) \cup Mentions(e.r)
      [] e.op \in {"pre", "comptime"} -> Mentions(e.e)
      [] e.op = "if" -> Mentions(e.c) \cup Mentions(e.t) \cup Mentions(e.e)
      [] e.op = "switch" -> Mentions(e.e) \cup UNION {Mentions(e.arms[i].body) : i \in DOMAIN e.arms}
      [] e.op = "array" -> Mentions(e.n)
      [] OTHER -> {}
DeclsOf(kind) == {Decl(x) : x \in {y \in DOMAIN program.decls : Decl(y).kind = kind}}
ConstantsKeptApart ==
    \A k \in DeclsOf("const"), f \in DeclsOf("function") :
        Mentions(k.value) \cap (ToSet(f.params) \cup LocalsFrom(f, 1)) = {}
DeclaredBeforeUse ==
    \A f \in DeclsOf("function") : \A i \in DOMAIN f.stmts :
        Mentions(f.stmts[i].value) \cap LocalsFrom(f, i) = {}

\* Where constants and locals have names of their own and locals are declared
\* before they are used, what compile-time evaluation answers is what the program
\* means, and what it refuses has no meaning (eval_expr, eval_name, eval_call).
FoldsAsMeant ==
    answers # <<>> /\ ConstantsKeptApart /\ DeclaredBeforeUse => FoldsToItsMeaning /\ RefusalsAreEarned

\* Every evaluation ends, circular constants and endless recursion included.
EvalEnds == <>EvalDone
=============================================================================
