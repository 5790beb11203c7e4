------------------------------ MODULE MCMiddle ------------------------------
(***************************************************************************)
(* The middle of the compiler for TLC: effect rows, constant values and    *)
(* coercion, compile-time evaluation, scopes, inference of control flow,   *)
(* and the tables under them.  A behaviour runs one of the parts; the      *)
(* others stand where they have nothing to do.                             *)
(***************************************************************************)
EXTENDS Inference, EffectRows, Scopes, HashMap, StringPool, Arena, InternPool, TLC

CONSTANTS PartsRun     \* the parts a run starts

VARIABLE part

middleVars == <<part, rowVars, flowVars, evalVars, scopeVars, inferVars, mapVars, stringVars,
                arenaVars, internVars>>

-----------------------------------------------------------------------------
(* Effect rows: two effects; the row of a function value and the one it is *)
(* used at, both over the `..e` of the enclosing function.                 *)

MCCallees == {<<1>>, <<1, 2>>}
MCSharedRows == {<<Row(<<1>>, 0), Row(<<>>, 1)>>, <<Row(<<>>, 1), Row(<<2>>, 0)>>,
                 <<EmptyRow, Row(<<2>>, 0)>>, <<Row(<<1>>, 1), Row(<<>>, 1)>>}

(* Values and the types they are moved to: half-word and whole-word        *)
(* integers, pointers, slices, optionals, functions.                       *)

U2 == IntType(FALSE, 2)
I2 == IntType(TRUE, 2)
I4 == IntType(TRUE, 4)
U4 == IntType(FALSE, 4)
Pair(const) == Ptr(const, Array(2, U2))
MCSources ==
    {Literal(n) : n \in {1, 4, 7}}
      \cup {Typed(U2, IntValue(U2, 3)), Typed(ComptimeInt, IntValue(USize, 6))}
      \cup {Typed(StringSlice, StrValue(1)), Typed(StringSlice, StrValue(3))}
      \cup {Typed(t, NoValue) :
              t \in {U2, I2, Nil, NoReturn, ComptimeInt, ComptimeFloat, Float, Bool,
                     Pair(FALSE), Pair(TRUE), Slice(TRUE, U2), Ptr(FALSE, U2), Optional(U2),
                     Fn(<<U4>>, U2, {}), Fn(<<U2>>, U2, {1}), Fn(<<Ptr(TRUE, U2)>>, Void, {})}}
MCAnnotations ==
    {U2, I2, U4, I4, Float, ComptimeFloat, Pair(FALSE), Pair(TRUE),
     Slice(FALSE, U2), Slice(TRUE, U2), Array(2, U2), Many(FALSE, U2), Many(TRUE, U2), Ptr(TRUE, U2),
     Optional(U2), Optional(I4), Optional(Optional(I4)), Optional(Slice(TRUE, U2)),
     Fn(<<U4>>, U2, {1}), Fn(<<U2>>, U4, {1}), Optional(Fn(<<U2>>, I4, {1})),
     Fn(<<Ptr(FALSE, U2)>>, Void, {})}
A == TypeVar(1)
B == TypeVar(2)
MCSignatures ==      \* (t: type, x: t) -> t and the like; anytype; a comptime number
    {FnBits(<<A, A>>, A, {}, {1}, {1}), FnBits(<<A, Optional(A), A>>, Optional(A), {}, {1}, {1}),
     FnBits(<<A, Fn(<<A>>, A, {1}), A>>, A, {}, {1}, {1}), FnBits(<<A, A>>, A, {}, {1}, {}),
     FnBits(<<A, B, Ptr(FALSE, A)>>, B, {}, {1, 2}, {2}), FnBits(<<U2, U4>>, U4, {}, {1}, {})}
MCArgTypes == {U2, Optional(U2), ComptimeInt}
MCAggregates == <<[union |-> FALSE, fields |-> <<U2, U4, Ptr(TRUE, Aggregate(1))>>],
                  [union |-> TRUE, fields |-> <<Aggregate(1), Optional(U2)>>],
                  [union |-> FALSE, fields |-> <<U2, Aggregate(3)>>],
                  [union |-> FALSE, fields |-> <<Aggregate(2), EnumType({1, 2})>>]>>

-----------------------------------------------------------------------------
(* Programs for the evaluator.                                             *)

Program(decls, goals) == [decls |-> decls, variants |-> {1, 2}, goals |-> goals]
G(e) == Goal(e, "", 0)
X == Name("x")
MCPrograms == {
  \* a circular pair, then an unrelated constant
  Program([a |-> Const(Bin("+", Name("b"), Lit(1))), b |-> Const(Name("a")), c |-> Const(Lit(2))],
    <<G(Name("a")), G(Bin("*", Name("c"), Name("c")))>>),
  \* two functions with a parameter and a local of the same names
  Program([f |-> Function(<<"x">>, <<Local("y", TRUE, Call("g", <<Bin("+", X, Lit(1))>>)),
                                     Return(Bin("+", X, Name("y")))>>, FALSE),
           g |-> Function(<<"x">>, <<Local("y", TRUE, Bin("*", X, Lit(2))), Return(Name("y"))>>, FALSE)],
    <<G(Call("f", <<Lit(1)>>)), G(Comptime(Call("g", <<Lit(3)>>)))>>),
  \* endless recursion, and recursion that ends
  Program([loop |-> Function(<<"x">>, <<Return(Call("loop", <<X>>))>>, FALSE),
           down |-> Function(<<"x">>, <<Return(If(Bin("<=", X, Lit(0)), Lit(5),
                                                 Call("down", <<Bin("-", X, Lit(1))>>)))>>, FALSE)],
    <<G(Call("loop", <<Lit(1)>>)), G(Call("down", <<Lit(2)>>)), G(Call("down", <<Lit(7)>>))>>),
  \* an effectful call, a variable, an unknown name, a function that does not fold
  Program([io |-> Function(<<>>, <<Return(Lit(1))>>, TRUE), v |-> Variable(Lit(3)),
           o |-> Function(<<"x">>, <<OtherStmt, Return(X)>>, FALSE), k |-> Const(Lit(6))],
    <<G(Call("io", <<>>)), G(Comptime(Call("io", <<>>))),
      G(If(Bin("<", Name("v"), Lit(1)), Lit(1), Lit(2))), G(Name("nowhere")),
      G(Call("o", <<Lit(1)>>)), G(ArrayOf(Name("k"), Bool)), G(Call("v", <<>>)),
      G(Call("o", <<Name("v")>>))>>),
  \* switch, variants, sizes, arrays, prefixes, operands that do not fit
  Program([k |-> Const(Switch(Lit(3), <<Arm(<<Pattern("lit", 1, 1)>>, Lit(1)),
                                        Arm(<<Pattern("..<", 2, 3), Pattern("..=", 3, 5)>>, Lit(4)),
                                        Arm(<<Pattern("_", 0, 0)>>, Lit(7))>>))],
    <<G(Name("k")), G(Switch(EnumRef(2), <<Arm(<<Pattern("variant", 1, 1)>>, Lit(1)),
                                           Arm(<<Pattern("variant", 2, 2)>>, Lit(2))>>)),
      G(EnumRef(3)), G(ArrayOf(SizeOf(IntType(FALSE, 2)), Bool)), G(SizeOf(Aggregate(3))),
      G(SizeOf(Aggregate(2))), G(SizeOf(Aggregate(4))), G(SizeOf(EnumType({1, 2}))),
      G(Pre("-", Name("k"))),
      G(Pre("!", Bin("&&", Bin("<", Lit(1), Lit(2)), Bin("==", Lit(1), Lit(2))))),
      G(Pre("~", Lit(2))), G(ArrayOf(Pre("-", Lit(1)), Bool)), G(Bin("/", Lit(3), Lit(0))),
      G(Bin("+", Lit(7), Lit(7))), G(If(Lit(1), Lit(1), EnumRef(1))),
      G(Switch(Lit(3), <<Arm(<<Pattern("lit", 1, 1)>>, Lit(1))>>)), G(Pre("!", Lit(1)))>>),
  \* a chain of constants deeper than the limit
  Program([a |-> Const(Name("b")), b |-> Const(Name("c")), c |-> Const(Name("d")),
           d |-> Const(Name("e")), e |-> Const(Lit(1))],
    <<G(Name("a")), G(Name("b")), G(Name("c"))>>),
  \* goals inside a body: before and after the declarations, with annotations
  Program([n |-> Const(Lit(6)),
           f |-> Function(<<"x">>, <<Local("n", TRUE, Lit(3)), Local("m", FALSE, Name("n")),
                                     Annotated("w", TRUE, U2, Bin("+", Name("n"), Lit(3))),
                                     Annotated("h", FALSE, U2, Absent), Local("d", TRUE, Absent), Return(X)>>, FALSE)],
    <<Goal(ArrayOf(Name("n"), Bool), "f", 5), Goal(Bin("+", Name("n"), Name("m")), "f", 5),
      Goal(X, "f", 0), Goal(Name("n"), "f", 0), Goal(Name("m"), "f", 5), Goal(Name("n"), "f", 1),
      Goal(If(Bin("<", Name("n"), Lit(4)), Lit(1), Name("w")), "f", 2), Goal(Bin("+", Name("w"), Lit(3)), "f", 3),
      Goal(Bin("<", Name("w"), Lit(3)), "f", 3), Goal(Name("h"), "f", 4), Goal(Name("d"), "f", 5),
      Goal(Call("f", <<Name("n")>>), "f", 2)>>),
  \* a local that needs itself, locals that need later ones
  Program([d |-> Const(Lit(4)),
           f |-> Function(<<"x">>, <<Local("r", TRUE, Bin("+", Name("r"), Lit(1))), Return(X)>>, FALSE),
           g |-> Function(<<"x">>, <<Local("y", TRUE, Name("z")), Annotated("z", TRUE, U2, Lit(2)), Return(Name("y"))>>, FALSE),
           h |-> Function(<<"x">>, <<Local("y", TRUE, Name("d")), Local("d", TRUE, Absent), Return(Name("y"))>>, FALSE)],
    <<Goal(Name("r"), "f", 1), Goal(Name("r"), "f", 0), G(Call("f", <<Lit(1)>>)), G(Call("g", <<Lit(1)>>)),
      G(Call("h", <<Lit(1)>>)), G(Name("d"))>>),
  \* bare variants
  Program([k |-> Const(EnumRef(2)), n |-> Const(Lit(2))],
    <<G(Bin("==", Name("k"), Bare(2))), G(Bin("!=", Bare(1), Name("k"))), G(Bin("==", Name("k"), Bare(3))),
      G(Bin("==", Bare(1), Bare(1))), G(Bare(1)), G(Bin("==", Name("n"), Bare(2))),
      G(Bin("==", Name("nowhere"), Bare(2))), G(Bin("<", Name("n"), Bare(2))), G(Bin("==", Absent, Bare(2))),
      G(Bin("+", Absent, Name("n")))>>),
  \* more bindings than a frame holds
  Program([f |-> Function(<<"x">>, <<Local("a", TRUE, Lit(1)), Local("b", TRUE, Lit(2)),
                                     Local("c", TRUE, Lit(3)), Return(Name("b"))>>, FALSE)],
    <<G(Call("f", <<Lit(1)>>))>>)}
\* Two constants and a function, every choice of what each refers to.
P == Name("p")
Inits == {Lit(1), Name("a"), Name("b"), Bin("+", Name("b"), Lit(1)), Call("f", <<Name("b")>>),
          If(Bin("<", Name("a"), Lit(2)), Name("b"), Lit(3)), Comptime(Call("f", <<Lit(2)>>))}
FnBodies == {<<Return(P)>>,
             <<Local("q", FALSE, Bin("+", P, Lit(1))), Return(Bin("*", Name("q"), Lit(2)))>>,
             <<Return(Call("f", <<P>>))>>,
             <<Local("q", TRUE, Name("a")), Return(Bin("+", Name("q"), P))>>,
             <<Return(If(Bin("<=", P, Lit(0)), Name("a"), Call("f", <<Bin("-", P, Lit(1))>>)))>>,
             <<Return(Call("g", <<Bin("+", P, Lit(1))>>))>>}
MCFamily ==
    {Program([a |-> Const(e1), b |-> Const(e2), f |-> Function(<<"p">>, stmts, FALSE),
              g |-> Function(<<"p">>, <<Local("q", TRUE, Bin("*", P, Name("b"))),
                                        Return(Bin("-", Name("q"), P))>>, FALSE)],
             <<G(Name("a")), G(Call("f", <<Lit(1)>>)), G(Bin("+", Name("b"), Name("a")))>>) :
        e1 \in Inits, e2 \in Inits, stmts \in FnBodies}
\* A constant and a parameter with the same name.
MCCaptured == {Program([a |-> Const(Lit(1)), k |-> Const(Name("a")), f |-> Function(<<"a">>, <<Return(Name("k"))>>, FALSE)],
                       <<G(Call("f", <<Lit(5)>>)), G(Name("k"))>>)}
MCAllPrograms == MCPrograms \cup MCFamily \cup MCCaptured

-----------------------------------------------------------------------------
(* Bodies for the scopes: branches and captures; a loop, shadowing and use *)
(* before declaration; nested functions and handlers; `with` and clauses;  *)
(* conflicts; a declaration that is no function.                           *)

Branches == <<Node("bind", 0, "", "f"), Node("lambda", 1, "", ""), Node("plist", 2, "params", ""),
    Node("param", 3, "", "a"), Node("block", 2, "body", ""), Node("bind", 5, "", "b"),
    Node("ref", 6, "", "a"), Node("if", 5, "", ""), Node("ref", 8, "cond", "b"),
    Node("capture", 8, "capture", "c"), Node("block", 8, "then", ""), Node("ref", 11, "", "c"),
    Node("block", 8, "else", ""), Node("ref", 13, "", "c"), Node("ref", 5, "", "t")>>
Loop == <<Node("bind", 0, "", "f"), Node("lambda", 1, "", ""), Node("plist", 2, "params", ""),
    Node("param", 3, "", "a"), Node("block", 2, "body", ""), Node("loop", 5, "", ""),
    Node("ref", 6, "cond", "a"), Node("capture", 6, "capture", "c"), Node("block", 6, "then", ""),
    Node("bind", 9, "", "d"), Node("ref", 10, "", "c"), Node("block", 6, "else", ""),
    Node("ref", 12, "", "c"), Node("ref", 5, "", "d"), Node("bind", 5, "", "c"),
    Node("ref", 15, "", "c"), Node("ref", 5, "", "c")>>
Nested == <<Node("bind", 0, "", "f"), Node("lambda", 1, "", ""), Node("plist", 2, "params", ""),
    Node("param", 3, "", "a"), Node("ref", 4, "", "t"), Node("block", 2, "body", ""),
    Node("bind", 6, "", "g"), Node("lambda", 7, "", ""), Node("plist", 8, "params", ""),
    Node("param", 9, "", "b"), Node("ref", 10, "", "a"), Node("block", 8, "body", ""),
    Node("ref", 12, "", "b"), Node("ref", 12, "", "a"), Node("ref", 6, "", "b"),
    Node("ctl", 6, "", ""), Node("plist", 16, "params", ""), Node("param", 17, "", "c"),
    Node("block", 16, "body", ""), Node("ref", 19, "", "resume"), Node("ref", 19, "", "c"),
    Node("ref", 6, "", "resume")>>
Clauses == <<Node("bind", 0, "", "f"), Node("lambda", 1, "", ""), Node("block", 2, "body", ""),
    Node("with", 3, "", ""), Node("ref", 4, "callee", "a"), Node("args", 4, "args", ""),
    Node("ref", 6, "", "b"), Node("lambda", 6, "cont", ""), Node("plist", 8, "params", ""),
    Node("param", 9, "", "b"), Node("block", 8, "body", ""), Node("ref", 11, "", "b"),
    Node("return_clause", 11, "", ""), Node("plist", 13, "params", ""), Node("param", 14, "", "r"),
    Node("block", 13, "body", ""), Node("ref", 16, "", "r"), Node("op", 11, "", ""),
    Node("plist", 18, "params", ""), Node("param", 19, "", "s"), Node("ref", 18, "body", "s"),
    Node("arm", 11, "", ""), Node("bind", 22, "", "u"), Node("ref", 22, "", "u"),
    Node("ref", 11, "", "u")>>
Conflicts == <<Node("bind", 0, "", "f"), Node("lambda", 1, "", ""), Node("plist", 2, "params", ""),
    Node("param", 3, "", "a"), Node("block", 2, "body", ""), Node("bind", 5, "", "b"),
    Node("ref", 6, "", "a"), Node("block", 5, "", ""), Node("ref", 8, "", "b"),
    Node("bind", 8, "", "b"), Node("ref", 8, "field", "t"), Node("bind", 5, "", "a"),
    Node("ref", 5, "", "a")>>
NoFunction == <<Node("bind", 0, "", "f"), Node("other", 1, "", "")>>
MCBodyTrees == {Branches, Loop, Nested, Clauses, Conflicts, NoFunction}

-----------------------------------------------------------------------------
(* Functions for inference: statements two deep, and switches.             *)

Word  == IntType(TRUE, WORD)
Leaf  == {ReturnStmt(Word), BreakStmt("", NoType), BreakStmt(":a", NoType), ExprStmt(NoReturn),
          ExprStmt(Void)}
Basic == {ReturnStmt(Word), BreakStmt("", NoType), ExprStmt(Void)}
Ifs(S) == {IfStmt(c, s, e) : c \in {"?", "true", "false"}, s \in S, e \in S \cup {NoStmt}}
Loops(S, E) == {LoopStmt(l, h, s, e) : l \in {"", ":a"}, h \in BOOLEAN, s \in S, e \in E \cup {NoStmt}}
BoolSwitches(S) ==
    {SwitchStmt(t, <<Arm(<<Pattern("bool", 0, 0)>>, s), Arm(<<q>>, u)>>) :
       t \in {Bool, Float}, q \in {Pattern("bool", 1, 1), Pattern("_", 0, 0)}, s \in S, u \in S}
Once  == UNION {Leaf, Ifs(Basic), Loops(Basic, Basic), BoolSwitches(Basic),
                {DeferStmt(s) : s \in Basic}, {WithCall(s) : s \in Basic}, {ContinueStmt},
                {BreakStmt("", Word), BreakStmt(":a", ComptimeInt), BreakStmt("", Bool),
                 ReturnStmt(NoType), ReturnStmt(Bool)}}
Small == UNION {Leaf, {IfStmt("?", s, NoStmt) : s \in Leaf}, Loops(Basic, {BreakStmt("", NoType)})}
Inside == UNION {Ifs(Leaf), Loops(Small, Basic), {BlockStmt(":a", <<s>>) : s \in Small},
                 {BlockStmt("", <<s, u>>) : s \in Small, u \in Leaf}}
StmtBodies == {BlockStmt("", <<s>>) : s \in Once} \cup {BlockStmt("", <<s, u>>) : s \in Inside, u \in Basic}
PatternsOver(S) == {Pattern("lit", n, n) : n \in S} \cup {Pattern(o, a, b) : o \in {"..<", "..="}, a, b \in S}
OneOrTwo(S) == {<<p>> : p \in S} \cup {<<p, q>> : p, q \in S}
UpToThree(S) == UNION {[1 .. n -> S] : n \in 1 .. 3}
SwitchOn(t, pats) == SwitchStmt(t, <<Arm(pats, ReturnStmt(Word))>>)
Switches ==
    UNION {{SwitchOn(t, ps) : t \in {I2, U2}, ps \in OneOrTwo(PatternsOver({-2, 0, 1, 3}))},
           {SwitchOn(t, ps) : t \in {Word, USize}, ps \in OneOrTwo(PatternsOver({INT_MIN, 0, INT_MAX}))},
           {SwitchOn(EnumType({1, 2}), ps) : ps \in UpToThree({Pattern("variant", v, v) : v \in 1 .. 3})},
           {SwitchOn(Bool, ps) : ps \in UpToThree({Pattern("bool", 0, 0), Pattern("bool", 1, 1),
                                                   Pattern("lit", 1, 1)})}}
ValueBodies == UNION {Ifs(Basic), BoolSwitches(Basic),
                      {SwitchOn(U2, ps) : ps \in OneOrTwo(PatternsOver({0, 1, 3}))},
                      {ExprStmt(Word), ExprStmt(ComptimeInt)}}
ToInfer(type, stmts, isGeneric) == [ret |-> type, body |-> stmts, generic |-> isGeneric]
MCFunctions == UNION {{ToInfer(Word, b, FALSE) : b \in StmtBodies},
                      {ToInfer(Word, b, TRUE) : b \in {BlockStmt("", <<s>>) : s \in Once}},
                      {ToInfer(t, b, g) : t \in {Word, ErrorType}, b \in ValueBodies, g \in BOOLEAN},
                      {ToInfer(Void, b, FALSE) : b \in Once \cup Switches}}

-----------------------------------------------------------------------------
(* Hashes that collide, and that wrap around the end of the table.         *)

MCHashU64 == <<2, 3, 7, 7, 14, 15>>
MCStrlen == ("" :> 0) @@ ("a" :> 1) @@ ("b" :> 1) @@ ("c" :> 1) @@ ("ab" :> 2) @@ ("ba" :> 2) @@ ("abc" :> 3)
MCHashBytes == ("" :> 0) @@ ("a" :> 3) @@ ("b" :> 3) @@ ("ab" :> 7) @@ ("ba" :> 7) @@ ("abc" :> 14) @@ ("c" :> 15)
MCKeys == {Key("ptr", <<IP_U8_TYPE, 1>>), Key("ptr", <<IP_U8_TYPE, 0>>),
           Key("optional", <<IP_U8_TYPE>>), Key("array", <<IP_U8_TYPE, 2>>),
           Key("fn", <<IP_VOID_TYPE, 1, IP_U8_TYPE, IP_NONE>>),
           Key("fn", <<IP_VOID_TYPE, 1, IP_U8_TYPE, IP_EMPTY_EFFECT_ROW>>),
           Key("effect_row", <<2, 1, 1, IP_NONE>>)}
MCIpHash(key) ==
    [bucket |-> CASE key.kind \in {"ptr", "slice"} -> 7
                  [] key.kind \in {"fn", "array", "row_var"} -> 6
                  [] OTHER -> 15,
     high |-> IF key.kind = "fn" THEN 1 ELSE 0]

-----------------------------------------------------------------------------
(* One part at a time.                                                     *)

FlowParked ==
    /\ held = TvNone /\ number = Unspecified /\ origin = NoType /\ type_subst = <<>>
    /\ next_type_var = 0 /\ call = NoCall /\ moves = MaxMoves
EvalParked ==
    /\ program = Program(<<>>, <<>>) /\ goal = 1 /\ todo = <<>> /\ results = <<>>
    /\ g_eval_cycle = <<>> /\ g_eval_frames = <<>> /\ g_eval_branch = 0
    /\ diags = {} /\ answers = <<>>
ScopesParked ==
    /\ body = NoBody /\ start_offset = 0 /\ shape = NoBody /\ inferred = <<>> /\ references = {}
    /\ fn_body = [of |-> NoBody, scopes |-> body_scopes(NoBody)] /\ decl_map = <<>>
    /\ conflicts = {} /\ unused = {} /\ dirty = FALSE /\ edits = MaxEdits
    /\ goto = [body |-> NoBody, use |-> 0, binding |-> 0]
InferParked == fn = ToInfer(Void, NoStmt, FALSE) /\ inferred_type = NoType /\ reports = {}
InternParked ==
    /\ items = <<>> /\ buckets = NoBuckets(1) /\ extra = <<>>
    /\ next_var = [kind \in VarKinds |-> 0] /\ answered = <<>>

Init ==
    /\ part \in PartsRun
    /\ RowsInit /\ hashmap_init /\ pool_init /\ arena_init
    /\ IF part = "flow" THEN FlowInit ELSE FlowParked
    /\ IF part = "eval" THEN EvalInit ELSE EvalParked
    /\ IF part = "scopes" THEN ScopesInit ELSE ScopesParked
    /\ IF part = "infer" THEN InferInit ELSE InferParked
    /\ IF part = "intern" THEN ip_init ELSE InternParked

Rows ==
    /\ part = "rows" /\ RowsNext
    /\ UNCHANGED <<part, flowVars, evalVars, scopeVars, inferVars, mapVars, stringVars, arenaVars, internVars>>
Flow ==
    /\ part = "flow" /\ FlowNext
    /\ UNCHANGED <<part, rowVars, evalVars, scopeVars, inferVars, mapVars, stringVars, arenaVars, internVars>>
Evaluate ==
    /\ part = "eval" /\ EvalNext
    /\ UNCHANGED <<part, rowVars, flowVars, scopeVars, inferVars, mapVars, stringVars, arenaVars, internVars>>
Resolve ==
    /\ part = "scopes" /\ ScopesNext
    /\ UNCHANGED <<part, rowVars, flowVars, evalVars, inferVars, mapVars, stringVars, arenaVars, internVars>>
Infer ==
    /\ part = "infer" /\ InferNext
    /\ UNCHANGED <<part, rowVars, flowVars, evalVars, scopeVars, mapVars, stringVars, arenaVars, internVars>>
UseMap ==
    /\ part = "map" /\ MapNext
    /\ UNCHANGED <<part, rowVars, flowVars, evalVars, scopeVars, inferVars, stringVars, arenaVars, internVars>>
UseStrings ==
    /\ part = "strings" /\ PoolNext
    /\ UNCHANGED <<part, rowVars, flowVars, evalVars, scopeVars, inferVars, mapVars, arenaVars, internVars>>
UseArena ==
    /\ part = "arena" /\ ArenaNext
    /\ UNCHANGED <<part, rowVars, flowVars, evalVars, scopeVars, inferVars, mapVars, stringVars, internVars>>
Intern ==
    /\ part = "intern" /\ InternNext
    /\ UNCHANGED <<part, rowVars, flowVars, evalVars, scopeVars, inferVars, mapVars, stringVars, arenaVars>>

Next == Rows \/ Flow \/ Evaluate \/ Resolve \/ Infer \/ UseMap \/ UseStrings \/ UseArena \/ Intern
Spec == Init /\ [][Next]_middleVars /\ WF_middleVars(Evaluate)
=============================================================================
