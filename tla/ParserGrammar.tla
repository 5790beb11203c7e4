--------------------------- MODULE ParserGrammar ---------------------------
(***************************************************************************)
(* The procedures of the recursive-descent parser (src/parser_new), one    *)
(* definition per C function, as straight-line programs for the machine of *)
(* module Parser: every call the function makes on the builder and on the  *)
(* token cursor, in the order it makes them, with its branches and loops.  *)
(*                                                                         *)
(* A token is its kind.  A layout token behaves as the delimiter it stands *)
(* for in every test of the parser, so ";", "{" and "}" are the real and   *)
(* the virtual ones.  Operators of one precedence are one kind, and so are *)
(* the literals; a contextual keyword is an identifier with its own name.  *)
(***************************************************************************)
EXTENDS Naturals, Sequences

Keywords == {"pub", "ctl", "distinct", "bit-field", "override", "in"}
Idents   == {"IDENT"} \cup Keywords
BindOps  == {"::", ":=", ":"}
Ranges   == {"..<"}

-----------------------------------------------------------------------------
(* Instructions.  A test is a conjunction of atoms on the lookahead, on    *)
(* the flags and on the progress made since the last Mark.                 *)

At(S)      == <<"at", 1, S>>
NotAt(S)   == <<"notAt", 1, S>>
NextAt(S)  == <<"at", 2, S>>
NextNot(S) == <<"notAt", 2, S>>
ThirdAt(S) == <<"at", 3, S>>
On(f)      == <<"on", f>>
Off(f)     == <<"off", f>>
Stuck      == <<"stuck">>
CapLeft    == <<"capLeft">>

If(t, yes, no)    == <<"if", t, yes, no>>
While(t, body)    == <<"while", t, body>>
Call(r)           == <<"call", r>>
Expr(prec)        == <<"expr", prec>>
Start(kind)       == <<"start", kind>>
StartAt(kind)     == <<"startAt", kind>>
Finish            == <<"finish">>
Checkpoint        == <<"checkpoint">>
Mark              == <<"mark">>
Drop              == <<"drop">>
Set(f, b)         == <<"set", f, b>>
Restore(f)        == <<"restore", f>>
Advance           == <<"advance">>
Error(what)       == <<"error", what>>
CountFix          == <<"fix">>
RecoverAuto       == <<"recoverAuto">>
InfixLoop(prec)   == <<"infix", prec>>
OneInfix          == <<"oneInfix">>
Break             == <<"break">>
Generics(depth)   == <<"generics", depth>>

Match(S)         == If(<<At(S)>>, <<Advance>>, <<>>)
Consume(S, what) == If(<<At(S)>>, <<Advance>>, <<Error(what)>>)
Open(S)          == <<NotAt({"EOF"} \cup S)>>    \* the guard of a list's loop
Node(kind, body) == <<Start(kind)>> \o body \o <<Finish>>
\* a flag is set for the length of a body and then put back
With(f, b, body) == <<Set(f, b)>> \o body \o <<Restore(f)>>

\* A comma list: the loop ends at its closer, or after an item with no comma.
CommaList(closer, item) ==
    While(Open(closer),
          item \o <<If(<<At({","})>>, <<Advance>>, <<Break>>)>>)

-----------------------------------------------------------------------------
(* Precedence.                                                             *)

PREC_NONE == 0
PREC_BIND == 1
PREC_RANGE == 8
PREC_BITWISE == 9
PREC_UNARY == 14
PREC_POSTFIX == 15

\* The operators the runs use, one or more of each level.
get_infix_precedence(tk) ==
    CASE tk = "=" -> 3
      [] tk = "||" -> 4
      [] tk = "&&" -> 5
      [] tk = "==" -> 6
      [] tk \in {"<", ">"} -> 7
      [] tk \in Ranges -> PREC_RANGE
      [] tk \in {"|", "&"} -> PREC_BITWISE
      [] tk = "<<" -> 10
      [] tk \in {"+", "-"} -> 11
      [] tk = "*" -> 12
      [] tk = "**" -> 13
      [] OTHER -> PREC_NONE

is_right_associative(tk) == tk \in {"**", "="}

PostfixOps == {"(", "[", ".", "^", "?", "++"}
ThunkStart == {"{", "fn"}

-----------------------------------------------------------------------------
(* Recovery.                                                               *)

\* Report once, then skip into an error node up to a token of `sync`; the
\* token it is stuck on is taken when nothing was.
p_recover(sync) ==
    <<If(<<CapLeft>>, <<Error("unexpected")>>, <<>>)>>
    \o Node("ERROR_NODE",
         <<Mark,
           While(<<NotAt({"EOF"} \cup sync), CapLeft>>, <<Advance, CountFix>>),
           If(<<Stuck, NotAt({"EOF"})>>, <<Advance, CountFix>>, <<>>),
           Drop>>)

\* compute_sync: the closers and separators of the open lists.
SyncOf(kind) ==
    CASE kind = "ARG_LIST" -> {")", ","}
      [] kind = "PARAM_LIST" -> {")", ",", "{"}
      [] kind \in {"EFFECT_ROW_TYPE", "EFFECT_LABEL_LIST"} -> {">", ","}
      [] kind \in {"INIT_LIST", "SWITCH_PATTERN_LIST"} -> {","}
      [] OTHER -> {}

compute_sync(openKinds) == {";", "}"} \cup UNION {SyncOf(k) : k \in openKinds}

-----------------------------------------------------------------------------
(* Statements and declarations.                                            *)

parse_stmt ==
    <<If(<<At(Idents), NextAt(BindOps)>>,
         <<Call("parse_named_bind_decl")>>,
         <<Checkpoint, Expr(PREC_NONE),
           If(<<At({","})>>, <<Call("parse_bare_destructure_tail")>>, <<>>),
           Drop>>)>>

\* An iteration of a statement list that took nothing is recovered.
Guarded(body) ==
    <<Mark>> \o body \o <<If(<<Stuck>>, <<RecoverAuto>>, <<>>), Drop>>

parse_block(stmt_parser) ==
    Node("BLOCK_STMT",
      <<Match({"LABEL"}),
        If(<<At({"{"})>>,
           <<Advance>>
           \o Node("STMT_LIST",
                <<While(Open({"}"}),
                        Guarded(<<Call(stmt_parser), Match({";"})>>))>>)
           \o <<Consume({"}"}, "close")>>,
           <<Error("open")>>)>>)

parse_body ==
    <<If(<<At({"LABEL", "{"})>>, <<Call("parse_block")>>, <<Expr(PREC_NONE)>>)>>

parse_top_level_decls ==
    <<While(<<NotAt({"EOF"})>>,
        <<Mark,
          If(<<At(Idents), NextAt(BindOps)>>,
             <<Call("parse_named_bind_decl")>>,
             <<If(<<At(Idents), NextAt({","})>>,
                  <<Checkpoint, Expr(PREC_NONE),
                    Call("parse_bare_destructure_tail"), Drop>>,
                  <<RecoverAuto>>)>>),
          Consume({";"}, "semi"),
          If(<<Stuck>>, <<Advance>>, <<>>), Drop>>)>>

parse_named_bind_decl ==
    <<Checkpoint, Advance,
      If(<<At({":"})>>, <<Call("typed_bind_tail")>>, <<Call("bind_tail")>>), Drop>>

parse_bare_destructure_tail ==
    <<StartAt("PRODUCT_EXPR"),
      While(<<At({","})>>, <<Advance, Expr(PREC_NONE)>>), Finish,
      If(<<At({"::", ":="})>>, <<Call("destructure_tail")>>,
         <<Error("destructure")>>)>>

BindValue ==
    <<While(<<At({"pub", "comptime"})>>, <<Advance>>),
      If(<<At({"distinct", "bit-field"})>>, <<Call("parse_type_expr")>>,
         <<Expr(PREC_BIND)>>)>>

emit_bind_decl_tail(wrap, typed) ==
    <<StartAt(wrap), Advance>>
    \o (IF typed
        THEN <<Call("parse_type_expr"),
               If(<<At({":", "="})>>, <<Advance>> \o BindValue, <<>>)>>
        ELSE BindValue)
    \o <<Finish>>

-----------------------------------------------------------------------------
(* Expressions.                                                            *)

\* parse_expr: a prefix, then postfix forms and operators around checkpoint.
parse_expr(prec) ==
    <<Checkpoint, Call("parse_prefix"), InfixLoop(prec), Drop>>

\* Variant: the path that reports generics returns without restoring the flag.
parse_type_expr_early ==
    <<Set("parsing_type", TRUE), Expr(PREC_BITWISE),
      If(<<On("parsing_type"), At({"<"})>>,
         <<Error("generics"), Advance, Generics(1), Drop>>, <<Restore("parsing_type")>>)>>

parse_type_expr ==
    With("parsing_type", TRUE,
      <<Expr(PREC_BITWISE),
        If(<<On("parsing_type"), At({"<"})>>,
           <<Error("generics"), Advance, Generics(1)>>, <<>>)>>)

parse_qualified_type(kind) == Node(kind, <<Advance, Consume(Idents, "type name")>>)
parse_distinct_type == Node("DISTINCT_TYPE", <<Advance, Call("parse_type_expr")>>)

parse_bit_field_type ==
    Node("BIT_FIELD_TYPE",
      <<Advance, Call("parse_type_expr"), Consume({"{"}, "open")>>
      \o With("parsing_type", FALSE,
           Node("BIT_FIELD_LIST",
             <<While(Open({"}"}),
                 <<If(<<At(Idents)>>,
                      Node("BIT_FIELD",
                        <<Advance, Consume({":"}, "colon"), Call("parse_type_expr"),
                          If(<<At({"|"})>>, <<Advance, Expr(PREC_BITWISE)>>,
                             <<Error("width")>>)>>)
                      \o <<Match({";"})>>,
                      <<RecoverAuto>>)>>)>>))
      \o <<Consume({"}"}, "close")>>)

parse_prefix_unary(kind) ==
    Node(kind,
      <<Advance>> \o
      (IF kind = "PREFIX_EXPR" THEN <<Expr(PREC_UNARY)>>
       ELSE With("parsing_type", TRUE, <<Expr(PREC_UNARY)>>)))

IdentPrefix(tk, typePos) ==
    CASE tk = "ctl" /\ ~typePos -> <<Call("parse_lambda")>>
      [] tk = "distinct" /\ typePos -> parse_distinct_type
      [] tk = "bit-field" /\ typePos -> parse_bit_field_type
      [] OTHER -> Node(IF typePos THEN "REF_TYPE" ELSE "REF_EXPR", <<Advance>>)

ParenExpr ==
    Node("PAREN_EXPR",
      <<Advance>> \o With("no_trailing_lambda", FALSE, <<Expr(PREC_NONE)>>)
      \o <<Consume({")"}, "close")>>)

PrefixSync == {";", "}", ")", "]", ",", ">", "|"}

\* What a trailing block or `fn` adds to a call.
emit_trailing_thunk_lambda ==
    <<If(<<At({"fn"})>>, <<Call("parse_lambda")>>,
         Node("LAMBDA_EXPR", Node("PARAM_LIST", <<>>) \o <<Call("parse_body")>>))>>

Args == CommaList({")"}, <<Expr(PREC_NONE)>>)

CallInfix ==
    <<StartAt("CALL_EXPR")>>
    \o Node("ARG_LIST",
         <<Advance>>
         \o With("no_trailing_lambda", FALSE, <<Args>>)
         \o <<Consume({")"}, "close"),
              If(<<Off("parsing_type"), Off("no_trailing_lambda"), At(ThunkStart)>>,
                 emit_trailing_thunk_lambda, <<>>)>>)
    \o <<Finish>>

ThunkInfix ==
    <<StartAt("CALL_EXPR")>> \o Node("ARG_LIST", emit_trailing_thunk_lambda)
    \o <<Finish>>

\* The bracket is taken before the node is opened at the left operand.
IndexInfix ==
    <<Advance,
      If(<<At(Ranges)>>,
         <<Error("open slice"), Advance,
           If(<<NotAt({"]"})>>, <<Expr(PREC_RANGE)>>, <<>>),
           Consume({"]"}, "close"), StartAt("SLICE_EXPR"), Finish>>,
         <<Expr(PREC_RANGE),
           If(<<At(Ranges)>>,
              <<Advance, If(<<NotAt({"]"})>>, <<Expr(PREC_RANGE)>>, <<>>),
                Consume({"]"}, "close"), StartAt("SLICE_EXPR"), Finish>>,
              <<Consume({"]"}, "close"), StartAt("INDEX_EXPR"), Finish>>)>>)>>

\* Variant: the operand of a left-associative operator is parsed at the level
\* below its own.
OperatorInfixLoose(tk) ==
    <<StartAt(IF tk = "=" THEN "ASSIGN_EXPR" ELSE "BIN_EXPR"), Advance,
      Expr(IF is_right_associative(tk) THEN get_infix_precedence(tk)
           ELSE get_infix_precedence(tk) - 1),
      Finish>>

OperatorInfix(tk) ==
    <<StartAt(IF tk = "=" THEN "ASSIGN_EXPR" ELSE "BIN_EXPR"), Advance,
      Expr(IF is_right_associative(tk) THEN get_infix_precedence(tk) - 1
           ELSE get_infix_precedence(tk)),
      Finish>>

parse_infix(tk, typePos) ==
    CASE tk = "(" -> CallInfix
      [] tk \in ThunkStart -> ThunkInfix
      [] tk = "[" -> IndexInfix
      [] tk = "." -> <<StartAt(IF typePos THEN "PATH_TYPE" ELSE "FIELD_EXPR"), Advance,
                       Consume(Idents, "field name"), Finish>>
      [] tk \in {"^", "?", "++"} -> <<StartAt("POSTFIX_EXPR"), Advance, Finish>>
      [] OTHER -> OperatorInfix(tk)

\* The loop of parse_expr: go on while the next token extends the expression.
Extends(tk, prec, typePos, ntl) ==
    \/ prec < PREC_POSTFIX /\ tk \in PostfixOps
    \/ prec < PREC_POSTFIX /\ ~typePos /\ ~ntl /\ tk \in ThunkStart
    \/ /\ ~typePos
       /\ get_infix_precedence(tk) # PREC_NONE
       /\ get_infix_precedence(tk) > prec

-----------------------------------------------------------------------------
(* Control flow.                                                           *)

\* A token that cannot begin the body of a lambda, a return or a break.
NoBody == {")", ",", ">", "]", "|", "EOF", ";", "}"}

parse_return_expr ==
    Node("RETURN_STMT", <<Advance, If(<<NotAt(NoBody)>>, <<Call("parse_body")>>, <<>>)>>)

parse_defer_expr == Node("DEFER_STMT", <<Advance, Call("parse_body")>>)

parse_break_or_continue(kind) ==
    Node(kind,
      <<Advance, Match({"LABEL"})>>
      \o (IF kind = "BREAK_STMT"
          THEN <<If(<<NotAt(NoBody)>>, <<Call("parse_body")>>, <<>>)>> ELSE <<>>))

parse_optional_capture ==
    <<If(<<At({"<"})>>,
         Node("CAPTURE", <<Advance, Consume(Idents, "capture"), Consume({">"}, "close")>>),
         <<>>)>>

\* The head of a conditional: no trailing block belongs to it.
Header ==
    With("no_trailing_lambda", TRUE, <<Expr(PREC_NONE)>>) \o <<Consume({")"}, "close")>>

parse_if_expr ==
    Node("IF_EXPR",
      <<Advance, Consume({"("}, "open")>> \o Header \o parse_optional_capture
      \o <<Call("parse_body"),
           If(<<At({"elif"})>>, <<Call("parse_if_expr")>>,
              <<If(<<At({"else"})>>, <<Advance, Call("parse_body")>>, <<>>)>>)>>)

parse_loop_expr ==
    Node("LOOP_EXPR",
      <<Advance, Match({"LABEL"}),
        If(<<At({"("})>>,
           <<Advance>> \o Header \o parse_optional_capture
           \o <<If(<<At({":"})>>,
                   Node("LOOP_CONTINUE", <<Advance, Consume({"("}, "open")>> \o Header),
                   <<>>)>>,
           <<>>),
        Call("parse_body"),
        If(<<At({"else"})>>, <<Advance, Call("parse_body")>>, <<>>)>>)

SwitchPatterns ==
    Node("SWITCH_PATTERN_LIST",
      <<While(<<>>,
          <<Checkpoint, Expr(PREC_BITWISE + 1),
            If(<<At(Ranges)>>,
               <<StartAt("BIN_EXPR"), Advance, Expr(PREC_BITWISE + 1), Finish>>, <<>>),
            Drop,
            If(<<At({","})>>, <<Advance>>, <<Break>>)>>)>>)

parse_switch_expr ==
    Node("SWITCH_EXPR",
      <<Advance, Consume({"("}, "open")>> \o Header \o <<Consume({"{"}, "open")>>
      \o Node("STMT_LIST",
           <<While(Open({"}"}),
               Guarded(Node("SWITCH_ARM",
                            SwitchPatterns
                            \o <<Consume({"=>"}, "arrow"), Call("parse_body")>>)
                       \o <<Match({";"})>>))>>)
      \o <<Consume({"}"}, "close")>>)

-----------------------------------------------------------------------------
(* Functions and types.                                                    *)

parse_param(name_required) ==
    Node("PARAM",
      <<Match({"comptime"})>>
      \o (IF name_required
          THEN <<If(<<At(Idents)>>,
                    <<Advance, If(<<At({":"})>>, <<Advance, Call("parse_type_expr")>>,
                                  <<>>)>>,
                    <<Error("parameter")>>)>>
          ELSE <<Call("parse_type_expr")>>))

Signature(name_required) ==
    <<Advance, Consume({"("}, "open")>>
    \o Node("PARAM_LIST",
         <<CommaList({")"}, parse_param(name_required)), Consume({")"}, "close")>>)
    \o <<If(<<At({"<"})>>, <<Call("parse_effect_row")>>, <<>>),
         If(<<At({"->"})>>, <<Advance, Call("parse_type_expr")>>, <<>>)>>

parse_lambda ==
    Node("LAMBDA_EXPR",
      Signature(TRUE) \o <<If(<<NotAt(NoBody)>>, <<Call("parse_body")>>, <<>>)>>)

parse_fn_type == Node("FN_TYPE", Signature(FALSE))

FieldType ==
    <<Advance, Consume({":"}, "colon"), Call("parse_type_expr"),
      If(<<At({"="})>>, <<Advance, Expr(PREC_BITWISE)>>, <<>>)>>

Aggregate == {"struct", "union", "enum"}

parse_aggregate_expr ==
    Node("STRUCT_DECL",
      <<Advance, Consume({"{"}, "open")>>
      \o Node("FIELD_LIST",
           <<While(Open({"}"}),
               <<Mark, Start("FIELD"),
                 If(<<At({"pub"}), NextAt(Aggregate)>>, <<Advance>>, <<>>),
                 If(<<At(Aggregate)>>,
                    <<Call("parse_type_expr"), Finish, Match({";"}),
                      If(<<Stuck>>, <<RecoverAuto>>, <<>>)>>,
                    <<Match({"pub"}),
                      If(<<At(Idents)>>, FieldType \o <<Finish, Match({";"})>>,
                         <<RecoverAuto, Finish>>)>>),
                 Drop>>)>>)
      \o <<Consume({"}"}, "close")>>)

parse_enum_expr ==
    Node("ENUM_DECL",
      <<Advance, Consume({"{"}, "open")>>
      \o Node("VARIANT_LIST",
           <<While(Open({"}"}),
               <<If(<<At(Idents)>>,
                    Node("VARIANT",
                      <<Advance, If(<<At({"="})>>, <<Advance, Expr(PREC_BITWISE)>>, <<>>)>>)
                    \o <<Match({";"})>>,
                    <<RecoverAuto>>)>>)>>)
      \o <<Consume({"}"}, "close")>>)

parse_init_list_body ==
    Node("INIT_LIST",
      <<Advance,
        CommaList({"}"},
          Node("INIT_FIELD",
            <<If(<<At({"."}), NextAt(Idents)>>,
                 <<Advance, Advance, Consume({"="}, "equals")>>, <<>>),
              Expr(PREC_NONE), Match({"..."})>>)),
        While(<<At({";"})>>, <<Advance>>),
        Consume({"}"}, "close")>>)

parse_struct_construction ==
    Node("PRODUCT_EXPR",
      <<Advance>> \o Node("REF_EXPR", <<Consume(Idents, "type name")>>)
      \o <<If(<<At({"{"})>>, <<Call("parse_init_list_body")>>, <<Error("open")>>)>>)

\* `[^]T`, `[]T`, `[_]T{..}` and `[N]T{..}`; the size is a value.
ArrayForm(size) ==
    <<Checkpoint>> \o Node("ARRAY_TYPE", <<Advance>> \o size \o <<Call("parse_type_expr")>>)
    \o <<If(<<Off("parsing_type"), At({"{"})>>,
            <<StartAt("PRODUCT_EXPR"), Call("parse_init_list_body"), Finish>>, <<>>),
         Drop>>

parse_bracket_expr ==
    <<If(<<NextAt({"^"})>>,
         Node("MANY_PTR_TYPE",
              <<Advance, Advance, Consume({"]"}, "close"), Call("parse_type_expr")>>),
         <<If(<<NextAt({"]"})>>,
              Node("SLICE_TYPE", <<Advance, Advance, Call("parse_type_expr")>>),
              <<If(<<NextAt({"_"}), ThirdAt({"]"})>>,
                   ArrayForm(<<Advance, Advance>>),
                   ArrayForm(With("parsing_type", FALSE, <<Expr(PREC_BITWISE)>>)
                             \o <<Consume({"]"}, "close")>>))>>)>>)>>

parse_dot_expr ==
    <<If(<<NextAt({"{"})>>,
         Node("PRODUCT_EXPR", <<Advance, Call("parse_init_list_body")>>),
         <<If(<<NextAt(Idents)>>, Node("ENUM_REF_EXPR", <<Advance, Advance>>),
              <<Error("dot"), Advance>>)>>)>>

parse_builtin_expr ==
    Node("BUILTIN_EXPR",
      <<Advance,
        If(<<At(Idents)>>,
           <<Advance,
             If(<<At({"("})>>,
                <<Advance>> \o Node("ARG_LIST", <<Args, Consume({")"}, "close")>>), <<>>)>>,
           <<Error("builtin")>>)>>)

-----------------------------------------------------------------------------
(* Effects and handlers.                                                   *)

parse_effect_row ==
    Node("EFFECT_ROW_TYPE",
      <<Consume({"<"}, "open")>>
      \o Node("EFFECT_LABEL_LIST",
           <<CommaList({">", "...", ".."}, <<Call("parse_type_expr")>>)>>)
      \o <<If(<<At({"..."})>>, Node("EFFECT_ROW_TAIL", <<Advance>>),
              <<If(<<At({".."})>>,
                   Node("EFFECT_ROW_TAIL", <<Advance, Consume(Idents, "row variable")>>),
                   <<>>)>>),
           Consume({">"}, "close")>>)

parse_mask_expr ==
    Node("MASK_EXPR", <<Advance, Call("parse_effect_row"), Expr(PREC_NONE)>>)

parse_handler_expr_x ==
    <<Match({"override"}), If(<<At({"<"})>>, <<Call("parse_effect_row")>>, <<>>),
      Call("parse_handler_clauses")>>

parse_handler_expr == Node("HANDLER_EXPR", <<Advance>> \o parse_handler_expr_x)

\* `handle (action) ...` is a call with the action as its argument list.
parse_handle_expr ==
    <<Checkpoint, Advance>>
    \o Node("ARG_LIST", <<Consume({"("}, "open"), Expr(PREC_NONE), Consume({")"}, "close")>>)
    \o Node("HANDLER_EXPR", parse_handler_expr_x)
    \o <<StartAt("CALL_EXPR"), Finish, Drop>>

parse_handler_clause_stmt ==
    <<If(<<At({"return"})>>,
         Node("RETURN_CLAUSE",
           <<Advance, Consume({"("}, "open")>> \o Node("PARAM_LIST", parse_param(TRUE))
           \o <<Consume({")"}, "close"), Call("parse_body")>>),
         <<Call("parse_stmt")>>)>>

\* `with` takes the statements after it as the body of a lambda, and leaves the
\* last `;` to the statement list it stands in.
LastSemi == <<At({";"}), NextAt({"}", "EOF"})>>

WithTail ==
    <<While(Open({"}"}),
        <<Mark, Call("parse_stmt"), If(LastSemi, <<Drop, Break>>, <<>>), Match({";"}),
          If(<<Stuck>>, <<RecoverAuto>>, <<>>), Drop>>)>>

WithLambda(body) ==
    Node("LAMBDA_EXPR",
      Node("PARAM_LIST", <<>>) \o Node("BLOCK_STMT", Node("STMT_LIST", body)))

ElidedHandler == Node("HANDLER_EXPR", parse_handler_expr_x)

parse_with_stmt ==
    <<Checkpoint, Advance,
      If(<<At(Idents), NextAt({":="})>>,
         Node("PARAM", <<Advance>>) \o <<Advance>>, <<>>),
      Checkpoint,
      If(<<At({"<"})>>, ElidedHandler,
         <<If(<<At({"override"}), NextAt({"<", "{"})>>, ElidedHandler,
              <<Call("parse_prefix"),
                While(<<At({".", "[", "^", "?", "++"})>>, <<OneInfix>>)>>)>>),
      Drop,
      StartAt("CALL_EXPR")>>
    \o Node("ARG_LIST",
         <<If(<<At({"("})>>, <<Advance, Args, Consume({")"}, "close")>>, <<>>),
           If(LastSemi, WithLambda(<<>>), <<Match({";"})>> \o WithLambda(WithTail))>>)
    \o <<Finish, Drop>>

OpSignature ==
    Node("FIELD",
      <<Consume(Idents, "operation"), Consume({"::"}, "equals")>>
      \o Node("OP_KIND", <<If(<<At({"ctl"})>>, <<Advance>>, <<Error("operation kind")>>)>>)
      \o <<If(<<At({"("})>>,
              <<Advance>> \o Node("PARAM_LIST",
                 <<CommaList({")"}, parse_param(TRUE)), Consume({")"}, "close")>>),
              <<>>),
           If(<<NotAt({";", "}", "EOF", ","})>>, <<Call("parse_type_expr")>>, <<>>)>>)

parse_effect_decl ==
    Node("EFFECT_DECL",
      <<Advance, If(<<At({"in"})>>, <<Advance, Call("parse_type_expr")>>, <<>>),
        Consume({"{"}, "open")>>
      \o Node("FIELD_LIST",
           <<While(Open({"}"}), Guarded(OpSignature \o <<Consume({";"}, "operation end")>>))>>)
      \o <<Consume({"}"}, "close")>>)

-----------------------------------------------------------------------------
(* The dispatch of parse_prefix on the next token.                         *)

Literals == {"LIT", "_"}

\* Declarations, control flow, brackets, builtins, effects: the forms that start
\* with a keyword or a mark.
FormPrefix(tk, typePos) ==
    CASE tk = "fn" -> IF typePos THEN <<Error("fn type"), Advance>>
                      ELSE <<Call("parse_lambda")>>
      [] tk = "Fn" -> parse_fn_type
      [] tk = "struct" -> IF typePos THEN parse_aggregate_expr
                          ELSE <<If(<<NextAt(Idents)>>, parse_struct_construction,
                                    parse_aggregate_expr)>>
      [] tk = "union" -> parse_aggregate_expr
      [] tk = "enum" -> parse_enum_expr
      [] tk = "switch" -> parse_switch_expr
      [] tk \in {"if", "elif"} -> <<Call("parse_if_expr")>>
      [] tk = "loop" -> parse_loop_expr
      [] tk = "return" -> parse_return_expr
      [] tk = "defer" -> parse_defer_expr
      [] tk = "break" -> parse_break_or_continue("BREAK_STMT")
      [] tk = "continue" -> parse_break_or_continue("CONTINUE_STMT")
      [] tk = "[" -> parse_bracket_expr
      [] tk = "." -> parse_dot_expr
      [] tk = "@" -> parse_builtin_expr
      [] tk = "comptime" -> Node("COMPTIME_EXPR", <<Advance, Call("parse_prefix")>>)
      [] tk = "with" -> parse_with_stmt
      [] tk = "effect" -> parse_effect_decl
      [] tk \in {"handler", "handle"} ->
            IF typePos THEN parse_qualified_type("HANDLER_TYPE")
            ELSE IF tk = "handle" THEN parse_handle_expr ELSE parse_handler_expr
      [] tk = "mask" -> parse_mask_expr
      [] tk = "<" -> <<Call("parse_effect_row")>>
      [] OTHER -> p_recover(PrefixSync)

parse_prefix(tk, typePos) ==
    CASE tk \in Literals -> Node("LITERAL_EXPR", <<Advance>>)
      [] tk \in Idents -> IdentPrefix(tk, typePos)
      [] tk = "(" -> ParenExpr
      [] tk \in {"LABEL", "{"} -> <<Call("parse_block")>>
      [] tk \in {"-", "&"} -> parse_prefix_unary("PREFIX_EXPR")
      [] tk = "^" -> parse_prefix_unary("PTR_TYPE")
      [] tk = "?" -> parse_prefix_unary("OPTIONAL_TYPE")
      [] tk = "const" -> parse_prefix_unary("CONST_TYPE")
      [] OTHER -> FormPrefix(tk, typePos)

\* The procedures called by name, so that they may call one another.
Procedure(r) ==
    CASE r = "parse_stmt" -> parse_stmt
      [] r = "parse_block" -> parse_block("parse_stmt")
      [] r = "parse_handler_clauses" -> parse_block("parse_handler_clause_stmt")
      [] r = "parse_handler_clause_stmt" -> parse_handler_clause_stmt
      [] r = "parse_body" -> parse_body
      [] r = "parse_named_bind_decl" -> parse_named_bind_decl
      [] r = "parse_bare_destructure_tail" -> parse_bare_destructure_tail
      [] r = "bind_tail" -> emit_bind_decl_tail("BIND_DECL", FALSE)
      [] r = "typed_bind_tail" -> emit_bind_decl_tail("BIND_DECL", TRUE)
      [] r = "destructure_tail" -> emit_bind_decl_tail("DESTRUCTURE_DECL", FALSE)
      [] r = "parse_type_expr" -> parse_type_expr
      [] r = "parse_effect_row" -> parse_effect_row
      [] r = "parse_lambda" -> parse_lambda
      [] r = "parse_if_expr" -> parse_if_expr
      [] r = "parse_init_list_body" -> parse_init_list_body
=============================================================================
