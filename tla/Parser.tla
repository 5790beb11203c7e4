------------------------------- MODULE Parser -------------------------------
(***************************************************************************)
(* The parser (src/parser_new/parser.c) and the green-tree builder it      *)
(* drives (src/syntax/builder.c).  `todo` is what is left of the programs  *)
(* of ParserGrammar, the C stack and the return addresses in one sequence; *)
(* `locals` holds the C locals that live across a call: checkpoints, saved *)
(* flags and remembered positions.                                         *)
(*                                                                         *)
(* The token stream is chosen as it is read: a token is drawn when a test  *)
(* first looks at it.  A token and the trivia p_advance emits after it are *)
(* one child; the tree's content is not kept, only how many children are   *)
(* on the builder's stack and where each open node begins.                 *)
(***************************************************************************)
EXTENDS ParserGrammar, FiniteSets, FiniteSetsExt

CONSTANTS Sources,       \* [prefix, alphabet, more]: a stream's beginning, the
                         \* kinds that may follow it, and how many of them
          PARSE_FIX_CAP

ASSUME ParserAssumption ==
    /\ PARSE_FIX_CAP \in Nat
    /\ \A s \in Sources : s.more \in Nat

VARIABLES todo, locals, la, left, alphabet,
          parents, children_count,
          flag, in_recovery, fix_count, lastSep

parserVars == <<todo, locals, la, left, alphabet, parents, children_count,
                flag, in_recovery, fix_count, lastSep>>
builder == <<parents, children_count>>
input   == <<la, left, alphabet>>
quiet   == <<in_recovery, fix_count, lastSep>>

Flags == {"parsing_type", "no_trailing_lambda"}

\* parse_file_green
ParserInit ==
    /\ todo = <<Start("SOURCE_FILE")>> \o parse_top_level_decls \o <<Finish>>
    /\ locals = <<>>
    /\ \E s \in Sources : la = s.prefix /\ left = s.more /\ alphabet = s.alphabet
    /\ parents = <<>> /\ children_count = 0
    /\ flag = [f \in Flags |-> FALSE]
    /\ in_recovery = FALSE /\ fix_count = 0 /\ lastSep = FALSE

-----------------------------------------------------------------------------
(* Tests.                                                                  *)

\* p_peek and p_peek_at: past the end is EOF.
TokenAt(i) == IF i <= Len(la) THEN la[i] ELSE "EOF"

Holds(atom) ==
    CASE atom[1] = "at" -> TokenAt(atom[2]) \in atom[3]
      [] atom[1] = "notAt" -> TokenAt(atom[2]) \notin atom[3]
      [] atom[1] = "on" -> flag[atom[2]]
      [] atom[1] = "off" -> ~flag[atom[2]]
      [] atom[1] = "stuck" -> ~locals[Len(locals)][2]
      [] atom[1] = "capLeft" -> fix_count < PARSE_FIX_CAP

Test(t) == \A i \in DOMAIN t : Holds(t[i])

\* How many tokens the instruction at the head looks at.
Reach(t) ==
    Max({0} \cup {t[i][2] : i \in {j \in DOMAIN t : t[j][1] \in {"at", "notAt"}}})
Looks(i) ==
    CASE i[1] \in {"if", "while"} -> Reach(i[2])
      [] i[1] \in {"infix", "oneInfix", "generics", "advance", "startAt"} -> 1
      [] i[1] = "call" -> IF i[2] = "parse_prefix" THEN 1 ELSE 0
      [] OTHER -> 0

Current == Head(todo)
Seen    == left = 0 \/ Len(la) >= Looks(Current)
Do(op)  == todo # <<>> /\ Seen /\ Current[1] = op
Then(program) == todo' = program \o Tail(todo)

\* The lexer's stream goes on with any token of the alphabet, or ends.
NextToken ==
    /\ todo # <<>> /\ ~Seen
    /\ \/ \E t \in alphabet : la' = Append(la, t) /\ left' = left - 1
       \/ left' = 0 /\ UNCHANGED la
    /\ UNCHANGED <<todo, locals, alphabet, flag>> /\ UNCHANGED <<builder, quiet>>

-----------------------------------------------------------------------------
(* Control: tests, loops and calls.                                        *)

Branch ==
    /\ Do("if")
    /\ Then(IF Test(Current[2]) THEN Current[3] ELSE Current[4])
    /\ UNCHANGED <<locals, flag>> /\ UNCHANGED <<input, builder, quiet>>

Loop ==
    /\ Do("while")
    /\ Then(IF Test(Current[2]) THEN Append(Current[3], Current) ELSE <<>>)
    /\ UNCHANGED <<locals, flag>> /\ UNCHANGED <<input, builder, quiet>>

LeaveLoop ==
    /\ Do("break")
    /\ LET loop == Min({i \in DOMAIN todo : todo[i][1] = "while"})
       IN  todo' = SubSeq(todo, loop + 1, Len(todo))
    /\ UNCHANGED <<locals, flag>> /\ UNCHANGED <<input, builder, quiet>>

CallProcedure ==
    /\ Do("call")
    /\ Then(IF Current[2] = "parse_prefix"
            THEN parse_prefix(TokenAt(1), flag["parsing_type"])
            ELSE Procedure(Current[2]))
    /\ UNCHANGED <<locals, flag>> /\ UNCHANGED <<input, builder, quiet>>

CallExpr ==
    /\ Do("expr")
    /\ Then(parse_expr(Current[2]))
    /\ UNCHANGED <<locals, flag>> /\ UNCHANGED <<input, builder, quiet>>

ExtendExpr ==
    /\ Do("infix")
    /\ Then(IF Extends(TokenAt(1), Current[2], flag["parsing_type"],
                       flag["no_trailing_lambda"])
            THEN Append(parse_infix(TokenAt(1), flag["parsing_type"]), Current)
            ELSE <<>>)
    /\ UNCHANGED <<locals, flag>> /\ UNCHANGED <<input, builder, quiet>>

ExtendHead ==
    /\ Do("oneInfix")
    /\ Then(parse_infix(TokenAt(1), flag["parsing_type"]))
    /\ UNCHANGED <<locals, flag>> /\ UNCHANGED <<input, builder, quiet>>

\* Variant: the end of the file does not end the group.
SkipGenericsPastEnd ==
    /\ Do("generics")
    /\ LET depth == CASE TokenAt(1) = "<" -> Current[2] + 1
                      [] TokenAt(1) = ">" -> Current[2] - 1
                      [] OTHER -> Current[2]
       IN  Then(IF depth = 0 THEN <<Advance>> ELSE <<Advance, Generics(depth)>>)
    /\ UNCHANGED <<locals, flag>> /\ UNCHANGED <<input, builder, quiet>>

\* The group of a stray `<` in a type, up to the `>` that closes it or EOF.
SkipGenerics ==
    /\ Do("generics")
    /\ LET depth == CASE TokenAt(1) = "<" -> Current[2] + 1
                      [] TokenAt(1) = ">" -> Current[2] - 1
                      [] OTHER -> Current[2]
       IN  Then(IF TokenAt(1) = "EOF" THEN <<>>
                ELSE IF depth = 0 THEN <<Advance>> ELSE <<Advance, Generics(depth)>>)
    /\ UNCHANGED <<locals, flag>> /\ UNCHANGED <<input, builder, quiet>>

-----------------------------------------------------------------------------
(* The builder: a stack of open nodes over a stack of finished children.   *)

Operator(kind) == IF kind \in {"BIN_EXPR", "ASSIGN_EXPR"} THEN TokenAt(1) ELSE ""

green_builder_start_node(kind, first) ==
    parents' = Append(parents, [kind |-> kind, first |-> first, op |-> Operator(kind)])

StartNode ==
    /\ Do("start")
    /\ green_builder_start_node(Current[2], children_count)
    /\ Then(<<>>)
    /\ UNCHANGED <<locals, flag, children_count>> /\ UNCHANGED <<input, quiet>>

StartNodeAt ==
    /\ Do("startAt")
    /\ green_builder_start_node(Current[2], locals[Len(locals)][2])
    /\ Then(<<>>)
    /\ UNCHANGED <<locals, flag, children_count>> /\ UNCHANGED <<input, quiet>>

\* The children of the innermost node become one.
green_builder_finish_node ==
    /\ children_count' = parents[Len(parents)].first + 1
    /\ parents' = SubSeq(parents, 1, Len(parents) - 1)

FinishNode ==
    /\ Do("finish")
    /\ green_builder_finish_node
    /\ Then(<<>>)
    /\ UNCHANGED <<locals, flag>> /\ UNCHANGED <<input, quiet>>

-----------------------------------------------------------------------------
(* Locals.                                                                 *)

Push(local) == locals' = Append(locals, local)
Pop         == locals' = SubSeq(locals, 1, Len(locals) - 1)

TakeCheckpoint ==
    /\ Do("checkpoint")
    /\ Push(<<"cp", children_count>>)
    /\ Then(<<>>)
    /\ UNCHANGED flag /\ UNCHANGED <<input, builder, quiet>>

RememberPosition ==
    /\ Do("mark")
    /\ Push(<<"moved", FALSE>>)
    /\ Then(<<>>)
    /\ UNCHANGED flag /\ UNCHANGED <<input, builder, quiet>>

ForgetLocal ==
    /\ Do("drop")
    /\ Pop
    /\ Then(<<>>)
    /\ UNCHANGED flag /\ UNCHANGED <<input, builder, quiet>>

SetFlag ==
    /\ Do("set")
    /\ Push(<<"saved", flag[Current[2]]>>)
    /\ flag' = [flag EXCEPT ![Current[2]] = Current[3]]
    /\ Then(<<>>)
    /\ UNCHANGED <<input, builder, quiet>>

RestoreFlag ==
    /\ Do("restore")
    /\ flag' = [flag EXCEPT ![Current[2]] = locals[Len(locals)][2]]
    /\ Pop
    /\ Then(<<>>)
    /\ UNCHANGED <<input, builder, quiet>>

-----------------------------------------------------------------------------
(* The cursor and the diagnostics.                                         *)

Moved(l) == IF l[1] = "moved" THEN <<"moved", TRUE>> ELSE l

\* p_advance: nothing at EOF; a `;` or a `}` ends the quiet of recovery.
p_advance ==
    IF TokenAt(1) = "EOF" THEN UNCHANGED <<la, locals, children_count, in_recovery, lastSep>>
    ELSE /\ la' = Tail(la)
         /\ locals' = [i \in DOMAIN locals |-> Moved(locals[i])]
         /\ children_count' = children_count + 1
         /\ in_recovery' = (in_recovery /\ TokenAt(1) \notin {";", "}"})
         /\ lastSep' = (TokenAt(1) = ";")

AdvanceToken ==
    /\ Do("advance")
    /\ p_advance
    /\ Then(<<>>)
    /\ UNCHANGED <<left, alphabet, parents, flag, fix_count>>

CountSkipped ==
    /\ Do("fix")
    /\ fix_count' = fix_count + 1
    /\ Then(<<>>)
    /\ UNCHANGED <<locals, flag, in_recovery, lastSep>> /\ UNCHANGED <<input, builder>>

\* p_error records a diagnostic unless one was recorded in this unit.
ReportError ==
    /\ Do("error")
    /\ in_recovery' = TRUE
    /\ Then(<<>>)
    /\ UNCHANGED <<locals, flag, fix_count, lastSep>> /\ UNCHANGED <<input, builder>>

p_recover_auto ==
    /\ Do("recoverAuto")
    /\ Then(p_recover(compute_sync({parents[i].kind : i \in DOMAIN parents})))
    /\ UNCHANGED <<locals, flag>> /\ UNCHANGED <<input, builder, quiet>>

ParserNext ==
    \/ NextToken \/ Branch \/ Loop \/ LeaveLoop \/ CallProcedure \/ CallExpr
    \/ ExtendExpr \/ ExtendHead \/ SkipGenerics
    \/ StartNode \/ StartNodeAt \/ FinishNode
    \/ TakeCheckpoint \/ RememberPosition \/ ForgetLocal \/ SetFlag \/ RestoreFlag
    \/ AdvanceToken \/ CountSkipped \/ ReportError \/ p_recover_auto

\* The parser is one call that runs to its end.
ParserSpec == ParserInit /\ [][ParserNext]_parserVars /\ WF_parserVars(ParserNext)

-----------------------------------------------------------------------------
(* Properties.                                                             *)

\* An open node never begins before the node it stands in, nor past the
\* children there are: a checkpoint is used only in the frame it was taken in
\* (green_builder_start_node_at asserts only the second half, and a node that
\* began too early would take its parent's children with it).
FramesNest ==
    \A i \in 1 .. Len(parents) :
        /\ parents[i].first <= children_count
        /\ i > 1 => parents[i - 1].first <= parents[i].first

\* parse_file_green ends with what green_builder_finish asserts: every node
\* closed, one root; and with the stream read to its end.
ParseComplete ==
    todo = <<>> => /\ parents = <<>> /\ children_count = 1
                   /\ la = <<>> /\ left = 0

\* Every declaration is read with the flags of a fresh parse: no path through
\* a malformed type, header or argument list leaves parsing_type or
\* no_trailing_lambda behind for the rest of the file.
UnitStartsFresh ==
    (todo # <<>> /\ Current = parse_top_level_decls[1]) =>
        /\ locals = <<>>
        /\ \A f \in Flags : ~flag[f]

\* The right operand of an operator is parsed inside its node and binds
\* tighter, or as tight where the operator associates to the right.
OperandBinds ==
    \A i \in 2 .. Len(parents) :
        LET outer == parents[i - 1].op
            inner == parents[i].op
        IN  outer # "" /\ inner # "" =>
              \/ get_infix_precedence(inner) > get_infix_precedence(outer)
              \/ /\ get_infix_precedence(inner) = get_infix_precedence(outer)
                 /\ is_right_associative(inner)

\* Every token stream is parsed to its end: no loop of the grammar turns
\* without taking a token, whatever recovery left behind.
ParseEnds == <>(todo = <<>>)

\* Whatever the tokens are, the parser's builder and its flags come back to
\* where they were (parse_file_green, green_builder_finish).
ParserStaysBalanced == FramesNest /\ UnitStartsFresh /\ ParseComplete
=============================================================================
