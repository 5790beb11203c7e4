----------------------------- MODULE MCFrontend -----------------------------
(***************************************************************************)
(* The front end for TLC: the lexer, the layout pass, the parser and the   *)
(* walks over the tree, each on inputs of its own.  A behaviour runs one   *)
(* of the four; the others stand where they end.                           *)
(***************************************************************************)
EXTENDS Lexer, Layout, Parser, SyntaxTree

frontVars == <<lexerVars, layoutVars, parserVars, treeVars>>

UpTo(chars, n) == UNION {[1 .. k -> chars] : k \in 0 .. n}

\* Sources: words and keywords; numbers; quoted literals; comments; asm
\* blocks after a byte order mark; operators and labels.
MCSpellings == {<<"i", "f">>}
MCTexts ==
    UpTo({"a", "-", "0", "_", "i", "f"}, 3)
      \cup {<<"0">> \o t : t \in UpTo({"1", "x", "e", ".", "+"}, 4)}
      \cup {<<"0", c>> \o t : c \in {"b", "o"}, t \in UpTo({"1", "7", "9"}, 2)}
      \cup {<<"QUOTE">> \o t : t \in UpTo({"QUOTE", "BACKSLASH", "NL", "x", "0", "NUL"}, 4)}
      \cup {<<"/", "*">> \o t : t \in UpTo({"/", "*", "NL", "CR", "NUL"}, 5)}
      \cup {<<"/", "/", "a", c, "NL">> : c \in {"CR", "NUL", "NL"}}
      \cup {<<"BOM", "GRAVE", "GRAVE">> \o t : t \in UpTo({"GRAVE", "NL", "CR", " "}, 5)}
      \cup UpTo({".", "<", "=", ":", "a", "TICK"}, 3)

\* Token streams for the parser: a beginning that leads into one part of the
\* grammar and the tokens that matter there.
Stream(begin, kinds, n) == [prefix |-> begin, alphabet |-> kinds, more |-> n]
Bind  == <<"IDENT", ":=">>
Typed == <<"IDENT", ":">>
Ends  == {";", "}"}

MCSources == {
    Stream(<<>>, {"IDENT", "::", ":", ",", "pub", "LIT"} \cup Ends, 4),
    Stream(Bind, {"IDENT", "=", "||", "==", "+", "**", "-"}, 5),
    Stream(Bind, {"IDENT", "(", ")", ",", "{", "fn", "LIT"} \cup Ends, 4),
    Stream(Bind, {"LIT", "[", "]", "..<", "^", "_", ".", "IDENT", "{"}, 4),
    Stream(Typed, {"IDENT", "<", ">", "Fn", "(", ")", "const", "handler", "=", "fn"} \cup Ends, 3),
    Stream(Typed, {"distinct", "bit-field", "{", "IDENT", ":", "|", "LIT"} \cup Ends, 4),
    Stream(Bind \o <<"if", "(">>, {"IDENT", "(", ")", "{", "<", ">", "elif", "else"} \cup Ends, 3),
    Stream(Bind \o <<"loop">>, {"LABEL", "(", ")", ":", "{", "else", "IDENT"} \cup Ends, 4),
    Stream(Bind \o <<"switch", "(", "IDENT", ")">>, {"{", "=>", ",", "LIT", "..<", "return", "break"} \cup Ends, 4),
    Stream(Bind \o <<"fn", "(">>, {"IDENT", ")", ",", ":", "->", "<", "{", "comptime"} \cup Ends, 4),
    Stream(Bind \o <<"struct">>, {"{", "pub", "IDENT", ":", "struct", "=", ".", ",", "..."} \cup Ends, 4),
    Stream(Bind \o <<"enum", "{">>, {"IDENT", "=", "LIT", ",", "union"} \cup Ends, 4),
    Stream(Bind \o <<"effect">>, {"in", "{", "IDENT", "::", "ctl", "("} \cup Ends, 5),
    Stream(Bind \o <<"{", "with">>, {"IDENT", ":=", "<", ">", "override", "(", ")", ".", "{"} \cup Ends, 4),
    Stream(Bind \o <<"handle">>, {"(", ")", "IDENT", "{", "return", "<", "..", "..."} \cup Ends, 4),
    Stream(Bind, {"handler", "mask", "<", ">", "IDENT", "...", "{", "@", "(", ")"}, 4),
    Stream(Bind, {"defer", "return", "continue", "break", "LABEL", "{", "comptime", "?", "++"} \cup Ends, 3) }

\* Trees: four shapes, every choice of two kinds for the inner nodes and of
\* tokens of zero to two characters or an empty node for the leaves.
Leaves == {[node |-> FALSE, kind |-> "t", len |-> n] : n \in 0 .. 2}
            \cup {[node |-> TRUE, kind |-> "B", len |-> 0]}
Inner  == {[node |-> TRUE, kind |-> k, len |-> 0] : k \in {"A", "B"}}
Shape(in, out) == [in |-> in, out |-> out]
Shapes == {Shape({<<>>, <<1>>}, {<<2>>, <<1, 1>>, <<1, 2>>}),
           Shape({<<>>, <<2>>}, {<<1>>, <<2, 1>>, <<3>>}),
           Shape({<<>>, <<1>>, <<1, 1>>}, {<<1, 1, 1>>, <<1, 2>>}),
           Shape({<<>>, <<1>>, <<2>>}, {<<1, 1>>, <<2, 1>>, <<2, 2>>})}
MCTrees ==
    UNION {{[p \in s.in \cup s.out |-> IF p \in s.in THEN f[p] ELSE g[p]] :
               f \in [s.in -> Inner], g \in [s.out -> Leaves]} : s \in Shapes}

-----------------------------------------------------------------------------

LexerParked  == source = <<>> /\ pos = 0 /\ tokens = <<>> /\ line_starts = {0}
LayoutParked ==
    /\ frames = <<>> /\ current = Root /\ held = NoToken /\ newline_seen = FALSE
    /\ prev_kind = "done" /\ opens = <<>> /\ emitted = <<>> /\ before = "EOF"
ParserParked ==
    /\ todo = <<>> /\ locals = <<>> /\ la = <<>> /\ left = 0 /\ alphabet = {}
    /\ parents = <<>> /\ children_count = 1 /\ flag = [f \in Flags |-> FALSE]
    /\ in_recovery = FALSE /\ fix_count = 0 /\ lastSep = FALSE
TreeParked ==
    /\ tree = (<<>> :> [node |-> TRUE, kind |-> "A", len |-> 0]) /\ root = <<>>
    /\ cursor = NONE /\ descending = FALSE /\ skip_pending = FALSE
    /\ entered = {<<>>} /\ open = <<>> /\ skipped = {}

Init ==
    \/ lex_begin /\ LayoutParked /\ ParserParked /\ TreeParked
    \/ LexerParked /\ LayoutInit /\ ParserParked /\ TreeParked
    \/ LexerParked /\ LayoutParked /\ ParserInit /\ TreeParked
    \/ LexerParked /\ LayoutParked /\ ParserParked /\ syntax_preorder_init

Lexing   == lex_next /\ UNCHANGED <<layoutVars, parserVars, treeVars>>
LayingOut == LayoutNext /\ UNCHANGED <<lexerVars, parserVars, treeVars>>
Parsing  == ParserNext /\ UNCHANGED <<lexerVars, layoutVars, treeVars>>
Walking  == TreeNext /\ UNCHANGED <<lexerVars, layoutVars, parserVars>>

\* Every pass is one call that returns.
Returned ==
    /\ pos = Len(source) /\ ~Running /\ todo = <<>> /\ cursor = NONE /\ entered # {}
    /\ UNCHANGED frontVars

Next == Lexing \/ LayingOut \/ Parsing \/ Walking \/ Returned
Spec == Init /\ [][Next]_frontVars /\ WF_frontVars(Parsing)
=============================================================================
