------------------------------- MODULE Layout -------------------------------
(***************************************************************************)
(* The layout pass (src/lexer/layout.c, layout_stream): indentation        *)
(* becomes virtual braces and semicolons.  The lexer's tokens are drawn    *)
(* one at a time, each on the line of the one before it or on a new line   *)
(* at some column; the trivia between them is what puts it there.          *)
(***************************************************************************)
EXTENDS Naturals, Sequences, SequencesExt

CONSTANTS Columns,              \* the columns 1 .. Columns
          LAYOUT_MAX_FRAMES

ASSUME LayoutAssumption == Columns \in Nat /\ LAYOUT_MAX_FRAMES \in Nat

VARIABLES frames, current,      \* the stack of layout frames and its top
          held, newline_seen,   \* the token under decision; "none" before a pull
          prev_kind,
          opens, emitted, before \* the output: its open braces, what the last
                                 \* step put out, and the kind before that

layoutVars == <<frames, current, held, newline_seen, prev_kind, opens, emitted, before>>

\* One kind for each combination of tok_flags, and the kinds with rules.
StartKinds == {"STAR", "COMMA", "LBRACE", "VIRTUAL_LBRACE", "RPAREN", "RBRACE", "VIRTUAL_RBRACE"}
EndKinds   == {"STAR", "COMMA", "LBRACE", "VIRTUAL_LBRACE", "LPAREN", "PLUS"}
TokenKinds == {"IDENT", "STAR", "PLUS", "COMMA", "LPAREN", "RPAREN", "LBRACE", "RBRACE", "SEMI", "LEX_ERROR", "EOF"}

is_expr_continuation(prev, cur) == cur \in StartKinds \/ prev \in EndKinds
should_emit_semicolon(prev)     == prev \notin {"LBRACE", "VIRTUAL_LBRACE", "SEMI", "VIRTUAL_SEMI", "EOF"}
INDENT_UNRESOLVED == 0

Virtual(kind) == IF should_emit_semicolon(kind) THEN <<"VIRTUAL_SEMI">> ELSE <<>>

\* What a parser makes of one more token: the braces that stand open.
Nested(stack, kind) ==
    CASE kind \in {"LBRACE", "VIRTUAL_LBRACE"} -> Append(stack, kind)
      [] kind \in {"RBRACE", "VIRTUAL_RBRACE"} -> IF stack = <<>> THEN stack ELSE Front(stack)
      [] OTHER -> stack

\* ... and of a run of tokens: what stands open after each of them.
NestedAll(stack, kinds) ==
    LET after[i \in 0 .. Len(kinds)] ==
          IF i = 0 THEN stack ELSE Nested(after[i - 1], kinds[i])
    IN  after[Len(kinds)]

Emit(kinds) ==
    /\ emitted' = kinds
    /\ before' = IF emitted = <<>> THEN before ELSE Last(emitted)
    /\ opens' = NestedAll(opens, kinds)

Enter(frame) == frames' = Append(frames, current) /\ current' = frame
Leave ==
    IF frames = <<>> THEN UNCHANGED <<frames, current>>
    ELSE frames' = Front(frames) /\ current' = Last(frames)

Root == [indent |-> 1, kind |-> "ROOT"]
NoToken == [kind |-> "none", col |-> 0]

LayoutInit ==
    /\ frames = <<>> /\ current = Root
    /\ held = NoToken /\ newline_seen = FALSE /\ prev_kind = "EOF"
    /\ opens = <<>> /\ emitted = <<>> /\ before = "EOF"

-----------------------------------------------------------------------------
(* Pulling a token, with the trivia before it.                             *)

Running == prev_kind # "done"

\* The source nests no deeper than the frames the code asserts there is room
\* for (one token opens two at most).  Columns on one line grow; the column a
\* token was last seen at is kept in NoToken's place between two pulls.
Pull ==
    /\ Running /\ held.kind = "none"
    /\ \E kind \in TokenKinds, fresh \in BOOLEAN, col \in 1 .. Columns :
         /\ fresh \/ col > held.col
         /\ kind \in {"RBRACE", "EOF"} \/ Len(frames) + 2 <= LAYOUT_MAX_FRAMES
         /\ held' = [kind |-> kind, col |-> col]
         /\ newline_seen' = (newline_seen \/ fresh)
         /\ current' = IF current.kind = "EXPLICIT" /\ current.indent = INDENT_UNRESOLVED
                       THEN [current EXCEPT !.indent = col] ELSE current
    /\ Emit(<<>>)
    /\ UNCHANGED <<frames, prev_kind>>

Deciding == held.kind \notin {"none", "EOF", "LEX_ERROR"}
Deeper   == newline_seen /\ held.col > current.indent
              /\ ~is_expr_continuation(prev_kind, held.kind)
Shallower == newline_seen /\ held.col < current.indent
              /\ ~(held.kind = "RBRACE" /\ current.kind = "EXPLICIT")

\* The held token goes out after `virtuals` and is done with.
EmitReal(virtuals) ==
    /\ Emit(Append(virtuals, held.kind))
    /\ prev_kind' = held.kind
    /\ newline_seen' = FALSE
    /\ held' = [kind |-> "none", col |-> held.col]

-----------------------------------------------------------------------------
(* The rules, in the order the loop tries them.                            *)

\* (1) A deeper line opens a block.
OpenBlock ==
    /\ Deciding /\ Deeper
    /\ Enter([indent |-> held.col, kind |-> "LAYOUT"])
    /\ Emit(<<"VIRTUAL_LBRACE">>)
    /\ prev_kind' = "VIRTUAL_LBRACE" /\ newline_seen' = FALSE
    /\ UNCHANGED held

\* (2) A shallower line closes one and is looked at again.
CloseBlock ==
    /\ Deciding /\ Shallower
    /\ Emit(Append(Virtual(prev_kind), "VIRTUAL_RBRACE"))
    /\ Leave
    /\ prev_kind' = "VIRTUAL_RBRACE"
    /\ UNCHANGED <<held, newline_seen>>

\* (3) An explicit brace opens a frame whose column its first token sets.
OpenBrace ==
    /\ Deciding /\ ~Deeper /\ ~Shallower /\ held.kind = "LBRACE"
    /\ Enter([indent |-> INDENT_UNRESOLVED, kind |-> "EXPLICIT"])
    /\ EmitReal(<<>>)

\* Variant: of the blocks opened inside, only the innermost is closed.
CloseBraceOnce ==
    /\ Deciding /\ ~Deeper /\ ~Shallower /\ held.kind = "RBRACE"
    /\ LET all   == Append(frames, current)
           depth == CHOOSE d \in DOMAIN all :
                        /\ all[d].kind # "LAYOUT"
                        /\ \A e \in d + 1 .. Len(all) : all[e].kind = "LAYOUT"
           closers == IF depth < Len(all) THEN <<"VIRTUAL_RBRACE">> ELSE <<>>
       IN  /\ EmitReal(closers \o Virtual(prev_kind))
           /\ frames' = SubSeq(all, 1, IF depth = 1 THEN 0 ELSE depth - 2)
           /\ current' = all[IF depth = 1 THEN 1 ELSE depth - 1]

\* (4) A closing brace first closes the blocks opened inside its own.
CloseBrace ==
    /\ Deciding /\ ~Deeper /\ ~Shallower /\ held.kind = "RBRACE"
    /\ LET all   == Append(frames, current)
           depth == CHOOSE d \in DOMAIN all :
                        /\ all[d].kind # "LAYOUT"
                        /\ \A e \in d + 1 .. Len(all) : all[e].kind = "LAYOUT"
           closers == [i \in 1 .. Len(all) - depth |-> "VIRTUAL_RBRACE"]
       IN  /\ EmitReal(closers \o Virtual(prev_kind))
           /\ frames' = SubSeq(all, 1, IF depth = 1 THEN 0 ELSE depth - 2)
           /\ current' = all[IF depth = 1 THEN 1 ELSE depth - 1]

\* (5) A line at the same column is a new statement, unless it continues one.
Sibling ==
    /\ Deciding /\ ~Deeper /\ ~Shallower /\ held.kind \notin {"LBRACE", "RBRACE"}
    /\ newline_seen /\ held.col = current.indent
    /\ ~is_expr_continuation(prev_kind, held.kind)
    /\ EmitReal(Virtual(prev_kind))
    /\ UNCHANGED <<frames, current>>

\* (6) Everything else goes through.
PassThrough ==
    /\ Deciding /\ ~Deeper /\ ~Shallower /\ held.kind \notin {"LBRACE", "RBRACE"}
    /\ ~(newline_seen /\ held.col = current.indent
           /\ ~is_expr_continuation(prev_kind, held.kind))
    /\ EmitReal(<<>>)
    /\ UNCHANGED <<frames, current>>

\* A lex error goes through and takes the line break with it.
PassError ==
    /\ held.kind = "LEX_ERROR"
    /\ EmitReal(<<>>)
    /\ UNCHANGED <<frames, current>>

\* The end of the file closes every frame, the explicit ones too.
EndOfFile ==
    /\ held.kind = "EOF"
    /\ Emit(Virtual(prev_kind)
              \o [i \in 1 .. 2 * Len(frames) |-> IF i % 2 = 1 THEN "VIRTUAL_RBRACE" ELSE "VIRTUAL_SEMI"]
              \o <<"EOF">>)
    /\ frames' = <<>>
    /\ current' = IF frames = <<>> THEN current ELSE Head(frames)
    /\ prev_kind' = "done" /\ newline_seen' = FALSE
    /\ held' = NoToken

LayoutNext ==
    \/ Pull \/ OpenBlock \/ CloseBlock \/ OpenBrace \/ CloseBrace
    \/ Sibling \/ PassThrough \/ PassError \/ EndOfFile

LayoutSpec == LayoutInit /\ [][LayoutNext]_layoutVars

-----------------------------------------------------------------------------
(* Properties.                                                             *)

\* The output nests as the frames do: what a parser sees open is exactly the
\* stack of frames, each opened by a brace of its own sort, whatever
\* combination of dedents, stray braces and lex errors came before; at the
\* end of the file nothing is open.
BlocksMirrorFrames ==
    /\ Len(opens) = Len(frames)
    /\ \A i \in DOMAIN opens :
         Append(frames, current)[i + 1].kind = IF opens[i] = "VIRTUAL_LBRACE" THEN "LAYOUT" ELSE "EXPLICIT"
    /\ prev_kind = "done" => opens = <<>>

\* No virtual semicolon makes an empty statement: none stands at the start of
\* a block or of the file, or after another semicolon.
NoEmptyStatement ==
    LET tail == IF emitted = <<>> THEN <<before>> ELSE <<before>> \o emitted
    IN  \A i \in 2 .. Len(tail) : tail[i] = "VIRTUAL_SEMI" => should_emit_semicolon(tail[i - 1])

\* What the layout pass puts out is a well-nested text (layout_stream).
LayoutBalances == BlocksMirrorFrames /\ NoEmptyStatement
=============================================================================
