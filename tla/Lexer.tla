------------------------------- MODULE Lexer -------------------------------
(***************************************************************************)
(* The lexer (src/lexer/lexer.c).  A source is a sequence of characters,   *)
(* one representative for each class the scanner tells apart; positions    *)
(* count from 0 as in the code, and the text ends in a NUL.  A scan is a   *)
(* function of the position it begins at that returns where it ends.       *)
(***************************************************************************)
EXTENDS Naturals, Sequences, FiniteSets, FiniteSetsExt

CONSTANTS Texts,      \* the sources that are lexed
          Spellings    \* the spellings keyword_kind knows

ASSUME TextsAssumption == Texts \subseteq Seq(STRING)

VARIABLES source, pos, tokens, line_starts

lexerVars == <<source, pos, tokens, line_starts>>

CharAt(p) == IF p < Len(source) THEN source[p + 1] ELSE "NUL"

IdStart  == {"a", "b", "e", "f", "i", "n", "o", "x", "_"}
Digits   == {"0", "1", "7", "9"}
IdCont   == IdStart \cup Digits
HexDigit == Digits \cup {"a", "b", "e", "f"}
EndsLine == {"NL", "CR", "NUL"}

\* The first position from p on that stands outside the class.
ScanWhile(p, class) == Min({q \in p .. Len(source) : CharAt(q) \notin class})

\* A dash is part of a word when the word goes on after it.
InWord(q) == CharAt(q) \in IdCont \/ (CharAt(q) = "-" /\ CharAt(q + 1) \in IdCont)
ScanWord(p) == Min({q \in p .. Len(source) : ~InWord(q)})

Span(p, q) == SubSeq(source, p + 1, q)
AfterNewline(p) == IF CharAt(p) = "CR" /\ CharAt(p + 1) = "NL" THEN p + 2 ELSE p + 1

Token(kind, end) == [kind |-> kind, end |-> end]

-----------------------------------------------------------------------------
(* The scans.                                                              *)

keyword_kind(spelling) == IF spelling \in Spellings THEN "KEYWORD" ELSE "IDENT"

lex_identifier_or_keyword(p) ==
    LET end == ScanWord(p)
    IN  Token(IF Span(p, end) = <<"_">> THEN "UNDERSCORE" ELSE keyword_kind(Span(p, end)), end)

scan_decimal_digits(p) == ScanWhile(p, Digits \cup {"_"})

\* The fraction needs a digit after its dot, the exponent one after its sign.
Fraction(p) ==
    IF CharAt(p) = "." /\ CharAt(p + 1) \in Digits THEN scan_decimal_digits(p + 1) ELSE p

Exponent(p) ==
    LET look == IF CharAt(p + 1) \in {"+", "-"} THEN p + 2 ELSE p + 1
    IN  IF CharAt(p) = "e" /\ CharAt(look) \in Digits THEN scan_decimal_digits(look) ELSE p

BaseDigits == [x |-> HexDigit, b |-> {"0", "1"}, o |-> {"0", "1", "7"}]

lex_number(p) ==
    IF CharAt(p) = "0" /\ CharAt(p + 1) \in DOMAIN BaseDigits
    THEN Token("INT_LIT", ScanWhile(p + 2, BaseDigits[CharAt(p + 1)] \cup {"_"}))
    ELSE LET int == scan_decimal_digits(p)
             end == Exponent(Fraction(int))
         IN  Token(IF end = int THEN "INT_LIT" ELSE "FLOAT_LIT", end)

\* Variant: the character after a backslash is taken without looking at it.
EscapeEndBlind(p) ==
    IF CharAt(p) # "x" \/ CharAt(p + 1) \notin HexDigit THEN p + 1
    ELSE IF CharAt(p + 2) \notin HexDigit THEN p + 2 ELSE p + 3

\* After a backslash: the named escapes and the unknown ones take one
\* character, \x up to two hex digits; the end of the text is left in place.
EscapeEnd(p) ==
    CASE CharAt(p) = "NUL" -> p
      [] CharAt(p) = "x" -> IF CharAt(p + 1) \notin HexDigit THEN p + 1
                            ELSE IF CharAt(p + 2) \notin HexDigit THEN p + 2 ELSE p + 3
      [] OTHER -> p + 1

\* Where the quoted literal that begins at p ends, and whether it is closed.
scan_quoted(p, quote) ==
    LET body[q \in p + 1 .. Len(source) + 1] ==
          CASE CharAt(q) = quote -> [closed |-> TRUE, end |-> q + 1]
            [] CharAt(q) # quote /\ CharAt(q) \in EndsLine -> [closed |-> FALSE, end |-> q]
            [] CharAt(q) = "BACKSLASH" -> body[EscapeEnd(q + 1)]
            [] OTHER -> body[q + 1]
    IN  body[p + 1]

lex_quoted(p, quote) ==
    LET scan == scan_quoted(p, quote)
    IN  Token(IF ~scan.closed THEN "LEX_ERROR"
              ELSE IF quote = "QUOTE" THEN "STRING_LIT" ELSE "BYTE_LIT", scan.end)

lex_line_comment(p) ==
    Token("COMMENT", Min({q \in p + 2 .. Len(source) : CharAt(q) \in EndsLine}))

\* Block comments nest.
lex_block_comment(p) ==
    LET At2(q) == <<CharAt(q), CharAt(q + 1)>>
        body[at \in (p + 2 .. Len(source) + 1) \X Nat] ==
          LET q     == at[1]
              depth == at[2]
          IN  CASE depth = 0 -> Token("COMMENT", q)
                [] depth > 0 /\ CharAt(q) = "NUL" -> Token("LEX_ERROR", q)
                [] depth > 0 /\ At2(q) = <<"/", "*">> -> body[<<q + 2, depth + 1>>]
                [] depth > 0 /\ At2(q) = <<"*", "/">> -> body[<<q + 2, depth - 1>>]
                [] OTHER -> body[<<q + 1, depth>>]
    IN  body[<<p + 2, 1>>]

Fence(p) == \A i \in 0 .. 2 : CharAt(p + i) = "GRAVE"

lex_asm_lit(p) ==
    LET end == Min({q \in p + 3 .. Len(source) : CharAt(q) = "NUL" \/ Fence(q)})
    IN  IF Fence(end) THEN Token("ASM_LIT", end + 3) ELSE Token("LEX_ERROR", end)

\* The operators of two characters; of three there are the ranges alone.
Pairs == {<<"+", "=">>, <<"+", "+">>, <<"-", ">">>, <<"-", "=">>, <<"-", "-">>,
          <<"*", "=">>, <<"*", "*">>, <<"=", "=">>, <<"=", ">">>, <<"<", "=">>,
          <<"<", "<">>, <<"<", "-">>, <<">", "=">>, <<">", ">">>, <<":", ":">>,
          <<":", "=">>, <<"/", "=">>, <<".", ".">>, <<"~", "=">>, <<"%", "=">>,
          <<"&", "&">>, <<"&", "=">>, <<"|", "|">>, <<"|", "=">>, <<"!", "=">>}
Singles == {Head(pair) : pair \in Pairs}
             \cup {"(", ")", "[", "]", "{", "}", ";", ",", "@", "#", "?", "^"}
RangeEnd == {".", "<", "="}

lex_operator(p) ==
    LET two == <<CharAt(p), CharAt(p + 1)>>
        range == two = <<".", ".">> /\ CharAt(p + 2) \in RangeEnd
    IN  CASE range -> Token("OP", p + 3)
          [] two \in Pairs /\ ~range -> Token("OP", p + 2)
          [] two[1] = ":" /\ two[2] \in IdStart -> Token("LABEL", ScanWord(p + 1))
          [] OTHER -> Token("OP", p + 1)

scan_one(p) ==
    LET c == CharAt(p)
    IN  CASE c \in Digits -> lex_number(p)
          [] c \in IdStart -> lex_identifier_or_keyword(p)
          [] c = " " -> Token("WHITESPACE", ScanWhile(p, {" "}))
          [] c \in {"NL", "CR"} -> Token("NEWLINE", AfterNewline(p))
          [] c \in {"QUOTE", "TICK"} -> lex_quoted(p, c)
          [] c = "GRAVE" /\ Fence(p) -> lex_asm_lit(p)
          [] c = "/" /\ CharAt(p + 1) = "/" -> lex_line_comment(p)
          [] c = "/" /\ CharAt(p + 1) = "*" -> lex_block_comment(p)
          [] c \in Singles /\ ~(c = "/" /\ CharAt(p + 1) \in {"/", "*"}) -> lex_operator(p)
          [] OTHER -> Token("LEX_ERROR", p + 1)

-----------------------------------------------------------------------------
(* The cursor.                                                             *)

\* The line starts the scan of a token records: newlines, and the ones inside
\* a block comment or an asm block, closed or not.
Multiline(p) ==
    \/ CharAt(p) \in {"NL", "CR"}
    \/ CharAt(p) = "/" /\ CharAt(p + 1) = "*"
    \/ Fence(p)

RecordedLines(p, end) ==
    IF Multiline(p)
    THEN {AfterNewline(q) : q \in {r \in p .. end - 1 :
            \/ CharAt(r) = "CR"
            \/ CharAt(r) = "NL" /\ ~(r > p /\ CharAt(r - 1) = "CR")}}
    ELSE {}

\* A byte order mark is skipped.
AfterBom == IF CharAt(0) = "BOM" THEN 1 ELSE 0

lex_begin ==
    /\ source \in Texts
    /\ pos = AfterBom
    /\ tokens = <<>>
    /\ line_starts = {pos}

lex_next ==
    /\ pos < Len(source)
    /\ LET token == scan_one(pos)
       IN  /\ tokens' = Append(tokens, [start |-> pos, kind |-> token.kind, end |-> token.end])
           /\ line_starts' = line_starts \cup RecordedLines(pos, token.end)
           /\ pos' = token.end
    /\ UNCHANGED source

LexerSpec == lex_begin /\ [][lex_next]_lexerVars

-----------------------------------------------------------------------------
(* Properties.                                                             *)

\* Lexing is lossless: the tokens stand end to end from the first character
\* (after a byte order mark, which no token holds) to the cursor, and none is
\* empty, so every scan - a broken number, an unclosed literal, a NUL inside
\* a comment - takes what it skips and moves on.
TokensTile ==
    /\ \A i \in DOMAIN tokens :
         /\ tokens[i].start = IF i = 1 THEN AfterBom ELSE tokens[i - 1].end
         /\ tokens[i].start < tokens[i].end /\ tokens[i].end <= Len(source)
    /\ tokens # <<>> => pos = tokens[Len(tokens)].end

\* line_starts holds one entry for every line break the scan has passed, a
\* CRLF counted once, wherever it stands: in a comment, in an asm block or in
\* one the end of the file left open.  (A line break in a quoted literal can
\* only follow a backslash; scan_quoted does not record that one.)
Quoted(q) ==
    \E i \in DOMAIN tokens :
        /\ q \in tokens[i].start .. tokens[i].end - 1
        /\ CharAt(tokens[i].start) \in {"QUOTE", "TICK"}

LineStartsKnown ==
    line_starts = {AfterBom} \cup
        {q \in 1 .. pos :
            /\ ~Quoted(q - 1)
            /\ \/ CharAt(q - 1) = "NL"
               \/ CharAt(q - 1) = "CR" /\ CharAt(q) # "NL"}

\* The tokens and the line starts together give back the text and every
\* position in it (lex_next).
LexingIsLossless == TokensTile /\ LineStartsKnown
=============================================================================
