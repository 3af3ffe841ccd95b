------------------------------- MODULE Lexer -------------------------------
(* Lexer.tokeniter of lexer.py: one action per lexing rule, one step per   *)
(* match. A character is a symbol; "nl" is a newline, " " any blank that   *)
(* is not one, "x" a letter, "1" a digit, and the words raw and endraw are *)
(* one symbol each. "$" is the line statement prefix and "@" the line      *)
(* comment prefix; the other delimiters are the default ones.              *)
EXTENDS Integers, SequencesExt

VARIABLES options,  \* the environment's trim_blocks, lstrip_blocks, keep_trailing_newline
          source, pos, lineno, stack, balancing_stack, line_starting,
          tokens,   \* what has been yielded: kind, text, lineno and its place
          error     \* the message of the TemplateSyntaxError, if any
vars == <<options, source, pos, lineno, stack, balancing_stack, line_starting, tokens, error>>

None == "none"  \* no character, no sign, no error
Blank == {" "}
Space == Blank \cup {"nl"}
Letters == {"x", "raw", "endraw", "1"}
Operators == {"{", "}", "(", ")", "-", "+", "%", "."}
NewLines(s) == Cardinality({i \in DOMAIN s : s[i] = "nl"})
First(places) == IF places = {} THEN 0 ELSE Min(places)

(* The place behind the longest run of characters of C that starts at p.   *)
After(p, C) ==
    IF p > Len(source) THEN p
    ELSE Min({q \in p .. Len(source) + 1 : q > Len(source) \/ source[q] \notin C})

Char(p) == IF p \in 1 .. Len(source) THEN source[p] ELSE None
Has(p, literal) == \A i \in 1 .. Len(literal) : Char(p + i - 1) = literal[i]
LineStart(p) == p = 1 \/ Char(p - 1) = "nl"

block_start_string    == <<"{", "%">>
block_end_string      == <<"%", "}">>
variable_start_string == <<"{", "{">>
variable_end_string   == <<"}", "}">>
comment_start_string  == <<"{", "#">>
comment_end_string    == <<"#", "}">>

(* The place behind an end delimiter at p, 0 when there is none: "-" also  *)
(* takes the space behind it, "+" switches trim_blocks off.                *)
AfterEnd(p, delimiter, plus, trim) ==
    CASE plus /\ Has(p, <<"+">> \o delimiter) -> p + 3
      [] Has(p, <<"-">> \o delimiter) -> After(p + 3, Space)
      [] Has(p, delimiter) -> p + (IF trim /\ Char(p + 2) = "nl" THEN 3 ELSE 2)
      [] OTHER -> 0

BlockEndAt(p) == AfterEnd(p, block_end_string, TRUE, options.trim_blocks)
CommentEndAt(p) == AfterEnd(p, comment_end_string, TRUE, options.trim_blocks)
VariableEndAt(p) == AfterEnd(p, variable_end_string, FALSE, FALSE)

SignAt(p) == IF Char(p) \in {"-", "+"} THEN Char(p) ELSE None
AfterSign(p) == IF SignAt(p) = None THEN p ELSE p + 1

(* A raw block is opened by "-" or nothing before the end delimiter, and   *)
(* trim_blocks does not apply to it.                                       *)
RawBeginAt(p) ==
    LET word == After(AfterSign(p + 2), Space)
    IN  IF Has(p, block_start_string) /\ Char(word) = "raw"
        THEN AfterEnd(After(word + 1, Space), block_end_string, FALSE, FALSE)
        ELSE 0

RawEndAt(p) ==
    LET word == After(AfterSign(p + 2), Space)
    IN  IF Has(p, block_start_string) /\ Char(word) = "endraw"
        THEN BlockEndAt(After(word + 1, Space))
        ELSE 0

(* compile_rules: the directives that start at p, with their length. A raw *)
(* block is tried before a block.                                          *)
compile_rules(p) ==
    LET prefix == After(p, Blank)
        tag(kind, start) == [kind |-> kind, sign |-> SignAt(start), end |-> AfterSign(start)]
    IN  CASE RawBeginAt(p) # 0 -> <<[tag("raw_begin", p + 2) EXCEPT !.end = RawBeginAt(p)]>>
          [] Has(p, block_start_string) /\ RawBeginAt(p) = 0 -> <<tag("block_begin", p + 2)>>
          [] Has(p, variable_start_string) -> <<tag("variable_begin", p + 2)>>
          [] Has(p, comment_start_string) -> <<tag("comment_begin", p + 2)>>
          [] LineStart(p) /\ Char(prefix) = "$" -> <<tag("linestatement_begin", prefix + 1)>>
          [] (LineStart(p) \/ Char(p - 1) \notin Space) /\ Char(prefix) = "@" ->
                 <<tag("linecomment_begin", prefix + 1)>>
          [] OTHER -> << >>

(* OptionalLStrip: the text before a tag, stripped as the tag's sign and   *)
(* lstrip_blocks ask for.                                                  *)
rstrip(s, C) == LET keep == {i \in 1 .. Len(s) : s[i] \notin C}
                IN  SubSeq(s, 1, Max(keep \cup {0}))
OptionalLStripPast(text, sign, variable) ==  \* mutated: not only blanks are stripped
    IF sign = "-" THEN rstrip(text, Space)
    ELSE IF sign # "+" /\ options.lstrip_blocks /\ ~variable /\ Contains(text, "nl")
         THEN SubSeq(text, 1, SelectLastInSeq(text, LAMBDA c : c = "nl")) ELSE text
OptionalLStripMidLine(text, sign, variable) ==  \* mutated: line_starting is not looked at
    LET stripped == rstrip(text, Blank)
    IN  IF sign = "-" THEN rstrip(text, Space)
        ELSE IF /\ sign # "+" /\ options.lstrip_blocks /\ ~variable
                /\ stripped = << >> \/ Last(stripped) = "nl"
             THEN stripped ELSE text
OptionalLStrip(text, sign, variable) ==
    LET stripped == rstrip(text, Blank)
    IN  IF sign = "-" THEN rstrip(text, Space)
        ELSE IF /\ sign # "+" /\ options.lstrip_blocks /\ ~variable
                /\ IF stripped = << >> THEN line_starting ELSE Last(stripped) = "nl"
             THEN stripped ELSE text

ignore_if_empty == {"whitespace", "data", "comment", "linecomment"}

(* A group of a match: what is yielded of source[from .. to - 1], and the  *)
(* newlines that are counted though they are not yielded.                  *)
Group(kind, from, to) ==
    [kind |-> kind, text |-> SubSeq(source, from, to - 1), at |-> from, newlines_stripped |-> 0]
DataBeforeUncounted(p, sign, variable) ==  \* mutated: stripped newlines are not counted
    [Group("data", pos, p) EXCEPT !.text = OptionalLStrip(@, sign, variable)]
DataBefore(p, sign, variable) ==
    LET text == SubSeq(source, pos, p - 1)
        data == OptionalLStrip(text, sign, variable)
    IN  [Group("data", pos, p) EXCEPT !.text = data,
            !.newlines_stripped = IF sign = "-" THEN NewLines(text) - NewLines(data) ELSE 0]

Nothing == Group("data", pos, pos)

(* What is yielded of a group on a line, and the lines it takes.           *)
Yield(group, line) ==
    IF group.text = << >> /\ group.kind \in ignore_if_empty THEN << >>
    ELSE <<[kind |-> group.kind, text |-> group.text, at |-> group.at, lineno |-> line]>>
LinesIn(group) == NewLines(group.text) + group.newlines_stripped

(* A match that ends before end: yields two groups, the first of which may *)
(* be Nothing, and goes on behind it in the lexing states given.           *)
Match(end, first, second, states) ==
    /\ error = None /\ stack # << >>
    /\ tokens' = tokens \o Yield(first, lineno) \o Yield(second, lineno + LinesIn(first))
    /\ lineno' = lineno + LinesIn(first) + LinesIn(second)
    /\ line_starting' = (end > pos /\ source[end - 1] = "nl")
    /\ pos' = end
    /\ stack' = states
    /\ UNCHANGED <<options, source, error>>

Pop == Front(stack)
Fail(message) ==
    /\ error = None /\ stack # << >>
    /\ error' = message
    /\ UNCHANGED <<options, source, pos, lineno, stack, balancing_stack, line_starting, tokens>>
In(state) == stack # << >> /\ Last(stack) = state
Ahead == pos .. Len(source)

-----------------------------------------------------------------------------
(* The root state: text up to the next directive, or the rest of it.       *)
directive == First({p \in Ahead : compile_rules(p) # << >>})

Directive ==
    /\ In("root") /\ directive # 0
    /\ LET tag == Head(compile_rules(directive))
       IN  Match(tag.end,
                 DataBefore(directive, tag.sign, tag.kind = "variable_begin"),
                 Group(tag.kind, directive, tag.end),
                 Append(stack, tag.kind))
    /\ UNCHANGED balancing_stack

Data ==
    /\ In("root") /\ directive = 0 /\ pos <= Len(source)
    /\ Match(Len(source) + 1, Nothing, Group("data", pos, Len(source) + 1), stack)
    /\ UNCHANGED balancing_stack

(* Comments and raw blocks run to their end tag, wherever it is; when      *)
(* there is none the next character is the error, so that one opened by    *)
(* the last characters of the source is not.                               *)
CommentEnd ==
    /\ In("comment_begin")
    /\ LET p == First({q \in Ahead : CommentEndAt(q) # 0})
       IN  /\ p # 0
           /\ Match(CommentEndAt(p),
                    Group("comment", pos, p), Group("comment_end", p, CommentEndAt(p)), Pop)
    /\ UNCHANGED balancing_stack

CommentMissingEnd ==
    /\ In("comment_begin") /\ pos <= Len(source)
    /\ First({q \in Ahead : CommentEndAt(q) # 0}) = 0
    /\ Fail("Missing end of comment tag")

RawEnd ==
    /\ In("raw_begin")
    /\ LET p == First({q \in Ahead : RawEndAt(q) # 0})
       IN  /\ p # 0
           /\ Match(RawEndAt(p),
                    DataBefore(p, SignAt(p + 2), FALSE), Group("raw_end", p, RawEndAt(p)), Pop)
    /\ UNCHANGED balancing_stack

RawMissingEnd ==
    /\ In("raw_begin") /\ pos <= Len(source)
    /\ First({q \in Ahead : RawEndAt(q) # 0}) = 0
    /\ Fail("Missing end of raw directive")

LineCommentEnd ==
    /\ In("linecomment_begin")
    /\ LET end == Min({q \in pos .. Len(source) + 1 : Char(q) \in {"nl", None}})
       IN  Match(end, Group("linecomment", pos, end), Group("linecomment_end", end, end), Pop)
    /\ UNCHANGED balancing_stack

-----------------------------------------------------------------------------
(* Inside a tag. The end of a line statement takes the blank lines behind  *)
(* it. An end delimiter is only one when the brackets are balanced.        *)
LineStatementEndAt(p) ==
    LET space == After(p, Space)
        newlines == {q \in p .. space - 1 : source[q] = "nl"}
    IN  IF space > Len(source) THEN space
        ELSE IF newlines = {} THEN 0
        ELSE Max(newlines) + 1

EndAt(p) == IF In("block_begin") THEN BlockEndAt(p)
            ELSE IF In("variable_begin") THEN VariableEndAt(p)
            ELSE LineStatementEndAt(p)
EndKind == IF In("block_begin") THEN "block_end"
           ELSE IF In("variable_begin") THEN "variable_end" ELSE "linestatement_end"
InTag == In("block_begin") \/ In("variable_begin") \/ In("linestatement_begin")
AtEndUnbalanced == EndAt(pos) # 0  \* mutated: also inside brackets
AtEnd == EndAt(pos) # 0 /\ balancing_stack = << >>

TagEnd ==
    /\ InTag /\ AtEnd
    /\ Match(EndAt(pos), Nothing, Group(EndKind, pos, EndAt(pos)), Pop)
    /\ UNCHANGED balancing_stack

(* The rules for whitespace, numbers, names and strings, in their order: a *)
(* number after a dot is no float.                                         *)
Lexeme(p) ==
    LET digits == After(p, {"1"})
        fraction == After(digits + 1, {"1"})
        quote == {q \in p + 1 .. Len(source) : source[q] = "'"}
        lexeme(kind, end) == <<[kind |-> kind, end |-> end]>>
    IN  CASE Char(p) \in Space -> lexeme("whitespace", After(p, Space))
          [] Char(p) = "1" ->
                IF Char(p - 1) # "." /\ Char(digits) = "." /\ fraction > digits + 1
                THEN lexeme("float", fraction) ELSE lexeme("integer", digits)
          [] Char(p) \in Letters \ {"1"} -> lexeme("name", After(p, Letters))
          [] Char(p) = "'" /\ quote # {} ->
                lexeme("string", 1 + Min(quote))
          [] OTHER -> << >>

Simple ==
    /\ InTag /\ ~AtEnd /\ Lexeme(pos) # << >>
    /\ LET lexeme == Head(Lexeme(pos))
       IN  Match(lexeme.end, Nothing, Group(lexeme.kind, pos, lexeme.end), stack)
    /\ UNCHANGED balancing_stack

Expected == IF balancing_stack = << >> THEN None ELSE Last(balancing_stack)
Closing(c) == IF c = "{" THEN "}" ELSE ")"
Operator ==
    /\ InTag /\ ~AtEnd /\ Char(pos) \in Operators
    /\ \/ /\ Char(pos) \in {"{", "("}
          /\ balancing_stack' = Append(balancing_stack, Closing(Char(pos)))
       \/ /\ Char(pos) \in {"}", ")"} /\ Expected = Char(pos)
          /\ balancing_stack' = Front(balancing_stack)
       \/ /\ Char(pos) \notin {"{", "(", "}", ")"}
          /\ UNCHANGED balancing_stack
    /\ Match(pos + 1, Nothing, Group("operator", pos, pos + 1), stack)

Unbalanced ==
    /\ InTag /\ ~AtEnd /\ Char(pos) \in {"}", ")"}
    /\ Expected # Char(pos)
    /\ Fail(IF Expected = None THEN "unexpected" ELSE "expected")

UnexpectedChar ==
    /\ InTag /\ ~AtEnd /\ pos <= Len(source)
    /\ Lexeme(pos) = << >> /\ Char(pos) \notin Operators
    /\ Fail("unexpected char")

(* The end of the text is reached in any state.                            *)
Finished == error = None /\ pos > Len(source) /\ ~In("linecomment_begin") /\ ~(InTag /\ AtEnd)

-----------------------------------------------------------------------------
(* The source as tokeniter takes it: one newline at its end is dropped     *)
(* unless keep_trailing_newline says otherwise.                            *)
Lines(s) == IF ~options.keep_trailing_newline /\ s # << >> /\ Last(s) = "nl" THEN Front(s) ELSE s

Start(template, state) ==
    /\ source = Lines(template)
    /\ pos = 1 /\ lineno = 1
    /\ stack = IF state = "root" THEN <<"root">> ELSE <<"root", state>>
    /\ balancing_stack = << >> /\ line_starting = TRUE
    /\ tokens = << >> /\ error = None

Next ==
    \/ Directive \/ Data \/ CommentEnd \/ CommentMissingEnd \/ RawEnd \/ RawMissingEnd
    \/ LineCommentEnd \/ TagEnd \/ Simple \/ Operator \/ Unbalanced \/ UnexpectedChar

(* Every source, from each of the states tokeniter can be started in.      *)
Init ==
    /\ options \in [trim_blocks : BOOLEAN, lstrip_blocks : BOOLEAN, keep_trailing_newline : BOOLEAN]
    /\ \E symbols \in Seq(STRING \ {None}), state \in {"root", "variable_begin", "block_begin"} :
           Start(symbols, state)
Spec == Init /\ [][Next]_vars

(* What wrap passes on to the parser.                                      *)
ignored_tokens == {"comment_begin", "comment", "comment_end", "whitespace",
                   "linecomment_begin", "linecomment_end", "linecomment", "raw_begin", "raw_end"}
wrap == SelectSeq(tokens, LAMBDA t : t.kind \notin ignored_tokens)

-----------------------------------------------------------------------------
TypeOK ==
    /\ pos \in 1 .. Len(source) + 1 /\ lineno \in Nat
    /\ stack # << >> /\ Len(stack) <= 2 /\ Head(stack) = "root"
    /\ balancing_stack # << >> => InTag
    /\ error \in {None, "Missing end of comment tag", "Missing end of raw directive",
                  "unexpected", "expected", "unexpected char"}

(* Every token, and every error, carries the line it starts on, whatever   *)
(* was stripped before it (tokeniter's lineno and newlines_stripped).      *)
LinesTrue ==
    /\ \A i \in DOMAIN tokens :
           tokens[i].lineno = 1 + NewLines(SubSeq(source, 1, tokens[i].at - 1))
    /\ lineno = 1 + NewLines(SubSeq(source, 1, pos - 1))

(* The tokens are the source in order: what is in none of them is blank,   *)
(* so stripping never takes a character of the template.                   *)
OnlyBlanksLost ==
    LET upto(i) == IF i = Len(tokens) THEN pos ELSE tokens[i + 1].at
        behind(i) == IF i = 0 THEN 1 ELSE tokens[i].at + Len(tokens[i].text)
    IN  /\ \A i \in 0 .. Len(tokens) : \A p \in behind(i) .. upto(i) - 1 : source[p] \in Space
        /\ \A i \in DOMAIN tokens :
               SubSeq(source, tokens[i].at, behind(i) - 1) = tokens[i].text
=============================================================================
