------------------------------ MODULE MCLexer ------------------------------
(* Templates of text and up to two tags with every pair of signs, and      *)
(* sources put together from delimiters and characters in any order.       *)
EXTENDS WhitespaceControl
CONSTANT MaxPieces

Texts == {<< >>, <<"x">>, <<" ">>, <<"nl">>, <<"x", " ">>, <<"nl", " ">>, <<"nl", "nl">>, <<" ", "nl", "x">>}
Tags(kinds, opens, closes) == {t \in Tag : t.kind \in kinds /\ t.open \in opens /\ t.close \in closes}
Normal == {"block", "comment", "variable"}
OneTag ==
    {<<<<a, b>>, <<t>>>> : a \in Texts, b \in Texts, t \in Tags(Normal, Signs, Signs)}
TwoTags ==
    {<<<<<<"x">>, a, << >>>>, <<t, u>>>> : a \in Texts,
        t \in Tags(Normal, {""}, Signs), u \in Tags(Normal, Signs, {""})}
Raws ==
    {<<<<<<"nl", " ">>, a, <<"nl", "nl">>>>, <<t, u>>>> : a \in Texts \cup {<<"{", "{", "nl">>},
        t \in Tags({"raw"}, Signs, Signs), u \in Tags({"endraw"}, Signs, Signs)}

(* The symbols of the first n texts, each with the tag behind it.          *)
Symbols(n) ==
    FlattenSeq([i \in 1 .. n |-> texts[i] \o (IF i \in DOMAIN tags THEN Spelled(tags[i]) ELSE << >>)])

Pieces == {<<"{", "%">>, <<"%", "}">>, <<"{", "#">>, <<"#", "}">>, <<"-">>, <<"{">>, <<"(">>, <<")">>,
           <<"}">>, <<"x">>, <<" ", "nl">>, <<"1", ".">>, <<"'">>, <<"nl", "$">>, <<"@">>,
           <<"{", "%", "raw", "-", "%", "}">>, <<"{", "%", "endraw", "%", "}">>}
Starts == {<<"{", "{">>, <<"{", "%">>, <<"x">>, <<" ", "$">>, <<"@">>, <<"{", "#">>, <<"x", "{", "%", "raw", "%", "}">>}

Toggles == [trim_blocks : BOOLEAN, lstrip_blocks : BOOLEAN, keep_trailing_newline : BOOLEAN]
AllOn == [trim_blocks |-> TRUE, lstrip_blocks |-> TRUE, keep_trailing_newline |-> TRUE]
AllOff == [trim_blocks |-> FALSE, lstrip_blocks |-> FALSE, keep_trailing_newline |-> FALSE]

(* A template that TemplateInit allows, laid out.                          *)
MCTemplate ==
    /\ options \in Toggles
    /\ \E t \in OneTag \cup TwoTags \cup Raws : texts = t[1] /\ tags = t[2]
    /\ places = [i \in DOMAIN texts |-> 1 + Len(Symbols(i - 1))]
    /\ Template /\ Layout(Symbols(Len(texts)))
    /\ Start(Symbols(Len(texts)), "root")
NoTemplate == texts = << >> /\ tags = << >> /\ places = << >>
MCInit ==
    \/ MCTemplate
    \/ /\ options = AllOn /\ NoTemplate
       /\ \E start \in Starts, pieces \in BoundedSeq(Pieces, MaxPieces) :
              Start(start \o FlattenSeq(pieces), "root")
    \/ /\ options = AllOff /\ NoTemplate
       /\ \E pieces \in BoundedSeq(Pieces, MaxPieces) : Start(FlattenSeq(pieces), "variable_begin")
MCSpec == MCInit /\ [][TemplateNext]_<<vars, template>>
=============================================================================
