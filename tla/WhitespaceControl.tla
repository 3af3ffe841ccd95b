------------------------- MODULE WhitespaceControl -------------------------
(* What the documentation promises of the whitespace around tags           *)
(* (docs/templates.rst, "Whitespace Control"), said of a template that is  *)
(* given as text, tag, text, ... and never of characters being scanned.    *)
EXTENDS Lexer

VARIABLES texts,   \* the texts of the template, none when the source is no such template
          tags,    \* and the tags between them: tag i is behind text i
          places   \* where each text starts in the source
template == <<texts, tags, places>>

(* Start and end delimiter of a tag, and what is between its signs.        *)
Delimiters(kind) ==
    CASE kind = "variable" -> [open |-> variable_start_string, close |-> variable_end_string, name |-> <<" ", "x", " ">>]
      [] kind = "comment"  -> [open |-> comment_start_string, close |-> comment_end_string, name |-> <<" ", "nl">>]
      [] kind = "block"    -> [open |-> block_start_string, close |-> block_end_string, name |-> <<"x">>]
      [] kind = "raw"      -> [open |-> block_start_string, close |-> block_end_string, name |-> <<" ", "raw">>]
      [] kind = "endraw"   -> [open |-> block_start_string, close |-> block_end_string, name |-> <<"endraw", " ">>]
Sign(s) == IF s = "" THEN << >> ELSE <<s>>
Spelled(tag) ==
    LET d == Delimiters(tag.kind)
    IN  d.open \o Sign(tag.open) \o d.name \o Sign(tag.close) \o d.close

(* "+" ends only a tag that trim_blocks is about.                          *)
Signs == {"", "-", "+"}
Tag == [kind : {"block", "comment", "endraw"}, open : Signs, close : Signs]
       \cup [kind : {"variable", "raw"}, open : Signs, close : {"", "-"}]
NoTag == [kind |-> "none", open |-> "", close |-> ""]
TagAt(i) == IF i \in DOMAIN tags THEN tags[i] ELSE NoTag

(* Outside of raw blocks a text has no character a directive could start   *)
(* with, and inside one it only has no start of a block.                   *)
Character == STRING \ {None}
Plain(text) == \A i \in DOMAIN text : text[i] \notin {"{", "$", "@"}
Raw(text) == \A i \in 1 .. Len(text) - 1 : <<text[i], text[i + 1]>> # block_start_string
Template ==
    /\ texts \in Seq(Seq(Character)) /\ tags \in Seq(Tag)
    /\ Len(texts) = Len(tags) + 1
    /\ \A i \in 1 .. Len(texts) :
           /\ IF TagAt(i - 1).kind = "raw" THEN Raw(texts[i]) ELSE Plain(texts[i])
           /\ TagAt(i).kind = "endraw" <=> TagAt(i - 1).kind = "raw"

(* The place of the tag behind text i; a source laid out as the template.  *)
TagPlace(i) == places[i] + Len(texts[i])
Layout(symbols) ==
    /\ places \in Seq(Nat \ {0}) /\ Len(places) = Len(texts) /\ places[1] = 1
    /\ \A i \in 1 .. Len(texts) : SubSeq(symbols, places[i], TagPlace(i) - 1) = texts[i]
    /\ \A i \in 1 .. Len(tags) :
           /\ places[i + 1] = TagPlace(i) + Len(Spelled(tags[i]))
           /\ SubSeq(symbols, TagPlace(i), places[i + 1] - 1) = Spelled(tags[i])
    /\ Len(symbols) = TagPlace(Len(texts)) - 1

TemplateInit ==
    /\ options \in [trim_blocks : BOOLEAN, lstrip_blocks : BOOLEAN, keep_trailing_newline : BOOLEAN]
    /\ Template
    /\ \E symbols \in Seq(Character) : Layout(symbols) /\ Start(symbols, "root")
TemplateNext == Next /\ UNCHANGED template
TemplateSpec == TemplateInit /\ [][TemplateNext]_<<vars, template>>

-----------------------------------------------------------------------------
lstrip(s, C) == LET keep == {i \in 1 .. Len(s) : s[i] \notin C}
                IN  SubSeq(s, Min(keep \cup {Len(s) + 1}), Len(s))

(* A minus sign takes all whitespace on its side. Otherwise trim_blocks    *)
(* takes the first newline behind a block or comment (not behind the       *)
(* opening of a raw block), and lstrip_blocks the blanks between the start *)
(* of a line and a block or comment; a plus sign switches either off.      *)
Controlled(i) ==
    LET text == IF i = Len(texts) THEN Lines(texts[i]) ELSE texts[i]
        before == TagAt(i - 1)
        after == TagAt(i)
        blanks == rstrip(text, Blank)
        trimmed ==
            IF before.close = "-" THEN lstrip(text, Space)
            ELSE IF /\ options.trim_blocks /\ before.close # "+"
                    /\ before.kind \in {"block", "comment", "endraw"}
                    /\ text # << >> /\ Head(text) = "nl"
                 THEN Tail(text) ELSE text
    IN  IF after.open = "-" THEN rstrip(trimmed, Space)
        ELSE IF /\ options.lstrip_blocks /\ after.open # "+"
                /\ after.kind \in {"block", "comment", "raw", "endraw"}
                /\ IF blanks = << >> THEN i = 1 ELSE Last(blanks) = "nl"
             THEN rstrip(trimmed, Blank) ELSE trimmed

(* The data tokens of a template are its texts under whitespace control,   *)
(* for every combination of signs and options: each is what is left of one *)
(* text, no text has two, and at the end none that is left has no token.   *)
DataOf(i) == {k \in DOMAIN tokens : tokens[k].kind = "data" /\ tokens[k].at \in places[i] .. TagPlace(i) - 1}
DataControlled ==
    texts # << >> =>
        /\ error = None
        /\ \A k \in DOMAIN tokens : tokens[k].kind = "data" => \E i \in DOMAIN texts : k \in DataOf(i)
        /\ \A i \in DOMAIN texts :
               /\ \A j, k \in DataOf(i) : j = k /\ tokens[k].text = Controlled(i)
               /\ Finished /\ Controlled(i) # << >> => DataOf(i) # {}
=============================================================================
