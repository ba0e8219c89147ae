------------------------------ MODULE XMLText ------------------------------
(***************************************************************************)
(* What the decoder and the encoder of XML have in common                  *)
(* (webdav/internal/xml): characters, names, tokens, and how escapeText    *)
(* writes a text.                                                          *)
(*                                                                         *)
(* A text is a sequence of characters.  A run of letters or digits that    *)
(* nothing tells apart is one character here: "prop", "x9".                *)
(***************************************************************************)
EXTENDS Integers, SequencesExt

Blanks  == {" ", "\t", "\n", "\r"}
Quotes  == {"\"", "'"}
Marks   == Blanks \cup Quotes
             \cup {"<", ">", "/", "=", "&", ";", "#", "!", "?", "[", "]"}
Seconds == {"-", ".", "1"}         \* in a name, but not at its beginning
Illegal == {"BEL", "bad UTF-8"}    \* outside isInCharacterRange
Replacement == "FFFD"

Drop(s, n) == SubSeq(s, n + 1, Len(s))

-----------------------------------------------------------------------------
(* Names and their spaces.                                                 *)
isNameByte(c) == c \notin Marks \cup Illegal
isName(s) == s # << >> /\ s[1] \notin Seconds /\ \A i \in DOMAIN s : isNameByte(s[i])

Name(space, local) == [space |-> space, local |-> local]

xmlns  == <<"xmlns">>
xmlURL == <<"http://www.w3.org/XML/1998/namespace">>
NoSpace == << >>

isNamespace(name) == name.local = xmlns \/ name.space = xmlns

-----------------------------------------------------------------------------
(* Tokens.  One that the callers drop (comment, processing instruction,    *)
(* directive) has no contents.  Errors are not told apart: every one ends  *)
(* the reading.                                                            *)
Start(name, attr) == [kind |-> "start", name |-> name, attr |-> attr]
End(name)         == [kind |-> "end", name |-> name]
CharData(data)    == [kind |-> "chars", data |-> data]
Dropped           == [kind |-> "dropped"]
EndOfInput        == [kind |-> "EOF"]
Error             == [kind |-> "error"]

Attr(name, value) == [name |-> name, value |-> value]

-----------------------------------------------------------------------------
(* escapeText and EscapeString.                                            *)
Reference(c) ==
    CASE c = "\"" -> <<"&", "#", "34", ";">>
      [] c = "'"  -> <<"&", "#", "39", ";">>
      [] c = "&"  -> <<"&", "amp", ";">>
      [] c = "<"  -> <<"&", "lt", ";">>
      [] c = ">"  -> <<"&", "gt", ";">>
      [] c = "\t" -> <<"&", "#", "x9", ";">>
      [] c = "\n" -> <<"&", "#", "xA", ";">>
      [] c = "\r" -> <<"&", "#", "xD", ";">>
      [] c \in Illegal -> <<Replacement>>
      [] OTHER    -> <<c>>

EscapeText(s) == FlattenSeq([i \in DOMAIN s |-> Reference(s[i])])

(* Character data of Encoder.EncodeToken: newlines stay.                   *)
EscapeData(s) ==
    FlattenSeq([i \in DOMAIN s |-> IF s[i] = "\n" THEN <<"\n">> ELSE Reference(s[i])])

=============================================================================
