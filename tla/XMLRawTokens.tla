--------------------------- MODULE XMLRawTokens ---------------------------
(***************************************************************************)
(* What Decoder.rawToken reads (webdav/internal/xml/xml.go): the token at  *)
(* the beginning of a text, and the rest of the text.                      *)
(***************************************************************************)
EXTENDS XMLText

Entity == [lt |-> "<", gt |-> ">", amp |-> "&", apos |-> "'", quot |-> "\""]
CharRef == ("34" :> "\"") @@ ("39" :> "'") @@ ("x9" :> "\t")
             @@ ("xA" :> "\n") @@ ("xD" :> "\r")

At(s, i)   == IF i \in 1..Len(s) THEN s[i] ELSE ""
First(I)   == IF I = {} THEN 0 ELSE Min(I)
FirstIn(s, chars) == First({i \in DOMAIN s : s[i] \in chars})
FirstAt(s, part)  == First({i \in 1..(Len(s) - Len(part) + 1) :
                               SubSeq(s, i, i + Len(part) - 1) = part})

Bad     == [ok |-> FALSE]
Got(v, rest) == [ok |-> TRUE, val |-> v, rest |-> rest]

Space(s) == Drop(s, Min({i \in DOMAIN s : s[i] \notin Blanks} \cup {Len(s) + 1}) - 1)

-----------------------------------------------------------------------------
(* A name ends with a character that cannot be in one: at the end of the   *)
(* input it is an error.                                                   *)
readName(s) ==
    LET Cut(n) == IF n <= 1 THEN Bad ELSE Got(SubSeq(s, 1, n - 1), Drop(s, n - 1))
    IN  Cut(First({i \in DOMAIN s : ~isNameByte(s[i])}))

nsname(s) ==
    LET Split(name, i) == Name(SubSeq(name, 1, i - 1), Drop(name, i))
        Checked(r) == IF ~r.ok \/ ~isName(r.val) THEN Bad
                      ELSE Got(Split(r.val, FirstIn(r.val, {":"})), r.rest)
    IN  Checked(readName(s))

-----------------------------------------------------------------------------
(* Character data: entities are replaced, and "\r" and "\r\n" become "\n". *)
RECURSIVE Unescaped(_, _)
Unescaped(raw, cdata) ==
    LET Added(c, r) == IF r.ok THEN Got(<<c>> \o r.val, << >>) ELSE Bad
        Take(n, c)  == Added(c, Unescaped(Drop(raw, n), cdata))
        c == At(raw, 1)
    IN  CASE raw = << >> -> Got(<< >>, << >>)
          [] c = "&" /\ ~cdata ->
               IF At(raw, 2) \in DOMAIN Entity /\ At(raw, 3) = ";"
               THEN Take(3, Entity[raw[2]])
               ELSE IF At(raw, 2) = "#" /\ At(raw, 3) \in DOMAIN CharRef /\ At(raw, 4) = ";"
               THEN Take(4, CharRef[raw[3]])
               ELSE Bad
          [] c = "\r" -> Take(IF At(raw, 2) = "\n" THEN 2 ELSE 1, "\n")
          [] OTHER -> IF c \in Illegal THEN Bad ELSE Take(1, c)

Section(raw, rest, cdata) ==
    LET Before(r) == IF r.ok THEN Got(r.val, rest) ELSE Bad IN Before(Unescaped(raw, cdata))

CDATAEnd == <<"]", "]", ">">>

text(s) ==
    LET Cut(n) == IF FirstAt(SubSeq(s, 1, n), CDATAEnd) # 0 THEN Bad
                  ELSE Section(SubSeq(s, 1, n), Drop(s, n), FALSE)
    IN  Cut(Min({i \in DOMAIN s : s[i] = "<"} \cup {Len(s) + 1}) - 1)

cdata(s) ==
    LET Cut(n) == IF n = 0 THEN Bad ELSE Section(SubSeq(s, 1, n - 1), Drop(s, n + 2), TRUE)
    IN  Cut(FirstAt(s, CDATAEnd))

attrval(s) ==
    LET Cut(n, raw) ==
            IF At(s, 1) \notin Quotes \/ n = 0 \/ At(s, n + 1) = "<" \/ FirstAt(raw, CDATAEnd) # 0
            THEN Bad ELSE Section(raw, Drop(s, n + 1), FALSE)
        Within(n) == Cut(n, SubSeq(s, 2, n))
    IN  Within(FirstIn(Drop(s, 1), {"<", At(s, 1)}))

-----------------------------------------------------------------------------
(* "shut" tells that a start tag is also its end: <a/>.                    *)
AfterName(s)   == IF At(s, 1) = "=" THEN attrval(Space(Drop(s, 1))) ELSE Bad
Valued(n, v)   == IF v.ok THEN Got(Attr(n.val, v.val), v.rest) ELSE Bad
ReadAttr(n)    == IF n.ok THEN Valued(n, AfterName(Space(n.rest))) ELSE Bad

(* The attributes and the end of a start tag.                              *)
RECURSIVE StartTag(_, _, _)
More(name, attr, a) == IF a.ok THEN StartTag(Space(a.rest), name, Append(attr, a.val)) ELSE Bad
StartTag(t, name, attr) ==
    CASE At(t, 1) = ">" -> Got([tok |-> Start(name, attr), shut |-> FALSE], Drop(t, 1))
      [] At(t, 1) = "/" ->
           IF At(t, 2) = ">" THEN Got([tok |-> Start(name, attr), shut |-> TRUE], Drop(t, 2))
           ELSE Bad
      [] OTHER -> More(name, attr, ReadAttr(nsname(t)))

EndTag(s) ==
    LET Closed(n, t) == IF At(t, 1) = ">" THEN Got(End(n), Drop(t, 1)) ELSE Bad
        Checked(n)   == IF n.ok THEN Closed(n.val, Space(n.rest)) ELSE Bad
    IN  Checked(nsname(s))

(* The value of a pseudo-attribute of <?xml ...?>, or << >>.               *)
procInst(param, content) ==
    LET Value(i, n) == IF i = 0 \/ At(content, i + 2) \notin Quotes \/ n = 0 THEN << >>
                       ELSE SubSeq(content, i + 3, i + n + 1)
        Within(i)  == Value(i, FirstIn(Drop(content, i + 2), {At(content, i + 2)}))
    IN  Within(FirstAt(content, <<param, "=">>))

ProcInst(s) ==
    LET Legal(content)  == /\ procInst("version", content) \in {<< >>, <<"1.0">>}
                           /\ procInst("encoding", content) \in {<< >>, <<"utf-8">>, <<"UTF-8">>}
        Cut(target, rest, n) ==
            IF n = 0 \/ (target = <<"xml">> /\ ~Legal(SubSeq(rest, 1, n - 1))) THEN Bad
            ELSE Got(Dropped, Drop(rest, n + 1))
        Checked(r) == IF ~r.ok \/ ~isName(r.val) THEN Bad
                      ELSE Cut(r.val, r.rest, FirstAt(r.rest, <<"?", ">">>))
    IN  Checked(readName(s))

Comment(s) == LET Cut(n) == IF n = 0 THEN Bad ELSE Got(Dropped, Drop(s, n + 2))
              IN  Cut(FirstAt(s, <<"-", "-", ">">>))

(* <!DOCTYPE ...>: ">" counts outside quotes, comments and nested "<...>". *)
RECURSIVE Directive(_, _, _)
Directive(s, quote, depth) ==
    LET c == At(s, 1)
        After(comment) == IF comment.ok THEN Directive(comment.rest, "", depth) ELSE Bad
    IN  CASE s = << >> -> Bad
          [] quote # "" -> Directive(Drop(s, 1), IF c = quote THEN "" ELSE quote, depth)
          [] c \in Quotes -> Directive(Drop(s, 1), c, depth)
          [] c = ">" -> IF depth = 0 THEN Got(Dropped, Drop(s, 1))
                        ELSE Directive(Drop(s, 1), "", depth - 1)
          [] c = "<" -> IF SubSeq(s, 2, 4) = <<"!", "-", "-">>
                        THEN After(Comment(Drop(s, 4)))
                        ELSE Directive(Drop(s, 1), "", depth + 1)
          [] OTHER -> Directive(Drop(s, 1), quote, depth)

(* Decoder.rawToken, after the half of <a/> that is still to be returned.  *)
rawToken(s) ==
    LET Open(n) == IF n.ok THEN StartTag(Space(n.rest), n.val, << >>) ELSE Bad
        Tok(r) == IF r.ok THEN Got([tok |-> r.val, shut |-> FALSE], r.rest) ELSE Bad
        Data(r) == IF r.ok THEN Tok(Got(CharData(r.val), r.rest)) ELSE Bad
    IN  CASE At(s, 1) # "<" -> Data(text(s))
          [] At(s, 2) = "/" -> Tok(EndTag(Drop(s, 2)))
          [] At(s, 2) = "?" -> Tok(ProcInst(Drop(s, 2)))
          [] At(s, 2) = "!" ->
               CASE At(s, 3) = "-" -> IF At(s, 4) = "-" THEN Tok(Comment(Drop(s, 4))) ELSE Bad
                 [] At(s, 3) = "[" -> IF SubSeq(s, 4, 5) = <<"CDATA", "[">>
                                      THEN Data(cdata(Drop(s, 5))) ELSE Bad
                 [] OTHER -> IF Len(s) < 3 THEN Bad ELSE Tok(Directive(Drop(s, 3), "", 0))
          [] OTHER -> Open(nsname(Drop(s, 1)))

=============================================================================
