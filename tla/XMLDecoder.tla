----------------------------- MODULE XMLDecoder -----------------------------
(***************************************************************************)
(* The decoder (webdav/internal/xml/xml.go, Decoder.Token): it checks that *)
(* elements are nested, and replaces the prefixes of names by the name     *)
(* spaces that the open elements declare.                                  *)
(*                                                                         *)
(* d.in is the input that is left, d.shut holds the name of an element     *)
(* <a/> whose end is still to be returned, d.ns maps the prefixes declared *)
(* to their name spaces, and d.stk is the stack, its top first: an open    *)
(* element above the values its declarations replaced in d.ns, and the     *)
(* marks of pushEOF.                                                       *)
(***************************************************************************)
EXTENDS XMLRawTokens

Decoder(input) == [in |-> input, shut |-> << >>, ns |-> << >>, stk |-> << >>]

(* The prefix that an attribute declares, as a set of at most one.         *)
Declares(attr) ==
    CASE attr.name.space = xmlns          -> {attr.name.local}
      [] attr.name = Name(NoSpace, xmlns) -> {NoSpace}
      [] OTHER                            -> {}

translate(ns, name, isElement) ==
    LET space == IF name.space = <<"xml">> THEN xmlURL ELSE name.space
    IN  IF \/ name.space = xmlns
           \/ name.space = NoSpace /\ (~isElement \/ name.local = xmlns)
        THEN name
        ELSE Name(IF space \in DOMAIN ns THEN ns[space] ELSE space, name.local)

-----------------------------------------------------------------------------
(* The stack.                                                              *)
pushNs(d, prefix, url) ==
    [d EXCEPT !.ns  = (prefix :> url) @@ @,
              !.stk = <<[kind |-> "ns", prefix |-> prefix,
                         old |-> IF prefix \in DOMAIN d.ns THEN {d.ns[prefix]} ELSE {}]>> \o @]

pushElement(d, name) == [d EXCEPT !.stk = <<[kind |-> "start", name |-> name]>> \o @]

Kind(stk, i) == IF i \in DOMAIN stk THEN stk[i].kind ELSE ""

(* How many declarations are on the top of the stack.                      *)
Declarations(stk) == Min({i \in DOMAIN stk : stk[i].kind # "ns"} \cup {Len(stk) + 1}) - 1

LeaveNs(d) ==                        \* faulty: declarations outlive their element
    [d EXCEPT !.stk = Drop(@, Declarations(@))]

RECURSIVE popNs(_)
popNs(d) ==
    IF Kind(d.stk, 1) # "ns" THEN d
    ELSE LET s == Head(d.stk)
         IN  popNs([d EXCEPT !.stk = Tail(@),
                             !.ns  = [p \in {q \in DOMAIN @ : q # s.prefix \/ s.old # {}} |->
                                         IF p = s.prefix THEN CHOOSE u \in s.old : TRUE
                                         ELSE @[p]]])

popElement(d) == popNs([d EXCEPT !.stk = Tail(@)])

(* The mark goes below the open element and its declarations.              *)
pushEOF(d) ==
    LET Below(start) == start + Declarations(Drop(d.stk, start)) + 1
    IN  [d EXCEPT !.stk = InsertAt(@, Below(First({i \in DOMAIN @ : @[i].kind = "start"})),
                                   [kind |-> "EOF"])]

AtEOF(d)  == Kind(d.stk, 1) = "EOF"
popEOF(d) == [d EXCEPT !.stk = Tail(@)]

-----------------------------------------------------------------------------
(* Decoder.Token: the token and the decoder after it.                      *)
Step(d, tok) == [d |-> d, tok |-> tok]

OpenElement(d, tok) ==
    LET Declare(e, a) == IF Declares(a) = {} THEN e
                         ELSE pushNs(e, CHOOSE p \in Declares(a) : TRUE, a.value)
        e    == FoldLeft(Declare, d, tok.attr)
        name == translate(e.ns, tok.name, TRUE)
    IN  Step(pushElement(e, name),
             Start(name, [i \in DOMAIN tok.attr |->
                             Attr(translate(e.ns, tok.attr[i].name, FALSE), tok.attr[i].value)]))

CloseElement(d, rawName) ==
    LET name == translate(d.ns, rawName, TRUE)
    IN  IF Kind(d.stk, 1) = "start" /\ Head(d.stk).name = name
        THEN Step(popElement(d), End(name))
        ELSE Step(d, Error)

Accept(d, tok) ==
    CASE tok.kind = "start" -> OpenElement(d, tok)
      [] tok.kind = "end"   -> CloseElement(d, tok.name)
      [] OTHER              -> Step(d, tok)

Advance(d, r) ==
    IF r.ok THEN Accept([d EXCEPT !.in   = r.rest,
                                  !.shut = IF r.val.shut THEN <<r.val.tok.name>> ELSE << >>],
                        r.val.tok)
    ELSE Step(d, Error)

Token(d) ==
    CASE AtEOF(d)       -> Step(d, EndOfInput)
      [] d.shut # << >> -> CloseElement([d EXCEPT !.shut = << >>], d.shut[1])
      [] d.in = << >>   -> Step(d, EndOfInput)
      [] OTHER          -> Advance(d, rawToken(d.in))

(* webdav/xml.go next: without comments, instructions and directives.      *)
RECURSIVE next(_)
next(d) == LET On(t) == IF t.tok = Dropped THEN next(t.d) ELSE t IN On(Token(d))

Failed(tok) == tok.kind \in {"EOF", "error"}

(* Decoder.Skip: the decoder after the end of the open element; or a       *)
(* failed token.                                                           *)
RECURSIVE Skip(_)
Skip(d) ==
    LET Past(inner) == IF Failed(inner.tok) THEN inner ELSE Skip(inner.d)
        On(t) == CASE t.tok.kind = "start" -> Past(Skip(t.d))
                   [] t.tok.kind = "end" \/ Failed(t.tok) -> t
                   [] OTHER -> Skip(t.d)
    IN  On(Token(d))

=============================================================================
