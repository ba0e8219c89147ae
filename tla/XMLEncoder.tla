----------------------------- MODULE XMLEncoder -----------------------------
(***************************************************************************)
(* The printer behind the encoder (webdav/internal/xml/marshal.go): it     *)
(* writes start and end tags, and declares the name spaces they need.      *)
(*                                                                         *)
(* p.out is the text written, p.defaultNS the default name space, p.attrNS *)
(* maps prefixes to name spaces and p.attrPrefix name spaces to prefixes,  *)
(* p.prefixes is the stack of values to restore, its top first, with a     *)
(* mark for each open element, p.tags are the open elements, p.seq numbers *)
(* the prefixes made up.  p.failed is set by the first error.              *)
(***************************************************************************)
EXTENDS XMLText

Printer == [out |-> << >>, defaultNS |-> NoSpace, attrNS |-> << >>, attrPrefix |-> << >>,
            prefixes |-> << >>, tags |-> << >>, seq |-> 0, failed |-> FALSE]

Default == << >>                        \* the prefix of the default name space
Mark    == [mark |-> TRUE]
NoName  == Name(NoSpace, << >>)         \* marks where a MarshalXML began

(* A loop: Op takes what the one before has left, and the next of s.       *)
Loop(Op(_, _), base, s) ==
    LET after[i \in 0..Len(s)] == IF i = 0 THEN base ELSE Op(after[i - 1], s[i])
    IN  after[Len(s)]

Lookup(f, x)   == IF x \in DOMAIN f THEN f[x] ELSE NoSpace
With(f, x, y)  == [z \in DOMAIN f \cup {x} |-> IF z = x THEN y ELSE f[z]]
Without(f, x)  == [y \in DOMAIN f \ {x} |-> f[y]]
Write(p, text0) == [p EXCEPT !.out = @ \o text0]
Fail(p)        == [p EXCEPT !.failed = TRUE]

-----------------------------------------------------------------------------
(* Prefixes.                                                               *)
nsForPrefix(p, prefix) == IF prefix = Default THEN p.defaultNS ELSE Lookup(p.attrNS, prefix)

setAttrPrefix(p, prefix, url) ==
    LET others == Without(p.attrPrefix, Lookup(p.attrNS, prefix))
    IN  CASE prefix = Default -> [p EXCEPT !.defaultNS = url]
          [] prefix # Default /\ url = NoSpace ->
               [p EXCEPT !.attrPrefix = others, !.attrNS = Without(@, prefix)]
          [] OTHER -> [p EXCEPT !.attrPrefix = With(others, url, prefix),
                                !.attrNS     = With(@, prefix, url)]

pushPrefix(p, prefix, url) ==
    setAttrPrefix([p EXCEPT !.prefixes =
                      <<[mark |-> FALSE, prefix |-> prefix, url |-> nsForPrefix(p, prefix)]>> \o @],
                  prefix, url)

markPrefix(p) == [p EXCEPT !.prefixes = <<Mark>> \o @]

(* The values above the mark are restored, the newest first.               *)
Restore(p, e) == setAttrPrefix(p, e.prefix, e.url)

MarkedAt(stack) == Min({i \in DOMAIN stack : stack[i].mark} \cup {Len(stack) + 1})

DropPrefixes(p) ==                \* faulty: an element's prefixes stay in force
    [p EXCEPT !.prefixes = Drop(@, MarkedAt(@))]

popPrefix(p) ==
    LET n == MarkedAt(p.prefixes)
    IN  [Loop(Restore, p, SubSeq(p.prefixes, 1, n - 1)) EXCEPT !.prefixes = Drop(@, n)]

prefixForNS(p, url, isAttr) ==
    CASE url = xmlURL                    -> <<"xml">>
      [] ~isAttr /\ url = p.defaultNS    -> Default
      [] OTHER                           -> Lookup(p.attrPrefix, url)

(* The name spaces that the attributes of an element declare.              *)
defineNS(p, attr, ignoreNonEmptyDefault) ==
    LET known  == attr.value \in DOMAIN p.attrPrefix
    IN  CASE attr.name.local = xmlns ->
               IF attr.name.space \notin {NoSpace, <<"xml">>, xmlURL} THEN Fail(p)
               ELSE IF \/ attr.value = p.defaultNS
                       \/ attr.value # NoSpace /\ ignoreNonEmptyDefault
               THEN p ELSE pushPrefix(p, Default, attr.value)
          [] attr.name.local # xmlns /\ attr.name.space = xmlns /\ attr.name.local # << >> ->
               IF attr.value = NoSpace \/ known THEN p
               ELSE pushPrefix(p, attr.name.local, attr.value)
          [] OTHER -> p

(* A prefix made from the last part of a name space.                       *)
BasePrefix(url) ==
    LET NoSlash(path) == SubSeq(path, 1, SelectLastInSeq(path, LAMBDA c : c # "/"))
        LastOf(path)  == Drop(path, SelectLastInSeq(path, LAMBDA c : c = "/"))
        Named(last)   == IF ~isName(last) \/ Contains(last, ":") THEN <<"_">> ELSE last
        NotXML(name)  == IF name[1] \in {"xml", "xmlns"} THEN <<"_">> \o name ELSE name
    IN  NotXML(Named(LastOf(NoSlash(url))))

(* The prefix as it is, or with the next number that makes it new.         *)
pushNew(p, base, url) ==
    LET Id(n) == base \o <<"_", ToString(n)>>
        n     == CHOOSE i \in (p.seq + 1)..(p.seq + Cardinality(DOMAIN p.attrNS) + 1) :
                    /\ Id(i) \notin DOMAIN p.attrNS
                    /\ \A j \in (p.seq + 1)..(i - 1) : Id(j) \in DOMAIN p.attrNS
    IN  IF base \notin DOMAIN p.attrNS THEN pushPrefix(p, base, url)
        ELSE pushPrefix([p EXCEPT !.seq = n], Id(n), url)

createNSPrefix(p, url, isAttr) ==
    CASE \/ url \in DOMAIN p.attrPrefix \cup {xmlURL}
         \/ url = p.defaultNS /\ (~isAttr \/ url = NoSpace) -> p
      [] url = NoSpace /\ p.defaultNS # NoSpace -> pushPrefix(p, Default, NoSpace)
      [] OTHER -> pushNew(p, BasePrefix(url), url)

-----------------------------------------------------------------------------
(* Tags.                                                                   *)
Written(p, name, isAttr) ==
    LET prefix == prefixForNS(p, name.space, isAttr)
    IN  (IF prefix = Default THEN << >> ELSE prefix \o <<":">>) \o name.local

Quoted(value) == <<"=", "\"">> \o EscapeText(value) \o <<"\"">>

(* writeNamespaces: the prefixes defined since the mark.                   *)
Namespaces(p) ==
    LET Declaration(e) ==
            <<" ", "xmlns">> \o (IF e.prefix = Default THEN << >> ELSE <<":">> \o e.prefix)
                \o Quoted(nsForPrefix(p, e.prefix))
    IN  FlattenSeq([i \in 1..(MarkedAt(p.prefixes) - 1) |-> Declaration(p.prefixes[i])])

(* The name spaces of the tag are declared first, then those of its names. *)
Declared(p, start) ==
    LET Defined(q, a) == defineNS(q, a, start.name.space = NoSpace)
        Implied(q, a) == IF a.name.space = NoSpace \/ isNamespace(a.name) THEN q
                         ELSE createNSPrefix(q, a.name.space, TRUE)
    IN  createNSPrefix(Loop(Implied, Loop(Defined, p, start.attr), start.attr),
                       start.name.space, FALSE)

Tag(p, start) ==
    LET Listed(a) == IF a.name.local = << >> \/ isNamespace(a.name) THEN << >>
                     ELSE <<" ">> \o Written(p, a.name, TRUE) \o Quoted(a.value)
    IN  Write(p, <<"<">> \o Written(p, start.name, FALSE) \o Namespaces(p)
                     \o FlattenSeq([i \in DOMAIN start.attr |-> Listed(start.attr[i])])
                     \o <<">">>)

writeStart(p, start) ==
    IF start.name.local = << >> THEN Fail(p)
    ELSE Tag(Declared([markPrefix(p) EXCEPT !.tags = Append(@, start.name)], start), start)

writeEnd(p, name) ==
    IF p.tags = << >> \/ name.local = << >> \/ (p.tags # << >> /\ Last(p.tags) # name)
    THEN Fail(p)
    ELSE popPrefix([Write(p, <<"<", "/">> \o Written(p, name, FALSE) \o <<">">>)
                       EXCEPT !.tags = Front(@)])

(* Encoder.EncodeToken, of the tokens that xmlValue and multistatusWriter  *)
(* hand to it.                                                             *)
EncodeToken(p, tok) ==
    CASE tok.kind = "start" -> writeStart(p, tok)
      [] tok.kind = "end"   -> writeEnd(p, tok.name)
      [] tok.kind = "chars" -> Write(p, EscapeData(tok.data))

(* StartElement.setDefaultNamespace.                                       *)
setDefaultNamespace(start) ==
    IF \/ start.name.space = NoSpace
       \/ \E i \in DOMAIN start.attr : start.attr[i].name = Name(NoSpace, xmlns)
    THEN start
    ELSE [start EXCEPT !.attr = Append(@, Attr(Name(NoSpace, xmlns), start.name.space))]

=============================================================================
