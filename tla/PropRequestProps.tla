-------------------------- MODULE PropRequestProps --------------------------
(***************************************************************************)
(* What a client may rely on: that the body it sends is understood however *)
(* it spells the names in it, and that the answer, read again, tells of    *)
(* the properties it asked for.                                            *)
(*                                                                         *)
(* A client writes a document; it is a tree of elements, texts and         *)
(* comments.  An element has the prefix its name is written with and the   *)
(* name spaces it declares, so that one name can be spelled in many ways.  *)
(***************************************************************************)
EXTENDS PropRequest, DavReader

-----------------------------------------------------------------------------
(* Documents, and how a client spells them.                                *)
Elem(prefix, local, decl, attr, kids) ==
    [prefix |-> prefix, local |-> local, decl |-> decl, attr |-> attr, kids |-> kids]
Txt(chars)   == [text |-> chars]
Verbatim(chars) == [cdata |-> chars]
Ignored(chars)  == [dropped |-> chars]

Is(node, field) == field \in DOMAIN node

Client(c) == CASE c = "<"  -> <<"&", "lt", ";">>
               [] c = "&"  -> <<"&", "amp", ";">>
               [] c = "\"" -> <<"&", "quot", ";">>
               [] c = "\r" -> <<"&", "#", "xD", ";">>
               [] OTHER    -> <<c>>
Escape(chars) == FlattenSeq([i \in DOMAIN chars |-> Client(chars[i])])
Given(value)  == <<"=", "\"">> \o Escape(value) \o <<"\"">>
Qualified(prefix, local) == IF prefix = << >> THEN local ELSE prefix \o <<":">> \o local

RECURSIVE Spell(_)
Spelled(nodes) == FlattenSeq([i \in DOMAIN nodes |-> Spell(nodes[i])])
Spell(node) ==
    LET name  == Qualified(node.prefix, node.local)
        decls == SetToSeq(DOMAIN node.decl)
        Decl(p) == <<" ", "xmlns">> \o (IF p = << >> THEN << >> ELSE <<":">> \o p)
                       \o Given(node.decl[p])
        head == <<"<">> \o name
                  \o FlattenSeq([i \in DOMAIN decls |-> Decl(decls[i])])
                  \o FlattenSeq([i \in DOMAIN node.attr |->
                        <<" ">> \o Qualified(node.attr[i].prefix, node.attr[i].local)
                           \o Given(node.attr[i].value)])
    IN  CASE Is(node, "text")    -> Escape(node.text)
          [] Is(node, "cdata")   -> <<"<", "!", "[", "CDATA", "[">> \o node.cdata \o CDATAEnd
          [] Is(node, "dropped") -> node.dropped
          [] OTHER -> IF node.kids = << >> THEN head \o <<"/", ">">>
                      ELSE head \o <<">">> \o Spelled(node.kids) \o <<"<", "/">> \o name \o <<">">>

-----------------------------------------------------------------------------
(* What a document means: names have the name spaces of the declarations   *)
(* they are in the scope of; comments do not count; neighbouring texts     *)
(* are one.                                                                *)
AddText(nodes, chars) ==
    CASE chars = << >> -> nodes
      [] chars # << >> /\ nodes # << >> /\ Is(Last(nodes), "text") ->
           Append(Front(nodes), Txt(Last(nodes).text \o chars))
      [] OTHER -> Append(nodes, Txt(chars))

(* Every end of a line is "\n" to the reader.                              *)
Lines(chars) ==
    FlattenSeq([i \in DOMAIN chars |->
        CASE chars[i] # "\r"          -> <<chars[i]>>
          [] At(chars, i) = "\r" /\ At(chars, i + 1) = "\n" -> << >>
          [] OTHER                    -> <<"\n">>])

Node(name, attr, kids) == [name |-> name, attr |-> attr, kids |-> kids]

RECURSIVE Meaning(_, _)
Meanings(nodes, env) ==
    LET Add(ms, n) == CASE Is(n, "text")    -> AddText(ms, n.text)
                        [] Is(n, "cdata")   -> AddText(ms, Lines(n.cdata))
                        [] Is(n, "dropped") -> ms
                        [] OTHER            -> Append(ms, Meaning(n, env))
    IN  FoldLeft(Add, << >>, nodes)
Meaning(node, outer) ==
    LET env == node.decl @@ outer
        SpaceOf(prefix) == CASE prefix = <<"xml">> -> xmlURL
                             [] prefix \in DOMAIN env -> env[prefix]
                             [] OTHER -> prefix
    IN  Node(Name(SpaceOf(node.prefix), node.local),
             {Attr(Name(IF a.prefix = << >> THEN NoSpace ELSE SpaceOf(a.prefix), a.local), a.value) :
                 a \in {node.attr[i] : i \in DOMAIN node.attr}},
             Meanings(node.kids, env))

(* The meaning of a text that was written, as the decoder reads it.        *)
Unreadable == <<[unreadable |-> TRUE]>>
Ordinary(attr) == {attr[i] : i \in {j \in DOMAIN attr : ~isNamespace(attr[j].name)}}
RECURSIVE Nodes(_, _, _)
After(tok, inner, nodes, depth) ==
    IF inner.nodes = Unreadable THEN inner
    ELSE Nodes(inner.d, Append(nodes, Node(tok.name, Ordinary(tok.attr), inner.nodes)), depth)
Collect(d, tok, nodes, depth) ==
    CASE tok.kind = "start" -> After(tok, Nodes(d, << >>, depth + 1), nodes, depth)
      [] tok.kind \in {"chars", "dropped"} ->
           Nodes(d, IF tok.kind = "chars" THEN AddText(nodes, tok.data) ELSE nodes, depth)
      [] OTHER -> [d |-> d, nodes |-> IF (tok.kind = "EOF") = (depth = 0) /\ tok.kind # "error"
                                      THEN nodes ELSE Unreadable]
CollectNext(t, nodes, depth) == Collect(t.d, t.tok, nodes, depth)
Nodes(d, nodes, depth) == CollectNext(Token(d), nodes, depth)
ReadBack(text0) == Nodes(Decoder(text0), << >>, 0).nodes

Elements(node)      == SelectSeq(node.kids, LAMBDA k : Is(k, "name"))
Kids(node, name)    == SelectSeq(Elements(node), LAMBDA k : k.name = name)
Each(nodes, Op(_))  == [i \in DOMAIN nodes |-> Op(nodes[i])]
NamesIn(nodes)      == FlattenSeq(Each(nodes, LAMBDA n : Each(Elements(n), LAMBDA k : k.name)))
Chars(node)         == IF node.kids = << >> THEN << >> ELSE node.kids[1].text

-----------------------------------------------------------------------------
NoDocument == [none |-> TRUE]                \* the text is not a document
HasDocument == Is(request.doc, "kids")
Meant       == Meaning(request.doc, << >>)

-----------------------------------------------------------------------------
Flag(m, local)  == Kids(m, DavName(local)) # << >>
Named(m, local) == NamesIn(Kids(m, DavName(local)))

(* A list without names is noticed if it is the first of its element.      *)
PropfindUnderstood(m) ==
    LET Faulty(lists) ==
            /\ lists # << >>
            /\ \/ Elements(lists[1]) = << >>
               \/ \E list \in ToSet(lists) : \E n \in ToSet(Elements(list)) : n.kids # << >>
        legal == /\ m.name = DavName("propfind")
                 /\ \A local \in {"prop", "include"} : ~Faulty(Kids(m, DavName(local)))
                 /\ Cardinality({l \in {"allprop", "propname", "prop"} : Flag(m, l)}) = 1
                 /\ Flag(m, "include") => Flag(m, "allprop")
    IN  IF ~legal THEN result.status = 400
        ELSE /\ result.status = 0
             /\ result.val.Allprop  = Flag(m, "allprop")
             /\ result.val.Propname = Flag(m, "propname")
             /\ result.val.Prop     = Named(m, "prop")
             /\ result.val.Include  = Named(m, "include")

(* The elements of a lockinfo are recognised in every name space.          *)
Local(nodes, local) == SelectSeq(nodes, LAMBDA n : Is(n, "name") /\ n.name.local = <<local>>)
LockInfoUnderstood(m) ==
    LET Has(a, b) == \E i \in DOMAIN Local(m.kids, a) : Local(Local(m.kids, a)[i].kids, b) # << >>
    IN  CASE m.name.local # <<"lockinfo">> -> result.status = 400
          [] m.name.local = <<"lockinfo">>
             /\ Has("lockscope", "exclusive") /\ ~Has("lockscope", "shared")
             /\ Has("locktype", "write") -> result.status = 0
          [] OTHER -> result.status = 501

ProppatchUnderstood(m) ==
    LET Lang(node, default) ==
            LET langs == {a \in node.attr : a.name = Name(xmlURL, <<"lang">>)}
            IN  IF langs = {} THEN default ELSE (CHOOSE a \in langs : TRUE).value
        ops == Elements(m)
        PropsOf(op) ==
            FlattenSeq(Each(Kids(op, DavName("prop")),
                LAMBDA list : Each(Elements(list),
                    LAMBDA p : [name |-> p.name, lang |-> Lang(p, Lang(list, << >>)), kids |-> p.kids])))
        Faulty(op) ==
            \/ op.name \notin {DavName("set"), DavName("remove")}
            \/ /\ Kids(op, DavName("prop")) # << >>
               /\ Elements(Kids(op, DavName("prop"))[1]) = << >>
            \/ op.name = DavName("remove") /\ \E i \in DOMAIN PropsOf(op) : PropsOf(op)[i].kids # << >>
    IN  IF m.name # DavName("propertyupdate") \/ \E i \in DOMAIN ops : Faulty(ops[i])
        THEN result.status = 400
        ELSE /\ result.status = 0
             /\ Len(result.val) = Len(ops)
             /\ \A i \in DOMAIN ops :
                   /\ result.val[i].remove = (ops[i].name = DavName("remove"))
                   /\ Each(result.val[i].props,
                           LAMBDA p : [name |-> p.name, lang |-> p.lang, kids |-> ReadBack(p.inner)])
                        = PropsOf(ops[i])

(* A property has an element of its own name in its value.                 *)
RECURSIVE Mentions(_, _)
Mentions(node, name) ==
    \E i \in DOMAIN Elements(node) :
        Elements(node)[i].name = name \/ Mentions(Elements(node)[i], name)
NamesItself(m) ==
    \E op \in ToSet(Elements(m)) : \E list \in ToSet(Kids(op, DavName("prop"))) :
        \E p \in ToSet(Elements(list)) : Mentions(p, p.name)

(* A body is read as it is meant, however its names are spelled: no        *)
(* declaration of a name space is missed or outlives its element (xml.go,  *)
(* translate and popElement), the rules of readPropfind, readLockInfo and  *)
(* readProppatch count the elements of the document and nothing else, and  *)
(* a text that is no document is refused.  The value of a property to be   *)
(* set, encoded anew, means what it meant, without the declarations around *)
(* it (xmlValue).                                                          *)
BodyIsUnderstood ==
    phase # "received" =>
        CASE request.text = << >> -> (request.reader = "proppatch") = (phase = "refused")
          [] request.text # << >> /\ ~HasDocument -> result.status = 400
          [] HasDocument /\ request.reader = "propfind" -> PropfindUnderstood(Meant)
          [] HasDocument /\ request.reader = "lockinfo" -> LockInfoUnderstood(Meant)
          [] OTHER -> NamesItself(Meant) \/ ProppatchUnderstood(Meant)

(* The same, of every property.                                            *)
AnyValueIsKept ==
    phase # "received" /\ HasDocument /\ request.reader = "proppatch" => ProppatchUnderstood(Meant)

-----------------------------------------------------------------------------
(* The answer.                                                             *)
Shown(name) == [i \in DOMAIN name |-> IF name[i] \in Illegal THEN Replacement ELSE name[i]]

ValueOf(item, name) ==
    CASE name = DavName("resourcetype") ->
           IF item.dir THEN <<Node(DavName("collection"), {}, << >>)>> ELSE << >>
      [] name = DavName("displayname") ->
           AddText(<< >>, IF IsRootName(item.name) THEN << >> ELSE Shown(item.name))
      [] OTHER -> AddText(<< >>, find(item, name))

Entry(name, kids, status) == [name |-> name, kids |-> kids, status |-> StatusLine(status)]

Told(response) ==
    FlattenSeq(Each(Kids(response, DavName("propstat")), LAMBDA pstat :
        FlattenSeq(Each(Kids(pstat, DavName("prop")), LAMBDA prop :
            Each(Elements(prop), LAMBDA p :
                [name |-> p.name, kids |-> p.kids,
                 status |-> Chars(Kids(pstat, DavName("status"))[1])])))))

(* With allprop, the names that include asks for and allprop does not.     *)
Further(item, pf) ==
    IF pf.Allprop THEN SelectSeq(pf.Include, LAMBDA n : n \notin liveProps(item)) ELSE << >>

ToTell(item, pf) ==
    LET live == SetToSeq(liveProps(item))
        Value(n) == IF n \in liveProps(item) THEN Entry(n, ValueOf(item, n), 200)
                    ELSE Entry(n, << >>, 404)
    IN  CASE pf.Propname -> Each(live, LAMBDA n : Entry(n, << >>, 200))
          [] pf.Allprop  -> Each(live \o Further(item, pf), Value)
          [] OTHER       -> Each(pf.Prop, Value)

(* The path that a client makes of an href.                                *)
PathOf(href) ==
    FlattenSeq([i \in DOMAIN href |->
        CASE href[i] = "%" -> << >>
          [] href[i] # "%" /\ At(href, i - 1) = "%" -> <<CHOOSE c \in DOMAIN Hex : Hex[c] = href[i]>>
          [] OTHER -> <<href[i]>>])

Responses(answer) == Kids(answer[1], DavName("response"))

Tells(response, item) ==
    LET Complete(pstats) == IsInjective(Each(pstats, LAMBDA p : Kids(p, DavName("status"))))
        told   == ToBag(Told(response))
        toTell == ToBag(ToTell(item, result.val))
    IN  /\ Each(Kids(response, DavName("href")), LAMBDA h : PathOf(Chars(h))) = <<item.href>>
        /\ told \sqsubseteq toTell
        /\ \A e \in BagToSet(toTell (-) told) : e.name \in ToSet(Further(item, result.val))
        /\ Complete(Kids(response, DavName("propstat")))

Answers(answer) ==
    LET OnePerItem(responses) == /\ Len(responses) = Len(request.items)
                                 /\ \A i \in DOMAIN responses : Tells(responses[i], request.items[i])
    IN  /\ answer # Unreadable /\ Len(answer) = 1 /\ answer[1].name = multistatus
        /\ OnePerItem(Responses(answer))

(* Once the answer is finished, a client that reads it finds a response    *)
(* with the href and the name of each item, and in it each property asked  *)
(* for as often as asked, found with its value or not found: the name is   *)
(* the one asked for, although DAV: is written as "D:" and other name      *)
(* spaces as defaults (propstat.MarshalXML, marshalValue), and no          *)
(* character of an item's name is taken for markup (escapeXML,             *)
(* EscapeString).  Nothing else is told, and the properties have one       *)
(* propstat per status.  Whether the names that an include adds to allprop *)
(* are told is the question of IncludeIsAnswered; here they may be.        *)
AnswersTheAsked ==
    phase \in {"sent", "failed"} =>
        phase = "sent" /\ Answers(ReadBack(enc.out))

(* prop.go:210: "Allprop returns the properties defined for resource name  *)
(* and the properties named in include."                                   *)
IncludeIsAnswered ==
    LET AllIn(responses) ==
            \A i \in DOMAIN responses :
                ToSet(result.val.Include) \subseteq {e.name : e \in ToSet(Told(responses[i]))}
    IN  phase = "sent" /\ result.val.Allprop => AllIn(Responses(ReadBack(enc.out)))

=============================================================================
