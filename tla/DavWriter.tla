----------------------------- MODULE DavWriter -----------------------------
(***************************************************************************)
(* What the server writes in answer to a PROPFIND: the properties of an    *)
(* item (webdav/prop.go), the responses made of them (webdav/webdav.go,    *)
(* webdav/xml.go), and how the encoder writes a struct                     *)
(* (webdav/internal/xml/marshal.go).                                       *)
(*                                                                         *)
(* An item is whether it is a folder, its name, and the type its extension *)
(* has; sizes and times are single characters.  The text of a value is in  *)
(* a field of the type "string", "[]byte" or "[]string"; a struct is a     *)
(* record of its fields; nil is << >>.                                     *)
(***************************************************************************)
EXTENDS DavTypes

DavName(local) == Name(DAV, <<local>>)

-----------------------------------------------------------------------------
(* The properties of an item.                                              *)
Special == (Marks \ {" ", "/"}) \cup Illegal \cup {":"}
AsItIs(s)    == s                            \* faulty: names are never escaped
escapeXML(s) == IF \E i \in DOMAIN s : s[i] \in Special THEN EscapeText(s) ELSE s

IsRootName(name) == name \in {<< >>, <<"/">>, <<".">>, <<".", ".">>}

resourcetype(item) ==
    IF item.dir
    THEN <<"<", "D", ":", "collection", " ", "xmlns", ":", "D", "=", "\"", "DAV", ":", "\"", "/", ">">>
    ELSE << >>
displayname(item) == IF IsRootName(item.name) THEN << >> ELSE escapeXML(item.name)
getetag(item)     == <<"\"", "1", "\"">>

(* liveProps without the hidden ones: those that a folder has, those that  *)
(* only a file has.                                                        *)
EveryItems == {"resourcetype", "displayname", "getlastmodified"}
FilesOnly  == {"getcontentlength", "getcontenttype", "getetag"}

liveProps(item) ==
    {DavName(local) : local \in EveryItems \cup (IF item.dir THEN {} ELSE FilesOnly)}

find(item, name) ==
    CASE name.local = <<"resourcetype">>     -> resourcetype(item)
      [] name.local = <<"displayname">>      -> displayname(item)
      [] name.local = <<"getcontentlength">> -> <<"size">>
      [] name.local = <<"getlastmodified">>  -> <<"time">>
      [] name.local = <<"getcontenttype">>   -> item.type
      [] name.local = <<"getetag">>          -> getetag(item)

Property(name, inner)   == [name |-> name, inner |-> inner]
Propstat(status, props) == [status |-> status, props |-> props]

ForEach(names, Op(_)) == FlattenSeq([i \in DOMAIN names |-> Op(names[i])])

makePropstats(x, y) ==
    LET Used(p) == IF p.props = << >> THEN << >> ELSE <<p>>
        used    == Used(x) \o Used(y)
    IN  IF used = << >> THEN <<Propstat(200, << >>)>> ELSE used

props(item, names) ==
    LET Known(n)   == n \in liveProps(item)
        Found(n)   == IF Known(n) THEN <<Property(n, find(item, n))>> ELSE << >>
        Missing(n) == IF Known(n) THEN << >> ELSE <<Property(n, << >>)>>
    IN  makePropstats(Propstat(200, ForEach(names, Found)), Propstat(404, ForEach(names, Missing)))

(* The order of propnames is that of a map: any.                           *)
propnames(item) == SetToSeqs(liveProps(item))

allprop(item, names, include) ==
    LET Further(n) == IF n \in liveProps(item) THEN << >> ELSE <<n>>
    IN  props(item, names \o ForEach(include, Further))

(* walkFn of handlePropfind: the names in pf.Include are not handed on.    *)
Propstats(item, pf, names) ==
    CASE pf.Propname -> <<Propstat(200, [i \in DOMAIN names |-> Property(names[i], << >>)])>>
      [] ~pf.Propname /\ pf.Allprop -> allprop(item, names, pf.Prop)
      [] OTHER -> props(item, pf.Prop)

-----------------------------------------------------------------------------
(* marshal.go: setParents, marshalStruct, marshalValue.                    *)
StatusLine(status) == <<"HTTP", "/", "1", " ", ToString(status)>>

(* propstat.MarshalXML: the properties of DAV: get the prefix "D:".        *)
Prefixed(name) == IF name.space = DAV THEN Name(NoSpace, <<"D", ":">> \o name.local) ELSE name

ixmlPropstat(pstat) ==
    [Prop |-> [i \in DOMAIN pstat.props |->
                  [XMLName  |-> Prefixed(pstat.props[i].name), Lang |-> << >>,
                   InnerXML |-> pstat.props[i].inner]],
     Status |-> StatusLine(pstat.status), Error |-> << >>, ResponseDescription |-> << >>]

(* The tag of XMLName, if the type has one.                                *)
OwnName(type) == IF type \in DOMAIN xmlname THEN xmlname[type] ELSE << >>

(* The name of the element of a value, and its attributes; an element      *)
(* without a name space of its own has the one it is contained in.         *)
StartNamed(p, own, val, finfo) ==
    LET named == IF own = << >> THEN NoName
                 ELSE IF own[1].name # << >> THEN Name(own[1].xmlns, own[1].name)
                 ELSE val.XMLName
        name  == CASE named.local # << >> -> named
                   [] named.local = << >> /\ finfo.xmlns # NoSpace -> Name(finfo.xmlns, finfo.name)
                   [] OTHER -> Name(IF own # << >> THEN NoSpace ELSE p.defaultNS, finfo.name)
    IN  setDefaultNamespace(Start(name, << >>))

StartOf(p, type, val, finfo) == StartNamed(p, OwnName(type), val, finfo)

(* parentStack.setParents: the elements of the path of a field.            *)
closeParent(p, name) == writeEnd(p, name)
openParent(p, name)  ==
    LET start == Start(name, << >>)
    IN  writeStart(p, IF name.space = p.defaultNS THEN start ELSE setDefaultNamespace(start))

setParents(q, finfo) ==
    LET s      == q.s
        space  == IF finfo.xmlns = NoSpace THEN q.p.defaultNS ELSE finfo.xmlns
        common == IF space # s.xmlns THEN 0
                  ELSE Len(LongestCommonPrefix({finfo.parents, s.parents}))
        In(ns, path) == [i \in DOMAIN path |-> Name(ns, path[i])]
        closed == Loop(closeParent, q.p, In(s.xmlns, Reverse(Drop(s.parents, common))))
    IN  [p |-> Loop(openParent, closed, In(space, Drop(finfo.parents, common))),
         s |-> [xmlns |-> space, parents |-> finfo.parents]]

NoField == [xmlns |-> NoSpace, parents |-> << >>, name |-> << >>, omit |-> FALSE]

writeElement(p, start, Inside(_)) == writeEnd(Inside(writeStart(p, start)), start.name)

(* The fields of a struct that are elements, their values by Value.        *)
marshalStruct(p, type, val, Value(_, _, _)) ==
    LET Inside(q, finfo) == [q EXCEPT !.p = Value(@, val[finfo.field], finfo)]
        Each(q, finfo)   == Inside(setParents(q, finfo), finfo)
    IN  setParents(Loop(Each, [p |-> p, s |-> NoField], getTypeInfo[type]), NoField).p

(* marshalValue, by the depth of a value.  A text, or a struct with no     *)
(* field but inner XML and a language that is not set.                     *)
marshalSimple(p, type, val, finfo) ==
    LET Inside(q) == Write(q, IF type = "string" THEN EscapeText(val) ELSE val.InnerXML)
    IN  writeElement(p, StartOf(p, type, val, finfo), Inside)

(* The value of a field of an ixmlPropstat: nothing, a list or a simple    *)
(* value.                                                                  *)
Omitted(val, finfo) == val = << >> /\ (finfo.omit \/ finfo.type = "xmlError")

marshalField(p, val, finfo) ==
    LET Each(q, v) == marshalSimple(q, IF finfo.type = "[]string" THEN "string" ELSE "ixmlProperty",
                                    v, finfo)
    IN  IF Omitted(val, finfo) THEN p
        ELSE IF finfo.type \in {"[]string", "[]ixmlProperty"} THEN Loop(Each, p, val)
        ELSE marshalSimple(p, finfo.type, val, finfo)

(* marshalInterface of a propstat, whose MarshalXML encodes an             *)
(* ixmlPropstat with the start tag it is given, and may leave nothing open.*)
Ended(p) == IF Last(p.tags) # NoName THEN Fail(p) ELSE [p EXCEPT !.tags = Front(@)]

marshalPropstat(p, val, finfo) ==
    LET Inside(q) == marshalStruct(q, "ixmlPropstat", ixmlPropstat(val), marshalField)
    IN  Ended(writeElement([p EXCEPT !.tags = Append(@, NoName)],
                           StartOf(p, "propstat", val, finfo), Inside))

(* The value of a field of a response, and a response.                     *)
marshalPart(p, val, finfo) ==
    LET Each(q, v) == marshalPropstat(q, v, finfo)
    IN  IF finfo.type = "[]propstat" THEN Loop(Each, p, val) ELSE marshalField(p, val, finfo)

marshalResponse(p, r) ==
    LET Inside(q) == marshalStruct(q, "response", r, marshalPart)
    IN  writeElement(p, StartOf(p, "response", r, NoField), Inside)

-----------------------------------------------------------------------------
(* multistatusWriter.                                                      *)
multistatus == Name(DAV, <<"multistatus">>)

writeHeader ==
    EncodeToken(Write(Printer, <<"<", "?", "xml", " ", "version", "=", "\"", "1.0", "\"", "?", ">">>),
                Start(multistatus, <<Attr(Name(xmlns, <<"D">>), DAV)>>))

(* url.URL.EscapedPath, with the codes of the characters it escapes.       *)
Hex == (" " :> "20") @@ ("\"" :> "22") @@ ("'" :> "27") @@ ("<" :> "3C") @@ (">" :> "3E")
         @@ ("#" :> "23") @@ ("!" :> "21") @@ ("?" :> "3F") @@ ("[" :> "5B") @@ ("]" :> "5D")
         @@ ("\t" :> "09") @@ ("\n" :> "0A") @@ ("\r" :> "0D")
         @@ ("BEL" :> "07") @@ ("bad UTF-8" :> "FF")
EscapedPath(path) ==
    FlattenSeq([i \in DOMAIN path |-> IF path[i] \in DOMAIN Hex THEN <<"%", Hex[path[i]]>>
                                      ELSE <<path[i]>>])

makePropstatResponse(href, pstats) ==
    [XMLName |-> << >>, Href |-> <<EscapedPath(href)>>, Propstat |-> pstats,
     Status |-> << >>, Error |-> << >>, ResponseDescription |-> << >>]

Legal(r) == IF Len(r.Href) = 1 THEN (r.Propstat # << >>) = (r.Status = << >>)
            ELSE Len(r.Href) > 1 /\ r.Propstat = << >> /\ r.Status # << >>

write(p, r) == IF Legal(r) THEN marshalResponse(p, r) ELSE Fail(p)

(* Nothing is closed if nothing was written.                               *)
close(p) == IF p = Printer THEN p ELSE EncodeToken(p, End(multistatus))

=============================================================================
