------------------------------ MODULE DavTypes ------------------------------
(***************************************************************************)
(* The Go types that bodies are read into and answers written from         *)
(* (webdav/xml.go), and what the encoder and the decoder make of their     *)
(* tags (webdav/internal/xml/typeinfo.go).                                 *)
(*                                                                         *)
(* The tag `xml:"DAV: prop"` is Field(.., DAV, <<"prop">>, ..), with the   *)
(* parts of a path "a>b" as a sequence, and << >> for a tag without name.  *)
(* The field XMLName, if there is one, is kept apart from the others, as   *)
(* typeinfo.go does.                                                       *)
(***************************************************************************)
EXTENDS XMLEncoder

DAV == <<"DAV", ":">>
D(local) == <<"D", ":", local>>

Field(field, type, space, path, mode, omit) ==
    [field |-> field, type |-> type, xmlns |-> space, path |-> path, mode |-> mode, omit |-> omit]
Element(field, type, space, path) == Field(field, type, space, path, "element", FALSE)
OmitEmpty(field, path)            == Field(field, "string", NoSpace, path, "element", TRUE)

LangField == Field("Lang", "string", NoSpace, <<<<"xml", ":", "lang">>>>, "attr", TRUE)
InnerXML  == Field("InnerXML", "[]byte", NoSpace, << >>, "innerxml", FALSE)
XMLName(space, path) == <<Element("XMLName", "Name", space, path)>>
AnyName   == XMLName(NoSpace, << >>)
Struct(name, fields) == [name |-> name, fields |-> fields]

PropfindType == Struct(XMLName(DAV, <<<<"propfind">>>>),
    << Element("Allprop",  "struct{}",      DAV, <<<<"allprop">>>>),
       Element("Propname", "struct{}",      DAV, <<<<"propname">>>>),
       Element("Prop",     "propfindProps", DAV, <<<<"prop">>>>),
       Element("Include",  "propfindProps", DAV, <<<<"include">>>>) >>)

LockInfoType == Struct(XMLName(NoSpace, <<<<"lockinfo">>>>),
    << Element("Exclusive", "struct{}", NoSpace, <<<<"lockscope">>, <<"exclusive">>>>),
       Element("Shared",    "struct{}", NoSpace, <<<<"lockscope">>, <<"shared">>>>),
       Element("Write",     "struct{}", NoSpace, <<<<"locktype">>, <<"write">>>>),
       Element("Owner",     "owner",    NoSpace, <<<<"owner">>>>) >>)

SetRemoveType == Struct(AnyName,
    << LangField, Element("Prop", "proppatchProps", DAV, <<<<"prop">>>>) >>)

PropertyUpdateType == Struct(XMLName(DAV, <<<<"propertyupdate">>>>),
    << LangField, Field("SetRemove", "[]setRemove", NoSpace, << >>, "any", FALSE) >>)

ResponseType == Struct(XMLName(NoSpace, <<D("response")>>),
    << Element("Href",     "[]string",   NoSpace, <<D("href")>>),
       Element("Propstat", "[]propstat", NoSpace, <<D("propstat")>>),
       OmitEmpty("Status", <<D("status")>>),
       Element("Error",    "xmlError",   NoSpace, <<D("error")>>),
       OmitEmpty("ResponseDescription", <<D("responsedescription")>>) >>)

PropstatType == Struct(<< >>,
    << Element("Prop",   "[]ixmlProperty", NoSpace, <<D("prop"), <<"_ignored_">>>>),
       Element("Status", "string",         NoSpace, <<D("status")>>),
       Element("Error",  "xmlError",       NoSpace, <<D("error")>>),
       OmitEmpty("ResponseDescription", <<D("responsedescription")>>) >>)

PropertyType == Struct(AnyName, << LangField, InnerXML >>)
XmlErrorType == Struct(XMLName(NoSpace, <<D("error")>>), << InnerXML >>)

Types == [propfind |-> PropfindType, lockInfo |-> LockInfoType, owner |-> Struct(<< >>, <<InnerXML>>),
          setRemove |-> SetRemoveType, propertyupdate |-> PropertyUpdateType,
          response |-> ResponseType, ixmlPropstat |-> PropstatType,
          ixmlProperty |-> PropertyType, xmlError |-> XmlErrorType]

-----------------------------------------------------------------------------
(* typeinfo.go.                                                            *)
lookupXMLName(type) ==
    LET Tagged(name) == IF name # << >> /\ name[1].path # << >> THEN name ELSE << >>
    IN  IF type \in DOMAIN Types THEN Tagged(Types[type].name) ELSE << >>

structFieldInfo(type, f) ==
    LET named    == f.path # << >>
        special  == f.field = "XMLName"
        Inherits == named /\ ~special /\ f.xmlns = NoSpace /\ f.mode # "attr"
        Info(enclosing, own) ==
            [field |-> f.field, type |-> f.type, mode |-> f.mode, omit |-> f.omit,
             parents |-> IF named THEN Front(f.path) ELSE << >>,
             name    |-> CASE named                  -> Last(f.path)
                           [] ~named /\ own # << >>  -> Last(own[1].path)
                           [] OTHER                  -> IF special THEN << >> ELSE <<f.field>>,
             xmlns   |-> CASE Inherits /\ enclosing # << >> -> enclosing[1].xmlns
                           [] ~named /\ own # << >>         -> own[1].xmlns
                           [] OTHER                         -> f.xmlns,
             valid   |-> named /\ own # << >> => Last(own[1].path) = Last(f.path)]
    IN  Info(lookupXMLName(type), lookupXMLName(f.type))

InfosOf(type, fields) == [i \in DOMAIN fields |-> structFieldInfo(type, fields[i])]

getTypeInfo == [type \in DOMAIN Types |-> InfosOf(type, Types[type].fields)]
xmlname     == [type \in DOMAIN Types |-> InfosOf(type, Types[type].name)]

(* addFieldInfo: the path of a field may not lead through another field.   *)
Conflict(f, g) ==
    /\ f.mode = g.mode
    /\ NoSpace \in {f.xmlns, g.xmlns} \/ f.xmlns = g.xmlns
    /\ \/ IsPrefix(Append(f.parents, f.name), Append(g.parents, g.name))
       \/ IsPrefix(Append(g.parents, g.name), Append(f.parents, f.name))

(* No type is refused by getTypeInfo.                                      *)
ASSUME TypesAreLegal ==
    \A type \in DOMAIN Types :
        LET fields == getTypeInfo[type]
        IN  \A i \in DOMAIN fields :
                fields[i].valid /\ \A j \in 1..(i - 1) : ~Conflict(fields[j], fields[i])

-----------------------------------------------------------------------------
(* What a reader makes of a body: the value read, or the status of the     *)
(* answer.                                                                 *)
Read(val)       == [status |-> 0, val |-> val]
Refused(status) == [status |-> status]

=============================================================================
