--------------------------- MODULE MCPropRequest ---------------------------
(* Instances of PropRequest: documents in many spellings.                  *)
EXTENDS PropRequestProps

URN   == <<"urn", "/", "ns">>
NoDecl == << >>
pD == <<"D">>
pP == <<"p">>
Bare(prefix, local) == Elem(prefix, <<local>>, NoDecl, << >>, << >>)
Decl(prefix, local, decl) == Elem(prefix, <<local>>, decl, << >>, << >>)

(* The names of properties, as they may be written.                        *)
Spellings ==
    {Bare(pD, "getetag"), Bare(<< >>, "displayname"), Bare(pP, "color"),
     Decl(pD, "color", pD :> URN), Decl(<< >>, "getetag", << >> :> DAV),
     Decl(<< >>, "plain", << >> :> NoSpace), Decl(pP, "getetag", pP :> DAV)}

Roots == {[prefix |-> pD, decl |-> pD :> DAV],
          [prefix |-> pD, decl |-> (pD :> DAV) @@ (<< >> :> URN)],
          [prefix |-> << >>, decl |-> (<< >> :> DAV) @@ (pP :> URN)]}

Doc(root, local, kids) == Elem(root.prefix, <<local>>, root.decl, << >>, kids)
Inner(root, local, decl, kids) == Elem(root.prefix, <<local>>, decl, << >>, kids)

Item(dir, name) == [dir |-> dir, name |-> name, type |-> <<"text", "/", "plain">>, href |-> <<"/">> \o name]
Folder == Item(TRUE, <<"docs">>)
AFile  == Item(FALSE, <<"a", "&", "b">>)
Plain  == <<Folder, AFile>>

Of(reader, doc, items) == [reader |-> reader, doc |-> doc, text |-> Spell(doc), items |-> items]
Garbled(reader, text0) == [reader |-> reader, doc |-> NoDocument, text |-> text0, items |-> <<Folder>>]

Asked(root, decl, names) ==
    Of("propfind", Doc(root, "propfind", <<Inner(root, "prop", decl, names)>>), Plain)
AskedFor ==
    {Asked(root, decl, <<a>>) : root \in Roots, decl \in {NoDecl, pP :> DAV}, a \in Spellings}
    \cup {Asked(root, NoDecl, <<a, b>>) : root \in Roots, a \in Spellings, b \in Spellings}

-----------------------------------------------------------------------------
(* Bodies of PROPFIND that are not a list of names.                        *)
D0 == [prefix |-> pD, decl |-> pD :> DAV]
D1 == [prefix |-> << >>, decl |-> << >> :> DAV]
In(local, kids)   == Elem(pD, <<local>>, NoDecl, << >>, kids)
Comments == <<Ignored(<<"<", "!", "-", "-", "<", "a", ">", "-", "-", ">">>),
              Ignored(<<"<", "?", "php", " ", "x", ">", "?", ">">>),
              Ignored(<<"<", "!", "DOCTYPE", " ", "[", "<", "!", "ELEMENT", " ", "'", ">", "'", ">", "]", ">">>)>>
Prolog == <<"<", "?", "xml", " ", "version", "=", "'", "1.0", "'", " ", "encoding", "=", "\"", "utf-8", "\"", "?", ">">>

Flags == {In("allprop", << >>), In("propname", << >>),
          In("prop", <<Bare(pD, "getetag")>>), In("include", <<Bare(pD, "color")>>)}
Odd   == {In("prop", << >>), In("prop", <<Txt(<<"getetag">>)>>),
          In("prop", <<In("getetag", <<Txt(<<" ">>)>>)>>),
          In("prop", <<In("getetag", Comments)>>),
          In("prop", Comments \o <<Bare(pD, "getetag"), Txt(<<"x">>), Verbatim(<<"<">>)>>),
          In("prop", <<In("getetag", <<Bare(pD, "a")>>)>>),
          In("allprop", <<Bare(pD, "prop"), In("x", <<Bare(pD, "prop")>>)>>),
          In("later", <<In("prop", <<Bare(pD, "getetag")>>)>>), Bare(pP, "allprop")}

Bodies ==
    {Doc(D0, "propfind", <<a>>) : a \in Flags \cup Odd}
    \cup {Doc(D0, "propfind", <<a, Txt(<<" ">>), b>>) : a \in Flags, b \in Flags \cup Odd}
    \cup {Doc(D1, "propfind", <<Bare(<< >>, "allprop")>>), Doc(D0, "lockinfo", <<Bare(pD, "allprop")>>),
          Doc([prefix |-> pD, decl |-> pD :> URN], "propfind", <<Bare(pD, "allprop")>>)}

Described == {Of("propfind", doc, <<Folder>>) : doc \in Bodies}
                \cup {Of("propfind", Doc(D0, "propfind", <<a>>), <<AFile>>) :
                         a \in {In("allprop", << >>), In("propname", << >>)}}

-----------------------------------------------------------------------------
(* Names of items that could be taken for markup, or be lost.              *)
ItemNames ==
    {<< >>, <<".">>, <<"..", "a">>, <<"<", "b", ">">>, <<"a", "&", "amp", ";">>, <<"]", "]", ">">>,
     <<"a", "\"", "'">>, <<"a", "\r", "\n", "\t">>, <<"a", "BEL">>, <<"bad UTF-8">>, <<" ", "a">>,
     <<"&">>, <<"D", ":", "a">>}
WhatIs == Doc(D1, "propfind", <<Elem(<< >>, <<"prop">>, NoDecl, << >>,
             <<Bare(<< >>, "displayname"), Bare(<< >>, "resourcetype"), Bare(<< >>, "getcontenttype")>>)>>)
Shopping == {Of("propfind", WhatIs, <<Item(dir, name), Plain[1]>>) : dir \in BOOLEAN, name \in ItemNames}

-----------------------------------------------------------------------------
(* Texts that are no document, and bodies of LOCK.                         *)
Open  == <<"<", "D", ":", "propfind", " ", "xmlns", ":", "D", "=", "\"", "DAV", ":", "\"", ">">>
All   == <<"<", "D", ":", "allprop", "/", ">">>
Shut  == <<"<", "/", "D", ":", "propfind", ">">>
Texts ==
    {<<" ">>, Open, Open \o All, Open \o All \o <<"<", "/", "propfind", ">">>,
     Open \o <<"<", "D", ":", "allprop", ">">> \o Shut, Open \o All \o <<"&", "nbsp", ";">> \o Shut,
     Open \o All \o CDATAEnd \o Shut, Open \o All \o <<"BEL">> \o Shut,
     Open \o <<"<", "!", "-", "-", " ">> \o All \o Shut, Open \o <<"<", "!", "[", "CDATA", "[">> \o Shut,
     Open \o <<"<", "/", "D", ":", "allprop", ">">> \o All \o Shut,
     <<"<", "D", ":", "propfind", " ", "xmlns", ":", "D", "=", "DAV", ":", ">">> \o All \o Shut,
     <<"<", "D", ":", "propfind", " ", "xmlns", ":", "D", "=", "\"", "<", "\"", ">">> \o All \o Shut,
     <<"<", "?", "xml", " ", "version", "=", "\"", "1.1", "\"", "?", ">">> \o Open \o All \o Shut,
     <<"<", "?", "xml", " ", "encoding", "=", "\"", "latin", "\"", "?", ">">> \o Open \o All \o Shut,
     <<"x">> \o Shut, <<"<", "!", "DOCTYPE">>, <<"<", "1", "/", ">">>, <<"<", "a", "/", " ", ">">>,
     Open \o All \o <<"&", "#", "0", ";">> \o Shut, Open \o All \o <<"<", "?", "xml">>}
Malformed == {Garbled(reader, t) : reader \in {"propfind", "lockinfo", "proppatch"}, t \in Texts}
                \cup {Garbled(reader, << >>) : reader \in {"propfind", "lockinfo", "proppatch"}}

Scopes == {In("lockscope", <<In("exclusive", << >>)>>), In("lockscope", <<In("shared", << >>)>>),
           In("lockscope", << >>), In("locktype", <<Txt(<<" ">>), In("write", <<Txt(<<"x">>)>>)>>),
           In("exclusive", << >>), In("owner", <<Txt(<<"a", "&">>), Bare(pD, "href")>>)}
Locks == {Of("lockinfo", Doc(root, local, Comments \o s), << >>) :
             root \in {D0, D1}, local \in {"lockinfo", "lock"},
             s \in {<<a, b>> : a \in Scopes, b \in Scopes}
                     \cup {<<a, b, c>> : a, b \in Scopes, c \in {In("locktype", <<In("write", << >>)>>)}}}

-----------------------------------------------------------------------------
(* Bodies of PROPPATCH: values with names of their own.                    *)
Lang(kids, lang) == Elem(pP, <<"color">>, NoDecl, <<[prefix |-> <<"xml">>, local |-> <<"lang">>, value |-> lang]>>, kids)
Attribute(prefix, local, value) == [prefix |-> prefix, local |-> <<local>>, value |-> value]
Values ==
    {<< >>, <<Txt(<<"a", "<", "&", "\"">>), Verbatim(<<"<", "b", ">", "\r", "\n">>)>>, Comments,
     <<Bare(pD, "href")>>, <<Bare(<< >>, "href")>>, <<Decl(pP, "href", pP :> DAV)>>,
     <<Decl(<< >>, "x", << >> :> URN), Bare(<< >>, "y")>>,
     <<Elem(<< >>, <<"x">>, << >> :> URN, << >>, <<Decl(<< >>, "y", << >> :> NoSpace), Bare(<< >>, "z")>>)>>,
     <<Elem(pD, <<"x">>, NoDecl, <<Attribute(pP, "at", <<"<", "\"", "\n">>), Attribute(<< >>, "b", << >>)>>, <<Bare(pP, "y")>>)>>,
     <<Elem(pD, <<"x">>, pP :> DAV, <<Attribute(pP, "at", <<"a">>)>>, <<Bare(pP, "y"), Decl(pD, "z", pD :> URN)>>)>>,
     <<Elem(pP, <<"color">>, NoDecl, << >>, <<Txt(<<"red">>)>>)>>}
Props(kids) == {Elem(pP, <<"color">>, NoDecl, << >>, kids), Lang(kids, <<"en">>),
                Elem(<< >>, <<"color">>, << >> :> URN, << >>, kids)}
Update(ops) == Elem(pD, <<"propertyupdate">>, (pD :> DAV) @@ (pP :> URN), << >>, ops)
Patches ==
    {Of("proppatch", Update(<<In(op, <<In("prop", <<p>>)>>)>>), << >>) :
        op \in {"set", "remove"}, p \in UNION {Props(v) : v \in Values}}
    \cup {Of("proppatch", Update(<<In("set", <<In("prop", <<p, q>>)>>), In("remove", <<In("prop", <<Bare(pP, "a")>>)>>)>>), << >>) :
             p \in Props(<<Bare(<< >>, "x")>>), q \in {Lang(<< >>, <<"fr">>), Bare(pD, "b")}}
    \cup {Of("proppatch", Update(ops), << >>) :
             ops \in {<< >>, <<In("set", << >>)>>, <<In("set", <<In("prop", << >>)>>)>>, <<In("move", << >>)>>,
                      <<In("set", <<In("prop", <<Bare(pP, "a")>>), In("prop", <<Bare(pP, "b")>>)>>)>>,
                      <<In("set", <<Elem(pD, <<"prop">>, NoDecl, <<[prefix |-> <<"xml">>, local |-> <<"lang">>, value |-> <<"de">>]>>,
                                         <<Bare(pP, "a"), Lang(<< >>, << >>)>>)>>)>>}}

MCRequests == AskedFor \cup Described \cup Shopping \cup Malformed \cup Locks \cup Patches

(* An element that is asked for besides all properties.                    *)
MCIncluded ==
    {Of("propfind", Doc(D0, "propfind", <<In("allprop", << >>), In("include", <<a>>)>>), <<Folder>>) :
        a \in {Bare(pD, "getetag"), Bare(pD, "color")}}

=============================================================================
