----------------------------- MODULE DavReader -----------------------------
(***************************************************************************)
(* What the server reads in the body of a request: the decoding of an      *)
(* element into a struct (webdav/internal/xml/read.go) and the readers of  *)
(* the bodies of PROPFIND, LOCK and PROPPATCH (webdav/xml.go).             *)
(*                                                                         *)
(* A result holds the decoder and the value read, or the kind of failure:  *)
(* "EOF" if the input ended, "error" for all others.                       *)
(***************************************************************************)
EXTENDS XMLDecoder, DavTypes

Done(d, val) == [d |-> d, val |-> val, err |-> ""]
Stop(kind)   == [err |-> kind]
Then(t)      == IF Failed(t.tok) THEN Stop(t.tok.kind) ELSE Done(t.d, << >>)

Zero(type) ==
    LET Of(fields) ==
            [name \in {f.field : f \in fields} |->
                IF \E f \in fields : f.field = name /\ f.type = "struct{}" THEN FALSE ELSE << >>]
    IN  Of(ToSet(Types[type].name \o Types[type].fields))

-----------------------------------------------------------------------------
(* The UnmarshalXML methods of webdav/xml.go.                              *)
RECURSIVE PropNames(_, _), PropValues(_, _, _), xmlValue(_, _, _)

(* propfindProps: the names of the properties, which must be empty.        *)
PropNames(d, names) ==
    LET Add(name, t) ==
            IF t.tok.kind = "end" THEN PropNames(t.d, Append(names, name))
            ELSE Stop(IF Failed(t.tok) THEN t.tok.kind ELSE "error")
        On(t) ==
            CASE Failed(t.tok) -> Stop(t.tok.kind)
              [] t.tok.kind = "end" -> IF names = << >> THEN Stop("error") ELSE Done(t.d, names)
              [] t.tok.kind = "start" -> Add(t.tok.name, next(t.d))
              [] OTHER -> PropNames(t.d, names)
    IN  On(next(d))

(* xmlValue: the contents of an element, encoded anew.                     *)
xmlValue(d, e, start) ==
    LET Encoded(t, f) == IF f.failed THEN Stop("error") ELSE xmlValue(t.d, f, start)
        On(t) ==
            CASE Failed(t.tok) -> Stop(t.tok.kind)
              [] t.tok.kind = "end" /\ t.tok.name = start.name -> Done(t.d, e.out)
              [] OTHER -> Encoded(t, EncodeToken(e, t.tok))
    IN  On(next(d))

(* unmarshalInterface: the method must have read the whole element.        *)
Whole(r) == CASE r.err # "" -> r
              [] r.err = "" /\ AtEOF(r.d) -> Done(popEOF(r.d), r.val)
              [] OTHER -> Stop("error")

xmlLang(start, default) ==
    LET I == {i \in DOMAIN start.attr : start.attr[i].name = Name(xmlURL, <<"lang">>)}
    IN  IF I = {} THEN default ELSE start.attr[Min(I)].value

(* proppatchProps: the names of the properties and their values.           *)
PropValues(d, lang, props) ==
    LET Add(start, v) ==
            IF v.err # "" THEN v
            ELSE PropValues(v.d, lang, Append(props, [name  |-> start.name,
                                                      lang  |-> xmlLang(start, lang),
                                                      inner |-> v.val]))
        On(t) ==
            CASE Failed(t.tok) -> Stop(t.tok.kind)
              [] t.tok.kind = "end" -> IF props = << >> THEN Stop("error") ELSE Done(t.d, props)
              [] t.tok.kind = "start" ->
                   Add(t.tok, Whole(xmlValue(pushEOF(t.d), Printer, t.tok)))
              [] OTHER -> PropValues(t.d, lang, props)
    IN  On(next(d))

-----------------------------------------------------------------------------
(* read.go: unmarshal, unmarshalPath.                                      *)
RECURSIVE unmarshal(_, _, _, _), Content(_, _, _, _), unmarshalPath(_, _, _, _, _), PathContent(_, _, _, _)

(* The decoder after a result, with a value made of the result's.          *)
OrError(r, val) == IF r.err # "" THEN r ELSE Done(r.d, val)

Assign(d, val, f, start) ==
    LET Stored(r) == OrError(r, [val EXCEPT ![f.field] = r.val])
    IN  Stored(unmarshal(d, f.type, start, val[f.field]))

IsType(names, start) ==
    \A i \in DOMAIN names : /\ names[i].name \in {<< >>, start.name.local}
                            /\ names[i].xmlns \in {NoSpace, start.name.space}

unmarshal(d, type, start, old) ==
    LET Appended(r) == OrError(r, Append(old, r.val))
        Value(r)    == OrError(r, IF type = "owner" THEN r.val.InnerXML ELSE r.val)
    IN  CASE type = "struct{}"       -> OrError(Then(Skip(d)), TRUE)
          [] type = "propfindProps"  -> Whole(PropNames(pushEOF(d), old))
          [] type = "proppatchProps" -> Whole(PropValues(pushEOF(d), xmlLang(start, << >>), old))
          [] type = "[]setRemove"    -> Appended(unmarshal(d, "setRemove", start, Zero("setRemove")))
          [] OTHER ->
               IF ~IsType(xmlname[type], start) THEN Stop("error")
               ELSE Value(Content(d, type,
                                  IF type = "owner" THEN Zero(type)
                                  ELSE [old EXCEPT !["XMLName"] = start.name], d.in))

(* The elements within an open element, up to its end; from is the input   *)
(* after its start.                                                        *)
Content(d, type, val, from) ==
    LET Fields(mode) == SelectSeq(getTypeInfo[type], LAMBDA f : f.mode = mode)
        Next(r) == IF r.err # "" THEN r ELSE Content(r.d, type, r.val, from)
        Unknown(t, any) == IF any # << >> THEN Assign(t.d, val, any[1], t.tok)
                           ELSE OrError(Then(Skip(t.d)), val)
        Child(t, path) == IF path.consumed THEN path.result
                          ELSE Unknown(t, Fields("any"))
        Ended(t, raw) == Done(t.d, IF raw = << >> THEN val
                                   ELSE [val EXCEPT ![raw[1].field] =
                                             SubSeq(from, 1, Len(from) - Len(d.in))])
        On(t) == CASE Failed(t.tok) -> Stop(t.tok.kind)
                   [] t.tok.kind = "end" -> Ended(t, Fields("innerxml"))
                   [] t.tok.kind = "start" ->
                        Next(Child(t, unmarshalPath(t.d, type, val, << >>, t.tok)))
                   [] OTHER -> Content(t.d, type, val, from)
    IN  On(Token(d))

(* The first field that start is, or is on the path to, below parents.     *)
unmarshalPath(d, type, val, parents, start) ==
    LET Exact(f) == f.parents = parents /\ f.name = start.name.local
        Leads(f) == /\ Len(f.parents) > Len(parents)
                    /\ f.parents[Len(parents) + 1] = start.name.local
        Fits(f)  == /\ f.mode \in {"element", "any"}
                    /\ f.xmlns \in {NoSpace, start.name.space}
                    /\ IsPrefix(parents, f.parents)
                    /\ Exact(f) \/ Leads(f)
        Taken(f) == IF Exact(f) THEN Assign(d, val, f, start)
                    ELSE PathContent(d, type, val, Append(parents, start.name.local))
        Chosen(fitting) == IF fitting = << >> THEN [consumed |-> FALSE]
                           ELSE [consumed |-> TRUE, result |-> Taken(fitting[1])]
    IN  Chosen(SelectSeq(getTypeInfo[type], Fits))

PathContent(d, type, val, parents) ==
    LET Next(r) == IF r.err # "" THEN r ELSE PathContent(r.d, type, r.val, parents)
        Child(t, path) == IF path.consumed THEN path.result ELSE OrError(Then(Skip(t.d)), val)
        On(t) == CASE Failed(t.tok) -> Stop(t.tok.kind)
                   [] t.tok.kind = "end" -> Done(t.d, val)
                   [] t.tok.kind = "start" ->
                        Next(Child(t, unmarshalPath(t.d, type, val, parents, t.tok)))
                   [] OTHER -> PathContent(t.d, type, val, parents)
    IN  On(Token(d))

(* Decoder.Decode: the first element is read, what follows it is not.      *)
RECURSIVE Decode(_, _)
Decode(d, type) ==
    LET On(t) == CASE Failed(t.tok) -> Stop(t.tok.kind)
                   [] t.tok.kind = "start" -> unmarshal(t.d, type, t.tok, Zero(type))
                   [] OTHER -> Decode(t.d, type)
    IN  On(Token(d))

-----------------------------------------------------------------------------
(* The readers.  r is what Decode returns for the body.                    *)
readPropfind(body, r) ==
    LET Legal(pf) == /\ pf.Include # << >> => pf.Allprop
                     /\ pf.Allprop => pf.Prop = << >> /\ ~pf.Propname
                     /\ ~(pf.Prop # << >> /\ pf.Propname)
                     /\ pf.Propname \/ pf.Allprop \/ pf.Prop # << >>
    IN  IF body = << >> THEN Read([Zero("propfind") EXCEPT !.Allprop = TRUE])
        ELSE IF r.err # "" \/ ~Legal(r.val) THEN Refused(400) ELSE Read(r.val)

readLockInfo(body, r) ==
    LET Legal(li) == li.Exclusive /\ ~li.Shared /\ li.Write
    IN  CASE body = << >>  -> Read(Zero("lockInfo"))
          [] body # << >> /\ r.err # "" -> Refused(400)
          [] OTHER -> IF Legal(r.val) THEN Read(r.val) ELSE Refused(501)

readProppatch(body, r) ==
    LET Is(op, local) == op.XMLName = Name(DAV, <<local>>)
        Legal(op) == \/ Is(op, "set")
                     \/ Is(op, "remove") /\ \A i \in DOMAIN op.Prop : op.Prop[i].inner = << >>
        Checked(ops) ==
            IF \E i \in DOMAIN ops : ~Legal(ops[i]) THEN Refused(400)
            ELSE Read([i \in DOMAIN ops |->
                          [remove |-> Is(ops[i], "remove"), props |-> ops[i].Prop]])
    IN  IF r.err # "" THEN Refused(400) ELSE Checked(r.val.SetRemove)

(* What reader makes of a body, decoded into a value of the reader's type. *)
TypeOf == [propfind |-> "propfind", lockinfo |-> "lockInfo", proppatch |-> "propertyupdate"]

ReadWith(reader, body, r) ==
    CASE reader = "propfind"  -> readPropfind(body, r)
      [] reader = "lockinfo"  -> readLockInfo(body, r)
      [] reader = "proppatch" -> readProppatch(body, r)

ReadText(reader, body) == ReadWith(reader, body, Decode(Decoder(body), TypeOf[reader]))

=============================================================================
