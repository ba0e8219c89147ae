-------------------------- MODULE PropRequestProofs --------------------------
(***************************************************************************)
(* Proofs about the answers to a PROPFIND, for every list of requests,     *)
(* every reader of bodies, every item and every property asked for: the    *)
(* encoder is left as it was found, element by element, and so no response *)
(* reaches the next one.                                                   *)
(*                                                                         *)
(* The argument follows the encoder upwards: a start tag changes the       *)
(* printer in a known way (StartOpens), the end tag undoes it (EndCloses), *)
(* a value, a field, a propstat and a response are start and end tags      *)
(* around what leaves no trace (...LeavesNoTrace).                         *)
(***************************************************************************)
EXTENDS PropRequest, FiniteSetTheorems, SequenceTheorems, WellFoundedInduction, TLAPS

(* A sequence, of whatever it has in it.                                   *)
IsSeq(s) == s \in Seq(ToSet(s))

(* A sequence over some set is one.                                        *)
LEMMA OfSome ==
    ASSUME NEW T, NEW s \in Seq(T)
    PROVE  IsSeq(s)
<1>1. Len(s) \in Nat /\ s \in [1..Len(s) -> T] /\ DOMAIN s = 1..Len(s)
  BY LenProperties
<1>2. s \in [1..Len(s) -> ToSet(s)]
  BY <1>1 DEF ToSet
<1> QED
  BY <1>1, <1>2, SeqDef DEF IsSeq

(* The empty sequence is one.                                              *)
LEMMA OfNone == IsSeq(<< >>)
<1>1. << >> \in Seq({})
  OBVIOUS
<1> QED
  BY <1>1, OfSome

(* A sequence is one over every set that has its elements.                 *)
LEMMA SeqIn ==
    ASSUME NEW s, IsSeq(s), NEW T, ToSet(s) \subseteq T
    PROVE  s \in Seq(T)
  BY SeqMonotonic DEF IsSeq

(* What Append has put at the end, Last finds and Front takes away (the    *)
(* stack of open elements).                                                *)
LEMMA Appended ==
    ASSUME NEW s, NEW x, IsSeq(s)
    PROVE  /\ IsSeq(Append(s, x)) /\ Append(s, x) # << >>
           /\ Front(Append(s, x)) = s /\ Last(Append(s, x)) = x
<1> DEFINE T == ToSet(s) \cup {x}
<1>1. s \in Seq(T) /\ x \in T
  <2> s \in Seq(T)
    BY SeqIn
  <2> HIDE DEF T
  <2> QED
    BY DEF T
<1> HIDE DEF T
<1>2. Append(s, x) \in Seq(T) /\ Len(Append(s,x)) = Len(s) + 1 /\ Len(s) \in Nat
      /\ \A i \in 1..Len(s) : Append(s, x)[i] = s[i]
      /\ Append(s, x)[Len(s) + 1] = x
  BY <1>1
<1>3. Last(Append(s, x)) = x
   BY <1>2 DEF Last
<1>4. Front(Append(s, x)) = s
  <2>1. Front(Append(s, x)) = SubSeq(Append(s,x), 1, Len(s))
    BY <1>2 DEF Front
  <2>2. /\ SubSeq(Append(s,x), 1, Len(s)) \in Seq(T)
         /\ Len(SubSeq(Append(s,x), 1, Len(s))) = Len(s)
         /\ \A i \in 1 .. Len(s) : SubSeq(Append(s,x), 1, Len(s))[i] = s[i]
    BY <1>1, <1>2
  <2> QED
    BY <2>1, <2>2, <1>1, SeqEqual
<1>5. IsSeq(Append(s, x))
  BY <1>2, OfSome
<1>6. Append(s, x) # << >>
  BY <1>2
<1> QED
  BY <1>3, <1>4, <1>5, <1>6, Zenon

(* What was put before a sequence is its head, and Drop takes it away (the *)
(* stack of prefixes).                                                     *)
LEMMA Pushed ==
    ASSUME NEW s, NEW x, IsSeq(s)
    PROVE  /\ IsSeq(<<x>> \o s) /\ <<x>> \o s # << >>
           /\ (<<x>> \o s)[1] = x /\ Drop(<<x>> \o s, 1) = s
           /\ Len(s) \in Nat /\ Len(<<x>> \o s) = Len(s) + 1
           /\ \A i \in 1..Len(s) : (<<x>> \o s)[i + 1] = s[i]
<1> DEFINE T == ToSet(s) \cup {x}  t == <<x>> \o s
<1>1. s \in Seq(T) /\ x \in T /\ <<x>> \in Seq(T)
  <2> s \in Seq(T)
    BY SeqIn
  <2> HIDE DEF T
  <2> QED
    BY DEF T
<1> HIDE DEF T
<1>2. t \in Seq(T) /\ Len(t) = Len(s) + 1 /\ Len(s) \in Nat
      /\ \A i \in 1..Len(s) : t[i + 1] = s[i]
      /\ t[1] = x
  BY <1>1
<1>4. Drop(t, 1) = s
  <2> HIDE DEF t
  <2>2. /\ SubSeq(t, 2, Len(t)) \in Seq(T)
         /\ Len(SubSeq(t, 2, Len(t))) = Len(s)
         /\ \A i \in 1 .. Len(s) : SubSeq(t, 2, Len(t))[i] = s[i]
    BY <1>1, <1>2
  <2>3. Drop(t, 1) = SubSeq(t, 2, Len(t))
    BY DEF Drop
  <2> QED
    BY <2>3, <2>2, <1>1, SeqEqual
<1>5. IsSeq(t)
  BY <1>2, OfSome
<1>6. t # << >>
  <2> HIDE DEF t
  <2> QED
    BY <1>2
<1> QED
  BY <1>2, <1>4, <1>5, <1>6

-----------------------------------------------------------------------------
(* A record with the fields of a printer.                                  *)
IsPrinter(p) == p \in [out : {p.out}, defaultNS : {p.defaultNS}, attrNS : {p.attrNS},
                       attrPrefix : {p.attrPrefix}, prefixes : {p.prefixes}, tags : {p.tags},
                       seq : {p.seq}, failed : {p.failed}]

(* Two printers that differ in nothing but the text written.               *)
Same(q, p) ==
    /\ IsPrinter(q) /\ IsPrinter(p)
    /\ q.defaultNS = p.defaultNS /\ q.attrNS = p.attrNS /\ q.attrPrefix = p.attrPrefix
    /\ q.prefixes = p.prefixes /\ q.tags = p.tags /\ q.seq = p.seq /\ q.failed = p.failed

(* A printer without an error and without a default name space.            *)
Ready(p) ==
    /\ IsPrinter(p) /\ IsSeq(p.prefixes) /\ IsSeq(p.tags)
    /\ p.defaultNS = NoSpace /\ p.failed = FALSE

(* The entry that undoes the declaration of a default name space.          *)
Undeclared == [mark |-> FALSE, prefix |-> Default, url |-> NoSpace]

(* The printer p after the start tag of an element called name.            *)
Opened(q, p, name) ==
    /\ IsPrinter(q)
    /\ q.attrNS = p.attrNS /\ q.attrPrefix = p.attrPrefix /\ q.seq = p.seq /\ q.failed = FALSE
    /\ q.tags = Append(p.tags, name)
    /\ q.defaultNS = name.space
    /\ q.prefixes = IF name.space = NoSpace THEN <<Mark>> \o p.prefixes
                    ELSE <<Undeclared>> \o (<<Mark>> \o p.prefixes)

(* Text alone does not make a printer unready.                             *)
LEMMA SameStaysReady ==
    ASSUME NEW p, NEW q, Ready(p), Same(q, p)
    PROVE  Ready(q)
  BY DEF Ready, Same

(* To leave no trace twice is to leave none.                               *)
LEMMA SameAgain ==
    ASSUME NEW p, NEW q, NEW r, Same(q, p), Same(r, q)
    PROVE  Same(r, p)
  BY DEF Same

(* A printer is the same as itself.                                        *)
LEMMA Stays == ASSUME NEW p, IsPrinter(p) PROVE Same(p, p)
  BY DEF Same

(* Write leaves no trace but the text.                                     *)
LEMMA Wrote ==
    ASSUME NEW p, NEW t, IsPrinter(p)
    PROVE  Same(Write(p, t), p)
  BY DEF Same, Write, IsPrinter

(* markPrefix and pushPrefix put different things on the stack.            *)
LEMMA MarkIsNotAnEntry == Mark.mark = TRUE /\ Undeclared.mark = FALSE
  BY DEF Mark, Undeclared

(* The mark is found on top of the stack, or under one entry.              *)
LEMMA FirstMark ==
    ASSUME NEW s, IsSeq(s), NEW e, e.mark = FALSE
    PROVE  /\ MarkedAt(<<Mark>> \o s) = 1
           /\ MarkedAt(<<e>> \o (<<Mark>> \o s)) = 2
<1> DEFINE t == <<Mark>> \o s
           u == <<e>> \o t
           Places(stack) == {i \in DOMAIN stack : stack[i].mark} \cup {Len(stack) + 1}
<1>1. IsSeq(t) /\ t[1] = Mark /\ Len(t) \in Nat /\ Len(t) >= 1
  BY Pushed
<1>2. IsSeq(u) /\ u[1] = e /\ Len(u) \in Nat /\ Len(u) >= 2 /\ u[2] = Mark
  <2> HIDE DEF t
  <2> QED
    BY Pushed, <1>1
<1>3. DOMAIN t = 1..Len(t) /\ DOMAIN u = 1..Len(u)
  <2> HIDE DEF t, u
  <2> QED
    BY <1>1, <1>2, LenProperties DEF IsSeq
<1> HIDE DEF t, u
<1>4. 1 \in Places(t) /\ \A i \in Places(t) : i >= 1
  BY <1>1, <1>3, MarkIsNotAnEntry
<1>5. 2 \in Places(u) /\ \A i \in Places(u) : i >= 2
  BY <1>2, <1>3, MarkIsNotAnEntry
<1>6. Places(t) \subseteq Nat /\ Places(u) \subseteq Nat
  BY <1>1, <1>2, <1>3
<1>7. MarkedAt(t) = Min(Places(t)) /\ MarkedAt(u) = Min(Places(u))
  BY Zenon DEF MarkedAt
<1> HIDE DEF Places
<1>8. Min(Places(t)) = 1 /\ Min(Places(u)) = 2
  BY <1>4, <1>5, <1>6 DEF Min
<1> QED
  BY <1>7, <1>8 DEF t, u

-----------------------------------------------------------------------------
(* f holds the stages of the loop of Op over s.                            *)
After(Op(_, _), base, s, f) == f = [i \in 0..Len(s) |-> IF i = 0 THEN base ELSE Op(f[i - 1], s[i])]

(* The lengths of the shortest sequences.                                  *)
LEMMA NoLength == Len(<< >>) = 0 /\ \A e : Len(<<e>>) = 1
  OBVIOUS

(* The loops over no element and over one: popPrefix.                      *)
LEMMA NoneRestored == ASSUME NEW p PROVE Loop(Restore, p, << >>) = p
<1> DEFINE F(f) == After(Restore, p, << >>, f)
<1>1. F([i \in 0..0 |-> p])
  BY SMT DEF After
<1>2. F(CHOOSE f : F(f))
  BY <1>1, Zenon
<1>3. Loop(Restore, p, << >>) = (CHOOSE f : F(f))[0]
  BY NoLength, Zenon DEF Loop, After
<1> HIDE DEF F
<1>4. \A f : F(f) => f[0] = p
  BY SMT DEF After, F
<1> QED
  BY <1>2, <1>3, <1>4

LEMMA OneRestored == ASSUME NEW p, NEW e PROVE Loop(Restore, p, <<e>>) = Restore(p, e)
<1> DEFINE F(f) == After(Restore, p, <<e>>, f)
<1>1. F([i \in 0..1 |-> IF i = 0 THEN p ELSE Restore(p, e)])
  BY SMT DEF After
<1>2. F(CHOOSE f : F(f))
  BY <1>1, Zenon
<1>3. Loop(Restore, p, <<e>>) = (CHOOSE f : F(f))[1]
  BY NoLength, Zenon DEF Loop, After
<1>4. \A f : F(f) => f[1] = Restore(p, e)
  BY SMT DEF After
<1> HIDE DEF F
<1> QED
  BY <1>2, <1>3, <1>4

(* A start tag without attributes declares only the name space of its own  *)
(* name.                                                                   *)
LEMMA NoAttribute ==
    ASSUME NEW q, NEW name
    PROVE  Declared(q, Start(name, << >>)) = createNSPrefix(q, name.space, FALSE)
<1> DEFINE start == Start(name, << >>)
           Defined(r, a) == defineNS(r, a, start.name.space = NoSpace)
           Implied(r, a) == IF a.name.space = NoSpace \/ isNamespace(a.name) THEN r
                            ELSE createNSPrefix(r, a.name.space, TRUE)
           F(f) == After(Defined, q, << >>, f)
           G(f) == After(Implied, q, << >>, f)
<1>1. F([i \in 0..0 |-> q]) /\ G([i \in 0..0 |-> q])
  BY SMT DEF After
<1>2. F(CHOOSE f : F(f)) /\ G(CHOOSE f : G(f))
  BY <1>1, Zenon
<1>3. /\ Loop(Defined, q, << >>) = (CHOOSE f : F(f))[0]
      /\ Loop(Implied, q, << >>) = (CHOOSE f : G(f))[0]
  BY NoLength, Zenon DEF Loop, After
<1>4. \A f : (F(f) => f[0] = q) /\ (G(f) => f[0] = q)
  BY SMT DEF After
<1> HIDE DEF F, G
<1>5. Loop(Defined, q, << >>) = q /\ Loop(Implied, q, << >>) = q
  BY <1>2, <1>3, <1>4
<1>6. start.name = name /\ start.attr = << >>
  BY DEF Start
<1>7. Declared(q, start) = createNSPrefix(Loop(Implied, Loop(Defined, q, << >>), << >>), name.space, FALSE)
  BY <1>6, Zenon DEF Declared
<1> QED
  BY <1>5, <1>7

(* One attribute that is a declaration is declared before the name of the  *)
(* tag.                                                                    *)
LEMMA OneAttribute ==
    ASSUME NEW q, NEW name, NEW a
    PROVE  LET d == defineNS(q, a, name.space = NoSpace)
           IN  isNamespace(a.name) \/ a.name.space = NoSpace =>
                  Declared(q, Start(name, <<a>>)) = createNSPrefix(d, name.space, FALSE)
<1> DEFINE start == Start(name, <<a>>)
           d == defineNS(q, a, start.name.space = NoSpace)
           Defined(r, b) == defineNS(r, b, start.name.space = NoSpace)
           Implied(r, b) == IF b.name.space = NoSpace \/ isNamespace(b.name) THEN r
                            ELSE createNSPrefix(r, b.name.space, TRUE)
           F(f) == After(Defined, q, <<a>>, f)
           G(f) == After(Implied, d, <<a>>, f)
<1>1. F([i \in 0..1 |-> IF i = 0 THEN q ELSE d])
  BY SMT DEF After
<1>2. G([i \in 0..1 |-> IF i = 0 THEN d ELSE Implied(d, a)])
  <2> HIDE DEF d, Implied
  <2> QED
    BY SMT DEF After
<1>3. F(CHOOSE f : F(f)) /\ G(CHOOSE f : G(f))
  BY <1>1, <1>2, Zenon
<1>4. /\ Loop(Defined, q, <<a>>) = (CHOOSE f : F(f))[1]
      /\ Loop(Implied, d, <<a>>) = (CHOOSE f : G(f))[1]
  BY NoLength, Zenon DEF Loop, After
<1>5. \A f : (F(f) => f[1] = Defined(q, a)) /\ (G(f) => f[1] = Implied(d, a))
  <2> HIDE DEF d, Implied, Defined
  <2> QED
    BY SMT DEF After
<1> HIDE DEF F, G
<1>6. Loop(Defined, q, <<a>>) = d /\ Loop(Implied, d, <<a>>) = Implied(d, a)
  BY <1>3, <1>4, <1>5
<1>7. start.name = name /\ start.attr = <<a>>
  BY DEF Start
<1>8. Declared(q, start) = createNSPrefix(Loop(Implied, Loop(Defined, q, <<a>>), <<a>>), name.space, FALSE)
  BY <1>7, Zenon DEF Declared
<1> QED
  BY <1>6, <1>7, <1>8

-----------------------------------------------------------------------------
(* writeStart of an element without attributes: one mark, one open         *)
(* element, and one entry if the name has a name space.                    *)
LEMMA StartOpens ==
    ASSUME NEW p, NEW name, Ready(p), name.local # << >>
    PROVE  Opened(writeStart(p, setDefaultNamespace(Start(name, << >>))), p, name)
<1> DEFINE q == [markPrefix(p) EXCEPT !.tags = Append(@, name)]
<1>1. /\ IsPrinter(q) /\ q.failed = FALSE /\ q.defaultNS = NoSpace
      /\ q.attrNS = p.attrNS /\ q.attrPrefix = p.attrPrefix /\ q.seq = p.seq
      /\ q.tags = Append(p.tags, name) /\ q.prefixes = <<Mark>> \o p.prefixes
  BY DEF Ready, IsPrinter, markPrefix
<1>2. \A attr : LET start == Start(name, attr)
                IN  writeStart(p, start) = Tag(Declared(q, start), start)
  BY DEF writeStart, Start
<1> HIDE DEF q
<1>3. CASE name.space = NoSpace
  <2>1. setDefaultNamespace(Start(name, << >>)) = Start(name, << >>)
    BY <1>3 DEF setDefaultNamespace, Start
  <2>2. createNSPrefix(q, name.space, FALSE) = q
    BY <1>1, <1>3 DEF createNSPrefix
  <2>3. Declared(q, Start(name, << >>)) = q
    BY <2>2, NoAttribute
  <2>4. Same(Tag(q, Start(name, << >>)), q)
    BY <1>1, Wrote DEF Tag
  <2>5. writeStart(p, setDefaultNamespace(Start(name, << >>))) = Tag(q, Start(name, << >>))
    BY <1>2, <2>1, <2>3
  <2> QED
    BY <1>1, <1>3, <2>4, <2>5 DEF Same, Opened
<1>4. CASE name.space # NoSpace
  <2> DEFINE a == Attr(Name(NoSpace, xmlns), name.space)
             start == Start(name, <<a>>)
             d == pushPrefix(q, Default, name.space)
  <2>1. setDefaultNamespace(Start(name, << >>)) = start
    BY <1>4 DEF setDefaultNamespace, Start
  <2>2. a.name = Name(NoSpace, xmlns) /\ a.value = name.space /\ isNamespace(a.name)
    BY DEF Attr, isNamespace, Name
  <2>3. defineNS(q, a, name.space = NoSpace) = d
    <3> HIDE DEF a
    <3> QED
      BY <1>1, <1>4, <2>2 DEF defineNS, Name
  <2>4. /\ IsPrinter(d) /\ d.failed = FALSE /\ d.defaultNS = name.space
        /\ d.attrNS = p.attrNS /\ d.attrPrefix = p.attrPrefix /\ d.seq = p.seq
        /\ d.tags = q.tags /\ d.prefixes = <<Undeclared>> \o q.prefixes
    BY <1>1 DEF pushPrefix, setAttrPrefix, nsForPrefix, IsPrinter, Undeclared, Default
  <2> HIDE DEF d, a
  <2>5. createNSPrefix(d, name.space, FALSE) = d
    BY <2>4 DEF createNSPrefix
  <2>6. Declared(q, start) = d
    BY <2>2, <2>3, <2>5, OneAttribute
  <2>7. Same(Tag(d, start), d)
    BY <2>4, Wrote DEF Tag
  <2>8. writeStart(p, setDefaultNamespace(Start(name, << >>))) = Tag(d, start)
    BY <1>2, <2>1, <2>6
  <2> QED
    BY <1>1, <1>4, <2>4, <2>7, <2>8 DEF Same, Opened
<1> QED
  BY <1>3, <1>4

(* The first element of a sequence, as a sequence.                         *)
LEMMA FirstOf ==
    ASSUME NEW t, NEW x, t[1] = x
    PROVE  SubSeq(t, 1, 1) = <<x>>
<1> DEFINE one == SubSeq(t, 1, 1)
<1>1. \A i \in 1..1 : t[i] \in {x}
  OBVIOUS
<1>2. /\ one \in Seq({x}) /\ Len(one) = IF 1 <= 1 THEN 1 - 1 + 1 ELSE 0
      /\ \A i \in 1 .. 1 - 1 + 1 : one[i] = t[1 + i - 1]
  BY <1>1, SubSeqProperties
<1> HIDE DEF one
<1>3. Len(one) = 1 /\ one[1] = x
  BY <1>2
<1>4. one \in [1..1 -> {x}]
  BY <1>2, <1>3, LenProperties
<1>5. one = [i \in 1..1 |-> x]
  BY <1>3, <1>4
<1>6. [i \in 1..1 |-> x] = <<x>>
  OBVIOUS
<1> QED
  BY <1>5, <1>6, Zenon DEF one

(* Two elements put before a sequence: the first, and what is left without *)
(* both.                                                                   *)
LEMMA PushedTwice ==
    ASSUME NEW s, NEW x, NEW y, IsSeq(s)
    PROVE  LET t == <<x>> \o (<<y>> \o s)
           IN  IsSeq(t) /\ Drop(t, 2) = s /\ SubSeq(t, 1, 1) = <<x>>
<1> DEFINE u == <<y>> \o s  t == <<x>> \o u  T == ToSet(s)
<1>1. IsSeq(u) /\ Len(s) \in Nat /\ Len(u) = Len(s) + 1 /\ \A i \in 1..Len(s) : u[i + 1] = s[i]
  BY Pushed
<1> HIDE DEF u
<1>2. IsSeq(t) /\ t[1] = x /\ Len(t) = Len(u) + 1 /\ \A i \in 1..Len(u) : t[i + 1] = u[i]
  BY <1>1, Pushed
<1> HIDE DEF t
<1>3. \A i \in 1..Len(s) : t[i + 2] = s[i]
  <2> TAKE i \in 1..Len(s)
  <2>1. i + 1 \in 1..Len(u) /\ (i + 1) + 1 = i + 2
    BY <1>1
  <2> QED
    BY <2>1, <1>1, <1>2
<1>4. s \in Seq(T)
  BY DEF IsSeq
<1>5. \A i \in 1..Len(s) : s[i] \in T
  BY <1>4, ElementOfSeq
<1>6. /\ SubSeq(t, 3, Len(t)) \in Seq(T)
      /\ Len(SubSeq(t, 3, Len(t))) = Len(s)
      /\ \A i \in 1..Len(s) : SubSeq(t, 3, Len(t))[i] = s[i]
  <2> HIDE DEF T
  <2>1. Len(t) = Len(s) + 2 /\ Len(s) \in Nat
    BY <1>1, <1>2
  <2>2. \A j \in 3..Len(t) : t[j] \in T
    <3> TAKE j \in 3..Len(t)
    <3>1. j - 2 \in 1..Len(s) /\ (j - 2) + 2 = j
      BY <2>1
    <3> QED
      BY <3>1, <1>3, <1>5
  <2>3. /\ SubSeq(t, 3, Len(t)) \in Seq(T)
        /\ Len(SubSeq(t, 3, Len(t))) = IF 3 <= Len(t) THEN Len(t) - 3 + 1 ELSE 0
        /\ \A i \in 1 .. Len(t) - 3 + 1 : SubSeq(t, 3, Len(t))[i] = t[3 + i - 1]
    BY <2>1, <2>2, SubSeqProperties
  <2>4. \A i \in 1..Len(s) : SubSeq(t, 3, Len(t))[i] = s[i]
    <3> TAKE i \in 1..Len(s)
    <3>1. i \in 1..(Len(t) - 3 + 1) /\ 3 + i - 1 = i + 2
      BY <2>1
    <3> QED
      BY <3>1, <2>3, <1>3
  <2> QED
    BY <2>1, <2>3, <2>4
<1>7. SubSeq(t, 3, Len(t)) = s
  <2> HIDE DEF T
  <2> QED
    BY <1>4, <1>6, SeqEqual
<1>8. Drop(t, 2) = s
  BY <1>7 DEF Drop
<1>9. SubSeq(t, 1, 1) = <<x>>
  BY <1>2, FirstOf
<1> QED
  BY <1>2, <1>8, <1>9 DEF t, u

(* writeEnd and popPrefix undo what writeStart has done, if the contents   *)
(* left no trace.                                                          *)
LEMMA EndCloses ==
    ASSUME NEW p, NEW q, NEW r, NEW name, Ready(p), name.local # << >>,
           Opened(q, p, name), Same(r, q)
    PROVE  Same(writeEnd(r, name), p)
<1> DEFINE t == <<"<", "/">> \o Written(r, name, FALSE) \o <<">">>
           w == [Write(r, t) EXCEPT !.tags = Front(@)]
<1>1. /\ IsPrinter(r) /\ r.failed = FALSE /\ r.defaultNS = name.space
      /\ r.attrNS = p.attrNS /\ r.attrPrefix = p.attrPrefix /\ r.seq = p.seq
      /\ r.tags = Append(p.tags, name)
      /\ r.prefixes = IF name.space = NoSpace THEN <<Mark>> \o p.prefixes
                      ELSE <<Undeclared>> \o (<<Mark>> \o p.prefixes)
  BY DEF Same, Opened
<1>2. r.tags # << >> /\ Last(r.tags) = name /\ Front(r.tags) = p.tags
  BY <1>1, Appended DEF Ready
<1>3. writeEnd(r, name) = popPrefix(w)
  BY <1>2 DEF writeEnd
<1>4. /\ IsPrinter(w) /\ w.failed = FALSE /\ w.defaultNS = name.space
      /\ w.attrNS = p.attrNS /\ w.attrPrefix = p.attrPrefix /\ w.seq = p.seq
      /\ w.tags = p.tags /\ w.prefixes = r.prefixes
  BY <1>1, <1>2 DEF IsPrinter, Write
<1> HIDE DEF w
<1>5. IsPrinter(p) /\ IsSeq(p.prefixes) /\ p.defaultNS = NoSpace /\ p.failed = FALSE
  BY DEF Ready
<1>6. CASE name.space = NoSpace
  <2>1. w.prefixes = <<Mark>> \o p.prefixes
    BY <1>1, <1>4, <1>6
  <2>2. MarkedAt(w.prefixes) = 1
    BY <1>5, <2>1, FirstMark, MarkIsNotAnEntry
  <2>3. Drop(w.prefixes, 1) = p.prefixes
    BY <1>5, <2>1, Pushed
  <2>4. SubSeq(w.prefixes, 1, 1 - 1) = << >>
    BY SubSeqEmpty
  <2>5. popPrefix(w) = [w EXCEPT !.prefixes = Drop(@, 1)]
    BY <2>2, <2>4, NoneRestored DEF popPrefix
  <2>6. popPrefix(w) = [w EXCEPT !.prefixes = p.prefixes]
    BY <2>3, <2>5, Zenon
  <2> DEFINE z == popPrefix(w)
  <2>7. /\ IsPrinter(z) /\ z.prefixes = p.prefixes /\ z.defaultNS = w.defaultNS /\ z.tags = w.tags
        /\ z.attrNS = w.attrNS /\ z.attrPrefix = w.attrPrefix /\ z.seq = w.seq
        /\ z.failed = w.failed
    BY <1>4, <2>6 DEF IsPrinter
  <2> QED
    BY <1>3, <1>4, <1>5, <1>6, <2>7 DEF Same
<1>7. CASE name.space # NoSpace
  <2> DEFINE v == [w EXCEPT !.defaultNS = NoSpace]
  <2>1. w.prefixes = <<Undeclared>> \o (<<Mark>> \o p.prefixes)
    BY <1>1, <1>4, <1>7
  <2>2. MarkedAt(w.prefixes) = 2
    BY <1>5, <2>1, FirstMark, MarkIsNotAnEntry
  <2>3. Drop(w.prefixes, 2) = p.prefixes /\ SubSeq(w.prefixes, 1, 2 - 1) = <<Undeclared>>
    BY <1>5, <2>1, PushedTwice
  <2>4. Restore(w, Undeclared) = v
    BY DEF Restore, setAttrPrefix, Undeclared, Default
  <2>5. /\ IsPrinter(v) /\ v.prefixes = w.prefixes /\ v.defaultNS = NoSpace /\ v.tags = w.tags
        /\ v.attrNS = w.attrNS /\ v.attrPrefix = w.attrPrefix /\ v.seq = w.seq
        /\ v.failed = w.failed
    BY <1>4 DEF IsPrinter
  <2> HIDE DEF v
  <2>6. popPrefix(w) = [v EXCEPT !.prefixes = Drop(@, 2)]
    BY <2>2, <2>3, <2>4, OneRestored DEF popPrefix
  <2>7. popPrefix(w) = [v EXCEPT !.prefixes = p.prefixes]
    BY <2>3, <2>5, <2>6, Zenon
  <2> DEFINE z == popPrefix(w)
  <2>8. /\ IsPrinter(z) /\ z.prefixes = p.prefixes /\ z.defaultNS = v.defaultNS /\ z.tags = v.tags
        /\ z.attrNS = v.attrNS /\ z.attrPrefix = v.attrPrefix /\ z.seq = v.seq
        /\ z.failed = v.failed
    BY <2>5, <2>7 DEF IsPrinter
  <2> QED
    BY <1>3, <1>4, <1>5, <2>5, <2>8 DEF Same
<1> QED
  BY <1>6, <1>7

-----------------------------------------------------------------------------
(* setDefaultNamespace adds an attribute and leaves the name.              *)
LEMMA KeepsItsName ==
    ASSUME NEW name
    PROVE  setDefaultNamespace(Start(name, << >>)).name = name
  BY DEF setDefaultNamespace, Start

(* Whatever a value is, its element has a name and no attribute but its    *)
(* name space, so writeStart does not refuse it.                           *)
LEMMA StartHasAName ==
    ASSUME NEW p, NEW type, NEW val, NEW finfo, finfo.name # << >>
    PROVE  \E name : /\ StartOf(p, type, val, finfo) = setDefaultNamespace(Start(name, << >>))
                     /\ name.local # << >>
<1> DEFINE own   == IF type \in DOMAIN xmlname THEN xmlname[type] ELSE << >>
           named == IF own = << >> THEN NoName
                    ELSE IF own[1].name # << >> THEN Name(own[1].xmlns, own[1].name)
                    ELSE val.XMLName
           name  == CASE named.local # << >> -> named
                      [] named.local = << >> /\ finfo.xmlns # NoSpace -> Name(finfo.xmlns, finfo.name)
                      [] OTHER -> Name(IF own # << >> THEN NoSpace ELSE p.defaultNS, finfo.name)
<1>1. StartOf(p, type, val, finfo) = setDefaultNamespace(Start(name, << >>))
  BY Zenon DEF StartOf, StartNamed, OwnName
<1>2. \A n : n.local = n.local
  OBVIOUS
<1>3. name.local # << >>
  <2> HIDE DEF named, own
  <2> QED
    BY DEF Name
<1> HIDE DEF name
<1> QED
  BY <1>1, <1>3, Zenon

(* marshalValue of a text, or of a struct with inner XML only.             *)
LEMMA SimpleValueLeavesNoTrace ==
    ASSUME NEW p, NEW type, NEW val, NEW finfo, Ready(p), finfo.name # << >>
    PROVE  Same(marshalSimple(p, type, val, finfo), p)
<1>1. PICK name : /\ StartOf(p, type, val, finfo) = setDefaultNamespace(Start(name, << >>))
                  /\ name.local # << >>
  BY StartHasAName
<1> DEFINE start == StartOf(p, type, val, finfo)
           q == writeStart(p, start)
           text == IF type = "string" THEN EscapeText(val) ELSE val.InnerXML
<1>2. start.name = name
  BY <1>1, KeepsItsName
<1>3. Opened(q, p, name)
  BY <1>1, StartOpens
<1>4. Same(Write(q, text), q)
  BY <1>3, Wrote DEF Opened
<1>5. marshalSimple(p, type, val, finfo) = writeEnd(Write(q, text), name)
  BY <1>2, Zenon DEF marshalSimple, writeElement
<1> QED
  BY <1>1, <1>3, <1>4, <1>5, EndCloses

-----------------------------------------------------------------------------
(* The loops of setParents over no element and over one.                   *)
LEMMA NoneClosed == ASSUME NEW p PROVE Loop(closeParent, p, << >>) = p
<1> DEFINE F(f) == After(closeParent, p, << >>, f)
<1>1. F([i \in 0..0 |-> p])
  BY SMT DEF After
<1>2. F(CHOOSE f : F(f))
  BY <1>1, Zenon
<1>3. Loop(closeParent, p, << >>) = (CHOOSE f : F(f))[0]
  BY NoLength, Zenon DEF Loop, After
<1> HIDE DEF F
<1>4. \A f : F(f) => f[0] = p
  BY SMT DEF After, F
<1> QED
  BY <1>2, <1>3, <1>4

LEMMA OneClosed == ASSUME NEW p, NEW e PROVE Loop(closeParent, p, <<e>>) = closeParent(p, e)
<1> DEFINE F(f) == After(closeParent, p, <<e>>, f)
<1>1. F([i \in 0..1 |-> IF i = 0 THEN p ELSE closeParent(p, e)])
  BY SMT DEF After
<1>2. F(CHOOSE f : F(f))
  BY <1>1, Zenon
<1>3. Loop(closeParent, p, <<e>>) = (CHOOSE f : F(f))[1]
  BY NoLength, Zenon DEF Loop, After
<1>4. \A f : F(f) => f[1] = closeParent(p, e)
  BY SMT DEF After
<1> HIDE DEF F
<1> QED
  BY <1>2, <1>3, <1>4

LEMMA NoneOpened == ASSUME NEW p PROVE Loop(openParent, p, << >>) = p
<1> DEFINE F(f) == After(openParent, p, << >>, f)
<1>1. F([i \in 0..0 |-> p])
  BY SMT DEF After
<1>2. F(CHOOSE f : F(f))
  BY <1>1, Zenon
<1>3. Loop(openParent, p, << >>) = (CHOOSE f : F(f))[0]
  BY NoLength, Zenon DEF Loop, After
<1> HIDE DEF F
<1>4. \A f : F(f) => f[0] = p
  BY SMT DEF After, F
<1> QED
  BY <1>2, <1>3, <1>4

LEMMA OneOpened == ASSUME NEW p, NEW e PROVE Loop(openParent, p, <<e>>) = openParent(p, e)
<1> DEFINE F(f) == After(openParent, p, <<e>>, f)
<1>1. F([i \in 0..1 |-> IF i = 0 THEN p ELSE openParent(p, e)])
  BY SMT DEF After
<1>2. F(CHOOSE f : F(f))
  BY <1>1, Zenon
<1>3. Loop(openParent, p, <<e>>) = (CHOOSE f : F(f))[1]
  BY NoLength, Zenon DEF Loop, After
<1>4. \A f : F(f) => f[1] = openParent(p, e)
  BY SMT DEF After
<1> HIDE DEF F
<1> QED
  BY <1>2, <1>3, <1>4

(* A path of one name and no path have no beginning in common.             *)
LEMMA NothingInCommon ==
    ASSUME NEW x
    PROVE  /\ Len(LongestCommonPrefix({<< >>, << >>})) = 0
           /\ Len(LongestCommonPrefix({<<x>>, << >>})) = 0
           /\ Len(LongestCommonPrefix({<< >>, <<x>>})) = 0
<1>1. ASSUME NEW a, NEW n \in Nat, Len(a) = n, \A l \in 0..n : Len(SubSeq(a, 1, l)) = l
      PROVE  Len(LongestCommonPrefix({a, << >>})) = 0
  <2> DEFINE S == {a, << >>}  CP == CommonPrefixes(S)
             Longest(c) == c \in CP /\ \A other \in CP : Len(other) <= Len(c)
  <2>1. \A t \in S : IsPrefix(<< >>, t)
    <3>1. \A t : SubSeq(t, 1, 0) = << >>
      BY SubSeqEmpty
    <3> QED
      BY <1>1, <3>1, NoLength DEF IsPrefix
  <2>2. << >> \in Prefixes(<< >>)
    <3>1. SubSeq(<< >>, 1, 0) = << >>
      BY SubSeqEmpty
    <3> QED
      BY <3>1, NoLength DEF Prefixes
  <2>3. << >> \in CP
    BY <2>1, <2>2 DEF CommonPrefixes
  <2>4. \A c \in CP : Len(c) = 0
    <3> TAKE c \in CP
    <3>1. IsPrefix(c, << >>) /\ (c \in Prefixes(a) \/ c \in Prefixes(<< >>))
      BY DEF CommonPrefixes
    <3>2. c \in Prefixes(<< >>) => c = << >>
      BY SubSeqEmpty, NoLength DEF Prefixes
    <3>3. c \in Prefixes(a) => Len(c) \in Nat
      BY <1>1 DEF Prefixes
    <3>4. Len(c) \in Nat /\ Len(c) <= 0
      BY <3>1, <3>2, <3>3, NoLength DEF IsPrefix
    <3> QED
      BY <3>4
  <2>5. Longest(<< >>)
    <3> HIDE DEF CP
    <3> QED
      BY <2>3, <2>4, NoLength
  <2>6. Longest(CHOOSE c : Longest(c))
    BY <2>5, Zenon
  <2>7. LongestCommonPrefix(S) = CHOOSE c : Longest(c)
    BY Zenon DEF LongestCommonPrefix
  <2> HIDE DEF S, CP
  <2> QED
    BY <2>4, <2>6, <2>7 DEF S
<1>2. \A l \in 0..0 : Len(SubSeq(<< >>, 1, l)) = l
  BY SubSeqEmpty, NoLength
<1>3. \A l \in 0..1 : Len(SubSeq(<<x>>, 1, l)) = l
  OBVIOUS
<1>4. {<< >>, <<x>>} = {<<x>>, << >>}
  OBVIOUS
<1>5. Len(LongestCommonPrefix({<< >>, << >>})) = 0
  BY <1>1, <1>2, NoLength
<1>6. Len(LongestCommonPrefix({<<x>>, << >>})) = 0
  BY <1>1, <1>3, NoLength
<1> QED
  BY <1>4, <1>5, <1>6

(* A path of one name: whole, backwards, and as names.                     *)
LEMMA OfOne ==
    ASSUME NEW x
    PROVE  /\ Drop(<<x>>, 0) = <<x>> /\ Reverse(<<x>>) = <<x>>
           /\ \A ns : [i \in DOMAIN <<x>> |-> Name(ns, <<x>>[i])] = <<Name(ns, x)>>
<1>1. \A y : [i \in 1..1 |-> y] = <<y>>
  OBVIOUS
<1>2. Len(<<x>>) = 1 /\ DOMAIN <<x>> = 1..1 /\ <<x>>[1] = x /\ <<x>> \in Seq({x})
  OBVIOUS
<1>3. Drop(<<x>>, 0) = <<x>>
  <2>1. Drop(<<x>>, 0) = SubSeq(<<x>>, 1, Len(<<x>>))
    BY <1>2 DEF Drop
  <2> QED
    BY <1>2, <2>1, SubSeqFull
<1>4. Reverse(<<x>>) = [i \in 1..1 |-> x]
  BY <1>2 DEF Reverse
<1>5. ASSUME NEW ns
      PROVE  [i \in DOMAIN <<x>> |-> Name(ns, <<x>>[i])] = [i \in 1..1 |-> Name(ns, x)]
  BY <1>2
<1> QED
  BY <1>1, <1>3, <1>4, <1>5, Zenon

(* The parents that are open: x.                                           *)
Level(x) == [xmlns |-> NoSpace, parents |-> x]

(* setParents from no parent to none does nothing.                         *)
LEMMA ParentsStay ==
    ASSUME NEW p, NEW s, NEW finfo, p.defaultNS = NoSpace, s.xmlns = NoSpace, s.parents = << >>,
           finfo.xmlns = NoSpace, finfo.parents = << >>
    PROVE  setParents([p |-> p, s |-> s], finfo) = [p |-> p, s |-> Level(<< >>)]
<1> DEFINE q == [p |-> p, s |-> s]
           In(ns, path) == [i \in DOMAIN path |-> Name(ns, path[i])]
<1>1. q.p = p /\ q.s = s
  OBVIOUS
<1>2. Drop(<< >>, 0) = << >> /\ Reverse(<< >>) = << >> /\ In(NoSpace, << >>) = << >>
  BY SubSeqEmpty DEF Drop, Reverse
<1>3. Len(LongestCommonPrefix({<< >>, << >>})) = 0
  BY NothingInCommon
<1>4. setParents(q, finfo) =
        [p |-> Loop(openParent, Loop(closeParent, p, << >>), << >>), s |-> Level(<< >>)]
  <2> HIDE DEF q
  <2> QED
    BY <1>1, <1>2, <1>3 DEF setParents, Level
<1> QED
  BY <1>4, NoneClosed, NoneOpened

(* setParents from no parent to one opens it.                              *)
LEMMA ParentEntered ==
    ASSUME NEW p, NEW s, NEW finfo, NEW x, p.defaultNS = NoSpace, s.xmlns = NoSpace, s.parents = << >>,
           finfo.xmlns = NoSpace, finfo.parents = <<x>>
    PROVE  setParents([p |-> p, s |-> s], finfo) =
             [p |-> openParent(p, Name(NoSpace, x)), s |-> Level(<<x>>)]
<1> DEFINE q == [p |-> p, s |-> s]
           In(ns, path) == [i \in DOMAIN path |-> Name(ns, path[i])]
<1>1. q.p = p /\ q.s = s
  OBVIOUS
<1>2. Drop(<< >>, 0) = << >> /\ Reverse(<< >>) = << >> /\ In(NoSpace, << >>) = << >>
  BY SubSeqEmpty DEF Drop, Reverse
<1>3. Drop(<<x>>, 0) = <<x>> /\ In(NoSpace, <<x>>) = <<Name(NoSpace, x)>>
  BY OfOne, Zenon
<1>4. Len(LongestCommonPrefix({<<x>>, << >>})) = 0
  BY NothingInCommon
<1>5. setParents(q, finfo) =
        [p |-> Loop(openParent, Loop(closeParent, p, << >>), <<Name(NoSpace, x)>>), s |-> Level(<<x>>)]
  <2> HIDE DEF q
  <2>1. setParents(q, finfo) =
          LET common == Len(LongestCommonPrefix({finfo.parents, s.parents}))
          IN  [p |-> Loop(openParent,
                          Loop(closeParent, p, In(NoSpace, Reverse(Drop(s.parents, common)))),
                          In(NoSpace, Drop(finfo.parents, common))),
               s |-> Level(finfo.parents)]
    BY <1>1 DEF setParents, Level
  <2> HIDE DEF In
  <2> QED
    BY <2>1, <1>2, <1>3, <1>4
<1> QED
  BY <1>5, NoneClosed, OneOpened

(* setParents from one parent to none closes it.                           *)
LEMMA ParentLeft ==
    ASSUME NEW p, NEW s, NEW finfo, NEW x, p.defaultNS = NoSpace, s.xmlns = NoSpace, s.parents = <<x>>,
           finfo.xmlns = NoSpace, finfo.parents = << >>
    PROVE  setParents([p |-> p, s |-> s], finfo) =
             [p |-> closeParent(p, Name(NoSpace, x)), s |-> Level(<< >>)]
<1> DEFINE q == [p |-> p, s |-> s]
           In(ns, path) == [i \in DOMAIN path |-> Name(ns, path[i])]
<1>1. q.p = p /\ q.s = s
  OBVIOUS
<1>2. Drop(<< >>, 0) = << >> /\ In(NoSpace, << >>) = << >>
  BY SubSeqEmpty DEF Drop
<1>3. Drop(<<x>>, 0) = <<x>> /\ Reverse(<<x>>) = <<x>> /\ In(NoSpace, <<x>>) = <<Name(NoSpace, x)>>
  BY OfOne, Zenon
<1>4. Len(LongestCommonPrefix({<< >>, <<x>>})) = 0
  BY NothingInCommon
<1>5. setParents(q, finfo) =
        [p |-> Loop(openParent, Loop(closeParent, p, <<Name(NoSpace, x)>>), << >>), s |-> Level(<< >>)]
  <2> HIDE DEF q
  <2>1. setParents(q, finfo) =
          LET common == Len(LongestCommonPrefix({finfo.parents, s.parents}))
          IN  [p |-> Loop(openParent,
                          Loop(closeParent, p, In(NoSpace, Reverse(Drop(s.parents, common)))),
                          In(NoSpace, Drop(finfo.parents, common))),
               s |-> Level(finfo.parents)]
    BY <1>1 DEF setParents, Level
  <2> HIDE DEF In
  <2> QED
    BY <2>1, <1>2, <1>3, <1>4
<1> QED
  BY <1>5, OneClosed, NoneOpened

-----------------------------------------------------------------------------
(* Induction, without a predicate: a set that has 0, and with a number the *)
(* next, has all.                                                          *)
Smaller == {pair \in Nat \X Nat : pair[1] < pair[2]}

LEMMA Inductive ==
    ASSUME NEW S, 0 \in S, \A n \in Nat : n \in S => n + 1 \in S
    PROVE  Nat \subseteq S
<1>1. SUFFICES ASSUME NEW m \in Nat \ S PROVE FALSE
  OBVIOUS
<1>2. Smaller = OpToRel(<, Nat)
  BY Zenon DEF Smaller, OpToRel
<1>3. IsWellFoundedOn(Smaller, Nat)
  BY <1>2, NatLessThanWellFounded
<1>4. PICK n \in Nat \ S : \A k \in Nat \ S : <<k, n>> \notin Smaller
  BY <1>3, WFMin
<1>5. n # 0 /\ n - 1 \in Nat /\ <<n - 1, n>> \in Smaller
  BY DEF Smaller
<1> QED
  BY <1>4, <1>5

(* The value of a field of an ixmlPropstat, by induction on the length of  *)
(* a list.                                                                 *)
LEMMA FieldLeavesNoTrace ==
    ASSUME NEW p, NEW val, NEW finfo, Ready(p), finfo.name # << >>,
           finfo.type \in {"[]string", "[]ixmlProperty"} => Len(val) \in Nat
    PROVE  Same(marshalField(p, val, finfo), p)
<1> DEFINE Each(q, v) == marshalSimple(q, IF finfo.type = "[]string" THEN "string" ELSE "ixmlProperty",
                                       v, finfo)
<1>1. CASE Omitted(val, finfo)
  BY <1>1, Stays DEF marshalField, Ready
<1>2. CASE ~Omitted(val, finfo) /\ finfo.type \notin {"[]string", "[]ixmlProperty"}
  BY <1>2, SimpleValueLeavesNoTrace DEF marshalField
<1>3. CASE ~Omitted(val, finfo) /\ finfo.type \in {"[]string", "[]ixmlProperty"}
  <2> DEFINE F(f) == After(Each, p, val, f)
             Runs == {n \in Nat : \E f : f = [i \in 0..n |-> IF i = 0 THEN p ELSE Each(f[i - 1], val[i])]}
  <2>1. \A q, v : Ready(q) => Same(Each(q, v), q)
    BY SimpleValueLeavesNoTrace
  <2>2. marshalField(p, val, finfo) = Loop(Each, p, val)
    BY <1>3, Zenon DEF marshalField
  <2> HIDE DEF Each
  <2>3. 0 \in Runs
    <3>1. [i \in 0..0 |-> p] = [i \in 0..0 |-> IF i = 0 THEN p ELSE Each([j \in 0..0 |-> p][i - 1], val[i])]
      OBVIOUS
    <3> QED
      BY <3>1
  <2>4. ASSUME NEW n \in Nat, n \in Runs
        PROVE  n + 1 \in Runs
    <3>1. PICK f : f = [i \in 0..n |-> IF i = 0 THEN p ELSE Each(f[i - 1], val[i])]
      BY <2>4
    <3> DEFINE g == [i \in 0..(n + 1) |-> IF i = n + 1 THEN Each(f[n], val[n + 1]) ELSE f[i]]
    <3>2. \A i \in 0..(n + 1) : g[i] = IF i = 0 THEN p ELSE Each(g[i - 1], val[i])
      BY <3>1
    <3>3. g = [i \in 0..(n + 1) |-> IF i = 0 THEN p ELSE Each(g[i - 1], val[i])]
      BY <3>2
    <3> HIDE DEF g
    <3> QED
      BY <3>3
  <2>5. Len(val) \in Runs
    <3> HIDE DEF Runs
    <3> QED
      BY <1>3, <2>3, <2>4, Inductive
  <2>6. \E f : F(f)
    BY <2>5 DEF After
  <2> DEFINE after == CHOOSE f : F(f)
  <2>7. F(after)
    BY <2>6, Zenon
  <2>8. Loop(Each, p, val) = after[Len(val)]
    BY Zenon DEF Loop, After
  <2> HIDE DEF after
  <2>9. after[0] = p /\ \A i \in 1..Len(val) : after[i] = Each(after[i - 1], val[i])
    BY <1>3, <2>7 DEF After
  <2> DEFINE S == {n \in Nat : n <= Len(val) => Same(after[n], p)}
  <2>10. 0 \in S
    BY <2>9, Stays DEF Ready
  <2>11. ASSUME NEW n \in Nat, n \in S
         PROVE  n + 1 \in S
    <3>1. SUFFICES ASSUME n + 1 <= Len(val) PROVE Same(after[n + 1], p)
      OBVIOUS
    <3>2. Same(after[n], p)
      BY <1>3, <2>11, <3>1
    <3>3. after[n + 1] = Each(after[n], val[n + 1])
      BY <1>3, <2>9, <3>1
    <3> QED
      BY <2>1, <3>2, <3>3, SameStaysReady, SameAgain
  <2>12. Len(val) \in S
    <3> HIDE DEF S
    <3> QED
      BY <1>3, <2>10, <2>11, Inductive
  <2> QED
    BY <2>2, <2>8, <2>12
<1> QED
  BY <1>1, <1>2, <1>3

-----------------------------------------------------------------------------
(* A field without a name space of its own.                                *)
Plain(finfo) == finfo.xmlns = NoSpace /\ finfo.name # << >>

(* lookupXMLName of the types that are written.                            *)
LEMMA NoNameInherited ==
    /\ lookupXMLName("ixmlPropstat") = << >>
    /\ lookupXMLName("response") = XMLName(NoSpace, <<D("response")>>)
    /\ lookupXMLName("xmlError") = XMLName(NoSpace, <<D("error")>>)
    /\ lookupXMLName("string") = << >> /\ lookupXMLName("[]string") = << >>
    /\ lookupXMLName("[]ixmlProperty") = << >> /\ lookupXMLName("[]propstat") = << >>
    /\ lookupXMLName("Name") = << >>
<1>1. DOMAIN Types = {"propfind", "lockInfo", "owner", "setRemove", "propertyupdate", "response",
                      "ixmlPropstat", "ixmlProperty", "xmlError"}
  BY DEF Types
<1>2. /\ Types["ixmlPropstat"].name = << >>
      /\ Types["response"].name = XMLName(NoSpace, <<D("response")>>)
      /\ Types["xmlError"].name = XMLName(NoSpace, <<D("error")>>)
  BY DEF Types, PropstatType, ResponseType, XmlErrorType, Struct
<1>3. \A path : XMLName(NoSpace, <<path>>) # << >> /\ XMLName(NoSpace, <<path>>)[1].path = <<path>>
  BY DEF XMLName, Element, Field
<1>4. \A x : <<x>> # << >>
  OBVIOUS
<1> QED
  BY <1>1, <1>2, <1>3, <1>4 DEF lookupXMLName

(* Front and Last of the paths in the tags.                                *)
LEMMA PathParts ==
    ASSUME NEW x, NEW y
    PROVE  /\ Front(<<x>>) = << >> /\ Last(<<x>>) = x
           /\ Front(<<x, y>>) = <<x>> /\ Last(<<x, y>>) = y
<1>1. Len(<<x>>) = 1 /\ <<x>>[1] = x /\ Len(<<x, y>>) = 2 /\ <<x, y>>[1] = x /\ <<x, y>>[2] = y
  OBVIOUS
<1>2. Front(<<x>>) = SubSeq(<<x>>, 1, 0) /\ Front(<<x, y>>) = SubSeq(<<x, y>>, 1, 1)
  BY <1>1 DEF Front
<1>3. SubSeq(<<x>>, 1, 0) = << >>
  BY SubSeqEmpty
<1>4. SubSeq(<<x, y>>, 1, 1) = <<x>>
  BY <1>1, FirstOf
<1> QED
  BY <1>1, <1>2, <1>3, <1>4 DEF Last

(* structFieldInfo of a tag with one name, and with a path of two.         *)
LEMMA InfoOfOne ==
    ASSUME NEW type, NEW f, NEW x, f.xmlns = NoSpace, f.mode = "element", f.path = <<x>>,
           f.field # "XMLName", lookupXMLName(type) = << >> \/ lookupXMLName(type)[1].xmlns = NoSpace
    PROVE  LET info == structFieldInfo(type, f)
           IN  /\ info.field = f.field /\ info.type = f.type /\ info.xmlns = NoSpace
               /\ info.parents = << >> /\ info.name = x
<1>1. <<x>> # << >>
  OBVIOUS
<1>2. Front(<<x>>) = << >> /\ Last(<<x>>) = x
  BY PathParts
<1> QED
  BY <1>1, <1>2 DEF structFieldInfo

LEMMA InfoOfTwo ==
    ASSUME NEW type, NEW f, NEW x, NEW y, f.xmlns = NoSpace, f.mode = "element", f.path = <<x, y>>,
           f.field # "XMLName", lookupXMLName(type) = << >> \/ lookupXMLName(type)[1].xmlns = NoSpace
    PROVE  LET info == structFieldInfo(type, f)
           IN  /\ info.field = f.field /\ info.type = f.type /\ info.xmlns = NoSpace
               /\ info.parents = <<x>> /\ info.name = y
<1>1. <<x, y>> # << >>
  OBVIOUS
<1>2. Front(<<x, y>>) = <<x>> /\ Last(<<x, y>>) = y
  BY PathParts
<1> QED
  BY <1>1, <1>2 DEF structFieldInfo

(* getTypeInfo of ixmlPropstat: only its first field has a parent.         *)
LEMMA PropstatFields ==
    LET f == getTypeInfo["ixmlPropstat"]
    IN  /\ Len(f) = 4 /\ \A i \in 1..4 : Plain(f[i])
        /\ f[1].field = "Prop" /\ f[1].type = "[]ixmlProperty" /\ f[1].parents = <<D("prop")>>
        /\ f[2].field = "Status" /\ f[2].type = "string" /\ f[2].parents = << >>
        /\ f[3].field = "Error" /\ f[3].type = "xmlError" /\ f[3].parents = << >>
        /\ f[4].field = "ResponseDescription" /\ f[4].type = "string" /\ f[4].parents = << >>
<1> DEFINE T == PropstatType.fields
           f == getTypeInfo["ixmlPropstat"]
<1>1. f = InfosOf("ixmlPropstat", T)
  BY DEF getTypeInfo, Types
<1>2. Len(T) = 4 /\ DOMAIN T = 1..4
  BY DEF PropstatType, Struct
<1>3. \A i \in 1..4 : T[i].xmlns = NoSpace /\ T[i].mode = "element"
  BY DEF PropstatType, Struct, Element, OmitEmpty, Field
<1>4. /\ T[1].field = "Prop" /\ T[1].type = "[]ixmlProperty" /\ T[1].path = <<D("prop"), <<"_ignored_">>>>
      /\ T[2].field = "Status" /\ T[2].type = "string" /\ T[2].path = <<D("status")>>
      /\ T[3].field = "Error" /\ T[3].type = "xmlError" /\ T[3].path = <<D("error")>>
      /\ T[4].field = "ResponseDescription" /\ T[4].type = "string" /\ T[4].path = <<D("responsedescription")>>
  BY DEF PropstatType, Struct, Element, OmitEmpty, Field
<1>5. lookupXMLName("ixmlPropstat") = << >>
  BY NoNameInherited DEF XMLName, Element, Field
<1>6. \A x : D(x) # << >>
  BY DEF D
<1> HIDE DEF T, f
<1>7. \A i \in 1..4 : f[i] = structFieldInfo("ixmlPropstat", T[i])
  BY <1>1, <1>2 DEF InfosOf
<1>8. Len(f) = 4
  BY <1>1, <1>2 DEF InfosOf
<1>9. /\ Plain(f[1]) /\ f[1].field = "Prop" /\ f[1].type = "[]ixmlProperty" /\ f[1].parents = <<D("prop")>>
  BY <1>3, <1>4, <1>5, <1>6, <1>7, InfoOfTwo DEF Plain
<1>10. /\ Plain(f[2]) /\ f[2].field = "Status" /\ f[2].type = "string" /\ f[2].parents = << >>
  BY <1>3, <1>4, <1>5, <1>6, <1>7, InfoOfOne DEF Plain
<1>11. /\ Plain(f[3]) /\ f[3].field = "Error" /\ f[3].type = "xmlError" /\ f[3].parents = << >>
  BY <1>3, <1>4, <1>5, <1>6, <1>7, InfoOfOne DEF Plain
<1>12. /\ Plain(f[4]) /\ f[4].field = "ResponseDescription" /\ f[4].type = "string" /\ f[4].parents = << >>
  BY <1>3, <1>4, <1>5, <1>6, <1>7, InfoOfOne DEF Plain
<1> QED
  BY <1>8, <1>9, <1>10, <1>11, <1>12 DEF f

(* getTypeInfo of response: no field has a parent.                         *)
LEMMA ResponseFields ==
    LET f == getTypeInfo["response"]
    IN  /\ Len(f) = 5 /\ \A i \in 1..5 : Plain(f[i])
        /\ f[1].field = "Href" /\ f[1].type = "[]string" /\ f[1].parents = << >>
        /\ f[2].field = "Propstat" /\ f[2].type = "[]propstat" /\ f[2].parents = << >>
        /\ f[3].field = "Status" /\ f[3].type = "string" /\ f[3].parents = << >>
        /\ f[4].field = "Error" /\ f[4].type = "xmlError" /\ f[4].parents = << >>
        /\ f[5].field = "ResponseDescription" /\ f[5].type = "string" /\ f[5].parents = << >>
<1> DEFINE T == ResponseType.fields
           f == getTypeInfo["response"]
<1>1. f = InfosOf("response", T)
  BY DEF getTypeInfo, Types
<1>2. Len(T) = 5 /\ DOMAIN T = 1..5
  BY DEF ResponseType, Struct
<1>3. \A i \in 1..5 : T[i].xmlns = NoSpace /\ T[i].mode = "element"
  BY DEF ResponseType, Struct, Element, OmitEmpty, Field
<1>4. /\ T[1].field = "Href" /\ T[1].type = "[]string" /\ T[1].path = <<D("href")>>
      /\ T[2].field = "Propstat" /\ T[2].type = "[]propstat" /\ T[2].path = <<D("propstat")>>
      /\ T[3].field = "Status" /\ T[3].type = "string" /\ T[3].path = <<D("status")>>
      /\ T[4].field = "Error" /\ T[4].type = "xmlError" /\ T[4].path = <<D("error")>>
      /\ T[5].field = "ResponseDescription" /\ T[5].type = "string" /\ T[5].path = <<D("responsedescription")>>
  BY DEF ResponseType, Struct, Element, OmitEmpty, Field
<1>5. lookupXMLName("response")[1].xmlns = NoSpace
  BY NoNameInherited DEF XMLName, Element, Field
<1>6. \A x : D(x) # << >>
  BY DEF D
<1> HIDE DEF T, f
<1>7. \A i \in 1..5 : f[i] = structFieldInfo("response", T[i])
  BY <1>1, <1>2 DEF InfosOf
<1>8. Len(f) = 5
  BY <1>1, <1>2 DEF InfosOf
<1>9. /\ Plain(f[1]) /\ f[1].field = "Href" /\ f[1].type = "[]string" /\ f[1].parents = << >>
  BY <1>3, <1>4, <1>5, <1>6, <1>7, InfoOfOne DEF Plain
<1>10. /\ Plain(f[2]) /\ f[2].field = "Propstat" /\ f[2].type = "[]propstat" /\ f[2].parents = << >>
  BY <1>3, <1>4, <1>5, <1>6, <1>7, InfoOfOne DEF Plain
<1>11. /\ Plain(f[3]) /\ f[3].field = "Status" /\ f[3].type = "string" /\ f[3].parents = << >>
  BY <1>3, <1>4, <1>5, <1>6, <1>7, InfoOfOne DEF Plain
<1>12. /\ Plain(f[4]) /\ f[4].field = "Error" /\ f[4].type = "xmlError" /\ f[4].parents = << >>
  BY <1>3, <1>4, <1>5, <1>6, <1>7, InfoOfOne DEF Plain
<1>13. /\ Plain(f[5]) /\ f[5].field = "ResponseDescription" /\ f[5].type = "string" /\ f[5].parents = << >>
  BY <1>3, <1>4, <1>5, <1>6, <1>7, InfoOfOne DEF Plain
<1> QED
  BY <1>8, <1>9, <1>10, <1>11, <1>12, <1>13 DEF f

-----------------------------------------------------------------------------
(* The contents of an element without a name space begin with a printer    *)
(* that is ready.                                                          *)
LEMMA OpenedIsReady ==
    ASSUME NEW p, NEW q, NEW name, Ready(p), Opened(q, p, name), name.space = NoSpace
    PROVE  Ready(q)
<1>1. IsSeq(p.prefixes) /\ IsSeq(p.tags)
  BY DEF Ready
<1>2. IsSeq(<<Mark>> \o p.prefixes) /\ IsSeq(Append(p.tags, name))
  BY <1>1, Appended, Pushed
<1> QED
  BY <1>2 DEF Opened, Ready

(* marshalStruct of an ixmlPropstat: the parent D:prop is opened for the   *)
(* first field and closed before the second.                               *)
LEMMA PropstatContents ==
    ASSUME NEW p, NEW pstat, Ready(p), IsSeq(pstat.props)
    PROVE  Same(marshalStruct(p, "ixmlPropstat", ixmlPropstat(pstat), marshalField), p)
<1> DEFINE val == ixmlPropstat(pstat)
           s == getTypeInfo["ixmlPropstat"]
           Inside(q, finfo) == [q EXCEPT !.p = marshalField(@, val[finfo.field], finfo)]
           Each(q, finfo)   == Inside(setParents(q, finfo), finfo)
           State(q, path)   == [p |-> q, s |-> Level(path)]
           N    == Name(NoSpace, D("prop"))
           q0   == [p |-> p, s |-> NoField]
           in1  == openParent(p, N)
           q1   == State(marshalField(in1, val["Prop"], s[1]), <<D("prop")>>)
           out1 == closeParent(q1.p, N)
           q2   == State(marshalField(out1, val["Status"], s[2]), << >>)
           q3   == State(marshalField(q2.p, val["Error"], s[3]), << >>)
           q4   == State(marshalField(q3.p, val["ResponseDescription"], s[4]), << >>)
<1>1. /\ Len(s) = 4 /\ Plain(s[1]) /\ Plain(s[2]) /\ Plain(s[3]) /\ Plain(s[4])
      /\ s[1].field = "Prop" /\ s[1].type = "[]ixmlProperty" /\ s[1].parents = <<D("prop")>>
      /\ s[2].field = "Status" /\ s[2].type = "string" /\ s[2].parents = << >>
      /\ s[3].field = "Error" /\ s[3].type = "xmlError" /\ s[3].parents = << >>
      /\ s[4].field = "ResponseDescription" /\ s[4].type = "string" /\ s[4].parents = << >>
  BY PropstatFields
<1>2. Len(val["Prop"]) \in Nat
  <2>1. Len(pstat.props) \in Nat /\ DOMAIN pstat.props = 1..Len(pstat.props)
    BY LenProperties DEF IsSeq
  <2>2. val["Prop"] = [i \in DOMAIN pstat.props |->
                         [XMLName  |-> Prefixed(pstat.props[i].name), Lang |-> << >>,
                          InnerXML |-> pstat.props[i].inner]]
    BY DEF ixmlPropstat
  <2> QED
    BY <2>1, <2>2
<1> HIDE DEF val, s
<1>3. Opened(in1, p, N) /\ Ready(in1)
  <2>1. N.local # << >> /\ N.space = NoSpace
    BY DEF Name, D
  <2>2. setDefaultNamespace(Start(N, << >>)) = Start(N, << >>)
    BY <2>1 DEF setDefaultNamespace, Start
  <2>3. in1 = writeStart(p, setDefaultNamespace(Start(N, << >>)))
    BY <2>1, <2>2 DEF openParent, Ready
  <2> QED
    BY <2>1, <2>3, StartOpens, OpenedIsReady
<1>4. Same(q1.p, in1)
  BY <1>1, <1>2, <1>3, FieldLeavesNoTrace DEF Plain
<1>5. Same(out1, p) /\ Ready(out1)
  <2>1. N.local # << >>
    BY DEF Name, D
  <2>2. Same(out1, p)
    BY <1>3, <1>4, <2>1, EndCloses DEF closeParent
  <2> QED
    BY <2>2, SameStaysReady
<1>6. Same(q2.p, p) /\ Ready(q2.p)
  <2>1. Same(q2.p, out1)
    BY <1>1, <1>5, FieldLeavesNoTrace DEF Plain
  <2> QED
    BY <2>1, <1>5, SameAgain, SameStaysReady
<1>7. Same(q3.p, p) /\ Ready(q3.p)
  <2>1. Same(q3.p, q2.p)
    BY <1>1, <1>6, FieldLeavesNoTrace DEF Plain
  <2> QED
    BY <2>1, <1>6, SameAgain, SameStaysReady
<1>8. Same(q4.p, p) /\ Ready(q4.p)
  <2>1. Same(q4.p, q3.p)
    BY <1>1, <1>7, FieldLeavesNoTrace DEF Plain
  <2> QED
    BY <2>1, <1>7, SameAgain, SameStaysReady
<1>9. NoField.xmlns = NoSpace /\ NoField.parents = << >> /\ \A x : Level(x).xmlns = NoSpace /\ Level(x).parents = x
  BY DEF NoField, Level
<1>10. Each(q0, s[1]) = q1
  <2>1. setParents(q0, s[1]) = State(in1, <<D("prop")>>)
    BY <1>1, <1>9, ParentEntered DEF Ready, Plain
  <2> HIDE DEF in1
  <2> QED
    BY <1>1, <2>1
<1>11. Each(q1, s[2]) = q2
  <2>1. q1.p.defaultNS = NoSpace
    BY <1>3, <1>4 DEF Ready, Same
  <2>2. setParents(q1, s[2]) = State(out1, << >>)
    <3> DEFINE p1 == marshalField(in1, val["Prop"], s[1])
    <3>1. q1 = [p |-> p1, s |-> Level(<<D("prop")>>)] /\ q1.p = p1
      OBVIOUS
    <3> HIDE DEF p1, q1
    <3> QED
      BY <1>1, <1>9, <2>1, <3>1, ParentLeft DEF Plain
  <2> HIDE DEF out1
  <2> QED
    BY <1>1, <2>2
<1>12. Each(q2, s[3]) = q3
  <2> DEFINE p2 == q2.p
  <2>1. q2 = [p |-> p2, s |-> Level(<< >>)] /\ p2.defaultNS = NoSpace
    BY <1>6 DEF Ready
  <2> HIDE DEF p2, q2
  <2>2. setParents(q2, s[3]) = State(p2, << >>)
    BY <1>1, <1>9, <2>1, ParentsStay DEF Plain
  <2> QED
    BY <1>1, <2>2 DEF p2
<1>13. Each(q3, s[4]) = q4
  <2> DEFINE p3 == q3.p
  <2>1. q3 = [p |-> p3, s |-> Level(<< >>)] /\ p3.defaultNS = NoSpace
    BY <1>7 DEF Ready
  <2> HIDE DEF p3, q3
  <2>2. setParents(q3, s[4]) = State(p3, << >>)
    BY <1>1, <1>9, <2>1, ParentsStay DEF Plain
  <2> QED
    BY <1>1, <2>2 DEF p3
<1>14. setParents(q4, NoField).p = q4.p
  <2> DEFINE p4 == q4.p
  <2>1. q4 = [p |-> p4, s |-> Level(<< >>)] /\ p4.defaultNS = NoSpace
    BY <1>8 DEF Ready
  <2> HIDE DEF p4, q4
  <2>2. setParents(q4, NoField) = State(p4, << >>)
    BY <1>9, <2>1, ParentsStay
  <2> QED
    BY <2>2 DEF p4
<1> DEFINE end == q4.p
<1>15. Same(end, p)
  BY <1>8
<1> HIDE DEF q0, q1, q2, q3, q4, Each
<1> DEFINE F(f) == After(Each, q0, s, f)
           g == [i \in 0..4 |-> CASE i = 0 -> q0 [] i = 1 -> q1 [] i = 2 -> q2 [] i = 3 -> q3 [] OTHER -> q4]
<1>16. F(g)
  <2>1. \A i \in 0..4 : g[i] = IF i = 0 THEN q0 ELSE Each(g[i - 1], s[i])
    BY <1>10, <1>11, <1>12, <1>13
  <2>2. g = [i \in 0..4 |-> IF i = 0 THEN q0 ELSE Each(g[i - 1], s[i])]
    BY <2>1
  <2> HIDE DEF g
  <2> QED
    BY <1>1, <2>2 DEF After
<1>17. F(CHOOSE f : F(f))
  BY <1>16, Zenon
<1>18. Loop(Each, q0, s) = (CHOOSE f : F(f))[Len(s)]
  BY Zenon DEF Loop, After
<1>19. \A f : F(f) => f[4] = q4
  <2> TAKE f
  <2>1. SUFFICES ASSUME F(f) PROVE f[4] = q4
    OBVIOUS
  <2>2. f[0] = q0 /\ \A i \in 1..4 : f[i] = Each(f[i - 1], s[i])
    BY <1>1, <2>1 DEF After
  <2>3. f[1] = q1
    BY <2>2, <1>10
  <2>4. f[2] = q2
    BY <2>2, <2>3, <1>11
  <2>5. f[3] = q3
    BY <2>2, <2>4, <1>12
  <2> QED
    BY <2>2, <2>5, <1>13
<1> HIDE DEF F
<1>20. Loop(Each, q0, s) = q4
  BY <1>1, <1>17, <1>18, <1>19
<1>21. marshalStruct(p, "ixmlPropstat", ixmlPropstat(pstat), marshalField) = setParents(Loop(Each, q0, s), NoField).p
  BY Zenon DEF marshalStruct, Each, q0, s, val
<1> QED
  BY <1>14, <1>15, <1>20, <1>21

(* marshalInterface of a propstat: its mark is the last open element       *)
(* again, so Ended takes it away and does not fail.                        *)
LEMMA PropstatLeavesNoTrace ==
    ASSUME NEW p, NEW val, NEW finfo, Ready(p), Plain(finfo), IsSeq(val.props)
    PROVE  Same(marshalPropstat(p, val, finfo), p)
<1> DEFINE p0 == [p EXCEPT !.tags = Append(@, NoName)]
           N  == Name(NoSpace, finfo.name)
           q  == writeStart(p0, StartOf(p0, "propstat", val, finfo))
           r  == marshalStruct(q, "ixmlPropstat", ixmlPropstat(val), marshalField)
           w  == writeEnd(r, N)
<1>1. /\ IsPrinter(p0) /\ p0.tags = Append(p.tags, NoName) /\ p0.failed = FALSE /\ p0.defaultNS = NoSpace
      /\ p0.attrNS = p.attrNS /\ p0.attrPrefix = p.attrPrefix /\ p0.seq = p.seq /\ p0.prefixes = p.prefixes
  BY DEF Ready, IsPrinter
<1>2. Ready(p0)
  <2>1. IsSeq(p.tags)
    BY DEF Ready
  <2>2. IsSeq(Append(p.tags, NoName))
    BY <2>1, Appended
  <2> QED
    BY <1>1, <2>2 DEF Ready
<1> HIDE DEF p0
<1>3. N.local # << >> /\ N.space = NoSpace
  BY DEF Plain, Name
<1>4. StartOf(p0, "propstat", val, finfo) = setDefaultNamespace(Start(N, << >>))
  <2>1. "propstat" \notin DOMAIN xmlname
    BY DEF xmlname, Types
  <2>2. NoName.local = << >>
    BY DEF NoName, Name
  <2> QED
    BY <1>1, <2>1, <2>2 DEF StartOf, StartNamed, OwnName, Plain
<1>5. Opened(q, p0, N) /\ Ready(q)
  BY <1>2, <1>3, <1>4, StartOpens, OpenedIsReady
<1>6. Same(r, q)
  BY <1>5, PropstatContents
<1>7. Same(w, p0)
  BY <1>2, <1>3, <1>5, <1>6, EndCloses
<1>8. StartOf(p0, "propstat", val, finfo).name = N
  BY <1>4, KeepsItsName
<1>9. marshalPropstat(p, val, finfo) = Ended(w)
  <2>1. StartOf(p, "propstat", val, finfo) = StartOf(p0, "propstat", val, finfo)
    BY <1>1 DEF StartOf, StartNamed, Ready
  <2> DEFINE v == writeEnd(r, StartOf(p0, "propstat", val, finfo).name)
  <2>2. marshalPropstat(p, val, finfo) = Ended(v)
    BY <2>1, Zenon DEF marshalPropstat, writeElement, p0
  <2> QED
    BY <1>8, <2>2
<1>10. Last(w.tags) = NoName /\ Front(w.tags) = p.tags
  <2>1. w.tags = Append(p.tags, NoName) /\ IsSeq(p.tags)
    BY <1>1, <1>7 DEF Same, Ready
  <2> QED
    BY <2>1, Appended
<1> HIDE DEF w
<1> DEFINE z == [w EXCEPT !.tags = Front(@)]
<1>11. /\ IsPrinter(z) /\ z.tags = p.tags /\ z.failed = w.failed /\ z.defaultNS = w.defaultNS
       /\ z.attrNS = w.attrNS /\ z.attrPrefix = w.attrPrefix /\ z.seq = w.seq /\ z.prefixes = w.prefixes
  BY <1>7, <1>10 DEF Same, IsPrinter
<1> HIDE DEF z
<1>12. marshalPropstat(p, val, finfo) = z
  BY <1>9, <1>10 DEF z, Ended
<1> QED
  BY <1>1, <1>7, <1>11, <1>12 DEF Same, Ready

(* The value of a field of a response, by induction on the length of a     *)
(* list.                                                                   *)
LEMMA PartLeavesNoTrace ==
    ASSUME NEW p, NEW val, NEW finfo, Ready(p), Plain(finfo),
           finfo.type \in {"[]string", "[]ixmlProperty", "[]propstat"} => Len(val) \in Nat,
           finfo.type = "[]propstat" => \A i \in 1..Len(val) : IsSeq(val[i].props)
    PROVE  Same(marshalPart(p, val, finfo), p)
<1> DEFINE Each(q, v) == marshalPropstat(q, v, finfo)
<1>1. CASE finfo.type # "[]propstat"
  BY <1>1, FieldLeavesNoTrace DEF marshalPart, Plain
<1>2. CASE finfo.type = "[]propstat"
  <2> DEFINE F(f) == After(Each, p, val, f)
             Runs == {n \in Nat : \E f : f = [i \in 0..n |-> IF i = 0 THEN p ELSE Each(f[i - 1], val[i])]}
  <2>1. \A q : \A i \in 1..Len(val) : Ready(q) => Same(Each(q, val[i]), q)
    BY <1>2, PropstatLeavesNoTrace
  <2>2. marshalPart(p, val, finfo) = Loop(Each, p, val)
    BY <1>2, Zenon DEF marshalPart
  <2> HIDE DEF Each
  <2>3. 0 \in Runs
    <3>1. [i \in 0..0 |-> p] = [i \in 0..0 |-> IF i = 0 THEN p ELSE Each([j \in 0..0 |-> p][i - 1], val[i])]
      OBVIOUS
    <3> QED
      BY <3>1
  <2>4. ASSUME NEW n \in Nat, n \in Runs
        PROVE  n + 1 \in Runs
    <3>1. PICK f : f = [i \in 0..n |-> IF i = 0 THEN p ELSE Each(f[i - 1], val[i])]
      BY <2>4
    <3> DEFINE g == [i \in 0..(n + 1) |-> IF i = n + 1 THEN Each(f[n], val[n + 1]) ELSE f[i]]
    <3>2. \A i \in 0..(n + 1) : g[i] = IF i = 0 THEN p ELSE Each(g[i - 1], val[i])
      BY <3>1
    <3>3. g = [i \in 0..(n + 1) |-> IF i = 0 THEN p ELSE Each(g[i - 1], val[i])]
      BY <3>2
    <3> HIDE DEF g
    <3> QED
      BY <3>3
  <2>5. Len(val) \in Runs
    <3> HIDE DEF Runs
    <3> QED
      BY <1>2, <2>3, <2>4, Inductive
  <2>6. \E f : F(f)
    BY <2>5 DEF After
  <2> DEFINE after == CHOOSE f : F(f)
  <2>7. F(after)
    BY <2>6, Zenon
  <2>8. Loop(Each, p, val) = after[Len(val)]
    BY Zenon DEF Loop, After
  <2> HIDE DEF after
  <2>9. after[0] = p /\ \A i \in 1..Len(val) : after[i] = Each(after[i - 1], val[i])
    BY <1>2, <2>7 DEF After
  <2> DEFINE S == {n \in Nat : n <= Len(val) => Same(after[n], p)}
  <2>10. 0 \in S
    BY <2>9, Stays DEF Ready
  <2>11. ASSUME NEW n \in Nat, n \in S
         PROVE  n + 1 \in S
    <3>1. SUFFICES ASSUME n + 1 <= Len(val) PROVE Same(after[n + 1], p)
      OBVIOUS
    <3>2. Same(after[n], p) /\ n + 1 \in 1..Len(val)
      BY <1>2, <2>11, <3>1
    <3>3. after[n + 1] = Each(after[n], val[n + 1])
      BY <2>9, <3>2
    <3>4. Same(Each(after[n], val[n + 1]), after[n])
      BY <2>1, <3>2, SameStaysReady
    <3> QED
      BY <3>2, <3>3, <3>4, SameAgain
  <2>12. Len(val) \in S
    <3> HIDE DEF S
    <3> QED
      BY <1>2, <2>10, <2>11, Inductive
  <2> QED
    BY <2>2, <2>8, <2>12
<1> QED
  BY <1>1, <1>2

(* marshalStruct of a response.                                            *)
LEMMA ResponseContents ==
    ASSUME NEW p, NEW r, Ready(p), Len(r.Href) \in Nat, Len(r.Propstat) \in Nat,
           \A i \in 1..Len(r.Propstat) : IsSeq(r.Propstat[i].props)
    PROVE  Same(marshalStruct(p, "response", r, marshalPart), p)
<1> DEFINE s == getTypeInfo["response"]
           Inside(q, finfo) == [q EXCEPT !.p = marshalPart(@, r[finfo.field], finfo)]
           Each(q, finfo)   == Inside(setParents(q, finfo), finfo)
           State(q)   == [p |-> q, s |-> Level(<< >>)]
           q0   == [p |-> p, s |-> NoField]
           q1   == State(marshalPart(p, r["Href"], s[1]))
           q2   == State(marshalPart(q1.p, r["Propstat"], s[2]))
           q3   == State(marshalPart(q2.p, r["Status"], s[3]))
           q4   == State(marshalPart(q3.p, r["Error"], s[4]))
           q5   == State(marshalPart(q4.p, r["ResponseDescription"], s[5]))
<1>1. /\ Len(s) = 5 /\ Plain(s[1]) /\ Plain(s[2]) /\ Plain(s[3]) /\ Plain(s[4]) /\ Plain(s[5])
      /\ s[1].field = "Href" /\ s[1].type = "[]string" /\ s[1].parents = << >>
      /\ s[2].field = "Propstat" /\ s[2].type = "[]propstat" /\ s[2].parents = << >>
      /\ s[3].field = "Status" /\ s[3].type = "string" /\ s[3].parents = << >>
      /\ s[4].field = "Error" /\ s[4].type = "xmlError" /\ s[4].parents = << >>
      /\ s[5].field = "ResponseDescription" /\ s[5].type = "string" /\ s[5].parents = << >>
  BY ResponseFields
<1>2. r["Href"] = r.Href /\ r["Propstat"] = r.Propstat
  OBVIOUS
<1> HIDE DEF s
<1>3. Same(q1.p, p) /\ Ready(q1.p)
  <2>1. Same(q1.p, p)
    BY <1>1, <1>2, PartLeavesNoTrace
  <2> QED
    BY <2>1, SameStaysReady
<1>4. Same(q2.p, p) /\ Ready(q2.p)
  <2>1. Same(q2.p, q1.p)
    <3> HIDE DEF q1
    <3> QED
      BY <1>1, <1>2, <1>3, PartLeavesNoTrace
  <2> QED
    BY <2>1, <1>3, SameAgain, SameStaysReady
<1>5. Same(q3.p, p) /\ Ready(q3.p)
  <2>1. Same(q3.p, q2.p)
    <3> HIDE DEF q2
    <3> QED
      BY <1>1, <1>4, PartLeavesNoTrace
  <2> QED
    BY <2>1, <1>4, SameAgain, SameStaysReady
<1>6. Same(q4.p, p) /\ Ready(q4.p)
  <2>1. Same(q4.p, q3.p)
    <3> HIDE DEF q3
    <3> QED
      BY <1>1, <1>5, PartLeavesNoTrace
  <2> QED
    BY <2>1, <1>5, SameAgain, SameStaysReady
<1>7. Same(q5.p, p) /\ Ready(q5.p)
  <2>1. Same(q5.p, q4.p)
    <3> HIDE DEF q4
    <3> QED
      BY <1>1, <1>6, PartLeavesNoTrace
  <2> QED
    BY <2>1, <1>6, SameAgain, SameStaysReady
<1>8. NoField.xmlns = NoSpace /\ NoField.parents = << >>
      /\ Level(<< >>).xmlns = NoSpace /\ Level(<< >>).parents = << >>
  BY DEF NoField, Level
<1>9. ASSUME NEW q, NEW t, NEW finfo, Ready(q), t \in {NoField, Level(<< >>)},
             finfo.xmlns = NoSpace, finfo.parents = << >>
      PROVE  setParents([p |-> q, s |-> t], finfo) = State(q)
  BY <1>8, <1>9, ParentsStay DEF Ready
<1>10. ASSUME NEW q, NEW t, NEW finfo, Ready(q), t \in {NoField, Level(<< >>)},
              Plain(finfo), finfo.parents = << >>
       PROVE  Each([p |-> q, s |-> t], finfo) = State(marshalPart(q, r[finfo.field], finfo))
  <2> DEFINE z == setParents([p |-> q, s |-> t], finfo)
  <2>1. z = State(q)
    BY <1>9, <1>10 DEF Plain
  <2>2. Each([p |-> q, s |-> t], finfo) = [z EXCEPT !.p = marshalPart(@, r[finfo.field], finfo)]
    OBVIOUS
  <2> HIDE DEF z
  <2> QED
    BY <2>1, <2>2
<1>11. /\ q1 = [p |-> q1.p, s |-> Level(<< >>)] /\ q2 = [p |-> q2.p, s |-> Level(<< >>)]
       /\ q3 = [p |-> q3.p, s |-> Level(<< >>)] /\ q4 = [p |-> q4.p, s |-> Level(<< >>)]
       /\ q5 = [p |-> q5.p, s |-> Level(<< >>)]
  OBVIOUS
<1> HIDE DEF Each
<1>12. Each(q0, s[1]) = q1
  BY <1>1, <1>10
<1>13. Each(q1, s[2]) = q2
  <2>1. q2 = State(marshalPart(q1.p, r["Propstat"], s[2]))
    OBVIOUS
  <2> HIDE DEF q1, q2
  <2> QED
    BY <1>1, <1>3, <1>10, <1>11, <2>1
<1>14. Each(q2, s[3]) = q3
  <2>1. q3 = State(marshalPart(q2.p, r["Status"], s[3]))
    OBVIOUS
  <2> HIDE DEF q2, q3
  <2> QED
    BY <1>1, <1>4, <1>10, <1>11, <2>1
<1>15. Each(q3, s[4]) = q4
  <2>1. q4 = State(marshalPart(q3.p, r["Error"], s[4]))
    OBVIOUS
  <2> HIDE DEF q3, q4
  <2> QED
    BY <1>1, <1>5, <1>10, <1>11, <2>1
<1>16. Each(q4, s[5]) = q5
  <2>1. q5 = State(marshalPart(q4.p, r["ResponseDescription"], s[5]))
    OBVIOUS
  <2> HIDE DEF q4, q5
  <2> QED
    BY <1>1, <1>6, <1>10, <1>11, <2>1
<1>17. setParents(q5, NoField).p = q5.p
  <2> HIDE DEF q5
  <2>1. setParents(q5, NoField) = State(q5.p)
    BY <1>7, <1>8, <1>9, <1>11
  <2> QED
    BY <2>1
<1> HIDE DEF q0, q1, q2, q3, q4, q5
<1> DEFINE F(f) == After(Each, q0, s, f)
           g == [i \in 0..5 |-> CASE i = 0 -> q0 [] i = 1 -> q1 [] i = 2 -> q2 [] i = 3 -> q3
                                  [] i = 4 -> q4 [] OTHER -> q5]
<1>18. F(g)
  <2>1. \A i \in 0..5 : g[i] = IF i = 0 THEN q0 ELSE Each(g[i - 1], s[i])
    BY <1>12, <1>13, <1>14, <1>15, <1>16
  <2>2. g = [i \in 0..5 |-> IF i = 0 THEN q0 ELSE Each(g[i - 1], s[i])]
    BY <2>1
  <2> HIDE DEF g
  <2> QED
    BY <1>1, <2>2 DEF After
<1>19. F(CHOOSE f : F(f))
  BY <1>18, Zenon
<1>20. Loop(Each, q0, s) = (CHOOSE f : F(f))[Len(s)]
  BY Zenon DEF Loop, After
<1>21. \A f : F(f) => f[5] = q5
  <2> TAKE f
  <2>1. SUFFICES ASSUME F(f) PROVE f[5] = q5
    OBVIOUS
  <2>2. f[0] = q0 /\ \A i \in 1..5 : f[i] = Each(f[i - 1], s[i])
    BY <1>1, <2>1 DEF After
  <2>3. f[1] = q1
    BY <2>2, <1>12
  <2>4. f[2] = q2
    BY <2>2, <2>3, <1>13
  <2>5. f[3] = q3
    BY <2>2, <2>4, <1>14
  <2>6. f[4] = q4
    BY <2>2, <2>5, <1>15
  <2> QED
    BY <2>2, <2>6, <1>16
<1> HIDE DEF F
<1>22. Loop(Each, q0, s) = q5
  BY <1>1, <1>19, <1>20, <1>21
<1>23. marshalStruct(p, "response", r, marshalPart) = setParents(Loop(Each, q0, s), NoField).p
  BY Zenon DEF marshalStruct, Each, q0, s
<1> QED
  BY <1>7, <1>17, <1>22, <1>23

(* The tag of response.XMLName names its element.                          *)
LEMMA ResponseIsNamed ==
    LET own == xmlname["response"]
    IN  /\ "response" \in DOMAIN xmlname /\ own # << >>
        /\ own[1].name = D("response") /\ own[1].xmlns = NoSpace
<1> DEFINE T == Types["response"].name
           f == XMLName(NoSpace, <<D("response")>>)[1]
<1>1. /\ "response" \in DOMAIN xmlname
      /\ xmlname["response"] = InfosOf("response", T)
  BY DEF xmlname, Types
<1>2. T = XMLName(NoSpace, <<D("response")>>)
  BY DEF Types, ResponseType, Struct
<1>3. /\ f.path = <<D("response")>> /\ f.field = "XMLName" /\ f.xmlns = NoSpace
      /\ DOMAIN XMLName(NoSpace, <<D("response")>>) = 1..1
  BY DEF XMLName, Element, Field
<1> HIDE DEF T
<1>4. xmlname["response"] = [i \in 1..1 |-> structFieldInfo("response", T[i])]
  BY <1>1, <1>2, <1>3 DEF InfosOf
<1>5. T[1] = f
  BY <1>2
<1> HIDE DEF f
<1>6. <<D("response")>> # << >> /\ Last(<<D("response")>>) = D("response")
  BY PathParts
<1>7. structFieldInfo("response", f).name = D("response") /\ structFieldInfo("response", f).xmlns = NoSpace
  BY <1>3, <1>6 DEF structFieldInfo
<1> QED
  BY <1>1, <1>4, <1>5, <1>7

(* Encoder.Encode of a response.                                           *)
LEMMA ResponseLeavesNoTrace ==
    ASSUME NEW p, NEW r, Ready(p), Len(r.Href) \in Nat, Len(r.Propstat) \in Nat,
           \A i \in 1..Len(r.Propstat) : IsSeq(r.Propstat[i].props)
    PROVE  Same(marshalResponse(p, r), p)
<1> DEFINE N == Name(NoSpace, D("response"))
           start == StartOf(p, "response", r, NoField)
           q == writeStart(p, start)
           w == marshalStruct(q, "response", r, marshalPart)
<1>1. N.local # << >> /\ N.space = NoSpace
  BY DEF Name, D
<1>2. start = setDefaultNamespace(Start(N, << >>))
  <2>1. D("response") # << >>
    BY DEF D
  <2> QED
    BY <1>1, <2>1, ResponseIsNamed DEF StartOf, StartNamed, OwnName
<1>3. Opened(q, p, N) /\ Ready(q)
  BY <1>1, <1>2, StartOpens, OpenedIsReady
<1>4. Same(w, q)
  BY <1>3, ResponseContents
<1>5. start.name = N
  BY <1>2, KeepsItsName
<1>6. marshalResponse(p, r) = writeEnd(w, start.name)
  BY Zenon DEF marshalResponse, writeElement
<1> QED
  BY <1>1, <1>3, <1>4, <1>5, <1>6, EndCloses

-----------------------------------------------------------------------------
(* Sequences one after another are a sequence.                             *)
LEMMA Joined ==
    ASSUME NEW s, NEW t, IsSeq(s), IsSeq(t)
    PROVE  IsSeq(s \o t)
<1> DEFINE T == ToSet(s) \cup ToSet(t)
<1>1. s \in Seq(T) /\ t \in Seq(T)
  BY SeqIn
<1> HIDE DEF T
<1>2. s \o t \in Seq(T)
  BY <1>1, ConcatProperties
<1> QED
  BY <1>2, OfSome

(* A function on 1 .. n is a sequence of length n.                         *)
LEMMA Listed ==
    ASSUME NEW n \in Nat, NEW f, f = [i \in 1..n |-> f[i]]
    PROVE  IsSeq(f) /\ Len(f) = n
<1> DEFINE T == {f[i] : i \in 1..n}
<1>1. f \in [1..n -> T]
  <2>1. \A i \in 1..n : f[i] \in T
    OBVIOUS
  <2> HIDE DEF T
  <2> QED
    BY <2>1
<1> HIDE DEF T
<1>2. f \in Seq(T)
  BY <1>1, SeqDef
<1>3. Len(f) = n
  BY <1>1, <1>2, LenProperties
<1> QED
  BY <1>2, <1>3, OfSome

(* FlattenSeq of sequences is a sequence, by induction on their number.    *)
LEMMA FlatIsASequence ==
    ASSUME NEW seqs, IsSeq(seqs), \A i \in 1..Len(seqs) : IsSeq(seqs[i])
    PROVE  IsSeq(FlattenSeq(seqs))
<1> DEFINE Each(s, t) == s \o t
           F(f, n) == f = [i \in 1..n |-> IF i = 1 THEN seqs[i] ELSE Each(f[i - 1], seqs[i])]
           Runs == {n \in Nat : \E f : F(f, n)}
<1>1. Len(seqs) \in Nat
  BY LenProperties DEF IsSeq
<1>2. CASE Len(seqs) = 0
  BY <1>2 DEF FlattenSeq
<1>3. CASE Len(seqs) # 0
  <2> HIDE DEF Each
  <2>1. 0 \in Runs
    <3>1. [i \in 1..0 |-> seqs] = [i \in 1..0 |-> IF i = 1 THEN seqs[i]
                                                  ELSE Each(([j \in 1..0 |-> seqs])[i - 1], seqs[i])]
      OBVIOUS
    <3> QED
      BY <3>1
  <2>2. ASSUME NEW n \in Nat, n \in Runs
        PROVE  n + 1 \in Runs
    <3>1. PICK f : F(f, n)
      BY <2>2
    <3> DEFINE e(i) == IF i = 1 THEN seqs[i] ELSE Each(f[i - 1], seqs[i])
               g    == [i \in 1..(n + 1) |-> e(i)]
    <3>2. \A i \in 1..(n + 1) : g[i] = IF i = 1 THEN seqs[i] ELSE Each(g[i - 1], seqs[i])
      <4>1. ASSUME NEW i \in 1..(n + 1), i # 1
            PROVE  g[i - 1] = f[i - 1]
        <5>1. i - 1 \in 1..n /\ i - 1 \in 1..(n + 1)
          BY <4>1
        <5>2. g[i - 1] = e(i - 1) /\ f[i - 1] = e(i - 1)
          BY <3>1, <5>1
        <5> QED
          BY <5>2
      <4> QED
        BY <4>1
    <3>3. g = [i \in 1..(n + 1) |-> IF i = 1 THEN seqs[i] ELSE Each(g[i - 1], seqs[i])]
      BY <3>2
    <3> HIDE DEF g
    <3> QED
      BY <3>3
  <2>3. \E f : F(f, Len(seqs))
    <3>1. Nat \subseteq Runs
      <4> HIDE DEF Runs
      <4> QED
        BY <2>1, <2>2, Inductive
    <3> QED
      BY <1>1, <3>1
  <2> DEFINE flatten == CHOOSE f : F(f, Len(seqs))
  <2>4. F(flatten, Len(seqs))
    BY <2>3, Zenon
  <2>5. FlattenSeq(seqs) = flatten[Len(seqs)]
    BY <1>3, Zenon DEF FlattenSeq, Each
  <2> HIDE DEF flatten
  <2>6. \A i \in 1..Len(seqs) : flatten[i] = IF i = 1 THEN seqs[i] ELSE Each(flatten[i - 1], seqs[i])
    BY <1>1, <2>4
  <2> DEFINE S == {n \in Nat : n \in 1..Len(seqs) => IsSeq(flatten[n])}
  <2>7. 0 \in S
    OBVIOUS
  <2>8. ASSUME NEW n \in Nat, n \in S
        PROVE  n + 1 \in S
    <3>1. SUFFICES ASSUME n + 1 \in 1..Len(seqs) PROVE IsSeq(flatten[n + 1])
      OBVIOUS
    <3>2. CASE n = 0
      BY <2>6, <3>1, <3>2
    <3>3. CASE n # 0
      <4>1. n \in 1..Len(seqs) /\ n + 1 # 1 /\ (n + 1) - 1 = n
        BY <1>1, <3>1, <3>3
      <4>2. flatten[n + 1] = Each(flatten[n], seqs[n + 1])
        BY <2>6, <3>1, <4>1
      <4> QED
        BY <2>8, <3>1, <4>1, <4>2, Joined DEF Each
    <3> QED
      BY <3>2, <3>3
  <2>9. Len(seqs) \in S
    <3> HIDE DEF S
    <3> QED
      BY <1>1, <2>7, <2>8, Inductive
  <2> QED
    BY <1>1, <1>3, <2>5, <2>9
<1> QED
  BY <1>2, <1>3

(* A list of propstats that write does not refuse, each with a list of     *)
(* properties.                                                             *)
Filled(pstats) ==
    /\ pstats # << >> /\ Len(pstats) \in Nat
    /\ \A i \in 1..Len(pstats) : IsSeq(pstats[i].props)

(* makePropstats never gives an empty list.                                *)
LEMMA SomePropstats ==
    ASSUME NEW x, NEW y, IsSeq(x.props), IsSeq(y.props)
    PROVE  Filled(makePropstats(x, y))
<1> DEFINE a == IF x.props = << >> THEN << >> ELSE <<x>>
           b == IF y.props = << >> THEN << >> ELSE <<y>>
           none == Propstat(200, << >>)
<1>1. makePropstats(x, y) = IF a \o b = << >> THEN <<none>> ELSE a \o b
  BY DEF makePropstats
<1>2. IsSeq(none.props)
  <2>1. << >> \in Seq({})
    OBVIOUS
  <2> QED
    BY <2>1, OfSome DEF Propstat
<1> HIDE DEF none
<1>3. a \o b \in {<< >>, <<x>>, <<y>>, <<x, y>>}
  <2>1. a \in {<< >>, <<x>>} /\ b \in {<< >>, <<y>>}
    OBVIOUS
  <2>2. /\ << >> \o << >> = << >> /\ << >> \o <<y>> = <<y>>
        /\ <<x>> \o << >> = <<x>> /\ <<x>> \o <<y>> = <<x, y>>
    <3>1. <<x>> \in Seq({x, y}) /\ <<y>> \in Seq({x, y}) /\ << >> \in Seq({x, y}) /\ <<x, y>> \in Seq({x, y})
      OBVIOUS
    <3>2. << >> \o << >> = << >> /\ << >> \o <<y>> = <<y>> /\ <<x>> \o << >> = <<x>>
      BY <3>1, ConcatEmptySeq
    <3>3. <<x>> \o <<y>> = <<x, y>>
      <4> DEFINE two == <<x>> \o <<y>>
      <4>1. two \in Seq({x, y}) /\ Len(two) = 2 /\ two[1] = x /\ two[2] = y
        BY <3>1, ConcatProperties
      <4>2. Len(<<x, y>>) = 2 /\ <<x, y>>[1] = x /\ <<x, y>>[2] = y
        OBVIOUS
      <4> HIDE DEF two
      <4>3. two = <<x, y>>
        BY <3>1, <4>1, <4>2, SeqEqual
      <4> QED
        BY <4>3 DEF two
    <3> QED
      BY <3>2, <3>3
  <2> HIDE DEF a, b
  <2> QED
    BY <2>1, <2>2, Zenon
<1> HIDE DEF a, b
<1>4. makePropstats(x, y) \in {<<none>>, <<x>>, <<y>>, <<x, y>>}
  BY <1>1, <1>3
<1>5. ASSUME NEW z, IsSeq(z.props) PROVE Filled(<<z>>)
  BY <1>5 DEF Filled
<1>6. Filled(<<x, y>>)
  BY DEF Filled
<1> QED
  BY <1>2, <1>4, <1>5, <1>6

(* props, whatever the names are.                                          *)
LEMMA PropsAreFilled ==
    ASSUME NEW item, NEW names, IsSeq(names)
    PROVE  Filled(props(item, names))
<1> DEFINE Known(n)   == n \in liveProps(item)
           Found(n)   == IF Known(n) THEN <<Property(n, find(item, n))>> ELSE << >>
           Missing(n) == IF Known(n) THEN << >> ELSE <<Property(n, << >>)>>
           found   == [i \in DOMAIN names |-> Found(names[i])]
           missing == [i \in DOMAIN names |-> Missing(names[i])]
<1>1. Len(names) \in Nat /\ DOMAIN names = 1..Len(names)
  BY LenProperties DEF IsSeq
<1>2. IsSeq(<< >>) /\ \A x : IsSeq(<<x>>)
  <2>1. << >> \in Seq({}) /\ \A x : <<x>> \in Seq({x})
    OBVIOUS
  <2> QED
    BY <2>1, OfSome
<1>3. \A n : IsSeq(Found(n)) /\ IsSeq(Missing(n))
  BY <1>2
<1> HIDE DEF Found, Missing
<1>4. IsSeq(found) /\ Len(found) = Len(names) /\ IsSeq(missing) /\ Len(missing) = Len(names)
  BY <1>1, Listed
<1>5. IsSeq(FlattenSeq(found))
  BY <1>1, <1>3, <1>4, FlatIsASequence
<1>6. IsSeq(FlattenSeq(missing))
  BY <1>1, <1>3, <1>4, FlatIsASequence
<1>7. props(item, names) = makePropstats(Propstat(200, FlattenSeq(found)), Propstat(404, FlattenSeq(missing)))
  BY Zenon DEF props, ForEach, Found, Missing
<1> HIDE DEF found, missing
<1>8. \A status, list : Propstat(status, list).props = list
  BY DEF Propstat
<1> QED
  BY <1>5, <1>6, <1>7, <1>8, SomePropstats

(* allprop, whatever is to be included.                                    *)
LEMMA AllpropIsFilled ==
    ASSUME NEW item, NEW names, NEW include, IsSeq(names), IsSeq(include)
    PROVE  Filled(allprop(item, names, include))
<1> DEFINE Further(n) == IF n \in liveProps(item) THEN << >> ELSE <<n>>
           further == [i \in DOMAIN include |-> Further(include[i])]
<1>1. Len(include) \in Nat /\ DOMAIN include = 1..Len(include)
  BY LenProperties DEF IsSeq
<1>2. \A n : IsSeq(Further(n))
  <2>1. << >> \in Seq({}) /\ \A x : <<x>> \in Seq({x})
    OBVIOUS
  <2> QED
    BY <2>1, OfSome
<1> HIDE DEF Further
<1>3. IsSeq(further) /\ Len(further) = Len(include)
  BY <1>1, Listed
<1>4. IsSeq(FlattenSeq(further))
  BY <1>1, <1>2, <1>3, FlatIsASequence
<1>5. allprop(item, names, include) = props(item, names \o FlattenSeq(further))
  BY Zenon DEF allprop, ForEach, Further
<1> HIDE DEF further
<1> QED
  BY <1>4, <1>5, Joined, PropsAreFilled

(* propnames gives a list, in whatever order.                              *)
LEMMA NamesAreASequence ==
    ASSUME NEW item, NEW names \in propnames(item)
    PROVE  IsSeq(names)
<1>3. IsFiniteSet(liveProps(item))
  <2> DEFINE All == {DavName("resourcetype")} \cup {DavName("displayname")}
                     \cup {DavName("getlastmodified")} \cup {DavName("getcontentlength")}
                     \cup {DavName("getcontenttype")} \cup {DavName("getetag")}
  <2>1. IsFiniteSet(All)
    BY FS_Singleton, FS_Union
  <2>2. liveProps(item) \subseteq All
    BY DEF liveProps, EveryItems, FilesOnly
  <2> HIDE DEF All
  <2> QED
    BY <2>1, <2>2, FS_Subset
<1> DEFINE n == Cardinality(liveProps(item))
<1>4. n \in Nat
  BY <1>3, FS_CardinalityType
<1>5. names \in [1..n -> liveProps(item)]
  BY DEF propnames, SetToSeqs
<1> HIDE DEF n
<1> QED
  BY <1>4, <1>5, Listed

(* Every branch of walkFn gives propstats to write.                        *)
LEMMA PropstatsAreFilled ==
    ASSUME NEW item, NEW pf, NEW names, IsSeq(pf.Prop),
           pf.Allprop \/ pf.Propname => IsSeq(names)
    PROVE  Filled(Propstats(item, pf, names))
<1>1. CASE pf.Propname
  <2> DEFINE all == [i \in DOMAIN names |-> Property(names[i], << >>)]
  <2>1. Len(names) \in Nat /\ DOMAIN names = 1..Len(names)
    BY <1>1, LenProperties DEF IsSeq
  <2>2. IsSeq(all)
    BY <2>1, Listed
  <2> HIDE DEF all
  <2>3. Filled(<<Propstat(200, all)>>)
    BY <2>2 DEF Filled, Propstat
  <2>4. Propstats(item, pf, names) = <<Propstat(200, all)>>
    BY <1>1 DEF Propstats, all
  <2> QED
    BY <2>3, <2>4
<1>2. CASE ~pf.Propname /\ pf.Allprop
  <2>1. Propstats(item, pf, names) = allprop(item, names, pf.Prop)
    BY <1>2 DEF Propstats
  <2> QED
    BY <1>2, <2>1, AllpropIsFilled
<1>3. CASE ~pf.Propname /\ ~pf.Allprop
  <2>1. Propstats(item, pf, names) = props(item, pf.Prop)
    BY <1>3 DEF Propstats
  <2> QED
    BY <2>1, PropsAreFilled
<1> QED
  BY <1>1, <1>2, <1>3

(* multistatusWriter.write does not refuse the response of an item, and    *)
(* leaves no trace.                                                        *)
LEMMA WriteLeavesNoTrace ==
    ASSUME NEW p, NEW href, NEW pstats, Ready(p), Filled(pstats)
    PROVE  Same(write(p, makePropstatResponse(href, pstats)), p)
<1> DEFINE r == makePropstatResponse(href, pstats)
<1>1. Len(r.Href) = 1 /\ r.Propstat = pstats /\ r.Status = << >>
  BY DEF makePropstatResponse
<1> HIDE DEF r
<1>2. Legal(r)
  BY <1>1 DEF Legal, Filled
<1>3. Same(marshalResponse(p, r), p)
  BY <1>1, ResponseLeavesNoTrace DEF Filled
<1>4. write(p, r) = marshalResponse(p, r)
  BY <1>2 DEF write
<1> QED
  BY <1>3, <1>4 DEF r

-----------------------------------------------------------------------------
(* The entry that undoes the declaration of the prefix D.                  *)
Declaration == [mark |-> FALSE, prefix |-> <<"D">>, url |-> NoSpace]

(* A name space that has a prefix gets no other.                           *)
LEMMA KnownSpace ==
    ASSUME NEW p, NEW url, url \in DOMAIN p.attrPrefix, url # NoSpace
    PROVE  createNSPrefix(p, url, FALSE) = p
  BY DEF createNSPrefix

(* writeHeader: D:multistatus is open, with the prefix D for DAV: and no   *)
(* default name space.                                                     *)
LEMMA HeaderOpens ==
    /\ IsPrinter(writeHeader) /\ writeHeader.defaultNS = NoSpace /\ writeHeader.failed = FALSE
    /\ writeHeader.seq = 0 /\ writeHeader.tags = Append(<< >>, multistatus)
    /\ writeHeader.prefixes = <<Declaration>> \o (<<Mark>> \o << >>)
    /\ writeHeader.attrNS = With(<< >>, <<"D">>, DAV)
    /\ writeHeader.attrPrefix = With(<< >>, DAV, <<"D">>)
<1> DEFINE t == <<"<", "?", "xml", " ", "version", "=", "\"", "1.0", "\"", "?", ">">>
           p == Write(Printer, t)
           a == Attr(Name(xmlns, <<"D">>), DAV)
           start == Start(multistatus, <<a>>)
           q == [markPrefix(p) EXCEPT !.tags = Append(@, multistatus)]
           d == defineNS(q, a, FALSE)
<1>1. /\ IsPrinter(p) /\ p.defaultNS = NoSpace /\ p.attrNS = << >> /\ p.attrPrefix = << >>
      /\ p.prefixes = << >> /\ p.tags = << >> /\ p.seq = 0 /\ p.failed = FALSE
  <2> HIDE DEF t
  <2> QED
    BY DEF Write, Printer, IsPrinter
<1> HIDE DEF p
<1>2. /\ IsPrinter(q) /\ q.defaultNS = NoSpace /\ q.attrNS = << >> /\ q.attrPrefix = << >>
      /\ q.prefixes = <<Mark>> \o << >> /\ q.tags = Append(<< >>, multistatus)
      /\ q.seq = 0 /\ q.failed = FALSE
  BY <1>1 DEF IsPrinter, markPrefix
<1>3. multistatus.local # << >> /\ multistatus.space = DAV /\ DAV # NoSpace
  BY DEF multistatus, Name, DAV, NoSpace
<1>4. start.kind = "start" /\ start.name = multistatus
  BY DEF Start
<1>5. writeStart(p, start) = Tag(Declared(q, start), start)
  BY <1>3, <1>4 DEF writeStart
<1> HIDE DEF q
<1>6. a.name = Name(xmlns, <<"D">>) /\ a.value = DAV
  BY DEF Attr
<1> HIDE DEF a
<1>7. a.name.space = xmlns /\ a.name.local = <<"D">> /\ a.name.local # xmlns /\ a.name.local # << >>
      /\ isNamespace(a.name)
  <2>1. <<"D">> # <<"xmlns">>
    OBVIOUS
  <2> QED
    BY <1>6, <2>1 DEF Name, isNamespace, xmlns
<1>8. DOMAIN << >> = {}
  OBVIOUS
<1>9. \A x : Lookup(<< >>, x) = NoSpace
  BY <1>8 DEF Lookup
<1>10. <<"D">> # Default
  BY DEF Default
<1>11. Without(<< >>, NoSpace) = << >>
  BY DEF Without
<1>12. d = pushPrefix(q, <<"D">>, DAV)
  BY <1>2, <1>3, <1>6, <1>7, <1>8 DEF defineNS
<1>13. /\ IsPrinter(d) /\ d.defaultNS = NoSpace /\ d.failed = FALSE /\ d.seq = 0
       /\ d.tags = q.tags /\ d.prefixes = <<Declaration>> \o q.prefixes
       /\ d.attrNS = With(<< >>, <<"D">>, DAV) /\ d.attrPrefix = With(<< >>, DAV, <<"D">>)
  <2> DEFINE e == [mark |-> FALSE, prefix |-> <<"D">>, url |-> nsForPrefix(q, <<"D">>)]
             v == [q EXCEPT !.prefixes = <<e>> \o @]
  <2>1. e = Declaration
    BY <1>2, <1>9, <1>10 DEF nsForPrefix, Declaration
  <2>2. /\ IsPrinter(v) /\ v.defaultNS = NoSpace /\ v.failed = FALSE /\ v.seq = 0
        /\ v.tags = q.tags /\ v.prefixes = <<e>> \o q.prefixes
        /\ v.attrNS = << >> /\ v.attrPrefix = << >>
    <3> HIDE DEF e
    <3> QED
      BY <1>2 DEF IsPrinter
  <2>3. d = setAttrPrefix(v, <<"D">>, DAV)
    BY <1>12, Zenon DEF pushPrefix, v, e
  <2> HIDE DEF v, e, d
  <2>4. Without(v.attrPrefix, Lookup(v.attrNS, <<"D">>)) = << >>
    BY <1>9, <1>11, <2>2
  <2>5. d = [v EXCEPT !.attrPrefix = With(<< >>, DAV, <<"D">>), !.attrNS = With(@, <<"D">>, DAV)]
    BY <1>3, <1>10, <2>3, <2>4 DEF setAttrPrefix
  <2> QED
    BY <2>1, <2>2, <2>5 DEF IsPrinter
<1> HIDE DEF d
<1>14. DAV \in DOMAIN d.attrPrefix
  BY <1>13 DEF With
<1>15. createNSPrefix(d, DAV, FALSE) = d
  BY <1>3, <1>14, KnownSpace
<1>16. Declared(q, start) = d
  <2>1. (multistatus.space = NoSpace) = FALSE
    BY <1>3
  <2> QED
    BY <1>3, <1>7, <1>15, <2>1, OneAttribute DEF d
<1>17. Same(Tag(d, start), d)
  <2> HIDE DEF start
  <2> QED
    BY <1>13, Wrote DEF Tag
<1>18. writeHeader = writeStart(p, start)
  <2>1. writeHeader = EncodeToken(p, start)
    BY Zenon DEF writeHeader, p, a
  <2> HIDE DEF start
  <2> QED
    BY <1>4, <2>1 DEF EncodeToken
<1> QED
  BY <1>2, <1>5, <1>13, <1>16, <1>17, <1>18 DEF Same

LEMMA HeaderIsReady == Ready(writeHeader)
<1>1. IsSeq(<< >>)
  BY OfNone
<1>2. IsSeq(Append(<< >>, multistatus)) /\ IsSeq(<<Mark>> \o << >>)
  BY <1>1, Appended, Pushed
<1>3. IsSeq(<<Declaration>> \o (<<Mark>> \o << >>))
  BY <1>2, Pushed
<1> QED
  BY <1>2, <1>3, HeaderOpens DEF Ready

(* close after responses that left no trace: the printer is as it began.   *)
LEMMA EndOfAnswer ==
    ASSUME NEW p, Same(p, writeHeader)
    PROVE  Same(close(p), Printer)
<1> DEFINE t == <<"<", "/">> \o Written(p, multistatus, FALSE) \o <<">">>
           w == [Write(p, t) EXCEPT !.tags = Front(@)]
           v == Restore(w, Declaration)
<1>1. /\ IsPrinter(p) /\ p.defaultNS = NoSpace /\ p.failed = FALSE
      /\ p.seq = 0 /\ p.tags = Append(<< >>, multistatus)
      /\ p.prefixes = <<Declaration>> \o (<<Mark>> \o << >>)
      /\ p.attrNS = With(<< >>, <<"D">>, DAV) /\ p.attrPrefix = With(<< >>, DAV, <<"D">>)
  BY HeaderOpens DEF Same
<1>2. IsSeq(<< >>)
  BY OfNone
<1>3. p.tags # << >> /\ Last(p.tags) = multistatus /\ Front(p.tags) = << >>
  BY <1>1, <1>2, Appended
<1>4. /\ IsPrinter(Printer) /\ Printer.defaultNS = NoSpace /\ Printer.failed = FALSE
      /\ Printer.seq = 0 /\ Printer.tags = << >> /\ Printer.prefixes = << >>
      /\ Printer.attrNS = << >> /\ Printer.attrPrefix = << >>
  BY DEF Printer, IsPrinter
<1>5. close(p) = writeEnd(p, multistatus)
  <2>1. End(multistatus).kind = "end" /\ End(multistatus).name = multistatus
    BY DEF End
  <2> QED
    BY <1>3, <1>4, <2>1 DEF close, EncodeToken
<1>6. multistatus.local # << >>
  BY DEF multistatus, Name
<1>7. writeEnd(p, multistatus) = popPrefix(w)
  BY <1>3, <1>6 DEF writeEnd
<1>8. /\ IsPrinter(w) /\ w.defaultNS = NoSpace /\ w.failed = FALSE /\ w.seq = 0
      /\ w.tags = << >> /\ w.prefixes = <<Declaration>> \o (<<Mark>> \o << >>)
      /\ w.attrNS = With(<< >>, <<"D">>, DAV) /\ w.attrPrefix = With(<< >>, DAV, <<"D">>)
  <2> HIDE DEF t
  <2> QED
    BY <1>1, <1>3 DEF IsPrinter, Write
<1> HIDE DEF w
<1>9. MarkedAt(w.prefixes) = 2 /\ Drop(w.prefixes, 2) = << >> /\ SubSeq(w.prefixes, 1, 2 - 1) = <<Declaration>>
  <2>1. Declaration.mark = FALSE
    BY DEF Declaration
  <2> DEFINE none == << >>
             stack == <<Declaration>> \o (<<Mark>> \o none)
  <2>2. IsSeq(none) /\ w.prefixes = stack
    BY <1>2, <1>8
  <2> HIDE DEF none
  <2>3. MarkedAt(stack) = 2
    BY <2>1, <2>2, FirstMark
  <2>4. Drop(stack, 2) = none
    BY <2>2, PushedTwice
  <2>5. SubSeq(stack, 1, 1) = <<Declaration>>
    BY <2>2, PushedTwice
  <2> QED
    BY <2>2, <2>3, <2>4, <2>5 DEF none
<1>10. /\ \A x, y : Without(With(<< >>, x, y), x) = << >>
       /\ \A x, y : Lookup(With(<< >>, x, y), x) = y
  BY DEF Without, With, Lookup
<1>11. /\ IsPrinter(v) /\ v.defaultNS = NoSpace /\ v.failed = FALSE /\ v.seq = 0
       /\ v.tags = << >> /\ v.attrNS = << >> /\ v.attrPrefix = << >>
  <2>1. Declaration.prefix = <<"D">> /\ Declaration.url = NoSpace /\ <<"D">> # Default
    BY DEF Declaration, Default
  <2>2. /\ Without(w.attrPrefix, Lookup(w.attrNS, <<"D">>)) = << >>
        /\ Without(w.attrNS, <<"D">>) = << >>
    BY <1>8, <1>10, Zenon
  <2>3. v = setAttrPrefix(w, <<"D">>, NoSpace)
    BY <2>1 DEF Restore
  <2> HIDE DEF v
  <2>4. v = [w EXCEPT !.attrPrefix = << >>, !.attrNS = << >>]
    BY <2>1, <2>2, <2>3 DEF setAttrPrefix
  <2> HIDE DEF v
  <2> QED
    BY <1>8, <2>4 DEF IsPrinter
<1>12. popPrefix(w) = [v EXCEPT !.prefixes = << >>]
  <2>1. popPrefix(w) = [v EXCEPT !.prefixes = Drop(@, 2)]
    BY <1>9, OneRestored DEF popPrefix
  <2>2. v.prefixes = w.prefixes
    BY <1>8 DEF Restore, setAttrPrefix, IsPrinter
  <2> HIDE DEF v
  <2> QED
    BY <1>9, <2>1, <2>2
<1> HIDE DEF v
<1> DEFINE z == [v EXCEPT !.prefixes = << >>]
<1>13. /\ IsPrinter(z) /\ z.prefixes = << >> /\ z.defaultNS = v.defaultNS /\ z.failed = v.failed
       /\ z.seq = v.seq /\ z.tags = v.tags /\ z.attrNS = v.attrNS /\ z.attrPrefix = v.attrPrefix
  BY <1>11 DEF IsPrinter
<1> HIDE DEF z
<1>14. close(p) = z
  BY <1>5, <1>7, <1>12 DEF z
<1> QED
  BY <1>4, <1>11, <1>13, <1>14 DEF Same

-----------------------------------------------------------------------------
(* The inductive invariant: what is known of the request and the encoder   *)
(* in each phase.  The first response has written the header, and since    *)
(* then nothing but text has changed.                                      *)
RequestInv ==
    /\ request \in Requests
    /\ phase \in {"received", "refused", "read", "walking", "sent"}
    /\ answered \in 0..Len(request.items)
    /\ result = IF phase = "received" THEN Refused(0) ELSE Reading(request.reader, request.text)
    /\ phase = "refused" <=> result.status # 0
    /\ phase \in {"walking", "sent"} => request.reader = "propfind"
    /\ phase \in {"received", "refused", "read"} => answered = 0
    /\ answered = 0 /\ phase # "sent" => enc = Printer
    /\ phase = "walking" /\ answered > 0 => Same(enc, writeHeader)
    /\ phase = "sent" => Same(enc, Printer)

(* The assumption on requests, in the form the steps need it.              *)
LEMMA RequestIsTyped ==
    ASSUME NEW r \in Requests
    PROVE  /\ Len(r.items) \in Nat
           /\ Reading(r.reader, r.text).status \in {0, 400, 501}
           /\ r.reader = "propfind" /\ Reading(r.reader, r.text).status = 0 =>
                 IsSeq(Reading(r.reader, r.text).val.Prop)
<1>1. r.items \in Seq(ToSet(r.items))
  BY RequestAssumption
<1>2. Len(r.items) \in Nat
  BY <1>1, LenProperties
<1> QED
  BY <1>2, RequestAssumption DEF IsSeq

(* The encoder before it is used.                                          *)
LEMMA PrinterAtRest == IsPrinter(Printer) /\ Same(Printer, Printer)
  BY DEF IsPrinter, Same, Printer

(* The invariant holds at first, and each action keeps it.                 *)
LEMMA RequestInvInit == Init => RequestInv
<1> SUFFICES ASSUME Init PROVE RequestInv
  OBVIOUS
<1>1. Len(request.items) \in Nat
  BY RequestIsTyped DEF Init
<1>2. Refused(0).status = 0
  BY DEF Refused
<1> QED
  BY <1>1, <1>2 DEF Init, RequestInv

LEMMA ReadBodyStep == RequestInv /\ ReadBody => RequestInv'
<1> SUFFICES ASSUME RequestInv, ReadBody PROVE RequestInv'
  OBVIOUS
<1>1. /\ request' = request /\ enc' = enc /\ answered' = answered /\ answered = 0 /\ enc = Printer
      /\ result' = Reading(request.reader, request.text) /\ request \in Requests
      /\ answered \in 0..Len(request.items)
      /\ phase' = IF result'.status # 0 THEN "refused"
                  ELSE IF request.reader = "propfind" THEN "walking" ELSE "read"
  <2>1. /\ phase = "received" /\ request' = request /\ enc' = enc /\ answered' = answered
        /\ result' = Reading(request.reader, request.text)
        /\ phase' = IF result'.status # 0 THEN "refused"
                    ELSE IF request.reader = "propfind" THEN "walking" ELSE "read"
    BY Zenon DEF ReadBody
  <2>2. answered = 0 /\ enc = Printer /\ request \in Requests /\ answered \in 0..Len(request.items)
    BY <2>1 DEF RequestInv
  <2> QED
    BY <2>1, <2>2, Zenon
<1> QED
  BY <1>1 DEF RequestInv

LEMMA RespondStep == RequestInv /\ Respond => RequestInv'
<1> SUFFICES ASSUME RequestInv, Respond PROVE RequestInv'
  OBVIOUS
<1> DEFINE item == request.items[answered + 1]
           pf   == result.val
           p    == IF answered = 0 THEN writeHeader ELSE enc
<1>1. /\ phase = "walking" /\ request \in Requests /\ answered \in 0..Len(request.items)
      /\ answered < Len(request.items) /\ result = Reading(request.reader, request.text)
      /\ result.status = 0 /\ request.reader = "propfind"
      /\ request' = request /\ phase' = phase /\ result' = result /\ answered' = answered + 1
  BY DEF RequestInv, Respond
<1>2. PICK names \in IF pf.Allprop \/ pf.Propname THEN propnames(item) ELSE {<< >>} :
         enc' = write(p, makePropstatResponse(item.href, Propstats(item, pf, names)))
  BY Zenon DEF Respond
<1>3. Len(request.items) \in Nat /\ IsSeq(pf.Prop)
  BY <1>1, RequestIsTyped
<1>4. Same(p, writeHeader) /\ Ready(p)
  <2>1. Same(writeHeader, writeHeader)
    BY HeaderIsReady, Stays DEF Ready
  <2>2. answered # 0 => Same(enc, writeHeader)
    BY <1>1, <1>3 DEF RequestInv
  <2>3. Same(p, writeHeader)
    BY <2>1, <2>2
  <2> QED
    BY <2>3, HeaderIsReady, SameStaysReady
<1>5. pf.Allprop \/ pf.Propname => IsSeq(names)
  BY <1>2, NamesAreASequence
<1> HIDE DEF item, pf, p
<1>6. Same(enc', p)
  <2>1. Filled(Propstats(item, pf, names))
    BY <1>3, <1>5, PropstatsAreFilled
  <2> QED
    BY <1>2, <1>4, <2>1, WriteLeavesNoTrace
<1>7. Same(enc', writeHeader)
  BY <1>4, <1>6, SameAgain
<1>8. answered' \in 0..Len(request.items) /\ answered' > 0
  BY <1>1, <1>3
<1> QED
  BY <1>1, <1>7, <1>8 DEF RequestInv

LEMMA CloseStep == RequestInv /\ Close => RequestInv'
<1> SUFFICES ASSUME RequestInv, Close PROVE RequestInv'
  OBVIOUS
<1>1. /\ phase = "walking" /\ request \in Requests /\ answered \in 0..Len(request.items)
      /\ result = Reading(request.reader, request.text)
      /\ result.status = 0 /\ request.reader = "propfind"
      /\ request' = request /\ result' = result /\ answered' = answered /\ enc' = close(enc)
      /\ phase' = IF enc'.failed THEN "failed" ELSE "sent"
  BY DEF RequestInv, Close
<1>2. Len(request.items) \in Nat
  BY <1>1, RequestIsTyped
<1>3. Same(enc', Printer)
  <2>1. CASE answered = 0
    <3>1. enc = Printer
      BY <1>1, <2>1 DEF RequestInv
    <3>2. close(Printer) = Printer
      BY DEF close
    <3> QED
      BY <1>1, <3>1, <3>2, PrinterAtRest
  <2>2. CASE answered # 0
    <3>1. Same(enc, writeHeader)
      BY <1>1, <1>2, <2>2 DEF RequestInv
    <3> QED
      BY <1>1, <3>1, EndOfAnswer
  <2> QED
    BY <2>1, <2>2
<1>4. enc'.failed = FALSE
  BY <1>3 DEF Same, Printer
<1>5. phase' = "sent"
  BY <1>1, <1>4
<1> QED
  BY <1>1, <1>3, <1>5 DEF RequestInv

LEMMA RequestInvStep == RequestInv /\ [Next]_vars => RequestInv'
<1>1. RequestInv /\ UNCHANGED vars => RequestInv'
  BY DEF RequestInv, vars
<1> QED
  BY <1>1, ReadBodyStep, RespondStep, CloseStep DEF Next

LEMMA RequestInvHolds == Spec => []RequestInv
  BY RequestInvInit, RequestInvStep, PTL DEF Spec

(* Printers that differ in the text only are equal without it.             *)
LEMMA SameButForTheText ==
    ASSUME NEW q, NEW p, Same(q, p)
    PROVE  [q EXCEPT !.out = << >>] = [p EXCEPT !.out = << >>]
<1> DEFINE a == [q EXCEPT !.out = << >>]
           b == [p EXCEPT !.out = << >>]
<1>1. IsPrinter(q) /\ IsPrinter(p)
  BY DEF Same
<1>2. IsPrinter(a) /\ IsPrinter(b)
  BY <1>1 DEF IsPrinter
<1>3. /\ a.out = << >> /\ a.defaultNS = q.defaultNS /\ a.attrNS = q.attrNS
      /\ a.attrPrefix = q.attrPrefix /\ a.prefixes = q.prefixes /\ a.tags = q.tags
      /\ a.seq = q.seq /\ a.failed = q.failed
  BY <1>1 DEF IsPrinter
<1>4. /\ b.out = << >> /\ b.defaultNS = p.defaultNS /\ b.attrNS = p.attrNS
      /\ b.attrPrefix = p.attrPrefix /\ b.prefixes = p.prefixes /\ b.tags = p.tags
      /\ b.seq = p.seq /\ b.failed = p.failed
  BY <1>1 DEF IsPrinter
<1> HIDE DEF a, b
<1>5. a = b
  BY <1>2, <1>3, <1>4 DEF IsPrinter, Same
<1> QED
  BY <1>5 DEF a, b

(* After a response the encoder is as it was before it, after the answer   *)
(* as it began, and no answer fails: whatever the items, the properties    *)
(* asked for and the order of propnames (popPrefix, writeEnd,              *)
(* marshalInterface, parentStack).                                         *)
THEOREM NoResponseLeavesATrace == Spec => []ResponsesLeaveNoTrace
<1>1. RequestInv => ResponsesLeaveNoTrace
  <2> SUFFICES ASSUME RequestInv PROVE ResponsesLeaveNoTrace
    OBVIOUS
  <2>1. phase = "walking" /\ answered > 0 =>
           [enc EXCEPT !.out = << >>] = [writeHeader EXCEPT !.out = << >>]
    BY SameButForTheText DEF RequestInv
  <2>2. [Printer EXCEPT !.out = << >>] = Printer
    <3>1. IsPrinter(Printer) /\ Printer.out = << >>
      BY PrinterAtRest DEF Printer
    <3> QED
      BY <3>1 DEF IsPrinter
  <2>3. phase = "sent" => [enc EXCEPT !.out = << >>] = Printer
    BY <2>2, SameButForTheText DEF RequestInv
  <2>4. phase # "failed"
    BY DEF RequestInv
  <2> QED
    BY <2>1, <2>3, <2>4, Zenon DEF ResponsesLeaveNoTrace
<1> QED
  BY <1>1, RequestInvHolds, PTL

(* Every phase is reached only with the status, the request and the stacks *)
(* of the encoder that belong to it; the two stacks are empty together.    *)
THEOREM PropTypesHold == Spec => []PropTypeOK
<1>1. RequestInv => PropTypeOK
  <2> SUFFICES ASSUME RequestInv PROVE PropTypeOK
    OBVIOUS
  <2>1. result.status \in {0, 400, 501}
    BY RequestIsTyped DEF RequestInv, Refused
  <2>2. ASSUME phase \in {"walking", "sent"}
        PROVE  /\ \A i \in DOMAIN enc.tags : enc.tags[i] \in {multistatus}
               /\ enc.prefixes = << >> <=> enc.tags = << >>
    <3>1. Len(request.items) \in Nat /\ answered \in 0..Len(request.items)
      BY RequestIsTyped DEF RequestInv
    <3>2. Same(enc, writeHeader) \/ Same(enc, Printer)
      BY <2>2, <3>1, PrinterAtRest DEF RequestInv
    <3>3. CASE Same(enc, writeHeader)
      <4>1. enc.tags = Append(<< >>, multistatus) /\ enc.prefixes = <<Declaration>> \o (<<Mark>> \o << >>)
        BY <3>3, HeaderOpens DEF Same
      <4>2. Append(<< >>, multistatus) = <<multistatus>>
        OBVIOUS
      <4>3. IsSeq(<< >>)
        BY OfNone
      <4>4. IsSeq(<<Mark>> \o << >>)
        BY <4>3, Pushed
      <4>5. enc.prefixes # << >>
        BY <4>1, <4>4, Pushed
      <4>6. DOMAIN <<multistatus>> = 1..1 /\ <<multistatus>>[1] = multistatus /\ <<multistatus>> # << >>
        OBVIOUS
      <4> QED
        BY <4>1, <4>2, <4>5, <4>6
    <3>4. CASE Same(enc, Printer)
      BY <3>4 DEF Same, Printer
    <3> QED
      BY <3>2, <3>3, <3>4
  <2> QED
    BY <2>1, <2>2 DEF RequestInv, PropTypeOK
<1> QED
  BY <1>1, RequestInvHolds, PTL
=============================================================================
