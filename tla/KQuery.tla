------------------------------- MODULE KQuery -------------------------------
(***************************************************************************)
(* The text of a query: what ExprPPrinter writes and what the parser of    *)
(* kleaver reads.  An expression and an update list that occur more than   *)
(* once are labelled where they are first written and named later, numbers *)
(* are written without a width where the parser infers it, and             *)
(* consecutive reads are written as one.  A text is a tree here; the lexer *)
(* is left out.                                                            *)
(***************************************************************************)
EXTENDS ExprBuilders, SequencesExt

-----------------------------------------------------------------------------
(* Texts.  A form is (kind width arguments); a version is a list of writes  *)
(* on another version or an array.                                          *)

NoLabel == <<>>
ExprLabel(n) == <<"N", n>>
UpdateLabel(n) == <<"U", n>>
ArrayName(root) == <<root[1]>>

Number(n) == [is |-> "number", value |-> n]
Truth(b) == [is |-> "truth", value |-> b]
Sized(w, n) == [is |-> "sized", width |-> w, value |-> n]
Name(label) == [is |-> "name", label |-> label]
Form(label, kind, w, args) ==
  [is |-> "form", label |-> label, kind |-> kind, width |-> w, args |-> args]
Version(label, writes, base) ==
  [is |-> "version", label |-> label, writes |-> writes, base |-> base]

-----------------------------------------------------------------------------
(* The printer *)

RECURSIVE scan1(_, _), scanUpdate(_, _, _)

\* An update is the list that ends with it.
scanUpdate(found, root, updates) ==
  LET un == <<root, updates>> IN
  IF updates = <<>> THEN found
  ELSE IF un \in found.couldPrintUpdates
       THEN [found EXCEPT !.shouldPrintUpdates = @ \cup {un}]
  ELSE scan1(scan1(scanUpdate([found EXCEPT !.couldPrintUpdates = @ \cup {un}], root, Tail(updates)),
                   updates[1].index), updates[1].value)

scan1(found, e) ==
  IF IsConst(e) THEN found
  ELSE IF e \in found.couldPrint THEN [found EXCEPT !.shouldPrint = @ \cup {e}]
  ELSE LET kids == FoldLeft(scan1, [found EXCEPT !.couldPrint = @ \cup {e}], e.kids) IN
       IF e.op = "Read"
       THEN scanUpdate([kids EXCEPT !.usedArrays = @ \cup {e.data[1]}], e.data[1], e.data[2])
       ELSE kids

NothingFound == [couldPrint |-> {}, shouldPrint |-> {}, couldPrintUpdates |-> {},
                 shouldPrintUpdates |-> {}, usedArrays |-> {}]

\* Whether e reads at an offset from where base does.  (The arrays are not compared.)
isReadExprAtOffset(e, base, offset) ==
  e.op = "Read" /\ create("Sub", e.kids[1], base.kids[1]) = Const(offset, Int32)

\* The read at the lowest index, if the bytes that e concatenates follow each other in
\* steps of stride.
NoRead == Const(0, Int8)
RECURSIVE followingRead(_, _, _, _)
followingRead(e, base, offset, stride) ==
  LET read == IF e.op = "Concat" THEN e.kids[1] ELSE e IN
  IF ~isReadExprAtOffset(read, base, offset) THEN NoRead
  ELSE IF e.op = "Concat" THEN followingRead(e.kids[2], base, offset + stride, stride)
  ELSE IF stride = -1 THEN e ELSE base
hasOrderedReads(e, stride) ==
  IF e.kids[1].op # "Read" THEN NoRead
  ELSE followingRead(e.kids[2], e.kids[1], stride, stride)

printConst(e, printWidth) ==
  IF e.width = Bool THEN Truth(Value(e))
  ELSE IF printWidth THEN Sized(e.width, Value(e)) ELSE Number(Value(e))

\* st holds what was found by the scan and the labels that were given.
RECURSIVE print(_, _, _), printUpdates(_, _, _, _, _)

write(u, st) ==
  LET i == print(u.index, FALSE, st)
      v == print(u.value, FALSE, i.st)
  IN [text |-> <<i.text, v.text>>, st |-> v.st]

closed(label, writes, base) == IF writes = <<>> THEN base ELSE Version(label, writes, base)

\* The list with the given label and writes is open.  An update that is shared begins a
\* list of its own.
printUpdates(root, updates, label, writes, st) ==
  LET un == <<root, updates>>
      given == Cardinality(DOMAIN st.updates)
  IN
  IF updates = <<>> THEN [text |-> closed(label, writes, Name(ArrayName(root))), st |-> st]
  ELSE IF un \in DOMAIN st.updates
       THEN [text |-> closed(label, writes, Name(UpdateLabel(st.updates[un]))), st |-> st]
  ELSE IF un \in st.found.shouldPrintUpdates THEN
    LET first == write(updates[1], [st EXCEPT !.updates = (un :> given) @@ @])
        rest == printUpdates(root, Tail(updates), UpdateLabel(given), <<first.text>>, first.st)
    IN [text |-> closed(label, writes, rest.text), st |-> rest.st]
  ELSE LET next == write(updates[1], st)
       IN printUpdates(root, Tail(updates), label, Append(writes, next.text), next.st)

printRead(e, st) ==
  LET i == print(e.kids[1], FALSE, st)
      v == printUpdates(e.data[1], e.data[2], NoLabel, <<>>, i.st)
  IN [texts |-> <<i.text, v.text>>, st |-> v.st]

\* Constants are printed with their width if asked for, except as the first operand.
printKids(e, printConstWidth, st) ==
  LET f[n \in 0..Len(e.kids)] ==
        IF n = 0 THEN [texts |-> <<>>, st |-> st]
        ELSE LET kid == print(e.kids[n], printConstWidth /\ n > 1, f[n - 1].st)
             IN [texts |-> Append(f[n - 1].texts, kid.text), st |-> kid.st]
  IN f[Len(e.kids)]

\* A concatenation of ordered reads is printed as one: lsb and msb are the lowest of them.
printArgs(e, kind, lsb, msb, st) ==
  CASE kind = "ReadLSB" -> printRead(lsb, st)
    [] kind = "ReadMSB" -> printRead(msb, st)
    [] kind = "Read" -> printRead(e, st)
    [] OTHER -> printKids(e, kind \in {"Concat", "SExt"}, st)
formOf(e, label, kind, kids) ==
  [text |-> Form(label, kind, e.width,
                 IF kind = "Extract" THEN <<Number(e.data[1])>> \o kids.texts ELSE kids.texts),
   st |-> kids.st]
printKind(e, label, kind, lsb, msb, st) ==
  formOf(e, label, kind, printArgs(e, kind, lsb, msb, st))
printReads(e, label, lsb, msb, st) ==
  printKind(e, label, IF lsb # NoRead THEN "ReadLSB" ELSE IF msb # NoRead THEN "ReadMSB" ELSE e.op,
            lsb, msb, st)
printForm(e, label, st) ==
  printReads(e, label, IF e.op = "Concat" THEN hasOrderedReads(e, -1) ELSE NoRead,
             IF e.op = "Concat" THEN hasOrderedReads(e, 1) ELSE NoRead, st)

\* Mutant: what is shared gets a label that is not kept.
printUnlabelled(e, st) ==
  printForm(e, IF e \in st.found.shouldPrint THEN ExprLabel(Cardinality(DOMAIN st.exprs)) ELSE NoLabel, st)

printLabelled(e, st) ==
  IF e \in st.found.shouldPrint THEN
    LET given == Cardinality(DOMAIN st.exprs)
    IN printForm(e, ExprLabel(given), [st EXCEPT !.exprs = (e :> given) @@ @])
  ELSE printForm(e, NoLabel, st)

print(e, printConstWidth, st) ==
  CASE IsConst(e) -> [text |-> printConst(e, printConstWidth), st |-> st]
    [] ~IsConst(e) /\ e \in DOMAIN st.exprs ->
         [text |-> Name(ExprLabel(st.exprs[e])), st |-> st]
    [] ~IsConst(e) /\ e \notin DOMAIN st.exprs -> printLabelled(e, st)

\* The declarations of the arrays, the constraints and the query.
printQuery(constraints, q) ==
  LET found == FoldLeft(scan1, NothingFound, Append(constraints, q))
      f[n \in 0..(Len(constraints) + 1)] ==
        IF n = 0 THEN [texts |-> <<>>, st |-> [found |-> found, exprs |-> <<>>, updates |-> <<>>]]
        ELSE LET p == print(Append(constraints, q)[n], FALSE, f[n - 1].st)
             IN [texts |-> Append(f[n - 1].texts, p.text), st |-> p.st]
  IN [arrays |-> found.usedArrays, texts |-> f[Len(constraints) + 1].texts]

-----------------------------------------------------------------------------
(* The parser.  An error is reported and the query then not used: Invalid.  *)
(* s holds the builder and the symbol tables.                               *)

Invalid == [op |-> "invalid", width |-> 0, kids |-> <<>>, data |-> <<>>]
InvalidVersion == <<>>
AnyType == 0

RECURSIVE ParseExpr(_, _, _), ParseVersionSpecifier(_, _)

Parsed(e, s) == [e |-> e, s |-> s]
ParseNumber(w, text) == Const(text.value, w)

\* A number whose type is known later.
ParseNumberOrExpr(text, w, s) ==
  IF text.is = "number" THEN Parsed(ParseNumber(w, text), s) ELSE ParseExpr(text, AnyType, s)

\* Two operands of the same type: that of the expected one, or of the one that is no
\* number.
ParseMatchedBinaryArgs(l, r, w, s) ==
  IF w # AnyType \/ l.is # "number" THEN
    LET left == ParseExpr(l, w, s)
        right == ParseExpr(r, IF w # AnyType THEN w ELSE left.e.width, left.s)
    IN [l |-> left.e, r |-> right.e, s |-> right.s]
  ELSE LET right == ParseExpr(r, AnyType, s)
       IN [l |-> ParseNumber(right.e.width, l), r |-> right.e, s |-> right.s]

\* Kinds whose operands have the type of the result.
IsFixed(kind) == kind \notin Comparisons \cup Derived

ParseBinaryParenExpr(text, s) ==
  LET p == ParseMatchedBinaryArgs(text.args[1], text.args[2],
                                  IF IsFixed(text.kind) THEN text.width ELSE AnyType, s)
  IN Parsed(IF Invalid \in {p.l, p.r} \/ p.l.width # p.r.width THEN Invalid
            ELSE build(s.builder, text.kind, p.l, p.r), p.s)

ParseUnaryParenExpr(text, s) ==
  LET p == ParseExpr(text.args[1], IF text.kind = "Not" THEN text.width ELSE AnyType, s)
  IN Parsed(IF p.e = Invalid THEN Invalid
            ELSE IF text.kind = "Not" THEN buildNot(s.builder, p.e)
            ELSE buildCast(s.builder, text.kind, p.e, text.width), p.s)

ParseSelectParenExpr(text, s) ==
  LET c == ParseExpr(text.args[1], Bool, s)
      p == ParseMatchedBinaryArgs(text.args[2], text.args[3], text.width, c.s)
  IN Parsed(IF Invalid \in {c.e, p.l, p.r} THEN Invalid
            ELSE buildSelect(s.builder, c.e, p.l, p.r), p.s)

\* ConcatExpr::createN.
createN(es) == FoldRight(Concat, SubSeq(es, 1, Len(es) - 1), Last(es))

ParseConcatParenExpr(text, s) ==
  LET f[n \in 0..Len(text.args)] ==
        IF n = 0 THEN [es |-> <<>>, s |-> s]
        ELSE LET p == ParseExpr(text.args[n], AnyType, f[n - 1].s)
             IN [es |-> Append(f[n - 1].es, p.e), s |-> p.s]
      kids == f[Len(text.args)]
  IN Parsed(IF Invalid \in ToSet(kids.es) THEN Invalid
            ELSE LET e == createN(kids.es) IN IF e.width = text.width THEN e ELSE Invalid, kids.s)

ParseExtractParenExpr(text, s) ==
  LET p == ParseExpr(text.args[2], AnyType, s)
      off == text.args[1].value
  IN Parsed(IF p.e = Invalid \/ off + text.width > p.e.width THEN Invalid
            ELSE buildExtract(s.builder, p.e, off, text.width), p.s)

\* One read for each byte of the type, by ascending indices.
Reads(builder, v, index, n) ==
  [i \in 1..n |-> buildRead(builder, v[1], v[2],
                            IF i = 1 THEN index ELSE create("Add", index, Const(i - 1, Int32)))]

InOrder(kind, reads) == IF kind = "ReadLSB" THEN Reverse(reads) ELSE reads
ReadFrom(text, builder, index, v) ==
  IF index = Invalid \/ v = InvalidVersion \/ index.width # Int32 \/ text.width % Int8 # 0 THEN Invalid
  ELSE IF text.kind = "Read" THEN buildRead(builder, v[1], v[2], index)
  ELSE createN(InOrder(text.kind, Reads(builder, v, index, text.width \div Int8)))
ParseRead(text, builder, i, v) == Parsed(ReadFrom(text, builder, i.e, v.e), v.s)
ParseAnyReadParenExpr(text, s) ==
  LET i == ParseNumberOrExpr(text.args[1], Int32, s)
  IN ParseRead(text, s.builder, i, ParseVersionSpecifier(text.args[2], i.s))

ParseParenExpr(text, s) ==
  CASE text.is = "sized" -> Parsed(ParseNumber(text.width, text), s)
    [] text.is = "form" /\ text.kind = "Concat" -> ParseConcatParenExpr(text, s)
    [] text.is = "form" /\ text.kind = "Extract" -> ParseExtractParenExpr(text, s)
    [] text.is = "form" /\ text.kind \in {"Read", "ReadLSB", "ReadMSB"} ->
         ParseAnyReadParenExpr(text, s)
    [] text.is = "form" /\ text.kind \in {"Not", "ZExt", "SExt"} -> ParseUnaryParenExpr(text, s)
    [] text.is = "form" /\ text.kind = "Select" -> ParseSelectParenExpr(text, s)
    [] text.is = "form" /\ text.kind \in Binary -> ParseBinaryParenExpr(text, s)

\* What was parsed has to be of the expected type, and a label is given once.
Labelled(p, known, label, w) ==
  IF \/ p.e = Invalid
     \/ w # AnyType /\ p.e.width # w
     \/ label # NoLabel /\ label \in known
  THEN Parsed(Invalid, p.s)
  ELSE Parsed(p.e, IF label = NoLabel THEN p.s ELSE [p.s EXCEPT !.exprs = (label :> p.e) @@ @])

\* What is named has the type it has.
ParseExpr(text, w, s) ==
  CASE text.is = "truth" -> Parsed(Const(text.value, Bool), s)
    [] text.is = "number" -> Parsed(IF w = AnyType THEN Invalid ELSE ParseNumber(w, text), s)
    [] text.is = "name" ->
         Parsed(IF text.label \in DOMAIN s.exprs THEN s.exprs[text.label] ELSE Invalid, s)
    [] text.is \in {"sized", "form"} ->
         Labelled(ParseParenExpr(text, s), DOMAIN s.exprs,
                  IF text.is = "form" THEN text.label ELSE NoLabel, w)

\* The writes are read as they are written, and applied from the last.
WithWrites(updates, base) ==
  Parsed(IF \/ base.e = InvalidVersion
            \/ \E u \in ToSet(updates) : u.index.width # Int32 \/ u.value.width # Int8
         THEN InvalidVersion ELSE <<base.e[1], updates \o base.e[2]>>, base.s)
ParseVersion(text, s) ==
  LET f[n \in 0..Len(text.writes)] ==
        IF n = 0 THEN [updates |-> <<>>, s |-> s]
        ELSE LET i == ParseNumberOrExpr(text.writes[n][1], Int32, f[n - 1].s)
                 v == ParseNumberOrExpr(text.writes[n][2], Int8, i.s)
             IN [updates |-> Append(f[n - 1].updates, Update(i.e, v.e)), s |-> v.s]
      writes == f[Len(text.writes)]
  IN WithWrites(writes.updates, ParseVersionSpecifier(text.base, writes.s))

LabelledVersion(p, known, label) ==
  IF p.e = InvalidVersion \/ label \in known THEN Parsed(InvalidVersion, p.s)
  ELSE Parsed(p.e, IF label = NoLabel THEN p.s
                   ELSE [p.s EXCEPT !.versions = (label :> p.e) @@ @])
ParseVersionSpecifier(text, s) ==
  IF text.is = "name" THEN
    Parsed(IF text.label \in DOMAIN s.versions THEN s.versions[text.label] ELSE InvalidVersion, s)
  ELSE LabelledVersion(ParseVersion(text, s), DOMAIN s.versions, text.label)

\* The arrays are declared and the labels of other queries forgotten.
ParseQueryCommand(builder, query) ==
  LET f[n \in 0..Len(query.texts)] ==
        IF n = 0
        THEN [es |-> <<>>,
              s |-> [builder |-> builder, exprs |-> <<>>,
                     versions |-> [label \in {ArrayName(root) : root \in query.arrays} |->
                                     <<CHOOSE root \in query.arrays : ArrayName(root) = label, <<>>>>]]]
        ELSE LET p == ParseExpr(query.texts[n], Bool, f[n - 1].s)
             IN [es |-> Append(f[n - 1].es, p.e), s |-> p.s]
  IN f[Len(query.texts)].es
=============================================================================
