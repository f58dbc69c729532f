---------------------------- MODULE FormulaParser ----------------------------
(* The formula parser, parser/parser.ts: precedence climbing over the tokens  *)
(* of a formula, which never fails but counts diagnostics.                    *)
(*                                                                            *)
(* Every parsing operator takes the tokens ts, ending in EOF, and a position  *)
(* p, and returns [n |-> the node, p |-> the position after it, d |-> the     *)
(* diagnostics it noted]. Pieces of column and row ranges, "colPiece" and     *)
(* "rowPiece", are nodes that only folding consumes.                          *)
EXTENDS FormulaSyntax

Eof == [t |-> "eof", x |-> ""]
MaxCol == 16383
MaxRow == 1048575

Precedence == [o \in {"=", "<>", "<", "<=", ">", ">="} |-> 1]
           @@ ("&" :> 2) @@ ("+" :> 3) @@ ("-" :> 3) @@ ("*" :> 4) @@ ("/" :> 4) @@ ("^" :> 5)
PercentPrecedence == 6
UnaryPrecedence == 7
IntersectionPrecedence == 8
ColonPrecedence == 9

CellLikeFunctions == {"LOG10", "ATAN2", "T3", "F4"}
StructuredItems == [ALL |-> "All", DATA |-> "Data", HEADERS |-> "Headers", TOTALS |-> "Totals"]
                @@ ("THIS ROW" :> "This Row")

Parsed(n, p, d) == [n |-> n, p |-> p, d |-> d]
Bad(x) == [k |-> "bad", s |-> x]

----------------------------------------------------------------------------
(* Tokens: raw sees white space, peek and next skip it. *)

raw(ts, p) == ts[IF p < Len(ts) THEN p ELSE Len(ts)]
skipSpace(ts, p) == IF raw(ts, p).t = "ws" THEN p + 1 ELSE p
peek(ts, p) == raw(ts, skipSpace(ts, p))
next(ts, p) == skipSpace(ts, p) + IF peek(ts, p).t = "eof" THEN 0 ELSE 1

isOp(token, text) == token.t = "op" /\ token.x = text
rawIsImmediate(ts, p, text) == isOp(raw(ts, p), text)

IsPiece(n) == n.k \in {"colPiece", "rowPiece"}
isPRefValued(n) == IsPiece(n) \/ isRefValued(n)
isRefStart(token) ==
  \/ token.t \in {"cell", "colRef", "rowRef", "ident", "quoted", "bracket", "number"}
  \/ isOp(token, "(") \/ isOp(token, "@")

finalize(r) == IF IsPiece(r.n) THEN [r EXCEPT !.n = Bad(""), !.d = @ + 1] ELSE r

----------------------------------------------------------------------------
(* Structured references, from the text between the brackets. *)

RECURSIVE escapeAwareChars(_)
escapeAwareChars(v) ==
  IF v = <<>> THEN <<>>
  ELSE IF Head(v) = "'" /\ Len(v) > 1
       THEN <<[ch |-> v[2], escaped |-> TRUE]>> \o escapeAwareChars(SubSeq(v, 3, Len(v)))
       ELSE <<[ch |-> Head(v), escaped |-> FALSE]>> \o escapeAwareChars(Tail(v))

unescapeChars(chars) == [i \in DOMAIN chars |-> chars[i].ch]
Plain(c, ch) == c.ch = ch /\ ~c.escaped

trimChars(chars) ==
  LET inked == {i \in DOMAIN chars : ~Plain(chars[i], " ")}
  IN IF inked = {} THEN <<>> ELSE SubSeq(chars, Min(inked), Max(inked))

\* How deep in brackets the text is after its first i characters.
Depth(chars, i) == Cardinality({j \in 1 .. i : Plain(chars[j], "[")})
                 - Cardinality({j \in 1 .. i : Plain(chars[j], "]")})

\* The pieces between the commas that are in no brackets.
RECURSIVE SplitAt(_, _, _)
SplitAt(chars, from, i) ==
  IF i > Len(chars) THEN <<SubSeq(chars, from, Len(chars))>>
  ELSE IF Plain(chars[i], ",") /\ Depth(chars, i) = 0
       THEN <<SubSeq(chars, from, i - 1)>> \o SplitAt(chars, i + 1, i + 1)
       ELSE SplitAt(chars, from, i + 1)

unwrapBrackets(chars) ==
  IF chars = <<>> THEN [ok |-> TRUE, in |-> chars]
  ELSE LET opens == Plain(chars[1], "[")
           closes == Plain(Last(chars), "]")
       IN IF opens /\ closes /\ Len(chars) >= 2
          THEN [ok |-> TRUE, in |-> SubSeq(chars, 2, Len(chars) - 1)]
          ELSE [ok |-> opens = closes, in |-> chars]

\* [a]:[b], or <<>> for a part that is no such span.
SpanOf(left, right) == IF right.ok THEN <<left, right.in>> ELSE <<>>
SpanFrom(left, rest) ==
  IF rest = <<>> \/ ~Plain(rest[1], ":") THEN <<>>
  ELSE SpanOf(left, unwrapBrackets(trimChars(Tail(rest))))
SplitBehind(chars, close) ==
  SpanFrom(SubSeq(chars, 2, close - 1), trimChars(SubSeq(chars, close + 1, Len(chars))))
splitSpan(chars) ==
  LET closing == {i \in DOMAIN chars : Plain(chars[i], "]") /\ Depth(chars, i) = 0}
  IN IF chars = <<>> \/ ~Plain(chars[1], "[") \/ closing = {} THEN <<>>
     ELSE SplitBehind(chars, Min(closing))

NoParts == [items |-> <<>>, columns |-> <<>>, thisRow |-> FALSE, d |-> 0]

WithItem(sofar, item) ==
  IF Len(item) = 2 /\ item[2] \in DOMAIN StructuredItems
  THEN [sofar EXCEPT !.items = Append(@, StructuredItems[item[2]]),
                     !.thisRow = @ \/ item[2] = "THIS ROW"]
  ELSE [sofar EXCEPT !.d = @ + 1]

WithColumn(sofar, ok, column) ==
  IF ok /\ column # <<>> /\ Plain(column[1], "#")
  THEN WithItem(sofar, [i \in DOMAIN column |-> toUpperCase(column[i].ch)])
  ELSE IF ok /\ column # <<>> /\ \A i \in DOMAIN column, x \in {"[", "]"} : ~Plain(column[i], x)
  THEN [sofar EXCEPT !.columns = Append(@, unescapeChars(column))]
  ELSE [sofar EXCEPT !.d = @ + 1]

WithUnwrapped(sofar, inner) == WithColumn(sofar, inner.ok, trimChars(inner.in))
WithSpan(sofar, part, span) ==
  IF part = <<>> THEN sofar
  ELSE IF span = <<>> THEN WithUnwrapped(sofar, unwrapBrackets(part))
  ELSE [sofar EXCEPT !.columns = @ \o <<unescapeChars(span[1]), unescapeChars(span[2])>>]
WithTrimmed(sofar, part) == WithSpan(sofar, part, splitSpan(part))
WithPart(sofar, chars) == WithTrimmed(sofar, trimChars(chars))

\* The parts of the text that starts, past white space, at its character first.
PartsFrom(chars, first) ==
  LET at == first <= Len(chars) /\ Plain(chars[first], "@")
  IN FoldLeft(WithPart, [NoParts EXCEPT !.thisRow = at],
              SplitAt(SubSeq(chars, IF at THEN first + 1 ELSE first, Len(chars)), 1, 1))
PartsOf(chars) ==
  PartsFrom(chars, Min({i \in DOMAIN chars : ~Plain(chars[i], " ")} \union {Len(chars) + 1}))

StructuredNode(table, bracket, p, read) ==
  Parsed([k |-> "structured", s |-> table, items |-> read.items, columns |-> read.columns,
          thisRow |-> read.thisRow, raw |-> bracket.v],
         p, read.d + IF read.items = <<>> /\ read.columns = <<>> /\ ~read.thisRow THEN 1 ELSE 0)
parseStructured(table, bracket, p) ==
  StructuredNode(table, bracket, p, PartsOf(escapeAwareChars(bracket.v)))

----------------------------------------------------------------------------
(* Folding of reference operators. *)

sameSheet(a, b) ==
  LET text(part) == IF part = None THEN "" ELSE part
  IN /\ toUpperCase(text(a.start)) = toUpperCase(text(b.start))
     /\ text(a.end) = text(b.end) /\ text(a.external) = text(b.external)

IsColumn(n) ==
  \/ n.k = "colPiece"
  \/ /\ n.k = "name" /\ Len(n.s) \in 1 .. 3 /\ 0 \notin ToSet(LetterPlaces(n.s))
     /\ colLettersToIndex(n.s) <= MaxCol
IsRow(n) == n.k = "rowPiece" \/ (n.k = "number" /\ n.n >= 1)
asColPiece(n) == IF n.k = "colPiece" THEN n
                 ELSE [k |-> "colPiece", sheet |-> n.sheet,
                       from |-> [at |-> colLettersToIndex(n.s), abs |-> FALSE]]
asRowPiece(n) == IF n.k = "rowPiece" THEN n
                 ELSE [k |-> "rowPiece", sheet |-> NoSheet,
                       from |-> [at |-> n.n - 1, abs |-> FALSE]]
Fold(k, l, r) == [k |-> k, sheet |-> l.sheet, from |-> l.from, to |-> r.from]

Binary(op, left, right) ==
  LET l == finalize(left)
      r == finalize(right)
  IN Parsed([k |-> "binary", s |-> op, l |-> l.n, r |-> r.n], right.p, l.d + r.d)
Blamed(parsed, wrong) == [parsed EXCEPT !.d = @ + IF wrong THEN 1 ELSE 0]

foldRef(op, left, right) ==
  LET cells == op = ":" /\ left.n.k = "cell" /\ right.n.k = "cell"
      apart == cells /\ right.n.sheet.start # None /\ ~sameSheet(left.n.sheet, right.n.sheet)
      folded(n) == Parsed(n, right.p, left.d + right.d)
  IN IF cells /\ ~apart
     THEN folded([k |-> "range", sheet |-> left.n.sheet, a |-> left.n.a, z |-> right.n.a])
     ELSE IF op = ":" /\ IsColumn(left.n) /\ IsColumn(right.n)
     THEN folded(Fold("colRange", asColPiece(left.n), asColPiece(right.n)))
     ELSE IF op = ":" /\ IsRow(left.n) /\ IsRow(right.n)
     THEN folded(Fold("rowRange", asRowPiece(left.n), asRowPiece(right.n)))
     ELSE Blamed(Binary(op, left, right), apart)

----------------------------------------------------------------------------
(* Array literals. *)

RECURSIVE parseArrayElement(_, _), ArrayRows(_, _, _, _)
parseArrayElement(ts, p) ==
  LET token == peek(ts, p)
      after == next(ts, p)
  IN CASE isOp(token, "-") \/ isOp(token, "+") ->
            [parseArrayElement(ts, after) EXCEPT !.n = [k |-> "unary", s |-> token.x, e |-> @]]
       [] token.t = "number" -> Parsed([k |-> "number", n |-> token.n], after, 0)
       [] token.t \in {"string", "error"} -> Parsed([k |-> token.t, s |-> token.x], after, 0)
       [] token.t = "ident" /\ toUpperCase(token.x) \in {"TRUE", "FALSE"} ->
            Parsed([k |-> "bool", b |-> toUpperCase(token.x) = "TRUE"], after, 0)
       [] OTHER -> Parsed(Bad(token.x), after, 1)

ArrayRows(ts, p, rows, d) ==
  LET token == peek(ts, p)
      after == next(ts, p)
      with(element) == ArrayRows(ts, element.p,
        [rows EXCEPT ![Len(rows)] = Append(@, element.n)], d + element.d)
  IN CASE token.t = "eof" -> Parsed(rows, p, d + 1)
       [] isOp(token, "}") -> Parsed(rows, after, d)
       [] isOp(token, ",") -> ArrayRows(ts, after, rows, d)
       [] isOp(token, ";") -> ArrayRows(ts, after, Append(rows, <<>>), d)
       [] OTHER -> with(parseArrayElement(ts, p))

Ragged(rows) == rows[1] = <<>> \/ \E i \in DOMAIN rows : Len(rows[i]) # Len(rows[1])
parseArray(ts, p) ==
  LET of(read) == Blamed([read EXCEPT !.n = [k |-> "array", rows |-> @]], Ragged(read.n))
  IN of(ArrayRows(ts, next(ts, p), <<<<>>>>, 0))

----------------------------------------------------------------------------
(* Expressions. *)

RECURSIVE parseExpr(_, _, _), Climb(_, _, _), Joined(_, _, _, _), parseUnary(_, _), Postfix(_, _),
          parseArgList(_, _), Arguments(_, _, _, _), Argument(_, _, _, _), parsePrimary(_, _),
          parseCellish(_, _, _), parseIdentish(_, _, _), parseAfterSheet(_, _, _),
          parseFuncCall(_, _, _), parseGroup(_, _), Union(_, _)

parseExpr(ts, p, minPrec) == Climb(ts, parseUnary(ts, p), minPrec)

\* A space is an intersection when references stand on both sides; the one on
\* the right is parsed on trial.
Climb(ts, left, minPrec) ==
  LET maybe == /\ raw(ts, left.p).t = "ws" /\ IntersectionPrecedence >= minPrec
               /\ isRefStart(peek(ts, left.p)) /\ isPRefValued(left.n)
      intersected(right) == IF isPRefValued(right.n) THEN foldRef(" ", left, right) ELSE left
  IN Joined(ts, left, IF maybe THEN intersected(parseExpr(ts, left.p + 1, IntersectionPrecedence + 1))
                      ELSE left, minPrec)

Joined(ts, left, intersected, minPrec) ==
  LET token == peek(ts, left.p)
      after == next(ts, left.p)
      onward(whole) == Climb(ts, whole, minPrec)
      percent(whole) == Parsed([k |-> "percent", e |-> whole.n], after, whole.d)
  IN IF intersected # left THEN onward(intersected)
     ELSE IF isOp(token, ":") /\ ColonPrecedence >= minPrec
     THEN onward(foldRef(":", left, parseExpr(ts, after, ColonPrecedence + 1)))
     ELSE IF isOp(token, "%") /\ PercentPrecedence >= minPrec
     THEN onward(percent(finalize(left)))
     ELSE IF token.t = "op" /\ token.x \in DOMAIN Precedence /\ Precedence[token.x] >= minPrec
     THEN onward(Binary(token.x, left, parseExpr(ts, after, Precedence[token.x] + 1)))
     ELSE left

parseUnary(ts, p) ==
  LET token == peek(ts, p)
      operand == finalize(parseExpr(ts, next(ts, p), UnaryPrecedence))
      at(e) == Blamed([e EXCEPT !.n = [k |-> "implicitIntersection", e |-> @]],
                      e.n.k = "implicitIntersection")
  IN IF isOp(token, "-") \/ isOp(token, "+")
     THEN [operand EXCEPT !.n = [k |-> "unary", s |-> token.x, e |-> @]]
     ELSE IF isOp(token, "@") THEN at(operand)
     ELSE Postfix(ts, parsePrimary(ts, p))

Postfix(ts, node) ==
  LET spilled(whole) == Parsed([k |-> "spill", e |-> whole.n], node.p + 1, whole.d)
      called(args) == Parsed([k |-> "callExpr", e |-> node.n, args |-> args.n],
                             args.p, node.d + args.d)
  IN IF rawIsImmediate(ts, node.p, "#") /\ isPRefValued(node.n)
     THEN Postfix(ts, spilled(finalize(node)))
     ELSE IF rawIsImmediate(ts, node.p, "(") /\ node.n.k \in {"func", "callExpr", "group"}
     THEN Postfix(ts, called(parseArgList(ts, node.p)))
     ELSE node

\* The arguments between "(" at p and the matching ")".
parseArgList(ts, p) ==
  IF isOp(peek(ts, p + 1), ")") THEN Parsed(<<>>, next(ts, p + 1), 0)
  ELSE Arguments(ts, p + 1, <<>>, 0)

Missing == [k |-> "missing"]

Arguments(ts, p, args, d) ==
  LET token == peek(ts, p)
      missing == Append(args, Missing)
  IN IF isOp(token, ",") THEN Arguments(ts, next(ts, p), missing, d)
     ELSE IF isOp(token, ")") THEN Parsed(missing, next(ts, p), d)
     ELSE Argument(ts, finalize(parseExpr(ts, p, 0)), args, d)

Argument(ts, arg, args, d) ==
  LET token == peek(ts, arg.p)
      after == next(ts, arg.p)
      taken == Append(args, arg.n)
  IN IF isOp(token, ",") THEN Arguments(ts, after, taken, d + arg.d)
     ELSE IF isOp(token, ")") THEN Parsed(taken, after, d + arg.d)
     ELSE Parsed(taken, arg.p, d + arg.d + 1)

ColPiece(token, sheet) == [k |-> "colPiece", sheet |-> sheet, from |-> [at |-> token.n, abs |-> TRUE]]
RowPiece(token, sheet) == [k |-> "rowPiece", sheet |-> sheet, from |-> [at |-> token.n, abs |-> TRUE]]

\* The pieces of a quoted sheet name: a workbook in brackets, a sheet, a span.
QuotedSheet(v) ==
  LET external == Len(v) >= 3 /\ v[1] = "[" /\ v[3] = "]"
      name == IF external THEN SubSeq(v, 4, Len(v)) ELSE v
      span == Len(name) = 3 /\ name[2] = ":"
  IN [start |-> name[1], end |-> IF span THEN name[3] ELSE None,
      external |-> IF external THEN v[2] ELSE None]

Quoted(ts, p) ==
  LET after == next(ts, p)
  IN IF rawIsImmediate(ts, after, "!")
     THEN parseAfterSheet(ts, after + 1, QuotedSheet(peek(ts, p).v))
     ELSE Parsed(Bad(peek(ts, p).x), after, 1)

Letters(v) == FoldLeft(LAMBDA s, c : s \o c, "", v)
\* The name a sheet token stands for.
SheetText(token) == IF token.t = "quoted" THEN Letters(token.v) ELSE token.x

hasBangAhead(ts, p) ==
  \/ isOp(raw(ts, p + 1), "!")
  \/ /\ isOp(raw(ts, p + 1), ":") /\ raw(ts, p + 2).t \in {"ident", "quoted"}
     /\ isOp(raw(ts, p + 3), "!")

parseBracketPrimary(ts, p) ==
  LET token == peek(ts, p)
      after == next(ts, p)
      spans == rawIsImmediate(ts, after + 1, ":")
      end == IF spans THEN after + 3 ELSE after + 1
      sheet == [start |-> SheetText(raw(ts, after)),
                end |-> IF spans THEN SheetText(raw(ts, after + 2)) ELSE None,
                external |-> Letters(unescapeChars(escapeAwareChars(token.v)))]
  IN IF raw(ts, after).t \in {"ident", "cell", "quoted"} /\ hasBangAhead(ts, after)
     THEN parseAfterSheet(ts, end + 1, sheet)
     ELSE parseStructured("", token, after)

parsePrimary(ts, p) ==
  LET token == peek(ts, p)
      after == next(ts, p)
  IN CASE token.t = "number" -> Parsed([k |-> "number", n |-> token.n], after, 0)
       [] token.t \in {"string", "error"} -> Parsed([k |-> token.t, s |-> token.x], after, 0)
       [] token.t = "cell" -> parseCellish(ts, p, NoSheet)
       [] token.t = "colRef" -> Parsed(ColPiece(token, NoSheet), after, 0)
       [] token.t = "rowRef" -> Parsed(RowPiece(token, NoSheet), after, 0)
       [] token.t = "quoted" -> Quoted(ts, p)
       [] token.t = "bracket" -> parseBracketPrimary(ts, p)
       [] token.t = "ident" -> parseIdentish(ts, p, NoSheet)
       [] isOp(token, "(") -> parseGroup(ts, p)
       [] isOp(token, "{") -> parseArray(ts, p)
       [] OTHER -> Parsed(Bad(token.x), after, 1)

parseCellish(ts, p, sheet) ==
  LET token == peek(ts, p)
      after == next(ts, p)
      refused(call) == Parsed(Bad(token.x), call.p, call.d + 1)
  IN IF sheet = NoSheet /\ rawIsImmediate(ts, after, "!")
     THEN parseAfterSheet(ts, after + 1, [NoSheet EXCEPT !.start = token.x])
     ELSE IF sheet = NoSheet /\ raw(ts, after).t = "bracket"
     THEN parseStructured(token.x, raw(ts, after), after + 1)
     ELSE IF rawIsImmediate(ts, after, "(")
     THEN IF token.x \in CellLikeFunctions THEN parseFuncCall(ts, p, sheet)
          ELSE refused(parseArgList(ts, after))
     ELSE IF token.a.col > MaxCol \/ token.a.row > MaxRow
     THEN Parsed([k |-> "name", sheet |-> sheet, s |-> cellText(Relative(token.a.row, token.a.col))],
                 after, 0)
     ELSE Parsed([k |-> "cell", sheet |-> sheet, a |-> token.a], after, 0)

parseIdentish(ts, p, sheet) ==
  LET token == peek(ts, p)
      after == next(ts, p)
      free == sheet = NoSheet
  IN IF rawIsImmediate(ts, after, "(") THEN parseFuncCall(ts, p, sheet)
     ELSE IF free /\ raw(ts, after).t = "bracket"
     THEN parseStructured(token.x, raw(ts, after), after + 1)
     ELSE IF free /\ rawIsImmediate(ts, after, "!")
     THEN parseAfterSheet(ts, after + 1, [NoSheet EXCEPT !.start = token.x])
     ELSE IF /\ free /\ rawIsImmediate(ts, after, ":") /\ raw(ts, after + 1).t = "ident"
             /\ isOp(raw(ts, after + 2), "!")
     THEN parseAfterSheet(ts, after + 3, [start |-> token.x, end |-> raw(ts, after + 1).x,
                                          external |-> None])
     ELSE IF free /\ toUpperCase(token.x) \in {"TRUE", "FALSE"}
     THEN Parsed([k |-> "bool", b |-> toUpperCase(token.x) = "TRUE"], after, 0)
     ELSE Parsed([k |-> "name", sheet |-> sheet, s |-> token.x], after, 0)

parseAfterSheet(ts, p, sheet) ==
  LET token == peek(ts, p)
      after == next(ts, p)
  IN CASE token.t = "cell" -> parseCellish(ts, p, sheet)
       [] token.t = "colRef" -> Parsed(ColPiece(token, sheet), after, 0)
       [] token.t = "rowRef" -> Parsed(RowPiece(token, sheet), after, 0)
       [] token.t = "ident" -> parseIdentish(ts, p, sheet)
       [] token.t = "number" -> Parsed([k |-> "rowPiece", sheet |-> sheet,
                                        from |-> [at |-> token.n - 1, abs |-> FALSE]], after, 0)
       [] token.t = "error" -> Parsed([k |-> "error", s |-> token.x], after, 1)
       [] OTHER -> Parsed(Bad(token.x), p, 1)

CanonicalNames == ("_XLFN.LET" :> "LET")

parseFuncCall(ts, p, sheet) ==
  LET malformed(name, count) == \/ name = "LET" /\ (count < 3 \/ count % 2 = 0)
                                \/ name = "LAMBDA" /\ count < 1
      call(name, args) ==
        Blamed(Blamed([args EXCEPT !.n = [k |-> "func", s |-> name, args |-> @]],
                      sheet # NoSheet), malformed(name, Len(args.n)))
  IN call(OrItself(CanonicalNames, toUpperCase(peek(ts, p).x)), parseArgList(ts, next(ts, p)))

parseGroup(ts, p) ==
  LET group(inner) == Parsed([k |-> "group", e |-> inner.n], inner.p, inner.d)
      close(r) == IF isOp(peek(ts, r.p), ")") THEN [r EXCEPT !.p = next(ts, @)] ELSE Blamed(r, TRUE)
  IN close(group(finalize(Union(ts, parseExpr(ts, next(ts, p), 0)))))

Union(ts, expr) ==
  LET with(right) == Blamed(Binary(",", expr, right),
                            ~(isPRefValued(expr.n) /\ isPRefValued(right.n)))
  IN IF isOp(peek(ts, expr.p), ",")
     THEN Union(ts, with(parseExpr(ts, next(ts, expr.p), 0)))
     ELSE expr

----------------------------------------------------------------------------
(* The whole formula. *)

RECURSIVE containsBad(_)
containsBad(n) == \/ n.k = "bad"
                  \/ /\ n.k # "callExpr"
                     /\ \E c \in ToSet(Children(n)) : containsBad(c)

Whole(ts, r) ==
  [ast |-> r.n, ok |-> r.d = 0 /\ peek(ts, r.p).t = "eof" /\ ~containsBad(r.n)]
AllOf(ts) == Whole(ts, finalize(parseExpr(ts, 1, 0)))
parse(tokens) == AllOf(Append(tokens, Eof))

parseFormula(text) ==
  IF \A i \in DOMAIN text : text[i].t = "ws" THEN [ast |-> Bad(""), ok |-> FALSE]
  ELSE parse(text)

Moved(parsed, text, dr, dc) == IF parsed.ok THEN serialize(Shifted(parsed.ast, dr, dc)) ELSE text
\* Fill: the text for the cell dr rows down and dc columns to the right.
translateFormula(text, dr, dc) ==
  Moved(parseFormula(text), text, dr, dc)
=============================================================================
