------------------------------- MODULE Evaluator -------------------------------
(* The formula evaluator, sim/evaluator.ts, over integers. A block of cells is *)
(* [k |-> "block", rows |-> its rows of values]. The functions whose results   *)
(* leave the integers, the financial and statistical ones, and those that take *)
(* texts apart are left out; they and the functions the code does not know     *)
(* evaluate to #NAME?, which is what the code gives for the latter.            *)
EXTENDS References

Block(rows) == [k |-> "block", rows |-> rows]
IsBlock(v) == v.k = "block"
isError(v) == v.k = "err"
IsNum(v) == v.k = "num"
IsBlank(v) == v.k = "blank" \/ v = Txt("")

\* The texts of the model that read as numbers, and those that are criteria.
NumericTexts == ("2" :> 2)
Criteria == (">1" :> [op |-> ">", v |-> Num(1)]) @@ ("<>A" :> [op |-> "<>", v |-> Txt("A")])
         @@ ("=" :> [op |-> "=", v |-> Txt("")]) @@ ("<=2" :> [op |-> "<=", v |-> Num(2)])
\* Upper-case texts in code-unit order.
TextOrder == <<"", "#CIRCULAR!", "#DIV/0!", "#N/A", "#NAME?", "#REF!", "#VALUE!",
               "2", "<=2", "<>A", "=", ">1", "A", "B", "FALSE", "TRUE">>
Ranks == [t \in ToSet(TextOrder) |-> CHOOSE i \in DOMAIN TextOrder : TextOrder[i] = t]
TextRank(s) == Ranks[toUpperCase(s)]

----------------------------------------------------------------------------
(* Coercion. *)

flatten(v) == IF IsBlock(v) THEN FlattenSeq(v.rows) ELSE <<v>>
\* The top left value of a block, a scalar itself.
Scalar(v) == IF IsBlock(v) THEN v.rows[1][1] ELSE v

NumberOf(s) ==
  CASE isError(s) \/ IsNum(s) -> s
    [] IsBlank(s) -> Num(0)
    [] s.k = "bool" -> Num(IF s.b THEN 1 ELSE 0)
    [] OTHER -> IF s.s \in DOMAIN NumericTexts THEN Num(NumericTexts[s.s]) ELSE Err("#VALUE!")
toNumber(v) == NumberOf(Scalar(v))

TextOf(s) ==
  CASE isError(s) \/ s.k = "text" -> s
    [] s.k = "blank" -> Txt("")
    [] s.k = "bool" -> Txt(IF s.b THEN "TRUE" ELSE "FALSE")
    [] OTHER -> Txt(ToString(s.n))
toText(v) == TextOf(Scalar(v))

TruthOf(s) ==
  CASE isError(s) \/ s.k = "bool" -> s
    [] IsNum(s) -> Bool(s.n # 0)
    [] IsBlank(s) -> Bool(FALSE)
    [] OTHER -> IF toUpperCase(s.s) \in {"TRUE", "FALSE"} THEN Bool(toUpperCase(s.s) = "TRUE")
                ELSE Err("#VALUE!")
toBoolean(v) == TruthOf(Scalar(v))

\* The first error of a list of values, as a sequence of at most one.
FirstError(list) == FirstWhere(list, isError)
\* An error among the values is the outcome, otherwise this is.
Unless(errors, outcome) == IF errors # <<>> THEN errors[1] ELSE outcome

\* The numbers among the values; texts that read as numbers count, booleans do not.
numericsOf(list) ==
  LET numeric == SelectSeq(list, LAMBDA v : IsNum(v) \/ (v.k = "text" /\ v.s \in DOMAIN NumericTexts))
  IN [i \in DOMAIN numeric |-> toNumber(numeric[i]).n]

Sign(i) == IF i = 0 THEN 0 ELSE IF i < 0 THEN -1 ELSE 1

\* Blanks and errors are texts to a comparison.
Comparand(v) == CASE v.k = "blank" -> Txt("") [] isError(v) -> Txt(v.e) [] OTHER -> v

\* Negative, zero or positive. A boolean is compared as 0 or 1, and comes after
\* whatever is not comparable with a number.
Compare(l, r) ==
  LET comparable(v) == v.k # "text" \/ v.s \in DOMAIN NumericTexts \/ v.s = ""
      difference == toNumber(l).n - toNumber(r).n
  IN CASE IsNum(l) /\ IsNum(r) -> Sign(l.n - r.n)
       [] l.k = "bool" \/ r.k = "bool" ->
            IF ~comparable(l) \/ ~comparable(r) THEN 1
            ELSE IF difference < 0 \/ (difference = 0 /\ l.k # "text" /\ r.k # "text")
            THEN Sign(difference) ELSE 1
       [] IsNum(l) /\ r.k = "text" -> IF r.s = "" THEN Sign(l.n) ELSE -1
       [] l.k = "text" /\ IsNum(r) -> IF l.s = "" THEN Sign(-r.n) ELSE 1
       [] OTHER -> Sign(TextRank(l.s) - TextRank(r.s))
compareValues(left, right) == Compare(Comparand(left), Comparand(right))

Compares(op, c) ==
  CASE op = "=" -> c = 0 [] op = "<>" -> c # 0 [] op = "<" -> c < 0
    [] op = "<=" -> c <= 0 [] op = ">" -> c > 0 [] op = ">=" -> c >= 0

Criterion(criterion, given) ==
  IF given.k = "text" /\ given.s \in DOMAIN Criteria THEN Criteria[given.s]
  ELSE [op |-> "=", v |-> IF IsBlock(criterion) THEN Blank ELSE given]
Meets(value, parsed) == Compares(parsed.op, compareValues(value, parsed.v))
matchesCriterion(value, criterion) == Meets(value, Criterion(criterion, Scalar(criterion)))

----------------------------------------------------------------------------
(* Functions, given the values of their arguments v: looking at an argument   *)
(* has no effect, so it makes no difference when the code does.               *)

Abs(i) == IF i < 0 THEN -i ELSE i
Total(numbers) == FoldLeft(LAMBDA sum, i : sum + i, 0, numbers)
Sorted(numbers) == SortSeq(numbers, LAMBDA i, j : i < j)

\* The model divides only what is divisible.
Quotient(l, r) ==
  IF r = 0 THEN Err("#DIV/0!")
  ELSE IF Abs(l) % Abs(r) = 0 THEN Num(Sign(l) * Sign(r) * (Abs(l) \div Abs(r))) ELSE Err("inexact")

Aggregates == {"SUM", "AVERAGE", "MIN", "MAX", "MEDIAN", "COUNT"}

AggregateOf(name, sorted) ==
  LET count == Len(sorted)
      mid == count \div 2
  IN CASE name = "SUM" -> Num(Total(sorted))
       [] name = "COUNT" -> Num(count)
       [] name = "AVERAGE" -> Quotient(Total(sorted), count)
       [] name \in {"MIN", "MAX"} ->
            Num(IF count = 0 THEN 0 ELSE sorted[IF name = "MIN" THEN 1 ELSE count])
       [] name = "MEDIAN" ->
            IF count = 0 THEN Err("#NUM!")
            ELSE IF count % 2 = 0 THEN Quotient(sorted[mid] + sorted[mid + 1], 2)
            ELSE Num(sorted[mid + 1])
Aggregate(name, items) == Unless(FirstError(items), AggregateOf(name, Sorted(numericsOf(items))))

SubtotalCodes == [c \in {1, 2, 4, 5, 9} |->
  CASE c = 1 -> "AVERAGE" [] c = 2 -> "COUNT" [] c = 4 -> "MAX" [] c = 5 -> "MIN" [] c = 9 -> "SUM"]

Subtotal(code, items) ==
  LET base == IF code.n > 100 THEN code.n - 100 ELSE code.n
  IN IF isError(code) THEN code
     ELSE Unless(FirstError(items),
                 IF base \in DOMAIN SubtotalCodes THEN Aggregate(SubtotalCodes[base], items)
                 ELSE Err("#VALUE!"))

Arithmetic == {"ABS", "SIGN", "INT", "VALUE", "MOD"}

Arithmetical(name, l, r) ==
  CASE isError(l) -> l
    [] ~isError(l) /\ name = "ABS" -> Num(Abs(l.n))
    [] ~isError(l) /\ name = "SIGN" -> Num(Sign(l.n))
    [] ~isError(l) /\ name \in {"INT", "VALUE"} -> l
    [] ~isError(l) /\ name = "MOD" ->
         IF isError(r) THEN r
         ELSE IF r.n = 0 THEN Err("#DIV/0!")
         ELSE Num(l.n - r.n * (IF r.n > 0 THEN l.n \div r.n ELSE (-l.n) \div (-r.n)))

Logic == {"IF", "IFERROR", "IFNA", "AND", "OR", "NOT", "TRUE", "FALSE", "NA"}

\* AND stops at the first value that is not true, OR at the first that is not false.
Logical(name, v, items) ==
  LET first == IF v = <<>> THEN Blank ELSE v[1]
      given(i, default) == IF Len(v) >= i THEN v[i] ELSE default
      truth == toBoolean(first)
      deciding == SelectSeq(items, LAMBDA x : /\ ~IsBlank(x)
                                              /\ toBoolean(x) # Bool(name = "AND"))
  IN CASE name = "IF" -> IF isError(truth) THEN truth
                         ELSE IF truth.b THEN given(2, Bool(TRUE)) ELSE given(3, Bool(FALSE))
       [] name = "IFERROR" -> IF isError(Scalar(first)) THEN given(2, Txt("")) ELSE first
       [] name = "IFNA" -> IF Scalar(first) = Err("#N/A") THEN given(2, Txt("")) ELSE first
       [] name \in {"AND", "OR"} ->
            IF deciding = <<>> THEN Bool(name = "AND") ELSE toBoolean(Head(deciding))
       [] name = "NOT" -> IF isError(truth) THEN truth ELSE Bool(~truth.b)
       [] name \in {"TRUE", "FALSE"} -> Bool(name = "TRUE")
       [] name = "NA" -> Err("#N/A")

Information == {"N", "T", "ISERROR", "ISNUMBER", "ISTEXT", "ISBLANK", "COUNTA",
                "CONCAT", "CONCATENATE"}

Informed(name, v, items) ==
  LET s == IF v = <<>> THEN Blank ELSE Scalar(v[1])
      texts == [i \in DOMAIN items |-> toText(items[i])]
  IN CASE name = "N" -> IF isError(s) \/ IsNum(s) THEN s
                        ELSE Num(IF s = Bool(TRUE) THEN 1 ELSE 0)
       [] name = "T" -> IF isError(s) \/ s.k = "text" THEN s ELSE Txt("")
       [] name = "ISERROR" -> Bool(isError(s))
       [] name = "ISNUMBER" -> Bool(IsNum(s))
       [] name = "ISTEXT" -> Bool(s.k = "text")
       [] name = "ISBLANK" -> Bool(IsBlank(s))
       [] name = "COUNTA" -> Num(Len(SelectSeq(items, LAMBDA x : ~IsBlank(x))))
       [] name \in {"CONCAT", "CONCATENATE"} ->
            Unless(FirstError(texts), Txt(FoldLeft(LAMBDA out, t : out \o t.s, "", texts)))

At(list, i) == IF i \in DOMAIN list THEN list[i] ELSE Blank
Number(v) == IF IsNum(v) THEN v.n ELSE 0

Conditionals == {"SUMIF", "AVERAGEIF", "COUNTIF", "SUMIFS", "COUNTIFS", "SUMPRODUCT"}

SumOver(indices, Term(_)) == FoldSet(LAMBDA i, t : t + Term(i), 0, indices)

\* One range and one criterion; blanks and texts have no amount.
ConditionalOne(name, first, amounts, criterion) ==
  LET picked == {i \in DOMAIN first : matchesCriterion(first[i], criterion)}
      terms == {i \in picked : IsNum(At(amounts, i))}
      amount == SumOver(terms, LAMBDA i : amounts[i].n)
  IN CASE name = "SUMIF" -> Num(amount)
       [] name = "AVERAGEIF" -> Quotient(amount, Cardinality(terms))
       [] name = "COUNTIF" -> Num(Cardinality(picked))

\* The criteria of SUMIFS start at the second argument, those of COUNTIFS at the first.
ConditionalMany(name, first, v) ==
  LET from == IF name = "SUMIFS" THEN 2 ELSE 1
      pairs == {i \in DOMAIN v : i >= from /\ (i - from) % 2 = 0 /\ i < Len(v)}
      counted == {i \in DOMAIN first :
                    \A c \in pairs : matchesCriterion(At(flatten(v[c]), i), v[c + 1])}
  IN Num(IF name = "SUMIFS" THEN SumOver(counted, LAMBDA i : Number(first[i]))
         ELSE IF pairs = {} THEN 0 ELSE Cardinality(counted))

SumProduct(first, v) ==
  LET numeric(x) == IF x = Bool(TRUE) THEN 1 ELSE Number(x)
      product(i) == FoldLeft(LAMBDA p, a : p * numeric(At(flatten(a), i)), 1, v)
  IN Num(IF v = <<>> THEN 0 ELSE SumOver(DOMAIN first, product))

Conditional(name, v) ==
  LET first == IF v = <<>> THEN <<Blank>> ELSE flatten(v[1])
  IN CASE name \in {"SUMIF", "AVERAGEIF", "COUNTIF"} ->
            ConditionalOne(name, first, IF Len(v) >= 3 THEN flatten(v[3]) ELSE first, At(v, 2))
       [] name \in {"SUMIFS", "COUNTIFS"} -> ConditionalMany(name, first, v)
       [] name = "SUMPRODUCT" -> SumProduct(first, v)

Lookups == {"INDEX", "MATCH", "VLOOKUP", "HLOOKUP", "XLOOKUP", "CHOOSE"}

\* What is not there, and what is blank, is a broken reference.
Found(list, i) == IF At(list, i) = Blank THEN Err("#REF!") ELSE list[i]
Column(rows, c) == [i \in DOMAIN rows |-> At(rows[i], c)]

FirstEqual(list, target) == SelectInSeq(list, LAMBDA x : compareValues(x, target) = 0)
\* The last position of the list whose comparison with the target passes, or 0.
LastWhere(list, target, Passes(_)) ==
  Max({0} \union {i \in DOMAIN list : Passes(compareValues(list[i], target))})

Index(v, row, col) ==
  LET block == At(v, 1)
      rows == block.rows
  IN CASE isError(row) -> row
       [] ~isError(row) /\ isError(col) -> col
       [] OTHER ->
            IF ~IsBlock(block) THEN IF row.n <= 1 /\ col.n <= 1 THEN block ELSE Err("#REF!")
            ELSE IF Len(v) = 2 /\ Len(rows) = 1 THEN Found(rows[1], row.n)
            ELSE IF row.n \notin DOMAIN rows THEN Err("#REF!")
            ELSE Found(rows[row.n], col.n)

\* mode 0 is exact, 1 the last not above the target, -1 the last not below it.
Position(at) == IF at = 0 THEN Err("#N/A") ELSE Num(at)
Match(list, target, mode) ==
  IF isError(mode) THEN mode
  ELSE Position(IF mode.n = 0 THEN FirstEqual(list, target)
                ELSE LastWhere(list, target, LAMBDA c : IF mode.n >= 1 THEN c <= 0 ELSE c >= 0))

\* VLOOKUP looks in the first column of the rows; HLOOKUP in that of the columns.
FromRow(rows, at, index) == IF at = 0 THEN Err("#N/A") ELSE Found(rows[at], index)
\* Mutant: VLOOKUP approximates whether or not it was asked to.
RowOfNearest(keys, target, equal, approximate) ==
  IF equal = 0 THEN LastWhere(keys, target, LAMBDA c : c < 0) ELSE equal
RowOf(keys, target, equal, approximate) ==
  IF equal = 0 /\ approximate THEN LastWhere(keys, target, LAMBDA c : c < 0) ELSE equal
TableLookup(rows, keys, target, index, approximate) ==
  IF isError(index) THEN index
  ELSE IF isError(approximate) THEN approximate
  ELSE FromRow(rows, RowOf(keys, target, FirstEqual(keys, target), approximate.b), index.n)

PositionFound(position, v) ==
  IF position > 0 THEN Found(flatten(At(v, 3)), position)
  ELSE IF Len(v) > 3 THEN v[4] ELSE Err("#N/A")
Chosen(choice, v) ==
  IF isError(choice) THEN choice
  ELSE IF choice.n + 1 \in DOMAIN v THEN v[choice.n + 1] ELSE Err("#VALUE!")

Lookup(name, v) ==
  LET target == Scalar(At(v, 1))
      list == flatten(At(v, 2))
      number(i, default) == IF i <= Len(v) THEN toNumber(v[i]) ELSE Num(default)
      looked(rows) == TableLookup(rows, Column(rows, 1), target, number(3, 1),
                                  IF Len(v) > 3 THEN toBoolean(v[4]) ELSE Bool(TRUE))
      turned(rows) == [c \in DOMAIN rows[1] |-> Column(rows, c)]
  IN CASE name = "INDEX" -> Index(v, number(2, 1), number(3, 1))
       [] name = "MATCH" -> Match(list, target, number(3, 1))
       [] name \in {"VLOOKUP", "HLOOKUP"} ->
            IF ~IsBlock(At(v, 2)) THEN Err("#N/A")
            ELSE looked(IF name = "VLOOKUP" THEN At(v, 2).rows ELSE turned(At(v, 2).rows))
       [] name = "XLOOKUP" -> PositionFound(FirstEqual(list, target), v)
       [] name = "CHOOSE" -> Chosen(number(1, 0), v)

Order == {"SMALL", "LARGE", "RANK"}

RankedIn(name, list, n) ==
  IF name = "RANK" THEN Position(SelectInSeq(list, LAMBDA i : i = n))
  ELSE IF n \in DOMAIN list THEN Num(list[n]) ELSE Err("#NUM!")
RankedAmong(name, items, number, ascending) ==
  LET rising == Sorted(numericsOf(items))
  IN Unless(FirstError(IF name = "RANK" THEN <<number>> \o items \o <<ascending>>
                       ELSE Append(items, number)),
            RankedIn(name, IF name = "SMALL" \/ (name = "RANK" /\ ascending.b) THEN rising
                           ELSE Reverse(rising), number.n))
Ranked(name, v) ==
  LET rank == name = "RANK"
  IN RankedAmong(name, flatten(At(v, IF rank THEN 2 ELSE 1)),
                 IF rank \/ Len(v) > 1 THEN toNumber(At(v, IF rank THEN 1 ELSE 2)) ELSE Num(0),
                 IF rank /\ Len(v) > 2 THEN toBoolean(v[3]) ELSE Bool(FALSE))

evalFunction(name, v) ==
  LET items == FlattenSeq([i \in DOMAIN v |-> flatten(v[i])])
      number(i) == IF i <= Len(v) THEN toNumber(v[i]) ELSE Num(0)
      rest == FlattenSeq([i \in 1 .. Len(v) - 1 |-> flatten(v[i + 1])])
  IN CASE name \in Aggregates -> Aggregate(name, items)
       [] name = "SUBTOTAL" -> Subtotal(number(1), rest)
       [] name \in Arithmetic -> Arithmetical(name, number(1), number(2))
       [] name \in Logic -> Logical(name, v, items)
       [] name \in Information -> Informed(name, v, items)
       [] name \in Conditionals -> Conditional(name, v)
       [] name \in Lookups -> Lookup(name, v)
       [] name \in Order -> Ranked(name, v)
       [] OTHER -> Err("#NAME?")

----------------------------------------------------------------------------
(* Expressions, at the cell p of a book; locals are bound by LET and LAMBDA.  *)

Read(book, p) == IF Populated(book, p) THEN book.cells[p].v ELSE Blank

\* The sheet of a reference; of a span of sheets, the first.
sheetOf(book, spec, p) ==
  IF spec.external # None THEN None
  ELSE IF spec.start = None THEN p[1]
  ELSE IF HasSheet(book, spec.start) THEN sheetNamed(book, spec.start) ELSE None

readBlock(book, sheet, rows, cols) ==
  IF rows.lo = rows.hi /\ cols.lo = cols.hi THEN Read(book, <<sheet, rows.lo, cols.lo>>)
  ELSE Block([i \in 1 .. rows.hi - rows.lo + 1 |->
         [j \in 1 .. cols.hi - cols.lo + 1 |->
            Read(book, <<sheet, rows.lo + i - 1, cols.lo + j - 1>>)]])

\* Columns and rows stop at the populated cells of their sheet.
readArea(book, area) ==
  LET b == bounds(book, area.sheet)
      bounded(axis, lo, hi) == IF axis.whole THEN Span(lo, hi) ELSE axis
  IN readBlock(book, area.sheet, bounded(area.rows, b.r1, b.r2), bounded(area.cols, b.c1, b.c2))

Arithmetically(op, m, n) ==
  CASE op = "+" -> Num(m.n + n.n)
    [] op = "-" -> Num(m.n - n.n)
    [] op = "*" -> Num(m.n * n.n)
    [] op = "/" -> Quotient(m.n, n.n)
    [] op = "^" -> IF n.n >= 0 THEN Num(m.n ^ n.n)
                   ELSE IF m.n = 0 THEN Err("inexact") ELSE Quotient(1, m.n ^ (-n.n))
Computed(op, m, n) == Unless(FirstError(<<m, n>>), Arithmetically(op, m, n))
Operated(op, l, r) ==
  IF op = "&" THEN Txt(toText(l).s \o toText(r).s)
  ELSE IF op \in {"=", "<>", "<", "<=", ">", ">="} THEN Bool(Compares(op, compareValues(l, r)))
  ELSE Computed(op, toNumber(l), toNumber(r))
evaluateScalars(op, l, r) == Unless(FirstError(<<l, r>>), Operated(op, l, r))
evaluateOperator(op, left, right) == evaluateScalars(op, Scalar(left), Scalar(right))

NoLocals == [x \in {} |-> Blank]
Bind(name, value, locals) ==
  IF name.k = "name" THEN (toUpperCase(name.s) :> value) @@ locals ELSE locals

Signed(sign, x) == IF sign = "-" /\ ~isError(x) THEN Num(-x.n) ELSE x
Hundredth(x) == IF isError(x) THEN x ELSE Quotient(x.n, 100)
ReadOn(book, sheet, area) ==
  IF sheet = None THEN Err("#REF!") ELSE readBlock(book, sheet, area.rows, area.cols)
\* What a name or structured reference stands for goes before a local name.
Referred(n, book, areas, locals) ==
  IF areas # <<>> THEN readArea(book, areas[1])
  ELSE IF n.k = "name" /\ toUpperCase(n.s) \in DOMAIN locals THEN locals[toUpperCase(n.s)]
  ELSE Err("#NAME?")

RECURSIVE evaluate(_, _, _, _), evaluateLet(_, _, _, _, _)
evaluate(n, book, p, locals) ==
  LET operand == evaluate(n.e, book, p, locals)
      values(nodes) == [i \in DOMAIN nodes |-> evaluate(nodes[i], book, p, locals)]
      params == n.e.args
      called == FoldLeft(LAMBDA l, i : Bind(params[i], At(values(n.args), i), l), locals,
                         [i \in 1 .. Len(params) - 1 |-> i])
  IN CASE n.k = "number" -> Num(n.n)
       [] n.k = "string" -> Txt(n.s)
       [] n.k = "bool" -> Bool(n.b)
       [] n.k = "error" -> Err(n.s)
       [] n.k = "missing" -> Blank
       [] n.k \in {"group", "spill"} -> operand
       [] n.k \in {"cell", "range"} ->
            ReadOn(book, sheetOf(book, n.sheet, p), normalizeArea(n))
       [] n.k \in {"colRange", "rowRange", "name", "structured"} ->
            Referred(n, book, Resolve(n, Host(book, p[1], p[2])).areas, locals)
       [] n.k = "array" -> Block([i \in DOMAIN n.rows |->
                                   [j \in DOMAIN n.rows[i] |-> Scalar(values(n.rows[i])[j])]])
       [] n.k = "unary" -> Signed(n.s, toNumber(operand))
       [] n.k = "percent" -> Hundredth(toNumber(operand))
       [] n.k = "implicitIntersection" -> Scalar(operand)
       [] n.k = "binary" ->
            IF n.s \in {":", ",", " "} THEN Err("#VALUE!")
            ELSE evaluateOperator(n.s, evaluate(n.l, book, p, locals), evaluate(n.r, book, p, locals))
       [] n.k = "func" -> IF n.s = "LET" THEN evaluateLet(n.args, 1, book, p, locals)
                          ELSE IF n.s = "LAMBDA" THEN Err("#VALUE!")
                          ELSE evalFunction(n.s, values(n.args))
       [] n.k = "callExpr" ->
            IF n.e.k = "func" /\ n.e.s = "LAMBDA" /\ params # <<>>
            THEN evaluate(Last(params), book, p, called)
            ELSE Err("#VALUE!")
       [] n.k = "bad" -> Err("#NAME?")

evaluateLet(args, i, book, p, locals) ==
  IF i > Len(args) THEN Err("#VALUE!")
  ELSE IF i = Len(args) THEN evaluate(args[i], book, p, locals)
  ELSE evaluateLet(args, i + 2, book, p,
                   Bind(args[i], evaluate(args[i + 1], book, p, locals), locals))
=============================================================================
