---------------------------- MODULE FormulaSyntax ----------------------------
(* Formulas as trees and as canonical text: parser/ast.ts, serialize.ts,      *)
(* r1c1.ts, refs.ts, and translateFormula of agent/runtime.ts.                *)
(*                                                                            *)
(* A node is a record whose field k is its kind. Text is a sequence of        *)
(* tokens, records whose field t is the token's type; a word, a number or the *)
(* text between two delimiters is one symbol, so what is inside brackets and  *)
(* quotes is a sequence of words and delimiters.                              *)
EXTENDS Integers, SequencesExt, TLC

None == "none"
NoSheet == [start |-> None, end |-> None, external |-> None]

\* The function itself; TLC then evaluates each of its values once.
Tabulated(f) == f @@ <<>>

----------------------------------------------------------------------------
(* Words and tokens. *)

Alphabet == <<"A","B","C","D","E","F","G","H","I","J","K","L","M",
              "N","O","P","Q","R","S","T","U","V","W","X","Y","Z">>

lettersOf[value \in Nat] ==
  IF value = 0 THEN "" ELSE lettersOf[(value - 1) \div 26] \o Alphabet[((value - 1) % 26) + 1]

colIndexToLetters(index) == lettersOf[index + 1]

SmallLetters == <<"a","b","c","d","e","f","g","h","i","j","k","l","m",
                  "n","o","p","q","r","s","t","u","v","w","x","y","z">>
PlaceOf == [l \in Range(Alphabet) \union Range(SmallLetters) |->
             CHOOSE k \in 1 .. 26 : l \in {Alphabet[k], SmallLetters[k]}]
\* The place in the alphabet of the letters of a word, and 0 of what is none.
LetterPlaces(word) ==
  [i \in 1 .. Len(word) |->
     IF SubSeq(word, i, i) \in DOMAIN PlaceOf THEN PlaceOf[SubSeq(word, i, i)] ELSE 0]
colLettersToIndex(word) == FoldLeft(LAMBDA value, k : 26 * value + k, 0, LetterPlaces(word)) - 1

Address(row, col, rowAbs, colAbs) ==
  [row |-> row, col |-> col, rowAbs |-> rowAbs, colAbs |-> colAbs]
Relative(row, col) == Address(row, col, FALSE, FALSE)

cellText(addr) == (IF addr.colAbs THEN "$" ELSE "") \o colIndexToLetters(addr.col)
               \o (IF addr.rowAbs THEN "$" ELSE "") \o ToString(addr.row + 1)

Spelled(cells) == [w \in {cellText(a) : a \in cells} |-> CHOOSE a \in cells : cellText(a) = w]
\* Words the tokenizer reads as a cell: the grid of the model, a quarter, two
\* functions, and a column past XFD.
CellLikeWords ==
  Spelled({Relative(r, c) : r, c \in 0 .. 5}
          \union {Relative(0, 16), Relative(2, 19), Relative(9, 8508), Relative(0, 16384)})
\* Words that are not a plain name: white space, cells, $ signs.
SpacedNames == {"", "My Data"}
  \union {cellText(Address(r, c, ra, ca)) : r, c \in 0 .. 5, ra, ca \in BOOLEAN}
UpperWords == ("sum" :> "SUM") @@ ("_xlfn.LET" :> "_XLFN.LET")
           @@ ("true" :> "TRUE") @@ ("a" :> "A") @@ ("All" :> "ALL") @@ ("Totals" :> "TOTALS")
           @@ ("Data" :> "DATA") @@ ("This Row" :> "THIS ROW")
OrItself(words, w) == IF w \in DOMAIN words THEN words[w] ELSE w
toUpperCase(word) == OrItself(UpperWords, word)

Op(x) == [t |-> "op", x |-> x]
Space == [t |-> "ws", x |-> " "]
NumberToken(n) == [t |-> "number", x |-> ToString(n), n |-> n]
StringToken(s) == [t |-> "string", x |-> s]
ErrorToken(s) == [t |-> "error", x |-> s]
CellToken(addr) == [t |-> "cell", x |-> cellText(addr), a |-> addr]
ColToken(col) == [t |-> "colRef", x |-> "$" \o colIndexToLetters(col), n |-> col]
RowToken(row) == [t |-> "rowRef", x |-> "$" \o ToString(row + 1), n |-> row]
QuotedToken(v) == [t |-> "quoted", x |-> "''", v |-> v]
BracketToken(v) == [t |-> "bracket", x |-> "[]", v |-> v]
Spelling(cells, w) == IF w \in DOMAIN cells THEN CellToken(cells[w]) ELSE [t |-> "ident", x |-> w]
Word(w) == Spelling(CellLikeWords, w)

Join(lists, separator) ==
  FlattenSeq([i \in DOMAIN lists |->
    IF i = 1 THEN lists[i] ELSE <<separator>> \o lists[i]])

----------------------------------------------------------------------------
(* Trees. *)

OneOperand == {"unary", "percent", "implicitIntersection", "spill", "group"}

RECURSIVE isRefValued(_)
isRefValued(n) ==
  \/ n.k \in {"cell", "range", "colRange", "rowRange", "name", "structured", "spill"}
  \/ n.k \in {"implicitIntersection", "group"} /\ isRefValued(n.e)
  \/ n.k = "binary" /\ n.s \in {":", ",", " "} /\ isRefValued(n.l) /\ isRefValued(n.r)

Children(n) ==
  CASE n.k \in OneOperand -> <<n.e>>
    [] n.k = "binary" -> <<n.l, n.r>>
    [] n.k = "func" -> n.args
    [] n.k = "callExpr" -> <<n.e>> \o n.args
    [] n.k = "array" -> FlattenSeq(n.rows)
    [] OTHER -> <<>>

RECURSIVE walk(_)
\* Every node of the tree.
walk(n) == {n} \union UNION {walk(c) : c \in ToSet(Children(n))}

----------------------------------------------------------------------------
(* Canonical text, in A1 style or relative to a host cell. *)

A1Style == [a1 |-> TRUE, row |-> 0, col |-> 0]
R1C1Style(row, col) == [a1 |-> FALSE, row |-> row, col |-> col]

plainSheetName(name) == name \notin SpacedNames \union DOMAIN CellLikeWords

sheetPrefix(sheet) ==
  LET external == IF sheet.external = None THEN <<>> ELSE <<"[", sheet.external, "]">>
      span == IF sheet.end = None THEN <<>> ELSE <<":", sheet.end>>
  IN IF sheet = NoSheet THEN <<>>
     ELSE IF external # <<>> \/ \E name \in {sheet.start, sheet.end} \ {None} : ~plainSheetName(name)
       THEN <<QuotedToken(external \o <<sheet.start>> \o span), Op("!")>>
       ELSE <<Word(sheet.start)>>
            \o (IF span = <<>> THEN <<>> ELSE <<Op(":"), Word(sheet.end)>>) \o <<Op("!")>>

Offset(abs, at, here) == <<abs, IF abs THEN at ELSE at - here>>

AddressText(addr, style) ==
  IF style.a1 THEN CellToken(addr)
  ELSE [t |-> "rc", row |-> Offset(addr.rowAbs, addr.row, style.row),
                    col |-> Offset(addr.colAbs, addr.col, style.col)]

BoundText(k, b, style) ==
  IF style.a1
  THEN IF k = "colRange"
       THEN IF b.abs THEN ColToken(b.at) ELSE Word(colIndexToLetters(b.at))
       ELSE IF b.abs THEN RowToken(b.at) ELSE NumberToken(b.at + 1)
  ELSE [t |-> k, at |-> Offset(b.abs, b.at, IF k = "colRange" THEN style.col ELSE style.row)]

\* Mutant: the escape character itself is not escaped.
escapeBracketsOnly(column) ==
  FlattenSeq([i \in DOMAIN column |->
    IF column[i] \in {"[", "]", "#", "@"} THEN <<"'", column[i]>> ELSE <<column[i]>>])
escape(column) ==
  FlattenSeq([i \in DOMAIN column |->
    IF column[i] \in {"[", "]", "#", "'", "@"} THEN <<"'", column[i]>> ELSE <<column[i]>>])

Bracketed(v) == <<"[">> \o v \o <<"]">>

serializeStructured(n) ==
  LET named == SelectSeq(n.items, LAMBDA item : ~(item = "This Row" /\ n.thisRow))
      parts == [i \in DOMAIN named |-> <<"[", "#", named[i], "]">>]
            \o CASE Len(n.columns) = 0 -> <<>>
                 [] Len(n.columns) = 1 -> <<Bracketed(escape(n.columns[1]))>>
                 [] OTHER -> <<Bracketed(escape(n.columns[1])) \o <<":">>
                                \o Bracketed(escape(n.columns[2]))>>
      body == CASE Len(n.columns) = 1 /\ n.items = <<>> -> escape(n.columns[1])
                [] Len(n.items) = 1 /\ n.columns = <<>> /\ ~n.thisRow -> <<"#", n.items[1]>>
                [] OTHER -> Join(parts, ",")
      table == IF n.s = "" THEN <<>> ELSE <<Word(n.s)>>
  IN table \o <<BracketToken((IF n.thisRow THEN <<"@">> ELSE <<>>) \o body)>>

RECURSIVE Text(_, _)
Text(n, style) ==
  LET texts(nodes) == [i \in DOMAIN nodes |-> Text(nodes[i], style)]
      arguments == <<Op("(")>> \o Join(texts(n.args), Op(",")) \o <<Op(")")>>
  IN CASE n.k = "number" -> <<NumberToken(n.n)>>
       [] n.k = "string" -> <<StringToken(n.s)>>
       [] n.k = "bool" -> <<Word(IF n.b THEN "TRUE" ELSE "FALSE")>>
       [] n.k = "error" -> <<ErrorToken(n.s)>>
       [] n.k = "cell" -> Append(sheetPrefix(n.sheet), AddressText(n.a, style))
       [] n.k = "range" -> sheetPrefix(n.sheet)
                           \o <<AddressText(n.a, style), Op(":"), AddressText(n.z, style)>>
       [] n.k \in {"colRange", "rowRange"} ->
            sheetPrefix(n.sheet)
            \o <<BoundText(n.k, n.from, style), Op(":"), BoundText(n.k, n.to, style)>>
       [] n.k = "name" -> Append(sheetPrefix(n.sheet),
                                 Word(IF style.a1 THEN n.s ELSE toUpperCase(n.s)))
       [] n.k = "structured" ->
            IF style.a1 THEN serializeStructured(n)
            ELSE <<[t |-> "raw", x |-> toUpperCase(n.s),
                    v |-> [i \in DOMAIN n.raw |-> toUpperCase(n.raw[i])]]>>
       [] n.k = "array" -> <<Op("{")>>
            \o Join([i \in DOMAIN n.rows |-> Join(texts(n.rows[i]), Op(","))], Op(";")) \o <<Op("}")>>
       [] n.k = "unary" -> <<Op(n.s)>> \o Text(n.e, style)
       [] n.k = "percent" -> Append(Text(n.e, style), Op("%"))
       [] n.k = "binary" -> Text(n.l, style)
            \o <<IF n.s = " " THEN Space ELSE Op(n.s)>> \o Text(n.r, style)
       [] n.k = "func" -> <<Word(n.s)>> \o arguments
       [] n.k = "callExpr" -> Text(n.e, style) \o arguments
       [] n.k = "group" -> <<Op("(")>> \o Text(n.e, style) \o <<Op(")")>>
       [] n.k = "missing" -> <<>>
       [] n.k = "implicitIntersection" -> <<Op("@")>> \o Text(n.e, style)
       [] n.k = "spill" -> Append(Text(n.e, style), Op("#"))
       [] n.k = "bad" -> <<[t |-> IF style.a1 THEN "unknown" ELSE "bad", x |-> n.s]>>

serialize(n) == Text(n, A1Style)
normalizeR1C1(n, hostRow, hostCol) == Text(n, R1C1Style(hostRow, hostCol))

----------------------------------------------------------------------------
(* Filling: relative addresses move, at the edge of the sheet they stop. *)

AtLeastZero(i) == IF i < 0 THEN 0 ELSE i

\* Mutant: a column moves whether or not it has a $ sign.
MovedAddressAnyColumn(addr, dr, dc) ==
  [addr EXCEPT !.row = IF addr.rowAbs THEN @ ELSE AtLeastZero(@ + dr),
               !.col = AtLeastZero(@ + dc)]
MovedAddress(addr, dr, dc) ==
  [addr EXCEPT !.row = IF addr.rowAbs THEN @ ELSE AtLeastZero(@ + dr),
               !.col = IF addr.colAbs THEN @ ELSE AtLeastZero(@ + dc)]

RECURSIVE Shifted(_, _, _)
Shifted(n, dr, dc) ==
  LET moved(addr) == MovedAddress(addr, dr, dc)
      along(b, d) == [b EXCEPT !.at = IF b.abs THEN @ ELSE AtLeastZero(@ + d)]
      all(nodes) == [i \in DOMAIN nodes |-> Shifted(nodes[i], dr, dc)]
  IN CASE n.k = "cell" -> [n EXCEPT !.a = moved(@)]
       [] n.k = "range" -> [n EXCEPT !.a = moved(@), !.z = moved(@)]
       [] n.k = "colRange" -> [n EXCEPT !.from = along(@, dc), !.to = along(@, dc)]
       [] n.k = "rowRange" -> [n EXCEPT !.from = along(@, dr), !.to = along(@, dr)]
       [] n.k \in OneOperand -> [n EXCEPT !.e = Shifted(@, dr, dc)]
       [] n.k = "binary" -> [n EXCEPT !.l = Shifted(@, dr, dc), !.r = Shifted(@, dr, dc)]
       [] n.k = "func" -> [n EXCEPT !.args = all(@)]
       [] n.k = "callExpr" -> [n EXCEPT !.e = Shifted(@, dr, dc), !.args = all(@)]
       [] n.k = "array" -> [n EXCEPT !.rows = [i \in DOMAIN @ |-> all(@[i])]]
       [] OTHER -> n

----------------------------------------------------------------------------
(* What a formula refers to. *)

VolatileFunctions == {"NOW", "TODAY", "RAND", "RANDBETWEEN", "RANDARRAY", "OFFSET", "INDIRECT",
                      "INFO", "CELL"}
OpaqueFunctions == {"INDIRECT", "OFFSET"}

Axis(lo, hi, loAbs, hiAbs) ==
  IF lo > hi THEN [whole |-> FALSE, lo |-> hi, hi |-> lo, loAbs |-> hiAbs, hiAbs |-> loAbs]
             ELSE [whole |-> FALSE, lo |-> lo, hi |-> hi, loAbs |-> loAbs, hiAbs |-> hiAbs]
WholeAxis == [whole |-> TRUE, lo |-> 0, hi |-> 0, loAbs |-> TRUE, hiAbs |-> TRUE]

\* The area a reference node names, its bounds in order, each with its $ flag.
Area(n, rows, cols) == [k |-> "area", sheet |-> n.sheet, rows |-> rows, cols |-> cols]
Rectangular(n, a, z) == Area(n, Axis(a.row, z.row, a.rowAbs, z.rowAbs),
                                Axis(a.col, z.col, a.colAbs, z.colAbs))
Along(n) == Axis(n.from.at, n.to.at, n.from.abs, n.to.abs)
normalizeArea(n) ==
  CASE n.k = "cell" -> Rectangular(n, n.a, n.a)
    [] n.k = "range" -> Rectangular(n, n.a, n.z)
    [] n.k = "colRange" -> Area(n, WholeAxis, Along(n))
    [] n.k = "rowRange" -> Area(n, Along(n), WholeAxis)

Use(k, s) == <<[k |-> k, s |-> s]>>

RECURSIVE Uses(_, _), LetUses(_, _, _)
\* What visit meets on its way, in order; locals are the names bound by LET and LAMBDA.
Uses(n, locals) ==
  LET each(nodes, scope) == FlattenSeq([i \in DOMAIN nodes |-> Uses(nodes[i], scope)])
      last == Len(n.args)
      params == {toUpperCase(n.args[i].s) : i \in {j \in 1 .. last - 1 : n.args[j].k = "name"}}
  IN CASE n.k \in {"cell", "range", "colRange", "rowRange"} -> <<normalizeArea(n)>>
       [] n.k = "name" ->
            IF n.sheet.start = None /\ toUpperCase(n.s) \in locals THEN <<>> ELSE <<n>>
       [] n.k = "structured" -> <<n>>
       [] n.k = "error" -> IF n.s = "#REF!" THEN Use("broken", n.s) ELSE <<>>
       [] n.k = "spill" -> Use("spilled", "#") \o Uses(n.e, locals)
       [] n.k = "binary" -> (IF n.s = ":" THEN Use("opaque", ":") ELSE <<>>)
                            \o Uses(n.l, locals) \o Uses(n.r, locals)
       [] n.k = "func" /\ n.s = "LET" -> Use("func", "LET") \o LetUses(n.args, 1, locals)
       [] n.k = "func" /\ n.s = "LAMBDA" ->
            Use("func", "LAMBDA")
            \o (IF last = 0 THEN <<>> ELSE Uses(n.args[last], locals \union params))
       [] n.k = "func" -> Use("func", n.s) \o each(n.args, locals)
       [] OTHER -> each(Children(n), locals)

LetUses(args, i, locals) ==
  CASE i > Len(args) -> <<>>
    [] i = Len(args) -> Uses(args[i], locals)
    [] OTHER -> Uses(args[i + 1], locals)
                \o LetUses(args, i + 2, IF args[i].k = "name"
                                        THEN locals \union {toUpperCase(args[i].s)} ELSE locals)

Extracted(uses, functions, sheets) ==
  LET ofKind(k) == SelectSeq(uses, LAMBDA u : u.k = k)
  IN [areas |-> ofKind("area"), names |-> ofKind("name"), structured |-> ofKind("structured"),
      functions |-> functions,
      opaque |-> functions \intersect OpaqueFunctions # {} \/ ofKind("opaque") # <<>>,
      volatile |-> functions \intersect VolatileFunctions # {},
      brokenRefs |-> Len(ofKind("broken")), spills |-> Len(ofKind("spilled")),
      external |-> \E s \in sheets : s.external # None,
      threeD |-> \E s \in sheets : s.end # None]
Sifted(uses) ==
  LET those(kinds) == {u \in ToSet(uses) : u.k \in kinds}
  IN Extracted(uses, {u.s : u \in those({"func"})}, {u.sheet : u \in those({"area", "name"})})
extractRefs(root) == Sifted(Uses(root, {}))
=============================================================================
