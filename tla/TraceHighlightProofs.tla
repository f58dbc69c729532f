------------------------- MODULE TraceHighlightProofs -------------------------
(***************************************************************************)
(* Proofs about TraceHighlight, for any workbook, any findings, any number   *)
(* of overlapping clicks, failing syncs and human acts.                      *)
(***************************************************************************)
EXTENDS TraceHighlight, NumberLemmas

Group == Seq(Cells) \ {<<>>}

-----------------------------------------------------------------------------
(* Sequences, and what they hold.                                            *)

LEMMA ListShape ==
  ASSUME NEW S, NEW s \in Seq(S)
  PROVE  /\ Len(s) \in Nat /\ DOMAIN s = 1 .. Len(s)
         /\ \A i \in 1 .. Len(s) : s[i] \in S
         /\ s = <<>> <=> Len(s) = 0
         /\ Range(s) \subseteq S
         /\ \A x : x \in Range(s) <=> \E i \in 1 .. Len(s) : s[i] = x
  BY DEF Range

LEMMA HeadAndTail ==
  ASSUME NEW S, NEW s \in Seq(S), s # <<>>
  PROVE  /\ Len(s) >= 1 /\ Head(s) = s[1] /\ s[1] \in S /\ 1 \in DOMAIN s
         /\ Tail(s) \in Seq(S) /\ Len(Tail(s)) = Len(s) - 1
         /\ \A i \in 1 .. Len(s) - 1 : Tail(s)[i] = s[i + 1]
<1>1. Len(s) \in Nat /\ Len(s) # 0 /\ DOMAIN s = 1 .. Len(s) /\ \A i \in 1 .. Len(s) : s[i] \in S
  BY ListShape
<1>2. Len(s) >= 1 /\ 1 \in DOMAIN s
  BY <1>1
<1>3. Head(s) = s[1] /\ s[1] \in S
  BY <1>1, <1>2
<1>4. Tail(s) \in Seq(S) /\ Len(Tail(s)) = Len(s) - 1
  OBVIOUS
<1>5. \A i \in 1 .. Len(s) - 1 : Tail(s)[i] = s[i + 1]
  OBVIOUS
<1>. QED BY <1>2, <1>3, <1>4, <1>5

LEMMA OneLonger ==
  ASSUME NEW S, NEW s \in Seq(S), NEW x \in S
  PROVE  /\ Append(s, x) \in Seq(S) /\ Append(s, x) # <<>> /\ Len(Append(s, x)) = Len(s) + 1
         /\ \A i \in 1 .. Len(s) : Append(s, x)[i] = s[i]
         /\ Append(s, x)[Len(s) + 1] = x
         /\ Range(Append(s, x)) = Range(s) \cup {x}
<1>. DEFINE t == Append(s, x)
<1>1. /\ t \in Seq(S) /\ Len(t) = Len(s) + 1 /\ Len(s) \in Nat
      /\ \A i \in 1 .. Len(s) : t[i] = s[i]
      /\ t[Len(s) + 1] = x
  OBVIOUS
<1>. HIDE DEF t
<1>2. t # <<>>
  BY <1>1
<1>3. \A i : i \in 1 .. Len(t) <=> i \in 1 .. Len(s) \/ i = Len(s) + 1
  BY <1>1
<1>4. ASSUME NEW y
      PROVE  y \in Range(t) <=> y \in Range(s) \/ y = x
  <2>1. y \in Range(t) <=> \E i \in 1 .. Len(t) : t[i] = y
    BY <1>1, ListShape
  <2>2. y \in Range(s) <=> \E i \in 1 .. Len(s) : s[i] = y
    BY ListShape
  <2>. QED BY <1>1, <1>3, <2>1, <2>2
<1>5. Range(t) = Range(s) \cup {x}
  BY <1>4
<1>. QED BY <1>1, <1>2, <1>5 DEF t

LEMMA Joined ==
  ASSUME NEW S, NEW s \in Seq(S), NEW t \in Seq(S)
  PROVE  /\ s \o t \in Seq(S) /\ Len(s \o t) = Len(s) + Len(t)
         /\ \A i \in 1 .. Len(s) : (s \o t)[i] = s[i]
         /\ \A i \in 1 .. Len(t) : (s \o t)[Len(s) + i] = t[i]
         /\ Range(s \o t) = Range(s) \cup Range(t)
<1>. DEFINE u == s \o t
<1>1. /\ u \in Seq(S) /\ Len(u) = Len(s) + Len(t) /\ Len(s) \in Nat /\ Len(t) \in Nat
      /\ \A i \in 1 .. Len(s) : u[i] = s[i]
      /\ \A i \in 1 .. Len(t) : u[Len(s) + i] = t[i]
  OBVIOUS
<1>. HIDE DEF u
<1>2. /\ \A i \in 1 .. Len(s) : i \in 1 .. Len(u)
      /\ \A i \in 1 .. Len(t) : Len(s) + i \in 1 .. Len(u)
      /\ \A i \in 1 .. Len(u) : i \in 1 .. Len(s) \/ (i - Len(s) \in 1 .. Len(t) /\ Len(s) + (i - Len(s)) = i)
  BY <1>1
<1>3. ASSUME NEW y
      PROVE  y \in Range(u) <=> y \in Range(s) \/ y \in Range(t)
  <2>a. y \in Range(u) <=> \E i \in 1 .. Len(u) : u[i] = y
    BY <1>1, ListShape
  <2>b. y \in Range(s) <=> \E i \in 1 .. Len(s) : s[i] = y
    BY ListShape
  <2>c. y \in Range(t) <=> \E i \in 1 .. Len(t) : t[i] = y
    BY ListShape
  <2>1. /\ y \in Range(u) <=> \E i \in 1 .. Len(u) : u[i] = y
        /\ y \in Range(s) <=> \E i \in 1 .. Len(s) : s[i] = y
        /\ y \in Range(t) <=> \E i \in 1 .. Len(t) : t[i] = y
    BY <2>a, <2>b, <2>c
  <2>2. ASSUME NEW i \in 1 .. Len(u), u[i] = y
        PROVE  y \in Range(s) \/ y \in Range(t)
    <3>1. CASE i \in 1 .. Len(s)
      BY <1>1, <2>1, <2>2, <3>1
    <3>2. CASE i - Len(s) \in 1 .. Len(t) /\ Len(s) + (i - Len(s)) = i
      <4>1. t[i - Len(s)] = y
        BY <1>1, <2>2, <3>2
      <4>. QED BY <2>1, <3>2, <4>1
    <3>. QED BY <1>2, <3>1, <3>2
  <2>. QED BY <1>1, <1>2, <2>1, <2>2
<1>4. Range(u) = Range(s) \cup Range(t)
  BY <1>3
<1>. QED BY <1>1, <1>4 DEF u

\* The cells of the first group, and of the others.
LEMMA FirstGroup ==
  ASSUME NEW groups \in Seq(Group), groups # <<>>
  PROVE  /\ Head(groups) \in Group /\ Tail(groups) \in Seq(Group)
         /\ GroupCells(groups) = Range(Head(groups)) \cup GroupCells(Tail(groups))
<1>1. /\ Head(groups) = groups[1] /\ groups[1] \in Group /\ Len(groups) \in Nat
      /\ Len(groups) >= 1 /\ DOMAIN groups = 1 .. Len(groups)
      /\ Tail(groups) \in Seq(Group) /\ Len(Tail(groups)) = Len(groups) - 1
      /\ \A i \in 1 .. Len(groups) - 1 : Tail(groups)[i] = groups[i + 1]
  BY HeadAndTail, ListShape
<1>2. DOMAIN Tail(groups) = 1 .. (Len(groups) - 1)
  BY <1>1, ListShape
<1>3. /\ \A i \in 1 .. (Len(groups) - 1) : i + 1 \in 1 .. Len(groups)
      /\ \A i \in 1 .. Len(groups) : i = 1 \/ (i - 1 \in 1 .. (Len(groups) - 1) /\ (i - 1) + 1 = i)
  BY <1>1
<1>4. ASSUME NEW c
      PROVE  c \in GroupCells(groups) <=> c \in Range(Head(groups)) \/ c \in GroupCells(Tail(groups))
  <2>1. ASSUME NEW i \in 1 .. Len(groups), c \in Range(groups[i])
        PROVE  c \in Range(Head(groups)) \/ c \in GroupCells(Tail(groups))
    <3>1. CASE i = 1
      BY <1>1, <2>1, <3>1
    <3>2. CASE i - 1 \in 1 .. (Len(groups) - 1) /\ (i - 1) + 1 = i
      <4>1. Tail(groups)[i - 1] = groups[i]
        BY <1>1, <3>2
      <4>. QED BY <1>2, <2>1, <3>2, <4>1 DEF GroupCells
    <3>. QED BY <1>3, <3>1, <3>2
  <2>2. ASSUME NEW i \in 1 .. (Len(groups) - 1), c \in Range(Tail(groups)[i])
        PROVE  c \in GroupCells(groups)
    <3>1. i + 1 \in DOMAIN groups /\ Tail(groups)[i] = groups[i + 1]
      BY <1>1, <1>3
    <3>. QED BY <2>2, <3>1 DEF GroupCells
  <2>3. c \in Range(Head(groups)) => c \in GroupCells(groups)
    BY <1>1 DEF GroupCells
  <2>. QED BY <1>1, <1>2, <2>1, <2>2, <2>3 DEF GroupCells
<1>. QED BY <1>1, <1>4

-----------------------------------------------------------------------------
(* What a trace paints, and in which batches.                                *)

\* After i cells: groups of one sheet each, no sheet twice.
GroupedSoFar(cells, i, groups) ==
  /\ groups \in Seq(Group)
  /\ \A c : c \in GroupCells(groups) <=> \E j \in 1 .. i : cells[j] = c
  /\ \A k \in DOMAIN groups : \A c \in Range(groups[k]) : SheetOf[c] = SheetOf[Head(groups[k])]
  /\ \A k, l \in DOMAIN groups : k # l => SheetOf[Head(groups[k])] # SheetOf[Head(groups[l])]

Grouping == INSTANCE LeftFolds WITH Op <- AddToGroup, Holds <- GroupedSoFar

LEMMA InGroups ==
  ASSUME NEW groups \in Seq(Group), NEW c
  PROVE  c \in GroupCells(groups) <=> \E k \in DOMAIN groups : c \in Range(groups[k])
  BY DEF GroupCells

LEMMA NoGroups == <<>> \in Seq(Group) /\ GroupCells(<<>>) = {}
<1>1. <<>> \in Seq(Group) /\ DOMAIN <<>> = {}
  OBVIOUS
<1>. QED BY <1>1 DEF GroupCells

LEMMA GroupGrows ==
  ASSUME NEW g \in Group, NEW c \in Cells
  PROVE  /\ Append(g, c) \in Group /\ Head(Append(g, c)) = Head(g)
         /\ Range(Append(g, c)) = Range(g) \cup {c}
<1>1. g \in Seq(Cells) /\ g # <<>>
  BY DEF Group
<1>2. Len(g) >= 1 /\ Head(g) = g[1] /\ Len(g) \in Nat
  BY <1>1, HeadAndTail, ListShape
<1>3. /\ Append(g, c) \in Seq(Cells) /\ Append(g, c) # <<>>
      /\ \A i \in 1 .. Len(g) : Append(g, c)[i] = g[i]
      /\ Range(Append(g, c)) = Range(g) \cup {c}
  BY <1>1, OneLonger
<1>4. Head(Append(g, c)) = Append(g, c)[1]
  BY <1>3, HeadAndTail
<1>. QED BY <1>2, <1>3, <1>4 DEF Group

LEMMA GroupStep ==
  ASSUME NEW cells \in Seq(Cells), NEW i \in 1 .. Len(cells), NEW groups,
         GroupedSoFar(cells, i - 1, groups)
  PROVE  GroupedSoFar(cells, i, AddToGroup(groups, cells[i]))
<1>. DEFINE c == cells[i]
            new == AddToGroup(groups, c)
            same(k) == SheetOf[Head(groups[k])] = SheetOf[c]
<1>0. c \in Cells /\ Len(cells) \in Nat
  BY ListShape
<1>1. /\ groups \in Seq(Group)
      /\ \A x : x \in GroupCells(groups) <=> \E j \in 1 .. (i - 1) : cells[j] = x
      /\ \A k \in DOMAIN groups : \A x \in Range(groups[k]) : SheetOf[x] = SheetOf[Head(groups[k])]
      /\ \A k, l \in DOMAIN groups : k # l => SheetOf[Head(groups[k])] # SheetOf[Head(groups[l])]
  BY DEF GroupedSoFar
<1>2. \A x : (\E j \in 1 .. i : cells[j] = x) <=> x = c \/ \E j \in 1 .. (i - 1) : cells[j] = x
  BY <1>0
<1>3. /\ Len(groups) \in Nat /\ DOMAIN groups = 1 .. Len(groups)
      /\ \A k \in DOMAIN groups : groups[k] \in Group
  BY <1>1, ListShape
<1>4. CASE \E k \in DOMAIN groups : same(k)
  <2>1. new = [k \in DOMAIN groups |-> IF same(k) THEN Append(groups[k], c) ELSE groups[k]]
    BY <1>4 DEF AddToGroup
  <2>. HIDE DEF new, c
  <2>2. \A k \in DOMAIN groups :
          /\ new[k] \in Group /\ Head(new[k]) = Head(groups[k])
          /\ Range(new[k]) = IF same(k) THEN Range(groups[k]) \cup {c} ELSE Range(groups[k])
    BY <1>0, <1>3, <2>1, GroupGrows
  <2>3. DOMAIN new = DOMAIN groups /\ new \in Seq(Group)
    <3>1. DOMAIN new = 1 .. Len(groups) /\ Len(groups) \in Nat
      BY <1>3, <2>1
    <3>2. new \in [1 .. Len(groups) -> Group]
      BY <1>3, <2>1, <2>2, <3>1
    <3>. QED BY <1>3, <3>1, <3>2
  <2>4. ASSUME NEW x
        PROVE  x \in GroupCells(new) <=> x \in GroupCells(groups) \/ x = c
    <3>1. x \in GroupCells(new) <=> \E k \in DOMAIN new : x \in Range(new[k])
      BY <2>3, InGroups
    <3>2. x \in GroupCells(groups) <=> \E k \in DOMAIN groups : x \in Range(groups[k])
      BY <1>1, InGroups
    <3>. HIDE DEF same
    <3>3. \A k \in DOMAIN groups : x \in Range(new[k]) <=> x \in Range(groups[k]) \/ (same(k) /\ x = c)
      BY <2>2
    <3>. QED BY <1>4, <2>3, <3>1, <3>2, <3>3
  <2>5. \A k \in DOMAIN new : \A x \in Range(new[k]) : SheetOf[x] = SheetOf[Head(new[k])]
    BY <1>1, <2>2, <2>3
  <2>6. \A k, l \in DOMAIN new : k # l => SheetOf[Head(new[k])] # SheetOf[Head(new[l])]
    BY <1>1, <2>2, <2>3
  <2>7. \A x : x \in GroupCells(new) <=> \E j \in 1 .. i : cells[j] = x
    BY <1>1, <1>2, <2>4
  <2>. QED BY <2>3, <2>5, <2>6, <2>7 DEF GroupedSoFar, new, c
<1>5. CASE ~\E k \in DOMAIN groups : same(k)
  <2>1. new = Append(groups, <<c>>)
    BY <1>5 DEF AddToGroup
  <2>2. <<c>> \in Group /\ Head(<<c>>) = c /\ Range(<<c>>) = {c}
    <3>1. <<c>> \in Seq(Cells) /\ <<c>> # <<>> /\ <<c>>[1] = c /\ DOMAIN <<c>> = {1}
      BY <1>0
    <3>. QED BY <3>1 DEF Group, Range
  <2>. HIDE DEF new, c
  <2>3. /\ new \in Seq(Group) /\ Len(new) = Len(groups) + 1
        /\ \A k \in 1 .. Len(groups) : new[k] = groups[k]
        /\ new[Len(groups) + 1] = <<c>>
    BY <1>1, <2>1, <2>2, OneLonger
  <2>4. \A k : k \in DOMAIN new <=> k \in DOMAIN groups \/ k = Len(groups) + 1
    <3>1. DOMAIN new = 1 .. Len(new)
      BY <2>3, ListShape
    <3>. QED BY <1>3, <2>3, <3>1
  <2>5. Len(groups) + 1 \notin DOMAIN groups
    BY <1>3
  <2>6. \A k \in DOMAIN groups : new[k] = groups[k]
    BY <1>3, <2>3
  <2>7. ASSUME NEW x
        PROVE  x \in GroupCells(new) <=> x \in GroupCells(groups) \/ x = c
    <3>1. x \in GroupCells(new) <=> \E k \in DOMAIN new : x \in Range(new[k])
      BY <2>3, InGroups
    <3>2. x \in GroupCells(groups) <=> \E k \in DOMAIN groups : x \in Range(groups[k])
      BY <1>1, InGroups
    <3>3. Range(new[Len(groups) + 1]) = {c}
      BY <2>2, <2>3
    <3>. QED BY <2>4, <2>6, <3>1, <3>2, <3>3
  <2>8. \A x : x \in GroupCells(new) <=> \E j \in 1 .. i : cells[j] = x
    BY <1>1, <1>2, <2>7
  <2>9. \A k \in DOMAIN new : \A x \in Range(new[k]) : SheetOf[x] = SheetOf[Head(new[k])]
    BY <1>1, <2>2, <2>3, <2>4, <2>6
  <2>10. \A k, l \in DOMAIN new : k # l => SheetOf[Head(new[k])] # SheetOf[Head(new[l])]
    BY <1>1, <1>5, <2>2, <2>3, <2>4, <2>6
  <2>. QED BY <2>3, <2>8, <2>9, <2>10 DEF GroupedSoFar, new, c
<1>. QED BY <1>4, <1>5

\* bySheet divides the cells among groups that have nothing in common.
LEMMA BySheet ==
  ASSUME NEW cells \in Seq(Cells)
  PROVE  /\ bySheet(cells) \in Seq(Group) /\ GroupCells(bySheet(cells)) = Range(cells)
         /\ \A k, l \in DOMAIN bySheet(cells) :
              k # l => Range(bySheet(cells)[k]) \cap Range(bySheet(cells)[l]) = {}
<1>. DEFINE n == Len(cells)
            groups == bySheet(cells)
<1>1. n \in Nat /\ DOMAIN cells = 1 .. n
  BY ListShape
<1>2. GroupedSoFar(cells, 0, <<>>)
  <2>1. DOMAIN <<>> = {} /\ 1 .. 0 = {}
    OBVIOUS
  <2>. QED BY <2>1, NoGroups DEF GroupedSoFar
<1>3. \A i \in 1 .. n : \A acc :
        GroupedSoFar(cells, i - 1, acc) => GroupedSoFar(cells, i, AddToGroup(acc, cells[i]))
  BY GroupStep
<1>. HIDE DEF n
<1>4. GroupedSoFar(cells, n, Grouping!Folded(<<>>, cells))
  BY <1>1, <1>2, <1>3, Grouping!FoldInvariant
<1>5. GroupedSoFar(cells, n, groups)
  BY <1>4 DEF Grouping!Folded, bySheet, FoldLeft, Grouping!FoldLeft, MapThenFoldSet,
              Grouping!MapThenFoldSet, Max, Grouping!Max
<1>. HIDE DEF groups
<1>6. /\ groups \in Seq(Group)
      /\ \A c : c \in GroupCells(groups) <=> \E j \in 1 .. n : cells[j] = c
      /\ \A k \in DOMAIN groups : \A c \in Range(groups[k]) : SheetOf[c] = SheetOf[Head(groups[k])]
      /\ \A k, l \in DOMAIN groups : k # l => SheetOf[Head(groups[k])] # SheetOf[Head(groups[l])]
  BY <1>5 DEF GroupedSoFar
<1>7. GroupCells(groups) = Range(cells)
  <2>1. \A c : c \in Range(cells) <=> \E j \in 1 .. n : cells[j] = c
    BY ListShape DEF n
  <2>. QED BY <1>6, <2>1
<1>8. \A k, l \in DOMAIN groups : k # l => Range(groups[k]) \cap Range(groups[l]) = {}
  BY <1>6
<1>. QED BY <1>6, <1>7, <1>8 DEF groups

\* After i cells of the chain: the cells seen, and those of them to paint.
SeenSoFar(t, i, acc) ==
  /\ acc.refs \in Seq(Cells)
  /\ t.primary \in acc.seen
  /\ \A c \in Range(acc.refs) :
       c \in acc.seen /\ c # t.primary /\ \E j \in 1 .. i : t.chain[j] = c

Chaining == INSTANCE LeftFolds WITH Op <- AddUnseen, Holds <- SeenSoFar

\* The chain of a trace leaves its primary cell out.
LEMMA ChainRefs ==
  ASSUME NEW t \in Traces
  PROVE  /\ chainRefs(t) \in Seq(Cells) /\ t.primary \in Cells /\ t.chain \in Seq(Cells)
         /\ Range(chainRefs(t)) \subseteq Range(t.chain) \ {t.primary}
<1>. DEFINE n == Len(t.chain)
            base == [seen |-> {t.primary}, refs |-> <<>>]
<1>1. t.primary \in Cells /\ t.chain \in Seq(Cells)
  BY TraceAssumption
<1>2. n \in Nat /\ DOMAIN t.chain = 1 .. n /\ \A i \in 1 .. n : t.chain[i] \in Cells
  BY <1>1, ListShape
<1>3. SeenSoFar(t, 0, base)
  <2>1. <<>> \in Seq(Cells) /\ Range(<<>>) = {}
    BY DEF Range
  <2>. QED BY <2>1 DEF SeenSoFar
<1>4. ASSUME NEW i \in 1 .. n, NEW acc, SeenSoFar(t, i - 1, acc)
      PROVE  SeenSoFar(t, i, AddUnseen(acc, t.chain[i]))
  <2>. DEFINE c == t.chain[i]
              new == AddUnseen(acc, c)
  <2>0. i \in 1 .. i /\ \A j \in 1 .. (i - 1) : j \in 1 .. i
    BY <1>2
  <2>1. /\ acc.refs \in Seq(Cells) /\ t.primary \in acc.seen
        /\ \A d \in Range(acc.refs) :
             d \in acc.seen /\ d # t.primary /\ \E j \in 1 .. (i - 1) : t.chain[j] = d
    BY <1>4 DEF SeenSoFar
  <2>2. CASE c \in acc.seen
    <3>1. new = acc
      BY <2>2 DEF AddUnseen
    <3>. QED BY <2>0, <2>1, <3>1 DEF SeenSoFar
  <2>3. CASE c \notin acc.seen
    <3>1. new.seen = acc.seen \cup {c} /\ new.refs = Append(acc.refs, c)
      BY <2>3 DEF AddUnseen
    <3>2. new.refs \in Seq(Cells) /\ Range(new.refs) = Range(acc.refs) \cup {c}
      BY <1>2, <2>1, <3>1, OneLonger
    <3>. QED BY <2>0, <2>1, <2>3, <3>1, <3>2 DEF SeenSoFar
  <2>. QED BY <2>2, <2>3
<1>. HIDE DEF n
<1>5. SeenSoFar(t, n, Chaining!Folded(base, t.chain))
  BY <1>2, <1>3, <1>4, Chaining!FoldInvariant
<1>6. SeenSoFar(t, n, FoldLeft(AddUnseen, base, t.chain))
  BY <1>5 DEF Chaining!Folded, FoldLeft, Chaining!FoldLeft, MapThenFoldSet,
              Chaining!MapThenFoldSet, Max, Chaining!Max
<1>7. /\ chainRefs(t) \in Seq(Cells)
      /\ \A c \in Range(chainRefs(t)) : c # t.primary /\ \E j \in 1 .. n : t.chain[j] = c
  BY <1>6 DEF SeenSoFar, chainRefs
<1>8. \A j \in 1 .. n : t.chain[j] \in Range(t.chain)
  BY <1>2 DEF Range
<1>. QED BY <1>1, <1>7, <1>8

Batch == [cells : Group, color : Highlights]

\* Batches divide the cells of a trace.
Apart(paint) ==
  \A i, j \in DOMAIN paint : i # j => Range(paint[i].cells) \cap Range(paint[j].cells) = {}

LEMMA BatchesOfATrace ==
  ASSUME NEW t \in Traces
  PROVE  /\ Batches(t) \in Seq(Batch) /\ Batches(t) # <<>> /\ Apart(Batches(t))
         /\ \A i \in DOMAIN Batches(t) :
              Range(Batches(t)[i].cells) \subseteq {t.primary} \cup Range(t.chain)
<1>. DEFINE refs == chainRefs(t)
            groups == bySheet(refs)
            chain == [i \in DOMAIN groups |-> [cells |-> groups[i], color |-> ChainColor]]
            single == <<<<t.primary>>>>
            last == [i \in DOMAIN single |-> [cells |-> single[i], color |-> PrimaryColor]]
            n == Len(groups)
<1>1. /\ refs \in Seq(Cells) /\ t.primary \in Cells
      /\ Range(refs) \subseteq Range(t.chain) \ {t.primary}
  BY ChainRefs
<1>2. /\ groups \in Seq(Group) /\ GroupCells(groups) = Range(refs)
      /\ \A k, l \in DOMAIN groups : k # l => Range(groups[k]) \cap Range(groups[l]) = {}
  BY <1>1, BySheet
<1>3. n \in Nat /\ DOMAIN groups = 1 .. n /\ \A i \in 1 .. n : groups[i] \in Group
  BY <1>2, ListShape
<1>4. DOMAIN single = {1} /\ single[1] = <<t.primary>> /\ <<t.primary>> \in Group /\ Range(<<t.primary>>) = {t.primary}
  <2>1. <<t.primary>> \in Seq(Cells) /\ <<t.primary>> # <<>> /\ <<t.primary>>[1] = t.primary /\ DOMAIN <<t.primary>> = {1}
    BY <1>1
  <2>. QED BY <2>1 DEF Group, Range
<1>5. Batches(t) = chain \o last
  BY DEF Batches
<1>. HIDE DEF groups, refs
<1>6. /\ chain \in Seq(Batch) /\ Len(chain) = n
      /\ \A i \in 1 .. n : chain[i].cells = groups[i]
  <2>1. \A i \in 1 .. n : chain[i] \in Batch /\ chain[i].cells = groups[i]
    BY <1>3 DEF Batch, Highlights
  <2>2. chain \in [1 .. n -> Batch]
    BY <1>3, <2>1
  <2>. QED BY <1>3, <2>1, <2>2
<1>7. last \in Seq(Batch) /\ Len(last) = 1 /\ last[1].cells = <<t.primary>>
  <2>1. last[1] = [cells |-> <<t.primary>>, color |-> PrimaryColor] /\ DOMAIN last = {1}
    BY <1>4
  <2>2. last[1] \in Batch /\ last[1].cells = <<t.primary>>
    BY <1>4, <2>1 DEF Batch, Highlights
  <2>3. {1} = 1 .. 1 /\ last \in [1 .. 1 -> Batch]
    BY <2>1, <2>2
  <2>. QED BY <2>2, <2>3
<1>. HIDE DEF chain, last, single, n
<1>. DEFINE paint == Batches(t)
<1>8. /\ paint \in Seq(Batch) /\ Len(paint) = n + 1
      /\ \A i \in 1 .. n : paint[i] = chain[i]
      /\ paint[n + 1] = last[1]
  <2>1. /\ chain \o last \in Seq(Batch) /\ Len(chain \o last) = Len(chain) + Len(last)
        /\ \A i \in 1 .. Len(chain) : (chain \o last)[i] = chain[i]
        /\ \A i \in 1 .. Len(last) : (chain \o last)[Len(chain) + i] = last[i]
    <3>1. chain \in Seq(Batch) /\ last \in Seq(Batch)
      BY <1>6, <1>7
    <3>. QED BY ONLY <3>1, Joined
  <2>2. 1 \in 1 .. Len(last)
    BY <1>7
  <2>. QED BY <1>5, <1>6, <1>7, <2>1, <2>2
<1>. HIDE DEF paint
<1>9. DOMAIN paint = 1 .. (n + 1) /\ paint # <<>>
  <2>1. DOMAIN paint = 1 .. Len(paint) /\ (paint = <<>> <=> Len(paint) = 0)
    BY <1>8, ListShape
  <2>. QED BY <1>3, <1>8, <2>1
<1>10. \A i \in DOMAIN paint : \/ i \in 1 .. n /\ paint[i].cells = groups[i]
                               \/ i = n + 1 /\ paint[i].cells = <<t.primary>>
  BY <1>3, <1>6, <1>7, <1>8, <1>9
<1>11. \A i \in 1 .. n : Range(groups[i]) \subseteq Range(t.chain) \ {t.primary}
  <2>1. \A i \in 1 .. n : Range(groups[i]) \subseteq GroupCells(groups)
    BY <1>3 DEF GroupCells
  <2>. QED BY <1>1, <1>2, <2>1
<1>12. Apart(paint)
  <2>1. ASSUME NEW i \in DOMAIN paint, NEW j \in DOMAIN paint, i # j
        PROVE  Range(paint[i].cells) \cap Range(paint[j].cells) = {}
    <3>1. CASE i \in 1 .. n /\ j \in 1 .. n
      BY <1>2, <1>3, <1>6, <1>8, <2>1, <3>1
    <3>2. CASE ~(i \in 1 .. n /\ j \in 1 .. n)
      BY <1>4, <1>10, <1>11, <2>1, <3>2
    <3>. QED BY <3>1, <3>2
  <2>. QED BY <2>1 DEF Apart
<1>13. \A i \in DOMAIN paint : Range(paint[i].cells) \subseteq {t.primary} \cup Range(t.chain)
  BY <1>4, <1>10, <1>11
<1>. QED BY <1>8, <1>9, <1>12, <1>13 DEF paint

-----------------------------------------------------------------------------
(* Fills that are remembered.                                                *)

\* A cell is on a list if an item names it.
LEMMA CellsOfList ==
  ASSUME NEW list \in Seq(SavedFills)
  PROVE  /\ CellsOf(list) \in Seq(Cells)
         /\ Range(CellsOf(list)) \subseteq Cells
         /\ \A c : c \in Range(CellsOf(list)) <=> \E item \in Range(list) : item.cell = c
<1>. DEFINE cells == CellsOf(list)
<1>1. /\ Len(list) \in Nat /\ DOMAIN list = 1 .. Len(list)
      /\ \A i \in 1 .. Len(list) : list[i] \in SavedFills
  BY ListShape
<1>2. DOMAIN cells = 1 .. Len(list) /\ \A i \in 1 .. Len(list) : cells[i] = list[i].cell
  BY <1>1 DEF CellsOf
<1>3. \A i \in 1 .. Len(list) : list[i].cell \in Cells
  BY <1>1 DEF SavedFills
<1>. HIDE DEF cells
<1>4. cells \in Seq(Cells)
  <2>1. cells \in [1 .. Len(list) -> Cells]
    <3>1. cells = [i \in 1 .. Len(list) |-> list[i].cell]
      BY <1>1 DEF cells, CellsOf
    <3>. QED BY <1>3, <3>1
  <2>. QED BY <1>1, <2>1
<1>5. Range(cells) \subseteq Cells
  BY <1>4, ListShape
<1>6. \A c : c \in Range(cells) <=> \E item \in Range(list) : item.cell = c
  BY <1>1, <1>2 DEF Range
<1>. QED BY <1>4, <1>5, <1>6 DEF cells

\* Nothing is on the empty list.
LEMMA EmptyList ==
  <<>> \in Seq(SavedFills) /\ Range(<<>>) = {} /\ Range(CellsOf(<<>>)) = {}
<1>1. <<>> \in Seq(SavedFills) /\ DOMAIN <<>> = {} /\ CellsOf(<<>>) = <<>>
  BY DEF CellsOf
<1>. QED BY <1>1 DEF Range

\* toRestore.find gives an item of the cell.
LEMMA OriginalIsRemembered ==
  ASSUME NEW list \in Seq(SavedFills), NEW c \in Range(CellsOf(list))
  PROVE  \E item \in Range(list) : item.cell = c /\ Original(list, c) = item.color
<1>. DEFINE Found == {i \in 1 .. Len(list) : list[i].cell = c}
<1>1. /\ Len(list) \in Nat /\ DOMAIN list = 1 .. Len(list)
  BY ListShape
<1>2. \E item \in Range(list) : item.cell = c
  BY CellsOfList
<1>3. Found # {} /\ Found \subseteq Nat
  BY <1>1, <1>2 DEF Range
<1>4. SelectInSeq(list, LAMBDA item : item.cell = c) = IF Found # {} THEN Min(Found) ELSE 0
  BY DEF SelectInSeq
<1>. HIDE DEF Found
<1>5. Min(Found) \in Found
  <2>1. \E m \in Found : \A k \in Found : m <= k
    BY <1>3, LeastNumber
  <2>. QED BY <2>1 DEF Min
<1>6. PICK i \in Found : Original(list, c) = list[i].color
  BY <1>3, <1>4, <1>5 DEF Original
<1>7. i \in 1 .. Len(list) /\ list[i].cell = c
  BY DEF Found
<1>. QED BY <1>1, <1>6, <1>7 DEF Range

\* A restored fill reads as the fill that was read.
LEMMA RestoredReadsTheSame ==
  ASSUME NEW f
  PROVE  Read(Restored(Read(f))) = Read(f)
  BY DEF Read, Restored

\* The fills a restore may give.
LEMMA RestoredFills ==
  ASSUME NEW color \in Fills \cup Highlights
  PROVE  Restored(color) \in Fills \cup Highlights /\ Read(color) \in Fills \cup Highlights
  BY FillAssumption DEF Restored, Read

-----------------------------------------------------------------------------
(* A click.                                                                  *)

Phases == {"idle", "restore", "read", "paint", "done"}

Op == [phase : Phases, restore : Seq(Group), toRestore : Seq(SavedFills),
       paint : Seq(Batch), next : Seq(SavedFills)]

\* The cells a click o still restores, those it remembers, those it paints.
Restores(o) == GroupCells(o.restore)
Remembers(o) == Range(CellsOf(o.next))
Paints(o) == UNION {Range(o.paint[i].cells) : i \in DOMAIN o.paint}
Claims(o) == Restores(o) \cup Remembers(o) \cup Paints(o)

\* Its batch; the cells it has read and not painted yet.
Current(o) == Range(Head(o.paint).cells)
Unpainted(o) == IF o.phase = "paint" THEN Current(o) ELSE {}

\* The steps of a click come in order: it restores, then reads and paints batch
\* after batch, no cell in two of them.
Orderly(o) ==
  /\ o \in Op
  /\ o.phase = "idle" => o = NotClicked
  /\ o.phase = "done" => o = Done
  /\ o.phase = "restore" <=> o.restore # <<>>
  /\ o.phase = "restore" => o.next = <<>>
  /\ o.phase \in {"read", "paint"} => o.paint # <<>>
  /\ o.phase = "paint" => Current(o) \subseteq Remembers(o)
  /\ Apart(o.paint)
  /\ \A i \in DOMAIN o.paint :
       i # 1 \/ o.phase # "paint" => Range(o.paint[i].cells) \cap Remembers(o) = {}
  /\ Restores(o) \subseteq Range(CellsOf(o.toRestore))

\* A click that is over, or has not happened, has no business with any cell.
LEMMA Idle ==
  /\ Orderly(Done) /\ Orderly(NotClicked)
  /\ Claims(Done) = {} /\ Claims(NotClicked) = {}
  /\ Range(Done.toRestore) = {} /\ Range(NotClicked.toRestore) = {}
  /\ Range(Done.next) = {} /\ Range(NotClicked.next) = {}
<1>1. /\ Done = [phase |-> "done", restore |-> <<>>, toRestore |-> <<>>, paint |-> <<>>, next |-> <<>>]
      /\ NotClicked = [phase |-> "idle", restore |-> <<>>, toRestore |-> <<>>, paint |-> <<>>, next |-> <<>>]
  BY DEF Done, NotClicked
<1>2. <<>> \in Seq(Group) /\ <<>> \in Seq(Batch) /\ <<>> \in Seq(SavedFills)
  OBVIOUS
<1>3. Done \in Op /\ NotClicked \in Op
  BY <1>1, <1>2 DEF Op, Phases
<1>4. ASSUME NEW o \in {Done, NotClicked}
      PROVE  /\ Orderly(o) /\ Claims(o) = {} /\ Range(o.toRestore) = {} /\ Range(o.next) = {}
  <2>1. o \in Op /\ o.restore = <<>> /\ o.toRestore = <<>> /\ o.paint = <<>> /\ o.next = <<>>
    BY <1>1, <1>3, <1>4
  <2>2. /\ o.phase \in {"idle", "done"}
        /\ (o.phase = "idle" => o = NotClicked) /\ (o.phase = "done" => o = Done)
    BY <1>1, <1>4
  <2>3. Restores(o) = {} /\ Remembers(o) = {}
    BY <2>1, NoGroups, EmptyList DEF Restores, Remembers
  <2>4. DOMAIN o.paint = {}
    BY <2>1
  <2>5. Paints(o) = {}
    BY <2>4 DEF Paints
  <2>6. Apart(o.paint)
    BY <2>4 DEF Apart
  <2>7. Orderly(o)
    BY <2>1, <2>2, <2>3, <2>4, <2>6 DEF Orderly
  <2>. QED BY <2>1, <2>3, <2>5, <2>7, EmptyList DEF Claims
<1>. QED BY <1>4

LEMMA ClaimsAreCells ==
  ASSUME NEW o, Orderly(o)
  PROVE  Claims(o) \subseteq Cells
<1>1. o.restore \in Seq(Group) /\ o.next \in Seq(SavedFills) /\ o.paint \in Seq(Batch)
  BY DEF Orderly, Op
<1>2. Restores(o) \subseteq Cells
  <2>1. \A i \in DOMAIN o.restore : o.restore[i] \in Group
    BY <1>1, ListShape
  <2>2. \A i \in DOMAIN o.restore : Range(o.restore[i]) \subseteq Cells
    BY <2>1, ListShape DEF Group
  <2>. QED BY <2>2 DEF Restores, GroupCells
<1>3. Paints(o) \subseteq Cells
  <2>1. \A i \in DOMAIN o.paint : o.paint[i] \in Batch
    BY <1>1, ListShape
  <2>2. \A i \in DOMAIN o.paint : o.paint[i].cells \in Seq(Cells)
    BY <2>1 DEF Batch, Group
  <2>3. \A i \in DOMAIN o.paint : Range(o.paint[i].cells) \subseteq Cells
    BY <2>2, ListShape
  <2>. QED BY <2>3 DEF Paints
<1>4. Remembers(o) \subseteq Cells
  BY <1>1, CellsOfList DEF Remembers
<1>. QED BY <1>2, <1>3, <1>4 DEF Claims

\* The cells of the current batch, and of the others.
LEMMA FirstBatch ==
  ASSUME NEW paint \in Seq(Batch), paint # <<>>, Apart(paint)
  PROVE  /\ Head(paint) = paint[1] /\ 1 \in DOMAIN paint /\ Head(paint) \in Batch
         /\ Tail(paint) \in Seq(Batch) /\ Apart(Tail(paint))
         /\ Len(paint) # 1 <=> Tail(paint) # <<>>
         /\ \A i \in DOMAIN Tail(paint) :
              i + 1 \in DOMAIN paint /\ i + 1 # 1 /\ Tail(paint)[i] = paint[i + 1]
<1>1. /\ Len(paint) \in Nat /\ DOMAIN paint = 1 .. Len(paint)
  BY ListShape
<1>2. /\ Head(paint) = paint[1] /\ paint[1] \in Batch /\ 1 \in DOMAIN paint
      /\ Tail(paint) \in Seq(Batch) /\ Len(Tail(paint)) = Len(paint) - 1
      /\ \A i \in 1 .. Len(paint) - 1 : Tail(paint)[i] = paint[i + 1]
  BY HeadAndTail
<1>3. DOMAIN Tail(paint) = 1 .. Len(paint) - 1 /\ (Tail(paint) = <<>> <=> Len(Tail(paint)) = 0)
  BY <1>2, ListShape
<1>4. \A i \in DOMAIN Tail(paint) :
        i \in Nat /\ i + 1 \in DOMAIN paint /\ i + 1 # 1 /\ Tail(paint)[i] = paint[i + 1]
  BY <1>1, <1>2, <1>3
<1>5. Apart(Tail(paint))
  <2>1. \A i, j \in DOMAIN Tail(paint) : i # j => i + 1 # j + 1
    BY <1>4
  <2>. QED BY <1>4, <2>1 DEF Apart
<1>6. Len(paint) # 1 <=> Tail(paint) # <<>>
  BY <1>1, <1>2, <1>3
<1>. QED BY <1>2, <1>4, <1>5, <1>6

\* A click that goes on keeps its lists, or is over.
LEMMA Onwards ==
  ASSUME NEW o \in Op
  PROVE  /\ Onward(o) \in Op /\ Onward(o).restore = o.restore /\ Onward(o).paint = o.paint
         /\ \/ Onward(o) = Done /\ o.restore = <<>> /\ o.paint = <<>>
            \/ /\ Onward(o).toRestore = o.toRestore /\ Onward(o).next = o.next
               /\ \/ Onward(o).phase = "restore" /\ o.restore # <<>>
                  \/ Onward(o).phase = "read" /\ o.restore = <<>> /\ o.paint # <<>>
<1>1. Done \in Op /\ Done.restore = <<>> /\ Done.paint = <<>>
  BY Idle DEF Orderly, Done
<1>2. ASSUME NEW p \in {"restore", "read"}
      PROVE  LET q == [o EXCEPT !.phase = p]
             IN  /\ q \in Op /\ q.restore = o.restore /\ q.paint = o.paint /\ q.phase = p
                 /\ q.toRestore = o.toRestore /\ q.next = o.next
  BY DEF Op, Phases
<1>. QED BY <1>1, <1>2 DEF Onward

LEMMA OnwardIsOrderly ==
  ASSUME NEW o \in Op, o.restore # <<>> => o.next = <<>>, Apart(o.paint),
         \A i \in DOMAIN o.paint : Range(o.paint[i].cells) \cap Remembers(o) = {},
         Restores(o) \subseteq Range(CellsOf(o.toRestore))
  PROVE  /\ Orderly(Onward(o)) /\ Claims(Onward(o)) \subseteq Claims(o)
         /\ Unpainted(Onward(o)) = {}
<1>. DEFINE q == Onward(o)
<1>1. CASE q = Done
  <2>1. Done.phase # "paint"
    BY DEF Done
  <2>. QED BY <1>1, <2>1, Idle DEF Unpainted
<1>2. CASE q # Done
  <2>1. /\ q \in Op /\ q.restore = o.restore /\ q.paint = o.paint
        /\ q.toRestore = o.toRestore /\ q.next = o.next
        /\ \/ q.phase = "restore" /\ o.restore # <<>>
           \/ q.phase = "read" /\ o.restore = <<>> /\ o.paint # <<>>
    BY <1>2, Onwards
  <2>. HIDE DEF q
  <2>2. Restores(q) = Restores(o) /\ Remembers(q) = Remembers(o) /\ Paints(q) = Paints(o)
    BY <2>1 DEF Restores, Remembers, Paints
  <2>3. Orderly(q)
    BY <2>1, <2>2 DEF Orderly
  <2>4. Unpainted(q) = {}
    BY <2>1 DEF Unpainted
  <2>. QED BY <2>2, <2>3, <2>4 DEF Claims, q
<1>. QED BY <1>1, <1>2

-----------------------------------------------------------------------------
(* What a click becomes.                                                     *)

Started(batches) ==
  Onward([Done EXCEPT !.restore = bySheet(CellsOf(saved)), !.toRestore = saved,
                      !.paint = batches])

\* A new click restores what was saved.
LEMMA ClickStarts ==
  ASSUME NEW batches \in Seq(Batch), Apart(batches), saved \in Seq(SavedFills)
  PROVE  LET q == Started(batches)
         IN  /\ Orderly(q) /\ Unpainted(q) = {} /\ Remembers(q) = {} /\ Range(q.next) = {}
             /\ Restores(q) = SavedCells /\ q.paint = batches
             /\ \/ q.toRestore = saved
                \/ Restores(q) = {} /\ Range(q.toRestore) = {}
<1>. DEFINE o == [Done EXCEPT !.restore = bySheet(CellsOf(saved)), !.toRestore = saved,
                              !.paint = batches]
            q == Onward(o)
<1>1. CellsOf(saved) \in Seq(Cells)
  BY CellsOfList
<1>2. bySheet(CellsOf(saved)) \in Seq(Group) /\ GroupCells(bySheet(CellsOf(saved))) = SavedCells
  BY <1>1, BySheet DEF SavedCells
<1>3. /\ o.restore = bySheet(CellsOf(saved)) /\ o.toRestore = saved /\ o.paint = batches
      /\ o.next = <<>> /\ o \in Op
  BY <1>2, EmptyList DEF Done, Op, Phases
<1>. HIDE DEF o
<1>4. Restores(o) = SavedCells /\ Remembers(o) = {}
  BY <1>2, <1>3, EmptyList DEF Restores, Remembers
<1>5. Orderly(q) /\ Claims(q) \subseteq Claims(o) /\ Unpainted(q) = {}
  BY <1>3, <1>4, OnwardIsOrderly DEF SavedCells
<1>6. /\ q.restore = o.restore /\ q.paint = o.paint
      /\ \/ q = Done
         \/ q.toRestore = o.toRestore /\ q.next = o.next
  BY <1>3, Onwards
<1>7. Restores(q) = SavedCells
  BY <1>4, <1>6 DEF Restores
<1>8. q = Done => Claims(q) = {} /\ Range(q.toRestore) = {} /\ Range(q.next) = {}
  BY Idle
<1>9. Remembers(q) = {} /\ Range(q.next) = {}
  <2>1. CASE q = Done
    BY <1>8, <2>1 DEF Claims
  <2>2. CASE q.next = o.next
    BY <1>3, <2>2, EmptyList DEF Remembers
  <2>. QED BY <1>6, <2>1, <2>2
<1>10. q.toRestore = saved \/ (Restores(q) = {} /\ Range(q.toRestore) = {})
  BY <1>3, <1>6, <1>8 DEF Claims
<1>. QED BY <1>3, <1>5, <1>6, <1>7, <1>9, <1>10 DEF Started, o

\* A restored group is no longer to be restored.
LEMMA ClickRestores ==
  ASSUME NEW o, Orderly(o), o.phase = "restore"
  PROVE  LET q == Onward([o EXCEPT !.restore = Tail(@)])
             group == Range(Head(o.restore))
         IN  /\ Orderly(q) /\ Unpainted(q) = {} /\ Claims(q) \subseteq Claims(o)
             /\ Restores(o) = group \cup Restores(q) /\ q.paint = o.paint
             /\ Range(o.next) = {} /\ Remembers(o) = {}
             /\ Range(q.next) = {} /\ Remembers(q) = {}
             /\ \/ q.toRestore = o.toRestore
                \/ Restores(q) = {} /\ Range(q.toRestore) = {}
<1>. DEFINE r == [o EXCEPT !.restore = Tail(@)]
            q == Onward(r)
<1>1. o \in Op /\ o.restore # <<>> /\ o.next = <<>> /\ Apart(o.paint)
  BY DEF Orderly
<1>2. o.restore \in Seq(Group)
  BY <1>1 DEF Op
<1>3. /\ Tail(o.restore) \in Seq(Group)
      /\ GroupCells(o.restore) = Range(Head(o.restore)) \cup GroupCells(Tail(o.restore))
  BY <1>1, <1>2, FirstGroup
<1>4. /\ r \in Op /\ r.restore = Tail(o.restore) /\ r.toRestore = o.toRestore
      /\ r.paint = o.paint /\ r.next = <<>>
  BY <1>1, <1>3 DEF Op
<1>. HIDE DEF r
<1>5. /\ Restores(o) = Range(Head(o.restore)) \cup Restores(r)
      /\ Remembers(o) = {} /\ Remembers(r) = {} /\ Paints(r) = Paints(o)
  BY <1>1, <1>3, <1>4, EmptyList DEF Restores, Remembers, Paints
<1>6. Restores(r) \subseteq Range(CellsOf(r.toRestore))
  BY <1>4, <1>5 DEF Orderly
<1>7. Orderly(q) /\ Claims(q) \subseteq Claims(r) /\ Unpainted(q) = {}
  BY <1>1, <1>4, <1>5, <1>6, OnwardIsOrderly
<1>8. /\ q.restore = r.restore /\ q.paint = r.paint
      /\ \/ q = Done
         \/ q.toRestore = r.toRestore /\ q.next = r.next
  BY <1>4, Onwards
<1>9. Restores(q) = Restores(r)
  BY <1>8 DEF Restores
<1>10. q = Done => Claims(q) = {} /\ Range(q.toRestore) = {} /\ Range(q.next) = {}
  BY Idle
<1>11. Remembers(q) = {} /\ Range(q.next) = {}
  <2>1. CASE q = Done
    BY <1>10, <2>1 DEF Claims
  <2>2. CASE q.next = r.next
    BY <1>4, <2>2, EmptyList DEF Remembers
  <2>. QED BY <1>8, <2>1, <2>2
<1>12. Claims(r) \subseteq Claims(o)
  BY <1>5 DEF Claims
<1>13. q.toRestore = o.toRestore \/ (Restores(q) = {} /\ Range(q.toRestore) = {})
  BY <1>4, <1>8, <1>10 DEF Claims
<1>14. Range(o.next) = {}
  BY <1>1, EmptyList
<1>. QED BY <1>4, <1>5, <1>7, <1>8, <1>9, <1>11, <1>12, <1>13, <1>14 DEF r

AfterReading(o) ==
  LET cells == Head(o.paint).cells
  IN  [o EXCEPT !.phase = "paint",
                !.next = @ \o [i \in DOMAIN cells |->
                                 [cell |-> cells[i], color |-> Read(fill[cells[i]])]]]

\* The fills read are remembered, of cells nothing was remembered of.
LEMMA ClickReads ==
  ASSUME NEW o, Orderly(o), o.phase = "read", fill \in [Cells -> Fills \cup Highlights],
         NEW q, q = AfterReading(o)
  PROVE  /\ Orderly(q) /\ Unpainted(q) = Current(o) /\ Claims(q) \subseteq Claims(o)
         /\ Remembers(q) = Remembers(o) \cup Current(o) /\ Current(o) \cap Remembers(o) = {}
         /\ Restores(o) = {} /\ Restores(q) = {} /\ Current(o) \subseteq Paints(o)
         /\ Current(o) \subseteq Cells /\ q.paint = o.paint /\ o.paint # <<>>
         /\ \A item : item \in Range(q.next) <=>
              \/ item \in Range(o.next)
              \/ \E c \in Current(o) : item = [cell |-> c, color |-> Read(fill[c])]
<1>. DEFINE cells == Head(o.paint).cells
            items == [i \in DOMAIN cells |-> [cell |-> cells[i], color |-> Read(fill[cells[i]])]]
<1>1. /\ o \in Op /\ o.restore = <<>> /\ o.paint # <<>> /\ Apart(o.paint)
      /\ \A i \in DOMAIN o.paint : Range(o.paint[i].cells) \cap Remembers(o) = {}
  BY DEF Orderly
<1>2. o.paint \in Seq(Batch) /\ o.next \in Seq(SavedFills)
  BY <1>1 DEF Op
<1>3. Head(o.paint) = o.paint[1] /\ 1 \in DOMAIN o.paint /\ Head(o.paint) \in Batch
  BY <1>1, <1>2, FirstBatch
<1>4. cells \in Seq(Cells)
  BY <1>3 DEF Batch, Group
<1>5. Current(o) = Range(cells)
  BY DEF Current
<1>. HIDE DEF cells
<1>6. /\ Len(cells) \in Nat /\ DOMAIN cells = 1 .. Len(cells)
      /\ \A i \in 1 .. Len(cells) : cells[i] \in Cells
      /\ Range(cells) \subseteq Cells
  BY <1>4, ListShape
<1>7. /\ DOMAIN items = 1 .. Len(cells)
      /\ \A i \in 1 .. Len(cells) : items[i] = [cell |-> cells[i], color |-> Read(fill[cells[i]])]
  BY <1>6
<1>8. items \in Seq(SavedFills)
  <2>1. \A c \in Cells : Read(fill[c]) \in Fills \cup Highlights
    BY RestoredFills
  <2>2. \A i \in 1 .. Len(cells) : items[i] \in SavedFills
    BY <1>6, <1>7, <2>1 DEF SavedFills
  <2>3. items \in [1 .. Len(cells) -> SavedFills]
    BY <1>6, <2>2
  <2>. QED BY <1>6, <2>3
<1>9. \A item : item \in Range(items) <=>
        \E c \in Current(o) : item = [cell |-> c, color |-> Read(fill[c])]
  BY <1>5, <1>6, <1>7 DEF Range
<1>10. q = [o EXCEPT !.phase = "paint", !.next = o.next \o items]
  BY DEF cells, AfterReading
<1>. HIDE DEF items
<1>11. o.next \o items \in Seq(SavedFills) /\ Range(o.next \o items) = Range(o.next) \cup Range(items)
  BY <1>2, <1>8, Joined
<1>12. /\ q \in Op /\ q.phase = "paint" /\ q.restore = <<>> /\ q.toRestore = o.toRestore
       /\ q.paint = o.paint /\ q.next = o.next \o items
  BY <1>1, <1>10, <1>11 DEF Op, Phases
<1>13. \A item : item \in Range(q.next) <=>
         \/ item \in Range(o.next)
         \/ \E c \in Current(o) : item = [cell |-> c, color |-> Read(fill[c])]
  BY <1>9, <1>11, <1>12
<1>14. Remembers(q) = Remembers(o) \cup Current(o)
  <2>1. \A c : c \in Remembers(o) <=> \E item \in Range(o.next) : item.cell = c
    BY <1>2, CellsOfList DEF Remembers
  <2>2. \A c : c \in Remembers(q) <=> \E item \in Range(q.next) : item.cell = c
    BY <1>11, <1>12, CellsOfList DEF Remembers
  <2>3. ASSUME NEW c
        PROVE  c \in Remembers(q) <=> c \in Remembers(o) \/ c \in Current(o)
    <3>1. ASSUME NEW d \in Current(o), d = c
          PROVE  \E item \in Range(q.next) : item.cell = c
      <4>1. [cell |-> d, color |-> Read(fill[d])] \in Range(q.next)
        BY <1>13
      <4>. QED BY <3>1, <4>1
    <3>2. ASSUME NEW item \in Range(q.next), item.cell = c
          PROVE  (\E old \in Range(o.next) : old.cell = c) \/ c \in Current(o)
      <4>1. CASE item \in Range(o.next)
        BY <3>2, <4>1
      <4>2. ASSUME NEW d \in Current(o), item = [cell |-> d, color |-> Read(fill[d])]
            PROVE  c \in Current(o)
        BY <3>2, <4>2
      <4>. QED BY <1>13, <4>1, <4>2
    <3>3. \A old \in Range(o.next) : old \in Range(q.next)
      BY <1>13
    <3>. QED BY <2>1, <2>2, <3>1, <3>2, <3>3
  <2>. QED BY <2>3
<1>15. Restores(o) = {} /\ Restores(q) = {} /\ Paints(q) = Paints(o) /\ Current(q) = Current(o)
  BY <1>1, <1>12, NoGroups DEF Restores, Paints, Current
<1>16. Current(o) \subseteq Paints(o) /\ Current(o) \cap Remembers(o) = {}
  BY <1>1, <1>3 DEF Current, Paints
<1>17. Orderly(q)
  <2>1. \A i \in DOMAIN o.paint : i # 1 => Range(o.paint[i].cells) \cap Current(o) = {}
    BY <1>1, <1>3 DEF Apart, Current
  <2>2. \A i \in DOMAIN q.paint : i # 1 => Range(q.paint[i].cells) \cap Remembers(q) = {}
    BY <1>1, <1>12, <1>14, <2>1
  <2>. QED BY <1>1, <1>12, <1>14, <1>15, <2>2 DEF Orderly
<1>18. Unpainted(q) = Current(o) /\ Claims(q) \subseteq Claims(o)
  BY <1>12, <1>14, <1>15, <1>16 DEF Unpainted, Claims
<1>. QED BY <1>1, <1>5, <1>6, <1>12, <1>13, <1>14, <1>15, <1>16, <1>17, <1>18

\* A batch that was painted is remembered; the last one ends the click.
LEMMA ClickPaints ==
  ASSUME NEW o, Orderly(o), o.phase = "paint"
  PROVE  LET q == Onward([o EXCEPT !.paint = Tail(@)])
         IN  /\ Orderly(q) /\ Unpainted(q) = {} /\ Claims(q) \subseteq Claims(o)
             /\ Restores(o) = {} /\ Restores(q) = {} /\ o.paint # <<>>
             /\ Current(o) = Unpainted(o) /\ Current(o) \subseteq Remembers(o)
             /\ Head(o.paint).color \in Highlights
             /\ IF Len(o.paint) = 1 THEN q = Done ELSE q.next = o.next
<1>. DEFINE r == [o EXCEPT !.paint = Tail(@)]
            q == Onward(r)
<1>1. /\ o \in Op /\ o.restore = <<>> /\ o.paint # <<>> /\ Apart(o.paint)
      /\ Current(o) \subseteq Remembers(o)
      /\ \A i \in DOMAIN o.paint : i # 1 => Range(o.paint[i].cells) \cap Remembers(o) = {}
  BY DEF Orderly
<1>2. o.paint \in Seq(Batch)
  BY <1>1 DEF Op
<1>3. /\ Head(o.paint) \in Batch /\ Tail(o.paint) \in Seq(Batch) /\ Apart(Tail(o.paint))
      /\ Len(o.paint) # 1 <=> Tail(o.paint) # <<>>
      /\ \A i \in DOMAIN Tail(o.paint) :
           i + 1 \in DOMAIN o.paint /\ i + 1 # 1 /\ Tail(o.paint)[i] = o.paint[i + 1]
  BY <1>1, <1>2, FirstBatch
<1>4. /\ r \in Op /\ r.restore = <<>> /\ r.toRestore = o.toRestore /\ r.next = o.next
      /\ r.paint = Tail(o.paint)
  BY <1>1, <1>3 DEF Op
<1>. HIDE DEF r
<1>5. /\ Restores(o) = {} /\ Restores(r) = {} /\ Remembers(r) = Remembers(o)
      /\ Paints(r) \subseteq Paints(o)
  BY <1>1, <1>3, <1>4, NoGroups DEF Restores, Remembers, Paints
<1>6. \A i \in DOMAIN r.paint : Range(r.paint[i].cells) \cap Remembers(r) = {}
  BY <1>1, <1>3, <1>4, <1>5
<1>7. Orderly(q) /\ Claims(q) \subseteq Claims(r) /\ Unpainted(q) = {}
  BY <1>3, <1>4, <1>5, <1>6, OnwardIsOrderly
<1>8. /\ q.restore = r.restore
      /\ \/ q = Done /\ r.paint = <<>>
         \/ q.next = r.next /\ (r.restore # <<>> \/ r.paint # <<>>)
  BY <1>4, Onwards
<1>9. Restores(q) = {} /\ Claims(r) \subseteq Claims(o)
  BY <1>5, <1>8 DEF Restores, Claims
<1>10. IF Len(o.paint) = 1 THEN q = Done ELSE q.next = o.next
  BY <1>3, <1>4, <1>8
<1>11. Head(o.paint).color \in Highlights /\ Current(o) = Unpainted(o)
  BY <1>3 DEF Batch, Unpainted
<1>. QED BY <1>1, <1>5, <1>7, <1>9, <1>10, <1>11 DEF r

-----------------------------------------------------------------------------
(* The invariant.                                                            *)

TypeInv ==
  /\ fill \in [Cells -> Fills \cup Highlights]
  /\ sheets \subseteq Sheets
  /\ saved \in Seq(SavedFills)
  /\ DOMAIN op = Clicks
  /\ \A n \in Clicks : Orderly(op[n])
  /\ \A n \in Clicks : n > clicks => op[n] = NotClicked
  /\ clicks \in 0 .. MaxClicks
  /\ user \in [Cells -> Fills]
  /\ lost \subseteq Cells

\* Outside what is lost, a cell is the business of one click, or it is saved
\* and no trace is under way.
OwnerInv ==
  /\ \A n \in Clicks : Claims(op[n]) \cap SavedCells \subseteq lost
  /\ \A n, m \in Clicks : n # m => Claims(op[n]) \cap Claims(op[m]) \subseteq lost
  /\ \A n \in Clicks : op[n].paint # <<>> => SavedCells \subseteq lost
  /\ \A n, m \in Clicks :
       n # m /\ op[n].paint # <<>> /\ op[m].paint # <<>> => Claims(op[n]) \subseteq lost

Safe(c) == c \notin lost /\ SheetOf[c] \in sheets

\* What is saved, or was painted by a click under way, is highlighted.
PaintedInv ==
  /\ \A c \in SavedCells : Safe(c) => fill[c] \in Highlights
  /\ \A n \in Clicks : \A c \in Remembers(op[n]) \ Unpainted(op[n]) :
       Safe(c) => fill[c] \in Highlights

Right(item) == item.color = Read(user[item.cell])

\* What is remembered of a cell is what people gave it.
MemoryInv ==
  /\ \A item \in Range(saved) : Safe(item.cell) => Right(item)
  /\ \A n \in Clicks :
       /\ \A item \in Range(op[n].next) : Safe(item.cell) => Right(item)
       /\ \A item \in Range(op[n].toRestore) :
            item.cell \in Restores(op[n]) /\ Safe(item.cell) => Right(item)

Inv == TypeInv /\ OwnerInv /\ PaintedInv /\ MemoryInv /\ FillsAreRecoverable

\* The fill people gave c, as a list remembers it.
Memory(c) == [cell |-> c, color |-> Read(user[c])]

KnownTo(o, c) ==
  \/ c \in Restores(o) /\ Memory(c) \in Range(o.toRestore)
  \/ Memory(c) \in Range(o.next)

LEMMA KnownIs ==
  ASSUME NEW c
  PROVE  Known(c) <=> Memory(c) \in Range(saved) \/ \E n \in Clicks : KnownTo(op[n], c)
  BY DEF Known, KnownTo, Memory, Restoring, Restores

LEMMA KnownNextIs ==
  ASSUME NEW c
  PROVE  Known(c)' <=> Memory(c)' \in Range(saved') \/ \E n \in Clicks : KnownTo(op[n], c)'
  BY DEF Known, KnownTo, Memory, Restoring, Restores, Clicks

\* Who knows a fill has business with the cell, or has saved it.
LEMMA KnownToClaims ==
  ASSUME NEW o, Orderly(o), NEW c, KnownTo(o, c)
  PROVE  c \in Claims(o)
<1>1. c \notin Restores(o) => Memory(c) \in Range(o.next)
  BY DEF KnownTo
<1>2. o.next \in Seq(SavedFills) /\ Memory(c).cell = c
  BY DEF Orderly, Op, Memory
<1>3. Memory(c) \in Range(o.next) => c \in Remembers(o)
  BY <1>2, CellsOfList DEF Remembers
<1>. QED BY <1>1, <1>3 DEF Claims

LEMMA SavedIsKnown ==
  ASSUME TypeInv
  PROVE  /\ SavedCells \subseteq Cells
         /\ \A c : c \in SavedCells <=> \E item \in Range(saved) : item.cell = c
         /\ \A c : Memory(c) \in Range(saved) => c \in SavedCells
<1>1. saved \in Seq(SavedFills)
  BY DEF TypeInv
<1>2. SavedCells \subseteq Cells /\ \A c : c \in SavedCells <=> \E item \in Range(saved) : item.cell = c
  BY <1>1, CellsOfList DEF SavedCells
<1>3. \A c : Memory(c).cell = c
  BY DEF Memory
<1>. QED BY <1>2, <1>3

\* A click that is not running has no business with any cell.
LEMMA BusyClaims ==
  ASSUME TypeInv
  PROVE  \A n \in Clicks : Claims(op[n]) \subseteq Busy
<1>. TAKE n \in Clicks
<1>1. CASE Running(n)
  <2>1. Claims(op[n]) = Restoring(n) \cup Painted(n) \cup ToPaint(n)
    BY DEF Claims, Restores, Remembers, Paints, Restoring, Painted, ToPaint
  <2>. QED BY <1>1, <2>1 DEF Busy
<1>2. CASE ~Running(n)
  <2>1. op[n] = NotClicked \/ op[n] = Done
    BY <1>2 DEF Running, TypeInv, Orderly
  <2>2. Claims(op[n]) = {}
    BY <2>1, Idle
  <2>. QED BY <2>2
<1>. QED BY <1>1, <1>2

LEMMA InitSatisfiesInv ==
  Init => Inv
<1>. SUFFICES ASSUME Init PROVE Inv
  OBVIOUS
<1>1. /\ fill \in [Cells -> Fills] /\ sheets = Sheets /\ saved = <<>> /\ clicks = 0
      /\ op = [n \in Clicks |-> NotClicked] /\ user = fill /\ lost = {}
  BY FillAssumption DEF Init
<1>2. \A n \in Clicks : op[n] = NotClicked
  BY <1>1
<1>3. \A n \in Clicks :
        /\ Orderly(op[n]) /\ Claims(op[n]) = {} /\ Remembers(op[n]) = {} /\ op[n].paint = <<>>
        /\ Range(op[n].next) = {} /\ Range(op[n].toRestore) = {}
  <2>1. NotClicked.paint = <<>>
    BY DEF NotClicked, Done
  <2>. QED BY <1>2, <2>1, Idle DEF Claims
<1>4. SavedCells = {} /\ Range(saved) = {} /\ saved \in Seq(SavedFills)
  BY <1>1, EmptyList DEF SavedCells
<1>5. TypeInv
  BY <1>1, <1>2, <1>3, <1>4, TraceBounds DEF TypeInv
<1>6. OwnerInv
  BY <1>3, <1>4 DEF OwnerInv
<1>7. PaintedInv
  BY <1>3, <1>4 DEF PaintedInv
<1>8. MemoryInv
  BY <1>3, <1>4 DEF MemoryInv
<1>9. FillsAreRecoverable
  BY <1>1 DEF FillsAreRecoverable
<1>. QED BY <1>5, <1>6, <1>7, <1>8, <1>9 DEF Inv

-----------------------------------------------------------------------------
(* The click that starts.                                                    *)

\* Only click n changes, to q.
Moves(n, q) == op' = [op EXCEPT ![n] = q]

LEMMA Moved ==
  ASSUME TypeInv, NEW n \in Clicks, NEW q, Moves(n, q), Orderly(q)
  PROVE  /\ DOMAIN op' = Clicks /\ op'[n] = q
         /\ \A m \in Clicks : m # n => op'[m] = op[m]
         /\ \A m \in Clicks : Orderly(op'[m])
<1>1. DOMAIN op = Clicks /\ \A m \in Clicks : Orderly(op[m])
  BY DEF TypeInv
<1>2. DOMAIN op' = Clicks /\ op'[n] = q /\ \A m \in Clicks : m # n => op'[m] = op[m]
  BY <1>1 DEF Moves
<1>. QED BY <1>1, <1>2

BatchCells(batches) == UNION {Range(batches[i].cells) : i \in DOMAIN batches}

\* The click takes over what was saved, so nobody forgets a fill.
LEMMA ClickKeepsInv ==
  ASSUME Inv, NEW batches \in Seq(Batch), Apart(batches), Click(batches),
         lost \subseteq lost', lost' \subseteq Cells,
         \A m \in Clicks : Claims(op[m]) \cap BatchCells(batches) \subseteq lost',
         batches # <<>> =>
           \A m \in Clicks : op[m].paint # <<>> =>
             Claims(op[m]) \subseteq lost' /\ Claims(op'[clicks + 1]) \subseteq lost'
  PROVE  Inv'
<1>. DEFINE n == clicks + 1
            q == Started(batches)
<1>1. /\ TypeInv /\ OwnerInv /\ PaintedInv /\ MemoryInv /\ FillsAreRecoverable
  BY DEF Inv
<1>2. /\ clicks < MaxClicks /\ clicks' = n /\ Moves(n, q) /\ saved' = <<>>
      /\ UNCHANGED <<fill, sheets, user>>
  BY DEF Click, Moves, Started
<1>3. n \in Clicks /\ n > clicks /\ clicks \in Nat /\ n \in 0 .. MaxClicks /\ saved \in Seq(SavedFills)
  BY <1>1, <1>2, TraceBounds DEF TypeInv, Clicks
<1>4. /\ Orderly(q) /\ Unpainted(q) = {} /\ Remembers(q) = {} /\ Range(q.next) = {}
      /\ Restores(q) = SavedCells /\ q.paint = batches
      /\ q.toRestore = saved \/ (Restores(q) = {} /\ Range(q.toRestore) = {})
  BY <1>3, ClickStarts
<1>5. op[n] = NotClicked /\ Claims(op[n]) = {} /\ ~ \E c : KnownTo(op[n], c)
  <2>1. op[n] = NotClicked
    BY <1>1, <1>3 DEF TypeInv
  <2>. QED BY <2>1, Idle, KnownToClaims
<1>. HIDE DEF q
<1>6. /\ DOMAIN op' = Clicks /\ op'[n] = q /\ \A m \in Clicks : m # n => op'[m] = op[m]
      /\ \A m \in Clicks : Orderly(op'[m])
  BY <1>1, <1>2, <1>3, <1>4, Moved
<1>7. Claims(q) = SavedCells \cup BatchCells(batches)
  <2>1. Paints(q) = BatchCells(batches)
    BY <1>4 DEF Paints, BatchCells
  <2>. QED BY <1>4, <2>1 DEF Claims
<1>8. SavedCells' = {} /\ Range(saved') = {} /\ saved' \in Seq(SavedFills)
  BY <1>2, EmptyList DEF SavedCells
<1>. HIDE DEF n
<1>9. TypeInv'
  <2>1. \A m \in Clicks : m > n => m > clicks /\ m # n
    BY <1>3 DEF Clicks, n
  <2>2. \A m \in Clicks : m > clicks' => op'[m] = NotClicked
    BY <1>1, <1>2, <1>6, <2>1 DEF TypeInv
  <2>. QED BY <1>1, <1>2, <1>3, <1>6, <1>8, <2>2 DEF TypeInv, Clicks, Sheets, SavedFills, Highlights
<1>10. OwnerInv'
  <2>1. \A m \in Clicks : m # n => Claims(op[m]) \cap Claims(q) \subseteq lost'
    BY <1>1, <1>7 DEF OwnerInv
  <2>2. \A m, k \in Clicks : m # k => Claims(op'[m]) \cap Claims(op'[k]) \subseteq lost'
    BY <1>1, <1>6, <2>1 DEF OwnerInv
  <2>3. ASSUME NEW m \in Clicks, NEW k \in Clicks, m # k, op'[m].paint # <<>>, op'[k].paint # <<>>
        PROVE  Claims(op'[m]) \subseteq lost'
    <3>1. CASE m # n /\ k # n
      BY <1>1, <1>6, <2>3, <3>1 DEF OwnerInv
    <3>2. CASE m = n
      <4>1. op[k].paint # <<>> /\ batches # <<>>
        BY <1>4, <1>6, <2>3, <3>2
      <4>. QED BY <3>2, <4>1 DEF n
    <3>3. CASE k = n
      <4>1. op[m].paint # <<>> /\ batches # <<>> /\ op'[m] = op[m]
        BY <1>4, <1>6, <2>3, <3>3
      <4>. QED BY <4>1
    <3>. QED BY <3>1, <3>2, <3>3
  <2>. QED BY <1>8, <2>2, <2>3 DEF OwnerInv, Clicks
<1>11. PaintedInv'
  <2>1. \A c : Safe(c)' => Safe(c)
    BY <1>2 DEF Safe
  <2>2. \A m \in Clicks : \A c \in Remembers(op'[m]) \ Unpainted(op'[m]) : Safe(c)' => fill'[c] \in Highlights
    BY <1>1, <1>2, <1>4, <1>6, <2>1 DEF PaintedInv
  <2>. QED BY <1>8, <2>2 DEF PaintedInv, Clicks, Highlights
<1>12. MemoryInv'
  <2>1. \A c : Safe(c)' => Safe(c)
    BY <1>2 DEF Safe
  <2>2. \A item : Right(item)' <=> Right(item)
    BY <1>2 DEF Right, Read
  <2>3. \A item \in Range(q.toRestore) : Safe(item.cell) => Right(item)
    BY <1>1, <1>4 DEF MemoryInv
  <2>4. ASSUME NEW m \in Clicks
        PROVE  /\ \A item \in Range(op'[m].next) : Safe(item.cell)' => Right(item)'
               /\ \A item \in Range(op'[m].toRestore) :
                    item.cell \in Restores(op'[m]) /\ Safe(item.cell)' => Right(item)'
    <3>1. CASE m = n
      BY <1>4, <1>6, <2>1, <2>2, <2>3, <3>1
    <3>2. CASE m # n
      <4>1. op'[m] = op[m]
        BY <1>6, <3>2
      <4>. QED BY <1>1, <2>1, <2>2, <4>1 DEF MemoryInv
    <3>. QED BY <3>1, <3>2
  <2>. QED BY <1>8, <2>4 DEF MemoryInv, Clicks
<1>13. FillsAreRecoverable'
  <2>. SUFFICES ASSUME NEW c \in Cells, c \notin lost', SheetOf[c] \in sheets', Read(fill[c]) # Read(user[c])
                PROVE  Known(c)'
    BY <1>2 DEF FillsAreRecoverable, Read
  <2>1. Known(c)
    BY <1>1, <1>2 DEF FillsAreRecoverable
  <2>2. Memory(c)' = Memory(c) /\ \A o : KnownTo(o, c)' <=> KnownTo(o, c)
    BY <1>2 DEF Memory, KnownTo, Read
  <2>3. CASE Memory(c) \in Range(saved)
    <3>1. c \in Restores(q)
      BY <1>1, <1>4, <2>3, SavedIsKnown
    <3>2. KnownTo(q, c)
      BY <1>4, <2>3, <3>1 DEF KnownTo
    <3>. QED BY <1>3, <1>6, <2>2, <3>2, KnownNextIs DEF n, KnownTo
  <2>4. ASSUME NEW m \in Clicks, KnownTo(op[m], c)
        PROVE  Known(c)'
    <3>1. op'[m] = op[m]
      BY <1>5, <1>6, <2>4
    <3>2. KnownTo(op[m], c)'
      BY <2>2, <2>4, <3>1 DEF KnownTo
    <3>. QED BY <3>2, KnownNextIs
  <2>. QED BY <2>1, <2>3, <2>4, KnownIs
<1>. QED BY <1>9, <1>10, <1>11, <1>12, <1>13 DEF Inv

LEMMA ClickClearKeepsInv ==
  Inv /\ ClickClear => Inv'
<1>. SUFFICES ASSUME Inv, ClickClear PROVE Inv'
  OBVIOUS
<1>1. <<>> \in Seq(Batch) /\ DOMAIN <<>> = {}
  OBVIOUS
<1>2. Apart(<<>>) /\ BatchCells(<<>>) = {}
  BY <1>1 DEF Apart, BatchCells
<1>3. Click(<<>>) /\ lost' = lost /\ lost \subseteq Cells
  BY DEF ClickClear, Inv, TypeInv
<1>. QED BY <1>1, <1>2, <1>3, ClickKeepsInv

\* A trace that starts while another is under way, or reads cells that are
\* still restored, gives up what the two share.
LEMMA ClickTraceKeepsInv ==
  Inv /\ ClickTrace => Inv'
<1>. SUFFICES ASSUME Inv, ClickTrace PROVE Inv'
  OBVIOUS
<1>1. PICK t \in Traces :
        /\ Click(Batches(t))
        /\ lost' = lost \cup IF \E n \in Clicks : op[n].paint # <<>> THEN Busy'
                             ELSE Busy \cap ({t.primary} \cup Range(t.chain))
  BY DEF ClickTrace
<1>2. /\ Batches(t) \in Seq(Batch) /\ Batches(t) # <<>> /\ Apart(Batches(t))
      /\ \A i \in DOMAIN Batches(t) :
           Range(Batches(t)[i].cells) \subseteq {t.primary} \cup Range(t.chain)
  BY BatchesOfATrace
<1>3. t.primary \in Cells /\ Range(t.chain) \subseteq Cells
  BY ChainRefs, ListShape
<1>4. BatchCells(Batches(t)) \subseteq {t.primary} \cup Range(t.chain)
  BY <1>2 DEF BatchCells
<1>5. TypeInv /\ lost \subseteq Cells
  BY DEF Inv, TypeInv
<1>. DEFINE n == clicks + 1
            q == Started(Batches(t))
<1>6. n \in Clicks /\ Moves(n, q) /\ Orderly(q) /\ saved \in Seq(SavedFills)
  <2>1. clicks < MaxClicks /\ clicks \in Nat /\ saved \in Seq(SavedFills)
    BY <1>1, <1>5 DEF Click, TypeInv
  <2>2. n \in Clicks
    BY <2>1, TraceBounds DEF Clicks
  <2>3. Moves(n, q)
    BY <1>1 DEF Click, Moves, Started
  <2>. QED BY <1>2, <2>1, <2>2, <2>3, ClickStarts
<1>. HIDE DEF q
<1>7. /\ DOMAIN op' = Clicks /\ op'[n] = q /\ \A m \in Clicks : m # n => op'[m] = op[m]
      /\ \A m \in Clicks : Orderly(op'[m])
  BY <1>5, <1>6, Moved
<1>. HIDE DEF n
<1>8. \A m \in Clicks : Claims(op'[m]) \subseteq Busy'
  <2>. TAKE m \in Clicks
  <2>1. CASE Running(m)'
    <3>1. Claims(op'[m]) = Restoring(m)' \cup Painted(m)' \cup ToPaint(m)'
      BY DEF Claims, Restores, Remembers, Paints, Restoring, Painted, ToPaint
    <3>. QED BY <2>1, <3>1 DEF Busy, Clicks
  <2>2. CASE ~Running(m)'
    <3>1. op'[m] = NotClicked \/ op'[m] = Done
      BY <1>7, <2>2 DEF Running, Orderly
    <3>. QED BY <3>1, Idle
  <2>. QED BY <2>1, <2>2
<1>9. \A m \in Clicks : Claims(op[m]) \subseteq Busy
  BY <1>5, BusyClaims
<1>10. \A m \in Clicks : Claims(op[m]) \subseteq Busy'
  <2>1. op[n] = NotClicked
    <3>1. clicks \in Nat /\ n > clicks
      BY <1>5 DEF n, TypeInv
    <3>. QED BY <1>5, <1>6, <3>1 DEF TypeInv
  <2>2. Claims(op[n]) = {}
    BY <2>1, Idle
  <2>. QED BY <1>7, <1>8, <2>2
<1>11. CASE \E m \in Clicks : op[m].paint # <<>>
  <2>1. lost' = lost \cup Busy'
    BY <1>1, <1>11
  <2>2. Busy' \subseteq Cells
    <3>1. \A m \in Clicks : Claims(op'[m]) \subseteq Cells
      BY <1>7, ClaimsAreCells
    <3>2. \A m \in Clicks :
            Restoring(m)' \subseteq Cells /\ Painted(m)' \subseteq Cells /\ ToPaint(m)' \subseteq Cells
      BY <3>1 DEF Claims, Restores, Remembers, Paints, Restoring, Painted, ToPaint
    <3>. QED BY <3>2 DEF Busy, Clicks
  <2>3. \A m \in Clicks : Claims(op[m]) \subseteq lost' /\ Claims(op'[n]) \subseteq lost'
    BY <1>6, <1>8, <1>10, <2>1
  <2>. QED BY <1>1, <1>2, <1>5, <2>1, <2>2, <2>3, ClickKeepsInv DEF n
<1>12. CASE ~ \E m \in Clicks : op[m].paint # <<>>
  <2>1. lost' = lost \cup (Busy \cap ({t.primary} \cup Range(t.chain)))
    BY <1>1, <1>12
  <2>2. lost' \subseteq Cells
    BY <1>3, <1>5, <2>1
  <2>3. \A m \in Clicks : Claims(op[m]) \cap BatchCells(Batches(t)) \subseteq lost'
    BY <1>4, <1>9, <2>1
  <2>. QED BY <1>1, <1>2, <1>12, <2>1, <2>2, <2>3, ClickKeepsInv
<1>. QED BY <1>11, <1>12

-----------------------------------------------------------------------------
(* The syncs.                                                                *)

\* A click that goes on with less, or with nothing, takes nothing from others.
LEMMA OwnersKept ==
  ASSUME OwnerInv, NEW n \in Clicks, NEW q, op'[n] = q,
         \A m \in Clicks : m # n => op'[m] = op[m],
         Claims(q) \subseteq Claims(op[n]), q.paint # <<>> => op[n].paint # <<>>,
         saved' = saved, lost \subseteq lost'
  PROVE  OwnerInv'
<1>1. SavedCells' = SavedCells
  BY DEF SavedCells, CellsOf
<1>2. \A m \in Clicks :
        Claims(op'[m]) \subseteq Claims(op[m]) /\ (op'[m].paint # <<>> => op[m].paint # <<>>)
  OBVIOUS
<1>3. \A m \in Clicks : Claims(op'[m]) \cap SavedCells' \subseteq lost'
  BY <1>1, <1>2 DEF OwnerInv
<1>4. \A m, k \in Clicks : m # k => Claims(op'[m]) \cap Claims(op'[k]) \subseteq lost'
  <2>. TAKE m, k \in Clicks
  <2>1. m # k => Claims(op[m]) \cap Claims(op[k]) \subseteq lost
    BY DEF OwnerInv
  <2>. QED BY <1>2, <2>1
<1>5. \A m \in Clicks : op'[m].paint # <<>> => SavedCells' \subseteq lost'
  BY <1>1, <1>2 DEF OwnerInv
<1>6. \A m, k \in Clicks :
        m # k /\ op'[m].paint # <<>> /\ op'[k].paint # <<>> => Claims(op'[m]) \subseteq lost'
  <2>. TAKE m, k \in Clicks
  <2>1. m # k /\ op[m].paint # <<>> /\ op[k].paint # <<>> => Claims(op[m]) \subseteq lost
    BY DEF OwnerInv
  <2>. QED BY <1>2, <2>1
<1>. QED BY <1>3, <1>4, <1>5, <1>6 DEF OwnerInv, Clicks

\* The fills a restore gives.
LEMMA RestoreGives ==
  ASSUME TypeInv, NEW n \in Clicks, NEW cells, cells \subseteq Restores(op[n])
  PROVE  /\ Restore(n, cells) \in [Cells -> Fills \cup Highlights]
         /\ \A c \in Cells \ cells : Restore(n, cells)[c] = fill[c]
         /\ \A c \in Cells \cap cells :
              \E item \in Range(op[n].toRestore) :
                item.cell = c /\ Restore(n, cells)[c] = Restored(item.color)
<1>1. /\ op[n].toRestore \in Seq(SavedFills) /\ fill \in [Cells -> Fills \cup Highlights]
      /\ cells \subseteq Range(CellsOf(op[n].toRestore))
  BY DEF TypeInv, Orderly, Op
<1>2. \A c \in Cells \cap cells :
        \E item \in Range(op[n].toRestore) : item.cell = c /\ Original(op[n].toRestore, c) = item.color
  BY <1>1, OriginalIsRemembered
<1>3. \A item \in Range(op[n].toRestore) : item.color \in Fills \cup Highlights
  <2>1. Range(op[n].toRestore) \subseteq SavedFills
    BY <1>1, ListShape
  <2>. QED BY <2>1 DEF SavedFills
<1>4. \A c \in Cells \cap cells : Restored(Original(op[n].toRestore, c)) \in Fills \cup Highlights
  BY <1>2, <1>3, RestoredFills
<1>. QED BY <1>1, <1>2, <1>4 DEF Restore

LEMMA RestoreKeepsInv ==
  ASSUME Inv, NEW n \in Clicks, RestoreSync(n)
  PROVE  Inv'
<1>. DEFINE o == op[n]
            q == Onward([o EXCEPT !.restore = Tail(@)])
            group == Range(Head(o.restore))
<1>1. TypeInv /\ OwnerInv /\ PaintedInv /\ MemoryInv /\ FillsAreRecoverable /\ Orderly(o)
  BY DEF Inv, TypeInv
<1>2. /\ o.phase = "restore" /\ fill' = Restore(n, group)
      /\ UNCHANGED <<sheets, saved, clicks, user, lost>>
  BY DEF RestoreSync, bounds
<1>3. Moves(n, q)
  BY DEF Moves, RestoreSync
<1>4. /\ Orderly(q) /\ Unpainted(q) = {} /\ Claims(q) \subseteq Claims(o)
      /\ Restores(o) = group \cup Restores(q) /\ q.paint = o.paint
      /\ Range(o.next) = {} /\ Remembers(o) = {} /\ Range(q.next) = {} /\ Remembers(q) = {}
      /\ q.toRestore = o.toRestore \/ (Restores(q) = {} /\ Range(q.toRestore) = {})
  BY <1>1, <1>2, ClickRestores
<1>. HIDE DEF q
<1>5. /\ DOMAIN op' = Clicks /\ op'[n] = q /\ \A m \in Clicks : m # n => op'[m] = op[m]
      /\ \A m \in Clicks : Orderly(op'[m])
  BY <1>1, <1>3, <1>4, Moved
<1>6. group \subseteq Restores(o) /\ group \subseteq Cells /\ group \subseteq Claims(o)
  <2>1. Claims(o) \subseteq Cells
    BY <1>1, ClaimsAreCells
  <2>. QED BY <1>4, <2>1 DEF Claims
<1>7. /\ fill' \in [Cells -> Fills \cup Highlights]
      /\ \A c \in Cells \ group : fill'[c] = fill[c]
      /\ \A c \in group : \E item \in Range(o.toRestore) :
           item.cell = c /\ fill'[c] = Restored(item.color)
  BY <1>1, <1>2, <1>6, RestoreGives
<1>. HIDE DEF group
<1>8. /\ SavedCells' = SavedCells /\ SavedCells \subseteq Cells
      /\ \A c : Safe(c)' <=> Safe(c)
      /\ \A item : Right(item)' <=> Right(item)
  BY <1>1, <1>2, SavedIsKnown DEF SavedCells, CellsOf, Safe, Right, Read
<1>9. TypeInv'
  <2>1. o # NotClicked
    BY <1>2 DEF NotClicked, Done
  <2>2. \A m \in Clicks : m > clicks' => op'[m] = NotClicked
    BY <1>1, <1>2, <1>5, <2>1 DEF TypeInv
  <2>. QED BY <1>1, <1>2, <1>5, <1>7, <2>2 DEF TypeInv, Clicks, Sheets, SavedFills, Highlights
<1>10. OwnerInv'
  BY <1>1, <1>2, <1>4, <1>5, OwnersKept
<1>11. PaintedInv'
  <2>1. \A c \in SavedCells : Safe(c) => fill'[c] \in Highlights
    <3>. TAKE c \in SavedCells
    <3>1. c \in group => c \in lost
      BY <1>1, <1>6 DEF OwnerInv
    <3>. QED BY <1>1, <1>7, <1>8, <3>1 DEF PaintedInv, Safe
  <2>2. ASSUME NEW m \in Clicks, NEW c \in Remembers(op'[m]) \ Unpainted(op'[m]), Safe(c)
        PROVE  fill'[c] \in Highlights
    <3>1. m # n /\ op'[m] = op[m]
      BY <1>4, <1>5, <2>2
    <3>2. c \in Claims(op[m]) /\ c \in Cells
      BY <1>1, <2>2, <3>1, ClaimsAreCells DEF Claims, TypeInv
    <3>3. c \in group => c \in lost
      BY <1>1, <1>6, <3>1, <3>2 DEF OwnerInv
    <3>. QED BY <1>1, <1>7, <2>2, <3>1, <3>2, <3>3 DEF PaintedInv, Safe
  <2>. QED BY <1>8, <2>1, <2>2 DEF PaintedInv, Clicks, Highlights
<1>12. MemoryInv'
  <2>1. ASSUME NEW m \in Clicks
        PROVE  /\ \A item \in Range(op'[m].next) : Safe(item.cell) => Right(item)
               /\ \A item \in Range(op'[m].toRestore) :
                    item.cell \in Restores(op'[m]) /\ Safe(item.cell) => Right(item)
    <3>1. CASE m = n
      <4>1. \A item \in Range(o.toRestore) :
              item.cell \in Restores(o) /\ Safe(item.cell) => Right(item)
        BY <1>1 DEF MemoryInv
      <4>. QED BY <1>4, <1>5, <3>1, <4>1
    <3>2. CASE m # n
      <4>1. op'[m] = op[m]
        BY <1>5, <3>2
      <4>. QED BY <1>1, <4>1 DEF MemoryInv
    <3>. QED BY <3>1, <3>2
  <2>2. \A item \in Range(saved') : Safe(item.cell) => Right(item)
    BY <1>1, <1>2 DEF MemoryInv
  <2>. QED BY <1>8, <2>1, <2>2 DEF MemoryInv, Clicks
<1>13. FillsAreRecoverable'
  <2>. SUFFICES ASSUME NEW c \in Cells, Safe(c), Read(fill'[c]) # Read(user[c])
                PROVE  Known(c)'
    BY <1>2 DEF FillsAreRecoverable, Read, Safe
  <2>1. c \notin group
    <3>. SUFFICES ASSUME c \in group PROVE FALSE
      OBVIOUS
    <3>1. PICK item \in Range(o.toRestore) : item.cell = c /\ fill'[c] = Restored(item.color)
      BY <1>7
    <3>2. item.color = Read(user[c])
      BY <1>1, <1>6, <3>1 DEF MemoryInv, Right
    <3>. QED BY <3>1, <3>2, RestoredReadsTheSame
  <2>2. Known(c)
    <3>1. fill'[c] = fill[c]
      BY <1>7, <2>1
    <3>. QED BY <1>1, <3>1 DEF FillsAreRecoverable, Safe
  <2>3. Memory(c)' = Memory(c)
    BY <1>2 DEF Memory, Read
  <2>4. ASSUME NEW m \in Clicks, KnownTo(op[m], c)
        PROVE  KnownTo(op[m], c)'
    <3>1. CASE m = n
      <4>1. c \in Restores(o) /\ Memory(c) \in Range(o.toRestore)
        BY <1>4, <2>4, <3>1 DEF KnownTo
      <4>2. c \in Restores(q) /\ q.toRestore = o.toRestore
        BY <1>4, <2>1, <4>1
      <4>. QED BY <1>5, <2>3, <3>1, <4>1, <4>2 DEF KnownTo
    <3>2. CASE m # n
      <4>1. op'[m] = op[m]
        BY <1>5, <3>2
      <4>. QED BY <2>3, <2>4, <4>1 DEF KnownTo
    <3>. QED BY <3>1, <3>2
  <2>. QED BY <1>2, <2>2, <2>3, <2>4, KnownIs, KnownNextIs
<1>. QED BY <1>9, <1>10, <1>11, <1>12, <1>13 DEF Inv

\* What a trace reads is what people gave the cell: whoever painted over it
\* before would have business with it too.
LEMMA ReadKeepsInv ==
  ASSUME Inv, NEW n \in Clicks, ReadSync(n)
  PROVE  Inv'
<1>. DEFINE o == op[n]
            q == op'[n]
<1>1. TypeInv /\ OwnerInv /\ PaintedInv /\ MemoryInv /\ FillsAreRecoverable /\ Orderly(o)
  BY DEF Inv, TypeInv
<1>2. o.phase = "read" /\ UNCHANGED <<fill, sheets, saved, clicks, user, lost>>
  BY DEF ReadSync, bounds
<1>3. q = AfterReading(o)
  BY <1>1 DEF ReadSync, TypeInv, AfterReading
<1>4. Moves(n, q)
  BY <1>1 DEF Moves, ReadSync, TypeInv
<1>5. fill \in [Cells -> Fills \cup Highlights]
  BY <1>1 DEF TypeInv
<1>. HIDE DEF q
<1>6. /\ Orderly(q) /\ Unpainted(q) = Current(o) /\ Claims(q) \subseteq Claims(o)
      /\ Remembers(q) = Remembers(o) \cup Current(o) /\ Current(o) \cap Remembers(o) = {}
      /\ Restores(o) = {} /\ Restores(q) = {} /\ Current(o) \subseteq Paints(o)
      /\ Current(o) \subseteq Cells /\ q.paint = o.paint /\ o.paint # <<>>
      /\ \A item : item \in Range(q.next) <=>
           \/ item \in Range(o.next)
           \/ \E c \in Current(o) : item = [cell |-> c, color |-> Read(fill[c])]
  <2>. HIDE DEF o
  <2>. QED BY <1>1, <1>2, <1>3, <1>5, ClickReads
<1>7. /\ DOMAIN op' = Clicks /\ op'[n] = q /\ \A m \in Clicks : m # n => op'[m] = op[m]
      /\ \A m \in Clicks : Orderly(op'[m])
  BY <1>1, <1>4, <1>6, Moved
<1>8. /\ SavedCells' = SavedCells
      /\ \A c : Safe(c)' <=> Safe(c)
      /\ \A item : Right(item)' <=> Right(item)
  BY <1>2 DEF SavedCells, CellsOf, Safe, Right, Read
<1>9. TypeInv'
  <2>1. o # NotClicked
    BY <1>2 DEF NotClicked, Done
  <2>2. \A m \in Clicks : m > clicks' => op'[m] = NotClicked
    BY <1>1, <1>2, <1>7, <2>1 DEF TypeInv
  <2>. QED BY <1>1, <1>2, <1>7, <2>2 DEF TypeInv, Clicks, Sheets, SavedFills, Highlights
<1>10. OwnerInv'
  BY <1>1, <1>2, <1>6, <1>7, OwnersKept
<1>11. PaintedInv'
  <2>1. ASSUME NEW m \in Clicks, NEW c \in Remembers(op'[m]) \ Unpainted(op'[m]), Safe(c)
        PROVE  fill[c] \in Highlights
    <3>1. CASE m = n
      <4>1. c \in Remembers(o) \ Unpainted(o)
        BY <1>2, <1>6, <1>7, <2>1, <3>1 DEF Unpainted
      <4>. QED BY <1>1, <2>1, <4>1 DEF PaintedInv
    <3>2. CASE m # n
      BY <1>1, <1>7, <2>1, <3>2 DEF PaintedInv
    <3>. QED BY <3>1, <3>2
  <2>2. \A c \in SavedCells : Safe(c) => fill[c] \in Highlights
    BY <1>1 DEF PaintedInv
  <2>. QED BY <1>2, <1>8, <2>1, <2>2 DEF PaintedInv, Clicks, Highlights
<1>12. \A c \in Current(o) : Safe(c) => Read(fill[c]) = Read(user[c])
  <2>. SUFFICES ASSUME NEW c \in Current(o), Safe(c), Known(c)
                PROVE  FALSE
    BY <1>1, <1>6 DEF FillsAreRecoverable, Safe
  <2>1. c \in Claims(o)
    BY <1>6 DEF Claims
  <2>2. CASE Memory(c) \in Range(saved)
    <3>1. c \in SavedCells
      BY <1>1, <2>2, SavedIsKnown
    <3>. QED BY <1>1, <1>6, <2>1, <3>1 DEF OwnerInv, Safe
  <2>3. ASSUME NEW m \in Clicks, KnownTo(op[m], c)
        PROVE  FALSE
    <3>1. CASE m = n
      <4>1. o.next \in Seq(SavedFills) /\ Memory(c) \in Range(o.next) /\ Memory(c).cell = c
        BY <1>1, <1>6, <2>3, <3>1 DEF KnownTo, Orderly, Op, Memory
      <4>2. c \in Remembers(o)
        BY <4>1, CellsOfList DEF Remembers
      <4>. QED BY <1>6, <4>2
    <3>2. CASE m # n
      <4>1. c \in Claims(op[m])
        BY <1>1, <2>3, KnownToClaims DEF TypeInv
      <4>. QED BY <1>1, <2>1, <3>2, <4>1 DEF OwnerInv, Safe
    <3>. QED BY <3>1, <3>2
  <2>. QED BY <2>2, <2>3, KnownIs
<1>13. MemoryInv'
  <2>1. ASSUME NEW m \in Clicks
        PROVE  /\ \A item \in Range(op'[m].next) : Safe(item.cell) => Right(item)
               /\ \A item \in Range(op'[m].toRestore) :
                    item.cell \in Restores(op'[m]) /\ Safe(item.cell) => Right(item)
    <3>1. CASE m = n
      <4>1. \A item \in Range(o.next) : Safe(item.cell) => Right(item)
        BY <1>1 DEF MemoryInv
      <4>2. \A c \in Current(o) :
              Safe(c) => Right([cell |-> c, color |-> Read(fill[c])])
        BY <1>12 DEF Right
      <4>3. \A item \in Range(q.next) : Safe(item.cell) => Right(item)
        BY <1>6, <4>1, <4>2
      <4>. QED BY <1>6, <1>7, <3>1, <4>3
    <3>2. CASE m # n
      <4>1. op'[m] = op[m]
        BY <1>7, <3>2
      <4>. QED BY <1>1, <4>1 DEF MemoryInv
    <3>. QED BY <3>1, <3>2
  <2>2. \A item \in Range(saved') : Safe(item.cell) => Right(item)
    BY <1>1, <1>2 DEF MemoryInv
  <2>. QED BY <1>8, <2>1, <2>2 DEF MemoryInv, Clicks
<1>14. FillsAreRecoverable'
  <2>. SUFFICES ASSUME NEW c \in Cells, Safe(c), Read(fill[c]) # Read(user[c])
                PROVE  Known(c)'
    BY <1>2 DEF FillsAreRecoverable, Read, Safe
  <2>1. Known(c) /\ Memory(c)' = Memory(c)
    BY <1>1, <1>2 DEF FillsAreRecoverable, Safe, Memory, Read
  <2>2. ASSUME NEW m \in Clicks, KnownTo(op[m], c)
        PROVE  KnownTo(op[m], c)'
    <3>1. CASE m = n
      <4>1. Memory(c) \in Range(q.next)
        BY <1>6, <2>2, <3>1 DEF KnownTo
      <4>. QED BY <1>7, <2>1, <3>1, <4>1 DEF KnownTo
    <3>2. CASE m # n
      <4>1. op'[m] = op[m]
        BY <1>7, <3>2
      <4>. QED BY <2>1, <2>2, <4>1 DEF KnownTo
    <3>. QED BY <3>1, <3>2
  <2>. QED BY <1>2, <2>1, <2>2, KnownIs, KnownNextIs
<1>. QED BY <1>9, <1>10, <1>11, <1>13, <1>14 DEF Inv

\* A painted cell is remembered, and what the last batch leaves is saved.
LEMMA PaintKeepsInv ==
  ASSUME Inv, NEW n \in Clicks, PaintSync(n)
  PROVE  Inv'
<1>. DEFINE o == op[n]
            q == Onward([o EXCEPT !.paint = Tail(@)])
<1>1. TypeInv /\ OwnerInv /\ PaintedInv /\ MemoryInv /\ FillsAreRecoverable /\ Orderly(o)
  BY DEF Inv, TypeInv
<1>2. /\ o.phase = "paint" /\ fill' = Paint(n, Current(o))
      /\ saved' = IF Len(o.paint) = 1 THEN o.next ELSE saved
      /\ UNCHANGED <<sheets, clicks, user, lost>>
  BY DEF PaintSync, bounds, Current
<1>3. Moves(n, q)
  BY DEF Moves, PaintSync
<1>4. /\ Orderly(q) /\ Unpainted(q) = {} /\ Claims(q) \subseteq Claims(o)
      /\ Restores(o) = {} /\ Restores(q) = {} /\ o.paint # <<>>
      /\ Current(o) = Unpainted(o) /\ Current(o) \subseteq Remembers(o)
      /\ Head(o.paint).color \in Highlights
      /\ IF Len(o.paint) = 1 THEN q = Done ELSE q.next = o.next
  BY <1>1, <1>2, ClickPaints
<1>. HIDE DEF q
<1>5. /\ DOMAIN op' = Clicks /\ op'[n] = q /\ \A m \in Clicks : m # n => op'[m] = op[m]
      /\ \A m \in Clicks : Orderly(op'[m])
  BY <1>1, <1>3, <1>4, Moved
<1>6. fill \in [Cells -> Fills \cup Highlights]
  BY <1>1 DEF TypeInv
<1>7. /\ fill' \in [Cells -> Fills \cup Highlights]
      /\ \A c \in Cells : IF c \in Current(o) THEN fill'[c] \in Highlights ELSE fill'[c] = fill[c]
  BY <1>2, <1>4, <1>6 DEF Paint
<1>8. /\ \A c : Safe(c)' <=> Safe(c)
      /\ \A item : Right(item)' <=> Right(item)
  BY <1>2 DEF Safe, Right, Read
<1>9. o.next \in Seq(SavedFills) /\ Remembers(o) \subseteq Claims(o) /\ Claims(o) \subseteq Cells
  BY <1>1, ClaimsAreCells DEF Orderly, Op, Claims
<1>10. q = Done => Claims(q) = {} /\ q.paint = <<>> /\ Remembers(q) = {} /\ Range(q.next) = {}
  BY Idle DEF Done, Claims
<1>11. Len(o.paint) = 1 => SavedCells' = Remembers(o)
  BY <1>2 DEF SavedCells, Remembers, CellsOf
<1>12. Len(o.paint) # 1 => SavedCells' = SavedCells
  BY <1>2 DEF SavedCells, CellsOf
<1>13. TypeInv'
  <2>1. o # NotClicked
    BY <1>2 DEF NotClicked, Done
  <2>2. \A m \in Clicks : m > clicks' => op'[m] = NotClicked
    BY <1>1, <1>2, <1>5, <2>1 DEF TypeInv
  <2>3. saved' \in Seq(SavedFills)
    BY <1>1, <1>2, <1>9 DEF TypeInv
  <2>. QED BY <1>1, <1>2, <1>5, <1>7, <2>2, <2>3 DEF TypeInv, Clicks, Sheets, SavedFills, Highlights
<1>14. OwnerInv'
  <2>1. CASE Len(o.paint) = 1
    <3>1. q = Done /\ Claims(q) = {} /\ q.paint = <<>> /\ SavedCells' \subseteq Claims(o)
      BY <1>4, <1>9, <1>10, <1>11, <2>1
    <3>2. ASSUME NEW m \in Clicks
          PROVE  /\ Claims(op'[m]) \cap SavedCells' \subseteq lost'
                 /\ op'[m].paint # <<>> => SavedCells' \subseteq lost'
      <4>1. CASE m = n
        BY <1>5, <3>1, <4>1
      <4>2. CASE m # n
        <5>1. op'[m] = op[m] /\ Claims(op[m]) \cap Claims(o) \subseteq lost
          BY <1>1, <1>5, <4>2 DEF OwnerInv
        <5>2. op[m].paint # <<>> => Claims(o) \subseteq lost
          BY <1>1, <1>4, <4>2 DEF OwnerInv
        <5>. QED BY <1>2, <3>1, <5>1, <5>2
      <4>. QED BY <4>1, <4>2
    <3>3. \A m, k \in Clicks : m # k => Claims(op'[m]) \cap Claims(op'[k]) \subseteq lost'
      <4>. TAKE m, k \in Clicks
      <4>1. m # k => Claims(op[m]) \cap Claims(op[k]) \subseteq lost
        BY <1>1 DEF OwnerInv
      <4>. QED BY <1>2, <1>5, <3>1, <4>1
    <3>4. \A m, k \in Clicks :
            m # k /\ op'[m].paint # <<>> /\ op'[k].paint # <<>> => Claims(op'[m]) \subseteq lost'
      <4>. TAKE m, k \in Clicks
      <4>1. m # k /\ op[m].paint # <<>> /\ op[k].paint # <<>> => Claims(op[m]) \subseteq lost
        BY <1>1 DEF OwnerInv
      <4>. QED BY <1>2, <1>5, <3>1, <4>1
    <3>. QED BY <3>2, <3>3, <3>4 DEF OwnerInv, Clicks
  <2>2. CASE Len(o.paint) # 1
    BY <1>1, <1>2, <1>4, <1>5, <2>2, OwnersKept
  <2>. QED BY <2>1, <2>2
<1>15. PaintedInv'
  <2>1. \A c \in Cells : fill[c] \in Highlights => fill'[c] \in Highlights
    BY <1>7
  <2>2. \A c \in Remembers(o) : Safe(c) => fill'[c] \in Highlights
    <3>. TAKE c \in Remembers(o)
    <3>1. CASE c \in Current(o)
      BY <1>7, <1>9, <3>1
    <3>2. CASE c \notin Current(o)
      <4>1. Safe(c) => fill[c] \in Highlights
        BY <1>1, <1>4, <3>2 DEF PaintedInv
      <4>. QED BY <1>9, <2>1, <4>1
    <3>. QED BY <3>1, <3>2
  <2>3. \A c \in SavedCells : Safe(c) => fill'[c] \in Highlights
    <3>1. SavedCells \subseteq Cells
      BY <1>1, SavedIsKnown
    <3>. QED BY <1>1, <2>1, <3>1 DEF PaintedInv
  <2>4. \A c \in SavedCells' : Safe(c) => fill'[c] \in Highlights
    BY <1>11, <1>12, <2>2, <2>3
  <2>5. ASSUME NEW m \in Clicks, NEW c \in Remembers(op'[m]) \ Unpainted(op'[m]), Safe(c)
        PROVE  fill'[c] \in Highlights
    <3>1. CASE m = n
      <4>1. Remembers(q) \subseteq Remembers(o)
        BY <1>4, <1>10 DEF Remembers
      <4>. QED BY <1>5, <2>2, <2>5, <3>1, <4>1
    <3>2. CASE m # n
      <4>1. op'[m] = op[m] /\ Remembers(op[m]) \subseteq Cells
        BY <1>1, <1>5, <3>2, ClaimsAreCells DEF Claims, TypeInv
      <4>. QED BY <1>1, <2>1, <2>5, <4>1 DEF PaintedInv
    <3>. QED BY <3>1, <3>2
  <2>. QED BY <1>8, <2>4, <2>5 DEF PaintedInv, Clicks, Highlights
<1>16. MemoryInv'
  <2>1. \A item \in Range(o.next) : Safe(item.cell) => Right(item)
    BY <1>1 DEF MemoryInv
  <2>2. ASSUME NEW m \in Clicks
        PROVE  /\ \A item \in Range(op'[m].next) : Safe(item.cell) => Right(item)
               /\ \A item \in Range(op'[m].toRestore) :
                    item.cell \in Restores(op'[m]) /\ Safe(item.cell) => Right(item)
    <3>1. CASE m = n
      <4>1. Range(q.next) \subseteq Range(o.next)
        BY <1>4, <1>10
      <4>. QED BY <1>4, <1>5, <2>1, <3>1, <4>1
    <3>2. CASE m # n
      <4>1. op'[m] = op[m]
        BY <1>5, <3>2
      <4>. QED BY <1>1, <4>1 DEF MemoryInv
    <3>. QED BY <3>1, <3>2
  <2>3. \A item \in Range(saved') : Safe(item.cell) => Right(item)
    BY <1>1, <1>2, <2>1 DEF MemoryInv
  <2>. QED BY <1>8, <2>2, <2>3 DEF MemoryInv, Clicks
<1>17. FillsAreRecoverable'
  <2>. SUFFICES ASSUME NEW c \in Cells, Safe(c), Read(fill'[c]) # Read(user[c])
                PROVE  Known(c)'
    BY <1>2 DEF FillsAreRecoverable, Read, Safe
  <2>1. Memory(c)' = Memory(c)
    BY <1>2 DEF Memory, Read
  <2>2. Memory(c) \in Range(o.next) => Known(c)'
    <3>1. CASE Len(o.paint) = 1
      BY <1>2, <2>1, <3>1, KnownNextIs
    <3>2. CASE Len(o.paint) # 1
      <4>1. Memory(c) \in Range(o.next) => KnownTo(op[n], c)'
        BY <1>4, <1>5, <2>1, <3>2 DEF KnownTo
      <4>. QED BY <4>1, KnownNextIs
    <3>. QED BY <3>1, <3>2
  <2>3. CASE c \in Current(o)
    <3>1. PICK item \in Range(o.next) : item.cell = c
      BY <1>4, <1>9, <2>3, CellsOfList DEF Remembers
    <3>2. Right(item) /\ item \in SavedFills
      BY <1>1, <1>9, <3>1, ListShape DEF MemoryInv
    <3>3. item = Memory(c)
      BY <3>1, <3>2 DEF Memory, Right, SavedFills
    <3>. QED BY <2>2, <3>1, <3>3
  <2>4. CASE c \notin Current(o)
    <3>1. Known(c)
      BY <1>1, <1>7, <2>4 DEF FillsAreRecoverable, Safe
    <3>2. CASE Memory(c) \in Range(saved)
      <4>1. c \in SavedCells
        BY <1>1, <3>2, SavedIsKnown
      <4>. QED BY <1>1, <1>4, <4>1 DEF OwnerInv, Safe
    <3>3. ASSUME NEW m \in Clicks, KnownTo(op[m], c)
          PROVE  Known(c)'
      <4>1. CASE m = n
        BY <1>4, <2>2, <3>3, <4>1 DEF KnownTo
      <4>2. CASE m # n
        <5>1. op'[m] = op[m]
          BY <1>5, <4>2
        <5>2. KnownTo(op[m], c)'
          BY <2>1, <3>3, <5>1 DEF KnownTo
        <5>. QED BY <5>2, KnownNextIs
      <4>. QED BY <4>1, <4>2
    <3>. QED BY <3>1, <3>2, <3>3, KnownIs
  <2>. QED BY <2>3, <2>4
<1>. QED BY <1>13, <1>14, <1>15, <1>16, <1>17 DEF Inv

\* A sync that fails changes only cells the click restores or has read.
LEMMA FailingSyncChanges ==
  ASSUME TypeInv, NEW n \in Clicks, SyncFails(n)
  PROVE  /\ fill' \in [Cells -> Fills \cup Highlights]
         /\ \A c \in Cells \ (Restores(op[n]) \cup Remembers(op[n])) : fill'[c] = fill[c]
<1>. DEFINE o == op[n]
            cells == IF o.phase = "restore" THEN Head(o.restore) ELSE Head(o.paint).cells
<1>1. Orderly(o) /\ o \in Op /\ fill \in [Cells -> Fills \cup Highlights]
  BY DEF TypeInv, Orderly
<1>2. CASE fill' = fill
  BY <1>1, <1>2
<1>3. CASE fill' # fill
  <2>1. PICK i \in 0 .. Len(cells) - 1 :
          fill' = CASE o.phase = "restore" -> Restore(n, Range(SubSeq(cells, 1, i)))
                    [] o.phase = "read" -> fill
                    [] o.phase = "paint" -> Paint(n, Range(SubSeq(cells, 1, i)))
    BY <1>3 DEF SyncFails
  <2>2. o.phase \in {"restore", "paint", "read"}
    BY <1>1 DEF SyncFails, Running, Op, Phases
  <2>. DEFINE landed == Range(SubSeq(cells, 1, i))
  <2>3. cells \in Seq(Cells) => landed \subseteq Range(cells)
    <3>. HIDE DEF cells
    <3>. SUFFICES ASSUME cells \in Seq(Cells) PROVE landed \subseteq Range(cells)
      OBVIOUS
    <3>1. Len(cells) \in Nat /\ DOMAIN cells = 1 .. Len(cells)
      BY ListShape
    <3>2. /\ DOMAIN SubSeq(cells, 1, i) = 1 .. i
          /\ \A j \in 1 .. i : SubSeq(cells, 1, i)[j] = cells[j]
      BY <3>1
    <3>3. \A j \in 1 .. i : j \in DOMAIN cells
      BY <3>1
    <3>. QED BY <3>2, <3>3 DEF Range
  <2>. HIDE DEF landed
  <2>4. CASE o.phase = "restore"
    <3>1. o.restore # <<>> /\ o.restore \in Seq(Group)
      BY <1>1, <2>4 DEF Orderly, Op
    <3>2. Head(o.restore) \in Group /\ Range(Head(o.restore)) \subseteq Restores(o)
      BY <3>1, FirstGroup DEF Restores
    <3>3. cells = Head(o.restore) /\ cells \in Seq(Cells)
      BY <2>4, <3>2 DEF Group
    <3>4. landed \subseteq Restores(o)
      BY <2>3, <3>2, <3>3
    <3>5. fill' = Restore(n, landed)
      BY <2>1, <2>4 DEF landed
    <3>6. /\ Restore(n, landed) \in [Cells -> Fills \cup Highlights]
          /\ \A c \in Cells \ landed : Restore(n, landed)[c] = fill[c]
      BY <3>4, RestoreGives
    <3>. QED BY <3>4, <3>5, <3>6
  <2>5. CASE o.phase = "paint"
    <3>1. o.paint # <<>> /\ o.paint \in Seq(Batch) /\ Apart(o.paint) /\ Current(o) \subseteq Remembers(o)
      BY <1>1, <2>5 DEF Orderly, Op
    <3>2. Head(o.paint) \in Batch
      BY <3>1, FirstBatch
    <3>3. cells = Head(o.paint).cells /\ cells \in Seq(Cells) /\ Head(o.paint).color \in Highlights
      BY <2>5, <3>2 DEF Batch, Group
    <3>4. landed \subseteq Remembers(o)
      BY <2>3, <3>1, <3>3 DEF Current
    <3>5. fill' = Paint(n, landed)
      BY <2>1, <2>5 DEF landed
    <3>6. /\ Paint(n, landed) \in [Cells -> Fills \cup Highlights]
          /\ \A c \in Cells \ landed : Paint(n, landed)[c] = fill[c]
      BY <1>1, <3>3 DEF Paint
    <3>. QED BY <3>4, <3>5, <3>6
  <2>6. CASE o.phase = "read"
    BY <1>1, <2>1, <2>6
  <2>. QED BY <2>2, <2>4, <2>5, <2>6
<1>. QED BY <1>2, <1>3

\* Nobody knows the fills of a click that failed; all of them are given up.
LEMMA FailureKeepsInv ==
  ASSUME Inv, NEW n \in Clicks, SyncFails(n)
  PROVE  Inv'
<1>. DEFINE o == op[n]
<1>1. TypeInv /\ OwnerInv /\ PaintedInv /\ MemoryInv /\ FillsAreRecoverable /\ Orderly(o)
  BY DEF Inv, TypeInv
<1>2. /\ Moves(n, Done) /\ o.phase # "idle"
      /\ UNCHANGED <<sheets, saved, clicks, user>>
  BY DEF SyncFails, Moves, Running
<1>3. lost' = lost \cup Restores(o) \cup Remembers(o)
  BY DEF SyncFails, Restores, Remembers, Restoring, Painted
<1>4. /\ fill' \in [Cells -> Fills \cup Highlights]
      /\ \A c \in Cells : c \notin lost' => fill'[c] = fill[c]
  BY <1>1, <1>3, FailingSyncChanges
<1>5. /\ Orderly(Done) /\ Claims(Done) = {} /\ Remembers(Done) = {} /\ Done.paint = <<>>
      /\ Range(Done.next) = {} /\ Range(Done.toRestore) = {}
  BY Idle DEF Claims, Done
<1>6. /\ DOMAIN op' = Clicks /\ op'[n] = Done /\ \A m \in Clicks : m # n => op'[m] = op[m]
      /\ \A m \in Clicks : Orderly(op'[m])
  BY <1>1, <1>2, <1>5, Moved
<1>7. \A m \in Clicks : Claims(op[m]) \subseteq Cells
  BY <1>1, ClaimsAreCells DEF TypeInv
<1>8. lost \subseteq lost' /\ lost' \subseteq Cells
  BY <1>1, <1>3, <1>7 DEF TypeInv, Claims
<1>9. /\ SavedCells' = SavedCells /\ SavedCells \subseteq Cells
      /\ \A c : Safe(c)' => Safe(c) /\ c \notin lost'
      /\ \A item : Right(item)' <=> Right(item)
  BY <1>1, <1>2, <1>8, SavedIsKnown DEF SavedCells, CellsOf, Safe, Right, Read
<1>10. TypeInv'
  <2>1. o # NotClicked
    BY <1>2 DEF NotClicked, Done
  <2>2. \A m \in Clicks : m > clicks' => op'[m] = NotClicked
    BY <1>1, <1>2, <1>6, <2>1 DEF TypeInv
  <2>. QED BY <1>1, <1>2, <1>4, <1>6, <1>8, <2>2 DEF TypeInv, Clicks, Sheets, SavedFills, Highlights
<1>11. OwnerInv'
  BY <1>1, <1>2, <1>5, <1>6, <1>8, OwnersKept
<1>12. PaintedInv'
  <2>1. \A c \in SavedCells : Safe(c)' => fill'[c] \in Highlights
    BY <1>1, <1>4, <1>9 DEF PaintedInv
  <2>2. ASSUME NEW m \in Clicks, NEW c \in Remembers(op'[m]) \ Unpainted(op'[m]), Safe(c)'
        PROVE  fill'[c] \in Highlights
    <3>1. m # n /\ op'[m] = op[m]
      BY <1>5, <1>6, <2>2
    <3>2. c \in Cells
      BY <1>7, <2>2, <3>1 DEF Claims
    <3>. QED BY <1>1, <1>4, <1>9, <2>2, <3>1, <3>2 DEF PaintedInv
  <2>. QED BY <1>9, <2>1, <2>2 DEF PaintedInv, Clicks, Highlights
<1>13. MemoryInv'
  <2>1. ASSUME NEW m \in Clicks
        PROVE  /\ \A item \in Range(op'[m].next) : Safe(item.cell)' => Right(item)
               /\ \A item \in Range(op'[m].toRestore) :
                    item.cell \in Restores(op'[m]) /\ Safe(item.cell)' => Right(item)
    <3>1. CASE m = n
      BY <1>5, <1>6, <3>1
    <3>2. CASE m # n
      <4>1. op'[m] = op[m]
        BY <1>6, <3>2
      <4>. QED BY <1>1, <1>9, <4>1 DEF MemoryInv
    <3>. QED BY <3>1, <3>2
  <2>2. \A item \in Range(saved') : Safe(item.cell)' => Right(item)
    BY <1>1, <1>2, <1>9 DEF MemoryInv
  <2>. QED BY <1>9, <2>1, <2>2 DEF MemoryInv, Clicks
<1>14. FillsAreRecoverable'
  <2>. SUFFICES ASSUME NEW c \in Cells, c \notin lost', SheetOf[c] \in sheets, Read(fill'[c]) # Read(user[c])
                PROVE  Known(c)'
    BY <1>2 DEF FillsAreRecoverable, Read
  <2>1. Memory(c)' = Memory(c)
    BY <1>2 DEF Memory, Read
  <2>2. Known(c)
    BY <1>1, <1>4, <1>8 DEF FillsAreRecoverable
  <2>3. ASSUME NEW m \in Clicks, KnownTo(op[m], c)
        PROVE  KnownTo(op[m], c)'
    <3>1. CASE m = n
      <4>1. c \notin Restores(o) /\ c \notin Remembers(o)
        BY <1>3
      <4>2. o.next \in Seq(SavedFills) /\ Memory(c) \in Range(o.next) /\ Memory(c).cell = c
        BY <1>1, <2>3, <3>1, <4>1 DEF KnownTo, Orderly, Op, Memory
      <4>. QED BY <4>1, <4>2, CellsOfList DEF Remembers
    <3>2. CASE m # n
      <4>1. op'[m] = op[m]
        BY <1>6, <3>2
      <4>. QED BY <2>1, <2>3, <4>1 DEF KnownTo
    <3>. QED BY <3>1, <3>2
  <2>. QED BY <1>2, <2>1, <2>2, <2>3, KnownIs, KnownNextIs
<1>. QED BY <1>10, <1>11, <1>12, <1>13, <1>14 DEF Inv

-----------------------------------------------------------------------------
(* People.                                                                   *)

\* A fill given to a cell nobody has business with is what people gave it;
\* one given to a highlighted cell is given up.
LEMMA RecolourKeepsInv ==
  Inv /\ Recolour => Inv'
<1>. SUFFICES ASSUME Inv, Recolour PROVE Inv'
  OBVIOUS
<1>1. TypeInv /\ OwnerInv /\ PaintedInv /\ MemoryInv /\ FillsAreRecoverable
  BY DEF Inv
<1>2. PICK d \in Cells, f \in Fills :
        /\ fill' = [fill EXCEPT ![d] = f] /\ user' = [user EXCEPT ![d] = f]
        /\ lost' = IF d \in Busy \cup SavedCells THEN lost \cup {d} ELSE lost \ {d}
        /\ UNCHANGED <<sheets, saved, op, clicks>>
  BY DEF Recolour
<1>3. \A n \in Clicks : Orderly(op[n]) /\ Claims(op[n]) \subseteq Busy
  BY <1>1, BusyClaims DEF TypeInv
<1>4. fill \in [Cells -> Fills \cup Highlights] /\ user \in [Cells -> Fills]
  BY <1>1 DEF TypeInv
<1>5. /\ fill' \in [Cells -> Fills \cup Highlights] /\ user' \in [Cells -> Fills]
      /\ fill'[d] = user'[d]
      /\ \A c : c # d => fill'[c] = fill[c] /\ user'[c] = user[c]
  BY <1>2, <1>4
<1>6. \A c : c # d => (c \in lost' <=> c \in lost)
  BY <1>2
<1>7. \A c \in SavedCells : d = c => c \in lost'
  BY <1>2
<1>8. \A n \in Clicks : \A c \in Claims(op[n]) : d = c => c \in lost'
  BY <1>2, <1>3
<1>9. /\ SavedCells' = SavedCells
      /\ \A c : Safe(c)' /\ c # d => Safe(c)
      /\ \A c : Safe(c)' => c \notin lost'
  BY <1>2, <1>6 DEF SavedCells, CellsOf, Safe
<1>10. \A item : item.cell # d => (Right(item)' <=> Right(item))
  BY <1>5 DEF Right, Read
<1>11. TypeInv'
  BY <1>1, <1>2, <1>5 DEF TypeInv, Clicks, Sheets, SavedFills, Highlights
<1>12. OwnerInv'
  <2>1. \A n \in Clicks : Claims(op[n]) \cap SavedCells \subseteq lost'
    BY <1>1, <1>6, <1>7 DEF OwnerInv
  <2>2. \A n, m \in Clicks : n # m => Claims(op[n]) \cap Claims(op[m]) \subseteq lost'
    <3>. TAKE n, m \in Clicks
    <3>1. n # m => Claims(op[n]) \cap Claims(op[m]) \subseteq lost
      BY <1>1 DEF OwnerInv
    <3>. QED BY <1>6, <1>8, <3>1
  <2>3. \A n \in Clicks : op[n].paint # <<>> => SavedCells \subseteq lost'
    BY <1>1, <1>6, <1>7 DEF OwnerInv
  <2>4. \A n, m \in Clicks :
          n # m /\ op[n].paint # <<>> /\ op[m].paint # <<>> => Claims(op[n]) \subseteq lost'
    <3>. TAKE n, m \in Clicks
    <3>1. n # m /\ op[n].paint # <<>> /\ op[m].paint # <<>> => Claims(op[n]) \subseteq lost
      BY <1>1 DEF OwnerInv
    <3>. QED BY <1>6, <1>8, <3>1
  <2>. QED BY <1>2, <1>9, <2>1, <2>2, <2>3, <2>4 DEF OwnerInv, Clicks
<1>13. PaintedInv'
  <2>1. \A c \in SavedCells : Safe(c)' => fill'[c] \in Highlights
    BY <1>1, <1>5, <1>7, <1>9 DEF PaintedInv
  <2>2. \A n \in Clicks : \A c \in Remembers(op[n]) \ Unpainted(op[n]) : Safe(c)' => fill'[c] \in Highlights
    BY <1>1, <1>5, <1>8, <1>9 DEF PaintedInv, Claims
  <2>. QED BY <1>2, <1>9, <2>1, <2>2 DEF PaintedInv, Clicks, Highlights
<1>14. MemoryInv'
  <2>1. \A item \in Range(saved) : Safe(item.cell)' => Right(item)'
    <3>1. \A item \in Range(saved) : item.cell \in SavedCells
      BY <1>1, SavedIsKnown
    <3>. QED BY <1>1, <1>7, <1>9, <1>10, <3>1 DEF MemoryInv
  <2>2. ASSUME NEW n \in Clicks
        PROVE  /\ \A item \in Range(op[n].next) : Safe(item.cell)' => Right(item)'
               /\ \A item \in Range(op[n].toRestore) :
                    item.cell \in Restores(op[n]) /\ Safe(item.cell)' => Right(item)'
    <3>1. op[n].next \in Seq(SavedFills)
      BY <1>3 DEF Orderly, Op
    <3>2. \A item \in Range(op[n].next) : item.cell \in Claims(op[n])
      BY <3>1, CellsOfList DEF Claims, Remembers
    <3>3. \A item \in Range(op[n].next) : Safe(item.cell)' => Right(item)'
      BY <1>1, <1>8, <1>9, <1>10, <3>2 DEF MemoryInv
    <3>4. \A item \in Range(op[n].toRestore) :
            item.cell \in Restores(op[n]) /\ Safe(item.cell)' => Right(item)'
      BY <1>1, <1>8, <1>9, <1>10 DEF MemoryInv, Claims
    <3>. QED BY <3>3, <3>4
  <2>. QED BY <1>2, <2>1, <2>2 DEF MemoryInv, Clicks
<1>15. FillsAreRecoverable'
  <2>. SUFFICES ASSUME NEW c \in Cells, c \notin lost', SheetOf[c] \in sheets, Read(fill'[c]) # Read(user'[c])
                PROVE  Known(c)'
    BY <1>2 DEF FillsAreRecoverable, Read
  <2>1. c # d
    BY <1>5
  <2>2. Memory(c)' = Memory(c)
    BY <1>5, <2>1 DEF Memory, Read
  <2>3. Known(c)
    BY <1>1, <1>5, <1>6, <2>1 DEF FillsAreRecoverable
  <2>4. \A n \in Clicks : KnownTo(op[n], c) => KnownTo(op[n], c)'
    BY <1>2, <2>2 DEF KnownTo
  <2>. QED BY <1>2, <2>2, <2>3, <2>4, KnownIs, KnownNextIs
<1>. QED BY <1>11, <1>12, <1>13, <1>14, <1>15 DEF Inv

LEMMA DeletionKeepsInv ==
  Inv /\ DeleteSheet => Inv'
<1>. SUFFICES ASSUME Inv, DeleteSheet PROVE Inv'
  OBVIOUS
<1>1. TypeInv /\ OwnerInv /\ PaintedInv /\ MemoryInv /\ FillsAreRecoverable
  BY DEF Inv
<1>2. sheets' \subseteq sheets /\ UNCHANGED <<fill, saved, op, clicks, user, lost>>
  BY DEF DeleteSheet
<1>3. /\ SavedCells' = SavedCells
      /\ \A c : Safe(c)' => Safe(c)
      /\ \A item : Right(item)' <=> Right(item)
  BY <1>2 DEF SavedCells, CellsOf, Safe, Right, Read
<1>4. TypeInv'
  BY <1>1, <1>2 DEF TypeInv, Clicks, Sheets, SavedFills, Highlights
<1>5. OwnerInv'
  BY <1>1, <1>2, <1>3 DEF OwnerInv, Clicks
<1>6. PaintedInv'
  BY <1>1, <1>2, <1>3 DEF PaintedInv, Clicks, Highlights
<1>7. MemoryInv'
  BY <1>1, <1>2, <1>3 DEF MemoryInv, Clicks
<1>8. FillsAreRecoverable'
  <2>1. \A c : Known(c)' <=> Known(c)
    BY <1>2 DEF Known, Restoring, Clicks, Read
  <2>. QED BY <1>1, <1>2, <2>1 DEF FillsAreRecoverable, Read
<1>. QED BY <1>4, <1>5, <1>6, <1>7, <1>8 DEF Inv

-----------------------------------------------------------------------------
(* The theorems.                                                             *)

LEMMA StutteringKeepsInv ==
  Inv /\ UNCHANGED vars => Inv'
<1>. SUFFICES ASSUME Inv, UNCHANGED vars PROVE Inv'
  OBVIOUS
<1>1. TypeInv /\ OwnerInv /\ PaintedInv /\ MemoryInv /\ FillsAreRecoverable
  BY DEF Inv
<1>2. UNCHANGED <<fill, sheets, saved, op, clicks, user, lost>>
  BY DEF vars, bounds
<1>3. TypeInv'
  BY <1>1, <1>2 DEF TypeInv, Clicks, Sheets, SavedFills, Highlights
<1>4. OwnerInv'
  BY <1>1, <1>2 DEF OwnerInv, Clicks, SavedCells, CellsOf
<1>5. PaintedInv'
  BY <1>1, <1>2 DEF PaintedInv, Clicks, Highlights, SavedCells, CellsOf, Safe
<1>6. MemoryInv'
  BY <1>1, <1>2 DEF MemoryInv, Clicks, Safe, Right, Read
<1>7. FillsAreRecoverable'
  <2>1. \A c : Known(c)' <=> Known(c)
    BY <1>2 DEF Known, Restoring, Clicks, Read
  <2>. QED BY <1>1, <1>2, <2>1 DEF FillsAreRecoverable, Read
<1>. QED BY <1>3, <1>4, <1>5, <1>6, <1>7 DEF Inv

\* Every step keeps the invariant.
LEMMA NextKeepsInv ==
  Inv /\ [Next]_vars => Inv'
<1>. SUFFICES ASSUME Inv, [Next]_vars PROVE Inv'
  OBVIOUS
<1>1. CASE ClickTrace
  BY <1>1, ClickTraceKeepsInv
<1>2. CASE ClickClear
  BY <1>2, ClickClearKeepsInv
<1>3. ASSUME NEW n \in Clicks, Sync(n)
      PROVE  Inv'
  <2>1. CASE RestoreSync(n)
    BY <2>1, RestoreKeepsInv
  <2>2. CASE ReadSync(n)
    BY <2>2, ReadKeepsInv
  <2>3. CASE PaintSync(n)
    BY <2>3, PaintKeepsInv
  <2>4. CASE SyncFails(n)
    BY <2>4, FailureKeepsInv
  <2>. QED BY <1>3, <2>1, <2>2, <2>3, <2>4 DEF Sync
<1>4. CASE Recolour
  BY <1>4, RecolourKeepsInv
<1>5. CASE DeleteSheet
  BY <1>5, DeletionKeepsInv
<1>6. CASE UNCHANGED vars
  BY <1>6, StutteringKeepsInv
<1>. QED BY <1>1, <1>2, <1>3, <1>4, <1>5, <1>6 DEF Next

THEOREM InvariantHolds ==
  Spec => []Inv
<1>1. Init => Inv
  BY InitSatisfiesInv
<1>2. Inv /\ [Next]_vars => Inv'
  BY NextKeepsInv
<1>. QED BY <1>1, <1>2, PTL DEF Spec

\* The state of the highlighter and of its clicks has its types.
THEOREM TypeCorrect ==
  Spec => []TypeOK
<1>1. Inv => TypeOK
  <2>. SUFFICES ASSUME Inv PROVE TypeOK
    OBVIOUS
  <2>1. TypeInv
    BY DEF Inv
  <2>2. ASSUME NEW n \in Clicks
        PROVE  /\ op[n].phase \in {"idle", "restore", "read", "paint", "done"}
               /\ op[n].restore \in Seq(Seq(Cells))
               /\ op[n].toRestore \in Seq(SavedFills)
               /\ op[n].next \in Seq(SavedFills)
    <3>1. op[n] \in Op
      BY <2>1 DEF TypeInv, Orderly
    <3>2. op[n].restore \in Seq(Group) /\ Group \subseteq Seq(Cells)
      BY <3>1 DEF Op, Group
    <3>3. op[n].restore \in Seq(Seq(Cells))
      BY <3>2
    <3>. QED BY <3>1, <3>3 DEF Op, Phases
  <2>. QED BY <2>1, <2>2 DEF TypeInv, TypeOK
<1>. QED BY <1>1, InvariantHolds, PTL

\* Whatever clicks overlap, syncs fail and people do, outside the cells given
\* up every cell has the fill people gave it, or somebody knows that fill and
\* will restore it.
THEOREM TheDamageIsContained ==
  Spec => []FillsAreRecoverable
<1>1. Inv => FillsAreRecoverable
  BY DEF Inv
<1>. QED BY <1>1, InvariantHolds, PTL

\* hasActiveHighlight is honest: what is saved is still highlighted.
THEOREM TheHighlightIsThere ==
  Spec => []SavedIsPainted
<1>1. Inv => SavedIsPainted
  BY DEF Inv, PaintedInv, SavedIsPainted, Safe
<1>. QED BY <1>1, InvariantHolds, PTL

\* With nothing saved and no click under way, every cell not given up has the
\* fill people gave it: what NothingAltered (a promise the code breaks) leaves
\* to be true.
THEOREM OnlyLostFillsAreAltered ==
  Spec => [](saved = <<>> /\ (\A n \in Clicks : ~Running(n))
               => \A c \in Cells \ lost : SheetOf[c] \in sheets => Read(fill[c]) = Read(user[c]))
<1>. DEFINE Unaltered == saved = <<>> /\ (\A n \in Clicks : ~Running(n))
              => \A c \in Cells \ lost : SheetOf[c] \in sheets => Read(fill[c]) = Read(user[c])
<1>1. Inv => Unaltered
  <2>. SUFFICES ASSUME Inv, saved = <<>>, \A n \in Clicks : ~Running(n),
                       NEW c \in Cells, Safe(c), Known(c)
                PROVE  FALSE
    BY DEF Inv, FillsAreRecoverable, Safe
  <2>1. Memory(c) \notin Range(saved)
    BY EmptyList
  <2>2. ASSUME NEW n \in Clicks PROVE ~KnownTo(op[n], c)
    <3>1. Orderly(op[n]) /\ (op[n] = NotClicked \/ op[n] = Done)
      BY DEF Inv, TypeInv, Orderly, Running
    <3>2. Claims(op[n]) = {}
      BY <3>1, Idle
    <3>. QED BY <3>1, <3>2, KnownToClaims
  <2>. QED BY <2>1, <2>2, KnownIs
<1>. HIDE DEF Unaltered
<1>2. Spec => []Unaltered
  BY <1>1, InvariantHolds, PTL
<1>. QED BY <1>2 DEF Unaltered
=============================================================================
