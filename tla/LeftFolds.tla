------------------------------ MODULE LeftFolds ------------------------------
(***************************************************************************)
(* Induction for FoldLeft.  The provers cannot instantiate an operator a     *)
(* theorem takes as a parameter, but they can use a theorem of an INSTANCE:  *)
(* a proof about FoldLeft(Op, base, seq) instantiates this module with the   *)
(* operator it folds and with what it wants to know after i elements.        *)
(***************************************************************************)
EXTENDS SequencesExt, NumberLemmas

CONSTANTS
  Op(_, _),       \* what is folded
  Holds(_, _, _)  \* Holds(x, i, acc): of acc after i elements; x is the context

Folded(base, seq) == FoldLeft(Op, base, seq)

\* MapThenFoldSet's recursive definition, for a fold over the indices D.
Step(base, seq, D, g) ==
  [T \in SUBSET D |-> IF T = {} THEN base ELSE Op(g[T \ {Max(T)}], seq[Max(T)])]

\* h[i] is the fold of the first i elements.
IsTrace(h, base, seq, n) ==
  h[0] = base /\ \A i \in 1 .. n : h[i] = Op(h[i - 1], seq[i])

LEMMA MaxOfPrefix ==
  ASSUME NEW k \in Nat, NEW T \in SUBSET (1 .. k), k \in T
  PROVE  Max(T) = k
<1>1. \A i \in T : k >= i
  OBVIOUS
<1>2. \A m \in T : (\A i \in T : m >= i) => m = k
  OBVIOUS
<1>. QED BY <1>1, <1>2 DEF Max

\* The recursive definition defines a function.
LEMMA StepHasFixpoint ==
  ASSUME NEW base, NEW seq
  PROVE  \A k \in Nat : \E g : g = Step(base, seq, 1 .. k, g)
<1>. DEFINE Bad == {k \in Nat : ~ \E g : g = Step(base, seq, 1 .. k, g)}
<1>1. SUFFICES ASSUME Bad # {} PROVE FALSE
  OBVIOUS
<1>2. PICK m \in Bad : \A k \in Bad : m <= k
  BY <1>1, LeastNumber
<1>3. 0 \notin Bad
  <2>. DEFINE g == [T \in SUBSET {} |-> base]
  <2>1. 1 .. 0 = {}
    OBVIOUS
  <2>2. g = Step(base, seq, {}, g)
    BY DEF Step
  <2>. QED BY <2>1, <2>2
<1>4. m \in Nat /\ m # 0
  BY <1>3
<1>5. m - 1 \in Nat /\ m - 1 \notin Bad
  BY <1>4, <1>2
<1>6. PICK g : g = Step(base, seq, 1 .. (m - 1), g)
  BY <1>5
<1>. DEFINE h == [T \in SUBSET (1 .. m) |->
                    IF m \in T THEN Op(g[T \ {m}], seq[m]) ELSE g[T]]
<1>7. \A T \in SUBSET (1 .. m) :
        h[T] = IF T = {} THEN base ELSE Op(h[T \ {Max(T)}], seq[Max(T)])
  <2>. TAKE T \in SUBSET (1 .. m)
  <2>1. CASE m \in T
    <3>1. Max(T) = m
      BY <2>1, <1>4, MaxOfPrefix
    <3>2. T \ {m} \in SUBSET (1 .. m) /\ m \notin T \ {m}
      OBVIOUS
    <3>3. h[T \ {m}] = g[T \ {m}]
      BY <3>2
    <3>. QED BY <2>1, <3>1, <3>3
  <2>2. CASE m \notin T
    <3>1. T \in SUBSET (1 .. (m - 1))
      BY <2>2, <1>4
    <3>2. g[T] = IF T = {} THEN base ELSE Op(g[T \ {Max(T)}], seq[Max(T)])
      BY <3>1, <1>6 DEF Step
    <3>3. h[T] = g[T] /\ h[T \ {Max(T)}] = g[T \ {Max(T)}]
      BY <2>2
    <3>. QED BY <3>2, <3>3
  <2>. QED BY <2>1, <2>2
<1>8. h = Step(base, seq, 1 .. m, h)
  BY <1>7 DEF Step
<1>. QED BY <1>2, <1>8

\* A fold goes through the folds of the prefixes.
LEMMA FoldHasTrace ==
  ASSUME NEW base, NEW seq, NEW n \in Nat, DOMAIN seq = 1 .. n
  PROVE  \E h : IsTrace(h, base, seq, n) /\ Folded(base, seq) = h[n]
<1>. DEFINE iter == CHOOSE g : g = Step(base, seq, 1 .. n, g)
<1>1. iter = Step(base, seq, 1 .. n, iter)
  BY StepHasFixpoint
<1>2. Folded(base, seq) = iter[1 .. n]
  BY DEF Folded, FoldLeft, MapThenFoldSet, Step
<1>. HIDE DEF iter
<1>. DEFINE h == [i \in 0 .. n |-> iter[1 .. i]]
<1>3. h[0] = base
  <2>1. 1 .. 0 = {}
    OBVIOUS
  <2>. QED BY <1>1, <2>1 DEF Step
<1>4. ASSUME NEW i \in 1 .. n PROVE h[i] = Op(h[i - 1], seq[i])
  <2>1. Max(1 .. i) = i
    <3>1. i \in Nat /\ i \in 1 .. i /\ 1 .. i \in SUBSET (1 .. i)
      OBVIOUS
    <3>. QED BY <3>1, MaxOfPrefix
  <2>2. (1 .. i) \ {i} = 1 .. (i - 1)
    OBVIOUS
  <2>3. 1 .. i \in SUBSET (1 .. n) /\ 1 .. i # {}
    OBVIOUS
  <2>4. iter[1 .. i] = Op(iter[(1 .. i) \ {Max(1 .. i)}], seq[Max(1 .. i)])
    BY <1>1, <2>3 DEF Step
  <2>5. iter[1 .. i] = Op(iter[1 .. (i - 1)], seq[i])
    BY <2>1, <2>2, <2>4
  <2>6. h[i] = iter[1 .. i] /\ h[i - 1] = iter[1 .. (i - 1)]
    OBVIOUS
  <2>. QED BY <2>5, <2>6
<1>5. Folded(base, seq) = h[n]
  BY <1>2
<1>. HIDE DEF h
<1>6. IsTrace(h, base, seq, n)
  BY <1>3, <1>4 DEF IsTrace
<1>. QED BY <1>5, <1>6

\* What holds of the base, and is kept by every element, holds of the fold.
THEOREM FoldInvariant ==
  ASSUME NEW x, NEW base, NEW seq, NEW n \in Nat, DOMAIN seq = 1 .. n,
         Holds(x, 0, base),
         \A i \in 1 .. n : \A acc :
           Holds(x, i - 1, acc) => Holds(x, i, Op(acc, seq[i]))
  PROVE  Holds(x, n, Folded(base, seq))
<1>1. PICK h : IsTrace(h, base, seq, n) /\ Folded(base, seq) = h[n]
  BY FoldHasTrace
<1>. DEFINE Bad == {i \in 0 .. n : ~Holds(x, i, h[i])}
<1>2. SUFFICES ASSUME Bad # {} PROVE FALSE
  BY <1>1
<1>3. Bad \subseteq Nat
  OBVIOUS
<1>4. PICK m \in Bad : \A k \in Bad : m <= k
  BY <1>2, <1>3, LeastNumber
<1>5. m # 0
  BY <1>1 DEF IsTrace
<1>6. m \in 1 .. n /\ m - 1 \in 0 .. n /\ Holds(x, m - 1, h[m - 1])
  BY <1>4, <1>5
<1>. QED BY <1>1, <1>4, <1>6 DEF IsTrace

\* A trace that goes on where another one is, over the same elements, ends where
\* the other one does.
LEMMA TracesMeet ==
  ASSUME NEW h, NEW b, NEW s, NEW m \in Nat, IsTrace(h, b, s, m),
         NEW k \in 0 .. m, NEW n \in Nat, k + n <= m,
         NEW g, NEW t, IsTrace(g, h[k], t, n), \A i \in 1 .. n : t[i] = s[k + i]
  PROVE  g[n] = h[k + n]
<1>. DEFINE Bad == {i \in 0 .. n : g[i] # h[k + i]}
<1>1. SUFFICES ASSUME Bad # {} PROVE FALSE
  BY DEF Bad
<1>2. Bad \subseteq Nat
  OBVIOUS
<1>3. PICK i \in Bad : \A j \in Bad : i <= j
  BY <1>1, <1>2, LeastNumber
<1>4. i # 0
  BY <1>3 DEF IsTrace
<1>5. i \in 1 .. n /\ i - 1 \in 0 .. n /\ k + i \in 1 .. m /\ k + (i - 1) = (k + i) - 1
  BY <1>3, <1>4
<1>6. g[i - 1] = h[k + (i - 1)]
  BY <1>3, <1>5
<1>7. g[i] = Op(g[i - 1], t[i]) /\ h[k + i] = Op(h[(k + i) - 1], s[k + i])
  BY <1>5 DEF IsTrace
<1>. QED BY <1>3, <1>5, <1>6, <1>7

LEMMA FoldEmpty ==
  ASSUME NEW base
  PROVE  Folded(base, <<>>) = base
<1>1. DOMAIN <<>> = 1 .. 0
  OBVIOUS
<1>2. PICK h : IsTrace(h, base, <<>>, 0) /\ Folded(base, <<>>) = h[0]
  BY <1>1, FoldHasTrace
<1>. QED BY <1>2 DEF IsTrace

\* seq is first and then rest.
IsCut(seq, m, n, first, rest) ==
  /\ m \in Nat /\ n \in Nat /\ DOMAIN seq = 1 .. (m + n)
  /\ DOMAIN first = 1 .. m /\ \A i \in 1 .. m : first[i] = seq[i]
  /\ DOMAIN rest = 1 .. n /\ \A i \in 1 .. n : rest[i] = seq[m + i]

\* A fold can be cut in two.
LEMMA FoldSplit ==
  ASSUME NEW base, NEW seq, NEW m, NEW n, NEW first, NEW rest, IsCut(seq, m, n, first, rest)
  PROVE  Folded(base, seq) = Folded(Folded(base, first), rest)
<1>. DEFINE all == m + n
<1>1. /\ all \in Nat /\ m \in Nat /\ n \in Nat
      /\ m \in 0 .. all /\ m + n <= all /\ 0 \in 0 .. all /\ 0 + m <= all /\ 0 + m = m
  BY DEF IsCut
<1>2. /\ DOMAIN seq = 1 .. all /\ DOMAIN first = 1 .. m /\ DOMAIN rest = 1 .. n
      /\ \A i \in 1 .. m : first[i] = seq[0 + i]
      /\ \A i \in 1 .. n : rest[i] = seq[m + i]
  BY <1>1 DEF IsCut
<1>3. all = m + n
  OBVIOUS
<1>. HIDE DEF all
<1>4. PICK h : IsTrace(h, base, seq, all) /\ Folded(base, seq) = h[all]
  BY <1>1, <1>2, FoldHasTrace
<1>5. PICK g : IsTrace(g, base, first, m) /\ Folded(base, first) = g[m]
  BY <1>1, <1>2, FoldHasTrace
<1>6. PICK f : IsTrace(f, g[m], rest, n) /\ Folded(g[m], rest) = f[n]
  BY <1>1, <1>2, FoldHasTrace
<1>7. g[m] = h[m]
  <2>1. IsTrace(g, h[0], first, m)
    BY <1>4, <1>5 DEF IsTrace
  <2>. QED BY <1>1, <1>2, <1>4, <2>1, TracesMeet
<1>8. f[n] = h[m + n]
  BY <1>1, <1>2, <1>4, <1>6, <1>7, TracesMeet
<1>. QED BY <1>3, <1>4, <1>5, <1>6, <1>8

\* The last element of a fold.
LEMMA FoldLast ==
  ASSUME NEW base, NEW n \in Nat, NEW seq, DOMAIN seq = 1 .. (n + 1),
         NEW first, DOMAIN first = 1 .. n, \A i \in 1 .. n : first[i] = seq[i]
  PROVE  Folded(base, seq) = Op(Folded(base, first), seq[n + 1])
<1>1. n + 1 \in Nat /\ n + 1 \in 1 .. (n + 1) /\ (n + 1) - 1 = n
  OBVIOUS
<1>2. PICK h : IsTrace(h, base, seq, n + 1) /\ Folded(base, seq) = h[n + 1]
  BY <1>1, FoldHasTrace
<1>3. PICK g : IsTrace(g, base, first, n) /\ Folded(base, first) = g[n]
  BY FoldHasTrace
<1>4. g[n] = h[n]
  <2>1. 0 \in 0 .. (n + 1) /\ 0 + n <= n + 1 /\ 0 + n = n
    OBVIOUS
  <2>2. IsTrace(g, h[0], first, n) /\ \A i \in 1 .. n : first[i] = seq[0 + i]
    BY <1>2, <1>3 DEF IsTrace
  <2>. QED BY <1>1, <1>2, <2>1, <2>2, TracesMeet
<1>. QED BY <1>1, <1>2, <1>3, <1>4 DEF IsTrace
=============================================================================
