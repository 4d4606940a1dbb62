---------------------------- MODULE DataInduction ----------------------------
(***************************************************************************)
(* Induction over data: what a recursive function and a fold from the left *)
(* compute.  Op(c, a, x) is the body of the function a at x, or the step   *)
(* of a fold that has accumulated a, at the element x; c is whatever else  *)
(* it depends on.  A module that reasons about a definition takes an       *)
(* instance of this one for it.                                            *)
(***************************************************************************)
EXTENDS Integers, Sequences, SequenceTheorems, WellFoundedInduction, TLAPS

CONSTANT Op(_, _, _)

(* The definitions of the community modules that the theorems are about:   *)
(* Max of FiniteSetsExt, and the fold of SequencesExt written out.         *)
Max(S) == CHOOSE x \in S : \A y \in S : x >= y

Iter(ctx, base, s) ==
  LET iter[d \in SUBSET DOMAIN s] ==
        IF d = {} THEN base ELSE LET x == Max(d) IN Op(ctx, iter[d \ {x}], s[x])
  IN  iter

(* FoldLeft(LAMBDA a, x : Op(ctx, a, x), base, s) *)
Fold(ctx, base, s) == Iter(ctx, base, s)[DOMAIN s]

-----------------------------------------------------------------------------
(* Numbers. *)

LEMMA LeastNumber ==
  ASSUME NEW T, T \subseteq Nat, T # {}
  PROVE  \E x \in T : \A y \in T : x <= y
<1>1. PICK x \in T : \A y \in T : ~(<<y, x>> \in OpToRel(<, Nat))
  BY Zenon, NatLessThanWellFounded, WFMin
<1>2. \A y \in T : ~(y < x)
  BY <1>1 DEF OpToRel
<1> QED
  BY <1>2

(* Induction up to a bound. *)
LEMMA UpTo ==
  ASSUME NEW n \in Nat, NEW T, 0 \in T, \A i \in 0 .. n - 1 : i \in T => i + 1 \in T
  PROVE  0 .. n \subseteq T
<1> DEFINE Bad == 0 .. n \ T
<1>1. SUFFICES ASSUME Bad # {} PROVE FALSE
  OBVIOUS
<1>2. PICK x \in Bad : \A y \in Bad : x <= y
  <2>1. Bad \subseteq Nat
    OBVIOUS
  <2> QED
    BY <1>1, <2>1, LeastNumber
<1>3. x \in 1 .. n /\ x \notin T
  OBVIOUS
<1>4. x - 1 \in 0 .. n - 1 /\ x - 1 \notin Bad
  BY <1>2, <1>3
<1>5. x - 1 \in T
  BY <1>4
<1>6. (x - 1) + 1 \in T
  BY <1>4, <1>5
<1> QED
  BY <1>3, <1>6

LEMMA MaxOfRange ==
  ASSUME NEW n \in Nat, NEW d \in SUBSET (1 .. n), d # {}
  PROVE  Max(d) \in d /\ \A y \in d : y <= Max(d)
<1> DEFINE T == {n - y : y \in d}
<1>1. T \subseteq Nat /\ T # {}
  <2>1. PICK z : z \in d
    OBVIOUS
  <2>2. n - z \in T
    BY <2>1
  <2>3. \A y \in d : y \in 1 .. n
    OBVIOUS
  <2>4. \A y \in d : n - y \in Nat
    BY <2>3
  <2> QED
    BY <2>2, <2>4
<1>2. PICK t \in T : \A u \in T : t <= u
  BY <1>1, LeastNumber
<1>3. PICK x \in d : t = n - x
  OBVIOUS
<1>4. \A y \in d : x >= y
  <2> TAKE y \in d
  <2>1. n - y \in T
    OBVIOUS
  <2> QED
    BY <1>2, <1>3, <2>1
<1>5. \E z \in d : \A y \in d : z >= y
  BY <1>4
<1>6. Max(d) \in d /\ \A y \in d : Max(d) >= y
  BY <1>5 DEF Max
<1> QED
  BY <1>6

LEMMA Division ==
  ASSUME NEW m \in Nat, NEW d \in Nat \ {0}
  PROVE  m \div d \in Nat /\ m % d \in 0 .. d - 1 /\ m = d * (m \div d) + (m % d)
<1>1. m \div d \in Int /\ m % d \in 0 .. d - 1
  OBVIOUS
<1>2. m = d * (m \div d) + (m % d)
  OBVIOUS
<1>3. m \div d >= 0
  BY <1>1, <1>2
<1> QED
  BY <1>1, <1>2, <1>3

-----------------------------------------------------------------------------
(* Sequences grow at their end.                                            *)
LEMMA FrontAndLast ==
  ASSUME NEW S, NEW s \in Seq(S), s # <<>>
  PROVE  /\ SubSeq(s, 1, Len(s) - 1) \in Seq(S) /\ s[Len(s)] \in S
         /\ Len(SubSeq(s, 1, Len(s) - 1)) = Len(s) - 1
         /\ s = Append(SubSeq(s, 1, Len(s) - 1), s[Len(s)])
<1> DEFINE Front == SubSeq(s, 1, Len(s) - 1)
           Last == s[Len(s)]
<1>1. Len(s) \in Nat \ {0} /\ DOMAIN s = 1 .. Len(s)
  BY EmptySeq
<1>2. Front \in Seq(S) /\ Len(Front) = Len(s) - 1
      /\ \A i \in 1 .. Len(s) - 1 : Front[i] = s[i]
  BY <1>1, SubSeqProperties
<1>3. Last \in S
  BY <1>1
<1> DEFINE t == Append(Front, Last)
<1>4. t \in Seq(S) /\ Len(t) = Len(s)
  <2>1. t \in Seq(S) /\ Len(t) = Len(Front) + 1
    BY <1>2, <1>3, AppendProperties
  <2> QED
    BY <1>1, <1>2, <2>1
<1>5. ASSUME NEW i \in 1 .. Len(s) PROVE s[i] = t[i]
  <2>1. t[Len(Front) + 1] = Last /\ \A k \in 1 .. Len(Front) : t[k] = Front[k]
    <3> HIDE DEF Front, Last
    <3> QED
      BY <1>2, <1>3, AppendProperties
  <2>2. CASE i = Len(s)
    <3>1. Len(Front) + 1 = Len(s)
      BY <1>1, <1>2
    <3> HIDE DEF Front
    <3> QED
      BY <2>1, <2>2, <3>1
  <2>3. CASE i # Len(s)
    <3>1. i \in 1 .. Len(s) - 1
      <4>1. Len(s) \in Int
        BY <1>1
      <4> QED
        BY <2>3, <4>1
    <3> HIDE DEF Front
    <3> QED
      BY <1>2, <2>1, <3>1
  <2> QED
    BY <2>2, <2>3
<1>6. s = t
  <2> HIDE DEF t
  <2> QED
    BY <1>4, <1>5, SeqEqual
<1> QED
  BY <1>2, <1>3, <1>6

LEMMA GrowingSequences ==
  ASSUME NEW S, NEW T, <<>> \in T, \A s \in Seq(S), e \in S : s \in T => Append(s, e) \in T
  PROVE  Seq(S) \subseteq T
<1> SUFFICES ASSUME NEW q \in Seq(S) PROVE q \in T
  OBVIOUS
<1> DEFINE n == Len(q)
           p == [i \in 0 .. n |-> SubSeq(q, 1, i)]
           Good == {i \in 0 .. n : p[i] \in T}
<1>1. n \in Nat /\ DOMAIN q = 1 .. n
  OBVIOUS
<1>2. p[0] = <<>>
  BY SubSeqEmpty
<1>3. ASSUME NEW i \in 0 .. n - 1
      PROVE  p[i] \in Seq(S) /\ q[i + 1] \in S /\ p[i + 1] = Append(p[i], q[i + 1])
  <2>1. i + 1 \in 1 .. Len(q) /\ 1 \in 1 .. Len(q) /\ (i + 1) - 1 = i
    BY <1>1
  <2>2. SubSeq(q, 1, i + 1) = SubSeq(q, 1, (i + 1) - 1) \o <<q[i + 1]>>
    BY <2>1, SubSeqRecursiveSecond
  <2>3. q[i + 1] \in S /\ \A k \in 1 .. i : q[k] \in S
    BY <2>1
  <2>4. SubSeq(q, 1, i) \in Seq(S)
    BY <2>3, SubSeqProperties
  <2>5. SubSeq(q, 1, i + 1) = Append(SubSeq(q, 1, i), q[i + 1])
    BY <2>1, <2>2, <2>3, <2>4, AppendIsConcat
  <2>6. p[i] = SubSeq(q, 1, i) /\ p[i + 1] = SubSeq(q, 1, i + 1)
    OBVIOUS
  <2> QED
    BY <2>3, <2>4, <2>5, <2>6
<1>4. p[n] = q
  BY SubSeqFull
<1> HIDE DEF p
<1>5. 0 \in Good
  BY <1>2
<1>6. ASSUME NEW i \in 0 .. n - 1, i \in Good PROVE i + 1 \in Good
  <2>1. p[i] \in Seq(S) /\ q[i + 1] \in S /\ p[i + 1] = Append(p[i], q[i + 1]) /\ p[i] \in T
    BY <1>3, <1>6
  <2>2. p[i + 1] \in T /\ i + 1 \in 0 .. n
    BY <1>1, <2>1
  <2> QED
    BY <2>2
<1> HIDE DEF Good
<1>7. n \in Good
  <2>1. 0 .. n \subseteq Good
    BY <1>1, <1>5, <1>6, UpTo
  <2> QED
    BY <1>1, <2>1
<1> QED
  BY <1>4, <1>7 DEF Good

-----------------------------------------------------------------------------
(* A recursive function on a set whose elements have a rank: its value at  *)
(* x depends on its values at lower ranks only.                            *)

FoldBody(c, f, d) ==
  IF d = {} THEN c.base
  ELSE LET x == Max(d) IN Op(c.ctx, f[d \ {x}], c.seq[x])

(* The two recursions of this module: the function itself, and the one a   *)
(* fold is made of.                                                        *)
Body(c, f, x) == IF c.fold THEN FoldBody(c, f, x) ELSE Op(c.ctx, f, x)

Local(c, S, rank) ==
  \A f, g : \A x \in S :
     (\A y \in S : rank[y] < rank[x] => f[y] = g[y]) => Body(c, f, x) = Body(c, g, x)

Approx(c, S, rank, n) ==
  \E f : f = [x \in S |-> f[x]] /\ \A x \in S : rank[x] < n => f[x] = Body(c, f, x)

LEMMA Extend ==
  ASSUME NEW c, NEW S, NEW N \in Nat, NEW rank \in [S -> 0 .. N], Local(c, S, rank),
         NEW n \in Nat, Approx(c, S, rank, n)
  PROVE  Approx(c, S, rank, n + 1)
<1>1. PICK f : f = [x \in S |-> f[x]] /\ \A x \in S : rank[x] < n => f[x] = Body(c, f, x)
  BY DEF Approx
<1> DEFINE g == [x \in S |-> IF rank[x] < n THEN f[x] ELSE Body(c, f, x)]
<1>2. ASSUME NEW x \in S, rank[x] < n + 1 PROVE g[x] = Body(c, g, x)
  <2>1. \A y \in S : rank[y] < rank[x] => f[y] = g[y]
    BY <1>2
  <2>2. g[x] = IF rank[x] < n THEN f[x] ELSE Body(c, f, x)
    OBVIOUS
  <2> HIDE DEF g
  <2>3. Body(c, f, x) = Body(c, g, x)
    BY <2>1 DEF Local
  <2> QED
    BY <1>1, <2>2, <2>3
<1>3. g = [x \in S |-> g[x]]
  OBVIOUS
<1> HIDE DEF g
<1> QED
  BY <1>2, <1>3 DEF Approx

LEMMA Exists ==
  ASSUME NEW c, NEW S, NEW N \in Nat, NEW rank \in [S -> 0 .. N], Local(c, S, rank)
  PROVE  \E f : f = [x \in S |-> Body(c, f, x)]
<1> DEFINE T == {n \in Nat : Approx(c, S, rank, n)}
<1>1. 0 \in T
  <2> DEFINE f == [x \in S |-> x]
  <2>1. f = [x \in S |-> f[x]] /\ \A x \in S : ~(rank[x] < 0)
    OBVIOUS
  <2> HIDE DEF f
  <2> QED
    BY <2>1 DEF Approx
<1>2. \A i \in 0 .. (N + 1) - 1 : i \in T => i + 1 \in T
  BY Extend
<1>3. N + 1 \in T
  <2> HIDE DEF T
  <2>1. 0 .. N + 1 \subseteq T
    BY <1>1, <1>2, UpTo
  <2> QED
    BY <2>1
<1>4. PICK f : f = [x \in S |-> f[x]] /\ \A x \in S : rank[x] < N + 1 => f[x] = Body(c, f, x)
  BY <1>3 DEF Approx
<1>5. \A x \in S : f[x] = Body(c, f, x)
  BY <1>4
<1>6. f = [x \in S |-> Body(c, f, x)]
  BY <1>4, <1>5
<1> QED
  BY <1>6

(* The function a recursive definition names satisfies its equation.       *)
THEOREM Recursion ==
  ASSUME NEW ctx, NEW S, NEW N \in Nat, NEW rank \in [S -> 0 .. N],
         \A f, g : \A x \in S :
            (\A y \in S : rank[y] < rank[x] => f[y] = g[y]) => Op(ctx, f, x) = Op(ctx, g, x),
         NEW r, r = CHOOSE f : f = [x \in S |-> Op(ctx, f, x)]
  PROVE  r = [x \in S |-> Op(ctx, r, x)]
<1> DEFINE c == [fold |-> FALSE, ctx |-> ctx]
<1>1. \A f, x : Body(c, f, x) = Op(ctx, f, x)
  BY DEF Body
<1> HIDE DEF c
<1>2. Local(c, S, rank)
  BY <1>1 DEF Local
<1>3. PICK f : f = [x \in S |-> Body(c, f, x)]
  BY <1>2, Exists
<1>4. f = [x \in S |-> Op(ctx, f, x)]
  BY <1>1, <1>3
<1> QED
  BY <1>4

-----------------------------------------------------------------------------
(* Folds from the left. *)

LEMMA IterIsDefined ==
  ASSUME NEW ctx, NEW base, NEW s, NEW n \in Nat, DOMAIN s = 1 .. n
  PROVE  /\ Iter(ctx, base, s)[{}] = base
         /\ \A d \in SUBSET (1 .. n) : d # {} =>
               Iter(ctx, base, s)[d] = Op(ctx, Iter(ctx, base, s)[d \ {Max(d)}], s[Max(d)])
<1> DEFINE c == [fold |-> TRUE, ctx |-> ctx, base |-> base, seq |-> s]
           S == SUBSET (1 .. n)
           rank == [d \in S |-> IF d = {} THEN 0 ELSE Max(d)]
<1>1. \A f, d : Body(c, f, d) = IF d = {} THEN base ELSE Op(ctx, f[d \ {Max(d)}], s[Max(d)])
  BY DEF Body, FoldBody
<1>2. ASSUME NEW d \in S, d # {}
      PROVE  Max(d) \in 1 .. n /\ d \ {Max(d)} \in S /\ rank[d] = Max(d)
             /\ rank[d \ {Max(d)}] < Max(d)
  <2>1. Max(d) \in d /\ \A y \in d : y <= Max(d)
    BY <1>2, MaxOfRange
  <2> DEFINE e == d \ {Max(d)}
  <2>2. e # {} => Max(e) \in e
    BY MaxOfRange
  <2>3. e \in S /\ rank[e] = IF e = {} THEN 0 ELSE Max(e)
    OBVIOUS
  <2>4. ASSUME NEW y \in e PROVE y \in 1 .. n /\ y < Max(d)
    <3>1. y \in d /\ y # Max(d) /\ y \in 1 .. n /\ Max(d) \in 1 .. n
      BY <2>1
    <3> QED
      BY <2>1, <3>1
  <2>5. rank[d] = Max(d)
    BY <1>2
  <2>6. rank[e] < Max(d)
    <3> HIDE DEF rank
    <3>1. CASE e = {}
      <4>1. Max(d) \in 1 .. n
        BY <2>1
      <4>2. rank[e] = 0
        BY <2>3, <3>1
      <4> HIDE DEF e
      <4> QED
        BY <4>1, <4>2
    <3>2. CASE e # {}
      BY <2>2, <2>3, <2>4, <3>2
    <3> QED
      BY <3>1, <3>2
  <2> QED
    BY <2>1, <2>3, <2>5, <2>6
<1>3. rank \in [S -> 0 .. n]
  <2>1. ASSUME NEW d \in S PROVE rank[d] \in 0 .. n
    <3>1. CASE d = {}
      BY <3>1
    <3>2. CASE d # {}
      <4>1. rank[d] = Max(d) /\ Max(d) \in 1 .. n
        BY <1>2, <3>2
      <4> QED
        BY <4>1
    <3> QED
      BY <3>1, <3>2
  <2> QED
    BY <2>1
<1> HIDE DEF c
<1>4. Local(c, S, rank)
  <2> SUFFICES ASSUME NEW f, NEW g, NEW d \in S, \A e \in S : rank[e] < rank[d] => f[e] = g[e]
               PROVE  Body(c, f, d) = Body(c, g, d)
    BY DEF Local
  <2> HIDE DEF rank, S
  <2>1. CASE d = {}
    BY <1>1, <2>1
  <2>2. CASE d # {}
    <3>1. f[d \ {Max(d)}] = g[d \ {Max(d)}]
      BY <1>2, <2>2
    <3> QED
      BY <1>1, <2>2, <3>1
  <2> QED
    BY <2>1, <2>2
<1> HIDE DEF rank
<1>5. PICK f : f = [d \in S |-> Body(c, f, d)]
  BY <1>3, <1>4, Exists
<1>6. f = [d \in S |-> IF d = {} THEN base ELSE LET x == Max(d) IN Op(ctx, f[d \ {x}], s[x])]
  BY <1>1, <1>5
<1>7. Iter(ctx, base, s) =
        CHOOSE g : g = [d \in S |-> IF d = {} THEN base
                                    ELSE LET x == Max(d) IN Op(ctx, g[d \ {x}], s[x])]
  BY DEF Iter
<1> DEFINE r == Iter(ctx, base, s)
<1>8. r = [d \in S |-> IF d = {} THEN base ELSE LET x == Max(d) IN Op(ctx, r[d \ {x}], s[x])]
  BY <1>6, <1>7
<1> HIDE DEF r
<1>9. \A d \in S : r[d] = IF d = {} THEN base ELSE Op(ctx, r[d \ {Max(d)}], s[Max(d)])
  BY <1>8
<1> QED
  BY <1>9, {} \in S DEF r

(* r[i] is what the fold has accumulated after i elements.                 *)
Accumulates(r, ctx, base, s, n) ==
  /\ r[0] = base /\ r[n] = Fold(ctx, base, s)
  /\ \A i \in 1 .. n : r[i] = Op(ctx, r[i - 1], s[i])

(* A fold applies its step to one element after another, from the left.    *)
THEOREM FoldSteps ==
  ASSUME NEW ctx, NEW base, NEW s, NEW n \in Nat, DOMAIN s = 1 .. n
  PROVE  \E r : Accumulates(r, ctx, base, s, n)
<1> DEFINE r == [i \in 0 .. n |-> Iter(ctx, base, s)[1 .. i]]
<1>1. r[0] = base
  <2>1. 1 .. 0 = {} /\ 1 .. 0 \in SUBSET (1 .. n) /\ 0 \in 0 .. n
    OBVIOUS
  <2> QED
    BY <2>1, IterIsDefined
<1>2. ASSUME NEW i \in 1 .. n PROVE r[i] = Op(ctx, r[i - 1], s[i])
  <2>1. 1 .. i \in SUBSET (1 .. n) /\ 1 .. i # {} /\ i \in 1 .. i
    OBVIOUS
  <2>2. Max(1 .. i) = i
    <3>1. Max(1 .. i) \in 1 .. i /\ i <= Max(1 .. i)
      BY <2>1, MaxOfRange
    <3> QED
      BY <3>1
  <2>3. (1 .. i) \ {i} = 1 .. i - 1
    OBVIOUS
  <2>4. Iter(ctx, base, s)[1 .. i] = Op(ctx, Iter(ctx, base, s)[1 .. i - 1], s[i])
    <3> DEFINE d == 1 .. i
    <3>1. Iter(ctx, base, s)[d] = Op(ctx, Iter(ctx, base, s)[d \ {Max(d)}], s[Max(d)])
      <4>1. d \in SUBSET (1 .. n) /\ d # {}
        BY <2>1
      <4> HIDE DEF d
      <4> QED
        BY <4>1, IterIsDefined
    <3> QED
      BY <2>2, <2>3, <3>1
  <2>5. r[i] = Iter(ctx, base, s)[1 .. i] /\ r[i - 1] = Iter(ctx, base, s)[1 .. i - 1]
    OBVIOUS
  <2> QED
    BY <2>4, <2>5
<1>3. r[n] = Fold(ctx, base, s)
  BY DEF Fold
<1> HIDE DEF r
<1> QED
  BY <1>1, <1>2, <1>3 DEF Accumulates

(* A fold keeps what every step of it keeps: T[i] is what may have been    *)
(* accumulated after i elements.                                           *)
THEOREM FoldKeeps ==
  ASSUME NEW ctx, NEW base, NEW s, NEW n \in Nat, DOMAIN s = 1 .. n,
         NEW T, base \in T[0],
         \A i \in 1 .. n : \A a \in T[i - 1] : Op(ctx, a, s[i]) \in T[i]
  PROVE  Fold(ctx, base, s) \in T[n]
<1>1. PICK r : Accumulates(r, ctx, base, s, n)
  BY FoldSteps
<1> DEFINE Good == {i \in 0 .. n : r[i] \in T[i]}
<1>2. 0 \in Good
  BY <1>1 DEF Accumulates
<1>3. ASSUME NEW i \in 0 .. n - 1, i \in Good PROVE i + 1 \in Good
  <2>1. i + 1 \in 1 .. n /\ (i + 1) - 1 = i /\ r[i] \in T[i]
    BY <1>3
  <2>2. r[i + 1] = Op(ctx, r[i], s[i + 1])
    BY <1>1, <2>1 DEF Accumulates
  <2>3. Op(ctx, r[i], s[i + 1]) \in T[i + 1]
    BY <2>1
  <2> QED
    BY <2>1, <2>2, <2>3
<1> HIDE DEF Good
<1>4. n \in Good
  <2>1. 0 .. n \subseteq Good
    BY <1>2, <1>3, UpTo
  <2> QED
    BY <2>1
<1> QED
  BY <1>1, <1>4 DEF Accumulates, Good

(* One more element is one more step.                                      *)
THEOREM FoldExtends ==
  ASSUME NEW ctx, NEW base, NEW s, NEW t, NEW n \in Nat, DOMAIN s = 1 .. n,
         DOMAIN t = 1 .. n + 1, \A i \in 1 .. n : t[i] = s[i]
  PROVE  Fold(ctx, base, t) = Op(ctx, Fold(ctx, base, s), t[n + 1])
<1>1. PICK r : Accumulates(r, ctx, base, t, n + 1)
  <2>1. n + 1 \in Nat
    OBVIOUS
  <2> QED
    BY <2>1, FoldSteps
<1> DEFINE T == [i \in 0 .. n |-> {r[i]}]
<1>2. base \in T[0]
  BY <1>1 DEF Accumulates
<1>3. ASSUME NEW i \in 1 .. n, NEW a \in T[i - 1] PROVE Op(ctx, a, s[i]) \in T[i]
  <2>1. i - 1 \in 0 .. n /\ i \in 0 .. n /\ i \in 1 .. n + 1 /\ a = r[i - 1] /\ t[i] = s[i]
    OBVIOUS
  <2>2. r[i] = Op(ctx, r[i - 1], t[i])
    BY <1>1, <2>1 DEF Accumulates
  <2> QED
    BY <2>1, <2>2
<1>4. Fold(ctx, base, s) \in T[n]
  <2> HIDE DEF T
  <2> QED
    BY <1>2, <1>3, FoldKeeps
<1>5. Fold(ctx, base, s) = r[n]
  BY <1>4
<1>6. n + 1 \in 1 .. n + 1 /\ (n + 1) - 1 = n
  OBVIOUS
<1>7. r[n + 1] = Op(ctx, r[(n + 1) - 1], t[n + 1])
  BY <1>1, <1>6 DEF Accumulates
<1> QED
  BY <1>1, <1>5, <1>6, <1>7 DEF Accumulates

THEOREM FoldOfNone ==
  ASSUME NEW ctx, NEW base
  PROVE  Fold(ctx, base, <<>>) = base
<1>1. PICK r : Accumulates(r, ctx, base, <<>>, 0)
  <2>1. DOMAIN <<>> = 1 .. 0
    OBVIOUS
  <2> QED
    BY <2>1, FoldSteps
<1> QED
  BY <1>1 DEF Accumulates


THEOREM FoldAppends ==
  ASSUME NEW ctx, NEW base, NEW S, NEW s \in Seq(S), NEW e \in S
  PROVE  Fold(ctx, base, Append(s, e)) = Op(ctx, Fold(ctx, base, s), e)
<1> DEFINE n == Len(s)  t == Append(s, e)
<1>1. n \in Nat /\ DOMAIN s = 1 .. n /\ DOMAIN t = 1 .. n + 1 /\ (\A i \in 1 .. n : t[i] = s[i])
      /\ t[n + 1] = e
  OBVIOUS
<1> HIDE DEF n, t
<1>2. Fold(ctx, base, t) = Op(ctx, Fold(ctx, base, s), t[n + 1])
  BY <1>1, FoldExtends
<1> QED
  BY <1>1, <1>2 DEF t

==============================================================================
