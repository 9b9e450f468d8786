------------------------------ MODULE FoldLemmas ------------------------------
(***************************************************************************)
(* Induction along a sequence, and what FoldLeft returns. A lemma cannot   *)
(* take the operator of a fold as a parameter, so a step of a fold is a    *)
(* function g on pairs here: FoldOf(g, base, s) is the fold. A module that *)
(* uses FoldLeft shows once, with FoldOfIs, that its fold is a FoldOf.     *)
(***************************************************************************)
EXTENDS Integers, SequencesExt, FiniteSetTheorems, TLAPS

(* < on Nat is well founded, so every set of numbers has a smallest.       *)
LEMMA Smallest ==
    ASSUME NEW I \in SUBSET Nat, I # {}
    PROVE  \E m \in I : \A j \in I : m <= j
<1>1. IsWellFoundedOn({p \in Nat \X Nat : p[1] < p[2]}, Nat)
  BY NatLessThanWellFounded DEF OpToRel
<1>2. PICK m \in I : \A j \in I : ~ (<<j, m>> \in {p \in Nat \X Nat : p[1] < p[2]})
  BY <1>1, WFMin
<1>3. ASSUME NEW j \in I PROVE m <= j
  <2>1. <<j, m>> \in Nat \X Nat /\ <<j, m>>[1] = j /\ <<j, m>>[2] = m
    OBVIOUS
  <2>2. ~(j < m)
    BY <1>2, <2>1
  <2> QED BY <2>2
<1> QED BY <1>3

(* Induction: a set of numbers in place of a predicate.                    *)
LEMMA NumberInduction ==
    ASSUME NEW S \in SUBSET Nat, 0 \in S, \A n \in S : n + 1 \in S
    PROVE  \A n \in Nat : n \in S
<1> DEFINE T == Nat \ S
<1> SUFFICES ASSUME T # {} PROVE FALSE
  OBVIOUS
<1>1. PICK m \in T : \A j \in T : m <= j
  <2>1. T \in SUBSET Nat
    OBVIOUS
  <2> HIDE DEF T
  <2> QED BY <2>1, Smallest
<1>2. m \in Nat /\ m # 0 /\ m \notin S
  OBVIOUS
<1>3. m - 1 \in Nat /\ ~(m <= m - 1)
  BY <1>2
<1>4. m - 1 \in S
  BY <1>1, <1>3
<1>5. (m - 1) + 1 \in S
  BY <1>4
<1>6. (m - 1) + 1 = m
  BY <1>2
<1> QED BY <1>2, <1>5, <1>6

LEMMA FrontAndLast ==
    ASSUME NEW B, NEW t \in Seq(B), t # <<>>
    PROVE  /\ Len(t) \in Nat \ {0} /\ Front(t) \in Seq(B) /\ Last(t) \in B
           /\ t = Append(Front(t), Last(t)) /\ Len(Front(t)) = Len(t) - 1
<1>1. Len(t) \in Nat /\ Len(t) # 0
  OBVIOUS
<1>2. Front(t) \in Seq(B) /\ Len(Front(t)) = Len(t) - 1 /\ \A i \in 1..(Len(t) - 1) : Front(t)[i] = t[i]
  <2>1. Len(t) - 1 \in Nat /\ 1 \in 1..(Len(t) + 1) /\ Len(t) - 1 \in 0..Len(t)
    BY <1>1
  <2>2. SubSeq(t, 1, Len(t) - 1) \in Seq(B)
    BY <2>1
  <2>3. Len(SubSeq(t, 1, Len(t) - 1)) = Len(t) - 1
    <3>1. PICK n \in Nat : n = Len(t) - 1 /\ n <= Len(t)
      BY <1>1, <2>1, SMTT(30)
    <3>2. Len(SubSeq(t, 1, n)) = n
      BY <3>1
    <3> QED BY <3>1, <3>2
  <2>4. \A i \in 1..(Len(t) - 1) : SubSeq(t, 1, Len(t) - 1)[i] = t[i]
    BY <2>1
  <2> QED BY <2>2, <2>3, <2>4 DEF Front
<1>3. Last(t) \in B
  BY <1>1 DEF Last
<1>4. t = Append(Front(t), Last(t))
  <2>1. Append(Front(t), Last(t)) \in Seq(B) /\ Len(Append(Front(t), Last(t))) = Len(t)
    BY <1>1, <1>2, <1>3
  <2>2. ASSUME NEW i \in 1..Len(t) PROVE Append(Front(t), Last(t))[i] = t[i]
    <3>1. CASE i = Len(t)
      BY <1>1, <1>2, <3>1 DEF Last
    <3>2. CASE i # Len(t)
      BY <1>1, <1>2, <3>2
    <3> QED BY <3>1, <3>2
  <2> QED BY <2>1, <2>2
<1> QED BY <1>1, <1>2, <1>3, <1>4

(* Induction along a sequence: a set of sequences in place of a predicate. *)
LEMMA SequenceInduction ==
    ASSUME NEW B, NEW R \in SUBSET Seq(B), <<>> \in R,
           \A t \in R, b \in B : Append(t, b) \in R
    PROVE  \A t \in Seq(B) : t \in R
<1> DEFINE S == {n \in Nat : \A t \in Seq(B) : Len(t) = n => t \in R}
<1>1. 0 \in S
  OBVIOUS
<1>2. ASSUME NEW n \in S PROVE n + 1 \in S
  <2> SUFFICES ASSUME NEW t \in Seq(B), Len(t) = n + 1 PROVE t \in R
    OBVIOUS
  <2>1. t # <<>> /\ n \in Nat /\ (n + 1) - 1 = n
    OBVIOUS
  <2>2. /\ Front(t) \in Seq(B) /\ Last(t) \in B
        /\ t = Append(Front(t), Last(t)) /\ Len(Front(t)) = n
    BY <2>1, FrontAndLast
  <2>3. Front(t) \in R
    BY <2>2
  <2> QED BY <2>2, <2>3
<1>3. S \in SUBSET Nat
  OBVIOUS
<1>4. \A n \in Nat : n \in S
  <2> HIDE DEF S
  <2> QED BY <1>1, <1>2, <1>3, NumberInduction
<1> QED BY <1>4
-----------------------------------------------------------------------------
LEMMA MaxIsIn ==
    ASSUME NEW n \in Nat, NEW I \in SUBSET (1..n), I # {}
    PROVE  Max(I) \in I /\ \A j \in I : j <= Max(I)
<1> DEFINE below == {n - i : i \in I}
<1>1. below \in SUBSET Nat /\ below # {}
  <2>1. \A i \in I : n - i \in Nat
    OBVIOUS
  <2> QED BY <2>1
<1>2. PICK b \in below : \A j \in below : b <= j
  <2> HIDE DEF below
  <2> QED BY <1>1, Smallest
<1>3. PICK m \in I : b = n - m
  BY <1>2
<1>4. ASSUME NEW j \in I PROVE m >= j
  <2>1. n - j \in below
    OBVIOUS
  <2>2. b <= n - j
    BY <1>2, <2>1
  <2> QED BY <1>3, <2>2
<1>5. \E x \in I : \A y \in I : x >= y
  BY <1>4
<1>6. Max(I) \in I /\ \A y \in I : Max(I) >= y
  BY <1>5 DEF Max
<1> QED BY <1>6

LEMMA MaxOfPrefix ==
    ASSUME NEW k \in Nat \ {0}
    PROVE  (1..k) # {} /\ Max(1..k) = k /\ (1..k) \ {k} = 1..(k - 1)
<1>1. k \in 1..k /\ (1..k) \in SUBSET (1..k)
  OBVIOUS
<1>2. Max(1..k) \in 1..k /\ \A j \in 1..k : j <= Max(1..k)
  BY <1>1, MaxIsIn
<1>3. Max(1..k) = k
  BY <1>1, <1>2
<1>4. (1..k) \ {k} = 1..(k - 1)
  OBVIOUS
<1> QED BY <1>1, <1>3, <1>4

(* The function behind FoldLeft, on sets of positions.                     *)
FoldRule(g, base, s, f) ==
    f = [I \in SUBSET DOMAIN s |->
           IF I = {} THEN base ELSE g[<<f[I \ {Max(I)}], s[Max(I)]>>]]
FoldOf(g, base, s) == (CHOOSE f : FoldRule(g, base, s, f))[DOMAIN s]

(* What may be folded, and a function that knows the fold of each prefix.  *)
IsFold(A, B, g, base) == g \in [A \X B -> A] /\ base \in A
Follows(f, A, g, base, s) ==
    /\ f[{}] = base
    /\ \A k \in 1..Len(s) : f[1..(k - 1)] \in A => f[1..k] = g[<<f[1..(k - 1)], s[k]>>]

(* There is one: what it is on the first n positions is extended to n + 1. *)
LEMMA FoldExists ==
    ASSUME NEW A, NEW B, NEW g, NEW base, IsFold(A, B, g, base), NEW s \in Seq(B)
    PROVE  \E f \in [SUBSET DOMAIN s -> A] : FoldRule(g, base, s, f)
<1> DEFINE Rule(n, f) ==
             \A I \in SUBSET (1..n) :
               f[I] = IF I = {} THEN base ELSE g[<<f[I \ {Max(I)}], s[Max(I)]>>]
           S == {n \in Nat : n <= Len(s) => \E f \in [SUBSET (1..n) -> A] : Rule(n, f)}
<1>f. g \in [A \X B -> A] /\ base \in A
  BY DEF IsFold
<1>1. Len(s) \in Nat /\ DOMAIN s = 1..Len(s)
  OBVIOUS
<1>2. 0 \in S
  <2> DEFINE f == [I \in SUBSET (1..0) |-> base]
  <2>1. (1..0) = {}
    OBVIOUS
  <2>2. f \in [SUBSET (1..0) -> A]
    BY <1>f
  <2>3. Rule(0, f)
    BY <2>1
  <2> QED BY <2>2, <2>3
<1>3. ASSUME NEW n \in S PROVE n + 1 \in S
  <2> HIDE DEF Rule
  <2>0. n + 1 \in Nat
    OBVIOUS
  <2> SUFFICES ASSUME n + 1 <= Len(s)
               PROVE  \E f \in [SUBSET (1..(n + 1)) -> A] : Rule(n + 1, f)
    BY <2>0, Zenon
  <2>1. n \in Nat /\ n <= Len(s) /\ n + 1 \in 1..Len(s) /\ s[n + 1] \in B
    BY <1>1
  <2>2. PICK f \in [SUBSET (1..n) -> A] : Rule(n, f)
    BY <2>1
  <2> DEFINE m == n + 1
             h == [I \in SUBSET (1..m) |->
                     IF m \in I THEN g[<<f[I \ {m}], s[m]>>] ELSE f[I]]
  <2>m. m \in Nat /\ n < m /\ 1..n = (1..m) \ {m} /\ s[m] \in B /\ (\A j \in 1..m : j <= m)
    BY <2>1
  <2>r. \A I \in SUBSET (1..n) :
          f[I] = IF I = {} THEN base ELSE g[<<f[I \ {Max(I)}], s[Max(I)]>>]
    BY <2>2 DEF Rule
  <2> HIDE DEF m
  <2>3. ASSUME NEW I \in SUBSET (1..m)
        PROVE  /\ h[I] \in A
               /\ h[I] = IF I = {} THEN base ELSE g[<<h[I \ {Max(I)}], s[Max(I)]>>]
    <3>1. CASE m \in I
      <4>1. Max(I) \in I /\ \A j \in I : j <= Max(I)
        BY <2>m, <3>1, MaxIsIn
      <4>2. Max(I) = m
        <5>1. m <= Max(I) /\ Max(I) \in 1..m
          BY <3>1, <4>1
        <5> HIDE DEF h
        <5> QED BY <2>m, <5>1
      <4>3. I \ {m} \in SUBSET (1..n)
        BY <2>m
      <4>4. I \ {m} \in SUBSET (1..m) /\ m \notin I \ {m}
        OBVIOUS
      <4>5. h[I \ {m}] = f[I \ {m}] /\ f[I \ {m}] \in A
        BY <4>3, <4>4
      <4>6. h[I] = g[<<f[I \ {m}], s[m]>>]
        BY <3>1
      <4> QED BY <1>f, <2>m, <3>1, <4>2, <4>5, <4>6
    <3>2. CASE m \notin I
      <4>1. I \in SUBSET (1..n)
        BY <2>m, <3>2
      <4>2. h[I] = f[I] /\ f[I] \in A
        BY <3>2, <4>1
      <4>3. CASE I = {}
        BY <2>r, <4>1, <4>2, <4>3
      <4>4. CASE I # {}
        <5>1. Max(I) \in I
          BY <2>1, <4>1, <4>4, MaxIsIn
        <5>2. I \ {Max(I)} \in SUBSET (1..n) /\ I \ {Max(I)} \in SUBSET (1..m) /\ m \notin I \ {Max(I)}
          BY <3>2, <4>1
        <5>3. h[I \ {Max(I)}] = f[I \ {Max(I)}]
          BY <5>2
        <5>4. f[I] = g[<<f[I \ {Max(I)}], s[Max(I)]>>]
          BY <2>r, <4>1, <4>4
        <5> QED BY <4>2, <4>4, <5>3, <5>4
      <4> QED BY <4>3, <4>4
    <3> QED BY <3>1, <3>2
  <2>4. h \in [SUBSET (1..m) -> A]
    <3>1. h = [I \in SUBSET (1..m) |-> h[I]]
      OBVIOUS
    <3> HIDE DEF h
    <3> QED BY <2>3, <3>1
  <2>5. Rule(m, h)
    <3> HIDE DEF h
    <3> QED BY <2>3 DEF Rule
  <2> QED BY <2>4, <2>5 DEF m
<1>4. S \in SUBSET Nat
  OBVIOUS
<1>5. Len(s) \in S
  <2> HIDE DEF S
  <2> QED BY <1>1, <1>2, <1>3, <1>4, NumberInduction
<1>6. PICK f \in [SUBSET (1..Len(s)) -> A] : Rule(Len(s), f)
  <2> HIDE DEF Rule
  <2>1. Len(s) <= Len(s)
    BY <1>1
  <2> QED BY <1>5, <2>1
<1>7. FoldRule(g, base, s, f)
  BY <1>1, <1>6 DEF FoldRule
<1> QED BY <1>1, <1>6, <1>7

LEMMA FoldSteps ==
    ASSUME NEW A, NEW g, NEW base, NEW B, NEW s \in Seq(B), NEW f, FoldRule(g, base, s, f)
    PROVE  Follows(f, A, g, base, s)
<1>1. Len(s) \in Nat /\ DOMAIN s = 1..Len(s)
  OBVIOUS
<1>2. \A I \in SUBSET DOMAIN s : f[I] = IF I = {} THEN base ELSE g[<<f[I \ {Max(I)}], s[Max(I)]>>]
  BY DEF FoldRule
<1>3. ASSUME NEW k \in 1..Len(s) PROVE f[1..k] = g[<<f[1..(k - 1)], s[k]>>]
  <2>1. (1..k) \in SUBSET DOMAIN s /\ k \in Nat \ {0}
    BY <1>1
  <2>2. (1..k) # {} /\ Max(1..k) = k /\ (1..k) \ {k} = 1..(k - 1)
    BY <2>1, MaxOfPrefix
  <2>3. f[1..k] = g[<<f[(1..k) \ {Max(1..k)}], s[Max(1..k)]>>]
    BY <1>2, <2>1, <2>2
  <2> QED BY <2>2, <2>3
<1> QED BY <1>2, <1>3 DEF Follows

(* Two functions that follow the same fold agree on the prefixes.          *)
LEMMA FoldUnique ==
    ASSUME NEW A, NEW B, NEW g, NEW base, IsFold(A, B, g, base), NEW s \in Seq(B),
           NEW f, Follows(f, A, g, base, s), NEW h, Follows(h, A, g, base, s)
    PROVE  f[DOMAIN s] = h[DOMAIN s] /\ f[DOMAIN s] \in A
<1> DEFINE S == {k \in Nat : k <= Len(s) => f[1..k] = h[1..k] /\ f[1..k] \in A}
<1>f. g \in [A \X B -> A] /\ base \in A
  BY DEF IsFold
<1>1. Len(s) \in Nat /\ DOMAIN s = 1..Len(s)
  OBVIOUS
<1>2. 0 \in S
  <2>1. (1..0) = {}
    OBVIOUS
  <2> QED BY <1>f, <2>1 DEF Follows
<1>3. ASSUME NEW n \in S PROVE n + 1 \in S
  <2> SUFFICES ASSUME n + 1 <= Len(s) PROVE f[1..(n + 1)] = h[1..(n + 1)] /\ f[1..(n + 1)] \in A
    OBVIOUS
  <2> DEFINE k == n + 1
  <2>1. n \in Nat /\ n <= Len(s) /\ k \in 1..Len(s) /\ k - 1 = n /\ s[k] \in B
    BY <1>1
  <2>2. f[1..n] = h[1..n] /\ f[1..n] \in A
    BY <2>1
  <2> HIDE DEF k
  <2>3. f[1..k] = g[<<f[1..n], s[k]>>] /\ h[1..k] = g[<<f[1..n], s[k]>>]
    BY <2>1, <2>2 DEF Follows
  <2>4. f[1..k] = h[1..k] /\ f[1..k] \in A
    BY <1>f, <2>1, <2>2, <2>3
  <2> QED BY <2>4 DEF k
<1>4. S \in SUBSET Nat
  OBVIOUS
<1>5. Len(s) \in S
  <2> HIDE DEF S
  <2> QED BY <1>1, <1>2, <1>3, <1>4, NumberInduction
<1> QED BY <1>1, <1>5

(* A function that follows the fold ends like it.                          *)
LEMMA FoldOfIs ==
    ASSUME NEW A, NEW B, NEW g, NEW base, IsFold(A, B, g, base), NEW s \in Seq(B),
           NEW f, Follows(f, A, g, base, s)
    PROVE  FoldOf(g, base, s) = f[DOMAIN s] /\ FoldOf(g, base, s) \in A
<1> DEFINE h == CHOOSE x : FoldRule(g, base, s, x)
<1>1. FoldRule(g, base, s, h)
  BY FoldExists
<1> HIDE DEF h
<1>2. Follows(h, A, g, base, s)
  BY <1>1, FoldSteps
<1>3. f[DOMAIN s] = h[DOMAIN s] /\ f[DOMAIN s] \in A
  BY <1>2, FoldUnique
<1> QED BY <1>3 DEF FoldOf, h

(* A fold starts with its base and goes on one element at a time.          *)
LEMMA FoldOfEmpty ==
    ASSUME NEW A, NEW B, NEW g, NEW base, IsFold(A, B, g, base)
    PROVE  FoldOf(g, base, <<>>) = base
<1> DEFINE f == [I \in {{}} |-> base]
<1>1. PICK e \in Seq(B) : e = <<>> /\ Len(e) = 0 /\ DOMAIN e = {}
  <2>1. <<>> \in Seq(B) /\ Len(<<>>) = 0 /\ DOMAIN <<>> = {}
    OBVIOUS
  <2> QED BY <2>1, Zenon
<1>2. f[{}] = base /\ 1..0 = {}
  OBVIOUS
<1> HIDE DEF f
<1>3. Follows(f, A, g, base, e)
  BY <1>1, <1>2 DEF Follows
<1>4. FoldOf(g, base, e) = f[DOMAIN e]
  BY <1>3, FoldOfIs
<1> QED BY <1>1, <1>2, <1>4

LEMMA FoldOfTyped ==
    ASSUME NEW A, NEW B, NEW g, NEW base, IsFold(A, B, g, base), NEW s \in Seq(B)
    PROVE  FoldOf(g, base, s) \in A
<1>1. PICK f \in [SUBSET DOMAIN s -> A] : FoldRule(g, base, s, f)
  BY FoldExists
<1>2. Follows(f, A, g, base, s)
  BY <1>1, FoldSteps
<1> QED BY <1>2, FoldOfIs

LEMMA FoldOfAppend ==
    ASSUME NEW A, NEW B, NEW g, NEW base, IsFold(A, B, g, base), NEW s \in Seq(B), NEW b \in B
    PROVE  /\ FoldOf(g, base, s) \in A
           /\ FoldOf(g, base, Append(s, b)) = g[<<FoldOf(g, base, s), b>>]
<1> DEFINE t == Append(s, b)
<1>1. t \in Seq(B) /\ Len(s) \in Nat /\ Len(t) = Len(s) + 1 /\ t[Len(t)] = b
      /\ (\A k \in 1..Len(s) : k \in 1..Len(t) /\ t[k] = s[k])
      /\ DOMAIN s = 1..Len(s) /\ DOMAIN t = 1..Len(t)
  OBVIOUS
<1> HIDE DEF t
<1>2. PICK f \in [SUBSET DOMAIN t -> A] : FoldRule(g, base, t, f)
  BY <1>1, FoldExists
<1>3. Follows(f, A, g, base, t)
  BY <1>1, <1>2, FoldSteps
<1>4. FoldOf(g, base, t) = f[DOMAIN t]
  BY <1>1, <1>3, FoldOfIs
<1>5. Follows(f, A, g, base, s)
  BY <1>1, <1>3 DEF Follows
<1>6. FoldOf(g, base, s) = f[DOMAIN s] /\ FoldOf(g, base, s) \in A
  BY <1>5, FoldOfIs
<1>7. f[1..Len(t)] = g[<<f[1..Len(s)], b>>]
  <2>1. Len(t) \in 1..Len(t) /\ Len(t) - 1 = Len(s) /\ f[1..Len(s)] \in A
    BY <1>1, <1>6
  <2> QED BY <1>1, <1>3, <2>1 DEF Follows
<1> QED BY <1>1, <1>4, <1>6, <1>7 DEF t

LEMMA ConcatAppend ==
    ASSUME NEW B, NEW s \in Seq(B), NEW t \in Seq(B), NEW b \in B
    PROVE  /\ s \o Append(t, b) = Append(s \o t, b) /\ s \o t \in Seq(B)
           /\ s \o <<>> = s /\ <<>> \o s = s
<1>1. s \o Append(t, b) = Append(s \o t, b)
  <2> DEFINE l == s \o Append(t, b)
             r == Append(s \o t, b)
  <2>1. l \in Seq(B) /\ r \in Seq(B) /\ Len(l) = Len(s) + Len(t) + 1 /\ Len(r) = Len(l)
    OBVIOUS
  <2>2. ASSUME NEW i \in 1..Len(l) PROVE l[i] = r[i]
    OBVIOUS
  <2> HIDE DEF l, r
  <2>3. l = r
    BY <2>1, <2>2
  <2> QED BY <2>3 DEF l, r
<1> QED BY <1>1

(* To fold s and then t is to fold s and t in one.                         *)
LEMMA FoldOfConcat ==
    ASSUME NEW A, NEW B, NEW g, NEW base, IsFold(A, B, g, base), NEW s \in Seq(B), NEW t \in Seq(B)
    PROVE  FoldOf(g, base, s \o t) = FoldOf(g, FoldOf(g, base, s), t)
<1> DEFINE mid == FoldOf(g, base, s)
           R == {u \in Seq(B) : FoldOf(g, base, s \o u) = FoldOf(g, mid, u)}
<1>1. IsFold(A, B, g, mid)
  BY FoldOfTyped DEF IsFold
<1> HIDE DEF mid
<1>2. <<>> \in R
  <2>1. s \o <<>> = s /\ <<>> \in Seq(B)
    OBVIOUS
  <2>2. FoldOf(g, mid, <<>>) = mid
    BY <1>1, FoldOfEmpty
  <2> QED BY <2>1, <2>2 DEF mid
<1>3. ASSUME NEW u \in R, NEW b \in B PROVE Append(u, b) \in R
  <2>1. u \in Seq(B) /\ s \o u \in Seq(B) /\ s \o Append(u, b) = Append(s \o u, b)
    BY ConcatAppend
  <2>2. FoldOf(g, base, Append(s \o u, b)) = g[<<FoldOf(g, base, s \o u), b>>]
    <3>1. PICK w \in Seq(B) : w = s \o u
      BY <2>1
    <3>2. FoldOf(g, base, Append(w, b)) = g[<<FoldOf(g, base, w), b>>]
      BY FoldOfAppend
    <3> QED BY <3>1, <3>2
  <2>3. FoldOf(g, mid, Append(u, b)) = g[<<FoldOf(g, mid, u), b>>]
    BY <1>1, <2>1, FoldOfAppend
  <2>4. FoldOf(g, base, s \o u) = FoldOf(g, mid, u)
    OBVIOUS
  <2>5. FoldOf(g, base, s \o Append(u, b)) = FoldOf(g, mid, Append(u, b))
    BY <2>1, <2>2, <2>3, <2>4
  <2>6. Append(u, b) \in Seq(B)
    BY <2>1
  <2> QED BY <2>5, <2>6
<1>4. t \in R
  <2>1. R \in SUBSET Seq(B)
    OBVIOUS
  <2> HIDE DEF R
  <2> QED BY <1>2, <1>3, <2>1, SequenceInduction
<1> QED BY <1>4 DEF mid

(* How a fold is met in a module: a function on sets of positions that     *)
(* takes the step of the operator from the set without its last position.  *)
Recurs(f, A, g, base, s) ==
    /\ f[{}] = base
    /\ \A I \in SUBSET DOMAIN s :
         I # {} /\ f[I \ {Max(I)}] \in A => f[I] = g[<<f[I \ {Max(I)}], s[Max(I)]>>]

LEMMA FoldPositions ==
    ASSUME NEW B, NEW s \in Seq(B), NEW I \in SUBSET DOMAIN s, I # {}
    PROVE  s[Max(I)] \in B /\ I \ {Max(I)} \in SUBSET DOMAIN s
<1>1. Len(s) \in Nat /\ DOMAIN s = 1..Len(s)
  OBVIOUS
<1>2. Max(I) \in I
  BY <1>1, MaxIsIn
<1> QED BY <1>1, <1>2

LEMMA FoldOfRecurs ==
    ASSUME NEW A, NEW B, NEW g, NEW base, IsFold(A, B, g, base), NEW s \in Seq(B),
           NEW f, Recurs(f, A, g, base, s)
    PROVE  FoldOf(g, base, s) = f[DOMAIN s]
<1>1. Len(s) \in Nat /\ DOMAIN s = 1..Len(s)
  OBVIOUS
<1>2. ASSUME NEW k \in 1..Len(s), f[1..(k - 1)] \in A
      PROVE  f[1..k] = g[<<f[1..(k - 1)], s[k]>>]
  <2>1. (1..k) \in SUBSET DOMAIN s /\ k \in Nat \ {0}
    BY <1>1
  <2>2. (1..k) # {} /\ Max(1..k) = k /\ (1..k) \ {k} = 1..(k - 1)
    BY <2>1, MaxOfPrefix
  <2> QED BY <1>2, <2>1, <2>2 DEF Recurs
<1>3. Follows(f, A, g, base, s)
  BY <1>2 DEF Recurs, Follows
<1> QED BY <1>3, FoldOfIs
=============================================================================
