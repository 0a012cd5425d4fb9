------------------------------ MODULE Foundations ------------------------------
(***************************************************************************)
(* What the proofs about several modules rest on and the library does not say:  *)
(* induction over the numbers, the least of a set, prefixes, the members of a     *)
(* finite set in order, and the total of a function on a finite set.               *)
(*                                                                         *)
(* The induction theorems of the library take an operator; here the property   *)
(* is a set of numbers, and its least missing element is what WFMin names.      *)
(***************************************************************************)
EXTENDS Orders, SequencesExt, FiniteSetTheorems, SequenceTheorems, WellFoundedInduction, TLAPS

(* Induction over the natural numbers, with a set where the library takes an operator. *)
LEMMA Reaches ==
  ASSUME NEW P \in SUBSET Nat, 0 \in P, \A k \in P : k + 1 \in P
  PROVE  P = Nat
<1> SUFFICES ASSUME NEW n \in Nat, n \notin P PROVE FALSE
  OBVIOUS
<1> DEFINE Rest == Nat \ P
<1>1. \E x \in Rest : \A y \in Rest : <<y, x>> \notin OpToRel(<, Nat)
  BY NatLessThanWellFounded, WFMin
<1>2. PICK x \in Nat : x \notin P /\ \A y \in Nat \ P : <<y, x>> \notin OpToRel(<, Nat)
  BY <1>1
<1>3. x # 0 /\ x - 1 \in Nat
  <2>1. x # 0
    BY <1>2
  <2> QED BY <2>1
<1>4. <<x - 1, x>> \in OpToRel(<, Nat)
  BY <1>3 DEF OpToRel
<1>5. x - 1 \in P
  BY <1>2, <1>3, <1>4
<1>6. (x - 1) + 1 \in P
  BY <1>5
<1>7. (x - 1) + 1 = x
  BY <1>3
<1> QED
  BY <1>2, <1>6, <1>7

(* A non-empty set of natural numbers has a least member. *)
LEMMA LeastExists ==
  ASSUME NEW S \in SUBSET Nat, S # {}
  PROVE  Min(S) \in S /\ \A y \in S : Min(S) <= y
<1>1. \E x \in S : \A y \in S : <<y, x>> \notin OpToRel(<, Nat)
  BY NatLessThanWellFounded, WFMin
<1>2. PICK x \in S : \A y \in S : <<y, x>> \notin OpToRel(<, Nat)
  BY <1>1
<1>3. ASSUME NEW y \in S
      PROVE  x =< y
  <2>1. <<y, x>> \in Nat \X Nat
    OBVIOUS
  <2>2. ~(y < x)
    BY <1>2, <2>1 DEF OpToRel
  <2> QED BY <2>2
<1> QED
  BY <1>3 DEF Min

(* A function on the first places is a sequence. *)
LEMMA FunctionIsSeq ==
  ASSUME NEW T, NEW n \in Nat, NEW f \in [1..n -> T]
  PROVE  f \in Seq(T) /\ Len(f) = n
  OBVIOUS
---------------------------------------------------------------------------
(* What a sequence holds. *)

Distinct(s) == \A i, j \in 1..Len(s) : s[i] = s[j] => i = j

(* The elements of a sequence are what is at its places. *)
LEMMA HeldBySeq ==
  ASSUME NEW S, NEW s \in Seq(S)
  PROVE  /\ Len(s) \in Nat /\ ToSet(s) \in SUBSET S
         /\ \A i \in 1..Len(s) : s[i] \in ToSet(s)
         /\ \A x \in ToSet(s) : \E i \in 1..Len(s) : s[i] = x
<1>1. Len(s) \in Nat /\ DOMAIN s = 1..Len(s) /\ \A i \in 1..Len(s) : s[i] \in S
  BY LenProperties
<1> QED
  BY <1>1 DEF ToSet

(* A sequence of one element. *)
LEMMA HeldByOne ==
  ASSUME NEW S, NEW x \in S
  PROVE  /\ <<x>> \in Seq(S) /\ Len(<<x>>) = 1 /\ ToSet(<<x>>) = {x} /\ Distinct(<<x>>)
         /\ <<>> \in Seq(S) /\ ToSet(<<>>) = {} /\ Distinct(<<>>)
<1>0. <<x>> \in Seq(S)
  OBVIOUS
<1>1. Len(<<x>>) = 1 /\ <<x>>[1] = x
  OBVIOUS
<1>2. <<>> \in Seq(S) /\ Len(<<>>) = 0
  BY EmptySeq
<1>3. ToSet(<<x>>) = {x} /\ Distinct(<<x>>)
  <2> DEFINE s == <<x>>
  <2>1. s \in Seq(S) /\ Len(s) = 1 /\ s[1] = x
    BY <1>0, <1>1
  <2> HIDE DEF s
  <2>2. ToSet(s) = {x} /\ Distinct(s)
    BY <2>1, HeldBySeq DEF Distinct
  <2> QED BY <2>2 DEF s
<1>4. ToSet(<<>>) = {} /\ Distinct(<<>>)
  <2> DEFINE s == <<>>
  <2>1. s \in Seq(S) /\ Len(s) = 0
    BY <1>2
  <2> HIDE DEF s
  <2>2. 1..Len(s) = {}
    BY <2>1
  <2>3. ToSet(s) = {}
    BY <2>1, <2>2, HeldBySeq
  <2>4. Distinct(s)
    BY <2>2 DEF Distinct
  <2> QED BY <2>3, <2>4 DEF s
<1> QED
  BY <1>0, <1>1, <1>2, <1>3, <1>4

(* A sequence is one of what it holds. *)
LEMMA SeqOfItself ==
  ASSUME NEW S, NEW s \in Seq(S)
  PROVE  s \in Seq(ToSet(s))
<1>1. Len(s) \in Nat /\ DOMAIN s = 1..Len(s) /\ s \in [1..Len(s) -> S]
  BY LenProperties
<1>2. s \in [1..Len(s) -> ToSet(s)]
  BY <1>1, HeldBySeq
<1> QED
  BY <1>1, <1>2, FunctionIsSeq

(* Appending adds one element. *)
LEMMA HeldByAppend ==
  ASSUME NEW S, NEW s \in Seq(S), NEW e \in S
  PROVE  /\ Append(s, e) \in Seq(S) /\ ToSet(Append(s, e)) = ToSet(s) \cup {e}
         /\ Len(Append(s, e)) = Len(s) + 1
         /\ Distinct(s) /\ e \notin ToSet(s) => Distinct(Append(s, e))
<1> DEFINE a == Append(s, e)
           n == Len(s)
<1>1. /\ n \in Nat /\ a \in Seq(S) /\ Len(a) = n + 1 /\ a[n + 1] = e
      /\ \A i \in 1..n : a[i] = s[i]
  BY AppendProperties, LenProperties
<1>2. /\ \A i \in 1..n : s[i] \in ToSet(s)
      /\ \A x \in ToSet(s) : \E i \in 1..n : s[i] = x
  BY HeldBySeq
<1>3. /\ \A i \in 1..(n + 1) : a[i] \in ToSet(a)
      /\ \A x \in ToSet(a) : \E i \in 1..(n + 1) : a[i] = x
  <2> HIDE DEF a, n
  <2> QED BY <1>1, HeldBySeq
<1> HIDE DEF a, n
<1>4. \A i \in 1..(n + 1) : i \in 1..n \/ i = n + 1
  BY <1>1
<1>5. \A i \in 1..n : i \in 1..(n + 1)
  BY <1>1
<1>6. n + 1 \in 1..(n + 1)
  BY <1>1
<1>7. ToSet(a) = ToSet(s) \cup {e}
  <2>1. ASSUME NEW x \in ToSet(a) PROVE x \in ToSet(s) \cup {e}
    BY <1>1, <1>2, <1>3, <1>4
  <2>2. ASSUME NEW x \in ToSet(s) PROVE x \in ToSet(a)
    BY <1>1, <1>2, <1>3, <1>5
  <2>3. e \in ToSet(a)
    BY <1>1, <1>3, <1>6
  <2> QED BY <2>1, <2>2, <2>3
<1>8. ASSUME Distinct(s), e \notin ToSet(s)
      PROVE  Distinct(a)
  <2> SUFFICES ASSUME NEW i \in 1..(n + 1), NEW j \in 1..(n + 1), a[i] = a[j]
               PROVE  i = j
    BY <1>1 DEF Distinct
  <2>1. CASE i \in 1..n /\ j \in 1..n
    BY <1>1, <1>8, <2>1 DEF Distinct, n
  <2>2. ~(i \in 1..n /\ j = n + 1)
    BY <1>1, <1>2, <1>8
  <2>3. ~(j \in 1..n /\ i = n + 1)
    BY <1>1, <1>2, <1>8
  <2> QED BY <1>4, <2>1, <2>2, <2>3
<1> QED
  BY <1>1, <1>7, <1>8 DEF a, n

(* Taking the last element away leaves the others. *)
LEMMA HeldByFront ==
  ASSUME NEW S, NEW s \in Seq(S), s # <<>>
  PROVE  /\ Front(s) \in Seq(S) /\ Last(s) \in S
         /\ ToSet(s) = ToSet(Front(s)) \cup {Last(s)}
         /\ Distinct(s) => Distinct(Front(s)) /\ Last(s) \notin ToSet(Front(s))
<1> DEFINE n == Len(s)
           f == Front(s)
<1>1. n \in Nat /\ n # 0 /\ \A i \in 1..n : s[i] \in S
  BY EmptySeq, LenProperties, ElementOfSeq
<1>2. f \in Seq(S) /\ Len(f) = n - 1 /\ \A i \in 1..(n - 1) : f[i] = s[i]
  <2>1. n - 1 \in Int /\ \A i \in 1..(n - 1) : s[i] \in S
    BY <1>1
  <2>2. /\ SubSeq(s, 1, n - 1) \in Seq(S)
        /\ Len(SubSeq(s, 1, n - 1)) = IF 1 <= n - 1 THEN (n - 1) - 1 + 1 ELSE 0
        /\ \A i \in 1..((n - 1) - 1 + 1) : SubSeq(s, 1, n - 1)[i] = s[1 + i - 1]
    <3> HIDE DEF n
    <3> QED BY <2>1, SubSeqProperties
  <2>3. f = SubSeq(s, 1, n - 1)
    BY DEF Front
  <2>4. \A i \in 1..(n - 1) : i \in 1..((n - 1) - 1 + 1) /\ 1 + i - 1 = i
    BY <1>1
  <2> HIDE DEF f, n
  <2> QED BY <1>1, <2>2, <2>3, <2>4
<1>3. Last(s) = s[n]
  BY DEF Last
<1>4. /\ \A i \in 1..n : s[i] \in ToSet(s)
      /\ \A x \in ToSet(s) : \E i \in 1..n : s[i] = x
  BY HeldBySeq
<1>5. /\ \A i \in 1..(n - 1) : f[i] \in ToSet(f)
      /\ \A x \in ToSet(f) : \E i \in 1..(n - 1) : f[i] = x
  <2> HIDE DEF f, n
  <2> QED BY <1>2, HeldBySeq
<1> HIDE DEF f, n
<1>6. \A i \in 1..n : i \in 1..(n - 1) \/ i = n
  BY <1>1
<1>7. n \in 1..n /\ \A i \in 1..(n - 1) : i \in 1..n /\ i # n
  BY <1>1
<1>8. ToSet(s) = ToSet(f) \cup {s[n]}
  <2>1. ASSUME NEW x \in ToSet(s) PROVE x \in ToSet(f) \cup {s[n]}
    BY <1>2, <1>4, <1>5, <1>6
  <2>2. ASSUME NEW x \in ToSet(f) PROVE x \in ToSet(s)
    BY <1>2, <1>4, <1>5, <1>7
  <2>3. s[n] \in ToSet(s)
    BY <1>4, <1>7
  <2> QED BY <2>1, <2>2, <2>3
<1>9. ASSUME Distinct(s)
      PROVE  Distinct(f) /\ s[n] \notin ToSet(f)
  <2>1. \A i, j \in 1..n : s[i] = s[j] => i = j
    BY <1>9 DEF Distinct, n
  <2> QED BY <1>2, <1>5, <1>7, <2>1 DEF Distinct
<1> QED
  BY <1>1, <1>2, <1>3, <1>7, <1>8, <1>9 DEF f, n

(* Taking the first element away leaves the others. *)
LEMMA HeldByTail ==
  ASSUME NEW S, NEW s \in Seq(S), s # <<>>
  PROVE  /\ Tail(s) \in Seq(S) /\ Head(s) \in S
         /\ ToSet(s) = ToSet(Tail(s)) \cup {Head(s)}
<1> DEFINE n == Len(s)
           t == Tail(s)
<1>1. n \in Nat /\ n # 0 /\ Head(s) = s[1] /\ Head(s) \in S
  BY EmptySeq, LenProperties, HeadTailProperties
<1>2. t \in Seq(S) /\ Len(t) = n - 1 /\ \A i \in 1..(n - 1) : t[i] = s[i + 1]
  BY HeadTailProperties
<1>4. /\ \A i \in 1..n : s[i] \in ToSet(s)
      /\ \A x \in ToSet(s) : \E i \in 1..n : s[i] = x
  BY HeldBySeq
<1>5. /\ \A i \in 1..(n - 1) : t[i] \in ToSet(t)
      /\ \A x \in ToSet(t) : \E i \in 1..(n - 1) : t[i] = x
  <2> HIDE DEF t, n
  <2> QED BY <1>2, HeldBySeq
<1> HIDE DEF t, n
<1>6. \A i \in 1..n : i = 1 \/ (i - 1 \in 1..(n - 1) /\ (i - 1) + 1 = i)
  BY <1>1
<1>7. 1 \in 1..n /\ \A i \in 1..(n - 1) : i + 1 \in 1..n
  BY <1>1
<1>8. ToSet(s) = ToSet(t) \cup {s[1]}
  <2>1. ASSUME NEW x \in ToSet(s) PROVE x \in ToSet(t) \cup {s[1]}
    <3>1. PICK i \in 1..n : s[i] = x
      BY <1>4
    <3>2. CASE i # 1
      <4>1. t[i - 1] = x /\ i - 1 \in 1..(n - 1)
        BY <1>2, <1>6, <3>1, <3>2
      <4> QED BY <1>5, <4>1
    <3> QED BY <3>1, <3>2
  <2>2. ASSUME NEW x \in ToSet(t) PROVE x \in ToSet(s)
    BY <1>2, <1>4, <1>5, <1>7
  <2>3. s[1] \in ToSet(s)
    BY <1>4, <1>7
  <2> QED BY <2>1, <2>2, <2>3
<1> QED
  BY <1>1, <1>2, <1>8 DEF t, n

(* One sequence after another holds what the two hold. *)
LEMMA HeldByBoth ==
  ASSUME NEW S, NEW s \in Seq(S), NEW t \in Seq(S)
  PROVE  s \o t \in Seq(S) /\ ToSet(s \o t) = ToSet(s) \cup ToSet(t)
<1> DEFINE c == s \o t
           m == Len(s)
           n == Len(t)
<1>1. /\ m \in Nat /\ n \in Nat /\ c \in Seq(S) /\ Len(c) = m + n
      /\ \A i \in 1..(m + n) : c[i] = IF i <= m THEN s[i] ELSE t[i - m]
  BY ConcatProperties, LenProperties
<1>2. /\ \A i \in 1..m : s[i] \in ToSet(s)
      /\ \A x \in ToSet(s) : \E i \in 1..m : s[i] = x
  BY HeldBySeq
<1>3. /\ \A i \in 1..n : t[i] \in ToSet(t)
      /\ \A x \in ToSet(t) : \E i \in 1..n : t[i] = x
  BY HeldBySeq
<1>4. /\ \A i \in 1..(m + n) : c[i] \in ToSet(c)
      /\ \A x \in ToSet(c) : \E i \in 1..(m + n) : c[i] = x
  <2> HIDE DEF c, m, n
  <2> QED BY <1>1, HeldBySeq
<1> HIDE DEF c, m, n
<1>5. ASSUME NEW x \in ToSet(c) PROVE x \in ToSet(s) \cup ToSet(t)
  <2>1. PICK i \in 1..(m + n) : c[i] = x
    BY <1>4
  <2>2. CASE i <= m
    <3>1. i \in 1..m
      BY <1>1, <2>2
    <3> QED BY <1>1, <1>2, <2>1, <2>2, <3>1
  <2>3. CASE ~(i <= m)
    <3>1. i - m \in 1..n
      BY <1>1, <2>3
    <3> QED BY <1>1, <1>3, <2>1, <2>3, <3>1
  <2> QED BY <2>2, <2>3
<1>6. ASSUME NEW x \in ToSet(s) PROVE x \in ToSet(c)
  <2>1. PICK i \in 1..m : s[i] = x
    BY <1>2
  <2>2. i \in 1..(m + n) /\ i <= m
    BY <1>1
  <2> QED BY <1>1, <1>4, <2>1, <2>2
<1>7. ASSUME NEW x \in ToSet(t) PROVE x \in ToSet(c)
  <2>1. PICK i \in 1..n : t[i] = x
    BY <1>3
  <2>2. i + m \in 1..(m + n) /\ ~(i + m <= m) /\ (i + m) - m = i
    BY <1>1
  <2> QED BY <1>1, <1>4, <2>1, <2>2
<1> QED
  BY <1>1, <1>5, <1>6, <1>7 DEF c

(* A sequence that repeats nothing is as long as what it holds. *)
LEMMA DistinctCounts ==
  ASSUME NEW S, NEW s \in Seq(S), Distinct(s)
  PROVE  IsFiniteSet(ToSet(s)) /\ Cardinality(ToSet(s)) = Len(s)
<1>1. /\ Len(s) \in Nat /\ \A i \in 1..Len(s) : s[i] \in ToSet(s)
      /\ \A x \in ToSet(s) : \E i \in 1..Len(s) : s[i] = x
  BY HeldBySeq
<1>2. s \in [1..Len(s) -> ToSet(s)]
  BY <1>1, LenProperties
<1>3. ExistsBijection(1..Len(s), ToSet(s))
  BY <1>1, <1>2 DEF Distinct, ExistsBijection, Bijection, Injection, Surjection, IsInjective
<1>4. IsFiniteSet(1..Len(s)) /\ Cardinality(1..Len(s)) = Len(s)
  <2>1. IsFiniteSet(1..Len(s)) /\ Cardinality(1..Len(s)) = IF 1 > Len(s) THEN 0 ELSE Len(s) - 1 + 1
    BY <1>1, FS_Interval
  <2> QED BY <1>1, <2>1
<1> QED
  BY <1>3, <1>4, FS_Bijection
---------------------------------------------------------------------------
(* Prefixes. *)

(* A prefix says the same for as long as it lasts. *)
LEMMA PrefixMeans ==
  ASSUME NEW S, NEW s \in Seq(S), NEW t \in Seq(S)
  PROVE  IsPrefix(s, t) <=> Len(s) <= Len(t) /\ \A i \in 1..Len(s) : s[i] = t[i]
<1>0. Len(s) \in Nat /\ Len(t) \in Nat
  BY LenProperties
<1>1. SubSeq(s, 1, Len(s)) = s
  BY SubSeqFull
<1>2. CASE Len(s) <= Len(t)
  <2> DEFINE u == SubSeq(t, 1, Len(s))
  <2>1. \A i \in 1..Len(s) : t[i] \in S
    BY <1>0, <1>2, ElementOfSeq
  <2>2. u \in Seq(S) /\ Len(u) = Len(s) /\ \A i \in 1..Len(s) : u[i] = t[i]
    <3>1. /\ u \in Seq(S)
          /\ Len(u) = IF 1 <= Len(s) THEN Len(s) - 1 + 1 ELSE 0
          /\ \A i \in 1..(Len(s) - 1 + 1) : u[i] = t[1 + i - 1]
      BY <1>0, <2>1, SubSeqProperties
    <3>2. \A i \in 1..Len(s) : i \in 1..(Len(s) - 1 + 1) /\ 1 + i - 1 = i
      BY <1>0
    <3> HIDE DEF u
    <3> QED BY <1>0, <3>1, <3>2
  <2> HIDE DEF u
  <2>3. s = u <=> \A i \in 1..Len(s) : s[i] = u[i]
    BY <2>2, SeqEqual
  <2> QED BY <1>1, <1>2, <2>2, <2>3 DEF IsPrefix, u
<1> QED
  BY <1>0, <1>2 DEF IsPrefix

(* A sequence is a prefix of itself, and of what a longer one is a prefix of. *)
LEMMA PrefixOrder ==
  ASSUME NEW S
  PROVE  /\ \A a \in Seq(S) : IsPrefix(a, a)
         /\ \A a, b, c \in Seq(S) : IsPrefix(a, b) /\ IsPrefix(b, c) => IsPrefix(a, c)
         /\ \A a, b \in Seq(S) : IsPrefix(a, b) => Len(a) <= Len(b)
         /\ \A a, b \in Seq(S) : IsPrefix(a, b) /\ Len(a) = Len(b) => a = b
<1>0. \A a \in Seq(S) : Len(a) \in Nat
  BY LenProperties
<1>1. \A a, b \in Seq(S) : IsPrefix(a, b) <=> Len(a) <= Len(b) /\ \A i \in 1..Len(a) : a[i] = b[i]
  BY PrefixMeans
<1>2. \A a \in Seq(S) : IsPrefix(a, a)
  BY <1>0, <1>1
<1>3. ASSUME NEW a \in Seq(S), NEW b \in Seq(S), NEW c \in Seq(S), IsPrefix(a, b), IsPrefix(b, c)
      PROVE  IsPrefix(a, c)
  <2>1. Len(a) <= Len(b) /\ \A i \in 1..Len(a) : a[i] = b[i]
    BY <1>1, <1>3
  <2>2. Len(b) <= Len(c) /\ \A i \in 1..Len(b) : b[i] = c[i]
    BY <1>1, <1>3
  <2>3. Len(a) <= Len(c) /\ \A i \in 1..Len(a) : a[i] = c[i]
    BY <1>0, <2>1, <2>2
  <2> QED BY <1>1, <2>3
<1>4. ASSUME NEW a \in Seq(S), NEW b \in Seq(S), IsPrefix(a, b), Len(a) = Len(b)
      PROVE  a = b
  BY <1>1, <1>4, SeqEqual
<1>5. \A a, b \in Seq(S) : IsPrefix(a, b) => Len(a) <= Len(b)
  BY <1>1
<1> QED
  BY <1>2, <1>3, <1>4, <1>5

(* Two prefixes of one sequence are prefixes of one another. *)
LEMMA PrefixesAgree ==
  ASSUME NEW S, NEW a \in Seq(S), NEW b \in Seq(S), NEW c \in Seq(S),
         IsPrefix(a, c), IsPrefix(b, c), Len(a) <= Len(b)
  PROVE  IsPrefix(a, b)
<1>1. Len(a) \in Nat /\ Len(b) \in Nat
  BY LenProperties
<1>2. \A i \in 1..Len(a) : a[i] = c[i]
  BY PrefixMeans
<1>3. \A i \in 1..Len(b) : b[i] = c[i]
  BY PrefixMeans
<1>4. \A i \in 1..Len(a) : a[i] = b[i]
  BY <1>1, <1>2, <1>3
<1> QED
  BY <1>4, PrefixMeans

(* Between a sequence and one it begins, the next element. *)
LEMMA PrefixGrows ==
  ASSUME NEW S, NEW a \in Seq(S), NEW b \in Seq(S), IsPrefix(a, b), Len(a) < Len(b)
  PROVE  /\ SubSeq(b, 1, Len(a) + 1) \in Seq(S)
         /\ Len(SubSeq(b, 1, Len(a) + 1)) = Len(a) + 1
         /\ IsPrefix(a, SubSeq(b, 1, Len(a) + 1))
         /\ IsPrefix(SubSeq(b, 1, Len(a) + 1), b)
<1> DEFINE n == Len(a) + 1
           c == SubSeq(b, 1, n)
<1>1. Len(a) \in Nat /\ Len(b) \in Nat /\ n \in Nat /\ n <= Len(b) /\ 1 <= n
  BY LenProperties
<1>2. \A i \in 1..n : b[i] \in S
  <2> HIDE DEF n
  <2> QED BY <1>1, ElementOfSeq
<1>3. c \in Seq(S) /\ Len(c) = n /\ \A i \in 1..n : c[i] = b[i]
  <2> HIDE DEF n
  <2>1. /\ c \in Seq(S)
        /\ Len(c) = IF 1 <= n THEN n - 1 + 1 ELSE 0
        /\ \A i \in 1..(n - 1 + 1) : c[i] = b[1 + i - 1]
    BY <1>1, <1>2, SubSeqProperties
  <2>2. \A i \in 1..n : i \in 1..(n - 1 + 1) /\ 1 + i - 1 = i
    BY <1>1
  <2> HIDE DEF c
  <2> QED BY <1>1, <2>1, <2>2
<1> HIDE DEF c
<1>4. IsPrefix(c, b)
  <2> HIDE DEF n
  <2> QED BY <1>1, <1>3, PrefixMeans
<1>5. IsPrefix(a, c)
  <2>1. \A i \in 1..Len(a) : a[i] = b[i]
    BY PrefixMeans
  <2>2. \A i \in 1..Len(a) : a[i] = c[i]
    BY <1>1, <1>3, <2>1
  <2>3. Len(a) <= Len(c)
    BY <1>1, <1>3
  <2> QED BY <1>3, <2>2, <2>3, PrefixMeans
<1> QED
  BY <1>3, <1>4, <1>5 DEF c, n

---------------------------------------------------------------------------
(* The members of a finite set in order. *)

\* How many of a set come before one of its members.
Rank(S, R, x) == Cardinality({y \in S : <<y, x>> \in R})

\* A strict and total order of the members.
IsOrder(R, S) ==
  /\ \A x \in S : <<x, x>> \notin R
  /\ \A x, y, z \in S : <<x, y>> \in R /\ <<y, z>> \in R => <<x, z>> \in R
  /\ \A x, y \in S : x # y => <<x, y>> \in R \/ <<y, x>> \in R

(* An order orders what is part of what it orders. *)
LEMMA OrderRestricts ==
  ASSUME NEW U, NEW R, IsOrder(R, U), NEW S \in SUBSET U
  PROVE  IsOrder(R, S)
  BY DEF IsOrder

(* What an order is, in one place. *)
LEMMA OrderMeans ==
  ASSUME NEW S, NEW R, IsOrder(R, S)
  PROVE  /\ \A x \in S : <<x, x>> \notin R
         /\ \A x, y \in S : <<x, y>> \in R => <<y, x>> \notin R
         /\ \A x, y, z \in S : <<x, y>> \in R /\ <<y, z>> \in R => <<x, z>> \in R
         /\ \A x, y \in S : x # y => <<x, y>> \in R \/ <<y, x>> \in R
  BY DEF IsOrder

(* The ranks are numbers below that of the members, and go the way the order goes. *)
LEMMA RankBounded ==
  ASSUME NEW S, NEW R, IsFiniteSet(S), IsOrder(R, S), NEW x \in S
  PROVE  Rank(S, R, x) \in 0..(Cardinality(S) - 1)
<1> DEFINE below == {y \in S : <<y, x>> \in R}
<1>1. below \in SUBSET S /\ below # S
  BY OrderMeans
<1>2. Cardinality(S) \in Nat /\ IsFiniteSet(below) /\ Cardinality(below) \in Nat
  BY FS_Subset, FS_CardinalityType
<1>3. Cardinality(below) <= Cardinality(S) /\ Cardinality(below) # Cardinality(S)
  <2> HIDE DEF below
  <2> QED BY <1>1, FS_Subset
<1>4. Rank(S, R, x) = Cardinality(below)
  BY DEF Rank
<1> QED
  <2> HIDE DEF below
  <2> QED BY <1>2, <1>3, <1>4

(* What comes before another has less before it. *)
LEMMA RankGrows ==
  ASSUME NEW S, NEW R, IsFiniteSet(S), IsOrder(R, S), NEW x \in S, NEW y \in S,
         <<x, y>> \in R
  PROVE  Rank(S, R, x) < Rank(S, R, y)
<1> DEFINE upTo(z) == {w \in S : <<w, z>> \in R}
<1>1. upTo(x) \in SUBSET upTo(y) /\ x \in upTo(y) /\ x \notin upTo(x)
  BY OrderMeans
<1>2. IsFiniteSet(upTo(y)) /\ IsFiniteSet(upTo(x))
  BY FS_Subset
<1>3. Cardinality(upTo(x)) \in Nat /\ Cardinality(upTo(y)) \in Nat
  BY <1>2, FS_CardinalityType
<1>4. Cardinality(upTo(x)) <= Cardinality(upTo(y)) /\ Cardinality(upTo(x)) # Cardinality(upTo(y))
  <2> HIDE DEF upTo
  <2> QED BY <1>1, <1>2, FS_Subset
<1>5. Rank(S, R, x) = Cardinality(upTo(x)) /\ Rank(S, R, y) = Cardinality(upTo(y))
  BY DEF Rank
<1> QED
  <2> HIDE DEF upTo
  <2> QED BY <1>3, <1>4, <1>5

(* Every place is taken. *)
LEMMA RanksFill ==
  ASSUME NEW S, NEW R, IsFiniteSet(S), IsOrder(R, S),
         NEW k \in 0..(Cardinality(S) - 1)
  PROVE  \E x \in S : Rank(S, R, x) = k
<1> DEFINE n == Cardinality(S)
           f == [x \in S |-> Rank(S, R, x)]
<1>1. n \in Nat
  BY FS_CardinalityType
<1>2. f \in [S -> 0..(n - 1)]
  BY RankBounded
<1>3. \A x, y \in S : x # y => f[x] # f[y]
  <2> SUFFICES ASSUME NEW x \in S, NEW y \in S, x # y
               PROVE  Rank(S, R, x) # Rank(S, R, y)
    OBVIOUS
  <2>1. Rank(S, R, x) \in Int /\ Rank(S, R, y) \in Int
    BY RankBounded
  <2>2. <<x, y>> \in R \/ <<y, x>> \in R
    BY OrderMeans
  <2> QED BY <2>1, <2>2, RankGrows
<1>4. f \in Injection(S, 0..(n - 1))
  BY <1>2, <1>3 DEF Injection, IsInjective
<1>5. IsFiniteSet(0..(n - 1)) /\ Cardinality(0..(n - 1)) = n
  BY <1>1, FS_Interval
<1>6. f \in Surjection(S, 0..(n - 1))
  BY <1>4, <1>5, FS_Injection
<1> QED
  BY <1>6 DEF Surjection

(* The members in order: each of them once, and each at the place of its rank. *)
LEMMA OrderedIs ==
  ASSUME NEW S, NEW R, IsFiniteSet(S), IsOrder(R, S)
  PROVE  /\ Cardinality(S) \in Nat
         /\ Ordered(S, R) \in Seq(S) /\ Len(Ordered(S, R)) = Cardinality(S)
         /\ \A k \in 1..Cardinality(S) : /\ Ordered(S, R)[k] \in S
                                        /\ Rank(S, R, Ordered(S, R)[k]) = k - 1
<1> DEFINE n == Cardinality(S)
<1>1. n \in Nat
  BY FS_CardinalityType
<1>2. ASSUME NEW k \in 1..n
      PROVE  Ordered(S, R)[k] \in S /\ Rank(S, R, Ordered(S, R)[k]) = k - 1
  <2>1. k - 1 \in 0..(n - 1)
    BY <1>1
  <2>2. \E x \in S : Rank(S, R, x) = k - 1
    BY <2>1, RanksFill
  <2>3. Ordered(S, R)[k] = CHOOSE x \in S : Rank(S, R, x) = k - 1
    BY DEF Ordered, Rank
  <2> QED BY <2>2, <2>3
<1>3. Ordered(S, R) \in [1..n -> S]
  BY <1>2 DEF Ordered
<1>4. Ordered(S, R) \in Seq(S) /\ Len(Ordered(S, R)) = n
  BY <1>1, <1>3
<1> QED
  BY <1>1, <1>2, <1>4

(* They are in order, and they are all of them. *)
LEMMA OrderedSorts ==
  ASSUME NEW S, NEW R, IsFiniteSet(S), IsOrder(R, S)
  PROVE  /\ \A i, j \in 1..Cardinality(S) : i < j => <<Ordered(S, R)[i], Ordered(S, R)[j]>> \in R
         /\ \A x \in S : \E i \in 1..Cardinality(S) : Ordered(S, R)[i] = x
<1> DEFINE n == Cardinality(S)
           o == Ordered(S, R)
<1>1. n \in Nat /\ \A k \in 1..n : o[k] \in S /\ Rank(S, R, o[k]) = k - 1
  BY OrderedIs
<1> HIDE DEF o, n
<1>2. ASSUME NEW i \in 1..n, NEW j \in 1..n, i < j
      PROVE  <<o[i], o[j]>> \in R
  <2>1. o[i] # o[j]
    BY <1>1, <1>2
  <2>2. CASE <<o[j], o[i]>> \in R
    <3>1. Rank(S, R, o[j]) < Rank(S, R, o[i])
      BY <1>1, <2>2, RankGrows
    <3> QED BY <1>1, <1>2, <3>1
  <2> QED BY <1>1, <2>1, <2>2, OrderMeans
<1>3. ASSUME NEW x \in S
      PROVE  \E i \in 1..n : o[i] = x
  <2> DEFINE k == Rank(S, R, x) + 1
  <2>1. k \in 1..n
    BY <1>1, RankBounded DEF n
  <2>2. Rank(S, R, o[k]) = Rank(S, R, x) /\ o[k] \in S
    <3>1. Rank(S, R, x) \in Int
      BY RankBounded
    <3> QED BY <1>1, <2>1, <3>1
  <2>3. CASE o[k] # x
    <3>1. Rank(S, R, o[k]) < Rank(S, R, x) \/ Rank(S, R, x) < Rank(S, R, o[k])
      <4> HIDE DEF k
      <4>1. <<o[k], x>> \in R \/ <<x, o[k]>> \in R
        BY <2>2, <2>3, OrderMeans
      <4> QED BY <2>2, <4>1, RankGrows
    <3>2. Rank(S, R, x) \in Int
      BY RankBounded
    <3> QED BY <2>2, <3>1, <3>2
  <2> QED BY <2>1, <2>3
<1> QED
  BY <1>2, <1>3 DEF o, n

(* And nothing else is: a sequence that goes up through all the members is this one. *)
LEMMA OrderedIsTheOne ==
  ASSUME NEW S, NEW R, IsFiniteSet(S), IsOrder(R, S),
         NEW s \in Seq(S), \A i, j \in 1..Len(s) : i < j => <<s[i], s[j]>> \in R,
         \A x \in S : \E i \in 1..Len(s) : s[i] = x
  PROVE  s = Ordered(S, R)
<1> DEFINE n == Len(s)
           o == Ordered(S, R)
<1>0. n \in Nat /\ \A i \in 1..n : s[i] \in S
  BY LenProperties, ElementOfSeq
<1>1. ASSUME NEW i \in 1..n, NEW j \in 1..n, i # j
      PROVE  s[i] # s[j]
  <2>1. i < j \/ j < i
    BY <1>0, <1>1
  <2> QED BY <1>0, <2>1, OrderMeans
<1>2. ASSUME NEW i \in 1..n
      PROVE  Rank(S, R, s[i]) = i - 1
  <2> DEFINE before == {y \in S : <<y, s[i]>> \in R}
             f == [j \in 1..(i - 1) |-> s[j]]
  <2>1. \A j \in 1..(i - 1) : j \in 1..n /\ j < i
    BY <1>0
  <2>2. f \in [1..(i - 1) -> before]
    BY <1>0, <2>1
  <2>3. \A j, k \in 1..(i - 1) : j # k => f[j] # f[k]
    BY <1>1, <2>1
  <2>4. ASSUME NEW y \in before
        PROVE  \E j \in 1..(i - 1) : f[j] = y
    <3>1. PICK j \in 1..n : s[j] = y
      OBVIOUS
    <3>2. j < i
      <4>1. ~(i < j)
        BY <1>0, <3>1, OrderMeans
      <4>2. i # j
        BY <1>0, <3>1, OrderMeans
      <4> QED BY <1>0, <4>1, <4>2
    <3>3. j \in 1..(i - 1)
      BY <1>0, <3>2
    <3>4. f[j] = y
      BY <3>1, <3>3
    <3> QED BY <3>3, <3>4
  <2>5. ExistsBijection(1..(i - 1), before)
    <3> HIDE DEF f, before
    <3>1. f \in Injection(1..(i - 1), before)
      BY <2>2, <2>3 DEF Injection, IsInjective
    <3>2. f \in Surjection(1..(i - 1), before)
      BY <2>2, <2>4 DEF Surjection
    <3> QED BY <3>1, <3>2 DEF ExistsBijection, Bijection
  <2>6. Cardinality(1..(i - 1)) = i - 1 /\ IsFiniteSet(1..(i - 1))
    <3>1. i \in Int /\ i - 1 \in Int /\ 1 \in Int /\ 0 <= i - 1
      BY <1>0
    <3>2. IsFiniteSet(1..(i - 1)) /\ Cardinality(1..(i - 1)) = IF 1 > i - 1 THEN 0 ELSE (i - 1) - 1 + 1
      BY <3>1, FS_Interval
    <3> QED BY <3>1, <3>2
  <2>7. Cardinality(before) = i - 1
    <3> HIDE DEF before
    <3> QED BY <2>5, <2>6, FS_Bijection
  <2> QED BY <2>7 DEF Rank
<1>3. ExistsBijection(1..n, S)
  <2>1. s \in [1..n -> S]
    BY LenProperties
  <2> QED BY <1>1, <2>1 DEF ExistsBijection, Bijection, Injection, Surjection, IsInjective
<1>4. Cardinality(S) = n
  <2>1. Cardinality(1..n) = n /\ IsFiniteSet(1..n)
    <3> HIDE DEF n
    <3>1. IsFiniteSet(1..n) /\ Cardinality(1..n) = IF 1 > n THEN 0 ELSE n - 1 + 1
      BY <1>0, FS_Interval
    <3> QED BY <1>0, <3>1
  <2> QED BY <1>3, <2>1, FS_Bijection
<1>5. o \in Seq(S) /\ Len(o) = n /\ \A k \in 1..n : o[k] \in S /\ Rank(S, R, o[k]) = k - 1
  BY <1>4, OrderedIs
<1>6. ASSUME NEW i \in 1..n
      PROVE  s[i] = o[i]
  <2> HIDE DEF o
  <2>a. o[i] \in S /\ Rank(S, R, o[i]) = i - 1
    BY <1>5
  <2>b. s[i] \in S /\ i - 1 \in Int
    BY <1>0
  <2>1. Rank(S, R, s[i]) = Rank(S, R, o[i]) /\ Rank(S, R, s[i]) \in Int /\ s[i] \in S /\ o[i] \in S
    BY <1>2, <2>a, <2>b
  <2>2. ~(Rank(S, R, s[i]) < Rank(S, R, o[i])) /\ ~(Rank(S, R, o[i]) < Rank(S, R, s[i]))
    BY <2>1
  <2>3. <<s[i], o[i]>> \notin R /\ <<o[i], s[i]>> \notin R
    BY <2>1, <2>2, RankGrows
  <2> QED BY <2>1, <2>3, OrderMeans
<1> QED
  <2> HIDE DEF o
  <2>1. s = o
    BY <1>0, <1>5, <1>6, SeqEqual
  <2> QED BY <2>1 DEF o

(* The first of the members in order is before all others, and the others follow in order. *)
LEMMA OrderedSplits ==
  ASSUME NEW S, NEW R, IsFiniteSet(S), IsOrder(R, S), S # {}
  PROVE  /\ Ordered(S, R) # <<>> /\ Head(Ordered(S, R)) \in S
         /\ \A y \in S \ {Head(Ordered(S, R))} : <<Head(Ordered(S, R)), y>> \in R
         /\ Tail(Ordered(S, R)) = Ordered(S \ {Head(Ordered(S, R))}, R)
<1> DEFINE o == Ordered(S, R)
           n == Cardinality(S)
           m == o[1]
           rest == S \ {m}
<1>1. n \in Nat /\ n # 0 /\ o \in Seq(S) /\ Len(o) = n /\ \A k \in 1..n : o[k] \in S
  BY OrderedIs, FS_EmptySet
<1>2. /\ \A i, j \in 1..n : i < j => <<o[i], o[j]>> \in R
      /\ \A x \in S : \E i \in 1..n : o[i] = x
  BY OrderedSorts
<1> HIDE DEF o, n
<1>3. o # <<>> /\ Head(o) = m /\ m \in S
  BY <1>1
<1>4. \A y \in rest : <<m, y>> \in R
  BY <1>1, <1>2
<1>5. Tail(o) \in Seq(S) /\ Len(Tail(o)) = n - 1 /\ \A i \in 1..(n - 1) : Tail(o)[i] = o[i + 1]
  BY <1>1, <1>3, HeadTailProperties
<1>6. \A i \in 1..(n - 1) : Tail(o)[i] \in rest
  <2> SUFFICES ASSUME NEW i \in 1..(n - 1)
               PROVE  o[i + 1] \in S /\ o[i + 1] # m
    BY <1>5
  <2>1. i + 1 \in 1..n /\ 1 \in 1..n /\ 1 < i + 1
    BY <1>1
  <2>2. <<m, o[i + 1]>> \in R /\ o[i + 1] \in S
    BY <1>1, <1>2, <2>1
  <2> QED BY <1>3, <2>2, OrderMeans
<1>7. Tail(o) \in Seq(rest)
  <2> HIDE DEF rest
  <2>1. Tail(o) \in [1..(n - 1) -> S]
    BY <1>5, LenProperties
  <2>2. Tail(o) \in [1..(n - 1) -> rest]
    BY <1>6, <2>1
  <2>3. n - 1 \in Nat
    BY <1>1
  <2> QED BY <2>2, <2>3, FunctionIsSeq
<1>8. \A i, j \in 1..Len(Tail(o)) : i < j => <<Tail(o)[i], Tail(o)[j]>> \in R
  <2> SUFFICES ASSUME NEW i \in 1..(n - 1), NEW j \in 1..(n - 1), i < j
               PROVE  <<o[i + 1], o[j + 1]>> \in R
    BY <1>5
  <2>1. i + 1 \in 1..n /\ j + 1 \in 1..n /\ i + 1 < j + 1
    BY <1>1
  <2> QED BY <1>2, <2>1
<1>9. \A x \in rest : \E i \in 1..Len(Tail(o)) : Tail(o)[i] = x
  <2> SUFFICES ASSUME NEW x \in rest
               PROVE  \E i \in 1..(n - 1) : o[i + 1] = x
    BY <1>5
  <2>1. PICK k \in 1..n : o[k] = x
    BY <1>2
  <2>2. k # 1 /\ k - 1 \in 1..(n - 1) /\ (k - 1) + 1 = k
    BY <1>1, <2>1
  <2> QED BY <2>1, <2>2
<1>10. IsFiniteSet(rest) /\ IsOrder(R, rest)
  <2> rest \in SUBSET S
    OBVIOUS
  <2> HIDE DEF rest
  <2> QED BY FS_Subset, OrderRestricts
<1>11. Tail(o) = Ordered(rest, R)
  <2> HIDE DEF rest
  <2> QED BY <1>7, <1>8, <1>9, <1>10, OrderedIsTheOne
<1> QED
  BY <1>3, <1>4, <1>11 DEF o

(* A member that comes after all the others is the last. *)
LEMMA OrderedGrows ==
  ASSUME NEW U, NEW R, IsOrder(R, U), NEW S \in SUBSET U, IsFiniteSet(S),
         NEW m \in U, m \notin S, \A x \in S : <<x, m>> \in R
  PROVE  Append(Ordered(S, R), m) = Ordered(S \cup {m}, R)
<1> DEFINE o == Ordered(S, R)
           n == Cardinality(S)
           T == S \cup {m}
           p == Append(o, m)
<1>0. IsOrder(R, S)
  BY OrderRestricts
<1>1. n \in Nat /\ o \in Seq(S) /\ Len(o) = n /\ \A k \in 1..n : o[k] \in S
  BY <1>0, OrderedIs
<1>2. /\ \A i, j \in 1..n : i < j => <<o[i], o[j]>> \in R
      /\ \A x \in S : \E i \in 1..n : o[i] = x
  BY <1>0, OrderedSorts
<1> HIDE DEF o, n
<1>3. o \in Seq(T) /\ m \in T
  BY <1>1, SeqMonotonic
<1>4. p \in Seq(T) /\ Len(p) = n + 1 /\ p[n + 1] = m /\ \A i \in 1..n : p[i] = o[i]
  <2> HIDE DEF T
  <2> QED BY <1>1, <1>3, AppendProperties
<1> HIDE DEF p
<1>5. \A i, j \in 1..Len(p) : i < j => <<p[i], p[j]>> \in R
  <2> SUFFICES ASSUME NEW i \in 1..(n + 1), NEW j \in 1..(n + 1), i < j
               PROVE  <<p[i], p[j]>> \in R
    BY <1>4
  <2>1. i \in 1..n
    BY <1>1
  <2>2. CASE j \in 1..n
    BY <1>2, <1>4, <2>1, <2>2
  <2>3. CASE j = n + 1
    BY <1>1, <1>4, <2>1, <2>3
  <2> QED BY <1>1, <2>2, <2>3
<1>6. \A x \in T : \E i \in 1..Len(p) : p[i] = x
  <2> SUFFICES ASSUME NEW x \in T
               PROVE  \E i \in 1..(n + 1) : p[i] = x
    BY <1>4
  <2>1. CASE x = m
    BY <1>1, <1>4, <2>1
  <2>2. CASE x \in S
    <3>1. PICK i \in 1..n : o[i] = x
      BY <1>2, <2>2
    <3>2. i \in 1..(n + 1)
      BY <1>1
    <3> QED BY <1>4, <3>1, <3>2
  <2> QED BY <2>1, <2>2
<1>7. IsFiniteSet(T) /\ IsOrder(R, T)
  <2>1. T \in SUBSET U
    OBVIOUS
  <2>2. IsFiniteSet(T)
    BY FS_AddElement
  <2> HIDE DEF T
  <2> QED BY <2>1, <2>2, OrderRestricts
<1>8. p = Ordered(T, R)
  <2> HIDE DEF T
  <2> QED BY <1>4, <1>5, <1>6, <1>7, OrderedIsTheOne
<1> QED
  BY <1>8 DEF p, o

---------------------------------------------------------------------------
(* Places in a sequence, from the front. *)

(* Numbers are ordered by size. *)
LEMMA NumbersAreOrdered ==
  ASSUME NEW S \in SUBSET Nat
  PROVE  IsOrder({p \in S \X S : p[1] < p[2]}, S)
<1> DEFINE R == {p \in S \X S : p[1] < p[2]}
<1>1. \A x, y \in S : <<x, y>> \in R <=> x < y
  OBVIOUS
<1> HIDE DEF R
<1>2. IsOrder(R, S)
  BY <1>1 DEF IsOrder
<1> QED
  BY <1>2 DEF R

(* The places of a set, the first to the last. *)
LEMMA PlacesAre ==
  ASSUME NEW S \in SUBSET Nat, IsFiniteSet(S)
  PROVE  /\ Cardinality(S) \in Nat
         /\ \A i \in 1..Cardinality(S) : Place(S, i) \in S
         /\ \A i, j \in 1..Cardinality(S) : i < j => Place(S, i) < Place(S, j)
<1> DEFINE R == {p \in S \X S : p[1] < p[2]}
<1>1. IsOrder(R, S)
  BY NumbersAreOrdered
<1>2. \A x, y \in S : <<x, y>> \in R <=> x < y
  OBVIOUS
<1>3. \A i : Place(S, i) = Ordered(S, R)[i]
  BY DEF Place
<1> HIDE DEF R
<1>4. Cardinality(S) \in Nat /\ \A i \in 1..Cardinality(S) : Ordered(S, R)[i] \in S
  BY <1>1, OrderedIs
<1>5. \A i, j \in 1..Cardinality(S) : i < j => <<Ordered(S, R)[i], Ordered(S, R)[j]>> \in R
  BY <1>1, OrderedSorts
<1> QED
  BY <1>2, <1>3, <1>4, <1>5

(* As many numbers as there are places, one greater than the other, are the places. *)
LEMMA PlacesAreThe ==
  ASSUME NEW S \in SUBSET Nat, IsFiniteSet(S), NEW m \in [1..Cardinality(S) -> S],
         \A i, j \in 1..Cardinality(S) : i < j => m[i] < m[j]
  PROVE  \A i \in 1..Cardinality(S) : m[i] = Place(S, i)
<1> DEFINE R == {p \in S \X S : p[1] < p[2]}
           n == Cardinality(S)
<1>0. n \in Nat
  BY FS_CardinalityType
<1>1. IsOrder(R, S)
  BY NumbersAreOrdered
<1>2. \A x, y \in S : <<x, y>> \in R <=> x < y
  OBVIOUS
<1>3. \A i : Place(S, i) = Ordered(S, R)[i]
  BY DEF Place
<1>4. m \in [1..n -> S] /\ \A i, j \in 1..n : i < j => m[i] < m[j]
  OBVIOUS
<1> HIDE DEF R
<1>5. \A x \in S : \E i \in 1..n : m[i] = x
  <2>1. IsFiniteSet(1..n) /\ Cardinality(1..n) = n
    <3>1. IsFiniteSet(1..n) /\ Cardinality(1..n) = IF 1 > n THEN 0 ELSE n - 1 + 1
      <4> HIDE DEF n
      <4> QED BY <1>0, FS_Interval
    <3> QED BY <1>0, <3>1
  <2>2. m \in Injection(1..n, S)
    <3>1. \A i, j \in 1..n : i # j => m[i] # m[j]
      <4> SUFFICES ASSUME NEW i \in 1..n, NEW j \in 1..n, i # j PROVE m[i] # m[j]
        OBVIOUS
      <4>1. m[i] \in S /\ m[j] \in S
        BY <1>4
      <4>2. m[i] \in Nat /\ m[j] \in Nat
        BY <4>1
      <4>3. i < j \/ j < i
        BY <1>0
      <4> QED BY <1>4, <4>2, <4>3
    <3>2. DOMAIN m = 1..n
      BY <1>4
    <3> HIDE DEF n
    <3>3. IsInjective(m)
      BY <3>1, <3>2 DEF IsInjective
    <3> QED BY <1>4, <3>3 DEF Injection
  <2>3. m \in Surjection(1..n, S)
    <3>1. Cardinality(1..n) = Cardinality(S)
      BY <2>1
    <3> HIDE DEF n
    <3> QED BY <2>2, <3>1, FS_Injection
  <2> HIDE DEF n
  <2> QED BY <2>3 DEF Surjection
<1>6. m \in Seq(S) /\ Len(m) = n
  <2> HIDE DEF n
  <2> QED BY <1>0, <1>4, FunctionIsSeq
<1>7. m = Ordered(S, R)
  <2>1. \A i, j \in 1..Len(m) : i < j => <<m[i], m[j]>> \in R
    BY <1>2, <1>4, <1>6
  <2>2. \A x \in S : \E i \in 1..Len(m) : m[i] = x
    BY <1>5, <1>6
  <2> HIDE DEF n
  <2> QED BY <1>1, <1>6, <2>1, <2>2, OrderedIsTheOne
<1> QED
  BY <1>3, <1>7

(* The places of an interval are its numbers, from its first. *)
LEMMA PlacesOfARun ==
  ASSUME NEW n \in Nat, NEW m \in Nat
  PROVE  /\ Cardinality((n + 1)..(n + m)) = m
         /\ \A k \in 1..m : Place((n + 1)..(n + m), k) = n + k
<1> DEFINE S == (n + 1)..(n + m)
           f == [k \in 1..m |-> n + k]
<1>1. IsFiniteSet(S) /\ Cardinality(S) = m
  <2>1. IsFiniteSet(S) /\ Cardinality(S) = IF n + 1 > n + m THEN 0 ELSE (n + m) - (n + 1) + 1
    BY FS_Interval
  <2> QED BY <2>1
<1>2. S \in SUBSET Nat /\ f \in [1..m -> S] /\ \A i, j \in 1..m : i < j => f[i] < f[j]
  OBVIOUS
<1>3. \A k \in 1..m : f[k] = n + k
  OBVIOUS
<1> HIDE DEF S, f
<1>4. \A k \in 1..Cardinality(S) : f[k] = Place(S, k)
  BY <1>1, <1>2, PlacesAreThe
<1> QED
  BY <1>1, <1>3, <1>4 DEF S

---------------------------------------------------------------------------
(* Totals. *)

\* The recursion by which the library sums f over the subsets of S.
Sums(g, f, S) ==
  g = [s \in SUBSET S |-> IF s = {} THEN 0
                          ELSE f[CHOOSE x \in s : TRUE] + g[s \ {CHOOSE x \in s : TRUE}]]

\* The same for the sets of at most n elements.
SumsUpTo(n, g, f, S) ==
  \A s \in SUBSET S : Cardinality(s) <= n =>
    g[s] = IF s = {} THEN 0 ELSE f[CHOOSE x \in s : TRUE] + g[s \ {CHOOSE x \in s : TRUE}]

(* The element taken leaves a smaller set. *)
LEMMA TakeOne ==
  ASSUME NEW S, IsFiniteSet(S), NEW s \in SUBSET S, s # {}
  PROVE  LET x == CHOOSE x \in s : TRUE
         IN  /\ x \in s /\ x \in S /\ s \ {x} \in SUBSET S
             /\ Cardinality(s) \in Nat /\ Cardinality(s) # 0
             /\ Cardinality(s \ {x}) = Cardinality(s) - 1
<1> DEFINE x == CHOOSE x \in s : TRUE
<1>1. x \in s
  OBVIOUS
<1>2. IsFiniteSet(s)
  BY FS_Subset
<1>3. Cardinality(s) \in Nat /\ Cardinality(s) # 0
  BY <1>2, FS_CardinalityType, FS_EmptySet
<1>4. Cardinality(s \ {x}) = Cardinality(s) - 1
  BY <1>1, <1>2, FS_RemoveElement
<1> QED
  BY <1>1, <1>3, <1>4

(* The recursion has a solution. *)
LEMMA SumsExist ==
  ASSUME NEW S, IsFiniteSet(S), NEW f \in [S -> Int]
  PROVE  \E g : Sums(g, f, S)
<1> DEFINE P == {n \in Nat : \E g \in [SUBSET S -> Int] : SumsUpTo(n, g, f, S)}
           Next(g) == [s \in SUBSET S |-> IF s = {} THEN 0
                        ELSE f[CHOOSE x \in s : TRUE] + g[s \ {CHOOSE x \in s : TRUE}]]
<1>1. 0 \in P
  <2>1. [s \in SUBSET S |-> 0] \in [SUBSET S -> Int]
    OBVIOUS
  <2>2. ASSUME NEW s \in SUBSET S, s # {}
        PROVE  ~(Cardinality(s) <= 0)
    <3>1. Cardinality(s) \in Nat /\ Cardinality(s) # 0
      BY <2>2, TakeOne
    <3> QED BY <3>1
  <2>3. SumsUpTo(0, [s \in SUBSET S |-> 0], f, S)
    BY <2>2 DEF SumsUpTo
  <2> QED BY <2>1, <2>3
<1>2. ASSUME NEW k \in P
      PROVE  k + 1 \in P
  <2>1. PICK g \in [SUBSET S -> Int] : SumsUpTo(k, g, f, S)
    OBVIOUS
  <2>2. Next(g) \in [SUBSET S -> Int]
    <3> SUFFICES ASSUME NEW s \in SUBSET S, s # {}
                 PROVE  f[CHOOSE x \in s : TRUE] + g[s \ {CHOOSE x \in s : TRUE}] \in Int
      OBVIOUS
    <3> DEFINE x == CHOOSE x \in s : TRUE
    <3>1. x \in S /\ s \ {x} \in SUBSET S
      BY TakeOne
    <3>2. f[x] \in Int /\ g[s \ {x}] \in Int
      BY <3>1
    <3> QED BY <3>2
  <2>3. SumsUpTo(k + 1, Next(g), f, S)
    <3> SUFFICES ASSUME NEW s \in SUBSET S, Cardinality(s) <= k + 1
                 PROVE  Next(g)[s] = IF s = {} THEN 0
                          ELSE f[CHOOSE x \in s : TRUE] + Next(g)[s \ {CHOOSE x \in s : TRUE}]
      BY DEF SumsUpTo
    <3> SUFFICES ASSUME s # {}
                 PROVE  Next(g)[s \ {CHOOSE x \in s : TRUE}] = g[s \ {CHOOSE x \in s : TRUE}]
      OBVIOUS
    <3> DEFINE x == CHOOSE x \in s : TRUE
               r == s \ {x}
    <3>1. r \in SUBSET S /\ Cardinality(r) = Cardinality(s) - 1 /\ Cardinality(s) \in Nat
      BY TakeOne
    <3>2. Cardinality(r) <= k
      BY <3>1
    <3>3. g[r] = Next(g)[r]
      <4> HIDE DEF r
      <4> QED BY <2>1, <3>1, <3>2 DEF SumsUpTo
    <3> QED BY <3>3
  <2> HIDE DEF Next
  <2> QED BY <2>2, <2>3
<1>3. Cardinality(S) \in P
  <2> HIDE DEF P
  <2> P = Nat
    <3> P \in SUBSET Nat
      BY DEF P
    <3> QED BY <1>1, <1>2, Reaches
  <2> QED BY FS_CardinalityType
<1>4. PICK g \in [SUBSET S -> Int] : SumsUpTo(Cardinality(S), g, f, S)
  BY <1>3
<1>5. \A s \in SUBSET S : Cardinality(s) <= Cardinality(S)
  BY FS_Subset
<1>6. Sums(g, f, S)
  BY <1>4, <1>5 DEF SumsUpTo, Sums
<1> QED
  BY <1>6

(* Every partial sum is an integer. *)
LEMMA SumsAreIntegers ==
  ASSUME NEW S, IsFiniteSet(S), NEW f \in [S -> Int], NEW g, Sums(g, f, S)
  PROVE  \A s \in SUBSET S : g[s] \in Int
<1> DEFINE P == {n \in Nat : \A s \in SUBSET S : Cardinality(s) <= n => g[s] \in Int}
<1>1. \A s \in SUBSET S : Cardinality(s) \in Nat
  BY FS_Subset, FS_CardinalityType
<1>2. 0 \in P
  <2> SUFFICES ASSUME NEW s \in SUBSET S, Cardinality(s) <= 0
               PROVE  g[s] \in Int
    OBVIOUS
  <2>1. s = {}
    BY <1>1, FS_Subset, FS_EmptySet
  <2> QED BY <2>1 DEF Sums
<1>3. ASSUME NEW k \in P
      PROVE  k + 1 \in P
  <2> SUFFICES ASSUME NEW s \in SUBSET S, Cardinality(s) <= k + 1, s # {}
               PROVE  g[s] \in Int
    BY DEF Sums
  <2> DEFINE x == CHOOSE x \in s : TRUE
             r == s \ {x}
  <2>1. x \in S /\ r \in SUBSET S /\ Cardinality(r) = Cardinality(s) - 1
    BY TakeOne
  <2>2. Cardinality(r) <= k
    BY <1>1, <2>1
  <2>3. g[r] \in Int /\ f[x] \in Int
    <3> HIDE DEF x, r
    <3> QED BY <2>1, <2>2
  <2>4. g[s] = f[x] + g[r]
    BY DEF Sums
  <2> QED BY <2>3, <2>4
<1>4. P = Nat
  <2> HIDE DEF P
  <2> QED BY <1>2, <1>3, Reaches DEF P
<1> QED
  BY <1>1, <1>4

\* Both sums of a set differ by the amount where only one of the two is in the set.
Shifted(k, g, S, from, to, n) ==
  \A s \in SUBSET S : k[s] = g[s] - (IF from \in s THEN n ELSE 0) + (IF to \in s THEN n ELSE 0)

(* An amount taken from one element and given to another leaves every sum that counts both *)
(* as it was.                                                                              *)
LEMMA SumsShift ==
  ASSUME NEW S, IsFiniteSet(S), NEW f \in [S -> Int], NEW from \in S, NEW to \in S, from # to,
         NEW n \in Int, NEW h, h = [f EXCEPT ![from] = @ - n, ![to] = @ + n],
         NEW g, Sums(g, f, S), NEW k, Sums(k, h, S)
  PROVE  Shifted(k, g, S, from, to, n)
<1> DEFINE Moved(s) == g[s] - (IF from \in s THEN n ELSE 0) + (IF to \in s THEN n ELSE 0)
           P == {i \in Nat : \A s \in SUBSET S : Cardinality(s) <= i => k[s] = Moved(s)}
<1>1. \A s \in SUBSET S : Cardinality(s) \in Nat
  BY FS_Subset, FS_CardinalityType
<1>2. 0 \in P
  <2> SUFFICES ASSUME NEW s \in SUBSET S, Cardinality(s) <= 0
               PROVE  k[s] = Moved(s)
    OBVIOUS
  <2>1. s = {}
    BY <1>1, FS_Subset, FS_EmptySet
  <2> QED BY <2>1 DEF Sums
<1>3. ASSUME NEW i \in P
      PROVE  i + 1 \in P
  <2> SUFFICES ASSUME NEW s \in SUBSET S, Cardinality(s) <= i + 1
               PROVE  k[s] = Moved(s)
    OBVIOUS
  <2>0. CASE s = {}
    BY <2>0 DEF Sums
  <2> SUFFICES ASSUME s # {}
               PROVE  k[s] = Moved(s)
    BY <2>0
  <2> DEFINE x == CHOOSE x \in s : TRUE
             r == s \ {x}
  <2>1. x \in s /\ x \in S /\ r \in SUBSET S /\ Cardinality(r) = Cardinality(s) - 1
    BY TakeOne
  <2>2. Cardinality(r) <= i
    BY <1>1, <2>1
  <2>3. k[r] = Moved(r)
    <3> HIDE DEF r, Moved
    <3> QED BY <2>1, <2>2
  <2>4. g[s] = f[x] + g[r] /\ k[s] = h[x] + k[r]
    BY DEF Sums
  <2>5. h[x] = f[x] - (IF from = x THEN n ELSE 0) + (IF to = x THEN n ELSE 0)
    <3> HIDE DEF x
    <3> QED BY <2>1
  <2>6. g[r] \in Int /\ f[x] \in Int
    BY <2>1, SumsAreIntegers
  <2>7. \A a : a \in r <=> a \in s /\ a # x
    OBVIOUS
  <2> HIDE DEF x, r
  <2> QED BY <2>1, <2>3, <2>4, <2>5, <2>6, <2>7
<1>4. P = Nat
  <2> HIDE DEF P
  <2> QED BY <1>2, <1>3, Reaches DEF P
<1> QED
  BY <1>1, <1>4 DEF Shifted

\* The total of the values of a function.
Total(f) == FoldFunction(LAMBDA x, y : x + y, 0, f)

(* The library's fold is a solution of the recursion. *)
LEMMA TotalSums ==
  ASSUME NEW S, IsFiniteSet(S), NEW f \in [S -> Int]
  PROVE  \E g : Sums(g, f, S) /\ Total(f) = g[S]
<1> DEFINE g == CHOOSE g : Sums(g, f, S)
<1>1. Sums(g, f, S)
  BY SumsExist
<1>2. Total(f) = g[S]
  BY DEF Total, FoldFunction, FoldFunctionOnSet, MapThenFoldSet, Sums
<1> QED
  BY <1>1, <1>2

(* What a move between two holders leaves in total is what there was. *)
LEMMA TotalIsConserved ==
  ASSUME NEW S, IsFiniteSet(S), NEW f \in [S -> Int], NEW from \in S, NEW to \in S, from # to,
         NEW n \in Int
  PROVE  Total([f EXCEPT ![from] = @ - n, ![to] = @ + n]) = Total(f)
<1> DEFINE h == [f EXCEPT ![from] = @ - n, ![to] = @ + n]
<1>1. h \in [S -> Int]
  OBVIOUS
<1>2. PICK g : Sums(g, f, S) /\ Total(f) = g[S]
  BY TotalSums
<1>3. PICK k : Sums(k, h, S) /\ Total(h) = k[S]
  <2> HIDE DEF h
  <2> QED BY <1>1, TotalSums
<1>4. k[S] = g[S] - n + n
  <2>1. Shifted(k, g, S, from, to, n)
    <3> HIDE DEF h
    <3>1. h = [f EXCEPT ![from] = @ - n, ![to] = @ + n]
      BY DEF h
    <3> QED BY <1>2, <1>3, <3>1, SumsShift
  <2> QED BY <2>1 DEF Shifted
<1>5. g[S] \in Int
  BY <1>2, SumsAreIntegers
<1> QED
  BY <1>2, <1>3, <1>4, <1>5
=============================================================================
