------------------------------ MODULE Browse_proofs ------------------------------
(***************************************************************************)
(* For any library, words, pages, and any number of requests, polls and    *)
(* changes: the types, what a calm grid shows, and what answers are taken  *)
(* for.                                                                    *)
(***************************************************************************)
EXTENDS Browse, FiniteSetTheorems, SequenceTheorems, TLAPS

-----------------------------------------------------------------------------
(* The n-th of a finite set of numbers.                                    *)

Below(S, c) == {d \in S : d < c}

LEMMA BelowFinite ==
  ASSUME NEW S \in SUBSET Nat, IsFiniteSet(S), NEW c \in S
  PROVE  IsFiniteSet(Below(S, c)) /\ Cardinality(Below(S, c)) \in 0..(Cardinality(S) - 1)
<1>1. Cardinality(S) \in Nat
  BY FS_CardinalityType
<1>2. Below(S, c) \in SUBSET (S \ {c})
  BY DEF Below
<1>3. IsFiniteSet(S \ {c}) /\ Cardinality(S \ {c}) = Cardinality(S) - 1
  BY FS_RemoveElement
<1>4. IsFiniteSet(Below(S, c)) /\ Cardinality(Below(S, c)) <= Cardinality(S) - 1
  BY <1>2, <1>3, FS_Subset
<1> QED BY <1>1, <1>4, FS_CardinalityType

LEMMA BelowGrows ==
  ASSUME NEW S \in SUBSET Nat, IsFiniteSet(S), NEW c \in S, NEW e \in S, c < e
  PROVE  Cardinality(Below(S, c)) < Cardinality(Below(S, e))
<1>1. \A d \in S : d \in Int
  OBVIOUS
<1>2. Below(S, c) \cup {c} \in SUBSET Below(S, e)
  <2>1. \A d \in S : d < c => d < e
    BY <1>1
  <2>2. \A d \in Below(S, c) : d \in Below(S, e)
    BY <2>1 DEF Below
  <2>3. c \in Below(S, e)
    BY DEF Below
  <2> QED BY <2>2, <2>3
<1>3. c \notin Below(S, c)
  BY <1>1 DEF Below
<1>4. Cardinality(Below(S, c) \cup {c}) = Cardinality(Below(S, c)) + 1
  BY <1>3, BelowFinite, FS_AddElement
<1>5. Cardinality(Below(S, c) \cup {c}) <= Cardinality(Below(S, e))
  BY <1>2, BelowFinite, FS_Subset
<1>6. Cardinality(Below(S, c)) \in Int /\ Cardinality(Below(S, e)) \in Int
  <2>1. Cardinality(S) \in Nat
    BY FS_CardinalityType
  <2> QED BY <2>1, BelowFinite
<1> QED BY <1>4, <1>5, <1>6

\* There is an element of every rank: ranks are an injection into 0..n-1, hence onto.
LEMMA NthElement ==
  ASSUME NEW S \in SUBSET Nat, IsFiniteSet(S), NEW k \in 1..Cardinality(S)
  PROVE  Nth(S, k) \in S /\ Cardinality(Below(S, Nth(S, k))) = k - 1
<1> DEFINE n == Cardinality(S)
           rank == [c \in S |-> Cardinality(Below(S, c))]
<1>1. n \in Nat /\ k - 1 \in 0..(n - 1)
  BY FS_CardinalityType
<1>2. rank \in [S -> 0..(n - 1)]
  BY BelowFinite
<1>3. ASSUME NEW c \in S, NEW e \in S, c # e PROVE rank[c] # rank[e]
  <2>1. c < e \/ e < c
    BY <1>3
  <2>2. rank[c] \in Int /\ rank[e] \in Int
    BY <1>2, <1>1
  <2>3. rank[c] = Cardinality(Below(S, c)) /\ rank[e] = Cardinality(Below(S, e))
    OBVIOUS
  <2> HIDE DEF rank
  <2> QED BY <2>1, <2>2, <2>3, BelowGrows
<1>4. rank \in Injection(S, 0..(n - 1))
  <2> HIDE DEF rank
  <2> QED BY <1>2, <1>3 DEF Injection, IsInjective
<1>5. IsFiniteSet(0..(n - 1)) /\ Cardinality(0..(n - 1)) = n
  <2> HIDE DEF n
  <2>1. 0 \in Int /\ n - 1 \in Int /\ ~ (0 > n - 1 /\ n # 0) /\ (n - 1) - 0 + 1 = n
    BY <1>1
  <2> QED BY <1>1, <2>1, FS_Interval
<1>6. rank \in Surjection(S, 0..(n - 1))
  <2> HIDE DEF rank
  <2> QED BY <1>4, <1>5, FS_Injection
<1>7. PICK c \in S : rank[c] = k - 1
  <2> HIDE DEF rank
  <2> QED BY <1>1, <1>6 DEF Surjection
<1>8. Cardinality(Below(S, c)) = k - 1
  BY <1>7
<1> QED BY <1>8 DEF Nth, Below

LEMMA NthIncreases ==
  ASSUME NEW S \in SUBSET Nat, IsFiniteSet(S),
         NEW j \in 1..Cardinality(S), NEW k \in 1..Cardinality(S), j < k
  PROVE  Nth(S, j) < Nth(S, k)
<1>1. Cardinality(S) \in Nat
  BY FS_CardinalityType
<1>2. PICK c \in S : c = Nth(S, j) /\ Cardinality(Below(S, c)) = j - 1
  BY NthElement
<1>3. PICK e \in S : e = Nth(S, k) /\ Cardinality(Below(S, e)) = k - 1
  BY NthElement
<1>4. c # e /\ ~ (e < c)
  BY <1>1, <1>2, <1>3, BelowGrows
<1> QED BY <1>2, <1>3, <1>4

LEMMA NthUnique ==
  ASSUME NEW S \in SUBSET Nat, IsFiniteSet(S), NEW c \in S,
         NEW k \in 1..Cardinality(S), Cardinality(Below(S, c)) = k - 1
  PROVE  Nth(S, k) = c
<1>1. Cardinality(S) \in Nat
  BY FS_CardinalityType
<1>2. PICK e \in S : e = Nth(S, k) /\ Cardinality(Below(S, e)) = k - 1
  BY NthElement
<1>3. ~ (c < e) /\ ~ (e < c)
  BY <1>1, <1>2, BelowGrows
<1> QED BY <1>2, <1>3

\* Every element has its place.
LEMMA NthReaches ==
  ASSUME NEW S \in SUBSET Nat, IsFiniteSet(S), NEW c \in S
  PROVE  \E k \in 1..Cardinality(S) : Nth(S, k) = c
<1>1. Cardinality(S) \in Nat
  BY FS_CardinalityType
<1>2. PICK r \in 0..(Cardinality(S) - 1) : r = Cardinality(Below(S, c))
  BY BelowFinite
<1>3. r + 1 \in 1..Cardinality(S) /\ (r + 1) - 1 = r
  BY <1>1
<1> QED BY <1>2, <1>3, NthUnique

\* A function that keeps the order keeps the places.
LEMMA NthOfImage ==
  ASSUME NEW S \in SUBSET Nat, IsFiniteSet(S), NEW T \in SUBSET Nat,
         NEW f \in [S -> T], \A e \in T : \E c \in S : f[c] = e,
         \A c, e \in S : c < e => f[c] < f[e]
  PROVE  /\ IsFiniteSet(T) /\ Cardinality(T) = Cardinality(S)
         /\ \A k \in 1..Cardinality(S) : Nth(T, k) = f[Nth(S, k)]
<1>0. \A c \in S, e \in S : c # e => f[c] # f[e]
  <2> SUFFICES ASSUME NEW c \in S, NEW e \in S, c # e PROVE f[c] # f[e]
    OBVIOUS
  <2>1. PICK x \in T, y \in T : x = f[c] /\ y = f[e]
    OBVIOUS
  <2>2. c < e \/ e < c
    OBVIOUS
  <2>3. x < y \/ y < x
    BY <2>1, <2>2
  <2>4. x \in Int /\ y \in Int
    OBVIOUS
  <2>5. x # y
    BY <2>3, <2>4
  <2> QED BY <2>1, <2>5
<1>1. IsFiniteSet(T) /\ Cardinality(T) = Cardinality(S)
  <2>1. f \in Bijection(S, T)
    BY <1>0 DEF Bijection, Injection, Surjection, IsInjective
  <2> QED BY <2>1, FS_Bijection DEF ExistsBijection
<1>2. ASSUME NEW k \in 1..Cardinality(S) PROVE Nth(T, k) = f[Nth(S, k)]
  <2>1. PICK c \in S : c = Nth(S, k) /\ Cardinality(Below(S, c)) = k - 1
    BY NthElement
  <2> DEFINE g == [d \in Below(S, c) |-> f[d]]
  <2>2. \A d \in S : d < c <=> f[d] < f[c]
    <3> SUFFICES ASSUME NEW d \in S PROVE d < c <=> f[d] < f[c]
      OBVIOUS
    <3>1. PICK x \in T, y \in T : x = f[d] /\ y = f[c]
      OBVIOUS
    <3>2. c < d => y < x
      BY <3>1
    <3>3. d < c => x < y
      BY <3>1
    <3>4. x \in Int /\ y \in Int /\ c \in Int /\ d \in Int
      OBVIOUS
    <3>5. c = d => x = y
      BY <3>1
    <3>6. d < c <=> x < y
      BY <3>2, <3>3, <3>4, <3>5
    <3> QED BY <3>1, <3>6
  <2>3. g \in Bijection(Below(S, c), Below(T, f[c]))
    <3>1. g \in [Below(S, c) -> Below(T, f[c])]
      BY <2>2 DEF Below
    <3>2. \A e \in Below(T, f[c]) : \E d \in Below(S, c) : g[d] = e
      BY <2>2 DEF Below
    <3>3. \A d, e \in Below(S, c) : g[d] = g[e] => d = e
      BY <1>0 DEF Below
    <3> HIDE DEF g
    <3> QED BY <3>1, <3>2, <3>3 DEF Bijection, Injection, Surjection, IsInjective
  <2>4. Cardinality(Below(T, f[c])) = k - 1
    <3> HIDE DEF g
    <3>1. IsFiniteSet(Below(S, c))
      BY BelowFinite
    <3>2. ExistsBijection(Below(S, c), Below(T, f[c]))
      BY <2>3 DEF ExistsBijection
    <3>3. Cardinality(Below(T, f[c])) = Cardinality(Below(S, c))
      BY <3>1, <3>2, FS_Bijection
    <3> QED BY <2>1, <3>3
  <2>5. f[c] \in T /\ k \in 1..Cardinality(T)
    BY <1>1
  <2>6. Nth(T, k) = f[c]
    <3> HIDE DEF g
    <3>1. PICK e \in T : e = f[c]
      BY <2>5
    <3>2. Cardinality(Below(T, e)) = k - 1
      BY <2>4, <3>1
    <3>3. Nth(T, k) = e
      BY <1>1, <2>5, <3>2, NthUnique
    <3> QED BY <3>1, <3>3
  <2> HIDE DEF g
  <2> QED BY <2>1, <2>6
<1> QED BY <1>1, <1>2

\* The first of a set are the first of its beginning.
LEMMA NthOfBeginning ==
  ASSUME NEW S \in SUBSET Nat, IsFiniteSet(S), NEW m \in Nat
  PROVE  LET T == {i \in S : i <= m}
         IN  /\ IsFiniteSet(T) /\ Cardinality(T) <= Cardinality(S)
             /\ \A k \in 1..Cardinality(T) : Nth(S, k) = Nth(T, k)
<1> DEFINE T == {i \in S : i <= m}
<1>1. IsFiniteSet(T) /\ Cardinality(T) <= Cardinality(S) /\ T \in SUBSET Nat
  BY FS_Subset
<1>2. ASSUME NEW k \in 1..Cardinality(T) PROVE Nth(S, k) = Nth(T, k)
  <2>1. Cardinality(T) \in Nat /\ Cardinality(S) \in Nat
    BY <1>1, FS_CardinalityType
  <2>2. k \in 1..Cardinality(S)
    BY <1>1, <2>1
  <2>3. PICK c \in T : c = Nth(T, k) /\ Cardinality(Below(T, c)) = k - 1
    <3> HIDE DEF T
    <3> QED BY <1>1, NthElement
  <2>4. Below(T, c) = Below(S, c)
    <3>1. c \in Nat /\ c <= m
      OBVIOUS
    <3>2. \A d \in S : d < c => d <= m
      BY <3>1
    <3> QED BY <3>2 DEF Below
  <2>5. c \in S
    OBVIOUS
  <2> HIDE DEF T
  <2> QED BY <2>2, <2>3, <2>4, <2>5, NthUnique
<1> QED BY <1>1, <1>2

-----------------------------------------------------------------------------
(* What is left of a list.                                                 *)

LEMMA PlacesFinite ==
  ASSUME NEW X, NEW s \in Seq(X), NEW S
  PROVE  /\ Places(s, S) \in SUBSET (1..Len(s)) /\ Places(s, S) \in SUBSET Nat
         /\ IsFiniteSet(Places(s, S)) /\ Cardinality(Places(s, S)) \in Nat
<1>1. Len(s) \in Nat /\ DOMAIN s = 1..Len(s)
  BY LenProperties
<1>2. Places(s, S) \in SUBSET (1..Len(s))
  BY <1>1 DEF Places
<1>3. IsFiniteSet(1..Len(s)) /\ \A i \in 1..Len(s) : i \in Nat
  BY <1>1, FS_Interval
<1> QED BY <1>2, <1>3, FS_Subset, FS_CardinalityType

LEMMA FilterElements ==
  ASSUME NEW X, NEW s \in Seq(X), NEW S
  PROVE  /\ Filter(s, S) \in Seq(X)
         /\ Len(Filter(s, S)) = Cardinality(Places(s, S))
         /\ \A k \in 1..Cardinality(Places(s, S)) :
              /\ Filter(s, S)[k] = s[Nth(Places(s, S), k)] /\ Filter(s, S)[k] \in S
              /\ Nth(Places(s, S), k) \in Places(s, S)
<1> DEFINE P == Places(s, S)
           n == Cardinality(P)
<1>1. n \in Nat /\ IsFiniteSet(P) /\ P \in SUBSET Nat /\ P \in SUBSET (1..Len(s))
  BY PlacesFinite
<1>2. \A k \in 1..n : Nth(P, k) \in P
  <2> HIDE DEF P
  <2> QED BY <1>1, NthElement
<1>3. \A i \in P : s[i] \in S /\ s[i] \in X
  BY <1>1, ElementOfSeq DEF Places
<1>4. Filter(s, S) = [k \in 1..n |-> s[Nth(P, k)]]
  BY DEF Filter
<1> HIDE DEF P, n
<1>5. Filter(s, S) \in [1..n -> X]
  BY <1>2, <1>3, <1>4
<1>6. Filter(s, S) \in Seq(X) /\ Len(Filter(s, S)) = n
  BY <1>1, <1>5
<1> QED BY <1>2, <1>3, <1>4, <1>6 DEF P, n

LEMMA FilterInjective ==
  ASSUME NEW X, NEW s \in Seq(X), IsInjective(s), NEW S
  PROVE  IsInjective(Filter(s, S))
<1> DEFINE t == Filter(s, S)
           P == Places(s, S)
<1>1. t \in Seq(X) /\ Len(t) = Cardinality(P) /\ Cardinality(P) \in Nat
  BY FilterElements, PlacesFinite
<1>2. DOMAIN t = 1..Cardinality(P)
  BY <1>1, LenProperties
<1>3. ASSUME NEW j \in DOMAIN t, NEW k \in DOMAIN t, t[j] = t[k] PROVE j = k
  <2>0. j \in 1..Cardinality(P) /\ k \in 1..Cardinality(P)
    BY <1>2
  <2>1. PICK a \in P : a = Nth(P, j) /\ t[j] = s[a]
    BY <2>0, FilterElements
  <2>2. PICK b \in P : b = Nth(P, k) /\ t[k] = s[b]
    BY <2>0, FilterElements
  <2>3. a = b
    BY <1>3, <2>1, <2>2 DEF IsInjective, Places
  <2>4. ~ (j < k) /\ ~ (k < j)
    <3>1. a \in Int /\ IsFiniteSet(P) /\ P \in SUBSET Nat
      BY PlacesFinite
    <3> HIDE DEF P
    <3>2. ~ (a < a)
      BY <3>1
    <3> QED BY <2>0, <2>1, <2>2, <2>3, <3>1, <3>2, NthIncreases
  <2> QED BY <1>1, <2>0, <2>4
<1> HIDE DEF t
<1> QED BY <1>3 DEF IsInjective, t

LEMMA FilterRange ==
  ASSUME NEW X, NEW s \in Seq(X), NEW S
  PROVE  ToSet(Filter(s, S)) = ToSet(s) \cap S
<1> DEFINE t == Filter(s, S)
           P == Places(s, S)
<1>1. t \in Seq(X) /\ Len(t) = Cardinality(P) /\ Cardinality(P) \in Nat
  BY FilterElements, PlacesFinite
<1>2. DOMAIN t = 1..Cardinality(P)
  BY <1>1, LenProperties
<1>3. ASSUME NEW k \in DOMAIN t PROVE t[k] \in ToSet(s) \cap S
  <2>1. Nth(P, k) \in P /\ t[k] = s[Nth(P, k)] /\ t[k] \in S
    BY <1>2, FilterElements
  <2> QED BY <2>1 DEF Places, ToSet
<1>4. ASSUME NEW i \in DOMAIN s, s[i] \in S PROVE \E k \in DOMAIN t : t[k] = s[i]
  <2>1. i \in P /\ IsFiniteSet(P) /\ P \in SUBSET Nat
    BY <1>4, PlacesFinite DEF Places
  <2>2. PICK k \in 1..Cardinality(P) : Nth(P, k) = i
    <3> HIDE DEF P
    <3> QED BY <2>1, NthReaches
  <2> QED BY <1>2, <2>2, FilterElements
<1> HIDE DEF t
<1> QED BY <1>3, <1>4 DEF ToSet, t

\* To filter twice is to filter by both.
LEMMA FilterTwice ==
  ASSUME NEW X, NEW s \in Seq(X), NEW A, NEW B
  PROVE  Filter(Filter(s, A), B) = Filter(s, A \cap B)
<1> DEFINE t == Filter(s, A)
           P == Places(s, A)
           Q == Places(t, B)
           R == Places(s, A \cap B)
           f == [k \in Q |-> Nth(P, k)]
<1>1. /\ t \in Seq(X) /\ Len(t) = Cardinality(P) /\ Cardinality(P) \in Nat
      /\ IsFiniteSet(P) /\ P \in SUBSET Nat
  BY FilterElements, PlacesFinite
<1>2. DOMAIN t = 1..Cardinality(P)
  BY <1>1, LenProperties
<1>3. \A k \in 1..Cardinality(P) : Nth(P, k) \in P /\ t[k] = s[Nth(P, k)] /\ t[k] \in A
  BY FilterElements
<1>4. /\ Q \in SUBSET (1..Cardinality(P)) /\ Q \in SUBSET Nat /\ IsFiniteSet(Q)
      /\ R \in SUBSET Nat
  <2> HIDE DEF P, t
  <2> QED BY <1>1, PlacesFinite
<1>5. f \in [Q -> R]
  <2>1. \A k \in Q : Nth(P, k) \in R
    BY <1>3, <1>4 DEF Places
  <2> HIDE DEF R, Q, P
  <2> QED BY <2>1
<1>6. \A e \in R : \E c \in Q : f[c] = e
  <2> SUFFICES ASSUME NEW e \in R PROVE \E c \in Q : f[c] = e
    OBVIOUS
  <2>1. e \in P /\ s[e] \in B
    BY DEF Places
  <2>2. PICK c \in 1..Cardinality(P) : Nth(P, c) = e
    <3> HIDE DEF P
    <3> QED BY <1>1, <2>1, NthReaches
  <2>3. c \in Q
    BY <1>2, <1>3, <2>1, <2>2 DEF Places
  <2> QED BY <2>2, <2>3
<1>7. \A c, e \in Q : c < e => f[c] < f[e]
  <2> SUFFICES ASSUME NEW c \in Q, NEW e \in Q, c < e PROVE f[c] < f[e]
    OBVIOUS
  <2>1. c \in 1..Cardinality(P) /\ e \in 1..Cardinality(P)
    BY <1>4
  <2>2. Nth(P, c) < Nth(P, e)
    <3> HIDE DEF P, Q
    <3> QED BY <1>1, <2>1, NthIncreases
  <2> QED BY <2>2
<1>8. /\ Cardinality(R) = Cardinality(Q)
      /\ \A k \in 1..Cardinality(Q) : Nth(R, k) = f[Nth(Q, k)] /\ Nth(Q, k) \in Q
  <2> HIDE DEF R, Q, f
  <2> QED BY <1>4, <1>5, <1>6, <1>7, NthOfImage, NthElement
<1>9. \A k \in 1..Cardinality(Q) : t[Nth(Q, k)] = s[Nth(R, k)]
  <2> SUFFICES ASSUME NEW k \in 1..Cardinality(Q) PROVE t[Nth(Q, k)] = s[Nth(R, k)]
    OBVIOUS
  <2>1. Nth(R, k) = Nth(P, Nth(Q, k)) /\ Nth(Q, k) \in Q
    BY <1>8
  <2> HIDE DEF P, R, Q
  <2> QED BY <1>3, <1>4, <2>1
<1>10. Filter(t, B) = [k \in 1..Cardinality(Q) |-> t[Nth(Q, k)]]
  BY DEF Filter
<1>11. Filter(s, A \cap B) = [k \in 1..Cardinality(R) |-> s[Nth(R, k)]]
  BY DEF Filter
<1> HIDE DEF Q, R, P
<1> QED BY <1>8, <1>9, <1>10, <1>11

LEMMA PrefixIs ==
  ASSUME NEW X, NEW s \in Seq(X), NEW t \in Seq(X)
  PROVE  IsPrefix(t, s) <=> Len(t) <= Len(s) /\ \A i \in 1..Len(t) : t[i] = s[i]
<1>1. Len(s) \in Nat /\ Len(t) \in Nat
  BY LenProperties
<1>2. SubSeq(t, 1, Len(t)) = t
  BY SubSeqFull
<1>3. ASSUME Len(t) <= Len(s) PROVE SubSeq(s, 1, Len(t)) = t <=> \A i \in 1..Len(t) : t[i] = s[i]
  <2>1. \A i \in 1..Len(t) : s[i] \in X
    BY <1>1, <1>3, ElementOfSeq
  <2>2. /\ SubSeq(s, 1, Len(t)) \in Seq(X) /\ Len(SubSeq(s, 1, Len(t))) = Len(t)
        /\ \A i \in 1..Len(t) : SubSeq(s, 1, Len(t))[i] = s[i]
    BY <1>1, <2>1, SubSeqProperties
  <2> QED BY <2>2, SeqEqual
<1> QED BY <1>2, <1>3 DEF IsPrefix

\* The beginning of a list stays one when both are filtered, and stays the same list
\* short when what follows it is in the set.
LEMMA FilterPrefix ==
  ASSUME NEW X, NEW s \in Seq(X), NEW t \in Seq(X), IsPrefix(t, s), NEW S
  PROVE  /\ IsPrefix(Filter(t, S), Filter(s, S))
         /\ (\A i \in 1..Len(s) : i > Len(t) => s[i] \in S) =>
              (Len(Filter(t, S)) < Len(Filter(s, S)) <=> Len(t) < Len(s))
<1> DEFINE P == Places(s, S)
           Q == Places(t, S)
           m == Len(t)
<1>1. /\ Len(s) \in Nat /\ m \in Nat /\ m <= Len(s) /\ \A i \in 1..m : t[i] = s[i]
      /\ DOMAIN s = 1..Len(s) /\ DOMAIN t = 1..m
  BY PrefixIs, LenProperties
<1>2. IsFiniteSet(P) /\ P \in SUBSET Nat /\ Cardinality(P) \in Nat /\ Cardinality(Q) \in Nat
  BY PlacesFinite
<1>3. Q = {i \in P : i <= m}
  BY <1>1 DEF Places
<1>4. /\ Cardinality(Q) <= Cardinality(P)
      /\ \A k \in 1..Cardinality(Q) : Nth(P, k) = Nth(Q, k)
  <2> HIDE DEF P, Q, m
  <2> QED BY <1>1, <1>2, <1>3, NthOfBeginning
<1>5. /\ Filter(s, S) \in Seq(X) /\ Len(Filter(s, S)) = Cardinality(P)
      /\ \A k \in 1..Cardinality(P) : Filter(s, S)[k] = s[Nth(P, k)]
  BY FilterElements
<1>6. /\ Filter(t, S) \in Seq(X) /\ Len(Filter(t, S)) = Cardinality(Q)
      /\ \A k \in 1..Cardinality(Q) : Filter(t, S)[k] = t[Nth(Q, k)] /\ Nth(Q, k) \in Q
  BY FilterElements
<1>7. \A k \in 1..Cardinality(Q) : Filter(t, S)[k] = Filter(s, S)[k]
  <2> SUFFICES ASSUME NEW k \in 1..Cardinality(Q) PROVE Filter(t, S)[k] = Filter(s, S)[k]
    OBVIOUS
  <2>1. k \in 1..Cardinality(P)
    BY <1>2, <1>4
  <2>2. Nth(Q, k) \in 1..m
    BY <1>1, <1>6 DEF Places
  <2> HIDE DEF P, Q, m
  <2> QED BY <1>1, <1>4, <1>5, <1>6, <2>1, <2>2
<1>8. IsPrefix(Filter(t, S), Filter(s, S))
  <2> HIDE DEF P, Q, m
  <2> QED BY <1>4, <1>5, <1>6, <1>7, PrefixIs
<1>9. ASSUME \A i \in 1..Len(s) : i > m => s[i] \in S
      PROVE  Cardinality(Q) < Cardinality(P) <=> m < Len(s)
  <2>1. CASE m < Len(s)
    <3>1. Len(s) \in P /\ Len(s) \notin Q
      BY <1>1, <1>9, <2>1 DEF Places
    <3>2. Q \in SUBSET P /\ Q # P
      BY <1>3, <3>1
    <3> HIDE DEF P, Q
    <3>3. Cardinality(Q) # Cardinality(P)
      BY <1>2, <3>2, FS_Subset
    <3> QED BY <1>2, <1>4, <2>1, <3>3
  <2>2. CASE ~ (m < Len(s))
    <3>1. \A i \in P : i <= m
      BY <1>1, <2>2 DEF Places
    <3>2. Q = P
      BY <1>3, <3>1
    <3> QED BY <1>2, <2>2, <3>2
  <2> QED BY <2>1, <2>2
<1> QED BY <1>5, <1>6, <1>8, <1>9

-----------------------------------------------------------------------------
(* The types.                                                              *)

Slots == 0..MaxRequests
Rows  == Jobs \cup ToSet(Actions)

LibTypes ==
  /\ DOMAIN lib = {"jobs", "edited", "active"}
  /\ lib.jobs \in Seq(Jobs) /\ IsInjective(lib.jobs)
  /\ lib.edited \subseteq Jobs /\ lib.active \in 0..1

PageTypes ==
  /\ DOMAIN page = {"all", "no", "more", "button", "word", "timer", "box", "saving", "edited"}
  /\ page.all \in Seq(Jobs) /\ page.no \in Nat \ {0}
  /\ page.more \in BOOLEAN /\ page.button \in BOOLEAN /\ (page.button <=> page.more)
  /\ page.word \in BOOLEAN /\ page.timer \in BOOLEAN /\ page.saving \in BOOLEAN
  /\ page.box \in Jobs \cup {Nothing} /\ page.edited \subseteq Jobs
  /\ page.timer => view = "grid"

TabsTypes ==
  /\ DOMAIN tabs = {"selected", "cache", "shown"}
  /\ tabs.selected \in Seasons \cup {Nothing} /\ DOMAIN tabs.cache = Seasons
  /\ \A s \in Seasons : tabs.cache[s] = Nothing \/ tabs.cache[s] \subseteq Jobs

Polled == {"idle", "sent", "some", "none"}

PillTypes ==
  /\ DOMAIN pill = {"text", "polls", "home"}
  /\ pill.text \in {"health", "processing", "idle"} /\ pill.home \in Polled
  /\ DOMAIN pill.polls = 1..MaxPolls /\ \A p \in 1..MaxPolls : pill.polls[p] \in Polled

PalTypes ==
  /\ DOMAIN pal = {"open", "word", "timer", "list", "shown", "active"}
  /\ pal.open \in BOOLEAN /\ pal.word \in BOOLEAN /\ pal.timer \in BOOLEAN
  /\ pal.list \in Seq(Rows) /\ pal.shown \in BOOLEAN \cup {Nothing} /\ pal.active \in Nat
  /\ pal.open \/ pal.timer => view = "palette"

IsPage(a) == DOMAIN a = {"jobs", "more"} /\ a.jobs \in Seq(Jobs) /\ a.more \in BOOLEAN

IsCall(q) ==
  /\ DOMAIN q = {"kind", "arg", "word", "ans"} /\ q.word \in BOOLEAN
  /\ \/ q = Over
     \/ /\ q.kind \in {"list", "more"} /\ q.arg \in Nat \ {0}
        /\ q.ans # Nothing => IsPage(q.ans)
     \/ /\ q.kind \in {"delete", "edit"} /\ q.arg \in Jobs /\ q.ans \in {Nothing, TRUE, FALSE}
     \/ /\ q.kind = "episodes" /\ q.arg \in Seasons
        /\ q.ans # Nothing => q.ans \subseteq Jobs
     \/ /\ q.kind = "palette"
        /\ q.ans # Nothing => q.ans \in Seq(Jobs)

CallsTypes ==
  /\ DOMAIN calls = Slots /\ \A n \in Slots : IsCall(calls[n])
  /\ \A n \in Slots : n > hist.asked => calls[n] = Over

HistTypes ==
  /\ DOMAIN hist = {"asked", "changes", "calm", "removed"}
  /\ hist.asked \in Nat /\ hist.changes \in Nat
  /\ hist.calm \in BOOLEAN /\ hist.removed \in BOOLEAN

Types ==
  /\ view \in {"grid", "seasons", "home", "other", "palette"}
  /\ LibTypes /\ PageTypes /\ TabsTypes /\ PillTypes /\ PalTypes /\ CallsTypes /\ HistTypes

\* The button of the edit box waits for the one edit under way.
Has(kind) == \E n \in Slots : calls[n].kind = kind

Saving ==
  /\ \A n, m \in Slots : calls[n].kind = "edit" /\ calls[m].kind = "edit" => n = m
  /\ page.saving <=> Has("edit")

-----------------------------------------------------------------------------
(* Answers.                                                                *)

\* What is cached, and what will be; which videos were edited.
Fits ==
  /\ \A s \in Seasons : tabs.cache[s] # Nothing => \A j \in tabs.cache[s] : SeasonOf[j] = s
  /\ page.edited \subseteq lib.edited
  /\ \A n \in Slots :
       /\ calls[n].kind = "episodes" /\ calls[n].ans # Nothing =>
            \A j \in calls[n].ans : SeasonOf[j] = calls[n].arg
       /\ calls[n].kind = "edit" /\ calls[n].ans = TRUE => calls[n].arg \in lib.edited

\* A request of a calm palette is for what is typed, and will be shown.
PalFits ==
  (pal.open /\ hist.calm) =>
    /\ pal.timer => pal.word
    /\ ~pal.timer => /\ \A n \in Slots : calls[n].kind = "palette" => (calls[n].word <=> pal.word)
                     /\ ~Has("palette") => pal.shown = pal.word

-----------------------------------------------------------------------------
(* The grid.                                                               *)

Kinds == {"list", "more", "delete"}
M == Matching(page.word)

\* The page shows so much of the list.
Shows(all) == IsPrefix(all, M) /\ (page.more <=> Len(all) < Len(M))

Settled ==
  /\ Shows(page.all)
  /\ ~hist.removed => page.all = SubSeq(M, 1, Min({page.no * PageSize, Len(M)}))

\* The one request under way gets what the list goes on with.
Awaits(q) ==
  /\ q.kind = "list" =>
       /\ q.arg = 1 /\ (q.word <=> page.word) /\ page.all = <<>> /\ ~hist.removed
       /\ q.ans = Nothing \/ q.ans = Page(page.word, 1)
  /\ q.kind = "more" =>
       /\ Settled /\ page.more /\ q.arg = page.no + 1 /\ (q.word <=> page.word) /\ ~hist.removed
       /\ q.ans = Nothing \/ q.ans = Page(page.word, page.no + 1)
  /\ q.kind = "delete" =>
       /\ hist.removed /\ q.arg \in ToSet(page.all)
       /\ IF q.ans = TRUE THEN Shows(Filter(page.all, Jobs \ {q.arg})) ELSE Shows(page.all)

GridFits ==
  (view = "grid" /\ hist.calm) =>
    /\ ~page.timer
    /\ \A n, m \in Slots : calls[n].kind \in Kinds /\ calls[m].kind \in Kinds => n = m
    /\ \A n \in Slots : Awaits(calls[n])
    /\ (\A n \in Slots : calls[n].kind \notin Kinds) => Settled

Inv == Types /\ Saving /\ Fits /\ PalFits /\ GridFits

-----------------------------------------------------------------------------
(* The types are kept.                                                     *)

LEMMA UnderWayIs ==
  ASSUME Types, NEW n \in Slots
  PROVE  n \in UnderWay <=> calls[n].kind # "none"
<1>1. IsCall(calls[n])
  BY DEF Types, CallsTypes
<1>2. Over.kind = "none"
  BY DEF Over, Call
<1>3. calls[n] # Over => calls[n].kind # "none"
  BY <1>1 DEF IsCall
<1> QED BY <1>2, <1>3 DEF UnderWay, Slots

LEMMA AskedSlot ==
  ASSUME Types, NEW q, Asks(q)
  PROVE  \E n \in Slots : n = hist.asked + 1 /\ calls[n] = Over /\ calls' = [calls EXCEPT ![n] = q]
<1>1. hist.asked + 1 \in Slots /\ hist.asked + 1 > hist.asked
  BY BrowseAssumption DEF Types, HistTypes, Asks, Request, Slots
<1> QED BY <1>1 DEF Types, HistTypes, CallsTypes, Asks

LEMMA AskTypes ==
  ASSUME Types, NEW q, Asks(q), IsCall(q), hist'.asked = hist.asked + 1
  PROVE  CallsTypes'
<1>1. PICK n \in Slots :
        n = hist.asked + 1 /\ calls[n] = Over /\ calls' = [calls EXCEPT ![n] = q]
  BY AskedSlot
<1>2. Slots \subseteq Int /\ hist.asked \in Int
  BY BrowseAssumption DEF Slots, Types, HistTypes
<1> QED BY <1>1, <1>2 DEF Types, CallsTypes

LEMMA SetTypes ==
  ASSUME Types, NEW n \in UnderWay, NEW q, calls' = [calls EXCEPT ![n] = q], IsCall(q),
         hist'.asked = hist.asked
  PROVE  CallsTypes'
BY DEF Types, CallsTypes, UnderWay, Slots

LEMMA CallIs ==
  ASSUME NEW kind, NEW arg, NEW word
  PROVE  /\ DOMAIN Call(kind, arg, word) = {"kind", "arg", "word", "ans"}
         /\ Call(kind, arg, word).kind = kind /\ Call(kind, arg, word).arg = arg
         /\ Call(kind, arg, word).word = word /\ Call(kind, arg, word).ans = Nothing
BY DEF Call

LEMMA OverIs == IsCall(Over) /\ Over.kind = "none"
BY DEF Over, Call, IsCall

LEMMA MinIs == \A a, b \in Int : Min({a, b}) = IF a <= b THEN a ELSE b
<1> SUFFICES ASSUME NEW a \in Int, NEW b \in Int PROVE Min({a, b}) = IF a <= b THEN a ELSE b
  OBVIOUS
<1> DEFINE c == IF a <= b THEN a ELSE b
<1>1. c \in {a, b} /\ \A y \in {a, b} : c =< y
  OBVIOUS
<1>2. \A x \in {a, b} : (\A y \in {a, b} : x =< y) => x = c
  OBVIOUS
<1> QED BY <1>1, <1>2 DEF Min

LEMMA MaxIs == \A a, b \in Int : Max({a, b}) = IF a >= b THEN a ELSE b
<1> SUFFICES ASSUME NEW a \in Int, NEW b \in Int PROVE Max({a, b}) = IF a >= b THEN a ELSE b
  OBVIOUS
<1> DEFINE c == IF a >= b THEN a ELSE b
<1>1. c \in {a, b} /\ \A y \in {a, b} : c >= y
  OBVIOUS
<1>2. \A x \in {a, b} : (\A y \in {a, b} : x >= y) => x = c
  OBVIOUS
<1> QED BY <1>1, <1>2 DEF Max

LEMMA MatchingTypes ==
  ASSUME Types, NEW word \in BOOLEAN
  PROVE  /\ Matching(word) \in Seq(Jobs) /\ IsInjective(Matching(word))
         /\ Len(Matching(word)) \in Nat /\ ToSet(Matching(word)) \subseteq ToSet(lib.jobs)
<1>1. Matching(word) \in Seq(Jobs) /\ IsInjective(Matching(word))
  BY FilterElements, FilterInjective DEF Types, LibTypes, Matching
<1>2. ToSet(Matching(word)) \subseteq ToSet(lib.jobs)
  BY FilterRange DEF Types, LibTypes, Matching
<1> QED BY <1>1, <1>2, LenProperties

\* A page of the list, and its place in it.
LEMMA PageIs ==
  ASSUME Types, NEW word \in BOOLEAN, NEW no \in Nat \ {0}
  PROVE  LET all  == Matching(word)
             low  == (no - 1) * PageSize
             high == IF no * PageSize <= Len(all) THEN no * PageSize ELSE Len(all)
         IN  /\ IsPage(Page(word, no))
             /\ Page(word, no).jobs = SubSeq(all, low + 1, high)
             /\ Page(word, no).more <=> no * PageSize < Len(all)
<1> DEFINE all  == Matching(word)
           low  == (no - 1) * PageSize
           high == IF no * PageSize <= Len(all) THEN no * PageSize ELSE Len(all)
<1>1. all \in Seq(Jobs) /\ Len(all) \in Nat
  BY MatchingTypes
<1>2. low \in Nat /\ no * PageSize \in Nat
  BY BrowseAssumption
<1>3. Min({no * PageSize, Len(all)}) = high /\ high \in Int /\ high <= Len(all)
  BY <1>1, <1>2, MinIs
<1>4. \A i \in (low + 1)..high : all[i] \in Jobs
  <2> HIDE DEF all, high, low
  <2> QED BY <1>1, <1>2, <1>3, ElementOfSeq
<1>5. SubSeq(all, low + 1, high) \in Seq(Jobs)
  <2> HIDE DEF all, high, low
  <2> QED BY <1>2, <1>3, <1>4, SubSeqProperties
<1>6. /\ DOMAIN Page(word, no) = {"jobs", "more"} /\ Page(word, no).more \in BOOLEAN
      /\ Page(word, no).more <=> no * PageSize < Len(all)
  <2> DEFINE x == no * PageSize
  <2>1. /\ DOMAIN Page(word, no) = {"jobs", "more"}
        /\ Page(word, no).more = (x < Len(all))
    BY DEF Page
  <2>2. (x < Len(all)) \in BOOLEAN
    OBVIOUS
  <2> HIDE DEF x, low, high, all
  <2>3. /\ DOMAIN Page(word, no) = {"jobs", "more"} /\ Page(word, no).more \in BOOLEAN
        /\ Page(word, no).more <=> x < Len(all)
    BY <2>1, <2>2
  <2> QED BY <2>3 DEF x
<1>7. Page(word, no).jobs = SubSeq(all, low + 1, Min({no * PageSize, Len(all)}))
  BY DEF Page
<1>8. Page(word, no).jobs = SubSeq(all, low + 1, high)
  <2> HIDE DEF all, high, low
  <2> QED BY <1>3, <1>7
<1>9. IsPage(Page(word, no))
  <2> HIDE DEF all, high, low
  <2> QED BY <1>5, <1>6, <1>8 DEF IsPage
<1> QED BY <1>6, <1>8, <1>9

LEMMA ShortList ==
  ASSUME NEW l \in Seq(Jobs)
  PROVE  SubSeq(l, 1, Min({PaletteSize, Len(l)})) \in Seq(Jobs)
<1>1. Len(l) \in Nat /\ PaletteSize \in Nat
  BY LenProperties, BrowseAssumption
<1>2. PICK n \in 0..Len(l) : Min({PaletteSize, Len(l)}) = n
  BY <1>1, MinIs
<1>3. \A i \in 1..n : l[i] \in Jobs
  BY <1>1, ElementOfSeq
<1>4. SubSeq(l, 1, n) \in Seq(Jobs)
  BY <1>3, SubSeqProperties
<1> QED BY <1>2, <1>4

\* A request that gets the answer a.
Answered(n, a) ==
  /\ calls[n].ans = Nothing
  /\ \E q : /\ calls' = [calls EXCEPT ![n] = q] /\ IsCall(q)
            /\ q.kind = calls[n].kind /\ q.arg = calls[n].arg /\ q.word = calls[n].word
            /\ q.ans = a

LEMMA AnswerIs ==
  ASSUME Types, NEW n \in UnderWay, NEW a, calls[n].ans = Nothing,
         calls' = [calls EXCEPT ![n].ans = a],
         CASE calls[n].kind \in {"list", "more"}   -> IsPage(a)
           [] calls[n].kind \in {"delete", "edit"} -> a \in BOOLEAN
           [] calls[n].kind = "episodes"           -> a \subseteq Jobs
           [] calls[n].kind = "palette"            -> a \in Seq(Jobs)
  PROVE  Answered(n, a)
<1>1. n \in Slots /\ IsCall(calls[n]) /\ DOMAIN calls = Slots /\ calls[n] # Over
  BY DEF Types, CallsTypes, UnderWay, Slots
<1>2. PICK q : q = [calls[n] EXCEPT !.ans = a]
  OBVIOUS
<1>3. calls' = [calls EXCEPT ![n] = q]
  BY <1>1, <1>2
<1>4. /\ DOMAIN q = DOMAIN calls[n] /\ q.ans = a
      /\ q.kind = calls[n].kind /\ q.arg = calls[n].arg /\ q.word = calls[n].word
  BY <1>1, <1>2 DEF IsCall
<1>5. IsCall(q)
  BY <1>1, <1>4 DEF IsCall
<1> QED BY <1>3, <1>4, <1>5 DEF Answered

\* What the server answers, and what it does.
Served(n, a) ==
  /\ Answered(n, a)
  /\ calls[n].kind \in {"list", "more"} =>
       a = Page(calls[n].word, calls[n].arg) /\ lib' = lib
  /\ calls[n].kind = "episodes" => a = Episodes(calls[n].arg) /\ lib' = lib
  /\ calls[n].kind = "palette" => lib' = lib
  /\ calls[n].kind = "delete" =>
       /\ a \in BOOLEAN /\ (a <=> calls[n].arg \in ToSet(lib.jobs))
       /\ lib' = IF a THEN [lib EXCEPT !.jobs = Filter(@, Jobs \ {calls[n].arg})] ELSE lib
  /\ calls[n].kind = "edit" =>
       /\ a <=> calls[n].arg \in ToSet(lib.jobs)
       /\ lib' = IF a THEN [lib EXCEPT !.edited = @ \cup {calls[n].arg}] ELSE lib

LEMMA ServeIs ==
  ASSUME Types, NEW n \in UnderWay, Serve(n)
  PROVE  \E a : Served(n, a)
<1>1. /\ IsCall(calls[n]) /\ calls[n] # Over /\ calls[n].ans = Nothing
      /\ lib.jobs \in Seq(Jobs)
  BY DEF Types, CallsTypes, LibTypes, UnderWay, Slots, Serve
<1>2. CASE calls[n].kind \in {"list", "more"}
  <2>1. calls' = [calls EXCEPT ![n].ans = Page(calls[n].word, calls[n].arg)] /\ lib' = lib
    BY <1>2 DEF Serve
  <2>2. IsPage(Page(calls[n].word, calls[n].arg))
    BY <1>1, <1>2, PageIs DEF IsCall
  <2>3. Answered(n, Page(calls[n].word, calls[n].arg))
    BY <1>1, <1>2, <2>1, <2>2, AnswerIs
  <2> QED BY <1>2, <2>1, <2>3 DEF Served
<1>3. CASE calls[n].kind = "episodes"
  <2>1. calls' = [calls EXCEPT ![n].ans = Episodes(calls[n].arg)] /\ lib' = lib
    BY <1>3 DEF Serve
  <2>2. Episodes(calls[n].arg) \subseteq Jobs
    BY <1>1, ElementOfSeq, LenProperties DEF Episodes, ToSet
  <2>3. Answered(n, Episodes(calls[n].arg))
    BY <1>1, <1>3, <2>1, <2>2, AnswerIs
  <2> QED BY <1>3, <2>1, <2>3 DEF Served
<1>4. CASE calls[n].kind = "palette"
  <2> DEFINE a == SubSeq(lib.jobs, 1, Min({PaletteSize, Len(lib.jobs)}))
  <2>1. calls' = [calls EXCEPT ![n].ans = a] /\ lib' = lib
    BY <1>4 DEF Serve
  <2>2. a \in Seq(Jobs)
    BY <1>1, ShortList
  <2> HIDE DEF a
  <2>3. Answered(n, a)
    BY <1>1, <1>4, <2>1, <2>2, AnswerIs
  <2> QED BY <1>4, <2>1, <2>3 DEF Served
<1>5. CASE calls[n].kind \in {"delete", "edit"}
  <2>1. PICK a \in BOOLEAN : a <=> calls[n].arg \in ToSet(lib.jobs)
    OBVIOUS
  <2>2. calls' = [calls EXCEPT ![n].ans = (calls[n].arg \in ToSet(lib.jobs))]
    BY <1>5 DEF Serve
  <2>3. (calls[n].arg \in ToSet(lib.jobs)) = a
    BY <2>1
  <2>4. calls' = [calls EXCEPT ![n].ans = a]
    BY <2>2, <2>3
  <2>5. Answered(n, a)
    BY <1>1, <1>5, <2>4, AnswerIs
  <2>6. calls[n].kind = "delete" =>
          lib' = IF a THEN [lib EXCEPT !.jobs = Filter(@, Jobs \ {calls[n].arg})] ELSE lib
    BY <2>1 DEF Serve
  <2>7. calls[n].kind = "edit" =>
          lib' = IF a THEN [lib EXCEPT !.edited = @ \cup {calls[n].arg}] ELSE lib
    BY <2>1 DEF Serve
  <2> QED BY <1>5, <2>1, <2>5, <2>6, <2>7 DEF Served
<1> QED BY <1>1, <1>2, <1>3, <1>4, <1>5 DEF IsCall

LEMMA RefuseIs ==
  ASSUME Types, NEW n \in UnderWay, Refuse(n)
  PROVE  \E a :
    /\ Answered(n, a)
    /\ calls[n].kind = "episodes" => a = {}
    /\ calls[n].kind \in {"delete", "edit"} => a = FALSE
    /\ IF calls[n].kind \in {"list", "more"} THEN ~hist'.calm ELSE hist'.calm = hist.calm
<1>1. IsCall(calls[n]) /\ calls[n] # Over /\ calls[n].ans = Nothing
  BY DEF Types, CallsTypes, UnderWay, Slots, Refuse
<1>2. n \in Lists <=> calls[n].kind \in {"list", "more"}
  BY DEF Lists
<1>3. IF calls[n].kind \in {"list", "more"} THEN ~hist'.calm ELSE hist'.calm = hist.calm
  BY <1>2 DEF Types, HistTypes, Refuse
<1>4. CASE calls[n].kind \in {"list", "more"}
  <2>1. calls' = [calls EXCEPT ![n].ans = Error]
    BY <1>2, <1>4 DEF Refuse
  <2>2. IsPage(Error)
    BY DEF IsPage, Error
  <2>3. Answered(n, Error)
    BY <1>1, <1>4, <2>1, <2>2, AnswerIs
  <2> QED BY <1>3, <1>4, <2>3
<1>5. CASE calls[n].kind = "episodes"
  <2>1. calls' = [calls EXCEPT ![n].ans = {}]
    BY <1>2, <1>5 DEF Refuse
  <2>2. Answered(n, {})
    BY <1>1, <1>5, <2>1, AnswerIs
  <2> QED BY <1>3, <1>5, <2>2
<1>6. CASE calls[n].kind = "palette"
  <2>1. calls' = [calls EXCEPT ![n].ans = <<>>]
    BY <1>2, <1>6 DEF Refuse
  <2>2. Answered(n, <<>>)
    BY <1>1, <1>6, <2>1, AnswerIs, EmptySeq
  <2> QED BY <1>3, <1>6, <2>2
<1>7. CASE calls[n].kind \in {"delete", "edit"}
  <2>1. calls' = [calls EXCEPT ![n].ans = FALSE]
    BY <1>2, <1>7 DEF Refuse
  <2>2. Answered(n, FALSE)
    BY <1>1, <1>7, <2>1, AnswerIs
  <2> QED BY <1>3, <1>7, <2>2
<1> QED BY <1>1, <1>4, <1>5, <1>6, <1>7 DEF IsCall

LEMMA AnsweredTypes ==
  ASSUME Types, NEW n \in UnderWay, NEW a, Answered(n, a), hist'.asked = hist.asked
  PROVE  CallsTypes'
BY SetTypes DEF Answered

LEMMA EndedTypes ==
  ASSUME Types, NEW n \in UnderWay, calls' = [calls EXCEPT ![n] = Over], hist'.asked = hist.asked
  PROVE  CallsTypes'
BY SetTypes, OverIs

-----------------------------------------------------------------------------
(* The actions by the part of the state they leave.                        *)

OnGrid ==
  \/ Type \/ LoadJobs \/ LoadMoreJobs \/ CloseEditModal \/ SaveEditModal
  \/ \E j \in Jobs : DeleteJob(j) \/ OpenEditModal(j)

InPalette ==
  \/ OpenPalette \/ ClosePalette \/ TypeInPalette \/ PaletteSearch
  \/ \E dir \in {1, -1} : MoveActive(dir)
  \/ \E i : Activate(i)

OfPill ==
  \/ Work \/ HomeServed \/ HomeTaken
  \/ \E p \in 1..MaxPolls : Poll(p) \/ PollServed(p) \/ PollTaken(p)

LEMMA NextIs ==
  ASSUME Next
  PROVE  \/ OnGrid \/ InPalette \/ OfPill
         \/ \E s \in Seasons : LoadSeasonEpisodes(s)
         \/ \E j \in Jobs : NewJob(j)
         \/ \E n \in UnderWay : Serve(n) \/ Refuse(n) \/ Lose(n) \/ Take(n) \/ TakePalette(n)
BY DEF Next, OnGrid, InPalette, OfPill, Enter

LEMMA AloneIs ==
  /\ Alone \in BOOLEAN
  /\ Types => (Alone <=> \A n \in Slots : calls[n].kind \notin Kinds \cup {"palette"})
<1>1. Alone \in BOOLEAN
  BY DEF Alone
<1>2. ASSUME Types PROVE Alone <=> \A n \in Slots : calls[n].kind \notin Kinds \cup {"palette"}
  <2>1. \A n \in Slots : n \in UnderWay <=> calls[n].kind # "none"
    BY <1>2, UnderWayIs
  <2>2. UnderWay \subseteq Slots
    BY DEF UnderWay, Slots
  <2> QED BY <2>1, <2>2 DEF Alone, Kinds
<1> QED BY <1>1, <1>2

\* What the history becomes: the requests asked so far, and whether it is calm.
HistIs(asked, calm, removed) ==
  /\ hist'.asked = asked /\ (hist'.calm <=> calm) /\ (hist'.removed <=> removed)

LEMMA GridHist ==
  ASSUME Types, OnGrid
  PROVE  /\ HistTypes'
         /\ Type => HistIs(hist.asked, FALSE, hist.removed)
         /\ LoadJobs => HistIs(hist.asked + 1, Alone, FALSE)
         /\ LoadMoreJobs => HistIs(hist.asked + 1, hist.calm /\ Alone /\ ~hist.removed, hist.removed)
         /\ \A j \in Jobs : DeleteJob(j) => HistIs(hist.asked + 1, hist.calm /\ Alone, TRUE)
         /\ SaveEditModal => HistIs(hist.asked + 1, hist.calm, hist.removed)
         /\ CloseEditModal \/ (\E j \in Jobs : OpenEditModal(j)) => hist' = hist
<1>0. HistTypes
  BY DEF Types
<1>1. ASSUME Type PROVE HistTypes' /\ HistIs(hist.asked, FALSE, hist.removed)
  BY <1>0, <1>1 DEF Type, HistTypes, HistIs
<1>2. ASSUME LoadJobs PROVE HistTypes' /\ HistIs(hist.asked + 1, Alone, FALSE)
  <2>1. PICK b \in BOOLEAN : b <=> Alone
    OBVIOUS
  <2>2. hist' = [hist EXCEPT !.asked = @ + 1, !.calm = b, !.removed = FALSE]
    BY <1>2, <2>1, AloneIs DEF LoadJobs
  <2> QED BY <1>0, <2>1, <2>2 DEF HistTypes, HistIs
<1>3. ASSUME LoadMoreJobs
      PROVE  HistTypes' /\ HistIs(hist.asked + 1, hist.calm /\ Alone /\ ~hist.removed, hist.removed)
  <2>1. PICK b \in BOOLEAN : b <=> (hist.calm /\ Alone /\ ~hist.removed)
    OBVIOUS
  <2>2. hist' = [hist EXCEPT !.asked = @ + 1, !.calm = b]
    BY <1>0, <1>3, <2>1, AloneIs DEF LoadMoreJobs, HistTypes
  <2> QED BY <1>0, <2>1, <2>2 DEF HistTypes, HistIs
<1>4. ASSUME NEW j \in Jobs, DeleteJob(j)
      PROVE  HistTypes' /\ HistIs(hist.asked + 1, hist.calm /\ Alone, TRUE)
  <2>1. PICK b \in BOOLEAN : b <=> (hist.calm /\ Alone)
    OBVIOUS
  <2>2. hist' = [hist EXCEPT !.asked = @ + 1, !.calm = b, !.removed = TRUE]
    BY <1>0, <1>4, <2>1, AloneIs DEF DeleteJob, HistTypes
  <2> QED BY <1>0, <2>1, <2>2 DEF HistTypes, HistIs
<1>5. ASSUME SaveEditModal
      PROVE  HistTypes' /\ HistIs(hist.asked + 1, hist.calm, hist.removed)
  BY <1>0, <1>5 DEF SaveEditModal, HistTypes, HistIs
<1>6. ASSUME CloseEditModal \/ \E j \in Jobs : OpenEditModal(j) PROVE HistTypes' /\ hist' = hist
  BY <1>0, <1>6 DEF CloseEditModal, OpenEditModal, HistTypes
<1> QED BY <1>1, <1>2, <1>3, <1>4, <1>5, <1>6 DEF OnGrid

LEMMA PaletteHist ==
  ASSUME Types, InPalette
  PROVE  /\ HistTypes'
         /\ OpenPalette => HistIs(hist.asked + 1, Alone /\ ~pal.timer, hist.removed)
         /\ TypeInPalette =>
              IF pal.word THEN HistIs(hist.asked + 1, Alone, hist.removed)
                          ELSE HistIs(hist.asked, hist.calm, hist.removed)
         /\ PaletteSearch => HistIs(hist.asked + 1, hist.calm /\ Alone, hist.removed)
         /\ ClosePalette \/ (\E dir \in {1, -1} : MoveActive(dir)) \/ (\E i : Activate(i)) =>
              hist' = hist
<1>0. HistTypes
  BY DEF Types
<1>1. ASSUME OpenPalette PROVE HistTypes' /\ HistIs(hist.asked + 1, Alone /\ ~pal.timer, hist.removed)
  <2>1. PICK b \in BOOLEAN : b <=> (Alone /\ ~pal.timer)
    OBVIOUS
  <2>2. hist' = [hist EXCEPT !.asked = @ + 1, !.calm = b]
    BY <1>1, <2>1, AloneIs DEF OpenPalette, Types, PalTypes
  <2> QED BY <1>0, <2>1, <2>2 DEF HistTypes, HistIs
<1>2. ASSUME TypeInPalette, pal.word PROVE HistTypes' /\ HistIs(hist.asked + 1, Alone, hist.removed)
  <2>1. PICK b \in BOOLEAN : b <=> Alone
    OBVIOUS
  <2>2. hist' = [hist EXCEPT !.changes = @ + 1, !.asked = @ + 1, !.calm = b]
    BY <1>2, <2>1, AloneIs DEF TypeInPalette
  <2> QED BY <1>0, <2>1, <2>2 DEF HistTypes, HistIs
<1>3. ASSUME TypeInPalette, ~pal.word
      PROVE  HistTypes' /\ HistIs(hist.asked, hist.calm, hist.removed)
  BY <1>0, <1>3 DEF TypeInPalette, HistTypes, HistIs
<1>4. ASSUME PaletteSearch PROVE HistTypes' /\ HistIs(hist.asked + 1, hist.calm /\ Alone, hist.removed)
  <2>1. PICK b \in BOOLEAN : b <=> (hist.calm /\ Alone)
    OBVIOUS
  <2>2. hist' = [hist EXCEPT !.asked = @ + 1, !.calm = b]
    BY <1>0, <1>4, <2>1, AloneIs DEF PaletteSearch, HistTypes
  <2> QED BY <1>0, <2>1, <2>2 DEF HistTypes, HistIs
<1>5. ASSUME ClosePalette \/ (\E dir \in {1, -1} : MoveActive(dir)) \/ (\E i : Activate(i))
      PROVE  HistTypes' /\ hist' = hist
  BY <1>0, <1>5 DEF ClosePalette, MoveActive, Activate, HistTypes
<1> QED BY <1>1, <1>2, <1>3, <1>4, <1>5 DEF InPalette

LEMMA OtherHist ==
  ASSUME Types
  PROVE  /\ OfPill => HistTypes' /\ HistIs(hist.asked, hist.calm, hist.removed)
         /\ \A s \in Seasons : LoadSeasonEpisodes(s) =>
              HistTypes' /\ HistIs(hist'.asked, hist.calm, hist.removed)
         /\ \A j \in Jobs : NewJob(j) => HistTypes' /\ HistIs(hist.asked, FALSE, hist.removed)
         /\ \A n \in UnderWay : Serve(n) \/ Take(n) \/ TakePalette(n) => hist' = hist
         /\ \A n \in UnderWay : Refuse(n) => HistTypes' /\ HistIs(hist.asked, hist'.calm, hist.removed)
         /\ \A n \in UnderWay : Lose(n) =>
              HistTypes' /\ HistIs(hist.asked, hist.calm /\ calls[n].kind \notin {"list", "delete"},
                                   hist.removed)
<1>0. HistTypes
  BY DEF Types
<1>1. ASSUME OfPill PROVE HistTypes' /\ HistIs(hist.asked, hist.calm, hist.removed)
  <2>1. hist' = hist \/ hist' = [hist EXCEPT !.changes = @ + 1]
    BY <1>1 DEF OfPill, Work, HomeServed, HomeTaken, Poll, PollServed, PollTaken
  <2> QED BY <1>0, <2>1 DEF HistTypes, HistIs
<1>2. ASSUME NEW s \in Seasons, LoadSeasonEpisodes(s)
      PROVE  HistTypes' /\ HistIs(hist'.asked, hist.calm, hist.removed)
  <2>1. hist' = hist \/ hist' = [hist EXCEPT !.asked = @ + 1]
    BY <1>2 DEF LoadSeasonEpisodes
  <2> QED BY <1>0, <2>1 DEF HistTypes, HistIs
<1>3. ASSUME NEW j \in Jobs, NewJob(j) PROVE HistTypes' /\ HistIs(hist.asked, FALSE, hist.removed)
  BY <1>0, <1>3 DEF NewJob, HistTypes, HistIs
<1>4. ASSUME NEW n \in UnderWay, Serve(n) \/ Take(n) \/ TakePalette(n) PROVE hist' = hist
  BY <1>4 DEF Serve, Take, TakePalette
<1>5. ASSUME NEW n \in UnderWay, Refuse(n)
      PROVE  HistTypes' /\ HistIs(hist.asked, hist'.calm, hist.removed)
  <2>1. PICK b \in BOOLEAN : b <=> (hist.calm /\ n \notin Lists)
    OBVIOUS
  <2>2. hist' = [hist EXCEPT !.changes = @ + 1, !.calm = b]
    BY <1>0, <1>5, <2>1 DEF Refuse, HistTypes
  <2> QED BY <1>0, <2>1, <2>2 DEF HistTypes, HistIs
<1>6. ASSUME NEW n \in UnderWay, Lose(n)
      PROVE  HistTypes' /\ HistIs(hist.asked, hist.calm /\ calls[n].kind \notin {"list", "delete"},
                                  hist.removed)
  <2>1. PICK b \in BOOLEAN : b <=> (hist.calm /\ calls[n].kind \notin {"list", "delete"})
    OBVIOUS
  <2>2. hist' = [hist EXCEPT !.changes = @ + 1, !.calm = b]
    BY <1>0, <1>6, <2>1 DEF Lose, HistTypes
  <2> QED BY <1>0, <2>1, <2>2 DEF HistTypes, HistIs
<1> QED BY <1>1, <1>2, <1>3, <1>4, <1>5, <1>6

-----------------------------------------------------------------------------
(* Every step keeps the types, and the button of the edit box.             *)

LEMMA NotNothing == Nothing \notin BOOLEAN
BY BrowseAssumption

LEMMA PageFields ==
  ASSUME Types, OnGrid
  PROVE  /\ PageTypes' /\ page'.edited = page.edited /\ page'.no = page.no /\ page'.more = page.more
         /\ ~Type => page'.word = page.word
         /\ IF LoadJobs THEN page'.all = <<>> ELSE page'.all = page.all
         /\ page'.timer <=> Type \/ (page.timer /\ ~LoadJobs)
         /\ page'.saving <=> SaveEditModal \/ page.saving
<1>0. PageTypes
  BY DEF Types
<1>1. CASE Type
  <2>1. ~LoadJobs /\ ~SaveEditModal
    <3>1. page'.word # page.word /\ page'.saving = page.saving
      BY <1>0, <1>1 DEF Type, PageTypes
    <3>2. LoadJobs => page'.word = page.word
      BY <1>0 DEF LoadJobs, PageTypes
    <3>3. SaveEditModal => page'.word = page.word
      BY <1>0 DEF SaveEditModal, PageTypes
    <3> QED BY <3>1, <3>2, <3>3
  <2> QED BY <1>0, <1>1, <2>1 DEF Type, PageTypes
<1>2. CASE LoadJobs
  <2>1. ~SaveEditModal /\ ~Type
    <3>1. page'.timer # page.timer
      BY <1>0, <1>2 DEF LoadJobs, PageTypes
    <3>2. SaveEditModal => page'.timer = page.timer
      BY <1>0 DEF SaveEditModal, PageTypes
    <3>3. Type => page'.timer
      BY <1>0 DEF Type, PageTypes
    <3>4. ~page'.timer
      BY <1>0, <1>2 DEF LoadJobs, PageTypes
    <3> QED BY <3>1, <3>2, <3>3, <3>4
  <2> QED BY <1>0, <1>2, <2>1, EmptySeq DEF LoadJobs, PageTypes
<1>3. CASE SaveEditModal
  <2>1. ~LoadJobs /\ ~Type
    <3>1. page'.saving # page.saving
      BY <1>0, <1>3 DEF SaveEditModal, PageTypes
    <3>2. LoadJobs => page'.saving = page.saving
      BY <1>0 DEF LoadJobs, PageTypes
    <3>3. Type => page'.saving = page.saving
      BY <1>0 DEF Type, PageTypes
    <3> QED BY <3>1, <3>2, <3>3
  <2> QED BY <1>0, <1>3, <2>1 DEF SaveEditModal, PageTypes
<1>4. CASE CloseEditModal \/ \E j \in Jobs : OpenEditModal(j)
  <2>1. ~LoadJobs /\ ~SaveEditModal /\ ~Type
    <3>1. hist' = hist
      BY <1>4 DEF CloseEditModal, OpenEditModal
    <3>2. hist.asked \in Int /\ hist.changes \in Int
      BY DEF Types, HistTypes
    <3>3. LoadJobs \/ SaveEditModal => hist'.asked = hist.asked + 1
      BY GridHist DEF HistIs
    <3>4. Type => hist'.changes = hist.changes + 1
      BY DEF Type, Types, HistTypes
    <3> QED BY <3>1, <3>2, <3>3, <3>4
  <2> QED BY <1>0, <1>4, <2>1 DEF CloseEditModal, OpenEditModal, PageTypes
<1>5. CASE LoadMoreJobs \/ \E j \in Jobs : DeleteJob(j)
  <2>1. page' = page
    BY <1>5 DEF LoadMoreJobs, DeleteJob
  <2>2. ~LoadJobs /\ ~SaveEditModal /\ ~Type
    BY <1>0, <2>1 DEF LoadJobs, SaveEditModal, Type, PageTypes
  <2>3. view' = view
    BY <1>5 DEF LoadMoreJobs, DeleteJob
  <2> QED BY <1>0, <2>1, <2>2, <2>3 DEF PageTypes
<1> QED BY <1>1, <1>2, <1>3, <1>4, <1>5 DEF OnGrid

LEMMA GridTypes ==
  ASSUME Types, OnGrid
  PROVE  Types'
<1>1. UNCHANGED <<lib, view, tabs, pill, pal>>
  BY DEF OnGrid, Type, LoadJobs, LoadMoreJobs, CloseEditModal, SaveEditModal, DeleteJob, OpenEditModal
<1>2. LibTypes' /\ TabsTypes' /\ PillTypes' /\ PalTypes'
  BY <1>1 DEF Types, LibTypes, TabsTypes, PillTypes, PalTypes
<1>3. CallsTypes'
  <2>1. /\ PageTypes
        /\ \A j \in Jobs, w \in BOOLEAN : IsCall(Call("delete", j, w)) /\ IsCall(Call("edit", j, w))
        /\ \A k \in Nat \ {0}, w \in BOOLEAN : IsCall(Call("list", k, w)) /\ IsCall(Call("more", k, w))
    BY DEF Types, IsCall, Call
  <2>2. CASE Type \/ CloseEditModal \/ \E j \in Jobs : OpenEditModal(j)
    <3>1. calls' = calls /\ hist'.asked = hist.asked
      BY <2>2, GridHist DEF Type, CloseEditModal, OpenEditModal, HistIs
    <3> QED BY <3>1 DEF Types, CallsTypes
  <2>3. CASE LoadJobs
    <3>1. IsCall(Call("list", 1, page.word))
      BY <2>1 DEF PageTypes
    <3> QED BY <2>3, <3>1, GridHist, AskTypes DEF LoadJobs, HistIs
  <2>4. CASE LoadMoreJobs
    <3>1. IsCall(Call("more", NextPage(page.no), page.word))
      <4>1. NextPage(page.no) \in Nat \ {0}
        BY <2>1 DEF PageTypes, NextPage
      <4> QED BY <2>1, <4>1 DEF PageTypes
    <3> QED BY <2>4, <3>1, GridHist, AskTypes DEF LoadMoreJobs, HistIs
  <2>5. ASSUME NEW j \in Jobs, DeleteJob(j) PROVE CallsTypes'
    BY <2>1, <2>5, GridHist, AskTypes DEF DeleteJob, HistIs
  <2>6. CASE SaveEditModal
    <3>1. page.box \in Jobs
      BY <2>1, <2>6 DEF PageTypes, SaveEditModal
    <3> QED BY <2>1, <2>6, <3>1, GridHist, AskTypes DEF SaveEditModal, HistIs
  <2> QED BY <2>2, <2>3, <2>4, <2>5, <2>6 DEF OnGrid
<1> QED BY <1>1, <1>2, <1>3, GridHist, PageFields DEF Types

LEMMA PaletteTypes ==
  ASSUME Types, InPalette
  PROVE  Types'
<1>1. UNCHANGED <<lib, view, page, tabs, pill>>
  BY DEF InPalette, OpenPalette, ClosePalette, TypeInPalette, PaletteSearch, MoveActive, Activate
<1>2. LibTypes' /\ TabsTypes' /\ PillTypes' /\ PageTypes'
  BY <1>1 DEF Types, LibTypes, TabsTypes, PillTypes, PageTypes
<1>3. CallsTypes'
  <2>1. \A w \in BOOLEAN : IsCall(Call("palette", Nothing, w))
    BY DEF IsCall, Call
  <2>2. CASE ClosePalette \/ (\E dir \in {1, -1} : MoveActive(dir)) \/ \E i : Activate(i)
    <3>1. calls' = calls /\ hist' = hist
      BY <2>2 DEF ClosePalette, MoveActive, Activate
    <3> QED BY <3>1 DEF Types, CallsTypes
  <2>3. CASE OpenPalette
    BY <2>1, <2>3, PaletteHist, AskTypes DEF OpenPalette, HistIs
  <2>4. CASE PaletteSearch
    BY <2>1, <2>4, PaletteHist, AskTypes DEF PaletteSearch, HistIs
  <2>5. CASE TypeInPalette /\ pal.word
    BY <2>1, <2>5, PaletteHist, AskTypes DEF TypeInPalette, HistIs
  <2>6. CASE TypeInPalette /\ ~pal.word
    <3>1. calls' = calls /\ hist'.asked = hist.asked
      BY <2>6, PaletteHist DEF TypeInPalette, HistIs
    <3> QED BY <3>1 DEF Types, CallsTypes
  <2> QED BY <2>2, <2>3, <2>4, <2>5, <2>6 DEF InPalette
<1>4. PalTypes'
  <2>0. PalTypes /\ Len(pal.list) \in Nat
    BY LenProperties DEF Types, PalTypes
  <2>1. CASE OpenPalette
    BY <1>1, <2>0, <2>1, EmptySeq DEF OpenPalette, PalTypes
  <2>2. CASE ClosePalette \/ \E i : Activate(i)
    BY <1>1, <2>0, <2>2 DEF ClosePalette, Activate, PalTypes
  <2>3. CASE TypeInPalette
    BY <1>1, <2>0, <2>3 DEF TypeInPalette, PalTypes
  <2>4. CASE PaletteSearch
    BY <1>1, <2>0, <2>4 DEF PaletteSearch, PalTypes
  <2>5. ASSUME NEW dir \in {1, -1}, MoveActive(dir) PROVE PalTypes'
    <3>1. PICK a : pal' = [pal EXCEPT !.active = a] /\
            a = IF pal.active = 0 THEN IF dir > 0 THEN 1 ELSE Len(pal.list)
                ELSE Max({1, Min({Len(pal.list), pal.active + dir})})
      BY <2>5 DEF MoveActive
    <3>2. pal.active \in Nat
      BY <2>0 DEF PalTypes
    <3>3. Max({1, Min({Len(pal.list), pal.active + dir})}) \in Nat
      <4>1. PICK x \in Int, y \in Int : x = Len(pal.list) /\ y = pal.active + dir
        BY <2>0, <3>2
      <4>2. PICK m \in Int : m = Min({x, y})
        BY MinIs
      <4>3. Max({1, m}) = IF 1 >= m THEN 1 ELSE m
        BY MaxIs
      <4>4. Max({1, m}) \in Nat
        BY <4>3
      <4> QED BY <4>1, <4>2, <4>4
    <3>4. a \in Nat
      BY <2>0, <3>1, <3>3
    <3> QED BY <1>1, <2>0, <3>1, <3>4 DEF PalTypes
  <2> QED BY <2>1, <2>2, <2>3, <2>4, <2>5 DEF InPalette
<1> QED BY <1>1, <1>2, <1>3, <1>4, PaletteHist DEF Types

LEMMA PillsTypes ==
  ASSUME Types, OfPill
  PROVE  Types'
<1>1. UNCHANGED <<view, page, tabs, pal, calls>>
  BY DEF OfPill, Work, HomeServed, HomeTaken, Poll, PollServed, PollTaken
<1>2. TabsTypes' /\ PalTypes' /\ PageTypes'
  BY <1>1 DEF Types, TabsTypes, PalTypes, PageTypes
<1>3. CallsTypes'
  BY <1>1, OtherHist DEF Types, CallsTypes, HistIs
<1>4. LibTypes'
  <2>1. lib' = lib \/ lib' = [lib EXCEPT !.active = 1 - @]
    BY DEF OfPill, Work, HomeServed, HomeTaken, Poll, PollServed, PollTaken
  <2> QED BY <2>1 DEF Types, LibTypes
<1>5. PillTypes'
  <2>0. PillTypes /\ AtWork \in Polled
    BY DEF Types, AtWork, Polled
  <2>1. CASE Work
    BY <2>0, <2>1 DEF Work, PillTypes
  <2>2. CASE HomeServed
    <3>1. PICK a \in Polled : pill' = [pill EXCEPT !.home = a]
      BY <2>0, <2>2 DEF HomeServed, Polled
    <3> QED BY <2>0, <3>1 DEF PillTypes
  <2>3. CASE HomeTaken
    BY <2>0, <2>3 DEF HomeTaken, PillTypes, Polled
  <2>4. ASSUME NEW p \in 1..MaxPolls, Poll(p) \/ PollServed(p) PROVE PillTypes'
    <3>1. PICK a \in Polled : pill' = [pill EXCEPT !.polls[p] = a]
      BY <2>0, <2>4 DEF Poll, PollServed, Polled
    <3> QED BY <2>0, <3>1 DEF PillTypes
  <2>5. ASSUME NEW p \in 1..MaxPolls, PollTaken(p) PROVE PillTypes'
    <3>1. PillText(pill.polls[p], pill.text) \in {"health", "processing", "idle"}
      BY <2>0 DEF PillTypes, PillText
    <3>2. pill' = [pill EXCEPT !.polls[p] = "idle", !.text = PillText(pill.polls[p], @)]
      BY <2>5 DEF PollTaken
    <3> HIDE DEF PillText
    <3> QED BY <2>0, <3>1, <3>2 DEF PillTypes, Polled
  <2> QED BY <2>1, <2>2, <2>3, <2>4, <2>5 DEF OfPill
<1> QED BY <1>1, <1>2, <1>3, <1>4, <1>5, OtherHist DEF Types

LEMMA SeasonTypes ==
  ASSUME Types, NEW s \in Seasons, LoadSeasonEpisodes(s)
  PROVE  Types'
<1>1. UNCHANGED <<lib, view, page, pill, pal>>
  BY DEF LoadSeasonEpisodes
<1>2. LibTypes' /\ PillTypes' /\ PalTypes' /\ PageTypes'
  BY <1>1 DEF Types, LibTypes, PillTypes, PalTypes, PageTypes
<1>3. TabsTypes'
  BY DEF Types, TabsTypes, LoadSeasonEpisodes
<1>4. CallsTypes'
  <2>1. CASE tabs.cache[s] # Nothing
    <3>1. calls' = calls /\ hist' = hist
      BY <2>1 DEF LoadSeasonEpisodes
    <3> QED BY <3>1 DEF Types, CallsTypes
  <2>2. CASE tabs.cache[s] = Nothing
    <3>1. IsCall(Call("episodes", s, FALSE))
      BY DEF IsCall, Call
    <3>2. Asks(Call("episodes", s, FALSE)) /\ hist'.asked = hist.asked + 1
      BY <2>2 DEF LoadSeasonEpisodes, Types, HistTypes
    <3> QED BY <3>1, <3>2, AskTypes
  <2> QED BY <2>1, <2>2
<1> QED BY <1>1, <1>2, <1>3, <1>4, OtherHist DEF Types

\* The answers of the server.
LEMMA ServeTypes ==
  ASSUME Types, NEW n \in UnderWay, Serve(n)
  PROVE  Types'
<1>1. UNCHANGED <<view, page, tabs, pill, pal, hist>>
  BY DEF Serve
<1>2. TabsTypes' /\ PillTypes' /\ PalTypes' /\ PageTypes' /\ HistTypes'
  BY <1>1 DEF Types, TabsTypes, PillTypes, PalTypes, PageTypes, HistTypes
<1>3. CallsTypes' /\ LibTypes'
  <2>1. IsCall(calls[n]) /\ calls[n] # Over /\ LibTypes
    BY DEF Types, CallsTypes, UnderWay, Slots
  <2>2. CallsTypes'
    BY <1>1, ServeIs, AnsweredTypes DEF Served
  <2>3. CASE lib' = lib
    BY <2>1, <2>2, <2>3 DEF LibTypes
  <2>4. CASE lib' = [lib EXCEPT !.jobs = Filter(@, Jobs \ {calls[n].arg})]
    <3>1. /\ Filter(lib.jobs, Jobs \ {calls[n].arg}) \in Seq(Jobs)
          /\ IsInjective(Filter(lib.jobs, Jobs \ {calls[n].arg}))
      BY <2>1, FilterElements, FilterInjective DEF LibTypes
    <3> QED BY <2>1, <2>2, <2>4, <3>1 DEF LibTypes
  <2>5. CASE calls[n].kind = "edit" /\ lib' = [lib EXCEPT !.edited = @ \cup {calls[n].arg}]
    <3>1. calls[n].arg \in Jobs
      BY <2>1, <2>5 DEF IsCall
    <3> QED BY <2>1, <2>2, <2>5, <3>1 DEF LibTypes
  <2>6. PICK a : /\ calls[n].kind \in {"list", "more", "episodes", "palette"} => lib' = lib
                 /\ calls[n].kind = "delete" =>
                      lib' = IF a THEN [lib EXCEPT !.jobs = Filter(@, Jobs \ {calls[n].arg})] ELSE lib
                 /\ calls[n].kind = "edit" =>
                      lib' = IF a THEN [lib EXCEPT !.edited = @ \cup {calls[n].arg}] ELSE lib
    BY ServeIs DEF Served
  <2>7. calls[n].kind \in {"list", "more", "episodes", "palette", "delete", "edit"}
    BY <2>1 DEF IsCall
  <2> QED BY <2>2, <2>3, <2>4, <2>5, <2>6, <2>7
<1> QED BY <1>1, <1>2, <1>3 DEF Types

LEMMA RefuseTypes ==
  ASSUME Types, NEW n \in UnderWay, Refuse(n)
  PROVE  Types'
<1>1. UNCHANGED <<lib, view, page, tabs, pill, pal>>
  BY DEF Refuse
<1>2. LibTypes' /\ TabsTypes' /\ PillTypes' /\ PalTypes' /\ PageTypes'
  BY <1>1 DEF Types, LibTypes, TabsTypes, PillTypes, PalTypes, PageTypes
<1>3. CallsTypes' /\ HistTypes'
  BY RefuseIs, AnsweredTypes, OtherHist DEF HistIs
<1> QED BY <1>1, <1>2, <1>3 DEF Types

LEMMA LoseTypes ==
  ASSUME Types, NEW n \in UnderWay, Lose(n)
  PROVE  Types' /\ (page'.saving <=> page.saving /\ calls[n].kind # "edit")
         /\ page' = [page EXCEPT !.saving = page'.saving]
<1>1. UNCHANGED <<lib, view, tabs, pill, pal>>
  BY DEF Lose
<1>2. LibTypes' /\ TabsTypes' /\ PillTypes' /\ PalTypes'
  BY <1>1 DEF Types, LibTypes, TabsTypes, PillTypes, PalTypes
<1>3. CallsTypes' /\ HistTypes'
  <2>1. calls' = [calls EXCEPT ![n] = Over]
    BY DEF Lose
  <2> QED BY <2>1, EndedTypes, OtherHist DEF HistIs
<1>4. PICK b \in BOOLEAN : b <=> (page.saving /\ ~Frees(n))
  OBVIOUS
<1>5. page' = [page EXCEPT !.saving = b]
  BY <1>4 DEF Lose, Types, PageTypes, Frees
<1>6. PageTypes' /\ (page'.saving <=> b) /\ page' = [page EXCEPT !.saving = page'.saving]
  BY <1>1, <1>5 DEF Types, PageTypes
<1> QED BY <1>1, <1>2, <1>3, <1>4, <1>6 DEF Types, Frees

LEMMA TakeTypes ==
  ASSUME Types, NEW n \in UnderWay, Take(n)
  PROVE  Types'
<1>1. UNCHANGED <<lib, view, pill, pal, hist>> /\ calls' = [calls EXCEPT ![n] = Over]
  BY DEF Take
<1>2. LibTypes' /\ PillTypes' /\ PalTypes' /\ HistTypes'
  BY <1>1 DEF Types, LibTypes, PillTypes, PalTypes, HistTypes
<1>3. CallsTypes'
  BY <1>1, EndedTypes
<1>4. PageTypes' /\ TabsTypes'
  <2>0. /\ IsCall(calls[n]) /\ calls[n] # Over /\ calls[n].ans # Nothing
        /\ PageTypes /\ TabsTypes
    BY DEF Types, CallsTypes, UnderWay, Slots, Take
  <2>1. CASE calls[n].kind = "list"
    <3>1. PICK l \in Seq(Jobs), b \in BOOLEAN : l = calls[n].ans.jobs /\ b = calls[n].ans.more
      BY <2>0, <2>1 DEF IsCall, IsPage
    <3>2. /\ page' = [page EXCEPT !.all = l, !.no = 1, !.more = b, !.button = b, !.edited = {}]
          /\ tabs' = tabs
      BY <2>1, <3>1 DEF Take
    <3> QED BY <1>1, <2>0, <3>2 DEF PageTypes, TabsTypes
  <2>2. CASE calls[n].kind = "more"
    <3>1. PICK l \in Seq(Jobs), b \in BOOLEAN : l = calls[n].ans.jobs /\ b = calls[n].ans.more
      BY <2>0, <2>2 DEF IsCall, IsPage
    <3>2. PICK k \in Nat \ {0} : k = calls[n].arg
      BY <2>0, <2>2 DEF IsCall
    <3>3. page' = [page EXCEPT !.all = @ \o l, !.no = k, !.more = b, !.button = b] /\ tabs' = tabs
      BY <2>2, <3>1, <3>2 DEF Take
    <3>4. page.all \o l \in Seq(Jobs)
      BY <2>0, ConcatProperties DEF PageTypes
    <3> QED BY <1>1, <2>0, <3>3, <3>4 DEF PageTypes, TabsTypes
  <2>3. CASE calls[n].kind = "delete"
    <3>1. PICK l \in Seq(Jobs) : l = Filter(page.all, Jobs \ {calls[n].arg})
      BY <2>0, FilterElements DEF PageTypes
    <3>2. tabs' = tabs /\ (page' = [page EXCEPT !.all = l] \/ page' = page)
      BY <2>3, <3>1 DEF Take
    <3> QED BY <1>1, <2>0, <3>2 DEF PageTypes, TabsTypes
  <2>4. CASE calls[n].kind = "edit"
    <3>1. calls[n].arg \in Jobs
      BY <2>0, <2>4 DEF IsCall
    <3>2. PICK b \in Jobs \cup {Nothing}, e \in SUBSET Jobs :
            page' = [page EXCEPT !.saving = FALSE, !.box = b, !.edited = e]
      <4>1. CASE calls[n].ans
        <5>1. PICK e \in SUBSET Jobs : e = page.edited \cup {calls[n].arg}
          BY <2>0, <3>1 DEF PageTypes
        <5>2. page' = [page EXCEPT !.saving = FALSE, !.box = Nothing, !.edited = e]
          BY <2>4, <4>1, <5>1 DEF Take, EditedJob
        <5> QED BY <5>2
      <4>2. CASE ~calls[n].ans
        <5>1. PICK b \in Jobs \cup {Nothing}, e \in SUBSET Jobs : b = page.box /\ e = page.edited
          BY <2>0 DEF PageTypes
        <5>2. page' = [page EXCEPT !.saving = FALSE, !.box = b, !.edited = e]
          BY <2>4, <4>2, <5>1 DEF Take
        <5> QED BY <5>2
      <4> QED BY <4>1, <4>2
    <3>3. tabs' = tabs
      BY <2>4 DEF Take
    <3> QED BY <1>1, <2>0, <3>2, <3>3 DEF PageTypes, TabsTypes
  <2>5. CASE calls[n].kind = "episodes"
    <3>1. calls[n].ans \subseteq Jobs /\ CacheKey(n) \in Seasons
      BY <2>0, <2>5 DEF IsCall, CacheKey
    <3>2. page' = page /\ tabs' = [tabs EXCEPT !.cache[CacheKey(n)] = calls[n].ans, !.shown = calls[n].ans]
      BY <2>5 DEF Take
    <3> QED BY <1>1, <2>0, <3>1, <3>2 DEF PageTypes, TabsTypes
  <2> QED BY <2>1, <2>2, <2>3, <2>4, <2>5 DEF Take
<1> QED BY <1>1, <1>2, <1>3, <1>4 DEF Types

LEMMA TakePaletteTypes ==
  ASSUME Types, NEW n \in UnderWay, TakePalette(n)
  PROVE  Types'
<1>1. UNCHANGED <<lib, view, page, tabs, pill, hist>> /\ calls' = [calls EXCEPT ![n] = Over]
  BY DEF TakePalette
<1>2. LibTypes' /\ PillTypes' /\ PageTypes' /\ TabsTypes' /\ HistTypes'
  BY <1>1 DEF Types, LibTypes, PillTypes, PageTypes, TabsTypes, HistTypes
<1>3. CallsTypes'
  BY <1>1, EndedTypes
<1>4. PalTypes'
  <2>1. calls[n].ans \in Seq(Jobs) /\ calls[n].word \in BOOLEAN
    BY DEF Types, CallsTypes, UnderWay, Slots, IsCall, TakePalette
  <2>2. calls[n].ans \in Seq(Rows)
    BY <2>1, SeqMonotonic DEF Rows
  <2>3. QuickActions(calls[n].word) \in Seq(Rows)
    <3>1. Actions \in Seq(Rows) /\ ActionsFound \in Seq(Rows)
      BY BrowseAssumption, SeqMonotonic DEF Rows
    <3> QED BY <3>1 DEF QuickActions
  <2>4. PICK l \in Seq(Rows) : l = calls[n].ans \o QuickActions(calls[n].word)
    BY <2>2, <2>3, ConcatProperties
  <2>5. pal' = [pal EXCEPT !.list = l, !.shown = calls[n].word]
    BY <2>4 DEF TakePalette
  <2> QED BY <1>1, <2>1, <2>5 DEF Types, PalTypes
<1> QED BY <1>1, <1>2, <1>3, <1>4 DEF Types

LEMMA NewJobTypes ==
  ASSUME Types, NEW j \in Jobs, NewJob(j)
  PROVE  Types'
<1>1. UNCHANGED <<view, page, tabs, pill, pal, calls>>
  BY DEF NewJob
<1>2. PillTypes' /\ PageTypes' /\ TabsTypes' /\ PalTypes'
  BY <1>1 DEF Types, PillTypes, PageTypes, TabsTypes, PalTypes
<1>3. CallsTypes' /\ HistTypes'
  BY <1>1, OtherHist DEF Types, CallsTypes, HistIs
<1>4. LibTypes'
  <2>0. LibTypes /\ Len(lib.jobs) \in Nat /\ DOMAIN lib.jobs = 1..Len(lib.jobs)
    BY LenProperties DEF Types, LibTypes
  <2>1. PICK l : l = <<j>> \o lib.jobs
    OBVIOUS
  <2>2. /\ l \in Seq(Jobs) /\ Len(l) = 1 + Len(lib.jobs)
        /\ \A i \in 1..Len(l) : l[i] = IF i <= 1 THEN j ELSE lib.jobs[i - 1]
    <3>1. <<j>> \in Seq(Jobs) /\ Len(<<j>>) = 1 /\ <<j>>[1] = j
      OBVIOUS
    <3> QED BY <2>0, <2>1, <3>1, ConcatProperties DEF LibTypes
  <2>3. \A i \in DOMAIN lib.jobs : lib.jobs[i] # j
    BY DEF NewJob, ToSet
  <2>4. IsInjective(l)
    <3>1. DOMAIN l = 1..Len(l)
      BY <2>2, LenProperties
    <3>2. ASSUME NEW a \in DOMAIN l, NEW b \in DOMAIN l, l[a] = l[b] PROVE a = b
      <4>1. a \in Int /\ b \in Int /\ a >= 1 /\ b >= 1
        BY <2>0, <2>2, <3>1
      <4>2. CASE a = 1
        <5>1. b > 1 => b - 1 \in DOMAIN lib.jobs
          BY <2>0, <2>2, <3>1, <4>1
        <5> QED BY <2>2, <2>3, <3>1, <3>2, <4>1, <4>2, <5>1
      <4>3. CASE b = 1
        <5>1. a > 1 => a - 1 \in DOMAIN lib.jobs
          BY <2>0, <2>2, <3>1, <4>1
        <5> QED BY <2>2, <2>3, <3>1, <3>2, <4>1, <4>3, <5>1
      <4>4. CASE a > 1 /\ b > 1
        <5>1. a - 1 \in DOMAIN lib.jobs /\ b - 1 \in DOMAIN lib.jobs
          BY <2>0, <2>2, <3>1, <4>1, <4>4
        <5>2. lib.jobs[a - 1] = lib.jobs[b - 1]
          BY <2>2, <3>1, <3>2, <4>1, <4>4
        <5>3. a - 1 = b - 1
          BY <2>0, <5>1, <5>2 DEF LibTypes, IsInjective
        <5> QED BY <4>1, <5>3
      <4> QED BY <4>1, <4>2, <4>3, <4>4
    <3> QED BY <3>2 DEF IsInjective
  <2>5. lib' = [lib EXCEPT !.jobs = l]
    BY <2>1 DEF NewJob
  <2> QED BY <2>0, <2>2, <2>4, <2>5 DEF LibTypes
<1> QED BY <1>1, <1>2, <1>3, <1>4 DEF Types

LEMMA NextTypes == Types /\ Next => Types'
BY NextIs, GridTypes, PaletteTypes, PillsTypes, SeasonTypes, ServeTypes, RefuseTypes, LoseTypes,
   TakeTypes, TakePaletteTypes, NewJobTypes

-----------------------------------------------------------------------------
(* What a step does to the requests.                                       *)

OthersStay(n) == \A m \in Slots : m # n => calls'[m] = calls[m]

Asked(n, kind, arg, word) ==
  /\ calls[n].kind = "none" /\ OthersStay(n)
  /\ calls'[n].kind = kind /\ calls'[n].arg = arg /\ calls'[n].word = word
  /\ calls'[n].ans = Nothing

LEMMA AsksIs ==
  ASSUME Types, NEW kind, NEW arg, NEW word, Asks(Call(kind, arg, word))
  PROVE  \E n \in Slots : Asked(n, kind, arg, word)
<1>1. PICK n \in Slots : calls[n] = Over /\ calls' = [calls EXCEPT ![n] = Call(kind, arg, word)]
  BY AskedSlot
<1>2. DOMAIN calls = Slots
  BY DEF Types, CallsTypes
<1>3. calls'[n] = Call(kind, arg, word) /\ OthersStay(n)
  BY <1>1, <1>2 DEF OthersStay
<1> QED BY <1>1, <1>3, CallIs, OverIs DEF Asked

LEMMA AnsweredIs ==
  ASSUME Types, NEW n \in UnderWay, NEW a, Answered(n, a)
  PROVE  /\ n \in Slots /\ OthersStay(n) /\ calls[n].ans = Nothing /\ calls'[n].ans = a
         /\ calls'[n].kind = calls[n].kind /\ calls'[n].arg = calls[n].arg
         /\ calls'[n].word = calls[n].word
BY DEF Types, CallsTypes, UnderWay, Slots, Answered, OthersStay

LEMMA EndedIs ==
  ASSUME Types, NEW n \in UnderWay, calls' = [calls EXCEPT ![n] = Over]
  PROVE  n \in Slots /\ OthersStay(n) /\ calls'[n].kind = "none"
BY OverIs DEF Types, CallsTypes, UnderWay, Slots, OthersStay

-----------------------------------------------------------------------------
(* The button of the edit box.                                             *)

LEMMA SavingStays ==
  ASSUME Saving, page'.saving <=> page.saving,
         \A m \in Slots : calls'[m].kind = "edit" <=> calls[m].kind = "edit"
  PROVE  Saving'
BY DEF Saving, Has

LEMMA AskSaving ==
  ASSUME Types, Saving, NEW kind, NEW arg, NEW word, Asks(Call(kind, arg, word)), kind # "edit",
         page'.saving <=> page.saving
  PROVE  Saving'
<1>1. PICK n \in Slots : Asked(n, kind, arg, word)
  BY AsksIs
<1>2. \A m \in Slots : calls'[m].kind = "edit" <=> calls[m].kind = "edit"
  BY <1>1 DEF Asked, OthersStay
<1> QED BY <1>2, SavingStays

LEMMA NextSaving ==
  ASSUME Types, Saving, Next
  PROVE  Saving'
<1>1. CASE OnGrid
  <2>1. page'.saving <=> SaveEditModal \/ page.saving
    BY <1>1, PageFields
  <2>2. CASE SaveEditModal
    <3>1. ~page.saving /\ Asks(Call("edit", page.box, FALSE))
      BY <2>2 DEF SaveEditModal
    <3>2. PICK n \in Slots : Asked(n, "edit", page.box, FALSE)
      BY <3>1, AsksIs
    <3>3. \A m \in Slots : calls'[m].kind = "edit" <=> m = n
      BY <3>1, <3>2 DEF Asked, OthersStay, Saving, Has
    <3> QED BY <2>1, <2>2, <3>3 DEF Saving, Has
  <2>3. CASE ~SaveEditModal
    <3>1. page'.saving <=> page.saving
      BY <2>1, <2>3
    <3>2. CASE Type \/ CloseEditModal \/ \E j \in Jobs : OpenEditModal(j)
      <4>1. calls' = calls
        BY <3>2 DEF Type, CloseEditModal, OpenEditModal
      <4> QED BY <3>1, <4>1, SavingStays
    <3>3. CASE LoadJobs
      BY <3>1, <3>3, AskSaving DEF LoadJobs
    <3>4. CASE LoadMoreJobs
      BY <3>1, <3>4, AskSaving DEF LoadMoreJobs
    <3>5. CASE \E j \in Jobs : DeleteJob(j)
      BY <3>1, <3>5, AskSaving DEF DeleteJob
    <3> QED BY <1>1, <2>3, <3>2, <3>3, <3>4, <3>5 DEF OnGrid
  <2> QED BY <2>2, <2>3
<1>2. CASE InPalette
  <2>1. page' = page
    BY <1>2 DEF InPalette, OpenPalette, ClosePalette, TypeInPalette, PaletteSearch, MoveActive, Activate
  <2>2. CASE calls' = calls
    BY <2>1, <2>2, SavingStays
  <2>3. CASE \E w : Asks(Call("palette", Nothing, w))
    BY <2>1, <2>3, AskSaving
  <2> QED BY <1>2, <2>2, <2>3 DEF InPalette, OpenPalette, ClosePalette, TypeInPalette,
             PaletteSearch, MoveActive, Activate
<1>3. CASE OfPill
  <2>1. page' = page /\ calls' = calls
    BY <1>3 DEF OfPill, Work, HomeServed, HomeTaken, Poll, PollServed, PollTaken
  <2> QED BY <2>1, SavingStays
<1>4. ASSUME NEW s \in Seasons, LoadSeasonEpisodes(s) PROVE Saving'
  <2>1. page' = page /\ (calls' = calls \/ Asks(Call("episodes", s, FALSE)))
    BY <1>4 DEF LoadSeasonEpisodes
  <2> QED BY <2>1, SavingStays, AskSaving
<1>5. ASSUME NEW j \in Jobs, NewJob(j) PROVE Saving'
  BY <1>5, SavingStays DEF NewJob
<1>6. ASSUME NEW n \in UnderWay, Serve(n) \/ Refuse(n) PROVE Saving'
  <2>1. page' = page /\ \E a : Answered(n, a)
    BY <1>6, ServeIs, RefuseIs DEF Serve, Refuse, Served
  <2>2. \A m \in Slots : calls'[m].kind = calls[m].kind
    BY <2>1, AnsweredIs DEF OthersStay
  <2> QED BY <2>1, <2>2, SavingStays
<1>7. ASSUME NEW n \in UnderWay, Lose(n) \/ Take(n) \/ TakePalette(n) PROVE Saving'
  <2>1. calls' = [calls EXCEPT ![n] = Over]
    BY <1>7 DEF Lose, Take, TakePalette
  <2>2. n \in Slots /\ OthersStay(n) /\ calls'[n].kind = "none"
    BY <2>1, EndedIs
  <2>3. page'.saving <=> page.saving /\ calls[n].kind # "edit"
    <3>0. PageTypes
      BY DEF Types
    <3>1. CASE Lose(n)
      BY <3>1, LoseTypes
    <3>2. CASE Take(n)
      <4>1. CASE calls[n].kind = "edit"
        BY <3>0, <3>2, <4>1 DEF Take, PageTypes
      <4>2. CASE calls[n].kind # "edit"
        <5>1. page'.saving = page.saving
          BY <3>0, <3>2, <4>2 DEF Take, PageTypes
        <5> QED BY <4>2, <5>1
      <4> QED BY <4>1, <4>2
    <3>3. CASE TakePalette(n)
      BY <3>3 DEF TakePalette
    <3> QED BY <1>7, <3>1, <3>2, <3>3
  <2> QED BY <2>2, <2>3 DEF Saving, Has, OthersStay
<1> QED BY <1>1, <1>2, <1>3, <1>4, <1>5, <1>6, <1>7, NextIs

-----------------------------------------------------------------------------
(* Answers fit questions.                                                  *)

LEMMA AskFits ==
  ASSUME Types, Fits, NEW kind, NEW arg, NEW word, Asks(Call(kind, arg, word)),
         tabs'.cache = tabs.cache, page'.edited = page.edited, lib' = lib
  PROVE  Fits'
<1>1. PICK n \in Slots : Asked(n, kind, arg, word)
  BY AsksIs
<1>2. Nothing # TRUE
  BY NotNothing
<1>3. ASSUME NEW m \in Slots
      PROVE  /\ calls'[m].kind = "episodes" /\ calls'[m].ans # Nothing =>
                  \A j \in calls'[m].ans : SeasonOf[j] = calls'[m].arg
             /\ calls'[m].kind = "edit" /\ calls'[m].ans = TRUE => calls'[m].arg \in lib.edited
  <2>1. CASE m = n
    BY <1>1, <1>2, <2>1 DEF Asked
  <2>2. CASE m # n
    BY <1>1, <2>2 DEF Asked, OthersStay, Fits
  <2> QED BY <2>1, <2>2
<1> QED BY <1>3 DEF Fits

LEMMA NextFits ==
  ASSUME Types, Fits, Next
  PROVE  Fits'
<1>1. CASE OnGrid
  <2>1. page'.edited = page.edited /\ tabs' = tabs /\ lib' = lib
    BY <1>1, PageFields DEF OnGrid, Type, LoadJobs, LoadMoreJobs, CloseEditModal, SaveEditModal,
       DeleteJob, OpenEditModal
  <2>2. calls' = calls \/ \E kind, arg, word : Asks(Call(kind, arg, word))
    BY <1>1 DEF OnGrid, Type, LoadJobs, LoadMoreJobs, CloseEditModal, SaveEditModal,
       DeleteJob, OpenEditModal
  <2>3. CASE calls' = calls
    BY <2>1, <2>3 DEF Fits
  <2> QED BY <2>1, <2>2, <2>3, AskFits
<1>2. CASE InPalette
  <2>1. page' = page /\ tabs' = tabs /\ lib' = lib
    BY <1>2 DEF InPalette, OpenPalette, ClosePalette, TypeInPalette, PaletteSearch, MoveActive, Activate
  <2>2. calls' = calls \/ \E kind, arg, word : Asks(Call(kind, arg, word))
    BY <1>2 DEF InPalette, OpenPalette, ClosePalette, TypeInPalette, PaletteSearch, MoveActive, Activate
  <2>3. CASE calls' = calls
    BY <2>1, <2>3 DEF Fits
  <2> QED BY <2>1, <2>2, <2>3, AskFits
<1>3. CASE OfPill
  <2>1. UNCHANGED <<page, tabs, calls>> /\ (lib' = lib \/ lib' = [lib EXCEPT !.active = 1 - @])
    BY <1>3 DEF OfPill, Work, HomeServed, HomeTaken, Poll, PollServed, PollTaken
  <2>2. lib'.edited = lib.edited
    BY <2>1 DEF Types, LibTypes
  <2> QED BY <2>1, <2>2 DEF Fits
<1>4. ASSUME NEW s \in Seasons, LoadSeasonEpisodes(s) PROVE Fits'
  <2>1. page' = page /\ lib' = lib /\ tabs'.cache = tabs.cache
    BY <1>4 DEF LoadSeasonEpisodes, Types, TabsTypes
  <2>2. CASE calls' = calls
    BY <2>1, <2>2 DEF Fits
  <2>3. CASE Asks(Call("episodes", s, FALSE))
    BY <2>1, <2>3, AskFits
  <2> QED BY <1>4, <2>2, <2>3 DEF LoadSeasonEpisodes
<1>5. ASSUME NEW j \in Jobs, NewJob(j) PROVE Fits'
  <2>1. lib'.edited = lib.edited /\ UNCHANGED <<page, tabs, calls>>
    BY <1>5 DEF NewJob, Types, LibTypes
  <2> QED BY <2>1 DEF Fits
<1>6. ASSUME NEW n \in UnderWay, Serve(n) PROVE Fits'
  <2>0. page' = page /\ tabs' = tabs /\ IsCall(calls[n])
    BY <1>6 DEF Serve, Types, CallsTypes, UnderWay, Slots
  <2>1. PICK a :
          /\ Answered(n, a)
          /\ calls[n].kind = "episodes" => a = Episodes(calls[n].arg)
          /\ calls[n].kind = "edit" =>
               lib' = IF a THEN [lib EXCEPT !.edited = @ \cup {calls[n].arg}] ELSE lib
          /\ calls[n].kind # "edit" =>
               lib' = lib \/ lib' = [lib EXCEPT !.jobs = Filter(@, Jobs \ {calls[n].arg})]
    <3>1. calls[n].kind \in {"none", "list", "more", "delete", "edit", "episodes", "palette"}
      BY <2>0, OverIs DEF IsCall
    <3>2. calls[n].kind # "none"
      BY UnderWayIs DEF UnderWay, Slots
    <3> QED BY <1>6, <3>1, <3>2, ServeIs DEF Served
  <2>2. lib.edited \subseteq lib'.edited
    BY <2>1 DEF Types, LibTypes
  <2>3. /\ n \in Slots /\ OthersStay(n) /\ calls'[n].ans = a
        /\ calls'[n].kind = calls[n].kind /\ calls'[n].arg = calls[n].arg
    BY <2>1, AnsweredIs
  <2>4. calls[n].kind = "edit" /\ a = TRUE => calls[n].arg \in lib'.edited
    BY <2>1 DEF Types, LibTypes
  <2>5. calls[n].kind = "episodes" => \A j \in a : SeasonOf[j] = calls[n].arg
    BY <2>1 DEF Episodes
  <2> QED BY <2>0, <2>2, <2>3, <2>4, <2>5 DEF Fits, OthersStay
<1>7. ASSUME NEW n \in UnderWay, Refuse(n) PROVE Fits'
  <2>1. UNCHANGED <<page, tabs, lib>>
    BY <1>7 DEF Refuse
  <2>2. PICK a : /\ Answered(n, a)
                 /\ calls[n].kind = "episodes" => a = {}
                 /\ calls[n].kind = "edit" => a = FALSE
    BY <1>7, RefuseIs
  <2>3. /\ n \in Slots /\ OthersStay(n) /\ calls'[n].ans = a
        /\ calls'[n].kind = calls[n].kind
    BY <2>2, AnsweredIs
  <2> QED BY <2>1, <2>2, <2>3 DEF Fits, OthersStay
<1>8. ASSUME NEW n \in UnderWay, Lose(n) \/ Take(n) \/ TakePalette(n) PROVE Fits'
  <2>0. lib' = lib /\ calls' = [calls EXCEPT ![n] = Over] /\ IsCall(calls[n])
    BY <1>8 DEF Lose, Take, TakePalette, Types, CallsTypes, UnderWay, Slots
  <2>1. n \in Slots /\ OthersStay(n) /\ calls'[n].kind = "none"
    BY <2>0, EndedIs
  <2>2. page'.edited \subseteq lib.edited
    <3>1. CASE Lose(n)
      BY <3>1, LoseTypes DEF Types, PageTypes, Fits
    <3>2. CASE TakePalette(n)
      BY <3>2 DEF TakePalette, Fits
    <3>3. CASE Take(n) /\ calls[n].kind = "edit"
      <4>1. calls[n].ans \in BOOLEAN
        BY <2>0, <3>3, OverIs DEF IsCall, Take
      <4>2. calls[n].ans => calls[n].arg \in lib.edited
        BY <2>1, <3>3, <4>1 DEF Fits
      <4>3. CASE calls[n].ans
        <5>1. page' = [page EXCEPT !.saving = FALSE, !.box = Nothing, !.edited = @ \cup {calls[n].arg}]
          BY <3>3, <4>3 DEF Take, EditedJob
        <5> QED BY <4>2, <4>3, <5>1 DEF Types, PageTypes, Fits
      <4>4. CASE ~calls[n].ans
        <5>1. page' = [page EXCEPT !.saving = FALSE, !.box = @, !.edited = @]
          BY <3>3, <4>4 DEF Take
        <5> QED BY <5>1 DEF Types, PageTypes, Fits
      <4> QED BY <4>1, <4>3, <4>4
    <3>4. CASE Take(n) /\ calls[n].kind # "edit"
      <4>1. page'.edited = page.edited \/ page'.edited = {}
        BY <3>4 DEF Take, Types, PageTypes
      <4> QED BY <4>1 DEF Fits
    <3> QED BY <1>8, <3>1, <3>2, <3>3, <3>4
  <2>3. \A s \in Seasons : tabs'.cache[s] # Nothing => \A j \in tabs'.cache[s] : SeasonOf[j] = s
    <3>1. CASE Take(n) /\ calls[n].kind = "episodes"
      <4>1. tabs' = [tabs EXCEPT !.cache[calls[n].arg] = calls[n].ans, !.shown = calls[n].ans]
        BY <3>1 DEF Take, CacheKey
      <4>2. calls[n].arg \in Seasons /\ calls[n].ans # Nothing
        BY <2>0, <3>1, OverIs DEF IsCall, Take
      <4>3. tabs'.cache = [tabs.cache EXCEPT ![calls[n].arg] = calls[n].ans]
        BY <4>1 DEF Types, TabsTypes
      <4>4. \A j \in calls[n].ans : SeasonOf[j] = calls[n].arg
        BY <2>1, <3>1, <4>2 DEF Fits
      <4> QED BY <4>2, <4>3, <4>4 DEF Types, TabsTypes, Fits
    <3>2. CASE Lose(n) \/ TakePalette(n) \/ (Take(n) /\ calls[n].kind # "episodes")
      <4>1. tabs' = tabs
        BY <3>2 DEF Lose, TakePalette, Take
      <4> QED BY <4>1 DEF Fits
    <3> QED BY <1>8, <3>1, <3>2
  <2> QED BY <2>0, <2>1, <2>2, <2>3 DEF Fits, OthersStay
<1> QED BY <1>1, <1>2, <1>3, <1>4, <1>5, <1>6, <1>7, <1>8, NextIs

-----------------------------------------------------------------------------
(* The palette shows the rows for what is typed.                           *)

LEMMA PalStays ==
  ASSUME PalFits, pal' = pal, hist'.calm => hist.calm,
         \A m \in Slots : /\ calls'[m].kind = "palette" <=> calls[m].kind = "palette"
                          /\ calls'[m].kind = "palette" => (calls'[m].word <=> calls[m].word)
  PROVE  PalFits'
BY DEF PalFits, Has

LEMMA NextPalFits ==
  ASSUME Types, PalFits, Next
  PROVE  PalFits'
<1>0. PalTypes /\ PageTypes /\ Types'
  BY NextTypes DEF Types
<1>1. CASE OnGrid
  <2>1. pal' = pal
    BY <1>1 DEF OnGrid, Type, LoadJobs, LoadMoreJobs, CloseEditModal, SaveEditModal,
       DeleteJob, OpenEditModal
  <2>2. CASE LoadJobs
    <3>1. ~pal.open
      BY <1>0, <2>2 DEF LoadJobs, PalTypes, PageTypes
    <3> QED BY <2>1, <3>1 DEF PalFits
  <2>3. CASE ~LoadJobs
    <3>1. hist'.calm => hist.calm
      BY <1>1, <2>3, GridHist DEF OnGrid, HistIs
    <3>2. calls' = calls \/ \E kind, arg, word : kind # "palette" /\ Asks(Call(kind, arg, word))
      BY <1>1 DEF OnGrid, Type, LoadJobs, LoadMoreJobs, CloseEditModal, SaveEditModal,
         DeleteJob, OpenEditModal
    <3>3. CASE calls' = calls
      BY <2>1, <3>1, <3>3, PalStays
    <3>4. CASE \E kind, arg, word : kind # "palette" /\ Asks(Call(kind, arg, word))
      <4>1. PICK kind, arg, word : kind # "palette" /\ Asks(Call(kind, arg, word))
        BY <3>4
      <4>2. PICK n \in Slots : Asked(n, kind, arg, word)
        BY <4>1, AsksIs
      <4>3. \A m \in Slots : /\ calls'[m].kind = "palette" <=> calls[m].kind = "palette"
                             /\ calls'[m].kind = "palette" => (calls'[m].word <=> calls[m].word)
        BY <4>1, <4>2 DEF Asked, OthersStay
      <4> QED BY <2>1, <3>1, <4>3, PalStays
    <3> QED BY <3>2, <3>3, <3>4
  <2> QED BY <2>2, <2>3
<1>2. CASE InPalette
  <2>1. CASE OpenPalette
    <3>1. /\ pal'.open /\ ~pal'.word /\ (pal'.timer <=> pal.timer)
          /\ Asks(Call("palette", Nothing, FALSE))
          /\ hist'.calm => Alone /\ ~pal.timer
      <4>1. pal'.open /\ ~pal'.word /\ (pal'.timer <=> pal.timer)
        BY <1>0, <2>1 DEF OpenPalette, PalTypes
      <4>2. Asks(Call("palette", Nothing, FALSE))
        BY <2>1 DEF OpenPalette
      <4>3. hist'.calm => Alone /\ ~pal.timer
        BY <1>2, <2>1, PaletteHist DEF HistIs
      <4> QED BY <4>1, <4>2, <4>3
    <3>2. PICK n \in Slots : Asked(n, "palette", Nothing, FALSE)
      BY <3>1, AsksIs
    <3>3. Alone => \A m \in Slots : calls[m].kind # "palette"
      BY AloneIs
    <3> QED BY <3>1, <3>2, <3>3 DEF PalFits, Asked, OthersStay, Has
  <2>2. CASE ClosePalette \/ \E i : Activate(i)
    BY <1>0, <2>2 DEF ClosePalette, Activate, PalFits, PalTypes
  <2>3. CASE \E dir \in {1, -1} : MoveActive(dir)
    <3>1. /\ calls' = calls /\ hist' = hist
          /\ UNCHANGED <<pal.open, pal.word, pal.timer, pal.shown>>
      BY <1>0, <2>3 DEF MoveActive, PalTypes
    <3> QED BY <3>1 DEF PalFits, Has
  <2>4. CASE TypeInPalette /\ pal.word
    <3>1. /\ ~pal'.word /\ ~pal'.timer
          /\ Asks(Call("palette", Nothing, FALSE))
          /\ hist'.calm => Alone
      <4>1. ~pal'.word /\ ~pal'.timer
        BY <1>0, <2>4 DEF TypeInPalette, PalTypes
      <4>2. Asks(Call("palette", Nothing, FALSE))
        BY <2>4 DEF TypeInPalette
      <4>3. hist'.calm => Alone
        BY <1>2, <2>4, PaletteHist DEF HistIs
      <4> QED BY <4>1, <4>2, <4>3
    <3>2. PICK n \in Slots : Asked(n, "palette", Nothing, FALSE)
      BY <3>1, AsksIs
    <3>3. Alone => \A m \in Slots : calls[m].kind # "palette"
      BY AloneIs
    <3> QED BY <3>1, <3>2, <3>3 DEF PalFits, Asked, OthersStay, Has
  <2>5. CASE TypeInPalette /\ ~pal.word
    <3>1. pal'.word /\ pal'.timer
      BY <1>0, <2>5 DEF TypeInPalette, PalTypes
    <3> QED BY <3>1 DEF PalFits
  <2>6. CASE PaletteSearch
    <3>1. /\ (pal'.open <=> pal.open) /\ (pal'.word <=> pal.word) /\ pal.timer /\ ~pal'.timer
          /\ Asks(Call("palette", Nothing, TRUE))
          /\ hist'.calm => hist.calm /\ Alone
      <4>1. (pal'.open <=> pal.open) /\ (pal'.word <=> pal.word) /\ pal.timer /\ ~pal'.timer
        BY <1>0, <2>6 DEF PaletteSearch, PalTypes
      <4>2. Asks(Call("palette", Nothing, TRUE))
        BY <2>6 DEF PaletteSearch
      <4>3. hist'.calm => hist.calm /\ Alone
        BY <1>2, <2>6, PaletteHist DEF HistIs
      <4> QED BY <4>1, <4>2, <4>3
    <3>2. PICK n \in Slots : Asked(n, "palette", Nothing, TRUE)
      BY <3>1, AsksIs
    <3>3. Alone => \A m \in Slots : calls[m].kind # "palette"
      BY AloneIs
    <3> QED BY <3>1, <3>2, <3>3 DEF PalFits, Asked, OthersStay, Has
  <2> QED BY <1>2, <2>1, <2>2, <2>3, <2>4, <2>5, <2>6 DEF InPalette
<1>3. CASE OfPill
  <2>1. pal' = pal /\ calls' = calls
    BY <1>3 DEF OfPill, Work, HomeServed, HomeTaken, Poll, PollServed, PollTaken
  <2> QED BY <1>3, <2>1, OtherHist, PalStays DEF HistIs
<1>4. ASSUME NEW s \in Seasons, LoadSeasonEpisodes(s) PROVE PalFits'
  <2>1. ~pal.open /\ pal' = pal
    BY <1>0, <1>4 DEF LoadSeasonEpisodes, PalTypes
  <2> QED BY <2>1 DEF PalFits
<1>5. ASSUME NEW j \in Jobs, NewJob(j) PROVE PalFits'
  BY <1>5, OtherHist DEF HistIs, PalFits
<1>6. ASSUME NEW n \in UnderWay, Serve(n) \/ Refuse(n) PROVE PalFits'
  <2>1. pal' = pal /\ (\E a : Answered(n, a)) /\ (hist'.calm => hist.calm)
    <3>1. pal' = pal
      BY <1>6 DEF Serve, Refuse
    <3>2. CASE Serve(n)
      BY <3>1, <3>2, ServeIs, OtherHist DEF Served
    <3>3. CASE Refuse(n)
      BY <3>1, <3>3, RefuseIs
    <3> QED BY <1>6, <3>2, <3>3
  <2>2. \A m \in Slots : calls'[m].kind = calls[m].kind /\ calls'[m].word = calls[m].word
    BY <2>1, AnsweredIs DEF OthersStay
  <2> QED BY <2>1, <2>2, PalStays
<1>7. ASSUME NEW n \in UnderWay, Lose(n) \/ Take(n) PROVE PalFits'
  <2>1. /\ pal' = pal /\ calls' = [calls EXCEPT ![n] = Over] /\ (hist'.calm => hist.calm)
        /\ calls[n].kind # "palette"
    <3>1. CASE Lose(n)
      BY <3>1, OtherHist DEF Lose, HistIs
    <3>2. CASE Take(n)
      BY <3>2 DEF Take
    <3> QED BY <1>7, <3>1, <3>2
  <2>2. n \in Slots /\ OthersStay(n) /\ calls'[n].kind = "none"
    BY <2>1, EndedIs
  <2>3. \A m \in Slots : /\ calls'[m].kind = "palette" <=> calls[m].kind = "palette"
                         /\ calls'[m].kind = "palette" => (calls'[m].word <=> calls[m].word)
    BY <2>1, <2>2 DEF OthersStay
  <2> QED BY <2>1, <2>3, PalStays
<1>8. ASSUME NEW n \in UnderWay, TakePalette(n) PROVE PalFits'
  <2>1. /\ calls' = [calls EXCEPT ![n] = Over] /\ hist' = hist
        /\ calls[n].kind = "palette" /\ n \in Slots
        /\ UNCHANGED <<pal.open, pal.word, pal.timer>> /\ pal'.shown = calls[n].word
    BY <1>0, <1>8 DEF TakePalette, PalTypes, UnderWay, Slots
  <2>2. n \in Slots /\ OthersStay(n) /\ calls'[n].kind = "none"
    BY <2>1, EndedIs
  <2>3. pal.word \in BOOLEAN /\ calls[n].word \in BOOLEAN
    BY <1>0, <2>1 DEF PalTypes, Types, CallsTypes, IsCall
  <2>4. (calls[n].word <=> pal.word) => pal'.shown = pal.word
    BY <2>1, <2>3
  <2> QED BY <2>1, <2>2, <2>4 DEF PalFits, OthersStay, Has
<1> QED BY <1>1, <1>2, <1>3, <1>4, <1>5, <1>6, <1>7, <1>8, NextIs

-----------------------------------------------------------------------------
(* The grid shows the first of the list.                                   *)

\* So many of a list are its beginning, and there are more when it is longer.
LEMMA BeginningIs ==
  ASSUME NEW l \in Seq(Jobs), NEW x \in Nat
  PROVE  /\ SubSeq(l, 1, Min({x, Len(l)})) \in Seq(Jobs)
         /\ IsPrefix(SubSeq(l, 1, Min({x, Len(l)})), l)
         /\ Len(SubSeq(l, 1, Min({x, Len(l)}))) < Len(l) <=> x < Len(l)
<1>1. Len(l) \in Nat
  BY LenProperties
<1>2. PICK k \in 0..Len(l) : k = Min({x, Len(l)}) /\ k = IF x <= Len(l) THEN x ELSE Len(l)
  BY <1>1, MinIs
<1>3. \A i \in 1..k : l[i] \in Jobs
  BY <1>1, ElementOfSeq
<1>4. PICK b : b = SubSeq(l, 1, k)
  OBVIOUS
<1>5. b \in Seq(Jobs) /\ Len(b) = k /\ \A i \in 1..k : b[i] = l[i]
  <2>1. /\ SubSeq(l, 1, k) \in Seq(Jobs)
        /\ Len(SubSeq(l, 1, k)) = IF 1 <= k THEN k - 1 + 1 ELSE 0
        /\ \A i \in 1..(k - 1 + 1) : SubSeq(l, 1, k)[i] = l[1 + i - 1]
    BY <1>1, <1>3, SubSeqProperties
  <2> QED BY <1>4, <2>1
<1>6. IsPrefix(b, l)
  BY <1>5, PrefixIs
<1>7. Len(b) < Len(l) <=> x < Len(l)
  BY <1>1, <1>2, <1>5
<1> QED BY <1>2, <1>4, <1>5, <1>6, <1>7

\* The beginning and what comes next are a longer beginning.
LEMMA NextBeginning ==
  ASSUME NEW l \in Seq(Jobs), NEW x \in Nat, NEW y \in Nat, x < Len(l), x <= y
  PROVE  SubSeq(l, 1, Min({x, Len(l)})) \o SubSeq(l, x + 1, IF y <= Len(l) THEN y ELSE Len(l))
           = SubSeq(l, 1, Min({y, Len(l)}))
<1>1. Len(l) \in Nat
  BY LenProperties
<1>2. Min({x, Len(l)}) = x
  BY <1>1, MinIs
<1>3. PICK k \in x..Len(l) : k = (IF y <= Len(l) THEN y ELSE Len(l)) /\ k = Min({y, Len(l)})
  BY <1>1, MinIs
<1>4. SubSeq(l, 1, x) \o SubSeq(l, x + 1, k) = SubSeq(l, 1, k)
  <2>1. 1 \in 1..(Len(l) + 1) /\ x \in (1 - 1)..Len(l)
    BY <1>1
  <2> QED BY <1>3, <2>1, ConcatAdjacentSubSeq
<1> QED BY <1>2, <1>3, <1>4

LEMMA MTypes ==
  ASSUME Types
  PROVE  M \in Seq(Jobs) /\ IsInjective(M) /\ Len(M) \in Nat /\ ToSet(M) \subseteq ToSet(lib.jobs)
BY MatchingTypes DEF M, Types, PageTypes

\* The grid and its requests are as before.
GridSame ==
  /\ view' = view /\ lib'.jobs = lib.jobs
  /\ hist'.calm => hist.calm
  /\ hist'.removed <=> hist.removed
  /\ page'.all = page.all /\ page'.no = page.no /\ page'.more = page.more
  /\ page'.word = page.word /\ page'.timer = page.timer

LEMMA GridStays ==
  ASSUME GridFits, GridSame,
         \A m \in Slots : calls'[m] = calls[m] \/ /\ calls[m].kind \notin Kinds
                                                  /\ calls'[m].kind \notin Kinds
  PROVE  GridFits'
<1> SUFFICES ASSUME view' = "grid", hist'.calm
             PROVE  /\ ~page'.timer
                    /\ \A n, m \in Slots :
                         calls'[n].kind \in Kinds /\ calls'[m].kind \in Kinds => n = m
                    /\ \A n \in Slots : Awaits(calls[n])'
                    /\ (\A n \in Slots : calls'[n].kind \notin Kinds) => Settled'
  BY DEF GridFits
<1>1. /\ ~page.timer
      /\ \A n, m \in Slots : calls[n].kind \in Kinds /\ calls[m].kind \in Kinds => n = m
      /\ \A n \in Slots : Awaits(calls[n])
      /\ (\A n \in Slots : calls[n].kind \notin Kinds) => Settled
  BY DEF GridFits, GridSame
<1>2. M' = M /\ \A k : Page(page.word, k)' = Page(page.word, k)
  BY DEF M, Matching, Page, GridSame
<1>3. (Settled' <=> Settled) /\ \A l : Shows(l)' <=> Shows(l)
  BY <1>2 DEF Settled, Shows, GridSame
<1>4. \A q : Awaits(q)' <=> Awaits(q)
  BY <1>2, <1>3 DEF Awaits, GridSame
<1>5. ASSUME NEW n \in Slots PROVE Awaits(calls[n])'
  <2>1. CASE calls'[n] = calls[n]
    <3>1. PICK q : q = calls[n] /\ q = calls'[n]
      BY <2>1
    <3>2. Awaits(q)'
      BY <1>1, <1>4, <3>1
    <3> QED BY <3>1, <3>2 DEF Awaits
  <2>2. CASE calls'[n].kind \notin Kinds
    BY <2>2 DEF Awaits, Kinds
  <2> QED BY <2>1, <2>2
<1> QED BY <1>1, <1>3, <1>5 DEF GridSame

\* A request of another kind, or the end of one, is nothing to the grid.
LEMMA AskStays ==
  ASSUME Types, NEW kind, NEW arg, NEW word, Asks(Call(kind, arg, word)), kind \notin Kinds
  PROVE  \A m \in Slots : calls'[m] = calls[m] \/ /\ calls[m].kind \notin Kinds
                                                  /\ calls'[m].kind \notin Kinds
<1>1. PICK n \in Slots : Asked(n, kind, arg, word)
  BY AsksIs
<1> QED BY <1>1 DEF Asked, OthersStay, Kinds

\* The first page is asked for.
LEMMA LoadGrid ==
  ASSUME Types, GridFits, LoadJobs
  PROVE  GridFits'
<1> SUFFICES ASSUME hist'.calm PROVE GridFits'
  BY DEF GridFits
<1>1. hist'.calm => Alone /\ ~hist'.removed
  BY GridHist DEF OnGrid, HistIs
<1>2. \A m \in Slots : calls[m].kind \notin Kinds
  BY <1>1, AloneIs
<1>3. page'.all = <<>> /\ ~page'.timer /\ page'.word = page.word
  BY DEF LoadJobs, Types, PageTypes
<1>4. PICK n \in Slots : Asked(n, "list", 1, page.word)
  BY AsksIs DEF LoadJobs
<1>5. Awaits(calls[n])'
  BY <1>1, <1>3, <1>4 DEF Awaits, Asked
<1>6. \A m \in Slots : m # n => calls'[m].kind \notin Kinds
  BY <1>2, <1>4 DEF Asked, OthersStay
<1>7. \A m \in Slots : m # n => Awaits(calls[m])'
  BY <1>6 DEF Awaits, Kinds
<1>8. calls'[n].kind \in Kinds
  BY <1>4 DEF Asked, Kinds
<1> QED BY <1>3, <1>5, <1>6, <1>7, <1>8 DEF GridFits

LEMMA MoreGrid ==
  ASSUME Types, GridFits, LoadMoreJobs
  PROVE  GridFits'
<1> SUFFICES ASSUME view = "grid", hist'.calm PROVE GridFits'
  BY DEF GridFits, LoadMoreJobs
<1>1. hist.calm /\ Alone /\ ~hist.removed /\ ~hist'.removed
  BY GridHist DEF OnGrid, HistIs
<1>2. \A m \in Slots : calls[m].kind \notin Kinds
  BY <1>1, AloneIs
<1>3. ~page.timer /\ Settled /\ page.more
  BY <1>1, <1>2 DEF GridFits, LoadMoreJobs, Types, PageTypes
<1>4. page' = page /\ lib' = lib
  BY DEF LoadMoreJobs
<1>5. Settled'
  BY <1>1, <1>3, <1>4 DEF Settled, Shows, M, Matching
<1>6. PICK n \in Slots : Asked(n, "more", page.no + 1, page.word)
  BY AsksIs DEF LoadMoreJobs, NextPage
<1>7. Awaits(calls[n])'
  BY <1>1, <1>3, <1>4, <1>5, <1>6 DEF Awaits, Asked
<1>8. \A m \in Slots : m # n => calls'[m].kind \notin Kinds
  BY <1>2, <1>6 DEF Asked, OthersStay
<1>9. \A m \in Slots : m # n => Awaits(calls[m])'
  BY <1>8 DEF Awaits, Kinds
<1>10. calls'[n].kind \in Kinds
  BY <1>6 DEF Asked, Kinds
<1> QED BY <1>3, <1>4, <1>7, <1>8, <1>9, <1>10 DEF GridFits

LEMMA DeleteGrid ==
  ASSUME Types, GridFits, NEW j \in Jobs, DeleteJob(j)
  PROVE  GridFits'
<1> SUFFICES ASSUME view = "grid", hist'.calm PROVE GridFits'
  BY DEF GridFits, DeleteJob
<1>1. hist.calm /\ Alone /\ hist'.removed
  BY GridHist DEF OnGrid, HistIs
<1>2. \A m \in Slots : calls[m].kind \notin Kinds
  BY <1>1, AloneIs
<1>3. ~page.timer /\ Settled
  BY <1>1, <1>2 DEF GridFits
<1>4. page' = page /\ lib' = lib /\ j \in ToSet(page.all)
  BY DEF DeleteJob
<1>5. Shows(page.all)'
  BY <1>3, <1>4 DEF Settled, Shows, M, Matching
<1>6. PICK n \in Slots : Asked(n, "delete", j, FALSE)
  BY AsksIs DEF DeleteJob
<1>7. Awaits(calls[n])'
  <2>1. calls'[n].kind = "delete" /\ calls'[n].arg = j /\ calls'[n].ans # TRUE
    BY <1>6, NotNothing DEF Asked
  <2>2. calls'[n].arg \in ToSet(page'.all)
    BY <1>4, <2>1
  <2> QED BY <1>1, <1>5, <2>1, <2>2 DEF Awaits
<1>8. \A m \in Slots : m # n => calls'[m].kind \notin Kinds
  BY <1>2, <1>6 DEF Asked, OthersStay
<1>9. \A m \in Slots : m # n => Awaits(calls[m])'
  BY <1>8 DEF Awaits, Kinds
<1>10. calls'[n].kind \in Kinds
  BY <1>6 DEF Asked, Kinds
<1> QED BY <1>3, <1>4, <1>7, <1>8, <1>9, <1>10 DEF GridFits

\* The server answers the request the grid waits for: a list with what there is, a
\* delete by taking the video out of the list everywhere.
LEMMA ServeGrid ==
  ASSUME Types, GridFits, NEW n \in UnderWay, Serve(n)
  PROVE  GridFits'
<1>0. /\ IsCall(calls[n]) /\ n \in Slots /\ calls[n] # Over
      /\ UNCHANGED <<view, page, tabs, pill, pal, hist>>
  BY DEF Serve, Types, CallsTypes, UnderWay, Slots
<1>1. CASE calls[n].kind \notin Kinds
  <2>1. calls[n].kind \in {"episodes", "palette", "edit"}
    BY <1>0, <1>1 DEF IsCall, Kinds
  <2>2. PICK a : /\ Answered(n, a)
                 /\ lib' = lib \/ lib' = [lib EXCEPT !.edited = @ \cup {calls[n].arg}]
    BY <2>1, ServeIs DEF Served
  <2>3. lib'.jobs = lib.jobs
    BY <2>2 DEF Types, LibTypes
  <2>4. calls'[n].kind \notin Kinds /\ OthersStay(n)
    BY <1>1, <2>2, AnsweredIs
  <2> QED BY <1>0, <1>1, <2>3, <2>4, GridStays DEF GridSame, OthersStay
<1>2. CASE calls[n].kind \in Kinds
  <2> SUFFICES ASSUME view = "grid", hist.calm PROVE GridFits'
    BY <1>0 DEF GridFits
  <2>0. /\ ~page.timer /\ Awaits(calls[n])
        /\ \A m \in Slots : m # n => calls[m].kind \notin Kinds
    BY <1>0, <1>2 DEF GridFits
  <2>1. PICK a : Served(n, a)
    BY ServeIs
  <2>2. /\ OthersStay(n) /\ calls'[n].ans = a
        /\ calls'[n].kind = calls[n].kind /\ calls'[n].arg = calls[n].arg
        /\ calls'[n].word = calls[n].word /\ calls[n].ans = Nothing
    BY <2>1, AnsweredIs DEF Served
  <2>3. \A m \in Slots : m # n => calls'[m].kind \notin Kinds /\ Awaits(calls[m])'
    BY <2>0, <2>2 DEF OthersStay, Awaits, Kinds
  <2>4. CASE calls[n].kind \in {"list", "more"}
    <3>1. calls[n].word = page.word
      BY <1>0, <2>0, <2>4 DEF IsCall, Awaits, Types, PageTypes
    <3>2. lib' = lib /\ a = Page(page.word, calls[n].arg)
      BY <2>1, <2>4, <3>1 DEF Served
    <3>3. /\ \A k : Page(page.word, k)' = Page(page.word, k)
          /\ Settled' <=> Settled
      BY <1>0, <3>2 DEF Page, Matching, Settled, Shows, M
    <3>4. Awaits(calls[n])'
      <4>1. CASE calls[n].kind = "list"
        <5>1. /\ calls'[n].arg = 1 /\ (calls'[n].word <=> page'.word) /\ page'.all = <<>>
              /\ ~hist'.removed
          BY <1>0, <2>0, <2>2, <4>1 DEF Awaits
        <5>2. calls'[n].ans = Page(page.word, 1)'
          BY <2>0, <2>2, <3>2, <3>3, <4>1 DEF Awaits
        <5> QED BY <1>0, <2>2, <4>1, <5>1, <5>2 DEF Awaits
      <4>2. CASE calls[n].kind = "more"
        <5>1. /\ Settled' /\ page'.more /\ calls'[n].arg = page'.no + 1
              /\ (calls'[n].word <=> page'.word) /\ ~hist'.removed
          BY <1>0, <2>0, <2>2, <3>3, <4>2 DEF Awaits
        <5>2. calls'[n].ans = Page(page.word, page.no + 1)'
          BY <1>0, <2>0, <2>2, <3>2, <3>3, <4>2 DEF Awaits
        <5> QED BY <1>0, <2>2, <4>2, <5>1, <5>2 DEF Awaits
      <4> QED BY <2>4, <4>1, <4>2
    <3> QED BY <1>0, <1>2, <2>0, <2>2, <2>3, <3>4 DEF GridFits
  <2>5. CASE calls[n].kind = "delete"
    <3>0. PICK j \in Jobs : j = calls[n].arg
      BY <1>0, <2>5 DEF IsCall
    <3> DEFINE S == Jobs \ {j}
    <3>1. /\ hist.removed /\ j \in ToSet(page.all) /\ Shows(page.all)
      BY <2>0, <2>2, <2>5, <3>0, NotNothing DEF Awaits
    <3>2. M \in Seq(Jobs) /\ IsInjective(M) /\ ToSet(M) \subseteq ToSet(lib.jobs) /\ Len(M) \in Nat
      BY MTypes
    <3>3. /\ page.all \in Seq(Jobs) /\ lib.jobs \in Seq(Jobs) /\ Len(page.all) \in Nat
          /\ DOMAIN page.all = 1..Len(page.all) /\ DOMAIN M = 1..Len(M)
      BY <3>2, LenProperties DEF Types, PageTypes, LibTypes
    <3>4. Len(page.all) <= Len(M) /\ \A i \in 1..Len(page.all) : page.all[i] = M[i]
      BY <3>1, <3>2, <3>3, PrefixIs DEF Shows
    <3>5. PICK k \in 1..Len(page.all) : page.all[k] = j
      BY <3>1, <3>3 DEF ToSet
    <3>6. k \in DOMAIN M /\ M[k] = j
      BY <3>2, <3>3, <3>4, <3>5
    <3>7. \A i \in 1..Len(M) : i > Len(page.all) => M[i] \in S
      <4> SUFFICES ASSUME NEW i \in 1..Len(M), i > Len(page.all) PROVE M[i] \in S
        OBVIOUS
      <4>1. i # k
        BY <3>2, <3>3
      <4>2. M[i] # j
        BY <3>2, <3>3, <3>6, <4>1 DEF IsInjective
      <4> QED BY <3>2, <4>2, ElementOfSeq
    <3>8. /\ IsPrefix(Filter(page.all, S), Filter(M, S))
          /\ Len(Filter(page.all, S)) < Len(Filter(M, S)) <=> Len(page.all) < Len(M)
      <4> HIDE DEF S
      <4> QED BY <3>1, <3>2, <3>3, <3>7, FilterPrefix DEF Shows
    <3>9. a = TRUE /\ lib' = [lib EXCEPT !.jobs = Filter(@, S)]
      <4>1. j \in ToSet(lib.jobs)
        BY <3>2, <3>3, <3>6 DEF ToSet
      <4>2. /\ a \in BOOLEAN /\ (a <=> j \in ToSet(lib.jobs))
            /\ lib' = IF a THEN [lib EXCEPT !.jobs = Filter(@, S)] ELSE lib
        BY <2>1, <2>5, <3>0 DEF Served
      <4>3. a = TRUE
        BY <4>1, <4>2
      <4> QED BY <4>2, <4>3
    <3>10. lib'.jobs = Filter(lib.jobs, S) /\ page' = page
      <4> HIDE DEF S
      <4> QED BY <1>0, <3>9 DEF Types, LibTypes
    <3>11. M' = Filter(M, S)
      <4>1. CASE page.word
        <5>1. M = Filter(lib.jobs, Found) /\ M' = Filter(Filter(lib.jobs, S), Found)
          <6> HIDE DEF S
          <6> QED BY <3>10, <4>1 DEF M, Matching
        <5>2. Filter(Filter(lib.jobs, S), Found) = Filter(lib.jobs, S \cap Found)
          <6> HIDE DEF S
          <6> QED BY <3>3, FilterTwice
        <5>3. Filter(Filter(lib.jobs, Found), S) = Filter(lib.jobs, Found \cap S)
          <6> HIDE DEF S
          <6> QED BY <3>3, FilterTwice
        <5>4. S \cap Found = Found \cap S
          OBVIOUS
        <5> HIDE DEF S
        <5> QED BY <5>1, <5>2, <5>3, <5>4
      <4>2. CASE ~page.word
        <5> HIDE DEF S
        <5> QED BY <3>10, <4>2 DEF M, Matching
      <4> QED BY <4>1, <4>2
    <3>12. Shows(Filter(page.all, S))'
      <4>1. page.more <=> Len(Filter(page.all, S)) < Len(Filter(M, S))
        BY <3>1, <3>8 DEF Shows
      <4>2. PICK l : l = Filter(page.all, S)
        OBVIOUS
      <4>3. Shows(l)'
        <5> HIDE DEF S
        <5> QED BY <3>8, <3>10, <3>11, <4>1, <4>2 DEF Shows
      <4>4. Filter(page'.all, S) = l
        BY <3>10, <4>2
      <4> QED BY <4>3, <4>4 DEF Shows
    <3>13. Awaits(calls[n])'
      <4>1. /\ calls'[n].kind = "delete" /\ calls'[n].arg = j /\ calls'[n].ans = a
            /\ hist'.removed /\ j \in ToSet(page'.all)
        BY <1>0, <2>2, <2>5, <3>0, <3>1, <3>10
      <4>3. calls'[n].ans = TRUE
        BY <3>9, <4>1
      <4>2. Shows(Filter(page.all, Jobs \ {calls[n].arg}))'
        BY <3>12, <4>1
      <4> QED BY <4>1, <4>2, <4>3 DEF Awaits
    <3> QED BY <1>0, <1>2, <2>0, <2>2, <2>3, <3>13 DEF GridFits
  <2> QED BY <1>2, <2>4, <2>5 DEF Kinds
<1> QED BY <1>1, <1>2

\* An error to a list is the end of the calm; a delete that failed changes nothing.
LEMMA RefuseGrid ==
  ASSUME Types, GridFits, NEW n \in UnderWay, Refuse(n)
  PROVE  GridFits'
<1>0. UNCHANGED <<lib, view, page, tabs, pill, pal>> /\ n \in Slots
  BY DEF Refuse, UnderWay, Slots
<1>1. PICK a :
        /\ Answered(n, a)
        /\ calls[n].kind \in {"delete", "edit"} => a = FALSE
        /\ IF calls[n].kind \in {"list", "more"} THEN ~hist'.calm ELSE hist'.calm = hist.calm
  BY RefuseIs
<1>2. hist'.removed <=> hist.removed
  BY OtherHist DEF HistIs
<1>3. /\ OthersStay(n) /\ calls'[n].ans = a
      /\ calls'[n].kind = calls[n].kind /\ calls'[n].arg = calls[n].arg
      /\ calls'[n].word = calls[n].word /\ calls[n].ans = Nothing
  BY <1>1, AnsweredIs
<1>4. CASE calls[n].kind \in {"list", "more"}
  BY <1>1, <1>4 DEF GridFits
<1>5. CASE calls[n].kind = "delete"
  <2> SUFFICES ASSUME view = "grid", hist.calm PROVE GridFits'
    BY <1>0, <1>1, <1>5 DEF GridFits
  <2>1. /\ ~page.timer /\ Awaits(calls[n])
        /\ \A m \in Slots : m # n => calls[m].kind \notin Kinds
    BY <1>0, <1>5 DEF GridFits, Kinds
  <2>2. \A m \in Slots : m # n => calls'[m].kind \notin Kinds /\ Awaits(calls[m])'
    BY <2>1, <1>3 DEF OthersStay, Awaits, Kinds
  <2>3. Shows(page.all)
    BY <1>3, <1>5, <2>1, NotNothing DEF Awaits
  <2>4. Shows(page.all)'
    BY <1>0, <2>3 DEF Shows, M, Matching
  <2>5. hist.removed /\ calls[n].arg \in ToSet(page.all)
    BY <1>5, <2>1 DEF Awaits
  <2>6. /\ calls'[n].kind = "delete" /\ calls'[n].ans = FALSE
        /\ hist'.removed /\ calls'[n].arg \in ToSet(page'.all)
    BY <1>0, <1>1, <1>2, <1>3, <1>5, <2>5
  <2>7. Awaits(calls[n])'
    BY <2>4, <2>6 DEF Awaits
  <2> QED BY <1>0, <1>3, <1>5, <2>1, <2>2, <2>7 DEF GridFits, Kinds
<1>6. CASE calls[n].kind \notin Kinds
  <2>1. hist'.calm = hist.calm
    BY <1>1, <1>6 DEF Kinds
  <2> QED BY <1>0, <1>2, <1>3, <1>6, <2>1, GridStays DEF GridSame, OthersStay
<1> QED BY <1>4, <1>5, <1>6 DEF Kinds

\* Without an answer to a list or a delete nobody knows; a further page can be asked
\* for again.
LEMMA LoseGrid ==
  ASSUME Types, GridFits, NEW n \in UnderWay, Lose(n)
  PROVE  GridFits'
<1>1. HistIs(hist.asked, hist.calm /\ calls[n].kind \notin {"list", "delete"}, hist.removed)
  BY OtherHist
<1>2. n \in Slots /\ OthersStay(n) /\ calls'[n].kind = "none"
  BY EndedIs DEF Lose
<1>3. /\ UNCHANGED <<lib, view>>
      /\ page'.all = page.all /\ page'.no = page.no /\ page'.more = page.more
      /\ page'.word = page.word /\ page'.timer = page.timer
  BY DEF Lose, Types, PageTypes
<1>4. CASE calls[n].kind \in {"list", "delete"}
  BY <1>1, <1>4 DEF HistIs, GridFits
<1>5. CASE calls[n].kind = "more"
  <2> SUFFICES ASSUME view = "grid", hist.calm PROVE GridFits'
    BY <1>1, <1>3 DEF GridFits, HistIs
  <2>1. /\ ~page.timer /\ Awaits(calls[n])
        /\ \A m \in Slots : m # n => calls[m].kind \notin Kinds
    BY <1>2, <1>5 DEF GridFits, Kinds
  <2>2. \A m \in Slots : calls'[m].kind \notin Kinds
    BY <1>2, <2>1 DEF OthersStay, Kinds
  <2>3. \A m \in Slots : Awaits(calls[m])'
    BY <2>2 DEF Awaits, Kinds
  <2>4. Settled
    BY <1>5, <2>1 DEF Awaits
  <2>5. M' = M /\ (hist'.removed <=> hist.removed)
    BY <1>1, <1>3 DEF M, Matching, HistIs
  <2>6. Settled'
    BY <1>3, <2>4, <2>5 DEF Settled, Shows
  <2> QED BY <1>3, <2>1, <2>2, <2>3, <2>6 DEF GridFits
<1>6. CASE calls[n].kind \notin Kinds
  BY <1>1, <1>2, <1>3, <1>6, GridStays DEF GridSame, OthersStay, HistIs, Kinds
<1> QED BY <1>4, <1>5, <1>6 DEF Kinds

\* A page is the part of the list from low + 1 to x.
PageFrom(no, low, x) ==
  /\ x \in Nat /\ low \in Nat /\ low <= x
  /\ Page(page.word, no).jobs = SubSeq(M, low + 1, IF x <= Len(M) THEN x ELSE Len(M))
  /\ Page(page.word, no).more <=> x < Len(M)

LEMMA ShownPage ==
  ASSUME Types, NEW no \in Nat \ {0}
  PROVE  PageFrom(no, (no - 1) * PageSize, no * PageSize)
<1>1. page.word \in BOOLEAN
  BY DEF Types, PageTypes
<1>2. /\ IsPage(Page(page.word, no))
      /\ Page(page.word, no).jobs = SubSeq(Matching(page.word), (no - 1) * PageSize + 1,
           IF no * PageSize <= Len(Matching(page.word)) THEN no * PageSize
           ELSE Len(Matching(page.word)))
      /\ Page(page.word, no).more <=> no * PageSize < Len(Matching(page.word))
  BY <1>1, PageIs
<1>3. PICK low : low = (no - 1) * PageSize
  OBVIOUS
<1>4. PICK x : x = no * PageSize
  OBVIOUS
<1>5. x \in Nat /\ low \in Nat /\ low <= x
  BY <1>3, <1>4, BrowseAssumption
<1>6. PageFrom(no, low, x)
  BY <1>2, <1>3, <1>4, <1>5 DEF M, PageFrom
<1> QED BY <1>3, <1>4, <1>6

\* The grid has so many of the list, and nothing of it is under way.
LEMMA SettledThen ==
  ASSUME Types, NEW x \in Nat, x = page'.no * PageSize, M' = M,
         page'.all = SubSeq(M, 1, Min({x, Len(M)})), page'.more <=> x < Len(M)
  PROVE  Settled'
<1>1. M \in Seq(Jobs)
  BY MTypes
<1>2. PICK l : l = SubSeq(M, 1, Min({x, Len(M)}))
  OBVIOUS
<1>3. l \in Seq(Jobs) /\ IsPrefix(l, M) /\ (Len(l) < Len(M) <=> x < Len(M))
  BY <1>1, <1>2, BeginningIs
<1>4. page'.all = l
  BY <1>2
<1>5. Shows(l)'
  BY <1>3 DEF Shows
<1>6. page'.all = SubSeq(M', 1, Min({page'.no * PageSize, Len(M')}))
  BY <1>2, <1>4
<1> QED BY <1>4, <1>5, <1>6 DEF Settled, Shows

LEMMA TakeGrid ==
  ASSUME Types, GridFits, NEW n \in UnderWay, Take(n)
  PROVE  GridFits'
<1>0. /\ UNCHANGED <<lib, view, hist>> /\ n \in Slots /\ IsCall(calls[n]) /\ PageTypes
      /\ calls[n].ans # Nothing
  BY DEF Take, UnderWay, Slots, Types, CallsTypes
<1>1. n \in Slots /\ OthersStay(n) /\ calls'[n].kind = "none"
  BY EndedIs DEF Take
<1>2. CASE calls[n].kind \notin Kinds
  <2>1. calls[n].kind = "edit" \/ page' = page
    BY <1>2 DEF Take, Kinds
  <2>2. CASE calls[n].kind = "edit"
    <3>1. page' = [page EXCEPT !.saving = FALSE,
                     !.box = IF calls[n].ans THEN Nothing ELSE @,
                     !.edited = IF calls[n].ans THEN @ \cup {EditedJob(n)} ELSE @]
      BY <2>2 DEF Take
    <3>2. /\ page'.all = page.all /\ page'.no = page.no /\ page'.more = page.more
          /\ page'.word = page.word /\ page'.timer = page.timer
      BY <1>0, <3>1 DEF PageTypes
    <3> QED BY <1>0, <1>1, <1>2, <3>2, GridStays DEF GridSame, OthersStay, Kinds
  <2>3. CASE page' = page
    BY <1>0, <1>1, <1>2, <2>3, GridStays DEF GridSame, OthersStay, Kinds
  <2> QED BY <2>1, <2>2, <2>3
<1>3. CASE calls[n].kind \in Kinds
  <2> SUFFICES ASSUME view = "grid", hist.calm PROVE GridFits'
    BY <1>0 DEF GridFits
  <2>1. /\ ~page.timer /\ Awaits(calls[n])
        /\ \A m \in Slots : m # n => calls[m].kind \notin Kinds
    BY <1>1, <1>3 DEF GridFits
  <2>2. \A m \in Slots : calls'[m].kind \notin Kinds /\ Awaits(calls[m])'
    BY <1>1, <2>1 DEF OthersStay, Awaits, Kinds
  <2>3. page'.timer = page.timer /\ page'.word = page.word
    BY <1>0, <1>3 DEF Take, PageTypes, Kinds
  <2>4. M' = M
    BY <1>0, <2>3 DEF M, Matching
  <2> SUFFICES Settled'
    BY <2>1, <2>2, <2>3 DEF GridFits
  <2>5. CASE calls[n].kind = "list"
    <3>1. calls[n].ans = Page(page.word, 1)
      BY <1>0, <2>1, <2>5 DEF Awaits
    <3>2. /\ page'.all = Page(page.word, 1).jobs /\ page'.no = 1
          /\ page'.more = Page(page.word, 1).more
      <4>1. PICK p : p = Page(page.word, 1)
        OBVIOUS
      <4>2. page' = [page EXCEPT !.all = p.jobs, !.no = 1, !.more = p.more, !.button = p.more,
                                 !.edited = {}]
        BY <2>5, <3>1, <4>1 DEF Take
      <4> QED BY <1>0, <4>1, <4>2 DEF PageTypes
    <3>3. PICK no \in Nat \ {0} : no = 1
      OBVIOUS
    <3>4. PICK low : low = (no - 1) * PageSize
      OBVIOUS
    <3>5. PICK x : x = no * PageSize
      OBVIOUS
    <3>6. /\ x \in Nat
          /\ Page(page.word, no).jobs = SubSeq(M, low + 1, IF x <= Len(M) THEN x ELSE Len(M))
          /\ Page(page.word, no).more <=> x < Len(M)
      <4>1. PageFrom(no, (no - 1) * PageSize, no * PageSize)
        BY <3>3, ShownPage
      <4>2. PageFrom(no, low, x)
        BY <3>4, <3>5, <4>1
      <4> QED BY <4>2 DEF PageFrom
    <3>7. low = 0
      <4>1. no - 1 = 0
        BY <3>3
      <4> QED BY <3>4, <4>1, BrowseAssumption
    <3>8. Min({x, Len(M)}) = IF x <= Len(M) THEN x ELSE Len(M)
      BY <3>6, MTypes, MinIs
    <3>9. page'.all = SubSeq(M, 1, Min({x, Len(M)}))
      <4>1. PICK k : k = IF x <= Len(M) THEN x ELSE Len(M)
        OBVIOUS
      <4>2. page'.all = SubSeq(M, low + 1, k) /\ low + 1 = 1
        BY <3>2, <3>3, <3>6, <3>7, <4>1
      <4>3. Min({x, Len(M)}) = k
        BY <3>8, <4>1
      <4> QED BY <4>2, <4>3
    <3>10. page'.more <=> x < Len(M)
      BY <3>2, <3>3, <3>6
    <3>11. x = page'.no * PageSize
      BY <3>2, <3>3, <3>5
    <3> QED BY <2>4, <3>6, <3>9, <3>10, <3>11, SettledThen
  <2>6. CASE calls[n].kind = "more"
    <3>1. /\ calls[n].ans = Page(page.word, page.no + 1) /\ calls[n].arg = page.no + 1
          /\ Settled /\ page.more /\ ~hist.removed
      BY <1>0, <2>1, <2>6 DEF Awaits
    <3>2. PICK no \in Nat \ {0} : no = page.no + 1
      BY <1>0 DEF PageTypes
    <3>3. /\ page'.all = page.all \o Page(page.word, no).jobs /\ page'.no = no
          /\ page'.more = Page(page.word, no).more
      <4>1. calls[n].ans = Page(page.word, no) /\ calls[n].arg = no
        BY <3>1, <3>2
      <4>2. PICK p : p = Page(page.word, no)
        OBVIOUS
      <4>3. page' = [page EXCEPT !.all = @ \o p.jobs, !.no = no, !.more = p.more, !.button = p.more]
        BY <2>6, <4>1, <4>2 DEF Take
      <4> QED BY <1>0, <4>2, <4>3 DEF PageTypes
    <3>4. PICK low : low = (no - 1) * PageSize
      OBVIOUS
    <3>5. PICK x : x = no * PageSize
      OBVIOUS
    <3>6. /\ x \in Nat /\ low \in Nat /\ low <= x
          /\ Page(page.word, no).jobs = SubSeq(M, low + 1, IF x <= Len(M) THEN x ELSE Len(M))
          /\ Page(page.word, no).more <=> x < Len(M)
      <4>1. PageFrom(no, (no - 1) * PageSize, no * PageSize)
        BY <3>2, ShownPage
      <4>2. PageFrom(no, low, x)
        BY <3>4, <3>5, <4>1
      <4> QED BY <4>2 DEF PageFrom
    <3>7. low = page.no * PageSize
      <4>1. no - 1 = page.no
        BY <1>0, <3>2 DEF PageTypes
      <4> QED BY <3>4, <4>1
    <3>8. page.all = SubSeq(M, 1, Min({low, Len(M)}))
      BY <3>1, <3>7 DEF Settled
    <3>9. M \in Seq(Jobs)
      BY MTypes
    <3>10. low < Len(M)
      <4>1. Len(page.all) < Len(M)
        BY <3>1 DEF Settled, Shows
      <4> QED BY <3>6, <3>8, <3>9, <4>1, BeginningIs
    <3>11. page.all \o Page(page.word, no).jobs = SubSeq(M, 1, Min({x, Len(M)}))
      BY <3>6, <3>8, <3>9, <3>10, NextBeginning
    <3>12. page'.all = SubSeq(M, 1, Min({x, Len(M)})) /\ (page'.more <=> x < Len(M))
      BY <3>3, <3>6, <3>11
    <3> QED BY <2>4, <3>3, <3>5, <3>6, <3>12, SettledThen
  <2>7. CASE calls[n].kind = "delete"
    <3>1. /\ hist.removed
          /\ IF calls[n].ans = TRUE THEN Shows(Filter(page.all, Jobs \ {calls[n].arg}))
                                    ELSE Shows(page.all)
      BY <2>1, <2>7 DEF Awaits
    <3>2. PICK l : l = IF calls[n].ans THEN Filter(page.all, Jobs \ {calls[n].arg}) ELSE page.all
      OBVIOUS
    <3>3. page'.all = l /\ page'.more = page.more
      BY <1>0, <2>7, <3>2 DEF Take, PageTypes
    <3>4. calls[n].ans \in {TRUE, FALSE}
      BY <1>0, <2>7, OverIs DEF IsCall
    <3>5. Shows(l)
      <4>1. CASE calls[n].ans = TRUE
        BY <3>1, <3>2, <4>1
      <4>2. CASE calls[n].ans = FALSE
        BY <3>1, <3>2, <4>2
      <4> QED BY <3>4, <4>1, <4>2
    <3>6. Shows(l)'
      BY <2>4, <3>3, <3>5 DEF Shows
    <3> QED BY <1>0, <3>1, <3>3, <3>6 DEF Settled, Shows
  <2> QED BY <1>3, <2>5, <2>6, <2>7 DEF Kinds
<1> QED BY <1>2, <1>3

LEMMA OnGridGrid ==
  ASSUME Types, GridFits, OnGrid
  PROVE  GridFits'
<1>0. PageTypes /\ view' = view /\ lib' = lib
  BY DEF Types, OnGrid, Type, LoadJobs, LoadMoreJobs, CloseEditModal, SaveEditModal,
     DeleteJob, OpenEditModal
<1>1. CASE Type
  BY <1>1, GridHist DEF HistIs, GridFits
<1>2. CASE LoadJobs
  BY <1>2, LoadGrid
<1>3. CASE LoadMoreJobs
  BY <1>3, MoreGrid
<1>4. CASE \E j \in Jobs : DeleteJob(j)
  BY <1>4, DeleteGrid
<1>5. CASE SaveEditModal
  <2>1. page' = [page EXCEPT !.saving = TRUE] /\ Asks(Call("edit", page.box, FALSE))
    BY <1>5 DEF SaveEditModal
  <2>2. /\ page'.all = page.all /\ page'.no = page.no /\ page'.more = page.more
        /\ page'.word = page.word /\ page'.timer = page.timer
    BY <1>0, <2>1 DEF PageTypes
  <2>3. HistIs(hist.asked + 1, hist.calm, hist.removed)
    BY <1>5, GridHist
  <2>4. "edit" \notin Kinds
    BY DEF Kinds
  <2> QED BY <1>0, <2>1, <2>2, <2>3, <2>4, AskStays, GridStays DEF GridSame, HistIs
<1>6. CASE CloseEditModal \/ \E j \in Jobs : OpenEditModal(j)
  <2>1. calls' = calls /\ hist' = hist /\ \E b : page' = [page EXCEPT !.box = b]
    BY <1>6 DEF CloseEditModal, OpenEditModal
  <2>2. /\ page'.all = page.all /\ page'.no = page.no /\ page'.more = page.more
        /\ page'.word = page.word /\ page'.timer = page.timer
    BY <1>0, <2>1 DEF PageTypes
  <2> QED BY <1>0, <2>1, <2>2, GridStays DEF GridSame
<1> QED BY <1>1, <1>2, <1>3, <1>4, <1>5, <1>6 DEF OnGrid

LEMMA NextGrid ==
  ASSUME Types, GridFits, Next
  PROVE  GridFits'
<1>1. CASE InPalette
  <2>1. UNCHANGED <<lib, view, page>> /\ (calls' = calls \/ \E w : Asks(Call("palette", Nothing, w)))
    BY <1>1 DEF InPalette, OpenPalette, ClosePalette, TypeInPalette, PaletteSearch, MoveActive, Activate
  <2>2. view # "grid"
    BY <1>1 DEF Types, PalTypes, InPalette, OpenPalette, ClosePalette, TypeInPalette,
       PaletteSearch, MoveActive, Activate
  <2> QED BY <2>1, <2>2 DEF GridFits
<1>2. CASE OfPill
  <2>1. UNCHANGED <<view, page, calls>> /\ lib'.jobs = lib.jobs
    BY <1>2 DEF OfPill, Work, HomeServed, HomeTaken, Poll, PollServed, PollTaken, Types, LibTypes
  <2>2. HistIs(hist.asked, hist.calm, hist.removed)
    BY <1>2, OtherHist
  <2> QED BY <2>1, <2>2, GridStays DEF GridSame, HistIs
<1>3. ASSUME NEW s \in Seasons, LoadSeasonEpisodes(s) PROVE GridFits'
  BY <1>3 DEF LoadSeasonEpisodes, GridFits
<1>4. ASSUME NEW j \in Jobs, NewJob(j) PROVE GridFits'
  BY <1>4, OtherHist DEF HistIs, GridFits
<1>5. ASSUME NEW n \in UnderWay, TakePalette(n) PROVE GridFits'
  <2>1. /\ UNCHANGED <<lib, view, page, hist>> /\ calls' = [calls EXCEPT ![n] = Over]
        /\ calls[n].kind = "palette"
    BY <1>5 DEF TakePalette
  <2>2. n \in Slots /\ OthersStay(n) /\ calls'[n].kind = "none"
    BY <2>1, EndedIs
  <2> QED BY <2>1, <2>2, GridStays DEF GridSame, OthersStay, Kinds
<1> QED BY <1>1, <1>2, <1>3, <1>4, <1>5, NextIs, OnGridGrid, ServeGrid, RefuseGrid, LoseGrid, TakeGrid

-----------------------------------------------------------------------------
(* The invariant.                                                          *)

LEMMA InitCalls ==
  ASSUME Init
  PROVE  /\ DOMAIN calls = Slots
         /\ \A n \in Slots : calls[n] = Over \/ /\ n = 0 /\ view = "grid"
                                                /\ calls[n] = Call("list", 1, FALSE)
         /\ \A n \in Slots : view = "grid" /\ n = 0 => calls[n] = Call("list", 1, FALSE)
BY DEF Init, Slots

LEMMA FirstCall ==
  LET q == Call("list", 1, FALSE)
  IN  IsCall(q) /\ q.kind = "list" /\ q.arg = 1 /\ q.word = FALSE /\ q.ans = Nothing
<1>1. PICK q : q = Call("list", 1, FALSE)
  OBVIOUS
<1>2. q = [kind |-> "list", arg |-> 1, word |-> FALSE, ans |-> Nothing]
  BY <1>1 DEF Call
<1>3. /\ DOMAIN q = {"kind", "arg", "word", "ans"} /\ q.kind = "list" /\ q.arg = 1
      /\ q.word = FALSE /\ q.ans = Nothing
  BY <1>2
<1>4. q.kind \in {"list", "more"} /\ q.arg \in Nat \ {0} /\ ~(q.ans # Nothing)
  BY <1>3
<1>5. q.word \in BOOLEAN
  BY <1>3
<1>6. IsCall(q)
  BY <1>3, <1>4, <1>5, Zenon DEF IsCall
<1> QED BY <1>1, <1>3, <1>6

LEMMA InitTypes == Init => Types
<1> SUFFICES ASSUME Init PROVE Types
  OBVIOUS
<1>1. LibTypes
  BY BrowseAssumption DEF Init, LibTypes
<1>2. PageTypes /\ HistTypes
  BY EmptySeq DEF Init, PageTypes, HistTypes
<1>3. TabsTypes
  BY DEF Init, TabsTypes
<1>4. PillTypes
  BY DEF Init, PillTypes, Polled
<1>5. PalTypes
  BY EmptySeq DEF Init, PalTypes
<1>6. IsCall(Call("list", 1, FALSE))
  BY FirstCall
<1>7. CallsTypes
  <2>1. \A n \in Slots : IsCall(calls[n])
    BY <1>6, InitCalls, OverIs
  <2>2. hist.asked = 0
    BY DEF Init
  <2>3. \A n \in Slots : n > hist.asked => calls[n] = Over
    <3>1. \A n \in Slots : n = 0 \/ calls[n] = Over
      BY InitCalls
    <3>2. \A n \in Slots : n > hist.asked => n # 0
      BY <2>2
    <3> QED BY <3>1, <3>2
  <2> QED BY <2>1, <2>3, InitCalls DEF CallsTypes
<1>8. view \in {"grid", "seasons", "home", "other", "palette"}
  BY DEF Init
<1> QED BY <1>1, <1>2, <1>3, <1>4, <1>5, <1>7, <1>8 DEF Types

LEMMA InitInv == Init => Inv
<1> SUFFICES ASSUME Init PROVE Inv
  OBVIOUS
<1>1. Types
  BY InitTypes
<1>2. /\ Call("list", 1, FALSE).kind = "list" /\ Call("list", 1, FALSE).arg = 1
      /\ Call("list", 1, FALSE).word = FALSE /\ Call("list", 1, FALSE).ans = Nothing
      /\ Over.kind = "none"
  BY FirstCall, OverIs
<1>3. \A n \in Slots : calls[n].kind \in {"none", "list"}
  BY <1>2, InitCalls
<1>4. Saving
  BY <1>3 DEF Saving, Has, Init
<1>5. Fits
  BY <1>3 DEF Fits, Init
<1>6. PalFits
  BY DEF PalFits, Init
<1>7. GridFits
  <2> SUFFICES ASSUME view = "grid" PROVE GridFits
    BY DEF GridFits
  <2>0. 0 \in Slots
    BY BrowseAssumption DEF Slots
  <2>1. 0 \in Slots /\ calls[0] = Call("list", 1, FALSE)
    BY <2>0, InitCalls
  <2>2. \A n \in Slots : n # 0 => calls[n].kind \notin Kinds /\ Awaits(calls[n])
    BY <1>2, InitCalls DEF Kinds, Awaits
  <2>3. ~page.timer /\ page.all = <<>> /\ page.word = FALSE /\ ~hist.removed
    BY DEF Init
  <2>4. Awaits(calls[0])
    BY <1>2, <2>1, <2>3 DEF Awaits
  <2>5. calls[0].kind \in Kinds
    BY <1>2, <2>1 DEF Kinds
  <2> QED BY <2>1, <2>2, <2>3, <2>4, <2>5 DEF GridFits
<1> QED BY <1>1, <1>4, <1>5, <1>6, <1>7 DEF Inv

LEMMA StutterInv == Inv /\ UNCHANGED vars => Inv'
<1> SUFFICES ASSUME Inv, UNCHANGED vars PROVE Inv'
  OBVIOUS
<1>1. UNCHANGED <<lib, view, page, tabs, pill, pal, calls, hist>>
  BY DEF vars
<1>2. Types'
  BY <1>1 DEF Inv, Types, LibTypes, PageTypes, TabsTypes, PillTypes, PalTypes, CallsTypes, HistTypes
<1>3. Saving' /\ Fits' /\ PalFits'
  BY <1>1 DEF Inv, Saving, Has, Fits, PalFits
<1>4. GridFits'
  BY <1>1, GridStays DEF Inv, GridSame
<1> QED BY <1>2, <1>3, <1>4 DEF Inv

LEMMA InvHolds == Spec => []Inv
<1>1. Inv /\ [Next]_vars => Inv'
  <2>1. Inv /\ Next => Inv'
    BY NextTypes, NextSaving, NextFits, NextPalFits, NextGrid DEF Inv
  <2> QED BY <2>1, StutterInv
<1> QED BY <1>1, InitInv, PTL DEF Spec

-----------------------------------------------------------------------------
(* The theorems.                                                           *)

\* The types of the state; and the button of the edit box is disabled exactly while a
\* save is under way, for any number of boxes opened and closed, and saves that are
\* answered, refused or lost.
THEOREM TypeOKHolds == Spec => []TypeOK
<1>1. ASSUME Inv PROVE TypeOK
  <2>1. Types /\ Saving
    BY <1>1 DEF Inv
  <2>2. \A n \in UnderWay :
          calls[n].kind \in {"list", "more", "delete", "edit", "episodes", "palette"}
    BY <2>1 DEF Types, CallsTypes, IsCall, UnderWay, Slots
  <2>3. page.saving <=> \E n \in UnderWay : calls[n].kind = "edit"
    <3>1. \A n \in Slots : n \in UnderWay <=> calls[n].kind # "none"
      BY <2>1, UnderWayIs
    <3>2. UnderWay \subseteq Slots
      BY DEF UnderWay, Slots
    <3> QED BY <2>1, <3>1, <3>2 DEF Saving, Has
  <2>4. {page.more, page.button, page.word, page.timer, page.saving} \subseteq BOOLEAN
    <3>1. \A b \in {page.more, page.button, page.word, page.timer, page.saving} : b \in BOOLEAN
      BY <2>1, Zenon DEF Types, PageTypes
    <3> QED BY <3>1, Zenon
  <2>5. /\ lib.jobs \in Seq(Jobs) /\ lib.edited \subseteq Jobs /\ lib.active \in 0..1
        /\ page.all \in Seq(Jobs) /\ page.no \in Nat \ {0} /\ page.edited \subseteq Jobs
        /\ page.box \in Jobs \cup {Nothing}
        /\ tabs.selected \in Seasons \cup {Nothing}
        /\ \A s \in Seasons : tabs.cache[s] = Nothing \/ tabs.cache[s] \subseteq Jobs
        /\ pill.text \in {"health", "processing", "idle"}
        /\ pal.active \in Nat /\ pal.shown \in BOOLEAN \cup {Nothing}
    BY <2>1 DEF Types, LibTypes, PageTypes, TabsTypes, PillTypes, PalTypes
  <2> QED BY <2>2, <2>3, <2>4, <2>5, Zenon DEF TypeOK
<1> QED BY <1>1, InvHolds, PTL

LEMMA NobodyAsks ==
  ASSUME Types, UnderWay = {}
  PROVE  \A n \in Slots : calls[n].kind = "none"
BY UnderWayIs

\* As long as requests for the list follow one another and nobody else changes the
\* library, the grid shows the first of the matching videos, in order and none twice,
\* and says whether there are more: whatever the library, the word, the page size and
\* the number of searches, pages and deletes.
THEOREM CalmListIsPrefixHolds == Spec => []CalmListIsPrefix
<1>1. ASSUME Inv PROVE CalmListIsPrefix
  <2> SUFFICES ASSUME view = "grid", hist.calm, UnderWay = {}
               PROVE  /\ IsPrefix(page.all, Matching(page.word))
                      /\ page.more = (Len(page.all) < Len(Matching(page.word)))
    BY DEF CalmListIsPrefix
  <2>1. Types /\ GridFits
    BY <1>1 DEF Inv
  <2>2. \A n \in Slots : calls[n].kind \notin Kinds
    BY <2>1, NobodyAsks DEF Kinds
  <2>3. Settled
    BY <2>1, <2>2 DEF GridFits
  <2>4. IsPrefix(page.all, Matching(page.word))
    BY <2>3 DEF Settled, Shows, M
  <2>5. PICK m : m = Matching(page.word)
    OBVIOUS
  <2>6. page.more <=> Len(page.all) < Len(m)
    BY <2>3, <2>5 DEF Settled, Shows, M
  <2>7. page.more \in BOOLEAN /\ (Len(page.all) < Len(m)) \in BOOLEAN
    BY <2>1 DEF Types, PageTypes
  <2>8. page.more = (Len(page.all) < Len(m))
    BY <2>6, <2>7
  <2> QED BY <2>4, <2>5, <2>8
<1> QED BY <1>1, InvHolds, PTL

\* Answers that come when another season is selected, another box is open or something
\* else is typed still go where they belong, for any number of requests and orders of
\* their answers: what is cached of a season are episodes of it, an edit is shown only
\* for a video that was edited, and a calm palette ends with the rows for what is typed.
THEOREM AnswersFitQuestionsHolds == Spec => []AnswersFitQuestions
<1>1. ASSUME Inv PROVE AnswersFitQuestions
  <2>1. Types /\ Fits /\ PalFits
    BY <1>1 DEF Inv
  <2>2. ASSUME pal.open, hist.calm, UnderWay = {}, ~pal.timer PROVE pal.shown = pal.word
    <3>1. ~Has("palette")
      BY <2>1, <2>2, NobodyAsks DEF Has
    <3> QED BY <2>1, <2>2, <3>1 DEF PalFits
  <2> QED BY <2>1, <2>2 DEF AnswersFitQuestions, Fits
<1> QED BY <1>1, InvHolds, PTL
=============================================================================
