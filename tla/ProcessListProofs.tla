-------------------------- MODULE ProcessListProofs --------------------------
(***************************************************************************)
(* Proofs about the process listing and `p -k`, for any number of          *)
(* processes, programs and events.                                         *)
(***************************************************************************)
EXTENDS ProcessList, FiniteSetTheorems, TLAPS

-----------------------------------------------------------------------------
(* Sequences that hold the members of a finite set in some order.          *)

\* Such a sequence shows every member under one index.
LEMMA Enumeration ==
  ASSUME NEW S, IsFiniteSet(S), NEW s \in SetToSeqs(S)
  PROVE  /\ Cardinality(S) \in Nat
         /\ Len(s) = Cardinality(S)
         /\ DOMAIN s = 1..Cardinality(S)
         /\ s \in Seq(S)
         /\ \A i \in DOMAIN s : s[i] \in S
         /\ \A i, j \in DOMAIN s : s[i] = s[j] => i = j
         /\ \A x \in S : \E i \in DOMAIN s : s[i] = x
  <1>. DEFINE n == Cardinality(S)
  <1>1. n \in Nat
    BY FS_CardinalityType
  <1>2. s \in [1..n -> S] /\ \A i, j \in 1..n : i # j => s[i] # s[j]
    BY DEF SetToSeqs
  <1>3. s \in Injection(1..n, S)
    BY <1>2 DEF Injection, IsInjective
  <1>4. Cardinality(1..n) = n
    BY <1>1, FS_Interval
  <1>5. s \in Surjection(1..n, S)
    BY <1>3, <1>4, FS_Injection
  <1>6. \A x \in S : \E i \in 1..n : s[i] = x
    BY <1>5 DEF Surjection
  <1>. QED BY <1>1, <1>2, <1>6

\* Where no other member has the same key, the key alone decides the place.
LEMMA Rank ==
  ASSUME NEW S, IsFiniteSet(S), NEW s \in SetToSeqs(S), NEW key \in [S -> Nat],
         \A i, j \in DOMAIN s : i < j => key[s[i]] >= key[s[j]],
         NEW k \in DOMAIN s, \A x \in S : key[x] = key[s[k]] => x = s[k]
  PROVE  k = 1 + Cardinality({x \in S : key[x] > key[s[k]]})
  <1>. DEFINE above == {x \in S : key[x] > key[s[k]]}
              f == [i \in 1..(k - 1) |-> s[i]]
  <1>1. /\ Cardinality(S) \in Nat
        /\ DOMAIN s = 1..Cardinality(S)
        /\ \A i \in DOMAIN s : s[i] \in S
        /\ \A i, j \in DOMAIN s : s[i] = s[j] => i = j
        /\ \A x \in S : \E i \in DOMAIN s : s[i] = x
    BY Enumeration
  <1>2. k \in Nat /\ k >= 1 /\ \A i \in 1..(k - 1) : i \in DOMAIN s /\ i < k
    BY <1>1
  <1>3. \A i \in DOMAIN s : key[s[i]] \in Nat
    BY <1>1
  <1>4. \A i \in 1..(k - 1) : s[i] \in above
    <2>. TAKE i \in 1..(k - 1)
    <2>1. key[s[i]] >= key[s[k]]
      BY <1>2
    <2>2. key[s[i]] # key[s[k]]
      BY <1>1, <1>2
    <2>. QED BY <1>1, <1>2, <1>3, <2>1, <2>2
  <1>5. \A x \in above : \E i \in 1..(k - 1) : s[i] = x
    <2>. TAKE x \in above
    <2>1. PICK i \in DOMAIN s : s[i] = x
      BY <1>1
    <2>2. ~ (k < i)
      BY <1>3, <2>1
    <2>3. i # k
      BY <1>3, <2>1
    <2>. QED BY <1>1, <2>1, <2>2, <2>3
  <1>6. f \in Injection(1..(k - 1), above)
    BY <1>1, <1>2, <1>4 DEF Injection, IsInjective
  <1>7. f \in Surjection(1..(k - 1), above)
    BY <1>4, <1>5 DEF Surjection
  <1>8. IsFiniteSet(1..(k - 1)) /\ Cardinality(1..(k - 1)) = k - 1
    BY <1>2, FS_Interval
  <1>9. Cardinality(above) = k - 1
    BY <1>6, <1>7, <1>8, FS_Surjection
  <1>. QED BY <1>2, <1>9

-----------------------------------------------------------------------------
(* Samples and the programs they are grouped into.                         *)

\* What a sample is, whenever it was taken.
AnySample == [pid : Pids, born : Nat \ {0}, name : Names, cpu : 0..MaxUse]

OnePerPid(S) == \A x, y \in S : x.pid = y.pid => x = y

\* The programs of some samples: see Sort.
ByName(S) == {{x \in S : x.name = n} : n \in {x.name : x \in S}}

\* The listings of some samples, and the orders a program may be shown in.
Listings(S) == Sorted(ByName(S), Total)
Orders(P) == Sorted(P, Cpu)

LEMMA FiniteSamples ==
  ASSUME NEW S, S \subseteq AnySample, OnePerPid(S)
  PROVE  IsFiniteSet(S) /\ Cardinality(S) <= Cardinality(Pids)
  <1>. DEFINE pidOf == [x \in S |-> x.pid]
  <1>1. pidOf \in Injection(S, Pids)
    BY DEF Injection, IsInjective, OnePerPid, AnySample
  <1>. QED BY <1>1, FS_Injection, ListAssumption

LEMMA ProgramsFinite ==
  ASSUME NEW S, S \subseteq AnySample, OnePerPid(S)
  PROVE  /\ IsFiniteSet(ByName(S))
         /\ Cardinality(ByName(S)) <= MaxSize + 1
         /\ \A P \in ByName(S) : /\ P # {} /\ P \subseteq S
                                 /\ IsFiniteSet(P) /\ Cardinality(P) <= MaxSize + 1
         /\ \A P, Q \in ByName(S) : \A x \in P, y \in Q : x.name = y.name <=> P = Q
         /\ \A x \in S : \E P \in ByName(S) : x \in P
  <1>1. IsFiniteSet(S) /\ Cardinality(S) <= Cardinality(Pids)
    BY FiniteSamples
  <1>2. Cardinality(S) <= MaxSize + 1 /\ Cardinality(S) \in Nat /\ MaxSize \in Nat
    BY <1>1, FS_CardinalityType, ListAssumption
  <1>. DEFINE programOf == [x \in S |-> {y \in S : y.name = x.name}]
  <1>a. \A x \in S : {y \in S : y.name = x.name} \in ByName(S)
    BY DEF ByName
  <1>b. \A P \in ByName(S) : \E x \in S : P = {y \in S : y.name = x.name}
    BY DEF ByName
  <1>3. programOf \in Surjection(S, ByName(S))
    BY <1>a, <1>b DEF Surjection
  <1>4. IsFiniteSet(ByName(S)) /\ Cardinality(ByName(S)) <= Cardinality(S)
    BY <1>1, <1>3, FS_Surjection
  <1>5. \A P \in ByName(S) : P # {} /\ P \subseteq S
    BY DEF ByName
  <1>6. \A P \in ByName(S) : IsFiniteSet(P) /\ Cardinality(P) <= Cardinality(S)
    BY <1>1, <1>5, FS_Subset
  <1>7. \A P, Q \in ByName(S) : \A x \in P, y \in Q : x.name = y.name <=> P = Q
    BY DEF ByName
  <1>8. \A x \in S : \E P \in ByName(S) : x \in P
    <2>. TAKE x \in S
    <2>1. x \in {y \in S : y.name = x.name}
      OBVIOUS
    <2>. QED BY <1>a, <2>1
  <1>9. Cardinality(ByName(S)) <= MaxSize + 1
    BY <1>2, <1>4, FS_CardinalityType
  <1>10. \A P \in ByName(S) : Cardinality(P) <= MaxSize + 1
    BY <1>2, <1>6, FS_CardinalityType
  <1>. QED BY <1>4, <1>5, <1>6, <1>7, <1>8, <1>9, <1>10

LEMMA TotalType ==
  ASSUME NEW P, IsFiniteSet(P)
  PROVE  Total(P) \in Nat
  <1>1. IsFiniteSet(1..MaxUse)
    BY FS_Interval, ListAssumption
  <1>2. IsFiniteSet(P \X (1..MaxUse))
    BY <1>1, FS_Product
  <1>3. IsFiniteSet({t \in P \X (1..MaxUse) : t[2] <= t[1].cpu})
    BY <1>2, FS_Subset
  <1>. QED BY <1>3, FS_CardinalityType DEF Total

\* A process adds what it used.
LEMMA TotalOfOneMore ==
  ASSUME NEW P, IsFiniteSet(P), NEW o, o \notin P
  PROVE  Total(P \cup {o}) \in Total(P)..(Total(P) + MaxUse)
  <1>. DEFINE X == {t \in P \X (1..MaxUse) : t[2] <= t[1].cpu}
              Y == {t \in {o} \X (1..MaxUse) : t[2] <= t[1].cpu}
              ofO == [n \in 1..MaxUse |-> <<o, n>>]
  <1>1. IsFiniteSet(1..MaxUse) /\ Cardinality(1..MaxUse) = MaxUse
    BY FS_Interval, ListAssumption
  <1>2. IsFiniteSet(X)
    <2>1. IsFiniteSet(P \X (1..MaxUse))
      BY <1>1, FS_Product
    <2>. QED BY <2>1, FS_Subset
  <1>3. IsFiniteSet({o} \X (1..MaxUse)) /\ Cardinality({o} \X (1..MaxUse)) <= MaxUse
    <2>1. ofO \in Surjection(1..MaxUse, {o} \X (1..MaxUse))
      <3>1. ofO \in [1..MaxUse -> {o} \X (1..MaxUse)]
        OBVIOUS
      <3>2. \A t \in {o} \X (1..MaxUse) : \E n \in 1..MaxUse : ofO[n] = t
        <4>. TAKE t \in {o} \X (1..MaxUse)
        <4>1. t = <<o, t[2]>> /\ t[2] \in 1..MaxUse
          OBVIOUS
        <4>. QED BY <4>1
      <3>. QED BY <3>1, <3>2 DEF Surjection
    <2>. QED BY <1>1, <2>1, FS_Surjection
  <1>4. IsFiniteSet(Y) /\ Cardinality(Y) <= MaxUse /\ Cardinality(Y) \in Nat
    <2>1. IsFiniteSet(Y) /\ Cardinality(Y) <= Cardinality({o} \X (1..MaxUse))
      BY <1>3, FS_Subset
    <2>2. Cardinality(Y) \in Nat /\ Cardinality({o} \X (1..MaxUse)) \in Nat
      BY <1>3, <2>1, FS_CardinalityType
    <2>. QED BY <1>3, <2>1, <2>2, ListAssumption
  <1>5. {t \in (P \cup {o}) \X (1..MaxUse) : t[2] <= t[1].cpu} = X \cup Y
    OBVIOUS
  <1>6. X \cap Y = {}
    OBVIOUS
  <1>. HIDE DEF X, Y
  <1>7. Cardinality(X \cup Y) = Cardinality(X) + Cardinality(Y) - Cardinality(X \cap Y)
    BY <1>2, <1>4, FS_Union
  <1>8. Cardinality(X \cap Y) = 0
    BY <1>6, FS_EmptySet
  <1>9. Cardinality(X) \in Nat
    BY <1>2, FS_CardinalityType
  <1>10. Cardinality(X \cup Y) = Cardinality(X) + Cardinality(Y)
    BY <1>4, <1>7, <1>8, <1>9
  <1>11. Total(P \cup {o}) = Cardinality(X \cup Y) /\ Total(P) = Cardinality(X)
    BY <1>5 DEF Total, X
  <1>. QED BY <1>4, <1>9, <1>10, <1>11, ListAssumption

-----------------------------------------------------------------------------
(* Two listings of the same processes, made by two commands.               *)

\* A sample of the command itself.
Itself == {x \in AnySample : x.name = Own}

\* A program of one listing as the other listing has it.
Swap(P, a, b) == IF a \in P THEN (P \ {a}) \cup {b} ELSE P

\* The samples A and B of two commands: the same R of the other processes, and
\* each command's own.
Twins(R, a, b, A, B) ==
  /\ R \subseteq AnySample /\ a \in Itself /\ b \in Itself /\ a \notin R /\ b \notin R
  /\ A = R \cup {a} /\ OnePerPid(A)
  /\ B = R \cup {b} /\ OnePerPid(B)

\* What bettercpu uses in a listing of R and a command.
OwnTotals(R) ==
  Total({x \in R : x.name = Own})..(Total({x \in R : x.name = Own}) + MaxUse)

LEMMA SwapProgram ==
  ASSUME NEW R, NEW a, NEW b, NEW A, NEW B, Twins(R, a, b, A, B), NEW P \in ByName(A)
  PROVE  /\ Swap(P, a, b) \in ByName(B)
         /\ Swap(Swap(P, a, b), b, a) = P
         /\ (\A x \in P : x.name # Own) => Swap(P, a, b) = P
         /\ \/ \A x \in P : x.name # Own
            \/ Total(P) \in OwnTotals(R) /\ Total(Swap(P, a, b)) \in OwnTotals(R)
  <1>. USE DEF Twins
  <1>1. PICK n \in {x.name : x \in A} : P = {x \in A : x.name = n}
    BY DEF ByName
  <1>2. a.name = Own /\ b.name = Own
    BY DEF Itself
  <1>3. A \subseteq AnySample
    BY DEF Itself
  <1>4. a \in P <=> n = Own
    BY <1>1, <1>2
  <1>5. CASE n = Own
    <2>. DEFINE O == {x \in R : x.name = Own}
    <2>1. P = O \cup {a} /\ a \notin O /\ b \notin O
      BY <1>1, <1>2, <1>5
    <2>2. Swap(P, a, b) = O \cup {b}
      BY <1>4, <1>5, <2>1 DEF Swap
    <2>3. O \cup {b} = {x \in B : x.name = Own}
      BY <1>2
    <2>4. Own \in {x.name : x \in B}
      BY <1>2
    <2>5. Swap(P, a, b) \in ByName(B)
      BY <2>2, <2>3, <2>4 DEF ByName
    <2>6. Swap(Swap(P, a, b), b, a) = P
      BY <2>1, <2>2 DEF Swap
    <2>7. IsFiniteSet(O)
      <3>1. IsFiniteSet(A)
        BY <1>3, FiniteSamples
      <3>. QED BY <3>1, FS_Subset
    <2>8. Total(P) \in OwnTotals(R) /\ Total(Swap(P, a, b)) \in OwnTotals(R)
      <3>1. Total(O \cup {a}) \in Total(O)..(Total(O) + MaxUse)
        BY <2>1, <2>7, TotalOfOneMore
      <3>2. Total(O \cup {b}) \in Total(O)..(Total(O) + MaxUse)
        BY <2>1, <2>7, TotalOfOneMore
      <3>. QED BY <2>1, <2>2, <3>1, <3>2 DEF OwnTotals
    <2>9. ~ \A x \in P : x.name # Own
      BY <1>2, <2>1
    <2>. QED BY <2>5, <2>6, <2>8, <2>9
  <1>6. CASE n # Own
    <2>1. Swap(P, a, b) = P
      BY <1>4, <1>6 DEF Swap
    <2>2. P = {x \in B : x.name = n}
      BY <1>1, <1>2, <1>6
    <2>3. n \in {x.name : x \in B}
      BY <1>1, <1>2, <1>6
    <2>4. P \in ByName(B)
      BY <2>2, <2>3 DEF ByName
    <2>5. b \notin P
      BY <1>2, <1>6, <2>2
    <2>6. Swap(P, b, a) = P
      BY <2>5 DEF Swap
    <2>. QED BY <1>1, <1>6, <2>1, <2>4, <2>6
  <1>. QED BY <1>5, <1>6

\* A program that swapping leaves above, below or as large as a number that
\* bettercpu cannot reach.
LEMMA SwapRank ==
  ASSUME NEW R, NEW a, NEW b, NEW A, NEW B, Twins(R, a, b, A, B), NEW P \in ByName(A),
         NEW v, v \notin OwnTotals(R), v \in Nat, Total({x \in R : x.name = Own}) \in Nat
  PROVE  /\ Total(P) > v <=> Total(Swap(P, a, b)) > v
         /\ Total(P) = v <=> Total(Swap(P, a, b)) = v
  <1>1. CASE \A x \in P : x.name # Own
    BY <1>1, SwapProgram
  <1>2. CASE Total(P) \in OwnTotals(R) /\ Total(Swap(P, a, b)) \in OwnTotals(R)
    BY <1>2, ListAssumption DEF OwnTotals
  <1>. QED BY <1>1, <1>2, SwapProgram

\* Both listings have a program at the same place, unless another program of the
\* first used as much CPU or bettercpu may pass it.
LEMMA SamePlace ==
  ASSUME NEW R, NEW a, NEW b, NEW SA, NEW SB, Twins(R, a, b, SA, SB),
         NEW s \in Listings(SA), NEW t \in Listings(SB),
         NEW k \in DOMAIN s,
         \A n \in DOMAIN s : Total(s[n]) = Total(s[k]) => s[n] = s[k],
         Total(s[k]) \notin OwnTotals(R)
  PROVE  k \in DOMAIN t /\ t[k] = s[k] /\ \A x \in s[k] : x.name # Own
  <1>. DEFINE A == ByName(SA)
              B == ByName(SB)
              keyA == [P \in A |-> Total(P)]
              keyB == [P \in B |-> Total(P)]
  <1>1. /\ IsFiniteSet(A) /\ \A P \in A : Total(P) \in Nat
        /\ IsFiniteSet(B) /\ \A P \in B : Total(P) \in Nat
        /\ Total({x \in R : x.name = Own}) \in Nat
    <2>1. SA \subseteq AnySample /\ SB \subseteq AnySample
      BY DEF Itself, Twins
    <2>2. OnePerPid(SA) /\ OnePerPid(SB)
      BY DEF Twins
    <2>3. /\ IsFiniteSet(A) /\ \A P \in A : IsFiniteSet(P)
          /\ IsFiniteSet(B) /\ \A P \in B : IsFiniteSet(P)
      BY <2>1, <2>2, ProgramsFinite
    <2>4. IsFiniteSet(SA)
      BY <2>1, <2>2, FiniteSamples
    <2>5. {x \in R : x.name = Own} \subseteq SA
      BY DEF Twins
    <2>6. IsFiniteSet({x \in R : x.name = Own})
      BY <2>4, <2>5, FS_Subset
    <2>. QED BY <2>3, <2>6, TotalType
  <1>2. s \in SetToSeqs(A) /\ \A i, j \in DOMAIN s : i < j => Total(s[i]) >= Total(s[j])
    BY DEF Listings, Sorted
  <1>3. t \in SetToSeqs(B) /\ \A i, j \in DOMAIN t : i < j => Total(t[i]) >= Total(t[j])
    BY DEF Listings, Sorted
  <1>4. /\ \A i \in DOMAIN s : s[i] \in A
        /\ \A x \in A : \E i \in DOMAIN s : s[i] = x
    BY <1>1, <1>2, Enumeration
  <1>5. /\ \A i \in DOMAIN t : t[i] \in B
        /\ \A x \in B : \E i \in DOMAIN t : t[i] = x
    BY <1>1, <1>3, Enumeration
  <1>. DEFINE P == s[k]
              v == Total(P)
              aboveA == {x \in A : keyA[x] > v}
              aboveB == {x \in B : keyB[x] > v}
  <1>6. P \in A /\ v \in Nat /\ v \notin OwnTotals(R)
    BY <1>1, <1>4
  <1>7. /\ P \in B /\ Swap(P, a, b) = P /\ \A x \in P : x.name # Own
    <2>1. /\ Swap(P, a, b) \in B
          /\ (\A x \in P : x.name # Own) => Swap(P, a, b) = P
          /\ (\A x \in P : x.name # Own) \/ v \in OwnTotals(R)
      BY <1>6, SwapProgram
    <2>. QED BY <1>6, <2>1
  <1>8. \A x \in A : /\ Swap(x, a, b) \in B
                     /\ Swap(Swap(x, a, b), b, a) = x
                     /\ Total(x) > v <=> Total(Swap(x, a, b)) > v
    <2>. TAKE x \in A
    <2>. HIDE DEF v
    <2>. QED BY <1>1, <1>6, SwapProgram, SwapRank
  <1>9. \A x \in B : /\ Swap(x, b, a) \in A
                     /\ Swap(Swap(x, b, a), a, b) = x
                     /\ Total(x) > v <=> Total(Swap(x, b, a)) > v
                     /\ Total(x) = v <=> Total(Swap(x, b, a)) = v
    <2>. TAKE x \in B
    <2>1. Twins(R, b, a, SB, SA)
      BY DEF Twins
    <2>. HIDE DEF v
    <2>. QED BY <1>1, <1>6, <2>1, SwapProgram, SwapRank
  <1>10. k = 1 + Cardinality(aboveA)
    <2>1. keyA \in [A -> Nat]
      BY <1>1
    <2>2. \A i, j \in DOMAIN s : i < j => keyA[s[i]] >= keyA[s[j]]
      BY <1>2, <1>4
    <2>3. \A x \in A : keyA[x] = keyA[P] => x = P
      BY <1>4, <1>6
    <2>4. keyA[P] = v
      BY <1>6
    <2>. HIDE DEF A, keyA, v
    <2>. QED BY <1>1, <1>2, <2>1, <2>2, <2>3, <2>4, Rank
  <1>11. PICK j \in DOMAIN t : t[j] = P
    BY <1>5, <1>7
  <1>12. j = 1 + Cardinality(aboveB)
    <2>1. keyB \in [B -> Nat]
      BY <1>1
    <2>2. \A i, m \in DOMAIN t : i < m => keyB[t[i]] >= keyB[t[m]]
      BY <1>3, <1>5
    <2>3. \A x \in B : keyB[x] = v => x = P
      <3>. TAKE x \in B
      <3>. HAVE keyB[x] = v
      <3>1. Total(Swap(x, b, a)) = v /\ Swap(x, b, a) \in A
        BY <1>9
      <3>2. Swap(x, b, a) = P
        BY <1>4, <3>1
      <3>. QED BY <1>7, <1>9, <3>2
    <2>4. keyB[t[j]] = v /\ \A x \in B : keyB[x] = keyB[t[j]] => x = t[j]
      BY <1>7, <1>11, <2>3
    <2>. HIDE DEF B, keyB, v
    <2>5. j = 1 + Cardinality({x \in B : keyB[x] > keyB[t[j]]})
      BY <1>1, <1>3, <2>1, <2>2, <2>4, Rank
    <2>. QED BY <2>4, <2>5
  <1>13. Cardinality(aboveA) = Cardinality(aboveB)
    <2>. DEFINE f == [x \in aboveA |-> Swap(x, a, b)]
    <2>1. \A x \in aboveA : Swap(x, a, b) \in aboveB
      BY <1>8
    <2>2. \A x \in aboveB : Swap(x, b, a) \in aboveA
      BY <1>9
    <2>3. f \in Injection(aboveA, aboveB)
      BY <1>8, <2>1 DEF Injection, IsInjective
    <2>4. \A x \in aboveB : \E y \in aboveA : Swap(y, a, b) = x
      BY <1>9, <2>2
    <2>5. f \in Surjection(aboveA, aboveB)
      BY <2>1, <2>4 DEF Surjection
    <2>6. IsFiniteSet(aboveA)
      BY <1>1, FS_Subset
    <2>. HIDE DEF f, aboveA, aboveB
    <2>. QED BY <2>3, <2>5, <2>6, FS_Surjection
  <1>14. j = k
    BY <1>10, <1>12, <1>13
  <1>. QED BY <1>7, <1>11, <1>14

\* The processes of a program that all used different amounts have one order.
LEMMA OneOrder ==
  ASSUME NEW P, IsFiniteSet(P), P \subseteq AnySample,
         \A x, y \in P : x.cpu = y.cpu => x = y,
         NEW s \in Sorted(P, Cpu), NEW t \in Sorted(P, Cpu),
         NEW k \in DOMAIN s
  PROVE  k \in DOMAIN t /\ t[k] = s[k]
  <1>. DEFINE key == [x \in P |-> x.cpu]
  <1>1. s \in SetToSeqs(P) /\ \A i, j \in DOMAIN s : i < j => s[i].cpu >= s[j].cpu
    BY DEF Sorted, Cpu
  <1>2. t \in SetToSeqs(P) /\ \A i, j \in DOMAIN t : i < j => t[i].cpu >= t[j].cpu
    BY DEF Sorted, Cpu
  <1>3. \A i \in DOMAIN s : s[i] \in P
    BY <1>1, Enumeration
  <1>4. /\ \A i \in DOMAIN t : t[i] \in P
        /\ \A x \in P : \E i \in DOMAIN t : t[i] = x
    BY <1>2, Enumeration
  <1>5. key \in [P -> Nat] /\ \A x \in P : key[x] = x.cpu
    BY ListAssumption DEF AnySample
  <1>6. PICK j \in DOMAIN t : t[j] = s[k]
    BY <1>3, <1>4
  <1>7. \A x \in P : key[x] = key[s[k]] => x = s[k]
    BY <1>3
  <1>8. /\ \A i, m \in DOMAIN s : i < m => key[s[i]] >= key[s[m]]
        /\ \A i, m \in DOMAIN t : i < m => key[t[i]] >= key[t[m]]
    BY <1>1, <1>2, <1>3, <1>4
  <1>. HIDE DEF key
  <1>9. k = 1 + Cardinality({x \in P : key[x] > key[s[k]]})
    BY <1>1, <1>5, <1>7, <1>8, Rank
  <1>10. j = 1 + Cardinality({x \in P : key[x] > key[t[j]]})
    BY <1>2, <1>5, <1>6, <1>7, <1>8, Rank
  <1>. QED BY <1>6, <1>9, <1>10

-----------------------------------------------------------------------------
(* The inductive invariant.                                                *)

TypeInv ==
  /\ proc \in [Pids -> [born : 0..births, name : Names, use : 0..MaxUse]]
  /\ births \in Nat \ {0}
  /\ own \in Pids \cup {NoPid}
  /\ phase \in {"idle", "list_pids", "read", "print", "look_up", "kill", "done"}
  /\ own = NoPid <=> phase \in {"idle", "done"}
  /\ killing \in BOOLEAN /\ calm \in BOOLEAN /\ sure \in BOOLEAN /\ success \in BOOLEAN
  /\ first \in [Pids -> 0..births]
  /\ todo \subseteq Pids
  /\ samples \subseteq Sample
  /\ programs \in Seq((SUBSET Sample) \ {{}})
  /\ \A id \in DOMAIN listed : id \in Nat /\ listed[id] \subseteq Sample
  /\ typed \in Ids
  /\ aim \subseteq Sample
  /\ queue \in Seq(Sample)
  /\ hit \subseteq Pids \X (1..births)
  /\ events \in 0..MaxEvents

\* What a command is and has done in each phase; it never dies by an event.
CommandInv ==
  /\ own \in Pids => Alive(own) /\ proc[own].name = Own
  /\ killing => phase \notin {"idle", "print"}
  /\ ~ killing => /\ phase \notin {"look_up", "kill", "done"}
                  /\ aim = {} /\ ~ sure
  /\ phase \notin {"kill", "done"} => hit = {} /\ queue = <<>>

\* There is one sample of each process read again, and none of those to be read.
SampleInv ==
  /\ phase # "read" => samples = {}
  /\ OnePerPid(samples)
  /\ \A x \in samples : x.pid \notin todo /\ (x.pid = own => x.name = Own)
  /\ phase = "read" =>
       \A p \in Pids : Alive(p) /\ proc[p].born = first[p] /\ p \notin todo =>
         \E x \in samples : Identity(x) = <<p, proc[p].born>>

\* The programs part the samples by their names.
ProgramsInv ==
  /\ Len(programs) <= MaxSize + 1
  /\ \A i, j \in DOMAIN programs : \A x \in programs[i], y \in programs[j] :
       /\ x.name = y.name <=> i = j
       /\ x.pid = y.pid => x = y
  /\ \A i \in DOMAIN programs : \A x \in programs[i] : x.pid = own => x.name = Own
  /\ phase \in {"print", "look_up"} =>
       \A p \in Pids : Alive(p) /\ proc[p].born = first[p] =>
         \E i \in DOMAIN programs : \E x \in programs[i] : Identity(x) = <<p, proc[p].born>>
  /\ phase = "idle" =>
       \A id \in DOMAIN listed : id + 1 \in DOMAIN programs /\ listed[id] = programs[id + 1]

Queued(x) == \E i \in DOMAIN queue : queue[i] = x

\* No process of the target is forgotten.
KillInv ==
  phase = "kill" =>
    /\ Len(typed) = 1 => \A i \in DOMAIN queue : queue[i] \in Targets
    /\ \A x \in Targets :
         \/ Queued(x)
         \/ /\ proc[x.pid].born = x.born => Identity(x) \in hit
            /\ success => \E y \in hit : y[1] = x.pid

-----------------------------------------------------------------------------
(* A calm machine.                                                         *)

Running == {[pid |-> p, born |-> proc[p].born, name |-> proc[p].name, cpu |-> proc[p].use] :
              p \in {q \in Pids : Alive(q)}}

\* What the commands read while nothing else happens.
CalmInv ==
  calm =>
    /\ phase = "read" => /\ \A p \in Pids : first[p] = proc[p].born
                         /\ samples = {x \in Running : x.pid \notin todo}
    /\ phase \in {"print", "look_up"} => programs \in Listings(Running)
    /\ phase = "idle" /\ programs # <<>> =>
         \E o \in Sample : /\ o \in Itself
                           /\ ~ Alive(o.pid)
                           /\ programs \in Listings(Running \cup {o})

\* No tie and no command can put elsewhere what `p -k` aims at.
Settled == calm /\ sure

\* Whatever order the second listing has, the id names in it what it named before.
Foreseen ==
  /\ typed # <<>>
  /\ \A Q \in Listings(Running) :
       /\ typed[1] + 1 \in DOMAIN Q
       /\ Len(typed) = 1 => aim = Q[typed[1] + 1]
       /\ Len(typed) = 2 =>
            /\ \A order \in Orders(Q[typed[1] + 1]) :
                 aim = {order[m] : m \in {typed[2] + 1} \cap DOMAIN order}
            /\ typed[2] >= Cardinality(Q[typed[1] + 1]) => aim = {}

\* What is still to be signalled has not ended meanwhile.
AimInv ==
  Settled =>
    /\ \A x \in aim : x.name # Own
    /\ phase \in {"list_pids", "read", "look_up"} => Foreseen
    /\ phase = "kill" =>
         /\ \A i \in DOMAIN queue : /\ queue[i] \in aim
                                    /\ queue[i].pid # own
                                    /\ proc[queue[i].pid].born = queue[i].born
                                    /\ Identity(queue[i]) \notin hit
         /\ \A i, j \in DOMAIN queue : queue[i].pid = queue[j].pid => i = j
         /\ \A x \in aim : Queued(x) \/ Identity(x) \in hit

IInv == TypeInv /\ CommandInv /\ SampleInv /\ ProgramsInv /\ KillInv /\ WholeProgram /\ ReportTrue

CalmIInv == CalmInv /\ AimInv /\ KillsWhatWasListed

-----------------------------------------------------------------------------
(* Types.                                                                  *)

LEMMA TypeInit == Init => TypeInv
  <1>. SUFFICES ASSUME Init PROVE TypeInv
    OBVIOUS
  <1>. USE ListAssumption DEF Init
  <1>1. proc \in [Pids -> [born : 0..births, name : Names, use : 0..MaxUse]]
    <2>1. proc \in [Pids -> [born : Nat \cap {0, 1}, name : Names, use : 0..MaxUse]]
      OBVIOUS
    <2>2. Nat \cap {0, 1} \subseteq 0..births
      OBVIOUS
    <2>. QED BY <2>1, <2>2
  <1>2. first \in [Pids -> 0..births]
    OBVIOUS
  <1>3. programs \in Seq((SUBSET Sample) \ {{}}) /\ queue \in Seq(Sample)
    OBVIOUS
  <1>4. typed \in Ids
    BY DEF Ids
  <1>5. \A id \in DOMAIN listed : id \in Nat /\ listed[id] \subseteq Sample
    OBVIOUS
  <1>6. own = NoPid /\ phase = "idle" /\ births = 1 /\ events \in 0..MaxEvents
    OBVIOUS
  <1>7. killing \in BOOLEAN /\ calm \in BOOLEAN /\ sure \in BOOLEAN /\ success \in BOOLEAN
    OBVIOUS
  <1>8. todo = {} /\ samples = {} /\ aim = {} /\ hit = {}
    OBVIOUS
  <1>. QED BY ONLY <1>1, <1>2, <1>3, <1>4, <1>5, <1>6, <1>7, <1>8 DEF TypeInv

LEMMA SampleIsAny ==
  ASSUME TypeInv
  PROVE  Sample \subseteq AnySample
  <1>1. births \in Nat
    BY DEF TypeInv
  <1>. QED BY <1>1 DEF Sample, AnySample

\* Whatever was a sample is one when more processes have been born.
LEMMA SampleGrows ==
  ASSUME TypeInv, births' \in Nat, births' >= births
  PROVE  /\ Sample \subseteq Sample'
         /\ [Pids -> 0..births] \subseteq [Pids -> 0..births']
         /\ Pids \X (1..births) \subseteq Pids \X (1..births')
         /\ Seq(Sample) \subseteq Seq(Sample')
         /\ Seq((SUBSET Sample) \ {{}}) \subseteq Seq((SUBSET Sample') \ {{}})
  <1>1. 1..births \subseteq 1..births' /\ 0..births \subseteq 0..births'
    BY DEF TypeInv
  <1>2. Sample \subseteq Sample'
    BY <1>1 DEF Sample
  <1>4. (SUBSET Sample) \ {{}} \subseteq (SUBSET Sample') \ {{}}
    BY <1>2
  <1>5. \A S, T : S \subseteq T => Seq(S) \subseteq Seq(T)
    OBVIOUS
  <1>6. Seq(Sample) \subseteq Seq(Sample')
    BY <1>2, <1>5
  <1>7. Seq((SUBSET Sample) \ {{}}) \subseteq Seq((SUBSET Sample') \ {{}})
    BY <1>4, <1>5, Zenon
  <1>. QED BY <1>1, <1>2, <1>6, <1>7

\* What a program in a listing is.
LEMMA ProgramFinite ==
  ASSUME TypeInv, ProgramsInv, NEW i \in DOMAIN programs
  PROVE  /\ programs[i] \subseteq Sample /\ programs[i] \subseteq AnySample
         /\ programs[i] # {} /\ OnePerPid(programs[i]) /\ IsFiniteSet(programs[i])
  <1>0. programs[i] \in (SUBSET Sample) \ {{}}
    <2>. DEFINE T == (SUBSET Sample) \ {{}}
    <2>1. programs \in Seq(T)
      BY DEF TypeInv
    <2>. HIDE DEF T
    <2>2. \A m \in DOMAIN programs : programs[m] \in T
      BY <2>1
    <2>3. programs[i] \in T
      BY <2>2
    <2>. QED BY <2>3 DEF T
  <1>1. programs[i] \subseteq Sample /\ programs[i] # {}
    BY <1>0
  <1>2. programs[i] \subseteq AnySample
    BY <1>1, SampleIsAny
  <1>3. OnePerPid(programs[i])
    BY DEF ProgramsInv, OnePerPid
  <1>. QED BY <1>1, <1>2, <1>3, FiniteSamples

\* A program in the order in which its processes are shown and signalled.
LEMMA OrderOf ==
  ASSUME TypeInv, ProgramsInv, NEW i \in DOMAIN programs,
         NEW order \in Sorted(programs[i], Cpu)
  PROVE  /\ Cardinality(programs[i]) \in Nat
         /\ Len(order) = Cardinality(programs[i])
         /\ DOMAIN order = 1..Cardinality(programs[i])
         /\ order \in Seq(Sample)
         /\ \A m \in DOMAIN order : order[m] \in programs[i]
         /\ \A m, n \in DOMAIN order : order[m].pid = order[n].pid => m = n
         /\ \A x \in programs[i] : \E m \in DOMAIN order : order[m] = x
  <1>1. order \in SetToSeqs(programs[i])
    BY DEF Sorted
  <1>2. IsFiniteSet(programs[i]) /\ programs[i] \subseteq Sample /\ OnePerPid(programs[i])
    BY ProgramFinite
  <1>3. order \in Seq(programs[i])
    BY <1>1, <1>2, Enumeration
  <1>4. \A m \in DOMAIN order : order[m] \in programs[i]
    BY <1>1, <1>2, Enumeration
  <1>5. \A m, n \in DOMAIN order : order[m] = order[n] => m = n
    BY <1>1, <1>2, Enumeration
  <1>6. \A m, n \in DOMAIN order : order[m].pid = order[n].pid => m = n
    BY <1>2, <1>4, <1>5 DEF OnePerPid
  <1>7. order \in Seq(Sample)
    BY <1>2, <1>3
  <1>. QED BY <1>1, <1>2, <1>4, <1>6, <1>7, Enumeration

\* The steps of Next, for every proof by cases.
LEMMA Steps ==
  ASSUME [Next]_vars
  PROVE  \/ \E p \in Pids, range \in Ranges : RunList(p, range)
         \/ \E p \in Pids, id \in Ids : RunKill(p, id)
         \/ ListPids
         \/ \E p \in Pids : ReadAgain(p)
         \/ Sort \/ PrintProcessListing \/ Reject \/ LookUp
         \/ KillProcess \/ KillItself \/ Report
         \/ \E p \in Pids : End(p)
         \/ \E p \in Pids : EndOfSignalled(p)
         \/ \E p \in Pids, n \in Names, u \in 0..MaxUse : Spawn(p, n, u)
         \/ \E p \in Pids, u \in 0..MaxUse : UseChanges(p, u)
         \/ UNCHANGED vars
  BY DEF Next

LEMMA ForkType ==
  ASSUME TypeInv, NEW p \in Pids, Fork(p)
  PROVE  /\ proc' \in [Pids -> [born : 0..births', name : Names, use : 0..MaxUse]]
         /\ births' = births + 1 /\ births \in Nat \ {0}
         /\ own' = p /\ own' # NoPid /\ phase' = "list_pids"
  <1>1. births \in Nat \ {0} /\ births' = births + 1
    BY DEF TypeInv, Fork
  <1>2. 0..births \subseteq 0..births' /\ births' \in 0..births'
    BY <1>1
  <1>3. \A u \in 0..MaxUse : [born |-> births', name |-> Own, use |-> u]
                               \in [born : 0..births', name : Names, use : 0..MaxUse]
    BY <1>2, ListAssumption
  <1>4. proc \in [Pids -> [born : 0..births', name : Names, use : 0..MaxUse]]
    BY <1>2 DEF TypeInv
  <1>5. proc' \in [Pids -> [born : 0..births', name : Names, use : 0..MaxUse]]
    BY <1>1, <1>3, <1>4 DEF Fork
  <1>. QED BY <1>1, <1>5, ListAssumption DEF Fork

\* What stays a sample, a reading or a process when another is born.
ForkKeeps ==
  /\ Sample \subseteq Sample'
  /\ [Pids -> 0..births] \subseteq [Pids -> 0..births']
  /\ Pids \X (1..births) \subseteq Pids \X (1..births')
  /\ Seq(Sample) \subseteq Seq(Sample')
  /\ Seq((SUBSET Sample) \ {{}}) \subseteq Seq((SUBSET Sample') \ {{}})

LEMMA ForkFacts ==
  ASSUME TypeInv, births' = births + 1
  PROVE  ForkKeeps /\ births' \in Nat \ {0}
  <1>1. births \in Nat \ {0}
    BY DEF TypeInv
  <1>2. births' \in Nat \ {0} /\ births' >= births
    BY <1>1
  <1>. QED BY <1>2, SampleGrows DEF ForkKeeps

LEMMA ExitType ==
  ASSUME TypeInv, own \in Pids, Exit
  PROVE  /\ proc' \in [Pids -> [born : 0..births, name : Names, use : 0..MaxUse]]
         /\ own' = NoPid
  <1>1. Free \in [born : 0..births, name : Names, use : 0..MaxUse]
    BY ListAssumption DEF Free, TypeInv
  <1>. QED BY <1>1 DEF Exit, TypeInv

LEMMA RunListType ==
  ASSUME IInv, NEW p \in Pids, NEW range \in Ranges, RunList(p, range)
  PROVE  TypeInv'
  <1>. USE DEF IInv
  <1>1. Fork(p)
    BY DEF RunList
  <1>2. UNCHANGED <<first, todo, samples, programs, killing, listed, typed, aim, sure, queue, hit, success, events>>
    BY DEF RunList, signals
  <1>3. calm' = TRUE
    BY DEF RunList
  <1>4. ForkKeeps /\ births' \in Nat \ {0} /\ own' \in Pids /\ phase' = "list_pids"
    BY <1>1, <1>2, ForkType, ForkFacts, ListAssumption
  <1>5. listed' = listed /\ aim' = aim /\ programs' = programs
    BY <1>2
  <1>6. \A id \in DOMAIN listed : id \in Nat /\ listed[id] \subseteq Sample'
    BY <1>4 DEF TypeInv, ForkKeeps
  <1>7. /\ killing' \in BOOLEAN /\ calm' \in BOOLEAN /\ sure' \in BOOLEAN /\ success' \in BOOLEAN
        /\ todo' \subseteq Pids /\ typed' \in Ids /\ events' \in 0..MaxEvents
    BY <1>2, <1>3 DEF TypeInv
  <1>8. proc' \in [Pids -> [born : 0..births', name : Names, use : 0..MaxUse]]
    BY <1>1, ForkType
  <1>9. /\ first' \in [Pids -> 0..births'] /\ samples' \subseteq Sample'
        /\ queue' \in Seq(Sample') /\ hit' \subseteq Pids \X (1..births')
        /\ aim' \subseteq Sample'
        /\ programs' \in Seq((SUBSET Sample') \ {{}})
    BY <1>2, <1>4 DEF TypeInv, ForkKeeps
  <1>10. own' # NoPid
    BY <1>4, ListAssumption
  <1>. QED BY <1>4, <1>5, <1>6, <1>7, <1>8, <1>9, <1>10 DEF TypeInv

LEMMA RunKillType ==
  ASSUME IInv, NEW p \in Pids, NEW id \in Ids, RunKill(p, id)
  PROVE  TypeInv'
  <1>. USE DEF IInv
  <1>1. Fork(p)
    BY DEF RunKill
  <1>2. UNCHANGED <<first, todo, samples, calm, queue, hit, success, events>>
    BY DEF RunKill, signals
  <1>3. killing' = TRUE /\ typed' = id /\ programs' = <<>> /\ listed' = <<>>
    BY DEF RunKill
  <1>4. aim' \subseteq Sample /\ sure' \in BOOLEAN
    <2>1. CASE id # <<>> /\ id[1] \in DOMAIN listed
      <3>. DEFINE G == listed[id[1]]
      <3>1. G \subseteq Sample
        BY <2>1 DEF TypeInv
      <3>2. PICK shown \in SetToSeqs(G) :
              /\ aim' = IF Len(id) = 1 THEN G
                        ELSE {shown[m] : m \in {id[2] + 1} \cap DOMAIN shown}
              /\ sure' \in BOOLEAN
        BY <2>1 DEF RunKill, Sorted
      <3>3. \A m \in DOMAIN shown : shown[m] \in G
        BY DEF SetToSeqs
      <3>. HIDE DEF G
      <3>. QED BY <3>1, <3>2, <3>3
    <2>2. CASE ~ (id # <<>> /\ id[1] \in DOMAIN listed)
      BY <2>2 DEF RunKill
    <2>. QED BY <2>1, <2>2
  <1>5. programs' \in Seq((SUBSET Sample') \ {{}})
    BY <1>3
  <1>6. ForkKeeps /\ births' \in Nat \ {0} /\ own' \in Pids /\ phase' = "list_pids"
    BY <1>1, ForkType, ForkFacts, ListAssumption
  <1>7. /\ killing' \in BOOLEAN /\ calm' \in BOOLEAN /\ sure' \in BOOLEAN /\ success' \in BOOLEAN
        /\ todo' \subseteq Pids /\ typed' \in Ids /\ events' \in 0..MaxEvents
        /\ DOMAIN listed' = {}
    BY <1>2, <1>3, <1>4 DEF TypeInv
  <1>8. proc' \in [Pids -> [born : 0..births', name : Names, use : 0..MaxUse]]
    BY <1>1, ForkType
  <1>9. /\ first' \in [Pids -> 0..births'] /\ samples' \subseteq Sample'
        /\ queue' \in Seq(Sample') /\ hit' \subseteq Pids \X (1..births')
        /\ aim' \subseteq Sample'
    BY <1>2, <1>4, <1>6 DEF TypeInv, ForkKeeps
  <1>10. own' # NoPid
    BY <1>6, ListAssumption
  <1>. QED BY <1>5, <1>6, <1>7, <1>8, <1>9, <1>10 DEF TypeInv

LEMMA ListPidsType ==
  ASSUME IInv, ListPids
  PROVE  TypeInv'
  <1>. USE DEF IInv
  <1>1. \A p \in Pids : proc[p].born \in 0..births
    BY DEF TypeInv
  <1>2. first' \in [Pids -> 0..births]
    BY <1>1 DEF ListPids, ReadProcessTimes
  <1>3. todo' \subseteq Pids /\ samples' = {} /\ phase' = "read" /\ phase = "list_pids"
    BY DEF ListPids
  <1>. QED BY <1>2, <1>3 DEF TypeInv, ListPids, world, listing, signals, Sample

LEMMA ReadAgainType ==
  ASSUME IInv, NEW p \in Pids, ReadAgain(p)
  PROVE  TypeInv'
  <1>. USE DEF IInv
  <1>1. /\ proc[p].born \in 0..births /\ proc[p].name \in Names /\ proc[p].use \in 0..MaxUse
        /\ births \in Nat
    BY DEF TypeInv
  <1>2. Deltas(p) \subseteq 0..MaxUse
    BY <1>1, ListAssumption DEF Deltas
  <1>3. samples' \subseteq Sample
    <2>1. CASE UNCHANGED samples
      BY <2>1 DEF TypeInv
    <2>2. CASE Alive(p) /\ \E delta \in Deltas(p) :
                 samples' = samples \cup {[pid |-> p, born |-> proc[p].born,
                                           name |-> proc[p].name, cpu |-> delta]}
      <3>1. proc[p].born \in 1..births
        BY <1>1, <2>2 DEF Alive
      <3>2. \A delta \in Deltas(p) : [pid |-> p, born |-> proc[p].born,
                                      name |-> proc[p].name, cpu |-> delta] \in Sample
        BY <1>1, <1>2, <3>1 DEF Sample
      <3>. QED BY <2>2, <3>2 DEF TypeInv
    <2>. QED BY <2>1, <2>2 DEF ReadAgain
  <1>. QED BY <1>3 DEF TypeInv, ReadAgain, world, listing, signals, Sample

LEMMA SortFacts ==
  ASSUME IInv, Sort
  PROVE  /\ samples \subseteq AnySample /\ OnePerPid(samples)
         /\ programs' \in SetToSeqs(ByName(samples))
         /\ programs' \in Sorted(ByName(samples), Total)
         /\ programs' \in Seq((SUBSET Sample) \ {{}})
         /\ Len(programs') <= MaxSize + 1
         /\ \A i \in DOMAIN programs' : programs'[i] \in ByName(samples)
         /\ \A i, j \in DOMAIN programs' : programs'[i] = programs'[j] => i = j
         /\ \A P \in ByName(samples) : \E i \in DOMAIN programs' : programs'[i] = P
  <1>. USE DEF IInv
  <1>1. samples \subseteq Sample
    BY DEF TypeInv
  <1>2. samples \subseteq AnySample /\ OnePerPid(samples)
    BY <1>1, SampleIsAny DEF SampleInv
  <1>3. programs' \in Sorted(ByName(samples), Total)
    BY DEF Sort, Sorted, ByName
  <1>4. programs' \in SetToSeqs(ByName(samples))
    BY <1>3 DEF Sorted
  <1>5. /\ IsFiniteSet(ByName(samples)) /\ Cardinality(ByName(samples)) <= MaxSize + 1
        /\ \A P \in ByName(samples) : P # {} /\ P \subseteq samples
    BY <1>2, ProgramsFinite
  <1>6. /\ programs' \in Seq(ByName(samples))
        /\ Len(programs') = Cardinality(ByName(samples))
        /\ \A i \in DOMAIN programs' : programs'[i] \in ByName(samples)
        /\ \A i, j \in DOMAIN programs' : programs'[i] = programs'[j] => i = j
        /\ \A P \in ByName(samples) : \E i \in DOMAIN programs' : programs'[i] = P
    BY <1>4, <1>5, Enumeration
  <1>7. ByName(samples) \subseteq (SUBSET Sample) \ {{}}
    BY <1>1, <1>5
  <1>8. programs' \in Seq((SUBSET Sample) \ {{}})
    <2>. DEFINE S == ByName(samples)
                T == (SUBSET Sample) \ {{}}
    <2>1. S \subseteq T /\ programs' \in Seq(S)
      BY <1>6, <1>7
    <2>. HIDE DEF S, T
    <2>2. programs' \in Seq(T)
      BY <2>1
    <2>. QED BY <2>2 DEF T
  <1>. QED BY <1>2, <1>3, <1>4, <1>5, <1>6, <1>8

LEMMA SortType ==
  ASSUME IInv, Sort
  PROVE  TypeInv'
  <1>1. programs' \in Seq((SUBSET Sample) \ {{}})
    BY SortFacts
  <1>2. samples' = {} /\ phase = "read" /\ phase' \in {"look_up", "print"}
    BY DEF Sort
  <1>. QED BY <1>1, <1>2 DEF IInv, TypeInv, Sort, world, listing, signals, Sample

LEMMA OwnIsAPid == TypeInv /\ phase \notin {"idle", "done"} => own \in Pids
  BY DEF TypeInv

LEMMA PrintType ==
  ASSUME IInv, PrintProcessListing
  PROVE  TypeInv'
  <1>. USE DEF IInv
  <1>1. phase = "print" /\ phase' = "idle" /\ Exit
    BY DEF PrintProcessListing
  <1>2. /\ proc' \in [Pids -> [born : 0..births, name : Names, use : 0..MaxUse]]
        /\ own' = NoPid
    BY <1>1, OwnIsAPid, ExitType
  <1>3. \A id \in DOMAIN listed' : id \in Nat /\ listed'[id] \subseteq Sample
    <2>. TAKE id \in DOMAIN listed'
    <2>1. listed' = [n \in {n \in 0..Len(programs) - 1 :
                              window.start <= n /\ n <= window.end} |-> programs[n + 1]]
      BY DEF PrintProcessListing, Shown
    <2>2. Len(programs) \in Nat /\ DOMAIN programs = 1..Len(programs)
      BY DEF TypeInv
    <2>3. id \in 0..Len(programs) - 1 /\ listed'[id] = programs[id + 1]
      BY <2>1
    <2>4. id \in Nat /\ id + 1 \in DOMAIN programs
      BY <2>2, <2>3
    <2>. QED BY <2>3, <2>4, ProgramFinite
  <1>4. births \in Nat
    BY DEF TypeInv
  <1>5. first' \in [Pids -> 0..births]
    BY <1>4 DEF PrintProcessListing
  <1>6. UNCHANGED <<births, calm, events, killing, todo, samples, programs, typed, aim,
                    sure, queue, hit, success>>
    BY DEF PrintProcessListing, signals
  <1>. QED BY <1>1, <1>2, <1>3, <1>5, <1>6 DEF TypeInv, Sample

\* The steps with which p -k ends.
LEMMA EndingType ==
  ASSUME TypeInv, phase \notin {"idle", "done"}, Exit, phase' = "done",
         success' \in BOOLEAN, queue' \in Seq(Sample), hit' \subseteq Pids \X (1..births),
         UNCHANGED <<births, calm, events, first, todo, samples, programs, listing>>
  PROVE  TypeInv'
  <1>1. /\ proc' \in [Pids -> [born : 0..births, name : Names, use : 0..MaxUse]]
        /\ own' = NoPid
    BY OwnIsAPid, ExitType
  <1>. QED BY <1>1 DEF TypeInv, listing, Sample

LEMMA RejectType ==
  ASSUME IInv, Reject
  PROVE  TypeInv'
  <1>1. success' \in BOOLEAN /\ queue' \in Seq(Sample) /\ hit' \subseteq Pids \X (1..births)
    BY DEF IInv, TypeInv, Reject
  <1>. QED BY <1>1, EndingType DEF IInv, Reject

LEMMA ReportType ==
  ASSUME IInv, Report
  PROVE  TypeInv'
  <1>1. success' \in BOOLEAN /\ queue' \in Seq(Sample) /\ hit' \subseteq Pids \X (1..births)
    BY DEF IInv, TypeInv, Report, signals
  <1>. QED BY <1>1, EndingType DEF IInv, Report, signals

LEMMA KillItselfType ==
  ASSUME IInv, KillItself
  PROVE  TypeInv'
  <1>1. own \in Pids /\ proc[own].born \in 0..births /\ proc[own].born # 0 /\ births \in Nat
    BY OwnIsAPid DEF IInv, TypeInv, CommandInv, KillItself, Alive
  <1>2. <<own, proc[own].born>> \in Pids \X (1..births)
    BY <1>1
  <1>3. success' = FALSE /\ queue' = <<>> /\ hit' = hit \cup {<<own, proc[own].born>>}
    BY DEF KillItself
  <1>4. hit' \subseteq Pids \X (1..births)
    BY <1>2, <1>3 DEF IInv, TypeInv
  <1>5. queue' \in Seq(Sample)
    BY <1>3
  <1>. QED BY <1>3, <1>4, <1>5, EndingType DEF IInv, KillItself

\* Where an id names something, the place it names exists.
LEMMA FoundPlace ==
  ASSUME IInv, Found
  PROVE  /\ typed # <<>> /\ Len(typed) \in {1, 2}
         /\ typed[1] \in Nat /\ typed[1] + 1 \in DOMAIN programs
         /\ Len(typed) = 2 =>
              /\ typed[2] \in Nat
              /\ \A order \in Sorted(programs[typed[1] + 1], Cpu) : typed[2] + 1 \in DOMAIN order
  <1>. USE DEF IInv
  <1>1. (\E n \in Numbers : typed = <<n>>) \/ (\E n, m \in Numbers : typed = <<n, m>>)
    BY DEF Found, TypeInv, Ids
  <1>2. Len(typed) \in {1, 2} /\ typed[1] \in Nat /\ (Len(typed) = 2 => typed[2] \in Nat)
    BY <1>1, ListAssumption
  <1>3. Len(programs) \in Nat /\ DOMAIN programs = 1..Len(programs)
    BY DEF TypeInv
  <1>4. typed[1] + 1 \in DOMAIN programs
    BY <1>2, <1>3 DEF Found
  <1>5. ASSUME Len(typed) = 2, NEW order \in Sorted(programs[typed[1] + 1], Cpu)
        PROVE  typed[2] + 1 \in DOMAIN order
    <2>1. /\ Cardinality(programs[typed[1] + 1]) \in Nat
          /\ DOMAIN order = 1..Cardinality(programs[typed[1] + 1])
      BY <1>4, OrderOf
    <2>2. typed[2] < Cardinality(programs[typed[1] + 1])
      BY <1>5 DEF Found
    <2>. QED BY <1>2, <1>5, <2>1, <2>2
  <1>6. typed # <<>>
    BY DEF Found
  <1>. QED BY <1>2, <1>4, <1>5, <1>6

LEMMA LookUpFacts ==
  ASSUME IInv, LookUp
  PROVE  \E order \in Sorted(programs[typed[1] + 1], Cpu) :
           /\ Len(typed) = 1 => queue' = order
           /\ Len(typed) = 2 => /\ typed[2] + 1 \in DOMAIN order
                                /\ queue' = <<order[typed[2] + 1]>>
  <1>1. PICK order \in SetToSeqs(programs[typed[1] + 1]) :
          /\ \A i, j \in DOMAIN order : i < j => Cpu(order[i]) >= Cpu(order[j])
          /\ queue' = IF Len(typed) = 1 THEN order ELSE <<order[typed[2] + 1]>>
    BY DEF LookUp, Sorted
  <1>2. order \in Sorted(programs[typed[1] + 1], Cpu)
    BY <1>1 DEF Sorted
  <1>3. Len(typed) = 2 => typed[2] + 1 \in DOMAIN order
    BY <1>2, FoundPlace DEF LookUp
  <1>. QED BY <1>1, <1>2, <1>3

LEMMA LookUpType ==
  ASSUME IInv, LookUp
  PROVE  TypeInv'
  <1>. USE DEF IInv
  <1>1. /\ typed[1] + 1 \in DOMAIN programs
        /\ Len(typed) \in {1, 2}
    BY FoundPlace DEF LookUp
  <1>2. PICK order \in Sorted(programs[typed[1] + 1], Cpu) :
           /\ Len(typed) = 1 => queue' = order
           /\ Len(typed) = 2 => /\ typed[2] + 1 \in DOMAIN order
                                /\ queue' = <<order[typed[2] + 1]>>
    BY LookUpFacts
  <1>3. order \in Seq(Sample) /\ \A m \in DOMAIN order : order[m] \in Sample
    BY <1>1, OrderOf
  <1>4. queue' \in Seq(Sample)
    <2>1. CASE Len(typed) = 1
      BY <1>2, <1>3, <2>1
    <2>2. CASE Len(typed) = 2
      <3>1. order[typed[2] + 1] \in Sample /\ queue' = <<order[typed[2] + 1]>>
        BY <1>2, <1>3, <2>2
      <3>. QED BY <3>1
    <2>. QED BY <1>1, <2>1, <2>2
  <1>5. births \in Nat
    BY DEF TypeInv
  <1>6. first' \in [Pids -> 0..births]
    BY <1>5 DEF LookUp
  <1>. QED BY <1>4, <1>6 DEF TypeInv, LookUp, world, listing, Sample

LEMMA KillProcessFacts ==
  ASSUME IInv, KillProcess
  PROVE  /\ phase = "kill" /\ queue # <<>> /\ own \in Pids
         /\ 1 \in DOMAIN queue /\ Head(queue) = queue[1] /\ queue[1] \in Sample
         /\ queue' = Tail(queue) /\ queue' \in Seq(Sample)
         /\ DOMAIN queue' = 1..(Len(queue) - 1) /\ DOMAIN queue = 1..Len(queue)
         /\ \A i \in DOMAIN queue' : i + 1 \in DOMAIN queue /\ queue'[i] = queue[i + 1]
         /\ \A i \in DOMAIN queue : i # 1 => i - 1 \in DOMAIN queue' /\ queue'[i - 1] = queue[i]
         /\ queue[1].pid # own
         /\ hit' = IF Alive(queue[1].pid)
                     THEN hit \cup {<<queue[1].pid, proc[queue[1].pid].born>>} ELSE hit
         /\ success' = (success /\ Alive(queue[1].pid))
         /\ UNCHANGED <<proc, births, calm, events, own, phase, first, todo, samples, programs,
                        window, listed, typed, aim, sure, killing>>
  <1>1. /\ phase = "kill" /\ queue # <<>> /\ queue' = Tail(queue)
        /\ UNCHANGED <<proc, births, calm, events, own, phase, first, todo, samples, programs,
                        window, listed, typed, aim, sure, killing>>
    BY DEF KillProcess, world, listing
  <1>2. queue \in Seq(Sample)
    BY DEF IInv, TypeInv
  <1>3. Head(queue) = queue[1] /\ queue[1] \in Sample /\ 1 \in DOMAIN queue
    BY <1>1, <1>2
  <1>4. /\ queue' \in Seq(Sample) /\ DOMAIN queue' = 1..(Len(queue) - 1)
        /\ DOMAIN queue = 1..Len(queue)
        /\ \A i \in DOMAIN queue' : i + 1 \in DOMAIN queue /\ queue'[i] = queue[i + 1]
        /\ \A i \in DOMAIN queue : i # 1 => i - 1 \in DOMAIN queue' /\ queue'[i - 1] = queue[i]
    BY <1>1, <1>2
  <1>5. own \in Pids
    BY <1>1, OwnIsAPid DEF IInv
  <1>. QED BY <1>1, <1>3, <1>4, <1>5 DEF KillProcess

LEMMA KillProcessType ==
  ASSUME IInv, KillProcess
  PROVE  TypeInv'
  <1>. USE DEF IInv
  <1>1. queue[1].pid \in Pids
    BY KillProcessFacts DEF Sample
  <1>2. proc[queue[1].pid].born \in 0..births /\ births \in Nat
    BY <1>1 DEF TypeInv
  <1>3. Alive(queue[1].pid) => <<queue[1].pid, proc[queue[1].pid].born>> \in Pids \X (1..births)
    BY <1>1, <1>2 DEF Alive
  <1>4. hit' \subseteq Pids \X (1..births)
    BY <1>3, KillProcessFacts DEF TypeInv
  <1>5. success' \in BOOLEAN /\ queue' \in Seq(Sample)
    BY KillProcessFacts DEF TypeInv, Alive
  <1>. QED BY <1>4, <1>5, KillProcessFacts DEF TypeInv, Sample

\* The steps of the other processes, which leave the command alone.
LEMMA HappensKeeps ==
  ASSUME IInv, Happens
  PROVE  /\ UNCHANGED <<own, phase, first, todo, samples, programs, window, listed, typed,
                        aim, sure, killing, queue, hit, success>>
         /\ calm' = FALSE /\ events' \in 0..MaxEvents /\ phase # "done"
  <1>1. events \in 0..MaxEvents
    BY DEF IInv, TypeInv
  <1>. QED BY <1>1, ListAssumption DEF Happens, listing, signals

LEMMA SpawnFacts ==
  ASSUME IInv, NEW p \in Pids, NEW n \in Names, NEW u \in 0..MaxUse, Spawn(p, n, u)
  PROVE  /\ proc' \in [Pids -> [born : 0..births', name : Names, use : 0..MaxUse]]
         /\ births' = births + 1 /\ births \in Nat \ {0} /\ births' \in Nat \ {0}
         /\ ~ Alive(p) /\ proc'[p].born = births'
         /\ \A q \in Pids : q # p => proc'[q] = proc[q]
         /\ Happens
  <1>1. births \in Nat \ {0} /\ births' = births + 1
    BY DEF IInv, TypeInv, Spawn
  <1>2. 0..births \subseteq 0..births' /\ births' \in 0..births'
    BY <1>1
  <1>3. [born |-> births', name |-> n, use |-> u] \in [born : 0..births', name : Names, use : 0..MaxUse]
    BY <1>2
  <1>4. proc \in [Pids -> [born : 0..births', name : Names, use : 0..MaxUse]]
    BY <1>2 DEF IInv, TypeInv
  <1>5. proc' = [proc EXCEPT ![p] = [born |-> births', name |-> n, use |-> u]]
    BY <1>1 DEF Spawn
  <1>. QED BY <1>1, <1>3, <1>4, <1>5 DEF Spawn

LEMMA SpawnType ==
  ASSUME IInv, NEW p \in Pids, NEW n \in Names, NEW u \in 0..MaxUse, Spawn(p, n, u)
  PROVE  TypeInv'
  <1>. USE DEF IInv
  <1>1. Happens
    BY DEF Spawn
  <1>2. ForkKeeps /\ births' \in Nat \ {0}
    BY SpawnFacts, ForkFacts
  <1>3. proc' \in [Pids -> [born : 0..births', name : Names, use : 0..MaxUse]]
    BY SpawnFacts
  <1>4. /\ first' \in [Pids -> 0..births'] /\ samples' \subseteq Sample'
        /\ queue' \in Seq(Sample') /\ hit' \subseteq Pids \X (1..births')
        /\ aim' \subseteq Sample'
        /\ programs' \in Seq((SUBSET Sample') \ {{}})
    BY <1>1, <1>2, HappensKeeps DEF TypeInv, ForkKeeps
  <1>5. \A id \in DOMAIN listed' : id \in Nat /\ listed'[id] \subseteq Sample'
    BY <1>1, <1>2, HappensKeeps DEF TypeInv, ForkKeeps
  <1>6. /\ killing' \in BOOLEAN /\ calm' \in BOOLEAN /\ sure' \in BOOLEAN /\ success' \in BOOLEAN
        /\ todo' \subseteq Pids /\ typed' \in Ids /\ events' \in 0..MaxEvents
        /\ own' \in Pids \cup {NoPid}
        /\ phase' \in {"idle", "list_pids", "read", "print", "look_up", "kill", "done"}
        /\ own' = NoPid <=> phase' \in {"idle", "done"}
    BY <1>1, HappensKeeps DEF TypeInv
  <1>. QED BY <1>2, <1>3, <1>4, <1>5, <1>6 DEF TypeInv

\* A process goes on or ends: no process but the one with this pid is touched,
\* it is not the command, and no process is born.
Changes(p) ==
  /\ p # own /\ births' = births
  /\ proc' \in [Pids -> [born : 0..births, name : Names, use : 0..MaxUse]]
  /\ \A q \in Pids : q # p => proc'[q] = proc[q]
  /\ \/ proc'[p].born = proc[p].born /\ proc'[p].name = proc[p].name
     \/ proc'[p].born = 0
  /\ UNCHANGED <<own, phase, first, todo, samples, programs, window, listed, typed,
                 aim, sure, killing, queue, hit, success>>
  /\ calm' \in BOOLEAN /\ events' \in 0..MaxEvents

LEMMA FreeType == TypeInv => Free \in [born : 0..births, name : Names, use : 0..MaxUse]
  BY ListAssumption DEF Free, TypeInv

LEMMA EndChanges ==
  ASSUME IInv, NEW p \in Pids, End(p)
  PROVE  Changes(p) /\ calm' = FALSE
  <1>1. Happens
    BY DEF End
  <1>2. proc \in [Pids -> [born : 0..births, name : Names, use : 0..MaxUse]]
    BY DEF IInv, TypeInv
  <1>3. p # own /\ births' = births /\ proc' = [proc EXCEPT ![p] = Free]
    BY DEF End
  <1>4. Free \in [born : 0..births, name : Names, use : 0..MaxUse] /\ Free.born = 0
    BY FreeType DEF IInv, Free
  <1>. QED BY <1>1, <1>2, <1>3, <1>4, HappensKeeps DEF Changes

LEMMA SignalledChanges ==
  ASSUME IInv, NEW p \in Pids, EndOfSignalled(p)
  PROVE  /\ Changes(p) /\ calm' = calm
         /\ Alive(p) /\ <<p, proc[p].born>> \in hit
         /\ proc'[p].born = 0
  <1>1. proc \in [Pids -> [born : 0..births, name : Names, use : 0..MaxUse]]
    BY DEF IInv, TypeInv
  <1>2. p # own /\ births' = births /\ proc' = [proc EXCEPT ![p] = Free]
    BY DEF EndOfSignalled
  <1>3. Free \in [born : 0..births, name : Names, use : 0..MaxUse] /\ Free.born = 0
    BY FreeType DEF IInv, Free
  <1>4. /\ UNCHANGED <<own, phase, first, todo, samples, programs, window, listed, typed,
                       aim, sure, killing, queue, hit, success>>
        /\ calm' = calm /\ events' = events
    BY DEF EndOfSignalled, listing, signals
  <1>5. calm' \in BOOLEAN /\ events' \in 0..MaxEvents
    BY <1>4 DEF IInv, TypeInv
  <1>. QED BY <1>1, <1>2, <1>3, <1>4, <1>5 DEF Changes, EndOfSignalled

LEMMA UseChangesChanges ==
  ASSUME IInv, NEW p \in Pids, NEW u \in 0..MaxUse, UseChanges(p, u)
  PROVE  Changes(p) /\ calm' = FALSE
  <1>1. Happens
    BY DEF UseChanges
  <1>2. proc \in [Pids -> [born : 0..births, name : Names, use : 0..MaxUse]]
    BY DEF IInv, TypeInv
  <1>3. p # own /\ births' = births /\ proc' = [proc EXCEPT ![p].use = u]
    BY DEF UseChanges
  <1>4. proc' \in [Pids -> [born : 0..births, name : Names, use : 0..MaxUse]]
    BY <1>2, <1>3
  <1>5. /\ proc'[p].born = proc[p].born /\ proc'[p].name = proc[p].name
        /\ \A q \in Pids : q # p => proc'[q] = proc[q]
    BY <1>2, <1>3
  <1>. QED BY <1>1, <1>3, <1>4, <1>5, HappensKeeps DEF Changes

LEMMA ChangesType ==
  ASSUME IInv, NEW p \in Pids, Changes(p)
  PROVE  TypeInv'
  <1>1. Sample' = Sample
    BY DEF Changes, Sample
  <1>. QED BY <1>1 DEF IInv, TypeInv, Changes

LEMMA TypeStep == IInv /\ [Next]_vars => TypeInv'
  <1>. SUFFICES ASSUME IInv, [Next]_vars PROVE TypeInv'
    OBVIOUS
  <1>1. CASE \E p \in Pids, range \in Ranges : RunList(p, range)
    BY <1>1, RunListType
  <1>2. CASE \E p \in Pids, id \in Ids : RunKill(p, id)
    BY <1>2, RunKillType
  <1>3. CASE ListPids
    BY <1>3, ListPidsType
  <1>4. CASE \E p \in Pids : ReadAgain(p)
    BY <1>4, ReadAgainType
  <1>5. CASE Sort
    BY <1>5, SortType
  <1>6. CASE PrintProcessListing
    BY <1>6, PrintType
  <1>7. CASE Reject
    BY <1>7, RejectType
  <1>8. CASE LookUp
    BY <1>8, LookUpType
  <1>9. CASE KillProcess
    BY <1>9, KillProcessType
  <1>10. CASE KillItself
    BY <1>10, KillItselfType
  <1>11. CASE Report
    BY <1>11, ReportType
  <1>12. CASE \E p \in Pids : End(p)
    BY <1>12, EndChanges, ChangesType
  <1>13. CASE \E p \in Pids : EndOfSignalled(p)
    BY <1>13, SignalledChanges, ChangesType
  <1>14. CASE \E p \in Pids, n \in Names, u \in 0..MaxUse : Spawn(p, n, u)
    BY <1>14, SpawnType
  <1>15. CASE \E p \in Pids, u \in 0..MaxUse : UseChanges(p, u)
    BY <1>15, UseChangesChanges, ChangesType
  <1>16. CASE UNCHANGED vars
    BY <1>16 DEF IInv, TypeInv, vars, Sample
  <1>. QED BY <1>1, <1>2, <1>3, <1>4, <1>5, <1>6, <1>7, <1>8, <1>9, <1>10, <1>11,
              <1>12, <1>13, <1>14, <1>15, <1>16, Steps

-----------------------------------------------------------------------------
(* The commands.                                                           *)

LEMMA CommandInit == Init => CommandInv
  BY ListAssumption DEF Init, CommandInv

LEMMA CommandStep == IInv /\ [Next]_vars => CommandInv'
  <1>. SUFFICES ASSUME IInv, [Next]_vars PROVE CommandInv'
    OBVIOUS
  <1>0. CommandInv /\ own \in Pids \cup {NoPid} /\ proc \in [Pids -> [born : 0..births, name : Names, use : 0..MaxUse]]
    BY DEF IInv, TypeInv
  <1>a. killing \in BOOLEAN
    BY DEF IInv, TypeInv
  <1>b. births \in Nat
    BY DEF IInv, TypeInv
  <1>c. ASSUME NEW p \in Pids, Fork(p)
        PROVE  Alive(p)' /\ proc'[p].name = Own /\ own' = p
    BY <1>0, <1>b, <1>c DEF Fork, Alive
  <1>d. ASSUME Exit PROVE own' \notin Pids
    BY <1>d, ListAssumption DEF Exit
  <1>e. ASSUME NEW p \in Pids, Changes(p)
        PROVE  CommandInv'
    BY <1>0, <1>e DEF Changes, CommandInv, Alive
  <1>f. ASSUME proc' = proc, own' = own, killing' = killing, aim' = aim, sure' = sure
        PROVE  own' \in Pids => Alive(own)' /\ proc'[own'].name = Own
    BY <1>0, <1>f DEF CommandInv, Alive
  <1>1. CASE \E p \in Pids, range \in Ranges : RunList(p, range)
    <2>1. PICK p \in Pids : Fork(p)
      BY <1>1 DEF RunList
    <2>2. /\ phase = "idle" /\ phase' = "list_pids" /\ killing' = killing
          /\ hit' = hit /\ queue' = queue /\ aim' = aim /\ sure' = sure
      BY <1>1 DEF RunList, Fork, signals
    <2>. QED BY <1>0, <1>a, <1>c, <2>1, <2>2 DEF CommandInv
  <1>2. CASE \E p \in Pids, id \in Ids : RunKill(p, id)
    <2>1. PICK p \in Pids : Fork(p)
      BY <1>2 DEF RunKill
    <2>2. /\ phase = "idle" /\ phase' = "list_pids" /\ killing' = TRUE
          /\ hit' = hit /\ queue' = queue
      BY <1>2 DEF RunKill, Fork, signals
    <2>. QED BY <1>0, <1>c, <2>1, <2>2 DEF CommandInv
  <1>3. CASE ListPids
    BY <1>0, <1>3, <1>f DEF ListPids, CommandInv, world, listing, signals
  <1>4. CASE \E p \in Pids : ReadAgain(p)
    BY <1>0, <1>4, <1>f DEF ReadAgain, CommandInv, world, listing, signals
  <1>5. CASE Sort
    BY <1>0, <1>5, <1>f, <1>a DEF Sort, CommandInv, world, listing, signals
  <1>6. CASE PrintProcessListing
    BY <1>0, <1>6, <1>d, <1>a DEF PrintProcessListing, CommandInv, signals
  <1>7. CASE Reject
    BY <1>0, <1>7, <1>d, <1>a DEF Reject, CommandInv, listing
  <1>8. CASE LookUp
    BY <1>0, <1>8, <1>f, <1>a DEF LookUp, CommandInv, world, listing, signals
  <1>9. CASE KillProcess
    BY <1>0, <1>9, <1>f, <1>a DEF KillProcess, CommandInv, world, listing
  <1>10. CASE KillItself
    BY <1>0, <1>10, <1>d, <1>a DEF KillItself, CommandInv, listing
  <1>11. CASE Report
    BY <1>0, <1>11, <1>d, <1>a DEF Report, CommandInv, listing, signals
  <1>12. CASE \E p \in Pids : End(p)
    BY <1>12, <1>e, EndChanges
  <1>13. CASE \E p \in Pids : EndOfSignalled(p)
    BY <1>13, <1>e, SignalledChanges
  <1>14. CASE \E p \in Pids, n \in Names, u \in 0..MaxUse : Spawn(p, n, u)
    <2>1. PICK p \in Pids, n \in Names, u \in 0..MaxUse : Spawn(p, n, u)
      BY <1>14
    <2>2. ~ Alive(p) /\ Happens /\ \A q \in Pids : q # p => proc'[q] = proc[q]
      BY <2>1, SpawnFacts
    <2>3. own \in Pids => own # p
      BY <1>0, <2>2 DEF CommandInv
    <2>. QED BY <1>0, <2>2, <2>3, HappensKeeps DEF CommandInv, Alive
  <1>15. CASE \E p \in Pids, u \in 0..MaxUse : UseChanges(p, u)
    BY <1>15, <1>e, UseChangesChanges
  <1>16. CASE UNCHANGED vars
    BY <1>0, <1>16 DEF CommandInv, vars, Alive
  <1>. QED BY <1>1, <1>2, <1>3, <1>4, <1>5, <1>6, <1>7, <1>8, <1>9, <1>10, <1>11,
              <1>12, <1>13, <1>14, <1>15, <1>16, Steps

-----------------------------------------------------------------------------
(* The samples.                                                            *)

LEMMA SampleInit == Init => SampleInv
  BY DEF Init, SampleInv, OnePerPid

LEMMA ListPidsSample ==
  ASSUME IInv, ListPids
  PROVE  SampleInv'
  <1>1. /\ samples' = {} /\ phase' = "read" /\ proc' = proc /\ todo' = {p \in Pids : Alive(p)}
    BY DEF ListPids, world
  <1>. QED BY <1>1 DEF SampleInv, OnePerPid, Alive

\* The sample that is added is of the process that has the pid now.
LEMMA ReadAgainAdds ==
  ASSUME IInv, NEW p \in Pids, ReadAgain(p)
  PROVE  /\ phase = "read" /\ p \in todo /\ todo' = todo \ {p}
         /\ \/ \E x \in AnySample :
                 /\ samples' = samples \cup {x} /\ x \in Sample
                 /\ Alive(p) /\ x.pid = p /\ x.born = proc[p].born /\ x.name = proc[p].name
                 /\ proc[p].born = first[p] => x.cpu = proc[p].use
            \/ proc[p].born # first[p] /\ samples' = samples
         /\ UNCHANGED <<proc, births, calm, events, own, phase, first, programs, window, listed,
                        typed, aim, sure, killing, queue, hit, success>>
  <1>1. /\ proc[p].born \in 0..births /\ proc[p].name \in Names /\ proc[p].use \in 0..MaxUse
        /\ births \in Nat
    BY DEF IInv, TypeInv
  <1>2. Deltas(p) \subseteq 0..MaxUse /\ (proc[p].born = first[p] => Deltas(p) = {proc[p].use})
    BY <1>1, ListAssumption DEF Deltas, ReadProcessTimes
  <1>3. ASSUME Alive(p), NEW delta \in Deltas(p)
        PROVE  LET x == [pid |-> p, born |-> proc[p].born, name |-> proc[p].name, cpu |-> delta]
               IN  x \in AnySample /\ x \in Sample
    BY <1>1, <1>2, <1>3 DEF Alive, AnySample, Sample
  <1>4. CASE Alive(p) /\ \E delta \in Deltas(p) :
               samples' = samples \cup {[pid |-> p, born |-> proc[p].born,
                                         name |-> proc[p].name, cpu |-> delta]}
    <2>1. PICK delta \in Deltas(p) :
               samples' = samples \cup {[pid |-> p, born |-> proc[p].born,
                                         name |-> proc[p].name, cpu |-> delta]}
      BY <1>4
    <2>2. proc[p].born = first[p] => delta = proc[p].use
      BY <1>2
    <2>. QED BY <1>3, <1>4, <2>1, <2>2 DEF ReadAgain, world, listing, signals
  <1>5. CASE ReadProcessTimes(p) # first[p] /\ UNCHANGED samples
    BY <1>5 DEF ReadAgain, ReadProcessTimes, world, listing, signals
  <1>. QED BY <1>4, <1>5 DEF ReadAgain

LEMMA ReadAgainSample ==
  ASSUME IInv, NEW p \in Pids, ReadAgain(p)
  PROVE  SampleInv'
  <1>0. SampleInv /\ CommandInv
    BY DEF IInv
  <1>1. CASE proc[p].born # first[p] /\ samples' = samples
    BY <1>0, <1>1, ReadAgainAdds DEF SampleInv, OnePerPid, Alive, Identity
  <1>2. CASE \E x \in AnySample :
                 /\ samples' = samples \cup {x}
                 /\ Alive(p) /\ x.pid = p /\ x.born = proc[p].born /\ x.name = proc[p].name
    <2>1. PICK x \in AnySample :
                 /\ samples' = samples \cup {x}
                 /\ x.pid = p /\ x.born = proc[p].born /\ x.name = proc[p].name
      BY <1>2
    <2>2. \A y \in samples : y.pid # p
      BY <1>0, ReadAgainAdds DEF SampleInv
    <2>3. OnePerPid(samples')
      BY <1>0, <2>1, <2>2 DEF SampleInv, OnePerPid
    <2>4. \A y \in samples' : y.pid \notin todo' /\ (y.pid = own => y.name = Own)
      BY <1>0, <2>1, ReadAgainAdds DEF SampleInv, CommandInv
    <2>5. \A q \in Pids : Alive(q) /\ proc[q].born = first[q] /\ q \notin todo' =>
            \E y \in samples' : Identity(y) = <<q, proc[q].born>>
      <3>. SUFFICES ASSUME NEW q \in Pids, Alive(q), proc[q].born = first[q], q \notin todo'
                    PROVE  \E y \in samples' : Identity(y) = <<q, proc[q].born>>
        OBVIOUS
      <3>1. CASE q = p
        BY <2>1, <3>1 DEF Identity
      <3>2. CASE q # p
        <4>1. q \notin todo
          BY <3>2, ReadAgainAdds
        <4>. QED BY <1>0, <2>1, <4>1, ReadAgainAdds DEF SampleInv
      <3>. QED BY <3>1, <3>2
    <2>. QED BY <2>3, <2>4, <2>5, ReadAgainAdds DEF SampleInv, Alive, Identity
  <1>. QED BY <1>1, <1>2, ReadAgainAdds

\* A process born meanwhile is not the one that was read first.
LEMMA NotReborn ==
  ASSUME IInv, NEW p \in Pids,
         Changes(p) \/ \E n \in Names, u \in 0..MaxUse : Spawn(p, n, u)
  PROVE  /\ \A q \in Pids : proc'[q].born # 0 /\ proc'[q].born <= births => proc'[q].born = proc[q].born
         /\ UNCHANGED <<own, phase, first, todo, samples, programs, window, listed, typed,
                        aim, sure, killing, queue, hit, success>>
  <1>1. \A q \in Pids : proc'[q].born # 0 /\ proc'[q].born <= births => proc'[q].born = proc[q].born
    <2>. TAKE q \in Pids
    <2>1. births \in Nat
      BY DEF IInv, TypeInv
    <2>2. q # p => proc'[q] = proc[q]
      BY SpawnFacts DEF Changes
    <2>3. CASE Changes(p)
      BY <2>2, <2>3 DEF Changes
    <2>4. CASE \E n \in Names, u \in 0..MaxUse : Spawn(p, n, u)
      <3>1. proc'[p].born = births + 1
        BY <2>4, SpawnFacts
      <3>. QED BY <2>1, <2>2, <3>1
    <2>. QED BY <2>3, <2>4
  <1>. QED BY <1>1, HappensKeeps, SpawnFacts DEF Changes

LEMMA NotRebornSinceRead ==
  ASSUME IInv, NEW p \in Pids,
         Changes(p) \/ \E n \in Names, u \in 0..MaxUse : Spawn(p, n, u)
  PROVE  \A q \in Pids : proc'[q].born # 0 /\ proc'[q].born = first[q] => proc[q].born = proc'[q].born
  <1>. TAKE q \in Pids
  <1>1. births \in Nat /\ first[q] \in 0..births
    BY DEF IInv, TypeInv
  <1>. QED BY <1>1, NotReborn

LEMMA DisturbedSample ==
  ASSUME IInv, NEW p \in Pids,
         Changes(p) \/ \E n \in Names, u \in 0..MaxUse : Spawn(p, n, u)
  PROVE  SampleInv'
  <1>1. UNCHANGED <<own, phase, first, todo, samples>>
    BY NotReborn
  <1>2. \A q \in Pids : proc'[q].born # 0 /\ proc'[q].born = first[q] => proc[q].born = proc'[q].born
    BY NotRebornSinceRead
  <1>3. SampleInv
    BY DEF IInv
  <1>. QED BY <1>1, <1>2, <1>3 DEF SampleInv, OnePerPid, Alive, Identity

LEMMA SampleStep == IInv /\ [Next]_vars => SampleInv'
  <1>. SUFFICES ASSUME IInv, [Next]_vars PROVE SampleInv'
    OBVIOUS
  <1>0. SampleInv
    BY DEF IInv
  <1>a. ASSUME samples = {}, samples' = {}, phase' # "read"
        PROVE  SampleInv'
    BY <1>a DEF SampleInv, OnePerPid
  <1>b. phase # "read" => samples = {}
    BY <1>0 DEF SampleInv
  <1>1. CASE \E p \in Pids, range \in Ranges : RunList(p, range)
    BY <1>1, <1>a, <1>b DEF RunList, Fork
  <1>2. CASE \E p \in Pids, id \in Ids : RunKill(p, id)
    BY <1>2, <1>a, <1>b DEF RunKill, Fork
  <1>3. CASE ListPids
    BY <1>3, ListPidsSample
  <1>4. CASE \E p \in Pids : ReadAgain(p)
    BY <1>4, ReadAgainSample
  <1>5. CASE Sort
    BY <1>5 DEF Sort, SampleInv, OnePerPid
  <1>6. CASE PrintProcessListing
    BY <1>6, <1>a, <1>b DEF PrintProcessListing
  <1>7. CASE Reject
    BY <1>7, <1>a, <1>b DEF Reject
  <1>8. CASE LookUp
    BY <1>8, <1>a, <1>b DEF LookUp
  <1>9. CASE KillProcess
    BY <1>9, <1>a, <1>b DEF KillProcess
  <1>10. CASE KillItself
    BY <1>10, <1>a, <1>b DEF KillItself
  <1>11. CASE Report
    BY <1>11, <1>a, <1>b DEF Report
  <1>12. CASE \E p \in Pids : End(p)
    BY <1>12, EndChanges, DisturbedSample
  <1>13. CASE \E p \in Pids : EndOfSignalled(p)
    BY <1>13, SignalledChanges, DisturbedSample
  <1>14. CASE \E p \in Pids, n \in Names, u \in 0..MaxUse : Spawn(p, n, u)
    BY <1>14, DisturbedSample
  <1>15. CASE \E p \in Pids, u \in 0..MaxUse : UseChanges(p, u)
    BY <1>15, UseChangesChanges, DisturbedSample
  <1>16. CASE UNCHANGED vars
    BY <1>0, <1>16 DEF SampleInv, OnePerPid, Alive, Identity, vars
  <1>. QED BY <1>1, <1>2, <1>3, <1>4, <1>5, <1>6, <1>7, <1>8, <1>9, <1>10, <1>11,
              <1>12, <1>13, <1>14, <1>15, <1>16, Steps

-----------------------------------------------------------------------------
(* The programs.                                                           *)

LEMMA ProgramsInit == Init => ProgramsInv
  <1>. SUFFICES ASSUME Init PROVE ProgramsInv
    OBVIOUS
  <1>1. /\ DOMAIN programs = {} /\ Len(programs) = 0 /\ DOMAIN listed = {}
        /\ Len(programs) <= MaxSize + 1 /\ phase = "idle"
    BY ListAssumption DEF Init
  <1>. QED BY <1>1 DEF ProgramsInv

LEMMA SortPrograms ==
  ASSUME IInv, Sort
  PROVE  ProgramsInv'
  <1>1. SampleInv
    BY DEF IInv
  <1>2. /\ phase = "read" /\ todo = {} /\ phase' # "idle" /\ proc' = proc /\ own' = own /\ first' = first
    BY DEF Sort, world
  <1>3. /\ \A P \in ByName(samples) : P \subseteq samples
        /\ \A P, Q \in ByName(samples) : \A x \in P, y \in Q : x.name = y.name <=> P = Q
        /\ \A x \in samples : \E P \in ByName(samples) : x \in P
    BY SortFacts, ProgramsFinite
  <1>4. \A i \in DOMAIN programs' : \A x \in programs'[i] : x \in samples
    BY <1>3, SortFacts
  <1>5. \A i, j \in DOMAIN programs' : \A x \in programs'[i], y \in programs'[j] :
          /\ x.name = y.name <=> i = j
          /\ x.pid = y.pid => x = y
    <2>. TAKE i, j \in DOMAIN programs'
    <2>. TAKE x \in programs'[i], y \in programs'[j]
    <2>1. x.name = y.name <=> programs'[i] = programs'[j]
      BY <1>3, SortFacts
    <2>2. programs'[i] = programs'[j] <=> i = j
      BY SortFacts
    <2>3. x \in samples /\ y \in samples
      BY <1>4
    <2>. QED BY <1>1, <2>1, <2>2, <2>3 DEF SampleInv, OnePerPid
  <1>6. \A i \in DOMAIN programs' : \A x \in programs'[i] : x.pid = own => x.name = Own
    BY <1>1, <1>4 DEF SampleInv
  <1>7. \A p \in Pids : Alive(p) /\ proc[p].born = first[p] =>
          \E i \in DOMAIN programs' : \E x \in programs'[i] : Identity(x) = <<p, proc[p].born>>
    <2>. SUFFICES ASSUME NEW p \in Pids, Alive(p), proc[p].born = first[p]
                  PROVE  \E i \in DOMAIN programs' : \E x \in programs'[i] :
                           Identity(x) = <<p, proc[p].born>>
      OBVIOUS
    <2>1. PICK x \in samples : Identity(x) = <<p, proc[p].born>>
      BY <1>1, <1>2 DEF SampleInv
    <2>2. PICK P \in ByName(samples) : x \in P
      BY <1>3
    <2>3. PICK i \in DOMAIN programs' : programs'[i] = P
      BY SortFacts
    <2>. QED BY <2>1, <2>2, <2>3
  <1>. QED BY <1>2, <1>5, <1>6, <1>7, SortFacts DEF ProgramsInv, Alive, Identity

LEMMA PrintPrograms ==
  ASSUME IInv, PrintProcessListing
  PROVE  ProgramsInv'
  <1>1. ProgramsInv
    BY DEF IInv
  <1>2. programs' = programs /\ own' = NoPid /\ phase' = "idle"
    BY DEF PrintProcessListing, Exit
  <1>3. \A id \in DOMAIN listed' : id + 1 \in DOMAIN programs /\ listed'[id] = programs[id + 1]
    <2>. TAKE id \in DOMAIN listed'
    <2>1. listed' = [n \in {n \in 0..Len(programs) - 1 :
                              window.start <= n /\ n <= window.end} |-> programs[n + 1]]
      BY DEF PrintProcessListing, Shown
    <2>2. Len(programs) \in Nat /\ DOMAIN programs = 1..Len(programs)
      BY DEF IInv, TypeInv
    <2>3. id \in 0..Len(programs) - 1 /\ listed'[id] = programs[id + 1]
      BY <2>1
    <2>. QED BY <2>2, <2>3
  <1>4. \A i \in DOMAIN programs : \A x \in programs[i] : x.pid # NoPid
    <2>. TAKE i \in DOMAIN programs
    <2>1. programs[i] \subseteq AnySample
      BY ProgramFinite DEF IInv
    <2>. QED BY <2>1, ListAssumption DEF AnySample
  <1>. QED BY <1>1, <1>2, <1>3, <1>4 DEF ProgramsInv

\* The steps that follow the listing, or come before it, and leave it alone.
LEMMA KeptPrograms ==
  ASSUME IInv, programs' = programs, own' = own \/ own' = NoPid,
         phase' \notin {"idle", "print", "look_up"}
  PROVE  ProgramsInv'
  <1>1. ProgramsInv
    BY DEF IInv
  <1>2. \A i \in DOMAIN programs : \A x \in programs[i] : x.pid # NoPid
    <2>. TAKE i \in DOMAIN programs
    <2>1. programs[i] \subseteq AnySample
      BY ProgramFinite DEF IInv
    <2>. QED BY <2>1, ListAssumption DEF AnySample
  <1>. QED BY <1>1, <1>2 DEF ProgramsInv

LEMMA DisturbedPrograms ==
  ASSUME IInv, NEW p \in Pids,
         Changes(p) \/ \E n \in Names, u \in 0..MaxUse : Spawn(p, n, u)
  PROVE  ProgramsInv'
  <1>1. UNCHANGED <<own, phase, first, programs, listed>>
    BY NotReborn
  <1>2. \A q \in Pids : proc'[q].born # 0 /\ proc'[q].born = first[q] => proc[q].born = proc'[q].born
    BY NotRebornSinceRead
  <1>3. ProgramsInv
    BY DEF IInv
  <1>. QED BY <1>1, <1>2, <1>3 DEF ProgramsInv, Alive, Identity

LEMMA ProgramsStep == IInv /\ [Next]_vars => ProgramsInv'
  <1>. SUFFICES ASSUME IInv, [Next]_vars PROVE ProgramsInv'
    OBVIOUS
  <1>1. CASE \E p \in Pids, range \in Ranges : RunList(p, range)
    <2>1. programs' = <<>> /\ phase' = "list_pids"
      BY <1>1 DEF RunList, Fork
    <2>2. DOMAIN programs' = {} /\ Len(programs') = 0 /\ Len(programs') <= MaxSize + 1
      BY <2>1, ListAssumption
    <2>. QED BY <2>1, <2>2 DEF ProgramsInv
  <1>2. CASE \E p \in Pids, id \in Ids : RunKill(p, id)
    <2>1. programs' = <<>> /\ phase' = "list_pids"
      BY <1>2 DEF RunKill, Fork
    <2>2. DOMAIN programs' = {} /\ Len(programs') = 0 /\ Len(programs') <= MaxSize + 1
      BY <2>1, ListAssumption
    <2>. QED BY <2>1, <2>2 DEF ProgramsInv
  <1>3. CASE ListPids
    BY <1>3, KeptPrograms DEF ListPids
  <1>4. CASE \E p \in Pids : ReadAgain(p)
    BY <1>4, KeptPrograms DEF ReadAgain
  <1>5. CASE Sort
    BY <1>5, SortPrograms
  <1>6. CASE PrintProcessListing
    BY <1>6, PrintPrograms
  <1>7. CASE Reject
    BY <1>7, KeptPrograms DEF Reject, Exit
  <1>8. CASE LookUp
    BY <1>8, KeptPrograms DEF LookUp
  <1>9. CASE KillProcess
    BY <1>9, KeptPrograms DEF KillProcess
  <1>10. CASE KillItself
    BY <1>10, KeptPrograms DEF KillItself, Exit
  <1>11. CASE Report
    BY <1>11, KeptPrograms DEF Report, Exit
  <1>12. CASE \E p \in Pids : End(p)
    BY <1>12, EndChanges, DisturbedPrograms
  <1>13. CASE \E p \in Pids : EndOfSignalled(p)
    BY <1>13, SignalledChanges, DisturbedPrograms
  <1>14. CASE \E p \in Pids, n \in Names, u \in 0..MaxUse : Spawn(p, n, u)
    BY <1>14, DisturbedPrograms
  <1>15. CASE \E p \in Pids, u \in 0..MaxUse : UseChanges(p, u)
    BY <1>15, UseChangesChanges, DisturbedPrograms
  <1>16. CASE UNCHANGED vars
    BY <1>16 DEF IInv, ProgramsInv, Alive, Identity, vars
  <1>. QED BY <1>1, <1>2, <1>3, <1>4, <1>5, <1>6, <1>7, <1>8, <1>9, <1>10, <1>11,
              <1>12, <1>13, <1>14, <1>15, <1>16, Steps

-----------------------------------------------------------------------------
(* The signals.                                                            *)

LEMMA TargetFacts ==
  ASSUME IInv, NEW x \in Targets
  PROVE  /\ Len(typed) = 1 /\ typed[1] \in Nat /\ typed[1] + 1 \in DOMAIN programs
         /\ typed # <<>> /\ DOMAIN typed = {1} /\ typed[1] <= MaxSize
         /\ Targets = programs[typed[1] + 1]
         /\ x \in Sample /\ x.pid \in Pids /\ x.born \in 1..births /\ births \in Nat
         /\ x.pid = own => x.name = Own
  <1>1. Len(typed) = 1 /\ typed[1] < Len(programs) /\ Targets = programs[typed[1] + 1]
    BY DEF Targets
  <1>a. typed \in Ids
    BY DEF IInv, TypeInv
  <1>2. PICK n \in Numbers : typed = <<n>>
    BY <1>1, <1>a DEF Ids
  <1>3. typed[1] \in Nat /\ DOMAIN typed = {1} /\ typed # <<>>
    BY <1>2, ListAssumption
  <1>4. Len(programs) \in Nat /\ DOMAIN programs = 1..Len(programs) /\ Len(programs) <= MaxSize + 1
    BY DEF IInv, TypeInv, ProgramsInv
  <1>5. typed[1] + 1 \in DOMAIN programs /\ typed[1] <= MaxSize
    BY <1>1, <1>3, <1>4, ListAssumption
  <1>6. x \in Sample
    BY <1>1, <1>5, ProgramFinite DEF IInv
  <1>7. x.pid = own => x.name = Own
    BY <1>1, <1>5 DEF IInv, ProgramsInv
  <1>8. births \in Nat
    BY DEF IInv, TypeInv
  <1>. QED BY <1>1, <1>3, <1>5, <1>6, <1>7, <1>8 DEF Sample

LEMMA LookUpKills ==
  ASSUME IInv, LookUp
  PROVE  KillInv'
  <1>1. /\ typed[1] + 1 \in DOMAIN programs /\ typed[1] \in Nat
        /\ Len(typed) \in {1, 2}
    BY FoundPlace DEF LookUp
  <1>2. typed' = typed /\ programs' = programs
    BY DEF LookUp, listing
  <1>3. Targets' = Targets
    BY <1>2 DEF Targets
  <1>4. CASE Len(typed) = 2
    <2>1. Targets = {}
      BY <1>4 DEF Targets
    <2>. QED BY <1>2, <1>3, <1>4, <2>1 DEF KillInv
  <1>5. CASE Len(typed) = 1
    <2>1. PICK order \in Sorted(programs[typed[1] + 1], Cpu) : queue' = order
      BY <1>5, LookUpFacts
    <2>2. typed[1] < Len(programs)
      BY DEF LookUp, Found
    <2>3. Targets = programs[typed[1] + 1]
      BY <1>5, <2>2 DEF Targets
    <2>4. /\ \A m \in DOMAIN order : order[m] \in programs[typed[1] + 1]
          /\ \A x \in programs[typed[1] + 1] : \E m \in DOMAIN order : order[m] = x
      BY <1>1, OrderOf DEF IInv
    <2>. QED BY <1>3, <2>1, <2>3, <2>4 DEF KillInv, Queued
  <1>. QED BY <1>1, <1>4, <1>5

LEMMA KillProcessKills ==
  ASSUME IInv, KillProcess
  PROVE  KillInv'
  <1>1. KillInv /\ phase = "kill"
    BY KillProcessFacts DEF IInv
  <1>2. Targets' = Targets /\ typed' = typed
    BY KillProcessFacts DEF Targets
  <1>3. Len(typed) = 1 => \A i \in DOMAIN queue' : queue'[i] \in Targets
    BY <1>1, KillProcessFacts DEF KillInv
  <1>4. ASSUME NEW x \in Targets
        PROVE  \/ \E i \in DOMAIN queue' : queue'[i] = x
               \/ /\ proc[x.pid].born = x.born => Identity(x) \in hit'
                  /\ success' => \E y \in hit' : y[1] = x.pid
    <2>1. CASE queue[1] = x
      <3>1. x.born # 0
        BY TargetFacts
      <3>2. Alive(x.pid) => <<x.pid, proc[x.pid].born>> \in hit'
        BY <2>1, KillProcessFacts
      <3>3. success' => Alive(x.pid)
        BY <2>1, KillProcessFacts
      <3>4. proc[x.pid].born = x.born => Identity(x) \in hit'
        BY <3>1, <3>2 DEF Alive, Identity
      <3>5. success' => \E y \in hit' : y[1] = x.pid
        BY <3>2, <3>3
      <3>. QED BY <3>4, <3>5
    <2>2. CASE queue[1] # x /\ Queued(x)
      <3>1. PICK i \in DOMAIN queue : queue[i] = x
        BY <2>2 DEF Queued
      <3>2. i - 1 \in DOMAIN queue' /\ queue'[i - 1] = x
        BY <2>2, <3>1, KillProcessFacts
      <3>. QED BY <3>2
    <2>3. CASE ~ Queued(x)
      <3>1. hit \subseteq hit' /\ (success' => success)
        BY KillProcessFacts
      <3>. QED BY <1>1, <2>3, <3>1 DEF KillInv
    <2>. QED BY <2>1, <2>2, <2>3
  <1>. QED BY <1>2, <1>3, <1>4, KillProcessFacts DEF KillInv, Queued, Identity

LEMMA DisturbedKills ==
  ASSUME IInv, NEW p \in Pids,
         Changes(p) \/ \E n \in Names, u \in 0..MaxUse : Spawn(p, n, u)
  PROVE  KillInv' /\ WholeProgram' /\ ReportTrue'
  <1>1. UNCHANGED <<phase, programs, typed, queue, hit, success>>
    BY NotReborn
  <1>2. Targets' = Targets
    BY <1>1 DEF Targets
  <1>3. \A x \in Targets : proc'[x.pid].born = x.born => proc[x.pid].born = x.born
    <2>. TAKE x \in Targets
    <2>1. x.pid \in Pids /\ x.born # 0 /\ x.born <= births
      BY TargetFacts
    <2>. QED BY <2>1, NotReborn
  <1>4. KillInv /\ WholeProgram /\ ReportTrue
    BY DEF IInv
  <1>. QED BY <1>1, <1>2, <1>3, <1>4 DEF KillInv, WholeProgram, ReportTrue, Queued, Identity

LEMMA RejectKills ==
  ASSUME IInv, Reject
  PROVE  WholeProgram' /\ ReportTrue'
  <1>1. Targets' = Targets /\ success' = FALSE /\ ~ Found
    BY DEF Reject, listing, Targets
  <1>2. Targets = {}
    <2>. SUFFICES ASSUME NEW x \in Targets PROVE Found
      BY <1>1
    <2>1. /\ Len(typed) = 1 /\ DOMAIN typed = {1} /\ typed # <<>> /\ typed[1] <= MaxSize
          /\ typed[1] < Len(programs)
      BY TargetFacts DEF Targets
    <2>. QED BY <2>1 DEF Found
  <1>. QED BY <1>1, <1>2 DEF WholeProgram, ReportTrue

LEMMA KillItselfKills ==
  ASSUME IInv, KillItself
  PROVE  WholeProgram' /\ ReportTrue'
  <1>1. Targets' = Targets /\ success' = FALSE
    BY DEF KillItself, listing, Targets
  <1>2. ASSUME \A x \in Targets : x.name # Own, Targets # {} PROVE FALSE
    <2>1. queue \in Seq(Sample) /\ queue # <<>>
      BY DEF IInv, TypeInv, KillItself
    <2>2. Head(queue) = queue[1] /\ 1 \in DOMAIN queue
      BY <2>1
    <2>3. PICK y \in Targets : TRUE
      BY <1>2
    <2>4. Len(typed) = 1
      BY <2>3, TargetFacts
    <2>5. queue[1] \in Targets
      BY <2>2, <2>4 DEF IInv, KillInv, KillItself
    <2>6. queue[1].pid = own
      BY <2>2 DEF KillItself
    <2>. QED BY <1>2, <2>5, <2>6, TargetFacts
  <1>. QED BY <1>1, <1>2 DEF WholeProgram, ReportTrue

LEMMA ReportKills ==
  ASSUME IInv, Report
  PROVE  WholeProgram' /\ ReportTrue'
  <1>1. /\ Targets' = Targets /\ success' = success /\ hit' = hit /\ phase = "kill"
        /\ queue = <<>> /\ proc' = [proc EXCEPT ![own] = Free]
    BY DEF Report, listing, signals, Targets, Exit
  <1>2. \A x \in Targets : ~ Queued(x)
    BY <1>1 DEF Queued
  <1>3. \A x \in Targets : /\ proc[x.pid].born = x.born => Identity(x) \in hit
                           /\ success => \E y \in hit : y[1] = x.pid
    BY <1>1, <1>2 DEF IInv, KillInv
  <1>4. \A x \in Targets : proc'[x.pid].born = x.born => proc[x.pid].born = x.born
    <2>. TAKE x \in Targets
    <2>1. x.pid \in Pids /\ x.born # 0
      BY TargetFacts
    <2>2. proc'[x.pid] = proc[x.pid] \/ proc'[x.pid].born = 0
      BY <1>1, <2>1 DEF IInv, TypeInv, Free
    <2>. QED BY <2>1, <2>2
  <1>. QED BY <1>1, <1>3, <1>4 DEF WholeProgram, ReportTrue, Identity

LEMMA KillInit == Init => KillInv /\ WholeProgram /\ ReportTrue
  BY DEF Init, KillInv, WholeProgram, ReportTrue

LEMMA KillStep == IInv /\ [Next]_vars => KillInv' /\ WholeProgram' /\ ReportTrue'
  <1>. SUFFICES ASSUME IInv, [Next]_vars PROVE KillInv' /\ WholeProgram' /\ ReportTrue'
    OBVIOUS
  <1>a. ASSUME phase' \notin {"kill", "done"}
        PROVE  KillInv' /\ WholeProgram' /\ ReportTrue'
    BY <1>a DEF KillInv, WholeProgram, ReportTrue
  <1>b. ASSUME phase' = "done"
        PROVE  KillInv'
    BY <1>b DEF KillInv
  <1>c. ASSUME phase' = "kill"
        PROVE  WholeProgram' /\ ReportTrue'
    BY <1>c DEF WholeProgram, ReportTrue
  <1>1. CASE \E p \in Pids, range \in Ranges : RunList(p, range)
    BY <1>1, <1>a DEF RunList, Fork
  <1>2. CASE \E p \in Pids, id \in Ids : RunKill(p, id)
    BY <1>2, <1>a DEF RunKill, Fork
  <1>3. CASE ListPids
    BY <1>3, <1>a DEF ListPids
  <1>4. CASE \E p \in Pids : ReadAgain(p)
    BY <1>4, <1>a DEF ReadAgain
  <1>5. CASE Sort
    BY <1>5, <1>a DEF Sort
  <1>6. CASE PrintProcessListing
    BY <1>6, <1>a DEF PrintProcessListing
  <1>7. CASE Reject
    BY <1>7, <1>b, RejectKills DEF Reject
  <1>8. CASE LookUp
    BY <1>8, <1>c, LookUpKills DEF LookUp
  <1>9. CASE KillProcess
    BY <1>9, <1>c, KillProcessKills DEF KillProcess
  <1>10. CASE KillItself
    BY <1>10, <1>b, KillItselfKills DEF KillItself
  <1>11. CASE Report
    BY <1>11, <1>b, ReportKills DEF Report
  <1>12. CASE \E p \in Pids : End(p)
    BY <1>12, EndChanges, DisturbedKills
  <1>13. CASE \E p \in Pids : EndOfSignalled(p)
    BY <1>13, SignalledChanges, DisturbedKills
  <1>14. CASE \E p \in Pids, n \in Names, u \in 0..MaxUse : Spawn(p, n, u)
    BY <1>14, DisturbedKills
  <1>15. CASE \E p \in Pids, u \in 0..MaxUse : UseChanges(p, u)
    BY <1>15, UseChangesChanges, DisturbedKills
  <1>16. CASE UNCHANGED vars
    BY <1>16 DEF IInv, KillInv, WholeProgram, ReportTrue, Targets, Queued, Identity, vars
  <1>. QED BY <1>1, <1>2, <1>3, <1>4, <1>5, <1>6, <1>7, <1>8, <1>9, <1>10, <1>11,
              <1>12, <1>13, <1>14, <1>15, <1>16, Steps

LEMMA Inductive == Spec => []IInv
  <1>1. Init => IInv
    BY TypeInit, CommandInit, SampleInit, ProgramsInit, KillInit DEF IInv
  <1>2. IInv /\ [Next]_vars => IInv'
    BY TypeStep, CommandStep, SampleStep, ProgramsStep, KillStep DEF IInv
  <1>. QED BY <1>1, <1>2, PTL DEF Spec

\* The variables keep their types, however many processes come and go: among
\* them, no program is empty, and every queued sample is one that was taken.
THEOREM TypeCorrect == Spec => []TypeOK
  <1>1. IInv => TypeOK
    <2>. SUFFICES ASSUME IInv PROVE TypeOK
      OBVIOUS
    <2>1. \A i \in DOMAIN programs : programs[i] # {} /\ programs[i] \subseteq Sample
      BY ProgramFinite DEF IInv
    <2>. QED BY <2>1 DEF IInv, TypeInv, TypeOK
  <1>. QED BY <1>1, Inductive, PTL

\* collect_programs lists every process that lives through both of its samples
\* in one program and no more, whatever is born, ends or takes a pid meanwhile.
THEOREM ListingComplete == Spec => []ListsEveryone
  <1>1. IInv => ListsEveryone
    <2>. SUFFICES ASSUME IInv, phase \in {"print", "look_up"},
                         NEW p \in Pids, Alive(p), proc[p].born = first[p]
                  PROVE  Cardinality({i \in DOMAIN programs :
                           \E x \in programs[i] : Identity(x) = <<p, proc[p].born>>}) = 1
      BY DEF ListsEveryone
    <2>. DEFINE places == {i \in DOMAIN programs :
                             \E x \in programs[i] : Identity(x) = <<p, proc[p].born>>}
    <2>1. PICK i \in DOMAIN programs : \E x \in programs[i] : Identity(x) = <<p, proc[p].born>>
      BY DEF IInv, ProgramsInv
    <2>2. \A j \in places : j = i
      BY <2>1 DEF IInv, ProgramsInv, Identity
    <2>3. places = {i}
      BY <2>1, <2>2
    <2>. QED BY <2>3, FS_Singleton
  <1>. QED BY <1>1, Inductive, PTL

\* `p -k` on a program leaves none of its processes alone that still lives,
\* whichever others have gone before their turn.
THEOREM WholeProgramSignalled == Spec => []WholeProgram
  BY Inductive, PTL DEF IInv

\* A program is reported terminated only if every pid of it took the signal.
THEOREM ReportIsTrue == Spec => []ReportTrue
  BY Inductive, PTL DEF IInv

-----------------------------------------------------------------------------
(* The calm machine: what p -k finds is what the listing showed.           *)

LEMMA RunningFacts ==
  ASSUME TypeInv
  PROVE  /\ Running \subseteq Sample /\ Running \subseteq AnySample /\ OnePerPid(Running)
         /\ \A x \in Running : /\ x.pid \in Pids /\ Alive(x.pid) /\ x.born = proc[x.pid].born
                               /\ x.name = proc[x.pid].name
         /\ \A p \in Pids : Alive(p) =>
              [pid |-> p, born |-> proc[p].born, name |-> proc[p].name, cpu |-> proc[p].use] \in Running
  <1>1. \A p \in Pids : /\ proc[p].born \in 0..births /\ proc[p].name \in Names
                        /\ proc[p].use \in 0..MaxUse
    BY DEF TypeInv
  <1>2. births \in Nat
    BY DEF TypeInv
  <1>3. \A p \in Pids : Alive(p) =>
          [pid |-> p, born |-> proc[p].born, name |-> proc[p].name, cpu |-> proc[p].use] \in Sample
    BY <1>1, <1>2 DEF Alive, Sample
  <1>4. Running \subseteq Sample
    BY <1>3 DEF Running
  <1>5. Running \subseteq AnySample
    BY <1>4, SampleIsAny
  <1>. QED BY <1>4, <1>5 DEF Running, OnePerPid

\* An order of a program on a calm machine: see Enumeration.
LEMMA OrdersFacts ==
  ASSUME NEW P, IsFiniteSet(P), NEW order \in Orders(P)
  PROVE  /\ Cardinality(P) \in Nat
         /\ DOMAIN order = 1..Cardinality(P)
         /\ \A m \in DOMAIN order : order[m] \in P
  <1>1. order \in SetToSeqs(P)
    BY DEF Orders, Sorted
  <1>. QED BY <1>1, Enumeration

\* What bettercpu's processes used in a listing whose command has ended.
LEMMA OwnUseFacts ==
  ASSUME TypeInv, NEW o \in Itself, ~ Alive(o.pid), o.pid \in Pids,
         OnePerPid(Running \cup {o}), programs \in Listings(Running \cup {o}),
         programs \in Seq((SUBSET Sample) \ {{}})
  PROVE  OwnUse = Total({x \in Running : x.name = Own})
  <1>. DEFINE A == Running \cup {o}
  <1>1. A \subseteq AnySample
    BY RunningFacts DEF Itself
  <1>2. IsFiniteSet(ByName(A)) /\ programs \in SetToSeqs(ByName(A))
    BY <1>1, ProgramsFinite DEF Listings, Sorted
  <1>3. /\ \A n \in DOMAIN programs : programs[n] \in ByName(A)
        /\ \A P \in ByName(A) : \E n \in DOMAIN programs : programs[n] = P
    BY <1>2, Enumeration
  <1>4. DOMAIN programs = 1..Len(programs)
    OBVIOUS
  <1>5. \A P \in ByName(A) : P \subseteq A
    BY DEF ByName
  <1>6. ASSUME NEW x \in A PROVE \E P \in ByName(A) : x \in P
    <2>. DEFINE P == {y \in A : y.name = x.name}
    <2>1. P \in ByName(A) /\ x \in P
      BY DEF ByName
    <2>. QED BY <2>1
  <1>. HIDE DEF A
  <1>7. UNION {programs[n] : n \in 1..Len(programs)} = A
    BY <1>3, <1>4, <1>5, <1>6
  <1>8. o.born # 0 /\ proc[o.pid].born = 0
    BY DEF Itself, AnySample, Alive
  <1>9. \A x \in Running : proc[x.pid].born = x.born
    BY RunningFacts
  <1>10. {x \in A : x.name = Own /\ proc[x.pid].born = x.born} = {x \in Running : x.name = Own}
    BY <1>8, <1>9 DEF A
  <1>. QED BY <1>7, <1>10 DEF OwnUse

\* What the id names when p -k is run, it names in whatever p -k lists.
LEMMA RunKillForesees ==
  ASSUME IInv, CalmInv, calm, NEW p \in Pids, NEW id \in Ids, RunKill(p, id), sure', TypeInv'
  PROVE  Foreseen' /\ \A x \in aim' : x.name # Own
  <1>1. Fork(p) /\ typed' = id /\ phase = "idle"
    BY DEF RunKill, Fork
  <1>2. id # <<>> /\ id[1] \in DOMAIN listed
    BY DEF RunKill
  <1>3. id[1] + 1 \in DOMAIN programs /\ listed[id[1]] = programs[id[1] + 1] /\ programs # <<>>
    <2>1. id[1] + 1 \in DOMAIN programs /\ listed[id[1]] = programs[id[1] + 1]
      BY <1>1, <1>2 DEF IInv, ProgramsInv
    <2>2. DOMAIN <<>> = {}
      OBVIOUS
    <2>. QED BY <2>1, <2>2
  <1>4. PICK o \in Sample : o \in Itself /\ ~ Alive(o.pid) /\ programs \in Listings(Running \cup {o})
    BY <1>1, <1>3 DEF CalmInv
  <1>u. PICK u \in 0..MaxUse : proc' = [proc EXCEPT ![p] = [born |-> births + 1, name |-> Own, use |-> u]]
    BY <1>1 DEF Fork
  <1>. DEFINE k == id[1] + 1
              G == programs[k]
              b == [pid |-> p, born |-> births + 1, name |-> Own, cpu |-> u]
  <1>5. PICK shown \in SetToSeqs(G) :
          /\ shown \in Orders(G)
          /\ aim' = IF Len(id) = 1 THEN G
                    ELSE {shown[m] : m \in {id[2] + 1} \cap DOMAIN shown}
          /\ \A n \in 1..Len(programs) : Total(programs[n]) = Total(G) => programs[n] = G
          /\ Total(G) \notin OwnUse..(OwnUse + MaxUse)
          /\ Len(id) = 2 => \A x, y \in G : x.cpu = y.cpu => x = y
    <2>1. PICK shown \in Orders(listed[id[1]]) :
              /\ aim' = IF Len(id) = 1 THEN listed[id[1]]
                        ELSE {shown[m] : m \in {id[2] + 1} \cap DOMAIN shown}
              /\ sure' = /\ Untied(listed[id[1]])
                         /\ Len(id) = 2 => \A x, y \in listed[id[1]] : x.cpu = y.cpu => x = y
      BY <1>2 DEF RunKill, Orders, Sorted
    <2>2. shown \in SetToSeqs(listed[id[1]])
      BY DEF Orders, Sorted
    <2>3. Untied(G) /\ (Len(id) = 2 => \A x, y \in G : x.cpu = y.cpu => x = y)
      BY <1>3, <2>1
    <2>. HIDE DEF G
    <2>4. listed[id[1]] = G
      BY <1>3 DEF G
    <2>. QED BY <2>1, <2>2, <2>3, <2>4 DEF Untied
  <1>6. births \in Nat /\ births' = births + 1 /\ proc \in [Pids -> [born : 0..births, name : Names, use : 0..MaxUse]]
    BY <1>1 DEF IInv, TypeInv, Fork
  <1>7. b \in Itself /\ b.pid = p /\ b.name = Own
    BY <1>6, ListAssumption DEF Itself, AnySample
  <1>8. Running' = Running \cup {b}
    <2>1. ~ Alive(p)
      BY <1>1 DEF Fork
    <2>2. {q \in Pids : proc'[q].born # 0} = {q \in Pids : Alive(q)} \cup {p}
      BY <1>6, <1>u, <2>1 DEF Alive
    <2>3. \A q \in Pids : Alive(q) => proc'[q] = proc[q]
      BY <1>6, <1>u, <2>1
    <2>4. proc'[p] = [born |-> births + 1, name |-> Own, use |-> u]
      BY <1>6, <1>u
    <2>. QED BY <2>2, <2>3, <2>4 DEF Running, Alive
  <1>9. /\ Running \subseteq AnySample /\ OnePerPid(Running)
        /\ \A x \in Running : x.pid \in Pids /\ Alive(x.pid)
    BY RunningFacts DEF IInv
  <1>10. /\ o \notin Running /\ b \notin Running
         /\ OnePerPid(Running \cup {o}) /\ OnePerPid(Running \cup {b})
    <2>1. ~ Alive(p)
      BY <1>1 DEF Fork
    <2>2. \A x \in Running : x.pid # o.pid /\ x.pid # b.pid
      BY <1>4, <1>7, <1>9, <2>1
    <2>. QED BY <1>9, <2>2 DEF OnePerPid
  <1>t. Twins(Running, o, b, Running \cup {o}, Running \cup {b})
    BY <1>4, <1>7, <1>9, <1>10 DEF Twins
  <1>. HIDE DEF b, G
  <1>s. Total(G) \notin OwnTotals(Running)
    <2>1. programs \in Seq((SUBSET Sample) \ {{}}) /\ o.pid \in Pids
      BY DEF IInv, TypeInv, Sample
    <2>2. OwnUse = Total({x \in Running : x.name = Own})
      BY <1>4, <1>10, <2>1, OwnUseFacts DEF IInv
    <2>. QED BY <1>5, <2>2 DEF OwnTotals
  <1>11. ASSUME NEW Q \in Listings(Running')
         PROVE  k \in DOMAIN Q /\ Q[k] = G /\ \A x \in G : x.name # Own
    <2>3. \A n \in DOMAIN programs : Total(programs[n]) = Total(programs[k]) => programs[n] = programs[k]
      <3>1. DOMAIN programs = 1..Len(programs)
        BY DEF IInv, TypeInv
      <3>. QED BY <1>5, <3>1 DEF G
    <2>4. Total(programs[k]) \notin OwnTotals(Running)
      BY <1>s DEF G
    <2>5. programs \in Listings(Running \cup {o}) /\ Q \in Listings(Running \cup {b}) /\ k \in DOMAIN programs
      BY <1>3, <1>4, <1>8
    <2>. HIDE DEF k
    <2>6. k \in DOMAIN Q /\ Q[k] = programs[k] /\ \A x \in programs[k] : x.name # Own
      BY <1>t, <2>3, <2>4, <2>5, SamePlace
    <2>. QED BY <2>6 DEF G
  <1>12. IsFiniteSet(G) /\ G \subseteq AnySample /\ G \in ByName(Running \cup {o})
    <2>1. G \subseteq AnySample /\ IsFiniteSet(G)
      BY <1>3, ProgramFinite DEF IInv, G
    <2>2. programs \in SetToSeqs(ByName(Running \cup {o}))
      BY <1>4 DEF Listings, Sorted
    <2>3. Running \cup {o} \subseteq AnySample
      BY <1>4, <1>9 DEF Itself
    <2>4. IsFiniteSet(ByName(Running \cup {o}))
      BY <1>10, <2>3, ProgramsFinite
    <2>5. G \in ByName(Running \cup {o})
      BY <1>3, <2>2, <2>4, Enumeration DEF G
    <2>. QED BY <2>1, <2>5
  <1>13. \A x \in aim' : x.name # Own
    <2>1. \A x \in G : x.name # Own
      <3>1. /\ Swap(G, o, b) \in ByName(Running \cup {b})
            /\ (\A x \in G : x.name # Own) \/ Total(G) \in OwnTotals(Running)
        BY <1>12, <1>t, SwapProgram
      <3>. QED BY <1>s, <3>1
    <2>2. \A m \in DOMAIN shown : shown[m] \in G
      BY <1>12, Enumeration
    <2>. QED BY <1>5, <2>1, <2>2
  <1>15. Len(id) \in {1, 2} /\ (Len(id) = 2 => id[2] \in Nat)
    <2>1. (\E n \in Numbers : id = <<n>>) \/ (\E n, m \in Numbers : id = <<n, m>>)
      BY <1>2 DEF Ids
    <2>. QED BY <2>1, ListAssumption
  <1>16. Cardinality(G) \in Nat /\ DOMAIN shown = 1..Cardinality(G)
    BY <1>12, Enumeration
  <1>17. ASSUME NEW Q \in Listings(Running'), Len(id) = 1
         PROVE  aim' = Q[k]
    BY <1>5, <1>11, <1>17
  <1>18. ASSUME NEW Q \in Listings(Running'), Len(id) = 2
         PROVE  /\ id[2] >= Cardinality(Q[k]) => aim' = {}
                /\ \A order \in Orders(Q[k]) :
                     aim' = {order[m] : m \in {id[2] + 1} \cap DOMAIN order}
    <2>1. aim' = {shown[m] : m \in {id[2] + 1} \cap DOMAIN shown} /\ Q[k] = G
      BY <1>5, <1>11, <1>18
    <2>3. id[2] >= Cardinality(Q[k]) => aim' = {}
      BY <1>15, <1>16, <1>18, <2>1
    <2>4. ASSUME NEW order \in Orders(Q[k])
          PROVE  aim' = {order[m] : m \in {id[2] + 1} \cap DOMAIN order}
      <3>1. order \in Sorted(G, Cpu) /\ shown \in Sorted(G, Cpu)
        BY <1>5, <2>1, <2>4 DEF Orders
      <3>2. DOMAIN order = 1..Cardinality(G)
        BY <1>12, <2>1, <2>4, OrdersFacts
      <3>3. \A x, y \in G : x.cpu = y.cpu => x = y
        BY <1>5, <1>18
      <3>4. DOMAIN order = DOMAIN shown
        BY <1>16, <3>2
      <3>5. ASSUME NEW m \in DOMAIN shown PROVE order[m] = shown[m]
        BY <1>12, <3>1, <3>3, <3>5, OneOrder
      <3>. QED BY <2>1, <3>4, <3>5
    <2>. QED BY <2>3, <2>4
  <1>. QED BY <1>1, <1>2, <1>11, <1>13, <1>17, <1>18 DEF Foreseen

LEMMA CalmInit == Init => CalmIInv
  <1>. SUFFICES ASSUME Init PROVE CalmIInv
    OBVIOUS
  <1>1. phase = "idle" /\ programs = <<>> /\ sure = FALSE
    BY DEF Init
  <1>. QED BY <1>1 DEF CalmIInv, CalmInv, AimInv, Settled, KillsWhatWasListed

\* Nothing that is said of a calm machine outlives an event.
LEMMA EventEndsCalm ==
  ASSUME calm' = FALSE
  PROVE  CalmIInv'
  BY DEF CalmIInv, CalmInv, AimInv, Settled, KillsWhatWasListed

\* The sampling and the lookup leave what is foreseen as it is.
LEMMA ForeseenKept ==
  ASSUME IInv, CalmIInv, UNCHANGED <<proc, calm, sure, typed, aim, hit>>,
         phase \in {"list_pids", "read"}, phase' \in {"read", "look_up", "print"}
  PROVE  AimInv' /\ KillsWhatWasListed'
  <1>1. Running' = Running
    BY DEF Running, Alive
  <1>2. Settled' => Settled
    BY DEF Settled
  <1>3. Settled' => Foreseen /\ \A x \in aim : x.name # Own
    BY <1>2 DEF CalmIInv, AimInv
  <1>4. Foreseen => Foreseen'
    BY <1>1 DEF Foreseen
  <1>5. hit = {}
    BY DEF IInv, CommandInv
  <1>. QED BY <1>3, <1>4, <1>5 DEF AimInv, KillsWhatWasListed

LEMMA ListPidsCalm ==
  ASSUME IInv, CalmIInv, ListPids
  PROVE  CalmIInv'
  <1>1. /\ UNCHANGED <<proc, calm, sure, typed, aim, hit>> /\ phase = "list_pids" /\ phase' = "read"
        /\ samples' = {} /\ todo' = {p \in Pids : Alive(p)}
        /\ first' = [p \in Pids |-> proc[p].born]
    BY DEF ListPids, ReadProcessTimes, world, listing, signals
  <1>2. Running' = Running
    BY <1>1 DEF Running, Alive
  <1>3. {x \in Running : x.pid \notin todo'} = {}
    BY <1>1, RunningFacts DEF IInv
  <1>4. CalmInv'
    BY <1>1, <1>2, <1>3 DEF CalmInv
  <1>. QED BY <1>1, <1>4, ForeseenKept DEF CalmIInv

LEMMA ReadAgainCalm ==
  ASSUME IInv, CalmIInv, NEW p \in Pids, ReadAgain(p)
  PROVE  CalmIInv'
  <1>1. /\ phase = "read" /\ phase' = "read" /\ UNCHANGED <<proc, calm, sure, typed, aim, hit, first>>
        /\ p \in todo /\ todo' = todo \ {p}
    BY ReadAgainAdds
  <1>2. Running' = Running
    BY <1>1 DEF Running, Alive
  <1>3. ASSUME calm
        PROVE  samples' = {x \in Running : x.pid \notin todo'}
    <2>1. proc[p].born = first[p] /\ samples = {x \in Running : x.pid \notin todo}
      BY <1>1, <1>3 DEF CalmIInv, CalmInv
    <2>2. PICK x \in AnySample :
                 /\ samples' = samples \cup {x}
                 /\ Alive(p) /\ x.pid = p /\ x.born = proc[p].born /\ x.name = proc[p].name
                 /\ x.cpu = proc[p].use
      BY <2>1, ReadAgainAdds
    <2>3. x = [pid |-> p, born |-> proc[p].born, name |-> proc[p].name, cpu |-> proc[p].use]
      BY <2>2 DEF AnySample
    <2>4. x \in Running /\ x.pid = p
      BY <2>2, <2>3, RunningFacts DEF IInv
    <2>5. \A y \in Running : y.pid = p => y = x
      BY <2>4, RunningFacts DEF IInv, OnePerPid
    <2>. QED BY <1>1, <2>1, <2>2, <2>4, <2>5
  <1>4. CalmInv'
    BY <1>1, <1>2, <1>3 DEF CalmIInv, CalmInv
  <1>. QED BY <1>1, <1>4, ForeseenKept DEF CalmIInv

LEMMA SortCalm ==
  ASSUME IInv, CalmIInv, Sort
  PROVE  CalmIInv'
  <1>1. /\ phase = "read" /\ phase' \in {"print", "look_up"}
        /\ UNCHANGED <<proc, calm, sure, typed, aim, hit>> /\ todo = {}
    BY DEF Sort, world, listing, signals
  <1>2. Running' = Running
    BY <1>1 DEF Running, Alive
  <1>3. ASSUME calm
        PROVE  programs' \in Listings(Running)
    <2>1. samples = Running
      BY <1>1, <1>3 DEF CalmIInv, CalmInv
    <2>2. programs' \in Sorted(ByName(samples), Total)
      BY SortFacts
    <2>3. programs' \in Listings(samples)
      BY <2>2 DEF Listings
    <2>. QED BY <2>1, <2>3
  <1>4. CalmInv'
    BY <1>1, <1>2, <1>3 DEF CalmInv
  <1>. QED BY <1>1, <1>4, ForeseenKept DEF CalmIInv

\* When p has ended, its own process is the one that was listed and is gone.
LEMMA PrintCalm ==
  ASSUME IInv, CalmIInv, PrintProcessListing, TypeInv'
  PROVE  CalmIInv'
  <1>1. /\ phase = "print" /\ phase' = "idle" /\ own \in Pids /\ Exit
        /\ UNCHANGED <<births, calm, programs, aim, sure, hit>>
    BY OwnIsAPid DEF PrintProcessListing, signals, IInv
  <1>2. ~ sure
    BY <1>1 DEF IInv, CommandInv, TypeInv
  <1>. DEFINE o == [pid |-> own, born |-> proc[own].born, name |-> proc[own].name, cpu |-> proc[own].use]
  <1>3. Alive(own) /\ proc[own].name = Own
    BY <1>1 DEF IInv, CommandInv
  <1>4. o \in Running /\ o \in Sample /\ o \in AnySample
    BY <1>1, <1>3, RunningFacts DEF IInv
  <1>5. o \in Itself /\ o.pid = own
    BY <1>3, <1>4 DEF Itself
  <1>6. proc \in [Pids -> [born : 0..births, name : Names, use : 0..MaxUse]] /\ proc' = [proc EXCEPT ![own] = Free]
    BY <1>1 DEF IInv, TypeInv, Exit
  <1>7. /\ proc'[own].born = 0
        /\ \A q \in Pids : q # own => proc'[q] = proc[q]
    BY <1>1, <1>6 DEF Free
  <1>8. Running = Running' \cup {o}
    <2>1. \A x \in Running : x = [pid |-> x.pid, born |-> proc[x.pid].born,
                                  name |-> proc[x.pid].name, cpu |-> proc[x.pid].use]
                             /\ x.pid \in Pids /\ Alive(x.pid)
      BY DEF Running
    <2>2. \A x \in Running' : x = [pid |-> x.pid, born |-> proc'[x.pid].born,
                                   name |-> proc'[x.pid].name, cpu |-> proc'[x.pid].use]
                              /\ x.pid \in Pids /\ proc'[x.pid].born # 0
      BY DEF Running, Alive
    <2>3. \A q \in Pids : proc'[q].born # 0 =>
            [pid |-> q, born |-> proc'[q].born, name |-> proc'[q].name, cpu |-> proc'[q].use] \in Running'
      BY DEF Running, Alive
    <2>4. ASSUME NEW x \in Running, x # o PROVE x \in Running'
      <3>1. x.pid # own
        BY <2>1, <2>4
      <3>2. x.pid \in Pids /\ proc'[x.pid] = proc[x.pid] /\ proc'[x.pid].born # 0
        BY <1>7, <2>1, <3>1 DEF Alive
      <3>. QED BY <2>1, <2>3, <3>2
    <2>5. ASSUME NEW x \in Running' PROVE x \in Running
      <3>1. x.pid \in Pids /\ x.pid # own
        BY <1>7, <2>2
      <3>2. proc'[x.pid] = proc[x.pid] /\ Alive(x.pid)
        BY <1>7, <2>2, <3>1 DEF Alive
      <3>. QED BY <2>2, <3>1, <3>2, RunningFacts DEF IInv
    <2>. QED BY <1>4, <2>4, <2>5
  <1>9. o \in Sample'
    BY <1>1, <1>4 DEF Sample
  <1>10. calm => programs \in Listings(Running' \cup {o})
    BY <1>1, <1>8 DEF CalmIInv, CalmInv
  <1>. HIDE DEF o
  <1>11. CalmInv'
    BY <1>1, <1>5, <1>9, <1>10, <1>7 DEF CalmInv, Alive
  <1>. QED BY <1>1, <1>2, <1>11 DEF CalmIInv, AimInv, Settled, KillsWhatWasListed

LEMMA RunListCalm ==
  ASSUME IInv, NEW p \in Pids, NEW range \in Ranges, RunList(p, range)
  PROVE  CalmIInv'
  <1>1. phase = "idle" /\ phase' = "list_pids" /\ sure' = sure
    BY DEF RunList, Fork
  <1>2. ~ sure
    BY <1>1 DEF IInv, CommandInv, TypeInv
  <1>. QED BY <1>1, <1>2 DEF CalmIInv, CalmInv, AimInv, Settled, KillsWhatWasListed

LEMMA RunKillCalm ==
  ASSUME IInv, CalmIInv, NEW p \in Pids, NEW id \in Ids, RunKill(p, id), TypeInv'
  PROVE  CalmIInv'
  <1>1. /\ phase = "idle" /\ phase' = "list_pids" /\ calm' = calm /\ hit' = hit
    BY DEF RunKill, Fork, signals
  <1>2. hit = {}
    BY <1>1 DEF IInv, CommandInv
  <1>3. Settled' => Foreseen' /\ \A x \in aim' : x.name # Own
    BY <1>1, RunKillForesees DEF CalmIInv, Settled
  <1>. QED BY <1>1, <1>2, <1>3 DEF CalmIInv, CalmInv, AimInv, KillsWhatWasListed

\* An id is refused on a calm machine only if it named nothing before.
LEMMA RejectCalm ==
  ASSUME IInv, CalmIInv, Reject
  PROVE  CalmIInv'
  <1>1. /\ phase = "look_up" /\ phase' = "done" /\ ~ Found
        /\ UNCHANGED <<calm, sure, aim, hit>>
    BY DEF Reject, listing
  <1>2. hit = {}
    BY <1>1 DEF IInv, CommandInv
  <1>3. ASSUME Settled, aim # {}
        PROVE  FALSE
    <2>1. Foreseen /\ programs \in Listings(Running)
      BY <1>1, <1>3 DEF CalmIInv, CalmInv, AimInv, Settled
    <2>2. /\ typed # <<>> /\ typed[1] + 1 \in DOMAIN programs
          /\ Len(typed) = 2 => ~ (typed[2] >= Cardinality(programs[typed[1] + 1]))
      BY <1>3, <2>1 DEF Foreseen
    <2>3. typed \in Ids
      BY DEF IInv, TypeInv
    <2>4. (\E n \in Numbers : typed = <<n>>) \/ (\E n, m \in Numbers : typed = <<n, m>>)
      BY <2>2, <2>3 DEF Ids
    <2>5. Len(programs) \in Nat /\ DOMAIN programs = 1..Len(programs) /\ Len(programs) <= MaxSize + 1
      BY DEF IInv, TypeInv, ProgramsInv
    <2>6. typed[1] \in Nat /\ typed[1] < Len(programs) /\ typed[1] <= MaxSize
      BY <2>2, <2>4, <2>5, ListAssumption
    <2>7. IsFiniteSet(programs[typed[1] + 1]) /\ OnePerPid(programs[typed[1] + 1])
          /\ programs[typed[1] + 1] \subseteq AnySample
      BY <2>2, ProgramFinite DEF IInv
    <2>8. /\ Cardinality(programs[typed[1] + 1]) \in Nat
          /\ Cardinality(programs[typed[1] + 1]) <= Cardinality(Pids)
          /\ Cardinality(Pids) \in Nat
      BY <2>7, FiniteSamples, FS_CardinalityType, ListAssumption
    <2>9. Cardinality(programs[typed[1] + 1]) <= MaxSize + 1
      BY <2>8, ListAssumption
    <2>10. CASE \E n \in Numbers : typed = <<n>>
      <3>1. DOMAIN typed = {1} /\ Len(typed) = 1
        BY <2>10
      <3>. QED BY <1>1, <2>2, <2>6, <3>1 DEF Found
    <2>11. CASE \E n, m \in Numbers : typed = <<n, m>>
      <3>1. DOMAIN typed = {1, 2} /\ Len(typed) = 2 /\ typed[2] \in Nat
        BY <2>11, ListAssumption
      <3>2. typed[2] < Cardinality(programs[typed[1] + 1])
        BY <2>2, <2>8, <3>1
      <3>3. typed[2] <= MaxSize
        BY <2>8, <2>9, <3>1, <3>2, ListAssumption
      <3>. QED BY <1>1, <2>2, <2>6, <3>1, <3>2, <3>3 DEF Found
    <2>. QED BY <2>4, <2>10, <2>11
  <1>4. Settled' => Settled
    BY <1>1 DEF Settled
  <1>. QED BY <1>1, <1>2, <1>3, <1>4 DEF CalmIInv, CalmInv, AimInv, Settled, KillsWhatWasListed

LEMMA LookUpCalm ==
  ASSUME IInv, CalmIInv, LookUp
  PROVE  CalmIInv'
  <1>1. /\ phase = "look_up" /\ phase' = "kill"
        /\ UNCHANGED <<proc, own, calm, sure, aim, hit>>
    BY DEF LookUp, world, listing, signals
  <1>2. hit = {}
    BY <1>1 DEF IInv, CommandInv
  <1>3. ASSUME Settled
        PROVE  /\ \A i \in DOMAIN queue' : queue'[i] \in aim
               /\ \A i, j \in DOMAIN queue' : queue'[i].pid = queue'[j].pid => i = j
               /\ \A x \in aim : \E i \in DOMAIN queue' : queue'[i] = x
               /\ \A x \in aim : \E i \in DOMAIN programs : x \in programs[i]
    <2>1. Foreseen /\ programs \in Listings(Running)
      BY <1>1, <1>3 DEF CalmIInv, CalmInv, AimInv, Settled
    <2>2. typed[1] + 1 \in DOMAIN programs /\ Len(typed) \in {1, 2}
      BY FoundPlace DEF LookUp
    <2>3. PICK order \in Sorted(programs[typed[1] + 1], Cpu) :
           /\ Len(typed) = 1 => queue' = order
           /\ Len(typed) = 2 => /\ typed[2] + 1 \in DOMAIN order
                                /\ queue' = <<order[typed[2] + 1]>>
      BY LookUpFacts
    <2>4. /\ \A m \in DOMAIN order : order[m] \in programs[typed[1] + 1]
          /\ \A m, n \in DOMAIN order : order[m].pid = order[n].pid => m = n
          /\ \A x \in programs[typed[1] + 1] : \E m \in DOMAIN order : order[m] = x
      BY <2>2, OrderOf DEF IInv
    <2>5. CASE Len(typed) = 1
      <3>1. aim = programs[typed[1] + 1] /\ queue' = order
        BY <2>1, <2>3, <2>5 DEF Foreseen
      <3>. QED BY <2>2, <2>4, <3>1
    <2>6. CASE Len(typed) = 2
      <3>1. order \in Orders(programs[typed[1] + 1])
        BY DEF Orders
      <3>2. aim = {order[m] : m \in {typed[2] + 1} \cap DOMAIN order}
        BY <2>1, <2>6, <3>1 DEF Foreseen
      <3>3. aim = {order[typed[2] + 1]} /\ order[typed[2] + 1] \in programs[typed[1] + 1]
        BY <2>3, <2>4, <2>6, <3>2
      <3>4. DOMAIN queue' = {1} /\ queue'[1] = order[typed[2] + 1]
        BY <2>3, <2>6
      <3>. QED BY <2>2, <3>3, <3>4
    <2>. QED BY <2>2, <2>5, <2>6
  <1>4. ASSUME Settled, NEW x \in aim
        PROVE  x.pid # own /\ proc[x.pid].born = x.born
    <2>1. PICK i \in DOMAIN programs : x \in programs[i]
      BY <1>3, <1>4
    <2>2. x.pid = own => x.name = Own
      BY <2>1 DEF IInv, ProgramsInv
    <2>3. x.name # Own
      BY <1>4 DEF CalmIInv, AimInv
    <2>4. programs \in SetToSeqs(ByName(Running))
      BY <1>1, <1>4 DEF CalmIInv, CalmInv, Settled, Listings, Sorted
    <2>5. x \in Running
      <3>1. /\ IsFiniteSet(ByName(Running))
            /\ \A P \in ByName(Running) : P \subseteq Running
        BY RunningFacts, ProgramsFinite DEF IInv
      <3>2. programs[i] \in ByName(Running)
        BY <2>4, <3>1, Enumeration
      <3>. QED BY <2>1, <3>1, <3>2
    <2>. QED BY <2>2, <2>3, <2>5, RunningFacts DEF IInv
  <1>5. Settled' => Settled
    BY <1>1 DEF Settled
  <1>6. Settled => \A x \in aim : x.name # Own
    BY DEF CalmIInv, AimInv
  <1>7. AimInv'
    BY <1>1, <1>2, <1>3, <1>4, <1>5, <1>6 DEF AimInv, Queued
  <1>. QED BY <1>1, <1>2, <1>7 DEF CalmIInv, CalmInv, KillsWhatWasListed

LEMMA KillProcessCalm ==
  ASSUME IInv, CalmIInv, KillProcess
  PROVE  CalmIInv'
  <1>1. /\ phase = "kill" /\ phase' = "kill" /\ UNCHANGED <<proc, own, calm, sure, aim>>
    BY KillProcessFacts
  <1>2. CASE ~ Settled
    BY <1>1, <1>2 DEF CalmIInv, CalmInv, AimInv, Settled, KillsWhatWasListed
  <1>3. CASE Settled
    <2>1. /\ \A i \in DOMAIN queue : /\ queue[i] \in aim
                                     /\ queue[i].pid # own
                                     /\ proc[queue[i].pid].born = queue[i].born
                                     /\ Identity(queue[i]) \notin hit
          /\ \A i, j \in DOMAIN queue : queue[i].pid = queue[j].pid => i = j
          /\ \A x \in aim : Queued(x) \/ Identity(x) \in hit
          /\ \A x \in aim : x.name # Own
      BY <1>1, <1>3 DEF CalmIInv, AimInv
    <2>2. hit \subseteq {Identity(x) : x \in aim}
      BY <1>3 DEF CalmIInv, KillsWhatWasListed, Settled
    <2>. DEFINE x == queue[1]
    <2>3. x \in aim /\ x \in Sample /\ proc[x.pid].born = x.born /\ x.born # 0
      <3>1. x \in Sample /\ births \in Nat
        BY KillProcessFacts DEF IInv, TypeInv
      <3>2. x.born # 0
        BY <3>1 DEF Sample
      <3>. QED BY <2>1, <3>1, <3>2, KillProcessFacts
    <2>4. hit' = hit \cup {Identity(x)}
      BY <2>3, KillProcessFacts DEF Alive, Identity
    <2>5. ASSUME NEW i \in DOMAIN queue'
          PROVE  /\ queue'[i] \in aim
                 /\ queue'[i].pid # own
                 /\ proc[queue'[i].pid].born = queue'[i].born
                 /\ Identity(queue'[i]) \notin hit'
      <3>1. i + 1 \in DOMAIN queue /\ queue'[i] = queue[i + 1] /\ i + 1 # 1
        BY <2>5, KillProcessFacts
      <3>2. queue[i + 1].pid # x.pid
        BY <2>1, <3>1, KillProcessFacts
      <3>3. Identity(queue[i + 1]) # Identity(x)
        BY <3>2 DEF Identity
      <3>. QED BY <2>1, <2>4, <3>1, <3>3
    <2>6. \A i, j \in DOMAIN queue' : queue'[i].pid = queue'[j].pid => i = j
      <3>. TAKE i, j \in DOMAIN queue'
      <3>1. /\ i + 1 \in DOMAIN queue /\ queue'[i] = queue[i + 1] /\ i \in Int
            /\ j + 1 \in DOMAIN queue /\ queue'[j] = queue[j + 1] /\ j \in Int
        BY KillProcessFacts
      <3>. QED BY <2>1, <3>1
    <2>7. ASSUME NEW y \in aim
          PROVE  (\E i \in DOMAIN queue' : queue'[i] = y) \/ Identity(y) \in hit'
      <3>1. CASE Identity(y) \in hit
        BY <2>4, <3>1
      <3>2. CASE y = x
        BY <2>4, <3>2
      <3>3. CASE Queued(y) /\ y # x
        <4>1. PICK i \in DOMAIN queue : queue[i] = y
          BY <3>3 DEF Queued
        <4>2. i - 1 \in DOMAIN queue' /\ queue'[i - 1] = y
          BY <3>3, <4>1, KillProcessFacts
        <4>. QED BY <4>2
      <3>. QED BY <2>1, <3>1, <3>2, <3>3
    <2>8. AimInv'
      BY <1>1, <2>1, <2>5, <2>6, <2>7 DEF AimInv, Queued, Identity
    <2>9. hit' \subseteq {Identity(y) : y \in aim}
      BY <2>2, <2>3, <2>4
    <2>10. KillsWhatWasListed'
      BY <1>1, <2>9 DEF KillsWhatWasListed, Identity
    <2>. QED BY <1>1, <2>8, <2>10 DEF CalmIInv, CalmInv
  <1>. QED BY <1>2, <1>3

LEMMA KillItselfCalm ==
  ASSUME IInv, CalmIInv, KillItself
  PROVE  CalmIInv'
  <1>1. /\ phase = "kill" /\ phase' = "done" /\ queue # <<>> /\ Head(queue).pid = own
        /\ UNCHANGED <<calm, sure, aim>>
    BY DEF KillItself, listing
  <1>2. queue \in Seq(Sample)
    BY DEF IInv, TypeInv
  <1>3. 1 \in DOMAIN queue /\ queue[1].pid = own
    BY <1>1, <1>2
  <1>4. ~ Settled
    BY <1>1, <1>3 DEF CalmIInv, AimInv
  <1>. QED BY <1>1, <1>4 DEF CalmIInv, CalmInv, AimInv, Settled, KillsWhatWasListed

LEMMA ReportCalm ==
  ASSUME IInv, CalmIInv, Report
  PROVE  CalmIInv'
  <1>1. /\ phase = "kill" /\ phase' = "done" /\ queue = <<>>
        /\ UNCHANGED <<calm, sure, aim, hit>>
    BY DEF Report, listing, signals
  <1>2. DOMAIN queue = {}
    BY <1>1
  <1>3. Settled => \A x \in aim : Identity(x) \in hit
    BY <1>1, <1>2 DEF CalmIInv, AimInv, Queued
  <1>4. Settled => hit = {Identity(x) : x \in aim}
    BY <1>3 DEF CalmIInv, KillsWhatWasListed, Settled
  <1>5. Settled' => Settled
    BY <1>1 DEF Settled
  <1>6. KillsWhatWasListed'
    BY <1>1, <1>4, <1>5 DEF KillsWhatWasListed, Settled, Identity
  <1>7. AimInv'
    BY <1>1, <1>5 DEF CalmIInv, AimInv
  <1>. QED BY <1>1, <1>6, <1>7 DEF CalmIInv, CalmInv

\* What has been signalled and ends was not waiting for its signal.
LEMMA SignalledCalm ==
  ASSUME IInv, CalmIInv, NEW p \in Pids, EndOfSignalled(p)
  PROVE  CalmIInv'
  <1>1. /\ Changes(p) /\ calm' = calm /\ <<p, proc[p].born>> \in hit
    BY SignalledChanges
  <1>2. /\ UNCHANGED <<own, phase, sure, aim, queue, hit>>
        /\ \A q \in Pids : q # p => proc'[q] = proc[q]
    BY <1>1 DEF Changes
  <1>3. phase \in {"kill", "done"}
    BY <1>1 DEF IInv, CommandInv, TypeInv
  <1>4. ASSUME NEW i \in DOMAIN queue, Settled, phase = "kill"
        PROVE  proc'[queue[i].pid].born = queue[i].born
    <2>0. queue \in Seq(Sample)
      BY DEF IInv, TypeInv
    <2>1. queue[i].pid \in Pids
      <3>1. queue[i] \in Sample
        BY <2>0
      <3>. QED BY <3>1 DEF Sample
    <2>2. proc[queue[i].pid].born = queue[i].born /\ Identity(queue[i]) \notin hit
      BY <1>4 DEF CalmIInv, AimInv
    <2>3. queue[i].pid # p
      BY <1>1, <2>2 DEF Identity
    <2>. QED BY <1>2, <2>1, <2>2, <2>3
  <1>5. Settled' => Settled
    BY <1>1, <1>2 DEF Settled
  <1>6. AimInv'
    BY <1>2, <1>3, <1>4, <1>5 DEF CalmIInv, AimInv, Queued, Identity
  <1>7. KillsWhatWasListed'
    BY <1>1, <1>2 DEF CalmIInv, KillsWhatWasListed, Identity
  <1>. QED BY <1>2, <1>3, <1>6, <1>7 DEF CalmIInv, CalmInv

LEMMA CalmStep == IInv /\ IInv' /\ CalmIInv /\ [Next]_vars => CalmIInv'
  <1>. SUFFICES ASSUME IInv, IInv', CalmIInv, [Next]_vars PROVE CalmIInv'
    OBVIOUS
  <1>0. TypeInv'
    BY DEF IInv
  <1>1. CASE \E p \in Pids, range \in Ranges : RunList(p, range)
    BY <1>1, RunListCalm
  <1>2. CASE \E p \in Pids, id \in Ids : RunKill(p, id)
    BY <1>0, <1>2, RunKillCalm
  <1>3. CASE ListPids
    BY <1>3, ListPidsCalm
  <1>4. CASE \E p \in Pids : ReadAgain(p)
    BY <1>4, ReadAgainCalm
  <1>5. CASE Sort
    BY <1>5, SortCalm
  <1>6. CASE PrintProcessListing
    BY <1>0, <1>6, PrintCalm
  <1>7. CASE Reject
    BY <1>7, RejectCalm
  <1>8. CASE LookUp
    BY <1>8, LookUpCalm
  <1>9. CASE KillProcess
    BY <1>9, KillProcessCalm
  <1>10. CASE KillItself
    BY <1>10, KillItselfCalm
  <1>11. CASE Report
    BY <1>11, ReportCalm
  <1>12. CASE \E p \in Pids : End(p)
    BY <1>12, EndChanges, EventEndsCalm
  <1>13. CASE \E p \in Pids : EndOfSignalled(p)
    BY <1>13, SignalledCalm
  <1>14. CASE \E p \in Pids, n \in Names, u \in 0..MaxUse : Spawn(p, n, u)
    BY <1>14, SpawnFacts, HappensKeeps, EventEndsCalm
  <1>15. CASE \E p \in Pids, u \in 0..MaxUse : UseChanges(p, u)
    BY <1>15, UseChangesChanges, EventEndsCalm
  <1>16. CASE UNCHANGED vars
    <2>1. Running' = Running /\ Sample' = Sample
      BY <1>16 DEF vars, Running, Alive, Sample
    <2>2. Foreseen' = Foreseen
      BY <1>16, <2>1 DEF Foreseen, vars
    <2>3. Settled' = Settled
      BY <1>16 DEF Settled, vars
    <2>4. CalmInv'
      BY <1>16, <2>1 DEF CalmIInv, CalmInv, Alive, vars
    <2>5. AimInv'
      BY <1>16, <2>2, <2>3 DEF CalmIInv, AimInv, Queued, Identity, vars
    <2>6. KillsWhatWasListed'
      BY <1>16 DEF CalmIInv, KillsWhatWasListed, Identity, vars
    <2>. QED BY <2>4, <2>5, <2>6 DEF CalmIInv
  <1>. QED BY <1>1, <1>2, <1>3, <1>4, <1>5, <1>6, <1>7, <1>8, <1>9, <1>10, <1>11,
              <1>12, <1>13, <1>14, <1>15, <1>16, Steps

\* While nothing else happens, p -k signals what the listing showed under the id
\* and nothing else, though it samples and sorts anew and is itself another
\* process than the one that listed, with a CPU use of its own: the rank of a
\* program without a tie, that bettercpu's own use cannot pass, depends neither on
\* that use nor on the order std::sort leaves.
THEOREM SignalsWhatWasListed == Spec => []KillsWhatWasListed
  <1>1. Init => CalmIInv
    BY CalmInit
  <1>2. IInv /\ IInv' /\ CalmIInv /\ [Next]_vars => CalmIInv'
    BY CalmStep
  <1>3. CalmIInv => KillsWhatWasListed
    BY DEF CalmIInv
  <1>. QED BY <1>1, <1>2, <1>3, Inductive, PTL DEF Spec

=============================================================================
