---------------------------- MODULE ListsProofs -----------------------------
(***************************************************************************)
(* What the proofs of the components need to know of lists, for lists of   *)
(* any length.  A recursive function is known only by its equation, so     *)
(* everything goes back to two lemmas: induction over the numbers up to a  *)
(* bound, as a fact about a set of numbers, and the existence of the       *)
(* values of a recursion, as a fact about a function.                      *)
(***************************************************************************)
EXTENDS Lists, SequencesExt, SequenceTheorems, FunctionTheorems, FiniteSetTheorems,
        NaturalsInduction, WellFoundedInduction, TLAPS

(* ------------------------ induction and recursion ---------------------- *)

(* A set of numbers that is not empty has a least element.                 *)
LEMMA LeastNumber ==
    ASSUME NEW T \in SUBSET Nat, T # {}
    PROVE  \E m \in T : \A k \in T : m <= k
<1>. DEFINE R == OpToRel(<, Nat)
<1>1. IsWellFoundedOn(R, Nat)  BY NatLessThanWellFounded
<1>2. \A x, y \in Nat : y < x => <<y, x>> \in R  BY Zenon DEF OpToRel
<1>. HIDE DEF R
<1>3. PICK m \in T : \A y \in T : <<y, m>> \notin R  BY <1>1, WFMin
<1>4. \A y \in T : ~(y < m)  BY <1>2, <1>3
<1>. QED  BY <1>4

(* What holds of 0 and, with a number, of the next one holds up to N.      *)
LEMMA UpTo ==
    ASSUME NEW N \in Nat, NEW T, 0 \in T,
           \A n \in 0 .. N - 1 : n \in T => n + 1 \in T
    PROVE  \A n \in 0 .. N : n \in T
<1>. DEFINE Missing == {n \in 0 .. N : n \notin T}
<1>1. SUFFICES ASSUME Missing # {}  PROVE FALSE  OBVIOUS
<1>2. Missing \in SUBSET Nat  OBVIOUS
<1>3. PICK m \in Missing : \A k \in Missing : m <= k
  BY <1>1, <1>2, LeastNumber
<1>4. m \in 1 .. N /\ m \notin T  OBVIOUS
<1>5. m - 1 \in 0 .. N - 1 /\ m - 1 \in T  BY <1>3, <1>4
<1>6. (m - 1) + 1 \in T  BY <1>5
<1>. QED  BY <1>4, <1>6

(* The values of a recursion: the first, and each next one by F.           *)
Loop(g, S, first, N, F) ==
    /\ g \in [0 .. N -> S]
    /\ g[0] = first
    /\ \A n \in 1 .. N : g[n] = F[n][g[n - 1]]

(* A recursion that takes the step's number and a value of S to a value of *)
(* S has values for every number up to N.                                  *)
LEMMA Recursion ==
    ASSUME NEW S, NEW first \in S, NEW N \in Nat, NEW F \in [1 .. N -> [S -> S]]
    PROVE  \E g : Loop(g, S, first, N, F)
<1>. DEFINE Approx(m, g) == /\ g \in [0 .. m -> S]
                            /\ g[0] = first
                            /\ \A n \in 1 .. m : g[n] = F[n][g[n - 1]]
            T == {m \in 0 .. N : \E g : Approx(m, g)}
<1>. HIDE DEF Approx
<1>1. 0 \in T
  <2>1. Approx(0, [n \in 0 .. 0 |-> first])  BY DEF Approx
  <2>. QED  BY <2>1
<1>2. ASSUME NEW m \in 0 .. N - 1, m \in T  PROVE m + 1 \in T
  <2>1. PICK g : Approx(m, g)  BY <1>2
  <2>. DEFINE h == [n \in 0 .. m + 1 |-> IF n <= m THEN g[n] ELSE F[m + 1][g[m]]]
  <2>2. h \in [0 .. m + 1 -> S]
    <3>1. g[m] \in S /\ F[m + 1] \in [S -> S]  BY <2>1 DEF Approx
    <3>2. F[m + 1][g[m]] \in S  BY <3>1
    <3>. QED  BY <2>1, <3>2 DEF Approx
  <2>3. h[0] = first  BY <2>1 DEF Approx
  <2>4. ASSUME NEW n \in 1 .. m + 1  PROVE h[n] = F[n][h[n - 1]]
    <3>1. CASE n <= m
      <4>1. h[n] = g[n] /\ h[n - 1] = g[n - 1] /\ n \in 1 .. m  BY <3>1
      <4>. QED  BY <2>1, <4>1 DEF Approx
    <3>2. CASE n = m + 1
      <4>1. h[n] = F[m + 1][g[m]] /\ h[n - 1] = g[m]  BY <3>2
      <4>. QED  BY <3>2, <4>1
    <3>. QED  BY <3>1, <3>2
  <2>. HIDE DEF h
  <2>5. Approx(m + 1, h)  BY <2>2, <2>3, <2>4 DEF Approx
  <2>. QED  BY <2>5
<1>3. \A n \in 0 .. N : n \in T
  <2>. HIDE DEF T
  <2>. QED  BY <1>1, <1>2, UpTo
<1>. QED  BY <1>3 DEF Approx, Loop

(* ---------------------------- filter and sum --------------------------- *)

(* The filtered prefixes of a list.                                        *)
Filtered(g, T, list, S) ==
    /\ g \in [0 .. Len(list) -> Seq(T)]
    /\ g[0] = <<>>
    /\ \A n \in 1 .. Len(list) :
          /\ list[n] \in S => g[n] = Append(g[n - 1], list[n])
          /\ list[n] \notin S => g[n] = g[n - 1]

(* Only is the last of them.                                               *)
LEMMA OnlyUnfolds ==
    ASSUME NEW T, NEW list \in Seq(T), NEW S
    PROVE  \E g : Filtered(g, T, list, S) /\ Only(list, S) = g[Len(list)]
<1>. DEFINE N == Len(list)
            first == <<>>
            F == [n \in 1 .. N |-> [s \in Seq(T) |->
                    IF list[n] \in S THEN Append(s, list[n]) ELSE s]]
            Values(f) == [n \in 0 .. N |->
                            IF n = 0 THEN first
                            ELSE IF list[n] \in S THEN Append(f[n - 1], list[n])
                            ELSE f[n - 1]]
            only == CHOOSE f : f = Values(f)
<1>1. N \in Nat /\ first \in Seq(T) /\ \A n \in 1 .. N : list[n] \in T  OBVIOUS
<1>2. Only(list, S) = only[N]  BY DEF Only
<1>. HIDE DEF N, first
<1>3. F \in [1 .. N -> [Seq(T) -> Seq(T)]]  BY <1>1
<1>4. PICK g : /\ g \in [0 .. N -> Seq(T)]
               /\ g[0] = first
               /\ \A n \in 1 .. N : g[n] = F[n][g[n - 1]]
  <2>. HIDE DEF F
  <2>1. \E g : Loop(g, Seq(T), first, N, F)  BY <1>1, <1>3, Recursion
  <2>. QED  BY <2>1 DEF Loop
<1>5. ASSUME NEW n \in 1 .. N
      PROVE  g[n] = IF list[n] \in S THEN Append(g[n - 1], list[n]) ELSE g[n - 1]
  <2>1. n - 1 \in 0 .. N /\ g[n - 1] \in Seq(T)  BY <1>1, <1>4
  <2>2. F[n][g[n - 1]] = IF list[n] \in S THEN Append(g[n - 1], list[n]) ELSE g[n - 1]
    BY <2>1
  <2>. QED  BY <1>4, <2>2
<1>. HIDE DEF F
<1>6. g = Values(g)
  <2>1. Values(g)[0] = g[0]  BY <1>1, <1>4
  <2>2. ASSUME NEW n \in 1 .. N  PROVE Values(g)[n] = g[n]
    <3>1. Values(g)[n] =
             IF list[n] \in S THEN Append(g[n - 1], list[n]) ELSE g[n - 1]
      BY <1>1
    <3>. QED  BY <1>5, <3>1
  <2>3. DOMAIN g = 0 .. N /\ DOMAIN Values(g) = 0 .. N  BY <1>4
  <2>4. \A n \in 0 .. N : n = 0 \/ n \in 1 .. N  BY <1>1
  <2>5. Values(g) = [n \in 0 .. N |-> Values(g)[n]]  OBVIOUS
  <2>. HIDE DEF Values
  <2>6. \A n \in 0 .. N : Values(g)[n] = g[n]  BY <2>1, <2>2, <2>4
  <2>. QED  BY <1>4, <2>5, <2>6
<1>7. only = Values(only)
  <2>. HIDE DEF Values
  <2>. QED  BY <1>6
<1>. HIDE DEF only
<1>8. \A n \in 0 .. N : only[n] = g[n]
  <2>. DEFINE Same == {m \in 0 .. N : only[m] = g[m]}
  <2>1. 0 \in Same  BY <1>1, <1>4, <1>7
  <2>2. ASSUME NEW n \in 0 .. N - 1, n \in Same  PROVE n + 1 \in Same
    <3>1. n + 1 \in 1 .. N /\ (n + 1) - 1 = n /\ only[n] = g[n]  BY <1>1, <2>2
    <3>2. Values(only)[n + 1] =
             IF list[n + 1] \in S THEN Append(only[n], list[n + 1]) ELSE only[n]
      BY <1>1, <3>1
    <3>3. g[n + 1] = IF list[n + 1] \in S THEN Append(g[n], list[n + 1]) ELSE g[n]
      BY <1>5, <3>1
    <3>. HIDE DEF Values
    <3>4. only[n + 1] = g[n + 1]  BY <1>7, <3>1, <3>2, <3>3
    <3>. QED  BY <3>1, <3>4
  <2>3. \A n \in 0 .. N : n \in Same
    <3>. HIDE DEF Same
    <3>. QED  BY <1>1, <2>1, <2>2, UpTo
  <2>. QED  BY <2>3
<1>9. Only(list, S) = g[N]  BY <1>1, <1>2, <1>8
<1>. QED  BY <1>1, <1>4, <1>5, <1>9 DEF N, first, Filtered

Distinct(list) == \A i, j \in 1 .. Len(list) : list[i] = list[j] => i = j

(* What a filter makes of a list: the elements in the set, all of them, no *)
(* others, and none twice that was there once.                             *)
Sifted(kept, T, list, S) ==
    /\ kept \in Seq(T \cap S)
    /\ \A i \in 1 .. Len(kept) : \E j \in 1 .. Len(list) : kept[i] = list[j]
    /\ \A j \in 1 .. Len(list) : list[j] \in S =>
          \E i \in 1 .. Len(kept) : kept[i] = list[j]
    /\ Distinct(list) => Distinct(kept)

LEMMA OnlySifts ==
    ASSUME NEW T, NEW list \in Seq(T), NEW S
    PROVE  Sifted(Only(list, S), T, list, S)
<1>1. PICK g : Filtered(g, T, list, S) /\ Only(list, S) = g[Len(list)]
  BY OnlyUnfolds
<1>. DEFINE Kept(n, k) ==
                /\ k \in Seq(T \cap S)
                /\ \A i \in 1 .. Len(k) : \E j \in 1 .. n : k[i] = list[j]
                /\ \A j \in 1 .. n : list[j] \in S => \E i \in 1 .. Len(k) : k[i] = list[j]
                /\ Distinct(list) => Distinct(k)
            Good == {n \in 0 .. Len(list) : Kept(n, g[n])}
<1>. HIDE DEF Kept
<1>2. 0 \in Good  BY <1>1 DEF Kept, Filtered, Distinct
<1>3. ASSUME NEW n \in 0 .. Len(list) - 1, n \in Good  PROVE n + 1 \in Good
  <2>. DEFINE k == g[n]  e == list[n + 1]  k2 == g[n + 1]
  <2>0. n \in Nat /\ n + 1 \in 1 .. Len(list) /\ e \in T  OBVIOUS
  <2>1. /\ Kept(n, k)
        /\ e \in S => k2 = Append(k, e)
        /\ e \notin S => k2 = k
    <3>1. (n + 1) - 1 = n  OBVIOUS
    <3>. QED  BY <1>1, <1>3, <2>0, <3>1 DEF Filtered
  <2>. HIDE DEF k, e, k2
  <2>2. CASE e \in S
    <3>1. k2 = Append(k, e) /\ k \in Seq(T \cap S) /\ e \in T \cap S
      BY <2>0, <2>1, <2>2 DEF Kept
    <3>2. /\ k2 \in Seq(T \cap S) /\ Len(k2) = Len(k) + 1 /\ Len(k) \in Nat
          /\ k2[Len(k) + 1] = e /\ \A i \in 1 .. Len(k) : k2[i] = k[i]
      BY <3>1, AppendProperties
    <3>3. ASSUME NEW i \in 1 .. Len(k2)  PROVE \E j \in 1 .. n + 1 : k2[i] = list[j]
      <4>1. CASE i = Len(k) + 1
        BY <2>0, <3>2, <4>1 DEF e
      <4>2. CASE i \in 1 .. Len(k)
        <5>1. PICK j \in 1 .. n : k[i] = list[j]  BY <2>1, <4>2 DEF Kept
        <5>. QED  BY <3>2, <4>2, <5>1, <2>0
      <4>. QED  BY <3>2, <4>1, <4>2
    <3>4. ASSUME NEW j \in 1 .. n + 1, list[j] \in S
          PROVE  \E i \in 1 .. Len(k2) : k2[i] = list[j]
      <4>1. CASE j = n + 1
        BY <3>2, <4>1 DEF e
      <4>2. CASE j \in 1 .. n
        <5>1. PICK i \in 1 .. Len(k) : k[i] = list[j]  BY <2>1, <3>4, <4>2 DEF Kept
        <5>. QED  BY <3>2, <5>1
      <4>. QED  BY <2>0, <4>1, <4>2
    <3>5. ASSUME Distinct(list), NEW i \in 1 .. Len(k), NEW j \in 1 .. Len(k2),
                 k2[i] = k2[j]
          PROVE  i = j
      <4>1. CASE j = Len(k) + 1
        <5>1. PICK m \in 1 .. n : k[i] = list[m]  BY <2>1 DEF Kept
        <5>2. list[m] = list[n + 1]  BY <3>2, <3>5, <4>1, <5>1 DEF e
        <5>. QED  BY <2>0, <3>5, <5>2 DEF Distinct
      <4>2. CASE j \in 1 .. Len(k)
        BY <2>1, <3>2, <3>5, <4>2 DEF Kept, Distinct
      <4>. QED  BY <3>2, <4>1, <4>2
    <3>6. Distinct(list) => Distinct(k2)
      <4>. SUFFICES ASSUME Distinct(list), NEW i \in 1 .. Len(k2), NEW j \in 1 .. Len(k2),
                           k2[i] = k2[j]
                    PROVE  i = j
        BY DEF Distinct
      <4>1. CASE i \in 1 .. Len(k)  BY <3>5, <4>1
      <4>2. CASE j \in 1 .. Len(k)  BY <3>5, <4>2
      <4>. QED  BY <3>2, <4>1, <4>2
    <3>7. Kept(n + 1, k2)  BY <3>2, <3>3, <3>4, <3>6 DEF Kept
    <3>. QED  BY <2>0, <3>7 DEF k2
  <2>3. CASE e \notin S
    <3>1. k2 = k  BY <2>1, <2>3
    <3>2. ASSUME NEW j \in 1 .. n + 1, list[j] \in S  PROVE j \in 1 .. n
      BY <2>0, <2>3, <3>2 DEF e
    <3>3. Kept(n + 1, k2)  BY <2>0, <2>1, <3>1, <3>2 DEF Kept
    <3>. QED  BY <2>0, <3>3 DEF k2
  <2>. QED  BY <2>2, <2>3
<1>4. Len(list) \in Nat  OBVIOUS
<1>5. \A n \in 0 .. Len(list) : n \in Good
  <2>. HIDE DEF Good
  <2>. QED  BY <1>2, <1>3, <1>4, UpTo
<1>6. Kept(Len(list), Only(list, S))  BY <1>1, <1>4, <1>5
<1>. QED  BY <1>6 DEF Kept, Sifted

(* Total is the last value of a recursion over the list.                   *)
LEMMA TotalUnfolds ==
    ASSUME NEW list \in Seq(Int)
    PROVE  \E g : /\ g \in [0 .. Len(list) -> Int]
                  /\ g[0] = 0
                  /\ \A n \in 1 .. Len(list) : g[n] = g[n - 1] + list[n]
                  /\ Total(list) = g[Len(list)]
<1>. DEFINE N == Len(list)
            F == [n \in 1 .. N |-> [s \in Int |-> s + list[n]]]
            Values(f) == [n \in 0 .. N |-> IF n = 0 THEN 0 ELSE f[n - 1] + list[n]]
            total == CHOOSE f : f = Values(f)
<1>1. N \in Nat /\ \A n \in 1 .. N : list[n] \in Int  OBVIOUS
<1>2. Total(list) = total[N]  BY DEF Total
<1>. HIDE DEF N
<1>3. F \in [1 .. N -> [Int -> Int]]  BY <1>1
<1>4. PICK g : /\ g \in [0 .. N -> Int]
               /\ g[0] = 0
               /\ \A n \in 1 .. N : g[n] = F[n][g[n - 1]]
  <2>. HIDE DEF F
  <2>. DEFINE first == 0
  <2>0. first \in Int  OBVIOUS
  <2>. HIDE DEF first
  <2>1. \E g : Loop(g, Int, first, N, F)  BY <1>1, <1>3, <2>0, Recursion
  <2>. QED  BY <2>1 DEF Loop, first
<1>5. \A n \in 1 .. N : g[n] = g[n - 1] + list[n]
  <2>. SUFFICES ASSUME NEW n \in 1 .. N  PROVE g[n] = g[n - 1] + list[n]  OBVIOUS
  <2>1. n - 1 \in 0 .. N /\ g[n - 1] \in Int  BY <1>1, <1>4
  <2>. QED  BY <1>4, <2>1
<1>. HIDE DEF F
<1>6. g = Values(g)
  <2>1. \A n \in 0 .. N : g[n] = Values(g)[n]  BY <1>1, <1>4, <1>5
  <2>. QED  BY <1>4, <2>1
<1>7. total = Values(total)
  <2>. HIDE DEF Values
  <2>. QED  BY <1>6
<1>. HIDE DEF total
<1>8. \A n \in 0 .. N : total[n] = g[n]
  <2>. DEFINE Same == {m \in 0 .. N : total[m] = g[m]}
  <2>1. 0 \in Same  BY <1>1, <1>4, <1>7
  <2>2. ASSUME NEW n \in 0 .. N - 1, n \in Same  PROVE n + 1 \in Same
    <3>1. n + 1 \in 1 .. N /\ (n + 1) - 1 = n /\ total[n] = g[n]  BY <1>1, <2>2
    <3>2. total[n + 1] = total[n] + list[n + 1]  BY <1>1, <1>7, <3>1
    <3>. QED  BY <1>5, <3>1, <3>2
  <2>3. \A n \in 0 .. N : n \in Same
    <3>. HIDE DEF Same
    <3>. QED  BY <1>1, <2>1, <2>2, UpTo
  <2>. QED  BY <2>3
<1>9. Total(list) = g[N]  BY <1>1, <1>2, <1>8
<1>. QED  BY <1>1, <1>4, <1>5, <1>9 DEF N

(* A sum lies between as many times the least and the greatest element.    *)
LEMMA TotalBetween ==
    ASSUME NEW list \in Seq(Int), Len(list) > 0
    PROVE  /\ Total(list) \in Int
           /\ \E i, j \in 1 .. Len(list) :
                 /\ list[i] * Len(list) <= Total(list)
                 /\ Total(list) <= list[j] * Len(list)
<1>1. PICK g : /\ g \in [0 .. Len(list) -> Int]
               /\ g[0] = 0
               /\ \A n \in 1 .. Len(list) : g[n] = g[n - 1] + list[n]
               /\ Total(list) = g[Len(list)]
  BY TotalUnfolds
<1>. DEFINE N == Len(list)
            Between(n) == \E i, j \in 1 .. n : list[i] * n <= g[n] /\ g[n] <= list[j] * n
            Good == {n \in 0 .. N : n = 0 \/ Between(n)}
<1>2. N \in Nat /\ \A n \in 1 .. N : list[n] \in Int  OBVIOUS
<1>. HIDE DEF N
<1>3. \A a, b \in Int : \A n \in Nat : a <= b => a * n <= b * n  OBVIOUS
<1>4. \A a \in Int : \A n \in Nat : a * (n + 1) = a * n + a /\ a * n \in Int  OBVIOUS
<1>5. 0 \in Good  BY <1>2
<1>6. ASSUME NEW n \in 0 .. N - 1, n \in Good  PROVE n + 1 \in Good
  <2>. DEFINE e == list[n + 1]
  <2>1. /\ n \in Nat /\ n + 1 \in 1 .. N /\ e \in Int /\ g[n] \in Int
        /\ g[n + 1] = g[n] + e
    <3>1. (n + 1) - 1 = n  BY <1>2
    <3>. QED  BY <1>1, <1>2, <3>1 DEF N
  <2>2. CASE n = 0
    <3>1. g[1] = list[1] /\ list[1] \in Int  BY <1>1, <2>1, <2>2
    <3>2. list[1] * 1 = list[1]  BY <3>1
    <3>. QED  BY <2>1, <2>2, <3>1, <3>2
  <2>3. CASE n > 0
    <3>1. PICK i, j \in 1 .. n : list[i] * n <= g[n] /\ g[n] <= list[j] * n
      BY <1>6, <2>1, <2>3
    <3>. DEFINE low == list[i]  high == list[j]
    <3>2. low \in Int /\ high \in Int /\ i \in 1 .. n + 1 /\ j \in 1 .. n + 1
      BY <1>2, <2>1
    <3>. HIDE DEF e
    <3>3. low * n <= g[n] /\ g[n] <= high * n  BY <3>1
    <3>. HIDE DEF low, high
    <3>4. /\ low * (n + 1) = low * n + low /\ low * n \in Int
          /\ high * (n + 1) = high * n + high /\ high * n \in Int
          /\ e * (n + 1) = e * n + e /\ e * n \in Int
      BY <1>4, <2>1, <3>2
    <3>5. \/ low * (n + 1) <= g[n] + e
          \/ e * (n + 1) <= g[n] + e
      <4>1. CASE low <= e  BY <2>1, <3>2, <3>3, <3>4, <4>1
      <4>2. CASE e <= low
        <5>1. e * n <= low * n  BY <1>3, <2>1, <3>2, <4>2
        <5>. QED  BY <2>1, <3>3, <3>4, <5>1
      <4>. QED  BY <2>1, <3>2, <4>1, <4>2
    <3>6. \/ g[n] + e <= high * (n + 1)
          \/ g[n] + e <= e * (n + 1)
      <4>1. CASE e <= high  BY <2>1, <3>2, <3>3, <3>4, <4>1
      <4>2. CASE high <= e
        <5>1. high * n <= e * n  BY <1>3, <2>1, <3>2, <4>2
        <5>. QED  BY <2>1, <3>3, <3>4, <5>1
      <4>. QED  BY <2>1, <3>2, <4>1, <4>2
    <3>7. \E a \in 1 .. n + 1 : list[a] * (n + 1) <= g[n + 1]
      BY <2>1, <3>2, <3>5 DEF low, e
    <3>8. \E b \in 1 .. n + 1 : g[n + 1] <= list[b] * (n + 1)
      BY <2>1, <3>2, <3>6 DEF high, e
    <3>9. Between(n + 1)  BY <3>7, <3>8
    <3>. HIDE DEF Between
    <3>. QED  BY <2>1, <3>9
  <2>. QED  BY <2>1, <2>2, <2>3
<1>7. \A n \in 0 .. N : n \in Good
  <2>. HIDE DEF Good
  <2>. QED  BY <1>2, <1>5, <1>6, UpTo
<1>8. Between(N) /\ g[N] \in Int
  <2>1. N > 0 /\ N \in 0 .. N  BY <1>2 DEF N
  <2>2. g[N] \in Int  BY <1>1, <2>1 DEF N
  <2>. HIDE DEF Between
  <2>. QED  BY <1>7, <2>1, <2>2
<1>. QED  BY <1>1, <1>8 DEF N

(* ------------------------------- joining ------------------------------- *)

(* The joined prefixes of a list of sequences.                             *)
Joined(g, T, parts) ==
    /\ g \in [0 .. Len(parts) -> Seq(T)]
    /\ g[0] = <<>>
    /\ \A n \in 1 .. Len(parts) : g[n] = g[n - 1] \o parts[n]

LEMMA JoinedExist ==
    ASSUME NEW T, NEW parts \in Seq(Seq(T))
    PROVE  \E g : Joined(g, T, parts)
<1>. DEFINE N == Len(parts)
            first == <<>>
            F == [n \in 1 .. N |-> [s \in Seq(T) |-> s \o parts[n]]]
<1>1. N \in Nat /\ first \in Seq(T) /\ \A n \in 1 .. N : parts[n] \in Seq(T)  OBVIOUS
<1>. HIDE DEF N, first
<1>2. F \in [1 .. N -> [Seq(T) -> Seq(T)]]  BY <1>1
<1>3. PICK g : /\ g \in [0 .. N -> Seq(T)]
               /\ g[0] = first
               /\ \A n \in 1 .. N : g[n] = F[n][g[n - 1]]
  <2>. HIDE DEF F
  <2>1. \E g : Loop(g, Seq(T), first, N, F)  BY <1>1, <1>2, Recursion
  <2>. QED  BY <2>1 DEF Loop
<1>4. \A n \in 1 .. N : g[n] = g[n - 1] \o parts[n]
  <2>. SUFFICES ASSUME NEW n \in 1 .. N  PROVE g[n] = g[n - 1] \o parts[n]  OBVIOUS
  <2>1. n - 1 \in 0 .. N /\ g[n - 1] \in Seq(T)  BY <1>1, <1>3
  <2>. QED  BY <1>3, <2>1
<1>. QED  BY <1>3, <1>4 DEF Joined, N, first

(* FlattenSeq is the last of them.                                         *)
LEMMA FlattenIs ==
    ASSUME NEW T, NEW parts \in Seq(Seq(T)), NEW g, Joined(g, T, parts)
    PROVE  FlattenSeq(parts) = g[Len(parts)]
<1>. DEFINE N == Len(parts)
            Values(f) == [i \in 1 .. N |-> IF i = 1 THEN parts[i] ELSE f[i - 1] \o parts[i]]
            flatten == CHOOSE f : f = Values(f)
            h == [i \in 1 .. N |-> g[i]]
<1>1. N \in Nat /\ \A n \in 1 .. N : parts[n] \in Seq(T)  OBVIOUS
<1>2. CASE N = 0
  <2>1. parts = <<>>  BY <1>2, EmptySeq
  <2>2. FlattenSeq(parts) = parts  BY <1>2 DEF FlattenSeq
  <2>. QED  BY <1>2, <2>1, <2>2 DEF Joined
<1>3. CASE N > 0
  <2>1. FlattenSeq(parts) = flatten[N]  BY <1>1, <1>3 DEF FlattenSeq
  <2>2. /\ g \in [0 .. N -> Seq(T)] /\ g[0] = <<>>
        /\ \A n \in 1 .. N : g[n] = g[n - 1] \o parts[n]
    BY DEF Joined
  <2>. HIDE DEF N
  <2>3. g[1] = parts[1]
    <3>1. 1 \in 1 .. N /\ 1 - 1 = 0  BY <1>1, <1>3
    <3>2. g[1] = <<>> \o parts[1] /\ parts[1] \in Seq(T)  BY <1>1, <2>2, <3>1
    <3>. QED  BY <3>2, ConcatEmptySeq
  <2>4. h = Values(h)
    <3>1. ASSUME NEW i \in 1 .. N  PROVE h[i] = Values(h)[i]
      <4>1. CASE i = 1  BY <2>3, <4>1
      <4>2. CASE i # 1
        <5>1. i - 1 \in 1 .. N  BY <1>1, <4>2
        <5>. QED  BY <2>2, <4>2, <5>1
      <4>. QED  BY <4>1, <4>2
    <3>2. Values(h) = [i \in 1 .. N |-> Values(h)[i]]  OBVIOUS
    <3>. HIDE DEF Values
    <3>3. h = [i \in 1 .. N |-> h[i]]  OBVIOUS
    <3>. HIDE DEF h
    <3>. QED  BY <3>1, <3>2, <3>3
  <2>. HIDE DEF h
  <2>5. flatten = Values(flatten)
    <3>. HIDE DEF Values
    <3>. QED  BY <2>4
  <2>. HIDE DEF flatten
  <2>6. \A n \in 0 .. N : n = 0 \/ flatten[n] = g[n]
    <3>. DEFINE Same == {m \in 0 .. N : m = 0 \/ flatten[m] = g[m]}
    <3>1. 0 \in Same  BY <1>1
    <3>2. ASSUME NEW n \in 0 .. N - 1, n \in Same  PROVE n + 1 \in Same
      <4>1. n + 1 \in 1 .. N /\ (n + 1) - 1 = n  BY <1>1
      <4>2. CASE n = 0
        <5>1. flatten[1] = parts[1]  BY <2>5, <4>1, <4>2
        <5>. QED  BY <2>3, <4>1, <4>2, <5>1
      <4>3. CASE n # 0
        <5>0. Values(flatten)[n + 1] = flatten[n] \o parts[n + 1]
          <6>1. ASSUME NEW i \in 1 .. N, i # 1
                PROVE  Values(flatten)[i] = flatten[i - 1] \o parts[i]
            BY <6>1
          <6>2. n + 1 # 1  BY <1>1, <4>3
          <6>. HIDE DEF Values
          <6>. QED  BY <4>1, <6>1, <6>2
        <5>1. flatten[n + 1] = flatten[n] \o parts[n + 1]
          <6>. HIDE DEF Values
          <6>. QED  BY <2>5, <5>0
        <5>2. flatten[n] = g[n]  BY <3>2, <4>3
        <5>3. g[n + 1] = g[n] \o parts[n + 1]  BY <2>2, <4>1
        <5>4. flatten[n + 1] = g[n + 1]
          <6>. HIDE DEF Same, Values
          <6>. QED  BY <5>1, <5>2, <5>3
        <5>. QED  BY <4>1, <5>4, <1>1
      <4>. QED  BY <4>2, <4>3
    <3>3. \A n \in 0 .. N : n \in Same
      <4>. HIDE DEF Same
      <4>. QED  BY <1>1, <3>1, <3>2, UpTo
    <3>. QED  BY <3>3
  <2>. QED  BY <1>1, <1>3, <2>1, <2>6 DEF N
<1>. QED  BY <1>1, <1>2, <1>3

(* One part more adds its elements at the end.                             *)
LEMMA FlattenAppend ==
    ASSUME NEW T, NEW parts \in Seq(Seq(T)), NEW s \in Seq(T)
    PROVE  /\ FlattenSeq(parts) \in Seq(T)
           /\ FlattenSeq(Append(parts, s)) = FlattenSeq(parts) \o s
<1>. DEFINE N == Len(parts)  all == Append(parts, s)
<1>1. /\ N \in Nat /\ all \in Seq(Seq(T)) /\ Len(all) = N + 1 /\ all[N + 1] = s
      /\ \A n \in 1 .. N : all[n] = parts[n]
  BY AppendProperties
<1>2. FlattenSeq(Append(parts, s)) = FlattenSeq(all)  OBVIOUS
<1>. HIDE DEF all
<1>3. PICK g : Joined(g, T, all)  BY <1>1, JoinedExist
<1>. DEFINE h == [n \in 0 .. N |-> g[n]]
<1>4. /\ g \in [0 .. N + 1 -> Seq(T)] /\ g[0] = <<>>
      /\ \A n \in 1 .. N + 1 : g[n] = g[n - 1] \o all[n]
  BY <1>1, <1>3 DEF Joined
<1>5. Joined(h, T, parts)
  <2>1. h \in [0 .. N -> Seq(T)]  BY <1>1, <1>4
  <2>2. h[0] = <<>>  BY <1>1, <1>4
  <2>3. ASSUME NEW n \in 1 .. N  PROVE h[n] = h[n - 1] \o parts[n]
    <3>1. n \in 0 .. N /\ n - 1 \in 0 .. N /\ n \in 1 .. N + 1  BY <1>1
    <3>. QED  BY <1>1, <1>4, <3>1
  <2>. HIDE DEF h
  <2>. QED  BY <2>1, <2>2, <2>3 DEF Joined
<1>6. FlattenSeq(parts) = g[N]
  <2>1. FlattenSeq(parts) = h[N]
    <3>. HIDE DEF h
    <3>. QED  BY <1>5, FlattenIs
  <2>. QED  BY <1>1, <2>1
<1>7. FlattenSeq(all) = g[N + 1]  BY <1>1, <1>3, FlattenIs
<1>8. g[N + 1] = g[N] \o s
  <2>1. N + 1 \in 1 .. N + 1 /\ (N + 1) - 1 = N  BY <1>1
  <2>. QED  BY <1>1, <1>4, <2>1
<1>9. g[N] \in Seq(T)  BY <1>1, <1>4
<1>. QED  BY <1>2, <1>6, <1>7, <1>8, <1>9

(* The values of the recursion are the joined prefixes.                    *)
LEMMA FlattenPrefix ==
    ASSUME NEW T, NEW parts \in Seq(Seq(T)), NEW g, Joined(g, T, parts),
           NEW n \in 0 .. Len(parts)
    PROVE  FlattenSeq(SubSeq(parts, 1, n)) = g[n]
<1>. DEFINE first == SubSeq(parts, 1, n)
            h == [m \in 0 .. n |-> g[m]]
<1>1. n \in Nat /\ Len(parts) \in Nat /\ n <= Len(parts)  OBVIOUS
<1>2. first \in Seq(Seq(T)) /\ Len(first) = n /\ \A m \in 1 .. n : first[m] = parts[m]
  <2>1. \A i \in 1 .. n : parts[i] \in Seq(T)  BY <1>1
  <2>. DEFINE V == Seq(T)
  <2>2. \A i \in 1 .. n : parts[i] \in V  BY <2>1
  <2>. HIDE DEF V
  <2>3. /\ first \in Seq(V) /\ Len(first) = IF 1 <= n THEN n - 1 + 1 ELSE 0
        /\ \A i \in 1 .. n - 1 + 1 : first[i] = parts[1 + i - 1]
    BY <2>2, <1>1, SubSeqProperties
  <2>. HIDE DEF first
  <2>. QED  BY <2>3, <1>1 DEF V
<1>. HIDE DEF first
<1>3. /\ g \in [0 .. Len(parts) -> Seq(T)] /\ g[0] = <<>>
      /\ \A m \in 1 .. Len(parts) : g[m] = g[m - 1] \o parts[m]
  BY DEF Joined
<1>4. h \in [0 .. n -> Seq(T)]  BY <1>1, <1>3
<1>5. h[0] = <<>>  BY <1>1, <1>3
<1>6. ASSUME NEW m \in 1 .. n  PROVE h[m] = h[m - 1] \o first[m]
  <2>1. m \in 0 .. n /\ m - 1 \in 0 .. n /\ m \in 1 .. Len(parts)  BY <1>1
  <2>2. h[m] = g[m] /\ h[m - 1] = g[m - 1]  BY <2>1
  <2>. HIDE DEF h
  <2>. QED  BY <1>2, <1>3, <2>1, <2>2
<1>7. h[n] = g[n]  BY <1>1
<1>. HIDE DEF h
<1>8. Joined(h, T, first)  BY <1>2, <1>4, <1>5, <1>6 DEF Joined
<1>9. FlattenSeq(first) = h[Len(first)]  BY <1>2, <1>8, FlattenIs
<1>. QED  BY <1>2, <1>7, <1>9 DEF first

(* One part more of the prefix.                                            *)
LEMMA FlattenNext ==
    ASSUME NEW T, NEW parts \in Seq(Seq(T)), NEW n \in 0 .. Len(parts) - 1
    PROVE  /\ FlattenSeq(SubSeq(parts, 1, n)) \in Seq(T)
           /\ parts[n + 1] \in Seq(T)
           /\ FlattenSeq(SubSeq(parts, 1, n + 1)) =
                 FlattenSeq(SubSeq(parts, 1, n)) \o parts[n + 1]
<1>1. PICK g : Joined(g, T, parts)  BY JoinedExist
<1>2. /\ n \in 0 .. Len(parts) /\ n + 1 \in 0 .. Len(parts) /\ n + 1 \in 1 .. Len(parts)
      /\ (n + 1) - 1 = n
  OBVIOUS
<1>3. FlattenSeq(SubSeq(parts, 1, n)) = g[n]  BY <1>1, <1>2, FlattenPrefix
<1>4. FlattenSeq(SubSeq(parts, 1, n + 1)) = g[n + 1]  BY <1>1, <1>2, FlattenPrefix
<1>5. g[n + 1] = g[n] \o parts[n + 1] /\ g[n] \in Seq(T)  BY <1>1, <1>2 DEF Joined
<1>6. parts[n + 1] \in Seq(T)  BY <1>2
<1>. QED  BY <1>3, <1>4, <1>5, <1>6

(* A prefix is not longer than the whole.                                  *)
LEMMA FlattenLonger ==
    ASSUME NEW T, NEW parts \in Seq(Seq(T)), NEW n \in 0 .. Len(parts)
    PROVE  /\ FlattenSeq(parts) \in Seq(T)
           /\ FlattenSeq(SubSeq(parts, 1, n)) \in Seq(T)
           /\ Len(FlattenSeq(SubSeq(parts, 1, n))) <= Len(FlattenSeq(parts))
<1>1. PICK g : Joined(g, T, parts)  BY JoinedExist
<1>. DEFINE N == Len(parts)
            Good == {m \in 0 .. N : n <= m => Len(g[n]) <= Len(g[m])}
<1>2. N \in Nat /\ n \in Nat /\ n <= N  OBVIOUS
<1>3. /\ g \in [0 .. N -> Seq(T)]
      /\ \A m \in 1 .. N : g[m] = g[m - 1] \o parts[m]
  BY <1>1 DEF Joined
<1>11. \A m \in 1 .. N : parts[m] \in Seq(T)  OBVIOUS
<1>4. FlattenSeq(parts) = g[N]  BY <1>1, FlattenIs
<1>5. FlattenSeq(SubSeq(parts, 1, n)) = g[n]  BY <1>1, FlattenPrefix
<1>. HIDE DEF N
<1>6. \A m \in 0 .. N : g[m] \in Seq(T) /\ Len(g[m]) \in Nat
  <2>1. \A m \in 0 .. N : g[m] \in Seq(T)  BY <1>3
  <2>2. \A s \in Seq(T) : Len(s) \in Nat  OBVIOUS
  <2>. QED  BY <2>1, <2>2
<1>7. 0 \in Good  BY <1>2, <1>6
<1>8. ASSUME NEW m \in 0 .. N - 1, m \in Good  PROVE m + 1 \in Good
  <2>1. m \in 0 .. N /\ m + 1 \in 1 .. N /\ m + 1 \in 0 .. N /\ (m + 1) - 1 = m  BY <1>2
  <2>2. g[m + 1] = g[m] \o parts[m + 1] /\ parts[m + 1] \in Seq(T) /\ g[m] \in Seq(T)
    <3>1. g[m] \in Seq(T)  BY <1>6, <2>1
    <3>2. parts[m + 1] \in Seq(T)  BY <1>11, <2>1
    <3>3. g[m + 1] = g[(m + 1) - 1] \o parts[m + 1]  BY <1>3, <2>1
    <3>. QED  BY <2>1, <3>1, <3>2, <3>3
  <2>3. Len(g[m + 1]) = Len(g[m]) + Len(parts[m + 1]) /\ Len(parts[m + 1]) \in Nat
    BY <2>2
  <2>4. CASE n <= m
    <3>1. Len(g[n]) <= Len(g[m])  BY <1>8, <2>4
    <3>2. n \in 0 .. N  BY <1>2
    <3>3. Len(g[n]) \in Nat /\ Len(g[m]) \in Nat  BY <1>6, <2>1, <3>2
    <3>4. Len(g[n]) <= Len(g[m + 1])
      <4>. DEFINE x == Len(g[n])  y == Len(g[m])  z == Len(g[m + 1])  d == Len(parts[m + 1])
      <4>1. x <= y /\ z = y + d /\ x \in Nat /\ y \in Nat /\ d \in Nat
        BY <2>3, <3>1, <3>3, Zenon
      <4>. HIDE DEF x, y, z, d
      <4>2. x <= z  BY <4>1
      <4>. QED  BY <4>2 DEF x, z
    <3>. QED  BY <2>1, <3>4
  <2>5. CASE ~(n <= m)
    <3>1. n <= m + 1 => n = m + 1  BY <1>2, <2>1, <2>5
    <3>. QED  BY <1>6, <2>1, <3>1
  <2>. QED  BY <2>4, <2>5
<1>9. \A m \in 0 .. N : m \in Good
  <2>. HIDE DEF Good
  <2>. QED  BY <1>2, <1>7, <1>8, UpTo
<1>10. Len(g[n]) <= Len(g[N]) /\ g[N] \in Seq(T) /\ g[n] \in Seq(T)
  BY <1>2, <1>6, <1>9
<1>. QED  BY <1>4, <1>5, <1>10

(* Parts of four elements each lie at the multiples of four.               *)
LEMMA FlattenFours ==
    ASSUME NEW T, NEW parts \in Seq(Seq(T)), \A n \in 1 .. Len(parts) : Len(parts[n]) = 4
    PROVE  /\ FlattenSeq(parts) \in Seq(T)
           /\ Len(FlattenSeq(parts)) = 4 * Len(parts)
           /\ \A n \in 1 .. Len(parts) : \A j \in 1 .. 4 :
                 FlattenSeq(parts)[4 * (n - 1) + j] = parts[n][j]
<1>1. PICK g : Joined(g, T, parts)  BY JoinedExist
<1>. DEFINE N == Len(parts)
            Lies(m) == /\ Len(g[m]) = 4 * m
                       /\ \A n \in 1 .. m : \A j \in 1 .. 4 :
                             g[m][4 * (n - 1) + j] = parts[n][j]
            Good == {m \in 0 .. N : Lies(m)}
<1>2. N \in Nat  OBVIOUS
<1>3. /\ g \in [0 .. N -> Seq(T)] /\ g[0] = <<>>
      /\ \A m \in 1 .. N : /\ g[m] = g[m - 1] \o parts[m] /\ parts[m] \in Seq(T)
                           /\ Len(parts[m]) = 4
  BY <1>1 DEF Joined
<1>4. FlattenSeq(parts) = g[N]  BY <1>1, FlattenIs
<1>. HIDE DEF N
<1>5. 0 \in Good  BY <1>2, <1>3
<1>6. ASSUME NEW m \in 0 .. N - 1, m \in Good  PROVE m + 1 \in Good
  <2>1. m \in 0 .. N /\ m \in Nat /\ m + 1 \in 1 .. N /\ m + 1 \in 0 .. N /\ (m + 1) - 1 = m
    BY <1>2
  <2>. DEFINE a == g[m]  b == parts[m + 1]  c == g[m + 1]
  <2>2. c = a \o b /\ a \in Seq(T) /\ b \in Seq(T) /\ Len(b) = 4
    BY <1>3, <2>1
  <2>3. Len(a) = 4 * m /\ \A n \in 1 .. m : \A j \in 1 .. 4 : a[4 * (n - 1) + j] = parts[n][j]
    BY <1>6
  <2>4. b = parts[m + 1]  OBVIOUS
  <2>5. c = g[m + 1]  OBVIOUS
  <2>. HIDE DEF a, b, c, Good, Lies
  <2>6. /\ Len(c) = 4 * m + 4
        /\ \A i \in 1 .. 4 * m : c[i] = a[i]
        /\ \A j \in 1 .. 4 : c[4 * m + j] = b[j]
    <3>1. /\ Len(c) = Len(a) + Len(b)
          /\ \A i \in 1 .. Len(a) + Len(b) :
                c[i] = IF i <= Len(a) THEN a[i] ELSE b[i - Len(a)]
      BY <2>2, ConcatProperties
    <3>2. \A j \in 1 .. 4 : 4 * m + j \in 1 .. 4 * m + 4 /\ ~(4 * m + j <= 4 * m)
                            /\ (4 * m + j) - 4 * m = j
      BY <2>1
    <3>3. Len(a) = 4 * m  BY <2>3
    <3>4. Len(c) = 4 * m + 4  BY <2>2, <3>1, <3>3
    <3>5. \A i \in 1 .. 4 * m : c[i] = a[i]
      <4>1. \A i \in 1 .. 4 * m : i \in 1 .. 4 * m + 4 /\ i <= 4 * m  BY <2>1
      <4>. QED  BY <2>2, <3>1, <3>3, <4>1
    <3>6. ASSUME NEW j \in 1 .. 4  PROVE c[4 * m + j] = b[j]
      <4>1. c[4 * m + j] = IF 4 * m + j <= 4 * m THEN a[4 * m + j] ELSE b[(4 * m + j) - 4 * m]
        BY <2>2, <3>1, <3>2, <3>3
      <4>. QED  BY <3>2, <4>1
    <3>. QED  BY <3>4, <3>5, <3>6
  <2>7. ASSUME NEW n \in 1 .. m + 1, NEW j \in 1 .. 4
        PROVE  c[4 * (n - 1) + j] = parts[n][j]
    <3>1. CASE n = m + 1
      <4>1. 4 * (n - 1) + j = 4 * m + j  BY <2>1, <3>1
      <4>. QED  BY <2>4, <2>6, <3>1, <4>1
    <3>2. CASE n \in 1 .. m
      <4>1. 4 * (n - 1) + j \in 1 .. 4 * m  BY <2>1, <3>2
      <4>. QED  BY <2>3, <2>6, <3>2, <4>1
    <3>. QED  BY <2>1, <3>1, <3>2
  <2>8. Lies(m + 1)
    <3>1. 4 * m + 4 = 4 * (m + 1)  BY <2>1
    <3>. QED  BY <2>5, <2>6, <2>7, <3>1 DEF Lies
  <2>. QED  BY <2>1, <2>8 DEF Good
<1>7. \A m \in 0 .. N : m \in Good
  <2>. HIDE DEF Good
  <2>. QED  BY <1>2, <1>5, <1>6, UpTo
<1>8. Lies(N) /\ g[N] \in Seq(T)
  <2>1. N \in 0 .. N  BY <1>2
  <2>. HIDE DEF Lies
  <2>. QED  BY <1>3, <1>7, <2>1
<1>. QED  BY <1>4, <1>8 DEF N

(* -------------------------------- order -------------------------------- *)

(* The elements of S in order, each once.                                  *)
Sorted(list, S) ==
    /\ list \in Seq(S)
    /\ \A i, j \in 1 .. Len(list) : i < j => list[i] < list[j]
    /\ \A e \in S : \E i \in 1 .. Len(list) : list[i] = e

(* A greater number goes to the end.                                       *)
LEMMA SortedAppend ==
    ASSUME NEW S \in SUBSET Nat, NEW list, Sorted(list, S),
           NEW e \in Nat, \A o \in S : o < e
    PROVE  Sorted(Append(list, e), S \cup {e})
<1>. DEFINE U == S \cup {e}  longer == Append(list, e)  N == Len(list)
<1>1. list \in Seq(U) /\ e \in U /\ N \in Nat /\ \A i \in 1 .. N : list[i] \in S
  BY DEF Sorted
<1>2. /\ longer \in Seq(U) /\ Len(longer) = N + 1 /\ longer[N + 1] = e
      /\ \A i \in 1 .. N : longer[i] = list[i]
  BY <1>1, AppendProperties
<1>. HIDE DEF longer, N
<1>3. ASSUME NEW i \in 1 .. Len(longer), NEW j \in 1 .. Len(longer), i < j
      PROVE  longer[i] < longer[j]
  <2>1. i \in 1 .. N  BY <1>1, <1>2, <1>3
  <2>2. CASE j = N + 1  BY <1>1, <1>2, <2>1, <2>2
  <2>3. CASE j \in 1 .. N  BY <1>2, <1>3, <2>1, <2>3 DEF Sorted, N
  <2>. QED  BY <1>1, <1>2, <2>2, <2>3
<1>4. ASSUME NEW o \in U  PROVE \E i \in 1 .. Len(longer) : longer[i] = o
  <2>1. CASE o = e  BY <1>1, <1>2, <2>1
  <2>2. CASE o \in S
    <3>1. PICK i \in 1 .. N : list[i] = o  BY <2>2 DEF Sorted, N
    <3>. QED  BY <1>1, <1>2, <3>1
  <2>. QED  BY <2>1, <2>2
<1>5. Sorted(longer, U)
  <2>. HIDE DEF U
  <2>. QED  BY <1>2, <1>3, <1>4 DEF Sorted
<1>. QED  BY <1>5 DEF longer

(* A bounded set of numbers can be put in order.                           *)
LEMMA SortedExist ==
    ASSUME NEW M \in Nat, NEW S \in SUBSET (0 .. M)
    PROVE  \E list : Sorted(list, S)
<1>. DEFINE Below(m) == S \cap (0 .. m - 1)
            Good == {m \in 0 .. M + 1 : \E list : Sorted(list, Below(m))}
<1>1. 0 \in Good
  <2>1. Below(0) = {}  OBVIOUS
  <2>2. Sorted(<<>>, {})  BY DEF Sorted
  <2>. QED  BY <2>1, <2>2
<1>2. ASSUME NEW m \in 0 .. (M + 1) - 1, m \in Good  PROVE m + 1 \in Good
  <2>1. PICK list : Sorted(list, Below(m))  BY <1>2
  <2>2. m + 1 \in 0 .. M + 1 /\ m \in Nat  OBVIOUS
  <2>3. CASE m \in S
    <3>1. Below(m + 1) = Below(m) \cup {m}  BY <2>2, <2>3
    <3>2. Below(m) \in SUBSET Nat /\ \A o \in Below(m) : o < m  BY <2>2
    <3>3. Sorted(Append(list, m), Below(m) \cup {m})
      <4>. HIDE DEF Below
      <4>. QED  BY <2>1, <2>2, <3>2, SortedAppend
    <3>. HIDE DEF Below
    <3>. QED  BY <2>2, <3>1, <3>3
  <2>4. CASE m \notin S
    <3>1. Below(m + 1) = Below(m)  BY <2>2, <2>4
    <3>. HIDE DEF Below
    <3>. QED  BY <2>1, <2>2, <3>1
  <2>. QED  BY <2>3, <2>4
<1>3. \A m \in 0 .. M + 1 : m \in Good
  <2>1. M + 1 \in Nat  OBVIOUS
  <2>. HIDE DEF Good
  <2>. QED  BY <1>1, <1>2, <2>1, UpTo
<1>4. Below(M + 1) = S
  <2>1. (M + 1) - 1 = M  OBVIOUS
  <2>. QED  BY <2>1
<1>5. M + 1 \in 0 .. M + 1  OBVIOUS
<1>. HIDE DEF Below
<1>. QED  BY <1>3, <1>4, <1>5

(* As many different elements as the set has are all of it.                *)
LEMMA Pigeonhole ==
    ASSUME NEW S, IsFiniteSet(S), NEW f \in [1 .. Cardinality(S) -> S],
           \A i, j \in 1 .. Cardinality(S) : i # j => f[i] # f[j]
    PROVE  \A e \in S : \E i \in 1 .. Cardinality(S) : f[i] = e
<1>. DEFINE n == Cardinality(S)
<1>1. n \in Nat  BY FS_CardinalityType
<1>2. Cardinality(1 .. n) = n
  <2>1. 1 \in Int /\ n \in Int  BY <1>1
  <2>2. Cardinality(1 .. n) = IF 1 > n THEN 0 ELSE n - 1 + 1
    <3>. HIDE DEF n
    <3>. QED  BY <2>1, FS_Interval
  <2>. HIDE DEF n
  <2>. QED  BY <1>1, <2>2
<1>3. f \in Injection(1 .. n, S)  BY Fun_IsInj
<1>4. f \in Surjection(1 .. n, S)
  <2>1. Cardinality(1 .. n) = Cardinality(S)  BY <1>2
  <2>. HIDE DEF n
  <2>. QED  BY <1>3, <2>1, FS_Injection
<1>5. \A e \in S : \E i \in 1 .. n : f[i] = e
  <2>. HIDE DEF n
  <2>. QED  BY <1>4 DEF Surjection
<1>. QED  BY <1>5

(* Ascending is such an order, whatever order the choice takes.            *)
LEMMA AscendingSorted ==
    ASSUME NEW M \in Nat, NEW S \in SUBSET (0 .. M)
    PROVE  Sorted(Ascending(S), S)
<1>1. PICK list : Sorted(list, S)  BY SortedExist
<1>. DEFINE N == Len(list)
<1>2. /\ N \in Nat /\ list \in [1 .. N -> S] /\ S \subseteq Int
      /\ \A i, j \in 1 .. N : i < j => list[i] < list[j]
      /\ \A e \in S : \E i \in 1 .. N : list[i] = e
  BY <1>1 DEF Sorted
<1>. HIDE DEF N
<1>3. \A i, j \in 1 .. N : list[i] = list[j] => i = j
  <2>. SUFFICES ASSUME NEW i \in 1 .. N, NEW j \in 1 .. N, i # j, list[i] = list[j]
                PROVE  FALSE
    OBVIOUS
  <2>1. list[i] \in Int /\ list[j] \in Int  BY <1>2
  <2>2. list[i] < list[j] \/ list[j] < list[i]  BY <1>2
  <2>. QED  BY <2>1, <2>2
<1>4. list \in Bijection(1 .. N, S)  BY <1>2, <1>3, Fun_IsBij
<1>5. Cardinality(S) = N
  <2>1. ExistsBijection(1 .. N, S)  BY <1>4 DEF ExistsBijection
  <2>. QED  BY <1>2, <2>1, FS_CountingElements
<1>6. IsFiniteSet(S)
  <2>1. ExistsBijection(1 .. N, S)  BY <1>4 DEF ExistsBijection
  <2>. QED  BY <1>2, <2>1, FS_NatBijection
<1>7. list \in [1 .. Cardinality(S) -> S] /\ Increasing(list)
  BY <1>2, <1>5 DEF Increasing
<1>. DEFINE a == Ascending(S)
<1>8. a \in [1 .. Cardinality(S) -> S] /\ Increasing(a)  BY <1>7 DEF Ascending
<1>. HIDE DEF a
<1>9. /\ a \in Seq(S) /\ Len(a) = N
      /\ \A i, j \in 1 .. N : i < j => a[i] < a[j]
  BY <1>2, <1>5, <1>8 DEF Increasing
<1>10. \A i, j \in 1 .. N : i # j => a[i] # a[j]
  <2>. SUFFICES ASSUME NEW i \in 1 .. N, NEW j \in 1 .. N, i # j, a[i] = a[j]
                PROVE  FALSE
    OBVIOUS
  <2>1. a[i] \in Int /\ a[j] \in Int  BY <1>2, <1>5, <1>8
  <2>2. a[i] < a[j] \/ a[j] < a[i]  BY <1>2, <1>9
  <2>. QED  BY <2>1, <2>2
<1>11. \A e \in S : \E i \in 1 .. N : a[i] = e
  <2>1. \A i, j \in 1 .. Cardinality(S) : i # j => a[i] # a[j]  BY <1>5, <1>10
  <2>2. \A e \in S : \E i \in 1 .. Cardinality(S) : a[i] = e
    BY <1>6, <1>8, <2>1, Pigeonhole
  <2>. QED  BY <1>5, <2>2
<1>. QED  BY <1>9, <1>11 DEF Sorted, a

(* There is one such order only.                                           *)
LEMMA SortedAgree ==
    ASSUME NEW S \in SUBSET Nat, NEW a, Sorted(a, S), NEW b, Sorted(b, S)
    PROVE  \A i \in 1 .. Len(a) : i \in 1 .. Len(b) /\ a[i] = b[i]
<1>. DEFINE Wrong == {i \in 1 .. Len(a) : ~(i \in 1 .. Len(b) /\ a[i] = b[i])}
<1>1. SUFFICES ASSUME Wrong # {}  PROVE FALSE  OBVIOUS
<1>2. /\ Len(a) \in Nat /\ Len(b) \in Nat
      /\ \A i \in 1 .. Len(a) : a[i] \in S /\ a[i] \in Nat
      /\ \A i \in 1 .. Len(b) : b[i] \in S /\ b[i] \in Nat
  <2>. HIDE DEF Wrong
  <2>1. a \in Seq(S) /\ b \in Seq(S)  BY DEF Sorted
  <2>2. /\ \A i \in 1 .. Len(a) : a[i] \in S
        /\ \A i \in 1 .. Len(b) : b[i] \in S
    BY <2>1
  <2>3. Len(a) \in Nat /\ Len(b) \in Nat  BY <2>1
  <2>4. \A e \in S : e \in Nat  OBVIOUS
  <2>. QED  BY <2>2, <2>3, <2>4
<1>3. PICK m \in Wrong : \A k \in Wrong : m <= k
  <2>1. Wrong \in SUBSET Nat  BY <1>2
  <2>. HIDE DEF Wrong
  <2>. QED  BY <1>1, <2>1, LeastNumber
<1>4. m \in 1 .. Len(a) /\ ~(m \in 1 .. Len(b) /\ a[m] = b[m])  OBVIOUS
<1>5. \A k \in 1 .. m - 1 : k \in 1 .. Len(b) /\ a[k] = b[k]
  <2>. SUFFICES ASSUME NEW k \in 1 .. m - 1, ~(k \in 1 .. Len(b) /\ a[k] = b[k])
                PROVE  FALSE
    OBVIOUS
  <2>1. k \in Wrong  BY <1>2, <1>4
  <2>. QED  BY <1>2, <1>3, <1>4, <2>1
<1>. HIDE DEF Wrong
<1>6. PICK j \in 1 .. Len(b) : b[j] = a[m]  BY <1>2, <1>4 DEF Sorted
<1>7. m <= j
  <2>. SUFFICES ASSUME j < m  PROVE FALSE  BY <1>2, <1>4
  <2>1. j \in 1 .. m - 1 /\ j \in 1 .. Len(a)  BY <1>2, <1>4
  <2>2. a[j] = a[m]  BY <1>5, <1>6, <2>1
  <2>3. a[j] < a[m]  BY <1>4, <2>1 DEF Sorted
  <2>. QED  BY <1>2, <1>4, <2>1, <2>2, <2>3
<1>8. m \in 1 .. Len(b) /\ a[m] # b[m]  BY <1>2, <1>4, <1>6, <1>7
<1>9. b[m] < a[m]
  <2>1. m # j  BY <1>6, <1>8
  <2>2. m < j  BY <1>2, <1>4, <1>7, <2>1
  <2>. QED  BY <1>6, <1>8, <2>2 DEF Sorted
<1>10. PICK k \in 1 .. Len(a) : a[k] = b[m]  BY <1>2, <1>8 DEF Sorted
<1>11. k < m
  <2>. SUFFICES ASSUME m <= k  PROVE FALSE  BY <1>2, <1>4
  <2>1. m = k \/ a[m] < a[k]  BY <1>2, <1>4 DEF Sorted
  <2>. QED  BY <1>2, <1>4, <1>8, <1>9, <1>10, <2>1
<1>12. k \in 1 .. Len(b) /\ b[k] = b[m]  BY <1>2, <1>4, <1>5, <1>10, <1>11
<1>13. b[k] < b[m]  BY <1>8, <1>11, <1>12 DEF Sorted
<1>. QED  BY <1>2, <1>8, <1>12, <1>13

LEMMA SortedUnique ==
    ASSUME NEW S \in SUBSET Nat, NEW a, Sorted(a, S), NEW b, Sorted(b, S)
    PROVE  a = b
<1>1. \A i \in 1 .. Len(a) : i \in 1 .. Len(b) /\ a[i] = b[i]  BY SortedAgree
<1>2. \A i \in 1 .. Len(b) : i \in 1 .. Len(a)  BY SortedAgree
<1>3. a \in Seq(S) /\ b \in Seq(S) /\ Len(a) \in Nat /\ Len(b) \in Nat
  BY DEF Sorted
<1>4. Len(a) = Len(b)
  <2>1. Len(a) > Len(b) => Len(a) \in 1 .. Len(b)  BY <1>1, <1>3
  <2>2. Len(b) > Len(a) => Len(b) \in 1 .. Len(a)  BY <1>2, <1>3
  <2>. QED  BY <1>3, <2>1, <2>2
<1>. QED  BY <1>1, <1>3, <1>4, SeqEqual

(* Between two of its elements the set misses none.                        *)
Unbroken(S, M) ==
    \A q \in S : \A p \in 0 .. M : p <= q /\ (\E o \in S : o <= p) => p \in S

(* The numbers of an interval in order follow one another.                 *)
LEMMA Consecutive ==
    ASSUME NEW M \in Nat, NEW S \in SUBSET (0 .. M), NEW list, Sorted(list, S),
           Unbroken(S, M)
    PROVE  \A i \in 1 .. Len(list) : list[i] = list[1] + i - 1
<1>. DEFINE N == Len(list)
            Good == {n \in 0 .. N : n = 0 \/ list[n] = list[1] + n - 1}
<1>1. /\ N \in Nat /\ \A i \in 1 .. N : list[i] \in S /\ list[i] \in Nat
      /\ \A i, j \in 1 .. N : i < j => list[i] < list[j]
      /\ \A e \in S : \E i \in 1 .. N : list[i] = e
  <2>1. list \in Seq(S)  BY DEF Sorted
  <2>2. N \in Nat /\ \A i \in 1 .. N : list[i] \in S  BY <2>1
  <2>3. \A e \in S : e \in Nat  OBVIOUS
  <2>4. \A i \in 1 .. N : list[i] \in Nat
    <3>. HIDE DEF N
    <3>. QED  BY <2>2, <2>3
  <2>. QED  BY <2>2, <2>4 DEF Sorted
<1>. HIDE DEF N
<1>2. 0 \in Good  BY <1>1
<1>3. ASSUME NEW n \in 0 .. N - 1, n \in Good  PROVE n + 1 \in Good
  <2>1. n \in Nat /\ n + 1 \in 1 .. N /\ n + 1 \in 0 .. N  BY <1>1
  <2>2. CASE n = 0
    <3>1. list[1] \in Nat  BY <1>1, <2>1, <2>2
    <3>. QED  BY <2>1, <2>2, <3>1
  <2>3. CASE n > 0
    <3>. DEFINE p == list[n] + 1
    <3>1. n \in 1 .. N /\ list[n] = list[1] + n - 1  BY <1>1, <1>3, <2>1, <2>3
    <3>2. list[n] < list[n + 1]  BY <1>1, <2>1, <3>1
    <3>3. /\ list[n] \in S /\ list[n] \in Nat /\ list[n + 1] \in S /\ list[n + 1] \in 0 .. M
      BY <1>1, <2>1, <3>1
    <3>4. p \in 0 .. M /\ p <= list[n + 1] /\ list[n] <= p  BY <3>2, <3>3
    <3>5. p \in S  BY <3>3, <3>4 DEF Unbroken
    <3>6. PICK k \in 1 .. N : list[k] = p  BY <1>1, <3>5
    <3>7. n < k
      <4>. SUFFICES ASSUME k <= n  PROVE FALSE  BY <2>1
      <4>1. k = n \/ list[k] < list[n]  BY <1>1, <2>1, <3>1
      <4>. QED  BY <3>3, <3>6, <4>1
    <3>8. k <= n + 1
      <4>. SUFFICES ASSUME n + 1 < k  PROVE FALSE  BY <2>1
      <4>1. list[n + 1] < list[k]  BY <1>1, <2>1
      <4>. QED  BY <3>3, <3>4, <3>6, <4>1
    <3>9. k = n + 1  BY <2>1, <3>7, <3>8
    <3>10. list[1] \in Nat  BY <1>1, <3>1
    <3>11. list[n + 1] = list[1] + (n + 1) - 1  BY <2>1, <3>1, <3>3, <3>6, <3>9, <3>10
    <3>. QED  BY <2>1, <3>11
  <2>. QED  BY <2>1, <2>2, <2>3
<1>4. \A n \in 0 .. N : n \in Good
  <2>. HIDE DEF Good
  <2>. QED  BY <1>1, <1>2, <1>3, UpTo
<1>5. \A i \in 1 .. N : i \in 0 .. N /\ i # 0  BY <1>1
<1>. QED  BY <1>4, <1>5 DEF N
=============================================================================
