----------------------------- MODULE ListsProofs ----------------------------
(***************************************************************************)
(* Proofs about the loops over a street's lists, for any number of cars    *)
(* and lights.  Each loop is a recursive function over the indices; that   *)
(* there is such a function is LoopExists, and what holds after each       *)
(* round is shown by EveryRound, the induction over the rounds in terms of *)
(* a set of them.                                                          *)
(***************************************************************************)
EXTENDS StreetLists, TLAPS, SequenceTheorems, FiniteSetTheorems

LEMMA LeastNatural ==
  ASSUME NEW T, T \subseteq Nat, T # {}
  PROVE  \E x \in T : \A y \in T : x =< y
<1> DEFINE R == OpToRel(<, Nat)
<1>1. IsWellFoundedOn(R, Nat)
      BY NatLessThanWellFounded
<1>2. \A x, y \in Nat : y < x => <<y, x>> \in R
      BY DEF OpToRel
<1> HIDE DEF R
<1>3. PICK x \in T : \A y \in T : <<y, x>> \notin R
      BY <1>1, WFMin
<1>4. \A y \in T : ~(y < x)
      BY <1>2, <1>3
<1>5. QED BY <1>4

\* What holds before the first round and after a round when it held before it holds
\* after every round.
LEMMA EveryRound ==
  ASSUME NEW n \in Nat, NEW S, 0 \in S, \A i \in 1..n : i - 1 \in S => i \in S
  PROVE  0..n \subseteq S
<1> DEFINE T == (0..n) \ S
<1>1. SUFFICES ASSUME T # {} PROVE FALSE
      OBVIOUS
<1>2. PICK x \in T : \A y \in T : x =< y
  <2>1. T \subseteq Nat
        OBVIOUS
  <2> HIDE DEF T
  <2>2. QED BY <1>1, <2>1, LeastNatural
<1>3. x \in 1..n /\ x - 1 \in 0..n /\ x - 1 \notin T
      BY <1>2
<1>4. x \in S
      BY <1>3
<1>5. QED BY <1>4

\* next[i] is what round i of a loop of n rounds makes of a value of V; g is the values
\* after the rounds.
IsBody(next, V, n) == \A i \in 1..n, v \in V : next[i][v] \in V
IsRun(g, next, first, V, n) ==
  g \in [0..n -> V] /\ g[0] = first /\ \A i \in 1..n : g[i] = next[i][g[i - 1]]

\* A loop has a value after every round.
LEMMA LoopExists ==
  ASSUME NEW V, NEW first \in V, NEW n \in Nat, NEW next, IsBody(next, V, n)
  PROVE  \E g : IsRun(g, next, first, V, n)
<1> DEFINE Runs(k) == \E g : IsRun(g, next, first, V, k)
           S == {k \in 0..n : Runs(k)}
<1>1. 0 \in S
  <2>1. Runs(0)
    <3> DEFINE g == [i \in 0..0 |-> first]
    <3>1. IsRun(g, next, first, V, 0)
          BY DEF IsRun
    <3>2. QED BY <3>1
  <2>2. QED BY <2>1
<1>2. ASSUME NEW k \in 1..n, k - 1 \in S PROVE k \in S
  <2>1. PICK g : IsRun(g, next, first, V, k - 1)
        BY <1>2
  <2> DEFINE h == [i \in 0..k |-> IF i < k THEN g[i] ELSE next[k][g[k - 1]]]
  <2>2. g[k - 1] \in V /\ next[k][g[k - 1]] \in V
        BY <2>1 DEF IsRun, IsBody
  <2>3. h \in [0..k -> V] /\ h[0] = first
        BY <2>1, <2>2 DEF IsRun
  <2>4. \A i \in 1..k : h[i] = next[i][h[i - 1]]
        BY <2>1 DEF IsRun
  <2> HIDE DEF h
  <2>5. Runs(k)
        BY <2>3, <2>4 DEF IsRun
  <2> HIDE DEF Runs
  <2>6. QED BY <2>5
<1>3. 0..n \subseteq S
  <2> HIDE DEF S
  <2> QED BY <1>1, <1>2, EveryRound
<1>4. QED BY <1>3

(***************************************************************************)
(* The searches.                                                           *)
(***************************************************************************)
\* The loop of findClosestCar, round by round.
LEMMA ClosestRounds ==
  ASSUME NEW car \in Cars, carArray \in Seq(Cars)
  PROVE  \E g \in [0..Len(carArray) -> Cars \cup {Nobody}] :
           /\ g[0] = Nobody
           /\ \A i \in 1..Len(carArray) : g[i] = KeepNearer(car, g[i - 1], carArray[i])
           /\ FindClosestCar(car) = g[Len(carArray)]
<1> DEFINE n == Len(carArray)
           V == Cars \cup {Nobody}
           next == [i \in 1..n |-> [v \in V |-> KeepNearer(car, v, carArray[i])]]
           f == CHOOSE h : h = [i \in 0..n |-> IF i = 0 THEN Nobody
                                               ELSE KeepNearer(car, h[i - 1], carArray[i])]
<1>1. n \in Nat /\ \A i \in 1..n : carArray[i] \in Cars
      OBVIOUS
<1>2. Nobody \in V /\ \A i \in 1..n, v \in V : KeepNearer(car, v, carArray[i]) \in V
      BY <1>1 DEF KeepNearer
<1> HIDE DEF n, V
<1>3. \A i \in 1..n, v \in V : next[i][v] = KeepNearer(car, v, carArray[i])
      OBVIOUS
<1> HIDE DEF next
<1>4. IsBody(next, V, n)
      BY <1>2, <1>3 DEF IsBody
<1>5. PICK g : IsRun(g, next, Nobody, V, n)
      BY <1>1, <1>2, <1>4, LoopExists
<1>6. \A i \in 1..n : g[i] = KeepNearer(car, g[i - 1], carArray[i])
      BY <1>1, <1>3, <1>5 DEF IsRun
<1>7. g = [i \in 0..n |-> IF i = 0 THEN Nobody ELSE KeepNearer(car, g[i - 1], carArray[i])]
      BY <1>1, <1>5, <1>6 DEF IsRun
<1>8. f = [i \in 0..n |-> IF i = 0 THEN Nobody ELSE KeepNearer(car, f[i - 1], carArray[i])]
      BY <1>7
<1>9. FindClosestCar(car) = f[n]
      BY DEF FindClosestCar, n
<1> HIDE DEF f
<1>10. n \in Nat
       BY <1>1
<1>11. f = g
  <2> DEFINE S == {i \in 0..n : f[i] = g[i]}
  <2>1. 0 \in S
    <3>1. f[0] = Nobody /\ 0 \in 0..n
          BY <1>8, <1>10
    <3>2. QED BY <1>5, <3>1 DEF IsRun
  <2>2. \A i \in 1..n : i - 1 \in S => i \in S
        BY <1>6, <1>8, <1>10
  <2>3. 0..n \subseteq S
    <3> HIDE DEF S
    <3> QED BY <1>10, <2>1, <2>2, EveryRound
  <2>4. QED BY <1>5, <1>8, <2>3 DEF IsRun
<1>12. QED BY <1>5, <1>6, <1>9, <1>11 DEF n, V, IsRun

\* The loop of isStreetFree.
LEMMA FreeRounds ==
  ASSUME NEW a \in Places, NEW b \in Places, carArray \in Seq(Cars)
  PROVE  \E g \in [0..Len(carArray) -> Cars \cup {Nobody}] :
           /\ g[0] = Nobody
           /\ \A i \in 1..Len(carArray) : g[i] = KeepFurthest(a, b, g[i - 1], carArray[i])
           /\ IsStreetFree(a, b) = g[Len(carArray)]
<1> DEFINE n == Len(carArray)
           V == Cars \cup {Nobody}
           next == [i \in 1..n |-> [v \in V |-> KeepFurthest(a, b, v, carArray[i])]]
           f == CHOOSE h : h = [i \in 0..n |-> IF i = 0 THEN Nobody
                                               ELSE KeepFurthest(a, b, h[i - 1], carArray[i])]
<1>1. n \in Nat /\ \A i \in 1..n : carArray[i] \in Cars
      OBVIOUS
<1>2. Nobody \in V /\ \A i \in 1..n, v \in V : KeepFurthest(a, b, v, carArray[i]) \in V
      BY <1>1 DEF KeepFurthest
<1> HIDE DEF n, V
<1>3. \A i \in 1..n, v \in V : next[i][v] = KeepFurthest(a, b, v, carArray[i])
      OBVIOUS
<1> HIDE DEF next
<1>4. IsBody(next, V, n)
      BY <1>2, <1>3 DEF IsBody
<1>5. PICK g : IsRun(g, next, Nobody, V, n)
      BY <1>1, <1>2, <1>4, LoopExists
<1>6. \A i \in 1..n : g[i] = KeepFurthest(a, b, g[i - 1], carArray[i])
      BY <1>1, <1>3, <1>5 DEF IsRun
<1>7. g = [i \in 0..n |-> IF i = 0 THEN Nobody ELSE KeepFurthest(a, b, g[i - 1], carArray[i])]
      BY <1>1, <1>5, <1>6 DEF IsRun
<1>8. f = [i \in 0..n |-> IF i = 0 THEN Nobody ELSE KeepFurthest(a, b, f[i - 1], carArray[i])]
      BY <1>7
<1>9. IsStreetFree(a, b) = f[n]
      BY DEF IsStreetFree, n
<1> HIDE DEF f
<1>10. n \in Nat
       BY <1>1
<1>11. f = g
  <2> DEFINE S == {i \in 0..n : f[i] = g[i]}
  <2>1. 0 \in S
    <3>1. f[0] = Nobody /\ 0 \in 0..n
          BY <1>8, <1>10
    <3>2. QED BY <1>5, <3>1 DEF IsRun
  <2>2. \A i \in 1..n : i - 1 \in S => i \in S
        BY <1>6, <1>8, <1>10
  <2>3. 0..n \subseteq S
    <3> HIDE DEF S
    <3> QED BY <1>10, <2>1, <2>2, EveryRound
  <2>4. QED BY <1>5, <1>8, <2>3 DEF IsRun
<1>12. QED BY <1>5, <1>6, <1>9, <1>11 DEF n, V, IsRun

\* A loop that keeps the better of the wanted cars has the best one in the end, when
\* what is not worse than something not worse is itself not worse.
IsOrder(better) ==
  /\ \A c, d \in Cars : <<c, d>> \in better => <<d, c>> \notin better
  /\ \A c, d, e \in Cars : <<c, d>> \in better => <<c, e>> \in better \/ <<e, d>> \in better

KeepsBetter(g, list, wanted, better) ==
  /\ g \in [0..Len(list) -> Cars \cup {Nobody}]
  /\ g[0] = Nobody
  /\ \A i \in 1..Len(list) :
       g[i] = IF list[i] \in wanted /\ (g[i - 1] # Nobody => <<list[i], g[i - 1]>> \in better)
              THEN list[i] ELSE g[i - 1]

IsBest(found, list, wanted, better) ==
  /\ found = Nobody => \A j \in 1..Len(list) : list[j] \notin wanted
  /\ found # Nobody =>
       /\ found \in wanted /\ \E j \in 1..Len(list) : found = list[j]
       /\ \A j \in 1..Len(list) : list[j] \in wanted => <<list[j], found>> \notin better

LEMMA BestIsKept ==
  ASSUME NEW list \in Seq(Cars), NEW wanted, NEW better, IsOrder(better),
         NEW g, KeepsBetter(g, list, wanted, better)
  PROVE  IsBest(g[Len(list)], list, wanted, better)
<1> DEFINE n == Len(list)
           Best(i) ==
             /\ g[i] = Nobody => \A j \in 1..i : list[j] \notin wanted
             /\ g[i] # Nobody =>
                  /\ g[i] \in wanted /\ \E j \in 1..i : g[i] = list[j]
                  /\ \A j \in 1..i : list[j] \in wanted => <<list[j], g[i]>> \notin better
           S == {i \in 0..n : Best(i)}
<1>1. n \in Nat /\ \A j \in 1..n : list[j] \in Cars /\ list[j] # Nobody
      BY NobodyAssumption
<1>2. 0 \in S
      BY <1>1 DEF KeepsBetter
<1>3. ASSUME NEW i \in 1..n, i - 1 \in S PROVE i \in S
  <2>1. Best(i - 1) /\ i - 1 \in 0..n /\ g[i - 1] \in Cars \cup {Nobody}
        BY <1>1, <1>3 DEF KeepsBetter
  <2>2. list[i] \in Cars /\ list[i] # Nobody /\ \A j \in 1..i : j = i \/ j \in 1..(i - 1)
        BY <1>1
  <2> DEFINE kept == list[i] \in wanted /\ (g[i - 1] # Nobody => <<list[i], g[i - 1]>> \in better)
  <2>3. CASE kept
    <3>1. g[i] = list[i]
          BY <2>3 DEF KeepsBetter
    <3>2. \A j \in 1..i : list[j] \in wanted => <<list[j], list[i]>> \notin better
      <4>1. ASSUME NEW j \in 1..(i - 1), list[j] \in wanted PROVE <<list[j], list[i]>> \notin better
        <5>1. g[i - 1] # Nobody /\ <<list[j], g[i - 1]>> \notin better
              BY <2>1, <4>1
        <5>2. <<list[i], g[i - 1]>> \in better /\ g[i - 1] \in Cars /\ list[j] \in Cars
              BY <1>1, <2>1, <2>3, <5>1
        <5>3. <<list[j], list[i]>> \in better => <<list[j], g[i - 1]>> \in better \/ <<g[i - 1], list[i]>> \in better
              BY <2>2, <5>2 DEF IsOrder
        <5>4. <<g[i - 1], list[i]>> \notin better
              BY <2>2, <5>2 DEF IsOrder
        <5>5. QED BY <5>1, <5>3, <5>4
      <4>2. <<list[i], list[i]>> \notin better
            BY <2>2 DEF IsOrder
      <4>3. QED BY <2>2, <4>1, <4>2
    <3>3. QED BY <2>2, <2>3, <3>1, <3>2
  <2>4. CASE ~kept
    <3>1. g[i] = g[i - 1]
          BY <2>4 DEF KeepsBetter
    <3>2. QED BY <2>1, <2>2, <2>4, <3>1
  <2>5. QED BY <2>3, <2>4
<1>4. 0..n \subseteq S
  <2> HIDE DEF S, n
  <2> QED BY <1>1, <1>2, <1>3, EveryRound
<1>5. Best(n)
      BY <1>1, <1>4
<1>6. QED BY <1>5 DEF IsBest

(***************************************************************************)
(* The list of cars.                                                       *)
(***************************************************************************)
\* The order of the street.
LEMMA BeyondIsOrder ==
  ASSUME direction \in 0..3, NEW a \in Int, NEW b \in Int, NEW c \in Int
  PROVE  /\ Beyond(a, b) => ~Beyond(b, a)
         /\ Beyond(a, b) => Beyond(a, c) \/ Beyond(c, b)
         /\ Beyond(a, b) \/ Beyond(b, a) \/ a = b
BY DEF Beyond

\* findClosestCar and isStreetFree, whatever the order of the list.
LEMMA SearchesAreRight ==
  ASSUME direction \in 0..3, place \in [Cars -> Places], carArray \in Seq(Cars)
  PROVE  SearchesFindNearest
<1>1. \A c \in Cars : place[c] \in Int
      BY PlacesAssumption
<1>2. \A c : c \in ToSet(carArray) <=> \E j \in 1..Len(carArray) : c = carArray[j]
      BY DEF ToSet
<1>3. ToSet(carArray) \subseteq Cars
      BY <1>2
<1>4. ASSUME NEW car \in Cars
      PROVE  LET ahead == {c \in ToSet(carArray) : Beyond(place[c], place[car])}
                 found == FindClosestCar(car)
             IN IF ahead = {} THEN found = Nobody
                ELSE found \in ahead /\ \A c \in ahead : ~Beyond(place[found], place[c])
  <2> DEFINE wanted == {c \in Cars : Beyond(place[c], place[car])}
             better == {p \in Cars \X Cars : Beyond(place[p[2]], place[p[1]])}
  <2>1. PICK g \in [0..Len(carArray) -> Cars \cup {Nobody}] :
           /\ g[0] = Nobody
           /\ \A i \in 1..Len(carArray) : g[i] = KeepNearer(car, g[i - 1], carArray[i])
           /\ FindClosestCar(car) = g[Len(carArray)]
        BY ClosestRounds
  <2>2. KeepsBetter(g, carArray, wanted, better)
    <3>1. \A i \in 1..Len(carArray) : carArray[i] \in Cars /\ i - 1 \in 0..Len(carArray)
          OBVIOUS
    <3>2. \A i \in 1..Len(carArray) : g[i - 1] \in Cars \cup {Nobody}
          BY <3>1
    <3>3. QED BY <2>1, <3>1, <3>2 DEF KeepsBetter, KeepNearer
  <2>3. IsOrder(better)
        BY <1>1, BeyondIsOrder DEF IsOrder
  <2>4. /\ \A c \in Cars : c \in wanted <=> Beyond(place[c], place[car])
        /\ \A c, d \in Cars : <<c, d>> \in better <=> Beyond(place[d], place[c])
        OBVIOUS
  <2> HIDE DEF wanted, better
  <2> DEFINE found == FindClosestCar(car)
  <2>5. IsBest(found, carArray, wanted, better)
        BY <2>1, <2>2, <2>3, BestIsKept
  <2> HIDE DEF found
  <2> DEFINE ahead == {c \in ToSet(carArray) : Beyond(place[c], place[car])}
  <2>6. \A c : c \in ahead <=> c \in wanted /\ \E j \in 1..Len(carArray) : c = carArray[j]
        BY <1>2, <1>3, <2>4
  <2> HIDE DEF ahead
  <2>7. found = Nobody => ahead = {}
        BY <2>5, <2>6 DEF IsBest
  <2>8. found # Nobody => found \in ahead /\ \A c \in ahead : ~Beyond(place[found], place[c])
    <3>1. ASSUME found # Nobody PROVE found \in ahead /\ found \in Cars
          BY <1>2, <1>3, <2>5, <2>6, <3>1 DEF IsBest
    <3>2. ASSUME found # Nobody, NEW c \in ahead PROVE ~Beyond(place[found], place[c])
      <4>1. <<c, found>> \notin better /\ c \in Cars /\ found \in Cars
            BY <1>2, <1>3, <2>5, <2>6, <3>1, <3>2 DEF IsBest
      <4>2. QED BY <2>4, <4>1
    <3>3. QED BY <3>1, <3>2
  <2>9. QED BY <2>7, <2>8 DEF ahead, found
<1>5. ASSUME NEW a \in Places, NEW b \in Places
      PROVE  LET inside == {c \in ToSet(carArray) : place[c] \in (a+1)..(b-1) \cup (b+1)..(a-1)}
                 found == IsStreetFree(a, b)
             IN IF inside = {} THEN found = Nobody
                ELSE found \in inside /\ \A c \in inside : ~Beyond(place[c], place[found])
  <2> DEFINE wanted == {c \in Cars : Inside(place[c], a, b)}
             better == {p \in Cars \X Cars : Beyond(place[p[1]], place[p[2]])}
  <2>1. PICK g \in [0..Len(carArray) -> Cars \cup {Nobody}] :
           /\ g[0] = Nobody
           /\ \A i \in 1..Len(carArray) : g[i] = KeepFurthest(a, b, g[i - 1], carArray[i])
           /\ IsStreetFree(a, b) = g[Len(carArray)]
        BY FreeRounds
  <2>2. KeepsBetter(g, carArray, wanted, better)
    <3>1. \A i \in 1..Len(carArray) : carArray[i] \in Cars /\ i - 1 \in 0..Len(carArray)
          OBVIOUS
    <3>2. \A i \in 1..Len(carArray) : g[i - 1] \in Cars \cup {Nobody}
          BY <3>1
    <3>3. QED BY <2>1, <3>1, <3>2 DEF KeepsBetter, KeepFurthest
  <2>3. IsOrder(better)
        BY <1>1, BeyondIsOrder DEF IsOrder
  <2>4. /\ \A c \in Cars : c \in wanted <=> place[c] \in (a+1)..(b-1) \cup (b+1)..(a-1)
        /\ \A c, d \in Cars : <<c, d>> \in better <=> Beyond(place[c], place[d])
        BY <1>1, PlacesAssumption DEF Inside
  <2> HIDE DEF wanted, better
  <2> DEFINE found == IsStreetFree(a, b)
  <2>5. IsBest(found, carArray, wanted, better)
        BY <2>1, <2>2, <2>3, BestIsKept
  <2> HIDE DEF found
  <2> DEFINE inside == {c \in ToSet(carArray) : place[c] \in (a+1)..(b-1) \cup (b+1)..(a-1)}
  <2>6. \A c : c \in inside <=> c \in wanted /\ \E j \in 1..Len(carArray) : c = carArray[j]
        BY <1>2, <1>3, <2>4
  <2> HIDE DEF inside
  <2>7. found = Nobody => inside = {}
        BY <2>5, <2>6 DEF IsBest
  <2>8. found # Nobody => found \in inside /\ \A c \in inside : ~Beyond(place[c], place[found])
    <3>1. ASSUME found # Nobody PROVE found \in inside /\ found \in Cars
          BY <1>2, <1>3, <2>5, <2>6, <3>1 DEF IsBest
    <3>2. ASSUME found # Nobody, NEW c \in inside PROVE ~Beyond(place[c], place[found])
      <4>1. <<c, found>> \notin better /\ c \in Cars /\ found \in Cars
            BY <1>2, <1>3, <2>5, <2>6, <3>1, <3>2 DEF IsBest
      <4>2. QED BY <2>4, <4>1
    <3>3. QED BY <3>1, <3>2
  <2>9. QED BY <2>7, <2>8 DEF inside, found
<1>6. QED BY <1>4, <1>5 DEF SearchesFindNearest

(***************************************************************************)
(* Inserting and removing.                                                 *)
(***************************************************************************)
\* t is s with e put in at m.
IsInserted(t, s, m, e) ==
  /\ Len(t) = Len(s) + 1
  /\ \A j \in 1..(Len(s) + 1) : t[j] = IF j < m THEN s[j] ELSE IF j = m THEN e ELSE s[j - 1]

LEMMA InsertAtProperties ==
  ASSUME NEW S, NEW s \in Seq(S), NEW m \in 1..(Len(s) + 1), NEW e \in S
  PROVE  InsertAt(s, m, e) \in Seq(S) /\ IsInserted(InsertAt(s, m, e), s, m, e)
<1> DEFINE n == Len(s)
           before == SubSeq(s, 1, m - 1)
           after == SubSeq(s, m, n)
           one == <<e>>
<1>1. n \in Nat /\ m \in 1..(n + 1) /\ m \in Int /\ \A j \in 1..n : s[j] \in S
      BY LenProperties, ElementOfSeq
<1>2. before \in Seq(S) /\ Len(before) = m - 1 /\ \A j \in 1..(m - 1) : before[j] = s[j]
  <2>1. \A j \in 1..(m - 1) : s[j] \in S
        BY <1>1
  <2>2. m - 1 \in Int /\ 1 \in Int
        BY <1>1
  <2>3. /\ before \in Seq(S)
        /\ Len(before) = IF 1 <= m - 1 THEN (m - 1) - 1 + 1 ELSE 0
        /\ \A j \in 1..((m - 1) - 1 + 1) : before[j] = s[1 + j - 1]
        BY <2>1, <2>2, SubSeqProperties
  <2>4. QED BY <1>1, <2>3
<1>3. after \in Seq(S) /\ Len(after) = n - m + 1 /\ \A j \in 1..(n - m + 1) : after[j] = s[m + j - 1]
  <2>1. \A j \in m..n : s[j] \in S
        BY <1>1
  <2>2. /\ after \in Seq(S)
        /\ Len(after) = IF m <= n THEN n - m + 1 ELSE 0
        /\ \A j \in 1..(n - m + 1) : after[j] = s[m + j - 1]
        BY <1>1, <2>1, SubSeqProperties
  <2>3. QED BY <1>1, <2>2
<1>4. one \in Seq(S) /\ Len(one) = 1 /\ one[1] = e
      OBVIOUS
<1> HIDE DEF before, after, n, one
<1> DEFINE head == before \o one
<1>5. /\ head \in Seq(S) /\ Len(head) = m
      /\ \A j \in 1..m : head[j] = IF j < m THEN s[j] ELSE e
  <2>1. /\ head \in Seq(S)
        /\ Len(head) = Len(before) + Len(one)
        /\ \A j \in 1..(Len(before) + Len(one)) :
             head[j] = IF j <= Len(before) THEN before[j] ELSE one[j - Len(before)]
        BY <1>2, <1>4, ConcatProperties DEF head
  <2> HIDE DEF head
  <2>2. Len(before) = m - 1 /\ Len(one) = 1 /\ (m - 1) + 1 = m
        BY <1>1, <1>2, <1>4
  <2>3. ASSUME NEW j \in 1..m PROVE head[j] = IF j < m THEN s[j] ELSE e
    <3>1. head[j] = IF j <= m - 1 THEN before[j] ELSE one[j - (m - 1)]
          BY <2>1, <2>2
    <3>2. CASE j < m
      <4>1. j \in 1..(m - 1) /\ j <= m - 1
            BY <1>1, <3>2
      <4>2. before[j] = s[j]
            BY <1>2, <4>1
      <4>3. QED BY <3>1, <3>2, <4>1, <4>2
    <3>3. CASE j = m
      <4>1. ~(j <= m - 1) /\ j - (m - 1) = 1 /\ ~(j < m)
            BY <1>1, <3>3
      <4>2. one[j - (m - 1)] = e
            BY <1>4, <4>1
      <4>3. QED BY <3>1, <4>1, <4>2
    <3>4. QED BY <1>1, <3>2, <3>3
  <2>4. QED BY <2>1, <2>2, <2>3
<1> HIDE DEF head
<1> DEFINE whole == head \o after
<1>6. /\ whole \in Seq(S) /\ Len(whole) = Len(head) + Len(after)
      /\ \A j \in 1..(Len(head) + Len(after)) :
           whole[j] = IF j <= Len(head) THEN head[j] ELSE after[j - Len(head)]
      BY <1>3, <1>5, ConcatProperties DEF whole
<1> HIDE DEF whole
<1>7. InsertAt(s, m, e) = whole
      BY DEF InsertAt, whole, head, before, after, n, one
<1>8. Len(head) + Len(after) = n + 1
      BY <1>1, <1>3, <1>5
<1>9. ASSUME NEW j \in 1..(n + 1)
       PROVE  whole[j] = IF j < m THEN s[j] ELSE IF j = m THEN e ELSE s[j - 1]
  <2>1. whole[j] = IF j <= m THEN head[j] ELSE after[j - m]
        BY <1>5, <1>6, <1>8
  <2>2. CASE j =< m
    <3>1. j \in 1..m
          BY <1>1, <2>2
    <3>2. head[j] = IF j < m THEN s[j] ELSE e
          BY <1>5, <3>1
    <3>3. ~(j < m) => j = m
          BY <1>1, <2>2
    <3>4. QED BY <2>1, <2>2, <3>2, <3>3
  <2>3. CASE j > m
    <3>1. j - m \in 1..(n - m + 1) /\ m + (j - m) - 1 = j - 1 /\ ~(j <= m) /\ ~(j < m) /\ j # m
          BY <1>1, <2>3
    <3>2. after[j - m] = s[m + (j - m) - 1]
          BY <1>3, <3>1
    <3>3. after[j - m] = s[j - 1]
          BY <3>1, <3>2
    <3>4. whole[j] = after[j - m]
          BY <2>1, <3>1
    <3>5. QED BY <3>1, <3>3, <3>4
  <2>4. QED BY <1>1, <2>2, <2>3
<1>10. QED BY <1>6, <1>7, <1>8, <1>9 DEF n, IsInserted

LEMMA RemoveAtProperties ==
  ASSUME NEW S, NEW s \in Seq(S), NEW m \in 1..Len(s)
  PROVE  /\ RemoveAt(s, m) \in Seq(S)
         /\ Len(RemoveAt(s, m)) = Len(s) - 1
         /\ \A j \in 1..(Len(s) - 1) : RemoveAt(s, m)[j] = IF j < m THEN s[j] ELSE s[j + 1]
<1> DEFINE n == Len(s)
           before == SubSeq(s, 1, m - 1)
           after == SubSeq(s, m + 1, n)
<1>1. n \in Nat /\ m \in 1..n /\ m \in Int /\ m + 1 \in Int /\ \A j \in 1..n : s[j] \in S
      BY LenProperties, ElementOfSeq
<1>2. before \in Seq(S) /\ Len(before) = m - 1 /\ \A j \in 1..(m - 1) : before[j] = s[j]
  <2>1. \A j \in 1..(m - 1) : s[j] \in S
        BY <1>1
  <2>2. m - 1 \in Int /\ 1 \in Int
        BY <1>1
  <2>3. /\ before \in Seq(S)
        /\ Len(before) = IF 1 <= m - 1 THEN (m - 1) - 1 + 1 ELSE 0
        /\ \A j \in 1..((m - 1) - 1 + 1) : before[j] = s[1 + j - 1]
        BY <2>1, <2>2, SubSeqProperties
  <2>4. QED BY <1>1, <2>3
<1>3. after \in Seq(S) /\ Len(after) = n - m /\ \A j \in 1..(n - m) : after[j] = s[m + j]
  <2>1. \A j \in (m + 1)..n : s[j] \in S
        BY <1>1
  <2>2. /\ after \in Seq(S)
        /\ Len(after) = IF m + 1 <= n THEN n - (m + 1) + 1 ELSE 0
        /\ \A j \in 1..(n - (m + 1) + 1) : after[j] = s[(m + 1) + j - 1]
        BY <1>1, <2>1, SubSeqProperties
  <2>3. QED BY <1>1, <2>2
<1> HIDE DEF before, after, n
<1>4. /\ before \o after \in Seq(S) /\ Len(before \o after) = Len(before) + Len(after)
      /\ \A j \in 1..(Len(before) + Len(after)) :
           (before \o after)[j] = IF j <= Len(before) THEN before[j] ELSE after[j - Len(before)]
      BY <1>2, <1>3, ConcatProperties
<1>5. RemoveAt(s, m) = before \o after
      BY DEF RemoveAt, before, after, n
<1>6. Len(before) + Len(after) = n - 1
      BY <1>1, <1>2, <1>3
<1>7. ASSUME NEW j \in 1..(n - 1)
      PROVE  (before \o after)[j] = IF j < m THEN s[j] ELSE s[j + 1]
  <2>1. (before \o after)[j] = IF j <= m - 1 THEN before[j] ELSE after[j - (m - 1)]
        BY <1>2, <1>4, <1>6
  <2>2. CASE j < m
    <3>1. j \in 1..(m - 1) /\ j <= m - 1
          BY <1>1, <2>2
    <3>2. QED BY <1>2, <2>1, <2>2, <3>1
  <2>3. CASE ~(j < m)
    <3>1. j - (m - 1) \in 1..(n - m) /\ m + (j - (m - 1)) = j + 1 /\ ~(j <= m - 1)
          BY <1>1, <2>3
    <3>2. QED BY <1>3, <2>1, <2>3, <3>1
  <2>4. QED BY <2>2, <2>3
<1>8. QED BY <1>4, <1>5, <1>6, <1>7 DEF n

\* SelectInSeq is 0 or the least index of what was looked for.
LEMMA LeastIndex ==
  ASSUME NEW n \in Nat, NEW I, I \subseteq 1..n, I # {}
  PROVE  Min(I) \in I /\ \A i \in I : Min(I) =< i
<1>1. I \subseteq Nat
      OBVIOUS
<1>2. \E x \in I : \A y \in I : x =< y
      BY <1>1, LeastNatural
<1>3. QED BY <1>2 DEF Min

(***************************************************************************)
(* The list of lights.                                                     *)
(***************************************************************************)
\* The loop of addLight.
LEMMA ScanRounds ==
  ASSUME NEW light \in Places, lightArray \in Seq(Places)
  PROVE  \E g :
           /\ g[0] = [added |-> FALSE, lights |-> lightArray]
           /\ \A i \in 1..Len(lightArray) : g[i] = InsertBefore(light, g[i - 1], i)
           /\ WithLight(light) = IF g[Len(lightArray)].added THEN g[Len(lightArray)].lights
                                 ELSE Append(lightArray, light)
<1> DEFINE n == Len(lightArray)
           V == {v \in [added : BOOLEAN, lights : Seq(Places)] : Len(v.lights) >= n}
           next == [i \in 1..n |-> [v \in V |-> InsertBefore(light, v, i)]]
           first == [added |-> FALSE, lights |-> lightArray]
           f == CHOOSE h : h = [i \in 0..n |-> IF i = 0 THEN first
                                               ELSE InsertBefore(light, h[i - 1], i)]
<1>1. n \in Nat /\ first \in V
      BY LenProperties
<1>2. ASSUME NEW i \in 1..n, NEW v \in V PROVE InsertBefore(light, v, i) \in V
  <2>1. v.lights \in Seq(Places) /\ i \in 1..(Len(v.lights) + 1) /\ Len(v.lights) \in Nat
        BY <1>1, LenProperties
  <2>2. InsertAt(v.lights, i, light) \in Seq(Places) /\ Len(InsertAt(v.lights, i, light)) >= n
        BY <1>1, <2>1, InsertAtProperties DEF IsInserted
  <2>3. [added |-> TRUE, lights |-> InsertAt(v.lights, i, light)] \in V
        BY <2>2
  <2> HIDE DEF V
  <2>4. QED BY <2>3 DEF InsertBefore
<1> HIDE DEF n, V, first
<1>3. \A i \in 1..n, v \in V : next[i][v] = InsertBefore(light, v, i)
      OBVIOUS
<1> HIDE DEF next
<1>4. IsBody(next, V, n)
      BY <1>2, <1>3 DEF IsBody
<1>5. PICK g : IsRun(g, next, first, V, n)
      BY <1>1, <1>4, LoopExists
<1>6. \A i \in 1..n : g[i] = InsertBefore(light, g[i - 1], i)
      BY <1>1, <1>3, <1>5 DEF IsRun
<1>7. g = [i \in 0..n |-> IF i = 0 THEN first ELSE InsertBefore(light, g[i - 1], i)]
      BY <1>1, <1>5, <1>6 DEF IsRun
<1>8. f = [i \in 0..n |-> IF i = 0 THEN first ELSE InsertBefore(light, f[i - 1], i)]
      BY <1>7
<1>9. WithLight(light) = IF f[n].added THEN f[n].lights ELSE Append(lightArray, light)
      BY DEF WithLight, n, first
<1> HIDE DEF f
<1>10. n \in Nat
       BY <1>1
<1>11. f[0] = first /\ \A i \in 1..n : f[i] = InsertBefore(light, f[i - 1], i)
  <2>1. 0 \in 0..n /\ \A i \in 1..n : i \in 0..n /\ i # 0
        BY <1>10
  <2>2. QED BY <1>8, <2>1
<1>12. QED BY <1>9, <1>11 DEF n, first

\* The new light is put before the first one that is beyond it.
LEMMA LightIsInserted ==
  ASSUME NEW light \in Places, lightArray \in Seq(Places)
  PROVE  /\ WithLight(light) \in Seq(Places)
         /\ \E m \in 1..(Len(lightArray) + 1) :
              /\ \A j \in 1..(m - 1) : ~Beyond(lightArray[j], light)
              /\ m =< Len(lightArray) => Beyond(lightArray[m], light)
              /\ IsInserted(WithLight(light), lightArray, m, light)
<1> DEFINE n == Len(lightArray)
           Passed(i) == \A j \in 1..i : ~Beyond(lightArray[j], light)
           With(m) == [added |-> TRUE, lights |-> InsertAt(lightArray, m, light)]
<1>1. n \in Nat
      BY LenProperties
<1>2. PICK g :
        /\ g[0] = [added |-> FALSE, lights |-> lightArray]
        /\ \A i \in 1..n : g[i] = InsertBefore(light, g[i - 1], i)
        /\ WithLight(light) = IF g[n].added THEN g[n].lights ELSE Append(lightArray, light)
      BY ScanRounds
<1> DEFINE Done(i) ==
      \/ Passed(i) /\ g[i] = [added |-> FALSE, lights |-> lightArray]
      \/ \E m \in 1..i : Passed(m - 1) /\ Beyond(lightArray[m], light) /\ g[i] = With(m)
           S == {i \in 0..n : Done(i)}
<1>3. 0 \in S
  <2>1. Passed(0)
        OBVIOUS
  <2>2. QED BY <1>1, <1>2, <2>1
<1>4. ASSUME NEW i \in 1..n, i - 1 \in S PROVE i \in S
  <2>1. Done(i - 1) /\ g[i] = InsertBefore(light, g[i - 1], i) /\ i \in 0..n /\ i \in 1..i
        BY <1>1, <1>2, <1>4
  <2> HIDE DEF S
  <2>2. CASE Passed(i - 1) /\ g[i - 1] = [added |-> FALSE, lights |-> lightArray]
    <3>1. CASE Beyond(lightArray[i], light)
      <4>1. g[i] = With(i)
            BY <2>1, <2>2, <3>1 DEF InsertBefore
      <4> HIDE DEF With, Passed
      <4>2. Done(i)
            BY <2>1, <2>2, <3>1, <4>1
      <4>3. QED BY <2>1, <4>2 DEF S
    <3>2. CASE ~Beyond(lightArray[i], light)
      <4>1. g[i] = g[i - 1]
            BY <2>1, <2>2, <3>2 DEF InsertBefore
      <4>2. Passed(i)
            BY <2>2, <3>2
      <4> HIDE DEF With, Passed
      <4>3. Done(i)
            BY <2>2, <4>1, <4>2
      <4>4. QED BY <2>1, <4>3 DEF S
    <3>3. QED BY <3>1, <3>2
  <2>3. ASSUME NEW m \in 1..(i - 1), Passed(m - 1), Beyond(lightArray[m], light), g[i - 1] = With(m)
        PROVE  i \in S
    <3>1. g[i] = With(m)
          BY <2>1, <2>3 DEF InsertBefore
    <3> HIDE DEF With, Passed
    <3>2. m \in 1..i
          OBVIOUS
    <3>3. Done(i)
          BY <2>3, <3>1, <3>2
    <3>4. QED BY <2>1, <3>3 DEF S
  <2>4. QED BY <2>1, <2>2, <2>3
<1>5. 0..n \subseteq S
  <2> HIDE DEF S, n
  <2> QED BY <1>1, <1>3, <1>4, EveryRound
<1>6. Done(n)
  <2>1. n \in S
    <3> HIDE DEF S, n
    <3> QED BY <1>1, <1>5
  <2> HIDE DEF Done
  <2>2. QED BY <2>1
<1>7. CASE Passed(n) /\ g[n] = [added |-> FALSE, lights |-> lightArray]
  <2>1. WithLight(light) = Append(lightArray, light)
        BY <1>2, <1>7
  <2>2. /\ Append(lightArray, light) \in Seq(Places) /\ Len(Append(lightArray, light)) = n + 1
        /\ \A j \in 1..n : Append(lightArray, light)[j] = lightArray[j]
        /\ Append(lightArray, light)[n + 1] = light
        BY AppendProperties
  <2> DEFINE new == Append(lightArray, light)
             m == n + 1
  <2> HIDE DEF new, n, Passed
  <2>3. \A j \in 1..(n + 1) : new[j] = IF j < m THEN lightArray[j] ELSE IF j = m THEN light ELSE lightArray[j - 1]
        BY <1>1, <2>2 DEF new
  <2>4. m \in 1..(n + 1) /\ ~(m =< n) /\ m - 1 = n
        BY <1>1
  <2>5. IsInserted(new, lightArray, m, light)
        BY <2>2, <2>3 DEF IsInserted, n, new
  <2>6. QED BY <1>7, <2>1, <2>2, <2>4, <2>5 DEF new, n, Passed
<1>8. ASSUME NEW m \in 1..n, Passed(m - 1), Beyond(lightArray[m], light), g[n] = With(m)
      PROVE  /\ WithLight(light) \in Seq(Places)
             /\ m \in 1..(n + 1) /\ IsInserted(WithLight(light), lightArray, m, light)
  <2>1. WithLight(light) = InsertAt(lightArray, m, light)
        BY <1>2, <1>8
  <2>2. m \in 1..(n + 1)
        BY <1>1
  <2>3. QED BY <2>1, <2>2, InsertAtProperties
<1> HIDE DEF With
<1>9. QED BY <1>6, <1>7, <1>8

(***************************************************************************)
(* Noting indices and removing them from the last to the first.            *)
(***************************************************************************)
\* The indices noted are those of the cars that leave, in ascending order.
Ascending(indices) == \A a, b \in 1..Len(indices) : a < b => indices[a] < indices[b]

IsNoted(indices, gone, n) ==
  /\ indices \in Seq(1..n)
  /\ Ascending(indices)
  /\ \A p \in 1..n : carArray[p] \in gone <=> \E a \in 1..Len(indices) : indices[a] = p

LEMMA RoundNotes ==
  ASSUME NEW n \in Nat, NEW gone, NEW i \in 1..n, NEW noted, IsNoted(noted, gone, i - 1)
  PROVE  IsNoted(NoteIndex(gone, noted, i), gone, i)
<1> DEFINE l == Len(noted)
           new == Append(noted, i)
<1>1. /\ noted \in Seq(1..(i - 1)) /\ l \in Nat /\ \A a \in 1..l : noted[a] \in 1..(i - 1)
      BY LenProperties, ElementOfSeq DEF IsNoted
<1>2. noted \in Seq(1..i)
      BY <1>1
<1>3. \A p \in 1..i : p = i \/ p \in 1..(i - 1)
      OBVIOUS
<1>4. CASE carArray[i] \notin gone
  <2>1. NoteIndex(gone, noted, i) = noted
        BY <1>4 DEF NoteIndex
  <2>2. \A a \in 1..l : noted[a] # i
        BY <1>1
  <2>3. \A p \in 1..i : carArray[p] \in gone <=> \E a \in 1..l : noted[a] = p
        BY <1>3, <1>4, <2>2 DEF IsNoted
  <2>4. QED BY <1>2, <2>1, <2>3 DEF IsNoted
<1>5. CASE carArray[i] \in gone
  <2>1. NoteIndex(gone, noted, i) = new
        BY <1>5 DEF NoteIndex
  <2>2. i \in 1..i
        OBVIOUS
  <2>3. /\ new \in Seq(1..i) /\ Len(new) = l + 1
        /\ \A a \in 1..l : new[a] = noted[a]
        /\ new[l + 1] = i
        BY <1>2, <2>2, AppendProperties
  <2>4. \A a, b \in 1..l : a < b => noted[a] < noted[b]
        BY DEF IsNoted, Ascending
  <2>5. \A p \in 1..(i - 1) : carArray[p] \in gone <=> \E a \in 1..l : noted[a] = p
        BY DEF IsNoted
  <2> HIDE DEF l, new
  <2>6. \A a \in 1..(l + 1) : a = l + 1 \/ a \in 1..l
        BY <1>1
  <2>7. \A a, b \in 1..(l + 1) : a < b => new[a] < new[b]
    <3> SUFFICES ASSUME NEW a \in 1..(l + 1), NEW b \in 1..(l + 1), a < b
                 PROVE  new[a] < new[b]
        OBVIOUS
    <3>1. a \in 1..l
          BY <1>1
    <3>2. CASE b \in 1..l
          BY <2>3, <2>4, <3>1, <3>2
    <3>3. CASE b = l + 1
      <4>1. new[a] = noted[a] /\ noted[a] \in 1..(i - 1) /\ new[b] = i
            BY <1>1, <2>3, <3>1, <3>3
      <4>2. QED BY <4>1
    <3>4. QED BY <2>6, <3>2, <3>3
  <2>8. \A p \in 1..i : carArray[p] \in gone <=> \E a \in 1..(l + 1) : new[a] = p
    <3> SUFFICES ASSUME NEW p \in 1..i
                 PROVE  carArray[p] \in gone <=> \E a \in 1..(l + 1) : new[a] = p
        OBVIOUS
    <3>1. CASE p = i
      <4>1. l + 1 \in 1..(l + 1)
            BY <1>1
      <4>2. QED BY <1>5, <2>3, <3>1, <4>1
    <3>2. CASE p \in 1..(i - 1)
      <4>1. p # i
            BY <3>2
      <4>2. \A a \in 1..(l + 1) : new[a] = p <=> a \in 1..l /\ noted[a] = p
            BY <2>3, <2>6, <4>1
      <4>3. 1..l \subseteq 1..(l + 1)
            BY <1>1
      <4>4. QED BY <2>5, <3>2, <4>2, <4>3
    <3>3. QED BY <1>3, <3>1, <3>2
  <2>9. QED BY <2>1, <2>3, <2>7, <2>8 DEF IsNoted, Ascending
<1>6. QED BY <1>4, <1>5

LEMMA IndicesAreNoted ==
  ASSUME carArray \in Seq(Cars), NEW n \in 0..Len(carArray), NEW gone
  PROVE  IsNoted(ElementsToRemove(gone, n), gone, n)
<1> DEFINE V == Seq(Nat)
           next == [i \in 1..n |-> [v \in V |-> NoteIndex(gone, v, i)]]
           f == CHOOSE h : h = [i \in 0..n |-> IF i = 0 THEN <<>> ELSE NoteIndex(gone, h[i - 1], i)]
<1>1. n \in Nat /\ <<>> \in V
      BY LenProperties
<1>2. \A i \in 1..n, v \in V : NoteIndex(gone, v, i) \in V
  <2> SUFFICES ASSUME NEW i \in 1..n, NEW v \in V PROVE NoteIndex(gone, v, i) \in V
      OBVIOUS
  <2>1. i \in Nat /\ Append(v, i) \in Seq(Nat)
        BY AppendProperties
  <2>2. QED BY <2>1 DEF NoteIndex
<1> HIDE DEF V
<1>3. \A i \in 1..n, v \in V : next[i][v] = NoteIndex(gone, v, i)
      OBVIOUS
<1> HIDE DEF next
<1>4. IsBody(next, V, n)
      BY <1>2, <1>3 DEF IsBody
<1>5. PICK g : IsRun(g, next, <<>>, V, n)
      BY <1>1, <1>4, LoopExists
<1>6. \A i \in 1..n : g[i] = NoteIndex(gone, g[i - 1], i)
      BY <1>1, <1>3, <1>5 DEF IsRun
<1>7. g = [i \in 0..n |-> IF i = 0 THEN <<>> ELSE NoteIndex(gone, g[i - 1], i)]
      BY <1>1, <1>5, <1>6 DEF IsRun
<1>8. f = [i \in 0..n |-> IF i = 0 THEN <<>> ELSE NoteIndex(gone, f[i - 1], i)]
      BY <1>7
<1>9. ElementsToRemove(gone, n) = f[n]
      BY DEF ElementsToRemove
<1> HIDE DEF f
<1>10. f[0] = <<>> /\ \A i \in 1..n : f[i] = NoteIndex(gone, f[i - 1], i)
  <2>1. 0 \in 0..n /\ \A i \in 1..n : i \in 0..n /\ i # 0
        BY <1>1
  <2>2. QED BY <1>8, <2>1
<1> DEFINE S == {i \in 0..n : IsNoted(f[i], gone, i)}
<1>11. 0 \in S
  <2>1. IsNoted(<<>>, gone, 0)
        BY DEF IsNoted, Ascending
  <2>2. QED BY <1>1, <1>10, <2>1
<1>12. \A i \in 1..n : i - 1 \in S => i \in S
  <2> SUFFICES ASSUME NEW i \in 1..n, i - 1 \in S PROVE i \in S
      OBVIOUS
  <2>1. IsNoted(f[i - 1], gone, i - 1) /\ i \in 0..n
        BY <1>1
  <2>2. IsNoted(NoteIndex(gone, f[i - 1], i), gone, i)
        BY <1>1, <2>1, RoundNotes
  <2>3. QED BY <1>10, <2>1, <2>2
<1>13. 0..n \subseteq S
  <2> HIDE DEF S
  <2> QED BY <1>1, <1>11, <1>12, EveryRound
<1>14. QED BY <1>1, <1>9, <1>13

\* What is left of the list after the last k of the indices were removed.
IsLeft(rest, indices, k) ==
  LET taken == {indices[a] : a \in (Len(indices) - k + 1)..Len(indices)} IN
  /\ rest \in Seq(Cars)
  /\ Len(rest) = Len(carArray) - k
  /\ \A p \in 1..Len(carArray) :
       (\A q \in taken : p < q) => p \in 1..Len(rest) /\ rest[p] = carArray[p]
  /\ \A c : (\E i \in 1..Len(rest) : rest[i] = c)
            <=> \E p \in 1..Len(carArray) : p \notin taken /\ carArray[p] = c
  /\ \A i, j \in 1..Len(rest) : i < j =>
       \E p, q \in 1..Len(carArray) : p < q /\ carArray[p] = rest[i] /\ carArray[q] = rest[j]

LEMMA RoundRemoves ==
  ASSUME carArray \in Seq(Cars), \A i, j \in 1..Len(carArray) : carArray[i] = carArray[j] => i = j,
         NEW indices \in Seq(1..Len(carArray)), Ascending(indices),
         NEW k \in 1..Len(indices), NEW rest, IsLeft(rest, indices, k - 1)
  PROVE  IsLeft(RemoveAt(rest, Reverse(indices)[k]), indices, k)
<1> DEFINE n == Len(carArray)
           l == Len(indices)
           r == Len(rest)
           m == indices[l - k + 1]
           old == {indices[a] : a \in (l - (k - 1) + 1)..l}
           taken == {indices[a] : a \in (l - k + 1)..l}
           new == RemoveAt(rest, m)
<1>1. /\ n \in Nat /\ l \in Nat /\ r \in Nat /\ l - k + 1 \in 1..l /\ rest \in Seq(Cars)
      /\ r = n - (k - 1) /\ \A a \in 1..l : indices[a] \in 1..n
  <2>1. n \in Nat /\ l \in Nat /\ rest \in Seq(Cars) /\ r = n - (k - 1)
        BY LenProperties DEF IsLeft
  <2>2. \A a \in 1..l : indices[a] \in 1..n
        BY ElementOfSeq
  <2>3. QED BY <2>1, <2>2, LenProperties
<1>2. Reverse(indices)[k] = m
  <2>1. k \in 1..Len(indices)
        OBVIOUS
  <2>2. QED BY <2>1 DEF Reverse
<1>3. m \in 1..n /\ \A q \in old : q \in 1..n /\ m < q
  <2>1. ASSUME NEW a \in (l - (k - 1) + 1)..l PROVE indices[a] \in 1..n /\ m < indices[a]
    <3>1. a \in 1..l /\ l - k + 1 < a
          BY <1>1
    <3>2. QED BY <1>1, <3>1 DEF Ascending
  <2>2. QED BY <1>1, <2>1
<1>4. \A q : q \in taken <=> q \in old \/ q = m
  <2>1. \A a : a \in (l - k + 1)..l <=> a \in (l - (k - 1) + 1)..l \/ a = l - k + 1
    <3>1. l \in Nat /\ k \in 1..l
          BY <1>1
    <3> HIDE DEF l
    <3>2. l - (k - 1) + 1 = (l - k + 1) + 1 /\ l - k + 1 \in Int /\ l - k + 1 =< l
          BY <3>1
    <3> QED BY <3>1, <3>2
  <2>2. QED BY <2>1
<1>5. /\ \A p \in 1..n : (\A q \in old : p < q) => p \in 1..r /\ rest[p] = carArray[p]
      /\ \A c : (\E i \in 1..r : rest[i] = c) <=> \E p \in 1..n : p \notin old /\ carArray[p] = c
      /\ \A i, j \in 1..r : i < j =>
           \E p, q \in 1..n : p < q /\ carArray[p] = rest[i] /\ carArray[q] = rest[j]
      BY DEF IsLeft
<1> HIDE DEF old, taken
<1>6. m \in 1..r /\ rest[m] = carArray[m]
      BY <1>3, <1>5
<1>7. /\ new \in Seq(Cars) /\ Len(new) = r - 1
      /\ \A j \in 1..(r - 1) : new[j] = IF j < m THEN rest[j] ELSE rest[j + 1]
  <2> HIDE DEF m
  <2>1. rest \in Seq(Cars) /\ m \in 1..Len(rest)
        BY <1>1, <1>6
  <2>2. QED BY <2>1, RemoveAtProperties
<1> DEFINE at(j) == IF j < m THEN j ELSE j + 1
<1>8. /\ \A j \in 1..(r - 1) : at(j) \in 1..r /\ at(j) # m /\ new[j] = rest[at(j)]
      /\ \A i, j \in 1..(r - 1) : i < j => at(i) < at(j)
      /\ \A i \in 1..r : i # m => \E j \in 1..(r - 1) : at(j) = i
  <2> HIDE DEF n, r, m, new
  <2>1. ASSUME NEW j \in 1..(r - 1) PROVE at(j) \in 1..r /\ at(j) # m /\ new[j] = rest[at(j)]
    <3>1. at(j) \in 1..r /\ at(j) # m
          BY <1>1, <1>6
    <3>2. new[j] = IF j < m THEN rest[j] ELSE rest[j + 1]
          BY <1>7
    <3>3. QED BY <3>1, <3>2
  <2>2. \A i, j \in 1..(r - 1) : i < j => at(i) < at(j)
        BY <1>1, <1>6
  <2>3. ASSUME NEW i \in 1..r, i # m PROVE \E j \in 1..(r - 1) : at(j) = i
    <3>1. CASE i < m
      <4>1. i \in 1..(r - 1) /\ at(i) = i
            BY <1>1, <1>6, <3>1
      <4>2. QED BY <4>1
    <3>2. CASE m < i
      <4>1. i - 1 \in 1..(r - 1) /\ at(i - 1) = i
            BY <1>1, <1>6, <3>2
      <4>2. QED BY <4>1
    <3>3. QED BY <1>1, <1>6, <2>3, <3>1, <3>2
  <2>4. QED BY <2>1, <2>2, <2>3
<1> HIDE DEF at, n, r, l, new
<1> SUFFICES IsLeft(new, indices, k)
    BY <1>2 DEF new
<1>9. \A i, j \in 1..(r - 1) : i < j =>
        \E p, q \in 1..n : p < q /\ carArray[p] = new[i] /\ carArray[q] = new[j]
  <2> SUFFICES ASSUME NEW i \in 1..(r - 1), NEW j \in 1..(r - 1), i < j
               PROVE  \E p, q \in 1..n : p < q /\ carArray[p] = new[i] /\ carArray[q] = new[j]
      OBVIOUS
  <2>1. /\ at(i) \in 1..r /\ at(j) \in 1..r /\ at(i) < at(j)
        /\ new[i] = rest[at(i)] /\ new[j] = rest[at(j)]
        BY <1>8
  <2>2. \E p, q \in 1..n : p < q /\ carArray[p] = rest[at(i)] /\ carArray[q] = rest[at(j)]
        BY <1>5, <2>1
  <2>3. QED BY <2>1, <2>2
<1>10. \A i \in 1..r : rest[i] = rest[m] => i = m
  <2>1. SUFFICES ASSUME NEW i \in 1..r, rest[i] = rest[m], i # m PROVE FALSE
        OBVIOUS
  <2>2. \E p, q \in 1..n : p < q /\ carArray[p] = carArray[q]
    <3> HIDE DEF m
    <3>1. CASE i < m
      <4>1. \E p, q \in 1..n : p < q /\ carArray[p] = rest[i] /\ carArray[q] = rest[m]
            BY <1>5, <1>6, <3>1
      <4>2. QED BY <2>1, <4>1
    <3>2. CASE m < i
      <4>1. \E p, q \in 1..n : p < q /\ carArray[p] = rest[m] /\ carArray[q] = rest[i]
            BY <1>5, <1>6, <3>2
      <4>2. QED BY <2>1, <4>1
    <3>3. QED BY <1>6, <2>1, <3>1, <3>2
  <2>3. QED BY <1>1, <2>2 DEF n
<1>11. ASSUME NEW c
       PROVE  (\E i \in 1..(r - 1) : new[i] = c) <=> \E p \in 1..n : p \notin taken /\ carArray[p] = c
  <2>1. (\E i \in 1..(r - 1) : new[i] = c) <=> \E i \in 1..r : i # m /\ rest[i] = c
    <3>1. ASSUME NEW j \in 1..(r - 1), new[j] = c PROVE \E i \in 1..r : i # m /\ rest[i] = c
      <4>1. at(j) \in 1..r /\ at(j) # m /\ new[j] = rest[at(j)]
            BY <1>8
      <4>2. QED BY <3>1, <4>1
    <3>2. ASSUME NEW i \in 1..r, i # m, rest[i] = c PROVE \E j \in 1..(r - 1) : new[j] = c
      <4>1. PICK j \in 1..(r - 1) : at(j) = i
            BY <1>8, <3>2
      <4>2. new[j] = rest[at(j)]
            BY <1>8
      <4>3. QED BY <3>2, <4>1, <4>2
    <3> HIDE DEF m
    <3>3. QED BY <3>1, <3>2
  <2>2. (\E i \in 1..r : i # m /\ rest[i] = c) <=> c # carArray[m] /\ \E i \in 1..r : rest[i] = c
        BY <1>6, <1>10
  <2>3. (\E i \in 1..r : rest[i] = c) <=> \E p \in 1..n : p \notin old /\ carArray[p] = c
        BY <1>5
  <2>4. \A p \in 1..n : carArray[p] = carArray[m] => p = m
        BY <1>3 DEF n
  <2> HIDE DEF m
  <2>5. QED BY <1>4, <2>1, <2>2, <2>3, <2>4
<1>12. ASSUME NEW p \in 1..n, \A q \in taken : p < q PROVE p \in 1..(r - 1) /\ new[p] = carArray[p]
  <2>1. p < m /\ p \in 1..r /\ rest[p] = carArray[p]
        BY <1>4, <1>5, <1>12
  <2>2. p \in 1..(r - 1)
    <3> HIDE DEF m
    <3> QED BY <1>1, <1>6, <2>1
  <2>3. QED BY <1>7, <2>1, <2>2
<1>13. Len(new) = n - k /\ r - 1 = n - k
       BY <1>1, <1>7
<1>14. QED BY <1>7, <1>9, <1>11, <1>12, <1>13 DEF IsLeft, taken, n, l

LEMMA AllAreRemoved ==
  ASSUME carArray \in Seq(Cars), \A i, j \in 1..Len(carArray) : carArray[i] = carArray[j] => i = j,
         NEW indices \in Seq(1..Len(carArray)), Ascending(indices)
  PROVE  IsLeft(RemoveElements(indices, carArray), indices, Len(indices))
<1> DEFINE l == Len(indices)
           V == Seq(Cars)
           Take(v, i) == RemoveAt(v, Reverse(indices)[i])
           next == [i \in 1..l |-> [v \in V |-> IF Take(v, i) \in V THEN Take(v, i) ELSE v]]
           f == CHOOSE h : h = [i \in 0..l |-> IF i = 0 THEN carArray ELSE Take(h[i - 1], i)]
<1>1. l \in Nat /\ carArray \in V
      BY LenProperties
<1>2. RemoveElements(indices, carArray) = f[l]
      BY DEF RemoveElements
<1>3. ASSUME NEW v, NEW i \in 1..l, IsLeft(v, indices, i - 1) PROVE IsLeft(Take(v, i), indices, i)
      BY <1>3, RoundRemoves
<1>4. IsLeft(carArray, indices, 0)
  <2> DEFINE taken == {indices[a] : a \in (l - 0 + 1)..l}
  <2>1. taken = {}
        BY <1>1
  <2> HIDE DEF taken
  <2>2. Len(carArray) \in Nat /\ Len(carArray) = Len(carArray) - 0
        BY LenProperties
  <2>3. QED BY <1>1, <2>1, <2>2 DEF IsLeft, taken, l
<1> HIDE DEF V, Take, l
<1>5. \A i \in 1..l, v \in V : next[i][v] = IF Take(v, i) \in V THEN Take(v, i) ELSE v
      OBVIOUS
<1> HIDE DEF next
<1>6. IsBody(next, V, l)
      BY <1>5 DEF IsBody
<1>7. PICK g : IsRun(g, next, carArray, V, l)
      BY <1>1, <1>6, LoopExists
<1> DEFINE S == {i \in 0..l : IsLeft(g[i], indices, i)}
<1>8. 0 \in S
      BY <1>1, <1>4, <1>7 DEF IsRun
<1>9. ASSUME NEW i \in 1..l, IsLeft(g[i - 1], indices, i - 1)
      PROVE  g[i] = Take(g[i - 1], i) /\ IsLeft(g[i], indices, i)
  <2>1. IsLeft(Take(g[i - 1], i), indices, i)
        BY <1>3, <1>9
  <2>2. Take(g[i - 1], i) \in V /\ g[i - 1] \in V
        BY <1>9, <2>1 DEF IsLeft, V
  <2>3. g[i] = next[i][g[i - 1]]
        BY <1>7 DEF IsRun
  <2>4. QED BY <1>5, <2>1, <2>2, <2>3
<1>10. \A i \in 1..l : i - 1 \in S => i \in S
       BY <1>1, <1>9
<1>11. 0..l \subseteq S
  <2> HIDE DEF S
  <2> QED BY <1>1, <1>8, <1>10, EveryRound
<1>12. \A i \in 1..l : g[i] = Take(g[i - 1], i)
  <2>1. \A i \in 1..l : i - 1 \in 0..l
        BY <1>1
  <2>2. QED BY <1>9, <1>11, <2>1
<1>13. g = [i \in 0..l |-> IF i = 0 THEN carArray ELSE Take(g[i - 1], i)]
       BY <1>1, <1>7, <1>12 DEF IsRun
<1>14. f = [i \in 0..l |-> IF i = 0 THEN carArray ELSE Take(f[i - 1], i)]
       BY <1>13
<1> HIDE DEF f
<1>15. \A i \in 0..l : f[i] = g[i]
  <2> DEFINE T == {i \in 0..l : f[i] = g[i]}
  <2>1. 0 \in T
    <3>1. f[0] = carArray /\ 0 \in 0..l
          BY <1>1, <1>14
    <3>2. QED BY <1>7, <3>1 DEF IsRun
  <2>2. \A i \in 1..l : i - 1 \in T => i \in T
        BY <1>1, <1>12, <1>14
  <2>3. 0..l \subseteq T
    <3> HIDE DEF T
    <3> QED BY <1>1, <2>1, <2>2, EveryRound
  <2>4. QED BY <2>3
<1>16. IsLeft(f[l], indices, l)
       BY <1>1, <1>11, <1>15
<1>17. QED BY <1>2, <1>16 DEF l

(***************************************************************************)
(* The inductive invariant: the lights are in driving order, which makes   *)
(* the first one beyond a car the nearest, and no car is listed twice,     *)
(* which bounds the length of the list.                                    *)
(***************************************************************************)
LightsSorted ==
  \A i, j \in 1..Len(lightArray) : i < j => Beyond(lightArray[j], lightArray[i])

ListsInv ==
  /\ direction \in 0..3
  /\ lightArray \in Seq(Places) /\ Len(lightArray) =< MaxLights /\ LightsSorted
  /\ carArray \in Seq(Cars) /\ Once(carArray)
  /\ place \in [Cars -> Places]

LEMMA AddLightSorts ==
  ASSUME ListsInv, NEW light \in Places, AddLight(light)
  PROVE  ListsInv'
<1> DEFINE n == Len(lightArray)
           new == WithLight(light)
<1>1. /\ n \in Nat /\ n < MaxLights /\ lightArray' = new
      /\ \A j \in 1..n : lightArray[j] \in Int /\ lightArray[j] # light
      /\ light \in Int
      BY PlacesAssumption, LenProperties DEF ListsInv, AddLight, ToSet
<1>2. PICK m \in 1..(n + 1) :
        /\ \A j \in 1..(m - 1) : ~Beyond(lightArray[j], light)
        /\ m =< n => Beyond(lightArray[m], light)
        /\ IsInserted(new, lightArray, m, light)
      BY LightIsInserted DEF ListsInv
<1>3. new \in Seq(Places) /\ Len(new) = n + 1
      BY <1>2, LightIsInserted DEF ListsInv, IsInserted
<1>4. \A i, j \in 1..n : i < j => Beyond(lightArray[j], lightArray[i])
      BY DEF ListsInv, LightsSorted
<1> HIDE DEF n, new
\* The lights before m are not beyond the new one, those from m on are.
<1>5. \A j \in 1..(m - 1) : Beyond(light, lightArray[j])
  <2> SUFFICES ASSUME NEW j \in 1..(m - 1) PROVE Beyond(light, lightArray[j])
      OBVIOUS
  <2>1. j \in 1..n /\ ~Beyond(lightArray[j], light)
        BY <1>1, <1>2
  <2>2. QED BY <1>1, <2>1, BeyondIsOrder DEF ListsInv
<1>6. \A j \in m..n : Beyond(lightArray[j], light)
  <2> SUFFICES ASSUME NEW j \in m..n PROVE Beyond(lightArray[j], light)
      OBVIOUS
  <2>1. j \in 1..n /\ m \in 1..n /\ Beyond(lightArray[m], light)
        BY <1>1, <1>2
  <2>2. CASE j = m
        BY <2>1, <2>2
  <2>3. CASE j # m
    <3>1. Beyond(lightArray[j], lightArray[m])
          BY <1>4, <2>1, <2>3
    <3>2. ~Beyond(light, lightArray[m])
          BY <1>1, <2>1, BeyondIsOrder DEF ListsInv
    <3>3. Beyond(lightArray[j], light) \/ Beyond(light, lightArray[m])
          BY <1>1, <2>1, <3>1, BeyondIsOrder DEF ListsInv
    <3>4. QED BY <3>2, <3>3
  <2>4. QED BY <2>2, <2>3
<1>7. ASSUME NEW i \in 1..(n + 1), NEW j \in 1..(n + 1), i < j PROVE Beyond(new[j], new[i])
  <2>1. /\ new[i] = IF i < m THEN lightArray[i] ELSE IF i = m THEN light ELSE lightArray[i - 1]
        /\ new[j] = IF j < m THEN lightArray[j] ELSE IF j = m THEN light ELSE lightArray[j - 1]
        BY <1>2 DEF IsInserted, n
  <2>2. CASE j < m
    <3>1. i \in 1..n /\ j \in 1..n /\ i < m
          BY <1>1, <1>7, <2>2
    <3>2. QED BY <1>4, <1>7, <2>1, <2>2, <3>1
  <2>3. CASE j = m
    <3>1. i \in 1..(m - 1) /\ i < m /\ ~(j < m)
          BY <1>1, <1>7, <2>3
    <3>2. QED BY <1>5, <2>1, <2>3, <3>1
  <2>4. CASE i = m
    <3>1. j - 1 \in m..n /\ ~(j < m) /\ j # m /\ ~(i < m)
          BY <1>1, <1>7, <2>4
    <3>2. QED BY <1>6, <2>1, <2>4, <3>1
  <2>5. CASE i > m
    <3>1. /\ i - 1 \in 1..n /\ j - 1 \in 1..n /\ i - 1 < j - 1
          /\ ~(i < m) /\ i # m /\ ~(j < m) /\ j # m
          BY <1>1, <1>7, <2>5
    <3>2. QED BY <1>4, <2>1, <3>1
  <2>6. CASE i < m /\ m < j
    <3>1. i \in 1..n /\ j - 1 \in 1..n /\ i < j - 1 /\ ~(j < m) /\ j # m
          BY <1>1, <1>7, <2>6
    <3>2. QED BY <1>4, <2>1, <2>6, <3>1
  <2>7. QED BY <1>1, <1>7, <2>2, <2>3, <2>4, <2>5, <2>6
<1>8. direction' = direction /\ \A a, b : Beyond(a, b)' <=> Beyond(a, b)
      BY DEF AddLight, Beyond
<1>9. LightsSorted'
  <2>1. SUFFICES ASSUME NEW i \in 1..(n + 1), NEW j \in 1..(n + 1), i < j
                 PROVE  Beyond(new[j], new[i])
        BY <1>1, <1>3, <1>8 DEF LightsSorted, Beyond
  <2>2. QED BY <1>7, <2>1
<1>10. n + 1 =< MaxLights
       BY <1>1, BoundsAssumption
<1>11. QED BY <1>1, <1>3, <1>8, <1>9, <1>10 DEF ListsInv, Once, AddLight

LEMMA AddCarKeepsOnce ==
  ASSUME ListsInv, NEW car \in Cars, AddCar(car)
  PROVE  ListsInv'
<1> DEFINE n == Len(carArray)
           new == Append(carArray, car)
<1>1. /\ n \in Nat /\ carArray' = new
      /\ UNCHANGED <<direction, lightArray, place>>
      /\ \A j \in 1..n : carArray[j] # car
      BY LenProperties DEF ListsInv, AddCar, ToSet
<1>2. /\ new \in Seq(Cars) /\ Len(new) = n + 1
      /\ \A j \in 1..n : new[j] = carArray[j]
      /\ new[n + 1] = car
      BY AppendProperties DEF ListsInv
<1>3. \A i, j \in 1..n : carArray[i] = carArray[j] => i = j
      BY DEF ListsInv, Once
<1> HIDE DEF n, new
<1>4. \A i, j \in 1..(n + 1) : new[i] = new[j] => i = j
  <2>1. \A i \in 1..(n + 1) : i \in 1..n \/ i = n + 1
        BY <1>1
  <2>2. QED BY <1>1, <1>2, <1>3, <2>1
<1>5. Once(carArray)'
      BY <1>1, <1>2, <1>4 DEF Once
<1>6. QED BY <1>1, <1>2, <1>5 DEF ListsInv, LightsSorted, Beyond

LEMMA RemoveCarKeepsOnce ==
  ASSUME ListsInv, NEW car \in Cars, RemoveCar(car)
  PROVE  ListsInv'
<1> DEFINE n == Len(carArray)
           I == {i \in 1..n : carArray[i] = car}
           new == RemoveAt(carArray, Min(I))
<1>1. /\ n \in Nat /\ UNCHANGED <<direction, lightArray, place>>
      /\ carArray' = RemoveFirst(carArray, car)
      BY LenProperties DEF ListsInv, RemoveCar
<1>2. CASE I = {}
  <2>1. carArray' = carArray
        BY <1>1, <1>2 DEF RemoveFirst
  <2>2. QED BY <1>1, <2>1 DEF ListsInv, Once, LightsSorted, Beyond
<1>3. CASE I # {}
  <2>1. carArray' = new
        BY <1>1, <1>3 DEF RemoveFirst, SelectInSeq
  <2>2. Min(I) \in 1..n
    <3>1. I \subseteq 1..n
          OBVIOUS
    <3> HIDE DEF I, n
    <3>2. QED BY <1>1, <1>3, <3>1, LeastIndex
  <2> DEFINE m == Min(I)
  <2> HIDE DEF m
  <2>3. /\ new \in Seq(Cars) /\ Len(new) = n - 1 /\ m \in 1..n
        /\ \A j \in 1..(n - 1) : new[j] = IF j < m THEN carArray[j] ELSE carArray[j + 1]
        BY <2>2, RemoveAtProperties DEF ListsInv, m
  <2>4. \A i, j \in 1..n : carArray[i] = carArray[j] => i = j
        BY DEF ListsInv, Once
  <2> HIDE DEF n, new
  <2>5. ASSUME NEW i \in 1..(n - 1), NEW j \in 1..(n - 1), new[i] = new[j] PROVE i = j
    <3> DEFINE at(k) == IF k < m THEN k ELSE k + 1
    <3>1. \A k \in 1..(n - 1) : at(k) \in 1..n /\ new[k] = carArray[at(k)]
          BY <1>1, <2>3
    <3>2. at(i) = at(j)
      <4> HIDE DEF at
      <4> QED BY <2>4, <2>5, <3>1
    <3>3. QED BY <1>1, <2>3, <3>2
  <2>6. Once(carArray)'
        BY <2>1, <2>3, <2>5 DEF Once
  <2>7. QED BY <1>1, <2>1, <2>3, <2>6 DEF ListsInv, LightsSorted, Beyond
<1>4. QED BY <1>2, <1>3

LEMMA ListsAlways == Spec => []ListsInv
<1>1. Init => ListsInv
  <2> SUFFICES ASSUME Init PROVE ListsInv
      OBVIOUS
  <2>1. Len(lightArray) = 0 /\ Len(carArray) = 0 /\ lightArray \in Seq(Places) /\ carArray \in Seq(Cars)
        BY DEF Init
  <2>2. QED BY <2>1, BoundsAssumption DEF Init, ListsInv, LightsSorted, Once, Left, Right, Down, Up
<1>2. ListsInv /\ [Next]_vars => ListsInv'
  <2> SUFFICES ASSUME ListsInv, [Next]_vars PROVE ListsInv'
      OBVIOUS
  <2>1. CASE UNCHANGED vars
        BY <2>1 DEF vars, ListsInv, LightsSorted, Once, Beyond
  <2>2. ASSUME NEW p \in Places, AddLight(p) PROVE ListsInv'
        BY <2>2, AddLightSorts
  <2>3. ASSUME NEW c \in Cars, AddCar(c) \/ RemoveCar(c) PROVE ListsInv'
        BY <2>3, AddCarKeepsOnce, RemoveCarKeepsOnce
  <2>4. QED BY <2>1, <2>2, <2>3 DEF Next
<1>3. QED BY <1>1, <1>2, PTL DEF Spec

(***************************************************************************)
(* The theorems.                                                           *)
(***************************************************************************)
LEMMA ShortIsBounded ==
  ASSUME NEW S, NEW s \in Seq(S), NEW n \in Nat, Len(s) =< n
  PROVE  s \in BoundedSeq(S, n)
<1>1. Len(s) \in 0..n /\ s \in [1..Len(s) -> S]
      BY LenProperties
<1>2. QED BY <1>1 DEF BoundedSeq, SeqOf

\* The lists hold lights and cars of the street, each of them once: addLight inserts the
\* light once although it goes on scanning (LeftStreet.addLight), and two lights in
\* driving order are not the same.
THEOREM ListsTypes == Spec => []TypeOK
<1>1. ListsInv => TypeOK
  <2> SUFFICES ASSUME ListsInv PROVE TypeOK
      OBVIOUS
  <2>1. lightArray \in BoundedSeq(Places, MaxLights)
        BY BoundsAssumption, ShortIsBounded DEF ListsInv
  <2>2. carArray \in BoundedSeq(Cars, Cardinality(Cars))
    <3>1. Len(carArray) \in Nat /\ carArray \in [1..Len(carArray) -> Cars]
          BY LenProperties DEF ListsInv
    <3>2. carArray \in Injection(1..Len(carArray), Cars)
          BY <3>1 DEF ListsInv, Once, Injection, IsInjective
    <3>3. Cardinality(1..Len(carArray)) =< Cardinality(Cars) /\ Cardinality(Cars) \in Nat
          BY <3>2, BoundsAssumption, FS_Injection, FS_CardinalityType
    <3>4. Cardinality(1..Len(carArray)) = Len(carArray)
      <4>1. \A k \in Nat : Cardinality(1..k) = k
        <5>1. \A k \in Nat : Cardinality(1..k) = IF 1 > k THEN 0 ELSE k - 1 + 1
              BY FS_Interval
        <5>2. QED BY <5>1
      <4>2. QED BY <3>1, <4>1
    <3>5. QED BY <3>3, <3>4, ShortIsBounded DEF ListsInv
  <2>3. Once(lightArray)
    <3> SUFFICES ASSUME NEW i \in 1..Len(lightArray), NEW j \in 1..Len(lightArray),
                        lightArray[i] = lightArray[j], i # j
                 PROVE  FALSE
        BY DEF Once
    <3>1. Len(lightArray) \in Nat /\ lightArray[i] \in Int
          BY PlacesAssumption, LenProperties DEF ListsInv
    <3>2. Beyond(lightArray[j], lightArray[i]) \/ Beyond(lightArray[i], lightArray[j])
          BY <3>1 DEF ListsInv, LightsSorted
    <3>3. QED BY <3>1, <3>2 DEF Beyond
  <2>4. QED BY <2>1, <2>2, <2>3 DEF ListsInv, Once, TypeOK
<1>2. QED BY <1>1, ListsAlways, PTL

\* Whatever the order in which the intersections place their lights, lightFinder returns
\* the nearest light ahead of a car.
THEOREM FinderIsRight == Spec => []LightFinderIsNearest
<1>1. ListsInv => LightFinderIsNearest
  <2> SUFFICES ASSUME ListsInv, NEW at \in Places
               PROVE  LET beyond == {p \in ToSet(lightArray) : Beyond(p, at)} IN
                        IF beyond = {} THEN LightFinder(at) = Nobody
                        ELSE /\ LightFinder(at) \in beyond
                             /\ \A p \in beyond : ~Beyond(LightFinder(at), p)
      BY DEF LightFinderIsNearest
  <2> DEFINE n == Len(lightArray)
             I == {i \in 1..n : Beyond(lightArray[i], at)}
             beyond == {p \in ToSet(lightArray) : Beyond(p, at)}
  <2>1. n \in Nat /\ \A i \in 1..n : lightArray[i] \in Int
        BY LenProperties, PlacesAssumption DEF ListsInv
  <2>2. \A p : p \in beyond <=> \E i \in I : p = lightArray[i]
        BY DEF ToSet, ListsInv
  <2>3. LightFinder(at) = IF I = {} THEN Nobody ELSE lightArray[Min(I)]
    <3>1. I # {} => Min(I) \in I
      <4>1. I \subseteq 1..n
            OBVIOUS
      <4> HIDE DEF I, n
      <4>2. QED BY <2>1, <4>1, LeastIndex
    <3>2. I # {} => Min(I) # 0
          BY <3>1
    <3>3. QED BY <3>2 DEF LightFinder, SelectInSeq
  <2>4. CASE I = {}
        BY <2>2, <2>3, <2>4
  <2>5. CASE I # {}
    <3>1. Min(I) \in I /\ \A i \in I : Min(I) =< i
      <4>1. I \subseteq 1..n
            OBVIOUS
      <4> HIDE DEF I, n
      <4>2. QED BY <2>1, <2>5, <4>1, LeastIndex
    <3>2. ASSUME NEW i \in I PROVE ~Beyond(lightArray[Min(I)], lightArray[i])
      <4>1. i \in 1..n /\ Min(I) \in 1..n /\ Min(I) =< i
            BY <3>1
      <4> HIDE DEF I, n
      <4>2. i = Min(I) \/ Beyond(lightArray[i], lightArray[Min(I)])
            BY <4>1 DEF ListsInv, LightsSorted, n
      <4>3. QED BY <2>1, <4>1, <4>2, BeyondIsOrder DEF ListsInv
    <3> HIDE DEF I, beyond
    <3>3. beyond # {} /\ LightFinder(at) \in beyond
          BY <2>2, <2>3, <2>5, <3>1
    <3>4. \A p \in beyond : ~Beyond(LightFinder(at), p)
          BY <2>2, <2>3, <2>5, <3>2
    <3>5. QED BY <3>3, <3>4 DEF beyond
  <2>6. QED BY <2>4, <2>5
<1>2. QED BY <1>1, ListsAlways, PTL

\* findClosestCar returns a nearest car ahead and isStreetFree the furthest car in the
\* window, for any order of the list and any number of cars.
THEOREM SearchesAreRightAlways == Spec => []SearchesFindNearest
<1>1. ListsInv => SearchesFindNearest
      BY SearchesAreRight DEF ListsInv
<1>2. QED BY <1>1, ListsAlways, PTL

\* removeElementsFromArray takes out the cars whose indices the loop noted and no other,
\* whatever was appended to the list in the meantime.
THEOREM RightOnesRemoved == Spec => []RemovalTakesTheRightOnes
<1>1. ListsInv => RemovalTakesTheRightOnes
  <2> SUFFICES ASSUME ListsInv, NEW n \in 0..Len(carArray), NEW gone,
                      gone \subseteq {carArray[i] : i \in 1..n}
               PROVE  LET rest == RemoveElements(ElementsToRemove(gone, n), carArray) IN
                        /\ ToSet(rest) = ToSet(carArray) \ gone
                        /\ \A i, j \in 1..Len(rest) : i < j =>
                             \E p, q \in 1..Len(carArray) :
                               p < q /\ carArray[p] = rest[i] /\ carArray[q] = rest[j]
      BY DEF RemovalTakesTheRightOnes
  <2> DEFINE indices == ElementsToRemove(gone, n)
             rest == RemoveElements(indices, carArray)
             l == Len(indices)
             taken == {indices[a] : a \in (l - l + 1)..l}
  <2>1. carArray \in Seq(Cars) /\ \A i, j \in 1..Len(carArray) : carArray[i] = carArray[j] => i = j
        BY DEF ListsInv, Once
  <2>2. IsNoted(indices, gone, n)
        BY <2>1, IndicesAreNoted
  <2> HIDE DEF indices
  <2>3. indices \in Seq(1..Len(carArray)) /\ Ascending(indices) /\ l \in Nat
    <3>1. indices \in Seq(1..n) /\ 1..n \subseteq 1..Len(carArray) /\ Ascending(indices)
          BY <2>1, <2>2, LenProperties DEF IsNoted
    <3>2. QED BY <3>1, LenProperties
  <2>4. IsLeft(rest, indices, l)
        BY <2>1, <2>3, AllAreRemoved
  <2> HIDE DEF rest
  <2>5. \A p \in 1..Len(carArray) : p \in taken <=> carArray[p] \in gone
    <3>1. \A p : p \in taken <=> \E a \in 1..l : indices[a] = p
          BY <2>3
    <3>2. \A p \in 1..n : p \in taken <=> carArray[p] \in gone
          BY <2>2, <3>1 DEF IsNoted
    <3>3. ASSUME NEW p \in 1..Len(carArray), p \notin 1..n PROVE p \notin taken /\ carArray[p] \notin gone
      <4>1. \A i \in 1..n : i \in 1..Len(carArray) /\ i # p
            BY <2>1, <3>3, LenProperties
      <4>2. carArray[p] \notin gone
            BY <2>1, <4>1
      <4>3. \A a \in 1..l : indices[a] \in 1..n
            BY <2>2, ElementOfSeq DEF IsNoted
      <4>4. QED BY <3>1, <3>3, <4>2, <4>3
    <3>4. QED BY <3>2, <3>3
  <2>6. DOMAIN rest = 1..Len(rest) /\ DOMAIN carArray = 1..Len(carArray)
        BY <2>1, <2>4, LenProperties DEF IsLeft
  <2>7. \A c : (\E i \in 1..Len(rest) : rest[i] = c)
               <=> \E p \in 1..Len(carArray) : p \notin taken /\ carArray[p] = c
        BY <2>4 DEF IsLeft
  <2> HIDE DEF taken
  <2>8. ToSet(rest) = ToSet(carArray) \ gone
    <3>1. /\ \A c : c \in ToSet(rest) <=> \E i \in 1..Len(rest) : rest[i] = c
          /\ \A c : c \in ToSet(carArray) <=> \E p \in 1..Len(carArray) : carArray[p] = c
          BY <2>6 DEF ToSet
    <3>2. QED BY <2>5, <2>7, <3>1
  <2>9. \A i, j \in 1..Len(rest) : i < j =>
          \E p, q \in 1..Len(carArray) : p < q /\ carArray[p] = rest[i] /\ carArray[q] = rest[j]
        BY <2>4 DEF IsLeft
  <2>10. QED BY <2>8, <2>9 DEF rest, indices
<1>2. QED BY <1>1, ListsAlways, PTL

\* addLight loses no light and inserts the new one once.
THEOREM LightsAreKept == Spec => AddLightKeepsLights
<1>1. ASSUME ListsInv, [Next]_vars, lightArray' # lightArray
      PROVE  Len(lightArray') = Len(lightArray) + 1 /\ ToSet(lightArray) \subseteq ToSet(lightArray')
  <2> DEFINE n == Len(lightArray)
  <2>1. PICK light \in Places : AddLight(light)
        BY <1>1 DEF Next, AddCar, RemoveCar, vars
  <2>2. PICK m \in 1..(n + 1) : IsInserted(lightArray', lightArray, m, light)
        BY <1>1, <2>1, LightIsInserted DEF ListsInv, AddLight
  <2>3. lightArray' \in Seq(Places) /\ n \in Nat
        BY <1>1, <2>1, LightIsInserted, LenProperties DEF ListsInv, AddLight
  <2>4. Len(lightArray') = n + 1
        BY <2>2 DEF IsInserted
  <2>5. ASSUME NEW i \in 1..n PROVE \E j \in 1..(n + 1) : lightArray'[j] = lightArray[i]
    <3>1. CASE i < m
      <4>1. i \in 1..(n + 1)
            BY <2>3
      <4>2. lightArray'[i] = lightArray[i]
            BY <2>2, <3>1, <4>1 DEF IsInserted
      <4>3. QED BY <4>1, <4>2
    <3>2. CASE ~(i < m)
      <4>1. i + 1 \in 1..(n + 1) /\ ~(i + 1 < m) /\ i + 1 # m /\ (i + 1) - 1 = i
            BY <2>3, <3>2
      <4>2. lightArray'[i + 1] = lightArray[i]
            BY <2>2, <4>1 DEF IsInserted
      <4>3. QED BY <4>1, <4>2
    <3>3. QED BY <3>1, <3>2
  <2>6. DOMAIN lightArray = 1..n /\ DOMAIN lightArray' = 1..(n + 1)
        BY <1>1, <2>3, <2>4, LenProperties DEF ListsInv
  <2> HIDE DEF n
  <2>7. QED BY <2>4, <2>5, <2>6 DEF ToSet, n
<1>2. ListsInv /\ [Next]_vars =>
        [lightArray' # lightArray =>
           /\ Len(lightArray') = Len(lightArray) + 1
           /\ ToSet(lightArray) \subseteq ToSet(lightArray')]_vars
      BY <1>1
<1>3. QED BY <1>2, ListsAlways, PTL DEF Spec, AddLightKeepsLights

=============================================================================
