---------------------------- MODULE GenericProofs ----------------------------
(***************************************************************************)
(* Proofs about Generic: that the addresses are read as they are written,  *)
(* and that the kernel is started as the last line with the parameter      *)
(* says.                                                                   *)
(***************************************************************************)
EXTENDS Generic, SequenceTheorems, NatLemmas

\* A value that starts as x and changes N times, as F says.
Rounds(N, S, x, F) ==
    {g \in [0 .. N -> S] : g[0] = x /\ \A i \in 1 .. N : g[i] = F[i][g[i - 1]]}

\* There is one,
LEMMA RoundsExist ==
    ASSUME NEW N \in Nat, NEW S, NEW x \in S, NEW F \in [1 .. N -> [S -> S]]
    PROVE  Rounds(N, S, x, F) # {}
<1> DEFINE Done(n) == \E g \in [0 .. n -> S] :
                        g[0] = x /\ \A i \in 1 .. n : g[i] = F[i][g[i - 1]]
           T == {n \in 0 .. N : ~Done(n)}
<1>1. SUFFICES T = {}
  <2>1. N \notin T => Done(N)
    OBVIOUS
  <2> QED BY <2>1 DEF Rounds
<1>2. SUFFICES ASSUME T # {} PROVE FALSE
  OBVIOUS
<1>3. PICK n \in T : \A k \in T : n <= k
  <2>1. T \subseteq Nat
    OBVIOUS
  <2> HIDE DEF T
  <2> QED BY <1>2, <2>1, LeastNatural
<1>4. n \in 0 .. N /\ ~Done(n)
  OBVIOUS
<1>5. CASE n = 0
  <2> DEFINE g == [i \in 0 .. 0 |-> x]
  <2>1. g \in [0 .. 0 -> S] /\ g[0] = x /\ \A i \in 1 .. 0 : g[i] = F[i][g[i - 1]]
    OBVIOUS
  <2>2. Done(0)
    BY <2>1
  <2> QED BY <1>4, <1>5, <2>2
<1>6. CASE n # 0
  <2>1. n - 1 \in 0 .. N /\ n \in 1 .. N /\ ~(n <= n - 1)
    BY <1>4, <1>6
  <2>2. Done(n - 1)
    <3> HIDE DEF Done
    <3> QED BY <1>3, <2>1
  <2>3. PICK g \in [0 .. n - 1 -> S] :
            g[0] = x /\ \A i \in 1 .. n - 1 : g[i] = F[i][g[i - 1]]
    BY <2>2
  <2> DEFINE h == [i \in 0 .. n |-> IF i = n THEN F[n][g[n - 1]] ELSE g[i]]
  <2>4. g[n - 1] \in S /\ F[n] \in [S -> S]
    BY <2>1
  <2>5. F[n][g[n - 1]] \in S
    BY <2>4
  <2>6. h \in [0 .. n -> S]
    BY <1>4, <2>5
  <2>7. \A i \in 0 .. n - 1 : h[i] = g[i]
    BY <1>4
  <2>8. h[n] = F[n][g[n - 1]]
    BY <1>4
  <2> HIDE DEF h
  <2>9. h[0] = x
    BY <2>1, <2>3, <2>7
  <2>10. ASSUME NEW i \in 1 .. n PROVE h[i] = F[i][h[i - 1]]
    <3>1. i - 1 \in 0 .. n - 1 /\ h[i - 1] = g[i - 1]
      BY <1>4, <2>7
    <3>2. CASE i = n
      BY <2>8, <3>1, <3>2
    <3>3. CASE i # n
      <4>1. i \in 1 .. n - 1 /\ i \in 0 .. n - 1
        BY <1>4, <3>3
      <4> QED BY <2>3, <2>7, <3>1, <4>1
    <3> QED BY <3>2, <3>3
  <2> QED BY <1>4, <2>6, <2>9, <2>10
<1> QED BY <1>5, <1>6

\* and has the type that every round keeps.
LEMMA RoundsTyped ==
    ASSUME NEW N \in Nat, NEW S, NEW f, f[0] \in S,
           \A i \in 1 .. N : f[i - 1] \in S => f[i] \in S
    PROVE  \A i \in 0 .. N : f[i] \in S
<1> DEFINE T == {n \in 0 .. N : f[n] \notin S}
<1>1. SUFFICES ASSUME T # {} PROVE FALSE
  OBVIOUS
<1>2. PICK n \in T : \A k \in T : n <= k
  <2>1. T \subseteq Nat
    OBVIOUS
  <2> HIDE DEF T
  <2> QED BY <1>1, <2>1, LeastNatural
<1>3. n \in 0 .. N /\ f[n] \notin S
  OBVIOUS
<1>4. n \in 1 .. N /\ n - 1 \in 0 .. N /\ ~(n <= n - 1)
  BY <1>3
<1>5. f[n - 1] \in S
  BY <1>2, <1>4
<1> QED BY <1>3, <1>4, <1>5

-----------------------------------------------------------------------------
(* Numbers.                                                                *)

LEMMA Widths ==
    Radix \in Nat /\ AddrDigits \in Nat
  BY GenericAssumption, Zenon

\* The digits are numbers, and no other token is a digit.
LEMMA Digits ==
    /\ Radix \in Nat /\ AddrDigits \in Nat
    /\ \A c \in DOMAIN Digit : Digit[c] \in Nat
    /\ \A c \in {" ", ",", "x", "appended"} : c \notin DOMAIN Digit
<1>1. Radix \in Nat \ {0} /\ AddrDigits \in Nat
  BY GenericAssumption, Zenon
<1>2. \A c \in DOMAIN Digit : Digit[c] \in 0 .. Radix - 1
  BY GenericAssumption, Zenon
<1>3. DOMAIN Digit \cap {" ", ",", "x", "appended"} = {}
  BY GenericAssumption, Zenon
<1>4. \A x \in 0 .. Radix - 1 : x \in Nat
  BY <1>1
<1>5. \A c \in DOMAIN Digit : Digit[c] \in Nat
  BY <1>2, <1>4, Zenon
<1>6. \A c \in {" ", ",", "x", "appended"} : c \notin DOMAIN Digit
  BY <1>3, Zenon
<1> QED BY <1>1, <1>5, <1>6

\* What the tokens of a field stand for, from the first one to each.
Readings(L, field) ==
    {v \in [0 .. L -> Nat] :
        /\ v[0] = 0
        /\ \A i \in 1 .. L : v[i] = IF field[i] \in DOMAIN Digit
                                    THEN Radix * v[i - 1] + Digit[field[i]] ELSE v[i - 1]}

LEMMA MeaningRounds ==
    ASSUME NEW L \in Nat, NEW field, Len(field) = L
    PROVE  \E v \in Readings(L, field) : Meaning(field) = v[L]
<1> DEFINE Round(i, w) == IF field[i] \in DOMAIN Digit THEN Radix * w + Digit[field[i]] ELSE w
           F == [i \in 1 .. L |-> [w \in Nat |-> Round(i, w)]]
           Is(v) == v = [n \in 0 .. L |-> IF n = 0 THEN 0 ELSE Round(n, v[n - 1])]
<1>0. L \in Nat /\ Radix \in Nat /\ \A c \in DOMAIN Digit : Digit[c] \in Nat
  BY Digits
<1>1. \A i \in 1 .. L, w \in Nat : Round(i, w) \in Nat
  BY <1>0
<1> HIDE DEF Round
<1>2. F \in [1 .. L -> [Nat -> Nat]]
  BY <1>1
<1>a. Rounds(L, Nat, 0, F) # {}
  <2>1. 0 \in Nat
    OBVIOUS
  <2> HIDE DEF F
  <2> QED BY <1>0, <1>2, <2>1, RoundsExist
<1>3. PICK g \in [0 .. L -> Nat] : g[0] = 0 /\ \A i \in 1 .. L : g[i] = F[i][g[i - 1]]
  <2> HIDE DEF F
  <2> QED BY <1>a DEF Rounds
<1>4. \A i \in 1 .. L : g[i] = Round(i, g[i - 1])
  <2> TAKE i \in 1 .. L
  <2>1. i - 1 \in 0 .. L
    BY <1>0
  <2>2. g[i - 1] \in Nat
    BY <2>1
  <2>3. F[i][g[i - 1]] = Round(i, g[i - 1])
    BY <2>2, Zenon
  <2> QED BY <1>3, <2>3, Zenon
<1>5. Is(g)
  BY <1>0, <1>3, <1>4
<1> DEFINE v == CHOOSE v : Is(v)
<1>6. Is(v)
  BY <1>5
<1>7. Meaning(field) = v[L]
  BY DEF Meaning, Round
<1> HIDE DEF v
<1>8. v[0] = 0 /\ \A i \in 1 .. L : v[i] = Round(i, v[i - 1])
  BY <1>0, <1>6
<1> HIDE DEF Is
<1>9. \A i \in 0 .. L : v[i] \in Nat
  <2>1. v[0] \in Nat /\ \A i \in 1 .. L : v[i - 1] \in Nat => v[i] \in Nat
    <3>1. v[0] \in Nat
      BY <1>8
    <3> QED BY <1>1, <1>8, <3>1, Zenon
  <2> QED BY <1>0, <2>1, RoundsTyped, Zenon
<1>10. v \in [0 .. L -> Nat]
  BY <1>6, <1>9 DEF Is
<1> QED BY <1>7, <1>8, <1>10 DEF Round, Readings

\* The loop over the digits, round by round.
LEMMA SumRounds ==
    ASSUME NEW n \in Nat, NEW digits \in [1 .. n -> DOMAIN Digit]
    PROVE  \E a \in [0 .. n -> Nat], u \in [0 .. n -> Nat] :
                /\ Sum(digits) = a[n] /\ a[0] = 0 /\ u[0] = 1
                /\ \A i \in 1 .. n :
                     /\ a[i] = a[i - 1] + Digit[digits[n - i + 1]] * u[i - 1]
                     /\ u[i] = u[i - 1] * Radix
<1> DEFINE S == [addr : Nat, unit : Nat]
           Round(i, w) == [addr |-> w.addr + Digit[digits[n - i + 1]] * w.unit,
                           unit |-> w.unit * Radix]
           F == [i \in 1 .. n |-> [w \in S |-> Round(i, w)]]
           Is(v) == v = [i \in 0 .. n |-> IF i = 0 THEN [addr |-> 0, unit |-> 1]
                                          ELSE Round(i, v[i - 1])]
           x0 == [addr |-> 0, unit |-> 1]
<1>b. Radix \in Nat /\ \A c \in DOMAIN Digit : Digit[c] \in Nat
  BY Digits
<1>c. Len(digits) = n
  <2>1. digits \in Seq(DOMAIN Digit) /\ DOMAIN digits = 1 .. n
    OBVIOUS
  <2> QED BY <2>1
<1>0. Len(digits) = n /\ Radix \in Nat /\ \A c \in DOMAIN Digit : Digit[c] \in Nat
  BY <1>b, <1>c
<1>1. \A i \in 1 .. n, w \in S : Round(i, w) \in S
  <2> TAKE i \in 1 .. n, w \in S
  <2>1. n - i + 1 \in 1 .. n
    OBVIOUS
  <2>2. digits[n - i + 1] \in DOMAIN Digit
    BY <2>1
  <2>3. Digit[digits[n - i + 1]] \in Nat
    BY <1>0, <2>2
  <2>4. w.addr \in Nat /\ w.unit \in Nat
    OBVIOUS
  <2>5. /\ w.addr + Digit[digits[n - i + 1]] * w.unit \in Nat
        /\ w.unit * Radix \in Nat
    <3> DEFINE d == Digit[digits[n - i + 1]]
               A == w.addr
               U == w.unit
    <3>1. d \in Nat /\ A \in Nat /\ U \in Nat
      BY <2>3, <2>4
    <3> HIDE DEF S, d, A, U
    <3>2. A + d * U \in Nat /\ U * Radix \in Nat
      BY <1>0, <3>1
    <3> QED BY <3>2 DEF d, A, U
  <2> QED BY <2>5, Zenon
<1>a. x0 \in S
  OBVIOUS
<1> HIDE DEF S, Round, x0
<1>2. F \in [1 .. n -> [S -> S]]
  BY <1>1
<1>d. Rounds(n, S, x0, F) # {}
  <2> HIDE DEF F
  <2> QED BY <1>a, <1>2, RoundsExist
<1>3. PICK g \in [0 .. n -> S] : g[0] = x0 /\ \A i \in 1 .. n : g[i] = F[i][g[i - 1]]
  <2> HIDE DEF F
  <2> QED BY <1>d DEF Rounds
<1>4. \A i \in 1 .. n : g[i] = Round(i, g[i - 1])
  <2> TAKE i \in 1 .. n
  <2>1. i - 1 \in 0 .. n
    OBVIOUS
  <2>2. g[i - 1] \in S
    BY <2>1
  <2>3. F[i][g[i - 1]] = Round(i, g[i - 1])
    BY <2>2, Zenon
  <2> QED BY <1>3, <2>3, Zenon
<1>5. Is(g)
  BY <1>3, <1>4 DEF x0
<1> DEFINE v == CHOOSE v : Is(v)
<1>6. Is(v)
  BY <1>5
<1>7. Sum(digits) = v[n].addr
  BY <1>0 DEF Sum, Round
<1> HIDE DEF v
<1>8. v[0] = x0 /\ \A i \in 1 .. n : v[i] = Round(i, v[i - 1])
  BY <1>6 DEF x0
<1> HIDE DEF Is
<1>9. \A i \in 0 .. n : v[i] \in S
  <2>1. v[0] \in S /\ \A i \in 1 .. n : v[i - 1] \in S => v[i] \in S
    BY <1>a, <1>1, <1>8
  <2> QED BY <2>1, RoundsTyped, Zenon
<1> DEFINE a == [i \in 0 .. n |-> v[i].addr]
           u == [i \in 0 .. n |-> v[i].unit]
<1>10. a \in [0 .. n -> Nat] /\ u \in [0 .. n -> Nat]
  BY <1>9 DEF S
<1>11. a[0] = 0 /\ u[0] = 1 /\ Sum(digits) = a[n]
  BY <1>7, <1>8 DEF x0
<1>12. ASSUME NEW i \in 1 .. n
       PROVE  /\ a[i] = a[i - 1] + Digit[digits[n - i + 1]] * u[i - 1]
              /\ u[i] = u[i - 1] * Radix
  <2>1. i \in 0 .. n /\ i - 1 \in 0 .. n
    OBVIOUS
  <2>2. /\ v[i].addr = v[i - 1].addr + Digit[digits[n - i + 1]] * v[i - 1].unit
        /\ v[i].unit = v[i - 1].unit * Radix
    <3>1. v[i] = Round(i, v[i - 1])
      BY <1>8, Zenon
    <3> QED BY <3>1 DEF Round
  <2> QED BY <2>1, <2>2
<1> HIDE DEF a, u
<1> QED BY <1>10, <1>11, <1>12

\* A number is read as it is written.
LEMMA NumberRead ==
    ASSUME NEW n \in Nat, NEW digits \in [1 .. n -> DOMAIN Digit]
    PROVE  Sum(digits) = Meaning(<<"x">> \o digits)
<1> DEFINE field == <<"x">> \o digits
<1>0. /\ Len(field) = n + 1 /\ field[1] = "x"
      /\ \A i \in 1 .. n : field[i + 1] = digits[i] /\ digits[i] \in DOMAIN Digit
      /\ "x" \notin DOMAIN Digit
      /\ Radix \in Nat /\ \A c \in DOMAIN Digit : Digit[c] \in Nat
  <2> DEFINE S == {"x"} \cup DOMAIN Digit
  <2>0. "x" \notin DOMAIN Digit
    BY Digits
  <2>a. Radix \in Nat /\ \A c \in DOMAIN Digit : Digit[c] \in Nat
    BY Digits
  <2>1. digits \in Seq(S) /\ DOMAIN digits = 1 .. n
    OBVIOUS
  <2>b. Len(digits) = n
    BY <2>1
  <2>2. <<"x">> \in Seq(S) /\ Len(<<"x">>) = 1
    OBVIOUS
  <2>3. Len(field) = n + 1 /\ field[1] = "x"
    BY <2>1, <2>2, <2>b
  <2>4. \A i \in 1 .. n : field[i + 1] = digits[i] /\ digits[i] \in DOMAIN Digit
    BY <2>1, <2>2, <2>b
  <2> QED BY <2>0, <2>a, <2>3, <2>4
<1> HIDE DEF field
<1>1. PICK v \in Readings(n + 1, field) : Meaning(field) = v[n + 1]
  <2>1. n + 1 \in Nat /\ Len(field) = n + 1
    BY <1>0
  <2> QED BY <2>1, MeaningRounds
<1>a. /\ v \in [0 .. n + 1 -> Nat] /\ v[0] = 0
      /\ \A i \in 1 .. n + 1 :
           v[i] = IF field[i] \in DOMAIN Digit
                  THEN Radix * v[i - 1] + Digit[field[i]] ELSE v[i - 1]
  BY DEF Readings
<1>2. v[1] = 0
  BY <1>0, <1>a
<1>3. ASSUME NEW i \in 1 .. n PROVE v[i + 1] = Radix * v[i] + Digit[digits[i]]
  <2>1. i + 1 \in 1 .. n + 1 /\ i + 1 - 1 = i
    OBVIOUS
  <2> QED BY <1>0, <1>a, <2>1
<1>4. PICK a \in [0 .. n -> Nat], u \in [0 .. n -> Nat] :
            /\ Sum(digits) = a[n] /\ a[0] = 0 /\ u[0] = 1
            /\ \A i \in 1 .. n :
                 /\ a[i] = a[i - 1] + Digit[digits[n - i + 1]] * u[i - 1]
                 /\ u[i] = u[i - 1] * Radix
  BY SumRounds
<1> DEFINE Whole(i) == a[i] + u[i] * v[n - i + 1]
           T == {i \in 0 .. n : Whole(i) # v[n + 1]}
<1>5. T = {}
  <2> SUFFICES ASSUME T # {} PROVE FALSE
    OBVIOUS
  <2>1. PICK j \in T : \A k \in T : j <= k
    <3>1. T \subseteq Nat
      OBVIOUS
    <3> HIDE DEF T
    <3> QED BY <3>1, LeastNatural
  <2>2. j \in 0 .. n /\ Whole(j) # v[n + 1]
    OBVIOUS
  <2>3. j # 0
    BY <1>a, <1>4, <2>2
  <2>4. /\ j \in 1 .. n /\ j - 1 \in 0 .. n /\ ~(j <= j - 1)
        /\ n - j + 1 \in 1 .. n /\ n - (j - 1) + 1 = n - j + 1 + 1
    BY <2>2, <2>3
  <2>5. Whole(j - 1) = v[n + 1]
    <3> HIDE DEF Whole
    <3> QED BY <2>1, <2>4
  <2> DEFINE d == Digit[digits[n - j + 1]]
             A == a[j - 1]
             U == u[j - 1]
             V == v[n - j + 1]
  <2>6. d \in Nat /\ A \in Nat /\ U \in Nat /\ V \in Nat
    BY <1>0, <1>a, <1>4, <2>4
  <2>7. v[n - j + 1 + 1] = Radix * V + d
    BY <1>3, <2>4
  <2>8. A + U * (Radix * V + d) = v[n + 1]
    BY <2>4, <2>5, <2>7
  <2>9. Whole(j) = (A + d * U) + (U * Radix) * V
    BY <1>4, <2>4
  <2> HIDE DEF d, A, U, V, Whole
  <2>10. (A + d * U) + (U * Radix) * V = A + U * (Radix * V + d)
    BY <1>0, <2>6
  <2> QED BY <2>2, <2>8, <2>9, <2>10
<1>6. Whole(n) = v[n + 1]
  <2> HIDE DEF Whole
  <2>1. n \notin T
    <3> HIDE DEF T
    <3> QED BY <1>5
  <2>2. n \in 0 .. n
    OBVIOUS
  <2> QED BY <2>1, <2>2, Zenon
<1>7. Whole(n) = a[n]
  BY <1>2, <1>4
<1> QED BY <1>1, <1>4, <1>6, <1>7 DEF field

-----------------------------------------------------------------------------
(* Fields of a line.                                                       *)

\* The first token of a kind is found,
LEMMA FindFirst ==
    ASSUME NEW line \in Seq(STRING), NEW i \in Nat, NEW S, NEW e \in i .. Len(line),
           line[e] \in S, \A j \in i .. e - 1 : line[j] \notin S
    PROVE  Find(line, i, S) = e
<1> DEFINE hits == {j \in i .. Len(line) : line[j] \in S}
<1>1. e \in hits /\ \A j \in hits : e <= j
  OBVIOUS
<1>2. hits # {}
  BY <1>1
<1>3. \A y \in hits : y \in Int
  OBVIOUS
<1>4. Find(line, i, S) = Min(hits)
  BY <1>2, Zenon DEF Find
<1> HIDE DEF hits
<1>5. Min(hits) = e
  <2> DEFINE a == Min(hits)
  <2>1. a \in hits /\ \A y \in hits : a <= y
    BY <1>1 DEF Min
  <2> HIDE DEF a
  <2>2. a \in Int /\ e \in Int /\ a <= e /\ e <= a
    BY <1>1, <1>3, <2>1
  <2>3. a = e
    BY <2>2
  <2> QED BY <2>3 DEF a
<1> QED BY <1>4, <1>5

\* and if one is found, it is on the line.
LEMMA Found ==
    ASSUME NEW line \in Seq(STRING), NEW i \in Nat \ {0}, NEW S
    PROVE  /\ Find(line, i, S) = 0 \/ Find(line, i, S) \in i .. Len(line)
           /\ Find(line, i, S) # 0 => line[Find(line, i, S)] \in S
<1> DEFINE hits == {j \in i .. Len(line) : line[j] \in S}
<1>1. CASE hits = {}
  BY <1>1 DEF Find
<1>2. CASE hits # {}
  <2>1. Find(line, i, S) = Min(hits)
    BY <1>2, Zenon DEF Find
  <2>2. hits \subseteq Nat
    OBVIOUS
  <2>3. PICK e \in hits : \A j \in hits : e <= j
    <3> HIDE DEF hits
    <3> QED BY <1>2, <2>2, LeastNatural
  <2>4. Min(hits) \in hits
    <3> HIDE DEF hits
    <3> QED BY <2>3 DEF Min
  <2> QED BY <2>1, <2>4
<1> QED BY <1>1, <1>2

\* A number with a delimiter behind it is read up to the delimiter, whatever
\* comes before and behind.
LEMMA FieldRead ==
    ASSUME NEW line \in Seq(STRING), NEW i \in Nat \ {0},
           NEW n \in Nat, NEW digits \in [1 .. n -> DOMAIN Digit], n <= AddrDigits,
           i + n + 1 <= Len(line), line[i] = "x",
           \A j \in 1 .. n : line[i + j] = digits[j],
           line[i + n + 1] \in Delimiters
    PROVE  gethexaddr(line, i) = [end |-> i + n + 1, vals |-> {Meaning(<<"x">> \o digits)}]
<1> DEFINE e  == i + n + 1
           xs == {i - 1} \cup {j \in i .. e - 1 : line[j] = "x"}
           ds == SubSeq(line, i + 1, e - 1)
<1>0. /\ AddrDigits \in Nat /\ e \in Nat /\ e \in i .. Len(line) /\ e # 0
      /\ "x" \notin DOMAIN Digit /\ " " \notin DOMAIN Digit /\ "," \notin DOMAIN Digit
  <2>1. /\ AddrDigits \in Nat
        /\ "x" \notin DOMAIN Digit /\ " " \notin DOMAIN Digit /\ "," \notin DOMAIN Digit
    BY Digits
  <2>2. e \in Nat /\ e \in i .. Len(line) /\ e # 0
    OBVIOUS
  <2> QED BY <2>1, <2>2
<1>1. \A j \in i + 1 .. e - 1 : line[j] \in DOMAIN Digit
  <2> TAKE j \in i + 1 .. e - 1
  <2>1. j - i \in 1 .. n /\ i + (j - i) = j
    OBVIOUS
  <2>2. line[j] = digits[j - i] /\ digits[j - i] \in DOMAIN Digit
    BY <2>1
  <2> QED BY <2>2
<1>2. \A j \in i .. e - 1 : line[j] \notin Delimiters
  <2> TAKE j \in i .. e - 1
  <2>1. CASE j = i
    BY <2>1 DEF Delimiters
  <2>2. CASE j # i
    <3>1. line[j] \in DOMAIN Digit
      BY <1>1, <2>2
    <3> QED BY <1>0, <3>1 DEF Delimiters
  <2> QED BY <2>1, <2>2
<1>3. Find(line, i, Delimiters) = e
  <2> HIDE DEF e
  <2>1. line[e] \in Delimiters
    BY DEF e
  <2> QED BY <1>0, <1>2, <2>1, FindFirst
<1>4. Max(xs) = i
  <2>1. i \in xs
    OBVIOUS
  <2>2. \A j \in xs : j \in Int /\ j <= i
    <3> TAKE j \in xs
    <3>1. CASE j = i - 1
      BY <3>1
    <3>2. CASE j \in i .. e - 1 /\ line[j] = "x"
      <4>1. j \notin i + 1 .. e - 1
        <5> SUFFICES ASSUME j \in i + 1 .. e - 1 PROVE FALSE
          OBVIOUS
        <5>1. line[j] \in DOMAIN Digit
          BY <1>1
        <5> QED BY <1>0, <3>2, <5>1
      <4>2. e \in Nat /\ j \in i .. e - 1
        BY <1>0, <3>2
      <4> HIDE DEF e
      <4> QED BY <4>1, <4>2
    <3> QED BY <3>1, <3>2
  <2> HIDE DEF xs
  <2> DEFINE a == Max(xs)
  <2>3. a \in xs /\ \A y \in xs : a >= y
    BY <2>1, <2>2 DEF Max
  <2> HIDE DEF a
  <2>4. a \in Int /\ a <= i /\ i <= a
    BY <2>1, <2>2, <2>3
  <2>5. a = i
    BY <2>4
  <2> QED BY <2>5 DEF a
<1>5. ds = digits /\ Len(ds) = n
  <2>1. ds = [j \in 1 .. n |-> line[i + j]]
    <3>1. (e - 1) - (i + 1) + 1 = n /\ \A j \in 1 .. n : (i + 1) + j - 1 = i + j
      OBVIOUS
    <3> QED BY <3>1
  <2>2. ds = digits
    BY <2>1
  <2>3. digits \in Seq(DOMAIN Digit) /\ DOMAIN digits = 1 .. n
    OBVIOUS
  <2> QED BY <2>2, <2>3
<1>6. ToSet(ds) \subseteq DOMAIN Digit
  <2>1. ToSet(digits) = {digits[j] : j \in 1 .. n}
    BY DEF ToSet
  <2>2. \A j \in 1 .. n : digits[j] \in DOMAIN Digit
    OBVIOUS
  <2> HIDE DEF ds
  <2> QED BY <1>5, <2>1, <2>2
<1>7. Values(line, i, e) = {Sum(digits)}
  <2> HIDE DEF e
  <2>1. Values(line, i, e) = IF Len(ds) <= AddrDigits /\ ToSet(ds) \subseteq DOMAIN Digit
                             THEN {Sum(ds)} ELSE Addr
    BY <1>4, Zenon DEF Values
  <2> HIDE DEF ds
  <2> QED BY <1>5, <1>6, <2>1
<1>8. gethexaddr(line, i) = [end |-> e, vals |-> Values(line, i, e)]
  <2> HIDE DEF e
  <2> QED BY <1>0, <1>3, Zenon DEF gethexaddr
<1> QED BY <1>7, <1>8, NumberRead

\* A line has a field of L tokens, and a delimiter behind it, at position i.
Has(line, i, field, L) ==
    /\ Len(field) = L /\ i + L <= Len(line)
    /\ \A j \in 1 .. L : line[i - 1 + j] = field[j]
    /\ line[i + L] \in Delimiters

\* So is a number that a line has.
LEMMA NumberAt ==
    ASSUME NEW line \in Seq(STRING), NEW i \in Nat \ {0}, NEW number \in Numbers,
           NEW L \in Nat, Has(line, i, number, L)
    PROVE  /\ line[i] = "x"
           /\ gethexaddr(line, i) = [end |-> i + L, vals |-> {Meaning(number)}]
<1>b. /\ Len(number) = L /\ i + L <= Len(line) /\ line[i + L] \in Delimiters
      /\ \A j \in 1 .. L : line[i - 1 + j] = number[j]
  BY DEF Has
<1>1. PICK n \in 1 .. AddrDigits : \E digits \in [1 .. n -> DOMAIN Digit] :
            number = <<"x">> \o digits
  BY Zenon DEF Numbers
<1>a. PICK digits \in [1 .. n -> DOMAIN Digit] : number = <<"x">> \o digits
  BY <1>1
<1>2. n \in Nat /\ n <= AddrDigits
  BY Widths
<1>3. number[1] = "x" /\ L = n + 1 /\ \A j \in 1 .. n : number[j + 1] = digits[j]
  <2> DEFINE S == {"x"} \cup DOMAIN Digit
  <2>1. digits \in Seq(S) /\ DOMAIN digits = 1 .. n
    BY <1>2
  <2>2. Len(digits) = n
    BY <1>2, <2>1
  <2>3. <<"x">> \in Seq(S) /\ Len(<<"x">>) = 1 /\ <<"x">>[1] = "x"
    OBVIOUS
  <2> QED BY <1>a, <1>b, <1>2, <2>1, <2>2, <2>3
<1>4. line[i] = "x"
  <2>1. 1 \in 1 .. L /\ i - 1 + 1 = i
    BY <1>2, <1>3
  <2> QED BY <1>b, <1>3, <2>1
<1>5. \A j \in 1 .. n : line[i + j] = digits[j]
  <2> TAKE j \in 1 .. n
  <2>1. j + 1 \in 1 .. L /\ i - 1 + (j + 1) = i + j
    BY <1>2, <1>3
  <2> QED BY <1>b, <1>3, <2>1
<1>6. i + n + 1 = i + L
  BY <1>2, <1>3
<1>7. gethexaddr(line, i) = [end |-> i + n + 1, vals |-> {Meaning(<<"x">> \o digits)}]
  <2>1. i + n + 1 <= Len(line) /\ line[i + n + 1] \in Delimiters
    BY <1>b, <1>6
  <2> QED BY <1>2, <1>4, <1>5, <2>1, FieldRead
<1> QED BY <1>a, <1>4, <1>6, <1>7

\* "appended" stands for no address.
LEMMA AppendedMeaning ==
    Meaning(<<"appended">>) = 0
<1> DEFINE f == <<"appended">>
<1>1. 1 \in Nat /\ Len(f) = 1 /\ f[1] = "appended"
  OBVIOUS
<1> HIDE DEF f
<1>2. PICK v \in Readings(1, f) : Meaning(f) = v[1]
  BY <1>1, MeaningRounds
<1>3. "appended" \notin DOMAIN Digit
  BY Digits
<1>4. v[0] = 0 /\ v[1] = IF f[1] \in DOMAIN Digit THEN Radix * v[1 - 1] + Digit[f[1]] ELSE v[1 - 1]
  BY DEF Readings
<1> QED BY <1>1, <1>2, <1>3, <1>4 DEF f

\* A line without the parameter is ignored.
LEMMA LineIgnored ==
    ASSUME NEW line, ~Mentions(line), NEW board
    PROVE  getaddrs(line, board) = {board}
<1>1. Find(line, 1, {"loadaddrs="}) + 1 = 1
  BY DEF Mentions
<1> QED BY <1>1 DEF getaddrs


\* f is a and b with a token behind each.
Pair(f, a, A, x, b, B, y) ==
    /\ Len(f) = A + 1 + B + 1
    /\ \A i \in 1 .. A : f[i] = a[i]
    /\ f[A + 1] = x
    /\ \A i \in 1 .. B : f[A + 1 + i] = b[i]
    /\ f[A + 1 + B + 1] = y

LEMMA Joined ==
    ASSUME NEW S, NEW a \in Seq(S), NEW b \in Seq(S), NEW x \in S, NEW y \in S,
           NEW A \in Nat, A = Len(a), NEW B \in Nat, B = Len(b)
    PROVE  LET f == a \o <<x>> \o b \o <<y>>
           IN  f \in Seq(S) /\ Pair(f, a, A, x, b, B, y)
<1> DEFINE u == <<x>>
           w == <<y>>
           g == a \o u
           h == g \o b
           f == h \o w
<1>1. u \in Seq(S) /\ w \in Seq(S) /\ 1 = Len(u) /\ 1 = Len(w) /\ u[1] = x /\ w[1] = y
  OBVIOUS
<1>2. g = a \o u /\ h = g \o b /\ f = h \o w /\ f = a \o <<x>> \o b \o <<y>>
  OBVIOUS
<1> HIDE DEF u, w, g, h, f
<1>3. /\ g \in Seq(S) /\ Len(g) = A + 1
      /\ \A i \in 1 .. A + 1 : g[i] = IF i <= A THEN a[i] ELSE u[i - A]
  <2>1. /\ a \o u \in Seq(S) /\ Len(a \o u) = Len(a) + Len(u)
        /\ \A i \in 1 .. Len(a) + Len(u) :
                (a \o u)[i] = IF i <= Len(a) THEN a[i] ELSE u[i - Len(a)]
    BY <1>1, ConcatProperties, Zenon
  <2> QED BY <1>1, <1>2, <2>1, Zenon
<1>4. /\ h \in Seq(S) /\ Len(h) = A + 1 + B
      /\ \A i \in 1 .. A + 1 + B : h[i] = IF i <= A + 1 THEN g[i] ELSE b[i - (A + 1)]
  <2>1. /\ g \o b \in Seq(S) /\ Len(g \o b) = Len(g) + Len(b)
        /\ \A i \in 1 .. Len(g) + Len(b) :
                (g \o b)[i] = IF i <= Len(g) THEN g[i] ELSE b[i - Len(g)]
    BY <1>3, ConcatProperties, Zenon
  <2> QED BY <1>2, <1>3, <2>1, Zenon
<1>5. /\ f \in Seq(S) /\ Len(f) = A + 1 + B + 1
      /\ \A i \in 1 .. A + 1 + B + 1 : f[i] = IF i <= A + 1 + B THEN h[i] ELSE w[i - (A + 1 + B)]
  <2>1. /\ h \o w \in Seq(S) /\ Len(h \o w) = Len(h) + Len(w)
        /\ \A i \in 1 .. Len(h) + Len(w) :
                (h \o w)[i] = IF i <= Len(h) THEN h[i] ELSE w[i - Len(h)]
    <3>1. h \in Seq(S) /\ w \in Seq(S)
      BY <1>1, <1>4
    <3> QED BY <3>1, ConcatProperties, Zenon
  <2> QED BY <1>1, <1>2, <1>4, <2>1, Zenon
<1>6. ASSUME NEW i \in 1 .. A PROVE f[i] = a[i]
  <2>1. /\ i \in 1 .. A + 1 + B + 1 /\ i <= A + 1 + B
        /\ i \in 1 .. A + 1 + B /\ i <= A + 1 /\ i \in 1 .. A + 1 /\ i <= A
    OBVIOUS
  <2> QED BY <1>3, <1>4, <1>5, <2>1
<1>7. f[A + 1] = x
  <2>1. /\ A + 1 \in 1 .. A + 1 + B + 1 /\ A + 1 <= A + 1 + B
        /\ A + 1 \in 1 .. A + 1 + B /\ A + 1 <= A + 1
        /\ A + 1 \in 1 .. A + 1 /\ ~(A + 1 <= A) /\ A + 1 - A = 1
    OBVIOUS
  <2> QED BY <1>1, <1>3, <1>4, <1>5, <2>1
<1>8. ASSUME NEW i \in 1 .. B PROVE f[A + 1 + i] = b[i]
  <2>1. /\ A + 1 + i \in 1 .. A + 1 + B + 1 /\ A + 1 + i <= A + 1 + B
        /\ A + 1 + i \in 1 .. A + 1 + B /\ ~(A + 1 + i <= A + 1) /\ A + 1 + i - (A + 1) = i
    OBVIOUS
  <2> QED BY <1>4, <1>5, <2>1
<1>9. f[A + 1 + B + 1] = y
  <2>1. /\ A + 1 + B + 1 \in 1 .. A + 1 + B + 1 /\ ~(A + 1 + B + 1 <= A + 1 + B)
        /\ A + 1 + B + 1 - (A + 1 + B) = 1
    OBVIOUS
  <2> QED BY <1>1, <1>5, <2>1
<1>10. f \in Seq(S) /\ Pair(f, a, A, x, b, B, y)
  BY <1>5, <1>6, <1>7, <1>8, <1>9 DEF Pair
<1> QED BY <1>2, <1>10

\* Where a line has what it says: from s on.
Where(line, k, d, s, K, D) ==
    /\ s = Find(line, 1, {"loadaddrs="}) + 1 /\ s # 1
    /\ K = Len(k) /\ D = Len(d)
    /\ s + K + 1 + D <= Len(line)
    /\ \A i \in 1 .. K : line[s - 1 + i] = k[i]
    /\ line[s + K] = ","
    /\ \A i \in 1 .. D : line[s + K + i] = d[i]
    /\ line[s + K + 1 + D] \in Delimiters

LEMMA SaysWhere ==
    ASSUME NEW line \in Seq(STRING), NEW k \in Kernels, NEW d \in Numbers,
           Says(line, k, d)
    PROVE  \E s \in Nat \ {0}, K \in Nat, D \in Nat : Where(line, k, d, s, K, D)
<1> DEFINE s    == Find(line, 1, {"loadaddrs="}) + 1
           said == SubSeq(line, s, Len(line))
           S    == DOMAIN Digit \cup {"x", "appended"} \cup Delimiters
           K    == Len(k)
           D    == Len(d)
<1>0. Len(line) \in Nat
  OBVIOUS
<1>1. s \in Nat \ {0} /\ s # 1 /\ s <= Len(line) + 1
  <2> DEFINE a == Find(line, 1, {"loadaddrs="})
  <2>1. a # 0
    BY DEF Says, Mentions
  <2>2. a = 0 \/ a \in 1 .. Len(line)
    BY Found
  <2> HIDE DEF a
  <2>3. a \in Nat \ {0} /\ a <= Len(line)
    BY <1>0, <2>1, <2>2
  <2> QED BY <1>0, <2>3 DEF a
<1>2. PICK c \in Delimiters : IsPrefix(k \o <<",">> \o d \o <<c>>, said)
  BY Zenon DEF Says
<1>3. k \in Seq(S) /\ d \in Seq(S) /\ "," \in S /\ c \in S
  <2>1. ASSUME NEW x \in Numbers PROVE x \in Seq(S)
    <3>a. PICK n \in 1 .. AddrDigits : \E digits \in [1 .. n -> DOMAIN Digit] :
                x = <<"x">> \o digits
      BY <2>1, Zenon DEF Numbers
    <3>1. PICK digits \in [1 .. n -> DOMAIN Digit] : x = <<"x">> \o digits
      BY <3>a
    <3>2. n \in Nat
      BY Widths
    <3>3. digits \in Seq(S) /\ <<"x">> \in Seq(S)
      BY <3>2
    <3> QED BY <3>1, <3>3
  <2>2. <<"appended">> \in Seq(S)
    OBVIOUS
  <2>3. "," \in S /\ c \in S
    BY DEF Delimiters
  <2> QED BY <2>1, <2>2, <2>3 DEF Kernels
<1> DEFINE f == k \o <<",">> \o d \o <<c>>
           F == K + 1 + D + 1
<1> HIDE DEF s, S
<1>4. K \in Nat /\ D \in Nat /\ K = Len(k) /\ D = Len(d)
  BY <1>3, LenProperties
<1> HIDE DEF K, D
<1>5. f = k \o <<",">> \o d \o <<c>>
  OBVIOUS
<1> HIDE DEF f
<1>6. /\ f \in Seq(S) /\ Len(f) = F
      /\ \A i \in 1 .. K : f[i] = k[i]
      /\ f[K + 1] = ","
      /\ \A i \in 1 .. D : f[K + 1 + i] = d[i]
      /\ f[K + 1 + D + 1] = c
  <2>1. f \in Seq(S) /\ Pair(f, k, K, ",", d, D, c)
    BY <1>3, <1>4, <1>5, Joined
  <2> QED BY <2>1 DEF Pair
<1>7. F <= Len(said) /\ SubSeq(f, 1, F) = SubSeq(said, 1, F)
  <2> HIDE DEF F, f, said
  <2> QED BY <1>2, <1>6 DEF IsPrefix, f
<1>8. /\ said \in Seq(STRING) /\ Len(said) = Len(line) - s + 1
      /\ \A i \in 1 .. Len(said) : said[i] = line[s - 1 + i]
  BY <1>1
<1>9. F \in Nat
  BY <1>4
<1> HIDE DEF F, f, said
<1>10. \A i \in 1 .. F : SubSeq(f, 1, F)[i] = f[i] /\ SubSeq(said, 1, F)[i] = said[i]
  <2>1. /\ \A i \in 1 .. F : f[i] \in S
        /\ \A i \in 1 .. F : said[i] \in STRING
        /\ 1 \in Int /\ F \in Int /\ F - 1 + 1 = F /\ \A i \in 1 .. F : 1 + i - 1 = i
    <3>1. \A i \in 1 .. F : f[i] \in S
      <4>1. f \in Seq(S) /\ Len(f) = F
        BY <1>6
      <4> QED BY <4>1, ElementOfSeq
    <3>2. \A i \in 1 .. F : said[i] \in STRING
      BY <1>7, <1>8, <1>9
    <3> QED BY <1>9, <3>1, <3>2
  <2>2. /\ \A i \in 1 .. F - 1 + 1 : SubSeq(f, 1, F)[i] = f[1 + i - 1]
        /\ \A i \in 1 .. F - 1 + 1 : SubSeq(said, 1, F)[i] = said[1 + i - 1]
    BY <2>1, SubSeqProperties
  <2> QED BY <2>1, <2>2, Zenon
<1>11. \A i \in 1 .. F : line[s - 1 + i] = f[i]
  BY <1>0, <1>1, <1>7, <1>8, <1>9, <1>10
<1>12. s - 1 + F <= Len(line)
  BY <1>0, <1>1, <1>7, <1>8, <1>9
<1>13. F = K + 1 + D + 1 /\ K = Len(k) /\ D = Len(d)
  BY DEF F, K, D
<1>14. s + K + 1 + D <= Len(line)
  BY <1>0, <1>1, <1>4, <1>12, <1>13
<1>15. ASSUME NEW i \in 1 .. K PROVE line[s - 1 + i] = k[i]
  <2>1. i \in 1 .. F
    BY <1>4, <1>13
  <2> QED BY <1>6, <1>11, <2>1
<1>16. line[s + K] = ","
  <2>1. K + 1 \in 1 .. F /\ s - 1 + (K + 1) = s + K
    BY <1>1, <1>4, <1>13
  <2> QED BY <1>6, <1>11, <2>1
<1>17. ASSUME NEW i \in 1 .. D PROVE line[s + K + i] = d[i]
  <2>1. K + 1 + i \in 1 .. F /\ s - 1 + (K + 1 + i) = s + K + i
    BY <1>1, <1>4, <1>13
  <2> QED BY <1>6, <1>11, <2>1
<1>18. line[s + K + 1 + D] = c
  <2>1. K + 1 + D + 1 \in 1 .. F /\ s - 1 + (K + 1 + D + 1) = s + K + 1 + D
    BY <1>1, <1>4, <1>13
  <2> QED BY <1>6, <1>11, <2>1
<1>19. Where(line, k, d, s, K, D)
  BY <1>1, <1>13, <1>14, <1>15, <1>16, <1>17, <1>18 DEF Where, s
<1> QED BY <1>1, <1>4, <1>19

\* A line with the parameter leaves the addresses that it gives, wherever they
\* have been before.
LEMMA LineRead ==
    ASSUME NEW line \in Seq(STRING), NEW k \in Kernels, NEW d \in Numbers,
           Says(line, k, d), NEW board
    PROVE  getaddrs(line, board) = {[kernel |-> Meaning(k), dtb |-> Meaning(d)]}
<1>1. PICK s \in Nat \ {0}, K \in Nat, D \in Nat : Where(line, k, d, s, K, D)
  BY SaysWhere
<1>2. /\ s = Find(line, 1, {"loadaddrs="}) + 1 /\ s # 1
      /\ Len(k) = K /\ Len(d) = D
      /\ s + K + 1 + D <= Len(line) /\ line[s + K] = ","
      /\ line[s + K + 1 + D] \in Delimiters
  BY <1>1 DEF Where
<1>3. \A i \in 1 .. K : line[s - 1 + i] = k[i]
  BY <1>1 DEF Where
<1>4. \A i \in 1 .. D : line[s + K + 1 - 1 + i] = d[i]
  <2> TAKE i \in 1 .. D
  <2>1. s + K + 1 - 1 + i = s + K + i
    OBVIOUS
  <2> QED BY <1>1, <2>1 DEF Where
<1>5. /\ Len(line) \in Nat /\ s + K + 1 \in Nat \ {0} /\ s + K # 0 /\ s <= Len(line)
      /\ s + K <= Len(line) /\ ~(s + K > Len(line)) /\ s - 1 + 1 = s
  <2>1. Len(line) \in Nat
    OBVIOUS
  <2> DEFINE n == Len(line)
  <2>2. n \in Nat /\ s + K + 1 + D <= n
    BY <1>2, <2>1
  <2> HIDE DEF n
  <2>3. s + K + 1 \in Nat \ {0} /\ s + K # 0 /\ s <= n /\ s + K <= n /\ ~(s + K > n)
        /\ s - 1 + 1 = s
    BY ONLY <2>2, SMT
  <2> QED BY <2>1, <2>3 DEF n
<1>6. gethexaddr(line, s + K + 1).vals = {Meaning(d)}
  <2> DEFINE i == s + K + 1
  <2>1. i \in Nat \ {0} /\ i + D <= Len(line) /\ line[i + D] \in Delimiters
    BY <1>2, <1>5
  <2>2. \A j \in 1 .. D : line[i - 1 + j] = d[j]
    BY <1>4
  <2> HIDE DEF i
  <2>3. Has(line, i, d, D)
    BY <1>2, <2>1, <2>2 DEF Has
  <2>4. gethexaddr(line, i) = [end |-> i + D, vals |-> {Meaning(d)}]
    BY <2>1, <2>3, NumberAt
  <2> QED BY <2>4 DEF i
<1> DEFINE appended == s <= Len(line) /\ line[s] = "appended"
           kf == IF appended THEN [end |-> s + 1, vals |-> {0}] ELSE gethexaddr(line, s)
           dv(ch) == IF ch # "," THEN {board.dtb}
                     ELSE IF kf.end = 0 THEN Addr ELSE gethexaddr(line, kf.end + 1).vals
<1>8. kf = [end |-> s + K, vals |-> {Meaning(k)}]
  <2>1. CASE k = <<"appended">>
    <3>1. K = 1 /\ k[1] = "appended"
      BY <1>2, <2>1
    <3>2. line[s] = "appended"
      BY <1>3, <1>5, <3>1
    <3> QED BY <1>5, <2>1, <3>1, <3>2, AppendedMeaning
  <2>2. CASE k \in Numbers
    <3>1. line[s] = "x" /\ gethexaddr(line, s) = [end |-> s + K, vals |-> {Meaning(k)}]
      <4>1. line[s + K] \in Delimiters
        BY <1>2 DEF Delimiters
      <4>2. Len(k) = K /\ s + K <= Len(line)
        BY <1>2, <1>5
      <4> HIDE DEF kf, appended, dv
      <4>3. Has(line, s, k, K)
        BY <1>3, <4>1, <4>2 DEF Has
      <4> QED BY <2>2, <4>3, NumberAt
    <3>2. ~appended
      BY <3>1
    <3> HIDE DEF appended
    <3> QED BY <3>1, <3>2
  <2> QED BY <2>1, <2>2 DEF Kernels
<1>9. getaddrs(line, board) = UNION {[kernel : kf.vals, dtb : dv(ch)] : ch \in CharAt(line, kf.end)}
  <2> DEFINE s0 == Find(line, 1, {"loadaddrs="}) + 1
             K2(a) == IF a <= Len(line) /\ line[a] = "appended"
                      THEN [end |-> a + 1, vals |-> {0}] ELSE gethexaddr(line, a)
             dv2(a, ch) == IF ch # "," THEN {board.dtb}
                           ELSE IF K2(a).end = 0 THEN Addr
                           ELSE gethexaddr(line, K2(a).end + 1).vals
  <2>1. getaddrs(line, board) =
            IF s0 = 1 THEN {board}
            ELSE UNION {[kernel : K2(s0).vals, dtb : dv2(s0, ch)] : ch \in CharAt(line, K2(s0).end)}
    BY DEF getaddrs
  <2>2. s0 = s /\ s0 # 1
    BY <1>2
  <2>3. kf = K2(s) /\ \A ch : dv(ch) = dv2(s, ch)
    BY Zenon
  <2> HIDE DEF s0, K2, dv2, kf, dv
  <2> QED BY <2>1, <2>2, <2>3, Zenon
<1> HIDE DEF kf
<1>10. CharAt(line, kf.end) = {","}
  <2>1. kf.end = s + K
    BY <1>8
  <2> QED BY <1>2, <1>5, <2>1 DEF CharAt
<1>11. dv(",") = {Meaning(d)}
  <2>1. kf.end = s + K
    BY <1>8
  <2> QED BY <1>5, <1>6, <2>1
<1>12. kf.vals = {Meaning(k)}
  BY <1>8
<1> HIDE DEF dv
<1>13. getaddrs(line, board) = [kernel : {Meaning(k)}, dtb : {Meaning(d)}]
  <2>1. getaddrs(line, board) = UNION {[kernel : kf.vals, dtb : dv(ch)] : ch \in {","}}
    BY <1>9, <1>10
  <2>2. {[kernel : kf.vals, dtb : dv(ch)] : ch \in {","}} = {[kernel : kf.vals, dtb : dv(",")]}
    BY Zenon
  <2>3. UNION {[kernel : kf.vals, dtb : dv(",")]} = [kernel : kf.vals, dtb : dv(",")]
    BY Zenon
  <2> QED BY <1>11, <1>12, <2>1, <2>2, <2>3
<1>14. [kernel : {Meaning(k)}, dtb : {Meaning(d)}] = {[kernel |-> Meaning(k), dtb |-> Meaning(d)]}
  <2> DEFINE a == Meaning(k)
             b == Meaning(d)
  <2> HIDE DEF a, b
  <2>1. ASSUME NEW x \in [kernel : {a}, dtb : {b}] PROVE x = [kernel |-> a, dtb |-> b]
    OBVIOUS
  <2>2. [kernel |-> a, dtb |-> b] \in [kernel : {a}, dtb : {b}]
    OBVIOUS
  <2>3. [kernel : {a}, dtb : {b}] = {[kernel |-> a, dtb |-> b]}
    BY <2>1, <2>2, Zenon
  <2> QED BY <2>3 DEF a, b
<1> QED BY <1>13, <1>14

-----------------------------------------------------------------------------
(* The board.                                                              *)

\* The addresses that the board has are those of the last line so far that has
\* the parameter, and none as long as there is no such line.
Followed ==
    /\ \A n \in 1 .. t - 1, k \in Kernels, d \in Numbers :
            Says(tags[n], k, d) /\ (\A m \in n + 1 .. t - 1 : ~Mentions(tags[m])) =>
                genboard.kernel = Meaning(k) /\ genboard.dtb = Meaning(d)
    /\ (\A n \in 1 .. t - 1 : ~Mentions(tags[n])) =>
            genboard.kernel = 0 /\ genboard.dtb = 0

Inv == /\ tags \in Seq(Seq(STRING)) /\ t \in 1 .. Len(tags) + 1
       /\ pc \in {"match", "start", "kernel"}
       /\ pc # "match" => t = Len(tags) + 1
       /\ Followed
       /\ pc = "kernel" => /\ RELOCATE_DTB = 0 \/ genboard.dtb = 0 =>
                                    started.dtb = genboard.dtb
                           /\ genboard.kernel # 0 \/ AppendKernel => started.at = genboard.kernel

\* A board without addresses follows no line.
LEMMA BoardStarts ==
    Init => Inv
<1> SUFFICES ASSUME Init PROVE Inv
  OBVIOUS
<1>1. tags \in Seq(Seq(STRING))
  BY GenericAssumption, Zenon DEF Init
<1>2. pc = "match" /\ t = 1 /\ genboard.kernel = 0 /\ genboard.dtb = 0
  BY DEF Init
<1>3. t \in 1 .. Len(tags) + 1
  BY <1>1, <1>2
<1>4. Followed
  BY <1>2 DEF Followed
<1> QED BY <1>1, <1>2, <1>3, <1>4 DEF Inv

\* A round follows its line or leaves the board alone.
LEMMA RoundFollows ==
    ASSUME Inv, match_board
    PROVE  Inv'
<1>1. /\ tags \in Seq(Seq(STRING)) /\ t \in 1 .. Len(tags) + 1 /\ t <= Len(tags)
      /\ Followed /\ pc = "match"
  BY DEF Inv, match_board
<1>2. /\ genboard' \in getaddrs(tags[t], genboard) /\ t' = t + 1
      /\ pc' = pc /\ tags' = tags
  BY DEF match_board
<1>3. t \in Nat /\ t \in 1 .. Len(tags) /\ t' - 1 = t /\ t' \in 1 .. Len(tags) + 1
  BY <1>1, <1>2
<1> DEFINE line == tags[t]
<1>4. line \in Seq(STRING)
  BY <1>1, <1>3, ElementOfSeq
<1>5. \A n \in 1 .. t : n = t \/ n \in 1 .. t - 1
  BY <1>3
<1>6. \A n \in 1 .. t - 1 : t \in n + 1 .. t /\ \A m \in n + 1 .. t - 1 : m \in n + 1 .. t
  BY <1>3
<1>7. ASSUME NEW n \in 1 .. t, NEW k \in Kernels, NEW d \in Numbers,
             Says(tags[n], k, d), \A m \in n + 1 .. t : ~Mentions(tags[m])
      PROVE  genboard'.kernel = Meaning(k) /\ genboard'.dtb = Meaning(d)
  <2>1. CASE n = t
    <3>1. getaddrs(line, genboard) = {[kernel |-> Meaning(k), dtb |-> Meaning(d)]}
      <4>1. Says(line, k, d)
        BY <1>7, <2>1
      <4> HIDE DEF line
      <4> QED BY <1>4, <4>1, LineRead
    <3>2. genboard' = [kernel |-> Meaning(k), dtb |-> Meaning(d)]
      BY <1>2, <3>1
    <3> QED BY <3>2
  <2>2. CASE n \in 1 .. t - 1
    <3>1. ~Mentions(line)
      BY <1>6, <1>7, <2>2
    <3>2. genboard' = genboard
      BY <1>2, <3>1, LineIgnored
    <3>3. \A m \in n + 1 .. t - 1 : ~Mentions(tags[m])
      BY <1>6, <1>7, <2>2
    <3>4. genboard.kernel = Meaning(k) /\ genboard.dtb = Meaning(d)
      BY <1>1, <1>7, <2>2, <3>3, Zenon DEF Followed
    <3> QED BY <3>2, <3>4
  <2> QED BY <1>5, <2>1, <2>2
<1>8. ASSUME \A n \in 1 .. t : ~Mentions(tags[n])
      PROVE  genboard'.kernel = 0 /\ genboard'.dtb = 0
  <2>1. \A n \in 1 .. t - 1 : n \in 1 .. t
    BY <1>3
  <2>2. t \in 1 .. t
    BY <1>3
  <2>3. genboard' = genboard
    BY <1>2, <1>8, <2>2, LineIgnored
  <2>4. genboard.kernel = 0 /\ genboard.dtb = 0
    BY <1>1, <1>8, <2>1, Zenon DEF Followed
  <2> QED BY <2>3, <2>4
<1>9. Followed'
  BY <1>2, <1>3, <1>7, <1>8 DEF Followed
<1> QED BY <1>1, <1>2, <1>3, <1>9 DEF Inv

\* The board is followed from the first line to the start of the kernel.
LEMMA Inductive ==
    Inv /\ [main]_vars => Inv'
<1> SUFFICES ASSUME Inv, [main]_vars PROVE Inv'
  OBVIOUS
<1>1. CASE match_board
  BY <1>1, RoundFollows
<1>2. CASE matched
  <2>1. /\ pc' = "start" /\ UNCHANGED <<tags, t, genboard, started>>
        /\ t \in 1 .. Len(tags) + 1 /\ tags \in Seq(Seq(STRING)) /\ t > Len(tags)
    BY <1>2 DEF Inv, matched
  <2>2. t = Len(tags) + 1
    BY <2>1
  <2>3. Followed'
    BY <2>1 DEF Inv, Followed
  <2> QED BY <2>1, <2>2, <2>3 DEF Inv
<1>3. CASE start_kernel
  <2>1. /\ pc = "start" /\ pc' = "kernel" /\ UNCHANGED <<tags, t, genboard>>
        /\ RELOCATE_DTB = 0 \/ genboard.dtb = 0 => started'.dtb = genboard.dtb
        /\ genboard.kernel # 0 \/ AppendKernel => started'.at = genboard.kernel
    BY <1>3 DEF start_kernel
  <2>2. Followed'
    BY <2>1 DEF Inv, Followed
  <2> QED BY <2>1, <2>2 DEF Inv
<1>4. CASE UNCHANGED vars
  BY <1>4 DEF vars, Inv, Followed
<1> QED BY <1>1, <1>2, <1>3, <1>4 DEF main

\* When the kernel is started, the board has followed every line.
LEMMA FollowedObeyed ==
    Inv => LineObeyed
<1> SUFFICES ASSUME Inv, pc = "kernel" PROVE LineObeyed
  BY DEF LineObeyed
<1>1. /\ tags \in Seq(Seq(STRING)) /\ t = Len(tags) + 1 /\ Followed
      /\ RELOCATE_DTB = 0 \/ genboard.dtb = 0 => started.dtb = genboard.dtb
      /\ genboard.kernel # 0 \/ AppendKernel => started.at = genboard.kernel
  BY DEF Inv
<1>2. t - 1 = Len(tags) /\ DOMAIN tags = 1 .. t - 1
  BY <1>1
<1>3. ASSUME NEW n \in DOMAIN tags, NEW k \in Kernels, NEW d \in Numbers, LastSays(n, k, d)
      PROVE  /\ RELOCATE_DTB = 0 => started.dtb = Meaning(d)
             /\ Meaning(k) # 0 \/ AppendKernel => started.at = Meaning(k)
  <2>1. /\ n \in 1 .. t - 1 /\ Says(tags[n], k, d)
        /\ \A m \in n + 1 .. t - 1 : ~Mentions(tags[m])
    BY <1>2, <1>3 DEF LastSays
  <2>2. genboard.kernel = Meaning(k) /\ genboard.dtb = Meaning(d)
    BY <1>1, <2>1, Zenon DEF Followed
  <2> QED BY <1>1, <2>2
<1>4. ASSUME AppendKernel, \A n \in DOMAIN tags : ~Mentions(tags[n])
      PROVE  started.at = 0 /\ started.dtb = 0
  <2>1. genboard.kernel = 0 /\ genboard.dtb = 0
    BY <1>1, <1>2, <1>4, Zenon DEF Followed
  <2> QED BY <1>1, <1>4, <2>1
<1> QED BY <1>3, <1>4 DEF LineObeyed

\* The generic board: whatever tags there are and whatever else is on their lines,
\* the kernel is started where the last line with the parameter says and, unless
\* the blob is relocated, with the blob that it names; the addresses are those that are written, for every number
\* of digits that fits an address.
THEOREM LastLineObeyed == Spec => []LineObeyed
<1>1. Init => Inv
  BY BoardStarts
<1>2. Inv /\ [main]_vars => Inv'
  BY Inductive
<1>3. Inv => LineObeyed
  BY FollowedObeyed
<1> QED BY <1>1, <1>2, <1>3, PTL DEF Spec
=============================================================================
