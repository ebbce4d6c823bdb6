--------------------------- MODULE PatternProofs ---------------------------
(***************************************************************************)
(* Proofs about resource patterns, for words of every length and any       *)
(* letters: the matcher finds what a pattern means, and for the grants on  *)
(* a resource or on all below a prefix the engine and the mint agree and   *)
(* a request only narrows.                                                 *)
(*                                                                         *)
(* The matcher and the probe recur over the positions of a word, so that   *)
(* what they compute is a function each value of which depends on later    *)
(* ones.  That there is such a function, and that it is right at every     *)
(* position, is shown by induction on the positions from the last one.     *)
(***************************************************************************)
EXTENDS MCPattern, SequenceTheorems, FiniteSetTheorems, WellFoundedInduction, TLAPS

----------------------------------------------------------------------------
(* Functions defined from their later values *)

\* What 0 has and n + 1 has when n has it, every natural number has: a least
\* number without it would be neither 0 nor a successor.
LEMMA SetInduction ==
  ASSUME NEW T, 0 \in T, \A n \in Nat : n \in T => n + 1 \in T
  PROVE  Nat \subseteq T
<1> DEFINE U == Nat \ T
<1>1. SUFFICES ASSUME U # {} PROVE FALSE
  OBVIOUS
<1>2. U \subseteq Nat
  OBVIOUS
<1> HIDE DEF U
<1>3. PICK x \in U : \A y \in U : ~(<<y, x>> \in OpToRel(<, Nat))
  BY <1>1, <1>2, NatLessThanWellFounded, WFMin
<1>4. \A y \in U : ~(y < x)
  BY <1>2, <1>3 DEF OpToRel
<1> QED
  BY <1>2, <1>4 DEF U

\* A function whose value at i depends on its later values only exists.
FromLater(step, n, S) ==
  /\ step \in [(1 .. n) \X [1 .. n -> S] -> S]
  /\ \A i \in 1 .. n : \A f, g \in [1 .. n -> S] :
       (\A k \in i + 1 .. n : f[k] = g[k]) => step[<<i, f>>] = step[<<i, g>>]

\* Some function has at each i the value that step gives it there.
Solvable(step, n, S) ==
  \E f \in [1 .. n -> S] : \A i \in 1 .. n : f[i] = step[<<i, f>>]

\* The recursion of the matcher and of the probe ends: from the last position to
\* the first, there is a function that step describes.
LEMMA Recursion ==
  ASSUME NEW n \in Nat, NEW S, S # {}, NEW step, FromLater(step, n, S)
  PROVE  Solvable(step, n, S)
<1> DEFINE Holds(f, m) == \A i \in 1 .. n : i > n - m => f[i] = step[<<i, f>>]
           T == {m \in Nat : \E f \in [1 .. n -> S] : Holds(f, m)}
<1> USE DEF FromLater
<1>1. 0 \in T
  <2>1. PICK s \in S : TRUE
    OBVIOUS
  <2>2. [i \in 1 .. n |-> s] \in [1 .. n -> S]
    OBVIOUS
  <2>3. Holds([i \in 1 .. n |-> s], 0)
    OBVIOUS
  <2> QED
    BY <2>2, <2>3
<1>2. ASSUME NEW m \in Nat, m \in T PROVE m + 1 \in T
  <2>1. PICK f \in [1 .. n -> S] : Holds(f, m)
    BY <1>2
  <2>2. CASE n - m \in 1 .. n
    <3> DEFINE j == n - m
               g == [f EXCEPT ![j] = step[<<j, f>>]]
    <3>1. step[<<j, f>>] \in S
      BY <2>2
    <3>2. g \in [1 .. n -> S]
      BY <2>2, <3>1
    <3>3. ASSUME NEW i \in 1 .. n, i >= j PROVE step[<<i, g>>] = step[<<i, f>>]
      <4>1. \A k \in i + 1 .. n : g[k] = f[k]
        BY <2>2, <3>3
      <4> QED
        BY <3>2, <4>1
    <3>4. ASSUME NEW i \in 1 .. n, i > n - (m + 1) PROVE g[i] = step[<<i, g>>]
      <4>1. i >= j
        BY <2>2, <3>4
      <4>2. g[i] = step[<<i, f>>]
        <5>1. CASE i = j
          BY <5>1, <2>2
        <5>2. CASE i # j
          BY <5>2, <4>1, <2>1, <2>2
        <5> QED BY <5>1, <5>2
      <4> QED
        BY <4>1, <4>2, <3>3
    <3>5. Holds(g, m + 1)
      BY <3>4
    <3> HIDE DEF g
    <3> QED
      BY <3>2, <3>5
  <2>3. CASE n - m \notin 1 .. n
    <3>1. Holds(f, m + 1)
      BY <2>1, <2>3
    <3> QED
      BY <3>1
  <2> QED
    BY <2>2, <2>3
<1>3. n \in T
  <2> HIDE DEF T
  <2> QED
    BY <1>1, <1>2, SetInduction
<1>4. PICK f \in [1 .. n -> S] : Holds(f, n)
  BY <1>3
<1>5. \A i \in 1 .. n : f[i] = step[<<i, f>>]
  BY <1>4
<1> QED
  BY <1>5 DEF Solvable

----------------------------------------------------------------------------
(* The table of the matcher *)

\* The table that Glob computes (pattern.go:104-151).
Table(p, v) == CHOOSE f : f = [i \in 1 .. Len(p) + 1 |-> MatchesFrom(p, v, i, f)]

\* The matcher looks its answer up in the table.
LEMMA GlobTable == ASSUME NEW p, NEW v PROVE Glob(p, v) <=> 1 \in Table(p, v)[1]
  BY DEF Glob, Table

\* What the matcher finds at i depends on the pattern after i only.
LEMMA MatchesLater ==
  ASSUME NEW L, NEW p \in Seq(L), NEW v, NEW i \in 1 .. Len(p) + 1, NEW f, NEW g,
         \A k \in i + 1 .. Len(p) + 1 : f[k] = g[k]
  PROVE  MatchesFrom(p, v, i, f) = MatchesFrom(p, v, i, g)
<1> DEFINE end == Len(p) + 1
<1>0. Len(p) \in Nat
  OBVIOUS
<1>1. CASE i = end
  BY <1>1 DEF MatchesFrom
<1>2. CASE i # end /\ PairAt(p, i)
  <2>1. AfterPair(p, i) \in i + 1 .. end
    BY <1>0, <1>2 DEF PairAt, AfterPair
  <2>2. f[AfterPair(p, i)] = g[AfterPair(p, i)]
    BY <2>1
  <2> QED
    BY <1>2, <2>2 DEF MatchesFrom
<1>3. CASE i # end /\ ~PairAt(p, i)
  <2>1. f[i + 1] = g[i + 1]
    BY <1>0, <1>3
  <2> QED
    BY <1>3, <2>1 DEF MatchesFrom
<1> QED
  BY <1>1, <1>2, <1>3

\* The matcher finds positions of the value, or its end.
LEMMA MatchesType ==
  ASSUME NEW L, NEW p \in Seq(L), NEW v \in Seq(L), NEW i, NEW f
  PROVE  MatchesFrom(p, v, i, f) \subseteq 1 .. Len(v) + 1
<1>1. Len(v) \in Nat
  OBVIOUS
<1>2. 1 .. Len(v) \subseteq 1 .. Len(v) + 1
  BY <1>1
<1>3. Len(v) + 1 \in 1 .. Len(v) + 1
  BY <1>1
<1> QED
  BY <1>2, <1>3 DEF MatchesFrom

\* The table is what the matcher's step says at every position of the pattern.
LEMMA TableEquation ==
  ASSUME NEW L, NEW p \in Seq(L), NEW v \in Seq(L)
  PROVE  Table(p, v) = [i \in 1 .. Len(p) + 1 |-> MatchesFrom(p, v, i, Table(p, v))]
<1> DEFINE n == Len(p) + 1
           S == SUBSET (1 .. Len(v) + 1)
           step == [x \in (1 .. n) \X [1 .. n -> S] |-> MatchesFrom(p, v, x[1], x[2])]
<1>1. n \in Nat /\ S # {}
  <2>1. Len(p) \in Nat /\ {} \in S
    OBVIOUS
  <2> QED
    BY <2>1
<1>2. \A i \in 1 .. n : \A f \in [1 .. n -> S] : step[<<i, f>>] = MatchesFrom(p, v, i, f)
  OBVIOUS
<1>3. step \in [(1 .. n) \X [1 .. n -> S] -> S]
  BY MatchesType
<1>4. \A i \in 1 .. n : \A f, g \in [1 .. n -> S] :
        (\A k \in i + 1 .. n : f[k] = g[k]) => step[<<i, f>>] = step[<<i, g>>]
  <2>1. SUFFICES ASSUME NEW i \in 1 .. n, NEW f \in [1 .. n -> S], NEW g \in [1 .. n -> S],
                        \A k \in i + 1 .. n : f[k] = g[k]
                 PROVE  step[<<i, f>>] = step[<<i, g>>]
    OBVIOUS
  <2>2. MatchesFrom(p, v, i, f) = MatchesFrom(p, v, i, g)
    BY <2>1, MatchesLater
  <2> QED
    BY <2>2, <1>2
<1> HIDE DEF step
<1>5. FromLater(step, n, S)
  BY <1>3, <1>4 DEF FromLater
<1>6. Solvable(step, n, S)
  <2> HIDE DEF n, S
  <2> QED
    BY <1>1, <1>5, Recursion
<1>7. PICK f \in [1 .. n -> S] : \A i \in 1 .. n : f[i] = step[<<i, f>>]
  BY <1>6 DEF Solvable
<1>8. f = [i \in 1 .. n |-> MatchesFrom(p, v, i, f)]
  BY <1>2, <1>7
<1> QED
  BY <1>8, Zenon DEF Table

----------------------------------------------------------------------------
(* What the rest of a pattern denotes *)

\* The pattern from i on denotes the value from j on.
RestDenotes(p, v, i, j) ==
  \E c \in [i - 1 .. Len(p) -> 0 .. Len(v)] :
    /\ c[i - 1] = j - 1 /\ c[Len(p)] = Len(v)
    /\ \A k \in i .. Len(p) :
         c[k - 1] <= c[k] /\ StandsFor(p, k, SubSeq(v, c[k - 1] + 1, c[k]))

\* A pattern denotes a value if all of it denotes all of the value.
LEMMA DenotesIsRest ==
  ASSUME NEW L, NEW p \in Seq(L), NEW v \in Seq(L)
  PROVE  Denotes(p, v) <=> RestDenotes(p, v, 1, 1)
<1>1. DOMAIN p = 1 .. Len(p) /\ 1 - 1 = 0
  OBVIOUS
<1>2. \A c : (\A i \in DOMAIN p : c[i - 1] <= c[i])
             /\ (\A i \in DOMAIN p : StandsFor(p, i, SubSeq(v, c[i - 1] + 1, c[i])))
        <=> \A k \in 1 .. Len(p) :
              c[k - 1] <= c[k] /\ StandsFor(p, k, SubSeq(v, c[k - 1] + 1, c[k]))
  BY <1>1
<1> QED
  BY <1>1, <1>2, Zenon DEF Denotes, Cuts, RestDenotes

\* When the pattern has ended, so has the value (pattern.go:106).
LEMMA RestAtEnd ==
  ASSUME NEW L, NEW p \in Seq(L), NEW v \in Seq(L), NEW j \in 1 .. Len(v) + 1
  PROVE  RestDenotes(p, v, Len(p) + 1, j) <=> j = Len(v) + 1
<1> DEFINE n == Len(p)
           m == Len(v)
<1>1. n \in Nat /\ m \in Nat
  OBVIOUS
<1> HIDE DEF n, m
<1>2. ASSUME j = m + 1 PROVE RestDenotes(p, v, n + 1, j)
  <2> DEFINE c == [k \in (n + 1) - 1 .. n |-> m]
  <2>1. c \in [(n + 1) - 1 .. n -> 0 .. m]
    BY <1>1
  <2>2. c[(n + 1) - 1] = j - 1 /\ c[n] = m
    BY <1>1, <1>2
  <2>3. \A k \in n + 1 .. n : FALSE
    BY <1>1
  <2> HIDE DEF c
  <2> QED
    BY <2>1, <2>2, <2>3 DEF RestDenotes, n, m
<1>3. ASSUME RestDenotes(p, v, n + 1, j) PROVE j = m + 1
  <2>1. PICK c : c[(n + 1) - 1] = j - 1 /\ c[n] = m
    BY <1>3 DEF RestDenotes, n, m
  <2>2. (n + 1) - 1 = n
    BY <1>1
  <2>3. m = j - 1
    BY <2>1, <2>2
  <2> QED
    BY <2>3, <1>1 DEF m
<1> QED
  BY <1>2, <1>3 DEF n, m

\* The first letter of the rest stands for a piece, and what follows the letter
\* denotes what follows the piece.
LEMMA RestStep ==
  ASSUME NEW L, NEW p \in Seq(L), NEW v \in Seq(L),
         NEW i \in 1 .. Len(p), NEW j \in 1 .. Len(v) + 1
  PROVE  RestDenotes(p, v, i, j)
           <=> \E k \in j .. Len(v) + 1 :
                 StandsFor(p, i, SubSeq(v, j, k - 1)) /\ RestDenotes(p, v, i + 1, k)
<1> DEFINE n == Len(p)
           m == Len(v)
<1>1. n \in Nat /\ m \in Nat /\ i \in Nat /\ j \in Nat /\ (i + 1) - 1 = i /\ i <= n
  OBVIOUS
<1> HIDE DEF n, m
<1>2. ASSUME RestDenotes(p, v, i, j)
      PROVE  \E k \in j .. m + 1 :
               StandsFor(p, i, SubSeq(v, j, k - 1)) /\ RestDenotes(p, v, i + 1, k)
  <2>1. PICK c \in [i - 1 .. n -> 0 .. m] :
          /\ c[i - 1] = j - 1 /\ c[n] = m
          /\ \A k \in i .. n :
               c[k - 1] <= c[k] /\ StandsFor(p, k, SubSeq(v, c[k - 1] + 1, c[k]))
    BY <1>2 DEF RestDenotes, n, m
  <2> DEFINE next == c[i] + 1
             d == [x \in i .. n |-> c[x]]
  <2>2. c[i] \in 0 .. m /\ c[i - 1] <= c[i]
    BY <2>1, <1>1
  <2>3. next \in j .. m + 1 /\ c[i - 1] + 1 = j /\ next - 1 = c[i]
    BY <2>1, <2>2, <1>1
  <2>4. StandsFor(p, i, SubSeq(v, j, next - 1))
    <3>1. StandsFor(p, i, SubSeq(v, c[i - 1] + 1, c[i]))
      BY <2>1, <1>1
    <3> QED
      BY <3>1, <2>3
  <2>5. d \in [i .. n -> 0 .. m]
    BY <2>1, <1>1
  <2>6. d[i] = next - 1 /\ d[n] = m
    BY <2>1, <2>3, <1>1
  <2>7. \A x \in i + 1 .. n : d[x - 1] = c[x - 1] /\ d[x] = c[x] /\ x \in i .. n
    BY <1>1
  <2>8. \A x \in i + 1 .. n :
          d[x - 1] <= d[x] /\ StandsFor(p, x, SubSeq(v, d[x - 1] + 1, d[x]))
    BY <2>1, <2>7
  <2> HIDE DEF d, next
  <2>9. RestDenotes(p, v, i + 1, next)
    <3>1. d \in [(i + 1) - 1 .. n -> 0 .. m] /\ d[(i + 1) - 1] = next - 1
      BY <2>5, <2>6, <1>1
    <3> QED
      BY <3>1, <2>6, <2>8, Zenon DEF RestDenotes, n, m
  <2> QED
    BY <2>3, <2>4, <2>9
<1>3. ASSUME NEW k \in j .. m + 1,
             StandsFor(p, i, SubSeq(v, j, k - 1)), RestDenotes(p, v, i + 1, k)
      PROVE  RestDenotes(p, v, i, j)
  <2>1. PICK d \in [i .. n -> 0 .. m] :
          /\ d[i] = k - 1 /\ d[n] = m
          /\ \A x \in i + 1 .. n :
               d[x - 1] <= d[x] /\ StandsFor(p, x, SubSeq(v, d[x - 1] + 1, d[x]))
    BY <1>3, <1>1 DEF RestDenotes, n, m
  <2> DEFINE c == [x \in i - 1 .. n |-> IF x = i - 1 THEN j - 1 ELSE d[x]]
  <2>2. c \in [i - 1 .. n -> 0 .. m]
    <3>1. j - 1 \in 0 .. m
      BY <1>1 DEF m
    <3>2. \A x \in i - 1 .. n : x # i - 1 => x \in i .. n
      BY <1>1
    <3> QED
      BY <3>1, <3>2
  <2>3. c[i - 1] = j - 1 /\ c[n] = m
    BY <2>1, <1>1
  <2>4. ASSUME NEW x \in i .. n
        PROVE  c[x - 1] <= c[x] /\ StandsFor(p, x, SubSeq(v, c[x - 1] + 1, c[x]))
    <3>1. c[x] = d[x]
      BY <1>1
    <3>2. CASE x = i
      <4>1. c[x - 1] = j - 1 /\ c[x] = k - 1 /\ j - 1 <= k - 1 /\ c[x - 1] + 1 = j
        BY <3>1, <3>2, <2>1, <1>1
      <4>2. SubSeq(v, c[x - 1] + 1, c[x]) = SubSeq(v, j, k - 1)
        BY <4>1
      <4> HIDE DEF c
      <4> QED
        BY <4>1, <4>2, <3>2, <1>3
    <3>3. CASE x # i
      <4>1. x \in i + 1 .. n /\ c[x - 1] = d[x - 1]
        BY <3>3, <1>1
      <4> HIDE DEF c
      <4> QED
        BY <4>1, <3>1, <2>1
    <3> QED
      BY <3>2, <3>3
  <2> HIDE DEF c
  <2> QED
    BY <2>2, <2>3, <2>4 DEF RestDenotes, n, m
<1> QED
  BY <1>2, <1>3 DEF n, m

----------------------------------------------------------------------------
(* Pairs of stars *)

\* The stars of a row that end before i.
RunLength(p, i) == Cardinality(RunBefore(p, i)) - 1

\* A star makes the row longer and any other letter ends it.
LEMMA RunLengths ==
  ASSUME NEW p, NEW i \in Nat \ {0}
  PROVE  /\ RunLength(p, i) \in Int /\ RunLength(p, 1) = 0
         /\ p[i] = "*" => RunLength(p, i + 1) = RunLength(p, i) + 1
         /\ p[i] # "*" => RunLength(p, i + 1) = 0
<1>1. IsFiniteSet(RunBefore(p, i))
  <2>1. IsFiniteSet(1 .. i)
    BY FS_Interval
  <2> QED
    BY <2>1, FS_Subset DEF RunBefore
<1>2. Cardinality(RunBefore(p, i)) \in Nat
  BY <1>1, FS_CardinalityType
<1>3. RunBefore(p, 1) = {1}
  BY DEF RunBefore
<1>4. ASSUME p[i] = "*" PROVE RunLength(p, i + 1) = RunLength(p, i) + 1
  <2>1. RunBefore(p, i + 1) = RunBefore(p, i) \cup {i + 1}
    <3>1. ASSUME NEW k \in RunBefore(p, i + 1) PROVE k \in RunBefore(p, i) \cup {i + 1}
      <4>1. k \in 1 .. i + 1 /\ \A j \in k .. i : p[j] = "*"
        BY DEF RunBefore
      <4>2. \A j \in k .. i - 1 : p[j] = "*"
        BY <4>1
      <4> QED
        BY <4>1, <4>2 DEF RunBefore
    <3>2. ASSUME NEW k \in RunBefore(p, i) PROVE k \in RunBefore(p, i + 1)
      <4>1. k \in 1 .. i /\ \A j \in k .. i - 1 : p[j] = "*"
        BY DEF RunBefore
      <4>2. \A j \in k .. (i + 1) - 1 : p[j] = "*"
        BY <4>1, <1>4
      <4> QED
        BY <4>1, <4>2 DEF RunBefore
    <3>3. i + 1 \in RunBefore(p, i + 1)
      BY DEF RunBefore
    <3> QED
      BY <3>1, <3>2, <3>3
  <2>2. i + 1 \notin RunBefore(p, i)
    BY DEF RunBefore
  <2>3. Cardinality(RunBefore(p, i + 1)) = Cardinality(RunBefore(p, i)) + 1
    BY <1>1, <2>1, <2>2, FS_AddElement
  <2> QED
    BY <1>2, <2>3 DEF RunLength
<1>5. ASSUME p[i] # "*" PROVE RunBefore(p, i + 1) = {i + 1}
  <2>1. ASSUME NEW k \in RunBefore(p, i + 1) PROVE k = i + 1
    <3>1. k \in 1 .. i + 1 /\ \A j \in k .. (i + 1) - 1 : p[j] = "*"
      BY DEF RunBefore
    <3> QED
      BY <3>1, <1>5
  <2>2. i + 1 \in RunBefore(p, i + 1)
    BY DEF RunBefore
  <2> QED
    BY <2>1, <2>2
<1>6. \A x : Cardinality({x}) = 1
  BY FS_Singleton
<1>7. RunLength(p, 1) = 0
  BY <1>3, <1>6 DEF RunLength
<1>8. ASSUME p[i] # "*" PROVE RunLength(p, i + 1) = 0
  BY <1>5, <1>6, <1>8 DEF RunLength
<1>9. RunLength(p, i) \in Int
  BY <1>2 DEF RunLength
<1> QED
  BY <1>4, <1>7, <1>8, <1>9

\* Two stars, not the second of a pair, are a pair (pattern.go:109).
LEMMA PairStarts ==
  ASSUME NEW L, NEW p \in Seq(L), NEW i \in 1 .. Len(p), ~InPair(p, i)
  PROVE  IsPair(p, i) <=> PairAt(p, i)
<1>1. Len(p) \in Nat /\ DOMAIN p = 1 .. Len(p)
  OBVIOUS
<1>2. IsPair(p, i) => PairAt(p, i)
  BY <1>1 DEF IsPair, PairAt
<1>3. ASSUME PairAt(p, i) PROVE RunLength(p, i) % 2 = 0
  <2>1. CASE i = 1
    BY <2>1, RunLengths
  <2>2. CASE i # 1 /\ p[i - 1] # "*"
    <3>1. i - 1 \in Nat \ {0} /\ (i - 1) + 1 = i
      BY <2>2, <1>1
    <3>2. RunLength(p, i) = 0
      BY <3>1, <2>2, RunLengths
    <3> QED
      BY <3>2
  <2>3. CASE i # 1 /\ p[i - 1] = "*"
    <3>1. i - 1 \in Nat \ {0} /\ (i - 1) + 1 = i /\ i > 1
      BY <2>3, <1>1
    <3>2. RunLength(p, i) = RunLength(p, i - 1) + 1 /\ RunLength(p, i - 1) \in Int
      BY <3>1, <2>3, RunLengths
    <3>3. ~IsPair(p, i - 1)
      BY <3>1 DEF InPair
    <3>4. RunLength(p, i - 1) % 2 # 0
      BY <3>1, <3>3, <2>3, <1>1, <1>3 DEF IsPair, PairAt, RunLength
    <3> QED
      BY <3>2, <3>4
  <2> QED
    BY <2>1, <2>2, <2>3
<1> QED
  BY <1>1, <1>2, <1>3 DEF IsPair, PairAt, RunLength

\* After a pair and the slash that belongs to it (pattern.go:111) a letter of its
\* own begins.
LEMMA PairEnds ==
  ASSUME NEW L, NEW p \in Seq(L), NEW i \in 1 .. Len(p), IsPair(p, i)
  PROVE  /\ ~IsPair(p, i + 1) /\ InPair(p, i + 1)
         /\ i + 2 \in 1 .. Len(p) + 1
         /\ AfterPair(p, i) \in 1 .. Len(p) + 1
         /\ AfterPair(p, i) \in 1 .. Len(p) => ~InPair(p, AfterPair(p, i))
         /\ \/ AfterPair(p, i) = i + 2
            \/ /\ AfterPair(p, i) = i + 3 /\ i + 2 \in 1 .. Len(p)
               /\ ~IsPair(p, i + 2) /\ InPair(p, i + 2)
<1>1. Len(p) \in Nat /\ DOMAIN p = 1 .. Len(p) /\ i \in Nat \ {0} /\ (i + 1) + 1 = i + 2
  OBVIOUS
<1>2. p[i] = "*" /\ p[i + 1] = "*" /\ i + 1 \in 1 .. Len(p) /\ RunLength(p, i) % 2 = 0
  BY <1>1 DEF IsPair, RunLength
<1>3. RunLength(p, i + 1) = RunLength(p, i) + 1 /\ RunLength(p, i) \in Int
  BY <1>1, <1>2, RunLengths
<1>4. RunLength(p, i + 1) % 2 # 0
  BY <1>2, <1>3
<1>5. ~IsPair(p, i + 1)
  BY <1>4 DEF IsPair, RunLength
<1>6. i + 1 > 1 /\ (i + 1) - 1 = i /\ i + 2 > 2 /\ (i + 2) - 2 = i /\ (i + 2) - 1 = i + 1
      /\ (i + 3) - 1 = i + 2 /\ (i + 3) - 2 = i + 1 /\ i + 2 \in 1 .. Len(p) + 1
  BY <1>1, <1>2
<1>7. InPair(p, i + 1)
  BY <1>6 DEF InPair
<1>8. CASE i + 2 <= Len(p) /\ p[i + 2] = "/"
  <2>1. AfterPair(p, i) = i + 3 /\ i + 2 \in 1 .. Len(p) /\ i + 3 \in 1 .. Len(p) + 1
    BY <1>8, <1>1 DEF AfterPair
  <2>2. ~IsPair(p, i + 2)
    BY <1>8 DEF IsPair
  <2>3. InPair(p, i + 2)
    BY <1>8, <1>6 DEF InPair
  <2>4. ~InPair(p, i + 3)
    BY <1>5, <1>6, <2>2 DEF InPair
  <2> QED
    BY <1>5, <1>6, <1>7, <2>1, <2>2, <2>3, <2>4
<1>9. CASE ~(i + 2 <= Len(p) /\ p[i + 2] = "/")
  <2>1. AfterPair(p, i) = i + 2
    BY <1>9 DEF AfterPair
  <2>2. ~InPair(p, i + 2) \/ p[i + 2] = "/"
    BY <1>5, <1>6 DEF InPair
  <2>3. i + 2 \in 1 .. Len(p) => ~InPair(p, i + 2)
    BY <1>9, <2>2, <1>1
  <2> QED
    BY <1>5, <1>6, <1>7, <2>1, <2>3
<1> QED
  BY <1>8, <1>9

\* After a letter outside of any pair, a letter of its own begins.
LEMMA SingleEnds ==
  ASSUME NEW L, NEW p \in Seq(L), NEW i \in 1 .. Len(p), ~InPair(p, i), ~PairAt(p, i)
  PROVE  ~IsPair(p, i) /\ ~InPair(p, i + 1)
<1>1. ~IsPair(p, i)
  BY PairStarts
<1>2. (i + 1) - 1 = i /\ (i + 1) - 2 = i - 1 /\ (i + 1 > 2 <=> i > 1) /\ i \in Nat
  OBVIOUS
<1> QED
  BY <1>1, <1>2 DEF InPair

----------------------------------------------------------------------------
(* What each kind of letter stands for *)

\* The letters of a piece of the value.
LEMMA PieceOf ==
  ASSUME NEW L, NEW v \in Seq(L), NEW j \in 1 .. Len(v) + 1, NEW k \in j .. Len(v) + 1
  PROVE  /\ SubSeq(v, j, k - 1) \in Seq(L) /\ Len(SubSeq(v, j, k - 1)) = k - j
         /\ \A x \in 1 .. k - j : SubSeq(v, j, k - 1)[x] = v[j + x - 1]
         /\ SubSeq(v, j, k - 1) = <<>> <=> k = j
<1>1. Len(v) \in Nat /\ k - 1 \in Int /\ j \in Int
  OBVIOUS
<1>2. \A x \in j .. k - 1 : v[x] \in L
  BY <1>1
<1>3. /\ SubSeq(v, j, k - 1) \in Seq(L)
      /\ Len(SubSeq(v, j, k - 1)) = IF j <= k - 1 THEN k - 1 - j + 1 ELSE 0
      /\ \A x \in 1 .. k - 1 - j + 1 : SubSeq(v, j, k - 1)[x] = v[j + x - 1]
  BY <1>1, <1>2, SubSeqProperties
<1>4. k - 1 - j + 1 = k - j /\ (j <= k - 1 <=> k # j)
  BY <1>1
<1>5. Len(SubSeq(v, j, k - 1)) = k - j
  BY <1>3, <1>4, <1>1
<1>6. SubSeq(v, j, k - 1) = <<>> <=> k = j
  BY <1>3, <1>5, <1>1, EmptySeq
<1> QED
  BY <1>3, <1>4, <1>5, <1>6

\* A letter that belongs to a pair stands for nothing.
LEMMA RestSkips ==
  ASSUME NEW L, NEW p \in Seq(L), NEW v \in Seq(L), NEW i \in 1 .. Len(p),
         NEW j \in 1 .. Len(v) + 1, ~IsPair(p, i), InPair(p, i)
  PROVE  RestDenotes(p, v, i, j) <=> RestDenotes(p, v, i + 1, j)
<1>1. \A k \in j .. Len(v) + 1 : StandsFor(p, i, SubSeq(v, j, k - 1)) <=> k = j
  BY PieceOf DEF StandsFor
<1>2. j \in j .. Len(v) + 1
  OBVIOUS
<1> QED
  BY <1>1, <1>2, RestStep

\* A pair stands for whatever comes before the rest (pattern.go:115-125).
LEMMA RestPair ==
  ASSUME NEW L, NEW p \in Seq(L), NEW v \in Seq(L), NEW i \in 1 .. Len(p),
         NEW j \in 1 .. Len(v) + 1, IsPair(p, i)
  PROVE  RestDenotes(p, v, i, j)
           <=> \E k \in j .. Len(v) + 1 : RestDenotes(p, v, AfterPair(p, i), k)
<1>1. RestDenotes(p, v, i, j) <=> \E k \in j .. Len(v) + 1 : RestDenotes(p, v, i + 1, k)
  BY RestStep DEF StandsFor
<1>2. i + 1 \in 1 .. Len(p) /\ ~IsPair(p, i + 1) /\ InPair(p, i + 1) /\ (i + 1) + 1 = i + 2
  BY PairEnds DEF IsPair
<1>3. \A k \in j .. Len(v) + 1 : k \in 1 .. Len(v) + 1
  OBVIOUS
<1>4. \A k \in j .. Len(v) + 1 : RestDenotes(p, v, i + 1, k) <=> RestDenotes(p, v, i + 2, k)
  BY <1>2, <1>3, RestSkips
<1>5. CASE AfterPair(p, i) = i + 2
  BY <1>1, <1>4, <1>5
<1>6. CASE /\ AfterPair(p, i) = i + 3 /\ i + 2 \in 1 .. Len(p)
           /\ ~IsPair(p, i + 2) /\ InPair(p, i + 2)
  <2>1. (i + 2) + 1 = i + 3
    OBVIOUS
  <2>2. \A k \in j .. Len(v) + 1 : RestDenotes(p, v, i + 2, k) <=> RestDenotes(p, v, i + 3, k)
    BY <1>3, <1>6, <2>1, RestSkips
  <2> QED
    BY <1>1, <1>4, <1>6, <2>2
<1> QED
  BY <1>5, <1>6, PairEnds

\* A star stands for what has no slash (pattern.go:129-141).
LEMMA RestStar ==
  ASSUME NEW L, NEW p \in Seq(L), NEW v \in Seq(L), NEW i \in 1 .. Len(p),
         NEW j \in 1 .. Len(v) + 1, ~IsPair(p, i), ~InPair(p, i), p[i] = "*"
  PROVE  RestDenotes(p, v, i, j)
           <=> \E k \in NoSlashBefore(v, j) : RestDenotes(p, v, i + 1, k)
BY RestStep DEF StandsFor, NoSlashBefore

\* Any other letter stands for itself (pattern.go:143-149).
LEMMA RestLetter ==
  ASSUME NEW L, NEW p \in Seq(L), NEW v \in Seq(L), NEW i \in 1 .. Len(p),
         NEW j \in 1 .. Len(v) + 1, ~IsPair(p, i), ~InPair(p, i), p[i] # "*"
  PROVE  RestDenotes(p, v, i, j)
           <=> j \in 1 .. Len(v) /\ v[j] = p[i] /\ RestDenotes(p, v, i + 1, j + 1)
<1>1. Len(v) \in Nat /\ j \in Nat
  OBVIOUS
<1>2. ASSUME NEW k \in j .. Len(v) + 1
      PROVE  SubSeq(v, j, k - 1) = <<p[i]>> <=> k = j + 1 /\ v[j] = p[i]
  <2> DEFINE piece == SubSeq(v, j, k - 1)
  <2>1. piece \in Seq(L) /\ Len(piece) = k - j /\ \A x \in 1 .. k - j : piece[x] = v[j + x - 1]
    BY PieceOf
  <2> HIDE DEF piece
  <2>2. p[i] \in L
    OBVIOUS
  <2>3. <<p[i]>> \in Seq(L) /\ Len(<<p[i]>>) = 1 /\ <<p[i]>>[1] = p[i]
    BY <2>2
  <2>4. ASSUME piece = <<p[i]>> PROVE k = j + 1 /\ v[j] = p[i]
    <3>1. k - j = 1
      BY <2>1, <2>3, <2>4
    <3>2. k = j + 1 /\ j + 1 - 1 = j /\ 1 \in 1 .. k - j
      BY <3>1, <1>1
    <3>3. piece[1] = v[j]
      BY <2>1, <3>2
    <3> QED
      BY <2>3, <2>4, <3>2, <3>3
  <2>5. ASSUME k = j + 1, v[j] = p[i] PROVE piece = <<p[i]>>
    <3>1. k - j = 1 /\ j + 1 - 1 = j
      BY <2>5, <1>1
    <3>2. Len(piece) = Len(<<p[i]>>) /\ \A x \in 1 .. Len(piece) : piece[x] = <<p[i]>>[x]
      BY <3>1, <2>1, <2>3, <2>5
    <3> HIDE DEF piece
    <3> QED
      BY <3>2, <2>1, <2>3, SeqEqual
  <2> QED
    BY <2>4, <2>5 DEF piece
<1>3. \A k \in j .. Len(v) + 1 :
        StandsFor(p, i, SubSeq(v, j, k - 1)) <=> k = j + 1 /\ v[j] = p[i]
  BY <1>2 DEF StandsFor
<1>4. j + 1 \in j .. Len(v) + 1 <=> j \in 1 .. Len(v)
  BY <1>1
<1>5. RestDenotes(p, v, i, j)
        <=> \E k \in j .. Len(v) + 1 :
              StandsFor(p, i, SubSeq(v, j, k - 1)) /\ RestDenotes(p, v, i + 1, k)
  BY RestStep
<1>6. RestDenotes(p, v, i, j)
        <=> \E k \in j .. Len(v) + 1 :
              k = j + 1 /\ v[j] = p[i] /\ RestDenotes(p, v, i + 1, k)
  BY <1>3, <1>5
<1> QED
  BY <1>4, <1>6

\* A letter that is no slash may be left to a pattern that matches nothing.
LEMMA RestOfLast ==
  ASSUME NEW L, NEW p \in Seq(L), NEW v \in Seq(L), NEW i \in 1 .. Len(p), ~InPair(p, i),
         v # <<>>, v[Len(v)] # "/", RestDenotes(p, v, i, Len(v) + 1)
  PROVE  RestDenotes(p, v, i, Len(v))
<1> DEFINE m == Len(v)
<1>1. m \in Nat \ {0} /\ m \in 1 .. m + 1 /\ m + 1 \in 1 .. m + 1 /\ m + 1 \in m .. m + 1
  OBVIOUS
<1> HIDE DEF m
<1>2. CASE IsPair(p, i)
  <2>1. PICK k \in m + 1 .. m + 1 : RestDenotes(p, v, AfterPair(p, i), k)
    BY <1>1, <1>2, RestPair DEF m
  <2>2. k \in m .. m + 1
    BY <1>1
  <2> QED
    BY <1>1, <1>2, <2>1, <2>2, RestPair DEF m
<1>3. CASE ~IsPair(p, i) /\ p[i] = "*"
  <2>1. PICK k \in NoSlashBefore(v, m + 1) : RestDenotes(p, v, i + 1, k)
    BY <1>1, <1>3, RestStar DEF m
  <2>2. k = m + 1
    BY <1>1 DEF NoSlashBefore, m
  <2>3. Len(SubSeq(v, m, (m + 1) - 1)) = (m + 1) - m
        /\ \A x \in 1 .. (m + 1) - m : SubSeq(v, m, (m + 1) - 1)[x] = v[m + x - 1]
    BY <1>1, PieceOf DEF m
  <2>4. ~Contains(SubSeq(v, m, (m + 1) - 1), "/")
    <3>1. (m + 1) - m = 1 /\ m + 1 - 1 = m
      BY <1>1
    <3> QED
      BY <2>3, <3>1 DEF Contains, m
  <2>5. m + 1 \in NoSlashBefore(v, m)
    BY <1>1, <2>4 DEF NoSlashBefore, m
  <2> QED
    BY <1>1, <1>3, <2>1, <2>2, <2>5, RestStar DEF m
<1>4. CASE ~IsPair(p, i) /\ p[i] # "*"
  <2>1. m + 1 \in 1 .. m
    BY <1>1, <1>4, RestLetter DEF m
  <2> QED
    BY <2>1, <1>1
<1> QED
  BY <1>2, <1>3, <1>4

----------------------------------------------------------------------------
(* The matcher finds what a pattern means *)

\* The table is right at i, unless i is within a pair: there it is not looked up.
Agrees(p, v, i) ==
  \/ InPair(p, i) /\ i <= Len(p)
  \/ \A j \in 1 .. Len(v) + 1 : j \in Table(p, v)[i] <=> RestDenotes(p, v, i, j)

\* A table that is right after i is right at i, one case for each branch of the
\* loop (pattern.go:105-150).
LEMMA AgreesStep ==
  ASSUME NEW L, NEW p \in Seq(L), NEW v \in Seq(L), NEW i \in 1 .. Len(p) + 1,
         \A k \in i + 1 .. Len(p) + 1 : Agrees(p, v, k)
  PROVE  Agrees(p, v, i)
<1> DEFINE n == Len(p)
           m == Len(v)
           table == Table(p, v)
<1>1. n \in Nat /\ m \in Nat /\ i \in Nat /\ i <= n + 1
  OBVIOUS
<1>2. table[i] = MatchesFrom(p, v, i, table)
  BY TableEquation
<1> HIDE DEF n, m, table
<1>3. CASE i = n + 1
  <2>1. table[i] = {m + 1}
    BY <1>2, <1>3 DEF MatchesFrom, n, m
  <2> QED
    BY <2>1, <1>3, RestAtEnd DEF Agrees, n, m, table
<1>4. CASE i <= n /\ InPair(p, i)
  BY <1>4 DEF Agrees, n
<1>5. CASE i <= n /\ ~InPair(p, i) /\ PairAt(p, i)
  <2> DEFINE rest == AfterPair(p, i)
  <2>1. i \in 1 .. n /\ i # n + 1
    BY <1>1, <1>5
  <2>2. IsPair(p, i)
    BY <2>1, <1>5, PairStarts DEF n
  <2>3. rest \in 1 .. n + 1 /\ (rest \in 1 .. n => ~InPair(p, rest))
        /\ (rest = i + 2 \/ rest = i + 3)
    BY <2>1, <2>2, PairEnds DEF n
  <2> HIDE DEF rest
  <2>4. rest \in i + 1 .. n + 1
    BY <1>1, <2>3
  <2>5. \A j \in 1 .. m + 1 : j \in table[rest] <=> RestDenotes(p, v, rest, j)
    <3>1. Agrees(p, v, rest)
      BY <2>4 DEF n
    <3> QED
      BY <3>1, <2>3 DEF Agrees, n, m, table
  <2>6. \A j \in 1 .. m + 1 :
          RestDenotes(p, v, i, j) <=> \E k \in j .. m + 1 : RestDenotes(p, v, rest, k)
    BY <2>1, <2>2, RestPair DEF n, m, rest
  <2>7. table[i] = {j \in 1 .. m + 1 :
                      \/ rest = n + 1 \/ j \in table[rest]
                      \/ \E k \in j .. m :
                           \/ v[k] = "/" /\ k + 1 \in table[rest]
                           \/ k \in table[rest]}
    BY <1>2, <1>5, <2>1 DEF MatchesFrom, n, m, rest
  <2>8. ASSUME NEW j \in 1 .. m + 1, j \in table[i] PROVE RestDenotes(p, v, i, j)
    <3>1. CASE rest = n + 1
      <4>1. m + 1 \in 1 .. m + 1 /\ m + 1 \in j .. m + 1
        BY <1>1
      <4>2. RestDenotes(p, v, rest, m + 1)
        BY <3>1, <4>1, RestAtEnd DEF n, m
      <4> QED
        BY <4>1, <4>2, <2>6
    <3>2. CASE j \in table[rest]
      <4>1. j \in j .. m + 1
        BY <1>1
      <4> QED
        BY <3>2, <4>1, <2>5, <2>6
    <3>3. ASSUME NEW k \in j .. m, k + 1 \in table[rest] PROVE RestDenotes(p, v, i, j)
      <4>1. k + 1 \in j .. m + 1 /\ k + 1 \in 1 .. m + 1
        BY <1>1
      <4> QED
        BY <3>3, <4>1, <2>5, <2>6
    <3>4. ASSUME NEW k \in j .. m, k \in table[rest] PROVE RestDenotes(p, v, i, j)
      <4>1. k \in j .. m + 1 /\ k \in 1 .. m + 1
        BY <1>1
      <4> QED
        BY <3>4, <4>1, <2>5, <2>6
    <3> QED
      BY <2>7, <2>8, <3>1, <3>2, <3>3, <3>4
  <2>9. ASSUME NEW j \in 1 .. m + 1, RestDenotes(p, v, i, j) PROVE j \in table[i]
    <3>1. PICK k \in j .. m + 1 : RestDenotes(p, v, rest, k)
      BY <2>6, <2>9
    <3>2. k \in 1 .. m + 1
      BY <1>1
    <3>3. k \in table[rest]
      BY <3>1, <3>2, <2>5
    <3>4. CASE k = j
      BY <2>7, <3>3, <3>4
    <3>5. CASE k \in j .. m
      BY <2>7, <3>3, <3>5
    <3>6. CASE k = m + 1 /\ k # j /\ rest # n + 1
      <4>1. m \in j .. m /\ m \in 1 .. m + 1 /\ m > 0 /\ rest \in 1 .. n
        BY <3>6, <2>3, <1>1
      <4>2. CASE v[m] = "/"
        BY <2>7, <3>3, <3>6, <4>1, <4>2
      <4>3. CASE v[m] # "/"
        <5>1. v # <<>>
          BY <4>1 DEF m
        <5>2. RestDenotes(p, v, rest, m)
          BY <3>1, <3>6, <4>1, <4>3, <5>1, <2>3, RestOfLast DEF n, m
        <5>3. m \in table[rest]
          BY <5>2, <4>1, <2>5
        <5> QED
          BY <2>7, <4>1, <5>3
      <4> QED
        BY <4>2, <4>3
    <3>7. CASE rest = n + 1
      BY <2>7, <3>7
    <3> QED
      BY <3>4, <3>5, <3>6, <3>7, <1>1
  <2> QED
    BY <2>8, <2>9 DEF Agrees, m, table
<1>6. CASE i <= n /\ ~InPair(p, i) /\ ~PairAt(p, i)
  <2>1. i \in 1 .. n /\ i # n + 1 /\ i + 1 \in i + 1 .. n + 1
    BY <1>1, <1>6
  <2>2. ~IsPair(p, i) /\ ~InPair(p, i + 1)
    BY <2>1, <1>6, SingleEnds DEF n
  <2>3. \A j \in 1 .. m + 1 : j \in table[i + 1] <=> RestDenotes(p, v, i + 1, j)
    <3>1. Agrees(p, v, i + 1)
      BY <2>1 DEF n
    <3> QED
      BY <3>1, <2>2 DEF Agrees, m, table
  <2>4. CASE p[i] = "*"
    <3>1. table[i] = {j \in 1 .. m + 1 : NoSlashBefore(v, j) \cap table[i + 1] # {}}
      BY <1>2, <1>6, <2>1, <2>4 DEF MatchesFrom, n, m
    <3>2. \A j \in 1 .. m + 1 :
            RestDenotes(p, v, i, j)
              <=> \E k \in NoSlashBefore(v, j) : RestDenotes(p, v, i + 1, k)
      BY <2>1, <2>2, <1>6, <2>4, RestStar DEF n, m
    <3>3. \A j \in 1 .. m + 1 : NoSlashBefore(v, j) \subseteq 1 .. m + 1
      BY <1>1 DEF NoSlashBefore, m
    <3>4. \A j \in 1 .. m + 1 : j \in table[i] <=> RestDenotes(p, v, i, j)
      BY <3>1, <3>2, <3>3, <2>3
    <3> QED
      BY <3>4 DEF Agrees, m, table
  <2>5. CASE p[i] # "*"
    <3>1. table[i] = {j \in 1 .. m : v[j] = p[i] /\ j + 1 \in table[i + 1]}
      BY <1>2, <1>6, <2>1, <2>5 DEF MatchesFrom, n, m
    <3>2. \A j \in 1 .. m + 1 :
            RestDenotes(p, v, i, j)
              <=> j \in 1 .. m /\ v[j] = p[i] /\ RestDenotes(p, v, i + 1, j + 1)
      BY <2>1, <2>2, <1>6, <2>5, RestLetter DEF n, m
    <3>3. \A j \in 1 .. m : j + 1 \in 1 .. m + 1
      BY <1>1
    <3>4. \A j \in 1 .. m + 1 : j \in table[i] <=> RestDenotes(p, v, i, j)
      BY <3>1, <3>2, <3>3, <2>3
    <3> QED
      BY <3>4 DEF Agrees, m, table
  <2> QED
    BY <2>4, <2>5
<1> QED
  BY <1>1, <1>3, <1>4, <1>5, <1>6

\* The matcher's walk (pattern.go:103) finds a match exactly if the letters of
\* the pattern can be given pieces of the value, in order and leaving nothing.
LEMMA GlobDenotes ==
  ASSUME NEW L, NEW p \in Seq(L), NEW v \in Seq(L)
  PROVE  Glob(p, v) <=> Denotes(p, v)
<1> DEFINE n == Len(p)
           T == {k \in Nat : \A i \in 1 .. n + 1 : i > n + 1 - k => Agrees(p, v, i)}
<1>1. n \in Nat /\ 1 \in 1 .. n + 1 /\ 1 \in 1 .. Len(v) + 1
  OBVIOUS
<1>2. 0 \in T
  BY <1>1
<1>3. ASSUME NEW k \in Nat, k \in T PROVE k + 1 \in T
  <2>1. ASSUME NEW i \in 1 .. n + 1, i > n + 1 - (k + 1) PROVE Agrees(p, v, i)
    <3>1. \A x \in i + 1 .. n + 1 : x \in 1 .. n + 1 /\ x > n + 1 - k
      BY <1>1, <2>1
    <3>2. \A x \in i + 1 .. n + 1 : Agrees(p, v, x)
      BY <3>1, <1>3
    <3> QED
      BY <3>2, AgreesStep
  <2> QED
    BY <2>1
<1>4. n + 1 \in T
  <2> HIDE DEF T
  <2>1. Nat \subseteq T
    BY <1>2, <1>3, SetInduction
  <2> QED
    BY <1>1, <2>1
<1>5. Agrees(p, v, 1)
  BY <1>1, <1>4
<1>6. ~InPair(p, 1)
  BY DEF InPair
<1>7. 1 \in Table(p, v)[1] <=> RestDenotes(p, v, 1, 1)
  BY <1>1, <1>5, <1>6 DEF Agrees
<1> QED
  BY <1>7, GlobTable, DenotesIsRest

----------------------------------------------------------------------------
(* Words that end in a slash and a star *)

\* A function on 1 .. k is a word of k letters.
LEMMA FunctionIsWord ==
  ASSUME NEW L, NEW k \in Nat, NEW w \in [1 .. k -> L]
  PROVE  w \in Seq(L) /\ Len(w) = k
OBVIOUS

\* The letters of "/*" and "/".
LEMMA BelowIsWord ==
  ASSUME NEW L, "*" \in L, "/" \in L
  PROVE  /\ Below \in Seq(L) /\ Len(Below) = 2 /\ Below[1] = "/" /\ Below[2] = "*"
         /\ Slash \in Seq(L) /\ Len(Slash) = 1 /\ Slash[1] = "/"
BY DEF Below, Slash

\* A word ends in "/*" if these are its last two letters.
LEMMA SuffixBelow ==
  ASSUME NEW L, NEW p \in Seq(L), "*" \in L, "/" \in L
  PROVE  IsSuffix(Below, p) <=> Len(p) >= 2 /\ p[Len(p) - 1] = "/" /\ p[Len(p)] = "*"
<1> DEFINE n == Len(p)
           r == Reverse(p)
           b == Reverse(Below)
<1>1. n \in Nat
  OBVIOUS
<1>2. b = [i \in 1 .. 2 |-> Below[(2 - i) + 1]]
  BY BelowIsWord DEF Reverse
<1>3. b \in Seq(L) /\ Len(b) = 2 /\ b[1] = "*" /\ b[2] = "/"
  <2>1. b \in [1 .. 2 -> L] /\ b[1] = "*" /\ b[2] = "/"
    BY <1>2, BelowIsWord
  <2> HIDE DEF b
  <2>2. 2 \in Nat
    OBVIOUS
  <2>3. b \in Seq(L) /\ Len(b) = 2
    BY <2>1, <2>2, FunctionIsWord
  <2> QED
    BY <2>1, <2>3
<1>4. r = [i \in 1 .. n |-> p[(n - i) + 1]]
  BY DEF Reverse
<1>5. r \in Seq(L) /\ Len(r) = n
  <2>1. r \in [1 .. n -> L]
    BY <1>1, <1>4
  <2> QED
    BY <1>1, <2>1
<1>6. n >= 2 => r[1] = p[n] /\ r[2] = p[n - 1]
  <2>1. n >= 2 => 1 \in 1 .. n /\ 2 \in 1 .. n /\ (n - 1) + 1 = n /\ (n - 2) + 1 = n - 1
    BY <1>1
  <2> QED
    BY <1>4, <2>1
<1> HIDE DEF n, r, b
<1>7. SubSeq(b, 1, 2) = b
  BY <1>3, SubSeqFull
<1>8. ASSUME n >= 2
      PROVE  /\ SubSeq(r, 1, 2) \in Seq(L) /\ Len(SubSeq(r, 1, 2)) = 2
             /\ SubSeq(r, 1, 2)[1] = r[1] /\ SubSeq(r, 1, 2)[2] = r[2]
  <2>1. \A i \in 1 .. 2 : r[i] \in L
    BY <1>1, <1>5, <1>8
  <2>2. /\ SubSeq(r, 1, 2) \in Seq(L)
        /\ Len(SubSeq(r, 1, 2)) = IF 1 <= 2 THEN 2 - 1 + 1 ELSE 0
        /\ \A i \in 1 .. 2 - 1 + 1 : SubSeq(r, 1, 2)[i] = r[1 + i - 1]
    BY <2>1, SubSeqProperties
  <2> QED
    BY <2>2
<1>9. IsSuffix(Below, p) <=> n >= 2 /\ b = SubSeq(r, 1, 2)
  BY <1>3, <1>5, <1>7 DEF IsSuffix, IsPrefix, r, b
<1>10. ASSUME n >= 2 PROVE b = SubSeq(r, 1, 2) <=> b[1] = r[1] /\ b[2] = r[2]
  <2>1. ASSUME b[1] = r[1], b[2] = r[2] PROVE b = SubSeq(r, 1, 2)
    <3>1. \A i \in 1 .. Len(b) : b[i] = SubSeq(r, 1, 2)[i]
      BY <1>3, <1>8, <1>10, <2>1
    <3> QED
      BY <3>1, <1>3, <1>8, <1>10, SeqEqual
  <2> QED
    BY <2>1, <1>8, <1>10
<1> QED
  BY <1>3, <1>6, <1>9, <1>10 DEF n

\* What TrimSuffix leaves of a word that ends in "/*" (pattern.go:25).
LEMMA TrimBelow ==
  ASSUME NEW L, NEW p \in Seq(L), "*" \in L, "/" \in L, IsSuffix(Below, p)
  PROVE  /\ TrimSuffix(p, Below) \in Seq(L) /\ Len(TrimSuffix(p, Below)) = Len(p) - 2
         /\ \A i \in 1 .. Len(p) - 2 : TrimSuffix(p, Below)[i] = p[i]
         /\ TrimSuffix(p, Below) = SubSeq(p, 1, Len(p) - 2)
         /\ TrimSuffix(p, Below) \o Below = p
<1> DEFINE n == Len(p)
           t == SubSeq(p, 1, n - 2)
<1>0. Below \in Seq(L) /\ Len(Below) = 2 /\ Below[1] = "/" /\ Below[2] = "*"
  BY BelowIsWord
<1>1. n \in Nat /\ n >= 2 /\ p[n - 1] = "/" /\ p[n] = "*"
  BY SuffixBelow
<1>2. TrimSuffix(p, Below) = t
  BY BelowIsWord DEF TrimSuffix
<1>3. \A i \in 1 .. n - 2 : p[i] \in L
  BY <1>1
<1> HIDE DEF n
<1>4. /\ t \in Seq(L)
      /\ Len(t) = IF 1 <= n - 2 THEN n - 2 - 1 + 1 ELSE 0
      /\ \A i \in 1 .. n - 2 - 1 + 1 : t[i] = p[1 + i - 1]
  BY <1>1, <1>3, SubSeqProperties
<1>5. Len(t) = n - 2 /\ \A i \in 1 .. n - 2 : t[i] = p[i]
  BY <1>1, <1>4
<1> HIDE DEF t
<1>6. /\ t \o Below \in Seq(L) /\ Len(t \o Below) = n
      /\ \A i \in 1 .. n : (t \o Below)[i] = IF i <= n - 2 THEN t[i] ELSE Below[i - (n - 2)]
  <2>1. t \in Seq(L) /\ Below \in Seq(L)
    BY <1>4, <1>0
  <2>2. /\ t \o Below \in Seq(L) /\ Len(t \o Below) = Len(t) + Len(Below)
        /\ \A i \in 1 .. Len(t) + Len(Below) :
             (t \o Below)[i] = IF i <= Len(t) THEN t[i] ELSE Below[i - Len(t)]
    BY <2>1, ConcatProperties
  <2>3. Len(t) = n - 2 /\ Len(t) + Len(Below) = n
    BY <1>1, <1>5, <1>0
  <2> QED
    BY <2>2, <2>3
<1>7. \A i \in 1 .. n : (t \o Below)[i] = p[i]
  <2>1. SUFFICES ASSUME NEW i \in 1 .. n PROVE (t \o Below)[i] = p[i]
    OBVIOUS
  <2>2. CASE i <= n - 2
    BY <1>5, <1>6, <1>1, <2>2
  <2>3. CASE i = n - 1
    <3>1. ~(i <= n - 2) /\ i - (n - 2) = 1
      BY <1>1, <2>3
    <3> QED
      BY <1>1, <1>6, <2>3, <3>1, <1>0
  <2>4. CASE i = n
    <3>1. ~(i <= n - 2) /\ i - (n - 2) = 2
      BY <1>1, <2>4
    <3>2. (t \o Below)[i] = Below[i - (n - 2)]
      BY <1>6, <3>1
    <3> QED
      BY <1>1, <2>4, <3>1, <3>2, <1>0
  <2>5. i <= n - 2 \/ i = n - 1 \/ i = n
    BY <1>1
  <2> QED
    BY <2>2, <2>3, <2>4, <2>5, Zenon
<1>8. t \o Below = p
  BY <1>6, <1>7, SeqEqual DEF n
<1> QED
  BY <1>2, <1>4, <1>5, <1>8 DEF n, t

\* TrimSuffix takes off exactly what was put on.
LEMMA SplitBelow ==
  ASSUME NEW L, NEW t \in Seq(L), "*" \in L, "/" \in L
  PROVE  IsSuffix(Below, t \o Below) /\ TrimSuffix(t \o Below, Below) = t
<1> DEFINE p == t \o Below
           n == Len(p)
<1>1. /\ p \in Seq(L) /\ n = Len(t) + 2 /\ Len(t) \in Nat
      /\ \A i \in 1 .. n : p[i] = IF i <= Len(t) THEN t[i] ELSE Below[i - Len(t)]
  BY BelowIsWord, ConcatProperties
<1> HIDE DEF p
<1>2. n >= 2 /\ p[n - 1] = "/" /\ p[n] = "*"
  <2>1. n - 1 \in 1 .. n /\ n \in 1 .. n /\ ~(n - 1 <= Len(t)) /\ ~(n <= Len(t))
        /\ n - 1 - Len(t) = 1 /\ n - Len(t) = 2
    BY <1>1
  <2> QED
    BY <1>1, <2>1, BelowIsWord
<1>3. IsSuffix(Below, p)
  BY <1>1, <1>2, SuffixBelow
<1>4. /\ TrimSuffix(p, Below) \in Seq(L) /\ Len(TrimSuffix(p, Below)) = Len(p) - 2
      /\ \A i \in 1 .. Len(p) - 2 : TrimSuffix(p, Below)[i] = p[i]
  BY <1>1, <1>3, TrimBelow
<1>5. Len(p) - 2 = Len(t) /\ \A i \in 1 .. Len(t) : p[i] = t[i]
  BY <1>1
<1>6. TrimSuffix(p, Below) = t
  BY <1>4, <1>5, SeqEqual
<1> QED
  BY <1>3, <1>6 DEF p

\* The matcher agrees with the meaning of a pattern, whatever the letters.
LEMMA MatchMeans ==
  ASSUME NEW L, NEW p \in Seq(L), NEW v \in Seq(L), "*" \in L, "/" \in L
  PROVE  MatchPattern(p, v) <=> Means(p, v)
<1>1. ASSUME IsSuffix(Below, p), IsBelow(TrimSuffix(p, Below), v)
      PROVE  \E t \in Prefixes(p) : p = t \o Below /\ (v = t \/ IsPrefix(t \o Slash, v))
  <2>1. Len(p) - 2 \in 0 .. Len(p)
    BY <1>1, SuffixBelow
  <2>2. TrimSuffix(p, Below) \in Prefixes(p)
    BY <1>1, <2>1, TrimBelow DEF Prefixes
  <2> QED
    BY <1>1, <2>2, TrimBelow DEF IsBelow
<1>2. ASSUME NEW t \in Prefixes(p), p = t \o Below, v = t \/ IsPrefix(t \o Slash, v)
      PROVE  IsSuffix(Below, p) /\ IsBelow(TrimSuffix(p, Below), v)
  <2>1. t \in Seq(L)
    <3>1. PICK l \in 0 .. Len(p) : t = SubSeq(p, 1, l)
      BY DEF Prefixes
    <3>2. \A i \in 1 .. l : p[i] \in L
      OBVIOUS
    <3> QED
      BY <3>1, <3>2, SubSeqProperties
  <2>2. IsSuffix(Below, p) /\ TrimSuffix(p, Below) = t
    BY <1>2, <2>1, SplitBelow
  <2> QED
    BY <1>2, <2>2 DEF IsBelow
<1>3. Glob(p, v) <=> Denotes(p, v)
  BY GlobDenotes
<1> QED
  BY <1>1, <1>2, <1>3 DEF MatchPattern, Means

----------------------------------------------------------------------------
(* Plain grants: a resource, or all below a prefix *)

\* A word in which every letter stands for itself.
Plain(w) == \A i \in 1 .. Len(w) : w[i] # "*"

\* A match begins with the letters of the pattern before its first wildcard.
LEMMA PlainStart ==
  ASSUME NEW L, NEW p \in Seq(L), NEW v \in Seq(L), NEW a \in 0 .. Len(p),
         \A i \in 1 .. a : p[i] # "*", Glob(p, v)
  PROVE  /\ a <= Len(v) /\ \A i \in 1 .. a : v[i] = p[i]
         /\ a = Len(p) => Len(v) = a
<1> DEFINE T == {k \in Nat : k <= a => /\ RestDenotes(p, v, k + 1, k + 1)
                                       /\ k <= Len(v) /\ \A i \in 1 .. k : v[i] = p[i]}
<1>1. Len(p) \in Nat /\ Len(v) \in Nat /\ a \in Nat /\ a <= Len(p)
  OBVIOUS
<1>2. 0 \in T
  <2>1. RestDenotes(p, v, 1, 1)
    BY GlobDenotes, DenotesIsRest
  <2>2. RestDenotes(p, v, 0 + 1, 0 + 1)
    BY <2>1
  <2> QED
    BY <2>2, <1>1
<1>3. ASSUME NEW k \in Nat, k \in T PROVE k + 1 \in T
  <2>1. CASE k + 1 <= a
    <3> DEFINE i == k + 1
    <3>1. RestDenotes(p, v, i, i) /\ k <= Len(v) /\ \A x \in 1 .. k : v[x] = p[x]
      BY <1>1, <1>3, <2>1
    <3>2. /\ i \in 1 .. Len(p) /\ i \in 1 .. Len(v) + 1 /\ i \in 1 .. a
          /\ (i > 1 => i - 1 \in 1 .. a) /\ (i > 2 => i - 2 \in 1 .. a)
      BY <1>1, <2>1, <3>1
    <3> HIDE DEF i
    <3>3. p[i] # "*" /\ ~IsPair(p, i)
      BY <3>2 DEF IsPair
    <3>4. ~InPair(p, i)
      BY <3>2 DEF InPair, IsPair
    <3>5. i \in 1 .. Len(v) /\ v[i] = p[i] /\ RestDenotes(p, v, i + 1, i + 1)
      BY <3>1, <3>2, <3>3, <3>4, RestLetter
    <3>6. \A x \in 1 .. i : v[x] = p[x]
      BY <3>1, <3>5 DEF i
    <3>7. i <= Len(v) /\ i \in Nat
      BY <3>5, <1>1
    <3> QED
      BY <3>5, <3>6, <3>7 DEF i
  <2>2. CASE ~(k + 1 <= a)
    BY <2>2
  <2> QED
    BY <2>1, <2>2
<1>4. a \in T
  <2> HIDE DEF T
  <2> QED
    BY <1>1, <1>2, <1>3, SetInduction
<1>5. RestDenotes(p, v, a + 1, a + 1) /\ a <= Len(v) /\ \A i \in 1 .. a : v[i] = p[i]
  BY <1>1, <1>4
<1>6. ASSUME a = Len(p) PROVE Len(v) = a
  <2>1. a + 1 \in 1 .. Len(v) + 1
    BY <1>1, <1>5
  <2>2. a + 1 = Len(v) + 1
    BY <1>5, <1>6, <2>1, RestAtEnd
  <2> QED
    BY <2>2, <1>1
<1> QED
  BY <1>5, <1>6

\* A plain pattern matches itself only.
LEMMA PlainGlob ==
  ASSUME NEW L, NEW p \in Seq(L), NEW v \in Seq(L), Plain(p), Glob(p, v)
  PROVE  v = p
<1>1. Len(p) \in 0 .. Len(p)
  OBVIOUS
<1>2. Len(v) = Len(p) /\ \A i \in 1 .. Len(p) : v[i] = p[i]
  BY <1>1, PlainStart DEF Plain
<1> QED
  BY <1>2, SeqEqual

\* Which letters a word has that is a prefix, or begins with it and a slash.
LEMMA IsBelowLetters ==
  ASSUME NEW L, NEW t \in Seq(L), NEW v \in Seq(L), "*" \in L, "/" \in L
  PROVE  IsBelow(t, v)
           <=> v = t \/ (/\ Len(t) < Len(v) /\ v[Len(t) + 1] = "/"
                         /\ \A i \in 1 .. Len(t) : v[i] = t[i])
<1> DEFINE s == t \o Slash
           n == Len(t) + 1
<1>1. Slash \in Seq(L) /\ Len(Slash) = 1 /\ Slash[1] = "/"
  BY BelowIsWord
<1>2. /\ s \in Seq(L) /\ Len(s) = n /\ n \in Nat
      /\ \A i \in 1 .. n : s[i] = IF i <= Len(t) THEN t[i] ELSE Slash[i - Len(t)]
  <2>1. /\ s \in Seq(L) /\ Len(s) = Len(t) + Len(Slash)
        /\ \A i \in 1 .. Len(t) + Len(Slash) :
             s[i] = IF i <= Len(t) THEN t[i] ELSE Slash[i - Len(t)]
    BY <1>1, ConcatProperties
  <2>2. Len(t) + Len(Slash) = n /\ n \in Nat
    BY <1>1
  <2> HIDE DEF s, n
  <2> QED
    BY <2>1, <2>2
<1>3. s[n] = "/" /\ \A i \in 1 .. Len(t) : s[i] = t[i]
  <2>1. n \in 1 .. n /\ ~(n <= Len(t)) /\ n - Len(t) = 1 /\ \A i \in 1 .. Len(t) : i \in 1 .. n
    BY <1>2
  <2> QED
    BY <1>1, <1>2, <2>1
<1> HIDE DEF s
<1>4. SubSeq(s, 1, n) = s
  BY <1>2, SubSeqFull
<1>5. IsPrefix(s, v) <=> n <= Len(v) /\ s = SubSeq(v, 1, n)
  BY <1>2, <1>4 DEF IsPrefix
<1>6. ASSUME n <= Len(v)
      PROVE  /\ SubSeq(v, 1, n) \in Seq(L) /\ Len(SubSeq(v, 1, n)) = n
             /\ \A i \in 1 .. n : SubSeq(v, 1, n)[i] = v[i]
  <2>1. \A i \in 1 .. n : v[i] \in L
    BY <1>2, <1>6
  <2>2. /\ SubSeq(v, 1, n) \in Seq(L) /\ Len(SubSeq(v, 1, n)) = IF 1 <= n THEN n - 1 + 1 ELSE 0
        /\ \A i \in 1 .. n - 1 + 1 : SubSeq(v, 1, n)[i] = v[1 + i - 1]
    BY <2>1, <1>2, SubSeqProperties
  <2> QED
    BY <2>2, <1>2
<1>7. ASSUME n <= Len(v)
      PROVE  s = SubSeq(v, 1, n) <=> \A i \in 1 .. n : s[i] = v[i]
  BY <1>2, <1>6, <1>7, SeqEqual
<1>8. (\A i \in 1 .. n : s[i] = v[i]) <=> v[n] = "/" /\ \A i \in 1 .. Len(t) : v[i] = t[i]
  <2>1. \A i \in 1 .. n : i = n \/ i \in 1 .. Len(t)
    BY <1>2
  <2>2. n \in 1 .. n /\ \A i \in 1 .. Len(t) : i \in 1 .. n
    BY <1>2
  <2> QED
    BY <1>3, <2>1, <2>2
<1>9. n <= Len(v) <=> Len(t) < Len(v)
  OBVIOUS
<1> QED
  BY <1>5, <1>7, <1>8, <1>9 DEF IsBelow, s

\* A grant on one resource is for this resource only (pattern.go:18).
LEMMA PlainMatch ==
  ASSUME NEW L, NEW p \in Seq(L), NEW v \in Seq(L), "*" \in L, "/" \in L, Plain(p)
  PROVE  MatchPattern(p, v) <=> v = p
<1>1. p \notin {Star, DoubleStar}
  <2>1. Star[1] = "*" /\ DoubleStar[1] = "*" /\ 1 \in 1 .. Len(Star) /\ 1 \in 1 .. Len(DoubleStar)
    BY DEF Star, DoubleStar
  <2> QED
    BY <2>1 DEF Plain
<1>2. ~IsSuffix(Below, p)
  <2>1. Len(p) >= 2 => Len(p) \in 1 .. Len(p)
    OBVIOUS
  <2> QED
    BY <2>1, SuffixBelow DEF Plain
<1> QED
  BY <1>1, <1>2, PlainGlob DEF MatchPattern

\* A grant on a plain prefix and "/*" is for the prefix and all below it, no
\* matter what the matcher adds to the test of the prefix (pattern.go:24-30).
LEMMA BelowMatch ==
  ASSUME NEW L, NEW t \in Seq(L), NEW v \in Seq(L), "*" \in L, "/" \in L, Plain(t)
  PROVE  MatchPattern(t \o Below, v) <=> IsBelow(t, v)
<1> DEFINE p == t \o Below
           a == Len(t) + 1
<1>1. /\ Below \in Seq(L) /\ Len(Below) = 2 /\ Below[1] = "/"
  BY BelowIsWord
<1>2. /\ p \in Seq(L) /\ Len(p) = Len(t) + Len(Below)
      /\ \A i \in 1 .. Len(t) + Len(Below) :
           p[i] = IF i <= Len(t) THEN t[i] ELSE Below[i - Len(t)]
  BY <1>1, ConcatProperties
<1> HIDE DEF p
<1>9. Len(t) \in Nat /\ Len(p) = Len(t) + 2
  BY <1>1, <1>2
<1>3. p[a] = "/" /\ \A i \in 1 .. Len(t) : p[i] = t[i]
  <2>1. a \in 1 .. Len(t) + Len(Below) /\ ~(a <= Len(t)) /\ a - Len(t) = 1
        /\ \A i \in 1 .. Len(t) : i \in 1 .. Len(t) + Len(Below)
    BY <1>1, <1>9
  <2> QED
    BY <1>1, <1>2, <2>1
<1>4. IsSuffix(Below, p) /\ TrimSuffix(p, Below) = t
  BY SplitBelow DEF p
<1>5. ASSUME v = p PROVE IsBelow(t, v)
  <2>1. Len(t) < Len(p)
    BY <1>9
  <2> QED
    BY <2>1, <1>3, <1>5, IsBelowLetters
<1>6. p \notin {Star, DoubleStar}
  <2>1. a \in 1 .. Len(p)
    BY <1>9
  <2>2. \A i \in 1 .. Len(Star) : Star[i] = "*"
    BY DEF Star
  <2>3. \A i \in 1 .. Len(DoubleStar) : DoubleStar[i] = "*"
    BY DEF DoubleStar
  <2> QED
    BY <2>1, <2>2, <2>3, <1>3
<1>7. ASSUME Glob(p, v) PROVE IsBelow(t, v)
  <2>1. a \in 0 .. Len(p)
    BY <1>9
  <2>2. \A i \in 1 .. a : p[i] # "*"
    <3>1. \A i \in 1 .. a : i = a \/ i \in 1 .. Len(t)
      BY <1>9
    <3> QED
      BY <3>1, <1>3 DEF Plain
  <2> HIDE DEF a
  <2>5. p \in Seq(L)
    BY <1>2
  <2>3. a <= Len(v) /\ \A i \in 1 .. a : v[i] = p[i]
    BY <1>7, <2>1, <2>2, <2>5, PlainStart
  <2>4. Len(t) < Len(v) /\ v[Len(t) + 1] = "/" /\ \A i \in 1 .. Len(t) : v[i] = t[i]
    <3>1. Len(t) < Len(v) /\ a \in 1 .. a /\ \A i \in 1 .. Len(t) : i \in 1 .. a
      BY <1>9, <2>3 DEF a
    <3> QED
      BY <1>3, <2>3, <3>1 DEF a
  <2> QED
    BY <2>4, IsBelowLetters
<1> QED
  BY <1>4, <1>5, <1>6, <1>7 DEF MatchPattern, p

----------------------------------------------------------------------------
(* The probe *)

\* The table that Probed computes (pattern.go:81).
ProbedTable(w) == CHOOSE f : f = [i \in 1 .. Len(w) + 1 |-> ProbedFrom(w, i, f)]

\* The probe is looked up in the table.
LEMMA ProbedIsTable == ASSUME NEW w PROVE Probed(w) = ProbedTable(w)[1]
BY DEF Probed, ProbedTable

\* What becomes of a word from i on depends on its later letters only.
LEMMA ProbedLater ==
  ASSUME NEW L, NEW w \in Seq(L), NEW i \in 1 .. Len(w) + 1, NEW f, NEW g,
         \A k \in i + 1 .. Len(w) + 1 : f[k] = g[k]
  PROVE  ProbedFrom(w, i, f) = ProbedFrom(w, i, g)
<1>1. Len(w) \in Nat
  OBVIOUS
<1>2. CASE i > Len(w)
  BY <1>2 DEF ProbedFrom
<1>3. CASE i <= Len(w)
  <2>1. PairAt(w, i) => f[i + 2] = g[i + 2]
    BY <1>1, <1>3 DEF PairAt
  <2>2. f[i + 1] = g[i + 1]
    BY <1>1, <1>3
  <2> QED
    BY <2>1, <2>2 DEF ProbedFrom
<1> QED
  BY <1>1, <1>2, <1>3

\* The probe of a word is a word.
LEMMA ProbedType ==
  ASSUME NEW L, NEW w \in Seq(L), "probe" \in L, NEW i \in 1 .. Len(w) + 1,
         NEW f \in [1 .. Len(w) + 1 -> Seq(L)]
  PROVE  ProbedFrom(w, i, f) \in Seq(L)
<1>1. Len(w) \in Nat
  OBVIOUS
<1>2. CASE i > Len(w)
  <2>1. <<>> \in Seq(L)
    OBVIOUS
  <2> QED
    BY <1>2, <2>1 DEF ProbedFrom
<1>3. CASE i <= Len(w) /\ PairAt(w, i)
  <2>1. f[i + 2] \in Seq(L) /\ <<"probe">> \in Seq(L)
    BY <1>1, <1>3 DEF PairAt
  <2>2. <<"probe">> \o f[i + 2] \in Seq(L)
    BY <2>1, ConcatProperties
  <2> QED
    BY <1>3, <2>2 DEF ProbedFrom
<1>4. CASE i <= Len(w) /\ ~PairAt(w, i)
  <2> DEFINE a == IF w[i] = "*" THEN "probe" ELSE w[i]
  <2>1. a \in L /\ f[i + 1] \in Seq(L)
    BY <1>1, <1>4
  <2> HIDE DEF a
  <2>2. <<a>> \in Seq(L)
    BY <2>1
  <2>3. <<a>> \o f[i + 1] \in Seq(L)
    BY <2>1, <2>2, ConcatProperties
  <2> QED
    BY <1>4, <2>3 DEF ProbedFrom, a
<1> QED
  BY <1>1, <1>2, <1>3, <1>4

\* The table is what the replacement says at every position of the word.
LEMMA ProbedEquation ==
  ASSUME NEW L, NEW w \in Seq(L), "probe" \in L
  PROVE  /\ ProbedTable(w) \in [1 .. Len(w) + 1 -> Seq(L)]
         /\ \A i \in 1 .. Len(w) + 1 : ProbedTable(w)[i] = ProbedFrom(w, i, ProbedTable(w))
<1> DEFINE n == Len(w) + 1
           S == Seq(L)
           step == [x \in (1 .. n) \X [1 .. n -> S] |-> ProbedFrom(w, x[1], x[2])]
<1>1. n \in Nat /\ S # {}
  <2>1. Len(w) \in Nat /\ w \in S
    OBVIOUS
  <2> QED
    BY <2>1
<1>2. \A i \in 1 .. n : \A f \in [1 .. n -> S] : step[<<i, f>>] = ProbedFrom(w, i, f)
  OBVIOUS
<1>3. step \in [(1 .. n) \X [1 .. n -> S] -> S]
  BY ProbedType
<1>4. \A i \in 1 .. n : \A f, g \in [1 .. n -> S] :
        (\A k \in i + 1 .. n : f[k] = g[k]) => step[<<i, f>>] = step[<<i, g>>]
  <2>1. SUFFICES ASSUME NEW i \in 1 .. n, NEW f \in [1 .. n -> S], NEW g \in [1 .. n -> S],
                        \A k \in i + 1 .. n : f[k] = g[k]
                 PROVE  step[<<i, f>>] = step[<<i, g>>]
    OBVIOUS
  <2>2. ProbedFrom(w, i, f) = ProbedFrom(w, i, g)
    BY <2>1, ProbedLater
  <2> QED
    BY <2>2, <1>2
<1> HIDE DEF step
<1>5. FromLater(step, n, S)
  BY <1>3, <1>4 DEF FromLater
<1>6. Solvable(step, n, S)
  <2> HIDE DEF n, S
  <2> QED
    BY <1>1, <1>5, Recursion
<1>7. PICK f \in [1 .. n -> S] : \A i \in 1 .. n : f[i] = step[<<i, f>>]
  BY <1>6 DEF Solvable
<1>8. f = [i \in 1 .. n |-> ProbedFrom(w, i, f)]
  BY <1>2, <1>7
<1>9. ProbedTable(w) = [i \in 1 .. n |-> ProbedFrom(w, i, ProbedTable(w))]
  BY <1>8, Zenon DEF ProbedTable
<1>10. ASSUME NEW e, e = [i \in 1 .. n |-> ProbedFrom(w, i, e)] PROVE e \in [1 .. n -> S]
  <2> DEFINE T == {k \in Nat : \A i \in 1 .. n : i > n - k => e[i] \in S}
  <2>1. 0 \in T
    BY <1>1
  <2>2. ASSUME NEW k \in Nat, k \in T PROVE k + 1 \in T
    <3>1. ASSUME NEW i \in 1 .. n, i = n - k PROVE e[i] \in S
      <4> DEFINE d == [x \in 1 .. n |-> IF x > i THEN e[x] ELSE w]
      <4>1. d \in [1 .. n -> S]
        BY <1>1, <2>2, <3>1
      <4>2. \A x \in i + 1 .. n : e[x] = d[x]
        BY <1>1
      <4> HIDE DEF d
      <4>3. ProbedFrom(w, i, e) = ProbedFrom(w, i, d)
        BY <4>2, ProbedLater
      <4>4. ProbedFrom(w, i, d) \in S
        BY <4>1, ProbedType
      <4>5. e[i] = ProbedFrom(w, i, e)
        BY <1>10, Zenon
      <4> QED
        BY <4>3, <4>4, <4>5
    <3>2. \A i \in 1 .. n : i > n - (k + 1) => e[i] \in S
      <4>1. \A i \in 1 .. n : i > n - (k + 1) => i = n - k \/ i > n - k
        BY <1>1
      <4> QED
        BY <3>1, <2>2, <4>1
    <3> QED
      BY <3>2
  <2>3. n \in T
    <3> HIDE DEF T
    <3> QED
      BY <1>1, <2>1, <2>2, SetInduction
  <2>4. \A i \in 1 .. n : e[i] \in S
    BY <1>1, <2>3
  <2>5. e = [i \in 1 .. n |-> e[i]]
    <3> DEFINE body == [i \in 1 .. n |-> ProbedFrom(w, i, e)]
    <3>1. body = [i \in 1 .. n |-> body[i]]
      OBVIOUS
    <3> HIDE DEF body
    <3> QED
      BY <3>1, <1>10 DEF body
  <2> QED
    BY <2>4, <2>5
<1> QED
  BY <1>9, <1>10

\* The letters of a word with one put before it.
LEMMA FirstLetter ==
  ASSUME NEW L, NEW a \in L, NEW w \in Seq(L)
  PROVE  /\ Len(<<a>> \o w) = Len(w) + 1 /\ (<<a>> \o w)[1] = a
         /\ \A x \in 1 .. Len(w) : (<<a>> \o w)[x + 1] = w[x]
<1>1. <<a>> \in Seq(L) /\ Len(<<a>>) = 1 /\ <<a>>[1] = a
  OBVIOUS
<1> DEFINE s == <<a>>
<1>2. s \in Seq(L) /\ Len(s) = 1 /\ s[1] = a
  BY <1>1
<1> HIDE DEF s
<1>3. /\ Len(s \o w) = 1 + Len(w)
      /\ \A i \in 1 .. 1 + Len(w) : (s \o w)[i] = IF i <= 1 THEN s[i] ELSE w[i - 1]
  <2>1. /\ Len(s \o w) = Len(s) + Len(w)
        /\ \A i \in 1 .. Len(s) + Len(w) :
             (s \o w)[i] = IF i <= Len(s) THEN s[i] ELSE w[i - Len(s)]
    BY <1>2, ConcatProperties
  <2> QED
    BY <1>2, <2>1
<1>4. Len(w) \in Nat
  OBVIOUS
<1>5. (s \o w)[1] = a
  BY <1>2, <1>3, <1>4
<1>6. ASSUME NEW x \in 1 .. Len(w) PROVE (s \o w)[x + 1] = w[x]
  <2>1. x + 1 \in 1 .. 1 + Len(w) /\ ~(x + 1 <= 1) /\ (x + 1) - 1 = x
    BY <1>4
  <2> QED
    BY <1>3, <2>1
<1> QED
  BY <1>3, <1>4, <1>5, <1>6 DEF s

\* The replacement leaves what is no star.
LEMMA ProbedLetter ==
  ASSUME NEW L, NEW w \in Seq(L), "probe" \in L, NEW i \in 1 .. Len(w), w[i] # "*"
  PROVE  LET F == ProbedTable(w) IN
         /\ F[i + 1] \in Seq(L) /\ Len(F[i]) = Len(F[i + 1]) + 1 /\ F[i][1] = w[i]
         /\ \A x \in 1 .. Len(F[i + 1]) : F[i][x + 1] = F[i + 1][x]
<1> DEFINE F == ProbedTable(w)
<1>1. i \in 1 .. Len(w) + 1 /\ i + 1 \in 1 .. Len(w) + 1 /\ ~(i > Len(w)) /\ w[i] \in L
  OBVIOUS
<1>2. F[i] = ProbedFrom(w, i, F) /\ F[i + 1] \in Seq(L)
  BY <1>1, ProbedEquation
<1>3. F[i] = <<w[i]>> \o F[i + 1]
  BY <1>1, <1>2 DEF ProbedFrom, PairAt
<1> QED
  BY <1>1, <1>2, <1>3, FirstLetter

\* A star becomes a probe.
LEMMA ProbedStar ==
  ASSUME NEW L, NEW w \in Seq(L), "probe" \in L, NEW i \in 1 .. Len(w), w[i] = "*"
  PROVE  Len(ProbedTable(w)[i]) >= 1 /\ ProbedTable(w)[i][1] = "probe"
<1> DEFINE F == ProbedTable(w)
<1>1. i \in 1 .. Len(w) + 1 /\ i + 1 \in 1 .. Len(w) + 1 /\ ~(i > Len(w))
      /\ (PairAt(w, i) => i + 2 \in 1 .. Len(w) + 1)
  BY DEF PairAt
<1>2. F[i] = ProbedFrom(w, i, F) /\ F[i + 1] \in Seq(L)
      /\ (PairAt(w, i) => F[i + 2] \in Seq(L))
  BY <1>1, ProbedEquation
<1> HIDE DEF F
<1>3. PICK rest \in Seq(L) : F[i] = <<"probe">> \o rest
  BY <1>1, <1>2 DEF ProbedFrom
<1>4. Len(F[i]) = Len(rest) + 1 /\ F[i][1] = "probe" /\ Len(rest) \in Nat
  BY <1>3, FirstLetter
<1> QED
  BY <1>4 DEF F

\* Up to its first star the probe of a pattern is the pattern, and there it has
\* the word put in (pattern.go:81).
LEMMA ProbedStart ==
  ASSUME NEW L, NEW w \in Seq(L), "probe" \in L, NEW a \in 0 .. Len(w) - 1,
         \A i \in 1 .. a : w[i] # "*", w[a + 1] = "*"
  PROVE  /\ Probed(w) \in Seq(L) /\ Len(Probed(w)) >= a + 1
         /\ \A i \in 1 .. a : Probed(w)[i] = w[i]
         /\ Probed(w)[a + 1] = "probe"
<1> DEFINE F == ProbedTable(w)
           Ahead(k) == /\ Len(F[1]) = Len(F[k + 1]) + k
                       /\ \A x \in 1 .. k : F[1][x] = w[x]
                       /\ \A x \in 1 .. Len(F[k + 1]) : F[1][x + k] = F[k + 1][x]
           T == {k \in Nat : k <= a => Ahead(k)}
<1>1. Len(w) \in Nat /\ a \in Nat /\ a < Len(w) /\ a + 1 \in 1 .. Len(w)
  OBVIOUS
<1>2. \A i \in 1 .. Len(w) + 1 : F[i] \in Seq(L) /\ Len(F[i]) \in Nat
  BY ProbedEquation
<1>3. \A i \in 1 .. a :
         /\ F[i + 1] \in Seq(L) /\ Len(F[i]) = Len(F[i + 1]) + 1 /\ F[i][1] = w[i]
         /\ \A x \in 1 .. Len(F[i + 1]) : F[i][x + 1] = F[i + 1][x]
  BY <1>1, ProbedLetter
<1>4. Len(F[a + 1]) >= 1 /\ F[a + 1][1] = "probe"
  BY <1>1, ProbedStar
<1>5. Probed(w) = F[1]
  BY ProbedIsTable
<1> HIDE DEF F
<1>6. 0 \in T
  <2>1. 1 \in 1 .. Len(w) + 1 /\ 0 + 1 = 1
    BY <1>1
  <2>2. Len(F[1]) = Len(F[0 + 1]) + 0 /\ \A x \in 1 .. Len(F[0 + 1]) : F[1][x + 0] = F[0 + 1][x]
    BY <1>2, <2>1
  <2> QED
    BY <2>2
<1>7. ASSUME NEW k \in Nat, k \in T PROVE k + 1 \in T
  <2>1. ASSUME k + 1 <= a PROVE Ahead(k + 1)
    <3> DEFINE i == k + 1
    <3>1. Ahead(k) /\ i \in 1 .. a /\ i \in 1 .. Len(w) + 1 /\ i + 1 \in 1 .. Len(w) + 1
      BY <1>1, <1>7, <2>1
    <3>2. Len(F[i]) \in Nat /\ Len(F[i + 1]) \in Nat /\ Len(F[i]) = Len(F[i + 1]) + 1
          /\ F[i][1] = w[i] /\ \A x \in 1 .. Len(F[i + 1]) : F[i][x + 1] = F[i + 1][x]
      BY <3>1, <1>2, <1>3
    <3>3. Len(F[1]) = Len(F[i]) + k /\ (\A x \in 1 .. k : F[1][x] = w[x])
          /\ \A x \in 1 .. Len(F[i]) : F[1][x + k] = F[i][x]
      BY <3>1
    <3>4. Len(F[1]) = Len(F[i + 1]) + i
      <4>1. \A y \in Nat : (y + 1) + k = y + i
        OBVIOUS
      <4>2. Len(F[1]) = (Len(F[i + 1]) + 1) + k
        BY <3>2, <3>3
      <4> QED
        BY <3>2, <4>1, <4>2
    <3>5. F[1][i] = w[i]
      <4>1. 1 \in 1 .. Len(F[i]) /\ 1 + k = i
        BY <3>2
      <4> QED
        BY <3>2, <3>3, <4>1
    <3>6. \A x \in 1 .. i : F[1][x] = w[x]
      <4>1. \A x \in 1 .. i : x = i \/ x \in 1 .. k
        OBVIOUS
      <4> QED
        BY <3>3, <3>5, <4>1
    <3>7. \A x \in 1 .. Len(F[i + 1]) : F[1][x + i] = F[i + 1][x]
      <4>1. \A x \in 1 .. Len(F[i + 1]) : x + 1 \in 1 .. Len(F[i]) /\ (x + 1) + k = x + i
        BY <3>2
      <4>2. \A x \in 1 .. Len(F[i + 1]) : F[1][(x + 1) + k] = F[i][x + 1]
        BY <3>3, <4>1
      <4> QED
        BY <3>2, <4>1, <4>2
    <3> QED
      BY <3>4, <3>6, <3>7
  <2> HIDE DEF Ahead
  <2> QED
    BY <2>1
<1>8. Ahead(a)
  <2>1. a \in T
    <3> HIDE DEF T
    <3> QED
      BY <1>1, <1>6, <1>7, SetInduction
  <2> HIDE DEF Ahead
  <2> QED
    BY <2>1, <1>1
<1>9. F[1] \in Seq(L) /\ Len(F[a + 1]) \in Nat
  <2>1. 1 \in 1 .. Len(w) + 1 /\ a + 1 \in 1 .. Len(w) + 1
    BY <1>1
  <2> QED
    BY <2>1, <1>2
<1>10. Len(F[1]) >= a + 1
  BY <1>1, <1>4, <1>8, <1>9
<1>11. F[1][a + 1] = "probe"
  <2>1. 1 \in 1 .. Len(F[a + 1]) /\ 1 + a = a + 1
    BY <1>1, <1>4, <1>9
  <2> QED
    BY <2>1, <1>4, <1>8
<1> QED
  BY <1>5, <1>8, <1>9, <1>10, <1>11

\* A word that is not plain has a first star.
LEMMA FirstStar ==
  ASSUME NEW L, NEW w \in Seq(L), ~Plain(w)
  PROVE  \E a \in 0 .. Len(w) - 1 : w[a + 1] = "*" /\ \A i \in 1 .. a : w[i] # "*"
<1> DEFINE T == {k \in Nat : k <= Len(w) => \A i \in 1 .. k : w[i] # "*"}
<1>1. Len(w) \in Nat
  OBVIOUS
<1>2. 0 \in T
  OBVIOUS
<1>3. SUFFICES ASSUME \A a \in 0 .. Len(w) - 1 :
                        (\A i \in 1 .. a : w[i] # "*") => w[a + 1] # "*"
               PROVE  FALSE
  OBVIOUS
<1>4. ASSUME NEW k \in Nat, k \in T PROVE k + 1 \in T
  <2>1. ASSUME k + 1 <= Len(w) PROVE \A i \in 1 .. k + 1 : w[i] # "*"
    <3>1. k \in 0 .. Len(w) - 1 /\ \A i \in 1 .. k : w[i] # "*"
      BY <1>1, <1>4, <2>1
    <3>2. w[k + 1] # "*"
      BY <1>3, <3>1
    <3>3. \A i \in 1 .. k + 1 : i = k + 1 \/ i \in 1 .. k
      OBVIOUS
    <3> QED
      BY <3>1, <3>2, <3>3
  <2> QED
    BY <2>1
<1>5. Len(w) \in T
  <2> HIDE DEF T
  <2> QED
    BY <1>1, <1>2, <1>4, SetInduction
<1> QED
  BY <1>5 DEF Plain

----------------------------------------------------------------------------
(* The engine's scope and the mint's *)

\* hasWildcard (pattern.go:95) finds the words that are not plain.
LEMMA HasWildcardPlain == ASSUME NEW w PROVE HasWildcard(w) <=> ~Plain(w)
BY DEF HasWildcard, Contains, Plain

\* The letters of a word with "/*" after it.
LEMMA BelowLetters ==
  ASSUME NEW L, NEW t \in Seq(L), "*" \in L, "/" \in L
  PROVE  /\ t \o Below \in Seq(L) /\ Len(t \o Below) = Len(t) + 2
         /\ \A i \in 1 .. Len(t) : (t \o Below)[i] = t[i]
         /\ (t \o Below)[Len(t) + 1] = "/" /\ (t \o Below)[Len(t) + 2] = "*"
<1> DEFINE p == t \o Below
           k == Len(t)
<1>1. Below \in Seq(L) /\ Len(Below) = 2 /\ Below[1] = "/" /\ Below[2] = "*"
  BY BelowIsWord
<1>2. /\ p \in Seq(L) /\ Len(p) = k + Len(Below)
      /\ \A i \in 1 .. k + Len(Below) : p[i] = IF i <= k THEN t[i] ELSE Below[i - k]
  BY <1>1, ConcatProperties
<1>3. k \in Nat
  OBVIOUS
<1> HIDE DEF p, k
<1>4. Len(p) = k + 2 /\ \A i \in 1 .. k + 2 : p[i] = IF i <= k THEN t[i] ELSE Below[i - k]
  BY <1>1, <1>2
<1>5. \A i \in 1 .. k : p[i] = t[i]
  BY <1>3, <1>4
<1>6. p[k + 1] = "/"
  <2>1. k + 1 \in 1 .. k + 2 /\ ~(k + 1 <= k) /\ (k + 1) - k = 1
    BY <1>3
  <2> QED
    BY <1>1, <1>4, <2>1
<1>7. p[k + 2] = "*"
  <2>1. k + 2 \in 1 .. k + 2 /\ ~(k + 2 <= k) /\ (k + 2) - k = 2
    BY <1>3
  <2> QED
    BY <1>1, <1>4, <2>1
<1> QED
  BY <1>2, <1>4, <1>5, <1>6, <1>7 DEF p, k

\* The pattern for all below a plain prefix has one star (pattern.go:86).
LEMMA StarsOfBelow ==
  ASSUME NEW L, NEW t \in Seq(L), "*" \in L, "/" \in L, Plain(t)
  PROVE  Stars(t \o Below) = 1
<1> DEFINE p == t \o Below
           k == Len(t)
<1>1. /\ p \in Seq(L) /\ Len(p) = k + 2 /\ k \in Nat /\ \A i \in 1 .. k : p[i] = t[i]
      /\ p[k + 1] = "/" /\ p[k + 2] = "*"
  BY BelowLetters
<1>2. \A i \in 1 .. k : t[i] # "*"
  BY DEF Plain
<1> HIDE DEF p, k
<1>3. DOMAIN p = 1 .. k + 2
  BY <1>1
<1>4. \A i \in 1 .. k + 2 : i \in 1 .. k \/ i = k + 1 \/ i = k + 2
  BY <1>1
<1>5. \A i \in 1 .. k + 2 : p[i] = "*" => i = k + 2
  BY <1>1, <1>2, <1>4
<1>6. k + 2 \in 1 .. k + 2
  BY <1>1
<1>7. {i \in DOMAIN p : p[i] = "*"} = {k + 2}
  BY <1>1, <1>3, <1>5, <1>6
<1>8. Cardinality({k + 2}) = 1
  BY FS_Singleton
<1> QED
  BY <1>7, <1>8 DEF Stars, Count, p

\* A pattern that is not plain has a star at least.
LEMMA StarsOfWildcard ==
  ASSUME NEW L, NEW w \in Seq(L), ~Plain(w)
  PROVE  Stars(w) \in Nat /\ Stars(w) >= 1
<1> DEFINE S == {i \in DOMAIN w : w[i] = "*"}
<1>1. DOMAIN w = 1 .. Len(w) /\ Len(w) \in Nat
  OBVIOUS
<1>2. IsFiniteSet(1 .. Len(w))
  BY <1>1, FS_Interval
<1>3. IsFiniteSet(S) /\ S # {}
  BY <1>1, <1>2, FS_Subset DEF Plain
<1>4. Cardinality(S) \in Nat /\ Cardinality(S) # 0
  BY <1>3, FS_CardinalityType, FS_EmptySet
<1> QED
  BY <1>4 DEF Stars, Count

\* If what is below t has a letter a that is not in t and no slash at a place
\* before which it agrees with r, then r is below t too.
LEMMA BelowAgrees ==
  ASSUME NEW L, NEW t \in Seq(L), NEW r \in Seq(L), NEW w \in Seq(L), "*" \in L, "/" \in L,
         NEW a \in 0 .. Len(r) - 1, IsBelow(t, w), Len(w) >= a + 1, Len(t) <= a,
         \A i \in 1 .. a : w[i] = r[i], w[a + 1] # "/"
  PROVE  IsBelow(t, r)
<1>1. Len(t) \in Nat /\ Len(r) \in Nat /\ Len(w) \in Nat /\ a \in Nat /\ a < Len(r)
  OBVIOUS
<1>2. w # t
  BY <1>1
<1>3. Len(t) < Len(w) /\ w[Len(t) + 1] = "/" /\ \A i \in 1 .. Len(t) : w[i] = t[i]
  BY <1>2, IsBelowLetters
<1>4. Len(t) # a
  BY <1>3
<1>5. Len(t) + 1 \in 1 .. a /\ \A i \in 1 .. Len(t) : i \in 1 .. a
  BY <1>1, <1>4
<1>6. Len(t) < Len(r) /\ r[Len(t) + 1] = "/" /\ \A i \in 1 .. Len(t) : r[i] = t[i]
  BY <1>1, <1>3, <1>5
<1> QED
  BY <1>6, IsBelowLetters

\* The probe finds nothing that is not below the prefix of a plain grant.
LEMMA ProbeIsBelow ==
  ASSUME NEW L, NEW t \in Seq(L), NEW r \in Seq(L), Plain(t), ~Plain(r),
         "*" \in L, "/" \in L, "probe" \in L, "x" \in L,
         MatchPattern(t \o Below, Probed(r)), MoreSpecific(r, t \o Below)
  PROVE  IsBelow(t, r)
<1> DEFINE g == t \o Below
<1>1. PICK a \in 0 .. Len(r) - 1 : r[a + 1] = "*" /\ \A i \in 1 .. a : r[i] # "*"
  BY FirstStar
<1>2. Len(t) \in Nat /\ Len(r) \in Nat /\ a \in Nat /\ a < Len(r)
  OBVIOUS
<1>3. /\ Probed(r) \in Seq(L) /\ Len(Probed(r)) >= a + 1
      /\ \A i \in 1 .. a : Probed(r)[i] = r[i]
      /\ Probed(r)[a + 1] = "probe"
  BY <1>1, ProbedStart
<1>4. IsBelow(t, Probed(r))
  BY <1>3, BelowMatch
<1>5. ASSUME Len(t) <= a PROVE IsBelow(t, r)
  BY <1>3, <1>4, <1>5, BelowAgrees
<1>6. IsSuffix(Below, g) /\ TrimSuffix(g, Below) = t
  BY SplitBelow
<1>7. ~(Stars(r) < Stars(g))
  BY StarsOfBelow, StarsOfWildcard
<1>8. ASSUME IsPrefix(t, TrimSuffix(r, Below)) PROVE Len(t) <= a
  <2> DEFINE u == TrimSuffix(r, Below)
  <2>1. u \in Seq(L) /\ Len(u) <= Len(r) /\ \A i \in 1 .. Len(u) : u[i] = r[i]
    <3>1. CASE IsSuffix(Below, r)
      <4>1. Len(r) >= 2
        BY <3>1, SuffixBelow
      <4> QED
        BY <3>1, <4>1, TrimBelow
    <3>2. CASE ~IsSuffix(Below, r)
      BY <3>2 DEF TrimSuffix
    <3> QED
      BY <3>1, <3>2
  <2> HIDE DEF u
  <2>2. Len(t) <= Len(u) /\ SubSeq(t, 1, Len(t)) = SubSeq(u, 1, Len(t))
    BY <1>8 DEF IsPrefix, u
  <2>3. \A i \in 1 .. Len(t) : t[i] = u[i]
    <3>1. SubSeq(t, 1, Len(t)) = t
      BY SubSeqFull
    <3>2. \A i \in 1 .. Len(t) : u[i] \in L
      BY <2>1, <2>2, <1>2
    <3>3. \A i \in 1 .. Len(t) - 1 + 1 : SubSeq(u, 1, Len(t))[i] = u[1 + i - 1]
      BY <1>2, <3>2, SubSeqProperties
    <3>4. \A i \in 1 .. Len(t) : i \in 1 .. Len(t) - 1 + 1 /\ 1 + i - 1 = i
      BY <1>2
    <3> QED
      BY <2>2, <3>1, <3>3, <3>4
  <2>4. ~(a + 1 \in 1 .. Len(t))
    <3>1. ASSUME a + 1 \in 1 .. Len(t) PROVE FALSE
      <4>1. a + 1 \in 1 .. Len(u)
        BY <3>1, <1>2, <2>1, <2>2
      <4>2. t[a + 1] = "*"
        BY <3>1, <4>1, <1>1, <2>1, <2>3
      <4> QED
        BY <3>1, <4>2 DEF Plain
    <3> QED
      BY <3>1
  <2> QED
    BY <2>4, <1>2
<1>9. ASSUME MatchPattern(g, ReplaceAll(r, "*", "x")) PROVE Len(t) <= a
  <2> DEFINE w == ReplaceAll(r, "*", "x")
  <2>1. w = [i \in 1 .. Len(r) |-> IF r[i] = "*" THEN "x" ELSE r[i]]
    BY DEF ReplaceAll
  <2>2. w \in [1 .. Len(r) -> L]
    BY <2>1
  <2>3. w \in Seq(L) /\ Len(w) = Len(r)
    BY <1>2, <2>2, FunctionIsWord
  <2>4. a + 1 \in 1 .. Len(r)
    BY <1>2
  <2>5. w[a + 1] = "x"
    BY <1>1, <2>1, <2>4
  <2> HIDE DEF w
  <2>6. IsBelow(t, w)
    BY <1>9, <2>3, BelowMatch DEF w
  <2>7. \A i \in 1 .. Len(t) : w[i] = t[i]
    BY <2>3, <2>6, IsBelowLetters
  <2>8. \A i \in 1 .. Len(t) : Probed(r)[i] = t[i]
    BY <1>3, <1>4, IsBelowLetters
  <2>9. a + 1 \notin 1 .. Len(t)
    BY <1>3, <2>5, <2>7, <2>8
  <2> QED
    BY <1>2, <2>9
<1>10. Len(t) <= a
  BY <1>6, <1>7, <1>8, <1>9 DEF MoreSpecific
<1> QED
  BY <1>5, <1>10

\* A plain grant is a word without a wildcard, with or without "/*" after it.
LEMMA PlainGrants ==
  ASSUME NEW L, NEW g \in Seq(L), "*" \in L, "/" \in L, ~HasWildcard(TrimSuffix(g, Below))
  PROVE  Plain(g) \/ \E t \in Seq(L) : Plain(t) /\ g = t \o Below
<1>1. CASE IsSuffix(Below, g)
  <2>1. TrimSuffix(g, Below) \in Seq(L) /\ TrimSuffix(g, Below) \o Below = g
    BY <1>1, TrimBelow
  <2>2. Plain(TrimSuffix(g, Below))
    BY HasWildcardPlain
  <2> QED
    BY <2>1, <2>2
<1>2. CASE ~IsSuffix(Below, g)
  <2>1. TrimSuffix(g, Below) = g
    BY <1>2 DEF TrimSuffix
  <2> QED
    BY <2>1, HasWildcardPlain
<1> QED
  BY <1>1, <1>2

\* A pattern below t is t with "/*" after it, or is below t without its own last
\* "/*" too (pattern.go:68-73).
LEMMA SamePatterns ==
  ASSUME NEW L, NEW t \in Seq(L), NEW r \in Seq(L), "*" \in L, "/" \in L, ~Plain(r)
  PROVE  IsBelow(t, r) /\ Plain(t) => r = t \o Below \/ IsBelow(t, TrimSuffix(r, Below))
<1> DEFINE u == TrimSuffix(r, Below)
           k == Len(t)
<1>1. SUFFICES ASSUME IsBelow(t, r), Plain(t)
               PROVE  r = t \o Below \/ IsBelow(t, u)
  OBVIOUS
<1>2. k < Len(r) /\ r[k + 1] = "/" /\ \A i \in 1 .. k : r[i] = t[i]
  BY <1>1, IsBelowLetters
<1>3. k \in Nat /\ Len(r) \in Nat
  OBVIOUS
<1>4. CASE ~IsSuffix(Below, r)
  BY <1>1, <1>4 DEF TrimSuffix
<1>5. CASE IsSuffix(Below, r)
  <2>1. /\ u \in Seq(L) /\ Len(u) = Len(r) - 2
        /\ \A i \in 1 .. Len(r) - 2 : u[i] = r[i]
        /\ u \o Below = r
    BY <1>5, TrimBelow
  <2>2. r[Len(r)] = "*"
    BY <1>5, SuffixBelow
  <2> HIDE DEF u, k
  <2>3. Len(r) # k + 1
    BY <1>2, <2>2
  <2>4. CASE Len(r) = k + 2
    <3>1. Len(u) = k /\ \A i \in 1 .. k : i \in 1 .. Len(r) - 2
      BY <1>3, <2>1, <2>4
    <3>2. u = t
      BY <3>1, <1>2, <2>1, SeqEqual DEF k
    <3> QED
      BY <3>2, <2>1
  <2>5. CASE Len(r) > k + 2
    <3>1. k < Len(u) /\ k + 1 \in 1 .. Len(r) - 2 /\ \A i \in 1 .. k : i \in 1 .. Len(r) - 2
      BY <1>3, <2>1, <2>5
    <3>2. k < Len(u) /\ u[k + 1] = "/" /\ \A i \in 1 .. k : u[i] = t[i]
      BY <3>1, <1>2, <2>1
    <3> QED
      BY <3>2, <2>1, IsBelowLetters DEF k
  <2> QED
    BY <1>2, <1>3, <2>3, <2>4, <2>5
<1> QED
  BY <1>4, <1>5

\* What is below t without its last "/*" is below t.
LEMMA UntrimmedIsBelow ==
  ASSUME NEW L, NEW t \in Seq(L), NEW r \in Seq(L), "*" \in L, "/" \in L,
         IsBelow(t, TrimSuffix(r, Below))
  PROVE  IsBelow(t, r)
<1> DEFINE u == TrimSuffix(r, Below)
           k == Len(t)
<1>1. CASE ~IsSuffix(Below, r)
  BY <1>1 DEF TrimSuffix
<1>2. CASE IsSuffix(Below, r)
  <2>1. /\ u \in Seq(L) /\ Len(u) = Len(r) - 2
        /\ \A i \in 1 .. Len(r) - 2 : u[i] = r[i]
    BY <1>2, TrimBelow
  <2>2. Len(r) >= 2 /\ r[Len(r) - 1] = "/" /\ k \in Nat /\ Len(r) \in Nat
    BY <1>2, SuffixBelow
  <2>3. IsBelow(t, u)
    OBVIOUS
  <2> HIDE DEF u, k
  <2>u. u \in Seq(L)
    BY <2>1
  <2>i. u = t \/ (k < Len(u) /\ u[k + 1] = "/" /\ \A i \in 1 .. k : u[i] = t[i])
    BY <2>u, <2>3, IsBelowLetters DEF k
  <2>4. k <= Len(u) /\ \A i \in 1 .. k : u[i] = t[i]
    <3>1. CASE u = t
      BY <3>1, <2>2 DEF k
    <3>2. CASE u # t
      BY <3>2, <2>i, <2>1, <2>2
    <3> QED
      BY <3>1, <3>2
  <2>5. u = t \/ (u[k + 1] = "/" /\ k < Len(u))
    BY <2>i
  <2>6. k < Len(r) /\ \A i \in 1 .. k : r[i] = t[i]
    BY <2>1, <2>2, <2>4
  <2>7. r[k + 1] = "/"
    <3>1. CASE u = t
      <4>1. k + 1 = Len(r) - 1
        BY <3>1, <2>1, <2>2 DEF k
      <4> QED
        BY <4>1, <2>2
    <3>2. CASE u[k + 1] = "/" /\ k < Len(u)
      <4>1. k + 1 \in 1 .. Len(r) - 2
        BY <3>2, <2>1, <2>2
      <4> QED
        BY <4>1, <3>2, <2>1
    <3> QED
      BY <2>5, <3>1, <3>2
  <2> QED
    BY <2>6, <2>7, IsBelowLetters DEF k
<1> QED
  BY <1>1, <1>2

\* The pattern for all below t is below t, as a word, and none of the patterns
\* for everything.
LEMMA BelowIsPattern ==
  ASSUME NEW L, NEW t \in Seq(L), "*" \in L, "/" \in L
  PROVE  /\ IsBelow(t, t \o Below) /\ ~Plain(t \o Below)
         /\ t \o Below \notin {Star, DoubleStar}
<1> DEFINE g == t \o Below
           k == Len(t)
<1>1. /\ g \in Seq(L) /\ Len(g) = k + 2 /\ k \in Nat /\ \A i \in 1 .. k : g[i] = t[i]
      /\ g[k + 1] = "/" /\ g[k + 2] = "*"
  BY BelowLetters
<1> HIDE DEF g
<1>2. k < Len(g) /\ k + 1 \in 1 .. Len(g) /\ k + 2 \in 1 .. Len(g)
  BY <1>1
<1>3. IsBelow(t, g)
  BY <1>1, <1>2, IsBelowLetters
<1>4. ~Plain(g)
  BY <1>1, <1>2 DEF Plain
<1>5. (\A i \in 1 .. Len(Star) : Star[i] = "*")
      /\ (\A i \in 1 .. Len(DoubleStar) : DoubleStar[i] = "*")
  BY DEF Star, DoubleStar
<1>6. g \notin {Star, DoubleStar}
  BY <1>1, <1>2, <1>5
<1> QED
  BY <1>3, <1>4, <1>6 DEF g

\* For a plain grant the engine's question and the mint's have one answer.
LEMMA OneScope ==
  ASSUME NEW L, NEW g \in Seq(L), NEW r \in Seq(L),
         "*" \in L, "/" \in L, "probe" \in L, "x" \in L,
         ~HasWildcard(TrimSuffix(g, Below))
  PROVE  MatchPattern(g, r) <=> IsNarrowerOrEqual(r, g)
<1>1. CASE Plain(g)
  <2>1. MatchPattern(g, r) <=> r = g
    BY <1>1, PlainMatch
  <2>2. g \notin {Star, DoubleStar}
    BY <1>1 DEF Plain, Star, DoubleStar
  <2>3. ~IsSuffix(Below, g)
    <3>1. Len(g) >= 2 => Len(g) \in 1 .. Len(g)
      OBVIOUS
    <3> QED
      BY <3>1, <1>1, SuffixBelow DEF Plain
  <2>4. ~NarrowerPattern(r, g)
    BY <1>1, <2>3, HasWildcardPlain DEF NarrowerPattern
  <2> QED
    BY <2>1, <2>2, <2>4 DEF IsNarrowerOrEqual
<1>2. ASSUME NEW t \in Seq(L), Plain(t), g = t \o Below
      PROVE  MatchPattern(g, r) <=> IsNarrowerOrEqual(r, g)
  <2>1. MatchPattern(g, r) <=> IsBelow(t, r)
    BY <1>2, BelowMatch
  <2>2. IsBelow(t, g) /\ ~Plain(g) /\ g \notin {Star, DoubleStar}
    BY <1>2, BelowIsPattern
  <2>3. IsSuffix(Below, g) /\ TrimSuffix(g, Below) = t
    BY <1>2, SplitBelow
  <2>4. CASE Plain(r)
    BY <2>1, <2>2, <2>4, HasWildcardPlain DEF IsNarrowerOrEqual
  <2>5. CASE ~Plain(r)
    <3>1. IsBelow(t, r) => r = g \/ NarrowerPattern(r, g)
      BY <1>2, <2>3, <2>5, SamePatterns DEF NarrowerPattern
    <3>2. IsBelow(t, TrimSuffix(r, Below)) => IsBelow(t, r)
      BY UntrimmedIsBelow
    <3>3. MatchPattern(g, Probed(r)) /\ MoreSpecific(r, g) => IsBelow(t, r)
      BY <1>2, <2>5, ProbeIsBelow
    <3>4. NarrowerPattern(r, g) => IsBelow(t, r)
      BY <2>3, <3>2, <3>3 DEF NarrowerPattern
    <3> QED
      BY <2>1, <2>2, <2>5, <3>1, <3>4, HasWildcardPlain DEF IsNarrowerOrEqual
  <2> QED
    BY <2>4, <2>5
<1> QED
  BY <1>1, <1>2, PlainGrants

\* Nothing that a pattern below t matches is outside t.
LEMMA BelowNarrows ==
  ASSUME NEW L, NEW t \in Seq(L), NEW r \in Seq(L), NEW v \in Seq(L), "*" \in L, "/" \in L,
         Plain(t), IsBelow(t, r), MatchPattern(r, v)
  PROVE  IsBelow(t, v)
<1> DEFINE k == Len(t)
<1>1. k \in Nat /\ Len(r) \in Nat
  OBVIOUS
<1>2. CASE r = t
  <2>1. v = t
    BY <1>2, PlainMatch
  <2> QED
    BY <2>1 DEF IsBelow
<1>3. CASE r # t
  <2>1. k < Len(r) /\ r[k + 1] = "/" /\ \A i \in 1 .. k : r[i] = t[i]
    BY <1>3, IsBelowLetters
  <2>2. CASE v = r
    BY <2>2
  <2>3. r \notin {Star, DoubleStar}
    <3>1. (\A i \in 1 .. Len(Star) : Star[i] = "*")
          /\ (\A i \in 1 .. Len(DoubleStar) : DoubleStar[i] = "*")
      BY DEF Star, DoubleStar
    <3>2. k + 1 \in 1 .. Len(r)
      BY <1>1, <2>1
    <3> QED
      BY <3>1, <3>2, <2>1
  <2>4. ASSUME Glob(r, v) PROVE IsBelow(t, v)
    <3> DEFINE a == k + 1
    <3>1. a \in 0 .. Len(r) /\ k < a
      BY <1>1, <2>1
    <3>2. \A i \in 1 .. a : r[i] # "*"
      <4>1. \A i \in 1 .. a : i = k + 1 \/ i \in 1 .. k
        BY <1>1
      <4> QED
        BY <4>1, <2>1 DEF Plain
    <3> HIDE DEF a
    <3>3. a <= Len(v) /\ \A i \in 1 .. a : v[i] = r[i]
      BY <2>4, <3>1, <3>2, PlainStart
    <3>4. k < Len(v) /\ k + 1 \in 1 .. a /\ \A i \in 1 .. k : i \in 1 .. a
      BY <1>1, <3>3 DEF a
    <3>5. k < Len(v) /\ v[k + 1] = "/" /\ \A i \in 1 .. k : v[i] = t[i]
      BY <2>1, <3>3, <3>4
    <3> QED
      BY <3>5, IsBelowLetters
  <2>5. ASSUME IsSuffix(Below, r), IsBelow(TrimSuffix(r, Below), v) PROVE IsBelow(t, v)
    <3> DEFINE u == TrimSuffix(r, Below)
    <3>1. u \in Seq(L)
      BY <2>5, TrimBelow
    <3>2. ~Plain(r)
      <4>1. Len(r) \in 1 .. Len(r) /\ r[Len(r)] = "*"
        BY <2>5, SuffixBelow
      <4> QED
        BY <4>1 DEF Plain
    <3>3. r = t \o Below \/ IsBelow(t, u)
      BY <3>2, SamePatterns
    <3>4. r = t \o Below => u = t
      BY SplitBelow
    <3>5. IsBelow(t, u)
      BY <3>3, <3>4 DEF IsBelow
    <3>6. IsBelow(u, v)
      BY <2>5
    <3> HIDE DEF u
    <3>7. (u = t \/ (k < Len(u) /\ u[k + 1] = "/" /\ \A i \in 1 .. k : u[i] = t[i]))
          /\ (v = u \/ (Len(u) < Len(v) /\ v[Len(u) + 1] = "/"
                        /\ \A i \in 1 .. Len(u) : v[i] = u[i]))
      BY <3>1, <3>5, <3>6, IsBelowLetters
    <3>8. CASE u = t \/ v = u
      BY <3>5, <3>6, <3>8
    <3>9. CASE u # t /\ v # u
      <4>1. k < Len(v) /\ k + 1 \in 1 .. Len(u) /\ \A i \in 1 .. k : i \in 1 .. Len(u)
        BY <1>1, <3>1, <3>7, <3>9
      <4>2. k < Len(v) /\ v[k + 1] = "/" /\ \A i \in 1 .. k : v[i] = t[i]
        BY <4>1, <3>7, <3>9
      <4> QED
        BY <4>2, IsBelowLetters
    <3> QED
      BY <3>8, <3>9
  <2> QED
    BY <2>2, <2>3, <2>4, <2>5 DEF MatchPattern
<1> QED
  BY <1>2, <1>3

\* What the mint accepts as narrower than a plain grant matches nothing that the
\* grant does not (grant.go:49).
LEMMA PlainNarrows ==
  ASSUME NEW L, NEW g \in Seq(L), NEW r \in Seq(L), NEW v \in Seq(L),
         "*" \in L, "/" \in L, "probe" \in L, "x" \in L,
         ~HasWildcard(TrimSuffix(g, Below)), IsNarrowerOrEqual(r, g), MatchPattern(r, v)
  PROVE  MatchPattern(g, v)
<1>1. MatchPattern(g, r)
  BY OneScope
<1>2. CASE Plain(g)
  BY <1>1, <1>2, PlainMatch
<1>3. ASSUME NEW t \in Seq(L), Plain(t), g = t \o Below PROVE MatchPattern(g, v)
  <2>1. IsBelow(t, r)
    BY <1>1, <1>3, BelowMatch
  <2>2. IsBelow(t, v)
    BY <1>3, <2>1, BelowNarrows
  <2> QED
    BY <1>3, <2>2, BelowMatch
<1> QED
  BY <1>2, <1>3, PlainGrants

----------------------------------------------------------------------------
(* Theorems *)

\* Both patterns are words over the letters.
Words == granted \in Seq(Letter) /\ requested \in Seq(Letter)

\* Letter by letter, both stay words.
LEMMA WordsHold == Spec => []Words
<1>1. Init => Words
  BY DEF Init, Words
<1>2. Words /\ [Next]_vars => Words'
  <2> SUFFICES ASSUME Words, [Next]_vars PROVE Words'
    OBVIOUS
  <2>1. ASSUME NEW a \in Letter, Grant(a) PROVE Words'
    BY <2>1 DEF Grant, Words
  <2>2. ASSUME NEW a \in Letter, Request(a) PROVE Words'
    BY <2>2 DEF Request, Words
  <2>3. CASE UNCHANGED vars
    BY <2>3 DEF vars, Words
  <2> QED
    BY <2>1, <2>2, <2>3 DEF Next
<1> QED
  BY <1>1, <1>2, PTL DEF Spec

\* The letters, with those that the code itself puts into words.
Alphabet == Letter \cup {"*", "/", "probe", "x"}

\* Every word of a state and every value patterns are compared by is one over
\* the alphabet.
LEMMA WordsInAlphabet ==
  /\ Words => granted \in Seq(Alphabet) /\ requested \in Seq(Alphabet)
  /\ \A v \in Value : v \in Seq(Alphabet)
  /\ "*" \in Alphabet /\ "/" \in Alphabet /\ "probe" \in Alphabet /\ "x" \in Alphabet
<1>1. Letter \subseteq Alphabet /\ Letter \ {"*"} \subseteq Alphabet
  BY DEF Alphabet
<1>2. ASSUME NEW v \in Value PROVE v \in Seq(Alphabet)
  <2>1. PICK m \in 0 .. MaxValue : v \in [1 .. m -> Letter \ {"*"}]
    BY DEF Value, BoundedSeq, SeqOf
  <2>2. m \in Nat
    BY <2>1
  <2>3. v \in [1 .. m -> Alphabet]
    BY <1>1, <2>1
  <2> QED
    BY <2>2, <2>3, FunctionIsWord
<1>3. Words => granted \in Seq(Alphabet) /\ requested \in Seq(Alphabet)
  BY <1>1, SeqMonotonic DEF Words
<1>4. "*" \in Alphabet /\ "/" \in Alphabet /\ "probe" \in Alphabet /\ "x" \in Alphabet
  BY DEF Alphabet
<1> QED
  BY <1>2, <1>3, <1>4

\* For words of every length over any letters: the engine's matcher finds a match
\* exactly if the pattern means the value (pattern.go:9-31).
THEOREM MatcherMeansPatterns == Spec => []MatchIsMeaning
<1>1. Words => MatchIsMeaning
  BY WordsInAlphabet, MatchMeans DEF MatchIsMeaning
<1> QED
  BY <1>1, WordsHold, PTL

\* For a plain grant of any length the engine, which matches the requested
\* resource, and the mint, which narrows the grant to it, have the same scope: no
\* call takes its approval and is then refused by the mint (service.go:276).
THEOREM ScopesAgree == Spec => []ScopeAgreesWithMint
<1>1. Words => ScopeAgreesWithMint
  BY WordsInAlphabet, OneScope DEF ScopeAgreesWithMint, PlainGrant
<1> QED
  BY <1>1, WordsHold, PTL

\* A plain grant of any length is only ever narrowed, whatever pattern is
\* requested and whatever resource the two are compared by (grant.go:49).
THEOREM PlainGrantsNarrow == Spec => []PlainGrantsOnlyNarrow
<1>1. Words => PlainGrantsOnlyNarrow
  <2> SUFFICES ASSUME Words, PlainGrant, IsNarrowerOrEqual(requested, granted),
                      NEW v \in Value, MatchPattern(requested, v)
               PROVE  MatchPattern(granted, v)
    BY DEF PlainGrantsOnlyNarrow, RequestsOnlyNarrow, Narrows
  <2>1. granted \in Seq(Alphabet) /\ requested \in Seq(Alphabet) /\ v \in Seq(Alphabet)
    BY WordsInAlphabet
  <2> QED
    BY <2>1, WordsInAlphabet, PlainNarrows DEF PlainGrant
<1> QED
  BY <1>1, WordsHold, PTL

\* A request for one resource, whatever the pattern of the grant, is in the
\* scope of both or of neither and narrows the grant: what widens a grant is
\* always a pattern in the place of the resource (pattern.go:62).
THEOREM ResourcesNarrow ==
  Spec => [](~HasWildcard(requested) =>
               /\ RequestsOnlyNarrow
               /\ MatchPattern(granted, requested) <=> IsNarrowerOrEqual(requested, granted))
<1>1. ASSUME Words, ~HasWildcard(requested)
      PROVE  MatchPattern(granted, requested) <=> IsNarrowerOrEqual(requested, granted)
  BY <1>1, Zenon DEF IsNarrowerOrEqual, MatchPattern
<1>2. ASSUME Words, ~HasWildcard(requested), IsNarrowerOrEqual(requested, granted),
             NEW v \in Value, MatchPattern(requested, v)
      PROVE  MatchPattern(granted, v)
  <2>1. granted \in Seq(Alphabet) /\ requested \in Seq(Alphabet) /\ v \in Seq(Alphabet)
    BY <1>2, WordsInAlphabet
  <2>2. Plain(requested)
    BY <1>2, HasWildcardPlain
  <2>3. v = requested
    BY <1>2, <2>1, <2>2, WordsInAlphabet, PlainMatch
  <2> QED
    BY <1>1, <1>2, <2>3
<1>3. Words => (~HasWildcard(requested) =>
                  /\ RequestsOnlyNarrow
                  /\ MatchPattern(granted, requested) <=> IsNarrowerOrEqual(requested, granted))
  BY <1>1, <1>2 DEF RequestsOnlyNarrow, Narrows
<1> QED
  BY <1>3, WordsHold, PTL
=============================================================================
