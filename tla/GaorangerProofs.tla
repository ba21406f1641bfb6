--------------------------- MODULE GaorangerProofs ---------------------------
(***************************************************************************)
(* Facts about the arithmetic of RAD, for any motors, limits and width.    *)
(***************************************************************************)
EXTENDS Gaoranger, SequenceTheorems, WellFoundedInduction, TLAPS

\* A conversion to an int answers a number of the int's range ...
LEMMA Int16Range ==
  ASSUME NEW x \in Int
  PROVE  int16(x) \in -IntHalf .. IntHalf - 1
<1>1. IntHalf \in Nat /\ IntHalf > 0
  BY WidthAssumption
<1>2. (x + IntHalf) % (2 * IntHalf) \in 0 .. 2 * IntHalf - 1
  BY <1>1
<1>3. QED BY <1>1, <1>2 DEF int16

\* ... which is the number itself where it fits.
LEMMA Int16Identity ==
  ASSUME NEW x \in -IntHalf .. IntHalf - 1
  PROVE  int16(x) = x
<1>1. IntHalf \in Nat /\ IntHalf > 0
  BY WidthAssumption
<1>2. \A n, k \in Int : 0 <= k /\ k < n => k % n = k
  OBVIOUS
<1>3. (x + IntHalf) % (2 * IntHalf) = x + IntHalf
  BY <1>1, <1>2
<1>4. QED BY <1>1, <1>3 DEF int16

\* A multiple of the modulus does not count.
LEMMA TimesAtLeast ==
  ASSUME NEW n \in Nat \ {0}, NEW d \in Int, d >= 1
  PROVE  n * d >= n
  OBVIOUS

LEMMA ModUnique ==
  ASSUME NEW n \in Nat \ {0}, NEW q \in Int, NEW r \in 0 .. n - 1, NEW a \in Int,
         a = n * q + r
  PROVE  a % n = r
<1> DEFINE s == a \div n
           t == a % n
<1>1. s \in Int /\ t \in 0 .. n - 1 /\ a = n * s + t
  OBVIOUS
<1> HIDE DEF s, t
<1>2. ASSUME s = q PROVE t = r
  BY <1>1, <1>2
<1>3. ASSUME s > q PROVE FALSE
  <2>1. n * (s - q) >= n
    BY <1>1, <1>3, TimesAtLeast
  <2>2. n * (s - q) = n * s - n * q
    BY <1>1
  <2>3. QED BY <1>1, <2>1, <2>2
<1>4. ASSUME s < q PROVE FALSE
  <2>1. n * (q - s) >= n
    BY <1>1, <1>4, TimesAtLeast
  <2>2. n * (q - s) = n * q - n * s
    BY <1>1
  <2>3. QED BY <1>1, <2>1, <2>2
<1>5. s < q \/ s = q \/ s > q
  BY <1>1
<1>6. t = r
  BY <1>2, <1>3, <1>4, <1>5
<1>7. QED BY <1>6 DEF t

\* Cutting a summand to an int first does not change the int the sum is cut to.
LEMMA Int16Sum ==
  ASSUME NEW x \in Int, NEW y \in Int
  PROVE  int16(x + int16(y)) = int16(x + y)
<1> DEFINE n == 2 * IntHalf
           q == (y + IntHalf) \div n
           s == (x + int16(y) + IntHalf) \div n
           r == (x + int16(y) + IntHalf) % n
<1>1. n \in Nat \ {0} /\ IntHalf \in Int
  BY WidthAssumption
<1>2. q \in Int /\ y + IntHalf = n * q + ((y + IntHalf) % n) /\ (y + IntHalf) % n \in Int
  <2> HIDE DEF n
  <2>1. QED BY <1>1
<1>3. int16(y) \in Int /\ int16(y) = y - n * q
  BY <1>1, <1>2 DEF int16
<1>4. s \in Int /\ r \in 0 .. n - 1 /\ x + int16(y) + IntHalf = n * s + r
  <2> HIDE DEF n
  <2>1. QED BY <1>1, <1>3
<1>5. x + y + IntHalf = n * (s + q) + r
  <2> HIDE DEF n, s, q, r
  <2>1. n * (s + q) = n * s + n * q
    BY <1>1, <1>2, <1>4
  <2>2. QED BY <1>1, <1>2, <1>3, <1>4, <2>1
<1>6. (x + y + IntHalf) % n = r
  <2> HIDE DEF n, s, q, r
  <2>1. s + q \in Int /\ x + y + IntHalf \in Int
    BY <1>1, <1>2, <1>4
  <2>2. r \in 0 .. n - 1 /\ n \in Nat \ {0}
    BY <1>1, <1>4
  <2> DEFINE a == x + y + IntHalf
             k == s + q
  <2>3. a \in Int /\ k \in Int /\ a = n * k + r
    BY <1>5, <2>1
  <2> HIDE DEF a, k
  <2>4. a % n = r
    BY <2>2, <2>3, ModUnique
  <2>5. QED BY <2>4 DEF a
<1>7. int16(x + int16(y)) = r - IntHalf /\ int16(x + y) = ((x + y + IntHalf) % n) - IntHalf
  BY DEF int16
<1>8. QED BY <1>6, <1>7

LEMMA ToIntNumber ==
  ASSUME NEW x \in Int
  PROVE  toInt(x) = int16(x) /\ int16(x) \in Int
<1>1. x # Junk
  BY TextAssumption
<1>2. QED BY <1>1, Int16Range, WidthAssumption DEF toInt

LEMMA ToIntType ==
  ASSUME NEW text \in Int \cup {Junk}
  PROVE  toInt(text) \in Int
<1>1. CASE text = Junk
  BY <1>1 DEF toInt
<1>2. CASE text # Junk
  BY <1>2, Int16Range, WidthAssumption DEF toInt
<1>3. QED BY <1>1, <1>2

\* A clipped number is a legal angle of the motor.
LEMMA ClipInLimits ==
  ASSUME NEW m \in Motor, NEW v \in Int
  PROVE  clip(m, v) \in Int /\ Low[m] <= clip(m, v) /\ clip(m, v) <= High[m]
<1>1. Low[m] \in Int /\ High[m] \in Int /\ Home[m] \in Int
      /\ Low[m] <= Home[m] /\ Home[m] <= High[m]
  BY LimitsAssumption
<1>2. QED BY <1>1 DEF clip

LEMMA HomeIsLegal == Home \in Position
  BY LimitsAssumption DEF Position

\* A relative move ends at a legal position whatever the motor's number and
\* the angle, an overflowing sum included.
THEOREM DoActionLegal ==
  ASSUME NEW p \in Position, NEW m \in Int, NEW param \in Int
  PROVE  do_action(p, m, param) \in Position
<1>1. CASE m \notin Motor
  BY <1>1 DEF do_action
<1>2. CASE m \in Motor
  <2>1. p \in [Motor -> Int] /\ p[m] + param \in Int
    BY <1>2 DEF Position
  <2>2. int16(p[m] + param) \in Int
    BY <2>1, Int16Range, WidthAssumption
  <2>3. DEFINE c == clip(m, int16(p[m] + param))
  <2>4. c \in Int /\ Low[m] <= c /\ c <= High[m]
    BY <1>2, <2>2, ClipInLimits
  <2>5. do_action(p, m, param) = [p EXCEPT ![m] = c]
    BY <1>2 DEF do_action
  <2> HIDE DEF c
  <2>6. QED BY <1>2, <2>1, <2>4, <2>5 DEF Position
<1>3. QED BY <1>1, <1>2

LEMMA SetStatesLegal ==
  ASSUME NEW v, \A m \in Motor : v[m] \in Int
  PROVE  set_states(v) \in Position
<1>1. \A m \in Motor : clip(m, v[m]) \in Int
                       /\ Low[m] <= clip(m, v[m]) /\ clip(m, v[m]) <= High[m]
  BY ClipInLimits
<1>2. QED BY <1>1 DEF set_states, Position

Distance(x, y) == IF x < y THEN y - x ELSE x - y

\* Without overflow a relative move takes its motor to the legal angle nearest
\* the one asked for, and moves no other.  The bounds on the angle hold for all
\* that leave room in an int for the sum with any legal angle.
THEOREM DoActionNearest ==
  ASSUME NEW p \in Position, NEW m \in Motor, NEW param \in Int,
         -IntHalf - Low[m] <= param, param < IntHalf - High[m]
  PROVE  LET q == do_action(p, m, param)
         IN  /\ q \in Position
             /\ \A v \in Low[m] .. High[m] :
                  Distance(q[m], p[m] + param) <= Distance(v, p[m] + param)
             /\ \A n \in Motor \ {m} : q[n] = p[n]
<1>1. /\ p \in [Motor -> Int] /\ p[m] \in Int /\ Low[m] \in Int /\ High[m] \in Int
      /\ Low[m] <= p[m] /\ p[m] <= High[m] /\ IntHalf \in Nat
  BY LimitsAssumption, WidthAssumption DEF Position
<1>2. p[m] + param \in -IntHalf .. IntHalf - 1
  BY <1>1
<1>3. do_action(p, m, param) = [p EXCEPT ![m] = clip(m, p[m] + param)]
  BY <1>2, Int16Identity DEF do_action
<1>4. do_action(p, m, param)[m] = clip(m, p[m] + param)
  BY <1>1, <1>3
<1>5. \A n \in Motor \ {m} : do_action(p, m, param)[n] = p[n]
  BY <1>1, <1>3
<1>6. \A v \in Low[m] .. High[m] :
        Distance(clip(m, p[m] + param), p[m] + param) <= Distance(v, p[m] + param)
  BY <1>1 DEF clip, Distance
<1>7. do_action(p, m, param) \in Position
  BY DoActionLegal, MotorsAssumption DEF Motor
<1>8. QED BY <1>4, <1>5, <1>6, <1>7

-----------------------------------------------------------------------------
(***************************************************************************)
(* Induction.  A set of numbers with 0 and, with every number, the next is *)
(* all of them: one outside it would have a least such number.  What a     *)
(* recursive function computes follows from it, with the set of the numbers*)
(* up to which the function exists, or two functions agree.                *)
(***************************************************************************)

LEMMA SetInduction ==
  ASSUME NEW T \in SUBSET Nat, 0 \in T, \A n \in T : n + 1 \in T
  PROVE  T = Nat
<1>1. SUFFICES ASSUME Nat \ T # {} PROVE FALSE
  OBVIOUS
<1> DEFINE R == OpToRel(<, Nat)
<1>2. IsWellFoundedOn(R, Nat)
  BY NatLessThanWellFounded
<1>3. \A m, n \in Nat : m < n => <<m, n>> \in R
  BY DEF OpToRel
<1> HIDE DEF R
<1>4. PICK n \in Nat \ T : \A m \in Nat \ T : ~ (<<m, n>> \in R)
  BY <1>1, <1>2, WFMin, Zenon
<1>5. n # 0 /\ n - 1 \in Nat
  BY <1>4
<1>6. n - 1 \in T
  <2>1. <<n - 1, n>> \in R
    BY <1>3, <1>5
  <2>2. QED BY <2>1, <1>4, <1>5
<1>7. (n - 1) + 1 \in T
  BY <1>6
<1>8. (n - 1) + 1 = n
  OBVIOUS
<1>9. QED BY <1>4, <1>7, <1>8

\* A function by recursion on 1 .. N, whose step h takes the value before and
\* the number.
IsRun(f, b, h, N, S) ==
  /\ f \in [0 .. N -> S] /\ f[0] = b
  /\ \A n \in 1 .. N : f[n] = h[<<f[n - 1], n>>]

LEMMA RunExists ==
  ASSUME NEW S, NEW b \in S, NEW N \in Nat, NEW h \in [S \X (1 .. N) -> S]
  PROVE  \E f : IsRun(f, b, h, N, S)
<1> DEFINE T == {k \in Nat : k <= N => \E f : IsRun(f, b, h, k, S)}
<1>1. 0 \in T
  <2>1. IsRun([n \in 0 .. 0 |-> b], b, h, 0, S)
    BY DEF IsRun
  <2>2. QED BY <2>1
<1>2. ASSUME NEW k \in T PROVE k + 1 \in T
  <2>1. SUFFICES ASSUME k + 1 <= N PROVE \E g : IsRun(g, b, h, k + 1, S)
    BY <1>2
  <2>2. k \in Nat /\ k + 1 \in 1 .. N
    BY <1>2, <2>1
  <2>3. PICK f : IsRun(f, b, h, k, S)
    BY <1>2, <2>2
  <2>4. f[k] \in S /\ h[<<f[k], k + 1>>] \in S
    BY <2>2, <2>3 DEF IsRun
  <2> DEFINE g == [n \in 0 .. k + 1 |-> IF n = k + 1 THEN h[<<f[k], k + 1>>] ELSE f[n]]
  <2>5. g \in [0 .. k + 1 -> S] /\ g[0] = b
    BY <2>2, <2>3, <2>4 DEF IsRun
  <2>6. ASSUME NEW n \in 1 .. k + 1 PROVE g[n] = h[<<g[n - 1], n>>]
    <3>1. n - 1 \in 0 .. k /\ g[n - 1] = f[n - 1]
      BY <2>2
    <3>2. CASE n = k + 1
      <4>1. n - 1 = k /\ g[n] = h[<<f[k], k + 1>>]
        BY <2>2, <3>2
      <4>2. QED BY <3>1, <3>2, <4>1
    <3>3. CASE n # k + 1
      <4>1. n \in 1 .. k /\ g[n] = f[n]
        BY <2>2, <3>3
      <4>2. f[n] = h[<<f[n - 1], n>>]
        BY <2>3, <4>1 DEF IsRun
      <4>3. QED BY <3>1, <4>1, <4>2
    <3>4. QED BY <3>2, <3>3
  <2>7. IsRun(g, b, h, k + 1, S)
    <3> HIDE DEF g
    <3> QED BY <2>5, <2>6 DEF IsRun
  <2>8. QED BY <2>7
<1>3. T = Nat
  <2> HIDE DEF T
  <2>1. T \in SUBSET Nat
    BY DEF T
  <2>2. QED BY <1>1, <1>2, <2>1, SetInduction
<1>4. N \in T
  BY <1>3
<1>5. QED BY <1>4

\* Functions whose steps agree where their values do.
StepAlike(f, g, N) == \A n \in 1 .. N : f[n - 1] = g[n - 1] => f[n] = g[n]
Alike(f, g, N) == \A n \in 0 .. N : f[n] = g[n]

LEMMA SameRun ==
  ASSUME NEW N \in Nat, NEW f, NEW g, f[0] = g[0], StepAlike(f, g, N)
  PROVE  Alike(f, g, N)
<1> DEFINE T == {k \in Nat : k <= N => f[k] = g[k]}
<1>1. 0 \in T
  OBVIOUS
<1>2. ASSUME NEW k \in T PROVE k + 1 \in T
  <2>1. CASE k + 1 <= N
    <3>1. k + 1 \in 1 .. N /\ (k + 1) - 1 = k /\ k <= N
      BY <2>1
    <3>2. f[k] = g[k]
      BY <3>1
    <3>3. f[k + 1] = g[k + 1]
      BY <3>1, <3>2 DEF StepAlike
    <3>4. QED BY <3>3
  <2>2. CASE ~(k + 1 <= N)
    BY <2>2
  <2>3. QED BY <2>1, <2>2
<1>3. T = Nat
  <2> HIDE DEF T
  <2>1. T \in SUBSET Nat
    BY DEF T
  <2>2. QED BY <1>1, <1>2, <2>1, SetInduction
<1>4. QED BY <1>3 DEF Alike

-----------------------------------------------------------------------------
(***************************************************************************)
(* What a sequence of moves leads to.                                      *)
(***************************************************************************)

\* at[n] is the position after the first n moves.
IsActing(at, p, moves) ==
  /\ at \in [0 .. Len(moves) -> Position] /\ at[0] = p
  /\ \A n \in 1 .. Len(moves) : at[n] = do_action(at[n - 1], moves[n][1], moves[n][2])

LEMMA ActedRun ==
  ASSUME NEW p \in Position, NEW moves \in Seq(Int \X Int)
  PROVE  \E at : IsActing(at, p, moves) /\ Acted(p, moves) = at[Len(moves)]
<1> DEFINE N == Len(moves)
           Step(q, n) == do_action(q, moves[n][1], moves[n][2])
           h == [x \in Position \X (1 .. N) |-> Step(x[1], x[2])]
           Eq(at) == at = [n \in 0 .. N |-> IF n = 0 THEN p ELSE Step(at[n - 1], n)]
           run == CHOOSE at : Eq(at)
<1>1. N \in Nat
  OBVIOUS
<1>2. \A q \in Position, n \in 1 .. N : Step(q, n) \in Position
  <2>1. TAKE q \in Position, n \in 1 .. N
  <2>2. moves[n] \in Int \X Int
    OBVIOUS
  <2>3. moves[n][1] \in Int /\ moves[n][2] \in Int
    BY <2>2
  <2>4. QED BY <2>3, DoActionLegal
<1>3. Acted(p, moves) = run[N]
  BY DEF Acted
<1>4. SUFFICES \E f \in [0 .. N -> Position] :
                 /\ f[0] = p /\ f[N] = run[N]
                 /\ \A n \in 1 .. N : f[n] = Step(f[n - 1], n)
  BY <1>3, Zenon DEF IsActing
<1> HIDE DEF Step, N
<1>5. h \in [Position \X (1 .. N) -> Position]
  BY <1>2
<1>6. PICK f : IsRun(f, p, h, N, Position)
  <2> HIDE DEF h
  <2> QED BY <1>1, <1>5, RunExists
<1>7. f \in [0 .. N -> Position] /\ f[0] = p
  BY <1>6 DEF IsRun
<1>8. ASSUME NEW n \in 1 .. N PROVE f[n] = Step(f[n - 1], n)
  <2>1. f[n - 1] \in Position
    BY <1>1, <1>7
  <2>2. h[<<f[n - 1], n>>] = Step(f[n - 1], n)
    BY <2>1
  <2> HIDE DEF h
  <2>3. QED BY <1>6, <2>2 DEF IsRun
<1>9. Eq(f)
  <2>1. ASSUME NEW n \in 0 .. N
        PROVE  f[n] = IF n = 0 THEN p ELSE Step(f[n - 1], n)
    BY <1>1, <1>7, <1>8
  <2>2. QED BY <1>7, <2>1
<1>10. Eq(run)
  <2> HIDE DEF Eq
  <2> QED BY <1>9
<1>11. run[0] = p /\ \A n \in 1 .. N : run[n] = Step(run[n - 1], n)
  <2> HIDE DEF run
  <2>1. 0 \in 0 .. N /\ \A n \in 1 .. N : n \in 0 .. N /\ n # 0
    BY <1>1
  <2>2. QED BY <1>10, <2>1
<1>12. f[N] = run[N]
  <2> HIDE DEF run, h
  <2>1. StepAlike(f, run, N)
    BY <1>8, <1>11 DEF StepAlike
  <2>2. Alike(f, run, N)
    BY <1>1, <1>7, <1>11, <2>1, SameRun
  <2>3. QED BY <1>1, <2>2 DEF Alike
<1>13. QED
  <2> HIDE DEF run, h
  <2> QED BY <1>7, <1>8, <1>12

\* No moves lead nowhere, and no moves lead beyond the limits.
LEMMA ActedNone == ASSUME NEW p \in Position PROVE Acted(p, <<>>) = p
<1>1. <<>> \in Seq(Int \X Int) /\ Len(<<>>) = 0
  OBVIOUS
<1>2. PICK at : IsActing(at, p, <<>>) /\ Acted(p, <<>>) = at[Len(<<>>)]
  BY <1>1, ActedRun
<1>3. QED BY <1>1, <1>2 DEF IsActing

LEMMA ActedLegal ==
  ASSUME NEW p \in Position, NEW moves \in Seq(Int \X Int)
  PROVE  Acted(p, moves) \in Position
<1>1. PICK at : IsActing(at, p, moves) /\ Acted(p, moves) = at[Len(moves)]
  BY ActedRun
<1>2. Len(moves) \in 0 .. Len(moves)
  OBVIOUS
<1>3. QED BY <1>1, <1>2 DEF IsActing

\* The position after the first n moves is the one these lead to.
LEMMA ActedPrefix ==
  ASSUME NEW p \in Position, NEW moves \in Seq(Int \X Int), NEW at,
         IsActing(at, p, moves), NEW n \in 0 .. Len(moves)
  PROVE  Acted(p, SubSeq(moves, 1, n)) = at[n]
<1> DEFINE first == SubSeq(moves, 1, n)
<1>1. first \in Seq(Int \X Int) /\ Len(first) = n /\ n \in Nat
  OBVIOUS
<1>2. \A i \in 1 .. n : first[i] = moves[i] /\ i \in 1 .. Len(moves)
  OBVIOUS
<1> HIDE DEF first
<1>3. PICK run : IsActing(run, p, first) /\ Acted(p, first) = run[Len(first)]
  BY <1>1, ActedRun
<1>4. StepAlike(at, run, n)
  BY <1>1, <1>2, <1>3 DEF IsActing, StepAlike
<1>5. Alike(at, run, n)
  BY <1>1, <1>3, <1>4, SameRun DEF IsActing
<1>6. at[n] = run[n]
  BY <1>1, <1>5 DEF Alike
<1>7. QED BY <1>1, <1>3, <1>6 DEF first

\* Doing the first move and then the others is doing them all.
LEMMA ActedFirst ==
  ASSUME NEW p \in Position, NEW moves \in Seq(Int \X Int), moves # <<>>
  PROVE  Acted(p, moves) = Acted(do_action(p, Head(moves)[1], Head(moves)[2]), Tail(moves))
<1> DEFINE q == do_action(p, Head(moves)[1], Head(moves)[2])
           rest == Tail(moves)
           N == Len(rest)
<1>1. /\ rest \in Seq(Int \X Int) /\ N \in Nat /\ Len(moves) = N + 1
      /\ Head(moves) = moves[1] /\ moves[1] \in Int \X Int
      /\ \A i \in 1 .. N : rest[i] = moves[i + 1]
  OBVIOUS
<1>2. q \in Position
  <2>1. Head(moves)[1] \in Int /\ Head(moves)[2] \in Int
    BY <1>1
  <2>2. QED BY <2>1, DoActionLegal
<1>3. q = do_action(p, moves[1][1], moves[1][2])
  BY <1>1
<1>4. PICK at : IsActing(at, p, moves) /\ Acted(p, moves) = at[Len(moves)]
  BY ActedRun
<1> HIDE DEF q, rest
<1>5. PICK run : IsActing(run, q, rest) /\ Acted(q, rest) = run[N]
  BY <1>1, <1>2, ActedRun
<1> HIDE DEF N
<1> DEFINE later == [n \in 0 .. N |-> at[n + 1]]
<1>6. later[0] = run[0]
  <2>1. 1 \in 1 .. Len(moves) /\ 1 - 1 = 0 /\ later[0] = at[1]
    BY <1>1
  <2>2. at[1] = do_action(p, moves[1][1], moves[1][2])
    BY <1>4, <2>1 DEF IsActing
  <2>3. QED BY <1>3, <1>5, <2>1, <2>2 DEF IsActing
<1>7. StepAlike(later, run, N)
  <2>1. SUFFICES ASSUME NEW n \in 1 .. N, later[n - 1] = run[n - 1]
                 PROVE  later[n] = run[n]
    BY DEF StepAlike
  <2>2. /\ n + 1 \in 1 .. Len(moves) /\ (n + 1) - 1 = n /\ n \in 1 .. N
        /\ later[n - 1] = at[n] /\ later[n] = at[n + 1] /\ rest[n] = moves[n + 1]
    BY <1>1
  <2>3. at[n + 1] = do_action(at[n], moves[n + 1][1], moves[n + 1][2])
    BY <1>4, <2>2 DEF IsActing
  <2>4. run[n] = do_action(run[n - 1], rest[n][1], rest[n][2])
    BY <1>5, <2>2 DEF IsActing, N
  <2>5. QED BY <2>1, <2>2, <2>3, <2>4
<1>8. Alike(later, run, N)
  <2> HIDE DEF later
  <2> QED BY <1>1, <1>6, <1>7, SameRun
<1>9. later[N] = run[N] /\ later[N] = at[N + 1]
  BY <1>1, <1>8 DEF Alike
<1>10. QED BY <1>1, <1>4, <1>5, <1>9 DEF q, rest

\* One move more.
LEMMA ActedAppend ==
  ASSUME NEW p \in Position, NEW moves \in Seq(Int \X Int), NEW m \in Int, NEW v \in Int
  PROVE  Acted(p, Append(moves, <<m, v>>)) = do_action(Acted(p, moves), m, v)
<1> DEFINE longer == Append(moves, <<m, v>>)
           N == Len(moves)
<1>1. /\ N \in Nat /\ longer \in Seq(Int \X Int) /\ Len(longer) = N + 1
      /\ longer[N + 1] = <<m, v>> /\ \A i \in 1 .. N : longer[i] = moves[i]
  <2>1. <<m, v>> \in Int \X Int
    OBVIOUS
  <2>2. QED BY <2>1, AppendProperties
<1>2. SubSeq(longer, 1, N) = moves
  <2> DEFINE first == SubSeq(longer, 1, N)
  <2>1. first \in Seq(Int \X Int) /\ Len(first) = N /\ \A i \in 1 .. N : first[i] = longer[i]
    <3> HIDE DEF longer, N
    <3>1. QED BY <1>1
  <2> HIDE DEF first, longer
  <2>2. QED BY <1>1, <2>1, SeqEqual DEF first
<1> HIDE DEF longer, N
<1>3. PICK at : IsActing(at, p, longer) /\ Acted(p, longer) = at[Len(longer)]
  BY <1>1, ActedRun
<1>4. Acted(p, moves) = at[N]
  <2>1. N \in 0 .. Len(longer)
    BY <1>1
  <2>2. Acted(p, SubSeq(longer, 1, N)) = at[N]
    BY <1>1, <1>3, <2>1, ActedPrefix
  <2>3. QED BY <1>2, <2>2
<1>5. at[N + 1] = do_action(at[N], m, v)
  <2>0. N \in Nat /\ Len(longer) = N + 1
    BY <1>1
  <2>1. N + 1 \in 1 .. Len(longer) /\ (N + 1) - 1 = N
    BY <2>0
  <2>2. at[N + 1] = do_action(at[(N + 1) - 1], longer[N + 1][1], longer[N + 1][2])
    BY <1>3, <2>1 DEF IsActing
  <2>3. longer[N + 1][1] = m /\ longer[N + 1][2] = v
    BY <1>1
  <2>4. QED BY <2>1, <2>2, <2>3
<1>6. QED BY <1>1, <1>3, <1>4, <1>5 DEF longer

\* Sequences of moves that do the same, one by one, do the same.
LEMMA ActedSame ==
  ASSUME NEW p \in Position, NEW moves \in Seq(Int \X Int), NEW others \in Seq(Int \X Int),
         Len(moves) = Len(others),
         \A i \in 1 .. Len(moves) : \A q \in Position :
           do_action(q, moves[i][1], moves[i][2]) = do_action(q, others[i][1], others[i][2])
  PROVE  Acted(p, moves) = Acted(p, others)
<1> DEFINE N == Len(moves)
<1>1. N \in Nat
  OBVIOUS
<1>2. PICK f : IsActing(f, p, moves) /\ Acted(p, moves) = f[N]
  BY ActedRun
<1>3. PICK g : IsActing(g, p, others) /\ Acted(p, others) = g[N]
  BY ActedRun
<1>4. g \in [0 .. N -> Position]
  BY <1>3 DEF IsActing
<1>5. StepAlike(f, g, N)
  <2>1. SUFFICES ASSUME NEW n \in 1 .. N, f[n - 1] = g[n - 1] PROVE f[n] = g[n]
    BY DEF StepAlike
  <2>2. g[n - 1] \in Position
    <3> HIDE DEF N
    <3>1. QED BY <1>1, <1>4
  <2>3. f[n] = do_action(f[n - 1], moves[n][1], moves[n][2])
    BY <1>2 DEF IsActing
  <2>4. g[n] = do_action(g[n - 1], others[n][1], others[n][2])
    BY <1>3 DEF IsActing
  <2>5. QED BY <2>1, <2>2, <2>3, <2>4
<1>6. Alike(f, g, N)
  BY <1>1, <1>2, <1>3, <1>5, SameRun DEF IsActing
<1>7. f[N] = g[N]
  <2>1. N \in 0 .. N
    BY <1>1
  <2>2. QED BY <1>6, <2>1 DEF Alike
<1>8. QED BY <1>2, <1>3, <1>7

=============================================================================
