---------------------------- MODULE BraccioProofs ----------------------------
(***************************************************************************)
(* Proofs about the servo driver, for any number of servos, any crossing of*)
(* parameters, any limits that admit the power-on position and any calls.  *)
(*                                                                         *)
(* One inductive invariant carries them all.  That the written degrees are *)
(* safe is not inductive by itself: a pass writes what is remembered, so   *)
(* the remembered degrees must be safe; they approach the goal, so the goal*)
(* must be.  That they never drift apart needs no fact about the goal.     *)
(***************************************************************************)
EXTENDS Braccio, TLAPS

DriverInv ==
  /\ TypeOK
  /\ InSafeRange(goal)
  /\ SafePositions
  /\ ServoLag
  /\ StopsAtGoal

\* A clipped value is in the range, whatever was asked for.
LEMMA ClampInRange ==
  ASSUME NEW lo \in Int, NEW hi \in Int, lo <= hi, NEW v \in Int
  PROVE  LET c == IF v < lo THEN lo ELSE IF v > hi THEN hi ELSE v
         IN  c \in Int /\ lo <= c /\ c <= hi
  OBVIOUS

\* A degree on the way from x to g stays between bounds that hold both, and
\* is at most one away from x.
LEMMA TowardBetween ==
  ASSUME NEW x \in Int, NEW g \in Int, NEW lo \in Int, NEW hi \in Int,
         lo <= x, x <= hi, lo <= g, g <= hi
  PROVE  /\ Toward(x, g) \in Int
         /\ lo <= Toward(x, g) /\ Toward(x, g) <= hi
         /\ Abs(x - Toward(x, g)) <= 1
         /\ x = g => Toward(x, g) = x
  BY DEF Toward, Abs

\* The driver starts, and restarts, with every servo at a safe degree.
LEMMA DriverInit == AfterBegin => DriverInv
<1>1. SUFFICES ASSUME AfterBegin PROVE DriverInv
  OBVIOUS
<1>2. PowerOn \in [Motor -> Int] /\ InSafeRange(PowerOn)
  BY DriverAssumption DEF InSafeRange
<1>3. TypeOK /\ InSafeRange(goal) /\ SafePositions /\ StopsAtGoal
  BY <1>1, <1>2 DEF AfterBegin, TypeOK, SafePositions, StopsAtGoal
<1>4. ServoLag
  <2>1. \A s \in Motor : PowerOn[s] \in Int /\ servo[s] = PowerOn[s] /\ step[s] = PowerOn[s]
    BY <1>1, <1>2 DEF AfterBegin
  <2>2. \A x \in Int : Abs(x - x) <= 1
    BY DEF Abs
  <2>3. QED BY <2>1, <2>2 DEF ServoLag
<1>5. QED BY <1>3, <1>4 DEF DriverInv

LEMMA DriverBegin == begin => DriverInv'
<1>1. SUFFICES ASSUME begin PROVE DriverInv'
  OBVIOUS
<1>2. PowerOn \in [Motor -> Int] /\ InSafeRange(PowerOn)
  BY DriverAssumption DEF InSafeRange
<1>3. TypeOK' /\ InSafeRange(goal)' /\ SafePositions' /\ StopsAtGoal'
  BY <1>1, <1>2 DEF begin, TypeOK, InSafeRange, SafePositions, StopsAtGoal
<1>4. ServoLag'
  <2>1. \A s \in Motor : PowerOn[s] \in Int /\ servo'[s] = PowerOn[s] /\ step'[s] = PowerOn[s]
    BY <1>1, <1>2 DEF begin
  <2>2. \A x \in Int : Abs(x - x) <= 1
    BY DEF Abs
  <2>3. QED BY <2>1, <2>2 DEF ServoLag
<1>5. QED BY <1>3, <1>4 DEF DriverInv

\* A call whose arguments are any integers leaves a safe goal.
LEMMA DriverCall ==
  ASSUME DriverInv, NEW v \in [Motor -> Int], ServoMovement(v)
  PROVE  DriverInv'
<1>1. \A s \in Motor : /\ goal'[s] \in Int
                       /\ SafeLow[Drive[s]] <= goal'[s]
                       /\ goal'[s] <= SafeHigh[Drive[s]]
  <2>1. SUFFICES ASSUME NEW s \in Motor
                 PROVE  /\ goal'[s] \in Int
                        /\ SafeLow[Drive[s]] <= goal'[s]
                        /\ goal'[s] <= SafeHigh[Drive[s]]
    OBVIOUS
  <2>2. goal'[s] = clamp(Drive[s], v[Drive[s]])
    BY DEF ServoMovement
  <2>3. /\ SafeLow[Drive[s]] \in Int /\ SafeHigh[Drive[s]] \in Int
        /\ SafeLow[Drive[s]] <= SafeHigh[Drive[s]]
        /\ v[Drive[s]] \in Int
    <3>1. Drive[s] \in Motor /\ PowerOn[s] \in Int
      BY DriverAssumption
    <3>2. SafeLow[Drive[s]] \in Int /\ SafeHigh[Drive[s]] \in Int /\ v[Drive[s]] \in Int
      BY <3>1, DriverAssumption
    <3>3. SafeLow[Drive[s]] <= PowerOn[s] /\ PowerOn[s] <= SafeHigh[Drive[s]]
      BY DriverAssumption
    <3>4. QED BY <3>1, <3>2, <3>3
  <2>4. QED BY <2>2, <2>3, ClampInRange DEF clamp
<1>2. TypeOK'
  <2>1. goal' = [s \in Motor |-> goal'[s]]
    BY DEF ServoMovement
  <2>2. QED BY <1>1, <2>1 DEF DriverInv, TypeOK, ServoMovement
<1>3. InSafeRange(goal)'
  BY <1>1 DEF InSafeRange
<1>4. SafePositions' /\ ServoLag'
  BY DEF DriverInv, SafePositions, InSafeRange, ServoLag, ServoMovement
<1>5. StopsAtGoal'
  BY DEF StopsAtGoal, ServoMovement
<1>6. QED BY <1>2, <1>3, <1>4, <1>5 DEF DriverInv

\* A pass writes remembered degrees and remembers ones nearer the goal.
LEMMA DriverPass == ASSUME DriverInv, Pass PROVE DriverInv'
<1>1. \A s \in Motor :
        /\ step'[s] \in Int /\ servo'[s] \in Int
        /\ SafeLow[Drive[s]] <= step'[s] /\ step'[s] <= SafeHigh[Drive[s]]
        /\ SafeLow[Drive[s]] <= servo'[s] /\ servo'[s] <= SafeHigh[Drive[s]]
        /\ Abs(servo'[s] - step'[s]) <= 1
  <2>1. SUFFICES ASSUME NEW s \in Motor
                 PROVE  /\ step'[s] \in Int /\ servo'[s] \in Int
                        /\ SafeLow[Drive[s]] <= step'[s] /\ step'[s] <= SafeHigh[Drive[s]]
                        /\ SafeLow[Drive[s]] <= servo'[s] /\ servo'[s] <= SafeHigh[Drive[s]]
                        /\ Abs(servo'[s] - step'[s]) <= 1
    OBVIOUS
  <2>2. step'[s] = Toward(step[s], goal[s])
    BY DEF Pass
  <2>3. servo'[s] = IF goal[s] # step[s] THEN step[s] ELSE servo[s]
    BY DEF Pass
  <2>4. /\ goal[s] \in Int /\ step[s] \in Int /\ servo[s] \in Int
        /\ SafeLow[Drive[s]] \in Int /\ SafeHigh[Drive[s]] \in Int
    BY DriverAssumption DEF DriverInv, TypeOK
  <2>5. /\ SafeLow[Drive[s]] <= goal[s] /\ goal[s] <= SafeHigh[Drive[s]]
        /\ SafeLow[Drive[s]] <= step[s] /\ step[s] <= SafeHigh[Drive[s]]
        /\ SafeLow[Drive[s]] <= servo[s] /\ servo[s] <= SafeHigh[Drive[s]]
        /\ Abs(servo[s] - step[s]) <= 1
    BY DEF DriverInv, SafePositions, InSafeRange, ServoLag
  <2>6. /\ Toward(step[s], goal[s]) \in Int
        /\ SafeLow[Drive[s]] <= Toward(step[s], goal[s])
        /\ Toward(step[s], goal[s]) <= SafeHigh[Drive[s]]
        /\ Abs(step[s] - Toward(step[s], goal[s])) <= 1
        /\ step[s] = goal[s] => Toward(step[s], goal[s]) = step[s]
    BY <2>4, <2>5, TowardBetween
  <2>7. CASE goal[s] = step[s]
    BY <2>2, <2>3, <2>4, <2>5, <2>6, <2>7
  <2>8. CASE goal[s] # step[s]
    BY <2>2, <2>3, <2>4, <2>5, <2>6, <2>8
  <2>9. QED BY <2>7, <2>8
<1>2. TypeOK'
  <2>1. step' = [s \in Motor |-> step'[s]] /\ servo' = [s \in Motor |-> servo'[s]]
    BY DEF Pass
  <2>2. QED BY <1>1, <2>1 DEF DriverInv, TypeOK, Pass
<1>3. InSafeRange(goal)'
  BY DEF DriverInv, InSafeRange, Pass
<1>4. SafePositions' /\ ServoLag'
  BY <1>1 DEF SafePositions, InSafeRange, ServoLag
<1>5. StopsAtGoal'
  BY DEF StopsAtGoal, Pass
<1>6. QED BY <1>2, <1>3, <1>4, <1>5 DEF DriverInv

\* DriverInv is inductive.
LEMMA DriverStep == DriverInv /\ [Next]_vars => DriverInv'
<1>1. SUFFICES ASSUME DriverInv, [Next]_vars PROVE DriverInv'
  OBVIOUS
<1>2. CASE begin
  BY <1>2, DriverBegin
<1>3. CASE \E v \in Calls : ServoMovement(v)
  <2>1. PICK v \in Calls : ServoMovement(v)
    BY <1>3
  <2>2. v \in [Motor -> Int]
    BY CallsAssumption
  <2>3. QED BY <1>1, <2>1, <2>2, DriverCall
<1>4. CASE Pass
  BY <1>1, <1>4, DriverPass
<1>5. CASE UNCHANGED vars
  BY <1>1, <1>5
  DEF vars, DriverInv, TypeOK, InSafeRange, SafePositions, ServoLag, StopsAtGoal
<1>6. QED BY <1>1, <1>2, <1>3, <1>4, <1>5 DEF Next

LEMMA DriverCorrect == Spec => []DriverInv
<1>1. Init => DriverInv
  BY DriverInit DEF Init
<1>2. QED BY <1>1, DriverStep, PTL DEF Spec

-----------------------------------------------------------------------------
\* "To avoid dangerous positions": whatever is asked of ServoMovement, no
\* servo is ever written a degree outside the range of its parameter.
THEOREM AlwaysSafe == Spec => []SafePositions
<1>1. DriverInv => SafePositions
  BY DEF DriverInv
<1>2. QED BY <1>1, DriverCorrect, PTL

\* The remembered degree and the written one never drift apart.
THEOREM NeverDrifts == Spec => []ServoLag
<1>1. DriverInv => ServoLag
  BY DEF DriverInv
<1>2. QED BY <1>1, DriverCorrect, PTL

\* A returned call leaves the remembered degrees at its clipped target.
THEOREM AlwaysStopsAtGoal == Spec => []StopsAtGoal
<1>1. DriverInv => StopsAtGoal
  BY DEF DriverInv
<1>2. QED BY <1>1, DriverCorrect, PTL

\* What the driver does between restarts.
Run == (\E v \in Calls : ServoMovement(v)) \/ Pass

\* A pass writes the remembered degree, which is at most one away from the
\* last written; nothing else but begin writes.
LEMMA DegreeStep ==
  ASSUME DriverInv, [Run]_vars
  PROVE  \A s \in Motor : Abs(servo'[s] - servo[s]) <= 1
<1>1. \A s \in Motor : servo[s] \in Int /\ step[s] \in Int
  BY DEF DriverInv, TypeOK
<1>2. \A s \in Motor : servo'[s] = servo[s] \/ servo'[s] = step[s]
  BY DEF Run, ServoMovement, Pass, vars
<1>3. \A s \in Motor : Abs(servo[s] - step[s]) <= 1
  BY DEF DriverInv, ServoLag
<1>4. QED BY <1>1, <1>2, <1>3 DEF Abs

\* Between restarts a servo is moved by at most a degree at a time, across the
\* boundary of two calls included.
THEOREM DegreeByDegree == Spec => OneDegree
<1>1. DriverInv /\ [Next]_vars
        => [begin \/ \A s \in Motor : Abs(servo'[s] - servo[s]) <= 1]_vars
  BY DegreeStep DEF Next, Run
<1>2. QED BY <1>1, DriverCorrect, PTL DEF Spec, OneDegree

-----------------------------------------------------------------------------
\* No servo is further than n degrees from its goal, by what is remembered.
Within(n) == \A s \in Motor : Abs(goal[s] - step[s]) <= n

\* A pass brings every servo that is not there a degree nearer, so that the
\* farthest of them decides when the loop ends.
LEMMA PassNearer ==
  ASSUME DriverInv, Pass, NEW n \in Nat, Within(n + 1)
  PROVE  Within(n)' /\ (n = 0 => ~moving')
<1>1. \A s \in Motor : goal[s] \in Int /\ step[s] \in Int /\ goal'[s] = goal[s]
  BY DEF DriverInv, TypeOK, Pass
<1>2. \A s \in Motor : step'[s] = Toward(step[s], goal[s])
  BY DEF Pass
<1>3. ASSUME NEW s \in Motor
      PROVE  Abs(goal'[s] - step'[s]) <= n /\ (n = 0 => step'[s] = goal[s])
  <2>1. goal[s] \in Int /\ step[s] \in Int /\ Abs(goal[s] - step[s]) <= n + 1
    BY <1>1 DEF Within
  <2>2. goal'[s] = goal[s] /\ step'[s] = Toward(step[s], goal[s])
    BY <1>1, <1>2
  <2>3. QED BY <2>1, <2>2 DEF Abs, Toward
<1>4. Within(n)'
  BY <1>3 DEF Within
<1>5. ASSUME n = 0 PROVE ~moving'
  <2>1. goal = [s \in Motor |-> goal[s]]
    BY DEF DriverInv, TypeOK
  <2>2. step' = [s \in Motor |-> step'[s]]
    BY DEF Pass
  <2>3. step' = goal
    BY <1>3, <1>5, <2>1, <2>2
  <2>4. QED BY <2>3 DEF Pass
<1>6. QED BY <1>4, <1>5

\* A call lasts no more passes than the degrees its farthest servo has to go, or one if
\* there are none: each pass leaves one fewer to go for all servos at once, whichever way
\* they turn, and the loop ends at the last (`exit' in ServoMovement).  That passes are
\* made is the fairness of Termination, which is model-checked.
THEOREM PassesCounted ==
  Spec => [][Pass => \A n \in Nat : Within(n + 1) => Within(n)' /\ (n = 0 => ~moving')]_vars
<1>1. DriverInv /\ [Next]_vars
        => [Pass => \A n \in Nat : Within(n + 1) => Within(n)' /\ (n = 0 => ~moving')]_vars
  BY PassNearer
<1>2. QED BY <1>1, DriverCorrect, PTL DEF Spec

=============================================================================
