------------------------------- MODULE Braccio -------------------------------
(***************************************************************************)
(* The Braccio servo driver, as this repository ships it.  begin writes a  *)
(* position to the six servos and remembers it in the step_ variables;     *)
(* ServoMovement takes a target for each parameter, clips it, and loops: a *)
(* pass of the loop writes each servo that is not at its target the degree *)
(* remembered for it and moves what is remembered one degree on.           *)
(*                                                                         *)
(* The body of ServoMovement compares vWrist_ver with step_wrist_rot and   *)
(* vWrist_rot with step_wrist_ver, so a servo is not always driven by the  *)
(* parameter of its own name: Drive[s] is the parameter that drives s.     *)
(***************************************************************************)
EXTENDS Integers

CONSTANTS
  Motor,              \* names both the parameters and the servos
  Drive,              \* the parameter each servo follows
  SafeLow, SafeHigh,  \* the range each parameter is clipped to
  PowerOn,            \* the degree begin writes to each servo
  Calls               \* arguments of ServoMovement that are tried

ASSUME DriverAssumption ==
  /\ Drive \in [Motor -> Motor]
  /\ SafeLow \in [Motor -> Int] /\ SafeHigh \in [Motor -> Int]
  /\ PowerOn \in [Motor -> Int]
  /\ \A s \in Motor : /\ SafeLow[Drive[s]] <= PowerOn[s]
                      /\ PowerOn[s] <= SafeHigh[Drive[s]]

ASSUME CallsAssumption == Calls \subseteq [Motor -> Int]

VARIABLES
  goal,    \* by servo: the clipped parameter that drives it
  step,    \* by servo: step_base ... step_gripper
  servo,   \* by servo: the last degree written to it
  moving   \* the loop's `exit' is 1

vars == <<goal, step, servo, moving>>

-----------------------------------------------------------------------------
(***************************************************************************)
(* begin, which setup calls: after it nothing is left to reach.            *)
(***************************************************************************)
AfterBegin ==
  /\ goal = PowerOn
  /\ step = PowerOn
  /\ servo = PowerOn
  /\ moving = FALSE

\* Mutated form of begin: it writes the servos and leaves the step_ variables.
begin_servos_only ==
  /\ goal' = PowerOn
  /\ servo' = PowerOn
  /\ moving' = FALSE
  /\ UNCHANGED step

begin ==
  /\ goal' = PowerOn
  /\ step' = PowerOn
  /\ servo' = PowerOn
  /\ moving' = FALSE

\* Mutated form of clamp: the upper test is missing.
clamp_low_only(m, v) == IF v < SafeLow[m] THEN SafeLow[m] ELSE v

clamp(m, v) ==
  IF v < SafeLow[m] THEN SafeLow[m] ELSE IF v > SafeHigh[m] THEN SafeHigh[m] ELSE v

\* Mutated form of ServoMovement: each servo follows its own parameter.
ServoMovement_uncrossed(v) ==
  /\ ~moving
  /\ goal' = [s \in Motor |-> clamp(s, v[s])]
  /\ moving' = TRUE
  /\ UNCHANGED <<step, servo>>

\* ServoMovement up to its loop.
ServoMovement(v) ==
  /\ ~moving
  /\ goal' = [s \in Motor |-> clamp(Drive[s], v[Drive[s]])]
  /\ moving' = TRUE
  /\ UNCHANGED <<step, servo>>

\* Mutated forms of Toward: the branch down is missing; no soft stepping.
Toward_up_only(x, g) == IF g > x THEN x + 1 ELSE x
Toward_at_once(x, g) == g

\* One degree from x towards g.
Toward(x, g) == IF g > x THEN x + 1 ELSE IF g < x THEN x - 1 ELSE x

(***************************************************************************)
(* Mutated forms of Pass: the write is in the branch up only; one joint at *)
(* its goal ends the loop.                                                 *)
(***************************************************************************)
Pass_writes_up ==
  /\ moving
  /\ servo' = [s \in Motor |-> IF goal[s] > step[s] THEN step[s] ELSE servo[s]]
  /\ step' = [s \in Motor |-> Toward(step[s], goal[s])]
  /\ moving' = (step' # goal)
  /\ UNCHANGED goal

Pass_any_joint ==
  /\ moving
  /\ servo' = [s \in Motor |-> IF goal[s] # step[s] THEN step[s] ELSE servo[s]]
  /\ step' = [s \in Motor |-> Toward(step[s], goal[s])]
  /\ moving' = (\A s \in Motor : step'[s] # goal[s])
  /\ UNCHANGED goal

(***************************************************************************)
(* One pass of the loop.  The write comes before the step.                 *)
(***************************************************************************)
Pass ==
  /\ moving
  /\ servo' = [s \in Motor |-> IF goal[s] # step[s] THEN step[s] ELSE servo[s]]
  /\ step' = [s \in Motor |-> Toward(step[s], goal[s])]
  /\ moving' = (step' # goal)
  /\ UNCHANGED goal

Init == AfterBegin

Next ==
  \/ begin                                \* the board restarts
  \/ \E v \in Calls : ServoMovement(v)
  \/ Pass

\* The loop is the only code running once it is entered.
Spec == Init /\ [][Next]_vars /\ WF_vars(Pass)

-----------------------------------------------------------------------------
TypeOK ==
  /\ goal \in [Motor -> Int]
  /\ step \in [Motor -> Int]
  /\ servo \in [Motor -> Int]
  /\ moving \in BOOLEAN

Abs(x) == IF x < 0 THEN -x ELSE x

InSafeRange(p) == \A s \in Motor : SafeLow[Drive[s]] <= p[s] /\ p[s] <= SafeHigh[Drive[s]]

\* "Check values, to avoid dangerous positions": whatever the arguments of
\* any sequence of calls and restarts, no degree written to a servo, and no
\* degree remembered for a later call, is outside the safe range.
SafePositions == InSafeRange(servo) /\ InSafeRange(step)

\* What is remembered never drifts from what was written by more than one
\* degree, however many calls follow one another from either direction.
ServoLag == \A s \in Motor : Abs(servo[s] - step[s]) <= 1

\* The loop leaves the remembered degrees at the clipped target, which is
\* what makes the next call start where this one stopped.
StopsAtGoal == ~moving => step = goal

\* No servo is ever told to move by more than a degree at a time, across the
\* boundary of two calls included; only a restart makes the arm jump.
OneDegree ==
  [][begin \/ \A s \in Motor : Abs(servo'[s] - servo[s]) <= 1]_vars

\* Every call returns.
Termination == moving ~> ~moving

\* The comment above the loop: it runs until all the motors are in the
\* desired position.  The servos stop one degree short of it.
DesiredPosition == ~moving => servo = goal

=============================================================================
