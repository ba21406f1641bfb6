------------------------------ MODULE AtomicArm ------------------------------
(***************************************************************************)
(* What the arm server promises its clients: a robot that serves one       *)
(* request at a time, in the order they came, each as a single step.  The  *)
(* step has the whole effect of the request, the driver takes the arm to be*)
(* at the commanded position before and after it, and the answer tells of  *)
(* that position.  A restart forgets what was asked and returns the arm    *)
(* home.                                                                   *)
(*                                                                         *)
(* There are no passes of a driver, no loop and no connection here:        *)
(* ArmServer is shown to implement this module.                            *)
(***************************************************************************)
EXTENDS Gaoranger

CONSTANTS Drive, Requests, MaxRequests, MaxRestarts

VARIABLES
  made,      \* requests made
  queue,     \* those waiting, oldest first
  pos,       \* the commanded position
  joints,    \* where the driver takes the arm to stand; the servos may be a degree off
  led,
  replies,
  restarts

vars == <<made, queue, pos, joints, led, replies, restarts>>

-----------------------------------------------------------------------------
\* The entries a choreography amounts to: as many as it announces, those
\* that are missing being moves of motor 0 by nothing.
Moves(r) ==
  [i \in 1 .. toInt(r.count) |->
     IF i > Len(r.actions) THEN <<0, 0>>
     ELSE IF Len(r.actions[i]) = 1 THEN <<0, toInt(r.actions[i][1])>>
     ELSE <<toInt(r.actions[i][1]), toInt(r.actions[i][2])>>]

\* The position a request leads to.
Effect(p, r) ==
  CASE r.kind = "reset" -> Home
    [] r.kind = "motor" -> do_action(p, r.motor, toInt(r.param))
    [] r.kind = "choreography" -> Acted(p, Moves(r))
    [] r.kind = "toward" ->
         [m \in Motor |->
            clip(m, IF m < Len(r.angles) THEN toInt(r.angles[m + 1]) ELSE 0)]
    [] OTHER -> p

\* What it does to the light.
Light(l, r) ==
  IF r.kind # "led" \/ r.mode = "other" THEN l
  ELSE r.mode = "on" \/ (r.mode = "toggle" /\ ~l)

\* What is printed when the position is p.
Answer(p, r) ==
  CASE r.kind \in {"probe", "reset"} -> <<[states |-> p]>>
    [] r.kind \in {"motor", "toward", "choreography"} -> <<[result |-> "ok"]>>
    [] r.kind = "illegal" -> <<[result |-> "error"]>>
    [] r.kind = "unknown" -> <<>>
    [] r.kind = "led" /\ r.mode \in {"on", "off"} -> <<[result |-> "ok"]>>
    [] r.kind = "led" /\ r.mode = "other" -> <<[result |-> "error"]>>
    [] r.kind = "led" /\ r.mode = "toggle" ->
         <<[result |-> "ok"], [result |-> "error"]>>

StandAt(p) == joints' = [s \in Motor |-> p[Drive[s]]]

-----------------------------------------------------------------------------
Ask(r) ==
  /\ made < MaxRequests
  /\ made' = made + 1
  /\ queue' = Append(queue, [id |-> made', req |-> r])
  /\ UNCHANGED <<pos, joints, led, replies, restarts>>

Serve ==
  /\ queue # <<>>
  /\ queue' = Tail(queue)
  /\ LET job == Head(queue)
     IN  /\ pos' = Effect(pos, job.req)
         /\ led' = Light(led, job.req)
         /\ replies' = [replies EXCEPT ![job.id] = Answer(pos', job.req)]
  /\ StandAt(pos')
  /\ UNCHANGED <<made, restarts>>

Restart ==
  /\ restarts < MaxRestarts
  /\ restarts' = restarts + 1
  /\ queue' = <<>>
  /\ pos' = Home /\ led' = FALSE
  /\ StandAt(Home)
  /\ UNCHANGED <<made, replies>>

Init ==
  /\ made = 0 /\ queue = <<>> /\ restarts = 0
  /\ pos = Home /\ joints = [s \in Motor |-> Home[Drive[s]]] /\ led = FALSE
  /\ replies = [i \in 1 .. MaxRequests |-> <<>>]

Next == (\E r \in Requests : Ask(r)) \/ Serve \/ Restart

Spec == Init /\ [][Next]_vars /\ WF_vars(Serve)

=============================================================================
