--------------------------- MODULE ArmServerProofs ---------------------------
(***************************************************************************)
(* Proofs about the sketch, for any motors, limits and crossing, any       *)
(* requests, and any number of connections and restarts.                   *)
(*                                                                         *)
(* The sketch only ever hands the driver legal positions, and the driver's *)
(* own limits admit all of these: the driver therefore behaves as one whose*)
(* limits are those of the RAD class, and what BraccioProofs shows of that *)
(* driver holds here.                                                      *)
(***************************************************************************)
EXTENDS ArmServer, GaorangerProofs, SequenceTheorems, TLAPS

Driver == INSTANCE BraccioProofs WITH
  SafeLow <- Low, SafeHigh <- High, Calls <- Position

\* What was handed to the driver last is where the server says the arm is,
\* and the driver only runs while a handler waits for it.
GoalIsCommanded == goal = [s \in Motor |-> states[Drive[s]]]
DriverIsWaitedFor == moving => pc = "move"

ServerInv ==
  /\ TypeOK
  /\ GoalIsCommanded
  /\ DriverIsWaitedFor
  /\ Driver!DriverInv

-----------------------------------------------------------------------------
(***************************************************************************)
(* The driver under the limits of the RAD class.                           *)
(***************************************************************************)

\* The assumptions of module Braccio hold of this instance of it.
LEMMA DriverConstants ==
  /\ Drive \in [Motor -> Motor]
  /\ Low \in [Motor -> Int] /\ High \in [Motor -> Int]
  /\ PowerOn \in [Motor -> Int]
  /\ \A s \in Motor : Low[Drive[s]] <= PowerOn[s] /\ PowerOn[s] <= High[Drive[s]]
  /\ Position \subseteq [Motor -> Int]
  BY LimitsAssumption, ArmAssumption DEF Position

\* For a legal position clipping to either limits changes nothing.
LEMMA LegalCall ==
  ASSUME NEW p \in Position, Arm!ServoMovement(p)
  PROVE  /\ Driver!ServoMovement(p)
         /\ goal' = [s \in Motor |-> p[Drive[s]]]
<1>1. \A m \in Motor : Arm!clamp(m, p[m]) = p[m] /\ Driver!clamp(m, p[m]) = p[m]
  BY LimitsAssumption, ArmAssumption DEF Position, Arm!clamp, Driver!clamp
<1>2. \A s \in Motor : Drive[s] \in Motor
  BY ArmAssumption
<1>3. goal' = [s \in Motor |-> p[Drive[s]]]
  BY <1>1, <1>2 DEF Arm!ServoMovement
<1>4. goal' = [s \in Motor |-> Driver!clamp(Drive[s], p[Drive[s]])]
  BY <1>1, <1>2, <1>3
<1>5. QED BY <1>3, <1>4 DEF Arm!ServoMovement, Driver!ServoMovement

LEMMA SamePass == Arm!Pass => Driver!Pass
  BY DEF Arm!Pass, Driver!Pass, Arm!Toward, Driver!Toward

LEMMA SameBegin == Arm!begin => Driver!begin
  BY DEF Arm!begin, Driver!begin

-----------------------------------------------------------------------------
(***************************************************************************)
(* Every motion the handlers ask for ends at a legal position.             *)
(***************************************************************************)
LEMMA TextNumbers == \A text \in Text : toInt(text) \in Int
  BY ToIntType DEF Text

LEMMA ConnectionFacts ==
  ASSUME NEW c \in Connection
  PROVE  /\ c.id \in 1 .. MaxRequests /\ c.req \in Requests /\ c # NoClient
         /\ c.req.kind = "motor" =>
              c.req.motor \in Motor /\ c.req.param \in Text
         /\ c.req.kind = "choreography" =>
              toInt(c.req.count) \in Nat /\ c.req.actions \in Seq(Entry)
         /\ c.req.kind = "toward" => c.req.angles \in Seq(Text)
<1>1. c.id \in 1 .. MaxRequests /\ c.req \in Requests
  BY DEF Connection
<1>2. c # NoClient
  BY <1>1, BoundsAssumption DEF NoClient
<1>3. c.req \in RequestType
  BY <1>1, RequestsAssumption
<1>4. c.req.kind = "motor" => c.req.motor \in Motor /\ c.req.param \in Text
  BY <1>3 DEF RequestType
<1>5. c.req.kind = "choreography" => c.req.count \in Text /\ c.req.actions \in Seq(Entry)
  BY <1>3 DEF RequestType
<1>6. c.req.kind = "choreography" => toInt(c.req.count) \in Nat
  <2>1. SUFFICES ASSUME c.req.kind = "choreography" PROVE toInt(c.req.count) \in Nat
    OBVIOUS
  <2>2. toInt(c.req.count) \in Int
    BY <1>5, <2>1, TextNumbers
  <2>3. toInt(c.req.count) >= 0
    BY <1>1, <2>1, RequestsAssumption
  <2>4. QED BY <2>2, <2>3
<1>7. c.req.kind = "toward" => c.req.angles \in Seq(Text)
  BY <1>3 DEF RequestType
<1>8. QED BY <1>1, <1>2, <1>4, <1>5, <1>6, <1>7

\* The parts of a container are texts of its kind, the missing ones included.
LEMMA SplitType ==
  ASSUME NEW S, NEW parts \in Seq(S), NEW len \in Nat, NEW missing \in S
  PROVE  StringSplit(parts, len, missing) \in Seq(S)
<1>1. \A i \in 1 .. len : (IF i <= Len(parts) THEN parts[i] ELSE missing) \in S
  BY ElementOfSeq, LenProperties
<1>2. StringSplit(parts, len, missing) \in [1 .. len -> S]
  BY <1>1 DEF StringSplit
<1>3. QED BY <1>2

LEMMA EntryNumbers ==
  ASSUME NEW e \in Entry
  PROVE  MotorOf(e) \in Int /\ ParamOf(e) \in Int
<1>1. e \in Seq(Text) /\ Len(e) \in {1, 2}
  BY DEF Entry
<1>2. /\ Len(e) = 2 => e[1] \in Text
      /\ e[Len(e)] \in Text
  BY <1>1, ElementOfSeq
<1>3. QED BY <1>1, <1>2, TextNumbers DEF MotorOf, ParamOf

\* A position the sketch commands: what each moving action hands to moveMotors.
LEMMA CommandsAreLegal ==
  ASSUME TypeOK, action_motor \/ action_reset \/ toward_node \/ choreo_next
  PROVE  \E p \in Position : moveMotors(p)
<1>1. states \in Position
  BY DEF TypeOK
<1>2. pc # "loop" => client \in Connection
  BY DEF TypeOK
<1>3. CASE action_motor
  <2>1. client \in Connection /\ client.req.kind = "motor"
    BY <1>2, <1>3 DEF action_motor, Handling
  <2>2. client.req.motor \in Motor /\ toInt(client.req.param) \in Int
    BY <2>1, ConnectionFacts, TextNumbers
  <2>3. do_action(states, client.req.motor, toInt(client.req.param)) \in Position
    BY <1>1, <2>2, DoActionLegal, MotorsAssumption DEF Motor
  <2>4. QED BY <1>3, <2>3 DEF action_motor
<1>4. CASE action_reset
  BY <1>4, HomeIsLegal DEF action_reset, reset
<1>5. CASE toward_node
  <2>1. client \in Connection /\ client.req.kind = "toward"
    BY <1>2, <1>5 DEF toward_node, Handling
  <2>2. DEFINE angles == StringSplit(client.req.angles, NumMotors, Junk)
  <2>3. client.req.angles \in Seq(Text) /\ Junk \in Text /\ NumMotors \in Nat
    BY <2>1, ConnectionFacts, MotorsAssumption DEF Text
  <2>4. \A i \in 1 .. NumMotors : angles[i] \in Text
    BY <2>3, ElementOfSeq DEF StringSplit
  <2>5. \A m \in Motor : toInt(angles[m + 1]) \in Int
    <3>1. \A m \in Motor : m + 1 \in 1 .. NumMotors
      BY MotorsAssumption DEF Motor
    <3>2. QED BY <2>4, <3>1, TextNumbers
  <2> HIDE DEF angles
  <2>6. DEFINE v == [m \in Motor |-> toInt(angles[m + 1])]
  <2>7. \A m \in Motor : v[m] \in Int
    BY <2>5
  <2>8. set_states(v) \in Position
    BY <2>7, SetStatesLegal
  <2>9. moveMotors(set_states(v))
    BY <1>5 DEF toward_node, angles
  <2>10. QED BY <2>8, <2>9
<1>6. CASE choreo_next
  <2>1. Head(todo) \in Entry
    BY <1>6, HeadTailProperties DEF choreo_next, TypeOK
  <2>2. do_action(states, MotorOf(Head(todo)), ParamOf(Head(todo))) \in Position
    BY <1>1, <2>1, EntryNumbers, DoActionLegal
  <2>3. QED BY <1>6, <2>2 DEF choreo_next
<1>7. QED BY <1>3, <1>4, <1>5, <1>6

-----------------------------------------------------------------------------
(***************************************************************************)
(* The invariant holds at first and every kind of step keeps it.           *)
(***************************************************************************)

\* The sketch's part of TypeOK.
ServerTypeOK ==
  /\ made \in 0 .. MaxRequests
  /\ inbox \in Seq(Connection)
  /\ client \in Connection \cup {NoClient}
  /\ pc \in {"loop", "process", "move", "stop"}
  /\ (pc = "loop") <=> (client = NoClient)
  /\ todo \in Seq(Entry)
  /\ states \in Position /\ before \in Position
  /\ led \in BOOLEAN
  /\ replies \in [1 .. MaxRequests -> Seq(Outputs)]
  /\ closed \subseteq 1 .. MaxRequests /\ lost \subseteq 1 .. MaxRequests
  /\ restarts \in 0 .. MaxRestarts

LEMMA TypeParts == TypeOK <=> ServerTypeOK /\ Driver!TypeOK
  BY DEF TypeOK, ServerTypeOK, Arm!TypeOK, Driver!TypeOK

LEMMA TypePartsNext == TypeOK' <=> ServerTypeOK' /\ Driver!TypeOK'
  BY DEF TypeOK, ServerTypeOK, Arm!TypeOK, Driver!TypeOK

\* Steps that leave the driver and the commanded position alone.
LEMMA Quiet ==
  ASSUME ServerInv, UNCHANGED <<states, armvars>>, DriverIsWaitedFor', ServerTypeOK'
  PROVE  ServerInv'
<1>1. Driver!DriverInv'
  BY DEF ServerInv, armvars, Driver!DriverInv, Driver!TypeOK, Driver!InSafeRange,
         Driver!SafePositions, Driver!ServoLag, Driver!StopsAtGoal
<1>2. Driver!TypeOK'
  BY <1>1 DEF Driver!DriverInv
<1>3. GoalIsCommanded'
  BY DEF ServerInv, armvars, GoalIsCommanded
<1>4. QED BY <1>1, <1>2, <1>3, TypePartsNext DEF ServerInv

\* A handler starts a movement.
LEMMA Moves ==
  ASSUME ServerInv, NEW p \in Position, pc # "loop", moveMotors(p), todo' \in Seq(Entry)
  PROVE  ServerInv'
<1>1. Driver!ServoMovement(p) /\ goal' = [s \in Motor |-> p[Drive[s]]]
  BY LegalCall DEF moveMotors
<1>2. p \in [Motor -> Int]
  BY DEF Position
<1>3. Driver!DriverInv'
  BY <1>1, <1>2, DriverConstants, Driver!DriverCall DEF ServerInv
<1>4. ServerTypeOK'
  BY TypeParts DEF ServerInv, ServerTypeOK, moveMotors
<1>5. GoalIsCommanded' /\ DriverIsWaitedFor'
  BY <1>1 DEF GoalIsCommanded, DriverIsWaitedFor, moveMotors
<1>6. Driver!TypeOK'
  BY <1>3 DEF Driver!DriverInv
<1>7. QED BY <1>3, <1>4, <1>5, <1>6, TypePartsNext DEF ServerInv

\* A handler prints and returns.
LEMMA Returns ==
  ASSUME ServerInv, pc # "loop", ~moving, NEW outputs \in Seq(Outputs),
         Return(outputs), led' \in BOOLEAN
  PROVE  ServerInv'
<1>1. client \in Connection /\ client.id \in 1 .. MaxRequests
  BY ConnectionFacts, TypeParts DEF ServerInv, ServerTypeOK
<1>2. replies' \in [1 .. MaxRequests -> Seq(Outputs)]
  <2>1. replies \in [1 .. MaxRequests -> Seq(Outputs)]
    BY TypeParts DEF ServerInv, ServerTypeOK
  <2>2. replies[client.id] \o outputs \in Seq(Outputs)
    BY <1>1, <2>1, ConcatProperties
  <2>3. replies' = [replies EXCEPT ![client.id] = replies[client.id] \o outputs]
    BY DEF Return, print
  <2>4. QED BY <1>1, <2>1, <2>2, <2>3
<1>3. ServerTypeOK'
  BY <1>1, <1>2, TypeParts DEF ServerInv, ServerTypeOK, Return
<1>4. DriverIsWaitedFor' /\ UNCHANGED <<states, armvars>>
  BY DEF DriverIsWaitedFor, Return, armvars
<1>5. QED BY <1>3, <1>4, Quiet

LEMMA ServerInit == Init => ServerInv
<1>1. SUFFICES ASSUME Init PROVE ServerInv
  OBVIOUS
<1>2. Driver!AfterBegin
  BY <1>1 DEF Init, Arm!AfterBegin, Driver!AfterBegin
<1>3. Driver!DriverInv
  BY <1>2, DriverConstants, Driver!DriverInit
<1>4. ServerTypeOK
  <2>1. reset \in Position /\ 0 \in 0 .. MaxRequests /\ 0 \in 0 .. MaxRestarts
    BY HomeIsLegal, BoundsAssumption DEF reset
  <2>2. <<>> \in Seq(Connection) /\ <<>> \in Seq(Entry) /\ <<>> \in Seq(Outputs)
    OBVIOUS
  <2>3. replies \in [1 .. MaxRequests -> Seq(Outputs)]
    BY <1>1, <2>2 DEF Init
  <2>4. QED BY <1>1, <2>1, <2>2, <2>3 DEF Init, ServerTypeOK
<1>5. GoalIsCommanded /\ DriverIsWaitedFor
  BY <1>1, ArmAssumption
  DEF Init, reset, Arm!AfterBegin, GoalIsCommanded, DriverIsWaitedFor
<1>6. QED BY <1>3, <1>4, <1>5, TypeParts DEF ServerInv, Driver!DriverInv

LEMMA RestartStep == ASSUME ServerInv, Restart PROVE ServerInv'
<1>1. Driver!begin
  BY SameBegin DEF Restart
<1>2. Driver!DriverInv'
  BY <1>1, DriverConstants, Driver!DriverBegin
<1>3. ServerTypeOK'
  <2>1. ServerTypeOK
    BY TypeParts DEF ServerInv
  <2>2. reset \in Position
    BY HomeIsLegal DEF reset
  <2>3. lost' \subseteq 1 .. MaxRequests
    BY <2>1, BoundsAssumption DEF Restart, ServerTypeOK
  <2>4. restarts' \in 0 .. MaxRestarts
    BY <2>1, BoundsAssumption DEF Restart, ServerTypeOK
  <2>5. <<>> \in Seq(Connection) /\ <<>> \in Seq(Entry)
    OBVIOUS
  <2>6. QED BY <2>1, <2>2, <2>3, <2>4, <2>5 DEF Restart, ServerTypeOK
<1>4. GoalIsCommanded' /\ DriverIsWaitedFor'
  BY ArmAssumption
  DEF Restart, reset, Arm!begin, GoalIsCommanded, DriverIsWaitedFor
<1>5. QED BY <1>2, <1>3, <1>4, TypePartsNext DEF ServerInv, Driver!DriverInv

LEMMA PassStep == ASSUME ServerInv, pass PROVE ServerInv'
<1>1. Driver!Pass
  BY SamePass DEF pass
<1>2. Driver!DriverInv'
  BY <1>1, DriverConstants, Driver!DriverPass DEF ServerInv
<1>3. ServerTypeOK'
  BY TypeParts DEF ServerInv, pass, ServerTypeOK
<1>4. GoalIsCommanded' /\ DriverIsWaitedFor'
  BY DEF ServerInv, pass, Arm!Pass, GoalIsCommanded, DriverIsWaitedFor
<1>5. QED BY <1>2, <1>3, <1>4, TypePartsNext DEF ServerInv, Driver!DriverInv

\* The steps of loop, of the clients and of a choreography's splitting.
LEMMA LoopStep ==
  ASSUME ServerInv,
         \/ \E r \in Requests : Connect(r)
         \/ accept \/ stop \/ idle \/ choreo_node
  PROVE  ServerInv'
<1> USE DEF ServerInv
<1>1. ServerTypeOK
  BY TypeParts
<1>2. CASE \E r \in Requests : Connect(r)
  <2>1. PICK r \in Requests : Connect(r)
    BY <1>2
  <2>2. made' \in 1 .. MaxRequests
    BY <1>1, <2>1, BoundsAssumption DEF ServerTypeOK, Connect
  <2>3. [id |-> made', req |-> r] \in Connection
    BY <2>2 DEF Connection
  <2>4. inbox' \in Seq(Connection)
    BY <1>1, <2>1, <2>3, AppendProperties DEF Connect, ServerTypeOK
  <2>5. ServerTypeOK'
    BY <1>1, <2>1, <2>2, <2>4 DEF Connect, ServerTypeOK
  <2>6. QED BY <2>1, <2>5, Quiet DEF Connect, DriverIsWaitedFor, armvars
<1>3. CASE accept
  <2>1. Head(inbox) \in Connection /\ Tail(inbox) \in Seq(Connection)
    BY <1>1, <1>3, HeadTailProperties DEF accept, ServerTypeOK
  <2>2. Head(inbox) # NoClient
    BY <2>1, ConnectionFacts
  <2>3. ServerTypeOK'
    BY <1>1, <1>3, <2>1, <2>2 DEF accept, ServerTypeOK
  <2>4. QED BY <1>3, <2>3, Quiet DEF accept, DriverIsWaitedFor, armvars
<1>4. CASE stop
  <2>1. client.id \in 1 .. MaxRequests
    BY <1>1, <1>4, ConnectionFacts DEF stop, ServerTypeOK
  <2>2. ServerTypeOK'
    BY <1>1, <1>4, <2>1 DEF stop, ServerTypeOK
  <2>3. QED BY <1>4, <2>2, Quiet DEF stop, DriverIsWaitedFor, armvars
<1>5. CASE idle
  BY <1>1, <1>5, Quiet DEF idle, vars, armvars, DriverIsWaitedFor, ServerTypeOK
<1>6. CASE choreo_node
  <2>1. client \in Connection /\ client.req.kind = "choreography"
    BY <1>1, <1>6 DEF choreo_node, Handling, ServerTypeOK
  <2>2. <<Junk>> \in Entry
    <3>1. <<Junk>> \in Seq(Text) /\ Len(<<Junk>>) = 1
      BY DEF Text
    <3>2. QED BY <3>1 DEF Entry
  <2>3. todo' \in Seq(Entry)
    BY <1>6, <2>1, <2>2, ConnectionFacts, SplitType DEF choreo_node
  <2>4. ServerTypeOK'
    BY <1>1, <1>6, <2>1, <2>3, ConnectionFacts DEF choreo_node, ServerTypeOK, Handling
  <2>5. QED BY <1>6, <2>4, Quiet DEF choreo_node, DriverIsWaitedFor, armvars
<1>7. QED BY <1>2, <1>3, <1>4, <1>5, <1>6

\* The steps of the handlers that print.
LEMMA PrintStep ==
  ASSUME ServerInv, probe_node \/ illegal \/ unknown \/ action_led \/ moved
  PROVE  /\ ServerInv'
         /\ ~moving /\ UNCHANGED <<states, armvars>>
<1>1. ServerTypeOK
  BY TypeParts DEF ServerInv
<1>2. pc # "loop" /\ ~moving
  BY DEF ServerInv, DriverIsWaitedFor, probe_node, illegal, unknown, action_led,
         moved, Handling
<1>3. Ok \in Outputs /\ Error \in Outputs /\ Output(states) \in Outputs
  BY <1>1 DEF Ok, Error, Output, Outputs, ServerTypeOK
<1>4. <<>> \in Seq(Outputs) /\ <<Ok>> \in Seq(Outputs) /\ <<Error>> \in Seq(Outputs)
      /\ <<Ok, Error>> \in Seq(Outputs) /\ <<Output(states)>> \in Seq(Outputs)
  BY <1>3
<1>5. CASE probe_node
  BY <1>1, <1>2, <1>4, <1>5, Returns DEF probe_node, ServerTypeOK, Return, armvars
<1>6. CASE illegal
  BY <1>1, <1>2, <1>4, <1>6, Returns DEF illegal, ServerTypeOK, Return, armvars
<1>7. CASE unknown
  BY <1>1, <1>2, <1>4, <1>7, Returns DEF unknown, ServerTypeOK, Return, armvars
<1>8. CASE action_led
  <2>1. client \in Connection /\ client.req.kind = "led"
    BY <1>1, <1>8 DEF action_led, Handling, ServerTypeOK
  <2>2. client.req.mode \in {"on", "off", "toggle", "other"}
    <3>1. client.req \in RequestType
      BY <2>1, RequestsAssumption DEF Connection
    <3>2. QED BY <2>1, <3>1 DEF RequestType
  <2>3. led' \in BOOLEAN
    BY <1>1, <1>8, <2>2 DEF action_led, ServerTypeOK
  <2>4. PICK outputs \in Seq(Outputs) : Return(outputs)
    BY <1>4, <1>8, <2>2 DEF action_led
  <2>5. QED BY <1>2, <2>3, <2>4, Returns DEF Return, armvars
<1>9. CASE moved
  <2>1. PICK outputs \in Seq(Outputs) : Return(outputs)
    BY <1>4, <1>9 DEF moved
  <2>2. led' \in BOOLEAN
    BY <1>1, <1>9 DEF moved, ServerTypeOK
  <2>3. QED BY <1>2, <2>1, <2>2, Returns DEF Return, armvars
<1>10. QED BY <1>5, <1>6, <1>7, <1>8, <1>9

\* The steps that hand the driver a movement.
LEMMA MoveStep ==
  ASSUME ServerInv, action_motor \/ action_reset \/ toward_node \/ choreo_next
  PROVE  /\ ServerInv'
         /\ replies' = replies
         /\ \E p \in Position : Driver!ServoMovement(p)
<1>1. PICK p \in Position : moveMotors(p)
  BY CommandsAreLegal DEF ServerInv
<1>2. pc # "loop"
  BY DEF action_motor, action_reset, toward_node, choreo_next, Handling
<1>3. todo \in Seq(Entry)
  BY TypeParts DEF ServerInv, ServerTypeOK
<1>4. todo' \in Seq(Entry)
  <2>1. CASE action_motor \/ action_reset \/ toward_node
    BY <1>3, <2>1 DEF action_motor, action_reset, toward_node
  <2>2. CASE choreo_next
    BY <1>3, <2>2, HeadTailProperties DEF choreo_next
  <2>3. QED BY <2>1, <2>2
<1>5. QED BY <1>1, <1>2, <1>4, Moves, LegalCall DEF moveMotors

LEMMA ServerStep == ServerInv /\ [Next]_vars => ServerInv'
<1>1. SUFFICES ASSUME ServerInv, [Next]_vars PROVE ServerInv'
  OBVIOUS
<1>2. CASE (\E r \in Requests : Connect(r)) \/ accept \/ stop \/ idle \/ choreo_node
  BY <1>1, <1>2, LoopStep
<1>3. CASE probe_node \/ illegal \/ unknown \/ action_led \/ moved
  BY <1>1, <1>3, PrintStep
<1>4. CASE action_motor \/ action_reset \/ toward_node \/ choreo_next
  BY <1>1, <1>4, MoveStep
<1>5. CASE pass
  BY <1>1, <1>5, PassStep
<1>6. CASE Restart
  BY <1>1, <1>6, RestartStep
<1>7. CASE UNCHANGED vars
  BY <1>1, <1>7, TypeParts, Quiet
  DEF ServerInv, vars, armvars, DriverIsWaitedFor, ServerTypeOK
<1>8. QED BY <1>1, <1>2, <1>3, <1>4, <1>5, <1>6, <1>7 DEF Next, process

LEMMA ServerCorrect == Spec => []ServerInv
<1>1. QED BY ServerInit, ServerStep, PTL DEF Spec

-----------------------------------------------------------------------------
\* The sketch's variables keep their types: no handler can be given a value
\* that makes it store a position, an entry or a reply of another kind.
THEOREM TypeCorrect == Spec => []TypeOK
<1>1. ServerInv => TypeOK
  BY DEF ServerInv
<1>2. QED BY <1>1, ServerCorrect, PTL

\* No request, overflow or restart takes a servo beyond the limits of RAD.
THEOREM NeverBeyondLimits == Spec => []JointsInLimits
<1>1. ServerInv => JointsInLimits
  BY DEF ServerInv, Driver!DriverInv, Driver!SafePositions, Driver!InSafeRange,
         JointsInLimits
<1>2. QED BY <1>1, ServerCorrect, PTL

\* Where the arm is between two movements.
LEMMA RestPosition ==
  ASSUME ServerInv, ~moving
  PROVE  Remembered(states) /\ StandsAt(states)
<1>1. step = [s \in Motor |-> states[Drive[s]]]
  BY DEF ServerInv, GoalIsCommanded, Driver!DriverInv, Driver!StopsAtGoal
<1>2. \A s \in Motor : Arm!Abs(servo[s] - step[s]) <= 1
  BY DEF ServerInv, Driver!DriverInv, Driver!ServoLag, Driver!Abs, Arm!Abs
<1>3. \A s \in Motor : step[s] = states[Drive[s]]
  BY <1>1
<1>4. QED BY <1>1, <1>2, <1>3 DEF Remembered, StandsAt

\* When no movement runs the driver remembers the position the server would report, and
\* the servos, written before each step is counted, are within a degree of it.
THEOREM AlwaysAtRest == Spec => []AtRest
<1>1. ServerInv => AtRest
  BY RestPosition DEF AtRest
<1>2. QED BY <1>1, ServerCorrect, PTL

\* A body is only printed when the driver has done the movements of its request, with
\* the servos within a degree of the position they led to.
THEOREM AnswersWait == Spec => AnswersAtRest
<1>1. ServerInv /\ [Next]_vars
        => [replies' # replies
              => ~moving /\ Remembered(states') /\ StandsAt(states')]_vars
  <2>1. SUFFICES ASSUME ServerInv, Next, replies' # replies
                 PROVE  ~moving /\ Remembered(states') /\ StandsAt(states')
    OBVIOUS
  <2>2. CASE probe_node \/ illegal \/ unknown \/ action_led \/ moved
    <3>1. ~moving /\ states' = states
      BY <2>1, <2>2, PrintStep
    <3>2. Remembered(states) /\ StandsAt(states)
      BY <2>1, <3>1, RestPosition
    <3>3. servo' = servo /\ step' = step
      BY <2>2 DEF probe_node, illegal, unknown, action_led, moved, Return, armvars
    <3>4. QED BY <3>1, <3>2, <3>3 DEF Remembered, StandsAt
  <2>3. CASE action_motor \/ action_reset \/ toward_node \/ choreo_next
    BY <2>1, <2>3, MoveStep
  <2>4. CASE \/ \E r \in Requests : Connect(r)
             \/ accept \/ stop \/ idle \/ choreo_node \/ pass \/ Restart
    BY <2>1, <2>4 DEF Connect, accept, stop, idle, vars, choreo_node, pass, Restart
  <2>5. QED BY <2>1, <2>2, <2>3, <2>4 DEF Next, process
<1>2. QED BY <1>1, ServerCorrect, PTL DEF Spec, AnswersAtRest

\* Every step of the sketch is a step of a driver limited as RAD is, called
\* with legal positions only, or leaves the driver alone.
LEMMA DriverRefined ==
  ASSUME ServerInv, [Next]_vars
  PROVE  (Restart /\ Driver!begin) \/ [Driver!Run]_(Driver!vars)
<1>1. SUFFICES (Restart /\ Driver!begin) \/ Driver!Run \/ UNCHANGED armvars
  BY DEF armvars, Driver!vars
<1>2. CASE (\E r \in Requests : Connect(r)) \/ accept \/ stop \/ idle \/ choreo_node
  BY <1>2 DEF Connect, accept, stop, idle, vars, choreo_node
<1>3. CASE probe_node \/ illegal \/ unknown \/ action_led \/ moved
  BY <1>3, PrintStep
<1>4. CASE action_motor \/ action_reset \/ toward_node \/ choreo_next
  BY <1>4, MoveStep DEF Driver!Run
<1>5. CASE pass
  BY <1>5, SamePass DEF pass, Driver!Run
<1>6. CASE Restart
  BY <1>6, SameBegin DEF Restart
<1>7. CASE UNCHANGED vars
  BY <1>7 DEF vars
<1>8. QED BY <1>2, <1>3, <1>4, <1>5, <1>6, <1>7 DEF Next, process

\* The sketch uses the driver as module Braccio specifies it, restarts being
\* its begin, with the limits of RAD in the place of the driver's own.
THEOREM UsesDriver == Spec => Driver!Init /\ [][Driver!Next]_(Driver!vars)
<1>1. Init => Driver!Init
  BY DEF Init, Arm!AfterBegin, Driver!Init, Driver!AfterBegin
<1>2. ServerInv /\ [Next]_vars => [Driver!Next]_(Driver!vars)
  BY DriverRefined DEF Driver!Next, Driver!Run
<1>3. QED BY <1>1, <1>2, ServerCorrect, PTL DEF Spec

\* Only a restart makes a joint jump: the sketch starts a movement only when
\* the one before has returned, and the driver continues from where it left.
THEOREM AlwaysSmooth == Spec => Smooth
<1>1. ServerInv /\ [Next]_vars
        => [Restart \/ \A s \in Motor : Arm!Abs(servo'[s] - servo[s]) <= 1]_vars
  <2>1. SUFFICES ASSUME ServerInv, Next, ~Restart
                 PROVE  \A s \in Motor : Arm!Abs(servo'[s] - servo[s]) <= 1
    OBVIOUS
  <2>2. [Driver!Run]_(Driver!vars)
    BY <2>1, DriverRefined
  <2>3. QED BY <2>1, <2>2, DriverConstants, Driver!DegreeStep
            DEF ServerInv, Arm!Abs, Driver!Abs
<1>2. QED BY <1>1, ServerCorrect, PTL DEF Spec, Smooth

-----------------------------------------------------------------------------
(***************************************************************************)
(* The sketch implements the robot of module AtomicArm.  That one serves a *)
(* request in a single step, here the one that prints the body; so the     *)
(* proof carries two facts through the steps before it: no request that is *)
(* waiting or being handled has been answered, nor has another its number; *)
(* and the moves still to do lead from the commanded position to where the *)
(* whole request leads from the position it found.                         *)
(***************************************************************************)
Unanswered ==
  /\ \A n \in made + 1 .. MaxRequests : replies[n] = <<>>
  /\ \A i \in 1 .. Len(inbox) : inbox[i].id <= made /\ replies[inbox[i].id] = <<>>
  /\ \A i, j \in 1 .. Len(inbox) : i # j => inbox[i].id # inbox[j].id
  /\ pc \in {"process", "move"} =>
       /\ client.id <= made /\ replies[client.id] = <<>>
       /\ \A i \in 1 .. Len(inbox) : inbox[i].id # client.id

Entries(es) == [i \in 1 .. Len(es) |-> <<MotorOf(es[i]), ParamOf(es[i])>>]

UnderWay ==
  /\ pc # "move" => todo = <<>>
  /\ pc = "process" => before = states
  /\ pc = "move" =>
       /\ client.req.kind \in {"reset", "motor", "toward", "choreography"}
       /\ Acted(states, Entries(todo)) = Abstract!Effect(before, client.req)

RefinementInv == ServerInv /\ Unanswered /\ UnderWay

\* What the variables of the abstract robot are here.
Waiting == IF pc \in {"process", "move"} THEN <<client>> \o inbox ELSE inbox
Found   == IF pc = "move" THEN before ELSE states
Stands  == IF pc = "move" THEN [s \in Motor |-> before[Drive[s]]] ELSE step

-----------------------------------------------------------------------------
\* The moves of the entries, the one to do next being the first.
LEMMA EntriesType ==
  ASSUME NEW es \in Seq(Entry)
  PROVE  Entries(es) \in Seq(Int \X Int) /\ Len(Entries(es)) = Len(es)
<1>1. \A i \in 1 .. Len(es) : <<MotorOf(es[i]), ParamOf(es[i])>> \in Int \X Int
  BY EntryNumbers, ElementOfSeq
<1>2. Entries(es) \in [1 .. Len(es) -> Int \X Int]
  BY <1>1 DEF Entries
<1>3. Len(es) \in Nat
  OBVIOUS
<1>4. QED BY <1>2, <1>3

LEMMA EntriesHead ==
  ASSUME NEW es \in Seq(Entry), es # <<>>
  PROVE  /\ Entries(es) # <<>>
         /\ Head(Entries(es)) = <<MotorOf(Head(es)), ParamOf(Head(es))>>
         /\ Tail(Entries(es)) = Entries(Tail(es))
<1>1. Len(es) \in Nat \ {0} /\ Tail(es) \in Seq(Entry) /\ Len(Tail(es)) = Len(es) - 1
      /\ \A i \in 1 .. Len(es) - 1 : Tail(es)[i] = es[i + 1]
  OBVIOUS
<1>2. Entries(es) \in Seq(Int \X Int) /\ Len(Entries(es)) = Len(es)
  BY EntriesType
<1>3. Entries(es) # <<>> /\ Head(Entries(es)) = Entries(es)[1] /\ Head(es) = es[1]
  BY <1>1, <1>2
<1>4. Entries(es)[1] = <<MotorOf(es[1]), ParamOf(es[1])>>
  BY <1>1 DEF Entries
<1>5. Entries(Tail(es)) \in Seq(Int \X Int) /\ Len(Entries(Tail(es))) = Len(es) - 1
  BY <1>1, EntriesType
<1>6. Tail(Entries(es)) \in Seq(Int \X Int) /\ Len(Tail(Entries(es))) = Len(es) - 1
      /\ \A i \in 1 .. Len(es) - 1 : Tail(Entries(es))[i] = Entries(es)[i + 1]
  BY <1>1, <1>2
<1>7. \A i \in 1 .. Len(es) - 1 : Entries(es)[i + 1] = Entries(Tail(es))[i]
  BY <1>1 DEF Entries
<1>8. Tail(Entries(es)) = Entries(Tail(es))
  <2> DEFINE s == Tail(Entries(es))
             t == Entries(Tail(es))
  <2>1. s \in Seq(Int \X Int) /\ t \in Seq(Int \X Int) /\ Len(s) = Len(t)
    BY <1>5, <1>6
  <2>2. \A i \in 1 .. Len(s) : s[i] = t[i]
    BY <1>6, <1>7
  <2> HIDE DEF s, t
  <2>3. s = t
    BY <2>1, <2>2, SeqEqual
  <2>4. QED BY <2>3 DEF s, t
<1>9. QED BY <1>3, <1>4, <1>8

LEMMA NoEntries == Entries(<<>>) = <<>>
  BY DEF Entries

\* The operators of RAD are the same in the abstract robot.
LEMMA SameArithmetic ==
  /\ \A p, moves : Abstract!Acted(p, moves) = Acted(p, moves)
  /\ \A p, m, v : Abstract!do_action(p, m, v) = do_action(p, m, v)
  /\ \A m, v : Abstract!clip(m, v) = clip(m, v)
  /\ \A text : Abstract!toInt(text) = toInt(text)
<1>1. \A m, v : Abstract!clip(m, v) = clip(m, v)
  BY DEF Abstract!clip, clip
<1>2. \A p, m, v : Abstract!do_action(p, m, v) = do_action(p, m, v)
  BY DEF Abstract!do_action, do_action, Abstract!clip, clip, Abstract!int16, int16,
         Abstract!Motor, Motor
<1>3. \A text : Abstract!toInt(text) = toInt(text)
  BY DEF Abstract!toInt, toInt, Abstract!int16, int16
<1>4. \A p, moves : Abstract!Acted(p, moves) = Acted(p, moves)
  BY DEF Abstract!Acted, Acted, Abstract!do_action, do_action, Abstract!clip, clip,
         Abstract!int16, int16, Abstract!Motor, Motor
<1>5. QED BY <1>1, <1>2, <1>3, <1>4

\* The entries of a choreography, as they are split off and as the request
\* means them.
LEMMA SplitEntries ==
  ASSUME NEW c \in Connection, c.req.kind = "choreography"
  PROVE  Entries(StringSplit(c.req.actions, toInt(c.req.count), <<Junk>>))
           = Abstract!Moves(c.req)
<1> DEFINE len == toInt(c.req.count)
           parts == c.req.actions
           es == StringSplit(parts, len, <<Junk>>)
           Meant(i) == IF i > Len(parts) THEN <<0, 0>>
                       ELSE IF Len(parts[i]) = 1 THEN <<0, toInt(parts[i][1])>>
                       ELSE <<toInt(parts[i][1]), toInt(parts[i][2])>>
<1>1. len \in Nat /\ parts \in Seq(Entry)
  BY ConnectionFacts
<1>2. Abstract!Moves(c.req) = [i \in 1 .. len |-> Meant(i)]
  BY SameArithmetic DEF Abstract!Moves
<1>3. ASSUME NEW i \in 1 .. len
      PROVE  <<MotorOf(es[i]), ParamOf(es[i])>> = Meant(i)
  <2>1. es[i] = IF i <= Len(parts) THEN parts[i] ELSE <<Junk>>
    BY DEF StringSplit
  <2>2. CASE i <= Len(parts)
    <3>1. parts[i] \in Entry /\ es[i] = parts[i] /\ ~ (i > Len(parts))
      BY <1>1, <2>1, <2>2, ElementOfSeq
    <3>2. Len(parts[i]) = 1 \/ Len(parts[i]) = 2
      BY <3>1 DEF Entry
    <3> HIDE DEF es
    <3>3. CASE Len(parts[i]) = 1
      <4>1. MotorOf(parts[i]) = 0 /\ ParamOf(parts[i]) = toInt(parts[i][1])
        BY <3>3 DEF MotorOf, ParamOf
      <4>2. QED BY <3>1, <3>3, <4>1
    <3>4. CASE Len(parts[i]) = 2
      <4>1. MotorOf(parts[i]) = toInt(parts[i][1]) /\ ParamOf(parts[i]) = toInt(parts[i][2])
        BY <3>4 DEF MotorOf, ParamOf
      <4>2. QED BY <3>1, <3>4, <4>1
    <3>5. QED BY <3>2, <3>3, <3>4
  <2>3. CASE ~ (i <= Len(parts))
    <3>1. es[i] = <<Junk>> /\ i > Len(parts)
      BY <1>1, <2>1, <2>3
    <3>2. Len(<<Junk>>) = 1 /\ <<Junk>>[1] = Junk /\ toInt(Junk) = 0
      BY DEF toInt
    <3> DEFINE missing == <<Junk>>
    <3>3. MotorOf(missing) = 0 /\ ParamOf(missing) = 0
      BY <3>2 DEF MotorOf, ParamOf
    <3> HIDE DEF es
    <3>4. QED BY <3>1, <3>3
  <2>4. QED BY <2>2, <2>3
<1>4. Len(es) = len
  BY <1>1 DEF StringSplit
<1>5. Entries(es) = [i \in 1 .. len |-> Meant(i)]
  <2> HIDE DEF Meant, es, len
  <2> QED BY <1>3, <1>4 DEF Entries
<1>6. QED BY <1>2, <1>5

\* Where each kind of request leads.
LEMMA Effects ==
  ASSUME NEW p, NEW c \in Connection
  PROVE  LET r == c.req IN
         /\ r.kind = "reset" => Abstract!Effect(p, r) = Home
         /\ r.kind = "motor" =>
              Abstract!Effect(p, r) = do_action(p, r.motor, toInt(r.param))
         /\ r.kind = "choreography" => Abstract!Effect(p, r) = Acted(p, Abstract!Moves(r))
         /\ r.kind = "toward" =>
              LET angles == StringSplit(r.angles, NumMotors, Junk)
              IN  Abstract!Effect(p, r) = set_states([m \in Motor |-> toInt(angles[m + 1])])
         /\ r.kind \in {"probe", "illegal", "unknown", "led"} => Abstract!Effect(p, r) = p
<1> DEFINE r == c.req
<1>1. ASSUME r.kind = "reset" PROVE Abstract!Effect(p, r) = Home
  BY <1>1 DEF Abstract!Effect
<1>2. ASSUME r.kind = "motor"
      PROVE  Abstract!Effect(p, r) = do_action(p, r.motor, toInt(r.param))
  BY <1>2, SameArithmetic DEF Abstract!Effect
<1>3. ASSUME r.kind = "choreography"
      PROVE  Abstract!Effect(p, r) = Acted(p, Abstract!Moves(r))
  BY <1>3, SameArithmetic DEF Abstract!Effect
<1>4. ASSUME r.kind = "toward"
      PROVE  Abstract!Effect(p, r) =
               set_states([m \in Motor |-> toInt(StringSplit(r.angles, NumMotors, Junk)[m + 1])])
  <2> DEFINE angles == StringSplit(r.angles, NumMotors, Junk)
             v == [m \in Motor |-> toInt(angles[m + 1])]
  <2>1. Abstract!Effect(p, r) =
          [m \in Motor |-> clip(m, IF m < Len(r.angles) THEN toInt(r.angles[m + 1]) ELSE 0)]
    BY <1>4, SameArithmetic DEF Abstract!Effect, Abstract!Motor, Motor
  <2>2. ASSUME NEW m \in Motor
        PROVE  v[m] = IF m < Len(r.angles) THEN toInt(r.angles[m + 1]) ELSE 0
    <3>1. m + 1 \in 1 .. NumMotors /\ Len(r.angles) \in Nat
      BY <1>4, ConnectionFacts, MotorsAssumption DEF Motor
    <3>2. angles[m + 1] = IF m + 1 <= Len(r.angles) THEN r.angles[m + 1] ELSE Junk
      BY <3>1 DEF StringSplit
    <3>3. toInt(Junk) = 0 /\ m \in Int
      BY MotorsAssumption DEF toInt, Motor
    <3> HIDE DEF angles
    <3>4. v[m] = toInt(angles[m + 1])
      OBVIOUS
    <3>5. m < Len(r.angles) <=> m + 1 <= Len(r.angles)
      BY <3>1, <3>3
    <3>6. QED BY <3>2, <3>3, <3>4, <3>5
  <2>3. set_states(v) = [m \in Motor |-> clip(m, v[m])]
    BY DEF set_states
  <2> HIDE DEF v
  <2>4. set_states(v) = Abstract!Effect(p, r)
    BY <2>1, <2>2, <2>3
  <2>5. QED BY <2>4 DEF v
<1>5. ASSUME r.kind \in {"probe", "illegal", "unknown", "led"}
      PROVE  Abstract!Effect(p, r) = p
  BY <1>5 DEF Abstract!Effect
<1>6. QED BY <1>1, <1>2, <1>3, <1>4, <1>5

-----------------------------------------------------------------------------
(***************************************************************************)
(* The two facts are kept by every step.                                   *)
(***************************************************************************)
LEMMA ClientFacts ==
  ASSUME ServerInv
  PROVE  /\ made \in 0 .. MaxRequests /\ inbox \in Seq(Connection)
         /\ pc # "loop" => client \in Connection
         /\ \A i \in 1 .. Len(inbox) :
              inbox[i] \in Connection /\ inbox[i].id \in 1 .. MaxRequests
         /\ todo \in Seq(Entry) /\ states \in Position /\ before \in Position
         /\ replies \in [1 .. MaxRequests -> Seq(Outputs)]
<1>1. ServerTypeOK
  BY TypeParts DEF ServerInv
<1>2. \A i \in 1 .. Len(inbox) : inbox[i] \in Connection
  BY <1>1, ElementOfSeq DEF ServerTypeOK
<1>3. QED BY <1>1, <1>2, ConnectionFacts DEF ServerTypeOK

\* A step that takes in, answers and finishes no request.
LEMMA UnansweredQuiet ==
  ASSUME Unanswered, UNCHANGED <<made, inbox, client, replies>>,
         pc' \in {"process", "move"} => pc \in {"process", "move"}
  PROVE  Unanswered'
  BY DEF Unanswered

LEMMA UnansweredConnect ==
  ASSUME ServerInv, Unanswered, NEW r \in Requests, Connect(r)
  PROVE  Unanswered'
<1>1. /\ made \in Nat /\ made' = made + 1 /\ made' \in 1 .. MaxRequests
      /\ inbox' = Append(inbox, [id |-> made', req |-> r]) /\ inbox \in Seq(Connection)
      /\ UNCHANGED <<client, pc, replies>>
  BY ClientFacts, BoundsAssumption DEF Connect
<1>2. [id |-> made', req |-> r] \in Connection
  BY <1>1 DEF Connection
<1>3. Len(inbox') = Len(inbox) + 1 /\ Len(inbox) \in Nat
  BY <1>1
<1>4. \A i \in 1 .. Len(inbox') :
        inbox'[i] = IF i <= Len(inbox) THEN inbox[i] ELSE [id |-> made', req |-> r]
  BY <1>1, <1>3
<1>5. \A i \in 1 .. Len(inbox) : inbox[i].id \in Int
  BY ClientFacts, BoundsAssumption
<1>6. ASSUME NEW i \in 1 .. Len(inbox')
      PROVE  /\ i \in 1 .. Len(inbox) => inbox'[i].id = inbox[i].id /\ inbox'[i].id <= made
             /\ i \notin 1 .. Len(inbox) => i = Len(inbox) + 1 /\ inbox'[i].id = made'
  BY <1>3, <1>4 DEF Unanswered
<1>7. replies[made'] = <<>>
  BY <1>1 DEF Unanswered
<1>8. \A i \in 1 .. Len(inbox') : inbox'[i].id <= made' /\ replies'[inbox'[i].id] = <<>>
  <2>1. TAKE i \in 1 .. Len(inbox')
  <2>2. CASE i \in 1 .. Len(inbox)
    BY <1>1, <1>5, <1>6, <2>2 DEF Unanswered
  <2>3. CASE i \notin 1 .. Len(inbox)
    BY <1>1, <1>6, <1>7, <2>3
  <2>4. QED BY <2>2, <2>3
<1>9. \A i, j \in 1 .. Len(inbox') : i # j => inbox'[i].id # inbox'[j].id
  <2>1. SUFFICES ASSUME NEW i \in 1 .. Len(inbox'), NEW j \in 1 .. Len(inbox'), i # j
                 PROVE  inbox'[i].id # inbox'[j].id
    OBVIOUS
  <2>2. CASE i \in 1 .. Len(inbox) /\ j \in 1 .. Len(inbox)
    BY <1>6, <2>1, <2>2 DEF Unanswered
  <2>3. CASE i \in 1 .. Len(inbox) /\ j \notin 1 .. Len(inbox)
    BY <1>1, <1>5, <1>6, <2>3
  <2>4. CASE i \notin 1 .. Len(inbox) /\ j \in 1 .. Len(inbox)
    BY <1>1, <1>5, <1>6, <2>4
  <2>5. CASE i \notin 1 .. Len(inbox) /\ j \notin 1 .. Len(inbox)
    BY <1>6, <2>1, <2>5
  <2>6. QED BY <2>2, <2>3, <2>4, <2>5
<1>10. pc' \in {"process", "move"} =>
         /\ client'.id <= made' /\ replies'[client'.id] = <<>>
         /\ \A i \in 1 .. Len(inbox') : inbox'[i].id # client'.id
  <2>1. SUFFICES ASSUME pc \in {"process", "move"}
                 PROVE  /\ client.id <= made' /\ replies[client.id] = <<>>
                        /\ \A i \in 1 .. Len(inbox') : inbox'[i].id # client.id
    BY <1>1
  <2>2. client.id \in Int /\ client.id <= made /\ replies[client.id] = <<>>
    BY <2>1, ClientFacts, ConnectionFacts, BoundsAssumption DEF Unanswered
  <2>3. ASSUME NEW i \in 1 .. Len(inbox') PROVE inbox'[i].id # client.id
    <3>1. CASE i \in 1 .. Len(inbox)
      BY <1>6, <2>1, <3>1 DEF Unanswered
    <3>2. CASE i \notin 1 .. Len(inbox)
      BY <1>1, <1>6, <2>2, <3>2
    <3>3. QED BY <3>1, <3>2
  <2>4. QED BY <1>1, <2>2, <2>3
<1>11. \A n \in made' + 1 .. MaxRequests : replies'[n] = <<>>
  BY <1>1, BoundsAssumption DEF Unanswered
<1>12. QED BY <1>8, <1>9, <1>10, <1>11 DEF Unanswered

LEMMA UnansweredAccept ==
  ASSUME ServerInv, Unanswered, accept
  PROVE  Unanswered'
<1>1. /\ inbox \in Seq(Connection) /\ inbox # <<>> /\ pc' = "process"
      /\ client' = Head(inbox) /\ inbox' = Tail(inbox) /\ UNCHANGED <<made, replies>>
  BY ClientFacts DEF accept
<1>2. /\ Len(inbox) \in Nat \ {0} /\ Len(inbox') = Len(inbox) - 1 /\ client' = inbox[1]
      /\ \A i \in 1 .. Len(inbox') : inbox'[i] = inbox[i + 1]
  BY <1>1
<1>3. 1 \in 1 .. Len(inbox) /\ \A i \in 1 .. Len(inbox') : i + 1 \in 1 .. Len(inbox)
  BY <1>2
<1>4. client'.id <= made' /\ replies'[client'.id] = <<>>
  BY <1>1, <1>2, <1>3 DEF Unanswered
<1>5. ASSUME NEW i \in 1 .. Len(inbox')
      PROVE  /\ inbox'[i].id <= made' /\ replies'[inbox'[i].id] = <<>>
             /\ inbox'[i].id # client'.id
  <2>1. i + 1 # 1 /\ i + 1 \in 1 .. Len(inbox) /\ inbox'[i] = inbox[i + 1]
    BY <1>2, <1>3
  <2>2. QED BY <1>1, <1>2, <1>3, <2>1 DEF Unanswered
<1>6. ASSUME NEW i \in 1 .. Len(inbox'), NEW j \in 1 .. Len(inbox'), i # j
      PROVE  inbox'[i].id # inbox'[j].id
  <2>1. /\ i + 1 \in 1 .. Len(inbox) /\ j + 1 \in 1 .. Len(inbox) /\ i + 1 # j + 1
        /\ inbox'[i] = inbox[i + 1] /\ inbox'[j] = inbox[j + 1]
    BY <1>2, <1>3, <1>6
  <2>2. QED BY <2>1 DEF Unanswered
<1>7. \A n \in made' + 1 .. MaxRequests : replies'[n] = <<>>
  BY <1>1 DEF Unanswered
<1>8. QED BY <1>4, <1>5, <1>6, <1>7 DEF Unanswered

\* The answer goes to the client and to no one else.
LEMMA UnansweredReturn ==
  ASSUME ServerInv, Unanswered, pc \in {"process", "move"}, NEW outputs, Return(outputs)
  PROVE  Unanswered'
<1>1. /\ pc' = "stop" /\ UNCHANGED <<made, inbox, client>>
      /\ replies' = [replies EXCEPT ![client.id] = @ \o outputs]
  BY DEF Return, print
<1>2. made \in Nat /\ client.id \in 1 .. MaxRequests /\ client.id <= made
  BY ClientFacts, ConnectionFacts, BoundsAssumption DEF Unanswered
<1>3. \A n \in 1 .. MaxRequests : n # client.id => replies'[n] = replies[n]
  BY <1>1, ClientFacts
<1>4. \A n \in made' + 1 .. MaxRequests : n \in 1 .. MaxRequests /\ n # client.id
  BY <1>1, <1>2, BoundsAssumption
<1>5. \A n \in made' + 1 .. MaxRequests : replies'[n] = <<>>
  BY <1>1, <1>3, <1>4 DEF Unanswered
<1>6. \A i \in 1 .. Len(inbox') : inbox'[i].id <= made' /\ replies'[inbox'[i].id] = <<>>
  <2>1. TAKE i \in 1 .. Len(inbox')
  <2>2. /\ inbox'[i] = inbox[i] /\ i \in 1 .. Len(inbox)
        /\ inbox[i].id \in 1 .. MaxRequests /\ inbox[i].id # client.id
    BY <1>1, ClientFacts DEF Unanswered
  <2>3. QED BY <1>1, <1>3, <2>2 DEF Unanswered
<1>7. \A i, j \in 1 .. Len(inbox') : i # j => inbox'[i].id # inbox'[j].id
  BY <1>1 DEF Unanswered
<1>8. QED BY <1>1, <1>5, <1>6, <1>7 DEF Unanswered

LEMMA UnansweredRestart ==
  ASSUME ServerInv, Unanswered, Restart
  PROVE  Unanswered'
<1>1. UNCHANGED <<made, replies>> /\ inbox' = <<>> /\ pc' = "loop"
  BY DEF Restart
<1>2. 1 .. Len(inbox') = {}
  BY <1>1
<1>3. QED BY <1>1, <1>2 DEF Unanswered

\* What every step does to the two facts: the requests of a step that prints.
Printing == probe_node \/ illegal \/ unknown \/ action_led \/ moved

LEMMA PrintingReturns ==
  ASSUME Printing
  PROVE  pc \in {"process", "move"} /\ \E outputs : Return(outputs)
  BY DEF Printing, probe_node, illegal, unknown, action_led, moved, Handling

LEMMA UnansweredStep ==
  ASSUME ServerInv, Unanswered, [Next]_vars
  PROVE  Unanswered'
<1>1. CASE \E r \in Requests : Connect(r)
  BY <1>1, UnansweredConnect
<1>2. CASE accept
  BY <1>2, UnansweredAccept
<1>3. CASE Printing
  BY <1>3, PrintingReturns, UnansweredReturn
<1>4. CASE stop
  BY <1>4 DEF stop, Unanswered
<1>5. CASE idle \/ UNCHANGED vars
  BY <1>5, UnansweredQuiet DEF idle, vars
<1>6. CASE action_motor \/ action_reset \/ toward_node \/ choreo_node \/ choreo_next
  BY <1>6, UnansweredQuiet
  DEF action_motor, action_reset, toward_node, choreo_node, choreo_next, moveMotors, Handling
<1>7. CASE pass
  BY <1>7, UnansweredQuiet DEF pass
<1>8. CASE Restart
  BY <1>8, UnansweredRestart
<1>9. QED BY <1>1, <1>2, <1>3, <1>4, <1>5, <1>6, <1>7, <1>8 DEF Next, process, Printing

\* A handler that moves the arm once.
LEMMA UnderWayOnce ==
  ASSUME ServerInv, UnderWay, action_motor \/ action_reset \/ toward_node
  PROVE  UnderWay'
<1>1. pc = "process" /\ todo = <<>> /\ before = states /\ client \in Connection
  BY ClientFacts DEF action_motor, action_reset, toward_node, Handling, UnderWay
<1>2. pc' = "move" /\ todo' = <<>> /\ before' = before /\ client' = client
  BY <1>1 DEF action_motor, action_reset, toward_node, moveMotors
<1>3. /\ client.req.kind \in {"motor", "reset", "toward"}
      /\ states' = Abstract!Effect(states, client.req)
  <2>1. CASE action_motor
    BY <1>1, <2>1, Effects DEF action_motor, Handling, moveMotors
  <2>2. CASE action_reset
    BY <1>1, <2>2, Effects DEF action_reset, Handling, moveMotors, reset
  <2>3. CASE toward_node
    BY <1>1, <2>3, Effects DEF toward_node, Handling, moveMotors
  <2>4. QED BY <2>1, <2>2, <2>3
<1>4. states' \in Position
  <2>1. PICK p \in Position : moveMotors(p)
    BY CommandsAreLegal DEF ServerInv
  <2>2. QED BY <2>1 DEF moveMotors
<1>5. Acted(states', Entries(todo')) = states'
  BY <1>2, <1>4, NoEntries, ActedNone
<1>6. QED BY <1>1, <1>2, <1>3, <1>5 DEF UnderWay

\* A choreography is split off, and then its moves are done one by one.
LEMMA UnderWaySplit ==
  ASSUME ServerInv, UnderWay, choreo_node
  PROVE  UnderWay'
<1>1. pc = "process" /\ before = states /\ client \in Connection
      /\ client.req.kind = "choreography"
  BY ClientFacts DEF choreo_node, Handling, UnderWay
<1>2. /\ pc' = "move" /\ UNCHANGED <<before, client, states>>
      /\ todo' = StringSplit(client.req.actions, toInt(client.req.count), <<Junk>>)
  BY DEF choreo_node
<1>3. Entries(todo') = Abstract!Moves(client.req)
  BY <1>1, <1>2, SplitEntries
<1>4. Acted(states', Entries(todo')) = Abstract!Effect(before', client'.req)
  BY <1>1, <1>2, <1>3, Effects
<1>5. QED BY <1>1, <1>2, <1>4 DEF UnderWay

LEMMA UnderWayNext ==
  ASSUME ServerInv, UnderWay, choreo_next
  PROVE  UnderWay'
<1>1. /\ pc = "move" /\ pc' = "move" /\ UNCHANGED <<before, client>>
      /\ todo # <<>> /\ todo \in Seq(Entry) /\ states \in Position
      /\ states' = do_action(states, MotorOf(Head(todo)), ParamOf(Head(todo)))
      /\ todo' = Tail(todo)
  BY ClientFacts DEF choreo_next, moveMotors
<1>2. /\ Entries(todo) \in Seq(Int \X Int) /\ Entries(todo) # <<>>
      /\ Head(Entries(todo)) = <<MotorOf(Head(todo)), ParamOf(Head(todo))>>
      /\ Tail(Entries(todo)) = Entries(Tail(todo))
  BY <1>1, EntriesType, EntriesHead
<1>3. Acted(states, Entries(todo))
        = Acted(do_action(states, Head(Entries(todo))[1], Head(Entries(todo))[2]),
                Tail(Entries(todo)))
  BY <1>1, <1>2, ActedFirst
<1>4. do_action(states, Head(Entries(todo))[1], Head(Entries(todo))[2]) = states'
  BY <1>1, <1>2
<1>5. Acted(states, Entries(todo)) = Acted(states', Entries(todo'))
  BY <1>1, <1>2, <1>3, <1>4
<1>6. QED BY <1>1, <1>5 DEF UnderWay

LEMMA UnderWayStep ==
  ASSUME ServerInv, UnderWay, [Next]_vars
  PROVE  UnderWay'
<1>1. CASE (\E r \in Requests : Connect(r)) \/ pass \/ idle \/ UNCHANGED vars
  BY <1>1 DEF Connect, pass, idle, vars, UnderWay
<1>2. CASE accept \/ stop \/ Restart
  BY <1>2 DEF accept, stop, Restart, UnderWay
<1>3. CASE Printing
  <2>1. pc' = "stop" /\ todo' = todo /\ (pc = "move" => todo = <<>>)
    BY <1>3 DEF Printing, probe_node, illegal, unknown, action_led, moved, Return, Handling
  <2>2. QED BY <2>1 DEF UnderWay
<1>4. CASE action_motor \/ action_reset \/ toward_node
  BY <1>4, UnderWayOnce
<1>5. CASE choreo_node
  BY <1>5, UnderWaySplit
<1>6. CASE choreo_next
  BY <1>6, UnderWayNext
<1>7. QED BY <1>1, <1>2, <1>3, <1>4, <1>5, <1>6 DEF Next, process, Printing

LEMMA RefinementInit == Init => RefinementInv
<1>1. SUFFICES ASSUME Init PROVE Unanswered /\ UnderWay
  BY ServerInit DEF RefinementInv
<1>2. pc = "loop" /\ todo = <<>> /\ inbox = <<>> /\ made = 0
      /\ replies = [i \in 1 .. MaxRequests |-> <<>>]
  BY <1>1 DEF Init
<1>3. 1 .. Len(inbox) = {}
  BY <1>2
<1>4. QED BY <1>2, <1>3 DEF Unanswered, UnderWay

LEMMA RefinementCorrect == Spec => []RefinementInv
<1>1. RefinementInv /\ [Next]_vars => RefinementInv'
  BY ServerStep, UnansweredStep, UnderWayStep DEF RefinementInv
<1>2. QED BY RefinementInit, <1>1, PTL DEF Spec

-----------------------------------------------------------------------------
(***************************************************************************)
(* Every step is a step of the abstract robot or leaves it alone.          *)
(***************************************************************************)
LEMMA LeavesAlone ==
  ASSUME UNCHANGED <<made, led, replies, restarts>>,
         Waiting' = Waiting, Found' = Found, Stands' = Stands
  PROVE  UNCHANGED Abstract!vars
  BY DEF Abstract!vars, Waiting, Found, Stands

LEMMA IsServed ==
  ASSUME Waiting # <<>>, Waiting' = Tail(Waiting), UNCHANGED <<made, restarts>>,
         Found' = Abstract!Effect(Found, Head(Waiting).req),
         led' = Abstract!Light(led, Head(Waiting).req),
         replies' = [replies EXCEPT ![Head(Waiting).id]
                                    = Abstract!Answer(Found', Head(Waiting).req)],
         Stands' = [s \in Motor |-> Found'[Drive[s]]]
  PROVE  Abstract!Serve
  BY DEF Abstract!Serve, Abstract!StandAt, Abstract!Motor, Motor, Waiting, Found, Stands

\* When no movement runs the driver remembers what the abstract robot's does.
LEMMA StandsStill ==
  ASSUME ServerInv, ~moving
  PROVE  step = [s \in Motor |-> states[Drive[s]]]
  BY DEF ServerInv, GoalIsCommanded, Driver!DriverInv, Driver!StopsAtGoal

LEMMA AbstractInit == Init => Abstract!Init
<1>1. SUFFICES ASSUME Init PROVE Abstract!Init
  OBVIOUS
<1>2. step = [s \in Motor |-> Home[Drive[s]]]
  BY <1>1, ArmAssumption DEF Init, Arm!AfterBegin
<1>3. QED BY <1>1, <1>2 DEF Init, Abstract!Init, reset, Abstract!Motor, Motor

LEMMA AbstractAsk ==
  ASSUME ServerInv, NEW r \in Requests, Connect(r)
  PROVE  Abstract!Ask(r)
<1>1. /\ made < MaxRequests /\ made' = made + 1
      /\ inbox' = Append(inbox, [id |-> made', req |-> r])
      /\ UNCHANGED <<client, pc, states, before, step, led, replies, restarts>>
  BY DEF Connect, armvars
<1>2. Waiting' = Append(Waiting, [id |-> made', req |-> r])
  <2> DEFINE new == [id |-> made', req |-> r]
  <2>1. inbox \in Seq(Connection) /\ (pc # "loop" => client \in Connection)
    BY ClientFacts
  <2>2. new \in Connection
    BY <1>1, ClientFacts, BoundsAssumption DEF Connection
  <2> HIDE DEF new
  <2>3. CASE pc \in {"process", "move"}
    <3>1. <<client>> \in Seq(Connection)
      BY <2>1, <2>3
    <3>2. <<client>> \o Append(inbox, new) = Append(<<client>> \o inbox, new)
      BY <2>1, <2>2, <3>1
    <3>3. QED BY <1>1, <2>3, <3>2 DEF Waiting, new
  <2>4. CASE pc \notin {"process", "move"}
    BY <1>1, <2>4 DEF Waiting, new
  <2>5. QED BY <2>3, <2>4
<1>3. Found' = Found /\ Stands' = Stands
  BY <1>1 DEF Found, Stands
<1>4. QED BY <1>1, <1>2, <1>3 DEF Abstract!Ask, Waiting, Found, Stands

\* The steps between an acceptance and an answer, and the stop after it.
LEMMA AbstractQuiet ==
  ASSUME RefinementInv,
         \/ accept \/ stop \/ idle \/ pass \/ choreo_node \/ choreo_next
         \/ action_motor \/ action_reset \/ toward_node
  PROVE  UNCHANGED Abstract!vars
<1>1. ServerInv /\ UnderWay
  BY DEF RefinementInv
<1>2. CASE accept
  <2>1. /\ pc = "loop" /\ pc' = "process" /\ inbox # <<>> /\ inbox \in Seq(Connection)
        /\ client' = Head(inbox) /\ inbox' = Tail(inbox)
        /\ UNCHANGED <<made, states, led, replies, restarts, step>>
    BY <1>1, <1>2, ClientFacts DEF accept, armvars
  <2>2. <<Head(inbox)>> \o Tail(inbox) = inbox
    BY <2>1
  <2>3. Waiting' = Waiting /\ Found' = Found /\ Stands' = Stands
    BY <2>1, <2>2 DEF Waiting, Found, Stands
  <2>4. QED BY <2>1, <2>3, LeavesAlone
<1>3. CASE stop \/ idle \/ pass
  <2>1. UNCHANGED <<made, inbox, states, before, led, replies, restarts>>
    BY <1>3 DEF stop, idle, pass, vars
  <2>2. Waiting' = Waiting /\ Found' = Found /\ Stands' = Stands
    BY <1>3 DEF stop, idle, pass, vars, armvars, Waiting, Found, Stands
  <2>3. QED BY <2>1, <2>2, LeavesAlone
<1>4. CASE choreo_next
  <2>1. /\ pc = "move" /\ pc' = "move"
        /\ UNCHANGED <<made, inbox, client, before, led, replies, restarts>>
    BY <1>4 DEF choreo_next, moveMotors
  <2>2. Waiting' = Waiting /\ Found' = Found /\ Stands' = Stands
    BY <2>1 DEF Waiting, Found, Stands
  <2>3. QED BY <2>1, <2>2, LeavesAlone
<1>5. CASE choreo_node \/ action_motor \/ action_reset \/ toward_node
  <2>1. /\ pc = "process" /\ pc' = "move"
        /\ UNCHANGED <<made, inbox, client, before, led, replies, restarts>>
    BY <1>5 DEF choreo_node, action_motor, action_reset, toward_node, moveMotors, Handling
  <2>2. before = states /\ step = [s \in Motor |-> states[Drive[s]]]
    BY <1>1, <2>1, StandsStill DEF UnderWay, ServerInv, DriverIsWaitedFor
  <2>3. Waiting' = Waiting /\ Found' = Found /\ Stands' = Stands
    BY <2>1, <2>2 DEF Waiting, Found, Stands
  <2>4. QED BY <2>1, <2>3, LeavesAlone
<1>6. QED BY <1>2, <1>3, <1>4, <1>5

\* What is printed is the abstract robot's answer, and the light is its light.
LEMMA AbstractAnswer ==
  ASSUME ServerInv, UnderWay, Printing
  PROVE  \E outputs \in Seq(Outputs) :
           /\ Return(outputs)
           /\ outputs = Abstract!Answer(states, client.req)
           /\ led' = Abstract!Light(led, client.req)
<1>1. client \in Connection /\ states \in Position
  BY ClientFacts, PrintingReturns
<1> DEFINE ok == [result |-> "ok"]
           error == [result |-> "error"]
<1>0. /\ <<>> \in Seq(Outputs) /\ <<[states |-> states]>> \in Seq(Outputs)
      /\ <<ok>> \in Seq(Outputs) /\ <<error>> \in Seq(Outputs)
      /\ <<ok, error>> \in Seq(Outputs)
  <2>1. ok \in Outputs /\ error \in Outputs /\ [states |-> states] \in Outputs
    BY <1>1 DEF Outputs
  <2>2. QED BY <2>1
<1>2. CASE probe_node
  BY <1>0, <1>2 DEF probe_node, Handling, Output, Abstract!Answer, Abstract!Light
<1>3. CASE illegal
  BY <1>0, <1>3 DEF illegal, Handling, Error, Abstract!Answer, Abstract!Light
<1>4. CASE unknown
  BY <1>0, <1>4 DEF unknown, Handling, Abstract!Answer, Abstract!Light
<1>5. CASE action_led
  <2>1. client.req.kind = "led" /\ client.req.mode \in {"on", "off", "toggle", "other"}
        /\ led \in BOOLEAN
    <3>1. client.req \in RequestType
      BY <1>1, RequestsAssumption DEF Connection
    <3>2. QED BY <1>5, <3>1, TypeParts DEF action_led, Handling, RequestType, ServerInv,
                                          ServerTypeOK
  <2>2. CASE client.req.mode = "on"
    BY <1>0, <1>5, <2>1, <2>2 DEF action_led, Ok, Error, Abstract!Answer, Abstract!Light
  <2>3. CASE client.req.mode = "off"
    BY <1>0, <1>5, <2>1, <2>3 DEF action_led, Ok, Error, Abstract!Answer, Abstract!Light
  <2>4. CASE client.req.mode = "toggle"
    BY <1>0, <1>5, <2>1, <2>4 DEF action_led, Ok, Error, Abstract!Answer, Abstract!Light
  <2>5. CASE client.req.mode = "other"
    BY <1>0, <1>5, <2>1, <2>5 DEF action_led, Ok, Error, Abstract!Answer, Abstract!Light
  <2>6. QED BY <2>1, <2>2, <2>3, <2>4, <2>5
<1>6. CASE moved
  <2>1. client.req.kind \in {"reset", "motor", "toward", "choreography"}
    BY <1>6 DEF moved, UnderWay
  <2>2. led' = Abstract!Light(led, client.req)
    BY <1>6, <2>1 DEF moved, Abstract!Light
  <2>3. (IF client.req.kind = "reset" THEN <<Output(states)>> ELSE <<Ok>>)
          = Abstract!Answer(states, client.req)
    BY <2>1 DEF Output, Ok, Abstract!Answer
  <2>4. (IF client.req.kind = "reset" THEN <<Output(states)>> ELSE <<Ok>>) \in Seq(Outputs)
    BY <1>0 DEF Output, Ok
  <2>5. QED BY <1>6, <2>2, <2>3, <2>4 DEF moved
<1>7. QED BY <1>2, <1>3, <1>4, <1>5, <1>6 DEF Printing

\* When the moves are done, or none are made, the arm is where the request leads.
LEMMA AbstractPosition ==
  ASSUME ServerInv, UnderWay, Printing
  PROVE  states = Abstract!Effect(Found, client.req)
<1>1. client \in Connection /\ states \in Position
  BY ClientFacts, PrintingReturns
<1>2. CASE moved
  <2>1. pc = "move" /\ todo = <<>>
    BY <1>2 DEF moved
  <2>2. Acted(states, Entries(todo)) = states
    BY <1>1, <2>1, NoEntries, ActedNone
  <2>3. QED BY <2>1, <2>2 DEF UnderWay, Found
<1>3. CASE ~moved
  <2>1. pc = "process" /\ client.req.kind \in {"probe", "illegal", "unknown", "led"}
    BY <1>3 DEF Printing, probe_node, illegal, unknown, action_led, Handling
  <2>2. Found = states
    BY <2>1 DEF Found
  <2>3. QED BY <1>1, <2>1, <2>2, Effects
<1>4. QED BY <1>2, <1>3

LEMMA AbstractServe ==
  ASSUME RefinementInv, Printing
  PROVE  Abstract!Serve
<1>1. ServerInv /\ UnderWay /\ Unanswered /\ pc \in {"process", "move"}
  BY PrintingReturns DEF RefinementInv
<1>2. client \in Connection /\ client.id \in 1 .. MaxRequests /\ inbox \in Seq(Connection)
      /\ replies \in [1 .. MaxRequests -> Seq(Outputs)]
  BY <1>1, ClientFacts, ConnectionFacts
<1>3. PICK outputs \in Seq(Outputs) : /\ Return(outputs)
                                     /\ outputs = Abstract!Answer(states, client.req)
                                     /\ led' = Abstract!Light(led, client.req)
  BY <1>1, AbstractAnswer
<1>4. /\ pc' = "stop" /\ UNCHANGED <<made, inbox, states, restarts, step>>
      /\ replies' = [replies EXCEPT ![client.id] = @ \o outputs]
  BY <1>3 DEF Return, print, armvars
<1>5. Waiting = <<client>> \o inbox /\ Waiting' = inbox
  BY <1>1, <1>4 DEF Waiting
<1>6. Waiting # <<>> /\ Head(Waiting) = client /\ Tail(Waiting) = inbox
  <2>1. <<client>> \in Seq(Connection) /\ Len(<<client>>) = 1 /\ <<client>>[1] = client
    BY <1>2
  <2> DEFINE all == <<client>> \o inbox
  <2>2. /\ all \in Seq(Connection) /\ Len(all) = Len(inbox) + 1 /\ all[1] = client
        /\ \A i \in 1 .. Len(inbox) : all[i + 1] = inbox[i]
    BY <1>2, <2>1
  <2> HIDE DEF all
  <2>3. all # <<>> /\ Head(all) = client /\ Len(inbox) \in Nat
    BY <1>2, <2>2
  <2>4. Tail(all) \in Seq(Connection) /\ Len(Tail(all)) = Len(inbox)
        /\ \A i \in 1 .. Len(Tail(all)) : Tail(all)[i] = inbox[i]
    BY <2>2, <2>3
  <2>5. Tail(all) = inbox
    BY <1>2, <2>4, SeqEqual
  <2>6. QED BY <1>5, <2>3, <2>5 DEF all
<1>7. Found' = states /\ Stands' = step
  BY <1>4 DEF Found, Stands
<1>8. states = Abstract!Effect(Found, client.req)
  BY <1>1, AbstractPosition
<1>9. step = [s \in Motor |-> states[Drive[s]]]
  BY <1>1, PrintStep, StandsStill DEF Printing
<1>10. replies' = [replies EXCEPT ![client.id] = outputs]
  <2>1. replies[client.id] = <<>>
    BY <1>1 DEF Unanswered
  <2>2. <<>> \o outputs = outputs
    OBVIOUS
  <2>3. QED BY <1>4, <2>1, <2>2
<1>11. QED
  <2>1. Found' = Abstract!Effect(Found, Head(Waiting).req)
    BY <1>6, <1>7, <1>8
  <2>2. led' = Abstract!Light(led, Head(Waiting).req)
    BY <1>3, <1>6
  <2>3. replies' = [replies EXCEPT ![Head(Waiting).id]
                                   = Abstract!Answer(Found', Head(Waiting).req)]
    BY <1>3, <1>6, <1>7, <1>10
  <2>4. Stands' = [s \in Motor |-> Found'[Drive[s]]]
    BY <1>7, <1>9
  <2>5. Waiting' = Tail(Waiting) /\ UNCHANGED <<made, restarts>>
    BY <1>4, <1>5, <1>6
  <2>6. QED BY <1>6, <2>1, <2>2, <2>3, <2>4, <2>5, IsServed

LEMMA AbstractRestart ==
  ASSUME ServerInv, Restart
  PROVE  Abstract!Restart
<1>1. /\ restarts < MaxRestarts /\ restarts' = restarts + 1
      /\ inbox' = <<>> /\ pc' = "loop" /\ states' = Home /\ led' = FALSE
      /\ UNCHANGED <<made, replies>>
  BY DEF Restart, reset
<1>2. step' = [s \in Motor |-> Home[Drive[s]]]
  BY ArmAssumption DEF Restart, Arm!begin
<1>3. Waiting' = <<>> /\ Found' = Home /\ Stands' = [s \in Motor |-> Home[Drive[s]]]
  BY <1>1, <1>2 DEF Waiting, Found, Stands
<1>4. QED BY <1>1, <1>3
          DEF Abstract!Restart, Abstract!StandAt, Abstract!Motor, Motor, Waiting, Found, Stands

\* Clients see the requests served one at a time, in the order they came, each
\* with the whole of its effect and with the answer that tells of it, whatever
\* the requests, their number, the entries of their choreographies and the
\* restarts between: the safety of AtomicArm.  That no request is passed over
\* is its fairness.
THEOREM ServesAtomically == Spec => Abstract!Init /\ [][Abstract!Next]_(Abstract!vars)
<1>1. RefinementInv /\ [Next]_vars => [Abstract!Next]_(Abstract!vars)
  <2>1. SUFFICES ASSUME RefinementInv, [Next]_vars
                 PROVE  Abstract!Next \/ UNCHANGED Abstract!vars
    OBVIOUS
  <2>2. CASE \E r \in Requests : Connect(r)
    BY <2>1, <2>2, AbstractAsk DEF RefinementInv, Abstract!Next
  <2>3. CASE Printing
    BY <2>1, <2>3, AbstractServe DEF Abstract!Next
  <2>4. CASE \/ accept \/ stop \/ idle \/ pass \/ choreo_node \/ choreo_next
             \/ action_motor \/ action_reset \/ toward_node
    BY <2>1, <2>4, AbstractQuiet
  <2>5. CASE Restart
    BY <2>1, <2>5, AbstractRestart DEF RefinementInv, Abstract!Next
  <2>6. CASE UNCHANGED vars
    <3>1. UNCHANGED <<made, inbox, client, pc, states, before, step, led, replies, restarts>>
      BY <2>6 DEF vars, armvars
    <3>2. Waiting' = Waiting /\ Found' = Found /\ Stands' = Stands
      BY <3>1 DEF Waiting, Found, Stands
    <3>3. QED BY <3>1, <3>2, LeavesAlone
  <2>7. QED BY <2>1, <2>2, <2>3, <2>4, <2>5, <2>6 DEF Next, process, Printing
<1>2. QED BY <1>1, AbstractInit, RefinementCorrect, PTL DEF Spec

=============================================================================
