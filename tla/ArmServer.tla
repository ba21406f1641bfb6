------------------------------ MODULE ArmServer ------------------------------
(***************************************************************************)
(* The sketch that runs on the arm's board.  loop accepts one connection   *)
(* at a time, process dispatches on the first node of its path, the handler*)
(* changes the commanded position `states' (module Gaoranger), drives the  *)
(* servos there (module Braccio) and prints a JSON body; then the          *)
(* connection is stopped.  Connections that come in meanwhile wait in the  *)
(* Bridge library's server.  Nothing is stored: when the board restarts the*)
(* connections are gone and everything is as setup leaves it.              *)
(*                                                                         *)
(* A request is what the handlers tell apart of its path: its kind names   *)
(* the branch it ends in.  The header, the same for every request, is left *)
(* out of the replies.                                                     *)
(***************************************************************************)
EXTENDS Gaoranger

CONSTANTS
  Drive, SafeLow, SafeHigh, PowerOn,   \* of the servo driver
  Requests,                            \* the requests clients may send
  MaxRequests,                         \* bound: connections ever made
  MaxRestarts                          \* bound: restarts of the board

Text == Int \cup {Junk}

\* An entry of a choreography is <<motor, angle>>, or <<text>> where the text
\* before the ";" has no ":".
Entry == {e \in Seq(Text) : Len(e) \in {1, 2}}

RequestType ==
  [kind : {"probe", "reset", "illegal", "unknown"}]
    \cup [kind : {"motor"}, motor : Motor, param : Text]
    \cup [kind : {"led"}, mode : {"on", "off", "toggle", "other"}]
    \cup [kind : {"choreography"}, count : Text, actions : Seq(Entry)]
    \cup [kind : {"toward"}, angles : Seq(Text)]

\* A negative count sizes an array on the stack, which C++ gives no meaning.
ASSUME RequestsAssumption ==
  /\ Requests \subseteq RequestType
  /\ \A r \in Requests : r.kind = "choreography" => toInt(r.count) >= 0

\* What the two libraries must agree on.
ASSUME ArmAssumption ==
  /\ Drive \in [Motor -> Motor]
  /\ SafeLow \in [Motor -> Int] /\ SafeHigh \in [Motor -> Int]
  /\ PowerOn = [s \in Motor |-> Home[Drive[s]]]
  /\ \A m \in Motor : SafeLow[m] <= Low[m] /\ High[m] <= SafeHigh[m]

ASSUME BoundsAssumption == MaxRequests \in Nat /\ MaxRestarts \in Nat

VARIABLES
  made,       \* connections made so far: they are numbered in that order
  inbox,      \* connections the Bridge holds, oldest first
  client,     \* the connection process works for
  pc,         \* where loop is
  todo,       \* entries of the choreography still to do
  states,     \* rad.states
  led,        \* the level of LEDPIN
  replies,    \* what was printed to each connection
  closed,     \* connections stopped by loop
  lost,       \* connections a restart cut
  restarts,   \* restarts so far
  before,     \* history: states when the connection was accepted
  goal, step, servo, moving   \* of the servo driver

Arm == INSTANCE Braccio WITH Calls <- Position

armvars == <<goal, step, servo, moving>>
vars == <<made, inbox, client, pc, todo, states, led, replies, closed, lost, restarts,
          before, armvars>>

NoClient == [id |-> 0, req |-> [kind |-> "none"]]

Ok        == [result |-> "ok"]
Error     == [result |-> "error"]
Output(p) == [states |-> p]

-----------------------------------------------------------------------------
(***************************************************************************)
(* Clients and the Bridge.                                                 *)
(***************************************************************************)
Connect(r) ==
  /\ made < MaxRequests
  /\ made' = made + 1
  /\ inbox' = Append(inbox, [id |-> made', req |-> r])
  /\ UNCHANGED <<client, pc, todo, states, led, replies, closed, lost, restarts,
                 before, armvars>>

-----------------------------------------------------------------------------
(***************************************************************************)
(* loop: accept, process, stop.                                            *)
(***************************************************************************)
accept ==
  /\ pc = "loop" /\ inbox # <<>>
  /\ client' = Head(inbox)
  /\ inbox' = Tail(inbox)
  /\ pc' = "process"
  /\ before' = states
  /\ UNCHANGED <<made, todo, states, led, replies, closed, lost, restarts, armvars>>

\* There is no connection: loop waits and comes round again.
idle ==
  /\ pc = "loop" /\ inbox = <<>>
  /\ UNCHANGED vars

stop ==
  /\ pc = "stop"
  /\ closed' = closed \cup {client.id}
  /\ client' = NoClient
  /\ pc' = "loop"
  /\ UNCHANGED <<made, inbox, todo, states, led, replies, lost, restarts, before, armvars>>

print(outputs) ==
  replies' = [replies EXCEPT ![client.id] = @ \o outputs]

\* Handlers that move nothing print and return.
Return(outputs) ==
  /\ print(outputs)
  /\ pc' = "stop"
  /\ UNCHANGED <<made, inbox, client, todo, states, closed, lost, restarts, before, armvars>>

Handling(kind) == pc = "process" /\ client.req.kind = kind

-----------------------------------------------------------------------------
(***************************************************************************)
(* Handlers without motion.                                                *)
(***************************************************************************)
probe_node ==
  /\ Handling("probe")
  /\ Return(<<Output(states)>>)
  /\ UNCHANGED led

\* No node, a wrong part, too many nodes, no such action, no parameters.
illegal ==
  /\ Handling("illegal")
  /\ Return(<<Error>>)
  /\ UNCHANGED led

\* process knows no other node and prints nothing.
unknown ==
  /\ Handling("unknown")
  /\ Return(<<>>)
  /\ UNCHANGED led

\* The toggle branch does not return: the error follows the answer.
action_led ==
  /\ Handling("led")
  /\ LET mode == client.req.mode
     IN  /\ led' = CASE mode = "on" -> TRUE
                     [] mode = "off" -> FALSE
                     [] mode = "toggle" -> ~led
                     [] mode = "other" -> led
         /\ Return(CASE mode \in {"on", "off"} -> <<Ok>>
                     [] mode = "toggle" -> <<Ok, Error>>
                     [] mode = "other" -> <<Error>>)

-----------------------------------------------------------------------------
(***************************************************************************)
(* Handlers that move the arm.  moveMotors hands the new position to the   *)
(* driver and returns when the driver's loop has ended.                    *)
(***************************************************************************)
moveMotors(p) ==
  /\ states' = p
  /\ Arm!ServoMovement(p)
  /\ pc' = "move"
  /\ UNCHANGED <<made, inbox, client, led, replies, closed, lost, restarts, before>>

action_motor ==
  /\ Handling("motor")
  /\ moveMotors(do_action(states, client.req.motor, toInt(client.req.param)))
  /\ UNCHANGED todo

action_reset ==
  /\ Handling("reset")
  /\ moveMotors(reset)
  /\ UNCHANGED todo

toward_node ==
  /\ Handling("toward")
  /\ LET angles == StringSplit(client.req.angles, NumMotors, Junk)
     IN  moveMotors(set_states([m \in Motor |-> toInt(angles[m + 1])]))
  /\ UNCHANGED todo

\* Mutated form of choreo_node: an entry short.
choreo_node_short ==
  /\ Handling("choreography")
  /\ todo' = StringSplit(client.req.actions, toInt(client.req.count) - 1, <<Junk>>)
  /\ pc' = "move"
  /\ UNCHANGED <<made, inbox, client, states, led, replies, closed, lost, restarts,
                 before, armvars>>

\* The entries are all split off before the first of them is done.
choreo_node ==
  /\ Handling("choreography")
  /\ todo' = StringSplit(client.req.actions, toInt(client.req.count), <<Junk>>)
  /\ pc' = "move"
  /\ UNCHANGED <<made, inbox, client, states, led, replies, closed, lost, restarts,
                 before, armvars>>

\* Without a ":" the motor is "$$", whose number is 0, and the text its angle.
MotorOf(entry) == IF Len(entry) = 2 THEN toInt(entry[1]) ELSE 0
ParamOf(entry) == toInt(entry[Len(entry)])

\* Mutated form of choreo_next: the loop's index does not advance.
choreo_next_stuck ==
  /\ pc = "move" /\ ~moving /\ todo # <<>>
  /\ moveMotors(do_action(states, MotorOf(Head(todo)), ParamOf(Head(todo))))
  /\ UNCHANGED todo

choreo_next ==
  /\ pc = "move" /\ ~moving /\ todo # <<>>
  /\ moveMotors(do_action(states, MotorOf(Head(todo)), ParamOf(Head(todo))))
  /\ todo' = Tail(todo)

pass ==
  /\ pc = "move"
  /\ Arm!Pass
  /\ UNCHANGED <<made, inbox, client, pc, todo, states, led, replies, closed, lost,
                 restarts, before>>

\* Mutated form of moved: it prints as soon as the movement is on its way.
moved_early ==
  /\ pc = "move" /\ todo = <<>>
  /\ Return(IF client.req.kind = "reset" THEN <<Output(states)>> ELSE <<Ok>>)
  /\ UNCHANGED led

\* The last movement has returned: the handler prints, reset the new states.
moved ==
  /\ pc = "move" /\ ~moving /\ todo = <<>>
  /\ Return(IF client.req.kind = "reset" THEN <<Output(states)>> ELSE <<Ok>>)
  /\ UNCHANGED led

-----------------------------------------------------------------------------
(***************************************************************************)
(* The board loses power, or its reset button is pressed, at any moment:   *)
(* the constructor of rad and setup run again.                             *)
(***************************************************************************)
Restart ==
  /\ restarts < MaxRestarts
  /\ restarts' = restarts + 1
  /\ lost' = (1 .. made) \ closed
  /\ inbox' = <<>> /\ client' = NoClient
  /\ pc' = "loop" /\ todo' = <<>>
  /\ states' = reset /\ led' = FALSE /\ before' = reset
  /\ Arm!begin
  /\ UNCHANGED <<made, replies, closed>>

Init ==
  /\ made = 0 /\ inbox = <<>> /\ client = NoClient
  /\ pc = "loop" /\ todo = <<>>
  /\ states = reset /\ led = FALSE /\ before = reset
  /\ replies = [i \in 1 .. MaxRequests |-> <<>>]
  /\ closed = {} /\ lost = {} /\ restarts = 0
  /\ Arm!AfterBegin

process ==
  \/ probe_node \/ illegal \/ unknown \/ action_led
  \/ action_motor \/ action_reset \/ toward_node
  \/ choreo_node \/ choreo_next \/ pass \/ moved

Next ==
  \/ \E r \in Requests : Connect(r)
  \/ accept \/ process \/ stop \/ idle
  \/ Restart

\* The board runs loop and nothing else.
Spec == Init /\ [][Next]_vars /\ WF_vars(accept \/ process \/ stop)

-----------------------------------------------------------------------------
(***************************************************************************)
(* The abstract robot in this one: a request is served at the step that    *)
(* prints its body, and until then the commanded position and the joints,  *)
(* as the driver remembers them, are those it found.                       *)
(***************************************************************************)
Abstract == INSTANCE AtomicArm WITH
  queue  <- IF pc \in {"process", "move"} THEN <<client>> \o inbox ELSE inbox,
  pos    <- IF pc = "move" THEN before ELSE states,
  joints <- IF pc = "move" THEN [s \in Motor |-> before[Drive[s]]] ELSE step

\* Clients see the requests served one at a time in the order they came: the
\* moves of a choreography are all done, in order, with nothing in between,
\* an answer tells of the position its request led to, and no request is
\* passed over.
ImplementsAtomicArm == Abstract!Spec

-----------------------------------------------------------------------------
Connection == [id : 1 .. MaxRequests, req : Requests]
Outputs    == [result : {"ok", "error"}] \cup [states : Position]

TypeOK ==
  /\ made \in 0 .. MaxRequests
  /\ inbox \in Seq(Connection)
  /\ client \in Connection \cup {NoClient}
  /\ pc \in {"loop", "process", "move", "stop"}
  /\ (pc = "loop") <=> (client = NoClient)
  /\ todo \in Seq(Entry)
  /\ states \in Position /\ before \in Position
  /\ led \in BOOLEAN
  /\ replies \in [1 .. MaxRequests -> Seq(Outputs)]
  /\ closed \subseteq 1 .. MaxRequests /\ lost \subseteq 1 .. MaxRequests
  /\ restarts \in 0 .. MaxRestarts
  /\ Arm!TypeOK

\* The driver believes the arm to stand where a commanded position says.
Remembered(p) == step = [s \in Motor |-> p[Drive[s]]]

\* The servos do, but for the degree a movement may leave each of them short.
StandsAt(p) == \A s \in Motor : Arm!Abs(servo[s] - p[Drive[s]]) <= 1

\* No servo is ever written a degree outside the limits of the RAD class,
\* whatever numbers come in, overflow and restarts included.
JointsInLimits ==
  \A s \in Motor : Low[Drive[s]] <= servo[s] /\ servo[s] <= High[Drive[s]]

\* Whenever no movement is running, the position the server would report is the one
\* the driver remembers, and the servos are within a degree of it: each pass writes
\* a servo before it counts the step, so one that moved was last written a degree
\* before the end.  The two libraries keep separate copies, and reset literals,
\* clips and crossed wrists must all agree.
AtRest == ~moving => Remembered(states) /\ StandsAt(states)

\* Every byte of a body is printed when the driver has done the movements of the
\* request, with the servos within a degree of the position it led to: no answer
\* overtakes its movement.
AnswersAtRest ==
  [][replies' # replies => ~moving /\ Remembered(states') /\ StandsAt(states')]_vars

\* Only a restart makes a joint jump; within and between the movements of a
\* request, and between requests, the servos go a degree at a time.
Smooth ==
  [][Restart \/ \A s \in Motor : Arm!Abs(servo'[s] - servo[s]) <= 1]_vars

\* Every connection is stopped by the server or cut by a restart.
EveryRequestEnds ==
  \A i \in 1 .. MaxRequests : (i <= made) ~> (i \in closed \cup lost)

=============================================================================
