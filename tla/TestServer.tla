------------------------------ MODULE TestServer ------------------------------
(***************************************************************************)
(* The Flask server that stands in for the arm (server.py) with its RAD    *)
(* class (gaoranger.py): the same requests as the sketch, no arm, and two  *)
(* logs the web page shows.  eventlet runs one handler at a time and none  *)
(* of them yields, so each handler is one action, up to the exception that *)
(* ends it: what was assigned before the exception stays assigned, nothing *)
(* after it is recorded or announced, and the client gets a 500.           *)
(***************************************************************************)
EXTENDS Integers, Sequences

CONSTANTS
  NumMotors, Low, High, Home,   \* LIMITS and init_states, by index in MOTOR
  Junk,                         \* a text int() raises ValueError on
  Requests,                     \* the requests clients may send
  MaxRequests                   \* bound: requests ever handled

Motor == 0 .. NumMotors - 1
Text  == Int \cup {Junk}
Position == {p \in [Motor -> Int] : \A m \in Motor : Low[m] <= p[m] /\ p[m] <= High[m]}

\* What the handlers tell apart of a path.  An entry of a choreography is what
\* split(":") leaves of it; "motor" is an action on one of the six names,
\* "actor" one on any other name but led, "part" a probe of an unknown part.
RequestType ==
  [kind : {"probe", "part", "reset", "clear", "actor"}]
    \cup [kind : {"motor"}, motor : Motor, param : Text]
    \cup [kind : {"led"}, mode : {"on", "off", "toggle", "other"}]
    \cup [kind : {"choreography"}, actions : Seq(Seq(Text)) \ {<<>>}]
    \cup [kind : {"toward"}, angles : Seq(Text) \ {<<>>}]

ASSUME TestServerAssumption ==
  /\ NumMotors \in Nat \ {0} /\ MaxRequests \in Nat
  /\ Low \in [Motor -> Int] /\ High \in [Motor -> Int] /\ Home \in Position
  /\ Requests \subseteq RequestType

VARIABLES
  states,         \* rad.states without its "led"
  led,            \* rad.states["led"]
  actions,        \* rad.actions
  choreography,   \* rad.choreography
  refreshes,      \* "refresh" events broadcast
  answer,         \* how the last request was answered
  handled,        \* requests handled
  unlisted        \* history: moves since the last reset that actions lacks

vars == <<states, led, actions, choreography, refreshes, answer, handled, unlisted>>

-----------------------------------------------------------------------------
(***************************************************************************)
(* RAD.                                                                    *)
(***************************************************************************)
limit_crip(m, v) == IF v < Low[m] THEN Low[m] ELSE IF v > High[m] THEN High[m] ELSE v

act_motor(p, m, v) == [p EXCEPT ![m] = limit_crip(m, p[m] + v)]

act_led(l, mode) == mode = "on" \/ (mode = "toggle" /\ ~l) \/ (mode = "other" /\ l)

\* How many of the entries run before one raises, if those at these places would not.
PassedBy(passing, entries) ==
  CHOOSE n \in 0 .. Len(entries) : 1 .. n \subseteq passing /\ n + 1 \notin passing

\* A list index may be negative: MOTOR[-1] is the gripper.
Actor(i) == IF i < 0 THEN i + NumMotors ELSE i

MoveRuns(entry) ==
  Len(entry) = 2 /\ entry[1] \in -NumMotors .. NumMotors - 1 /\ entry[2] \in Int
AngleRuns(i, angle) == i <= NumMotors /\ angle \in Int

Moved(p, entries) ==
  LET at[n \in 0 .. Len(entries)] ==
        IF n = 0 THEN p ELSE act_motor(at[n - 1], Actor(entries[n][1]), entries[n][2])
  IN  at[Len(entries)]

\* The motors whose angle comes before the one that raises.
Turned(p, angles, n) ==
  [m \in Motor |-> IF m < n THEN limit_crip(m, angles[m + 1]) ELSE p[m]]

-----------------------------------------------------------------------------
(***************************************************************************)
(* The handlers.                                                           *)
(***************************************************************************)
refresh == refreshes' = refreshes + 1

Raise ==
  /\ answer' = "500"
  /\ UNCHANGED <<actions, choreography, refreshes>>

\* init_states.
Initial == states' = Home /\ led' = FALSE /\ unlisted' = FALSE

do_reset ==
  /\ actions' = Append(actions, [inst |-> "reset"])
  /\ refresh
  /\ Initial
  /\ answer' = "states"
  /\ UNCHANGED choreography

\* Mutated form of do_clear: the log of actions is not emptied.
do_clear_keeps_log ==
  /\ Initial
  /\ UNCHANGED actions /\ choreography' = <<>>
  /\ refresh
  /\ answer' = "500"

\* rad.probe() lacks its argument: everything is done, then the handler raises.
do_clear ==
  /\ Initial
  /\ actions' = <<>> /\ choreography' = <<>>
  /\ refresh
  /\ answer' = "500"

\* Mutated form of Record: nothing is broadcast.
Record_silently(entry) ==
  /\ actions' = Append(actions, entry)
  /\ answer' = "ok"
  /\ UNCHANGED <<choreography, refreshes>>

\* What was done is recorded, announced and answered.
Record(entry) ==
  /\ actions' = Append(actions, entry)
  /\ refresh
  /\ answer' = "ok"
  /\ UNCHANGED choreography

do_action_motor(m, param) ==
  \/ /\ param \in Int
     /\ states' = act_motor(states, m, param)
     /\ Record([inst |-> "action", actor |-> m, param |-> param])
     /\ UNCHANGED <<led, unlisted>>
  \/ /\ param \notin Int
     /\ Raise
     /\ UNCHANGED <<states, led, unlisted>>

\* Logged as an action whose actor is led; any parameter is ok.
do_action_led(mode) ==
  /\ led' = act_led(led, mode)
  /\ Record([inst |-> "led", mode |-> mode])
  /\ UNCHANGED <<states, unlisted>>

\* A KeyError, for an actor's name or a part's.
no_such_key ==
  /\ Raise
  /\ UNCHANGED <<states, led, unlisted>>

monitor ==
  /\ answer' = "states"
  /\ UNCHANGED <<states, led, actions, choreography, refreshes, unlisted>>

\* The announced number of entries is not looked at.
do_choreography(entries) ==
  LET n == PassedBy({i \in DOMAIN entries : MoveRuns(entries[i])}, entries)
  IN  /\ states' = Moved(states, SubSeq(entries, 1, n))
      /\ unlisted' = (unlisted \/ n > 0)
      /\ UNCHANGED led
      /\ IF n = Len(entries)
         THEN /\ choreography' = Append(choreography, entries)
              /\ refresh
              /\ answer' = "ok"
              /\ UNCHANGED actions
         ELSE Raise

set_states(angles) ==
  LET n == PassedBy({i \in DOMAIN angles : AngleRuns(i, angles[i])}, angles)
  IN  /\ states' = Turned(states, angles, n)
      /\ UNCHANGED led
      /\ \/ /\ n = Len(angles)
            /\ Record([inst |-> "toward", angles |-> angles])
            /\ UNCHANGED unlisted
         \/ /\ n < Len(angles)
            /\ Raise
            /\ unlisted' = (unlisted \/ n > 0)

Handle(r) ==
  /\ handled < MaxRequests
  /\ handled' = handled + 1
  /\ \/ r.kind = "probe" /\ monitor
     \/ r.kind \in {"part", "actor"} /\ no_such_key
     \/ r.kind = "reset" /\ do_reset
     \/ r.kind = "clear" /\ do_clear
     \/ r.kind = "motor" /\ do_action_motor(r.motor, r.param)
     \/ r.kind = "led" /\ do_action_led(r.mode)
     \/ r.kind = "choreography" /\ do_choreography(r.actions)
     \/ r.kind = "toward" /\ set_states(r.angles)

Init ==
  /\ states = Home /\ led = FALSE
  /\ actions = <<>> /\ choreography = <<>>
  /\ refreshes = 0 /\ answer = "none"
  /\ handled = 0 /\ unlisted = FALSE

Next == \E r \in Requests : Handle(r)

Spec == Init /\ [][Next]_vars

-----------------------------------------------------------------------------
TypeOK ==
  /\ states \in Position /\ led \in BOOLEAN
  /\ \A i \in 1 .. Len(actions) : actions[i].inst \in {"reset", "action", "led", "toward"}
  /\ \A i \in 1 .. Len(choreography) : choreography[i] \in Seq(Seq(Text))
  /\ refreshes \in Nat /\ handled \in 0 .. MaxRequests
  /\ answer \in {"none", "ok", "states", "500"}
  /\ unlisted \in BOOLEAN

\* What an entry of the log says was done to a robot.
Redone(s, e) ==
  CASE e.inst = "reset" -> [at |-> Home, led |-> FALSE]
    [] e.inst = "action" -> [s EXCEPT !.at = act_motor(@, e.actor, e.param)]
    [] e.inst = "led" -> [s EXCEPT !.led = act_led(@, e.mode)]
    [] e.inst = "toward" -> [s EXCEPT !.at = Turned(@, e.angles, Len(e.angles))]

\* Where a robot that starts at home ends when it is given the logged actions.
Replay(log) ==
  LET after[n \in 0 .. Len(log)] ==
        IF n = 0 THEN [at |-> Home, led |-> FALSE] ELSE Redone(after[n - 1], log[n])
  IN  after[Len(log)]

\* The log of actions accounts for the state: replaying it from home leads to
\* where the robot is, unless moves that are not listed there, those of a
\* choreography or of a request that raised, were made since the last reset.
LogReplays == ~unlisted => Replay(actions) = [at |-> states, led |-> led]

\* The web page is told of every change, in the step that makes it, unless the
\* handler raised half way; no client is answered ok for a change untold.
ChangesAnnounced ==
  [][<<states, led, actions, choreography>>' # <<states, led, actions, choreography>>
       => refreshes' > refreshes \/ answer' = "500"]_vars

=============================================================================
