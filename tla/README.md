# Verification of robot_arm_dance

TLA+ specifications of the software that moves a Tinkerkit Braccio arm: the sketch
on its Arduino Yún with the libraries it uses, down to the remote calls of the Bridge
and the interrupt that pulses the servos; the Flask server that stands in for the arm
and the web page that watches it; and the Android client, with its store of scripts,
its editor and its playback. TLC checks them on small instances; TLAPS proves the most
important results for every value of the constants.

Paths below are relative to `src/`.

## 1. The system

| Part | Where | State | Operations |
|---|---|---|---|
| RAD (Gaoranger library) | `arduino_server/libraries/Gaoranger` | `states`: six commanded angles | `reset`, `probe`, `do_action` (relative, one motor), `set_states` (absolute, all motors); both clip |
| Braccio driver | `arduino_server/hardware/arduino/avr/libraries/Braccio` | `step_*`: six remembered degrees; the servos | `begin`, `ServoMovement` (a blocking loop, one degree of each servo per pass) |
| Servo library (vendored) | `arduino_server/libraries/Servo` | the pulse of each servo, the channel in turn, a 16-bit timer | `attach`, `detach`, `write`, the timer's interrupt |
| Sketch | `arduino_server/project/sketch_jun09b` | `rad`, the LED pin, the connection in hand | `setup`, `loop`; handlers `probe`, `action/<motor>/<n>`, `action/led/<mode>`, `action/reset`, `choreography/<count>/<m>:<n>;...`, `toward/<a0>;...;<a5>;` |
| Bridge: remote calls (vendored) | `arduino_server/libraries/Bridge/src/Bridge.cpp` | `index`, the serial line | `transfer`: a frame, its reply, retries |
| Bridge: server and client (vendored) | `BridgeServer.cpp`, `BridgeClient.cpp` | connections waiting, 64 bytes read ahead | `accept`, print, read, `stop` |
| Test server | `python_server/server.py`, `gaoranger.py` | `states` with `led`, the logs `actions` and `choreography` | the same requests, and `action/clear`, `probe/actions`, `probe/choreography`; a `refresh` broadcast after changes |
| Web page | `python_server/static/js/app.js`, `templates/index.html` | the three texts shown, the socket | asks for the three parts on load, on `refresh`, on its button |
| Android: script screen | `.../uidesign/ScriptContentActivity.java` | the script's list of relative actions, the selected one, the arm/test toggle | add, edit, delete; play: `action/reset`, then a `choreography` |
| Android: action screen | `ActionActivity.java` | the accumulated position, the motor in hand, the slider | preview with `toward`, confirm or cancel |
| Android: list adapter | `BehaviorAdapter.java` | a list of the views of the items | bind, select, remove, focus |
| Android: script store | `Action*.java`, `MainActivity.java`, `ScriptAddActivity.java` | the Room table of scripts, the list shown | insert, update, delete as asynchronous tasks; filled when found empty |
| Android: requests | `GAORequest.java` | none | sends to the arm or to the test server, by the toggle |
| Prototype client | `android_client_test` | as the Android client | superseded by it |
| Arduino IDE | the rest of `arduino_server` | | vendored distribution |

How they interact. A phone or a browser sends HTTP GET requests. On the arm, the
Linux side of the board queues connections; `loop` takes one at a time through remote
calls over a serial line, the handler changes `rad.states`, calls
`Braccio.ServoMovement`, which blocks for as long as the arm moves, and prints a JSON
body. The two libraries keep separate copies of where the arm is; the driver writes
pulse lengths that an interrupt of the Servo library reads. The test server handles
one request at a time (gunicorn with a single eventlet worker, `Procfile`; no handler
yields), logs it and broadcasts `refresh` to the pages' sockets; the pages then ask for
its state with requests of their own. On a phone, the user interface, the callbacks of
the HTTP client, the tasks that write the database and Room's own queries run on
threads of their own.

What is hard, and what must hold:

- *RAD*: int overflow before the clip, four copies of the limits. Every angle stays
  within the limits whatever number comes in.
- *Driver*: crossed wrists, a write before the step, memory carried from call to
  call, an exit test over six joints. Never outside the safe range; never a jump;
  no drift; every call returns.
- *Servo library*: an interrupt beside the sketch, words of two bytes, a timer that
  comes around, interrupts that are late. Every pulse is one that was asked for and
  ends in time; no interrupt is missed.
- *Sketch*: counts that disagree with the entries sent, missing delimiters, answers
  against movements, connections that come in while the arm moves, restarts at any
  moment. To its clients it is an arm that serves one request at a time as one step.
- *Remote calls*: frames that are late, lost or damaged, retries, an index of one
  byte. A call is executed at most once and returns the answer to itself.
- *Test server*: exceptions half way through a handler. Its state, its logs and what
  it announces agree.
- *Web page*: broadcasts, requests and answers in any order, a socket that connects
  late or is lost. It comes to show what the server holds.
- *Playback*: several phones, a toggle read twice, calls that time out or overtake one
  another. A script played undisturbed ends where its moves lead.
- *Script and action screens*: lists kept in parallel, screens created again, clips
  here and none there. What is previewed is what is played, what is confirmed is what
  is stored.
- *List adapter*: views recycled and fading. A button works on the row tapped.
- *Store*: tasks in memory, a list that is behind, an end of the process at any
  moment. Changes reach the disk in order, and the list comes to show them.

`PROJECT.json` lists each of these hazards at its line with the properties about it.

## 2. Modules

| Module | Models |
|---|---|
| `Gaoranger` | the arithmetic of RAD: `clip`, `do_action`, `set_states`, `reset`, the moves of a choreography one after another (`Acted`), the conversions `toInt`, `int16` and `StringSplit`; no variables |
| `Braccio` | the driver: `begin`, `ServoMovement` (arguments clipped, loop entered), `Pass` (one pass of the loop) |
| `ServoTimer` | the Servo library on one timer of an AVR: the interrupt and the sketch's calls |
| `ArmServer` | the sketch: extends `Gaoranger`, runs an instance `Arm` of `Braccio` on its own variables |
| `AtomicArm` | what the arm promises: each request is one step; refined by `ArmServer`, used by `Playback` |
| `SerialBridge` | `BridgeClass::transfer` over its serial line, with the Linux side |
| `RemoteCall` | what the Bridge promises the sketch; refined by `SerialBridge` |
| `TestServer` | the Flask server and its RAD class |
| `Dashboard` | the web page, with an instance `Server` of `TestServer` |
| `ScriptEditor` | the Android client's script screen and action screen |
| `ScriptRows` | the adapter of the script screen and the recycler's views |
| `Playback` | phones that play and preview, the two servers, the network |
| `ScriptStore` | the Room table, its tasks, the list of scripts and the screens over it |
| `WriteBehind` | what the store promises; refined by `ScriptStore` |
| `*Proofs` | theorems about `Gaoranger`, `Braccio`, `ServoTimer`, `ArmServer`, `SerialBridge`, `ScriptEditor`, `Playback`; those of `ScriptRows`, `TestServer`, `Dashboard` and `ScriptStore` are in `ScreensProofs` |
| `MC*` | constants of the runs |

### Gaoranger
Motors are numbered as the `switch` in `RAD::do_action` numbers them. `clip` is the
pair of tests after every new angle, `do_action` and `set_states` the two methods,
`Acted` the positions that the loop of a choreography goes through, as a recursive
function, and `Home` the literals of `RAD::reset`. `String.toInt` returns a long which becomes an
`int` argument, and `states.base + param` is an int sum: `int16` wraps both to the
board's width (`IntHalf` is 32768 on an AVR). The sum's overflow has no meaning in
C++; on this build the addition compiles to the machine's, which wraps, and the
model takes that. A negative announced number of entries, which would size an array
on the stack, has no outcome to model: `RequestsAssumption` excludes it.

### Braccio
`goal`, `step` and `servo` are functions on the servos: the clipped argument each
servo follows, its `step_` variable, and the last degree written to it. `Drive`
states the crossing in the body of `ServoMovement`: the servo of the vertical wrist
follows the parameter of the rotating one and the other way round. `Pass` is the
body of the loop: each servo not at its goal is written the *remembered* degree,
then what is remembered moves one degree on; the loop ends when all have arrived.
Delays and the soft start, which only take time, are left out. Before `setup` calls
`begin` the servos are not attached, so the state starts after it.

### ServoTimer
Time goes from one interrupt to the next: `TCNT` is what the timer was at when it was
last set or an interrupt came, `OCR` the compare register, `Due` the ticks between
them around the timer's 16 bits. `handle_interrupts` ends the pulse of `Channel`,
begins the next channel's or waits for the end of the refresh interval, and comes when
the timer reaches the register or up to `Latency` ticks later. `attach`, `detach` and
`write` come at any time between; the moment matters only where `initISR` sets the
timer to zero, and there both ends of the interval are taken. `high`, `age`, `pulse`
and `since` say what the pins do; `cut` are the pins left high by a `detach` in a pulse.
`TimerAssumption` says that the pulses of all servos fit in 16 bits, which they do for
the six of the arm with interrupts up to 2.6 ms late, for twelve with 0.3 ms, and for
two with 9 ms.

### ArmServer
`pc` is where `loop` is: `loop` (between connections), `process` (dispatching),
`move` (a handler inside `moveMotors` or between two of them) and `stop`.

| Action | Code |
|---|---|
| `Connect` | a client; the Bridge queues it |
| `accept`, `idle`, `stop` | `loop` |
| `probe_node`, `illegal`, `unknown`, `action_led` | handlers that print and return |
| `action_motor`, `action_reset`, `toward_node` | handlers that call `moveMotors` once; they wait in `move` |
| `choreo_node`, `choreo_next` | the split of all entries, and one turn of the loop over them |
| `pass` | a pass of the driver's loop |
| `moved` | the last `ServoMovement` has returned: the handler prints |
| `Restart` | power or reset button: the constructor of `rad` and `setup` run again |

A request is a record of what its handler tells apart. `illegal` stands for every
path answered by an error with nothing done (no node, wrong part, too many nodes,
no such action, missing parameters), `unknown` for a node `process` does not know,
which gets an empty body. Handlers that move nothing are one step: the sketch runs
nothing else meanwhile and no client can observe their middle.

### AtomicArm
The promise: `Serve` takes the oldest request, applies its whole `Effect`, takes the
arm there and answers. Its `joints` are the degrees the driver remembers, not those of
the servos: a servo that moved was last written a degree earlier (section 6). `AtRest`
and `AnswersAtRest` therefore speak of both, `Remembered`, which is exact, and
`StandsAt`, which says that each servo is within a degree. A choreography is `Acted` over its entries. `ArmServer`
implements it under the mapping `Abstract`: a request is served at the step that
prints its body; until then the commanded position and the joints are those the
request found, which the history variable `before` keeps.

### SerialBridge and RemoteCall
`transfer` begins a call, `Send` puts its frame on the line, and the wait for a reply
ends in `Received` (one with the right index and CRC), `Rejected` (a damaged one, one
too long for the buffer, one of an earlier try or call) or `TimedOut`; the last two
drop what has arrived and try again, until `MaxRetries`. A reply that is late stays on
the line: `Retry` drops any part of it, since more may arrive while `dropAll` reads.
`up` and `down` are the line, `Lose` loses or damages what is on it, `Execute` is the
Linux side. That side is not in the repository: that it executes a frame whose index
is new and repeats its answer to one that is not is what the retries in `transfer`
take for granted, and is marked so. The index comes around after `IndexSize` calls.

`RemoteCall` is the promise: calls one at a time, each executed at most once and in
order, each returning the answer to itself or giving up. After one has given up, the
next may be taken for its repetition, and gets its answer: the promise says so too, as
that is what the code does.

### TestServer
Each handler is one action, with the point where it raises as a parameter of its
effect: `PassedBy` is the number of entries that run before the one that raises.
What was assigned stays, nothing later is recorded or announced, the client gets a
500. `do_clear` calls `rad.probe()` without its argument, so it always raises, after
everything is done. The logs are modelled entry by entry. An action on the LED is
recorded with actor `led`; the model gives it an `inst` of its own.

### Dashboard
`events` counts broadcasts on their way to the page; `flying` holds, for each part,
the bag of requests on their way, either not yet answered (`Nothing`) or with the
answer the server gave. `probe` answers any of them, `success` delivers any answer:
connections are independent, so both orders are free. `shown` is what is on the
page; `newest` is a history of the latest answer received, and `missed` says that
something changed the page was not told of (its socket was not connected, a handler
raised half way, one of its requests failed). The parts do not interact.

### ScriptEditor
`screen` is the screen in front. The script screen keeps `script`, the selected
`current_pos`, whether its buttons are enabled and the `dialogs` of the delete button
that are shown; `form` is the action screen, its
intent's extras (`action`, `given`, `states`, `pos`) with what it makes of them (the
motor in hand, the value shown, the slider) and `toward`, the position it last sent
to be previewed. A step that leaves the script alone is `Form`; the six branches of
`onClick`, one for each motor's button, are one action with the motor as parameter.

| Action | Code |
|---|---|
| `Open`, `Leave`, `Recreate` | `ScriptContentActivity.onCreate` with the intent, from the list of scripts or by the system |
| `ToDelete`, `Dismiss`, `removeItem`, `removeItem_raises` | the delete button, which only shows a dialog, and the dialog's buttons |
| `onItemClick`, `ToAddAction`, `ToEditAction` | the script screen; `NewForm` is `ActionActivity.onCreate` with `putAccStates` and its first preview |
| `onClick`, `onStopTrackingTouch`, `AddValue`, `MinusValue`, `testAction` | the action screen |
| `RecreateAction`, `Destroy` | the system creates the action screen again, or reclaims the one behind it |
| `Cancel`, `onActivityResult_new`, `onActivityResult_edit`, `onActivityResult_raises` | `AddAction` with the result it comes to on the script screen, which is created first if it was destroyed |

What the system gives back to a screen it creates again is its intent and what its
views save: the slider (a `SeekBar` with an id saves its progress), none of the
fields. So a script screen created again starts from the script it was *opened* with.
A confirmed edit then meets an adapter without views: `focus` raises before the save.
A dialog takes every touch, but for one that was made before it came up: the delete
button can be pressed again and shows another dialog. The first to be confirmed removes
the row and disables the buttons; the second does not look at them and removes the row
that is at `current_pos` by then, or raises when there is none. The add and edit
buttons are pressed once: two action screens, one over the other, are not modelled.
The rows are found at their positions here, and saves reach the database in order;
`ScriptRows` and `ScriptStore` are about how.

The histories say when the properties may be expected to hold: `unsaved`, the list
differs from the store by a delete or by being created again; `strayed`, the form
was created again; `disturbed`, an action was deleted or edited before others, the
slider was confirmed beyond the high limit (its maximum at first is the limit, not
the range), or a save took earlier ones back. These are the circumstances in which
the code really parts from its promise, each at its line under `hazards`; everything
else is in.

### Playback
`calls` are the HTTP calls in the order they were made, each with where it is: on its
way (`flying`), in its server's queue, `served`, or `lost` in a restart of the arm. A
call that is not `open` was answered or given up by its phone, and may still be served
(`onFailure` leaves it on its way). Servers do to a position what `AtomicArm` says;
that they do so is what the run of `ArmServer` shows.

| Action | Code |
|---|---|
| `ToPlay` | the play button: a reset, by the toggle |
| `onResponse`, `onFailure` | the callbacks; that of a reset reads the length of the list |
| `choreographyUrl`, `choreographyUrl_raises` | then, on the same thread, the list itself and the toggle again, with the user in between |
| `Toggle`, `Edit`, `gotoStates` | the user meanwhile; a preview |
| `Deliver`, `Serve`, `Restart` | the network and the servers |

A list that an edit shortens or lengthens while it is walked raises in its iterator:
`choreographyUrl_raises` takes that as possible after any edit, and so is a walk
that sees the new list. The histories `shown`, `edited` and `switched` of a play and
`alone` of a call say what was undisturbed.

### ScriptRows
`laid` is the view of each row and `fading` those of former rows that the recycler has
not taken yet; they can still be tapped, and their tag is what it was. `viewList` is
the adapter's own list, into which each bind inserts. The recycler is external: it
binds the rows that changed in their order, to any views that are neither on the
screen nor fading. What `viewList` has beyond the rows is never read before it has been
pushed further, and is left out. `prompts` are the dialogs of the delete button, as in
`ScriptEditor`; `intent` is the script that the screen was opened with, from which
`Recreate` makes it again. `Raises` is the edit button or a dialog at a position that a
fading row gave, or whose row another dialog removed, and that no row has.
Rows fit on the screen: nothing is scrolled away and bound again elsewhere.

### ScriptStore and WriteBehind
`db` is the table, `tasks` the executor's queue, in the order of the calls that made
them; Android runs them one at a time. `onOpen` is the callback that adds the task
which fills an empty table; that task looks and inserts in two steps. `dirty`, `posted`
and `list` are the way of the list from the table to the screen: Room reads it again
some time after a change, and gives it to the screen while that is in front. `dialogs`
are those of a remove button (two, if it was pressed twice), each with the position its
view has when it is confirmed; `screens` are those opened over the list (a row tapped
twice opens two). `Kill` is the end of the process at any time. A list is laid out as
soon as it is given, and is short enough for a position to keep its view.

A script screen has the version `v` of its script, and the one it was `given` in its
intent. `Recreate` creates the screen in front again, as a rotation does, and its `v` is
`given` again, whatever was saved since; `Ended` does so to all open screens if the
system ended the process, which it restores them from. The tasks that save a script are
given the screen's own `mAction`, not a copy: those that have not run yet when the
screen saves again save the new version too (`Shared`). The histories: `sound` of a
screen says that it is the only one and was created, for the last time, with the script
as it was saved last; `base` of a task are the versions that it was made of.
`MainActivity` is not created again: its list comes from the table, and it keeps none of
its dialogs.

`WriteBehind` is the promise: a table that is changed a row at a time and written
behind. Its variable is the sequence of tables from what is on the disk to what the
user has made of it; the mapping computes it from the table and the tasks. A crash
keeps the first only, so that no change stays without those made before it. A change may
take the place of changes of the same row right before it that are not on the disk yet,
as the shared `mAction` makes it do; no other change is skipped or overtaken.

### Mutated forms
Operators whose comment begins "Mutated form" are plausible wrong versions of the
definition that follows them. No action uses them: they are kept to show that the
properties notice the difference, and `PROJECT.json` says which property each breaks.

## 3. Runs

| Run | Instance | What it shows |
|---|---|---|
| `braccio` | the six motors and all numbers of the code; five postures, two beyond every limit on either side | `SafePositions`, `ServoLag`, `StopsAtGoal`, `OneDegree`, `Termination`, in any sequence of calls and restarts (the state space is finite without a bound) |
| `braccio_desired` | the same | refutes `DesiredPosition`: see section 6 |
| `servo_timer` | 2 servos, 2 angles and all numbers of the code; interrupts in time or 9 ms late | `PulsesWhole`, `NeverMissed`, `PulseAsCommanded`, `Refreshed` (finite without a bound) |
| `arm_server` | 3 motors with ranges of 3 or 4 degrees, 4-bit ints, 13 requests, 3 connections, 1 restart | `TypeOK`, `JointsInLimits`, `AtRest`, `AnswersAtRest`, `Smooth`, `EveryRequestEnds`, and the refinement `ImplementsAtomicArm` |
| `serial_bridge` | an index of two values, 3 retries, 5 calls, one with a reply that does not fit, 3 faults | `TypeOK`, `OwnAnswer`, `CalmReturns`, and the refinement `ImplementsRemoteCall` |
| `test_server` | 3 motors, 17 requests, 4 handled | `LogReplays`, `ChangesAnnounced` |
| `dashboard` | 4 requests, 2 handled, 2 rounds of questions, 1 failure, 2 parts | `TypeOK` (with the server's), `KeptUp`, `CatchesUp` |
| `dashboard_shows` | the same | refutes `ShowsStates` |
| `script_editor` | 2 motors, an empty script or one of 2 actions, up to 3 actions, 2 confirmed changes, 2 dialogs | `TypeOK`, `SelectedInList`, `SliderMatchesValue`, `EditorMatchesArm`, `PlaysAsPreviewed`, `OneChangeAtATime` |
| `script_rows` | 3 rows, 5 views, 5 changes, 2 dialogs | `ViewsMatchRows`, `SelectsTapped` |
| `playback` | 2 phones, 2 motors, 2 scripts, 1 posture, 3 calls, 1 edit or switch, 1 restart | `ScriptPlayed`, `ResetFirst`, `PreviewStands` |
| `script_store` | an empty table or one of 2 scripts, 3 edits, 2 screens, 1 end of the process | `NoSaveLost`, `RemovesPressed`, `ListCatchesUp`, and the refinement `ImplementsWriteBehind` |

Why the bounds are enough.

- *arm_server*: motor 0 has a low limit above 0 (as the shoulder and the gripper),
  motors 1 and 2 are the crossed wrists with home positions that differ, so that a
  wrong crossing shows. One request's parameter overflows the 4-bit int. The
  choreographies announce as many entries as they send, more, and fewer, name a number
  that is no motor, and leave out a `:`; a toward request has too few angles and one
  that is no number. Three connections fill the queue behind a moving arm and leave one
  to find the position the others led to; one restart can come at any pass. The driver's
  limits are one degree wider than RAD's there, so that it cannot make up for a missing
  clip; in the code they are equal, which is a special case the proofs cover.
- *serial_bridge*: with an index of two values the call after the next has the index of
  the first again, which with a byte takes 256 calls. Three tries are one more than it
  takes for the reply of an earlier one to use up the next. Of
  five calls the fourth must give up: three before it use an index again, one after it
  can be taken for it. Three faults make a call give up by themselves.
- *servo_timer*: two servos are a channel before the last and the last. The shortest and
  the longest pulse are written. 9 ms is as late as an interrupt can be for the words of
  two servos to fit; with it the interval is over before the pulses are.
- *test_server*: four requests put a change, a request that raises, another change and
  a reset or clear in every order.
- *dashboard*: two changes and two rounds of questions are what it takes for one answer
  to overtake another, and one failure for something to be missed. The page treats each
  part alike, so two parts, one the server records a request in and one it does not,
  stand for three.
- *script_editor*: one motor has its low limit above 0 and starts at its high limit, as
  the gripper, the other starts at a low limit of 0; ranges of two positions let every
  slider reach beyond the range where the code lets it. Two confirmed changes are an
  edit and an addition, in either order, with any deletes, previews and recreations
  between; three actions leave one behind an edited one. Two dialogs are the delete
button pressed twice, with a row for each or one for both.
- *script_rows*: three rows are one before and one after the row removed; five views are
  enough for two rows to fade while three are on the screen.
- *playback*: three calls are the two of a play with another phone's in any place; a
  second play's reset is one. One of the scripts has a result that depends on where it
  starts, the other has one move more, so that an edit changes the length walked.
- *script_store*: three edits are two saves of one script and a removal, or a removal
  between two; two screens are a row tapped twice; one end of the process can come at
  any moment, and what follows it starts from what was kept, with the screens restored or
not. A screen can be created again any number of times, before, between and after its
saves. A larger table adds rows
  that no edit touches.

Symmetry. Phones in `playback` and views in `script_rows` are interchangeable: no
definition and no property names one. No liveness is checked in those two runs.

Deadlock. `idle` is the turn of `loop` with no connection, so `arm_server` checks for
deadlock, and so do the `braccio` runs, `servo_timer` (the interrupt or a call is always
possible), `script_editor` and `script_rows` (some button always works). In the two
server runs, `playback`, `script_store` and `serial_bridge` the bounds end the
behaviour, so deadlock is not checked there.

Fairness. The board runs `loop` and nothing else, and so it keeps going: weak
fairness of `accept`, `process` and `stop` together (`Pass` alone in `Braccio`), and of
the steps of a `transfer` that has begun in `SerialBridge`; neither the line nor the
Linux side need do anything, the board's clock ends each wait. Clients need not connect, restarts
need not happen. In `Dashboard`, requests that do not fail are answered and their
answers delivered (`Settle`), and a broadcast the connected socket holds is delivered;
the socket need not connect, the button need not be clicked. In `ScriptStore` the
executor runs its tasks, Room opens the database and reads the list again, and the main
thread gives a list to the screen in front; the user need not do anything. `ServoTimer`,
`ScriptEditor`, `ScriptRows` and `Playback` state no fairness and have only safety properties.

Definitions that no run names: `TypeOK` of `Braccio`, `Playback`, `ScriptStore` and
`ScriptRows`, kept as the statement of the variables' types; that of `TestServer` is
part of `Dashboard`'s. `TypeOK` and `OnePulse` of `ServoTimer` and `AtMostOnce` of
`SerialBridge` are proved instead; the refinement of `RemoteCall` implies the last one.

## 4. Proofs

All checked with TLAPS. The parameters are constants with named assumptions, as weak
as the code justifies: limits with the home position between them
(`LimitsAssumption`) that, like the motors' numbers, fit an int (`WidthAssumption`), a driver whose power-on
position is in its range (`DriverAssumption`) and, for the sketch, is RAD's home
through the crossing, with RAD's limits within the driver's (`ArmAssumption`).

- **`BraccioProofs`.** The four safety properties are not inductive one by one. The
  invariant `DriverInv` adds that the goal is in the safe range, and ties the last
  write to what is remembered more closely than by a degree: during the loop a servo
  is behind on the side it came from. Theorems: `AlwaysSafe`, `NeverDrifts`,
  `AlwaysStopsAtGoal`, `DegreeByDegree`, and `PassesCounted`: each pass leaves the
  farthest servo a degree less to go and the loop ends at the last, which is what
  `Termination` says but for the fairness.
- **`GaorangerProofs`.** Lemmas about `int16`, `toInt` and `clip`; `DoActionLegal`
  (any parameter, overflow included, leads from a legal position to a legal one) and
  `DoActionNearest` (without overflow, to the nearest legal angle). `TextAssumption`,
  that a text which is no number is not one, is used by `toInt`. Then what a recursive
  function computes for every input: the natural numbers being well-founded, a set of
  them without a least member is empty, which is an induction that takes a set where the
  library's takes an operator (`SetInduction`). From it, a function that satisfies the
  equations of a recursion exists and is the only one (`RunExists`, `SameRun`), so `Acted`
  satisfies its own, and what the other modules need of it: the moves of a longer
  choreography are those of a shorter one and then the last (`ActedAppend`), they stay
  legal, and equal moves lead to equal places.
- **`ArmServerProofs`.** `ServerInv` is type correctness, the driver's invariant,
  and the fact that joins the two libraries: the driver's goal is always the
  commanded position through the crossing, and no movement runs outside `move`.
  Neither library knows it; it holds as `begin` and `reset` agree, every change
  of `states` is followed by a movement to it, and legal positions pass the driver's
  clip unchanged. With the driver's own invariant, that a servo is within a degree of what
is remembered, it says where the arm stands. From it: `TypeCorrect`, `NeverBeyondLimits`, `AlwaysAtRest`,
  `AnswersWait`, `AlwaysSmooth`, and two refinements. `UsesDriver`: on the driver's
  variables the sketch's behaviours are behaviours of `Braccio`, so it never calls
  `ServoMovement` while the loop runs and only with legal positions.
  `ServesAtomically`: every step is, under `Abstract`, a step of `AtomicArm` or none.
  For that the invariant also says, of a request half served, that the moves still to do
  lead from the commanded position to where its whole `Effect` leads from `before`
  (`UnderWay`), and that no request is answered before it is served (`Unanswered`). The lemma
  `DriverConstants` shows that the sketch's constants meet the driver's assumptions.
- **`SerialBridgeProofs`.** For any size of the index above one, any number of retries,
  calls and faults. The line keeps its order, so the calls of frames on their way never
  go back, from the one the Linux side saw last on, and frames of one call have one
  index (`InOrder`); the last call executed is that of the frame seen last, and every
  reply is to a call that was executed (`LastExecuted`). As long as none has given up,
  all of this is about the call in progress and the one before it only, and the index of
  each tells which (`Recent`): that is why an index of two values would do. That a call
  that nothing failed returns (`CalmReturns`) takes a count of what is on the line: each
  retry of a call leaves at most one reply too many (`FewOwn`), so that between calls
  fewer than `MaxRetries` are left (`FewLeft`), and each retry of the next takes at least
  one of them away, so that they are gone before its last one (`CalmAhead`). Theorems: `TypesCorrect`,
  `ExecutedAtMostOnce`, `AnswersItself`, `CalmCallsReturn`, and `ImplementsCalls`, the
  safety part of the refinement of `RemoteCall`.
- **`ServoTimerProofs`.** For any number of servos and any values written, and
  interrupts as late as the 16 bits allow. That the register stays ahead of the timer is
  not inductive: the invariant bounds it by a pulse and a late interrupt for each channel
  so far (`Ahead`), so it cannot come around between two resets of the timer; a pin that
  is high is the channel's and goes low when its pulse is over (`Pulsing`); `SinceTurn`
  relates the interval to the timer. Theorems: `NoneMissed`, `WholePulses`,
  `AsCommanded`, `RefreshKept`, `OneAtATime`, `TypesCorrect`.
- **`ScriptEditorProofs`.** `EditorInv` says that the list is one of moves of motors,
  that the selected row and the row of an edit are in it while the buttons are enabled
  (a dialog that is left when another was confirmed may be one row too far), and of the form that, if it
  starts from legal positions, the slider's maximum is at least the range of the motor
  in hand and the slider is the value less the low limit: that is why no handler's
  `setProgress` is cut off. `SavedInv` is that an open script without unsaved changes is
  the stored one. What the moves of a script add up to, on the screen without a clip and
  on the arm with one, are two recursive functions that obey the same equations as long
  as nothing is clipped (`AccAppend`, `PlayedAppend`). `StartInv` ties the positions a
  form starts from to the moves before the one in hand, `MatchInv` the sums of the open
  and the stored script to what the arm would do. Theorems: `EditorTypeOK`,
  `EditorSelectedInList`, `EditorSliderMatchesValue`, `EditorOneChangeAtATime`,
  `EditorAddsAsArmPlays` and `EditorPlaysAsPreviewed`. The assumption `EditorAssumption`
  (limits are not negative) is needed: with a negative low limit the high limit would be
  too small a maximum. The last two theorems have the hypothesis `SamplesMatched`, that
  the scripts in the store at first are ones the arm plays as they add up, which is true
  of the one the client fills an empty table with and of those of the run.
- **`PlaybackProofs`.** For any phones, scripts and calls. A call keeps what it asks and
  what was served stays served, so what was shown of the calls of a play when they were
  made stays true. The invariant adds to `ResetFirst` that queues hold the calls that
  wait (`Queued`), that a call marked served is among those its server served
  (`ServedCalls`), that a play has made only its reset until that is answered, to the
  server its toggle named unless it was switched (`Resets`), and that after the answer
  the reset was done (`WasReset`). For `ScriptPlayed` it adds that what the phones have
  are lists of moves (`Lists`), that a play's choreography is its script as shown if
  nobody edited it (`Choreographies`), that a server's record is of calls that were served
  (`ServedOnes`), and that a robot that served a reset last is home (`Landed`). Theorems: `ResetBeforeMoves`,
  `PreviewIsWhereItStands`, `ScriptIsPlayed`. The last has the hypothesis `ScriptsShort`,
  that a script has fewer moves than an int can count; with more, the sketch would read
  another number of entries than were sent.
- **`ScreensProofs`.** What the clients' screens show. *The rows of a script*, for scripts
  of any length and any views: the invariant adds to the two properties that the views of
  rows are different and none of them fades (`Apart`); without it a bind could overwrite
  the tag of another row. Theorems: `RowsAreFound`, `ButtonsHitTheTapped`. *The test
  server and the page over it*, as the instance `Page` of `Dashboard`, with the arm's
  motors and limits: each position a handler makes is legal, and an entry that is recorded
  redoes what was done (`LogInv`), so by the recursion of `Replay` the log leads to the
  state. For the page, there is a time since which the server has not changed: answers of
  that time or later are current (`CurrentSince`), and unless the page missed something
  one of them has come in, is on its way or was asked for (`AskedSince`). Theorems:
  `ChangesAreAnnounced`, `ServerTypesCorrect`, `LogLeadsToState`, `PageKeepsUp` and
  `PageTypesCorrect`. The second and the third have as hypothesis that requests are of the
  kinds of `RequestType` (`ServerConstants`), which `TestServer` assumes; the last adds
  what `Dashboard` assumes of its bounds. It proves the whole of `TypeOK`, for which at
  most as many broadcasts wait as requests were handled, and at most as many requests are
  on their way to a part as the page asked times (`OwnTypes`). The latter counts a bag by
  the set of its elements with their copies told apart (`Copies`): adding one to the bag
  adds one copy, taking one away takes one (`FewAdded`, `FewTaken`), and a request that
  is answered is taken and put back. *The test server in the place of the arm*:
  `ServersAgree` puts the actions of `TestServer` beside what `AtomicArm`, and so the
  sketch, makes of the same request (`Sketch`, `ForSketch`). For a request both know,
  whole and of numbers whose sums fit an int (`Common`, `Fit`), the robot stands where the
  arm does and the client gets the same result; for a choreography that is the recursion
  of `Moved` against that of `Acted`. Where they part is listed in section 6; malformed
  requests and sums that overflow are outside `Common`: there one server raises where the
  other reads a zero or wraps, and nothing is claimed. *The store of scripts*,
  as the instance `Store` of `ScriptStore`, for any tables left by earlier sessions and
  any number of saves, screens, dialogs and ends of the process (`StoreConstants` is what
  the module assumes). The lemmas say what tasks make of a table (`AfterRun`, and
  `UniqueAfter`: running the oldest task or adding one leaves the tables between as they
  were) and that a query reads the rows in the order of their ids. `SavesInv` adds to
  `NoSaveLost` that a screen created with the script as last saved is the only one, and
  has what the tasks will have made of it (`SoundScreens`): without it the next save
  could be made of an older version. A save also raises the screen's earlier tasks to its
  own version, as they share its `mAction`. Those that have that version are the ones that
  were made by this screen since it was created (`SavedByTop`), and from the first of them that
  finds its row on, every table is the one with the new version (`RaisedAfter`): this is
  why `NoSaveLost` lets a save find what it saves itself. `ListInv` says that a list that was read is the table's up to some
  id, but for removals that wait (`ListBehind`), and that a dialog's script is at its
  position in the table, in the list shown and in one that was read but not given
  (`DialogsFind`). That the list comes to show what is stored takes one more:
  unless the table will be read again, the list that will be shown has each script as the
  table has it, and every one but those to be deleted (`LatestIsCurrent`); two lists in
  the order of their ids with the same items are the same (`ListsSame`). `ListIsCurrent`
  is what `ListCatchesUp` says but for the fairness. That the store implements `WriteBehind` is shown step by step: making
  a task, which may raise others, is its `Change`, running one its `Sync` (looking whether the table is empty is
  a stutter), an end of the process its `Crash`. Theorems: `StoreTypesCorrect`,
  `SavesAreKept`, `PressedIsRemoved`, `ListIsCurrent`, `WritesBehind`, the last for the safety of
  `WriteBehind`.

## 5. What is only model-checked, and what is not modelled

Only checked by TLC:

- liveness: `Termination`, `EveryRequestEnds`, `CatchesUp`, `ListCatchesUp`, and the
  fairness of `RemoteCall`, `WriteBehind` and `AtomicArm`; it is beyond the prover. What
  three of them come to once everything fair has happened is proved (`PassesCounted`,
  `PageKeepsUp`, `ListIsCurrent`).

Left out:

- JSON texts, headers and page layout; delays and soft start;
- the board's memory: every reset and toward request leaks an object, and the number of
  entries that was announced sizes an array on the stack. A negative number has no
  outcome to model and `RequestsAssumption` excludes it;
- of the Bridge, `begin` with its handshake, the buffer of its client, and what a call
  that timed out leaves in it or in `accept`: that is memory that was never written.
  `ArmServer` takes accept, read, print and close to succeed;
- of the Servo library, its reads, servos beyond the last channel, limits other than
  the default ones, and boards with other timers;
- of the Android client, scrolling of the script's rows and their colours, spacing of
  items, the checks of the text fields of a new script, `deleteAll` (never called); two
  action screens opened by two presses of a button; the list of scripts being created
  again;
- the prototype client, whose parts the Android client took over;
- the vendored Arduino IDE with its cores, tool chain, firmwares, other libraries and
  examples. It is nearly all of the lines of the repository (some 900000 of them), none of it is the
  program's own, and what the sketch uses of it is modelled where it is used. The
  project's own code is a few thousand lines; the modules cover its control.

## 6. Disagreements met

Shown by a run:

- `Braccio.cpp:146` says the loop runs "Until the all motors are in the desired
  position". A servo is written before its step is taken and the loop ends on the
  step, so each servo that moved stops one degree short (`DesiredPosition`).
  `ServoLag` shows that it is never more.
- `templates/index.html:18` says the page "shows actors' states". An answer that was
  overtaken by a later one replaces it (`ShowsStates`, `app.js:12`), and the page
  shows the old states until the next refresh. `KeptUp` shows that the page had been
  sent the new ones.

Noticed while modelling, without a run of their own:

- The test server stands in for the arm, but a reset puts out only the former's light
  (`gaoranger.py:82`, `init_states`, against `RAD::reset`, which knows no light), and the
  sketch answers a toggle of the LED twice, `ok` and then `error`, as its branch does not
  return (`sketch_jun09b.ino:158`). A mode of the LED neither knows is an error on the arm
  and `ok` on the test server (`gaoranger.py:66`).
- `templates/index.html:21` says the list "shows actions obtained from requests,
  labeded with choreography if belongs to one". The moves of a choreography are
  never in it (`server.py:51`).
- `BehaviorAdapter` and `ActionListAdapter` take the position a view has for that of
  the item the user meant. It is not when the row tapped is a former one that is fading
  (`strayed` in `ScriptRows`), or when the list was given anew between a press and its
  confirmation (`calm` in `ScriptStore`).
- The delete button of a script's action shows a dialog whose confirmation does not look
  whether the button is still enabled (`ScriptContentActivity.java:178`). Pressed twice it
  shows two; the second removes the action that moved up to the row, which nobody tapped,
  or raises when there is none (`removeItem_raises` in `ScriptEditor`). `SelectsTapped`
  and `SelectedInList` claim nothing of that second dialog but that it is at most a row
  too far.
- A script screen that is created again reads the actions of its intent
  (`ScriptContentActivity.java:67`), which are those of before its own saves: its next
  save takes them back (`Recreate` in `ScriptStore` and in `ScriptEditor`). `NoSaveLost`
  is about a screen that was created with the script as it is saved last.
- `updateDatabase` hands the screen's own `mAction` to a task of another thread and writes
  to it at the next save (`ScriptContentActivity.java:271`): a task may save a newer
  version than the one it was made for (`Shared` in `ScriptStore`). The order of versions
  on the disk is kept, which `ImplementsWriteBehind` shows.
- `Bridge.cpp:226` says data that does not fit is cut ("Cut received data"); the CRC is
  then read from the data, so such a call gives up instead (`Long` in `SerialBridge`).
- `BridgeClient.cpp:53` speaks of up to 32 characters, its buffer has 64.
- The servo library's pin stays high when a servo is detached in its pulse (`cut` in
  `ServoTimer`), beyond the longest pulse its header names.

## 7. Plan

What is left, in this order:

1. Rows of a script that is longer than the screen: views that are scrolled away and
   bound again elsewhere.
2. The Bridge's server and client over `RemoteCall`: the buffer, and what a call that
   gave up does to `accept`, `read` and `close`.
