----------------------------- MODULE ScriptEditor -----------------------------
(***************************************************************************)
(* The Android client's editor of one script: the screen with the list of  *)
(* its actions (ScriptContentActivity) and the screen that makes or edits  *)
(* an action (ActionActivity).  An action is a relative move of one motor; *)
(* the second screen works with absolute angles, starting from the position*)
(* the actions before it add up to, and hands back the difference.         *)
(*                                                                         *)
(* The system may destroy a screen and create it again, at a rotation or   *)
(* for its memory.  A created screen starts from the intent it was first   *)
(* opened with; of what happened since, it gets back the slider.           *)
(*                                                                         *)
(* A dialog takes every touch but one that was made before it came up: the *)
(* button that deletes can be pressed twice, and shows two dialogs.  The   *)
(* buttons that lead to the action screen are pressed once.                *)
(*                                                                         *)
(* Scripts are no longer than the screen, so every row of the list has a   *)
(* view of its own; each save reaches the database before the next.        *)
(***************************************************************************)
EXTENDS Gaoranger, SequencesExt

CONSTANTS
  Samples,      \* the scripts the store may hold at first
  MaxScript,    \* bound: actions in a script
  MaxPresses,   \* bound: times delete is pressed before its dialog comes up
  MaxChanges    \* bound: actions ever confirmed

Behavior == [action : Motor, value : Int]

ASSUME EditorAssumption ==
  /\ Samples \subseteq Seq(Behavior)
  /\ MaxScript \in Nat /\ MaxPresses \in Nat /\ MaxChanges \in Nat
  /\ \A m \in Motor : Low[m] >= 0

VARIABLES
  stored,        \* the script in the database
  opened,        \* the script in the intent that opened the script screen
  screen,        \* the screen in front; "list" is the list of scripts
  script,        \* mBehaviorList
  current_pos,
  enabled,       \* the buttons that edit and delete
  dialogs,       \* dialogs of the latter that are shown
  form,          \* the action screen: its intent, index, value and slider, and
                 \* toward, the last position it sent to be previewed
  destroyed,     \* the script screen behind it must be created again
  changes,       \* actions confirmed so far
  strayed,       \* history: the action screen was created again
  unsaved,       \* history: script was changed without a save
  disturbed      \* history: an action no longer starts where it was made to

listvars == <<opened, script, current_pos, enabled, dialogs>>
vars == <<stored, screen, listvars, form, destroyed, changes, strayed, unsaved,
          disturbed>>

NoForm == [request |-> "none"]

-----------------------------------------------------------------------------
\* putAccStates: the sums of the moves of a script, which nothing clips.
AccStates(actions) ==
  LET at[n \in 0 .. Len(actions)] ==
        IF n = 0 THEN Home ELSE [at[n - 1] EXCEPT ![actions[n].action] = @ + actions[n].value]
  IN  at[Len(actions)]

\* Where the arm stands when it has been reset and then given the script.
Played(actions) ==
  Acted(Home, [i \in DOMAIN actions |-> <<actions[i].action, actions[i].value>>])

\* SeekBar.setProgress.
Progress(x, max) == IF x < 0 THEN 0 ELSE IF x > max THEN max ELSE x

-----------------------------------------------------------------------------
(***************************************************************************)
(* The script screen.                                                      *)
(***************************************************************************)
\* onCreate, for the script of the intent.
Create(actions) ==
  /\ script' = actions
  /\ current_pos' = 0
  /\ enabled' = FALSE

\* The script screen takes a touch.
Ready == screen = "script" /\ dialogs = 0

Open ==
  /\ screen = "list"
  /\ screen' = "script"
  /\ opened' = stored
  /\ Create(stored)
  /\ unsaved' = FALSE
  /\ UNCHANGED <<stored, dialogs, form, destroyed, changes, strayed, disturbed>>

Leave ==
  /\ Ready
  /\ screen' = "list"
  /\ UNCHANGED <<stored, listvars, form, destroyed, changes, strayed, unsaved,
                 disturbed>>

\* Its dialogs are gone with the screen.
Recreate ==
  /\ screen = "script"
  /\ Create(opened)
  /\ dialogs' = 0
  /\ unsaved' = (unsaved \/ script # opened)
  /\ UNCHANGED <<stored, screen, opened, form, destroyed, changes, strayed,
                 disturbed>>

onItemClick(position) ==
  /\ Ready
  /\ current_pos' = position
  /\ enabled' = TRUE
  /\ UNCHANGED <<stored, screen, opened, script, dialogs, form, destroyed, changes,
                 strayed, unsaved, disturbed>>

\* The button that deletes shows a dialog, and another one if it is pressed again.
ToDelete ==
  /\ screen = "script" /\ enabled
  /\ dialogs < MaxPresses
  /\ dialogs' = dialogs + 1
  /\ UNCHANGED <<stored, screen, opened, script, current_pos, enabled, form, destroyed,
                 changes, strayed, unsaved, disturbed>>

Dismiss ==
  /\ dialogs > 0
  /\ dialogs' = dialogs - 1
  /\ UNCHANGED <<stored, screen, opened, script, current_pos, enabled, form, destroyed,
                 changes, strayed, unsaved, disturbed>>

\* Mutated form of removeItem: the buttons stay enabled.
removeItem_stays_enabled ==
  /\ dialogs > 0 /\ current_pos < Len(script)
  /\ dialogs' = dialogs - 1
  /\ script' = RemoveAt(script, current_pos + 1)
  /\ unsaved' = TRUE
  /\ disturbed' = (disturbed \/ current_pos + 1 < Len(script))
  /\ UNCHANGED <<stored, screen, opened, current_pos, enabled, form, destroyed, changes, strayed>>

\* A dialog is confirmed, which does not look whether the button is enabled still.
\* Nothing is saved.
removeItem ==
  /\ dialogs > 0 /\ current_pos < Len(script)
  /\ dialogs' = dialogs - 1
  /\ script' = RemoveAt(script, current_pos + 1)
  /\ enabled' = FALSE
  /\ unsaved' = TRUE
  /\ disturbed' = (disturbed \/ current_pos + 1 < Len(script))
  /\ UNCHANGED <<stored, screen, opened, current_pos, form, destroyed, changes,
                 strayed>>

\* The row was removed by a dialog before, and was the last: the list raises and the
\* client ends.
removeItem_raises ==
  /\ dialogs > 0 /\ current_pos >= Len(script)
  /\ screen' = "list"
  /\ dialogs' = 0
  /\ UNCHANGED <<stored, opened, script, current_pos, enabled, form, destroyed, changes,
                 strayed, unsaved, disturbed>>

-----------------------------------------------------------------------------
(***************************************************************************)
(* The action screen.  Its slider counts from the motor's low limit.       *)
(***************************************************************************)
\* gotoStates: the position the form shows, or the one it started from, is sent.
Sent(f, applyAction) ==
  [f EXCEPT !.toward = IF applyAction THEN [f.states EXCEPT ![f.index] = f.value] ELSE f.states]

\* onCreate.  The slider's maximum is the high limit, not the range.
NewForm(request, action, given, states, pos) ==
  LET value == given + states[action]
  IN  [request |-> request, action |-> action, given |-> given, states |-> states,
       pos |-> pos, index |-> action, value |-> value, max |-> High[action],
       progress |-> Progress(value - Low[action], High[action]),
       toward |-> [states EXCEPT ![action] = value]]

startActivityForResult(f) ==
  /\ screen' = "action"
  /\ form' = f
  /\ destroyed' = FALSE /\ strayed' = FALSE
  /\ UNCHANGED <<stored, listvars, changes, unsaved, disturbed>>

\* Mutated form of ToAddAction: it starts from the selected action.
ToAddAction_from_selected ==
  /\ Ready
  /\ startActivityForResult(
       NewForm("new", 0, 0, AccStates(SubSeq(script, 1, current_pos)), current_pos))

\* A new action moves the base by nothing and starts from the end of the script.
ToAddAction ==
  /\ Ready
  /\ startActivityForResult(NewForm("new", 0, 0, AccStates(script), current_pos))

ToEditAction ==
  /\ Ready /\ enabled
  /\ LET edited == script[current_pos + 1]
     IN  startActivityForResult(
           NewForm("edit", edited.action, edited.value,
                   AccStates(SubSeq(script, 1, current_pos)), current_pos))

\* A step of the form that leaves the script alone.
Form(f) ==
  /\ screen = "action"
  /\ form' = f
  /\ UNCHANGED <<stored, screen, listvars, destroyed, changes, strayed, unsaved, disturbed>>

\* Mutated form of onClick: the slider keeps the maximum of the motor before.
onClick_keeps_max(m) ==
  /\ m # form.index
  /\ Form([Sent(form, FALSE) EXCEPT !.index = m, !.value = form.states[m],
                       !.progress = Progress(form.states[m] - Low[m], form.max)])

\* Another motor: the one before is shown where the script left it.
onClick(m) ==
  /\ m # form.index
  /\ LET max == High[m] - Low[m]
     IN  Form([Sent(form, FALSE) EXCEPT !.index = m, !.value = form.states[m], !.max = max,
                           !.progress = Progress(form.states[m] - Low[m], max)])

onStopTrackingTouch(progress) ==
  Form([form EXCEPT !.progress = progress, !.value = progress + Low[form.index]])

\* The buttons that add and take away a degree.
ShowValue(v) ==
  Form([form EXCEPT !.value = v, !.progress = Progress(v - Low[form.index], form.max)])

\* Mutated form of AddValue: the slider stays where it is.
AddValue_label_only ==
  /\ form.value < High[form.index]
  /\ Form([form EXCEPT !.value = @ + 1])

AddValue   == form.value < High[form.index] /\ ShowValue(form.value + 1)
MinusValue == form.value > Low[form.index] /\ ShowValue(form.value - 1)

testAction == Form(Sent(form, TRUE))

\* The action screen is created again: it starts over from its intent, sends
\* its first preview again and gets the slider back.  The script screen behind
\* it is to be created again too, unless the phone was turned back.
RecreateAction ==
  /\ screen = "action"
  /\ LET f == NewForm(form.request, form.action, form.given, form.states, form.pos)
     IN  /\ form' = [f EXCEPT !.progress = Progress(form.progress, f.max)]
         /\ destroyed' \in BOOLEAN
  /\ strayed' = TRUE
  /\ UNCHANGED <<stored, screen, listvars, changes, unsaved, disturbed>>

\* The system reclaims the script screen behind the action screen.
Destroy ==
  /\ screen = "action"
  /\ destroyed' = TRUE
  /\ UNCHANGED <<stored, screen, listvars, form, changes, strayed, unsaved,
                 disturbed>>

-----------------------------------------------------------------------------
(***************************************************************************)
(* Back to the script screen, which is created first if it was destroyed.  *)
(***************************************************************************)
finish ==
  /\ form' = NoForm /\ destroyed' = FALSE /\ strayed' = FALSE
  /\ UNCHANGED <<opened, dialogs>>

\* Cancelled, or left with the back key.
Cancel ==
  /\ screen = "action"
  /\ screen' = "script"
  /\ IF destroyed
     THEN Create(opened) /\ unsaved' = (unsaved \/ script # opened)
     ELSE UNCHANGED <<script, current_pos, enabled, unsaved>>
  /\ finish
  /\ UNCHANGED <<stored, changes, disturbed>>

\* Mutated form of Confirmed: the absolute angle is handed back.
Confirmed_absolute ==
  [action |-> form.index, value |-> form.progress + Low[form.index]]

\* AddAction: what the slider says, as a move from the position it started at.
Confirmed ==
  [action |-> form.index,
   value  |-> form.progress + Low[form.index] - form.states[form.index]]

Confirm(request) ==
  /\ screen = "action" /\ form.request = request
  /\ changes < MaxChanges
  /\ changes' = changes + 1

BeyondLimit == form.progress + Low[form.index] > High[form.index]

\* updateDatabase.
updateDatabase == stored' = script' /\ unsaved' = FALSE

onActivityResult_new ==
  /\ Confirm("new")
  /\ LET list == IF destroyed THEN opened ELSE script
     IN  /\ Len(list) < MaxScript
         /\ script' = Append(list, Confirmed)
  /\ IF destroyed THEN current_pos' = 0 /\ enabled' = FALSE
                  ELSE UNCHANGED <<current_pos, enabled>>
  /\ updateDatabase
  /\ disturbed' = (disturbed \/ BeyondLimit \/ (destroyed /\ script # opened))
  /\ screen' = "script"
  /\ finish

\* Mutated form of onActivityResult_edit: the change is not saved.
onActivityResult_edit_unsaved ==
  /\ Confirm("edit") /\ ~destroyed
  /\ script' = [script EXCEPT ![form.pos + 1] = Confirmed]
  /\ current_pos' = form.pos /\ enabled' = TRUE
  /\ UNCHANGED <<stored, unsaved>>
  /\ disturbed' = (disturbed \/ BeyondLimit \/ form.pos + 1 < Len(script))
  /\ screen' = "script"
  /\ finish

\* focus clicks on the row that was edited.
onActivityResult_edit ==
  /\ Confirm("edit") /\ ~destroyed
  /\ script' = [script EXCEPT ![form.pos + 1] = Confirmed]
  /\ current_pos' = form.pos /\ enabled' = TRUE
  /\ updateDatabase
  /\ disturbed' = (disturbed \/ BeyondLimit \/ form.pos + 1 < Len(script))
  /\ screen' = "script"
  /\ finish

\* A screen that was just created has no rows yet: focus raises before anything
\* is saved, and the client ends.
onActivityResult_raises ==
  /\ Confirm("edit") /\ destroyed
  /\ screen' = "list"
  /\ finish
  /\ UNCHANGED <<stored, script, current_pos, enabled, unsaved, disturbed>>

-----------------------------------------------------------------------------
Init ==
  /\ stored \in Samples
  /\ opened = stored /\ script = stored
  /\ screen = "list"
  /\ current_pos = 0 /\ enabled = FALSE /\ dialogs = 0
  /\ form = NoForm /\ destroyed = FALSE
  /\ changes = 0
  /\ strayed = FALSE /\ unsaved = FALSE /\ disturbed = FALSE

ScriptScreen ==
  \/ Open \/ Leave \/ Recreate
  \/ \E position \in 0 .. Len(script) - 1 : onItemClick(position)
  \/ ToDelete \/ Dismiss \/ removeItem \/ removeItem_raises
  \/ ToAddAction \/ ToEditAction

ActionScreen ==
  /\ screen = "action"
  /\ \/ \E m \in Motor : onClick(m)
     \/ \E progress \in 0 .. form.max : onStopTrackingTouch(progress)
     \/ AddValue \/ MinusValue \/ testAction
     \/ RecreateAction \/ Destroy
     \/ Cancel
     \/ onActivityResult_new \/ onActivityResult_edit \/ onActivityResult_raises

Next == ScriptScreen \/ ActionScreen

Spec == Init /\ [][Next]_vars

-----------------------------------------------------------------------------
FormType ==
  [request : {"new", "edit"}, action : Motor, given : Int, states : [Motor -> Int],
   pos : Nat, index : Motor, value : Int, max : Nat, progress : Nat, toward : [Motor -> Int]]

TypeOK ==
  /\ stored \in Seq(Behavior) /\ opened \in Seq(Behavior) /\ script \in Seq(Behavior)
  /\ screen \in {"list", "script", "action"}
  /\ current_pos \in Nat /\ enabled \in BOOLEAN
  /\ dialogs \in 0 .. MaxPresses /\ (dialogs > 0 => screen = "script")
  /\ form \in FormType \cup {NoForm}
  /\ (screen = "action") <=> (form # NoForm)
  /\ screen = "action" => /\ form.progress <= form.max
                          /\ form.max \in {High[form.index], High[form.index] - Low[form.index]}
  /\ destroyed \in BOOLEAN
  /\ changes \in 0 .. MaxChanges
  /\ strayed \in BOOLEAN /\ unsaved \in BOOLEAN /\ disturbed \in BOOLEAN

\* When the buttons that edit and delete can be pressed, when a dialog of theirs is
\* confirmed and when an edited action comes back to a list that was not created again,
\* the list still has the row they mean: none of the list's get, set and remove raises.
\* Only a dialog that is left when another one has removed its row, which leaves the
\* buttons disabled, may be a row too far; it is not more.
SelectedInList ==
  /\ enabled => current_pos < Len(script)
  /\ dialogs > 0 => current_pos <= Len(script)
  /\ screen = "action" /\ form.request = "edit" => form.pos < Len(script)

\* What the number on the screen and the preview say is what is confirmed, which
\* is read from the slider: as long as the position the form starts from is
\* legal and the form was not created again.
SliderMatchesValue ==
  screen = "action" /\ form.states \in Position /\ form.given + form.states[form.action]
      \in Low[form.action] .. High[form.action] /\ ~strayed
    => form.progress + Low[form.index] = form.value

\* The editor adds moves up, the arm clips each of them.  The two come to the
\* same position, and all of the positions on the way are legal, as long as no
\* action had another one deleted or edited before it and no slider was pulled
\* beyond a limit.
EditorMatchesArm ==
  ~disturbed => \A n \in 0 .. Len(script) :
    LET actions == SubSeq(script, 1, n)
    IN  Played(actions) = AccStates(actions) /\ AccStates(actions) \in Position

\* A new action that was previewed and not touched since takes the arm, when the
\* script is played, to the position of the preview: the preview is absolute and
\* clipped once, the script is relative and clipped at every action.
PlaysAsPreviewed ==
  [][stored' # stored /\ form.request = "new" /\ ~strayed /\ ~disturbed'
       /\ form.toward = Sent(form, TRUE).toward
     => Played(script') = set_states(form.toward)]_vars

\* A save stores the change the user confirmed and no other, unless the list
\* had been changed without a save or its screen was created again: what was
\* confirmed before is in the store already, and stays.
OneChangeAtATime ==
  [][stored' # stored /\ ~unsaved /\ ~destroyed =>
       \/ stored' = Append(stored, Last(stored'))
       \/ \E i \in DOMAIN stored : stored' = [stored EXCEPT ![i] = stored'[i]]]_vars

=============================================================================
