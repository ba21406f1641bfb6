------------------------------ MODULE ScriptRows ------------------------------
(***************************************************************************)
(* The rows of the script screen: BehaviorAdapter, the views RecyclerView  *)
(* gives it, and what the screen does with them.  The adapter keeps a list *)
(* of views of its own, into which each bind inserts one; taps and focus   *)
(* find a row's position in its view's tag, and a row's view in that list. *)
(*                                                                         *)
(* RecyclerView takes any views that are not on the screen, and binds the  *)
(* rows that changed, in order.  Rows that were removed or changed fade    *)
(* out, and can be tapped until they are gone.  The rows fit on the screen *)
(* and are laid out before the next tap.                                   *)
(*                                                                         *)
(* The button that deletes shows a dialog.  It takes every touch but one   *)
(* that was made before it came up: the button can be pressed again, and   *)
(* shows another.  A screen that is created again shows what it was opened *)
(* with.                                                                   *)
(***************************************************************************)
EXTENDS Integers, SequencesExt

CONSTANTS
  View,         \* the views RecyclerView makes
  MaxRows,      \* bound: actions in the script
  MaxPresses,   \* bound: times delete is pressed before its dialog comes up
  MaxChanges    \* bound: actions added, edited and deleted

ASSUME RowsAssumption == MaxRows \in Nat /\ MaxPresses \in Nat /\ MaxChanges \in Nat

VARIABLES
  script,       \* mBehaviorList: which action is at each position
  stored,       \* the script in the database
  intent,       \* the script in the intent that opened the screen
  laid,         \* the view of each row
  fading,       \* the views of former rows that are still on the screen
  tag, shown,   \* by view: its tag and the action its text tells
  viewList,
  current_pos, enabled,
  prompts,      \* dialogs of the button that deletes that are shown
  changes,
  tapped,       \* history: the action shown by the view that was tapped last
  strayed       \* history: that view was fading

views == <<laid, fading, tag, shown, viewList>>
selection == <<current_pos, enabled, prompts, tapped, strayed>>
vars == <<script, stored, intent, views, selection, changes>>

-----------------------------------------------------------------------------
(***************************************************************************)
(* The adapter.                                                            *)
(***************************************************************************)
\* Mutated form of Bound: views are appended as they are bound.
Bound_appends(from, vs) == SubSeq(viewList \o vs, 1, from + Len(vs))

\* viewList after the rows from a position on have been bound to the views vs.  What
\* it has beyond the rows is left out: it is not read until it is pushed further.
Bound(from, vs) == SubSeq(viewList, 1, from) \o vs

\* The tag of the i-th row: its position, counted from zero.
Tag(i) == i - 1

\* onBindViewHolder, for the rows of a list from a position on.  The views that are
\* off the screen then have no tag or text that matters.
onBindViewHolder(list, from, vs) ==
  LET row(v)  == from + CHOOSE i \in DOMAIN vs : vs[i] = v
      of(v, bound, before) ==
        IF v \in ToSet(vs) THEN bound
        ELSE IF v \in ToSet(laid') \cup fading' THEN before ELSE 0
  IN  /\ viewList' = Bound(from, vs)
      /\ tag'   = [v \in View |-> of(v, Tag(row(v)), tag[v])]
      /\ shown' = [v \in View |-> of(v, list[row(v)], shown[v])]

\* RecyclerView: any distinct views for n rows.
Taken(n, free) == {vs \in [1 .. n -> free] : IsInjective(vs)}

\* All rows are bound anew, from any views that do not fade.
notifyDataSetChanged(list) ==
  \E vs \in Taken(Len(list), View \ fading) :
    /\ laid' = vs /\ UNCHANGED fading
    /\ onBindViewHolder(list, 0, vs)

\* Mutated form of notifyItemRemoved: the rows after it are not bound again.
notifyItemRemoved_only(position, list) ==
  /\ laid' = RemoveAt(laid, position + 1)
  /\ fading' = fading \cup {laid[position + 1]}
  /\ viewList' = SubSeq(viewList, 1, Len(list))
  /\ UNCHANGED <<tag, shown>>

\* With notifyItemRangeChanged: the row fades, and those after it change views.
notifyItemRemoved(position, list) ==
  \E vs \in Taken(Len(list) - position, View \ (fading \cup ToSet(laid))) :
    /\ laid' = SubSeq(laid, 1, position) \o vs
    /\ fading' = fading \cup ToSet(SubSeq(laid, position + 1, Len(laid)))
    /\ onBindViewHolder(list, position, vs)

\* A former row is gone.
Faded(v) ==
  /\ v \in fading
  /\ fading' = fading \ {v}
  /\ tag' = [tag EXCEPT ![v] = 0] /\ shown' = [shown EXCEPT ![v] = 0]
  /\ UNCHANGED <<script, stored, intent, laid, viewList, selection, changes>>

-----------------------------------------------------------------------------
(***************************************************************************)
(* The screen.                                                             *)
(***************************************************************************)
onItemClick(position) ==
  /\ current_pos' = position
  /\ enabled' = TRUE

\* A tap on a view.
Tap(v) ==
  /\ prompts = 0
  /\ onItemClick(tag[v])
  /\ tapped' = shown[v] /\ strayed' = (v \in fading)
  /\ UNCHANGED <<script, stored, intent, views, prompts, changes>>

onClick     == \E v \in ToSet(laid) : Tap(v)
onClickFading == \E v \in fading : Tap(v)

Change == changes < MaxChanges /\ changes' = changes + 1

\* onActivityResult, for a new action.
Add ==
  /\ prompts = 0
  /\ Len(script) < MaxRows
  /\ Change
  /\ script' = Append(script, changes') /\ stored' = script'
  /\ notifyDataSetChanged(script')
  /\ UNCHANGED <<intent, selection>>

\* onActivityResult, for the selected action.  focus clicks on its view.
Edited ==
  /\ prompts = 0 /\ enabled /\ current_pos < Len(script)
  /\ Change
  /\ script' = [script EXCEPT ![current_pos + 1] = changes'] /\ stored' = script'
  /\ onItemClick(tag[viewList[current_pos + 1]])
  /\ tapped' = changes' /\ strayed' = FALSE
  /\ notifyDataSetChanged(script')
  /\ UNCHANGED <<intent, prompts>>

ToDelete ==
  /\ enabled
  /\ prompts < MaxPresses
  /\ prompts' = prompts + 1
  /\ UNCHANGED <<script, stored, intent, views, current_pos, enabled, tapped, strayed, changes>>

Dismiss ==
  /\ prompts > 0
  /\ prompts' = prompts - 1
  /\ UNCHANGED <<script, stored, intent, views, current_pos, enabled, tapped, strayed, changes>>

\* A dialog is confirmed, which does not look whether the button is enabled still.
removeItem ==
  /\ prompts > 0 /\ current_pos < Len(script)
  /\ prompts' = prompts - 1
  /\ Change
  /\ script' = RemoveAt(script, current_pos + 1)
  /\ notifyItemRemoved(current_pos, script')
  /\ enabled' = FALSE
  /\ UNCHANGED <<stored, intent, current_pos, tapped, strayed>>

\* onCreate, for the script of the intent.
Create(list) ==
  /\ script' = list
  /\ \E vs \in Taken(Len(list), View) :
       /\ laid' = vs /\ fading' = {}
       /\ onBindViewHolder(list, 0, vs)
  /\ current_pos' = 0 /\ enabled' = FALSE /\ prompts' = 0
  /\ tapped' = 0 /\ strayed' = FALSE
  /\ UNCHANGED <<stored, changes>>

\* The screen is opened on what was saved.
Open == intent' = stored /\ Create(stored)

\* It is left, and opened again.
Reopen == prompts = 0 /\ Open

\* The system destroys it and creates it again, as it does at a rotation.
Recreate == Create(intent) /\ UNCHANGED intent

\* The button that edits or a dialog, at a position that no row has, as a fading row
\* gave it or a dialog before removed the last: the list raises, the client ends and is
\* started again.
Raises == (enabled \/ prompts > 0) /\ current_pos >= Len(script) /\ Open

-----------------------------------------------------------------------------
Init ==
  /\ script = <<>> /\ stored = <<>> /\ intent = <<>> /\ laid = <<>> /\ fading = {} /\ viewList = <<>>
  /\ tag = [v \in View |-> 0] /\ shown = [v \in View |-> 0]
  /\ current_pos = 0 /\ enabled = FALSE /\ prompts = 0
  /\ changes = 0 /\ tapped = 0 /\ strayed = FALSE

Next ==
  \/ onClick \/ onClickFading
  \/ Add \/ Edited \/ ToDelete \/ Dismiss \/ removeItem
  \/ Reopen \/ Recreate \/ Raises
  \/ \E v \in View : Faded(v)

Spec == Init /\ [][Next]_vars

-----------------------------------------------------------------------------
TypeOK ==
  /\ script \in Seq(1 .. MaxChanges) /\ Len(script) <= MaxRows
  /\ stored \in Seq(1 .. MaxChanges) /\ Len(stored) <= MaxRows
  /\ intent \in Seq(1 .. MaxChanges) /\ Len(intent) <= MaxRows
  /\ laid \in Seq(View) /\ viewList \in Seq(View) /\ IsInjective(laid)
  /\ fading \subseteq View \ ToSet(laid)
  /\ tag \in [View -> 0 .. MaxRows - 1] /\ shown \in [View -> 0 .. MaxChanges]
  /\ current_pos \in 0 .. MaxRows - 1 /\ enabled \in BOOLEAN
  /\ prompts \in 0 .. MaxPresses
  /\ changes \in 0 .. MaxChanges /\ tapped \in 0 .. MaxChanges /\ strayed \in BOOLEAN

\* The adapter's list has the view of each row at its place, that view shows the
\* action at that place and its tag is the place, although the list is only ever
\* inserted into.
ViewsMatchRows ==
  /\ Len(laid) = Len(script) /\ Len(viewList) = Len(script)
  /\ \A i \in DOMAIN script :
       /\ viewList[i] = laid[i]
       /\ tag[laid[i]] = i - 1 /\ shown[laid[i]] = script[i]

\* While the buttons are enabled the selected action is the one tapped or edited last,
\* unless the row tapped was fading: no button, and no dialog, works on another action.
\* The first of several dialogs to be confirmed disables the buttons.  What the others
\* work on then was not tapped: it is the action that moved up into the row or, when
\* that was the last one, no action, and the list raises.
SelectsTapped ==
  ~strayed =>
    /\ enabled => current_pos < Len(script) /\ script[current_pos + 1] = tapped
    /\ prompts > 0 => current_pos <= Len(script)

=============================================================================
