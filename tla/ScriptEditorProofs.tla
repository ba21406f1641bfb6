-------------------------- MODULE ScriptEditorProofs --------------------------
(***************************************************************************)
(* Theorems about the script editor, for every set of motors, limits and   *)
(* scripts: no operation on the list of actions raises, the slider         *)
(* confirms what the form shows, a save changes one action, the state has  *)
(* its type, and the arm plays a script to the positions the editor adds   *)
(* up, the last of them the one that was previewed.                        *)
(*                                                                         *)
(* The first invariants say of a list only that it is one and that its     *)
(* actions name motors.  The last two theorems need what putAccStates and  *)
(* the arm do with one action more, AccAppend and PlayedAppend: both are   *)
(* recursive functions, whose equations follow from the induction of       *)
(* GaorangerProofs.                                                        *)
(***************************************************************************)
EXTENDS ScriptEditor, GaorangerProofs, SequenceTheorems, TLAPS

\* A list of actions of motors.
IsScript(s) ==
  /\ \E S : s \in Seq(S)
  /\ \A i \in 1 .. Len(s) : s[i].action \in Motor

ListInv ==
  /\ IsScript(stored) /\ IsScript(opened) /\ IsScript(script)
  /\ current_pos \in Nat /\ dialogs \in Nat
  /\ enabled => current_pos < Len(script)
  /\ dialogs > 0 => screen = "script" /\ current_pos <= Len(script)

\* A record with the fields of a form.
IsForm(f) ==
  f = [request |-> f.request, action |-> f.action, given |-> f.given,
       states |-> f.states, pos |-> f.pos, index |-> f.index, value |-> f.value,
       max |-> f.max, progress |-> f.progress, toward |-> f.toward]

\* The form starts from legal positions.
LegalStart(f) ==
  /\ f.states \in Position
  /\ f.given + f.states[f.action] \in Low[f.action] .. High[f.action]

\* The slider reaches every legal angle of the motor in hand, and shows the value.
SliderInv(f) ==
  /\ f.max \in Int /\ High[f.index] - Low[f.index] <= f.max
  /\ f.progress \in Nat /\ f.progress <= f.max
  /\ f.value = f.progress + Low[f.index]

FormInv ==
  screen = "action" =>
    /\ IsForm(form)
    /\ form.action \in Motor /\ form.index \in Motor
    /\ form.pos \in Nat
    /\ form.request = "edit" => form.pos < Len(script)
    /\ LegalStart(form) /\ ~strayed => SliderInv(form)

EditorInv == ListInv /\ FormInv

-----------------------------------------------------------------------------
(***************************************************************************)
(* Lists.                                                                  *)
(***************************************************************************)
LEMMA LengthOfScript == ASSUME NEW s, IsScript(s) PROVE Len(s) \in Nat
  BY DEF IsScript

LEMMA AppendToScript ==
  ASSUME NEW s, IsScript(s), NEW b, b.action \in Motor
  PROVE  IsScript(Append(s, b)) /\ Len(Append(s, b)) = Len(s) + 1
<1>1. PICK S : s \in Seq(S)
  BY DEF IsScript
<1> DEFINE T == S \cup {b}
<1>2. s \in Seq(T) /\ b \in T
  BY <1>1
<1>3. Append(s, b) \in Seq(T) /\ Len(Append(s, b)) = Len(s) + 1
  BY <1>2
<1>4. ASSUME NEW i \in 1 .. Len(Append(s, b))
      PROVE  Append(s, b)[i].action \in Motor
  <2>1. CASE i = Len(s) + 1
    BY <1>2, <2>1
  <2>2. CASE i # Len(s) + 1
    <3>1. i \in 1 .. Len(s)
      BY <1>2, <1>3, <2>2
    <3>2. Append(s, b)[i] = s[i]
      BY <1>2, <3>1
    <3>3. QED BY <3>1, <3>2 DEF IsScript
  <2>3. QED BY <2>1, <2>2
<1>5. QED BY <1>3, <1>4 DEF IsScript

LEMMA ReplaceInScript ==
  ASSUME NEW s, IsScript(s), NEW b, b.action \in Motor, NEW k \in 1 .. Len(s)
  PROVE  IsScript([s EXCEPT ![k] = b]) /\ Len([s EXCEPT ![k] = b]) = Len(s)
<1>1. PICK S : s \in Seq(S)
  BY DEF IsScript
<1> DEFINE T == S \cup {b}
<1> DEFINE t == [s EXCEPT ![k] = b]
<1>2. s \in Seq(T) /\ b \in T
  BY <1>1
<1>3. t \in Seq(T) /\ Len(t) = Len(s)
  BY <1>2
<1>4. ASSUME NEW i \in 1 .. Len(t)
      PROVE  t[i].action \in Motor
  <2>1. i \in 1 .. Len(s)
    BY <1>3
  <2>2. t[i] = IF i = k THEN b ELSE s[i]
    BY <1>2, <2>1
  <2>3. QED BY <2>1, <2>2 DEF IsScript
<1>5. QED BY <1>3, <1>4 DEF IsScript

LEMMA RemoveFromScript ==
  ASSUME NEW s, IsScript(s), NEW k \in 1 .. Len(s)
  PROVE  IsScript(RemoveAt(s, k)) /\ Len(RemoveAt(s, k)) = Len(s) - 1
<1>1. PICK S : s \in Seq(S)
  BY DEF IsScript
<1> DEFINE left == SubSeq(s, 1, k - 1)
<1> DEFINE right == SubSeq(s, k + 1, Len(s))
<1> DEFINE t == left \o right
<1>2. t = RemoveAt(s, k)
  BY DEF RemoveAt
<1>3. Len(s) \in Nat /\ k \in Nat /\ 1 <= k /\ k <= Len(s)
  BY <1>1
<1>4. \A i \in 1 .. Len(s) : s[i] \in S
  BY <1>1, ElementOfSeq
<1>5. /\ left \in Seq(S) /\ Len(left) = k - 1
      /\ \A i \in 1 .. k - 1 : left[i] = s[i]
  <2>1. \A i \in 1 .. k - 1 : s[i] \in S
    BY <1>3, <1>4
  <2>2. /\ SubSeq(s, 1, k - 1) \in Seq(S)
        /\ Len(SubSeq(s, 1, k - 1)) = IF 1 <= k - 1 THEN k - 1 - 1 + 1 ELSE 0
        /\ \A i \in 1 .. k - 1 - 1 + 1 : SubSeq(s, 1, k - 1)[i] = s[1 + i - 1]
    BY <1>3, <2>1, SubSeqProperties
  <2>3. QED BY <1>3, <2>2
<1>6. /\ right \in Seq(S) /\ Len(right) = Len(s) - k
      /\ \A i \in 1 .. Len(s) - k : right[i] = s[k + i]
  <2>1. \A i \in k + 1 .. Len(s) : s[i] \in S
    BY <1>3, <1>4
  <2>2. /\ SubSeq(s, k + 1, Len(s)) \in Seq(S)
        /\ Len(SubSeq(s, k + 1, Len(s)))
             = IF k + 1 <= Len(s) THEN Len(s) - (k + 1) + 1 ELSE 0
        /\ \A i \in 1 .. Len(s) - (k + 1) + 1 :
             SubSeq(s, k + 1, Len(s))[i] = s[(k + 1) + i - 1]
    BY <1>3, <2>1, SubSeqProperties
  <2>3. QED BY <1>3, <2>2
<1>7. /\ t \in Seq(S) /\ Len(t) = Len(left) + Len(right)
      /\ \A i \in 1 .. Len(left) + Len(right) :
           t[i] = IF i <= Len(left) THEN left[i] ELSE right[i - Len(left)]
  BY <1>5, <1>6, ConcatProperties
<1> HIDE DEF left, right, t
<1>8. ASSUME NEW i \in 1 .. Len(t)
      PROVE  t[i].action \in Motor
  <2>1. CASE i <= k - 1
    <3>1. t[i] = s[i]
      BY <1>3, <1>5, <1>6, <1>7, <2>1
    <3>2. i \in 1 .. Len(s)
      BY <1>3, <1>5, <1>6, <1>7
    <3>3. QED BY <3>1, <3>2 DEF IsScript
  <2>2. CASE i > k - 1
    <3>1. i - (k - 1) \in 1 .. Len(s) - k
      BY <1>3, <1>5, <1>6, <1>7, <2>2
    <3>2. t[i] = right[i - (k - 1)]
      BY <1>3, <1>5, <1>6, <1>7, <2>2
    <3>3. t[i] = s[i + 1]
      <4>1. right[i - (k - 1)] = s[k + (i - (k - 1))]
        BY <1>6, <3>1
      <4>2. k + (i - (k - 1)) = i + 1
        BY <1>3, <1>7
      <4>3. QED BY <3>2, <4>1, <4>2
    <3>4. i + 1 \in 1 .. Len(s)
      BY <1>3, <3>1
    <3>5. QED BY <3>3, <3>4 DEF IsScript
  <2>3. QED BY <1>3, <1>7, <2>1, <2>2
<1>9. Len(t) = Len(s) - 1
  BY <1>3, <1>5, <1>6, <1>7
<1>10. QED BY <1>2, <1>7, <1>8, <1>9 DEF IsScript

-----------------------------------------------------------------------------
(***************************************************************************)
(* The form.                                                               *)
(***************************************************************************)
LEMMA LimitsTyped ==
  ASSUME NEW m \in Motor
  PROVE  /\ Low[m] \in Int /\ High[m] \in Int
         /\ 0 <= Low[m] /\ Low[m] <= High[m]
<1>1. Low[m] \in Int /\ High[m] \in Int /\ Home[m] \in Int
      /\ Low[m] <= Home[m] /\ Home[m] <= High[m]
  BY LimitsAssumption
<1>2. 0 <= Low[m]
  BY <1>1, EditorAssumption
<1>3. QED BY <1>1, <1>2

\* A slider that can hold a number is left at it.
LEMMA ProgressInRange ==
  ASSUME NEW x \in Int, NEW max \in Int, 0 <= x, x <= max
  PROVE  Progress(x, max) = x
  BY DEF Progress

\* A new form has the shape of one, and shows what its slider says.
LEMMA NewFormCorrect ==
  ASSUME NEW request, NEW action \in Motor, NEW given, NEW states, NEW pos,
         NEW f, f = NewForm(request, action, given, states, pos)
  PROVE  /\ IsForm(f)
         /\ f.request = request /\ f.action = action /\ f.index = action
         /\ f.states = states /\ f.given = given /\ f.pos = pos
         /\ LegalStart(f) => SliderInv(f)
<1>1. /\ IsForm(f)
      /\ f.request = request /\ f.action = action /\ f.index = action
      /\ f.states = states /\ f.given = given /\ f.pos = pos
      /\ f.value = given + states[action]
      /\ f.max = High[action]
      /\ f.progress = Progress(f.value - Low[action], f.max)
  BY DEF NewForm, IsForm
<1>2. SUFFICES ASSUME LegalStart(f) PROVE SliderInv(f)
  BY <1>1
<1>3. f.value \in Low[action] .. High[action]
  BY <1>1, <1>2 DEF LegalStart
<1>4. /\ Low[action] \in Int /\ High[action] \in Int
      /\ 0 <= Low[action] /\ Low[action] <= High[action]
  BY LimitsTyped
<1>5. f.progress = f.value - Low[action]
  <2>1. /\ f.value - Low[action] \in Int /\ f.max \in Int
        /\ 0 <= f.value - Low[action] /\ f.value - Low[action] <= f.max
    BY <1>1, <1>3, <1>4
  <2>2. QED BY <1>1, <2>1, ProgressInRange
<1>6. QED BY <1>1, <1>3, <1>4, <1>5 DEF SliderInv
\* The same form: what it was started with is what another was started with.
SameStart(f, g) ==
  /\ g.request = f.request /\ g.action = f.action /\ g.given = f.given
  /\ g.states = f.states /\ g.pos = f.pos

Shown(f, v, p) == [f EXCEPT !.value = v, !.progress = p]

Another(f, i, v, m, p) ==
  [f EXCEPT !.index = i, !.value = v, !.max = m, !.progress = p]

\* The form after each kind of step that leaves the script alone.
LEMMA FormSent ==
  ASSUME NEW f, IsForm(f), NEW applyAction, NEW g, g = Sent(f, applyAction)
  PROVE  /\ IsForm(g) /\ SameStart(f, g)
         /\ g.index = f.index /\ g.value = f.value /\ g.max = f.max
         /\ g.progress = f.progress
<1> DEFINE w == IF applyAction THEN [f.states EXCEPT ![f.index] = f.value] ELSE f.states
<1>1. g = [f EXCEPT !.toward = w]
  BY DEF Sent
<1> HIDE DEF w
<1>2. g = [request |-> f.request, action |-> f.action, given |-> f.given,
           states |-> f.states, pos |-> f.pos, index |-> f.index, value |-> f.value,
           max |-> f.max, progress |-> f.progress, toward |-> w]
  BY <1>1 DEF IsForm
<1>3. QED BY <1>2 DEF IsForm, SameStart

LEMMA FormShown ==
  ASSUME NEW f, IsForm(f), NEW v, NEW p, NEW g, g = Shown(f, v, p)
  PROVE  /\ IsForm(g) /\ SameStart(f, g)
         /\ g.index = f.index /\ g.value = v /\ g.max = f.max /\ g.progress = p
<1>1. g = [request |-> f.request, action |-> f.action, given |-> f.given,
           states |-> f.states, pos |-> f.pos, index |-> f.index, value |-> v,
           max |-> f.max, progress |-> p, toward |-> f.toward]
  BY DEF IsForm, Shown
<1>2. QED BY <1>1 DEF IsForm, SameStart

LEMMA FormOfAnother ==
  ASSUME NEW f, IsForm(f), NEW i, NEW v, NEW m, NEW p, NEW g,
         g = Another(f, i, v, m, p)
  PROVE  /\ IsForm(g) /\ SameStart(f, g)
         /\ g.index = i /\ g.value = v /\ g.max = m /\ g.progress = p
<1>1. g = [request |-> f.request, action |-> f.action, given |-> f.given,
           states |-> f.states, pos |-> f.pos, index |-> i, value |-> v,
           max |-> m, progress |-> p, toward |-> f.toward]
  BY DEF IsForm, Another
<1>2. QED BY <1>1 DEF IsForm, SameStart

-----------------------------------------------------------------------------
(***************************************************************************)
(* The invariant.                                                          *)
(***************************************************************************)
LEMMA EditorInit == Init => EditorInv
<1> SUFFICES ASSUME Init PROVE EditorInv
  OBVIOUS
<1>1. stored \in Seq(Behavior)
  BY EditorAssumption DEF Init
<1>2. IsScript(stored)
  <2>1. \A i \in 1 .. Len(stored) : stored[i] \in Behavior
    BY <1>1, ElementOfSeq
  <2>2. \A i \in 1 .. Len(stored) : stored[i].action \in Motor
    BY <2>1 DEF Behavior
  <2>3. QED BY <1>1, <2>2 DEF IsScript
<1>3. QED BY <1>2 DEF Init, EditorInv, ListInv, FormInv

\* The steps of the script screen.
LEMMA ScriptScreenStep == EditorInv /\ ScriptScreen => EditorInv'
<1> SUFFICES ASSUME EditorInv, ScriptScreen PROVE EditorInv'
  OBVIOUS
<1>0. ListInv /\ FormInv /\ Len(script) \in Nat /\ Len(opened) \in Nat
  BY LengthOfScript DEF EditorInv, ListInv
<1>1. CASE Open
  BY <1>0, <1>1, LengthOfScript DEF Open, Create, EditorInv, ListInv, FormInv
<1>2. CASE Leave
  BY <1>0, <1>2 DEF Leave, Ready, listvars, EditorInv, ListInv, FormInv
<1>3. CASE Recreate
  BY <1>0, <1>3 DEF Recreate, Create, EditorInv, ListInv, FormInv
<1>4. CASE \E position \in 0 .. Len(script) - 1 : onItemClick(position)
  <2>1. PICK position \in 0 .. Len(script) - 1 : onItemClick(position)
    BY <1>4
  <2>2. QED BY <1>0, <2>1 DEF onItemClick, Ready, EditorInv, ListInv, FormInv
<1>5. CASE ToDelete \/ Dismiss \/ removeItem_raises
  BY <1>0, <1>5 DEF ToDelete, Dismiss, removeItem_raises, EditorInv, ListInv, FormInv
<1>6. CASE ToAddAction
  <2>1. 0 \in Motor
    BY MotorsAssumption DEF Motor
  <2>2. form' = NewForm("new", 0, 0, AccStates(script), current_pos)
    BY <1>6 DEF ToAddAction, startActivityForResult
  <2>3. /\ IsForm(form') /\ form'.request = "new"
        /\ form'.action = 0 /\ form'.index = 0 /\ form'.pos = current_pos
        /\ LegalStart(form') => SliderInv(form')
    BY <2>1, <2>2, NewFormCorrect
  <2>4. UNCHANGED <<stored, opened, script, current_pos, enabled, dialogs>>
    BY <1>6 DEF ToAddAction, startActivityForResult, listvars
  <2>5. ListInv'
    BY <1>0, <1>6, <2>4 DEF ToAddAction, Ready, ListInv
  <2>6. form'.pos \in Nat
    BY <1>0, <2>3 DEF ListInv
  <2>7. FormInv'
    BY <2>1, <2>3, <2>6 DEF FormInv
  <2>8. QED BY <2>5, <2>7 DEF EditorInv
<1>7. CASE ToEditAction
  <2> DEFINE edited == script[current_pos + 1]
  <2>1. current_pos + 1 \in 1 .. Len(script) /\ current_pos < Len(script)
    BY <1>0, <1>7 DEF ToEditAction, ListInv
  <2>2. edited.action \in Motor
    BY <1>0, <2>1 DEF ListInv, IsScript
  <2>3. form' = NewForm("edit", edited.action, edited.value,
                        AccStates(SubSeq(script, 1, current_pos)), current_pos)
    BY <1>7 DEF ToEditAction, startActivityForResult
  <2>4. /\ IsForm(form') /\ form'.request = "edit"
        /\ form'.action = edited.action /\ form'.index = edited.action
        /\ form'.pos = current_pos
        /\ LegalStart(form') => SliderInv(form')
    <3> HIDE DEF edited
    <3> QED BY <2>2, <2>3, NewFormCorrect
  <2>5. UNCHANGED <<stored, opened, script, current_pos, enabled, dialogs>>
    BY <1>7 DEF ToEditAction, startActivityForResult, listvars
  <2>6. ListInv'
    BY <1>0, <1>7, <2>5 DEF ToEditAction, Ready, ListInv
  <2>7. form'.pos \in Nat /\ form'.pos < Len(script')
    BY <1>0, <2>1, <2>4, <2>5 DEF ListInv
  <2> HIDE DEF edited
  <2>8. FormInv'
    BY <2>2, <2>4, <2>7 DEF FormInv
  <2>9. QED BY <2>6, <2>8 DEF EditorInv
<1>8. CASE removeItem
  <2>1. current_pos + 1 \in 1 .. Len(script)
    BY <1>0, <1>8 DEF removeItem, ListInv
  <2>2. IsScript(script') /\ Len(script') = Len(script) - 1
    BY <1>0, <1>8, <2>1, RemoveFromScript DEF removeItem, ListInv
  <2>3. ListInv'
    BY <1>0, <1>8, <2>1, <2>2 DEF removeItem, ListInv
  <2>4. screen' # "action"
    BY <1>0, <1>8 DEF removeItem, ListInv
  <2>5. QED BY <2>3, <2>4 DEF EditorInv, FormInv
<1>9. QED BY <1>1, <1>2, <1>3, <1>4, <1>5, <1>6, <1>7, <1>8 DEF ScriptScreen

\* The steps of the form that leave the script alone.
LEMMA FormStep ==
  ASSUME EditorInv, screen = "action",
         \/ \E m \in Motor : onClick(m)
         \/ \E progress \in 0 .. form.max : onStopTrackingTouch(progress)
         \/ AddValue \/ MinusValue \/ testAction
  PROVE  EditorInv'
<1>0. /\ IsForm(form) /\ form.action \in Motor /\ form.index \in Motor
      /\ form.pos \in Nat
      /\ form.request = "edit" => form.pos < Len(script)
      /\ LegalStart(form) /\ ~strayed => SliderInv(form)
  BY DEF EditorInv, FormInv
<1>1. UNCHANGED <<stored, screen, opened, script, current_pos, enabled, dialogs, strayed>>
  BY DEF onClick, onStopTrackingTouch, AddValue, MinusValue, ShowValue, testAction, Form,
         listvars
<1>2. ListInv'
  BY <1>1 DEF EditorInv, ListInv
<1> DEFINE Kept ==
      /\ IsForm(form') /\ form'.index \in Motor /\ SameStart(form, form')
      /\ LegalStart(form) /\ ~strayed => SliderInv(form')
<1>3. ASSUME Kept PROVE EditorInv'
  <2>1. LegalStart(form)' <=> LegalStart(form)
    BY <1>3 DEF LegalStart, SameStart
  <2>2. FormInv'
    BY <1>0, <1>1, <1>3, <2>1 DEF FormInv, SameStart
  <2>3. QED BY <1>2, <2>2 DEF EditorInv
<1>4. /\ Low[form.index] \in Int /\ High[form.index] \in Int
      /\ 0 <= Low[form.index] /\ Low[form.index] <= High[form.index]
  BY <1>0, LimitsTyped
<1>5. ASSUME NEW m \in Motor, onClick(m) PROVE Kept
  <2> DEFINE max == High[m] - Low[m]
  <2> DEFINE progress == Progress(form.states[m] - Low[m], max)
  <2> DEFINE f == Sent(form, FALSE)
  <2>1. form' = Another(f, m, form.states[m], max, progress)
    BY <1>5 DEF onClick, Form, Another
  <2>2. IsForm(f) /\ SameStart(form, f)
    <3> HIDE DEF f
    <3>1. f = Sent(form, FALSE)
      BY DEF f
    <3>2. QED BY <1>0, <3>1, FormSent
  <2>3. /\ IsForm(form') /\ SameStart(f, form')
        /\ form'.index = m /\ form'.value = form.states[m]
        /\ form'.max = max /\ form'.progress = progress
    <3> HIDE DEF max, progress, f
    <3> QED BY <2>1, <2>2, FormOfAnother
  <2>4. ASSUME LegalStart(form) PROVE SliderInv(form')
    <3>1. form.states[m] \in Int /\ Low[m] <= form.states[m] /\ form.states[m] <= High[m]
      BY <2>4 DEF LegalStart, Position
    <3>2. Low[m] \in Int /\ High[m] \in Int
      BY LimitsTyped
    <3>3. progress = form.states[m] - Low[m]
      BY <3>1, <3>2, ProgressInRange
    <3>4. QED BY <2>3, <3>1, <3>2, <3>3 DEF SliderInv
  <2>5. SameStart(form, form')
    <3> HIDE DEF f
    <3> QED BY <2>2, <2>3 DEF SameStart
  <2>6. QED BY <2>3, <2>4, <2>5
<1>6. ASSUME NEW progress, NEW v,
             form' = Shown(form, v, progress),
             LegalStart(form) /\ ~strayed =>
               progress \in Nat /\ progress <= form.max /\ v = progress + Low[form.index]
      PROVE  Kept
  <2>1. /\ IsForm(form') /\ SameStart(form, form')
        /\ form'.index = form.index /\ form'.value = v
        /\ form'.max = form.max /\ form'.progress = progress
    BY <1>0, <1>6, FormShown
  <2>2. QED BY <1>0, <1>6, <2>1 DEF SliderInv
<1>7. ASSUME NEW progress \in 0 .. form.max, onStopTrackingTouch(progress) PROVE Kept
  <2>1. form' = Shown(form, progress + Low[form.index], progress)
    <3>1. form' = [form EXCEPT !.progress = progress, !.value = progress + Low[form.index]]
      BY <1>7 DEF onStopTrackingTouch, Form
    <3>2. QED BY <1>0, <3>1 DEF Shown, IsForm
  <2>2. LegalStart(form) /\ ~strayed => progress \in Nat /\ progress <= form.max
    BY <1>0, <1>7 DEF SliderInv
  <2> HIDE DEF Kept
  <2>3. QED BY <1>6, <2>1, <2>2
<1>8. ASSUME NEW v, ShowValue(v),
             LegalStart(form) /\ ~strayed =>
               v \in Int /\ Low[form.index] <= v /\ v - Low[form.index] <= form.max
      PROVE  Kept
  <2> DEFINE progress == Progress(v - Low[form.index], form.max)
  <2>1. form' = Shown(form, v, progress)
    BY <1>8 DEF ShowValue, Form, Shown
  <2>2. LegalStart(form) /\ ~strayed =>
          progress \in Nat /\ progress <= form.max /\ v = progress + Low[form.index]
    <3> SUFFICES ASSUME LegalStart(form), ~strayed
                 PROVE  /\ progress \in Nat /\ progress <= form.max
                        /\ v = progress + Low[form.index]
      OBVIOUS
    <3>1. /\ v - Low[form.index] \in Int /\ form.max \in Int
          /\ 0 <= v - Low[form.index] /\ v - Low[form.index] <= form.max
      BY <1>0, <1>4, <1>8 DEF SliderInv
    <3>2. progress = v - Low[form.index]
      BY <3>1, ProgressInRange
    <3>3. QED BY <1>4, <1>8, <3>1, <3>2
  <2> HIDE DEF Kept, progress
  <2>3. QED BY <1>6, <2>1, <2>2
<1>9. ASSUME AddValue PROVE Kept
  <2> DEFINE v == form.value + 1
  <2>1. ShowValue(v) /\ form.value < High[form.index]
    BY <1>9 DEF AddValue
  <2>2. LegalStart(form) /\ ~strayed =>
          /\ v \in Int /\ Low[form.index] <= v
          /\ v - Low[form.index] <= form.max
    BY <1>0, <1>4, <2>1 DEF SliderInv
  <2> HIDE DEF Kept, v
  <2>3. QED BY <1>8, <2>1, <2>2
<1>10. ASSUME MinusValue PROVE Kept
  <2> DEFINE v == form.value - 1
  <2>1. ShowValue(v) /\ form.value > Low[form.index]
    BY <1>10 DEF MinusValue
  <2>2. LegalStart(form) /\ ~strayed =>
          /\ v \in Int /\ Low[form.index] <= v
          /\ v - Low[form.index] <= form.max
    BY <1>0, <1>4, <2>1 DEF SliderInv
  <2> HIDE DEF Kept, v
  <2>3. QED BY <1>8, <2>1, <2>2
<1>11. ASSUME testAction PROVE Kept
  <2>1. form' = Sent(form, TRUE)
    BY <1>11 DEF testAction, Form
  <2>2. /\ IsForm(form') /\ SameStart(form, form')
        /\ form'.index = form.index /\ form'.value = form.value
        /\ form'.max = form.max /\ form'.progress = form.progress
    BY <1>0, <2>1, FormSent
  <2>3. QED BY <1>0, <2>2 DEF SliderInv
<1> HIDE DEF Kept
<1>12. QED BY <1>3, <1>5, <1>7, <1>9, <1>10, <1>11

\* What is confirmed is a move of a motor.
LEMMA ConfirmedMotor ==
  ASSUME EditorInv, screen = "action" PROVE Confirmed.action \in Motor
  BY DEF EditorInv, FormInv, Confirmed

\* The steps between the two screens.
LEMMA ReturnStep ==
  ASSUME EditorInv, screen = "action",
         \/ RecreateAction \/ Destroy \/ Cancel
         \/ onActivityResult_new \/ onActivityResult_edit \/ onActivityResult_raises
  PROVE  EditorInv'
<1>0. /\ ListInv /\ FormInv
      /\ Len(script) \in Nat /\ Len(opened) \in Nat
      /\ form.action \in Motor /\ form.index \in Motor /\ form.pos \in Nat
      /\ form.request = "edit" => form.pos < Len(script)
  BY LengthOfScript DEF EditorInv, ListInv, FormInv
<1>1. CASE RecreateAction
  <2> DEFINE f == NewForm(form.request, form.action, form.given, form.states, form.pos)
  <2> DEFINE p == Progress(form.progress, f.max)
  <2>1. form' = [f EXCEPT !.progress = p]
    BY <1>1 DEF RecreateAction
  <2>2. /\ IsForm(f) /\ f.request = form.request /\ f.action = form.action
        /\ f.index = form.action /\ f.pos = form.pos
    <3> HIDE DEF f
    <3>1. f = NewForm(form.request, form.action, form.given, form.states, form.pos)
      BY DEF f
    <3>2. QED BY <1>0, <3>1, NewFormCorrect
  <2>3. UNCHANGED <<stored, screen, opened, script, current_pos, enabled, dialogs>> /\ strayed'
    BY <1>1 DEF RecreateAction, listvars
  <2>4. form' = Shown(f, f.value, p)
    <3> HIDE DEF f, p
    <3> QED BY <2>1, <2>2 DEF IsForm, Shown
  <2>5. IsForm(form') /\ SameStart(f, form') /\ form'.index = f.index
    <3> HIDE DEF f, p
    <3> QED BY <2>2, <2>4, FormShown
  <2>6. /\ form'.request = form.request /\ form'.action = form.action
        /\ form'.index = form.action /\ form'.pos = form.pos
    <3> HIDE DEF f
    <3> QED BY <2>2, <2>5 DEF SameStart
  <2>7. ListInv'
    BY <1>0, <2>3 DEF ListInv
  <2>8. FormInv'
    BY <1>0, <2>3, <2>5, <2>6 DEF FormInv
  <2>9. QED BY <2>7, <2>8 DEF EditorInv
<1>2. CASE Destroy
  BY <1>0, <1>2 DEF Destroy, listvars, EditorInv, ListInv, FormInv
<1>3. CASE Cancel
  BY <1>0, <1>3 DEF Cancel, Create, finish, EditorInv, ListInv, FormInv
<1>4. CASE onActivityResult_new
  <2> DEFINE list == IF destroyed THEN opened ELSE script
  <2>1. /\ script' = Append(list, Confirmed) /\ stored' = script' /\ screen' = "script"
        /\ opened' = opened /\ dialogs' = dialogs
        /\ IF destroyed THEN current_pos' = 0 /\ enabled' = FALSE
                        ELSE current_pos' = current_pos /\ enabled' = enabled
    BY <1>4 DEF onActivityResult_new, updateDatabase, finish
  <2>2. IsScript(list) /\ Len(list) \in Nat
    BY <1>0 DEF ListInv
  <2>3. IsScript(script') /\ Len(script') = Len(list) + 1
    <3> HIDE DEF list
    <3> QED BY <2>1, <2>2, ConfirmedMotor, AppendToScript
  <2>4. ListInv'
    BY <1>0, <2>1, <2>2, <2>3 DEF ListInv
  <2>5. QED BY <2>1, <2>4 DEF EditorInv, FormInv
<1>5. CASE onActivityResult_edit
  <2>1. /\ script' = [script EXCEPT ![form.pos + 1] = Confirmed]
        /\ stored' = script' /\ screen' = "script" /\ opened' = opened
        /\ dialogs' = dialogs /\ current_pos' = form.pos /\ form.request = "edit"
    BY <1>5 DEF onActivityResult_edit, Confirm, updateDatabase, finish
  <2>2. form.pos + 1 \in 1 .. Len(script)
    BY <1>0, <2>1
  <2>3. IsScript(script') /\ Len(script') = Len(script)
    BY <1>0, <2>1, <2>2, ConfirmedMotor, ReplaceInScript DEF ListInv
  <2>4. ListInv'
    BY <1>0, <2>1, <2>3 DEF ListInv
  <2>5. QED BY <2>1, <2>4 DEF EditorInv, FormInv
<1>6. CASE onActivityResult_raises
  BY <1>0, <1>6 DEF onActivityResult_raises, finish, EditorInv, ListInv, FormInv
<1>7. QED BY <1>1, <1>2, <1>3, <1>4, <1>5, <1>6

LEMMA EditorStep == EditorInv /\ [Next]_vars => EditorInv'
<1> SUFFICES ASSUME EditorInv, [Next]_vars PROVE EditorInv'
  OBVIOUS
<1>1. CASE ScriptScreen
  BY <1>1, ScriptScreenStep
<1>2. CASE ActionScreen
  BY <1>2, FormStep, ReturnStep DEF ActionScreen
<1>3. CASE UNCHANGED vars
  BY <1>3 DEF vars, listvars, EditorInv, ListInv, FormInv
<1>4. QED BY <1>1, <1>2, <1>3 DEF Next

LEMMA EditorAlways == Spec => []EditorInv
<1>1. QED BY EditorInit, EditorStep, PTL DEF Spec

-----------------------------------------------------------------------------
\* In every script and for any number of dialogs, the buttons that edit and delete,
\* the first of the dialogs to be confirmed and a confirmed edit mean a row the list
\* has: removeItem, ToEditAction and onActivityResult do not index the list outside its
\* bounds.  A dialog that is left after another one removed its row means the row that
\* moved up, or the one after the last, where it raises (removeItem_raises).
THEOREM EditorSelectedInList == Spec => []SelectedInList
<1>1. EditorInv => SelectedInList
  BY DEF EditorInv, ListInv, FormInv, SelectedInList
<1>2. QED BY <1>1, EditorAlways, PTL

\* With any limits, what AddAction reads from the slider is the number the form
\* shows, when the form starts from legal positions and was not created again:
\* the high limit as the slider's maximum is never too small.
THEOREM EditorSliderMatchesValue == Spec => []SliderMatchesValue
<1>1. EditorInv => SliderMatchesValue
  BY DEF EditorInv, FormInv, LegalStart, SliderInv, SliderMatchesValue
<1>2. QED BY <1>1, EditorAlways, PTL

-----------------------------------------------------------------------------
(***************************************************************************)
(* What a save changes.                                                    *)
(***************************************************************************)
\* While a script is open and every change of it was saved, the store holds it.
SavedInv == screen # "list" /\ ~unsaved => stored = script

LEMMA SavedInit == Init => SavedInv
  BY DEF Init, SavedInv

LEMMA SavedStep == SavedInv /\ [Next]_vars => SavedInv'
<1> SUFFICES ASSUME SavedInv, [Next]_vars PROVE SavedInv'
  OBVIOUS
<1>1. CASE ScriptScreen
  <2>1. CASE Open
    BY <2>1 DEF Open, Create, SavedInv
  <2>2. CASE Leave
    BY <2>2 DEF Leave, SavedInv
  <2>3. CASE Recreate
    BY <2>3 DEF Recreate, Create, SavedInv
  <2>4. CASE removeItem
    BY <2>4 DEF removeItem, SavedInv
  <2>5. CASE UNCHANGED <<stored, script, unsaved>> /\ (screen = "script" \/ screen' = screen)
    BY <2>5 DEF SavedInv
  <2>6. CASE removeItem_raises
    BY <2>6 DEF removeItem_raises, SavedInv
  <2>7. QED
    BY <1>1, <2>1, <2>2, <2>3, <2>4, <2>5, <2>6
       DEF ScriptScreen, onItemClick, ToDelete, Dismiss, Ready, ToAddAction, ToEditAction, startActivityForResult,
           listvars
<1>2. CASE ActionScreen
  <2>1. CASE screen' = "list"
    BY <2>1 DEF SavedInv
  <2>2. CASE Cancel
    BY <1>2, <2>2 DEF ActionScreen, Cancel, Create, finish, SavedInv
  <2>3. CASE onActivityResult_new \/ onActivityResult_edit
    BY <2>3 DEF onActivityResult_new, onActivityResult_edit, updateDatabase, SavedInv
  <2>4. CASE onActivityResult_raises
    BY <2>4 DEF onActivityResult_raises, SavedInv
  <2>5. CASE UNCHANGED <<stored, script, unsaved>> /\ screen = "action"
    BY <2>5 DEF SavedInv
  <2>6. QED
    BY <1>2, <2>2, <2>3, <2>4, <2>5
       DEF ActionScreen, onClick, onStopTrackingTouch, AddValue, MinusValue, ShowValue,
           testAction, Form, RecreateAction, Destroy, listvars
<1>3. CASE UNCHANGED vars
  BY <1>3 DEF vars, listvars, SavedInv
<1>4. QED BY <1>1, <1>2, <1>3 DEF Next

\* In every script, a save after which the store differs appends the confirmed
\* action or replaces one action, whenever all changes before it were saved and
\* the screen was not created again: updateDatabase writes the whole list, yet
\* undoes nothing and brings nothing in that was not confirmed.
THEOREM EditorOneChangeAtATime == Spec => OneChangeAtATime
<1>1. ASSUME EditorInv, SavedInv, [Next]_vars, stored' # stored, ~unsaved, ~destroyed
      PROVE  \/ stored' = Append(stored, Last(stored'))
             \/ \E i \in DOMAIN stored : stored' = [stored EXCEPT ![i] = stored'[i]]
  <2>1. screen = "action" /\ (onActivityResult_new \/ onActivityResult_edit)
    BY <1>1 DEF Next, ScriptScreen, Open, Leave, Recreate, onItemClick, ToDelete, Dismiss,
                removeItem, removeItem_raises, Ready,
                ToAddAction, ToEditAction, startActivityForResult, ActionScreen, onClick,
                onStopTrackingTouch, AddValue, MinusValue, ShowValue, testAction, Form,
                RecreateAction, Destroy, Cancel, onActivityResult_raises, vars
  <2>2. stored = script
    BY <1>1, <2>1 DEF SavedInv
  <2>3. PICK S : stored \in Seq(S)
    BY <1>1 DEF EditorInv, ListInv, IsScript
  <2> DEFINE b == Confirmed
  <2> DEFINE T == S \cup {b}
  <2>4. stored \in Seq(T) /\ b \in T
    BY <2>3
  <2>5. CASE onActivityResult_new
    <3>1. stored' = Append(stored, b)
      BY <1>1, <2>2, <2>5 DEF onActivityResult_new, updateDatabase
    <3> HIDE DEF b, T
    <3>2. Append(stored, b)[Len(Append(stored, b))] = b
      BY <2>4
    <3>3. QED BY <3>1, <3>2 DEF Last
  <2>6. CASE onActivityResult_edit
    <3> DEFINE i == form.pos + 1
    <3>1. stored' = [stored EXCEPT ![i] = b]
      BY <2>2, <2>6 DEF onActivityResult_edit, updateDatabase
    <3>2. i \in 1 .. Len(script)
      BY <1>1, <2>1, <2>6, LengthOfScript
         DEF EditorInv, ListInv, FormInv, onActivityResult_edit, Confirm
    <3> HIDE DEF b, i, T
    <3>3. i \in DOMAIN stored /\ stored'[i] = b
      BY <2>2, <2>4, <3>1, <3>2
    <3>4. QED BY <3>1, <3>3
  <2>7. QED BY <2>1, <2>5, <2>6
<1>2. QED BY <1>1, EditorInit, EditorStep, SavedInit, SavedStep, PTL
          DEF Spec, OneChangeAtATime

-----------------------------------------------------------------------------
(***************************************************************************)
(* What the moves of a script add up to.                                   *)
(***************************************************************************)
AnyPosition == [Motor -> Int]

Added(q, b) == [q EXCEPT ![b.action] = @ + b.value]

\* at[n] is the position after the first n actions.
IsAdding(at, actions) ==
  /\ at \in [0 .. Len(actions) -> AnyPosition] /\ at[0] = Home
  /\ \A n \in 1 .. Len(actions) : at[n] = Added(at[n - 1], actions[n])

LEMMA AddedType ==
  ASSUME NEW q \in AnyPosition, NEW b \in Behavior
  PROVE  /\ Added(q, b) \in AnyPosition /\ Added(q, b)[b.action] = q[b.action] + b.value
         /\ b.action \in Motor /\ b.value \in Int /\ q[b.action] \in Int
<1>1. b.action \in Motor /\ b.value \in Int
  BY DEF Behavior
<1>2. q[b.action] \in Int
  BY <1>1 DEF AnyPosition
<1>3. QED BY <1>1, <1>2 DEF Added, AnyPosition

LEMMA AddingRun ==
  ASSUME NEW actions \in Seq(Behavior)
  PROVE  \E at : IsAdding(at, actions) /\ AccStates(actions) = at[Len(actions)]
<1> DEFINE N == Len(actions)
           Step(q, n) == Added(q, actions[n])
           h == [x \in AnyPosition \X (1 .. N) |-> Step(x[1], x[2])]
           Eq(at) == at = [n \in 0 .. N |-> IF n = 0 THEN Home ELSE Step(at[n - 1], n)]
           run == CHOOSE at : Eq(at)
<1>1. N \in Nat /\ Home \in AnyPosition
  BY LimitsAssumption DEF AnyPosition
<1>2. \A q \in AnyPosition, n \in 1 .. N : Step(q, n) \in AnyPosition
  BY AddedType, ElementOfSeq
<1>3. AccStates(actions) = run[N]
  BY DEF AccStates, Added
<1>4. SUFFICES \E f \in [0 .. N -> AnyPosition] :
                 /\ f[0] = Home /\ f[N] = run[N]
                 /\ \A n \in 1 .. N : f[n] = Step(f[n - 1], n)
  BY <1>3, Zenon DEF IsAdding
<1> HIDE DEF Step, N
<1>5. h \in [AnyPosition \X (1 .. N) -> AnyPosition]
  BY <1>2
<1>6. PICK f : IsRun(f, Home, h, N, AnyPosition)
  <2> HIDE DEF h
  <2> QED BY <1>1, <1>5, RunExists
<1>7. f \in [0 .. N -> AnyPosition] /\ f[0] = Home
  BY <1>6 DEF IsRun
<1>8. ASSUME NEW n \in 1 .. N PROVE f[n] = Step(f[n - 1], n)
  <2>1. f[n - 1] \in AnyPosition
    BY <1>1, <1>7
  <2>2. h[<<f[n - 1], n>>] = Step(f[n - 1], n)
    BY <2>1
  <2> HIDE DEF h
  <2>3. QED BY <1>6, <2>2 DEF IsRun
<1>9. Eq(f)
  <2>1. ASSUME NEW n \in 0 .. N
        PROVE  f[n] = IF n = 0 THEN Home ELSE Step(f[n - 1], n)
    BY <1>1, <1>7, <1>8
  <2>2. QED BY <1>7, <2>1
<1>10. Eq(run)
  <2> HIDE DEF Eq
  <2> QED BY <1>9
<1>11. run[0] = Home /\ \A n \in 1 .. N : run[n] = Step(run[n - 1], n)
  <2> HIDE DEF run
  <2>1. 0 \in 0 .. N /\ \A n \in 1 .. N : n \in 0 .. N /\ n # 0
    BY <1>1
  <2>2. QED BY <1>10, <2>1
<1>12. f[N] = run[N]
  <2> HIDE DEF run, h
  <2>1. StepAlike(f, run, N)
    BY <1>8, <1>11 DEF StepAlike
  <2>2. Alike(f, run, N)
    BY <1>1, <1>7, <1>11, <2>1, SameRun
  <2>3. QED BY <1>1, <2>2 DEF Alike
<1>13. QED
  <2> HIDE DEF run, h
  <2> QED BY <1>7, <1>8, <1>12

LEMMA AccType ==
  ASSUME NEW actions \in Seq(Behavior)
  PROVE  AccStates(actions) \in AnyPosition
<1>1. PICK at : IsAdding(at, actions) /\ AccStates(actions) = at[Len(actions)]
  BY AddingRun
<1>2. Len(actions) \in 0 .. Len(actions)
  OBVIOUS
<1>3. QED BY <1>1, <1>2 DEF IsAdding

LEMMA AccNone == AccStates(<<>>) = Home
<1>1. <<>> \in Seq(Behavior) /\ Len(<<>>) = 0
  OBVIOUS
<1>2. PICK at : IsAdding(at, <<>>) /\ AccStates(<<>>) = at[Len(<<>>)]
  BY <1>1, AddingRun
<1>3. QED BY <1>1, <1>2 DEF IsAdding

LEMMA AccAppend ==
  ASSUME NEW actions \in Seq(Behavior), NEW b \in Behavior
  PROVE  AccStates(Append(actions, b)) = Added(AccStates(actions), b)
<1> DEFINE longer == Append(actions, b)
           N == Len(actions)
<1>1. /\ N \in Nat /\ longer \in Seq(Behavior) /\ Len(longer) = N + 1
      /\ longer[N + 1] = b /\ \A i \in 1 .. N : longer[i] = actions[i]
  BY AppendProperties
<1> HIDE DEF longer
<1>2. PICK f : IsAdding(f, longer) /\ AccStates(longer) = f[Len(longer)]
  BY <1>1, AddingRun
<1>3. PICK g : IsAdding(g, actions) /\ AccStates(actions) = g[N]
  BY AddingRun
<1>4. f[0] = Home /\ \A n \in 1 .. N + 1 : f[n] = Added(f[n - 1], longer[n])
  BY <1>1, <1>2 DEF IsAdding
<1>5. g[0] = Home /\ \A n \in 1 .. N : g[n] = Added(g[n - 1], actions[n])
  BY <1>3 DEF IsAdding
<1> HIDE DEF N
<1>6. StepAlike(f, g, N)
  BY <1>1, <1>4, <1>5 DEF StepAlike
<1>7. Alike(f, g, N)
  BY <1>1, <1>4, <1>5, <1>6, SameRun
<1>8. f[N] = g[N]
  BY <1>1, <1>7 DEF Alike
<1>9. f[N + 1] = Added(f[N], b)
  <2>1. N + 1 \in 1 .. N + 1 /\ (N + 1) - 1 = N
    BY <1>1
  <2>2. QED BY <1>1, <1>4, <2>1
<1>10. AccStates(longer) = f[N + 1]
  BY <1>1, <1>2
<1>11. QED BY <1>3, <1>8, <1>9, <1>10 DEF longer

\* What playing does with one action more.
MovesOf(actions) == [i \in DOMAIN actions |-> <<actions[i].action, actions[i].value>>]

LEMMA MovesType ==
  ASSUME NEW actions \in Seq(Behavior)
  PROVE  MovesOf(actions) \in Seq(Int \X Int) /\ Len(MovesOf(actions)) = Len(actions)
<1>1. ASSUME NEW i \in 1 .. Len(actions)
      PROVE  <<actions[i].action, actions[i].value>> \in Int \X Int
  <2>1. actions[i] \in Behavior
    BY ElementOfSeq
  <2>2. actions[i].action \in Int /\ actions[i].value \in Int
    BY <2>1, MotorsAssumption DEF Behavior, Motor
  <2>3. QED BY <2>2
<1>2. DOMAIN actions = 1 .. Len(actions) /\ Len(actions) \in Nat
  BY LenProperties
<1>3. MovesOf(actions) \in [1 .. Len(actions) -> Int \X Int]
  BY <1>1, <1>2 DEF MovesOf
<1>4. QED BY <1>2, <1>3

LEMMA PlayedLegal ==
  ASSUME NEW actions \in Seq(Behavior)
  PROVE  Played(actions) \in Position
<1>1. MovesOf(actions) \in Seq(Int \X Int)
  BY MovesType
<1>2. Acted(Home, MovesOf(actions)) \in Position
  BY <1>1, HomeIsLegal, ActedLegal
<1>3. QED BY <1>2 DEF Played, MovesOf

LEMMA PlayedNone == Played(<<>>) = Home
<1>1. MovesOf(<<>>) = <<>>
  BY DEF MovesOf
<1>2. Acted(Home, <<>>) = Home
  BY HomeIsLegal, ActedNone
<1>3. QED BY <1>1, <1>2 DEF Played, MovesOf

LEMMA PlayedAppend ==
  ASSUME NEW actions \in Seq(Behavior), NEW b \in Behavior
  PROVE  Played(Append(actions, b)) = do_action(Played(actions), b.action, b.value)
<1> DEFINE longer == Append(actions, b)
           N == Len(actions)
           move == <<b.action, b.value>>
<1>1. /\ N \in Nat /\ longer \in Seq(Behavior) /\ Len(longer) = N + 1
      /\ longer[N + 1] = b /\ \A i \in 1 .. N : longer[i] = actions[i]
  BY AppendProperties
<1>2. b.action \in Int /\ b.value \in Int
  BY MotorsAssumption DEF Behavior, Motor
<1>3. move \in Int \X Int
  BY <1>2
<1>4. DOMAIN longer = 1 .. N + 1 /\ DOMAIN actions = 1 .. N
  <2> HIDE DEF longer
  <2>1. QED BY <1>1, LenProperties
<1>5. MovesOf(longer) = Append(MovesOf(actions), move)
  <2> DEFINE s == MovesOf(longer)
             t == Append(MovesOf(actions), move)
  <2> HIDE DEF longer
  <2>1. s \in Seq(Int \X Int) /\ Len(s) = N + 1
    BY <1>1, MovesType
  <2>2. \A i \in 1 .. N + 1 : s[i] = <<longer[i].action, longer[i].value>>
    BY <1>4 DEF MovesOf
  <2>3. MovesOf(actions) \in Seq(Int \X Int) /\ Len(MovesOf(actions)) = N
    BY MovesType
  <2>4. \A i \in 1 .. N : MovesOf(actions)[i] = <<actions[i].action, actions[i].value>>
    BY <1>4 DEF MovesOf
  <2> HIDE DEF s, move, N
  <2>5. /\ t \in Seq(Int \X Int) /\ Len(t) = N + 1 /\ t[N + 1] = move
        /\ \A i \in 1 .. N : t[i] = MovesOf(actions)[i]
    BY <1>3, <2>3, AppendProperties
  <2> HIDE DEF t
  <2>6. ASSUME NEW i \in 1 .. N + 1 PROVE s[i] = t[i]
    <3>1. CASE i = N + 1
      BY <1>1, <2>2, <2>5, <3>1 DEF move
    <3>2. CASE i # N + 1
      <4>1. i \in 1 .. N
        BY <1>1, <3>2
      <4>2. QED BY <1>1, <2>2, <2>4, <2>5, <4>1
    <3>3. QED BY <3>1, <3>2
  <2>7. s = t
    BY <2>1, <2>5, <2>6, SeqEqual
  <2>8. QED BY <2>7 DEF s, t
<1>6. Acted(Home, Append(MovesOf(actions), <<b.action, b.value>>))
        = do_action(Acted(Home, MovesOf(actions)), b.action, b.value)
  BY <1>2, MovesType, HomeIsLegal, ActedAppend
<1>7. Played(longer) = Acted(Home, MovesOf(longer))
      /\ Played(actions) = Acted(Home, MovesOf(actions))
  BY DEF Played, MovesOf
<1>8. QED
  <2> HIDE DEF longer
  <2>1. Played(longer) = do_action(Played(actions), b.action, b.value)
    BY <1>5, <1>6, <1>7
  <2>2. QED BY <2>1 DEF longer

-----------------------------------------------------------------------------
(***************************************************************************)
(* Types.                                                                  *)
(***************************************************************************)
LEMMA PrefixType ==
  ASSUME NEW s \in Seq(Behavior), NEW k \in 0 .. Len(s)
  PROVE  /\ SubSeq(s, 1, k) \in Seq(Behavior) /\ Len(SubSeq(s, 1, k)) = k
         /\ \A i \in 1 .. k : SubSeq(s, 1, k)[i] = s[i]
  OBVIOUS

LEMMA RemoveType ==
  ASSUME NEW s \in Seq(Behavior), NEW k \in 1 .. Len(s)
  PROVE  RemoveAt(s, k) \in Seq(Behavior)
<1> DEFINE left == SubSeq(s, 1, k - 1)
           right == SubSeq(s, k + 1, Len(s))
<1>1. left \in Seq(Behavior) /\ right \in Seq(Behavior)
  OBVIOUS
<1>2. left \o right \in Seq(Behavior)
  <2> HIDE DEF left, right
  <2>1. QED BY <1>1
<1>3. QED BY <1>2 DEF RemoveAt

\* An action in place of another.
LEMMA ReplaceType ==
  ASSUME NEW s \in Seq(Behavior), NEW b \in Behavior, NEW k
  PROVE  [s EXCEPT ![k] = b] \in Seq(Behavior)
<1>1. s \in [1 .. Len(s) -> Behavior] /\ Len(s) \in Nat
  OBVIOUS
<1>2. [s EXCEPT ![k] = b] \in [1 .. Len(s) -> Behavior]
  BY <1>1
<1>3. QED BY <1>1, <1>2

LEMMA ProgressType ==
  ASSUME NEW x \in Int, NEW max \in Nat
  PROVE  Progress(x, max) \in 0 .. max
  BY DEF Progress

\* The slider of a form.
SliderRange(f) ==
  /\ f.progress <= f.max
  /\ f.max \in {High[f.index], High[f.index] - Low[f.index]}

LEMMA NewFormType ==
  ASSUME NEW request \in {"new", "edit"}, NEW action \in Motor, NEW given \in Int,
         NEW states \in AnyPosition, NEW pos \in Nat,
         NEW f, f = NewForm(request, action, given, states, pos)
  PROVE  f \in FormType /\ SliderRange(f)
<1> DEFINE value == given + states[action]
           progress == Progress(value - Low[action], High[action])
           toward == [states EXCEPT ![action] = value]
<1>1. Low[action] \in Int /\ High[action] \in Nat
  BY LimitsTyped
<1>2. value \in Int
  BY DEF AnyPosition
<1> HIDE DEF value
<1>3. progress \in 0 .. High[action]
  <2>1. value - Low[action] \in Int
    BY <1>1, <1>2
  <2>2. QED BY <1>1, <2>1, ProgressType
<1>4. toward \in AnyPosition
  BY <1>2 DEF AnyPosition
<1> HIDE DEF progress, toward
<1>5. f = [request |-> request, action |-> action, given |-> given, states |-> states,
           pos |-> pos, index |-> action, value |-> value, max |-> High[action],
           progress |-> progress, toward |-> toward]
  BY DEF NewForm, value, progress, toward
<1>6. f \in FormType
  BY <1>1, <1>2, <1>3, <1>4, <1>5 DEF FormType, AnyPosition
<1>7. QED BY <1>3, <1>5, <1>6 DEF SliderRange

\* What a typed form is made of.
LEMMA FormFields ==
  ASSUME NEW f \in FormType
  PROVE  /\ f.request \in {"new", "edit"} /\ f.action \in Motor /\ f.given \in Int
         /\ f.states \in AnyPosition /\ f.pos \in Nat /\ f.index \in Motor /\ f.value \in Int
         /\ f.max \in Nat /\ f.progress \in Nat /\ f.toward \in AnyPosition
         /\ f # NoForm /\ f.states[f.index] \in Int /\ IsForm(f)
<1>1. /\ f.request \in {"new", "edit"} /\ f.action \in Motor /\ f.given \in Int
      /\ f.states \in AnyPosition /\ f.pos \in Nat /\ f.index \in Motor /\ f.value \in Int
      /\ f.max \in Nat /\ f.progress \in Nat /\ f.toward \in AnyPosition
  BY DEF FormType, AnyPosition
<1>2. f # NoForm
  <2>1. NoForm.request = "none"
    BY DEF NoForm
  <2>2. QED BY <1>1, <2>1
<1>3. IsForm(f)
  BY DEF FormType, IsForm
<1>4. QED BY <1>1, <1>2, <1>3 DEF AnyPosition

\* A record of typed fields.
LEMMA TypedForm ==
  ASSUME NEW f, IsForm(f),
         f.request \in {"new", "edit"}, f.action \in Motor, f.given \in Int,
         f.states \in AnyPosition, f.pos \in Nat, f.index \in Motor, f.value \in Int,
         f.max \in Nat, f.progress \in Nat, f.toward \in AnyPosition
  PROVE  f \in FormType
  BY DEF IsForm, FormType, AnyPosition

FormOK ==
  /\ form \in FormType \cup {NoForm}
  /\ (screen = "action") <=> (form # NoForm)
  /\ screen = "action" => SliderRange(form)

LEMMA TypeParts ==
  TypeOK <=>
    /\ stored \in Seq(Behavior) /\ opened \in Seq(Behavior) /\ script \in Seq(Behavior)
    /\ screen \in {"list", "script", "action"}
    /\ current_pos \in Nat /\ enabled \in BOOLEAN
    /\ dialogs \in 0 .. MaxPresses /\ (dialogs > 0 => screen = "script")
    /\ FormOK
    /\ destroyed \in BOOLEAN
    /\ changes \in 0 .. MaxChanges
    /\ strayed \in BOOLEAN /\ unsaved \in BOOLEAN /\ disturbed \in BOOLEAN
  BY DEF TypeOK, FormOK, SliderRange

LEMMA ConfirmedType ==
  ASSUME TypeOK, screen = "action"
  PROVE  Confirmed \in Behavior
<1>1. form \in FormType
  BY DEF TypeOK
<1>2. form.index \in Motor /\ form.progress \in Nat /\ form.states[form.index] \in Int
  BY <1>1, FormFields
<1>3. Low[form.index] \in Int
  BY <1>2, LimitsTyped
<1>4. QED BY <1>2, <1>3 DEF Confirmed, Behavior

LEMMA TypeInit == Init => TypeOK
<1> SUFFICES ASSUME Init PROVE TypeOK
  OBVIOUS
<1>1. stored \in Seq(Behavior)
  BY EditorAssumption DEF Init
<1>2. FormOK
  BY DEF Init, FormOK
<1>3. changes \in 0 .. MaxChanges
  BY EditorAssumption DEF Init
<1>4. 0 \in 0 .. MaxPresses
  BY EditorAssumption
<1>5. dialogs \in 0 .. MaxPresses /\ ~(dialogs > 0)
  BY <1>4 DEF Init
<1>6. QED BY <1>1, <1>2, <1>3, <1>5, TypeParts DEF Init

LEMMA ScriptScreenTypes == EditorInv /\ TypeOK /\ ScriptScreen => TypeOK'
<1> SUFFICES ASSUME EditorInv, TypeOK, ScriptScreen PROVE TypeOK'
  OBVIOUS
<1>0. ListInv /\ Len(script) \in Nat /\ 0 \in 0 .. MaxPresses
  BY LengthOfScript, EditorAssumption DEF EditorInv, ListInv
<1>1. CASE Open
  BY <1>1 DEF Open, Create, TypeOK
<1>2. CASE Leave
  BY <1>2 DEF Leave, Ready, listvars, TypeOK
<1>3. CASE Recreate
  <2>1. dialogs' = 0 /\ screen' = "script"
    BY <1>3 DEF Recreate
  <2>2. dialogs' \in 0 .. MaxPresses
    BY <1>0, <2>1
  <2>3. QED BY <1>3, <2>1, <2>2 DEF Recreate, Create, TypeOK
<1>4. CASE \E position \in 0 .. Len(script) - 1 : onItemClick(position)
  BY <1>0, <1>4 DEF onItemClick, Ready, TypeOK
<1>5. CASE removeItem
  <2>1. current_pos + 1 \in 1 .. Len(script)
    BY <1>0, <1>5 DEF removeItem, ListInv
  <2>2. script' \in Seq(Behavior)
    BY <1>5, <2>1, RemoveType DEF removeItem, TypeOK
  <2>3. disturbed' \in BOOLEAN
    BY <1>5 DEF removeItem
  <2>4. dialogs' \in 0 .. MaxPresses /\ screen = "script"
    BY <1>5, EditorAssumption DEF removeItem, TypeOK
  <2>5. QED BY <1>5, <2>2, <2>3, <2>4 DEF removeItem, TypeOK
<1>6. ASSUME NEW f \in FormType, SliderRange(f), Ready, startActivityForResult(f)
      PROVE  TypeOK'
  <2>1. f # NoForm
    BY FormFields
  <2>2. FormOK'
    BY <1>6, <2>1 DEF startActivityForResult, FormOK, SliderRange
  <2>3. /\ screen' = "action" /\ destroyed' = FALSE /\ strayed' = FALSE
        /\ UNCHANGED <<stored, opened, script, current_pos, enabled, dialogs, changes,
                       unsaved, disturbed>>
    BY <1>6 DEF startActivityForResult, listvars
  <2>4. dialogs' \in 0 .. MaxPresses /\ ~(dialogs' > 0)
    BY <1>0, <1>6, <2>3 DEF Ready
  <2>5. QED BY <2>2, <2>3, <2>4, TypeParts DEF TypeOK, FormOK, SliderRange
<1>7. CASE ToAddAction
  <2> DEFINE f == NewForm("new", 0, 0, AccStates(script), current_pos)
  <2>1. 0 \in Motor /\ AccStates(script) \in AnyPosition /\ current_pos \in Nat
    BY MotorsAssumption, AccType DEF Motor, TypeOK
  <2>2. f \in FormType /\ SliderRange(f)
    BY <2>1, NewFormType
  <2>3. Ready /\ startActivityForResult(f)
    BY <1>7 DEF ToAddAction
  <2> HIDE DEF f
  <2>4. QED BY <1>6, <2>2, <2>3
<1>8. CASE ToEditAction
  <2> DEFINE edited == script[current_pos + 1]
             prefix == SubSeq(script, 1, current_pos)
             f == NewForm("edit", edited.action, edited.value, AccStates(prefix), current_pos)
  <2>1. current_pos + 1 \in 1 .. Len(script) /\ current_pos \in 0 .. Len(script)
    BY <1>0, <1>8 DEF ToEditAction, ListInv
  <2>2. script \in Seq(Behavior)
    BY DEF TypeOK
  <2>3. edited \in Behavior
    BY <2>1, <2>2, ElementOfSeq
  <2>4. edited.action \in Motor /\ edited.value \in Int
    BY <2>3 DEF Behavior
  <2>5. prefix \in Seq(Behavior) /\ current_pos \in Nat
    BY <2>1, <2>2, PrefixType
  <2>6. Ready /\ startActivityForResult(f)
    BY <1>8 DEF ToEditAction
  <2> HIDE DEF edited, prefix
  <2>7. f \in FormType /\ SliderRange(f)
    BY <2>4, <2>5, AccType, NewFormType
  <2> HIDE DEF f
  <2>8. QED BY <1>6, <2>6, <2>7
<1>9. CASE ToDelete \/ Dismiss
  <2>1. dialogs' \in 0 .. MaxPresses /\ screen' = "script"
    BY <1>9, EditorAssumption DEF ToDelete, Dismiss, TypeOK
  <2>2. QED BY <1>9, <2>1 DEF ToDelete, Dismiss, TypeOK
<1>10. CASE removeItem_raises
  <2>1. dialogs' = 0 /\ dialogs' \in 0 .. MaxPresses
    BY <1>0, <1>10 DEF removeItem_raises
  <2>2. QED BY <1>10, <2>1 DEF removeItem_raises, TypeOK
<1>11. QED BY <1>1, <1>2, <1>3, <1>4, <1>5, <1>7, <1>8, <1>9, <1>10 DEF ScriptScreen

LEMMA FormTypes ==
  ASSUME EditorInv, TypeOK, screen = "action",
         \/ \E m \in Motor : onClick(m)
         \/ \E progress \in 0 .. form.max : onStopTrackingTouch(progress)
         \/ AddValue \/ MinusValue \/ testAction
  PROVE  TypeOK'
<1>1. form \in FormType /\ SliderRange(form)
  BY DEF TypeOK, SliderRange
<1>2. /\ form.request \in {"new", "edit"} /\ form.action \in Motor /\ form.given \in Int
      /\ form.states \in AnyPosition /\ form.pos \in Nat /\ form.index \in Motor
      /\ form.value \in Int /\ form.max \in Nat /\ form.progress \in Nat
      /\ form.toward \in AnyPosition
  BY <1>1, FormFields
<1>3. \A m \in Motor : Low[m] \in Int /\ High[m] - Low[m] \in Nat
  BY LimitsTyped
<1>4. UNCHANGED <<stored, screen, listvars, destroyed, changes, strayed, unsaved, disturbed>>
  BY DEF onClick, onStopTrackingTouch, AddValue, MinusValue, ShowValue, testAction, Form
<1>5. ASSUME form' \in FormType, SliderRange(form') PROVE TypeOK'
  <2>1. form' # NoForm
    BY <1>5, FormFields
  <2>2. FormOK'
    BY <1>4, <1>5, <2>1 DEF FormOK, SliderRange, NoForm
  <2>3. QED BY <1>4, <2>2, TypeParts DEF listvars, TypeOK, FormOK, SliderRange
<1>6. ASSUME NEW a \in BOOLEAN
      PROVE  Sent(form, a) \in FormType
  <2> DEFINE w == IF a THEN [form.states EXCEPT ![form.index] = form.value] ELSE form.states
  <2>1. w \in AnyPosition
    BY <1>2 DEF AnyPosition
  <2>2. Sent(form, a) = [form EXCEPT !.toward = w]
    BY DEF Sent
  <2> HIDE DEF w
  <2>3. QED BY <1>1, <2>1, <2>2 DEF FormType, AnyPosition
<1>7. ASSUME NEW m \in Motor, onClick(m) PROVE TypeOK'
  <2> DEFINE max == High[m] - Low[m]
             progress == Progress(form.states[m] - Low[m], max)
             f == Sent(form, FALSE)
  <2>1. form' = [f EXCEPT !.index = m, !.value = form.states[m], !.max = max,
                          !.progress = progress]
    BY <1>7 DEF onClick, Form
  <2>2. form.states[m] \in Int /\ max \in Nat
    BY <1>2, <1>3 DEF AnyPosition
  <2>3. progress \in 0 .. max
    <3>1. form.states[m] - Low[m] \in Int
      BY <1>3, <2>2
    <3> HIDE DEF max
    <3>2. QED BY <2>2, <3>1, ProgressType
  <2>4. f \in FormType
    BY <1>6
  <2> HIDE DEF f, progress
  <2>5. form' \in FormType /\ form'.max = max /\ form'.progress = progress /\ form'.index = m
    <3> HIDE DEF max
    <3> DEFINE v == form.states[m]
    <3>1. form' = Another(f, m, v, max, progress)
      BY <2>1 DEF Another
    <3>2. v \in Int /\ progress \in Nat
      BY <2>2, <2>3
    <3> HIDE DEF v
    <3>3. /\ IsForm(form') /\ SameStart(f, form') /\ form'.index = m /\ form'.value = v
          /\ form'.max = max /\ form'.progress = progress
      BY <2>4, <3>1, FormFields, FormOfAnother
    <3>4. form'.toward = f.toward
      <4>1. IsForm(f)
        BY <2>4, FormFields
      <4>2. QED BY <3>1, <4>1 DEF IsForm, Another
    <3>5. form' \in FormType
      BY <2>2, <2>4, <3>2, <3>3, <3>4, FormFields, TypedForm DEF SameStart
    <3>6. QED BY <3>3, <3>5
  <2>6. SliderRange(form')
    <3>1. form'.progress <= form'.max
      BY <2>3, <2>5
    <3>2. form'.max = High[form'.index] - Low[form'.index]
      BY <2>5
    <3>3. QED BY <3>1, <3>2 DEF SliderRange
  <2>7. QED BY <1>5, <2>5, <2>6
<1>8. ASSUME NEW progress \in 0 .. form.max, NEW v \in Int,
             form' = Shown(form, v, progress)
      PROVE  TypeOK'
  <2>1. /\ form' \in FormType /\ form'.progress = progress /\ form'.max = form.max
        /\ form'.index = form.index
    <3>1. IsForm(form)
      BY <1>1, FormFields
    <3>2. /\ IsForm(form') /\ SameStart(form, form') /\ form'.index = form.index
          /\ form'.value = v /\ form'.max = form.max /\ form'.progress = progress
      BY <1>8, <3>1, FormShown
    <3>3. form'.toward = form.toward
      BY <1>8, <3>1 DEF IsForm, Shown
    <3>4. progress \in Nat
      BY <1>2
    <3>5. form' \in FormType
      BY <1>2, <3>2, <3>3, <3>4, TypedForm DEF SameStart
    <3>6. QED BY <3>2, <3>5
  <2>2. SliderRange(form')
    BY <1>1, <1>2, <2>1 DEF SliderRange
  <2>3. QED BY <1>5, <2>1, <2>2
<1>9. ASSUME NEW progress \in 0 .. form.max, onStopTrackingTouch(progress) PROVE TypeOK'
  <2>1. form' = [form EXCEPT !.progress = progress, !.value = progress + Low[form.index]]
    BY <1>9 DEF onStopTrackingTouch, Form
  <2>2. form' = Shown(form, progress + Low[form.index], progress)
    BY <1>1, <2>1 DEF Shown, FormType
  <2>3. progress + Low[form.index] \in Int
    BY <1>2, <1>3
  <2>4. QED BY <1>8, <2>2, <2>3
<1>10. ASSUME NEW v \in Int, ShowValue(v) PROVE TypeOK'
  <2>1. form' = Shown(form, v, Progress(v - Low[form.index], form.max))
    BY <1>10 DEF ShowValue, Form, Shown
  <2>2. Progress(v - Low[form.index], form.max) \in 0 .. form.max
    <3>1. v - Low[form.index] \in Int
      BY <1>2, <1>3
    <3>2. QED BY <1>2, <3>1, ProgressType
  <2>3. QED BY <1>8, <2>1, <2>2
<1>11. ASSUME AddValue \/ MinusValue PROVE TypeOK'
  BY <1>2, <1>10, <1>11 DEF AddValue, MinusValue
<1>12. ASSUME testAction PROVE TypeOK'
  <2>1. form' = Sent(form, TRUE)
    BY <1>12 DEF testAction, Form
  <2>2. form' \in FormType
    BY <1>6, <2>1
  <2>3. IsForm(form)
    BY <1>1, FormFields
  <2>4. form'.progress = form.progress /\ form'.max = form.max /\ form'.index = form.index
    BY <2>1, <2>3, FormSent
  <2>5. QED BY <1>1, <1>5, <2>2, <2>4 DEF SliderRange
<1>13. QED BY <1>7, <1>9, <1>11, <1>12

LEMMA ReturnTypes ==
  ASSUME EditorInv, TypeOK, screen = "action",
         \/ RecreateAction \/ Destroy \/ Cancel
         \/ onActivityResult_new \/ onActivityResult_edit \/ onActivityResult_raises
  PROVE  TypeOK'
<1>1. form \in FormType /\ SliderRange(form)
  BY DEF TypeOK, SliderRange
<1>2. /\ form.request \in {"new", "edit"} /\ form.action \in Motor /\ form.given \in Int
      /\ form.states \in AnyPosition /\ form.pos \in Nat /\ form.index \in Motor
      /\ form.max \in Nat /\ form.progress \in Nat
  BY <1>1, FormFields
<1>3. Confirmed \in Behavior
  BY ConfirmedType
<1>4. /\ stored \in Seq(Behavior) /\ opened \in Seq(Behavior) /\ script \in Seq(Behavior)
      /\ current_pos \in Nat /\ enabled \in BOOLEAN /\ changes \in 0 .. MaxChanges
      /\ strayed \in BOOLEAN /\ unsaved \in BOOLEAN /\ disturbed \in BOOLEAN
      /\ destroyed \in BOOLEAN /\ MaxChanges \in Nat
      /\ dialogs \in 0 .. MaxPresses /\ ~(dialogs > 0)
  BY EditorAssumption DEF TypeOK
<1>5. CASE RecreateAction
  <2> DEFINE f == NewForm(form.request, form.action, form.given, form.states, form.pos)
             p == Progress(form.progress, f.max)
  <2>1. form' = [f EXCEPT !.progress = p] /\ destroyed' \in BOOLEAN /\ strayed' = TRUE
        /\ UNCHANGED <<stored, screen, listvars, changes, unsaved, disturbed>>
    BY <1>5 DEF RecreateAction
  <2>2. f \in FormType /\ SliderRange(f)
    BY <1>2, NewFormType
  <2> HIDE DEF f
  <2>3. f.max \in Nat
    BY <2>2, FormFields
  <2>4. p \in 0 .. f.max
    <3>1. form.progress \in Int
      BY <1>2
    <3>2. QED BY <2>3, <3>1, ProgressType
  <2> HIDE DEF p
  <2>5. form' \in FormType /\ form'.progress = p /\ form'.max = f.max /\ form'.index = f.index
    <3>1. form' = [request |-> f.request, action |-> f.action, given |-> f.given,
                   states |-> f.states, pos |-> f.pos, index |-> f.index, value |-> f.value,
                   max |-> f.max, progress |-> p, toward |-> f.toward]
      BY <2>1, <2>2, FormFields DEF IsForm
    <3>2. p \in Nat
      BY <2>3, <2>4
    <3>3. IsForm(form')
      BY <3>1 DEF IsForm
    <3>4. form' \in FormType
      BY <2>2, <3>1, <3>2, <3>3, FormFields, TypedForm
    <3>5. QED BY <3>1, <3>4
  <2>6. SliderRange(form') /\ form' # NoForm
    BY <2>2, <2>4, <2>5, FormFields DEF SliderRange
  <2>7. FormOK'
    BY <2>1, <2>5, <2>6 DEF FormOK, SliderRange, NoForm
  <2>8. QED BY <1>4, <2>1, <2>7, TypeParts DEF listvars, TypeOK, FormOK, SliderRange
<1>6. CASE Destroy
  BY <1>6 DEF Destroy, listvars, TypeOK
<1>7. ASSUME finish, screen' \in {"list", "script"} PROVE FormOK' /\ UNCHANGED <<opened, dialogs>>
             /\ destroyed' \in BOOLEAN /\ strayed' \in BOOLEAN
  BY <1>7 DEF finish, FormOK, NoForm
<1>8. CASE Cancel
  <2>1. screen' = "script" /\ finish /\ UNCHANGED <<stored, changes, disturbed>>
        /\ \/ Create(opened) /\ unsaved' = (unsaved \/ script # opened)
           \/ UNCHANGED <<script, current_pos, enabled, unsaved>>
    BY <1>8 DEF Cancel
  <2>2. script' \in Seq(Behavior) /\ current_pos' \in Nat /\ enabled' \in BOOLEAN
        /\ unsaved' \in BOOLEAN
    <3>1. CASE Create(opened) /\ unsaved' = (unsaved \/ script # opened)
      BY <1>4, <3>1 DEF Create
    <3>2. CASE UNCHANGED <<script, current_pos, enabled, unsaved>>
      BY <1>4, <3>2
    <3>3. QED BY <2>1, <3>1, <3>2
  <2>3. QED BY <1>4, <1>7, <2>1, <2>2, TypeParts DEF TypeOK, FormOK, SliderRange
<1>9. ASSUME NEW request, Confirm(request) PROVE changes' \in 0 .. MaxChanges
  BY <1>4, <1>9 DEF Confirm
<1>10. CASE onActivityResult_new
  <2> DEFINE list == IF destroyed THEN opened ELSE script
  <2>1. /\ Confirm("new") /\ script' = Append(list, Confirmed) /\ updateDatabase
        /\ \/ current_pos' = 0 /\ enabled' = FALSE
           \/ UNCHANGED <<current_pos, enabled>>
        /\ disturbed' = (disturbed \/ BeyondLimit \/ (destroyed /\ script # opened))
        /\ screen' = "script" /\ finish
    BY <1>10 DEF onActivityResult_new
  <2>2. list \in Seq(Behavior)
    BY <1>4
  <2> HIDE DEF list
  <2>3. script' \in Seq(Behavior) /\ stored' = script' /\ unsaved' = FALSE
    BY <1>3, <2>1, <2>2 DEF updateDatabase
  <2>4. disturbed' \in BOOLEAN
    BY <2>1
  <2>5. current_pos' \in Nat /\ enabled' \in BOOLEAN /\ changes' \in 0 .. MaxChanges
    <3>1. current_pos' \in Nat /\ enabled' \in BOOLEAN
      <4>1. CASE current_pos' = 0 /\ enabled' = FALSE
        BY <4>1
      <4>2. CASE UNCHANGED <<current_pos, enabled>>
        BY <1>4, <4>2
      <4>3. QED BY <2>1, <4>1, <4>2
    <3>2. changes' \in 0 .. MaxChanges
      BY <1>9, <2>1
    <3>3. QED BY <3>1, <3>2
  <2>6. QED BY <1>4, <1>7, <2>1, <2>3, <2>4, <2>5, TypeParts DEF TypeOK, FormOK, SliderRange
<1>11. CASE onActivityResult_edit
  <2>1. /\ Confirm("edit") /\ script' = [script EXCEPT ![form.pos + 1] = Confirmed]
        /\ current_pos' = form.pos /\ enabled' = TRUE /\ updateDatabase
        /\ disturbed' = (disturbed \/ BeyondLimit \/ form.pos + 1 < Len(script))
        /\ screen' = "script" /\ finish
    BY <1>11 DEF onActivityResult_edit
  <2>2. script' \in Seq(Behavior) /\ stored' = script' /\ unsaved' = FALSE
    <3>1. stored' = script' /\ unsaved' = FALSE
      BY <2>1 DEF updateDatabase
    <3>2. script' = [script EXCEPT ![form.pos + 1] = Confirmed]
      BY <2>1
    <3>3. script' \in Seq(Behavior)
      BY <1>3, <1>4, <3>2, ReplaceType
    <3>4. QED BY <3>1, <3>3
  <2>3. disturbed' \in BOOLEAN
    BY <2>1
  <2>4. changes' \in 0 .. MaxChanges
    BY <1>9, <2>1
  <2>5. QED BY <1>2, <1>4, <1>7, <2>1, <2>2, <2>3, <2>4, TypeParts DEF TypeOK, FormOK, SliderRange
<1>12. CASE onActivityResult_raises
  <2>1. /\ Confirm("edit") /\ screen' = "list" /\ finish
        /\ UNCHANGED <<stored, script, current_pos, enabled, unsaved, disturbed>>
    BY <1>12 DEF onActivityResult_raises
  <2>2. changes' \in 0 .. MaxChanges
    BY <1>9, <2>1
  <2>3. QED BY <1>4, <1>7, <2>1, <2>2, TypeParts DEF TypeOK, FormOK, SliderRange
<1>13. QED BY <1>5, <1>6, <1>8, <1>10, <1>11, <1>12

LEMMA TypeStep == EditorInv /\ TypeOK /\ [Next]_vars => TypeOK'
<1> SUFFICES ASSUME EditorInv, TypeOK, [Next]_vars PROVE TypeOK'
  OBVIOUS
<1>1. CASE ScriptScreen
  BY <1>1, ScriptScreenTypes
<1>2. CASE ActionScreen
  BY <1>2, FormTypes, ReturnTypes DEF ActionScreen
<1>3. CASE UNCHANGED vars
  BY <1>3 DEF vars, listvars, TypeOK
<1>4. QED BY <1>1, <1>2, <1>3 DEF Next

-----------------------------------------------------------------------------
(***************************************************************************)
(* The editor's sums and the arm's moves.                                  *)
(***************************************************************************)
\* Both come to the same legal position.
Same(actions) == Played(actions) = AccStates(actions) /\ AccStates(actions) \in Position

\* They do after every action of the script.
Matched(s) == \A n \in 0 .. Len(s) : Same(SubSeq(s, 1, n))

LEMMA WholePrefix == ASSUME NEW s \in Seq(Behavior) PROVE SubSeq(s, 1, Len(s)) = s
<1> DEFINE t == SubSeq(s, 1, Len(s))
<1>1. Len(s) \in 0 .. Len(s)
  OBVIOUS
<1>2. t \in Seq(Behavior) /\ Len(t) = Len(s) /\ \A i \in 1 .. Len(s) : t[i] = s[i]
  BY <1>1, PrefixType
<1> HIDE DEF t
<1>3. t = s
  BY <1>2, SeqEqual
<1>4. QED BY <1>3 DEF t

LEMMA PrefixOfPrefix ==
  ASSUME NEW s \in Seq(Behavior), NEW t \in Seq(Behavior), NEW k \in 0 .. Len(s),
         k <= Len(t), \A i \in 1 .. k : t[i] = s[i]
  PROVE  SubSeq(t, 1, k) = SubSeq(s, 1, k)
<1> DEFINE a == SubSeq(t, 1, k)
           b == SubSeq(s, 1, k)
<1>1. a \in Seq(Behavior) /\ Len(a) = k /\ \A i \in 1 .. k : a[i] = t[i]
  BY PrefixType
<1>2. b \in Seq(Behavior) /\ Len(b) = k /\ \A i \in 1 .. k : b[i] = s[i]
  BY PrefixType
<1> HIDE DEF a, b
<1>3. a = b
  BY <1>1, <1>2, SeqEqual
<1>4. QED BY <1>3 DEF a, b

LEMMA MatchedWhole ==
  ASSUME NEW s \in Seq(Behavior), Matched(s)
  PROVE  Same(s)
<1>1. Len(s) \in 0 .. Len(s)
  OBVIOUS
<1>2. QED BY <1>1, WholePrefix DEF Matched

LEMMA MatchedPrefix ==
  ASSUME NEW s \in Seq(Behavior), Matched(s), NEW k \in 0 .. Len(s)
  PROVE  Matched(SubSeq(s, 1, k))
<1> DEFINE t == SubSeq(s, 1, k)
<1>1. t \in Seq(Behavior) /\ Len(t) = k /\ \A i \in 1 .. k : t[i] = s[i]
  BY PrefixType
<1> HIDE DEF t
<1>2. ASSUME NEW n \in 0 .. Len(t) PROVE Same(SubSeq(t, 1, n))
  <2>1. n \in 0 .. Len(s) /\ n <= Len(t) /\ \A i \in 1 .. n : t[i] = s[i]
    BY <1>1
  <2>2. SubSeq(t, 1, n) = SubSeq(s, 1, n)
    BY <1>1, <2>1, PrefixOfPrefix
  <2>3. QED BY <2>1, <2>2 DEF Matched
<1>3. Matched(t)
  BY <1>2 DEF Matched
<1>4. QED BY <1>3 DEF t

\* The arm takes an action to the angle the editor adds up, when that is legal.
LEMMA SameAppend ==
  ASSUME NEW s \in Seq(Behavior), Same(s), NEW b \in Behavior,
         AccStates(s)[b.action] + b.value \in Low[b.action] .. High[b.action]
  PROVE  Same(Append(s, b))
<1> DEFINE q == AccStates(s)
           m == b.action
           v == q[m] + b.value
<1>1. m \in Motor /\ b.value \in Int
  BY DEF Behavior
<1>2. q \in Position /\ Played(s) = q
  BY DEF Same
<1>3. q[m] \in Int /\ q \in [Motor -> Int]
        /\ \A i \in Motor : Low[i] <= q[i] /\ q[i] <= High[i]
  BY <1>1, <1>2 DEF Position
<1>4. Low[m] \in Int /\ High[m] \in Int
  BY <1>1, LimitsTyped
<1>5. IntHalf \in Nat /\ -IntHalf <= Low[m] /\ High[m] < IntHalf
  BY <1>1, WidthAssumption
<1>6. v \in Int /\ Low[m] <= v /\ v <= High[m]
  <2> HIDE DEF q, m
  <2>1. v \in Low[m] .. High[m]
    BY DEF q, m
  <2>2. QED BY <1>4, <2>1
<1>7. do_action(q, m, b.value) = [q EXCEPT ![m] = clip(m, int16(v))]
  BY <1>1 DEF do_action
<1> HIDE DEF q, m, v
<1>8. int16(v) = v
  <2>1. v \in -IntHalf .. IntHalf - 1
    BY <1>4, <1>5, <1>6
  <2>2. QED BY <2>1, Int16Identity
<1>9. clip(m, v) = v
  BY <1>4, <1>6 DEF clip
<1>10. Played(Append(s, b)) = [q EXCEPT ![m] = v]
  BY <1>2, <1>7, <1>8, <1>9, PlayedAppend DEF m
<1>11. AccStates(Append(s, b)) = [q EXCEPT ![m] = v]
  BY AccAppend DEF Added, q, m, v
<1>12. [q EXCEPT ![m] = v] \in Position
  BY <1>1, <1>3, <1>6 DEF Position
<1>13. QED BY <1>10, <1>11, <1>12 DEF Same

LEMMA MatchedAppend ==
  ASSUME NEW s \in Seq(Behavior), Matched(s), NEW b \in Behavior,
         AccStates(s)[b.action] + b.value \in Low[b.action] .. High[b.action]
  PROVE  Matched(Append(s, b))
<1> DEFINE t == Append(s, b)
<1>1. /\ t \in Seq(Behavior) /\ Len(t) = Len(s) + 1 /\ Len(s) \in Nat
      /\ \A i \in 1 .. Len(s) : t[i] = s[i]
  BY AppendProperties
<1>2. Same(s)
  BY MatchedWhole
<1>3. Same(t)
  BY <1>2, SameAppend
<1> HIDE DEF t
<1>4. ASSUME NEW n \in 0 .. Len(t) PROVE Same(SubSeq(t, 1, n))
  <2>1. CASE n = Len(t)
    BY <1>1, <1>3, <2>1, WholePrefix
  <2>2. CASE n # Len(t)
    <3>1. n \in 0 .. Len(s) /\ n <= Len(t) /\ \A i \in 1 .. n : t[i] = s[i]
      BY <1>1, <2>2
    <3>2. SubSeq(t, 1, n) = SubSeq(s, 1, n)
      BY <1>1, <3>1, PrefixOfPrefix
    <3>3. QED BY <3>1, <3>2 DEF Matched
  <2>3. QED BY <2>1, <2>2
<1>5. Matched(t)
  BY <1>4 DEF Matched
<1>6. QED BY <1>5 DEF t

\* The last action removed, and the last action changed.
LEMMA RemoveLast ==
  ASSUME NEW s \in Seq(Behavior), NEW k \in 1 .. Len(s), k = Len(s)
  PROVE  RemoveAt(s, k) = SubSeq(s, 1, k - 1)
<1> DEFINE left == SubSeq(s, 1, k - 1)
           right == SubSeq(s, k + 1, Len(s))
<1>1. left \in Seq(Behavior)
  OBVIOUS
<1>2. right = <<>>
  OBVIOUS
<1>3. left \o right = left
  <2> HIDE DEF left, right
  <2>1. QED BY <1>1, <1>2
<1>4. QED BY <1>3 DEF RemoveAt

LEMMA ReplaceLast ==
  ASSUME NEW s \in Seq(Behavior), NEW b \in Behavior, NEW k \in 1 .. Len(s), k = Len(s)
  PROVE  [s EXCEPT ![k] = b] = Append(SubSeq(s, 1, k - 1), b)
<1> DEFINE first == SubSeq(s, 1, k - 1)
           t == [s EXCEPT ![k] = b]
           u == Append(first, b)
<1>1. k - 1 \in 0 .. Len(s)
  OBVIOUS
<1>2. first \in Seq(Behavior) /\ Len(first) = k - 1 /\ \A i \in 1 .. k - 1 : first[i] = s[i]
  BY <1>1, PrefixType
<1>3. t \in Seq(Behavior) /\ Len(t) = k /\ \A i \in 1 .. k : t[i] = IF i = k THEN b ELSE s[i]
  <2>1. t \in Seq(Behavior)
    BY ReplaceType
  <2>2. QED BY <2>1
<1> HIDE DEF first, t
<1>4. /\ u \in Seq(Behavior) /\ Len(u) = k
      /\ \A i \in 1 .. k - 1 : u[i] = first[i]
      /\ u[k] = b
  BY <1>2, AppendProperties
<1> HIDE DEF u
<1>5. ASSUME NEW i \in 1 .. k PROVE t[i] = u[i]
  <2>1. CASE i = k
    BY <1>3, <1>4, <2>1
  <2>2. CASE i # k
    <3>1. i \in 1 .. k - 1
      BY <2>2
    <3>2. u[i] = first[i] /\ first[i] = s[i] /\ t[i] = s[i]
      BY <1>2, <1>3, <1>4, <2>2, <3>1
    <3>3. QED BY <3>2
  <2>3. QED BY <2>1, <2>2
<1>6. t = u
  BY <1>3, <1>4, <1>5, SeqEqual
<1>7. QED BY <1>6 DEF t, u, first

\* A new form starts where the script ends, an edited action where those before
\* it end.
StartInv ==
  screen = "action" =>
    /\ form.request = "new" => form.given = 0 /\ form.states = AccStates(script)
    /\ form.request = "edit" => form.states = AccStates(SubSeq(script, 1, form.pos))

MatchInv == ~disturbed => Matched(stored) /\ Matched(opened) /\ Matched(script)

\* The scripts of the store that the arm plays as the editor adds them up.
SamplesMatched == \A s \in Samples : Matched(s)

LEMMA StartScript == TypeOK /\ ScriptScreen => StartInv'
<1> SUFFICES ASSUME TypeOK, ScriptScreen PROVE StartInv'
  OBVIOUS
<1>1. CASE screen' # "action"
  BY <1>1 DEF StartInv
<1>2. CASE ToAddAction
  <2>1. form' = NewForm("new", 0, 0, AccStates(script), current_pos) /\ script' = script
    BY <1>2 DEF ToAddAction, startActivityForResult, listvars
  <2>2. /\ form'.request = "new" /\ form'.given = 0 /\ form'.states = AccStates(script)
    BY <2>1 DEF NewForm
  <2>3. QED BY <2>1, <2>2 DEF StartInv
<1>3. CASE ToEditAction
  <2> DEFINE edited == script[current_pos + 1]
             sums == AccStates(SubSeq(script, 1, current_pos))
  <2>1. form' = NewForm("edit", edited.action, edited.value, sums, current_pos)
        /\ script' = script
    BY <1>3 DEF ToEditAction, startActivityForResult, listvars
  <2> HIDE DEF edited, sums
  <2>2. /\ form'.request = "edit" /\ form'.pos = current_pos /\ form'.states = sums
    BY <2>1 DEF NewForm
  <2>3. QED BY <2>1, <2>2 DEF StartInv, sums
<1>4. CASE removeItem \/ Dismiss
  <2>1. screen' = "script"
    BY <1>4 DEF removeItem, Dismiss, TypeOK
  <2>2. QED BY <1>1, <2>1
<1>5. QED
  BY <1>1, <1>2, <1>3, <1>4 DEF ScriptScreen, Open, Leave, Recreate, onItemClick, Ready,
      ToDelete, removeItem_raises

LEMMA StartForm ==
  ASSUME TypeOK, StartInv, screen = "action",
         \/ \E m \in Motor : onClick(m)
         \/ \E progress \in 0 .. form.max : onStopTrackingTouch(progress)
         \/ AddValue \/ MinusValue \/ testAction \/ RecreateAction \/ Destroy
  PROVE  StartInv'
<1>1. form \in FormType /\ IsForm(form) /\ form.action \in Motor
  BY FormFields DEF TypeOK
<1>2. script' = script
  BY DEF onClick, onStopTrackingTouch, AddValue, MinusValue, ShowValue, testAction, Form,
         RecreateAction, Destroy, listvars
<1>3. ASSUME SameStart(form, form') PROVE StartInv'
  BY <1>2, <1>3 DEF SameStart, StartInv
<1>4. ASSUME NEW m \in Motor, onClick(m) PROVE StartInv'
  <2> DEFINE f == Sent(form, FALSE)
             v == form.states[m]
             max == High[m] - Low[m]
             p == Progress(v - Low[m], max)
  <2>1. form' = Another(f, m, v, max, p)
    BY <1>4 DEF onClick, Form, Another
  <2> HIDE DEF v, max, p
  <2>2. IsForm(f) /\ SameStart(form, f)
    BY <1>1, FormSent
  <2> HIDE DEF f
  <2>3. SameStart(f, form')
    BY <2>1, <2>2, FormOfAnother
  <2>4. QED BY <1>3, <2>2, <2>3 DEF SameStart
<1>5. ASSUME NEW v, NEW p, form' = Shown(form, v, p) PROVE StartInv'
  BY <1>1, <1>3, <1>5, FormShown
<1>6. ASSUME NEW p, onStopTrackingTouch(p) PROVE StartInv'
  <2> DEFINE v == p + Low[form.index]
  <2>1. form' = Shown(form, v, p)
    <3>1. form' = [form EXCEPT !.progress = p, !.value = v]
      BY <1>6 DEF onStopTrackingTouch, Form
    <3> HIDE DEF v
    <3>2. QED BY <1>1, <3>1 DEF IsForm, Shown
  <2> HIDE DEF v
  <2>2. QED BY <1>5, <2>1
<1>7. ASSUME AddValue \/ MinusValue PROVE StartInv'
  <2>1. PICK v : ShowValue(v)
    BY <1>7 DEF AddValue, MinusValue
  <2>2. form' = Shown(form, v, Progress(v - Low[form.index], form.max))
    BY <2>1 DEF ShowValue, Form, Shown
  <2>3. QED BY <1>5, <2>2
<1>8. ASSUME testAction PROVE StartInv'
  <2>1. form' = Sent(form, TRUE)
    BY <1>8 DEF testAction, Form
  <2>2. QED BY <1>1, <1>3, <2>1, FormSent
<1>9. ASSUME RecreateAction PROVE StartInv'
  <2> DEFINE f == NewForm(form.request, form.action, form.given, form.states, form.pos)
             p == Progress(form.progress, f.max)
  <2>1. form' = [f EXCEPT !.progress = p]
    BY <1>9 DEF RecreateAction
  <2>2. /\ IsForm(f)
        /\ f.request = form.request /\ f.action = form.action /\ f.states = form.states
        /\ f.given = form.given /\ f.pos = form.pos
    BY <1>1, NewFormCorrect
  <2> HIDE DEF f, p
  <2>3. SameStart(form, form')
    BY <2>1, <2>2 DEF IsForm, SameStart
  <2>4. QED BY <1>3, <2>3
<1>10. ASSUME Destroy PROVE StartInv'
  BY <1>10 DEF Destroy, listvars, StartInv
<1>11. QED BY <1>4, <1>6, <1>7, <1>8, <1>9, <1>10

\* What a confirmed action moves its motor to.
LEMMA ConfirmedLegal ==
  ASSUME TypeOK, screen = "action", ~BeyondLimit
  PROVE  /\ Confirmed \in Behavior /\ Confirmed.action = form.index
         /\ form.states[form.index] + Confirmed.value = form.progress + Low[form.index]
         /\ form.progress + Low[form.index] \in Low[form.index] .. High[form.index]
<1>1. Confirmed \in Behavior
  BY ConfirmedType
<1>2. /\ form.index \in Motor /\ form.progress \in Nat /\ form.states[form.index] \in Int
  BY FormFields DEF TypeOK
<1>3. Low[form.index] \in Int /\ High[form.index] \in Int
  BY <1>2, LimitsTyped
<1>4. form.progress + Low[form.index] <= High[form.index]
  BY <1>2, <1>3 DEF BeyondLimit
<1>5. /\ Confirmed.action = form.index
      /\ Confirmed.value = form.progress + Low[form.index] - form.states[form.index]
  BY DEF Confirmed
<1>6. QED BY <1>1, <1>2, <1>3, <1>4, <1>5

LEMMA NewMatched ==
  ASSUME TypeOK, StartInv, MatchInv, screen = "action", onActivityResult_new, ~disturbed'
  PROVE  /\ script' = Append(script, Confirmed) /\ Matched(script')
         /\ ~disturbed /\ ~BeyondLimit
<1>1. /\ form.request = "new"
      /\ script' = Append(IF destroyed THEN opened ELSE script, Confirmed)
      /\ ~disturbed /\ ~BeyondLimit /\ ~(destroyed /\ script # opened)
  BY DEF onActivityResult_new, Confirm
<1>2. script' = Append(script, Confirmed)
  BY <1>1
<1>3. script \in Seq(Behavior) /\ Matched(script)
  BY <1>1 DEF TypeOK, MatchInv
<1>4. form.states = AccStates(script)
  BY <1>1 DEF StartInv
<1>5. AccStates(script)[Confirmed.action] + Confirmed.value
        \in Low[Confirmed.action] .. High[Confirmed.action]
  BY <1>1, <1>4, ConfirmedLegal
<1>6. Matched(Append(script, Confirmed))
  BY <1>1, <1>3, <1>5, ConfirmedLegal, MatchedAppend
<1>7. QED BY <1>1, <1>2, <1>6

LEMMA EditMatched ==
  ASSUME EditorInv, TypeOK, StartInv, MatchInv, screen = "action", onActivityResult_edit,
         ~disturbed'
  PROVE  Matched(script') /\ ~disturbed
<1>1. /\ form.request = "edit" /\ script' = [script EXCEPT ![form.pos + 1] = Confirmed]
      /\ ~disturbed /\ ~BeyondLimit /\ ~(form.pos + 1 < Len(script))
  BY DEF onActivityResult_edit, Confirm
<1>2. script \in Seq(Behavior) /\ Matched(script) /\ Len(script) \in Nat
  BY <1>1 DEF TypeOK, MatchInv
<1>3. form.pos \in Nat /\ form.pos < Len(script)
  BY <1>1 DEF EditorInv, FormInv
<1> DEFINE k == form.pos + 1
           first == SubSeq(script, 1, form.pos)
<1>4. k \in 1 .. Len(script) /\ k = Len(script) /\ k - 1 = form.pos
      /\ form.pos \in 0 .. Len(script)
  BY <1>1, <1>2, <1>3
<1>5. first \in Seq(Behavior) /\ Matched(first)
  BY <1>2, <1>4, PrefixType, MatchedPrefix
<1>6. form.states = AccStates(first)
  BY <1>1 DEF StartInv
<1>7. script' = [script EXCEPT ![k] = Confirmed]
  BY <1>1
<1>8. first = SubSeq(script, 1, k - 1)
  BY <1>4
<1> HIDE DEF k, first
<1>9. script' = Append(first, Confirmed)
  BY <1>1, <1>2, <1>4, <1>7, <1>8, ConfirmedLegal, ReplaceLast
<1>10. AccStates(first)[Confirmed.action] + Confirmed.value
        \in Low[Confirmed.action] .. High[Confirmed.action]
  BY <1>1, <1>6, ConfirmedLegal
<1>11. Matched(Append(first, Confirmed))
  BY <1>1, <1>5, <1>10, ConfirmedLegal, MatchedAppend
<1>12. QED BY <1>1, <1>9, <1>11

LEMMA MatchStep ==
  EditorInv /\ TypeOK /\ StartInv /\ MatchInv /\ [Next]_vars => MatchInv'
<1> SUFFICES ASSUME EditorInv, TypeOK, StartInv, MatchInv, [Next]_vars, ~disturbed'
             PROVE  Matched(stored') /\ Matched(opened') /\ Matched(script')
  BY DEF MatchInv
<1>1. ASSUME ~disturbed, stored' \in {stored, script'}, opened' \in {opened, stored},
             script' \in {stored, opened, script}
      PROVE  Matched(stored') /\ Matched(opened') /\ Matched(script')
  BY <1>1 DEF MatchInv
<1>2. CASE removeItem
  <2>1. /\ current_pos < Len(script) /\ script' = RemoveAt(script, current_pos + 1) /\ ~disturbed
        /\ ~(current_pos + 1 < Len(script))
        /\ stored' = stored /\ opened' = opened
    BY <1>2 DEF removeItem
  <2>2. /\ script \in Seq(Behavior) /\ Len(script) \in Nat
        /\ Matched(script) /\ Matched(stored) /\ Matched(opened)
    BY <2>1 DEF TypeOK, MatchInv
  <2>3. current_pos \in Nat /\ current_pos < Len(script)
    BY <2>1 DEF EditorInv, ListInv
  <2> DEFINE k == current_pos + 1
  <2>4. k \in 1 .. Len(script) /\ k = Len(script) /\ k - 1 \in 0 .. Len(script)
    BY <2>1, <2>2, <2>3
  <2>5. script' = RemoveAt(script, k)
    BY <2>1
  <2> HIDE DEF k
  <2>6. script' = SubSeq(script, 1, k - 1)
    BY <2>2, <2>4, <2>5, RemoveLast
  <2>7. Matched(script')
    BY <2>2, <2>4, <2>6, MatchedPrefix
  <2>8. QED BY <2>1, <2>2, <2>7
<1>3. CASE screen = "action" /\ onActivityResult_new
  <2>1. Matched(script') /\ ~disturbed
    BY <1>3, NewMatched
  <2>2. stored' = script' /\ opened' = opened
    BY <1>3 DEF onActivityResult_new, updateDatabase, finish
  <2>3. QED BY <2>1, <2>2 DEF MatchInv
<1>4. CASE screen = "action" /\ onActivityResult_edit
  <2>1. Matched(script') /\ ~disturbed
    BY <1>4, EditMatched
  <2>2. stored' = script' /\ opened' = opened
    BY <1>4 DEF onActivityResult_edit, updateDatabase, finish
  <2>3. QED BY <2>1, <2>2 DEF MatchInv
<1>5. CASE ScriptScreen /\ ~removeItem
  <2>1. UNCHANGED disturbed /\ stored' = stored /\ opened' \in {opened, stored}
        /\ script' \in {stored, opened, script}
    BY <1>5 DEF ScriptScreen, Open, Leave, Recreate, Create, onItemClick, ToDelete, Dismiss,
                removeItem_raises, ToAddAction,
                ToEditAction, startActivityForResult, listvars
  <2>2. QED BY <1>1, <2>1
<1>6. CASE ActionScreen /\ ~onActivityResult_new /\ ~onActivityResult_edit
  <2>1. UNCHANGED <<disturbed, stored, opened>> /\ script' \in {opened, script}
    <3>1. CASE Cancel
      BY <3>1 DEF Cancel, Create, finish
    <3>2. CASE ~Cancel
      BY <1>6, <3>2 DEF ActionScreen, onClick, onStopTrackingTouch, AddValue, MinusValue,
           ShowValue, testAction, Form, RecreateAction, Destroy, onActivityResult_raises,
           finish, listvars
    <3>3. QED BY <3>1, <3>2
  <2>2. QED BY <1>1, <2>1
<1>7. CASE UNCHANGED vars
  <2>1. UNCHANGED <<disturbed, stored, opened, script>>
    BY <1>7 DEF vars, listvars
  <2>2. QED BY <1>1, <2>1
<1>8. QED BY <1>2, <1>3, <1>4, <1>5, <1>6, <1>7 DEF Next, ActionScreen

LEMMA StartStep == TypeOK /\ StartInv /\ [Next]_vars => StartInv'
<1> SUFFICES ASSUME TypeOK, StartInv, [Next]_vars PROVE StartInv'
  OBVIOUS
<1>1. CASE ScriptScreen
  BY <1>1, StartScript
<1>2. CASE ActionScreen
  <2>1. CASE screen' # "action"
    BY <2>1 DEF StartInv
  <2>2. CASE screen' = "action"
    <3>1. ~Cancel /\ ~onActivityResult_new /\ ~onActivityResult_edit
          /\ ~onActivityResult_raises
      BY <2>2 DEF Cancel, onActivityResult_new, onActivityResult_edit,
                  onActivityResult_raises
    <3>2. QED BY <1>2, <3>1, StartForm DEF ActionScreen
  <2>3. QED BY <2>1, <2>2
<1>3. CASE UNCHANGED vars
  BY <1>3 DEF vars, listvars, StartInv
<1>4. QED BY <1>1, <1>2, <1>3 DEF Next

\* In every script and at every step the editor's state has its type; of the
\* slider, this says that its maximum is one of the two the code gives it.
THEOREM EditorTypeOK == Spec => []TypeOK
<1>1. QED BY EditorInit, EditorStep, TypeInit, TypeStep, PTL DEF Spec

FullInv == EditorInv /\ TypeOK /\ StartInv /\ MatchInv

LEMMA FullInit == SamplesMatched /\ Init => FullInv
<1>1. SamplesMatched /\ Init => StartInv /\ MatchInv
  BY DEF Init, SamplesMatched, StartInv, MatchInv
<1>2. QED BY <1>1, EditorInit, TypeInit DEF FullInv

LEMMA FullStep == FullInv /\ [Next]_vars => FullInv'
  BY EditorStep, TypeStep, StartStep, MatchStep DEF FullInv

\* Whatever is added, edited and deleted at the end of a script, the arm, which
\* clips at every action, plays it to the positions putAccStates adds up, all of
\* them legal: if that is so of the scripts in the store at first, and as long as
\* no action before another was edited or deleted and no slider was pulled
\* beyond a limit.
THEOREM EditorAddsAsArmPlays ==
  ASSUME SamplesMatched
  PROVE  Spec => []EditorMatchesArm
<1>1. FullInv => EditorMatchesArm
  BY DEF FullInv, MatchInv, Matched, Same, EditorMatchesArm
<1>2. QED BY <1>1, FullInit, FullStep, PTL DEF Spec

\* A new action confirmed as it was previewed takes the arm, when the script is
\* played from the reset on, exactly where gotoStates sent it for the preview.
THEOREM EditorPlaysAsPreviewed ==
  ASSUME SamplesMatched
  PROVE  Spec => PlaysAsPreviewed
<1>1. ASSUME FullInv, [Next]_vars, stored' # stored, form.request = "new", ~strayed,
             ~disturbed', form.toward = Sent(form, TRUE).toward
      PROVE  Played(script') = set_states(form.toward)
  <2>1. EditorInv /\ TypeOK /\ StartInv /\ MatchInv /\ MatchInv'
    BY <1>1, FullStep DEF FullInv
  <2>2. screen = "action" /\ onActivityResult_new
    BY <1>1 DEF Next, ScriptScreen, Open, Leave, Recreate, onItemClick, ToDelete, Dismiss,
                removeItem, removeItem_raises, Ready,
                ToAddAction, ToEditAction, startActivityForResult, ActionScreen, onClick,
                onStopTrackingTouch, AddValue, MinusValue, ShowValue, testAction, Form,
                RecreateAction, Destroy, Cancel, onActivityResult_raises,
                onActivityResult_edit, Confirm, vars
  <2>3. /\ script' = Append(script, Confirmed) /\ Matched(script')
        /\ ~disturbed /\ ~BeyondLimit
    BY <1>1, <2>1, <2>2, NewMatched
  <2> DEFINE q == AccStates(script)
             i == form.index
             angle == form.progress + Low[i]
  <2>4. script \in Seq(Behavior) /\ Matched(script)
    BY <2>1, <2>3 DEF TypeOK, MatchInv
  <2>5. q \in Position
    BY <2>4, MatchedWhole DEF Same
  <2>6. form.states = q /\ form.given = 0
    BY <1>1, <2>1, <2>2 DEF StartInv
  <2>7. /\ form.action \in Motor /\ i \in Motor /\ IsForm(form)
    BY <2>1, <2>2, FormFields DEF TypeOK
  <2>8. LegalStart(form)
    <3>1. /\ q[form.action] \in Int /\ Low[form.action] \in Int /\ High[form.action] \in Int
          /\ Low[form.action] <= q[form.action] /\ q[form.action] <= High[form.action]
      BY <2>5, <2>7, LimitsTyped DEF Position
    <3> HIDE DEF q
    <3>2. QED BY <2>5, <2>6, <3>1 DEF LegalStart
  <2>9. form.value = angle
    BY <1>1, <2>1, <2>2, <2>8 DEF EditorInv, FormInv, SliderInv
  <2>10. /\ Confirmed \in Behavior /\ Confirmed.action = i
         /\ form.states[i] + Confirmed.value = angle
         /\ angle \in Low[i] .. High[i]
    BY <2>1, <2>2, <2>3, ConfirmedLegal
  <2>11. form.toward = [q EXCEPT ![i] = angle]
    <3>1. Sent(form, TRUE).toward = [form.states EXCEPT ![form.index] = form.value]
      BY <2>7 DEF Sent, IsForm
    <3>2. QED BY <1>1, <2>6, <2>9, <3>1
  <2> HIDE DEF q, i, angle
  <2>12. AccStates(script') = [q EXCEPT ![i] = angle]
    <3>1. AccStates(script') = Added(q, Confirmed)
      BY <2>3, <2>4, <2>10, AccAppend DEF q
    <3>2. QED BY <2>6, <2>10, <3>1 DEF Added
  <2>13. script' \in Seq(Behavior)
    BY <2>3, <2>4, <2>10
  <2>14. Played(script') = AccStates(script') /\ AccStates(script') \in Position
    BY <2>3, <2>13, MatchedWhole DEF Same
  <2>15. ASSUME NEW p \in Position PROVE set_states(p) = p
    <3>1. \A m \in Motor : clip(m, p[m]) = p[m]
      BY LimitsTyped DEF Position, clip
    <3>2. p \in [Motor -> Int]
      BY DEF Position
    <3>3. QED BY <3>1, <3>2 DEF set_states
  <2>16. QED BY <2>11, <2>12, <2>14, <2>15
<1>2. QED BY <1>1, FullInit, FullStep, PTL DEF Spec, PlaysAsPreviewed

=============================================================================
