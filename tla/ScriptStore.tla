----------------------------- MODULE ScriptStore -----------------------------
(***************************************************************************)
(* The Android client's store of scripts: the Room table, the tasks that   *)
(* write it (ActionRepository, ActionRoomDatabase), and the list of scripts*)
(* with its dialogs (MainActivity, ActionListAdapter).  Tasks run one at a *)
(* time in the order they were made; the list is read again after a change *)
(* by Room, on a thread of its own, and given to the list's screen when it *)
(* is in front, so that it may be older than what the user did since.      *)
(*                                                                         *)
(* What a script says is a number, a new one for each save.  The list is   *)
(* laid out as soon as it is given, and is short enough for the recycler to*)
(* give every position its view again.                                     *)
(***************************************************************************)
EXTENDS Integers, FiniteSets, SequencesExt

CONSTANTS
  Stored,        \* the tables earlier sessions may have left
  MaxEdits,      \* bound: scripts added or removed, and saves
  MaxScreens,    \* bound: screens opened over the list before it is stopped
  MaxKills       \* bound: ends of the process

Sample == 0      \* what PopulateDbAsync inserts

IsDb(d) ==
  /\ d = [rows |-> d.rows, next |-> d.next] /\ d.next \in Nat \ {0}
  /\ d.rows = [id \in DOMAIN d.rows |-> d.rows[id]] /\ DOMAIN d.rows \subseteq 1 .. d.next - 1
  /\ \A id \in DOMAIN d.rows : d.rows[id] \in Nat

ASSUME StoreAssumption ==
  /\ \A d \in Stored : IsDb(d) /\ \A id \in DOMAIN d.rows : d.rows[id] \notin 1 .. MaxEdits
  /\ MaxEdits \in Nat /\ MaxScreens \in Nat /\ MaxKills \in Nat

VARIABLES
  db,         \* rows, by id, and the next id
  opened,     \* this process has opened the database
  tasks,      \* the executor's tasks, oldest first
  dirty,      \* rows were changed since they were read for the list
  posted,     \* a list read but not given yet, if there is one
  list,       \* mActions
  front,      \* MainActivity is started
  screens,    \* those opened over it: mAction's id (0 of ScriptAddActivity) and version,
              \* and the version given in the intent
  dialogs,    \* remove? the position of its view (0 when it has none), what was pressed
  edits, kills

vars == <<db, opened, tasks, dirty, posted, list, front, screens, dialogs, edits, kills>>

-----------------------------------------------------------------------------
(***************************************************************************)
(* The table and its tasks.                                                *)
(***************************************************************************)
\* ActionDao.insert: ids are never used again.
insert(d, v) ==
  [rows |-> [id \in DOMAIN d.rows \cup {d.next} |-> IF id = d.next THEN v ELSE d.rows[id]],
   next |-> d.next + 1]

update(d, id, v) ==
  [d EXCEPT !.rows = [i \in DOMAIN @ |-> IF i = id THEN v ELSE @[i]]]

deleteAction(d, id) ==
  [d EXCEPT !.rows = [i \in DOMAIN @ \ {id} |-> @[i]]]

\* What a task makes of the table.
Done(d, task) ==
  CASE task.op = "insert" -> insert(d, task.v)
    [] task.op = "update" -> update(d, task.id, task.v)
    [] task.op = "delete" -> deleteAction(d, task.id)
    [] task.op = "populate" -> IF DOMAIN d.rows = {} THEN insert(d, Sample) ELSE d

\* The table d, and what each task after the other makes of it.
After(d, todo) ==
  LET at[n \in 1 .. Len(todo) + 1] == IF n = 1 THEN d ELSE Done(at[n - 1], todo[n - 1])
  IN  at

Tables == After(db, tasks)
Settled == Tables[Len(tasks) + 1]

\* The first task or query of a process opens the database, which has it
\* populated after the tasks made so far.
onOpen ==
  /\ ~opened /\ (tasks # <<>> \/ (dirty /\ front))
  /\ opened' = TRUE
  /\ tasks' = Append(tasks, [op |-> "populate"])
  /\ UNCHANGED <<db, dirty, posted, list, front, screens, dialogs, edits, kills>>

Written(d) == db' = d /\ dirty' = (dirty \/ d.rows # db.rows)

\* Mutated form of RunTask: tasks run on several threads.
RunTask_parallel ==
  \E n \in DOMAIN tasks :
    /\ opened
    /\ IF tasks[n].op = "populate" /\ DOMAIN db.rows = {}
       THEN /\ tasks' = [tasks EXCEPT ![n] = [op |-> "insert", v |-> Sample]]
            /\ UNCHANGED <<db, dirty>>
       ELSE /\ tasks' = RemoveAt(tasks, n)
            /\ Written(Done(db, tasks[n]))
    /\ UNCHANGED <<opened, posted, list, front, screens, dialogs, edits, kills>>

\* Mutated form of RunTask: a save does not have the list read again.
RunTask_quiet ==
  /\ opened /\ tasks # <<>>
  /\ IF Head(tasks).op = "populate" /\ DOMAIN db.rows = {}
     THEN /\ tasks' = [tasks EXCEPT ![1] = [op |-> "insert", v |-> Sample]]
          /\ UNCHANGED <<db, dirty>>
     ELSE /\ tasks' = Tail(tasks)
          /\ db' = Done(db, Head(tasks))
          /\ dirty' = (dirty \/ DOMAIN db'.rows # DOMAIN db.rows)
  /\ UNCHANGED <<opened, posted, list, front, screens, dialogs, edits, kills>>

\* doInBackground of the oldest task.  PopulateDbAsync looks for a row and
\* inserts its own in two steps.
RunTask ==
  /\ opened /\ tasks # <<>>
  /\ IF Head(tasks).op = "populate" /\ DOMAIN db.rows = {}
     THEN /\ tasks' = [tasks EXCEPT ![1] = [op |-> "insert", v |-> Sample]]
          /\ UNCHANGED <<db, dirty>>
     ELSE /\ tasks' = Tail(tasks)
          /\ Written(Done(db, Head(tasks)))
  /\ UNCHANGED <<opened, posted, list, front, screens, dialogs, edits, kills>>

-----------------------------------------------------------------------------
(***************************************************************************)
(* The list.                                                               *)
(***************************************************************************)
\* ActionDao.getAllActions: the rows in the order of their ids.
getAllActions(d) ==
  LET upto[n \in 0 .. d.next - 1] ==
        IF n = 0 THEN <<>>
        ELSE IF n \in DOMAIN d.rows THEN Append(upto[n - 1], [id |-> n, v |-> d.rows[n]])
        ELSE upto[n - 1]
  IN  upto[d.next - 1]

Query ==
  /\ opened /\ dirty /\ front
  /\ posted' = <<getAllActions(db)>> /\ dirty' = FALSE
  /\ UNCHANGED <<db, opened, tasks, list, front, screens, dialogs, edits, kills>>

\* onChanged and setActions: a view's position stays, if the list has it.
setActions ==
  /\ front /\ posted # <<>>
  /\ list' = posted[1] /\ posted' = <<>>
  /\ dialogs' = [k \in DOMAIN dialogs |->
                   IF dialogs[k].row > Len(posted[1]) THEN [dialogs[k] EXCEPT !.row = 0]
                                                   ELSE dialogs[k]]
  /\ UNCHANGED <<db, opened, tasks, dirty, front, screens, edits, kills>>

\* Every removal was done, and what was read before it is gone.
NoRemovals ==
  /\ \A n \in DOMAIN tasks : tasks[n].op # "delete"
  /\ \A read \in {list} \cup ToSet(posted) : \A k \in DOMAIN read : read[k].id \in DOMAIN db.rows

\* A button that removes; pressed twice, it shows two dialogs.  calm is a history.
btnRemove(row) ==
  /\ front /\ screens = <<>>
  /\ dialogs = <<>> \/ (Len(dialogs) = 1 /\ dialogs[1].row = row)
  /\ dialogs' = Append(dialogs, [row |-> row, pressed |-> list[row].id, calm |-> NoRemovals])
  /\ UNCHANGED <<db, opened, tasks, dirty, posted, list, front, screens, edits, kills>>

Dismiss ==
  /\ dialogs # <<>>
  /\ dialogs' = Front(dialogs)
  /\ UNCHANGED <<db, opened, tasks, dirty, posted, list, front, screens, edits, kills>>

\* A screen is created, for the script of its intent.  sound is a history: that is the
\* script as it is saved last in the table d, and no other screen is open.
Created(id, given, alone, d) ==
  [id |-> id, given |-> given, v |-> given,
   sound |-> alone /\ id \in DOMAIN d.rows /\ d.rows[id] = given]

\* The process ends: what is not in the database is gone.  If the system ended it, to
\* have its memory, the screens are created again, each from its intent.
Ended ==
  /\ opened' = FALSE /\ tasks' = <<>> /\ dirty' = TRUE
  /\ posted' = <<>> /\ list' = <<>>
  /\ \/ screens' = <<>>
     \/ screens' = [k \in DOMAIN screens |->
                      Created(screens[k].id, screens[k].given, Len(screens) = 1, db)]
  /\ front' = (screens' = <<>>) /\ dialogs' = <<>>
  /\ UNCHANGED <<db, edits>>

\* Mutated form of removeItem: another dialog on the view keeps its position.
removeItem_keeps_position ==
  /\ dialogs # <<>> /\ Last(dialogs).row \in DOMAIN list
  /\ edits < MaxEdits /\ edits' = edits + 1
  /\ LET row == Last(dialogs).row
     IN  /\ tasks' = Append(tasks, [op |-> "delete", id |-> list[row].id])
         /\ list' = RemoveAt(list, row)
  /\ dialogs' = Front(dialogs)
  /\ UNCHANGED <<db, opened, dirty, posted, front, screens, kills>>

\* Confirmed: the script at the position the view now has is removed, from the
\* list at once.
removeItem ==
  /\ dialogs # <<>> /\ Last(dialogs).row # 0
  /\ edits < MaxEdits /\ edits' = edits + 1
  /\ LET row == Last(dialogs).row
     IN  /\ tasks' = Append(tasks, [op |-> "delete", id |-> list[row].id])
         /\ list' = RemoveAt(list, row)
  /\ dialogs' = [k \in DOMAIN Front(dialogs) |-> [dialogs[k] EXCEPT !.row = 0]]
  /\ UNCHANGED <<db, opened, dirty, posted, front, screens, kills>>

\* The view has no position any more: the client ends.
removeItem_raises ==
  /\ dialogs # <<>> /\ Last(dialogs).row = 0
  /\ kills < MaxKills /\ kills' = kills + 1
  /\ Ended

Kill == kills < MaxKills /\ kills' = kills + 1 /\ Ended

-----------------------------------------------------------------------------
(***************************************************************************)
(* The screens over the list.                                              *)
(***************************************************************************)
Start(screen) ==
  /\ front /\ dialogs = <<>> /\ Len(screens) < MaxScreens
  /\ screens' = Append(screens, screen)
  /\ UNCHANGED <<db, opened, tasks, dirty, posted, list, front, dialogs, edits, kills>>

\* A row: the script is opened as the list has it.
onClick(row) == Start(Created(list[row].id, list[row].v, screens = <<>>, Settled))

fab == Start(Created(0, 0, screens = <<>>, Settled))

\* MainActivity.onStop, when the first of them covers it.  Those below the top
\* one are no longer alone.
Stop ==
  /\ front /\ screens # <<>>
  /\ front' = FALSE
  /\ screens' = [k \in DOMAIN screens |->
                   IF Len(screens) > 1 THEN [screens[k] EXCEPT !.sound = FALSE] ELSE screens[k]]
  /\ UNCHANGED <<db, opened, tasks, dirty, posted, list, dialogs, edits, kills>>

\* The system destroys the script screen in front and creates it again, as it does when
\* the phone is turned.  The intent has the script as it was when the screen was opened.
Recreate ==
  LET s == Last(screens) IN
  /\ ~front /\ s.id # 0
  /\ screens' = [screens EXCEPT
                   ![Len(screens)] = Created(s.id, s.given, Len(screens) = 1, Settled)]
  /\ UNCHANGED <<db, opened, tasks, dirty, posted, list, front, dialogs, edits, kills>>

finish == screens' = Front(screens) /\ front' = (Len(screens) = 1)

Leave ==
  /\ ~front
  /\ finish
  /\ UNCHANGED <<db, opened, tasks, dirty, posted, list, dialogs, edits, kills>>

Save(todo) ==
  /\ ~front /\ edits < MaxEdits
  /\ edits' = edits + 1
  /\ tasks' = todo
  /\ UNCHANGED <<db, opened, dirty, posted, list, dialogs, kills>>

AddScript ==
  /\ Last(screens).id = 0
  /\ Save(Append(tasks, [op |-> "insert", v |-> edits + 1]))
  /\ finish

\* The task of a save; base is a history, the versions that are replaced.
Update(s) ==
  [op |-> "update", id |-> s.id, v |-> edits + 1, base |-> {s.v}, sound |-> s.sound]

\* The tasks of the saves that the screen has made since it was created have its mAction,
\* into which the new version is put: those that have not run yet will save that one.
Shared(s) ==
  [n \in DOMAIN tasks |->
     IF tasks[n].op = "update" /\ tasks[n].v = s.v /\ s.v # s.given
     THEN [tasks[n] EXCEPT !.v = edits + 1, !.base = @ \cup {s.v}] ELSE tasks[n]]

\* Mutated form of updateDatabase: each save is made of the script that was opened.
updateDatabase_opened ==
  LET s == Last(screens) IN
  /\ s.id # 0
  /\ Save(Append(tasks, Update(s)))
  /\ UNCHANGED <<front, screens>>

\* The whole script is saved as the screen has it.
updateDatabase ==
  LET s == Last(screens) IN
  /\ s.id # 0
  /\ Save(Append(Shared(s), Update(s)))
  /\ screens' = [screens EXCEPT ![Len(screens)].v = edits + 1]
  /\ UNCHANGED front

-----------------------------------------------------------------------------
Init ==
  /\ db \in Stored
  /\ opened = FALSE /\ tasks = <<>> /\ dirty = TRUE
  /\ posted = <<>> /\ list = <<>>
  /\ front = TRUE /\ screens = <<>> /\ dialogs = <<>>
  /\ edits = 0 /\ kills = 0

Next ==
  \/ onOpen \/ RunTask \/ Query \/ setActions
  \/ \E row \in DOMAIN list : btnRemove(row) \/ onClick(row)
  \/ Dismiss \/ removeItem \/ removeItem_raises
  \/ fab \/ Stop
  \/ screens # <<>> /\ (Leave \/ Recreate \/ AddScript \/ updateDatabase)
  \/ Kill

\* The executor, Room and the main thread go on.
Spec == /\ Init /\ [][Next]_vars
        /\ WF_vars(onOpen) /\ WF_vars(RunTask) /\ WF_vars(Query) /\ WF_vars(setActions)

-----------------------------------------------------------------------------
Task ==
  [op : {"insert"}, v : Nat] \cup [op : {"delete"}, id : Nat] \cup [op : {"populate"}]
  \cup [op : {"update"}, id : Nat, v : Nat, base : SUBSET Nat, sound : BOOLEAN]

Script == [id : Nat, v : Nat]

TypeOK ==
  /\ IsDb(db)
  /\ tasks \in Seq(Task)
  /\ opened \in BOOLEAN /\ dirty \in BOOLEAN /\ front \in BOOLEAN
  /\ posted \in Seq(Seq(Script)) /\ Len(posted) <= 1 /\ list \in Seq(Script)
  /\ screens \in Seq([id : Nat, given : Nat, v : Nat, sound : BOOLEAN])
  /\ dialogs \in Seq([row : 0 .. Len(list), pressed : Nat, calm : BOOLEAN])
  /\ (~front => screens # <<>>) /\ (dialogs # <<>> => front /\ screens = <<>>)
  /\ edits \in 0 .. MaxEdits /\ kills \in 0 .. MaxKills

\* A save finds a version its screen had, since it was made of it, or what it saves
\* itself, which the save before it on the screen has written already: no other save
\* or delete comes between.  That is so if the screen is the only one and was created, for
\* the last time, with the script as last saved.  The intent that a screen is created
\* again from has an older script once the screen has saved: its next save undoes those.
NoSaveLost ==
  LET tables == Tables IN
  \A n \in DOMAIN tasks :
    tasks[n].op = "update" /\ tasks[n].sound =>
      LET before == tables[n].rows
      IN  /\ tasks[n].id \in DOMAIN before
          /\ before[tasks[n].id] \in tasks[n].base \cup {tasks[n].v}

\* Confirming removes the script whose button was pressed, whatever the list is
\* given meanwhile, unless a removal was on its way when it was pressed.
RemovesPressed ==
  [][removeItem /\ Last(dialogs).calm => Last(tasks').id = Last(dialogs).pressed]_vars

\* If the list stays in front, it comes to show what is stored.
ListCatchesUp == <>[]front => <>[](list = getAllActions(db))

\* The disk holds what the user did up to some point, in the order it was done.
Disk == INSTANCE WriteBehind WITH
  states <- LET tables == Tables IN [n \in DOMAIN tables |-> tables[n].rows]
ImplementsWriteBehind == Disk!Spec

=============================================================================
