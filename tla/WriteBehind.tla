----------------------------- MODULE WriteBehind -----------------------------
(***************************************************************************)
(* What the store of scripts promises its user: a table that is changed one*)
(* row at a time, on the disk in the order the changes were made.  A change*)
(* of a row may take the place of changes of the same row right before it  *)
(* that are not on the disk yet.  A crash takes back the latest changes,   *)
(* never one before another that stays.                                    *)
(*                                                                         *)
(* There are no tasks, lists or screens here: ScriptStore is shown to      *)
(* implement this module.                                                  *)
(***************************************************************************)
EXTENDS Integers, Sequences, SequencesExt

VARIABLE states     \* what is on the disk, and what each later change makes of it

IsTable(t) ==
  t = [id \in DOMAIN t |-> t[id]] /\ \A id \in DOMAIN t : id \in Nat \ {0} /\ t[id] \in Nat

Rows(t) == {<<id, t[id]>> : id \in DOMAIN t}

\* At most one row of t, the one with this id, was added, removed or replaced in u.
Edited(t, u, id) ==
  \A row \in (Rows(t) \ Rows(u)) \cup (Rows(u) \ Rows(t)) : row[1] = id

\* The tables after the k-th differ in the changed row alone, and become the new one.
\* old and new are named for TLC, which would compute the mapped states at each use.
Change ==
  \E old \in {states}, new \in {states'} :
    /\ Len(new) = Len(old) + 1 /\ IsTable(Last(new))
    /\ \E k \in DOMAIN old :
         /\ new = [n \in 1 .. Len(old) + 1 |-> IF n <= k THEN old[n] ELSE Last(new)]
         /\ \E id \in DOMAIN Last(new) \cup DOMAIN old[k] \cup {0} :
              \A n \in k .. Len(old) : Edited(old[n], Last(new), id)

Sync == Len(states) > 1 /\ states' = Tail(states)

Crash == Len(states) > 1 /\ states' = <<Head(states)>>

Init == states = <<states[1]>> /\ IsTable(states[1])

Next == Change \/ Sync \/ Crash

\* What was changed reaches the disk, or is taken back by a crash.
Spec == Init /\ [][Next]_states /\ WF_states(Sync)

=============================================================================
