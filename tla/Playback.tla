------------------------------- MODULE Playback -------------------------------
(***************************************************************************)
(* Phones that play scripts on the arm or on the test server, and preview  *)
(* actions there.  Playing is two HTTP calls: a reset and, from the        *)
(* callback of its answer, the choreography; both callbacks run on threads *)
(* of the HTTP client, beside the user interface.  Every call has a        *)
(* connection of its own, so calls overtake one another; one that is not   *)
(* answered in time fails on the phone, whatever becomes of it.            *)
(*                                                                         *)
(* The servers are what AtomicArm promises: one request at a time, each a  *)
(* single step, answered when it is done.                                  *)
(***************************************************************************)
EXTENDS Gaoranger, SequencesExt

CONSTANTS
  Phones,
  Scripts,       \* the scripts a list may hold: sequences of moves <<motor, value>>
  Postures,      \* the positions previews go to
  MaxCalls,      \* bound: calls ever made
  MaxEdits,      \* bound: edits and switches of the toggle
  MaxRestarts    \* bound: restarts of the arm

ASSUME PlaybackAssumption ==
  /\ Scripts \subseteq Seq(Motor \X Int)
  /\ Postures \subseteq Position
  /\ MaxCalls \in Nat /\ MaxEdits \in Nat /\ MaxRestarts \in Nat

Servers == {"arm", "test"}

VARIABLES
  isTest,      \* by phone: the toggle
  script,      \* by phone: mBehaviorList
  plays,       \* the presses of the play button
  calls,       \* the HTTP calls, in the order they were made
  queue,       \* by server: calls that reached it
  served,      \* by server: calls it has served, in order
  pos,         \* by server: the commanded position
  edits, restarts

vars == <<isTest, script, plays, calls, queue, served, pos, edits, restarts>>

\* The only operator needed of the arm: what a request does to a position.
Arm == INSTANCE AtomicArm WITH
  Drive <- [m \in Motor |-> m], Requests <- {}, MaxRequests <- 0,
  made <- 0, queue <- <<>>, joints <- Home, led <- FALSE, replies <- <<>>, pos <- Home

-----------------------------------------------------------------------------
(***************************************************************************)
(* Calls.                                                                  *)
(***************************************************************************)
getUrlHost(test) == IF test THEN "test" ELSE "arm"

InFlight(s) == {c \in DOMAIN calls : calls[c].server = s /\ calls[c].at \in {"flying", "queued"}}

\* enqueue; play is the play it belongs to, or 0.  alone: nothing made before
\* it is still on its way to the server.
sendRequest(request, test, play) ==
  /\ Len(calls) < MaxCalls
  /\ calls' = Append(calls,
       [play |-> play, server |-> getUrlHost(test), req |-> request, at |-> "flying",
        open |-> TRUE, alone |-> InFlight(getUrlHost(test)) = {}])

\* It may never happen, and may happen after the phone has given the call up.
Deliver(c) ==
  /\ calls[c].at = "flying"
  /\ calls' = [calls EXCEPT ![c].at = "queued"]
  /\ queue' = [queue EXCEPT ![calls[c].server] = Append(@, c)]
  /\ UNCHANGED <<isTest, script, plays, served, pos, edits, restarts>>

\* Mutated form of Serve: the answer goes out when the movement begins.
Serve_late(s) ==
  /\ queue[s] # <<>>
  /\ \/ /\ calls[Head(queue[s])].at = "queued"
        /\ calls' = [calls EXCEPT ![Head(queue[s])].at = "served"]
        /\ UNCHANGED <<queue, served, pos>>
     \/ /\ calls[Head(queue[s])].at = "served"
        /\ queue' = [queue EXCEPT ![s] = Tail(@)]
        /\ served' = [served EXCEPT ![s] = Append(@, Head(queue[s]))]
        /\ pos' = [pos EXCEPT ![s] = Arm!Effect(@, calls[Head(queue[s])].req)]
        /\ UNCHANGED calls
  /\ UNCHANGED <<isTest, script, plays, edits, restarts>>

Serve(s) ==
  /\ queue[s] # <<>>
  /\ LET c == Head(queue[s])
     IN  /\ queue' = [queue EXCEPT ![s] = Tail(@)]
         /\ served' = [served EXCEPT ![s] = Append(@, c)]
         /\ pos' = [pos EXCEPT ![s] = Arm!Effect(@, calls[c].req)]
         /\ calls' = [calls EXCEPT ![c].at = "served"]
  /\ UNCHANGED <<isTest, script, plays, edits, restarts>>

\* The arm is switched off and on: the connections in its queue are cut.
Restart ==
  /\ restarts < MaxRestarts
  /\ restarts' = restarts + 1
  /\ pos' = [pos EXCEPT !["arm"] = Home]
  /\ queue' = [queue EXCEPT !["arm"] = <<>>]
  /\ calls' = [c \in DOMAIN calls |->
                 IF c \in ToSet(queue["arm"]) THEN [calls[c] EXCEPT !.at = "lost"] ELSE calls[c]]
  /\ UNCHANGED <<isTest, script, plays, served, edits>>

-----------------------------------------------------------------------------
(***************************************************************************)
(* A phone.                                                                *)
(***************************************************************************)
Closed(c) == [calls EXCEPT ![c].open = FALSE]

\* Mutated form of ToPlay: the choreography is sent at once, from the same press.
ToPlay_at_once(p) ==
  /\ Len(calls) + 1 < MaxCalls
  /\ plays' = Append(plays, [phone |-> p, stage |-> "choreography", count |-> 0,
                             shown |-> script[p], edited |-> FALSE, switched |-> FALSE])
  /\ calls' = calls \o
       << [play |-> Len(plays'), server |-> getUrlHost(isTest[p]), req |-> [kind |-> "reset"],
           at |-> "flying", open |-> TRUE, alone |-> FALSE],
          [play |-> Len(plays'), server |-> getUrlHost(isTest[p]),
           req |-> [kind |-> "choreography", count |-> Len(script[p]), actions |-> script[p]],
           at |-> "flying", open |-> TRUE, alone |-> FALSE] >>
  /\ UNCHANGED <<isTest, script, queue, served, pos, edits, restarts>>

\* The histories are the list that was on the screen, and whether it or the
\* toggle was changed before the choreography was sent.
ToPlay(p) ==
  /\ plays' = Append(plays, [phone |-> p, stage |-> "reset", count |-> 0,
                             shown |-> script[p], edited |-> FALSE, switched |-> FALSE])
  /\ sendRequest([kind |-> "reset"], isTest[p], Len(plays'))
  /\ UNCHANGED <<isTest, script, queue, served, pos, edits, restarts>>

\* The answer of the reset: playChoreo begins, up to mBehaviorList.size().
\* The answer of any other call is not looked at.
onResponse(c) ==
  /\ calls[c].open /\ calls[c].at = "served"
  /\ calls' = Closed(c)
  /\ LET k == calls[c].play
     IN  plays' = IF k = 0 THEN plays
                  ELSE IF plays[k].stage = "reset"
                  THEN [plays EXCEPT ![k].stage = "url", ![k].count = Len(script[plays[k].phone])]
                  ELSE [plays EXCEPT ![k].stage = "over"]
  /\ UNCHANGED <<isTest, script, queue, served, pos, edits, restarts>>

\* Timed out, refused or cut: nothing more is sent.
onFailure(c) ==
  /\ calls[c].open
  /\ calls' = Closed(c)
  /\ plays' = IF calls[c].play = 0 THEN plays
              ELSE [plays EXCEPT ![calls[c].play].stage = "over"]
  /\ UNCHANGED <<isTest, script, queue, served, pos, edits, restarts>>

\* Mutated form of choreographyUrl: the last action of the list is left out.
choreographyUrl_drops_last(k) ==
  /\ plays[k].stage = "url"
  /\ sendRequest([kind |-> "choreography", count |-> plays[k].count,
                  actions |-> SubSeq(script[plays[k].phone], 1, Len(script[plays[k].phone]) - 1)],
                 isTest[plays[k].phone], k)
  /\ plays' = [plays EXCEPT ![k].stage = "choreography"]
  /\ UNCHANGED <<isTest, script, queue, served, pos, edits, restarts>>

\* The list is walked after its size was read, the toggle is read again.
choreographyUrl(k) ==
  /\ plays[k].stage = "url"
  /\ LET p == plays[k].phone
     IN  sendRequest([kind |-> "choreography", count |-> plays[k].count, actions |-> script[p]],
                     isTest[p], k)
  /\ plays' = [plays EXCEPT ![k].stage = "choreography"]
  /\ UNCHANGED <<isTest, script, queue, served, pos, edits, restarts>>

\* The list changes its length while it is walked: the client ends.
choreographyUrl_raises(k) ==
  /\ plays[k].stage = "url"
  /\ plays[k].edited
  /\ plays' = [plays EXCEPT ![k].stage = "over"]
  /\ UNCHANGED <<isTest, script, calls, queue, served, pos, edits, restarts>>

\* The user meanwhile.
Pending(k, p) == plays[k].phone = p /\ plays[k].stage \in {"reset", "url"}

Toggle(p) ==
  /\ edits < MaxEdits /\ edits' = edits + 1
  /\ isTest' = [isTest EXCEPT ![p] = ~@]
  /\ plays' = [k \in DOMAIN plays |->
                 IF Pending(k, p) THEN [plays[k] EXCEPT !.switched = TRUE] ELSE plays[k]]
  /\ UNCHANGED <<script, calls, queue, served, pos, restarts>>

Edit(p, s) ==
  /\ edits < MaxEdits /\ edits' = edits + 1
  /\ s # script[p] /\ script' = [script EXCEPT ![p] = s]
  /\ plays' = [k \in DOMAIN plays |->
                 IF Pending(k, p) THEN [plays[k] EXCEPT !.edited = TRUE] ELSE plays[k]]
  /\ UNCHANGED <<isTest, calls, queue, served, pos, restarts>>

\* gotoStates of the action screen.
gotoStates(p, angles) ==
  /\ sendRequest([kind |-> "toward", angles |-> [i \in 1 .. NumMotors |-> angles[i - 1]]],
                 isTest[p], 0)
  /\ UNCHANGED <<isTest, script, plays, queue, served, pos, edits, restarts>>

-----------------------------------------------------------------------------
Init ==
  /\ isTest = [p \in Phones |-> FALSE] /\ script \in [Phones -> Scripts]
  /\ plays = <<>> /\ calls = <<>>
  /\ queue = [s \in Servers |-> <<>>] /\ served = [s \in Servers |-> <<>>]
  /\ pos = [s \in Servers |-> Home]
  /\ edits = 0 /\ restarts = 0

Callback == \/ \E c \in DOMAIN calls : onResponse(c) \/ onFailure(c)
            \/ \E k \in DOMAIN plays : choreographyUrl(k) \/ choreographyUrl_raises(k)

Next ==
  \/ \E c \in DOMAIN calls : Deliver(c)
  \/ \E s \in Servers : Serve(s)
  \/ Callback
  \/ \E p \in Phones :
       \/ ToPlay(p) \/ Toggle(p)
       \/ \E s \in Scripts : Edit(p, s)
       \/ \E angles \in Postures : gotoStates(p, angles)
  \/ Restart

Spec == Init /\ [][Next]_vars

-----------------------------------------------------------------------------
Play == [phone : Phones, stage : {"reset", "url", "choreography", "over"}, count : Nat,
         shown : Scripts, edited : BOOLEAN, switched : BOOLEAN]

TypeOK ==
  /\ isTest \in [Phones -> BOOLEAN] /\ script \in [Phones -> Scripts]
  /\ \A k \in DOMAIN plays : plays[k] \in Play
  /\ \A c \in DOMAIN calls :
       /\ calls[c].play \in 0 .. Len(plays) /\ calls[c].server \in Servers
       /\ calls[c].at \in {"flying", "queued", "served", "lost"}
       /\ calls[c].open \in BOOLEAN /\ calls[c].alone \in BOOLEAN
  /\ \A s \in Servers : ToSet(queue[s]) = {c \in InFlight(s) : calls[c].at = "queued"}
  /\ pos \in [Servers -> Position]

Played(actions) == Acted(Home, actions)

\* A script played without interference takes the robot to where its moves lead
\* from home: when the server served its reset and then its choreography with
\* nothing in between, and the list and the toggle were left alone meanwhile.
ScriptPlayed ==
  \A s \in Servers : LET n == Len(served[s]) IN
    n > 1 => LET k == calls[served[s][n]].play IN
      (/\ k # 0 /\ calls[served[s][n - 1]].play = k
       /\ calls[served[s][n]].req.kind = "choreography" /\ ~plays[k].edited)
      /\ restarts = 0
        => pos[s] = Played(plays[k].shown)

\* A choreography is sent only after its reset was done, and to the server that
\* did it unless the toggle was switched: no robot gets moves without a reset.
ResetFirst ==
  \A c \in DOMAIN calls :
    calls[c].req.kind = "choreography" =>
      \E r \in DOMAIN calls :
        /\ calls[r].play = calls[c].play /\ calls[r].req.kind = "reset"
        /\ r \in ToSet(served[calls[r].server])
        /\ calls[r].server = calls[c].server \/ plays[calls[c].play].switched

\* When everything sent to a server has been answered or lost, and the call
\* made last is a preview that was made when nothing else was on its way, the
\* robot stands at that preview, unless it was lost or the arm restarted.
PreviewStands ==
  \A s \in Servers : \A c \in DOMAIN calls :
    (/\ calls[c].server = s /\ calls[c].req.kind = "toward" /\ calls[c].alone
     /\ \A d \in DOMAIN calls : calls[d].server = s => d <= c
     /\ calls[c].at = "served" /\ restarts = 0)
      => pos[s] = [m \in Motor |-> calls[c].req.angles[m + 1]]

=============================================================================
