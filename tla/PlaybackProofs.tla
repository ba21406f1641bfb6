---------------------------- MODULE PlaybackProofs ----------------------------
(***************************************************************************)
(* What phones that play scripts and preview actions can rely on, for any  *)
(* number of phones, scripts and calls, whatever calls are lost or late.   *)
(*                                                                         *)
(* A call is made once and keeps what it asks, and what a server has served*)
(* and a play was told stays so (Histories): what is shown of the calls of *)
(* a play when they are made stays true.  So do the list it is about       *)
(* (Lists) and, with it, what its choreography asks (Choreographies).      *)
(***************************************************************************)
EXTENDS Playback, GaorangerProofs, SequenceTheorems, TLAPS

Angles(p) == [i \in 1 .. NumMotors |-> p[i - 1]]

Request == [kind : {"reset"}]
           \cup [kind : {"choreography"}, count : Nat, actions : Scripts]
           \cup [kind : {"toward"}, angles : {Angles(p) : p \in Postures}]

Call == [play : Nat, server : Servers, req : Request,
         at : {"flying", "queued", "served", "lost"}, open : BOOLEAN, alone : BOOLEAN]

Types ==
  /\ isTest \in [Phones -> BOOLEAN] /\ script \in [Phones -> Scripts]
  /\ plays \in Seq(Play) /\ calls \in Seq(Call)
  /\ \A c \in DOMAIN calls : calls[c].play = 0 \/ calls[c].play \in DOMAIN plays
  /\ queue \in [Servers -> Seq(Nat)] /\ served \in [Servers -> Seq(Nat)]
  /\ pos = [s \in Servers |-> pos[s]]
  /\ restarts \in Nat

\* A queue holds calls to its server that wait there, each once.
Queued ==
  \A s \in Servers : \A i \in 1 .. Len(queue[s]) :
    /\ queue[s][i] \in DOMAIN calls
    /\ calls[queue[s][i]].server = s /\ calls[queue[s][i]].at = "queued"
    /\ \A j \in 1 .. Len(queue[s]) : queue[s][i] = queue[s][j] => i = j

\* A call that was served is among those its server served.
ServedCalls ==
  \A c \in DOMAIN calls :
    calls[c].at = "served" => c \in ToSet(served[calls[c].server])

\* To the server the toggle names, unless it was switched since.
Aimed(k, s) == s = getUrlHost(isTest[plays[k].phone]) \/ plays[k].switched

\* Until its reset is answered, a play has made no other call.
Resets ==
  \A c \in DOMAIN calls : LET k == calls[c].play IN
    /\ k = 0 => calls[c].req.kind = "toward"
    /\ k # 0 /\ plays[k].stage \in {"reset", "url"} => calls[c].req.kind = "reset"
    /\ k # 0 /\ plays[k].stage = "reset" => Aimed(k, calls[c].server)

\* A reset of play k was done, by the server of a choreography sent now.
WasReset ==
  \A k \in DOMAIN plays : plays[k].stage = "url" =>
    \E r \in DOMAIN calls :
      /\ calls[r].play = k /\ calls[r].req.kind = "reset"
      /\ r \in ToSet(served[calls[r].server])
      /\ Aimed(k, calls[r].server)

IInv == Types /\ Queued /\ ServedCalls /\ Resets /\ WasReset /\ ResetFirst

-----------------------------------------------------------------------------
(***************************************************************************)
(* Sequences.                                                              *)
(***************************************************************************)
LEMMA Replaced ==
  ASSUME NEW S, NEW s \in Seq(S), NEW i \in DOMAIN s, NEW e \in S,
         NEW t, t = [s EXCEPT ![i] = e]
  PROVE  /\ t \in Seq(S) /\ Len(t) = Len(s) /\ DOMAIN t = DOMAIN s
         /\ t[i] = e /\ \A j \in DOMAIN s : j # i => t[j] = s[j]
<1>1. DOMAIN s = 1 .. Len(s)
  BY LenProperties
<1>2. t \in Seq(S) /\ Len(t) = Len(s)
  BY <1>1, ExceptSeq
<1>3. \A j \in 1 .. Len(s) : t[j] = IF j = i THEN e ELSE s[j]
  BY <1>1, ExceptSeq
<1>4. DOMAIN t = 1 .. Len(t)
  BY <1>2, LenProperties
<1> QED BY <1>1, <1>2, <1>3, <1>4

LEMMA Appended ==
  ASSUME NEW S, NEW s \in Seq(S), NEW e \in S, NEW t, t = Append(s, e)
  PROVE  /\ t \in Seq(S) /\ Len(t) = Len(s) + 1 /\ Len(s) \in Nat
         /\ DOMAIN s = 1 .. Len(s) /\ DOMAIN t = DOMAIN s \cup {Len(s) + 1}
         /\ Len(s) + 1 \notin DOMAIN s
         /\ t[Len(s) + 1] = e /\ \A j \in DOMAIN s : t[j] = s[j]
<1>1. t \in Seq(S) /\ Len(t) = Len(s) + 1 /\ Len(s) \in Nat /\ DOMAIN s = 1 .. Len(s)
  BY AppendProperties, LenProperties
<1>2. DOMAIN t = 1 .. Len(s) + 1
  BY <1>1, LenProperties
<1>3. t[Len(s) + 1] = e /\ \A j \in 1 .. Len(s) : t[j] = s[j]
  BY AppendProperties
<1> QED BY <1>1, <1>2, <1>3

LEMMA AppendedSet ==
  ASSUME NEW S, NEW s \in Seq(S), NEW e \in S
  PROVE  ToSet(Append(s, e)) = ToSet(s) \cup {e}
  BY Appended DEF ToSet

LEMMA Mapped ==
  ASSUME NEW S, NEW T, NEW s \in Seq(S), NEW t, t = [i \in DOMAIN s |-> t[i]],
         \A i \in DOMAIN s : t[i] \in T
  PROVE  t \in Seq(T) /\ Len(t) = Len(s) /\ DOMAIN t = DOMAIN s
<1>1. Len(s) \in Nat /\ DOMAIN s = 1 .. Len(s)
  BY LenProperties
<1>2. t \in [1 .. Len(s) -> T]
  BY <1>1
<1>3. t \in Seq(T)
  BY <1>1, <1>2, SeqDef
<1>4. Len(t) \in Nat /\ DOMAIN t = 1 .. Len(t) /\ DOMAIN t = 1 .. Len(s)
  BY <1>1, <1>2, <1>3, LenProperties
<1> QED BY <1>1, <1>3, <1>4

LEMMA SameBound ==
  ASSUME NEW a \in Nat, NEW b \in Nat, 1 .. a = 1 .. b
  PROVE  a = b
<1>1. a <= b
  <2>1. CASE a = 0
    BY <2>1
  <2>2. CASE a # 0
    <3>1. a \in 1 .. a
      BY <2>2
    <3>2. a \in 1 .. b
      BY <3>1
    <3> QED BY <3>2
  <2> QED BY <2>1, <2>2
<1>2. b <= a
  <2>1. CASE b = 0
    BY <2>1
  <2>2. CASE b # 0
    <3>1. b \in 1 .. b
      BY <2>2
    <3>2. b \in 1 .. a
      BY <3>1
    <3> QED BY <3>2
  <2> QED BY <2>1, <2>2
<1> QED BY <1>1, <1>2

LEMMA Tails ==
  ASSUME NEW S, NEW s \in Seq(S), s # <<>>
  PROVE  /\ Tail(s) \in Seq(S) /\ Head(s) = s[1] /\ Head(s) \in S /\ 1 \in 1 .. Len(s)
         /\ \A i \in 1 .. Len(Tail(s)) : i + 1 \in 1 .. Len(s) /\ Tail(s)[i] = s[i + 1]
<1>1. Len(s) \in Nat \ {0}
  BY EmptySeq
<1>2. Tail(s) \in Seq(S) /\ Head(s) \in S /\ Len(Tail(s)) = Len(s) - 1
  BY HeadTailProperties
<1>3. \A i \in 1 .. Len(Tail(s)) : Tail(s)[i] = s[i + 1]
  BY HeadTailProperties
<1> QED BY <1>1, <1>2, <1>3

-----------------------------------------------------------------------------
(***************************************************************************)
(* What the steps change.                                                  *)
(***************************************************************************)
\* What a call was made with.
KeptCall(c) ==
  /\ calls'[c].play = calls[c].play /\ calls'[c].server = calls[c].server
  /\ calls'[c].req = calls[c].req /\ calls'[c].alone = calls[c].alone

\* What a step leaves of the play k.
KeptPlay(k) ==
  /\ plays'[k].phone = plays[k].phone
  /\ plays[k].switched => plays'[k].switched
  /\ plays'[k].stage = "reset" => plays[k].stage = "reset"
  /\ plays'[k].stage = "url" =>
       \/ plays[k].stage = "url"
       \/ plays[k].stage = "reset"
          /\ \E c \in DOMAIN calls : calls[c].play = k /\ calls[c].at = "served"

\* A user does not switch the toggle unnoticed.
KeptAim(k) ==
  plays[k].stage \in {"reset", "url"} =>
    plays'[k].switched \/ isTest'[plays[k].phone] = isTest[plays[k].phone]

Histories ==
  /\ \A c \in DOMAIN calls : c \in DOMAIN calls' /\ KeptCall(c)
  /\ \A c \in DOMAIN calls : calls'[c].at = "served" =>
       calls[c].at = "served" \/ c \in ToSet(served'[calls[c].server])
  /\ \A k \in DOMAIN plays : k \in DOMAIN plays' /\ KeptPlay(k) /\ KeptAim(k)
  /\ \A s \in Servers : ToSet(served[s]) \subseteq ToSet(served'[s])

\* One call is at another place, or has been given up by its phone.
LEMMA CallMoves ==
  ASSUME Types, NEW c \in DOMAIN calls,
         \/ \E a \in {"flying", "queued", "served", "lost"} : calls' = [calls EXCEPT ![c].at = a]
         \/ calls' = Closed(c)
  PROVE  /\ calls' \in Seq(Call) /\ DOMAIN calls' = DOMAIN calls
         /\ \A d \in DOMAIN calls : KeptCall(d)
         /\ \A d \in DOMAIN calls : d # c => calls'[d] = calls[d]
         /\ calls' = Closed(c) => calls'[c].at = calls[c].at
         /\ \A a : calls' = [calls EXCEPT ![c].at = a] => calls'[c].at = a
<1>1. calls \in Seq(Call) /\ calls[c] \in Call
  BY LenProperties DEF Types
<1>2. ASSUME NEW a \in {"flying", "queued", "served", "lost"}
      PROVE  LET e == [calls[c] EXCEPT !.at = a]
             IN  e \in Call /\ e.at = a /\ e.play = calls[c].play /\ e.server = calls[c].server
                 /\ e.req = calls[c].req /\ e.alone = calls[c].alone
  <2> HIDE DEF Request, Servers
  <2> QED BY <1>1 DEF Call
<1>3. LET e == [calls[c] EXCEPT !.open = FALSE]
      IN  e \in Call /\ e.at = calls[c].at /\ e.play = calls[c].play /\ e.server = calls[c].server
          /\ e.req = calls[c].req /\ e.alone = calls[c].alone
  BY <1>1 DEF Call
<1>4. CASE \E a \in {"flying", "queued", "served", "lost"} : calls' = [calls EXCEPT ![c].at = a]
  <2>1. PICK a \in {"flying", "queued", "served", "lost"} : calls' = [calls EXCEPT ![c].at = a]
    BY <1>4
  <2> DEFINE e == [calls[c] EXCEPT !.at = a]
  <2>2. calls' = [calls EXCEPT ![c] = e]
    BY <2>1
  <2>3. /\ e \in Call /\ e.at = a /\ e.play = calls[c].play /\ e.server = calls[c].server
        /\ e.req = calls[c].req /\ e.alone = calls[c].alone
    BY <1>2
  <2>4. \A b : calls' = [calls EXCEPT ![c].at = b] => calls'[c].at = b
    BY <1>1 DEF Call
  <2> HIDE DEF e
  <2>5. /\ calls' \in Seq(Call) /\ DOMAIN calls' = DOMAIN calls /\ calls'[c] = e
        /\ \A d \in DOMAIN calls : d # c => calls'[d] = calls[d]
    BY <1>1, <2>2, <2>3, Replaced
  <2>6. calls' = Closed(c) => calls'[c].at = calls[c].at
    <3>1. ASSUME calls' = Closed(c) PROVE calls'[c] = [calls[c] EXCEPT !.open = FALSE]
      <4>1. calls' = [calls EXCEPT ![c] = [calls[c] EXCEPT !.open = FALSE]]
        BY <3>1 DEF Closed
      <4> QED BY <1>1, <1>3, <4>1, Replaced
    <3> QED BY <1>3, <3>1
  <2> QED BY <2>3, <2>4, <2>5, <2>6 DEF KeptCall
<1>5. CASE calls' = Closed(c)
  <2> DEFINE e == [calls[c] EXCEPT !.open = FALSE]
  <2>1. calls' = [calls EXCEPT ![c] = e]
    BY <1>5 DEF Closed
  <2>2. /\ e \in Call /\ e.at = calls[c].at /\ e.play = calls[c].play
        /\ e.server = calls[c].server /\ e.req = calls[c].req /\ e.alone = calls[c].alone
    BY <1>3
  <2>3. \A b : calls' = [calls EXCEPT ![c].at = b] => calls'[c].at = b
    BY <1>1 DEF Call
  <2> HIDE DEF e
  <2>4. /\ calls' \in Seq(Call) /\ DOMAIN calls' = DOMAIN calls /\ calls'[c] = e
        /\ \A d \in DOMAIN calls : d # c => calls'[d] = calls[d]
    BY <1>1, <2>1, <2>2, Replaced
  <2> QED BY <2>2, <2>3, <2>4 DEF KeptCall
<1> QED BY <1>4, <1>5

\* A call is made.
Sent(n, request, test, play) ==
  /\ calls' \in Seq(Call) /\ DOMAIN calls' = DOMAIN calls \cup {n} /\ n \notin DOMAIN calls
  /\ DOMAIN calls = 1 .. Len(calls) /\ Len(calls) \in Nat
  /\ \A d \in DOMAIN calls : calls'[d] = calls[d]
  /\ calls'[n].play = play /\ calls'[n].server = getUrlHost(test)
  /\ calls'[n].req = request /\ calls'[n].at = "flying"
  /\ calls'[n].alone = (InFlight(getUrlHost(test)) = {})

LEMMA CallMade ==
  ASSUME Types, NEW request \in Request, NEW test, NEW play \in Nat,
         sendRequest(request, test, play)
  PROVE  Sent(Len(calls) + 1, request, test, play)
<1> DEFINE e == [play |-> play, server |-> getUrlHost(test), req |-> request, at |-> "flying",
                 open |-> TRUE, alone |-> InFlight(getUrlHost(test)) = {}]
<1>1. calls' = Append(calls, e)
  BY DEF sendRequest
<1>2. e \in Call
  <2>1. getUrlHost(test) \in Servers
    BY DEF getUrlHost, Servers
  <2>2. (InFlight(getUrlHost(test)) = {}) \in BOOLEAN
    OBVIOUS
  <2> HIDE DEF Request
  <2> QED BY <2>1, <2>2 DEF Call
<1>3. /\ e.play = play /\ e.server = getUrlHost(test) /\ e.req = request /\ e.at = "flying"
      /\ e.alone = (InFlight(getUrlHost(test)) = {})
  OBVIOUS
<1>4. calls \in Seq(Call)
  BY DEF Types
<1> HIDE DEF e
<1> QED BY <1>1, <1>2, <1>3, <1>4, Appended DEF Sent

\* One play goes on.
LEMMA PlayMoves ==
  ASSUME Types, NEW k \in DOMAIN plays, NEW e \in Play, plays' = [plays EXCEPT ![k] = e]
  PROVE  /\ plays' \in Seq(Play) /\ DOMAIN plays' = DOMAIN plays /\ plays'[k] = e
         /\ \A j \in DOMAIN plays : j # k => plays'[j] = plays[j]
  BY Replaced DEF Types

LEMMA PlayFields ==
  ASSUME Types, NEW k \in DOMAIN plays
  PROVE  /\ plays[k] \in Play /\ script[plays[k].phone] \in Scripts
         /\ Len(script[plays[k].phone]) \in Nat /\ k \in Nat
<1>1. plays \in Seq(Play)
  BY DEF Types
<1>2. plays[k] \in Play /\ k \in Nat
  BY <1>1, LenProperties
<1>3. plays[k].phone \in Phones
  BY <1>2 DEF Play
<1>4. script[plays[k].phone] \in Scripts /\ Scripts \subseteq Seq(Motor \X Int)
  BY <1>3, PlaybackAssumption DEF Types
<1>5. script[plays[k].phone] \in Seq(Motor \X Int)
  BY <1>4
<1> QED BY <1>2, <1>4, <1>5, LenProperties

\* A play that stays as it is, and one whose choreography goes on or is over.
LEMMA SamePlays ==
  ASSUME UNCHANGED <<plays, isTest>>
  PROVE  \A k \in DOMAIN plays : k \in DOMAIN plays' /\ KeptPlay(k) /\ KeptAim(k)
  BY DEF KeptPlay, KeptAim

LEMMA PlayAdvances ==
  ASSUME Types, NEW k \in DOMAIN plays, NEW stage \in {"choreography", "over"},
         plays' = [plays EXCEPT ![k].stage = stage], UNCHANGED isTest
  PROVE  /\ plays' \in Seq(Play) /\ DOMAIN plays' = DOMAIN plays /\ plays'[k].stage = stage
         /\ \A j \in DOMAIN plays : KeptPlay(j) /\ KeptAim(j)
<1> DEFINE e == [plays[k] EXCEPT !.stage = stage]
<1>1. plays' = [plays EXCEPT ![k] = e]
  OBVIOUS
<1>2. e \in Play /\ e.stage = stage /\ e.phone = plays[k].phone /\ e.switched = plays[k].switched
  BY PlayFields DEF Play
<1> HIDE DEF e
<1>3. /\ plays' \in Seq(Play) /\ DOMAIN plays' = DOMAIN plays /\ plays'[k] = e
      /\ \A j \in DOMAIN plays : j # k => plays'[j] = plays[j]
  BY <1>1, <1>2, PlayMoves
<1>4. KeptPlay(k) /\ KeptAim(k)
  BY <1>2, <1>3 DEF KeptPlay, KeptAim
<1>5. \A j \in DOMAIN plays : j # k => KeptPlay(j) /\ KeptAim(j)
  BY <1>3 DEF KeptPlay, KeptAim
<1> QED BY <1>2, <1>3, <1>4, <1>5

LEMMA DeliverKeeps ==
  ASSUME Types, NEW c \in DOMAIN calls, Deliver(c)
  PROVE  Types' /\ Histories
<1>1. /\ calls[c].at = "flying" /\ calls' = [calls EXCEPT ![c].at = "queued"]
      /\ queue' = [queue EXCEPT ![calls[c].server] = Append(@, c)]
      /\ UNCHANGED <<isTest, script, plays, served, pos, edits, restarts>>
  BY DEF Deliver
<1>2. /\ calls' \in Seq(Call) /\ DOMAIN calls' = DOMAIN calls
      /\ \A d \in DOMAIN calls : KeptCall(d)
      /\ \A d \in DOMAIN calls : d # c => calls'[d] = calls[d]
      /\ calls'[c].at = "queued"
  BY <1>1, CallMoves
<1>3. queue' \in [Servers -> Seq(Nat)]
  <2>1. c \in Nat /\ calls[c].server \in Servers
    <3>1. calls \in Seq(Call)
      BY DEF Types
    <3>2. c \in Nat /\ calls[c] \in Call
      BY <3>1, LenProperties
    <3> QED BY <3>2 DEF Call
  <2>2. Append(queue[calls[c].server], c) \in Seq(Nat)
    BY <2>1, AppendProperties DEF Types
  <2> QED BY <1>1, <2>1, <2>2 DEF Types
<1>4. Types'
  BY <1>1, <1>2, <1>3 DEF Types, KeptCall
<1> QED BY <1>1, <1>2, <1>4, SamePlays DEF Histories

LEMMA ServeKeeps ==
  ASSUME Types, Queued, NEW s \in Servers, Serve(s)
  PROVE  /\ Types' /\ Histories /\ Head(queue[s]) \in DOMAIN calls
         /\ calls' = [calls EXCEPT ![Head(queue[s])].at = "served"]
<1> DEFINE c == Head(queue[s])
<1>1. /\ queue[s] # <<>> /\ queue' = [queue EXCEPT ![s] = Tail(@)]
      /\ served' = [served EXCEPT ![s] = Append(@, c)]
      /\ pos' = [pos EXCEPT ![s] = Arm!Effect(@, calls[c].req)]
      /\ calls' = [calls EXCEPT ![c].at = "served"]
      /\ UNCHANGED <<isTest, script, plays, edits, restarts>>
  BY DEF Serve
<1>2. /\ Tail(queue[s]) \in Seq(Nat) /\ c \in Nat /\ c = queue[s][1] /\ 1 \in 1 .. Len(queue[s])
  BY <1>1, Tails DEF Types
<1>3. c \in DOMAIN calls /\ calls[c].server = s
  BY <1>2 DEF Queued
<1> HIDE DEF c
<1>4. /\ calls' \in Seq(Call) /\ DOMAIN calls' = DOMAIN calls
      /\ \A d \in DOMAIN calls : KeptCall(d)
      /\ \A d \in DOMAIN calls : d # c => calls'[d] = calls[d]
  BY <1>1, <1>3, CallMoves
<1>5. served[s] \in Seq(Nat) /\ served \in [Servers -> Seq(Nat)] /\ queue \in [Servers -> Seq(Nat)]
  BY DEF Types
<1>6. /\ Append(served[s], c) \in Seq(Nat)
      /\ ToSet(Append(served[s], c)) = ToSet(served[s]) \cup {c}
  BY <1>2, <1>5, AppendProperties, AppendedSet
<1>7. served'[s] = Append(served[s], c) /\ \A t \in Servers : t # s => served'[t] = served[t]
  BY <1>1, <1>5
<1>8. Types'
  <2>1. queue' \in [Servers -> Seq(Nat)] /\ served' \in [Servers -> Seq(Nat)]
    BY <1>1, <1>2, <1>5, <1>6
  <2>2. pos' = [t \in Servers |-> pos'[t]]
    BY <1>1 DEF Types
  <2> QED BY <1>1, <1>4, <2>1, <2>2 DEF Types, KeptCall
<1>9. \A t \in Servers : ToSet(served[t]) \subseteq ToSet(served'[t])
  BY <1>6, <1>7
<1>10. \A d \in DOMAIN calls : calls'[d].at = "served" =>
         calls[d].at = "served" \/ d \in ToSet(served'[calls[d].server])
  BY <1>3, <1>4, <1>6, <1>7
<1> QED BY <1>1, <1>3, <1>4, <1>8, <1>9, <1>10, SamePlays DEF Histories, c

\* The connections in the arm's queue are cut.
LEMMA RestartKeeps ==
  ASSUME Types, Restart
  PROVE  /\ Types' /\ Histories /\ DOMAIN calls' = DOMAIN calls
         /\ \A c \in DOMAIN calls :
              calls'[c].at = IF c \in ToSet(queue["arm"]) THEN "lost" ELSE calls[c].at
<1>1. /\ restarts' = restarts + 1 /\ pos' = [pos EXCEPT !["arm"] = Home]
      /\ queue' = [queue EXCEPT !["arm"] = <<>>]
      /\ calls' = [c \in DOMAIN calls |->
                     IF c \in ToSet(queue["arm"]) THEN [calls[c] EXCEPT !.at = "lost"] ELSE calls[c]]
      /\ UNCHANGED <<isTest, script, plays, served, edits>>
  BY DEF Restart
<1>2. \A c \in DOMAIN calls : calls[c] \in Call
  BY LenProperties DEF Types
<1>3. ASSUME NEW c \in DOMAIN calls
      PROVE  /\ calls'[c] \in Call /\ KeptCall(c)
             /\ calls'[c].at = IF c \in ToSet(queue["arm"]) THEN "lost" ELSE calls[c].at
  <2> DEFINE e == [calls[c] EXCEPT !.at = "lost"]
  <2>1. e \in Call /\ e.at = "lost" /\ e.play = calls[c].play /\ e.server = calls[c].server
        /\ e.req = calls[c].req /\ e.alone = calls[c].alone
    BY <1>2 DEF Call
  <2>2. calls'[c] = IF c \in ToSet(queue["arm"]) THEN e ELSE calls[c]
    BY <1>1
  <2> HIDE DEF e
  <2> QED BY <1>2, <2>1, <2>2 DEF KeptCall
<1>4. calls' \in Seq(Call) /\ DOMAIN calls' = DOMAIN calls
  <2>1. calls' = [c \in DOMAIN calls |-> calls'[c]]
    BY <1>1
  <2>2. calls \in Seq(Call)
    BY DEF Types
  <2>3. \A c \in DOMAIN calls : calls'[c] \in Call
    BY <1>3
  <2> QED BY <2>1, <2>2, <2>3, Mapped
<1>5. queue' \in [Servers -> Seq(Nat)] /\ pos' = [s \in Servers |-> pos'[s]] /\ restarts' \in Nat
  <2>1. <<>> \in Seq(Nat)
    BY EmptySeq
  <2>2. queue' = [queue EXCEPT !["arm"] = <<>>] /\ queue \in [Servers -> Seq(Nat)]
    BY <1>1 DEF Types
  <2>3. queue' \in [Servers -> Seq(Nat)]
    BY <2>1, <2>2
  <2>4. pos' = [pos EXCEPT !["arm"] = Home] /\ pos = [s \in Servers |-> pos[s]]
    BY <1>1 DEF Types
  <2>5. pos' = [s \in Servers |-> pos'[s]]
    BY <2>4
  <2>6. restarts' = restarts + 1 /\ restarts \in Nat
    BY <1>1 DEF Types
  <2> QED BY <2>3, <2>5, <2>6
<1>6. Types'
  BY <1>1, <1>3, <1>4, <1>5 DEF Types, KeptCall
<1>7. \A c \in DOMAIN calls : calls'[c].at = "served" => calls[c].at = "served"
  BY <1>3
<1> QED BY <1>1, <1>3, <1>4, <1>6, <1>7, SamePlays DEF Histories

LEMMA ToPlayKeeps ==
  ASSUME Types, NEW p \in Phones, ToPlay(p)
  PROVE  LET n == Len(calls) + 1
             k == Len(plays) + 1
         IN  /\ Types' /\ Histories /\ UNCHANGED <<queue, served, pos, restarts, isTest>>
             /\ DOMAIN calls' = DOMAIN calls \cup {n} /\ n \notin DOMAIN calls
             /\ \A d \in DOMAIN calls : calls'[d] = calls[d]
             /\ calls'[n].play = k /\ calls'[n].req = [kind |-> "reset"] /\ calls'[n].at = "flying"
             /\ calls'[n].server = getUrlHost(isTest[p])
             /\ DOMAIN plays' = DOMAIN plays \cup {k} /\ k \notin DOMAIN plays /\ k # 0
             /\ plays'[k].phone = p /\ plays'[k].stage = "reset"
<1> DEFINE n == Len(calls) + 1
           k == Len(plays) + 1
           e == [phone |-> p, stage |-> "reset", count |-> 0, shown |-> script[p],
                 edited |-> FALSE, switched |-> FALSE]
<1>1. /\ plays' = Append(plays, e) /\ sendRequest([kind |-> "reset"], isTest[p], Len(plays'))
      /\ UNCHANGED <<isTest, script, queue, served, pos, edits, restarts>>
  BY DEF ToPlay
<1>2. e \in Play /\ e.phone = p /\ e.stage = "reset"
  BY DEF Types, Play
<1>3. plays \in Seq(Play)
  BY DEF Types
<1> HIDE DEF e
<1>4. /\ plays' \in Seq(Play) /\ Len(plays') = k /\ k \in Nat /\ k # 0
      /\ DOMAIN plays' = DOMAIN plays \cup {k} /\ k \notin DOMAIN plays
      /\ plays'[k] = e /\ \A j \in DOMAIN plays : plays'[j] = plays[j]
  BY <1>1, <1>2, <1>3, Appended
<1>5. [kind |-> "reset"] \in Request
  BY DEF Request
<1> HIDE DEF k
<1>6. /\ calls' \in Seq(Call) /\ DOMAIN calls' = DOMAIN calls \cup {n} /\ n \notin DOMAIN calls
      /\ \A d \in DOMAIN calls : calls'[d] = calls[d]
      /\ calls'[n].play = k /\ calls'[n].server = getUrlHost(isTest[p])
      /\ calls'[n].req = [kind |-> "reset"] /\ calls'[n].at = "flying"
  <2>1. Sent(n, [kind |-> "reset"], isTest[p], k)
    BY <1>1, <1>4, <1>5, CallMade
  <2> QED BY <2>1 DEF Sent
<1> HIDE DEF n
<1>7. Types'
  BY <1>1, <1>4, <1>6 DEF Types
<1>8. \A j \in DOMAIN plays : KeptPlay(j) /\ KeptAim(j)
  BY <1>1, <1>4 DEF KeptPlay, KeptAim
<1>9. Histories
  BY <1>1, <1>4, <1>6, <1>8 DEF Histories, KeptCall
<1> QED BY <1>1, <1>2, <1>4, <1>6, <1>7, <1>9 DEF n, k

LEMMA GotoKeeps ==
  ASSUME Types, NEW p \in Phones, NEW angles \in Postures, gotoStates(p, angles)
  PROVE  LET n == Len(calls) + 1 IN
         /\ Types' /\ Histories /\ UNCHANGED <<plays, queue, served, pos, restarts, isTest>>
         /\ DOMAIN calls' = DOMAIN calls \cup {n} /\ n \notin DOMAIN calls
         /\ DOMAIN calls = 1 .. Len(calls)
         /\ \A d \in DOMAIN calls : calls'[d] = calls[d]
         /\ calls'[n].play = 0 /\ calls'[n].req.kind = "toward" /\ calls'[n].at = "flying"
         /\ calls'[n].alone = (InFlight(calls'[n].server) = {})
<1> DEFINE n == Len(calls) + 1
           request == [kind |-> "toward", angles |-> Angles(angles)]
<1>1. /\ sendRequest(request, isTest[p], 0)
      /\ UNCHANGED <<isTest, script, plays, queue, served, pos, edits, restarts>>
  BY DEF gotoStates, Angles
<1>2. request \in Request /\ request.kind = "toward"
  BY DEF Request
<1> HIDE DEF request
<1>3. /\ calls' \in Seq(Call) /\ DOMAIN calls' = DOMAIN calls \cup {n} /\ n \notin DOMAIN calls
      /\ DOMAIN calls = 1 .. Len(calls)
      /\ \A d \in DOMAIN calls : calls'[d] = calls[d]
      /\ calls'[n].play = 0 /\ calls'[n].server = getUrlHost(isTest[p])
      /\ calls'[n].req = request /\ calls'[n].at = "flying"
      /\ calls'[n].alone = (InFlight(getUrlHost(isTest[p])) = {})
  <2>1. Sent(n, request, isTest[p], 0)
    BY <1>1, <1>2, CallMade
  <2> QED BY <2>1 DEF Sent
<1> HIDE DEF n
<1>4. Types'
  BY <1>1, <1>3 DEF Types
<1>5. Histories
  BY <1>1, <1>3, SamePlays DEF Histories, KeptCall
<1> QED BY <1>1, <1>2, <1>3, <1>4, <1>5 DEF n

LEMMA ChoreographyKeeps ==
  ASSUME Types, NEW k \in DOMAIN plays, choreographyUrl(k)
  PROVE  LET n == Len(calls) + 1 IN
         /\ Types' /\ Histories /\ UNCHANGED <<queue, served, pos, restarts, isTest>>
         /\ DOMAIN calls' = DOMAIN calls \cup {n} /\ n \notin DOMAIN calls
         /\ \A d \in DOMAIN calls : calls'[d] = calls[d]
         /\ calls'[n].play = k /\ calls'[n].req.kind = "choreography"
         /\ calls'[n].server = getUrlHost(isTest[plays[k].phone]) /\ calls'[n].at = "flying"
         /\ plays[k].stage = "url" /\ plays'[k].stage = "choreography" /\ k # 0
<1> DEFINE n == Len(calls) + 1
           p == plays[k].phone
           request == [kind |-> "choreography", count |-> plays[k].count, actions |-> script[p]]
<1>1. /\ plays[k].stage = "url" /\ sendRequest(request, isTest[p], k)
      /\ plays' = [plays EXCEPT ![k].stage = "choreography"]
      /\ UNCHANGED <<isTest, script, queue, served, pos, edits, restarts>>
  BY DEF choreographyUrl
<1>2. request \in Request /\ request.kind = "choreography"
  BY PlayFields DEF Request, Play
<1>3. k \in Nat /\ k # 0
  <2>1. DOMAIN plays = 1 .. Len(plays)
    BY LenProperties DEF Types
  <2> QED BY <2>1
<1>4. /\ plays' \in Seq(Play) /\ DOMAIN plays' = DOMAIN plays /\ plays'[k].stage = "choreography"
      /\ \A j \in DOMAIN plays : KeptPlay(j) /\ KeptAim(j)
  BY <1>1, PlayAdvances
<1> HIDE DEF request, p
<1>5. /\ calls' \in Seq(Call) /\ DOMAIN calls' = DOMAIN calls \cup {n} /\ n \notin DOMAIN calls
      /\ \A d \in DOMAIN calls : calls'[d] = calls[d]
      /\ calls'[n].play = k /\ calls'[n].server = getUrlHost(isTest[p])
      /\ calls'[n].req = request /\ calls'[n].at = "flying"
  <2>1. Sent(n, request, isTest[p], k)
    BY <1>1, <1>2, <1>3, CallMade
  <2> QED BY <2>1 DEF Sent
<1> HIDE DEF n
<1>6. Types'
  BY <1>1, <1>4, <1>5 DEF Types
<1>7. Histories
  BY <1>1, <1>4, <1>5 DEF Histories, KeptCall
<1> QED BY <1>1, <1>2, <1>3, <1>4, <1>5, <1>6, <1>7 DEF n, p

\* A callback: the phone has the answer of a call, or gives it up.
LEMMA CallbackKeeps ==
  ASSUME Types, NEW c \in DOMAIN calls, onResponse(c) \/ onFailure(c)
  PROVE  /\ Types' /\ Histories /\ UNCHANGED <<queue, served, pos, restarts, isTest>>
         /\ DOMAIN calls' = DOMAIN calls
         /\ \A d \in DOMAIN calls : calls'[d].at = calls[d].at
<1> DEFINE k == calls[c].play
<1>1. calls' = Closed(c) /\ UNCHANGED <<isTest, script, queue, served, pos, edits, restarts>>
  BY DEF onResponse, onFailure
<1>2. /\ calls' \in Seq(Call) /\ DOMAIN calls' = DOMAIN calls
      /\ \A d \in DOMAIN calls : KeptCall(d)
      /\ \A d \in DOMAIN calls : calls'[d].at = calls[d].at
  BY <1>1, CallMoves
<1>3. k = 0 \/ k \in DOMAIN plays
  BY DEF Types
<1>4. plays' = plays \/ (k # 0 /\ plays' # plays)
  BY DEF onResponse, onFailure
<1>5. /\ plays' \in Seq(Play) /\ DOMAIN plays' = DOMAIN plays
      /\ \A j \in DOMAIN plays : KeptPlay(j) /\ KeptAim(j)
  <2>1. CASE plays' = plays
    BY <1>1, <2>1, SamePlays DEF Types
  <2>2. CASE k # 0 /\ plays' = [plays EXCEPT ![k].stage = "over"]
    BY <1>1, <1>3, <2>2, PlayAdvances
  <2>3. CASE k # 0 /\ onResponse(c) /\ plays[k].stage = "reset"
    <3> DEFINE length == Len(script[plays[k].phone])
               e == [plays[k] EXCEPT !.stage = "url", !.count = length]
    <3>1. plays' = [plays EXCEPT ![k].stage = "url", ![k].count = length]
      BY <2>3 DEF onResponse
    <3>2. plays[k] \in Play /\ length \in Nat
      BY <1>3, <2>3, PlayFields
    <3> HIDE DEF length
    <3>3. e \in Play /\ e.stage = "url" /\ e.phone = plays[k].phone
          /\ e.switched = plays[k].switched
      BY <3>2 DEF Play
    <3>4. plays' = [plays EXCEPT ![k] = e]
      <4>1. plays \in Seq(Play) /\ DOMAIN plays = 1 .. Len(plays)
        BY LenProperties DEF Types
      <4> QED BY <1>3, <2>3, <3>1, <4>1
    <3> HIDE DEF e
    <3>5. /\ plays' \in Seq(Play) /\ DOMAIN plays' = DOMAIN plays /\ plays'[k] = e
          /\ \A j \in DOMAIN plays : j # k => plays'[j] = plays[j]
      BY <1>3, <2>3, <3>3, <3>4, PlayMoves
    <3>6. calls[c].at = "served"
      BY <2>3 DEF onResponse
    <3>7. KeptPlay(k) /\ KeptAim(k)
      BY <1>1, <2>3, <3>3, <3>5, <3>6 DEF KeptPlay, KeptAim
    <3>8. \A j \in DOMAIN plays : j # k => KeptPlay(j) /\ KeptAim(j)
      BY <1>1, <3>5 DEF KeptPlay, KeptAim
    <3> QED BY <3>5, <3>7, <3>8
  <2> QED BY <2>1, <2>2, <2>3 DEF onResponse, onFailure
<1> HIDE DEF k
<1>6. Types'
  BY <1>1, <1>2, <1>5 DEF Types, KeptCall
<1> QED BY <1>1, <1>2, <1>5, <1>6 DEF Histories

\* The user edits a script or switches a toggle.
LEMMA UserKeeps ==
  ASSUME Types, NEW p \in Phones, Toggle(p) \/ \E s \in Scripts : Edit(p, s)
  PROVE  /\ Types' /\ Histories /\ UNCHANGED <<calls, queue, served, pos, restarts>>
<1>1. UNCHANGED <<calls, queue, served, pos, restarts>>
  BY DEF Toggle, Edit
<1>2. isTest' \in [Phones -> BOOLEAN] /\ script' \in [Phones -> Scripts]
  BY DEF Toggle, Edit, Types
<1>3. plays \in Seq(Play) /\ \A k \in DOMAIN plays : plays[k] \in Play
  BY LenProperties DEF Types
<1>4. /\ DOMAIN plays' = DOMAIN plays /\ plays' = [k \in DOMAIN plays |-> plays'[k]]
      /\ \A k \in DOMAIN plays :
           /\ plays'[k] \in Play /\ plays'[k].phone = plays[k].phone
           /\ plays'[k].stage = plays[k].stage /\ (plays[k].switched => plays'[k].switched)
           /\ KeptAim(k)
  <2>1. \A e \in Play :
          /\ LET f == [e EXCEPT !.switched = TRUE]
             IN  f \in Play /\ f.phone = e.phone /\ f.stage = e.stage /\ f.switched
          /\ LET f == [e EXCEPT !.edited = TRUE]
             IN  f \in Play /\ f.phone = e.phone /\ f.stage = e.stage /\ f.switched = e.switched
    BY DEF Play
  <2>2. CASE Toggle(p)
    <3>1. /\ isTest' = [isTest EXCEPT ![p] = ~@]
          /\ plays' = [k \in DOMAIN plays |->
                         IF Pending(k, p) THEN [plays[k] EXCEPT !.switched = TRUE] ELSE plays[k]]
      BY <2>2 DEF Toggle
    <3>2. ASSUME NEW k \in DOMAIN plays, Pending(k, p)
          PROVE  /\ plays'[k] \in Play /\ plays'[k].phone = plays[k].phone
                 /\ plays'[k].stage = plays[k].stage /\ plays'[k].switched
      BY <1>3, <2>1, <3>1, <3>2
    <3>3. ASSUME NEW k \in DOMAIN plays, ~Pending(k, p)
          PROVE  plays'[k] = plays[k] /\ KeptAim(k)
      <4>1. plays'[k] = plays[k]
        BY <3>1, <3>3
      <4>2. plays[k].stage \in {"reset", "url"} => plays[k].phone # p
        BY <3>3 DEF Pending
      <4>3. plays[k].phone \in Phones
        BY <1>3 DEF Play
      <4> QED BY <3>1, <4>1, <4>2, <4>3 DEF KeptAim, Types
    <3> QED BY <1>3, <3>1, <3>2, <3>3 DEF KeptAim
  <2>3. CASE \E s \in Scripts : Edit(p, s)
    <3>1. /\ isTest' = isTest
          /\ plays' = [k \in DOMAIN plays |->
                         IF Pending(k, p) THEN [plays[k] EXCEPT !.edited = TRUE] ELSE plays[k]]
      BY <2>3 DEF Edit
    <3>2. ASSUME NEW k \in DOMAIN plays
          PROVE  /\ plays'[k] \in Play /\ plays'[k].phone = plays[k].phone
                 /\ plays'[k].stage = plays[k].stage /\ plays'[k].switched = plays[k].switched
      BY <1>3, <2>1, <3>1
    <3> QED BY <3>1, <3>2 DEF KeptAim
  <2> QED BY <2>2, <2>3
<1>5. plays' \in Seq(Play)
  BY <1>3, <1>4, Mapped
<1>6. Types'
  BY <1>1, <1>2, <1>4, <1>5 DEF Types
<1>7. Histories
  BY <1>1, <1>4 DEF Histories, KeptCall, KeptPlay
<1> QED BY <1>1, <1>6, <1>7

-----------------------------------------------------------------------------
(***************************************************************************)
(* Every step.                                                             *)
(***************************************************************************)
\* The call a step makes, if any: a preview, the reset of a new play, or the
\* choreography of a play whose reset was answered.
Made(c) ==
  /\ calls'[c].at = "flying"
  /\ LET k == calls'[c].play IN
     \/ k = 0 /\ calls'[c].req.kind = "toward" /\ plays' = plays
     \/ /\ k # 0 /\ k \notin DOMAIN plays /\ calls'[c].req.kind = "reset"
        /\ calls'[c].server = getUrlHost(isTest'[plays'[k].phone])
        /\ plays'[k].stage = "reset"
     \/ /\ k # 0 /\ k \in DOMAIN plays /\ calls'[c].req.kind = "choreography"
        /\ plays[k].stage = "url" /\ plays'[k].stage = "choreography"
        /\ calls'[c].server = getUrlHost(isTest[plays[k].phone])

NewCalls == DOMAIN calls' \ DOMAIN calls
NewPlays == DOMAIN plays' \ DOMAIN plays

LEMMA StepKeeps ==
  ASSUME Types, Queued, [Next]_vars
  PROVE  /\ Types' /\ Histories
         /\ \A c \in NewCalls : Made(c)
         /\ \A k \in NewPlays :
              plays'[k].stage = "reset" /\ \A c \in DOMAIN calls : calls[c].play # k
<1>0. \A k : k \notin DOMAIN plays /\ k # 0 => \A c \in DOMAIN calls : calls[c].play # k
  BY DEF Types
<1>1. CASE UNCHANGED vars
  <2>1. Types'
    BY <1>1 DEF vars, Types
  <2>2. Histories /\ NewCalls = {} /\ NewPlays = {}
    BY <1>1, SamePlays DEF vars, Histories, KeptCall, NewCalls, NewPlays
  <2> QED BY <2>1, <2>2
<1>2. ASSUME NEW c \in DOMAIN calls, Deliver(c) PROVE Types' /\ Histories /\ NewCalls = {} /\ NewPlays = {}
  BY <1>2, DeliverKeeps DEF Deliver, NewCalls, NewPlays
<1>3. ASSUME NEW s \in Servers, Serve(s) PROVE Types' /\ Histories /\ NewCalls = {} /\ NewPlays = {}
  BY <1>3, ServeKeeps DEF Serve, NewCalls, NewPlays
<1>4. ASSUME NEW c \in DOMAIN calls, onResponse(c) \/ onFailure(c)
      PROVE  Types' /\ Histories /\ NewCalls = {} /\ NewPlays = {}
  <2>1. DOMAIN plays' = DOMAIN plays
    BY <1>4 DEF onResponse, onFailure
  <2> QED BY <1>4, <2>1, CallbackKeeps DEF NewCalls, NewPlays
<1>5. ASSUME NEW k \in DOMAIN plays, choreographyUrl(k)
      PROVE  Types' /\ Histories /\ NewPlays = {} /\ \A c \in NewCalls : Made(c)
  <2>1. DOMAIN plays' = DOMAIN plays
    BY <1>5 DEF choreographyUrl
  <2> QED BY <1>5, <2>1, ChoreographyKeeps DEF NewCalls, NewPlays, Made
<1>6. ASSUME NEW k \in DOMAIN plays, choreographyUrl_raises(k)
      PROVE  Types' /\ Histories /\ NewCalls = {} /\ NewPlays = {}
  <2>1. /\ plays' = [plays EXCEPT ![k].stage = "over"]
        /\ UNCHANGED <<isTest, script, calls, queue, served, pos, edits, restarts>>
    BY <1>6 DEF choreographyUrl_raises
  <2>2. /\ plays' \in Seq(Play) /\ DOMAIN plays' = DOMAIN plays
        /\ \A j \in DOMAIN plays : KeptPlay(j) /\ KeptAim(j)
    BY <2>1, PlayAdvances
  <2>3. Types'
    BY <2>1, <2>2 DEF Types
  <2>4. Histories
    BY <2>1, <2>2 DEF Histories, KeptCall
  <2> QED BY <2>1, <2>2, <2>3, <2>4 DEF NewCalls, NewPlays
<1>7. ASSUME NEW p \in Phones, ToPlay(p)
      PROVE  Types' /\ Histories /\ (\A c \in NewCalls : Made(c))
             /\ \A k \in NewPlays : k # 0 /\ plays'[k].stage = "reset"
  BY <1>7, ToPlayKeeps DEF NewCalls, NewPlays, Made
<1>8. ASSUME NEW p \in Phones, Toggle(p) \/ \E s \in Scripts : Edit(p, s)
      PROVE  Types' /\ Histories /\ NewCalls = {} /\ NewPlays = {}
  <2>1. DOMAIN plays' = DOMAIN plays
    BY <1>8 DEF Toggle, Edit
  <2> QED BY <1>8, <2>1, UserKeeps DEF NewCalls, NewPlays
<1>9. ASSUME NEW p \in Phones, NEW angles \in Postures, gotoStates(p, angles)
      PROVE  Types' /\ Histories /\ NewPlays = {} /\ \A c \in NewCalls : Made(c)
  <2>1. plays' = plays
    BY <1>9 DEF gotoStates
  <2> QED BY <1>9, <2>1, GotoKeeps DEF NewCalls, NewPlays, Made
<1>10. CASE Restart
  <2>1. plays' = plays
    BY <1>10 DEF Restart
  <2> QED BY <1>10, <2>1, RestartKeeps DEF NewCalls, NewPlays
<1>11. CASE Callback
  BY <1>0, <1>4, <1>5, <1>6, <1>11 DEF Callback
<1>12. CASE \E p \in Phones :
              \/ ToPlay(p) \/ Toggle(p)
              \/ \E s \in Scripts : Edit(p, s)
              \/ \E angles \in Postures : gotoStates(p, angles)
  BY <1>0, <1>7, <1>8, <1>9, <1>12 DEF NewPlays
<1>13. CASE (\E c \in DOMAIN calls : Deliver(c)) \/ (\E s \in Servers : Serve(s))
  BY <1>2, <1>3, <1>13
<1> QED BY <1>1, <1>10, <1>11, <1>12, <1>13 DEF Next

-----------------------------------------------------------------------------
(***************************************************************************)
(* The parts of the invariant.                                             *)
(***************************************************************************)
LEMMA QueuedStep ==
  ASSUME Types, Queued, [Next]_vars
  PROVE  Queued'
<1>1. Types' /\ Histories
  BY StepKeeps
<1>2. ASSUME UNCHANGED queue, \A c \in DOMAIN calls : calls'[c].at = calls[c].at
      PROVE  Queued'
  BY <1>1, <1>2 DEF Queued, Histories, KeptCall
<1>3. \A s \in Servers : queue[s] \in Seq(Nat)
  BY DEF Types
<1>4. ASSUME NEW c \in DOMAIN calls, Deliver(c) PROVE Queued'
  <2> DEFINE t == calls[c].server
  <2>1. /\ calls[c].at = "flying" /\ calls' = [calls EXCEPT ![c].at = "queued"]
        /\ queue' = [queue EXCEPT ![t] = Append(@, c)]
    BY <1>4 DEF Deliver
  <2>2. calls'[c].at = "queued" /\ \A d \in DOMAIN calls : d # c => calls'[d] = calls[d]
    BY <2>1, CallMoves
  <2>3. c \in Nat /\ t \in Servers
    <3>1. calls \in Seq(Call)
      BY DEF Types
    <3>2. c \in Nat /\ calls[c] \in Call
      BY <3>1, LenProperties
    <3> QED BY <3>2 DEF Call
  <2>4. ASSUME NEW s \in Servers, s # t PROVE queue'[s] = queue[s]
    BY <2>1, <2>4 DEF Types
  <2>5. queue'[t] = Append(queue[t], c)
    BY <2>1, <2>3 DEF Types
  <2>6. /\ Len(queue[t]) \in Nat /\ Len(queue'[t]) = Len(queue[t]) + 1
        /\ queue'[t][Len(queue[t]) + 1] = c
        /\ \A i \in 1 .. Len(queue[t]) : queue'[t][i] = queue[t][i]
    BY <1>3, <2>3, <2>5, Appended
  <2>7. c \in DOMAIN calls' /\ calls'[c].server = t
        /\ \A d \in DOMAIN calls : d \in DOMAIN calls' /\ calls'[d].server = calls[d].server
    BY <1>1 DEF Histories, KeptCall
  <2> HIDE DEF t
  <2>8. ASSUME NEW s \in Servers, NEW i \in 1 .. Len(queue[s])
        PROVE  queue[s][i] # c /\ queue[s][i] \in DOMAIN calls /\ calls[queue[s][i]].server = s
               /\ calls'[queue[s][i]].at = "queued" /\ calls'[queue[s][i]].server = s
               /\ queue[s][i] \in DOMAIN calls'
    BY <2>1, <2>2, <2>7 DEF Queued
  <2>9. ASSUME NEW s \in Servers, NEW i \in 1 .. Len(queue'[s])
        PROVE  /\ queue'[s][i] \in DOMAIN calls'
               /\ calls'[queue'[s][i]].server = s /\ calls'[queue'[s][i]].at = "queued"
               /\ \A j \in 1 .. Len(queue'[s]) : queue'[s][i] = queue'[s][j] => i = j
    <3>1. CASE s # t
      BY <2>4, <2>8, <3>1 DEF Queued
    <3>2. CASE s = t
      <4>1. i \in 1 .. Len(queue[t]) \/ i = Len(queue[t]) + 1
        BY <2>6, <3>2
      <4>2. \A j \in 1 .. Len(queue'[t]) : j \in 1 .. Len(queue[t]) \/ j = Len(queue[t]) + 1
        BY <2>6
      <4>3. /\ queue'[s][i] \in DOMAIN calls'
            /\ calls'[queue'[s][i]].server = s /\ calls'[queue'[s][i]].at = "queued"
        BY <2>2, <2>6, <2>7, <2>8, <3>2, <4>1
      <4>4. \A j \in 1 .. Len(queue'[s]) : queue'[s][i] = queue'[s][j] => i = j
        <5>1. TAKE j \in 1 .. Len(queue'[s])
        <5>2. CASE i \in 1 .. Len(queue[t]) /\ j \in 1 .. Len(queue[t])
          <6>1. queue'[s][i] = queue[t][i] /\ queue'[s][j] = queue[t][j]
            BY <2>6, <3>2, <5>2
          <6>2. queue[t][i] = queue[t][j] => i = j
            BY <2>3, <5>2 DEF Queued
          <6> QED BY <6>1, <6>2
        <5>3. CASE i \in 1 .. Len(queue[t]) /\ j = Len(queue[t]) + 1
          BY <2>3, <2>6, <2>8, <3>2, <5>3
        <5>4. CASE i = Len(queue[t]) + 1 /\ j \in 1 .. Len(queue[t])
          BY <2>3, <2>6, <2>8, <3>2, <5>4
        <5> QED BY <3>2, <4>1, <4>2, <5>2, <5>3, <5>4
      <4> QED BY <4>3, <4>4
    <3> QED BY <3>1, <3>2
  <2> QED BY <2>9 DEF Queued
<1>5. ASSUME NEW s \in Servers, Serve(s) PROVE Queued'
  <2> DEFINE c == Head(queue[s])
  <2>1. /\ queue[s] # <<>> /\ queue' = [queue EXCEPT ![s] = Tail(@)]
        /\ c \in DOMAIN calls /\ calls' = [calls EXCEPT ![c].at = "served"]
    BY <1>5, ServeKeeps DEF Serve
  <2>2. /\ Tail(queue[s]) \in Seq(Nat) /\ c = queue[s][1] /\ 1 \in 1 .. Len(queue[s])
        /\ \A i \in 1 .. Len(Tail(queue[s])) :
             i + 1 \in 1 .. Len(queue[s]) /\ Tail(queue[s])[i] = queue[s][i + 1]
        /\ \A i \in 1 .. Len(Tail(queue[s])) : i \in Nat
    <3>1. /\ Tail(queue[s]) \in Seq(Nat) /\ c = queue[s][1] /\ 1 \in 1 .. Len(queue[s])
          /\ \A i \in 1 .. Len(Tail(queue[s])) :
               i + 1 \in 1 .. Len(queue[s]) /\ Tail(queue[s])[i] = queue[s][i + 1]
      BY <1>3, <2>1, Tails
    <3>2. Len(Tail(queue[s])) \in Nat
      BY <3>1, LenProperties
    <3> QED BY <3>1, <3>2
  <2>3. queue'[s] = Tail(queue[s]) /\ \A t \in Servers : t # s => queue'[t] = queue[t]
    BY <2>1 DEF Types
  <2> HIDE DEF c
  <2>4. \A d \in DOMAIN calls : d # c => calls'[d] = calls[d]
    BY <2>1, CallMoves
  <2>5. \A d \in DOMAIN calls : d \in DOMAIN calls'
    BY <1>1 DEF Histories
  <2>6. calls[c].server = s
    BY <2>2 DEF Queued
  <2>7. ASSUME NEW t \in Servers, NEW i \in 1 .. Len(queue'[t])
        PROVE  /\ queue'[t][i] \in DOMAIN calls'
               /\ calls'[queue'[t][i]].server = t /\ calls'[queue'[t][i]].at = "queued"
               /\ \A j \in 1 .. Len(queue'[t]) : queue'[t][i] = queue'[t][j] => i = j
    <3>1. CASE t # s
      BY <2>3, <2>4, <2>5, <2>6, <3>1 DEF Queued
    <3>2. CASE t = s
      <4>1. i \in Nat /\ i + 1 \in 1 .. Len(queue[s]) /\ queue'[t][i] = queue[s][i + 1]
        BY <2>2, <2>3, <3>2
      <4>2. i + 1 # 1 /\ queue[s][i + 1] # c
        BY <2>2, <4>1 DEF Queued
      <4>3. \A j \in 1 .. Len(queue'[t]) : queue'[t][i] = queue'[t][j] => i = j
        <5>1. TAKE j \in 1 .. Len(queue'[t])
        <5>2. j \in Nat /\ j + 1 \in 1 .. Len(queue[s]) /\ queue'[t][j] = queue[s][j + 1]
          BY <2>2, <2>3, <3>2
        <5>3. queue[s][i + 1] = queue[s][j + 1] => i + 1 = j + 1
          BY <4>1, <5>2 DEF Queued
        <5> QED BY <4>1, <5>2, <5>3
      <4> QED BY <2>4, <2>5, <3>2, <4>1, <4>2, <4>3 DEF Queued
    <3> QED BY <3>1, <3>2
  <2> QED BY <2>7 DEF Queued
<1>6. CASE Restart
  <2>1. /\ queue' = [queue EXCEPT !["arm"] = <<>>] /\ DOMAIN calls' = DOMAIN calls
        /\ \A c \in DOMAIN calls :
             calls'[c].at = IF c \in ToSet(queue["arm"]) THEN "lost" ELSE calls[c].at
    BY <1>6, RestartKeeps DEF Restart
  <2>2. "arm" \in Servers /\ queue'["arm"] = <<>> /\ Len(queue'["arm"]) = 0
        /\ \A t \in Servers : t # "arm" => queue'[t] = queue[t]
    BY <2>1 DEF Types, Servers
  <2>3. \A c \in ToSet(queue["arm"]) : calls[c].server = "arm"
    <3>1. DOMAIN queue["arm"] = 1 .. Len(queue["arm"])
      BY <1>3, <2>2, LenProperties
    <3> QED BY <2>2, <3>1 DEF Queued, ToSet
  <2>4. ASSUME NEW t \in Servers, NEW i \in 1 .. Len(queue'[t])
        PROVE  /\ queue'[t][i] \in DOMAIN calls'
               /\ calls'[queue'[t][i]].server = t /\ calls'[queue'[t][i]].at = "queued"
               /\ \A j \in 1 .. Len(queue'[t]) : queue'[t][i] = queue'[t][j] => i = j
    <3>1. t # "arm" /\ queue'[t] = queue[t]
      BY <2>2
    <3>2. queue[t][i] \in DOMAIN calls /\ calls[queue[t][i]].server = t
          /\ calls[queue[t][i]].at = "queued"
      BY <3>1 DEF Queued
    <3>3. calls'[queue[t][i]].server = t /\ calls'[queue[t][i]].at = "queued"
      BY <1>1, <2>1, <2>3, <3>1, <3>2 DEF Histories, KeptCall
    <3> QED BY <2>1, <3>1, <3>2, <3>3 DEF Queued
  <2> QED BY <2>4 DEF Queued
<1>7. CASE UNCHANGED vars
  BY <1>2, <1>7 DEF vars
<1>8. CASE Callback
  <2>1. ASSUME NEW c \in DOMAIN calls, onResponse(c) \/ onFailure(c) PROVE Queued'
    BY <1>2, <2>1, CallbackKeeps
  <2>2. ASSUME NEW k \in DOMAIN plays, choreographyUrl(k) PROVE Queued'
    BY <1>2, <2>2, ChoreographyKeeps
  <2>3. ASSUME NEW k \in DOMAIN plays, choreographyUrl_raises(k) PROVE Queued'
    BY <1>2, <2>3 DEF choreographyUrl_raises
  <2> QED BY <1>8, <2>1, <2>2, <2>3 DEF Callback
<1>9. ASSUME NEW p \in Phones, ToPlay(p) PROVE Queued'
  BY <1>2, <1>9, ToPlayKeeps
<1>10. ASSUME NEW p \in Phones, NEW angles \in Postures, gotoStates(p, angles) PROVE Queued'
  BY <1>2, <1>10, GotoKeeps
<1>11. ASSUME NEW p \in Phones, Toggle(p) \/ \E s \in Scripts : Edit(p, s) PROVE Queued'
  BY <1>2, <1>11, UserKeeps
<1> QED BY <1>4, <1>5, <1>6, <1>7, <1>8, <1>9, <1>10, <1>11 DEF Next

\* A server remembers what it served, and a new call is not served yet.
LEMMA ServedCallsStep ==
  ASSUME Types, Queued, ServedCalls, [Next]_vars
  PROVE  ServedCalls'
<1>1. Histories /\ \A c \in NewCalls : Made(c)
  BY StepKeeps
<1>2. ASSUME NEW c \in DOMAIN calls', calls'[c].at = "served"
      PROVE  c \in ToSet(served'[calls'[c].server])
  <2>1. c \in DOMAIN calls
    BY <1>1, <1>2 DEF NewCalls, Made
  <2>2. calls'[c].server = calls[c].server
    BY <1>1, <2>1 DEF Histories, KeptCall
  <2>3. calls[c].server \in Servers
    <3>1. calls[c] \in Call
      BY <2>1, LenProperties DEF Types
    <3> QED BY <3>1 DEF Call
  <2>4. calls[c].at = "served" => c \in ToSet(served'[calls[c].server])
    BY <1>1, <2>1, <2>3 DEF Histories, ServedCalls
  <2> QED BY <1>1, <1>2, <2>1, <2>2, <2>4 DEF Histories
<1> QED BY <1>2 DEF ServedCalls

AimedNext(k, s) == s = getUrlHost(isTest'[plays'[k].phone]) \/ plays'[k].switched

\* A play whose reset is not answered yet is one it was not answered for before,
\* or a new one.
LEMMA ResetsStep ==
  ASSUME Types, Queued, Resets, [Next]_vars
  PROVE  Resets'
<1>1. /\ Types' /\ Histories /\ \A c \in NewCalls : Made(c)
      /\ \A k \in NewPlays :
           plays'[k].stage = "reset" /\ \A c \in DOMAIN calls : calls[c].play # k
  BY StepKeeps
<1>2. ASSUME NEW c \in DOMAIN calls'
      PROVE  LET k == calls'[c].play IN
             /\ k = 0 => calls'[c].req.kind = "toward"
             /\ k # 0 /\ plays'[k].stage \in {"reset", "url"} => calls'[c].req.kind = "reset"
             /\ k # 0 /\ plays'[k].stage = "reset" => AimedNext(k, calls'[c].server)
  <2> DEFINE k == calls'[c].play
  <2>1. CASE c \in DOMAIN calls
    <3>1. k = calls[c].play /\ calls'[c].req = calls[c].req /\ calls'[c].server = calls[c].server
      BY <1>1, <2>1 DEF Histories, KeptCall
    <3>2. k # 0 => k \in DOMAIN plays
      BY <2>1, <3>1 DEF Types
    <3> HIDE DEF k
    <3>3. k # 0 => KeptPlay(k) /\ KeptAim(k)
      BY <1>1, <3>2 DEF Histories
    <3>4. k # 0 /\ plays'[k].stage \in {"reset", "url"} => plays[k].stage \in {"reset", "url"}
      BY <3>3 DEF KeptPlay
    <3>5. k # 0 /\ plays'[k].stage = "reset" => AimedNext(k, calls'[c].server)
      <4>1. SUFFICES ASSUME k # 0, plays'[k].stage = "reset"
                     PROVE  AimedNext(k, calls'[c].server)
        OBVIOUS
      <4>2. plays[k].stage = "reset" /\ plays'[k].phone = plays[k].phone
            /\ (plays[k].switched => plays'[k].switched)
        BY <3>3, <4>1 DEF KeptPlay
      <4>3. Aimed(k, calls[c].server)
        BY <2>1, <3>1, <4>1, <4>2 DEF Resets
      <4>4. plays'[k].switched \/ isTest'[plays[k].phone] = isTest[plays[k].phone]
        BY <3>3, <4>1, <4>2 DEF KeptAim
      <4> QED BY <3>1, <4>2, <4>3, <4>4 DEF Aimed, AimedNext, getUrlHost
    <3> QED BY <2>1, <3>1, <3>4, <3>5 DEF Resets, k
  <2>2. CASE c \notin DOMAIN calls
    <3>1. Made(c)
      BY <1>1, <2>2 DEF NewCalls
    <3>2. CASE k = 0
      BY <3>1, <3>2 DEF Made
    <3>3. CASE k # 0 /\ k \notin DOMAIN plays
      <4>1. calls'[c].req.kind = "reset"
            /\ calls'[c].server = getUrlHost(isTest'[plays'[k].phone])
        BY <3>1, <3>3 DEF Made
      <4> QED BY <3>3, <4>1 DEF AimedNext
    <3>4. CASE k # 0 /\ k \in DOMAIN plays
      BY <3>1, <3>4 DEF Made
    <3> QED BY <3>2, <3>3, <3>4
  <2> QED BY <2>1, <2>2
<1> QED BY <1>2 DEF Resets, Aimed, AimedNext

\* The reset of a play whose choreography may be sent now was served: by
\* ServedCalls when its answer is taken, and ever after.
LEMMA WasResetStep ==
  ASSUME Types, Queued, ServedCalls, Resets, WasReset, [Next]_vars
  PROVE  WasReset'
<1>1. /\ Types' /\ Histories
      /\ \A k \in NewPlays : plays'[k].stage = "reset"
  BY StepKeeps
<1>2. ASSUME NEW k \in DOMAIN plays', plays'[k].stage = "url"
      PROVE  \E r \in DOMAIN calls' :
               /\ calls'[r].play = k /\ calls'[r].req.kind = "reset"
               /\ r \in ToSet(served'[calls'[r].server])
               /\ AimedNext(k, calls'[r].server)
  <2>1. k \in DOMAIN plays
    BY <1>1, <1>2 DEF NewPlays
  <2>2. KeptPlay(k) /\ KeptAim(k)
    BY <1>1, <2>1 DEF Histories
  <2>3. k # 0
    <3>1. DOMAIN plays = 1 .. Len(plays)
      BY LenProperties DEF Types
    <3> QED BY <2>1, <3>1
  <2>4. PICK r \in DOMAIN calls :
          /\ calls[r].play = k /\ calls[r].req.kind = "reset"
          /\ r \in ToSet(served[calls[r].server])
          /\ Aimed(k, calls[r].server)
    <3>1. CASE plays[k].stage = "url"
      BY <2>1, <3>1 DEF WasReset
    <3>2. CASE plays[k].stage # "url"
      <4>1. PICK c \in DOMAIN calls : calls[c].play = k /\ calls[c].at = "served"
        BY <1>2, <2>2, <3>2 DEF KeptPlay
      <4>2. plays[k].stage = "reset"
        BY <1>2, <2>2, <3>2 DEF KeptPlay
      <4> QED BY <2>3, <4>1, <4>2 DEF Resets, ServedCalls
    <3> QED BY <3>1, <3>2
  <2>5. /\ r \in DOMAIN calls' /\ calls'[r].play = k /\ calls'[r].req = calls[r].req
        /\ calls'[r].server = calls[r].server
    BY <1>1, <2>4 DEF Histories, KeptCall
  <2>6. calls[r].server \in Servers
    <3>1. calls[r] \in Call
      BY LenProperties DEF Types
    <3> QED BY <3>1 DEF Call
  <2>7. r \in ToSet(served'[calls'[r].server])
    BY <1>1, <2>4, <2>5, <2>6 DEF Histories
  <2>8. AimedNext(k, calls'[r].server)
    <3>1. plays[k].stage \in {"reset", "url"} /\ plays'[k].phone = plays[k].phone
          /\ (plays[k].switched => plays'[k].switched)
      BY <1>2, <2>2 DEF KeptPlay
    <3>2. plays'[k].switched \/ isTest'[plays[k].phone] = isTest[plays[k].phone]
      BY <2>2, <3>1 DEF KeptAim
    <3> QED BY <2>4, <2>5, <3>1, <3>2 DEF Aimed, AimedNext, getUrlHost
  <2> QED BY <2>4, <2>5, <2>7, <2>8
<1> QED BY <1>2 DEF WasReset, Aimed, AimedNext

LEMMA ResetFirstStep ==
  ASSUME Types, Queued, Resets, WasReset, ResetFirst, [Next]_vars
  PROVE  ResetFirst'
<1>1. /\ Types' /\ Histories /\ \A c \in NewCalls : Made(c)
  BY StepKeeps
<1>2. ASSUME NEW c \in DOMAIN calls', calls'[c].req.kind = "choreography"
      PROVE  \E r \in DOMAIN calls' :
               /\ calls'[r].play = calls'[c].play /\ calls'[r].req.kind = "reset"
               /\ r \in ToSet(served'[calls'[r].server])
               /\ calls'[r].server = calls'[c].server \/ plays'[calls'[c].play].switched
  <2> DEFINE k == calls'[c].play
  <2>1. PICK r \in DOMAIN calls :
          /\ calls[r].play = k /\ calls[r].req.kind = "reset"
          /\ r \in ToSet(served[calls[r].server])
          /\ calls[r].server = calls'[c].server \/ plays[k].switched
    <3>1. CASE c \in DOMAIN calls
      <4>1. calls'[c].play = calls[c].play /\ calls'[c].req = calls[c].req
            /\ calls'[c].server = calls[c].server
        BY <1>1, <3>1 DEF Histories, KeptCall
      <4> QED BY <1>2, <3>1, <4>1 DEF ResetFirst
    <3>2. CASE c \notin DOMAIN calls
      <4>1. Made(c)
        BY <1>1, <3>2 DEF NewCalls
      <4>2. /\ k \in DOMAIN plays /\ plays[k].stage = "url"
            /\ calls'[c].server = getUrlHost(isTest[plays[k].phone])
        BY <1>2, <4>1 DEF Made
      <4> QED BY <4>2 DEF WasReset, Aimed
    <3> QED BY <3>1, <3>2
  <2>2. /\ r \in DOMAIN calls' /\ calls'[r].play = k /\ calls'[r].req = calls[r].req
        /\ calls'[r].server = calls[r].server
    BY <1>1, <2>1 DEF Histories, KeptCall
  <2>3. calls[r].server \in Servers
    <3>1. calls[r] \in Call
      BY LenProperties DEF Types
    <3> QED BY <3>1 DEF Call
  <2>4. r \in ToSet(served'[calls'[r].server])
    BY <1>1, <2>1, <2>2, <2>3 DEF Histories
  <2>5. plays[k].switched => plays'[k].switched
    <3>1. k # 0
      BY <2>1 DEF Resets
    <3>2. k \in DOMAIN plays
      BY <2>1, <3>1 DEF Types
    <3> QED BY <1>1, <3>2 DEF Histories, KeptPlay
  <2> QED BY <2>1, <2>2, <2>4, <2>5
<1> QED BY <1>2 DEF ResetFirst

LEMMA InitIInv ==
  ASSUME Init
  PROVE  IInv
<1>1. calls = <<>> /\ plays = <<>> /\ DOMAIN calls = {} /\ DOMAIN plays = {}
  BY DEF Init
<1>2. Types
  BY <1>1, EmptySeq DEF Init, Types
<1>3. \A s \in Servers : queue[s] = <<>> /\ Len(queue[s]) = 0
  BY EmptySeq DEF Init
<1>4. Queued
  BY <1>3 DEF Queued
<1> QED BY <1>1, <1>2, <1>4 DEF IInv, ServedCalls, Resets, WasReset, ResetFirst

\* The inductive invariant: queues hold calls that wait there, what was served is
\* recorded, and a play makes its calls one after the other.
THEOREM Invariant == Spec => []IInv
<1>1. ASSUME IInv, [Next]_vars PROVE IInv'
  BY <1>1, StepKeeps, QueuedStep, ServedCallsStep, ResetsStep, WasResetStep, ResetFirstStep DEF IInv
<1> QED BY <1>1, InitIInv, PTL DEF Spec

\* A choreography is sent only when the reset of its play was done, by the same
\* server unless the toggle was switched (playChoreo in the callback of the
\* reset's answer), whatever the other phones do and whatever calls are lost.
THEOREM ResetBeforeMoves == Spec => []ResetFirst
<1>1. IInv => ResetFirst
  BY DEF IInv
<1> QED BY <1>1, Invariant, PTL

-----------------------------------------------------------------------------
(***************************************************************************)
(* Previews.                                                               *)
(***************************************************************************)
Target(r) == [m \in Motor |-> r.angles[m + 1]]

\* A preview asks for legal angles, so nothing is clipped.
LEMMA PreviewEffect ==
  ASSUME NEW p, NEW r \in Request, r.kind = "toward"
  PROVE  Arm!Effect(p, r) = Target(r)
<1>1. PICK q \in Postures : r = [kind |-> "toward", angles |-> Angles(q)]
  BY DEF Request
<1>2. q \in [Motor -> Int] /\ \A m \in Motor : Low[m] <= q[m] /\ q[m] <= High[m]
  BY PlaybackAssumption DEF Position
<1>3. NumMotors \in Nat \ {0}
  BY MotorsAssumption
<1>4. Angles(q) \in [1 .. NumMotors -> Int]
  BY <1>2, <1>3 DEF Angles, Motor
<1>5. Len(Angles(q)) = NumMotors
  <2>1. Angles(q) \in Seq(Int)
    BY <1>3, <1>4, SeqDef
  <2>2. Len(Angles(q)) \in Nat /\ DOMAIN Angles(q) = 1 .. Len(Angles(q))
    BY <2>1, LenProperties
  <2> HIDE DEF Angles
  <2>3. DOMAIN Angles(q) = 1 .. NumMotors
    BY <1>4
  <2> QED BY <1>3, <2>2, <2>3, SameBound
<1>6. ASSUME NEW m \in Motor
      PROVE  /\ m < Len(r.angles) /\ r.angles[m + 1] = q[m]
             /\ Arm!clip(m, Arm!toInt(q[m])) = q[m]
  <2>1. m \in Int /\ 0 <= m /\ m < NumMotors
    BY <1>3 DEF Motor
  <2>2. m < Len(r.angles) /\ r.angles[m + 1] = q[m]
    BY <1>1, <1>3, <1>5, <2>1 DEF Angles
  <2>3. /\ q[m] \in Int /\ Low[m] \in Int /\ High[m] \in Int /\ IntHalf \in Nat
        /\ Low[m] <= q[m] /\ q[m] <= High[m] /\ -IntHalf <= Low[m] /\ High[m] < IntHalf
    BY <1>2, LimitsAssumption, WidthAssumption
  <2>4. int16(q[m]) = q[m]
    BY <2>3, Int16Identity
  <2>5. Arm!toInt(q[m]) = q[m]
    BY <2>3, <2>4, TextAssumption DEF Arm!toInt, Arm!int16, int16
  <2> QED BY <2>2, <2>3, <2>5 DEF Arm!clip
<1>7. Arm!Motor = Motor
  BY DEF Arm!Motor, Motor
<1>8. Arm!Effect(p, r) = [m \in Motor |->
        Arm!clip(m, IF m < Len(r.angles) THEN Arm!toInt(r.angles[m + 1]) ELSE 0)]
  <2>1. r.kind = "toward"
    OBVIOUS
  <2> QED BY <1>7, <2>1 DEF Arm!Effect
<1> QED BY <1>6, <1>8 DEF Target

Newest(s, c) ==
  /\ calls[c].server = s /\ calls[c].req.kind = "toward" /\ calls[c].alone
  /\ \A d \in DOMAIN calls : calls[d].server = s => d <= c

\* Nothing but a newest call that was made alone is on its way, and a preview
\* served has brought the robot where it asked.
PreviewLasts ==
  \A s \in Servers : \A c \in DOMAIN calls :
    Newest(s, c) =>
      /\ InFlight(s) \subseteq {c}
      /\ calls[c].at = "served" /\ restarts = 0 => pos[s] = Target(calls[c].req)

\* A call that is made now makes the older ones to its server no longer newest.
LEMMA PreviewsMade ==
  ASSUME Types, Types', PreviewLasts, UNCHANGED <<pos, restarts>>,
         DOMAIN calls = 1 .. Len(calls),
         DOMAIN calls' = DOMAIN calls \cup {Len(calls) + 1},
         \A d \in DOMAIN calls : calls'[d] = calls[d],
         calls'[Len(calls) + 1].at = "flying",
         calls'[Len(calls) + 1].req.kind = "toward" =>
           calls'[Len(calls) + 1].alone = (InFlight(calls'[Len(calls) + 1].server) = {})
  PROVE  PreviewLasts'
<1> DEFINE n == Len(calls) + 1
<1>1. Len(calls) \in Nat
  BY LenProperties DEF Types
<1>2. n \notin DOMAIN calls /\ \A d \in DOMAIN calls : ~(n <= d)
  BY <1>1
<1> HIDE DEF n
<1>3. \A s : \A d \in InFlight(s)' : d = n \/ d \in InFlight(s)
  BY DEF InFlight, n
<1>4. ASSUME NEW s \in Servers, NEW c \in DOMAIN calls', Newest(s, c)'
      PROVE  /\ InFlight(s)' \subseteq {c}
             /\ calls'[c].at = "served" /\ restarts' = 0 => pos'[s] = Target(calls'[c].req)
  <2>1. CASE c \in DOMAIN calls
    <3>1. calls'[n].server # s /\ n \in DOMAIN calls'
      BY <1>2, <1>4, <2>1 DEF Newest, n
    <3>2. n \notin InFlight(s)'
      BY <3>1 DEF InFlight
    <3>3. Newest(s, c)
      BY <1>4, <2>1 DEF Newest
    <3> QED BY <1>3, <2>1, <3>2, <3>3 DEF PreviewLasts
  <2>2. CASE c = n
    <3>1. calls'[n].server = s /\ calls'[n].req.kind = "toward" /\ calls'[n].alone
      BY <1>4, <2>2 DEF Newest
    <3>2. InFlight(s) = {}
      BY <3>1 DEF n
    <3> QED BY <1>3, <2>2, <3>2 DEF n
  <2> QED BY <2>1, <2>2 DEF n
<1> QED BY <1>4 DEF PreviewLasts

\* Calls that only change their place: none is made, none is sent again.
LEMMA PreviewsMoved ==
  ASSUME Types, Histories, DOMAIN calls' = DOMAIN calls, PreviewLasts,
         \A d \in DOMAIN calls :
           calls'[d].at \in {"flying", "queued"} => calls[d].at \in {"flying", "queued"},
         \A s \in Servers : \A c \in DOMAIN calls :
           Newest(s, c) /\ calls'[c].at = "served" /\ restarts' = 0
             => pos'[s] = Target(calls[c].req)
  PROVE  PreviewLasts'
<1>1. ASSUME NEW s \in Servers, NEW c \in DOMAIN calls', Newest(s, c)'
      PROVE  /\ InFlight(s)' \subseteq {c}
             /\ calls'[c].at = "served" /\ restarts' = 0 => pos'[s] = Target(calls'[c].req)
  <2>1. \A d \in DOMAIN calls : calls'[d].server = calls[d].server /\ calls'[d].req = calls[d].req
                                /\ calls'[d].alone = calls[d].alone
    BY DEF Histories, KeptCall
  <2>2. Newest(s, c)
    BY <1>1, <2>1 DEF Newest
  <2>3. InFlight(s) \subseteq {c}
    BY <2>2 DEF PreviewLasts
  <2>4. InFlight(s)' \subseteq InFlight(s)
    BY <2>1 DEF InFlight
  <2> QED BY <2>1, <2>2, <2>3, <2>4
<1> QED BY <1>1 DEF PreviewLasts

LEMMA PreviewsSame ==
  ASSUME Types, Histories, DOMAIN calls' = DOMAIN calls, PreviewLasts,
         UNCHANGED <<pos, restarts>>,
         \A d \in DOMAIN calls : calls'[d].at = calls[d].at
  PROVE  PreviewLasts'
  BY PreviewsMoved DEF PreviewLasts

LEMMA PreviewLastsStep ==
  ASSUME Types, Queued, PreviewLasts, [Next]_vars
  PROVE  PreviewLasts'
<1>1. Types' /\ Histories
  BY StepKeeps
<1>2. calls \in Seq(Call) /\ \A c \in DOMAIN calls : calls[c] \in Call
  BY LenProperties DEF Types
<1>3. ASSUME NEW c \in DOMAIN calls, Deliver(c) PROVE PreviewLasts'
  <2>1. /\ calls[c].at = "flying" /\ calls' = [calls EXCEPT ![c].at = "queued"]
        /\ UNCHANGED <<pos, restarts>>
    BY <1>3 DEF Deliver
  <2>2. /\ DOMAIN calls' = DOMAIN calls /\ calls'[c].at = "queued"
        /\ \A d \in DOMAIN calls : d # c => calls'[d] = calls[d]
    BY <2>1, CallMoves
  <2>3. \A d \in DOMAIN calls :
          calls'[d].at \in {"flying", "queued"} => calls[d].at \in {"flying", "queued"}
    BY <2>1, <2>2
  <2>4. \A s \in Servers : \A d \in DOMAIN calls :
          Newest(s, d) /\ calls'[d].at = "served" /\ restarts' = 0 => pos'[s] = Target(calls[d].req)
    BY <2>1, <2>2 DEF PreviewLasts
  <2> QED BY <1>1, <2>2, <2>3, <2>4, PreviewsMoved
<1>4. ASSUME NEW t \in Servers, Serve(t) PROVE PreviewLasts'
  <2> DEFINE h == Head(queue[t])
  <2>1. /\ queue[t] # <<>> /\ pos' = [pos EXCEPT ![t] = Arm!Effect(@, calls[h].req)]
        /\ restarts' = restarts
        /\ h \in DOMAIN calls /\ calls' = [calls EXCEPT ![h].at = "served"]
    BY <1>4, ServeKeeps DEF Serve
  <2>2. h = queue[t][1] /\ 1 \in 1 .. Len(queue[t])
    BY <2>1, Tails DEF Types
  <2>3. calls[h].server = t /\ calls[h].at = "queued"
    BY <2>2 DEF Queued
  <2> HIDE DEF h
  <2>4. /\ DOMAIN calls' = DOMAIN calls /\ calls'[h].at = "served"
        /\ \A d \in DOMAIN calls : d # h => calls'[d] = calls[d]
    BY <2>1, CallMoves
  <2>5. ASSUME NEW s \in Servers, NEW c \in DOMAIN calls,
               Newest(s, c), calls'[c].at = "served", restarts' = 0
        PROVE  pos'[s] = Target(calls[c].req)
    <3>1. CASE s = t
      <4>1. h \in InFlight(s)
        BY <2>1, <2>3, <3>1 DEF InFlight
      <4>2. h = c
        BY <2>5, <4>1 DEF PreviewLasts
      <4>3. calls[c].req \in Request /\ calls[c].req.kind = "toward"
        BY <1>2, <2>5 DEF Newest, Call
      <4>4. pos'[s] = Arm!Effect(pos[s], calls[c].req)
        <5>1. s \in DOMAIN pos
          BY DEF Types
        <5> QED BY <2>1, <3>1, <4>2, <5>1
      <4> QED BY <4>3, <4>4, PreviewEffect
    <3>2. CASE s # t
      <4>1. c # h
        BY <2>3, <2>5, <3>2 DEF Newest
      <4>2. pos'[s] = pos[s]
        BY <2>1, <3>2 DEF Types
      <4> QED BY <2>1, <2>4, <2>5, <4>1, <4>2 DEF PreviewLasts
    <3> QED BY <3>1, <3>2
  <2>6. \A d \in DOMAIN calls :
          calls'[d].at \in {"flying", "queued"} => calls[d].at \in {"flying", "queued"}
    BY <2>4
  <2> QED BY <1>1, <2>4, <2>5, <2>6, PreviewsMoved
<1>5. CASE Restart
  <2>1. /\ DOMAIN calls' = DOMAIN calls /\ restarts' = restarts + 1 /\ restarts \in Nat
        /\ \A c \in DOMAIN calls :
             calls'[c].at = IF c \in ToSet(queue["arm"]) THEN "lost" ELSE calls[c].at
    BY <1>5, RestartKeeps DEF Restart, Types
  <2>2. restarts' # 0
    BY <2>1
  <2>3. \A d \in DOMAIN calls :
          calls'[d].at \in {"flying", "queued"} => calls[d].at \in {"flying", "queued"}
    BY <2>1
  <2> QED BY <1>1, <2>1, <2>2, <2>3, PreviewsMoved
<1>6. CASE UNCHANGED vars
  <2>1. UNCHANGED <<calls, pos, restarts>>
    BY <1>6 DEF vars
  <2> QED BY <1>1, <2>1, PreviewsSame
<1>7. ASSUME NEW c \in DOMAIN calls, onResponse(c) \/ onFailure(c) PROVE PreviewLasts'
  BY <1>1, <1>7, CallbackKeeps, PreviewsSame
<1>8. ASSUME NEW k \in DOMAIN plays, choreographyUrl(k) PROVE PreviewLasts'
  <2>1. DOMAIN calls = 1 .. Len(calls)
    BY <1>2, LenProperties
  <2> QED BY <1>1, <1>8, <2>1, ChoreographyKeeps, PreviewsMade
<1>9. ASSUME NEW k \in DOMAIN plays, choreographyUrl_raises(k) PROVE PreviewLasts'
  <2>1. UNCHANGED <<calls, pos, restarts>>
    BY <1>9 DEF choreographyUrl_raises
  <2> QED BY <1>1, <2>1, PreviewsSame
<1>10. ASSUME NEW p \in Phones, ToPlay(p) PROVE PreviewLasts'
  <2>1. DOMAIN calls = 1 .. Len(calls)
    BY <1>2, LenProperties
  <2>2. calls'[Len(calls) + 1].req.kind # "toward"
    BY <1>10, ToPlayKeeps
  <2> QED BY <1>1, <1>10, <2>1, <2>2, ToPlayKeeps, PreviewsMade
<1>11. ASSUME NEW p \in Phones, NEW angles \in Postures, gotoStates(p, angles) PROVE PreviewLasts'
  BY <1>1, <1>11, GotoKeeps, PreviewsMade
<1>12. ASSUME NEW p \in Phones, Toggle(p) \/ \E s \in Scripts : Edit(p, s) PROVE PreviewLasts'
  BY <1>1, <1>12, UserKeeps, PreviewsSame
<1>13. CASE Callback
  BY <1>7, <1>8, <1>9, <1>13 DEF Callback
<1>14. CASE \E p \in Phones :
              \/ ToPlay(p) \/ Toggle(p)
              \/ \E s \in Scripts : Edit(p, s)
              \/ \E angles \in Postures : gotoStates(p, angles)
  BY <1>10, <1>11, <1>12, <1>14
<1>15. CASE (\E c \in DOMAIN calls : Deliver(c)) \/ (\E s \in Servers : Serve(s))
  BY <1>3, <1>4, <1>15
<1> QED BY <1>5, <1>6, <1>13, <1>14, <1>15 DEF Next

\* A preview that was sent to an idle robot is where the robot stands from its
\* answer until somebody asks for more (gotoStates), whatever other calls were
\* lost or late, as long as the arm was not restarted.
THEOREM PreviewIsWhereItStands == Spec => []PreviewStands
<1>1. Init => PreviewLasts
  BY DEF Init, PreviewLasts
<1>2. IInv /\ PreviewLasts /\ [Next]_vars => PreviewLasts'
  BY PreviewLastsStep DEF IInv
<1>3. PreviewLasts => PreviewStands
  BY DEF PreviewLasts, PreviewStands, Newest, Target
<1> QED BY <1>1, <1>2, <1>3, Invariant, PTL DEF Spec

-----------------------------------------------------------------------------
(***************************************************************************)
(* Scripts.                                                                *)
(***************************************************************************)
\* The arm's arithmetic is that of RAD.
LEMMA SameArithmetic ==
  /\ \A p, moves : Arm!Acted(p, moves) = Acted(p, moves)
  /\ \A text : Arm!toInt(text) = toInt(text)
<1>1. \A text : Arm!toInt(text) = toInt(text)
  BY DEF Arm!toInt, toInt, Arm!int16, int16
<1>2. \A p, moves : Arm!Acted(p, moves) = Acted(p, moves)
  BY DEF Arm!Acted, Acted, Arm!do_action, do_action, Arm!clip, clip,
         Arm!int16, int16, Arm!Motor, Motor
<1> QED BY <1>1, <1>2

\* A script a text can announce: its length is an int of the board.
Announced(s) == s \in Scripts /\ Len(s) < IntHalf

\* What the conversions of the server do to the numbers of a script does not
\* change where it leads.
LEMMA ScriptEffect ==
  ASSUME NEW p, NEW s, Announced(s), NEW r \in Request,
         r.kind = "choreography", r.actions = s, r.count = Len(s), p \in Position
  PROVE  Arm!Effect(p, r) = Acted(p, s)
<1>1. s \in Seq(Motor \X Int) /\ Len(s) \in Nat /\ Len(s) < IntHalf
  BY PlaybackAssumption, LenProperties DEF Announced
<1>2. /\ NumMotors \in Nat \ {0} /\ IntHalf \in Nat \ {0} /\ NumMotors <= IntHalf
      /\ Junk \notin Int
  BY MotorsAssumption, WidthAssumption, TextAssumption
<1>3. toInt(Len(s)) = Len(s)
  BY <1>1, <1>2, ToIntNumber, Int16Identity
<1> DEFINE asked == Arm!Moves(r)
           Meant(i) == <<toInt(s[i][1]), toInt(s[i][2])>>
<1>4. ASSUME NEW i \in 1 .. Len(s)
      PROVE  /\ s[i] \in Motor \X Int /\ Len(s[i]) = 2 /\ s[i][1] \in Motor /\ s[i][2] \in Int
             /\ toInt(s[i][1]) = s[i][1] /\ toInt(s[i][2]) = int16(s[i][2])
             /\ int16(s[i][2]) \in Int
  <2>1. s[i] \in Motor \X Int
    BY <1>1
  <2>2. Len(s[i]) = 2 /\ s[i][1] \in Motor /\ s[i][2] \in Int
    BY <2>1
  <2>3. s[i][1] \in -IntHalf .. IntHalf - 1 /\ s[i][1] \in Int
    BY <1>2, <2>2 DEF Motor
  <2>4. toInt(s[i][1]) = s[i][1]
    BY <2>3, ToIntNumber, Int16Identity
  <2>5. toInt(s[i][2]) = int16(s[i][2]) /\ int16(s[i][2]) \in Int
    BY <2>2, ToIntNumber
  <2> QED BY <2>1, <2>2, <2>4, <2>5
<1>5. asked = [i \in 1 .. Len(s) |-> Meant(i)]
  <2>1. asked = [i \in 1 .. Len(s) |->
                   IF i > Len(s) THEN <<0, 0>>
                   ELSE IF Len(s[i]) = 1 THEN <<0, toInt(s[i][1])>>
                   ELSE <<toInt(s[i][1]), toInt(s[i][2])>>]
    BY <1>3, SameArithmetic DEF Arm!Moves
  <2>2. ASSUME NEW i \in 1 .. Len(s)
        PROVE  (IF i > Len(s) THEN <<0, 0>>
                ELSE IF Len(s[i]) = 1 THEN <<0, toInt(s[i][1])>>
                ELSE <<toInt(s[i][1]), toInt(s[i][2])>>) = Meant(i)
    <3>1. ~(i > Len(s))
      BY <1>1
    <3>2. Len(s[i]) # 1
      BY <1>4
    <3> QED BY <3>1, <3>2
  <2> HIDE DEF Meant
  <2> QED BY <2>1, <2>2, Zenon
<1> HIDE DEF asked
<1>6. asked \in Seq(Int \X Int) /\ Len(asked) = Len(s)
  <2>1. \A i \in 1 .. Len(s) : Meant(i) \in Int \X Int
    BY <1>2, <1>4 DEF Motor
  <2> HIDE DEF Meant
  <2>2. asked \in [1 .. Len(s) -> Int \X Int]
    BY <1>5, <2>1
  <2> QED BY <1>1, <2>2
<1>7. s \in Seq(Int \X Int)
  <2>1. \A i \in 1 .. Len(s) : s[i] \in Int \X Int
    BY <1>2, <1>4 DEF Motor
  <2> QED BY <1>1, <2>1
<1>8. ASSUME NEW i \in 1 .. Len(s), NEW q \in Position
      PROVE  do_action(q, s[i][1], s[i][2]) = do_action(q, asked[i][1], asked[i][2])
  <2>1. asked[i][1] = s[i][1] /\ asked[i][2] = int16(s[i][2])
    BY <1>4, <1>5
  <2> DEFINE m == s[i][1]
             v == s[i][2]
  <2>2. m \in Motor /\ v \in Int /\ q[m] \in Int
    BY <1>4 DEF Position
  <2>3. int16(q[m] + int16(v)) = int16(q[m] + v)
    BY <2>2, Int16Sum
  <2> QED BY <2>1, <2>3 DEF do_action
<1>9. Acted(p, s) = Acted(p, asked)
  BY <1>6, <1>7, <1>8, ActedSame
<1>10. Arm!Effect(p, r) = Arm!Acted(p, asked)
  BY DEF Arm!Effect, asked
<1> QED BY <1>9, <1>10, SameArithmetic

\* Until its choreography is sent, a play whose list was not edited is about the
\* list on the screen, and has counted it.
Current(k) ==
  plays[k].stage \in {"reset", "url"} /\ ~plays[k].edited =>
    /\ script[plays[k].phone] = plays[k].shown
    /\ plays[k].stage = "url" => plays[k].count = Len(plays[k].shown)

Lists == \A k \in DOMAIN plays : Current(k)

\* What a play was about stays, and so does that its list was edited.
KeptList(k) ==
  /\ plays'[k].shown = plays[k].shown
  /\ plays[k].edited => plays'[k].edited

ListsKept == Lists' /\ \A k \in DOMAIN plays : KeptList(k)

\* One play goes on.
LEMMA ListAdvances ==
  ASSUME Types, Lists, UNCHANGED script, NEW k \in DOMAIN plays, NEW e \in Play,
         plays' = [plays EXCEPT ![k] = e],
         e.shown = plays[k].shown, e.edited = plays[k].edited, e.phone = plays[k].phone,
         \/ e.stage \in {"choreography", "over"}
         \/ /\ plays[k].stage = "reset" /\ e.stage = "url"
            /\ e.count = Len(script[plays[k].phone])
  PROVE  ListsKept
<1>1. /\ DOMAIN plays' = DOMAIN plays /\ plays'[k] = e
      /\ \A j \in DOMAIN plays : j # k => plays'[j] = plays[j]
  BY PlayMoves
<1>2. ASSUME NEW j \in DOMAIN plays, j # k PROVE KeptList(j) /\ Current(j)'
  <2>1. plays'[j] = plays[j] /\ script' = script
    BY <1>1, <1>2
  <2>2. Current(j)
    BY DEF Lists
  <2> QED BY <2>1, <2>2 DEF KeptList, Current
<1>3. KeptList(k) /\ Current(k)'
  <2>1. plays'[k] = e /\ script' = script
    BY <1>1
  <2>2. Current(k)
    BY DEF Lists
  <2>3. KeptList(k)
    BY <2>1 DEF KeptList
  <2>4. CASE e.stage \in {"choreography", "over"}
    BY <2>1, <2>3, <2>4 DEF Current
  <2>5. CASE /\ plays[k].stage = "reset" /\ e.stage = "url"
             /\ e.count = Len(script[plays[k].phone])
    BY <2>1, <2>2, <2>3, <2>5 DEF Current
  <2> QED BY <2>3, <2>4, <2>5
<1> QED BY <1>1, <1>2, <1>3 DEF ListsKept, Lists

LEMMA ListsSame ==
  ASSUME Lists, UNCHANGED <<plays, script>>
  PROVE  ListsKept
<1>1. \A k \in DOMAIN plays : KeptList(k)
  BY DEF KeptList
<1>2. Lists'
  BY DEF Lists, Current
<1> QED BY <1>1, <1>2 DEF ListsKept

LEMMA ListsStep ==
  ASSUME Types, Lists, [Next]_vars
  PROVE  ListsKept
<1>1. \A k \in DOMAIN plays : plays[k] \in Play /\ Len(script[plays[k].phone]) \in Nat
  BY PlayFields
<1>2. plays \in Seq(Play) /\ DOMAIN plays = 1 .. Len(plays)
  BY LenProperties DEF Types
<1>3. ASSUME NEW k \in DOMAIN plays, NEW stage \in {"choreography", "over"},
             plays' = [plays EXCEPT ![k].stage = stage], UNCHANGED script
      PROVE  ListsKept
  <2> DEFINE e == [plays[k] EXCEPT !.stage = stage]
  <2>1. plays' = [plays EXCEPT ![k] = e]
    BY <1>3
  <2>2. /\ e \in Play /\ e.stage = stage /\ e.shown = plays[k].shown
        /\ e.edited = plays[k].edited /\ e.phone = plays[k].phone
    BY <1>1 DEF Play
  <2> HIDE DEF e
  <2> QED BY <1>3, <2>1, <2>2, ListAdvances
<1>4. ASSUME NEW c \in DOMAIN calls, onResponse(c) PROVE ListsKept
  <2> DEFINE k == calls[c].play
  <2>1. script' = script /\ (k = 0 \/ k \in DOMAIN plays)
    BY <1>4 DEF onResponse, Types
  <2>2. CASE plays' = plays
    BY <2>1, <2>2, ListsSame
  <2>3. CASE k # 0 /\ plays' = [plays EXCEPT ![k].stage = "over"]
    BY <1>3, <2>1, <2>3
  <2>4. CASE k # 0 /\ plays[k].stage = "reset"
    <3> DEFINE length == Len(script[plays[k].phone])
               e == [plays[k] EXCEPT !.stage = "url", !.count = length]
    <3>1. plays' = [plays EXCEPT ![k].stage = "url", ![k].count = length]
      BY <1>4, <2>4 DEF onResponse
    <3>2. plays[k] \in Play /\ length \in Nat /\ k \in DOMAIN plays
      BY <1>1, <2>1, <2>4
    <3>3. /\ e \in Play /\ e.stage = "url" /\ e.count = length /\ e.shown = plays[k].shown
          /\ e.edited = plays[k].edited /\ e.phone = plays[k].phone
      <4> HIDE DEF length
      <4> QED BY <3>2 DEF Play
    <3>4. plays' = [plays EXCEPT ![k] = e]
      BY <1>2, <3>1, <3>2
    <3> HIDE DEF e
    <3> QED BY <2>1, <2>4, <3>2, <3>3, <3>4, ListAdvances
  <2> QED BY <1>4, <2>2, <2>3, <2>4 DEF onResponse
<1>5. ASSUME NEW c \in DOMAIN calls, onFailure(c) PROVE ListsKept
  <2>1. script' = script /\ (calls[c].play = 0 \/ calls[c].play \in DOMAIN plays)
    BY <1>5 DEF onFailure, Types
  <2> QED BY <1>3, <1>5, <2>1, ListsSame DEF onFailure
<1>6. ASSUME NEW k \in DOMAIN plays, choreographyUrl(k) \/ choreographyUrl_raises(k)
      PROVE  ListsKept
  BY <1>3, <1>6 DEF choreographyUrl, choreographyUrl_raises
<1>7. ASSUME NEW p \in Phones, ToPlay(p) PROVE ListsKept
  <2> DEFINE e == [phone |-> p, stage |-> "reset", count |-> 0, shown |-> script[p],
                   edited |-> FALSE, switched |-> FALSE]
             n == Len(plays) + 1
  <2>1. plays' = Append(plays, e) /\ script' = script
    BY <1>7 DEF ToPlay
  <2>2. e \in Play /\ e.phone = p /\ e.stage = "reset" /\ e.shown = script[p]
    BY DEF Types, Play
  <2> HIDE DEF e
  <2>3. /\ DOMAIN plays' = DOMAIN plays \cup {n} /\ plays'[n] = e
        /\ \A j \in DOMAIN plays : plays'[j] = plays[j]
    BY <1>2, <2>1, <2>2, Appended
  <2> HIDE DEF n
  <2>4. ASSUME NEW j \in DOMAIN plays', j = n PROVE Current(j)'
    <3>1. plays'[j] = e /\ script'[p] = script[p]
      BY <2>1, <2>3, <2>4
    <3> QED BY <2>2, <3>1 DEF Current
  <2>5. ASSUME NEW j \in DOMAIN plays PROVE KeptList(j) /\ Current(j)'
    <3>1. plays'[j] = plays[j] /\ script' = script
      BY <2>1, <2>3
    <3>2. Current(j)
      BY DEF Lists
    <3> QED BY <3>1, <3>2 DEF KeptList, Current
  <2> QED BY <2>3, <2>4, <2>5 DEF ListsKept, Lists
<1>8. ASSUME NEW p \in Phones, Toggle(p) PROVE ListsKept
  <2>1. /\ script' = script
        /\ plays' = [k \in DOMAIN plays |->
                       IF Pending(k, p) THEN [plays[k] EXCEPT !.switched = TRUE] ELSE plays[k]]
    BY <1>8 DEF Toggle
  <2>2. ASSUME NEW k \in DOMAIN plays PROVE KeptList(k) /\ Current(k)'
    <3> DEFINE e == [plays[k] EXCEPT !.switched = TRUE]
    <3>1. plays'[k] = IF Pending(k, p) THEN e ELSE plays[k]
      BY <2>1
    <3>2. /\ e.stage = plays[k].stage /\ e.shown = plays[k].shown /\ e.count = plays[k].count
          /\ e.edited = plays[k].edited /\ e.phone = plays[k].phone
      BY <1>1 DEF Play
    <3> HIDE DEF e
    <3>3. /\ plays'[k].stage = plays[k].stage /\ plays'[k].shown = plays[k].shown
          /\ plays'[k].edited = plays[k].edited /\ plays'[k].phone = plays[k].phone
          /\ plays'[k].count = plays[k].count
      BY <3>1, <3>2
    <3>4. Current(k) /\ script' = script
      BY <2>1 DEF Lists
    <3> QED BY <3>3, <3>4 DEF KeptList, Current
  <2>3. DOMAIN plays' = DOMAIN plays
    BY <2>1
  <2> QED BY <2>2, <2>3 DEF ListsKept, Lists
<1>9. ASSUME NEW p \in Phones, NEW s \in Scripts, Edit(p, s) PROVE ListsKept
  <2>1. /\ script' = [script EXCEPT ![p] = s]
        /\ plays' = [k \in DOMAIN plays |->
                       IF Pending(k, p) THEN [plays[k] EXCEPT !.edited = TRUE] ELSE plays[k]]
    BY <1>9 DEF Edit
  <2>2. ASSUME NEW k \in DOMAIN plays, Pending(k, p) PROVE KeptList(k) /\ Current(k)'
    <3> DEFINE e == [plays[k] EXCEPT !.edited = TRUE]
    <3>1. plays'[k] = e
      BY <2>1, <2>2
    <3>2. e.edited /\ e.shown = plays[k].shown
      BY <1>1 DEF Play
    <3> HIDE DEF e
    <3> QED BY <3>1, <3>2 DEF KeptList, Current
  <2>3. ASSUME NEW k \in DOMAIN plays, ~Pending(k, p) PROVE KeptList(k) /\ Current(k)'
    <3>1. plays'[k] = plays[k]
      BY <2>1, <2>3
    <3>2. Current(k) /\ plays[k].phone \in Phones
      BY <1>1 DEF Lists, Play
    <3>3. plays[k].phone # p => script'[plays[k].phone] = script[plays[k].phone]
      BY <2>1, <3>2 DEF Types
    <3>4. plays[k].phone = p => plays[k].stage \notin {"reset", "url"}
      BY <2>3 DEF Pending
    <3> QED BY <3>1, <3>2, <3>3, <3>4 DEF KeptList, Current
  <2>4. DOMAIN plays' = DOMAIN plays
    BY <2>1
  <2> QED BY <2>2, <2>3, <2>4 DEF ListsKept, Lists
<1>10. CASE UNCHANGED <<plays, script>>
  BY <1>10, ListsSame
<1>11. CASE Callback
  BY <1>4, <1>5, <1>6, <1>11 DEF Callback
<1>12. CASE UNCHANGED vars
  BY <1>10, <1>12 DEF vars
<1>13. ASSUME NEW c \in DOMAIN calls, Deliver(c) PROVE ListsKept
  BY <1>10, <1>13 DEF Deliver
<1>14. ASSUME NEW s \in Servers, Serve(s) PROVE ListsKept
  BY <1>10, <1>14 DEF Serve
<1>15. CASE Restart
  BY <1>10, <1>15 DEF Restart
<1>16. ASSUME NEW p \in Phones, NEW angles \in Postures, gotoStates(p, angles) PROVE ListsKept
  BY <1>10, <1>16 DEF gotoStates
<1> QED BY <1>7, <1>8, <1>9, <1>11, <1>12, <1>13, <1>14, <1>15, <1>16 DEF Next

\* A play sends at most one choreography: the list it was about, unless that was
\* edited.
Choreographies ==
  \A c \in DOMAIN calls : LET k == calls[c].play IN
    /\ k # 0 => calls[c].req.kind \in {"reset", "choreography"}
    /\ calls[c].req.kind = "choreography" =>
         /\ ~plays[k].edited =>
              calls[c].req.actions = plays[k].shown /\ calls[c].req.count = Len(plays[k].shown)
         /\ \A d \in DOMAIN calls :
              calls[d].play = k /\ calls[d].req.kind = "choreography" => d = c

\* The choreography that is made now.
LEMMA ChoreographyMade ==
  ASSUME Types, Lists, Queued, [Next]_vars,
         NEW c \in DOMAIN calls', c \notin DOMAIN calls, calls'[c].req.kind = "choreography"
  PROVE  LET k == calls'[c].play IN
         /\ k \in DOMAIN plays /\ k # 0 /\ plays[k].stage = "url"
         /\ ~plays[k].edited =>
              calls'[c].req.actions = plays[k].shown /\ calls'[c].req.count = Len(plays[k].shown)
         /\ \A d \in DOMAIN calls' : d \notin DOMAIN calls => d = c
<1>1. c \in NewCalls
  BY DEF NewCalls
<1>2. Made(c)
  BY <1>1, StepKeeps
<1>3. plays' # plays /\ calls'[c].play \in DOMAIN plays /\ calls'[c].play # 0
      /\ plays[calls'[c].play].stage = "url"
  BY <1>2 DEF Made
<1>4. ASSUME NEW k \in DOMAIN plays, choreographyUrl(k)
      PROVE  /\ k = calls'[c].play /\ \A d \in DOMAIN calls' : d \notin DOMAIN calls => d = c
             /\ ~plays[k].edited =>
                  calls'[c].req.actions = plays[k].shown /\ calls'[c].req.count = Len(plays[k].shown)
  <2> DEFINE n == Len(calls) + 1
             request == [kind |-> "choreography", count |-> plays[k].count,
                         actions |-> script[plays[k].phone]]
  <2>1. /\ DOMAIN calls' = DOMAIN calls \cup {n} /\ calls'[n].play = k
    BY <1>4, ChoreographyKeeps
  <2>2. c = n
    BY <2>1
  <2>3. plays[k].stage = "url" /\ sendRequest(request, isTest[plays[k].phone], k)
    BY <1>4 DEF choreographyUrl
  <2>4. request \in Request
    BY PlayFields DEF Request, Play
  <2>5. request.actions = script[plays[k].phone] /\ request.count = plays[k].count
    OBVIOUS
  <2>6. k \in Nat
    BY PlayFields
  <2> HIDE DEF request
  <2>7. Sent(n, request, isTest[plays[k].phone], k)
    BY <2>3, <2>4, <2>6, CallMade
  <2>8. calls'[n].req = request
    BY <2>7 DEF Sent
  <2>9. Current(k)
    BY DEF Lists
  <2> HIDE DEF n
  <2> QED BY <2>1, <2>2, <2>3, <2>5, <2>8, <2>9 DEF Current
<1>5. \E k \in DOMAIN plays : choreographyUrl(k)
  <2>1. ~(\E k \in DOMAIN plays : choreographyUrl_raises(k))
    BY <1>1 DEF choreographyUrl_raises, NewCalls
  <2>2. ~(\E d \in DOMAIN calls : onResponse(d) \/ onFailure(d))
    BY <1>1, CallbackKeeps DEF NewCalls
  <2>3. ~(\E p \in Phones : ToPlay(p))
    <3>1. SUFFICES ASSUME NEW p \in Phones, ToPlay(p) PROVE FALSE
      OBVIOUS
    <3> DEFINE n == Len(calls) + 1
    <3>2. DOMAIN calls' = DOMAIN calls \cup {n} /\ calls'[n].req = [kind |-> "reset"]
      BY <3>1, ToPlayKeeps
    <3>3. c = n
      BY <3>2
    <3> QED BY <3>2, <3>3
  <2>4. ~(\E p \in Phones : Toggle(p) \/ \E s \in Scripts : Edit(p, s))
    BY <1>1, UserKeeps DEF NewCalls
  <2>5. ~(\E p \in Phones : \E angles \in Postures : gotoStates(p, angles))
    BY <1>3 DEF gotoStates
  <2>6. ~(\E d \in DOMAIN calls : Deliver(d)) /\ ~(\E s \in Servers : Serve(s)) /\ ~Restart
    BY <1>3 DEF Deliver, Serve, Restart
  <2>7. ~ UNCHANGED vars
    BY <1>3 DEF vars
  <2> QED BY <2>1, <2>2, <2>3, <2>4, <2>5, <2>6, <2>7 DEF Next, Callback
<1> QED BY <1>3, <1>4, <1>5

LEMMA ChoreographiesStep ==
  ASSUME Types, Queued, Resets, Lists, Choreographies, [Next]_vars
  PROVE  Choreographies'
<1>1. Types' /\ Histories /\ \A c \in NewCalls : Made(c)
  BY StepKeeps
<1>2. ListsKept
  BY ListsStep
<1>3. ASSUME NEW c \in DOMAIN calls'
      PROVE  LET k == calls'[c].play IN
             /\ k # 0 => calls'[c].req.kind \in {"reset", "choreography"}
             /\ calls'[c].req.kind = "choreography" =>
                  /\ ~plays'[k].edited => /\ calls'[c].req.actions = plays'[k].shown
                                          /\ calls'[c].req.count = Len(plays'[k].shown)
                  /\ \A d \in DOMAIN calls' :
                       calls'[d].play = k /\ calls'[d].req.kind = "choreography" => d = c
  <2> DEFINE k == calls'[c].play
  <2>1. CASE c \in DOMAIN calls
    <3>1. calls'[c].play = calls[c].play /\ calls'[c].req = calls[c].req
      BY <1>1, <2>1 DEF Histories, KeptCall
    <3>2. k # 0 => calls'[c].req.kind \in {"reset", "choreography"}
      BY <2>1, <3>1 DEF Choreographies
    <3>3. SUFFICES ASSUME calls'[c].req.kind = "choreography"
                   PROVE  /\ ~plays'[k].edited => /\ calls'[c].req.actions = plays'[k].shown
                                                  /\ calls'[c].req.count = Len(plays'[k].shown)
                          /\ \A d \in DOMAIN calls' :
                               calls'[d].play = k /\ calls'[d].req.kind = "choreography" => d = c
      BY <3>2
    <3>4. calls[c].req.kind = "choreography" /\ k = calls[c].play /\ k # 0 /\ k \in DOMAIN plays
      BY <2>1, <3>1, <3>3 DEF Resets, Types
    <3>5. plays'[k].shown = plays[k].shown /\ (plays[k].edited => plays'[k].edited)
      BY <1>2, <3>4 DEF ListsKept, KeptList
    <3>6. ~plays[k].edited =>
            calls[c].req.actions = plays[k].shown /\ calls[c].req.count = Len(plays[k].shown)
      BY <2>1, <3>4 DEF Choreographies
    <3>7. ASSUME NEW d \in DOMAIN calls', calls'[d].play = k, calls'[d].req.kind = "choreography"
          PROVE  d = c
      <4>1. CASE d \in DOMAIN calls
        <5>1. calls[d].play = calls[c].play /\ calls[d].req.kind = "choreography"
          BY <1>1, <3>4, <3>7, <4>1 DEF Histories, KeptCall
        <5> QED BY <2>1, <3>4, <4>1, <5>1 DEF Choreographies
      <4>2. CASE d \notin DOMAIN calls
        <5>1. plays[k].stage = "url"
          BY <3>7, <4>2, ChoreographyMade
        <5>2. calls[c].req.kind = "reset"
          BY <2>1, <3>4, <5>1 DEF Resets
        <5> QED BY <3>4, <5>2
      <4> QED BY <4>1, <4>2
    <3> QED BY <3>1, <3>5, <3>6, <3>7
  <2>2. CASE c \notin DOMAIN calls
    <3>1. k # 0 => calls'[c].req.kind \in {"reset", "choreography"}
      <4>1. Made(c)
        BY <1>1, <2>2 DEF NewCalls
      <4> QED BY <4>1 DEF Made
    <3>2. SUFFICES ASSUME calls'[c].req.kind = "choreography"
                   PROVE  /\ ~plays'[k].edited => /\ calls'[c].req.actions = plays'[k].shown
                                                  /\ calls'[c].req.count = Len(plays'[k].shown)
                          /\ \A d \in DOMAIN calls' :
                               calls'[d].play = k /\ calls'[d].req.kind = "choreography" => d = c
      BY <3>1
    <3>3. /\ k \in DOMAIN plays /\ k # 0 /\ plays[k].stage = "url"
          /\ ~plays[k].edited =>
               calls'[c].req.actions = plays[k].shown /\ calls'[c].req.count = Len(plays[k].shown)
          /\ \A d \in DOMAIN calls' : d \notin DOMAIN calls => d = c
      BY <2>2, <3>2, ChoreographyMade
    <3>4. plays'[k].shown = plays[k].shown /\ (plays[k].edited => plays'[k].edited)
      BY <1>2, <3>3 DEF ListsKept, KeptList
    <3>5. ASSUME NEW d \in DOMAIN calls, calls'[d].play = k PROVE calls'[d].req.kind = "reset"
      <4>1. calls[d].play = k /\ calls'[d].req = calls[d].req
        BY <1>1, <3>5 DEF Histories, KeptCall
      <4> QED BY <3>3, <4>1 DEF Resets
    <3> QED BY <3>3, <3>4, <3>5
  <2> QED BY <2>1, <2>2
<1> QED BY <1>3 DEF Choreographies

\* A server's record is of calls that were served.
ServedOnes ==
  \A s \in Servers : \A i \in 1 .. Len(served[s]) :
    served[s][i] \in DOMAIN calls /\ calls[served[s][i]].at = "served"

\* A robot that served a reset last is home.
Landed ==
  \A s \in Servers : LET n == Len(served[s]) IN
    restarts = 0 /\ n > 0 /\ calls[served[s][n]].req.kind = "reset" => pos[s] = Home

\* A served call stays served.
LEMMA StaysServed ==
  ASSUME Types, Queued, [Next]_vars, NEW c \in DOMAIN calls, calls[c].at = "served"
  PROVE  calls'[c].at = "served"
<1>1. ASSUME NEW d \in DOMAIN calls, Deliver(d) PROVE calls'[c].at = "served"
  <2>1. calls[d].at = "flying" /\ calls' = [calls EXCEPT ![d].at = "queued"]
    BY <1>1 DEF Deliver
  <2>2. c # d
    BY <2>1
  <2> QED BY <2>1, <2>2, CallMoves
<1>2. ASSUME NEW s \in Servers, Serve(s) PROVE calls'[c].at = "served"
  <2> DEFINE h == Head(queue[s])
  <2>1. h \in DOMAIN calls /\ calls' = [calls EXCEPT ![h].at = "served"]
    BY <1>2, ServeKeeps
  <2> HIDE DEF h
  <2> QED BY <2>1, CallMoves
<1>3. CASE Restart
  <2>1. queue["arm"] \in Seq(Nat) /\ "arm" \in Servers
    BY DEF Types, Servers
  <2>2. DOMAIN queue["arm"] = 1 .. Len(queue["arm"])
    BY <2>1, LenProperties
  <2>3. c \notin ToSet(queue["arm"])
    BY <2>1, <2>2 DEF Queued, ToSet
  <2> QED BY <1>3, <2>3, RestartKeeps
<1>4. ASSUME NEW d \in DOMAIN calls, onResponse(d) \/ onFailure(d) PROVE calls'[c].at = "served"
  BY <1>4, CallbackKeeps
<1>5. ASSUME NEW k \in DOMAIN plays, choreographyUrl(k) PROVE calls'[c].at = "served"
  BY <1>5, ChoreographyKeeps
<1>6. ASSUME NEW k \in DOMAIN plays, choreographyUrl_raises(k) PROVE calls'[c].at = "served"
  BY <1>6 DEF choreographyUrl_raises
<1>7. ASSUME NEW p \in Phones, ToPlay(p) PROVE calls'[c].at = "served"
  BY <1>7, ToPlayKeeps
<1>8. ASSUME NEW p \in Phones, Toggle(p) \/ \E s \in Scripts : Edit(p, s)
      PROVE  calls'[c].at = "served"
  BY <1>8, UserKeeps
<1>9. ASSUME NEW p \in Phones, NEW angles \in Postures, gotoStates(p, angles)
      PROVE  calls'[c].at = "served"
  BY <1>9, GotoKeeps
<1>10. CASE UNCHANGED vars
  BY <1>10 DEF vars
<1>11. CASE Callback
  BY <1>4, <1>5, <1>6, <1>11 DEF Callback
<1> QED BY <1>1, <1>2, <1>3, <1>7, <1>8, <1>9, <1>10, <1>11 DEF Next

\* The steps that serve nothing.
LEMMA ServesOrNot ==
  ASSUME Types, Queued, [Next]_vars
  PROVE  \/ \E s \in Servers : Serve(s)
         \/ UNCHANGED <<served, pos, restarts>>
         \/ restarts' # 0 /\ UNCHANGED served
<1>1. ASSUME Restart PROVE restarts' # 0 /\ UNCHANGED served
  <2>1. restarts \in Nat /\ restarts' = restarts + 1
    BY <1>1 DEF Restart, Types
  <2> QED BY <1>1, <2>1 DEF Restart
<1>2. ASSUME ~Restart, ~\E s \in Servers : Serve(s) PROVE UNCHANGED <<served, pos, restarts>>
  BY <1>2 DEF Next, vars, Deliver, Callback, onResponse, onFailure, choreographyUrl,
              choreographyUrl_raises, ToPlay, Toggle, Edit, gotoStates
<1> QED BY <1>1, <1>2

\* What is said of the calls of a record that did not change.
LEMMA RecordKept ==
  ASSUME Types, Queued, ServedOnes, [Next]_vars, NEW s \in Servers, served'[s] = served[s],
         NEW i \in 1 .. Len(served[s])
  PROVE  LET c == served[s][i] IN
         /\ c \in DOMAIN calls /\ c \in DOMAIN calls' /\ calls'[c].at = "served"
         /\ calls'[c].play = calls[c].play /\ calls'[c].req = calls[c].req
  BY StaysServed, StepKeeps DEF ServedOnes, Histories, KeptCall

\* What the next call served finds.
LEMMA NextServed ==
  ASSUME Types, Queued, ServedOnes, NEW s \in Servers, Serve(s)
  PROVE  LET c == Head(queue[s]) IN
         /\ c \in DOMAIN calls /\ calls[c].at = "queued" /\ calls[c].req \in Request
         /\ DOMAIN calls' = DOMAIN calls /\ calls'[c].at = "served"
         /\ \A d \in DOMAIN calls : calls'[d].req = calls[d].req /\ calls'[d].play = calls[d].play
         /\ \A d \in DOMAIN calls : d # c => calls'[d] = calls[d]
         /\ \A i \in 1 .. Len(served[s]) : served[s][i] # c /\ served'[s][i] = served[s][i]
         /\ Len(served[s]) \in Nat /\ Len(served'[s]) = Len(served[s]) + 1
         /\ served'[s][Len(served[s]) + 1] = c
         /\ \A t \in Servers : t # s => served'[t] = served[t] /\ pos'[t] = pos[t]
         /\ pos'[s] = Arm!Effect(pos[s], calls[c].req)
         /\ UNCHANGED <<plays, restarts>>
<1> DEFINE c == Head(queue[s])
<1>1. /\ queue[s] # <<>> /\ served' = [served EXCEPT ![s] = Append(@, c)]
      /\ pos' = [pos EXCEPT ![s] = Arm!Effect(@, calls[c].req)]
      /\ UNCHANGED <<plays, restarts>>
  BY DEF Serve
<1>2. c \in DOMAIN calls /\ calls' = [calls EXCEPT ![c].at = "served"]
  BY ServeKeeps
<1>3. c = queue[s][1] /\ 1 \in 1 .. Len(queue[s]) /\ c \in Nat
  BY <1>1, Tails DEF Types
<1>4. calls[c].at = "queued"
  BY <1>3 DEF Queued
<1> HIDE DEF c
<1>5. /\ DOMAIN calls' = DOMAIN calls /\ \A d \in DOMAIN calls : KeptCall(d)
      /\ \A d \in DOMAIN calls : d # c => calls'[d] = calls[d]
      /\ calls'[c].at = "served"
  BY <1>2, CallMoves
<1>6. served \in [Servers -> Seq(Nat)] /\ served[s] \in Seq(Nat) /\ pos = [t \in Servers |-> pos[t]]
  BY DEF Types
<1>7. served'[s] = Append(served[s], c) /\ \A t \in Servers : t # s => served'[t] = served[t]
  BY <1>1, <1>6
<1>8. /\ Len(served[s]) \in Nat /\ Len(served'[s]) = Len(served[s]) + 1
      /\ served'[s][Len(served[s]) + 1] = c
      /\ \A i \in 1 .. Len(served[s]) : served'[s][i] = served[s][i]
  BY <1>3, <1>6, <1>7, Appended
<1>9. pos'[s] = Arm!Effect(pos[s], calls[c].req) /\ \A t \in Servers : t # s => pos'[t] = pos[t]
  BY <1>1, <1>6
<1>10. \A i \in 1 .. Len(served[s]) : served[s][i] # c
  BY <1>4 DEF ServedOnes
<1>11. calls[c].req \in Request
  <2>1. calls[c] \in Call
    BY <1>2, LenProperties DEF Types
  <2> QED BY <2>1 DEF Call
<1> QED BY <1>1, <1>2, <1>4, <1>5, <1>7, <1>8, <1>9, <1>10, <1>11 DEF KeptCall, c

LEMMA ServedOnesStep ==
  ASSUME Types, Queued, ServedOnes, [Next]_vars
  PROVE  ServedOnes'
<1>1. ASSUME UNCHANGED served PROVE ServedOnes'
  BY <1>1, RecordKept DEF ServedOnes
<1>2. ASSUME NEW s \in Servers, Serve(s) PROVE ServedOnes'
  <2> DEFINE c == Head(queue[s])
             n == Len(served[s])
  <2>1. /\ c \in DOMAIN calls' /\ calls'[c].at = "served" /\ n \in Nat
        /\ Len(served'[s]) = n + 1 /\ served'[s][n + 1] = c
        /\ \A i \in 1 .. n : served'[s][i] = served[s][i]
        /\ \A t \in Servers : t # s => served'[t] = served[t]
        /\ DOMAIN calls' = DOMAIN calls
    BY <1>2, NextServed
  <2> HIDE DEF c
  <2>2. \A t \in Servers : \A i \in 1 .. Len(served[t]) :
          served[t][i] \in DOMAIN calls' /\ calls'[served[t][i]].at = "served"
    BY <2>1, StaysServed DEF ServedOnes
  <2> HIDE DEF n
  <2>3. ASSUME NEW t \in Servers, NEW i \in 1 .. Len(served'[t])
        PROVE  served'[t][i] \in DOMAIN calls' /\ calls'[served'[t][i]].at = "served"
    <3>1. CASE t # s
      <4>1. served'[t] = served[t]
        BY <2>1, <3>1
      <4> QED BY <2>2, <4>1
    <3>2. CASE t = s /\ i = n + 1
      BY <2>1, <3>2
    <3>3. CASE t = s /\ i # n + 1
      <4>1. i \in 1 .. n
        BY <2>1, <3>3
      <4> QED BY <2>1, <2>2, <3>3, <4>1 DEF n
    <3> QED BY <3>1, <3>2, <3>3
  <2> QED BY <2>3 DEF ServedOnes
<1> QED BY <1>1, <1>2, ServesOrNot

LEMMA LandedStep ==
  ASSUME Types, Queued, ServedOnes, Landed, [Next]_vars
  PROVE  Landed'
<1>1. ASSUME NEW s \in Servers, UNCHANGED <<restarts>>, served'[s] = served[s], pos'[s] = pos[s],
             restarts' = 0, Len(served'[s]) > 0,
             calls'[served'[s][Len(served'[s])]].req.kind = "reset"
      PROVE  pos'[s] = Home
  <2> DEFINE n == Len(served[s])
  <2>1. n \in 1 .. Len(served[s])
    <3>1. served[s] \in Seq(Nat)
      BY DEF Types
    <3> QED BY <1>1, <3>1, LenProperties
  <2>2. calls'[served[s][n]].req = calls[served[s][n]].req
    BY <1>1, <2>1, RecordKept
  <2> QED BY <1>1, <2>2 DEF Landed
<1>2. CASE UNCHANGED <<served, pos, restarts>>
  BY <1>1, <1>2 DEF Landed
<1>3. CASE restarts' # 0
  BY <1>3 DEF Landed
<1>4. ASSUME NEW s \in Servers, Serve(s) PROVE Landed'
  <2> DEFINE c == Head(queue[s])
             n == Len(served[s])
  <2>1. /\ c \in DOMAIN calls /\ n \in Nat /\ calls'[c].req = calls[c].req
        /\ Len(served'[s]) = n + 1 /\ served'[s][n + 1] = c
        /\ \A t \in Servers : t # s => served'[t] = served[t] /\ pos'[t] = pos[t]
        /\ pos'[s] = Arm!Effect(pos[s], calls[c].req) /\ restarts' = restarts
    BY <1>4, NextServed
  <2> HIDE DEF c, n
  <2>2. ASSUME calls'[c].req.kind = "reset" PROVE pos'[s] = Home
    BY <2>1, <2>2 DEF Arm!Effect
  <2>3. ASSUME NEW t \in Servers, restarts' = 0, Len(served'[t]) > 0,
               calls'[served'[t][Len(served'[t])]].req.kind = "reset"
        PROVE  pos'[t] = Home
    <3>1. CASE t = s
      BY <2>1, <2>2, <2>3, <3>1
    <3>2. CASE t # s
      BY <1>1, <2>1, <2>3, <3>2
    <3> QED BY <3>1, <3>2
  <2> QED BY <2>3 DEF Landed
<1> QED BY <1>2, <1>3, <1>4, ServesOrNot

\* The condition under which a server has played a script: it served the reset
\* and then the choreography of play k.
PlayedLast(s, k) ==
  LET n == Len(served[s]) IN
    /\ n > 1 /\ k = calls[served[s][n]].play /\ k # 0
    /\ calls[served[s][n - 1]].play = k
    /\ calls[served[s][n]].req.kind = "choreography" /\ ~plays[k].edited /\ restarts = 0

ScriptsShort == \A s \in Scripts : Len(s) < IntHalf

\* The server that serves the choreography is home, where the reset of the same
\* play left it.
LEMMA ScriptPlayedStep ==
  ASSUME Types, Queued, Lists, Choreographies, ServedOnes, Landed, ScriptPlayed, [Next]_vars,
         ScriptsShort
  PROVE  ScriptPlayed'
<1>1. ListsKept /\ Types' /\ Histories
  BY ListsStep, StepKeeps
<1>2. ASSUME NEW s \in Servers, served'[s] = served[s], pos'[s] = pos[s], restarts' = restarts,
             NEW k, PlayedLast(s, k)'
      PROVE  pos'[s] = Played(plays'[k].shown)
  <2> DEFINE n == Len(served[s])
  <2>1. n > 1 /\ n \in 1 .. Len(served[s]) /\ n - 1 \in 1 .. Len(served[s])
    <3>1. served[s] \in Seq(Nat)
      BY DEF Types
    <3> QED BY <1>2, <3>1, LenProperties DEF PlayedLast
  <2>2. /\ calls'[served[s][n]].req = calls[served[s][n]].req
        /\ calls'[served[s][n]].play = calls[served[s][n]].play
        /\ calls'[served[s][n - 1]].play = calls[served[s][n - 1]].play
        /\ served[s][n] \in DOMAIN calls
    BY <1>2, <2>1, RecordKept
  <2>3. k # 0 /\ k = calls[served[s][n]].play /\ k \in DOMAIN plays
    BY <1>2, <2>2 DEF PlayedLast, Types
  <2>4. plays'[k].shown = plays[k].shown /\ (plays[k].edited => plays'[k].edited)
    BY <1>1, <2>3 DEF ListsKept, KeptList
  <2>5. pos[s] = Played(plays[k].shown)
    BY <1>2, <2>1, <2>2, <2>3, <2>4 DEF ScriptPlayed, PlayedLast
  <2> QED BY <1>2, <2>4, <2>5
<1>3. ASSUME NEW s \in Servers, Serve(s), NEW k, PlayedLast(s, k)'
      PROVE  pos'[s] = Played(plays'[k].shown)
  <2> DEFINE c == Head(queue[s])
             n == Len(served[s])
             d == served[s][n]
  <2>1. /\ c \in DOMAIN calls /\ calls[c].req \in Request
        /\ \A e \in DOMAIN calls : calls'[e].req = calls[e].req /\ calls'[e].play = calls[e].play
        /\ \A i \in 1 .. n : served[s][i] # c /\ served'[s][i] = served[s][i]
        /\ n \in Nat /\ Len(served'[s]) = n + 1 /\ served'[s][n + 1] = c
        /\ pos'[s] = Arm!Effect(pos[s], calls[c].req)
        /\ UNCHANGED <<plays, restarts>>
    BY <1>3, NextServed
  <2> HIDE DEF c
  <2>2. n \in 1 .. n /\ n > 0
    <3> HIDE DEF n
    <3>1. n + 1 > 1
      BY <1>3, <2>1 DEF PlayedLast
    <3> QED BY <2>1, <3>1
  <2>3. d \in DOMAIN calls /\ d # c /\ served'[s][n] = d /\ (n + 1) - 1 = n
    BY <2>1, <2>2 DEF ServedOnes
  <2> HIDE DEF n, d
  <2>4. /\ k = calls[c].play /\ k # 0 /\ calls[d].play = k
        /\ calls[c].req.kind = "choreography" /\ ~plays[k].edited /\ restarts = 0
    BY <1>3, <2>1, <2>3 DEF PlayedLast
  <2>5. /\ calls[c].req.actions = plays[k].shown /\ calls[c].req.count = Len(plays[k].shown)
        /\ calls[d].req.kind # "choreography"
    BY <2>1, <2>3, <2>4 DEF Choreographies
  <2>6. calls[d].req.kind = "reset"
    BY <2>3, <2>4, <2>5 DEF Choreographies
  <2>7. pos[s] = Home
    BY <2>2, <2>4, <2>6 DEF Landed, n, d
  <2>8. Announced(plays[k].shown)
    <3>1. k \in DOMAIN plays
      BY <2>1, <2>4 DEF Types
    <3>2. plays[k].shown \in Scripts
      BY <3>1, PlayFields DEF Play
    <3> QED BY <3>2 DEF Announced, ScriptsShort
  <2>9. Arm!Effect(Home, calls[c].req) = Acted(Home, plays[k].shown)
    BY <2>1, <2>4, <2>5, <2>8, HomeIsLegal, ScriptEffect
  <2> QED BY <2>1, <2>7, <2>9 DEF Played
<1>4. ASSUME NEW s \in Servers, NEW k, PlayedLast(s, k)'
      PROVE  pos'[s] = Played(plays'[k].shown)
  <2>1. restarts' = 0
    BY <1>4 DEF PlayedLast
  <2>2. CASE UNCHANGED <<served, pos, restarts>>
    BY <1>2, <1>4, <2>2
  <2>3. ASSUME NEW t \in Servers, Serve(t) PROVE pos'[s] = Played(plays'[k].shown)
    <3>1. CASE t = s
      BY <1>3, <1>4, <2>3, <3>1
    <3>2. CASE t # s
      <4>1. served'[s] = served[s] /\ pos'[s] = pos[s] /\ restarts' = restarts
        BY <2>3, <3>2, NextServed
      <4> QED BY <1>2, <1>4, <4>1
    <3> QED BY <3>1, <3>2
  <2> QED BY <2>1, <2>2, <2>3, ServesOrNot
<1> QED BY <1>4 DEF ScriptPlayed, PlayedLast

\* A play that is left alone brings the robot where its script leads from home:
\* whatever the other phones, the network and the other calls do, the choreography
\* finds the robot home when the server served the reset of the same play just
\* before.  A script is short enough for its length to be an int of the board.
THEOREM ScriptIsPlayed == ASSUME ScriptsShort PROVE Spec => []ScriptPlayed
<1>1. Init => Lists /\ Choreographies /\ ServedOnes /\ Landed /\ ScriptPlayed
  <2>1. SUFFICES ASSUME Init PROVE Lists /\ Choreographies /\ ServedOnes /\ Landed /\ ScriptPlayed
    OBVIOUS
  <2>2. DOMAIN calls = {} /\ DOMAIN plays = {} /\ \A s \in Servers : Len(served[s]) = 0
    BY <2>1 DEF Init
  <2> QED BY <2>2 DEF Lists, Choreographies, ServedOnes, Landed, ScriptPlayed
<1>2. IInv /\ Lists /\ [Next]_vars => Lists'
  BY ListsStep DEF IInv, ListsKept
<1>3. IInv /\ Lists /\ Choreographies /\ [Next]_vars => Choreographies'
  BY ChoreographiesStep DEF IInv
<1>4. IInv /\ ServedOnes /\ [Next]_vars => ServedOnes'
  BY ServedOnesStep DEF IInv
<1>5. IInv /\ ServedOnes /\ Landed /\ [Next]_vars => Landed'
  BY LandedStep DEF IInv
<1>6. IInv /\ Lists /\ Choreographies /\ ServedOnes /\ Landed /\ ScriptPlayed /\ [Next]_vars
        => ScriptPlayed'
  BY ScriptPlayedStep DEF IInv
<1> QED BY <1>1, <1>2, <1>3, <1>4, <1>5, <1>6, Invariant, PTL DEF Spec

=============================================================================
