--------------------------- MODULE ServoTimerProofs ---------------------------
(***************************************************************************)
(* What the Servo library's interrupt guarantees, for any number of servos *)
(* and values written, and interrupts as late as the timer's width allows. *)
(*                                                                         *)
(* The compare register goes up by at most a pulse and a late interrupt    *)
(* for each channel (Ahead), so it never comes around between two resets   *)
(* of the timer.  A pin that is high is the channel's, and is due to go    *)
(* low when the pulse it was begun with is over (Pulsing).                 *)
(***************************************************************************)
EXTENDS ServoTimer, TLAPS

\* The longest a channel takes.
Slot == MaxTicks + Latency

\* When the timer is past a channel.
End(c) == (c + 1) * Slot

Stopped == ~started => Channel = 0 /\ OCR = 0 /\ TCNT = 0 /\ high = {}

Ahead ==
  /\ Channel >= 0 => OCR + Latency <= End(Channel)
  /\ Channel = -1 => OCR >= Refresh

Pulsing ==
  \A s \in high \ cut :
    s = Channel /\ isActive[s] /\ OCR > TCNT /\ age[s] + OCR - TCNT = pulse

SinceTurn == since = Refresh \/ since >= TCNT

Commanded == {usToTicks(DEFAULT_PULSE_WIDTH)} \cup {written(value) : value \in Degrees}
Words == pulse \in Commanded /\ \A s \in Channels : ticks[s] \in Commanded

IInv == TypeOK /\ NeverMissed /\ Stopped /\ Ahead /\ Pulsing /\ SinceTurn /\ Words

-----------------------------------------------------------------------------
(***************************************************************************)
(* Numbers.                                                                *)
(***************************************************************************)
LEMMA Numbers ==
  /\ MinTicks \in Nat /\ MaxTicks \in Nat /\ Refresh \in Nat /\ Word \in Nat
  /\ 0 < MinTicks /\ MinTicks <= MaxTicks /\ 4 < Refresh
  /\ usToTicks(DEFAULT_PULSE_WIDTH) \in MinTicks .. MaxTicks
  BY SMT
  DEF MinTicks, MaxTicks, Refresh, Word, usToTicks, DEFAULT_PULSE_WIDTH, MIN_PULSE_WIDTH,
      MAX_PULSE_WIDTH, TRIM_DURATION, REFRESH_INTERVAL

LEMMA Sizes ==
  /\ ServoCount \in Nat /\ 1 <= ServoCount /\ ServoCount <= SERVOS_PER_TIMER
  /\ SERVOS_PER_TIMER \in Nat
  /\ Latency \in Nat /\ Slot \in Nat /\ Slot = MaxTicks + Latency
  /\ Refresh + Latency < Word
<1>1. SERVOS_PER_TIMER \in Nat
  BY SMT DEF SERVOS_PER_TIMER
<1> QED BY <1>1, TimerAssumption, Numbers DEF Slot

\* The channels' ends are a slot apart, and all of them fit in the timer.
LEMMA SlotsFit ==
  /\ End(0) = Slot
  /\ \A c \in 0 .. ServoCount - 1 :
       End(c) \in Nat /\ End(c) + 4 + Latency < Word /\ End(c + 1) = End(c) + Slot
<1>1. Slot \in Nat /\ ServoCount \in Nat /\ Latency \in Nat
  BY Sizes
<1>2. \A m, n, k \in Nat : m <= n => m * k <= n * k
  BY SMT
<1>3. \A m, k \in Nat : (m + 1 + 1) * k = (m + 1) * k + k /\ (m + 1) * k \in Nat /\ m * k \in Nat
  BY SMT
<1>4. \A k \in Nat : (0 + 1) * k = k
  BY SMT
<1>5. ServoCount * Slot + 4 + Latency < Word /\ Word \in Nat
  BY TimerAssumption, Numbers DEF Slot
<1>6. ASSUME NEW c \in 0 .. ServoCount - 1
      PROVE  End(c) \in Nat /\ End(c) + 4 + Latency < Word /\ End(c + 1) = End(c) + Slot
  <2> DEFINE all == ServoCount * Slot
  <2>1. c \in Nat /\ c + 1 \in Nat /\ c + 1 <= ServoCount
    BY <1>1
  <2>2. End(c) <= all /\ End(c) \in Nat /\ all \in Nat
    BY <1>1, <1>2, <1>3, <2>1 DEF End
  <2>3. End(c + 1) = End(c) + Slot
    BY <1>1, <1>3, <2>1 DEF End
  <2>4. all + 4 + Latency < Word /\ Word \in Nat
    BY <1>5
  <2> HIDE DEF all
  <2> QED BY <1>1, <2>2, <2>3, <2>4
<1> QED BY <1>1, <1>4, <1>6 DEF End

\* A timer that is not around is not changed by the remainder.
LEMMA NotAround ==
  ASSUME NEW n \in 0 .. Word - 1
  PROVE  n % Word = n
  BY Numbers

\* What write stores is within the pulses a servo takes, whatever it is given.
LEMMA WrittenInRange ==
  ASSUME NEW value \in Int
  PROVE  written(value) \in MinTicks .. MaxTicks
<1>1. /\ MIN_PULSE_WIDTH \in Int /\ MAX_PULSE_WIDTH \in Int /\ TRIM_DURATION \in Int
      /\ MIN_PULSE_WIDTH <= MAX_PULSE_WIDTH
  BY SMT DEF MIN_PULSE_WIDTH, MAX_PULSE_WIDTH, TRIM_DURATION
<1>2. \A low, high_, x \in Int : low <= high_ => constrain(x, low, high_) \in low .. high_
  BY DEF constrain
<1>3. micros(value) \in Int
  <2>1. constrain(value, 0, 180) \in Int
    BY SMT DEF constrain
  <2>2. \A a \in Int, b \in Int : b > 0 => Quotient(a, b) \in Int
    BY SMT DEF Quotient
  <2>3. ASSUME NEW x \in Int, NEW y \in Int, NEW z \in Int
        PROVE  map(x, 0, 180, y, z) \in Int
    <3>1. (x - 0) * (z - y) \in Int /\ 180 - 0 \in Int /\ 180 - 0 > 0
      BY SMT
    <3>2. Quotient((x - 0) * (z - y), 180 - 0) \in Int
      BY <2>2, <3>1, SMT
    <3> QED BY <3>2, SMT DEF map
  <2>4. map(constrain(value, 0, 180), 0, 180, MIN_PULSE_WIDTH, MAX_PULSE_WIDTH) \in Int
    BY <1>1, <2>1, <2>3
  <2> QED BY <2>4, SMT DEF micros
<1>4. constrain(micros(value), MIN_PULSE_WIDTH, MAX_PULSE_WIDTH) \in MIN_PULSE_WIDTH .. MAX_PULSE_WIDTH
  BY <1>1, <1>2, <1>3
<1> QED BY <1>1, <1>4, SMT DEF written, MinTicks, MaxTicks, usToTicks

LEMMA CommandedInRange == Commanded \subseteq MinTicks .. MaxTicks
<1>1. Degrees \subseteq Int
  BY TimerAssumption
<1> QED BY <1>1, WrittenInRange, Numbers DEF Commanded

LEMMA AtMostType ==
  ASSUME NEW bound \in Nat, NEW n \in Nat
  PROVE  AtMost(bound, n) \in 0 .. bound /\ (AtMost(bound, n) = bound \/ AtMost(bound, n) = n)
  BY DEF AtMost

LEMMA AgedType ==
  ASSUME TypeOK, NEW elapsed \in Nat
  PROVE  Aged(elapsed) \in [Channels -> 0 .. MaxTicks + Latency + 1]
<1> SUFFICES ASSUME NEW s \in Channels
             PROVE  (IF s \in high THEN AtMost(MaxTicks + Latency + 1, age[s] + elapsed) ELSE 0)
                    \in 0 .. MaxTicks + Latency + 1
  BY DEF Aged
<1>1. age[s] + elapsed \in Nat /\ MaxTicks + Latency + 1 \in Nat
  BY Numbers, Sizes DEF TypeOK
<1>2. AtMost(MaxTicks + Latency + 1, age[s] + elapsed) \in 0 .. MaxTicks + Latency + 1
  BY <1>1, AtMostType
<1>3. 0 \in 0 .. MaxTicks + Latency + 1
  BY <1>1
<1> QED BY <1>2, <1>3

-----------------------------------------------------------------------------
(***************************************************************************)
(* The interrupt.                                                          *)
(***************************************************************************)
\* When it comes: no later than the compare register and Latency say.
LEMMA Timely ==
  ASSUME IInv, started, NEW late \in {0, Latency}
  PROVE  /\ late \in 0 .. Latency /\ Due \in Nat /\ Channel \in -1 .. ServoCount - 1
         /\ OCR \in Nat /\ TCNT \in Nat
         /\ Channel = -1 => Now(late) = 0
         /\ Channel >= 0 => Now(late) = OCR + late /\ Channel \in 0 .. ServoCount - 1
         /\ OCR > TCNT => Due = OCR - TCNT
<1>1. /\ TCNT \in 0 .. Word - 1 /\ OCR \in 0 .. Word - 1 /\ Channel \in -1 .. ServoCount - 1
      /\ late \in 0 .. Latency /\ Latency \in Nat /\ ServoCount \in Nat /\ Word \in Nat
  BY Numbers, Sizes DEF IInv, TypeOK
<1>2. Due \in Nat /\ (OCR > TCNT => Due = OCR - TCNT)
  BY <1>1 DEF Due
<1>3. CASE Channel = -1
  BY <1>1, <1>2, <1>3 DEF Now
<1>4. CASE Channel >= 0
  <2>1. OCR + Latency <= End(Channel) /\ Channel \in 0 .. ServoCount - 1
    BY <1>1, <1>4 DEF IInv, Ahead
  <2>2. End(Channel) \in Nat /\ End(Channel) + 4 + Latency < Word
    BY <2>1, SlotsFit
  <2>3. OCR + late \in 0 .. Word - 1
    BY <1>1, <2>1, <2>2
  <2>4. Now(late) = (OCR + late) % Word
    BY <1>1, <1>4 DEF Now
  <2>5. Now(late) = OCR + late
    BY <2>3, <2>4, NotAround
  <2> QED BY <1>1, <1>2, <1>4, <2>1, <2>5
<1> QED BY <1>1, <1>3, <1>4

\* The next channel's pulse begins.
LEMMA Begins ==
  ASSUME IInv, NEW late \in {0, Latency}, handle_interrupts(late), Pulsed(Channel + 1)
  PROVE  /\ Channel + 1 \in Channels /\ Channel' = Channel + 1 /\ pulse' = ticks[Channel + 1]
         /\ TCNT' = Now(late) /\ TCNT' \in 0 .. Word - 1 /\ OCR' = TCNT' + ticks[Channel + 1]
         /\ OCR' \in 0 .. Word - 1 /\ OCR' > TCNT'
         /\ OCR' + Latency <= End(Channel')
         /\ high' = (high \ Ended) \cup {s \in {Channel + 1} : isActive[s]}
<1> DEFINE next == Channel + 1
<1>1. /\ started /\ TCNT' = Now(late) /\ Channel' = next
      /\ OCR' = (TCNT' + ticks[next]) % Word
      /\ high' = (high \ Ended) \cup {s \in {next} : isActive[s]} /\ pulse' = ticks[next]
  BY DEF handle_interrupts
<1>2. Channel \in -1 .. ServoCount - 1 /\ ServoCount \in Nat /\ Latency \in Nat
      /\ Slot \in Nat /\ Slot = MaxTicks + Latency /\ Word \in Nat
      /\ MinTicks \in Nat /\ MaxTicks \in Nat /\ 0 < MinTicks
  BY Numbers, Sizes DEF IInv, TypeOK
<1>3. next \in Channels /\ next \in 0 .. ServoCount - 1
  BY <1>2 DEF Pulsed, Channels
<1>4. ticks[next] \in MinTicks .. MaxTicks
  BY <1>3, Numbers DEF IInv, TypeOK
<1>5. TCNT' \in Nat /\ TCNT' + ticks[next] + Latency <= End(next)
  <2>1. CASE Channel = -1
    <3>1. TCNT' = 0 /\ next = 0
      BY <1>1, <2>1, Timely
    <3> QED BY <1>2, <1>4, <3>1, SlotsFit
  <2>2. CASE Channel >= 0
    <3>1. /\ Channel \in 0 .. ServoCount - 1 /\ OCR + Latency <= End(Channel)
          /\ TCNT' = OCR + late /\ late \in 0 .. Latency /\ OCR \in Nat
      BY <1>1, <2>2, Timely DEF IInv, Ahead
    <3>2. End(next) = End(Channel) + Slot /\ End(Channel) \in Nat
      BY <3>1, SlotsFit
    <3> HIDE DEF next
    <3> QED BY <1>2, <1>4, <3>1, <3>2
  <2> QED BY <1>2, <2>1, <2>2
<1>6. End(next) \in Nat /\ End(next) + 4 + Latency < Word
  BY <1>3, SlotsFit
<1> HIDE DEF next
<1>7. TCNT' + ticks[next] \in 0 .. Word - 1 /\ TCNT' \in 0 .. Word - 1
  BY <1>2, <1>4, <1>5, <1>6
<1>8. OCR' = TCNT' + ticks[next]
  BY <1>1, <1>7, NotAround
<1>9. OCR' > TCNT'
  BY <1>2, <1>4, <1>5, <1>8
<1> QED BY <1>1, <1>3, <1>5, <1>7, <1>8, <1>9 DEF next

\* After the last channel, the rest of the interval.
LEMMA Rests ==
  ASSUME IInv, NEW late \in {0, Latency}, handle_interrupts(late), ~Pulsed(Channel + 1)
  PROVE  /\ Channel' = -1 /\ Channel >= 0 /\ TCNT' = Now(late) /\ TCNT' \in 0 .. Word - 1
         /\ OCR' \in 0 .. Word - 1 /\ OCR' > TCNT' /\ OCR' >= Refresh
         /\ high' = high \ Ended /\ pulse' = pulse
<1>1. started /\ TCNT' = Now(late) /\ Channel' = -1 /\ OCR' = WaitUntil(TCNT')
      /\ high' = high \ Ended /\ pulse' = pulse
  BY DEF handle_interrupts
<1>2. /\ Channel \in -1 .. ServoCount - 1 /\ ServoCount \in Nat /\ Latency \in Nat
      /\ Word \in Nat /\ Refresh \in Nat /\ Refresh < Word
      /\ 4 < Refresh
  BY Numbers, Sizes DEF IInv, TypeOK
<1>3. Channel >= 0
  BY <1>2, Sizes DEF Pulsed
<1>4. /\ Channel \in 0 .. ServoCount - 1 /\ TCNT' = OCR + late /\ late \in 0 .. Latency
      /\ OCR \in Nat /\ OCR + Latency <= End(Channel)
  BY <1>1, <1>3, Timely DEF IInv, Ahead
<1>5. End(Channel) \in Nat /\ End(Channel) + 4 + Latency < Word
  BY <1>4, SlotsFit
<1>6. TCNT' \in 0 .. Word - 1 /\ TCNT' + 4 \in 0 .. Word - 1
  BY <1>2, <1>4, <1>5
<1>7. OCR' \in 0 .. Word - 1 /\ OCR' > TCNT' /\ OCR' >= Refresh
  <2>1. CASE TCNT' + 4 < Refresh
    BY <1>1, <1>2, <1>6, <2>1 DEF WaitUntil
  <2>2. CASE ~(TCNT' + 4 < Refresh)
    <3>1. (TCNT' + 4) % Word = TCNT' + 4
      BY <1>6, NotAround
    <3> QED BY <1>1, <1>2, <1>6, <2>2, <3>1 DEF WaitUntil
  <2> QED BY <2>1, <2>2
<1> QED BY <1>1, <1>3, <1>6, <1>7

-----------------------------------------------------------------------------
(***************************************************************************)
(* The invariant is kept.                                                  *)
(***************************************************************************)
\* A pulse that was begun and not cut is of a servo that is active, and the channel's.
LEMMA HighIsEnded ==
  ASSUME Pulsing
  PROVE  high \ cut \subseteq Ended
  BY DEF Pulsing, Ended

LEMMA InterruptStep ==
  ASSUME IInv, NEW late \in {0, Latency}, handle_interrupts(late)
  PROVE  IInv'
<1>1. /\ started /\ started' /\ UNCHANGED <<isActive, ticks>> /\ cut' = cut \ Ended
      /\ TCNT' = Now(late)
      /\ age' = [s \in Channels |-> IF s \in high' THEN Aged(Due + late)[s] ELSE 0]
      /\ since' = IF Channel + 1 = 0 THEN 0 ELSE AtMost(Refresh, since + (Due + late))
      /\ IF Pulsed(Channel + 1) THEN pulse' = ticks[Channel + 1] ELSE pulse' = pulse
  BY DEF handle_interrupts, IInv, TypeOK
<1>2. /\ late \in 0 .. Latency /\ Due \in Nat /\ Channel \in -1 .. ServoCount - 1
      /\ OCR \in Nat /\ TCNT \in Nat /\ Due + late \in Nat /\ Latency \in Nat
      /\ Channel = -1 => Now(late) = 0
      /\ Channel >= 0 => Now(late) = OCR + late
      /\ OCR > TCNT => Due = OCR - TCNT
  BY <1>1, Timely, Sizes
<1>3. high' = high \ Ended \/ (/\ Pulsed(Channel + 1) /\ Channel + 1 \in Channels
                               /\ high' = (high \ Ended) \cup {s \in {Channel + 1} : isActive[s]})
  BY Begins, Rests
<1>4. TypeOK'
  <2>1. TCNT' \in 0 .. Word - 1 /\ OCR' \in 0 .. Word - 1 /\ Channel' \in -1 .. ServoCount - 1
    <3>1. CASE Pulsed(Channel + 1)
      BY <1>2, <3>1, Begins DEF Channels
    <3>2. CASE ~Pulsed(Channel + 1)
      BY <1>2, <3>2, Rests, Sizes
    <3> QED BY <3>1, <3>2
  <2>2. high' \subseteq Channels /\ cut' \subseteq Channels
    BY <1>1, <1>3 DEF IInv, TypeOK
  <2>3. age' \in [Channels -> 0 .. MaxTicks + Latency + 1]
    <3>1. Aged(Due + late) \in [Channels -> 0 .. MaxTicks + Latency + 1]
      BY <1>2, AgedType DEF IInv
    <3>2. 0 \in 0 .. MaxTicks + Latency + 1
      BY Numbers, Sizes
    <3> HIDE DEF Channels
    <3> QED BY <1>1, <3>1, <3>2
  <2>4. since' \in 0 .. Refresh
    <3>1. since + (Due + late) \in Nat /\ Refresh \in Nat
      BY <1>2, Numbers DEF IInv, TypeOK
    <3>2. AtMost(Refresh, since + (Due + late)) \in 0 .. Refresh /\ 0 \in 0 .. Refresh
      BY <3>1, AtMostType
    <3> QED BY <1>1, <3>2
  <2> QED BY <1>1, <2>1, <2>2, <2>3, <2>4 DEF IInv, TypeOK
<1>5. NeverMissed' /\ Stopped'
  <2>1. OCR' > TCNT'
    BY Begins, Rests
  <2> QED BY <1>1, <2>1 DEF NeverMissed, Stopped
<1>6. Ahead'
  <2>1. CASE Pulsed(Channel + 1)
    <3>1. /\ Channel' = Channel + 1 /\ OCR' + Latency <= End(Channel')
      BY <2>1, Begins
    <3>2. Channel' # -1
      BY <1>2, <2>1, Begins DEF Channels
    <3> QED BY <3>1, <3>2 DEF Ahead, End, Slot
  <2>2. CASE ~Pulsed(Channel + 1)
    <3>1. Channel' = -1 /\ OCR' >= Refresh
      BY <2>2, Rests
    <3> QED BY <3>1 DEF Ahead
  <2> QED BY <2>1, <2>2
<1>7. Pulsing'
  <2> SUFFICES ASSUME NEW s \in high' \ cut'
               PROVE  s = Channel' /\ isActive'[s] /\ OCR' > TCNT' /\ age'[s] + OCR' - TCNT' = pulse'
    BY DEF Pulsing
  <2>1. s \notin high \ Ended
    BY <1>1, HighIsEnded DEF IInv
  <2>2. /\ Pulsed(Channel + 1) /\ s = Channel + 1 /\ isActive[s] /\ s \in Channels
    BY <1>3, <2>1
  <2>3. /\ Channel' = Channel + 1 /\ pulse' = ticks[s] /\ OCR' = TCNT' + ticks[s]
        /\ OCR' > TCNT' /\ TCNT' \in 0 .. Word - 1
    BY <2>2, Begins
  <2>4. s # Channel
    BY <1>2, <2>2
  <2>5. s \notin high
    BY <2>1, <2>4 DEF Ended
  <2>6. age'[s] = 0
    BY <1>1, <2>2, <2>5 DEF Aged
  <2>7. ticks[s] \in Int /\ TCNT' \in Int
    BY <2>2, <2>3, Numbers DEF IInv, TypeOK
  <2> QED BY <1>1, <2>2, <2>3, <2>6, <2>7
<1>8. SinceTurn'
  <2>1. CASE Channel = -1
    BY <1>1, <1>2, <2>1 DEF SinceTurn
  <2>2. CASE Channel >= 0
    <3>1. TCNT' = OCR + late /\ since' = AtMost(Refresh, since + (Due + late))
      BY <1>1, <1>2, <2>2
    <3>2. since \in Nat /\ Refresh \in Nat /\ since <= Refresh /\ (since = Refresh \/ since >= TCNT)
      BY Numbers DEF IInv, TypeOK, SinceTurn
    <3>3. Due >= OCR - TCNT
      <4>1. CASE OCR > TCNT
        BY <1>2, <4>1
      <4>2. CASE ~(OCR > TCNT)
        BY <1>2, <4>2
      <4> QED BY <4>1, <4>2
    <3> QED BY <1>2, <3>1, <3>2, <3>3 DEF SinceTurn, AtMost
  <2> QED BY <1>2, <2>1, <2>2
<1>9. Words'
  <2>1. CASE Pulsed(Channel + 1)
    BY <1>1, <2>1, Begins DEF IInv, Words, Commanded
  <2>2. CASE ~Pulsed(Channel + 1)
    BY <1>1, <2>2 DEF IInv, Words, Commanded
  <2> QED BY <2>1, <2>2
<1> QED BY <1>4, <1>5, <1>6, <1>7, <1>8, <1>9 DEF IInv

LEMMA AttachStep ==
  ASSUME IInv, NEW s \in Channels, attach(s)
  PROVE  IInv'
<1>1. isActive' = [isActive EXCEPT ![s] = TRUE] /\ UNCHANGED <<OCR, Channel, ticks, high, pulse, cut>>
  BY DEF attach
<1>2. TypeOK /\ NeverMissed /\ Stopped /\ Ahead /\ Pulsing /\ SinceTurn /\ Words
  BY DEF IInv
<1>3. isActive' \in [Channels -> BOOLEAN] /\ \A t \in Channels : isActive[t] => isActive'[t]
  BY <1>1, <1>2 DEF TypeOK
<1>4. CASE isTimerActive
  <2>1. UNCHANGED <<TCNT, started, age, since>>
    BY <1>4 DEF attach
  <2>2. TypeOK'
    BY <1>1, <1>2, <1>3, <2>1 DEF TypeOK
  <2>3. Pulsing'
    BY <1>1, <1>2, <1>3, <2>1 DEF Pulsing, TypeOK
  <2> QED BY <1>1, <1>2, <2>1, <2>2, <2>3
          DEF IInv, NeverMissed, Stopped, Ahead, End, Slot, SinceTurn, Words, Commanded
<1>5. CASE ~isTimerActive
  <2>1. started' = TRUE /\ TCNT' = 0
    BY <1>5 DEF attach, initISR
  <2>2. PICK elapsed \in {0, IF started THEN Due ELSE 0} :
          age' = Aged(elapsed) /\ since' = AtMost(Refresh, since + elapsed)
    BY <1>5 DEF attach, initISR
  <2>3. elapsed \in Nat
    BY <1>2, Numbers DEF Due, TypeOK
  <2>4. since' \in 0 .. Refresh /\ since' >= 0
    <3>1. since + elapsed \in Nat /\ Refresh \in Nat
      BY <1>2, <2>3, Numbers DEF TypeOK
    <3> QED BY <2>2, <3>1, AtMostType
  <2>5. TypeOK'
    <3>1. age' \in [Channels -> 0 .. MaxTicks + Latency + 1]
      BY <1>2, <2>2, <2>3, AgedType
    <3>2. TCNT' \in 0 .. Word - 1
      BY <2>1, Numbers, Sizes
    <3> QED BY <1>1, <1>2, <1>3, <2>1, <2>4, <3>1, <3>2 DEF TypeOK
  <2>6. high \ cut = {}
    BY <1>2, <1>5 DEF Pulsing, isTimerActive, TypeOK
  <2>7. Pulsing'
    BY <1>1, <2>6 DEF Pulsing
  <2>8. NeverMissed'
    BY <1>1, <1>2, <2>1, Numbers DEF NeverMissed, TypeOK
  <2>9. SinceTurn' /\ Stopped'
    BY <2>1, <2>4 DEF SinceTurn, Stopped
  <2> QED BY <1>1, <1>2, <2>5, <2>7, <2>8, <2>9 DEF IInv, Ahead, End, Slot, Words, Commanded
<1> QED BY <1>4, <1>5

LEMMA DetachStep ==
  ASSUME IInv, NEW s \in Channels, detach(s)
  PROVE  IInv'
<1>1. /\ isActive' = [isActive EXCEPT ![s] = FALSE] /\ cut' = cut \cup ({s} \cap high)
      /\ UNCHANGED <<TCNT, OCR, Channel, started, ticks, high, age, pulse, since>>
  BY DEF detach
<1>2. TypeOK /\ NeverMissed /\ Stopped /\ Ahead /\ Pulsing /\ SinceTurn /\ Words
  BY DEF IInv
<1>3. TypeOK'
  BY <1>1, <1>2 DEF TypeOK
<1>4. Pulsing'
  <2> SUFFICES ASSUME NEW t \in high' \ cut'
               PROVE  t = Channel' /\ isActive'[t] /\ OCR' > TCNT' /\ age'[t] + OCR' - TCNT' = pulse'
    BY DEF Pulsing
  <2>1. t \in high \ cut /\ t # s /\ t \in Channels
    BY <1>1, <1>2 DEF TypeOK
  <2>2. isActive'[t] = isActive[t]
    BY <1>1, <1>2, <2>1 DEF TypeOK
  <2> QED BY <1>1, <1>2, <2>1, <2>2 DEF Pulsing
<1> QED BY <1>1, <1>2, <1>3, <1>4
        DEF IInv, NeverMissed, Stopped, Ahead, End, Slot, SinceTurn, Words, Commanded

LEMMA WriteStep ==
  ASSUME IInv, NEW s \in Channels, NEW value \in Degrees, write(s, value)
  PROVE  IInv'
<1>1. /\ ticks' = [ticks EXCEPT ![s] = written(value)]
      /\ UNCHANGED <<TCNT, OCR, Channel, started, isActive, high, age, pulse, since, cut>>
  BY DEF write
<1>2. TypeOK /\ NeverMissed /\ Stopped /\ Ahead /\ Pulsing /\ SinceTurn /\ Words
  BY DEF IInv
<1>3. written(value) \in MinTicks .. MaxTicks /\ written(value) \in Commanded
  BY WrittenInRange, TimerAssumption DEF Commanded
<1>4. TypeOK'
  BY <1>1, <1>2, <1>3 DEF TypeOK
<1>5. Words'
  <2>1. \A t \in Channels : ticks'[t] = ticks[t] \/ ticks'[t] = written(value)
    BY <1>1, <1>2 DEF TypeOK
  <2>2. pulse' \in Commanded /\ \A t \in Channels : ticks'[t] \in Commanded
    BY <1>1, <1>2, <1>3, <2>1 DEF Words
  <2> QED BY <2>2 DEF Words, Commanded
<1> QED BY <1>1, <1>2, <1>4, <1>5
        DEF IInv, NeverMissed, Stopped, Ahead, End, Slot, Pulsing, SinceTurn

LEMMA InitInv == Init => IInv
<1> SUFFICES ASSUME Init PROVE IInv
  OBVIOUS
<1>1. /\ TCNT = 0 /\ OCR = 0 /\ Channel = 0 /\ started = FALSE /\ high = {} /\ cut = {} /\ since = 0
      /\ isActive = [s \in Channels |-> FALSE] /\ age = [s \in Channels |-> 0]
      /\ ticks = [s \in Channels |-> usToTicks(DEFAULT_PULSE_WIDTH)]
      /\ pulse = usToTicks(DEFAULT_PULSE_WIDTH)
  BY DEF Init
<1>2. TypeOK
  <2>1. TCNT \in 0 .. Word - 1 /\ OCR \in 0 .. Word - 1 /\ Channel \in -1 .. ServoCount - 1
    BY <1>1, Numbers, Sizes
  <2>2. age \in [Channels -> 0 .. MaxTicks + Latency + 1] /\ since \in 0 .. Refresh
    BY <1>1, Numbers, Sizes
  <2>3. ticks \in [Channels -> MinTicks .. MaxTicks]
    BY <1>1, Numbers
  <2> QED BY <1>1, <2>1, <2>2, <2>3 DEF TypeOK
<1>3. Ahead
  BY <1>1, SlotsFit, Sizes, Numbers DEF Ahead
<1>4. Words
  BY <1>1 DEF Words, Commanded
<1> QED BY <1>1, <1>2, <1>3, <1>4 DEF IInv, NeverMissed, Stopped, Pulsing, SinceTurn

LEMMA InvStep == IInv /\ [Next]_vars => IInv'
<1> SUFFICES ASSUME IInv, [Next]_vars PROVE IInv'
  OBVIOUS
<1>1. CASE Interrupt
  BY <1>1, InterruptStep DEF Interrupt
<1>2. CASE Sketch
  BY <1>2, AttachStep, DetachStep, WriteStep DEF Sketch
<1>3. CASE UNCHANGED vars
  BY <1>3 DEF vars, history, IInv, TypeOK, NeverMissed, Stopped, Ahead, End, Slot, Pulsing,
              SinceTurn, Words, Commanded
<1> QED BY <1>1, <1>2, <1>3 DEF Next

-----------------------------------------------------------------------------
(***************************************************************************)
(* What the run checks.                                                    *)
(***************************************************************************)
\* The inductive invariant: the compare register stays ahead of the timer and within
\* its width, and a pin that is high goes low when its pulse is over.
THEOREM Invariant == Spec => []IInv
  BY InitInv, InvStep, PTL DEF Spec

\* The types; among them, that every word the interrupt can read is a pulse between
\* the servo's limits, whatever values are written.
THEOREM TypesCorrect == Spec => []TypeOK
<1>1. IInv => TypeOK
  BY DEF IInv
<1> QED BY <1>1, Invariant, PTL

\* However many servos there are and however late its interrupts, the timer never
\* passes the compare register before it has been set, so none of them is missed.
THEOREM NoneMissed == Spec => []NeverMissed
<1>1. IInv => NeverMissed
  BY DEF IInv
<1> QED BY <1>1, Invariant, PTL

\* No two servos are pulsed together, except for pins left high by a detach.
THEOREM OneAtATime == Spec => []OnePulse
<1>1. IInv => OnePulse
  BY DEF IInv, Pulsing, OnePulse
<1> QED BY <1>1, Invariant, PTL

\* Every pulse begun is the default one or one that was written.
THEOREM WholePulses == Spec => []PulsesWhole
<1>1. IInv => PulsesWhole
  BY DEF IInv, Words, Commanded, PulsesWhole
<1> QED BY <1>1, Invariant, PTL

\* A pulse that is not cut ends at the time asked for when it began, whatever is
\* written, attached or detached meanwhile.
THEOREM AsCommanded == Spec => PulseAsCommanded
<1>1. IInv => \A s \in high \ cut : age[s] + Due = pulse
  <2> SUFFICES ASSUME IInv, NEW s \in high \ cut PROVE age[s] + Due = pulse
    OBVIOUS
  <2>1. OCR > TCNT /\ age[s] + OCR - TCNT = pulse
    BY DEF IInv, Pulsing
  <2>2. age[s] \in Int /\ OCR \in Int /\ TCNT \in Int
    BY Numbers DEF IInv, TypeOK
  <2> QED BY <2>1, <2>2 DEF Due
<1>2. IInv /\ [Next]_vars => [\A s \in high \ (high' \cup cut) : age[s] + Due = pulse]_vars
  BY <1>1
<1> QED BY <1>2, Invariant, PTL DEF Spec, PulseAsCommanded

\* However the timer is set up again, a servo has its next turn no sooner than the
\* refresh interval after the last.
THEOREM RefreshKept == Spec => Refreshed
<1>1. IInv /\ Channel = -1 => since + Due >= Refresh
  <2> SUFFICES ASSUME IInv, Channel = -1 PROVE since + Due >= Refresh
    OBVIOUS
  <2>1. /\ OCR >= Refresh /\ OCR \in Nat /\ TCNT \in Nat /\ since \in Nat /\ Refresh \in Nat
        /\ 4 < Refresh /\ (since = Refresh \/ since >= TCNT)
    BY Numbers DEF IInv, TypeOK, Ahead, SinceTurn
  <2>2. started
    BY DEF IInv, Stopped
  <2>3. OCR > TCNT
    BY <2>1, <2>2 DEF IInv, NeverMissed
  <2>4. Due = OCR - TCNT
    BY <2>3 DEF Due
  <2> QED BY <2>1, <2>3, <2>4
<1>2. IInv /\ [Next]_vars => [Channel = -1 /\ Channel' = 0 => since + Due >= Refresh]_vars
  BY <1>1
<1> QED BY <1>2, Invariant, PTL DEF Spec, Refreshed

=============================================================================
