------------------------------ MODULE ServoTimer ------------------------------
(***************************************************************************)
(* The Servo library on an AVR board, which Braccio writes to: one 16-bit  *)
(* timer, whose interrupt ends the pulse of one servo and begins that of   *)
(* the next, and after the last waits for the rest of the refresh interval;*)
(* and the calls of the sketch, which change what the interrupt reads.     *)
(*                                                                         *)
(* Time goes from interrupt to interrupt.  An interrupt comes when the     *)
(* timer reaches the compare register, or up to Latency ticks after, and   *)
(* takes no time itself.  Servos keep the limits attach gives by default.  *)
(***************************************************************************)
EXTENDS Integers, FiniteSets

CONSTANTS
  ServoCount,   \* servos constructed
  Degrees,      \* the values written
  Latency       \* ticks for which interrupts may be off

\* Servo.h.  A tick is half a microsecond.
MIN_PULSE_WIDTH     == 544
MAX_PULSE_WIDTH     == 2400
DEFAULT_PULSE_WIDTH == 1500
REFRESH_INTERVAL    == 20000
SERVOS_PER_TIMER    == 12
TRIM_DURATION       == 2
usToTicks(us) == 2 * us

MinTicks == usToTicks(MIN_PULSE_WIDTH - TRIM_DURATION)
MaxTicks == usToTicks(MAX_PULSE_WIDTH - TRIM_DURATION)
Refresh  == usToTicks(REFRESH_INTERVAL)
Word     == 65536

\* The pulses of all the servos fit in the timer's 16 bits.
ASSUME TimerAssumption ==
  /\ ServoCount \in 1 .. SERVOS_PER_TIMER
  /\ Degrees \subseteq Int
  /\ Latency \in Nat
  /\ ServoCount * (MaxTicks + Latency) + 4 + Latency < Word
  /\ Refresh + Latency < Word

Channels == 0 .. ServoCount - 1

VARIABLES
  TCNT,       \* the timer when it was last set or an interrupt came
  OCR,        \* the compare register
  Channel,    \* the servo being pulsed, or -1 in the rest of the interval
  started,    \* the interrupt is enabled
  isActive, ticks,   \* by servo
  high,       \* the servos whose pin is high
  pulse,      \* history: the ticks of the pulse that was begun last
  age,        \* history: by servo, how long its pin has been high at TCNT
  since,      \* history: how long ago servo 0's turn was, at TCNT
  cut         \* history: the servos detached in a pulse

history == <<pulse, since, cut>>
vars == <<TCNT, OCR, Channel, started, isActive, ticks, high, age, history>>

-----------------------------------------------------------------------------
\* C's division, and WMath's map.
Quotient(a, b) == IF a >= 0 THEN a \div b ELSE -((-a) \div b)
map(x, in_min, in_max, out_min, out_max) ==
  Quotient((x - in_min) * (out_max - out_min), in_max - in_min) + out_min

constrain(x, lower, upper) == IF x < lower THEN lower ELSE IF x > upper THEN upper ELSE x

micros(value) ==
  IF value < MIN_PULSE_WIDTH
  THEN map(constrain(value, 0, 180), 0, 180, MIN_PULSE_WIDTH, MAX_PULSE_WIDTH)
  ELSE value

\* The word that write and writeMicroseconds store.
written(value) ==
  usToTicks(constrain(micros(value), MIN_PULSE_WIDTH, MAX_PULSE_WIDTH) - TRIM_DURATION)

-----------------------------------------------------------------------------
(***************************************************************************)
(* The interrupt, late ticks after the compare.                            *)
(***************************************************************************)
\* The ticks until the timer reaches the compare register.
Due == IF OCR > TCNT THEN OCR - TCNT ELSE OCR + Word - TCNT

AtMost(bound, n) == IF n > bound THEN bound ELSE n

\* How long the pins have been high, elapsed ticks later; times beyond the
\* longest pulse are alike.
Aged(elapsed) ==
  [s \in Channels |-> IF s \in high THEN AtMost(MaxTicks + Latency + 1, age[s] + elapsed) ELSE 0]

\* Mutated form of Now: the timer is never reset.
Now_runs_on(late) == (OCR + late) % Word

\* The timer, reset when the interval is over.
Now(late) == IF Channel < 0 THEN 0 ELSE (OCR + late) % Word

\* The pin of the channel that ends goes low, if its servo is still attached.
Ended == {s \in high : s = Channel /\ isActive[s]}

Pulsed(channel) == channel < ServoCount /\ channel < SERVOS_PER_TIMER

\* Mutated form of WaitUntil: the interval is never over yet.
WaitUntil_refresh(now) == Refresh

\* The end of the refresh interval, or a few ticks from now if it is over.
WaitUntil(now) == IF now + 4 < Refresh THEN Refresh ELSE (now + 4) % Word

handle_interrupts(late) ==
  /\ started
  /\ LET now     == Now(late)
         elapsed == Due + late
         next    == Channel + 1
     IN  /\ TCNT' = now
         /\ IF Pulsed(next)
            THEN /\ Channel' = next
                 /\ OCR' = (now + ticks[next]) % Word
                 /\ high' = (high \ Ended) \cup {s \in {next} : isActive[s]}
                 /\ pulse' = ticks[next]
            ELSE /\ Channel' = -1
                 /\ OCR' = WaitUntil(now)
                 /\ high' = high \ Ended
                 /\ UNCHANGED pulse
         /\ age' = [s \in Channels |-> IF s \in high' THEN Aged(elapsed)[s] ELSE 0]
         /\ since' = IF next = 0 THEN 0 ELSE AtMost(Refresh, since + elapsed)
         /\ cut' = cut \ Ended
  /\ UNCHANGED <<started, isActive, ticks>>

-----------------------------------------------------------------------------
(***************************************************************************)
(* The sketch.                                                             *)
(***************************************************************************)
\* Mutated form of isTimerActive: only the first servo is looked at.
isTimerActive_first == isActive[0]

isTimerActive == \E s \in Channels : isActive[s]

\* initISR: the timer starts from zero, whatever it was at.
initISR ==
  /\ started' = TRUE /\ TCNT' = 0
  /\ \E elapsed \in {0, IF started THEN Due ELSE 0} :
       age' = Aged(elapsed) /\ since' = AtMost(Refresh, since + elapsed)

attach(s) ==
  /\ isActive' = [isActive EXCEPT ![s] = TRUE]
  /\ IF isTimerActive THEN UNCHANGED <<TCNT, started, age, since>> ELSE initISR
  /\ UNCHANGED <<OCR, Channel, ticks, high, pulse, cut>>

\* The timer goes on (finISR does nothing here), and a pin that is high stays so.
detach(s) ==
  /\ isActive' = [isActive EXCEPT ![s] = FALSE]
  /\ cut' = cut \cup ({s} \cap high)
  /\ UNCHANGED <<TCNT, OCR, Channel, started, ticks, high, age, pulse, since>>

\* Mutated form of write: an interrupt may come between its two bytes.
write_torn(s, value) ==
  /\ \E t \in {written(value), (written(value) \div 256) * 256 + (ticks[s] % 256)} :
       ticks' = [ticks EXCEPT ![s] = t]
  /\ UNCHANGED <<TCNT, OCR, Channel, started, isActive, high, age, pulse, since, cut>>

\* Interrupts are off while the two bytes are stored.
write(s, value) ==
  /\ ticks' = [ticks EXCEPT ![s] = written(value)]
  /\ UNCHANGED <<TCNT, OCR, Channel, started, isActive, high, age, pulse, since, cut>>

-----------------------------------------------------------------------------
Init ==
  /\ TCNT = 0 /\ OCR = 0 /\ Channel = 0 /\ started = FALSE
  /\ isActive = [s \in Channels |-> FALSE]
  /\ ticks = [s \in Channels |-> usToTicks(DEFAULT_PULSE_WIDTH)]
  /\ high = {} /\ cut = {} /\ age = [s \in Channels |-> 0] /\ since = 0
  /\ pulse = usToTicks(DEFAULT_PULSE_WIDTH)

Interrupt == \E late \in {0, Latency} : handle_interrupts(late)

Sketch == \E s \in Channels :
  attach(s) \/ detach(s) \/ \E value \in Degrees : write(s, value)

Next == Interrupt \/ Sketch

Spec == Init /\ [][Next]_vars

-----------------------------------------------------------------------------
TypeOK ==
  /\ TCNT \in 0 .. Word - 1 /\ OCR \in 0 .. Word - 1
  /\ Channel \in -1 .. ServoCount - 1 /\ started \in BOOLEAN
  /\ isActive \in [Channels -> BOOLEAN]
  /\ ticks \in [Channels -> MinTicks .. MaxTicks]
  /\ high \subseteq Channels /\ cut \subseteq Channels
  /\ age \in [Channels -> 0 .. MaxTicks + Latency + 1]
  /\ since \in 0 .. Refresh

\* Only the pin of the channel is high: no two servos are pulsed together, except
\* for pins that were left high by detaching their servo in a pulse.
OnePulse == high \subseteq {Channel} \cup cut

\* A pulse ends at the time that was asked for when it began, or with the first
\* interrupt after it, whatever is written, attached or detached meanwhile: setting
\* up the timer for one servo spoils no pulse of another.
PulseAsCommanded == [][\A s \in high \ (high' \cup cut) : age[s] + Due = pulse]_vars

\* Every pulse begun is one that was asked for: no interrupt reads a word of which
\* only half has been written.
PulsesWhole == pulse \in {usToTicks(DEFAULT_PULSE_WIDTH)} \cup {written(value) : value \in Degrees}

\* The compare register is ahead of the timer when it has been set: no interrupt
\* is missed until the timer comes around, except before the first one.
NeverMissed == started => OCR > TCNT \/ (OCR = 0 /\ TCNT = 0)

\* Servo 0 has its turn, and the others after it, no sooner than the refresh
\* interval after the turn before, whenever the timer is set up again.
Refreshed == [][Channel = -1 /\ Channel' = 0 => since + Due >= Refresh]_vars

=============================================================================
