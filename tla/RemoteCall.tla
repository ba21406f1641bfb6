------------------------------ MODULE RemoteCall ------------------------------
(***************************************************************************)
(* What the Bridge promises the sketch: calls to the Linux side, made one  *)
(* at a time, each executed at most once and in order.  A call returns the *)
(* answer to itself or gives up; who has given up cannot tell whose answer *)
(* the next one gets.                                                      *)
(*                                                                         *)
(* There are no frames, retries or lines here: SerialBridge is shown to    *)
(* implement this module.                                                  *)
(***************************************************************************)
EXTENDS Integers, Sequences, SequencesExt

CONSTANTS MaxCalls, Timeout

VARIABLES
  call,       \* calls made; the last is in progress until it has a result
  executed,   \* the calls the Linux side executed, in order
  results     \* what the calls returned

vars == <<call, executed, results>>

GaveUp == Timeout \in ToSet(results)

Call ==
  /\ Len(results) = call /\ call < MaxCalls
  /\ call' = call + 1
  /\ UNCHANGED <<executed, results>>

\* The call in progress, or one that was given up.
Execute ==
  \E c \in 1 .. call :
    /\ \A e \in ToSet(executed) : e < c
    /\ c = call \/ GaveUp
    /\ executed' = Append(executed, c)
    /\ UNCHANGED <<call, results>>

Return ==
  /\ Len(results) < call
  /\ \E c \in ToSet(executed) \cup {Timeout} :
       /\ c \in {call, Timeout} \/ GaveUp
       /\ results' = Append(results, c)
  /\ UNCHANGED <<call, executed>>

Init == call = 0 /\ executed = <<>> /\ results = <<>>

Next == Call \/ Execute \/ Return

\* A call always returns.
Spec == Init /\ [][Next]_vars /\ WF_vars(Return)

=============================================================================
