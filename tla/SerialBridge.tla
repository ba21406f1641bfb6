----------------------------- MODULE SerialBridge -----------------------------
(***************************************************************************)
(* BridgeClass::transfer, the remote calls of the sketch's board over the  *)
(* serial line to its Linux side.  A call is a frame with an index; it is  *)
(* sent again when no good reply with that index comes in time, up to      *)
(* MaxRetries times.  Replies that are late stay on the line.              *)
(*                                                                         *)
(* A frame is a record: what damages its bytes is found by its CRC.  The   *)
(* process on the Linux side is not part of the repository; it executes a  *)
(* frame whose index differs from that of the frame before, and answers    *)
(* one that repeats it as it answered then.                                *)
(***************************************************************************)
EXTENDS Integers, SequencesExt

CONSTANTS
  IndexSize,    \* the index is a byte: 256
  MaxRetries,   \* max_retries, 50 once begin is done
  Timeout,      \* TRANSFER_TIMEOUT
  Long,         \* the calls whose reply does not fit in rxbuff
  MaxCalls,     \* bound: calls made
  MaxFaults     \* bound: frames lost or damaged

ASSUME BridgeAssumption ==
  /\ IndexSize \in Nat /\ IndexSize > 1 /\ MaxRetries \in Nat \ {0}
  /\ Timeout \notin Nat /\ MaxCalls \in Nat /\ MaxFaults \in Nat

VARIABLES
  index, retries,
  pc,         \* where transfer is: "idle", "send" or "wait" (for the reply)
  call,       \* calls made
  results,    \* what they returned
  up, down,   \* frames on the line to the Linux side, and replies
  seen,       \* the Linux side's last frame, none at first
  executed,   \* the calls it executed
  faults,
  calm        \* history: no fault since the call in progress was made

board == <<index, retries, pc, call, results>>
linux == <<seen, executed>>
vars == <<board, up, down, linux, faults, calm>>

-----------------------------------------------------------------------------
(***************************************************************************)
(* The board.                                                              *)
(***************************************************************************)
\* Mutated form of transfer: the retries of the call before count.
transfer_keeps_retries ==
  /\ pc = "idle" /\ call < MaxCalls
  /\ call' = call + 1 /\ UNCHANGED retries
  /\ pc' = "send" /\ calm' = TRUE
  /\ UNCHANGED <<index, results, up, down, linux, faults>>

transfer ==
  /\ pc = "idle" /\ call < MaxCalls
  /\ call' = call + 1 /\ retries' = 0
  /\ pc' = "send" /\ calm' = TRUE
  /\ UNCHANGED <<index, results, up, down, linux, faults>>

Send ==
  /\ pc = "send"
  /\ up' = Append(up, [index |-> index, call |-> call])
  /\ pc' = "wait"
  /\ UNCHANGED <<index, retries, call, results, down, linux, faults, calm>>

\* Mutated form of Good: any reply is taken.
Good_any_index(reply) == reply.ok /\ reply.call \notin Long

\* The index is the frame's, and so is the CRC; of a reply that is too long, the
\* CRC is read from the data.
Good(reply) == reply.ok /\ reply.index = index /\ reply.call \notin Long

\* Mutated form of Received: the index does not come around.
Received_wide_index ==
  /\ pc = "wait" /\ down # <<>>
  /\ Good(Head(down))
  /\ down' = Tail(down)
  /\ index' = index + 1
  /\ results' = Append(results, Head(down).call)
  /\ pc' = "idle"
  /\ UNCHANGED <<retries, call, up, linux, faults, calm>>

Received ==
  /\ pc = "wait" /\ down # <<>>
  /\ Good(Head(down))
  /\ down' = Tail(down)
  /\ index' = (index + 1) % IndexSize
  /\ results' = Append(results, Head(down).call)
  /\ pc' = "idle"
  /\ UNCHANGED <<retries, call, up, linux, faults, calm>>

\* Mutated form of Retry: it never gives up.
Retry_for_ever(replies) ==
  /\ \E n \in 0 .. Len(replies) : down' = SubSeq(replies, n + 1, Len(replies))
  /\ pc' = "send" /\ UNCHANGED <<results, retries>>
  /\ UNCHANGED <<index, call, up, linux>>

\* The next turn of the loop, or its end.  dropAll takes what has arrived.
Retry(replies) ==
  /\ \E n \in 0 .. Len(replies) : down' = SubSeq(replies, n + 1, Len(replies))
  /\ retries' = retries + 1
  /\ IF retries' < MaxRetries THEN pc' = "send" /\ UNCHANGED results
     ELSE pc' = "idle" /\ results' = Append(results, Timeout)
  /\ UNCHANGED <<index, call, up, linux>>

\* A reply that is not good.
Rejected ==
  /\ pc = "wait" /\ down # <<>>
  /\ ~Good(Head(down))
  /\ Retry(Tail(down))
  /\ UNCHANGED <<faults, calm>>

\* timedRead: none comes in time, though it may be on its way.
TimedOut ==
  /\ pc = "wait"
  /\ Retry(down)
  /\ calm' = (calm /\ up = <<>> /\ down = <<>>)
  /\ UNCHANGED faults

-----------------------------------------------------------------------------
(***************************************************************************)
(* The line and the Linux side.                                            *)
(***************************************************************************)
Lose ==
  /\ faults < MaxFaults /\ faults' = faults + 1
  /\ calm' = FALSE
  /\ \/ up # <<>> /\ up' = Tail(up) /\ UNCHANGED down
     \/ /\ down # <<>> /\ UNCHANGED up
        /\ down' \in {Tail(down), [down EXCEPT ![1].ok = FALSE]}
  /\ UNCHANGED <<board, linux>>

Execute ==
  /\ up # <<>>
  /\ up' = Tail(up)
  /\ LET frame == Head(up)
     IN  /\ IF frame.index = seen.index THEN UNCHANGED linux
            ELSE executed' = Append(executed, frame.call) /\ seen' = frame
         /\ down' = Append(down, [index |-> frame.index, call |-> seen'.call, ok |-> TRUE])
  /\ UNCHANGED <<board, faults, calm>>

-----------------------------------------------------------------------------
Init ==
  /\ index = 0 /\ retries = 0 /\ pc = "idle" /\ call = 0 /\ results = <<>>
  /\ up = <<>> /\ down = <<>>
  /\ seen = [index |-> IndexSize, call |-> 0] /\ executed = <<>>
  /\ faults = 0 /\ calm = TRUE

Board == Send \/ Received \/ Rejected \/ TimedOut

Next == transfer \/ Board \/ Execute \/ Lose

\* The board runs transfer and nothing else until it returns.
Spec == Init /\ [][Next]_vars /\ WF_vars(Board)

-----------------------------------------------------------------------------
GaveUp == Timeout \in ToSet(results)

Frame == [index : 0 .. IndexSize - 1, call : 1 .. call]

TypeOK ==
  /\ index \in 0 .. IndexSize - 1
  /\ pc \in {"idle", "send", "wait"}
  /\ retries \in 0 .. MaxRetries /\ (pc # "idle" => retries < MaxRetries)
  /\ call \in 0 .. MaxCalls /\ Len(results) = IF pc = "idle" THEN call ELSE call - 1
  /\ results \in Seq(1 .. call \cup {Timeout})
  /\ up \in Seq(Frame)
  /\ down \in Seq([index : 0 .. IndexSize - 1, call : 1 .. call, ok : BOOLEAN])
  /\ seen \in Frame \cup {[index |-> IndexSize, call |-> 0]}
  /\ executed \in Seq(1 .. call)
  /\ faults \in 0 .. MaxFaults /\ calm \in BOOLEAN

\* The Linux side executes a call at most once, and calls in the order they were
\* made, however often they are sent again.
AtMostOnce == \A m, n \in DOMAIN executed : m < n => executed[m] < executed[n]

\* As long as no call gave up, each returned the answer to itself, though those
\* of earlier ones come twice, late and to indices used again.
OwnAnswer == ~GaveUp => \A n \in DOMAIN results : results[n] = n

\* A call gives up only when the line or the Linux side failed it: the replies
\* earlier retries left on the line cannot use up its own, unless one was given up.
CalmReturns ==
  \A n \in DOMAIN results :
    n = Len(results) /\ pc = "idle" /\ calm /\ n \notin Long
      /\ (\A m \in 1 .. n - 1 : results[m] # Timeout)
    => results[n] # Timeout

\* To the sketch these are remote calls.
Remote == INSTANCE RemoteCall
ImplementsRemoteCall == Remote!Spec

=============================================================================
