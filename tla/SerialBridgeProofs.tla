-------------------------- MODULE SerialBridgeProofs --------------------------
(***************************************************************************)
(* What the retries of BridgeClass::transfer guarantee, for any size of    *)
(* the index, any number of retries and calls, and any faults.             *)
(*                                                                         *)
(* The line keeps frames and replies in their order, so the calls of those *)
(* on their way up never go back, from the one the Linux side saw last on  *)
(* (InOrder).  As long as no call has given up, only the call in progress  *)
(* and the one before it can be on the line (Recent), which an index of    *)
(* two values tells apart, and each retry of a call leaves at most one     *)
(* reply too many (Retried).                                               *)
(***************************************************************************)
EXTENDS SerialBridge, SequenceTheorems, TLAPS

Calls(s, low, high) ==
  /\ \A n \in 1 .. Len(s) : low <= s[n].call /\ s[n].call <= high
  /\ \A m, n \in 1 .. Len(s) : m <= n => s[m].call <= s[n].call

\* Frames go to the Linux side in the order of their calls, each call with one index.
InOrder ==
  /\ Calls(up, seen.call, call)
  /\ \A m, n \in 1 .. Len(up) : up[m].call = up[n].call => up[m].index = up[n].index
  /\ \A n \in 1 .. Len(up) :
       /\ up[n].call = seen.call => up[n].index = seen.index
       /\ up[n].call = call /\ pc # "idle" => up[n].index = index
  /\ seen.call <= call
  /\ seen.call = call /\ pc # "idle" => seen.index = index

\* The last call executed is that of the frame seen last; answered calls were executed.
LastExecuted ==
  /\ executed = <<>> => seen.call = 0
  /\ executed # <<>> => executed[Len(executed)] = seen.call
  /\ \A n \in 1 .. Len(down) : \E m \in 1 .. Len(executed) : executed[m] = down[n].call

\* Of the last call to return, or of the one after it, which has index i.
Fits(e, last, i) ==
  /\ e.call = last \/ e.call = last + 1
  /\ e.call = last + 1 => e.index = i
  /\ e.call = last /\ e.call # 0 => (e.index + 1) % IndexSize = i

Recent ==
  /\ \A n \in 1 .. Len(results) : results[n] = n
  /\ Fits(seen, Len(results), index)
  /\ \A n \in 1 .. Len(up) : Fits(up[n], Len(results), index)
  /\ \A n \in 1 .. Len(down) : Fits(down[n], Len(results), index)
  /\ Calls(down, Len(results), seen.call)

NoTimeout == \A n \in 1 .. Len(results) : results[n] # Timeout

IInv == TypeOK /\ InOrder /\ AtMostOnce /\ LastExecuted /\ (NoTimeout => Recent)

-----------------------------------------------------------------------------
(***************************************************************************)
(* Sequences, and the index.                                               *)
(***************************************************************************)
\* What is left of a sequence when its first k elements are taken.
Rest(t, s, k) == /\ k \in 0 .. Len(s) /\ Len(t) = Len(s) - k
                 /\ \A n \in 1 .. Len(t) : t[n] = s[n + k]

LEMMA TailIsRest ==
  ASSUME NEW S, NEW s \in Seq(S), s # <<>>
  PROVE  Tail(s) \in Seq(S) /\ Head(s) = s[1] /\ Head(s) \in S /\ Rest(Tail(s), s, 1)
         /\ Len(s) \in Nat \ {0}
  BY HeadTailProperties, ElementOfSeq DEF Rest

LEMMA SubSeqIsRest ==
  ASSUME NEW S, NEW s \in Seq(S), NEW k \in 0 .. Len(s)
  PROVE  SubSeq(s, k + 1, Len(s)) \in Seq(S) /\ Rest(SubSeq(s, k + 1, Len(s)), s, k)
  BY SubSeqProperties, LenProperties, SMT DEF Rest

LEMMA RestOfRest ==
  ASSUME NEW S, NEW s \in Seq(S), NEW t, NEW u, NEW k, NEW j, Rest(t, s, k), Rest(u, t, j)
  PROVE  Rest(u, s, j + k)
  BY LenProperties, SMT DEF Rest

\* The index of the next call differs from that of this one.
LEMMA NextIndex ==
  ASSUME NEW x \in 0 .. IndexSize - 1
  PROVE  (x + 1) % IndexSize \in 0 .. IndexSize - 1 /\ (x + 1) % IndexSize # x
<1>1. IndexSize \in Nat /\ IndexSize > 1
  BY BridgeAssumption
<1>2. \A n, k \in Int : 0 <= k /\ k < n => k % n = k
  BY SMT
<1>3. \A n \in Nat \ {0} : n % n = 0
  BY SMT
<1>4. CASE x + 1 = IndexSize
  BY <1>1, <1>3, <1>4
<1>5. CASE x + 1 < IndexSize
  BY <1>1, <1>2, <1>5
<1> QED BY <1>1, <1>4, <1>5

\* The calls of what is left of a sequence are in the same order.
LEMMA RestOfCalls ==
  ASSUME NEW S, NEW s \in Seq(S), NEW t, NEW k, Rest(t, s, k),
         NEW low, NEW high, Calls(s, low, high)
  PROVE  Calls(t, low, high)
<1>1. Len(s) \in Nat /\ Len(t) \in Nat /\ k \in Nat
  BY LenProperties DEF Rest
<1>2. \A n \in 1 .. Len(t) : n + k \in 1 .. Len(s) /\ t[n] = s[n + k]
  BY <1>1 DEF Rest
<1>3. ASSUME NEW n \in 1 .. Len(t)
      PROVE  low <= t[n].call /\ t[n].call <= high
  BY <1>2 DEF Calls
<1>4. ASSUME NEW m \in 1 .. Len(t), NEW n \in 1 .. Len(t), m <= n
      PROVE  t[m].call <= t[n].call
  <2>1. m + k \in 1 .. Len(s) /\ n + k \in 1 .. Len(s) /\ m + k <= n + k
    BY <1>1, <1>2, <1>4
  <2>2. s[m + k].call <= s[n + k].call
    BY <2>1 DEF Calls
  <2> QED BY <1>2, <2>2
<1> QED BY <1>3, <1>4 DEF Calls

-----------------------------------------------------------------------------
(***************************************************************************)
(* Types.                                                                  *)
(***************************************************************************)
Reply == [index : 0 .. IndexSize - 1, call : 1 .. call, ok : BOOLEAN]

\* What transfer does when no good reply came: replies are what is left of down.
LEMMA RetryTypes ==
  ASSUME TypeOK, pc = "wait", NEW replies \in Seq(Reply), Retry(replies)
  PROVE  /\ down' \in Seq(Reply) /\ \E k \in 0 .. Len(replies) : Rest(down', replies, k)
         /\ pc' \in {"send", "idle"} /\ retries' \in 0 .. MaxRetries
         /\ pc' = "send" => retries' < MaxRetries /\ results' = results
         /\ pc' = "idle" => results' = Append(results, Timeout)
         /\ results' \in Seq(1 .. call \cup {Timeout})
         /\ Len(results') = IF pc' = "idle" THEN call ELSE call - 1
         /\ UNCHANGED <<index, call, up, linux>>
<1>1. PICK n \in 0 .. Len(replies) : down' = SubSeq(replies, n + 1, Len(replies))
  BY DEF Retry
<1>2. down' \in Seq(Reply) /\ Rest(down', replies, n)
  BY <1>1, SubSeqIsRest
<1>3. /\ retries' = retries + 1 /\ retries < MaxRetries /\ retries \in Nat
      /\ MaxRetries \in Nat
  BY BridgeAssumption DEF Retry, TypeOK
<1>4. UNCHANGED <<index, call, up, linux>>
  BY DEF Retry
<1>5. results \in Seq(1 .. call \cup {Timeout}) /\ Len(results) = call - 1 /\ call \in Nat
  BY DEF TypeOK
<1>6. CASE retries' < MaxRetries
  <2>1. pc' = "send" /\ results' = results
    BY <1>6 DEF Retry
  <2> QED BY <1>2, <1>3, <1>4, <1>5, <1>6, <2>1
<1>7. CASE ~(retries' < MaxRetries)
  <2>1. pc' = "idle" /\ results' = Append(results, Timeout)
    BY <1>7 DEF Retry
  <2>2. results' \in Seq(1 .. call \cup {Timeout}) /\ Len(results') = Len(results) + 1
    BY <1>5, <2>1, AppendProperties
  <2> QED BY <1>2, <1>3, <1>4, <1>5, <1>7, <2>1, <2>2
<1> QED BY <1>6, <1>7

LEMMA InitType == Init => TypeOK
<1> SUFFICES ASSUME Init PROVE TypeOK
  OBVIOUS
<1>1. \A S : <<>> \in Seq(S) /\ Len(<<>>) = 0
  BY EmptySeq
<1> QED BY <1>1, BridgeAssumption DEF Init, TypeOK, Frame

LEMMA TypeStep ==
  ASSUME TypeOK, [Next]_vars
  PROVE  TypeOK'
<1> USE DEF Frame, Reply
<1>0. /\ IndexSize \in Nat /\ IndexSize > 1 /\ call \in 0 .. MaxCalls /\ MaxCalls \in Nat
      /\ MaxRetries \in Nat \ {0} /\ faults \in 0 .. MaxFaults /\ MaxFaults \in Nat
      /\ calm \in BOOLEAN
  BY BridgeAssumption DEF TypeOK
<1>1. CASE transfer
  <2>1. call' = call + 1 /\ call' \in 0 .. MaxCalls
    BY <1>0, <1>1 DEF transfer
  <2>2. /\ results \in Seq(1 .. call' \cup {Timeout})
        /\ up \in Seq([index : 0 .. IndexSize - 1, call : 1 .. call'])
        /\ down \in Seq([index : 0 .. IndexSize - 1, call : 1 .. call', ok : BOOLEAN])
        /\ executed \in Seq(1 .. call')
    <3>1. 1 .. call \subseteq 1 .. call' /\ 1 .. call \cup {Timeout} \subseteq 1 .. call' \cup {Timeout}
      BY <1>0, <2>1
    <3>2. /\ Frame \subseteq [index : 0 .. IndexSize - 1, call : 1 .. call']
          /\ Reply \subseteq [index : 0 .. IndexSize - 1, call : 1 .. call', ok : BOOLEAN]
      BY <3>1
    <3> QED BY <3>1, <3>2, SeqMonotonic DEF TypeOK
  <2>3. seen \in [index : 0 .. IndexSize - 1, call : 1 .. call'] \cup {[index |-> IndexSize, call |-> 0]}
    BY <1>0, <2>1 DEF TypeOK
  <2> QED BY <1>0, <1>1, <2>1, <2>2, <2>3 DEF transfer, TypeOK, linux
<1>2. CASE Send
  <2>1. up' \in Seq(Frame)
    <3>1. [index |-> index, call |-> call] \in Frame
      BY <1>0, <1>2 DEF Send, TypeOK
    <3> QED BY <1>2, <3>1, AppendProperties DEF Send, TypeOK
  <2> QED BY <1>0, <1>2, <2>1 DEF Send, TypeOK, linux
<1>3. CASE Received
  <2>1. /\ down' \in Seq(Reply) /\ Head(down) \in Reply
    BY <1>3, TailIsRest DEF Received, TypeOK
  <2>2. index' \in 0 .. IndexSize - 1
    BY <1>3, NextIndex DEF Received, TypeOK
  <2>3. /\ results' \in Seq(1 .. call \cup {Timeout}) /\ Len(results') = Len(results) + 1
    <3>1. Head(down).call \in 1 .. call \cup {Timeout}
      BY <2>1
    <3> QED BY <1>3, <3>1, AppendProperties DEF Received, TypeOK
  <2> QED BY <1>0, <1>3, <2>1, <2>2, <2>3 DEF Received, TypeOK, linux
<1>4. CASE Rejected
  <2>1. Tail(down) \in Seq(Reply)
    BY <1>4, TailIsRest DEF Rejected, TypeOK
  <2>2. Retry(Tail(down)) /\ pc = "wait" /\ UNCHANGED <<faults, calm>>
    BY <1>4 DEF Rejected
  <2> HIDE DEF Reply
  <2>3. /\ down' \in Seq(Reply)
        /\ pc' \in {"send", "idle"} /\ retries' \in 0 .. MaxRetries
        /\ pc' = "send" => retries' < MaxRetries
        /\ results' \in Seq(1 .. call \cup {Timeout})
        /\ Len(results') = IF pc' = "idle" THEN call ELSE call - 1
        /\ UNCHANGED <<index, call, up, linux>>
    BY <2>1, <2>2, RetryTypes
  <2> QED BY <1>0, <2>2, <2>3 DEF TypeOK, linux, Reply
<1>5. CASE TimedOut
  <2>1. down \in Seq(Reply)
    BY DEF TypeOK
  <2>2. Retry(down) /\ pc = "wait" /\ UNCHANGED faults /\ calm' \in BOOLEAN
    BY <1>0, <1>5 DEF TimedOut
  <2> HIDE DEF Reply
  <2>3. /\ down' \in Seq(Reply)
        /\ pc' \in {"send", "idle"} /\ retries' \in 0 .. MaxRetries
        /\ pc' = "send" => retries' < MaxRetries
        /\ results' \in Seq(1 .. call \cup {Timeout})
        /\ Len(results') = IF pc' = "idle" THEN call ELSE call - 1
        /\ UNCHANGED <<index, call, up, linux>>
    BY <2>1, <2>2, RetryTypes
  <2> QED BY <1>0, <2>2, <2>3 DEF TypeOK, linux, Reply
<1>6. CASE Execute
  <2>1. up' \in Seq(Frame) /\ Head(up) \in Frame
    BY <1>6, TailIsRest DEF Execute, TypeOK
  <2>2. seen' \in Frame /\ executed' \in Seq(1 .. call)
    <3>1. CASE Head(up).index = seen.index
      <4>1. seen' = seen /\ executed' = executed
        BY <1>6, <3>1 DEF Execute, linux
      <4>2. seen # [index |-> IndexSize, call |-> 0]
        BY <1>0, <2>1, <3>1
      <4> QED BY <4>1, <4>2 DEF TypeOK
    <3>2. CASE Head(up).index # seen.index
      <4>1. seen' = Head(up) /\ executed' = Append(executed, Head(up).call)
        BY <1>6, <3>2 DEF Execute
      <4>2. Head(up).call \in 1 .. call
        BY <2>1
      <4> QED BY <2>1, <4>1, <4>2, AppendProperties DEF TypeOK
    <3> QED BY <3>1, <3>2
  <2>3. down' \in Seq(Reply)
    <3>1. [index |-> Head(up).index, call |-> seen'.call, ok |-> TRUE] \in Reply
      BY <2>1, <2>2
    <3>2. down' = Append(down, [index |-> Head(up).index, call |-> seen'.call, ok |-> TRUE])
      BY <1>6 DEF Execute
    <3> QED BY <3>1, <3>2, AppendProperties DEF TypeOK
  <2> QED BY <1>0, <1>6, <2>1, <2>2, <2>3 DEF Execute, TypeOK, board
<1>7. CASE Lose
  <2>1. up \in Seq(Frame) /\ down \in Seq(Reply)
    BY DEF TypeOK
  <2>2. \A reply \in Reply : [reply EXCEPT !.ok = FALSE] \in Reply
    OBVIOUS
  <2> HIDE DEF Frame, Reply
  <2>3. up' \in Seq(Frame)
    <3>1. up' = up \/ (up # <<>> /\ up' = Tail(up))
      BY <1>7 DEF Lose
    <3> QED BY <2>1, <3>1, TailIsRest
  <2>4. down' \in Seq(Reply)
    <3>1. CASE down # <<>>
      <4>1. /\ Tail(down) \in Seq(Reply) /\ 1 \in 1 .. Len(down)
        BY <2>1, <3>1, TailIsRest
      <4>2. [down[1] EXCEPT !.ok = FALSE] \in Reply
        BY <2>1, <2>2, <4>1, ElementOfSeq
      <4>3. [down EXCEPT ![1] = [down[1] EXCEPT !.ok = FALSE]] \in Seq(Reply)
        BY <2>1, <4>1, <4>2, ExceptSeq
      <4> QED BY <1>7, <2>1, <4>1, <4>3 DEF Lose
    <3>2. CASE down = <<>>
      BY <1>7, <2>1, <3>2 DEF Lose
    <3> QED BY <3>1, <3>2
  <2>5. UNCHANGED <<index, retries, pc, call, results, seen, executed>>
    BY <1>7 DEF Lose, board, linux
  <2>6. faults' \in 0 .. MaxFaults /\ calm' \in BOOLEAN
    <3>1. faults < MaxFaults /\ faults' = faults + 1
      BY <1>7 DEF Lose
    <3>2. faults' \in 0 .. MaxFaults
      BY <1>0, <3>1
    <3>3. calm' = FALSE
      BY <1>7 DEF Lose
    <3> QED BY <3>2, <3>3
  <2> QED BY <2>3, <2>4, <2>5, <2>6 DEF TypeOK, Frame, Reply
<1>8. CASE UNCHANGED vars
  BY <1>8 DEF vars, board, linux, TypeOK
<1> QED BY <1>1, <1>2, <1>3, <1>4, <1>5, <1>6, <1>7, <1>8 DEF Next, Board

-----------------------------------------------------------------------------
(***************************************************************************)
(* Frames on their way to the Linux side.                                  *)
(***************************************************************************)
\* What InOrder, Recent and LastExecuted need of the types.
LEMMA Typed ==
  ASSUME TypeOK
  PROVE  /\ up \in Seq(Frame) /\ down \in Seq(Reply)
         /\ Len(up) \in Nat /\ Len(down) \in Nat /\ Len(results) \in Nat /\ Len(executed) \in Nat
         /\ \A n \in 1 .. Len(up) : up[n] \in Frame
         /\ \A n \in 1 .. Len(down) : down[n] \in Reply
         /\ \A n \in 1 .. Len(executed) : executed[n] \in 1 .. call
         /\ call \in Nat /\ seen.call \in 0 .. call /\ index \in 0 .. IndexSize - 1
         /\ IndexSize \in Nat /\ IndexSize > 1
         /\ seen.call = 0 => seen.index = IndexSize
         /\ seen.call # 0 => seen \in Frame
<1>1. up \in Seq(Frame) /\ down \in Seq(Reply)
  BY DEF TypeOK, Reply
<1>2. executed \in Seq(1 .. call) /\ results \in Seq(1 .. call \cup {Timeout})
  BY DEF TypeOK
<1>3. /\ Len(up) \in Nat /\ Len(down) \in Nat /\ Len(results) \in Nat /\ Len(executed) \in Nat
      /\ \A n \in 1 .. Len(up) : up[n] \in Frame
      /\ \A n \in 1 .. Len(down) : down[n] \in Reply
      /\ \A n \in 1 .. Len(executed) : executed[n] \in 1 .. call
  BY <1>1, <1>2, LenProperties, ElementOfSeq
<1>4. call \in Nat /\ index \in 0 .. IndexSize - 1 /\ IndexSize \in Nat /\ IndexSize > 1
  BY BridgeAssumption DEF TypeOK
<1>5. CASE seen \in Frame
  BY <1>1, <1>3, <1>4, <1>5 DEF Frame
<1>6. CASE seen = [index |-> IndexSize, call |-> 0]
  BY <1>1, <1>3, <1>4, <1>6
<1> QED BY <1>5, <1>6 DEF TypeOK

\* The calls of the frames and replies are numbers.
LEMMA CallNumbers ==
  ASSUME TypeOK
  PROVE  /\ \A n \in 1 .. Len(up) : up[n].call \in Nat
         /\ \A n \in 1 .. Len(down) : down[n].call \in Nat
<1>1. \A frame \in Frame : frame.call \in Nat
  BY SMT DEF Frame
<1>2. \A reply \in Reply : reply.call \in Nat
  BY SMT DEF Reply
<1> QED BY ONLY <1>1, <1>2, TypeOK, Typed

\* Where what is left of a sequence was in it.
LEMMA RestElements ==
  ASSUME NEW s, NEW t, NEW k, Rest(t, s, k), Len(s) \in Nat
  PROVE  \A n \in 1 .. Len(t) : n + k \in 1 .. Len(s) /\ t[n] = s[n + k] /\ k <= n + k
  BY SMT DEF Rest

\* InOrder of what is left of the line.
LEMMA RestInOrder ==
  ASSUME TypeOK, InOrder, NEW k, Rest(up', up, k),
         UNCHANGED <<seen, call, index>>, pc' # "idle" => pc # "idle"
  PROVE  InOrder'
<1>0. Len(up) \in Nat
  BY Typed
<1>1. \A n \in 1 .. Len(up') : n + k \in 1 .. Len(up) /\ up'[n] = up[n + k]
  BY <1>0, RestElements
<1>2. Calls(up', seen.call, call)
  BY Typed, RestOfCalls DEF InOrder
<1>3. ASSUME NEW m \in 1 .. Len(up'), NEW n \in 1 .. Len(up'), up'[m].call = up'[n].call
      PROVE  up'[m].index = up'[n].index
  <2>1. \A i, j \in 1 .. Len(up) : up[i].call = up[j].call => up[i].index = up[j].index
    BY DEF InOrder
  <2> QED BY ONLY <1>1, <1>3, <2>1
<1>4. \A n \in 1 .. Len(up') :
        /\ up'[n].call = seen.call => up'[n].index = seen.index
        /\ up'[n].call = call /\ pc # "idle" => up'[n].index = index
  BY <1>1 DEF InOrder
<1>5. /\ seen.call <= call
      /\ seen.call = call /\ pc # "idle" => seen.index = index
  BY DEF InOrder
<1> QED BY <1>2, <1>3, <1>4, <1>5 DEF InOrder, Calls

LEMMA NothingTaken ==
  ASSUME NEW S, NEW s \in Seq(S)
  PROVE  Rest(s, s, 0)
  BY LenProperties, SMT DEF Rest

LEMMA InOrderStep ==
  ASSUME TypeOK, InOrder, [Next]_vars
  PROVE  InOrder'
<1> USE Typed
<1>1. CASE transfer
  <2>1. /\ call' = call + 1 /\ UNCHANGED <<seen, index, up>>
    BY <1>1 DEF transfer, linux
  <2>2. /\ \A n \in 1 .. Len(up) : seen.call <= up[n].call /\ up[n].call <= call
        /\ \A m, n \in 1 .. Len(up) : m <= n => up[m].call <= up[n].call
        /\ \A n \in 1 .. Len(up) : up[n].call \in Nat
    BY CallNumbers DEF InOrder, Calls
  <2>3. Calls(up, seen.call, call')
    <3>1. ASSUME NEW n \in 1 .. Len(up) PROVE up[n].call <= call'
      <4>1. up[n].call <= call /\ up[n].call \in Nat
        BY <2>2
      <4>2. call \in Nat /\ call' = call + 1
        BY <2>1
      <4> QED BY ONLY <4>1, <4>2, SMT
    <3> QED BY <2>2, <3>1 DEF Calls
  <2>4. \A n \in 1 .. Len(up) : up[n].call # call'
    BY <2>1, <2>2
  <2> QED BY <2>1, <2>3, <2>4 DEF InOrder, Calls
<1>2. CASE Send
  <2> DEFINE frame == [index |-> index, call |-> call]
  <2>1. up' = Append(up, frame) /\ UNCHANGED <<seen, index, call>> /\ pc # "idle"
    BY <1>2 DEF Send, linux
  <2>2. frame \in Frame
    <3>1. call >= 1
      BY <1>2 DEF Send, TypeOK
    <3> QED BY <3>1 DEF Frame
  <2>3. /\ Len(up') = Len(up) + 1 /\ up'[Len(up) + 1] = frame
        /\ \A n \in 1 .. Len(up) : up'[n] = up[n]
    BY <2>1, <2>2, AppendProperties
  <2>4. \A n \in 1 .. Len(up') : n \in 1 .. Len(up) \/ n = Len(up) + 1
    BY <2>3
  <2>5. frame.call = call /\ frame.index = index
    OBVIOUS
  <2> HIDE DEF frame
  <2>6. Calls(up', seen.call, call)
    <3>1. \A n \in 1 .. Len(up') : seen.call <= up'[n].call /\ up'[n].call <= call
      BY <2>3, <2>4, <2>5 DEF InOrder, Calls
    <3>2. ASSUME NEW m \in 1 .. Len(up'), NEW n \in 1 .. Len(up'), m <= n
          PROVE  up'[m].call <= up'[n].call
      <4>1. CASE n = Len(up) + 1
        BY <2>3, <2>5, <3>1, <4>1
      <4>2. CASE n \in 1 .. Len(up)
        <5>1. m \in 1 .. Len(up)
          BY <3>2, <4>2
        <5> QED BY <2>3, <3>2, <4>2, <5>1 DEF InOrder, Calls
      <4> QED BY <2>4, <4>1, <4>2
    <3> QED BY <3>1, <3>2 DEF Calls
  <2>7. \A n \in 1 .. Len(up') : up'[n].call = call => up'[n].index = index
    BY <2>1, <2>3, <2>4, <2>5 DEF InOrder
  <2>8. \A m, n \in 1 .. Len(up') : up'[m].call = up'[n].call => up'[m].index = up'[n].index
    <3>1. ASSUME NEW m \in 1 .. Len(up'), NEW n \in 1 .. Len(up'), up'[m].call = up'[n].call
          PROVE  up'[m].index = up'[n].index
      <4>1. CASE m \in 1 .. Len(up) /\ n \in 1 .. Len(up)
        BY <2>3, <3>1, <4>1 DEF InOrder
      <4>2. CASE m = Len(up) + 1 \/ n = Len(up) + 1
        <5>1. up'[m].call = call /\ up'[n].call = call
          BY <2>3, <2>5, <3>1, <4>2
        <5> QED BY <2>7, <5>1
      <4> QED BY <2>4, <4>1, <4>2
    <3> QED BY <3>1
  <2>9. \A n \in 1 .. Len(up') : up'[n].call = seen.call => up'[n].index = seen.index
    BY <2>1, <2>3, <2>4, <2>5 DEF InOrder
  <2> QED BY <2>1, <2>6, <2>7, <2>8, <2>9 DEF InOrder, Calls
<1>3. CASE Received
  BY <1>3 DEF Received, linux, InOrder, Calls
<1>4. CASE Rejected \/ TimedOut
  <2>1. UNCHANGED <<index, call, up, seen>> /\ pc = "wait"
    BY <1>4 DEF Rejected, TimedOut, Retry, linux
  <2> QED BY <2>1, NothingTaken, RestInOrder
<1>5. CASE Execute
  <2> DEFINE frame == Head(up)
  <2>1. /\ frame = up[1] /\ frame \in Frame /\ Rest(up', up, 1) /\ 1 \in 1 .. Len(up)
        /\ UNCHANGED <<index, call, pc>>
    BY <1>5, TailIsRest DEF Execute, board
  <2>2. CASE frame.index = seen.index
    <3>1. seen' = seen
      BY <1>5, <2>2 DEF Execute, linux
    <3> QED BY <2>1, <3>1, RestInOrder
  <2>3. CASE frame.index # seen.index
    <3>1. seen' = frame
      BY <1>5, <2>3 DEF Execute
    <3> HIDE DEF frame
    <3>2. \A n \in 1 .. Len(up') : n + 1 \in 1 .. Len(up) /\ up'[n] = up[n + 1] /\ 1 <= n + 1
      BY <2>1, RestElements
    <3>0. /\ \A m, n \in 1 .. Len(up) : up[m].call = up[n].call => up[m].index = up[n].index
          /\ \A n \in 1 .. Len(up) : up[n].call = call /\ pc # "idle" => up[n].index = index
      BY DEF InOrder
    <3>3. Calls(up', frame.call, call)
      <4>1. \A n \in 1 .. Len(up') : up'[n].call <= call
        BY <3>2 DEF InOrder, Calls
      <4>2. \A n \in 1 .. Len(up') : frame.call <= up'[n].call
        BY <2>1, <3>2 DEF InOrder, Calls
      <4>3. Calls(up', seen.call, call)
        BY <2>1, RestOfCalls DEF InOrder
      <4> QED BY <4>1, <4>2, <4>3 DEF Calls
    <3>4. ASSUME NEW m \in 1 .. Len(up'), NEW n \in 1 .. Len(up'), up'[m].call = up'[n].call
          PROVE  up'[m].index = up'[n].index
      BY ONLY <3>0, <3>2, <3>4
    <3>5. \A n \in 1 .. Len(up') : up'[n].call = frame.call => up'[n].index = frame.index
      <4>1. frame = up[1] /\ 1 \in 1 .. Len(up)
        BY <2>1
      <4> QED BY ONLY <3>0, <3>2, <4>1
    <3>6. \A n \in 1 .. Len(up') : up'[n].call = call /\ pc # "idle" => up'[n].index = index
      BY ONLY <3>0, <3>2
    <3>7. /\ frame.call <= call
          /\ frame.call = call /\ pc # "idle" => frame.index = index
      BY <2>1 DEF InOrder, Calls
    <3> QED BY <2>1, <3>1, <3>3, <3>4, <3>5, <3>6, <3>7 DEF InOrder, Calls
  <2> QED BY <2>2, <2>3
<1>6. CASE Lose
  <2>1. UNCHANGED <<index, call, pc, seen>>
    BY <1>6 DEF Lose, board, linux
  <2>2. up' = up \/ (up # <<>> /\ up' = Tail(up))
    BY <1>6 DEF Lose
  <2>3. \E k : Rest(up', up, k)
    <3>1. up \in Seq(Frame)
      OBVIOUS
    <3>2. CASE up' = up
      BY <3>1, <3>2, NothingTaken
    <3>3. CASE up # <<>> /\ up' = Tail(up)
      BY <3>1, <3>3, TailIsRest
    <3> QED BY <2>2, <3>2, <3>3
  <2> QED BY <2>1, <2>3, RestInOrder
<1>7. CASE UNCHANGED vars
  BY <1>7 DEF vars, board, linux, InOrder, Calls
<1> QED BY <1>1, <1>2, <1>3, <1>4, <1>5, <1>6, <1>7 DEF Next, Board

-----------------------------------------------------------------------------
(***************************************************************************)
(* Replies on their way to the board.                                      *)
(***************************************************************************)
\* A damaged reply is of the same call and has the same index.
LEMMA Damaged ==
  ASSUME TypeOK, down # <<>>, down' = [down EXCEPT ![1].ok = FALSE]
  PROVE  /\ Len(down') = Len(down)
         /\ \A n \in 1 .. Len(down) :
              down'[n].call = down[n].call /\ down'[n].index = down[n].index
<1>1. /\ down \in Seq(Reply) /\ DOMAIN down = 1 .. Len(down) /\ Len(down) \in Nat
      /\ \A n \in 1 .. Len(down) : down[n] \in Reply
  BY Typed, LenProperties
<1>2. /\ DOMAIN down' = 1 .. Len(down)
      /\ \A n \in 1 .. Len(down) :
           down'[n] = IF n = 1 THEN [down[1] EXCEPT !.ok = FALSE] ELSE down[n]
  BY <1>1
<1>3. \A r \in Reply : [r EXCEPT !.ok = FALSE].call = r.call
                       /\ [r EXCEPT !.ok = FALSE].index = r.index
  BY DEF Reply
<1>4. [down[1] EXCEPT !.ok = FALSE] \in Reply
  <2>1. 1 \in 1 .. Len(down)
    BY <1>1, TailIsRest
  <2>2. down[1] \in Reply
    BY <1>1, <2>1
  <2> QED BY <2>2 DEF Reply
<1>5. Len(down') = Len(down)
  <2>1. 1 \in 1 .. Len(down)
    BY <1>1, TailIsRest
  <2>2. [down EXCEPT ![1] = [down[1] EXCEPT !.ok = FALSE]] \in Seq(Reply)
        /\ Len([down EXCEPT ![1] = [down[1] EXCEPT !.ok = FALSE]]) = Len(down)
    BY <1>1, <1>4, <2>1, ExceptSeq
  <2> QED BY <2>2
<1> QED BY <1>1, <1>2, <1>3, <1>5

\* After a reply that is not good, what is left is part of what was on the line.
LEMMA RejectedRest ==
  ASSUME TypeOK, Rejected
  PROVE  \E k : Rest(down', down, k)
<1>0. down \in Seq(Reply)
  BY Typed
<1>1. Tail(down) \in Seq(Reply) /\ Rest(Tail(down), down, 1)
  BY <1>0, TailIsRest DEF Rejected
<1>2. PICK k : Rest(down', Tail(down), k)
  BY <1>1, RetryTypes DEF Rejected
<1>3. Rest(down', down, k + 1)
  BY <1>0, <1>1, <1>2, RestOfRest
<1> QED BY <1>3

\* What may change of the replies on the line.
LEMMA Downs ==
  ASSUME TypeOK, [Next]_vars
  PROVE  \/ UNCHANGED down
         \/ \E k : Rest(down', down, k)
         \/ Execute
         \/ down # <<>> /\ down' = [down EXCEPT ![1].ok = FALSE]
<1>0. down \in Seq(Reply)
  BY Typed
<1>1. CASE transfer \/ Send \/ UNCHANGED vars
  BY <1>1 DEF transfer, Send, vars
<1>2. CASE Received
  BY <1>0, <1>2, TailIsRest DEF Received
<1>3. CASE Rejected
  BY <1>3, RejectedRest
<1>4. CASE TimedOut
  BY <1>0, <1>4, RetryTypes DEF TimedOut
<1>5. CASE Lose
  <2>1. CASE down' = Tail(down) /\ down # <<>>
    BY <1>0, <2>1, TailIsRest
  <2> QED BY <1>5, <2>1 DEF Lose
<1> QED BY <1>1, <1>2, <1>3, <1>4, <1>5 DEF Next, Board

-----------------------------------------------------------------------------
(***************************************************************************)
(* What the Linux side executes.                                           *)
(***************************************************************************)
\* A frame with another index than the one before is of a later call.
LEMMA LaterCall ==
  ASSUME TypeOK, InOrder, up # <<>>, Head(up).index # seen.index
  PROVE  seen.call < Head(up).call /\ Head(up).call \in 1 .. call
<1> USE Typed
<1>1. Head(up) = up[1] /\ Head(up) \in Frame /\ 1 \in 1 .. Len(up)
  BY TailIsRest
<1>2. Head(up).call \in 1 .. call
  BY <1>1 DEF Frame
<1>3. seen.call <= Head(up).call
  BY <1>1 DEF InOrder, Calls
<1>4. seen.call # Head(up).call
  BY <1>1 DEF InOrder
<1> QED BY <1>2, <1>3, <1>4

\* The last call executed is the highest.
LEMMA HighestExecuted ==
  ASSUME TypeOK, AtMostOnce, LastExecuted
  PROVE  \A n \in 1 .. Len(executed) : executed[n] <= seen.call
<1> USE Typed
<1> SUFFICES ASSUME NEW n \in 1 .. Len(executed) PROVE executed[n] <= seen.call
  OBVIOUS
<1>1. executed \in Seq(1 .. call) /\ DOMAIN executed = 1 .. Len(executed)
  BY LenProperties DEF TypeOK
<1>2. executed # <<>>
  BY <1>1, EmptySeq
<1>3. executed[Len(executed)] = seen.call
  BY <1>2 DEF LastExecuted
<1>4. n = Len(executed) \/ n < Len(executed)
  OBVIOUS
<1>5. executed[n] \in Nat
  OBVIOUS
<1>6. CASE n < Len(executed)
  <2>1. Len(executed) \in DOMAIN executed /\ n \in DOMAIN executed
    BY <1>1, <1>6
  <2>2. executed[n] < executed[Len(executed)]
    BY <1>6, <2>1 DEF AtMostOnce
  <2> QED BY <1>3, <1>5, <2>2
<1> QED BY <1>3, <1>4, <1>5, <1>6

\* What changes of what the Linux side has executed: nothing, or a later call is added.
LEMMA Executes ==
  ASSUME TypeOK, InOrder, [Next]_vars
  PROVE  \/ UNCHANGED <<executed, seen>>
         \/ /\ Execute /\ Head(up).index # seen.index
            /\ seen' = Head(up) /\ executed' = Append(executed, Head(up).call)
            /\ seen.call < Head(up).call /\ Head(up).call \in 1 .. call
<1>1. CASE Execute
  <2>1. CASE Head(up).index = seen.index
    BY <1>1, <2>1 DEF Execute, linux
  <2>2. CASE Head(up).index # seen.index
    <3>1. seen' = Head(up) /\ executed' = Append(executed, Head(up).call)
      BY <1>1, <2>2 DEF Execute
    <3>2. up # <<>>
      BY <1>1 DEF Execute
    <3> QED BY <1>1, <2>2, <3>1, <3>2, LaterCall
  <2> QED BY <2>1, <2>2
<1>2. CASE transfer \/ Send \/ Received
  BY <1>2 DEF transfer, Send, Received, linux
<1>3. CASE Rejected \/ TimedOut
  BY <1>3 DEF Rejected, TimedOut, Retry, linux
<1>4. CASE Lose \/ UNCHANGED vars
  BY <1>4 DEF Lose, linux, vars
<1> QED BY <1>1, <1>2, <1>3, <1>4 DEF Next, Board

LEMMA AtMostOnceStep ==
  ASSUME TypeOK, InOrder, AtMostOnce, LastExecuted, [Next]_vars
  PROVE  AtMostOnce'
<1>0. Len(executed) \in Nat /\ \A n \in 1 .. Len(executed) : executed[n] \in Nat
  BY Typed
<1>1. CASE UNCHANGED <<executed, seen>>
  BY <1>1 DEF AtMostOnce
<1>2. CASE ~UNCHANGED <<executed, seen>>
  <2> DEFINE c == Head(up).call
  <2>1. executed' = Append(executed, c) /\ seen.call < c /\ c \in 1 .. call
    BY <1>2, Executes
  <2> HIDE DEF c
  <2>2. executed \in Seq(1 .. call) /\ DOMAIN executed = 1 .. Len(executed)
    BY LenProperties DEF TypeOK
  <2>3. /\ executed' \in Seq(1 .. call) /\ Len(executed') = Len(executed) + 1
        /\ \A n \in 1 .. Len(executed) : executed'[n] = executed[n]
        /\ executed'[Len(executed) + 1] = c
    BY <2>1, <2>2, AppendProperties
  <2>4. DOMAIN executed' = 1 .. Len(executed) + 1
    BY <2>3, LenProperties
  <2> SUFFICES ASSUME NEW m \in 1 .. Len(executed) + 1, NEW n \in 1 .. Len(executed) + 1, m < n
               PROVE  executed'[m] < executed'[n]
    BY <2>4 DEF AtMostOnce
  <2>5. m \in 1 .. Len(executed)
    BY <1>0
  <2>6. CASE n = Len(executed) + 1
    <3>1. executed[m] <= seen.call /\ executed[m] \in Nat
      BY <1>0, <2>5, HighestExecuted
    <3>2. c \in Nat /\ seen.call < c /\ seen.call \in Nat
      BY <2>1, Typed
    <3>3. executed'[m] = executed[m] /\ executed'[n] = c
      BY <2>3, <2>5, <2>6
    <3> QED BY ONLY <3>1, <3>2, <3>3, SMT
  <2>7. CASE n \in 1 .. Len(executed)
    <3>1. executed[m] < executed[n]
      BY <2>2, <2>5, <2>7 DEF AtMostOnce
    <3> QED BY <2>3, <2>5, <2>7, <3>1
  <2>8. n \in 1 .. Len(executed) \/ n = Len(executed) + 1
    BY <1>0
  <2> QED BY <2>6, <2>7, <2>8
<1> QED BY <1>1, <1>2

\* Each reply on its way is to a call that was executed.
LEMMA LastExecutedStep ==
  ASSUME TypeOK, InOrder, LastExecuted, [Next]_vars
  PROVE  LastExecuted'
<1> USE Typed
<1> DEFINE Done(c) == \E m \in 1 .. Len(executed') : executed'[m] = c
<1>1. /\ executed' = <<>> => seen'.call = 0
      /\ executed' # <<>> => executed'[Len(executed')] = seen'.call
      /\ \A n \in 1 .. Len(executed) : Done(executed[n])
  <2>1. CASE UNCHANGED <<executed, seen>>
    BY <2>1 DEF LastExecuted
  <2>2. CASE ~UNCHANGED <<executed, seen>>
    <3>1. executed' = Append(executed, Head(up).call) /\ Head(up).call \in 1 .. call
          /\ seen' = Head(up)
      BY <2>2, Executes
    <3>2. executed \in Seq(1 .. call)
      BY DEF TypeOK
    <3>3. /\ Len(executed') = Len(executed) + 1
          /\ \A n \in 1 .. Len(executed) : executed'[n] = executed[n]
          /\ executed'[Len(executed) + 1] = Head(up).call
      BY <3>1, <3>2, AppendProperties
    <3>4. \A n \in 1 .. Len(executed) : n \in 1 .. Len(executed')
      BY <3>3
    <3>5. executed' # <<>>
      BY <3>3, EmptySeq
    <3>6. \A n \in 1 .. Len(executed) : Done(executed[n])
      BY <3>3, <3>4
    <3> QED BY <3>1, <3>3, <3>5, <3>6
  <2> QED BY <2>1, <2>2
<1> HIDE DEF Done
<1>2. \A n \in 1 .. Len(down) : Done(down[n].call)
  BY <1>1 DEF LastExecuted
<1>3. \A n \in 1 .. Len(down') : Done(down'[n].call)
  <2>1. ASSUME NEW k, Rest(down', down, k)
        PROVE  \A n \in 1 .. Len(down') : Done(down'[n].call)
    <3>1. \A n \in 1 .. Len(down') : n + k \in 1 .. Len(down) /\ down'[n] = down[n + k]
      BY <2>1 DEF Rest
    <3> QED BY <1>2, <3>1
  <2>2. CASE UNCHANGED down
    BY <1>2, <2>2
  <2>3. CASE \E k : Rest(down', down, k)
    BY <2>1, <2>3
  <2>4. CASE Execute
    <3> DEFINE reply == [index |-> Head(up).index, call |-> seen'.call, ok |-> TRUE]
    <3>1. down' = Append(down, reply)
      BY <2>4 DEF Execute
    <3>2. reply.call = seen'.call
      OBVIOUS
    <3>3. seen'.call # 0 /\ reply \in Reply
      <4>1. up # <<>>
        BY <2>4 DEF Execute
      <4>2. Head(up) \in Frame
        BY <4>1, TailIsRest
      <4>3. CASE UNCHANGED <<executed, seen>>
        <5>1. Head(up).index = seen.index
          BY <2>4, <4>3 DEF Execute
        <5>2. seen.call # 0
          BY <4>2, <5>1 DEF Frame
        <5> QED BY <4>2, <4>3, <5>2 DEF Frame, Reply
      <4>4. CASE ~UNCHANGED <<executed, seen>>
        <5>1. seen' = Head(up)
          BY <4>4, Executes
        <5> QED BY <4>2, <5>1 DEF Frame, Reply
      <4> QED BY <4>3, <4>4
    <3> HIDE DEF reply
    <3>4. /\ Len(down') = Len(down) + 1 /\ down'[Len(down) + 1] = reply
          /\ \A n \in 1 .. Len(down) : down'[n] = down[n]
      BY <3>1, <3>3, AppendProperties
    <3>5. Done(seen'.call)
      <4>1. executed' \in Seq((1 .. call)')
        BY TypeStep DEF TypeOK
      <4>2. executed' # <<>>
        BY <1>1, <3>3
      <4>3. Len(executed') \in 1 .. Len(executed')
        BY <4>1, <4>2, EmptySeq, LenProperties
      <4> QED BY <1>1, <4>2, <4>3 DEF Done
    <3> SUFFICES ASSUME NEW n \in 1 .. Len(down') PROVE Done(down'[n].call)
      OBVIOUS
    <3>6. n \in 1 .. Len(down) \/ n = Len(down) + 1
      BY <3>4
    <3> QED BY <1>2, <3>2, <3>4, <3>5, <3>6
  <2>5. CASE down # <<>> /\ down' = [down EXCEPT ![1].ok = FALSE]
    <3>1. Len(down') = Len(down) /\ \A n \in 1 .. Len(down) : down'[n].call = down[n].call
      BY <2>5, Damaged
    <3> QED BY <1>2, <3>1
  <2> QED BY <2>2, <2>3, <2>4, <2>5, Downs
<1> QED BY <1>1, <1>3 DEF LastExecuted, Done

-----------------------------------------------------------------------------
(***************************************************************************)
(* While no call has given up.                                             *)
(***************************************************************************)
\* A damaged reply, and each one left, fits as it did.
LEMMA DownFits ==
  ASSUME TypeOK, Recent,
         \/ UNCHANGED down
         \/ \E k : Rest(down', down, k)
         \/ down # <<>> /\ down' = [down EXCEPT ![1].ok = FALSE]
  PROVE  /\ \A n \in 1 .. Len(down') : Fits(down'[n], Len(results), index)
         /\ Calls(down', Len(results), seen.call)
<1>1. CASE UNCHANGED down
  BY <1>1 DEF Recent, Calls
<1>2. CASE \E k : Rest(down', down, k)
  <2>1. PICK k : Rest(down', down, k)
    BY <1>2
  <2>2. \A n \in 1 .. Len(down') : n + k \in 1 .. Len(down) /\ down'[n] = down[n + k]
    <3>1. Len(down) \in Nat
      BY Typed
    <3> QED BY <2>1, <3>1 DEF Rest
  <2>3. Calls(down', Len(results), seen.call)
    BY <2>1, Typed, RestOfCalls DEF Recent
  <2> QED BY <2>2, <2>3 DEF Recent
<1>3. CASE down # <<>> /\ down' = [down EXCEPT ![1].ok = FALSE]
  <2>1. /\ Len(down') = Len(down)
        /\ \A n \in 1 .. Len(down) :
             down'[n].call = down[n].call /\ down'[n].index = down[n].index
    BY <1>3, Damaged
  <2> QED BY <2>1 DEF Recent, Calls, Fits
<1> QED BY <1>1, <1>2, <1>3

\* Once a call returned, what fitted it and is not of the call before fits the next.
LEMMA FitsNext ==
  ASSUME NEW e, NEW last \in Nat, NEW i, Fits(e, last, i), last + 1 <= e.call, e.call \in Nat
  PROVE  Fits(e, last + 1, (i + 1) % IndexSize)
<1>1. e.call = last + 1
  BY DEF Fits
<1>2. e.index = i
  BY <1>1 DEF Fits
<1> QED BY <1>1, <1>2 DEF Fits

\* A good reply is to the call in progress.
LEMMA OwnReply ==
  ASSUME TypeOK, Recent, pc = "wait", down # <<>>, Good(Head(down))
  PROVE  Head(down).call = Len(results) + 1 /\ call = Len(results) + 1
<1>1. Head(down) = down[1] /\ 1 \in 1 .. Len(down) /\ Head(down) \in Reply
  BY Typed, TailIsRest
<1>2. Fits(Head(down), Len(results), index) /\ Head(down).call # 0
      /\ Head(down).index \in 0 .. IndexSize - 1
  BY <1>1 DEF Recent, Reply
<1>3. (Head(down).index + 1) % IndexSize # Head(down).index
  BY <1>2, NextIndex
<1>4. Head(down).index = index
  BY DEF Good
<1>5. Head(down).call = Len(results) + 1
  BY <1>2, <1>3, <1>4 DEF Fits
<1>6. call = Len(results) + 1
  BY Typed DEF TypeOK
<1> QED BY <1>5, <1>6

LEMMA RecentStep ==
  ASSUME TypeOK, InOrder, Recent, [Next]_vars, NoTimeout'
  PROVE  Recent'
<1>0. /\ up \in Seq(Frame) /\ down \in Seq(Reply) /\ Len(up) \in Nat /\ Len(down) \in Nat
      /\ Len(results) \in Nat /\ call \in Nat /\ seen.call \in Nat
  BY Typed
<1>1. CASE transfer \/ UNCHANGED vars
  BY <1>1 DEF transfer, vars, board, linux, Recent, Fits, Calls
<1>2. CASE Send
  <2> DEFINE frame == [index |-> index, call |-> call]
  <2>1. up' = Append(up, frame) /\ UNCHANGED <<seen, index, results, down>>
    BY <1>2 DEF Send, linux
  <2>2. call = Len(results) + 1 /\ call \in 1 .. call
    BY <1>0, <1>2 DEF Send, TypeOK
  <2>3. frame \in Frame
    BY <2>2 DEF Frame, TypeOK
  <2>4. Fits(frame, Len(results), index)
    BY <1>0, <2>2 DEF Fits
  <2> HIDE DEF frame
  <2>5. /\ Len(up') = Len(up) + 1 /\ up'[Len(up) + 1] = frame
        /\ \A n \in 1 .. Len(up) : up'[n] = up[n]
    BY <1>0, <2>1, <2>3, AppendProperties
  <2>6. ASSUME NEW n \in 1 .. Len(up')
        PROVE  Fits(up'[n], Len(results), index)
    <3>1. n \in 1 .. Len(up) \/ n = Len(up) + 1
      BY <1>0, <2>5
    <3> QED BY <2>4, <2>5, <3>1 DEF Recent
  <2> QED BY <2>1, <2>6 DEF Recent, Calls, Fits
<1>3. CASE Received
  <2> DEFINE L == Len(results)
  <2>1. /\ down # <<>> /\ Good(Head(down)) /\ pc = "wait" /\ down' = Tail(down)
        /\ index' = (index + 1) % IndexSize /\ results' = Append(results, Head(down).call)
        /\ UNCHANGED <<up, seen>>
    BY <1>3 DEF Received, linux
  <2>2. Head(down).call = L + 1
    BY <2>1, OwnReply
  <2>3. Head(down) = down[1] /\ 1 \in 1 .. Len(down) /\ Rest(down', down, 1)
    BY <1>0, <2>1, TailIsRest
  <2>4. /\ Len(results') = L + 1 /\ results'[L + 1] = L + 1
        /\ \A n \in 1 .. L : results'[n] = results[n]
    <3>1. results \in Seq(1 .. call \cup {Timeout}) /\ L + 1 \in 1 .. call \cup {Timeout}
      BY <1>0, <2>1 DEF TypeOK
    <3> QED BY <2>1, <2>2, <3>1, AppendProperties
  <2>5. L + 1 <= seen.call
    BY <2>2, <2>3 DEF Recent, Calls
  <2>6. \A n \in 1 .. Len(up) : L + 1 <= up[n].call /\ up[n].call \in Nat
    <3>1. \A n \in 1 .. Len(up) : up[n].call \in Nat
      BY CallNumbers
    <3>2. \A n \in 1 .. Len(up) : seen.call <= up[n].call
      BY DEF InOrder, Calls
    <3> QED BY <1>0, <2>5, <3>1, <3>2
  <2>7. \A n \in 1 .. Len(down') :
          /\ n + 1 \in 1 .. Len(down) /\ down'[n] = down[n + 1]
          /\ L + 1 <= down'[n].call /\ down'[n].call \in Nat
    <3>1. \A n \in 1 .. Len(down') :
            n + 1 \in 1 .. Len(down) /\ down'[n] = down[n + 1] /\ 1 <= n + 1
      BY <1>0, <2>3, RestElements
    <3>2. \A n \in 1 .. Len(down) : down[n].call \in Nat
      BY CallNumbers
    <3>3. \A n \in 1 .. Len(down) : 1 <= n => down[1].call <= down[n].call
      BY <2>3 DEF Recent, Calls
    <3> QED BY <2>2, <2>3, <3>1, <3>2, <3>3
  <2>8. Fits(seen, L + 1, index')
    BY <1>0, <2>1, <2>5, FitsNext DEF Recent
  <2>9. \A n \in 1 .. Len(up) : Fits(up[n], L + 1, index')
    BY <1>0, <2>1, <2>6, FitsNext DEF Recent
  <2>10. \A n \in 1 .. Len(down') : Fits(down'[n], L + 1, index')
    BY <1>0, <2>1, <2>7, FitsNext DEF Recent
  <2>11. Calls(down', L + 1, seen.call)
    <3>1. Calls(down', L, seen.call)
      BY <1>0, <2>3, RestOfCalls DEF Recent
    <3> QED BY <2>7, <3>1 DEF Calls
  <2>12. \A n \in 1 .. Len(results') : results'[n] = n
    <3>1. \A n \in 1 .. Len(results') : n \in 1 .. L \/ n = L + 1
      BY <1>0, <2>4
    <3> QED BY <2>4, <3>1 DEF Recent
  <2> QED BY <2>1, <2>4, <2>8, <2>9, <2>10, <2>11, <2>12 DEF Recent
<1>4. CASE Rejected \/ TimedOut
  <2>1. UNCHANGED <<up, seen, index>> /\ pc = "wait"
    BY <1>4 DEF Rejected, TimedOut, Retry, linux
  <2>2. results' = results \/ results' = Append(results, Timeout)
    BY <1>4 DEF Rejected, TimedOut, Retry
  <2>3. results' # Append(results, Timeout)
    <3>1. SUFFICES ASSUME results' = Append(results, Timeout) PROVE FALSE
      OBVIOUS
    <3>2. results \in Seq(1 .. call \cup {Timeout}) /\ Timeout \in 1 .. call \cup {Timeout}
      BY DEF TypeOK
    <3>3. Len(results') = Len(results) + 1 /\ results'[Len(results) + 1] = Timeout
      BY <3>1, <3>2, AppendProperties
    <3>4. Len(results) + 1 \in 1 .. Len(results')
      BY <1>0, <3>3
    <3> QED BY <3>3, <3>4 DEF NoTimeout
  <2>4. /\ \A n \in 1 .. Len(down') : Fits(down'[n], Len(results), index)
        /\ Calls(down', Len(results), seen.call)
    <3>1. \E k : Rest(down', down, k)
      <4>1. CASE Rejected
        BY <4>1, RejectedRest
      <4>2. CASE TimedOut
        BY <1>0, <4>2, RetryTypes DEF TimedOut
      <4> QED BY <1>4, <4>1, <4>2
    <3> QED BY <3>1, DownFits
  <2> QED BY <2>1, <2>2, <2>3, <2>4 DEF Recent
<1>5. CASE Execute
  <2> DEFINE frame == Head(up)
             reply == [index |-> frame.index, call |-> seen'.call, ok |-> TRUE]
  <2>1. /\ up # <<>> /\ up' = Tail(up) /\ down' = Append(down, reply)
        /\ UNCHANGED <<index, results>>
    BY <1>5 DEF Execute, board
  <2>2. frame = up[1] /\ 1 \in 1 .. Len(up) /\ frame \in Frame /\ Rest(up', up, 1)
    BY <1>0, <2>1, TailIsRest
  <2>3. /\ Fits(seen', Len(results), index) /\ seen'.index = frame.index
        /\ seen.call <= seen'.call /\ seen'.call \in 1 .. call
        /\ Len(results) <= seen'.call
    <3>1. CASE frame.index = seen.index
      <4>1. seen' = seen
        BY <1>5, <3>1 DEF Execute, linux
      <4>2. seen.call # 0
        <5>1. frame.index \in 0 .. IndexSize - 1
          BY <2>2 DEF Frame
        <5>2. seen.call = 0 => seen.index = IndexSize
          BY Typed
        <5>3. IndexSize \in Nat
          BY Typed
        <5> QED BY ONLY <3>1, <5>1, <5>2, <5>3, SMT
      <4>3. Fits(seen, Len(results), index) /\ seen.call \in 0 .. call
        BY Typed DEF Recent
      <4>4. seen.call \in 1 .. call
        BY <1>0, <4>2, <4>3
      <4>5. Len(results) <= seen.call
        BY <1>0, <4>3 DEF Fits
      <4> QED BY <1>0, <3>1, <4>1, <4>3, <4>4, <4>5
    <3>2. CASE frame.index # seen.index
      <4>1. seen' = frame
        BY <1>5, <3>2 DEF Execute
      <4>2. Fits(frame, Len(results), index)
        BY <2>2 DEF Recent
      <4>3. seen.call < frame.call /\ frame.call \in 1 .. call
        BY <2>1, <3>2, LaterCall
      <4>4. Len(results) <= frame.call
        BY <1>0, <4>2 DEF Fits
      <4> QED BY <1>0, <4>1, <4>2, <4>3, <4>4
    <3> QED BY <3>1, <3>2
  <2>4. /\ Fits(reply, Len(results), index) /\ reply.call = seen'.call
    BY <2>3 DEF Fits
  <2>5. reply \in Reply
    BY <2>2, <2>3 DEF Frame, Reply
  <2> HIDE DEF reply, frame
  <2>6. /\ Len(down') = Len(down) + 1 /\ down'[Len(down) + 1] = reply
        /\ \A n \in 1 .. Len(down) : down'[n] = down[n]
    BY <1>0, <2>1, <2>5, AppendProperties
  <2>7. \A n \in 1 .. Len(down') : n \in 1 .. Len(down) \/ n = Len(down) + 1
    BY <1>0, <2>6
  <2>8. \A n \in 1 .. Len(down') : Fits(down'[n], Len(results), index)
    BY <2>4, <2>6, <2>7 DEF Recent
  <2>9. Calls(down', Len(results), seen'.call)
    <3>0. \A n \in 1 .. Len(down) : down[n].call \in Nat /\ down[n].call <= seen.call
                                    /\ Len(results) <= down[n].call
      BY CallNumbers DEF Recent, Calls
    <3>1. ASSUME NEW n \in 1 .. Len(down')
          PROVE  Len(results) <= down'[n].call /\ down'[n].call <= seen'.call
      <4>1. CASE n = Len(down) + 1
        BY <2>3, <2>4, <2>6, <4>1
      <4>2. CASE n \in 1 .. Len(down)
        BY <1>0, <2>3, <2>6, <3>0, <4>2
      <4> QED BY <2>7, <4>1, <4>2
    <3>2. ASSUME NEW m \in 1 .. Len(down'), NEW n \in 1 .. Len(down'), m <= n
          PROVE  down'[m].call <= down'[n].call
      <4>1. CASE n = Len(down) + 1
        BY <2>4, <2>6, <3>1, <4>1
      <4>2. CASE n \in 1 .. Len(down)
        <5>1. m \in 1 .. Len(down)
          BY <1>0, <3>2, <4>2
        <5>2. down[m].call <= down[n].call
          BY <3>2, <4>2, <5>1 DEF Recent, Calls
        <5> QED BY <2>6, <4>2, <5>1, <5>2
      <4> QED BY <2>7, <4>1, <4>2
    <3> QED BY <3>1, <3>2 DEF Calls
  <2>10. \A n \in 1 .. Len(up') : Fits(up'[n], Len(results), index)
    <3>1. \A n \in 1 .. Len(up') : n + 1 \in 1 .. Len(up) /\ up'[n] = up[n + 1]
      BY <1>0, <2>2 DEF Rest
    <3> QED BY <3>1 DEF Recent
  <2> QED BY <2>1, <2>3, <2>8, <2>9, <2>10 DEF Recent
<1>6. CASE Lose
  <2>1. UNCHANGED <<index, results, seen>>
    BY <1>6 DEF Lose, board, linux
  <2>2. \E k : Rest(up', up, k)
    <3>1. CASE up' = up
      BY <1>0, <3>1, NothingTaken
    <3>2. CASE up # <<>> /\ up' = Tail(up)
      BY <1>0, <3>2, TailIsRest
    <3> QED BY <1>6, <3>1, <3>2 DEF Lose
  <2>3. \A n \in 1 .. Len(up') : Fits(up'[n], Len(results), index)
    <3>1. PICK k : Rest(up', up, k)
      BY <2>2
    <3>2. \A n \in 1 .. Len(up') : n + k \in 1 .. Len(up) /\ up'[n] = up[n + k]
      BY <1>0, <3>1 DEF Rest
    <3> QED BY <3>2 DEF Recent
  <2>4. /\ \A n \in 1 .. Len(down') : Fits(down'[n], Len(results), index)
        /\ Calls(down', Len(results), seen.call)
    <3>1. CASE UNCHANGED down
      BY <3>1, DownFits
    <3>2. CASE down # <<>> /\ down' = Tail(down)
      BY <1>0, <3>2, TailIsRest, DownFits
    <3>3. CASE down # <<>> /\ down' = [down EXCEPT ![1].ok = FALSE]
      BY <3>3, DownFits
    <3> QED BY <1>6, <3>1, <3>2, <3>3 DEF Lose
  <2> QED BY <2>1, <2>3, <2>4 DEF Recent
<1> QED BY <1>1, <1>2, <1>3, <1>4, <1>5, <1>6 DEF Next, Board

-----------------------------------------------------------------------------
(***************************************************************************)
(* What the runs check, for every value of the constants.                  *)
(***************************************************************************)
\* Results stay, and no call that gave up is forgotten.
LEMMA ResultsStay ==
  ASSUME TypeOK, [Next]_vars, NoTimeout'
  PROVE  NoTimeout
<1>1. \/ results' = results
      \/ \E c : results' = Append(results, c) /\ c \in 1 .. call \cup {Timeout}
  <2>1. CASE Received
    <3>1. Head(down) \in Reply /\ results' = Append(results, Head(down).call)
      BY <2>1, Typed, TailIsRest DEF Received
    <3> QED BY <3>1 DEF Reply
  <2>2. CASE Rejected \/ TimedOut
    BY <2>2 DEF Rejected, TimedOut, Retry
  <2>3. CASE transfer \/ Send \/ Execute \/ Lose \/ UNCHANGED vars
    BY <2>3 DEF transfer, Send, Execute, Lose, vars, board
  <2> QED BY <2>1, <2>2, <2>3 DEF Next, Board
<1>2. CASE results' = results
  BY <1>2 DEF NoTimeout
<1>3. CASE \E c : results' = Append(results, c) /\ c \in 1 .. call \cup {Timeout}
  <2>1. results \in Seq(1 .. call \cup {Timeout}) /\ Len(results) \in Nat
    BY Typed DEF TypeOK
  <2>2. Len(results') = Len(results) + 1 /\ \A n \in 1 .. Len(results) : results'[n] = results[n]
    BY <1>3, <2>1, AppendProperties
  <2>3. \A n \in 1 .. Len(results) : n \in 1 .. Len(results')
    BY <2>1, <2>2
  <2> QED BY <2>2, <2>3 DEF NoTimeout
<1> QED BY <1>1, <1>2, <1>3

LEMMA InitInv == Init => IInv
<1> SUFFICES ASSUME Init PROVE IInv
  OBVIOUS
<1>1. /\ up = <<>> /\ down = <<>> /\ results = <<>> /\ executed = <<>> /\ index = 0 /\ call = 0
      /\ pc = "idle" /\ seen = [index |-> IndexSize, call |-> 0]
  BY DEF Init
<1>2. Len(<<>>) = 0 /\ DOMAIN <<>> = 1 .. 0
  BY EmptySeq, LenProperties
<1>3. seen.call = 0
  BY <1>1
<1>4. InOrder
  BY <1>1, <1>2, <1>3 DEF InOrder, Calls
<1>5. AtMostOnce
  BY <1>1, <1>2 DEF AtMostOnce
<1>6. LastExecuted
  BY <1>1, <1>2, <1>3 DEF LastExecuted
<1>7. Recent
  BY <1>1, <1>2, <1>3 DEF Recent, Fits, Calls
<1> QED BY InitType, <1>4, <1>5, <1>6, <1>7 DEF IInv

LEMMA InvStep == IInv /\ [Next]_vars => IInv'
<1> SUFFICES ASSUME IInv, [Next]_vars PROVE IInv'
  OBVIOUS
<1>1. TypeOK /\ InOrder /\ AtMostOnce /\ LastExecuted /\ (NoTimeout => Recent)
  BY DEF IInv
<1>2. TypeOK' /\ InOrder' /\ AtMostOnce' /\ LastExecuted'
  BY <1>1, TypeStep, InOrderStep, AtMostOnceStep, LastExecutedStep
<1>3. NoTimeout' => Recent'
  BY <1>1, ResultsStay, RecentStep
<1> QED BY <1>2, <1>3 DEF IInv

\* The inductive invariant: what is on the line is in order, and while no call gave
\* up, only of the last two calls.
THEOREM Invariant == Spec => []IInv
  BY InitInv, InvStep, PTL DEF Spec

\* The types: the index stays a byte, no more retries than MaxRetries are counted,
\* and every call but the one in progress has one result.
THEOREM TypesCorrect == Spec => []TypeOK
<1>1. IInv => TypeOK
  BY DEF IInv
<1> QED BY <1>1, Invariant, PTL

\* However often a call is sent again, the Linux side executes it at most once, and
\* calls in the order they were made.
THEOREM ExecutedAtMostOnce == Spec => []AtMostOnce
<1>1. IInv => AtMostOnce
  BY DEF IInv
<1> QED BY <1>1, Invariant, PTL

LEMMA GaveUpIsTimeout == ASSUME TypeOK PROVE ~GaveUp <=> NoTimeout
<1>1. results \in Seq(1 .. call \cup {Timeout})
  BY DEF TypeOK
<1>2. DOMAIN results = 1 .. Len(results)
  BY <1>1, LenProperties
<1>3. ToSet(results) = {results[n] : n \in DOMAIN results}
  BY DEF ToSet
<1> QED BY <1>2, <1>3 DEF GaveUp, NoTimeout

\* As long as no call gave up, each returned the answer to itself: the replies of
\* earlier ones that come late are told by their index, used again as it may be.
THEOREM AnswersItself == Spec => []OwnAnswer
<1>1. IInv => OwnAnswer
  <2> SUFFICES ASSUME IInv, ~GaveUp PROVE \A n \in DOMAIN results : results[n] = n
    BY DEF OwnAnswer
  <2>1. Recent
    BY GaveUpIsTimeout DEF IInv
  <2>2. DOMAIN results = 1 .. Len(results)
    BY LenProperties DEF IInv, TypeOK
  <2> QED BY <2>1, <2>2 DEF Recent
<1> QED BY <1>1, Invariant, PTL

-----------------------------------------------------------------------------
(***************************************************************************)
(* To the sketch these are remote calls: each step of the retries is a     *)
(* step of RemoteCall, or none that it sees.                               *)
(***************************************************************************)
\* A call returns the answer to one that was executed, its own if none gave up.
LEMMA ReturnsImplement ==
  ASSUME IInv, Received \/ Rejected \/ TimedOut
  PROVE  [Remote!Next]_(Remote!vars)
<1>0. TypeOK /\ LastExecuted /\ (NoTimeout => Recent)
  BY DEF IInv
<1>1. pc = "wait" /\ UNCHANGED <<call, executed>>
  BY DEF Received, Rejected, TimedOut, Retry, linux
<1>2. Len(results) < call /\ executed \in Seq(1 .. call)
  BY <1>0, <1>1, Typed DEF TypeOK
<1>3. DOMAIN executed = 1 .. Len(executed) /\ ToSet(executed) = {executed[n] : n \in DOMAIN executed}
  BY <1>2, LenProperties DEF ToSet
<1>4. CASE results' = results
  BY <1>1, <1>4 DEF Remote!vars
<1>5. CASE results' = Append(results, Timeout)
  BY <1>1, <1>2, <1>5 DEF Remote!Next, Remote!Return
<1>6. CASE Received
  <2>1. down # <<>> /\ Good(Head(down)) /\ results' = Append(results, Head(down).call)
    BY <1>6 DEF Received
  <2>2. Head(down) = down[1] /\ 1 \in 1 .. Len(down)
    BY <1>0, <2>1, Typed, TailIsRest
  <2>3. Head(down).call \in ToSet(executed)
    BY <1>0, <1>3, <2>2 DEF LastExecuted
  <2>4. Head(down).call = call \/ GaveUp
    BY <1>0, <1>1, <2>1, OwnReply, GaveUpIsTimeout
  <2>5. GaveUp = Remote!GaveUp /\ ToSet(executed) = Remote!ToSet(executed)
    BY DEF GaveUp, Remote!GaveUp, ToSet, Remote!ToSet
  <2> QED BY <1>1, <1>2, <2>1, <2>3, <2>4, <2>5 DEF Remote!Next, Remote!Return
<1>7. CASE Rejected \/ TimedOut
  BY <1>4, <1>5, <1>7 DEF Rejected, TimedOut, Retry
<1> QED BY <1>6, <1>7

\* What is executed is the call in progress, if none gave up: the one before was.
LEMMA ExecuteImplements ==
  ASSUME IInv, Execute
  PROVE  [Remote!Next]_(Remote!vars)
<1>0. TypeOK /\ InOrder /\ AtMostOnce /\ LastExecuted /\ (NoTimeout => Recent)
  BY DEF IInv
<1>1. UNCHANGED <<call, results>>
  BY DEF Execute, board
<1>2. CASE UNCHANGED <<executed, seen>>
  BY <1>1, <1>2 DEF Remote!vars
<1>3. CASE ~UNCHANGED <<executed, seen>>
  <2> DEFINE c == Head(up).call
  <2>1. [Next]_vars
    BY DEF Next
  <2>2. executed' = Append(executed, c) /\ seen.call < c /\ c \in 1 .. call
    BY <1>0, <1>3, <2>1, Executes
  <2> HIDE DEF c
  <2>3. executed \in Seq(1 .. call)
    BY <1>0 DEF TypeOK
  <2>4. /\ DOMAIN executed = 1 .. Len(executed) /\ ToSet(executed) = {executed[n] : n \in DOMAIN executed}
        /\ \A n \in 1 .. Len(executed) : executed[n] \in 1 .. call
    BY <1>0, <2>3, LenProperties, Typed DEF ToSet
  <2>5. \A n \in 1 .. Len(executed) : executed[n] <= seen.call
    BY <1>0, HighestExecuted
  <2>6. seen.call \in Nat /\ call \in Nat /\ Len(results) \in Nat
    BY <1>0, Typed
  <2>7. \A e \in ToSet(executed) : e < c
    BY <2>2, <2>4, <2>5, <2>6
  <2>8. c = call \/ GaveUp
    <3> SUFFICES ASSUME ~GaveUp PROVE c = call
      OBVIOUS
    <3>1. Recent
      BY <1>0, GaveUpIsTimeout
    <3>2. seen.call >= Len(results)
      BY <2>6, <3>1 DEF Recent, Fits
    <3>3. Len(results) = call \/ Len(results) = call - 1
      BY <1>0 DEF TypeOK
    <3> QED BY <2>2, <2>6, <3>2, <3>3
  <2>9. GaveUp = Remote!GaveUp /\ ToSet(executed) = Remote!ToSet(executed)
    BY DEF GaveUp, Remote!GaveUp, ToSet, Remote!ToSet
  <2> QED BY <1>1, <2>2, <2>7, <2>8, <2>9 DEF Remote!Next, Remote!Execute
<1> QED BY <1>2, <1>3

LEMMA StepImplements == IInv /\ [Next]_vars => [Remote!Next]_(Remote!vars)
<1> SUFFICES ASSUME IInv, [Next]_vars PROVE [Remote!Next]_(Remote!vars)
  OBVIOUS
<1>1. CASE transfer
  <2>1. Len(results) = call
    BY <1>1 DEF transfer, IInv, TypeOK
  <2> QED BY <1>1, <2>1 DEF transfer, linux, Remote!Next, Remote!Call
<1>2. CASE Send \/ Lose \/ UNCHANGED vars
  BY <1>2 DEF Send, Lose, vars, board, linux, Remote!vars
<1>3. CASE Received \/ Rejected \/ TimedOut
  BY <1>3, ReturnsImplement
<1>4. CASE Execute
  BY <1>4, ExecuteImplements
<1> QED BY <1>1, <1>2, <1>3, <1>4 DEF Next, Board

\* The safety part of ImplementsRemoteCall; that a call returns is model-checked.
THEOREM ImplementsCalls == Spec => Remote!Init /\ [][Remote!Next]_(Remote!vars)
<1>1. Init => Remote!Init
  BY DEF Init, Remote!Init
<1> QED BY <1>1, StepImplements, Invariant, PTL DEF Spec

-----------------------------------------------------------------------------
(***************************************************************************)
(* Calls that nothing failed.  Each retry of a call leaves at most one     *)
(* reply too many, so between calls fewer than MaxRetries are on the line; *)
(* each retry of the next call takes at least one of them away.            *)
(***************************************************************************)
Waiting == IF pc = "wait" THEN 1 ELSE 0

FewLeft == pc = "idle" => Len(down) + Len(up) < MaxRetries

\* Behind a frame of the call in progress, or a reply to it, are at most its retries.
FewOwn ==
  pc # "idle" =>
    /\ \A n \in 1 .. Len(down) :
         down[n].call = call => Len(down) + Len(up) - n < retries + Waiting
    /\ \A n \in 1 .. Len(up) : up[n].call = call => Len(up) - n < retries + Waiting

\* Before the last of the retries, the replies of the call before are gone.
CalmAhead ==
  pc # "idle" /\ calm /\ call \notin Long =>
    /\ \A n \in 1 .. Len(down) :
         /\ down[n].call = call => down[n].ok
         /\ down[n].call # call => n + retries < MaxRetries
    /\ \A n \in 1 .. Len(up) : up[n].call # call => Len(down) + n + retries < MaxRetries
    /\ pc = "wait" => Len(down) + Len(up) > 0

Retried == FewLeft /\ FewOwn /\ CalmAhead

\* A reply that is not good, or none: how many are taken.
LEMMA RetryTakes ==
  ASSUME TypeOK, Rejected \/ TimedOut
  PROVE  \E j \in 0 .. Len(down) : Rest(down', down, j) /\ (Rejected => j >= 1)
<1>0. down \in Seq(Reply) /\ Len(down) \in Nat
  BY Typed
<1>1. CASE Rejected
  <2>1. /\ Tail(down) \in Seq(Reply) /\ Rest(Tail(down), down, 1)
    BY <1>0, <1>1, TailIsRest DEF Rejected
  <2>2. PICK k \in 0 .. Len(Tail(down)) : Rest(down', Tail(down), k)
    BY <1>1, <2>1, RetryTypes DEF Rejected
  <2>3. Rest(down', down, k + 1) /\ k \in Nat
    BY <1>0, <2>1, <2>2, RestOfRest DEF Rest
  <2> QED BY <1>0, <2>3 DEF Rest
<1>2. CASE TimedOut
  <2>1. PICK k \in 0 .. Len(down) : Rest(down', down, k)
    BY <1>0, <1>2, RetryTypes DEF TimedOut
  <2>2. CASE Rejected
    BY <1>1, <2>2
  <2>3. CASE ~Rejected
    BY <2>1, <2>3
  <2> QED BY <2>2, <2>3
<1> QED BY <1>1, <1>2

\* A call that is calm is not given up.
LEMMA CalmRetries ==
  ASSUME TypeOK, Recent, Retried, Rejected \/ TimedOut, calm', call \notin Long
  PROVE  Rejected /\ retries + 1 < MaxRetries
<1>0. /\ pc = "wait" /\ down \in Seq(Reply) /\ Len(down) \in Nat /\ Len(up) \in Nat
      /\ call = Len(results) + 1 /\ retries \in Nat /\ MaxRetries \in Nat
  <2>1. pc = "wait"
    BY DEF Rejected, TimedOut
  <2>2. retries \in Nat /\ MaxRetries \in Nat
    BY BridgeAssumption DEF TypeOK
  <2>3. call = Len(results) + 1
    BY <2>1, Typed DEF TypeOK
  <2> QED BY <2>1, <2>2, <2>3, Typed
<1>1. calm
  BY DEF Rejected, TimedOut
<1>2. /\ \A n \in 1 .. Len(down) :
           /\ down[n].call = call => down[n].ok
           /\ down[n].call # call => n + retries < MaxRetries
      /\ Len(down) + Len(up) > 0
  BY <1>0, <1>1 DEF Retried, CalmAhead
<1>3. Rejected
  <2>1. SUFFICES ASSUME TimedOut PROVE up # <<>> \/ down # <<>>
    BY DEF TimedOut
  <2>2. Len(<<>>) = 0
    BY EmptySeq
  <2> QED BY <1>0, <1>2, <2>2
<1>4. /\ down # <<>> /\ ~Good(Head(down)) /\ Head(down) = down[1] /\ 1 \in 1 .. Len(down)
  BY <1>0, <1>3, TailIsRest DEF Rejected
<1>5. CASE down[1].call = call
  <2>1. down[1].index = index
    BY <1>0, <1>4, <1>5 DEF Recent, Fits
  <2>2. down[1].ok
    BY <1>2, <1>4, <1>5
  <2> QED BY <1>4, <1>5, <2>1, <2>2 DEF Good
<1>6. CASE down[1].call # call
  <2>1. 1 + retries < MaxRetries
    BY <1>2, <1>4, <1>6
  <2> QED BY <1>0, <1>3, <2>1
<1> QED BY <1>5, <1>6

LEMMA RetryKeeps ==
  ASSUME TypeOK, Recent, Retried, Rejected \/ TimedOut, pc' # "idle"
  PROVE  Retried'
<1>0. /\ pc = "wait" /\ down \in Seq(Reply) /\ Len(down) \in Nat /\ Len(up) \in Nat
      /\ retries \in Nat /\ MaxRetries \in Nat
  BY Typed, BridgeAssumption DEF TypeOK, Rejected, TimedOut
<1>1. PICK j \in 0 .. Len(down) : Rest(down', down, j) /\ (Rejected => j >= 1)
  BY RetryTakes
<1>2. /\ Len(down') = Len(down) - j
      /\ \A n \in 1 .. Len(down') : n + j \in 1 .. Len(down) /\ down'[n] = down[n + j]
  BY <1>0, <1>1, RestElements DEF Rest
<1>3. /\ pc' = "send" /\ retries' = retries + 1 /\ up' = up /\ call' = call
  BY DEF Rejected, TimedOut, Retry
<1>4. Waiting = 1 /\ Waiting' = 0
  BY <1>0, <1>3 DEF Waiting
<1>5. /\ \A n \in 1 .. Len(down) :
           down[n].call = call => Len(down) + Len(up) - n < retries + 1
      /\ \A n \in 1 .. Len(up) : up[n].call = call => Len(up) - n < retries + 1
  BY <1>0, <1>4 DEF Retried, FewOwn
<1>6. FewOwn'
  <2>1. ASSUME NEW n \in 1 .. Len(down'), down'[n].call = call
        PROVE  Len(down') + Len(up) - n < retries + 1
    <3>1. n + j \in 1 .. Len(down) /\ down[n + j].call = call
      BY <1>2, <2>1
    <3>2. Len(down) + Len(up) - (n + j) < retries + 1
      BY <1>5, <3>1
    <3> QED BY <1>0, <1>2, <3>2
  <2> QED BY <1>0, <1>3, <1>4, <1>5, <2>1 DEF FewOwn
<1>7. CalmAhead'
  <2>1. SUFFICES ASSUME calm', call \notin Long
                 PROVE  /\ \A n \in 1 .. Len(down') :
                             /\ down'[n].call = call => down'[n].ok
                             /\ down'[n].call # call => n + (retries + 1) < MaxRetries
                        /\ \A n \in 1 .. Len(up) :
                             up[n].call # call => Len(down') + n + (retries + 1) < MaxRetries
    BY <1>3 DEF CalmAhead
  <2>2. calm /\ j >= 1
    BY <1>1, <2>1, CalmRetries DEF Rejected
  <2>3. /\ \A n \in 1 .. Len(down) :
             /\ down[n].call = call => down[n].ok
             /\ down[n].call # call => n + retries < MaxRetries
        /\ \A n \in 1 .. Len(up) : up[n].call # call => Len(down) + n + retries < MaxRetries
    BY <1>0, <2>1, <2>2 DEF Retried, CalmAhead
  <2>4. ASSUME NEW n \in 1 .. Len(down')
        PROVE  /\ down'[n].call = call => down'[n].ok
               /\ down'[n].call # call => n + (retries + 1) < MaxRetries
    <3>1. n + j \in 1 .. Len(down) /\ down'[n] = down[n + j]
      BY <1>2
    <3>2. /\ down[n + j].call = call => down[n + j].ok
          /\ down[n + j].call # call => (n + j) + retries < MaxRetries
      BY <2>3, <3>1
    <3>3. (n + j) + retries < MaxRetries => n + (retries + 1) < MaxRetries
      BY <1>0, <1>2, <2>2
    <3> QED BY <3>1, <3>2, <3>3
  <2>5. ASSUME NEW n \in 1 .. Len(up), up[n].call # call
        PROVE  Len(down') + n + (retries + 1) < MaxRetries
    <3>1. Len(down) + n + retries < MaxRetries
      BY <2>3, <2>5
    <3> QED BY <1>0, <1>2, <2>2, <3>1
  <2> QED BY <2>4, <2>5
<1> QED BY <1>3, <1>6, <1>7 DEF Retried, FewLeft

\* A call starts with what the one before left.
LEMMA TransferKeeps ==
  ASSUME TypeOK, Retried, transfer
  PROVE  Retried'
<1>0. /\ pc = "idle" /\ pc' = "send" /\ call' = call + 1 /\ retries' = 0
      /\ UNCHANGED <<up, down>>
  BY DEF transfer
<1>1. /\ Len(up) \in Nat /\ Len(down) \in Nat /\ call \in Nat
      /\ \A n \in 1 .. Len(up) : up[n] \in Frame
      /\ \A n \in 1 .. Len(down) : down[n] \in Reply
  BY Typed
<1>2. \A n \in 1 .. Len(up) : up[n].call # call + 1
  <2>1. \A frame \in Frame : frame.call # call + 1
    BY <1>1 DEF Frame
  <2> QED BY <1>1, <2>1
<1>3. \A n \in 1 .. Len(down) : down[n].call # call + 1
  <2>1. \A reply \in Reply : reply.call # call + 1
    BY <1>1 DEF Reply
  <2> QED BY <1>1, <2>1
<1>4. Len(down) + Len(up) < MaxRetries /\ MaxRetries \in Nat
  BY <1>0, BridgeAssumption DEF Retried, FewLeft
<1>5. FewLeft' /\ FewOwn'
  BY <1>0, <1>2, <1>3 DEF FewLeft, FewOwn
<1>6. CalmAhead'
  <2>1. \A n \in 1 .. Len(down) : n + 0 < MaxRetries
    BY <1>1, <1>4
  <2>2. \A n \in 1 .. Len(up) : Len(down) + n + 0 < MaxRetries
    BY <1>1, <1>4
  <2> QED BY <1>0, <1>3, <2>1, <2>2 DEF CalmAhead
<1> QED BY <1>5, <1>6 DEF Retried

LEMMA SendKeeps ==
  ASSUME TypeOK, Retried, Send
  PROVE  Retried'
<1> DEFINE frame == [index |-> index, call |-> call]
<1>0. /\ pc = "send" /\ pc' = "wait" /\ up' = Append(up, frame)
      /\ UNCHANGED <<down, call, retries, calm>>
  BY DEF Send
<1>1. /\ up \in Seq(Frame) /\ Len(up) \in Nat /\ Len(down) \in Nat /\ call \in Nat
      /\ retries \in Nat /\ MaxRetries \in Nat
  BY Typed, BridgeAssumption DEF TypeOK
<1>2. frame \in Frame /\ frame.call = call
  <2>1. call \in 1 .. call
    BY <1>0, <1>1 DEF TypeOK
  <2> QED BY <2>1 DEF Frame, TypeOK
<1> HIDE DEF frame
<1>3. /\ Len(up') = Len(up) + 1 /\ up'[Len(up) + 1] = frame
      /\ \A n \in 1 .. Len(up) : up'[n] = up[n]
  BY <1>0, <1>1, <1>2, AppendProperties
<1>4. Waiting = 0 /\ Waiting' = 1
  BY <1>0 DEF Waiting
<1>5. /\ \A n \in 1 .. Len(down) : down[n].call = call => Len(down) + Len(up) - n < retries
      /\ \A n \in 1 .. Len(up) : up[n].call = call => Len(up) - n < retries
  BY <1>0, <1>1, <1>4 DEF Retried, FewOwn
<1>6. FewOwn'
  <2>1. ASSUME NEW n \in 1 .. Len(down), down[n].call = call
        PROVE  Len(down) + Len(up') - n < retries + 1
    <3>1. Len(down) + Len(up) - n < retries
      BY <1>5, <2>1
    <3> QED BY <1>1, <1>3, <3>1
  <2>2. ASSUME NEW n \in 1 .. Len(up'), up'[n].call = call
        PROVE  Len(up') - n < retries + 1
    <3>1. CASE n = Len(up) + 1
      BY <1>1, <1>3, <3>1
    <3>2. CASE n # Len(up) + 1
      <4>1. n \in 1 .. Len(up)
        BY <1>1, <1>3, <3>2
      <4>2. Len(up) - n < retries
        BY <1>3, <1>5, <2>2, <4>1
      <4> QED BY <1>1, <1>3, <4>1, <4>2
    <3> QED BY <3>1, <3>2
  <2> QED BY <1>0, <1>4, <2>1, <2>2 DEF FewOwn
<1>7. CalmAhead'
  <2>1. SUFFICES ASSUME calm, call \notin Long
                 PROVE  /\ \A n \in 1 .. Len(down) :
                             /\ down[n].call = call => down[n].ok
                             /\ down[n].call # call => n + retries < MaxRetries
                        /\ \A n \in 1 .. Len(up') :
                             up'[n].call # call => Len(down) + n + retries < MaxRetries
                        /\ Len(down) + Len(up') > 0
    BY <1>0 DEF CalmAhead
  <2>2. /\ \A n \in 1 .. Len(down) :
             /\ down[n].call = call => down[n].ok
             /\ down[n].call # call => n + retries < MaxRetries
        /\ \A n \in 1 .. Len(up) : up[n].call # call => Len(down) + n + retries < MaxRetries
    BY <1>0, <2>1 DEF Retried, CalmAhead
  <2>3. ASSUME NEW n \in 1 .. Len(up'), up'[n].call # call
        PROVE  Len(down) + n + retries < MaxRetries
    <3>1. n # Len(up) + 1
      BY <1>2, <1>3, <2>3
    <3>2. n \in 1 .. Len(up)
      BY <1>1, <1>3, <3>1
    <3> QED BY <1>3, <2>2, <2>3, <3>2
  <2>4. Len(down) + Len(up') > 0
    BY <1>1, <1>3
  <2> QED BY <2>2, <2>3, <2>4
<1> QED BY <1>0, <1>6, <1>7 DEF Retried, FewLeft

\* Behind the reply that is taken are only frames and replies of the same call.
LEMMA ReceivedLeaves ==
  ASSUME TypeOK, Recent, Retried, Received
  PROVE  Retried'
<1>0. /\ pc = "wait" /\ pc' = "idle" /\ down # <<>> /\ Good(Head(down))
      /\ down' = Tail(down) /\ up' = up
  BY DEF Received
<1>1. /\ down \in Seq(Reply) /\ Len(down) \in Nat /\ Len(up) \in Nat
      /\ retries \in Nat /\ MaxRetries \in Nat /\ retries < MaxRetries
  BY <1>0, Typed, BridgeAssumption DEF TypeOK
<1>2. Head(down) = down[1] /\ 1 \in 1 .. Len(down) /\ Len(down') = Len(down) - 1
  BY <1>0, <1>1, TailIsRest DEF Rest
<1>3. down[1].call = call
  BY <1>0, <1>2, OwnReply
<1>4. Len(down) + Len(up) - 1 < retries + 1
  <2>1. Waiting = 1
    BY <1>0 DEF Waiting
  <2> QED BY <1>0, <1>2, <1>3, <2>1 DEF Retried, FewOwn
<1>5. Len(down') + Len(up') < MaxRetries
  BY <1>0, <1>1, <1>2, <1>4
<1> QED BY <1>0, <1>5 DEF Retried, FewLeft, FewOwn, CalmAhead

\* The reply to a frame takes its place.
LEMMA ExecuteKeeps ==
  ASSUME TypeOK, InOrder, Recent, Retried, Execute
  PROVE  Retried'
<1> DEFINE frame == Head(up)
           reply == [index |-> frame.index, call |-> seen'.call, ok |-> TRUE]
<1>0. /\ up # <<>> /\ up' = Tail(up) /\ down' = Append(down, reply)
      /\ UNCHANGED <<pc, call, retries, calm>>
  BY DEF Execute, board
<1>1. /\ up \in Seq(Frame) /\ down \in Seq(Reply) /\ Len(up) \in Nat /\ Len(down) \in Nat
      /\ call \in Nat /\ Len(results) \in Nat /\ retries \in Nat /\ MaxRetries \in Nat
  BY Typed, BridgeAssumption DEF TypeOK
<1>2. frame = up[1] /\ 1 \in 1 .. Len(up) /\ frame \in Frame /\ Rest(up', up, 1)
  BY <1>0, <1>1, TailIsRest
<1>3. /\ Len(up') = Len(up) - 1
      /\ \A n \in 1 .. Len(up') : n + 1 \in 1 .. Len(up) /\ up'[n] = up[n + 1]
  BY <1>1, <1>2, RestElements DEF Rest
<1>4. seen'.call \in 1 .. call /\ (pc # "idle" => (seen'.call = call <=> frame.call = call))
  <2>1. CASE frame.index = seen.index
    <3>1. seen' = seen
      BY <2>1 DEF Execute, linux
    <3>2. seen.call # 0
      <4>1. frame.index \in 0 .. IndexSize - 1
        BY <1>2 DEF Frame
      <4>2. (seen.call = 0 => seen.index = IndexSize) /\ IndexSize \in Nat
        BY Typed
      <4> QED BY ONLY <2>1, <4>1, <4>2, SMT
    <3>3. seen.call \in 1 .. call
      BY <1>1, <3>2, Typed
    <3>4. ASSUME pc # "idle" PROVE seen.call = call <=> frame.call = call
      <4>1. call = Len(results) + 1
        BY <1>1, <3>4, Typed DEF TypeOK
      <4>2. Fits(seen, Len(results), index) /\ Fits(frame, Len(results), index)
        BY <1>2 DEF Recent
      <4>3. frame.call \in 1 .. call /\ frame.index \in 0 .. IndexSize - 1
        BY <1>2 DEF Frame
      <4>4. (frame.index + 1) % IndexSize # frame.index
        BY <4>3, NextIndex
      <4>5. CASE seen.call = call
        <5>1. frame.index = index
          BY <2>1, <4>1, <4>2, <4>5 DEF Fits
        <5> QED BY <4>1, <4>2, <4>3, <4>4, <4>5, <5>1 DEF Fits
      <4>6. CASE frame.call = call
        <5>1. seen.index = index
          BY <2>1, <4>1, <4>2, <4>6 DEF Fits
        <5>2. (seen.index + 1) % IndexSize # seen.index
          BY <2>1, <4>4
        <5> QED BY <3>2, <4>1, <4>2, <4>6, <5>1, <5>2 DEF Fits
      <4> QED BY <4>5, <4>6
    <3> QED BY <3>1, <3>3, <3>4
  <2>2. CASE frame.index # seen.index
    <3>1. seen' = frame
      BY <2>2 DEF Execute
    <3>2. frame.call \in 1 .. call
      BY <1>2 DEF Frame
    <3> QED BY <3>1, <3>2
  <2> QED BY <2>1, <2>2
<1>5. reply \in Reply /\ reply.call = seen'.call /\ reply.ok = TRUE
  BY <1>2, <1>4 DEF Frame, Reply
<1> HIDE DEF reply, frame
<1>6. /\ Len(down') = Len(down) + 1 /\ down'[Len(down) + 1] = reply
      /\ \A n \in 1 .. Len(down) : down'[n] = down[n]
      /\ \A n \in 1 .. Len(down') : n \in 1 .. Len(down) \/ n = Len(down) + 1
  <2>1. /\ Len(down') = Len(down) + 1 /\ down'[Len(down) + 1] = reply
        /\ \A n \in 1 .. Len(down) : down'[n] = down[n]
    BY <1>0, <1>1, <1>5, AppendProperties
  <2>2. \A n \in 1 .. Len(down') : n \in 1 .. Len(down) \/ n = Len(down) + 1
    BY <1>1, <2>1
  <2> QED BY <2>1, <2>2
<1>7. FewLeft'
  <2>1. Len(down') + Len(up') = Len(down) + Len(up)
    BY <1>1, <1>3, <1>6
  <2> QED BY <1>0, <2>1 DEF Retried, FewLeft
<1>8. Waiting' = Waiting /\ Waiting \in Nat
  BY <1>0 DEF Waiting
<1>9. FewOwn'
  <2>1. SUFFICES ASSUME pc # "idle"
                 PROVE  /\ \A n \in 1 .. Len(down') :
                             down'[n].call = call
                               => Len(down') + Len(up') - n < retries + Waiting
                        /\ \A n \in 1 .. Len(up') :
                             up'[n].call = call => Len(up') - n < retries + Waiting
    BY <1>0, <1>8 DEF FewOwn
  <2>2. /\ \A n \in 1 .. Len(down) :
             down[n].call = call => Len(down) + Len(up) - n < retries + Waiting
        /\ \A n \in 1 .. Len(up) : up[n].call = call => Len(up) - n < retries + Waiting
    BY <2>1 DEF Retried, FewOwn
  <2>3. ASSUME NEW n \in 1 .. Len(down'), down'[n].call = call
        PROVE  Len(down') + Len(up') - n < retries + Waiting
    <3>1. CASE n \in 1 .. Len(down)
      <4>1. Len(down) + Len(up) - n < retries + Waiting
        BY <1>6, <2>2, <2>3, <3>1
      <4> QED BY <1>1, <1>3, <1>6, <1>8, <4>1
    <3>2. CASE n = Len(down) + 1
      <4>1. up[1].call = call
        BY <1>2, <1>4, <1>5, <1>6, <2>1, <2>3, <3>2
      <4>2. Len(up) - 1 < retries + Waiting
        BY <1>2, <2>2, <4>1
      <4> QED BY <1>1, <1>3, <1>6, <1>8, <3>2, <4>2
    <3> QED BY <1>6, <3>1, <3>2
  <2>4. ASSUME NEW n \in 1 .. Len(up'), up'[n].call = call
        PROVE  Len(up') - n < retries + Waiting
    <3>1. Len(up) - (n + 1) < retries + Waiting
      BY <1>3, <2>2, <2>4
    <3> QED BY <1>1, <1>3, <1>8, <3>1
  <2> QED BY <2>3, <2>4
<1>10. CalmAhead'
  <2>1. SUFFICES ASSUME pc # "idle", calm, call \notin Long
                 PROVE  /\ \A n \in 1 .. Len(down') :
                             /\ down'[n].call = call => down'[n].ok
                             /\ down'[n].call # call => n + retries < MaxRetries
                        /\ \A n \in 1 .. Len(up') :
                             up'[n].call # call => Len(down') + n + retries < MaxRetries
                        /\ Len(down') + Len(up') > 0
    BY <1>0 DEF CalmAhead
  <2>2. /\ \A n \in 1 .. Len(down) :
             /\ down[n].call = call => down[n].ok
             /\ down[n].call # call => n + retries < MaxRetries
        /\ \A n \in 1 .. Len(up) : up[n].call # call => Len(down) + n + retries < MaxRetries
    BY <2>1 DEF Retried, CalmAhead
  <2>3. ASSUME NEW n \in 1 .. Len(down')
        PROVE  /\ down'[n].call = call => down'[n].ok
               /\ down'[n].call # call => n + retries < MaxRetries
    <3>1. CASE n \in 1 .. Len(down)
      BY <1>6, <2>2, <3>1
    <3>2. CASE n = Len(down) + 1
      <4>1. down'[n].ok
        BY <1>5, <1>6, <3>2
      <4>2. ASSUME down'[n].call # call PROVE n + retries < MaxRetries
        <5>1. up[1].call # call
          BY <1>2, <1>4, <1>5, <1>6, <2>1, <3>2, <4>2
        <5>2. Len(down) + 1 + retries < MaxRetries
          BY <1>2, <2>2, <5>1
        <5> QED BY <3>2, <5>2
      <4> QED BY <4>1, <4>2
    <3> QED BY <1>6, <3>1, <3>2
  <2>4. ASSUME NEW n \in 1 .. Len(up'), up'[n].call # call
        PROVE  Len(down') + n + retries < MaxRetries
    <3>1. Len(down) + (n + 1) + retries < MaxRetries
      BY <1>3, <2>2, <2>4
    <3> QED BY <1>1, <1>3, <1>6, <3>1
  <2>5. Len(down') + Len(up') > 0
    BY <1>1, <1>2, <1>3, <1>6
  <2> QED BY <2>3, <2>4, <2>5
<1> QED BY <1>7, <1>9, <1>10 DEF Retried

\* A fault leaves no more than there was, and ends the calm.
LEMMA LoseKeeps ==
  ASSUME TypeOK, Retried, Lose
  PROVE  Retried'
<1>0. UNCHANGED <<pc, call, retries>> /\ calm' = FALSE
  BY DEF Lose, board
<1>1. /\ up \in Seq(Frame) /\ down \in Seq(Reply) /\ Len(up) \in Nat /\ Len(down) \in Nat
      /\ retries \in Nat
  BY Typed DEF TypeOK
<1>2. Waiting' = Waiting /\ Waiting \in Nat
  BY <1>0 DEF Waiting
<1>3. CalmAhead'
  BY <1>0 DEF CalmAhead
<1>4. \E i \in {0, 1} : /\ Len(up') = Len(up) - i
                        /\ \A n \in 1 .. Len(up') : n + i \in 1 .. Len(up) /\ up'[n] = up[n + i]
  <2>1. CASE up' = up
    BY <1>1, <2>1
  <2>2. CASE up # <<>> /\ up' = Tail(up)
    <3>1. Rest(up', up, 1)
      BY <1>1, <2>2, TailIsRest
    <3> QED BY <1>1, <3>1, RestElements DEF Rest
  <2> QED BY <2>1, <2>2 DEF Lose
<1>5. \E j \in {0, 1} :
        /\ Len(down') = Len(down) - j
        /\ \A n \in 1 .. Len(down') :
             n + j \in 1 .. Len(down) /\ down'[n].call = down[n + j].call
  <2>1. CASE down' = down
    BY <1>1, <2>1
  <2>2. CASE down # <<>> /\ down' = Tail(down)
    <3>1. Rest(down', down, 1)
      BY <1>1, <2>2, TailIsRest
    <3> QED BY <1>1, <3>1, RestElements DEF Rest
  <2>3. CASE down # <<>> /\ down' = [down EXCEPT ![1].ok = FALSE]
    <3>1. /\ Len(down') = Len(down)
          /\ \A n \in 1 .. Len(down) : down'[n].call = down[n].call
      BY <2>3, Damaged
    <3> QED BY <1>1, <3>1
  <2> QED BY <2>1, <2>2, <2>3 DEF Lose
<1>6. PICK i \in {0, 1} : /\ Len(up') = Len(up) - i
                          /\ \A n \in 1 .. Len(up') : n + i \in 1 .. Len(up) /\ up'[n] = up[n + i]
  BY <1>4
<1>7. PICK j \in {0, 1} :
        /\ Len(down') = Len(down) - j
        /\ \A n \in 1 .. Len(down') :
             n + j \in 1 .. Len(down) /\ down'[n].call = down[n + j].call
  BY <1>5
<1>8. FewLeft'
  <2>1. MaxRetries \in Nat
    BY BridgeAssumption
  <2>2. Len(down') + Len(up') <= Len(down) + Len(up)
    BY <1>1, <1>6, <1>7
  <2>3. Len(down') + Len(up') \in Int
    BY <1>1, <1>6, <1>7
  <2>4. Len(down) + Len(up) < MaxRetries => Len(down') + Len(up') < MaxRetries
    BY <1>1, <2>1, <2>2, <2>3
  <2> QED BY <1>0, <2>4 DEF Retried, FewLeft
<1>9. FewOwn'
  <2>1. SUFFICES ASSUME pc # "idle"
                 PROVE  /\ \A n \in 1 .. Len(down') :
                             down'[n].call = call
                               => Len(down') + Len(up') - n < retries + Waiting
                        /\ \A n \in 1 .. Len(up') :
                             up'[n].call = call => Len(up') - n < retries + Waiting
    BY <1>0, <1>2 DEF FewOwn
  <2>2. /\ \A n \in 1 .. Len(down) :
             down[n].call = call => Len(down) + Len(up) - n < retries + Waiting
        /\ \A n \in 1 .. Len(up) : up[n].call = call => Len(up) - n < retries + Waiting
    BY <2>1 DEF Retried, FewOwn
  <2>3. ASSUME NEW n \in 1 .. Len(down'), down'[n].call = call
        PROVE  Len(down') + Len(up') - n < retries + Waiting
    <3>1. Len(down) + Len(up) - (n + j) < retries + Waiting
      BY <1>7, <2>2, <2>3
    <3> QED BY <1>1, <1>2, <1>6, <1>7, <3>1
  <2>4. ASSUME NEW n \in 1 .. Len(up'), up'[n].call = call
        PROVE  Len(up') - n < retries + Waiting
    <3>1. Len(up) - (n + i) < retries + Waiting
      BY <1>6, <2>2, <2>4
    <3> QED BY <1>1, <1>2, <1>6, <3>1
  <2> QED BY <2>3, <2>4
<1> QED BY <1>3, <1>8, <1>9 DEF Retried

LEMMA RetriedStep ==
  ASSUME TypeOK, InOrder, Recent, Retried, [Next]_vars, NoTimeout'
  PROVE  Retried'
<1>1. CASE Rejected \/ TimedOut
  <2>1. pc' # "idle"
    <3>1. SUFFICES ASSUME pc' = "idle" PROVE FALSE
      OBVIOUS
    <3>2. results' = Append(results, Timeout)
      BY <1>1, <3>1 DEF Rejected, TimedOut, Retry
    <3>3. results \in Seq(1 .. call \cup {Timeout}) /\ Timeout \in 1 .. call \cup {Timeout}
      BY DEF TypeOK
    <3>4. Len(results') = Len(results) + 1 /\ results'[Len(results) + 1] = Timeout
      BY <3>2, <3>3, AppendProperties
    <3>5. Len(results) + 1 \in 1 .. Len(results')
      BY <3>4, Typed
    <3> QED BY <3>4, <3>5 DEF NoTimeout
  <2> QED BY <1>1, <2>1, RetryKeeps
<1>2. CASE UNCHANGED vars
  BY <1>2 DEF vars, board, Retried, FewLeft, FewOwn, CalmAhead, Waiting
<1> QED
  BY <1>1, <1>2, TransferKeeps, SendKeeps, ReceivedLeaves, ExecuteKeeps, LoseKeeps
     DEF Next, Board

CalmInv == IInv /\ (NoTimeout => Retried) /\ CalmReturns

LEMMA CalmInit == Init => CalmInv
<1> SUFFICES ASSUME Init PROVE CalmInv
  OBVIOUS
<1>1. up = <<>> /\ down = <<>> /\ results = <<>> /\ pc = "idle"
  BY DEF Init
<1>2. Len(<<>>) = 0 /\ DOMAIN <<>> = 1 .. 0
  BY EmptySeq, LenProperties
<1>3. Retried
  BY <1>1, <1>2, BridgeAssumption DEF Retried, FewLeft, FewOwn, CalmAhead
<1>4. CalmReturns
  BY <1>1, <1>2 DEF CalmReturns
<1> QED BY <1>3, <1>4, InitInv DEF CalmInv

LEMMA CalmStep ==
  ASSUME IInv, NoTimeout => Retried, CalmReturns, [Next]_vars
  PROVE  CalmReturns'
<1> DEFINE N == Len(results)
<1>0. /\ TypeOK /\ (NoTimeout => Recent)
      /\ results \in Seq(1 .. call \cup {Timeout}) /\ N \in Nat /\ DOMAIN results = 1 .. N
  BY Typed, LenProperties DEF IInv, TypeOK
<1>1. CASE pc' # "idle"
  BY <1>1 DEF CalmReturns
<1>2. CASE UNCHANGED <<results, pc>> /\ (calm' => calm)
  BY <1>2 DEF CalmReturns
<1>3. CASE Received
  <2>1. Head(down) \in Reply /\ results' = Append(results, Head(down).call)
    BY <1>0, <1>3, Typed, TailIsRest DEF Received
  <2>2. Head(down).call \in 1 .. call /\ Head(down).call # Timeout
    <3>1. Head(down).call \in 1 .. call
      BY <2>1 DEF Reply
    <3>2. Head(down).call \in Nat
      BY <1>0, <3>1, Typed
    <3> QED BY <3>1, <3>2, BridgeAssumption
  <2>3. Len(results') = N + 1 /\ results'[N + 1] # Timeout
    BY <1>0, <2>1, <2>2, AppendProperties
  <2> QED BY <2>3 DEF CalmReturns
<1>4. CASE (Rejected \/ TimedOut) /\ pc' = "idle"
  <2>1. results' = Append(results, Timeout) /\ retries' = retries + 1
        /\ ~(retries' < MaxRetries) /\ pc = "wait"
    BY <1>4 DEF Rejected, TimedOut, Retry
  <2>2. /\ Len(results') = N + 1 /\ \A n \in 1 .. N : results'[n] = results[n]
        /\ DOMAIN results' = 1 .. N + 1
    <3>1. results' \in Seq(1 .. call \cup {Timeout})
      BY <1>0, <2>1
    <3>2. Len(results') = N + 1 /\ \A n \in 1 .. N : results'[n] = results[n]
      BY <1>0, <2>1, AppendProperties
    <3> QED BY <3>1, <3>2, LenProperties
  <2>3. call = N + 1
    BY <1>0, <2>1, Typed DEF TypeOK
  <2>4. ASSUME calm', N + 1 \notin Long, \A m \in 1 .. N : results'[m] # Timeout
        PROVE  FALSE
    <3>1. NoTimeout
      BY <2>2, <2>4 DEF NoTimeout
    <3>2. Recent /\ Retried
      BY <1>0, <3>1
    <3>3. retries + 1 < MaxRetries
      BY <1>0, <1>4, <2>3, <2>4, <3>2, CalmRetries
    <3> QED BY <2>1, <3>3
  <2>5. ASSUME NEW n \in DOMAIN results', n = Len(results'), calm', n \notin Long,
               \A m \in 1 .. n - 1 : results'[m] # Timeout
        PROVE  results'[n] # Timeout
    <3>1. n = N + 1 /\ 1 .. n - 1 = 1 .. N
      BY <1>0, <2>2, <2>5
    <3> QED BY <2>4, <2>5, <3>1
  <2> QED BY <2>5 DEF CalmReturns
<1> QED
  BY <1>1, <1>2, <1>3, <1>4
     DEF Next, Board, transfer, Send, Execute, Lose, Rejected, TimedOut, vars, board

LEMMA CalmInvStep == CalmInv /\ [Next]_vars => CalmInv'
<1> SUFFICES ASSUME CalmInv, [Next]_vars PROVE CalmInv'
  OBVIOUS
<1>1. IInv /\ (NoTimeout => Retried) /\ CalmReturns
  BY DEF CalmInv
<1>2. IInv'
  BY <1>1, InvStep
<1>3. NoTimeout' => Retried'
  <2>1. TypeOK /\ InOrder /\ (NoTimeout => Recent)
    BY <1>1 DEF IInv
  <2> QED BY <1>1, <2>1, ResultsStay, RetriedStep
<1>4. CalmReturns'
  BY <1>1, CalmStep
<1> QED BY <1>2, <1>3, <1>4 DEF CalmInv

\* Replies of earlier calls never use up the retries of a later one: for any number
\* of retries, a call that nothing failed and whose reply fits returns it, as long as
\* none before it was given up.
THEOREM CalmCallsReturn == Spec => []CalmReturns
<1>1. CalmInv => CalmReturns
  BY DEF CalmInv
<1> QED BY <1>1, CalmInit, CalmInvStep, PTL DEF Spec

=============================================================================
