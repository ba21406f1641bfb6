------------------------------ MODULE ScreensProofs ------------------------------
(***************************************************************************)
(* What the screens of the clients show.  The rows of the script screen,   *)
(* for scripts of any length and any choice of views: every row is found at*)
(* its place in the adapter's own list, and the buttons work on the action *)
(* that was tapped.  The web page, and the test server whose logs it shows:*)
(* the log of actions accounts for the state of the robot, every change is *)
(* announced, the page comes to be sent what the server holds, and the     *)
(* server does to its robot what the sketch does to the arm.               *)
(* The store of scripts, for any tables, tasks and ends of the process: a  *)
(* save is not lost, the script removed is the one whose button was        *)
(* pressed, the list shows what is stored once all has been done, and the  *)
(* table is written in the order of the changes.                           *)
(***************************************************************************)
EXTENDS ScriptRows, GaorangerProofs, FiniteSetTheorems

Types ==
  /\ script \in Seq(Nat) /\ stored \in Seq(Nat) /\ intent \in Seq(Nat)
  /\ laid \in Seq(View) /\ viewList \in Seq(View)
  /\ tag \in [View -> Nat] /\ shown = [v \in View |-> shown[v]]
  /\ current_pos \in Nat /\ enabled \in BOOLEAN /\ strayed \in BOOLEAN /\ changes \in Nat
  /\ prompts \in Nat

\* No view is two rows, or a row and a former one.
Apart ==
  /\ \A i, j \in 1 .. Len(laid) : laid[i] = laid[j] => i = j
  /\ \A i \in 1 .. Len(laid) : laid[i] \notin fading
  /\ fading \subseteq View

IInv == Types /\ Apart /\ ViewsMatchRows /\ SelectsTapped

-----------------------------------------------------------------------------
(***************************************************************************)
(* Sequences.                                                              *)
(***************************************************************************)
LEMMA SameBound ==
  ASSUME NEW a \in Nat, NEW b \in Nat, 1 .. a = 1 .. b
  PROVE  a = b
<1>1. a <= b
  <2>1. CASE a = 0
    BY <2>1
  <2>2. CASE a # 0
    <3>1. a \in 1 .. a
      BY <2>2
    <3>2. a \in 1 .. b
      BY <3>1
    <3> QED BY <3>2
  <2> QED BY <2>1, <2>2
<1>2. b <= a
  <2>1. CASE b = 0
    BY <2>1
  <2>2. CASE b # 0
    <3>1. b \in 1 .. b
      BY <2>2
    <3>2. b \in 1 .. a
      BY <3>1
    <3> QED BY <3>2
  <2> QED BY <2>1, <2>2
<1> QED BY <1>1, <1>2

LEMMA Domains ==
  ASSUME NEW S, NEW s \in Seq(S)
  PROVE  /\ Len(s) \in Nat /\ DOMAIN s = 1 .. Len(s) /\ \A i \in 1 .. Len(s) : s[i] \in S
         /\ ToSet(s) = {s[i] : i \in 1 .. Len(s)}
<1>1. Len(s) \in Nat /\ DOMAIN s = 1 .. Len(s) /\ \A i \in 1 .. Len(s) : s[i] \in S
  BY LenProperties
<1> QED BY <1>1 DEF ToSet

\* The views that are taken are a sequence of different views.
AreTaken(vs, n, free) ==
  /\ vs \in Seq(View) /\ Len(vs) = n /\ ToSet(vs) = {vs[i] : i \in 1 .. n}
  /\ \A i \in 1 .. n : vs[i] \in free
  /\ \A i, j \in 1 .. n : vs[i] = vs[j] => i = j

LEMMA TakenViews ==
  ASSUME NEW n \in Nat, NEW free, free \subseteq View, NEW vs \in Taken(n, free)
  PROVE  AreTaken(vs, n, free)
<1>1. vs \in [1 .. n -> free] /\ IsInjective(vs)
  BY DEF Taken
<1>2. vs \in [1 .. n -> View]
  BY <1>1
<1>3. vs \in Seq(View)
  BY <1>2, SeqDef
<1>4. DOMAIN vs = 1 .. n
  BY <1>1
<1>5. Len(vs) = n
  <2>1. Len(vs) \in Nat /\ DOMAIN vs = 1 .. Len(vs)
    BY <1>3, LenProperties
  <2>2. 1 .. Len(vs) = 1 .. n
    BY <1>4, <2>1
  <2> QED BY <2>1, <2>2, SameBound
<1>6. \A i, j \in 1 .. n : vs[i] = vs[j] => i = j
  BY <1>1, <1>4 DEF IsInjective
<1> QED BY <1>1, <1>3, <1>4, <1>5, <1>6 DEF ToSet, AreTaken

\* A beginning of a sequence, and another sequence after it.
Join(s, p, t) == SubSeq(s, 1, p) \o t

IsJoin(u, s, p, t) ==
  /\ Len(u) = p + Len(t) /\ Len(t) \in Nat
  /\ \A i \in 1 .. p : u[i] = s[i]
  /\ \A i \in 1 .. Len(t) : u[p + i] = t[i]

LEMMA Joined ==
  ASSUME NEW S, NEW s \in Seq(S), NEW t \in Seq(S), NEW p \in 0 .. Len(s),
         NEW u, u = Join(s, p, t)
  PROVE  u \in Seq(S) /\ IsJoin(u, s, p, t)
<1>1. /\ p \in Nat /\ Len(s) \in Nat /\ Len(t) \in Nat
      /\ \A i \in 1 .. p : i \in 1 .. Len(s) /\ s[i] \in S
  BY Domains
<1> DEFINE b == SubSeq(s, 1, p)
<1>2. /\ b \in Seq(S) /\ Len(b) = (IF 1 <= p THEN p - 1 + 1 ELSE 0)
      /\ \A i \in 1 .. p - 1 + 1 : b[i] = s[1 + i - 1]
  BY <1>1, SubSeqProperties
<1>3. Len(b) = p /\ \A i \in 1 .. p : b[i] = s[i]
  BY <1>1, <1>2
<1> HIDE DEF b
<1>4. /\ b \o t \in Seq(S) /\ Len(b \o t) = Len(b) + Len(t)
      /\ \A i \in 1 .. Len(b) + Len(t) : (b \o t)[i] = IF i <= Len(b) THEN b[i] ELSE t[i - Len(b)]
  BY <1>2, ConcatProperties
<1>5. u = b \o t
  BY DEF b, Join
<1>6. \A i \in 1 .. p : u[i] = s[i]
  BY <1>1, <1>3, <1>4, <1>5
<1>7. \A i \in 1 .. Len(t) : u[p + i] = t[i]
  <2>1. TAKE i \in 1 .. Len(t)
  <2>2. p + i \in 1 .. p + Len(t) /\ ~(p + i <= p) /\ p + i - p = i
    BY <1>1
  <2> QED BY <1>3, <1>4, <1>5, <2>2
<1> QED BY <1>1, <1>3, <1>4, <1>5, <1>6, <1>7 DEF IsJoin

\* An action is taken out of a script.
IsRemoved(u, s, p, S) ==
  /\ u \in Seq(S) /\ Len(u) = Len(s) - 1 /\ Len(s) \in Nat
  /\ \A i \in 1 .. p : u[i] = s[i]

LEMMA Removed ==
  ASSUME NEW S, NEW s \in Seq(S), NEW p \in Nat, p < Len(s),
         NEW k, k = p + 1, NEW u, u = RemoveAt(s, k)
  PROVE  IsRemoved(u, s, p, S)
<1>1. Len(s) \in Nat /\ \A i \in p + 2 .. Len(s) : s[i] \in S
  BY Domains
<1> DEFINE t == SubSeq(s, p + 2, Len(s))
<1>2. t \in Seq(S) /\ Len(t) = IF p + 2 <= Len(s) THEN Len(s) - (p + 2) + 1 ELSE 0
  BY <1>1, SubSeqProperties
<1>3. Len(t) = Len(s) - p - 1
  BY <1>1, <1>2
<1>4. u = Join(s, p, t)
  <2>1. u = SubSeq(s, 1, k - 1) \o SubSeq(s, k + 1, Len(s))
    BY DEF RemoveAt
  <2>2. k - 1 = p /\ k + 1 = p + 2
    OBVIOUS
  <2> QED BY <2>1, <2>2 DEF Join
<1>5. p \in 0 .. Len(s)
  BY <1>1
<1> HIDE DEF t
<1>6. u \in Seq(S) /\ Len(u) = p + Len(t) /\ \A i \in 1 .. p : u[i] = s[i]
  <2>1. u \in Seq(S) /\ IsJoin(u, s, p, t)
    BY <1>2, <1>4, <1>5, Joined
  <2> QED BY <2>1 DEF IsJoin
<1> QED BY <1>1, <1>3, <1>6 DEF IsRemoved

-----------------------------------------------------------------------------
(***************************************************************************)
(* Rows that are bound.                                                    *)
(***************************************************************************)
\* A view that is bound is told its row; one that is not stays as it is while it
\* is on the screen.
AreBound(list, from, n, vs) ==
  /\ viewList' = Join(viewList, from, vs)
  /\ tag' \in [View -> Nat] /\ shown' = [v \in View |-> shown'[v]]
  /\ \A i \in 1 .. n : tag'[vs[i]] = from + i - 1 /\ shown'[vs[i]] = list[from + i]
  /\ \A v \in View : v \notin ToSet(vs) /\ v \in ToSet(laid') =>
       tag'[v] = tag[v] /\ shown'[v] = shown[v]

LEMMA Binds ==
  ASSUME Types, NEW list, NEW from \in Nat, NEW n \in Nat, NEW free, free \subseteq View,
         NEW vs \in Taken(n, free), onBindViewHolder(list, from, vs)
  PROVE  AreBound(list, from, n, vs)
<1> DEFINE row(v) == from + CHOOSE i \in DOMAIN vs : vs[i] = v
           of(v, bound, before) == IF v \in ToSet(vs) THEN bound
                                   ELSE IF v \in ToSet(laid') \cup fading' THEN before ELSE 0
<1>1. /\ viewList' = SubSeq(viewList, 1, from) \o vs
      /\ tag'   = [v \in View |-> of(v, Tag(row(v)), tag[v])]
      /\ shown' = [v \in View |-> of(v, list[row(v)], shown[v])]
  BY DEF onBindViewHolder, Bound
<1>2. /\ vs \in Seq(View) /\ Len(vs) = n /\ ToSet(vs) = {vs[i] : i \in 1 .. n}
      /\ \A i \in 1 .. n : vs[i] \in View
      /\ \A i, j \in 1 .. n : vs[i] = vs[j] => i = j
  <2>1. AreTaken(vs, n, free)
    BY TakenViews
  <2> QED BY <2>1 DEF AreTaken
<1>3. DOMAIN vs = 1 .. n
  BY <1>2, Domains
<1>4. ASSUME NEW i \in 1 .. n
      PROVE  row(vs[i]) = from + i
  <2>1. (CHOOSE j \in DOMAIN vs : vs[j] = vs[i]) = i
    BY <1>2, <1>3
  <2> QED BY <2>1
<1>5. \A i \in 1 .. n : Tag(row(vs[i])) = from + i - 1 /\ from + i - 1 \in Nat
  BY <1>4 DEF Tag
<1> HIDE DEF row
<1>6. \A v \in View : v \in ToSet(vs) => Tag(row(v)) \in Nat
  BY <1>2, <1>5
<1>7. \A v \in View : tag'[v] = of(v, Tag(row(v)), tag[v])
                      /\ shown'[v] = of(v, list[row(v)], shown[v])
  BY <1>1
<1>8. tag' \in [View -> Nat]
  <2>1. \A v \in View : of(v, Tag(row(v)), tag[v]) \in Nat
    BY <1>6 DEF Types
  <2> QED BY <1>1, <2>1
<1>9. \A i \in 1 .. n : tag'[vs[i]] = from + i - 1 /\ shown'[vs[i]] = list[from + i]
  <2>1. TAKE i \in 1 .. n
  <2>2. vs[i] \in View /\ vs[i] \in ToSet(vs)
    BY <1>2
  <2> QED BY <1>4, <1>5, <1>7, <2>2
<1>10. \A v \in View : v \notin ToSet(vs) /\ v \in ToSet(laid') =>
         tag'[v] = tag[v] /\ shown'[v] = shown[v]
  BY <1>7
<1>11. shown' = [v \in View |-> shown'[v]]
  BY <1>1
<1> QED BY <1>1, <1>8, <1>9, <1>10, <1>11 DEF Join, AreBound

\* All rows are bound to views that do not fade.
LEMMA AllBound ==
  ASSUME Types, fading' \subseteq View, script' \in Seq(Nat),
         NEW vs \in Taken(Len(script'), View \ fading'),
         laid' = vs, onBindViewHolder(script', 0, vs)
  PROVE  /\ laid' \in Seq(View) /\ viewList' \in Seq(View) /\ tag' \in [View -> Nat]
         /\ shown' = [v \in View |-> shown'[v]]
         /\ Apart' /\ ViewsMatchRows'
<1> DEFINE n == Len(script')
<1>1. n \in Nat /\ DOMAIN script' = 1 .. n
  BY Domains
<1>2. View \ fading' \subseteq View
  OBVIOUS
<1>3. /\ vs \in Seq(View) /\ Len(vs) = n /\ \A i \in 1 .. n : vs[i] \in View \ fading'
      /\ \A i, j \in 1 .. n : vs[i] = vs[j] => i = j
  <2>1. AreTaken(vs, n, View \ fading')
    BY <1>1, <1>2, TakenViews
  <2> QED BY <2>1 DEF AreTaken
<1> PICK list : list = script'
  OBVIOUS
<1>4. /\ viewList' = Join(viewList, 0, vs)
      /\ tag' \in [View -> Nat] /\ shown' = [v \in View |-> shown'[v]]
      /\ \A i \in 1 .. n : tag'[vs[i]] = 0 + i - 1 /\ shown'[vs[i]] = script'[0 + i]
  <2>1. onBindViewHolder(list, 0, vs)
    OBVIOUS
  <2> DEFINE free == View \ fading'
  <2>2. vs \in Taken(n, free)
    OBVIOUS
  <2> HIDE DEF n, free
  <2>3. AreBound(list, 0, n, vs)
    BY <1>1, <1>2, <2>1, <2>2, Binds DEF free
  <2> QED BY <2>3 DEF AreBound
<1>5. viewList' = vs
  <2>1. SubSeq(viewList, 1, 0) = <<>>
    BY SubSeqEmpty
  <2> QED BY <1>3, <1>4, <2>1, ConcatEmptySeq DEF Join
<1>6. ViewsMatchRows'
  <2>1. \A i \in 1 .. n : tag'[vs[i]] = i - 1 /\ shown'[vs[i]] = script'[i]
    BY <1>4
  <2> QED BY <1>1, <1>3, <1>5, <2>1 DEF ViewsMatchRows
<1> QED BY <1>3, <1>4, <1>5, <1>6 DEF Apart

\* The rows after the one that was removed are bound to views that are not on the
\* screen; the rows before it keep theirs.
LEMMA RowRemoved ==
  ASSUME Types, Apart, ViewsMatchRows, current_pos < Len(script),
         script' = RemoveAt(script, current_pos + 1),
         notifyItemRemoved(current_pos, script')
  PROVE  /\ laid' \in Seq(View) /\ viewList' \in Seq(View) /\ tag' \in [View -> Nat]
         /\ shown' = [v \in View |-> shown'[v]] /\ script' \in Seq(Nat)
         /\ Apart' /\ ViewsMatchRows'
<1> DEFINE p == current_pos
           n == Len(script') - p
           free == View \ (fading \cup ToSet(laid))
<1>1. PICK vs \in Taken(n, free) :
        /\ laid' = SubSeq(laid, 1, p) \o vs
        /\ fading' = fading \cup ToSet(SubSeq(laid, p + 1, Len(laid)))
        /\ onBindViewHolder(script', p, vs)
  BY DEF notifyItemRemoved
<1>0. laid' = Join(laid, p, vs)
  BY <1>1 DEF Join
<1> PICK list : list = script'
  OBVIOUS
<1>2. /\ script' \in Seq(Nat) /\ Len(script') = Len(script) - 1 /\ Len(script) \in Nat /\ p \in Nat
      /\ \A i \in 1 .. p : script'[i] = script[i]
  <2>1. /\ script \in Seq(Nat) /\ p \in Nat /\ p < Len(script)
        /\ script' = RemoveAt(script, p + 1)
    BY DEF Types
  <2> HIDE DEF p
  <2>2. PICK k : k = p + 1
    OBVIOUS
  <2>3. script' = RemoveAt(script, k)
    BY <2>1, <2>2
  <2>4. IsRemoved(script', script, p, Nat)
    BY ONLY <2>1, <2>2, <2>3, Removed
  <2> QED BY <2>1, <2>4 DEF IsRemoved
<1>3. n \in Nat /\ free \subseteq View /\ p \in 0 .. Len(laid) /\ p \in 0 .. Len(viewList)
      /\ Len(laid) = Len(script) /\ Len(viewList) = Len(script)
  BY <1>2 DEF ViewsMatchRows
<1>4. /\ vs \in Seq(View) /\ Len(vs) = n /\ ToSet(vs) = {vs[i] : i \in 1 .. n}
      /\ \A i \in 1 .. n : vs[i] \in free
      /\ \A i, j \in 1 .. n : vs[i] = vs[j] => i = j
  <2>1. n \in Nat /\ free \subseteq View /\ vs \in Taken(n, free)
    BY <1>3
  <2> HIDE DEF n, free
  <2>2. AreTaken(vs, n, free)
    BY <2>1, TakenViews
  <2> QED BY <2>2 DEF AreTaken
<1>5. laid \in Seq(View) /\ viewList \in Seq(View) /\ DOMAIN script = 1 .. Len(script)
      /\ ToSet(laid) = {laid[i] : i \in 1 .. Len(laid)}
      /\ \A i \in 1 .. Len(laid) : laid[i] \in View
  <2>1. laid \in Seq(View) /\ viewList \in Seq(View) /\ script \in Seq(Nat)
    BY DEF Types
  <2>2. DOMAIN script = 1 .. Len(script)
    BY ONLY <2>1, Domains
  <2>3. /\ ToSet(laid) = {laid[i] : i \in 1 .. Len(laid)}
        /\ \A i \in 1 .. Len(laid) : laid[i] \in View
    BY ONLY <2>1, Domains
  <2> QED BY <2>1, <2>2, <2>3
<1>6. /\ viewList' = Join(viewList, p, vs)
      /\ tag' \in [View -> Nat] /\ shown' = [v \in View |-> shown'[v]]
      /\ \A i \in 1 .. n : tag'[vs[i]] = p + i - 1 /\ shown'[vs[i]] = script'[p + i]
      /\ \A v \in View : v \notin ToSet(vs) /\ v \in ToSet(laid') =>
           tag'[v] = tag[v] /\ shown'[v] = shown[v]
  <2>1. onBindViewHolder(list, p, vs)
    BY <1>1
  <2> HIDE DEF n, free, p
  <2>2. AreBound(list, p, n, vs)
    BY <1>2, <1>3, <2>1, Binds
  <2> QED BY <2>2 DEF AreBound
<1>7. /\ laid' \in Seq(View) /\ Len(laid') = p + n
      /\ \A i \in 1 .. p : laid'[i] = laid[i]
      /\ \A i \in 1 .. n : laid'[p + i] = vs[i]
  <2>1. laid' \in Seq(View) /\ IsJoin(laid', laid, p, vs)
    <3> HIDE DEF n, free, p
    <3> QED BY <1>0, <1>3, <1>4, <1>5, Joined
  <2> QED BY <1>4, <2>1 DEF IsJoin
<1>8. /\ viewList' \in Seq(View) /\ Len(viewList') = p + n
      /\ \A i \in 1 .. p : viewList'[i] = viewList[i]
      /\ \A i \in 1 .. n : viewList'[p + i] = vs[i]
  <2>1. viewList' \in Seq(View) /\ IsJoin(viewList', viewList, p, vs)
    <3> HIDE DEF n, free, p
    <3> QED BY <1>3, <1>4, <1>5, <1>6, Joined
  <2> QED BY <1>4, <2>1 DEF IsJoin
<1>9. \A i \in 1 .. p : script'[i] = script[i]
  BY <1>2
<1>10. p + n = Len(script') /\ Len(script') \in Nat /\ DOMAIN script' = 1 .. Len(script')
       /\ Len(script') < Len(script)
  BY <1>2, Domains
<1> HIDE DEF n, free, p
<1>11. \A i \in 1 .. Len(script') : i \in 1 .. p \/ \E j \in 1 .. n : i = p + j
  <2>1. TAKE i \in 1 .. Len(script')
  <2>2. CASE i <= p
    BY <1>2, <2>2
  <2>3. CASE ~(i <= p)
    <3>1. i - p \in 1 .. n /\ i = p + (i - p)
      BY <1>2, <1>3, <1>10, <2>3
    <3> QED BY <3>1
  <2> QED BY <2>2, <2>3
<1>12. \A i \in 1 .. p : laid[i] \in ToSet(laid) /\ laid[i] \in View /\ laid[i] \notin ToSet(vs)
                         /\ i \in 1 .. Len(laid) /\ i \in 1 .. Len(script)
  BY <1>2, <1>3, <1>4, <1>5 DEF free
<1>13. \A i \in 1 .. p : laid[i] \in ToSet(laid')
  <2>1. ToSet(laid') = {laid'[i] : i \in 1 .. Len(laid')}
    BY <1>7, Domains
  <2>2. \A i \in 1 .. p : i \in 1 .. Len(laid')
    BY <1>2, <1>3, <1>7
  <2> QED BY <1>7, <2>1, <2>2
<1>14. ViewsMatchRows'
  <2>1. ASSUME NEW i \in 1 .. Len(script')
        PROVE  /\ viewList'[i] = laid'[i]
               /\ tag'[laid'[i]] = i - 1 /\ shown'[laid'[i]] = script'[i]
    <3>1. CASE i \in 1 .. p
      <4>1. viewList[i] = laid[i] /\ tag[laid[i]] = i - 1 /\ shown[laid[i]] = script[i]
        BY <1>5, <1>12, <3>1 DEF ViewsMatchRows
      <4>2. laid'[i] = laid[i] /\ viewList'[i] = viewList[i] /\ script'[i] = script[i]
        BY <1>7, <1>8, <1>9, <3>1
      <4>3. tag'[laid[i]] = tag[laid[i]] /\ shown'[laid[i]] = shown[laid[i]]
        BY <1>6, <1>12, <1>13, <3>1
      <4> QED BY <4>1, <4>2, <4>3
    <3>2. CASE \E j \in 1 .. n : i = p + j
      <4>1. PICK j \in 1 .. n : i = p + j
        BY <3>2
      <4>2. laid'[i] = vs[j] /\ viewList'[i] = vs[j]
        BY <1>7, <1>8, <4>1
      <4>3. tag'[vs[j]] = i - 1 /\ shown'[vs[j]] = list[i]
        <5>1. p + j - 1 = i - 1
          BY <1>2, <1>3, <4>1
        <5> QED BY <1>6, <4>1, <5>1
      <4> QED BY <4>2, <4>3
    <3> QED BY <1>11, <3>1, <3>2
  <2> QED BY <1>7, <1>8, <1>10, <2>1 DEF ViewsMatchRows
<1>15. ToSet(SubSeq(laid, p + 1, Len(laid))) = {laid[i] : i \in p + 1 .. Len(laid)}
  <2> DEFINE t == SubSeq(laid, p + 1, Len(laid))
             m == Len(laid) - p
  <2>1. m \in Nat /\ \A i \in p + 1 .. Len(laid) : i \in 1 .. Len(laid) /\ laid[i] \in View
    BY <1>2, <1>3, <1>5
  <2>2. /\ t \in Seq(View)
        /\ Len(t) = IF p + 1 <= Len(laid) THEN Len(laid) - (p + 1) + 1 ELSE 0
        /\ \A i \in 1 .. Len(laid) - (p + 1) + 1 : t[i] = laid[p + 1 + i - 1]
    <3>1. p + 1 \in Int /\ Len(laid) \in Int /\ \A i \in p + 1 .. Len(laid) : laid[i] \in View
      BY <1>2, <1>3, <2>1
    <3> QED BY ONLY <3>1, SubSeqProperties
  <2> HIDE DEF t
  <2>3. Len(t) = m /\ \A i \in 1 .. m : t[i] = laid[p + i]
    <3>1. Len(t) = m
      BY <1>2, <1>3, <2>2
    <3>2. \A i \in 1 .. m : i \in 1 .. Len(laid) - (p + 1) + 1 /\ p + 1 + i - 1 = p + i
      BY <1>2, <1>3
    <3> QED BY <2>2, <3>1, <3>2
  <2>4. ToSet(t) = {t[i] : i \in 1 .. m}
    BY <2>2, <2>3, Domains
  <2>5. \A i \in 1 .. m : p + i \in p + 1 .. Len(laid)
    BY <1>2, <1>3
  <2>6. \A i \in p + 1 .. Len(laid) : i - p \in 1 .. m /\ t[i - p] = laid[i]
    <3>1. TAKE i \in p + 1 .. Len(laid)
    <3>2. i - p \in 1 .. m /\ p + (i - p) = i
      BY <1>2, <1>3
    <3> QED BY <2>3, <3>2
  <2>7. {t[i] : i \in 1 .. m} = {laid[i] : i \in p + 1 .. Len(laid)}
    BY <2>3, <2>5, <2>6
  <2> QED BY <2>4, <2>7 DEF t
<1>16. \A i \in 1 .. Len(laid') : laid'[i] \notin fading'
  <2>0. fading' = fading \cup {laid[i] : i \in p + 1 .. Len(laid)}
    BY <1>1, <1>15 DEF p
  <2>1. ASSUME NEW i \in 1 .. p PROVE laid[i] \notin fading'
    <3>1. laid[i] \notin fading
      BY <1>12 DEF Apart
    <3>2. \A j \in p + 1 .. Len(laid) : laid[j] # laid[i]
      <4>1. TAKE j \in p + 1 .. Len(laid)
      <4>2. j \in 1 .. Len(laid) /\ i # j /\ i \in 1 .. Len(laid)
        BY <1>2, <1>3, <1>12
      <4> QED BY <4>2 DEF Apart
    <3> QED BY ONLY <2>0, <3>1, <3>2
  <2>2. ASSUME NEW j \in 1 .. n PROVE vs[j] \notin fading'
    <3>1. vs[j] \notin fading /\ vs[j] \notin ToSet(laid)
      BY <1>4 DEF free
    <3>2. \A i \in p + 1 .. Len(laid) : laid[i] \in ToSet(laid)
      BY <1>2, <1>3, <1>5
    <3> QED BY ONLY <2>0, <3>1, <3>2
  <2> QED BY <1>7, <1>10, <1>11, <2>1, <2>2
<1>17. \A i, j \in 1 .. Len(laid') : laid'[i] = laid'[j] => i = j
  <2>1. TAKE i, j \in 1 .. Len(laid')
  <2>2. HAVE laid'[i] = laid'[j]
  <2>3. CASE i \in 1 .. p /\ j \in 1 .. p
    BY <1>7, <1>12, <2>2, <2>3 DEF Apart
  <2>4. CASE i \in 1 .. p /\ \E k \in 1 .. n : j = p + k
    <3>1. PICK k \in 1 .. n : j = p + k
      BY <2>4
    <3>2. laid'[j] = vs[k] /\ vs[k] \in free /\ laid'[i] = laid[i]
      BY <1>4, <1>7, <2>4, <3>1
    <3>3. laid[i] \in ToSet(laid)
      BY <1>12, <2>4
    <3> QED BY <2>2, <3>2, <3>3 DEF free
  <2>5. CASE (\E k \in 1 .. n : i = p + k) /\ j \in 1 .. p
    <3>1. PICK k \in 1 .. n : i = p + k
      BY <2>5
    <3>2. laid'[i] = vs[k] /\ vs[k] \in free /\ laid'[j] = laid[j]
      BY <1>4, <1>7, <2>5, <3>1
    <3>3. laid[j] \in ToSet(laid)
      BY <1>12, <2>5
    <3> QED BY <2>2, <3>2, <3>3 DEF free
  <2>6. CASE (\E k \in 1 .. n : i = p + k) /\ (\E k \in 1 .. n : j = p + k)
    <3>1. PICK k \in 1 .. n : i = p + k
      BY <2>6
    <3>2. PICK l \in 1 .. n : j = p + l
      BY <2>6
    <3>3. vs[k] = vs[l]
      BY <1>7, <2>2, <3>1, <3>2
    <3>4. k = l
      BY <1>4, <3>3
    <3> QED BY <3>1, <3>2, <3>4
  <2> QED BY <1>7, <1>10, <1>11, <2>3, <2>4, <2>5, <2>6
<1>18. fading' \subseteq View
  <2>1. \A i \in p + 1 .. Len(laid) : laid[i] \in View
    BY <1>2, <1>3, <1>5
  <2> QED BY <1>1, <1>15, <2>1 DEF Apart, p
<1> QED BY <1>2, <1>6, <1>7, <1>8, <1>14, <1>16, <1>17, <1>18 DEF Apart

-----------------------------------------------------------------------------
(***************************************************************************)
(* The invariant.                                                          *)
(***************************************************************************)
LEMMA InitIInv ==
  ASSUME Init
  PROVE  IInv
<1>1. script = <<>> /\ Len(script) = 0 /\ DOMAIN script = {} /\ laid = <<>> /\ viewList = <<>>
  BY EmptySeq DEF Init
<1>2. Types
  BY EmptySeq DEF Init, Types
<1>3. Apart
  BY <1>1 DEF Init, Apart
<1> QED BY <1>1, <1>2, <1>3 DEF IInv, ViewsMatchRows, SelectsTapped, Init

\* A row that is on the screen shows the action its tag finds in the script.
LEMMA RowsShow ==
  ASSUME Types, ViewsMatchRows, NEW v \in ToSet(laid)
  PROVE  v \in View /\ tag[v] \in Nat /\ tag[v] < Len(script) /\ script[tag[v] + 1] = shown[v]
<1>1. PICK i \in 1 .. Len(laid) : v = laid[i]
  BY Domains DEF Types
<1>2. Len(laid) = Len(script) /\ Len(script) \in Nat /\ DOMAIN script = 1 .. Len(script)
      /\ v \in View
  BY <1>1, Domains DEF Types, ViewsMatchRows
<1>3. tag[v] = i - 1 /\ shown[v] = script[i]
  BY <1>1, <1>2 DEF ViewsMatchRows
<1> QED BY <1>1, <1>2, <1>3

LEMMA StepIInv ==
  ASSUME IInv, [Next]_vars
  PROVE  IInv'
<1> USE DEF IInv
<1>1. /\ script \in Seq(Nat) /\ DOMAIN script = 1 .. Len(script) /\ Len(script) \in Nat
      /\ stored \in Seq(Nat) /\ DOMAIN stored = 1 .. Len(stored)
      /\ intent \in Seq(Nat) /\ DOMAIN intent = 1 .. Len(intent)
      /\ \A i \in 1 .. Len(laid) : laid[i] \in View
  BY Domains DEF Types
<1>2. ASSUME NEW v, Tap(v), v \in ToSet(laid) \/ v \in fading
      PROVE  IInv'
  <2>1. /\ current_pos' = tag[v] /\ enabled' = TRUE
        /\ tapped' = shown[v] /\ strayed' = (v \in fading) /\ prompts = 0
        /\ UNCHANGED <<script, stored, intent, views, prompts, changes>>
    BY <1>2 DEF Tap, onItemClick
  <2>2. v \in View /\ tag[v] \in Nat
    BY <1>2, RowsShow DEF Types, Apart
  <2>3. Types'
    BY <2>1, <2>2 DEF Types, views
  <2>4. Apart' /\ ViewsMatchRows'
    BY <2>1 DEF Apart, ViewsMatchRows, views
  <2>5. SelectsTapped'
    <3>1. ~(prompts' > 0)
      BY <2>1
    <3>2. v \notin fading => tag[v] < Len(script) /\ script[tag[v] + 1] = shown[v]
      BY <1>2, RowsShow
    <3> QED BY <2>1, <3>1, <3>2 DEF SelectsTapped
  <2> QED BY <2>3, <2>4, <2>5
<1>3. CASE Add
  <2>1. /\ changes' = changes + 1 /\ script' = Append(script, changes') /\ stored' = script'
        /\ notifyDataSetChanged(script') /\ prompts = 0 /\ UNCHANGED <<intent, selection>>
    BY <1>3 DEF Add, Change
  <2>2. changes' \in Nat
    BY <2>1 DEF Types
  <2>3. /\ script' \in Seq(Nat) /\ Len(script') = Len(script) + 1
        /\ \A i \in 1 .. Len(script) : script'[i] = script[i]
    BY <1>1, <2>1, <2>2, AppendProperties
  <2>4. PICK vs \in Taken(Len(script'), View \ fading) :
          laid' = vs /\ UNCHANGED fading /\ onBindViewHolder(script', 0, vs)
    BY <2>1 DEF notifyDataSetChanged
  <2>5. /\ laid' \in Seq(View) /\ viewList' \in Seq(View) /\ tag' \in [View -> Nat]
        /\ shown' = [v \in View |-> shown'[v]] /\ Apart' /\ ViewsMatchRows'
    BY <2>3, <2>4, AllBound DEF Apart
  <2>6. Types'
    BY <2>1, <2>2, <2>3, <2>5 DEF Types, selection
  <2>7. SelectsTapped'
    <3>1. current_pos < Len(script) => current_pos + 1 \in 1 .. Len(script)
                                       /\ current_pos < Len(script) + 1
      BY <1>1 DEF Types
    <3> QED BY <2>1, <2>3, <3>1 DEF SelectsTapped, selection
  <2> QED BY <2>5, <2>6, <2>7
<1>4. CASE Edited
  <2> DEFINE k == current_pos + 1
  <2>1. /\ current_pos < Len(script) /\ changes' = changes + 1
        /\ script' = [script EXCEPT ![k] = changes'] /\ stored' = script'
        /\ current_pos' = tag[viewList[k]] /\ enabled' = TRUE
        /\ tapped' = changes' /\ strayed' = FALSE
        /\ notifyDataSetChanged(script')
        /\ prompts = 0 /\ UNCHANGED <<intent, prompts>>
    BY <1>4 DEF Edited, Change, onItemClick
  <2>2. changes' \in Nat /\ k \in 1 .. Len(script) /\ k - 1 = current_pos
    <3>1. changes \in Nat /\ current_pos \in Nat
      BY DEF Types
    <3>2. changes' \in Nat
      BY <2>1, <3>1
    <3>3. k \in 1 .. Len(script) /\ k - 1 = current_pos
      BY <1>1, <2>1, <3>1
    <3> QED BY <3>2, <3>3
  <2> HIDE DEF k
  <2>3. /\ script' \in Seq(Nat) /\ Len(script') = Len(script) /\ script'[k] = changes'
    BY <1>1, <2>1, <2>2, ExceptSeq
  <2>4. current_pos' = current_pos
    <3>1. viewList[k] = laid[k] /\ tag[laid[k]] = k - 1
      BY <1>1, <2>2 DEF ViewsMatchRows
    <3> QED BY <2>1, <2>2, <3>1
  <2>5. PICK vs \in Taken(Len(script'), View \ fading) :
          laid' = vs /\ UNCHANGED fading /\ onBindViewHolder(script', 0, vs)
    BY <2>1 DEF notifyDataSetChanged
  <2>6. /\ laid' \in Seq(View) /\ viewList' \in Seq(View) /\ tag' \in [View -> Nat]
        /\ shown' = [v \in View |-> shown'[v]] /\ Apart' /\ ViewsMatchRows'
    BY <2>3, <2>5, AllBound DEF Apart
  <2>7. Types'
    BY <2>1, <2>2, <2>3, <2>4, <2>6 DEF Types
  <2>8. SelectsTapped'
    BY <2>1, <2>3, <2>4 DEF SelectsTapped, k
  <2> QED BY <2>6, <2>7, <2>8
<1>5. CASE removeItem
  <2>1. /\ current_pos < Len(script) /\ changes' = changes + 1
        /\ prompts > 0 /\ prompts' = prompts - 1
        /\ script' = RemoveAt(script, current_pos + 1)
        /\ notifyItemRemoved(current_pos, script')
        /\ enabled' = FALSE /\ UNCHANGED <<stored, intent, current_pos, tapped, strayed>>
    BY <1>5 DEF removeItem, Change
  <2>2. /\ laid' \in Seq(View) /\ viewList' \in Seq(View) /\ tag' \in [View -> Nat]
        /\ shown' = [v \in View |-> shown'[v]] /\ script' \in Seq(Nat)
        /\ Apart' /\ ViewsMatchRows'
    BY <2>1, RowRemoved
  <2>3. changes' \in Nat /\ stored' \in Seq(Nat) /\ intent' \in Seq(Nat)
        /\ current_pos' \in Nat /\ enabled' \in BOOLEAN /\ strayed' \in BOOLEAN
        /\ prompts' \in Nat
    <3>1. changes \in Nat /\ stored \in Seq(Nat) /\ intent \in Seq(Nat)
          /\ current_pos \in Nat /\ strayed \in BOOLEAN /\ prompts \in Nat
      BY DEF Types
    <3>2. changes' \in Nat /\ prompts' \in Nat
      BY <2>1, <3>1
    <3>3. stored' \in Seq(Nat) /\ intent' \in Seq(Nat) /\ current_pos' \in Nat
          /\ strayed' \in BOOLEAN
      BY <2>1, <3>1, Zenon
    <3>4. enabled' \in BOOLEAN
      BY <2>1, Zenon
    <3> QED BY <3>2, <3>3, <3>4
  <2>4. current_pos' <= Len(script')
    <3>1. current_pos \in Nat
      BY DEF Types
    <3> DEFINE k == current_pos + 1
    <3>2. script' = RemoveAt(script, k) /\ k = current_pos + 1
      BY <2>1
    <3> HIDE DEF k, IInv
    <3>3. IsRemoved(script', script, current_pos, Nat)
      BY <1>1, <2>1, <3>1, <3>2, Removed
    <3>4. Len(script') = Len(script) - 1
      BY <3>3 DEF IsRemoved
    <3>5. current_pos' = current_pos
      BY <2>1
    <3> QED BY <1>1, <2>1, <3>1, <3>4, <3>5
  <2>5. Types'
    BY <2>1, <2>2, <2>3 DEF Types
  <2>6. SelectsTapped'
    <3> HIDE DEF IInv
    <3> QED BY <2>1, <2>4 DEF SelectsTapped
  <2> QED BY <2>2, <2>5, <2>6
<1>6. ASSUME NEW list \in Seq(Nat), Create(list), intent' \in Seq(Nat)
      PROVE  IInv'
  <2>1. PICK vs \in Taken(Len(list), View) :
          laid' = vs /\ fading' = {} /\ onBindViewHolder(list, 0, vs)
    BY <1>6 DEF Create
  <2>2. /\ script' = list /\ current_pos' = 0 /\ enabled' = FALSE /\ prompts' = 0
        /\ tapped' = 0 /\ strayed' = FALSE /\ UNCHANGED <<stored, changes>>
    BY <1>6 DEF Create
  <2>3. View \ fading' = View
    BY <2>1
  <2>4. /\ laid' \in Seq(View) /\ viewList' \in Seq(View) /\ tag' \in [View -> Nat]
        /\ shown' = [v \in View |-> shown'[v]] /\ Apart' /\ ViewsMatchRows'
    BY <1>6, <2>1, <2>2, <2>3, AllBound
  <2>5. Types'
    BY <1>1, <1>6, <2>2, <2>4 DEF Types
  <2>6. SelectsTapped'
    <3>1. ~enabled' /\ ~(prompts' > 0)
      BY <2>2
    <3> QED BY <3>1 DEF SelectsTapped
  <2> QED BY <2>4, <2>5, <2>6
<1>7. ASSUME NEW v \in View, Faded(v)
      PROVE  IInv'
  <2>1. /\ v \in fading /\ fading' = fading \ {v}
        /\ tag' = [tag EXCEPT ![v] = 0] /\ shown' = [shown EXCEPT ![v] = 0]
        /\ UNCHANGED <<script, stored, intent, laid, viewList, selection, changes>>
    BY <1>7 DEF Faded
  <2>2. Types'
    BY <2>1 DEF Types, selection
  <2>3. Apart'
    BY <2>1 DEF Apart
  <2>4. \A i \in 1 .. Len(laid) : laid[i] # v /\ tag'[laid[i]] = tag[laid[i]]
                                  /\ shown'[laid[i]] = shown[laid[i]]
    BY <1>1, <2>1 DEF Apart, Types
  <2>5. ViewsMatchRows'
    BY <1>1, <2>1, <2>4 DEF ViewsMatchRows
  <2>6. SelectsTapped'
    BY <2>1 DEF SelectsTapped, selection
  <2> QED BY <2>2, <2>3, <2>5, <2>6
<1>8. CASE UNCHANGED vars
  BY <1>8 DEF vars, views, selection, Types, Apart, ViewsMatchRows, SelectsTapped
<1>9. CASE ToDelete \/ Dismiss
  <2>1. /\ enabled \/ prompts > 0
        /\ \/ prompts' = prompts + 1
           \/ prompts > 0 /\ prompts' = prompts - 1
        /\ UNCHANGED <<script, stored, intent, views, current_pos, enabled, tapped, strayed,
                       changes>>
    BY <1>9 DEF ToDelete, Dismiss
  <2>2. Types'
    BY <2>1 DEF Types, views
  <2>3. Apart' /\ ViewsMatchRows'
    BY <2>1 DEF Apart, ViewsMatchRows, views
  <2>4. SelectsTapped'
    <3>1. ~strayed => current_pos <= Len(script)
      BY <1>1, <2>1 DEF SelectsTapped, Types
    <3> QED BY <2>1, <3>1 DEF SelectsTapped
  <2> QED BY <2>2, <2>3, <2>4
<1>10. intent \in Seq(Nat) /\ stored \in Seq(Nat)
  BY <1>1
<1> HIDE DEF IInv
<1>11. CASE onClick \/ onClickFading
  BY <1>2, <1>11 DEF onClick, onClickFading
<1>12. CASE Reopen \/ Recreate \/ Raises
  BY <1>6, <1>12, <1>10 DEF Reopen, Recreate, Raises, Open
<1> QED BY <1>3, <1>4, <1>5, <1>7, <1>8, <1>9, <1>11, <1>12 DEF Next

\* The inductive invariant: the views of rows are different and none of them fades.
THEOREM Invariant == Spec => []IInv
  BY InitIInv, StepIInv, PTL DEF Spec

\* The list into which BehaviorAdapter inserts a view for every bind, and from
\* which it never takes one, has each row's view at the row's place, and that view
\* has the row's place as its tag and shows the row's action.
THEOREM RowsAreFound == Spec => []ViewsMatchRows
<1>1. IInv => ViewsMatchRows
  BY DEF IInv
<1> QED BY <1>1, Invariant, PTL

\* While the edit and delete buttons are enabled, they and a dialog work on the action
\* that was tapped or edited last, unless the row tapped was fading.  A dialog that is
\* left when another one has removed the action works on the one that moved up, or
\* raises: it does not look whether the button is enabled.
THEOREM ButtonsHitTheTapped == Spec => []SelectsTapped
<1>1. IInv => SelectsTapped
  BY DEF IInv
<1> QED BY <1>1, Invariant, PTL

-----------------------------------------------------------------------------
(***************************************************************************)
(* The test server.                                                        *)
(***************************************************************************)

CONSTANTS Requests, MaxRequests, Parts, MaxAsked, MaxFailures

VARIABLES states, led, actions, choreography, refreshes, answer, handled, unlisted,
          connected, events, asked, failures, flying, texts, newest, missed

\* The page over the test server, whose RAD has the motors and limits of the arm's.
Page == INSTANCE Dashboard WITH shown <- texts


Counted == refreshes \in Nat /\ handled \in Nat

ServerState == <<states, led, actions, choreography>>

\* A handler that changes the state announces it, or raises.
AnnouncedOr500 ==
  /\ refreshes' \in {refreshes, refreshes + 1} /\ handled' = handled + 1
  /\ ServerState' # ServerState => refreshes' = refreshes + 1 \/ answer' = "500"

LEMMA HandleAnnounces ==
  ASSUME Counted, NEW r, Page!Server!Handle(r)
  PROVE  AnnouncedOr500
<1> USE DEF AnnouncedOr500, ServerState, Counted
<1>0. handled' = handled + 1
  BY DEF Page!Server!Handle
<1>1. CASE Page!Server!monitor
  BY <1>0, <1>1 DEF Page!Server!monitor
<1>2. CASE Page!Server!no_such_key
  BY <1>0, <1>2 DEF Page!Server!no_such_key, Page!Server!Raise
<1>3. CASE Page!Server!do_reset
  BY <1>0, <1>3 DEF Page!Server!do_reset, Page!Server!refresh
<1>4. CASE Page!Server!do_clear
  BY <1>0, <1>4 DEF Page!Server!do_clear, Page!Server!refresh
<1>5. CASE Page!Server!do_action_motor(r.motor, r.param)
  <2>1. CASE Page!Server!Raise
    BY <1>0, <2>1 DEF Page!Server!Raise
  <2>2. CASE refreshes' = refreshes + 1
    BY <1>0, <2>2
  <2> QED BY <1>5, <2>1, <2>2
        DEF Page!Server!do_action_motor, Page!Server!Record, Page!Server!refresh
<1>6. CASE Page!Server!do_action_led(r.mode)
  BY <1>0, <1>6 DEF Page!Server!do_action_led, Page!Server!Record, Page!Server!refresh
<1>7. CASE Page!Server!do_choreography(r.actions)
  <2>1. CASE Page!Server!Raise
    BY <1>0, <2>1 DEF Page!Server!Raise
  <2>2. CASE refreshes' = refreshes + 1
    BY <1>0, <2>2
  <2> QED BY <1>7, <2>1, <2>2 DEF Page!Server!do_choreography, Page!Server!refresh
<1>8. CASE Page!Server!set_states(r.angles)
  <2>1. CASE Page!Server!Raise
    BY <1>0, <2>1 DEF Page!Server!Raise
  <2>2. CASE refreshes' = refreshes + 1
    BY <1>0, <2>2
  <2> QED BY <1>8, <2>1, <2>2
        DEF Page!Server!set_states, Page!Server!Record, Page!Server!refresh
<1> QED BY <1>1, <1>2, <1>3, <1>4, <1>5, <1>6, <1>7, <1>8 DEF Page!Server!Handle

\* The web page is told of every change of the server's state in the step that makes
\* it, unless the handler raised: record and broadcast go together in server.py.
THEOREM ChangesAreAnnounced == Page!Server!Spec => Page!Server!ChangesAnnounced
<1>1. Page!Server!Init => Counted
  BY DEF Page!Server!Init, Counted
<1>2. ASSUME Counted, [Page!Server!Next]_(Page!Server!vars)
      PROVE  Counted' /\ (ServerState' # ServerState => refreshes' > refreshes \/ answer' = "500")
  <2>1. CASE Page!Server!Next
    <3>1. PICK r \in Requests : Page!Server!Handle(r)
      BY <2>1 DEF Page!Server!Next
    <3>2. AnnouncedOr500
      BY <1>2, <3>1, HandleAnnounces
    <3> QED BY <1>2, <3>2 DEF AnnouncedOr500, Counted
  <2>2. CASE UNCHANGED Page!Server!vars
    BY <1>2, <2>2 DEF Page!Server!vars, Counted, ServerState
  <2> QED BY <1>2, <2>1, <2>2
<1> QED BY <1>1, <1>2, PTL DEF Page!Server!Spec, Page!Server!ChangesAnnounced, ServerState

-----------------------------------------------------------------------------
(***************************************************************************)
(* What the handlers of the test server do to its robot.                   *)
(***************************************************************************)
\* What TestServer assumes of the requests.
ServerConstants == Requests \subseteq Page!Server!RequestType /\ MaxRequests \in Nat

\* Its RAD has the limits of the arm's.
LEMMA SameLimits ==
  /\ Page!Server!Motor = Motor /\ Page!Server!Position = Position
  /\ \A m, v : Page!Server!limit_crip(m, v) = clip(m, v)
  BY DEF Page!Server!Motor, Motor, Page!Server!Position, Position, Page!Server!limit_crip, clip

LEMMA ActMotorLegal ==
  ASSUME NEW p \in Position, NEW m \in Motor, NEW v \in Int
  PROVE  Page!Server!act_motor(p, m, v) \in Position
<1>1. p[m] + v \in Int
  BY DEF Position
<1>2. clip(m, p[m] + v) \in Int /\ Low[m] <= clip(m, p[m] + v) /\ clip(m, p[m] + v) <= High[m]
  BY <1>1, ClipInLimits
<1>3. Page!Server!act_motor(p, m, v) = [p EXCEPT ![m] = clip(m, p[m] + v)]
  BY SameLimits DEF Page!Server!act_motor
<1> QED BY <1>2, <1>3 DEF Position

LEMMA TurnedLegal ==
  ASSUME NEW p \in Position, NEW angles, NEW n \in Nat, n <= NumMotors,
         \A i \in 1 .. n : angles[i] \in Int
  PROVE  Page!Server!Turned(p, angles, n) \in Position
<1>1. ASSUME NEW m \in Motor, m < n
      PROVE  clip(m, angles[m + 1]) \in Int /\ Low[m] <= clip(m, angles[m + 1])
             /\ clip(m, angles[m + 1]) <= High[m]
  <2>1. m + 1 \in 1 .. n
    BY <1>1, MotorsAssumption DEF Motor
  <2> QED BY <2>1, ClipInLimits
<1>2. Page!Server!Turned(p, angles, n) =
        [m \in Motor |-> IF m < n THEN clip(m, angles[m + 1]) ELSE p[m]]
  BY SameLimits DEF Page!Server!Turned
<1> QED BY <1>1, <1>2 DEF Position

LEMMA TurnedNone ==
  ASSUME NEW p \in Position, NEW angles
  PROVE  Page!Server!Turned(p, angles, 0) = p
<1>1. \A m \in Motor : ~(m < 0)
  BY MotorsAssumption DEF Motor
<1>2. Page!Server!Turned(p, angles, 0) = [m \in Motor |-> p[m]]
  BY <1>1, SameLimits DEF Page!Server!Turned
<1> QED BY <1>2 DEF Position

\* How many entries run: those before the first that raises.
LEMMA PassedByFirst ==
  ASSUME NEW S, NEW entries \in Seq(S), NEW passing, passing \subseteq DOMAIN entries,
         NEW n, n = Page!Server!PassedBy(passing, entries)
  PROVE  n \in 0 .. Len(entries) /\ 1 .. n \subseteq passing
<1> DEFINE N == Len(entries)
           T == {k \in Nat : 1 .. k \subseteq passing}
<1>1. N \in Nat /\ DOMAIN entries = 1 .. N
  OBVIOUS
<1>2. 0 \in T
  OBVIOUS
<1>3. ~ \A k \in T : k + 1 \in T
  <2>1. SUFFICES ASSUME \A k \in T : k + 1 \in T PROVE FALSE
    OBVIOUS
  <2>2. T = Nat
    BY <1>2, <2>1, SetInduction
  <2>3. N + 1 \in passing
    <3>1. N + 1 \in Nat /\ N + 1 \in 1 .. N + 1
      BY <1>1
    <3>2. N + 1 \in T
      BY <2>2, <3>1, Zenon
    <3> QED BY <3>1, <3>2
  <2> QED BY <1>1, <2>3
<1>4. PICK k \in T : k + 1 \notin T
  BY <1>3
<1>5. k \in 0 .. N
  <2>1. CASE k = 0
    BY <1>1, <2>1
  <2>2. CASE k # 0
    <3>1. k \in passing
      BY <2>2
    <3> QED BY <1>1, <3>1
  <2> QED BY <2>1, <2>2
<1>6. k + 1 \notin passing
  <2>1. 1 .. k + 1 = 1 .. k \cup {k + 1}
    OBVIOUS
  <2> QED BY <1>4, <2>1
<1>7. \E j \in 0 .. N : 1 .. j \subseteq passing /\ j + 1 \notin passing
  BY <1>4, <1>5, <1>6
<1>8. n = CHOOSE j \in 0 .. N : 1 .. j \subseteq passing /\ j + 1 \notin passing
  BY DEF Page!Server!PassedBy
<1> QED BY <1>7, <1>8

\* The entries of a choreography that run.
IsMoving(at, p, entries) ==
  /\ at \in [0 .. Len(entries) -> Position] /\ at[0] = p
  /\ \A n \in 1 .. Len(entries) :
       at[n] = Page!Server!act_motor(at[n - 1], Page!Server!Actor(entries[n][1]), entries[n][2])

LEMMA MovedRun ==
  ASSUME NEW p \in Position, NEW S, NEW entries \in Seq(S),
         \A n \in 1 .. Len(entries) : Page!Server!MoveRuns(entries[n])
  PROVE  \E at : IsMoving(at, p, entries) /\ Page!Server!Moved(p, entries) = at[Len(entries)]
<1> DEFINE N == Len(entries)
           Step(q, n) ==
             Page!Server!act_motor(q, Page!Server!Actor(entries[n][1]), entries[n][2])
           h == [x \in Position \X (1 .. N) |-> Step(x[1], x[2])]
           Eq(at) == at = [n \in 0 .. N |-> IF n = 0 THEN p ELSE Step(at[n - 1], n)]
           run == CHOOSE at : Eq(at)
<1>1. N \in Nat
  OBVIOUS
<1>2. \A q \in Position, n \in 1 .. N : Step(q, n) \in Position
  <2>1. TAKE q \in Position, n \in 1 .. N
  <2>2. entries[n][1] \in -NumMotors .. NumMotors - 1 /\ entries[n][2] \in Int
    BY DEF Page!Server!MoveRuns
  <2>3. Page!Server!Actor(entries[n][1]) \in Motor
    BY <2>2, MotorsAssumption DEF Page!Server!Actor, Motor
  <2> QED BY <2>2, <2>3, ActMotorLegal
<1>3. Page!Server!Moved(p, entries) = run[N]
  BY DEF Page!Server!Moved
<1>4. SUFFICES \E f \in [0 .. N -> Position] :
                 /\ f[0] = p /\ f[N] = run[N]
                 /\ \A n \in 1 .. N : f[n] = Step(f[n - 1], n)
  BY <1>3, Zenon DEF IsMoving
<1> HIDE DEF Step, N
<1>5. h \in [Position \X (1 .. N) -> Position]
  BY <1>2
<1>6. PICK f : IsRun(f, p, h, N, Position)
  <2> HIDE DEF h
  <2> QED BY <1>1, <1>5, RunExists
<1>7. f \in [0 .. N -> Position] /\ f[0] = p
  BY <1>6 DEF IsRun
<1>8. ASSUME NEW n \in 1 .. N PROVE f[n] = Step(f[n - 1], n)
  <2>1. f[n - 1] \in Position
    BY <1>1, <1>7
  <2>2. h[<<f[n - 1], n>>] = Step(f[n - 1], n)
    BY <2>1
  <2> HIDE DEF h
  <2> QED BY <1>6, <2>2 DEF IsRun
<1>9. Eq(f)
  <2>1. ASSUME NEW n \in 0 .. N
        PROVE  f[n] = IF n = 0 THEN p ELSE Step(f[n - 1], n)
    BY <1>1, <1>7, <1>8
  <2> QED BY <1>7, <2>1
<1>10. Eq(run)
  <2> HIDE DEF Eq
  <2> QED BY <1>9
<1>11. run[0] = p /\ \A n \in 1 .. N : run[n] = Step(run[n - 1], n)
  <2> HIDE DEF run
  <2>1. 0 \in 0 .. N /\ \A n \in 1 .. N : n \in 0 .. N /\ n # 0
    BY <1>1
  <2> QED BY <1>10, <2>1
<1> HIDE DEF run, h
<1>12. f[N] = run[N]
  <2>1. StepAlike(f, run, N)
    BY <1>8, <1>11 DEF StepAlike
  <2>2. Alike(f, run, N)
    BY <1>1, <1>7, <1>11, <2>1, SameRun
  <2> QED BY <1>1, <2>2 DEF Alike
<1> QED BY <1>7, <1>8, <1>12

LEMMA MovedLegal ==
  ASSUME NEW p \in Position, NEW S, NEW entries \in Seq(S),
         \A n \in 1 .. Len(entries) : Page!Server!MoveRuns(entries[n])
  PROVE  /\ Page!Server!Moved(p, entries) \in Position
         /\ Len(entries) = 0 => Page!Server!Moved(p, entries) = p
<1>1. PICK at : IsMoving(at, p, entries) /\ Page!Server!Moved(p, entries) = at[Len(entries)]
  BY MovedRun
<1>2. Len(entries) \in 0 .. Len(entries)
  OBVIOUS
<1> QED BY <1>1, <1>2 DEF IsMoving

-----------------------------------------------------------------------------
(***************************************************************************)
(* The log of the test server.                                             *)
(***************************************************************************)
Robot == [at : Position, led : BOOLEAN]

\* The entries that handlers write.
Entry ==
  [inst : {"reset"}] \cup [inst : {"action"}, actor : Motor, param : Int]
    \cup [inst : {"led"}, mode : {"on", "off", "toggle", "other"}]
    \cup [inst : {"toward"}, angles : {s \in Seq(Int) : Len(s) <= NumMotors}]

NewRobot == [at |-> Home, led |-> FALSE]

LEMMA RedoneRobot ==
  ASSUME NEW s \in Robot, NEW e \in Entry
  PROVE  Page!Server!Redone(s, e) \in Robot
<1>1. s.at \in Position /\ s.led \in BOOLEAN
  BY DEF Robot
<1>2. CASE e \in [inst : {"reset"}]
  <2>1. Page!Server!Redone(s, e) = [at |-> Home, led |-> FALSE]
    BY <1>2 DEF Page!Server!Redone
  <2> QED BY <2>1, HomeIsLegal DEF Robot
<1>3. CASE e \in [inst : {"action"}, actor : Motor, param : Int]
  <2>1. Page!Server!Redone(s, e) =
          [s EXCEPT !.at = Page!Server!act_motor(s.at, e.actor, e.param)]
    BY <1>3 DEF Page!Server!Redone
  <2>2. Page!Server!act_motor(s.at, e.actor, e.param) \in Position
    BY <1>1, <1>3, ActMotorLegal
  <2> QED BY <2>1, <2>2 DEF Robot
<1>4. CASE e \in [inst : {"led"}, mode : {"on", "off", "toggle", "other"}]
  <2>1. Page!Server!Redone(s, e) = [s EXCEPT !.led = Page!Server!act_led(s.led, e.mode)]
    BY <1>4 DEF Page!Server!Redone
  <2>2. Page!Server!act_led(s.led, e.mode) \in BOOLEAN
    BY DEF Page!Server!act_led
  <2> QED BY <2>1, <2>2 DEF Robot
<1>5. CASE e \in [inst : {"toward"}, angles : {a \in Seq(Int) : Len(a) <= NumMotors}]
  <2>1. Page!Server!Redone(s, e) =
          [s EXCEPT !.at = Page!Server!Turned(s.at, e.angles, Len(e.angles))]
    BY <1>5 DEF Page!Server!Redone
  <2>2. /\ e.angles \in Seq(Int) /\ Len(e.angles) \in Nat /\ Len(e.angles) <= NumMotors
        /\ \A i \in 1 .. Len(e.angles) : e.angles[i] \in Int
    BY <1>5
  <2>3. Page!Server!Turned(s.at, e.angles, Len(e.angles)) \in Position
    BY <1>1, <2>2, TurnedLegal
  <2> QED BY <2>1, <2>3 DEF Robot
<1> QED BY <1>2, <1>3, <1>4, <1>5 DEF Entry

\* after[n] is the robot after the first n entries of a log.
IsReplay(after, log) ==
  /\ after \in [0 .. Len(log) -> Robot] /\ after[0] = NewRobot
  /\ \A n \in 1 .. Len(log) : after[n] = Page!Server!Redone(after[n - 1], log[n])

LEMMA ReplayRun ==
  ASSUME NEW log \in Seq(Entry)
  PROVE  \E after : IsReplay(after, log) /\ Page!Server!Replay(log) = after[Len(log)]
<1> DEFINE N == Len(log)
           Step(q, n) == Page!Server!Redone(q, log[n])
           h == [x \in Robot \X (1 .. N) |-> Step(x[1], x[2])]
           Eq(at) == at = [n \in 0 .. N |-> IF n = 0 THEN NewRobot ELSE Step(at[n - 1], n)]
           run == CHOOSE at : Eq(at)
<1>1. N \in Nat
  OBVIOUS
<1>2. \A q \in Robot, n \in 1 .. N : Step(q, n) \in Robot
  <2>1. TAKE q \in Robot, n \in 1 .. N
  <2>2. log[n] \in Entry
    OBVIOUS
  <2> QED BY <2>2, RedoneRobot
<1>3. Page!Server!Replay(log) = run[N]
  BY DEF Page!Server!Replay, NewRobot
<1>4. SUFFICES \E f \in [0 .. N -> Robot] :
                 /\ f[0] = NewRobot /\ f[N] = run[N]
                 /\ \A n \in 1 .. N : f[n] = Step(f[n - 1], n)
  BY <1>3, Zenon DEF IsReplay
<1>5. NewRobot \in Robot
  BY HomeIsLegal DEF NewRobot, Robot
<1> HIDE DEF Step, N
<1>6. h \in [Robot \X (1 .. N) -> Robot]
  BY <1>2
<1>7. PICK f : IsRun(f, NewRobot, h, N, Robot)
  <2> HIDE DEF h
  <2> QED BY <1>1, <1>5, <1>6, RunExists
<1>8. f \in [0 .. N -> Robot] /\ f[0] = NewRobot
  BY <1>7 DEF IsRun
<1>9. ASSUME NEW n \in 1 .. N PROVE f[n] = Step(f[n - 1], n)
  <2>1. f[n - 1] \in Robot
    BY <1>1, <1>8
  <2>2. h[<<f[n - 1], n>>] = Step(f[n - 1], n)
    BY <2>1
  <2> HIDE DEF h
  <2> QED BY <1>7, <2>2 DEF IsRun
<1>10. Eq(f)
  <2>1. ASSUME NEW n \in 0 .. N
        PROVE  f[n] = IF n = 0 THEN NewRobot ELSE Step(f[n - 1], n)
    BY <1>1, <1>8, <1>9
  <2> QED BY <1>8, <2>1
<1>11. Eq(run)
  <2> HIDE DEF Eq
  <2> QED BY <1>10
<1>12. run[0] = NewRobot /\ \A n \in 1 .. N : run[n] = Step(run[n - 1], n)
  <2> HIDE DEF run
  <2>1. 0 \in 0 .. N /\ \A n \in 1 .. N : n \in 0 .. N /\ n # 0
    BY <1>1
  <2> QED BY <1>11, <2>1
<1> HIDE DEF run, h
<1>13. f[N] = run[N]
  <2>1. StepAlike(f, run, N)
    BY <1>9, <1>12 DEF StepAlike
  <2>2. Alike(f, run, N)
    BY <1>1, <1>8, <1>12, <2>1, SameRun
  <2> QED BY <1>1, <2>2 DEF Alike
<1> QED BY <1>8, <1>9, <1>13

LEMMA ReplayRobot ==
  ASSUME NEW log \in Seq(Entry)
  PROVE  /\ Page!Server!Replay(log) \in Robot
         /\ Len(log) = 0 => Page!Server!Replay(log) = NewRobot
<1>1. PICK after : IsReplay(after, log) /\ Page!Server!Replay(log) = after[Len(log)]
  BY ReplayRun
<1>2. Len(log) \in 0 .. Len(log)
  OBVIOUS
<1> QED BY <1>1, <1>2 DEF IsReplay

\* One entry more.
LEMMA ReplayAppend ==
  ASSUME NEW log \in Seq(Entry), NEW e \in Entry
  PROVE  /\ Append(log, e) \in Seq(Entry)
         /\ Page!Server!Replay(Append(log, e)) = Page!Server!Redone(Page!Server!Replay(log), e)
<1> DEFINE longer == Append(log, e)
           N == Len(log)
<1>1. /\ N \in Nat /\ longer \in Seq(Entry) /\ Len(longer) = N + 1
      /\ longer[N + 1] = e /\ \A i \in 1 .. N : longer[i] = log[i]
  BY AppendProperties
<1> HIDE DEF longer
<1>2. PICK f : IsReplay(f, longer) /\ Page!Server!Replay(longer) = f[Len(longer)]
  BY <1>1, ReplayRun
<1>3. PICK g : IsReplay(g, log) /\ Page!Server!Replay(log) = g[N]
  BY ReplayRun
<1> HIDE DEF N
<1>4. StepAlike(f, g, N)
  <2>1. SUFFICES ASSUME NEW n \in 1 .. N, f[n - 1] = g[n - 1] PROVE f[n] = g[n]
    BY DEF StepAlike
  <2>2. n \in 1 .. Len(longer) /\ longer[n] = log[n]
    BY <1>1
  <2>3. f[n] = Page!Server!Redone(f[n - 1], longer[n])
    BY <1>2, <2>2 DEF IsReplay
  <2>4. g[n] = Page!Server!Redone(g[n - 1], log[n])
    BY <1>3 DEF IsReplay, N
  <2> QED BY <2>1, <2>2, <2>3, <2>4
<1>5. f[N] = g[N]
  <2>1. Alike(f, g, N)
    BY <1>1, <1>2, <1>3, <1>4, SameRun DEF IsReplay
  <2> QED BY <1>1, <2>1 DEF Alike
<1>6. f[N + 1] = Page!Server!Redone(f[N], e)
  <2>1. N + 1 \in 1 .. Len(longer) /\ (N + 1) - 1 = N
    BY <1>1
  <2>2. f[N + 1] = Page!Server!Redone(f[(N + 1) - 1], longer[N + 1])
    BY <1>2, <2>1 DEF IsReplay
  <2> QED BY <1>1, <2>1, <2>2
<1> QED BY <1>1, <1>2, <1>3, <1>5, <1>6 DEF longer

LogTypes ==
  /\ Counted /\ handled <= MaxRequests
  /\ states \in Position /\ led \in BOOLEAN /\ unlisted \in BOOLEAN
  /\ actions \in Seq(Entry) /\ choreography \in Seq(Seq(Seq(Page!Server!Text)))
  /\ answer \in {"none", "ok", "states", "500"}

LogInv == LogTypes /\ Page!Server!LogReplays

\* A handler that records what it did, and one that raises before it did anything.
LEMMA LogRecorded ==
  ASSUME LogInv, NEW e \in Entry, Page!Server!Record(e),
         states' \in Position, led' \in BOOLEAN, UNCHANGED unlisted,
         handled' = handled + 1, handled < MaxRequests, MaxRequests \in Nat,
         Page!Server!Redone([at |-> states, led |-> led], e) = [at |-> states', led |-> led']
  PROVE  LogInv'
<1>1. /\ actions' = Append(actions, e) /\ refreshes' = refreshes + 1 /\ answer' = "ok"
      /\ UNCHANGED choreography
  BY DEF Page!Server!Record, Page!Server!refresh
<1>2. actions' \in Seq(Entry)
      /\ Page!Server!Replay(actions') = Page!Server!Redone(Page!Server!Replay(actions), e)
  BY <1>1, ReplayAppend DEF LogInv, LogTypes
<1>3. Counted' /\ handled' <= MaxRequests
  BY <1>1 DEF LogInv, LogTypes, Counted
<1>4. LogTypes'
  BY <1>1, <1>2, <1>3 DEF LogInv, LogTypes
<1>5. (Page!Server!LogReplays)'
  BY <1>2 DEF LogInv, Page!Server!LogReplays
<1> QED BY <1>4, <1>5 DEF LogInv

LEMMA LogUnchanged ==
  ASSUME LogInv, states' \in Position, UNCHANGED <<led, actions, refreshes>>,
         choreography' \in Seq(Seq(Seq(Page!Server!Text))),
         answer' \in {"none", "ok", "states", "500"}, unlisted' \in BOOLEAN,
         handled' = handled + 1, handled < MaxRequests, MaxRequests \in Nat,
         ~unlisted' => ~unlisted /\ states' = states
  PROVE  LogInv'
<1>1. Counted' /\ handled' <= MaxRequests
  BY DEF LogInv, LogTypes, Counted
<1>2. LogTypes'
  BY <1>1 DEF LogInv, LogTypes
<1>3. (Page!Server!LogReplays)'
  BY DEF LogInv, Page!Server!LogReplays
<1> QED BY <1>2, <1>3 DEF LogInv

LEMMA LogHandled ==
  ASSUME ServerConstants, LogInv, NEW r \in Requests, Page!Server!Handle(r)
  PROVE  LogInv'
<1> USE DEF Page!Server!RequestType
<1>0. /\ handled' = handled + 1 /\ handled < MaxRequests /\ MaxRequests \in Nat
      /\ r \in Page!Server!RequestType
  BY DEF Page!Server!Handle, ServerConstants
<1>9. /\ states \in Position /\ led \in BOOLEAN /\ unlisted \in BOOLEAN
       /\ choreography \in Seq(Seq(Seq(Page!Server!Text)))
       /\ answer \in {"none", "ok", "states", "500"}
  BY DEF LogInv, LogTypes
<1> DEFINE robot == [at |-> states, led |-> led]
<1>1. CASE Page!Server!monitor
  BY <1>0, <1>9, <1>1, LogUnchanged DEF Page!Server!monitor
<1>2. CASE Page!Server!no_such_key
  BY <1>0, <1>9, <1>2, LogUnchanged DEF Page!Server!no_such_key, Page!Server!Raise
<1>3. CASE Page!Server!do_reset
  <2> DEFINE e == [inst |-> "reset"]
  <2>1. e \in Entry
    BY DEF Entry
  <2>2. /\ actions' = Append(actions, e) /\ refreshes' = refreshes + 1 /\ answer' = "states"
        /\ states' = Home /\ led' = FALSE /\ unlisted' = FALSE /\ UNCHANGED choreography
    BY <1>3 DEF Page!Server!do_reset, Page!Server!refresh, Page!Server!Initial
  <2>3. actions' \in Seq(Entry)
        /\ Page!Server!Replay(actions') = Page!Server!Redone(Page!Server!Replay(actions), e)
    <3> HIDE DEF e
    <3> QED BY <2>1, <2>2, ReplayAppend DEF LogInv, LogTypes
  <2>4. Page!Server!Redone(Page!Server!Replay(actions), e) = [at |-> states', led |-> led']
    BY <2>2 DEF Page!Server!Redone
  <2>5. Counted' /\ handled' <= MaxRequests
    BY <1>0, <2>2 DEF LogInv, LogTypes, Counted
  <2>6. LogTypes'
    BY <1>9, <2>2, <2>3, <2>5, HomeIsLegal DEF LogTypes
  <2> QED BY <2>3, <2>4, <2>6 DEF LogInv, Page!Server!LogReplays
<1>4. CASE Page!Server!do_clear
  <2>1. /\ actions' = <<>> /\ choreography' = <<>> /\ refreshes' = refreshes + 1
        /\ answer' = "500" /\ states' = Home /\ led' = FALSE /\ unlisted' = FALSE
    BY <1>4 DEF Page!Server!do_clear, Page!Server!refresh, Page!Server!Initial
  <2>2. actions' \in Seq(Entry) /\ Page!Server!Replay(actions') = NewRobot
        /\ choreography' \in Seq(Seq(Seq(Page!Server!Text)))
    <3>1. <<>> \in Seq(Entry) /\ Len(<<>>) = 0 /\ <<>> \in Seq(Seq(Seq(Page!Server!Text)))
      OBVIOUS
    <3> QED BY <2>1, <3>1, ReplayRobot
  <2>3. Counted' /\ handled' <= MaxRequests
    BY <1>0, <2>1 DEF LogInv, LogTypes, Counted
  <2>4. LogTypes'
    BY <2>1, <2>2, <2>3, HomeIsLegal DEF LogTypes
  <2> QED BY <2>1, <2>2, <2>4 DEF LogInv, Page!Server!LogReplays, NewRobot
<1>5. CASE r.kind = "motor" /\ Page!Server!do_action_motor(r.motor, r.param)
  <2>1. r.motor \in Motor
    BY <1>0, <1>5, SameLimits
  <2>2. CASE r.param \in Int
    <3> DEFINE e == [inst |-> "action", actor |-> r.motor, param |-> r.param]
    <3>1. e \in Entry
      BY <2>1, <2>2 DEF Entry
    <3>2. /\ states' = Page!Server!act_motor(states, r.motor, r.param)
          /\ Page!Server!Record(e) /\ UNCHANGED <<led, unlisted>>
      BY <1>5, <2>2 DEF Page!Server!do_action_motor
    <3>3. states' \in Position
      BY <1>9, <2>1, <2>2, <3>2, ActMotorLegal
    <3>4. Page!Server!Redone(robot, e) = [at |-> states', led |-> led']
      BY <3>2 DEF Page!Server!Redone
    <3> HIDE DEF e
    <3> QED BY <1>0, <1>9, <3>1, <3>2, <3>3, <3>4, LogRecorded
  <2>3. CASE r.param \notin Int
    BY <1>0, <1>9, <1>5, <2>3, LogUnchanged DEF Page!Server!do_action_motor, Page!Server!Raise
  <2> QED BY <2>2, <2>3
<1>6. CASE r.kind = "led" /\ Page!Server!do_action_led(r.mode)
  <2> DEFINE e == [inst |-> "led", mode |-> r.mode]
  <2>1. e \in Entry
    <3>1. r.mode \in {"on", "off", "toggle", "other"}
      BY <1>0, <1>6
    <3> QED BY <3>1 DEF Entry
  <2>2. /\ led' = Page!Server!act_led(led, r.mode) /\ Page!Server!Record(e)
        /\ UNCHANGED <<states, unlisted>>
    BY <1>6 DEF Page!Server!do_action_led
  <2>3. led' \in BOOLEAN
    BY <2>2, Zenon DEF Page!Server!act_led
  <2>4. Page!Server!Redone(robot, e) = [at |-> states', led |-> led']
    BY <2>2 DEF Page!Server!Redone
  <2> HIDE DEF e
  <2> QED BY <1>0, <1>9, <2>1, <2>2, <2>3, <2>4, LogRecorded
<1>7. CASE r.kind = "choreography" /\ Page!Server!do_choreography(r.actions)
  <2> DEFINE es == r.actions
             passing == {i \in DOMAIN es : Page!Server!MoveRuns(es[i])}
             n == Page!Server!PassedBy(passing, es)
             first == SubSeq(es, 1, n)
  <2>1. es \in Seq(Seq(Page!Server!Text))
    BY <1>0, <1>7
  <2>2. /\ states' = Page!Server!Moved(states, first) /\ unlisted' = (unlisted \/ n > 0)
        /\ UNCHANGED led
        /\ IF n = Len(es)
           THEN /\ choreography' = Append(choreography, es) /\ refreshes' = refreshes + 1
                /\ answer' = "ok" /\ UNCHANGED actions
           ELSE answer' = "500" /\ UNCHANGED <<actions, choreography, refreshes>>
    BY <1>7 DEF Page!Server!do_choreography, Page!Server!refresh, Page!Server!Raise
  <2>3. passing \subseteq DOMAIN es /\ \A i \in passing : Page!Server!MoveRuns(es[i])
    OBVIOUS
  <2> HIDE DEF es, passing, n
  <2>4. n \in 0 .. Len(es) /\ 1 .. n \subseteq passing /\ Len(es) \in Nat
    <3>1. n = Page!Server!PassedBy(passing, es)
      BY DEF n
    <3> QED BY <2>1, <2>3, <3>1, PassedByFirst
  <2>5. /\ first \in Seq(Seq(Page!Server!Text)) /\ Len(first) = n
        /\ \A i \in 1 .. n : first[i] = es[i]
    BY <2>1, <2>4
  <2> HIDE DEF first
  <2>6. states' \in Position /\ (n = 0 => states' = states)
    <3>1. \A i \in 1 .. Len(first) : Page!Server!MoveRuns(first[i])
      BY <2>3, <2>4, <2>5
    <3> QED BY <1>9, <2>2, <2>5, <3>1, MovedLegal
  <2>7. unlisted' \in BOOLEAN /\ (~unlisted' => ~unlisted /\ states' = states)
    <3>1. n > 0 \/ n = 0
      BY <2>4
    <3>2. unlisted' \in BOOLEAN
      BY <2>2, Zenon
    <3> QED BY <2>2, <2>6, <3>1, <3>2
  <2>8. choreography' \in Seq(Seq(Seq(Page!Server!Text))) /\ answer' \in {"ok", "500"}
        /\ UNCHANGED actions
    <3>1. Append(choreography, es) \in Seq(Seq(Seq(Page!Server!Text)))
      BY <1>9, <2>1, AppendProperties
    <3> QED BY <1>9, <2>2, <3>1
  <2>9. Counted' /\ handled' <= MaxRequests
    BY <1>0, <2>2 DEF LogInv, LogTypes, Counted
  <2>10. LogTypes'
    BY <1>9, <2>2, <2>6, <2>7, <2>8, <2>9 DEF LogInv, LogTypes
  <2>11. (Page!Server!LogReplays)'
    BY <2>2, <2>7, <2>8 DEF LogInv, Page!Server!LogReplays
  <2> QED BY <2>10, <2>11 DEF LogInv
<1>8. CASE r.kind = "toward" /\ Page!Server!set_states(r.angles)
  <2> DEFINE as == r.angles
             passing == {i \in DOMAIN as : Page!Server!AngleRuns(i, as[i])}
             n == Page!Server!PassedBy(passing, as)
             e == [inst |-> "toward", angles |-> as]
  <2>1. as \in Seq(Page!Server!Text)
    BY <1>0, <1>8
  <2>2. /\ states' = Page!Server!Turned(states, as, n) /\ UNCHANGED led
        /\ \/ n = Len(as) /\ Page!Server!Record(e) /\ UNCHANGED unlisted
           \/ n < Len(as) /\ Page!Server!Raise /\ unlisted' = (unlisted \/ n > 0)
    BY <1>8 DEF Page!Server!set_states
  <2>3. passing \subseteq DOMAIN as
        /\ \A i \in passing : i <= NumMotors /\ as[i] \in Int
    BY DEF Page!Server!AngleRuns
  <2> HIDE DEF as, passing, n
  <2>4. n \in 0 .. Len(as) /\ 1 .. n \subseteq passing /\ Len(as) \in Nat
    <3>1. n = Page!Server!PassedBy(passing, as)
      BY DEF n
    <3>2. Len(as) \in Nat
      BY <2>1, LenProperties
    <3>3. n \in 0 .. Len(as) /\ 1 .. n \subseteq passing
      BY <2>1, <2>3, <3>1, PassedByFirst
    <3> QED BY <3>2, <3>3
  <2>5. n \in Nat /\ n <= NumMotors /\ \A i \in 1 .. n : as[i] \in Int
    <3>1. n \in Nat /\ \A i \in 1 .. n : as[i] \in Int
      <4>1. n \in Nat
        BY <2>4
      <4>2. \A i \in 1 .. n : i \in passing
        BY <2>4
      <4> QED BY <2>3, <4>1, <4>2
    <3>2. CASE n = 0
      BY <3>1, <3>2, MotorsAssumption
    <3>3. CASE n # 0
      <4>1. n \in 1 .. n
        BY <3>1, <3>3
      <4> QED BY <2>3, <2>4, <3>1, <4>1
    <3> QED BY <3>2, <3>3
  <2>6. states' \in Position /\ (n = 0 => states' = states)
    BY <1>9, <2>2, <2>5, TurnedLegal, TurnedNone
  <2>7. CASE n = Len(as) /\ Page!Server!Record(e) /\ UNCHANGED unlisted
    <3>1. as \in Seq(Int)
      <4>1. \A i \in 1 .. Len(as) : as[i] \in Int
        BY <2>5, <2>7
      <4>2. as \in [1 .. Len(as) -> Page!Server!Text]
        BY <2>1, LenProperties
      <4>3. as \in [1 .. Len(as) -> Int]
        BY <4>1, <4>2
      <4> QED BY <2>4, <4>3, SeqDef
    <3>2. e \in Entry
      BY <2>5, <2>7, <3>1 DEF Entry
    <3>3. Page!Server!Redone(robot, e) = [at |-> states', led |-> led']
      BY <2>2, <2>7 DEF Page!Server!Redone
    <3> HIDE DEF e
    <3> QED BY <1>0, <1>9, <2>2, <2>6, <2>7, <3>2, <3>3, LogRecorded
  <2>8. CASE Page!Server!Raise /\ unlisted' = (unlisted \/ n > 0)
    <3>1. n > 0 \/ n = 0
      BY <2>4
    <3>2. unlisted' \in BOOLEAN
      BY <2>8, Zenon
    <3>3. ~unlisted' => ~unlisted /\ states' = states
      BY <2>6, <2>8, <3>1
    <3> QED BY <1>0, <1>9, <2>2, <2>6, <2>8, <3>2, <3>3, LogUnchanged DEF Page!Server!Raise
  <2> QED BY <2>2, <2>7, <2>8
<1> QED BY <1>1, <1>2, <1>3, <1>4, <1>5, <1>6, <1>7, <1>8 DEF Page!Server!Handle

LEMMA LogStart == ServerConstants /\ Page!Server!Init => LogInv
<1> SUFFICES ASSUME ServerConstants, Page!Server!Init PROVE LogInv
  OBVIOUS
<1>1. <<>> \in Seq(Entry) /\ Len(<<>>) = 0 /\ <<>> \in Seq(Seq(Seq(Page!Server!Text)))
  OBVIOUS
<1>2. LogTypes
  <2>1. MaxRequests \in Nat
    BY DEF ServerConstants
  <2>2. Counted /\ handled <= MaxRequests
    BY <2>1 DEF Page!Server!Init, Counted
  <2> QED BY <1>1, <2>2, HomeIsLegal DEF Page!Server!Init, LogTypes
<1> QED BY <1>1, <1>2, ReplayRobot DEF Page!Server!Init, LogInv, Page!Server!LogReplays, NewRobot

LEMMA LogTypeOK == LogInv => Page!Server!TypeOK
<1> SUFFICES ASSUME LogInv PROVE Page!Server!TypeOK
  OBVIOUS
<1>1. \A i \in 1 .. Len(actions) : actions[i].inst \in {"reset", "action", "led", "toward"}
  <2>1. TAKE i \in 1 .. Len(actions)
  <2>2. actions[i] \in Entry
    BY DEF LogInv, LogTypes
  <2> QED BY <2>2 DEF Entry
<1>2. \A i \in 1 .. Len(choreography) : choreography[i] \in Seq(Seq(Page!Server!Text))
  BY DEF LogInv, LogTypes
<1> QED BY <1>1, <1>2, SameLimits DEF LogInv, LogTypes, Counted, Page!Server!TypeOK

LEMMA LogStays ==
  ASSUME LogInv,
         UNCHANGED <<states, led, actions, choreography, refreshes, answer, handled, unlisted>>
  PROVE  LogInv'
<1>1. LogTypes'
  BY DEF LogInv, LogTypes, Counted
<1>2. (Page!Server!LogReplays)'
  BY DEF LogInv, Page!Server!LogReplays
<1> QED BY <1>1, <1>2 DEF LogInv

\* The invariant: the types, and that the log replays.
LEMMA LogInvariant ==
  ASSUME ServerConstants
  PROVE  Page!Server!Spec => []LogInv
<1>1. ASSUME LogInv, [Page!Server!Next]_(Page!Server!vars) PROVE LogInv'
  <2>1. CASE Page!Server!Next
    BY <1>1, <2>1, LogHandled DEF Page!Server!Next
  <2>2. CASE UNCHANGED Page!Server!vars
    BY <1>1, <2>2, LogStays DEF Page!Server!vars
  <2> QED BY <1>1, <2>1, <2>2
<1> QED BY <1>1, LogStart, PTL DEF Page!Server!Spec

\* Every position the test server holds is legal, and what it records and answers
\* is of the kinds its handlers write, whatever requests come in.
THEOREM ServerTypesCorrect ==
  ASSUME ServerConstants
  PROVE  Page!Server!Spec => []Page!Server!TypeOK
  BY LogInvariant, LogTypeOK, PTL

\* Replaying the log of actions from home leads to where the robot of the test server
\* is, unless moves the log does not list were made since the last reset.
THEOREM LogLeadsToState ==
  ASSUME ServerConstants
  PROVE  Page!Server!Spec => []Page!Server!LogReplays
<1>1. LogInv => Page!Server!LogReplays
  BY DEF LogInv
<1> QED BY <1>1, LogInvariant, PTL

-----------------------------------------------------------------------------
(***************************************************************************)
(* The test server in the place of the arm.  What the sketch promises of a *)
(* request is AtomicArm, which ArmServer implements; of its variables, only*)
(* the position and the light are those of a robot that has no arm.        *)
(***************************************************************************)
Sketch == INSTANCE AtomicArm WITH
  pos <- states, made <- handled, queue <- <<>>, joints <- <<>>, replies <- <<>>, restarts <- 0,
  Drive <- [m \in Motor |-> m], MaxRestarts <- 0

\* A number that leaves room in an int for its sum with any legal angle.
Fit(m, v) == v \in Int /\ -IntHalf - Low[m] <= v /\ v < IntHalf - High[m]

\* The requests both servers know, whole and of numbers that fit.
Common(r) ==
  \/ r.kind \in {"probe", "reset"}
  \/ r.kind = "led" /\ r.mode \in {"on", "off", "toggle", "other"}
  \/ r.kind = "motor" /\ r.motor \in Motor /\ Fit(r.motor, r.param)
  \/ /\ r.kind = "choreography" /\ r.actions \in Seq(Seq(Page!Server!Text))
     /\ Len(r.actions) < IntHalf
     /\ \A i \in 1 .. Len(r.actions) :
          /\ Len(r.actions[i]) = 2
          /\ r.actions[i][1] \in Motor /\ Fit(r.actions[i][1], r.actions[i][2])
  \/ /\ r.kind = "toward" /\ r.angles \in Seq(Page!Server!Text) /\ Len(r.angles) = NumMotors
     /\ \A i \in 1 .. NumMotors : r.angles[i] \in -IntHalf .. IntHalf - 1

\* The same request to the sketch, which reads the number of moves the app announces.
ForSketch(r) ==
  IF r.kind = "choreography"
  THEN [kind |-> "choreography", count |-> Len(r.actions), actions |-> r.actions]
  ELSE r

\* What the client is told.
Told == IF answer = "states" THEN <<[states |-> states]>> ELSE <<[result |-> answer]>>

\* The robot moves as the arm does and the client is told the same.  The servers part on
\* the light of a reset, which only the test server puts out, and on what the sketch
\* answers to a toggle (twice) and to a mode that it does not know.
Agrees(r) ==
  /\ states' = Sketch!Effect(states, ForSketch(r))
  /\ r.kind # "reset" => led' = Sketch!Light(led, ForSketch(r))
  /\ (r.kind = "led" => r.mode \in {"on", "off"}) => Told' = Sketch!Answer(states', ForSketch(r))

LEMMA SketchMoves ==
  /\ Sketch!Motor = Motor
  /\ \A m, v : Sketch!clip(m, v) = clip(m, v)
  /\ \A x : Sketch!toInt(x) = toInt(x)
  /\ \A p, m, v : Sketch!do_action(p, m, v) = do_action(p, m, v)
  /\ \A p, moves : Sketch!Acted(p, moves) = Acted(p, moves)
<1>1. Sketch!Motor = Motor /\ \A m, v : Sketch!clip(m, v) = clip(m, v)
  BY DEF Sketch!Motor, Motor, Sketch!clip, clip
<1>2. \A x : Sketch!int16(x) = int16(x)
  BY DEF Sketch!int16, int16
<1>3. \A x : Sketch!toInt(x) = toInt(x)
  BY <1>2 DEF Sketch!toInt, toInt
<1>4. \A p, m, v : Sketch!do_action(p, m, v) = do_action(p, m, v)
  BY <1>1, <1>2 DEF Sketch!do_action, do_action
<1>5. \A p, moves : Sketch!Acted(p, moves) = Acted(p, moves)
  BY <1>4, Zenon DEF Sketch!Acted, Acted
<1> QED BY <1>1, <1>3, <1>4, <1>5

\* A move that fits is the same one.
LEMMA FitMove ==
  ASSUME NEW p \in Position, NEW m \in Motor, NEW v, Fit(m, v)
  PROVE  do_action(p, m, toInt(v)) = Page!Server!act_motor(p, m, v)
<1>1. v \in Int /\ p[m] \in Int /\ Low[m] <= p[m] /\ p[m] <= High[m]
      /\ Low[m] \in Int /\ High[m] \in Int /\ IntHalf \in Nat
  BY LimitsAssumption, WidthAssumption DEF Fit, Position
<1>2. p[m] + v \in -IntHalf .. IntHalf - 1
  BY <1>1 DEF Fit
<1>3. int16(p[m] + toInt(v)) = p[m] + v
  <2>1. toInt(v) = int16(v)
    BY <1>1, ToIntNumber
  <2>2. int16(p[m] + int16(v)) = int16(p[m] + v)
    BY <1>1, Int16Sum
  <2>3. int16(p[m] + v) = p[m] + v
    BY <1>2, Int16Identity
  <2> QED BY <2>1, <2>2, <2>3
<1> QED BY <1>3, SameLimits DEF do_action, Page!Server!act_motor

\* So are moves that fit, one after another.
LEMMA FitMoves ==
  ASSUME NEW p \in Position, NEW S, NEW entries \in Seq(S), NEW moves \in Seq(Int \X Int),
         Len(moves) = Len(entries),
         \A i \in 1 .. Len(entries) :
           /\ Len(entries[i]) = 2 /\ entries[i][1] \in Motor /\ Fit(entries[i][1], entries[i][2])
           /\ moves[i][1] = entries[i][1] /\ moves[i][2] = toInt(entries[i][2])
  PROVE  Acted(p, moves) = Page!Server!Moved(p, entries)
<1> DEFINE N == Len(entries)
<1>1. N \in Nat
  OBVIOUS
<1>2. \A m \in Motor : Page!Server!Actor(m) = m /\ m \in -NumMotors .. NumMotors - 1
  BY MotorsAssumption DEF Page!Server!Actor, Motor
<1>3. \A i \in 1 .. N : Page!Server!MoveRuns(entries[i])
  BY <1>2 DEF Page!Server!MoveRuns, Fit
<1>4. PICK at : IsActing(at, p, moves) /\ Acted(p, moves) = at[N]
  BY ActedRun
<1>5. PICK on : IsMoving(on, p, entries) /\ Page!Server!Moved(p, entries) = on[N]
  BY <1>3, MovedRun
<1>6. StepAlike(at, on, N)
  <2> SUFFICES ASSUME NEW n \in 1 .. N, at[n - 1] = on[n - 1] PROVE at[n] = on[n]
    BY DEF StepAlike
  <2>1. on[n - 1] \in Position
    <3>1. n - 1 \in 0 .. N
      BY <1>1
    <3> QED BY <1>5, <3>1 DEF IsMoving
  <2>2. at[n] = do_action(at[n - 1], entries[n][1], toInt(entries[n][2]))
    BY <1>4 DEF IsActing
  <2>3. on[n] = Page!Server!act_motor(on[n - 1], entries[n][1], entries[n][2])
    BY <1>2, <1>5 DEF IsMoving
  <2> QED BY <2>1, <2>2, <2>3, FitMove
<1>7. at[0] = p /\ on[0] = p
  BY <1>4, <1>5 DEF IsActing, IsMoving
<1>8. Alike(at, on, N)
  BY <1>1, <1>6, <1>7, SameRun
<1>9. at[N] = on[N]
  BY <1>1, <1>8 DEF Alike
<1> QED BY <1>4, <1>5, <1>9

\* All entries run if none of them raises.
LEMMA PassedByAll ==
  ASSUME NEW S, NEW entries \in Seq(S)
  PROVE  Page!Server!PassedBy(DOMAIN entries, entries) = Len(entries)
<1> DEFINE N == Len(entries)
           n == Page!Server!PassedBy(DOMAIN entries, entries)
<1>1. N \in Nat /\ DOMAIN entries = 1 .. N
  OBVIOUS
<1>2. n = CHOOSE j \in 0 .. N : 1 .. j \subseteq 1 .. N /\ j + 1 \notin 1 .. N
  BY <1>1 DEF Page!Server!PassedBy
<1>3. N \in 0 .. N /\ 1 .. N \subseteq 1 .. N /\ N + 1 \notin 1 .. N
  BY <1>1
<1> HIDE DEF n, N
<1>4. n \in 0 .. N /\ n + 1 \notin 1 .. N
  BY <1>2, <1>3
<1>5. n = N
  BY <1>1, <1>4
<1> QED BY <1>5 DEF n, N

LEMMA ChoreographyAgrees ==
  ASSUME states \in Position, NEW r, r.kind = "choreography", Common(r),
         Page!Server!do_choreography(r.actions)
  PROVE  Agrees(r)
<1> DEFINE es == r.actions
           N == Len(es)
           req == ForSketch(r)
           moves == Sketch!Moves(req)
<1>1. /\ es \in Seq(Seq(Page!Server!Text)) /\ N \in Nat /\ N < IntHalf
      /\ \A i \in 1 .. N : /\ Len(es[i]) = 2 /\ es[i][1] \in Motor
                           /\ Fit(es[i][1], es[i][2])
  <2>1. /\ es \in Seq(Seq(Page!Server!Text)) /\ N < IntHalf
        /\ \A i \in 1 .. N : Len(es[i]) = 2 /\ es[i][1] \in Motor /\ Fit(es[i][1], es[i][2])
    BY DEF Common
  <2> HIDE DEF es
  <2> QED BY <2>1, LenProperties
<1>2. req = [kind |-> "choreography", count |-> N, actions |-> es]
  BY DEF ForSketch
<1>3. /\ Motor \subseteq -IntHalf .. IntHalf - 1 /\ N \in -IntHalf .. IntHalf - 1
      /\ Motor \subseteq Int /\ IntHalf \in Nat
  BY <1>1, WidthAssumption, MotorsAssumption DEF Motor
<1>4. toInt(N) = N /\ \A m \in Motor : toInt(m) = m
  BY <1>3, ToIntNumber, Int16Identity
<1> HIDE DEF es, N, req
<1>5. moves = [i \in 1 .. N |-> <<es[i][1], toInt(es[i][2])>>]
  <2>1. moves = [i \in 1 .. toInt(N) |->
                   IF i > Len(es) THEN <<0, 0>>
                   ELSE IF Len(es[i]) = 1 THEN <<0, toInt(es[i][1])>>
                   ELSE <<toInt(es[i][1]), toInt(es[i][2])>>]
    BY <1>2, SketchMoves DEF Sketch!Moves
  <2>2. \A i \in 1 .. N : ~(i > Len(es)) /\ Len(es[i]) # 1 /\ toInt(es[i][1]) = es[i][1]
    BY <1>1, <1>4 DEF N
  <2> QED BY <1>4, <2>1, <2>2
<1> HIDE DEF moves
<1>6. /\ moves \in Seq(Int \X Int) /\ Len(moves) = N
      /\ \A i \in 1 .. N : moves[i][1] = es[i][1] /\ moves[i][2] = toInt(es[i][2])
  <2>1. \A i \in 1 .. N : es[i][1] \in Int /\ toInt(es[i][2]) \in Int
    BY <1>1, <1>3, ToIntNumber DEF Fit
  <2>2. moves \in [1 .. N -> Int \X Int]
    BY <1>5, <2>1
  <2>3. moves \in Seq(Int \X Int)
    BY <1>1, <2>2, SeqDef
  <2>4. Len(moves) = N
    BY <1>1, <2>2, <2>3, LenProperties
  <2>5. \A i \in 1 .. N : moves[i][1] = es[i][1] /\ moves[i][2] = toInt(es[i][2])
    BY <1>5
  <2> QED BY <2>3, <2>4, <2>5
<1>7. Acted(states, moves) = Page!Server!Moved(states, es)
  BY <1>1, <1>6, FitMoves DEF N
<1>8. {i \in DOMAIN es : Page!Server!MoveRuns(es[i])} = DOMAIN es
  <2>1. \A m \in Motor : m \in -NumMotors .. NumMotors - 1
    BY MotorsAssumption DEF Motor
  <2>2. DOMAIN es = 1 .. N
    BY <1>1 DEF N
  <2> QED BY <1>1, <2>1, <2>2 DEF Page!Server!MoveRuns, Fit
<1>9. Page!Server!PassedBy({i \in DOMAIN es : Page!Server!MoveRuns(es[i])}, es) = N
  BY <1>1, <1>8, PassedByAll DEF N
<1>10. SubSeq(es, 1, N) = es
  BY <1>1 DEF N
<1>11. states' = Page!Server!Moved(states, es) /\ UNCHANGED led /\ answer' = "ok"
  BY <1>9, <1>10 DEF Page!Server!do_choreography, es, N
<1>12. Sketch!Effect(states, req) = Acted(states, moves)
  BY <1>2, SketchMoves DEF Sketch!Effect, moves
<1>13. Sketch!Light(led, req) = led /\ Sketch!Answer(states', req) = <<[result |-> "ok"]>>
  BY <1>2 DEF Sketch!Light, Sketch!Answer
<1> QED BY <1>7, <1>11, <1>12, <1>13 DEF Agrees, Told, req

LEMMA TowardAgrees ==
  ASSUME states \in Position, NEW r, r.kind = "toward", Common(r),
         Page!Server!set_states(r.angles)
  PROVE  Agrees(r)
<1> DEFINE as == r.angles
<1>1. /\ as \in Seq(Page!Server!Text) /\ Len(as) = NumMotors /\ NumMotors \in Nat
      /\ \A i \in 1 .. NumMotors : as[i] \in Int /\ as[i] \in -IntHalf .. IntHalf - 1
  <2>1. /\ as \in Seq(Page!Server!Text) /\ Len(as) = NumMotors
        /\ \A i \in 1 .. NumMotors : as[i] \in -IntHalf .. IntHalf - 1
    BY DEF Common
  <2>2. \A x \in -IntHalf .. IntHalf - 1 : x \in Int
    BY WidthAssumption
  <2> HIDE DEF as
  <2> QED BY <2>1, <2>2, MotorsAssumption, Zenon
<1>2. ForSketch(r) = r
  BY DEF ForSketch
<1> HIDE DEF as
<1>3. {i \in DOMAIN as : Page!Server!AngleRuns(i, as[i])} = DOMAIN as
  <2>1. DOMAIN as = 1 .. NumMotors
    BY <1>1
  <2>2. \A i \in 1 .. NumMotors : i <= NumMotors
    BY <1>1
  <2>3. \A i \in DOMAIN as : Page!Server!AngleRuns(i, as[i])
    BY <1>1, <2>1, <2>2, Zenon DEF Page!Server!AngleRuns
  <2> QED BY <2>3, Zenon
<1>4. Page!Server!PassedBy({i \in DOMAIN as : Page!Server!AngleRuns(i, as[i])}, as) = NumMotors
  BY <1>1, <1>3, PassedByAll
<1>5. states' = Page!Server!Turned(states, as, NumMotors) /\ UNCHANGED led /\ answer' = "ok"
  BY <1>1, <1>4 DEF Page!Server!set_states, Page!Server!Record, as
<1>6. \A m \in Motor : /\ m < NumMotors /\ m + 1 \in 1 .. NumMotors
                       /\ toInt(as[m + 1]) = as[m + 1]
  <2> SUFFICES ASSUME NEW m \in Motor
               PROVE  m < NumMotors /\ m + 1 \in 1 .. NumMotors /\ toInt(as[m + 1]) = as[m + 1]
    OBVIOUS
  <2>1. m < NumMotors /\ m + 1 \in 1 .. NumMotors
    BY <1>1 DEF Motor
  <2>2. as[m + 1] \in Int /\ as[m + 1] \in -IntHalf .. IntHalf - 1
    BY <1>1, <2>1
  <2> QED BY <2>1, <2>2, ToIntNumber, Int16Identity
<1>7. Page!Server!Turned(states, as, NumMotors) = [m \in Motor |-> clip(m, as[m + 1])]
  BY <1>6, SameLimits DEF Page!Server!Turned
<1>8. Sketch!Effect(states, r) = [m \in Motor |-> clip(m, as[m + 1])]
  <2>1. Sketch!Effect(states, r) =
          [m \in Motor |-> clip(m, IF m < Len(as) THEN toInt(as[m + 1]) ELSE 0)]
    BY SketchMoves DEF Sketch!Effect, as
  <2> QED BY <1>1, <1>6, <2>1
<1>9. Sketch!Light(led, r) = led /\ Sketch!Answer(states', r) = <<[result |-> "ok"]>>
  BY DEF Sketch!Light, Sketch!Answer
<1> QED BY <1>2, <1>5, <1>7, <1>8, <1>9 DEF Agrees, Told

LEMMA HandleAgrees ==
  ASSUME states \in Position, led \in BOOLEAN, NEW r, Common(r), Page!Server!Handle(r)
  PROVE  Agrees(r)
<1>1. CASE r.kind \in {"probe", "reset"}
  <2>1. ForSketch(r) = r
    BY <1>1 DEF ForSketch
  <2>2. CASE r.kind = "probe"
    <3>1. UNCHANGED <<states, led>> /\ answer' = "states"
      BY <2>2 DEF Page!Server!Handle, Page!Server!monitor
    <3> QED BY <2>1, <2>2, <3>1
        DEF Agrees, Told, Sketch!Effect, Sketch!Light, Sketch!Answer
  <2>3. CASE r.kind = "reset"
    <3>1. states' = Home /\ answer' = "states"
      BY <2>3 DEF Page!Server!Handle, Page!Server!do_reset, Page!Server!Initial
    <3> QED BY <2>1, <2>3, <3>1 DEF Agrees, Told, Sketch!Effect, Sketch!Answer
  <2> QED BY <1>1, <2>2, <2>3
<1>2. CASE r.kind = "led"
  <2>1. ForSketch(r) = r /\ r.mode \in {"on", "off", "toggle", "other"}
    BY <1>2 DEF ForSketch, Common
  <2>2. /\ led' = Page!Server!act_led(led, r.mode) /\ UNCHANGED states /\ answer' = "ok"
    BY <1>2 DEF Page!Server!Handle, Page!Server!do_action_led, Page!Server!Record
  <2>3. states' = Sketch!Effect(states, r)
    BY <1>2, <2>2 DEF Sketch!Effect
  <2>4. led' = Sketch!Light(led, r)
    <3>1. CASE r.mode = "on"
      BY <1>2, <2>2, <3>1 DEF Page!Server!act_led, Sketch!Light
    <3>2. CASE r.mode = "off"
      BY <1>2, <2>2, <3>2 DEF Page!Server!act_led, Sketch!Light
    <3>3. CASE r.mode = "toggle"
      BY <1>2, <2>2, <3>3 DEF Page!Server!act_led, Sketch!Light
    <3>4. CASE r.mode = "other"
      BY <1>2, <2>2, <3>4 DEF Page!Server!act_led, Sketch!Light
    <3> QED BY <2>1, <3>1, <3>2, <3>3, <3>4
  <2>5. ASSUME r.mode \in {"on", "off"} PROVE Sketch!Answer(states', r) = <<[result |-> "ok"]>>
    BY <1>2, <2>5 DEF Sketch!Answer
  <2> QED BY <1>2, <2>1, <2>2, <2>3, <2>4, <2>5 DEF Agrees, Told
<1>3. CASE r.kind = "motor"
  <2>1. ForSketch(r) = r /\ r.motor \in Motor /\ Fit(r.motor, r.param)
    BY <1>3 DEF ForSketch, Common
  <2>2. /\ states' = Page!Server!act_motor(states, r.motor, r.param) /\ UNCHANGED led
        /\ answer' = "ok"
    BY <1>3, <2>1 DEF Page!Server!Handle, Page!Server!do_action_motor, Page!Server!Record, Fit
  <2>3. Sketch!Effect(states, r) = do_action(states, r.motor, toInt(r.param))
    BY <1>3, SketchMoves DEF Sketch!Effect
  <2>4. Sketch!Light(led, r) = led /\ Sketch!Answer(states', r) = <<[result |-> "ok"]>>
    BY <1>3 DEF Sketch!Light, Sketch!Answer
  <2> QED BY <2>1, <2>2, <2>3, <2>4, FitMove DEF Agrees, Told
<1>4. CASE r.kind = "choreography"
  BY <1>4, ChoreographyAgrees DEF Page!Server!Handle
<1>5. CASE r.kind = "toward"
  BY <1>5, TowardAgrees DEF Page!Server!Handle
<1> QED BY <1>1, <1>2, <1>3, <1>4, <1>5 DEF Common

\* The test server stands in for the arm: a request that both servers know, whole and of
\* numbers that fit an int, does to its robot what the sketch does to the arm, and is
\* answered in the same way (act_motor, set_states and act_led of gaoranger.py against
\* do_action and set_states of Gaoranger.cpp).
THEOREM ServersAgree ==
  ASSUME ServerConstants
  PROVE  Page!Server!Spec =>
           [][\A r \in Requests : Common(r) /\ Page!Server!Handle(r) => Agrees(r)]_(Page!Server!vars)
<1> DEFINE A == \A r \in Requests : Common(r) /\ Page!Server!Handle(r) => Agrees(r)
<1>1. LogInv => A
  BY HandleAgrees DEF LogInv, LogTypes
<1> HIDE DEF A
<1>2. Page!Server!Spec => [][A]_(Page!Server!vars)
  BY <1>1, LogInvariant, PTL
<1> QED BY <1>2 DEF A

-----------------------------------------------------------------------------
(***************************************************************************)
(* The web page.  Since the last change of the server, at a certain time,  *)
(* every answer is current; unless the page missed something, one such     *)
(* answer has come in, is on its way or was asked for, for each part, or a *)
(* broadcast is on its way that will have the page ask.                    *)
(***************************************************************************)
Answers(part) == Page!BagToSet(flying[part])

\* What was answered at time t or later is what the server holds.
CurrentSince(t) ==
  \A part \in Parts : \A got \in Answers(part) \cup {newest[part]} :
    /\ got.at \in Int /\ got.at <= handled
    /\ got.at >= t => got.value = Page!Probed(part).value

\* That is or will be answered.
AskedSince(t) ==
  ~missed /\ events = 0 =>
    \A part \in Parts :
      newest[part].at >= t \/ \E got \in Answers(part) : got = Page!Nothing \/ got.at >= t

PageTypes ==
  /\ Counted
  /\ events \in Nat /\ connected \in BOOLEAN /\ missed \in BOOLEAN
  /\ flying = [part \in Parts |-> flying[part]] /\ newest = [part \in Parts |-> newest[part]]

PageInv == PageTypes /\ \E t \in Nat : t <= handled /\ CurrentSince(t) /\ AskedSince(t)

LEMMA BagAdded ==
  ASSUME NEW B, NEW x
  PROVE  Page!BagToSet(Page!BagAdd(B, x)) = Page!BagToSet(B) \cup {x}
  BY DEF Page!BagToSet, Page!BagAdd

LEMMA BagTaken ==
  ASSUME NEW B, NEW x
  PROVE  /\ Page!BagToSet(Page!BagRemove(B, x)) \subseteq Page!BagToSet(B)
         /\ Page!BagToSet(B) \ {x} \subseteq Page!BagToSet(Page!BagRemove(B, x))
  BY DEF Page!BagToSet, Page!BagRemove

LEMMA BagsOfNothing ==
  /\ Page!BagToSet(Page!SetToBag({Page!Nothing})) = {Page!Nothing}
  /\ Page!BagToSet(Page!EmptyBag) = {}
  BY DEF Page!BagToSet, Page!SetToBag, Page!EmptyBag

LEMMA PageInit == Page!Init => PageInv
<1> SUFFICES ASSUME Page!Init PROVE PageInv
  OBVIOUS
<1>1. PageTypes /\ handled = 0
  BY DEF Page!Init, Page!Server!Init, PageTypes, Counted
<1>2. \A part \in Parts : Answers(part) = {Page!Nothing} /\ newest[part] = Page!Nothing
  <2>1. /\ flying = [part \in Parts |-> Page!SetToBag({Page!Nothing})]
        /\ newest = [part \in Parts |-> Page!Nothing]
    <3>1. flying = [part \in Parts |-> Page!SetToBag({Page!Nothing})]
      BY Zenon DEF Page!Init
    <3>2. newest = [part \in Parts |-> Page!Nothing]
      BY Zenon DEF Page!Init
    <3> QED BY <3>1, <3>2
  <2> QED BY <2>1, BagsOfNothing DEF Answers
<1>3. Page!Nothing.at = -1
  BY DEF Page!Nothing
<1>4. CurrentSince(0) /\ AskedSince(0)
  BY <1>1, <1>2, <1>3 DEF CurrentSince, AskedSince
<1> QED BY <1>1, <1>4 DEF PageInv

\* Steps that leave the server alone.
ServerStays == UNCHANGED ServerState /\ UNCHANGED <<refreshes, answer, handled>>

LEMMA SameProbed ==
  ASSUME ServerStays, NEW part
  PROVE  (Page!Probed(part))' = Page!Probed(part)
  BY DEF ServerStays, ServerState, Page!Probed

LEMMA KeepsCurrent ==
  ASSUME PageInv, NEW t \in Nat, t <= handled, CurrentSince(t), ServerStays,
         \A part \in Parts : \A got \in (Answers(part) \cup {newest[part]})' :
           got \in Answers(part) \cup {newest[part], Page!Nothing, Page!Probed(part)}
  PROVE  CurrentSince(t)'
<1>1. handled \in Nat /\ handled' = handled
  BY DEF PageInv, PageTypes, Counted, ServerStays
<1>2. ASSUME NEW part \in Parts, NEW got \in (Answers(part) \cup {newest[part]})'
      PROVE  /\ got.at \in Int /\ got.at <= handled
             /\ got.at >= t => got.value = Page!Probed(part).value
  <2>1. CASE got = Page!Nothing
    <3>1. got.at = -1
      BY <2>1 DEF Page!Nothing
    <3> QED BY <1>1, <3>1
  <2>2. CASE got = Page!Probed(part)
    <3>1. got.at = handled
      BY <2>2 DEF Page!Probed
    <3> QED BY <1>1, <2>2, <3>1
  <2>3. CASE got \in Answers(part) \cup {newest[part]}
    BY <2>3 DEF CurrentSince
  <2> QED BY <1>2, <2>1, <2>2, <2>3
<1> QED BY <1>1, <1>2, SameProbed DEF CurrentSince

LEMMA PageHandles ==
  ASSUME PageInv, NEW r, Page!Handle(r)
  PROVE  PageInv'
<1>0. PICK t \in Nat : t <= handled /\ CurrentSince(t) /\ AskedSince(t)
  BY DEF PageInv
<1>1. Counted /\ events \in Nat
  BY DEF PageInv, PageTypes
<1>2. AnnouncedOr500
  BY <1>1, HandleAnnounces DEF Page!Handle
<1>3. /\ events' = IF connected THEN events + (refreshes' - refreshes) ELSE events
      /\ missed' = (missed \/ /\ Page!Changed
                              /\ ~connected \/ (refreshes' - refreshes = 0 /\ answer' = "500"))
      /\ UNCHANGED <<connected, flying, newest>>
  BY DEF Page!Handle
<1>4. refreshes' - refreshes \in {0, 1} /\ handled' = handled + 1 /\ Counted'
  <2>1. (refreshes' = refreshes \/ refreshes' = refreshes + 1) /\ handled' = handled + 1
    BY <1>2 DEF AnnouncedOr500
  <2>2. refreshes \in Nat /\ handled \in Nat
    BY <1>1 DEF Counted
  <2>3. refreshes' \in Nat /\ handled' \in Nat
    BY <2>1, <2>2
  <2>4. Counted'
    BY <2>3 DEF Counted
  <2>5. refreshes' - refreshes \in {0, 1}
    BY <2>1, <2>2
  <2> QED BY <2>1, <2>4, <2>5
<1>5. PageTypes'
  <2>1. events' \in Nat
    BY <1>1, <1>3, <1>4
  <2>2. missed' \in BOOLEAN
    BY <1>3
  <2> QED BY <1>3, <1>4, <2>1, <2>2 DEF PageInv, PageTypes
<1>6. events' = 0 => events = 0
  BY <1>1, <1>3, <1>4
<1>7. \A part : Answers(part)' = Answers(part) /\ newest'[part] = newest[part]
  BY <1>3 DEF Answers
<1>8. CASE ServerState' = ServerState
  <2>1. \A part : (Page!Probed(part).value)' = Page!Probed(part).value
    <3>1. UNCHANGED states /\ UNCHANGED led /\ UNCHANGED actions /\ UNCHANGED choreography
      BY <1>8 DEF ServerState
    <3> QED BY <3>1 DEF Page!Probed
  <2>2. CurrentSince(t)'
    BY <1>0, <1>1, <1>4, <1>7, <2>1 DEF CurrentSince, Counted
  <2>3. AskedSince(t)'
    <3>1. ~missed' => ~missed
      BY <1>3
    <3> QED BY <1>0, <1>6, <1>7, <3>1 DEF AskedSince
  <2>4. t <= handled'
    BY <1>0, <1>1, <1>4 DEF Counted
  <2> QED BY <1>5, <2>2, <2>3, <2>4 DEF PageInv
<1>9. CASE ServerState' # ServerState
  <2>1. Page!Changed
    BY <1>9 DEF Page!Changed, ServerState
  <2>2. refreshes' = refreshes + 1 \/ answer' = "500"
    BY <1>2, <1>9 DEF AnnouncedOr500
  <2>3. missed' \/ events' # 0
    <3>1. refreshes' - refreshes = 0 => answer' = "500"
      BY <1>1, <2>2 DEF Counted
    <3>2. CASE refreshes' - refreshes = 0 \/ ~connected
      BY <1>3, <2>1, <3>1, <3>2
    <3>3. CASE refreshes' - refreshes = 1 /\ connected
      BY <1>1, <1>3, <3>3
    <3> QED BY <1>4, <3>2, <3>3
  <2>4. PICK u \in Nat : u = handled + 1
    BY <1>1 DEF Counted
  <2>5. \A part \in Parts : \A got \in Answers(part) \cup {newest[part]} :
          got.at \in Int /\ got.at <= u /\ ~(got.at >= u)
    BY <1>0, <1>1, <2>4 DEF CurrentSince, Counted
  <2>6. CurrentSince(u)'
    BY <1>4, <1>7, <2>4, <2>5 DEF CurrentSince
  <2>7. AskedSince(u)'
    BY <2>3 DEF AskedSince
  <2>8. u <= handled'
    BY <1>4, <2>4
  <2> QED BY <1>5, <2>6, <2>7, <2>8 DEF PageInv
<1> QED BY <1>8, <1>9

\* A step of the page: what it has yet to be told of, and what is on its way.
LEMMA PageSteps ==
  ASSUME PageInv, ServerStays, PageTypes',
         \A part \in Parts : \A got \in (Answers(part) \cup {newest[part]})' :
           got \in Answers(part) \cup {newest[part], Page!Nothing, Page!Probed(part)},
         ~missed' /\ events' = 0 =>
           \/ \A part \in Parts : Page!Nothing \in Answers(part)'
           \/ /\ ~missed /\ events = 0
              /\ \A part \in Parts :
                   /\ newest'[part].at \in Int /\ newest'[part].at >= newest[part].at
                   /\ \A got \in Answers(part) :
                        \/ got \in Answers(part)'
                        \/ got # Page!Nothing /\ newest'[part].at >= got.at
                        \/ got = Page!Nothing /\ Page!Probed(part) \in Answers(part)'
  PROVE  PageInv'
<1>0. PICK t \in Nat : t <= handled /\ CurrentSince(t) /\ AskedSince(t)
  BY DEF PageInv
<1>1. CurrentSince(t)'
  BY <1>0, KeepsCurrent
<1>2. handled' = handled /\ t <= handled'
  BY <1>0 DEF ServerStays
<1>3. SUFFICES ASSUME ~missed', events' = 0, NEW part \in Parts
               PROVE  \/ newest'[part].at >= t
                      \/ \E got \in Answers(part)' : got = Page!Nothing \/ got.at >= t
  BY <1>0, <1>1, <1>2 DEF PageInv, AskedSince
<1>4. CASE Page!Nothing \in Answers(part)'
  BY <1>4
<1>5. CASE /\ ~missed /\ events = 0
           /\ newest'[part].at \in Int /\ newest'[part].at >= newest[part].at
           /\ \A got \in Answers(part) :
                \/ got \in Answers(part)'
                \/ got # Page!Nothing /\ newest'[part].at >= got.at
                \/ got = Page!Nothing /\ Page!Probed(part) \in Answers(part)'
  <2>1. /\ newest[part].at \in Int
        /\ \A got \in Answers(part) : got.at \in Int
    BY <1>0 DEF CurrentSince
  <2>2. newest[part].at >= t \/ \E got \in Answers(part) : got = Page!Nothing \/ got.at >= t
    BY <1>0, <1>5 DEF AskedSince
  <2>3. CASE newest[part].at >= t
    BY <1>5, <2>1, <2>3
  <2>4. ASSUME NEW got \in Answers(part), got = Page!Nothing \/ got.at >= t
        PROVE  \/ newest'[part].at >= t
               \/ \E new \in Answers(part)' : new = Page!Nothing \/ new.at >= t
    <3>1. CASE got \in Answers(part)'
      BY <2>4, <3>1
    <3>2. CASE got # Page!Nothing /\ newest'[part].at >= got.at
      BY <1>5, <2>1, <2>4, <3>2
    <3>3. CASE Page!Probed(part) \in Answers(part)'
      <4>1. Page!Probed(part).at = handled
        BY DEF Page!Probed
      <4>2. handled >= t
        BY <1>0 DEF PageInv, PageTypes, Counted
      <4> QED BY <3>3, <4>1, <4>2
    <3> QED BY <1>5, <3>1, <3>2, <3>3
  <2> QED BY <2>2, <2>3, <2>4
<1> QED BY <1>3, <1>4, <1>5

LEMMA ServerVarsStay ==
  ASSUME UNCHANGED Page!servervars
  PROVE  ServerStays
  BY DEF Page!servervars, ServerStays, ServerState

LEMMA PageAsks ==
  ASSUME PageInv, Page!refresh, events' \in Nat
  PROVE  PageInv'
<1>1. /\ flying' = [part \in Parts |-> Page!BagAdd(flying[part], Page!Nothing)]
      /\ missed' = FALSE /\ UNCHANGED Page!servervars /\ UNCHANGED <<connected, newest>>
  BY DEF Page!refresh
<1>2. ServerStays
  BY <1>1, ServerVarsStay
<1>3. PageTypes'
  BY <1>1, <1>2 DEF PageInv, PageTypes, Counted, ServerStays
<1>4. \A part \in Parts : Answers(part)' = Answers(part) \cup {Page!Nothing}
  BY <1>1, BagAdded DEF Answers
<1>5. \A part \in Parts : \A got \in (Answers(part) \cup {newest[part]})' :
        got \in Answers(part) \cup {newest[part], Page!Nothing, Page!Probed(part)}
  BY <1>1, <1>4
<1>6. \A part \in Parts : Page!Nothing \in Answers(part)'
  BY <1>4
<1> QED BY <1>2, <1>3, <1>5, <1>6, PageSteps

\* The same answers, or some missed.
LEMMA PageWaits ==
  ASSUME PageInv, ServerStays, PageTypes', UNCHANGED newest,
         \A part \in Parts : Answers(part)' \subseteq Answers(part),
         \/ missed'
         \/ UNCHANGED flying /\ (events' = 0 => ~missed /\ events = 0)
  PROVE  PageInv'
<1>1. \A part \in Parts : newest'[part].at \in Int /\ newest'[part].at >= newest[part].at
  BY DEF PageInv, CurrentSince
<1>2. UNCHANGED flying => \A part \in Parts : Answers(part)' = Answers(part)
  BY DEF Answers
<1> QED BY <1>1, <1>2, PageSteps

LEMMA PageProbes ==
  ASSUME PageInv, NEW p \in Parts, Page!probe(p)
  PROVE  PageInv'
<1>1. /\ flying' = [flying EXCEPT ![p] =
                      Page!BagAdd(Page!BagRemove(@, Page!Nothing), Page!Probed(p))]
      /\ UNCHANGED Page!servervars /\ UNCHANGED <<connected, events, newest, missed>>
  BY DEF Page!probe
<1>2. ServerStays
  BY <1>1, ServerVarsStay
<1>3. PageTypes'
  BY <1>1, <1>2 DEF PageInv, PageTypes, Counted, ServerStays
<1>4. \A part \in Parts :
        /\ Answers(part)' \subseteq Answers(part) \cup {Page!Probed(part)}
        /\ \A got \in Answers(part) : \/ got \in Answers(part)'
                                      \/ got = Page!Nothing /\ Page!Probed(part) \in Answers(part)'
  <2>1. TAKE part \in Parts
  <2>2. CASE part # p
    <3>1. flying'[part] = flying[part]
      BY <1>1, <2>2 DEF PageInv, PageTypes
    <3> QED BY <3>1 DEF Answers
  <2>3. CASE part = p
    <3>1. flying'[p] = Page!BagAdd(Page!BagRemove(flying[p], Page!Nothing), Page!Probed(p))
      BY <1>1 DEF PageInv, PageTypes
    <3> DEFINE B == Page!BagRemove(flying[p], Page!Nothing)
    <3>2. Answers(p)' = Page!BagToSet(B) \cup {Page!Probed(p)}
      BY <3>1, BagAdded DEF Answers
    <3>3. /\ Page!BagToSet(B) \subseteq Answers(p)
          /\ Answers(p) \ {Page!Nothing} \subseteq Page!BagToSet(B)
      BY BagTaken DEF Answers
    <3> HIDE DEF B
    <3> QED BY <2>3, <3>2, <3>3
  <2> QED BY <2>2, <2>3
<1>5. \A part \in Parts : newest'[part].at \in Int /\ newest'[part].at >= newest[part].at
  BY <1>1 DEF PageInv, CurrentSince
<1>6. UNCHANGED <<events, missed, newest>>
  BY <1>1
<1>7. \A part \in Parts : \A got \in (Answers(part) \cup {newest[part]})' :
        got \in Answers(part) \cup {newest[part], Page!Nothing, Page!Probed(part)}
  BY <1>4, <1>6
<1> QED BY <1>2, <1>3, <1>4, <1>5, <1>6, <1>7, PageSteps

LEMMA PageHears ==
  ASSUME PageInv, NEW p \in Parts, NEW got \in Answers(p), Page!success(p, got)
  PROVE  PageInv'
<1>1. /\ got # Page!Nothing
      /\ flying' = [flying EXCEPT ![p] = Page!BagRemove(@, got)]
      /\ newest' = [newest EXCEPT ![p] = IF got.at >= @.at THEN got ELSE @]
      /\ UNCHANGED Page!servervars /\ UNCHANGED <<connected, events, missed>>
  BY DEF Page!success
<1>2. ServerStays
  BY <1>1, ServerVarsStay
<1>3. PageTypes'
  BY <1>1, <1>2 DEF PageInv, PageTypes, Counted, ServerStays
<1>4. /\ got.at \in Int
      /\ \A part \in Parts : newest[part].at \in Int
  BY DEF PageInv, CurrentSince
<1>5. \A part \in Parts : part # p => Answers(part)' = Answers(part) /\ newest'[part] = newest[part]
  BY <1>1 DEF PageInv, PageTypes, Answers
<1>6. /\ Answers(p)' \subseteq Answers(p) /\ Answers(p) \ {got} \subseteq Answers(p)'
      /\ newest'[p] = IF got.at >= newest[p].at THEN got ELSE newest[p]
  <2>1. flying'[p] = Page!BagRemove(flying[p], got)
    BY <1>1 DEF PageInv, PageTypes
  <2>2. newest'[p] = IF got.at >= newest[p].at THEN got ELSE newest[p]
    BY <1>1 DEF PageInv, PageTypes
  <2> QED BY <2>1, <2>2, BagTaken DEF Answers
<1>7. \A part \in Parts :
        /\ newest'[part].at \in Int /\ newest'[part].at >= newest[part].at
        /\ newest'[part] \in Answers(part) \cup {newest[part]}
        /\ Answers(part)' \subseteq Answers(part)
        /\ \A a \in Answers(part) :
             a \in Answers(part)' \/ (a # Page!Nothing /\ newest'[part].at >= a.at)
  <2>1. TAKE part \in Parts
  <2>2. CASE part # p
    BY <1>4, <1>5, <2>2
  <2>3. CASE part = p
    <3>1. newest'[p].at \in Int /\ newest'[p].at >= newest[p].at /\ newest'[p].at >= got.at
      <4>1. CASE got.at >= newest[p].at
        BY <1>4, <1>6, <4>1
      <4>2. CASE ~(got.at >= newest[p].at)
        BY <1>4, <1>6, <4>2
      <4> QED BY <4>1, <4>2
    <3> QED BY <1>1, <1>6, <2>3, <3>1
  <2> QED BY <2>2, <2>3
<1>8. \A part \in Parts : \A a \in (Answers(part) \cup {newest[part]})' :
        a \in Answers(part) \cup {newest[part], Page!Nothing, Page!Probed(part)}
  BY <1>7
<1>9. UNCHANGED <<events, missed>>
  BY <1>1
<1> QED BY <1>2, <1>3, <1>7, <1>8, <1>9, PageSteps

LEMMA PageStep ==
  ASSUME PageInv, [Page!Next]_(Page!vars)
  PROVE  PageInv'
<1>1. CASE \E r \in Requests : Page!Handle(r)
  BY <1>1, PageHandles
<1>2. CASE Page!on_refresh
  <2>1. Page!refresh /\ events' \in Nat
    BY <1>2 DEF Page!on_refresh, PageInv, PageTypes
  <2> QED BY <2>1, PageAsks
<1>3. CASE Page!on_click
  <2>1. Page!refresh /\ events' \in Nat
    BY <1>3 DEF Page!on_click, PageInv, PageTypes
  <2> QED BY <2>1, PageAsks
<1>4. CASE Page!connect \/ Page!disconnect \/ UNCHANGED Page!vars
  <2>1. UNCHANGED Page!servervars /\ UNCHANGED <<flying, newest>>
    BY <1>4 DEF Page!connect, Page!disconnect, Page!vars, Page!pagevars
  <2>2. ServerStays
    BY <2>1, ServerVarsStay
  <2>3. /\ events' = events \/ (events' = 0 /\ (events # 0 => missed'))
        /\ missed' \in BOOLEAN /\ (missed => missed') /\ connected' \in BOOLEAN
    <3>1. missed \in BOOLEAN /\ connected \in BOOLEAN /\ events \in Nat
      BY DEF PageInv, PageTypes
    <3>2. CASE Page!connect
      BY <3>1, <3>2 DEF Page!connect
    <3>3. CASE Page!disconnect
      <4>1. events' = 0 /\ missed' = (missed \/ events > 0) /\ connected' = FALSE
        BY <3>3 DEF Page!disconnect
      <4>2. events # 0 => events > 0
        BY <3>1
      <4> QED BY <4>1, <4>2, Zenon
    <3>4. CASE UNCHANGED Page!vars
      BY <3>1, <3>4 DEF Page!vars, Page!pagevars
    <3> QED BY <1>4, <3>2, <3>3, <3>4
  <2>4. PageTypes'
    BY <2>1, <2>2, <2>3 DEF PageInv, PageTypes, Counted, ServerStays
  <2>5. \A part \in Parts : Answers(part)' \subseteq Answers(part)
    BY <2>1 DEF Answers
  <2>6. missed' \/ (UNCHANGED flying /\ (events' = 0 => ~missed /\ events = 0))
    BY <2>1, <2>3
  <2> QED BY <2>1, <2>2, <2>4, <2>5, <2>6, PageWaits
<1>5. CASE Page!Settle
  BY <1>5, PageProbes, PageHears DEF Page!Settle, Answers
<1>6. ASSUME NEW p \in Parts, NEW got \in Answers(p), Page!fail(p, got)
      PROVE  PageInv'
  <2>1. /\ flying' = [flying EXCEPT ![p] = Page!BagRemove(@, got)] /\ missed' = TRUE
        /\ UNCHANGED Page!servervars /\ UNCHANGED <<connected, events, newest>>
    BY <1>6 DEF Page!fail
  <2>2. ServerStays
    BY <2>1, ServerVarsStay
  <2>3. PageTypes'
    BY <2>1, <2>2 DEF PageInv, PageTypes, Counted, ServerStays
  <2>4. \A part \in Parts : Answers(part)' \subseteq Answers(part)
    BY <2>1, BagTaken DEF PageInv, PageTypes, Answers
  <2> QED BY <2>1, <2>2, <2>3, <2>4, PageWaits
<1> QED BY <1>1, <1>2, <1>3, <1>4, <1>5, <1>6 DEF Page!Next, Answers

\* A page that has missed nothing since it last asked has been sent, once nothing is on
\* its way to it, what the server holds: it asks after each broadcast, and the answer to
\* what it asked last is at least as late as the last change, in whatever order broadcasts,
\* requests and answers come.
THEOREM PageKeepsUp == Page!Spec => []Page!KeptUp
<1>1. PageInv => Page!KeptUp
  <2> SUFFICES ASSUME PageInv, Page!Quiet, ~missed, NEW part \in Parts
               PROVE  newest[part].value = Page!Probed(part).value
    BY DEF Page!KeptUp
  <2>1. PICK t \in Nat : t <= handled /\ CurrentSince(t) /\ AskedSince(t)
    BY DEF PageInv
  <2>2. events = 0 /\ Answers(part) = {}
    BY BagsOfNothing DEF Page!Quiet, Answers
  <2>3. newest[part].at >= t
    BY <2>1, <2>2 DEF AskedSince
  <2> QED BY <2>1, <2>3 DEF CurrentSince
<1> QED BY <1>1, PageInit, PageStep, PTL DEF Page!Spec

-----------------------------------------------------------------------------
(***************************************************************************)
(* What the page holds is of its kinds.  No request is broadcast twice, so *)
(* that no more broadcasts wait for the page than requests were handled,   *)
(* and none of the page is answered twice, so that no more are on their way*)
(* to a part than the page has made.                                       *)
(***************************************************************************)
\* What Dashboard assumes, with what TestServer does.
PageConstants == ServerConstants /\ MaxAsked \in Nat \ {0} /\ MaxFailures \in Nat

\* A bag of at most n elements.
Few(B, n) ==
  /\ Page!IsABag(B)
  /\ IsFiniteSet(Page!Copies(B)) /\ Cardinality(Page!Copies(B)) <= n

OwnTypes ==
  /\ connected \in BOOLEAN /\ missed \in BOOLEAN
  /\ events \in Nat /\ events <= handled
  /\ asked \in 1 .. MaxAsked /\ failures \in 0 .. MaxFailures
  /\ DOMAIN texts = Parts /\ DOMAIN newest = Parts
  /\ flying = [part \in Parts |-> flying[part]] /\ \A part \in Parts : Few(flying[part], asked)

KindsInv == LogInv /\ OwnTypes

LEMMA BagKept ==
  ASSUME NEW B, NEW x, Page!IsABag(B)
  PROVE  Page!IsABag(Page!BagAdd(B, x)) /\ Page!IsABag(Page!BagRemove(B, x))
<1>1. \A e \in DOMAIN B : B[e] \in Nat /\ B[e] > 0
  BY DEF Page!IsABag
<1>2. Page!IsABag(Page!BagAdd(B, x))
  <2>1. CASE x \in DOMAIN B
    BY <1>1, <2>1 DEF Page!IsABag, Page!BagAdd
  <2>2. CASE x \notin DOMAIN B
    BY <1>1, <2>2 DEF Page!IsABag, Page!BagAdd
  <2> QED BY <2>1, <2>2
<1>3. Page!IsABag(Page!BagRemove(B, x))
  <2>1. CASE x \in DOMAIN B /\ B[x] = 1
    BY <1>1, <2>1 DEF Page!IsABag, Page!BagRemove
  <2>2. CASE x \in DOMAIN B /\ B[x] # 1
    <3>1. B[x] - 1 \in Nat /\ B[x] - 1 > 0
      BY <1>1, <2>2
    <3> QED BY <1>1, <2>2, <3>1 DEF Page!IsABag, Page!BagRemove
  <2>3. CASE x \notin DOMAIN B
    BY <2>3 DEF Page!BagRemove
  <2> QED BY <2>1, <2>2, <2>3
<1> QED BY <1>2, <1>3

LEMMA CopiesAre ==
  ASSUME NEW B, NEW e, NEW i
  PROVE  <<e, i>> \in Page!Copies(B) <=> e \in DOMAIN B /\ i \in 1 .. B[e]
  BY DEF Page!Copies

LEMMA CopiesPairs ==
  ASSUME NEW B, NEW z \in Page!Copies(B)
  PROVE  \E e, i : z = <<e, i>>
  BY DEF Page!Copies

\* One element more, one copy more.
LEMMA CopiesAdded ==
  ASSUME NEW B, NEW x, Page!IsABag(B)
  PROVE  \E z : z \notin Page!Copies(B) /\ Page!Copies(Page!BagAdd(B, x)) = Page!Copies(B) \cup {z}
<1> DEFINE n == IF x \in DOMAIN B THEN B[x] ELSE 0
           C == Page!BagAdd(B, x)
<1>1. n \in Nat /\ \A e \in DOMAIN B : B[e] \in Nat
  BY DEF Page!IsABag
<1>2. /\ DOMAIN C = DOMAIN B \cup {x} /\ C[x] = n + 1
      /\ \A e \in DOMAIN B : e # x => C[e] = B[e]
  <2>1. CASE x \in DOMAIN B
    BY <2>1 DEF Page!BagAdd
  <2>2. CASE x \notin DOMAIN B
    BY <2>2 DEF Page!BagAdd
  <2> QED BY <2>1, <2>2
<1> HIDE DEF C
<1>3. <<x, n + 1>> \notin Page!Copies(B)
  <2>1. x \in DOMAIN B => ~(n + 1 \in 1 .. B[x])
    BY <1>1
  <2> HIDE DEF n
  <2> QED BY <2>1, CopiesAre
<1>4. ASSUME NEW e, NEW i
      PROVE  <<e, i>> \in Page!Copies(C) <=> <<e, i>> \in Page!Copies(B) \/ (e = x /\ i = n + 1)
  <2>1. CASE e = x
    <3>1. i \in 1 .. C[x] <=> (i \in 1 .. n \/ i = n + 1)
      BY <1>1, <1>2
    <3>2. i \in 1 .. n => x \in DOMAIN B
      OBVIOUS
    <3>3. x \in DOMAIN B => n = B[x]
      OBVIOUS
    <3> HIDE DEF n
    <3> QED BY <1>2, <2>1, <3>1, <3>2, <3>3, CopiesAre
  <2>2. CASE e # x
    BY <1>2, <2>2, CopiesAre
  <2> QED BY <2>1, <2>2
<1> HIDE DEF n
<1>5. Page!Copies(C) = Page!Copies(B) \cup {<<x, n + 1>>}
  <2>1. ASSUME NEW z \in Page!Copies(C) PROVE z \in Page!Copies(B) \cup {<<x, n + 1>>}
    <3>1. PICK e, i : z = <<e, i>>
      BY CopiesPairs
    <3> QED BY <1>4, <3>1
  <2>2. ASSUME NEW z \in Page!Copies(B) PROVE z \in Page!Copies(C)
    <3>1. PICK e, i : z = <<e, i>>
      BY CopiesPairs
    <3> QED BY <1>4, <3>1
  <2> QED BY <1>4, <2>1, <2>2
<1> QED BY <1>3, <1>5 DEF C

\* One element less, one copy less.
LEMMA CopiesTaken ==
  ASSUME NEW B, NEW x \in DOMAIN B, Page!IsABag(B)
  PROVE  \E z \in Page!Copies(B) : Page!Copies(Page!BagRemove(B, x)) = Page!Copies(B) \ {z}
<1> DEFINE n == B[x]
           C == Page!BagRemove(B, x)
<1>1. n \in Nat /\ n > 0 /\ \A e \in DOMAIN B : B[e] \in Nat
  BY DEF Page!IsABag
<1>2. /\ DOMAIN C \subseteq DOMAIN B /\ \A e \in DOMAIN B : e # x => e \in DOMAIN C /\ C[e] = B[e]
      /\ (x \in DOMAIN C <=> n # 1) /\ (x \in DOMAIN C => C[x] = n - 1)
  <2>1. CASE B[x] = 1
    BY <2>1 DEF Page!BagRemove
  <2>2. CASE B[x] # 1
    BY <2>2 DEF Page!BagRemove
  <2> QED BY <2>1, <2>2
<1> HIDE DEF C
<1>3. <<x, n>> \in Page!Copies(B)
  BY <1>1, CopiesAre
<1>4. ASSUME NEW e, NEW i
      PROVE  <<e, i>> \in Page!Copies(C) <=> <<e, i>> \in Page!Copies(B) /\ ~(e = x /\ i = n)
  <2>1. CASE e = x
    <3>1. x \in DOMAIN C /\ i \in 1 .. C[x] <=> (i \in 1 .. n /\ i # n)
      <4>1. CASE n = 1
        BY <1>2, <4>1
      <4>2. CASE n # 1
        <5>1. x \in DOMAIN C /\ C[x] = n - 1
          BY <1>2, <4>2
        <5> HIDE DEF n
        <5> QED BY <1>1, <5>1
      <4> QED BY <4>1, <4>2
    <3> QED BY <2>1, <3>1, CopiesAre
  <2>2. CASE e # x
    BY <1>2, <2>2, CopiesAre
  <2> QED BY <2>1, <2>2
<1> HIDE DEF n
<1>5. Page!Copies(C) = Page!Copies(B) \ {<<x, n>>}
  <2>1. ASSUME NEW z \in Page!Copies(C) PROVE z \in Page!Copies(B) /\ z # <<x, n>>
    <3>1. PICK e, i : z = <<e, i>>
      BY CopiesPairs
    <3> QED BY <1>4, <3>1
  <2>2. ASSUME NEW z \in Page!Copies(B), z # <<x, n>> PROVE z \in Page!Copies(C)
    <3>1. PICK e, i : z = <<e, i>>
      BY CopiesPairs
    <3> QED BY <1>4, <2>2, <3>1
  <2> QED BY <2>1, <2>2
<1> QED BY <1>3, <1>5 DEF C

LEMMA FewAdded ==
  ASSUME NEW n \in Nat, NEW B, NEW x, Few(B, n)
  PROVE  Few(Page!BagAdd(B, x), n + 1)
<1>1. Page!IsABag(B) /\ IsFiniteSet(Page!Copies(B)) /\ Cardinality(Page!Copies(B)) <= n
  BY DEF Few
<1>2. PICK z : z \notin Page!Copies(B) /\ Page!Copies(Page!BagAdd(B, x)) = Page!Copies(B) \cup {z}
  BY <1>1, CopiesAdded
<1>3. /\ IsFiniteSet(Page!Copies(B) \cup {z})
      /\ Cardinality(Page!Copies(B) \cup {z}) = Cardinality(Page!Copies(B)) + 1
  BY <1>1, <1>2, FS_AddElement
<1>4. Cardinality(Page!Copies(B)) \in Nat
  BY <1>1, FS_CardinalityType
<1>5. Cardinality(Page!Copies(B) \cup {z}) <= n + 1
  BY <1>1, <1>3, <1>4
<1> QED BY <1>1, <1>2, <1>3, <1>5, BagKept DEF Few

LEMMA FewTaken ==
  ASSUME NEW n \in Nat, NEW B, NEW x \in DOMAIN B, Few(B, n)
  PROVE  Few(Page!BagRemove(B, x), n - 1) /\ n - 1 \in Nat
<1>1. Page!IsABag(B) /\ IsFiniteSet(Page!Copies(B)) /\ Cardinality(Page!Copies(B)) <= n
  BY DEF Few
<1>2. PICK z \in Page!Copies(B) : Page!Copies(Page!BagRemove(B, x)) = Page!Copies(B) \ {z}
  BY <1>1, CopiesTaken
<1>3. /\ IsFiniteSet(Page!Copies(B) \ {z})
      /\ Cardinality(Page!Copies(B) \ {z}) = Cardinality(Page!Copies(B)) - 1
  BY <1>1, <1>2, FS_RemoveElement
<1>4. /\ Cardinality(Page!Copies(B)) \in Nat
      /\ Cardinality(Page!Copies(B) \ {z}) \in Nat
  BY <1>1, <1>3, FS_CardinalityType
<1>5. Cardinality(Page!Copies(B) \ {z}) <= n - 1 /\ n - 1 \in Nat
  BY <1>1, <1>3, <1>4
<1> QED BY <1>1, <1>2, <1>3, <1>5, BagKept DEF Few

LEMMA FewOfMore ==
  ASSUME NEW m \in Nat, NEW n \in Nat, m <= n, NEW B, Few(B, m)
  PROVE  Few(B, n)
<1>1. Cardinality(Page!Copies(B)) \in Nat
  BY FS_CardinalityType DEF Few
<1> QED BY <1>1 DEF Few

LEMMA KindsStart == PageConstants /\ Page!Init => KindsInv
<1> SUFFICES ASSUME PageConstants, Page!Init PROVE KindsInv
  OBVIOUS
<1>1. LogInv
  BY LogStart DEF Page!Init, PageConstants
<1>2. /\ connected = FALSE /\ missed = FALSE /\ events = 0 /\ asked = 1 /\ failures = 0
      /\ flying = [part \in Parts |-> Page!SetToBag({Page!Nothing})]
      /\ texts = [part \in Parts |-> Page!Nothing] /\ newest = texts
  BY Zenon DEF Page!Init
<1>3. handled \in Nat
  BY <1>1 DEF LogInv, LogTypes, Counted
<1>4. Few(Page!SetToBag({Page!Nothing}), 1)
  <2> DEFINE B == Page!SetToBag({Page!Nothing})
  <2>1. B = [e \in {Page!Nothing} |-> 1]
    BY DEF Page!SetToBag
  <2>2. Page!IsABag(B)
    BY <2>1 DEF Page!IsABag
  <2>3. Page!Copies(B) = {<<Page!Nothing, 1>>}
    BY <2>1 DEF Page!Copies
  <2> HIDE DEF B
  <2>4. IsFiniteSet(Page!Copies(B)) /\ Cardinality(Page!Copies(B)) = 1
    BY <2>3, FS_Singleton
  <2>5. Few(B, 1)
    BY <2>2, <2>4 DEF Few
  <2> QED BY <2>5 DEF B
<1>5. /\ connected \in BOOLEAN /\ missed \in BOOLEAN
      /\ events \in Nat /\ events <= handled
      /\ asked \in 1 .. MaxAsked /\ failures \in 0 .. MaxFailures
  <2>1. connected = FALSE /\ missed = FALSE
    BY <1>2
  <2>2. events = 0 /\ asked = 1 /\ failures = 0
    BY <1>2
  <2>3. MaxAsked \in Nat \ {0} /\ MaxFailures \in Nat
    BY DEF PageConstants
  <2>4. connected \in BOOLEAN /\ missed \in BOOLEAN
    BY <2>1, Zenon
  <2>5. /\ events \in Nat /\ events <= handled
        /\ asked \in 1 .. MaxAsked /\ failures \in 0 .. MaxFailures
    <3> HIDE DEF PageConstants
    <3> QED BY <1>3, <2>2, <2>3
  <2> QED BY <2>4, <2>5, Zenon
<1>6. /\ flying = [part \in Parts |-> flying[part]]
      /\ \A part \in Parts : Few(flying[part], asked)
  BY <1>2, <1>4
<1>7. DOMAIN texts = Parts /\ DOMAIN newest = Parts
  BY <1>2
<1>8. OwnTypes
  BY <1>5, <1>6, <1>7 DEF OwnTypes
<1> QED BY <1>1, <1>8 DEF KindsInv

\* A step of the page: a bag is the same, or has one more or one less.
LEMMA KindsOfPage ==
  ASSUME KindsInv, UNCHANGED Page!servervars,
         connected' \in BOOLEAN, missed' \in BOOLEAN, events' \in Nat, events' <= events,
         asked' \in 1 .. MaxAsked, failures' \in 0 .. MaxFailures,
         DOMAIN texts' = Parts, DOMAIN newest' = Parts,
         flying' = [part \in Parts |-> flying'[part]],
         \A part \in Parts : Few(flying'[part], asked')
  PROVE  KindsInv'
<1>1. LogInv'
  BY LogStays DEF KindsInv, Page!servervars
<1>2. handled' = handled /\ handled \in Nat /\ events \in Nat /\ events <= handled
  BY DEF KindsInv, OwnTypes, LogInv, LogTypes, Counted, Page!servervars
<1>3. events' <= handled'
  BY <1>2
<1>4. OwnTypes'
  BY <1>3 DEF OwnTypes
<1> QED BY <1>1, <1>4 DEF KindsInv

LEMMA KindsHandled ==
  ASSUME PageConstants, KindsInv, NEW r \in Requests, Page!Handle(r)
  PROVE  KindsInv'
<1>1. LogInv'
  BY LogHandled DEF Page!Handle, KindsInv, PageConstants
<1>2. Counted /\ events \in Nat /\ events <= handled
  BY DEF KindsInv, OwnTypes, LogInv, LogTypes
<1>3. AnnouncedOr500
  BY <1>2, HandleAnnounces DEF Page!Handle
<1>4. /\ events' = IF connected THEN events + (refreshes' - refreshes) ELSE events
      /\ missed' = (missed \/ /\ Page!Changed
                              /\ ~connected \/ (refreshes' - refreshes = 0 /\ answer' = "500"))
      /\ UNCHANGED <<connected, asked, failures, flying, texts, newest>>
  BY DEF Page!Handle
<1>5. events' \in Nat /\ events' <= handled'
  <2>1. refreshes \in Nat /\ handled \in Nat /\ handled' = handled + 1
    BY <1>2, <1>3 DEF Counted, AnnouncedOr500
  <2>2. refreshes' = refreshes \/ refreshes' = refreshes + 1
    BY <1>3 DEF AnnouncedOr500
  <2>3. events' = events \/ events' = events + 1
    BY <1>2, <1>4, <2>1, <2>2
  <2> QED BY <1>2, <2>1, <2>3
<1>6. missed' \in BOOLEAN
  BY <1>4, Zenon DEF KindsInv, OwnTypes
<1>7. OwnTypes'
  BY <1>4, <1>5, <1>6 DEF KindsInv, OwnTypes
<1> QED BY <1>1, <1>7 DEF KindsInv

\* One part's bag is another one.
LEMMA KindsOfPart ==
  ASSUME KindsInv, NEW p \in Parts, NEW B, Few(B, asked), flying' = [flying EXCEPT ![p] = B],
         UNCHANGED Page!servervars, UNCHANGED <<connected, events, asked>>,
         missed' \in BOOLEAN, failures' \in 0 .. MaxFailures,
         DOMAIN texts' = Parts, DOMAIN newest' = Parts
  PROVE  KindsInv'
<1>1. /\ flying = [part \in Parts |-> flying[part]]
      /\ \A part \in Parts : Few(flying[part], asked)
      /\ connected \in BOOLEAN /\ events \in Nat /\ asked \in 1 .. MaxAsked
  BY DEF KindsInv, OwnTypes
<1>2. flying' = [part \in Parts |-> IF part = p THEN B ELSE flying[part]]
  BY <1>1
<1>3. flying' = [part \in Parts |-> flying'[part]]
  BY <1>2
<1>4. \A part \in Parts : Few(flying'[part], asked')
  BY <1>1, <1>2
<1>5. events' <= events
  BY <1>1
<1> QED BY <1>1, <1>3, <1>4, <1>5, KindsOfPage

LEMMA KindsStep ==
  ASSUME PageConstants, KindsInv, [Page!Next]_(Page!vars)
  PROVE  KindsInv'
<1>0. /\ connected \in BOOLEAN /\ missed \in BOOLEAN /\ events \in Nat
      /\ asked \in 1 .. MaxAsked /\ failures \in 0 .. MaxFailures
      /\ DOMAIN texts = Parts /\ DOMAIN newest = Parts
      /\ flying = [part \in Parts |-> flying[part]]
      /\ \A part \in Parts : Few(flying[part], asked)
      /\ MaxAsked \in Nat /\ MaxFailures \in Nat
  BY DEF KindsInv, OwnTypes, PageConstants
<1>1. CASE \E r \in Requests : Page!Handle(r)
  BY <1>1, KindsHandled
<1>2. ASSUME Page!refresh, events' \in Nat, events' <= events PROVE KindsInv'
  <2>1. /\ asked < MaxAsked /\ asked' = asked + 1 /\ missed' = FALSE
        /\ flying' = [part \in Parts |-> Page!BagAdd(flying[part], Page!Nothing)]
        /\ UNCHANGED Page!servervars /\ UNCHANGED <<connected, failures, texts, newest>>
    BY <1>2 DEF Page!refresh
  <2>2. asked' \in 1 .. MaxAsked
    BY <1>0, <2>1
  <2>3. \A part \in Parts : Few(flying'[part], asked')
    <3>1. asked \in Nat
      BY <1>0
    <3> QED BY <1>0, <2>1, <3>1, FewAdded
  <2>4. flying' = [part \in Parts |-> flying'[part]]
    BY <2>1
  <2> QED BY <1>0, <1>2, <2>1, <2>2, <2>3, <2>4, KindsOfPage
<1>3. CASE Page!on_refresh
  BY <1>0, <1>2, <1>3 DEF Page!on_refresh
<1>4. CASE Page!on_click
  BY <1>0, <1>2, <1>4 DEF Page!on_click
<1>5. CASE Page!connect
  <2>1. connected' = TRUE /\ events' <= events
    BY <1>0, <1>5 DEF Page!connect
  <2> QED BY <1>0, <1>5, <2>1, KindsOfPage DEF Page!connect
<1>6. CASE Page!disconnect
  <2>1. connected' = FALSE /\ events' = 0 /\ events' <= events /\ failures' \in 0 .. MaxFailures
    BY <1>0, <1>6 DEF Page!disconnect
  <2>2. missed' \in BOOLEAN
    BY <1>0, <1>6, Zenon DEF Page!disconnect
  <2>3. UNCHANGED Page!servervars /\ UNCHANGED <<asked, flying, texts, newest>>
    BY <1>6 DEF Page!disconnect
  <2> QED BY <1>0, <2>1, <2>2, <2>3, KindsOfPage
<1>11. ASSUME NEW p \in Parts, NEW got \in Page!BagToSet(flying[p])
       PROVE  Few(Page!BagRemove(flying[p], got), asked)
  <2>1. asked \in Nat /\ Few(flying[p], asked) /\ got \in DOMAIN flying[p]
    BY <1>0, <1>11 DEF Page!BagToSet
  <2>2. Few(Page!BagRemove(flying[p], got), asked - 1) /\ asked - 1 \in Nat
    BY <2>1, FewTaken
  <2>3. asked - 1 <= asked
    BY <2>1
  <2> QED BY <2>1, <2>2, <2>3, FewOfMore
<1>7. ASSUME NEW p \in Parts, Page!probe(p) PROVE KindsInv'
  <2> DEFINE B == Page!BagAdd(Page!BagRemove(flying[p], Page!Nothing), Page!Probed(p))
  <2>1. Few(B, asked)
    <3>1. asked \in Nat /\ Few(flying[p], asked)
      BY <1>0
    <3>2. Page!Nothing \in DOMAIN flying[p]
      BY <1>7, Zenon DEF Page!probe, Page!BagIn, Page!BagToSet
    <3>3. Few(Page!BagRemove(flying[p], Page!Nothing), asked - 1) /\ asked - 1 \in Nat
      BY <3>1, <3>2, FewTaken
    <3>4. Few(B, (asked - 1) + 1)
      BY <3>3, FewAdded
    <3>5. (asked - 1) + 1 = asked
      BY <3>1
    <3> HIDE DEF B
    <3> QED BY <3>4, <3>5
  <2>2. flying' = [flying EXCEPT ![p] = B]
    BY <1>7 DEF Page!probe
  <2>3. /\ UNCHANGED Page!servervars
        /\ UNCHANGED <<connected, events, asked, failures, texts, newest, missed>>
    BY <1>7 DEF Page!probe
  <2> HIDE DEF B
  <2> QED BY <1>0, <2>1, <2>2, <2>3, KindsOfPart
<1>8. ASSUME NEW p \in Parts, NEW got \in Page!BagToSet(flying[p]), Page!success(p, got)
      PROVE  KindsInv'
  <2> DEFINE B == Page!BagRemove(flying[p], got)
  <2>1. Few(B, asked)
    BY <1>11
  <2>2. flying' = [flying EXCEPT ![p] = B]
    BY <1>8 DEF Page!success
  <2>3. DOMAIN texts' = Parts /\ DOMAIN newest' = Parts
    BY <1>0, <1>8 DEF Page!success
  <2>4. UNCHANGED Page!servervars /\ UNCHANGED <<connected, events, asked, failures, missed>>
    BY <1>8 DEF Page!success
  <2> HIDE DEF B
  <2> QED BY <1>0, <2>1, <2>2, <2>3, <2>4, KindsOfPart
<1>9. ASSUME NEW p \in Parts, NEW got \in Page!BagToSet(flying[p]), Page!fail(p, got)
      PROVE  KindsInv'
  <2> DEFINE B == Page!BagRemove(flying[p], got)
  <2>1. Few(B, asked)
    BY <1>11
  <2>2. flying' = [flying EXCEPT ![p] = B]
    BY <1>9 DEF Page!fail
  <2>3. failures' \in 0 .. MaxFailures /\ missed' = TRUE
    BY <1>0, <1>9 DEF Page!fail
  <2>4. UNCHANGED Page!servervars /\ UNCHANGED <<connected, events, asked, texts, newest>>
    BY <1>9 DEF Page!fail
  <2> HIDE DEF B
  <2> QED BY <1>0, <2>1, <2>2, <2>3, <2>4, KindsOfPart
<1>10. CASE UNCHANGED Page!vars
  <2>1. UNCHANGED Page!servervars /\ UNCHANGED Page!pagevars
    BY <1>10 DEF Page!vars
  <2>2. events' <= events
    BY <1>0, <2>1 DEF Page!pagevars
  <2> QED BY <1>0, <2>1, <2>2, KindsOfPage DEF Page!pagevars
<1> QED BY <1>1, <1>3, <1>4, <1>5, <1>6, <1>7, <1>8, <1>9, <1>10 DEF Page!Next, Page!Settle

\* The page and its server keep their types, whatever requests come in and in whatever
\* order; no more broadcasts wait for the page than requests are handled, and no more
\* requests are on their way to a part than the page asked times: none is broadcast and
\* none answered twice (refresh in server.py, on_refresh and refresh in app.js).
THEOREM PageTypesCorrect ==
  ASSUME PageConstants
  PROVE  Page!Spec => []Page!TypeOK
<1>1. KindsInv => Page!TypeOK
  <2> SUFFICES ASSUME KindsInv PROVE Page!TypeOK
    OBVIOUS
  <2>1. Page!Server!TypeOK
    BY LogTypeOK DEF KindsInv
  <2>2. events \in 0 .. MaxRequests
    BY DEF KindsInv, OwnTypes, LogInv, LogTypes, Counted, PageConstants, ServerConstants
  <2>3. \A part \in Parts : /\ Page!IsABag(flying[part])
                            /\ Cardinality(Page!Copies(flying[part])) <= asked
    BY DEF KindsInv, OwnTypes, Few
  <2>4. /\ connected \in BOOLEAN /\ missed \in BOOLEAN
        /\ asked \in 1 .. MaxAsked /\ failures \in 0 .. MaxFailures
        /\ DOMAIN texts = Parts /\ DOMAIN newest = Parts
    BY DEF KindsInv, OwnTypes
  <2> QED BY <2>1, <2>2, <2>3, <2>4, Zenon DEF Page!TypeOK, Page!Cardinality, Cardinality
<1> QED BY <1>1, KindsStart, KindsStep, PTL DEF Page!Spec

-----------------------------------------------------------------------------
(***************************************************************************)
(* The store of scripts, and the list they are shown on.                   *)
(***************************************************************************)

CONSTANTS Stored, MaxEdits, MaxScreens, MaxKills

VARIABLES db, opened, tasks, dirty, posted, list, front, screens, dialogs, edits, kills

Store == INSTANCE ScriptStore

-----------------------------------------------------------------------------
(***************************************************************************)
(* The table, and what the tasks make of it.                               *)
(***************************************************************************)
\* What ScriptStore assumes of the tables and the bounds.
StoreConstants ==
  /\ \A d \in Stored : Store!IsDb(d)
  /\ MaxEdits \in Nat /\ MaxScreens \in Nat /\ MaxKills \in Nat

AnyRows == UNION {[D -> Nat] : D \in SUBSET Nat}

Db == {d \in [rows : AnyRows, next : Nat \ {0}] : DOMAIN d.rows \subseteq 1 .. d.next - 1}

LEMMA DbFields ==
  ASSUME NEW d \in Db
  PROVE  /\ d.next \in Nat \ {0} /\ DOMAIN d.rows \subseteq 1 .. d.next - 1
         /\ d.rows = [id \in DOMAIN d.rows |-> d.rows[id]]
         /\ \A id \in DOMAIN d.rows : id \in Nat /\ d.rows[id] \in Nat
<1>1. d \in [rows : AnyRows, next : Nat \ {0}] /\ DOMAIN d.rows \subseteq 1 .. d.next - 1
  BY DEF Db
<1>2. d.rows \in AnyRows /\ d.next \in Nat \ {0}
  BY <1>1
<1>3. PICK D \in SUBSET Nat : d.rows \in [D -> Nat]
  BY <1>2 DEF AnyRows
<1> QED BY <1>1, <1>2, <1>3

LEMMA MakesDb ==
  ASSUME NEW rows, NEW next \in Nat \ {0}, NEW D \in SUBSET Nat, rows \in [D -> Nat],
         D \subseteq 1 .. next - 1
  PROVE  [rows |-> rows, next |-> next] \in Db
<1>1. rows \in AnyRows
  BY DEF AnyRows
<1>2. DOMAIN rows = D
  OBVIOUS
<1> QED BY <1>1, <1>2 DEF Db

LEMMA DbIsDb == \A d : d \in Db <=> Store!IsDb(d)
<1>1. ASSUME NEW d \in Db PROVE Store!IsDb(d)
  <2>1. d = [rows |-> d.rows, next |-> d.next]
    BY DEF Db
  <2> QED BY <2>1, DbFields DEF Store!IsDb
<1>2. ASSUME NEW d, Store!IsDb(d) PROVE d \in Db
  <2> DEFINE rows == d.rows
             next == d.next
  <2>1. /\ d = [rows |-> rows, next |-> next] /\ next \in Nat \ {0}
        /\ rows = [id \in DOMAIN rows |-> rows[id]] /\ DOMAIN rows \subseteq 1 .. next - 1
        /\ \A id \in DOMAIN rows : rows[id] \in Nat
    BY <1>2 DEF Store!IsDb
  <2> HIDE DEF rows, next
  <2>2. DOMAIN rows \in SUBSET Nat
    BY <2>1
  <2>3. rows \in [DOMAIN rows -> Nat]
    BY <2>1
  <2>4. [rows |-> rows, next |-> next] \in Db
    BY <2>1, <2>2, <2>3, MakesDb
  <2> QED BY <2>1, <2>4
<1> QED BY <1>1, <1>2

\* The table after an insert, an update, a delete: its rows, and that its ids only grow.
IsInserted(e, d, v) ==
  /\ e \in Db /\ e.next = d.next + 1 /\ DOMAIN e.rows = DOMAIN d.rows \cup {d.next}
  /\ e.rows[d.next] = v /\ \A id \in DOMAIN d.rows : e.rows[id] = d.rows[id]

LEMMA Inserted ==
  ASSUME NEW d \in Db, NEW v \in Nat
  PROVE  IsInserted(Store!insert(d, v), d, v)
<1> DEFINE D == DOMAIN d.rows \cup {d.next}
           rows == [id \in D |-> IF id = d.next THEN v ELSE d.rows[id]]
           next == d.next + 1
<1>1. /\ d.next \in Nat \ {0} /\ DOMAIN d.rows \subseteq 1 .. d.next - 1
      /\ \A id \in DOMAIN d.rows : id \in Nat /\ d.rows[id] \in Nat
  BY DbFields
<1>2. next \in Nat \ {0} /\ D \in SUBSET Nat /\ D \subseteq 1 .. next - 1
  BY <1>1
<1>3. rows \in [D -> Nat]
  BY <1>1
<1>4. Store!insert(d, v) = [rows |-> rows, next |-> next]
  BY DEF Store!insert
<1>5. rows[d.next] = v /\ \A id \in DOMAIN d.rows : rows[id] = d.rows[id]
  BY <1>1
<1> HIDE DEF rows, D
<1>6. [rows |-> rows, next |-> next] \in Db
  BY <1>2, <1>3, MakesDb
<1>7. DOMAIN rows = D
  BY <1>3
<1> QED BY <1>4, <1>5, <1>6, <1>7 DEF IsInserted, D

IsUpdated(e, d, id, v) ==
  /\ e \in Db /\ e.next = d.next /\ DOMAIN e.rows = DOMAIN d.rows
  /\ \A i \in DOMAIN d.rows : e.rows[i] = IF i = id THEN v ELSE d.rows[i]

LEMMA Updated ==
  ASSUME NEW d \in Db, NEW id, NEW v \in Nat
  PROVE  IsUpdated(Store!update(d, id, v), d, id, v)
<1> DEFINE D == DOMAIN d.rows
           rows == [i \in D |-> IF i = id THEN v ELSE d.rows[i]]
           next == d.next
<1>1. /\ next \in Nat \ {0} /\ D \subseteq 1 .. next - 1
      /\ \A i \in D : i \in Nat /\ d.rows[i] \in Nat
  BY DbFields
<1>2. D \in SUBSET Nat
  BY <1>1
<1>3. rows \in [D -> Nat]
  BY <1>1
<1>4. Store!update(d, id, v) = [rows |-> rows, next |-> next]
  <2>1. d \in [rows : AnyRows, next : Nat \ {0}]
    BY DEF Db
  <2> QED BY <2>1 DEF Store!update
<1>5. \A i \in D : rows[i] = IF i = id THEN v ELSE d.rows[i]
  OBVIOUS
<1> HIDE DEF rows, D, next
<1>6. [rows |-> rows, next |-> next] \in Db
  BY <1>1, <1>2, <1>3, MakesDb
<1>7. DOMAIN rows = D
  BY <1>3
<1> QED BY <1>4, <1>5, <1>6, <1>7 DEF IsUpdated, D, next

IsDeleted(e, d, id) ==
  /\ e \in Db /\ e.next = d.next /\ DOMAIN e.rows = DOMAIN d.rows \ {id}
  /\ \A i \in DOMAIN e.rows : e.rows[i] = d.rows[i]

LEMMA Deleted ==
  ASSUME NEW d \in Db, NEW id
  PROVE  IsDeleted(Store!deleteAction(d, id), d, id)
<1> DEFINE D == DOMAIN d.rows \ {id}
           rows == [i \in D |-> d.rows[i]]
           next == d.next
<1>1. /\ next \in Nat \ {0} /\ D \subseteq 1 .. next - 1
      /\ \A i \in D : i \in Nat /\ d.rows[i] \in Nat
  BY DbFields
<1>2. D \in SUBSET Nat
  BY <1>1
<1>3. rows \in [D -> Nat]
  BY <1>1
<1>4. Store!deleteAction(d, id) = [rows |-> rows, next |-> next]
  <2>1. d \in [rows : AnyRows, next : Nat \ {0}]
    BY DEF Db
  <2> QED BY <2>1 DEF Store!deleteAction
<1>5. \A i \in D : rows[i] = d.rows[i]
  OBVIOUS
<1> HIDE DEF rows, D, next
<1>6. [rows |-> rows, next |-> next] \in Db
  BY <1>1, <1>2, <1>3, MakesDb
<1>7. DOMAIN rows = D
  BY <1>3
<1> QED BY <1>4, <1>5, <1>6, <1>7 DEF IsDeleted, D, next

\* What a task makes of a table is one of these, or the same table.
IsDone(e, d, t) ==
  \/ t.op = "insert" /\ IsInserted(e, d, t.v)
  \/ t.op = "update" /\ IsUpdated(e, d, t.id, t.v)
  \/ t.op = "delete" /\ IsDeleted(e, d, t.id)
  \/ t.op = "populate" /\ DOMAIN d.rows = {} /\ IsInserted(e, d, Store!Sample)
  \/ t.op = "populate" /\ DOMAIN d.rows # {} /\ e = d

LEMMA TaskFields ==
  ASSUME NEW t \in Store!Task
  PROVE  \/ t.op = "insert" /\ t.v \in Nat
         \/ t.op = "update" /\ t.id \in Nat /\ t.v \in Nat /\ t.base \in SUBSET Nat
                                /\ t.sound \in BOOLEAN
         \/ t.op = "delete" /\ t.id \in Nat
         \/ t.op = "populate"
  BY DEF Store!Task

LEMMA DoneIs ==
  ASSUME NEW d \in Db, NEW t \in Store!Task
  PROVE  IsDone(Store!Done(d, t), d, t)
<1>1. CASE t.op = "insert" /\ t.v \in Nat
  <2>1. Store!Done(d, t) = Store!insert(d, t.v)
    BY <1>1 DEF Store!Done
  <2> QED BY <1>1, <2>1, Inserted DEF IsDone
<1>2. CASE t.op = "update" /\ t.id \in Nat /\ t.v \in Nat
  <2>1. Store!Done(d, t) = Store!update(d, t.id, t.v)
    BY <1>2 DEF Store!Done
  <2> QED BY <1>2, <2>1, Updated DEF IsDone
<1>3. CASE t.op = "delete" /\ t.id \in Nat
  <2>1. Store!Done(d, t) = Store!deleteAction(d, t.id)
    BY <1>3 DEF Store!Done
  <2> QED BY <1>3, <2>1, Deleted DEF IsDone
<1>4. CASE t.op = "populate" /\ DOMAIN d.rows = {}
  <2>1. Store!Done(d, t) = Store!insert(d, Store!Sample)
    BY <1>4 DEF Store!Done
  <2>2. Store!Sample \in Nat
    BY DEF Store!Sample
  <2> QED BY <1>4, <2>1, <2>2, Inserted DEF IsDone
<1>5. CASE t.op = "populate" /\ DOMAIN d.rows # {}
  <2>1. Store!Done(d, t) = d
    BY <1>5 DEF Store!Done
  <2> QED BY <1>5, <2>1 DEF IsDone
<1> QED BY <1>1, <1>2, <1>3, <1>4, <1>5, TaskFields

LEMMA DoneDb ==
  ASSUME NEW d \in Db, NEW t \in Store!Task
  PROVE  Store!Done(d, t) \in Db
  BY DoneIs DEF IsDone, IsInserted, IsUpdated, IsDeleted

\* at[n] is the table after the first n - 1 tasks.
IsAfter(at, d, ts) ==
  /\ at \in [1 .. Len(ts) + 1 -> Db] /\ at[1] = d
  /\ \A n \in 1 .. Len(ts) : at[n + 1] = Store!Done(at[n], ts[n])

LEMMA AfterRun ==
  ASSUME NEW d \in Db, NEW ts \in Seq(Store!Task)
  PROVE  IsAfter(Store!After(d, ts), d, ts)
<1> DEFINE N == Len(ts)
           Step(e, n) == Store!Done(e, ts[n])
           h == [x \in Db \X (1 .. N) |-> Step(x[1], x[2])]
           Eq(at) == at = [n \in 1 .. N + 1 |-> IF n = 1 THEN d ELSE Step(at[n - 1], n - 1)]
           run == CHOOSE at : Eq(at)
<1>1. N \in Nat
  OBVIOUS
<1>2. \A e \in Db, n \in 1 .. N : Step(e, n) \in Db
  <2>1. TAKE e \in Db, n \in 1 .. N
  <2>2. ts[n] \in Store!Task
    OBVIOUS
  <2> QED BY <2>2, DoneDb
<1>3. Store!After(d, ts) = run
  BY DEF Store!After
<1> HIDE DEF N
<1>4. ASSUME NEW e, NEW n PROVE Step(e, n) = Store!Done(e, ts[n])
  OBVIOUS
<1> HIDE DEF Step
<1>5. h \in [Db \X (1 .. N) -> Db]
  BY <1>2
<1>6. PICK f : IsRun(f, d, h, N, Db)
  <2> HIDE DEF h
  <2> QED BY <1>1, <1>5, RunExists
<1>7. f \in [0 .. N -> Db] /\ f[0] = d
  BY <1>6 DEF IsRun
<1>8. ASSUME NEW n \in 1 .. N PROVE f[n] = Step(f[n - 1], n)
  <2>1. f[n - 1] \in Db
    BY <1>1, <1>7
  <2>2. h[<<f[n - 1], n>>] = Step(f[n - 1], n)
    BY <2>1
  <2> HIDE DEF h
  <2> QED BY <1>6, <2>2 DEF IsRun
<1> HIDE DEF h
<1>9. Eq([n \in 1 .. N + 1 |-> f[n - 1]])
  <2> DEFINE at == [n \in 1 .. N + 1 |-> f[n - 1]]
  <2>1. ASSUME NEW n \in 1 .. N + 1
        PROVE  at[n] = IF n = 1 THEN d ELSE Step(at[n - 1], n - 1)
    <3>1. CASE n = 1
      BY <1>7, <3>1
    <3>2. CASE n # 1
      <4>1. n - 1 \in 1 .. N /\ n - 1 \in 1 .. N + 1
        BY <1>1, <3>2
      <4>2. at[n] = f[n - 1] /\ at[n - 1] = f[(n - 1) - 1]
        BY <4>1
      <4> HIDE DEF at
      <4> QED BY <1>8, <3>2, <4>1, <4>2
    <3> QED BY <3>1, <3>2
  <2>2. at = [n \in 1 .. N + 1 |-> at[n]]
    OBVIOUS
  <2> HIDE DEF at
  <2>3. Eq(at)
    BY <2>1, <2>2
  <2> HIDE DEF Eq
  <2> QED BY <2>3 DEF at
<1>10. Eq(run)
  <2> HIDE DEF Eq
  <2> QED BY <1>9
<1> HIDE DEF run
<1>11. /\ run = [n \in 1 .. N + 1 |-> run[n]] /\ run[1] = d
       /\ \A n \in 1 .. N : run[n + 1] = Step(run[n], n)
  <2>1. 1 \in 1 .. N + 1
    BY <1>1
  <2>2. \A n \in 1 .. N : n + 1 \in 1 .. N + 1 /\ n + 1 # 1 /\ (n + 1) - 1 = n
    BY <1>1
  <2> QED BY <1>10, <2>1, <2>2
<1> HIDE DEF Eq
<1> DEFINE g == [n \in 0 .. N |-> run[n + 1]]
<1>12. Alike(f, g, N)
  <2>1. g[0] = d
    BY <1>1, <1>11
  <2>2. ASSUME NEW n \in 1 .. N PROVE g[n] = Step(g[n - 1], n)
    <3>1. n \in 0 .. N /\ n - 1 \in 0 .. N /\ (n - 1) + 1 = n
      BY <1>1
    <3>2. g[n] = run[n + 1] /\ g[n - 1] = run[n]
      BY <3>1
    <3> HIDE DEF g
    <3> QED BY <1>11, <3>2
  <2> HIDE DEF g
  <2>3. StepAlike(f, g, N)
    BY <1>8, <2>2 DEF StepAlike
  <2> QED BY <1>1, <1>7, <2>1, <2>3, SameRun
<1>13. ASSUME NEW n \in 1 .. N + 1 PROVE run[n] \in Db
  <2>1. n - 1 \in 0 .. N /\ (n - 1) + 1 = n
    BY <1>1
  <2>2. g[n - 1] = run[n]
    BY <2>1
  <2> HIDE DEF g
  <2> QED BY <1>7, <1>12, <2>1, <2>2 DEF Alike
<1>14. run \in [1 .. N + 1 -> Db]
  BY <1>11, <1>13
<1>15. IsAfter(run, d, ts)
  BY <1>4, <1>11, <1>14 DEF IsAfter, N
<1> QED BY <1>3, <1>15

LEMMA UniqueAfter ==
  ASSUME NEW d \in Db, NEW ts \in Seq(Store!Task), NEW a, IsAfter(a, d, ts)
  PROVE  a = Store!After(d, ts)
<1> DEFINE N == Len(ts)
           b == Store!After(d, ts)
           f == [n \in 0 .. N |-> a[n + 1]]
           g == [n \in 0 .. N |-> b[n + 1]]
<1>1. N \in Nat
  OBVIOUS
<1>2. IsAfter(b, d, ts)
  BY AfterRun
<1> HIDE DEF b, N
<1>3. /\ a \in [1 .. N + 1 -> Db] /\ a[1] = d /\ b \in [1 .. N + 1 -> Db] /\ b[1] = d
      /\ \A n \in 1 .. N : a[n + 1] = Store!Done(a[n], ts[n]) /\ b[n + 1] = Store!Done(b[n], ts[n])
  BY <1>2 DEF IsAfter, N
<1>4. \A n \in 1 .. N + 1 : n - 1 \in 0 .. N /\ f[n - 1] = a[n] /\ g[n - 1] = b[n]
  <2>1. TAKE n \in 1 .. N + 1
  <2>2. n - 1 \in 0 .. N /\ (n - 1) + 1 = n
    BY <1>1
  <2> QED BY <2>2
<1>5. StepAlike(f, g, N)
  <2>1. SUFFICES ASSUME NEW n \in 1 .. N, f[n - 1] = g[n - 1] PROVE f[n] = g[n]
    BY DEF StepAlike
  <2>2. n \in 1 .. N + 1 /\ n \in 0 .. N
    BY <1>1
  <2>3. f[n] = a[n + 1] /\ g[n] = b[n + 1]
    BY <2>2
  <2>4. a[n] = b[n]
    BY <1>4, <2>1, <2>2
  <2> QED BY <1>3, <2>3, <2>4
<1>6. f[0] = g[0]
  <2>1. 0 \in 0 .. N /\ 0 + 1 = 1
    BY <1>1
  <2> QED BY <1>3, <2>1
<1>7. Alike(f, g, N)
  <2> HIDE DEF f, g
  <2> QED BY <1>1, <1>5, <1>6, SameRun
<1>8. \A n \in 1 .. N + 1 : a[n] = b[n]
  <2> HIDE DEF f, g
  <2> QED BY <1>4, <1>7 DEF Alike
<1>9. a = b
  <2>1. a = [n \in 1 .. N + 1 |-> a[n]] /\ b = [n \in 1 .. N + 1 |-> b[n]]
    BY <1>3
  <2> QED BY <1>8, <2>1
<1> QED BY <1>9 DEF b

\* A task more at the end, the oldest task done, and the sample inserted that the
\* populating task found missing.
LEMMA AfterAppend ==
  ASSUME NEW d \in Db, NEW ts \in Seq(Store!Task), NEW t \in Store!Task
  PROVE  LET last == Store!After(d, ts)[Len(ts) + 1]
         IN  /\ Append(ts, t) \in Seq(Store!Task) /\ Len(Append(ts, t)) = Len(ts) + 1
             /\ \A n \in 1 .. Len(ts) + 1 : Store!After(d, Append(ts, t))[n] = Store!After(d, ts)[n]
             /\ Store!After(d, Append(ts, t))[Len(ts) + 2] = Store!Done(last, t)
             /\ last \in Db /\ Store!Done(last, t) \in Db
<1> DEFINE N == Len(ts)
           us == Append(ts, t)
           a == Store!After(d, ts)
           b == [n \in 1 .. N + 2 |-> IF n = N + 2 THEN Store!Done(a[N + 1], t) ELSE a[n]]
<1>1. /\ N \in Nat /\ us \in Seq(Store!Task) /\ Len(us) = N + 1 /\ us[N + 1] = t
      /\ \A n \in 1 .. N : us[n] = ts[n]
  BY AppendProperties
<1>2. IsAfter(a, d, ts)
  BY AfterRun
<1> HIDE DEF a, N, us
<1>3. /\ a \in [1 .. N + 1 -> Db] /\ a[1] = d
      /\ \A n \in 1 .. N : a[n + 1] = Store!Done(a[n], ts[n])
  BY <1>2 DEF IsAfter, N
<1>4. a[N + 1] \in Db
  BY <1>1, <1>3
<1>5. Store!Done(a[N + 1], t) \in Db
  BY <1>4, DoneDb
<1>6. \A n \in 1 .. N + 1 : n \in 1 .. N + 2 /\ n # N + 2 /\ b[n] = a[n]
  <2>1. TAKE n \in 1 .. N + 1
  <2>2. n \in 1 .. N + 2 /\ n # N + 2
    BY <1>1
  <2> QED BY <2>2
<1>7. b[N + 2] = Store!Done(a[N + 1], t)
  BY <1>1
<1>8. b \in [1 .. N + 2 -> Db]
  <2>1. ASSUME NEW n \in 1 .. N + 2 PROVE b[n] \in Db
    <3>1. CASE n = N + 2
      BY <1>5, <1>7, <3>1
    <3>2. CASE n # N + 2
      <4>1. n \in 1 .. N + 1
        BY <1>1, <3>2
      <4> QED BY <1>3, <1>6, <4>1
    <3> QED BY <3>1, <3>2
  <2> QED BY <2>1
<1> HIDE DEF b
<1>9. \A n \in 1 .. N + 1 : b[n + 1] = Store!Done(b[n], us[n])
  <2>1. TAKE n \in 1 .. N + 1
  <2>2. CASE n = N + 1
    <3>1. n + 1 = N + 2 /\ b[n] = a[N + 1]
      BY <1>1, <1>6, <2>2
    <3> QED BY <1>1, <1>7, <2>2, <3>1
  <2>3. CASE n # N + 1
    <3>1. n \in 1 .. N /\ n + 1 \in 1 .. N + 1
      BY <1>1, <2>3
    <3> QED BY <1>1, <1>3, <1>6, <3>1
  <2> QED BY <2>2, <2>3
<1>10. IsAfter(b, d, us)
  <2>1. Len(us) + 1 = N + 2 /\ 1 \in 1 .. N + 1
    BY <1>1
  <2>2. b[1] = d
    BY <1>3, <1>6, <2>1
  <2> QED BY <1>1, <1>8, <1>9, <2>1, <2>2 DEF IsAfter
<1>11. b = Store!After(d, us)
  BY <1>1, <1>10, UniqueAfter
<1> QED BY <1>1, <1>4, <1>5, <1>6, <1>7, <1>11 DEF us, a, N

LEMMA AfterTail ==
  ASSUME NEW d \in Db, NEW ts \in Seq(Store!Task), ts # <<>>
  PROVE  /\ Head(ts) = ts[1] /\ ts[1] \in Store!Task
         /\ Tail(ts) \in Seq(Store!Task) /\ Len(Tail(ts)) = Len(ts) - 1 /\ Len(ts) \in Nat \ {0}
         /\ \A n \in 1 .. Len(ts) - 1 : Tail(ts)[n] = ts[n + 1]
         /\ \A n \in 1 .. Len(ts) :
              Store!After(Store!Done(d, Head(ts)), Tail(ts))[n] = Store!After(d, ts)[n + 1]
<1> DEFINE N == Len(ts)
           us == Tail(ts)
           e == Store!Done(d, Head(ts))
           a == Store!After(d, ts)
           b == [n \in 1 .. N |-> a[n + 1]]
<1>1. /\ N \in Nat \ {0} /\ Head(ts) = ts[1] /\ us \in Seq(Store!Task) /\ Len(us) = N - 1
      /\ \A n \in 1 .. N - 1 : us[n] = ts[n + 1]
  BY HeadTailProperties, EmptySeq
<1>2. ts[1] \in Store!Task
  BY <1>1
<1>3. e \in Db
  BY <1>1, <1>2, DoneDb
<1>4. IsAfter(a, d, ts)
  BY AfterRun
<1> HIDE DEF a, N, us
<1>5. /\ a \in [1 .. N + 1 -> Db] /\ a[1] = d
      /\ \A n \in 1 .. N : a[n + 1] = Store!Done(a[n], ts[n])
  BY <1>4 DEF IsAfter, N
<1>6. \A n \in 1 .. N : n + 1 \in 1 .. N + 1 /\ b[n] = a[n + 1]
  BY <1>1
<1>7. b \in [1 .. N -> Db]
  BY <1>5, <1>6
<1>8. b[1] = e
  <2>1. 1 \in 1 .. N
    BY <1>1
  <2>2. b[1] = a[1 + 1] /\ a[1 + 1] = Store!Done(a[1], ts[1])
    BY <1>5, <1>6, <2>1
  <2> HIDE DEF b
  <2> QED BY <1>1, <1>5, <2>2
<1> HIDE DEF b
<1>9. \A n \in 1 .. N - 1 : b[n + 1] = Store!Done(b[n], us[n])
  <2>1. TAKE n \in 1 .. N - 1
  <2>2. n \in 1 .. N /\ n + 1 \in 1 .. N
    BY <1>1
  <2>3. b[n] = a[n + 1] /\ b[n + 1] = a[(n + 1) + 1]
    BY <1>6, <2>2
  <2>4. a[(n + 1) + 1] = Store!Done(a[n + 1], ts[n + 1])
    BY <1>5, <2>2
  <2> QED BY <1>1, <2>3, <2>4
<1>10. IsAfter(b, e, us)
  <2>1. Len(us) + 1 = N
    BY <1>1
  <2> QED BY <1>1, <1>7, <1>8, <1>9, <2>1 DEF IsAfter
<1>11. b = Store!After(e, us)
  <2> HIDE DEF e
  <2> QED BY <1>1, <1>3, <1>10, UniqueAfter
<1> QED BY <1>1, <1>2, <1>6, <1>11 DEF us, a, N

TheSample == [op |-> "insert", v |-> Store!Sample]

LEMMA AfterSample ==
  ASSUME NEW d \in Db, NEW ts \in Seq(Store!Task), ts # <<>>,
         Head(ts).op = "populate", DOMAIN d.rows = {}
  PROVE  LET us == [ts EXCEPT ![1] = TheSample]
         IN  /\ us \in Seq(Store!Task) /\ Len(us) = Len(ts)
             /\ us[1] = TheSample /\ \A n \in 2 .. Len(ts) : us[n] = ts[n]
             /\ Store!After(d, us) = Store!After(d, ts)
<1> DEFINE N == Len(ts)
           us == [ts EXCEPT ![1] = TheSample]
           a == Store!After(d, ts)
<1>1. N \in Nat \ {0} /\ Head(ts) = ts[1] /\ ts[1] \in Store!Task
  BY AfterTail
<1>2. TheSample \in Store!Task
  BY DEF TheSample, Store!Task, Store!Sample
<1>3. 1 \in 1 .. N
  BY <1>1
<1>4. us \in Seq(Store!Task) /\ Len(us) = N
        /\ \A n \in 1 .. N : us[n] = IF n = 1 THEN TheSample ELSE ts[n]
  BY <1>2, <1>3, ExceptSeq
<1>5. Store!Done(d, TheSample) = Store!insert(d, Store!Sample)
  BY DEF Store!Done, TheSample
<1>6. Store!Done(d, ts[1]) = Store!insert(d, Store!Sample)
  BY <1>1 DEF Store!Done
<1>7. IsAfter(a, d, ts)
  BY AfterRun
<1> HIDE DEF a, us
<1>8. IsAfter(a, d, us)
  <2>1. ASSUME NEW n \in 1 .. N PROVE a[n + 1] = Store!Done(a[n], us[n])
    <3>1. a[n + 1] = Store!Done(a[n], ts[n]) /\ a[1] = d
      BY <1>7 DEF IsAfter
    <3>2. CASE n = 1
      BY <1>4, <1>5, <1>6, <3>1, <3>2
    <3>3. CASE n # 1
      BY <1>4, <3>1, <3>3
    <3> QED BY <3>2, <3>3
  <2> QED BY <1>4, <1>7, <2>1 DEF IsAfter
<1>9. a = Store!After(d, us)
  BY <1>4, <1>8, UniqueAfter
<1>10. us[1] = TheSample /\ \A n \in 2 .. N : us[n] = ts[n]
  BY <1>1, <1>4
<1> QED BY <1>4, <1>9, <1>10 DEF us, a, N

\* Sequences without their last, or without one, of their elements.
LEMMA StoreFront ==
  ASSUME NEW S, NEW s \in Seq(S), s # <<>>
  PROVE  /\ Store!Front(s) \in Seq(S) /\ Len(Store!Front(s)) = Len(s) - 1 /\ Len(s) \in Nat \ {0}
         /\ DOMAIN Store!Front(s) = 1 .. Len(s) - 1
         /\ \A i \in 1 .. Len(s) - 1 : Store!Front(s)[i] = s[i]
         /\ Store!Last(s) = s[Len(s)] /\ s[Len(s)] \in S
<1> DEFINE f == SubSeq(s, 1, Len(s) - 1)
<1>1. Len(s) \in Nat \ {0} /\ \A i \in 1 .. Len(s) : s[i] \in S
  BY EmptySeq, ElementOfSeq
<1>2. Len(s) - 1 \in Int /\ \A i \in 1 .. Len(s) - 1 : s[i] \in S
  BY <1>1
<1>3. /\ f \in Seq(S) /\ Len(f) = (IF 1 <= Len(s) - 1 THEN Len(s) - 1 - 1 + 1 ELSE 0)
      /\ \A i \in 1 .. Len(s) - 1 - 1 + 1 : f[i] = s[1 + i - 1]
  BY <1>2, SubSeqProperties
<1> HIDE DEF f
<1>4. Len(f) = Len(s) - 1
  <2> DEFINE n == Len(s)
  <2>1. n \in Nat \ {0} /\ Len(f) = IF 1 <= n - 1 THEN n - 1 - 1 + 1 ELSE 0
    BY <1>1, <1>3
  <2> HIDE DEF n
  <2>2. Len(f) = n - 1
    BY <2>1
  <2> QED BY <2>2 DEF n
<1>5. \A i \in 1 .. Len(s) - 1 : f[i] = s[i]
  <2>1. TAKE i \in 1 .. Len(s) - 1
  <2>2. i \in 1 .. Len(s) - 1 - 1 + 1 /\ 1 + i - 1 = i
    BY <1>1
  <2> QED BY <1>3, <2>2
<1>6. DOMAIN f = 1 .. Len(s) - 1
  BY <1>3, <1>4, LenProperties
<1>7. Len(s) \in 1 .. Len(s)
  BY <1>1
<1> QED BY <1>1, <1>3, <1>4, <1>5, <1>6, <1>7 DEF f, Store!Front, Store!Last

LEMMA StoreRemoveAt ==
  ASSUME NEW S, NEW s \in Seq(S), NEW k \in 1 .. Len(s)
  PROVE  /\ Store!RemoveAt(s, k) \in Seq(S) /\ Len(Store!RemoveAt(s, k)) = Len(s) - 1
         /\ \A i \in 1 .. Len(s) - 1 : Store!RemoveAt(s, k)[i] = IF i < k THEN s[i] ELSE s[i + 1]
<1> DEFINE f == SubSeq(s, 1, k - 1)
           g == SubSeq(s, k + 1, Len(s))
<1>1. Len(s) \in Nat /\ k \in Nat /\ k >= 1 /\ k <= Len(s) /\ \A i \in 1 .. Len(s) : s[i] \in S
  BY ElementOfSeq
<1>2. (\A i \in 1 .. k - 1 : s[i] \in S) /\ (\A i \in k + 1 .. Len(s) : s[i] \in S)
  BY <1>1
<1>3. /\ f \in Seq(S) /\ Len(f) = (IF 1 <= k - 1 THEN k - 1 - 1 + 1 ELSE 0)
      /\ \A i \in 1 .. k - 1 - 1 + 1 : f[i] = s[1 + i - 1]
  BY <1>1, <1>2, SubSeqProperties
<1>4. /\ g \in Seq(S) /\ Len(g) = (IF k + 1 <= Len(s) THEN Len(s) - (k + 1) + 1 ELSE 0)
      /\ \A i \in 1 .. Len(s) - (k + 1) + 1 : g[i] = s[k + 1 + i - 1]
  BY <1>1, <1>2, SubSeqProperties
<1> HIDE DEF f, g
<1>5. Len(f) = k - 1 /\ Len(g) = Len(s) - k
  BY <1>1, <1>3, <1>4
<1>6. /\ f \o g \in Seq(S) /\ Len(f \o g) = Len(f) + Len(g)
      /\ \A i \in 1 .. Len(f) + Len(g) : (f \o g)[i] = IF i <= Len(f) THEN f[i] ELSE g[i - Len(f)]
  BY <1>3, <1>4, ConcatProperties
<1>7. \A i \in 1 .. Len(s) - 1 : (f \o g)[i] = IF i < k THEN s[i] ELSE s[i + 1]
  <2>1. TAKE i \in 1 .. Len(s) - 1
  <2>2. i \in 1 .. Len(f) + Len(g)
    BY <1>1, <1>5
  <2>3. CASE i < k
    <3>1. i <= Len(f) /\ i \in 1 .. k - 1 - 1 + 1 /\ 1 + i - 1 = i
      BY <1>1, <1>5, <2>3
    <3> QED BY <1>3, <1>6, <2>2, <2>3, <3>1
  <2>4. CASE ~(i < k)
    <3>1. ~(i <= Len(f)) /\ i - Len(f) \in 1 .. Len(s) - (k + 1) + 1
            /\ k + 1 + (i - Len(f)) - 1 = i + 1
      BY <1>1, <1>5, <2>4
    <3> QED BY <1>4, <1>6, <2>2, <2>4, <3>1
  <2> QED BY <2>3, <2>4
<1>8. Len(f \o g) = Len(s) - 1
  BY <1>1, <1>5, <1>6
<1> QED BY <1>6, <1>7, <1>8 DEF Store!RemoveAt, f, g

\* A function of the places of a sequence is a sequence.
LEMMA Mapped ==
  ASSUME NEW S, NEW n \in Nat, NEW f \in [1 .. n -> S]
  PROVE  /\ f \in Seq(S) /\ Len(f) = n /\ DOMAIN f = 1 .. n
<1>1. f \in Seq(S)
  BY SeqDef
<1>2. Len(f) = n
  OBVIOUS
<1> QED BY <1>1, <1>2

\* The rows of a table as it is read.
IsReading(upto, d) ==
  /\ upto \in [0 .. d.next - 1 -> Seq(Store!Script)] /\ upto[0] = <<>>
  /\ \A n \in 1 .. d.next - 1 :
       upto[n] = IF n \in DOMAIN d.rows THEN Append(upto[n - 1], [id |-> n, v |-> d.rows[n]])
                 ELSE upto[n - 1]

LEMMA ReadRun ==
  ASSUME NEW d \in Db
  PROVE  \E upto : IsReading(upto, d) /\ Store!getAllActions(d) = upto[d.next - 1]
<1> DEFINE N == d.next - 1
           Step(s, n) == IF n \in DOMAIN d.rows THEN Append(s, [id |-> n, v |-> d.rows[n]]) ELSE s
           S == Seq(Store!Script)
           h == [x \in S \X (1 .. N) |-> Step(x[1], x[2])]
           Eq(at) == at = [n \in 0 .. N |->
                       IF n = 0 THEN <<>>
                       ELSE IF n \in DOMAIN d.rows
                         THEN Append(at[n - 1], [id |-> n, v |-> d.rows[n]])
                       ELSE at[n - 1]]
           run == CHOOSE at : Eq(at)
<1>1. N \in Nat /\ <<>> \in S
  <2>1. d.next \in Nat \ {0}
    BY DbFields
  <2>2. d.next - 1 \in Nat
    BY <2>1
  <2> QED BY <2>2, EmptySeq
<1>2. \A s \in S, n \in 1 .. N : Step(s, n) \in S
  <2>1. TAKE s \in S, n \in 1 .. N
  <2>2. CASE n \in DOMAIN d.rows
    <3>1. [id |-> n, v |-> d.rows[n]] \in Store!Script
      BY <2>2, DbFields DEF Store!Script
    <3> QED BY <2>2, <3>1
  <2>3. CASE n \notin DOMAIN d.rows
    BY <2>3
  <2> QED BY <2>2, <2>3
<1>3. Store!getAllActions(d) = run[N]
  BY DEF Store!getAllActions
<1>4. SUFFICES \E f \in [0 .. N -> S] :
                 /\ f[0] = <<>> /\ f[N] = run[N]
                 /\ \A n \in 1 .. N : f[n] = Step(f[n - 1], n)
  BY <1>3, Zenon DEF IsReading
<1>5. ASSUME Eq(run) PROVE \A n \in 0 .. N : run[n] = IF n = 0 THEN <<>> ELSE Step(run[n - 1], n)
  <2> HIDE DEF run
  <2> QED BY <1>5
<1>6. ASSUME NEW f, f = [n \in 0 .. N |-> IF n = 0 THEN <<>> ELSE Step(f[n - 1], n)] PROVE Eq(f)
  BY <1>6
<1> HIDE DEF Step, N, S
<1>7. h \in [S \X (1 .. N) -> S]
  BY <1>2
<1>8. PICK f : IsRun(f, <<>>, h, N, S)
  <2> HIDE DEF h
  <2> QED BY <1>1, <1>7, RunExists
<1>9. f \in [0 .. N -> S] /\ f[0] = <<>>
  BY <1>8 DEF IsRun
<1>10. ASSUME NEW n \in 1 .. N PROVE f[n] = Step(f[n - 1], n)
  <2>1. f[n - 1] \in S
    BY <1>1, <1>9
  <2>2. h[<<f[n - 1], n>>] = Step(f[n - 1], n)
    BY <2>1
  <2> HIDE DEF h
  <2> QED BY <1>8, <2>2 DEF IsRun
<1> HIDE DEF Eq, h
<1>11. Eq(f)
  <2>1. ASSUME NEW n \in 0 .. N
        PROVE  f[n] = IF n = 0 THEN <<>> ELSE Step(f[n - 1], n)
    BY <1>1, <1>9, <1>10
  <2>2. f = [n \in 0 .. N |-> f[n]]
    BY <1>9
  <2> QED BY <1>6, <2>1, <2>2
<1>12. Eq(run)
  BY <1>11
<1> HIDE DEF run
<1>13. run[0] = <<>> /\ \A n \in 1 .. N : run[n] = Step(run[n - 1], n)
  <2>1. 0 \in 0 .. N /\ \A n \in 1 .. N : n \in 0 .. N /\ n # 0
    BY <1>1
  <2> QED BY <1>5, <1>12, <2>1
<1>14. Alike(f, run, N)
  <2>1. StepAlike(f, run, N)
    BY <1>10, <1>13 DEF StepAlike
  <2> QED BY <1>1, <1>9, <1>13, <2>1, SameRun
<1>15. f[N] = run[N]
  BY <1>1, <1>14 DEF Alike
<1> QED BY <1>9, <1>10, <1>15

\* Scripts in the order of their ids.
Sorted(s) == \A i, j \in 1 .. Len(s) : i < j => s[i].id < s[j].id

Ids(s) == {s[i].id : i \in 1 .. Len(s)}

LEMMA ScriptIds ==
  ASSUME NEW s \in Seq(Store!Script)
  PROVE  /\ Len(s) \in Nat
         /\ \A i \in 1 .. Len(s) : s[i] \in Store!Script /\ s[i].id \in Nat /\ s[i].v \in Nat
<1>1. \A i \in 1 .. Len(s) : s[i] \in Store!Script
  BY ElementOfSeq
<1>2. \A e \in Store!Script : e.id \in Nat /\ e.v \in Nat
  BY DEF Store!Script
<1> QED BY <1>1, <1>2

\* A script with a greater id is put after them.
LEMMA SortedAppend ==
  ASSUME NEW s \in Seq(Store!Script), Sorted(s), NEW e \in Store!Script,
         \A id \in Ids(s) : id < e.id
  PROVE  /\ Append(s, e) \in Seq(Store!Script) /\ Sorted(Append(s, e))
         /\ Ids(Append(s, e)) = Ids(s) \cup {e.id}
<1> DEFINE t == Append(s, e)
           N == Len(s)
<1>1. /\ N \in Nat /\ t \in Seq(Store!Script) /\ Len(t) = N + 1 /\ t[N + 1] = e
      /\ \A i \in 1 .. N : t[i] = s[i]
  BY AppendProperties
<1>2. \A i \in 1 .. N : s[i].id \in Ids(s)
  BY DEF Ids
<1>3. \A i, j \in 1 .. N : i < j => s[i].id < s[j].id
  BY DEF Sorted
<1> HIDE DEF t, N
<1>4. ASSUME NEW i \in 1 .. N + 1, NEW j \in 1 .. N + 1, i < j PROVE t[i].id < t[j].id
  <2>1. i \in 1 .. N
    BY <1>1, <1>4
  <2>2. CASE j = N + 1
    BY <1>1, <1>2, <2>1, <2>2
  <2>3. CASE j # N + 1
    <3>1. j \in 1 .. N
      BY <1>1, <2>3
    <3> QED BY <1>1, <1>3, <1>4, <2>1, <3>1
  <2> QED BY <2>2, <2>3
<1>5. Ids(t) = Ids(s) \cup {e.id}
  <2>1. Ids(t) = {t[i].id : i \in 1 .. N + 1}
    BY <1>1 DEF Ids
  <2>2. ASSUME NEW i \in 1 .. N + 1 PROVE t[i].id \in Ids(s) \cup {e.id}
    <3>1. CASE i = N + 1
      BY <1>1, <3>1
    <3>2. CASE i # N + 1
      <4>1. i \in 1 .. N
        BY <1>1, <3>2
      <4> QED BY <1>1, <1>2, <4>1
    <3> QED BY <3>1, <3>2
  <2>3. ASSUME NEW id \in Ids(s) PROVE id \in Ids(t)
    <3>1. PICK i \in 1 .. N : id = s[i].id
      BY DEF Ids, N
    <3>2. i \in 1 .. N + 1 /\ t[i].id = id
      BY <1>1, <3>1
    <3> QED BY <2>1, <3>2
  <2>4. e.id \in Ids(t)
    <3>1. N + 1 \in 1 .. N + 1 /\ t[N + 1].id = e.id
      BY <1>1
    <3> QED BY <2>1, <3>1
  <2>5. Ids(t) \subseteq Ids(s) \cup {e.id}
    BY <2>1, <2>2
  <2> QED BY <2>3, <2>4, <2>5
<1>6. Sorted(t)
  BY <1>1, <1>4 DEF Sorted
<1> QED BY <1>1, <1>5, <1>6 DEF t

Valued(s, d) == \A i \in 1 .. Len(s) : s[i].v = d.rows[s[i].id]

IsReadUpTo(s, d, n) ==
  /\ s \in Seq(Store!Script) /\ Sorted(s) /\ Ids(s) = DOMAIN d.rows \cap (1 .. n)
  /\ Valued(s, d)

\* The list has the scripts of the table, in the order of their ids.
LEMMA ReadValues ==
  ASSUME NEW d \in Db
  PROVE  LET s == Store!getAllActions(d)
         IN  /\ s \in Seq(Store!Script) /\ Sorted(s) /\ Ids(s) = DOMAIN d.rows
             /\ Valued(s, d)
<1>1. PICK upto : IsReading(upto, d) /\ Store!getAllActions(d) = upto[d.next - 1]
  BY ReadRun
<1> DEFINE N == d.next - 1
           T == {n \in Nat : n <= N => IsReadUpTo(upto[n], d, n)}
<1>2. d.next \in Nat \ {0}
  BY DbFields
<1>3. N \in Nat
  BY <1>2
<1>4. 0 \in T
  <2>1. upto[0] = <<>>
    BY <1>1 DEF IsReading
  <2>2. <<>> \in Seq(Store!Script) /\ Len(<<>>) = 0
    BY EmptySeq
  <2>3. Sorted(<<>>) /\ Ids(<<>>) = {} /\ Valued(<<>>, d)
    BY <2>2 DEF Sorted, Ids, Valued
  <2>4. IsReadUpTo(upto[0], d, 0)
    BY <2>1, <2>2, <2>3 DEF IsReadUpTo
  <2> QED BY <2>4
<1>5. ASSUME NEW n \in T PROVE n + 1 \in T
  <2>1. SUFFICES ASSUME n + 1 <= N PROVE IsReadUpTo(upto[n + 1], d, n + 1)
    BY <1>5
  <2>2. n \in Nat /\ n <= N /\ n + 1 \in 1 .. N /\ (n + 1) - 1 = n
    BY <1>3, <1>5, <2>1
  <2>3. IsReadUpTo(upto[n], d, n)
    BY <1>5, <2>2
  <2> DEFINE s == upto[n]
             e == [id |-> n + 1, v |-> d.rows[n + 1]]
  <2>4. /\ s \in Seq(Store!Script) /\ Sorted(s) /\ Ids(s) = DOMAIN d.rows \cap (1 .. n)
        /\ Valued(s, d)
    BY <2>3 DEF IsReadUpTo
  <2>5. upto[n + 1] = IF n + 1 \in DOMAIN d.rows THEN Append(s, e) ELSE s
    BY <1>1, <2>2 DEF IsReading
  <2> HIDE DEF s
  <2>6. CASE n + 1 \in DOMAIN d.rows
    <3>1. e \in Store!Script /\ e.id = n + 1
      BY <2>2, <2>6, DbFields DEF Store!Script
    <3>2. \A id \in Ids(s) : id < e.id
      BY <2>2, <2>4, <3>1
    <3>3. Append(s, e) \in Seq(Store!Script) /\ Sorted(Append(s, e))
            /\ Ids(Append(s, e)) = Ids(s) \cup {n + 1}
      <4> HIDE DEF e
      <4> QED BY <2>4, <3>1, <3>2, SortedAppend
    <3>4. Ids(s) \cup {n + 1} = DOMAIN d.rows \cap (1 .. n + 1)
      BY <2>2, <2>4, <2>6
    <3>5. Valued(Append(s, e), d)
      <4>1. e.v = d.rows[e.id]
        BY <3>1
      <4> HIDE DEF e
      <4>2. /\ Len(s) \in Nat /\ Len(Append(s, e)) = Len(s) + 1
            /\ Append(s, e)[Len(s) + 1] = e
            /\ \A i \in 1 .. Len(s) : Append(s, e)[i] = s[i]
        BY <2>4, <3>1, AppendProperties
      <4>3. \A i \in 1 .. Len(s) + 1 : i \in 1 .. Len(s) \/ i = Len(s) + 1
        BY <4>2
      <4> QED BY <2>4, <4>1, <4>2, <4>3 DEF Valued
    <3> QED BY <2>5, <2>6, <3>3, <3>4, <3>5 DEF IsReadUpTo
  <2>7. CASE n + 1 \notin DOMAIN d.rows
    <3>1. DOMAIN d.rows \cap (1 .. n) = DOMAIN d.rows \cap (1 .. n + 1)
      BY <2>2, <2>7
    <3> QED BY <2>4, <2>5, <2>7, <3>1 DEF IsReadUpTo
  <2> QED BY <2>6, <2>7
<1>6. T = Nat
  <2> HIDE DEF T
  <2>1. T \in SUBSET Nat
    BY DEF T
  <2> QED BY <1>4, <1>5, <2>1, SetInduction
<1>7. IsReadUpTo(upto[N], d, N)
  BY <1>3, <1>6
<1>8. DOMAIN d.rows \cap (1 .. N) = DOMAIN d.rows
  BY DbFields
<1> QED BY <1>1, <1>7, <1>8 DEF IsReadUpTo

LEMMA ReadRows ==
  ASSUME NEW d \in Db
  PROVE  LET s == Store!getAllActions(d)
         IN  s \in Seq(Store!Script) /\ Sorted(s) /\ Ids(s) = DOMAIN d.rows
  BY ReadValues

\* A list with the scripts of another that have ids below a bound has them at the
\* same places.
LEMMA SamePlaces ==
  ASSUME NEW s \in Seq(Store!Script), NEW t \in Seq(Store!Script), Sorted(s), Sorted(t),
         \A i \in 1 .. Len(t) : t[i].id >= 1,
         NEW b \in Int, Ids(s) = Ids(t) \cap (1 .. b - 1)
  PROVE  \A i \in 1 .. Len(s) : i \in 1 .. Len(t) /\ s[i].id = t[i].id
<1> DEFINE At(i) == i \in 1 .. Len(t) /\ s[i].id = t[i].id
           T == {n \in Nat : \A i \in 1 .. n : i <= Len(s) => At(i)}
<1>1. /\ Len(s) \in Nat /\ Len(t) \in Nat
      /\ \A i \in 1 .. Len(s) : s[i].id \in Nat /\ s[i].id \in Ids(s)
      /\ \A i \in 1 .. Len(t) : t[i].id \in Nat /\ t[i].id \in Ids(t)
  BY ScriptIds DEF Ids
<1>2. 0 \in T
  OBVIOUS
<1>3. ASSUME NEW n \in T PROVE n + 1 \in T
  <2>1. n \in Nat /\ \A i \in 1 .. n : i <= Len(s) => At(i)
    BY <1>3
  <2>2. ASSUME n + 1 <= Len(s) PROVE At(n + 1)
    <3> DEFINE k == n + 1
    <3>1. k \in 1 .. Len(s) /\ \A i \in 1 .. Len(s) : i < k => At(i)
      BY <1>1, <2>1, <2>2
    <3> HIDE DEF k
    <3>2. PICK j \in 1 .. Len(t) : t[j].id = s[k].id
      <4>1. s[k].id \in Ids(t)
        BY <1>1, <3>1
      <4> QED BY <4>1 DEF Ids
    <3>3. j >= k
      <4>1. SUFFICES ASSUME j < k PROVE FALSE
        BY <3>1
      <4>2. j \in 1 .. Len(s) /\ At(j)
        BY <1>1, <3>1, <4>1
      <4>3. s[j].id < s[k].id
        BY <3>1, <4>1, <4>2 DEF Sorted
      <4> QED BY <1>1, <3>1, <3>2, <4>2, <4>3
    <3>4. k \in 1 .. Len(t)
      BY <1>1, <3>1, <3>3
    <3>5. t[k].id <= s[k].id
      <4>1. CASE j = k
        BY <1>1, <3>2, <3>4, <4>1
      <4>2. CASE j > k
        <5>1. t[k].id < t[j].id
          BY <3>4, <4>2 DEF Sorted
        <5> QED BY <1>1, <3>1, <3>2, <3>4, <5>1
      <4> QED BY <3>1, <3>3, <4>1, <4>2
    <3>6. t[k].id \in Ids(s)
      <4>1. s[k].id \in 1 .. b - 1
        BY <1>1, <3>1
      <4>2. t[k].id >= 1
        BY <3>4
      <4> QED BY <1>1, <3>4, <3>5, <4>1, <4>2
    <3>7. PICK m \in 1 .. Len(s) : s[m].id = t[k].id
      BY <3>6 DEF Ids
    <3>8. m >= k
      <4>1. SUFFICES ASSUME m < k PROVE FALSE
        BY <3>1
      <4>2. m \in 1 .. Len(t) /\ t[m].id = t[k].id
        BY <3>1, <3>7, <4>1
      <4>3. t[m].id < t[k].id
        BY <3>4, <4>1, <4>2 DEF Sorted
      <4> QED BY <1>1, <3>4, <4>2, <4>3
    <3>9. s[k].id <= s[m].id
      <4>1. CASE m = k
        BY <1>1, <3>1, <4>1
      <4>2. CASE m > k
        <5>1. s[k].id < s[m].id
          BY <3>1, <4>2 DEF Sorted
        <5> QED BY <1>1, <3>1, <5>1
      <4> QED BY <3>1, <3>8, <4>1, <4>2
    <3>10. s[k].id = t[k].id
      BY <1>1, <3>1, <3>4, <3>5, <3>7, <3>9
    <3> QED BY <3>4, <3>10 DEF k
  <2>3. ASSUME NEW i \in 1 .. n + 1, i <= Len(s) PROVE At(i)
    <3>1. CASE i = n + 1
      BY <2>2, <2>3, <3>1
    <3>2. CASE i # n + 1
      <4>1. i \in 1 .. n
        BY <2>1, <3>2
      <4> QED BY <2>1, <2>3, <4>1
    <3> QED BY <3>1, <3>2
  <2> QED BY <2>1, <2>3
<1>4. T = Nat
  <2> HIDE DEF T
  <2>1. T \in SUBSET Nat
    BY DEF T
  <2> QED BY <1>2, <1>3, <2>1, SetInduction
<1> QED BY <1>1, <1>4

-----------------------------------------------------------------------------
(***************************************************************************)
(* Types of the store's steps.                                             *)
(***************************************************************************)
Screen == [id : Nat, given : Nat, v : Nat, sound : BOOLEAN]
Dialog(n) == [row : 0 .. n, pressed : Nat, calm : BOOLEAN]

TableTypes ==
  /\ db \in Db /\ tasks \in Seq(Store!Task) /\ opened \in BOOLEAN /\ dirty \in BOOLEAN
  /\ edits \in 0 .. MaxEdits /\ kills \in 0 .. MaxKills

ListTypes == posted \in Seq(Seq(Store!Script)) /\ Len(posted) <= 1 /\ list \in Seq(Store!Script)

ScreenTypes ==
  /\ front \in BOOLEAN /\ screens \in Seq(Screen) /\ dialogs \in Seq(Dialog(Len(list)))
  /\ (~front => screens # <<>>) /\ (dialogs # <<>> => front /\ screens = <<>>)

StoreTypes == TableTypes /\ ListTypes /\ ScreenTypes

LEMMA StoreTypesOK == StoreTypes <=> Store!TypeOK
  BY DbIsDb DEF StoreTypes, TableTypes, ListTypes, ScreenTypes, Screen, Dialog, Store!TypeOK

LEMMA StoreStart == StoreConstants /\ Store!Init => StoreTypes
<1> SUFFICES ASSUME StoreConstants, Store!Init PROVE StoreTypes
  OBVIOUS
<1> USE DEF Store!Init
<1>1. TableTypes
  <2>1. db \in Db
    BY DbIsDb DEF StoreConstants
  <2>2. 0 \in 0 .. MaxEdits /\ 0 \in 0 .. MaxKills
    BY DEF StoreConstants
  <2> QED BY <2>1, <2>2, EmptySeq DEF TableTypes
<1>2. ListTypes
  <2>1. <<>> \in Seq(Seq(Store!Script)) /\ <<>> \in Seq(Store!Script) /\ Len(<<>>) = 0
    BY EmptySeq
  <2> QED BY <2>1 DEF ListTypes
<1>3. ScreenTypes
  <2>1. <<>> \in Seq(Screen) /\ <<>> \in Seq(Dialog(Len(list)))
    BY EmptySeq
  <2> QED BY <2>1 DEF ScreenTypes
<1> QED BY <1>1, <1>2, <1>3 DEF StoreTypes

\* One more task.
LEMMA TaskAdded ==
  ASSUME StoreTypes, NEW t \in Store!Task, tasks' = Append(tasks, t)
  PROVE  tasks' \in Seq(Store!Task)
  BY AppendProperties DEF StoreTypes, TableTypes

LEMMA EditCounted ==
  ASSUME StoreConstants, StoreTypes, edits < MaxEdits, edits' = edits + 1
  PROVE  edits' \in 0 .. MaxEdits /\ edits + 1 \in Nat
  BY DEF StoreConstants, StoreTypes, TableTypes

LEMMA OnOpenTypes ==
  ASSUME StoreTypes, Store!onOpen
  PROVE  StoreTypes'
<1> USE DEF Store!onOpen
<1>1. tasks' \in Seq(Store!Task)
  <2>1. [op |-> "populate"] \in Store!Task
    BY DEF Store!Task
  <2> QED BY <2>1, TaskAdded
<1> QED BY <1>1 DEF StoreTypes, TableTypes, ListTypes, ScreenTypes

\* The task that is run, and what it leaves.
LEMMA RunTaskTypes ==
  ASSUME StoreTypes, Store!RunTask
  PROVE  StoreTypes'
<1>1. db \in Db /\ tasks \in Seq(Store!Task) /\ tasks # <<>> /\ dirty \in BOOLEAN
  BY DEF StoreTypes, TableTypes, Store!RunTask
<1>2. Head(tasks) \in Store!Task
  BY <1>1, AfterTail
<1>3. db' \in Db /\ tasks' \in Seq(Store!Task) /\ dirty' \in BOOLEAN
  <2>1. CASE Head(tasks).op = "populate" /\ DOMAIN db.rows = {}
    <3>1. tasks' = [tasks EXCEPT ![1] = TheSample] /\ db' = db /\ dirty' = dirty
      BY <2>1 DEF Store!RunTask, TheSample
    <3> QED BY <1>1, <2>1, <3>1, AfterSample
  <2>2. CASE ~(Head(tasks).op = "populate" /\ DOMAIN db.rows = {})
    <3>1. /\ tasks' = Tail(tasks) /\ db' = Store!Done(db, Head(tasks))
          /\ dirty' = (dirty \/ Store!Done(db, Head(tasks)).rows # db.rows)
      BY <2>2 DEF Store!RunTask, Store!Written
    <3> QED BY <1>1, <1>2, <3>1, DoneDb, AfterTail
  <2> QED BY <2>1, <2>2
<1> QED BY <1>3 DEF Store!RunTask, StoreTypes, TableTypes, ListTypes, ScreenTypes

LEMMA QueryTypes ==
  ASSUME StoreTypes, Store!Query
  PROVE  StoreTypes'
<1> DEFINE read == Store!getAllActions(db)
<1>1. read \in Seq(Store!Script)
  BY ReadRows DEF StoreTypes, TableTypes
<1>2. posted' = <<read>> /\ dirty' = FALSE
  BY DEF Store!Query
<1> HIDE DEF read
<1>3. posted' \in Seq(Seq(Store!Script)) /\ Len(posted') = 1
  BY <1>1, <1>2
<1>4. UNCHANGED <<db, opened, tasks, list, front, screens, dialogs, edits, kills>>
        /\ dirty' \in BOOLEAN
  BY DEF Store!Query
<1> QED BY <1>3, <1>4 DEF StoreTypes, TableTypes, ListTypes, ScreenTypes

\* The position of a view that stays, and of one that goes.
Laid(d, n) == IF d.row > n THEN [d EXCEPT !.row = 0] ELSE d

LEMMA LaidDialog ==
  ASSUME NEW n \in Nat, NEW m \in Nat, NEW d \in Dialog(n)
  PROVE  /\ Laid(d, m) \in Dialog(m) /\ Laid(d, m).pressed = d.pressed /\ Laid(d, m).calm = d.calm
         /\ Laid(d, m).row = IF d.row > m THEN 0 ELSE d.row
  BY DEF Dialog, Laid

LEMMA LaidOut ==
  ASSUME StoreTypes, Store!setActions
  PROVE  /\ list' = posted[1] /\ posted # <<>> /\ posted' = <<>>
         /\ 1 \in 1 .. Len(posted) /\ posted[1] \in Seq(Store!Script)
         /\ dialogs' \in Seq(Dialog(Len(list'))) /\ Len(dialogs') = Len(dialogs)
         /\ \A k \in 1 .. Len(dialogs) : dialogs'[k] = Laid(dialogs[k], Len(posted[1]))
<1> DEFINE N == Len(dialogs)
           M == Len(posted[1])
           f == [k \in 1 .. N |-> Laid(dialogs[k], M)]
<1>1. posted # <<>> /\ posted \in Seq(Seq(Store!Script)) /\ list' = posted[1] /\ posted' = <<>>
  BY DEF Store!setActions, StoreTypes, ListTypes
<1>2. Len(posted) \in Nat \ {0}
  BY <1>1, EmptySeq
<1>3. 1 \in 1 .. Len(posted)
  BY <1>2
<1>4. posted[1] \in Seq(Store!Script)
  BY <1>1, <1>3, ElementOfSeq
<1>5. M \in Nat
  BY <1>4, LenProperties
<1>6. dialogs \in Seq(Dialog(Len(list))) /\ list \in Seq(Store!Script)
  BY DEF StoreTypes, ListTypes, ScreenTypes
<1>7. N \in Nat /\ DOMAIN dialogs = 1 .. N /\ Len(list) \in Nat
  BY <1>6, LenProperties
<1>8. dialogs' = f
  BY <1>7 DEF Store!setActions, Laid
<1> HIDE DEF M
<1>9. ASSUME NEW k \in 1 .. N PROVE Laid(dialogs[k], M) \in Dialog(M)
  <2>1. dialogs[k] \in Dialog(Len(list))
    BY <1>6, ElementOfSeq
  <2> QED BY <1>5, <1>7, <2>1, LaidDialog
<1>10. f \in [1 .. N -> Dialog(M)]
  BY <1>9
<1>11. \A k \in 1 .. N : f[k] = Laid(dialogs[k], M)
  OBVIOUS
<1> HIDE DEF f, N
<1>12. f \in Seq(Dialog(M)) /\ Len(f) = N
  BY <1>7, <1>10, Mapped
<1> QED BY <1>1, <1>3, <1>4, <1>8, <1>11, <1>12 DEF M, N

LEMMA SetActionsTypes ==
  ASSUME StoreTypes, Store!setActions
  PROVE  StoreTypes'
<1>1. list' \in Seq(Store!Script) /\ posted' = <<>> /\ dialogs' \in Seq(Dialog(Len(list')))
      /\ Len(dialogs') = Len(dialogs)
  BY LaidOut
<1>2. <<>> \in Seq(Seq(Store!Script)) /\ Len(<<>>) = 0
  BY EmptySeq
<1>3. dialogs' # <<>> => dialogs # <<>>
  BY <1>1, EmptySeq
<1>4. UNCHANGED <<db, opened, tasks, dirty, front, screens, edits, kills>>
  BY DEF Store!setActions
<1> QED BY <1>1, <1>2, <1>3, <1>4 DEF StoreTypes, TableTypes, ListTypes, ScreenTypes

LEMMA BtnRemoveTypes ==
  ASSUME StoreTypes, NEW row \in DOMAIN list, Store!btnRemove(row)
  PROVE  StoreTypes'
<1> DEFINE d == [row |-> row, pressed |-> list[row].id, calm |-> Store!NoRemovals]
<1>1. row \in 1 .. Len(list) /\ list[row].id \in Nat /\ Len(list) \in Nat
  BY ScriptIds, LenProperties DEF StoreTypes, ListTypes
<1>2. Store!NoRemovals \in BOOLEAN
  BY DEF Store!NoRemovals
<1>3. d \in Dialog(Len(list))
  BY <1>1, <1>2 DEF Dialog
<1>4. dialogs' = Append(dialogs, d)
  BY DEF Store!btnRemove
<1> HIDE DEF d
<1>5. dialogs' \in Seq(Dialog(Len(list)))
  BY <1>3, <1>4, AppendProperties DEF StoreTypes, ScreenTypes
<1> QED BY <1>5 DEF Store!btnRemove, StoreTypes, TableTypes, ListTypes, ScreenTypes

LEMMA DismissTypes ==
  ASSUME StoreTypes, Store!Dismiss
  PROVE  StoreTypes'
<1>1. dialogs # <<>> /\ dialogs' = Store!Front(dialogs)
  BY DEF Store!Dismiss
<1>2. dialogs' \in Seq(Dialog(Len(list)))
  BY <1>1, StoreFront DEF StoreTypes, ScreenTypes
<1> QED BY <1>1, <1>2 DEF Store!Dismiss, StoreTypes, TableTypes, ListTypes, ScreenTypes

\* A screen that is created has what its intent gives.
LEMMA CreatedScreen ==
  ASSUME NEW id \in Nat, NEW given \in Nat, NEW alone, NEW d
  PROVE  LET s == Store!Created(id, given, alone, d)
         IN  /\ s \in Screen /\ s.id = id /\ s.given = given /\ s.v = given
             /\ s.sound <=> alone /\ id \in DOMAIN d.rows /\ d.rows[id] = given
<1> DEFINE sound == alone /\ id \in DOMAIN d.rows /\ d.rows[id] = given
<1>1. sound \in BOOLEAN
  OBVIOUS
<1>2. Store!Created(id, given, alone, d) = [id |-> id, given |-> given, v |-> given, sound |-> sound]
  BY DEF Store!Created
<1> HIDE DEF sound
<1>3. LET s == Store!Created(id, given, alone, d)
      IN  s \in Screen /\ s.id = id /\ s.given = given /\ s.v = given /\ s.sound = sound
  BY <1>1, <1>2 DEF Screen
<1> QED BY <1>3 DEF sound

\* Those that are created again after the end of a process have what their intents give.
Restored(k) == Store!Created(screens[k].id, screens[k].given, Len(screens) = 1, db)

LEMMA ScreensRestored ==
  ASSUME StoreTypes, Store!Ended
  PROVE  \/ screens' = <<>>
         \/ /\ screens' \in Seq(Screen) /\ Len(screens') = Len(screens)
            /\ \A k \in 1 .. Len(screens) : screens'[k] = Restored(k) /\ screens[k] \in Screen
<1> DEFINE N == Len(screens)
           f == [k \in 1 .. N |-> Restored(k)]
<1>1. screens \in Seq(Screen)
  BY DEF StoreTypes, ScreenTypes
<1>2. N \in Nat /\ DOMAIN screens = 1 .. N /\ \A k \in 1 .. N : screens[k] \in Screen
  BY <1>1, LenProperties, ElementOfSeq
<1>3. screens' = <<>> \/ screens' = f
  BY <1>2 DEF Store!Ended, Restored
<1>4. ASSUME NEW k \in 1 .. N PROVE Restored(k) \in Screen
  <2>1. screens[k].id \in Nat /\ screens[k].given \in Nat
    BY <1>2 DEF Screen
  <2> QED BY <2>1, CreatedScreen DEF Restored
<1> HIDE DEF N
<1>5. f \in [1 .. N -> Screen] /\ \A k \in 1 .. N : f[k] = Restored(k)
  BY <1>4
<1> HIDE DEF f
<1>6. f \in Seq(Screen) /\ Len(f) = N
  BY <1>2, <1>5, Mapped
<1> QED BY <1>2, <1>3, <1>5, <1>6 DEF N

LEMMA EndedTypes ==
  ASSUME StoreTypes, Store!Ended, kills' \in 0 .. MaxKills
  PROVE  StoreTypes'
<1>1. /\ opened' = FALSE /\ tasks' = <<>> /\ dirty' = TRUE /\ posted' = <<>> /\ list' = <<>>
      /\ front' = (screens' = <<>>) /\ dialogs' = <<>> /\ db' = db /\ edits' = edits
  BY DEF Store!Ended
<1>2. <<>> \in Seq(Store!Task) /\ <<>> \in Seq(Seq(Store!Script)) /\ <<>> \in Seq(Store!Script)
  BY EmptySeq
<1>3. <<>> \in Seq(Screen) /\ <<>> \in Seq(Dialog(Len(list'))) /\ Len(<<>>) = 0
  BY EmptySeq
<1>4. TableTypes'
  BY <1>1, <1>2 DEF StoreTypes, TableTypes
<1>5. ListTypes'
  BY <1>1, <1>2, <1>3 DEF ListTypes
<1>6. ScreenTypes'
  <2>1. front' \in BOOLEAN /\ screens' \in Seq(Screen) /\ dialogs' \in Seq(Dialog(Len(list')))
    BY <1>1, <1>3, ScreensRestored
  <2>2. (~front' => screens' # <<>>) /\ (dialogs' # <<>> => front' /\ screens' = <<>>)
    BY <1>1
  <2> QED BY <2>1, <2>2 DEF ScreenTypes, Dialog
<1> QED BY <1>4, <1>5, <1>6 DEF StoreTypes

\* What confirming a removal does.
LEMMA Confirmed ==
  ASSUME StoreTypes, Store!removeItem
  PROVE  LET row == Store!Last(dialogs).row
             task == [op |-> "delete", id |-> list[row].id]
         IN  /\ dialogs # <<>> /\ dialogs[Len(dialogs)] = Store!Last(dialogs)
             /\ Len(dialogs) \in 1 .. Len(dialogs)
             /\ row # 0 /\ row \in 1 .. Len(list) /\ list' = Store!RemoveAt(list, row)
             /\ list[row].id \in Nat
             /\ task \in Store!Task /\ tasks' = Append(tasks, task)
             /\ Store!Last(tasks') = task
             /\ dialogs' \in Seq(Dialog(Len(list'))) /\ Len(dialogs') = Len(dialogs) - 1
             /\ \A k \in 1 .. Len(dialogs') : dialogs'[k].row = 0
<1> DEFINE N == Len(dialogs)
           d == Store!Last(dialogs)
           row == d.row
           task == [op |-> "delete", id |-> list[row].id]
           f == [k \in 1 .. N - 1 |-> [dialogs[k] EXCEPT !.row = 0]]
<1>1. /\ dialogs # <<>> /\ dialogs \in Seq(Dialog(Len(list))) /\ list \in Seq(Store!Script)
      /\ tasks \in Seq(Store!Task) /\ row # 0
  BY DEF Store!removeItem, StoreTypes, TableTypes, ListTypes, ScreenTypes
<1>2. N \in Nat \ {0} /\ d = dialogs[N] /\ dialogs[N] \in Dialog(Len(list))
      /\ DOMAIN Store!Front(dialogs) = 1 .. N - 1
  BY <1>1, StoreFront
<1>3. row \in 1 .. Len(list)
  BY <1>1, <1>2, LenProperties DEF Dialog
<1>4. list[row].id \in Nat
  BY <1>1, <1>3, ScriptIds
<1>5. tasks' = Append(tasks, task) /\ list' = Store!RemoveAt(list, row)
  BY DEF Store!removeItem
<1>6. task \in Store!Task
  BY <1>4 DEF Store!Task
<1>7. Store!Last(tasks') = task
  <2> HIDE DEF task
  <2>1. Len(tasks') = Len(tasks) + 1 /\ tasks'[Len(tasks) + 1] = task
    BY <1>1, <1>5, <1>6, AppendProperties
  <2> QED BY <2>1 DEF Store!Last
<1>8. dialogs' = f
  BY <1>2 DEF Store!removeItem
<1>9. Len(list') = Len(list) - 1 /\ Len(list) \in Nat \ {0}
  BY <1>1, <1>3, <1>5, StoreRemoveAt, LenProperties
<1>10. ASSUME NEW k \in 1 .. N - 1
       PROVE  f[k] \in Dialog(Len(list')) /\ f[k].row = 0
  <2>1. k \in 1 .. N
    BY <1>2
  <2>2. dialogs[k] \in Dialog(Len(list))
    BY <1>1, <2>1, ElementOfSeq
  <2>3. Len(list') \in Nat
    BY <1>9
  <2>4. f[k] = [dialogs[k] EXCEPT !.row = 0]
    OBVIOUS
  <2> HIDE DEF f
  <2> QED BY <2>2, <2>3, <2>4 DEF Dialog
<1>11. f \in [1 .. N - 1 -> Dialog(Len(list'))]
  BY <1>10
<1> HIDE DEF f
<1>12. N - 1 \in Nat
  BY <1>2
<1>13. f \in Seq(Dialog(Len(list'))) /\ Len(f) = N - 1
  BY <1>11, <1>12, Mapped
<1>14. N \in 1 .. N
  BY <1>2
<1> QED BY <1>1, <1>2, <1>3, <1>4, <1>5, <1>6, <1>7, <1>8, <1>10, <1>13, <1>14

LEMMA RemoveItemTypes ==
  ASSUME StoreConstants, StoreTypes, Store!removeItem
  PROVE  StoreTypes'
<1>1. /\ dialogs # <<>> /\ dialogs' \in Seq(Dialog(Len(list')))
      /\ list' = Store!RemoveAt(list, Store!Last(dialogs).row)
      /\ Store!Last(dialogs).row \in 1 .. Len(list)
  BY Confirmed
<1>2. list' \in Seq(Store!Script)
  BY <1>1, StoreRemoveAt DEF StoreTypes, ListTypes
<1>3. tasks' \in Seq(Store!Task)
  BY Confirmed, TaskAdded
<1>4. edits' \in 0 .. MaxEdits
  BY EditCounted DEF Store!removeItem
<1>5. UNCHANGED <<db, opened, dirty, posted, front, screens, kills>>
  BY DEF Store!removeItem
<1>6. TableTypes'
  BY <1>3, <1>4, <1>5 DEF StoreTypes, TableTypes
<1>7. ListTypes'
  BY <1>2, <1>5 DEF StoreTypes, ListTypes
<1>8. ScreenTypes'
  <2>1. (~front' => screens' # <<>>) /\ (dialogs' # <<>> => front' /\ screens' = <<>>)
          /\ front' \in BOOLEAN
        /\ screens' \in Seq(Screen)
    BY <1>1, <1>5 DEF StoreTypes, ScreenTypes
  <2> QED BY <1>1, <2>1 DEF ScreenTypes, Dialog
<1> QED BY <1>6, <1>7, <1>8 DEF StoreTypes

LEMMA KillTypes ==
  ASSUME StoreConstants, StoreTypes, Store!removeItem_raises \/ Store!Kill
  PROVE  StoreTypes'
<1>1. Store!Ended /\ kills < MaxKills /\ kills' = kills + 1
  BY DEF Store!removeItem_raises, Store!Kill
<1>2. kills' \in 0 .. MaxKills
  BY <1>1 DEF StoreConstants, StoreTypes, TableTypes
<1> QED BY <1>1, <1>2, EndedTypes

LEMMA StartTypes ==
  ASSUME StoreTypes, NEW s \in Screen, Store!Start(s)
  PROVE  StoreTypes' /\ Len(screens') = Len(screens) + 1 /\ screens'[Len(screens) + 1] = s
         /\ \A k \in 1 .. Len(screens) : screens'[k] = screens[k]
<1>1. /\ screens' = Append(screens, s) /\ front /\ dialogs = <<>>
      /\ UNCHANGED <<db, opened, tasks, dirty, posted, list, front, dialogs, edits, kills>>
  BY DEF Store!Start
<1>2. /\ screens' \in Seq(Screen) /\ Len(screens') = Len(screens) + 1
      /\ screens'[Len(screens) + 1] = s
      /\ \A k \in 1 .. Len(screens) : screens'[k] = screens[k]
  BY <1>1, AppendProperties DEF StoreTypes, ScreenTypes
<1>3. StoreTypes'
  BY <1>1, <1>2 DEF StoreTypes, TableTypes, ListTypes, ScreenTypes
<1> QED BY <1>2, <1>3

\* The screens that are opened.
Opened(row) == Store!Created(list[row].id, list[row].v, screens = <<>>, Store!Settled)

Blank == Store!Created(0, 0, screens = <<>>, Store!Settled)

LEMMA OnClickStarts ==
  ASSUME StoreTypes, NEW row \in DOMAIN list, Store!onClick(row)
  PROVE  Opened(row) \in Screen /\ Store!Start(Opened(row))
<1>1. list[row].id \in Nat /\ list[row].v \in Nat
  BY ScriptIds, LenProperties DEF StoreTypes, ListTypes
<1>2. Opened(row) \in Screen
  BY <1>1, CreatedScreen DEF Opened
<1>3. Store!Start(Opened(row))
  BY DEF Store!onClick, Opened
<1> QED BY <1>2, <1>3

LEMMA FabStarts ==
  ASSUME Store!fab
  PROVE  Blank \in Screen /\ Store!Start(Blank)
<1>1. 0 \in Nat
  OBVIOUS
<1>2. Blank \in Screen
  BY <1>1, CreatedScreen DEF Blank
<1> QED BY <1>2 DEF Store!fab, Blank

\* Below the top screen, none is alone.
LEMMA Covered ==
  ASSUME StoreTypes, Store!Stop
  PROVE  /\ screens' \in Seq(Screen) /\ Len(screens') = Len(screens) /\ screens # <<>>
         /\ Len(screens) = 1 => screens' = screens
         /\ Len(screens) # 1 => \A k \in 1 .. Len(screens) : screens'[k].sound = FALSE
         /\ \A k \in 1 .. Len(screens) : /\ screens'[k].v = screens[k].v
                                        /\ screens'[k].given = screens[k].given
<1> DEFINE N == Len(screens)
           Under(s) == IF N > 1 THEN [s EXCEPT !.sound = FALSE] ELSE s
           f == [k \in 1 .. N |-> Under(screens[k])]
<1>1. screens \in Seq(Screen) /\ screens # <<>>
  BY DEF Store!Stop, StoreTypes, ScreenTypes
<1>2. N \in Nat \ {0} /\ DOMAIN screens = 1 .. N /\ \A k \in 1 .. N : screens[k] \in Screen
  BY <1>1, EmptySeq, LenProperties, ElementOfSeq
<1>3. screens' = f
  BY <1>2 DEF Store!Stop
<1> HIDE DEF N
<1>4. ASSUME NEW k \in 1 .. N
      PROVE  /\ f[k] \in Screen /\ (N > 1 => f[k].sound = FALSE) /\ (~(N > 1) => f[k] = screens[k])
             /\ f[k].v = screens[k].v /\ f[k].given = screens[k].given
  <2>1. screens[k] \in Screen /\ f[k] = Under(screens[k])
    BY <1>2
  <2> HIDE DEF f
  <2> QED BY <2>1 DEF Screen
<1>5. f \in [1 .. N -> Screen]
  BY <1>4
<1> HIDE DEF f
<1>6. f \in Seq(Screen) /\ Len(f) = N
  BY <1>2, <1>5, Mapped
<1>7. ASSUME N = 1 PROVE f = screens
  <2>1. \A k \in 1 .. N : f[k] = screens[k]
    BY <1>4, <1>7
  <2> QED BY <1>1, <1>6, <2>1, SeqEqual DEF N
<1>8. ASSUME N # 1 PROVE \A k \in 1 .. N : f[k].sound = FALSE
  <2>1. N > 1
    BY <1>2, <1>8
  <2> QED BY <1>4, <2>1
<1> QED BY <1>1, <1>3, <1>4, <1>6, <1>7, <1>8 DEF N

LEMMA StopTypes ==
  ASSUME StoreTypes, Store!Stop
  PROVE  StoreTypes'
<1>1. screens' \in Seq(Screen) /\ screens' # <<>>
  <2>1. screens' \in Seq(Screen) /\ Len(screens') = Len(screens) /\ screens # <<>>
    BY Covered
  <2>2. Len(screens) # 0 /\ Len(<<>>) = 0
    BY <2>1, EmptySeq DEF StoreTypes, ScreenTypes
  <2> QED BY <2>1, <2>2
<1>2. /\ front' = FALSE /\ front /\ screens # <<>>
      /\ UNCHANGED <<db, opened, tasks, dirty, posted, list, dialogs, edits, kills>>
  BY DEF Store!Stop
<1> QED BY <1>1, <1>2 DEF StoreTypes, TableTypes, ListTypes, ScreenTypes

\* The top screen is left.
LEMMA Finished ==
  ASSUME StoreTypes, ~front, Store!finish, UNCHANGED <<dialogs, list>>
  PROVE  ScreenTypes' /\ Len(screens') = Len(screens) - 1 /\ Len(screens) \in Nat \ {0}
         /\ (Len(screens) = 1 => screens' = <<>>)
         /\ \A k \in 1 .. Len(screens') : k \in 1 .. Len(screens) /\ screens'[k] = screens[k]
<1>1. screens # <<>> /\ screens \in Seq(Screen) /\ dialogs = <<>>
  BY DEF StoreTypes, ScreenTypes
<1>2. screens' = Store!Front(screens) /\ front' = (Len(screens) = 1)
  BY DEF Store!finish
<1>3. /\ screens' \in Seq(Screen) /\ Len(screens') = Len(screens) - 1 /\ Len(screens) \in Nat \ {0}
      /\ \A i \in 1 .. Len(screens) - 1 : screens'[i] = screens[i]
  BY <1>1, <1>2, StoreFront
<1>4. ~front' => screens' # <<>>
  <2>1. SUFFICES ASSUME Len(screens) # 1 PROVE screens' # <<>>
    BY <1>2
  <2>2. Len(screens') # 0 /\ Len(<<>>) = 0
    BY <1>3, <2>1, EmptySeq
  <2> QED BY <2>2
<1>5. \A k \in 1 .. Len(screens') : k \in 1 .. Len(screens) /\ screens'[k] = screens[k]
  BY <1>3
<1>6. Len(screens) = 1 => screens' = <<>>
  BY <1>3, EmptySeq
<1>7. ScreenTypes'
  BY <1>1, <1>2, <1>3, <1>4 DEF StoreTypes, ScreenTypes
<1> QED BY <1>3, <1>5, <1>6, <1>7

LEMMA LeaveTypes ==
  ASSUME StoreTypes, Store!Leave
  PROVE  StoreTypes'
<1>1. /\ ~front /\ Store!finish
      /\ UNCHANGED <<db, opened, tasks, dirty, posted, list, dialogs, edits, kills>>
  BY DEF Store!Leave
<1>2. ScreenTypes'
  BY <1>1, Finished
<1> QED BY <1>1, <1>2 DEF StoreTypes, TableTypes, ListTypes

\* The script screen on top is created again.
LEMMA Recreated ==
  ASSUME StoreTypes, screens # <<>>, Store!Recreate
  PROVE  LET N == Len(screens)
             s == screens[N]
             new == Store!Created(s.id, s.given, N = 1, Store!Settled)
         IN  /\ StoreTypes' /\ N \in 1 .. N /\ s \in Screen /\ new \in Screen
             /\ Len(screens') = N /\ \A k \in 1 .. N : screens'[k] = IF k = N THEN new ELSE screens[k]
             /\ ~front /\ UNCHANGED <<db, tasks, dirty, posted, list, front, dialogs, edits>>
<1> DEFINE N == Len(screens)
           s == screens[N]
           new == Store!Created(s.id, s.given, N = 1, Store!Settled)
<1>1. screens \in Seq(Screen)
  BY DEF StoreTypes, ScreenTypes
<1>2. N \in Nat \ {0} /\ Store!Last(screens) = s /\ s \in Screen
  BY <1>1, StoreFront
<1>3. s.id \in Nat /\ s.given \in Nat
  BY <1>2 DEF Screen
<1>4. new \in Screen
  BY <1>3, CreatedScreen
<1>5. screens' = [screens EXCEPT ![N] = new] /\ ~front
      /\ UNCHANGED <<db, opened, tasks, dirty, posted, list, front, dialogs, edits, kills>>
  BY <1>1, <1>2 DEF Store!Recreate
<1>6. N \in 1 .. N
  BY <1>2
<1> HIDE DEF new
<1>7. /\ screens' \in Seq(Screen) /\ Len(screens') = N
      /\ \A k \in 1 .. N : screens'[k] = IF k = N THEN new ELSE screens[k]
  BY <1>1, <1>4, <1>5, <1>6, ExceptSeq
<1>8. screens' # <<>>
  <2>1. Len(<<>>) = 0 /\ Len(screens') # 0
    BY <1>2, <1>7, EmptySeq
  <2> QED BY <2>1
<1>9. StoreTypes'
  BY <1>5, <1>7, <1>8 DEF StoreTypes, TableTypes, ListTypes, ScreenTypes, Dialog
<1> QED BY <1>2, <1>4, <1>5, <1>6, <1>7, <1>9 DEF new

LEMMA SaveTypes ==
  ASSUME StoreConstants, StoreTypes, NEW todo \in Seq(Store!Task), Store!Save(todo)
  PROVE  TableTypes' /\ ListTypes' /\ ~front /\ tasks' = todo /\ edits' = edits + 1
         /\ UNCHANGED <<db, opened, dirty, posted, list, dialogs, kills>>
<1>1. /\ ~front /\ edits < MaxEdits /\ edits' = edits + 1 /\ tasks' = todo
      /\ UNCHANGED <<db, opened, dirty, posted, list, dialogs, kills>>
  BY DEF Store!Save
<1>2. tasks' \in Seq(Store!Task) /\ edits' \in 0 .. MaxEdits
  BY <1>1, EditCounted
<1> QED BY <1>1, <1>2 DEF StoreTypes, TableTypes, ListTypes

LEMMA NextVersion ==
  ASSUME StoreConstants, StoreTypes
  PROVE  edits + 1 \in Nat
  BY DEF StoreConstants, StoreTypes, TableTypes

NewScript == [op |-> "insert", v |-> edits + 1]

LEMMA AddScriptTypes ==
  ASSUME StoreConstants, StoreTypes, Store!AddScript
  PROVE  /\ StoreTypes' /\ NewScript \in Store!Task /\ Store!finish /\ ~front
         /\ tasks' = Append(tasks, NewScript) /\ edits' = edits + 1
         /\ UNCHANGED <<db, dirty, posted, list, dialogs>>
<1>1. NewScript \in Store!Task
  BY NextVersion DEF NewScript, Store!Task
<1> DEFINE todo == Append(tasks, NewScript)
<1>2. Store!Save(todo) /\ Store!finish
  BY DEF Store!AddScript, NewScript
<1>3. todo \in Seq(Store!Task)
  BY <1>1, AppendProperties DEF StoreTypes, TableTypes
<1> HIDE DEF todo
<1>4. /\ TableTypes' /\ ListTypes' /\ ~front /\ tasks' = todo /\ edits' = edits + 1
      /\ UNCHANGED <<db, dirty, posted, list, dialogs>>
  BY <1>2, <1>3, SaveTypes
<1>5. ScreenTypes'
  BY <1>2, <1>4, Finished
<1> QED BY <1>1, <1>2, <1>4, <1>5 DEF StoreTypes, todo

\* The task of a save, those that have the same mAction, and what the save makes of them.
Saving(s) == [op |-> "update", id |-> s.id, v |-> edits + 1, base |-> {s.v}, sound |-> s.sound]

Own(t, s) == t.op = "update" /\ t.v = s.v /\ s.v # s.given

Raised(t, s) == IF Own(t, s) THEN [t EXCEPT !.v = edits + 1, !.base = @ \cup {s.v}] ELSE t

LEMMA RaisedTask ==
  ASSUME StoreConstants, StoreTypes, NEW t \in Store!Task, NEW s \in Screen
  PROVE  /\ Raised(t, s) \in Store!Task
         /\ ~Own(t, s) => Raised(t, s) = t
         /\ Own(t, s) => /\ Raised(t, s).op = "update" /\ Raised(t, s).v = edits + 1
                         /\ Raised(t, s).id = t.id /\ Raised(t, s).sound = t.sound
                         /\ Raised(t, s).base = t.base \cup {s.v}
<1>1. CASE Own(t, s)
  <2>1. t \in [op : {"update"}, id : Nat, v : Nat, base : SUBSET Nat, sound : BOOLEAN]
    BY <1>1 DEF Own, Store!Task
  <2>2. s.v \in Nat /\ edits + 1 \in Nat
    BY NextVersion DEF Screen
  <2>3. Raised(t, s) = [t EXCEPT !.v = edits + 1, !.base = t.base \cup {s.v}]
    BY <1>1 DEF Raised
  <2>4. Raised(t, s) \in [op : {"update"}, id : Nat, v : Nat, base : SUBSET Nat, sound : BOOLEAN]
    BY <2>1, <2>2, <2>3
  <2>5. Raised(t, s) \in Store!Task
    BY <2>4 DEF Store!Task
  <2> QED BY <1>1, <2>1, <2>3, <2>5
<1>2. CASE ~Own(t, s)
  BY <1>2 DEF Raised
<1> QED BY <1>1, <1>2

LEMMA SharedTasks ==
  ASSUME StoreConstants, StoreTypes, NEW s \in Screen
  PROVE  /\ Store!Shared(s) \in Seq(Store!Task) /\ Len(Store!Shared(s)) = Len(tasks)
         /\ Len(tasks) \in Nat
         /\ \A n \in 1 .. Len(tasks) : Store!Shared(s)[n] = Raised(tasks[n], s)
<1> DEFINE N == Len(tasks)
           f == [n \in 1 .. N |-> Raised(tasks[n], s)]
<1>1. tasks \in Seq(Store!Task)
  BY DEF StoreTypes, TableTypes
<1>2. N \in Nat /\ DOMAIN tasks = 1 .. N /\ \A n \in 1 .. N : tasks[n] \in Store!Task
  BY <1>1, LenProperties, ElementOfSeq
<1>3. Store!Shared(s) = f
  BY <1>2 DEF Store!Shared, Raised, Own
<1> HIDE DEF N
<1>4. f \in [1 .. N -> Store!Task] /\ \A n \in 1 .. N : f[n] = Raised(tasks[n], s)
  BY <1>2, RaisedTask
<1> HIDE DEF f
<1>5. f \in Seq(Store!Task) /\ Len(f) = N
  BY <1>2, <1>4, Mapped
<1> QED BY <1>2, <1>3, <1>4, <1>5 DEF N

LEMMA UpdateTypes ==
  ASSUME StoreConstants, StoreTypes, screens # <<>>, Store!updateDatabase
  PROVE  LET N == Len(screens)
             s == screens[N]
             T == Len(tasks)
         IN  /\ StoreTypes' /\ N \in 1 .. N /\ s \in Screen /\ Saving(s) \in Store!Task
             /\ T \in Nat /\ Len(tasks') = T + 1 /\ tasks'[T + 1] = Saving(s)
             /\ \A n \in 1 .. T : tasks'[n] = Raised(tasks[n], s)
             /\ ~front /\ edits' = edits + 1
             /\ UNCHANGED <<db, dirty, posted, list, dialogs, front>>
             /\ Len(screens') = N /\ screens'[N] = [s EXCEPT !.v = edits + 1]
             /\ \A k \in 1 .. N : k # N => screens'[k] = screens[k]
<1> DEFINE N == Len(screens)
           s == screens[N]
           new == [s EXCEPT !.v = edits + 1]
<1>1. screens \in Seq(Screen)
  BY DEF StoreTypes, ScreenTypes
<1>2. N \in Nat \ {0} /\ Store!Last(screens) = s /\ s \in Screen
  BY <1>1, StoreFront
<1>3. Saving(s) \in Store!Task
  BY <1>2, NextVersion DEF Saving, Screen, Store!Task
<1> DEFINE old == Store!Shared(s)
           todo == Append(old, Saving(s))
<1>4. Store!Save(todo)
  <2>1. Store!Update(s) = Saving(s)
    BY DEF Store!Update, Saving
  <2> QED BY <1>2, <2>1 DEF Store!updateDatabase
<1>12. old \in Seq(Store!Task) /\ Len(old) = Len(tasks) /\ Len(tasks) \in Nat
       /\ \A n \in 1 .. Len(tasks) : old[n] = Raised(tasks[n], s)
  BY <1>2, SharedTasks
<1> HIDE DEF old
<1>13. /\ todo \in Seq(Store!Task) /\ Len(todo) = Len(tasks) + 1
       /\ todo[Len(tasks) + 1] = Saving(s)
       /\ \A n \in 1 .. Len(tasks) : todo[n] = Raised(tasks[n], s)
  BY <1>3, <1>12, AppendProperties
<1> HIDE DEF todo
<1>5. /\ TableTypes' /\ ListTypes' /\ ~front /\ tasks' = todo /\ edits' = edits + 1
      /\ UNCHANGED <<db, dirty, posted, list, dialogs>>
  BY <1>4, <1>13, SaveTypes
<1>6. screens' = [screens EXCEPT ![N] = new] /\ front' = front
  BY <1>1, <1>2 DEF Store!updateDatabase
<1>7. new \in Screen
  BY <1>2, NextVersion DEF Screen
<1>8. N \in 1 .. N
  BY <1>2
<1> HIDE DEF new
<1>9. /\ screens' \in Seq(Screen) /\ Len(screens') = N
      /\ \A k \in 1 .. N : screens'[k] = IF k = N THEN new ELSE screens[k]
  BY <1>1, <1>6, <1>7, <1>8, ExceptSeq
<1>10. screens' # <<>>
  <2>1. Len(<<>>) = 0 /\ Len(screens') # 0
    BY <1>2, <1>9, EmptySeq
  <2> QED BY <2>1
<1>11. ScreenTypes'
  BY <1>5, <1>6, <1>9, <1>10 DEF StoreTypes, ScreenTypes
<1> QED BY <1>2, <1>3, <1>5, <1>6, <1>8, <1>9, <1>11, <1>12, <1>13 DEF StoreTypes, new

LEMMA StoreStepTypes ==
  ASSUME StoreConstants, StoreTypes, [Store!Next]_(Store!vars)
  PROVE  StoreTypes'
<1>1. CASE Store!onOpen
  BY <1>1, OnOpenTypes
<1>2. CASE Store!RunTask
  BY <1>2, RunTaskTypes
<1>3. CASE Store!Query
  BY <1>3, QueryTypes
<1>4. CASE Store!setActions
  BY <1>4, SetActionsTypes
<1>5. ASSUME NEW row \in DOMAIN list, Store!btnRemove(row) PROVE StoreTypes'
  BY <1>5, BtnRemoveTypes
<1>6. ASSUME NEW row \in DOMAIN list, Store!onClick(row) PROVE StoreTypes'
  <2>1. Opened(row) \in Screen /\ Store!Start(Opened(row))
    BY <1>6, OnClickStarts
  <2> QED BY <2>1, StartTypes
<1>7. CASE Store!Dismiss
  BY <1>7, DismissTypes
<1>8. CASE Store!removeItem
  BY <1>8, RemoveItemTypes
<1>9. CASE Store!removeItem_raises \/ Store!Kill
  BY <1>9, KillTypes
<1>10. CASE Store!fab
  <2>1. Blank \in Screen /\ Store!Start(Blank)
    BY <1>10, FabStarts
  <2> QED BY <2>1, StartTypes
<1>11. CASE Store!Stop
  BY <1>11, StopTypes
<1>12. CASE screens # <<>> /\ Store!Leave
  BY <1>12, LeaveTypes
<1>13. CASE screens # <<>> /\ Store!AddScript
  BY <1>13, AddScriptTypes
<1>14. CASE screens # <<>> /\ Store!updateDatabase
  BY <1>14, UpdateTypes
<1>15. CASE screens # <<>> /\ Store!Recreate
  BY <1>15, Recreated
<1>16. CASE UNCHANGED Store!vars
  BY <1>16 DEF Store!vars, StoreTypes, TableTypes, ListTypes, ScreenTypes, Dialog
<1> QED BY <1>1, <1>2, <1>3, <1>4, <1>5, <1>6, <1>7, <1>8, <1>9, <1>10, <1>11, <1>12, <1>13,
           <1>14, <1>15, <1>16
        DEF Store!Next

-----------------------------------------------------------------------------
(***************************************************************************)
(* The tables, when the tasks of one script's saves are given a version.   *)
(***************************************************************************)
LEMMA SameDb ==
  ASSUME NEW d \in Db, NEW e \in Db, d.next = e.next, DOMAIN d.rows = DOMAIN e.rows,
         \A id \in DOMAIN d.rows : d.rows[id] = e.rows[id]
  PROVE  d = e
<1>1. /\ d.rows = [id \in DOMAIN d.rows |-> d.rows[id]]
      /\ e.rows = [id \in DOMAIN e.rows |-> e.rows[id]]
  BY DbFields
<1>2. d.rows = e.rows
  BY <1>1
<1>3. /\ d \in [rows : AnyRows, next : Nat \ {0}] /\ e \in [rows : AnyRows, next : Nat \ {0}]
  BY DEF Db
<1> QED BY <1>2, <1>3

\* A save that finds no row, or its own version, changes nothing.
LEMMA UpdatedNone ==
  ASSUME NEW d \in Db, NEW e, NEW id, NEW v, IsUpdated(e, d, id, v),
         id \in DOMAIN d.rows => d.rows[id] = v
  PROVE  e = d
<1>1. e \in Db /\ e.next = d.next /\ DOMAIN e.rows = DOMAIN d.rows
      /\ \A i \in DOMAIN e.rows : e.rows[i] = d.rows[i]
  BY DEF IsUpdated
<1> QED BY <1>1, SameDb

LEMMA LeastOf ==
  ASSUME NEW N \in Nat, NEW S \in SUBSET (1 .. N), S # {}
  PROVE  \E m \in S : \A k \in S : m <= k
<1> DEFINE T == {n \in Nat : (\A k \in S : k > n) \/ \E m \in S : \A k \in S : m <= k}
<1>1. 0 \in T
  OBVIOUS
<1>2. ASSUME NEW n \in T PROVE n + 1 \in T
  <2>1. CASE \E m \in S : \A k \in S : m <= k
    BY <1>2, <2>1
  <2>2. CASE (\A k \in S : k > n) /\ n + 1 \in S
    BY <1>2, <2>2
  <2>3. CASE (\A k \in S : k > n) /\ n + 1 \notin S
    <3>1. n \in Nat /\ \A k \in S : k \in Nat
      BY <1>2
    <3>2. \A k \in S : k > n + 1
      BY <2>3, <3>1
    <3> QED BY <1>2, <3>2
  <2> QED BY <1>2, <2>1, <2>2, <2>3
<1>3. T = Nat
  <2> HIDE DEF T
  <2>1. T \in SUBSET Nat
    BY DEF T
  <2> QED BY <1>1, <1>2, <2>1, SetInduction
<1>4. (\A k \in S : k > N) \/ \E m \in S : \A k \in S : m <= k
  BY <1>3
<1> HIDE DEF T
<1>5. ~ \A k \in S : k > N
  <2>1. PICK k \in S : TRUE
    OBVIOUS
  <2>2. k \in 1 .. N /\ ~(k > N)
    BY <2>1
  <2> QED BY <2>2
<1> QED BY <1>4, <1>5

\* In us, the tasks of O save w to the row id, and the last of them is a new one.
IsRaised(us, ts, O, id, w) ==
  /\ Len(us) = Len(ts) + 1 /\ O \subseteq 1 .. Len(ts) + 1 /\ Len(ts) + 1 \in O
  /\ \A n \in O : us[n].op = "update" /\ us[n].id = id /\ us[n].v = w
  /\ \A n \in O : n <= Len(ts) => ts[n].op = "update" /\ ts[n].id = id
  /\ \A n \in 1 .. Len(ts) : n \notin O => us[n] = ts[n]
  /\ \A n \in O, m \in 1 .. Len(ts) : m > n => m \in O \/ ts[m].op = "populate"

\* The tables up to the m-th stay; each after it is the table t, and was that but for
\* the row id.
Replaced(p, q, N, m, t, id, w) ==
  /\ \A n \in 1 .. m : q[n] = p[n]
  /\ \A n \in m + 1 .. N + 2 : q[n] = t
  /\ \A n \in m .. N + 1 : IsUpdated(t, p[n], id, w)

LEMMA RaisedAfter ==
  ASSUME NEW d \in Db, NEW ts \in Seq(Store!Task), NEW us \in Seq(Store!Task),
         NEW O, NEW id, NEW w, IsRaised(us, ts, O, id, w)
  PROVE  LET p == Store!After(d, ts)
             q == Store!After(d, us)
             N == Len(ts)
         IN  \E m \in O, t \in Db :
               /\ m \in 1 .. N + 1 /\ (m # N + 1 => id \in DOMAIN p[m].rows)
               /\ Replaced(p, q, N, m, t, id, w)
<1> DEFINE p == Store!After(d, ts)
           q == Store!After(d, us)
           N == Len(ts)
           Found(n) == n = N + 1 \/ id \in DOMAIN p[n].rows
           S == {n \in O : Found(n)}
<1>1. N \in Nat /\ \A n \in 1 .. N : ts[n] \in Store!Task
  BY LenProperties, ElementOfSeq
<1>2. /\ Len(us) = N + 1 /\ O \subseteq 1 .. N + 1 /\ N + 1 \in O
      /\ \A n \in O : us[n].op = "update" /\ us[n].id = id /\ us[n].v = w
      /\ \A n \in O : n <= N => ts[n].op = "update" /\ ts[n].id = id
      /\ \A n \in 1 .. N : n \notin O => us[n] = ts[n]
      /\ \A n \in O, m \in 1 .. N : m > n => m \in O \/ ts[m].op = "populate"
  BY DEF IsRaised
<1>3. \A n \in 1 .. N + 1 : us[n] \in Store!Task
  BY <1>2, ElementOfSeq
<1>4. /\ IsAfter(p, d, ts) /\ IsAfter(q, d, us)
  BY AfterRun
<1> HIDE DEF p, q, N
<1>5. /\ p \in [1 .. N + 1 -> Db] /\ p[1] = d
      /\ \A n \in 1 .. N : p[n + 1] = Store!Done(p[n], ts[n])
  BY <1>4 DEF IsAfter, N
<1>6. /\ q \in [1 .. N + 2 -> Db] /\ q[1] = d
      /\ \A n \in 1 .. N + 1 : q[n + 1] = Store!Done(q[n], us[n])
  <2>1. Len(us) + 1 = N + 2
    BY <1>1, <1>2
  <2> QED BY <1>2, <1>4, <2>1 DEF IsAfter
<1>7. \A n \in 1 .. N : n \in 1 .. N + 1 /\ n + 1 \in 1 .. N + 1 /\ IsDone(p[n + 1], p[n], ts[n])
  <2>1. TAKE n \in 1 .. N
  <2>2. n \in 1 .. N + 1 /\ n + 1 \in 1 .. N + 1
    BY <1>1
  <2>3. p[n] \in Db /\ ts[n] \in Store!Task
    BY <1>1, <1>5, <2>2
  <2> QED BY <1>5, <2>2, <2>3, DoneIs
<1>8. \A n \in 1 .. N + 1 : n \in 1 .. N + 2 /\ IsDone(q[n + 1], q[n], us[n])
  <2>1. TAKE n \in 1 .. N + 1
  <2>2. n \in 1 .. N + 2
    BY <1>1
  <2>3. q[n] \in Db /\ us[n] \in Store!Task
    BY <1>3, <1>6, <2>2
  <2> QED BY <1>6, <2>2, <2>3, DoneIs
<1>9. PICK m \in S : \A k \in S : m <= k
  <2>1. N + 1 \in Nat /\ S \in SUBSET (1 .. N + 1)
    <3>1. S \subseteq O
      OBVIOUS
    <3> HIDE DEF S
    <3> QED BY <1>1, <1>2, <3>1
  <2>2. N + 1 \in S
    BY <1>2
  <2> HIDE DEF S
  <2> QED BY <2>1, <2>2, LeastOf
<1>10. m \in O /\ m \in 1 .. N + 1 /\ (m # N + 1 => id \in DOMAIN p[m].rows)
       /\ \A n \in O : n < m => id \notin DOMAIN p[n].rows
  <2>1. m \in O /\ Found(m) /\ m \in 1 .. N + 1
    BY <1>2, <1>9
  <2>2. ASSUME NEW n \in O, n < m PROVE n \notin S
    BY <1>1, <1>2, <1>9, <2>1, <2>2
  <2> QED BY <2>1, <2>2
<1> HIDE DEF S
<1> DEFINE t == q[m + 1]
\* The tables up to the m-th.
<1>11. \A n \in 1 .. m : q[n] = p[n]
  <2> DEFINE T == {n \in Nat : n + 1 <= m => q[n + 1] = p[n + 1]}
  <2>1. 0 \in T
    BY <1>5, <1>6
  <2>2. ASSUME NEW n \in T PROVE n + 1 \in T
    <3>1. SUFFICES ASSUME (n + 1) + 1 <= m PROVE q[(n + 1) + 1] = p[(n + 1) + 1]
      BY <2>2
    <3> DEFINE k == n + 1
    <3>2. k \in 1 .. N /\ k \in 1 .. N + 1 /\ k < m /\ q[k] = p[k]
      BY <1>1, <1>10, <2>2, <3>1
    <3>3. IsDone(p[k + 1], p[k], ts[k]) /\ IsDone(q[k + 1], q[k], us[k]) /\ p[k] \in Db
      BY <1>5, <1>7, <1>8, <3>2
    <3>4. p[k + 1] = Store!Done(p[k], ts[k]) /\ q[k + 1] = Store!Done(q[k], us[k])
      BY <1>5, <1>6, <3>2
    <3> HIDE DEF k
    <3>5. CASE k \notin O
      BY <1>2, <3>2, <3>4, <3>5 DEF k
    <3>6. CASE k \in O
      <4>1. id \notin DOMAIN p[k].rows
        BY <1>10, <3>2, <3>6
      <4>2. /\ IsUpdated(p[k + 1], p[k], id, ts[k].v)
            /\ IsUpdated(q[k + 1], p[k], id, w)
        BY <1>2, <3>2, <3>3, <3>6 DEF IsDone
      <4>3. p[k + 1] = p[k] /\ q[k + 1] = p[k]
        BY <3>3, <4>1, <4>2, UpdatedNone
      <4> QED BY <4>3 DEF k
    <3> QED BY <3>5, <3>6
  <2>3. T = Nat
    <3> HIDE DEF T
    <3>1. T \in SUBSET Nat
      BY DEF T
    <3> QED BY <2>1, <2>2, <3>1, SetInduction
  <2>4. TAKE n \in 1 .. m
  <2>5. n - 1 \in Nat /\ (n - 1) + 1 = n /\ n <= m
    BY <1>1, <1>10
  <2>6. n - 1 \in T
    <3> HIDE DEF T
    <3> QED BY <2>3, <2>5
  <2> QED BY <2>5, <2>6
<1>12. t \in Db /\ IsUpdated(t, p[m], id, w) /\ p[m] \in Db
  <2>1. m \in 1 .. m /\ m + 1 \in 1 .. N + 2
    BY <1>1, <1>10
  <2>2. q[m] = p[m] /\ p[m] \in Db /\ t \in Db
    BY <1>5, <1>6, <1>10, <1>11, <2>1
  <2>3. IsDone(t, p[m], us[m])
    BY <1>8, <1>10, <2>2
  <2> QED BY <1>2, <1>10, <2>2, <2>3 DEF IsDone
\* The tables after it.
<1>13. ASSUME m # N + 1
       PROVE  \A n \in m .. N + 1 : IsUpdated(t, p[n], id, w) /\ q[n + 1] = t
  <2> DEFINE T == {n \in Nat : m + n <= N + 1 => IsUpdated(t, p[m + n], id, w) /\ q[(m + n) + 1] = t}
  <2>1. 0 \in T
    <3>1. m + 0 = m
      BY <1>10
    <3> QED BY <1>12, <3>1
  <2> HIDE DEF t
  <2>2. ASSUME NEW n \in T PROVE n + 1 \in T
    <3>1. SUFFICES ASSUME m + (n + 1) <= N + 1
                   PROVE  IsUpdated(t, p[m + (n + 1)], id, w) /\ q[(m + (n + 1)) + 1] = t
      BY <2>2
    <3> DEFINE k == m + n
    <3>2. /\ k \in 1 .. N /\ k \in 1 .. N + 1 /\ k + 1 \in 1 .. N + 1 /\ k >= m
          /\ m + (n + 1) = k + 1 /\ IsUpdated(t, p[k], id, w) /\ q[k + 1] = t
      BY <1>1, <1>10, <2>2, <3>1
    <3> HIDE DEF k
    <3>3. /\ IsDone(p[k + 1], p[k], ts[k]) /\ IsDone(q[(k + 1) + 1], t, us[k + 1])
          /\ p[k] \in Db /\ p[k + 1] \in Db
      BY <1>5, <1>7, <1>8, <3>2
    <3>4. id \in DOMAIN t.rows /\ t.rows[id] = w
      <4>1. id \in DOMAIN p[m].rows
        BY <1>10, <1>13
      <4> QED BY <1>12, <4>1 DEF IsUpdated
    <3>5. id \in DOMAIN p[k].rows
      BY <3>2, <3>4 DEF IsUpdated
    <3>6. IsUpdated(t, p[k + 1], id, w)
      <4>1. CASE k \in O
        <5>1. IsUpdated(p[k + 1], p[k], id, ts[k].v)
          BY <1>2, <3>2, <3>3, <4>1 DEF IsDone
        <5> QED BY <3>2, <3>3, <5>1 DEF IsUpdated
      <4>2. CASE k \notin O
        <5>1. ts[k].op = "populate"
          BY <1>2, <1>10, <3>2, <4>2
        <5>2. p[k + 1] = p[k]
          BY <3>3, <3>5, <5>1 DEF IsDone
        <5> QED BY <3>2, <5>2
      <4> QED BY <4>1, <4>2
    <3>7. q[(k + 1) + 1] = t
      <4>1. CASE k + 1 \in O
        <5>1. IsUpdated(q[(k + 1) + 1], t, id, w)
          BY <1>2, <3>3, <4>1 DEF IsDone
        <5> QED BY <1>12, <3>4, <5>1, UpdatedNone
      <4>2. CASE k + 1 \notin O
        <5>1. k + 1 \in 1 .. N /\ k + 1 > m
          BY <1>1, <1>2, <1>10, <3>2, <4>2
        <5>2. us[k + 1].op = "populate"
          BY <1>2, <1>10, <4>2, <5>1
        <5> QED BY <3>3, <3>4, <5>2 DEF IsDone
      <4> QED BY <4>1, <4>2
    <3> QED BY <3>2, <3>6, <3>7
  <2>3. T = Nat
    <3> HIDE DEF T
    <3>1. T \in SUBSET Nat
      BY DEF T
    <3> QED BY <2>1, <2>2, <3>1, SetInduction
  <2>4. TAKE n \in m .. N + 1
  <2>5. n - m \in Nat /\ m + (n - m) = n /\ n <= N + 1
    BY <1>1, <1>10
  <2>6. n - m \in T
    <3> HIDE DEF T
    <3> QED BY <2>3, <2>5
  <2> QED BY <2>5, <2>6
<1>14. \A n \in m .. N + 1 : IsUpdated(t, p[n], id, w) /\ q[n + 1] = t
  <2>1. CASE m = N + 1
    <3>1. \A n \in m .. N + 1 : n = m
      BY <1>1, <2>1
    <3> QED BY <1>12, <3>1
  <2> QED BY <1>13, <2>1
<1>15. \A n \in m + 1 .. N + 2 : q[n] = t
  <2>1. TAKE n \in m + 1 .. N + 2
  <2>2. n - 1 \in m .. N + 1 /\ (n - 1) + 1 = n
    BY <1>1, <1>10
  <2> HIDE DEF t
  <2> QED BY <1>14, <2>2
<1> HIDE DEF t
<1>16. Replaced(p, q, N, m, t, id, w)
  BY <1>11, <1>14, <1>15 DEF Replaced
<1> QED BY <1>10, <1>12, <1>16 DEF p, q, N

-----------------------------------------------------------------------------
(***************************************************************************)
(* A save finds a version its screen had.                                  *)
(***************************************************************************)
Settles(s) == s.id \in DOMAIN Store!Settled.rows /\ Store!Settled.rows[s.id] = s.v

\* A script that was opened as last saved is on one screen, which has it as saved.
SoundScreens ==
  \A k \in 1 .. Len(screens) :
    screens[k].sound => k = 1 /\ (~front => Len(screens) = 1) /\ Settles(screens[k])

\* The tasks of a screen's saves are the last, but for one that looks for a row.
OwnLast(ts, s) ==
  \A n \in 1 .. Len(ts) :
    Own(ts[n], s) =>
      /\ ts[n].id = s.id
      /\ \A m \in 1 .. Len(ts) : m > n => ts[m].op = "populate" \/ Own(ts[m], s)

\* Only the screen on top has saved since it was created.
SavedByTop ==
  /\ \A n \in 1 .. Len(tasks) : tasks[n].op = "update" => tasks[n].v <= edits
  /\ \A k \in 1 .. Len(screens) :
       screens[k].v # screens[k].given =>
         k = Len(screens) /\ ~front /\ screens[k].v <= edits /\ OwnLast(tasks, screens[k])

SavesInv == StoreTypes /\ Store!NoSaveLost /\ SoundScreens /\ SavedByTop

LEMMA TasksTyped ==
  ASSUME StoreTypes
  PROVE  /\ Len(tasks) \in Nat /\ DOMAIN tasks = 1 .. Len(tasks)
         /\ \A n \in 1 .. Len(tasks) : tasks[n] \in Store!Task
         /\ Len(tasks) + 1 \in 1 .. Len(tasks) + 1 /\ Store!Settled \in Db
<1>1. tasks \in Seq(Store!Task) /\ db \in Db
  BY DEF StoreTypes, TableTypes
<1>2. Len(tasks) \in Nat /\ DOMAIN tasks = 1 .. Len(tasks)
        /\ \A n \in 1 .. Len(tasks) : tasks[n] \in Store!Task
  BY <1>1, LenProperties, ElementOfSeq
<1>3. Len(tasks) + 1 \in 1 .. Len(tasks) + 1
  BY <1>2
<1>4. Store!After(db, tasks) \in [1 .. Len(tasks) + 1 -> Db]
  BY <1>1, AfterRun DEF IsAfter
<1>5. Store!Settled \in Db
  BY <1>3, <1>4 DEF Store!Settled, Store!Tables
<1> QED BY <1>2, <1>3, <1>5

\* The table and its tasks stay.
LEMMA TableStays ==
  ASSUME UNCHANGED <<db, tasks>>
  PROVE  /\ Store!Settled' = Store!Settled
         /\ Store!NoSaveLost => Store!NoSaveLost'
  BY DEF Store!Settled, Store!Tables, Store!NoSaveLost

\* A task is made.
Replaces(t, rows) ==
  t.op = "update" /\ t.sound => t.id \in DOMAIN rows /\ rows[t.id] \in t.base \cup {t.v}

Finds(t) == Replaces(t, Store!Settled.rows)

LEMMA NoneLost ==
  Store!NoSaveLost <=> \A n \in DOMAIN tasks : Replaces(tasks[n], Store!Tables[n].rows)
  BY DEF Store!NoSaveLost, Replaces

LEMMA TaskMade ==
  ASSUME StoreTypes, Store!NoSaveLost, NEW t \in Store!Task, Finds(t),
         tasks' = Append(tasks, t), db' = db
  PROVE  Store!NoSaveLost' /\ Store!Settled' = Store!Done(Store!Settled, t)
<1> DEFINE N == Len(tasks)
           a == Store!After(db, tasks)
           b == Store!After(db, Append(tasks, t))
           us == Append(tasks, t)
<1>1. tasks \in Seq(Store!Task) /\ db \in Db
  BY DEF StoreTypes, TableTypes
<1>2. /\ us \in Seq(Store!Task) /\ Len(us) = N + 1 /\ b[N + 2] = Store!Done(a[N + 1], t)
      /\ \A n \in 1 .. N + 1 : b[n] = a[n]
  BY <1>1, AfterAppend
<1>3. us[N + 1] = t /\ \A n \in 1 .. N : us[n] = tasks[n]
  BY <1>1, AppendProperties
<1>4. Store!Tables = a /\ Store!Tables' = b /\ Store!Settled = a[N + 1]
  BY DEF Store!Tables, Store!Settled
<1>5. N \in Nat /\ DOMAIN tasks = 1 .. N
  BY TasksTyped
<1>6. DOMAIN us = 1 .. N + 1
  BY <1>2, LenProperties
<1>7. tasks' = us
  OBVIOUS
<1> HIDE DEF a, b, us, N
<1>8. Store!Settled' = Store!Done(Store!Settled, t)
  <2>1. Len(us) + 1 = N + 2
    BY <1>2, <1>5
  <2>2. Store!Settled' = b[N + 2]
    BY <1>4, <1>7, <2>1 DEF Store!Settled
  <2> QED BY <1>2, <1>4, <2>2
<1>9. ASSUME NEW n \in 1 .. N + 1 PROVE Replaces(us[n], b[n].rows)
  <2>1. b[n] = a[n]
    BY <1>2
  <2>2. CASE n = N + 1
    BY <1>3, <1>4, <2>1, <2>2 DEF Finds
  <2>3. CASE n # N + 1
    <3>1. n \in 1 .. N
      BY <1>5, <2>3
    <3> QED BY <1>3, <1>4, <1>5, <2>1, <3>1, NoneLost
  <2> QED BY <2>2, <2>3
<1>10. Store!NoSaveLost'
  BY <1>4, <1>6, <1>7, <1>9 DEF Store!NoSaveLost, Replaces
<1> QED BY <1>8, <1>10

\* The oldest task is run.
LEMMA TaskRun ==
  ASSUME StoreTypes, Store!NoSaveLost, Store!RunTask
  PROVE  Store!NoSaveLost' /\ Store!Settled' = Store!Settled
<1> DEFINE N == Len(tasks)
           a == Store!After(db, tasks)
           b == Store!After(db', tasks')
<1>1. tasks \in Seq(Store!Task) /\ db \in Db /\ tasks # <<>>
  BY DEF StoreTypes, TableTypes, Store!RunTask
<1>2. Store!Tables = a /\ Store!Tables' = b /\ Store!Settled = a[N + 1]
        /\ Store!Settled' = b[Len(tasks') + 1]
  BY DEF Store!Tables, Store!Settled
<1>3. N \in Nat /\ DOMAIN tasks = 1 .. N
  BY TasksTyped
<1> HIDE DEF a, b
<1>4. CASE Head(tasks).op = "populate" /\ DOMAIN db.rows = {}
  <2> DEFINE us == [tasks EXCEPT ![1] = TheSample]
  <2>1. tasks' = us /\ db' = db
    BY <1>4 DEF Store!RunTask, TheSample
  <2>2. /\ us \in Seq(Store!Task) /\ Len(us) = N /\ us[1] = TheSample
        /\ \A n \in 2 .. N : us[n] = tasks[n]
        /\ Store!After(db, us) = Store!After(db, tasks)
    BY <1>1, <1>4, AfterSample
  <2> HIDE DEF us
  <2>3. b = a /\ DOMAIN tasks' = 1 .. N
    BY <2>1, <2>2, LenProperties DEF a, b
  <2>4. ASSUME NEW n \in 1 .. N PROVE Replaces(tasks'[n], b[n].rows)
    <3>1. CASE n = 1
      BY <2>1, <2>2, <3>1 DEF TheSample, Replaces
    <3>2. CASE n # 1
      <4>1. n \in 2 .. N
        BY <1>3, <3>2
      <4>2. tasks'[n] = tasks[n]
        BY <2>1, <2>2, <4>1
      <4> QED BY <1>2, <1>3, <2>3, <4>2, NoneLost
    <3> QED BY <3>1, <3>2
  <2>5. Store!NoSaveLost'
    BY <1>2, <2>3, <2>4 DEF Store!NoSaveLost, Replaces
  <2> QED BY <1>2, <2>1, <2>2, <2>3, <2>5
<1>5. CASE ~(Head(tasks).op = "populate" /\ DOMAIN db.rows = {})
  <2> DEFINE us == Tail(tasks)
  <2>1. tasks' = us /\ db' = Store!Done(db, Head(tasks))
    BY <1>5 DEF Store!RunTask, Store!Written
  <2>2. /\ us \in Seq(Store!Task) /\ Len(us) = N - 1
        /\ \A n \in 1 .. N - 1 : us[n] = tasks[n + 1]
        /\ \A n \in 1 .. N :
             Store!After(Store!Done(db, Head(tasks)), us)[n] = Store!After(db, tasks)[n + 1]
        /\ N \in Nat \ {0}
    BY <1>1, AfterTail
  <2> HIDE DEF us
  <2>3. \A n \in 1 .. N : b[n] = a[n + 1]
    BY <2>1, <2>2 DEF a, b
  <2>4. DOMAIN tasks' = 1 .. N - 1
    BY <2>1, <2>2, LenProperties
  <2>5. ASSUME NEW n \in 1 .. N - 1 PROVE Replaces(tasks'[n], b[n].rows)
    <3>1. n \in 1 .. N /\ n + 1 \in 1 .. N
      BY <2>2
    <3>2. tasks'[n] = tasks[n + 1] /\ b[n] = a[n + 1]
      BY <2>1, <2>2, <2>3, <3>1
    <3> QED BY <1>2, <1>3, <3>1, <3>2, NoneLost
  <2>6. Store!NoSaveLost'
    BY <1>2, <2>4, <2>5 DEF Store!NoSaveLost, Replaces
  <2>7. Store!Settled' = Store!Settled
    <3>1. Len(tasks') + 1 = N /\ N \in 1 .. N
      BY <2>1, <2>2
    <3> QED BY <1>2, <2>3, <3>1
  <2> QED BY <2>6, <2>7
<1> QED BY <1>4, <1>5

\* A sound script is found as long as the tables that were settled are the same.
LEMMA SoundStays ==
  ASSUME SoundScreens, Store!Settled' = Store!Settled, UNCHANGED <<screens, front>>
  PROVE  SoundScreens'
  BY DEF SoundScreens, Settles

LEMMA SoundNone ==
  ASSUME \A k \in 1 .. Len(screens') : ~ screens'[k].sound
  PROVE  SoundScreens'
  BY DEF SoundScreens

LEMMA SavesStart == StoreConstants /\ Store!Init => SavesInv
<1> SUFFICES ASSUME StoreConstants, Store!Init PROVE SavesInv
  OBVIOUS
<1>1. StoreTypes
  BY StoreStart
<1>2. screens = <<>> /\ tasks = <<>> /\ Len(<<>>) = 0
  BY EmptySeq DEF Store!Init
<1>3. SoundScreens
  BY <1>2 DEF SoundScreens
<1>4. Store!NoSaveLost
  BY <1>2 DEF Store!NoSaveLost
<1>5. SavedByTop
  BY <1>2 DEF SavedByTop
<1> QED BY <1>1, <1>3, <1>4, <1>5 DEF SavesInv

LEMMA SavesOnOpen ==
  ASSUME SavesInv, Store!onOpen
  PROVE  Store!NoSaveLost' /\ SoundScreens'
<1> DEFINE t == [op |-> "populate"]
           d == Store!Settled
<1>1. t \in Store!Task /\ t.op = "populate"
  BY DEF Store!Task
<1>2. Finds(t)
  BY <1>1 DEF Finds, Replaces
<1>3. tasks' = Append(tasks, t) /\ db' = db /\ UNCHANGED <<screens, front>>
  BY DEF Store!onOpen
<1> HIDE DEF t
<1>4. Store!NoSaveLost' /\ Store!Settled' = Store!Done(d, t)
  BY <1>1, <1>2, <1>3, TaskMade DEF SavesInv
<1>5. ASSUME DOMAIN d.rows # {} PROVE Store!Settled' = d
  BY <1>1, <1>4, <1>5 DEF Store!Done
<1>6. SoundScreens'
  <2>1. CASE DOMAIN d.rows # {}
    BY <1>3, <1>5, <2>1, SoundStays DEF SavesInv
  <2>2. CASE DOMAIN d.rows = {}
    <3>1. \A k \in 1 .. Len(screens) : ~ screens[k].sound
      BY <2>2 DEF SavesInv, SoundScreens, Settles
    <3> QED BY <1>3, <3>1, SoundNone
  <2> QED BY <2>1, <2>2
<1> QED BY <1>4, <1>6

LEMMA SavesEnded ==
  ASSUME SavesInv, Store!Ended
  PROVE  Store!NoSaveLost' /\ SoundScreens'
<1>1. db' = db /\ tasks' = <<>> /\ Len(<<>>) = 0 /\ db \in Db
  BY EmptySeq DEF Store!Ended, SavesInv, StoreTypes, TableTypes
<1>2. SoundScreens'
  <2>1. CASE screens' = <<>>
    BY <1>1, <2>1 DEF SoundScreens
  <2>2. CASE /\ Len(screens') = Len(screens)
             /\ \A k \in 1 .. Len(screens) : screens'[k] = Restored(k) /\ screens[k] \in Screen
    <3>1. Store!Settled' = db
      <4>1. Store!After(db, <<>>)[1] = db
        BY <1>1, EmptySeq, AfterRun DEF IsAfter
      <4>2. 0 + 1 = 1
        OBVIOUS
      <4> QED BY <1>1, <4>1, <4>2 DEF Store!Settled, Store!Tables
    <3>2. ASSUME NEW k \in 1 .. Len(screens'), screens'[k].sound
          PROVE  k = 1 /\ Len(screens') = 1 /\ screens'[k].id \in DOMAIN db.rows
                 /\ db.rows[screens'[k].id] = screens'[k].v
      <4>1. screens[k].id \in Nat /\ screens[k].given \in Nat /\ screens'[k] = Restored(k)
        BY <2>2 DEF Screen
      <4>2. screens'[k].id = screens[k].id /\ screens'[k].v = screens[k].given
        BY <4>1, CreatedScreen DEF Restored
      <4>3. Restored(k).sound => /\ Len(screens) = 1 /\ screens[k].id \in DOMAIN db.rows
                                 /\ db.rows[screens[k].id] = screens[k].given
        BY DEF Restored, Store!Created
      <4> QED BY <2>2, <3>2, <4>1, <4>2, <4>3
    <3> QED BY <3>1, <3>2 DEF SoundScreens, Settles
  <2> QED BY <2>1, <2>2, ScreensRestored DEF SavesInv
<1>3. Store!NoSaveLost'
  BY <1>1 DEF Store!NoSaveLost
<1> QED BY <1>2, <1>3

LEMMA SavesRemoveItem ==
  ASSUME SavesInv, Store!removeItem
  PROVE  Store!NoSaveLost' /\ SoundScreens'
<1> DEFINE t == [op |-> "delete", id |-> list[Store!Last(dialogs).row].id]
<1>1. t \in Store!Task /\ tasks' = Append(tasks, t) /\ dialogs # <<>>
  BY Confirmed DEF SavesInv
<1>2. Finds(t)
  BY DEF Finds, Replaces
<1> HIDE DEF t
<1>3. db' = db /\ screens' = screens
  BY DEF Store!removeItem
<1>4. Store!NoSaveLost'
  BY <1>1, <1>2, <1>3, TaskMade DEF SavesInv
<1>5. screens = <<>> /\ Len(<<>>) = 0
  BY <1>1, EmptySeq DEF SavesInv, StoreTypes, ScreenTypes
<1>6. SoundScreens'
  BY <1>3, <1>5 DEF SoundScreens
<1> QED BY <1>4, <1>6

LEMMA SavesStartScreen ==
  ASSUME SavesInv, NEW s \in Screen, Store!Start(s), s.sound => screens = <<>> /\ Settles(s)
  PROVE  Store!NoSaveLost' /\ SoundScreens'
<1>1. UNCHANGED <<db, tasks, front>> /\ front
  BY DEF Store!Start
<1>2. Store!NoSaveLost' /\ Store!Settled' = Store!Settled
  BY <1>1, TableStays DEF SavesInv
<1>3. /\ Len(screens') = Len(screens) + 1 /\ screens'[Len(screens) + 1] = s
      /\ \A k \in 1 .. Len(screens) : screens'[k] = screens[k]
  BY StartTypes DEF SavesInv
<1>4. Len(screens) \in Nat /\ (screens = <<>> => Len(screens) = 0)
  BY LenProperties, EmptySeq DEF SavesInv, StoreTypes, ScreenTypes
<1>5. ASSUME NEW k \in 1 .. Len(screens) + 1, screens'[k].sound
      PROVE  k = 1 /\ Settles(screens'[k])
  <2>1. CASE k = Len(screens) + 1
    BY <1>3, <1>4, <1>5, <2>1
  <2>2. CASE k # Len(screens) + 1
    <3>1. k \in 1 .. Len(screens)
      BY <1>4, <2>2
    <3> QED BY <1>3, <1>5, <3>1 DEF SavesInv, SoundScreens
  <2> QED BY <2>1, <2>2
<1>6. SoundScreens'
  BY <1>1, <1>2, <1>3, <1>5 DEF SoundScreens, Settles
<1> QED BY <1>2, <1>6

LEMMA SavesStop ==
  ASSUME SavesInv, Store!Stop
  PROVE  Store!NoSaveLost' /\ SoundScreens'
<1>1. UNCHANGED <<db, tasks>> /\ front' = FALSE
  BY DEF Store!Stop
<1>2. Store!NoSaveLost' /\ Store!Settled' = Store!Settled
  BY <1>1, TableStays DEF SavesInv
<1>3. CASE Len(screens) = 1
  <2>1. screens' = screens
    BY <1>3, Covered DEF SavesInv
  <2>2. SoundScreens'
    BY <1>2, <1>3, <2>1 DEF SavesInv, SoundScreens, Settles
  <2> QED BY <1>2, <2>2
<1>4. CASE Len(screens) # 1
  <2>1. \A k \in 1 .. Len(screens') : ~ screens'[k].sound
    BY <1>4, Covered DEF SavesInv
  <2> QED BY <1>2, <2>1, SoundNone
<1> QED BY <1>3, <1>4

\* Nothing is sound below a screen that is left.
LEMMA SoundFinished ==
  ASSUME SavesInv, ~front, Store!finish, UNCHANGED <<dialogs, list>>
  PROVE  SoundScreens'
<1>1. /\ Len(screens') = Len(screens) - 1 /\ Len(screens) \in Nat \ {0}
      /\ \A k \in 1 .. Len(screens') : k \in 1 .. Len(screens) /\ screens'[k] = screens[k]
  BY Finished DEF SavesInv
<1>2. ASSUME NEW k \in 1 .. Len(screens') PROVE ~ screens'[k].sound
  <2>1. k \in 1 .. Len(screens) /\ screens'[k] = screens[k] /\ Len(screens) # 1
    BY <1>1
  <2> QED BY <2>1 DEF SavesInv, SoundScreens
<1> QED BY <1>2, SoundNone

LEMMA SavesLeave ==
  ASSUME SavesInv, Store!Leave
  PROVE  Store!NoSaveLost' /\ SoundScreens'
<1>1. ~front /\ Store!finish /\ UNCHANGED <<db, tasks, dialogs, list>>
  BY DEF Store!Leave
<1> QED BY <1>1, TableStays, SoundFinished DEF SavesInv

LEMMA SavesAddScript ==
  ASSUME StoreConstants, SavesInv, Store!AddScript
  PROVE  Store!NoSaveLost' /\ SoundScreens'
<1>1. /\ NewScript \in Store!Task /\ Store!finish /\ ~front
      /\ tasks' = Append(tasks, NewScript) /\ UNCHANGED <<db, list, dialogs>>
  BY AddScriptTypes DEF SavesInv
<1>2. Finds(NewScript)
  BY DEF Finds, Replaces, NewScript
<1>3. Store!NoSaveLost'
  BY <1>1, <1>2, TaskMade DEF SavesInv
<1> QED BY <1>1, <1>3, SoundFinished

LEMMA SavesRecreate ==
  ASSUME SavesInv, screens # <<>>, Store!Recreate
  PROVE  Store!NoSaveLost' /\ SoundScreens'
<1> DEFINE N == Len(screens)
           s == screens[N]
           new == Store!Created(s.id, s.given, N = 1, Store!Settled)
<1>1. /\ N \in 1 .. N /\ s \in Screen /\ Len(screens') = N /\ ~front
      /\ \A k \in 1 .. N : screens'[k] = IF k = N THEN new ELSE screens[k]
      /\ UNCHANGED <<db, tasks, front>>
  BY Recreated DEF SavesInv
<1>2. Store!NoSaveLost' /\ Store!Settled' = Store!Settled
  BY <1>1, TableStays DEF SavesInv
<1>3. s.id \in Nat /\ s.given \in Nat
  BY <1>1 DEF Screen
<1>4. new.sound => N = 1 /\ Settles(new)
  BY <1>3 DEF Settles, Store!Created
<1> HIDE DEF new
<1>5. ASSUME NEW k \in 1 .. N, screens'[k].sound PROVE k = 1 /\ N = 1 /\ Settles(screens'[k])
  <2>1. CASE k = N
    BY <1>1, <1>4, <1>5, <2>1
  <2>2. CASE k # N
    <3>1. screens[k].sound
      BY <1>1, <1>5, <2>2
    <3> QED BY <1>1, <2>2, <3>1 DEF SavesInv, SoundScreens
  <2> QED BY <2>1, <2>2
<1>6. SoundScreens'
  BY <1>1, <1>2, <1>5 DEF SoundScreens, Settles
<1> QED BY <1>2, <1>6

\* The tasks that save what the screen on top has, once it saves.
OfTop(s) == {n \in 1 .. Len(tasks) + 1 : n = Len(tasks) + 1 \/ Own(tasks[n], s)}

LEMMA TopRaises ==
  ASSUME StoreConstants, SavesInv, screens # <<>>, Store!updateDatabase
  PROVE  LET s == screens[Len(screens)]
         IN  IsRaised(tasks', tasks, OfTop(s), s.id, edits + 1)
<1> DEFINE N == Len(screens)
           s == screens[N]
           T == Len(tasks)
           O == OfTop(s)
<1>1. /\ N \in 1 .. N /\ s \in Screen /\ T \in Nat /\ Len(tasks') = T + 1
      /\ tasks'[T + 1] = Saving(s) /\ \A n \in 1 .. T : tasks'[n] = Raised(tasks[n], s)
  BY UpdateTypes DEF SavesInv
<1>2. \A n \in 1 .. T : tasks[n] \in Store!Task
  BY TasksTyped DEF SavesInv
<1>3. ASSUME NEW n \in 1 .. T, Own(tasks[n], s)
      PROVE  /\ tasks[n].op = "update" /\ tasks[n].id = s.id
             /\ \A m \in 1 .. T : m > n => tasks[m].op = "populate" \/ Own(tasks[m], s)
  BY <1>1, <1>3 DEF Own, SavesInv, SavedByTop, OwnLast
<1>4. \A n \in 1 .. T : n \in O <=> Own(tasks[n], s)
  BY <1>1 DEF OfTop
<1>5. O \subseteq 1 .. T + 1 /\ T + 1 \in O /\ \A n \in O : n <= T => n \in 1 .. T
  BY <1>1 DEF OfTop
<1>6. Saving(s).op = "update" /\ Saving(s).id = s.id /\ Saving(s).v = edits + 1
  BY DEF Saving
<1> HIDE DEF N, s, T, O
<1>7. ASSUME NEW n \in O
      PROVE  tasks'[n].op = "update" /\ tasks'[n].id = s.id /\ tasks'[n].v = edits + 1
  <2>1. CASE n = T + 1
    BY <1>1, <1>6, <2>1
  <2>2. CASE n # T + 1
    <3>1. n \in 1 .. T
      BY <1>1, <1>5, <2>2
    <3>2. Own(tasks[n], s) /\ tasks[n].id = s.id /\ tasks[n] \in Store!Task
      BY <1>2, <1>3, <1>4, <3>1
    <3>3. tasks'[n] = Raised(tasks[n], s)
      BY <1>1, <3>1
    <3> QED BY <1>1, <3>2, <3>3, RaisedTask DEF SavesInv
  <2> QED BY <2>1, <2>2
<1>8. \A n \in O : n <= T => tasks[n].op = "update" /\ tasks[n].id = s.id
  BY <1>3, <1>4, <1>5
<1>9. ASSUME NEW n \in 1 .. T, n \notin O PROVE tasks'[n] = tasks[n]
  BY <1>1, <1>2, <1>4, <1>9, RaisedTask DEF SavesInv
<1>10. ASSUME NEW n \in O, NEW m \in 1 .. T, m > n PROVE m \in O \/ tasks[m].op = "populate"
  <2>1. n \in 1 .. T
    BY <1>1, <1>5, <1>10
  <2> QED BY <1>3, <1>4, <1>10, <2>1
<1>11. IsRaised(tasks', tasks, O, s.id, edits + 1)
  BY <1>1, <1>5, <1>7, <1>8, <1>9, <1>10 DEF IsRaised, T
<1> QED BY <1>11 DEF N, s, O

LEMMA SavesUpdate ==
  ASSUME StoreConstants, SavesInv, screens # <<>>, Store!updateDatabase
  PROVE  Store!NoSaveLost' /\ SoundScreens'
<1> DEFINE N == Len(screens)
           s == screens[N]
           T == Len(tasks)
           O == OfTop(s)
           w == edits + 1
           p == Store!After(db, tasks)
           q == Store!After(db, tasks')
<1>1. /\ StoreTypes' /\ N \in 1 .. N /\ s \in Screen /\ T \in Nat /\ Len(tasks') = T + 1
      /\ tasks'[T + 1] = Saving(s) /\ \A n \in 1 .. T : tasks'[n] = Raised(tasks[n], s)
      /\ ~front /\ UNCHANGED <<db, front>>
      /\ Len(screens') = N /\ screens'[N] = [s EXCEPT !.v = w]
      /\ \A k \in 1 .. N : k # N => screens'[k] = screens[k]
  BY UpdateTypes DEF SavesInv
<1>2. IsRaised(tasks', tasks, O, s.id, w)
  BY TopRaises
<1>3. /\ db \in Db /\ tasks \in Seq(Store!Task) /\ tasks' \in Seq(Store!Task)
      /\ \A n \in 1 .. T : tasks[n] \in Store!Task
  BY <1>1, TasksTyped DEF SavesInv, StoreTypes, TableTypes
<1>4. \A n \in 1 .. T : n \in O <=> Own(tasks[n], s)
  BY <1>1 DEF OfTop
<1>5. s.sound => N = 1 /\ s.id \in DOMAIN p[T + 1].rows /\ p[T + 1].rows[s.id] = s.v
  BY <1>1 DEF SavesInv, SoundScreens, Settles, Store!Settled, Store!Tables
<1>6. PICK m \in O, t \in Db : m \in 1 .. T + 1 /\ Replaced(p, q, T, m, t, s.id, w)
  BY <1>2, <1>3, RaisedAfter
<1>7. /\ \A n \in 1 .. m : q[n] = p[n]
      /\ \A n \in m + 1 .. T + 2 : q[n] = t
      /\ \A n \in m .. T + 1 : IsUpdated(t, p[n], s.id, w)
  BY <1>6 DEF Replaced
<1>8. \A n \in 1 .. T : Replaces(tasks[n], p[n].rows)
  BY TasksTyped, NoneLost DEF SavesInv, Store!Tables
<1>9. Store!Tables' = q /\ Store!Settled' = q[T + 2]
  <2>1. Store!Tables' = q
    BY <1>1 DEF Store!Tables
  <2>2. Len(tasks') + 1 = T + 2
    BY <1>1
  <2> QED BY <2>1, <2>2 DEF Store!Settled
<1>10. DOMAIN tasks' = 1 .. T + 1
  BY <1>1, <1>3, LenProperties
<1> HIDE DEF p, q, O, T, w
<1>11. \A n \in m .. T + 1 :
         DOMAIN t.rows = DOMAIN p[n].rows /\ (s.id \in DOMAIN t.rows => t.rows[s.id] = w)
  BY <1>7 DEF IsUpdated
<1>12. T + 1 \in m .. T + 1 /\ T + 2 \in m + 1 .. T + 2
  BY <1>1, <1>6
<1>13. ASSUME NEW n \in 1 .. T + 1 PROVE Replaces(tasks'[n], q[n].rows)
  <2>1. CASE n = T + 1
    <3>1. SUFFICES ASSUME s.sound PROVE s.id \in DOMAIN q[n].rows /\ q[n].rows[s.id] \in {s.v, w}
      BY <1>1, <2>1 DEF Replaces, Saving, w
    <3>2. s.id \in DOMAIN p[T + 1].rows /\ p[T + 1].rows[s.id] = s.v
      BY <1>5, <3>1
    <3>3. CASE m = T + 1
      <4>1. q[n] = p[T + 1]
        BY <1>7, <2>1, <3>3
      <4> QED BY <3>2, <4>1
    <3>4. CASE m # T + 1
      <4>1. n \in m + 1 .. T + 2
        BY <1>1, <1>6, <2>1, <3>4
      <4> QED BY <1>7, <1>11, <1>12, <3>2, <4>1
    <3> QED BY <3>3, <3>4
  <2>2. CASE n # T + 1
    <3>1. n \in 1 .. T
      BY <1>1, <2>2
    <3>2. Replaces(tasks[n], p[n].rows)
      BY <1>8, <3>1
    <3>3. CASE n <= m /\ n \notin O
      <4>1. n \in 1 .. m /\ tasks'[n] = tasks[n]
        BY <1>1, <1>3, <1>4, <1>6, <3>1, <3>3, RaisedTask DEF SavesInv
      <4> QED BY <1>7, <3>2, <4>1
    <3>4. CASE ~(n <= m) /\ n \notin O
      <4>1. tasks'[n] = tasks[n] /\ tasks[n].op = "populate"
        <5>1. m \in O /\ n \in 1 .. Len(tasks) /\ n > m
          BY <1>1, <1>6, <3>1, <3>4 DEF T
        <5> QED BY <1>2, <3>4, <5>1 DEF IsRaised
      <4> QED BY <4>1 DEF Replaces
    <3>5. CASE n \in O
      <4>1. /\ tasks'[n].id = s.id /\ tasks'[n].v = w /\ tasks[n].v = s.v /\ tasks[n].id = s.id
            /\ tasks[n].op = "update" /\ tasks'[n].sound = tasks[n].sound
            /\ tasks'[n].base = tasks[n].base \cup {s.v}
        <5>1. Own(tasks[n], s) /\ tasks[n] \in Store!Task /\ tasks'[n] = Raised(tasks[n], s)
          BY <1>1, <1>3, <1>4, <3>1, <3>5
        <5>2. tasks'[n].id = s.id /\ tasks'[n].v = w
          BY <1>2, <3>5 DEF IsRaised
        <5>3. tasks'[n].id = tasks[n].id
          BY <1>1, <5>1, RaisedTask DEF SavesInv
        <5> QED BY <1>1, <5>1, <5>2, <5>3, RaisedTask DEF SavesInv, Own
      <4>2. SUFFICES ASSUME tasks[n].sound
                     PROVE  /\ s.id \in DOMAIN q[n].rows
                            /\ q[n].rows[s.id] \in tasks[n].base \cup {s.v, w}
        BY <4>1 DEF Replaces
      <4>3. s.id \in DOMAIN p[n].rows /\ p[n].rows[s.id] \in tasks[n].base \cup {s.v}
        BY <3>2, <4>1, <4>2 DEF Replaces
      <4>4. CASE n <= m
        <5>1. n \in 1 .. m
          BY <1>6, <3>1, <4>4
        <5> QED BY <1>7, <4>3, <5>1
      <4>5. CASE ~(n <= m)
        <5>1. n \in m + 1 .. T + 2 /\ n \in m .. T + 1
          BY <1>1, <1>6, <3>1, <4>5
        <5> QED BY <1>7, <1>11, <4>3, <5>1
      <4> QED BY <4>4, <4>5
    <3> QED BY <3>3, <3>4, <3>5
  <2> QED BY <2>1, <2>2
<1>14. Store!NoSaveLost'
  BY <1>9, <1>10, <1>13 DEF Store!NoSaveLost, Replaces
<1>15. Store!Settled' = t
  BY <1>7, <1>9, <1>12
<1>16. ASSUME NEW k \in 1 .. N, screens'[k].sound
      PROVE  N = 1 /\ k = 1 /\ screens'[k].id \in DOMAIN t.rows
             /\ t.rows[screens'[k].id] = screens'[k].v
  <2>1. CASE k = N
    <3>1. screens'[k].sound = s.sound /\ screens'[k].id = s.id /\ screens'[k].v = w
      BY <1>1, <2>1 DEF Screen
    <3>2. N = 1 /\ s.id \in DOMAIN p[T + 1].rows
      BY <1>5, <1>16, <3>1
    <3> QED BY <1>11, <1>12, <2>1, <3>1, <3>2
  <2>2. CASE k # N
    <3>1. screens[k].sound
      BY <1>1, <1>16, <2>2
    <3>2. k = 1 /\ N = 1
      BY <1>1, <3>1 DEF SavesInv, SoundScreens
    <3> QED BY <2>2, <3>2
  <2> QED BY <2>1, <2>2
<1>17. SoundScreens'
  BY <1>1, <1>15, <1>16 DEF SoundScreens, Settles
<1> QED BY <1>14, <1>17

\* The last versions of the screens that may be left.
LEMMA SavedByNone ==
  ASSUME \A n \in 1 .. Len(tasks') : tasks'[n].op = "update" => tasks'[n].v <= edits',
         \A k \in 1 .. Len(screens') : screens'[k].v = screens'[k].given
  PROVE  SavedByTop'
  BY DEF SavedByTop

\* One more task, and the same screens.
LEMMA SavedAppend ==
  ASSUME SavesInv, NEW t \in Store!Task, t.op # "update", tasks' = Append(tasks, t)
  PROVE  /\ Len(tasks') = Len(tasks) + 1 /\ tasks'[Len(tasks) + 1] = t
         /\ \A n \in 1 .. Len(tasks) : tasks'[n] = tasks[n]
         /\ \A n \in 1 .. Len(tasks') : tasks'[n].op = "update" => tasks'[n].v <= edits
<1>1. tasks \in Seq(Store!Task)
  BY DEF SavesInv, StoreTypes, TableTypes
<1>2. /\ Len(tasks') = Len(tasks) + 1 /\ tasks'[Len(tasks) + 1] = t
      /\ \A n \in 1 .. Len(tasks) : tasks'[n] = tasks[n]
  BY <1>1, AppendProperties
<1>3. ASSUME NEW n \in 1 .. Len(tasks'), tasks'[n].op = "update" PROVE tasks'[n].v <= edits
  <2>1. n # Len(tasks) + 1
    BY <1>2, <1>3
  <2>2. n \in 1 .. Len(tasks)
    BY <1>2, <2>1, TasksTyped DEF SavesInv
  <2> QED BY <1>2, <1>3, <2>2 DEF SavesInv, SavedByTop
<1> QED BY <1>2, <1>3

\* One more edit, by which no screen has saved.
LEMMA SavedMore ==
  ASSUME StoreConstants, SavesInv, NEW t \in Store!Task, t.op # "update",
         tasks' = Append(tasks, t), edits' = edits + 1,
         \A k \in 1 .. Len(screens') : screens'[k].v = screens'[k].given
  PROVE  SavedByTop'
<1>1. edits \in Nat
  BY DEF StoreConstants, SavesInv, StoreTypes, TableTypes
<1>2. ASSUME NEW n \in 1 .. Len(tasks'), tasks'[n].op = "update" PROVE tasks'[n].v <= edits + 1
  <2>1. tasks'[n].v <= edits
    BY <1>2, SavedAppend
  <2>2. tasks'[n] \in Store!Task
    <3>1. tasks' \in Seq(Store!Task)
      BY TaskAdded DEF SavesInv
    <3> QED BY <3>1, LenProperties, ElementOfSeq
  <2>3. tasks'[n].v \in Nat
    BY <1>2, <2>2, TaskFields
  <2> QED BY <1>1, <2>1, <2>3
<1> QED BY <1>2, SavedByNone

LEMMA SavedOnOpen ==
  ASSUME SavesInv, Store!onOpen
  PROVE  SavedByTop'
<1> DEFINE t == [op |-> "populate"]
<1>1. t \in Store!Task /\ t.op = "populate"
  BY DEF Store!Task
<1>2. tasks' = Append(tasks, t) /\ UNCHANGED <<screens, front, edits>>
  BY DEF Store!onOpen
<1> HIDE DEF t
<1>3. /\ Len(tasks') = Len(tasks) + 1 /\ tasks'[Len(tasks) + 1] = t
      /\ \A n \in 1 .. Len(tasks) : tasks'[n] = tasks[n]
      /\ \A n \in 1 .. Len(tasks') : tasks'[n].op = "update" => tasks'[n].v <= edits
  BY <1>1, <1>2, SavedAppend
<1>4. ASSUME NEW s, OwnLast(tasks, s), NEW n \in 1 .. Len(tasks'), Own(tasks'[n], s)
      PROVE  /\ tasks'[n].id = s.id
             /\ \A m \in 1 .. Len(tasks') :
                  m > n => tasks'[m].op = "populate" \/ Own(tasks'[m], s)
  <2>1. n # Len(tasks) + 1
    BY <1>1, <1>3, <1>4 DEF Own
  <2>2. Len(tasks) \in Nat
    BY TasksTyped DEF SavesInv
  <2>3. n \in 1 .. Len(tasks)
    BY <1>3, <2>1, <2>2
  <2>4. \A m \in 1 .. Len(tasks') : m = Len(tasks) + 1 \/ m \in 1 .. Len(tasks)
    BY <1>3, <2>2
  <2> QED BY <1>1, <1>3, <1>4, <2>3, <2>4 DEF OwnLast
<1> QED BY <1>2, <1>3, <1>4 DEF SavesInv, SavedByTop, OwnLast

\* A task that is run leaves the others in their order.
LEMMA SavedRunTask ==
  ASSUME SavesInv, Store!RunTask
  PROVE  SavedByTop'
<1> DEFINE N == Len(tasks)
<1>1. tasks \in Seq(Store!Task) /\ db \in Db /\ tasks # <<>> /\ N \in Nat
  BY LenProperties DEF SavesInv, StoreTypes, TableTypes, Store!RunTask
<1>2. UNCHANGED <<screens, front, edits>>
  BY DEF Store!RunTask
<1>3. CASE Head(tasks).op = "populate" /\ DOMAIN db.rows = {}
  <2>1. tasks' = [tasks EXCEPT ![1] = TheSample]
    BY <1>3 DEF Store!RunTask, TheSample
  <2>2. Len(tasks') = N /\ tasks'[1] = TheSample /\ \A n \in 2 .. N : tasks'[n] = tasks[n]
    BY <1>1, <1>3, <2>1, AfterSample
  <2>3. TheSample.op = "insert"
    BY DEF TheSample
  <2>4. \A n \in 1 .. N : tasks'[n].op = "update" => n \in 2 .. N
    BY <1>1, <2>2, <2>3
  <2>5. ASSUME NEW s, OwnLast(tasks, s), NEW n \in 1 .. N, Own(tasks'[n], s)
        PROVE  /\ tasks'[n].id = s.id
               /\ \A m \in 1 .. N : m > n => tasks'[m].op = "populate" \/ Own(tasks'[m], s)
    <3>1. n \in 2 .. N
      BY <2>4, <2>5 DEF Own
    <3>2. \A m \in 1 .. N : m > n => m \in 2 .. N
      BY <1>1, <3>1
    <3> QED BY <2>2, <2>5, <3>1, <3>2 DEF OwnLast
  <2> QED BY <1>2, <2>2, <2>4, <2>5 DEF SavesInv, SavedByTop, OwnLast
<1>4. CASE ~(Head(tasks).op = "populate" /\ DOMAIN db.rows = {})
  <2>1. tasks' = Tail(tasks)
    BY <1>4 DEF Store!RunTask
  <2>2. Len(tasks') = N - 1 /\ \A n \in 1 .. N - 1 : tasks'[n] = tasks[n + 1]
    BY <1>1, <2>1, AfterTail
  <2>3. \A n \in 1 .. N - 1 : n + 1 \in 1 .. N
    BY <1>1
  <2>4. ASSUME NEW s, OwnLast(tasks, s), NEW n \in 1 .. N - 1, Own(tasks'[n], s)
        PROVE  /\ tasks'[n].id = s.id
               /\ \A m \in 1 .. N - 1 : m > n => tasks'[m].op = "populate" \/ Own(tasks'[m], s)
    <3>1. n + 1 \in 1 .. N /\ tasks'[n] = tasks[n + 1] /\ Own(tasks[n + 1], s)
      BY <2>2, <2>3, <2>4
    <3>2. tasks[n + 1].id = s.id
          /\ \A m \in 1 .. N : m > n + 1 => tasks[m].op = "populate" \/ Own(tasks[m], s)
      BY <2>4, <3>1 DEF OwnLast
    <3>3. ASSUME NEW m \in 1 .. N - 1, m > n PROVE tasks'[m].op = "populate" \/ Own(tasks'[m], s)
      <4>1. m + 1 \in 1 .. N /\ m + 1 > n + 1
        BY <1>1, <2>3, <3>3
      <4> QED BY <2>2, <3>2, <4>1
    <3> QED BY <3>1, <3>2, <3>3
  <2>5. \A s : OwnLast(tasks, s) => OwnLast(tasks', s)
    BY <2>2, <2>4 DEF OwnLast
  <2>6. \A n \in 1 .. Len(tasks') : tasks'[n].op = "update" => tasks'[n].v <= edits
    BY <2>2, <2>3 DEF SavesInv, SavedByTop
  <2> QED BY <1>2, <2>5, <2>6 DEF SavesInv, SavedByTop
<1> QED BY <1>3, <1>4

LEMMA SavedEnded ==
  ASSUME SavesInv, Store!Ended
  PROVE  SavedByTop'
<1>1. tasks' = <<>> /\ Len(<<>>) = 0
  BY EmptySeq DEF Store!Ended
<1>2. ASSUME NEW k \in 1 .. Len(screens') PROVE screens'[k].v = screens'[k].given
  <2>1. screens' # <<>>
    BY <1>1
  <2>2. k \in 1 .. Len(screens) /\ screens'[k] = Restored(k) /\ screens[k] \in Screen
    BY <2>1, ScreensRestored DEF SavesInv
  <2>3. screens[k].id \in Nat /\ screens[k].given \in Nat
    BY <2>2 DEF Screen
  <2> QED BY <2>2, <2>3, CreatedScreen DEF Restored
<1> QED BY <1>1, <1>2, SavedByNone

\* A screen that is opened has what its intent has; those below it have not saved.
LEMMA SavedStart ==
  ASSUME SavesInv, NEW s \in Screen, s.v = s.given, Store!Start(s)
  PROVE  SavedByTop'
<1>1. UNCHANGED <<tasks, edits>> /\ front
  BY DEF Store!Start
<1>2. /\ Len(screens') = Len(screens) + 1 /\ screens'[Len(screens) + 1] = s
      /\ \A k \in 1 .. Len(screens) : screens'[k] = screens[k]
  BY StartTypes DEF SavesInv
<1>3. Len(screens) \in Nat
  BY LenProperties DEF SavesInv, StoreTypes, ScreenTypes
<1>4. ASSUME NEW k \in 1 .. Len(screens') PROVE screens'[k].v = screens'[k].given
  <2>1. k = Len(screens) + 1 \/ k \in 1 .. Len(screens)
    BY <1>2, <1>3
  <2> QED BY <1>1, <1>2, <2>1 DEF SavesInv, SavedByTop
<1> QED BY <1>1, <1>4, SavedByNone DEF SavesInv, SavedByTop

LEMMA SavedStop ==
  ASSUME SavesInv, Store!Stop
  PROVE  SavedByTop'
<1>1. UNCHANGED <<tasks, edits>> /\ front
  BY DEF Store!Stop
<1>2. \A k \in 1 .. Len(screens') : screens'[k].v = screens'[k].given
  BY <1>1, Covered DEF SavesInv, SavedByTop
<1> QED BY <1>1, <1>2, SavedByNone DEF SavesInv, SavedByTop

\* The screens below the one that is left have not saved.
LEMMA SavedBelow ==
  ASSUME SavesInv, ~front, Store!finish, UNCHANGED <<dialogs, list>>
  PROVE  \A k \in 1 .. Len(screens') : screens'[k].v = screens'[k].given
<1>1. /\ Len(screens') = Len(screens) - 1 /\ Len(screens) \in Nat \ {0}
      /\ \A k \in 1 .. Len(screens') : k \in 1 .. Len(screens) /\ screens'[k] = screens[k]
  BY Finished DEF SavesInv
<1>2. \A k \in 1 .. Len(screens') : k # Len(screens)
  BY <1>1
<1> QED BY <1>1, <1>2 DEF SavesInv, SavedByTop

LEMMA SavedRecreate ==
  ASSUME SavesInv, screens # <<>>, Store!Recreate
  PROVE  SavedByTop'
<1> DEFINE N == Len(screens)
           s == screens[N]
           new == Store!Created(s.id, s.given, N = 1, Store!Settled)
<1>1. /\ N \in 1 .. N /\ s \in Screen /\ Len(screens') = N /\ UNCHANGED <<tasks, edits>>
      /\ \A k \in 1 .. N : screens'[k] = IF k = N THEN new ELSE screens[k]
  BY Recreated DEF SavesInv
<1>2. s.id \in Nat /\ s.given \in Nat
  BY <1>1 DEF Screen
<1>3. new.v = new.given
  BY <1>2, CreatedScreen
<1> HIDE DEF new
<1>4. \A k \in 1 .. N : screens'[k].v = screens'[k].given
  BY <1>1, <1>3 DEF SavesInv, SavedByTop
<1> QED BY <1>1, <1>4, SavedByNone DEF SavesInv, SavedByTop

LEMMA SavedUpdate ==
  ASSUME StoreConstants, SavesInv, screens # <<>>, Store!updateDatabase
  PROVE  SavedByTop'
<1> DEFINE N == Len(screens)
           s == screens[N]
           T == Len(tasks)
           O == OfTop(s)
           w == edits + 1
           new == [s EXCEPT !.v = w]
<1>1. /\ N \in 1 .. N /\ s \in Screen /\ T \in Nat /\ Len(tasks') = T + 1
      /\ ~front /\ front' = front /\ edits' = w
      /\ Len(screens') = N /\ screens'[N] = new
      /\ \A k \in 1 .. N : k # N => screens'[k] = screens[k]
  BY UpdateTypes DEF SavesInv
<1>2. new.v = w /\ new.id = s.id
  BY <1>1 DEF Screen
<1>3. IsRaised(tasks', tasks, O, s.id, w)
  BY TopRaises
<1>4. \A n \in O : tasks'[n].op = "update" /\ tasks'[n].v = w /\ tasks'[n].id = s.id
  BY <1>3 DEF IsRaised
<1>5. edits \in Nat /\ w \in Nat /\ \A n \in 1 .. T : tasks[n] \in Store!Task
  BY NextVersion, TasksTyped DEF SavesInv, StoreTypes, TableTypes
<1> HIDE DEF O, new
<1>6. ASSUME NEW n \in 1 .. T + 1, n \notin O
      PROVE  n \in 1 .. T /\ tasks'[n] = tasks[n] /\ (tasks[n].op = "update" => tasks[n].v <= edits)
  <2>1. n # T + 1
    BY <1>3, <1>6 DEF IsRaised
  <2>2. n \in 1 .. T
    BY <1>1, <2>1
  <2> QED BY <1>3, <1>6, <2>2 DEF IsRaised, SavesInv, SavedByTop
<1>7. ASSUME NEW n \in 1 .. T + 1, tasks'[n].op = "update" PROVE tasks'[n].v <= w
  <2>1. CASE n \in O
    BY <1>4, <1>5, <2>1
  <2>2. CASE n \notin O
    <3>1. tasks[n] \in Store!Task /\ tasks[n].op = "update" /\ tasks'[n] = tasks[n]
          /\ tasks[n].v <= edits
      BY <1>5, <1>6, <1>7, <2>2
    <3>2. tasks[n].v \in Nat
      BY <3>1, TaskFields
    <3> QED BY <1>5, <3>1, <3>2
  <2> QED BY <2>1, <2>2
<1>8. ASSUME NEW n \in 1 .. T + 1, Own(tasks'[n], new) PROVE n \in O
  <2>1. SUFFICES ASSUME n \notin O PROVE FALSE
    OBVIOUS
  <2>2. tasks'[n].v <= edits /\ tasks'[n].v = edits + 1
    BY <1>2, <1>6, <1>8, <2>1 DEF Own
  <2> QED BY <1>5, <2>2
<1>9. ASSUME new.v # new.given PROVE OwnLast(tasks', new)
  <2>1. ASSUME NEW n \in 1 .. T + 1, Own(tasks'[n], new), NEW m \in 1 .. T + 1, m > n
        PROVE  tasks'[m].op = "populate" \/ Own(tasks'[m], new)
    <3>1. n \in O
      BY <1>8, <2>1
    <3>2. CASE m \in O
      BY <1>2, <1>4, <1>9, <3>2 DEF Own
    <3>3. CASE m \notin O
      <4>1. m \in 1 .. T /\ tasks'[m] = tasks[m]
        BY <1>6, <3>3
      <4> QED BY <1>3, <2>1, <3>1, <3>3, <4>1 DEF IsRaised
    <3> QED BY <3>2, <3>3
  <2>2. \A n \in 1 .. T + 1 : Own(tasks'[n], new) => tasks'[n].id = new.id
    BY <1>2, <1>4, <1>8
  <2> QED BY <1>1, <2>1, <2>2 DEF OwnLast
<1>10. ASSUME NEW k \in 1 .. N, screens'[k].v # screens'[k].given
       PROVE  k = N /\ ~front' /\ screens'[k].v <= edits' /\ OwnLast(tasks', screens'[k])
  <2>1. k = N
    BY <1>1, <1>10 DEF SavesInv, SavedByTop
  <2>2. new.v # new.given /\ screens'[k] = new
    BY <1>1, <1>10, <2>1
  <2>3. OwnLast(tasks', screens'[k])
    BY <1>9, <2>2
  <2> QED BY <1>1, <1>2, <1>5, <2>1, <2>2, <2>3
<1> QED BY <1>1, <1>7, <1>10 DEF SavedByTop

LEMMA SavedStep ==
  ASSUME StoreConstants, SavesInv, [Store!Next]_(Store!vars)
  PROVE  SavedByTop'
<1>1. CASE Store!onOpen
  BY <1>1, SavedOnOpen
<1>2. CASE Store!RunTask
  BY <1>2, SavedRunTask
<1>3. ASSUME UNCHANGED <<tasks, screens, front, edits>> PROVE SavedByTop'
  BY <1>3 DEF SavesInv, SavedByTop, OwnLast
<1>4. CASE Store!Query \/ Store!setActions \/ Store!Dismiss \/ UNCHANGED Store!vars
  BY <1>3, <1>4 DEF Store!Query, Store!setActions, Store!Dismiss, Store!vars
<1>5. ASSUME NEW row \in DOMAIN list, Store!btnRemove(row) PROVE SavedByTop'
  BY <1>3, <1>5 DEF Store!btnRemove
<1>6. ASSUME NEW row \in DOMAIN list, Store!onClick(row) PROVE SavedByTop'
  <2>1. Opened(row) \in Screen /\ Store!Start(Opened(row))
    BY <1>6, OnClickStarts DEF SavesInv
  <2>2. list[row].id \in Nat /\ list[row].v \in Nat
    BY ScriptIds, LenProperties DEF SavesInv, StoreTypes, ListTypes
  <2>3. Opened(row).v = Opened(row).given
    BY <2>2, CreatedScreen DEF Opened
  <2> QED BY <2>1, <2>3, SavedStart
<1>7. CASE Store!removeItem
  <2> DEFINE t == [op |-> "delete", id |-> list[Store!Last(dialogs).row].id]
  <2>1. t \in Store!Task /\ tasks' = Append(tasks, t) /\ dialogs # <<>>
    BY <1>7, Confirmed DEF SavesInv
  <2>2. t.op # "update"
    OBVIOUS
  <2> HIDE DEF t
  <2>3. screens' = screens /\ edits' = edits + 1 /\ screens = <<>> /\ Len(<<>>) = 0
    BY <1>7, <2>1, EmptySeq DEF Store!removeItem, SavesInv, StoreTypes, ScreenTypes
  <2>4. \A k \in 1 .. Len(screens') : screens'[k].v = screens'[k].given
    BY <2>3
  <2> QED BY <2>1, <2>2, <2>3, <2>4, SavedMore
<1>8. CASE Store!removeItem_raises \/ Store!Kill
  BY <1>8, SavedEnded DEF Store!removeItem_raises, Store!Kill
<1>9. CASE Store!fab
  <2>1. Blank \in Screen /\ Store!Start(Blank)
    BY <1>9, FabStarts
  <2>2. 0 \in Nat
    OBVIOUS
  <2>3. Blank.v = Blank.given
    BY <2>2, CreatedScreen DEF Blank
  <2> QED BY <2>1, <2>3, SavedStart
<1>10. CASE Store!Stop
  BY <1>10, SavedStop
<1>11. CASE screens # <<>> /\ Store!Leave
  <2>1. ~front /\ Store!finish /\ UNCHANGED <<tasks, dialogs, list, edits>>
    BY <1>11 DEF Store!Leave
  <2> QED BY <2>1, SavedBelow, SavedByNone DEF SavesInv, SavedByTop
<1>12. CASE screens # <<>> /\ Store!AddScript
  <2>1. /\ NewScript \in Store!Task /\ Store!finish /\ ~front
        /\ tasks' = Append(tasks, NewScript) /\ edits' = edits + 1 /\ UNCHANGED <<list, dialogs>>
    BY <1>12, AddScriptTypes DEF SavesInv
  <2>2. NewScript.op # "update"
    BY DEF NewScript
  <2>3. \A k \in 1 .. Len(screens') : screens'[k].v = screens'[k].given
    BY <2>1, SavedBelow
  <2> QED BY <2>1, <2>2, <2>3, SavedMore
<1>13. CASE screens # <<>> /\ Store!updateDatabase
  BY <1>13, SavedUpdate
<1>14. CASE screens # <<>> /\ Store!Recreate
  BY <1>14, SavedRecreate
<1> QED BY <1>1, <1>2, <1>4, <1>5, <1>6, <1>7, <1>8, <1>9, <1>10, <1>11, <1>12, <1>13, <1>14
        DEF Store!Next

LEMMA SavesStep ==
  ASSUME StoreConstants, SavesInv, [Store!Next]_(Store!vars)
  PROVE  SavesInv'
<1>1. StoreTypes'
  BY StoreStepTypes DEF SavesInv
<1>2. Store!NoSaveLost' /\ SoundScreens'
  <2>1. CASE Store!onOpen
    BY <2>1, SavesOnOpen
  <2>2. CASE Store!RunTask
    <3>1. UNCHANGED <<screens, front>>
      BY <2>2 DEF Store!RunTask
    <3>2. Store!NoSaveLost' /\ Store!Settled' = Store!Settled
      BY <2>2, TaskRun DEF SavesInv
    <3> QED BY <3>1, <3>2, SoundStays DEF SavesInv
  <2>3. ASSUME UNCHANGED <<db, tasks, screens, front>> PROVE Store!NoSaveLost' /\ SoundScreens'
    BY <2>3, TableStays, SoundStays DEF SavesInv
  <2>4. CASE Store!Query
    BY <2>3, <2>4 DEF Store!Query
  <2>5. CASE Store!setActions
    BY <2>3, <2>5 DEF Store!setActions
  <2>6. ASSUME NEW row \in DOMAIN list, Store!btnRemove(row)
        PROVE Store!NoSaveLost' /\ SoundScreens'
    BY <2>3, <2>6 DEF Store!btnRemove
  <2>7. ASSUME NEW row \in DOMAIN list, Store!onClick(row) PROVE Store!NoSaveLost' /\ SoundScreens'
    <3>1. Opened(row) \in Screen /\ Store!Start(Opened(row))
      BY <2>7, OnClickStarts DEF SavesInv
    <3>2. Opened(row).sound => screens = <<>> /\ Settles(Opened(row))
      <4>1. list[row].id \in Nat /\ list[row].v \in Nat
        BY ScriptIds, LenProperties DEF SavesInv, StoreTypes, ListTypes
      <4> QED BY <4>1 DEF Opened, Settles, Store!Created
    <3> QED BY <3>1, <3>2, SavesStartScreen
  <2>8. CASE Store!Dismiss
    BY <2>3, <2>8 DEF Store!Dismiss
  <2>9. CASE Store!removeItem
    BY <2>9, SavesRemoveItem
  <2>10. CASE Store!removeItem_raises \/ Store!Kill
    BY <2>10, SavesEnded DEF Store!removeItem_raises, Store!Kill
  <2>11. CASE Store!fab
    <3>1. Blank \in Screen /\ Store!Start(Blank)
      BY <2>11, FabStarts
    <3>2. ~ Blank.sound
      <4>1. Store!Settled \in Db
        BY TasksTyped DEF SavesInv
      <4>2. \A n \in Nat : 0 \notin 1 .. n - 1
        OBVIOUS
      <4>3. 0 \notin DOMAIN Store!Settled.rows
        BY <4>1, <4>2, DbFields
      <4>4. Blank.sound => 0 \in DOMAIN Store!Settled.rows
        BY DEF Blank, Store!Created
      <4> QED BY <4>3, <4>4
    <3> QED BY <3>1, <3>2, SavesStartScreen
  <2>12. CASE Store!Stop
    BY <2>12, SavesStop
  <2>13. CASE screens # <<>> /\ Store!Leave
    BY <2>13, SavesLeave
  <2>14. CASE screens # <<>> /\ Store!AddScript
    BY <2>14, SavesAddScript
  <2>15. CASE screens # <<>> /\ Store!updateDatabase
    BY <2>15, SavesUpdate
  <2>16. CASE screens # <<>> /\ Store!Recreate
    BY <2>16, SavesRecreate
  <2>17. CASE UNCHANGED Store!vars
    BY <2>3, <2>17 DEF Store!vars
  <2> QED BY <2>1, <2>2, <2>4, <2>5, <2>6, <2>7, <2>8, <2>9, <2>10, <2>11, <2>12, <2>13, <2>14,
             <2>15, <2>16, <2>17
          DEF Store!Next
<1>3. SavedByTop'
  BY SavedStep
<1> QED BY <1>1, <1>2, <1>3 DEF SavesInv

LEMMA SavesInvariant ==
  ASSUME StoreConstants
  PROVE  Store!Spec => []SavesInv
<1>1. Store!Init => SavesInv
  BY SavesStart
<1>2. SavesInv /\ [Store!Next]_(Store!vars) => SavesInv'
  BY SavesStep
<1> QED BY <1>1, <1>2, PTL DEF Store!Spec

\* The store keeps its types, whatever tables earlier sessions left and however many
\* scripts, saves, screens and ends of the process there are.
THEOREM StoreTypesCorrect ==
  ASSUME StoreConstants
  PROVE  Store!Spec => []Store!TypeOK
<1>1. SavesInv => Store!TypeOK
  BY StoreTypesOK DEF SavesInv
<1> QED BY <1>1, SavesInvariant, PTL

\* A save on the one screen over the list replaces a version that the screen had, if the
\* screen was created, for the last time, with the script as last saved: whatever the
\* tasks, the screens created again from their intents and the ends of the process, no
\* other save or delete comes between (updateDatabase in ScriptActivity).
THEOREM SavesAreKept ==
  ASSUME StoreConstants
  PROVE  Store!Spec => []Store!NoSaveLost
<1>1. SavesInv => Store!NoSaveLost
  BY DEF SavesInv
<1> QED BY <1>1, SavesInvariant, PTL

-----------------------------------------------------------------------------
(***************************************************************************)
(* What is confirmed is what was pressed.                                  *)
(***************************************************************************)
\* The scripts a task is to delete, and those that one of the tasks is.
Deletes(t) == IF t.op = "delete" THEN {t.id} ELSE {}

Deleting == UNION {Deletes(tasks[n]) : n \in 1 .. Len(tasks)}

\* A list read from an earlier table: it has every script of the table with an id
\* below a bound, but for some that are gone.
Behind(s, d, gone) ==
  /\ Sorted(s)
  /\ \E b \in 1 .. d.next : Ids(s) \subseteq 1 .. b - 1
       /\ (DOMAIN d.rows \cap (1 .. b - 1)) \ gone \subseteq Ids(s)

LEMMA BehindMore ==
  ASSUME NEW s, NEW d, NEW gone, NEW more, gone \subseteq more, Behind(s, d, gone)
  PROVE  Behind(s, d, more)
  BY DEF Behind

LEMMA BehindAll ==
  ASSUME NEW d \in Db
  PROVE  Behind(Store!getAllActions(d), d, {})
<1> DEFINE s == Store!getAllActions(d)
<1>1. Sorted(s) /\ Ids(s) = DOMAIN d.rows
  BY ReadRows
<1>2. d.next \in 1 .. d.next /\ DOMAIN d.rows \subseteq 1 .. d.next - 1
  <2>1. d.next \in Nat \ {0} /\ DOMAIN d.rows \subseteq 1 .. d.next - 1
    BY DbFields
  <2> QED BY <2>1
<1> HIDE DEF s
<1>3. Behind(s, d, {})
  BY <1>1, <1>2 DEF Behind
<1> QED BY <1>3 DEF s

\* A task brings no script back.
LEMMA OldRows ==
  ASSUME NEW d \in Db, NEW e \in Db, NEW t, IsDone(e, d, t)
  PROVE  /\ d.next <= e.next
         /\ DOMAIN e.rows \cap (1 .. d.next - 1) = DOMAIN d.rows \ Deletes(t)
<1>1. /\ d.next \in Nat \ {0} /\ DOMAIN d.rows \subseteq 1 .. d.next - 1
      /\ e.next \in Nat \ {0} /\ DOMAIN e.rows \subseteq 1 .. e.next - 1
  BY DbFields
<1>2. CASE t.op # "delete" /\ \E v : IsInserted(e, d, v)
  <2>1. e.next = d.next + 1 /\ DOMAIN e.rows = DOMAIN d.rows \cup {d.next}
    BY <1>2 DEF IsInserted
  <2>2. Deletes(t) = {}
    BY <1>2 DEF Deletes
  <2> QED BY <1>1, <2>1, <2>2
<1>3. CASE t.op = "update" /\ IsUpdated(e, d, t.id, t.v)
  <2>1. e.next = d.next /\ DOMAIN e.rows = DOMAIN d.rows /\ Deletes(t) = {}
    BY <1>3 DEF IsUpdated, Deletes
  <2> QED BY <1>1, <2>1
<1>4. CASE t.op = "delete" /\ IsDeleted(e, d, t.id)
  <2>1. e.next = d.next /\ DOMAIN e.rows = DOMAIN d.rows \ {t.id} /\ Deletes(t) = {t.id}
    BY <1>4 DEF IsDeleted, Deletes
  <2> QED BY <1>1, <2>1
<1>5. CASE t.op = "populate" /\ e = d
  <2>1. Deletes(t) = {}
    BY <1>5 DEF Deletes
  <2> QED BY <1>1, <1>5, <2>1
<1> QED BY <1>2, <1>3, <1>4, <1>5 DEF IsDone

LEMMA BehindTask ==
  ASSUME NEW d \in Db, NEW e \in Db, NEW t, IsDone(e, d, t), NEW s, NEW gone, NEW left,
         Behind(s, d, gone), gone \subseteq left \cup Deletes(t)
  PROVE  Behind(s, e, left)
<1>1. PICK b \in 1 .. d.next :
        Ids(s) \subseteq 1 .. b - 1 /\ (DOMAIN d.rows \cap (1 .. b - 1)) \ gone \subseteq Ids(s)
  BY DEF Behind
<1>2. d.next <= e.next /\ DOMAIN e.rows \cap (1 .. d.next - 1) = DOMAIN d.rows \ Deletes(t)
  BY OldRows
<1>3. d.next \in Nat \ {0} /\ e.next \in Nat \ {0}
  BY DbFields
<1>4. b \in 1 .. e.next
  BY <1>2, <1>3
<1>5. ASSUME NEW id \in DOMAIN e.rows \cap (1 .. b - 1), id \notin left PROVE id \in Ids(s)
  <2>1. id \in DOMAIN e.rows \cap (1 .. d.next - 1)
    BY <1>3, <1>5
  <2>2. id \in DOMAIN d.rows /\ id \notin Deletes(t)
    BY <1>2, <2>1
  <2> QED BY <1>1, <1>5, <2>2
<1> QED BY <1>1, <1>4, <1>5 DEF Behind

LEMMA BehindRemoved ==
  ASSUME NEW s \in Seq(Store!Script), NEW k \in 1 .. Len(s), NEW d, NEW gone, Behind(s, d, gone)
  PROVE  Behind(Store!RemoveAt(s, k), d, gone \cup {s[k].id})
<1> DEFINE u == Store!RemoveAt(s, k)
           N == Len(s)
<1>1. /\ Len(u) = N - 1 /\ N \in Nat /\ k \in 1 .. N
      /\ \A i \in 1 .. N - 1 : u[i] = IF i < k THEN s[i] ELSE s[i + 1]
  BY StoreRemoveAt, LenProperties
<1>2. PICK b \in 1 .. d.next :
        Ids(s) \subseteq 1 .. b - 1 /\ (DOMAIN d.rows \cap (1 .. b - 1)) \ gone \subseteq Ids(s)
  BY DEF Behind
<1>3. \A i, j \in 1 .. N : i < j => s[i].id < s[j].id
  BY DEF Behind, Sorted
<1>4. Ids(s) = {s[i].id : i \in 1 .. N}
  BY DEF Ids
<1> HIDE DEF u, N
<1>5. Ids(u) = {u[i].id : i \in 1 .. N - 1}
  BY <1>1 DEF Ids
<1>6. Sorted(u)
  <2>1. ASSUME NEW i \in 1 .. N - 1, NEW j \in 1 .. N - 1, i < j PROVE u[i].id < u[j].id
    <3>1. i \in 1 .. N /\ j \in 1 .. N /\ i + 1 \in 1 .. N /\ j + 1 \in 1 .. N
      BY <1>1
    <3>2. CASE j < k
      <4>1. u[i] = s[i] /\ u[j] = s[j]
        BY <1>1, <2>1, <3>2
      <4> QED BY <1>3, <2>1, <3>1, <4>1
    <3>3. CASE ~(j < k) /\ i < k
      <4>1. u[i] = s[i] /\ u[j] = s[j + 1] /\ i < j + 1
        BY <1>1, <2>1, <3>3
      <4> QED BY <1>3, <3>1, <4>1
    <3>4. CASE ~(j < k) /\ ~(i < k)
      <4>1. u[i] = s[i + 1] /\ u[j] = s[j + 1] /\ i + 1 < j + 1
        BY <1>1, <2>1, <3>4
      <4> QED BY <1>3, <3>1, <4>1
    <3> QED BY <3>2, <3>3, <3>4
  <2> QED BY <1>1, <2>1 DEF Sorted
<1>7. Ids(u) \subseteq Ids(s)
  <2>1. ASSUME NEW i \in 1 .. N - 1 PROVE u[i].id \in Ids(s)
    <3>1. i \in 1 .. N /\ i + 1 \in 1 .. N /\ (u[i] = s[i] \/ u[i] = s[i + 1])
      BY <1>1
    <3> QED BY <1>4, <3>1
  <2> QED BY <1>5, <2>1
<1>8. Ids(s) \ {s[k].id} \subseteq Ids(u)
  <2>1. ASSUME NEW id \in Ids(s), id # s[k].id PROVE id \in Ids(u)
    <3>1. PICK i \in 1 .. N : id = s[i].id
      BY <1>4
    <3>2. CASE i < k
      <4>1. i \in 1 .. N - 1 /\ u[i] = s[i]
        BY <1>1, <3>2
      <4> QED BY <1>5, <3>1, <4>1
    <3>3. CASE i > k
      <4>1. i - 1 \in 1 .. N - 1 /\ ~(i - 1 < k) /\ (i - 1) + 1 = i
        BY <1>1, <3>3
      <4>2. u[i - 1] = s[i]
        BY <1>1, <4>1
      <4> QED BY <1>5, <3>1, <4>1, <4>2
    <3>4. i # k
      BY <2>1, <3>1
    <3> QED BY <1>1, <3>2, <3>3, <3>4
  <2> QED BY <2>1
<1>9. (DOMAIN d.rows \cap (1 .. b - 1)) \ (gone \cup {s[k].id}) \subseteq Ids(u)
  BY <1>2, <1>8
<1>10. Behind(u, d, gone \cup {s[k].id})
  <2>1. Ids(u) \subseteq 1 .. b - 1
    BY <1>2, <1>7
  <2> QED BY <1>6, <1>9, <2>1 DEF Behind
<1> QED BY <1>10 DEF u

\* Two lists have the same scripts at the places of the first.
SameIds(s, t) == \A i \in 1 .. Len(s) : i \in 1 .. Len(t) /\ s[i].id = t[i].id

\* A list that is only behind, and nothing of it gone, is a beginning of the table's.
LEMMA BehindBegins ==
  ASSUME NEW d \in Db, NEW s \in Seq(Store!Script), Behind(s, d, {}), Ids(s) \subseteq DOMAIN d.rows
  PROVE  SameIds(s, Store!getAllActions(d))
<1> DEFINE t == Store!getAllActions(d)
<1>1. t \in Seq(Store!Script) /\ Sorted(t) /\ Ids(t) = DOMAIN d.rows
  BY ReadRows
<1>2. PICK b \in 1 .. d.next : Ids(s) \subseteq 1 .. b - 1
        /\ DOMAIN d.rows \cap (1 .. b - 1) \subseteq Ids(s)
  BY DEF Behind
<1>3. Sorted(s)
  BY DEF Behind
<1> HIDE DEF t
<1>4. Ids(s) = Ids(t) \cap (1 .. b - 1) /\ b \in Int
  BY <1>1, <1>2
<1>5. \A i \in 1 .. Len(t) : t[i].id >= 1
  <2>1. TAKE i \in 1 .. Len(t)
  <2>2. t[i].id \in DOMAIN d.rows
    BY <1>1 DEF Ids
  <2>3. d.next \in Nat \ {0} /\ DOMAIN d.rows \subseteq 1 .. d.next - 1
    BY DbFields
  <2> QED BY <2>2, <2>3
<1>6. SameIds(s, t)
  BY <1>1, <1>3, <1>4, <1>5, SamePlaces DEF SameIds
<1> QED BY <1>6 DEF t

\* A task that deletes nothing leaves every script at its place.
LEMMA PlacesKept ==
  ASSUME NEW d \in Db, NEW e \in Db, NEW t, IsDone(e, d, t), Deletes(t) = {}
  PROVE  SameIds(Store!getAllActions(d), Store!getAllActions(e))
<1> DEFINE s == Store!getAllActions(d)
<1>1. s \in Seq(Store!Script) /\ Ids(s) = DOMAIN d.rows
  BY ReadRows
<1>2. Behind(s, e, {})
  BY BehindAll, BehindTask
<1>3. DOMAIN d.rows \subseteq DOMAIN e.rows
  BY OldRows
<1> HIDE DEF s
<1>4. SameIds(s, Store!getAllActions(e))
  BY <1>1, <1>2, <1>3, BehindBegins
<1> QED BY <1>4 DEF s

-----------------------------------------------------------------------------
ListBehind ==
  Behind(list, db, Deleting) /\ \A p \in 1 .. Len(posted) : Behind(posted[p], db, {})

\* A dialog's script is at its position of the table's list, of the list shown, and of
\* one that was read but is yet to be shown; and nothing is to be deleted.
IsPressed(d, table, gone, given, read) ==
  d.calm /\ d.row # 0 =>
    LET all == Store!getAllActions(table)
    IN  /\ gone = {}
        /\ d.row \in 1 .. Len(all) /\ all[d.row].id = d.pressed
        /\ given[d.row].id = d.pressed
        /\ \A p \in 1 .. Len(read) : d.row <= Len(read[p]) => read[p][d.row].id = d.pressed

DialogsFind == \A k \in 1 .. Len(dialogs) : IsPressed(dialogs[k], db, Deleting, list, posted)

ListInv == StoreTypes /\ ListBehind /\ DialogsFind

LEMMA ListTyped ==
  ASSUME StoreTypes
  PROVE  /\ db \in Db /\ tasks \in Seq(Store!Task) /\ list \in Seq(Store!Script)
         /\ posted \in Seq(Seq(Store!Script))
         /\ DOMAIN list = 1 .. Len(list) /\ Len(list) \in Nat /\ Len(posted) \in Nat
         /\ DOMAIN posted = 1 .. Len(posted)
         /\ \A p \in 1 .. Len(posted) : posted[p] \in Seq(Store!Script) /\ Len(posted[p]) \in Nat
         /\ Len(tasks) \in Nat /\ DOMAIN tasks = 1 .. Len(tasks)
         /\ \A n \in 1 .. Len(tasks) : tasks[n] \in Store!Task
         /\ dialogs \in Seq(Dialog(Len(list))) /\ Len(dialogs) \in Nat
         /\ \A k \in 1 .. Len(dialogs) : dialogs[k] \in Dialog(Len(list))
              /\ dialogs[k].row \in 0 .. Len(list)
<1>1. /\ db \in Db /\ tasks \in Seq(Store!Task) /\ list \in Seq(Store!Script)
      /\ posted \in Seq(Seq(Store!Script))
      /\ dialogs \in Seq(Dialog(Len(list)))
  BY DEF StoreTypes, TableTypes, ListTypes, ScreenTypes
<1>2. DOMAIN list = 1 .. Len(list) /\ Len(list) \in Nat /\ Len(posted) \in Nat
        /\ DOMAIN posted = 1 .. Len(posted)
  BY <1>1, LenProperties
<1>3. \A p \in 1 .. Len(posted) : posted[p] \in Seq(Store!Script)
  BY <1>1, ElementOfSeq
<1>4. \A p \in 1 .. Len(posted) : Len(posted[p]) \in Nat
  BY <1>3, LenProperties
<1>5. Len(tasks) \in Nat /\ DOMAIN tasks = 1 .. Len(tasks)
        /\ \A n \in 1 .. Len(tasks) : tasks[n] \in Store!Task
  BY TasksTyped
<1>6. Len(dialogs) \in Nat /\ \A k \in 1 .. Len(dialogs) : dialogs[k] \in Dialog(Len(list))
  BY <1>1, LenProperties, ElementOfSeq
<1>7. \A k \in 1 .. Len(dialogs) : dialogs[k].row \in 0 .. Len(list)
  BY <1>6 DEF Dialog
<1> QED BY <1>1, <1>2, <1>3, <1>4, <1>5, <1>6, <1>7

\* What is to be deleted when a task is made.
LEMMA DeletingMade ==
  ASSUME StoreTypes, NEW t \in Store!Task, tasks' = Append(tasks, t)
  PROVE  Deleting' = Deleting \cup Deletes(t)
<1> DEFINE N == Len(tasks)
           us == Append(tasks, t)
<1>1. N \in Nat /\ tasks \in Seq(Store!Task)
  BY ListTyped
<1>2. Len(us) = N + 1 /\ us[N + 1] = t /\ \A n \in 1 .. N : us[n] = tasks[n]
  BY <1>1, AppendProperties
<1> HIDE DEF us, N
<1>3. UNION {Deletes(us[n]) : n \in 1 .. N + 1} =
        (UNION {Deletes(tasks[n]) : n \in 1 .. N}) \cup Deletes(t)
  <2>1. ASSUME NEW x, NEW n \in 1 .. N + 1, x \in Deletes(us[n])
        PROVE  x \in (UNION {Deletes(tasks[m]) : m \in 1 .. N}) \cup Deletes(t)
    <3>1. CASE n = N + 1
      BY <1>2, <2>1, <3>1
    <3>2. CASE n # N + 1
      <4>1. n \in 1 .. N
        BY <1>1, <3>2
      <4> QED BY <1>2, <2>1, <4>1
    <3> QED BY <3>1, <3>2
  <2>2. ASSUME NEW x, NEW n \in 1 .. N, x \in Deletes(tasks[n])
        PROVE  x \in UNION {Deletes(us[m]) : m \in 1 .. N + 1}
    <3>1. n \in 1 .. N + 1 /\ us[n] = tasks[n]
      BY <1>1, <1>2
    <3> QED BY <2>2, <3>1
  <2>3. ASSUME NEW x \in Deletes(t) PROVE x \in UNION {Deletes(us[m]) : m \in 1 .. N + 1}
    <3>1. N + 1 \in 1 .. N + 1 /\ us[N + 1] = t
      BY <1>1, <1>2
    <3> QED BY <3>1
  <2> QED BY <2>1, <2>2, <2>3
<1>4. tasks' = us
  BY DEF us
<1> QED BY <1>2, <1>3, <1>4 DEF Deleting, N

\* What a task that is run does to the table, and to what is to be deleted.
Ran(t) ==
  /\ db' \in Db /\ IsDone(db', db, t)
  /\ Deleting' \subseteq Deleting /\ Deletes(t) \subseteq Deleting
  /\ Deleting \subseteq Deleting' \cup Deletes(t)

LEMMA TaskRan ==
  ASSUME StoreTypes, Store!RunTask
  PROVE  (db' = db /\ Deleting' = Deleting) \/ \E t : Ran(t)
<1> DEFINE N == Len(tasks)
<1>1. tasks \in Seq(Store!Task) /\ db \in Db /\ tasks # <<>>
  BY DEF StoreTypes, TableTypes, Store!RunTask
<1>2. N \in Nat
  BY ListTyped
<1>3. CASE Head(tasks).op = "populate" /\ DOMAIN db.rows = {}
  <2> DEFINE us == [tasks EXCEPT ![1] = TheSample]
  <2>1. tasks' = us /\ db' = db
    BY <1>3 DEF Store!RunTask, TheSample
  <2>2. /\ Len(us) = N /\ us[1] = TheSample /\ \A n \in 2 .. N : us[n] = tasks[n]
    BY <1>1, <1>3, AfterSample
  <2>3. Head(tasks) = tasks[1]
    BY <1>1, AfterTail
  <2> HIDE DEF us
  <2>4. \A n \in 1 .. N : Deletes(us[n]) = Deletes(tasks[n])
    <3>1. TAKE n \in 1 .. N
    <3>2. CASE n = 1
      BY <1>3, <2>2, <2>3, <3>2 DEF Deletes, TheSample
    <3>3. CASE n # 1
      <4>1. n \in 2 .. N
        BY <1>2, <3>3
      <4> QED BY <2>2, <4>1
    <3> QED BY <3>2, <3>3
  <2>5. Deleting' = Deleting
    <3>1. Deleting' = UNION {Deletes(us[n]) : n \in 1 .. N}
      BY <2>1, <2>2 DEF Deleting
    <3> QED BY <2>4, <3>1 DEF Deleting
  <2> QED BY <2>1, <2>5
<1>4. CASE ~(Head(tasks).op = "populate" /\ DOMAIN db.rows = {})
  <2> DEFINE us == Tail(tasks)
             t == Head(tasks)
  <2>1. tasks' = us /\ db' = Store!Done(db, t)
    BY <1>4 DEF Store!RunTask, Store!Written
  <2>2. /\ t = tasks[1] /\ t \in Store!Task /\ Len(us) = N - 1 /\ N \in Nat \ {0}
        /\ \A n \in 1 .. N - 1 : us[n] = tasks[n + 1]
    BY <1>1, AfterTail
  <2> HIDE DEF us, t
  <2>3. db' \in Db /\ IsDone(db', db, t)
    BY <1>1, <2>1, <2>2, DoneDb, DoneIs
  <2>4. Deleting = UNION {Deletes(tasks[n]) : n \in 1 .. N}
    BY DEF Deleting
  <2>5. Deleting' = UNION {Deletes(us[n]) : n \in 1 .. N - 1}
    BY <2>1, <2>2 DEF Deleting
  <2> HIDE DEF N
  <2>6. Deletes(t) \subseteq Deleting
    <3>1. 1 \in 1 .. N
      BY <2>2
    <3> QED BY <2>2, <2>4, <3>1
  <2>7. Deleting' \subseteq Deleting
    <3>1. ASSUME NEW x, NEW n \in 1 .. N - 1, x \in Deletes(us[n]) PROVE x \in Deleting
      <4>1. n + 1 \in 1 .. N /\ us[n] = tasks[n + 1]
        BY <2>2
      <4> QED BY <2>4, <3>1, <4>1
    <3> QED BY <2>5, <3>1
  <2>8. Deleting \subseteq Deleting' \cup Deletes(t)
    <3>1. ASSUME NEW x, NEW n \in 1 .. N, x \in Deletes(tasks[n])
          PROVE x \in Deleting' \cup Deletes(t)
      <4>1. CASE n = 1
        BY <2>2, <3>1, <4>1
      <4>2. CASE n # 1
        <5>1. n - 1 \in 1 .. N - 1 /\ (n - 1) + 1 = n
          BY <2>2, <4>2
        <5>2. us[n - 1] = tasks[n]
          BY <2>2, <5>1
        <5> QED BY <2>5, <3>1, <5>1, <5>2
      <4> QED BY <4>1, <4>2
    <3> QED BY <2>4, <3>1
  <2>9. Ran(t)
    BY <2>3, <2>6, <2>7, <2>8 DEF Ran
  <2> QED BY <2>9
<1> QED BY <1>3, <1>4

LEMMA ListStart == StoreConstants /\ Store!Init => ListInv
<1> SUFFICES ASSUME StoreConstants, Store!Init PROVE ListInv
  OBVIOUS
<1>1. StoreTypes
  BY StoreStart
<1>2. list = <<>> /\ posted = <<>> /\ dialogs = <<>> /\ Len(<<>>) = 0
  BY EmptySeq DEF Store!Init
<1>3. db.next \in Nat \ {0}
  BY <1>1, ListTyped, DbFields
<1>4. Sorted(<<>>) /\ Ids(<<>>) = {}
  BY <1>2 DEF Sorted, Ids
<1>5. Behind(<<>>, db, Deleting)
  <2>1. 1 \in 1 .. db.next /\ 1 .. 1 - 1 = {}
    BY <1>3
  <2> QED BY <1>4, <2>1 DEF Behind
<1>6. ListBehind
  BY <1>2, <1>5 DEF ListBehind
<1>7. DialogsFind
  BY <1>2 DEF DialogsFind
<1> QED BY <1>1, <1>6, <1>7 DEF ListInv

\* The lists stay, and nothing more is deleted than was to be.
LEMMA ListStays ==
  ASSUME ListInv, UNCHANGED <<db, list, posted>>, Deleting' = Deleting
  PROVE  ListBehind'
  BY DEF ListInv, ListBehind

LEMMA DialogsStay ==
  ASSUME ListInv, UNCHANGED <<db, list, posted, dialogs>>, Deleting' = Deleting
  PROVE  DialogsFind'
  BY DEF ListInv, DialogsFind, IsPressed

LEMMA NoDialogs ==
  ASSUME \A k \in 1 .. Len(dialogs') : dialogs'[k].row = 0
  PROVE  DialogsFind'
  BY DEF DialogsFind, IsPressed

LEMMA ListUnchanged ==
  ASSUME ListInv, UNCHANGED <<db, tasks, list, posted, dialogs>>
  PROVE  ListBehind' /\ DialogsFind'
<1>1. Deleting' = Deleting
  BY DEF Deleting
<1> QED BY <1>1, ListStays, DialogsStay

\* A task that deletes nothing is made.
LEMMA ListKeeps ==
  ASSUME ListInv, UNCHANGED <<db, list, posted, dialogs>>, NEW t \in Store!Task, Deletes(t) = {},
         tasks' = Append(tasks, t)
  PROVE  ListBehind' /\ DialogsFind'
<1>1. Deleting' = Deleting
  BY DeletingMade DEF ListInv
<1> QED BY <1>1, ListStays, DialogsStay

LEMMA ListRunTask ==
  ASSUME ListInv, Store!RunTask
  PROVE  ListBehind' /\ DialogsFind'
<1>1. UNCHANGED <<list, posted, dialogs>>
  BY DEF Store!RunTask
<1>2. CASE db' = db /\ Deleting' = Deleting
  BY <1>1, <1>2, ListStays, DialogsStay
<1>3. ASSUME NEW t, Ran(t) PROVE ListBehind' /\ DialogsFind'
  <2>1. /\ db \in Db /\ db' \in Db /\ IsDone(db', db, t)
        /\ Deleting' \subseteq Deleting /\ Deletes(t) \subseteq Deleting
        /\ Deleting \subseteq Deleting' \cup Deletes(t)
    BY <1>3, ListTyped DEF ListInv, Ran
  <2>2. Behind(list', db', Deleting')
    BY <1>1, <2>1, BehindTask DEF ListInv, ListBehind
  <2>3. ASSUME NEW p \in 1 .. Len(posted) PROVE Behind(posted[p], db', {})
    <3>1. Behind(posted[p], db, {})
      BY DEF ListInv, ListBehind
    <3> QED BY <2>1, <3>1, BehindTask
  <2>4. ListBehind'
    BY <1>1, <2>2, <2>3 DEF ListBehind
  <2>5. ASSUME NEW k \in 1 .. Len(dialogs), dialogs[k].calm, dialogs[k].row # 0
        PROVE  IsPressed(dialogs[k], db', Deleting', list, posted)
    <3> DEFINE row == dialogs[k].row
               pressed == dialogs[k].pressed
               all == Store!getAllActions(db)
               new == Store!getAllActions(db')
    <3>1. /\ Deleting = {} /\ row \in 1 .. Len(all) /\ all[row].id = pressed
          /\ list[row].id = pressed
          /\ \A p \in 1 .. Len(posted) : row <= Len(posted[p]) => posted[p][row].id = pressed
      BY <2>5 DEF ListInv, DialogsFind, IsPressed
    <3>2. SameIds(all, new)
      BY <2>1, <3>1, PlacesKept
    <3>3. row \in 1 .. Len(new) /\ new[row].id = pressed
      BY <3>1, <3>2 DEF SameIds
    <3>4. Deleting' = {}
      BY <2>1, <3>1
    <3> QED BY <3>1, <3>3, <3>4 DEF IsPressed
  <2>6. DialogsFind'
    BY <1>1, <2>5 DEF DialogsFind, IsPressed
  <2> QED BY <2>4, <2>6
<1> QED BY <1>2, <1>3, TaskRan DEF ListInv

LEMMA ListQuery ==
  ASSUME ListInv, Store!Query
  PROVE  ListBehind' /\ DialogsFind'
<1> DEFINE all == Store!getAllActions(db)
<1>1. db \in Db /\ all \in Seq(Store!Script)
  BY ListTyped, ReadRows DEF ListInv
<1>2. posted' = <<all>> /\ UNCHANGED <<db, tasks, list, dialogs>>
  BY DEF Store!Query
<1>3. Deleting' = Deleting
  BY <1>2 DEF Deleting
<1>4. Behind(all, db, {})
  BY <1>1, BehindAll
<1> HIDE DEF all
<1>5. Len(posted') = 1 /\ posted'[1] = all
  BY <1>2
<1>6. ListBehind'
  <2>1. ASSUME NEW p \in 1 .. Len(posted') PROVE posted'[p] = all
    BY <1>5
  <2>2. Behind(list', db', Deleting')
    BY <1>2, <1>3 DEF ListInv, ListBehind
  <2> QED BY <1>2, <1>4, <2>1, <2>2 DEF ListBehind
<1>7. DialogsFind'
  <2>1. ASSUME NEW k \in 1 .. Len(dialogs) PROVE IsPressed(dialogs[k], db, Deleting, list, posted')
    <3>1. IsPressed(dialogs[k], db, Deleting, list, posted)
      BY DEF ListInv, DialogsFind
    <3>2. \A p \in 1 .. Len(posted') : posted'[p] = all
      BY <1>5
    <3> QED BY <3>1, <3>2 DEF IsPressed, all
  <2> QED BY <1>2, <1>3, <2>1 DEF DialogsFind
<1> QED BY <1>6, <1>7

LEMMA ListSetActions ==
  ASSUME ListInv, Store!setActions
  PROVE  ListBehind' /\ DialogsFind'
<1> DEFINE M == Len(posted[1])
<1>1. /\ list' = posted[1] /\ posted' = <<>> /\ 1 \in 1 .. Len(posted)
      /\ Len(dialogs') = Len(dialogs)
      /\ \A k \in 1 .. Len(dialogs) : dialogs'[k] = Laid(dialogs[k], M)
  BY LaidOut DEF ListInv
<1>2. UNCHANGED <<db, tasks>>
  BY DEF Store!setActions
<1>3. Deleting' = Deleting
  BY <1>2 DEF Deleting
<1>4. Len(posted') = 0
  BY <1>1, EmptySeq
<1>5. Behind(list', db', Deleting')
  <2>1. Behind(posted[1], db, {})
    BY <1>1 DEF ListInv, ListBehind
  <2> QED BY <1>1, <1>2, <2>1, BehindMore
<1>6. ListBehind'
  BY <1>4, <1>5 DEF ListBehind
<1>7. ASSUME NEW k \in 1 .. Len(dialogs)
      PROVE  IsPressed(dialogs'[k], db, Deleting, posted[1], <<>>)
  <2> DEFINE d == dialogs[k]
             e == dialogs'[k]
  <2>1. d \in Dialog(Len(list)) /\ Len(list) \in Nat /\ M \in Nat /\ d.row \in 0 .. Len(list)
    BY <1>1, ListTyped DEF ListInv
  <2>2. e.pressed = d.pressed /\ e.calm = d.calm /\ e.row = IF d.row > M THEN 0 ELSE d.row
    <3>1. e = Laid(d, M)
      BY <1>1
    <3> HIDE DEF d, e, M
    <3> QED BY <2>1, <3>1, LaidDialog
  <2>3. IsPressed(d, db, Deleting, list, posted)
    BY DEF ListInv, DialogsFind
  <2> HIDE DEF d, e
  <2>4. ASSUME e.calm, e.row # 0
        PROVE  d.calm /\ e.row = d.row /\ d.row # 0 /\ posted[1][d.row].id = d.pressed
    <3>1. d.calm /\ e.row = d.row /\ d.row # 0 /\ d.row <= M
      BY <2>1, <2>2, <2>4
    <3> QED BY <1>1, <2>3, <3>1 DEF IsPressed
  <2>5. Len(<<>>) = 0
    BY EmptySeq
  <2>6. IsPressed(e, db, Deleting, posted[1], <<>>)
    BY <2>2, <2>3, <2>4, <2>5 DEF IsPressed
  <2> QED BY <2>6 DEF e
<1>8. DialogsFind'
  BY <1>1, <1>2, <1>3, <1>7 DEF DialogsFind
<1> QED BY <1>6, <1>8

LEMMA ListBtnRemove ==
  ASSUME ListInv, NEW row \in DOMAIN list, Store!btnRemove(row)
  PROVE  ListBehind' /\ DialogsFind'
<1> DEFINE d == [row |-> row, pressed |-> list[row].id, calm |-> Store!NoRemovals]
           all == Store!getAllActions(db)
           N == Len(dialogs)
<1>1. /\ UNCHANGED <<db, tasks, list, posted>> /\ dialogs' = Append(dialogs, d)
  BY DEF Store!btnRemove
<1>2. Deleting' = Deleting
  BY <1>1 DEF Deleting
<1>3. ListBehind'
  BY <1>1, <1>2, ListStays
<1>4. /\ db \in Db /\ row \in 1 .. Len(list) /\ list \in Seq(Store!Script) /\ Len(list) \in Nat
      /\ \A p \in 1 .. Len(posted) : posted[p] \in Seq(Store!Script) /\ Len(posted[p]) \in Nat
  BY ListTyped DEF ListInv
<1>5. IsPressed(d, db, Deleting, list, posted)
  <2>1. SUFFICES ASSUME Store!NoRemovals PROVE IsPressed(d, db, Deleting, list, posted)
    BY DEF IsPressed
  <2>2. Deleting = {}
    <3>1. \A n \in 1 .. Len(tasks) : tasks[n].op # "delete"
      BY <2>1, ListTyped DEF ListInv, Store!NoRemovals
    <3>2. \A n \in 1 .. Len(tasks) : Deletes(tasks[n]) = {}
      BY <3>1 DEF Deletes
    <3> QED BY <3>2 DEF Deleting
  <2>3. ASSUME NEW s \in Seq(Store!Script), s \in {list} \cup Store!ToSet(posted), Behind(s, db, {})
        PROVE  SameIds(s, all)
    <3>1. DOMAIN s = 1 .. Len(s)
      BY <2>3, LenProperties
    <3>2. \A i \in 1 .. Len(s) : s[i].id \in DOMAIN db.rows
      BY <2>1, <2>3, <3>1 DEF Store!NoRemovals
    <3>3. Ids(s) \subseteq DOMAIN db.rows
      BY <3>2 DEF Ids
    <3> QED BY <1>4, <2>3, <3>3, BehindBegins
  <2>4. SameIds(list, all)
    <3>1. Behind(list, db, {})
      BY <2>2 DEF ListInv, ListBehind
    <3> QED BY <1>4, <2>3, <3>1
  <2>5. ASSUME NEW p \in 1 .. Len(posted) PROVE SameIds(posted[p], all)
    <3>1. Behind(posted[p], db, {})
      BY DEF ListInv, ListBehind
    <3>2. posted[p] \in Store!ToSet(posted)
      BY ListTyped DEF ListInv, Store!ToSet
    <3> QED BY <1>4, <2>3, <3>1, <3>2
  <2>6. row \in 1 .. Len(all) /\ all[row].id = list[row].id
    BY <1>4, <2>4 DEF SameIds
  <2>7. ASSUME NEW p \in 1 .. Len(posted), row <= Len(posted[p])
        PROVE posted[p][row].id = list[row].id
    <3>1. row \in 1 .. Len(posted[p])
      BY <1>4, <2>7
    <3> QED BY <2>5, <2>6, <3>1 DEF SameIds
  <2> HIDE DEF all
  <2> QED BY <2>2, <2>6, <2>7 DEF IsPressed, all
<1>6. d \in Dialog(Len(list))
  <2>1. list[row].id \in Nat /\ Store!NoRemovals \in BOOLEAN
    BY <1>4, ScriptIds DEF Store!NoRemovals
  <2> QED BY <1>4, <2>1 DEF Dialog
<1> HIDE DEF d
<1>7. N \in Nat /\ Len(dialogs') = N + 1 /\ dialogs'[N + 1] = d
        /\ \A k \in 1 .. N : dialogs'[k] = dialogs[k]
  BY <1>1, <1>6, ListTyped, AppendProperties DEF ListInv
<1>8. ASSUME NEW k \in 1 .. N + 1 PROVE IsPressed(dialogs'[k], db, Deleting, list, posted)
  <2>1. CASE k = N + 1
    BY <1>5, <1>7, <2>1
  <2>2. CASE k # N + 1
    <3>1. k \in 1 .. N
      BY <1>7, <2>2
    <3> QED BY <1>7, <3>1 DEF ListInv, DialogsFind
  <2> QED BY <2>1, <2>2
<1>9. DialogsFind'
  BY <1>1, <1>2, <1>7, <1>8 DEF DialogsFind
<1> QED BY <1>3, <1>9

LEMMA ListDismiss ==
  ASSUME ListInv, Store!Dismiss
  PROVE  ListBehind' /\ DialogsFind'
<1>1. UNCHANGED <<db, tasks, list, posted>> /\ dialogs # <<>> /\ dialogs' = Store!Front(dialogs)
  BY DEF Store!Dismiss
<1>2. Deleting' = Deleting
  BY <1>1 DEF Deleting
<1>3. ListBehind'
  BY <1>1, <1>2, ListStays
<1>4. /\ Len(dialogs') = Len(dialogs) - 1 /\ Len(dialogs) \in Nat \ {0}
      /\ \A k \in 1 .. Len(dialogs) - 1 : dialogs'[k] = dialogs[k]
  BY <1>1, ListTyped, StoreFront DEF ListInv
<1>5. \A k \in 1 .. Len(dialogs') : k \in 1 .. Len(dialogs) /\ dialogs'[k] = dialogs[k]
  BY <1>4
<1>6. DialogsFind'
  BY <1>1, <1>2, <1>5 DEF ListInv, DialogsFind
<1> QED BY <1>3, <1>6

LEMMA ListRemoveItem ==
  ASSUME ListInv, Store!removeItem
  PROVE  ListBehind' /\ DialogsFind'
<1> DEFINE row == Store!Last(dialogs).row
           t == [op |-> "delete", id |-> list[row].id]
<1>1. /\ row \in 1 .. Len(list) /\ list' = Store!RemoveAt(list, row)
      /\ t \in Store!Task /\ tasks' = Append(tasks, t)
      /\ \A k \in 1 .. Len(dialogs') : dialogs'[k].row = 0
  BY Confirmed DEF ListInv
<1>2. UNCHANGED <<db, posted>>
  BY DEF Store!removeItem
<1>3. Deletes(t) = {list[row].id}
  BY DEF Deletes
<1> HIDE DEF t
<1>4. Deleting' = Deleting \cup {list[row].id}
  BY <1>1, <1>3, DeletingMade DEF ListInv
<1>5. Behind(list', db', Deleting')
  <2>1. list \in Seq(Store!Script) /\ Behind(list, db, Deleting)
    BY ListTyped DEF ListInv, ListBehind
  <2> HIDE DEF row
  <2> QED BY <1>1, <1>2, <1>4, <2>1, BehindRemoved
<1>6. ListBehind'
  BY <1>2, <1>5 DEF ListInv, ListBehind
<1> QED BY <1>1, <1>6, NoDialogs

LEMMA ListEnded ==
  ASSUME ListInv, Store!Ended
  PROVE  ListBehind' /\ DialogsFind'
<1>1. list' = <<>> /\ posted' = <<>> /\ dialogs' = <<>> /\ db' = db /\ Len(<<>>) = 0
  BY EmptySeq DEF Store!Ended
<1>2. Behind(<<>>, db, Deleting')
  <2>1. Sorted(<<>>) /\ Ids(<<>>) = {}
    BY <1>1 DEF Sorted, Ids
  <2>2. db.next \in Nat \ {0}
    BY ListTyped, DbFields DEF ListInv
  <2>3. 1 \in 1 .. db.next /\ 1 .. 1 - 1 = {}
    BY <2>2
  <2> QED BY <2>1, <2>3 DEF Behind
<1>3. ListBehind'
  BY <1>1, <1>2 DEF ListBehind
<1>4. DialogsFind'
  BY <1>1 DEF DialogsFind
<1> QED BY <1>3, <1>4

\* A save deletes nothing.
LEMMA DeletingSaved ==
  ASSUME StoreConstants, StoreTypes, screens # <<>>, Store!updateDatabase
  PROVE  Deleting' = Deleting
<1> DEFINE s == screens[Len(screens)]
           N == Len(tasks)
           us == tasks'
<1>1. /\ s \in Screen /\ N \in Nat /\ Len(us) = N + 1 /\ us[N + 1] = Saving(s)
      /\ \A n \in 1 .. N : us[n] = Raised(tasks[n], s)
  BY UpdateTypes
<1>2. \A n \in 1 .. N : tasks[n] \in Store!Task
  BY TasksTyped
<1>3. Deleting' = UNION {Deletes(us[n]) : n \in 1 .. N + 1}
  BY <1>1 DEF Deleting
<1> HIDE DEF s, us
<1>4. \A n \in 1 .. N : Deletes(us[n]) = Deletes(tasks[n])
  <2>1. TAKE n \in 1 .. N
  <2>2. CASE Own(tasks[n], s)
    <3>1. us[n].op = "update"
      BY <1>1, <1>2, <2>2, RaisedTask
    <3> QED BY <2>2, <3>1 DEF Deletes, Own
  <2>3. CASE ~Own(tasks[n], s)
    BY <1>1, <1>2, <2>3, RaisedTask
  <2> QED BY <2>2, <2>3
<1>5. Deletes(us[N + 1]) = {}
  BY <1>1 DEF Deletes, Saving
<1>6. UNION {Deletes(us[n]) : n \in 1 .. N + 1} = UNION {Deletes(tasks[n]) : n \in 1 .. N}
  <2>1. \A n \in 1 .. N : n \in 1 .. N + 1
    BY <1>1
  <2>2. \A n \in 1 .. N + 1 : n \in 1 .. N \/ n = N + 1
    BY <1>1
  <2> QED BY <1>4, <1>5, <2>1, <2>2
<1> QED BY <1>3, <1>6 DEF Deleting

LEMMA ListStep ==
  ASSUME StoreConstants, ListInv, [Store!Next]_(Store!vars)
  PROVE  ListInv'
<1>1. StoreTypes'
  BY StoreStepTypes DEF ListInv
<1>2. ListBehind' /\ DialogsFind'
  <2>1. CASE Store!onOpen
    <3> DEFINE t == [op |-> "populate"]
    <3>1. t \in Store!Task /\ Deletes(t) = {}
      BY DEF Store!Task, Deletes
    <3>2. tasks' = Append(tasks, t) /\ UNCHANGED <<db, posted, list, dialogs>>
      BY <2>1 DEF Store!onOpen
    <3> HIDE DEF t
    <3> QED BY <3>1, <3>2, ListKeeps
  <2>2. CASE Store!RunTask
    BY <2>2, ListRunTask
  <2>3. CASE Store!Query
    BY <2>3, ListQuery
  <2>4. CASE Store!setActions
    BY <2>4, ListSetActions
  <2>5. ASSUME NEW row \in DOMAIN list, Store!btnRemove(row) PROVE ListBehind' /\ DialogsFind'
    BY <2>5, ListBtnRemove
  <2>6. ASSUME NEW row \in DOMAIN list, Store!onClick(row) PROVE ListBehind' /\ DialogsFind'
    BY <2>6, ListUnchanged DEF Store!onClick, Store!Start
  <2>7. CASE Store!Dismiss
    BY <2>7, ListDismiss
  <2>8. CASE Store!removeItem
    BY <2>8, ListRemoveItem
  <2>9. CASE Store!removeItem_raises \/ Store!Kill
    BY <2>9, ListEnded DEF Store!removeItem_raises, Store!Kill
  <2>10. CASE Store!fab
    BY <2>10, ListUnchanged DEF Store!fab, Store!Start
  <2>11. CASE Store!Stop
    BY <2>11, ListUnchanged DEF Store!Stop
  <2>12. CASE screens # <<>> /\ Store!Leave
    BY <2>12, ListUnchanged DEF Store!Leave
  <2>13. CASE screens # <<>> /\ Store!AddScript
    <3>1. /\ NewScript \in Store!Task /\ tasks' = Append(tasks, NewScript)
          /\ UNCHANGED <<db, posted, list, dialogs>>
      BY <2>13, AddScriptTypes DEF ListInv
    <3>2. Deletes(NewScript) = {}
      BY DEF Deletes, NewScript
    <3> QED BY <3>1, <3>2, ListKeeps
  <2>14. CASE screens # <<>> /\ Store!updateDatabase
    <3>1. Deleting' = Deleting /\ UNCHANGED <<db, posted, list, dialogs>>
      BY <2>14, DeletingSaved, UpdateTypes DEF ListInv
    <3> QED BY <3>1, ListStays, DialogsStay
  <2>15. CASE screens # <<>> /\ Store!Recreate
    BY <2>15, ListUnchanged DEF Store!Recreate
  <2>16. CASE UNCHANGED Store!vars
    BY <2>16, ListUnchanged DEF Store!vars
  <2> QED BY <2>1, <2>2, <2>3, <2>4, <2>5, <2>6, <2>7, <2>8, <2>9, <2>10, <2>11, <2>12, <2>13,
             <2>14, <2>15, <2>16
          DEF Store!Next
<1> QED BY <1>1, <1>2 DEF ListInv

LEMMA ListInvariant ==
  ASSUME StoreConstants
  PROVE  Store!Spec => []ListInv
<1>1. Store!Init => ListInv
  BY ListStart
<1>2. ListInv /\ [Store!Next]_(Store!vars) => ListInv'
  BY ListStep
<1> QED BY <1>1, <1>2, PTL DEF Store!Spec

\* Confirming a removal deletes the script whose button was pressed, whatever the list
\* is given while the dialog is open, unless a removal was on its way when it was
\* pressed (removeItem in ActionListAdapter).
THEOREM PressedIsRemoved ==
  ASSUME StoreConstants
  PROVE  Store!Spec => Store!RemovesPressed
<1>1. ASSUME ListInv, Store!removeItem, Store!Last(dialogs).calm
      PROVE  Store!Last(tasks').id = Store!Last(dialogs).pressed
  <2> DEFINE d == Store!Last(dialogs)
  <2>1. /\ d.row # 0 /\ Store!Last(tasks') = [op |-> "delete", id |-> list[d.row].id]
        /\ dialogs[Len(dialogs)] = d /\ Len(dialogs) \in 1 .. Len(dialogs)
    BY <1>1, Confirmed DEF ListInv
  <2>2. IsPressed(d, db, Deleting, list, posted)
    BY <1>1, <2>1 DEF ListInv, DialogsFind
  <2>3. list[d.row].id = d.pressed
    BY <1>1, <2>1, <2>2 DEF IsPressed
  <2> QED BY <2>1, <2>3
<1>2. ListInv /\ [Store!Next]_(Store!vars)
        => [Store!removeItem /\ Store!Last(dialogs).calm
              => Store!Last(tasks').id = Store!Last(dialogs).pressed]_(Store!vars)
  BY <1>1
<1> QED BY <1>2, ListInvariant, PTL DEF Store!Spec, Store!RemovesPressed

-----------------------------------------------------------------------------
(***************************************************************************)
(* The list comes to show what is stored.                                  *)
(***************************************************************************)
Items(s) == {s[i] : i \in 1 .. Len(s)}

\* The scripts of a table.
RowOf(d, id) == [id |-> id, v |-> d.rows[id]]
Rows(d) == {RowOf(d, id) : id \in DOMAIN d.rows}

\* What the list will show if nothing is read again.
Latest == IF posted = <<>> THEN list ELSE posted[1]

\* Unless it will be read again, it has no script but as the table has it, and every one
\* but those to be deleted.
LatestIsCurrent ==
  ~dirty =>
    /\ Items(Latest) \subseteq Rows(db)
    /\ \A id \in DOMAIN db.rows \ Deleting : RowOf(db, id) \in Items(Latest)

LatestInv == ListInv /\ LatestIsCurrent

LEMMA ReadItems ==
  ASSUME NEW d \in Db
  PROVE  Items(Store!getAllActions(d)) = Rows(d)
<1> DEFINE s == Store!getAllActions(d)
<1>1. /\ s \in Seq(Store!Script) /\ Ids(s) = DOMAIN d.rows
      /\ \A i \in 1 .. Len(s) : s[i].v = d.rows[s[i].id]
  BY ReadRows, ReadValues DEF Valued
<1> HIDE DEF s
<1>2. \A i \in 1 .. Len(s) : s[i] \in Store!Script
  BY <1>1, ScriptIds
<1>3. \A i \in 1 .. Len(s) : s[i] = RowOf(d, s[i].id) /\ s[i].id \in DOMAIN d.rows
  BY <1>1, <1>2 DEF Store!Script, RowOf, Ids
<1>4. Items(s) \subseteq Rows(d)
  BY <1>3, Zenon DEF Items, Rows
<1>5. ASSUME NEW id \in DOMAIN d.rows PROVE RowOf(d, id) \in Items(s)
  <2>1. PICK i \in 1 .. Len(s) : id = s[i].id
    BY <1>1 DEF Ids
  <2>2. s[i] = RowOf(d, id)
    BY <1>3, <2>1
  <2> QED BY <2>2 DEF Items
<1>6. Items(s) = Rows(d)
  BY <1>4, <1>5 DEF Rows
<1> QED BY <1>6 DEF s

\* A list with the scripts of a table in the order of their ids is the one that is read.
LEMMA ListsSame ==
  ASSUME NEW d \in Db, NEW s \in Seq(Store!Script), Sorted(s), Items(s) = Rows(d)
  PROVE  s = Store!getAllActions(d)
<1> DEFINE t == Store!getAllActions(d)
<1>1. /\ t \in Seq(Store!Script) /\ Sorted(t) /\ Ids(t) = DOMAIN d.rows
      /\ Items(t) = Rows(d)
  BY ReadRows, ReadItems
<1>2. d.next \in Nat \ {0} /\ DOMAIN d.rows \subseteq 1 .. d.next - 1
  BY DbFields
<1> HIDE DEF t
<1>3. /\ \A i \in 1 .. Len(s) : s[i] \in Rows(d)
      /\ \A i \in 1 .. Len(t) : t[i] \in Rows(d)
  BY <1>1 DEF Items
<1>4. \A e \in Rows(d) : e.id \in DOMAIN d.rows /\ e = RowOf(d, e.id)
  BY DEF Rows, RowOf
<1>5. Ids(s) = DOMAIN d.rows
  <2>1. Ids(s) \subseteq DOMAIN d.rows
    BY <1>3, <1>4 DEF Ids
  <2>2. ASSUME NEW id \in DOMAIN d.rows PROVE id \in Ids(s)
    <3>1. RowOf(d, id) \in Items(s) /\ RowOf(d, id).id = id
      BY DEF Rows, RowOf
    <3>2. PICK i \in 1 .. Len(s) : s[i] = RowOf(d, id)
      BY <3>1 DEF Items
    <3> QED BY <3>1, <3>2 DEF Ids
  <2> QED BY <2>1, <2>2
<1>6. /\ \A i \in 1 .. Len(s) : s[i].id >= 1
      /\ \A i \in 1 .. Len(t) : t[i].id >= 1
  <2>1. \A id \in DOMAIN d.rows : id >= 1
    BY <1>2
  <2> QED BY <1>3, <1>4, <2>1
<1>7. Ids(s) = Ids(t) \cap (1 .. d.next - 1) /\ Ids(t) = Ids(s) \cap (1 .. d.next - 1)
      /\ d.next \in Int
  BY <1>1, <1>2, <1>5
<1>8. \A i \in 1 .. Len(s) : i \in 1 .. Len(t) /\ s[i].id = t[i].id
  BY <1>1, <1>6, <1>7, SamePlaces
<1>9. \A i \in 1 .. Len(t) : i \in 1 .. Len(s) /\ t[i].id = s[i].id
  BY <1>1, <1>6, <1>7, SamePlaces
<1>10. Len(s) \in Nat /\ Len(t) \in Nat
  BY <1>1, LenProperties
<1>11. Len(s) = Len(t)
  BY <1>8, <1>9, <1>10, SameBound
<1>12. \A i \in 1 .. Len(s) : s[i] = t[i]
  BY <1>3, <1>4, <1>8
<1>13. s = t
  BY <1>1, <1>11, <1>12, SeqEqual
<1> QED BY <1>13 DEF t

\* What is left of a list.
LEMMA ItemsLeft ==
  ASSUME NEW S, NEW s \in Seq(S), NEW k \in 1 .. Len(s)
  PROVE  LET u == Store!RemoveAt(s, k)
         IN  Items(u) \subseteq Items(s) /\ Items(s) \subseteq Items(u) \cup {s[k]}
<1> DEFINE u == Store!RemoveAt(s, k)
           N == Len(s)
<1>1. /\ Len(u) = N - 1 /\ N \in Nat /\ k \in 1 .. N
      /\ \A i \in 1 .. N - 1 : u[i] = IF i < k THEN s[i] ELSE s[i + 1]
  BY StoreRemoveAt, LenProperties
<1>2. Items(s) = {s[i] : i \in 1 .. N}
  BY DEF Items
<1> HIDE DEF u, N
<1>3. Items(u) = {u[i] : i \in 1 .. N - 1}
  BY <1>1 DEF Items
<1>4. ASSUME NEW i \in 1 .. N - 1 PROVE u[i] \in Items(s)
  <2>1. i \in 1 .. N /\ i + 1 \in 1 .. N /\ (u[i] = s[i] \/ u[i] = s[i + 1])
    BY <1>1
  <2> QED BY <1>2, <2>1
<1>5. ASSUME NEW i \in 1 .. N, i # k PROVE s[i] \in Items(u)
  <2>1. CASE i < k
    <3>1. i \in 1 .. N - 1 /\ u[i] = s[i]
      BY <1>1, <2>1
    <3> QED BY <1>3, <3>1
  <2>2. CASE i > k
    <3>1. i - 1 \in 1 .. N - 1 /\ ~(i - 1 < k) /\ (i - 1) + 1 = i
      BY <1>1, <2>2
    <3>2. u[i - 1] = s[i]
      BY <1>1, <3>1
    <3> QED BY <1>3, <3>1, <3>2
  <2> QED BY <1>1, <1>5, <2>1, <2>2
<1>6. Items(u) \subseteq Items(s)
  BY <1>3, <1>4
<1>7. Items(s) \subseteq Items(u) \cup {s[k]}
  BY <1>2, <1>5
<1> QED BY <1>6, <1>7 DEF u

LEMMA LatestStays ==
  ASSUME LatestIsCurrent, UNCHANGED <<db, dirty, posted, list>>, Deleting \subseteq Deleting'
  PROVE  LatestIsCurrent'
<1>1. Latest' = Latest
  BY DEF Latest
<1> QED BY <1>1 DEF LatestIsCurrent

LEMMA LatestMade ==
  ASSUME LatestInv, NEW t \in Store!Task, tasks' = Append(tasks, t),
         UNCHANGED <<db, dirty, posted, list>>
  PROVE  LatestIsCurrent'
<1>1. Deleting \subseteq Deleting'
  BY DeletingMade DEF LatestInv, ListInv
<1> QED BY <1>1, LatestStays DEF LatestInv

LEMMA LatestUnchanged ==
  ASSUME LatestInv, UNCHANGED <<db, tasks, dirty, posted, list>>
  PROVE  LatestIsCurrent'
<1>1. Deleting' = Deleting
  BY DEF Deleting
<1> QED BY <1>1, LatestStays DEF LatestInv

\* A task that changes nothing deletes nothing that the table has.
LEMMA LatestRunTask ==
  ASSUME LatestInv, Store!RunTask
  PROVE  LatestIsCurrent'
<1>1. UNCHANGED <<list, posted>> /\ Latest' = Latest
  BY DEF Store!RunTask, Latest
<1>2. ~dirty' => ~dirty /\ db'.rows = db.rows
  BY DEF Store!RunTask, Store!Written
<1>3. SUFFICES ASSUME ~dirty'
               PROVE  \A id \in DOMAIN db.rows \ Deleting' : id \notin Deleting
  BY <1>1, <1>2 DEF LatestInv, LatestIsCurrent, Rows, RowOf
<1>4. CASE Deleting' = Deleting
  BY <1>4
<1>5. ASSUME NEW t, Ran(t), NEW id \in DOMAIN db.rows, id \in Deletes(t) PROVE FALSE
  <2>1. t.op = "delete" /\ id = t.id
    BY <1>5 DEF Deletes
  <2>2. IsDeleted(db', db, id)
    BY <1>5, <2>1 DEF Ran, IsDone
  <2> QED BY <1>2, <1>3, <1>5, <2>2 DEF IsDeleted
<1> QED BY <1>4, <1>5, TaskRan DEF Ran, LatestInv, ListInv

LEMMA LatestQuery ==
  ASSUME LatestInv, Store!Query
  PROVE  LatestIsCurrent'
<1> DEFINE all == Store!getAllActions(db)
<1>1. posted' = <<all>> /\ UNCHANGED db
  BY DEF Store!Query
<1>2. db \in Db
  BY ListTyped DEF LatestInv, ListInv
<1>3. Items(all) = Rows(db)
  BY <1>2, ReadItems
<1> HIDE DEF all
<1>4. Latest' = all
  BY <1>1 DEF Latest
<1> QED BY <1>1, <1>3, <1>4 DEF LatestIsCurrent, Rows

LEMMA LatestSetActions ==
  ASSUME LatestInv, Store!setActions
  PROVE  LatestIsCurrent'
<1>1. UNCHANGED <<db, tasks, dirty>> /\ posted # <<>> /\ list' = posted[1] /\ posted' = <<>>
  BY DEF Store!setActions
<1>2. Deleting' = Deleting
  BY <1>1 DEF Deleting
<1>3. Latest' = Latest
  BY <1>1 DEF Latest
<1> QED BY <1>1, <1>2, <1>3 DEF LatestInv, LatestIsCurrent

LEMMA LatestRemoveItem ==
  ASSUME LatestInv, Store!removeItem
  PROVE  LatestIsCurrent'
<1> DEFINE row == Store!Last(dialogs).row
           t == [op |-> "delete", id |-> list[row].id]
<1>1. /\ row \in 1 .. Len(list) /\ list' = Store!RemoveAt(list, row)
      /\ t \in Store!Task /\ tasks' = Append(tasks, t)
  BY Confirmed DEF LatestInv, ListInv
<1>2. UNCHANGED <<db, dirty, posted>>
  BY DEF Store!removeItem
<1>3. Deletes(t) = {list[row].id}
  BY DEF Deletes
<1> HIDE DEF t
<1>4. Deleting' = Deleting \cup {list[row].id}
  BY <1>1, <1>3, DeletingMade DEF LatestInv, ListInv
<1>5. list \in Seq(Store!Script)
  BY ListTyped DEF LatestInv, ListInv
<1> HIDE DEF row
<1>6. Items(list') \subseteq Items(list) /\ Items(list) \subseteq Items(list') \cup {list[row]}
  BY <1>1, <1>5, ItemsLeft
<1>7. SUFFICES ASSUME ~dirty
               PROVE  /\ Items(Latest') \subseteq Rows(db)
                      /\ \A id \in DOMAIN db.rows \ Deleting' : RowOf(db, id) \in Items(Latest')
  BY <1>2 DEF LatestIsCurrent, Rows, RowOf
<1>8. /\ Items(Latest) \subseteq Rows(db)
      /\ \A id \in DOMAIN db.rows \ Deleting : RowOf(db, id) \in Items(Latest)
  BY <1>7 DEF LatestInv, LatestIsCurrent
<1>9. CASE posted # <<>>
  <2>1. Latest' = Latest
    BY <1>2, <1>9 DEF Latest
  <2> QED BY <1>4, <1>8, <2>1
<1>10. CASE posted = <<>>
  <2>1. Latest = list /\ Latest' = list'
    BY <1>2, <1>10 DEF Latest
  <2>2. \A id : RowOf(db, id).id = id
    BY DEF RowOf
  <2> QED BY <1>4, <1>6, <1>8, <2>1, <2>2
<1> QED BY <1>9, <1>10

LEMMA LatestStep ==
  ASSUME StoreConstants, LatestInv, [Store!Next]_(Store!vars)
  PROVE  LatestInv'
<1>1. ListInv'
  BY ListStep DEF LatestInv
<1>2. LatestIsCurrent'
  <2>1. CASE Store!onOpen
    <3> DEFINE t == [op |-> "populate"]
    <3>1. t \in Store!Task
      BY DEF Store!Task
    <3>2. tasks' = Append(tasks, t) /\ UNCHANGED <<db, dirty, posted, list>>
      BY <2>1 DEF Store!onOpen
    <3> HIDE DEF t
    <3> QED BY <3>1, <3>2, LatestMade
  <2>2. CASE Store!RunTask
    BY <2>2, LatestRunTask
  <2>3. CASE Store!Query
    BY <2>3, LatestQuery
  <2>4. CASE Store!setActions
    BY <2>4, LatestSetActions
  <2>5. ASSUME NEW row \in DOMAIN list, Store!btnRemove(row) PROVE LatestIsCurrent'
    BY <2>5, LatestUnchanged DEF Store!btnRemove
  <2>6. ASSUME NEW row \in DOMAIN list, Store!onClick(row) PROVE LatestIsCurrent'
    BY <2>6, LatestUnchanged DEF Store!onClick, Store!Start
  <2>7. CASE Store!Dismiss
    BY <2>7, LatestUnchanged DEF Store!Dismiss
  <2>8. CASE Store!removeItem
    BY <2>8, LatestRemoveItem
  <2>9. CASE Store!removeItem_raises \/ Store!Kill
    <3>1. dirty' = TRUE
      BY <2>9 DEF Store!removeItem_raises, Store!Kill, Store!Ended
    <3> QED BY <3>1 DEF LatestIsCurrent
  <2>10. CASE Store!fab
    BY <2>10, LatestUnchanged DEF Store!fab, Store!Start
  <2>11. CASE Store!Stop
    BY <2>11, LatestUnchanged DEF Store!Stop
  <2>12. CASE screens # <<>> /\ Store!Leave
    BY <2>12, LatestUnchanged DEF Store!Leave
  <2>13. CASE screens # <<>> /\ Store!AddScript
    <3>1. /\ NewScript \in Store!Task /\ tasks' = Append(tasks, NewScript)
          /\ UNCHANGED <<db, dirty, posted, list>>
      BY <2>13, AddScriptTypes DEF LatestInv, ListInv
    <3> QED BY <3>1, LatestMade
  <2>14. CASE screens # <<>> /\ Store!updateDatabase
    <3>1. Deleting' = Deleting /\ UNCHANGED <<db, dirty, posted, list>>
      BY <2>14, DeletingSaved, UpdateTypes DEF LatestInv, ListInv
    <3> QED BY <3>1, LatestStays DEF LatestInv
  <2>15. CASE screens # <<>> /\ Store!Recreate
    BY <2>15, LatestUnchanged DEF Store!Recreate
  <2>16. CASE UNCHANGED Store!vars
    BY <2>16, LatestUnchanged DEF Store!vars
  <2> QED BY <2>1, <2>2, <2>3, <2>4, <2>5, <2>6, <2>7, <2>8, <2>9, <2>10, <2>11, <2>12, <2>13,
             <2>14, <2>15, <2>16
          DEF Store!Next
<1> QED BY <1>1, <1>2 DEF LatestInv

\* Once every task is done, the table read again and the list given, the screen shows
\* what is stored: no change to the table, by a task made before or after it was read,
\* is left out (the LiveData of getAllActions, setActions and removeItem).
THEOREM ListIsCurrent ==
  ASSUME StoreConstants
  PROVE  Store!Spec =>
           [](tasks = <<>> /\ ~dirty /\ posted = <<>> => list = Store!getAllActions(db))
<1>1. ASSUME LatestInv, tasks = <<>>, ~dirty, posted = <<>>
      PROVE  list = Store!getAllActions(db)
  <2>1. db \in Db /\ list \in Seq(Store!Script) /\ Sorted(list)
    BY <1>1, ListTyped DEF LatestInv, ListInv, ListBehind, Behind
  <2>2. Deleting = {}
    BY <1>1, EmptySeq DEF Deleting
  <2>3. Items(list) = Rows(db)
    BY <1>1, <2>2 DEF LatestInv, LatestIsCurrent, Latest, Rows
  <2> QED BY <2>1, <2>3, ListsSame
<1>2. StoreConstants /\ Store!Init => LatestInv
  BY ListStart DEF Store!Init, LatestInv, LatestIsCurrent
<1> DEFINE Shown == tasks = <<>> /\ ~dirty /\ posted = <<>> => list = Store!getAllActions(db)
<1>3. LatestInv => Shown
  BY <1>1
<1> HIDE DEF Shown
<1>4. Store!Spec => []Shown
  BY <1>2, <1>3, LatestStep, PTL DEF Store!Spec
<1> QED BY <1>4 DEF Shown

-----------------------------------------------------------------------------
(***************************************************************************)
(* What is on the disk, and what the tasks are to make of it.              *)
(***************************************************************************)
\* What the store's states are for WriteBehind.
Pending == [n \in DOMAIN Store!Tables |-> Store!Tables[n].rows]

PendingOf(d, ts) == [n \in 1 .. Len(ts) + 1 |-> Store!After(d, ts)[n].rows]

LEMMA PendingSeq ==
  ASSUME NEW d \in Db, NEW ts \in Seq(Store!Task)
  PROVE  /\ PendingOf(d, ts) \in Seq(AnyRows) /\ Len(PendingOf(d, ts)) = Len(ts) + 1
         /\ Len(ts) \in Nat
         /\ \A n \in 1 .. Len(ts) + 1 :
              Store!After(d, ts)[n] \in Db /\ PendingOf(d, ts)[n] = Store!After(d, ts)[n].rows
         /\ DOMAIN Store!After(d, ts) = 1 .. Len(ts) + 1 /\ Store!After(d, ts)[1] = d
<1> DEFINE N == Len(ts)
           a == Store!After(d, ts)
           f == [n \in 1 .. N + 1 |-> a[n].rows]
<1>1. N \in Nat
  BY LenProperties
<1>2. a \in [1 .. N + 1 -> Db] /\ a[1] = d
  BY AfterRun DEF IsAfter
<1> HIDE DEF a, N
<1>3. \A n \in 1 .. N + 1 : a[n] \in Db /\ f[n] = a[n].rows
  BY <1>2
<1>4. \A e \in Db : e.rows \in AnyRows
  BY DEF Db
<1>5. f \in [1 .. N + 1 -> AnyRows]
  BY <1>3, <1>4
<1> HIDE DEF f
<1>6. N + 1 \in Nat
  BY <1>1
<1>7. f \in Seq(AnyRows) /\ Len(f) = N + 1
  BY <1>5, <1>6, Mapped
<1>8. PendingOf(d, ts) = f
  BY DEF PendingOf, f, a, N
<1>9. DOMAIN a = 1 .. N + 1
  BY <1>2
<1> QED BY <1>1, <1>2, <1>3, <1>7, <1>8, <1>9 DEF a, N

LEMMA NonePending ==
  ASSUME NEW d \in Db
  PROVE  PendingOf(d, <<>>) = <<d.rows>>
<1> DEFINE none == <<>>
           q == PendingOf(d, none)
           r == <<d.rows>>
<1>1. none \in Seq(Store!Task) /\ Len(none) = 0
  BY EmptySeq
<1>2. r \in Seq(AnyRows) /\ Len(r) = 1 /\ r[1] = d.rows
  <2>1. d.rows \in AnyRows
    BY DEF Db
  <2> QED BY <2>1
<1> HIDE DEF none, r
<1>3. /\ q \in Seq(AnyRows) /\ Len(q) = Len(none) + 1
      /\ \A n \in 1 .. Len(none) + 1 : q[n] = Store!After(d, none)[n].rows
      /\ Store!After(d, none)[1] = d
  <2>1. /\ q \in Seq(AnyRows) /\ Len(q) = Len(none) + 1 /\ Len(none) \in Nat
        /\ \A n \in 1 .. Len(none) + 1 :
             Store!After(d, none)[n] \in Db /\ q[n] = Store!After(d, none)[n].rows
        /\ DOMAIN Store!After(d, none) = 1 .. Len(none) + 1 /\ Store!After(d, none)[1] = d
    BY <1>1, PendingSeq, Zenon
  <2> HIDE DEF q
  <2> QED BY <2>1
<1> HIDE DEF q
<1>4. Len(q) = 1 /\ q[1] = d.rows
  <2>1. Len(none) + 1 = 1 /\ 1 \in 1 .. Len(none) + 1
    BY <1>1
  <2> QED BY <1>3, <2>1
<1>5. \A n \in 1 .. Len(q) : q[n] = r[n]
  <2>1. TAKE n \in 1 .. Len(q)
  <2>2. n = 1
    BY <1>4
  <2> QED BY <1>2, <1>4, <2>2
<1>6. q = r
  BY <1>2, <1>3, <1>4, <1>5, SeqEqual
<1> QED BY <1>6 DEF q, r, none

LEMMA PendingIs ==
  ASSUME StoreTypes
  PROVE  Pending = PendingOf(db, tasks)
<1>1. db \in Db /\ tasks \in Seq(Store!Task)
  BY ListTyped
<1>2. DOMAIN Store!After(db, tasks) = 1 .. Len(tasks) + 1
  BY <1>1, PendingSeq
<1> QED BY <1>2 DEF Pending, PendingOf, Store!Tables

LEMMA PendingIsAfter ==
  ASSUME StoreTypes'
  PROVE  Pending' = PendingOf(db', tasks')
<1>1. db' \in Db /\ tasks' \in Seq(Store!Task)
  BY DEF StoreTypes, TableTypes
<1>2. DOMAIN Store!After(db', tasks') = 1 .. Len(tasks') + 1
  BY <1>1, PendingSeq
<1> QED BY <1>2 DEF Pending, PendingOf, Store!Tables

LEMMA TableRows ==
  ASSUME NEW d \in Db
  PROVE  Store!Disk!IsTable(d.rows)
<1>1. /\ DOMAIN d.rows \subseteq 1 .. d.next - 1 /\ d.rows = [id \in DOMAIN d.rows |-> d.rows[id]]
      /\ d.next \in Nat \ {0} /\ \A id \in DOMAIN d.rows : id \in Nat /\ d.rows[id] \in Nat
  BY DbFields
<1>2. \A id \in DOMAIN d.rows : id \in Nat \ {0}
  BY <1>1
<1> QED BY <1>1, <1>2 DEF Store!Disk!IsTable

\* Tables that agree but at one id.
LEMMA AgreeElsewhere ==
  ASSUME NEW r, NEW s, NEW x,
         \A id \in DOMAIN r \cup DOMAIN s :
           id # x => id \in DOMAIN r /\ id \in DOMAIN s /\ r[id] = s[id]
  PROVE  Store!Disk!Edited(r, s, x)
<1>1. ASSUME NEW row \in (Store!Disk!Rows(r) \ Store!Disk!Rows(s))
               \cup (Store!Disk!Rows(s) \ Store!Disk!Rows(r))
      PROVE  row[1] = x
  <2>1. CASE row \in Store!Disk!Rows(r) /\ row \notin Store!Disk!Rows(s)
    <3>1. PICK id \in DOMAIN r : row = <<id, r[id]>>
      BY <2>1 DEF Store!Disk!Rows
    <3>2. ~(id \in DOMAIN s /\ r[id] = s[id])
      BY <2>1, <3>1 DEF Store!Disk!Rows
    <3> QED BY <3>1, <3>2
  <2>2. CASE row \in Store!Disk!Rows(s) /\ row \notin Store!Disk!Rows(r)
    <3>1. PICK id \in DOMAIN s : row = <<id, s[id]>>
      BY <2>2 DEF Store!Disk!Rows
    <3>2. ~(id \in DOMAIN r /\ r[id] = s[id])
      BY <2>2, <3>1 DEF Store!Disk!Rows
    <3> QED BY <3>1, <3>2
  <2> QED BY <1>1, <2>1, <2>2
<1> QED BY <1>1 DEF Store!Disk!Edited

\* A row that is saved, if the table has it.
LEMMA UpdateEdits ==
  ASSUME NEW d, NEW e, NEW id, NEW v, IsUpdated(e, d, id, v)
  PROVE  Store!Disk!Edited(d.rows, e.rows, IF id \in DOMAIN e.rows THEN id ELSE 0)
<1> DEFINE x == IF id \in DOMAIN e.rows THEN id ELSE 0
<1>1. DOMAIN e.rows = DOMAIN d.rows /\ \A i \in DOMAIN d.rows : i # id => e.rows[i] = d.rows[i]
  BY DEF IsUpdated
<1>2. \A i \in DOMAIN d.rows \cup DOMAIN e.rows : i # x => i # id
  BY <1>1
<1> HIDE DEF x
<1>3. Store!Disk!Edited(d.rows, e.rows, x)
  BY <1>1, <1>2, AgreeElsewhere
<1> QED BY <1>3 DEF x

\* A task changes one row, if any.
LEMMA DoneEdits ==
  ASSUME NEW d \in Db, NEW e \in Db, NEW t, IsDone(e, d, t)
  PROVE  \E x \in DOMAIN e.rows \cup DOMAIN d.rows \cup {0} : Store!Disk!Edited(d.rows, e.rows, x)
<1>1. CASE \E v : IsInserted(e, d, v)
  <2>1. /\ d.next \in DOMAIN e.rows /\ DOMAIN e.rows = DOMAIN d.rows \cup {d.next}
        /\ \A id \in DOMAIN d.rows : e.rows[id] = d.rows[id]
    BY <1>1 DEF IsInserted
  <2> DEFINE x == d.next
  <2>2. \A id \in DOMAIN d.rows \cup DOMAIN e.rows :
          id # x => id \in DOMAIN d.rows /\ id \in DOMAIN e.rows /\ d.rows[id] = e.rows[id]
    BY <2>1
  <2>3. x \in DOMAIN e.rows
    BY <2>1
  <2> HIDE DEF x
  <2>4. Store!Disk!Edited(d.rows, e.rows, x)
    BY <2>2, AgreeElsewhere
  <2> QED BY <2>3, <2>4
<1>2. CASE IsUpdated(e, d, t.id, t.v)
  <2> DEFINE x == IF t.id \in DOMAIN e.rows THEN t.id ELSE 0
  <2>1. x \in DOMAIN e.rows \cup DOMAIN d.rows \cup {0}
    OBVIOUS
  <2>2. Store!Disk!Edited(d.rows, e.rows, x)
    BY <1>2, UpdateEdits
  <2> HIDE DEF x
  <2> QED BY <2>1, <2>2
<1>3. CASE IsDeleted(e, d, t.id)
  <2> DEFINE x == IF t.id \in DOMAIN d.rows THEN t.id ELSE 0
  <2>1. DOMAIN e.rows = DOMAIN d.rows \ {t.id} /\ \A id \in DOMAIN e.rows : e.rows[id] = d.rows[id]
    BY <1>3 DEF IsDeleted
  <2>2. \A id \in DOMAIN d.rows \cup DOMAIN e.rows :
          id # x => id \in DOMAIN d.rows /\ id \in DOMAIN e.rows /\ d.rows[id] = e.rows[id]
    BY <2>1
  <2>3. x \in DOMAIN e.rows \cup DOMAIN d.rows \cup {0}
    OBVIOUS
  <2> HIDE DEF x
  <2>4. Store!Disk!Edited(d.rows, e.rows, x)
    BY <2>2, AgreeElsewhere
  <2> QED BY <2>3, <2>4
<1>4. CASE e = d
  <2>1. \A id \in DOMAIN d.rows \cup DOMAIN e.rows :
          id # 0 => id \in DOMAIN d.rows /\ id \in DOMAIN e.rows /\ d.rows[id] = e.rows[id]
    BY <1>4
  <2>2. Store!Disk!Edited(d.rows, e.rows, 0)
    BY <2>1, AgreeElsewhere
  <2> QED BY <2>2
<1> QED BY <1>1, <1>2, <1>3, <1>4 DEF IsDone

\* The tables after the k-th become one, which differs from each of them in one row.
LEMMA IsChange ==
  ASSUME NEW p \in Seq(AnyRows), NEW q \in Seq(AnyRows), Pending = p, Pending' = q,
         Len(q) = Len(p) + 1, NEW k \in 1 .. Len(p), NEW u, Store!Disk!IsTable(u),
         \A n \in 1 .. k : q[n] = p[n], \A n \in k + 1 .. Len(p) + 1 : q[n] = u,
         NEW x \in DOMAIN u \cup DOMAIN p[k] \cup {0},
         \A n \in k .. Len(p) : Store!Disk!Edited(p[n], u, x)
  PROVE  Store!Disk!Change
<1> DEFINE N == Len(p)
<1>1. N \in Nat /\ DOMAIN p = 1 .. N /\ k \in 1 .. N
  BY LenProperties
<1>2. N + 1 \in k + 1 .. N + 1 /\ \A n \in 1 .. N + 1 : IF n <= k THEN n \in 1 .. k
                                                           ELSE n \in k + 1 .. N + 1
  BY <1>1
<1>3. Store!Disk!Last(q) = u
  BY <1>2 DEF Store!Disk!Last
<1>4. q = [n \in 1 .. N + 1 |-> IF n <= k THEN p[n] ELSE u]
  <2>1. q = [n \in 1 .. N + 1 |-> q[n]]
    <3>1. q \in [1 .. Len(q) -> AnyRows]
      BY LenProperties
    <3> QED BY <3>1
  <2> QED BY <1>2, <2>1
<1>5. \E old \in {p}, new \in {q} :
        /\ Len(new) = Len(old) + 1 /\ Store!Disk!IsTable(Store!Disk!Last(new))
        /\ \E i \in DOMAIN old :
             /\ new = [n \in 1 .. Len(old) + 1 |-> IF n <= i THEN old[n]
                                                             ELSE Store!Disk!Last(new)]
             /\ \E id \in DOMAIN Store!Disk!Last(new) \cup DOMAIN old[i] \cup {0} :
                  \A n \in i .. Len(old) : Store!Disk!Edited(old[n], Store!Disk!Last(new), id)
  BY <1>1, <1>3, <1>4
<1> QED BY <1>5 DEF Store!Disk!Change, Pending

\* What is pending now, and after a step.
LEMMA PendingNow ==
  ASSUME StoreTypes, StoreTypes'
  PROVE  /\ db \in Db /\ tasks \in Seq(Store!Task) /\ tasks' \in Seq(Store!Task)
         /\ Len(tasks) \in Nat /\ Len(tasks') \in Nat
         /\ Pending \in Seq(AnyRows) /\ Len(Pending) = Len(tasks) + 1
         /\ \A n \in 1 .. Len(tasks) + 1 : Pending[n] = Store!After(db, tasks)[n].rows
         /\ Pending' \in Seq(AnyRows) /\ Len(Pending') = Len(tasks') + 1
         /\ \A n \in 1 .. Len(tasks') + 1 : Pending'[n] = Store!After(db', tasks')[n].rows
<1>1. db \in Db /\ tasks \in Seq(Store!Task) /\ db' \in Db /\ tasks' \in Seq(Store!Task)
  BY DEF StoreTypes, TableTypes
<1>2. Pending = PendingOf(db, tasks) /\ Pending' = PendingOf(db', tasks')
  BY PendingIs, PendingIsAfter
<1> QED BY <1>1, <1>2, PendingSeq

\* A task that is made is a change.
LEMMA MadeIsChange ==
  ASSUME StoreTypes, StoreTypes', NEW t \in Store!Task, tasks' = Append(tasks, t), db' = db
  PROVE  Store!Disk!Change
<1> DEFINE N == Len(tasks)
           p == Pending
           q == Pending'
           us == Append(tasks, t)
           a == Store!After(db, tasks)
           b == Store!After(db, us)
           e == Store!Done(a[N + 1], t)
<1>1. /\ db \in Db /\ tasks \in Seq(Store!Task) /\ N \in Nat
      /\ p \in Seq(AnyRows) /\ Len(p) = N + 1 /\ \A n \in 1 .. N + 1 : p[n] = a[n].rows
      /\ q \in Seq(AnyRows) /\ Len(q) = Len(us) + 1
      /\ \A n \in 1 .. Len(us) + 1 : q[n] = b[n].rows
  BY PendingNow
<1>2. /\ Len(us) = N + 1 /\ \A n \in 1 .. N + 1 : b[n] = a[n]
      /\ b[N + 2] = e /\ a[N + 1] \in Db /\ e \in Db
  BY <1>1, AfterAppend
<1>3. IsDone(e, a[N + 1], t)
  BY <1>2, DoneIs
<1> HIDE DEF us, a, b, e, p, q, N
<1>4. /\ Len(q) = Len(p) + 1 /\ Len(q) = N + 2 /\ N + 1 \in 1 .. Len(p)
      /\ \A n \in 1 .. N + 1 : n \in 1 .. N + 2
      /\ \A n \in N + 1 + 1 .. Len(p) + 1 : n = N + 2
      /\ \A n \in N + 1 .. Len(p) : n = N + 1
      /\ N + 2 \in 1 .. N + 2 /\ Len(us) + 1 = N + 2
  BY <1>1, <1>2
<1>5. \A n \in 1 .. N + 1 : q[n] = p[n]
  BY <1>1, <1>2, <1>4
<1>6. q[N + 2] = e.rows /\ p[N + 1] = a[N + 1].rows
  BY <1>1, <1>2, <1>4
<1>7. Store!Disk!IsTable(e.rows)
  BY <1>2, TableRows
<1>8. PICK x \in DOMAIN e.rows \cup DOMAIN p[N + 1] \cup {0} :
        Store!Disk!Edited(p[N + 1], e.rows, x)
  BY <1>2, <1>3, <1>6, DoneEdits
<1>9. \A n \in N + 1 + 1 .. Len(p) + 1 : q[n] = e.rows
  BY <1>4, <1>6
<1>10. \A n \in N + 1 .. Len(p) : Store!Disk!Edited(p[n], e.rows, x)
  BY <1>4, <1>8
<1>11. Pending = p /\ Pending' = q
  BY DEF p, q
<1> QED BY <1>1, <1>4, <1>5, <1>7, <1>8, <1>9, <1>10, <1>11, IsChange

\* A save is a change of its row, and takes the place of the changes that its screen's
\* saves before it were to make.
LEMMA SaveIsChange ==
  ASSUME StoreConstants, SavesInv, StoreTypes', screens # <<>>, Store!updateDatabase
  PROVE  Store!Disk!Change
<1> DEFINE N == Len(tasks)
           s == screens[Len(screens)]
           p == Pending
           q == Pending'
           a == Store!After(db, tasks)
           b == Store!After(db, tasks')
<1>1. Len(tasks') = N + 1 /\ db' = db
  BY UpdateTypes DEF SavesInv
<1>2. /\ db \in Db /\ tasks \in Seq(Store!Task) /\ tasks' \in Seq(Store!Task) /\ N \in Nat
      /\ p \in Seq(AnyRows) /\ Len(p) = N + 1 /\ \A n \in 1 .. N + 1 : p[n] = a[n].rows
      /\ q \in Seq(AnyRows) /\ Len(q) = Len(tasks') + 1
      /\ \A n \in 1 .. Len(tasks') + 1 : q[n] = b[n].rows
  BY <1>1, PendingNow DEF SavesInv
<1>3. IsRaised(tasks', tasks, OfTop(s), s.id, edits + 1)
  BY TopRaises
<1>4. PICK m \in OfTop(s), t \in Db :
        m \in 1 .. N + 1 /\ Replaced(a, b, N, m, t, s.id, edits + 1)
  BY <1>2, <1>3, RaisedAfter
<1> DEFINE x == IF s.id \in DOMAIN t.rows THEN s.id ELSE 0
<1> HIDE DEF N, s, p, q, a, b
<1>5. /\ \A n \in 1 .. m : b[n] = a[n]
      /\ \A n \in m + 1 .. N + 2 : b[n] = t
      /\ \A n \in m .. N + 1 : IsUpdated(t, a[n], s.id, edits + 1)
  BY <1>4 DEF Replaced
<1>6. /\ Len(q) = Len(p) + 1 /\ Len(q) = N + 2 /\ m \in 1 .. Len(p) /\ Len(p) + 1 = N + 2
      /\ \A n \in 1 .. m : n \in 1 .. N + 1 /\ n \in 1 .. N + 2
      /\ \A n \in m + 1 .. N + 2 : n \in 1 .. N + 2
      /\ \A n \in m .. N + 1 : n \in 1 .. N + 1
  BY <1>1, <1>2, <1>4
<1>7. \A n \in 1 .. m : q[n] = p[n]
  BY <1>1, <1>2, <1>5, <1>6
<1>8. \A n \in m + 1 .. Len(p) + 1 : q[n] = t.rows
  BY <1>1, <1>2, <1>5, <1>6
<1>9. \A n \in m .. Len(p) : Store!Disk!Edited(p[n], t.rows, x)
  <2>1. TAKE n \in m .. Len(p)
  <2>2. p[n] = a[n].rows /\ IsUpdated(t, a[n], s.id, edits + 1)
    BY <1>2, <1>5, <1>6
  <2> QED BY <2>2, UpdateEdits
<1>10. Store!Disk!IsTable(t.rows)
  BY TableRows
<1>11. x \in DOMAIN t.rows \cup DOMAIN p[m] \cup {0}
  OBVIOUS
<1>12. Pending = p /\ Pending' = q
  BY DEF p, q
<1> HIDE DEF x
<1> QED BY <1>2, <1>6, <1>7, <1>8, <1>9, <1>10, <1>11, <1>12, IsChange

\* A task that is run is on the disk, or nothing is changed yet.
LEMMA RunIsSync ==
  ASSUME StoreTypes, StoreTypes', Store!RunTask
  PROVE  Pending' = Pending \/ Store!Disk!Sync
<1> DEFINE N == Len(tasks)
<1>1. db \in Db /\ tasks \in Seq(Store!Task) /\ N \in Nat /\ tasks # <<>>
  BY ListTyped DEF Store!RunTask
<1>2. Pending = PendingOf(db, tasks) /\ Pending' = PendingOf(db', tasks')
  BY PendingIs, PendingIsAfter
<1>3. CASE Head(tasks).op = "populate" /\ DOMAIN db.rows = {}
  <2> DEFINE us == [tasks EXCEPT ![1] = TheSample]
  <2>1. tasks' = us /\ db' = db
    BY <1>3 DEF Store!RunTask, TheSample
  <2>2. Len(us) = N /\ Store!After(db, us) = Store!After(db, tasks)
    BY <1>1, <1>3, AfterSample
  <2> HIDE DEF us
  <2>3. PendingOf(db, us) = PendingOf(db, tasks)
    BY <2>2 DEF PendingOf
  <2> QED BY <1>2, <2>1, <2>3
<1>4. CASE ~(Head(tasks).op = "populate" /\ DOMAIN db.rows = {})
  <2> DEFINE us == Tail(tasks)
             e == Store!Done(db, Head(tasks))
             p == PendingOf(db, tasks)
             q == PendingOf(e, us)
  <2>1. tasks' = us /\ db' = e
    BY <1>4 DEF Store!RunTask, Store!Written
  <2>2. /\ us \in Seq(Store!Task) /\ Len(us) = N - 1 /\ N \in Nat \ {0}
        /\ \A n \in 1 .. N : Store!After(e, us)[n] = Store!After(db, tasks)[n + 1]
    BY <1>1, AfterTail
  <2>3. e \in Db
    BY <2>1 DEF StoreTypes, TableTypes
  <2>4. p \in Seq(AnyRows) /\ Len(p) = N + 1
          /\ \A n \in 1 .. N + 1 : p[n] = Store!After(db, tasks)[n].rows
    BY <1>1, PendingSeq
  <2> HIDE DEF e, us
  <2>5. q \in Seq(AnyRows) /\ Len(q) = N /\ \A n \in 1 .. N : q[n] = Store!After(e, us)[n].rows
    <3>1. /\ q \in Seq(AnyRows) /\ Len(q) = Len(us) + 1
          /\ \A n \in 1 .. Len(us) + 1 : q[n] = Store!After(e, us)[n].rows
      BY <2>2, <2>3, PendingSeq
    <3>2. Len(us) + 1 = N
      BY <2>2
    <3> QED BY <3>1, <3>2
  <2> HIDE DEF p, q
  <2>6. p # <<>>
    BY <2>2, <2>4, EmptySeq
  <2>7. /\ Tail(p) \in Seq(AnyRows) /\ Len(Tail(p)) = N
        /\ \A n \in 1 .. N : Tail(p)[n] = p[n + 1]
    <3>1. /\ Tail(p) \in Seq(AnyRows) /\ Len(Tail(p)) = Len(p) - 1
          /\ \A n \in 1 .. Len(Tail(p)) : Tail(p)[n] = p[n + 1]
      BY <2>4, <2>6, HeadTailProperties
    <3>2. Len(p) - 1 = N
      BY <2>2, <2>4
    <3> QED BY <3>1, <3>2
  <2>8. \A n \in 1 .. N : q[n] = Tail(p)[n]
    <3>1. TAKE n \in 1 .. N
    <3>2. n + 1 \in 1 .. N + 1
      BY <2>2
    <3> QED BY <2>2, <2>4, <2>5, <2>7, <3>2
  <2>9. q = Tail(p)
    BY <2>5, <2>7, <2>8, SeqEqual
  <2>10. Len(p) > 1
    BY <2>2, <2>4
  <2>11. Pending = p /\ Pending' = q
    BY <1>2, <2>1 DEF p, q
  <2> QED BY <2>9, <2>10, <2>11 DEF Store!Disk!Sync, Pending
<1> QED BY <1>3, <1>4

\* An end of the process is a crash.
LEMMA EndIsCrash ==
  ASSUME StoreTypes, StoreTypes', Store!Ended
  PROVE  Pending' = Pending \/ Store!Disk!Crash
<1> DEFINE N == Len(tasks)
           p == PendingOf(db, tasks)
<1>1. db \in Db /\ tasks \in Seq(Store!Task) /\ N \in Nat
  BY ListTyped
<1>2. db' = db /\ tasks' = <<>>
  BY DEF Store!Ended
<1>3. Pending = p /\ Pending' = PendingOf(db, <<>>)
  BY <1>2, PendingIs, PendingIsAfter
<1>4. Pending' = <<db.rows>>
  BY <1>1, <1>3, NonePending
<1>5. CASE N = 0
  <2>1. tasks = <<>>
    BY <1>1, <1>5, EmptySeq
  <2> QED BY <1>3, <2>1
<1>6. CASE N # 0
  <2>1. p \in Seq(AnyRows) /\ Len(p) = N + 1 /\ p[1] = db.rows
    <3>1. 1 \in 1 .. N + 1
      BY <1>1
    <3> QED BY <1>1, <3>1, PendingSeq
  <2> HIDE DEF p
  <2>2. Len(p) > 1 /\ Head(p) = db.rows
    BY <1>1, <1>6, <2>1
  <2> QED BY <1>3, <1>4, <2>2 DEF Store!Disk!Crash, Pending
<1> QED BY <1>5, <1>6

LEMMA PendingStart == StoreConstants /\ Store!Init => Store!Disk!Init
<1> SUFFICES ASSUME StoreConstants, Store!Init PROVE Store!Disk!Init
  OBVIOUS
<1> DEFINE p == Pending
<1>1. StoreTypes
  BY StoreStart
<1>2. db \in Db
  BY <1>1, ListTyped
<1>3. tasks = <<>>
  BY DEF Store!Init
<1>4. p = <<db.rows>>
  BY <1>1, <1>2, <1>3, PendingIs, NonePending
<1> HIDE DEF p
<1>5. p = <<p[1]>> /\ p[1] = db.rows
  BY <1>4
<1>6. Store!Disk!IsTable(p[1])
  BY <1>2, <1>5, TableRows
<1> QED BY <1>5, <1>6 DEF Store!Disk!Init, p, Pending

LEMMA PendingStep ==
  ASSUME StoreConstants, SavesInv, StoreTypes', [Store!Next]_(Store!vars)
  PROVE  [Store!Disk!Next]_Pending
<1>1. ASSUME UNCHANGED <<db, tasks>> PROVE Pending' = Pending
  BY <1>1, PendingIs, PendingIsAfter DEF SavesInv
<1>2. ASSUME NEW t \in Store!Task, tasks' = Append(tasks, t), db' = db PROVE Store!Disk!Next
  BY <1>2, MadeIsChange DEF SavesInv, Store!Disk!Next
<1>3. CASE Store!onOpen
  <2> DEFINE t == [op |-> "populate"]
  <2>1. t \in Store!Task
    BY DEF Store!Task
  <2>2. tasks' = Append(tasks, t) /\ db' = db
    BY <1>3 DEF Store!onOpen
  <2> HIDE DEF t
  <2> QED BY <1>2, <2>1, <2>2
<1>4. CASE Store!RunTask
  BY <1>4, RunIsSync DEF SavesInv, Store!Disk!Next
<1>5. CASE Store!Query
  BY <1>1, <1>5 DEF Store!Query
<1>6. CASE Store!setActions
  BY <1>1, <1>6 DEF Store!setActions
<1>7. ASSUME NEW row \in DOMAIN list, Store!btnRemove(row) PROVE [Store!Disk!Next]_Pending
  BY <1>1, <1>7 DEF Store!btnRemove
<1>8. ASSUME NEW row \in DOMAIN list, Store!onClick(row) PROVE [Store!Disk!Next]_Pending
  BY <1>1, <1>8 DEF Store!onClick, Store!Start
<1>9. CASE Store!Dismiss
  BY <1>1, <1>9 DEF Store!Dismiss
<1>10. CASE Store!removeItem
  <2> DEFINE t == [op |-> "delete", id |-> list[Store!Last(dialogs).row].id]
  <2>1. t \in Store!Task /\ tasks' = Append(tasks, t)
    BY <1>10, Confirmed DEF SavesInv
  <2>2. db' = db
    BY <1>10 DEF Store!removeItem
  <2> HIDE DEF t
  <2> QED BY <1>2, <2>1, <2>2
<1>11. CASE Store!removeItem_raises \/ Store!Kill
  <2>1. Store!Ended
    BY <1>11 DEF Store!removeItem_raises, Store!Kill
  <2> QED BY <2>1, EndIsCrash DEF SavesInv, Store!Disk!Next
<1>12. CASE Store!fab
  BY <1>1, <1>12 DEF Store!fab, Store!Start
<1>13. CASE Store!Stop
  BY <1>1, <1>13 DEF Store!Stop
<1>14. CASE screens # <<>> /\ Store!Leave
  BY <1>1, <1>14 DEF Store!Leave
<1>15. CASE screens # <<>> /\ Store!AddScript
  <2>1. NewScript \in Store!Task /\ tasks' = Append(tasks, NewScript) /\ db' = db
    BY <1>15, AddScriptTypes DEF SavesInv
  <2> QED BY <1>2, <2>1
<1>16. CASE screens # <<>> /\ Store!updateDatabase
  BY <1>16, SaveIsChange DEF Store!Disk!Next
<1>17. CASE screens # <<>> /\ Store!Recreate
  BY <1>1, <1>17 DEF Store!Recreate
<1>18. CASE UNCHANGED Store!vars
  BY <1>1, <1>18 DEF Store!vars
<1> QED BY <1>3, <1>4, <1>5, <1>6, <1>7, <1>8, <1>9, <1>10, <1>11, <1>12, <1>13, <1>14, <1>15,
           <1>16, <1>17, <1>18
        DEF Store!Next

\* The disk and the tasks, whatever they are, implement a table that is changed one row
\* at a time and written in the order of the changes, those of one row after the other
\* perhaps at once, an end of the process taking back the latest: the safety of
\* WriteBehind.  That changes reach the disk is model-checked.
THEOREM WritesBehind ==
  ASSUME StoreConstants
  PROVE  Store!Spec => Store!Disk!Init /\ [][Store!Disk!Next]_Pending
<1>1. Store!Init => Store!Disk!Init
  BY PendingStart
<1>2. SavesInv => StoreTypes
  BY DEF SavesInv
<1>3. SavesInv /\ StoreTypes' /\ [Store!Next]_(Store!vars) => [Store!Disk!Next]_Pending
  BY PendingStep
<1> QED BY <1>1, <1>2, <1>3, SavesInvariant, PTL DEF Store!Spec

=============================================================================
