------------------------------ MODULE Dashboard ------------------------------
(***************************************************************************)
(* The web page (templates/index.html, static/js/app.js) that monitors the *)
(* test server.  When it is loaded, when the server broadcasts "refresh" on*)
(* the page's socket and when its button is clicked, it asks for each part *)
(* of the server's state with a request of its own; whatever answer comes  *)
(* in is shown in the place of the one before.  The requests travel on     *)
(* connections of their own: they may reach the server, and their answers  *)
(* the page, in any order.  A socket that is not connected, which it is not*)
(* yet when the page has loaded, gets no broadcast.                        *)
(*                                                                         *)
(* Pages share nothing but the server, so one page is modelled.            *)
(***************************************************************************)
EXTENDS Integers, Sequences, BagsExt, Bags, FiniteSets

CONSTANTS
  NumMotors, Low, High, Home, Junk, Requests, MaxRequests,   \* of the server
  Parts,        \* the parts shown: "states", "actions", "choreography"
  MaxAsked,     \* bound: times the page asks for all parts
  MaxFailures   \* bound: socket disconnections and failed requests

ASSUME DashboardAssumption ==
  /\ Parts \subseteq {"states", "actions", "choreography"}
  /\ MaxAsked \in Nat \ {0} /\ MaxFailures \in Nat

VARIABLES
  states, led, actions, choreography, refreshes, answer, handled, unlisted,
  connected,   \* the page's socket
  events,      \* broadcasts on their way to the page
  asked,       \* times the page has asked for all parts
  failures,    \* disconnections and failed requests so far
  flying,      \* by part: the bag of requests on their way, as the server answered them
  shown,       \* the text of each part on the page
  newest,      \* history: the latest of the answers received for each part
  missed       \* history: the page was not told of something since it last asked

Server == INSTANCE TestServer

servervars == <<states, led, actions, choreography, refreshes, answer, handled, unlisted>>
pagevars   == <<connected, events, asked, failures, flying, shown, newest, missed>>
vars == <<servervars, pagevars>>

\* What the server's probe of a part returns, and when.
Probed(part) ==
  [at |-> handled,
   value |-> [states |-> <<states, led>>,
              actions |-> actions, choreography |-> choreography][part]]

Nothing == [at |-> -1, value |-> <<>>]

-----------------------------------------------------------------------------
(***************************************************************************)
(* The server handles a request of some client.                            *)
(***************************************************************************)
Changed == <<states, led, actions, choreography>>' # <<states, led, actions, choreography>>

\* Mutated form of Handle: the broadcasts of all time are counted again.
Handle_recounts(r) ==
  /\ Server!Handle(r)
  /\ LET told == refreshes' - refreshes
     IN  /\ events' = IF connected THEN events + refreshes' ELSE events
         /\ missed' = (missed \/ (Changed /\ (~connected \/ (told = 0 /\ answer' = "500"))))
  /\ UNCHANGED <<connected, asked, failures, flying, shown, newest>>

\* A change that is not broadcast because its handler raised is missed.
Handle(r) ==
  /\ Server!Handle(r)
  /\ LET told == refreshes' - refreshes
     IN  /\ events' = IF connected THEN events + told ELSE events
         /\ missed' = (missed \/ (Changed /\ (~connected \/ (told = 0 /\ answer' = "500"))))
  /\ UNCHANGED <<connected, asked, failures, flying, shown, newest>>

-----------------------------------------------------------------------------
(***************************************************************************)
(* The page.                                                               *)
(***************************************************************************)

\* refresh in app.js: one request for each part.
refresh ==
  /\ asked < MaxAsked
  /\ asked' = asked + 1
  /\ flying' = [part \in Parts |-> BagAdd(flying[part], Nothing)]
  /\ missed' = FALSE
  /\ UNCHANGED <<servervars, connected, failures, shown, newest>>

\* Mutated form of on_refresh: a page that is still waiting does not ask again.
on_refresh_debounced ==
  /\ connected /\ events > 0
  /\ events' = events - 1
  /\ IF \E part \in Parts : flying[part] # EmptyBag
     THEN UNCHANGED <<servervars, connected, asked, failures, flying, shown, newest, missed>>
     ELSE refresh

on_refresh ==
  /\ connected /\ events > 0
  /\ refresh
  /\ events' = events - 1

on_click == refresh /\ UNCHANGED events

connect ==
  /\ ~connected
  /\ connected' = TRUE
  /\ UNCHANGED <<servervars, events, asked, failures, flying, shown, newest, missed>>

\* What was on its way on the socket is gone with it.
disconnect ==
  /\ connected /\ failures < MaxFailures
  /\ connected' = FALSE
  /\ failures' = failures + 1
  /\ events' = 0
  /\ missed' = (missed \/ events > 0)
  /\ UNCHANGED <<servervars, asked, flying, shown, newest>>

-----------------------------------------------------------------------------
(***************************************************************************)
(* A request of the page is answered, its answer arrives, or it fails (the *)
(* page has no error callback).                                            *)
(***************************************************************************)
probe(part) ==
  /\ BagIn(Nothing, flying[part])
  /\ flying' = [flying EXCEPT ![part] = BagAdd(BagRemove(@, Nothing), Probed(part))]
  /\ UNCHANGED <<servervars, connected, events, asked, failures, shown, newest, missed>>

success(part, got) ==
  /\ got # Nothing
  /\ flying' = [flying EXCEPT ![part] = BagRemove(@, got)]
  /\ shown' = [shown EXCEPT ![part] = got]
  /\ newest' = [newest EXCEPT ![part] = IF got.at >= @.at THEN got ELSE @]
  /\ UNCHANGED <<servervars, connected, events, asked, failures, missed>>

fail(part, got) ==
  /\ failures < MaxFailures
  /\ failures' = failures + 1
  /\ flying' = [flying EXCEPT ![part] = BagRemove(@, got)]
  /\ missed' = TRUE
  /\ UNCHANGED <<servervars, connected, events, asked, shown, newest>>

Init ==
  /\ Server!Init
  /\ connected = FALSE /\ events = 0
  /\ asked = 1 /\ flying = [part \in Parts |-> SetToBag({Nothing})]
  /\ failures = 0
  /\ shown = [part \in Parts |-> Nothing] /\ newest = shown
  /\ missed = FALSE

Settle ==
  \E part \in Parts :
    probe(part) \/ \E got \in BagToSet(flying[part]) : success(part, got)

Next ==
  \/ \E r \in Requests : Handle(r)
  \/ on_refresh \/ on_click
  \/ connect \/ disconnect
  \/ Settle
  \/ \E part \in Parts : \E got \in BagToSet(flying[part]) : fail(part, got)

\* Broadcasts reach the page, and requests that do not fail are answered.
Spec == Init /\ [][Next]_vars /\ WF_vars(Settle) /\ WF_vars(on_refresh)

-----------------------------------------------------------------------------
\* The elements of a bag, each with its copies told apart.
Copies(B) == UNION {{<<e, i>> : i \in 1 .. B[e]} : e \in DOMAIN B}

\* No broadcast is told twice: no more wait than requests were handled.  And no
\* request is answered twice: no more are on their way to a part than the page made.
TypeOK ==
  /\ Server!TypeOK
  /\ connected \in BOOLEAN /\ missed \in BOOLEAN
  /\ events \in 0 .. MaxRequests
  /\ asked \in 1 .. MaxAsked /\ failures \in 0 .. MaxFailures
  /\ DOMAIN shown = Parts /\ DOMAIN newest = Parts
  /\ \A part \in Parts : IsABag(flying[part]) /\ Cardinality(Copies(flying[part])) <= asked

\* Nothing is on its way to the page.
Quiet == events = 0 /\ \A part \in Parts : flying[part] = EmptyBag

\* A page that has missed nothing since it last asked has been sent, once
\* nothing is on its way to it, what the server holds now: every change of the
\* server is told after it is made, and asked for after it is told.
KeptUp ==
  Quiet /\ ~missed => \A part \in Parts : newest[part].value = Probed(part).value

\* Broadcasts and answers do come in, so that once the server is left alone the
\* page has been sent its last state, unless it missed something or the bound
\* on its requests leaves a broadcast unanswered.
CatchesUp ==
  <>[](missed \/ events > 0 \/ \A part \in Parts : newest[part].value = Probed(part).value)

\* "shows actors' states": when nothing is on its way the page shows the
\* server's states.  An answer that was overtaken by a later one replaces it.
ShowsStates ==
  Quiet /\ ~missed /\ connected => shown["states"].value = Probed("states").value

=============================================================================
