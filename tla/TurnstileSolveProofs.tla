----------------------- MODULE TurnstileSolveProofs ------------------------
(***************************************************************************)
(* The safety of TurnstileSolve, for every set of solves and every capacity *)
(* of the channel.                                                          *)
(*                                                                          *)
(* That the interceptor knows of what Chrome holds back is not inductive:   *)
(* it rests on Fetch being on and the interceptor listening, or having      *)
(* lagged, for as long as the solve goes on (Armed), and on nothing having  *)
(* happened before (Fresh).                                                 *)
(***************************************************************************)
EXTENDS TurnstileSolve, TLAPS

Going == {"navigating", "polling"}

(* Before Fetch is on, the page has gone nowhere. *)
Fresh(s) ==
    stage[s] = "enabling" =>
        /\ task[s] = "none"
        /\ page[s] = "blank" /\ resource[s] = "none"
        /\ commands[s] \subseteq {"enable"}

(* While the solve goes on, requests are paused and reported. *)
Armed(s) ==
    stage[s] \in Going =>
        /\ s \in fetch
        /\ "disable" \notin commands[s]
        /\ task[s] \in {"receiving", "answering"} \/ s \in lagging

(* An interceptor runs from then on, until it ends or is stopped. *)
Running(s) == task[s] \in {"receiving", "answering"} => stage[s] \in Going \cup {"dropped"}

Known(s, q) ==
    \/ \E i \in DOMAIN unread[s] : unread[s][i] = [session |-> s, request |-> q]
    \/ q \in answers[s]
    \/ s \in lagging

Tracked(s) == stage[s] \in Going => \A q \in Paused(s) : Known(s, q)

(* What is in an event, or being answered, has happened. *)
Happened(s, q) ==
    /\ q = "document" => page[s] # "blank"
    /\ q = "resource" => resource[s] # "none"

EventsTrue ==
    \A s \in Solves : \A i \in DOMAIN unread[s] :
        Happened(unread[s][i].session, unread[s][i].request)

AnswersTrue == \A s \in Solves : \A q \in answers[s] : Happened(s, q)

(* Chrome has paused the navigation, if it was told to by the right URL.    *)
Spared(s) == stage[s] \in Going /\ s \in matched => page[s] # "site"

Local(s) == Fresh(s) /\ Armed(s) /\ Running(s) /\ Tracked(s) /\ Spared(s)

IInv ==
    /\ TypeOK
    /\ \A s \in Solves : Local(s)
    /\ EventsTrue
    /\ AnswersTrue

-----------------------------------------------------------------------------
LEMMA InitIInv == Init => IInv
BY TurnstileAssumption
DEF Init, IInv, TypeOK, Local, Fresh, Armed, Running, Tracked, Spared, Going, EventsTrue, AnswersTrue, Events,
    Stages, Paused

(* A new event reaches whoever listens, and what was known stays known.     *)
LEMMA EmitOne ==
  ASSUME TypeOK, NEW e \in Events, Emit(e), NEW s \in Solves
  PROVE  /\ unread'[s] \in Seq(Events) /\ Len(unread'[s]) <= Capacity
         /\ \A i \in DOMAIN unread'[s] :
                unread'[s][i] = e \/ \E j \in DOMAIN unread[s] : unread'[s][i] = unread[s][j]
         /\ \A i \in DOMAIN unread[s] :
                s \in lagging' \/ \E j \in DOMAIN unread'[s] : unread'[s][j] = unread[s][i]
         /\ s \in Subscribed => s \in lagging' \/ \E j \in DOMAIN unread'[s] : unread'[s][j] = e
<1> DEFINE full == {t \in Subscribed : Len(unread[t]) = Capacity \/ t \in lagging}
<1>1. /\ unread[s] \in Seq(Events) /\ Len(unread[s]) <= Capacity /\ Capacity \in Nat
      /\ lagging' = lagging \cup full
  BY TurnstileAssumption DEF TypeOK, Emit
<1>2. CASE s \in full
  <2>1. unread'[s] = <<>> /\ s \in lagging'
    BY <1>1, <1>2 DEF Emit
  <2> QED  BY <2>1, <1>1
<1>3. CASE s \in Subscribed \ full
  <2>1. unread'[s] = Append(unread[s], e) /\ Len(unread[s]) # Capacity
    BY <1>3 DEF Emit
  <2>2. /\ unread'[s] \in Seq(Events) /\ Len(unread'[s]) = Len(unread[s]) + 1
        /\ \A i \in 1 .. Len(unread[s]) : unread'[s][i] = unread[s][i]
        /\ unread'[s][Len(unread[s]) + 1] = e
    BY <1>1, <2>1
  <2>3. /\ Len(unread[s]) \in Nat /\ DOMAIN unread[s] = 1 .. Len(unread[s])
        /\ DOMAIN unread'[s] = 1 .. Len(unread[s]) + 1
    BY <1>1, <2>2
  <2>4. Len(unread'[s]) <= Capacity
    BY <1>1, <2>1, <2>2, <2>3
  <2>5. \A i \in DOMAIN unread'[s] :
          unread'[s][i] = e \/ \E j \in DOMAIN unread[s] : unread'[s][i] = unread[s][j]
    BY <2>2, <2>3
  <2>6. \A i \in DOMAIN unread[s] : \E j \in DOMAIN unread'[s] : unread'[s][j] = unread[s][i]
    BY <2>2, <2>3
  <2>7. \E j \in DOMAIN unread'[s] : unread'[s][j] = e
    BY <2>2, <2>3
  <2> QED  BY <2>2, <2>4, <2>5, <2>6, <2>7
<1>4. CASE s \notin Subscribed
  <2>1. unread'[s] = unread[s]
    BY <1>4 DEF Emit
  <2> QED  BY <1>1, <1>4, <2>1
<1> QED  BY <1>2, <1>3, <1>4

LEMMA EmitTypes ==
  ASSUME TypeOK, NEW e \in Events, Emit(e)
  PROVE  /\ unread' \in [Solves -> Seq(Events)]
         /\ \A s \in Solves : Len(unread'[s]) <= Capacity
         /\ lagging' \subseteq Solves /\ lagging \subseteq lagging'
<1>1. \A s \in Solves : unread'[s] \in Seq(Events) /\ Len(unread'[s]) <= Capacity
  BY EmitOne
<1>2. unread' = [s \in Solves |-> unread'[s]]
  BY DEF Emit
<1> QED  BY <1>1, <1>2 DEF TypeOK, Emit, Subscribed

(* A request that was known stays known, and the new event says what has    *)
(* happened.                                                                *)
LEMMA EmitKeeps ==
  ASSUME IInv, NEW e \in Events, Emit(e), answers' = answers, NEW s \in Solves, NEW q
  PROVE  Known(s, q) => Known(s, q)'
<1>1. TypeOK
  BY DEF IInv
<1> QED  BY <1>1, EmitOne, EmitTypes DEF Known

LEMMA EmitHappened ==
  ASSUME IInv, NEW e \in Events, Emit(e), Happened(e.session, e.request)',
         \A s \in Solves : page[s] # "blank" => page'[s] # "blank",
         \A s \in Solves : resource[s] # "none" => resource'[s] # "none"
  PROVE  EventsTrue'
<1>1. TypeOK /\ EventsTrue
  BY DEF IInv
<1>2. SUFFICES ASSUME NEW s \in Solves, NEW i \in DOMAIN unread'[s]
               PROVE  Happened(unread[s][i].session, unread[s][i].request)'
  BY DEF EventsTrue
<1>3. CASE unread'[s][i] = e
  BY <1>3 DEF Happened
<1>4. CASE \E j \in DOMAIN unread[s] : unread'[s][i] = unread[s][j]
  <2>1. PICK j \in DOMAIN unread[s] : unread'[s][i] = unread[s][j]
    BY <1>4
  <2>2. unread[s][j] \in Events
    BY <1>1 DEF TypeOK
  <2>3. unread[s][j].session \in Solves
    BY <2>2 DEF Events
  <2>4. Happened(unread[s][j].session, unread[s][j].request)
    BY <1>1 DEF EventsTrue
  <2> QED  BY <2>1, <2>3, <2>4 DEF Happened
<1> QED  BY <1>1, <1>3, <1>4, EmitOne

LEMMA NextType == TypeOK /\ [Next]_vars => TypeOK'
<1> SUFFICES ASSUME TypeOK, [Next]_vars PROVE TypeOK'
  OBVIOUS
<1> USE DEF TypeOK, Stages, Ask, solver, channel, chrome, Executes
<1>1. ASSUME NEW s \in Solves, Solver(s) \/ Drop(s)
      PROVE  TypeOK'
  <2>1. CASE Enabled(s)
    BY <2>1 DEF Enabled
  <2>2. CASE EnableFails(s)
    BY <2>2 DEF EnableFails
  <2>3. CASE Navigated(s)
    BY <2>3 DEF Navigated
  <2>4. CASE Finish(s)
    BY <2>4 DEF Finish
  <2>5. CASE DisableReturns(s)
    BY <2>5 DEF DisableReturns
  <2>6. CASE Drop(s)
    BY <2>6 DEF Drop
  <2> QED  BY <1>1, <2>1, <2>2, <2>3, <2>4, <2>5, <2>6 DEF Solver
<1>2. ASSUME NEW s \in Solves, Receive(s)
      PROVE  TypeOK'
  <2>1. /\ unread[s] \in Seq(Events) /\ Len(unread[s]) <= Capacity /\ unread[s] # <<>>
        /\ Capacity \in Nat
    BY <1>2, TurnstileAssumption DEF Receive
  <2>2. /\ Tail(unread[s]) \in Seq(Events) /\ Len(Tail(unread[s])) <= Capacity
        /\ Head(unread[s]) \in Events
    BY <2>1
  <2>3. /\ unread' = [unread EXCEPT ![s] = Tail(unread[s])]
        /\ UNCHANGED <<stage, commands, lagging, fetch, page, resource, matched>>
    BY <1>2 DEF Receive
  <2>4. Head(unread[s]).request \in {"document", "resource", "none"}
    BY <2>2 DEF Events
  <2>5. /\ task' \in [Solves -> {"none", "receiving", "answering", "ended", "aborted"}]
        /\ answers' \in [Solves -> SUBSET {"document", "resource"}]
    <3>1. CASE Head(unread[s]).session = s /\ Head(unread[s]).request # "none"
      <4>1. PICK q \in {"document", "resource"} :
              /\ task' = [task EXCEPT ![s] = "answering"]
              /\ answers' = [answers EXCEPT ![s] = @ \cup {q}]
        BY <1>2, <2>4, <3>1 DEF Receive
      <4> QED  BY <4>1
    <3>2. CASE ~(Head(unread[s]).session = s /\ Head(unread[s]).request # "none")
      BY <1>2, <3>2 DEF Receive
    <3> QED  BY <3>1, <3>2
  <2>6. unread' \in [Solves -> Seq(Events)] /\ \A t \in Solves : Len(unread'[t]) <= Capacity
    BY <2>2, <2>3
  <2> QED  BY <2>3, <2>5, <2>6
<1>3. ASSUME NEW s \in Solves, ReceiveFails(s) \/ AnswerReturns(s)
      PROVE  TypeOK'
  <2>1. CASE ReceiveFails(s)
    BY <2>1 DEF ReceiveFails
  <2>2. CASE AnswerReturns(s)
    BY <2>2 DEF AnswerReturns
  <2> QED  BY <1>3, <2>1, <2>2
<1>4. ASSUME NEW s \in Solves, RunEnable(s) \/ RunDisable(s)
      PROVE  TypeOK'
  <2>1. CASE RunEnable(s)
    BY <2>1 DEF RunEnable
  <2>2. CASE RunDisable(s)
    <3>1. /\ commands' = [commands EXCEPT ![s] = @ \ {"disable"}] /\ fetch' = fetch \ {s}
          /\ UNCHANGED <<stage, task, answers, unread, lagging, matched>>
      BY <2>2 DEF RunDisable
    <3>2. page' \in [Solves -> {"blank", "paused", "stub", "site"}]
      BY <2>2 DEF RunDisable
    <3>3. resource' \in [Solves -> {"none", "paused", "continued"}]
      BY <2>2 DEF RunDisable
    <3>4. commands' \in [Solves -> SUBSET {"enable", "navigate", "disable"}]
      BY <3>1
    <3> QED  BY <3>1, <3>2, <3>3, <3>4
  <2> QED  BY <1>4, <2>1, <2>2
<1>5. ASSUME NEW s \in Solves, NEW q \in {"document", "resource"}, RunAnswer(s, q)
      PROVE  TypeOK'
  BY <1>5 DEF RunAnswer
<1>6. ASSUME NEW s \in Solves, RunNavigate(s)
      PROVE  TypeOK'
  <2>1. CASE s \in fetch \cap matched
    <3>1. [session |-> s, request |-> "document"] \in Events
      BY DEF Events
    <3>2. Emit([session |-> s, request |-> "document"])
      BY <1>6, <2>1 DEF RunNavigate
    <3> QED  BY <1>6, <2>1, <3>1, <3>2, EmitTypes DEF RunNavigate
  <2>2. CASE s \notin fetch \cap matched
    BY <1>6, <2>2 DEF RunNavigate
  <2> QED  BY <2>1, <2>2
<1>7. ASSUME NEW s \in Solves, RequestResource(s)
      PROVE  TypeOK'
  <2>1. [session |-> s, request |-> "resource"] \in Events
    BY DEF Events
  <2> QED  BY <1>7, <2>1, EmitTypes DEF RequestResource
<1>8. ASSUME NEW s \in Solves, OtherEvent(s)
      PROVE  TypeOK'
  <2>1. [session |-> s, request |-> "none"] \in Events
    BY DEF Events
  <2> QED  BY <1>8, <2>1, EmitTypes DEF OtherEvent
<1>9. CASE UNCHANGED vars
  BY <1>9 DEF vars
<1> QED  BY <1>1, <1>2, <1>3, <1>4, <1>5, <1>6, <1>7, <1>8, <1>9
         DEF Next, Interceptor, Chrome, Finished

(* A step that leaves solve t alone, but for events, keeps what holds of it. *)
LEMMA OthersKeep ==
  ASSUME NEW t \in Solves, Local(t),
         stage'[t] = stage[t], task'[t] = task[t], commands'[t] \subseteq commands[t],
         answers'[t] = answers[t], page'[t] = page[t], resource'[t] = resource[t],
         t \in fetch => t \in fetch', lagging \subseteq lagging', matched' = matched,
         \A q \in {"document", "resource"} : Known(t, q) => Known(t, q)'
  PROVE  Local(t)'
<1>1. Fresh(t)' /\ Armed(t)' /\ Running(t)' /\ Spared(t)'
  BY DEF Local, Fresh, Armed, Running, Spared, Going
<1>2. Tracked(t)'
  BY DEF Local, Tracked, Paused
<1> QED  BY <1>1, <1>2 DEF Local

(* Without a new event, without an answer, and with no document gone blank, *)
(* what has happened stays so.                                              *)
LEMMA QuietKeeps ==
  ASSUME IInv, unread' = unread, \A s \in Solves : answers'[s] \subseteq answers[s],
         \A s \in Solves : page[s] # "blank" => page'[s] # "blank",
         \A s \in Solves : resource[s] # "none" => resource'[s] # "none"
  PROVE  EventsTrue' /\ AnswersTrue'
<1>1. \A s \in Solves : \A i \in DOMAIN unread[s] : unread[s][i].session \in Solves
  <2> SUFFICES ASSUME NEW s \in Solves, NEW i \in DOMAIN unread[s]
               PROVE  unread[s][i].session \in Solves
    OBVIOUS
  <2>1. unread[s][i] \in Events
    BY DEF IInv, TypeOK
  <2> QED  BY <2>1 DEF Events
<1> QED  BY <1>1 DEF IInv, EventsTrue, AnswersTrue, Happened

LEMMA SolverIInv ==
  ASSUME IInv, NEW s \in Solves, Solver(s) \/ Drop(s), TypeOK'
  PROVE  IInv'
<1>1. TypeOK /\ Local(s)
  BY DEF IInv
<1>2. /\ UNCHANGED <<unread, lagging, answers, fetch, page, resource, matched>>
      /\ \A t \in Solves \ {s} :
            stage'[t] = stage[t] /\ task'[t] = task[t] /\ commands'[t] = commands[t]
  BY <1>1 DEF Solver, Enabled, EnableFails, Navigated, Finish, DisableReturns, Drop, Ask,
              channel, chrome, TypeOK
<1>3. EventsTrue' /\ AnswersTrue'
  BY <1>2, QuietKeeps
<1>4. ASSUME NEW t \in Solves \ {s} PROVE Local(t)'
  BY <1>2, OthersKeep DEF IInv, Known
<1>5. Local(s)'
  <2> USE <1>1, <1>2 DEF Local, Fresh, Armed, Running, Spared, Going, Ask, TypeOK
  <2>1. CASE Enabled(s)
    <3>1. stage'[s] = "navigating" /\ task'[s] = "receiving" /\ commands'[s] \subseteq {"enable", "navigate"}
      BY <2>1 DEF Enabled
    <3>2. Tracked(s)'
      BY <2>1 DEF Tracked, Paused, Enabled
    <3> QED  BY <2>1, <3>1, <3>2 DEF Enabled
  <2>2. CASE EnableFails(s) \/ DisableReturns(s) \/ Drop(s)
    <3>1. stage'[s] \in {"done", "dropped"} /\ task' = task
      BY <2>2 DEF EnableFails, DisableReturns, Drop
    <3>2. stage'[s] = "done" => stage[s] \in {"enabling", "disabling"}
      BY <2>2 DEF EnableFails, DisableReturns, Drop
    <3> QED  BY <2>2, <3>1, <3>2 DEF Tracked
  <2>3. CASE Navigated(s)
    BY <2>3 DEF Navigated, Tracked, Paused, Known
  <2>4. CASE Finish(s)
    <3>1. stage'[s] = "disabling" /\ task'[s] \notin {"receiving", "answering"}
      BY <2>4 DEF Finish, Subscribed
    <3> QED  BY <3>1 DEF Tracked
  <2> QED  BY <2>1, <2>2, <2>3, <2>4 DEF Solver
<1> QED  BY <1>3, <1>4, <1>5 DEF IInv

LEMMA InterceptorIInv ==
  ASSUME IInv, NEW s \in Solves, Interceptor(s), TypeOK'
  PROVE  IInv'
<1>1. TypeOK /\ Local(s)
  BY DEF IInv
<1>2. /\ UNCHANGED <<stage, commands, lagging, fetch, page, resource, matched>>
      /\ \A t \in Solves \ {s} :
            unread'[t] = unread[t] /\ task'[t] = task[t] /\ answers'[t] = answers[t]
  BY <1>1 DEF Interceptor, Receive, ReceiveFails, AnswerReturns, solver, channel, chrome, TypeOK
<1>3. ASSUME NEW t \in Solves \ {s} PROVE Local(t)'
  BY <1>2, OthersKeep DEF IInv, Known
<1>4. CASE ReceiveFails(s) \/ AnswerReturns(s)
  <2>1. UNCHANGED <<unread, answers>>
    BY <1>4 DEF ReceiveFails, AnswerReturns, channel
  <2>2. EventsTrue' /\ AnswersTrue'
    BY <1>2, <2>1, QuietKeeps
  <2>3. \/ task'[s] = "ended" /\ s \in lagging
        \/ task[s] = "answering" /\ task'[s] = "receiving"
    <3>1. CASE ReceiveFails(s)
      BY <1>1, <3>1 DEF ReceiveFails, TypeOK
    <3>2. CASE AnswerReturns(s)
      BY <1>1, <3>2 DEF AnswerReturns, TypeOK
    <3> QED  BY <1>4, <3>1, <3>2
  <2>4. Tracked(s)'
    BY <1>1, <1>2, <2>1 DEF Local, Tracked, Paused, Known
  <2>5. Fresh(s)' /\ Running(s)'
    BY <1>1, <1>2, <2>3, <1>4 DEF Local, Fresh, Running, ReceiveFails, AnswerReturns
  <2>6. Armed(s)'
    BY <1>1, <1>2, <2>3 DEF Local, Armed
  <2>7. Spared(s)'
    BY <1>1, <1>2 DEF Local, Spared
  <2>8. Local(s)'
    BY <2>4, <2>5, <2>6, <2>7 DEF Local
  <2> QED  BY <1>3, <2>2, <2>8 DEF IInv
<1>5. CASE Receive(s)
  <2> DEFINE e == Head(unread[s])
  <2>1. /\ unread[s] \in Seq(Events) /\ unread[s] # <<>> /\ task[s] = "receiving"
        /\ unread'[s] = Tail(unread[s])
    BY <1>1, <1>5 DEF Receive, TypeOK
  <2>2. /\ e = unread[s][1] /\ 1 \in DOMAIN unread[s] /\ e \in Events
        /\ \A i \in DOMAIN unread'[s] :
              i + 1 \in DOMAIN unread[s] /\ unread'[s][i] = unread[s][i + 1]
        /\ \A i \in DOMAIN unread[s] : i # 1 =>
              i - 1 \in DOMAIN unread'[s] /\ unread'[s][i - 1] = unread[s][i]
    BY <2>1
  <2> HIDE DEF e
  <2>3. IF e.session = s /\ e.request # "none"
        THEN task'[s] = "answering" /\ answers'[s] = answers[s] \cup {e.request}
        ELSE task'[s] = task[s] /\ answers'[s] = answers[s]
    BY <1>1, <1>5 DEF Receive, TypeOK, e
  <2>4. Happened(e.session, e.request)
    BY <2>2 DEF IInv, EventsTrue
  <2>5. EventsTrue'
    <3>1. SUFFICES ASSUME NEW t \in Solves, NEW i \in DOMAIN unread'[t]
                   PROVE  Happened(unread[t][i].session, unread[t][i].request)'
      BY DEF EventsTrue
    <3>2. PICK j \in DOMAIN unread[t] : unread'[t][i] = unread[t][j]
      BY <1>2, <2>2
    <3>3. Happened(unread[t][j].session, unread[t][j].request)
      BY DEF IInv, EventsTrue
    <3> QED  BY <1>2, <3>2, <3>3 DEF Happened
  <2>6. AnswersTrue'
    <3>1. SUFFICES ASSUME NEW t \in Solves, NEW q \in answers'[t] PROVE Happened(t, q)'
      BY DEF AnswersTrue
    <3>2. Happened(t, q)
      BY <1>2, <2>3, <2>4 DEF IInv, AnswersTrue
    <3> QED  BY <1>2, <3>2 DEF Happened
  <2>7. ASSUME NEW q \in {"document", "resource"}, Known(s, q) PROVE Known(s, q)'
    <3>1. CASE \E i \in DOMAIN unread[s] : unread[s][i] = [session |-> s, request |-> q]
      <4>1. PICK i \in DOMAIN unread[s] : unread[s][i] = [session |-> s, request |-> q]
        BY <3>1
      <4>2. CASE i = 1
        <5>1. e.session = s /\ e.request = q
          BY <2>2, <4>1, <4>2
        <5> QED  BY <2>3, <5>1 DEF Known
      <4>3. CASE i # 1
        BY <2>2, <4>1, <4>3 DEF Known
      <4> QED  BY <4>2, <4>3
    <3>2. CASE q \in answers[s] \/ s \in lagging
      BY <1>2, <2>3, <3>2 DEF Known
    <3> QED  BY <2>7, <3>1, <3>2 DEF Known
  <2>8. Tracked(s)'
    BY <1>1, <1>2, <2>7 DEF Local, Tracked, Paused
  <2>9. Local(s)'
    BY <1>1, <1>2, <2>1, <2>3, <2>8 DEF Local, Fresh, Armed, Running, Spared, Going
  <2> QED  BY <1>3, <2>5, <2>6, <2>9 DEF IInv
<1> QED  BY <1>4, <1>5 DEF Interceptor

(* Steps of Chrome that tell nobody. *)
LEMMA QuietChromeIInv ==
  ASSUME IInv, NEW s \in Solves, TypeOK',
         RunEnable(s) \/ RunDisable(s) \/ (\E q \in {"document", "resource"} : RunAnswer(s, q))
  PROVE  IInv'
<1>1. TypeOK /\ Local(s)
  BY DEF IInv
<1>2. UNCHANGED <<stage, task, unread, lagging, matched>>
  BY DEF RunEnable, RunDisable, RunAnswer, Executes, channel, solver
<1>3. \A t \in Solves \ {s} :
        /\ commands'[t] = commands[t] /\ answers'[t] = answers[t]
        /\ page'[t] = page[t] /\ resource'[t] = resource[t]
        /\ t \in fetch => t \in fetch'
  BY <1>1 DEF RunEnable, RunDisable, RunAnswer, Executes, channel, solver, TypeOK
<1>4. ASSUME NEW t \in Solves \ {s} PROVE Local(t)'
  BY <1>2, <1>3, OthersKeep DEF IInv, Known
<1>5. CASE RunEnable(s)
  <2>1. /\ UNCHANGED <<answers, page, resource>> /\ fetch \subseteq fetch'
        /\ commands'[s] \subseteq commands[s]
    BY <1>1, <1>5 DEF RunEnable, Executes, TypeOK
  <2>2. EventsTrue' /\ AnswersTrue'
    BY <1>2, <2>1, QuietKeeps
  <2>3. Local(s)'
    BY <1>1, <1>2, <2>1, OthersKeep DEF Known
  <2> QED  BY <1>4, <2>2, <2>3 DEF IInv
<1>6. CASE RunDisable(s)
  <2>1. /\ UNCHANGED answers /\ "disable" \in commands[s]
        /\ page[s] # "blank" => page'[s] # "blank"
        /\ resource[s] # "none" => resource'[s] # "none"
    BY <1>1, <1>6 DEF RunDisable, Executes, TypeOK
  <2>2. EventsTrue' /\ AnswersTrue'
    BY <1>2, <1>3, <2>1, QuietKeeps
  <2>3. stage[s] \notin Going \cup {"enabling"}
    BY <1>1, <2>1 DEF Local, Fresh, Armed
  <2>4. Local(s)'
    BY <1>1, <1>2, <2>3 DEF Local, Fresh, Armed, Running, Tracked, Spared, Going
  <2> QED  BY <1>4, <2>2, <2>4 DEF IInv
<1>7. CASE \E q \in {"document", "resource"} : RunAnswer(s, q)
  <2>1. PICK q \in {"document", "resource"} : RunAnswer(s, q)
    BY <1>7
  <2>2. /\ q \in answers[s] /\ answers'[s] = answers[s] \ {q}
        /\ page'[s] = IF q = "document" /\ page[s] = "paused" THEN "stub" ELSE page[s]
        /\ resource'[s] = IF q = "resource" /\ resource[s] = "paused" THEN "continued"
                          ELSE resource[s]
        /\ UNCHANGED <<commands, fetch>>
    BY <1>1, <2>1 DEF RunAnswer, solver, TypeOK
  <2>3. EventsTrue' /\ AnswersTrue'
    BY <1>2, <1>3, <2>2, QuietKeeps
  <2>4. Happened(s, q)
    BY <2>2 DEF IInv, AnswersTrue
  <2>5. Fresh(s)'
    BY <1>1, <1>2, <2>2, <2>4 DEF Local, Fresh, Happened
  <2>6. Tracked(s)'
    BY <1>1, <1>2, <2>2 DEF Local, Tracked, Paused, Known
  <2>7. Local(s)'
    BY <1>1, <1>2, <2>2, <2>5, <2>6 DEF Local, Armed, Running, Spared, Going
  <2> QED  BY <1>4, <2>3, <2>7 DEF IInv
<1> QED  BY <1>5, <1>6, <1>7

(* Steps of Chrome that are reported to the subscribers. *)
LEMMA EventIInv ==
  ASSUME IInv, NEW s \in Solves, TypeOK',
         RunNavigate(s) \/ RequestResource(s) \/ OtherEvent(s)
  PROVE  IInv'
<1>1. TypeOK /\ Local(s)
  BY DEF IInv
<1>2. UNCHANGED <<stage, task, answers, fetch, matched>>
  BY DEF RunNavigate, RequestResource, OtherEvent, Executes, solver, chrome
<1>3. /\ \A t \in Solves \ {s} :
            commands'[t] = commands[t] /\ page'[t] = page[t] /\ resource'[t] = resource[t]
      /\ commands'[s] \subseteq commands[s]
      /\ page[s] # "blank" => page'[s] # "blank"
      /\ resource[s] # "none" => resource'[s] # "none"
  BY <1>1 DEF RunNavigate, RequestResource, OtherEvent, Executes, solver, chrome, TypeOK
<1>4. AnswersTrue'
  <2>1. SUFFICES ASSUME NEW t \in Solves, NEW q \in answers[t] PROVE Happened(t, q)'
    BY <1>2 DEF AnswersTrue
  <2>2. Happened(t, q)
    BY DEF IInv, AnswersTrue
  <2> QED  BY <1>3, <2>2 DEF Happened
<1>5. CASE RunNavigate(s) /\ s \notin fetch \cap matched
  <2>1. UNCHANGED <<unread, lagging, resource>> /\ page'[s] = "site" /\ "navigate" \in commands[s]
    BY <1>1, <1>5 DEF RunNavigate, Executes, channel, TypeOK
  <2>2. EventsTrue'
    BY <1>2, <1>3, <2>1, QuietKeeps
  <2>3. stage[s] # "enabling" /\ (stage[s] \in Going => s \notin matched)
    BY <1>1, <1>5, <2>1 DEF Local, Fresh, Armed, Going
  <2>4. Fresh(s)' /\ Armed(s)' /\ Running(s)' /\ Spared(s)'
    BY <1>1, <1>2, <1>3, <2>1, <2>3 DEF Local, Fresh, Armed, Running, Spared, Going
  <2>5. Tracked(s)'
    BY <1>1, <1>2, <2>1 DEF Local, Tracked, Paused, Known
  <2>6. Local(s)'
    BY <2>4, <2>5 DEF Local
  <2>7. ASSUME NEW t \in Solves \ {s} PROVE Local(t)'
    BY <1>2, <1>3, <2>1, OthersKeep DEF IInv, Known
  <2> QED  BY <1>4, <2>2, <2>6, <2>7 DEF IInv
<1>6. CASE ~(RunNavigate(s) /\ s \notin fetch \cap matched)
  <2> DEFINE Reported(q) ==
          /\ Emit([session |-> s, request |-> q]) /\ Happened(s, q)'
          /\ \/ page'[s] = page[s]
             \/ q = "document" /\ page'[s] = "paused" /\ "navigate" \in commands[s]
          /\ \/ resource'[s] = resource[s]
             \/ q = "resource" /\ resource'[s] = "paused" /\ page[s] = "stub"
  <2>r. \E q \in {"document", "resource", "none"} : Reported(q)
    <3>1. CASE RunNavigate(s)
      <4>1. /\ Emit([session |-> s, request |-> "document"])
            /\ page'[s] = "paused" /\ resource'[s] = resource[s] /\ "navigate" \in commands[s]
        BY <1>1, <1>6, <3>1 DEF RunNavigate, Executes, TypeOK
      <4>2. Happened(s, "document")'
        BY <4>1 DEF Happened
      <4>3. Reported("document")
        BY <4>1, <4>2
      <4> HIDE DEF Reported
      <4> QED  BY <4>3
    <3>2. CASE RequestResource(s)
      <4>1. /\ Emit([session |-> s, request |-> "resource"])
            /\ page'[s] = page[s] /\ resource'[s] = "paused" /\ page[s] = "stub"
        BY <1>1, <3>2 DEF RequestResource, TypeOK
      <4>2. Happened(s, "resource")'
        BY <4>1 DEF Happened
      <4>3. Reported("resource")
        BY <4>1, <4>2
      <4> HIDE DEF Reported
      <4> QED  BY <4>3
    <3>3. CASE OtherEvent(s)
      <4>1. /\ Emit([session |-> s, request |-> "none"])
            /\ page'[s] = page[s] /\ resource'[s] = resource[s]
        BY <3>3 DEF OtherEvent, chrome
      <4>2. Happened(s, "none")'
        BY DEF Happened
      <4>3. Reported("none")
        BY <4>1, <4>2
      <4> HIDE DEF Reported
      <4> QED  BY <4>3
    <3> QED  BY <3>1, <3>2, <3>3
  <2>1. PICK q \in {"document", "resource", "none"} : Reported(q)
    BY <2>r
  <2> DEFINE e == [session |-> s, request |-> q]
  <2>2. e \in Events /\ e.session = s /\ e.request = q /\ Emit(e)
    BY <2>1 DEF Events
  <2> HIDE DEF e
  <2>3. EventsTrue'
    BY <1>3, <2>1, <2>2, EmitHappened
  <2>4. lagging \subseteq lagging'
    BY <1>1, <2>2, EmitTypes
  <2>5. ASSUME NEW t \in Solves, NEW p \in {"document", "resource"}, Known(t, p)
        PROVE  Known(t, p)'
    BY <1>2, <2>2, <2>5, EmitKeeps
  <2>6. ASSUME NEW t \in Solves \ {s} PROVE Local(t)'
    BY <1>2, <1>3, <2>4, <2>5, OthersKeep DEF IInv
  <2>7. Fresh(s)'
    BY <1>1, <1>2, <1>3, <2>1 DEF Local, Fresh
  <2>8. Armed(s)' /\ Running(s)'
    BY <1>1, <1>2, <1>3, <2>4 DEF Local, Armed, Running, Going
  <2>9. Spared(s)'
    BY <1>1, <1>2, <2>1 DEF Local, Spared
  <2>10. stage[s] \in Going => Known(s, q)'
    <3>1. SUFFICES ASSUME stage[s] \in Going, s \notin lagging' PROVE Known(s, q)'
      BY DEF Known
    <3>2. s \in Subscribed
      BY <1>1, <2>4, <3>1 DEF Local, Armed, Subscribed
    <3>3. \E j \in DOMAIN unread'[s] : unread'[s][j] = e
      BY <1>1, <2>2, <3>1, <3>2, EmitOne
    <3> QED  BY <3>3 DEF Known, e
  <2>11. Tracked(s)'
    <3>1. SUFFICES ASSUME stage[s] \in Going, NEW p \in {"document", "resource"}, (p \in Paused(s))'
                   PROVE  Known(s, p)'
      BY <1>2 DEF Tracked, Paused
    <3>2. p \in Paused(s) \/ p = q
      BY <2>1, <3>1 DEF Paused
    <3>3. p \in Paused(s) => Known(s, p)
      BY <1>1, <3>1 DEF Local, Tracked
    <3> QED  BY <2>5, <2>10, <3>1, <3>2, <3>3
  <2>12. Local(s)'
    BY <2>7, <2>8, <2>9, <2>11 DEF Local
  <2> QED  BY <1>4, <2>3, <2>6, <2>12 DEF IInv
<1> QED  BY <1>5, <1>6

LEMMA NextIInv == IInv /\ [Next]_vars => IInv'
<1> SUFFICES ASSUME IInv, [Next]_vars PROVE IInv'
  OBVIOUS
<1>1. TypeOK'
  BY NextType DEF IInv
<1>2. CASE UNCHANGED vars
  BY <1>1, <1>2
  DEF IInv, vars, Local, Fresh, Armed, Running, Tracked, Spared, Paused, Known, EventsTrue, AnswersTrue,
      Happened
<1> QED  BY <1>1, <1>2, SolverIInv, InterceptorIInv, QuietChromeIInv, EventIInv
         DEF Next, Chrome, Finished

-----------------------------------------------------------------------------
THEOREM Inductive == Spec => []IInv
<1> QED  BY InitIInv, NextIInv, PTL DEF Spec

(* Types, and no buffer that outgrows the channel. *)
THEOREM TypeCorrect == Spec => []TypeOK
<1>1. IInv => TypeOK
  BY DEF IInv
<1> QED  BY <1>1, Inductive, PTL

(* No request slips between Fetch.enable and the interceptor's subscription *)
(* (turnstile.rs:75-80).                                                    *)
THEOREM NothingMissed == Spec => []PausedIsKnown
<1>1. IInv => PausedIsKnown
  BY DEF IInv, Local, Tracked, Known, Going, PausedIsKnown
<1> QED  BY <1>1, Inductive, PTL

(* The target is not visited by a solve that goes on, if its URL fits what  *)
(* Chrome asks for (turnstile.rs:66-78).                                    *)
THEOREM SiteSpared == Spec => []SiteNotVisited
<1>1. IInv => SiteNotVisited
  BY TurnstileAssumption DEF IInv, TypeOK, Local, Spared, Going, SiteNotVisited
<1> QED  BY <1>1, Inductive, PTL

(* Interceptors keep to the requests of their own sessions. *)
THEOREM OwnOnly == Spec => []OnlyOwnAnswered
<1>1. IInv => OnlyOwnAnswered
  BY DEF IInv, AnswersTrue, Happened, OnlyOwnAnswered
<1> QED  BY <1>1, Inductive, PTL

(* A solve that has ended leaves no interceptor behind. *)
THEOREM Stopped == Spec => []InterceptorStopped
<1>1. IInv => InterceptorStopped
  BY DEF IInv, Local, Running, Going, Subscribed, InterceptorStopped
<1> QED  BY <1>1, Inductive, PTL
-----------------------------------------------------------------------------
(* The promise of StubVisit.                                                *)

(* A navigation that Chrome has not executed yet is the first, and what the *)
(* stub has asked for, it has asked for as the page's document.             *)
Once(s) ==
    /\ "navigate" \in commands[s] => page[s] = "blank"
    /\ resource[s] # "none" => page[s] = "stub"

NavigatesOnce == \A s \in Solves : Once(s)

LEMMA NextOnce == IInv /\ NavigatesOnce /\ [Next]_vars => NavigatesOnce'
<1> SUFFICES ASSUME IInv, NavigatesOnce, [Next]_vars, NEW t \in Solves
             PROVE  Once(t)'
  BY DEF NavigatesOnce
<1>1. TypeOK /\ Fresh(t) /\ Once(t)
  BY DEF IInv, Local, NavigatesOnce
<1> USE DEF Once
<1>2. ASSUME NEW s \in Solves, Solver(s) \/ Drop(s)
      PROVE  Once(t)'
  <2>1. UNCHANGED <<page, resource>>
    BY <1>2 DEF Solver, Enabled, EnableFails, Navigated, Finish, DisableReturns, Drop, chrome
  <2>2. CASE Enabled(s)
    BY <1>1, <2>1, <2>2 DEF Enabled, Ask, Fresh, TypeOK
  <2>3. CASE ~Enabled(s)
    <3>1. "navigate" \in commands'[t] => "navigate" \in commands[t]
      BY <1>1, <1>2, <2>3 DEF Solver, EnableFails, Navigated, Finish, DisableReturns, Drop, Ask, TypeOK
    <3> QED  BY <1>1, <2>1, <3>1
  <2> QED  BY <2>2, <2>3
<1>3. ASSUME NEW s \in Solves, Interceptor(s)
      PROVE  Once(t)'
  BY <1>1, <1>3 DEF Interceptor, Receive, ReceiveFails, AnswerReturns, solver, chrome
<1>4. ASSUME NEW s \in Solves, Chrome(s)
      PROVE  Once(t)'
  <2>1. CASE RunEnable(s)
    BY <1>1, <2>1 DEF RunEnable, Executes, TypeOK
  <2>2. CASE RunNavigate(s)
    <3>1. /\ "navigate" \in commands[s] /\ resource' = resource
          /\ commands' = [commands EXCEPT ![s] = @ \ {"navigate"}]
          /\ \A u \in Solves \ {s} : page'[u] = page[u]
      BY <1>1, <2>2 DEF RunNavigate, Executes, TypeOK
    <3> QED  BY <1>1, <3>1 DEF TypeOK
  <2>3. CASE RunDisable(s)
    <3>1. /\ \A u \in Solves : commands'[u] \subseteq commands[u]
          /\ \A u \in Solves : page'[u] = page[u] \/ page[u] = "paused"
          /\ \A u \in Solves : resource[u] = "none" => resource'[u] = "none"
      BY <1>1, <2>3 DEF RunDisable, Executes, TypeOK
    <3> QED  BY <1>1, <3>1
  <2>4. ASSUME NEW q \in {"document", "resource"}, RunAnswer(s, q)
        PROVE  Once(t)'
    <3>1. /\ commands' = commands
          /\ \A u \in Solves : page'[u] = page[u] \/ page[u] = "paused"
          /\ \A u \in Solves : resource[u] = "none" => resource'[u] = "none"
      BY <1>1, <2>4 DEF RunAnswer, solver, TypeOK
    <3> QED  BY <1>1, <3>1
  <2>5. CASE RequestResource(s)
    BY <1>1, <2>5 DEF RequestResource, solver, TypeOK
  <2>6. CASE OtherEvent(s)
    BY <1>1, <2>6 DEF OtherEvent, solver, chrome
  <2> QED  BY <1>4, <2>1, <2>2, <2>3, <2>4, <2>5, <2>6 DEF Chrome
<1>5. CASE UNCHANGED vars
  BY <1>1, <1>5 DEF vars
<1> QED  BY <1>2, <1>3, <1>4, <1>5 DEF Next, Finished

(* The phases of the solves when one of them moves. *)
LEMMA OnePhaseMoves ==
  ASSUME NEW s \in Solves, \A t \in Solves \ {s} : stage'[t] = stage[t]
  PROVE  [t \in Solves |-> PhaseOf(t)]' =
            [[t \in Solves |-> PhaseOf(t)] EXCEPT ![s] = PhaseOf(s)']
BY DEF PhaseOf

LEMMA PhasesStay ==
  ASSUME stage' = stage
  PROVE  [t \in Solves |-> PhaseOf(t)]' = [t \in Solves |-> PhaseOf(t)]
BY DEF PhaseOf

LEMMA InitVisit == Init => Promise!Init
BY DEF Init, Promise!Init, PhaseOf

LEMMA SolverVisit ==
  ASSUME TypeOK, NEW s \in Solves, Solver(s) \/ Drop(s)
  PROVE  [Promise!Next]_Promise!vars
<1>1. UNCHANGED <<page, resource, matched>>
  BY DEF Solver, Enabled, EnableFails, Navigated, Finish, DisableReturns, Drop, chrome
<1>2. /\ \A t \in Solves \ {s} : stage'[t] = stage[t]
      /\ \/ PhaseOf(s) = "before" /\ PhaseOf(s)' = "going"
         \/ PhaseOf(s) # "over" /\ PhaseOf(s)' = "over"
         \/ PhaseOf(s)' = PhaseOf(s)
  BY DEF Solver, Enabled, EnableFails, Navigated, Finish, DisableReturns, Drop, Ask, TypeOK, PhaseOf
<1>3. [t \in Solves |-> PhaseOf(t)]' =
         [[t \in Solves |-> PhaseOf(t)] EXCEPT ![s] = PhaseOf(s)']
  BY <1>2, OnePhaseMoves
<1> DEFINE phases == [t \in Solves |-> PhaseOf(t)]
<1>4. phases[s] = PhaseOf(s)
  OBVIOUS
<1>5. CASE PhaseOf(s) = "before" /\ PhaseOf(s)' = "going"
  <2>1. Promise!Begin(s)
    BY <1>1, <1>3, <1>4, <1>5 DEF Promise!Begin
  <2> QED  BY <2>1 DEF Promise!Next
<1>6. CASE PhaseOf(s) # "over" /\ PhaseOf(s)' = "over"
  <2>1. Promise!End(s)
    BY <1>1, <1>3, <1>4, <1>6 DEF Promise!End
  <2> QED  BY <2>1 DEF Promise!Next
<1>7. CASE PhaseOf(s)' = PhaseOf(s)
  BY <1>1, <1>3, <1>7 DEF Promise!vars
<1> QED  BY <1>2, <1>5, <1>6, <1>7

LEMMA ChromeVisit ==
  ASSUME IInv, NavigatesOnce, NEW s \in Solves, Chrome(s)
  PROVE  [Promise!Next]_Promise!vars
<1>1. TypeOK /\ Local(s) /\ Once(s)
  BY DEF IInv, NavigatesOnce
<1>2. stage' = stage /\ matched' = matched
  BY DEF Chrome, RunEnable, RunNavigate, RunDisable, RunAnswer, RequestResource, OtherEvent,
         Executes, solver, chrome
<1>3. [t \in Solves |-> PhaseOf(t)]' = [t \in Solves |-> PhaseOf(t)]
  BY <1>2, PhasesStay
<1> DEFINE phases == [t \in Solves |-> PhaseOf(t)]
<1>4. /\ phases[s] = PhaseOf(s)
      /\ phases[s] = "before" <=> stage[s] = "enabling"
      /\ phases[s] = "over" <=> stage[s] \notin Going \cup {"enabling"}
  BY DEF PhaseOf, Going
<1>5. CASE RunEnable(s) \/ OtherEvent(s)
  BY <1>2, <1>3, <1>5 DEF RunEnable, OtherEvent, chrome, Promise!vars
<1>6. CASE RunNavigate(s)
  <2>1. "navigate" \in commands[s] /\ page[s] = "blank" /\ resource' = resource
    BY <1>1, <1>6 DEF RunNavigate, Executes, Once
  <2>2. stage[s] # "enabling"
    BY <1>1, <2>1 DEF Local, Fresh
  <2>3. CASE s \in fetch \cap matched
    <3>1. Promise!Hold(s)
      BY <1>2, <1>3, <1>4, <1>6, <2>1, <2>2, <2>3 DEF RunNavigate, Promise!Hold, Promise!Turn
    <3> QED  BY <3>1 DEF Promise!Next
  <2>4. CASE s \notin fetch \cap matched
    <3>1. page' = [page EXCEPT ![s] = "site"]
      BY <1>6, <2>4 DEF RunNavigate
    <3>2. CASE stage[s] \in Going
      <4>1. s \notin matched /\ phases[s] = "going"
        BY <1>1, <1>4, <2>2, <2>4, <3>2 DEF Local, Armed, PhaseOf, Going
      <4>2. Promise!Miss(s)
        BY <1>2, <1>3, <2>1, <3>1, <4>1 DEF Promise!Miss, Promise!Turn
      <4> QED  BY <4>2 DEF Promise!Next
    <3>3. CASE stage[s] \notin Going
      <4>1. Promise!Visit(s)
        BY <1>2, <1>3, <1>4, <2>1, <2>2, <3>1, <3>3 DEF Promise!Visit, Promise!Turn
      <4> QED  BY <4>1 DEF Promise!Next
    <3> QED  BY <3>2, <3>3
  <2> QED  BY <2>3, <2>4
<1>7. CASE RunDisable(s)
  <2>1. stage[s] \notin Going \cup {"enabling"}
    BY <1>1, <1>7 DEF RunDisable, Executes, Local, Armed, Fresh
  <2>2. /\ page' = [page EXCEPT ![s] = IF @ = "paused" THEN "site" ELSE @]
        /\ resource' = [resource EXCEPT ![s] = IF @ = "paused" THEN "continued" ELSE @]
    BY <1>7 DEF RunDisable
  <2>3. CASE page[s] = "paused"
    <3>1. page' = [page EXCEPT ![s] = "site"] /\ resource' = resource
      BY <1>1, <2>2, <2>3 DEF Once, TypeOK
    <3>2. Promise!Visit(s)
      BY <1>2, <1>3, <1>4, <2>1, <2>3, <3>1 DEF Promise!Visit, Promise!Turn
    <3> QED  BY <3>2 DEF Promise!Next
  <2>4. CASE page[s] # "paused" /\ resource[s] = "paused"
    <3>1. page' = page /\ resource' = [resource EXCEPT ![s] = "continued"]
      BY <1>1, <2>2, <2>4 DEF TypeOK
    <3>2. Promise!LetThrough(s)
      BY <1>2, <1>3, <2>4, <3>1 DEF Promise!LetThrough
    <3> QED  BY <3>2 DEF Promise!Next
  <2>5. CASE page[s] # "paused" /\ resource[s] # "paused"
    <3>1. page' = page /\ resource' = resource
      BY <1>1, <2>2, <2>5 DEF TypeOK
    <3> QED  BY <1>2, <1>3, <3>1 DEF Promise!vars
  <2> QED  BY <2>3, <2>4, <2>5
<1>8. ASSUME NEW q \in {"document", "resource"}, RunAnswer(s, q)
      PROVE  [Promise!Next]_Promise!vars
  <2>1. CASE q = "document" /\ page[s] = "paused"
    <3>1. page' = [page EXCEPT ![s] = "stub"] /\ resource' = resource
      BY <1>1, <1>8, <2>1 DEF RunAnswer, TypeOK
    <3>2. Promise!Serve(s)
      BY <1>2, <1>3, <2>1, <3>1 DEF Promise!Serve, Promise!Turn
    <3> QED  BY <3>2 DEF Promise!Next
  <2>2. CASE q = "resource" /\ resource[s] = "paused"
    <3>1. page' = page /\ resource' = [resource EXCEPT ![s] = "continued"]
      BY <1>1, <1>8, <2>2 DEF RunAnswer, TypeOK
    <3>2. Promise!LetThrough(s)
      BY <1>2, <1>3, <2>2, <3>1 DEF Promise!LetThrough
    <3> QED  BY <3>2 DEF Promise!Next
  <2>3. CASE ~(q = "document" /\ page[s] = "paused") /\ ~(q = "resource" /\ resource[s] = "paused")
    <3>1. page' = page /\ resource' = resource
      BY <1>1, <1>8, <2>3 DEF RunAnswer, TypeOK
    <3> QED  BY <1>2, <1>3, <3>1 DEF Promise!vars
  <2> QED  BY <2>1, <2>2, <2>3
<1>9. CASE RequestResource(s)
  <2>1. Promise!Ask(s)
    BY <1>2, <1>3, <1>9 DEF RequestResource, Promise!Ask
  <2> QED  BY <2>1 DEF Promise!Next
<1> QED  BY <1>5, <1>6, <1>7, <1>8, <1>9 DEF Chrome

LEMMA NextVisit == IInv /\ NavigatesOnce /\ [Next]_vars => [Promise!Next]_Promise!vars
<1> SUFFICES ASSUME IInv, NavigatesOnce, [Next]_vars PROVE [Promise!Next]_Promise!vars
  OBVIOUS
<1>1. TypeOK
  BY DEF IInv
<1>2. ASSUME NEW s \in Solves, Interceptor(s)
      PROVE  [Promise!Next]_Promise!vars
  <2>1. UNCHANGED <<stage, page, resource, matched>>
    BY <1>2 DEF Interceptor, Receive, ReceiveFails, AnswerReturns, solver, chrome
  <2> QED  BY <2>1, PhasesStay DEF Promise!vars
<1>3. CASE UNCHANGED vars
  BY <1>3, PhasesStay DEF vars, Promise!vars
<1> QED  BY <1>1, <1>2, <1>3, SolverVisit, ChromeVisit DEF Next, Finished

(* Whatever arrives late or is lost, a solve asks for the target at most    *)
(* once, shows the stub from its answer on, and the target's own document   *)
(* only once it is over, or if its URL does not fit (turnstile.rs:57-78).   *)
THEOREM Implements == Spec => ImplementsStubVisit
<1>1. Init => NavigatesOnce
  BY DEF Init, NavigatesOnce, Once
<1>2. Spec => []NavigatesOnce
  BY <1>1, NextOnce, Inductive, PTL DEF Spec
<1> QED  BY <1>2, Inductive, InitVisit, NextVisit, PTL DEF Spec, ImplementsStubVisit, Promise!Spec
=============================================================================
