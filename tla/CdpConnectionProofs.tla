------------------------ MODULE CdpConnectionProofs ------------------------
(***************************************************************************)
(* What holds of CdpConnection for any set of calls.  The invariant says    *)
(* where the entry and the reply of a call can be at each of its stages     *)
(* (MapInv), and that its command is in one place at a time on its way to   *)
(* Chrome and back (TripInv).                                               *)
(***************************************************************************)
EXTENDS CdpConnection, SequenceLemmas, TLAPS

(* The map and the reply channels: a call has no entry before it registers  *)
(* and none once it has a reply; from then on it has one or the other, and  *)
(* a result in the channel is what Chrome answered.                         *)
MapInv ==
  /\ \A c \in Calls : pc[c] = "new" => c \notin pending /\ reply[c] = "none"
  /\ \A c \in Calls : reply[c] # "none" => c \notin pending
  /\ \A c \in Calls :
       pc[c] \in {"registered", "sent"} /\ reply[c] = "none" => c \in pending
  /\ \A c \in Calls : "result" \in {reply[c], outcome[c]} => answered[c] = "result"
  /\ PendingIsOwned

(* The command of such a call has not been handed to the writer.            *)
NotHandedOver(c) ==
  pc[c] \in {"new", "registered", "unsent"} \/ outcome[c] = "unsent"

(* A command is queued for the writer, or with Chrome, or answered, never   *)
(* two of these, and none of them before it is handed over.                 *)
TripInv ==
  /\ IsInjective(outbox)
  /\ \A c \in ToSet(outbox) : c \notin received
  /\ \A c \in ToSet(outbox) \cup received : answered[c] = "none"
  /\ \A c \in Calls : NotHandedOver(c) =>
       c \notin ToSet(outbox) \cup received /\ answered[c] = "none"
  /\ \A c \in ToSet(inbox) : answered[c] # "none"

IInv == TypeOK /\ MapInv /\ TripInv

-----------------------------------------------------------------------------
(* Taking the oldest answer off the socket leaves only answers.             *)
LEMMA TailElements ==
  ASSUME NEW S, NEW s \in Seq(S), s # <<>>
  PROVE  /\ Tail(s) \in Seq(S)
         /\ Head(s) \in ToSet(s) /\ Head(s) \in S
         /\ ToSet(Tail(s)) \subseteq ToSet(s)
BY HeadTailProperties DEF ToSet

(* What a channel holds after one more message.                             *)
LEMMA AppendElements ==
  ASSUME NEW S, NEW s \in Seq(S), NEW e \in S
  PROVE  Append(s, e) \in Seq(S) /\ ToSet(Append(s, e)) = ToSet(s) \cup {e}
BY AppendProperties DEF ToSet

(* The elements of a channel are calls.                                     *)
LEMMA Elements ==
  ASSUME NEW S, NEW s \in Seq(S)
  PROVE  ToSet(s) \subseteq S
BY DEF ToSet

(* Nothing is registered, sent or answered on a new connection.             *)
LEMMA InitInv == Init => IInv
<1> SUFFICES ASSUME Init PROVE IInv
  OBVIOUS
<1>1. TypeOK
  BY EmptySeq DEF Init, TypeOK, Stages, Outcomes, Answers
<1>2. MapInv
  BY DEF Init, MapInv, PendingIsOwned
<1>3. TripInv
  BY DEF Init, TripInv, ToSet, IsInjective, NotHandedOver
<1> QED  BY <1>1, <1>2, <1>3 DEF IInv

-----------------------------------------------------------------------------
(* Types, and outcomes exactly of the calls that are done, after every      *)
(* step.                                                                    *)
LEMMA NextType ==
  ASSUME TypeOK, [Next]_vars
  PROVE  TypeOK'
<1> USE DEF TypeOK, Stages, Outcomes, Answers, caller, tasks, chrome
<1>1. ASSUME NEW c \in Calls, Register(c)  PROVE TypeOK'
  BY <1>1 DEF Register
<1>2. ASSUME NEW c \in Calls, Send(c)  PROVE TypeOK'
  <2>1. outbox \in Seq(Calls)
    OBVIOUS
  <2>2. Append(outbox, c) \in Seq(Calls)
    BY <2>1, AppendElements
  <2>3. outbox' \in {outbox, Append(outbox, c)}
    BY <1>2 DEF Send
  <2> QED  BY <1>2, <2>1, <2>2, <2>3 DEF Send
<1>3. ASSUME NEW c \in Calls, ReportUnsent(c)  PROVE TypeOK'
  BY <1>3 DEF ReportUnsent, End
<1>4. ASSUME NEW c \in Calls, Receive(c)  PROVE TypeOK'
  BY <1>4 DEF Receive, End
<1>5. ASSUME NEW c \in Calls, Expire(c)  PROVE TypeOK'
  BY <1>5 DEF Expire
<1>6. ASSUME NEW c \in Calls, TimeOut(c)  PROVE TypeOK'
  BY <1>6 DEF TimeOut, End
<1>7. ASSUME NEW c \in Calls, Abandon(c)  PROVE TypeOK'
  BY <1>7 DEF Abandon, End
<1>8. ASSUME NEW c \in Calls, Answer(c)  PROVE TypeOK'
  BY <1>8, AppendElements DEF Answer
<1>9. CASE Write
  BY <1>9, TailElements DEF Write
<1>10. CASE WriteFails \/ WriterAborted
  BY <1>10, EmptySeq DEF WriteFails, WriterAborted
<1>11. CASE Deliver
  BY <1>11, TailElements DEF Deliver
<1>12. CASE ReadEnds \/ ReaderAborted \/ Close \/ ChromeGoes
  BY <1>12 DEF ReadEnds, ReaderAborted, Close, ChromeGoes
<1>13. CASE Drain
  BY <1>13 DEF Drain
<1>14. CASE UNCHANGED vars
  BY <1>14 DEF vars
<1> QED
  BY <1>1, <1>2, <1>3, <1>4, <1>5, <1>6, <1>7, <1>8, <1>9, <1>10, <1>11,
     <1>12, <1>13, <1>14
  DEF Next, Call, WriterTask, ReaderTask, Finished

-----------------------------------------------------------------------------
(* The map and the reply channels after every step.                         *)
LEMMA NextMap ==
  ASSUME TypeOK, MapInv, TripInv, [Next]_vars
  PROVE  MapInv'
<1> USE DEF TypeOK, MapInv, PendingIsOwned, caller, tasks, chrome
<1>1. ASSUME NEW c \in Calls, Register(c)  PROVE MapInv'
  BY <1>1 DEF Register
<1>2. ASSUME NEW c \in Calls, Send(c)  PROVE MapInv'
  BY <1>2 DEF Send
<1>3. ASSUME NEW c \in Calls, ReportUnsent(c)  PROVE MapInv'
  BY <1>3 DEF ReportUnsent, End
<1>4. ASSUME NEW c \in Calls, Receive(c)  PROVE MapInv'
  BY <1>4 DEF Receive, End
<1>5. ASSUME NEW c \in Calls, Expire(c)  PROVE MapInv'
  BY <1>5 DEF Expire
<1>6. ASSUME NEW c \in Calls, TimeOut(c)  PROVE MapInv'
  BY <1>6 DEF TimeOut, End
<1>7. ASSUME NEW c \in Calls, Abandon(c)  PROVE MapInv'
  BY <1>7 DEF Abandon, End
<1>8. ASSUME NEW c \in Calls, Answer(c)  PROVE MapInv'
  BY <1>8 DEF Answer, TripInv
<1>9. CASE Write \/ WriteFails \/ WriterAborted
  BY <1>9 DEF Write, WriteFails, WriterAborted
<1>10. CASE Deliver
  <2> DEFINE d == Head(inbox)
  <2>1. d \in Calls /\ answered[d] # "none" /\ ~NotHandedOver(d)
    BY <1>10, TailElements DEF Deliver, TripInv
  <2> QED  BY <1>10, <2>1 DEF Deliver, NotHandedOver
<1>11. CASE ReadEnds \/ ReaderAborted \/ Close \/ ChromeGoes
  BY <1>11 DEF ReadEnds, ReaderAborted, Close, ChromeGoes
<1>12. CASE Drain
  BY <1>12 DEF Drain
<1>13. CASE UNCHANGED vars
  BY <1>13 DEF vars
<1> QED
  BY <1>1, <1>2, <1>3, <1>4, <1>5, <1>6, <1>7, <1>8, <1>9, <1>10, <1>11,
     <1>12, <1>13
  DEF Next, Call, WriterTask, ReaderTask, Finished

-----------------------------------------------------------------------------
(* The ways of the commands and the answers after every step.               *)
LEMMA NextTrip ==
  ASSUME TypeOK, MapInv, TripInv, [Next]_vars
  PROVE  TripInv'
<1> USE DEF TypeOK, TripInv, NotHandedOver, caller, tasks, chrome
<1>1. ASSUME NEW c \in Calls, Register(c)  PROVE TripInv'
  BY <1>1 DEF Register
<1>2. ASSUME NEW c \in Calls, Send(c)  PROVE TripInv'
  <2>1. CASE outbox' = Append(outbox, c) /\ pc' = [pc EXCEPT ![c] = "sent"]
    <3>1. c \notin ToSet(outbox) /\ c \notin received /\ answered[c] = "none"
      BY <1>2 DEF Send
    <3>2. IsInjective(outbox') /\ ToSet(outbox') = ToSet(outbox) \cup {c}
      BY <2>1, <3>1, AppendDistinct
    <3> QED  BY <1>2, <2>1, <3>1, <3>2 DEF Send
  <2>2. CASE outbox' = outbox /\ pc' = [pc EXCEPT ![c] = "unsent"]
    BY <1>2, <2>2 DEF Send
  <2> QED  BY <1>2, <2>1, <2>2 DEF Send
<1>3. ASSUME NEW c \in Calls, ReportUnsent(c)  PROVE TripInv'
  BY <1>3 DEF ReportUnsent, End
<1>4. ASSUME NEW c \in Calls, Receive(c)  PROVE TripInv'
  BY <1>4 DEF Receive, End, Answers
<1>5. ASSUME NEW c \in Calls, Expire(c)  PROVE TripInv'
  BY <1>5 DEF Expire
<1>6. ASSUME NEW c \in Calls, TimeOut(c)  PROVE TripInv'
  BY <1>6 DEF TimeOut, End
<1>7. ASSUME NEW c \in Calls, Abandon(c)  PROVE TripInv'
  BY <1>7 DEF Abandon, End
<1>8. ASSUME NEW c \in Calls, Answer(c)  PROVE TripInv'
  <2>1. ToSet(inbox') = ToSet(inbox) \cup {c} /\ ToSet(inbox) \subseteq Calls
    BY <1>8, AppendElements, Elements DEF Answer
  <2>2. ToSet(outbox) \subseteq Calls
    BY Elements
  <2>3. answered'[c] # "none"
    BY <1>8 DEF Answer, Answers
  <2> QED  BY <1>8, <2>1, <2>2, <2>3 DEF Answer
<1>9. CASE Write
  <2>1. /\ IsInjective(outbox')
        /\ ToSet(outbox') = ToSet(outbox) \ {Head(outbox)}
        /\ Head(outbox) \in ToSet(outbox)
    BY <1>9, TailDistinct DEF Write
  <2> QED  BY <1>9, <2>1 DEF Write
<1>10. CASE WriteFails \/ WriterAborted
  <2>1. outbox' = <<>> /\ ToSet(outbox') = {} /\ IsInjective(outbox')
    BY <1>10 DEF WriteFails, WriterAborted, ToSet, IsInjective
  <2> QED  BY <1>10, <2>1 DEF WriteFails, WriterAborted
<1>11. CASE Deliver
  <2>1. ToSet(inbox') \subseteq ToSet(inbox)
    BY <1>11, TailElements DEF Deliver
  <2> QED  BY <1>11, <2>1 DEF Deliver
<1>12. CASE ReadEnds \/ ReaderAborted \/ Close \/ ChromeGoes \/ Drain
  BY <1>12 DEF ReadEnds, ReaderAborted, Close, ChromeGoes, Drain
<1>13. CASE UNCHANGED vars
  BY <1>13 DEF vars
<1> QED
  BY <1>1, <1>2, <1>3, <1>4, <1>5, <1>6, <1>7, <1>8, <1>9, <1>10, <1>11,
     <1>12, <1>13
  DEF Next, Call, WriterTask, ReaderTask, Finished

-----------------------------------------------------------------------------
(* The invariant holds in every reachable state of a connection.            *)
THEOREM Inductive == Spec => []IInv
<1>1. IInv /\ [Next]_vars => IInv'
  BY NextType, NextMap, NextTrip DEF IInv
<1> QED  BY <1>1, InitInv, PTL DEF Spec

(* Types, and an outcome exactly for the calls that have returned.          *)
THEOREM TypeCorrect == Spec => []TypeOK
<1>1. IInv => TypeOK
  BY DEF IInv
<1> QED  BY <1>1, Inductive, PTL

(* No reply is missed: a caller that waits is in the map or has its reply,  *)
(* however the tasks, the timers, close and Chrome interleave.              *)
THEOREM NoReplyMissed == Spec => []WaitersReachable
<1>1. IInv => WaitersReachable
  BY DEF IInv, MapInv, WaitersReachable
<1> QED  BY <1>1, Inductive, PTL

(* The map does not grow with calls that have returned.                     *)
THEOREM NoStaleEntries == Spec => []PendingIsOwned
<1>1. IInv => PendingIsOwned
  BY DEF IInv, MapInv
<1> QED  BY <1>1, Inductive, PTL

(* A reply read for a caller that waits is the one it gets.                 *)
THEOREM RepliesArrive == Spec => RepliesReachWaiters
<1> DEFINE Reaches ==
      \A c \in Calls :
         /\ inbox # <<>> /\ c = Head(inbox) /\ inbox' = Tail(inbox)
         /\ pc[c] = "sent" /\ reply[c] = "none"
         => reply'[c] = answered[c]
<1>1. IInv /\ [Next]_vars => [Reaches]_vars
  <2> SUFFICES ASSUME IInv, [Next]_vars,
                      NEW c \in Calls, inbox # <<>>, c = Head(inbox),
                      inbox' = Tail(inbox), pc[c] = "sent", reply[c] = "none"
               PROVE  reply'[c] = answered[c] \/ UNCHANGED vars
    OBVIOUS
  <2>1. inbox' # inbox
    BY HeadTailProperties DEF IInv, TypeOK
  <2>2. CASE Deliver
    BY <2>2 DEF Deliver, IInv, TypeOK, MapInv
  <2>3. CASE \E d \in Calls : Answer(d)
    <3>1. PICK d \in Calls : inbox' = Append(inbox, d)
      BY <2>3 DEF Answer
    <3> QED  BY <3>1, HeadTailProperties, AppendProperties DEF IInv, TypeOK
  <2> QED
    BY <2>1, <2>2, <2>3
    DEF Next, vars, Call, WriterTask, ReaderTask, Finished, Register, Send,
        ReportUnsent, Receive, Expire, TimeOut, Abandon, Write, WriteFails,
        WriterAborted, ReadEnds, Drain, ReaderAborted, Close, ChromeGoes
<1> QED  BY <1>1, Inductive, PTL DEF Spec, RepliesReachWaiters

-----------------------------------------------------------------------------
(* The connection implements RemoteCall.                                    *)

Executed == {c \in Calls : answered[c] # "none"}

(* A step of the connection is a step of RemoteCall or leaves its variables *)
(* alone.                                                                   *)
LEMMA NextImplements ==
  ASSUME IInv, [Next]_vars
  PROVE  [Promise!Next]_(Promise!vars)
<1> DEFINE Same == UNCHANGED <<answered, outcome>>
<1>a. Same => UNCHANGED Promise!vars
  BY DEF Promise!vars
<1> USE DEF IInv, TypeOK, MapInv, TripInv, caller, tasks, chrome
<1>1. ASSUME NEW c \in Calls, NEW o \in Outcomes, End(c, o), pc[c] # "done",
             answered' = answered, o = "result" => answered[c] = "result",
             o = "unsent" => answered[c] = "none"
      PROVE  Promise!Next
  <2>1. Promise!Finish(c, o)
    BY <1>1 DEF End, Promise!Finish
  <2> QED  BY <2>1 DEF Promise!Next, Promise!Outcomes, Outcomes
<1>2. ASSUME NEW c \in Calls, ReportUnsent(c)  PROVE Promise!Next
  <2>1. answered[c] = "none"
    BY <1>2 DEF ReportUnsent, NotHandedOver
  <2> QED  BY <1>1, <1>2, <2>1 DEF ReportUnsent, Outcomes
<1>3. ASSUME NEW c \in Calls, Receive(c)  PROVE Promise!Next
  BY <1>1, <1>3 DEF Receive, Outcomes, Answers
<1>4. ASSUME NEW c \in Calls, TimeOut(c)  PROVE Promise!Next
  BY <1>1, <1>4 DEF TimeOut, Outcomes
<1>5. ASSUME NEW c \in Calls, Abandon(c)  PROVE Promise!Next
  BY <1>1, <1>5 DEF Abandon, Outcomes
<1>6. ASSUME NEW c \in Calls, Answer(c)  PROVE Promise!Next
  <2>1. answered[c] = "none" /\ ~NotHandedOver(c)
    BY <1>6 DEF Answer
  <2>2. outcome[c] \in {"none", "error", "timeout", "abandoned"}
    BY <2>1 DEF NotHandedOver, Outcomes
  <2>3. Executed' = Executed \cup {c} /\ c \notin Executed
    BY <1>6, <2>1 DEF Answer, Executed, Answers
  <2>4. Promise!Execute(c)
    BY <1>6, <2>2, <2>3 DEF Promise!Execute, Answer, Executed
  <2> QED  BY <2>4 DEF Promise!Next
<1>7. ASSUME NEW c \in Calls, Register(c) \/ Send(c) \/ Expire(c)  PROVE Same
  BY <1>7 DEF Register, Send, Expire
<1>8. CASE Write \/ WriteFails \/ WriterAborted
  BY <1>8, <1>a DEF Write, WriteFails, WriterAborted
<1>9. CASE Deliver \/ ReadEnds \/ Drain \/ ReaderAborted \/ Close \/ ChromeGoes
  BY <1>9, <1>a DEF Deliver, ReadEnds, Drain, ReaderAborted, Close, ChromeGoes
<1>10. CASE UNCHANGED vars
  BY <1>10, <1>a DEF vars
<1> QED
  BY <1>a, <1>2, <1>3, <1>4, <1>5, <1>6, <1>7, <1>8, <1>9, <1>10
  DEF Next, Call, WriterTask, ReaderTask, Finished

(* What a caller may conclude from its outcome, on every connection: a      *)
(* result was executed, an unsent command never is, and no command is       *)
(* executed twice.                                                          *)
THEOREM Implements == Spec => ImplementsRemoteCall
<1>1. Init => Promise!Init
  BY DEF Init, Promise!Init
<1>2. IInv /\ [Next]_vars => [Promise!Next]_(Promise!vars)
  BY NextImplements
<1> QED
  BY <1>1, <1>2, Inductive, PTL DEF Spec, ImplementsRemoteCall, Promise!Spec
=============================================================================
