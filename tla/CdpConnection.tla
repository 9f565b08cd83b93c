---------------------------- MODULE CdpConnection ----------------------------
(***************************************************************************)
(* browser::cdp::CdpConnection: concurrent callers share one WebSocket to   *)
(* Chrome through a writer task, a reader task and a map of pending replies *)
(* keyed by message id.  Ids come from a process-wide 64-bit counter, so a  *)
(* call stands for its id.  Protocol events take another channel and are    *)
(* not modelled here.                                                       *)
(***************************************************************************)
EXTENDS Sequences

CONSTANTS
    Calls,      \* the calls made on the connection
    Abandoning  \* the calls whose future may be dropped with its request

ASSUME CdpAssumption == Abandoning \subseteq Calls

VARIABLES
    pc,        \* where each call is
    outcome,   \* what each caller got
    reply,     \* what the oneshot channel of each call holds
    pending,   \* the calls in the pending map
    outbox,    \* the channel from the callers to the writer task
    writer,    \* the writer task
    inbox,     \* the answers on their way to the reader task
    reader,    \* the reader task
    socket,    \* whether Chrome still serves the WebSocket
    received,  \* the commands Chrome has received and not answered
    answered,  \* what Chrome answered to each command
    closed     \* close() has aborted the two tasks

vars == <<pc, outcome, reply, pending, outbox, writer, inbox, reader, socket,
          received, answered, closed>>

caller == <<pc, outcome>>
tasks == <<writer, reader, closed>>
chrome == <<socket, received, answered>>

(* "registered" in the map, not yet sent;  "sent" awaiting the reply or the *)
(* timeout;  "unsent" the writer is gone, "expired" the timeout fired: each *)
(* awaiting the map's lock to take its entry out;  "done" returned, or      *)
(* dropped.                                                                 *)
Stages == {"new", "registered", "sent", "unsent", "expired", "done"}

Outcomes == {"result", "error", "timeout", "unsent", "abandoned"}

Answers == {"result", "error"}

(* A call has an outcome exactly when it is done. *)
TypeOK ==
    /\ pc \in [Calls -> Stages]
    /\ outcome \in [Calls -> Outcomes \cup {"none"}]
    /\ \A c \in Calls : outcome[c] # "none" <=> pc[c] = "done"
    /\ reply \in [Calls -> Answers \cup {"none"}]
    /\ pending \subseteq Calls
    /\ outbox \in Seq(Calls)
    /\ writer \in {"running", "stopped"}
    /\ inbox \in Seq(Calls)
    /\ reader \in {"reading", "draining", "stopped"}
    /\ socket \in {"open", "closed"}
    /\ received \subseteq Calls
    /\ answered \in [Calls -> Answers \cup {"none"}]
    /\ closed \in BOOLEAN

Init ==
    /\ pc = [c \in Calls |-> "new"]
    /\ outcome = [c \in Calls |-> "none"]
    /\ reply = [c \in Calls |-> "none"]
    /\ pending = {}
    /\ outbox = <<>>
    /\ writer = "running"
    /\ inbox = <<>>
    /\ reader = "reading"
    /\ socket = "open"
    /\ received = {}
    /\ answered = [c \in Calls |-> "none"]
    /\ closed = FALSE

(* The call returns o, or is dropped with outcome o. *)
End(c, o) ==
    /\ pc' = [pc EXCEPT ![c] = "done"]
    /\ outcome' = [outcome EXCEPT ![c] = o]

-----------------------------------------------------------------------------
(* Forms of the actions below with a plausible bug; the specification uses  *)
(* none of them.  They show which property would notice the bug.            *)

(* The id is not put in the map before the message goes out. *)
RegisterNothing(c) ==
    /\ pc[c] = "new"
    /\ pc' = [pc EXCEPT ![c] = "registered"]
    /\ UNCHANGED <<outcome, reply, pending, outbox, inbox, tasks, chrome>>

(* The timeout leaves its entry in the map. *)
TimeOutKeepingEntry(c) ==
    /\ pc[c] = "expired"
    /\ End(c, "timeout")
    /\ UNCHANGED <<reply, pending, outbox, inbox, tasks, chrome>>

(* The reader empties the map and tells nobody. *)
DrainSilently ==
    /\ reader = "draining"
    /\ pending' = {}
    /\ reader' = "stopped"
    /\ UNCHANGED <<caller, reply, outbox, writer, inbox, chrome, closed>>

(* The message is sent first; only then is the writer found to be gone. *)
SendThenFail(c) ==
    /\ pc[c] = "registered"
    /\ outbox' = Append(outbox, c)
    /\ \E s \in {"sent", "unsent"} : pc' = [pc EXCEPT ![c] = s]
    /\ UNCHANGED <<outcome, reply, pending, inbox, tasks, chrome>>

(* The wait has no timeout. *)
NeverExpire(c) == FALSE /\ UNCHANGED <<vars, c>>

-----------------------------------------------------------------------------
(* CdpConnection::call                                                      *)

Register(c) ==
    /\ pc[c] = "new"
    /\ pending' = pending \cup {c}
    /\ pc' = [pc EXCEPT ![c] = "registered"]
    /\ UNCHANGED <<outcome, reply, outbox, inbox, tasks, chrome>>

(* The channel takes the message as long as the writer task holds its end.  *)
Send(c) ==
    /\ pc[c] = "registered"
    /\ \/ /\ writer = "running"
          /\ outbox' = Append(outbox, c)
          /\ pc' = [pc EXCEPT ![c] = "sent"]
       \/ /\ writer = "stopped"
          /\ pc' = [pc EXCEPT ![c] = "unsent"]
          /\ UNCHANGED outbox
    /\ UNCHANGED <<outcome, reply, pending, inbox, tasks, chrome>>

ReportUnsent(c) ==
    /\ pc[c] = "unsent"
    /\ pending' = pending \ {c}
    /\ End(c, "unsent")
    /\ UNCHANGED <<reply, outbox, inbox, tasks, chrome>>

Receive(c) ==
    /\ pc[c] = "sent"
    /\ reply[c] # "none"
    /\ End(c, reply[c])
    /\ UNCHANGED <<reply, pending, outbox, inbox, tasks, chrome>>

(* tokio's timeout looks at the reply first: it expires only without one.   *)
Expire(c) ==
    /\ pc[c] = "sent"
    /\ reply[c] = "none"
    /\ pc' = [pc EXCEPT ![c] = "expired"]
    /\ UNCHANGED <<outcome, reply, pending, outbox, inbox, tasks, chrome>>

TimeOut(c) ==
    /\ pc[c] = "expired"
    /\ pending' = pending \ {c}
    /\ End(c, "timeout")
    /\ UNCHANGED <<reply, outbox, inbox, tasks, chrome>>

(* The request that awaits the call is dropped with its client; the map     *)
(* keeps the entry.                                                         *)
Abandon(c) ==
    /\ c \in Abandoning
    /\ pc[c] \in {"sent", "unsent", "expired"}
    /\ End(c, "abandoned")
    /\ UNCHANGED <<reply, pending, outbox, inbox, tasks, chrome>>

-----------------------------------------------------------------------------
(* The writer task                                                          *)

(* write.send succeeds; with the peer gone the bytes may still be accepted  *)
(* by the kernel and reach nobody.                                          *)
Write ==
    /\ writer = "running"
    /\ outbox # <<>>
    /\ outbox' = Tail(outbox)
    /\ received' = IF socket = "open" THEN received \cup {Head(outbox)} ELSE received
    /\ UNCHANGED <<caller, reply, pending, inbox, tasks, socket, answered>>

(* write.send fails: the task ends and its channel goes with all it holds.  *)
WriteFails ==
    /\ writer = "running"
    /\ outbox # <<>>
    /\ socket = "closed"
    /\ writer' = "stopped"
    /\ outbox' = <<>>
    /\ UNCHANGED <<caller, reply, pending, inbox, reader, closed, chrome>>

WriterAborted ==
    /\ closed
    /\ writer = "running"
    /\ writer' = "stopped"
    /\ outbox' = <<>>
    /\ UNCHANGED <<caller, reply, pending, inbox, reader, closed, chrome>>

-----------------------------------------------------------------------------
(* The reader task                                                          *)

(* A reply is handed over under the lock of the map, or dropped when the    *)
(* caller has already taken its entry out.  A channel whose caller is done  *)
(* takes nothing.                                                           *)
Deliver ==
    /\ reader = "reading"
    /\ inbox # <<>>
    /\ LET c == Head(inbox) IN
        /\ pending' = pending \ {c}
        /\ reply' = IF c \in pending /\ pc[c] = "sent"
                    THEN [reply EXCEPT ![c] = answered[c]] ELSE reply
    /\ inbox' = Tail(inbox)
    /\ UNCHANGED <<caller, outbox, tasks, chrome>>

(* A Close frame, the end of the stream, or a read error: whatever is still *)
(* in the socket is not read any more.  Chrome may be alive and well, as    *)
(* when a message exceeds the WebSocket's size limit.                       *)
ReadEnds ==
    /\ reader = "reading"
    /\ reader' = "draining"
    /\ UNCHANGED <<caller, reply, pending, outbox, writer, inbox, chrome, closed>>

Drain ==
    /\ reader = "draining"
    /\ reply' = [c \in Calls |->
                    IF c \in pending /\ pc[c] \in {"registered", "sent"}
                    THEN "error" ELSE reply[c]]
    /\ pending' = {}
    /\ reader' = "stopped"
    /\ UNCHANGED <<caller, outbox, writer, inbox, chrome, closed>>

(* An aborted task stops at an await: the reader does not get to its drain. *)
ReaderAborted ==
    /\ closed
    /\ reader \in {"reading", "draining"}
    /\ reader' = "stopped"
    /\ UNCHANGED <<caller, reply, pending, outbox, writer, inbox, chrome, closed>>

-----------------------------------------------------------------------------
(* CdpConnection::close *)
Close ==
    /\ ~closed
    /\ closed' = TRUE
    /\ UNCHANGED <<caller, reply, pending, outbox, writer, inbox, reader, chrome>>

-----------------------------------------------------------------------------
(* Chrome, as the code in src/ meets it: it answers each command once, in   *)
(* any order, or never, and it may go away.                                 *)
Answer(c) ==
    /\ socket = "open"
    /\ c \in received
    /\ \E a \in Answers : answered' = [answered EXCEPT ![c] = a]
    /\ received' = received \ {c}
    /\ inbox' = Append(inbox, c)
    /\ UNCHANGED <<caller, reply, pending, outbox, tasks, socket>>

ChromeGoes ==
    /\ socket = "open"
    /\ socket' = "closed"
    /\ received' = {}
    /\ UNCHANGED <<caller, reply, pending, outbox, inbox, tasks, answered>>

-----------------------------------------------------------------------------
Call(c) ==
    \/ Register(c)
    \/ Send(c)
    \/ ReportUnsent(c)
    \/ Receive(c)
    \/ Expire(c)
    \/ TimeOut(c)

WriterTask == Write \/ WriteFails \/ WriterAborted

ReaderTask == Deliver \/ Drain \/ ReaderAborted

(* Every caller has returned and there is nothing left to read or write. *)
Finished ==
    /\ \A c \in Calls : pc[c] = "done"
    /\ UNCHANGED vars

Next ==
    \/ \E c \in Calls : Call(c) \/ Abandon(c) \/ Answer(c)
    \/ WriterTask
    \/ ReaderTask
    \/ ReadEnds
    \/ Close
    \/ ChromeGoes
    \/ Finished

Spec == Init /\ [][Next]_vars

(* Only the callers and their timers have to make progress: Chrome may be   *)
(* silent, and nothing is assumed of the two tasks.                         *)
Fairness == \A c \in Calls : WF_vars(Call(c))

FairSpec == Spec /\ Fairness

-----------------------------------------------------------------------------
(* A caller that waits without a reply is in the map, where the reader's    *)
(* next message or its drain finds it: register-before-send (cdp.rs:114)    *)
(* and handing over under the map's lock leave no moment at which a reply   *)
(* could be missed.                                                         *)
WaitersReachable ==
    \A c \in Calls : pc[c] = "sent" /\ reply[c] = "none" => c \in pending

(* The map holds no entry of a call that has returned: replies, refusals    *)
(* and timeouts each take theirs out.  Only a dropped call leaves one       *)
(* behind (until Chrome answers it or the reader drains).                   *)
PendingIsOwned ==
    \A c \in pending : pc[c] = "done" => outcome[c] = "abandoned"

(* A reply read off the socket for a caller that still waits reaches it.    *)
RepliesReachWaiters ==
    [][\A c \in Calls :
         /\ inbox # <<>> /\ c = Head(inbox) /\ inbox' = Tail(inbox)
         /\ pc[c] = "sent" /\ reply[c] = "none"
         => reply'[c] = answered[c]]_vars

(* Every call returns, even with Chrome silent and both tasks stuck. *)
CallsReturn == \A c \in Calls : <>(pc[c] = "done")

-----------------------------------------------------------------------------
(* The connection implements RemoteCall: Chrome has executed what it has    *)
(* received and answered, or lost by going away.                            *)
Promise == INSTANCE RemoteCall WITH
    executed <- {c \in Calls : answered[c] # "none"}

ImplementsRemoteCall == Promise!Spec
=============================================================================
