----------------------------- MODULE WsStream -----------------------------
(***************************************************************************)
(* The video streams of yy1 (net/ws_stream.c): the table of clients, the   *)
(* handler that runs on the one task of the HTTP server, and the sender    *)
(* tasks, which run on their own and know their client by the number of    *)
(* its socket only.                                                        *)
(*                                                                         *)
(* A socket number is free, in use by an HTTP session, or in use by a      *)
(* session whose handshake for /ws/stream is done; the server closes       *)
(* sessions whose client is gone (or that it purges, http_server.c:54) and *)
(* gives their numbers to new ones.  Frames come from the pool (FrameFeed);*)
(* that a sender wakes for each is shown there.  Nothing is sent by the    *)
(* clients themselves, and the requests that fail authentication leave no  *)
(* trace.                                                                  *)
(***************************************************************************)
EXTENDS Integers, FiniteSets

CONSTANTS MaxClients,   \* WS_STREAM_MAX_CLIENTS
          Sockets,      \* the socket numbers of the HTTP server
          IdleWaits,    \* waits without a frame a sender lives through
          None

ASSUME WsAssumption ==
  MaxClients \in Nat \ {0} /\ IdleWaits \in Nat /\ None \notin Sockets

VARIABLES
  in_use,           \* in_use[i]: s_clients[i].in_use
  s_client_count,
  step, sock, slot, \* the handler: what it does next, the socket, its slot
  task,             \* task[i]: what the sender of slot i does next
  fd,               \* fd[i]: its args.fd
  idle,             \* idle[i]: waits since its last frame
  unseen,           \* unseen[i]: the pool has a frame newer than last_seq
  published,        \* whether the pool has a frame at all
  session,          \* session[s]: what socket number s is used for
  closing,          \* sessions the HTTP server has been asked to close
  own               \* history: the session on fd[i] is still i's client's

tableVars   == <<in_use, s_client_count>>
handlerVars == <<step, sock, slot>>
senderVars  == <<task, fd, idle, unseen>>
serverVars  == <<session, closing>>
vars == <<tableVars, handlerVars, senderVars, published, serverVars, own>>

Slots == 1 .. MaxClients
Sending == {"binary", "motion", "face"}
Live(i) == task[i] # "none"

Init ==
  /\ in_use = [i \in Slots |-> FALSE] /\ s_client_count = 0
  /\ step = "ready" /\ sock = None /\ slot = None
  /\ task = [i \in Slots |-> "none"] /\ fd = [i \in Slots |-> None]
  /\ idle = [i \in Slots |-> 0] /\ unseen = [i \in Slots |-> FALSE]
  /\ published = FALSE
  /\ session = [s \in Sockets |-> "free"] /\ closing = {}
  /\ own = [i \in Slots |-> FALSE]

-----------------------------------------------------------------------------
(* The HTTP server's task, between two handlers. *)

Accept(s) ==
  /\ step = "ready" /\ session[s] = "free"
  /\ session' = [session EXCEPT ![s] = "http"]
  /\ UNCHANGED <<tableVars, handlerVars, senderVars, published, closing, own>>

\* The session on s is closed; a new client may get the number at once.
Close(s) ==
  /\ session' = [session EXCEPT ![s] = "free"]
  /\ own' = [i \in Slots |-> own[i] /\ fd[i] # s]

\* The client has gone away, or the server needs the socket for another.
HangUp(s) ==
  /\ step = "ready" /\ session[s] # "free"
  /\ Close(s)
  /\ UNCHANGED <<tableVars, handlerVars, senderVars, published, closing>>

\* The work httpd_sess_trigger_close has queued closes whatever session the
\* number then belongs to.
CloseAsked(s) ==
  /\ step = "ready" /\ s \in closing
  /\ closing' = closing \ {s}
  /\ Close(s)
  /\ UNCHANGED <<tableVars, handlerVars, senderVars, published>>

-----------------------------------------------------------------------------
(* ws_stream_handler, after authentication. *)

\* The part of clients_release_slot that is under the mutex takes two steps,
\* for s_client_count is read outside it.
Locked == step = "uncount" \/ \E i \in Slots : task[i] = "uncount"

Handshake(s) ==
  /\ step = "ready" /\ session[s] = "http"
  /\ session' = [session EXCEPT ![s] = "ws"]
  /\ step' = "test" /\ sock' = s
  /\ UNCHANGED <<tableVars, slot, senderVars, published, closing, own>>

\* Mutant of TestCount: one client too many passes.
TestCountLate ==
  /\ step = "test"
  /\ IF s_client_count > MaxClients
     THEN step' = "ready" /\ sock' = None
     ELSE step' = "take" /\ UNCHANGED sock
  /\ UNCHANGED <<tableVars, slot, senderVars, published, serverVars, own>>

TestCount ==
  /\ step = "test"
  /\ IF s_client_count >= MaxClients
     THEN step' = "ready" /\ sock' = None
     ELSE step' = "take" /\ UNCHANGED sock
  /\ UNCHANGED <<tableVars, slot, senderVars, published, serverVars, own>>

FirstFree(i) == ~in_use[i] /\ \A j \in Slots : j < i => in_use[j]

\* clients_acquire_slot under the mutex; without a free slot the handler fails.
TakeSlot ==
  /\ step = "take" /\ ~Locked
  /\ IF \E i \in Slots : ~in_use[i]
     THEN /\ \E i \in Slots :
               /\ FirstFree(i)
               /\ in_use' = [in_use EXCEPT ![i] = TRUE]
               /\ slot' = i
          /\ step' = "count"
          /\ UNCHANGED <<sock, session, own>>
     ELSE /\ Close(sock)
          /\ step' = "ready" /\ sock' = None
          /\ UNCHANGED <<in_use, slot>>
  /\ UNCHANGED <<s_client_count, senderVars, published, closing>>

\* Mutant of Count: the client is not counted.
CountNothing ==
  /\ step = "count"
  /\ step' = "start"
  /\ UNCHANGED <<tableVars, sock, slot, senderVars, published, serverVars, own>>

Count ==
  /\ step = "count"
  /\ s_client_count' = s_client_count + 1
  /\ step' = "start"
  /\ UNCHANGED <<in_use, sock, slot, senderVars, published, serverVars, own>>

StartSender ==
  /\ step = "start"
  /\ task' = [task EXCEPT ![slot] = "wait"]
  /\ fd' = [fd EXCEPT ![slot] = sock]
  /\ idle' = [idle EXCEPT ![slot] = 0]
  /\ unseen' = [unseen EXCEPT ![slot] = published]
  /\ own' = [own EXCEPT ![slot] = TRUE]
  /\ step' = "ready" /\ sock' = None /\ slot' = None
  /\ UNCHANGED <<tableVars, published, serverVars>>

\* No memory for the arguments or for the task: the slot is given back ...
StartFails ==
  /\ step = "start" /\ ~Locked
  /\ in_use' = [in_use EXCEPT ![slot] = FALSE]
  /\ step' = "uncount"
  /\ UNCHANGED <<s_client_count, sock, slot, senderVars, published, serverVars, own>>

\* ... and the server closes the session of a handler that has failed.
Refuse ==
  /\ step = "uncount"
  /\ s_client_count' = s_client_count - 1
  /\ Close(sock)
  /\ step' = "ready" /\ sock' = None /\ slot' = None
  /\ UNCHANGED <<in_use, senderVars, published, closing>>

-----------------------------------------------------------------------------
(* ws_sender_task *)

Goto(i, what) == task' = [task EXCEPT ![i] = what]

TakeFrame(i) ==
  /\ task[i] = "wait" /\ unseen[i]
  /\ Goto(i, "binary")
  /\ idle' = [idle EXCEPT ![i] = 0]
  /\ unseen' = [unseen EXCEPT ![i] = FALSE]
  /\ UNCHANGED <<tableVars, handlerVars, fd, published, serverVars, own>>

\* Mutant of WaitTimesOut: a timeout counts as a frame.
WaitTimesOutRestarting(i) ==
  /\ task[i] = "wait" /\ ~unseen[i]
  /\ Goto(i, "wait")
  /\ idle' = [idle EXCEPT ![i] = 0]
  /\ UNCHANGED <<tableVars, handlerVars, fd, unseen, published, serverVars, own>>

WaitTimesOut(i) ==
  /\ task[i] = "wait" /\ ~unseen[i]
  /\ IF idle[i] < IdleWaits
     THEN Goto(i, "wait") /\ idle' = [idle EXCEPT ![i] = @ + 1]
     ELSE Goto(i, "close") /\ UNCHANGED idle
  /\ UNCHANGED <<tableVars, handlerVars, fd, unseen, published, serverVars, own>>

AfterSend == [binary |-> "motion", motion |-> "face", face |-> "wait"]

\* A frame goes to the session on the socket number, whosever it is; or there
\* is no text to send.
Send(i) ==
  /\ task[i] \in Sending
  /\ session[fd[i]] # "free" \/ task[i] # "binary"
  /\ Goto(i, AfterSend[task[i]])
  /\ UNCHANGED <<tableVars, handlerVars, fd, idle, unseen, published, serverVars, own>>

\* No session, or the connection has failed or timed out.
SendFails(i) ==
  /\ task[i] \in Sending
  /\ Goto(i, "close")
  /\ UNCHANGED <<tableVars, handlerVars, fd, idle, unseen, published, serverVars, own>>

TriggerClose(i) ==
  /\ task[i] = "close"
  /\ closing' = IF session[fd[i]] # "free" THEN closing \cup {fd[i]} ELSE closing
  /\ Goto(i, "release")
  /\ UNCHANGED <<tableVars, handlerVars, fd, idle, unseen, published, session, own>>

Release(i) ==
  /\ task[i] = "release" /\ ~Locked
  /\ in_use' = [in_use EXCEPT ![i] = FALSE]
  /\ Goto(i, "uncount")
  /\ UNCHANGED <<s_client_count, handlerVars, fd, idle, unseen, published, serverVars, own>>

Uncount(i) ==
  /\ task[i] = "uncount"
  /\ s_client_count' = s_client_count - 1
  /\ task' = [task EXCEPT ![i] = "none"]
  /\ fd' = [fd EXCEPT ![i] = None]
  /\ idle' = [idle EXCEPT ![i] = 0] /\ unseen' = [unseen EXCEPT ![i] = FALSE]
  /\ own' = [own EXCEPT ![i] = FALSE]
  /\ UNCHANGED <<in_use, handlerVars, published, serverVars>>

-----------------------------------------------------------------------------

\* cam_task publishes a frame.
NewFrame ==
  /\ published' = TRUE
  /\ unseen' = [i \in Slots |-> Live(i)]
  /\ UNCHANGED <<tableVars, handlerVars, task, fd, idle, serverVars, own>>

Handler == TestCount \/ TakeSlot \/ Count \/ StartSender \/ StartFails \/ Refuse

Sender(i) ==
  \/ TakeFrame(i) \/ WaitTimesOut(i) \/ Send(i) \/ SendFails(i)
  \/ TriggerClose(i) \/ Release(i) \/ Uncount(i)

Next ==
  \/ Handler
  \/ \E i \in Slots : Sender(i)
  \/ \E s \in Sockets : Accept(s) \/ HangUp(s) \/ CloseAsked(s) \/ Handshake(s)
  \/ NewFrame

\* Tasks run on, every wait and every send has a timeout, and the mutex, which
\* is held for a moment only, goes to the tasks that wait for it.  Clients and
\* the camera owe nothing.
Fairness ==
  /\ WF_vars(Handler)
  /\ \A i \in Slots : WF_vars(Sender(i)) /\ SF_vars(Release(i))

Spec == Init /\ [][Next]_vars /\ Fairness

-----------------------------------------------------------------------------

TypeOK ==
  /\ in_use \in [Slots -> BOOLEAN]
  /\ s_client_count \in 0 .. MaxClients
  /\ step \in {"ready", "test", "take", "count", "start", "uncount"}
  /\ sock \in Sockets \cup {None} /\ slot \in Slots \cup {None}
  /\ task \in [Slots -> Sending \cup {"none", "wait", "close", "release", "uncount"}]
  /\ fd \in [Slots -> Sockets \cup {None}]
  /\ idle \in [Slots -> 0 .. IdleWaits]
  /\ unseen \in [Slots -> BOOLEAN] /\ published \in BOOLEAN
  /\ session \in [Sockets -> {"free", "http", "ws"}]
  /\ closing \subseteq Sockets
  /\ own \in [Slots -> BOOLEAN]

\* A client that has passed the test of the counter finds a slot, although the
\* counter is tested and changed outside the mutex (ws_stream.c:275, :288).
SlotIsFound == step = "take" => \E i \in Slots : ~in_use[i]

\* A stream that gets no frames, or whose session is gone, gives its slot back,
\* unless a frame comes, or the socket number goes to another session, first
\* (ws_stream.c:144, :163).
StreamEnds ==
  \A i \in Slots :
    /\ task[i] = "wait" /\ ~unseen[i] ~> unseen[i] \/ ~in_use[i]
    /\ \A s \in Sockets :
         fd[i] = s /\ session[s] = "free" ~> ~in_use[i] \/ session[s] # "free"

\* What a sender sends goes to the client it was started for.
SendsToOwnClient ==
  \A i \in Slots : task[i] \in Sending /\ session[fd[i]] # "free" => own[i]

=============================================================================
