------------------------------ MODULE WsProofs ------------------------------
(***************************************************************************)
(* What TLC checks of WsStream for two slots, for any number of slots and  *)
(* sockets.  The invariant says which slots s_client_count counts at each  *)
(* step of the handler and of the senders: the flag and the counter of a   *)
(* slot are changed one after the other.                                   *)
(***************************************************************************)
EXTENDS WsStream, FiniteSetTheorems, TLAPS

\* TypeOK but for the counter, whose range follows from what it counts.
Typed ==
  /\ in_use \in [Slots -> BOOLEAN]
  /\ step \in {"ready", "test", "take", "count", "start", "uncount"}
  /\ sock \in Sockets \cup {None} /\ slot \in Slots \cup {None}
  /\ task \in [Slots -> Sending \cup {"none", "wait", "close", "release", "uncount"}]
  /\ fd \in [Slots -> Sockets \cup {None}]
  /\ idle \in [Slots -> 0 .. IdleWaits]
  /\ unseen \in [Slots -> BOOLEAN] /\ published \in BOOLEAN
  /\ session \in [Sockets -> {"free", "http", "ws"}]
  /\ closing \subseteq Sockets
  /\ own \in [Slots -> BOOLEAN]

\* The handler's slot is in use and nobody else's until it has been given back.
HandlerInv ==
  /\ step # "ready" => sock \in Sockets
  /\ step \in {"count", "start"} => slot \in Slots /\ in_use[slot] /\ task[slot] = "none"
  /\ step = "uncount" => slot \in Slots /\ ~in_use[slot] /\ task[slot] = "none"

\* A sender has a socket, and a slot until it gives it back.
SenderInv ==
  \A i \in Slots :
    /\ Live(i) => fd[i] \in Sockets
    /\ Live(i) => (in_use[i] <=> task[i] # "uncount")

\* The slots that are counted.
Counted ==
  {i \in Slots : \/ in_use[i] /\ ~(step = "count" /\ slot = i)
                 \/ task[i] = "uncount"
                 \/ step = "uncount" /\ slot = i}

CountInv ==
  /\ s_client_count = Cardinality(Counted)
  /\ step = "take" => s_client_count < MaxClients

IInv == Typed /\ HandlerInv /\ SenderInv /\ CountInv

-----------------------------------------------------------------------------

LEMMA CountedFinite ==
  /\ IsFiniteSet(Counted) /\ Cardinality(Counted) \in 0 .. MaxClients
  /\ Counted = Slots => Cardinality(Counted) = MaxClients
<1>1. IsFiniteSet(Slots) /\ Cardinality(Slots) = MaxClients
  <2>1. MaxClients \in Nat  BY WsAssumption
  <2>2. 1 \in Int /\ MaxClients \in Int /\ (1 > MaxClients <=> MaxClients = 0)
    BY <2>1
  <2> QED BY <2>1, <2>2, FS_Interval DEF Slots
<1>2. Counted \subseteq Slots  BY DEF Counted
<1> QED BY <1>1, <1>2, FS_Subset, FS_CardinalityType, WsAssumption

LEMMA OneMore ==
  ASSUME NEW S, IsFiniteSet(S), NEW x, x \notin S
  PROVE  Cardinality(S \cup {x}) = Cardinality(S) + 1
BY FS_AddElement

LEMMA OneLess ==
  ASSUME NEW S, IsFiniteSet(S), NEW x, x \in S
  PROVE  Cardinality(S \ {x}) = Cardinality(S) - 1
BY FS_RemoveElement

LEMMA TypeFromParts == IInv => TypeOK
<1> SUFFICES ASSUME IInv PROVE TypeOK  OBVIOUS
<1>1. s_client_count \in 0 .. MaxClients  BY CountedFinite DEF IInv, CountInv
<1> QED BY <1>1 DEF IInv, Typed, TypeOK

\* Typed, HandlerInv, SenderInv and CountInv depend on these only.
LEMMA Frame ==
  ASSUME IInv, Typed', UNCHANGED <<in_use, s_client_count, step, sock, slot>>,
         \A i \in Slots :
           /\ task'[i] = "none" <=> task[i] = "none"
           /\ task'[i] = "uncount" <=> task[i] = "uncount"
           /\ fd'[i] = fd[i]
  PROVE  IInv'
<1>1. HandlerInv'  BY DEF IInv, HandlerInv
<1>2. SenderInv'   BY DEF IInv, SenderInv, Live
<1>3. Counted' = Counted  BY DEF Counted
<1>4. CountInv'    BY <1>3 DEF IInv, CountInv
<1> QED BY <1>1, <1>2, <1>4 DEF IInv

LEMMA InitIsSafe == Init => IInv
<1> SUFFICES ASSUME Init PROVE IInv  OBVIOUS
<1>1. Typed
  <2>1. 0 \in 0 .. IdleWaits  BY WsAssumption
  <2>2. idle \in [Slots -> 0 .. IdleWaits]  BY <2>1 DEF Init
  <2>3. task \in [Slots -> Sending \cup {"none", "wait", "close", "release", "uncount"}]
    BY DEF Init
  <2> QED BY <2>2, <2>3 DEF Init, Typed
<1>2. HandlerInv /\ SenderInv  BY DEF Init, HandlerInv, SenderInv, Live
<1>3. Counted = {}  BY DEF Init, Counted
<1>4. CountInv  BY <1>3, FS_EmptySet DEF Init, CountInv
<1> QED BY <1>1, <1>2, <1>4 DEF IInv

-----------------------------------------------------------------------------
(* The HTTP server and the camera *)

LEMMA CloseTyped ==
  ASSUME NEW s \in Sockets, Typed, Close(s)
  PROVE  /\ session' \in [Sockets -> {"free", "http", "ws"}]
         /\ own' \in [Slots -> BOOLEAN]
BY DEF Typed, Close

LEMMA ServerStep ==
  ASSUME IInv, NEW s \in Sockets, Accept(s) \/ HangUp(s) \/ CloseAsked(s)
  PROVE  IInv'
<1>1. CASE Accept(s)
  <2>1. Typed'  BY <1>1 DEF IInv, Typed, Accept, tableVars, handlerVars, senderVars
  <2> QED BY <1>1, <2>1, Frame DEF Accept, tableVars, handlerVars, senderVars
<1>2. CASE HangUp(s)
  <2>1. Typed'
    BY <1>2, CloseTyped DEF IInv, Typed, HangUp, tableVars, handlerVars, senderVars
  <2> QED BY <1>2, <2>1, Frame DEF HangUp, tableVars, handlerVars, senderVars
<1>3. CASE CloseAsked(s)
  <2>1. Typed'
    BY <1>3, CloseTyped DEF IInv, Typed, CloseAsked, tableVars, handlerVars, senderVars
  <2> QED BY <1>3, <2>1, Frame DEF CloseAsked, tableVars, handlerVars, senderVars
<1> QED BY <1>1, <1>2, <1>3

LEMMA NewFrameStep ==
  ASSUME IInv, NewFrame
  PROVE  IInv'
<1>1. Typed'
  BY DEF IInv, Typed, NewFrame, Live, tableVars, handlerVars, serverVars
<1> QED BY <1>1, Frame DEF NewFrame, tableVars, handlerVars

-----------------------------------------------------------------------------
(* The handler *)

LEMMA HandshakeStep ==
  ASSUME IInv, NEW s \in Sockets, Handshake(s)
  PROVE  IInv'
<1> USE DEF IInv
<1>1. Typed'  BY DEF Typed, Handshake, tableVars, senderVars
<1>2. HandlerInv' /\ SenderInv'
  BY DEF Handshake, HandlerInv, SenderInv, Live, tableVars, senderVars
<1>3. Counted' = Counted  BY DEF Counted, Handshake, tableVars, senderVars
<1>4. CountInv'  BY <1>3 DEF CountInv, Handshake, tableVars
<1> QED BY <1>1, <1>2, <1>4

LEMMA TestCountStep ==
  ASSUME IInv, TestCount
  PROVE  IInv'
<1> USE DEF IInv
<1>1. Typed'  BY DEF Typed, TestCount, tableVars, senderVars, serverVars
<1>2. HandlerInv' /\ SenderInv'
  BY DEF TestCount, HandlerInv, SenderInv, Live, tableVars, senderVars
<1>3. Counted' = Counted  BY DEF Counted, TestCount, tableVars, senderVars
<1>4. s_client_count \in Nat  BY CountedFinite DEF CountInv
<1>5. step' = "take" => s_client_count < MaxClients
  BY <1>4, WsAssumption DEF TestCount
<1>6. CountInv'  BY <1>3, <1>5 DEF CountInv, TestCount, tableVars
<1> QED BY <1>1, <1>2, <1>6

LEMMA TakeSlotStep ==
  ASSUME IInv, TakeSlot
  PROVE  IInv'
<1> USE DEF IInv
<1>0. sock \in Sockets  BY DEF HandlerInv, TakeSlot
<1>1. CASE \E i \in Slots : ~in_use[i]
  <2>1. PICK i \in Slots :
          FirstFree(i) /\ in_use' = [in_use EXCEPT ![i] = TRUE] /\ slot' = i
    BY <1>1 DEF TakeSlot
  <2>2. /\ step = "take" /\ ~Locked /\ step' = "count" /\ ~in_use[i]
        /\ UNCHANGED <<sock, session, own, s_client_count, senderVars, published, closing>>
    BY <1>1, <2>1 DEF TakeSlot, FirstFree
  <2>3. task[i] = "none"
    BY <2>2 DEF SenderInv, Live, Locked
  <2>4. Typed'  BY <2>1, <2>2 DEF Typed, senderVars
  <2>5. HandlerInv'
    BY <1>0, <2>1, <2>2, <2>3 DEF HandlerInv, Typed, senderVars
  <2>6. SenderInv'
    BY <2>1, <2>2, <2>3 DEF SenderInv, Live, Typed, senderVars
  <2>7. Counted' = Counted
    BY <2>1, <2>2, <2>3 DEF Counted, Typed, senderVars
  <2>8. CountInv'  BY <2>2, <2>7 DEF CountInv
  <2> QED BY <2>4, <2>5, <2>6, <2>8
<1>2. CASE ~ \E i \in Slots : ~in_use[i]
  <2>1. /\ Close(sock) /\ step = "take" /\ step' = "ready" /\ sock' = None
        /\ UNCHANGED <<in_use, slot, s_client_count, senderVars, published, closing>>
    BY <1>2 DEF TakeSlot
  <2>2. Typed'  BY <1>0, <2>1, CloseTyped DEF Typed, senderVars
  <2>3. HandlerInv' /\ SenderInv'
    BY <2>1 DEF HandlerInv, SenderInv, Live, senderVars
  <2>4. Counted' = Counted  BY <2>1 DEF Counted, senderVars
  <2>5. CountInv'  BY <2>1, <2>4 DEF CountInv
  <2> QED BY <2>2, <2>3, <2>5
<1> QED BY <1>1, <1>2

LEMMA CountStep ==
  ASSUME IInv, Count
  PROVE  IInv'
<1> USE DEF IInv
<1>1. Typed'  BY DEF Typed, Count, senderVars, serverVars
<1>2. HandlerInv' /\ SenderInv'
  BY DEF Count, HandlerInv, SenderInv, Live, senderVars
<1>3. slot \in Slots /\ in_use[slot] /\ task[slot] = "none" /\ slot \notin Counted
  BY DEF HandlerInv, Count, Counted
<1>4. Counted' = Counted \cup {slot}
  BY <1>3 DEF Counted, Count, senderVars
<1>5. Cardinality(Counted') = Cardinality(Counted) + 1
  BY <1>3, <1>4, CountedFinite, OneMore
<1>6. CountInv'  BY <1>5 DEF CountInv, Count
<1> QED BY <1>1, <1>2, <1>6

LEMMA StartSenderStep ==
  ASSUME IInv, StartSender
  PROVE  IInv'
<1> USE DEF IInv
<1>1. slot \in Slots /\ in_use[slot] /\ task[slot] = "none" /\ sock \in Sockets
  BY DEF HandlerInv, StartSender
<1>2. Typed'
  BY <1>1, WsAssumption DEF Typed, StartSender, Sending, tableVars, serverVars
<1>3. HandlerInv' /\ SenderInv'
  BY <1>1 DEF StartSender, HandlerInv, SenderInv, Live, Typed, tableVars
<1>4. Counted' = Counted
  BY <1>1 DEF Counted, StartSender, Typed, tableVars
<1>5. CountInv'  BY <1>4 DEF CountInv, StartSender, tableVars
<1> QED BY <1>2, <1>3, <1>5

LEMMA StartFailsStep ==
  ASSUME IInv, StartFails
  PROVE  IInv'
<1> USE DEF IInv
<1>1. slot \in Slots /\ in_use[slot] /\ task[slot] = "none" /\ sock \in Sockets
  BY DEF HandlerInv, StartFails
<1>2. Typed'  BY <1>1 DEF Typed, StartFails, senderVars, serverVars
<1>3. HandlerInv' /\ SenderInv'
  BY <1>1 DEF StartFails, HandlerInv, SenderInv, Live, Typed, senderVars
<1>4. Counted' = Counted
  BY <1>1 DEF Counted, StartFails, Typed, senderVars
<1>5. CountInv'  BY <1>4 DEF CountInv, StartFails
<1> QED BY <1>2, <1>3, <1>5

LEMMA RefuseStep ==
  ASSUME IInv, Refuse
  PROVE  IInv'
<1> USE DEF IInv
<1>1. /\ slot \in Slots /\ ~in_use[slot] /\ task[slot] = "none" /\ sock \in Sockets
      /\ slot \in Counted
  BY DEF HandlerInv, Refuse, Counted
<1>2. Typed'  BY <1>1, CloseTyped DEF Typed, Refuse, senderVars
<1>3. HandlerInv' /\ SenderInv'
  BY DEF Refuse, HandlerInv, SenderInv, Live, senderVars
<1>4. Counted' = Counted \ {slot}
  BY <1>1 DEF Counted, Refuse, senderVars
<1>5. Cardinality(Counted') = Cardinality(Counted) - 1
  BY <1>1, <1>4, CountedFinite, OneLess
<1>6. CountInv'  BY <1>5 DEF CountInv, Refuse
<1> QED BY <1>2, <1>3, <1>6

-----------------------------------------------------------------------------
(* The senders *)

\* The steps of a sender that keeps its slot.
LEMMA SenderStep ==
  ASSUME IInv, NEW i \in Slots,
         \/ TakeFrame(i) \/ WaitTimesOut(i) \/ Send(i)
         \/ SendFails(i) \/ TriggerClose(i)
  PROVE  IInv'
<1> DEFINE Kept == Sending \cup {"wait", "close", "release"}
<1>1. PICK what \in Kept : task' = [task EXCEPT ![i] = what] /\ task[i] \in Kept
  <2>1. CASE TakeFrame(i)  BY <2>1 DEF TakeFrame, Goto, Sending
  <2>2. CASE WaitTimesOut(i)  BY <2>2 DEF WaitTimesOut, Goto, Sending
  <2>3. CASE Send(i)
    <3>1. AfterSend[task[i]] \in Kept  BY <2>3 DEF Send, AfterSend, Sending
    <3> QED BY <2>3, <3>1 DEF Send, Goto
  <2>4. CASE SendFails(i)  BY <2>4 DEF SendFails, Goto, Sending
  <2>5. CASE TriggerClose(i)  BY <2>5 DEF TriggerClose, Goto, Sending
  <2> QED BY <2>1, <2>2, <2>3, <2>4, <2>5
<1>2. /\ UNCHANGED <<in_use, s_client_count, step, sock, slot, fd, published, session, own>>
      /\ task[i] # "none"
  BY <1>1 DEF TakeFrame, WaitTimesOut, Send, SendFails, TriggerClose, Sending, tableVars,
              handlerVars, senderVars, serverVars
<1>3. idle' \in [Slots -> 0 .. IdleWaits]
  <2>1. idle \in [Slots -> 0 .. IdleWaits] /\ IdleWaits \in Nat
    BY WsAssumption DEF IInv, Typed
  <2>2. CASE TakeFrame(i)  BY <2>1, <2>2 DEF TakeFrame
  <2>3. CASE WaitTimesOut(i)  BY <2>1, <2>3 DEF WaitTimesOut
  <2>4. CASE Send(i) \/ SendFails(i) \/ TriggerClose(i)
    BY <2>1, <2>4 DEF Send, SendFails, TriggerClose
  <2> QED BY <2>2, <2>3, <2>4
<1>4. unseen' \in [Slots -> BOOLEAN]
  BY DEF IInv, Typed, TakeFrame, WaitTimesOut, Send, SendFails, TriggerClose, senderVars
<1>5. closing' \subseteq Sockets
  <2>1. CASE TriggerClose(i)
    <3>1. fd[i] \in Sockets  BY <1>2 DEF IInv, SenderInv, Live
    <3> QED BY <2>1, <3>1 DEF IInv, Typed, TriggerClose
  <2>2. CASE ~TriggerClose(i)
    BY <2>2 DEF IInv, Typed, TakeFrame, WaitTimesOut, Send, SendFails, serverVars
  <2> QED BY <2>1, <2>2
<1>6. task' \in [Slots -> Sending \cup {"none", "wait", "close", "release", "uncount"}]
  BY <1>1 DEF IInv, Typed
<1>7. Typed'  BY <1>2, <1>3, <1>4, <1>5, <1>6 DEF IInv, Typed
<1>8. \A j \in Slots :
        /\ task'[j] = "none" <=> task[j] = "none"
        /\ task'[j] = "uncount" <=> task[j] = "uncount"
        /\ fd'[j] = fd[j]
  BY <1>1, <1>2 DEF IInv, Typed, Sending
<1> QED BY <1>2, <1>7, <1>8, Frame

LEMMA ReleaseStep ==
  ASSUME IInv, NEW i \in Slots, Release(i)
  PROVE  IInv'
<1> USE DEF IInv
<1>1. /\ task[i] = "release" /\ in_use[i] /\ ~Locked
      /\ in_use' = [in_use EXCEPT ![i] = FALSE] /\ task' = [task EXCEPT ![i] = "uncount"]
      /\ UNCHANGED <<s_client_count, handlerVars, fd, idle, unseen, published, serverVars, own>>
  BY DEF Release, Goto, SenderInv, Live
<1>2. ~(step \in {"count", "start"} /\ slot = i)  BY <1>1 DEF HandlerInv
<1>3. Typed'  BY <1>1 DEF Typed, handlerVars, serverVars
<1>4. HandlerInv'
  BY <1>1, <1>2 DEF HandlerInv, Locked, Typed, handlerVars
<1>5. SenderInv'  BY <1>1 DEF SenderInv, Live, Typed
<1>6. Counted' = Counted
  BY <1>1, <1>2 DEF Counted, Typed, handlerVars
<1>7. CountInv'  BY <1>1, <1>6 DEF CountInv, handlerVars
<1> QED BY <1>3, <1>4, <1>5, <1>7

LEMMA UncountStep ==
  ASSUME IInv, NEW i \in Slots, Uncount(i)
  PROVE  IInv'
<1> USE DEF IInv
<1>1. /\ task[i] = "uncount" /\ ~in_use[i] /\ i \in Counted
      /\ s_client_count' = s_client_count - 1
      /\ task' = [task EXCEPT ![i] = "none"] /\ fd' = [fd EXCEPT ![i] = None]
      /\ UNCHANGED <<in_use, handlerVars, published, serverVars>>
  BY DEF Uncount, SenderInv, Live, Counted
<1>2. ~(step \in {"count", "start", "uncount"} /\ slot = i)  BY <1>1 DEF HandlerInv
<1>3. Typed'
  BY <1>1, WsAssumption DEF Typed, Uncount, Sending, handlerVars, serverVars
<1>4. HandlerInv'
  BY <1>1, <1>2 DEF HandlerInv, Typed, handlerVars
<1>5. SenderInv'  BY <1>1 DEF SenderInv, Live, Typed
<1>6. Counted' = Counted \ {i}
  BY <1>1, <1>2 DEF Counted, Typed, handlerVars
<1>7. Cardinality(Counted') = Cardinality(Counted) - 1
  BY <1>1, <1>6, CountedFinite, OneLess
<1>8. Cardinality(Counted) \in Nat  BY CountedFinite
<1>9. CountInv'  BY <1>1, <1>7, <1>8, WsAssumption DEF CountInv, handlerVars
<1> QED BY <1>3, <1>4, <1>5, <1>9

-----------------------------------------------------------------------------

LEMMA NextIsSafe == IInv /\ [Next]_vars => IInv'
<1> SUFFICES ASSUME IInv, [Next]_vars PROVE IInv'  OBVIOUS
<1>1. CASE Handler
  BY <1>1, TestCountStep, TakeSlotStep, CountStep, StartSenderStep, StartFailsStep,
     RefuseStep DEF Handler
<1>2. CASE \E i \in Slots : Sender(i)
  BY <1>2, SenderStep, ReleaseStep, UncountStep DEF Sender
<1>3. CASE \E s \in Sockets : Accept(s) \/ HangUp(s) \/ CloseAsked(s) \/ Handshake(s)
  BY <1>3, ServerStep, HandshakeStep
<1>4. CASE NewFrame  BY <1>4, NewFrameStep
<1>5. CASE UNCHANGED vars
  <2>1. Typed'
    BY <1>5 DEF vars, tableVars, handlerVars, senderVars, serverVars, IInv, Typed
  <2> QED BY <1>5, <2>1, Frame
       DEF vars, tableVars, handlerVars, senderVars, serverVars
<1> QED BY <1>1, <1>2, <1>3, <1>4, <1>5 DEF Next

LEMMA AlwaysIInv == Spec => []IInv
BY InitIsSafe, NextIsSafe, PTL DEF Spec

\* Every variable keeps its type; in particular the counter of clients, which
\* two tasks change outside the mutex (ws_stream.c:97, :112), stays within the
\* table's size and never becomes negative.
THEOREM WsTypeCorrect == Spec => []TypeOK
BY AlwaysIInv, TypeFromParts, PTL

\* A client that has passed the test of the counter finds a free slot: those in
\* use are counted, or one of them is the handler's own (ws_stream.c:275).
THEOREM SlotsAreFound == Spec => []SlotIsFound
<1>1. IInv => SlotIsFound
  <2> SUFFICES ASSUME IInv, step = "take", \A i \in Slots : in_use[i] PROVE FALSE
    BY DEF SlotIsFound
  <2>1. Counted = Slots  BY DEF Counted
  <2> QED BY <2>1, CountedFinite, WsAssumption DEF IInv, CountInv
<1> QED BY <1>1, AlwaysIInv, PTL

=============================================================================
