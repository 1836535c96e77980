---------------------------- MODULE ScoutProofs ----------------------------
(***************************************************************************)
(* The safety of Scout for any set of senders, any number of conditions    *)
(* and any timeouts, with faults or without: types, the flag "connected",  *)
(* and the lock that is a flag and not a count.                            *)
(***************************************************************************)
EXTENDS Scout, ScoutReports, TLAPS

HoldStates == ConnectStates \cup {"post"}

\* What sensor_reg sends is about a condition it has looked at, so there is a
\* next one to go on with when telegram_send returns.
EdgeInv == pc[Registry] \in HoldStates \cup {"take"} => edge \in Conds

IInv == TypeOK /\ ConnectedSound /\ LockIsOneHold /\ EdgeInv

-----------------------------------------------------------------------------
(* Where a step may take a task. *)

LEMMA RegistryIsSender == Registry \in Senders /\ Registry \in Tasks
BY ScoutAssumption DEF Registry, Tasks

LEMMA SwitcherIsTask == Switcher \in Tasks /\ Switcher \notin Senders
BY DualBandAssumption DEF Tasks

LEMMA GotoTypes ==
  ASSUME pc \in [Tasks -> States], waited \in [Tasks -> Nat],
         \A u \in Tasks : waited[u] <= ConnectTicks \/ waited[u] <= HttpTicks,
         NEW t \in Tasks, NEW state \in States, Goto(t, state)
  PROVE  /\ pc' \in [Tasks -> States] /\ waited' \in [Tasks -> Nat]
         /\ \A u \in Tasks : waited'[u] <= ConnectTicks \/ waited'[u] <= HttpTicks
         /\ pc'[t] = state
         /\ \A u \in Tasks \ {t} : pc'[u] = pc[u]
BY DualBandAssumption DEF Goto

LEMMA ReturnState ==
  ASSUME NEW t \in Tasks
  PROVE  /\ Return(t) \in States
         /\ t \in Senders => Return(t) = "post"
BY SwitcherIsTask DEF Return, States

\* Nobody takes or gives the lock, and nobody enters or leaves the part of
\* telegram_send that holds it.
LEMMA LockKept ==
  ASSUME LockIsOneHold, UNCHANGED <<task_lock, send_mutex>>,
         \A u \in Senders : pc'[u] \in HoldStates <=> pc[u] \in HoldStates
  PROVE  LockIsOneHold'
<1>1. Holding' = Holding  BY DEF Holding, HoldStates
<1> QED BY <1>1 DEF LockIsOneHold

-----------------------------------------------------------------------------
(* Every action keeps IInv. *)

LEMMA Initially == Init => IInv
<1> SUFFICES ASSUME Init PROVE IInv
  OBVIOUS
<1>1. pc \in [Tasks -> States]
  BY DEF Init, BandInit, States
<1>2. TypeOK
  <2>1. waited \in [Tasks -> Nat] /\ \A t \in Tasks : waited[t] <= ConnectTicks
    BY DualBandAssumption DEF Init, BandInit
  <2>2. edge \in 1 .. NConds + 1 /\ wdt \in 0 .. WdtTicks
    BY ScoutAssumption DEF Init
  <2> QED BY <1>1, <2>1, <2>2 DEF Init, BandInit, TypeOK, BandTypeOK, Bands, Nobody
<1>3. \A t \in Senders : pc[t] = "rest"
  BY SwitcherIsTask DEF Init, BandInit, Tasks
<1>4. LockIsOneHold /\ EdgeInv
  BY <1>3, RegistryIsSender
     DEF LockIsOneHold, EdgeInv, Holding, HoldStates, ConnectStates, Init, BandInit
<1> QED BY <1>2, <1>4 DEF IInv, ConnectedSound, Init, BandInit

LEMMA DriverKeeps == IInv /\ Driver => IInv'
<1> SUFFICES ASSUME IInv, Driver PROVE IInv'
  OBVIOUS
<1>1. UNCHANGED <<pc, waited, task_lock, target, send_mutex, s_mutex, registryVars, wdt>>
  BY DEF Driver, RadioUp, RadioFault, RadioLeft, Elsewhere
<1>2. TypeOK' /\ ConnectedSound'
  <2> USE DEF IInv, TypeOK, BandTypeOK, ConnectedSound, Elsewhere, registryVars
  <2>1. CASE RadioUp     BY <2>1, <1>1 DEF RadioUp, GotIp
  <2>2. CASE RadioFault  BY <2>2, <1>1 DEF RadioFault, Disconnected
  <2>3. CASE RadioLeft   BY <2>3, <1>1 DEF RadioLeft, Disconnected
  <2> QED BY <2>1, <2>2, <2>3 DEF Driver
<1>3. LockIsOneHold'  BY <1>1, LockKept DEF IInv
<1> QED BY <1>1, <1>2, <1>3 DEF IInv, EdgeInv, registryVars

LEMMA SwitchKeeps == IInv /\ SwitchStep /\ Elsewhere => IInv'
<1> SUFFICES ASSUME IInv, SwitchStep, Elsewhere PROVE IInv'
  OBVIOUS
<1>1. /\ UNCHANGED <<driverVars, wifiVars, task_lock>>
      /\ target' \in Bands
      /\ \E state \in States : Goto(Switcher, state)
  BY DEF SwitchStep, Reclaim, Window, WindowOver, States, ConnectStates,
         IInv, TypeOK, BandTypeOK, Bands
<1>2. PICK state \in States : Goto(Switcher, state)  BY <1>1
<1>3. TypeOK'
  BY <1>1, <1>2, SwitcherIsTask, GotoTypes
     DEF IInv, TypeOK, BandTypeOK, Elsewhere, driverVars, wifiVars, registryVars
<1>4. \A u \in Senders : pc'[u] = pc[u]
  BY <1>2, SwitcherIsTask, GotoTypes DEF IInv, TypeOK, BandTypeOK, Tasks
<1>5. LockIsOneHold'  BY <1>1, <1>4, LockKept DEF IInv, Elsewhere
<1> QED BY <1>1, <1>3, <1>4, <1>5, RegistryIsSender
        DEF IInv, EdgeInv, ConnectedSound, Elsewhere, driverVars, wifiVars, registryVars

LEMMA ConnectKeeps == ASSUME IInv, NEW t \in Tasks, Connect(t) PROVE IInv'
<1>1. ConnectStep(t) /\ Elsewhere  BY DEF Connect
<1> USE DEF IInv, TypeOK, BandTypeOK
<1>2. /\ UNCHANGED <<task_lock, target>>
      /\ pc[t] \in ConnectStates
      /\ \E state \in States : /\ Goto(t, state)
                               /\ t \in Senders => state \in HoldStates
  <2> USE ReturnState DEF ConnectStates, HoldStates, States
  <2>1. CASE Begin(t)          BY <2>1 DEF Begin
  <2>2. CASE ClearBits(t)      BY <2>2 DEF ClearBits
  <2>3. CASE SetBand(t)        BY <2>3 DEF SetBand
  <2>4. CASE Configure(t)      BY <2>4 DEF Configure
  <2>5. CASE ConfigRefused(t)  BY <2>5 DEF ConfigRefused
  <2>6. CASE WaitReturns(t)    BY <2>6 DEF WaitReturns
  <2> QED BY <1>1, <2>1, <2>2, <2>3, <2>4, <2>5, <2>6 DEF ConnectStep
<1>3. PICK state \in States : Goto(t, state) /\ (t \in Senders => state \in HoldStates)
  BY <1>2
<1>4. /\ radio' \in {"idle", "connecting", "up", "leaving"}
      /\ on' \in Bands /\ current_band' \in Bands /\ connected' \in BOOLEAN
      /\ bits' \subseteq {"connected", "fail"}
      /\ ConnectedSound'
  <2> USE DEF ConnectedSound, Band, Bands, driverVars, wifiVars
  <2>1. CASE Begin(t)          BY <2>1 DEF Begin
  <2>2. CASE ClearBits(t)      BY <2>2 DEF ClearBits
  <2>3. CASE SetBand(t)        BY <2>3 DEF SetBand
  <2>4. CASE Configure(t)      BY <2>4 DEF Configure
  <2>5. CASE ConfigRefused(t)  BY <2>5 DEF ConfigRefused
  <2>6. CASE WaitReturns(t)    BY <2>6 DEF WaitReturns
  <2> QED BY <1>1, <2>1, <2>2, <2>3, <2>4, <2>5, <2>6 DEF ConnectStep
<1>5. TypeOK'
  BY <1>1, <1>2, <1>3, <1>4, GotoTypes DEF Elsewhere, registryVars
<1>6. \A u \in Senders : pc'[u] \in HoldStates <=> pc[u] \in HoldStates
  BY <1>2, <1>3, GotoTypes DEF HoldStates, Tasks
<1>7. LockIsOneHold'  BY <1>1, <1>2, <1>6, LockKept DEF Elsewhere
<1>8. EdgeInv'
  <2>1. pc'[Registry] = pc[Registry] \/ pc[Registry] \in HoldStates
    BY <1>2, <1>3, GotoTypes, RegistryIsSender DEF HoldStates
  <2> QED BY <1>1, <2>1 DEF EdgeInv, Elsewhere, registryVars
<1> QED BY <1>4, <1>5, <1>7, <1>8

\* The mutex is free, so no sender is in the part that holds the lock; then this
\* one is, alone.
LEMMA TakeKeeps == ASSUME IInv, NEW t \in Senders, Take(t) PROVE IInv'
<1> USE DEF IInv, TypeOK, BandTypeOK
<1>1. t \in Tasks  BY DEF Tasks
<1>2. PICK state \in {"post", "begin"} : Goto(t, state)
  BY DEF Take, SwitchTo5g
<1>3. state \in States /\ state \in HoldStates
  BY DEF States, HoldStates, ConnectStates
<1>4. UNCHANGED <<driverVars, wifiVars, target, s_mutex, registryVars, wdt>>
      /\ task_lock' = TRUE /\ send_mutex' = t
  BY DEF Take, SwitchTo5g
<1>5. TypeOK'
  BY <1>1, <1>2, <1>3, <1>4, GotoTypes DEF driverVars, wifiVars, registryVars
<1>6. pc'[t] \in HoldStates /\ \A u \in Senders \ {t} : pc'[u] = pc[u]
  BY <1>1, <1>2, <1>3, GotoTypes DEF Tasks
<1>7. Holding = {}
  BY ScoutAssumption DEF Take, LockIsOneHold, Holding, Nobody
<1>8. Holding' = {t}
  BY <1>6, <1>7 DEF Holding, HoldStates
<1>9. EdgeInv'
  <2>1. CASE t = Registry  BY <2>1, <1>4 DEF EdgeInv, Take, registryVars
  <2>2. CASE t # Registry
    BY <2>2, <1>4, <1>6, RegistryIsSender DEF EdgeInv, registryVars
  <2> QED BY <2>1, <2>2
<1> QED BY <1>4, <1>5, <1>8, <1>9 DEF LockIsOneHold, ConnectedSound, driverVars, wifiVars

LEMMA PostKeeps ==
  ASSUME IInv, NEW t \in Senders, PostOk(t) \/ PostFails(t) PROVE IInv'
<1> USE DEF IInv, TypeOK, BandTypeOK
<1>1. t \in Tasks /\ pc[t] = "post" /\ SendReturns(t)
  BY DEF Tasks, PostOk, PostFails
<1>2. PICK state \in {"rest", "edge"} : ReleaseLock(t, state)
  BY <1>1 DEF SendReturns
<1>3. Goto(t, state) /\ state \in States /\ state \notin HoldStates \cup {"take"}
  BY <1>2 DEF ReleaseLock, States, HoldStates, ConnectStates
<1>4. /\ UNCHANGED <<driverVars, wifiVars, target, s_mutex, wdt>>
      /\ task_lock' = FALSE /\ send_mutex' = Nobody
  BY <1>1, <1>2 DEF ReleaseLock, SendReturns
<1>5. /\ seen' \subseteq Conds /\ prev' \subseteq Conds
      /\ edge' \in 1 .. NConds + 1
      /\ t # Registry => UNCHANGED edge
  <2>1. CASE t = Registry
    <3>1. edge \in Conds  BY <2>1, <1>1 DEF EdgeInv, HoldStates
    <3>2. EdgeDone  BY <2>1, <1>1 DEF SendReturns
    <3>3. edge' \in 1 .. NConds + 1
      BY <3>1, <3>2, ScoutAssumption DEF EdgeDone, Conds
    <3>4. seen' \subseteq Conds /\ prev' \subseteq Conds
      BY <3>1, <3>2 DEF EdgeDone
    <3> QED BY <2>1, <3>3, <3>4
  <2>2. CASE t # Registry  BY <2>2, <1>1 DEF SendReturns, registryVars
  <2> QED BY <2>1, <2>2
<1>6. TypeOK'
  BY <1>1, <1>3, <1>4, <1>5, GotoTypes DEF driverVars, wifiVars
<1>7. pc'[t] = state /\ \A u \in Senders \ {t} : pc'[u] = pc[u]
  BY <1>1, <1>3, GotoTypes DEF Tasks
<1>8. send_mutex = t  BY <1>1 DEF LockIsOneHold, Holding
<1>9. Holding' = {}
  <2> SUFFICES ASSUME NEW u \in Senders, pc'[u] \in HoldStates PROVE FALSE
    BY DEF Holding, HoldStates
  <2>1. u # t  BY <1>3, <1>7
  <2>2. u \in Holding  BY <2>1, <1>7 DEF Holding, HoldStates
  <2> QED BY <2>1, <2>2, <1>8 DEF LockIsOneHold
<1>10. EdgeInv'
  BY <1>3, <1>5, <1>7, RegistryIsSender DEF EdgeInv
<1> QED BY <1>4, <1>6, <1>9, <1>10 DEF LockIsOneHold, ConnectedSound, driverVars, wifiVars

\* A sender that is not in telegram_send goes to a state outside the part that
\* holds the lock.
LEMMA ElsewhereKeeps ==
  ASSUME IInv, NEW t \in Senders, pc[t] \notin HoldStates,
         NEW state \in States, state \notin HoldStates, Goto(t, state),
         UNCHANGED <<driverVars, wifiVars, task_lock, target, send_mutex, wdt>>,
         s_mutex' \in BOOLEAN, seen' \subseteq Conds, prev' \subseteq Conds,
         edge' \in 1 .. NConds + 1,
         IF t = Registry THEN state = "take" => edge' \in Conds ELSE UNCHANGED edge
  PROVE  IInv'
<1> USE DEF IInv, TypeOK, BandTypeOK
<1>1. t \in Tasks  BY DEF Tasks
<1>2. TypeOK'
  BY <1>1, GotoTypes DEF driverVars, wifiVars
<1>3. pc'[t] = state /\ \A u \in Senders \ {t} : pc'[u] = pc[u]
  BY <1>1, GotoTypes DEF Tasks
<1>4. LockIsOneHold'  BY <1>3, LockKept
<1>5. EdgeInv'
  <2>1. CASE t = Registry  BY <2>1, <1>3 DEF EdgeInv
  <2>2. CASE t # Registry  BY <2>2, <1>3, RegistryIsSender DEF EdgeInv
  <2> QED BY <2>1, <2>2
<1> QED BY <1>2, <1>4, <1>5 DEF ConnectedSound, driverVars, wifiVars

LEMMA PollKeeps == IInv /\ (PollStart \/ PollStep) => IInv'
<1> SUFFICES ASSUME IInv, PollStart \/ PollStep PROVE IInv'
  OBVIOUS
<1> USE RegistryIsSender
<1>1. /\ s_mutex \in BOOLEAN /\ seen \subseteq Conds /\ prev \subseteq Conds
      /\ edge \in 1 .. NConds + 1
      /\ 1 \in 1 .. NConds + 1 /\ {} \subseteq Conds
  BY ScoutAssumption DEF IInv, TypeOK
<1>2. /\ {"rest", "get", "edge"} \cap HoldStates = {}
      /\ {"rest", "get", "edge", "take"} \subseteq States
      /\ "take" \notin HoldStates
  BY DEF HoldStates, ConnectStates, States
<1>3. CASE PollStart
  <2>1. /\ pc[Registry] \in {"rest"} /\ Goto(Registry, "get")
        /\ UNCHANGED <<driverVars, wifiVars, task_lock, target,
                       send_mutex, s_mutex, registryVars, wdt>>
    BY <1>3 DEF PollStart
  <2> QED BY <1>1, <1>2, <2>1, ElsewhereKeeps DEF registryVars
<1>4. CASE GetOk
  <2>1. /\ pc[Registry] = "get" /\ Goto(Registry, "edge")
        /\ UNCHANGED <<driverVars, wifiVars, task_lock, target, send_mutex, prev, wdt>>
        /\ s_mutex' = TRUE /\ seen' \in SUBSET Conds /\ edge' = 1
    BY <1>4 DEF GetOk
  <2>2. pc[Registry] \notin HoldStates /\ "edge" \notin HoldStates /\ "edge" # "take"
    BY <1>2, <2>1
  <2> QED BY <1>1, <1>2, <2>1, <2>2, ElsewhereKeeps
<1>5. CASE GetFails
  <2>1. /\ pc[Registry] \in {"get"} /\ Goto(Registry, "rest")
        /\ UNCHANGED <<driverVars, wifiVars, task_lock, target,
                       send_mutex, s_mutex, registryVars, wdt>>
    BY <1>5 DEF GetFails
  <2> QED BY <1>1, <1>2, <2>1, ElsewhereKeeps DEF registryVars
<1>6. CASE Quiet
  <2>1. /\ seen' \subseteq Conds /\ prev' \subseteq Conds
        /\ edge' \in 1 .. NConds + 1
    BY <1>1, <1>6, ScoutAssumption DEF Quiet, AtEdge, EdgeDone
  <2>2. UNCHANGED <<bandVars, send_mutex, s_mutex, wdt>> /\ pc[Registry] = "edge"
    BY <1>6 DEF Quiet, AtEdge
  <2>3. LockIsOneHold'
    BY <2>2, LockKept DEF IInv, bandVars
  <2> QED BY <2>1, <2>2, <2>3 DEF IInv, TypeOK, BandTypeOK, bandVars, driverVars,
       wifiVars, ConnectedSound, EdgeInv, HoldStates, ConnectStates
<1>7. CASE Announce
  <2>1. /\ pc[Registry] = "edge" /\ Goto(Registry, "take") /\ edge \in Conds
        /\ UNCHANGED <<driverVars, wifiVars, task_lock, target,
                       send_mutex, s_mutex, registryVars, wdt>>
    BY <1>1, <1>7, ScoutAssumption DEF Announce, AtEdge, Conds
  <2> QED BY <1>1, <1>2, <2>1, ElsewhereKeeps DEF registryVars
<1>8. CASE PollEnds
  <2>1. /\ pc[Registry] = "edge" /\ Goto(Registry, "rest")
        /\ UNCHANGED <<driverVars, wifiVars, task_lock, target, send_mutex, prev, wdt>>
        /\ s_mutex' = FALSE /\ seen' = {} /\ edge' = 1
    BY <1>8 DEF PollEnds
  <2>2. pc[Registry] \notin HoldStates /\ "rest" \notin HoldStates /\ "rest" # "take"
    BY <1>2, <2>1
  <2> QED BY <1>1, <1>2, <2>1, <2>2, ElsewhereKeeps
<1> QED BY <1>3, <1>4, <1>5, <1>6, <1>7, <1>8 DEF PollStep

LEMMA ReportingKeeps ==
  ASSUME IInv, NEW t \in Reporting, Compose(t) \/ Count(t) PROVE IInv'
<1> USE DEF IInv, TypeOK, BandTypeOK, States, HoldStates, ConnectStates
<1>1. t \in Senders /\ t # Registry  BY DEF Reporting
<1>2. pc[t] \in {"rest", "count"} /\ \E state \in {"take", "count"} : Goto(t, state)
  BY DEF Compose, Count
<1>3. UNCHANGED <<driverVars, wifiVars, task_lock, target,
                  send_mutex, s_mutex, registryVars, wdt>>
  BY DEF Compose, Count
<1> QED BY <1>1, <1>2, <1>3, ElsewhereKeeps DEF registryVars

LEMMA ClockKeeps == IInv /\ (Report \/ Tick \/ Reset \/ UNCHANGED vars) => IInv'
<1> SUFFICES ASSUME IInv, Report \/ Tick \/ Reset \/ UNCHANGED vars PROVE IInv'
  OBVIOUS
<1> USE DEF IInv, TypeOK, BandTypeOK
<1>1. CASE Report
  BY <1>1, ScoutAssumption DEF Report, bandVars, driverVars, wifiVars, registryVars,
     ConnectedSound, LockIsOneHold, Holding, EdgeInv
<1>2. CASE Tick
  <2>1. /\ waited' \in [Tasks -> Nat]
        /\ \A t \in Tasks : waited'[t] <= ConnectTicks \/ waited'[t] <= HttpTicks
    BY <1>2, ScoutAssumption, DualBandAssumption DEF Tick, Waiting
  <2>2. wdt' \in 0 .. WdtTicks  BY <1>2, ScoutAssumption DEF Tick
  <2> QED BY <1>2, <2>1, <2>2 DEF Tick, driverVars, wifiVars, registryVars,
       ConnectedSound, LockIsOneHold, Holding, EdgeInv
<1>3. CASE Reset
  <2>2. pc' \in [Tasks -> States]  BY <1>3 DEF Reset, States
  <2>3. TypeOK'
    <3>1. waited' \in [Tasks -> Nat] /\ \A t \in Tasks : waited'[t] <= ConnectTicks
      BY <1>3, DualBandAssumption DEF Reset
    <3>2. edge' \in 1 .. NConds + 1 /\ wdt' \in 0 .. WdtTicks
      BY <1>3, ScoutAssumption DEF Reset
    <3> QED BY <1>3, <2>2, <3>1, <3>2 DEF Reset, Bands, Nobody
  <2>4. \A t \in Senders : pc'[t] = "rest"
    BY <1>3, SwitcherIsTask DEF Reset, Tasks
  <2> QED BY <1>3, <2>3, <2>4, RegistryIsSender
       DEF Reset, LockIsOneHold, EdgeInv, Holding, HoldStates, ConnectStates, ConnectedSound
<1>4. CASE UNCHANGED vars
  BY <1>4 DEF vars, bandVars, driverVars, wifiVars, registryVars,
     ConnectedSound, LockIsOneHold, Holding, EdgeInv
<1> QED BY <1>1, <1>2, <1>3, <1>4

THEOREM Inductive == Spec => []IInv
<1>1. Init => IInv  BY Initially
<1>2. IInv /\ [Next]_vars => IInv'
  BY DriverKeeps, SwitchKeeps, ConnectKeeps, TakeKeeps, PostKeeps, ReportingKeeps,
     PollKeeps, ClockKeeps DEF Next, Send
<1> QED BY <1>1, <1>2, PTL DEF Spec

-----------------------------------------------------------------------------
(* What a reader should know of. *)

\* Every reachable state is well typed; in particular nobody waits longer than
\* the longest timeout, and the registry never looks past its last condition.
THEOREM ScoutTypeCorrect == Spec => []TypeOK
<1>1. IInv => TypeOK  BY DEF IInv
<1> QED BY <1>1, Inductive, PTL

\* s_wifi.connected is never set on a station that has no address, whichever
\* tasks and events interleave in connect_to_band.
THEOREM ConnectedIsSound == Spec => []ConnectedSound
<1>1. IInv => ConnectedSound  BY DEF IInv
<1> QED BY <1>1, Inductive, PTL

\* task_lock is up exactly while one sender is in the part of telegram_send that
\* wants 5G, and that sender has send_mutex.
THEOREM LockIsHeldOnce == Spec => []LockIsOneHold
<1>1. IInv => LockIsOneHold  BY DEF IInv
<1> QED BY <1>1, Inductive, PTL

-----------------------------------------------------------------------------
(***************************************************************************)
(* ScoutReports, for any intervals, delays and send times, however often   *)
(* the scout restarts and loses its clock.                                 *)
(***************************************************************************)

\* A task does not stay anywhere longer than it has to.
DueInv ==
  /\ notice = "wait" => notice_age <= NoticeWait
  /\ notice = "send" => notice_age <= SendTime
  /\ notice = "mark" => tried_age = 0 /\ report_tried_age = 0 /\ ~noted
  /\ bridge = "delay" => bridge_age <= StartDelay
  /\ bridge = "sleep" => bridge_age <= Round /\ report_age < HeartbeatWindow + bridge_age
  /\ bridge = "send" => bridge_age <= SendTime

\* The stamp is never younger than the last notice, and as old as it if it is
\* noted; what the task has read of it is the stamp, or nothing.
StampInv ==
  /\ notice = "decide" => last \in {"closed", "none", boot_ts}
  /\ noted => boot_ts = "real" /\ boot_ts_age = tried_age
  /\ boot_ts = "real" => tried_age <= boot_ts_age
  /\ report_tried_age <= tried_age

StartInv ==
  /\ notice # "none" => app = "done"
  /\ app \in {"notify", "done"} => bridge # "none"

\* The time since a report was sent, by where bridge_task is.
SilenceInv ==
  notice \in {"suppressed", "done"} =>
    /\ bridge = "delay" => report_tried_age < MinInterval + bridge_age
    /\ bridge = "sleep" => report_tried_age < MinInterval + StartDelay + report_age
    /\ bridge = "send"  =>
         report_tried_age < MinInterval + StartDelay + HeartbeatWindow + Round + bridge_age

ReportsInv == ReportsTypeOK /\ DueInv /\ StampInv /\ StartInv /\ SilenceInv

-----------------------------------------------------------------------------

LEMMA ReportsConstants ==
  /\ MinInterval \in Nat /\ MinInterval > 0 /\ HeartbeatWindow \in Nat /\ HeartbeatWindow > 0
  /\ NoticeWait \in Nat /\ StartDelay \in Nat /\ Round \in Nat /\ SendTime \in Nat
BY ReportsAssumption

LEMMA SilenceIsLong ==
  /\ Silence \in Nat /\ Years \in Nat
  /\ Silence = MinInterval + StartDelay + HeartbeatWindow + Round + SendTime
  /\ MinInterval <= Years /\ MinInterval <= Silence
BY ReportsConstants DEF Silence, Years

LEMMA OlderType ==
  ASSUME NEW a \in Ages
  PROVE  /\ Older(a) \in Ages /\ a <= Older(a) /\ Older(a) <= a + 1
         /\ a < Silence => Older(a) = a + 1
BY SilenceIsLong DEF Ages, Older

LEMMA OlderMonotone ==
  ASSUME NEW a \in Ages, NEW b \in Ages, a <= b
  PROVE  Older(a) <= Older(b)
BY SilenceIsLong DEF Ages, Older

LEMMA InitIsSafe == ReportsInit => ReportsInv
<1> SUFFICES ASSUME ReportsInit PROVE ReportsInv  OBVIOUS
<1>1. 0 \in Ages /\ Silence \in Ages  BY SilenceIsLong DEF Ages
<1>2. /\ 0 \in 0 .. NoticeWait + SendTime
      /\ 0 \in 0 .. StartDelay + Round + SendTime
  BY ReportsConstants
<1>3. ReportsTypeOK  BY <1>1, <1>2 DEF ReportsInit, ReportsTypeOK
<1>4. DueInv /\ StampInv /\ StartInv /\ SilenceInv
  BY SilenceIsLong DEF ReportsInit, DueInv, StampInv, StartInv, SilenceInv
<1> QED BY <1>3, <1>4 DEF ReportsInv

-----------------------------------------------------------------------------
(* app_main *)

LEMMA BootStep ==
  ASSUME ReportsInv, BootHealth \/ BootNotify \/ ClockSet
  PROVE  ReportsInv'
<1> USE DEF ReportsInv, flashVars, noticeVars, bridgeVars, historyVars
<1>1. 0 \in 0 .. NoticeWait + SendTime /\ Silence \in Ages
  BY ReportsConstants, SilenceIsLong DEF Ages
<1>2. CASE BootHealth
  <2>1. ReportsTypeOK'  BY <1>1, <1>2 DEF BootHealth, ReportsTypeOK
  <2>2. DueInv' /\ StartInv' /\ SilenceInv'
    BY <1>2 DEF BootHealth, DueInv, StartInv, SilenceInv
  <2>3. StampInv'  BY <1>2 DEF BootHealth, StampInv, StartInv
  <2> QED BY <2>1, <2>2, <2>3
<1>3. CASE BootNotify
  <2>1. ReportsTypeOK'  BY <1>1, <1>3 DEF BootNotify, ReportsTypeOK
  <2>2. DueInv' /\ StartInv' /\ SilenceInv' /\ StampInv'
    BY <1>3, ReportsConstants DEF BootNotify, DueInv, StartInv, SilenceInv, StampInv
  <2> QED BY <2>1, <2>2
<1>4. CASE ClockSet
  BY <1>4 DEF ClockSet, ReportsTypeOK, DueInv, StartInv, SilenceInv, StampInv
<1> QED BY <1>2, <1>3, <1>4

LEMMA BootBridgeStep ==
  ASSUME ReportsInv, BootBridge
  PROVE  ReportsInv'
<1> USE DEF ReportsInv, flashVars, noticeVars, historyVars
<1>1. 0 \in 0 .. StartDelay + Round + SendTime /\ 0 \in Ages
  BY ReportsConstants, SilenceIsLong DEF Ages
<1>2. ReportsTypeOK'  BY <1>1 DEF BootBridge, ReportsTypeOK
<1>3. notice = "none"  BY DEF BootBridge, StartInv
<1>4. DueInv' /\ StartInv' /\ SilenceInv' /\ StampInv'
  BY <1>3, ReportsConstants DEF BootBridge, DueInv, StartInv, SilenceInv, StampInv
<1> QED BY <1>2, <1>4

LEMMA RestartStep ==
  ASSUME ReportsInv, Restart
  PROVE  ReportsInv'
<1> USE DEF ReportsInv, flashVars, historyVars
<1>1. /\ 0 \in 0 .. StartDelay + Round + SendTime /\ 0 \in Ages
      /\ 0 \in 0 .. NoticeWait + SendTime
  BY ReportsConstants, SilenceIsLong DEF Ages
<1>2. clock_set' \in BOOLEAN  BY DEF Restart, ReportsTypeOK
<1>3. ReportsTypeOK'  BY <1>1, <1>2 DEF Restart, ReportsTypeOK
<1>4. DueInv' /\ StartInv' /\ SilenceInv' /\ StampInv'
  BY DEF Restart, DueInv, StartInv, SilenceInv, StampInv
<1> QED BY <1>3, <1>4

-----------------------------------------------------------------------------
(* boot_notify_task *)

\* A notice is suppressed on account of one that is still recent.
LEMMA SuppressedIsRecent ==
  ASSUME ReportsInv, Suppress
  PROVE  tried_age < MinInterval
<1>1. clock_set /\ ~(Elapsed >= MinInterval) /\ last # "closed" /\ notice = "decide"
  BY DEF Suppress, ShouldSend
<1>2. last = "real" /\ ~(boot_ts_age >= MinInterval)
  BY <1>1, SilenceIsLong, ReportsConstants DEF Elapsed
<1>4. boot_ts = "real"
  BY <1>1, <1>2 DEF ReportsInv, StampInv
<1>3. boot_ts_age \in Int /\ tried_age \in Int
  BY SilenceIsLong DEF ReportsInv, ReportsTypeOK, Ages
<1> QED BY <1>2, <1>3, <1>4, ReportsConstants DEF ReportsInv, StampInv

\* A notice that follows a noted one comes late enough.
LEMMA AnnouncedIsSpaced ==
  ASSUME ReportsInv, AnnounceRestart, clock_set, noted, StampIsRead
  PROVE  tried_age >= MinInterval
<1>1. last = "real" /\ boot_ts_age = tried_age  BY DEF ReportsInv, StampInv, StampIsRead
<1>2. Elapsed >= MinInterval  BY <1>1 DEF AnnounceRestart, ShouldSend
<1> QED BY <1>1, <1>2 DEF Elapsed

LEMMA DecideStep ==
  ASSUME ReportsInv, ReadStamp \/ AnnounceRestart \/ Suppress
  PROVE  ReportsInv'
<1> USE DEF ReportsInv, flashVars, bridgeVars, historyVars
<1>1. 0 \in 0 .. NoticeWait + SendTime /\ 0 <= SendTime  BY ReportsConstants
<1>2. ReportsTypeOK'  BY <1>1 DEF ReadStamp, AnnounceRestart, Suppress, ReportsTypeOK
<1>3. DueInv' /\ StampInv'
  BY <1>1 DEF ReadStamp, AnnounceRestart, Suppress, DueInv, StampInv
<1>4. StartInv'  BY DEF ReadStamp, AnnounceRestart, Suppress, StartInv
<1>5. SilenceInv'
  <2>1. CASE ReadStamp \/ AnnounceRestart
    BY <2>1 DEF ReadStamp, AnnounceRestart, SilenceInv
  <2>2. CASE Suppress
    <3>1. report_tried_age < MinInterval
      <4>1. report_tried_age \in Int /\ tried_age \in Int
        BY SilenceIsLong DEF ReportsTypeOK, Ages
      <4> QED BY <2>2, <4>1, SuppressedIsRecent, ReportsConstants DEF StampInv
    <3>2. report_tried_age \in Int /\ bridge_age \in Nat /\ report_age \in Nat
      BY SilenceIsLong, ReportsConstants DEF ReportsTypeOK, Ages
    <3> QED BY <2>2, <3>1, <3>2, ReportsConstants DEF Suppress, SilenceInv
  <2> QED BY <2>1, <2>2
<1> QED BY <1>2, <1>3, <1>4, <1>5

LEMMA NoticeSentStep ==
  ASSUME ReportsInv, NoticeSent
  PROVE  ReportsInv'
<1> USE DEF ReportsInv, flashVars, bridgeVars
<1>1. 0 \in 0 .. NoticeWait + SendTime /\ 0 \in Ages
  BY ReportsConstants, SilenceIsLong DEF Ages
<1>2. ReportsTypeOK'  BY <1>1 DEF NoticeSent, ReportsTypeOK
<1>3. DueInv' /\ StartInv' /\ SilenceInv'
  BY DEF NoticeSent, DueInv, StartInv, SilenceInv
<1>4. boot_ts_age \in Nat  BY SilenceIsLong DEF ReportsTypeOK, Ages
<1>5. StampInv'  BY <1>4 DEF NoticeSent, StampInv
<1> QED BY <1>2, <1>3, <1>5

LEMMA MarkStep ==
  ASSUME ReportsInv, Mark
  PROVE  ReportsInv'
<1> USE DEF ReportsInv, flashVars, bridgeVars
<1>1. 0 \in 0 .. NoticeWait + SendTime /\ 0 \in Ages
  BY ReportsConstants, SilenceIsLong DEF Ages
<1>2. ReportsTypeOK'  BY <1>1 DEF Mark, ReportsTypeOK
<1>3. tried_age = 0 /\ report_tried_age = 0 /\ ~noted  BY DEF Mark, DueInv
<1>4. DueInv' /\ StartInv'  BY DEF Mark, DueInv, StartInv
<1>5. StampInv'  BY <1>3 DEF Mark, StampInv
<1>6. bridge_age \in Nat /\ report_age \in Nat
  BY SilenceIsLong, ReportsConstants DEF ReportsTypeOK, Ages
<1>7. SilenceInv'  BY <1>3, <1>6, ReportsConstants DEF Mark, SilenceInv
<1> QED BY <1>2, <1>4, <1>5, <1>7

-----------------------------------------------------------------------------
(* bridge_task *)

LEMMA BridgeStep ==
  ASSUME ReportsInv, BridgeBegins \/ Heartbeat \/ NoHeartbeat \/ HeartbeatSent
  PROVE  ReportsInv'
<1> USE DEF ReportsInv, flashVars, noticeVars, historyVars
<1>1. /\ 0 \in 0 .. StartDelay + Round + SendTime /\ 0 \in Ages
      /\ Round \in 0 .. StartDelay + Round + SendTime
  BY ReportsConstants, SilenceIsLong DEF Ages
<1>2. ReportsTypeOK'
  BY <1>1 DEF BridgeBegins, Heartbeat, NoHeartbeat, HeartbeatSent, Wakes, ReportsTypeOK
<1>3. /\ bridge_age \in Nat /\ report_age \in Nat
      /\ report_tried_age \in Nat /\ tried_age \in Nat
  BY SilenceIsLong, ReportsConstants DEF ReportsTypeOK, Ages
<1>4. CASE BridgeBegins
  BY <1>2, <1>3, <1>4, ReportsConstants DEF BridgeBegins, DueInv, StampInv, StartInv, SilenceInv
<1>5. CASE Heartbeat
  BY <1>2, <1>3, <1>5, ReportsConstants
     DEF Heartbeat, Wakes, DueInv, StampInv, StartInv, SilenceInv
<1>6. CASE NoHeartbeat
  BY <1>2, <1>3, <1>6, ReportsConstants
     DEF NoHeartbeat, Wakes, DueInv, StampInv, StartInv, SilenceInv
<1>7. CASE HeartbeatSent
  <2>1. DueInv'
    BY <1>3, <1>7, ReportsConstants DEF HeartbeatSent, DueInv
  <2>2. StampInv' /\ StartInv'
    BY <1>3, <1>7 DEF HeartbeatSent, StampInv, StartInv
  <2>3. SilenceInv'  BY <1>7, ReportsConstants DEF HeartbeatSent, SilenceInv
  <2> QED BY <1>2, <2>1, <2>2, <2>3
<1> QED BY <1>4, <1>5, <1>6, <1>7

-----------------------------------------------------------------------------
(* Time *)

LEMMA TickStep ==
  ASSUME ReportsInv, ReportsTick
  PROVE  ReportsInv'
<1> USE DEF ReportsInv
<1>1. /\ boot_ts_age \in Ages /\ report_age \in Ages /\ tried_age \in Ages
      /\ report_tried_age \in Ages /\ notice_age \in Nat /\ bridge_age \in Nat
      /\ bridge \in {"none", "delay", "sleep", "send"}
  BY ReportsConstants DEF ReportsTypeOK
<1>2. /\ boot_ts_age \in Nat /\ report_age \in Nat /\ tried_age \in Nat /\ report_tried_age \in Nat
      /\ report_age <= Silence
  BY <1>1, SilenceIsLong DEF Ages
<1>3. ReportsTypeOK'
  <2>1. notice_age' \in 0 .. NoticeWait + SendTime
    BY <1>1, ReportsConstants DEF ReportsTick, NobodyIsDue
  <2>2. bridge_age' \in 0 .. StartDelay + Round + SendTime
    BY <1>1, ReportsConstants DEF ReportsTick, NobodyIsDue
  <2>3. 0 \in Ages  BY SilenceIsLong DEF Ages
  <2>4. /\ boot_ts_age' \in Ages /\ report_age' \in Ages
        /\ tried_age' \in Ages /\ report_tried_age' \in Ages
    BY <1>1, <2>3, OlderType DEF ReportsTick
  <2> QED BY <2>1, <2>2, <2>4 DEF ReportsTick, ReportsTypeOK
<1>4. /\ bridge # "none" => bridge_age' = bridge_age + 1
      /\ bridge # "none" => report_age' = Older(report_age)
      /\ report_tried_age' = Older(report_tried_age) /\ tried_age' = Older(tried_age)
      /\ boot_ts_age' = Older(boot_ts_age)
      /\ UNCHANGED <<clock_set, boot_ts, app, notice, last, bridge, noted>>
  BY DEF ReportsTick
<1>5. report_tried_age' <= report_tried_age + 1 /\ report_tried_age' \in Nat
  BY <1>1, <1>4, OlderType, SilenceIsLong DEF Ages
<1>6. bridge = "sleep" => report_age' = report_age + 1
  <2>1. bridge = "sleep" => report_age < Silence
    BY <1>1, <1>2, SilenceIsLong, ReportsConstants DEF DueInv
  <2> QED BY <1>1, <1>4, <2>1, OlderType
<1>7. DueInv'
  <2>1. /\ notice = "wait" => notice_age' <= NoticeWait
        /\ notice = "send" => notice_age' <= SendTime
        /\ notice # "mark"
    BY <1>1, ReportsConstants DEF ReportsTick, NobodyIsDue
  <2>2. /\ bridge = "delay" => bridge_age' <= StartDelay
        /\ bridge = "sleep" => bridge_age' <= Round
        /\ bridge = "send" => bridge_age' <= SendTime
    BY <1>1, <1>4, ReportsConstants DEF ReportsTick, NobodyIsDue
  <2>3. bridge = "sleep" => report_age' < HeartbeatWindow + bridge_age'
    BY <1>1, <1>2, <1>4, <1>6, ReportsConstants DEF DueInv
  <2> QED BY <1>4, <2>1, <2>2, <2>3 DEF DueInv
<1>8. StampInv'
  <2>1. report_tried_age' <= tried_age'
    BY <1>1, <1>4, OlderMonotone DEF StampInv
  <2>2. boot_ts = "real" => tried_age' <= boot_ts_age'
    BY <1>1, <1>4, OlderMonotone DEF StampInv
  <2> QED BY <1>4, <2>1, <2>2 DEF StampInv
<1>9. StartInv'  BY <1>4 DEF StartInv
<1>10. SilenceInv'
  <2> SUFFICES ASSUME notice \in {"suppressed", "done"}
               PROVE  SilenceInv'
    BY <1>4 DEF SilenceInv
  <2>1. bridge = "delay" => report_tried_age' < MinInterval + bridge_age'
    BY <1>1, <1>2, <1>4, <1>5, ReportsConstants DEF SilenceInv
  <2>2. bridge = "sleep" => report_tried_age' < MinInterval + StartDelay + report_age'
    BY <1>1, <1>2, <1>5, <1>6, ReportsConstants DEF SilenceInv
  <2>3. bridge = "send" =>
          report_tried_age' < MinInterval + StartDelay + HeartbeatWindow + Round + bridge_age'
    BY <1>1, <1>2, <1>4, <1>5, ReportsConstants DEF SilenceInv
  <2> QED BY <1>4, <2>1, <2>2, <2>3 DEF SilenceInv
<1> QED BY <1>3, <1>7, <1>8, <1>9, <1>10

-----------------------------------------------------------------------------

LEMMA NextIsSafe == ReportsInv /\ [ReportsNext]_reportsVars => ReportsInv'
<1> SUFFICES ASSUME ReportsInv, [ReportsNext]_reportsVars PROVE ReportsInv'  OBVIOUS
<1>1. CASE ReportsNext
  BY <1>1, BootStep, BootBridgeStep, RestartStep, DecideStep, NoticeSentStep, MarkStep,
     BridgeStep, TickStep DEF ReportsNext
<1>2. CASE UNCHANGED reportsVars
  BY <1>2 DEF reportsVars, flashVars, noticeVars, bridgeVars, historyVars,
              ReportsInv, ReportsTypeOK, DueInv, StampInv, StartInv, SilenceInv
<1> QED BY <1>1, <1>2

LEMMA AlwaysReportsInv == ReportsSpec => []ReportsInv
BY InitIsSafe, NextIsSafe, PTL DEF ReportsSpec

\* Every variable keeps its type: no task oversleeps, however the starts race.
THEOREM ReportsTypeCorrect == ReportsSpec => []ReportsTypeOK
<1>1. ReportsInv => ReportsTypeOK  BY DEF ReportsInv
<1> QED BY <1>1, AlwaysReportsInv, PTL

\* Two notices keep MinInterval if the first was noted and the note is read, whatever
\* restarts lie between them
\* (scout_health.c:189).
THEOREM NoticesAreSpaced == ReportsSpec => NoticesSpaced
<1>1. ReportsInv /\ [ReportsNext]_reportsVars =>
        [AnnounceRestart /\ clock_set /\ noted /\ StampIsRead => tried_age >= MinInterval]_reportsVars
  BY AnnouncedIsSpaced
<1> QED BY <1>1, AlwaysReportsInv, PTL DEF ReportsSpec, NoticesSpaced

\* No restart is passed over without a notice that was sent a short time ago,
\* whether or not it got through (scout_health.c:184).
THEOREM RestartsAreTried == ReportsSpec => RestartIsTried
<1>1. ReportsInv /\ [ReportsNext]_reportsVars => [Suppress => tried_age < MinInterval]_reportsVars
  BY SuppressedIsRecent
<1> QED BY <1>1, AlwaysReportsInv, PTL DEF ReportsSpec, RestartIsTried

\* The scout does not go without sending a report for longer than the intervals and
\* the delays together (espnow_bridge.c:411).
THEOREM ReportsGoOn == ReportsSpec => []ReportsAreTried
<1>1. ReportsInv => ReportsAreTried
  <2> SUFFICES ASSUME ReportsInv, notice \in {"suppressed", "done"}
               PROVE  report_tried_age < Silence
    BY DEF ReportsAreTried
  <2>1. /\ report_tried_age \in Nat /\ bridge_age \in Nat /\ report_age \in Nat
        /\ bridge \in {"delay", "sleep", "send"}
    BY SilenceIsLong, ReportsConstants DEF ReportsInv, ReportsTypeOK, Ages, StartInv
  <2> QED BY <2>1, SilenceIsLong, ReportsConstants DEF ReportsInv, DueInv, SilenceInv
<1> QED BY <1>1, AlwaysReportsInv, PTL

=============================================================================
