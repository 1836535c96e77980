------------------------------- MODULE Scout -------------------------------
(***************************************************************************)
(* The tasks of yy2 that share the radio of module DualBand: sensor_reg    *)
(* (system/sensor_registry.c), which polls a sensor on 2.4G and announces  *)
(* what it finds while it holds the registry mutex; the other callers of   *)
(* telegram_send (net/telegram_client.c): the command poller, the          *)
(* heartbeat and the boot notification; and status_rpt                     *)
(* (system/status_reporter.c), which feeds the watchdog every two seconds  *)
(* and needs the registry mutex to do so.                                  *)
(*                                                                         *)
(* Time passes in ticks, and only when no task can run: what takes less    *)
(* than a tick takes none.  Unless Faulty, connecting is one of these.     *)
(***************************************************************************)
EXTENDS DualBand

CONSTANTS
  NConds,        \* conditions poll_one looks at: alarm, then motion (2)
  HttpTicks,     \* SEND_TIMEOUT_MS in ticks
  WdtTicks       \* the timeout of the task watchdog in ticks

ASSUME ScoutAssumption ==
  /\ "sensor_reg" \in Senders /\ "nobody" \notin Senders
  /\ NConds \in Nat \ {0}
  /\ HttpTicks \in Nat \ {0} /\ WdtTicks \in Nat \ {0}

Registry   == "sensor_reg"
Reporting  == Senders \ {Registry}
Nobody     == "nobody"
Conds      == 1 .. NConds

VARIABLES
  send_mutex,    \* the task that is in telegram_send
  s_mutex,       \* the registry mutex, held by sensor_reg in poll_one
  seen,          \* what the response in hand reports
  prev,          \* s_prev_alarm and s_prev_motion
  edge,          \* the condition poll_one looks at next
  wdt            \* ticks since status_rpt has fed the watchdog

registryVars == <<seen, prev, edge>>
vars == <<bandVars, send_mutex, s_mutex, registryVars, wdt>>

Init ==
  /\ BandInit
  /\ send_mutex = Nobody
  /\ s_mutex = FALSE
  /\ seen = {} /\ prev = {} /\ edge = 1
  /\ wdt = 0

-----------------------------------------------------------------------------
(* telegram_send *)

\* Mutant: the radio is asked for before the mutex is taken.
TakeUnguarded(t) ==
  /\ pc[t] = "take"
  /\ send_mutex' = t
  /\ SwitchTo5g(t)
  /\ UNCHANGED <<s_mutex, registryVars, wdt>>

Take(t) ==
  /\ pc[t] = "take"
  /\ send_mutex = Nobody
  /\ send_mutex' = t
  /\ SwitchTo5g(t)
  /\ UNCHANGED <<s_mutex, registryVars, wdt>>

OnAir == radio = "up" /\ on = "5G"

\* sensor_reg is done with the condition it has looked at.
EdgeDone ==
  /\ prev' = (prev \ {edge}) \cup ({edge} \cap seen)
  /\ edge' = edge + 1
  /\ UNCHANGED seen

\* Mutant: a report counts the sensors before send_mutex is given back.
SendReturnsCounting(t) ==
  /\ t = Registry \/ ~s_mutex
  /\ send_mutex' = Nobody
  /\ IF t = Registry THEN ReleaseLock(t, "edge") /\ EdgeDone
                     ELSE ReleaseLock(t, "rest") /\ UNCHANGED registryVars
  /\ UNCHANGED <<s_mutex, wdt>>

\* The lock and the mutex are given back and the caller goes on, whatever
\* became of the message.
SendReturns(t) ==
  /\ send_mutex' = Nobody
  /\ IF t = Registry THEN ReleaseLock(t, "edge") /\ EdgeDone
                     ELSE ReleaseLock(t, "rest") /\ UNCHANGED registryVars
  /\ UNCHANGED <<s_mutex, wdt>>

PostOk(t) ==
  /\ pc[t] = "post"
  /\ OnAir
  /\ SendReturns(t)

\* The HTTP request fails: not on 5G, or nobody there answers in time.
PostFails(t) ==
  /\ pc[t] = "post"
  /\ ~OnAir \/ Faulty
  /\ SendReturns(t)

-----------------------------------------------------------------------------
(* sensor_reg *)

\* registry_task polls when the label says 2.4G.
PollStart ==
  /\ pc[Registry] = "rest"
  /\ current_band # "5G" /\ connected
  /\ Goto(Registry, "get")
  /\ UNCHANGED <<driverVars, wifiVars, task_lock, target,
                 send_mutex, s_mutex, registryVars, wdt>>

GetOk ==
  /\ pc[Registry] = "get"
  /\ radio = "up" /\ on = "2.4G"
  /\ ~s_mutex
  /\ s_mutex' = TRUE
  /\ seen' \in SUBSET Conds
  /\ edge' = 1
  /\ Goto(Registry, "edge")
  /\ UNCHANGED <<driverVars, wifiVars, task_lock, target,
                 send_mutex, prev, wdt>>

\* The failure is counted under the registry mutex.
GetFails ==
  /\ pc[Registry] = "get" /\ ~s_mutex
  /\ ~(radio = "up" /\ on = "2.4G") \/ Faulty
  /\ Goto(Registry, "rest")
  /\ UNCHANGED <<driverVars, wifiVars, task_lock, target,
                 send_mutex, s_mutex, registryVars, wdt>>

\* Mutant: one condition too many.
AtEdgePast == pc[Registry] = "edge" /\ edge <= NConds + 1
AtEdge == pc[Registry] = "edge" /\ edge <= NConds
Onset  == edge \in seen \ prev

\* Nothing new, or telegram_send_alert is muted or outside its hours.
Quiet ==
  /\ AtEdge
  /\ EdgeDone
  /\ UNCHANGED <<bandVars, send_mutex, s_mutex, wdt>>

Announce ==
  /\ AtEdge
  /\ Onset
  /\ Goto(Registry, "take")
  /\ UNCHANGED <<driverVars, wifiVars, task_lock, target,
                 send_mutex, s_mutex, registryVars, wdt>>

PollEnds ==
  /\ pc[Registry] = "edge" /\ edge > NConds
  /\ s_mutex' = FALSE
  /\ seen' = {} /\ edge' = 1
  /\ Goto(Registry, "rest")
  /\ UNCHANGED <<driverVars, wifiVars, task_lock, target,
                 send_mutex, prev, wdt>>

PollStep == GetOk \/ GetFails \/ Quiet \/ Announce \/ PollEnds

-----------------------------------------------------------------------------
(* The other senders, status_rpt and the clock *)

\* A command is answered or a notification is due; a report counts the
\* sensors on-line first, under the registry mutex.
Compose(t) ==
  /\ pc[t] = "rest"
  /\ \E state \in {"take", "count"} : Goto(t, state)
  /\ UNCHANGED <<driverVars, wifiVars, task_lock, target,
                 send_mutex, s_mutex, registryVars, wdt>>

Count(t) ==
  /\ pc[t] = "count"
  /\ ~s_mutex
  /\ Goto(t, "take")
  /\ UNCHANGED <<driverVars, wifiVars, task_lock, target,
                 send_mutex, s_mutex, registryVars, wdt>>

\* One round of reporter_task: sensor_registry_any_alarm, then watchdog_reset.
Report ==
  /\ ~s_mutex
  /\ wdt # 0
  /\ wdt' = 0
  /\ UNCHANGED <<bandVars, send_mutex, s_mutex, registryVars>>

Waiting(t) ==
  \/ pc[t] \in {"rest", "get", "stay24", "stay5"}
  \/ pc[t] = "wait" /\ bits = {} /\ waited[t] < ConnectTicks
  \/ pc[t] = "post" /\ waited[t] < HttpTicks
  \/ pc[t] = "take" /\ send_mutex # Nobody
  \/ pc[t] = "count" /\ s_mutex

Tick ==
  /\ \A t \in Tasks : Waiting(t)
  /\ Faulty \/ radio # "connecting"
  /\ s_mutex \/ wdt = 0
  /\ wdt' = CASE ~s_mutex      -> 0
             [] wdt < WdtTicks -> wdt + 1
             [] OTHER          -> wdt
  /\ waited' = [t \in Tasks |-> IF pc[t] \in {"wait", "post"}
                                THEN waited[t] + 1 ELSE waited[t]]
  /\ UNCHANGED <<driverVars, wifiVars, task_lock, target, pc,
                 send_mutex, s_mutex, registryVars>>

\* The watchdog panics, and the chip starts again.
Reset ==
  /\ wdt = WdtTicks
  /\ radio' = "up" /\ on' = "2.4G"
  /\ current_band' = "2.4G" /\ connected' = TRUE /\ bits' = {"connected"}
  /\ task_lock' = FALSE /\ target' = "2.4G"
  /\ pc' = [t \in Tasks |-> IF t = Switcher THEN "stay24" ELSE "rest"]
  /\ waited' = [t \in Tasks |-> 0]
  /\ send_mutex' = Nobody /\ s_mutex' = FALSE
  /\ seen' = {} /\ prev' = {} /\ edge' = 1
  /\ wdt' = 0

-----------------------------------------------------------------------------
Elsewhere == UNCHANGED <<send_mutex, s_mutex, registryVars, wdt>>

\* The driver takes hundreds of milliseconds.  With Faulty a task may be kept
\* from running as long as that; without, the driver is the slowest.
Blocked(t) == \/ Waiting(t)
              \/ pc[t] = "again"
              \/ pc[t] = "clear" /\ radio = "leaving"
Driver     == /\ RadioUp \/ RadioFault \/ RadioLeft
              /\ Faulty \/ \A t \in Tasks : Blocked(t)
              /\ Elsewhere
Connect(t) == ConnectStep(t) /\ Elsewhere
Send(t)    == Take(t) \/ PostOk(t) \/ PostFails(t)

Next ==
  \/ Driver
  \/ SwitchStep /\ Elsewhere
  \/ \E t \in Tasks : Connect(t)
  \/ \E t \in Senders : Send(t)
  \/ \E t \in Reporting : Compose(t) \/ Count(t)
  \/ PollStart \/ PollStep
  \/ Report \/ Tick \/ Reset

Spec == Init /\ [][Next]_vars

(* Tasks run, the driver finishes what it has begun, and time passes.  The *)
(* send mutex is open only now and then, but a task blocked on it gets it   *)
(* in its turn.  Nothing is asked of the switcher beyond connect_to_band,   *)
(* and nobody is to be saved by the watchdog.                               *)
Fairness ==
  /\ WF_vars((RadioUp \/ RadioLeft) /\ Elsewhere)
  /\ \A t \in Tasks : WF_vars(Connect(t))
  /\ \A t \in Senders : SF_vars(Take(t)) /\ WF_vars(PostOk(t) \/ PostFails(t))
  /\ WF_vars(PollStep)
  /\ WF_vars(Report \/ Tick)

FairSpec == Spec /\ Fairness

-----------------------------------------------------------------------------
(* Properties *)

States == ConnectStates \cup {"rest", "take", "count", "post", "get", "edge",
                              "stay24", "stay5"}

TypeOK ==
  /\ BandTypeOK
  /\ pc \in [Tasks -> States]
  /\ \A t \in Tasks : waited[t] <= ConnectTicks \/ waited[t] <= HttpTicks
  /\ send_mutex \in Senders \cup {Nobody} /\ s_mutex \in BOOLEAN
  /\ seen \subseteq Conds /\ prev \subseteq Conds
  /\ edge \in 1 .. NConds + 1
  /\ wdt \in 0 .. WdtTicks

\* Whoever reads "connected" (the registry and the command poller, before they
\* use the network) can rely on it: the station has an address or is being
\* disconnected on purpose, although several tasks and the event handler
\* write the flag.
ConnectedSound == connected => radio \in {"up", "leaving"}

\* task_lock is a flag, not a count: it is right only while senders follow one
\* another.  It is up exactly while some task is in the part of telegram_send
\* that wants 5G, so no sender ends the hold of another and none leaves it up.
Holding       == {t \in Senders : pc[t] \in ConnectStates \cup {"post"}}
LockIsOneHold == /\ task_lock <=> (Holding # {})
                 /\ \A t \in Holding : send_mutex = t

\* A message that waits for its turn is sent or given up: neither the two
\* mutexes nor the radio keep a task for ever.
SendEnds == \A t \in Senders : pc[t] = "take" ~> pc[t] \in {"rest", "edge"}

\* The registry mutex comes free again, so the reporter gets in.
ReporterGetsIn == s_mutex ~> ~s_mutex

\* sensor_registry.c:12, "On alarm state transitions (any sensor), relay to
\* Telegram".  Where links and servers never fail and connecting takes no time,
\* telegram_send returns to poll_one with the radio on 5G, that is, with the
\* alert sent.  It does not: while the switcher is connecting, set_config is
\* refused to the sender, which posts all the same and forgets the alert.
AlertsGetOut ==
  [][pc[Registry] = "post" /\ pc'[Registry] = "edge" => OnAir]_vars

=============================================================================
