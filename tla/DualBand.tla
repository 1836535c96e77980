------------------------------ MODULE DualBand ------------------------------
(***************************************************************************)
(* The dual-band Wi-Fi manager of yy2 (net/wifi_dual.c): one radio, the    *)
(* band switcher, and connect_to_band as any task may run it.  Module      *)
(* Scout adds the tasks that ask for a band.                               *)
(*                                                                         *)
(* The chip has one core, and the Wi-Fi driver and the event loop run at a *)
(* higher priority than every task modelled here: a driver event and its   *)
(* handler are one step, which may come between any two statements of a    *)
(* task.  The statements of connect_to_band that write s_wifi are separate *)
(* steps, because tasks preempt each other in it.                          *)
(*                                                                         *)
(* The driver is modelled by what the code relies on: a configuration may  *)
(* be refused while the station is connecting (the code tries again once), *)
(* a station that is connected has to be disconnected before it connects   *)
(* elsewhere, a disconnection is over after the 200 ms the code waits, and *)
(* an address is lost only with its link (IP_EVENT_STA_LOST_IP has no      *)
(* handler).                                                               *)
(***************************************************************************)
EXTENDS Naturals

CONSTANTS
  Senders,       \* tasks that call telegram_send
  ConnectTicks,  \* the 15 s connect_to_band waits, in ticks
  Faulty         \* whether links are lost, and connections refused or slow

Switcher == "band_sw"
Tasks    == Senders \cup {Switcher}
Bands    == {"2.4G", "5G"}

ASSUME DualBandAssumption ==
  /\ Switcher \notin Senders
  /\ ConnectTicks \in Nat \ {0} /\ Faulty \in BOOLEAN

VARIABLES
  radio,         \* the station: idle, connecting, up or leaving
  on,            \* the band it is connected or connecting to
  current_band,  \* s_wifi.current_band
  connected,     \* s_wifi.connected
  bits,          \* s_wifi.events
  task_lock,     \* s_wifi.task_lock
  target,        \* the band the switcher is connecting to
  pc,            \* what each task is at
  waited         \* ticks each task has waited where it is

driverVars == <<radio, on>>
wifiVars   == <<current_band, connected, bits>>
bandVars   == <<driverVars, wifiVars, task_lock, target, pc, waited>>

ConnectStates == {"begin", "clear", "label", "config", "again", "wait"}

\* wifi_dual_init has connected to 2.4G (it reboots the chip until it has).
BandInit ==
  /\ radio = "up" /\ on = "2.4G"
  /\ current_band = "2.4G" /\ connected = TRUE /\ bits = {"connected"}
  /\ task_lock = FALSE
  /\ target = "2.4G"
  /\ pc = [t \in Tasks |-> IF t = Switcher THEN "stay24" ELSE "rest"]
  /\ waited = [t \in Tasks |-> 0]

-----------------------------------------------------------------------------
(* The driver, with wifi_event_handler. *)

GotIp        == connected' = TRUE  /\ bits' = bits \cup {"connected"}
\* Mutant: the handler only wakes connect_to_band.
DisconnectedUnnoted == UNCHANGED connected /\ bits' = bits \cup {"fail"}
Disconnected == connected' = FALSE /\ bits' = bits \cup {"fail"}

RadioUp ==
  /\ radio = "connecting"
  /\ radio' = "up"
  /\ GotIp
  /\ UNCHANGED <<on, current_band, task_lock, target, pc, waited>>

\* The access point refuses the station, or the link is lost.
RadioFault ==
  /\ radio \in {"connecting", "up"}
  /\ Faulty
  /\ radio' = "idle"
  /\ Disconnected
  /\ UNCHANGED <<on, current_band, task_lock, target, pc, waited>>

\* esp_wifi_disconnect takes effect.
RadioLeft ==
  /\ radio = "leaving"
  /\ radio' = "idle"
  /\ Disconnected
  /\ UNCHANGED <<on, current_band, task_lock, target, pc, waited>>

-----------------------------------------------------------------------------
(* connect_to_band, run by task t.  Nobody looks at what it returns. *)

Goto(t, state) == /\ pc' = [pc EXCEPT ![t] = state]
                  /\ waited' = [waited EXCEPT ![t] = 0]

Band(t) == IF t = Switcher THEN target ELSE "5G"

\* Where task t goes on when connect_to_band returns.
Return(t) == IF t # Switcher     THEN "post"
             ELSE IF target = "5G" THEN "stay5" ELSE "stay24"

Begin(t) ==
  /\ pc[t] = "begin"
  /\ radio' = IF connected /\ radio \in {"up", "connecting"}
              THEN "leaving" ELSE radio
  /\ Goto(t, "clear")
  /\ UNCHANGED <<on, wifiVars, task_lock, target>>

ClearBits(t) ==
  /\ pc[t] = "clear"
  /\ radio # "leaving"
  /\ bits' = {}
  /\ Goto(t, "label")
  /\ UNCHANGED <<driverVars, current_band, connected, task_lock, target>>

SetBand(t) ==
  /\ pc[t] = "label"
  /\ connected' = FALSE
  /\ current_band' = Band(t)
  /\ Goto(t, "config")
  /\ UNCHANGED <<driverVars, bits, task_lock, target>>

\* esp_wifi_set_config and esp_wifi_connect.
Configure(t) ==
  /\ pc[t] \in {"config", "again"}
  /\ IF radio = "idle" THEN radio' = "connecting" /\ on' = Band(t)
                       ELSE UNCHANGED <<radio, on>>
  /\ Goto(t, "wait")
  /\ UNCHANGED <<wifiVars, task_lock, target>>

\* esp_wifi_set_config is refused: once more after 500 ms, then give up.
ConfigRefused(t) ==
  /\ pc[t] \in {"config", "again"}
  /\ radio = "connecting"
  /\ Goto(t, IF pc[t] = "config" THEN "again" ELSE Return(t))
  /\ UNCHANGED <<driverVars, wifiVars, task_lock, target>>

\* Mutant: portMAX_DELAY for the 15 s.
WaitReturnsOnBit(t) ==
  /\ pc[t] = "wait"
  /\ bits # {}
  /\ Goto(t, Return(t))
  /\ UNCHANGED <<driverVars, wifiVars, task_lock, target>>

\* xEventGroupWaitBits returns, by a bit or by its timeout.
WaitReturns(t) ==
  /\ pc[t] = "wait"
  /\ bits # {} \/ waited[t] = ConnectTicks
  /\ Goto(t, Return(t))
  /\ UNCHANGED <<driverVars, wifiVars, task_lock, target>>

ConnectStep(t) ==
  \/ Begin(t) \/ ClearBits(t) \/ SetBand(t)
  \/ Configure(t) \/ ConfigRefused(t) \/ WaitReturns(t)

-----------------------------------------------------------------------------
(* band_switch_task.  Its tests are one step, its call is another: a       *)
(* sender has a higher priority and may come between.                      *)

Reclaim ==
  /\ pc[Switcher] = "stay24"
  /\ ~task_lock /\ current_band # "2.4G"
  /\ target' = "2.4G"
  /\ Goto(Switcher, "begin")
  /\ UNCHANGED <<driverVars, wifiVars, task_lock>>

\* The 2.4G phase is over.
Window ==
  /\ pc[Switcher] = "stay24"
  /\ IF ~task_lock /\ current_band # "5G"
     THEN target' = "5G" /\ Goto(Switcher, "begin")
     ELSE UNCHANGED target /\ Goto(Switcher, "stay5")
  /\ UNCHANGED <<driverVars, wifiVars, task_lock>>

WindowOver ==
  /\ pc[Switcher] = "stay5"
  /\ Goto(Switcher, "stay24")
  /\ UNCHANGED <<driverVars, wifiVars, task_lock, target>>

SwitchStep == Reclaim \/ Window \/ WindowOver

-----------------------------------------------------------------------------
(* What a sender asks for, while it holds send_mutex. *)

\* wifi_dual_switch_to_5g.
SwitchTo5g(t) ==
  /\ task_lock' = TRUE
  /\ Goto(t, IF current_band = "5G" /\ connected THEN "post" ELSE "begin")
  /\ UNCHANGED <<driverVars, wifiVars, target>>

\* wifi_dual_release_lock, and task t goes on at state.
ReleaseLock(t, state) ==
  /\ task_lock' = FALSE
  /\ Goto(t, state)
  /\ UNCHANGED <<driverVars, wifiVars, target>>

BandTypeOK ==
  /\ radio \in {"idle", "connecting", "up", "leaving"}
  /\ on \in Bands /\ current_band \in Bands /\ target \in Bands
  /\ connected \in BOOLEAN /\ task_lock \in BOOLEAN
  /\ bits \subseteq {"connected", "fail"}
  /\ waited \in [Tasks -> Nat]
=============================================================================
