------------------------------ MODULE HubBoot ------------------------------
(***************************************************************************)
(* The start of yy1 (app_main.c) with what it has started running beside   *)
(* it: the Wi-Fi station comes up during the rest of the start, and its    *)
(* handler or a failing step may restart the chip at any moment.           *)
(*                                                                         *)
(* A step of app_main is one subsystem's init and start.  Both are under   *)
(* ESP_ERROR_CHECK and abort, hence restart, when they fail, but for the   *)
(* display; the camera, the face detector and the flash are done without   *)
(* if their init fails, and abort if their task does not start.            *)
(***************************************************************************)
EXTENDS WifiLink, CamTask, SensorBus

CONSTANTS MaxAborts         \* bound: steps that fail and abort

VARIABLES
  boot,             \* the step app_main is at
  aborts            \* bound: failures so far

vars == <<wifiVars, camVars, sensorVars, boot, aborts>>

Steps == <<"system", "wifi", "pool", "camera", "alarm", "motion", "face",
           "classifier", "sensors", "flash", "display", "telemetry">>
NeverAborts == {"display"}
Finished == Len(Steps) + 1

Init == WifiInit /\ CamInit /\ SensorInit /\ boot = 1 /\ aborts = 0

At(step) == boot < Finished /\ Steps[boot] = step
Advance == boot' = boot + 1 /\ UNCHANGED aborts

BootWifi ==
  /\ At("wifi") /\ WifiStart /\ Advance
  /\ UNCHANGED <<camVars, sensorVars>>

BootCamera ==
  /\ At("camera") /\ CamStart /\ Advance
  /\ UNCHANGED <<wifiVars, sensorVars>>

BootSensors ==
  /\ At("sensors") /\ SensorStart /\ Advance
  /\ UNCHANGED <<wifiVars, camVars>>

BootOther ==
  /\ boot < Finished /\ Steps[boot] \notin {"wifi", "camera", "sensors"}
  /\ Advance
  /\ UNCHANGED <<wifiVars, camVars, sensorVars>>

Restart == WifiReset /\ CamReset /\ SensorReset /\ boot' = 1

BootFails ==
  /\ boot < Finished /\ Steps[boot] \notin NeverAborts
  /\ aborts < MaxAborts /\ aborts' = aborts + 1
  /\ Restart

\* event_handler after MAX_RETRY disconnections.
GiveUp == MustRestart /\ Restart /\ UNCHANGED aborts

Boot == BootWifi \/ BootCamera \/ BootSensors \/ BootOther

OfWifi    == UNCHANGED <<camVars, sensorVars, boot, aborts>>
OfCam     == UNCHANGED <<wifiVars, sensorVars, boot, aborts>>
OfSensors == UNCHANGED <<wifiVars, camVars, boot, aborts>>

Next ==
  \/ Boot \/ BootFails \/ GiveUp
  \/ Radio /\ OfWifi
  \/ EventLoop /\ OfWifi
  \/ Freeze /\ OfCam
  \/ CamLoop /\ OfCam
  \/ Stick /\ OfSensors
  \/ SensorPoll /\ OfSensors

\* app_main and the tasks run on; esp_camera_fb_get and the delays return.
Fairness ==
  /\ WF_vars(Boot)
  /\ WF_vars((EventLoop /\ OfWifi) \/ GiveUp)
  /\ WF_vars(CamLoop /\ OfCam)
  /\ WF_vars(SensorPoll /\ OfSensors)

Spec == Init /\ [][Next]_vars /\ Fairness

-----------------------------------------------------------------------------
(* Properties *)

TypeOK ==
  /\ WifiTypeOK
  /\ chip \in {"live", "frozen"} /\ ready \in BOOLEAN
  /\ cam \in {"off", "get", "deinit", "init"} /\ consec_fail \in 0 .. FailLimit
  /\ bus \in {"none", "free", "stuck"} /\ devices \subseteq Drivers
  /\ i2c_fail \in 0 .. ReinitPolls - 1
  /\ boot \in 1 .. Finished /\ aborts \in 0 .. MaxAborts

\* The bits others wait for follow the radio whenever the handler has caught up
\* with it, however many events of a link have piled up before it ran and however
\* often links come and go: an address that is there is reported, and what is
\* reported is a link that has an address or has had one.  wifi_manager.h:53 says
\* "has an IP address currently", but nobody hears of an address that is lost
\* while the link stays.
LinkIsKnown ==
  events = <<>> =>
    /\ radio = "online" => IsConnected
    /\ IsConnected => radio \in {"online", "lapsed"}

\* wifi_manager.c:78, "Reset on successful connect": the hub restarts for want
\* of a network only after MaxRetry disconnections in a row without an address
\* in between, although the counter lags behind the radio.
RestartIsEarned == MustRestart => losses >= MaxRetry

\* The station never just stays down: it is connected or on its way again and
\* again, also after restarts in the middle of the start, unless esp_wifi_connect
\* has refused once.
StationTries == []<>(radio \notin {"off", "idle"})

\* A camera that freezes under an initialised driver is live again or the driver
\* is asked to let go of it, however many of its NULLs come between frames and
\* however often it has refused before.  No more than that: a driver that has let
\* go and does not come up again is not tried a second time (Reinit), although
\* cam_pipeline.h:16-17 promises the recovery without exception.
CameraTries == chip = "frozen" /\ ready ~> chip = "live" \/ cam = "deinit"

\* A stuck bus is always about to be reset, sensor_hub.c:107, "never stop trying".
BusTries == bus = "stuck" ~> bus # "stuck" \/ i2c_fail = ReinitPolls - 1

\* Nothing that can be tried again is left untried, while all three fail, recover
\* and are restarted beside each other.
HubTries == StationTries /\ CameraTries /\ BusTries

=============================================================================
