------------------------------ MODULE CamTask ------------------------------
(***************************************************************************)
(* The camera of yy1: the driver's state (cam/cam_driver.c) and the loop   *)
(* of cam_task (cam/cam_pipeline.c) that counts failures and reinitialises *)
(* a frozen camera.  What becomes of a frame is in FramePool.              *)
(*                                                                         *)
(* The chip and its DMA are external: live, or frozen until the driver is  *)
(* initialised again.                                                      *)
(***************************************************************************)
EXTENDS Integers

CONSTANT FailLimit          \* CAM_CONSEC_FAIL_REINIT

ASSUME CamAssumption == FailLimit \in Nat \ {0}

VARIABLES
  chip,             \* live or frozen
  ready,            \* cam_driver.c: s_initialized
  cam,              \* what cam_task does next, "off" before it is created
  consec_fail

camVars == <<chip, ready, cam, consec_fail>>

CamInit == chip = "live" /\ ready = FALSE /\ cam = "off" /\ consec_fail = 0

\* The chip has its own power-on reset.
CamReset == chip' = "live" /\ ready' = FALSE /\ cam' = "off" /\ consec_fail' = 0

\* cam_driver_init: a driver that is initialised is left alone; else the bus
\* is freed, the chip started, and either of them may not answer.
DriverInit ==
  IF ready THEN UNCHANGED <<chip, ready>>
  ELSE \/ ready' = TRUE /\ chip' = "live"
       \/ UNCHANGED <<chip, ready>>

\* app_main: cam_driver_init, and cam_pipeline_start if it has succeeded.
CamStart ==
  /\ DriverInit
  /\ cam' = IF ready' THEN "get" ELSE "off"
  /\ UNCHANGED consec_fail

Freeze ==
  /\ chip = "live" /\ ready
  /\ chip' = "frozen"
  /\ UNCHANGED <<ready, cam, consec_fail>>

\* esp_camera_fb_get brings a frame; published, it ends the row of failures,
\* dropped (its length, or no slot), it does not.
GetFrame ==
  /\ cam = "get" /\ ready /\ chip = "live"
  /\ consec_fail' \in {0, consec_fail}
  /\ UNCHANGED <<chip, ready, cam>>

\* Mutant of GetNull: the failure goes into the other statistic.
GetNullUncounted ==
  /\ cam = "get" /\ ready
  /\ UNCHANGED camVars

\* It times out.
GetNull ==
  /\ cam = "get" /\ ready
  /\ consec_fail' = consec_fail + 1
  /\ cam' = IF consec_fail + 1 >= FailLimit THEN "deinit" ELSE "get"
  /\ UNCHANGED <<chip, ready>>

\* cam_driver_deinit; a driver that refuses stays initialised, and the init that
\* follows leaves it alone.
Deinit ==
  /\ cam = "deinit"
  /\ ready' \in {FALSE, ready}
  /\ cam' = "init"
  /\ UNCHANGED <<chip, consec_fail>>

\* The result is logged.  If it is a failure, the driver is not ready, and
\* cam_task comes neither to GetNull nor here any more.
Reinit ==
  /\ cam = "init"
  /\ DriverInit
  /\ consec_fail' = 0
  /\ cam' = "get"

CamLoop == GetFrame \/ GetNull \/ Deinit \/ Reinit

=============================================================================
