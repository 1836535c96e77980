----------------------------- MODULE SensorBus -----------------------------
(***************************************************************************)
(* The I2C sensors of yy1 and their bus (sensors/sensor_hub.c, i2c_bus.c,  *)
(* aht20.c, bmp280.c, veml7700.c): which drivers hold a device handle, and *)
(* the counter that resets the bus and initialises the sensors again after *)
(* a minute in which none has answered.  What the readings say, and the    *)
(* sensors on the ADC, are in AlarmEngine.                                 *)
(*                                                                         *)
(* The bus is external: a sensor may hold it, and then nobody answers.     *)
(***************************************************************************)
EXTENDS Integers

CONSTANT ReinitPolls        \* SENSOR_REINIT_INTERVAL_POLLS

ASSUME SensorAssumption == ReinitPolls \in Nat \ {0}

VARIABLES
  bus,              \* "none" before the start, "free" or "stuck"
  devices,          \* the drivers with s_dev # NULL
  i2c_fail          \* s_i2c_consec_fail, as far as the interval matters

sensorVars == <<bus, devices, i2c_fail>>

\* sensor_hub_read_all asks the light sensor, too, but not whether the bus
\* works.
Climate == {"aht20", "bmp280"}
Drivers == Climate \cup {"veml7700"}

SensorInit  == bus = "none" /\ devices = {} /\ i2c_fail = 0
SensorReset == bus' = "none" /\ devices' = {} /\ i2c_fail' = 0

\* The old handle of a driver is removed, and there may be no new one; whether
\* the sensor answers makes no difference.  veml7700_init gives up if it does
\* not, but keeps the handle.
Aht20Init    == {{}, {"aht20"}}
Bmp280Init   == {{}, {"bmp280"}}
Veml7700Init == {{}, {"veml7700"}}

InitDrivers ==
  \E a \in Aht20Init, b \in Bmp280Init, v \in Veml7700Init :
    devices' = a \cup b \cup v

\* i2c_bus_init does not look at the lines; i2c_bus_recover may fail.
BusInit    == bus' \in {"free", "stuck"}
BusRecover == bus' \in {"free", bus}

\* sensor_hub_init
SensorStart ==
  /\ BusInit
  /\ InitDrivers
  /\ UNCHANGED i2c_fail

Stick ==
  /\ bus = "free" /\ bus' = "stuck"
  /\ UNCHANGED <<devices, i2c_fail>>

\* No driver answers that has no handle, and none while the bus is stuck.
MayAnswer == bus = "free" /\ devices \cap Climate # {}

PollAnswered ==
  /\ MayAnswer
  /\ i2c_fail' = 0
  /\ UNCHANGED <<bus, devices>>

\* Mutant of PollFailed: while the bus is stuck nothing is counted.
PollFailedUncounted ==
  /\ bus # "none"
  /\ UNCHANGED sensorVars

\* The drivers are initialised again whether or not the bus was recovered.
PollFailed ==
  /\ bus # "none"
  /\ i2c_fail' = (i2c_fail + 1) % ReinitPolls
  /\ IF i2c_fail' = 0 THEN BusRecover /\ InitDrivers
                      ELSE UNCHANGED <<bus, devices>>

SensorPoll == PollAnswered \/ PollFailed

=============================================================================
