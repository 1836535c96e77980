---------------------------- MODULE AlarmEngine ----------------------------
(***************************************************************************)
(* The sensor hub and the alarm engine of yy1 (sensors/sensor_hub.c,       *)
(* alarm/alarm_engine.c).  The sensor task reads the room, classifies it   *)
(* (module GasAnalyzer) and feeds the engine; the alarm task takes a       *)
(* snapshot of what it was fed, looks at three conditions in turn, each of *)
(* which may raise the alarm, and at last may clear it, by the inputs as   *)
(* they are then, read without the mutex, and not by the snapshot.         *)
(*                                                                         *)
(* A tick is one second, counted from when the cooldown last started.  The *)
(* clock is read again by every fire_alarm, so a tick may also fall inside *)
(* an evaluate.  The alarm task evaluates twice a second: a whole evaluate *)
(* lies between two ticks.  The sensors are read at any time.              *)
(***************************************************************************)
EXTENDS Integers, GasAnalyzer

CONSTANTS
  Rooms,        \* what the sensors would read if none failed
  Cooldown,     \* CONFIG_VH_ALARM_COOLDOWN_S, in ticks
  MaxRaces      \* bound: how often a hazard may be overtaken

ASSUME AlarmAssumption ==
  /\ Rooms \subseteq Readings
  /\ Cooldown \in Nat \ {0}
  /\ MaxRaces \in Nat

VARIABLES
  room,         \* the room as it was when the sensors were last read
  inputs,       \* s_inputs; the gas status is classified from the same readings
  pc,           \* what the alarm task looks at next
  snap,         \* evaluate's copy of the inputs
  active,       \* s_state.active, and alarm_active in the telemetry
  reason,       \* s_state.reason
  cool,         \* ticks until cooldown_expired
  evaluated,    \* since the last tick, an evaluate has: not / begun / also ended
  late,         \* ticks the first condition due has not been the alarm's reason
  races         \* of these, the ticks inside an evaluate that left no cooldown

alarm == <<active, reason, cool>>
wait  == <<late, races>>
vars  == <<room, inputs, pc, snap, alarm, evaluated, wait>>

I2C     == {"aht20", "bmp280", "veml7700"}
Sensors == I2C \cup {"mq7", "mq137"}

Reasons == Statuses \cup {"none", "High temp", "High CO"}

NoReadings == [temp |-> 0, co |-> 0, nh3 |-> 0, lux |-> 0]

Init ==
  /\ room = NoReadings
  /\ inputs = NoReadings
  /\ pc = "idle" /\ snap = NoReadings
  /\ active = FALSE /\ reason = "none" /\ cool = 0
  /\ evaluated = "no" /\ late = 0 /\ races = 0

-----------------------------------------------------------------------------
(* What raises the alarm *)

GasAlarm(in) == Classify(in) \in {"FIRE", "TOXIC_GAS", "CABLE_BURNING", "DANGEROUS"}
HighTemp(in) == in.temp >= 1
HighCo(in)   == in.co >= 2

\* Mutant: poor air does not count as normal.
SafeIfNormal(t, c, g) == t.temp < 1 /\ c.co < 2 /\ Classify(g) = "NORMAL"

\* What clear_alarm_if_safe asks for: the temperature of t, the CO of c and the
\* gas status of g, which are of different readings if the sensor task was
\* writing.
Safe(t, c, g) == /\ t.temp < 1 /\ c.co < 2
                 /\ Classify(g) \in {"NORMAL", "POOR_AIR"}

\* The condition that evaluate would raise the alarm for, were it not cooling.
FirstDue(in) ==
  IF      GasAlarm(in) THEN Classify(in)
  ELSE IF HighTemp(in) THEN "High temp"
  ELSE IF HighCo(in)   THEN "High CO"
  ELSE                      "none"

-----------------------------------------------------------------------------
(* sensor_hub_read_all: a sensor that fails leaves its reading at zero, and *)
(* the engine is fed only if some sensor on the I2C bus has answered.       *)

Unless(failed, value) == IF failed THEN 0 ELSE value

\* What is read in each room, if a sensor on the I2C bus answers.
Sensed == [now \in Rooms |->
  {[temp |-> Unless("aht20" \in down, now.temp),
    co   |-> Unless("mq7" \in down, now.co),
    nh3  |-> Unless("mq137" \in down, now.nh3),
    lux  |-> Unless("veml7700" \in down, now.lux)] :
      down \in {d \in SUBSET Sensors : ~(I2C \subseteq d)}}]

Feed(now, fed) ==
  /\ room' = now /\ inputs' = fed
  /\ IF FirstDue(fed) = FirstDue(inputs) THEN UNCHANGED wait
                                          ELSE late' = 0 /\ races' = 0

SensorPoll ==
  /\ \E now \in Rooms : \E fed \in Sensed[now] \cup {inputs} : Feed(now, fed)
  /\ UNCHANGED <<pc, snap, alarm, evaluated>>

-----------------------------------------------------------------------------
(* evaluate *)

Snapshot ==
  /\ pc = "idle"
  /\ snap' = inputs
  /\ pc' = "gas"
  /\ evaluated' = IF evaluated = "no" THEN "begun" ELSE evaluated
  /\ UNCHANGED <<room, inputs, alarm, wait>>

\* Mutant: the cooldown starts again when an alarm is suppressed.
FireAlarmRearmed(what) ==
  /\ cool' = Cooldown
  /\ IF cool = 0 THEN active' = TRUE /\ reason' = what
                 ELSE UNCHANGED <<active, reason>>

\* fire_alarm, with the dispatch, whose outcome is only counted.
FireAlarm(what) ==
  IF cool = 0 THEN active' = TRUE /\ reason' = what /\ cool' = Cooldown
              ELSE UNCHANGED alarm

Check(here, due, what, next) ==
  /\ pc = here
  /\ IF due THEN FireAlarm(what) ELSE UNCHANGED alarm
  /\ pc' = next
  /\ UNCHANGED <<room, inputs, snap, evaluated, wait>>

CheckGas  == Check("gas", GasAlarm(snap), Classify(snap), "temp")
CheckTemp == Check("temp", HighTemp(snap), "High temp", "co")
CheckCo   == Check("co", HighCo(snap), "High CO", "clear")

Clear(safe) ==
  /\ pc = "clear"
  /\ active' = (active /\ ~safe)
  /\ pc' = "idle" /\ snap' = NoReadings
  /\ evaluated' = IF evaluated = "begun" THEN "yes" ELSE evaluated
  /\ UNCHANGED <<reason, cool>>

ClearAlarmIfSafe ==
  /\ Clear(Safe(inputs, inputs, inputs))
  /\ UNCHANGED <<room, inputs, wait>>

\* The same while the sensor task is in the middle of feeding the engine: each
\* field read is the old one or the new one.  Without an alarm none is read.
ClearDuringFeed ==
  /\ active
  /\ \E now \in Rooms : \E fed \in Sensed[now] :
       /\ \E safe \in {Safe(t, c, g) : t, c, g \in {inputs, fed}} : Clear(safe)
       /\ Feed(now, fed)

Evaluate == \/ Snapshot \/ CheckGas \/ CheckTemp \/ CheckCo
            \/ ClearAlarmIfSafe \/ ClearDuringFeed

Told == \/ FirstDue(inputs) = "none"
        \/ active /\ reason = FirstDue(inputs)

\* After this second no cooldown is left, and an evaluate is under way that may
\* have been refused the worse of two alarms.
Overtaken == pc # "idle" /\ cool <= 1

\* A second passes, also for cooldown_expired.
Tick ==
  /\ evaluated = "yes" /\ (Overtaken => races < MaxRaces)
  /\ cool' = IF cool = 0 THEN 0 ELSE cool - 1
  /\ late' = IF Told THEN 0 ELSE late + 1
  /\ races' = IF Told THEN 0 ELSE IF Overtaken THEN races + 1 ELSE races
  /\ evaluated' = "no"
  /\ UNCHANGED <<room, inputs, pc, snap, active, reason>>

Next == SensorPoll \/ Evaluate \/ Tick

Spec == Init /\ [][Next]_vars

\* The alarm task is periodic; the sensors may stay unread.
FairSpec == Spec /\ WF_vars(Evaluate)

-----------------------------------------------------------------------------
(* Properties *)

TypeOK ==
  /\ room \in Rooms \cup {NoReadings}
  /\ inputs \in Readings /\ snap \in Readings
  /\ pc \in {"idle", "gas", "temp", "co", "clear"}
  /\ active \in BOOLEAN
  /\ reason \in Reasons
  /\ cool \in 0 .. Cooldown
  /\ evaluated \in {"no", "begun", "yes"}
  /\ late \in Nat /\ races \in Nat

\* The cooldown delays an alarm and never loses one: a hazard that the engine
\* has been fed, and that stays the most urgent one, is the reason of an active
\* alarm after one cooldown at the latest, however it followed other hazards,
\* however the alarm was cleared between them, and whatever evaluate's snapshot
\* missed.  There is one way to wait longer, and each time it costs one cooldown
\* more: the cooldown runs out inside an evaluate, between a condition that was
\* refused and a lesser one, which takes the alarm and starts the cooldown again.
HazardIsTold == late <= (1 + races) * Cooldown

\* An alarm cannot be stuck: once no condition is due any more, it is cleared,
\* so what clear_alarm_if_safe asks for is no more than that nothing in
\* evaluate is due.
Calm      == FirstDue(inputs) = "none"
AlarmEnds == <>[]Calm => <>[]~active

\* gas_analyzer.c:11-12, "The evaluation uses the highest-severity rule that
\* matches all conditions", although it tries the rules in a fixed order and
\* compares no severities.
ClassifyIsWorst == Worst(inputs)

=============================================================================
