---------------------------- MODULE AlarmProofs ----------------------------
(***************************************************************************)
(* Proofs about AlarmEngine, for any rooms, any cooldown and any bound on  *)
(* the races.                                                              *)
(*                                                                         *)
(* That no hazard waits longer than a cooldown rests on a sum: while the   *)
(* hazard is not told, the ticks it has waited and the ticks the cooldown  *)
(* still runs are together at most one cooldown, and one more for each     *)
(* time the cooldown ran out inside an evaluate.  A tick moves one from    *)
(* the second to the first; the second starts again only when an alarm is  *)
(* raised, which is the hazard's own alarm unless it has not waited yet,   *)
(* or the clock has ticked in the evaluate that raises it.                 *)
(***************************************************************************)
EXTENDS AlarmEngine, TLAPS

\* gas_analyzer_classify returns the worst of the rules that match.
THEOREM ClassifySound == \A in \in Readings : Worst(in)
  BY DEF Readings, Worst, Matching, Severity, Classify,
         ToxicGas, Fire, CableBurning, Dangerous, PoorAir

-----------------------------------------------------------------------------
(* The inductive invariant *)

\* While the hazard is not told, waiting and cooldown share one cooldown and
\* what the races have added; the exception is the tick in which its own alarm
\* is raised.
WaitInv == \/ late + cool <= (1 + races) * Cooldown
           \/ Told /\ cool = Cooldown /\ late <= (1 + races) * Cooldown

\* In an evaluate in which no tick has fallen: a hazard that has waited is the
\* one evaluate has in hand,
SnapInv == pc # "idle" /\ evaluated = "begun" /\ late > 0
             => FirstDue(snap) = FirstDue(inputs)

\* and a condition that was due when evaluate looked at it has left a cooldown.
CheckInv == evaluated = "begun" =>
  /\ pc \in {"temp", "co", "clear"} /\ GasAlarm(snap) => cool > 0
  /\ pc \in {"co", "clear"} /\ HighTemp(snap)         => cool > 0
  /\ pc = "clear" /\ HighCo(snap)                     => cool > 0

\* In one in which a tick has fallen: the hazard has waited no longer than its
\* races account for, so that the alarm may still go to another.
RacedInv == pc # "idle" /\ evaluated = "no" /\ cool = 0 => late <= races * Cooldown

\* Nothing waits without a cause.
RestInv == /\ FirstDue(inputs) = "none" => late = 0
           /\ evaluated = "yes" /\ cool = 0 => late = 0

IInv == TypeOK /\ WaitInv /\ SnapInv /\ CheckInv /\ RacedInv /\ RestInv

-----------------------------------------------------------------------------
(* Facts about the conditions *)

\* The cooldown is at least one tick.
LEMMA CooldownType == Cooldown \in Nat /\ Cooldown > 0
  BY AlarmAssumption DEF AlarmAssumption

\* What one more race adds to the wait that is allowed.
LEMMA RacesAdd ==
  ASSUME NEW r \in Nat
  PROVE  /\ r * Cooldown \in Nat /\ (1 + r) * Cooldown \in Nat
         /\ (1 + r) * Cooldown = r * Cooldown + Cooldown
         /\ (r + 1) * Cooldown = r * Cooldown + Cooldown
         /\ (1 + 0) * Cooldown = Cooldown
  BY CooldownType

\* What an alarm may be raised for is a reason.
LEMMA ReasonType == /\ "none" \in Reasons
                    /\ "High temp" \in Reasons
                    /\ "High CO" \in Reasons
                    /\ \A in : Classify(in) \in Reasons
<1>1. \A in : Classify(in) \in Statuses
  BY DEF Classify, Statuses, Severity
<1>2. Statuses \subseteq Reasons
  BY Zenon DEF Reasons
<1>3. /\ "none" \in Reasons
      /\ "High temp" \in Reasons
      /\ "High CO" \in Reasons
  BY Zenon DEF Reasons
<1> QED
  BY <1>1, <1>2, <1>3

\* What clear_alarm_if_safe asks for leaves nothing due, if one reading or two
\* with the same condition due are what it looks at.
LEMMA TornIsCalm ==
  ASSUME NEW old \in Readings, NEW new \in Readings,
         FirstDue(new) = FirstDue(old),
         NEW t \in {old, new}, NEW c \in {old, new}, NEW g \in {old, new},
         Safe(t, c, g)
  PROVE  FirstDue(new) = "none"
  <1>0. \A in \in Readings : HighCo(in) => GasAlarm(in)
    BY DEF Readings, GasAlarm, HighCo, Classify,
           ToxicGas, Fire, CableBurning, Dangerous, PoorAir
  <1>1. \A in \in Readings :
          /\ FirstDue(in) = "none" <=> ~GasAlarm(in) /\ ~HighTemp(in)
          /\ FirstDue(in) = "High temp" <=> ~GasAlarm(in) /\ HighTemp(in)
    <2> TAKE in \in Readings
    <2>1. GasAlarm(in) => Classify(in) # "none" /\ Classify(in) # "High temp"
      BY DEF GasAlarm
    <2> QED
      BY <1>0, <2>1 DEF FirstDue
  <1>2. ~HighTemp(t)
    BY DEF Readings, Safe, HighTemp
  <1>3. ~GasAlarm(g)
    BY DEF Safe, GasAlarm
  <1>4. /\ FirstDue(t) = FirstDue(new) /\ FirstDue(g) = FirstDue(new)
        /\ t \in Readings /\ g \in Readings
    OBVIOUS
  <1> QED
    BY <1>1, <1>2, <1>3, <1>4

\* In particular, when no feed interferes.
LEMMA SafeIsCalm == \A in \in Readings : Safe(in, in, in) => FirstDue(in) = "none"
  BY TornIsCalm

\* FirstDue is what evaluate raises the alarm for.
LEMMA DueCases ==
  \A in : /\ GasAlarm(in) => FirstDue(in) = Classify(in)
          /\ ~GasAlarm(in) /\ HighTemp(in) => FirstDue(in) = "High temp"
          /\ ~GasAlarm(in) /\ ~HighTemp(in) /\ HighCo(in) => FirstDue(in) = "High CO"
          /\ ~GasAlarm(in) /\ ~HighTemp(in) /\ ~HighCo(in) => FirstDue(in) = "none"
  BY DEF FirstDue

-----------------------------------------------------------------------------
(* Every step preserves it *)

LEMMA InitIInv == Init => IInv
  <1> SUFFICES ASSUME Init PROVE IInv
    OBVIOUS
  <1>1. TypeOK
    <2>1. room \in Rooms \cup {NoReadings}
      BY DEF Init
    <2>2. inputs \in Readings /\ snap \in Readings
      BY DEF Init, NoReadings, Readings
    <2>3. reason \in Reasons
      BY ReasonType DEF Init
    <2>4. pc \in {"idle", "gas", "temp", "co", "clear"}
      BY DEF Init
    <2>5. active \in BOOLEAN /\ evaluated \in {"no", "begun", "yes"}
      BY DEF Init
    <2>6. cool \in 0 .. Cooldown /\ late \in Nat /\ races \in Nat
      BY CooldownType DEF Init
    <2> QED
      BY <2>1, <2>2, <2>3, <2>4, <2>5, <2>6 DEF TypeOK
  <1>2. WaitInv /\ SnapInv /\ CheckInv /\ RacedInv /\ RestInv
    BY CooldownType DEF Init, WaitInv, SnapInv, CheckInv, RacedInv, RestInv
  <1> QED
    BY <1>1, <1>2 DEF IInv

\* What the sensor task feeds the engine, from whichever sensors, is a reading.
LEMMA FeedType ==
  ASSUME inputs \in Readings, NEW now \in Rooms,
         NEW fed \in Sensed[now] \cup {inputs}, Feed(now, fed)
  PROVE  /\ inputs' \in Readings /\ room' \in Rooms
         /\ IF FirstDue(inputs') = FirstDue(inputs)
            THEN UNCHANGED wait ELSE late' = 0 /\ races' = 0
  <1>1. now \in Readings
    BY AlarmAssumption DEF AlarmAssumption
  <1>2. CASE fed \in Sensed[now]
    <2>1. PICK down \in SUBSET Sensors :
            fed = [temp |-> Unless("aht20" \in down, now.temp),
                   co   |-> Unless("mq7" \in down, now.co),
                   nh3  |-> Unless("mq137" \in down, now.nh3),
                   lux  |-> Unless("veml7700" \in down, now.lux)]
      BY <1>2 DEF Sensed
    <2>2. fed \in Readings
      BY <1>1, <2>1 DEF Readings, Unless
    <2> QED
      BY <2>2 DEF Feed
  <1>3. CASE fed = inputs
    BY <1>3 DEF Feed
  <1> QED
    BY <1>2, <1>3

LEMMA PollStep == IInv /\ SensorPoll => IInv'
  <1> SUFFICES ASSUME IInv, SensorPoll PROVE IInv'
    OBVIOUS
  <1> USE DEF IInv
  <1>1. PICK now \in Rooms : \E fed \in Sensed[now] \cup {inputs} : Feed(now, fed)
    BY DEF SensorPoll
  <1>2. PICK fed \in Sensed[now] \cup {inputs} : Feed(now, fed)
    BY <1>1
  <1>3. /\ inputs' \in Readings /\ room' \in Rooms
        /\ IF FirstDue(inputs') = FirstDue(inputs)
           THEN UNCHANGED wait ELSE late' = 0 /\ races' = 0
    BY <1>2, FeedType DEF TypeOK
  <1>4. UNCHANGED <<pc, snap, alarm, evaluated>>
    BY DEF SensorPoll
  <1>5. TypeOK'
    BY <1>3, <1>4 DEF TypeOK, alarm, wait
  <1>6. CASE FirstDue(inputs') = FirstDue(inputs)
    BY <1>3, <1>4, <1>5, <1>6
       DEF WaitInv, SnapInv, CheckInv, RacedInv, RestInv, Told, alarm, wait
  <1>7. CASE FirstDue(inputs') # FirstDue(inputs)
    <2>1. late' = 0 /\ races' = 0 /\ cool' = cool /\ cool <= Cooldown
      BY <1>3, <1>4, <1>7, CooldownType DEF alarm, TypeOK
    <2>2. WaitInv'
      BY <2>1, CooldownType DEF WaitInv, TypeOK
    <2>3. SnapInv' /\ CheckInv' /\ RacedInv' /\ RestInv'
      BY <1>3, <1>4, <2>1, CooldownType
         DEF SnapInv, CheckInv, RacedInv, RestInv, alarm
    <2> QED
      BY <1>5, <2>2, <2>3
  <1> QED
    BY <1>5, <1>6, <1>7

LEMMA SnapshotStep == IInv /\ Snapshot => IInv'
  <1> SUFFICES ASSUME IInv, Snapshot PROVE IInv'
    OBVIOUS
  <1> USE DEF IInv
  <1>1. TypeOK'
    BY DEF Snapshot, TypeOK, alarm, wait
  <1>2. WaitInv' /\ SnapInv' /\ CheckInv' /\ RacedInv' /\ RestInv'
    BY DEF Snapshot, TypeOK, WaitInv, SnapInv, CheckInv, RacedInv, RestInv, Told, alarm, wait
  <1> QED
    BY <1>1, <1>2

\* After a check, a condition that was due has left a cooldown.
LEMMA CheckLeaves ==
  ASSUME IInv, NEW here, NEW next, NEW due \in BOOLEAN, NEW what,
         Check(here, due, what, next)
  PROVE  /\ pc = here /\ pc' = next /\ snap' = snap
         /\ cool > 0 => cool' > 0
         /\ due => cool' > 0
  <1>1. cool \in Nat /\ Cooldown \in Nat /\ Cooldown > 0
    BY CooldownType DEF IInv, TypeOK
  <1>2. /\ pc = here /\ pc' = next /\ snap' = snap
        /\ IF due THEN FireAlarm(what) ELSE UNCHANGED alarm
    BY DEF Check
  <1>3. CASE due /\ cool = 0
    BY <1>1, <1>2, <1>3 DEF FireAlarm
  <1>4. CASE ~(due /\ cool = 0)
    <2>1. cool' = cool
      BY <1>2, <1>4 DEF FireAlarm, alarm
    <2> QED
      BY <1>1, <1>2, <1>4, <2>1
  <1> QED
    BY <1>3, <1>4

\* The three checks share their argument: if the condition is due and the
\* cooldown is over, it is the first that is due in the snapshot, or a tick has
\* fallen in this evaluate, or nothing waits.
LEMMA CheckStep ==
  ASSUME IInv,
         NEW here \in {"gas", "temp", "co"}, NEW next \in {"temp", "co", "clear"},
         NEW due \in BOOLEAN, NEW what \in Reasons,
         Check(here, due, what, next),
         evaluated = "begun" /\ due /\ cool = 0 => FirstDue(snap) = what
  PROVE  TypeOK' /\ WaitInv' /\ SnapInv' /\ RacedInv' /\ RestInv'
  <1> USE DEF IInv
  <1>1. /\ UNCHANGED <<room, inputs, snap, evaluated, late, races>>
        /\ pc = here /\ pc' = next
    BY DEF Check, wait
  <1>2. CASE due /\ cool = 0
    <2>1. active' = TRUE /\ reason' = what /\ cool' = Cooldown
      BY <1>2 DEF Check, FireAlarm
    <2>2. TypeOK'
      BY <1>1, <2>1, CooldownType DEF TypeOK
    <2>3. late <= races * Cooldown => WaitInv'
      <3>1. /\ late \in Nat /\ races \in Nat
        BY DEF TypeOK
      <3>2. late <= races * Cooldown => late + Cooldown <= (1 + races) * Cooldown
        BY <3>1, RacesAdd, CooldownType
      <3> QED
        BY <1>1, <2>1, <3>2 DEF WaitInv
    <2>4. late = 0 => late <= races * Cooldown
      BY RacesAdd DEF TypeOK
    <2>5. WaitInv'
      <3>1. CASE late = 0
        BY <2>3, <2>4, <3>1
      <3>2. CASE late # 0 /\ evaluated = "no"
        BY <1>1, <1>2, <2>3, <3>2 DEF RacedInv
      <3>3. CASE late # 0 /\ evaluated = "yes"
        BY <1>2, <3>3 DEF RestInv
      <3>4. CASE late # 0 /\ evaluated = "begun"
        <4>1. late > 0 /\ pc # "idle"
          BY <1>1, <3>4 DEF TypeOK
        <4>2. Told'
          BY <1>1, <1>2, <2>1, <3>4, <4>1 DEF SnapInv, Told
        <4>3. late <= (1 + races) * Cooldown
          BY <1>2, RacesAdd DEF WaitInv, TypeOK
        <4> QED
          BY <1>1, <2>1, <4>2, <4>3 DEF WaitInv
      <3> QED
        BY <3>1, <3>2, <3>3, <3>4 DEF TypeOK
    <2>6. SnapInv' /\ RacedInv' /\ RestInv'
      BY <1>1, <2>1, CooldownType DEF SnapInv, RacedInv, RestInv
    <2> QED
      BY <2>2, <2>5, <2>6
  <1>3. CASE ~(due /\ cool = 0)
    <2>1. UNCHANGED alarm
      BY <1>3 DEF Check, FireAlarm
    <2> QED
      BY <1>1, <2>1 DEF TypeOK, WaitInv, SnapInv, RacedInv, RestInv, Told, alarm
  <1> QED
    BY <1>2, <1>3

LEMMA GasStep == IInv /\ CheckGas => IInv'
  <1> SUFFICES ASSUME IInv, CheckGas PROVE IInv'
    OBVIOUS
  <1>1. Check("gas", GasAlarm(snap), Classify(snap), "temp")
    BY DEF CheckGas
  <1>2. GasAlarm(snap) \in BOOLEAN
    BY DEF GasAlarm
  <1>3. /\ pc = "gas" /\ pc' = "temp" /\ snap' = snap
        /\ cool > 0 => cool' > 0
        /\ GasAlarm(snap) => cool' > 0
    BY <1>1, <1>2, CheckLeaves
  <1>4. evaluated = "begun" /\ GasAlarm(snap) /\ cool = 0 => FirstDue(snap) = Classify(snap)
    <2>1. cool = 0 => ~(cool > 0)
      OBVIOUS
    <2> QED
      BY <1>3, <2>1, DueCases DEF IInv, CheckInv
  <1>5. TypeOK' /\ WaitInv' /\ SnapInv' /\ RacedInv' /\ RestInv'
    BY <1>1, <1>2, <1>4, ReasonType, CheckStep
  <1>6. CheckInv'
    <2>1. evaluated' = evaluated
      BY <1>1 DEF Check
    <2> QED
      BY <1>3, <2>1 DEF IInv, CheckInv, GasAlarm, HighTemp, HighCo
  <1> QED
    BY <1>5, <1>6 DEF IInv

LEMMA TempStep == IInv /\ CheckTemp => IInv'
  <1> SUFFICES ASSUME IInv, CheckTemp PROVE IInv'
    OBVIOUS
  <1>1. Check("temp", HighTemp(snap), "High temp", "co")
    BY DEF CheckTemp
  <1>2. HighTemp(snap) \in BOOLEAN
    BY DEF HighTemp
  <1>3. /\ pc = "temp" /\ pc' = "co" /\ snap' = snap
        /\ cool > 0 => cool' > 0
        /\ HighTemp(snap) => cool' > 0
    BY <1>1, <1>2, CheckLeaves
  <1>4. evaluated = "begun" /\ HighTemp(snap) /\ cool = 0 => FirstDue(snap) = "High temp"
    <2>1. cool = 0 => ~(cool > 0)
      OBVIOUS
    <2> QED
      BY <1>3, <2>1, DueCases DEF IInv, CheckInv
  <1>5. TypeOK' /\ WaitInv' /\ SnapInv' /\ RacedInv' /\ RestInv'
    BY <1>1, <1>2, <1>4, ReasonType, CheckStep
  <1>6. CheckInv'
    <2>1. evaluated' = evaluated
      BY <1>1 DEF Check
    <2> QED
      BY <1>3, <2>1 DEF IInv, CheckInv, GasAlarm, HighTemp, HighCo
  <1> QED
    BY <1>5, <1>6 DEF IInv

LEMMA CoStep == IInv /\ CheckCo => IInv'
  <1> SUFFICES ASSUME IInv, CheckCo PROVE IInv'
    OBVIOUS
  <1>1. Check("co", HighCo(snap), "High CO", "clear")
    BY DEF CheckCo
  <1>2. HighCo(snap) \in BOOLEAN
    BY DEF HighCo
  <1>3. /\ pc = "co" /\ pc' = "clear" /\ snap' = snap
        /\ cool > 0 => cool' > 0
        /\ HighCo(snap) => cool' > 0
    BY <1>1, <1>2, CheckLeaves
  <1>4. evaluated = "begun" /\ HighCo(snap) /\ cool = 0 => FirstDue(snap) = "High CO"
    <2>1. cool = 0 => ~(cool > 0)
      OBVIOUS
    <2> QED
      BY <1>3, <2>1, DueCases DEF IInv, CheckInv
  <1>5. TypeOK' /\ WaitInv' /\ SnapInv' /\ RacedInv' /\ RestInv'
    BY <1>1, <1>2, <1>4, ReasonType, CheckStep
  <1>6. CheckInv'
    <2>1. evaluated' = evaluated
      BY <1>1 DEF Check
    <2> QED
      BY <1>3, <2>1 DEF IInv, CheckInv, GasAlarm, HighTemp, HighCo
  <1> QED
    BY <1>5, <1>6 DEF IInv

\* At the end of an evaluate in which no tick has fallen, if the cooldown is
\* over, nothing was due in the snapshot, so nothing has waited.
LEMMA RestAtEnd ==
  IInv /\ pc = "clear" /\ evaluated # "no" /\ cool = 0 => late = 0
  <1> SUFFICES ASSUME IInv, pc = "clear", evaluated # "no", cool = 0 PROVE late = 0
    OBVIOUS
  <1>1. CASE evaluated = "yes"
    BY <1>1 DEF IInv, RestInv
  <1>2. CASE evaluated = "begun"
    <2>1. ~(cool > 0)
      OBVIOUS
    <2>2. ~GasAlarm(snap) /\ ~HighTemp(snap) /\ ~HighCo(snap)
      BY <1>2, <2>1 DEF IInv, CheckInv
    <2>3. FirstDue(snap) = "none"
      BY <2>2, DueCases
    <2>4. late > 0 => FirstDue(inputs) = "none"
      BY <1>2, <2>3 DEF IInv, SnapInv
    <2> QED
      BY <2>4 DEF IInv, RestInv, TypeOK
  <1> QED
    BY <1>1, <1>2 DEF IInv, TypeOK

LEMMA ClearStep == IInv /\ ClearAlarmIfSafe => IInv'
  <1> SUFFICES ASSUME IInv, ClearAlarmIfSafe PROVE IInv'
    OBVIOUS
  <1>1. /\ pc = "clear" /\ pc' = "idle"
        /\ active' = (active /\ ~Safe(inputs, inputs, inputs))
        /\ snap' = NoReadings
        /\ evaluated' = IF evaluated = "begun" THEN "yes" ELSE evaluated
        /\ UNCHANGED <<room, inputs, reason, cool, late, races>>
    BY DEF ClearAlarmIfSafe, Clear, wait
  <1>2. TypeOK'
    <2>1. snap' \in Readings
      BY <1>1 DEF NoReadings, Readings
    <2> QED
      BY <1>1, <2>1 DEF IInv, TypeOK
  <1>3. WaitInv'
    <2>1. CASE late + cool <= (1 + races) * Cooldown
      BY <1>1, <2>1 DEF WaitInv
    <2>2. CASE Told /\ cool = Cooldown /\ late <= (1 + races) * Cooldown
      <3>1. Safe(inputs, inputs, inputs) => FirstDue(inputs) = "none"
        BY SafeIsCalm DEF IInv, TypeOK
      <3>2. Told'
        BY <1>1, <2>2, <3>1 DEF Told
      <3> QED
        BY <1>1, <2>2, <3>2 DEF WaitInv
    <2> QED
      BY <2>1, <2>2 DEF IInv, WaitInv
  <1>4. SnapInv' /\ CheckInv' /\ RacedInv' /\ RestInv'
    BY <1>1, RestAtEnd DEF IInv, TypeOK, SnapInv, CheckInv, RacedInv, RestInv
  <1> QED
    BY <1>2, <1>3, <1>4 DEF IInv

\* Fields of two readings may look safe together although neither reading is,
\* but not if both have the same condition due: the hazard is then a new one.
LEMMA ClearDuringFeedStep == IInv /\ ClearDuringFeed => IInv'
  <1> SUFFICES ASSUME IInv, ClearDuringFeed PROVE IInv'
    OBVIOUS
  <1>1. PICK now \in Rooms : \E fed \in Sensed[now] :
          /\ \E safe \in {Safe(t, c, g) : t, c, g \in {inputs, fed}} : Clear(safe)
          /\ Feed(now, fed)
    BY DEF ClearDuringFeed
  <1>2. PICK fed \in Sensed[now] :
          /\ \E safe \in {Safe(t, c, g) : t, c, g \in {inputs, fed}} : Clear(safe)
          /\ Feed(now, fed)
    BY <1>1
  <1>3. PICK t \in {inputs, fed}, c \in {inputs, fed}, g \in {inputs, fed} :
          Clear(Safe(t, c, g))
    BY <1>2
  <1>4. /\ inputs' \in Readings /\ room' \in Rooms
        /\ IF FirstDue(inputs') = FirstDue(inputs)
           THEN UNCHANGED wait ELSE late' = 0 /\ races' = 0
    BY <1>2, FeedType DEF IInv, TypeOK
  <1>5. inputs' = fed /\ inputs \in Readings
    BY <1>2 DEF Feed, IInv, TypeOK
  <1>6. /\ pc = "clear" /\ pc' = "idle"
        /\ active' = (active /\ ~Safe(t, c, g))
        /\ snap' = NoReadings
        /\ evaluated' = IF evaluated = "begun" THEN "yes" ELSE evaluated
        /\ UNCHANGED <<reason, cool>>
    BY <1>3 DEF Clear
  <1>7. TypeOK'
    <2>1. snap' \in Readings
      BY <1>6 DEF NoReadings, Readings
    <2>2. active' \in BOOLEAN
      BY <1>6 DEF IInv, TypeOK
    <2> QED
      BY <1>4, <1>6, <2>1, <2>2 DEF IInv, TypeOK, wait
  <1>8. WaitInv'
    <2>1. CASE FirstDue(inputs') = FirstDue(inputs)
      <3>1. Safe(t, c, g) => FirstDue(inputs') = "none"
        BY <1>3, <1>4, <1>5, <2>1, TornIsCalm
      <3>2. Told => Told'
        BY <1>6, <2>1, <3>1 DEF Told
      <3> QED
        BY <1>4, <1>6, <2>1, <3>2 DEF IInv, WaitInv, wait
    <2>2. CASE FirstDue(inputs') # FirstDue(inputs)
      <3>1. late' = 0 /\ races' = 0 /\ cool' = cool
        BY <1>4, <1>6, <2>2
      <3> QED
        BY <3>1, CooldownType DEF IInv, TypeOK, WaitInv
    <2> QED
      BY <2>1, <2>2
  <1>9. SnapInv' /\ CheckInv' /\ RacedInv'
    BY <1>6 DEF IInv, TypeOK, SnapInv, CheckInv, RacedInv
  <1>10. RestInv'
    <2>1. CASE FirstDue(inputs') = FirstDue(inputs)
      BY <1>4, <1>6, <2>1, RestAtEnd DEF IInv, TypeOK, RestInv, wait
    <2>2. CASE FirstDue(inputs') # FirstDue(inputs)
      BY <1>4, <2>2 DEF RestInv
    <2> QED
      BY <2>1, <2>2
  <1> QED
    BY <1>7, <1>8, <1>9, <1>10 DEF IInv

\* A tick moves one from the cooldown to the wait, if any is left; if none is,
\* nothing has waited, and one tick is no more than a cooldown.  Inside an
\* evaluate, a tick that leaves no cooldown is a race, which adds one.
LEMMA TickStep == IInv /\ Tick => IInv'
  <1> SUFFICES ASSUME IInv, Tick PROVE IInv'
    OBVIOUS
  <1>1. /\ evaluated = "yes" /\ evaluated' = "no"
        /\ cool' = IF cool = 0 THEN 0 ELSE cool - 1
        /\ late' = IF Told THEN 0 ELSE late + 1
        /\ races' = IF Told THEN 0 ELSE IF Overtaken THEN races + 1 ELSE races
        /\ UNCHANGED <<room, inputs, pc, snap, active, reason>>
    BY DEF Tick
  <1>2. cool \in 0 .. Cooldown /\ late \in Nat /\ races \in Nat
    BY DEF IInv, TypeOK
  <1>3. cool' \in 0 .. Cooldown /\ late' \in Nat /\ races' \in Nat
    BY <1>1, <1>2, CooldownType
  <1>4. TypeOK'
    BY <1>1, <1>3 DEF IInv, TypeOK
  <1>5. late' + cool' <= races' * Cooldown + Cooldown
    <2>1. CASE Told
      BY <1>1, <1>2, <1>3, <2>1, CooldownType
    <2>2. CASE ~Told
      <3>1. late + cool <= races * Cooldown + Cooldown
        BY <1>2, <2>2, RacesAdd DEF IInv, WaitInv
      <3>2. cool = 0 => late = 0
        BY <1>1 DEF IInv, RestInv
      <3>3. late' + cool' <= races * Cooldown + Cooldown
        BY <1>1, <1>2, <2>2, <3>1, <3>2, RacesAdd, CooldownType
      <3>4. races * Cooldown <= races' * Cooldown
        BY <1>1, <1>2, <2>2, RacesAdd, CooldownType
      <3>5. races * Cooldown \in Nat /\ races' * Cooldown \in Nat
        BY <1>2, <1>3, RacesAdd
      <3>6. late' \in Nat /\ cool' \in Nat /\ Cooldown \in Nat
        BY <1>3, CooldownType
      <3> QED
        BY <3>3, <3>4, <3>5, <3>6
    <2> QED
      BY <2>1, <2>2
  <1>6. WaitInv'
    BY <1>3, <1>5, RacesAdd DEF WaitInv
  <1>7. SnapInv' /\ CheckInv'
    BY <1>1 DEF SnapInv, CheckInv
  <1>8. RacedInv'
    <2> SUFFICES ASSUME pc # "idle", cool' = 0 PROVE late' <= races' * Cooldown
      BY <1>1 DEF RacedInv
    <2>1. CASE Told
      BY <1>1, <2>1, CooldownType
    <2>2. CASE ~Told
      <3>1. Overtaken
        BY <1>1, <1>2 DEF Overtaken
      <3>2. late' = late + 1 /\ races' = races + 1
        BY <1>1, <2>2, <3>1
      <3>3. late + cool <= races * Cooldown + Cooldown
        BY <1>2, <2>2, RacesAdd DEF IInv, WaitInv
      <3>4. cool = 0 => late = 0
        BY <1>1 DEF IInv, RestInv
      <3>5. late + 1 <= races * Cooldown + Cooldown
        BY <1>2, <3>3, <3>4, RacesAdd, CooldownType
      <3> QED
        BY <1>2, <3>2, <3>5, RacesAdd
    <2> QED
      BY <2>1, <2>2
  <1>9. RestInv'
    <2>1. FirstDue(inputs) = "none" => Told
      BY DEF Told
    <2> QED
      BY <1>1, <2>1 DEF RestInv
  <1> QED
    BY <1>4, <1>6, <1>7, <1>8, <1>9 DEF IInv

LEMMA IdleStep == IInv /\ UNCHANGED vars => IInv'
  BY DEF vars, alarm, wait, IInv, TypeOK, WaitInv, SnapInv, CheckInv, RacedInv, RestInv, Told

-----------------------------------------------------------------------------
(* The theorems *)

\* IInv holds in every state the alarm engine reaches.
THEOREM Inductive == Spec => []IInv
<1>1. Init => IInv
  BY InitIInv
<1>2. IInv /\ [Next]_vars => IInv'
  BY PollStep, SnapshotStep, GasStep, TempStep, CoStep, ClearStep,
     ClearDuringFeedStep, TickStep, IdleStep
     DEF Next, Evaluate
<1> QED
  BY <1>1, <1>2, PTL DEF Spec

\* Every variable keeps its type; in particular the cooldown never leaves its
\* range.
THEOREM AlarmTypeCorrect == Spec => []TypeOK
<1>1. IInv => TypeOK
  BY DEF IInv
<1> QED
  BY <1>1, Inductive, PTL

\* A hazard the engine has been fed is the alarm's reason after one cooldown at
\* the latest, and one more for each time the cooldown ran out inside an
\* evaluate, for every cooldown and whatever the sensors read.
THEOREM HazardsAreTold == Spec => []HazardIsTold
<1>1. IInv => HazardIsTold
  BY RacesAdd DEF IInv, TypeOK, WaitInv, HazardIsTold
<1> QED
  BY <1>1, Inductive, PTL

\* The status of what the sensors read is always the worst that matches.
THEOREM ClassifyAlwaysWorst == Spec => []ClassifyIsWorst
<1>1. IInv => ClassifyIsWorst
  BY ClassifySound DEF IInv, TypeOK, ClassifyIsWorst
<1> QED
  BY <1>1, Inductive, PTL
=============================================================================
