---------------------------- MODULE GasAnalyzer ----------------------------
(***************************************************************************)
(* gas_analyzer_classify of yy1 (alarm/gas_analyzer.c).  A reading is the  *)
(* number of the band it lies in, between the thresholds the code compares *)
(* it with; 0 is also what a sensor that failed contributes.               *)
(*   temp  0  below 60   1  60 and more   2  65 and more (degrees)         *)
(*   co    0  below 20   1  20   2  50    3  80    4  500 and more (ppm)   *)
(*   nh3   0  below 25   1  25   2  50    3  60    4  250 and more (ppm)   *)
(*   lux   0  below 8000 1  8000 and more                                  *)
(***************************************************************************)
EXTENDS Naturals

Readings == [temp : 0 .. 2, co : 0 .. 4, nh3 : 0 .. 4, lux : 0 .. 1]

\* gas_status_t; the enumeration is in the order of severity.
Severity == [NORMAL |-> 0, POOR_AIR |-> 1, DANGEROUS |-> 2,
             CABLE_BURNING |-> 3, FIRE |-> 4, TOXIC_GAS |-> 5]
Statuses == DOMAIN Severity

ToxicGas(in)     == in.nh3 >= 4 \/ in.co >= 4
Fire(in)         == (in.co >= 3 /\ in.temp >= 2) \/ in.lux >= 1
CableBurning(in) == in.nh3 >= 3 /\ in.co < 2
Dangerous(in)    == in.co >= 2 \/ in.nh3 >= 2
PoorAir(in)      == in.co >= 1 \/ in.nh3 >= 1

\* Mutant of Classify: the rules for DANGEROUS and CABLE_BURNING change places.
ClassifyDangerousFirst(in) ==
  IF      ToxicGas(in)     THEN "TOXIC_GAS"
  ELSE IF Fire(in)         THEN "FIRE"
  ELSE IF Dangerous(in)    THEN "DANGEROUS"
  ELSE IF CableBurning(in) THEN "CABLE_BURNING"
  ELSE IF PoorAir(in)      THEN "POOR_AIR"
  ELSE                          "NORMAL"

\* The first rule that applies.
Classify(in) ==
  IF      ToxicGas(in)     THEN "TOXIC_GAS"
  ELSE IF Fire(in)         THEN "FIRE"
  ELSE IF CableBurning(in) THEN "CABLE_BURNING"
  ELSE IF Dangerous(in)    THEN "DANGEROUS"
  ELSE IF PoorAir(in)      THEN "POOR_AIR"
  ELSE                          "NORMAL"

\* All the rules that match, and whether the first of them is the worst.
Matching(in) == {"NORMAL"}
   \cup (IF ToxicGas(in)     THEN {"TOXIC_GAS"}     ELSE {})
   \cup (IF Fire(in)         THEN {"FIRE"}          ELSE {})
   \cup (IF CableBurning(in) THEN {"CABLE_BURNING"} ELSE {})
   \cup (IF Dangerous(in)    THEN {"DANGEROUS"}     ELSE {})
   \cup (IF PoorAir(in)      THEN {"POOR_AIR"}      ELSE {})

Worst(in) == \A status \in Matching(in) :
               Severity[status] <= Severity[Classify(in)]
=============================================================================
