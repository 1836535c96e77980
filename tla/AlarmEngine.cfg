\* Two rooms, every set of failing sensors, a cooldown of two ticks,
\* two ticks that let a hazard be overtaken.
SPECIFICATION FairSpec
CONSTANTS
  Rooms <- MCRooms
  Cooldown = 2
  MaxRaces = 2
INVARIANTS HazardIsTold ClassifyIsWorst
PROPERTIES AlarmEnds
