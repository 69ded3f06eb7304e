SPECIFICATION FairSpec
CONSTANTS
  Recurring = {"r"}
  OneShots = {"o"}
  Periods = {1, 2}
  AtTime = 1
  CatchUp = 1
  MaxClock = 2
  MaxLives = 2
  MaxAsked = 2
INVARIANTS
  TypeOK
  FiresOnceUnlessCut
  NothingOwedVanishes
PROPERTIES
  WhatIsOwedRuns
CHECK_DEADLOCK FALSE
