\* Three drivers, delays in the order of the code's, a timeout of a few sleeps.
CONSTANTS
  FirstDelay = 1
  StallDelay = 2
  MaxDelay = 4
  Timeout = 6
SPECIFICATION FairSpec
INVARIANTS
  EndIsSeen
  StopIsPrompt
PROPERTIES
  CallEnds
  KeepsPromise
