\* Packets of two words and two of them in the probe; three requests of up to
\* two words fill the window, change the form of a packet and split requests.
CONSTANTS
  PacketSize = 14
  PacketCount = 2
  MaxTransfers = 2
  MaxId = 3
  MaxWords = 2
SPECIFICATION FairSpec
INVARIANTS
  PacketFits
  WritesKept
PROPERTIES CallReturns KeepsQueue
CHECK_DEADLOCK FALSE

