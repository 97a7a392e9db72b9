\* Pages of eight bytes; ranges that start and end at every alignment and cross pages.
CONSTANTS
  PageSize = 8
  MaxQueue = 5
  MaxTrouble = 3
  Ranges <- MCRanges
SPECIFICATION Spec
INVARIANTS CachesTrue AccessAsMeant ReadIsMemory FlushedIsWritten
