\* Two partitions that may both lie in the large sector.
CONSTANTS
  NPages = 4
  SectStarts = {0, 1, 2}
  Sect = 1
  Values = {v}
  Blank = blank
  Garbage = garbage
  HasRead = TRUE
  Lens = {1}
  MaxParts = 2
  Addrs = {2, 3}
  Jobs <- MCJobs
SPECIFICATION Spec
PROPERTY PartitionsStay
CHECK_DEADLOCK FALSE
