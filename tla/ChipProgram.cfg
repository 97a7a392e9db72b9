\* A sector of SECT_SIZE and a larger one, up to two partitions that do
\* not meet in the large one; every way to verify and to read.
CONSTANTS
  NPages = 5
  SectStarts = {0, 2}
  Sect = 2
  Values = {v}
  Blank = blank
  Garbage = garbage
  HasRead = TRUE
  Lens = {0, 2, 3}
  MaxParts = 2
  Addrs = {0, 1, 2}
  Jobs <- MCJobs
SPECIFICATION Spec
INVARIANTS VerifiedIsWritten FaultlessIsDone
PROPERTIES OutsideUntouched PartitionsStay
