SPECIFICATION Spec
CONSTANTS
  Packs = {"st", "gd"}
  Keil = "keil"
  Vendor <- MCVendor
  Carries <- MCCarries
  BadCerts = {"gd.com"}
  RangeHosts = {"keil"}
  FileOf <- MCFileOf
  Owned = {}
  Kinds = {"detect", "search", "svd"}
  Retries = 2
  MaxVersion <- MCMaxVersion
  MaxCalls = 2
  MaxDepth = 2
  MaxFaults = 2

INVARIANTS UsedIsComplete FailsForReason
PROPERTIES KeepsFiles CallsEnd
CHECK_DEADLOCK FALSE
