SPECIFICATION Spec
CONSTANTS
  Drivers = {"stlink", "openocd", "jlink"}
  Firmwares = {"v2_old", "v2", "v3"}
  Modes = {"arm", "rv"}
  Requests <- MCRequests
  Max32 = 8
  Max8 = 2
  MaxItems = 2
  MaxFaults = 2
PROPERTIES ResetsDoAsNamed WriteIsExact RunStateKept OperationsEnd
