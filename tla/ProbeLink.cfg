SPECIFICATION Spec
CONSTANTS
  Backends = {"pyusb_v2", "pyusb", "pywinusb", "hidapi"}
  Singles = {"transfer", "info", "swo_data"}
  MaxFaults = 1
  MaxPermits = 2
  Buffers = 2
INVARIANTS ThreadsStayUsable GivenUpIsClosed
PROPERTIES AnswerIsOfThisCall OperationsEnd
