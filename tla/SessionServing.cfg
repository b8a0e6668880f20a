SPECIFICATION Spec
CONSTANTS
  Conns = {c1}
  Kinds = {"lamp", "leds", "go", "rate"}
  VendorRequests <- MCVendorRequests
  UsbErrors = TRUE
  MaxVanish = 2
  MaxSessions = 2
INVARIANTS TypeOK CeilingWhileKnown EepromUntouched NoBareHandle Recovers HaltedAtExit
CHECK_DEADLOCK FALSE
