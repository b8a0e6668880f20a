SPECIFICATION Spec
CONSTANTS
  Conns = {c1}
  Kinds = {"go"}
  VendorRequests <- NoVendorRequests
  UsbErrors = FALSE
  MaxVanish = 1
  MaxSessions = 2
INVARIANT BoardLatched
CHECK_DEADLOCK FALSE
