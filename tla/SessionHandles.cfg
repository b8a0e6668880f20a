SPECIFICATION Spec
CONSTANTS
  Conns = {c1, c2}
  Kinds = {"go"}
  VendorRequests <- NoVendorRequests
  UsbErrors = FALSE
  MaxVanish = 1
  MaxSessions = 1
INVARIANT NoBareHandle
CHECK_DEADLOCK FALSE
