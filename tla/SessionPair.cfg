SPECIFICATION FairSpec
CONSTANTS
  Conns = {c1, c2}
  Kinds = {"go"}
  VendorRequests <- NoVendorRequests
  UsbErrors = FALSE
  MaxVanish = 1
  MaxSessions = 1
INVARIANTS OwnReply
PROPERTY Answered
CHECK_DEADLOCK FALSE
