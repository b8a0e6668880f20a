--------------------------- MODULE MCDeviceSession ----------------------------
(* Instances of DeviceSession for TLC. *)
EXTENDS DeviceSession

(* The write opcode outside the EEPROM's index, a read set-up, and a read in the
   wrong direction. *)
MCVendorRequests ==
  {Ctl("write", "other", 1, "in"), Ctl("setup", "eeprom", 1, "out"),
   Ctl("read", "eeprom", 0, "out")}
NoVendorRequests == {}
==============================================================================
