----------------------------- MODULE MCUsbDevice -----------------------------
(* The control endpoint, one more, and a number that does not exist.         *)
EXTENDS UsbDevice

CallerNumbers == 0 .. MaxEndpoints
=============================================================================
