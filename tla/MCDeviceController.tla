------------------------- MODULE MCDeviceController -------------------------
(***************************************************************************)
(* Instances of DeviceController for TLC; the constants are in the .cfg    *)
(* files.  For the races the masks are none and one button held, with one  *)
(* maskable axis; for the shadow and for liveness one button and both axes *)
(* are maskable, no button is ever held and one worker interpolates.       *)
(***************************************************************************)
EXTENDS DeviceController
=============================================================================
