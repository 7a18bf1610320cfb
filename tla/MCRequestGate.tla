---------------------------- MODULE MCRequestGate ----------------------------
(* Instance of RequestGate for TLC.  A lock per key and request is more than *)
(* can be in use at once, so that an allocation always finds a free one.     *)
EXTENDS RequestGate
=============================================================================
