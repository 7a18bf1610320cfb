-------------------------- MODULE MCForwardedRequest --------------------------
(* Instance of ForwardedRequest for TLC: one request with two candidates, so  *)
(* that every attempt but the last has one after it.                          *)
EXTENDS ForwardedRequest
CONSTANTS a1, a2
MCOrders == {<<a1, a2>>}
=============================================================================
