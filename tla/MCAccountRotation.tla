------------------------- MODULE MCAccountRotation -------------------------
(***************************************************************************)
(* AccountRotation with three accounts, polled two at a time, so that a    *)
(* batch wraps around the list.  The third account has run out of quota,   *)
(* gets it back and may lose it; it is disabled and enabled, refused and   *)
(* banned, and whenever it leaves the list of the polled or comes back to  *)
(* it the cursor stays where it was.  One key more than the map of the     *)
(* starts has room for.                                                    *)
(***************************************************************************)
EXTENDS AccountRotation
=============================================================================
