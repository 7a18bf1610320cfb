--------------------------- MODULE MCServiceWork ---------------------------
(***************************************************************************)
(* ServiceWork with one worker and one place for each channel, and one     *)
(* usage worker for one account.  Three requests that no worker has taken  *)
(* yet fill a channel, spill over into the other one and find both full;   *)
(* two requests ask for the refresh of the same account.                   *)
(***************************************************************************)
EXTENDS ServiceWork
=============================================================================
