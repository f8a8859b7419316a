-------------------------------- MODULE Clock --------------------------------
(***************************************************************************)
(* What the parts of a node that serve others have in common: who asks,    *)
(* and the clock they read, nowMs() (dhtcore/include/dhtcore/Support.h).   *)
(***************************************************************************)

CONSTANTS
    Addresses,  \* remote IP addresses
    MaxTime     \* bound: the last clock value explored

VARIABLE now    \* nowMs()
=============================================================================
