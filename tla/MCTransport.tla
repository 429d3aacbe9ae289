----------------------------- MODULE MCTransport -----------------------------
(* Two devices, the first with an rclone remote, the second with a local   *)
(* folder as its remote: the same directory.                               *)
EXTENDS Transport

CONSTANTS d1, d2
=============================================================================
