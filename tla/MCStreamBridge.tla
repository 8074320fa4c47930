--------------------------- MODULE MCStreamBridge ---------------------------
(***************************************************************************)
(* An instance of StreamBridge for TLC: the configuration gives every      *)
(* constant its value.                                                     *)
(***************************************************************************)
EXTENDS StreamBridge
=============================================================================
