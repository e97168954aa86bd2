---------------------------- MODULE MCLegacyStream ----------------------------
(* Small instances of LegacyStream. *)
EXTENDS LegacyStream

(* What applications send with the type that the value has. *)
Typed == DOMAIN Sends \ {"returnBytes"}
===============================================================================
