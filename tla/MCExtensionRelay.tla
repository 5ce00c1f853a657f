-------------------------- MODULE MCExtensionRelay -------------------------
(* The instance of ExtensionRelay for TLC.                                 *)
EXTENDS ExtensionRelay
=============================================================================
