--------------------------- MODULE MCExtensionTab ---------------------------
(* The instance of ExtensionTab for TLC.                                   *)
EXTENDS ExtensionTab

\* Every command, with a few events; or many events, with captures alone.
TabScenes ==
  {[events |-> 1, fails |-> 1, others |-> TRUE],
   [events |-> 6, fails |-> 2, others |-> FALSE]}
=============================================================================
