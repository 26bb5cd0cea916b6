------------------------------ MODULE MCStartup ------------------------------
(* Instances of StartupSafety for TLC.                                      *)
EXTENDS StartupSafety

CONSTANTS gold, silver

=============================================================================
