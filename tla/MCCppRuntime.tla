---------------------------- MODULE MCCppRuntime ----------------------------
(* Small instances of CppRuntime for TLC.                                  *)
EXTENDS CppRuntime, TLC
=============================================================================
