-------------------------- MODULE MCUnicornEngine ----------------------------
(***************************************************************************)
(* An instance of UnicornEngine for TLC.                                    *)
(***************************************************************************)
EXTENDS UnicornEngine
=============================================================================
