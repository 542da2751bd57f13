----------------------------- MODULE MCBuildServer -----------------------------
(* Three builds, one of which overrides the version, in a registry of one.     *)
EXTENDS BuildServer

CONSTANTS b1, b2, b3, v

AskedByFirst == [b \in Build |-> IF b = b1 THEN v ELSE NoVersion]
================================================================================
