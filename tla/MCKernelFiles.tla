---------------------------- MODULE MCKernelFiles ----------------------------
(* Two paths: one the host provides and may be overlaid, one only the guest    *)
(* writes.                                                                     *)
EXTENDS KernelFiles

CONSTANTS lib, log

MCPaths == {lib, log}
MCResolver == [p \in MCPaths |-> IF p = lib THEN "gives" ELSE "none"]
MCAsset == [p \in MCPaths |-> IF p = lib THEN "missing" ELSE "unmapped"]
MCData == {<<1>>, <<2, 1>>}
MCVfsData == <<3>>
MCOffsets == {-1, 0}

\* The answers matter to the step that gives them only.
MCView == <<kernel, snaps, panicked, taken, streams>>

\* Files, directories, the stream and the exit latch do not read each other; what
\* they have in common is the snapshot.  So files are taken with none of the rest.
Apart == ~(wfiles # [p \in Paths |-> Absent] /\ (dirs # {} \/ rng # Absent \/ exited))
=============================================================================
