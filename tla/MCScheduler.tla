----------------------------- MODULE MCScheduler -----------------------------
(***************************************************************************)
(* Instances of Scheduler for TLC.                                          *)
(***************************************************************************)
EXTENDS Scheduler, TLC

MCAddrs == {"0", "a"}

(* Contexts are interchangeable: FreshCtx picks one of the free ones, and     *)
(* whichever it picks leads to the same states up to renaming.               *)
Renamings == Permutations(Ctxs)
=============================================================================
