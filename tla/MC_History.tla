----------------------------- MODULE MC_History -----------------------------
(* One node, five samples, a queue and a chart of two: the queue overflows,  *)
(* the ring wraps, rows are pruned, and the process restarts in between.     *)
EXTENDS History
=============================================================================
