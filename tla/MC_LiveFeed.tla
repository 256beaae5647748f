---------------------------- MODULE MC_LiveFeed ----------------------------
(* The interesting cases need: pods (deleted together with their metrics),  *)
(* one polled table, a queue that overflows, and a second session so that a *)
(* browser reconnects while the handler of its old socket still lingers.    *)
EXTENDS LiveFeed, TLC

Symm == Permutations(Sessions)
=============================================================================
