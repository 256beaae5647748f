---------------------------- MODULE MC_WatchLoop ----------------------------
(* Two objects and three changes: an object is created, hidden by an edit,  *)
(* deleted and created again, inside and outside the gaps between watches,  *)
(* while the other one changes too.  The pause goes 1, 2, 3, 3.             *)
EXTENDS WatchLoop
=============================================================================
