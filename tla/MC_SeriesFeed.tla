--------------------------- MODULE MC_SeriesFeed ---------------------------
(* One browser with a queue of two and rings of two: five mutations make    *)
(* the queue overflow and each ring wrap around, before and after a         *)
(* snapshot.  temp_c and mem_pct are charted, mem_pct is measured twice.    *)
EXTENDS SeriesFeed
=============================================================================
