---------------------------- MODULE BroadcastLog ----------------------------
(***************************************************************************)
(* What the pub/sub layer promises: one log of everything published, and   *)
(* per reader a cursor into it.  A reader joins at the end of the log and  *)
(* then reads consecutive entries in order.  It is never more than MaxLag  *)
(* entries behind: when a publication would leave it further behind, it    *)
(* skips exactly the one oldest entry it has not read.  No other loss,     *)
(* reordering or duplication is allowed, and the publisher never waits.    *)
(***************************************************************************)
EXTENDS Naturals, Sequences

CONSTANTS Readers, MaxLag, Payload

VARIABLES log,      \* everything published so far
          joined,   \* the current readers
          next,     \* index in the log of the entry each reader reads next
          last      \* the latest read: <<reader, entry>>, <<>> before the first

vars == <<log, joined, next, last>>

Lag(r) == Len(log) + 1 - next[r]

Init ==
  /\ log = <<>>
  /\ joined = {}
  /\ next = [r \in Readers |-> 1]
  /\ last = <<>>

Join(r) ==
  /\ r \notin joined
  /\ joined' = joined \union {r}
  /\ next' = [next EXCEPT ![r] = Len(log) + 1]
  /\ UNCHANGED <<log, last>>

Leave(r) ==
  /\ joined' = joined \ {r}
  /\ next' = [next EXCEPT ![r] = Len(log) + 1]
  /\ UNCHANGED <<log, last>>

\* The cursor of an absent reader stays at the end of the log.
Record(p) ==
  /\ log' = Append(log, p)
  /\ next' = [r \in Readers |->
                IF r \in joined /\ Lag(r) < MaxLag THEN next[r] ELSE next[r] + 1]
  /\ UNCHANGED <<joined, last>>

Read(r) ==
  /\ r \in joined
  /\ Lag(r) > 0
  /\ next' = [next EXCEPT ![r] = @ + 1]
  /\ last' = <<r, log[next[r]]>>
  /\ UNCHANGED <<log, joined>>

Next ==
  \/ \E p \in Payload : Record(p)
  \/ \E r \in Readers : Join(r) \/ Leave(r) \/ Read(r)

Spec == Init /\ [][Next]_vars
=============================================================================
