----------------------------- MODULE WatchLoop -----------------------------
(***************************************************************************)
(* One list+watch loop of backend/app/collectors/k8s_watch.py, the keyed   *)
(* table of ClusterState it fills, and the Kubernetes API it reads.        *)
(*                                                                         *)
(* The API server keeps the revisions of the watched resource: past[r] is  *)
(* the content at revision r, one object changes per revision.  The loop   *)
(* lists the content at some revision, then follows the changes after it   *)
(* until the stream ends or fails; what happened before the next list is   *)
(* never replayed to it.                                                   *)
(*                                                                         *)
(* An object is the revision that wrote it and whether _apply keeps it in  *)
(* the table (a LoadBalancer Service, a Released PV, a Secret that is not  *)
(* noise; every node, pod, ...).  The loop of "events" appends instead and *)
(* is not this module's.                                                   *)
(***************************************************************************)
EXTENDS Integers, Sequences

CONSTANTS
  Keys,         \* names of the watched objects
  None,         \* no such object, no such key
  BackoffMax,   \* 30: the longest pause after a failure, in seconds
  MaxRevision   \* bound: changes of the cluster

ASSUME WatchAssumption ==
  /\ BackoffMax \in Nat \ {0}
  /\ MaxRevision \in Nat
  /\ None \notin [rev : 0..MaxRevision, kept : BOOLEAN]

VARIABLES
  past,      \* revisions of the resource, past[1] is revision 0
  table,     \* state.services, state.pods, ...
  phase,     \* "listing", "watching" or "sleeping" (in the except branch)
  asked,     \* the revision at which the pending list was sent
  cursor,    \* the revision the loop has applied, -1 before the first list
  backoff,   \* seconds
  \* History variables, read by no guard:
  seen,      \* of each key the newest revision that was applied to it, or -1
  skipped    \* revisions a list passed over

loopVars == <<table, phase, asked, cursor, backoff, seen, skipped>>
vars == <<past, table, phase, asked, cursor, backoff, seen, skipped>>

Objects == [rev : 0..MaxRevision, kept : BOOLEAN]
Contents == [Keys -> Objects \union {None}]

Revision == Len(past) - 1
At(r) == past[r + 1]

TypeOK ==
  /\ past \in Seq(Contents) /\ past # <<>> /\ Revision <= MaxRevision
  /\ table \in Contents
  /\ phase \in {"listing", "watching", "sleeping"}
  /\ asked \in 0..Revision
  /\ cursor \in -1..Revision
  /\ backoff \in 1..BackoffMax
  /\ seen \in [Keys -> -1..Revision]
  /\ skipped \subseteq 0..Revision

Init ==
  /\ \E first \in [Keys -> [rev : {0}, kept : BOOLEAN] \union {None}] :
       past = <<first>>
  /\ table = [k \in Keys |-> None]
  /\ phase = "listing"
  /\ asked = 0
  /\ cursor = -1
  /\ backoff = 1
  /\ seen = [k \in Keys |-> -1]
  /\ skipped = {}

-----------------------------------------------------------------------------
\* The cluster: an object is created, edited or deleted.
Change ==
  /\ Revision < MaxRevision
  /\ \E k \in Keys, kept \in BOOLEAN :
       \/ past' = Append(past, [At(Revision) EXCEPT
                                  ![k] = [rev |-> Revision + 1, kept |-> kept]])
       \/ /\ At(Revision)[k] # None
          /\ past' = Append(past, [At(Revision) EXCEPT ![k] = None])
  /\ UNCHANGED loopVars

\* The object that revision r wrote or deleted.
ChangedAt(r) == {k \in Keys : At(r)[k] # At(r - 1)[k]}

\* Mutant: an object that stops matching is not upserted, and stays.
ApplyLeavesStale(tbl, k, obj) ==
  IF obj = None THEN [tbl EXCEPT ![k] = None]
  ELSE IF obj.kept THEN [tbl EXCEPT ![k] = obj] ELSE tbl

\* _apply: a deleted object, or one that must not be shown, is removed.
Apply(tbl, k, obj) ==
  [tbl EXCEPT ![k] = IF obj = None THEN None ELSE IF obj.kept THEN obj ELSE None]

\* What _apply leaves of each item of a list: nothing tells it of a key that
\* is not in the list.
Seeded(tbl, contents) ==
  [k \in Keys |-> IF contents[k] = None THEN tbl[k]
                  ELSE Apply(tbl, k, contents[k])[k]]

\* Mutant: the watch starts at the newest revision, not at the list's.
SeedWatchFromNow ==
  /\ phase = "listing"
  /\ \E r \in asked..Revision :
       /\ table' = Seeded(table, At(r))
       /\ seen' = [k \in Keys |-> r]
       /\ skipped' = skipped \union (cursor + 1)..r
  /\ cursor' = Revision
  /\ backoff' = 1
  /\ phase' = "watching"
  /\ UNCHANGED <<past, asked>>

\* Mutant: the list may be served from a cache, at any earlier revision.
SeedFromCache ==
  /\ phase = "listing"
  /\ \E r \in 0..Revision :
       /\ table' = Seeded(table, At(r))
       /\ cursor' = r
       /\ seen' = [k \in Keys |-> r]
       /\ skipped' = skipped \union (cursor + 1)..r
  /\ backoff' = 1
  /\ phase' = "watching"
  /\ UNCHANGED <<past, asked>>

\* The list is answered with the content at a revision between request and
\* answer; its items are applied without an await in between.
Seed ==
  /\ phase = "listing"
  /\ \E r \in asked..Revision :
       /\ table' = Seeded(table, At(r))
       /\ cursor' = r
       /\ seen' = [k \in Keys |-> r]
       /\ skipped' = skipped \union (cursor + 1)..r
  /\ backoff' = 1
  /\ phase' = "watching"
  /\ UNCHANGED <<past, asked>>

\* A mapper raises on an item of the list: those before it are applied, the
\* others are not, and the loop pauses with its cursor where it was.
SeedAborts ==
  /\ phase = "listing"
  /\ \E r \in asked..Revision, done \in SUBSET Keys \ {{}, Keys} :
       /\ table' = [k \in Keys |-> IF k \in done THEN Seeded(table, At(r))[k] ELSE table[k]]
       /\ seen' = [k \in Keys |-> IF k \in done THEN r ELSE seen[k]]
       /\ skipped' = skipped \union (cursor + 1)..r
  /\ phase' = "sleeping"
  /\ UNCHANGED <<past, asked, cursor, backoff>>

\* The next event of the stream.
WatchEvent ==
  /\ phase = "watching"
  /\ cursor < Revision
  /\ \E k \in ChangedAt(cursor + 1) :
       table' = Apply(table, k, At(cursor + 1)[k])
  /\ cursor' = cursor + 1
  /\ seen' = [k \in Keys |-> cursor + 1]
  /\ UNCHANGED <<past, phase, asked, backoff, skipped>>

\* After timeout_seconds the stream ends without error: list again at once.
StreamEnds ==
  /\ phase = "watching"
  /\ phase' = "listing"
  /\ asked' = Revision
  /\ UNCHANGED <<past, table, cursor, backoff, seen, skipped>>

\* 410 Gone, a network blip, an apiserver restart.
Fail ==
  /\ phase \in {"listing", "watching"}
  /\ phase' = "sleeping"
  /\ UNCHANGED <<past, table, asked, cursor, backoff, seen, skipped>>

\* Mutant: the pause is doubled without limit.
WakeUncapped ==
  /\ phase = "sleeping"
  /\ phase' = "listing"
  /\ asked' = Revision
  /\ backoff' = 2 * backoff
  /\ UNCHANGED <<past, table, cursor, seen, skipped>>

Wake ==
  /\ phase = "sleeping"
  /\ phase' = "listing"
  /\ asked' = Revision
  /\ backoff' = IF 2 * backoff < BackoffMax THEN 2 * backoff ELSE BackoffMax
  /\ UNCHANGED <<past, table, cursor, seen, skipped>>

Next == Change \/ Seed \/ SeedAborts \/ WatchEvent \/ StreamEnds \/ Fail \/ Wake

Spec == Init /\ [][Next]_vars
-----------------------------------------------------------------------------
\* The revision up to r at which key k last changed, 0 if it never did.
LastChange(k, r) ==
  CHOOSE c \in 0..r : /\ c > 0 => k \in ChangedAt(c)
                      /\ \A later \in (c + 1)..r : k \notin ChangedAt(later)

Shown(obj) == IF obj = None THEN None ELSE IF obj.kept THEN obj ELSE None

\* Between two awaits each entry of the table is what the API held at the
\* newest revision applied to it, which is the cursor for all of them while a
\* watch is open, with one exception: a deleted object may still be there, and
\* only if no watch was open when it was deleted (k8s_watch.py:356-367).  Objects
\* edited out of the shown kind are gone even then (389-396, 412-418).
Mirror ==
  /\ phase = "watching" => \A k \in Keys : seen[k] = cursor
  /\ \A k \in Keys :
       seen[k] >= 0 =>
         \/ table[k] = Shown(At(seen[k])[k])
         \/ /\ At(seen[k])[k] = None
            /\ LastChange(k, seen[k]) \in skipped

\* Nothing shown is ever replaced by an older version of itself, whatever lists,
\* streams and failures follow each other (k8s_watch.py:356-367: the list is a
\* consistent read and the watch starts at its resource_version).
NeverBackwards ==
  [][\A k \in Keys : table[k] # None /\ table'[k] # None
       => table'[k].rev >= table[k].rev]_vars

\* Every sleep ends and every stream delivers; the API server, asked again and
\* again, finally answers a list.  Failures and stream ends are not prevented.
Fairness == WF_vars(Wake) /\ WF_vars(WatchEvent) /\ SF_vars(Seed)

LiveSpec == Spec /\ Fairness

\* The bound on changes makes every cluster fall silent in the end.
Final(k) == At(Revision)[k]

\* Every object of a cluster that falls silent is shown in its final version,
\* or hidden if it must be, and stays so through further failures and lists.
Converges ==
  \A k \in Keys : <>[](Final(k) # None => table[k] = Shown(Final(k)))

\* What autochecks.py:31-34 says of a removed Service: it disappears from the
\* UI, no restart needed.  The relist applies only what is in the list, so an
\* object deleted while no watch was open stays in the table.
DeletedDisappears ==
  \A k \in Keys : <>[](Final(k) = None => table[k] = None)
=============================================================================
