-------------------------- MODULE WatchLoopProofs --------------------------
(* Safety of a list+watch loop for any set of objects, any number of        *)
(* changes of the cluster and any bound on the pause.                       *)
EXTENDS WatchLoop, TLAPS

-----------------------------------------------------------------------------
(* Types, and what is known of the past                                    *)

\* Versions carry revisions that have been, newer content newer versions, and
\* one revision changes one object.
Chronicle ==
  \A k \in Keys :
    /\ \A r \in 0..Revision : At(r)[k] # None => At(r)[k].rev \in 0..r
    /\ \A q, r \in 0..Revision :
         q <= r /\ At(q)[k] # None /\ At(r)[k] # None => At(q)[k].rev <= At(r)[k].rev
    /\ \A r \in 1..Revision, j \in Keys :
         j \in ChangedAt(r) /\ k \in ChangedAt(r) => j = k

\* Every key of every revision has a last change.
IsLastChange(c, k, r) ==
  /\ c > 0 => k \in ChangedAt(c)
  /\ \A later \in (c + 1)..r : k \notin ChangedAt(later)

Dated == \A k \in Keys, r \in 0..Revision : \E c \in 0..r : IsLastChange(c, k, r)

\* Between two revisions without a change of a key it is the same.
Steady ==
  \A k \in Keys, r \in 0..Revision : \A q \in 0..r :
    (\A c \in (q + 1)..r : k \notin ChangedAt(c)) => At(q)[k] = At(r)[k]

\* A list is sent after all that was applied; a watch goes on from there.
Position ==
  /\ \A k \in Keys : cursor <= seen[k] /\ (phase = "listing" => seen[k] <= asked)
  /\ phase = "listing" => cursor <= asked
  /\ phase = "watching" => cursor >= 0

TInv == TypeOK /\ Chronicle /\ Dated /\ Steady /\ Position

\* The cluster's steps append a revision, and leave the others alone.
LEMMA PastGrows ==
  ASSUME TInv, Change
  PROVE  /\ past' \in Seq(Contents) /\ past' # <<>>
         /\ UNCHANGED loopVars
         /\ \E new \in 1..MaxRevision, k \in Keys :
              /\ new = Revision + 1 /\ Revision' = new
              /\ \A r \in 0..(new - 1) : At(r)' = At(r)
              /\ \A j \in Keys : j # k => At(new)'[j] = At(new - 1)[j]
              /\ At(new)'[k] = None \/ At(new)'[k].rev = new
<1> USE WatchAssumption DEF TInv, TypeOK, Revision, At
<1>1. PICK new \in 1..MaxRevision : new = Revision + 1
  BY DEF Change
<1>2. past[new] \in Contents
  BY <1>1
<1>c. PICK k \in Keys, kept \in BOOLEAN : \E content :
         /\ past' = Append(past, content)
         /\ \/ content = [past[new] EXCEPT ![k] = [rev |-> new, kept |-> kept]]
            \/ content = [past[new] EXCEPT ![k] = None]
  BY <1>1 DEF Change
<1>3. PICK content :
         /\ past' = Append(past, content)
         /\ \/ content = [past[new] EXCEPT ![k] = [rev |-> new, kept |-> kept]]
            \/ content = [past[new] EXCEPT ![k] = None]
  BY <1>c
<1>4. content \in Contents /\ (content[k] = None \/ content[k].rev = new)
  <2>1. [rev |-> new, kept |-> kept] \in Objects
    BY <1>1 DEF Objects
  <2>2. CASE content = [past[new] EXCEPT ![k] = [rev |-> new, kept |-> kept]]
    <3>1. content \in Contents
      BY <1>2, <2>1, <2>2 DEF Contents
    <3>2. content[k] = [rev |-> new, kept |-> kept]
      BY <1>2, <2>2 DEF Contents
    <3> QED BY <3>1, <3>2
  <2>3. CASE content = [past[new] EXCEPT ![k] = None]
    BY <1>2, <2>3 DEF Contents
  <2> QED BY <1>3, <2>2, <2>3
<1>5. past' \in Seq(Contents) /\ Len(past') = Len(past) + 1
  BY <1>3, <1>4
<1>6. \A i \in 1..Len(past) : past'[i] = past[i]
  BY <1>3, <1>4
<1>7. past'[new + 1] = content
  BY <1>1, <1>3, <1>4
<1>8. \A j \in Keys : j # k => content[j] = past[new][j]
  BY <1>2, <1>3 DEF Contents
<1>9. \A r \in 0..(new - 1) : At(r)' = At(r)
  BY <1>1, <1>6
<1>10. Revision' = new /\ past' # <<>> /\ UNCHANGED loopVars
  BY <1>1, <1>5 DEF Change
<1>11. /\ \A j \in Keys : j # k => At(new)'[j] = At(new - 1)[j]
       /\ At(new)'[k] = None \/ At(new)'[k].rev = new
  BY <1>1, <1>4, <1>7, <1>8
<1>12. past' \in Seq(Contents) /\ past' # <<>> /\ UNCHANGED loopVars
  BY <1>5, <1>10
<1> HIDE DEF TInv, TypeOK, Revision, At
<1> QED BY <1>1, <1>9, <1>10, <1>11, <1>12

LEMMA ChronicleGrows == ASSUME TInv, Change PROVE Chronicle' /\ Dated' /\ Steady'
<1>1. PICK new \in 1..MaxRevision, k \in Keys :
         /\ new = Revision + 1 /\ Revision' = new
         /\ \A r \in 0..(new - 1) : At(r)' = At(r)
         /\ \A j \in Keys : j # k => At(new)'[j] = At(new - 1)[j]
         /\ At(new)'[k] = None \/ At(new)'[k].rev = new
  BY PastGrows
<1>2. Revision = new - 1 /\ Revision \in Nat
  BY <1>1, WatchAssumption DEF TInv, TypeOK, Revision
<1>6. \A r \in 1..Revision : ChangedAt(r)' = ChangedAt(r)
  BY <1>1, <1>2 DEF ChangedAt
<1>7. ChangedAt(new)' \subseteq {k}
  BY <1>1 DEF ChangedAt
<1> USE <1>1, <1>2
<1>9. Chronicle'
  <2> SUFFICES ASSUME NEW j \in Keys
               PROVE  /\ \A r \in 0..new : At(r)'[j] # None => At(r)'[j].rev \in 0..r
                      /\ \A q, r \in 0..new :
                           q <= r /\ At(q)'[j] # None /\ At(r)'[j] # None
                             => At(q)'[j].rev <= At(r)'[j].rev
                      /\ \A r \in 1..new, i \in Keys :
                           i \in ChangedAt(r)' /\ j \in ChangedAt(r)' => i = j
    BY DEF Chronicle
  <2>1. \A r \in 0..Revision : At(r)[j] # None => At(r)[j].rev \in 0..r
    BY DEF TInv, Chronicle
  <2>2. At(new)'[j] # None => At(new)'[j].rev \in 0..new
    BY <2>1
  <2>3. \A r \in 0..new : At(r)'[j] # None => At(r)'[j].rev \in 0..r
    BY <2>1, <2>2
  <2>4. ASSUME NEW q \in 0..new, NEW r \in 0..new,
               q <= r, At(q)'[j] # None, At(r)'[j] # None
        PROVE  At(q)'[j].rev <= At(r)'[j].rev
    <3>1. CASE r # new
      <4>1. q \in 0..Revision /\ r \in 0..Revision
        BY <2>4, <3>1
      <4> QED BY <2>4, <4>1 DEF TInv, Chronicle
    <3>2. CASE q = new
      <4>1. q = r
        BY <2>4, <3>2
      <4> QED BY <2>3, <2>4, <4>1
    <3>3. CASE r = new /\ q # new
      <4>1. q \in 0..Revision /\ At(q)' = At(q) /\ At(q)[j].rev \in 0..q
        BY <2>1, <2>4, <3>3
      <4>2. CASE j = k
        BY <2>4, <3>3, <4>1, <4>2
      <4>3. CASE j # k
        <5>1. At(r)'[j] = At(Revision)[j]
          BY <3>3, <4>3
        <5>2. At(q)[j].rev <= At(Revision)[j].rev
          BY <2>4, <4>1, <5>1 DEF TInv, Chronicle
        <5> QED BY <4>1, <5>1, <5>2
      <4> QED BY <4>2, <4>3
    <3> QED BY <3>1, <3>2, <3>3
  <2>5. \A r \in 1..new, i \in Keys :
           i \in ChangedAt(r)' /\ j \in ChangedAt(r)' => i = j
    <3> SUFFICES ASSUME NEW r \in 1..new, NEW i \in Keys,
                        i \in ChangedAt(r)', j \in ChangedAt(r)'
                 PROVE  i = j
      OBVIOUS
    <3>1. CASE r = new
      BY <1>7, <3>1
    <3>2. CASE r # new
      BY <1>6, <3>2 DEF TInv, Chronicle
    <3> QED BY <3>1, <3>2
  <2> QED BY <2>3, <2>4, <2>5
<1>10. Dated'
  <2> SUFFICES ASSUME NEW j \in Keys, NEW r \in 0..new
               PROVE  \E c \in 0..r : IsLastChange(c, j, r)'
    BY DEF Dated
  <2>1. CASE r # new
    <3>1. r \in 0..Revision
      BY <2>1
    <3>2. PICK c \in 0..r : IsLastChange(c, j, r)
      BY <3>1 DEF TInv, Dated
    <3>3. IsLastChange(c, j, r)'
      BY <1>6, <3>1, <3>2 DEF IsLastChange
    <3> QED BY <3>3
  <2>2. CASE r = new /\ j \in ChangedAt(new)'
    <3>1. IsLastChange(new, j, r)'
      BY <2>2 DEF IsLastChange
    <3> QED BY <2>2, <3>1
  <2>3. CASE r = new /\ j \notin ChangedAt(new)'
    <3>1. PICK c \in 0..Revision : IsLastChange(c, j, Revision)
      BY DEF TInv, Dated
    <3>2. c > 0 => j \in ChangedAt(c)'
      BY <1>6, <3>1 DEF IsLastChange
    <3>3. \A later \in (c + 1)..r : j \notin ChangedAt(later)'
      <4> SUFFICES ASSUME NEW later \in (c + 1)..r PROVE j \notin ChangedAt(later)'
        OBVIOUS
      <4>1. CASE later = new
        BY <2>3, <4>1
      <4>2. CASE later # new
        BY <1>6, <2>3, <3>1, <4>2 DEF IsLastChange
      <4> QED BY <4>1, <4>2
    <3>4. IsLastChange(c, j, r)'
      BY <3>2, <3>3 DEF IsLastChange
    <3> QED BY <2>3, <3>1, <3>4
  <2> QED BY <2>1, <2>2, <2>3
<1>11. Steady'
  <2> SUFFICES ASSUME NEW j \in Keys, NEW r \in 0..new, NEW q \in 0..r,
                      \A c \in (q + 1)..r : j \notin ChangedAt(c)'
               PROVE  At(q)'[j] = At(r)'[j]
    BY DEF Steady
  <2>1. CASE r # new
    BY <1>6, <2>1 DEF TInv, Steady
  <2>2. CASE r = new /\ q # new
    <3>1. At(new)'[j] = At(new - 1)[j]
      <4>1. j \notin ChangedAt(new)'
        BY <2>2
      <4> QED BY <4>1 DEF ChangedAt
    <3>2. \A c \in (q + 1)..(new - 1) : j \notin ChangedAt(c)
      BY <1>6, <2>2
    <3>3. At(q)[j] = At(new - 1)[j]
      BY <2>2, <3>2 DEF TInv, Steady
    <3> QED BY <2>2, <3>1, <3>3
  <2> QED BY <2>1, <2>2
<1> QED BY <1>9, <1>10, <1>11

\* What each step of the loop does to the position of the keys it touches.
LEMMA LoopSteps ==
  ASSUME TInv, Seed \/ SeedAborts \/ WatchEvent \/ StreamEnds \/ Fail \/ Wake
  PROVE  past' = past /\ TypeOK' /\ Position'
<1> USE WatchAssumption DEF TInv, TypeOK, Position
<1>1. Revision' = Revision /\ Revision \in 0..MaxRevision /\ past' = past
  BY DEF Revision, Seed, SeedAborts, WatchEvent, StreamEnds, Fail, Wake
<1> USE <1>1
<1>2. ASSUME NEW r \in 0..Revision PROVE At(r) \in Contents
  BY DEF At, Revision
<1>3. ASSUME NEW r \in 0..Revision PROVE Seeded(table, At(r)) \in Contents
  BY <1>2 DEF Seeded, Apply, Contents
<1>4. CASE Seed
  BY <1>3, <1>4 DEF Seed
<1>5. CASE SeedAborts
  <2>1. PICK r \in asked..Revision, done \in SUBSET Keys \ {{}, Keys} :
          /\ table' = [k \in Keys |-> IF k \in done THEN Seeded(table, At(r))[k] ELSE table[k]]
          /\ seen' = [k \in Keys |-> IF k \in done THEN r ELSE seen[k]]
          /\ skipped' = skipped \union (cursor + 1)..r
    BY <1>5 DEF SeedAborts
  <2>2. r \in 0..Revision /\ Seeded(table, At(r)) \in Contents
    BY <1>3, <2>1
  <2>3. table' \in Contents
    BY <2>1, <2>2 DEF Contents
  <2>4. seen' \in [Keys -> -1..Revision] /\ skipped' \subseteq 0..Revision
    BY <2>1, <2>2
  <2>5. \A k \in Keys : cursor <= seen'[k]
    BY <1>5, <2>1, <2>2 DEF SeedAborts
  <2> QED BY <1>5, <2>3, <2>4, <2>5 DEF SeedAborts
<1>6. CASE WatchEvent
  <2>1. PICK k \in ChangedAt(cursor + 1) : table' = Apply(table, k, At(cursor + 1)[k])
    BY <1>6 DEF WatchEvent
  <2>2. At(cursor + 1) \in Contents /\ k \in Keys
    BY <1>2, <1>6, <2>1 DEF WatchEvent, ChangedAt
  <2>3. table' \in Contents
    BY <2>1, <2>2 DEF Apply, Contents
  <2> QED BY <1>6, <2>3 DEF WatchEvent
<1>7. CASE StreamEnds \/ Fail \/ Wake
  <2>1. /\ table' = table /\ seen' = seen /\ skipped' = skipped /\ cursor' = cursor
        /\ asked' \in {asked, Revision} /\ phase' \in {"listing", "sleeping"}
    BY <1>7 DEF StreamEnds, Fail, Wake
  <2>2. backoff' \in 1..BackoffMax
    BY <1>7 DEF StreamEnds, Fail, Wake
  <2>3. Position'
    BY <1>7 DEF StreamEnds, Fail, Wake
  <2> QED BY <2>1, <2>2, <2>3
<1> QED BY <1>4, <1>5, <1>6, <1>7

LEMMA TInvInductive == TInv /\ [Next]_vars => TInv'
<1> SUFFICES ASSUME TInv, [Next]_vars PROVE TInv'
  OBVIOUS
<1>1. CASE Change
  <2>1. /\ past' \in Seq(Contents) /\ past' # <<>>
        /\ UNCHANGED loopVars
        /\ Revision' = Revision + 1 /\ Revision' <= MaxRevision
    BY <1>1, PastGrows, WatchAssumption
  <2>2. Revision \in Nat
    BY DEF TInv, TypeOK, Revision
  <2>3. TypeOK'
    BY <2>1, <2>2 DEF TInv, TypeOK, loopVars
  <2>4. Position'
    BY <2>1 DEF TInv, Position, loopVars
  <2> QED BY <1>1, <2>3, <2>4, ChronicleGrows DEF TInv
<1>2. CASE UNCHANGED vars
  BY <1>2 DEF vars, TInv, TypeOK, Chronicle, Dated, Steady, Position, IsLastChange, ChangedAt, At, Revision
<1>3. CASE Seed \/ SeedAborts \/ WatchEvent \/ StreamEnds \/ Fail \/ Wake
  <2>1. Chronicle' /\ Dated' /\ Steady'
    BY <1>3, LoopSteps DEF TInv, Chronicle, Dated, Steady, IsLastChange, ChangedAt, At, Revision
  <2> QED BY <1>3, <2>1, LoopSteps DEF TInv
<1> QED BY <1>1, <1>2, <1>3 DEF Next

LEMMA TInvInit == Init => TInv
<1> SUFFICES ASSUME Init PROVE TInv
  OBVIOUS
<1> USE WatchAssumption
<1>1. PICK first \in [Keys -> [rev : {0}, kept : BOOLEAN] \union {None}] : past = <<first>>
  BY DEF Init
<1>2. first \in Contents
  <2>1. [rev : {0}, kept : BOOLEAN] \subseteq Objects
    BY DEF Objects
  <2> QED BY <1>1, <2>1 DEF Contents
<1>3. past \in Seq(Contents) /\ Len(past) = 1 /\ past[1] = first
  BY <1>1, <1>2
<1>4. Revision = 0 /\ At(0) = first
  BY <1>3 DEF Revision, At
<1>5. TypeOK
  BY <1>2, <1>3, <1>4 DEF Init, TypeOK, Contents
<1>6. Chronicle
  BY <1>1, <1>4 DEF Chronicle
<1>7. Dated
  BY <1>4 DEF Dated, IsLastChange
<1>8. Steady
  BY <1>4 DEF Steady
<1>9. Position
  BY DEF Init, Position
<1> QED BY <1>5, <1>6, <1>7, <1>8, <1>9 DEF TInv

\* The table, the position of the loop and the pause are well typed, whatever
\* the order of lists, events, failures and pauses.
THEOREM LoopTypeCorrect == Spec => []TypeOK
<1>1. TInv => TypeOK
  BY DEF TInv
<1> QED BY <1>1, TInvInit, TInvInductive, PTL DEF Spec

-----------------------------------------------------------------------------
(* The table                                                               *)

LEMMA LastChangeExists ==
  ASSUME TInv, NEW k \in Keys, NEW r \in 0..Revision
  PROVE  LastChange(k, r) \in 0..r /\ IsLastChange(LastChange(k, r), k, r)
BY DEF TInv, Dated, IsLastChange, LastChange

LEMMA LastChangeUnique ==
  ASSUME TInv, NEW k \in Keys, NEW r \in 0..Revision,
         NEW c \in 0..r, IsLastChange(c, k, r)
  PROVE  c = LastChange(k, r)
<1> DEFINE d == LastChange(k, r)
<1>1. d \in 0..r /\ IsLastChange(d, k, r)
  BY LastChangeExists
<1> HIDE DEF d
<1>2. Revision \in Nat
  BY WatchAssumption DEF TInv, TypeOK, Revision
<1>3. ~(c < d) /\ ~(d < c)
  BY <1>1, <1>2 DEF IsLastChange
<1>4. c = d
  BY <1>1, <1>2, <1>3
<1> QED BY <1>4 DEF d

\* What is shown has been, no later than the key was last looked at.
FromPast ==
  \A k \in Keys : table[k] # None => \E q \in 0..seen[k] : At(q)[k] = table[k]

MirrorInv == TInv /\ FromPast /\ Mirror

\* A list at revision r settles a key: a deleted object that it does not mention
\* stays only if it was deleted in a gap.
LEMMA SeedSettles ==
  ASSUME MirrorInv, phase = "listing", NEW r \in asked..Revision, NEW k \in Keys
  PROVE  LET entry == Seeded(table, At(r))[k]
         IN /\ \/ entry = Shown(At(r)[k])
               \/ /\ At(r)[k] = None
                  /\ LastChange(k, r) \in skipped \union (cursor + 1)..r
            /\ entry # None => \E q \in 0..r : At(q)[k] = entry
<1> USE DEF MirrorInv
<1>1. Revision \in Nat /\ r \in 0..Revision /\ seen[k] \in -1..r /\ cursor \in -1..seen[k]
  BY WatchAssumption DEF TInv, TypeOK, Position, Revision
<1>2. CASE At(r)[k] # None
  <2>1. Seeded(table, At(r))[k] = Shown(At(r)[k])
    <3>1. At(r) \in Contents /\ table \in Contents
      BY <1>1 DEF TInv, TypeOK, At, Revision
    <3> QED BY <1>2, <3>1 DEF Seeded, Apply, Shown, Contents
  <2> QED BY <1>1, <1>2, <2>1 DEF Shown
<1>3. CASE At(r)[k] = None
  <2>1. Seeded(table, At(r))[k] = table[k]
    BY <1>3 DEF Seeded
  <2>2. table[k] # None => \E q \in 0..r : At(q)[k] = table[k]
    BY <1>1 DEF FromPast
  <2>3. CASE table[k] = None
    BY <1>3, <2>1, <2>3 DEF Shown
  <2>4. CASE table[k] # None
    <3> DEFINE c == LastChange(k, r)
    <3>1. c \in 0..r /\ IsLastChange(c, k, r)
      BY <1>1, LastChangeExists
    <3> HIDE DEF c
    <3>2. seen[k] >= 0
      BY <1>1, <2>4 DEF FromPast
    <3>3. CASE c <= seen[k]
      <4>1. At(seen[k])[k] = At(r)[k]
        BY <1>1, <3>1, <3>2, <3>3 DEF TInv, Steady, IsLastChange
      <4>2. LastChange(k, seen[k]) \in skipped
        BY <1>3, <2>4, <3>2, <4>1 DEF Mirror, Shown
      <4>3. c = LastChange(k, seen[k])
        <5>1. IsLastChange(c, k, seen[k])
          BY <1>1, <3>1, <3>2, <3>3 DEF IsLastChange
        <5> QED BY <1>1, <3>1, <3>2, <3>3, <5>1, LastChangeUnique
      <4> QED BY <1>3, <2>1, <2>2, <4>2, <4>3 DEF c
    <3>4. CASE c > seen[k]
      <4>1. c \in (cursor + 1)..r
        BY <1>1, <3>1, <3>4
      <4> QED BY <1>3, <2>1, <2>2, <4>1 DEF c
    <3> QED BY <1>1, <3>1, <3>3, <3>4
  <2> QED BY <2>3, <2>4
<1> QED BY <1>2, <1>3

LEMMA MirrorChange == ASSUME MirrorInv, Change PROVE FromPast' /\ Mirror'
<1> USE DEF MirrorInv
<1>1. /\ UNCHANGED loopVars /\ Revision \in Nat /\ Revision' = Revision + 1
      /\ \A r \in 0..Revision : At(r)' = At(r)
  <2>1. Revision \in Nat
    BY DEF TInv, TypeOK, Revision
  <2> QED BY <2>1, PastGrows
<1>2. \A k \in Keys : seen[k] \in -1..Revision
  BY DEF TInv, TypeOK
<1>3. FromPast'
  BY <1>1, <1>2 DEF FromPast, loopVars
<1>4. ASSUME NEW k \in Keys, NEW r \in 0..Revision
      PROVE  LastChange(k, r)' = LastChange(k, r)
  <2>1. \A c \in 1..Revision : ChangedAt(c)' = ChangedAt(c)
    BY <1>1 DEF ChangedAt
  <2>2. PICK d \in 0..r : d = LastChange(k, r)' /\ IsLastChange(d, k, r)'
    <3>1. Dated' /\ r \in 0..Revision'
      BY <1>1, ChronicleGrows
    <3>2. PICK d : d = LastChange(k, r)'
      OBVIOUS
    <3>3. d \in 0..r /\ IsLastChange(d, k, r)'
      BY <3>1, <3>2 DEF Dated, IsLastChange, LastChange
    <3> QED BY <3>2, <3>3
  <2>3. IsLastChange(d, k, r)
    BY <1>1, <2>1, <2>2 DEF IsLastChange
  <2>4. d = LastChange(k, r)
    BY <2>3, LastChangeUnique
  <2> QED BY <2>2, <2>4
<1>5. Mirror'
  <2> SUFFICES ASSUME NEW k \in Keys, seen[k] >= 0
               PROVE  \/ table[k] = Shown(At(seen[k])[k])'
                      \/ At(seen[k])'[k] = None /\ LastChange(k, seen[k])' \in skipped
    BY <1>1 DEF Mirror, loopVars
  <2>1. PICK r \in 0..Revision : r = seen[k]
    BY <1>2
  <2>2. \/ table[k] = Shown(At(r)[k])
        \/ At(r)[k] = None /\ LastChange(k, r) \in skipped
    BY <2>1 DEF Mirror
  <2>3. At(seen[k])' = At(r)
    <3>1. At(seen[k])' = At(r)'
      BY <1>1, <2>1 DEF loopVars, At
    <3> QED BY <1>1, <3>1
  <2>4. LastChange(k, seen[k])' = LastChange(k, r)
    <3>1. LastChange(k, seen[k])' = LastChange(k, r)'
      BY <1>1, <2>1 DEF loopVars, LastChange
    <3> QED BY <1>4, <3>1
  <2> QED BY <2>2, <2>3, <2>4 DEF Shown
<1> QED BY <1>3, <1>5

\* While the past stands still.
LEMMA Standstill ==
  ASSUME past' = past
  PROVE  /\ \A r : At(r)' = At(r)
         /\ \A k, r : LastChange(k, r)' = LastChange(k, r)
         /\ Revision' = Revision
BY DEF At, LastChange, ChangedAt, Revision

LEMMA MirrorLoop ==
  ASSUME MirrorInv, Seed \/ SeedAborts \/ WatchEvent \/ StreamEnds \/ Fail \/ Wake
  PROVE  FromPast' /\ Mirror'
<1> USE DEF MirrorInv
<1>1. past' = past /\ Revision \in Nat /\ cursor \in -1..Revision /\ asked \in 0..Revision
  BY LoopSteps DEF TInv, TypeOK, Revision
<1>2. \A k \in Keys : seen[k] \in -1..Revision
  BY DEF TInv, TypeOK
\* It is enough to look at each key, at the revision it is settled at.
<1>3. SUFFICES ASSUME NEW k \in Keys
               PROVE  /\ phase' = "watching" => seen'[k] = cursor'
                      /\ \A q : q = seen'[k] =>
                           /\ q >= 0 =>
                                \/ table'[k] = Shown(At(q)[k])
                                \/ At(q)[k] = None /\ LastChange(k, q) \in skipped'
                           /\ table'[k] # None => \E p \in 0..q : At(p)[k] = table'[k]
  BY <1>1, Standstill DEF Mirror, FromPast, Shown
<1>4. CASE Seed
  <2>1. PICK r \in asked..Revision :
          /\ table' = Seeded(table, At(r)) /\ cursor' = r
          /\ seen' = [j \in Keys |-> r] /\ skipped' = skipped \union (cursor + 1)..r
    BY <1>4 DEF Seed
  <2>2. phase = "listing"
    BY <1>4 DEF Seed
  <2> QED BY <2>1, <2>2, SeedSettles
<1>5. CASE SeedAborts
  <2>1. PICK r \in asked..Revision, done \in SUBSET Keys \ {{}, Keys} :
          /\ table' = [j \in Keys |-> IF j \in done THEN Seeded(table, At(r))[j] ELSE table[j]]
          /\ seen' = [j \in Keys |-> IF j \in done THEN r ELSE seen[j]]
          /\ skipped' = skipped \union (cursor + 1)..r
    BY <1>5 DEF SeedAborts
  <2>2. phase = "listing" /\ phase' = "sleeping"
    BY <1>5 DEF SeedAborts
  <2>3. CASE k \in done
    BY <2>1, <2>2, <2>3, SeedSettles
  <2>4. CASE k \notin done
    BY <1>2, <2>1, <2>2, <2>4 DEF Mirror, FromPast
  <2> QED BY <2>3, <2>4
<1>6. CASE WatchEvent
  <2>1. PICK next \in 1..Revision : next = cursor + 1
    BY <1>1, <1>6 DEF WatchEvent, TInv, Position
  <2>2. PICK j \in ChangedAt(next) : table' = Apply(table, j, At(next)[j])
    BY <1>6, <2>1 DEF WatchEvent
  <2>3. seen'[k] = next /\ cursor' = next /\ skipped' = skipped
    BY <1>6, <2>1 DEF WatchEvent
  <2>4. seen[k] = next - 1 /\ table \in Contents
    BY <1>6, <2>1 DEF WatchEvent, Mirror, TInv, TypeOK
  <2>5. CASE k = j
    <3>1. table'[k] = Shown(At(next)[k])
      BY <2>2, <2>4, <2>5 DEF Apply, Shown, Contents
    <3> QED BY <2>1, <2>3, <3>1 DEF Shown
  <2>6. CASE k # j
    <3>1. table'[k] = table[k]
      BY <2>2, <2>4, <2>6 DEF Apply, Contents
    <3>2. k \notin ChangedAt(next)
      BY <2>2, <2>6 DEF TInv, Chronicle, ChangedAt
    <3>3. At(next)[k] = At(next - 1)[k]
      BY <3>2 DEF ChangedAt
    <3>4. LastChange(k, next) = LastChange(k, next - 1)
      <4> DEFINE c == LastChange(k, next - 1)
      <4>1. c \in 0..(next - 1) /\ IsLastChange(c, k, next - 1)
        BY <1>1, <2>1, LastChangeExists
      <4> HIDE DEF c
      <4>2. IsLastChange(c, k, next)
        BY <3>2, <4>1 DEF IsLastChange
      <4>3. c = LastChange(k, next)
        BY <1>1, <2>1, <4>1, <4>2, LastChangeUnique
      <4> QED BY <4>3 DEF c
    <3> QED BY <2>3, <2>4, <3>1, <3>3, <3>4 DEF Mirror, FromPast
  <2> QED BY <2>5, <2>6
<1>7. CASE StreamEnds \/ Fail \/ Wake
  BY <1>2, <1>7 DEF StreamEnds, Fail, Wake, Mirror, FromPast
<1> QED BY <1>4, <1>5, <1>6, <1>7

LEMMA MirrorInductive == MirrorInv /\ [Next]_vars => MirrorInv'
<1> SUFFICES ASSUME MirrorInv, [Next]_vars PROVE MirrorInv'
  OBVIOUS
<1>1. TInv'
  BY TInvInductive DEF MirrorInv
<1>2. CASE UNCHANGED vars
  BY <1>1, <1>2, Standstill DEF MirrorInv, FromPast, Mirror, Shown, vars
<1> QED BY <1>1, <1>2, MirrorChange, MirrorLoop DEF Next, MirrorInv

LEMMA MirrorInit == Init => MirrorInv
BY TInvInit DEF Init, MirrorInv, FromPast, Mirror

\* Each entry is what the API held at the newest revision applied to it, but for
\* objects deleted while no watch was open.
THEOREM TableMirrors == Spec => []Mirror
<1>1. MirrorInv => Mirror
  BY DEF MirrorInv
<1> QED BY <1>1, MirrorInit, MirrorInductive, PTL DEF Spec

-----------------------------------------------------------------------------
(* Versions                                                                *)

\* An entry is replaced by what its key held at a revision no older than the
\* last one applied to it.
LEMMA StepForward ==
  ASSUME MirrorInv, [Next]_vars, NEW k \in Keys, table[k] # None, table'[k] # None
  PROVE  table'[k].rev >= table[k].rev
<1> USE DEF MirrorInv
<1>1. Revision \in Nat
  BY DEF TInv, TypeOK, Revision
<1>2. PICK q \in 0..Revision : q <= seen[k] /\ At(q)[k] = table[k]
  BY <1>1 DEF FromPast, TInv, TypeOK
<1>3. table[k].rev \in Nat
  BY <1>1, <1>2 DEF TInv, Chronicle
<1>4. CASE table'[k] = table[k]
  BY <1>3, <1>4
<1>5. CASE \E r \in 0..Revision : r >= seen[k] /\ table'[k] = At(r)[k]
  <2>1. PICK r \in 0..Revision : r >= seen[k] /\ table'[k] = At(r)[k]
    BY <1>5
  <2>2. q <= r
    BY <1>1, <1>2, <2>1 DEF TInv, TypeOK
  <2> QED BY <1>2, <2>1, <2>2 DEF TInv, Chronicle
<1>6. ASSUME NEW r \in 0..Revision
      PROVE  Seeded(table, At(r))[k] \in {table[k], At(r)[k], None}
  BY DEF Seeded, Apply, TInv, TypeOK, Contents
<1>7. CASE Seed \/ SeedAborts
  <2>1. PICK r \in asked..Revision : table'[k] \in {table[k], Seeded(table, At(r))[k]}
    BY <1>7 DEF Seed, SeedAborts
  <2>2. r \in 0..Revision /\ r >= seen[k]
    BY <1>1, <1>7, <2>1 DEF Seed, SeedAborts, TInv, TypeOK, Position
  <2> QED BY <1>4, <1>5, <1>6, <2>1, <2>2
<1>8. CASE WatchEvent
  <2>1. PICK j \in Keys : table' = Apply(table, j, At(cursor + 1)[j])
    BY <1>8 DEF WatchEvent, ChangedAt
  <2>2. table'[k] = table[k] \/ table'[k] = At(cursor + 1)[k]
    BY <2>1 DEF Apply, TInv, TypeOK, Contents
  <2>3. cursor + 1 \in 0..Revision /\ cursor + 1 >= seen[k]
    BY <1>1, <1>8 DEF WatchEvent, TInv, TypeOK, Mirror
  <2> QED BY <1>4, <1>5, <2>2, <2>3
<1>9. CASE Change \/ StreamEnds \/ Fail \/ Wake \/ UNCHANGED vars
  BY <1>4, <1>9 DEF Change, StreamEnds, Fail, Wake, vars, loopVars
<1> QED BY <1>7, <1>8, <1>9 DEF Next

\* No entry is ever replaced by an older version of the object.
THEOREM VersionsGrow == Spec => NeverBackwards
<1>1. MirrorInv /\ [Next]_vars =>
        [\A k \in Keys : table[k] # None /\ table'[k] # None
           => table'[k].rev >= table[k].rev]_vars
  BY StepForward
<1> QED BY <1>1, MirrorInit, MirrorInductive, PTL DEF Spec, NeverBackwards
=============================================================================
