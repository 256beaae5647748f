----------------------------- MODULE NodeAgent -----------------------------
(***************************************************************************)
(* The hardware agent of one node (backend/app/node_agent.py): the rates   *)
(* it derives from cumulative counters, and the NVMe data it takes from    *)
(* the dumps of the privileged sidecar                                     *)
(* (deploy/daemonset-node-agent.yaml).                                     *)
(*                                                                         *)
(* /metrics is a sync handler: each request runs in a thread of its own,   *)
(* and both replicas poll.  The previous samples are module globals read   *)
(* and written by all of these threads without a lock.  metrics() samples  *)
(* the NVMe drive, the SD card and the network one after the other, each   *)
(* with a global of its own: a behaviour follows one of them, `source`.    *)
(*                                                                         *)
(* A pair of counters (read and written, received and sent) is one number; *)
(* a rate is the bytes it stands for, the division by the elapsed time is  *)
(* left out.  The times are left out as well: that no time elapsed since   *)
(* the previous sample (the clock did not tick, or the sample is of a      *)
(* request that read the clock later) is possible at every sample.         *)
(***************************************************************************)
EXTENDS Integers

CONSTANTS
  Threads,    \* requests served at the same time
  Drives,     \* NVMe drives that may be plugged in
  None,
  MaxMoved    \* bound: what a device moves in its life

ASSUME AgentAssumption ==
  /\ MaxMoved \in Nat
  /\ None \notin Drives \union Nat \union {"mmc", "nics"}

VARIABLES
  source,     \* "nvme", "sd" or "net"
  device,     \* a drive at /dev/nvme0, "mmc" if the root is on a card, "nics"; or None
  moved,      \* what each device has moved in its life
  cut,        \* what resets have taken off the network's counter
  smartFile,  \* nvme-smart-log.json: a drive and its data units, or None
  ctrlFile,   \* nvme-id-ctrl.json: a drive, or None
  sidecar,    \* "looking", "identifying", "removing" or "asleep"
  last,       \* the counter in _last_nvme_io, _last_sd_io or _last_net_io
  busy,       \* the locals of each request that is sampling the source, or None
  \* History variables, read by no guard:
  unread,     \* of the sample in `last`: the bytes of interfaces it went without
  settled,    \* the drive has not changed since the sidecar's round began
  account     \* see Balance

deviceVars == <<source, device, moved, cut>>
sidecarVars == <<smartFile, ctrlFile, sidecar>>
agentVars == <<last, busy, unread, account>>
vars == <<deviceVars, sidecarVars, settled, agentVars>>

Devices == Drives \union {"mmc", "nics"}
Moved == 0..MaxMoved
\* at: the next step; value and prev as in _..._io_rate.  Of the history: whose
\* counter was read and what it had moved by then, the bytes of interfaces that
\* could not be read, and whether another request was sampling at the same time.
Locals == [at : {"load", "store"}, value : Moved, prev : Moved \union {None},
           of : Devices, by : Moved, unread : Moved, lapped : BOOLEAN]

\* Mutants: the difference taken as it is, and the distance of the samples.
BytesSigned(my) == IF my.prev = None THEN 0 ELSE my.value - my.prev

BytesAbsolute(my) ==
  IF my.prev = None THEN 0
  ELSE IF my.value < my.prev THEN my.prev - my.value ELSE my.value - my.prev

\* The bytes of the reported rate; 0 also stands for no rate at all.
Bytes(my) == IF my.prev = None \/ my.value < my.prev THEN 0 ELSE my.value - my.prev

TypeOK ==
  /\ source \in {"nvme", "sd", "net"}
  /\ device \in Devices \union {None}
  /\ moved \in [Devices -> Moved]
  /\ cut \in 0..moved["nics"]
  /\ smartFile \in [drive : Drives, units : Moved] \union {None}
  /\ ctrlFile \in Drives \union {None}
  /\ sidecar \in {"looking", "identifying", "removing", "asleep"}
  /\ last \in Moved \union {None}
  /\ busy \in [Threads -> Locals \union {None}]
  /\ \A th \in Threads : busy[th] # None => Bytes(busy[th]) \in Nat
  /\ unread \in Moved
  /\ settled \in BOOLEAN
  /\ account \in [of : Devices, from : Moved, sum : Nat] \union {None}

\* What / is mounted from, for good: an SD card or anything else.
_root_device == {"mmcblk0p2", "nvme0n1p2", None}

\* Whole-disk device of the SD card, or None if the node does not boot from one.
_sd_block_device(root) == IF root = "mmcblk0p2" THEN "mmc" ELSE None

Init ==
  /\ source \in {"nvme", "sd", "net"}
  /\ device \in CASE source = "nvme" -> Drives \union {None}
                  [] source = "sd" -> {_sd_block_device(root) : root \in _root_device}
                  [] source = "net" -> {"nics"}
  /\ moved = [d \in Devices |-> 0]
  /\ cut = 0
  /\ smartFile = None
  /\ ctrlFile = None
  /\ sidecar = "looking"
  /\ settled = TRUE
  /\ last = None
  /\ busy = [th \in Threads |-> None]
  /\ unread = 0
  /\ account = None

-----------------------------------------------------------------------------
(* The hardware                                                            *)

Move ==
  /\ device # None
  /\ moved[device] < MaxMoved
  /\ moved' = [moved EXCEPT ![device] = @ + 1]
  /\ UNCHANGED <<source, device, cut, sidecarVars, settled, agentVars>>

\* An interface disappears and takes its counter out of the sum; when it comes
\* back it counts from zero.
InterfaceGone ==
  /\ source = "net"
  /\ cut' \in (cut + 1)..moved["nics"]
  /\ UNCHANGED <<source, device, moved, sidecarVars, settled, agentVars>>

\* A drive is pulled, or one is plugged in.
Exchange ==
  /\ source = "nvme"
  /\ IF device = None THEN device' \in Drives ELSE device' = None
  /\ settled' = FALSE
  /\ UNCHANGED <<source, moved, cut, sidecarVars, agentVars>>

-----------------------------------------------------------------------------
(* The sidecar's loop                                                      *)

\* `nvme smart-log` succeeds, its output is moved into place.
DumpSmart ==
  /\ source = "nvme"
  /\ sidecar = "looking"
  /\ device # None
  /\ smartFile' = [drive |-> device, units |-> moved[device]]
  /\ sidecar' = "identifying"
  /\ UNCHANGED <<ctrlFile, deviceVars, settled, agentVars>>

\* `nvme id-ctrl`; its failure leaves the dump as it was.
DumpCtrl ==
  /\ sidecar = "identifying"
  /\ \/ device # None /\ ctrlFile' = device
     \/ UNCHANGED ctrlFile
  /\ sidecar' = "asleep"
  /\ UNCHANGED <<smartFile, deviceVars, settled, agentVars>>

\* Mutant: without a drive there is nothing to dump, and nothing is done.
RemoveSmartKept ==
  /\ source = "nvme"
  /\ sidecar = "looking"
  /\ sidecar' = "asleep"
  /\ UNCHANGED <<smartFile, ctrlFile, deviceVars, settled, agentVars>>

\* No drive, or smart-log fails: `rm -f` removes one dump, then the other.
RemoveSmart ==
  /\ source = "nvme"
  /\ sidecar = "looking"
  /\ smartFile' = None
  /\ sidecar' = "removing"
  /\ UNCHANGED <<ctrlFile, deviceVars, settled, agentVars>>

RemoveCtrl ==
  /\ sidecar = "removing"
  /\ ctrlFile' = None
  /\ sidecar' = "asleep"
  /\ UNCHANGED <<smartFile, deviceVars, settled, agentVars>>

\* The sleep ends; or the container is restarted in the middle of a round.
NextRound ==
  /\ sidecar # "looking"
  /\ sidecar' = "looking"
  /\ settled' = TRUE
  /\ UNCHANGED <<smartFile, ctrlFile, deviceVars, agentVars>>

-----------------------------------------------------------------------------
(* The agent                                                               *)

Sampling == {th \in Threads : busy[th] # None}

\* A counter is read on behalf of th, but for `missing` of its bytes.
Begin(th, of, value, by, missing) ==
  /\ busy[th] = None
  /\ busy' = [x \in Threads |->
       IF x = th
       THEN [at |-> "load", value |-> value, prev |-> None,
             of |-> of, by |-> by, unread |-> missing, lapped |-> Sampling # {}]
       ELSE IF x \in Sampling THEN [busy[x] EXCEPT !.lapped = TRUE] ELSE None]
  /\ UNCHANGED <<deviceVars, sidecarVars, settled, last, unread, account>>

\* The data units of the last dump.  Without one, or without their keys, the
\* request stops here, and so below without a card and without an interface
\* that can be read: no rate, and the last sample stays.
read_nvme_smart(th) ==
  /\ source = "nvme"
  /\ smartFile # None
  /\ Begin(th, smartFile.drive, smartFile.units, smartFile.units, 0)

read_sd_bytes(th) ==
  /\ source = "sd"
  /\ device # None
  /\ Begin(th, device, moved[device], moved[device], 0)

\* The sum over the interfaces; one that cannot be read is skipped, and its bytes
\* are missing from the sum of this sample.
read_net_bytes(th) ==
  /\ source = "net"
  /\ \E missing \in 0..(moved[device] - cut) :
       Begin(th, device, moved[device] - cut - missing, moved[device], missing)

\* prev = _last_nvme_io, _last_sd_io or _last_net_io.
Load(th) ==
  /\ busy[th] # None
  /\ busy[th].at = "load"
  /\ busy' = [busy EXCEPT ![th].at = "store", ![th].prev = last]
  /\ UNCHANGED <<deviceVars, sidecarVars, settled, last, unread, account>>

\* The account adds up what a run of lone requests reports.  It is opened by the
\* sample of a lone request, closed by one that another overlapped, and opened
\* anew for another drive and by a sample of bytes that the one before missed.
Balance(my, elapsed) ==
  IF my.lapped THEN None
  ELSE IF account = None \/ my.prev = None THEN [of |-> my.of, from |-> my.by, sum |-> 0]
  ELSE IF account.of # my.of \/ my.unread < unread THEN [of |-> my.of, from |-> my.by, sum |-> 0]
  ELSE IF ~elapsed THEN account
  ELSE [account EXCEPT !.sum = @ + Bytes(my)]

\* _last_... = (now, value), and the rate is computed from the locals.
Store(th) ==
  /\ busy[th] # None
  /\ busy[th].at = "store"
  /\ last' = busy[th].value
  /\ unread' = busy[th].unread
  /\ \E elapsed \in BOOLEAN : account' = Balance(busy[th], elapsed)
  /\ busy' = [busy EXCEPT ![th] = None]
  /\ UNCHANGED <<deviceVars, sidecarVars, settled>>

\* The three functions are twins, each with a global of its own.
_nvme_io_rate(th) == source = "nvme" /\ (Load(th) \/ Store(th))
_sd_io_rate(th)   == source = "sd"   /\ (Load(th) \/ Store(th))
_net_io_rate(th)  == source = "net"  /\ (Load(th) \/ Store(th))

\* The container is restarted, with every request it was serving.
Restart ==
  /\ last' = None
  /\ unread' = 0
  /\ busy' = [th \in Threads |-> None]
  /\ account' = None
  /\ UNCHANGED <<deviceVars, sidecarVars, settled>>

Next ==
  \/ Move \/ InterfaceGone \/ Exchange
  \/ DumpSmart \/ DumpCtrl \/ RemoveSmart \/ RemoveCtrl \/ NextRound
  \/ \E th \in Threads :
       \/ read_nvme_smart(th) \/ read_sd_bytes(th) \/ read_net_bytes(th)
       \/ _nvme_io_rate(th) \/ _sd_io_rate(th) \/ _net_io_rate(th)
  \/ Restart

Spec == Init /\ [][Next]_vars
-----------------------------------------------------------------------------
\* Over any run of requests whose samplings do not overlap, and none of which
\* reads an interface that the one before could not, the rates add up to no more
\* bytes than were moved between the first and the last: none is reported twice,
\* to whichever replica, through resets of the counter, interfaces that drop out,
\* a source that is missing for a while, and requests that overlapped before.  So
\* one process-wide sample is enough for two pollers (node_agent.py:269-271,
\* 441-443) as long as they do not meet, and what an overlap or a returning
\* interface distorts is right again with the next request.  Without the second
\* condition it is false: the sample after the one that skipped an interface
\* (342-343) reports that interface's whole counter as moved since.
NothingTwice ==
  account # None => account.sum + account.from <= moved[account.of]

\* "stale data cannot outlive a pulled drive" (daemonset-node-agent.yaml:96-97):
\* after a whole round of the sidecar without a change of drives, no SMART dump
\* is of another drive, and without a drive there is no dump at all.
DumpsFollowDrive ==
  sidecar = "asleep" /\ settled =>
    /\ smartFile # None => smartFile.drive = device
    /\ device = None => ctrlFile = None
=============================================================================
