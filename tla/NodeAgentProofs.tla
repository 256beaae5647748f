-------------------------- MODULE NodeAgentProofs ---------------------------
(* The invariants of NodeAgent for any number of requests, any drives and   *)
(* any bound on the counters.                                               *)
EXTENDS NodeAgent, TLAPS

-----------------------------------------------------------------------------
(* Types                                                                   *)

\* Which device each source reads; a card or a drive keeps its counter, and
\* only an NVMe drive has dumps, which tell what it had moved.
Sources ==
  /\ source = "net" => device = "nics"
  /\ source = "nvme" => device \in Drives \union {None}
  /\ source # "net" => cut = 0
  /\ source # "nvme" => smartFile = None /\ sidecar = "looking"
  /\ smartFile # None => smartFile.units <= moved[smartFile.drive]

TInv == TypeOK /\ Sources

LEMMA TypesInit == Init => TInv
<1> SUFFICES ASSUME Init PROVE TInv
  OBVIOUS
<1>1. device \in Devices \union {None}
  BY DEF Init, Devices, _sd_block_device, _root_device
<1>2. moved \in [Devices -> Moved] /\ cut \in 0..moved["nics"]
  BY AgentAssumption DEF Init, Devices, Moved
<1>3. /\ source = "net" => device = "nics"
      /\ source = "nvme" => device \in Drives \union {None}
  BY DEF Init
<1>4. 0 \in Moved /\ \A th \in Threads : busy[th] = None
  BY AgentAssumption DEF Init, Moved
<1> QED BY <1>1, <1>2, <1>3, <1>4 DEF Init, TInv, TypeOK, Sources

\* The difference that is reported is never negative.
LEMMA BytesNat == ASSUME NEW my \in Locals PROVE Bytes(my) \in Nat
BY AgentAssumption DEF Locals, Bytes, Moved

Rates == \A th \in Threads : busy[th] # None => Bytes(busy[th]) \in Nat

LEMMA RatesNat ==
  (busy \in [Threads -> Locals \union {None}])' => Rates'
<1> SUFFICES ASSUME (busy \in [Threads -> Locals \union {None}])', NEW th \in Threads,
                    busy'[th] # None
             PROVE  (Bytes(busy[th]) \in Nat)'
  BY DEF Rates
<1>1. busy'[th] \in Locals
  OBVIOUS
<1> QED BY <1>1, BytesNat DEF Bytes

Env == Move \/ InterfaceGone \/ Exchange
Sidecar == DumpSmart \/ DumpCtrl \/ RemoveSmart \/ RemoveCtrl \/ NextRound
Request(th) ==
  \/ read_nvme_smart(th) \/ read_sd_bytes(th) \/ read_net_bytes(th)
  \/ Load(th) \/ Store(th)

\* The steps by who takes them.
LEMMA Steps ==
  Next => Env \/ Sidecar \/ (\E th \in Threads : Request(th)) \/ Restart
BY DEF Next, Env, Sidecar, Request, _nvme_io_rate, _sd_io_rate, _net_io_rate

LEMMA TypesEnv == TInv /\ (Env \/ Sidecar \/ Restart \/ UNCHANGED vars) => TInv'
<1> SUFFICES ASSUME TInv, Env \/ Sidecar \/ Restart \/ UNCHANGED vars PROVE TInv'
  OBVIOUS
<1> USE AgentAssumption DEF TInv, TypeOK, Sources, Moved
<1>1. CASE Move
  BY <1>1 DEF Move, sidecarVars, agentVars, Devices
<1>2. CASE InterfaceGone
  BY <1>2 DEF InterfaceGone, sidecarVars, agentVars, Devices
<1>3. CASE Exchange
  BY <1>3 DEF Exchange, sidecarVars, agentVars, Devices
<1>4. CASE DumpSmart
  <2>1. device \in Drives
    BY <1>4 DEF DumpSmart
  <2> QED BY <1>4, <2>1 DEF DumpSmart, deviceVars, agentVars, Devices
<1>5. CASE DumpCtrl
  BY <1>5 DEF DumpCtrl, deviceVars, agentVars, Devices
<1>6. CASE RemoveSmart \/ RemoveCtrl \/ NextRound
  BY <1>6 DEF RemoveSmart, RemoveCtrl, NextRound, deviceVars, agentVars
<1>7. CASE Restart
  BY <1>7 DEF Restart, deviceVars, sidecarVars
<1>8. CASE UNCHANGED vars
  BY <1>8 DEF vars, deviceVars, sidecarVars, agentVars
<1> QED BY <1>1, <1>2, <1>3, <1>4, <1>5, <1>6, <1>7, <1>8 DEF Env, Sidecar

\* Whatever a request reads is a counter of a device, no more than it moved.
LEMMA Reading ==
  ASSUME TInv, NEW th \in Threads,
         read_nvme_smart(th) \/ read_sd_bytes(th) \/ read_net_bytes(th)
  PROVE  \E of \in Devices, value \in Moved, by \in Moved, missing \in Moved :
           /\ Begin(th, of, value, by, missing)
           /\ by - value = cut + missing /\ by <= moved[of]
           /\ IF source = "nvme" THEN smartFile # None /\ of = smartFile.drive /\ by = smartFile.units
              ELSE of = device /\ by = moved[of]
<1>1. CASE read_nvme_smart(th)
  BY <1>1, AgentAssumption DEF read_nvme_smart, TInv, TypeOK, Sources, Moved, Devices
<1>2. CASE read_sd_bytes(th)
  BY <1>2, AgentAssumption DEF read_sd_bytes, TInv, TypeOK, Sources, Moved
<1>3. CASE read_net_bytes(th)
  <2>1. device \in Devices /\ device = "nics" /\ source = "net"
    BY <1>3 DEF read_net_bytes, TInv, Sources, Devices
  <2>2. moved[device] \in Moved /\ cut \in 0..moved[device]
    BY <2>1 DEF TInv, TypeOK
  <2>3. PICK missing \in 0..(moved[device] - cut) :
          Begin(th, device, moved[device] - cut - missing, moved[device], missing)
    BY <1>3 DEF read_net_bytes
  <2>4. missing \in Moved /\ moved[device] - cut - missing \in Moved
    BY <2>2, AgentAssumption DEF Moved
  <2>5. moved[device] - (moved[device] - cut - missing) = cut + missing
    BY <2>2, AgentAssumption DEF Moved
  <2>6. moved[device] <= moved[device]
    BY <2>2, AgentAssumption DEF Moved
  <2> QED BY <2>1, <2>2, <2>3, <2>4, <2>5, <2>6
<1> QED BY <1>1, <1>2, <1>3

LEMMA TypesRequest ==
  ASSUME TInv, NEW th \in Threads, Request(th)
  PROVE  TInv'
<1>1. CASE read_nvme_smart(th) \/ read_sd_bytes(th) \/ read_net_bytes(th)
  <2>1. PICK of \in Devices, value \in Moved, by \in Moved, missing \in Moved :
           Begin(th, of, value, by, missing)
    BY <1>1, Reading
  <2>2. busy' \in [Threads -> Locals \union {None}]
    <3> SUFFICES ASSUME NEW x \in Threads PROVE busy'[x] \in Locals \union {None}
      BY <2>1 DEF Begin
    <3>1. CASE x = th
      BY <2>1, <3>1 DEF Begin, Locals
    <3>2. CASE x # th /\ x \in Sampling
      <4>1. busy[x] \in Locals
        BY <3>2 DEF Sampling, TInv, TypeOK
      <4> QED BY <2>1, <3>2, <4>1 DEF Begin, Locals
    <3>3. CASE x # th /\ x \notin Sampling
      BY <2>1, <3>3 DEF Begin
    <3> QED BY <3>1, <3>2, <3>3
  <2> QED BY <2>1, <2>2, RatesNat
          DEF Begin, TInv, TypeOK, Sources, Rates, deviceVars, sidecarVars
<1>2. CASE Load(th)
  <2>1. busy[th] \in Locals
    BY <1>2 DEF Load, TInv, TypeOK
  <2>2. busy' \in [Threads -> Locals \union {None}]
    BY <1>2, <2>1 DEF Load, TInv, TypeOK, Locals
  <2> QED BY <1>2, <2>2, RatesNat
          DEF Load, TInv, TypeOK, Sources, Rates, deviceVars, sidecarVars
<1>3. CASE Store(th)
  <2>1. busy[th] \in Locals
    BY <1>3 DEF Store, TInv, TypeOK
  <2>2. PICK elapsed \in BOOLEAN : account' = Balance(busy[th], elapsed)
    BY <1>3 DEF Store
  <2>3. account' \in [of : Devices, from : Moved, sum : Nat] \union {None}
    <3>1. account # None => account \in [of : Devices, from : Moved, sum : Nat]
      BY DEF TInv, TypeOK
    <3> QED BY <2>1, <2>2, <3>1, BytesNat DEF Balance, Locals
  <2>4. busy' \in [Threads -> Locals \union {None}]
    BY <1>3 DEF Store, TInv, TypeOK
  <2> QED BY <1>3, <2>1, <2>3, <2>4, RatesNat
          DEF Store, TInv, TypeOK, Sources, Rates, Locals, deviceVars, sidecarVars
<1> QED BY <1>1, <1>2, <1>3 DEF Request

LEMMA TypesStep == TInv /\ [Next]_vars => TInv'
BY Steps, TypesEnv, TypesRequest

LEMMA TypesAlways == Spec => []TInv
BY TypesInit, TypesStep, PTL DEF Spec

\* Every reachable state is well typed.  Above all, the bytes any request is about
\* to report are a natural number: alone or overlapped, after a reset, after an
\* exchange of drives and after an interface that could not be read.
THEOREM AgentTypeCorrect == Spec => []TypeOK
<1>1. TInv => TypeOK
  BY DEF TInv
<1> QED BY <1>1, TypesAlways, PTL

-----------------------------------------------------------------------------
(* The sidecar                                                             *)

\* While no drive is exchanged a round is about the drive that is there.
RoundInv ==
  settled =>
    /\ sidecar = "identifying" =>
         device # None /\ (smartFile # None => smartFile.drive = device)
    /\ sidecar = "removing" => smartFile = None

\* Between rounds, with no exchange since the last one began, the dumps are of
\* the drive that is plugged in.
THEOREM DumpsOfDrive == Spec => []DumpsFollowDrive
<1>1. Init => RoundInv /\ DumpsFollowDrive
  BY DEF Init, RoundInv, DumpsFollowDrive
<1>2. TInv /\ RoundInv /\ DumpsFollowDrive /\ [Next]_vars => (RoundInv /\ DumpsFollowDrive)'
  <2> SUFFICES ASSUME TInv, RoundInv, DumpsFollowDrive, [Next]_vars
               PROVE  (RoundInv /\ DumpsFollowDrive)'
    OBVIOUS
  <2> USE DEF RoundInv, DumpsFollowDrive
  <2>1. CASE Env
    BY <2>1 DEF Env, Move, InterfaceGone, Exchange, sidecarVars, agentVars
  <2>2. CASE Sidecar
    BY <2>2 DEF Sidecar, DumpSmart, DumpCtrl, RemoveSmart, RemoveCtrl, NextRound,
                deviceVars, agentVars
  <2>3. CASE \E th \in Threads : Request(th)
    BY <2>3 DEF Request, read_nvme_smart, read_sd_bytes, read_net_bytes, Begin, Load, Store,
                deviceVars, sidecarVars
  <2>4. CASE Restart \/ UNCHANGED vars
    BY <2>4 DEF Restart, vars, deviceVars, sidecarVars
  <2> QED BY <2>1, <2>2, <2>3, <2>4, Steps
<1> QED BY <1>1, <1>2, TypesAlways, PTL DEF Spec

-----------------------------------------------------------------------------
(* The account                                                             *)

\* A request holds a counter that its device had moved, off by resets and by the
\* interfaces that could not be read.
Held(my) ==
  /\ my.by - my.value <= cut + my.unread /\ my.by <= moved[my.of]
  /\ smartFile # None => (smartFile.drive = my.of => my.by <= smartFile.units)

\* A request that no other overlaps is alone, and has seen the last sample.
Alone(th) ==
  /\ \A x \in Threads \ {th} : busy[x] = None
  /\ busy[th].at = "store" => busy[th].prev = last

Total == account.sum + account.from

\* What has been reported was moved, also by the time of the last dump, and is
\* behind the last sample but for what that sample missed and for what resets have
\* taken off.
Covered ==
  /\ last # None
  /\ Total <= moved[account.of]
  /\ Total <= last + cut + unread
  /\ smartFile # None => (smartFile.drive = account.of => Total <= smartFile.units)

\* A lone request about to add to the account has read beyond it, unless the bytes
\* that the last sample missed are back; then the account is opened anew.
Ahead(my) ==
  my.of = account.of /\ my.unread >= unread =>
    Total <= my.by /\ Total <= last + (my.by - my.value)

AccountInv ==
  /\ \A th \in Threads : busy[th] # None =>
       /\ Held(busy[th])
       /\ ~busy[th].lapped => Alone(th)
       /\ ~busy[th].lapped /\ account # None => Ahead(busy[th])
  /\ account # None => Covered

\* What is not the agent's leaves samples and account alone; counters and dumps
\* only grow.
LEMMA AccountEnv ==
  TInv /\ AccountInv /\ (Env \/ Sidecar \/ UNCHANGED vars) => AccountInv'
<1> SUFFICES ASSUME TInv, AccountInv, Env \/ Sidecar \/ UNCHANGED vars PROVE AccountInv'
  OBVIOUS
<1>1. UNCHANGED agentVars
  BY DEF Env, Move, InterfaceGone, Exchange, vars,
         Sidecar, DumpSmart, DumpCtrl, RemoveSmart, RemoveCtrl, NextRound
<1>2. /\ \A d \in Devices : moved'[d] \in Nat /\ moved[d] \in Nat /\ moved[d] <= moved'[d]
      /\ cut \in Nat /\ cut' \in Nat /\ cut <= cut'
  BY AgentAssumption
     DEF Env, Move, InterfaceGone, Exchange, vars, deviceVars, TInv, TypeOK, Moved, Devices,
         Sidecar, DumpSmart, DumpCtrl, RemoveSmart, RemoveCtrl, NextRound
<1>3. smartFile' # None =>
        \/ smartFile' = smartFile
        \/ smartFile'.drive \in Devices /\ smartFile'.units = moved[smartFile'.drive]
  BY DEF Env, Move, InterfaceGone, Exchange, vars, sidecarVars, TInv, TypeOK,
         Sidecar, DumpSmart, DumpCtrl, RemoveSmart, RemoveCtrl, NextRound
<1>4. ASSUME NEW th \in Threads, busy[th] # None
      PROVE  /\ Held(busy[th])'
             /\ ~busy[th].lapped => Alone(th)'
             /\ ~busy[th].lapped /\ account # None => Ahead(busy[th])'
  <2>1. busy[th] \in Locals
    BY <1>4 DEF TInv, TypeOK
  <2>2. Held(busy[th])'
    BY <1>1, <1>2, <1>3, <1>4, <2>1, AgentAssumption
       DEF AccountInv, Held, Locals, agentVars, Moved
  <2> QED BY <1>1, <1>4, <2>2 DEF AccountInv, Alone, Ahead, Total, agentVars
<1>5. ASSUME account # None PROVE Covered'
  <2>1. account \in [of : Devices, from : Moved, sum : Nat]
    BY <1>5 DEF TInv, TypeOK
  <2> QED BY <1>1, <1>2, <1>3, <1>5, <2>1, AgentAssumption
          DEF AccountInv, Covered, Total, agentVars, Moved, TInv, TypeOK
<1> QED BY <1>1, <1>4, <1>5 DEF AccountInv, agentVars

\* A reading is new: alone it is ahead of the account, not alone it overlaps.
LEMMA AccountBegin ==
  ASSUME TInv, AccountInv, NEW th \in Threads,
         read_nvme_smart(th) \/ read_sd_bytes(th) \/ read_net_bytes(th)
  PROVE  AccountInv'
<1>1. PICK of \in Devices, value \in Moved, by \in Moved, missing \in Moved :
        /\ Begin(th, of, value, by, missing)
        /\ by - value = cut + missing /\ by <= moved[of]
        /\ IF source = "nvme" THEN smartFile # None /\ of = smartFile.drive /\ by = smartFile.units
           ELSE of = device /\ by = moved[of]
  BY Reading
<1>2. UNCHANGED <<moved, cut, smartFile, last, unread, account>>
  BY <1>1 DEF Begin, deviceVars, sidecarVars
<1>3. ASSUME NEW x \in Threads, busy'[x] # None
      PROVE  /\ Held(busy[x])'
             /\ ~busy'[x].lapped => Alone(x)'
             /\ ~busy'[x].lapped /\ account # None => Ahead(busy[x])'
  <2>1. CASE x = th
    <3>1. busy'[th] = [at |-> "load", value |-> value, prev |-> None,
                       of |-> of, by |-> by, unread |-> missing, lapped |-> Sampling # {}]
      BY <1>1 DEF Begin
    <3>2. Held(busy[th])'
      BY <1>1, <1>2, <3>1, AgentAssumption DEF Held, Moved, TInv, TypeOK, Sources
    <3>3. ~busy'[th].lapped => Alone(th)'
      BY <1>1, <3>1 DEF Begin, Alone, Sampling
    <3>4. account # None => Ahead(busy[th])'
      <4> SUFFICES ASSUME account # None, of = account.of, missing >= unread
                   PROVE  Total <= by /\ Total <= last + (by - value)
        BY <1>2, <3>1 DEF Ahead, Total
      <4>1. Covered /\ account \in [of : Devices, from : Moved, sum : Nat]
        BY DEF AccountInv, TInv, TypeOK
      <4>2. /\ Total \in Nat /\ last \in Nat /\ unread \in Nat /\ cut \in Nat
            /\ smartFile # None => smartFile.units \in Nat
        BY <4>1, AgentAssumption DEF Covered, Total, Moved, TInv, TypeOK, Devices
      <4> QED BY <1>1, <4>1, <4>2, AgentAssumption DEF Covered, Moved
    <3> QED BY <2>1, <3>2, <3>3, <3>4
  <2>2. CASE x # th
    <3>1. x \in Sampling /\ busy'[x] = [busy[x] EXCEPT !.lapped = TRUE]
      BY <1>1, <1>3, <2>2 DEF Begin
    <3>2. busy[x] \in Locals /\ Held(busy[x])
      BY <3>1 DEF Sampling, AccountInv, TInv, TypeOK
    <3>3. busy'[x].lapped /\ Held(busy[x])'
      BY <1>2, <3>1, <3>2 DEF Held, Locals
    <3> QED BY <3>3
  <2> QED BY <2>1, <2>2
<1> QED BY <1>2, <1>3 DEF AccountInv, Covered, Total

\* The previous sample is read; alone, it stays the last one until the store.
LEMMA AccountLoad ==
  ASSUME TInv, AccountInv, NEW th \in Threads, Load(th)
  PROVE  AccountInv'
<1>1. UNCHANGED <<moved, cut, smartFile, last, unread, account>>
  BY DEF Load, deviceVars, sidecarVars
<1>2. busy[th] \in Locals /\ busy[th] # None
  BY DEF Load, TInv, TypeOK
<1>3. busy'[th] = [busy[th] EXCEPT !.at = "store", !.prev = last]
  BY <1>2 DEF Load, TInv, TypeOK, Locals
<1>4. /\ busy'[th].value = busy[th].value /\ busy'[th].by = busy[th].by
      /\ busy'[th].of = busy[th].of /\ busy'[th].lapped = busy[th].lapped
      /\ busy'[th].unread = busy[th].unread
      /\ busy'[th].prev = last
  BY <1>2, <1>3 DEF Locals
<1>5. \A x \in Threads \ {th} : busy'[x] = busy[x]
  BY DEF Load, TInv, TypeOK
<1>6. ASSUME NEW x \in Threads, busy'[x] # None
      PROVE  /\ Held(busy[x])'
             /\ ~busy'[x].lapped => Alone(x)'
             /\ ~busy'[x].lapped /\ account # None => Ahead(busy[x])'
  <2>1. CASE x = th
    BY <1>1, <1>2, <1>4, <1>5, <2>1 DEF AccountInv, Held, Alone, Ahead, Total
  <2>2. CASE x # th
    <3>1. busy[x] # None /\ busy'[x] = busy[x]
      BY <1>5, <1>6, <2>2
    <3>2. busy[x].lapped
      BY <1>2, <2>2, <3>1 DEF AccountInv, Alone, TInv, TypeOK, Locals
    <3> QED BY <1>1, <3>1, <3>2 DEF AccountInv, Held
  <2> QED BY <2>1, <2>2
<1> QED BY <1>1, <1>6 DEF AccountInv, Covered, Total

\* The sample is stored and the rate reported.  Alone, the request adds what was
\* moved since the last sample, and no more than it has read; overlapped, it
\* closes the account.
LEMMA AccountStore ==
  ASSUME TInv, AccountInv, NEW th \in Threads, Store(th)
  PROVE  AccountInv'
<1> DEFINE my == busy[th]
<1>1. UNCHANGED <<moved, cut, smartFile>> /\ last' = my.value /\ unread' = my.unread
  BY DEF Store, deviceVars, sidecarVars
<1>2. my \in Locals /\ my # None /\ Held(my)
  BY DEF Store, TInv, TypeOK, AccountInv
<1>3. busy' = [busy EXCEPT ![th] = None]
  BY DEF Store
<1>4. PICK elapsed \in BOOLEAN : account' = Balance(my, elapsed)
  BY DEF Store
<1>5. CASE my.lapped
  <2>1. account' = None
    BY <1>4, <1>5 DEF Balance
  <2>2. ASSUME NEW x \in Threads, busy'[x] # None
        PROVE  Held(busy[x])' /\ busy'[x].lapped
    <3>1. x # th /\ busy'[x] = busy[x] /\ busy[x] # None
      BY <1>3, <2>2 DEF TInv, TypeOK
    <3>2. busy[x].lapped
      BY <1>2, <3>1 DEF AccountInv, Alone, TInv, TypeOK, Locals
    <3> QED BY <1>1, <3>1, <3>2 DEF AccountInv, Held
  <2> QED BY <2>1, <2>2 DEF AccountInv
<1>6. CASE ~my.lapped
  <2>1. Alone(th) /\ (account # None => Ahead(my) /\ Covered)
    BY <1>2, <1>6 DEF AccountInv
  <2>2. \A x \in Threads : busy'[x] = None
    BY <1>3, <2>1 DEF Alone, TInv, TypeOK
  <2>3. /\ my.value \in Nat /\ my.by \in Nat /\ my.unread \in Nat /\ unread \in Nat
        /\ my.of \in Devices /\ cut \in Nat
    BY <1>2, AgentAssumption DEF Locals, Moved, TInv, TypeOK, Devices
  <2>4. last' # None
    BY <1>1, <2>3, AgentAssumption
  <2>5. account' # None => account'.of = my.of /\ Total' <= my.by
    <3>1. CASE account = None \/ my.prev = None
      BY <1>4, <1>6, <2>3, <3>1 DEF Balance, Total
    <3>2. CASE account # None /\ my.prev # None
      <4>1. account \in [of : Devices, from : Moved, sum : Nat]
        BY <3>2 DEF TInv, TypeOK
      <4>2. CASE account.of # my.of \/ my.unread < unread
        BY <1>4, <1>6, <2>3, <3>2, <4>2 DEF Balance, Total
      <4>3. CASE account.of = my.of /\ ~(my.unread < unread)
        <5>1. Total \in Nat /\ Total <= my.by /\ Total <= last + (my.by - my.value)
          BY <2>1, <2>3, <3>2, <4>1, <4>3, AgentAssumption DEF Ahead, Total, Moved
        <5>2. my.prev = last /\ last \in Nat
          BY <2>1, <3>2, AgentAssumption DEF Store, Alone, TInv, TypeOK, Moved
        <5>3. CASE ~elapsed
          BY <1>4, <1>6, <3>2, <4>3, <5>1, <5>3 DEF Balance, Total
        <5>4. CASE elapsed
          <6>1. account' = [account EXCEPT !.sum = @ + Bytes(my)]
            BY <1>4, <1>6, <3>2, <4>3, <5>4 DEF Balance
          <6>2. account'.of = account.of /\ Total' = Total + Bytes(my)
            BY <4>1, <6>1, <1>2, BytesNat, AgentAssumption DEF Total, Moved
          <6>3. Total + Bytes(my) <= my.by
            BY <2>3, <3>2, <5>1, <5>2 DEF Bytes
          <6> QED BY <4>3, <6>2, <6>3
        <5> QED BY <5>3, <5>4
      <4> QED BY <4>2, <4>3
    <3> QED BY <3>1, <3>2
  <2>6. account' # None => Covered'
    <3> SUFFICES ASSUME account' # None PROVE Covered'
      OBVIOUS
    <3>1. account' \in [of : Devices, from : Moved, sum : Nat]
      BY TypesRequest DEF Request, TInv, TypeOK
    <3>2. Total' \in Nat /\ moved[my.of] \in Nat
      BY <2>3, <3>1, AgentAssumption DEF Total, Moved, TInv, TypeOK
    <3>3. smartFile # None => smartFile.units \in Nat
      BY AgentAssumption DEF Moved, TInv, TypeOK
    <3> QED BY <1>1, <1>2, <2>3, <2>4, <2>5, <3>2, <3>3 DEF Covered, Held
  <2> QED BY <2>2, <2>6 DEF AccountInv
<1> QED BY <1>5, <1>6

LEMMA AccountStep == TInv /\ AccountInv /\ [Next]_vars => AccountInv'
<1>1. Restart => AccountInv'
  BY DEF Restart, AccountInv, TInv, TypeOK
<1> QED BY <1>1, Steps, AccountEnv, AccountBegin, AccountLoad, AccountStore DEF Request

\* However many replicas poll, and whatever resets, exchanges and overlaps came
\* before: lone requests never report more bytes than were moved.
THEOREM NoByteTwice == Spec => []NothingTwice
<1>1. Init => AccountInv
  BY DEF Init, AccountInv
<1>2. TInv /\ AccountInv => NothingTwice
  BY DEF AccountInv, Covered, Total, NothingTwice
<1> QED BY <1>1, <1>2, AccountStep, TypesAlways, PTL DEF Spec
=============================================================================
