------------------------- MODULE NodeLifecycleProofs -------------------------
(***************************************************************************)
(* Proofs about NodeLifecycle, for every set of images, every resolution   *)
(* of them, any number of API workers and every bound.                     *)
(***************************************************************************)
EXTENDS NodeLifecycle, TLAPS

(* The derivatives of a machine are created together, and agents only      *)
(* report on what was created.                                             *)
Born ==
    /\ pm = None <=> gm = None
    /\ pm # None => machine.image \in Images
    /\ apm # None => pm # None
    /\ agm # None => pm # None

IInv == TypeOK /\ Born

USE ConstantsAssumption, NoneAssumption

(* A node that was just created is in the inductive invariant.             *)
LEMMA InitIInv == Init => IInv
<1> SUFFICES ASSUME Init PROVE IInv OBVIOUS
<1>1. PICK i \in Images :
        /\ node = [image |-> i, target |-> "ON", power |-> "UNKNOWN",
                   status |-> "IN_PROGRESS", dirty |-> FALSE]
        /\ vol = [image |-> i, dirty |-> FALSE]
        /\ mvol = i
  BY DEF Init
<1>2. node \in NodeRows /\ vol \in [image : Images, dirty : BOOLEAN] /\ mvol \in Images
  BY <1>1 DEF NodeRows, Targets, Powers, Statuses
<1>3. machine \in MachineRows
  BY DEF Init, MachineRows, Boots, Targets, Powers, Statuses
<1>4. env \in Envs
  BY ConstantsAssumption DEF Init
<1>5. req \in [Workers -> Requests \cup {None}] /\ credit \in Int
  BY DEF Init
<1>6. port \in BOOLEAN /\ fresh \in BOOLEAN /\ held \in BOOLEAN
  BY DEF Init
<1>7. /\ nres = None /\ disk = None /\ stage \in Stages
      /\ pm = None /\ gm = None /\ apm = None /\ agm = None
  BY DEF Init, Stages
<1>8. QED BY <1>2, <1>3, <1>4, <1>5, <1>6, <1>7 DEF IInv, TypeOK, Born

(* A request or a fault that was still allowed may be used up.             *)
LEMMA Spending ==
    ASSUME env \in Envs
    PROVE  /\ env.power > 0 => [env EXCEPT !.power = @ - 1] \in Envs
           /\ env.image > 0 => [env EXCEPT !.image = @ - 1] \in Envs
           /\ env.fault > 0 => [env EXCEPT !.fault = @ - 1] \in Envs
<1>1. env.power \in Nat /\ env.image \in Nat /\ env.fault \in Nat BY DEF Envs
<1>2. \A n \in Nat : n > 0 => n - 1 \in Nat OBVIOUS
<1>3. QED BY <1>1, <1>2 DEF Envs

(* Requests of the user API and the network service keep it.               *)
LEMMA ApiIInv ==
    ASSUME IInv,
           \/ \E w \in Workers : \/ \E t \in Targets : LoadNode(w, t)
                                 \/ SetTargetPowerState(w)
           \/ \E i \in Images : UpdateNode(i)
    PROVE  IInv'
<1>1. ASSUME NEW w \in Workers, NEW t \in Targets, LoadNode(w, t) PROVE IInv'
  <2>1. req' \in [Workers -> Requests \cup {None}]
    BY <1>1 DEF LoadNode, IInv, TypeOK, Requests, NodeRows
  <2>2. env' \in Envs
    BY <1>1, Spending DEF LoadNode, IInv, TypeOK
  <2>3. QED
    BY <1>1, <2>1, <2>2 DEF LoadNode, IInv, TypeOK, Born, rows, plane
<1>2. ASSUME NEW w \in Workers, SetTargetPowerState(w) PROVE IInv'
  <2>1. req[w] \in Requests BY <1>2 DEF SetTargetPowerState, IInv, TypeOK
  <2>2. node' \in NodeRows
    BY <1>2, <2>1 DEF SetTargetPowerState, IInv, TypeOK, Requests, NodeRows, Statuses
  <2>3. credit' \in Int
    <3>1. credit' = credit \/ credit' = credit + 1
      BY <1>2 DEF SetTargetPowerState
    <3>2. QED BY <3>1 DEF IInv, TypeOK
  <2>4. req' \in [Workers -> Requests \cup {None}]
    BY <1>2 DEF SetTargetPowerState, IInv, TypeOK
  <2>5. QED
    BY <1>2, <2>2, <2>3, <2>4 DEF SetTargetPowerState, IInv, TypeOK, Born, plane
<1>3. ASSUME NEW i \in Images, UpdateNode(i) PROVE IInv'
  <2>1. node' \in NodeRows
    BY <1>3 DEF UpdateNode, IInv, TypeOK, NodeRows, Statuses
  <2>2. env' \in Envs
    BY <1>3, Spending DEF UpdateNode, IInv, TypeOK
  <2>3. QED
    BY <1>3, <2>1, <2>2 DEF UpdateNode, IInv, TypeOK, Born, plane
<1>4. QED BY <1>1, <1>2, <1>3

(* A machine that is flashed is on the private network, others are not.    *)
LEMMA WayTypes ==
    ASSUME NEW way \in Ways
    PROVE  /\ way.boot \in Boots /\ way.net \in {"boot_net", "main_net"}
           /\ way.net = IF way.boot = "network" THEN "boot_net" ELSE "main_net"
BY DEF Ways, OverNetwork, FromDisk, Boots

(* The three hooks of the pool builder keep it, in whatever stage.         *)
LEMMA PoolIInv ==
    ASSUME IInv, CreateMachine \/ UpdateMachine \/ ActualizeOutdated,
           UNCHANGED <<plane, credit, req, env>>,
           stage' \in Stages, held' \in BOOLEAN
    PROVE  IInv'
<1>1. ASSUME NEW way \in Ways, BuildDerivatives(way) PROVE IInv'
  <2>1. machine' \in MachineRows /\ machine'.image \in Images
    BY <1>1, WayTypes DEF BuildDerivatives, IInv, TypeOK, MachineRows
  <2>2. pm' \in PoolMachines
    BY <1>1, WayTypes DEF BuildDerivatives, PoolMachine, IInv, TypeOK,
                MachineRows, PoolMachines
  <2>3. gm' \in GuestMachines
    BY <1>1, WayTypes DEF BuildDerivatives, IInv, TypeOK, GuestMachines
  <2>4. QED
    BY <1>1, <2>1, <2>2, <2>3 DEF BuildDerivatives, IInv, TypeOK, Born, plane
<1>2. CASE CreateMachine
  BY <1>1, <1>2 DEF CreateMachine, WayOnCreate, Ways
<1>3. CASE UpdateMachine
  BY <1>1, <1>3 DEF UpdateMachine, WayOnUpdate, ToBeFlashed, Ways
<1>4. CASE ActualizeOutdated
  <2> DEFINE m == IF Flashed THEN [machine EXCEPT !.boot = "hd0"] ELSE machine
  <2> DEFINE s == ActualizeMachineStatus(m)
  <2>1. m \in MachineRows /\ m.image \in Images
    BY <1>4 DEF ActualizeOutdated, IInv, TypeOK, Born, MachineRows, Boots
  <2>2. MachineStatus(m) \in Statuses
    BY DEF MachineStatus, Statuses
  <2>3. s \in MachineRows /\ s.image \in Images
    BY <2>1, <2>2 DEF ActualizeMachineStatus, IInv, TypeOK, PoolReports, MachineRows
  <2>4. machine' = [s EXCEPT !.seen = (s = machine) /\ machine.seen]
    BY <1>4 DEF ActualizeOutdated
  <2>5. pm' = (IF Flashed THEN PoolMachine(m, "main_net") ELSE pm)
        /\ gm' = (IF Flashed THEN [gm EXCEPT !.boot = "hd0"] ELSE gm)
    BY <1>4 DEF ActualizeOutdated
  <2>6. PoolMachine(m, "main_net") \in PoolMachines
    BY <2>1 DEF PoolMachine, PoolMachines, MachineRows
  <2>7. gm \in GuestMachines /\ [gm EXCEPT !.boot = "hd0"] \in GuestMachines
    BY <1>4 DEF ActualizeOutdated, IInv, TypeOK, Born, GuestMachines, Boots
  <2>8. pm' \in PoolMachines /\ gm' \in GuestMachines
    BY <1>4, <2>5, <2>6, <2>7 DEF ActualizeOutdated, IInv, TypeOK
  <2>9. machine' \in MachineRows /\ machine'.image \in Images
    <3>1. ((s = machine) /\ machine.seen) \in BOOLEAN OBVIOUS
    <3>2. QED BY <2>3, <2>4, <3>1 DEF MachineRows
  <2> HIDE DEF m, s
  <2>10. UNCHANGED <<node, nres, vol, mvol, port>> /\ fresh' = FALSE
    BY <1>4 DEF ActualizeOutdated
  <2>11. QED BY <2>8, <2>9, <2>10 DEF IInv, TypeOK, Born, plane
<1>5. QED BY <1>2, <1>3, <1>4

(* The hooks of the node builder and of the volume builder keep it.        *)
LEMMA NodeIInv ==
    ASSUME IInv,
           \/ CreateNodeResource \/ UpdateNodeResource \/ TrackMachine
           \/ UpdateMachineVolume,
           UNCHANGED <<plane, credit, req, env>>,
           stage' \in Stages, held' \in BOOLEAN
    PROVE  IInv'
<1>1. CASE CreateNodeResource
  BY <1>1 DEF CreateNodeResource, IInv, TypeOK, Born, plane, NodeRows,
              MachineRows
<1>2. CASE UpdateNodeResource
  <2>1. vol' \in [image : Images, dirty : BOOLEAN] /\ nres' \in Images
    BY <1>2 DEF UpdateNodeResource, IInv, TypeOK, NodeRows
  <2>2. machine' \in MachineRows /\ machine'.image = machine.image
    BY <1>2 DEF UpdateNodeResource, IInv, TypeOK, NodeRows, MachineRows, Statuses
  <2>3. node' \in NodeRows
    BY <1>2 DEF UpdateNodeResource, IInv, TypeOK, NodeRows, MachineRows, Statuses
  <2>4. QED
    BY <1>2, <2>1, <2>2, <2>3 DEF UpdateNodeResource, IInv, TypeOK, Born, plane
<1>3. CASE TrackMachine
  <2>1. machine' \in MachineRows /\ machine'.image = machine.image
    BY <1>3 DEF TrackMachine, IInv, TypeOK, MachineRows, Statuses, Targets
  <2>2. node' \in NodeRows
    BY <1>3 DEF TrackMachine, TargetAfterTrack, IInv, TypeOK, NodeRows,
                MachineRows, Targets
  <2>3. QED
    BY <1>3, <2>1, <2>2 DEF TrackMachine, IInv, TypeOK, Born, plane
<1>4. CASE UpdateMachineVolume
  BY <1>4 DEF UpdateMachineVolume, IInv, TypeOK, Born, plane
<1>5. QED BY <1>1, <1>2, <1>3, <1>4

(* Reports of the agents keep it, failures included.                       *)
LEMMA AgentIInv ==
    ASSUME IInv,
           \/ PoolAgent \/ FlashImage \/ BootFromDisk
           \/ \E st \in {"NEW", "ERROR"} : AgentFails(st)
    PROVE  IInv'
<1>1. CASE PoolAgent
  <2>1. PoolReport \in PoolReports
    BY <1>1 DEF PoolAgent, PoolReport, PowerReached, PoolReports, PoolMachines,
                IInv, TypeOK, Targets, Powers, Statuses
  <2>2. QED
    BY <1>1, <2>1 DEF PoolAgent, IInv, TypeOK, Born, rows
<1>2. CASE FlashImage
  BY <1>2 DEF FlashImage, Report, Running, IInv, TypeOK, Born, rows,
              GuestMachines, GuestReports, GuestStatuses, Boots
<1>3. CASE BootFromDisk
  BY <1>3 DEF BootFromDisk, Report, Running, IInv, TypeOK, Born, rows,
              GuestMachines, GuestReports, GuestStatuses, Statuses, Boots
<1>4. ASSUME NEW st \in {"NEW", "ERROR"}, AgentFails(st) PROVE IInv'
  <2>1. env' \in Envs
    BY <1>4, Spending DEF AgentFails, IInv, TypeOK
  <2>2. QED
    BY <1>4, <2>1 DEF AgentFails, IInv, TypeOK, Born, rows, PoolReports,
                      GuestReports, GuestStatuses, Statuses
<1>5. QED BY <1>1, <1>2, <1>3, <1>4

(* Every step keeps the rows, targets and reports well formed, and no      *)
(* agent reports on a machine that was not created.                        *)
LEMMA NextIInv == IInv /\ [Next]_vars => IInv'
<1> SUFFICES ASSUME IInv, [Next]_vars PROVE IInv' OBVIOUS
<1>1. CASE UNCHANGED vars
  BY <1>1 DEF vars, rows, plane, IInv, TypeOK, Born
<1>2. CASE RunStage
  <2>1. stage' \in Stages /\ held' \in BOOLEAN
    BY <1>2 DEF RunStage, IInv, TypeOK, After, Stages
  <2>2. QED BY <1>2, <2>1, PoolIInv, NodeIInv DEF RunStage, Work
<1>3. CASE IdleStage
  BY <1>3 DEF IdleStage, After, Stages, rows, plane, IInv, TypeOK, Born
<1>4. CASE SkipService
  <2>1. env' \in Envs
    BY <1>4, Spending DEF SkipService, IInv, TypeOK
  <2>2. QED
    BY <1>4, <2>1 DEF SkipService, Stages, rows, plane, IInv, TypeOK, Born
<1>5. CASE ActivatePort
  BY <1>5 DEF ActivatePort, plane, IInv, TypeOK, Born
<1>6. QED BY <1>1, <1>2, <1>3, <1>4, <1>5, ApiIInv, AgentIInv DEF Next

(* Type correctness of the pipeline: whatever the order of requests,       *)
(* builder stages, roll backs and reports.                                 *)
THEOREM TypeCorrect == Spec => []TypeOK
<1>1. IInv => TypeOK BY DEF IInv
<1>2. QED BY <1>1, InitIInv, NextIInv, PTL DEF Spec

(* TypeOK is not inductive alone: the hooks read a report or a guest       *)
(* machine because another one exists, which Born records.                 *)
THEOREM AlwaysIInv == Spec => []IInv
BY InitIInv, NextIInv, PTL DEF Spec

-----------------------------------------------------------------------------
(* How a machine boots. *)

(* A new node has no pool machine to disagree with.                        *)
LEMMA InitBoot == Init => BootAndPortAgree
BY DEF Init, BootAndPortAgree

(* Only BuildDerivatives and the way out of flashing write a boot mode,    *)
(* and both write machine, pool machine and guest machine together.        *)
LEMMA NextBoot ==
    IInv /\ BootAndPortAgree /\ [Next]_vars => BootAndPortAgree'
<1> SUFFICES ASSUME IInv, BootAndPortAgree, [Next]_vars PROVE BootAndPortAgree'
  OBVIOUS
<1>1. ASSUME NEW way \in Ways, BuildDerivatives(way) PROVE BootAndPortAgree'
  BY <1>1, WayTypes DEF BuildDerivatives, PoolMachine, BootAndPortAgree, IInv,
              TypeOK, MachineRows
<1>2. CASE CreateMachine BY <1>1, <1>2 DEF CreateMachine, WayOnCreate, Ways
<1>3. CASE UpdateMachine BY <1>1, <1>3 DEF UpdateMachine, WayOnUpdate, Ways
<1>4. CASE ActualizeOutdated
  <2>1. gm \in GuestMachines /\ machine \in MachineRows
    BY <1>4 DEF ActualizeOutdated, IInv, TypeOK, Born
  <2> DEFINE m == IF Flashed THEN [machine EXCEPT !.boot = "hd0"] ELSE machine
  <2>2. m \in MachineRows /\ m.boot = IF Flashed THEN "hd0" ELSE machine.boot
    BY <2>1 DEF MachineRows, Boots
  <2>3. ActualizeMachineStatus(m).boot = m.boot
        /\ machine' = [ActualizeMachineStatus(m) EXCEPT !.seen =
              (ActualizeMachineStatus(m) = machine) /\ machine.seen]
    BY <1>4, <2>2 DEF ActualizeOutdated, ActualizeMachineStatus, MachineRows
  <2>4. DOMAIN ActualizeMachineStatus(m) = DOMAIN m
    BY <2>2 DEF ActualizeMachineStatus, MachineRows
  <2>5. machine'.boot = m.boot
    BY <2>2, <2>3, <2>4 DEF MachineRows
  <2>6. pm' = (IF Flashed THEN PoolMachine(m, "main_net") ELSE pm)
        /\ gm' = (IF Flashed THEN [gm EXCEPT !.boot = "hd0"] ELSE gm)
        /\ pm # None
    BY <1>4 DEF ActualizeOutdated
  <2> HIDE DEF m
  <2>7. CASE Flashed
    BY <2>1, <2>2, <2>5, <2>6, <2>7 DEF PoolMachine, BootAndPortAgree, GuestMachines
  <2>8. CASE ~Flashed
    BY <2>2, <2>5, <2>6, <2>8 DEF BootAndPortAgree
  <2>9. QED BY <2>7, <2>8
<1>5. CASE UNCHANGED <<pm, gm>> /\ machine'.boot = machine.boot
  BY <1>5 DEF BootAndPortAgree
<1>6. CASE CreateNodeResource \/ UpdateNodeResource \/ TrackMachine
  <2>1. machine'.boot = machine.boot /\ UNCHANGED <<pm, gm>>
    BY <1>6, ZenonT(30) DEF CreateNodeResource, UpdateNodeResource, TrackMachine, IInv,
                          TypeOK, MachineRows
  <2>2. QED BY <2>1, <1>5
<1>7. CASE UpdateMachineVolume BY <1>5, <1>7 DEF UpdateMachineVolume
<1>8. CASE RunStage BY <1>2, <1>3, <1>4, <1>6, <1>7, <1>8 DEF RunStage, Work
<1>9. CASE UNCHANGED <<machine, pm, gm>> BY <1>5, <1>9
<1>10. QED
  BY <1>8, <1>9 DEF Next, LoadNode, SetTargetPowerState, UpdateNode,
     ActivatePort, IdleStage, SkipService, PoolAgent, FlashImage, BootFromDisk,
     Report, AgentFails, rows, vars

(* The pool builder never leaves the three records of a machine in         *)
(* disagreement on the boot mode, nor a flashing machine on the main       *)
(* network.                                                                *)
THEOREM BootConsistent == Spec => []BootAndPortAgree
BY AlwaysIInv, InitBoot, NextBoot, PTL DEF Spec

-----------------------------------------------------------------------------
(* Reboots are performed on request only. *)

(* A new node has no reboot under way.                                     *)
LEMMA InitReboots == Init => RebootsCovered
BY DEF Init, RebootsCovered, AtAgent, AtMachine, AtNode

(* What the three counts depend on. *)
LEMMA RebootsFrame ==
    ASSUME RebootsCovered, UNCHANGED <<pm, apm, credit>>,
           machine'.target = machine.target, node'.target = node.target
    PROVE  RebootsCovered'
BY DEF RebootsCovered, AtAgent, AtMachine, AtNode

(* Each step that creates a reboot one level down takes it from the level  *)
(* above, and the hypervisor pays for each one it performs.                *)
LEMMA NextReboots == IInv /\ RebootsCovered /\ [Next]_vars => RebootsCovered'
<1> SUFFICES ASSUME IInv, RebootsCovered, [Next]_vars PROVE RebootsCovered'
  OBVIOUS
<1> USE DEF AtAgent, AtMachine, AtNode
<1>0. credit \in Int /\ machine \in MachineRows /\ node \in NodeRows
  BY DEF IInv, TypeOK
<1>1. ASSUME NEW w \in Workers, SetTargetPowerState(w) PROVE RebootsCovered'
  <2>1. UNCHANGED <<pm, apm, machine>> BY <1>1 DEF SetTargetPowerState, plane
  <2>2. \/ node' = node /\ credit' = credit
        \/ node'.target = "REBOOT" /\ credit' = credit + 1
        \/ node'.target # "REBOOT" /\ credit' = credit
    BY <1>0, <1>1 DEF SetTargetPowerState, NodeRows
  <2>3. QED BY <1>0, <2>1, <2>2 DEF RebootsCovered
<1>2. ASSUME NEW i \in Images, UpdateNode(i) PROVE RebootsCovered'
  <2>1. node'.target = node.target BY <1>0, <1>2 DEF UpdateNode, NodeRows
  <2>2. QED BY <1>2, <2>1, RebootsFrame DEF UpdateNode, plane
<1>3. ASSUME UNCHANGED <<apm, credit>>, node'.target = node.target,
             machine'.target = machine.target, pm' # None,
             pm'.power = machine.target
      PROVE  RebootsCovered'
  BY <1>0, <1>3 DEF RebootsCovered
<1>4. CASE RunStage
  <2>1. UNCHANGED <<apm, credit>> BY <1>4 DEF RunStage, plane
  <2>2. ASSUME NEW way \in Ways, BuildDerivatives(way) PROVE RebootsCovered'
    <3>1. pm' = PoolMachine([machine EXCEPT !.boot = way.boot, !.image = mvol], way.net)
      BY <2>2 DEF BuildDerivatives
    <3>2. pm'.power = machine.target /\ pm' # None
      <4>1. pm'.power = machine.target BY <1>0, <3>1 DEF PoolMachine, MachineRows
      <4>2. pm' \in PoolMachines
        BY <1>0, <3>1, WayTypes DEF PoolMachine, IInv, TypeOK, MachineRows,
                          PoolMachines
      <4>3. QED BY <4>1, <4>2
    <3>3. machine'.target = machine.target /\ node' = node
      BY <1>0, <2>2 DEF BuildDerivatives, MachineRows
    <3>4. QED BY <1>3, <2>1, <3>2, <3>3
  <2>3. CASE ActualizeOutdated
    <3>1. IInv' BY NextIInv
    <3> DEFINE m == IF Flashed THEN [machine EXCEPT !.boot = "hd0"] ELSE machine
    <3>2. m.target = machine.target /\ DOMAIN m = DOMAIN machine
      BY <1>0 DEF MachineRows
    <3>3. ActualizeMachineStatus(m).target = machine.target
          /\ DOMAIN ActualizeMachineStatus(m) = DOMAIN machine
      BY <1>0, <3>2 DEF ActualizeMachineStatus, MachineRows
    <3>4. machine'.target = machine.target
      BY <1>0, <2>3, <3>3 DEF ActualizeOutdated, MachineRows
    <3>5. pm' = (IF Flashed THEN PoolMachine(m, "main_net") ELSE pm) /\ pm # None
          /\ node' = node /\ gm' # None
      <4>1. pm' = (IF Flashed THEN PoolMachine(m, "main_net") ELSE pm) /\ pm # None
            /\ node' = node
        BY <2>3 DEF ActualizeOutdated
      <4>2. gm \in GuestMachines /\ gm' = (IF Flashed THEN [gm EXCEPT !.boot = "hd0"] ELSE gm)
        BY <2>3 DEF ActualizeOutdated, IInv, TypeOK, Born
      <4>3. gm' \in GuestMachines BY <4>2 DEF GuestMachines, Boots
      <4>4. QED BY <4>1, <4>3
    <3>6. pm' # None BY <3>1, <3>5 DEF IInv, Born
    <3>7. CASE Flashed
      <4>1. pm'.power = machine.target BY <3>2, <3>5, <3>7 DEF PoolMachine
      <4>2. QED BY <1>3, <2>1, <3>4, <3>5, <3>6, <4>1
    <3>8. CASE ~Flashed BY <2>1, <3>4, <3>5, <3>8, RebootsFrame
    <3>9. QED BY <3>7, <3>8
  <2>4. CASE CreateNodeResource
    <3>1. node'.target = node.target /\ machine'.target = machine.target
      BY <1>0, <2>4 DEF CreateNodeResource, NodeRows, MachineRows
    <3>2. QED BY <2>1, <2>4, <3>1, RebootsFrame DEF CreateNodeResource
  <2>5. CASE UpdateNodeResource
    <3>1. node'.target = node.target /\ pm' = pm
          /\ (machine'.target = machine.target \/ machine'.target = node.target)
      BY <1>0, <2>5 DEF UpdateNodeResource, NodeRows, MachineRows
    <3>2. QED BY <1>0, <2>1, <3>1 DEF RebootsCovered
  <2>6. CASE TrackMachine
    <3>1. pm' = pm
      BY <2>6 DEF TrackMachine
    <3>2. \/ node'.target = node.target /\ machine'.target = machine.target
          \/ node'.target = "ON" /\ machine'.target = "ON"
      BY <1>0, <2>6 DEF TrackMachine, TargetAfterTrack, NodeRows, MachineRows
    <3>3. QED BY <1>0, <2>1, <3>1, <3>2 DEF RebootsCovered
  <2>7. CASE UpdateMachineVolume
    BY <2>1, <2>7, RebootsFrame DEF UpdateMachineVolume
  <2>8. QED
    BY <1>4, <2>2, <2>3, <2>4, <2>5, <2>6, <2>7
       DEF RunStage, Work, CreateMachine, UpdateMachine, WayOnCreate,
           WayOnUpdate, ToBeFlashed, Ways
<1>5. CASE PoolAgent
  <2>1. pm \in PoolMachines /\ UNCHANGED <<pm, machine, node>>
        /\ apm' = PoolReport
        /\ credit' = IF Reboots THEN credit - 1 ELSE credit
    BY <1>5 DEF PoolAgent, rows, IInv, TypeOK
  <2>2. PoolReport.power = PowerReached(pm.power) /\ PoolReport # None
    <3>1. IInv' /\ PoolReport \in PoolReports
      BY <1>5, NextIInv DEF PoolReport, PoolAgent, PowerReached, PoolReports,
         PoolMachines, IInv, TypeOK, Targets, Powers, Statuses
    <3>2. QED BY <3>1 DEF PoolReport
  <2>3. QED BY <1>0, <2>1, <2>2 DEF RebootsCovered, Reboots, PowerReached
<1>6. ASSUME NEW st \in {"NEW", "ERROR"}, AgentFails(st) PROVE RebootsCovered'
  <2>1. UNCHANGED <<pm, machine, node, credit>> BY <1>6 DEF AgentFails, rows
  <2>2. IInv' BY NextIInv
  <2>3. \/ apm' = apm
        \/ apm \in PoolReports /\ apm' \in PoolReports /\ apm'.power = apm.power
    BY <1>6, <2>2 DEF AgentFails, PoolReports, IInv, TypeOK, Statuses
  <2>4. QED BY <1>0, <2>1, <2>3 DEF RebootsCovered
<1>7. CASE UNCHANGED <<pm, apm, credit, machine, node>>
  BY <1>7, RebootsFrame
<1>8. QED
  BY <1>1, <1>2, <1>4, <1>5, <1>6, <1>7 DEF Next, LoadNode, ActivatePort,
     IdleStage, SkipService, FlashImage, BootFromDisk, Report, rows, plane,
     vars

(* An accepted reboot request causes at most one reboot, whatever the      *)
(* order of API requests, builder stages, roll backs and agent reports.    *)
THEOREM RebootsOnlyOnRequest == Spec => []RebootOnlyOnRequest
<1>1. IInv /\ RebootsCovered => RebootOnlyOnRequest
  BY DEF IInv, TypeOK, RebootsCovered, RebootOnlyOnRequest, AtAgent, AtMachine,
         AtNode
<1>2. QED BY <1>1, AlwaysIInv, InitReboots, NextReboots, PTL DEF Spec

-----------------------------------------------------------------------------
(* What a settled client may rely on.                                      *)

(* Every client waits for the node to be shown ACTIVE before it sends a    *)
(* request, and either no image update or no fault comes.                  *)
Patient ==
    \A s \in Scenarios : s.client = "settled" /\ (s.image = 0 \/ s.fault = 0)

(* A node nobody could send a request for yet.                             *)
Quiet ==
    /\ ~node.dirty /\ ~machine.dirty /\ node.status # "ACTIVE"
    /\ node.target = "ON" /\ machine.target = "ON"
    /\ \A w \in Workers : req[w] = None

(* The node or the machine is shown ACTIVE, or a client that saw the node  *)
(* ACTIVE wrote an image that no builder has read yet.                     *)
Shown ==
    node.status = "ACTIVE" \/ machine.status = "ACTIVE" \/ node.image # vol.image

(* Nothing changes the power state: target, report and row agree.          *)
Steady ==
    /\ pm # None /\ apm # None /\ agm # None /\ ~machine.dirty
    /\ machine.target # "REBOOT"
    /\ pm.power = machine.target /\ apm.power = machine.target
    /\ machine.power = machine.target

(* What the rows owe each other on the way down and on the way up.         *)
RowsInv ==
    /\ env.client = "settled"
    /\ nres = None \/ agm = None => Quiet
    /\ nres = None => node.image = vol.image
    /\ nres # None => vol.image = nres
    /\ node.image # vol.image => node.dirty
    /\ stage = "pool_status" => ~machine.dirty
    /\ pm # None /\ ~machine.dirty => pm.power = machine.target
    /\ nres # None /\ ~node.dirty => node.target = machine.target
    /\ nres # None /\ machine.seen => node.power = machine.power
    /\ Shown => Steady

(* The guest reports what is on the disk, and never that it runs the       *)
(* target image while the target is to flash one.                          *)
GuestInv ==
    /\ agm # None => agm.image = disk
    /\ pm # None => gm.image = Resolve[machine.image]
    /\ gm # None /\ env.core => gm.boot = "hd0"
    /\ gm # None /\ gm.boot = "network" /\ agm # None =>
          agm.image # gm.image \/ agm.status # "ACTIVE"

(* The guest has left flashing and runs its target image.                  *)
RunsTarget ==
    /\ gm # None /\ gm.boot = "hd0"
    /\ agm # None /\ agm.image = gm.image /\ agm.status # "FLASHED"

(* An image was carried below the node and not to the guest yet.           *)
Carried == vol.image # mvol \/ (gm # None /\ gm.image # Resolve[mvol])

(* Without faults an image is only on its way while the guest runs the     *)
(* previous one, and the machine that it waits for is still to be built.   *)
NoFault ==
    /\ env.fault = 0
    /\ vol.image # mvol => vol.dirty
    /\ stage \in {"pool_spec", "pool_status", "node_spec"} => ~vol.dirty
    /\ Flashed => agm.image = gm.image
    /\ Carried => machine.dirty
    /\ Shown \/ Carried => RunsTarget

(* Without image updates there is one image everywhere.                    *)
SameImage ==
    /\ env.image = 0
    /\ node.image = mvol /\ vol.image = mvol /\ ~vol.dirty
    /\ gm # None => gm.image = Resolve[mvol]
    /\ disk # None => disk = Resolve[mvol]

(* The pool builder writes the machine and both derivatives at once.       *)
LEMMA BuildEffect ==
    ASSUME IInv, NEW way \in Ways, BuildDerivatives(way)
    PROVE  /\ UNCHANGED <<node, nres, vol, mvol>>
           /\ machine'.target = machine.target /\ machine'.power = machine.power
           /\ machine'.status = machine.status /\ machine'.image = mvol
           /\ ~machine'.dirty /\ ~machine'.seen
           /\ pm' # None /\ pm'.power = machine.target
           /\ gm' # None /\ gm'.image = Resolve[mvol] /\ gm'.boot = way.boot
<1>1. machine \in MachineRows /\ mvol \in Images BY DEF IInv, TypeOK
<1>2. pm' = PoolMachine([machine EXCEPT !.boot = way.boot, !.image = mvol], way.net)
  BY DEF BuildDerivatives
<1>3. pm'.power = machine.target /\ pm' \in PoolMachines
  BY <1>1, <1>2, WayTypes DEF PoolMachine, MachineRows, PoolMachines
<1>4. gm' = [image |-> Resolve[mvol], boot |-> way.boot] /\ gm' \in GuestMachines
  BY <1>1, WayTypes DEF BuildDerivatives, GuestMachines
<1>5. QED BY <1>1, <1>3, <1>4 DEF BuildDerivatives, MachineRows

(* The hook on reports: what it may make of the machine.                   *)
LEMMA ActualizeEffect ==
    ASSUME IInv, ActualizeOutdated
    PROVE  /\ UNCHANGED <<node, nres, vol, mvol>>
           /\ machine'.image = machine.image /\ machine'.target = machine.target
           /\ machine'.dirty <=> machine.dirty
           /\ machine'.seen => machine.seen /\ machine'.power = machine.power
           /\ \/ /\ apm = None \/ agm = None
                 /\ machine'.power = machine.power
                 /\ machine'.status = machine.status
              \/ /\ apm # None /\ agm # None /\ machine'.power = apm.power
                 /\ machine'.status = "ACTIVE" =>
                       /\ agm.status = "ACTIVE" /\ machine.target = apm.power
                       /\ agm.image = Resolve[machine.image]
           /\ pm # None /\ pm' # None
           /\ pm'.power = IF Flashed THEN machine.target ELSE pm.power
           /\ gm # None /\ gm' # None /\ gm'.image = gm.image
           /\ gm'.boot = IF Flashed THEN "hd0" ELSE gm.boot
<1> DEFINE m == IF Flashed THEN [machine EXCEPT !.boot = "hd0"] ELSE machine
           s == ActualizeMachineStatus(m)
<1>1. /\ machine \in MachineRows /\ pm # None /\ gm \in GuestMachines
      /\ UNCHANGED <<node, nres, vol, mvol>>
      /\ pm' = IF Flashed THEN PoolMachine(m, "main_net") ELSE pm
      /\ gm' = IF Flashed THEN [gm EXCEPT !.boot = "hd0"] ELSE gm
      /\ machine' = [s EXCEPT !.seen = (s = machine) /\ machine.seen]
  BY DEF ActualizeOutdated, IInv, TypeOK, Born
<1>2. /\ m \in MachineRows /\ m.image = machine.image /\ m.target = machine.target
      /\ m.power = machine.power /\ m.status = machine.status
      /\ m.dirty = machine.dirty
  BY <1>1 DEF MachineRows, Boots
<1>3. /\ MachineStatus(m) \in Statuses
      /\ MachineStatus(m) = "ACTIVE" =>
            /\ agm.status = "ACTIVE" /\ m.target = apm.power
            /\ agm.image = Resolve[m.image]
  BY DEF MachineStatus, Statuses
<1> HIDE DEF m
<1>4. /\ s \in [DOMAIN m -> UNION {Images, {None}, Boots, Targets, Powers, Statuses, BOOLEAN}]
      /\ s.image = m.image /\ s.target = m.target /\ s.dirty = m.dirty
      /\ \/ (apm = None \/ agm = None) /\ s.power = m.power /\ s.status = m.status
         \/ /\ apm # None /\ agm # None /\ s.power = apm.power
            /\ s.status = MachineStatus(m)
  BY <1>2, <1>3 DEF ActualizeMachineStatus, MachineRows, IInv, TypeOK, PoolReports
<1> HIDE DEF s
<1>5. /\ machine'.image = s.image /\ machine'.target = s.target
      /\ machine'.dirty = s.dirty /\ machine'.power = s.power
      /\ machine'.status = s.status
      /\ machine'.seen = ((s = machine) /\ machine.seen)
  BY <1>1, <1>2, <1>4 DEF MachineRows
<1>6. machine'.seen => machine.seen /\ machine'.power = machine.power
  BY <1>5
<1>7. gm' # None /\ gm'.image = gm.image /\ gm'.boot = IF Flashed THEN "hd0" ELSE gm.boot
  <2>1. gm' \in GuestMachines BY <1>1 DEF GuestMachines, Boots
  <2>2. QED BY <1>1, <2>1 DEF GuestMachines
<1>8. pm' # None /\ pm'.power = IF Flashed THEN machine.target ELSE pm.power
  <2>1. CASE Flashed
    <3>1. pm' = PoolMachine(m, "main_net") BY <1>1, <2>1
    <3>2. machine.image \in Images BY <1>1 DEF IInv, Born
    <3>3. PoolMachine(m, "main_net") \in PoolMachines
      BY <1>2, <3>2 DEF PoolMachine, MachineRows, PoolMachines
    <3>4. QED BY <1>2, <2>1, <3>1, <3>3 DEF PoolMachine
  <2>2. QED BY <1>1, <2>1
<1>9. QED BY <1>1, <1>2, <1>3, <1>4, <1>5, <1>6, <1>7, <1>8

(* The node builder, each of its three operations.                         *)
LEMMA CreateEffect ==
    ASSUME IInv, CreateNodeResource
    PROVE  /\ UNCHANGED <<vol, mvol, pm, gm>>
           /\ nres = None /\ nres' = node.image /\ nres' # None
           /\ node'.image = node.image /\ node'.target = node.target
           /\ node'.power = node.power /\ node'.status = node.status
           /\ ~node'.dirty
           /\ machine'.image = machine.image /\ machine'.target = machine.target
           /\ machine'.power = machine.power /\ machine'.status = machine.status
           /\ machine'.dirty <=> machine.dirty
           /\ ~machine'.seen
<1>1. node \in NodeRows /\ machine \in MachineRows BY DEF IInv, TypeOK
<1>2. QED BY <1>1 DEF CreateNodeResource, NodeRows, MachineRows

LEMMA UpdateEffect ==
    ASSUME IInv, UpdateNodeResource
    PROVE  /\ UNCHANGED <<mvol, pm, gm>>
           /\ nres # None /\ node.dirty /\ nres' = node.image /\ nres' # None
           /\ node'.image = node.image /\ node'.target = node.target
           /\ node'.power = node.power /\ ~node'.dirty
           /\ \/ node.image = nres /\ vol' = vol
              \/ node.image # nres /\ vol'.image = node.image /\ vol'.dirty
           /\ \/ /\ machine'.image = machine.image /\ machine'.target = node.target
                 /\ machine'.power = machine.power
                 /\ machine'.status = "IN_PROGRESS" /\ node'.status = "IN_PROGRESS"
                 /\ machine'.dirty /\ ~machine'.seen
              \/ /\ node.image = nres /\ machine.target = node.target
                 /\ machine' = machine /\ node'.status = machine.status
<1>1. /\ node \in NodeRows /\ machine \in MachineRows
      /\ vol \in [image : Images, dirty : BOOLEAN]
  BY DEF IInv, TypeOK
<1>2. /\ UNCHANGED <<mvol, pm, gm>>
      /\ nres # None /\ node.dirty /\ nres' = node.image /\ nres' # None
      /\ node'.image = node.image /\ node'.target = node.target
      /\ node'.power = node.power /\ ~node'.dirty
  BY <1>1 DEF UpdateNodeResource, NodeRows
<1>3. \/ node.image = nres /\ vol' = vol
      \/ node.image # nres /\ vol'.image = node.image /\ vol'.dirty
  BY <1>1 DEF UpdateNodeResource
<1>4. CASE node.image # nres \/ machine.target # node.target
  <2>1. machine' = [machine EXCEPT !.target = node.target, !.status = "IN_PROGRESS",
                                   !.dirty = TRUE, !.seen = FALSE]
        /\ node' = [node EXCEPT !.dirty = FALSE, !.status = "IN_PROGRESS"]
    BY <1>4, Zenon DEF UpdateNodeResource
  <2>2. QED BY <1>1, <1>2, <1>3, <2>1 DEF NodeRows, MachineRows
<1>5. CASE ~(node.image # nres \/ machine.target # node.target)
  <2>1. machine' = machine
        /\ node' = [node EXCEPT !.dirty = FALSE, !.status = machine.status]
    BY <1>5, Zenon DEF UpdateNodeResource
  <2>2. QED BY <1>1, <1>2, <1>3, <1>5, <2>1 DEF NodeRows
<1>6. QED BY <1>4, <1>5

LEMMA TrackEffect ==
    ASSUME IInv, TrackMachine
    PROVE  /\ UNCHANGED <<nres, vol, mvol, pm, gm>> /\ nres # None
           /\ node'.image = node.image /\ node'.power = machine.power
           /\ node'.status = machine.status
           /\ node'.dirty <=> node.dirty
           /\ machine'.image = machine.image /\ machine'.power = machine.power
           /\ \/ /\ machine.power = "REBOOTED" /\ node.target = "REBOOT"
                 /\ node'.target = "ON" /\ machine'.target = "ON"
                 /\ machine'.status = "IN_PROGRESS"
                 /\ machine'.dirty /\ ~machine'.seen
              \/ /\ node'.target = node.target /\ machine'.target = machine.target
                 /\ machine'.status = machine.status
                 /\ machine'.dirty <=> machine.dirty
<1>1. node \in NodeRows /\ machine \in MachineRows BY DEF IInv, TypeOK
<1>2. QED
  BY <1>1 DEF TrackMachine, TargetAfterTrack, RebootDone, NodeRows, MachineRows

(* A power action writes the row of a node it loaded, or nothing.          *)
LEMMA PowerEffect ==
    ASSUME IInv, NEW w \in Workers, SetTargetPowerState(w)
    PROVE  /\ UNCHANGED <<nres, vol, mvol, machine, pm, gm, apm, agm, disk, fresh,
                          stage, env>>
           /\ req[w] # None
           /\ \A v \in Workers : req[v] = None => req'[v] = None
           /\ node'.image = node.image /\ node'.power = node.power
           /\ node' = node \/ (node'.dirty /\ node'.status = "IN_PROGRESS")
<1>1. node \in NodeRows /\ req \in [Workers -> Requests \cup {None}]
  BY DEF IInv, TypeOK
<1>2. \/ node' = node
      \/ \E t : node' = [node EXCEPT !.target = t, !.status = "IN_PROGRESS",
                                     !.dirty = TRUE]
  BY DEF SetTargetPowerState
<1>3. /\ node'.image = node.image /\ node'.power = node.power
      /\ node' = node \/ (node'.dirty /\ node'.status = "IN_PROGRESS")
  BY <1>1, <1>2 DEF NodeRows
<1>4. QED BY <1>1, <1>3 DEF SetTargetPowerState, plane

(* An image update comes from a client that saw the node ACTIVE.           *)
LEMMA ImageEffect ==
    ASSUME IInv, RowsInv, NEW i \in Images, UpdateNode(i)
    PROVE  /\ UNCHANGED <<nres, vol, mvol, machine, pm, gm, apm, agm, disk, fresh,
                          stage, req>>
           /\ node.status = "ACTIVE" /\ node'.status = "IN_PROGRESS" /\ node'.dirty
           /\ node'.target = node.target /\ node'.power = node.power
           /\ node'.image = i
           /\ env.image > 0 /\ env'.fault = env.fault /\ env'.client = env.client
           /\ env'.core = env.core
<1>1. node \in NodeRows /\ env \in Envs BY DEF IInv, TypeOK
<1>2. QED
  BY <1>1 DEF UpdateNode, ClientReady, RowsInv, plane, NodeRows, Envs

-----------------------------------------------------------------------------
(* The rows. *)

(* A node that was just created owes nothing.                              *)
LEMMA InitRows == Patient /\ Init => RowsInv
BY DEF Patient, Init, RowsInv, Quiet, Shown, Steady

(* The pool builder keeps RowsInv: it builds a machine nobody is shown as  *)
(* ACTIVE, and reports make one ACTIVE only in the power state asked for.  *)
LEMMA PoolRows ==
    ASSUME IInv, RowsInv, UNCHANGED <<apm, agm, req, env>>,
           \/ stage' = "pool_status" /\ (CreateMachine \/ UpdateMachine)
           \/ stage = "pool_status" /\ stage' = "node_spec" /\ ActualizeOutdated
    PROVE  RowsInv'
<1>1. ASSUME NEW way \in Ways, BuildDerivatives(way),
             pm = None \/ machine.dirty
      PROVE  RowsInv'
  <2>1. ~Shown BY <1>1 DEF RowsInv, Steady
  <2>2. ~Shown' BY <1>1, <2>1, BuildEffect DEF Shown
  <2>3. QED BY <1>1, <2>2, BuildEffect DEF RowsInv, Quiet
<1>2. CASE stage' = "pool_status" /\ (CreateMachine \/ UpdateMachine)
  BY <1>1, <1>2 DEF CreateMachine, UpdateMachine, WayOnCreate, WayOnUpdate, ToBeFlashed, Ways
<1>3. CASE stage = "pool_status" /\ stage' = "node_spec" /\ ActualizeOutdated
  <2>1. ~machine.dirty /\ ~machine'.dirty
    BY <1>3, ActualizeEffect DEF RowsInv
  <2>2. pm'.power = machine.target /\ pm' # None
    BY <1>3, <2>1, ActualizeEffect DEF RowsInv
  <2>3. Shown' => Steady'
    <3>1. CASE Shown
      <4>1. Steady BY <3>1 DEF RowsInv
      <4>2. QED BY <1>3, <2>1, <2>2, <4>1, ActualizeEffect DEF Steady
    <3>2. CASE ~Shown
      <4>1. apm # None => apm.power # "REBOOT"
        BY DEF IInv, TypeOK, PoolReports, Powers
      <4>2. QED
        BY <1>3, <2>1, <2>2, <3>2, <4>1, ActualizeEffect DEF Shown, Steady
    <3>3. QED BY <3>1, <3>2
  <2>4. QED BY <1>3, <2>1, <2>2, <2>3, ActualizeEffect DEF RowsInv, Quiet
<1>4. QED BY <1>2, <1>3

(* The node and volume builders keep it: what changes the target of a      *)
(* machine withdraws ACTIVE, and a performed reboot never was ACTIVE.      *)
LEMMA NodeRowsInv ==
    ASSUME IInv, RowsInv, UNCHANGED <<apm, agm, req, env>>,
           stage' # "pool_status",
           \/ CreateNodeResource \/ UpdateNodeResource \/ TrackMachine
           \/ UpdateMachineVolume
    PROVE  RowsInv'
<1>1. CASE CreateNodeResource
  <2>1. Shown' => Steady'
    BY <1>1, CreateEffect DEF RowsInv, Shown, Steady
  <2>2. QED BY <1>1, <2>1, CreateEffect DEF RowsInv, Quiet
<1>2. CASE UpdateNodeResource
  <2>1. vol'.image = node.image BY <1>2, UpdateEffect DEF RowsInv
  <2>2. Shown' => Steady'
    BY <1>2, <2>1, UpdateEffect DEF RowsInv, Shown, Steady
  <2>3. nres # None /\ agm # None BY <1>2, UpdateEffect DEF RowsInv, Quiet
  <2>4. nres' # None /\ agm' # None BY <1>2, <2>3, UpdateEffect
  <2>5. machine'.seen => machine.seen /\ machine'.power = machine.power
    BY <1>2, UpdateEffect
  <2>6. node'.target = machine'.target /\ node'.power = node.power
    BY <1>2, UpdateEffect
  <2>7. pm' # None /\ ~machine'.dirty => pm'.power = machine'.target
    BY <1>2, UpdateEffect DEF RowsInv
  <2>8. node'.image = node.image /\ nres' = node.image BY <1>2, UpdateEffect
  <2>9. QED
    BY <2>1, <2>2, <2>3, <2>4, <2>5, <2>6, <2>7, <2>8 DEF RowsInv
<1>3. CASE TrackMachine
  <2>1. Steady => machine.power # "REBOOTED"
    BY DEF Steady, IInv, TypeOK, MachineRows, Targets
  <2>2. Shown' => Steady'
    BY <1>3, <2>1, TrackEffect DEF RowsInv, Shown, Steady
  <2>3. nres' = None \/ agm' = None => Quiet'
    BY <1>3, TrackEffect DEF RowsInv, Quiet, Shown, Steady
  <2>4. QED BY <1>3, <2>2, <2>3, TrackEffect DEF RowsInv
<1>4. CASE UpdateMachineVolume
  <2>1. /\ UNCHANGED <<node, nres, machine, pm>> /\ vol'.image = vol.image
    BY <1>4 DEF UpdateMachineVolume, IInv, TypeOK
  <2>2. QED BY <1>4, <2>1 DEF RowsInv, Quiet, Shown, Steady
<1>5. QED BY <1>1, <1>2, <1>3, <1>4

(* Requests keep it: a client only sends one for a node shown ACTIVE.      *)
LEMMA ApiRows ==
    ASSUME IInv, RowsInv,
           \/ \E w \in Workers : \/ \E t \in Targets : LoadNode(w, t)
                                 \/ SetTargetPowerState(w)
           \/ \E i \in Images : UpdateNode(i)
    PROVE  RowsInv'
<1>1. ASSUME NEW w \in Workers, NEW t \in Targets, LoadNode(w, t) PROVE RowsInv'
  <2>1. /\ UNCHANGED <<node, nres, vol, machine, pm, apm, agm, stage>>
        /\ env'.client = env.client /\ node.status = "ACTIVE"
    BY <1>1 DEF LoadNode, ClientReady, RowsInv, IInv, TypeOK, Envs, rows, plane
  <2>2. QED BY <2>1 DEF RowsInv, Quiet, Shown, Steady
<1>2. ASSUME NEW w \in Workers, SetTargetPowerState(w) PROVE RowsInv'
  <2>1. nres # None /\ agm # None BY <1>2, PowerEffect DEF RowsInv, Quiet
  <2>2. Shown' => Steady' BY <1>2, PowerEffect DEF RowsInv, Shown, Steady
  <2>3. QED BY <1>2, <2>1, <2>2, PowerEffect DEF RowsInv
<1>3. ASSUME NEW i \in Images, UpdateNode(i) PROVE RowsInv'
  <2>1. nres # None /\ agm # None BY <1>3, ImageEffect DEF RowsInv, Quiet
  <2>2. Shown' => Steady' BY <1>3, ImageEffect DEF RowsInv, Shown, Steady
  <2>3. QED BY <1>3, <2>1, <2>2, ImageEffect DEF RowsInv
<1>4. QED BY <1>1, <1>2, <1>3

(* What an agent may do to its report and to the disk.                     *)
LEMMA AgentEffect ==
    ASSUME IInv,
           \/ PoolAgent \/ FlashImage \/ BootFromDisk
           \/ \E st \in {"NEW", "ERROR"} : AgentFails(st)
    PROVE  /\ UNCHANGED <<node, nres, vol, mvol, machine, pm, gm, stage, req>>
           /\ env'.client = env.client /\ env'.image = env.image
           /\ env'.core = env.core
           /\ env' = env \/ env.fault # 0
           /\ \/ apm' = apm
              \/ apm' # None /\ pm # None /\ apm'.power = PowerReached(pm.power)
              \/ apm # None /\ apm' # None /\ apm'.power = apm.power
           /\ \/ agm' = agm /\ disk' = disk
              \/ /\ agm' # None /\ gm # None /\ disk' = agm'.image
                 /\ gm.boot = "network" /\ agm'.status = "FLASHED"
                 /\ agm'.image = gm.image
              \/ /\ agm' # None /\ gm # None /\ disk' = agm'.image
                 /\ gm.boot = "hd0" /\ agm'.status = "ACTIVE"
                 /\ IF env.core THEN disk' = gm.image ELSE disk' = disk
              \/ /\ agm # None /\ agm' # None /\ disk' = disk
                 /\ agm'.image = agm.image /\ agm'.status \in {"NEW", "ERROR"}
                 /\ env.fault # 0
<1>1. env \in Envs BY DEF IInv, TypeOK
<1>2. CASE PoolAgent
  <2>1. PoolReport \in PoolReports
    BY <1>2 DEF PoolAgent, PoolReport, PowerReached, PoolReports, PoolMachines,
                IInv, TypeOK, Targets, Powers, Statuses
  <2>2. QED BY <1>1, <1>2, <2>1 DEF PoolAgent, PoolReport, rows
<1>3. CASE FlashImage
  <2>1. gm \in GuestMachines
    BY <1>3 DEF FlashImage, Running, IInv, TypeOK, Born
  <2>2. agm' \in GuestReports /\ agm' = [image |-> gm.image, boot |-> "network",
                                         status |-> "FLASHED"]
    BY <1>3, <2>1 DEF FlashImage, Report, GuestReports, GuestMachines,
                      GuestStatuses, Boots
  <2>3. QED BY <1>3, <2>1, <2>2 DEF FlashImage, Report, rows
<1>4. CASE BootFromDisk
  <2>1. gm \in GuestMachines
    BY <1>4 DEF BootFromDisk, Running, IInv, TypeOK, Born
  <2>2. disk' \in Uris
    BY <1>4, <2>1 DEF BootFromDisk, IInv, TypeOK, GuestMachines
  <2>3. agm' \in GuestReports /\ agm' = [image |-> disk', boot |-> "hd0",
                                         status |-> "ACTIVE"]
    BY <1>4, <2>2 DEF BootFromDisk, Report, GuestReports, GuestStatuses,
                      Statuses, Boots
  <2>4. QED BY <1>4, <2>1, <2>3 DEF BootFromDisk, Report, rows
<1>5. ASSUME NEW st \in {"NEW", "ERROR"}, AgentFails(st)
      PROVE  /\ UNCHANGED <<node, nres, vol, mvol, machine, pm, gm, stage, req>>
             /\ env'.client = env.client /\ env'.image = env.image
             /\ env'.core = env.core /\ env.fault # 0 /\ disk' = disk
             /\ \/ apm' = apm
                \/ apm # None /\ apm' # None /\ apm'.power = apm.power
             /\ \/ agm' = agm
                \/ /\ agm # None /\ agm' # None /\ agm'.image = agm.image
                   /\ agm'.status \in {"NEW", "ERROR"}
  <2>1. IInv' BY <1>5, AgentIInv
  <2>2. /\ UNCHANGED <<node, nres, vol, mvol, machine, pm, gm, stage, req>>
        /\ env'.client = env.client /\ env'.image = env.image
        /\ env'.core = env.core /\ env.fault # 0 /\ disk' = disk
    BY <1>1, <1>5 DEF AgentFails, rows, Envs
  <2>3. \/ apm' = apm
        \/ apm # None /\ apm' # None /\ apm'.power = apm.power
    <3>1. \/ apm' = apm
          \/ apm \in PoolReports /\ apm' = [apm EXCEPT !.status = st]
      BY <1>5 DEF AgentFails, IInv, TypeOK
    <3>2. CASE apm \in PoolReports /\ apm' = [apm EXCEPT !.status = st]
      <4>1. apm' \in PoolReports BY <3>2 DEF PoolReports, Statuses
      <4>2. QED BY <3>2, <4>1 DEF PoolReports
    <3>3. QED BY <3>1, <3>2
  <2>4. \/ agm' = agm
        \/ /\ agm # None /\ agm' # None /\ agm'.image = agm.image
           /\ agm'.status \in {"NEW", "ERROR"}
    <3>1. \/ agm' = agm
          \/ agm \in GuestReports /\ agm' = [agm EXCEPT !.status = st]
      BY <1>5 DEF AgentFails, IInv, TypeOK
    <3>2. CASE agm \in GuestReports /\ agm' = [agm EXCEPT !.status = st]
      <4>1. agm' \in GuestReports
        BY <3>2 DEF GuestReports, GuestStatuses, Statuses
      <4>2. QED BY <3>2, <4>1 DEF GuestReports
    <3>3. QED BY <3>1, <3>2
  <2>5. QED BY <2>2, <2>3, <2>4
<1>6. QED BY <1>2, <1>3, <1>4, <1>5

(* Reports keep it: the pool agent only ever reaches the state asked for.  *)
LEMMA AgentRows ==
    ASSUME IInv, RowsInv,
           \/ PoolAgent \/ FlashImage \/ BootFromDisk
           \/ \E st \in {"NEW", "ERROR"} : AgentFails(st)
    PROVE  RowsInv'
<1>1. Shown' => Steady'
  BY AgentEffect DEF RowsInv, Shown, Steady, PowerReached
<1>2. agm' = None => agm = None BY AgentEffect
<1>3. QED BY <1>1, <1>2, AgentEffect DEF RowsInv, Quiet

(* Every step keeps RowsInv.                                               *)
LEMMA NextRows == IInv /\ RowsInv /\ [Next]_vars => RowsInv'
<1> SUFFICES ASSUME IInv, RowsInv, [Next]_vars PROVE RowsInv' OBVIOUS
<1>1. CASE RunStage
  <2>1. UNCHANGED <<apm, agm, req, env>> /\ stage' = After[stage]
    BY <1>1 DEF RunStage, plane
  <2>2. After["pool_spec"] = "pool_status" /\ After["pool_status"] = "node_spec"
        /\ After["node_spec"] = "node_track" /\ After["node_track"] = "vol_spec"
        /\ After["vol_spec"] = "pool_spec"
    BY DEF After, Stages
  <2>3. QED BY <1>1, <2>1, <2>2, PoolRows, NodeRowsInv DEF RunStage, Work
<1>2. CASE IdleStage
  <2>1. /\ UNCHANGED <<node, nres, vol, machine, pm, apm, agm, req, env>>
        /\ stage' = After[stage] /\ ~Due[stage] /\ stage \in Stages
    BY <1>2 DEF IdleStage, rows, plane, IInv, TypeOK
  <2>2. stage' = "pool_status" => ~machine.dirty
    <3>1. SUFFICES ASSUME stage' = "pool_status" PROVE ~machine.dirty OBVIOUS
    <3>2. stage = "pool_spec" BY <2>1, <3>1 DEF After, Stages
    <3>3. pm # None => ~machine.dirty BY <2>1, <3>2 DEF Due, Stages
    <3>4. pm = None => agm = None BY DEF IInv, Born
    <3>5. QED BY <3>3, <3>4 DEF RowsInv, Quiet
  <2>3. QED BY <2>1, <2>2 DEF RowsInv, Quiet, Shown, Steady
<1>3. CASE SkipService
  <2>1. /\ UNCHANGED <<node, nres, vol, machine, pm, apm, agm, req>>
        /\ stage' # "pool_status" /\ env'.client = env.client
    BY <1>3 DEF SkipService, rows, plane, IInv, TypeOK, Envs
  <2>2. QED BY <2>1 DEF RowsInv, Quiet, Shown, Steady
<1>4. CASE ActivatePort \/ UNCHANGED vars
  <2>1. UNCHANGED <<node, nres, vol, machine, pm, apm, agm, req, stage, env>>
    BY <1>4 DEF ActivatePort, rows, plane, vars
  <2>2. QED BY <2>1 DEF RowsInv, Quiet, Shown, Steady
<1>5. QED BY <1>1, <1>2, <1>3, <1>4, ApiRows, AgentRows DEF Next

-----------------------------------------------------------------------------
(* The guest and its disk. *)

(* When a machine is built to boot from its disk, and when from the        *)
(* network.                                                                *)
LEMMA BuildBoot ==
    ASSUME IInv, CreateMachine \/ UpdateMachine
    PROVE  \E way \in Ways :
              /\ BuildDerivatives(way)
              /\ pm = None \/ machine.dirty
              /\ env.core => way.boot = "hd0"
              /\ way.boot = "network" /\ agm # None => agm.image # Resolve[mvol]
              /\ way.boot = "hd0" /\ ~env.core =>
                    machine.dirty /\ (agm = None \/ agm.image = Resolve[mvol])
<1>1. env.core \in BOOLEAN BY DEF IInv, TypeOK, Envs
<1>2. CASE CreateMachine
  <2>1. agm = None BY <1>2 DEF CreateMachine, IInv, Born
  <2>2. WayOnCreate \in Ways /\ BuildDerivatives(WayOnCreate) /\ pm = None
    BY <1>2 DEF CreateMachine, WayOnCreate, Ways
  <2>3. QED BY <1>1, <2>1, <2>2 DEF WayOnCreate, OverNetwork, FromDisk
<1>3. CASE UpdateMachine
  <2>1. WayOnUpdate \in Ways /\ BuildDerivatives(WayOnUpdate) /\ machine.dirty
    BY <1>3 DEF UpdateMachine, WayOnUpdate, ToBeFlashed, Ways
  <2>2. QED BY <1>1, <2>1 DEF WayOnUpdate, ToBeFlashed, OverNetwork, FromDisk
<1>4. QED BY <1>2, <1>3

(* Steps outside the builders and agents leave machine, derivatives and    *)
(* reports alone, and nothing moves a node in or out of the core set.      *)
LEMMA OtherEffect ==
    ASSUME IInv,
           \/ \E w \in Workers : \/ \E t \in Targets : LoadNode(w, t)
                                 \/ SetTargetPowerState(w)
           \/ \E i \in Images : UpdateNode(i)
           \/ ActivatePort \/ IdleStage \/ SkipService \/ UNCHANGED vars
    PROVE  /\ UNCHANGED <<machine, vol, mvol, pm, gm, apm, agm, disk>>
           /\ env'.core = env.core
<1>1. env \in Envs BY DEF IInv, TypeOK
<1>2. UNCHANGED <<machine, vol, mvol, pm, gm, apm, agm, disk>>
  BY DEF LoadNode, SetTargetPowerState, UpdateNode, ActivatePort, IdleStage,
         SkipService, rows, plane, vars
<1>3. env'.core = env.core
  BY <1>1 DEF LoadNode, SetTargetPowerState, UpdateNode, ActivatePort, IdleStage,
         SkipService, vars, Envs
<1>4. QED BY <1>2, <1>3

(* A node that was just created has no guest.                              *)
LEMMA InitGuest == Init => GuestInv /\ BootsWhatWasFlashed
BY DEF Init, GuestInv, BootsWhatWasFlashed

(* Flashing starts when the guest runs another image, so a guest told to   *)
(* flash never reports that it runs the target.                            *)
LEMMA NextGuest == IInv /\ GuestInv /\ [Next]_vars => GuestInv'
<1> SUFFICES ASSUME IInv, GuestInv, [Next]_vars PROVE GuestInv' OBVIOUS
<1>1. CASE RunStage
  <2>1. UNCHANGED <<apm, agm, disk, env>> BY <1>1 DEF RunStage, plane
  <2>2. CASE CreateMachine \/ UpdateMachine
    BY <2>1, <2>2, BuildBoot, BuildEffect DEF GuestInv
  <2>3. CASE ActualizeOutdated
    BY <2>1, <2>3, ActualizeEffect DEF GuestInv
  <2>4. CASE CreateNodeResource \/ UpdateNodeResource \/ TrackMachine
    <3>1. UNCHANGED <<pm, gm>> /\ machine'.image = machine.image
      BY <2>4, CreateEffect, UpdateEffect, TrackEffect
    <3>2. QED BY <2>1, <3>1 DEF GuestInv
  <2>5. CASE UpdateMachineVolume
    BY <2>1, <2>5 DEF UpdateMachineVolume, GuestInv
  <2>6. QED BY <1>1, <2>2, <2>3, <2>4, <2>5 DEF RunStage, Work
<1>2. CASE \/ PoolAgent \/ FlashImage \/ BootFromDisk
           \/ \E st \in {"NEW", "ERROR"} : AgentFails(st)
  BY <1>2, AgentEffect DEF GuestInv
<1>3. CASE UNCHANGED <<machine, pm, gm, agm, disk>> /\ env'.core = env.core
  BY <1>3 DEF GuestInv
<1>4. QED BY <1>1, <1>2, <1>3, OtherEffect DEF Next

(* Where no image update comes, every row, derivative and disk keeps the   *)
(* image the node was created with.                                        *)
LEMMA NextSameImage ==
    IInv /\ RowsInv /\ GuestInv /\ SameImage /\ [Next]_vars => SameImage'
<1> SUFFICES ASSUME IInv, RowsInv, GuestInv, SameImage, [Next]_vars
             PROVE  SameImage'
  OBVIOUS
<1>1. CASE RunStage
  <2>1. UNCHANGED <<disk, env>> BY <1>1 DEF RunStage, plane
  <2>2. CASE CreateMachine \/ UpdateMachine
    BY <2>1, <2>2, BuildBoot, BuildEffect DEF SameImage
  <2>3. CASE ActualizeOutdated
    BY <2>1, <2>3, ActualizeEffect DEF SameImage
  <2>4. CASE CreateNodeResource \/ UpdateNodeResource \/ TrackMachine
    <3>1. UNCHANGED <<vol, mvol, gm>> /\ node'.image = node.image
      BY <2>4, CreateEffect, UpdateEffect, TrackEffect DEF SameImage, RowsInv
    <3>2. QED BY <2>1, <3>1 DEF SameImage
  <2>5. CASE UpdateMachineVolume
    BY <2>5 DEF UpdateMachineVolume, SameImage
  <2>6. QED BY <1>1, <2>2, <2>3, <2>4, <2>5 DEF RunStage, Work
<1>2. CASE \/ PoolAgent \/ FlashImage \/ BootFromDisk
           \/ \E st \in {"NEW", "ERROR"} : AgentFails(st)
  BY <1>2, AgentEffect DEF SameImage
<1>3. ASSUME NEW i \in Images, UpdateNode(i) PROVE FALSE
  BY <1>3 DEF UpdateNode, SameImage
<1>4. CASE /\ UNCHANGED <<vol, mvol, gm, disk>> /\ node'.image = node.image
           /\ env'.image = env.image
  BY <1>4 DEF SameImage
<1>5. ASSUME NEW w \in Workers,
             (\E t \in Targets : LoadNode(w, t)) \/ SetTargetPowerState(w)
      PROVE  node'.image = node.image /\ env'.image = env.image
  BY <1>5, PowerEffect DEF LoadNode, rows, IInv, TypeOK, Envs
<1>6. CASE ActivatePort \/ IdleStage \/ SkipService \/ UNCHANGED vars
  BY <1>6 DEF ActivatePort, IdleStage, SkipService, rows, vars, IInv, TypeOK, Envs,
              SameImage, plane
<1>7. QED BY <1>1, <1>2, <1>3, <1>4, <1>5, <1>6, OtherEffect DEF Next

(* Without faults, the pool builder: a volume is copied before the next    *)
(* pass builds the machine, and what it builds is no longer shown ACTIVE.  *)
LEMMA PoolNoFault ==
    ASSUME IInv, RowsInv, GuestInv, NoFault, UNCHANGED <<apm, agm, disk, env>>,
           \/ stage = "pool_spec" /\ (CreateMachine \/ UpdateMachine)
           \/ stage = "pool_status" /\ ActualizeOutdated
    PROVE  NoFault'
<1>1. ~vol.dirty /\ vol.image = mvol BY DEF NoFault
<1>2. CASE CreateMachine \/ UpdateMachine
  <2>1. PICK way \in Ways : BuildDerivatives(way) /\ (pm = None \/ machine.dirty)
    BY <1>2, BuildBoot
  <2>2. ~Shown' /\ ~Carried'
    BY <1>1, <2>1, BuildEffect DEF RowsInv, Steady, Shown, Carried
  <2>3. Flashed' => agm'.image = gm'.image
    <3>1. SUFFICES ASSUME Flashed PROVE agm.image = Resolve[mvol]
      BY <2>1, BuildEffect DEF Flashed
    <3>2. agm # None /\ gm # None /\ agm.status = "FLASHED"
      BY <3>1 DEF Flashed, IInv, Born
    <3>3. ~Carried BY <3>2 DEF NoFault, RunsTarget
    <3>4. QED BY <3>1, <3>2, <3>3 DEF NoFault, Carried
  <2>4. UNCHANGED <<vol, mvol>> BY <2>1, BuildEffect
  <2>5. QED BY <1>1, <2>2, <2>3, <2>4 DEF NoFault
<1>3. CASE ActualizeOutdated
  <2>1. Carried' <=> Carried BY <1>3, ActualizeEffect DEF Carried
  <2>2. Flashed' => agm'.image = gm'.image
    BY <1>3, ActualizeEffect DEF Flashed, NoFault
  <2>3. Shown' \/ Carried' => RunsTarget'
    <3>1. CASE Shown \/ Carried
      BY <1>3, <3>1, ActualizeEffect DEF NoFault, RunsTarget, Flashed
    <3>2. CASE ~Shown /\ ~Carried /\ Shown'
      <4>1. /\ agm # None /\ agm.status = "ACTIVE"
            /\ agm.image = Resolve[machine.image] /\ pm # None /\ gm # None
        BY <1>3, <3>2, ActualizeEffect DEF Shown
      <4>2. ~Flashed /\ agm.image = gm.image
        BY <4>1 DEF Flashed, GuestInv
      <4>3. gm.boot = "hd0"
        BY <4>1, <4>2 DEF GuestInv, IInv, TypeOK, GuestMachines, Boots
      <4>4. QED BY <1>3, <4>1, <4>2, <4>3, ActualizeEffect DEF RunsTarget
    <3>3. QED BY <2>1, <3>1, <3>2
  <2>4. UNCHANGED <<vol, mvol>> /\ (machine'.dirty <=> machine.dirty)
    BY <1>3, ActualizeEffect
  <2>5. QED BY <1>1, <2>1, <2>2, <2>3, <2>4 DEF NoFault
<1>4. QED BY <1>2, <1>3

(* The node and volume builders: an image they carry down was written      *)
(* while the guest ran the previous one.                                   *)
LEMMA NodeNoFault ==
    ASSUME IInv, RowsInv, NoFault, UNCHANGED <<apm, agm, disk, env>>,
           \/ /\ stage' = "node_track"
              /\ CreateNodeResource \/ UpdateNodeResource
           \/ stage = "node_track" /\ stage' = "vol_spec" /\ TrackMachine
           \/ UpdateMachineVolume
    PROVE  NoFault'
<1>1. CASE stage' = "node_track" /\ CreateNodeResource
  <2>1. /\ UNCHANGED <<vol, mvol, gm>> /\ (machine'.dirty <=> machine.dirty)
        /\ Shown' <=> Shown
    BY <1>1, CreateEffect DEF Shown
  <2>2. QED BY <1>1, <2>1 DEF NoFault, Carried, RunsTarget, Flashed
<1>2. CASE stage' = "node_track" /\ UpdateNodeResource
  <2>1. Shown' => Shown BY <1>2, UpdateEffect DEF Shown, RowsInv
  <2>2. Carried' => machine'.dirty /\ (Shown \/ Carried)
    BY <1>2, UpdateEffect DEF Shown, Carried, RowsInv, NoFault
  <2>3. UNCHANGED <<mvol, gm>> BY <1>2, UpdateEffect
  <2>4. vol'.image # mvol' => vol'.dirty BY <1>2, UpdateEffect DEF NoFault
  <2>5. QED BY <1>2, <2>1, <2>2, <2>3, <2>4 DEF NoFault, RunsTarget, Flashed
<1>3. CASE stage' = "vol_spec" /\ TrackMachine
  <2>1. /\ UNCHANGED <<vol, mvol, gm>> /\ (machine.dirty => machine'.dirty)
        /\ Shown' => Shown
    BY <1>3, TrackEffect DEF Shown
  <2>2. QED BY <1>3, <2>1 DEF NoFault, Carried, RunsTarget, Flashed
<1>4. CASE UpdateMachineVolume
  <2>1. /\ UNCHANGED <<node, machine, gm>> /\ mvol' = vol.image
        /\ vol'.image = vol.image /\ ~vol'.dirty
    BY <1>4 DEF UpdateMachineVolume, IInv, TypeOK
  <2>2. (Carried' => Carried) /\ (Shown' <=> Shown)
    BY <2>1 DEF Carried, Shown
  <2>3. QED BY <2>1, <2>2 DEF NoFault, RunsTarget, Flashed
<1>5. QED BY <1>1, <1>2, <1>3, <1>4

(* Without faults no image update overtakes the flashing of another.       *)
LEMMA NextNoFault ==
    IInv /\ RowsInv /\ GuestInv /\ NoFault /\ [Next]_vars => NoFault'
<1> SUFFICES ASSUME IInv, RowsInv, GuestInv, NoFault, [Next]_vars PROVE NoFault'
  OBVIOUS
<1>0. env \in Envs /\ stage \in Stages BY DEF IInv, TypeOK
<1>1. CASE RunStage
  <2>1. UNCHANGED <<apm, agm, disk, env>> /\ stage' = After[stage]
    BY <1>1 DEF RunStage, plane
  <2>2. After["node_spec"] = "node_track" /\ After["node_track"] = "vol_spec"
    BY DEF After, Stages
  <2>3. QED BY <1>1, <2>1, <2>2, PoolNoFault, NodeNoFault DEF RunStage, Work
<1>2. CASE IdleStage
  <2>1. /\ UNCHANGED <<node, vol, mvol, machine, gm, agm, env>>
        /\ stage' = After[stage] /\ ~Due[stage]
    BY <1>2 DEF IdleStage, rows, plane
  <2>2. stage' \in {"pool_spec", "pool_status", "node_spec"} => ~vol.dirty
    BY <1>0, <2>1 DEF NoFault, After, Due, Stages
  <2>3. QED BY <2>1, <2>2 DEF NoFault, Shown, Carried, RunsTarget, Flashed
<1>3. CASE \/ PoolAgent \/ FlashImage \/ BootFromDisk
           \/ \E st \in {"NEW", "ERROR"} : AgentFails(st)
  <2>1. UNCHANGED <<node, vol, mvol, machine, gm, stage, env>>
    BY <1>3, AgentEffect DEF NoFault
  <2>2. (Shown' <=> Shown) /\ (Carried' <=> Carried)
    BY <2>1 DEF Shown, Carried
  <2>3. RunsTarget => RunsTarget'
    BY <1>3, <2>1, AgentEffect DEF RunsTarget, GuestInv
  <2>4. Flashed' => agm'.image = gm'.image
    BY <1>3, <2>1, AgentEffect DEF Flashed, NoFault
  <2>5. QED BY <2>1, <2>2, <2>3, <2>4 DEF NoFault
<1>4. CASE SkipService BY <1>4 DEF SkipService, NoFault
<1>5. CASE \/ \E w \in Workers : \/ \E t \in Targets : LoadNode(w, t)
                                 \/ SetTargetPowerState(w)
           \/ \E i \in Images : UpdateNode(i)
           \/ ActivatePort \/ UNCHANGED vars
  <2>1. UNCHANGED <<vol, mvol, machine, gm, agm>> BY <1>5, OtherEffect
  <2>2. stage' = stage /\ env'.fault = env.fault
    BY <1>0, <1>5 DEF LoadNode, SetTargetPowerState, UpdateNode, ActivatePort,
       vars, Envs
  <2>3. Shown' => Shown
    <3>1. CASE \E w \in Workers : SetTargetPowerState(w)
      BY <3>1, PowerEffect DEF Shown
    <3>2. CASE \E i \in Images : UpdateNode(i)
      BY <3>2, ImageEffect DEF Shown
    <3>3. QED
      BY <1>5, <3>1, <3>2 DEF Shown, LoadNode, ActivatePort, rows, vars
  <2>4. QED BY <2>1, <2>2, <2>3 DEF NoFault, Carried, RunsTarget, Flashed
<1>6. QED BY <1>1, <1>2, <1>3, <1>4, <1>5 DEF Next

(* A machine is switched to its disk when the guest has flashed, or when   *)
(* it already runs the image of the volume.                                *)
LEMMA NextFlashed ==
    /\ IInv /\ RowsInv /\ GuestInv /\ (NoFault \/ SameImage)
    /\ BootsWhatWasFlashed /\ [Next]_vars
    => BootsWhatWasFlashed'
<1> SUFFICES ASSUME IInv, RowsInv, GuestInv, NoFault \/ SameImage,
                    BootsWhatWasFlashed, [Next]_vars
             PROVE  BootsWhatWasFlashed'
  OBVIOUS
<1>1. CASE RunStage
  <2>1. UNCHANGED <<apm, agm, disk, env>> BY <1>1 DEF RunStage, plane
  <2>2. CASE CreateMachine \/ UpdateMachine
    <3>1. machine.dirty => agm # None BY DEF RowsInv, Quiet
    <3>2. QED
      BY <2>1, <2>2, <3>1, BuildBoot, BuildEffect DEF GuestInv, BootsWhatWasFlashed
  <2>3. CASE ActualizeOutdated
    <3>1. Flashed => disk = gm.image
      <4>1. SUFFICES ASSUME Flashed PROVE disk = gm.image OBVIOUS
      <4>2. agm # None /\ agm.image = disk /\ disk # None /\ gm # None
        <5>1. agm \in GuestReports /\ gm # None
          BY <4>1 DEF Flashed, IInv, TypeOK, Born
        <5>2. QED BY <4>1, <5>1 DEF Flashed, GuestInv, GuestReports
      <4>3. QED BY <4>1, <4>2 DEF NoFault, SameImage
    <3>2. QED BY <2>1, <2>3, <3>1, ActualizeEffect DEF BootsWhatWasFlashed
  <2>4. CASE CreateNodeResource \/ UpdateNodeResource \/ TrackMachine
    <3>1. UNCHANGED gm BY <2>4, CreateEffect, UpdateEffect, TrackEffect
    <3>2. QED BY <2>1, <3>1 DEF BootsWhatWasFlashed
  <2>5. CASE UpdateMachineVolume
    BY <2>1, <2>5 DEF UpdateMachineVolume, BootsWhatWasFlashed
  <2>6. QED BY <1>1, <2>2, <2>3, <2>4, <2>5 DEF RunStage, Work
<1>2. CASE \/ PoolAgent \/ FlashImage \/ BootFromDisk
           \/ \E st \in {"NEW", "ERROR"} : AgentFails(st)
  BY <1>2, AgentEffect DEF BootsWhatWasFlashed
<1>3. CASE UNCHANGED <<gm, disk>> /\ env'.core = env.core
  BY <1>3 DEF BootsWhatWasFlashed
<1>4. QED BY <1>1, <1>2, <1>3, OtherEffect DEF Next

(* A node that was just created is in the invariant, whichever of the two  *)
(* kinds of trouble its surroundings leave out.                            *)
LEMMA InitImages == Patient /\ Init => NoFault \/ SameImage
<1> SUFFICES ASSUME Patient, Init PROVE NoFault \/ SameImage OBVIOUS
<1>1. env.image = 0 \/ env.fault = 0 BY DEF Patient, Init
<1>2. CASE env.image = 0 BY <1>2 DEF Init, SameImage
<1>3. CASE env.fault = 0
  BY <1>3 DEF Init, NoFault, Shown, Carried, Flashed, RunsTarget
<1>4. QED BY <1>1, <1>2, <1>3

SettledInv ==
    /\ RowsInv /\ GuestInv /\ (NoFault \/ SameImage) /\ BootsWhatWasFlashed

(* All of it holds in every state a patient client can meet.               *)
LEMMA AlwaysSettledInv == Patient => (Spec => [](IInv /\ SettledInv))
<1>1. Patient /\ Init => IInv /\ SettledInv
  BY InitIInv, InitRows, InitGuest, InitImages DEF SettledInv
<1>2. IInv /\ SettledInv /\ [Next]_vars => IInv' /\ SettledInv'
  BY NextIInv, NextRows, NextGuest, NextSameImage, NextNoFault, NextFlashed
     DEF SettledInv
<1>3. QED BY <1>1, <1>2, PTL DEF Spec

(* The pool builder only sends a machine to boot from its disk when the    *)
(* disk holds the image the guest is told to run, for clients that wait    *)
(* for ACTIVE and any number of requests, with faults or image updates.    *)
THEOREM DiskHoldsTheTarget == Patient => (Spec => []BootsWhatWasFlashed)
<1>1. IInv /\ SettledInv => BootsWhatWasFlashed BY DEF SettledInv
<1>2. QED BY <1>1, AlwaysSettledInv, PTL

(* A settled node that is shown ACTIVE runs the image and is in the power  *)
(* state its row asks for, under the same conditions.                      *)
THEOREM ActiveIsDesired == Patient => (Spec => []ActiveMeansDesired)
<1>1. IInv /\ SettledInv => ActiveMeansDesired
  <2>1. SUFFICES ASSUME IInv, SettledInv, Settled, node.status = "ACTIVE"
                 PROVE  /\ disk = Resolve[node.image] /\ agm.image = disk
                        /\ apm.power = node.target /\ node.power = node.target
    BY DEF ActiveMeansDesired
  <2>2. Shown /\ Steady /\ RowsInv /\ GuestInv
    BY <2>1 DEF SettledInv, RowsInv, Shown
  <2>3. apm.power = node.target /\ node.power = node.target
    BY <2>1, <2>2 DEF Settled, RowsInv, Steady
  <2>4. agm.image = disk /\ agm # None BY <2>2 DEF GuestInv, Steady
  <2>5. disk = Resolve[node.image]
    <3>1. CASE NoFault
      <4>1. ~Carried /\ node.image = vol.image /\ ~machine.dirty
        BY <2>1, <2>2, <3>1 DEF NoFault, Settled, RowsInv
      <4>2. agm.image = gm.image /\ gm # None
        BY <2>2, <3>1 DEF NoFault, RunsTarget
      <4>3. QED BY <2>4, <4>1, <4>2 DEF Carried
    <3>2. CASE SameImage
      <4>1. agm \in GuestReports BY <2>1, <2>4 DEF IInv, TypeOK
      <4>2. disk \in Uris BY <2>4, <4>1 DEF GuestReports
      <4>3. QED BY <3>2, <4>2 DEF SameImage
    <3>3. QED BY <2>1, <3>1, <3>2 DEF SettledInv
  <2>6. QED BY <2>3, <2>4, <2>5
<1>2. QED BY <1>1, AlwaysSettledInv, PTL
=============================================================================
