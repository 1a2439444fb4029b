---------------------------- MODULE NodeLifecycle ----------------------------
(***************************************************************************)
(* The reconciliation pipeline that carries one compute node from what the *)
(* user asked for to what runs on the hypervisor:                          *)
(*                                                                         *)
(*   user API  ->  node builder  ->  volume builder  ->  pool builder      *)
(*      ^                                                    |             *)
(*      +---- node builder (tracked hook) <---- pool and guest agents      *)
(*                                                                         *)
(* The builders are hooks of one base service and run one after another in *)
(* the single GeneralService process; `stage' is the program counter of    *)
(* that loop.  The user API and the two agents are other processes and     *)
(* interleave with every stage.  Rows of other nodes are independent of    *)
(* this one except that an exception they raise rolls the whole iteration  *)
(* of a service back: SkipService.                                         *)
(***************************************************************************)
EXTENDS Integers

CONSTANTS
    Images,     \* image references a user may write into a disk spec
    Uris,       \* what the references resolve to
    Resolve,    \* the repository's artifact index: Images -> Uris
    Workers,    \* API workers that may serve power requests concurrently
    Scenarios,  \* the surroundings the node may find itself in, see Envs
    None        \* no row, no report, no request

(* Whether the node belongs to the core set, when clients send the next    *)
(* request (see ClientReady), and bounds: how many power requests, image   *)
(* updates and faults (rolled back iterations, odd reports) may still come.*)
Envs == [core : BOOLEAN, client : {"any", "created", "settled"},
         power : Nat, image : Nat, fault : Nat]

ASSUME ConstantsAssumption ==
    /\ Resolve \in [Images -> Uris]
    /\ Scenarios \subseteq Envs

Targets  == {"ON", "OFF", "REBOOT"}
Powers   == {"ON", "OFF", "REBOOTED", "UNKNOWN"}
Statuses == {"NEW", "IN_PROGRESS", "ACTIVE", "ERROR"}
Boots    == {"network", "hd0"}
Stages   == {"pool_spec", "pool_status", "node_spec", "node_track", "vol_spec"}

NodeRows      == [image : Images, target : Targets, power : Powers,
                  status : Statuses, dirty : BOOLEAN]
MachineRows   == [image : Images \cup {None}, boot : Boots, target : Targets,
                  power : Powers, status : Statuses, dirty : BOOLEAN,
                  seen : BOOLEAN]
PoolMachines  == [image : Images, boot : Boots, net : {"boot_net", "main_net"},
                  power : Targets]
GuestMachines == [image : Uris, boot : Boots]
PoolReports   == [image : Images, boot : Boots, power : Powers, status : Statuses]
GuestStatuses == Statuses \cup {"FLASHED"}
GuestReports  == [image : Uris, boot : Boots, status : GuestStatuses]
Requests      == [want : Targets, target : Targets, power : Powers]

ASSUME NoneAssumption ==
    None \notin UNION {Images, Uris, PoolMachines, GuestMachines, PoolReports,
                       GuestReports, Requests}

VARIABLES
    node,     \* the node row; `dirty' = newer than its target resource
    nres,     \* image in the node's target resource, None before it exists
    vol,      \* the root volume row of the node
    mvol,     \* image of the machine volume the scheduler placed
    machine,  \* the machine row; `seen' = the node has tracked its last change
    port,     \* the network service activated the machine's port
    pm, gm,   \* targets of the pool agent and the guest agent, None at first
    apm, agm, \* what the two agents report, None before the first report
    fresh,    \* the derivatives changed since the pool builder looked
    disk,     \* content of the root disk
    stage,    \* next stage of the general service
    held,     \* the open transaction has written the node row
    req,      \* what each API worker read before it answers
    env,      \* what may still come from outside
    credit    \* reboots granted by the API less reboots performed

rows  == <<node, nres, vol, mvol, machine, port, pm, gm>>
plane == <<apm, agm, disk>>
vars  == <<rows, plane, credit, fresh, stage, held, req, env>>

-----------------------------------------------------------------------------
(* State right after the scheduler placed the node on a pool. *)

Init ==
    \E i \in Images :
      /\ node = [image |-> i, target |-> "ON", power |-> "UNKNOWN",
                 status |-> "IN_PROGRESS", dirty |-> FALSE]
      /\ nres = None
      /\ vol = [image |-> i, dirty |-> FALSE]
      /\ mvol = i
      /\ machine = [image |-> None, boot |-> "network", target |-> "ON",
                    power |-> "ON", status |-> "NEW", dirty |-> FALSE,
                    seen |-> TRUE]
      /\ port = FALSE
      /\ pm = None /\ gm = None /\ apm = None /\ agm = None
      /\ fresh = FALSE /\ disk = None
      /\ stage = "pool_spec" /\ held = FALSE
      /\ req = [w \in Workers |-> None]
      /\ env \in Scenarios
      /\ credit = 0

-----------------------------------------------------------------------------
(* The user API. *)

(* How patient clients are: "any" never waits, "created" waits for the     *)
(* node's target resource, "settled" for the node to be shown ACTIVE.      *)
ClientReady ==
    \/ env.client = "any"
    \/ env.client = "created" /\ nres # None
    \/ env.client = "settled" /\ node.status = "ACTIVE"

(* A power action loads the node, *)
LoadNode(w, t) ==
    /\ ClientReady /\ req[w] = None /\ env.power > 0
    /\ req' = [req EXCEPT ![w] = [want |-> t, target |-> node.target,
                                  power |-> node.power]]
    /\ env' = [env EXCEPT !.power = @ - 1]
    /\ UNCHANGED <<rows, plane, credit, fresh, stage, held>>

(* and decides on what it loaded.  The row may have changed meanwhile.     *)
Refused(r) == r.want = "REBOOT" /\ r.power = "REBOOTED"

SetTargetPowerState(w) ==
    /\ req[w] # None
    /\ LET r == req[w]
           write == ~Refused(r) /\ r.target # r.want
       IN /\ write => ~held
          /\ node' = IF write
                     THEN [node EXCEPT !.target = r.want,
                                       !.status = "IN_PROGRESS", !.dirty = TRUE]
                     ELSE node
          /\ credit' = IF write /\ r.want = "REBOOT" THEN credit + 1 ELSE credit
    /\ req' = [req EXCEPT ![w] = None]
    /\ UNCHANGED <<nres, vol, mvol, machine, port, pm, gm, plane, fresh,
                   stage, held, env>>

UpdateNode(i) ==
    /\ ClientReady /\ ~held /\ env.image > 0
    /\ i # node.image
    /\ node' = [node EXCEPT !.image = i, !.status = "IN_PROGRESS", !.dirty = TRUE]
    /\ env' = [env EXCEPT !.image = @ - 1]
    /\ UNCHANGED <<nres, vol, mvol, machine, port, pm, gm, plane, credit, fresh,
                   stage, held, req>>

-----------------------------------------------------------------------------
(* The network service allocates the port of the machine. *)

ActivatePort ==
    /\ ~port /\ port' = TRUE
    /\ UNCHANGED <<node, nres, vol, mvol, machine, pm, gm, plane, credit, fresh,
                   stage, held, req, env>>

-----------------------------------------------------------------------------
(* The pool builder. *)

PoolMachine(m, net) == [image |-> m.image, boot |-> m.boot, net |-> net, power |-> m.target]

(* How to build a machine: to be flashed over the private network, or on   *)
(* its own port.                                                           *)
OverNetwork == [boot |-> "network", net |-> "boot_net"]
FromDisk == [boot |-> "hd0", net |-> "main_net"]
Ways == {OverNetwork, FromDisk}

(* A new machine is flashed over the network; so is one whose guest        *)
(* reported another image.  Core machines always start from their disk.    *)
WayOnCreate == IF env.core THEN FromDisk ELSE OverNetwork

WayKept == IF machine.boot = "network" THEN OverNetwork ELSE FromDisk

ToBeFlashed == ~env.core /\ agm # None /\ agm.image # Resolve[mvol]

OwnPortKept == IF ToBeFlashed THEN [OverNetwork EXCEPT !.net = "main_net"] ELSE FromDisk

WayOnUpdate == IF ToBeFlashed THEN OverNetwork ELSE FromDisk

(* Both derivatives are rebuilt from the row and its root volume. *)
BuildDerivatives(way) ==
    /\ machine' = [machine EXCEPT !.boot = way.boot, !.image = mvol,
                                  !.dirty = FALSE, !.seen = FALSE]
    /\ pm' = PoolMachine([machine EXCEPT !.boot = way.boot, !.image = mvol], way.net)
    /\ gm' = [image |-> Resolve[mvol], boot |-> way.boot]
    /\ fresh' = TRUE
    /\ UNCHANGED <<node, nres, vol, mvol, port>>

CreateMachine ==
    /\ pm = None /\ port
    /\ BuildDerivatives(WayOnCreate)

UpdateMachine ==
    /\ pm # None /\ machine.dirty
    /\ BuildDerivatives(WayOnUpdate)

NeverFlashed == FALSE

Flashed == agm # None /\ agm.boot = "network" /\ agm.status = "FLASHED"

(* The status of a machine is what both reports justify. *)
MachineStatusAnyImage(m) ==
    CASE "ERROR" \in {apm.status, agm.status} -> "ERROR"
      [] apm.status = "ACTIVE" /\ agm.status = "ACTIVE"
         /\ m.target = apm.power -> "ACTIVE"
      [] OTHER -> "IN_PROGRESS"

MachineStatus(m) ==
    CASE "ERROR" \in {apm.status, agm.status} -> "ERROR"
      [] "NEW" \in {apm.status, agm.status} -> "NEW"
      [] /\ apm.status = "ACTIVE" /\ agm.status = "ACTIVE"
         /\ m.image = apm.image /\ Resolve[m.image] = agm.image
         /\ m.target = apm.power -> "ACTIVE"
      [] OTHER -> "IN_PROGRESS"

ActualizeMachineStatus(m) ==
    IF apm = None \/ agm = None THEN m
    ELSE [m EXCEPT !.power = apm.power, !.status = MachineStatus(m)]

(* The hook on reports of the agents: leave the flashing mode, then derive *)
(* the status.                                                             *)
ActualizeOutdated ==
    /\ pm # None /\ fresh
    /\ LET m == IF Flashed THEN [machine EXCEPT !.boot = "hd0"] ELSE machine
           s == ActualizeMachineStatus(m)
       IN /\ machine' = [s EXCEPT !.seen = (s = machine) /\ machine.seen]
          /\ pm' = IF Flashed THEN PoolMachine(m, "main_net") ELSE pm
          /\ gm' = IF Flashed THEN [gm EXCEPT !.boot = "hd0"] ELSE gm
    /\ fresh' = FALSE
    /\ UNCHANGED <<node, nres, vol, mvol, port>>

-----------------------------------------------------------------------------
(* The node builder. *)

(* The node's resource is created once the machine's exists; nothing is    *)
(* carried to the machine then.                                            *)
CreateNodeResource ==
    /\ nres = None /\ pm # None
    /\ nres' = node.image
    /\ node' = [node EXCEPT !.dirty = FALSE]
    /\ machine' = [machine EXCEPT !.seen = FALSE]
    /\ UNCHANGED <<vol, mvol, port, pm, gm, fresh>>

UpdateNodeResource ==
    /\ nres # None /\ node.dirty
    /\ LET force == node.image # nres
           change == force \/ machine.target # node.target
       IN /\ vol' = IF force THEN [image |-> node.image, dirty |-> TRUE] ELSE vol
          /\ machine' = IF change
                        THEN [machine EXCEPT !.target = node.target,
                                !.status = "IN_PROGRESS", !.dirty = TRUE,
                                !.seen = FALSE]
                        ELSE machine
          /\ node' = [node EXCEPT !.dirty = FALSE,
                        !.status = IF change THEN "IN_PROGRESS" ELSE machine.status]
    /\ nres' = node.image
    /\ UNCHANGED <<mvol, port, pm, gm, fresh>>

RebootDone == machine.power = "REBOOTED" /\ node.target = "REBOOT"

TargetKept == node.target

TargetAfterTrack == IF RebootDone THEN "ON" ELSE node.target

(* The hook on a changed machine copies its state into the node and ends a *)
(* reboot that was performed.                                              *)
TrackMachine ==
    /\ nres # None /\ ~machine.seen
    /\ node' = [node EXCEPT !.status = machine.status, !.power = machine.power,
                            !.target = TargetAfterTrack]
    /\ machine' = IF RebootDone
                  THEN [machine EXCEPT !.target = "ON", !.status = "IN_PROGRESS",
                                       !.dirty = TRUE, !.seen = FALSE]
                  ELSE [machine EXCEPT !.seen = TRUE]
    /\ UNCHANGED <<nres, vol, mvol, port, pm, gm, fresh>>

-----------------------------------------------------------------------------
(* The volume builder copies the volume row into the machine volume. *)

UpdateMachineVolume ==
    /\ vol.dirty
    /\ mvol' = vol.image
    /\ vol' = [vol EXCEPT !.dirty = FALSE]
    /\ UNCHANGED <<node, nres, machine, port, pm, gm, fresh>>

-----------------------------------------------------------------------------
(* One pass of the general service over its builders. *)

After == [s \in Stages |->
            CASE s = "pool_spec"   -> "pool_status"
              [] s = "pool_status" -> "node_spec"
              [] s = "node_spec"   -> "node_track"
              [] s = "node_track"  -> "vol_spec"
              [] s = "vol_spec"    -> "pool_spec"]

Due == [s \in Stages |->
            CASE s = "pool_spec"   -> IF pm = None THEN port ELSE machine.dirty
              [] s = "pool_status" -> pm # None /\ fresh
              [] s = "node_spec"   -> IF nres = None THEN pm # None ELSE node.dirty
              [] s = "node_track"  -> nres # None /\ ~machine.seen
              [] s = "vol_spec"    -> vol.dirty]

Work ==
    \/ stage = "pool_spec"   /\ (CreateMachine \/ UpdateMachine)
    \/ stage = "pool_status" /\ ActualizeOutdated
    \/ stage = "node_spec"   /\ (CreateNodeResource \/ UpdateNodeResource)
    \/ stage = "node_track"  /\ TrackMachine
    \/ stage = "vol_spec"    /\ UpdateMachineVolume

RunStage ==
    /\ Work
    /\ stage' = After[stage]
    /\ held' = (stage = "node_spec")
    /\ UNCHANGED <<plane, credit, req, env>>

IdleStage ==
    /\ ~Due[stage]
    /\ stage' = After[stage]
    /\ held' = (held /\ stage # "node_track")
    /\ UNCHANGED <<rows, plane, credit, fresh, req, env>>

(* An iteration that raises is rolled back, as is one cut by a restart of  *)
(* the process: the service has done nothing and the pass goes on.         *)
SkipService ==
    /\ env.fault > 0
    /\ \/ stage = "pool_spec" /\ stage' = "node_spec"
       \/ stage = "node_spec" /\ stage' = "vol_spec"
       \/ stage = "vol_spec"  /\ stage' = "pool_spec"
    /\ env' = [env EXCEPT !.fault = @ - 1]
    /\ UNCHANGED <<rows, plane, credit, fresh, held, req>>

-----------------------------------------------------------------------------
(* The agents on the hypervisor and inside the machine (external). *)

(* The pool agent performs a requested reboot once and then reports it     *)
(* until the target changes.                                               *)
PowerReached(target) == IF target = "REBOOT" THEN "REBOOTED" ELSE target

PoolReport == [image |-> pm.image, boot |-> pm.boot,
               power |-> PowerReached(pm.power), status |-> "ACTIVE"]

Reboots == pm.power = "REBOOT" /\ (apm = None \/ apm.power # "REBOOTED")

PoolAgent ==
    /\ pm # None /\ apm # PoolReport
    /\ apm' = PoolReport
    /\ credit' = IF Reboots THEN credit - 1 ELSE credit
    /\ fresh' = TRUE
    /\ UNCHANGED <<rows, agm, disk, stage, held, req, env>>

Running(boot) == apm # None /\ apm.boot = boot /\ apm.power \in {"ON", "REBOOTED"}

Report(image, boot, status) ==
    /\ agm # [image |-> image, boot |-> boot, status |-> status]
    /\ agm' = [image |-> image, boot |-> boot, status |-> status]
    /\ fresh' = TRUE
    /\ UNCHANGED <<rows, apm, credit, stage, held, req, env>>

(* Booted over the network the guest agent writes the image to the disk. *)
FlashImage ==
    /\ Running("network") /\ gm.boot = "network"
    /\ disk' = gm.image
    /\ Report(gm.image, "network", "FLASHED")

(* Booted from the disk it reports what the disk holds.  On a core machine *)
(* the guest driver itself brings the disk up to the target image.         *)
BootFromDisk ==
    /\ Running("hd0") /\ gm.boot = "hd0"
    /\ env.core \/ disk # None
    /\ disk' = IF env.core THEN gm.image ELSE disk
    /\ Report(disk', "hd0", "ACTIVE")

(* Either agent may report an error or start over; its next report         *)
(* corrects that.                                                          *)
AgentFails(st) ==
    /\ env.fault > 0
    /\ env' = [env EXCEPT !.fault = @ - 1]
    /\ \/ /\ apm # None
          /\ apm' = [apm EXCEPT !.status = st]
          /\ UNCHANGED agm
       \/ /\ agm # None
          /\ agm' = [agm EXCEPT !.status = st]
          /\ UNCHANGED apm
    /\ fresh' = TRUE
    /\ UNCHANGED <<rows, disk, credit, stage, held, req>>

-----------------------------------------------------------------------------
Service == RunStage \/ IdleStage

Next ==
    \/ \E w \in Workers : \/ \E t \in Targets : LoadNode(w, t)
                          \/ SetTargetPowerState(w)
    \/ \E i \in Images : UpdateNode(i)
    \/ ActivatePort
    \/ RunStage \/ IdleStage \/ SkipService
    \/ PoolAgent \/ FlashImage \/ BootFromDisk
    \/ \E st \in {"NEW", "ERROR"} : AgentFails(st)

(* The loop of the service never blocks, agents poll, the network service  *)
(* is part of the same loop and an API request ends; no request has to     *)
(* come.                                                                   *)
Fairness ==
    /\ WF_vars(Service) /\ WF_vars(ActivatePort)
    /\ WF_vars(PoolAgent) /\ WF_vars(FlashImage) /\ WF_vars(BootFromDisk)
    /\ \A w \in Workers : WF_vars(SetTargetPowerState(w))

Spec == Init /\ [][Next]_vars
FairSpec == Spec /\ Fairness
-----------------------------------------------------------------------------
(* Properties. *)

(* Rows, target resources, reports and requests only ever hold values the *)
(* code can write: in particular no builder or agent copies a target power *)
(* state it cannot report, and no missing report is read.                  *)
TypeOK ==
    /\ node \in NodeRows
    /\ nres \in Images \cup {None}
    /\ vol \in [image : Images, dirty : BOOLEAN]
    /\ mvol \in Images
    /\ machine \in MachineRows
    /\ pm \in PoolMachines \cup {None} /\ gm \in GuestMachines \cup {None}
    /\ apm \in PoolReports \cup {None} /\ agm \in GuestReports \cup {None}
    /\ disk \in Uris \cup {None}
    /\ stage \in Stages
    /\ port \in BOOLEAN /\ fresh \in BOOLEAN /\ held \in BOOLEAN
    /\ req \in [Workers -> Requests \cup {None}]
    /\ env \in Envs
    /\ credit \in Int

(* No row waits for a builder and no report waits to be looked at.         *)
Settled ==
    /\ nres # None /\ ~node.dirty /\ ~vol.dirty /\ ~machine.dirty
    /\ machine.seen /\ ~fresh

(* The power actions reboot a machine at most once for each request they   *)
(* accepted: neither the switch back to ON by the tracked hook nor a later *)
(* update of the node may bring a performed reboot back.                   *)
RebootOnlyOnRequest == credit >= 0

(* The reboots that the pipeline still holds, at the hypervisor, in the    *)
(* machine row and in the node row.  Each needs a request of its own, for  *)
(* the row above may ask for another reboot before the one below is done:  *)
(* this is what makes RebootOnlyOnRequest inductive.                       *)
AtAgent ==
    IF pm # None /\ pm.power = "REBOOT" /\ (apm = None \/ apm.power # "REBOOTED")
    THEN 1 ELSE 0
AtMachine ==
    IF machine.target = "REBOOT" /\ (pm = None \/ pm.power # "REBOOT") THEN 1 ELSE 0
AtNode == IF node.target = "REBOOT" /\ machine.target # "REBOOT" THEN 1 ELSE 0

RebootsCovered == credit >= AtAgent + AtMachine + AtNode

(* The machine row, the pool machine and the guest machine always agree on *)
(* how to boot, and only a machine that boots from its disk is plugged     *)
(* into the main network.                                                  *)
BootAndPortAgree ==
    pm # None => /\ pm.boot = machine.boot /\ gm.boot = machine.boot
                 /\ pm.net = IF pm.boot = "network" THEN "boot_net" ELSE "main_net"

(* A machine is only sent to boot from its disk when the disk holds the   *)
(* image the guest is told to run (core machines are updated in place).    *)
BootsWhatWasFlashed ==
    (gm # None /\ gm.boot = "hd0" /\ ~env.core) => disk = gm.image

(* Once everything has been processed an ACTIVE node runs the image and is *)
(* in the power state its row asks for.                                    *)
ActiveMeansDesired ==
    (Settled /\ node.status = "ACTIVE") =>
        /\ disk = Resolve[node.image] /\ agm.image = disk
        /\ apm.power = node.target /\ node.power = node.target

(* The comment on the boot mode of the pool builder: a new machine boots   *)
(* over the private network, so it never starts from an empty disk.        *)
NewMachineBootsFromNetwork ==
    (gm # None /\ gm.boot = "hd0" /\ ~env.core) => disk # None

(* Whatever requests came, the node ends up settled and ACTIVE; only one   *)
(* that is switched off may wait, for no guest can flash a changed image.  *)
Converges == <>[](Settled /\ (node.status = "ACTIVE" \/ node.target = "OFF"))
=============================================================================
