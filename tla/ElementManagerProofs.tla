------------------------ MODULE ElementManagerProofs ------------------------
(* TypeOK and RowsConsistent of ElementManager for all sets of elements,   *)
(* manifests, resources and workers.                                       *)
EXTENDS ElementManager, TLAPS

(* Rows belong to installed elements. *)
LEMMA RowsOfInstalled ==
    ASSUME NEW f \in [Elements -> Manifests \cup {None}], NEW r \in RowsOf(f)
    PROVE  r \in Resources /\ Owner[r] \in Elements /\ f[Owner[r]] \in Manifests
  BY ConstantsAssumption, NoneAssumption DEF RowsOf

(* What the iteration renders is a value, never the absence of one. *)
LEMMA RenderIsValue ==
    ASSUME TypeOK, NEW g \in Iterations, NEW r \in RowsOf(g.installed)
    PROVE  Render(g, r) \in Values /\ Render(g, r) # None
  <1>1. g.installed \in [Elements -> Manifests \cup {None}]
    BY DEF Iterations
  <1>2. r \in Resources /\ g.installed[Owner[r]] \in Manifests
    BY <1>1, RowsOfInstalled
  <1> DEFINE m == g.installed[Owner[r]]
  <1>3. Link[m][r] \in Resources \cup {None}
    BY <1>2, ConstantsAssumption
  <1> DEFINE l == Link[m][r]
  <1>4. (IF l = None THEN None ELSE Known(g, l)) \in 0 .. MaxFacts \cup {None}
    <2>1. g.fact \in [Resources -> 0 .. MaxFacts] BY DEF Iterations
    <2> QED BY <1>3, <2>1 DEF TypeOK, Known
  <1>5. Render(g, r) \in Values
    BY <1>2, <1>4 DEF Render, Values
  <1> QED BY <1>5, NoneAssumption

(* Dropping rows keeps the types of what is left. *)
LEMMA DropTypes ==
    ASSUME TypeOK, NEW rs, Drop(rs)
    PROVE  /\ linked' \subseteq Resources /\ seen' \subseteq Resources
           /\ target' \in [Resources -> Values \cup {None}]
           /\ status' \in [Resources -> Statuses]
  <1>1. linked' \subseteq Resources /\ seen' \subseteq Resources
    BY DEF Drop, TypeOK
  <1>2. target' \in [Resources -> Values \cup {None}]
    BY DEF Drop, TypeOK
  <1>3. status' \in [Resources -> Statuses]
    BY DEF Drop, TypeOK, Statuses
  <1> QED BY <1>1, <1>2, <1>3

(* An empty installation is well formed.                                   *)
LEMMA InitTypes == Init => TypeOK
  BY ConstantsAssumption, NoneAssumption DEF Init, TypeOK, Statuses

(* Starting, refusing and rolling back touch no rows; loading copies them. *)
LEMMA StartTypes ==
    ASSUME TypeOK, NEW w \in Workers, NEW m \in Manifests,
           NEW op \in {"install", "upgrade", "uninstall"}, StartRequest(w, op, m)
    PROVE  TypeOK'
  <1>1. Engine \in Engines
    BY DEF TypeOK, Engine, Engines
  <1>2. [op |-> op, m |-> m, engine |-> Engine] \in
          [op : {"install", "upgrade", "uninstall"}, m : Manifests, engine : Engines]
    BY <1>1
  <1>3. req' \in [Workers -> [op : {"install", "upgrade", "uninstall"}, m : Manifests,
                              engine : Engines] \cup {None}]
    BY <1>2 DEF StartRequest, TypeOK
  <1>4. requests' \in 0 .. MaxRequests
    BY ConstantsAssumption DEF StartRequest, TypeOK
  <1> QED BY <1>3, <1>4 DEF StartRequest, TypeOK, rows, agent

(* Install, upgrade and uninstall write well formed rows.                  *)
LEMMA FinishTypes ==
    ASSUME TypeOK, NEW w \in Workers, FinishRequest(w)
    PROVE  TypeOK'
  <1> DEFINE m == req[w].m
  <1>1. req[w].op \in {"install", "upgrade", "uninstall"} /\ m \in Manifests
    BY DEF FinishRequest, TypeOK
  <1>2. Name[m] \in Elements /\ Imports[m] \subseteq Resources
        /\ ImportRows(m) \subseteq Elements \X Resources
    BY <1>1, ConstantsAssumption DEF ImportRows
  <1>3. /\ installed' \in [Elements -> Manifests \cup {None}]
        /\ imports' \subseteq Elements \X Resources
        /\ estatus' \in [Elements -> Statuses]
        /\ status' \in [Resources -> Statuses]
        /\ linked' \subseteq Resources /\ seen' \subseteq Resources
        /\ target' \in [Resources -> Values \cup {None}]
    <2>1. CASE req[w].op = "install"
      <3>1. Install(m) BY <2>1 DEF FinishRequest
      <3> QED BY <3>1, <1>1, <1>2 DEF Install, TypeOK, Statuses
    <2>2. CASE req[w].op = "upgrade"
      <3>1. Upgrade(m) BY <2>2 DEF FinishRequest
      <3> DEFINE gone == {r \in RowsOf(installed) : Owner[r] = Name[m]} \ Declares[m]
      <3>2. Drop(gone) BY <3>1 DEF Upgrade
      <3>3. imports' \subseteq Elements \X Resources
        BY <3>1, <1>2 DEF Upgrade, TypeOK
      <3>4. installed' \in [Elements -> Manifests \cup {None}]
            /\ estatus' \in [Elements -> Statuses]
        BY <3>1, <1>1, <1>2 DEF Upgrade, TypeOK, Statuses
      <3> QED BY <3>2, <3>3, <3>4, DropTypes
    <2>3. CASE req[w].op = "uninstall"
      <3>1. Uninstall(m) BY <2>3 DEF FinishRequest
      <3> DEFINE gone == {r \in Resources : Owner[r] = Name[m]}
      <3>2. Drop(gone) BY <3>1 DEF Uninstall
      <3>3. imports' \subseteq Elements \X Resources
        BY <3>1 DEF Uninstall, TypeOK
      <3>4. installed' \in [Elements -> Manifests \cup {None}]
            /\ estatus' \in [Elements -> Statuses]
        BY <3>1, <1>1, <1>2 DEF Uninstall, TypeOK, Statuses
      <3> QED BY <3>2, <3>3, <3>4, DropTypes
    <2> QED BY <1>1, <2>1, <2>2, <2>3
  <1>4. req' \in [Workers -> [op : {"install", "upgrade", "uninstall"}, m : Manifests,
                              engine : Engines] \cup {None}]
    BY DEF FinishRequest, TypeOK
  <1> QED BY <1>3, <1>4 DEF FinishRequest, TypeOK, agent

(* An iteration of the element manager writes well formed target resources *)
(* and statuses, whatever rows were lost since it loaded the engine.       *)
LEMMA ActualizeTypes ==
    ASSUME TypeOK, Actualize
    PROVE  TypeOK'
  <1>1. em \in Iterations BY DEF Actualize, TypeOK
  <1>2. PICK done \in Done :
          LET now == Rendered(em, done) \ Lost(em, done)
          IN /\ target' = [r \in Resources |->
                  IF r \in now THEN TargetOf(em, r)
                  ELSE IF r \in Outdated THEN None ELSE target[r]]
             /\ linked' = linked \cup now
             /\ seen' = seen \cup {r \in now : actual[r] # None}
             /\ status' = [r \in Resources |->
                  IF r \in RowsOf(installed) THEN StatusOf(r, target')
                  ELSE status[r]]
             /\ estatus' = [e \in Elements |->
                  IF installed[e] # None THEN ElementStatus(e, status')
                  ELSE estatus[e]]
    BY DEF Actualize
  <1> DEFINE now == Rendered(em, done) \ Lost(em, done)
  <1>3. now \subseteq RowsOf(em.installed) /\ now \subseteq Resources
    BY DEF Rendered, RowsOf
  <1>4. \A r \in now : TargetOf(em, r) \in Values \cup {None}
    <2> TAKE r \in now
    <2>1. Render(em, r) \in Values BY <1>1, <1>3, RenderIsValue
    <2> QED BY <2>1, <1>3 DEF TargetOf, TypeOK
  <1>5. target' \in [Resources -> Values \cup {None}]
    BY <1>2, <1>4 DEF TypeOK
  <1>6. status' \in [Resources -> Statuses]
    BY <1>2 DEF TypeOK, StatusOf, Statuses
  <1>7. estatus' \in [Elements -> Statuses]
    BY <1>2 DEF TypeOK, ElementStatus, Statuses
  <1>8. linked' \subseteq Resources /\ seen' \subseteq Resources
    BY <1>2, <1>3 DEF TypeOK
  <1>9. UNCHANGED <<installed, imports, agent, req, requests>> /\ em' = None
    BY DEF Actualize
  <1> QED BY <1>5, <1>6, <1>7, <1>8, <1>9 DEF TypeOK, agent

(* Reports of the agents are well formed.                                  *)
LEMMA AgentTypes ==
    ASSUME TypeOK, NEW r \in Resources,
           AgentApplies(r) \/ AgentReady(r) \/ AgentRemoves(r) \/ FactChanges(r)
    PROVE  TypeOK'
  <1>1. CASE AgentApplies(r)
    BY <1>1 DEF AgentApplies, TypeOK, rows
  <1>2. CASE AgentReady(r)
    BY <1>2 DEF AgentReady, TypeOK, rows
  <1>3. CASE AgentRemoves(r)
    BY <1>3 DEF AgentRemoves, TypeOK
  <1>4. CASE FactChanges(r)
    BY <1>4, ConstantsAssumption DEF FactChanges, TypeOK, rows
  <1> QED BY <1>1, <1>2, <1>3, <1>4

(* Every step keeps the rows well formed.                                  *)
LEMMA NextTypes == TypeOK /\ [Next]_vars => TypeOK'
  <1> SUFFICES ASSUME TypeOK, [Next]_vars PROVE TypeOK' OBVIOUS
  <1>1. CASE Requests
    <2>1. ASSUME NEW w \in Workers, RefuseRequest(w) PROVE TypeOK'
      BY <2>1 DEF RefuseRequest, TypeOK, rows, agent
    <2> QED BY <1>1, <2>1, StartTypes, FinishTypes DEF Requests
  <1>2. CASE Manager
    <2>1. ASSUME LoadEngine PROVE TypeOK'
      <3>1. Iteration \in Iterations BY DEF TypeOK, Iteration, Iterations
      <3> QED BY <2>1, <3>1 DEF LoadEngine, TypeOK, rows, agent
    <2>2. ASSUME RollBack PROVE TypeOK'
      BY <2>2 DEF RollBack, TypeOK, rows, agent
    <2> QED BY <1>2, <2>1, <2>2, ActualizeTypes DEF Manager
  <1>3. CASE Agents
    BY <1>3, AgentTypes DEF Agents
  <1>4. CASE UNCHANGED vars
    BY <1>4 DEF vars, rows, agent, TypeOK
  <1> QED BY <1>1, <1>2, <1>3, <1>4 DEF Next

(* Rows, reports, requests and the engines they loaded stay well formed,   *)
(* for any number of manifests, elements, resources and API workers.       *)
THEOREM TypeCorrect == Spec => []TypeOK
  BY InitTypes, NextTypes, PTL DEF Spec

-----------------------------------------------------------------------------
(* Import rows and links of the rows, as RowsConsistent states them, after *)
(* the row of one element went from its old manifest to k (None: removed). *)
LEMMA FinishConsistent ==
    ASSUME TypeOK, RowsConsistent, NEW w \in Workers, FinishRequest(w)
    PROVE  RowsConsistent'
  <1> DEFINE m == req[w].m
             e == Name[m]
             g == req[w].engine
  <1>1. req[w].op \in {"install", "upgrade", "uninstall"} /\ m \in Manifests
    BY DEF FinishRequest, TypeOK
  <1>2. e \in Elements /\ m # None /\ Writes(req[w])
    BY <1>1, ConstantsAssumption, NoneAssumption DEF FinishRequest
  <1>3. CASE req[w].op = "install"
    <2>1. Install(m) /\ InstallWrites(g, m)
      BY <1>2, <1>3 DEF FinishRequest, Writes
    <2>2. installed[e] = None /\ Imports[m] \subseteq RowsOf(installed)
      BY <2>1 DEF InstallWrites
    <2>3. installed' = [installed EXCEPT ![e] = m] /\ imports' = imports \cup ImportRows(m)
          /\ linked' = linked /\ seen' = seen /\ target' = target
      BY <2>1 DEF Install
    <2>4. RowsOf(installed) \subseteq RowsOf(installed')
      BY <2>2, <2>3, ConstantsAssumption DEF RowsOf, TypeOK
    <2>5. \A i \in imports : installed'[i[1]] # None /\ i[2] \in RowsOf(installed')
      BY <2>3, <2>4, <1>2 DEF RowsConsistent, TypeOK
    <2>6. \A i \in ImportRows(m) : installed'[i[1]] # None /\ i[2] \in RowsOf(installed')
      BY <2>2, <2>3, <2>4, <1>2 DEF ImportRows, TypeOK
    <2> QED BY <2>3, <2>4, <2>5, <2>6 DEF RowsConsistent
  <1>4. CASE req[w].op = "upgrade"
    <2> DEFINE gone == {r \in RowsOf(installed) : Owner[r] = e} \ Declares[m]
    <2>1. Upgrade(m) /\ UpgradeWrites(g, m)
      BY <1>2, <1>4 DEF FinishRequest, Writes
    <2>2. Imports[m] \subseteq RowsOf(installed)
      BY <2>1 DEF UpgradeWrites
    <2>3. /\ installed' = [installed EXCEPT ![e] = m] /\ Drop(gone)
          /\ imports' = {i \in imports : i[1] # e /\ i[2] \notin gone}
                        \cup {i \in ImportRows(m) : i[2] \notin gone}
      BY <2>1 DEF Upgrade
    <2>4. RowsOf(installed) \ gone \subseteq RowsOf(installed')
      BY <2>3, <1>2, ConstantsAssumption DEF RowsOf, TypeOK
    <2>5. \A i \in imports : (i[2] \notin gone) =>
              installed'[i[1]] # None /\ i[2] \in RowsOf(installed')
      BY <2>3, <2>4, <1>2 DEF RowsConsistent, TypeOK
    <2>6. \A i \in ImportRows(m) : (i[2] \notin gone) =>
              installed'[i[1]] # None /\ i[2] \in RowsOf(installed')
      BY <2>2, <2>3, <2>4, <1>2 DEF ImportRows, TypeOK
    <2>7. linked' \cup seen' \subseteq RowsOf(installed')
      BY <2>3, <2>4 DEF Drop, RowsConsistent
    <2>8. \A r \in linked' : target'[r] # None
      BY <2>3 DEF Drop, RowsConsistent, TypeOK
    <2> QED BY <2>3, <2>5, <2>6, <2>7, <2>8 DEF RowsConsistent
  <1>5. CASE req[w].op = "uninstall"
    <2> DEFINE gone == {r \in Resources : Owner[r] = e}
    <2>1. Uninstall(m)
      BY <1>5 DEF FinishRequest
    <2>2. /\ installed' = [installed EXCEPT ![e] = None] /\ Drop(gone)
          /\ imports' = {i \in imports : i[1] # e /\ i[2] \notin gone}
      BY <2>1 DEF Uninstall
    <2>3. RowsOf(installed) \ gone \subseteq RowsOf(installed')
      BY <2>2, <1>2, ConstantsAssumption DEF RowsOf, TypeOK
    <2>4. \A i \in imports' : installed'[i[1]] # None /\ i[2] \in RowsOf(installed')
      BY <2>2, <2>3, <1>2 DEF RowsConsistent, TypeOK
    <2>5. linked' \cup seen' \subseteq RowsOf(installed')
      BY <2>2, <2>3 DEF Drop, RowsConsistent
    <2>6. \A r \in linked' : target'[r] # None
      BY <2>2 DEF Drop, RowsConsistent, TypeOK
    <2> QED BY <2>4, <2>5, <2>6 DEF RowsConsistent
  <1> QED BY <1>1, <1>3, <1>4, <1>5

(* The iteration only links rows that are still there, and a linked row    *)
(* keeps its target resource: it is never outdated.                        *)
LEMMA ActualizeConsistent ==
    ASSUME TypeOK, RowsConsistent, Actualize
    PROVE  RowsConsistent'
  <1>1. em \in Iterations BY DEF Actualize, TypeOK
  <1>2. PICK done \in Done :
          LET now == Rendered(em, done) \ Lost(em, done)
          IN /\ target' = [r \in Resources |->
                  IF r \in now THEN TargetOf(em, r)
                  ELSE IF r \in Outdated THEN None ELSE target[r]]
             /\ linked' = linked \cup now
             /\ seen' = seen \cup {r \in now : actual[r] # None}
    BY DEF Actualize
  <1> DEFINE now == Rendered(em, done) \ Lost(em, done)
  <1>3. now \subseteq RowsOf(em.installed) /\ now \subseteq RowsOf(installed)
    BY DEF Rendered, Lost
  <1>4. \A r \in now : TargetOf(em, r) # None
    <2> TAKE r \in now
    <2>1. Render(em, r) # None BY <1>1, <1>3, RenderIsValue
    <2> QED BY <2>1 DEF TargetOf
  <1>5. linked \subseteq Resources /\ now \subseteq Resources
    BY <1>3 DEF TypeOK, RowsOf
  <1>6. \A r \in linked' : target'[r] # None
    <2> TAKE r \in linked'
    <2>1. CASE r \in now BY <2>1, <1>2, <1>4, <1>5
    <2>2. CASE r \in linked \ now
      <3>1. r \notin Outdated BY <2>2 DEF Outdated, RowsConsistent
      <3> QED BY <2>2, <3>1, <1>2, <1>5 DEF RowsConsistent
    <2> QED BY <2>1, <2>2, <1>2
  <1>7. installed' = installed /\ imports' = imports
    BY DEF Actualize
  <1>8. linked' \cup seen' \subseteq RowsOf(installed')
    BY <1>2, <1>3, <1>7 DEF RowsConsistent
  <1> QED BY <1>6, <1>7, <1>8 DEF RowsConsistent

(* Every step keeps the rows consistent; TypeOK is needed for the copies   *)
(* of the rows that requests and iterations hold.                          *)
LEMMA NextConsistent ==
    TypeOK /\ RowsConsistent /\ [Next]_vars => RowsConsistent'
  <1> SUFFICES ASSUME TypeOK, RowsConsistent, [Next]_vars PROVE RowsConsistent' OBVIOUS
  <1>1. ASSUME UNCHANGED rows PROVE RowsConsistent'
    BY <1>1 DEF rows, RowsConsistent
  <1>2. CASE Requests
    <2>1. ASSUME NEW w \in Workers, NEW m \in Manifests,
                 NEW op \in {"install", "upgrade", "uninstall"}, StartRequest(w, op, m)
          PROVE  RowsConsistent'
      BY <2>1, <1>1 DEF StartRequest
    <2>2. ASSUME NEW w \in Workers, RefuseRequest(w) PROVE RowsConsistent'
      BY <2>2, <1>1 DEF RefuseRequest
    <2> QED BY <1>2, <2>1, <2>2, FinishConsistent DEF Requests
  <1>3. CASE Manager
    <2>1. ASSUME LoadEngine \/ RollBack PROVE RowsConsistent'
      BY <2>1, <1>1 DEF LoadEngine, RollBack
    <2> QED BY <1>3, <2>1, ActualizeConsistent DEF Manager
  <1>4. CASE Agents
    <2>1. ASSUME NEW r \in Resources, AgentApplies(r) \/ AgentReady(r) \/ FactChanges(r)
          PROVE  RowsConsistent'
      BY <2>1, <1>1 DEF AgentApplies, AgentReady, FactChanges
    <2>2. ASSUME NEW r \in Resources, AgentRemoves(r) PROVE RowsConsistent'
      BY <2>2 DEF AgentRemoves, RowsConsistent
    <2> QED BY <1>4, <2>1, <2>2 DEF Agents
  <1>5. CASE UNCHANGED vars
    BY <1>5, <1>1 DEF vars
  <1> QED BY <1>2, <1>3, <1>4, <1>5 DEF Next

(* In every interleaving of requests, iterations and reports, imports and  *)
(* links of rows lead to rows: what load_from_database joins is there.     *)
THEOREM RowsStayConsistent == Spec => []RowsConsistent
  <1>1. Init => RowsConsistent BY DEF Init, RowsConsistent
  <1> QED BY <1>1, TypeCorrect, NextConsistent, PTL DEF Spec
=============================================================================
