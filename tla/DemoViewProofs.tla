---------------------------- MODULE DemoViewProofs ----------------------------
(***************************************************************************)
(* Theorems about what the registry shows of an Angel and what the         *)
(* dashboard offers from it, for every set of tools, Connections and       *)
(* Versions and wherever commands were cut short: every offer is one the   *)
(* registry takes, and every view passes both validators.                  *)
(***************************************************************************)
EXTENDS DemoView, ConvergenceProofs

-----------------------------------------------------------------------------
(* What is shown.                                                          *)

(* A tool that is shown is one of the active deployment, with an entry for *)
(* Connections of it.                                                      *)
LEMMA ToolViewFields ==
  ASSUME NEW e, NEW t \in ToolViews(e)
  PROVE  /\ t.name \in ToolsOf(active[e])
         /\ t = [name |-> t.name, connections |-> t.connections]
         /\ \A c \in t.connections :
              /\ c.connectionId \in active[e].connections
              /\ c.available \in BOOLEAN
              /\ c = [connectionId |-> c.connectionId, available |-> c.available]
<1> DEFINE Available(tool, d) ==
             /\ InstallationAligned(e)
             /\ AvailabilityAligned(e)
             /\ IsToolConnectionEnabled(availability[e], tool, <<active[e].id, d>>)
<1>1. PICK tool \in ToolsOf(active[e]) :
        t = [name |-> tool,
             connections |-> {[connectionId |-> d, available |-> Available(tool, d)]
                                : d \in active[e].connections}]
  BY DEF ToolViews
<1>2. t.name = tool /\ t = [name |-> t.name, connections |-> t.connections]
  BY <1>1
<1>3. ASSUME NEW c \in t.connections
      PROVE  /\ c.connectionId \in active[e].connections
             /\ c.available \in BOOLEAN
             /\ c = [connectionId |-> c.connectionId, available |-> c.available]
  <2>1. PICK d \in active[e].connections :
          c = [connectionId |-> d, available |-> Available(tool, d)]
    BY <1>1
  <2>2. Available(tool, d) \in BOOLEAN
    OBVIOUS
  <2> HIDE DEF Available
  <2> QED
    BY <2>1, <2>2
<1> QED
  BY <1>2, <1>3

-----------------------------------------------------------------------------
(* What is offered.                                                        *)

(* A change that is pending is one of the active deployment, so repeating  *)
(* it is always possible.                                                  *)
LEMMA RepairAccepted ==
  ASSUME TypeOK, OverlayInv, exists, NEW e \in Environments, pending[e] = None,
         pendingAvailability[e] # None
  PROVE  /\ pendingAvailability[e].change # None
         /\ ChangeAccepted(e, pendingAvailability[e].change)
<1> DEFINE p == pendingAvailability[e]
<1>1. p.change # None
  BY Types, PendingFields, NoneAssumption
<1>2. active[e] # None /\ Deployed(p.change, active[e])
  BY DEF OverlayInv, RecordOverlay, ChangeFollows
<1> QED
  BY <1>1, <1>2 DEF ChangeAccepted, Changeable

(* A switch stands for a tool and a Connection of the active deployment.   *)
LEMMA TogglesDeployed ==
  ASSUME TypeOK, NEW e \in Environments, NEW change \in ConnectionToggles(EnvironmentView(e))
  PROVE  /\ active[e] # None
         /\ Deployed(change, active[e])
<1>1. PICK t \in ToolViews(e) :
        change \in {[kind |-> "tool_connection", tool |-> t.name,
                     connectionId |-> c.connectionId, enabled |-> ~c.available]
                      : c \in t.connections}
  BY DEF ConnectionToggles, EnvironmentView
<1>2. PICK c \in t.connections :
        change = [kind |-> "tool_connection", tool |-> t.name,
                  connectionId |-> c.connectionId, enabled |-> ~c.available]
  BY <1>1
<1>3. t.name \in ToolsOf(active[e]) /\ c.connectionId \in active[e].connections
  BY <1>1, ToolViewFields
<1> QED
  BY <1>2, <1>3 DEF Deployed, ToolsOf

(* Every pause, resume and repair the dashboard offers is one the registry *)
(* takes: a switch is painted from the active deployment and only with     *)
(* nothing to repair, and a repair is the change that is recorded.         *)
THEOREM ChangesAreAlwaysAccepted == Spec => []ChangesAreAccepted
<1>1. TypeOK /\ OverlayInv => ChangesAreAccepted
  <2> SUFFICES ASSUME TypeOK, OverlayInv, exists, NEW e \in Environments, pending[e] = None,
                      NEW change \in OfferedChanges(EnvironmentView(e))
               PROVE  ChangeAccepted(e, change)
    BY DEF ChangesAreAccepted, Shown
  <2> DEFINE view == EnvironmentView(e)
  <2>1. /\ view.repair = AvailabilityRepair(e)
        /\ view.deploymentId = IF active[e] = None THEN None ELSE active[e].id
    BY DEF EnvironmentView
  <2> HIDE DEF view
  <2>2. CASE pendingAvailability[e] # None
    <3>1. view.repair = pendingAvailability[e].change /\ view.repair # None
      BY <2>1, <2>2, RepairAccepted DEF AvailabilityRepair
    <3>2. change = view.repair
      BY <3>1 DEF OfferedChanges, AvailabilityBlocked, view
    <3> QED
      BY <2>2, <3>1, <3>2, RepairAccepted
  <2>3. CASE pendingAvailability[e] = None
    <3>1. view.repair = None
      BY <2>1, <2>3 DEF AvailabilityRepair
    <3>2. ~AvailabilityBlocked(view) /\ change \in ConnectionToggles(view) \cup SettingsButtons
      BY <3>1 DEF OfferedChanges, view
    <3>3. active[e] # None
      BY <2>1, <3>2 DEF AvailabilityBlocked
    <3>4. Deployed(change, active[e])
      BY <3>2, TogglesDeployed DEF SettingsButtons, Deployed, view
    <3> QED
      BY <2>3, <3>3, <3>4 DEF ChangeAccepted, Changeable
  <2> QED
    BY <2>2, <2>3
<1> QED
  BY <1>1, TypeCorrect, OverlayInvariant, PTL

(* A deployment is of a Version that is published: nothing withdraws a     *)
(* Version of an Angel that is recorded.                                   *)
PublishedInv ==
  \A e \in Environments :
    /\ active[e] # None => active[e].version \in published
    /\ pending[e] # None => pending[e].version \in published

LEMMA DeployIsOfPublished ==
  ASSUME TypeOK, PublishedInv, NEW e \in Environments, NEW v, NEW connections, NEW provenance,
         Deploy(e, v, connections, provenance)
  PROVE  PublishedInv'
<1>1. v \in published /\ UNCHANGED <<published, active>>
  BY DEF Deploy
<1>2. CASE NewDeployment(e, v, connections, provenance)
  <2>1. pending' = [pending EXCEPT ![e] =
          [id |-> minted[e] + 1, version |-> v, connections |-> connections,
           provenance |-> provenance]]
    BY <1>2 DEF NewDeployment
  <2>2. /\ pending'[e].version = v
        /\ \A f \in Environments \ {e} : pending'[f] = pending[f]
    BY <2>1 DEF TypeOK
  <2> QED
    BY <1>1, <2>2 DEF PublishedInv
<1>3. CASE SameDeployment(e, v, connections, provenance)
  BY <1>1, <1>3 DEF SameDeployment, PublishedInv
<1> QED
  BY <1>2, <1>3 DEF Deploy

LEMMA PublishedStep == TypeOK /\ PublishedInv /\ [Next]_vars => PublishedInv'
<1> SUFFICES ASSUME TypeOK, PublishedInv, [Next]_vars PROVE PublishedInv'
  OBVIOUS
<1>1. ASSUME UNCHANGED <<published, active, pending>> PROVE PublishedInv'
  BY <1>1 DEF PublishedInv
<1>2. CASE EnsureAngel
  BY <1>1, <1>2 DEF EnsureAngel
<1>3. CASE \E v \in Versions : PublishVersion(v)
  BY <1>3 DEF PublishVersion, PublishedInv
<1>4. CASE \/ \E e \in Environments, v \in Versions, connections \in SUBSET Connections,
                provenance \in {"none", "direct"} : Deploy(e, v, connections, provenance)
           \/ \E connections \in SUBSET Connections : PromoteProduction(connections)
  BY <1>4, DeployIsOfPublished DEF PromoteProduction, Environments
<1>5. CASE Activate
  <2>1. /\ UNCHANGED published
        /\ active' = [active EXCEPT ![on] = pending[on]]
        /\ pending' = [pending EXCEPT ![on] = None]
    BY <1>5 DEF Activate
  <2> QED
    BY <2>1 DEF PublishedInv, TypeOK
<1>6. CASE DropAngel \/ ReplaceState
  BY <1>6 DEF DropAngel, ReplaceState, DropRecord, PublishedInv
<1>7. CASE InstallBroker \/ MarkBrokerInstalled \/ InstallGateway
  BY <1>1, <1>7 DEF InstallBroker, MarkBrokerInstalled, InstallGateway, recordVars
<1>8. CASE \/ \E e \in Environments, change \in Changes : ChangeAvailability(e, change)
           \/ ChangeBroker \/ MarkBrokerChanged \/ ChangeGateway \/ Settle
  BY <1>1, <1>8 DEF ChangeAvailability, ChangeBroker, MarkBrokerChanged, ChangeGateway, Settle,
                    recordVars
<1>9. CASE \/ \E e \in Environments : CreateKey(e)
           \/ \E e \in Environments : \E key \in activeKeys[e] : RotateKey(e, key)
           \/ \E e \in Environments : \E key \in activeKeys[e] : RevokeKey(e, key)
           \/ ReconcileKeys \/ RecordKeys
  BY <1>1, <1>9 DEF CreateKey, RotateKey, RevokeKey, ChangeKeys, ReconcileKeys, RecordKeys,
                    recordVars
<1>10. CASE \/ \E confirmed \in BOOLEAN : DeleteAngel(confirmed)
            \/ LockGateway \/ DeleteAtBroker \/ DeleteAtGateway
            \/ ResetAccount \/ ResetAtBroker \/ ResetAtGateway
  BY <1>1, <1>10 DEF DeleteAngel, LockGateway, DeleteAtBroker, DeleteAtGateway, ResetAccount,
                     ResetAtBroker, ResetAtGateway, recordVars
<1>11. CASE Record \/ Interrupt \/ UNCHANGED vars \/ \E c \in Connections : ConnectionHealth(c)
  BY <1>1, <1>11 DEF Record, Interrupt, vars, ConnectionHealth, recordVars
<1> QED
  BY NextCases, <1>2, <1>3, <1>4, <1>5, <1>6, <1>7, <1>8, <1>9, <1>10, <1>11

LEMMA PublishedInvariant == Spec => []PublishedInv
<1>1. Init => PublishedInv
  BY DEF Init, PublishedInv
<1> QED
  BY <1>1, PublishedStep, TypeCorrect, PTL DEF Spec

(* Every promotion the dashboard offers is one the registry takes: what    *)
(* preview runs is published, and the Connections production has pass the  *)
(* deploy floor.                                                           *)
THEOREM PromotionIsAlwaysAccepted == Spec => []PromotionIsAccepted
<1>1. TypeOK /\ PublishedInv => PromotionIsAccepted
  <2> SUFFICES ASSUME TypeOK, PublishedInv, PromotionOffered(AngelView)
               PROVE  PromotionAccepted(AngelView.ready)
    BY DEF PromotionIsAccepted
  <2>0. "preview" \in Environments /\ "production" \in Environments
    BY DEF Environments
  <2>1. AngelView.ready = ReadyForProduction
    BY DEF AngelView
  <2>2. ReadyForProduction # None
    BY <2>1 DEF PromotionOffered
  <2>3. /\ ReadyForProduction.expectedDigest = active["preview"].version
        /\ ReadyForProduction.bindings = active["production"].connections
        /\ BindingsFitVersion(active["production"].connections)
        /\ active["preview"] # None
    BY <2>2 DEF ReadyForProduction
  <2>4. active["preview"].version \in published
    BY <2>0, <2>3 DEF PublishedInv
  <2>5. AvailabilityRepair("production") = None
    BY <2>0 DEF PromotionOffered, AngelView, EnvironmentView
  <2>6. pendingAvailability["production"] = None
    BY <2>0, <2>5, Types, PendingFields, NoneAssumption DEF AvailabilityRepair
  <2> QED
    BY <2>1, <2>3, <2>4, <2>6 DEF PromotionAccepted, BindingsFitVersion, ValidBindings
<1> QED
  BY <1>1, PublishedInvariant, TypeCorrect, PTL

-----------------------------------------------------------------------------
(* Every view passes both validators, part by part.                        *)

LEMMA ToolsAccepted ==
  ASSUME TypeOK, NEW e \in Environments, NEW t \in ToolViews(e)
  PROVE  t \in AcceptedTools /\ ValidTool(t)
<1>1. active[e] # None /\ active[e] \in Deployments
  BY Types, ToolViewFields DEF ToolsOf
<1>2. t.name \in Tools
  BY <1>1, ToolViewFields, RuntimeBindingsType
<1>3. ASSUME NEW c \in t.connections
      PROVE  /\ c.connectionId \in Connections
             /\ c.available \in BOOLEAN
             /\ c \in [connectionId : Connections, available : BOOLEAN]
  <2>1. active[e].connections \in SUBSET Connections
    BY <1>1, DeploymentFields
  <2>2. /\ c.connectionId \in active[e].connections /\ c.available \in BOOLEAN
        /\ c = [connectionId |-> c.connectionId, available |-> c.available]
    BY ToolViewFields
  <2> QED
    BY <2>1, <2>2
<1>4. t = [name |-> t.name, connections |-> t.connections]
  BY ToolViewFields
<1> QED
  BY <1>2, <1>3, <1>4 DEF AcceptedTools, ValidTool

(* What is shown as published and as deployed; a preview is never shown as *)
(* a production deployment.                                                *)
LEMMA LifecycleAccepted ==
  ASSUME TypeOK, NEW e \in Environments
  PROVE  /\ LifecycleEvents(e) \in Seq(AcceptedLifecycleEvents(e))
         /\ \A i \in DOMAIN LifecycleEvents(e) : ValidLifecycleEvent(LifecycleEvents(e)[i], e)
<1>1. CASE active[e] = None
  BY <1>1 DEF LifecycleEvents
<1>2. CASE active[e] # None
  <2> DEFINE first == [kind |-> "version_published", environment |-> e,
                       version |-> active[e].version, deploymentId |-> None, order |-> 0]
             second == [kind |-> DeployKind(e, active[e]), environment |-> e,
                        version |-> active[e].version, deploymentId |-> active[e].id,
                        order |-> 1]
  <2>1. active[e].id \in Nat /\ active[e].id # None /\ active[e].version \in Versions
    BY <1>2, Types, DeploymentFields, NoneAssumption
  <2>2. /\ DeployKind(e, active[e]) \in LifecycleKinds(e)
        /\ DeployKind(e, active[e]) # "version_published"
    BY DEF DeployKind, LifecycleKinds, Environments
  <2>3. first \in AcceptedLifecycleEvents(e) /\ ValidLifecycleEvent(first, e)
    BY <2>1 DEF AcceptedLifecycleEvents, ValidLifecycleEvent
  <2>4. second \in AcceptedLifecycleEvents(e) /\ ValidLifecycleEvent(second, e)
    BY <2>1, <2>2 DEF AcceptedLifecycleEvents, ValidLifecycleEvent
  <2>5. LifecycleEvents(e) = <<first, second>>
    BY <1>2 DEF LifecycleEvents
  <2> HIDE DEF first, second
  <2> QED
    BY <2>3, <2>4, <2>5
<1> QED
  BY <1>1, <1>2

LEMMA EnvironmentAccepted ==
  ASSUME TypeOK, NEW e \in Environments
  PROVE  /\ EnvironmentView(e) \in AcceptedEnvironments(e)
         /\ ValidEnvironment(EnvironmentView(e), e)
<1> DEFINE version == IF active[e] = None THEN None ELSE active[e].version
           deploymentId == IF active[e] = None THEN None ELSE active[e].id
           bindings == IF active[e] = None THEN {} ELSE active[e].connections
<1>1. /\ version \in Versions \cup {None}
      /\ deploymentId \in Nat \cup {None}
      /\ bindings \in SUBSET Connections
  BY Types, DeploymentFields
<1>2. AvailabilityRepair(e) \in Changes \cup {None}
  BY Types, PendingFields DEF AvailabilityRepair
<1>3. /\ EnvironmentKeyViews(e) \in SUBSET AcceptedAgentKeys
      /\ \A key \in EnvironmentKeyViews(e) : ValidAgentKey(key)
  <2>1. activeKeys[e] \in SUBSET Nat /\ revokedKeys[e] \in SUBSET Nat
    BY DEF TypeOK
  <2>2. ASSUME NEW key \in EnvironmentKeyViews(e)
        PROVE  key \in AcceptedAgentKeys /\ ValidAgentKey(key)
    BY <2>1 DEF EnvironmentKeyViews, AcceptedAgentKeys, ValidAgentKey
  <2> QED
    BY <2>2
<1>4. \A aligned : Aligned(aligned) \in {"aligned", "mismatched"}
  BY DEF Aligned
<1>5. /\ ToolViews(e) \in SUBSET AcceptedTools
      /\ \A t \in ToolViews(e) : ValidTool(t)
  BY ToolsAccepted
<1>6. EnvironmentView(e) =
        [version      |-> version,
         deploymentId |-> deploymentId,
         installation |-> Aligned(InstallationAligned(e)),
         availability |-> Aligned(AvailabilityAligned(e)),
         repair       |-> AvailabilityRepair(e),
         keys         |-> EnvironmentKeyViews(e),
         bindings     |-> bindings,
         tools        |-> ToolViews(e),
         lifecycle    |-> LifecycleEvents(e)]
  BY DEF EnvironmentView
<1> HIDE DEF version, deploymentId, bindings
<1>7. EnvironmentView(e) \in AcceptedEnvironments(e)
  BY <1>1, <1>2, <1>3, <1>4, <1>5, <1>6, LifecycleAccepted
     DEF AcceptedEnvironments, AcceptedRepairs
<1>8. ValidEnvironment(EnvironmentView(e), e)
  BY <1>1, <1>2, <1>3, <1>4, <1>5, <1>6, LifecycleAccepted
     DEF ValidEnvironment, ValidAvailabilityRepair
<1> QED
  BY <1>7, <1>8

LEMMA ReadyAccepted ==
  ASSUME TypeOK
  PROVE  ReadyForProduction \in AcceptedReady /\ ValidReady(ReadyForProduction)
<1> DEFINE preview == active["preview"]
           production == active["production"]
<1>1. CASE ReadyForProduction = None
  BY <1>1 DEF AcceptedReady, ValidReady
<1>2. CASE ReadyForProduction # None
  <2>1. preview # None /\ production # None
    BY <1>2 DEF ReadyForProduction
  <2>2. preview \in Deployments /\ production \in Deployments
    BY <2>1, Types DEF Environments
  <2>3. ReadyForProduction =
          [stagedDeploymentId |-> preview.id,
           expectedDigest     |-> preview.version,
           added              |-> ToolsOf(preview) \ ToolsOf(production),
           removed            |-> ToolsOf(production) \ ToolsOf(preview),
           bindings           |-> production.connections]
    BY <1>2 DEF ReadyForProduction
  <2>4. /\ preview.id \in Nat /\ preview.version \in Versions
        /\ production.connections \in SUBSET Connections
        /\ ToolsOf(preview) \in SUBSET Tools /\ ToolsOf(production) \in SUBSET Tools
    BY <2>2, DeploymentFields, RuntimeBindingsType
  <2> HIDE DEF preview, production
  <2> QED
    BY <2>3, <2>4 DEF AcceptedReady, ValidReady
<1> QED
  BY <1>1, <1>2

LEMMA ConnectionsAccepted ==
  ASSUME TypeOK, NEW connection \in ConnectionViews
  PROVE  connection \in AcceptedConnections /\ ValidConnection(connection)
<1> DEFINE bound == (UNION {{active[e], pending[e]} : e \in Environments}) \ {None}
<1>1. ASSUME NEW d \in bound PROVE d.connections \in SUBSET Connections
  <2>1. PICK e \in Environments : d \in {active[e], pending[e]} /\ d # None
    OBVIOUS
  <2>2. d \in Deployments
    BY <2>1, Types
  <2> QED
    BY <2>2, DeploymentFields
<1>2. PICK c \in UNION {d.connections : d \in bound} :
        connection = [id |-> c, health |-> IF c \in healthy THEN "healthy" ELSE "error"]
  BY DEF ConnectionViews
<1> HIDE DEF bound
<1>3. c \in Connections
  BY <1>1
<1> QED
  BY <1>2, <1>3 DEF AcceptedConnections, ValidConnection

(* Both validators pass every view of every recorded Angel: no Account     *)
(* loses its dashboard to what a command that was cut short left behind.   *)
THEOREM ViewIsAlwaysValid == Spec => []ViewIsValid
<1>1. TypeOK => ViewIsValid
  <2> SUFFICES ASSUME TypeOK
               PROVE  ValidAngel(AngelView) /\ AcceptsAngel(AngelView)
    BY DEF ViewIsValid
  <2> DEFINE environments == [e \in Environments |-> EnvironmentView(e)]
             enabled == \E t \in environments["production"].tools :
                          \E c \in t.connections : c.available
             versions == {[digest |-> v, status |-> VersionStatus(v)] : v \in published}
  <2>1. AngelView = [connections |-> ConnectionViews, enabled |-> enabled,
                     environments |-> environments, versions |-> versions,
                     ready |-> ReadyForProduction]
    BY DEF AngelView
  <2>2. enabled \in BOOLEAN
    OBVIOUS
  <2>3. versions \subseteq AcceptedVersions /\ \A version \in versions : ValidVersion(version)
    BY DEF VersionStatus, AcceptedVersions, ValidVersion, TypeOK
  <2>4. /\ DOMAIN environments = Environments
        /\ \A e \in Environments : /\ environments[e] \in AcceptedEnvironments(e)
                                   /\ ValidEnvironment(environments[e], e)
    BY EnvironmentAccepted
  <2> HIDE DEF environments, enabled, versions
  <2>5. ValidAngel(AngelView)
    BY <2>1, <2>3, <2>4, ReadyAccepted, ConnectionsAccepted DEF ValidAngel
  <2>6. AcceptsAngel(AngelView)
    BY <2>1, <2>2, <2>3, <2>4, ReadyAccepted, ConnectionsAccepted DEF AcceptsAngel
  <2> QED
    BY <2>5, <2>6
<1> QED
  BY <1>1, TypeCorrect, PTL
===============================================================================
