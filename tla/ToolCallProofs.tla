---------------------------- MODULE ToolCallProofs ----------------------------
(***************************************************************************)
(* Theorems about ToolCall, for every set of tools, Connections, Versions, *)
(* policies and arguments: a call executes under one decision, whatever    *)
(* Management does to the two gates meanwhile.                             *)
(***************************************************************************)
EXTENDS ToolCall, ConvergenceProofs, FiniteSetTheorems

(* A call takes no step that Management could not take beside it.          *)
LEMMA CallIsControlStep ==
  ASSUME TypeOK, [CallNext]_allVars
  PROVE  [Next]_vars
<1>1. CASE Control
  BY <1>1 DEF Control
<1>2. CASE \/ GatewayDenies \/ GatewayAllows \/ EvaluateBroker \/ Lease \/ Invoke \/ Respond
           \/ Fail \/ UNCHANGED allVars
           \/ \E e, tool, arguments, key, selector : CallTool(e, key, tool, selector, arguments)
  <2>1. UNCHANGED vars
    BY <1>2 DEF GatewayDenies, GatewayAllows, EvaluateBroker, Lease, Invoke, Respond, Fail,
                CallTool, allVars
  <2> QED
    BY <2>1
<1>3. CASE RefreshRefused
  <2> DEFINE c == found.connectionRef[2]
  <2>1. /\ healthy' = healthy \ {c} /\ healthy \in SUBSET Connections
        /\ UNCHANGED <<recordVars, gateVars, commandVars, minted, mintedKeys, torn>>
    BY <1>3 DEF RefreshRefused, TypeOK
  <2>2. CASE c \in healthy
    <3>1. c \in Connections /\ ConnectionHealth(c)
      BY <2>1, <2>2 DEF ConnectionHealth
    <3> QED
      BY <3>1 DEF Next
  <2>3. CASE c \notin healthy
    <3>1. healthy' = healthy
      BY <2>1, <2>3
    <3> QED
      BY <2>1, <3>1 DEF vars, worldVars
  <2> QED
    BY <2>2, <2>3
<1> QED
  BY <1>1, <1>2, <1>3 DEF CallNext, CallStep

(* Calls change nothing of what is proved of Management: with calls beside *)
(* it, it behaves as it does alone.                                        *)
THEOREM CallsLeaveManagementAlone == CallSpec => Spec
<1>1. CallInit => Init
  BY DEF CallInit
<1>2. RecordInv /\ [CallNext]_allVars => RecordInv' /\ [Next]_vars
  BY CallIsControlStep, RecordStep DEF RecordInv
<1> QED
  BY <1>1, <1>2, RecordInit, PTL DEF CallSpec, Spec

-----------------------------------------------------------------------------
(* What Management moves while a call is under way.                        *)

(* Every step that is not about the two gates, or about what is recorded   *)
(* of them.                                                                *)
placeVars == <<installed, gateAvailability, active, pending, minted, torn>>

LEMMA PlaceMoves ==
  ASSUME TypeOK, CommandOK, [Next]_vars
  PROVE  \/ UNCHANGED placeVars
         \/ \E e \in Environments : \E v, connections, provenance :
              Deploy(e, v, connections, provenance)
         \/ InstallBroker \/ InstallGateway \/ ChangeBroker \/ ChangeGateway
         \/ Activate
         \/ DropAngel \/ ReplaceState
         \/ torn' /\ UNCHANGED minted
<1>1. CASE \/ EnsureAngel \/ \E v \in Versions : PublishVersion(v)
           \/ MarkBrokerInstalled \/ MarkBrokerChanged \/ Settle
           \/ \E e, change : ChangeAvailability(e, change)
           \/ Record \/ Interrupt \/ UNCHANGED vars
           \/ \E c \in Connections : ConnectionHealth(c)
  BY <1>1 DEF EnsureAngel, PublishVersion, MarkBrokerInstalled, MarkBrokerChanged, Settle,
              ChangeAvailability, Record, Interrupt, ConnectionHealth, vars, gateVars, recordVars,
              worldVars, placeVars
<1>2. CASE \/ \E e : CreateKey(e) \/ \E key : RotateKey(e, key) \/ RevokeKey(e, key)
           \/ ReconcileKeys \/ RecordKeys \/ LockGateway \/ ResetAccount
           \/ \E confirmed : DeleteAngel(confirmed)
  BY <1>2 DEF CreateKey, RotateKey, RevokeKey, ChangeKeys, ReconcileKeys, RecordKeys, LockGateway,
              ResetAccount, DeleteAngel, gateVars, recordVars, worldVars, placeVars
<1>3. CASE DeleteAtBroker \/ DeleteAtGateway \/ ResetAtBroker \/ ResetAtGateway
  BY <1>3 DEF DeleteAtBroker, DeleteAtGateway, ResetAtBroker, ResetAtGateway, ResetGate, worldVars
<1>4. "production" \in Environments
  BY DEF Environments
<1> QED
  BY NextCases, <1>1, <1>2, <1>3, <1>4 DEF PromoteProduction

(* A gate that stands beyond a receipt's identity: it was reset, or has a  *)
(* newer deployment, or a newer overlay on the same one.                   *)
Past(x, g, e) ==
  \/ installed[g][e] = None
  \/ installed[g][e].id > x.deployment.id
  \/ /\ installed[g][e].id = x.deployment.id
     /\ gateAvailability[g][e].revision > x.availability.revision

(* The Gateway still stands where it gave this receipt; or it has left,    *)
(* and then neither gate ever comes back there.                            *)
Stands(x, e) ==
  /\ installed["gateway"][e] = x.deployment
  /\ gateAvailability["gateway"][e] = x.availability

Left(x, e) ==
  /\ \A g \in Gates : Past(x, g, e)
  /\ active[e] = None /\ pending[e] # None => pending[e].id > x.deployment.id

LEMMA IdentityFields ==
  ASSUME NEW x, x.deployment \in Deployments, x.availability \in Availabilities
  PROVE  /\ x.deployment # None /\ x.deployment.id \in Nat \ {0}
         /\ x.availability.revision \in Nat
BY DeploymentFields, AvailabilityFields

(* The Gateway leaves for what the Broker has already.                     *)
LEMMA GatewayLeaves ==
  ASSUME TypeOK, OneRepair, CommandOK, OverlayInv, ConvergeInv, ~torn, NEW e \in Environments,
         InstallGateway \/ ChangeGateway, on = e,
         NEW x, x.deployment \in Deployments, x.availability \in Availabilities,
         Stands(x, e)
  PROVE  Stands(x, e)' \/ Left(x, e)'
<1>0. /\ x.deployment # None /\ x.deployment.id \in Nat /\ x.availability.revision \in Nat
      /\ RecordOverlay(e) /\ MintedInOrder(e) /\ Converging(e) /\ Progress
      /\ AtRecord("gateway", e) \/ AtTarget("gateway", e)
  BY IdentityFields DEF OverlayInv, ConvergeInv, Converging, Gates
<1>1. CASE InstallGateway
  <2>1. /\ pending[e] # None /\ pendingAvailability[e] = None
        /\ ReconcileGate("gateway", e) /\ AtPendingDeployment("broker", e)
        /\ UNCHANGED <<active, pending>>
    BY <1>0, <1>1 DEF InstallGateway, Step, CommandOK, DeploySteps, OneRepair, Progress, recordVars
  <2>2. CASE installed["gateway"][e] = pending[e]
    <3>1. /\ installed'["gateway"][e] = installed["gateway"][e]
          /\ gateAvailability'["gateway"][e] = gateAvailability["gateway"][e]
      BY <2>1, <2>2, InstallOverlay DEF Gates
    <3> QED
      BY <3>1 DEF Stands
  <2>3. CASE installed["gateway"][e] # pending[e]
    <3>1. /\ installed["gateway"][e] = active[e] /\ active[e] = x.deployment
      BY <1>0, <2>1, <2>3 DEF AtRecord, AtTarget, AtPendingDeployment, AtPendingChange, Stands
    <3>2. pending[e].id > x.deployment.id
      BY <1>0, <2>1, <3>1, Types, DeploymentFields DEF MintedInOrder
    <3>3. installed'["gateway"][e] = pending[e] /\ installed'["broker"][e] = pending[e]
      BY <2>1, InstallOverlay DEF Gates, AtPendingDeployment
    <3> QED
      BY <1>0, <2>1, <3>1, <3>2, <3>3 DEF Left, Past, Gates
  <2> QED
    BY <2>2, <2>3
<1>2. CASE ChangeGateway
  <2> DEFINE p == pendingAvailability[e]
  <2>1. /\ p # None /\ pending[e] = None
        /\ ReconcileAvailabilityGate("gateway", e) /\ AtPendingChange("broker", e)
        /\ UNCHANGED <<active, pending>>
    BY <1>0, <1>2 DEF ChangeGateway, Step, CommandOK, ChangeSteps, OneRepair, Progress, recordVars
  <2>2. CASE gateAvailability["gateway"][e] = p.target
    <3>1. UNCHANGED <<installed, gateAvailability>>
      BY <2>1, <2>2 DEF ReconcileAvailabilityGate, gateVars
    <3> QED
      BY <3>1 DEF Stands
  <2>3. CASE gateAvailability["gateway"][e] # p.target
    <3>1. /\ installed["gateway"][e] = active[e] /\ active[e] = x.deployment
          /\ availability[e] = x.availability
      BY <1>0, <2>1, <2>3 DEF AtRecord, AtTarget, AtPendingDeployment, AtPendingChange, Stands
    <3>2. p.target.revision = x.availability.revision + 1
      BY <2>1, <3>1, TargetOverlay
    <3>3. /\ installed' = installed /\ gateAvailability'["gateway"][e] = p.target
          /\ gateAvailability'["broker"][e] = p.target
          /\ installed["broker"][e] = active[e]
      BY <2>1, ChangeOverlay DEF Gates, AtPendingChange
    <3> QED
      BY <1>0, <2>1, <3>1, <3>2, <3>3 DEF Left, Past, Gates
  <2> QED
    BY <2>2, <2>3
<1> QED
  BY <1>1, <1>2

(* A gate that is past a receipt stays so when it is moved.                *)
LEMMA StaysPast ==
  ASSUME TypeOK, OneRepair, OverlayInv, ConvergeInv, ~torn, NEW e \in Environments, NEW g \in Gates,
         \/ pending[e] # None /\ ReconcileGate(g, e)
         \/ pendingAvailability[e] # None /\ ReconcileAvailabilityGate(g, e),
         NEW x, x.deployment \in Deployments, x.availability \in Availabilities, Left(x, e)
  PROVE  Past(x, g, e)'
<1>0. /\ x.deployment.id \in Nat /\ x.availability.revision \in Nat
      /\ MintedInOrder(e) /\ GateOverlay(g, e) /\ Past(x, g, e)
      /\ AtRecord(g, e) \/ AtTarget(g, e)
      /\ minted[e] \in Nat
      /\ gateAvailability[g][e].revision \in Nat
      /\ installed[g][e] # None => installed[g][e].id \in Nat
  BY IdentityFields, Types, DeploymentFields, AvailabilityFields
     DEF OverlayInv, ConvergeInv, Converging, Left
<1>1. CASE pending[e] # None /\ ReconcileGate(g, e)
  <2>1. /\ installed'[g][e] = pending[e] /\ pending[e].id = minted[e]
        /\ gateAvailability'[g][e].revision = gateAvailability[g][e].revision
    BY <1>0, <1>1, InstallOverlay DEF MintedInOrder
  <2>2. CASE installed[g][e] = None
    <3>1. active[e] = None
      BY <1>0, <1>1, <2>2 DEF AtRecord, AtTarget, AtPendingDeployment, AtPendingChange, OneRepair
    <3> QED
      BY <1>1, <2>1, <3>1 DEF Left, Past
  <2>3. CASE installed[g][e] # None
    <3>1. installed[g][e].id <= pending[e].id
      BY <1>0, <2>1, <2>3 DEF GateOverlay
    <3> QED
      BY <1>0, <2>1, <2>3, <3>1 DEF Past
  <2> QED
    BY <2>2, <2>3
<1>2. CASE pendingAvailability[e] # None /\ ReconcileAvailabilityGate(g, e)
  <2>1. /\ installed' = installed
        /\ \/ gateAvailability'[g][e] = gateAvailability[g][e]
           \/ gateAvailability'[g][e].revision = gateAvailability[g][e].revision + 1
    BY <1>2, ChangeOverlay
  <2> QED
    BY <1>0, <2>1 DEF Past
<1> QED
  BY <1>1, <1>2

(* Wherever commands are cut short: once the Gateway has left the place    *)
(* where it gave a receipt, no step brings the Broker there.               *)
LEMMA PlaceStep ==
  ASSUME RecordInv, OverlayInv, ClosedInv, ConvergeInv, [Next]_vars, NEW e \in Environments,
         NEW x, x.deployment \in Deployments, x.availability \in Availabilities,
         x.deployment.id <= minted[e], torn \/ Stands(x, e) \/ Left(x, e)
  PROVE  /\ x.deployment.id <= minted'[e]
         /\ torn' \/ Stands(x, e)' \/ Left(x, e)'
<1>0. /\ TypeOK /\ OneRepair /\ CommandOK
      /\ x.deployment.id \in Nat /\ minted[e] \in Nat /\ on \in Environments
  BY IdentityFields, Types DEF RecordInv, TypeOK
<1> DEFINE Goal == /\ x.deployment.id <= minted'[e]
                   /\ torn' \/ Stands(x, e)' \/ Left(x, e)'
<1> SUFFICES Goal
  OBVIOUS
<1>1. CASE UNCHANGED placeVars
  BY <1>1 DEF placeVars, Stands, Left, Past
<1>2. ASSUME NEW f \in Environments, NEW v, NEW connections, NEW provenance,
             Deploy(f, v, connections, provenance)
      PROVE  Goal
  <2>1. UNCHANGED <<active, installed, gateAvailability, torn>>
    BY <1>2 DEF Deploy, gateVars
  <2>2. \/ UNCHANGED <<minted, pending>>
        \/ /\ minted'[f] = minted[f] + 1 /\ pending'[f].id = minted[f] + 1
           /\ \A h \in Environments \ {f} : minted'[h] = minted[h] /\ pending'[h] = pending[h]
    BY <1>0, <1>2 DEF Deploy, NewDeployment, SameDeployment, TypeOK
  <2>3. x.deployment.id <= minted'[e]
    BY <1>0, <2>2
  <2>4. Left(x, e) => Left(x, e)'
    <3>1. CASE UNCHANGED <<minted, pending>>
      BY <2>1, <3>1 DEF Left, Past
    <3>2. CASE f # e
      BY <2>1, <2>2, <3>2 DEF Left, Past
    <3>3. CASE f = e /\ pending'[e].id = minted[e] + 1
      BY <1>0, <2>1, <3>3 DEF Left, Past
    <3> QED
      BY <2>2, <3>1, <3>2, <3>3
  <2> QED
    BY <2>1, <2>3, <2>4 DEF Stands
<1>3. CASE InstallBroker \/ InstallGateway \/ ChangeBroker \/ ChangeGateway
  <2>1. UNCHANGED <<active, pending, minted, torn>> /\ on = on'
    BY <1>3 DEF InstallBroker, InstallGateway, ChangeBroker, ChangeGateway, Step, recordVars,
                worldVars
  <2>2. PICK f \in Environments : on = f
    BY <1>0
  <2>3. PICK g \in Gates :
          /\ \/ pending[f] # None /\ ReconcileGate(g, f)
             \/ pendingAvailability[f] # None /\ ReconcileAvailabilityGate(g, f)
          /\ g = "gateway" => InstallGateway \/ ChangeGateway
    BY <1>0, <1>3, <2>2 DEF InstallBroker, InstallGateway, ChangeBroker, ChangeGateway, Step, Gates,
       CommandOK, DeploySteps, ChangeSteps
  <2>4. \A h \in Gates : <<h, e>> # <<g, f>> =>
          /\ installed'[h][e] = installed[h][e]
          /\ gateAvailability'[h][e] = gateAvailability[h][e]
    BY <1>0, <2>3, InstallOverlay, ChangeOverlay
  <2>5. ASSUME ~torn, Left(x, e) PROVE Left(x, e)'
    <3>1. ASSUME NEW h \in Gates PROVE Past(x, h, e)'
      <4>1. CASE <<h, e>> = <<g, f>>
        BY <1>0, <2>3, <2>5, <4>1, StaysPast
      <4>2. CASE <<h, e>> # <<g, f>>
        BY <2>4, <2>5, <4>2 DEF Left, Past
      <4> QED
        BY <4>1, <4>2
    <3> QED
      BY <2>1, <2>5, <3>1 DEF Left
  <2>6. ASSUME ~torn, Stands(x, e) PROVE Stands(x, e)' \/ Left(x, e)'
    <3>1. CASE <<"gateway", e>> = <<g, f>>
      BY <1>0, <2>2, <2>3, <2>6, <3>1, GatewayLeaves
    <3>2. CASE <<"gateway", e>> # <<g, f>>
      BY <2>4, <2>6, <3>2 DEF Stands, Gates
    <3> QED
      BY <3>1, <3>2
  <2> QED
    BY <2>1, <2>5, <2>6
<1>4. CASE Activate
  <2>1. /\ UNCHANGED <<installed, gateAvailability, minted, torn>>
        /\ active'[on] = pending[on] /\ pending[on] # None
        /\ \A f \in Environments \ {on} : active'[f] = active[f] /\ pending'[f] = pending[f]
    BY <1>0, <1>4 DEF Activate, Step, CommandOK, DeploySteps, gateVars, worldVars, TypeOK
  <2>2. Left(x, e) => Left(x, e)'
    BY <1>0, <2>1 DEF Left, Past
  <2> QED
    BY <2>1, <2>2 DEF Stands
<1>5. CASE DropAngel \/ ReplaceState
  <2>1. /\ pc \in {"drop", "replace"} /\ UNCHANGED <<installed, gateAvailability, minted>>
        /\ pending'[e] = None
    BY <1>5 DEF DropAngel, ReplaceState, DropRecord, Step, gateVars, worldVars
  <2>2. \A g \in Gates : installed[g][e] = None
    BY <2>1 DEF ClosedInv, Closed
  <2> QED
    BY <2>1, <2>2 DEF Left, Past
<1>6. CASE torn' /\ UNCHANGED minted
  BY <1>6
<1> QED
  BY <1>0, PlaceMoves, <1>1, <1>2, <1>3, <1>4, <1>5, <1>6

-----------------------------------------------------------------------------
(* The arguments: what one gate lets through the other has nothing to add  *)
(* to.                                                                     *)
LEMMA MaterializeTwice ==
  ASSUME NEW entries, NEW defaults
  PROVE  Materialize(Materialize(entries, defaults), defaults) = Materialize(entries, defaults)
<1> DEFINE m == Materialize(entries, defaults)
<1>1. ASSUME NEW d \in defaults, Named(m, d[1]) = {} PROVE FALSE
  <2>1. Named(entries, d[1]) = {}
    BY <1>1 DEF Materialize, Named
  <2>2. ScalarEntry(d[1], d[2]) \in m
    BY <2>1 DEF Materialize
  <2>3. ScalarEntry(d[1], d[2]).field = d[1] /\ ScalarEntry(d[1], d[2]).exact
    BY DEF ScalarEntry
  <2> QED
    BY <1>1, <2>2, <2>3 DEF Named
<1> HIDE DEF m
<1>2. {n \in defaults : Named(m, n[1]) = {}} = {}
  BY <1>1
<1>3. Materialize(m, defaults) = m \cup {ScalarEntry(d[1], d[2]) : d \in {}}
  BY <1>2 DEF Materialize
<1> QED
  BY <1>3 DEF m

LEMMA EffectiveTwice ==
  ASSUME NEW policy, NEW object \in ArgumentObjects
  PROVE  /\ EffectiveArguments(policy, EffectiveArguments(policy, object))
              = EffectiveArguments(policy, object)
         /\ EvaluateToolCall(policy, object)
              => EvaluateToolCall(policy, EffectiveArguments(policy, object))
<1> DEFINE filled == Materialize(object.entries, ArgumentDefaults(policy))
<1>1. EffectiveArguments(policy, object) = [deep |-> object.deep, entries |-> filled]
  BY DEF EffectiveArguments, ArgumentObjects
<1>2. Materialize(filled, ArgumentDefaults(policy)) = filled
  BY MaterializeTwice
<1> HIDE DEF filled
<1>3. EffectiveArguments(policy, [deep |-> object.deep, entries |-> filled])
        = [deep |-> object.deep, entries |-> filled]
  BY <1>2 DEF EffectiveArguments
<1> QED
  BY <1>1, <1>3 DEF EvaluateToolCall

-----------------------------------------------------------------------------
(* What is known of a call at each of its steps.                           *)

PolicyOf(d) == VersionPolicy[d.version]

(* The Connections a gate with this deployment and overlay lets a tool     *)
(* have.                                                                   *)
ActiveIn(x, tool) ==
  {b[2] : b \in {n \in RuntimeBindings(x.deployment) :
                   n[1] = tool /\ IsToolConnectionEnabled(x.availability, tool, n[2])}}

RequestOK ==
  request \in [environment : Environments, key : Nat, tool : Tools, selector : Refs \cup {None},
               arguments : Arguments]

(* The Gateway let it through.                                             *)
Admitted ==
  /\ expected.deployment \in Deployments /\ expected.availability \in Availabilities
  /\ expected # None
  /\ expected.connectionRef \in ActiveIn(expected, request.tool)
  /\ request.selector \in {None, expected.connectionRef}
  /\ request.selector = None => Cardinality(ActiveIn(expected, request.tool)) = 1
  /\ EvaluateToolCall(PolicyOf(expected.deployment), request.arguments)
  /\ sent = EffectiveArguments(PolicyOf(expected.deployment), request.arguments)

(* It is on its way to the Broker.                                         *)
Underway ==
  LET e == request.environment
  IN  /\ expected.deployment.id <= minted[e]
      /\ torn \/ Stands(expected, e) \/ Left(expected, e)

CallInv ==
  /\ phase \in {"none", "gateway", "broker", "lease", "provider", "respond"}
  /\ phase # "none" => RequestOK
  /\ phase \notin {"none", "gateway"} => Admitted
  /\ phase = "broker" => Underway
  /\ phase \in {"lease", "provider", "respond"} => found = expected
  /\ phase \in {"lease", "provider"} =>
       Expressible(PolicyOf(expected.deployment), sent.entries)

LEMMA ActiveInRefs ==
  ASSUME NEW x, x.deployment \in Deployments \cup {None}, NEW tool, NEW ref \in ActiveIn(x, tool)
  PROVE  /\ ref \in Refs /\ ref # None
         /\ <<tool, ref>> \in RuntimeBindings(x.deployment)
         /\ IsToolConnectionEnabled(x.availability, tool, ref)
<1>1. PICK n \in RuntimeBindings(x.deployment) :
        n[1] = tool /\ IsToolConnectionEnabled(x.availability, tool, n[2]) /\ ref = n[2]
  BY DEF ActiveIn
<1>2. n \in Tools \X Refs
  BY RuntimeBindingsType DEF Bindings
<1> QED
  BY <1>1, <1>2, RequestsAssumption

LEMMA CallInvInit == CallInit => CallInv
BY DEF CallInit, CallInv

(* A call that is over leaves nothing to be known of.                      *)
LEMMA FinishKeepsInv ==
  ASSUME NEW outcome, Finish(outcome)
  PROVE  CallInv'
BY DEF Finish, CallInv

LEMMA ControlKeepsCall ==
  ASSUME RecordInv, OverlayInv, ClosedInv, ConvergeInv, CallInv, Next, UNCHANGED callVars
  PROVE  CallInv'
<1>1. UNCHANGED <<phase, request, expected, found, sent>>
  BY DEF callVars
<1>2. ASSUME phase = "broker" PROVE Underway'
  <2>1. PICK x, e : x = expected /\ e = request.environment
    OBVIOUS
  <2>2. /\ e \in Environments
        /\ x.deployment \in Deployments /\ x.availability \in Availabilities
        /\ x.deployment.id <= minted[e]
        /\ torn \/ Stands(x, e) \/ Left(x, e)
    BY <1>2, <2>1 DEF CallInv, RequestOK, Admitted, Underway
  <2>3. /\ x.deployment.id <= minted'[e]
        /\ torn' \/ Stands(x, e)' \/ Left(x, e)'
    BY <2>2, PlaceStep
  <2>4. expected' = x /\ request'.environment = e
    BY <1>1, <2>1
  <2> QED
    BY <2>3, <2>4 DEF Underway, Stands, Left, Past
<1>3. phase \notin {"none", "gateway"} => Admitted'
  BY <1>1 DEF CallInv, Admitted
<1>4. phase # "none" => RequestOK'
  BY <1>1 DEF CallInv, RequestOK
<1> QED
  BY <1>1, <1>2, <1>3, <1>4 DEF CallInv

(* A gate selects among its active Connections.                            *)
LEMMA SelectionFacts ==
  ASSUME NEW g, NEW e, NEW tool, NEW selector, NEW ref \in Selection(g, e, tool, selector),
         NEW x, x.deployment = installed[g][e], x.availability = gateAvailability[g][e]
  PROVE  /\ ActiveRefs(g, e, tool) = ActiveIn(x, tool)
         /\ ref \in ActiveIn(x, tool)
         /\ selector \in {None, ref}
         /\ selector = None => Cardinality(ActiveIn(x, tool)) = 1
<1>1. ActiveRefs(g, e, tool) = ActiveIn(x, tool)
  BY DEF ActiveRefs, ActiveIn
<1> QED
  BY <1>1 DEF Selection

LEMMA CallToolKeepsInv ==
  ASSUME TypeOK, NEW e \in Environments, NEW tool \in Tools, NEW arguments \in Arguments,
         NEW key \in 0..mintedKeys[e], NEW selector \in MintedRefs(e) \cup {None},
         CallTool(e, key, tool, selector, arguments)
  PROVE  CallInv'
<1>1. CASE key \in gatewayKeys[e]
  <2>1. /\ phase' = "gateway"
        /\ request' = [environment |-> e, key |-> key, tool |-> tool, selector |-> selector,
                       arguments |-> arguments]
    BY <1>1 DEF CallTool
  <2>2. key \in Nat
    BY <1>1 DEF TypeOK
  <2>3. selector \in Refs \cup {None}
    BY DEF MintedRefs, Refs, TypeOK
  <2> QED
    BY <2>1, <2>2, <2>3 DEF CallInv, RequestOK
<1>2. CASE key \notin gatewayKeys[e]
  BY <1>2, FinishKeepsInv DEF CallTool
<1> QED
  BY <1>1, <1>2

LEMMA GatewayAllowsKeepsInv ==
  ASSUME TypeOK, OverlayInv, CallInv, GatewayAllows
  PROVE  CallInv'
<1>0. /\ RequestOK /\ UNCHANGED <<vars, request>> /\ phase' = "broker"
      /\ request.environment \in Environments
  BY DEF GatewayAllows, CallInv, RequestOK
<1>1. PICK e \in Environments : e = request.environment
  BY <1>0
<1>2. PICK ref \in Selection("gateway", e, request.tool, request.selector) :
        expected' = ReceiptIdentity("gateway", e, request.tool, ref)
  BY <1>1 DEF GatewayAllows
<1>3. PICK x : x = expected'
  OBVIOUS
<1>4. /\ x.deployment = installed["gateway"][e] /\ x.availability = gateAvailability["gateway"][e]
      /\ x.connectionRef = ref
  BY <1>2, <1>3 DEF ReceiptIdentity
<1>5. x.deployment \in Deployments /\ x.availability \in Availabilities
  BY <1>1, <1>4, Types DEF GatewayAllows, Gates
<1>6. /\ ref \in ActiveIn(x, request.tool)
      /\ request.selector \in {None, ref}
      /\ request.selector = None => Cardinality(ActiveIn(x, request.tool)) = 1
  BY <1>4, SelectionFacts
<1>7. /\ EvaluateToolCall(PolicyOf(x.deployment), request.arguments)
      /\ sent' = EffectiveArguments(PolicyOf(x.deployment), request.arguments)
  BY <1>1, <1>4 DEF GatewayAllows, PolicyAt, PolicyOf
<1>8. Admitted'
  <2>0. expected' # None
    <3>1. ref \in Refs
      BY <1>5, <1>6, ActiveInRefs
    <3>2. expected' \in ReceiptIdentities
      BY <1>0, <1>2, <1>3, <1>4, <1>5, <3>1 DEF ReceiptIdentity, ReceiptIdentities, RequestOK
    <3> QED
      BY <3>2, RequestsAssumption
  <2>1. ActiveIn(expected, request.tool)' = ActiveIn(x, request.tool)
    BY <1>0, <1>3 DEF ActiveIn
  <2> QED
    BY <1>0, <1>3, <1>4, <1>5, <1>6, <1>7, <2>0, <2>1 DEF Admitted
<1>9. Underway'
  <2>1. GateOverlay("gateway", e)
    BY DEF OverlayInv, Gates
  <2>2. x.deployment.id <= minted[e]
    BY <1>4, <1>5, <2>1, DeploymentFields DEF GateOverlay
  <2>3. UNCHANGED <<installed, gateAvailability, minted>>
    BY <1>0 DEF vars, gateVars, worldVars
  <2> QED
    BY <1>0, <1>1, <1>3, <1>4, <2>2, <2>3 DEF Underway, Stands
<1> QED
  BY <1>0, <1>8, <1>9 DEF CallInv, RequestOK

(* The Broker decides about what the Gateway decided about: there its      *)
(* identity is the same, and the arguments stay as they were sent.         *)
LEMMA BrokerGoesOn ==
  ASSUME TypeOK, CallInv, EvaluateBroker, phase' = "lease"
  PROVE  /\ UNCHANGED <<vars, request, expected, answer>>
         /\ found' = expected
         /\ sent' = sent
         /\ expected.deployment = installed["broker"][request.environment]
         /\ expected.availability = gateAvailability["broker"][request.environment]
         /\ Expressible(PolicyOf(expected.deployment), sent.entries)
<1> DEFINE e == request.environment
           effective == EffectiveArguments(PolicyAt("broker", e), sent)
<1>0. Admitted /\ RequestOK
  BY DEF CallInv, EvaluateBroker
<1>1. /\ ~ReceiptMismatch(expected, BrokerIdentity(e))
      /\ Expressible(PolicyAt("broker", e), effective.entries)
      /\ found' = BrokerIdentity(e) /\ sent' = effective
      /\ UNCHANGED <<vars, request, expected, answer>>
  BY DEF EvaluateBroker, Finish
<1>2. expected = BrokerIdentity(e)
  BY <1>1 DEF ReceiptMismatch
<1>3. /\ expected.deployment = installed["broker"][e]
      /\ expected.availability = gateAvailability["broker"][e]
  BY <1>2 DEF BrokerIdentity, ReceiptIdentity
<1>4. effective = sent
  <2>1. PolicyAt("broker", e) = PolicyOf(expected.deployment)
    BY <1>3 DEF PolicyAt, PolicyOf
  <2>2. request.arguments \in ArgumentObjects
    BY <1>0, ArgumentsAssumption DEF RequestOK
  <2> QED
    BY <1>0, <2>1, <2>2, EffectiveTwice DEF Admitted
<1>5. PolicyAt("broker", e) = PolicyOf(expected.deployment)
  BY <1>3 DEF PolicyAt, PolicyOf
<1> HIDE DEF effective
<1> QED
  BY <1>1, <1>2, <1>3, <1>4, <1>5

LEMMA CallInvStep ==
  ASSUME RecordInv, OverlayInv, ClosedInv, ConvergeInv, CallInv, [CallNext]_allVars
  PROVE  CallInv'
<1>0. TypeOK
  BY DEF RecordInv
<1>1. CASE Control
  BY <1>1, ControlKeepsCall DEF Control
<1>2. ASSUME NEW e \in Environments, NEW tool \in Tools, NEW arguments \in Arguments,
             NEW key \in 0..mintedKeys[e], NEW selector \in MintedRefs(e) \cup {None},
             CallTool(e, key, tool, selector, arguments)
      PROVE  CallInv'
  BY <1>0, <1>2, CallToolKeepsInv
<1>3. CASE GatewayDenies
  BY <1>3, FinishKeepsInv DEF GatewayDenies
<1>4. CASE GatewayAllows
  BY <1>0, <1>4, GatewayAllowsKeepsInv
<1>5. CASE EvaluateBroker
  <2>1. CASE \E outcome : Finish(outcome)
    BY <2>1, FinishKeepsInv
  <2>2. CASE phase' = "lease"
    <3>1. Admitted /\ RequestOK
      BY <1>5 DEF CallInv, EvaluateBroker
    <3>2. Admitted' /\ RequestOK'
      BY <1>0, <1>5, <2>2, <3>1, BrokerGoesOn DEF Admitted, RequestOK, ActiveIn
    <3> QED
      BY <1>0, <1>5, <2>2, <3>2, BrokerGoesOn DEF CallInv
  <2> QED
    BY <1>5, <2>1, <2>2 DEF EvaluateBroker
<1>6. CASE Lease \/ Invoke
  BY <1>6 DEF Lease, Invoke, CallInv, RequestOK, Admitted
<1>7. CASE RefreshRefused \/ Respond \/ Fail
  BY <1>7, FinishKeepsInv DEF RefreshRefused, Respond, Fail
<1>8. CASE UNCHANGED allVars
  <2>1. UNCHANGED <<phase, request, expected, found, sent, minted, torn, installed,
                    gateAvailability, active, pending>>
    BY <1>8 DEF allVars, callVars, vars, recordVars, gateVars, worldVars
  <2> QED
    BY <2>1 DEF CallInv, RequestOK, Admitted, Underway, Stands, Left, Past
<1> QED
  BY <1>1, <1>2, <1>3, <1>4, <1>5, <1>6, <1>7, <1>8 DEF CallNext, CallStep

LEMMA CallInvariant ==
  CallSpec => [](RecordInv /\ OverlayInv /\ ClosedInv /\ ConvergeInv /\ CallInv)
<1>1. CallSpec => [](RecordInv /\ OverlayInv /\ ClosedInv /\ ConvergeInv)
  BY CallsLeaveManagementAlone, RecordInvariant, OverlayInvariant, ClosedInvariant,
     ConvergeInvariant, PTL
<1>2. RecordInv /\ OverlayInv /\ ClosedInv /\ ConvergeInv /\ CallInv /\ [CallNext]_allVars
      => CallInv'
  BY CallInvStep
<1> QED
  BY <1>1, <1>2, CallInvInit, PTL DEF CallSpec

-----------------------------------------------------------------------------
(* The arguments the second gate looks at (evaluateToolCall in             *)
(* packages/core/src/decision.ts, called by both gates) are allowed there  *)
(* too and are not changed: what was guarded and recorded at the Gateway   *)
(* is what the Broker sends.                                               *)
THEOREM ArgumentsStaySame == CallSpec => []SameArguments
<1>1. CallInv => SameArguments
  <2> SUFFICES ASSUME CallInv, phase = "broker"
               PROVE  LET policy == VersionPolicy[expected.deployment.version]
                      IN  /\ EvaluateToolCall(policy, sent)
                          /\ EffectiveArguments(policy, sent) = sent
    BY DEF SameArguments
  <2>1. Admitted /\ request.arguments \in ArgumentObjects
    BY ArgumentsAssumption DEF CallInv, RequestOK
  <2> QED
    BY <2>1, EffectiveTwice DEF Admitted, PolicyOf
<1> QED
  BY <1>1, CallInvariant, PTL

(* A pause Management has answered (changeAvailability in                  *)
(* src/src/management.ts) holds for every call that has not passed the     *)
(* Broker yet (src/src/workers/broker.ts).                                 *)
THEOREM PausesAlwaysTakeEffect == CallSpec => PauseTakesEffect
<1> DEFINE Effective ==
     phase = "broker" /\ phase' = "lease" =>
       LET e == request.environment
       IN  torn \/ repair[e] # "none" \/ RecordPermits(e, request.tool, expected.connectionRef)
<1>1. RecordInv /\ ConvergeInv /\ CallInv /\ [CallNext]_allVars => [Effective]_allVars
  <2> SUFFICES ASSUME RecordInv, ConvergeInv, CallInv, [CallNext]_allVars,
                      phase = "broker", phase' = "lease", ~torn,
                      NEW e, e = request.environment, repair[e] = "none"
               PROVE  RecordPermits(e, request.tool, expected.connectionRef)
    OBVIOUS
  <2>1. EvaluateBroker
    BY DEF CallNext, CallStep, Control, callVars, allVars, CallTool, GatewayDenies, GatewayAllows,
           Lease, Invoke, RefreshRefused, Respond, Fail, Finish
  <2>2. TypeOK /\ OneRepair /\ e \in Environments /\ Admitted
    BY DEF RecordInv, CallInv, RequestOK
  <2>3. /\ expected.deployment = installed["broker"][e]
        /\ expected.availability = gateAvailability["broker"][e]
    BY <2>1, <2>2, BrokerGoesOn
  <2>4. AtRecord("broker", e)
    BY <2>2 DEF ConvergeInv, Converging, OneRepair, Gates, AtTarget, AtPendingDeployment,
                AtPendingChange
  <2>5. expected.deployment = active[e] /\ expected.availability = availability[e]
    BY <2>3, <2>4 DEF AtRecord
  <2>6. /\ <<request.tool, expected.connectionRef>> \in RuntimeBindings(active[e])
        /\ IsToolConnectionEnabled(availability[e], request.tool, expected.connectionRef)
        /\ active[e] # None
    BY <2>2, <2>5, ActiveInRefs, DeploymentFields DEF Admitted
  <2> QED
    BY <2>6 DEF RecordPermits
<1> QED
  BY <1>1, CallInvariant, PTL DEF CallSpec, PauseTakesEffect

-----------------------------------------------------------------------------
(* The refinement.                                                         *)

(* A deployment has one ref for each of its Connections.                   *)
LEMMA ActiveInFinite ==
  ASSUME NEW x, x.deployment \in Deployments, NEW tool
  PROVE  IsFiniteSet(ActiveIn(x, tool))
<1> DEFINE S == ActiveIn(x, tool)
           f == [r \in S |-> r[2]]
<1>1. ASSUME NEW r \in S
      PROVE  r = <<x.deployment.id, r[2]>> /\ r[2] \in Connections
  <2>1. r \in Refs /\ <<tool, r>> \in RuntimeBindings(x.deployment)
    BY ActiveInRefs
  <2> QED
    BY <2>1, RuntimeBinding, DeploymentFields
<1> HIDE DEF S
<1>2. f \in Injection(S, Connections)
  <2>1. f \in [S -> Connections]
    BY <1>1
  <2>2. \A r, q \in S : f[r] = f[q] => r = q
    BY <1>1
  <2> QED
    BY <2>1, <2>2 DEF Injection, IsInjective
<1> HIDE DEF f
<1>3. IsFiniteSet(S)
  BY <1>2, FS_Injection, ConnectionsAssumption
<1> QED
  BY <1>3 DEF S

LEMMA OnlyOne ==
  ASSUME NEW x, x.deployment \in Deployments, NEW tool, NEW ref \in ActiveIn(x, tool),
         Cardinality(ActiveIn(x, tool)) = 1
  PROVE  ActiveIn(x, tool) = {ref}
<1>1. PICK r : ActiveIn(x, tool) = {r}
  BY ActiveInFinite, FS_Singleton
<1> QED
  BY <1>1

(* The environment of a call, its tool and the Connections the two gates   *)
(* have in common for it, while neither has moved.                         *)
LEMMA CommonChoices ==
  ASSUME TypeOK, NEW e \in Environments, NEW tool \in Tools,
         NEW x, x.deployment \in Deployments,
         \A g \in Gates : /\ installed[g][e] = x.deployment
                          /\ gateAvailability[g][e] = x.availability
  PROVE  {p \in CommonPolicy(e) : p[1] = tool}
           = {<<tool, ref, x.deployment.version>> : ref \in ActiveIn(x, tool)}
<1>1. /\ installed["broker"][e] = x.deployment /\ installed["gateway"][e] = x.deployment
      /\ gateAvailability["broker"][e] = x.availability
      /\ gateAvailability["gateway"][e] = x.availability
      /\ x.deployment.version \in Versions
  BY DeploymentFields DEF Gates
<1>2. \A t : ActiveRefs("broker", e, t) = ActiveIn(x, t)
  BY <1>1 DEF ActiveRefs, ActiveIn
<1> DEFINE all == UNION {{<<t, ref, v>> : ref \in ActiveIn(x, t)} : t \in Tools, v \in Versions}
<1>3. CommonPolicy(e) = {p \in all : p[3] = x.deployment.version}
  BY <1>1, <1>2 DEF CommonPolicy
<1>4. \A p \in all : \E t \in Tools, v \in Versions : \E ref \in ActiveIn(x, t) : p = <<t, ref, v>>
  OBVIOUS
<1>5. ASSUME NEW ref \in ActiveIn(x, tool) PROVE <<tool, ref, x.deployment.version>> \in all
  <2> DEFINE some == {<<tool, r, x.deployment.version>> : r \in ActiveIn(x, tool)}
  <2>1. some \in {{<<t, r, v>> : r \in ActiveIn(x, t)} : t \in Tools, v \in Versions}
    BY <1>1
  <2>2. <<tool, ref, x.deployment.version>> \in some
    OBVIOUS
  <2> HIDE DEF some
  <2> QED
    BY <2>1, <2>2
<1> HIDE DEF all
<1>6. ASSUME NEW p \in all, p[3] = x.deployment.version, p[1] = tool
      PROVE  \E ref \in ActiveIn(x, tool) : p = <<tool, ref, x.deployment.version>>
  <2>1. PICK t \in Tools, v \in Versions : \E ref \in ActiveIn(x, t) : p = <<t, ref, v>>
    BY <1>4
  <2>2. PICK ref \in ActiveIn(x, t) : p = <<t, ref, v>>
    BY <2>1
  <2>3. t = tool /\ v = x.deployment.version
    BY <1>6, <2>2
  <2> QED
    BY <2>2, <2>3
<1>7. ASSUME NEW ref \in ActiveIn(x, tool)
      PROVE  <<tool, ref, x.deployment.version>> \in {p \in CommonPolicy(e) : p[1] = tool}
  BY <1>3, <1>5
<1> QED
  BY <1>3, <1>6, <1>7

LEMMA AskedFields ==
  ASSUME RequestOK
  PROVE  /\ request # None
         /\ AskedRequest = [environment |-> request.environment, key |-> request.key,
                            tool |-> request.tool, selector |-> request.selector,
                            fits |-> {v \in Versions :
                                        EvaluateToolCall(VersionPolicy[v], request.arguments)}]
<1>1. request \in CallRequests
  BY ArgumentsAssumption DEF RequestOK, CallRequests
<1> QED
  BY <1>1, RequestsAssumption DEF AskedRequest

(* The Broker's decision is the one decision of the contract.              *)
LEMMA BrokerDecides ==
  ASSUME TypeOK, CallInv, EvaluateBroker, phase' = "lease"
  PROVE  Contract!Permitted(expected.connectionRef) \/ torn
<1> SUFFICES ASSUME ~torn PROVE Contract!Permitted(expected.connectionRef)
  OBVIOUS
<1>1. PICK e \in Environments : e = request.environment
  BY DEF CallInv, EvaluateBroker, RequestOK
<1>2. PICK x : x = expected
  OBVIOUS
<1> DEFINE ref == x.connectionRef
           tool == request.tool
           version == x.deployment.version
           A == ActiveIn(x, tool)
<1>3. /\ RequestOK /\ Admitted /\ Underway /\ tool \in Tools
      /\ x.deployment \in Deployments /\ x.availability \in Availabilities
      /\ ref \in A /\ version \in Versions
      /\ request.selector \in {None, ref}
      /\ request.selector = None => Cardinality(A) = 1
      /\ EvaluateToolCall(VersionPolicy[version], request.arguments)
  BY <1>2, DeploymentFields DEF CallInv, EvaluateBroker, RequestOK, Admitted, PolicyOf
<1>4. /\ x.deployment = installed["broker"][e]
      /\ x.availability = gateAvailability["broker"][e]
  BY <1>1, <1>2, BrokerGoesOn
<1>5. ~Past(x, "broker", e)
  BY <1>3, <1>4, IdentityFields DEF Past
<1>6. Stands(x, e)
  BY <1>1, <1>2, <1>3, <1>5 DEF Underway, Left, Gates
<1>7. \A g \in Gates : installed[g][e] = x.deployment /\ gateAvailability[g][e] = x.availability
  BY <1>4, <1>6 DEF Stands, Gates
<1> HIDE DEF A
<1>8. {p \in CommonPolicy(e) : p[1] = tool} = {<<tool, r, version>> : r \in A}
  BY <1>3, <1>7, CommonChoices DEF A
<1>9. Contract!Choices = {<<tool, r, version>> : r \in A}
  <2>1. Contract!Choices = {p \in CommonPolicy(e) : p[1] = tool /\ p[3] \in AskedRequest.fits}
    BY <1>1, <1>3, AskedFields DEF Contract!Choices
  <2>2. version \in AskedRequest.fits
    BY <1>3, AskedFields
  <2> QED
    BY <1>8, <2>1, <2>2
<1>10. request.selector = None => \A p \in Contract!Choices : p[2] = ref
  BY <1>3, <1>9, OnlyOne DEF A
<1>11. \E p \in Contract!Choices : p[2] = ref
  <2>1. <<tool, ref, version>> \in Contract!Choices
    BY <1>3, <1>9
  <2> QED
    BY <2>1
<1>12. AskedRequest.selector = request.selector
  BY <1>3, AskedFields
<1> QED
  BY <1>2, <1>3, <1>10, <1>11, <1>12 DEF Contract!Permitted

(* What governs the Angel in the contract is told by the gates.            *)
LEMMA GovernedKept ==
  ASSUME UNCHANGED <<installed, gateAvailability, gatewayKeys, torn>>
  PROVE  UNCHANGED Contract!governed
<1>1. \A e : CommonPolicy(e)' = CommonPolicy(e)
  BY DEF CommonPolicy, ActiveRefs
<1> QED
  BY <1>1 DEF Contract!governed

LEMMA FinishIsEnd ==
  ASSUME NEW outcome, Finish(outcome),
         UNCHANGED <<installed, gateAvailability, gatewayKeys, torn>>,
         outcome = "served" => phase = "respond",
         outcome \in {"unauthorized", "denied", "mismatch"}
           => phase \in {"none", "gateway", "broker"}
  PROVE  Contract!End
<1>1. Stage' = "none" /\ answer' = outcome
  BY DEF Finish, Stage
<1>2. /\ phase = "respond" => Stage = "executed"
      /\ phase \in {"none", "gateway", "broker"} => Stage \in {"none", "asked", "admitted"}
  BY DEF Stage
<1> QED
  BY <1>1, <1>2, GovernedKept DEF Contract!End, Contract!Refusals

LEMMA CallRefines ==
  ASSUME RecordInv, CallInv, [CallNext]_allVars
  PROVE  [Contract!Next]_(Contract!vars)
<1>0. TypeOK
  BY DEF RecordInv
<1>1. ASSUME UNCHANGED <<phase, request, expected, answer>> PROVE Contract!Govern
  BY <1>1 DEF Contract!Govern, Stage, AskedRequest
<1>2. ASSUME UNCHANGED vars PROVE UNCHANGED <<installed, gateAvailability, gatewayKeys, torn>>
  BY <1>2 DEF vars, gateVars
<1>3. CASE Control \/ UNCHANGED allVars
  <2>1. UNCHANGED <<phase, request, expected, answer>>
    BY <1>3 DEF Control, callVars, allVars
  <2> QED
    BY <1>1, <2>1 DEF Contract!Next
<1>4. ASSUME NEW e, NEW tool, NEW arguments, NEW key, NEW selector,
             CallTool(e, key, tool, selector, arguments)
      PROVE  Contract!Ask \/ Contract!End
  <2>1. phase = "none" /\ UNCHANGED vars
    BY <1>4 DEF CallTool
  <2>2. CASE key \in gatewayKeys[e]
    <3>1. phase' = "gateway"
      BY <1>4, <2>2 DEF CallTool
    <3>2. Stage = "none" /\ Stage' = "asked"
      BY <2>1, <3>1 DEF Stage
    <3> QED
      BY <1>2, <2>1, <3>2, GovernedKept DEF Contract!Ask
  <2>3. CASE key \notin gatewayKeys[e]
    <3>1. Finish("unauthorized")
      BY <1>4, <2>3 DEF CallTool
    <3> QED
      BY <1>2, <2>1, <3>1, FinishIsEnd
  <2> QED
    BY <2>2, <2>3
<1>5. CASE GatewayDenies
  <2>1. /\ phase = "gateway" /\ UNCHANGED vars
        /\ Finish("unauthorized") \/ Finish("denied")
    BY <1>5 DEF GatewayDenies
  <2> QED
    BY <1>2, <2>1, FinishIsEnd DEF Contract!Next
<1>6. CASE GatewayAllows
  <2>1. /\ phase = "gateway" /\ phase' = "broker" /\ UNCHANGED <<vars, request, answer>>
        /\ request.key \in gatewayKeys[request.environment]
        /\ RequestOK
    BY <1>6 DEF GatewayAllows, Authenticated, CallInv
  <2>2. Stage = "asked" /\ Stage' = "admitted" /\ AskedRequest' = AskedRequest
    BY <2>1 DEF Stage, AskedRequest
  <2>3. AskedRequest.key \in gatewayKeys[AskedRequest.environment]
    BY <2>1, AskedFields
  <2> QED
    BY <1>2, <2>1, <2>2, <2>3, GovernedKept DEF Contract!Admit, Contract!Next
<1>7. CASE EvaluateBroker
  <2>1. phase = "broker" /\ UNCHANGED vars
    BY <1>7 DEF EvaluateBroker
  <2>2. CASE Finish("mismatch") \/ Finish("denied") \/ Finish("failed")
    BY <1>2, <2>1, <2>2, FinishIsEnd DEF Contract!Next
  <2>3. CASE phase' = "lease"
    <3>1. UNCHANGED <<request, expected, answer>>
      BY <1>0, <1>7, <2>3, BrokerGoesOn
    <3>2. /\ Stage = "admitted" /\ Stage' = "decided" /\ AskedRequest' = AskedRequest
      BY <2>1, <2>3, <3>1 DEF Stage, AskedRequest
    <3>3. Contract!Permitted(IF expected = None THEN None ELSE expected.connectionRef) \/ torn
      <4>1. Admitted
        BY <2>1 DEF CallInv
      <4>2. expected.connectionRef
              = IF expected = None THEN None ELSE expected.connectionRef
        BY <4>1 DEF Admitted
      <4> QED
        BY <1>0, <1>7, <2>3, <4>2, BrokerDecides
    <3> QED
      BY <1>2, <2>1, <3>1, <3>2, <3>3, GovernedKept DEF Contract!Decide, Contract!Next
  <2> QED
    BY <1>7, <2>2, <2>3 DEF EvaluateBroker
<1>8. CASE Lease
  <2>1. /\ phase = "lease" /\ phase' = "provider"
        /\ UNCHANGED <<request, expected, answer>>
    BY <1>8 DEF Lease
  <2>2. Stage' = Stage /\ AskedRequest' = AskedRequest
    BY <2>1 DEF Stage, AskedRequest
  <2> QED
    BY <2>1, <2>2 DEF Contract!Govern, Contract!Next
<1>9. CASE Invoke
  <2>1. /\ phase = "provider" /\ phase' = "respond"
        /\ UNCHANGED <<vars, request, expected, answer>>
    BY <1>9 DEF Invoke
  <2>2. Stage = "decided" /\ Stage' = "executed" /\ AskedRequest' = AskedRequest
    BY <2>1 DEF Stage, AskedRequest
  <2> QED
    BY <1>2, <2>1, <2>2, GovernedKept DEF Contract!Execute, Contract!Next
<1>10. CASE RefreshRefused
  <2>1. Finish("failed") /\ UNCHANGED <<installed, gateAvailability, gatewayKeys, torn>>
    BY <1>10 DEF RefreshRefused, gateVars
  <2> QED
    BY <2>1, FinishIsEnd DEF Contract!Next
<1>11. CASE Respond
  <2>1. phase = "respond" /\ UNCHANGED vars /\ found = expected
    BY <1>11 DEF Respond, CallInv
  <2>2. Finish("served")
    BY <1>11, <2>1 DEF Respond, ReceiptMismatch
  <2> QED
    BY <1>2, <2>1, <2>2, FinishIsEnd DEF Contract!Next
<1>12. CASE Fail
  <2>1. Finish("failed") /\ UNCHANGED vars
    BY <1>12 DEF Fail
  <2> QED
    BY <1>2, <2>1, FinishIsEnd DEF Contract!Next
<1> QED
  BY <1>3, <1>4, <1>5, <1>6, <1>7, <1>8, <1>9, <1>10, <1>11, <1>12
     DEF CallNext, CallStep, Contract!Next

(* A call through two Workers and two gates (tools/call in                 *)
(* src/src/workers/gateway.ts, invoke in src/src/workers/broker.ts) keeps  *)
(* the contract of one decision: it reaches a Connection only if both      *)
(* gates permit it under one policy at one moment, for a key that was      *)
(* accepted; once; and an agent that is refused knows that nothing was     *)
(* executed.                                                               *)
THEOREM CallsKeepTheContract == CallSpec => OneDecision
<1>1. CallInit => Contract!Init
  BY DEF CallInit, Contract!Init, Stage
<1>2. RecordInv /\ CallInv /\ [CallNext]_allVars => [Contract!Next]_(Contract!vars)
  BY CallRefines
<1> QED
  BY <1>1, <1>2, CallInvariant, PTL DEF CallSpec, OneDecision, Contract!Spec

-----------------------------------------------------------------------------
(* The receipts.                                                           *)

(* The Angel of the call was deleted: neither gate has what it had, or     *)
(* will have it again.                                                     *)
Gone(x, e) ==
  /\ \A g \in Gates : installed[g][e] = None \/ installed[g][e].id > x.deployment.id
  /\ active[e] = None /\ pending[e] # None => pending[e].id > x.deployment.id

Empty(x, e) == Gone(x, e)' /\ \A g \in Gates : installed'[g][e] = None

(* A gate is emptied by a reset only, and the record after both gates are. *)
LEMMA GoneStep ==
  ASSUME RecordInv, OverlayInv, ClosedInv, ConvergeInv, [Next]_vars, NEW e \in Environments,
         NEW x, x.deployment \in Deployments, x.deployment.id <= minted[e], ~torn'
  PROVE  /\ ~torn \/ Empty(x, e)
         /\ ~torn /\ Gone(x, e) => Gone(x, e)'
         /\ Empty(x, e) \/ \A g \in Gates : installed[g][e] # None => installed'[g][e] # None
<1>0. /\ TypeOK /\ OneRepair /\ CommandOK
      /\ x.deployment.id \in Nat /\ minted[e] \in Nat /\ on \in Environments
  BY DeploymentFields, Types DEF RecordInv, TypeOK
<1> DEFINE Goal ==
     /\ ~torn \/ Empty(x, e)
     /\ ~torn /\ Gone(x, e) => Gone(x, e)'
     /\ Empty(x, e) \/ \A g \in Gates : installed[g][e] # None => installed'[g][e] # None
<1> SUFFICES Goal
  OBVIOUS
<1>1. CASE UNCHANGED placeVars
  BY <1>1 DEF placeVars, Gone
<1>2. ASSUME NEW f \in Environments, NEW v, NEW connections, NEW provenance,
             Deploy(f, v, connections, provenance)
      PROVE  Goal
  <2>1. UNCHANGED <<active, installed, gateAvailability, torn>>
    BY <1>2 DEF Deploy, gateVars
  <2>2. \/ UNCHANGED pending
        \/ /\ pending'[f].id = minted[f] + 1
           /\ \A h \in Environments \ {f} : pending'[h] = pending[h]
    BY <1>0, <1>2 DEF Deploy, NewDeployment, SameDeployment, TypeOK
  <2>3. Gone(x, e) => Gone(x, e)'
    <3>1. CASE UNCHANGED pending
      BY <2>1, <3>1 DEF Gone
    <3>2. CASE f # e
      BY <2>1, <2>2, <3>2 DEF Gone
    <3>3. CASE f = e /\ pending'[e].id = minted[e] + 1
      BY <1>0, <2>1, <3>3 DEF Gone
    <3> QED
      BY <2>2, <3>1, <3>2, <3>3
  <2> QED
    BY <2>1, <2>3
<1>3. CASE InstallBroker \/ InstallGateway \/ ChangeBroker \/ ChangeGateway
  <2>1. UNCHANGED <<active, pending, torn>>
    BY <1>3 DEF InstallBroker, InstallGateway, ChangeBroker, ChangeGateway, recordVars
  <2>2. PICK f \in Environments : on = f
    BY <1>0
  <2>3. PICK g \in Gates :
          \/ pending[f] # None /\ ReconcileGate(g, f)
          \/ pendingAvailability[f] # None /\ ReconcileAvailabilityGate(g, f)
    BY <1>0, <1>3, <2>2 DEF InstallBroker, InstallGateway, ChangeBroker, ChangeGateway, Step, Gates,
       CommandOK, DeploySteps, ChangeSteps
  <2>4. ASSUME NEW h \in Gates
        PROVE  \/ installed'[h][e] = installed[h][e]
               \/ h = g /\ e = f /\ pending[e] # None /\ installed'[h][e] = pending[e]
    BY <1>0, <2>3, InstallOverlay, ChangeOverlay
  <2>5. ASSUME ~torn, Gone(x, e), NEW h \in Gates
        PROVE  installed'[h][e] = None \/ installed'[h][e].id > x.deployment.id
    <3>1. CASE installed'[h][e] = installed[h][e]
      BY <2>5, <3>1 DEF Gone
    <3>2. CASE pending[e] # None /\ installed'[h][e] = pending[e]
      <4>1. MintedInOrder(e) /\ GateOverlay(h, e) /\ (AtRecord(h, e) \/ AtTarget(h, e))
        BY <2>5 DEF OverlayInv, ConvergeInv, Converging
      <4>2. CASE installed[h][e] = None
        <5>1. active[e] = None
          BY <1>0, <3>2, <4>1, <4>2
             DEF AtRecord, AtTarget, AtPendingDeployment, AtPendingChange, OneRepair
        <5> QED
          BY <2>5, <3>2, <5>1 DEF Gone
      <4>3. CASE installed[h][e] # None
        <5>1. /\ installed[h][e].id > x.deployment.id /\ installed[h][e].id <= minted[e]
              /\ installed[h][e].id \in Nat /\ pending[e].id = minted[e]
          BY <1>0, <2>5, <3>2, <4>1, <4>3, Types, DeploymentFields
             DEF Gone, GateOverlay, MintedInOrder
        <5> QED
          BY <1>0, <3>2, <5>1
      <4> QED
        BY <4>2, <4>3
    <3> QED
      BY <2>4, <3>1, <3>2
  <2>6. ~torn /\ Gone(x, e) => Gone(x, e)'
    BY <2>1, <2>5 DEF Gone
  <2> QED
    BY <2>1, <2>4, <2>6
<1>4. CASE Activate
  <2>1. /\ UNCHANGED <<installed, torn>>
        /\ active'[on] = pending[on] /\ pending[on] # None
        /\ \A f \in Environments \ {on} : active'[f] = active[f] /\ pending'[f] = pending[f]
    BY <1>0, <1>4 DEF Activate, Step, CommandOK, DeploySteps, gateVars, worldVars, TypeOK
  <2>2. Gone(x, e) => Gone(x, e)'
    BY <1>0, <2>1 DEF Gone
  <2> QED
    BY <2>1, <2>2
<1>5. CASE DropAngel \/ ReplaceState
  <2>1. /\ pc \in {"drop", "replace"} /\ UNCHANGED installed /\ pending'[e] = None
    BY <1>5 DEF DropAngel, ReplaceState, DropRecord, Step, gateVars
  <2>2. \A g \in Gates : installed[g][e] = None
    BY <2>1 DEF ClosedInv, Closed
  <2> QED
    BY <2>1, <2>2 DEF Gone, Empty
<1> QED
  BY <1>0, PlaceMoves, <1>1, <1>2, <1>3, <1>4, <1>5

ReceiptInv ==
  /\ at \in Environments
  /\ phase # "none" => request.environment = at
  /\ receipts \in [Gates -> {None, "allow", "deny"}]
  /\ \A g \in Gates : receipts[g] # None => installed[g][at] # None
  /\ phase = "gateway" => receipts["broker"] = None
  /\ phase = "broker" =>
       /\ receipts["broker"] = None /\ receipts["gateway"] # "deny"
       /\ torn \/ receipts["gateway"] = "allow" \/ Gone(expected, at)
  /\ phase \in {"lease", "provider", "respond"} => receipts["broker"] \in {None, "allow"}
  /\ ReceiptsPair

LEMMA ReceiptInit == CallInit => ReceiptInv
BY RequestsAssumption DEF CallInit, ReceiptInv, ReceiptsPair, Gates, Environments

(* A reset takes both receipts of the call away.                           *)
LEMMA ControlKeepsReceipts ==
  ASSUME RecordInv, OverlayInv, ClosedInv, ConvergeInv, CallInv, ReceiptInv, Control
  PROVE  ReceiptInv'
<1>0. /\ UNCHANGED <<phase, request, expected, answer, at>> /\ Next
      /\ receipts' = [g \in Gates |-> IF installed'[g][at] = None THEN None ELSE receipts[g]]
      /\ TypeOK
  BY DEF Control, callVars, RecordInv
<1>1. PICK e \in Environments : e = at
  BY DEF ReceiptInv
<1>2. \A g \in Gates : /\ receipts'[g] \in {None, receipts[g]}
                       /\ receipts'[g] # None =>
                            receipts'[g] = receipts[g] /\ installed'[g][e] # None
                       /\ installed'[g][e] # None => receipts'[g] = receipts[g]
  BY <1>0, <1>1
<1>3. "broker" \in Gates /\ "gateway" \in Gates
  BY DEF Gates
<1>4. ASSUME ~torn', receipts'["broker"] = "allow" PROVE receipts'["gateway"] = "allow"
  <2>1. /\ receipts["broker"] = "allow" /\ receipts["broker"] # None
        /\ installed["broker"][e] # None /\ installed'["broker"][e] # None
    BY <1>1, <1>2, <1>3, <1>4, RequestsAssumption DEF ReceiptInv
  <2>2. PICK x : x = [deployment |-> installed["broker"][e]]
    OBVIOUS
  <2>3. x.deployment \in Deployments /\ x.deployment.id <= minted[e]
    BY <1>0, <1>3, <2>1, <2>2, Types DEF OverlayInv, GateOverlay
  <2>4. /\ ~torn \/ Empty(x, e)
        /\ Empty(x, e) \/ \A g \in Gates : installed[g][e] # None => installed'[g][e] # None
    BY <1>0, <1>4, <2>3, GoneStep
  <2>5. ~Empty(x, e)
    BY <1>3, <2>1 DEF Empty
  <2>6. receipts["gateway"] = "allow" /\ installed["gateway"][e] # None
    BY <1>1, <1>3, <2>1, <2>4, <2>5, RequestsAssumption DEF ReceiptInv, ReceiptsPair
  <2> QED
    BY <1>2, <1>3, <2>4, <2>5, <2>6
<1>5. ASSUME phase = "broker", ~torn'
      PROVE  receipts'["gateway"] = "allow" \/ Gone(expected, at)'
  <2>1. PICK x : x = expected
    OBVIOUS
  <2>2. x.deployment \in Deployments /\ x.deployment.id <= minted[e]
    BY <1>1, <1>5, <2>1 DEF CallInv, Admitted, Underway, ReceiptInv
  <2>3. /\ ~torn \/ Empty(x, e)
        /\ ~torn /\ Gone(x, e) => Gone(x, e)'
        /\ Empty(x, e) \/ \A g \in Gates : installed[g][e] # None => installed'[g][e] # None
    BY <1>0, <1>5, <2>2, GoneStep
  <2>4. torn \/ receipts["gateway"] = "allow" \/ Gone(x, e)
    BY <1>1, <1>5, <2>1 DEF ReceiptInv
  <2>5. receipts["gateway"] = "allow" => installed["gateway"][e] # None
    BY <1>1, <1>3, RequestsAssumption DEF ReceiptInv
  <2>6. receipts'["gateway"] = "allow" \/ Gone(x, e)'
    BY <1>2, <1>3, <2>3, <2>4, <2>5 DEF Empty
  <2> QED
    BY <1>0, <1>1, <2>1, <2>6 DEF Gone
<1>6. ReceiptsPair'
  BY <1>0, <1>2, <1>3, <1>4, RequestsAssumption DEF ReceiptInv, ReceiptsPair
<1> QED
  BY <1>0, <1>1, <1>2, <1>3, <1>5, <1>6, RequestsAssumption DEF ReceiptInv

(* A Broker that was given a new Angel meanwhile allows nothing: the       *)
(* Connection refs are those of the deployment they were minted for.       *)
LEMMA GoneDenies ==
  ASSUME TypeOK, NEW e \in Environments, CallInv, phase = "broker", Gone(expected, e)
  PROVE  BrokerSelection(e) = {}
<1> DEFINE ref == expected.connectionRef
           x == [deployment |-> installed["broker"][e],
                 availability |-> gateAvailability["broker"][e]]
<1>0. Admitted /\ ref \in Refs /\ ref # None
  BY ActiveInRefs DEF CallInv, Admitted
<1>1. ref[1] = expected.deployment.id /\ expected.deployment.id \in Nat
  <2>1. PICK d \in Deployments : d = expected.deployment
    BY <1>0 DEF Admitted
  <2>2. <<request.tool, ref>> \in RuntimeBindings(d)
    BY <1>0, <2>1, ActiveInRefs DEF Admitted
  <2>3. d.id \in Nat /\ ref = <<d.id, ref[2]>>
    BY <1>0, <2>2, RuntimeBinding, DeploymentFields
  <2> QED
    BY <2>1, <2>3
<1>2. installed["broker"][e] \in Deployments \cup {None}
  BY Types DEF Gates
<1>3. ASSUME ref \in ActiveIn(x, request.tool) PROVE FALSE
  <2>1. <<request.tool, ref>> \in RuntimeBindings(installed["broker"][e])
    BY <1>2, <1>3, ActiveInRefs
  <2>2. installed["broker"][e] # None /\ ref[1] = installed["broker"][e].id
    BY <1>0, <1>2, <2>1, RuntimeBinding
  <2>3. installed["broker"][e].id \in Nat
    BY <1>2, <2>2, DeploymentFields
  <2> QED
    BY <1>1, <2>2, <2>3 DEF Gone, Gates
<1>4. ActiveRefs("broker", e, request.tool) = ActiveIn(x, request.tool)
  BY DEF ActiveRefs, ActiveIn
<1> QED
  BY <1>0, <1>3, <1>4 DEF BrokerSelection, Selection

LEMMA ReceiptStep ==
  ASSUME RecordInv, OverlayInv, ClosedInv, ConvergeInv, CallInv, ReceiptInv, [CallNext]_allVars
  PROVE  ReceiptInv'
<1>0. TypeOK /\ "broker" \in Gates /\ "gateway" \in Gates
  BY DEF RecordInv, Gates
<1>1. CASE Control
  BY <1>1, ControlKeepsReceipts
<1>2. ASSUME NEW outcome, Finish(outcome), UNCHANGED <<at, installed, receipts, torn>>,
             outcome = "served" => phase = "respond"
      PROVE  ReceiptInv'
  BY <1>2 DEF Finish, ReceiptInv, ReceiptsPair
<1>3. ASSUME NEW e \in Environments, NEW tool, NEW arguments, NEW key, NEW selector,
             CallTool(e, key, tool, selector, arguments)
      PROVE  ReceiptInv'
  <2>1. /\ receipts' = [g \in Gates |-> None] /\ at' = e /\ UNCHANGED installed
        /\ phase' \in {"none", "gateway"}
        /\ phase' = "gateway" => request'.environment = e
    BY <1>3 DEF CallTool, Finish, vars, gateVars
  <2> QED
    BY <1>0, <2>1, RequestsAssumption DEF ReceiptInv, ReceiptsPair
<1>4. CASE GatewayDenies
  <2>1. /\ phase = "gateway" /\ phase' = "none" /\ answer' \in {"unauthorized", "denied"}
        /\ UNCHANGED <<at, installed>>
        /\ receipts' = [receipts EXCEPT !["gateway"] = "deny"]
        /\ installed["gateway"][request.environment] # None
    BY <1>4 DEF GatewayDenies, Finish, AppendReceipt, vars, gateVars
  <2>2. /\ receipts'["broker"] = None /\ receipts'["gateway"] = "deny"
        /\ receipts' \in [Gates -> {None, "allow", "deny"}]
    BY <1>0, <2>1 DEF ReceiptInv
  <2> QED
    BY <1>0, <2>1, <2>2, RequestsAssumption DEF ReceiptInv, ReceiptsPair, Gates
<1>5. CASE GatewayAllows
  <2>1. /\ phase = "gateway" /\ phase' = "broker" /\ UNCHANGED <<at, installed, answer, request>>
        /\ receipts' = [receipts EXCEPT !["gateway"] = "allow"]
        /\ installed["gateway"][request.environment] # None
    BY <1>5 DEF GatewayAllows, AppendReceipt, vars, gateVars
  <2>2. /\ receipts'["broker"] = None /\ receipts'["gateway"] = "allow"
        /\ receipts' \in [Gates -> {None, "allow", "deny"}]
    BY <1>0, <2>1 DEF ReceiptInv
  <2> QED
    BY <1>0, <2>1, <2>2, RequestsAssumption DEF ReceiptInv, ReceiptsPair, Gates
<1>6. CASE EvaluateBroker
  <2>1. PICK e \in Environments : e = at
    BY DEF ReceiptInv
  <2>2. PICK d \in {"allow", "deny"} : d = BrokerDecision(e)
    BY DEF BrokerDecision
  <2>3. /\ phase = "broker" /\ request.environment = e
        /\ UNCHANGED <<at, installed, torn>> /\ installed["broker"][e] # None
        /\ receipts' = [receipts EXCEPT !["broker"] = d]
    BY <1>6, <2>1, <2>2 DEF EvaluateBroker, AppendReceipt, ReceiptInv, vars, gateVars
  <2>4. \/ phase' = "none" /\ answer' \in {"mismatch", "denied", "failed"}
        \/ phase' = "lease" /\ d = "allow" /\ UNCHANGED <<answer, request>>
    BY <1>6, <2>2, <2>3 DEF EvaluateBroker, Finish
  <2>5. /\ receipts'["broker"] = d /\ receipts'["gateway"] = receipts["gateway"]
        /\ receipts' \in [Gates -> {None, "allow", "deny"}]
    BY <1>0, <2>3 DEF ReceiptInv
  <2>6. ~torn /\ d = "allow" => receipts["gateway"] = "allow"
    <3>1. Gone(expected, e) => d # "allow"
      BY <1>0, <2>2, <2>3, GoneDenies DEF BrokerDecision
    <3> QED
      BY <2>1, <2>3, <3>1 DEF ReceiptInv
  <2>7. ReceiptsPair'
    BY <2>3, <2>4, <2>5, <2>6, RequestsAssumption DEF ReceiptInv, ReceiptsPair
  <2> QED
    BY <1>0, <2>1, <2>3, <2>4, <2>5, <2>7 DEF ReceiptInv, Gates
<1>7. CASE Lease \/ Invoke
  <2>1. /\ phase \in {"lease", "provider"} /\ phase' \in {"provider", "respond"}
        /\ UNCHANGED <<request, answer, at, receipts, installed, torn>>
    BY <1>7 DEF Lease, Invoke, vars, gateVars
  <2> QED
    BY <2>1 DEF ReceiptInv, ReceiptsPair
<1>8. CASE RefreshRefused
  <2>1. Finish("failed") /\ UNCHANGED <<at, installed, receipts, torn>>
    BY <1>8 DEF RefreshRefused, gateVars
  <2> QED
    BY <1>2, <2>1
<1>9. CASE Respond \/ Fail
  <2>1. /\ UNCHANGED <<at, installed, receipts, torn>>
        /\ \E outcome : Finish(outcome) /\ (outcome = "served" => phase = "respond")
    BY <1>9 DEF Respond, Fail, vars, gateVars
  <2> QED
    BY <1>2, <2>1
<1>10. CASE UNCHANGED allVars
  <2>1. UNCHANGED <<phase, request, expected, answer, at, receipts, installed, torn, active,
                    pending>>
    BY <1>10 DEF allVars, callVars, vars, recordVars, gateVars
  <2> QED
    BY <2>1 DEF ReceiptInv, ReceiptsPair, Gone
<1> QED
  BY <1>1, <1>3, <1>4, <1>5, <1>6, <1>7, <1>8, <1>9, <1>10 DEF CallNext, CallStep

(* What the two gates keep of a call (evaluate in src/src/gate.ts) fits    *)
(* together: the Broker never has a receipt of what the Gateway denied, or *)
(* one that allows what the Gateway has not recorded as allowed.           *)
THEOREM ReceiptsAlwaysPair == CallSpec => []ReceiptsPair
<1>1. /\ RecordInv /\ OverlayInv /\ ClosedInv /\ ConvergeInv /\ CallInv
      /\ ReceiptInv /\ [CallNext]_allVars
      => ReceiptInv'
  BY ReceiptStep
<1>2. ReceiptInv => ReceiptsPair
  BY DEF ReceiptInv
<1> QED
  BY <1>1, <1>2, ReceiptInit, CallInvariant, PTL DEF CallSpec

-----------------------------------------------------------------------------
(* The provider request.                                                   *)

(* No two entries are the same argument.                                   *)
OneEach(entries) ==
  \A a, b \in entries : a.exact /\ b.exact /\ a.field = b.field => a = b

LEMMA MaterializeOneEach ==
  ASSUME NEW entries, OneEach(entries), NEW defaults,
         \A c, d \in defaults : c[1] = d[1] => c = d
  PROVE  OneEach(Materialize(entries, defaults))
<1> DEFINE added == {ScalarEntry(d[1], d[2]) :
                       d \in {m \in defaults : Named(entries, m[1]) = {}}}
<1>1. Materialize(entries, defaults) = entries \cup added
  BY DEF Materialize
<1>2. ASSUME NEW a \in added
      PROVE  \E d \in defaults : /\ a = ScalarEntry(d[1], d[2]) /\ a.field = d[1]
                                 /\ Named(entries, d[1]) = {}
  BY DEF ScalarEntry
<1> HIDE DEF added
<1>3. ASSUME NEW a \in added, NEW b \in added, a.field = b.field PROVE a = b
  <2>1. PICK c \in defaults : a = ScalarEntry(c[1], c[2]) /\ a.field = c[1]
    BY <1>2
  <2>2. PICK d \in defaults : b = ScalarEntry(d[1], d[2]) /\ b.field = d[1]
    BY <1>2
  <2> QED
    BY <1>3, <2>1, <2>2
<1>4. ASSUME NEW a \in added, NEW b \in entries, b.exact, a.field = b.field PROVE FALSE
  <2>1. Named(entries, a.field) = {}
    BY <1>2
  <2> QED
    BY <1>4, <2>1 DEF Named
<1> QED
  BY <1>1, <1>3, <1>4 DEF OneEach

(* Every path parameter is in the path once.                               *)
LEMMA PathComplete ==
  ASSUME NEW v \in Versions, NEW entries, OneEach(entries),
         \A field \in VersionPolicy[v].pathParams : Named(entries, field) # {}
  PROVE  Cardinality(PathEntries(VersionPolicy[v], entries))
           = Cardinality(VersionPolicy[v].pathParams)
<1> DEFINE policy == VersionPolicy[v]
           late == LateDefaults(policy, entries)
           path == PathEntries(policy, entries)
           f == [a \in path |-> a.field]
<1>1. /\ IsFiniteSet(policy.pathParams)
      /\ \A c, d \in policy.pathDefaults : c[1] = d[1] => c = d
  BY PoliciesAssumption
<1>2. ASSUME NEW a \in late
      PROVE  \E d \in policy.pathDefaults :
               /\ a = ScalarEntry(d[1], d[2]) /\ a.field = d[1] /\ a.exact
               /\ d[1] \in policy.pathParams
  BY DEF LateDefaults, ScalarEntry
<1>3. path = late \cup {a \in entries : /\ a.field \in policy.pathParams /\ a.exact
                                       /\ Named(late, a.field) = {}}
  BY DEF PathEntries
<1> HIDE DEF policy, late, path
<1>4. ASSUME NEW a \in path PROVE a.field \in policy.pathParams /\ a.exact
  BY <1>2, <1>3
<1>5. ASSUME NEW a \in path, NEW b \in path, a.field = b.field PROVE a = b
  <2>1. CASE a \in late /\ b \in late
    <3>1. PICK c \in policy.pathDefaults : a = ScalarEntry(c[1], c[2]) /\ a.field = c[1]
      BY <1>2, <2>1
    <3>2. PICK d \in policy.pathDefaults : b = ScalarEntry(d[1], d[2]) /\ b.field = d[1]
      BY <1>2, <2>1
    <3> QED
      BY <1>1, <1>5, <3>1, <3>2
  <2>2. CASE a \notin late /\ b \notin late
    BY <1>3, <1>4, <1>5, <2>2 DEF OneEach
  <2>3. ASSUME NEW c \in late, NEW d \in path \ late, c.field = d.field PROVE FALSE
    <3>1. c.exact /\ Named(late, d.field) = {}
      BY <1>2, <1>3, <2>3
    <3> QED
      BY <2>3, <3>1 DEF Named
  <2> QED
    BY <1>5, <2>1, <2>2, <2>3
<1>6. ASSUME NEW field \in policy.pathParams PROVE \E a \in path : a.field = field
  <2>1. PICK a \in entries : a.field = field /\ a.exact
    BY DEF Named, policy
  <2>2. CASE Named(late, field) = {}
    BY <1>3, <2>1, <2>2
  <2>3. CASE Named(late, field) # {}
    BY <1>3, <2>3 DEF Named
  <2> QED
    BY <2>2, <2>3
<1>7. /\ f \in [path -> policy.pathParams]
      /\ \A a, b \in path : f[a] = f[b] => a = b
      /\ \A field \in policy.pathParams : \E a \in path : f[a] = field
  BY <1>4, <1>5, <1>6
<1> HIDE DEF f
<1>8. f \in Injection(path, policy.pathParams) /\ f \in Surjection(path, policy.pathParams)
  BY <1>7 DEF Injection, IsInjective, Surjection
<1>9. Cardinality(path) = Cardinality(policy.pathParams)
  BY <1>1, <1>8, FS_Injection
<1> QED
  BY <1>9 DEF path, policy

(* What the guards let through they let through in every part of it.       *)
LEMMA GuardsHoldInParts ==
  ASSUME NEW v \in Versions, NEW guard \in VersionPolicy[v].guards,
         NEW entries, NEW part, part \subseteq entries, ~GuardDenies(guard, entries),
         NEW leaves \in CollectByField(part, guard.field)
  PROVE  /\ guard.kind # "forbid"
         /\ guard.kind = "pin" => leaves = guard.values
         /\ guard.kind = "forbiddenValues" => leaves \cap guard.values = {}
<1>1. leaves \in CollectByField(entries, guard.field)
  <2>1. CASE \E a \in part : a.field = guard.field /\ leaves = a.leaves
    BY <2>1 DEF CollectByField
  <2>2. CASE \E a \in part : \E i \in a.inner : i[1] = guard.field /\ leaves = i[2]
    BY <2>2 DEF CollectByField
  <2> QED
    BY <2>1, <2>2 DEF CollectByField
<1>2. guard.kind = "pin" => \E leaf \in Leaves : guard.values = {leaf}
  BY PoliciesAssumption
<1> QED
  BY <1>1, <1>2 DEF GuardDenies

(* Where an argument goes.                                                 *)
LEMMA PartsOfRequest ==
  ASSUME NEW policy, NEW entries, OneEach(entries)
  PROVE  LET http == HttpCall(policy, entries)
             all == http.path \cup http.query \cup http.body
         IN  /\ all \ LateDefaults(policy, entries) \subseteq entries
             /\ \A a \in entries \ all : a.kind = "null" /\ Named(http.path, a.field) # {}
<1> DEFINE late == LateDefaults(policy, entries)
           path == PathEntries(policy, entries)
           query == QueryEntries(policy, entries)
           body == BodyEntries(policy, entries)
<1>1. /\ HttpCall(policy, entries).path = path
      /\ HttpCall(policy, entries).query = query
      /\ HttpCall(policy, entries).body = body
  BY DEF HttpCall
<1>2. (path \cup query \cup body) \ late \subseteq entries
  BY DEF PathEntries, QueryEntries, BodyEntries
<1>3. ASSUME NEW a \in entries, a \notin path \cup query \cup body
      PROVE  a.kind = "null" /\ Named(path, a.field) # {}
  <2>1. a.exact /\ a.field \in policy.pathParams
    BY <1>3 DEF QueryEntries, BodyEntries
  <2>2. Named(late, a.field) # {} /\ late \subseteq path
    BY <1>3, <2>1 DEF PathEntries
  <2>3. PICK d \in policy.pathDefaults : /\ d[1] = a.field
                                         /\ \E b \in Named(entries, d[1]) : b.kind = "null"
    BY <2>2 DEF LateDefaults, ScalarEntry, Named
  <2>4. PICK b \in entries : b.field = a.field /\ b.exact /\ b.kind = "null"
    BY <2>3 DEF Named
  <2>5. a = b
    BY <2>1, <2>4 DEF OneEach
  <2> QED
    BY <2>2, <2>4, <2>5 DEF Named
<1> QED
  BY <1>1, <1>2, <1>3

(* No policy and no arguments object makes Google receive what a guard     *)
(* excludes (evaluateToolCall in packages/core/src/decision.ts; prepare in *)
(* src/google-provider.ts), and no argument is lost on the way.            *)
THEOREM GuardsAlwaysHold == CallSpec => []GuardsHoldAtProvider
<1>1. ASSUME CallInv, phase \in {"lease", "provider"}
      PROVE  LET policy == VersionPolicy[found.deployment.version]
                 http == HttpCall(policy, sent.entries)
                 all == http.path \cup http.query \cup http.body
                 examined == all \ LateDefaults(policy, sent.entries)
             IN  /\ examined \subseteq sent.entries
                 /\ \A a \in sent.entries \ all :
                      a.kind = "null" /\ Named(http.path, a.field) # {}
                 /\ Cardinality(http.path) = Cardinality(policy.pathParams)
                 /\ \A guard \in policy.guards :
                      \A leaves \in CollectByField(examined, guard.field) :
                        CASE guard.kind = "forbid" -> FALSE
                          [] guard.kind = "pin" -> leaves = guard.values
                          [] guard.kind = "forbiddenValues" -> leaves \cap guard.values = {}
  <2> DEFINE policy == VersionPolicy[found.deployment.version]
             entries == sent.entries
             http == HttpCall(policy, entries)
             examined == (http.path \cup http.query \cup http.body) \ LateDefaults(policy, entries)
  <2>1. /\ found = expected /\ RequestOK /\ Admitted
        /\ Expressible(PolicyOf(expected.deployment), entries)
    BY <1>1 DEF CallInv
  <2>2. PICK v \in Versions : v = found.deployment.version
    BY <2>1, DeploymentFields DEF Admitted
  <2>3. policy = VersionPolicy[v] /\ policy = PolicyOf(expected.deployment)
    BY <2>1, <2>2 DEF PolicyOf
  <2>4. request.arguments \in ArgumentObjects /\ OneEach(request.arguments.entries)
    BY <2>1, ArgumentsAssumption DEF RequestOK, OneEach
  <2>5. \A c, d \in ArgumentDefaults(policy) : c[1] = d[1] => c = d
    BY <2>3, PoliciesAssumption
  <2> HIDE DEF policy
  <2>6. /\ sent = EffectiveArguments(policy, request.arguments)
        /\ EvaluateToolCall(policy, request.arguments)
        /\ \A field \in policy.pathParams : Named(entries, field) # {}
    BY <2>1, <2>3 DEF Admitted, Expressible
  <2>7. entries = Materialize(request.arguments.entries, ArgumentDefaults(policy))
    BY <2>4, <2>6 DEF EffectiveArguments, ArgumentObjects
  <2>8. OneEach(entries)
    BY <2>4, <2>5, <2>7, MaterializeOneEach
  <2>9. \A guard \in policy.guards : ~GuardDenies(guard, entries)
    BY <2>6 DEF EvaluateToolCall
  <2> HIDE DEF entries
  <2>10. Cardinality(http.path) = Cardinality(policy.pathParams)
    BY <2>3, <2>6, <2>8, PathComplete DEF HttpCall
  <2>11. /\ examined \subseteq entries
         /\ \A a \in entries \ (http.path \cup http.query \cup http.body) :
              a.kind = "null" /\ Named(http.path, a.field) # {}
    BY <2>8, PartsOfRequest
  <2>12. ASSUME NEW guard \in policy.guards, NEW leaves \in CollectByField(examined, guard.field)
         PROVE  CASE guard.kind = "forbid" -> FALSE
                  [] guard.kind = "pin" -> leaves = guard.values
                  [] guard.kind = "forbiddenValues" -> leaves \cap guard.values = {}
    <3> HIDE DEF examined
    <3>1. /\ guard.kind # "forbid"
          /\ guard.kind = "pin" => leaves = guard.values
          /\ guard.kind = "forbiddenValues" => leaves \cap guard.values = {}
      BY <2>3, <2>9, <2>11, GuardsHoldInParts
    <3>2. guard.kind \in {"forbid", "pin", "forbiddenValues"}
      <4>1. VersionPolicy[v] \in ToolPolicies
        BY PoliciesAssumption
      <4> QED
        BY <2>3, <4>1 DEF ToolPolicies, ArgGuards
    <3> QED
      BY <3>1, <3>2
  <2> QED
    BY <2>10, <2>11, <2>12 DEF policy, entries
<1>2. CallInv => GuardsHoldAtProvider
  BY <1>1 DEF GuardsHoldAtProvider
<1> QED
  BY <1>2, CallInvariant, PTL
=============================================================================
