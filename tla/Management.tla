------------------------------ MODULE Management ------------------------------
(***************************************************************************)
(* The control plane of one Angel: Management's record of its preview and  *)
(* production environments (src/src/management.ts, kept by the Durable     *)
(* Object of src/src/workers/account-registry.ts) and the two policy gates *)
(* of each environment (src/src/gate.ts in src/src/workers/gate-object.ts).*)
(*                                                                         *)
(* The registry runs one command at a time.  A command is a chain of       *)
(* awaits, each one either a put of the record to storage or a request to  *)
(* a gate in another Worker, and it can stop between any two of them: a    *)
(* request fails (before or after the gate applied it), a check throws, or *)
(* the Durable Object restarts.  What was in memory is then lost, what was *)
(* put and what the gates applied stays, and the next command restores the *)
(* record from storage.  Each step of the running command below ends at    *)
(* one such put or gate request.                                           *)
(*                                                                         *)
(* Assumed of the platform: a request Management stopped waiting for is    *)
(* not applied after a later command has started.                          *)
(***************************************************************************)
EXTENDS Availability, FiniteSets, Sequences

CONSTANTS Versions,        \* published artifacts, by digest
          VersionTools,    \* the tools of each Version
          None,            \* null
          MaxDeployments,  \* bound: deployments minted per environment
          MaxRevision,     \* bound: availability changes accepted
          MaxKeys          \* bound: keys minted per environment

HOSTED_ENVIRONMENTS == <<"preview", "production">>

Environments == {"preview", "production"}

Gates == {"broker", "gateway"}

(* What the operator asks of availability, by stable Connection id.        *)
Changes ==
       [kind : {"all"}, enabled : BOOLEAN]
  \cup [kind : {"tool"}, tool : Tools, enabled : BOOLEAN]
  \cup [kind : {"tool_connection"}, tool : Tools, connectionId : Connections,
        enabled : BOOLEAN]

Deployments ==
  [id          : Nat \ {0},
   version     : Versions,
   connections : (SUBSET Connections) \ {{}},
   provenance  : {"none", "direct", "promotion"}]

PendingAvailabilities ==
  [change : Changes, command : Commands, target : Availabilities]

ASSUME VersionsAssumption == VersionTools \in [Versions -> (SUBSET Tools) \ {{}}]

(* null is none of the values it stands in for.                            *)
ASSUME NoneAssumption ==
  /\ None \notin Deployments
  /\ None \notin PendingAvailabilities
  /\ None \notin Changes
  /\ None \notin Nat

ASSUME BoundsAssumption ==
  MaxDeployments \in [Environments -> Nat] /\ MaxRevision \in Nat /\ MaxKeys \in Nat

VARIABLES
  (* Management's record, as last put to storage.                          *)
  exists,               \* the Angel is in state.angels
  published,            \* its Versions
  active,               \* activeDeploymentId, resolved, per environment
  pending,              \* pendingDeploymentId, resolved
  availability,         \* the recorded overlay
  pendingAvailability,  \* the change that is being converged
  repair,               \* which gate an unfinished change continues at
  activeKeys,           \* named keys that are active
  revokedKeys,          \* named keys that are revoked
  (* The gates.                                                            *)
  installed,            \* the deployment installed at each gate
  gateAvailability,     \* the overlay each gate enforces
  gatewayKeys,          \* key hashes the Gateway's gate accepts
  (* The command the registry is running.                                  *)
  pc,                   \* its next step
  on,                   \* the environment it works on
  index,                \* the environment a teardown loop has reached
  draft,                \* keys changed in memory and not yet put
  (* The rest of the world.                                                *)
  healthy,              \* Connections the Broker reports healthy
  minted,               \* deployment ids minted, per environment
  mintedKeys,           \* key ids minted, per environment
  (* Auxiliary.                                                            *)
  torn                  \* a gate was reset under an Angel still recorded

recordVars  == <<exists, published, active, pending, availability,
                 pendingAvailability, repair, activeKeys, revokedKeys>>
gateVars    == <<installed, gateAvailability, gatewayKeys>>
commandVars == <<pc, on, index, draft>>
worldVars   == <<healthy, minted, mintedKeys>>
vars == <<recordVars, gateVars, commandVars, worldVars, torn>>

-----------------------------------------------------------------------------
(* Deployments.                                                            *)

ToolsOf(d) == IF d = None THEN {} ELSE VersionTools[d.version]

(* Every tool of the Version is bound to every Connection it was deployed  *)
(* with, under a ref minted for this deployment.                           *)
RuntimeBindings(d) ==
  IF d = None THEN {}
  ELSE {<<tool, <<d.id, connection>>>> : tool \in ToolsOf(d), connection \in d.connections}

(* What an install of d leaves of an overlay kept for deployment previous. *)
Migrate(a, previous, d) ==
  MigrateInstalledAvailability(a, ToolsOf(d), RuntimeBindings(previous), RuntimeBindings(d))

ConflictsOn(a, previous, d) ==
  MigrationConflicts(a, ToolsOf(d), RuntimeBindings(previous), RuntimeBindings(d))

(* The record an availability change becomes; a ref replaces the stable    *)
(* Connection id.                                                          *)
AvailabilityCommand(change, d, current) ==
  CASE change.kind = "all" ->
         [kind |-> "all", enabled |-> change.enabled, expectedRevision |-> current.revision]
    [] change.kind = "tool" ->
         [kind |-> "tool", tool |-> change.tool, enabled |-> change.enabled,
          expectedRevision |-> current.revision]
    [] change.kind = "tool_connection" ->
         [kind |-> "tool_connection", tool |-> change.tool,
          connectionRef |-> <<d.id, change.connectionId>>,
          enabled |-> change.enabled, expectedRevision |-> current.revision]

Deployed(change, d) ==
  /\ change.kind # "all" => change.tool \in ToolsOf(d)
  /\ change.kind = "tool_connection" => change.connectionId \in d.connections

-----------------------------------------------------------------------------
Init ==
  /\ exists = FALSE
  /\ published = {}
  /\ active = [e \in Environments |-> None]
  /\ pending = [e \in Environments |-> None]
  /\ availability = [e \in Environments |-> DefaultAvailability]
  /\ pendingAvailability = [e \in Environments |-> None]
  /\ repair = [e \in Environments |-> "none"]
  /\ activeKeys = [e \in Environments |-> {}]
  /\ revokedKeys = [e \in Environments |-> {}]
  /\ installed = [g \in Gates |-> [e \in Environments |-> None]]
  /\ gateAvailability = [g \in Gates |-> [e \in Environments |-> DefaultAvailability]]
  /\ gatewayKeys = [e \in Environments |-> {}]
  /\ pc = "idle"
  /\ on = "production"
  /\ index = 1
  /\ draft = [active |-> {}, revoked |-> {}]
  /\ healthy = Connections
  /\ minted = [e \in Environments |-> 0]
  /\ mintedKeys = [e \in Environments |-> 0]
  /\ torn = FALSE

-----------------------------------------------------------------------------
(* The running command.                                                    *)

Start(step, e) ==
  /\ pc = "idle"
  /\ pc' = step
  /\ on' = e

Step(from, to) ==
  /\ pc = from
  /\ pc' = to
  /\ UNCHANGED <<on, index, draft>>

(* The command stops where it is: a lost or failed request, a throw, a     *)
(* restart.  Steps that throw have no other successor.                     *)
Interrupt ==
  /\ pc # "idle"
  /\ pc' = "idle"
  /\ on' = "production"
  /\ index' = 1
  /\ draft' = [active |-> {}, revoked |-> {}]
  /\ UNCHANGED <<recordVars, gateVars, worldVars, torn>>

(* mutate stores the response under the idempotency key after the command  *)
(* has taken effect; nothing else reads or writes that record here.        *)
Record ==
  /\ pc = "record"
  /\ pc' = "idle"
  /\ on' = "production"
  /\ UNCHANGED <<recordVars, gateVars, index, draft, worldVars, torn>>

-----------------------------------------------------------------------------
(* The Angel and its Versions: one put each.                               *)

EnsureAngel ==
  /\ pc = "idle"
  /\ ~exists
  /\ \A e \in Environments : mintedKeys[e] < MaxKeys
  /\ exists' = TRUE
  /\ activeKeys' = [e \in Environments |-> {mintedKeys[e] + 1}]
  /\ mintedKeys' = [e \in Environments |-> mintedKeys[e] + 1]
  /\ UNCHANGED <<published, active, pending, availability, pendingAvailability,
                 repair, revokedKeys, gateVars, commandVars, healthy, minted, torn>>

PublishVersion(v) ==
  /\ pc = "idle"
  /\ exists
  /\ v \notin published
  /\ published' = published \cup {v}
  /\ UNCHANGED <<exists, active, pending, availability, pendingAvailability, repair,
                 activeKeys, revokedKeys, gateVars, commandVars, worldVars, torn>>

-----------------------------------------------------------------------------
(* Deploying.  deploy() is entered for a preview, directly for production, *)
(* or to promote what preview runs.                                        *)

ValidBindings(connections) == connections # {} /\ connections \subseteq healthy

(* No deployment is pending: mint one, record it as pending, put.          *)
NewDeployment(e, v, connections, provenance) ==
  /\ pending[e] = None
  /\ minted[e] < MaxDeployments[e]
  /\ minted' = [minted EXCEPT ![e] = @ + 1]
  /\ pending' = [pending EXCEPT ![e] =
       [id |-> minted[e] + 1, version |-> v, connections |-> connections,
        provenance |-> provenance]]
  /\ repair' = [repair EXCEPT ![e] = "broker"]

(* One is pending: only the same request may continue it.                  *)
SameDeployment(e, v, connections, provenance) ==
  /\ pending[e] # None
  /\ pending[e].version = v
  /\ pending[e].connections = connections
  /\ pending[e].provenance = provenance
  /\ UNCHANGED <<minted, pending, repair>>

Deploy(e, v, connections, provenance) ==
  /\ exists
  /\ v \in published
  /\ pendingAvailability[e] = None
  /\ ValidBindings(connections)
  /\ \/ NewDeployment(e, v, connections, provenance)
     \/ SameDeployment(e, v, connections, provenance)
  /\ Start("install_broker", e)
  /\ UNCHANGED <<exists, published, active, availability, pendingAvailability, activeKeys,
                 revokedKeys, gateVars, index, draft, healthy, mintedKeys, torn>>

DeployPreview(v, connections) == Deploy("preview", v, connections, "none")

DeployProduction(v, connections) == Deploy("production", v, connections, "direct")

(* A promotion names the preview deployment it promotes; it is refused     *)
(* unless that is the active one, so it always takes the active Version.   *)
PromoteProduction(connections) ==
  /\ active["preview"] # None
  /\ Deploy("production", active["preview"].version, connections, "promotion")

(* A gate that already runs the deployment is left alone.  Otherwise it    *)
(* migrates its own overlay, and the Gateway takes the active keys; it     *)
(* throws on an empty key set and on conflicting overrides.                *)
ReconcileGate(g, e) ==
  LET d == pending[e]
  IN  \/ /\ installed[g][e] = d
         /\ UNCHANGED gateVars
      \/ /\ installed[g][e] # d
         /\ ~ConflictsOn(gateAvailability[g][e], installed[g][e], d)
         /\ installed' = [installed EXCEPT ![g][e] = d]
         /\ gateAvailability' =
              [gateAvailability EXCEPT ![g][e] = Migrate(@, installed[g][e], d)]
         /\ IF g = "gateway"
              THEN /\ activeKeys[e] # {}
                   /\ gatewayKeys' = [gatewayKeys EXCEPT ![e] = activeKeys[e]]
              ELSE UNCHANGED gatewayKeys

(* Mutant: the gates are installed in the other order.                     *)
InstallBroker_GatewayFirst ==
  /\ Step("install_broker", "mark_installed")
  /\ ReconcileGate("gateway", on)
  /\ UNCHANGED <<recordVars, worldVars, torn>>

InstallBroker ==
  /\ Step("install_broker", "mark_installed")
  /\ ReconcileGate("broker", on)
  /\ UNCHANGED <<recordVars, worldVars, torn>>

MarkBrokerInstalled ==
  /\ Step("mark_installed", "install_gateway")
  /\ repair' = [repair EXCEPT ![on] = "gateway"]
  /\ UNCHANGED <<exists, published, active, pending, availability, pendingAvailability,
                 activeKeys, revokedKeys, gateVars, worldVars, torn>>

InstallGateway ==
  /\ Step("install_gateway", "activate")
  /\ ReconcileGate("gateway", on)
  /\ UNCHANGED <<recordVars, worldVars, torn>>

(* Mutant: the recorded overlay keeps the refs of the last deployment.     *)
MigratedRecord_Kept(e) == availability[e]

MigratedRecord(e) ==
  IF active[e] = None \/ active[e] = pending[e]
    THEN availability[e]
    ELSE Migrate(availability[e], active[e], pending[e])

(* The deployment becomes active, and the recorded overlay is migrated the *)
(* way the gates migrated theirs.                                          *)
Activate ==
  /\ Step("activate", "record")
  /\ active[on] # None => ~ConflictsOn(availability[on], active[on], pending[on])
  /\ availability' = [availability EXCEPT ![on] = MigratedRecord(on)]
  /\ active' = [active EXCEPT ![on] = pending[on]]
  /\ pending' = [pending EXCEPT ![on] = None]
  /\ repair' = [repair EXCEPT ![on] = "none"]
  /\ UNCHANGED <<exists, published, pendingAvailability, activeKeys, revokedKeys,
                 gateVars, worldVars, torn>>

-----------------------------------------------------------------------------
(* Pausing and resuming.                                                   *)

NewChange(e, change) ==
  LET command == AvailabilityCommand(change, active[e], availability[e])
  IN  /\ pendingAvailability[e] = None
      /\ availability[e].revision < MaxRevision
      /\ pendingAvailability' = [pendingAvailability EXCEPT ![e] =
           [change |-> change, command |-> command,
            target |-> ApplyAvailability(availability[e], command)]]
      /\ repair' = [repair EXCEPT ![e] = "broker"]

SameChange(e, change) ==
  /\ pendingAvailability[e] # None
  /\ pendingAvailability[e].change = change
  /\ UNCHANGED <<pendingAvailability, repair>>

Changeable(e) == exists /\ active[e] # None /\ pending[e] = None

ChangeAvailability(e, change) ==
  /\ Changeable(e)
  /\ Deployed(change, active[e])
  /\ NewChange(e, change) \/ SameChange(e, change)
  /\ Start("change_broker", e)
  /\ UNCHANGED <<exists, published, active, pending, availability, activeKeys, revokedKeys,
                 gateVars, index, draft, worldVars, torn>>

(* Mutant: a gate that is already at the target is not recognized.         *)
ReconcileAvailabilityGate_Strict(g, e) ==
  LET change == pendingAvailability[e]
  IN  /\ installed[g][e] # None
      /\ GateAccepts(gateAvailability[g][e], RuntimeBindings(installed[g][e]), change.command)
      /\ gateAvailability' = [gateAvailability EXCEPT ![g][e] = change.target]
      /\ UNCHANGED <<installed, gatewayKeys>>

(* A gate already at the target is left alone; one that is neither there   *)
(* nor at the revision the command expects has diverged, and throws.       *)
ReconcileAvailabilityGate(g, e) ==
  LET current == gateAvailability[g][e]
      change  == pendingAvailability[e]
  IN  \/ /\ current = change.target
         /\ UNCHANGED gateVars
      \/ /\ current # change.target
         /\ installed[g][e] # None
         /\ GateAccepts(current, RuntimeBindings(installed[g][e]), change.command)
         /\ GateChange(current, change.command) = change.target
         /\ gateAvailability' = [gateAvailability EXCEPT ![g][e] = change.target]
         /\ UNCHANGED <<installed, gatewayKeys>>

(* Mutant: the change is sent to the Gateway twice.                        *)
ChangeBroker_AtGateway ==
  /\ Step("change_broker", "mark_changed")
  /\ ReconcileAvailabilityGate("gateway", on)
  /\ UNCHANGED <<recordVars, worldVars, torn>>

ChangeBroker ==
  /\ Step("change_broker", "mark_changed")
  /\ ReconcileAvailabilityGate("broker", on)
  /\ UNCHANGED <<recordVars, worldVars, torn>>

MarkBrokerChanged ==
  /\ Step("mark_changed", "change_gateway")
  /\ repair' = [repair EXCEPT ![on] = "gateway"]
  /\ UNCHANGED <<exists, published, active, pending, availability, pendingAvailability,
                 activeKeys, revokedKeys, gateVars, worldVars, torn>>

ChangeGateway ==
  /\ Step("change_gateway", "settle")
  /\ ReconcileAvailabilityGate("gateway", on)
  /\ UNCHANGED <<recordVars, worldVars, torn>>

Settle ==
  /\ Step("settle", "record")
  /\ availability' = [availability EXCEPT ![on] = pendingAvailability[on].target]
  /\ pendingAvailability' = [pendingAvailability EXCEPT ![on] = None]
  /\ repair' = [repair EXCEPT ![on] = "none"]
  /\ UNCHANGED <<exists, published, active, pending, activeKeys, revokedKeys, gateVars,
                 worldVars, torn>>

-----------------------------------------------------------------------------
(* Keys.  The change is made in memory and pushed to the Gateway before    *)
(* mutate puts the record.                                                 *)

ChangeKeys(e, nextActive, nextRevoked) ==
  /\ exists
  /\ Start("push_keys", e)
  /\ draft' = [active |-> nextActive, revoked |-> nextRevoked]
  /\ UNCHANGED <<recordVars, gateVars, index, healthy, minted, torn>>

MintKey(e) ==
  /\ mintedKeys[e] < MaxKeys
  /\ mintedKeys' = [mintedKeys EXCEPT ![e] = @ + 1]

CreateKey(e) ==
  /\ MintKey(e)
  /\ ChangeKeys(e, activeKeys[e] \cup {mintedKeys[e] + 1}, revokedKeys[e])

RotateKey(e, key) ==
  /\ key \in activeKeys[e]
  /\ MintKey(e)
  /\ ChangeKeys(e, (activeKeys[e] \ {key}) \cup {mintedKeys[e] + 1}, revokedKeys[e] \cup {key})

RevokeKey(e, key) ==
  /\ key \in activeKeys[e]
  /\ activeKeys[e] # {key}
  /\ ChangeKeys(e, activeKeys[e] \ {key}, revokedKeys[e] \cup {key})
  /\ UNCHANGED mintedKeys

(* Mutant: every key of the environment is pushed, whatever its status.    *)
ReconcileKeys_AnyStatus ==
  /\ Step("push_keys", "record_keys")
  /\ gatewayKeys' = [gatewayKeys EXCEPT ![on] = draft.active \cup draft.revoked]
  /\ UNCHANGED <<recordVars, installed, gateAvailability, worldVars, torn>>

ReconcileKeys ==
  /\ Step("push_keys", "record_keys")
  /\ gatewayKeys' = [gatewayKeys EXCEPT ![on] = draft.active]
  /\ UNCHANGED <<recordVars, installed, gateAvailability, worldVars, torn>>

RecordKeys ==
  /\ pc = "record_keys"
  /\ pc' = "idle"
  /\ on' = "production"
  /\ draft' = [active |-> {}, revoked |-> {}]
  /\ activeKeys' = [activeKeys EXCEPT ![on] = draft.active]
  /\ revokedKeys' = [revokedKeys EXCEPT ![on] = draft.revoked]
  /\ UNCHANGED <<exists, published, active, pending, availability, pendingAvailability,
                 repair, gateVars, index, worldVars, torn>>

-----------------------------------------------------------------------------
(* Deleting the Angel, and the operator's reset of the Account.  Both loop *)
(* over the environments in the order of HOSTED_ENVIRONMENTS.              *)

Here == HOSTED_ENVIRONMENTS[index]

(* Mutant: the loop runs once more than there are environments.            *)
Loop_OffByOne(step, next) ==
  /\ pc = step
  /\ IF index <= Len(HOSTED_ENVIRONMENTS)
       THEN index' = index + 1 /\ pc' = step
       ELSE index' = 1 /\ pc' = next
  /\ UNCHANGED <<on, draft>>

(* One round of the loop at step: the next environment, or the next loop.  *)
Loop(step, next) ==
  /\ pc = step
  /\ IF index < Len(HOSTED_ENVIRONMENTS)
       THEN index' = index + 1 /\ pc' = step
       ELSE index' = 1 /\ pc' = next
  /\ UNCHANGED <<on, draft>>

ResetGate(g, e) ==
  /\ installed' = [installed EXCEPT ![g][e] = None]
  /\ gateAvailability' = [gateAvailability EXCEPT ![g][e] = DefaultAvailability]
  /\ gatewayKeys' = IF g = "gateway" THEN [gatewayKeys EXCEPT ![e] = {}] ELSE gatewayKeys
  /\ torn' = TRUE

(* Every key is recorded revoked before any gate is touched.  A production *)
(* deployment, active or pending, has to be confirmed.                     *)
DeleteAngel(confirmed) ==
  /\ exists
  /\ active["production"] # None \/ pending["production"] # None => confirmed
  /\ Start("lock", "production")
  /\ activeKeys' = [e \in Environments |-> {}]
  /\ revokedKeys' = [e \in Environments |-> revokedKeys[e] \cup activeKeys[e]]
  /\ UNCHANGED <<exists, published, active, pending, availability, pendingAvailability,
                 repair, gateVars, index, draft, worldVars, torn>>

(* Mutant: every round locks production.                                   *)
LockGateway_SameEnvironment ==
  /\ Loop("lock", "delete_broker")
  /\ gatewayKeys' = [gatewayKeys EXCEPT ![on] = {}]
  /\ UNCHANGED <<recordVars, installed, gateAvailability, worldVars, torn>>

LockGateway ==
  /\ Loop("lock", "delete_broker")
  /\ gatewayKeys' = [gatewayKeys EXCEPT ![Here] = {}]
  /\ UNCHANGED <<recordVars, installed, gateAvailability, worldVars, torn>>

DeleteAtBroker ==
  /\ Loop("delete_broker", "delete_gateway")
  /\ ResetGate("broker", Here)
  /\ UNCHANGED <<recordVars, worldVars>>

DeleteAtGateway ==
  /\ Loop("delete_gateway", "drop")
  /\ ResetGate("gateway", Here)
  /\ UNCHANGED <<recordVars, worldVars>>

(* The Angel leaves the record with its Versions and deployments.          *)
DropRecord(step) ==
  /\ Step(step, "idle")
  /\ exists' = FALSE
  /\ published' = {}
  /\ active' = [e \in Environments |-> None]
  /\ pending' = [e \in Environments |-> None]
  /\ availability' = [e \in Environments |-> DefaultAvailability]
  /\ pendingAvailability' = [e \in Environments |-> None]
  /\ repair' = [e \in Environments |-> "none"]
  /\ activeKeys' = [e \in Environments |-> {}]
  /\ revokedKeys' = [e \in Environments |-> {}]
  /\ torn' = FALSE
  /\ UNCHANGED <<gateVars, worldVars>>

DropAngel == DropRecord("drop")

(* The reset closes the same gates and locks no keys first.                *)
ResetAccount ==
  /\ exists
  /\ Start("reset_broker", "production")
  /\ UNCHANGED <<recordVars, gateVars, index, draft, worldVars, torn>>

ResetAtBroker ==
  /\ Loop("reset_broker", "reset_gateway")
  /\ ResetGate("broker", Here)
  /\ UNCHANGED <<recordVars, worldVars>>

ResetAtGateway ==
  /\ Loop("reset_gateway", "replace")
  /\ ResetGate("gateway", Here)
  /\ UNCHANGED <<recordVars, worldVars>>

ReplaceState == DropRecord("replace")

-----------------------------------------------------------------------------
(* Outside: a Connection breaks, is revoked or is authorized again.        *)
ConnectionHealth(c) ==
  /\ healthy' = IF c \in healthy THEN healthy \ {c} ELSE healthy \cup {c}
  /\ UNCHANGED <<recordVars, gateVars, commandVars, minted, mintedKeys, torn>>

DeployCommand ==
  \E v \in Versions, connections \in SUBSET Connections :
    \/ DeployPreview(v, connections)
    \/ DeployProduction(v, connections)
    \/ PromoteProduction(connections)

KeyCommand ==
  \E e \in Environments :
    \/ CreateKey(e)
    \/ \E key \in activeKeys[e] : RotateKey(e, key) \/ RevokeKey(e, key)

TeardownCommand == ResetAccount \/ \E confirmed \in BOOLEAN : DeleteAngel(confirmed)

DeployStep == InstallBroker \/ MarkBrokerInstalled \/ InstallGateway \/ Activate

AvailabilityStep == ChangeBroker \/ MarkBrokerChanged \/ ChangeGateway \/ Settle

KeyStep == ReconcileKeys \/ RecordKeys

TeardownStep ==
  \/ LockGateway \/ DeleteAtBroker \/ DeleteAtGateway \/ DropAngel
  \/ ResetAtBroker \/ ResetAtGateway \/ ReplaceState

Next ==
  \/ EnsureAngel
  \/ \E v \in Versions : PublishVersion(v)
  \/ DeployCommand \/ DeployStep
  \/ \E e \in Environments, change \in Changes : ChangeAvailability(e, change)
  \/ AvailabilityStep
  \/ KeyCommand \/ KeyStep
  \/ TeardownCommand \/ TeardownStep
  \/ Record
  \/ Interrupt
  \/ \E c \in Connections : ConnectionHealth(c)

Spec == Init /\ [][Next]_vars

-----------------------------------------------------------------------------
(* Fairness, for the repair of an interrupted change.                      *)

(* The operator sends the request that was cut short once more.            *)
RetryDeployment(e) ==
  /\ pending[e] # None
  /\ pending[e].provenance = "promotion" =>
       active["preview"] # None /\ active["preview"].version = pending[e].version
  /\ Deploy(e, pending[e].version, pending[e].connections, pending[e].provenance)

RetryChange(e) ==
  /\ pendingAvailability[e] # None
  /\ ChangeAvailability(e, pendingAvailability[e].change)

CommandStep ==
  DeployStep \/ AvailabilityStep \/ KeyStep \/ TeardownStep \/ Record \/ Interrupt

(* A command always comes to an end, the operator keeps retrying, and of   *)
(* the requests and puts that are made again and again one gets through.   *)
Fairness ==
  /\ WF_vars(CommandStep)
  /\ \A e \in Environments :
       /\ SF_vars(RetryDeployment(e) \/ RetryChange(e))
       /\ SF_vars(on = e /\ (InstallBroker \/ ChangeBroker))
       /\ SF_vars(on = e /\ (MarkBrokerInstalled \/ MarkBrokerChanged))
       /\ SF_vars(on = e /\ (InstallGateway \/ ChangeGateway))
       /\ SF_vars(on = e /\ (Activate \/ Settle))

FairSpec == Spec /\ Fairness

-----------------------------------------------------------------------------
(* Properties.                                                             *)

(* Every variable keeps its type: the record, the gates and the command    *)
(* are always states the TypeScript types allow.                           *)
TypeOK ==
  /\ exists \in BOOLEAN
  /\ published \in SUBSET Versions
  /\ active \in [Environments -> Deployments \cup {None}]
  /\ pending \in [Environments -> Deployments \cup {None}]
  /\ availability \in [Environments -> Availabilities]
  /\ pendingAvailability \in [Environments -> PendingAvailabilities \cup {None}]
  /\ repair \in [Environments -> {"none", "broker", "gateway"}]
  /\ activeKeys \in [Environments -> SUBSET Nat]
  /\ revokedKeys \in [Environments -> SUBSET Nat]
  /\ installed \in [Gates -> [Environments -> Deployments \cup {None}]]
  /\ gateAvailability \in [Gates -> [Environments -> Availabilities]]
  /\ gatewayKeys \in [Environments -> SUBSET Nat]
  /\ pc \in {"idle", "install_broker", "mark_installed", "install_gateway", "activate",
             "change_broker", "mark_changed", "change_gateway", "settle", "record",
             "push_keys", "record_keys", "lock", "delete_broker", "delete_gateway",
             "drop", "reset_broker", "reset_gateway", "replace"}
  /\ on \in Environments
  /\ index \in 1..2
  /\ draft \in [active : SUBSET Nat, revoked : SUBSET Nat]
  /\ healthy \in SUBSET Connections
  /\ minted \in [Environments -> Nat]
  /\ mintedKeys \in [Environments -> Nat]
  /\ torn \in BOOLEAN

(* Where a gate can stand: at the record, or already at what the pending   *)
(* deployment or the pending availability change will make of the record.  *)
AtRecord(g, e) ==
  /\ installed[g][e] = active[e]
  /\ gateAvailability[g][e] = availability[e]

AtPendingDeployment(g, e) ==
  /\ pending[e] # None
  /\ installed[g][e] = pending[e]
  /\ gateAvailability[g][e] = Migrate(availability[e], active[e], pending[e])

AtPendingChange(g, e) ==
  /\ pendingAvailability[e] # None
  /\ installed[g][e] = active[e]
  /\ gateAvailability[g][e] = pendingAvailability[e].target

AtTarget(g, e) == AtPendingDeployment(g, e) \/ AtPendingChange(g, e)

(* Whatever requests and puts are lost, a gate runs exactly the recorded   *)
(* deployment under exactly the recorded overlay, or exactly what the one  *)
(* change marked for repair leads to; with nothing to repair both gates    *)
(* are at the record.  (Not after a teardown was cut short: see torn.)     *)
GatesMatchRecord ==
  ~torn => \A e \in Environments, g \in Gates : AtRecord(g, e) \/ AtTarget(g, e)

(* The Gateway never runs ahead of the Broker: it moves only after the     *)
(* Broker did, and the marker says "gateway" only when the Broker is done. *)
BrokerLeads ==
  ~torn => \A e \in Environments :
    AtTarget("gateway", e) \/ repair[e] = "gateway" => AtTarget("broker", e)

(* A repair marker stands for exactly one unfinished change: a deployment  *)
(* and an availability change are never pending together, and something is *)
(* pending exactly while the marker is set.                                *)
OneRepair ==
  \A e \in Environments :
    /\ pending[e] = None \/ pendingAvailability[e] = None
    /\ repair[e] = "none" <=> pending[e] = None /\ pendingAvailability[e] = None

(* The overlay as the ManagementControl constructor repairs it on restore. *)
RestoredAvailability(a, d) ==
  IF d = None THEN [a EXCEPT !.connectionOverrides = {}] ELSE Migrate(a, d, d)

(* The repair on restore never changes a record this code stored: no       *)
(* overlay, recorded or pending, names a tool or ref that is not deployed. *)
(* (The model may therefore leave the repair out of every command.)        *)
RestoreIsIdentity ==
  \A e \in Environments :
    /\ RestoredAvailability(availability[e], active[e]) = availability[e]
    /\ pendingAvailability[e] # None =>
         RestoredAvailability(pendingAvailability[e].target, active[e])
           = pendingAvailability[e].target

(* The throw on conflicting overrides is dead code: neither a gate nor     *)
(* Management ever holds an overlay whose migration conflicts.             *)
MigrationNeverConflicts ==
  \A e \in Environments :
    pending[e] # None =>
      /\ \A g \in Gates :
           ~ConflictsOn(gateAvailability[g][e], installed[g][e], pending[e])
      /\ ~ConflictsOn(availability[e], active[e], pending[e])

(* A pending availability change can always be applied: each gate is at    *)
(* the target already, or accepts the recorded command and computes the    *)
(* target Management computed.  The "diverged" throw is not reached.       *)
ChangeNeverDiverges ==
  ~torn => \A e \in Environments, g \in Gates :
    LET change == pendingAvailability[e]
    IN  change # None =>
          \/ gateAvailability[g][e] = change.target
          \/ /\ GateAccepts(gateAvailability[g][e], RuntimeBindings(installed[g][e]),
                            change.command)
             /\ GateChange(gateAvailability[g][e], change.command) = change.target

(* While an environment has an active key its Gateway accepts no key that  *)
(* is recorded as revoked, whichever key command was cut short.            *)
RevokedKeysRejected ==
  \A e \in Environments :
    activeKeys[e] # {} => revokedKeys[e] \cap gatewayKeys[e] = {}

(* Once a deletion has started on the gates nothing authenticates at the   *)
(* Gateway until the Angel is gone.                                        *)
LockedWhileClosing ==
  pc \in {"delete_broker", "delete_gateway", "drop"} =>
    \A e \in Environments : gatewayKeys[e] = {}

(* Neither gate falls back to an older deployment or overlay revision; it  *)
(* only goes back by being reset to nothing.                               *)
NoFallback ==
  [][\A g \in Gates, e \in Environments :
       installed[g][e] # None /\ installed'[g][e] # None =>
         /\ installed'[g][e].id >= installed[g][e].id
         /\ gateAvailability'[g][e].revision >= gateAvailability[g][e].revision]_vars

(* Pauses survive a redeploy: for a tool both Versions ship and a          *)
(* Connection both deployments bind, an install leaves the gate's answer   *)
(* as it was, although every ref has changed.                              *)
SamePauses(a, d, b, n) ==
  \A tool \in ToolsOf(d) \cap ToolsOf(n), c \in d.connections \cap n.connections :
    IsToolConnectionEnabled(a, tool, <<d.id, c>>)
      <=> IsToolConnectionEnabled(b, tool, <<n.id, c>>)

PausesSurviveRedeploy ==
  [][\A g \in Gates, e \in Environments :
       installed[g][e] # None /\ installed'[g][e] \notin {None, installed[g][e]} =>
         SamePauses(gateAvailability[g][e], installed[g][e],
                    gateAvailability'[g][e], installed'[g][e])]_vars

(* What the retry needs from outside: the Connections still healthy, a key *)
(* for the Gateway, no teardown under way, and for a promotion the Version *)
(* it promotes still active in preview.                                    *)
Repairable(e) ==
  /\ activeKeys[e] # {}
  /\ ~torn
  /\ pending[e] # None =>
       /\ pending[e].connections \subseteq healthy
       /\ pending[e].provenance = "promotion" =>
            active["preview"] # None /\ active["preview"].version = pending[e].version

(* Repeating the identical request repairs every interrupted deployment or *)
(* availability change, wherever it was cut short and however often.       *)
RepairCompletes ==
  \A e \in Environments :
    <>[]Repairable(e) => []<>(pending[e] = None /\ pendingAvailability[e] = None)

(* "Both the gate (at install) and Management (when the deployment becomes *)
(* active) apply this same migration so their recorded availability stays  *)
(* identical" (src/src/gate.ts): with nothing to repair, gates that run    *)
(* the active deployment enforce the recorded overlay.                     *)
RecordedAvailabilityEnforced ==
  \A e \in Environments :
    /\ active[e] # None
    /\ repair[e] = "none"
    /\ \A g \in Gates : installed[g][e] = active[e]
    => \A g \in Gates : gateAvailability[g][e] = availability[e]

(* "An interrupted change leaves a repair marker: retry the identical      *)
(* request" (src/docs/user-manual.md): a pending promotion can be retried, *)
(* so what it promotes is still what preview runs.                         *)
PromotionCanBeRetried ==
  LET p == pending["production"]
  IN  p # None /\ p.provenance = "promotion" =>
        active["preview"] # None /\ active["preview"].version = p.version

(* "If a gate call fails mid-teardown the Angel stays visible with its     *)
(* keys revoked" (src/docs/user-manual.md): an Angel left without active   *)
(* keys is one the Gateway accepts no key of.                              *)
KeylessAngelIsLocked ==
  pc = "idle" /\ exists =>
    \A e \in Environments : activeKeys[e] = {} => gatewayKeys[e] = {}

===============================================================================
