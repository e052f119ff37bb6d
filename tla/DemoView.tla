------------------------------- MODULE DemoView -------------------------------
(***************************************************************************)
(* What the registry shows of one Angel (src/src/demo-view.ts), what the   *)
(* dashboard offers from it (src/www/app.js), and what the registry makes  *)
(* of an offer that is taken (src/src/workers/account-registry.ts).        *)
(*                                                                         *)
(* The view is built inside the registry's queue, between two commands, so *)
(* every definition here is about a state with pc = "idle".  It is         *)
(* validated before it is answered, and one field that does not validate   *)
(* fails the view of the whole Account.                                    *)
(*                                                                         *)
(* Left out: names, labels, times and receipts, and the Connections of     *)
(* deployments that were superseded.                                       *)
(***************************************************************************)
EXTENDS Management

-----------------------------------------------------------------------------
(* One environment.                                                        *)

InstallationAligned(e) == \A g \in Gates : installed[g][e] = active[e]

AvailabilityAligned(e) == \A g \in Gates : gateAvailability[g][e] = availability[e]

Aligned(aligned) == IF aligned THEN "aligned" ELSE "mismatched"

ToolViews(e) ==
  {[name |-> tool,
    connections |->
      {[connectionId |-> c,
        available    |-> /\ InstallationAligned(e)
                         /\ AvailabilityAligned(e)
                         /\ IsToolConnectionEnabled(availability[e], tool, <<active[e].id, c>>)]
         : c \in active[e].connections}]
     : tool \in ToolsOf(active[e])}

(* Mutant: what is not a direct deployment was a promotion.                *)
DeployKind_ByProvenance(e, d) ==
  IF d.provenance = "direct" THEN "production_deploy" ELSE "production_promotion"

DeployKind(e, d) ==
  IF e = "preview" THEN "preview_deploy"
  ELSE IF d.provenance = "direct" THEN "production_deploy"
  ELSE "production_promotion"

LifecycleEvents(e) ==
  IF active[e] = None THEN <<>>
  ELSE <<[kind |-> "version_published", environment |-> e, version |-> active[e].version,
          deploymentId |-> None, order |-> 0],
         [kind |-> DeployKind(e, active[e]), environment |-> e,
          version |-> active[e].version, deploymentId |-> active[e].id, order |-> 1]>>

AvailabilityRepair(e) ==
  IF pendingAvailability[e] = None THEN None ELSE pendingAvailability[e].change

(* Named keys, never their hashes.                                         *)
EnvironmentKeyViews(e) ==
  [id : activeKeys[e], status : {"active"}] \cup [id : revokedKeys[e], status : {"revoked"}]

EnvironmentView(e) ==
  [version      |-> IF active[e] = None THEN None ELSE active[e].version,
   deploymentId |-> IF active[e] = None THEN None ELSE active[e].id,
   installation |-> Aligned(InstallationAligned(e)),
   availability |-> Aligned(AvailabilityAligned(e)),
   repair       |-> AvailabilityRepair(e),
   keys         |-> EnvironmentKeyViews(e),
   bindings     |-> IF active[e] = None THEN {} ELSE active[e].connections,
   tools        |-> ToolViews(e),
   lifecycle    |-> LifecycleEvents(e)]

-----------------------------------------------------------------------------
(* The Angel.                                                              *)

VersionStatus(v) ==
  IF active["production"] # None /\ active["production"].version = v THEN "live"
  ELSE IF active["preview"] # None /\ active["preview"].version = v THEN "staged"
  ELSE "history"

(* The same floor a deployment has to pass: every Connection is there, is  *)
(* healthy and covers the Version.                                         *)
BindingsFitVersion(connections) == connections # {} /\ connections \subseteq healthy

(* Mutant: the Connections are not looked at.                              *)
ReadyForProduction_AnyBindings ==
  LET preview    == active["preview"]
      production == active["production"]
  IN  IF preview = None \/ production = None THEN None
      ELSE IF production.version = preview.version /\ pending["production"] = None THEN None
      ELSE [stagedDeploymentId |-> preview.id,
            expectedDigest     |-> preview.version,
            added              |-> ToolsOf(preview) \ ToolsOf(production),
            removed            |-> ToolsOf(production) \ ToolsOf(preview),
            bindings           |-> production.connections]

(* A promotion is offered onto the Connections production has now.         *)
ReadyForProduction ==
  LET preview    == active["preview"]
      production == active["production"]
  IN  IF preview = None \/ production = None THEN None
      ELSE IF production.version = preview.version /\ pending["production"] = None THEN None
      ELSE IF ~BindingsFitVersion(production.connections) THEN None
      ELSE [stagedDeploymentId |-> preview.id,
            expectedDigest     |-> preview.version,
            added              |-> ToolsOf(preview) \ ToolsOf(production),
            removed            |-> ToolsOf(production) \ ToolsOf(preview),
            bindings           |-> production.connections]

(* The Connections its deployments are bound to; one that the provider's   *)
(* list no longer has was kept, as failing.                                *)
ConnectionViews ==
  {[id |-> c, health |-> IF c \in healthy THEN "healthy" ELSE "error"] :
     c \in UNION {d.connections :
                    d \in (UNION {{active[e], pending[e]} : e \in Environments}) \ {None}}}

AngelView ==
  LET environments == [e \in Environments |-> EnvironmentView(e)]
  IN  [connections  |-> ConnectionViews,
       enabled      |-> \E t \in environments["production"].tools :
                          \E c \in t.connections : c.available,
       environments |-> environments,
       versions     |-> {[digest |-> v, status |-> VersionStatus(v)] : v \in published},
       ready        |-> ReadyForProduction]

-----------------------------------------------------------------------------
(* The two validators of a view, up to the text of names: the registry's,  *)
(* which the answer has to pass, and the dashboard's, without which        *)
(* nothing is shown.  The code keeps two copies "in lockstep".             *)

LifecycleKinds(e) ==
  IF e = "preview" THEN {"preview_deploy"} ELSE {"production_promotion", "production_deploy"}

ValidConnection(connection) == connection.health \in {"healthy", "error"}

ValidTool(tool) ==
  /\ tool.name \in Tools
  /\ \A c \in tool.connections : c.connectionId \in Connections /\ c.available \in BOOLEAN

ValidLifecycleEvent(event, e) ==
  /\ event.environment = e
  /\ event.kind \in {"version_published"} \cup LifecycleKinds(e)
  /\ event.deploymentId = None <=> event.kind = "version_published"
  /\ event.version \in Versions

ValidAgentKey(key) == key.status \in {"active", "revoked"}

ValidAvailabilityRepair(change) == change = None \/ change \in Changes

ValidEnvironment(view, e) ==
  /\ view.version \in Versions \cup {None}
  /\ view.installation \in {"aligned", "mismatched"}
  /\ view.availability \in {"aligned", "mismatched"}
  /\ ValidAvailabilityRepair(view.repair)
  /\ \A key \in view.keys : ValidAgentKey(key)
  /\ view.bindings \subseteq Connections
  /\ \A tool \in view.tools : ValidTool(tool)
  /\ \A i \in DOMAIN view.lifecycle : ValidLifecycleEvent(view.lifecycle[i], e)

ValidVersion(version) == version.status \in {"staged", "live", "history"}

ValidReady(ready) ==
  ready # None =>
    /\ ready.expectedDigest \in Versions
    /\ ready.added \cup ready.removed \subseteq Tools
    /\ ready.bindings \subseteq Connections

ValidAngel(view) ==
  /\ \A connection \in view.connections : ValidConnection(connection)
  /\ \A e \in Environments : ValidEnvironment(view.environments[e], e)
  /\ \A version \in view.versions : ValidVersion(version)
  /\ ValidReady(view.ready)

(* The dashboard's copy: the shapes it takes, field by field.              *)

AcceptedConnections == [id : Connections, health : {"healthy", "error"}]

AcceptedTools ==
  [name : Tools, connections : SUBSET [connectionId : Connections, available : BOOLEAN]]

AcceptedLifecycleEvents(e) ==
  [kind : {"version_published"}, environment : {e}, version : Versions,
   deploymentId : {None}, order : Nat]
  \cup [kind : LifecycleKinds(e), environment : {e}, version : Versions,
        deploymentId : Nat, order : Nat]

AcceptedAgentKeys == [id : Nat, status : {"active", "revoked"}]

AcceptedRepairs == {None} \cup Changes

AcceptedEnvironments(e) ==
  [version      : Versions \cup {None},
   deploymentId : Nat \cup {None},
   installation : {"aligned", "mismatched"},
   availability : {"aligned", "mismatched"},
   repair       : AcceptedRepairs,
   keys         : SUBSET AcceptedAgentKeys,
   bindings     : SUBSET Connections,
   tools        : SUBSET AcceptedTools,
   lifecycle    : Seq(AcceptedLifecycleEvents(e))]

AcceptedVersions == [digest : Versions, status : {"staged", "live", "history"}]

AcceptedReady ==
  {None} \cup [stagedDeploymentId : Nat, expectedDigest : Versions,
               added : SUBSET Tools, removed : SUBSET Tools, bindings : SUBSET Connections]

AcceptsAngel(view) ==
  /\ DOMAIN view = {"connections", "enabled", "environments", "versions", "ready"}
  /\ view.connections \subseteq AcceptedConnections
  /\ view.enabled \in BOOLEAN
  /\ DOMAIN view.environments = Environments
  /\ \A e \in Environments : view.environments[e] \in AcceptedEnvironments(e)
  /\ view.versions \subseteq AcceptedVersions
  /\ view.ready \in AcceptedReady

-----------------------------------------------------------------------------
(* What the dashboard offers for an environment it shows.                  *)

GateDrifted(view) == view.installation # "aligned" \/ view.availability # "aligned"

(* Mutant: a repair that is pending does not close the switches.           *)
AvailabilityBlocked_ByDrift(view) == view.deploymentId = None \/ GateDrifted(view)

AvailabilityBlocked(view) ==
  view.deploymentId = None \/ view.repair # None \/ GateDrifted(view)

(* A switch per tool and Connection, and two buttons for the environment.  *)
ConnectionToggles(view) ==
  UNION {{[kind |-> "tool_connection", tool |-> t.name, connectionId |-> c.connectionId,
           enabled |-> ~c.available] : c \in t.connections} : t \in view.tools}

SettingsButtons == [kind : {"all"}, enabled : BOOLEAN]

(* A repair that is pending is offered whatever the gates say.             *)
OfferedChanges(view) ==
  (IF AvailabilityBlocked(view) THEN {} ELSE ConnectionToggles(view) \cup SettingsButtons)
  \cup (IF view.repair = None THEN {} ELSE {view.repair})

(* Repair and drift outrank a promotion on the decision card.              *)
PromotionOffered(view) ==
  /\ view.ready # None
  /\ view.environments["production"].repair = None
  /\ ~GateDrifted(view.environments["production"])

-----------------------------------------------------------------------------
(* What the registry makes of an offer.                                    *)

(* A change that is in force already answers the view and changes nothing. *)
AvailabilityAlready(a, d, change) ==
  CASE change.kind = "all" ->
         a.defaultEnabled = change.enabled /\ a.overrides = {} /\ a.connectionOverrides = {}
    [] change.kind = "tool" ->
         /\ IsToolEnabled(a, change.tool) = change.enabled
         /\ \A o \in a.connectionOverrides : o[1] # change.tool
    [] change.kind = "tool_connection" ->
         IsToolConnectionEnabled(a, change.tool, <<d.id, change.connectionId>>)
           = change.enabled

ChangeAccepted(e, change) ==
  \/ /\ pendingAvailability[e] = None
     /\ AvailabilityAlready(availability[e], active[e], change)
  \/ /\ Changeable(e)
     /\ Deployed(change, active[e])
     /\ \/ pendingAvailability[e] = None
        \/ pendingAvailability[e].change = change

PromotionAccepted(ready) ==
  /\ ready = ReadyForProduction
  /\ ready.expectedDigest \in published
  /\ pendingAvailability["production"] = None
  /\ ValidBindings(ready.bindings)

-----------------------------------------------------------------------------
(* Properties.                                                             *)

Shown == pc = "idle" /\ exists

(* Wherever commands were cut short, the view passes the registry's        *)
(* validator and the dashboard's: the Account's whole view is never lost   *)
(* to one environment.                                                     *)
ViewIsValid == Shown => LET view == AngelView IN ValidAngel(view) /\ AcceptsAngel(view)

(* A pause, a resume or a repair that the dashboard offers is one the      *)
(* registry does not refuse, whatever was cut short before, as long as     *)
(* the environment has no deployment pending.                              *)
ChangesAreAccepted ==
  Shown => \A e \in Environments : pending[e] = None =>
    \A change \in OfferedChanges(EnvironmentView(e)) : ChangeAccepted(e, change)

(* A promotion that the dashboard offers is one the registry does not      *)
(* refuse, as long as production has no deployment pending: same stage,    *)
(* same artifact, same Connections, and Connections the floor accepts.     *)
PromotionIsAccepted ==
  Shown /\ pending["production"] = None /\ PromotionOffered(AngelView) =>
    PromotionAccepted(AngelView.ready)

===============================================================================
