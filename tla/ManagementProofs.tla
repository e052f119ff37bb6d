--------------------------- MODULE ManagementProofs ---------------------------
(***************************************************************************)
(* Theorems about Management, for every set of tools, Connections and      *)
(* Versions and every bound: its types, its repair marker, its key lists   *)
(* and the locking of the Gateway during a deletion.                       *)
(***************************************************************************)
EXTENDS Management, AvailabilityProofs

DeploySteps == {"install_broker", "mark_installed", "install_gateway", "activate"}

ChangeSteps == {"change_broker", "mark_changed", "change_gateway", "settle"}

KeySteps == {"push_keys", "record_keys"}

ClosedSteps == {"delete_broker", "delete_gateway", "drop"}

(* What a command that is running has established: the Angel is recorded,  *)
(* and a deploy or an availability change has its target recorded.         *)
CommandOK ==
  /\ pc # "idle" => exists
  /\ pc \in DeploySteps => pending[on] # None
  /\ pc \in ChangeSteps => pendingAvailability[on] # None

RecordInv == TypeOK /\ OneRepair /\ CommandOK

-----------------------------------------------------------------------------
(* The actions a step can be.                                              *)
LEMMA NextCases ==
  ASSUME [Next]_vars
  PROVE  \/ EnsureAngel
         \/ \E v \in Versions : PublishVersion(v)
         \/ \E e \in Environments, v \in Versions, connections \in SUBSET Connections,
               provenance \in {"none", "direct"} :
              Deploy(e, v, connections, provenance)
         \/ \E connections \in SUBSET Connections : PromoteProduction(connections)
         \/ InstallBroker \/ MarkBrokerInstalled \/ InstallGateway \/ Activate
         \/ \E e \in Environments, change \in Changes : ChangeAvailability(e, change)
         \/ ChangeBroker \/ MarkBrokerChanged \/ ChangeGateway \/ Settle
         \/ \E e \in Environments : CreateKey(e)
         \/ \E e \in Environments : \E key \in activeKeys[e] : RotateKey(e, key)
         \/ \E e \in Environments : \E key \in activeKeys[e] : RevokeKey(e, key)
         \/ ReconcileKeys \/ RecordKeys
         \/ \E confirmed \in BOOLEAN : DeleteAngel(confirmed)
         \/ LockGateway \/ DeleteAtBroker \/ DeleteAtGateway \/ DropAngel
         \/ ResetAccount \/ ResetAtBroker \/ ResetAtGateway \/ ReplaceState
         \/ Record
         \/ Interrupt
         \/ \E c \in Connections : ConnectionHealth(c)
         \/ UNCHANGED vars
<1>1. CASE DeployCommand
  BY <1>1 DEF DeployCommand, DeployPreview, DeployProduction, Environments
<1>2. CASE KeyCommand
  BY <1>2 DEF KeyCommand
<1>3. CASE TeardownCommand
  BY <1>3 DEF TeardownCommand
<1> QED
  BY <1>1, <1>2, <1>3 DEF Next, DeployStep, AvailabilityStep, KeyStep, TeardownStep

-----------------------------------------------------------------------------
(* Types of the operators a deployment and a change are built with.        *)
LEMMA RuntimeBindingsType ==
  ASSUME NEW d \in Deployments \cup {None}
  PROVE  ToolsOf(d) \in SUBSET Tools /\ RuntimeBindings(d) \in SUBSET Bindings
<1>1. CASE d = None
  BY <1>1 DEF ToolsOf, RuntimeBindings
<1>2. CASE d # None
  <2>1. d \in Deployments
    BY <1>2
  <2>2. d.id \in Nat \ {0} /\ d.version \in Versions /\ d.connections \in SUBSET Connections
    BY <2>1 DEF Deployments
  <2>3. ToolsOf(d) \in SUBSET Tools
    BY <1>2, <2>2, VersionsAssumption DEF ToolsOf
  <2>4. \A tool \in ToolsOf(d), c \in d.connections : <<tool, <<d.id, c>>>> \in Bindings
    BY <2>2, <2>3 DEF Bindings, Refs
  <2> QED
    BY <1>2, <2>3, <2>4 DEF RuntimeBindings
<1> QED
  BY <1>1, <1>2

LEMMA MigrateType ==
  ASSUME NEW a \in Availabilities, NEW previous \in Deployments \cup {None},
         NEW d \in Deployments \cup {None}
  PROVE  /\ Migrate(a, previous, d) \in Availabilities
         /\ Migrate(a, previous, d).revision = a.revision
BY RuntimeBindingsType, MigrationType DEF Migrate

LEMMA AvailabilityCommandType ==
  ASSUME NEW change \in Changes, NEW d \in Deployments, NEW a \in Availabilities,
         Deployed(change, d)
  PROVE  AvailabilityCommand(change, d, a) \in Commands
<1>0. a.revision \in Nat /\ d.id \in Nat \ {0}
  BY DEF Availabilities, Deployments
<1>1. CASE change.kind = "all"
  BY <1>0, <1>1 DEF AvailabilityCommand, Changes, Commands
<1>2. CASE change.kind = "tool"
  BY <1>0, <1>2 DEF AvailabilityCommand, Changes, Commands
<1>3. CASE change.kind = "tool_connection"
  <2>1. change.tool \in Tools /\ change.connectionId \in Connections /\ change.enabled \in BOOLEAN
    BY <1>3 DEF Changes
  <2>2. <<d.id, change.connectionId>> \in Refs
    BY <1>0, <2>1 DEF Refs
  <2> QED
    BY <1>0, <1>3, <2>1, <2>2 DEF AvailabilityCommand, Commands
<1> QED
  BY <1>1, <1>2, <1>3 DEF Changes

-----------------------------------------------------------------------------
(* Type correctness, with what it rests on: a change of the record reads   *)
(* the pending target, so that has to be there when the step is taken, and *)
(* a finished change must leave nothing pending under a cleared marker.    *)

LEMMA RecordInit == Init => RecordInv
<1> SUFFICES ASSUME Init PROVE RecordInv
  OBVIOUS
<1>1. DefaultAvailability \in Availabilities
  BY DefaultAvailabilityType
<1>2. TypeOK
  <2>1. /\ gateAvailability \in [Gates -> [Environments -> Availabilities]]
        /\ installed \in [Gates -> [Environments -> Deployments \cup {None}]]
        /\ availability \in [Environments -> Availabilities]
    BY <1>1 DEF Init
  <2>2. /\ draft \in [active : SUBSET Nat, revoked : SUBSET Nat]
        /\ index \in 1..2 /\ on \in Environments
    BY DEF Init, Environments
  <2> QED
    BY <2>1, <2>2 DEF Init, TypeOK
<1>3. OneRepair
  BY DEF Init, OneRepair
<1>4. CommandOK
  BY DEF Init, CommandOK, DeploySteps, ChangeSteps
<1> QED
  BY <1>2, <1>3, <1>4 DEF RecordInv

LEMMA DeployKeepsRecord ==
  ASSUME RecordInv, NEW e \in Environments, NEW v \in Versions,
         NEW connections \in SUBSET Connections,
         NEW provenance \in {"none", "direct", "promotion"},
         Deploy(e, v, connections, provenance)
  PROVE  RecordInv'
<1> USE DEF RecordInv
<1>1. /\ minted'[e] \in Nat /\ minted' \in [Environments -> Nat]
      /\ pending' \in [Environments -> Deployments \cup {None}]
      /\ pending'[e] # None
      /\ \A f \in Environments \ {e} : pending'[f] = pending[f] /\ repair'[f] = repair[f]
      /\ repair' \in [Environments -> {"none", "broker", "gateway"}]
      /\ repair'[e] # "none"
  <2>1. CASE NewDeployment(e, v, connections, provenance)
    <3> DEFINE d == [id |-> minted[e] + 1, version |-> v, connections |-> connections,
                     provenance |-> provenance]
    <3>1. d \in Deployments
      <4>1. minted[e] + 1 \in Nat \ {0} /\ connections # {}
        BY DEF Deploy, ValidBindings, TypeOK
      <4> QED
        BY <4>1 DEF Deployments
    <3>2. d # None
      BY <3>1, NoneAssumption
    <3>3. /\ minted' = [minted EXCEPT ![e] = @ + 1]
          /\ pending' = [pending EXCEPT ![e] = d]
          /\ repair' = [repair EXCEPT ![e] = "broker"]
      BY <2>1 DEF NewDeployment
    <3> HIDE DEF d
    <3> QED
      BY <3>1, <3>2, <3>3 DEF TypeOK
  <2>2. CASE SameDeployment(e, v, connections, provenance)
    BY <2>2 DEF SameDeployment, OneRepair, TypeOK
  <2> QED
    BY <2>1, <2>2 DEF Deploy
<1>2. TypeOK'
  BY <1>1 DEF Deploy, Start, TypeOK, gateVars
<1>3. OneRepair'
  BY <1>1 DEF Deploy, OneRepair, TypeOK
<1>4. CommandOK'
  BY <1>1 DEF Deploy, Start, CommandOK, DeploySteps, ChangeSteps
<1> QED
  BY <1>2, <1>3, <1>4

LEMMA ChangeKeepsRecord ==
  ASSUME RecordInv, NEW e \in Environments, NEW change \in Changes,
         ChangeAvailability(e, change)
  PROVE  RecordInv'
<1> USE DEF RecordInv
<1>1. /\ pendingAvailability' \in [Environments -> PendingAvailabilities \cup {None}]
      /\ pendingAvailability'[e] # None
      /\ \A f \in Environments \ {e} :
           pendingAvailability'[f] = pendingAvailability[f] /\ repair'[f] = repair[f]
      /\ repair' \in [Environments -> {"none", "broker", "gateway"}]
      /\ repair'[e] # "none"
  <2>1. CASE NewChange(e, change)
    <3> DEFINE command == AvailabilityCommand(change, active[e], availability[e])
               p == [change |-> change, command |-> command,
                     target |-> ApplyAvailability(availability[e], command)]
    <3>1. active[e] \in Deployments /\ availability[e] \in Availabilities
      BY DEF ChangeAvailability, Changeable, TypeOK
    <3>2. command \in Commands
      BY <3>1, AvailabilityCommandType DEF ChangeAvailability
    <3>3. p \in PendingAvailabilities
      <4> HIDE DEF command
      <4>1. ApplyAvailability(availability[e], command) \in Availabilities
        BY <3>1, <3>2, ApplyAvailabilityType
      <4> QED
        BY <3>2, <4>1 DEF PendingAvailabilities
    <3>4. p # None
      BY <3>3, NoneAssumption
    <3>5. /\ pendingAvailability' = [pendingAvailability EXCEPT ![e] = p]
          /\ repair' = [repair EXCEPT ![e] = "broker"]
      BY <2>1 DEF NewChange
    <3> HIDE DEF p
    <3> QED
      BY <3>3, <3>4, <3>5 DEF TypeOK
  <2>2. CASE SameChange(e, change)
    BY <2>2 DEF SameChange, OneRepair, TypeOK
  <2> QED
    BY <2>1, <2>2 DEF ChangeAvailability
<1>2. TypeOK'
  BY <1>1 DEF ChangeAvailability, Start, TypeOK, gateVars, worldVars
<1>3. OneRepair'
  BY <1>1 DEF ChangeAvailability, Changeable, OneRepair, TypeOK
<1>4. CommandOK'
  BY <1>1 DEF ChangeAvailability, Changeable, Start, CommandOK, DeploySteps, ChangeSteps
<1> QED
  BY <1>2, <1>3, <1>4

(* A gate request changes no part of the record.                           *)
LEMMA InstallType ==
  ASSUME TypeOK, NEW g \in Gates, NEW e \in Environments, ReconcileGate(g, e)
  PROVE  /\ installed' \in [Gates -> [Environments -> Deployments \cup {None}]]
         /\ gateAvailability' \in [Gates -> [Environments -> Availabilities]]
         /\ gatewayKeys' \in [Environments -> SUBSET Nat]
<1>1. CASE UNCHANGED gateVars
  BY <1>1 DEF gateVars, TypeOK
<1>2. CASE ~UNCHANGED gateVars
  <2>1. /\ installed[g][e] \in Deployments \cup {None}
        /\ pending[e] \in Deployments \cup {None}
        /\ gateAvailability[g][e] \in Availabilities
    BY DEF TypeOK
  <2>2. Migrate(gateAvailability[g][e], installed[g][e], pending[e]) \in Availabilities
    BY <2>1, MigrateType
  <2>3. /\ installed' = [installed EXCEPT ![g][e] = pending[e]]
        /\ gateAvailability' = [gateAvailability EXCEPT
             ![g][e] = Migrate(gateAvailability[g][e], installed[g][e], pending[e])]
        /\ \/ gatewayKeys' = [gatewayKeys EXCEPT ![e] = activeKeys[e]]
           \/ gatewayKeys' = gatewayKeys
    BY <1>2 DEF ReconcileGate
  <2>4. activeKeys[e] \in SUBSET Nat
    BY DEF TypeOK
  <2>5. gatewayKeys' \in [Environments -> SUBSET Nat]
    BY <2>3, <2>4 DEF TypeOK
  <2>6. installed' \in [Gates -> [Environments -> Deployments \cup {None}]]
    BY <2>1, <2>3 DEF TypeOK
  <2>7. gateAvailability' \in [Gates -> [Environments -> Availabilities]]
    BY <2>2, <2>3 DEF TypeOK
  <2> QED
    BY <2>5, <2>6, <2>7
<1> QED
  BY <1>1, <1>2

LEMMA GateChangeType ==
  ASSUME TypeOK, NEW g \in Gates, NEW e \in Environments, pendingAvailability[e] # None,
         ReconcileAvailabilityGate(g, e)
  PROVE  /\ gateAvailability' \in [Gates -> [Environments -> Availabilities]]
         /\ UNCHANGED <<installed, gatewayKeys>>
<1>1. pendingAvailability[e].target \in Availabilities
  BY DEF TypeOK, PendingAvailabilities
<1>2. CASE UNCHANGED gateVars
  BY <1>2 DEF gateVars, TypeOK
<1>3. CASE ~UNCHANGED gateVars
  <2>1. /\ gateAvailability' =
             [gateAvailability EXCEPT ![g][e] = pendingAvailability[e].target]
        /\ UNCHANGED <<installed, gatewayKeys>>
    BY <1>3 DEF ReconcileAvailabilityGate
  <2> QED
    BY <1>1, <2>1 DEF TypeOK
<1> QED
  BY <1>2, <1>3

LEMMA LoopType ==
  ASSUME TypeOK, NEW step, NEW next, Loop(step, next)
  PROVE  /\ index \in 1..2 /\ index' \in 1..2
         /\ pc = step /\ pc' \in {step, next}
         /\ UNCHANGED <<on, draft>>
         /\ Here \in Environments
BY DEF Loop, TypeOK, HOSTED_ENVIRONMENTS, Here, Environments

LEMMA ResetType ==
  ASSUME TypeOK, NEW g \in Gates, NEW e \in Environments, ResetGate(g, e)
  PROVE  /\ installed' \in [Gates -> [Environments -> Deployments \cup {None}]]
         /\ gateAvailability' \in [Gates -> [Environments -> Availabilities]]
         /\ gatewayKeys' \in [Environments -> SUBSET Nat]
         /\ torn' \in BOOLEAN
<1>1. DefaultAvailability \in Availabilities
  BY DefaultAvailabilityType
<1>2. installed' \in [Gates -> [Environments -> Deployments \cup {None}]]
  BY DEF ResetGate, TypeOK
<1>3. gateAvailability' \in [Gates -> [Environments -> Availabilities]]
  BY <1>1 DEF ResetGate, TypeOK
<1>4. gatewayKeys' \in [Environments -> SUBSET Nat] /\ torn' \in BOOLEAN
  BY DEF ResetGate, TypeOK
<1> QED
  BY <1>2, <1>3, <1>4

(* A round of a loop that resets gates leaves the record as it is.         *)
LEMMA TeardownKeepsRecord ==
  ASSUME RecordInv,
         NEW step \in {"delete_broker", "delete_gateway", "reset_broker", "reset_gateway"},
         NEW next \in {"delete_gateway", "drop", "reset_gateway", "replace"},
         NEW g \in Gates, Loop(step, next), ResetGate(g, Here),
         UNCHANGED <<recordVars, worldVars>>
  PROVE  RecordInv'
<1> USE DEF RecordInv
<1>1. /\ index' \in 1..2 /\ pc = step /\ pc' \in {step, next} /\ UNCHANGED <<on, draft>>
      /\ Here \in Environments
  BY LoopType
<1>2. TypeOK'
  BY <1>1, ResetType DEF TypeOK, recordVars, worldVars
<1>3. OneRepair'
  BY DEF OneRepair, recordVars
<1>4. CommandOK'
  BY <1>1 DEF CommandOK, DeploySteps, ChangeSteps, recordVars
<1> QED
  BY <1>2, <1>3, <1>4

LEMMA DropKeepsRecord ==
  ASSUME RecordInv, NEW step, DropRecord(step)
  PROVE  RecordInv'
<1> USE DEF RecordInv
<1>1. DefaultAvailability \in Availabilities
  BY DefaultAvailabilityType
<1>2. TypeOK'
  BY <1>1 DEF DropRecord, Step, TypeOK, gateVars, worldVars
<1>3. OneRepair'
  BY DEF DropRecord, OneRepair
<1>4. CommandOK'
  BY DEF DropRecord, Step, CommandOK, DeploySteps, ChangeSteps
<1> QED
  BY <1>2, <1>3, <1>4

LEMMA RecordStep == RecordInv /\ [Next]_vars => RecordInv'
<1> SUFFICES ASSUME RecordInv, [Next]_vars PROVE RecordInv'
  OBVIOUS
<1> USE DEF RecordInv
<1>1. CASE EnsureAngel
  <2>1. TypeOK'
    BY <1>1 DEF EnsureAngel, TypeOK, gateVars, commandVars
  <2>2. OneRepair' /\ CommandOK'
    BY <1>1 DEF EnsureAngel, OneRepair, CommandOK, commandVars
  <2> QED
    BY <2>1, <2>2
<1>2. ASSUME NEW v \in Versions, PublishVersion(v) PROVE RecordInv'
  <2>1. TypeOK'
    BY <1>2 DEF PublishVersion, TypeOK, gateVars, commandVars, worldVars
  <2>2. OneRepair' /\ CommandOK'
    BY <1>2 DEF PublishVersion, OneRepair, CommandOK, commandVars
  <2> QED
    BY <2>1, <2>2
<1>3. ASSUME NEW e \in Environments, NEW v \in Versions, NEW connections \in SUBSET Connections,
             NEW provenance \in {"none", "direct"}, Deploy(e, v, connections, provenance)
      PROVE  RecordInv'
  BY <1>3, DeployKeepsRecord
<1>4. ASSUME NEW connections \in SUBSET Connections, PromoteProduction(connections)
      PROVE  RecordInv'
  <2>1. active["preview"].version \in Versions
    BY <1>4 DEF PromoteProduction, TypeOK, Deployments, Environments
  <2>2. "production" \in Environments
    BY DEF Environments
  <2> QED
    BY <1>4, <2>1, <2>2, DeployKeepsRecord DEF PromoteProduction
<1>5. CASE InstallBroker
  <2>1. on \in Environments /\ "broker" \in Gates
    BY DEF TypeOK, Gates
  <2>2. TypeOK'
    BY <1>5, <2>1, InstallType DEF InstallBroker, Step, TypeOK, recordVars, worldVars
  <2>3. OneRepair' /\ CommandOK'
    BY <1>5 DEF InstallBroker, Step, OneRepair, CommandOK, DeploySteps, ChangeSteps, recordVars
  <2> QED
    BY <2>2, <2>3
<1>6. CASE MarkBrokerInstalled
  <2>1. TypeOK'
    BY <1>6 DEF MarkBrokerInstalled, Step, TypeOK, gateVars, worldVars
  <2>2. OneRepair' /\ CommandOK'
    BY <1>6 DEF MarkBrokerInstalled, Step, OneRepair, CommandOK, DeploySteps, ChangeSteps, TypeOK
  <2> QED
    BY <2>1, <2>2
<1>7. CASE InstallGateway
  <2>1. on \in Environments /\ "gateway" \in Gates
    BY DEF TypeOK, Gates
  <2>2. TypeOK'
    BY <1>7, <2>1, InstallType DEF InstallGateway, Step, TypeOK, recordVars, worldVars
  <2>3. OneRepair' /\ CommandOK'
    BY <1>7 DEF InstallGateway, Step, OneRepair, CommandOK, DeploySteps, ChangeSteps, recordVars
  <2> QED
    BY <2>2, <2>3
<1>8. CASE Activate
  <2>1. MigratedRecord(on) \in Availabilities
    BY MigrateType DEF MigratedRecord, TypeOK
  <2>2. TypeOK'
    BY <1>8, <2>1 DEF Activate, Step, TypeOK, gateVars, worldVars
  <2>3. OneRepair' /\ CommandOK'
    BY <1>8 DEF Activate, Step, OneRepair, CommandOK, DeploySteps, ChangeSteps, TypeOK
  <2> QED
    BY <2>2, <2>3
<1>9. ASSUME NEW e \in Environments, NEW change \in Changes, ChangeAvailability(e, change)
      PROVE  RecordInv'
  BY <1>9, ChangeKeepsRecord
<1>10. CASE ChangeBroker
  <2>1. on \in Environments /\ "broker" \in Gates /\ pendingAvailability[on] # None
    BY <1>10 DEF TypeOK, Gates, ChangeBroker, Step, CommandOK, ChangeSteps
  <2>2. TypeOK'
    BY <1>10, <2>1, GateChangeType DEF ChangeBroker, Step, TypeOK, recordVars, worldVars
  <2>3. OneRepair' /\ CommandOK'
    BY <1>10 DEF ChangeBroker, Step, OneRepair, CommandOK, DeploySteps, ChangeSteps, recordVars
  <2> QED
    BY <2>2, <2>3
<1>11. CASE MarkBrokerChanged
  <2>1. TypeOK'
    BY <1>11 DEF MarkBrokerChanged, Step, TypeOK, gateVars, worldVars
  <2>2. OneRepair' /\ CommandOK'
    BY <1>11 DEF MarkBrokerChanged, Step, OneRepair, CommandOK, DeploySteps, ChangeSteps, TypeOK
  <2> QED
    BY <2>1, <2>2
<1>12. CASE ChangeGateway
  <2>1. on \in Environments /\ "gateway" \in Gates /\ pendingAvailability[on] # None
    BY <1>12 DEF TypeOK, Gates, ChangeGateway, Step, CommandOK, ChangeSteps
  <2>2. TypeOK'
    BY <1>12, <2>1, GateChangeType DEF ChangeGateway, Step, TypeOK, recordVars, worldVars
  <2>3. OneRepair' /\ CommandOK'
    BY <1>12 DEF ChangeGateway, Step, OneRepair, CommandOK, DeploySteps, ChangeSteps, recordVars
  <2> QED
    BY <2>2, <2>3
<1>13. CASE Settle
  <2>1. pendingAvailability[on].target \in Availabilities
    BY <1>13 DEF Settle, Step, CommandOK, ChangeSteps, TypeOK, PendingAvailabilities
  <2>2. TypeOK'
    BY <1>13, <2>1 DEF Settle, Step, TypeOK, gateVars, worldVars
  <2>3. OneRepair' /\ CommandOK'
    BY <1>13 DEF Settle, Step, OneRepair, CommandOK, DeploySteps, ChangeSteps, TypeOK
  <2> QED
    BY <2>2, <2>3
<1>14. ASSUME NEW e \in Environments,
              CreateKey(e) \/ \E key \in activeKeys[e] : RotateKey(e, key) \/ RevokeKey(e, key)
       PROVE  RecordInv'
  <2>a. /\ activeKeys[e] \in SUBSET Nat /\ revokedKeys[e] \in SUBSET Nat
        /\ mintedKeys[e] + 1 \in Nat
    BY DEF TypeOK
  <2>b. mintedKeys' \in [Environments -> Nat]
    BY <1>14, <2>a DEF CreateKey, RotateKey, RevokeKey, MintKey, TypeOK
  <2>c. draft' \in [active : SUBSET Nat, revoked : SUBSET Nat]
    BY <1>14, <2>a DEF CreateKey, RotateKey, RevokeKey, ChangeKeys
  <2>d. /\ pc' = "push_keys" /\ on' = e
        /\ UNCHANGED <<recordVars, gateVars, index, healthy, minted, torn>>
    BY <1>14 DEF CreateKey, RotateKey, RevokeKey, ChangeKeys, Start
  <2>1. TypeOK'
    BY <2>b, <2>c, <2>d DEF TypeOK, recordVars, gateVars
  <2>2. OneRepair' /\ CommandOK'
    BY <1>14 DEF CreateKey, RotateKey, RevokeKey, ChangeKeys, Start, OneRepair, CommandOK,
                 DeploySteps, ChangeSteps, recordVars
  <2> QED
    BY <2>1, <2>2
<1>15. CASE ReconcileKeys
  <2>1. TypeOK'
    BY <1>15 DEF ReconcileKeys, Step, TypeOK, recordVars, worldVars
  <2>2. OneRepair' /\ CommandOK'
    BY <1>15 DEF ReconcileKeys, Step, OneRepair, CommandOK, DeploySteps, ChangeSteps, recordVars
  <2> QED
    BY <2>1, <2>2
<1>16. CASE RecordKeys
  <2>1. TypeOK'
    BY <1>16 DEF RecordKeys, TypeOK, gateVars, worldVars, Environments
  <2>2. OneRepair' /\ CommandOK'
    BY <1>16 DEF RecordKeys, OneRepair, CommandOK, DeploySteps, ChangeSteps
  <2> QED
    BY <2>1, <2>2
<1>17. ASSUME NEW confirmed \in BOOLEAN, DeleteAngel(confirmed) PROVE RecordInv'
  <2>1. TypeOK'
    BY <1>17 DEF DeleteAngel, Start, TypeOK, gateVars, worldVars, Environments
  <2>2. OneRepair' /\ CommandOK'
    BY <1>17 DEF DeleteAngel, Start, OneRepair, CommandOK, DeploySteps, ChangeSteps
  <2> QED
    BY <2>1, <2>2
<1>18. CASE LockGateway
  <2>1. /\ index' \in 1..2 /\ pc = "lock" /\ pc' \in {"lock", "delete_broker"}
        /\ UNCHANGED <<on, draft>>
        /\ Here \in Environments
    BY <1>18, LoopType DEF LockGateway
  <2>2. TypeOK'
    BY <1>18, <2>1 DEF LockGateway, TypeOK, recordVars, worldVars
  <2>3. OneRepair' /\ CommandOK'
    BY <1>18, <2>1 DEF LockGateway, OneRepair, CommandOK, DeploySteps, ChangeSteps, recordVars
  <2> QED
    BY <2>2, <2>3
<1>19. CASE DeleteAtBroker \/ DeleteAtGateway \/ ResetAtBroker \/ ResetAtGateway
  BY <1>19, TeardownKeepsRecord
     DEF DeleteAtBroker, DeleteAtGateway, ResetAtBroker, ResetAtGateway, Gates
<1>20. CASE DropAngel \/ ReplaceState
  BY <1>20, DropKeepsRecord DEF DropAngel, ReplaceState
<1>21. CASE ResetAccount
  <2>1. TypeOK'
    BY <1>21 DEF ResetAccount, Start, TypeOK, recordVars, gateVars, worldVars, Environments
  <2>2. OneRepair' /\ CommandOK'
    BY <1>21 DEF ResetAccount, Start, OneRepair, CommandOK, DeploySteps, ChangeSteps, recordVars
  <2> QED
    BY <2>1, <2>2
<1>22. CASE Record \/ Interrupt
  <2>1. TypeOK'
    BY <1>22 DEF Record, Interrupt, TypeOK, recordVars, gateVars, worldVars, Environments
  <2>2. OneRepair' /\ CommandOK'
    BY <1>22 DEF Record, Interrupt, OneRepair, CommandOK, DeploySteps, ChangeSteps, recordVars
  <2> QED
    BY <2>1, <2>2
<1>23. ASSUME NEW c \in Connections, ConnectionHealth(c) PROVE RecordInv'
  <2>1. TypeOK'
    BY <1>23 DEF ConnectionHealth, TypeOK, recordVars, gateVars, commandVars
  <2>2. OneRepair' /\ CommandOK'
    BY <1>23 DEF ConnectionHealth, OneRepair, CommandOK, recordVars, commandVars
  <2> QED
    BY <2>1, <2>2
<1>24. CASE UNCHANGED vars
  <2>1. TypeOK'
    BY <1>24 DEF vars, TypeOK, recordVars, gateVars, commandVars, worldVars
  <2>2. OneRepair' /\ CommandOK'
    BY <1>24 DEF vars, OneRepair, CommandOK, recordVars, commandVars
  <2> QED
    BY <2>1, <2>2
<1> HIDE DEF RecordInv
<1> QED
  BY NextCases, <1>1, <1>2, <1>3, <1>4, <1>5, <1>6, <1>7, <1>8, <1>9, <1>10, <1>11, <1>12,
     <1>13, <1>14, <1>15, <1>16, <1>17, <1>18, <1>19, <1>20, <1>21, <1>22, <1>23, <1>24

THEOREM RecordInvariant == Spec => []RecordInv
<1> QED
  BY RecordInit, RecordStep, PTL DEF Spec

(* The record, the gates and the running command always have the shapes    *)
(* the code's types give them, for any tools, Connections, Versions and    *)
(* bounds: no step reads a pending target that is not there.               *)
THEOREM TypeCorrect == Spec => []TypeOK
<1>1. RecordInv => TypeOK
  BY DEF RecordInv
<1> QED
  BY <1>1, RecordInvariant, PTL

(* The repair marker stands for exactly one unfinished change, through     *)
(* every interruption.                                                     *)
THEOREM OneRepairAlways == Spec => []OneRepair
<1>1. RecordInv => OneRepair
  BY DEF RecordInv
<1> QED
  BY <1>1, RecordInvariant, PTL

-----------------------------------------------------------------------------
(* Keys.  RevokedKeysRejected alone is not inductive: a key command pushes *)
(* a list that is not recorded yet.  What makes it inductive is that every *)
(* list in flight revokes at least what is recorded as revoked, that no    *)
(* key is both, and that a new key was never minted before.                *)

KeysApart(live, revoked, e) ==
  /\ live \cup revoked \subseteq 1..mintedKeys[e]
  /\ live \cap revoked = {}

KeyInv ==
  /\ \A e \in Environments : KeysApart(activeKeys[e], revokedKeys[e], e)
  /\ pc \in KeySteps =>
       KeysApart(draft.active, draft.revoked, on) /\ revokedKeys[on] \subseteq draft.revoked
  /\ pc = "record_keys" => gatewayKeys[on] \cap draft.revoked = {}
  /\ ~exists => \A e \in Environments : revokedKeys[e] = {}
  /\ RevokedKeysRejected

(* A step that mints, records and pushes no key keeps the invariant.       *)
LEMMA QuietKeepsKeys ==
  ASSUME KeyInv, pc' \notin KeySteps,
         UNCHANGED <<exists, activeKeys, revokedKeys, mintedKeys>>,
         \A e \in Environments : gatewayKeys'[e] \subseteq gatewayKeys[e]
  PROVE  KeyInv'
BY DEF KeyInv, KeysApart, KeySteps, RevokedKeysRejected

LEMMA KeyInit == Init => KeyInv
BY DEF Init, KeyInv, KeysApart, KeySteps, RevokedKeysRejected

(* Installing at the Gateway hands it the recorded active keys.            *)
LEMMA InstallKeepsKeys ==
  ASSUME TypeOK, KeyInv, InstallGateway
  PROVE  KeyInv'
<1>1. /\ on \in Environments /\ pc' \notin KeySteps
      /\ UNCHANGED <<exists, activeKeys, revokedKeys, mintedKeys>>
  BY DEF TypeOK, InstallGateway, Step, KeySteps, recordVars, worldVars
<1>2. CASE UNCHANGED gatewayKeys
  BY <1>1, <1>2, QuietKeepsKeys
<1>3. CASE gatewayKeys' = [gatewayKeys EXCEPT ![on] = activeKeys[on]]
  BY <1>1, <1>3 DEF KeyInv, KeysApart, KeySteps, RevokedKeysRejected, TypeOK
<1> QED
  BY <1>2, <1>3 DEF InstallGateway, ReconcileGate, gateVars

LEMMA KeyCommandKeepsKeys ==
  ASSUME TypeOK, KeyInv, NEW e \in Environments,
         CreateKey(e) \/ \E key \in activeKeys[e] : RotateKey(e, key) \/ RevokeKey(e, key)
  PROVE  KeyInv'
<1>1. /\ pc' = "push_keys" /\ on' = e
      /\ UNCHANGED <<exists, activeKeys, revokedKeys, gatewayKeys>>
  BY DEF CreateKey, RotateKey, RevokeKey, ChangeKeys, Start, recordVars, gateVars
<1>2. /\ mintedKeys' \in [Environments -> Nat]
      /\ \A f \in Environments : mintedKeys'[f] >= mintedKeys[f]
  <2>1. mintedKeys' = [mintedKeys EXCEPT ![e] = @ + 1] \/ mintedKeys' = mintedKeys
    BY DEF CreateKey, RotateKey, RevokeKey, MintKey
  <2>2. mintedKeys \in [Environments -> Nat]
    BY DEF TypeOK
  <2> QED
    BY <2>1, <2>2
<1>3. mintedKeys[e] \in Nat /\ KeysApart(activeKeys[e], revokedKeys[e], e)
  BY DEF TypeOK, KeyInv
<1>4. KeysApart(draft.active, draft.revoked, e)' /\ revokedKeys[e] \subseteq draft'.revoked
  <2>1. CASE CreateKey(e)
    <3>1. /\ mintedKeys'[e] = mintedKeys[e] + 1
          /\ draft'.active = activeKeys[e] \cup {mintedKeys[e] + 1}
          /\ draft'.revoked = revokedKeys[e]
      BY <2>1 DEF CreateKey, MintKey, ChangeKeys, TypeOK
    <3> QED
      BY <1>3, <3>1 DEF KeysApart
  <2>2. ASSUME NEW key \in activeKeys[e], RotateKey(e, key)
        PROVE  KeysApart(draft.active, draft.revoked, e)' /\ revokedKeys[e] \subseteq draft'.revoked
    <3>1. /\ mintedKeys'[e] = mintedKeys[e] + 1
          /\ draft'.active = (activeKeys[e] \ {key}) \cup {mintedKeys[e] + 1}
          /\ draft'.revoked = revokedKeys[e] \cup {key}
      BY <2>2 DEF RotateKey, MintKey, ChangeKeys, TypeOK
    <3> QED
      BY <1>3, <2>2, <3>1 DEF KeysApart
  <2>3. ASSUME NEW key \in activeKeys[e], RevokeKey(e, key)
        PROVE  KeysApart(draft.active, draft.revoked, e)' /\ revokedKeys[e] \subseteq draft'.revoked
    <3>1. /\ mintedKeys'[e] = mintedKeys[e]
          /\ draft'.active = activeKeys[e] \ {key}
          /\ draft'.revoked = revokedKeys[e] \cup {key}
      BY <2>3 DEF RevokeKey, ChangeKeys
    <3> QED
      BY <1>3, <2>3, <3>1 DEF KeysApart
  <2> QED
    BY <2>1, <2>2, <2>3
<1>5. \A f \in Environments : KeysApart(activeKeys[f], revokedKeys[f], f)'
  BY <1>1, <1>2 DEF KeyInv, KeysApart, TypeOK
<1> QED
  BY <1>1, <1>4, <1>5 DEF KeyInv, RevokedKeysRejected

LEMMA KeysStep == RecordInv /\ KeyInv /\ [Next]_vars => KeyInv'
<1> SUFFICES ASSUME RecordInv, KeyInv, [Next]_vars PROVE KeyInv'
  OBVIOUS
<1>0. TypeOK /\ CommandOK
  BY DEF RecordInv
<1>1. CASE EnsureAngel
  <2>1. /\ \A e \in Environments :
             /\ activeKeys'[e] = {mintedKeys[e] + 1} /\ mintedKeys'[e] = mintedKeys[e] + 1
             /\ revokedKeys'[e] = {} /\ mintedKeys[e] \in Nat
        /\ pc' = "idle" /\ exists'
    BY <1>0, <1>1 DEF EnsureAngel, KeyInv, TypeOK, commandVars
  <2> QED
    BY <2>1 DEF KeyInv, KeysApart, KeySteps, RevokedKeysRejected
<1>2. CASE \E v \in Versions : PublishVersion(v)
  <2>1. pc' = "idle" /\ UNCHANGED <<exists, activeKeys, revokedKeys, mintedKeys, gatewayKeys>>
    BY <1>2 DEF PublishVersion, gateVars, commandVars, worldVars
  <2> QED
    BY <2>1, QuietKeepsKeys DEF KeySteps
<1>3. ASSUME NEW e, NEW v, NEW connections, NEW provenance, Deploy(e, v, connections, provenance)
      PROVE  KeyInv'
  <2>1. /\ pc' = "install_broker"
        /\ UNCHANGED <<exists, activeKeys, revokedKeys, mintedKeys, gatewayKeys>>
    BY <1>3 DEF Deploy, Start, gateVars
  <2> QED
    BY <2>1, QuietKeepsKeys DEF KeySteps
<1>4. CASE InstallBroker \/ MarkBrokerInstalled \/ Activate
  <2>1. /\ pc' \notin KeySteps
        /\ UNCHANGED <<exists, activeKeys, revokedKeys, mintedKeys, gatewayKeys>>
    BY <1>4 DEF InstallBroker, ReconcileGate, MarkBrokerInstalled, Activate, Step, KeySteps,
                recordVars, gateVars, worldVars
  <2> QED
    BY <2>1, QuietKeepsKeys
<1>5. CASE InstallGateway
  BY <1>0, <1>5, InstallKeepsKeys
<1>6. ASSUME NEW e, NEW change, ChangeAvailability(e, change) PROVE KeyInv'
  <2>1. /\ pc' = "change_broker"
        /\ UNCHANGED <<exists, activeKeys, revokedKeys, mintedKeys, gatewayKeys>>
    BY <1>6 DEF ChangeAvailability, Start, gateVars, worldVars
  <2> QED
    BY <2>1, QuietKeepsKeys DEF KeySteps
<1>7. CASE ChangeBroker \/ MarkBrokerChanged \/ ChangeGateway \/ Settle
  <2>1. /\ pc' \notin KeySteps
        /\ UNCHANGED <<exists, activeKeys, revokedKeys, mintedKeys, gatewayKeys>>
    BY <1>7 DEF ChangeBroker, ReconcileAvailabilityGate, MarkBrokerChanged, ChangeGateway, Settle,
                Step, KeySteps, recordVars, gateVars, worldVars
  <2> QED
    BY <2>1, QuietKeepsKeys
<1>8. ASSUME NEW e \in Environments,
             CreateKey(e) \/ \E key \in activeKeys[e] : RotateKey(e, key) \/ RevokeKey(e, key)
      PROVE  KeyInv'
  BY <1>0, <1>8, KeyCommandKeepsKeys
<1>9. CASE ReconcileKeys
  <2>1. /\ pc = "push_keys" /\ pc' = "record_keys"
        /\ gatewayKeys' = [gatewayKeys EXCEPT ![on] = draft.active]
        /\ UNCHANGED <<exists, activeKeys, revokedKeys, mintedKeys, on, draft>>
    BY <1>9 DEF ReconcileKeys, Step, recordVars, worldVars
  <2>2. gatewayKeys \in [Environments -> SUBSET Nat] /\ on \in Environments
    BY <1>0 DEF TypeOK
  <2>3. KeysApart(draft.active, draft.revoked, on) /\ revokedKeys[on] \subseteq draft.revoked
    BY <2>1 DEF KeyInv, KeySteps
  <2>4. /\ gatewayKeys'[on] \cap draft.revoked = {}
        /\ gatewayKeys'[on] \cap revokedKeys[on] = {}
        /\ \A e \in Environments \ {on} : gatewayKeys'[e] = gatewayKeys[e]
    BY <2>1, <2>2, <2>3 DEF KeysApart
  <2>5. RevokedKeysRejected'
    BY <2>1, <2>4 DEF KeyInv, RevokedKeysRejected
  <2> QED
    BY <2>1, <2>3, <2>4, <2>5 DEF KeyInv, KeysApart
<1>10. CASE RecordKeys
  <2>1. /\ pc = "record_keys" /\ pc' = "idle"
        /\ activeKeys' = [activeKeys EXCEPT ![on] = draft.active]
        /\ revokedKeys' = [revokedKeys EXCEPT ![on] = draft.revoked]
        /\ exists /\ UNCHANGED <<exists, gatewayKeys, mintedKeys>>
    BY <1>0, <1>10 DEF RecordKeys, CommandOK, gateVars, worldVars
  <2>2. on \in Environments /\ activeKeys \in [Environments -> SUBSET Nat]
        /\ revokedKeys \in [Environments -> SUBSET Nat]
    BY <1>0 DEF TypeOK
  <2> QED
    BY <2>1, <2>2 DEF KeyInv, KeysApart, KeySteps, RevokedKeysRejected
<1>11. ASSUME NEW confirmed, DeleteAngel(confirmed) PROVE KeyInv'
  <2>1. /\ pc' = "lock" /\ exists /\ exists' = exists
        /\ \A e \in Environments :
             activeKeys'[e] = {} /\ revokedKeys'[e] = revokedKeys[e] \cup activeKeys[e]
        /\ UNCHANGED mintedKeys
    BY <1>11 DEF DeleteAngel, Start, worldVars
  <2> QED
    BY <2>1 DEF KeyInv, KeysApart, KeySteps, RevokedKeysRejected
<1>12. CASE LockGateway \/ DeleteAtBroker \/ DeleteAtGateway \/ ResetAtBroker \/ ResetAtGateway
  <2>1. /\ pc' \notin KeySteps
        /\ UNCHANGED <<exists, activeKeys, revokedKeys, mintedKeys>>
    BY <1>12 DEF LockGateway, DeleteAtBroker, DeleteAtGateway, ResetAtBroker, ResetAtGateway, Loop,
                 KeySteps, recordVars, worldVars
  <2>2. \A e \in Environments : gatewayKeys'[e] \subseteq gatewayKeys[e]
    BY <1>0, <1>12 DEF LockGateway, DeleteAtBroker, DeleteAtGateway, ResetAtBroker, ResetAtGateway,
                       ResetGate, TypeOK
  <2> QED
    BY <2>1, <2>2, QuietKeepsKeys
<1>13. CASE DropAngel \/ ReplaceState
  <2>1. /\ pc' = "idle"
        /\ \A e \in Environments : activeKeys'[e] = {} /\ revokedKeys'[e] = {}
    BY <1>13 DEF DropAngel, ReplaceState, DropRecord, Step
  <2> QED
    BY <2>1 DEF KeyInv, KeysApart, KeySteps, RevokedKeysRejected
<1>14. CASE ResetAccount \/ Record \/ Interrupt
  <2>1. /\ pc' \notin KeySteps
        /\ UNCHANGED <<exists, activeKeys, revokedKeys, mintedKeys, gatewayKeys>>
    BY <1>14 DEF ResetAccount, Start, Record, Interrupt, KeySteps, recordVars, gateVars, worldVars
  <2> QED
    BY <2>1, QuietKeepsKeys
<1>15. CASE UNCHANGED vars \/ \E c \in Connections : ConnectionHealth(c)
  BY <1>15 DEF ConnectionHealth, vars, recordVars, gateVars, commandVars, worldVars,
               KeyInv, KeysApart, RevokedKeysRejected
<1> QED
  BY NextCases, <1>1, <1>2, <1>3, <1>4, <1>5, <1>6, <1>7, <1>8, <1>9, <1>10, <1>11, <1>12,
     <1>13, <1>14, <1>15 DEF PromoteProduction

(* However key commands, deployments and deletions are cut short, the      *)
(* Gateway of an environment that has an active key accepts no key that is *)
(* recorded as revoked.                                                    *)
THEOREM RevokedKeysAlwaysRejected == Spec => []RevokedKeysRejected
<1>1. KeyInv => RevokedKeysRejected
  BY DEF KeyInv
<1>2. Spec => []KeyInv
  BY RecordInvariant, KeyInit, KeysStep, PTL DEF Spec
<1> QED
  BY <1>1, <1>2, PTL

-----------------------------------------------------------------------------
(* Locking.  The loops go over the environments in order, so what the lock *)
(* has done so far is told by its index; nothing pushes a key before the   *)
(* deletion is over.                                                       *)

LoopSteps ==
  {"lock", "delete_broker", "delete_gateway", "reset_broker", "reset_gateway"}

LockInv ==
  /\ pc \notin LoopSteps => index = 1
  /\ pc = "lock" /\ index = 2 => gatewayKeys["preview"] = {}
  /\ LockedWhileClosing

LEMMA LockStep == TypeOK /\ LockInv /\ [Next]_vars => LockInv'
<1> SUFFICES ASSUME TypeOK, LockInv, [Next]_vars PROVE LockInv'
  OBVIOUS
<1> DEFINE Elsewhere ==
             pc' \notin LoopSteps /\ pc' \notin ClosedSteps /\ index' = 1
<1>1. Elsewhere => LockInv'
  BY DEF LockInv, LoopSteps, LockedWhileClosing, ClosedSteps
<1>2. ASSUME NEW from, NEW to, Step(from, to),
             from \notin LoopSteps, to \notin LoopSteps \cup ClosedSteps
      PROVE  LockInv'
  BY <1>1, <1>2 DEF Step, LockInv, LoopSteps, ClosedSteps
<1>3. ASSUME NEW step, NEW e, Start(step, e), index' = index,
             step \notin LoopSteps \cup ClosedSteps
      PROVE  LockInv'
  BY <1>1, <1>3 DEF Start, LockInv, LoopSteps, ClosedSteps
<1>4. ASSUME pc = "idle", UNCHANGED <<pc, index>> PROVE LockInv'
  BY <1>1, <1>4 DEF LockInv, LoopSteps, ClosedSteps
<1>5. CASE EnsureAngel \/ \E v \in Versions : PublishVersion(v)
  BY <1>4, <1>5 DEF EnsureAngel, PublishVersion, commandVars
<1>6. ASSUME NEW e, NEW v, NEW connections, NEW provenance, Deploy(e, v, connections, provenance)
      PROVE  LockInv'
  BY <1>3, <1>6 DEF Deploy, LoopSteps, ClosedSteps
<1>7. CASE InstallBroker \/ MarkBrokerInstalled \/ InstallGateway \/ Activate
  BY <1>2, <1>7 DEF InstallBroker, MarkBrokerInstalled, InstallGateway, Activate,
                    LoopSteps, ClosedSteps
<1>8. ASSUME NEW e, NEW change, ChangeAvailability(e, change) PROVE LockInv'
  BY <1>3, <1>8 DEF ChangeAvailability, LoopSteps, ClosedSteps
<1>9. CASE ChangeBroker \/ MarkBrokerChanged \/ ChangeGateway \/ Settle
  BY <1>2, <1>9 DEF ChangeBroker, MarkBrokerChanged, ChangeGateway, Settle, LoopSteps, ClosedSteps
<1>10. ASSUME NEW e \in Environments,
              CreateKey(e) \/ \E key \in activeKeys[e] : RotateKey(e, key) \/ RevokeKey(e, key)
       PROVE  LockInv'
  BY <1>3, <1>10 DEF CreateKey, RotateKey, RevokeKey, ChangeKeys, LoopSteps, ClosedSteps
<1>11. CASE ReconcileKeys
  BY <1>2, <1>11 DEF ReconcileKeys, LoopSteps, ClosedSteps
<1>12. CASE RecordKeys \/ Record
  BY <1>1, <1>12 DEF RecordKeys, Record, LockInv, LoopSteps, ClosedSteps
<1>13. CASE Interrupt
  BY <1>1, <1>13 DEF Interrupt, LoopSteps, ClosedSteps
<1>14. ASSUME NEW confirmed, DeleteAngel(confirmed) PROVE LockInv'
  BY <1>14 DEF DeleteAngel, Start, LockInv, LoopSteps, LockedWhileClosing
<1>15. CASE LockGateway
  <2>1. CASE index = 1
    <3>1. /\ index' = 2 /\ pc' = "lock" /\ Here = "preview"
      BY <1>15, <2>1 DEF LockGateway, Loop, Here, HOSTED_ENVIRONMENTS
    <3>2. gatewayKeys'["preview"] = {}
      BY <1>15, <3>1 DEF LockGateway, TypeOK, Environments
    <3> QED
      BY <3>1, <3>2 DEF LockInv, LoopSteps, LockedWhileClosing
  <2>2. CASE index = 2
    <3>1. /\ index' = 1 /\ pc' = "delete_broker" /\ Here = "production"
      BY <1>15, <2>2 DEF LockGateway, Loop, Here, HOSTED_ENVIRONMENTS
    <3>2. gatewayKeys'["production"] = {} /\ gatewayKeys'["preview"] = gatewayKeys["preview"]
      BY <1>15, <3>1 DEF LockGateway, TypeOK, Environments
    <3>3. gatewayKeys["preview"] = {}
      BY <1>15, <2>2 DEF LockGateway, Loop, LockInv
    <3> QED
      BY <3>1, <3>2, <3>3 DEF LockInv, LoopSteps, LockedWhileClosing, Environments
  <2> QED
    BY <2>1, <2>2 DEF TypeOK
<1>16. CASE DeleteAtBroker \/ DeleteAtGateway
  <2>1. \A e \in Environments : gatewayKeys[e] = {}
    BY <1>16 DEF DeleteAtBroker, DeleteAtGateway, Loop, LockInv, LockedWhileClosing
  <2>2. \A e \in Environments : gatewayKeys'[e] = {}
    BY <1>16, <2>1 DEF DeleteAtBroker, DeleteAtGateway, ResetGate, TypeOK
  <2>3. /\ pc' \in {"delete_broker", "delete_gateway", "drop"}
        /\ pc' = "drop" => index' = 1
    BY <1>16 DEF DeleteAtBroker, DeleteAtGateway, Loop
  <2> QED
    BY <2>2, <2>3 DEF LockInv, LoopSteps, LockedWhileClosing
<1>17. CASE ResetAccount
  BY <1>17 DEF ResetAccount, Start, LockInv, LoopSteps, LockedWhileClosing
<1>18. CASE ResetAtBroker \/ ResetAtGateway
  <2>1. /\ pc' \in {"reset_broker", "reset_gateway", "replace"}
        /\ pc' = "replace" => index' = 1
    BY <1>18 DEF ResetAtBroker, ResetAtGateway, Loop
  <2> QED
    BY <2>1 DEF LockInv, LoopSteps, LockedWhileClosing
<1>19. CASE DropAngel \/ ReplaceState
  BY <1>2, <1>19 DEF DropAngel, ReplaceState, DropRecord, LoopSteps, ClosedSteps
<1>20. CASE UNCHANGED vars \/ \E c \in Connections : ConnectionHealth(c)
  BY <1>20 DEF ConnectionHealth, vars, gateVars, commandVars, LockInv, LockedWhileClosing
<1> HIDE DEF Elsewhere
<1> QED
  BY NextCases, <1>5, <1>6, <1>7, <1>8, <1>9, <1>10, <1>11, <1>12, <1>13, <1>14, <1>15, <1>16,
     <1>17, <1>18, <1>19, <1>20 DEF PromoteProduction

LEMMA LockInvariant == Spec => []LockInv
<1>1. Init => LockInv
  BY DEF Init, LockInv, LoopSteps, LockedWhileClosing
<1> QED
  BY TypeCorrect, <1>1, LockStep, PTL DEF Spec

(* Once a deletion has gone on to reset gates, nothing authenticates at    *)
(* the Gateway of either environment until the Angel is gone.              *)
THEOREM LockedWhileClosingAlways == Spec => []LockedWhileClosing
<1>1. LockInv => LockedWhileClosing
  BY DEF LockInv
<1> QED
  BY <1>1, LockInvariant, PTL
===============================================================================
