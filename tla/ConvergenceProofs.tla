-------------------------- MODULE ConvergenceProofs ---------------------------
(***************************************************************************)
(* Theorems about Management and the two gates together, for every set of  *)
(* tools, Connections and Versions and every bound: the gates are at the   *)
(* record or at the one change under repair, no overlay migration ever     *)
(* conflicts, a pending change can always be applied, pauses survive a     *)
(* redeploy and no gate falls back.                                        *)
(***************************************************************************)
EXTENDS ManagementProofs

-----------------------------------------------------------------------------
(* What migrating an overlay does.  A ref names its deployment, so of an   *)
(* overlay whose entries are all about deployment p the migration to d     *)
(* keeps each entry whose tool and Connection d still has, under d's ref.  *)

(* Every entry is about what deployment d has installed.                   *)
WellFormed(a, d) ==
  /\ \A o \in a.overrides : o[1] \in ToolsOf(d)
  /\ \A o \in a.connectionOverrides : <<o[1], o[2]>> \in RuntimeBindings(d)

(* No (tool, ref) has two values.                                          *)
OneValue(a) ==
  \A o \in a.connectionOverrides : <<o[1], o[2], ~o[3]>> \notin a.connectionOverrides

LEMMA RuntimeBinding ==
  ASSUME NEW d \in Deployments \cup {None}, NEW tool, NEW ref \in Refs
  PROVE  <<tool, ref>> \in RuntimeBindings(d) <=>
           /\ d # None
           /\ tool \in ToolsOf(d)
           /\ ref = <<d.id, ref[2]>>
           /\ ref[2] \in d.connections
<1>1. CASE d = None
  BY <1>1 DEF RuntimeBindings
<1>2. CASE d # None
  BY <1>2 DEF RuntimeBindings, Refs
<1> QED
  BY <1>1, <1>2

LEMMA DeploymentFields ==
  ASSUME NEW d \in Deployments
  PROVE  /\ d # None
         /\ d.id \in Nat \ {0} /\ d.version \in Versions
         /\ d.connections \in SUBSET Connections /\ d.connections # {}
BY NoneAssumption DEF Deployments

LEMMA MovedEntries ==
  ASSUME NEW a \in Availabilities, NEW p \in Deployments \cup {None}, NEW d \in Deployments,
         WellFormed(a, p),
         NEW m
  PROVE  m \in MigratedConnectionOverrides(a, ToolsOf(d), RuntimeBindings(p), RuntimeBindings(d))
           <=> \E o \in a.connectionOverrides :
                 /\ m = <<o[1], <<d.id, o[2][2]>>, o[3]>>
                 /\ o[1] \in ToolsOf(d)
                 /\ o[2][2] \in d.connections
<1> DEFINE prev == RuntimeBindings(p)
           next == RuntimeBindings(d)
<1>0. /\ d # None /\ d.id \in Nat \ {0} /\ d.connections \in SUBSET Connections
      /\ d \in Deployments \cup {None}
  BY DeploymentFields
<1>1. /\ a.connectionOverrides \in SUBSET (Tools \X Refs \X BOOLEAN)
      /\ \A o \in a.connectionOverrides :
           /\ o = <<o[1], o[2], o[3]>> /\ o[1] \in Tools /\ o[2] \in Refs /\ o[3] \in BOOLEAN
           /\ <<o[1], o[2]>> \in prev
  BY AvailabilityFields DEF WellFormed
<1>2. \A b \in next : b[1] \in Tools /\ b[2] \in Refs /\ b = <<b[1], b[2]>>
  BY <1>0, RuntimeBindingsType DEF Bindings
<1>3. \A o \in a.connectionOverrides : \A ref :
        ref \in NextRefs(o[1], o[2], prev, next) <=>
          /\ ref = <<d.id, o[2][2]>>
          /\ o[1] \in ToolsOf(d)
          /\ o[2][2] \in d.connections
  <2> SUFFICES ASSUME NEW o \in a.connectionOverrides, NEW ref
               PROVE  ref \in NextRefs(o[1], o[2], prev, next) <=>
                        /\ ref = <<d.id, o[2][2]>>
                        /\ o[1] \in ToolsOf(d)
                        /\ o[2][2] \in d.connections
    OBVIOUS
  <2>0. o[1] \in Tools /\ o[2] \in Refs /\ o[2][2] \in Connections
    BY <1>1 DEF Refs
  <2>1. CASE <<o[1], o[2]>> \in next
    <3>1. NextRefs(o[1], o[2], prev, next) = {o[2]}
      BY <2>1 DEF NextRefs
    <3>2. o[1] \in ToolsOf(d) /\ o[2] = <<d.id, o[2][2]>> /\ o[2][2] \in d.connections
      BY <1>0, <2>0, <2>1, RuntimeBinding
    <3> QED
      BY <3>1, <3>2
  <2>2. CASE <<o[1], o[2]>> \notin next
    <3>1. ref \in NextRefs(o[1], o[2], prev, next) <=>
            \E b \in next : b[1] = o[1] /\ b[2][2] = o[2][2] /\ ref = b[2]
      BY <1>1, <2>2 DEF NextRefs
    <3>2. \A b \in next : /\ b[2] = <<d.id, b[2][2]>> /\ b[1] \in ToolsOf(d)
                          /\ b[2][2] \in d.connections
      BY <1>0, <1>2, RuntimeBinding
    <3>3. ASSUME o[1] \in ToolsOf(d), o[2][2] \in d.connections
          PROVE  <<o[1], <<d.id, o[2][2]>>>> \in next
      BY <1>0, <3>3 DEF RuntimeBindings
    <3>4. ASSUME ref \in NextRefs(o[1], o[2], prev, next)
          PROVE  ref = <<d.id, o[2][2]>> /\ o[1] \in ToolsOf(d) /\ o[2][2] \in d.connections
      BY <3>1, <3>2, <3>4
    <3>5. ASSUME ref = <<d.id, o[2][2]>>, o[1] \in ToolsOf(d), o[2][2] \in d.connections
          PROVE  ref \in NextRefs(o[1], o[2], prev, next)
      <4>1. <<o[1], ref>> \in next
        BY <3>3, <3>5
      <4>2. <<o[1], ref>>[1] = o[1] /\ <<o[1], ref>>[2] = ref /\ ref[2] = o[2][2]
        BY <3>5
      <4> QED
        BY <3>1, <4>1, <4>2
    <3> QED
      BY <3>4, <3>5
  <2> QED
    BY <2>1, <2>2
<1>4. m \in MigratedConnectionOverrides(a, ToolsOf(d), prev, next) <=>
        \E o \in a.connectionOverrides :
          o[1] \in ToolsOf(d) /\ \E ref \in NextRefs(o[1], o[2], prev, next) :
                                   m = <<o[1], ref, o[3]>>
  BY DEF MigratedConnectionOverrides
<1> HIDE DEF prev, next
<1> QED
  BY <1>3, <1>4 DEF prev, next

(* The overlay a migration returns, field by field.                        *)
LEMMA MigrateFields ==
  ASSUME NEW a \in Availabilities, NEW p, NEW d
  PROVE  /\ Migrate(a, p, d).overrides = {o \in a.overrides : o[1] \in ToolsOf(d)}
         /\ Migrate(a, p, d).connectionOverrides =
              MigratedConnectionOverrides(a, ToolsOf(d), RuntimeBindings(p), RuntimeBindings(d))
         /\ Migrate(a, p, d).defaultEnabled = a.defaultEnabled
         /\ Migrate(a, p, d).revision = a.revision
BY AvailabilityFields DEF Migrate, MigrateInstalledAvailability

(* What is migrated to d is about d.                                       *)
LEMMA MigrateWellFormed ==
  ASSUME NEW a \in Availabilities, NEW p \in Deployments \cup {None}, NEW d \in Deployments,
         WellFormed(a, p)
  PROVE  WellFormed(Migrate(a, p, d), d)
<1> DEFINE n == Migrate(a, p, d)
<1>0. d # None
  BY DeploymentFields
<1>1. \A o \in n.overrides : o[1] \in ToolsOf(d)
  BY MigrateFields
<1>2. ASSUME NEW m \in n.connectionOverrides
      PROVE  <<m[1], m[2]>> \in RuntimeBindings(d)
  <2>1. PICK o \in a.connectionOverrides :
          /\ m = <<o[1], <<d.id, o[2][2]>>, o[3]>>
          /\ o[1] \in ToolsOf(d)
          /\ o[2][2] \in d.connections
    BY <1>2, MigrateFields, MovedEntries
  <2> QED
    BY <1>0, <2>1 DEF RuntimeBindings
<1> QED
  BY <1>1, <1>2 DEF WellFormed

(* A migration does not conflict, and leaves one value for each entry: two *)
(* entries that land on one ref came from one ref.                         *)
LEMMA MigrateOneValue ==
  ASSUME NEW a \in Availabilities, NEW p \in Deployments \cup {None}, NEW d \in Deployments,
         WellFormed(a, p), OneValue(a)
  PROVE  ~ConflictsOn(a, p, d) /\ OneValue(Migrate(a, p, d))
<1> DEFINE moved ==
             MigratedConnectionOverrides(a, ToolsOf(d), RuntimeBindings(p), RuntimeBindings(d))
<1>1. ASSUME NEW m \in moved, <<m[1], m[2], ~m[3]>> \in moved
      PROVE  FALSE
  <2>1. PICK o \in a.connectionOverrides : m = <<o[1], <<d.id, o[2][2]>>, o[3]>>
    BY <1>1, MovedEntries
  <2>2. PICK q \in a.connectionOverrides :
          <<m[1], m[2], ~m[3]>> = <<q[1], <<d.id, q[2][2]>>, q[3]>>
    BY <1>1, MovedEntries
  <2>3. /\ o = <<o[1], o[2], o[3]>> /\ o[2] \in Refs /\ o[3] \in BOOLEAN
        /\ q = <<q[1], q[2], q[3]>> /\ q[2] \in Refs /\ q[3] \in BOOLEAN
    BY AvailabilityFields
  <2>4. o[1] = q[1] /\ o[2][2] = q[2][2] /\ q[3] = ~o[3]
    BY <2>1, <2>2
  <2>5. o[2] = <<p.id, o[2][2]>> /\ q[2] = <<p.id, q[2][2]>>
    <3>1. <<o[1], o[2]>> \in RuntimeBindings(p) /\ <<q[1], q[2]>> \in RuntimeBindings(p)
      BY DEF WellFormed
    <3>2. o[2] = <<p.id, o[2][2]>>
      BY <2>3, <3>1, RuntimeBinding
    <3>3. q[2] = <<p.id, q[2][2]>>
      BY <2>3, <3>1, RuntimeBinding
    <3> QED
      BY <3>2, <3>3
  <2>6. q = <<o[1], o[2], ~o[3]>>
    BY <2>3, <2>4, <2>5
  <2>7. <<o[1], o[2], ~o[3]>> \in a.connectionOverrides
    BY <2>6
  <2> QED
    BY <2>7 DEF OneValue
<1>2. ConflictsOn(a, p, d) <=> \E m \in moved : <<m[1], m[2], ~m[3]>> \in moved
  BY DEF ConflictsOn, MigrationConflicts
<1>3. Migrate(a, p, d).connectionOverrides = moved
  BY MigrateFields
<1> HIDE DEF moved
<1> QED
  BY <1>1, <1>2, <1>3 DEF OneValue

(* Migrating an overlay to the deployment it is about changes nothing.     *)
LEMMA MigrateIdentity ==
  ASSUME NEW a \in Availabilities, NEW d \in Deployments, WellFormed(a, d)
  PROVE  Migrate(a, d, d) = a
<1>0. /\ d \in Deployments \cup {None}
      /\ a.overrides \in SUBSET (Tools \X BOOLEAN)
      /\ a = [defaultEnabled |-> a.defaultEnabled, overrides |-> a.overrides,
              connectionOverrides |-> a.connectionOverrides, revision |-> a.revision]
  BY AvailabilityFields
<1>1. ASSUME NEW o \in a.connectionOverrides
      PROVE  /\ o = <<o[1], <<d.id, o[2][2]>>, o[3]>>
             /\ o[1] \in ToolsOf(d)
             /\ o[2][2] \in d.connections
  <2>1. o = <<o[1], o[2], o[3]>> /\ o[2] \in Refs
    BY AvailabilityFields
  <2>2. <<o[1], o[2]>> \in RuntimeBindings(d)
    BY DEF WellFormed
  <2> QED
    BY <1>0, <2>1, <2>2, RuntimeBinding
<1>2. \A m : m \in MigratedConnectionOverrides(a, ToolsOf(d), RuntimeBindings(d), RuntimeBindings(d))
               <=> m \in a.connectionOverrides
  BY <1>0, <1>1, MovedEntries
<1>3. MigratedConnectionOverrides(a, ToolsOf(d), RuntimeBindings(d), RuntimeBindings(d))
        = a.connectionOverrides
  BY <1>2
<1>4. {o \in a.overrides : o[1] \in ToolsOf(d)} = a.overrides
  BY DEF WellFormed
<1> QED
  BY <1>0, <1>3, <1>4 DEF Migrate, MigrateInstalledAvailability

LEMMA MigrateDefault ==
  ASSUME NEW p, NEW d
  PROVE  Migrate(DefaultAvailability, p, d) = DefaultAvailability
<1>1. MigratedConnectionOverrides(DefaultAvailability, ToolsOf(d), RuntimeBindings(p),
                                  RuntimeBindings(d)) = {}
  <2>1. {o \in DefaultAvailability.connectionOverrides : o[1] \in ToolsOf(d)} = {}
    BY DEF DefaultAvailability
  <2> QED
    BY <2>1 DEF MigratedConnectionOverrides
<1>2. {o \in DefaultAvailability.overrides : o[1] \in ToolsOf(d)} = {}
  BY DEF DefaultAvailability
<1>3. DefaultAvailability =
        [defaultEnabled |-> DefaultAvailability.defaultEnabled,
         overrides |-> DefaultAvailability.overrides,
         connectionOverrides |-> DefaultAvailability.connectionOverrides,
         revision |-> DefaultAvailability.revision]
  BY DefaultAvailabilityType, AvailabilityFields
<1>4. /\ DefaultAvailability.overrides = {}
      /\ DefaultAvailability.connectionOverrides = {}
  BY DEF DefaultAvailability
<1> QED
  BY <1>1, <1>2, <1>3, <1>4 DEF Migrate, MigrateInstalledAvailability

LEMMA DefaultWellFormed ==
  ASSUME NEW d
  PROVE  WellFormed(DefaultAvailability, d) /\ OneValue(DefaultAvailability)
BY DEF WellFormed, OneValue, DefaultAvailability

(* Pauses survive an install: whatever the overlay says of a tool and a    *)
(* Connection that both deployments have, it says after the migration.     *)
LEMMA MigrateKeepsPauses ==
  ASSUME NEW a \in Availabilities, NEW p \in Deployments, NEW d \in Deployments,
         WellFormed(a, p)
  PROVE  SamePauses(a, p, Migrate(a, p, d), d)
<1> DEFINE n == Migrate(a, p, d)
<1> SUFFICES ASSUME NEW tool \in ToolsOf(p) \cap ToolsOf(d),
                    NEW c \in p.connections \cap d.connections
             PROVE  IsToolConnectionEnabled(a, tool, <<p.id, c>>)
                      <=> IsToolConnectionEnabled(n, tool, <<d.id, c>>)
  BY DEF SamePauses
<1>1. \A b \in BOOLEAN : <<tool, b>> \in n.overrides <=> <<tool, b>> \in a.overrides
  BY MigrateFields
<1>2. IsToolEnabled(n, tool) <=> IsToolEnabled(a, tool)
  BY <1>1, MigrateFields DEF IsToolEnabled
<1>3. ASSUME NEW b \in BOOLEAN
      PROVE  <<tool, <<d.id, c>>, b>> \in n.connectionOverrides
               <=> <<tool, <<p.id, c>>, b>> \in a.connectionOverrides
  <2>1. <<tool, <<d.id, c>>, b>> \in n.connectionOverrides <=>
          \E o \in a.connectionOverrides : /\ <<tool, <<d.id, c>>, b>> = <<o[1], <<d.id, o[2][2]>>, o[3]>>
                                           /\ o[1] \in ToolsOf(d) /\ o[2][2] \in d.connections
    BY MigrateFields, MovedEntries
  <2>2. \A o \in a.connectionOverrides :
          o = <<o[1], o[2], o[3]>> /\ o[2] = <<p.id, o[2][2]>>
    <3> TAKE o \in a.connectionOverrides
    <3>1. /\ o = <<o[1], o[2], o[3]>> /\ o[2] \in Refs
          /\ <<o[1], o[2]>> \in RuntimeBindings(p) /\ p \in Deployments \cup {None}
      BY AvailabilityFields DEF WellFormed
    <3> QED
      BY <3>1, RuntimeBinding
  <2>3. ASSUME NEW o \in a.connectionOverrides,
               <<tool, <<d.id, c>>, b>> = <<o[1], <<d.id, o[2][2]>>, o[3]>>
        PROVE  o = <<tool, <<p.id, c>>, b>>
    BY <2>2, <2>3
  <2>4. ASSUME <<tool, <<p.id, c>>, b>> \in a.connectionOverrides
        PROVE  <<tool, <<d.id, c>>, b>> \in n.connectionOverrides
    <3> DEFINE o == <<tool, <<p.id, c>>, b>>
    <3>1. /\ o \in a.connectionOverrides
          /\ <<tool, <<d.id, c>>, b>> = <<o[1], <<d.id, o[2][2]>>, o[3]>>
          /\ o[1] \in ToolsOf(d) /\ o[2][2] \in d.connections
      BY <2>4
    <3> QED
      BY <2>1, <3>1
  <2> QED
    BY <2>1, <2>3, <2>4
<1> QED
  BY <1>2, <1>3 DEF IsToolConnectionEnabled

-----------------------------------------------------------------------------
(* What a change does to an overlay.                                       *)

(* What Management asks of what is deployed, a gate at the record accepts. *)
LEMMA RecordAccepts ==
  ASSUME NEW a \in Availabilities, NEW d \in Deployments, NEW change \in Changes,
         Deployed(change, d)
  PROVE  GateAccepts(a, RuntimeBindings(d), AvailabilityCommand(change, d, a))
<1> DEFINE command == AvailabilityCommand(change, d, a)
<1>0. d # None /\ d.connections # {}
  BY DeploymentFields
<1>1. \A tool \in ToolsOf(d), c \in d.connections : <<tool, <<d.id, c>>>> \in RuntimeBindings(d)
  BY <1>0 DEF RuntimeBindings
<1>2. CASE change.kind = "all"
  BY <1>2 DEF AvailabilityCommand, GateAccepts
<1>3. CASE change.kind = "tool"
  <2>1. /\ command.kind = "tool" /\ command.tool = change.tool
        /\ command.expectedRevision = a.revision
    BY <1>3 DEF AvailabilityCommand
  <2>2. change.tool \in ToolsOf(d)
    BY <1>3 DEF Deployed
  <2>3. PICK c \in d.connections : TRUE
    BY <1>0
  <2>4. /\ <<change.tool, <<d.id, c>>>> \in RuntimeBindings(d)
        /\ <<change.tool, <<d.id, c>>>>[1] = change.tool
    BY <1>1, <2>2
  <2> HIDE DEF command
  <2>5. GateAccepts(a, RuntimeBindings(d), command)
    BY <2>1, <2>4 DEF GateAccepts
  <2> QED
    BY <2>5 DEF command
<1>4. CASE change.kind = "tool_connection"
  <2>1. /\ command.kind = "tool_connection" /\ command.tool = change.tool
        /\ command.connectionRef = <<d.id, change.connectionId>>
        /\ command.expectedRevision = a.revision
    BY <1>4 DEF AvailabilityCommand
  <2>2. change.tool \in ToolsOf(d) /\ change.connectionId \in d.connections
    BY <1>4 DEF Deployed
  <2>3. <<change.tool, <<d.id, change.connectionId>>>> \in RuntimeBindings(d)
    BY <1>1, <2>2
  <2> HIDE DEF command
  <2>4. GateAccepts(a, RuntimeBindings(d), command)
    BY <2>1, <2>3 DEF GateAccepts
  <2> QED
    BY <2>4 DEF command
<1> QED
  BY <1>2, <1>3, <1>4 DEF Changes

(* An accepted change leaves the overlay about what is installed, with one *)
(* value for each entry.                                                   *)
LEMMA ChangeWellFormed ==
  ASSUME NEW a \in Availabilities, NEW d \in Deployments, NEW command \in Commands,
         WellFormed(a, d), OneValue(a), GateAccepts(a, RuntimeBindings(d), command)
  PROVE  /\ WellFormed(ApplyAvailability(a, command), d)
         /\ OneValue(ApplyAvailability(a, command))
         /\ ApplyAvailability(a, command).revision = a.revision + 1
<1> DEFINE n == ApplyAvailability(a, command)
<1>0. n = GateChange(a, command) /\ n.revision = a.revision + 1
  BY GateAgreesWithManagement, ApplyAvailabilityType
<1>1. /\ n.overrides = GateOverrides(a, command)
      /\ n.connectionOverrides = GateConnectionOverrides(a, command)
  BY <1>0 DEF GateChange
<1>2. \A o \in a.connectionOverrides : o = <<o[1], o[2], o[3]>> /\ o[3] \in BOOLEAN
  BY AvailabilityFields
<1> SUFFICES WellFormed(n, d) /\ OneValue(n)
  BY <1>0
<1> HIDE DEF n
<1>3. CASE command.kind = "all"
  BY <1>1, <1>3 DEF GateOverrides, GateConnectionOverrides, WellFormed, OneValue
<1>4. CASE command.kind = "tool"
  <2>1. command.tool \in ToolsOf(d)
    <3>1. PICK b \in RuntimeBindings(d) : b[1] = command.tool
      BY <1>4 DEF GateAccepts
    <3> QED
      BY <3>1, DeploymentFields DEF RuntimeBindings
  <2>2. n.overrides \subseteq a.overrides \cup {<<command.tool, command.enabled>>}
    BY <1>1, <1>4 DEF GateOverrides, OtherTools
  <2>3. n.connectionOverrides \subseteq a.connectionOverrides
    BY <1>1, <1>4 DEF GateConnectionOverrides, OtherTools
  <2> QED
    BY <2>1, <2>2, <2>3 DEF WellFormed, OneValue
<1>5. CASE command.kind = "tool_connection"
  <2> DEFINE t == command.tool
             r == command.connectionRef
             m == <<t, r, command.enabled>>
  <2>1. <<t, r>> \in RuntimeBindings(d) /\ command.enabled \in BOOLEAN
    BY <1>5 DEF GateAccepts, Commands
  <2>2. n.overrides = a.overrides
    BY <1>1, <1>5 DEF GateOverrides
  <2>3. n.connectionOverrides \subseteq OtherRefs(a.connectionOverrides, t, r) \cup {m}
    BY <1>1, <1>5 DEF GateConnectionOverrides
  <2>4. \A o \in n.connectionOverrides :
          \/ o \in a.connectionOverrides /\ (o[1] # t \/ o[2] # r)
          \/ o = m
    BY <2>3 DEF OtherRefs
  <2>5. WellFormed(n, d)
    BY <2>1, <2>2, <2>4 DEF WellFormed
  <2>6. OneValue(n)
    <3> SUFFICES ASSUME NEW o \in n.connectionOverrides,
                        <<o[1], o[2], ~o[3]>> \in n.connectionOverrides
                 PROVE  FALSE
      BY DEF OneValue
    <3>1. CASE o = m
      <4>1. <<o[1], o[2], ~o[3]>> # m /\ o[1] = t /\ o[2] = r
        BY <2>1, <3>1
      <4> QED
        BY <2>4, <4>1
    <3>2. CASE o # m
      <4>1. o \in a.connectionOverrides /\ (o[1] # t \/ o[2] # r)
        BY <2>4, <3>2
      <4>2. <<o[1], o[2], ~o[3]>> # m
        BY <4>1
      <4>3. <<o[1], o[2], ~o[3]>> \in a.connectionOverrides
        BY <2>4, <4>2
      <4> QED
        BY <4>1, <4>3 DEF OneValue
    <3> QED
      BY <3>1, <3>2
  <2> QED
    BY <2>5, <2>6
<1> QED
  BY <1>3, <1>4, <1>5 DEF Commands

-----------------------------------------------------------------------------
(* The overlays, wherever a command was cut short: every overlay is about  *)
(* the deployment it is kept for, a deployment id is never used twice, and *)
(* what is recorded of a pending change follows from the record.           *)

ChangeFollows(e) ==
  LET p == pendingAvailability[e]
  IN  p # None =>
        /\ active[e] # None
        /\ Deployed(p.change, active[e])
        /\ p.command = AvailabilityCommand(p.change, active[e], availability[e])
        /\ p.target = ApplyAvailability(availability[e], p.command)

RecordOverlay(e) ==
  /\ active[e] = None => availability[e] = DefaultAvailability
  /\ WellFormed(availability[e], active[e])
  /\ OneValue(availability[e])
  /\ ChangeFollows(e)

MintedInOrder(e) ==
  /\ pending[e] # None => pending[e].id = minted[e]
  /\ active[e] # None => active[e].id <= minted[e]
  /\ active[e] # None /\ pending[e] # None => active[e].id < pending[e].id

GateOverlay(g, e) ==
  /\ installed[g][e] = None => gateAvailability[g][e] = DefaultAvailability
  /\ installed[g][e] # None => installed[g][e].id <= minted[e]
  /\ WellFormed(gateAvailability[g][e], installed[g][e])
  /\ OneValue(gateAvailability[g][e])

OverlayInv ==
  \A e \in Environments :
    RecordOverlay(e) /\ MintedInOrder(e) /\ \A g \in Gates : GateOverlay(g, e)

(* TypeOK, for one environment and one gate.                               *)
LEMMA Types ==
  ASSUME TypeOK, NEW e \in Environments
  PROVE  /\ active[e] \in Deployments \cup {None}
         /\ pending[e] \in Deployments \cup {None}
         /\ availability[e] \in Availabilities
         /\ pendingAvailability[e] \in PendingAvailabilities \cup {None}
         /\ minted[e] \in Nat
         /\ \A g \in Gates : /\ installed[g][e] \in Deployments \cup {None}
                             /\ gateAvailability[g][e] \in Availabilities
BY DEF TypeOK

LEMMA PendingFields ==
  ASSUME NEW p \in PendingAvailabilities
  PROVE  p # None /\ p.change \in Changes /\ p.command \in Commands /\ p.target \in Availabilities
BY NoneAssumption DEF PendingAvailabilities

(* An install at a gate: nothing conflicts, the overlay follows.           *)
LEMMA InstallOverlay ==
  ASSUME TypeOK, OverlayInv, NEW g \in Gates, NEW e \in Environments, pending[e] # None,
         ReconcileGate(g, e)
  PROVE  /\ \A h \in Gates, f \in Environments :
              /\ <<h, f>> # <<g, e>> =>
                   /\ installed'[h][f] = installed[h][f]
                   /\ gateAvailability'[h][f] = gateAvailability[h][f]
         /\ installed'[g][e] = pending[e]
         /\ installed[g][e] = pending[e] => gateAvailability'[g][e] = gateAvailability[g][e]
         /\ installed[g][e] # pending[e] =>
              gateAvailability'[g][e] =
                Migrate(gateAvailability[g][e], installed[g][e], pending[e])
         /\ gateAvailability'[g][e].revision = gateAvailability[g][e].revision
         /\ WellFormed(gateAvailability'[g][e], pending[e])
         /\ OneValue(gateAvailability'[g][e])
<1>0. /\ pending[e] \in Deployments
      /\ installed[g][e] \in Deployments \cup {None}
      /\ gateAvailability[g][e] \in Availabilities
      /\ WellFormed(gateAvailability[g][e], installed[g][e])
      /\ OneValue(gateAvailability[g][e])
  BY Types DEF OverlayInv, GateOverlay
<1>1. CASE installed[g][e] = pending[e]
  <2>1. UNCHANGED <<installed, gateAvailability>>
    BY <1>1 DEF ReconcileGate, gateVars
  <2> QED
    BY <1>0, <1>1, <2>1
<1>2. CASE installed[g][e] # pending[e]
  <2> DEFINE m == Migrate(gateAvailability[g][e], installed[g][e], pending[e])
  <2>1. /\ installed' = [installed EXCEPT ![g][e] = pending[e]]
        /\ gateAvailability' = [gateAvailability EXCEPT ![g][e] = m]
    BY <1>2 DEF ReconcileGate
  <2>2. WellFormed(m, pending[e]) /\ OneValue(m) /\ m.revision = gateAvailability[g][e].revision
    BY <1>0, MigrateWellFormed, MigrateOneValue, MigrateType
  <2> HIDE DEF m
  <2>3. /\ installed \in [Gates -> [Environments -> Deployments \cup {None}]]
        /\ gateAvailability \in [Gates -> [Environments -> Availabilities]]
    BY DEF TypeOK
  <2>4. /\ installed'[g][e] = pending[e] /\ gateAvailability'[g][e] = m
        /\ \A h \in Gates, f \in Environments :
             <<h, f>> # <<g, e>> =>
               /\ installed'[h][f] = installed[h][f]
               /\ gateAvailability'[h][f] = gateAvailability[h][f]
    BY <2>1, <2>3
  <2> QED
    BY <1>2, <2>2, <2>4 DEF m
<1> QED
  BY <1>1, <1>2

(* A change at a gate: the gate is at the target, its overlay follows.     *)
LEMMA ChangeOverlay ==
  ASSUME TypeOK, OverlayInv, NEW g \in Gates, NEW e \in Environments,
         pendingAvailability[e] # None, ReconcileAvailabilityGate(g, e)
  PROVE  /\ UNCHANGED installed
         /\ \A h \in Gates, f \in Environments :
              <<h, f>> # <<g, e>> => gateAvailability'[h][f] = gateAvailability[h][f]
         /\ gateAvailability'[g][e] = pendingAvailability[e].target
         /\ gateAvailability[g][e] = pendingAvailability[e].target \/
              /\ installed[g][e] # None
              /\ gateAvailability'[g][e].revision = gateAvailability[g][e].revision + 1
         /\ WellFormed(gateAvailability'[g][e], installed[g][e])
         /\ OneValue(gateAvailability'[g][e])
<1> DEFINE p == pendingAvailability[e]
<1>0. /\ p \in PendingAvailabilities /\ p.command \in Commands
      /\ installed[g][e] \in Deployments \cup {None}
      /\ gateAvailability[g][e] \in Availabilities
      /\ WellFormed(gateAvailability[g][e], installed[g][e])
      /\ OneValue(gateAvailability[g][e])
  BY Types, PendingFields DEF OverlayInv, GateOverlay
<1>1. CASE gateAvailability[g][e] = p.target
  <2>1. UNCHANGED <<installed, gateAvailability>>
    BY <1>1 DEF ReconcileAvailabilityGate, gateVars
  <2> QED
    BY <1>0, <1>1, <2>1
<1>2. CASE gateAvailability[g][e] # p.target
  <2>1. /\ installed[g][e] # None
        /\ GateAccepts(gateAvailability[g][e], RuntimeBindings(installed[g][e]), p.command)
        /\ p.target = GateChange(gateAvailability[g][e], p.command)
        /\ gateAvailability' = [gateAvailability EXCEPT ![g][e] = p.target]
        /\ UNCHANGED installed
    BY <1>2 DEF ReconcileAvailabilityGate
  <2>2. p.target = ApplyAvailability(gateAvailability[g][e], p.command)
    BY <1>0, <2>1, GateAgreesWithManagement
  <2>3. /\ WellFormed(p.target, installed[g][e]) /\ OneValue(p.target)
        /\ p.target.revision = gateAvailability[g][e].revision + 1
    <3> HIDE DEF p
    <3>1. installed[g][e] \in Deployments
      BY <1>0, <2>1
    <3> QED
      BY <1>0, <2>1, <2>2, <3>1, ChangeWellFormed
  <2>4. /\ gateAvailability'[g][e] = p.target
        /\ \A h \in Gates, f \in Environments :
             <<h, f>> # <<g, e>> => gateAvailability'[h][f] = gateAvailability[h][f]
    BY <2>1 DEF TypeOK
  <2> QED
    BY <2>1, <2>3, <2>4
<1> QED
  BY <1>1, <1>2

overlayVars ==
  <<active, pending, availability, pendingAvailability, minted, installed, gateAvailability>>

LEMMA QuietOverlay == OverlayInv /\ UNCHANGED overlayVars => OverlayInv'
BY DEF overlayVars, OverlayInv, RecordOverlay, ChangeFollows, MintedInOrder, GateOverlay

LEMMA OverlayInit == Init => OverlayInv
<1> SUFFICES ASSUME Init, NEW e \in Environments
             PROVE  RecordOverlay(e) /\ MintedInOrder(e) /\ \A g \in Gates : GateOverlay(g, e)
  BY DEF OverlayInv
<1>1. /\ active[e] = None /\ pending[e] = None /\ pendingAvailability[e] = None
      /\ availability[e] = DefaultAvailability
      /\ \A g \in Gates : installed[g][e] = None /\ gateAvailability[g][e] = DefaultAvailability
  BY DEF Init
<1> QED
  BY <1>1, DefaultWellFormed DEF RecordOverlay, ChangeFollows, MintedInOrder, GateOverlay

(* A deployment takes an id no gate and no record has seen.                *)
LEMMA DeployOverlay ==
  ASSUME TypeOK, OverlayInv, NEW e \in Environments, NEW v, NEW connections, NEW provenance,
         Deploy(e, v, connections, provenance)
  PROVE  OverlayInv'
<1>1. UNCHANGED <<active, availability, pendingAvailability, installed, gateAvailability>>
  BY DEF Deploy, gateVars
<1>2. CASE SameDeployment(e, v, connections, provenance)
  BY <1>1, <1>2, QuietOverlay DEF SameDeployment, overlayVars
<1>3. CASE NewDeployment(e, v, connections, provenance)
  <2>1. /\ minted[e] \in Nat /\ minted'[e] = minted[e] + 1
        /\ pending'[e].id = minted[e] + 1
        /\ \A f \in Environments : f # e => minted'[f] = minted[f] /\ pending'[f] = pending[f]
    BY <1>3 DEF NewDeployment, TypeOK
  <2> SUFFICES ASSUME NEW f \in Environments
               PROVE  (/\ RecordOverlay(f) /\ MintedInOrder(f)
                       /\ \A g \in Gates : GateOverlay(g, f))'
    BY DEF OverlayInv
  <2>2. RecordOverlay(f) /\ MintedInOrder(f) /\ \A g \in Gates : GateOverlay(g, f)
    BY DEF OverlayInv
  <2>3. RecordOverlay(f)'
    BY <1>1, <2>2 DEF RecordOverlay, ChangeFollows
  <2>4. /\ active[f] # None => active[f].id \in Nat
        /\ \A g \in Gates : installed[g][f] # None => installed[g][f].id \in Nat
    BY Types, DeploymentFields
  <2>5. MintedInOrder(f)'
    BY <1>1, <2>1, <2>2, <2>4 DEF MintedInOrder
  <2>6. minted'[f] >= minted[f] /\ minted[f] \in Nat /\ minted'[f] \in Nat
    BY <2>1, Types
  <2>7. \A g \in Gates : GateOverlay(g, f)'
    BY <1>1, <2>2, <2>4, <2>6 DEF GateOverlay
  <2> QED
    BY <2>3, <2>5, <2>7
<1> QED
  BY <1>2, <1>3 DEF Deploy

LEMMA ChangeCommandOverlay ==
  ASSUME TypeOK, OverlayInv, NEW e \in Environments, NEW change,
         ChangeAvailability(e, change)
  PROVE  OverlayInv'
<1>1. UNCHANGED <<active, pending, availability, minted, installed, gateAvailability>>
  BY DEF ChangeAvailability, gateVars, worldVars
<1>2. CASE SameChange(e, change)
  BY <1>1, <1>2, QuietOverlay DEF SameChange, overlayVars
<1>3. CASE NewChange(e, change)
  <2> DEFINE command == AvailabilityCommand(change, active[e], availability[e])
             p == [change |-> change, command |-> command,
                   target |-> ApplyAvailability(availability[e], command)]
  <2>1. /\ pendingAvailability' = [pendingAvailability EXCEPT ![e] = p]
        /\ active[e] # None /\ Deployed(change, active[e])
    BY <1>3 DEF NewChange, ChangeAvailability, Changeable
  <2>2. /\ p.change = change /\ p.command = command
        /\ p.target = ApplyAvailability(availability[e], command)
    OBVIOUS
  <2> HIDE DEF p
  <2>3. pendingAvailability'[e] = p
        /\ \A f \in Environments : f # e => pendingAvailability'[f] = pendingAvailability[f]
    BY <2>1 DEF TypeOK
  <2>4. \A f \in Environments : ChangeFollows(f)'
    <3> TAKE f \in Environments
    <3>1. CASE f = e
      BY <1>1, <2>1, <2>2, <2>3, <3>1 DEF ChangeFollows
    <3>2. CASE f # e
      BY <1>1, <2>3, <3>2 DEF ChangeFollows, OverlayInv, RecordOverlay
    <3> QED
      BY <3>1, <3>2
  <2> QED
    BY <1>1, <2>4 DEF OverlayInv, RecordOverlay, MintedInOrder, GateOverlay
<1> QED
  BY <1>2, <1>3 DEF ChangeAvailability

(* A request to a gate disturbs that gate's overlay only.                  *)
LEMMA GateStepOverlay ==
  ASSUME TypeOK, CommandOK, OverlayInv,
         InstallBroker \/ InstallGateway \/ ChangeBroker \/ ChangeGateway
  PROVE  OverlayInv'
<1>1. /\ UNCHANGED <<active, pending, availability, pendingAvailability, minted>>
      /\ on \in Environments
  BY DEF InstallBroker, InstallGateway, ChangeBroker, ChangeGateway, recordVars, worldVars, TypeOK
<1>2. \A e \in Environments : RecordOverlay(e)' /\ MintedInOrder(e)'
  BY <1>1 DEF OverlayInv, RecordOverlay, ChangeFollows, MintedInOrder
<1>3. ASSUME NEW g \in Gates, pending[on] # None, ReconcileGate(g, on)
      PROVE  \A h \in Gates, f \in Environments : GateOverlay(h, f)'
  <2> TAKE h \in Gates, f \in Environments
  <2>0. /\ GateOverlay(h, f) /\ MintedInOrder(on)
        /\ pending[on] \in Deployments /\ pending[on].id \in Nat /\ minted[on] \in Nat
    BY <1>1, <1>3, Types, DeploymentFields DEF OverlayInv
  <2>1. CASE <<h, f>> = <<g, on>>
    <3>1. /\ installed'[h][f] = pending[on]
          /\ WellFormed(gateAvailability'[h][f], pending[on]) /\ OneValue(gateAvailability'[h][f])
      BY <1>1, <1>3, <2>1, InstallOverlay
    <3>2. pending[on].id <= minted'[f]
      BY <1>1, <1>3, <2>0, <2>1 DEF MintedInOrder
    <3> QED
      BY <1>3, <3>1, <3>2 DEF GateOverlay
  <2>2. CASE <<h, f>> # <<g, on>>
    <3>1. installed'[h][f] = installed[h][f] /\ gateAvailability'[h][f] = gateAvailability[h][f]
      BY <1>1, <1>3, <2>2, InstallOverlay
    <3> QED
      BY <1>1, <2>0, <3>1 DEF GateOverlay
  <2> QED
    BY <2>1, <2>2
<1>4. ASSUME NEW g \in Gates, pendingAvailability[on] # None, ReconcileAvailabilityGate(g, on)
      PROVE  \A h \in Gates, f \in Environments : GateOverlay(h, f)'
  <2> TAKE h \in Gates, f \in Environments
  <2>0. GateOverlay(h, f) /\ UNCHANGED installed
    BY <1>1, <1>4, ChangeOverlay DEF OverlayInv
  <2>1. CASE <<h, f>> = <<g, on>>
    <3>1. /\ WellFormed(gateAvailability'[h][f], installed[h][f])
          /\ OneValue(gateAvailability'[h][f])
          /\ gateAvailability'[h][f] = gateAvailability[h][f] \/ installed[h][f] # None
      BY <1>1, <1>4, <2>1, ChangeOverlay
    <3> QED
      BY <1>1, <2>0, <3>1 DEF GateOverlay
  <2>2. CASE <<h, f>> # <<g, on>>
    <3>1. gateAvailability'[h][f] = gateAvailability[h][f]
      BY <1>1, <1>4, <2>2, ChangeOverlay
    <3> QED
      BY <1>1, <2>0, <3>1 DEF GateOverlay
  <2> QED
    BY <2>1, <2>2
<1>5. \A h \in Gates, f \in Environments : GateOverlay(h, f)'
  <2>1. CASE InstallBroker
    BY <1>3, <2>1 DEF InstallBroker, Step, CommandOK, DeploySteps, Gates
  <2>2. CASE InstallGateway
    BY <1>3, <2>2 DEF InstallGateway, Step, CommandOK, DeploySteps, Gates
  <2>3. CASE ChangeBroker
    BY <1>4, <2>3 DEF ChangeBroker, Step, CommandOK, ChangeSteps, Gates
  <2>4. CASE ChangeGateway
    BY <1>4, <2>4 DEF ChangeGateway, Step, CommandOK, ChangeSteps, Gates
  <2> QED
    BY <2>1, <2>2, <2>3, <2>4
<1> QED
  BY <1>2, <1>5 DEF OverlayInv

(* What the record becomes when a deployment is activated.                 *)
LEMMA ActivatedOverlay ==
  ASSUME TypeOK, OverlayInv, NEW e \in Environments, pending[e] # None
  PROVE  /\ MigratedRecord(e) = Migrate(availability[e], active[e], pending[e])
         /\ WellFormed(MigratedRecord(e), pending[e])
         /\ OneValue(MigratedRecord(e))
<1>0. /\ pending[e] \in Deployments /\ active[e] \in Deployments \cup {None}
      /\ availability[e] \in Availabilities
      /\ RecordOverlay(e) /\ MintedInOrder(e)
      /\ active[e] # None => active[e].id \in Nat
  BY Types, DeploymentFields DEF OverlayInv
<1>1. active[e] # pending[e]
  BY <1>0 DEF MintedInOrder
<1>2. MigratedRecord(e) = Migrate(availability[e], active[e], pending[e])
  <2>1. CASE active[e] = None
    BY <1>0, <2>1, MigrateDefault DEF MigratedRecord, RecordOverlay
  <2>2. CASE active[e] # None
    BY <1>1, <2>2 DEF MigratedRecord
  <2> QED
    BY <2>1, <2>2
<1> QED
  BY <1>0, <1>2, MigrateWellFormed, MigrateOneValue DEF RecordOverlay

LEMMA ActivateKeepsOverlay ==
  ASSUME TypeOK, OneRepair, CommandOK, OverlayInv, Activate
  PROVE  OverlayInv'
<1>1. /\ on \in Environments /\ pending[on] # None /\ pendingAvailability[on] = None
      /\ UNCHANGED <<pendingAvailability, minted, installed, gateAvailability>>
      /\ active'[on] = pending[on] /\ pending'[on] = None /\ availability'[on] = MigratedRecord(on)
      /\ \A f \in Environments : f # on =>
           /\ active'[f] = active[f] /\ pending'[f] = pending[f] /\ availability'[f] = availability[f]
  BY DEF Activate, Step, CommandOK, DeploySteps, OneRepair, gateVars, worldVars, TypeOK
<1> SUFFICES ASSUME NEW e \in Environments
             PROVE  RecordOverlay(e)' /\ MintedInOrder(e)' /\ \A g \in Gates : GateOverlay(g, e)'
  BY DEF OverlayInv
<1>2. RecordOverlay(e) /\ MintedInOrder(e) /\ \A g \in Gates : GateOverlay(g, e)
  BY DEF OverlayInv
<1>3. \A g \in Gates : GateOverlay(g, e)'
  BY <1>1, <1>2 DEF GateOverlay
<1>4. CASE e = on
  <2>1. WellFormed(availability'[e], active'[e]) /\ OneValue(availability'[e])
    BY <1>1, <1>4, ActivatedOverlay
  <2>2. RecordOverlay(e)'
    BY <1>1, <1>4, <2>1 DEF RecordOverlay, ChangeFollows
  <2>3. pending[e].id \in Nat /\ minted[e] \in Nat
    BY <1>1, <1>4, Types, DeploymentFields
  <2>4. MintedInOrder(e)'
    BY <1>1, <1>2, <1>4, <2>3 DEF MintedInOrder
  <2> QED
    BY <1>3, <2>2, <2>4
<1>5. CASE e # on
  BY <1>1, <1>2, <1>3, <1>5 DEF RecordOverlay, ChangeFollows, MintedInOrder
<1> QED
  BY <1>4, <1>5

(* A pending change leads to an overlay about what is deployed.            *)
LEMMA TargetOverlay ==
  ASSUME TypeOK, OverlayInv, NEW e \in Environments, pendingAvailability[e] # None
  PROVE  LET p == pendingAvailability[e]
         IN  /\ active[e] \in Deployments
             /\ GateAccepts(availability[e], RuntimeBindings(active[e]), p.command)
             /\ GateChange(availability[e], p.command) = p.target
             /\ WellFormed(p.target, active[e]) /\ OneValue(p.target)
             /\ p.target.revision = availability[e].revision + 1
<1> DEFINE p == pendingAvailability[e]
<1>0. /\ active[e] \in Deployments /\ availability[e] \in Availabilities
      /\ p \in PendingAvailabilities /\ p.change \in Changes /\ p.command \in Commands
      /\ WellFormed(availability[e], active[e]) /\ OneValue(availability[e])
      /\ Deployed(p.change, active[e])
      /\ p.command = AvailabilityCommand(p.change, active[e], availability[e])
      /\ p.target = ApplyAvailability(availability[e], p.command)
  BY Types, PendingFields DEF OverlayInv, RecordOverlay, ChangeFollows
<1> HIDE DEF p
<1>1. GateAccepts(availability[e], RuntimeBindings(active[e]), p.command)
  BY <1>0, RecordAccepts
<1>2. GateChange(availability[e], p.command) = p.target
  BY <1>0, GateAgreesWithManagement
<1>3. /\ WellFormed(p.target, active[e]) /\ OneValue(p.target)
      /\ p.target.revision = availability[e].revision + 1
  BY <1>0, <1>1, ChangeWellFormed
<1> QED
  BY <1>0, <1>1, <1>2, <1>3 DEF p

LEMMA SettleKeepsOverlay ==
  ASSUME TypeOK, CommandOK, OverlayInv, Settle
  PROVE  OverlayInv'
<1>1. /\ on \in Environments /\ pendingAvailability[on] # None
      /\ UNCHANGED <<active, pending, minted, installed, gateAvailability>>
      /\ availability'[on] = pendingAvailability[on].target /\ pendingAvailability'[on] = None
      /\ \A f \in Environments : f # on =>
           /\ availability'[f] = availability[f]
           /\ pendingAvailability'[f] = pendingAvailability[f]
  BY DEF Settle, Step, CommandOK, ChangeSteps, gateVars, worldVars, TypeOK
<1> SUFFICES ASSUME NEW e \in Environments
             PROVE  RecordOverlay(e)' /\ MintedInOrder(e)' /\ \A g \in Gates : GateOverlay(g, e)'
  BY DEF OverlayInv
<1>2. RecordOverlay(e) /\ MintedInOrder(e) /\ \A g \in Gates : GateOverlay(g, e)
  BY DEF OverlayInv
<1>3. MintedInOrder(e)' /\ \A g \in Gates : GateOverlay(g, e)'
  BY <1>1, <1>2 DEF GateOverlay, MintedInOrder
<1>4. CASE e = on
  <2>1. /\ WellFormed(availability'[e], active'[e]) /\ OneValue(availability'[e])
        /\ active'[e] # None
    BY <1>1, <1>4, TargetOverlay, DeploymentFields
  <2> QED
    BY <1>1, <1>3, <1>4, <2>1 DEF RecordOverlay, ChangeFollows
<1>5. CASE e # on
  BY <1>1, <1>2, <1>3, <1>5 DEF RecordOverlay, ChangeFollows
<1> QED
  BY <1>4, <1>5

LEMMA ResetKeepsOverlay ==
  ASSUME TypeOK, OverlayInv, NEW g \in Gates, NEW e \in Environments, ResetGate(g, e),
         UNCHANGED <<recordVars, worldVars>>
  PROVE  OverlayInv'
<1>1. /\ UNCHANGED <<active, pending, availability, pendingAvailability, minted>>
      /\ installed'[g][e] = None /\ gateAvailability'[g][e] = DefaultAvailability
      /\ \A h \in Gates, f \in Environments : <<h, f>> # <<g, e>> =>
           /\ installed'[h][f] = installed[h][f]
           /\ gateAvailability'[h][f] = gateAvailability[h][f]
  BY DEF ResetGate, recordVars, worldVars, TypeOK
<1>2. \A h \in Gates, f \in Environments : GateOverlay(h, f)'
  <2> TAKE h \in Gates, f \in Environments
  <2>1. GateOverlay(h, f)
    BY DEF OverlayInv
  <2>2. CASE <<h, f>> = <<g, e>>
    BY <1>1, <2>2, DefaultWellFormed DEF GateOverlay
  <2>3. CASE <<h, f>> # <<g, e>>
    BY <1>1, <2>1, <2>3 DEF GateOverlay
  <2> QED
    BY <2>2, <2>3
<1> QED
  BY <1>1, <1>2 DEF OverlayInv, RecordOverlay, ChangeFollows, MintedInOrder

LEMMA DropKeepsOverlay ==
  ASSUME OverlayInv, NEW step, DropRecord(step)
  PROVE  OverlayInv'
<1>1. /\ UNCHANGED <<minted, installed, gateAvailability>>
      /\ \A e \in Environments :
           /\ active'[e] = None /\ pending'[e] = None /\ pendingAvailability'[e] = None
           /\ availability'[e] = DefaultAvailability
  BY DEF DropRecord, gateVars, worldVars
<1> QED
  BY <1>1, DefaultWellFormed DEF OverlayInv, RecordOverlay, ChangeFollows, MintedInOrder,
                                 GateOverlay

LEMMA OverlayStep == RecordInv /\ OverlayInv /\ [Next]_vars => OverlayInv'
<1> SUFFICES ASSUME RecordInv, OverlayInv, [Next]_vars PROVE OverlayInv'
  OBVIOUS
<1>0. TypeOK /\ OneRepair /\ CommandOK
  BY DEF RecordInv
<1>1. CASE EnsureAngel \/ \E v \in Versions : PublishVersion(v)
  BY <1>1, QuietOverlay DEF EnsureAngel, PublishVersion, gateVars, worldVars, overlayVars
<1>2. ASSUME NEW e \in Environments, NEW v, NEW connections, NEW provenance,
             Deploy(e, v, connections, provenance)
      PROVE  OverlayInv'
  BY <1>0, <1>2, DeployOverlay
<1>3. CASE InstallBroker \/ InstallGateway \/ ChangeBroker \/ ChangeGateway
  BY <1>0, <1>3, GateStepOverlay
<1>4. CASE MarkBrokerInstalled \/ MarkBrokerChanged
  BY <1>4, QuietOverlay DEF MarkBrokerInstalled, MarkBrokerChanged, gateVars, worldVars, overlayVars
<1>5. CASE Activate
  BY <1>0, <1>5, ActivateKeepsOverlay
<1>6. ASSUME NEW e \in Environments, NEW change, ChangeAvailability(e, change) PROVE OverlayInv'
  BY <1>0, <1>6, ChangeCommandOverlay
<1>7. CASE Settle
  BY <1>0, <1>7, SettleKeepsOverlay
<1>8. ASSUME NEW e \in Environments,
             CreateKey(e) \/ \E key \in activeKeys[e] : RotateKey(e, key) \/ RevokeKey(e, key)
      PROVE  OverlayInv'
  BY <1>8, QuietOverlay DEF CreateKey, RotateKey, RevokeKey, ChangeKeys, recordVars, gateVars,
                            overlayVars
<1>9. CASE ReconcileKeys \/ RecordKeys
  BY <1>9, QuietOverlay DEF ReconcileKeys, RecordKeys, recordVars, gateVars, worldVars, overlayVars
<1>10. CASE LockGateway \/ ResetAccount \/ \E confirmed \in BOOLEAN : DeleteAngel(confirmed)
  BY <1>10, QuietOverlay DEF LockGateway, ResetAccount, DeleteAngel, recordVars, gateVars, worldVars,
                             overlayVars
<1>11. CASE DeleteAtBroker \/ DeleteAtGateway \/ ResetAtBroker \/ ResetAtGateway
  <2>1. Here \in Environments
    BY <1>0 DEF TypeOK, Here, HOSTED_ENVIRONMENTS, Environments
  <2>2. PICK g \in Gates : ResetGate(g, Here) /\ UNCHANGED <<recordVars, worldVars>>
    BY <1>11 DEF DeleteAtBroker, DeleteAtGateway, ResetAtBroker, ResetAtGateway, Gates
  <2> QED
    BY <1>0, <2>1, <2>2, ResetKeepsOverlay
<1>12. CASE DropAngel \/ ReplaceState
  BY <1>12, DropKeepsOverlay DEF DropAngel, ReplaceState
<1>13. CASE Record \/ Interrupt \/ UNCHANGED vars \/ \E c \in Connections : ConnectionHealth(c)
  BY <1>13, QuietOverlay DEF Record, Interrupt, ConnectionHealth, vars, recordVars, gateVars,
                             worldVars, overlayVars
<1> QED
  BY NextCases, <1>1, <1>2, <1>3, <1>4, <1>5, <1>6, <1>7, <1>8, <1>9, <1>10, <1>11, <1>12, <1>13
     DEF PromoteProduction, Environments

LEMMA OverlayInvariant == Spec => []OverlayInv
BY RecordInvariant, OverlayInit, OverlayStep, PTL DEF Spec

(* No overlay the program can hold makes an install throw on conflicting   *)
(* overrides: neither a gate's nor the recorded one.                       *)
THEOREM MigrationNeverConflictsAlways == Spec => []MigrationNeverConflicts
<1>1. TypeOK /\ OverlayInv => MigrationNeverConflicts
  <2> SUFFICES ASSUME TypeOK, OverlayInv, NEW e \in Environments, pending[e] # None
               PROVE  /\ \A g \in Gates :
                           ~ConflictsOn(gateAvailability[g][e], installed[g][e], pending[e])
                      /\ ~ConflictsOn(availability[e], active[e], pending[e])
    BY DEF MigrationNeverConflicts
  <2>1. ~ConflictsOn(availability[e], active[e], pending[e])
    BY Types, MigrateOneValue DEF OverlayInv, RecordOverlay
  <2>2. ASSUME NEW g \in Gates
        PROVE  ~ConflictsOn(gateAvailability[g][e], installed[g][e], pending[e])
    <3>1. /\ gateAvailability[g][e] \in Availabilities /\ pending[e] \in Deployments
          /\ installed[g][e] \in Deployments \cup {None}
          /\ WellFormed(gateAvailability[g][e], installed[g][e])
          /\ OneValue(gateAvailability[g][e])
      BY Types DEF OverlayInv, GateOverlay
    <3> QED
      BY <3>1, MigrateOneValue
  <2> QED
    BY <2>1, <2>2
<1> QED
  BY <1>1, TypeCorrect, OverlayInvariant, PTL

(* The repair a restart makes of the stored overlays changes none this     *)
(* code stored.                                                            *)
THEOREM RestoreIsAlwaysIdentity == Spec => []RestoreIsIdentity
<1>1. TypeOK /\ OverlayInv => RestoreIsIdentity
  <2> SUFFICES ASSUME TypeOK, OverlayInv, NEW e \in Environments
               PROVE  /\ RestoredAvailability(availability[e], active[e]) = availability[e]
                      /\ pendingAvailability[e] # None =>
                           RestoredAvailability(pendingAvailability[e].target, active[e])
                             = pendingAvailability[e].target
    BY DEF RestoreIsIdentity
  <2>0. RecordOverlay(e) /\ availability[e] \in Availabilities
    BY Types DEF OverlayInv
  <2>1. CASE active[e] = None
    <3>1. availability[e].connectionOverrides = {} /\ pendingAvailability[e] = None
      BY <2>0, <2>1 DEF RecordOverlay, ChangeFollows, DefaultAvailability
    <3> QED
      BY <2>0, <2>1, <3>1, AvailabilityFields DEF RestoredAvailability
  <2>2. CASE active[e] # None
    <3>1. active[e] \in Deployments /\ WellFormed(availability[e], active[e])
      BY <2>0, <2>2, Types DEF RecordOverlay
    <3>2. RestoredAvailability(availability[e], active[e]) = availability[e]
      BY <2>0, <2>2, <3>1, MigrateIdentity DEF RestoredAvailability
    <3>3. ASSUME pendingAvailability[e] # None
          PROVE  RestoredAvailability(pendingAvailability[e].target, active[e])
                   = pendingAvailability[e].target
      <4>1. /\ pendingAvailability[e].target \in Availabilities
            /\ WellFormed(pendingAvailability[e].target, active[e])
        BY <3>3, Types, PendingFields, TargetOverlay
      <4> QED
        BY <2>2, <3>1, <4>1, MigrateIdentity DEF RestoredAvailability
    <3> QED
      BY <3>2, <3>3
  <2> QED
    BY <2>1, <2>2
<1> QED
  BY <1>1, TypeCorrect, OverlayInvariant, PTL

-----------------------------------------------------------------------------
(* The steps that change what a gate runs: an install, a change, a reset.  *)

LEMMA GateMoves ==
  ASSUME TypeOK, CommandOK, OverlayInv, [Next]_vars, NEW g \in Gates, NEW e \in Environments
  PROVE  \/ installed'[g][e] = installed[g][e] /\ gateAvailability'[g][e] = gateAvailability[g][e]
         \/ installed'[g][e] = None
         \/ /\ pending[e] # None /\ ReconcileGate(g, e)
         \/ /\ pendingAvailability[e] # None /\ ReconcileAvailabilityGate(g, e)
<1> DEFINE Goal ==
     \/ installed'[g][e] = installed[g][e] /\ gateAvailability'[g][e] = gateAvailability[g][e]
     \/ installed'[g][e] = None
     \/ /\ pending[e] # None /\ ReconcileGate(g, e)
     \/ /\ pendingAvailability[e] # None /\ ReconcileAvailabilityGate(g, e)
<1>1. ASSUME UNCHANGED <<installed, gateAvailability>> PROVE Goal
  BY <1>1
<1>2. ASSUME NEW h \in Gates, pending[on] # None, ReconcileGate(h, on), on \in Environments
      PROVE  Goal
  <2>1. CASE <<h, on>> = <<g, e>>
    BY <1>2, <2>1
  <2>2. CASE <<h, on>> # <<g, e>>
    <3>1. installed'[g][e] = installed[g][e] /\ gateAvailability'[g][e] = gateAvailability[g][e]
      BY <1>2, <2>2, InstallOverlay
    <3> QED
      BY <3>1
  <2> QED
    BY <2>1, <2>2
<1>3. ASSUME NEW h \in Gates, pendingAvailability[on] # None, ReconcileAvailabilityGate(h, on),
             on \in Environments
      PROVE  Goal
  <2>1. CASE <<h, on>> = <<g, e>>
    BY <1>3, <2>1
  <2>2. CASE <<h, on>> # <<g, e>>
    <3>1. UNCHANGED installed /\ gateAvailability'[g][e] = gateAvailability[g][e]
      BY <1>3, <2>2, ChangeOverlay
    <3> QED
      BY <3>1
  <2> QED
    BY <2>1, <2>2
<1>4. ASSUME NEW h, ResetGate(h, Here) PROVE Goal
  <2>1. CASE <<h, Here>> = <<g, e>>
    BY <1>4, <2>1 DEF ResetGate, TypeOK
  <2>2. CASE <<h, Here>> # <<g, e>>
    BY <1>4, <2>2 DEF ResetGate, TypeOK
  <2> QED
    BY <2>1, <2>2
<1> SUFFICES Goal
  OBVIOUS
<1> HIDE DEF Goal
<1>5. on \in Environments
  BY DEF TypeOK
<1>6. CASE InstallBroker \/ InstallGateway
  <2>1. PICK h \in Gates : ReconcileGate(h, on)
    BY <1>6 DEF InstallBroker, InstallGateway, Gates
  <2>2. pending[on] # None
    BY <1>6 DEF InstallBroker, InstallGateway, Step, CommandOK, DeploySteps
  <2> QED
    BY <1>2, <1>5, <2>1, <2>2
<1>7. CASE ChangeBroker \/ ChangeGateway
  <2>1. PICK h \in Gates : ReconcileAvailabilityGate(h, on)
    BY <1>7 DEF ChangeBroker, ChangeGateway, Gates
  <2>2. pendingAvailability[on] # None
    BY <1>7 DEF ChangeBroker, ChangeGateway, Step, CommandOK, ChangeSteps
  <2> QED
    BY <1>3, <1>5, <2>1, <2>2
<1>8. CASE DeleteAtBroker \/ DeleteAtGateway \/ ResetAtBroker \/ ResetAtGateway
  <2>1. PICK h \in Gates : ResetGate(h, Here)
    BY <1>8 DEF DeleteAtBroker, DeleteAtGateway, ResetAtBroker, ResetAtGateway, Gates
  <2> QED
    BY <1>4, <2>1
<1>9. CASE \/ EnsureAngel \/ \E v \in Versions : PublishVersion(v)
           \/ \E f, v, connections, provenance : Deploy(f, v, connections, provenance)
           \/ \E f, change : ChangeAvailability(f, change)
           \/ MarkBrokerInstalled \/ MarkBrokerChanged \/ Activate \/ Settle
  BY <1>1, <1>9 DEF EnsureAngel, PublishVersion, Deploy, ChangeAvailability, MarkBrokerInstalled,
                    MarkBrokerChanged, Activate, Settle, gateVars
<1>10. CASE \/ \E f : CreateKey(f) \/ \E key : RotateKey(f, key) \/ RevokeKey(f, key)
            \/ ReconcileKeys \/ RecordKeys \/ LockGateway
  BY <1>1, <1>10 DEF CreateKey, RotateKey, RevokeKey, ChangeKeys, ReconcileKeys, RecordKeys,
                     LockGateway, gateVars
<1>11. CASE ResetAccount \/ (\E confirmed : DeleteAngel(confirmed)) \/ DropAngel \/ ReplaceState
  BY <1>1, <1>11 DEF ResetAccount, DeleteAngel, DropAngel, ReplaceState, DropRecord, gateVars
<1>12. CASE Record \/ Interrupt \/ UNCHANGED vars \/ \E c \in Connections : ConnectionHealth(c)
  BY <1>1, <1>12 DEF Record, Interrupt, ConnectionHealth, vars, gateVars
<1> QED
  BY NextCases, <1>6, <1>7, <1>8, <1>9, <1>10, <1>11, <1>12 DEF PromoteProduction

(* A gate that keeps running something never goes back to an older         *)
(* deployment or an older revision of its overlay.                         *)
THEOREM NeitherGateFallsBack == Spec => NoFallback
<1>1. RecordInv /\ OverlayInv /\ [Next]_vars =>
        [\A g \in Gates, e \in Environments :
           installed[g][e] # None /\ installed'[g][e] # None =>
             /\ installed'[g][e].id >= installed[g][e].id
             /\ gateAvailability'[g][e].revision >= gateAvailability[g][e].revision]_vars
  <2> SUFFICES ASSUME RecordInv, OverlayInv, [Next]_vars, NEW g \in Gates, NEW e \in Environments,
                      installed[g][e] # None, installed'[g][e] # None
               PROVE  /\ installed'[g][e].id >= installed[g][e].id
                      /\ gateAvailability'[g][e].revision >= gateAvailability[g][e].revision
    OBVIOUS
  <2>0. /\ TypeOK /\ CommandOK
        /\ installed[g][e].id \in Nat /\ gateAvailability[g][e].revision \in Nat
        /\ GateOverlay(g, e) /\ MintedInOrder(e) /\ minted[e] \in Nat
    BY Types, DeploymentFields, AvailabilityFields DEF RecordInv, OverlayInv
  <2>1. CASE installed'[g][e] = installed[g][e] /\ gateAvailability'[g][e] = gateAvailability[g][e]
    BY <2>0, <2>1
  <2>2. CASE pending[e] # None /\ ReconcileGate(g, e)
    <3>1. /\ installed'[g][e] = pending[e]
          /\ gateAvailability'[g][e].revision = gateAvailability[g][e].revision
      BY <2>0, <2>2, InstallOverlay
    <3>2. pending[e].id = minted[e] /\ installed[g][e].id <= minted[e]
      BY <2>0, <2>2 DEF GateOverlay, MintedInOrder
    <3> QED
      BY <2>0, <3>1, <3>2
  <2>3. CASE pendingAvailability[e] # None /\ ReconcileAvailabilityGate(g, e)
    <3>1. /\ installed' = installed
          /\ \/ gateAvailability'[g][e] = gateAvailability[g][e]
             \/ gateAvailability'[g][e].revision = gateAvailability[g][e].revision + 1
      BY <2>0, <2>3, ChangeOverlay
    <3> QED
      BY <2>0, <3>1
  <2> QED
    BY <2>0, <2>1, <2>2, <2>3, GateMoves
<1> QED
  BY <1>1, RecordInvariant, OverlayInvariant, PTL DEF Spec, NoFallback

(* What an operator paused for a tool and a Connection stays paused at a   *)
(* gate when a deployment with the same tool and Connection is installed,  *)
(* and what was not paused does not become so.                             *)
THEOREM PausesAlwaysSurviveRedeploy == Spec => PausesSurviveRedeploy
<1>1. RecordInv /\ OverlayInv /\ [Next]_vars =>
        [\A g \in Gates, e \in Environments :
           installed[g][e] # None /\ installed'[g][e] \notin {None, installed[g][e]} =>
             SamePauses(gateAvailability[g][e], installed[g][e],
                        gateAvailability'[g][e], installed'[g][e])]_vars
  <2> SUFFICES ASSUME RecordInv, OverlayInv, [Next]_vars, NEW g \in Gates, NEW e \in Environments,
                      installed[g][e] # None, installed'[g][e] \notin {None, installed[g][e]}
               PROVE  SamePauses(gateAvailability[g][e], installed[g][e],
                                 gateAvailability'[g][e], installed'[g][e])
    OBVIOUS
  <2>0. /\ TypeOK /\ CommandOK
        /\ installed[g][e] \in Deployments /\ gateAvailability[g][e] \in Availabilities
        /\ pending[e] \in Deployments \cup {None}
        /\ WellFormed(gateAvailability[g][e], installed[g][e])
    BY Types DEF RecordInv, OverlayInv, GateOverlay
  <2>1. pending[e] # None /\ ReconcileGate(g, e)
    BY <2>0, GateMoves, ChangeOverlay
  <2>2. /\ installed'[g][e] = pending[e]
        /\ gateAvailability'[g][e] = Migrate(gateAvailability[g][e], installed[g][e], pending[e])
    BY <2>0, <2>1, InstallOverlay
  <2> QED
    BY <2>0, <2>1, <2>2, MigrateKeepsPauses
<1> QED
  BY <1>1, RecordInvariant, OverlayInvariant, PTL DEF Spec, PausesSurviveRedeploy

-----------------------------------------------------------------------------
(* Convergence.  Outside of a teardown each gate is at the record or at    *)
(* the one target, the Gateway behind the Broker, and the running command  *)
(* knows which gates have reached the target.                              *)

Converging(e) ==
  /\ \A g \in Gates : AtRecord(g, e) \/ AtTarget(g, e)
  /\ AtTarget("gateway", e) \/ repair[e] = "gateway" => AtTarget("broker", e)

Progress ==
  /\ pc \in {"mark_installed", "install_gateway", "activate"} => AtPendingDeployment("broker", on)
  /\ pc = "activate" => AtPendingDeployment("gateway", on)
  /\ pc \in {"mark_changed", "change_gateway", "settle"} => AtPendingChange("broker", on)
  /\ pc = "settle" => AtPendingChange("gateway", on)

ConvergeInv == ~torn => Progress /\ \A e \in Environments : Converging(e)

(* How far the loops that reset the gates have come.                       *)
Closed(g, e) == installed[g][e] = None /\ gateAvailability[g][e] = DefaultAvailability

ClosedInv ==
  /\ pc \in {"delete_broker", "reset_broker"} /\ index = 2 => Closed("broker", "preview")
  /\ pc \in {"delete_gateway", "reset_gateway"} =>
       /\ \A e \in Environments : Closed("broker", e)
       /\ index = 2 => Closed("gateway", "preview")
  /\ pc \in {"drop", "replace"} => \A g \in Gates, e \in Environments : Closed(g, e)

LEMMA ClosedStep == TypeOK /\ LockInv /\ ClosedInv /\ [Next]_vars => ClosedInv'
<1> SUFFICES ASSUME TypeOK, LockInv, ClosedInv, [Next]_vars PROVE ClosedInv'
  OBVIOUS
<1> DEFINE Open == {"idle", "record", "push_keys", "record_keys", "lock"}
                     \cup DeploySteps \cup ChangeSteps
<1>1. ASSUME pc' \in Open \/ (pc' = "reset_broker" /\ index' = 1) PROVE ClosedInv'
  BY <1>1 DEF ClosedInv, DeploySteps, ChangeSteps
<1>2. CASE \/ EnsureAngel \/ \E v \in Versions : PublishVersion(v)
           \/ \E f, v, connections, provenance : Deploy(f, v, connections, provenance)
           \/ InstallBroker \/ MarkBrokerInstalled \/ InstallGateway \/ Activate
  BY <1>1, <1>2 DEF EnsureAngel, PublishVersion, Deploy, InstallBroker, MarkBrokerInstalled,
                    InstallGateway, Activate, Start, Step, commandVars, DeploySteps
<1>3. CASE \/ \E f, change : ChangeAvailability(f, change)
           \/ ChangeBroker \/ MarkBrokerChanged \/ ChangeGateway \/ Settle
  BY <1>1, <1>3 DEF ChangeAvailability, ChangeBroker, MarkBrokerChanged, ChangeGateway, Settle,
                    Start, Step, ChangeSteps
<1>4. CASE \/ \E f : CreateKey(f) \/ \E key : RotateKey(f, key) \/ RevokeKey(f, key)
           \/ ReconcileKeys \/ RecordKeys
  BY <1>1, <1>4 DEF CreateKey, RotateKey, RevokeKey, ChangeKeys, ReconcileKeys, RecordKeys,
                    Start, Step
<1>5. CASE ResetAccount
  BY <1>1, <1>5 DEF ResetAccount, Start, LockInv, LoopSteps
<1>6. CASE Record \/ Interrupt \/ DropAngel \/ ReplaceState
           \/ \E confirmed : DeleteAngel(confirmed)
  BY <1>1, <1>6 DEF Record, Interrupt, DropAngel, ReplaceState, DropRecord, DeleteAngel, Start, Step
<1>7. CASE UNCHANGED vars \/ \E c \in Connections : ConnectionHealth(c)
  BY <1>7 DEF ConnectionHealth, vars, gateVars, commandVars, ClosedInv, Closed
<1>8. CASE LockGateway
  <2>1. pc' = "lock" \/ (pc' = "delete_broker" /\ index' = 1)
    BY <1>8 DEF LockGateway, Loop
  <2> QED
    BY <2>1 DEF ClosedInv
<1>9. ASSUME NEW g \in Gates, NEW e \in Environments, ResetGate(g, e)
      PROVE  /\ Closed(g, e)'
             /\ \A h \in Gates, f \in Environments : Closed(h, f) => Closed(h, f)'
  BY <1>9 DEF ResetGate, Closed, TypeOK
<1>10. /\ index = 1 => Here = "preview"
       /\ index = 2 => Here = "production"
       /\ index \in {1, 2}
  BY DEF Here, HOSTED_ENVIRONMENTS, TypeOK
<1>11. CASE DeleteAtBroker \/ ResetAtBroker
  <2>1. /\ pc \in {"delete_broker", "reset_broker"} /\ ResetGate("broker", Here)
        /\ \/ index = 1 /\ index' = 2 /\ pc' = pc
           \/ index = 2 /\ index' = 1 /\ pc' \in {"delete_gateway", "reset_gateway"}
    BY <1>10, <1>11 DEF DeleteAtBroker, ResetAtBroker, Loop, HOSTED_ENVIRONMENTS
  <2>2. /\ index = 1 => Closed("broker", "preview")'
        /\ index = 2 => Closed("broker", "production")'
        /\ Closed("broker", "preview") => Closed("broker", "preview")'
    BY <1>9, <1>10, <2>1 DEF Gates, Environments
  <2> QED
    BY <1>10, <2>1, <2>2 DEF ClosedInv, Environments
<1>12. CASE DeleteAtGateway \/ ResetAtGateway
  <2>1. /\ pc \in {"delete_gateway", "reset_gateway"} /\ ResetGate("gateway", Here)
        /\ \/ index = 1 /\ index' = 2 /\ pc' = pc
           \/ index = 2 /\ index' = 1 /\ pc' \in {"drop", "replace"}
    BY <1>10, <1>12 DEF DeleteAtGateway, ResetAtGateway, Loop, HOSTED_ENVIRONMENTS
  <2>2. /\ index = 1 => Closed("gateway", "preview")'
        /\ index = 2 => Closed("gateway", "production")'
        /\ \A f \in Environments : Closed("broker", f) => Closed("broker", f)'
        /\ Closed("gateway", "preview") => Closed("gateway", "preview")'
    BY <1>9, <1>10, <2>1 DEF Gates, Environments
  <2> QED
    BY <1>10, <2>1, <2>2 DEF ClosedInv, Environments, Gates
<1> HIDE DEF Open
<1> QED
  BY NextCases, <1>2, <1>3, <1>4, <1>5, <1>6, <1>7, <1>8, <1>11, <1>12 DEF PromoteProduction

LEMMA ClosedInvariant == Spec => []ClosedInv
<1>1. Init => ClosedInv
  BY DEF Init, ClosedInv
<1> QED
  BY TypeCorrect, LockInvariant, <1>1, ClosedStep, PTL DEF Spec

(* Where a gate stands is told by the gate and the record of one           *)
(* environment.                                                            *)
LEMMA SamePlace ==
  ASSUME NEW g, NEW e,
         installed'[g][e] = installed[g][e], gateAvailability'[g][e] = gateAvailability[g][e],
         active'[e] = active[e], pending'[e] = pending[e], availability'[e] = availability[e],
         pendingAvailability'[e] = pendingAvailability[e]
  PROVE  /\ AtRecord(g, e)' <=> AtRecord(g, e)
         /\ AtPendingDeployment(g, e)' <=> AtPendingDeployment(g, e)
         /\ AtPendingChange(g, e)' <=> AtPendingChange(g, e)
         /\ AtTarget(g, e)' <=> AtTarget(g, e)
BY DEF AtRecord, AtPendingDeployment, AtPendingChange, AtTarget

QuietSteps ==
  {"idle", "record", "install_broker", "change_broker", "push_keys", "record_keys", "lock",
   "delete_broker", "delete_gateway", "drop", "reset_broker", "reset_gateway", "replace"}

LEMMA QuietConverge ==
  ASSUME ConvergeInv,
         UNCHANGED <<active, pending, availability, pendingAvailability, installed,
                     gateAvailability, repair, torn>>,
         pc' \in QuietSteps \/ UNCHANGED <<pc, on>>
  PROVE  ConvergeInv'
BY DEF ConvergeInv, Converging, Progress, QuietSteps, AtRecord, AtTarget, AtPendingDeployment,
       AtPendingChange

(* A new deployment: every gate stays at the record, and none of them can  *)
(* be running it yet.                                                      *)
LEMMA DeployConverges ==
  ASSUME TypeOK, OneRepair, OverlayInv, ConvergeInv, NEW e \in Environments, NEW v,
         NEW connections, NEW provenance, Deploy(e, v, connections, provenance)
  PROVE  ConvergeInv'
<1>1. /\ UNCHANGED <<active, availability, pendingAvailability, installed, gateAvailability, torn>>
      /\ pc' = "install_broker" /\ pendingAvailability[e] = None
  BY DEF Deploy, Start, gateVars
<1>2. CASE SameDeployment(e, v, connections, provenance)
  BY <1>1, <1>2, QuietConverge DEF SameDeployment, QuietSteps
<1>3. CASE NewDeployment(e, v, connections, provenance)
  <2> SUFFICES ASSUME ~torn', NEW f \in Environments PROVE Converging(f)'
    BY <1>1 DEF ConvergeInv, Progress
  <2>0. Converging(f)
    BY <1>1 DEF ConvergeInv
  <2>1. /\ pending[e] = None /\ pending'[e].id = minted[e] + 1 /\ repair'[e] = "broker"
        /\ \A h \in Environments : h # e => pending'[h] = pending[h] /\ repair'[h] = repair[h]
    BY <1>3 DEF NewDeployment, TypeOK
  <2>2. CASE f = e
    <3>1. \A g \in Gates : AtRecord(g, f)
      BY <1>1, <2>0, <2>1, <2>2 DEF Converging, AtTarget, AtPendingDeployment, AtPendingChange
    <3>2. \A g \in Gates : AtRecord(g, f)'
      BY <1>1, <3>1 DEF AtRecord
    <3>3. ~AtTarget("gateway", f)'
      <4>1. /\ active[f] # None => active[f].id <= minted[f]
            /\ active[f] # None => active[f].id \in Nat
            /\ minted[f] \in Nat
        BY Types, DeploymentFields DEF OverlayInv, MintedInOrder
      <4>2. active[f] # None => active[f] # pending'[f]
        BY <2>1, <2>2, <4>1
      <4>3. installed'["gateway"][f] = active[f]
        BY <1>1, <3>1 DEF AtRecord, Gates
      <4> QED
        BY <1>1, <2>2, <4>2, <4>3 DEF AtTarget, AtPendingDeployment, AtPendingChange
    <3> QED
      BY <2>1, <2>2, <3>2, <3>3 DEF Converging
  <2>3. CASE f # e
    BY <1>1, <2>0, <2>1, <2>3, SamePlace DEF Converging, Gates
  <2> QED
    BY <2>2, <2>3
<1> QED
  BY <1>2, <1>3 DEF Deploy

(* A new availability change: no gate has its target yet, as the target is *)
(* one revision ahead of the record.                                       *)
LEMMA ChangeConverges ==
  ASSUME TypeOK, OneRepair, OverlayInv, ConvergeInv, NEW e \in Environments, NEW change \in Changes,
         ChangeAvailability(e, change), OverlayInv', TypeOK'
  PROVE  ConvergeInv'
<1>1. /\ UNCHANGED <<active, availability, pending, installed, gateAvailability, torn>>
      /\ pc' = "change_broker" /\ pending[e] = None
  BY DEF ChangeAvailability, Changeable, Start, gateVars
<1>2. CASE SameChange(e, change)
  BY <1>1, <1>2, QuietConverge DEF SameChange, QuietSteps
<1>3. CASE NewChange(e, change)
  <2> SUFFICES ASSUME ~torn', NEW f \in Environments PROVE Converging(f)'
    BY <1>1 DEF ConvergeInv, Progress
  <2>0. Converging(f)
    BY <1>1 DEF ConvergeInv
  <2>1. /\ pendingAvailability[e] = None /\ repair'[e] = "broker"
        /\ \A h \in Environments : h # e =>
             pendingAvailability'[h] = pendingAvailability[h] /\ repair'[h] = repair[h]
    BY <1>3 DEF NewChange, TypeOK
  <2>2. CASE f = e
    <3>1. \A g \in Gates : AtRecord(g, f)
      BY <1>1, <2>0, <2>1, <2>2 DEF Converging, AtTarget, AtPendingDeployment, AtPendingChange
    <3>2. \A g \in Gates : AtRecord(g, f)'
      BY <1>1, <3>1 DEF AtRecord
    <3>3. ~AtTarget("gateway", f)'
      <4>1. ASSUME pendingAvailability'[f] # None
            PROVE  pendingAvailability'[f].target # availability'[f]
        <5>1. active[f] # None /\ Deployed(change, active[f])
          BY <2>2 DEF ChangeAvailability, Changeable
        <5> DEFINE command == AvailabilityCommand(change, active[f], availability[f])
        <5>2. /\ availability[f] \in Availabilities /\ command \in Commands
              /\ availability[f].revision \in Nat
          BY <5>1, Types, AvailabilityFields, AvailabilityCommandType
        <5> HIDE DEF command
        <5>3. ApplyAvailability(availability[f], command).revision = availability[f].revision + 1
          BY <5>2, ApplyAvailabilityType
        <5>4. pendingAvailability'[f].target = ApplyAvailability(availability[f], command)
          BY <1>3, <2>2 DEF NewChange, TypeOK, command
        <5> QED
          BY <1>1, <5>2, <5>3, <5>4
      <4>2. gateAvailability'["gateway"][f] = availability'[f]
        BY <3>2 DEF AtRecord, Gates
      <4> QED
        BY <1>1, <2>2, <4>1, <4>2 DEF AtTarget, AtPendingDeployment, AtPendingChange
    <3> QED
      BY <2>1, <2>2, <3>2, <3>3 DEF Converging
  <2>3. CASE f # e
    BY <1>1, <2>0, <2>1, <2>3, SamePlace DEF Converging, Gates
  <2> QED
    BY <2>2, <2>3
<1> QED
  BY <1>2, <1>3 DEF ChangeAvailability

(* An install brings a gate to the pending deployment and moves no other.  *)
LEMMA InstallReaches ==
  ASSUME TypeOK, OneRepair, OverlayInv, NEW g \in Gates, NEW e \in Environments,
         Converging(e), pending[e] # None, ReconcileGate(g, e), UNCHANGED recordVars
  PROVE  /\ AtPendingDeployment(g, e)'
         /\ \A h \in Gates, f \in Environments : <<h, f>> # <<g, e>> =>
              /\ AtRecord(h, f)' <=> AtRecord(h, f)
              /\ AtPendingDeployment(h, f)' <=> AtPendingDeployment(h, f)
              /\ AtTarget(h, f)' <=> AtTarget(h, f)
<1>1. /\ UNCHANGED <<active, pending, availability, pendingAvailability>>
      /\ pendingAvailability[e] = None
  BY DEF recordVars, OneRepair
<1>2. AtPendingDeployment(g, e)'
  <2>1. CASE AtPendingDeployment(g, e)
    <3>1. /\ installed'[g][e] = installed[g][e] /\ gateAvailability'[g][e] = gateAvailability[g][e]
      BY <2>1, InstallOverlay DEF AtPendingDeployment
    <3> QED
      BY <1>1, <2>1, <3>1 DEF AtPendingDeployment
  <2>2. CASE AtRecord(g, e)
    <3>1. /\ active[e] # None => active[e].id < pending[e].id
          /\ active[e] # None => active[e].id \in Nat
      BY Types, DeploymentFields DEF OverlayInv, MintedInOrder
    <3>2. installed[g][e] # pending[e]
      BY <2>2, <3>1 DEF AtRecord
    <3>3. /\ installed'[g][e] = pending[e]
          /\ gateAvailability'[g][e] = Migrate(availability[e], active[e], pending[e])
      BY <2>2, <3>2, InstallOverlay DEF AtRecord
    <3> QED
      BY <1>1, <3>3 DEF AtPendingDeployment
  <2> QED
    BY <1>1, <2>1, <2>2 DEF Converging, AtTarget, AtPendingChange
<1>3. ASSUME NEW h \in Gates, NEW f \in Environments, <<h, f>> # <<g, e>>
      PROVE  /\ AtRecord(h, f)' <=> AtRecord(h, f)
             /\ AtPendingDeployment(h, f)' <=> AtPendingDeployment(h, f)
             /\ AtTarget(h, f)' <=> AtTarget(h, f)
  <2>1. installed'[h][f] = installed[h][f] /\ gateAvailability'[h][f] = gateAvailability[h][f]
    BY <1>3, InstallOverlay
  <2> QED
    BY <1>1, <2>1, SamePlace
<1> QED
  BY <1>2, <1>3

(* A change brings a gate to the pending change and moves no other.        *)
LEMMA ChangeReaches ==
  ASSUME TypeOK, OneRepair, OverlayInv, NEW g \in Gates, NEW e \in Environments,
         Converging(e), pendingAvailability[e] # None, ReconcileAvailabilityGate(g, e),
         UNCHANGED recordVars
  PROVE  /\ AtPendingChange(g, e)'
         /\ \A h \in Gates, f \in Environments : <<h, f>> # <<g, e>> =>
              /\ AtRecord(h, f)' <=> AtRecord(h, f)
              /\ AtPendingChange(h, f)' <=> AtPendingChange(h, f)
              /\ AtTarget(h, f)' <=> AtTarget(h, f)
<1>1. /\ UNCHANGED <<active, pending, availability, pendingAvailability, installed>>
      /\ pending[e] = None
  BY ChangeOverlay DEF recordVars, OneRepair
<1>2. AtPendingChange(g, e)'
  <2>1. installed[g][e] = active[e]
    BY <1>1 DEF Converging, AtTarget, AtRecord, AtPendingChange, AtPendingDeployment
  <2>2. gateAvailability'[g][e] = pendingAvailability[e].target
    BY ChangeOverlay
  <2> QED
    BY <1>1, <2>1, <2>2 DEF AtPendingChange
<1>3. ASSUME NEW h \in Gates, NEW f \in Environments, <<h, f>> # <<g, e>>
      PROVE  /\ AtRecord(h, f)' <=> AtRecord(h, f)
             /\ AtPendingChange(h, f)' <=> AtPendingChange(h, f)
             /\ AtTarget(h, f)' <=> AtTarget(h, f)
  <2>1. installed'[h][f] = installed[h][f] /\ gateAvailability'[h][f] = gateAvailability[h][f]
    BY <1>1, <1>3, ChangeOverlay
  <2> QED
    BY <1>1, <2>1, SamePlace
<1> QED
  BY <1>2, <1>3

LEMMA GateStepConverges ==
  ASSUME TypeOK, OneRepair, CommandOK, OverlayInv, ConvergeInv,
         InstallBroker \/ InstallGateway \/ ChangeBroker \/ ChangeGateway
  PROVE  ConvergeInv'
<1>1. /\ UNCHANGED recordVars /\ UNCHANGED repair /\ UNCHANGED torn
      /\ on' = on /\ on \in Environments
  BY DEF InstallBroker, InstallGateway, ChangeBroker, ChangeGateway, Step, TypeOK, recordVars
<1>2. PICK e \in Environments : on = e /\ on' = e
  BY <1>1
<1> SUFFICES ASSUME ~torn PROVE Progress' /\ \A f \in Environments : Converging(f)'
  BY <1>1 DEF ConvergeInv
<1>3. Progress /\ \A f \in Environments : Converging(f)
  BY DEF ConvergeInv
<1>4. "broker" \in Gates /\ "gateway" \in Gates /\ \A g \in Gates : g = "broker" \/ g = "gateway"
  BY DEF Gates
<1> DEFINE Elsewhere(g) ==
      \A h \in Gates, f \in Environments : <<h, f>> # <<g, e>> =>
        (AtRecord(h, f)' <=> AtRecord(h, f)) /\ (AtTarget(h, f)' <=> AtTarget(h, f))
(* With the Broker's gate at the target, e and every other environment are *)
(* converging.                                                             *)
<1>5. ASSUME NEW g \in Gates, AtTarget(g, e)', AtTarget("broker", e)', Elsewhere(g)
      PROVE  \A f \in Environments : Converging(f)'
  <2> TAKE f \in Environments
  <2>1. CASE f = e
    BY <1>3, <1>4, <1>5, <2>1 DEF Converging
  <2>2. CASE f # e
    <3>1. \A h \in Gates : (AtRecord(h, f)' <=> AtRecord(h, f)) /\ (AtTarget(h, f)' <=> AtTarget(h, f))
      BY <1>5, <2>2
    <3> QED
      BY <1>1, <1>3, <1>4, <3>1 DEF Converging
  <2> QED
    BY <2>1, <2>2
<1>6. CASE InstallBroker
  <2>1. /\ pc' = "mark_installed" /\ pending[e] # None /\ ReconcileGate("broker", e)
    BY <1>2, <1>6 DEF InstallBroker, Step, CommandOK, DeploySteps
  <2>2. AtPendingDeployment("broker", e)' /\ Elsewhere("broker")
    BY <1>1, <1>3, <1>4, <2>1, InstallReaches
  <2>3. AtTarget("broker", e)'
    BY <2>2 DEF AtTarget
  <2> HIDE DEF Elsewhere
  <2>4. Progress'
    <3>1. AtPendingDeployment("broker", on)'
      BY <1>2, <2>2
    <3> QED
      BY <2>1, <3>1 DEF Progress
  <2> QED
    BY <1>4, <1>5, <2>2, <2>3, <2>4
<1>7. CASE InstallGateway
  <2>1. /\ pc = "install_gateway" /\ pc' = "activate" /\ pending[e] # None
        /\ ReconcileGate("gateway", e)
    BY <1>2, <1>7 DEF InstallGateway, Step, CommandOK, DeploySteps
  <2>2. AtPendingDeployment("broker", e)
    BY <1>2, <1>3, <2>1 DEF Progress
  <2>3. /\ AtPendingDeployment("gateway", e)' /\ AtPendingDeployment("broker", e)'
        /\ Elsewhere("gateway")
    BY <1>1, <1>3, <1>4, <2>1, <2>2, InstallReaches
  <2>4. AtTarget("broker", e)' /\ AtTarget("gateway", e)'
    BY <2>3 DEF AtTarget
  <2> HIDE DEF Elsewhere
  <2>5. Progress'
    <3>1. AtPendingDeployment("broker", on)' /\ AtPendingDeployment("gateway", on)'
      BY <1>2, <2>3
    <3> QED
      BY <2>1, <3>1 DEF Progress
  <2> QED
    BY <1>4, <1>5, <2>3, <2>4, <2>5
<1>8. CASE ChangeBroker
  <2>1. /\ pc' = "mark_changed" /\ pendingAvailability[e] # None
        /\ ReconcileAvailabilityGate("broker", e)
    BY <1>2, <1>8 DEF ChangeBroker, Step, CommandOK, ChangeSteps
  <2>2. AtPendingChange("broker", e)' /\ Elsewhere("broker")
    BY <1>1, <1>3, <1>4, <2>1, ChangeReaches
  <2>3. AtTarget("broker", e)'
    BY <2>2 DEF AtTarget
  <2> HIDE DEF Elsewhere
  <2>4. Progress'
    <3>1. AtPendingChange("broker", on)'
      BY <1>2, <2>2
    <3> QED
      BY <2>1, <3>1 DEF Progress
  <2> QED
    BY <1>4, <1>5, <2>2, <2>3, <2>4
<1>9. CASE ChangeGateway
  <2>1. /\ pc = "change_gateway" /\ pc' = "settle" /\ pendingAvailability[e] # None
        /\ ReconcileAvailabilityGate("gateway", e)
    BY <1>2, <1>9 DEF ChangeGateway, Step, CommandOK, ChangeSteps
  <2>2. AtPendingChange("broker", e)
    BY <1>2, <1>3, <2>1 DEF Progress
  <2>3. AtPendingChange("gateway", e)' /\ AtPendingChange("broker", e)' /\ Elsewhere("gateway")
    BY <1>1, <1>3, <1>4, <2>1, <2>2, ChangeReaches
  <2>4. AtTarget("broker", e)' /\ AtTarget("gateway", e)'
    BY <2>3 DEF AtTarget
  <2> HIDE DEF Elsewhere
  <2>5. Progress'
    <3>1. AtPendingChange("broker", on)' /\ AtPendingChange("gateway", on)'
      BY <1>2, <2>3
    <3> QED
      BY <2>1, <3>1 DEF Progress
  <2> QED
    BY <1>4, <1>5, <2>3, <2>4, <2>5
<1> QED
  BY <1>6, <1>7, <1>8, <1>9

(* The put of the marker between the two gates.                            *)
LEMMA MarkerConverges ==
  ASSUME TypeOK, ConvergeInv, MarkBrokerInstalled \/ MarkBrokerChanged
  PROVE  ConvergeInv'
<1>1. /\ UNCHANGED <<active, pending, availability, pendingAvailability, installed,
                     gateAvailability, torn>>
      /\ on' = on /\ on \in Environments /\ repair' = [repair EXCEPT ![on] = "gateway"]
  BY DEF MarkBrokerInstalled, MarkBrokerChanged, Step, TypeOK, gateVars
<1> SUFFICES ASSUME ~torn PROVE Progress' /\ \A f \in Environments : Converging(f)'
  BY <1>1 DEF ConvergeInv
<1>2. Progress /\ \A f \in Environments : Converging(f)
  BY DEF ConvergeInv
<1>3. AtTarget("broker", on)
  BY <1>2 DEF MarkBrokerInstalled, MarkBrokerChanged, Step, Progress, AtTarget
<1>4. \A g \in Gates, f \in Environments :
        (AtRecord(g, f)' <=> AtRecord(g, f)) /\ (AtTarget(g, f)' <=> AtTarget(g, f))
  BY <1>1, SamePlace
<1>5. \A f \in Environments : Converging(f)'
  <2> TAKE f \in Environments
  <2>1. f # on => repair'[f] = repair[f]
    BY <1>1 DEF TypeOK
  <2>2. f = on => AtTarget("broker", f)
    BY <1>3
  <2> QED
    BY <1>2, <1>4, <2>1, <2>2 DEF Converging, Gates
<1>6. Progress'
  BY <1>1, <1>2 DEF MarkBrokerInstalled, MarkBrokerChanged, Step, Progress,
                    AtPendingDeployment, AtPendingChange
<1> QED
  BY <1>5, <1>6

(* The record moves to where both gates are.                               *)
LEMMA RecordConverges ==
  ASSUME TypeOK, OneRepair, CommandOK, OverlayInv, ConvergeInv, Activate \/ Settle,
         OneRepair'
  PROVE  ConvergeInv'
<1>1. /\ UNCHANGED <<installed, gateAvailability, torn>>
      /\ pc' = "record" /\ on \in Environments
      /\ repair' = [repair EXCEPT ![on] = "none"]
  BY DEF Activate, Settle, Step, TypeOK, gateVars
<1> SUFFICES ASSUME ~torn, NEW f \in Environments PROVE Converging(f)'
  BY <1>1 DEF ConvergeInv, Progress
<1>2. Progress /\ Converging(f)
  BY DEF ConvergeInv
<1>3. CASE f # on
  <2>1. /\ active'[f] = active[f] /\ pending'[f] = pending[f] /\ availability'[f] = availability[f]
        /\ pendingAvailability'[f] = pendingAvailability[f] /\ repair'[f] = repair[f]
    BY <1>3 DEF Activate, Settle, TypeOK
  <2> QED
    BY <1>1, <1>2, <2>1, SamePlace DEF Converging, Gates
<1>4. CASE f = on
  <2>1. \A g \in Gates : AtRecord(g, f)'
    <3>1. CASE Activate
      <4>1. \A g \in Gates : AtPendingDeployment(g, f)
        BY <1>2, <1>4, <3>1 DEF Activate, Step, Progress, Gates
      <4>2. pending[f] # None
        BY <1>4, <3>1 DEF Activate, Step, CommandOK, DeploySteps
      <4>3. /\ active'[f] = pending[f]
            /\ availability'[f] = MigratedRecord(f)
        BY <1>1, <1>4, <3>1 DEF Activate, TypeOK
      <4> QED
        BY <1>1, <4>1, <4>2, <4>3, ActivatedOverlay DEF AtRecord, AtPendingDeployment
    <3>2. CASE Settle
      <4>1. \A g \in Gates : AtPendingChange(g, f)
        BY <1>2, <1>4, <3>2 DEF Settle, Step, Progress, Gates
      <4>2. /\ active'[f] = active[f]
            /\ availability'[f] = pendingAvailability[f].target
        BY <1>1, <1>4, <3>2 DEF Settle, TypeOK
      <4> QED
        BY <1>1, <4>1, <4>2 DEF AtRecord, AtPendingChange
    <3> QED
      BY <3>1, <3>2
  <2>2. repair'[f] = "none"
    BY <1>1, <1>4 DEF TypeOK
  <2>3. pending'[f] = None /\ pendingAvailability'[f] = None
    BY <2>2 DEF OneRepair
  <2> QED
    BY <2>1, <2>2, <2>3 DEF Converging, AtTarget, AtPendingDeployment, AtPendingChange
<1> QED
  BY <1>3, <1>4

(* The Angel leaves the record only when every gate is reset.              *)
LEMMA DropConverges ==
  ASSUME ClosedInv, NEW step \in {"drop", "replace"}, DropRecord(step)
  PROVE  ConvergeInv'
<1>1. /\ pc = step /\ pc' = "idle" /\ UNCHANGED <<installed, gateAvailability>>
      /\ \A e \in Environments :
           /\ active'[e] = None /\ pending'[e] = None /\ pendingAvailability'[e] = None
           /\ availability'[e] = DefaultAvailability /\ repair'[e] = "none"
  BY DEF DropRecord, Step, gateVars
<1>2. \A g \in Gates, e \in Environments :
        installed[g][e] = None /\ gateAvailability[g][e] = DefaultAvailability
  BY <1>1 DEF ClosedInv, Closed
<1>3. \A e \in Environments : Converging(e)'
  BY <1>1, <1>2 DEF Converging, AtRecord, AtTarget, AtPendingDeployment, AtPendingChange
<1> QED
  BY <1>1, <1>3 DEF ConvergeInv, Progress

LEMMA ConvergeInit == Init => ConvergeInv
BY DEF Init, ConvergeInv, Progress, Converging, AtRecord, AtTarget, AtPendingDeployment,
       AtPendingChange

LEMMA ConvergeStep ==
  RecordInv /\ OverlayInv /\ ClosedInv /\ ConvergeInv /\ RecordInv' /\ OverlayInv' /\ [Next]_vars
    => ConvergeInv'
<1> SUFFICES ASSUME RecordInv, OverlayInv, ClosedInv, ConvergeInv, RecordInv', OverlayInv',
                    [Next]_vars
             PROVE  ConvergeInv'
  OBVIOUS
<1>0. TypeOK /\ OneRepair /\ CommandOK /\ TypeOK' /\ OneRepair'
  BY DEF RecordInv
<1>1. CASE EnsureAngel \/ \E v \in Versions : PublishVersion(v)
  BY <1>1, QuietConverge DEF EnsureAngel, PublishVersion, gateVars, commandVars
<1>2. ASSUME NEW e \in Environments, NEW v, NEW connections, NEW provenance,
             Deploy(e, v, connections, provenance)
      PROVE  ConvergeInv'
  BY <1>0, <1>2, DeployConverges
<1>3. CASE InstallBroker \/ InstallGateway \/ ChangeBroker \/ ChangeGateway
  BY <1>0, <1>3, GateStepConverges
<1>4. CASE MarkBrokerInstalled \/ MarkBrokerChanged
  BY <1>0, <1>4, MarkerConverges
<1>5. CASE Activate \/ Settle
  BY <1>0, <1>5, RecordConverges
<1>6. ASSUME NEW e \in Environments, NEW change \in Changes, ChangeAvailability(e, change)
      PROVE  ConvergeInv'
  BY <1>0, <1>6, ChangeConverges
<1>7. ASSUME NEW e \in Environments,
             CreateKey(e) \/ \E key \in activeKeys[e] : RotateKey(e, key) \/ RevokeKey(e, key)
      PROVE  ConvergeInv'
  BY <1>7, QuietConverge DEF CreateKey, RotateKey, RevokeKey, ChangeKeys, Start, recordVars,
                             gateVars, QuietSteps
<1>8. CASE ReconcileKeys \/ RecordKeys
  BY <1>8, QuietConverge DEF ReconcileKeys, RecordKeys, Step, recordVars, gateVars, QuietSteps
<1>9. CASE ResetAccount \/ \E confirmed \in BOOLEAN : DeleteAngel(confirmed)
  BY <1>9, QuietConverge DEF ResetAccount, DeleteAngel, Start, recordVars, gateVars, QuietSteps
<1>10. CASE LockGateway
  BY <1>10, QuietConverge DEF LockGateway, Loop, recordVars, QuietSteps
<1>11. CASE DeleteAtBroker \/ DeleteAtGateway \/ ResetAtBroker \/ ResetAtGateway
  BY <1>11 DEF DeleteAtBroker, DeleteAtGateway, ResetAtBroker, ResetAtGateway, ResetGate, ConvergeInv
<1>12. CASE DropAngel \/ ReplaceState
  BY <1>12, DropConverges DEF DropAngel, ReplaceState
<1>13. CASE Record \/ Interrupt
  BY <1>13, QuietConverge DEF Record, Interrupt, recordVars, gateVars, QuietSteps
<1>14. CASE UNCHANGED vars \/ \E c \in Connections : ConnectionHealth(c)
  BY <1>14, QuietConverge DEF ConnectionHealth, vars, recordVars, gateVars, commandVars
<1> QED
  BY NextCases, <1>1, <1>2, <1>3, <1>4, <1>5, <1>6, <1>7, <1>8, <1>9, <1>10, <1>11, <1>12, <1>13,
     <1>14 DEF PromoteProduction, Environments

LEMMA ConvergeInvariant == Spec => []ConvergeInv
BY RecordInvariant, OverlayInvariant, ClosedInvariant, ConvergeInit, ConvergeStep, PTL DEF Spec

(* Wherever deployments and availability changes are cut short, every gate *)
(* is at the record or at the one target under repair.                     *)
THEOREM GatesAlwaysMatchRecord == Spec => []GatesMatchRecord
<1>1. ConvergeInv => GatesMatchRecord
  BY DEF ConvergeInv, Converging, GatesMatchRecord
<1> QED
  BY <1>1, ConvergeInvariant, PTL

(* The Gateway reaches a target only after the Broker has.                 *)
THEOREM BrokerAlwaysLeads == Spec => []BrokerLeads
<1>1. ConvergeInv => BrokerLeads
  BY DEF ConvergeInv, Converging, BrokerLeads
<1> QED
  BY <1>1, ConvergeInvariant, PTL

(* A recorded availability change is never one a gate would refuse or      *)
(* answer differently.                                                     *)
THEOREM ChangesNeverDiverge == Spec => []ChangeNeverDiverges
<1>1. TypeOK /\ OneRepair /\ OverlayInv /\ ConvergeInv => ChangeNeverDiverges
  <2> SUFFICES ASSUME TypeOK, OneRepair, OverlayInv, ConvergeInv, ~torn,
                      NEW e \in Environments, NEW g \in Gates, pendingAvailability[e] # None
               PROVE  LET change == pendingAvailability[e]
                      IN  \/ gateAvailability[g][e] = change.target
                          \/ /\ GateAccepts(gateAvailability[g][e],
                                            RuntimeBindings(installed[g][e]), change.command)
                             /\ GateChange(gateAvailability[g][e], change.command) = change.target
    BY DEF ChangeNeverDiverges
  <2>1. AtRecord(g, e) \/ AtPendingChange(g, e)
    BY DEF ConvergeInv, Converging, AtTarget, AtPendingDeployment, OneRepair
  <2>2. CASE AtRecord(g, e)
    BY <2>2, TargetOverlay DEF AtRecord
  <2>3. CASE AtPendingChange(g, e)
    BY <2>3 DEF AtPendingChange
  <2> QED
    BY <2>1, <2>2, <2>3
<1>2. RecordInv => TypeOK /\ OneRepair
  BY DEF RecordInv
<1> QED
  BY <1>1, <1>2, RecordInvariant, OverlayInvariant, ConvergeInvariant, PTL
===============================================================================
