-------------------------- MODULE AvailabilityProofs --------------------------
(***************************************************************************)
(* What the operators of Availability return, for every set of tools and   *)
(* Connections: they keep an overlay an overlay, and the two separate      *)
(* implementations of a change (applyAvailability in src/src/management.ts *)
(* and PolicyGate.changeAvailability in src/src/gate.ts) agree.            *)
(***************************************************************************)
EXTENDS Availability, TLAPS

(* An overlay is its four fields.                                          *)
LEMMA AvailabilityFields ==
  ASSUME NEW a \in Availabilities
  PROVE  /\ a.defaultEnabled \in BOOLEAN
         /\ a.overrides \in SUBSET (Tools \X BOOLEAN)
         /\ a.connectionOverrides \in SUBSET (Tools \X Refs \X BOOLEAN)
         /\ a.revision \in Nat
         /\ a = [defaultEnabled |-> a.defaultEnabled, overrides |-> a.overrides,
                 connectionOverrides |-> a.connectionOverrides, revision |-> a.revision]
BY DEF Availabilities

(* The overlay a gate starts from is one.                                  *)
LEMMA DefaultAvailabilityType == DefaultAvailability \in Availabilities
BY DEF DefaultAvailability, Availabilities

(* Whatever a gate answers to a command, Management predicted it: for      *)
(* every overlay and every command the two implementations return the same *)
(* overlay, so a change never ends in "did not apply the recorded          *)
(* availability target".                                                   *)
THEOREM GateAgreesWithManagement ==
  ASSUME NEW a \in Availabilities, NEW command \in Commands
  PROVE  GateChange(a, command) = ApplyAvailability(a, command)
<1>0. a = [defaultEnabled |-> a.defaultEnabled, overrides |-> a.overrides,
           connectionOverrides |-> a.connectionOverrides, revision |-> a.revision]
  BY AvailabilityFields
<1>1. CASE command.kind = "all"
  BY <1>1 DEF GateChange, ApplyAvailability, GateOverrides, GateConnectionOverrides
<1>2. CASE command.kind = "tool"
  BY <1>0, <1>2 DEF GateChange, ApplyAvailability, GateOverrides, GateConnectionOverrides
<1>3. CASE command.kind = "tool_connection"
  BY <1>0, <1>3 DEF GateChange, ApplyAvailability, GateOverrides, GateConnectionOverrides
<1> QED
  BY <1>1, <1>2, <1>3 DEF Commands

(* A change leads from an overlay to an overlay, one revision later.       *)
LEMMA ApplyAvailabilityType ==
  ASSUME NEW a \in Availabilities, NEW command \in Commands
  PROVE  /\ ApplyAvailability(a, command) \in Availabilities
         /\ ApplyAvailability(a, command).revision = a.revision + 1
<1>0. /\ a.defaultEnabled \in BOOLEAN
      /\ a.overrides \in SUBSET (Tools \X BOOLEAN)
      /\ a.connectionOverrides \in SUBSET (Tools \X Refs \X BOOLEAN)
      /\ a.revision \in Nat
      /\ a = [defaultEnabled |-> a.defaultEnabled, overrides |-> a.overrides,
              connectionOverrides |-> a.connectionOverrides, revision |-> a.revision]
  BY AvailabilityFields
<1>1. CASE command.kind = "all"
  BY <1>0, <1>1 DEF ApplyAvailability, Commands, Availabilities
<1>2. CASE command.kind = "tool"
  <2>1. command.tool \in Tools /\ command.enabled \in BOOLEAN
    BY <1>2 DEF Commands
  <2>2. /\ OtherTools(a.overrides, command.tool) \in SUBSET (Tools \X BOOLEAN)
        /\ OtherTools(a.connectionOverrides, command.tool) \in SUBSET (Tools \X Refs \X BOOLEAN)
    BY <1>0 DEF OtherTools
  <2> DEFINE added == IF command.enabled = a.defaultEnabled
                        THEN {} ELSE {<<command.tool, command.enabled>>}
  <2>3. added \in SUBSET (Tools \X BOOLEAN)
    BY <2>1
  <2>4. ApplyAvailability(a, command) =
          [defaultEnabled |-> a.defaultEnabled,
           overrides |-> OtherTools(a.overrides, command.tool) \cup added,
           connectionOverrides |-> OtherTools(a.connectionOverrides, command.tool),
           revision |-> a.revision + 1]
    BY <1>0, <1>2 DEF ApplyAvailability
  <2> HIDE DEF added
  <2> QED
    BY <1>0, <2>2, <2>3, <2>4 DEF Availabilities
<1>3. CASE command.kind = "tool_connection"
  <2>1. command.tool \in Tools /\ command.connectionRef \in Refs /\ command.enabled \in BOOLEAN
    BY <1>3 DEF Commands
  <2>2. OtherRefs(a.connectionOverrides, command.tool, command.connectionRef)
          \in SUBSET (Tools \X Refs \X BOOLEAN)
    BY <1>0 DEF OtherRefs
  <2> DEFINE added == IF command.enabled = IsToolEnabled(a, command.tool)
                        THEN {} ELSE {<<command.tool, command.connectionRef, command.enabled>>}
  <2>3. added \in SUBSET (Tools \X Refs \X BOOLEAN)
    BY <2>1
  <2>4. ApplyAvailability(a, command) =
          [defaultEnabled |-> a.defaultEnabled,
           overrides |-> a.overrides,
           connectionOverrides |->
             OtherRefs(a.connectionOverrides, command.tool, command.connectionRef) \cup added,
           revision |-> a.revision + 1]
    BY <1>0, <1>3 DEF ApplyAvailability
  <2> HIDE DEF added
  <2> QED
    BY <1>0, <2>2, <2>3, <2>4 DEF Availabilities
<1> QED
  BY <1>1, <1>2, <1>3 DEF Commands

(* An install leaves an overlay, at the revision and default it had.       *)
LEMMA MigrationType ==
  ASSUME NEW a \in Availabilities, NEW tools \in SUBSET Tools,
         NEW previous \in SUBSET Bindings, NEW next \in SUBSET Bindings
  PROVE  LET m == MigrateInstalledAvailability(a, tools, previous, next)
         IN  /\ m \in Availabilities
             /\ m.revision = a.revision
             /\ m.defaultEnabled = a.defaultEnabled
<1>0. /\ a.defaultEnabled \in BOOLEAN
      /\ a.overrides \in SUBSET (Tools \X BOOLEAN)
      /\ a.connectionOverrides \in SUBSET (Tools \X Refs \X BOOLEAN)
      /\ a.revision \in Nat
      /\ a = [defaultEnabled |-> a.defaultEnabled, overrides |-> a.overrides,
              connectionOverrides |-> a.connectionOverrides, revision |-> a.revision]
  BY AvailabilityFields
<1>1. ASSUME NEW o \in a.connectionOverrides, NEW ref \in NextRefs(o[1], o[2], previous, next)
      PROVE  <<o[1], ref, o[3]>> \in Tools \X Refs \X BOOLEAN
  <2>1. o[1] \in Tools /\ o[2] \in Refs /\ o[3] \in BOOLEAN
    BY <1>0
  <2>2. ref \in Refs
    BY <1>1, <2>1 DEF NextRefs, Bindings
  <2> QED
    BY <2>1, <2>2
<1>2. MigratedConnectionOverrides(a, tools, previous, next) \in SUBSET (Tools \X Refs \X BOOLEAN)
  BY <1>1 DEF MigratedConnectionOverrides
<1>3. {o \in a.overrides : o[1] \in tools} \in SUBSET (Tools \X BOOLEAN)
  BY <1>0
<1> QED
  BY <1>0, <1>2, <1>3 DEF MigrateInstalledAvailability, Availabilities
===============================================================================
