----------------------------- MODULE Availability -----------------------------
(***************************************************************************)
(* The runtime availability overlay of one Angel environment: which tools  *)
(* are paused, for which of their Connections, and how that record is      *)
(* changed and carried over an install.  The overlay is held three times,  *)
(* by Management (src/src/management.ts) and by the Broker and Gateway     *)
(* gates (src/src/gate.ts), and the code changes it with two separate      *)
(* implementations that have to agree.                                     *)
(*                                                                         *)
(* A JavaScript map from names to booleans is a set of entries here: tool  *)
(* overrides are pairs <<tool, enabled>>, Connection overrides triples     *)
(* <<tool, ref, enabled>>.  That a key has one value is then something the *)
(* writers have to establish and not a consequence of the representation.  *)
(*                                                                         *)
(* A ref is the selector Management mints for one Connection in one        *)
(* deployment: <<deployment id, Connection>>.  A binding is <<tool, ref>>. *)
(***************************************************************************)
EXTENDS Naturals

CONSTANTS Tools,        \* tool names, over every Version of the Angel
          Connections   \* stable Connection ids

Refs == (Nat \ {0}) \X Connections

Bindings == Tools \X Refs

Availabilities ==
  [defaultEnabled      : BOOLEAN,
   overrides           : SUBSET (Tools \X BOOLEAN),
   connectionOverrides : SUBSET (Tools \X Refs \X BOOLEAN),
   revision            : Nat]

DefaultAvailability ==
  [defaultEnabled |-> TRUE, overrides |-> {}, connectionOverrides |-> {}, revision |-> 0]

-----------------------------------------------------------------------------
(* What an overlay says.                                                   *)

IsToolEnabled(a, tool) ==
  \/ <<tool, TRUE>> \in a.overrides
  \/ /\ <<tool, FALSE>> \notin a.overrides
     /\ a.defaultEnabled

IsToolConnectionEnabled(a, tool, ref) ==
  \/ <<tool, ref, TRUE>> \in a.connectionOverrides
  \/ /\ <<tool, ref, FALSE>> \notin a.connectionOverrides
     /\ IsToolEnabled(a, tool)

-----------------------------------------------------------------------------
(* The commands Management sends to a gate.                                *)

Commands ==
       [kind : {"all"}, enabled : BOOLEAN, expectedRevision : Nat]
  \cup [kind : {"tool"}, tool : Tools, enabled : BOOLEAN, expectedRevision : Nat]
  \cup [kind : {"tool_connection"}, tool : Tools, connectionRef : Refs,
        enabled : BOOLEAN, expectedRevision : Nat]

OtherTools(entries, tool) == {o \in entries : o[1] # tool}

OtherRefs(entries, tool, ref) == {o \in entries : o[1] # tool \/ o[2] # ref}

(* Management computes the overlay a command leads to before any gate has  *)
(* been asked to apply it.                                                 *)
ApplyAvailability(current, command) ==
  CASE command.kind = "all" ->
         [defaultEnabled      |-> command.enabled,
          overrides           |-> {},
          connectionOverrides |-> {},
          revision            |-> current.revision + 1]
    [] command.kind = "tool" ->
         [current EXCEPT
           !.overrides = OtherTools(@, command.tool) \cup
             (IF command.enabled = current.defaultEnabled
                THEN {} ELSE {<<command.tool, command.enabled>>}),
           !.connectionOverrides = OtherTools(@, command.tool),
           !.revision = @ + 1]
    [] command.kind = "tool_connection" ->
         [current EXCEPT
           !.connectionOverrides = OtherRefs(@, command.tool, command.connectionRef) \cup
             (IF command.enabled = IsToolEnabled(current, command.tool)
                THEN {} ELSE {<<command.tool, command.connectionRef, command.enabled>>}),
           !.revision = @ + 1]

(* A gate accepts a command only at the revision it was computed from and  *)
(* only for what is installed; every other command throws.                 *)
GateAccepts(a, bindings, command) ==
  /\ command.expectedRevision = a.revision
  /\ command.kind = "tool" => \E b \in bindings : b[1] = command.tool
  /\ command.kind = "tool_connection" => <<command.tool, command.connectionRef>> \in bindings

(* Mutant: an override equal to the default is recorded, not deleted.      *)
GateOverrides_Explicit(a, command) ==
  IF command.kind = "tool"
    THEN OtherTools(a.overrides, command.tool) \cup {<<command.tool, command.enabled>>}
    ELSE IF command.kind = "all" THEN {} ELSE a.overrides

GateOverrides(a, command) ==
  CASE command.kind = "all" -> {}
    [] command.kind = "tool_connection" -> a.overrides
    [] command.kind = "tool" ->
         IF command.enabled = a.defaultEnabled
           THEN OtherTools(a.overrides, command.tool)
           ELSE OtherTools(a.overrides, command.tool) \cup {<<command.tool, command.enabled>>}

GateConnectionOverrides(a, command) ==
  CASE command.kind = "all" -> {}
    [] command.kind = "tool" -> OtherTools(a.connectionOverrides, command.tool)
    [] command.kind = "tool_connection" ->
         LET others == OtherRefs(a.connectionOverrides, command.tool, command.connectionRef)
         IN  IF command.enabled = IsToolEnabled(a, command.tool)
               THEN others
               ELSE others \cup {<<command.tool, command.connectionRef, command.enabled>>}

GateChange(a, command) ==
  [defaultEnabled      |-> IF command.kind = "all" THEN command.enabled ELSE a.defaultEnabled,
   overrides           |-> GateOverrides(a, command),
   connectionOverrides |-> GateConnectionOverrides(a, command),
   revision            |-> a.revision + 1]

-----------------------------------------------------------------------------
(* Carrying an overlay over an install.  A tool override survives for a    *)
(* tool that is still shipped.  A Connection override moves to the refs    *)
(* its Connection has in the next bindings, and is dropped with it.        *)

(* Mutant: an override is not carried to its Connection's next refs.       *)
NextRefs_Dropped(tool, ref, previous, next) == {ref} \cap {b[2] : b \in next}

NextRefs(tool, ref, previous, next) ==
  IF <<tool, ref>> \in next
    THEN {ref}
    ELSE {b[2] : b \in {n \in next : /\ n[1] = tool
                                     /\ n[2][2] = ref[2]
                                     /\ <<tool, ref>> \in previous}}

(* Mutant: every next ref starts from its tool's value, and an override is *)
(* recorded beside it instead of over it.                                  *)
MigratedConnectionOverrides_Seeded(a, tools, previous, next) ==
  {<<b[1], b[2], IsToolEnabled(a, b[1])>> : b \in next} \cup
  UNION {{<<o[1], ref, o[3]>> : ref \in NextRefs(o[1], o[2], previous, next)}
           : o \in {p \in a.connectionOverrides : p[1] \in tools}}

MigratedConnectionOverrides(a, tools, previous, next) ==
  UNION {{<<o[1], ref, o[3]>> : ref \in NextRefs(o[1], o[2], previous, next)}
           : o \in {p \in a.connectionOverrides : p[1] \in tools}}

(* Mutant: an install starts the revision over.                            *)
MigrateInstalledAvailability_Restarted(a, tools, previous, next) ==
  [a EXCEPT !.overrides = {o \in @ : o[1] \in tools},
            !.connectionOverrides = MigratedConnectionOverrides(a, tools, previous, next),
            !.revision = 0]

MigrateInstalledAvailability(a, tools, previous, next) ==
  [a EXCEPT !.overrides = {o \in @ : o[1] \in tools},
            !.connectionOverrides = MigratedConnectionOverrides(a, tools, previous, next)]

(* The migration throws when two overrides with different values land on   *)
(* one (tool, ref).                                                        *)
MigrationConflicts(a, tools, previous, next) ==
  LET moved == MigratedConnectionOverrides(a, tools, previous, next)
  IN  \E m \in moved : <<m[1], m[2], ~m[3]>> \in moved

===============================================================================
