------------------------------- MODULE Decision -------------------------------
(***************************************************************************)
(* The decision on the arguments of a tool call (packages/core/src/        *)
(* decision.ts) and the provider request built from them                   *)
(* (src/google-provider.ts).  Both gates of an Angel decide with the same  *)
(* code, the second on what the first let through.                         *)
(*                                                                         *)
(* A JSON value is what the guards can see of it: the scalars below it     *)
(* (leaves; none for null, {} and []), taken as their comparable form, and *)
(* the named fields inside it with the leaves below those.  An arguments   *)
(* object is a set of entries, one for each of its keys.  Guards match a   *)
(* field in any spelling; defaults and parameters only in their own.       *)
(***************************************************************************)
EXTENDS FiniteSets

CONSTANTS Fields,   \* argument names, in comparable form
          Leaves,   \* scalars, in comparable form
          Dotted    \* the leaves a URL path would resolve away: "", "." and ".."

ASSUME DottedAssumption == Dotted \subseteq Leaves

Kinds == {"scalar", "list", "object", "null"}

Entries ==
  [field : Fields, exact : BOOLEAN, kind : Kinds, leaves : SUBSET Leaves,
   inner : SUBSET (Fields \X SUBSET Leaves)]

(* deep: nested beyond MAX_ARG_DEPTH.                                      *)
ArgumentObjects == [deep : BOOLEAN, entries : SUBSET Entries]

(* What an artifact seals for a tool: its guards, and how its arguments    *)
(* become a request.                                                       *)
ArgGuards == [field : Fields, kind : {"forbid", "pin", "forbiddenValues"},
              values : SUBSET Leaves]

ToolPolicies ==
  [guards : SUBSET ArgGuards, pathDefaults : SUBSET (Fields \X Leaves),
   pathParams : SUBSET Fields, queryParams : SUBSET Fields, hasBody : BOOLEAN]

-----------------------------------------------------------------------------
(* Defaults are filled in before the guards look; a pin is a default too   *)
(* and wins over the template's.                                           *)

PinDefaults(policy) ==
  UNION {{<<guard.field, leaf>> : leaf \in guard.values}
           : guard \in {g \in policy.guards : g.kind = "pin"}}

ArgumentDefaults(policy) ==
  PinDefaults(policy) \cup
  {d \in policy.pathDefaults : \A pin \in PinDefaults(policy) : pin[1] # d[1]}

ScalarEntry(field, leaf) ==
  [field |-> field, exact |-> TRUE, kind |-> "scalar", leaves |-> {leaf}, inner |-> {}]

Named(entries, field) == {a \in entries : a.field = field /\ a.exact}

(* A key that is there, null included, keeps its value.                    *)
Materialize(entries, defaults) ==
  entries \cup {ScalarEntry(d[1], d[2]) : d \in {m \in defaults : Named(entries, m[1]) = {}}}

(* A guarded field is found anywhere in the tree and in any spelling.      *)
CollectByField(entries, field) ==
  {a.leaves : a \in {n \in entries : n.field = field}} \cup
  {i[2] : i \in {n \in UNION {a.inner : a \in entries} : n[1] = field}}

(* Mutant: only the field's own spelling is looked at.                     *)
GuardDenies_Exact(guard, entries) ==
  \E found \in CollectByField({a \in entries : a.exact}, guard.field) :
    \/ guard.kind = "forbid"
    \/ guard.kind = "pin" /\ (found = {} \/ found \ guard.values # {})
    \/ guard.kind = "forbiddenValues" /\ found \cap guard.values # {}

GuardDenies(guard, entries) ==
  \E found \in CollectByField(entries, guard.field) :
    \/ guard.kind = "forbid"
    \/ guard.kind = "pin" /\ (found = {} \/ found \ guard.values # {})
    \/ guard.kind = "forbiddenValues" /\ found \cap guard.values # {}

EffectiveArguments(policy, arguments) ==
  [arguments EXCEPT !.entries = Materialize(@, ArgumentDefaults(policy))]

(* Mutant: the guards look before the defaults are filled in.              *)
EvaluateToolCall_BeforeDefaults(policy, arguments) ==
  /\ ~arguments.deep
  /\ \A guard \in policy.guards : ~GuardDenies(guard, arguments.entries)

EvaluateToolCall(policy, arguments) ==
  /\ ~arguments.deep
  /\ \A guard \in policy.guards :
       ~GuardDenies(guard, EffectiveArguments(policy, arguments).entries)

-----------------------------------------------------------------------------
(* The request an allowed call becomes: path parameters are required,      *)
(* query parameters optional, and all the rest is the body.                *)

(* A null in the path takes the template's default, behind the guards.     *)
LateDefaults(policy, entries) ==
  {ScalarEntry(d[1], d[2]) :
     d \in {p \in policy.pathDefaults :
              /\ p[1] \in policy.pathParams
              /\ \E a \in Named(entries, p[1]) : a.kind = "null"}}

PathEntries(policy, entries) ==
  LateDefaults(policy, entries) \cup
  {a \in entries :
     /\ a.field \in policy.pathParams /\ a.exact
     /\ Named(LateDefaults(policy, entries), a.field) = {}}

QueryEntries(policy, entries) ==
  {a \in entries : a.field \in policy.queryParams /\ a.exact}

BodyEntries(policy, entries) ==
  {a \in entries : ~(a.exact /\ a.field \in policy.pathParams \cup policy.queryParams)}

(* prepare() throws on anything the request cannot express.                *)
Expressible(policy, entries) ==
  /\ \A field \in policy.pathParams : Named(entries, field) # {}
  /\ \A a \in PathEntries(policy, entries) : a.kind = "scalar" /\ a.leaves \cap Dotted = {}
  /\ \A a \in QueryEntries(policy, entries) : a.kind \in {"scalar", "list"} /\ a.inner = {}
  /\ BodyEntries(policy, entries) # {} => policy.hasBody

HttpCall(policy, entries) ==
  [path  |-> PathEntries(policy, entries),
   query |-> QueryEntries(policy, entries),
   body  |-> BodyEntries(policy, entries)]

===============================================================================
