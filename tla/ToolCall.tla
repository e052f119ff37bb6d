------------------------------- MODULE ToolCall -------------------------------
(***************************************************************************)
(* A tool call crosses two Workers: the Gateway (src/src/workers/          *)
(* gateway.ts) asks its gate, the Broker (src/src/workers/broker.ts) asks  *)
(* the other one and calls the provider.  Each gate decides on its own     *)
(* copy of the policy and leaves a receipt; the Broker goes on only when   *)
(* its receipt says the same as the Gateway's.  Meanwhile Management moves *)
(* the gates one after the other: this module runs a call beside every     *)
(* command of module Management.                                           *)
(*                                                                         *)
(* Every await of the call is a step, and the call can be cut short at     *)
(* each.  (A Gateway that gives up while the Broker goes on changes no     *)
(* more than one whose answer is lost at the end.)  Calls run one at a     *)
(* time here: a gate evaluates one request at a time, and calls share      *)
(* nothing but the receipts and the health of a Connection.                *)
(***************************************************************************)
EXTENDS Management, Decision

CONSTANTS Arguments,      \* the arguments objects agents send
          VersionPolicy   \* what each Version seals for its tools

(* The keys of an object are its own once each, and a template gives a     *)
(* parameter one default.                                                  *)
ASSUME ArgumentsAssumption ==
  /\ Arguments \subseteq ArgumentObjects
  /\ \A object \in Arguments : \A a, b \in object.entries :
       a.exact /\ b.exact /\ a.field = b.field => a = b

(* A guard pins one value, and no tool is guarded twice on a field.        *)
ASSUME PoliciesAssumption ==
  /\ VersionPolicy \in [Versions -> ToolPolicies]
  /\ \A v \in Versions : LET policy == VersionPolicy[v] IN
       /\ \A guard \in policy.guards :
            guard.kind = "pin" => \E leaf \in Leaves : guard.values = {leaf}
       /\ \A c, d \in ArgumentDefaults(policy) : c[1] = d[1] => c = d
       /\ \A c, d \in policy.pathDefaults : c[1] = d[1] => c = d
       /\ IsFiniteSet(policy.pathParams)

ASSUME ConnectionsAssumption == IsFiniteSet(Connections)

(* A request names a tool and, with angel_connection, a Connection ref it  *)
(* was listed at some time.                                                *)
CallRequests ==
  [environment : Environments, key : Nat, tool : Tools, selector : Refs \cup {None},
   arguments : ArgumentObjects]

(* What a receipt says and the two Workers compare.                        *)
ReceiptIdentities ==
  [deployment : Deployments, availability : Availabilities, tool : Tools, connectionRef : Refs]

(* null is neither a request nor a receipt nor a selected Connection.      *)
ASSUME RequestsAssumption ==
  /\ None \notin CallRequests /\ None \notin Refs
  /\ None \notin ReceiptIdentities /\ None \notin {"allow", "deny"}

VARIABLES
  phase,     \* the next step of the current call
  request,   \* what it asks
  expected,  \* identity of the Gateway's receipt, sent to the Broker
  found,     \* identity of the Broker's receipt
  sent,      \* the arguments as the last gate let them through
  answer,    \* what the agent was told last
  receipts,  \* the receipt of the last call in each gate's state
  at         \* the environment it went to

callVars == <<phase, request, expected, found, sent, answer>>
allVars == <<vars, callVars, at, receipts>>

-----------------------------------------------------------------------------
(* What one gate decides.                                                  *)

PolicyAt(g, e) == VersionPolicy[installed[g][e].version]

ActiveRefs(g, e, tool) ==
  {b[2] : b \in {n \in RuntimeBindings(installed[g][e]) :
                   /\ n[1] = tool
                   /\ IsToolConnectionEnabled(gateAvailability[g][e], tool, n[2])}}

(* The Connection a call goes to: the selected one if it is active, or the *)
(* only active one.  Empty when the selection is refused.                  *)
Selection(g, e, tool, selector) ==
  IF selector # None THEN ActiveRefs(g, e, tool) \cap {selector}
  ELSE IF Cardinality(ActiveRefs(g, e, tool)) = 1 THEN ActiveRefs(g, e, tool)
  ELSE {}

(* deploymentId, version, policyDigest and bindingsDigest are those of the *)
(* deployment; the availability digest covers the whole overlay, revision  *)
(* included.                                                               *)
ReceiptIdentity(g, e, tool, ref) ==
  [deployment |-> installed[g][e], availability |-> gateAvailability[g][e],
   tool |-> tool, connectionRef |-> ref]

(* Mutant: the overlay is left out of the comparison.                      *)
ReceiptMismatch_DeploymentOnly(expect, actual) ==
  \/ expect.deployment # actual.deployment
  \/ expect.connectionRef # actual.connectionRef

ReceiptMismatch(expect, actual) == expect # actual

(* Mutant: the Gateway leaves the receipt of what it allows to the Broker. *)
AppendReceipt_ByBroker(g, decision) ==
  receipts' = [receipts EXCEPT ![g] =
                 IF g = "gateway" /\ decision = "allow" THEN @ ELSE decision]

(* evaluate() ends with exactly one receipt, for a denial as for an allow, *)
(* and puts it; a request the gate throws on leaves none.                  *)
AppendReceipt(g, decision) == receipts' = [receipts EXCEPT ![g] = decision]

-----------------------------------------------------------------------------
CallInit ==
  /\ Init
  /\ phase = "none"
  /\ request = None
  /\ expected = None
  /\ found = None
  /\ sent = None
  /\ answer = None
  /\ receipts = [g \in Gates |-> None]
  /\ at = "production"

(* The call is over, and with it what the two Workers knew of it.          *)
Finish(outcome) ==
  /\ phase' = "none"
  /\ answer' = outcome
  /\ request' = None
  /\ expected' = None
  /\ found' = None
  /\ sent' = None

(* A request is first checked against a snapshot of the Gateway's keys.    *)
CallTool(e, key, tool, selector, arguments) ==
  /\ phase = "none"
  /\ receipts' = [g \in Gates |-> None]
  /\ at' = e
  /\ IF key \in gatewayKeys[e]
       THEN /\ phase' = "gateway"
            /\ answer' = None
            /\ request' = [environment |-> e, key |-> key, tool |-> tool,
                           selector |-> selector, arguments |-> arguments]
            /\ UNCHANGED <<expected, found, sent>>
       ELSE Finish("unauthorized")
  /\ UNCHANGED vars

Authenticated(e, key) == key \in gatewayKeys[e]

(* The Gateway's gate denies the call.                                     *)
GatewayDenies ==
  LET e == request.environment
      selected == Selection("gateway", e, request.tool, request.selector)
  IN  /\ phase = "gateway"
      /\ installed["gateway"][e] # None
      /\ AppendReceipt("gateway", "deny")
      /\ \/ /\ ~Authenticated(e, request.key)
            /\ Finish("unauthorized")
         \/ /\ Authenticated(e, request.key)
            /\ request.tool \notin ToolsOf(installed["gateway"][e]) \/ selected = {}
            /\ Finish("denied")
         \/ /\ Authenticated(e, request.key)
            /\ selected # {}
            /\ ~EvaluateToolCall(PolicyAt("gateway", e), request.arguments)
            /\ Finish("denied")
      /\ UNCHANGED <<vars, at>>

(* It allows it, and the Gateway hands the call to the Broker with the     *)
(* identity of this receipt and the Connection it selected.                *)
GatewayAllows ==
  LET e == request.environment
  IN  /\ phase = "gateway"
      /\ installed["gateway"][e] # None
      /\ Authenticated(e, request.key)
      /\ EvaluateToolCall(PolicyAt("gateway", e), request.arguments)
      /\ sent' = EffectiveArguments(PolicyAt("gateway", e), request.arguments)
      /\ \E ref \in Selection("gateway", e, request.tool, request.selector) :
           expected' = ReceiptIdentity("gateway", e, request.tool, ref)
      /\ AppendReceipt("gateway", "allow")
      /\ phase' = "broker"
      /\ UNCHANGED <<vars, request, found, answer, at>>

-----------------------------------------------------------------------------
(* The Broker's part.  Its gate needs no key and takes the Connection the  *)
(* Gateway selected.                                                       *)

BrokerSelection(e) == Selection("broker", e, request.tool, expected.connectionRef)

BrokerDecision(e) ==
  IF BrokerSelection(e) # {} /\ EvaluateToolCall(PolicyAt("broker", e), sent)
    THEN "allow" ELSE "deny"

(* A refused selection leaves the Connection out of the receipt.           *)
BrokerIdentity(e) ==
  ReceiptIdentity("broker", e, request.tool,
                  IF BrokerSelection(e) = {} THEN None ELSE expected.connectionRef)

(* The receipts are compared before the decision is looked at; then the    *)
(* request is prepared, and a call it cannot express ends here.            *)
EvaluateBroker ==
  LET e == request.environment
      mismatch == ReceiptMismatch(expected, BrokerIdentity(e))
      effective == EffectiveArguments(PolicyAt("broker", e), sent)
  IN  /\ phase = "broker"
      /\ installed["broker"][e] # None
      /\ AppendReceipt("broker", BrokerDecision(e))
      /\ \/ /\ mismatch
            /\ Finish("mismatch")
         \/ /\ ~mismatch
            /\ BrokerDecision(e) = "deny"
            /\ Finish("denied")
         \/ /\ ~mismatch
            /\ BrokerDecision(e) = "allow"
            /\ ~Expressible(PolicyAt("broker", e), effective.entries)
            /\ Finish("failed")
         \/ /\ ~mismatch
            /\ BrokerDecision(e) = "allow"
            /\ Expressible(PolicyAt("broker", e), effective.entries)
            /\ found' = BrokerIdentity(e)
            /\ sent' = effective
            /\ phase' = "lease"
            /\ UNCHANGED <<request, expected, answer>>
      /\ UNCHANGED <<vars, at>>

(* The credential of the Connection is leased for this call, and only from *)
(* a healthy Connection.                                                   *)
Lease ==
  /\ phase = "lease"
  /\ found.connectionRef[2] \in healthy
  /\ phase' = "provider"
  /\ UNCHANGED <<vars, request, expected, found, sent, answer, at, receipts>>

(* The provider executes the call.  Whether its answer comes back is       *)
(* another matter: see Fail.                                               *)
Invoke ==
  /\ phase = "provider"
  /\ phase' = "respond"
  /\ UNCHANGED <<vars, request, expected, found, sent, answer, at, receipts>>

(* Google refuses the refresh token: the Broker records the Connection as  *)
(* failing and the call fails.                                             *)
RefreshRefused ==
  /\ phase = "provider"
  /\ Finish("failed")
  /\ healthy' = healthy \ {found.connectionRef[2]}
  /\ UNCHANGED <<recordVars, gateVars, commandVars, minted, mintedKeys, torn, at, receipts>>

(* The Gateway compares the receipts once more before it answers.          *)
Respond ==
  /\ phase = "respond"
  /\ Finish(IF ReceiptMismatch(expected, found) THEN "mismatch" ELSE "served")
  /\ UNCHANGED <<vars, at, receipts>>

(* Any step can fail instead: a gate without installation throws, as does  *)
(* the lease of a Connection that is not healthy; requests, answers and    *)
(* Workers are lost.                                                       *)
Fail ==
  /\ phase # "none"
  /\ Finish("failed")
  /\ UNCHANGED <<vars, at, receipts>>

(* A reset puts a new state in place of the gate's, receipts included;     *)
(* nothing else takes the installation away.                               *)
Control ==
  /\ Next
  /\ receipts' = [g \in Gates |->
                    IF installed'[g][at] = None THEN None ELSE receipts[g]]
  /\ UNCHANGED <<callVars, at>>

CallStep ==
  \/ GatewayDenies \/ GatewayAllows
  \/ EvaluateBroker \/ Lease \/ Invoke \/ RefreshRefused \/ Respond
  \/ Fail

MintedRefs(e) == (1..minted[e]) \X Connections

CallNext ==
  \/ Control
  \/ \E e \in Environments, tool \in Tools, arguments \in Arguments :
       \E key \in 0..mintedKeys[e], selector \in MintedRefs(e) \cup {None} :
         CallTool(e, key, tool, selector, arguments)
  \/ CallStep

CallSpec == CallInit /\ [][CallNext]_allVars

-----------------------------------------------------------------------------
(* Properties.                                                             *)

(* What both gates of an environment permit, when they enforce the same.   *)
CommonPolicy(e) ==
  {p \in UNION {{<<tool, ref, v>> : ref \in ActiveRefs("broker", e, tool)}
                   : tool \in Tools, v \in Versions} :
     /\ installed["broker"][e] = installed["gateway"][e]
     /\ gateAvailability["broker"][e] = gateAvailability["gateway"][e]
     /\ p[3] = installed["broker"][e].version}

(* What decides about the arguments: the Versions that accept them.        *)
AskedRequest ==
  IF request = None THEN None
  ELSE [environment |-> request.environment, key |-> request.key, tool |-> request.tool,
        selector |-> request.selector,
        fits |-> {v \in Versions : EvaluateToolCall(VersionPolicy[v], request.arguments)}]

Stage ==
  CASE phase = "none" -> "none"
    [] phase = "gateway" -> "asked"
    [] phase = "broker" -> "admitted"
    [] phase \in {"lease", "provider"} -> "decided"
    [] phase = "respond" -> "executed"

Contract == INSTANCE CallContract WITH
  NoSelector <- None,
  keys <- gatewayKeys,
  policy <- [e \in Environments |-> CommonPolicy(e)],
  closing <- torn,
  stage <- Stage,
  asked <- AskedRequest,
  chosen <- IF expected = None THEN None ELSE expected.connectionRef,
  told <- answer

(* A call executes as if Gateway and Broker had decided together, at one   *)
(* moment and under one policy, although Management moves them apart and   *)
(* the two decide at different times; a key was accepted before; no        *)
(* request is executed twice; and an agent that is refused can rely on it  *)
(* that nothing was executed.                                              *)
OneDecision == Contract!Spec

(* A pause that Management has answered holds for every call that has not  *)
(* passed the Broker: unless a change is still under repair, the record    *)
(* permits what the Broker lets through.                                   *)
RecordPermits(e, tool, ref) ==
  /\ active[e] # None
  /\ <<tool, ref>> \in RuntimeBindings(active[e])
  /\ IsToolConnectionEnabled(availability[e], tool, ref)

PauseTakesEffect ==
  [][phase = "broker" /\ phase' = "lease" =>
       LET e == request.environment
       IN  torn \/ repair[e] # "none" \/ RecordPermits(e, request.tool, expected.connectionRef)
    ]_allVars

(* The Broker's gate decides on what the Gateway's gate let through, and   *)
(* with the same policy it finds nothing to deny or to add: the arguments  *)
(* that were guarded and recorded are those that are sent.                 *)
SameArguments ==
  phase = "broker" /\ installed["broker"][request.environment] = expected.deployment =>
    LET policy == VersionPolicy[expected.deployment.version]
    IN  /\ EvaluateToolCall(policy, sent)
        /\ EffectiveArguments(policy, sent) = sent

(* Nothing a guard excludes is in any part of the provider request, in any *)
(* spelling and at any depth; a pinned field has its value; and every      *)
(* argument is in exactly one part.  The one exception the code makes is a *)
(* null path parameter: the template's default takes its place after the   *)
(* guards have looked (google-provider.ts:102).                            *)
GuardsHoldAtProvider ==
  phase \in {"lease", "provider"} =>
    LET policy == VersionPolicy[found.deployment.version]
        http == HttpCall(policy, sent.entries)
        all == http.path \cup http.query \cup http.body
        examined == all \ LateDefaults(policy, sent.entries)
    IN  /\ examined \subseteq sent.entries
        /\ \A a \in sent.entries \ all : a.kind = "null" /\ Named(http.path, a.field) # {}
        /\ Cardinality(http.path) = Cardinality(policy.pathParams)
        /\ \A guard \in policy.guards : \A leaves \in CollectByField(examined, guard.field) :
             CASE guard.kind = "forbid" -> FALSE
               [] guard.kind = "pin" -> leaves = guard.values
               [] guard.kind = "forbiddenValues" -> leaves \cap guard.values = {}

(* decision.ts:33-35: defaults are "Materialized BEFORE guards so a        *)
(* default can never insert a value the guards didn't examine - the object *)
(* that is guarded, ledgered, and forwarded is one and the same": every    *)
(* argument of the provider request is one of those the gates decided on.  *)
ForwardedIsGuarded ==
  phase \in {"lease", "provider"} =>
    LET http == HttpCall(VersionPolicy[found.deployment.version], sent.entries)
    IN  http.path \cup http.query \cup http.body \subseteq sent.entries

(* The receipts of the two gates can be read side by side: the Broker has  *)
(* no receipt of a call that the Gateway denied, and none that allows a    *)
(* call unless the Gateway has recorded that it allowed it; both have      *)
(* recorded what the provider was asked to do, until a teardown resets     *)
(* them.  (A call that outlives its Angel can leave a denial at the Broker *)
(* of the next one, whose Gateway has no receipt of it.)                   *)
ReceiptsPair ==
  /\ receipts["broker"] # None => receipts["gateway"] # "deny"
  /\ ~torn /\ receipts["broker"] = "allow" => receipts["gateway"] = "allow"
  /\ answer = "served" => receipts["broker"] \in {None, "allow"}

=============================================================================
