------------------------------ MODULE MCToolCall ------------------------------
(* Small instances of ToolCall for TLC.                                    *)
EXTENDS ToolCall, TLC

CONSTANTS t1, c1, c2, v1, userId, mailbox, raw, me, other, empty

MCOneTool == v1 :> {t1}

MCProduction(n) == [e \in Environments |-> IF e = "production" THEN n ELSE 0]

MCProductionTwice == MCProduction(2)

(* A mail tool: the user is pinned to "me" against the template's default, *)
(* the template's default mailbox is a forbidden one, and raw messages are *)
(* forbidden altogether.                                                   *)
MCPolicy ==
  [guards |-> {[field |-> userId, kind |-> "pin", values |-> {me}],
               [field |-> mailbox, kind |-> "forbiddenValues", values |-> {other}],
               [field |-> raw, kind |-> "forbid", values |-> {}]},
   pathDefaults |-> {<<userId, other>>, <<mailbox, other>>},
   pathParams |-> {userId, mailbox}, queryParams |-> {}, hasBody |-> TRUE]

MCVersionPolicy == v1 :> MCPolicy

Entry(field, exact, kind, leaves, inner) ==
  [field |-> field, exact |-> exact, kind |-> kind, leaves |-> leaves, inner |-> inner]

Object(entries) == [deep |-> FALSE, entries |-> entries]

MyMailbox == Entry(mailbox, TRUE, "scalar", {me}, {})

(* Nothing, so that the defaults decide; an allowed mailbox; also the      *)
(* pinned field once more in another spelling, and as a null; a value that *)
(* hides a raw message; a mailbox no path can name, and a null, which the  *)
(* path fills in late; an object nested beyond measure.                    *)
MCArguments ==
  {Object({}),
   Object({MyMailbox}),
   Object({MyMailbox, Entry(userId, FALSE, "scalar", {other}, {})}),
   Object({MyMailbox, Entry(userId, TRUE, "null", {}, {})}),
   Object({Entry(mailbox, TRUE, "object", {me}, {<<raw, {me}>>})}),
   Object({Entry(mailbox, TRUE, "scalar", {empty}, {})}),
   Object({Entry(mailbox, TRUE, "null", {}, {})}),
   [deep |-> TRUE, entries |-> {MyMailbox}]}

-----------------------------------------------------------------------------
(* One instance holds four smaller ones, which its first state chooses     *)
(* among: redeployments of one Connection, a choice between two, every     *)
(* kind of arguments, and an Angel that is deleted and created again while *)
(* a call of the first one is on its way.                                  *)
VARIABLE scenario

Scenarios == {"redeployment", "selection", "arguments", "recreation"}

Used == IF scenario = "selection" THEN Connections ELSE {c1}

Sent ==
  IF scenario = "arguments" THEN MCArguments ELSE {Object({MyMailbox})}

(* What the world may become, in the instance that was chosen.             *)
InScenario ==
  /\ Connections \ Used \subseteq healthy'
  /\ scenario # "redeployment" => healthy' = healthy
  /\ scenario \notin {"redeployment", "recreation"} => ~torn'
  /\ scenario = "recreation" => pc' # "push_keys"
  /\ \A e \in Environments :
       /\ scenario \notin {"redeployment", "recreation"} => minted'[e] <= 1
       /\ scenario # "recreation" => mintedKeys'[e] <= 1
       /\ pending'[e] # None => pending'[e].connections \subseteq Used
       /\ scenario \in {"arguments", "recreation"} => pendingAvailability'[e] = None

MCCallInit == CallInit /\ scenario \in Scenarios

MCCallNext ==
  /\ scenario' = scenario
  /\ \/ Control /\ InScenario
     \/ \E e \in Environments, tool \in Tools, arguments \in Sent :
          \E key \in 0..mintedKeys[e],
             selector \in (MintedRefs(e) \cap ((Nat \ {0}) \X Used)) \cup {None} :
            CallTool(e, key, tool, selector, arguments)
     \/ CallStep

MCCallSpec == MCCallInit /\ [][MCCallNext]_<<allVars, scenario>>
===============================================================================
