------------------------------ MODULE Mutations -------------------------------
(***************************************************************************)
(* Idempotency-Keys: what Management records of a mutation it served, and  *)
(* what a client that sends a mutation again, late, or with a key used     *)
(* before is answered.  The clients are the command line client, whose     *)
(* keys are digests of the request (only a deletion has a fresh one), the  *)
(* dashboard, whose keys the AccountRegistry derives when the request      *)
(* arrives, and callers of the management API with keys of their own.      *)
(*                                                                         *)
(* The commands are those of module Management seen from outside, for one  *)
(* slug and its production environment: how the gates are reached is left  *)
(* to that module, and here a command either completes or leaves what it   *)
(* had put when it stopped.  Any request may be served at any time and any *)
(* number of times, which covers retries, duplicates and delays.           *)
(***************************************************************************)
EXTENDS Naturals, Sequences, FiniteSets

CONSTANTS Artifacts,       \* artifacts a repository publishes
          KeyNames,      \* Idempotency-Keys callers of the API choose
          KeyTokens,     \* tokens the dashboard generates
          None,          \* no value
          MaxAngels, MaxDeployments, MaxRevision, MaxKeys  \* bounds

ASSUME MutationBounds ==
  /\ {MaxAngels, MaxDeployments, MaxRevision, MaxKeys} \subseteq Nat
  /\ None \notin Artifacts \cup KeyNames \cup KeyTokens

VARIABLES
  angel,        \* the incarnation that holds the slug, 0 when none does
  minted,       \* incarnations so far
  versions,     \* its Versions, one per source
  deployments,  \* its deployments, by the source each runs
  active, pending,         \* deployments of production, 0 for none
  availability,            \* [enabled, revision] of production
  pendingAvailability,     \* the change under repair
  keys,         \* production's keys: the request each was minted for
  records,      \* the idempotency records
  answered,     \* the request served last and what it was answered
  deletions     \* history: the key each incarnation was deleted with

angelVars == <<angel, minted, versions, deployments, active, pending,
               availability, pendingAvailability, keys>>
mutationVars == <<angelVars, records, answered, deletions>>

(* A request: its operation, the incarnation its path or its resolved body *)
(* names (0 when it names only the slug) and its argument.                 *)
Input(op, a, argument) == [op |-> op, angel |-> a, argument |-> argument]

Incarnations == 1 .. minted
Changes == {"pause", "resume"}

(* The routes of an Angel, of an environment of it, and of its keys; a     *)
(* rotation names a key.                                                   *)
AngelInputs ==
  {Input("ensure", 0, None), Input("delete", 0, None)}
  \cup {Input("publish", a, s) : a \in Incarnations, s \in Artifacts}

EnvironmentInputs ==
  {Input("deploy", a, s) : a \in Incarnations, s \in Artifacts}
  \cup {Input(op, a, None) : op \in Changes, a \in Incarnations}

KeyInputs(a) ==
  {Input("create_key", a, None)} \cup {Input("rotate_key", a, k) : k \in DOMAIN keys}

-----------------------------------------------------------------------------
(* Idempotency-Keys.                                                       *)

Key(by, name, input, generation) ==
  [by |-> by, name |-> name, input |-> input, generation |-> generation]

(* The command line client digests method, path and body.                  *)
DerivedKey(input) == Key("client", None, input, 0)

FreshKey(input) == Key("client", None, input, minted)

ChosenKey(name) == Key("caller", name, None, 0)

(* Mutant: the revision a change starts from is left out.                  *)
DemoMutationKey_NoGeneration(input, revision) == Key("dashboard", None, input, 0)

DemoMutationKey(input, revision) == Key("dashboard", None, input, revision)

(* Mutant: a retry is taken for another attempt.                           *)
KeyActionKey_PerAttempt(token, input) ==
  Key("dashboard", token, input, Len(keys))

KeyActionKey(token, input) == Key("dashboard", token, input, 0)

(* A stored response says which incarnation it is about and what it        *)
(* answers; that of a deletion says that it was one.                       *)
Record(key, input, about) == [key |-> key, fingerprint |-> input, angel |-> about]

IsDeleteReceipt(record) == record.fingerprint.op = "delete"

(* Mutant: only what is stored under the Angel's own path goes.            *)
Purged_ByOwner(a) == {r \in records : r.fingerprint.angel = a}

(* The records of a deleted Angel: by its coordinate path, under its own   *)
(* path, or owned by it.                                                   *)
Purged(a) ==
  {r \in records : /\ r.fingerprint.angel \in {0, a}
                   /\ ~IsDeleteReceipt(r)}

-----------------------------------------------------------------------------
(* What each operation does when it is not a replay.                       *)

Fresh ==
  /\ versions' = {} /\ deployments' = <<>>
  /\ active' = 0 /\ pending' = 0
  /\ availability' = [enabled |-> TRUE, revision |-> 0]
  /\ pendingAvailability' = None

Production == <<versions, deployments, active, pending, availability, pendingAvailability>>

Asked(key, input) == [by |-> key.by, name |-> key.name, input |-> input]

MintKey(list, key, input) ==
  Append(list, [for |-> Asked(key, input), key |-> key, status |-> "active"])

EnsureAngel(key, input) ==
  /\ input.op = "ensure"
  /\ IF angel # 0
     THEN UNCHANGED angelVars
     ELSE /\ minted < MaxAngels
          /\ angel' = minted + 1 /\ minted' = minted + 1
          /\ Fresh
          /\ keys' = MintKey(<<>>, key, input)

PublishVersion(input) ==
  /\ input.op = "publish" /\ input.angel = angel
  /\ versions' = versions \cup {input.argument}
  /\ UNCHANGED <<angel, minted, deployments, active, pending, availability,
                 pendingAvailability, keys>>

(* A new deployment, or the pending one when it is the same.               *)
NextDeployments(source) ==
  IF pending = 0 THEN Append(deployments, source) ELSE deployments

Deployable(input) ==
  /\ input.op = "deploy" /\ input.angel = angel
  /\ input.argument \in versions
  /\ pendingAvailability = None
  /\ IF pending = 0 THEN Len(deployments) < MaxDeployments
                    ELSE deployments[pending] = input.argument

DeployPending(input) ==
  /\ Deployable(input)
  /\ deployments' = NextDeployments(input.argument)
  /\ pending' = Len(deployments')
  /\ UNCHANGED <<angel, minted, versions, active, availability, pendingAvailability, keys>>

DeployVersion(input) ==
  /\ Deployable(input)
  /\ deployments' = NextDeployments(input.argument)
  /\ active' = Len(deployments')
  /\ pending' = 0
  /\ UNCHANGED <<angel, minted, versions, availability, pendingAvailability, keys>>

Changeable(input) ==
  /\ input.op \in Changes /\ input.angel = angel
  /\ active # 0 /\ pending = 0
  /\ pendingAvailability \in {None, input.op}
  /\ availability.revision < MaxRevision

ChangePending(input) ==
  /\ Changeable(input)
  /\ pendingAvailability' = input.op
  /\ UNCHANGED <<angel, minted, versions, deployments, active, pending, availability, keys>>

ChangeAvailability(input) ==
  /\ Changeable(input)
  /\ availability' = [enabled |-> input.op = "resume", revision |-> availability.revision + 1]
  /\ pendingAvailability' = None
  /\ UNCHANGED <<angel, minted, versions, deployments, active, pending, keys>>

CreateKey(key, input) ==
  /\ input.op = "create_key" /\ input.angel = angel
  /\ Len(keys) < MaxKeys
  /\ keys' = MintKey(keys, key, input)
  /\ UNCHANGED <<angel, minted, Production>>

RotateKey(key, input) ==
  /\ input.op = "rotate_key" /\ input.angel = angel
  /\ input.argument \in DOMAIN keys /\ keys[input.argument].status = "active"
  /\ Len(keys) < MaxKeys
  /\ keys' = MintKey([keys EXCEPT ![input.argument].status = "revoked"], key, input)
  /\ UNCHANGED <<angel, minted, Production>>

RevokeAll(input) ==
  /\ input.op = "delete" /\ angel # 0
  /\ keys' = [k \in DOMAIN keys |-> [keys[k] EXCEPT !.status = "revoked"]]
  /\ UNCHANGED <<angel, minted, Production>>

DeleteAngel(input) ==
  /\ input.op = "delete" /\ angel # 0
  /\ angel' = 0 /\ Fresh /\ keys' = <<>>
  /\ UNCHANGED minted

(* Everything a command does, up to the response.                          *)
Perform(key, input) ==
  \/ EnsureAngel(key, input) \/ PublishVersion(input) \/ DeployVersion(input)
  \/ ChangeAvailability(input) \/ CreateKey(key, input) \/ RotateKey(key, input)
  \/ DeleteAngel(input)

(* Mutant: a new key is put before its response is.                        *)
LeaveBehind_Keys(key, input) ==
  \/ DeployPending(input) \/ DeployVersion(input)
  \/ ChangePending(input) \/ ChangeAvailability(input)
  \/ RevokeAll(input)
  \/ CreateKey(key, input)

(* What a command that stopped may have put before its record: a change to *)
(* be repaired, a deployment or change that is in force, revoked keys.     *)
LeaveBehind(key, input) ==
  \/ DeployPending(input) \/ DeployVersion(input)
  \/ ChangePending(input) \/ ChangeAvailability(input)
  \/ RevokeAll(input)

-----------------------------------------------------------------------------

MutationsInit ==
  /\ angel = 0 /\ minted = 0 /\ versions = {} /\ deployments = <<>>
  /\ active = 0 /\ pending = 0
  /\ availability = [enabled |-> TRUE, revision |-> 0]
  /\ pendingAvailability = None
  /\ keys = <<>> /\ records = {} /\ answered = None /\ deletions = {}

(* An Angel that is gone answers 404 before any record is looked up.       *)
Addressed(input) ==
  input.op \in {"ensure", "delete"} \/ (angel # 0 /\ input.angel = angel)

(* A key used before with another input is refused with 409.               *)
Replays(key, input) == {r \in records : r.key = key /\ r.fingerprint = input}

Unused(key) == \A r \in records : r.key # key

Replay(key, input) ==
  /\ Addressed(input)
  /\ \E r \in Replays(key, input) :
       answered' = [key |-> key, input |-> input, to |-> r.fingerprint, angel |-> r.angel]
  /\ UNCHANGED <<angelVars, records, deletions>>

Mutate(key, input) ==
  LET about == IF input.op = "ensure" THEN angel' ELSE angel
      kept == IF input.op = "delete" THEN records \ Purged(angel) ELSE records
  IN /\ Addressed(input) /\ Unused(key)
     /\ Perform(key, input)
     /\ records' = kept \cup {Record(key, input, about)}
     /\ answered' = [key |-> key, input |-> input, to |-> input, angel |-> about]
     /\ deletions' = IF input.op = "delete"
                     THEN deletions \cup {[key |-> key, angel |-> angel]} ELSE deletions

(* The command stopped, or its answer was lost: nothing is recorded.       *)
CutShort(key, input) ==
  /\ Addressed(input) /\ Unused(key)
  /\ LeaveBehind(key, input)
  /\ answered' = None
  /\ UNCHANGED <<records, deletions>>

Serve(key, input) == Mutate(key, input) \/ Replay(key, input) \/ CutShort(key, input)

(* angel publish: ensure, publish, deploy.  angel delete has a random key, *)
(* which no other request has.                                             *)
ClientRequest ==
  \E input \in AngelInputs \cup EnvironmentInputs :
    IF input.op = "delete"
    THEN LET key == FreshKey(input) IN Mutate(key, input) \/ CutShort(key, input)
    ELSE input.op \notin Changes /\ Serve(DerivedKey(input), input)

(* A request of the management API, with the key its caller chose.         *)
CallerRequest ==
  \E name \in KeyNames :
    \E input \in AngelInputs \cup EnvironmentInputs \cup KeyInputs(angel) :
      Serve(ChosenKey(name), input)

(* A pause or resume from the dashboard that finds its work done returns   *)
(* at once, without a record.                                              *)
Already(input) ==
  /\ pendingAvailability = None
  /\ availability.enabled = (input.op = "resume")

DashboardChange ==
  \E op \in Changes :
    LET input == Input(op, angel, None)
        key == DemoMutationKey(input, availability.revision)
    IN /\ angel # 0
       /\ \/ /\ Already(input)
             /\ answered' = [key |-> key, input |-> input, to |-> input, angel |-> angel]
             /\ UNCHANGED <<angelVars, records, deletions>>
          \/ ~Already(input) /\ Serve(key, input)

DashboardKey ==
  /\ angel # 0
  /\ \E token \in KeyTokens, input \in KeyInputs(angel) : Serve(KeyActionKey(token, input), input)

Reset ==
  /\ angel' = 0 /\ Fresh /\ keys' = <<>>
  /\ records' = {} /\ answered' = None /\ deletions' = {}
  /\ UNCHANGED minted

MutationsNext == ClientRequest \/ CallerRequest \/ DashboardChange \/ DashboardKey \/ Reset

MutationsSpec == MutationsInit /\ [][MutationsNext]_mutationVars

-----------------------------------------------------------------------------
(* A request for a new key that is repeated mints one key, whichever of    *)
(* its answers were lost (keyAction, mutate).                              *)
OneKeyPerRequest ==
  \A j, k \in DOMAIN keys : keys[j].for = keys[k].for => j = k

(* A key that exists can still be told to whoever asked for it: the        *)
(* response with its plaintext is stored by the put that stores the key.   *)
KeyHasItsAnswer ==
  \A k \in DOMAIN keys : \E r \in records : r.key = keys[k].key

(* A slug that was deleted and taken again keeps its two Angels apart: an  *)
(* answer is about the Angel that holds the slug now, unless it is a       *)
(* deletion's; and a deletion, however late and however often it is        *)
(* repeated, destroys the Angel it was sent for and no later one           *)
(* (mutate, deleteAngel).                                                  *)
RightIncarnation ==
  /\ answered # None =>
       /\ answered.to = answered.input
       /\ answered.input.op # "delete" => angel # 0 /\ answered.angel = angel
  /\ \A d, e \in deletions : d.key = e.key => d.angel = e.angel

(* A pause or resume from the dashboard that is answered holds.            *)
ChangeHolds ==
  answered # None /\ answered.input.op \in Changes /\ answered.key.by = "dashboard" =>
    availability.enabled = (answered.input.op = "resume")

(* When the command line client says that a source was published to        *)
(* production, production runs it.                                         *)
PublishedIsActive ==
  answered # None /\ answered.input.op = "deploy" /\ answered.key.by = "client" =>
    active # 0 /\ deployments[active] = answered.input.argument
=============================================================================
