------------------------------- MODULE Custody -------------------------------
(***************************************************************************)
(* The credentials of one Account: the Broker's Credential Vault, the      *)
(* OAuth states and the copies of the vault the AccountRegistry keeps, and *)
(* the requests that change them.                                          *)
(*                                                                         *)
(* Each vault request runs alone (blockConcurrencyWhile), each registry    *)
(* command too, and each of them is one step here.  A request of a user or *)
(* an agent is a chain of such steps and of requests to Google; the chains *)
(* interleave, and any of them may stop between two steps.                 *)
(*                                                                         *)
(* Google is external.  A refresh token is the number of the consent that  *)
(* minted it; revoking one withdraws the whole grant, so every token of    *)
(* the same Google identity and Provider App (OAuth client) dies with it.  *)
(***************************************************************************)
EXTENDS Naturals, Sequences, FiniteSets, Functions

CONSTANTS Connections,      \* the ids minted for Connections, used once each
          Nicknames, Apps,  \* Connection nicknames, Provider Apps
          Identities,       \* Google subjects
          Requests,         \* request handlers at work at one time
          MaxStates,        \* bound: OAuth states issued
          MaxTokens         \* bound: refresh tokens minted

ASSUME CustodyBounds == MaxStates \in Nat /\ MaxTokens \in Nat

VARIABLES
  providerApps,  \* vault: the Provider Apps stored
  vault,         \* vault: the Connections stored
  states,        \* registry: every OAuth state issued, and what became of it
  copy,          \* registry: the summaries kept under "providers"
  managed,       \* registry: Management's Connections and their health
  referenced,    \* registry: the Connections some Deployment binds
  request,       \* the handlers at work
  grants,        \* Google: whose consent minted each refresh token
  live,          \* Google: the refresh tokens it honours
  withdrawn,     \* history: the tokens of the grants a user or Google withdrew
  raced          \* history: Connections reauthorized while a revocation or
                 \* a removal of theirs was at work

custodyVars == <<providerApps, vault, states, copy, managed, referenced,
                 request, grants, live, withdrawn, raced>>
google == <<grants, live, withdrawn>>
registry == <<states, copy, managed, referenced>>

Healths == {"healthy", "revoked", "error"}
Tokens == 1 .. Len(grants)

SummaryOf(connection) ==
  [nickname |-> connection.nickname, app |-> connection.app,
   health |-> connection.health]

VaultList == [c \in DOMAIN vault |-> SummaryOf(vault[c])]

ManagedHealth(health) == IF health = "healthy" THEN "healthy" ELSE "error"

(* The fresh list, and a tombstone for each Connection it no longer names  *)
(* but a Deployment still does.                                            *)
ReconcileManagementConnections(list) ==
  [c \in DOMAIN list \cup (DOMAIN managed \cap referenced) |->
     IF c \in DOMAIN list THEN ManagedHealth(list[c].health) ELSE "error"]

(* ----------------------------- request handlers ------------------------ *)

Nothing == <<>>  \* no list, as of no Connections
Idle == [op |-> "none", at |-> "idle", connection |-> {}, state |-> 0,
         token |-> 0, list |-> Nothing]

Begin(r, op, at, c) == [Idle EXCEPT !.op = op, !.at = at, !.connection = {c}]
Become(r, new) == request' = [request EXCEPT ![r] = new]
Finish(r) == Become(r, Idle)
Goto(r, at) == Become(r, [request[r] EXCEPT !.at = at])

Free(r) == request[r] = Idle
At(r, ops, at) == request[r].op \in ops /\ request[r].at = at
Target(r) == CHOOSE c \in Connections : request[r].connection = {c}

(* A deployment holds the registry's queue while it asks the Broker.       *)
RegistryFree == \A r \in Requests : request[r].op # "deploy"

CustodyInit ==
  /\ providerApps = {} /\ vault = Nothing
  /\ states = <<>> /\ copy = Nothing /\ managed = Nothing /\ referenced = {}
  /\ request = [r \in Requests |-> Idle]
  /\ grants = <<>> /\ live = {} /\ withdrawn = {} /\ raced = {}

(* An answer that never comes, a Worker stopped between two awaits.        *)
Abandon(r) ==
  /\ ~Free(r)
  /\ Finish(r)
  /\ UNCHANGED <<providerApps, vault, registry, google, raced>>

(* ---------------------------- starting consent ------------------------- *)

StoreProviderApp(a) ==
  /\ a \notin providerApps
  /\ providerApps' = providerApps \cup {a}
  /\ UNCHANGED <<vault, registry, request, google, raced>>

PutState(r, state) ==
  /\ RegistryFree
  /\ Len(states) < MaxStates
  /\ states' = Append(states, state)
  /\ Become(r, [Idle EXCEPT !.op = "authorize", !.at = "put",
                            !.state = Len(states) + 1])
  /\ UNCHANGED <<providerApps, vault, copy, managed, referenced, google, raced>>

NewState(c, n, a, flow) ==
  [connection |-> c, nickname |-> n, app |-> a, flow |-> flow, status |-> "put"]

(* A fresh id per authorization; the Provider App may not exist.           *)
BeginAuthorize(r, c, n, a) ==
  /\ Free(r)
  /\ \A s \in DOMAIN states : states[s].connection # c
  /\ PutState(r, NewState(c, n, a, "create"))

(* The Broker builds the consent URL from the app it leases.               *)
Authorize(r) ==
  /\ At(r, {"authorize"}, "put")
  /\ LET s == request[r].state IN
       states' = IF states[s].app \in providerApps /\ states[s].status = "put"
                 THEN [states EXCEPT ![s].status = "offered"] ELSE states
  /\ Finish(r)
  /\ UNCHANGED <<providerApps, vault, copy, managed, referenced, google, raced>>

(* Ten minutes pass.                                                       *)
ExpireState(s) ==
  /\ states[s].status \in {"put", "offered"}
  /\ states' = [states EXCEPT ![s].status = "expired"]
  /\ UNCHANGED <<providerApps, vault, copy, managed, referenced, request,
                 google, raced>>

(* --------------------------- listing, reconciling ---------------------- *)

(* GET /api/connections, GET /api/connections/:id and the beginning of a   *)
(* reauthorization: ask the Broker, then tell the registry.                *)
BeginList(r, wanted) ==
  /\ Free(r)
  /\ Become(r, [Idle EXCEPT !.op = "list", !.at = "fetched",
                            !.connection = wanted, !.list = VaultList])
  /\ UNCHANGED <<providerApps, vault, registry, google, raced>>

\* Mutant: the list is merged into the copy instead of replacing it.
ReconcileProviderConnections_Merged(list) ==
  /\ copy' = [c \in DOMAIN list \cup DOMAIN copy |->
                IF c \in DOMAIN list THEN list[c] ELSE copy[c]]
  /\ managed' = ReconcileManagementConnections(list)

ReconcileProviderConnections(list) ==
  /\ copy' = list
  /\ managed' = ReconcileManagementConnections(list)

Reconcile(r) ==
  /\ At(r, {"list"}, "fetched")
  /\ RegistryFree
  /\ ReconcileProviderConnections(request[r].list)
  /\ IF request[r].connection # {} /\ request[r].connection \subseteq DOMAIN request[r].list
     THEN Become(r, [request[r] EXCEPT !.at = "found",
                       !.list = Restrict(request[r].list, request[r].connection)])
     ELSE Finish(r)
  /\ UNCHANGED <<providerApps, vault, states, referenced, google, raced>>

(* The Connection found in the list is asked for again; at the bound the   *)
(* request ends as it is.                                                  *)
BeginReauthorize(r) ==
  /\ At(r, {"list"}, "found")
  /\ LET found == request[r].list[Target(r)] IN
       \/ PutState(r, NewState(Target(r), found.nickname, found.app, "reauth"))
       \/ /\ Len(states) = MaxStates
          /\ Finish(r)
          /\ UNCHANGED <<providerApps, vault, registry, google, raced>>

(* A deployment: the registry asks the Broker within its queue, reconciles *)
(* and binds a Connection Management now holds as healthy.                 *)
BeginDeploy(r, c) ==
  /\ Free(r)
  /\ RegistryFree
  /\ Become(r, [Begin(r, "deploy", "fetched", c) EXCEPT !.list = VaultList])
  /\ UNCHANGED <<providerApps, vault, registry, google, raced>>

Deploy(r) ==
  /\ At(r, {"deploy"}, "fetched")
  /\ ReconcileProviderConnections(request[r].list)
  /\ referenced' = referenced \cup
       {c \in request[r].connection \cap DOMAIN managed' : managed'[c] = "healthy"}
  /\ Finish(r)
  /\ UNCHANGED <<providerApps, vault, states, google, raced>>

(* -------------------------------- callback ----------------------------- *)

\* Mutant: the state is marked used in memory and never put.
TakeState_Kept(s) == UNCHANGED states

(* The registry takes the state; the user consented as some identity.      *)
TakeState(s) == states' = [states EXCEPT ![s].status = "taken"]

BeginCallback(r, s) ==
  /\ Free(r)
  /\ RegistryFree
  /\ states[s].status = "offered"
  /\ TakeState(s)
  /\ Become(r, [Begin(r, "callback", "taken", states[s].connection) EXCEPT !.state = s])
  /\ UNCHANGED <<providerApps, vault, copy, managed, referenced, google, raced>>

Grant(t) == <<grants[t].identity, grants[t].app>>
SameGrant(t) == {u \in Tokens : Grant(u) = Grant(t)}

\* Mutant: the unused grant is revoked, as tidiness would have it.
RejectGrant_Revoked(t) ==
  live' = {u \in live : Grant(u) # <<grants'[t].identity, grants'[t].app>>}

(* Google mints a token whatever the Broker then makes of the scopes; a    *)
(* grant short of the Provider App's scopes is not stored, and not revoked.*)
RejectGrant(t) == live' = live \cup {t}

Exchange(r, i, scoped) ==
  LET state == states[request[r].state]
      t == Len(grants) + 1
  IN /\ At(r, {"callback"}, "taken")
     /\ Len(grants) < MaxTokens
     /\ grants' = Append(grants, [identity |-> i, app |-> state.app,
                                  state |-> request[r].state])
     /\ IF scoped
        THEN /\ live' = live \cup {t}
             /\ Become(r, [request[r] EXCEPT !.at = "exchanged", !.token = t])
        ELSE /\ RejectGrant(t)
             /\ Finish(r)
     /\ UNCHANGED <<providerApps, vault, registry, withdrawn, raced>>

(* storeConnection: a new id, a nickname no other Connection has.          *)
Storable(c, new) ==
  /\ c \notin DOMAIN vault
  /\ \A other \in DOMAIN vault : vault[other].nickname # new.nickname

\* Mutant: what a reauthorization does not find it stores anew.
Replaceable_Upsert(c, new) ==
  c \in DOMAIN vault =>
    /\ vault[c].app = new.app
    /\ vault[c].identity = new.identity
    /\ vault[c].nickname = new.nickname

(* replaceConnection: the same app, the same Google identity and nickname. *)
Replaceable(c, new) ==
  /\ c \in DOMAIN vault
  /\ vault[c].app = new.app
  /\ vault[c].identity = new.identity
  /\ vault[c].nickname = new.nickname

Revoking(c) ==
  \E r \in Requests : request[r].op \in {"revoke", "remove"}
                      /\ request[r].connection = {c}

(* A rejected grant is left as it is at Google.                            *)
Store(r) ==
  LET c == Target(r)
      t == request[r].token
      state == states[request[r].state]
      new == [nickname |-> state.nickname, app |-> state.app,
              identity |-> grants[t].identity, token |-> t, health |-> "healthy"]
      accepted == IF state.flow = "create" THEN Storable(c, new)
                                           ELSE Replaceable(c, new)
  IN /\ At(r, {"callback"}, "exchanged")
     /\ IF accepted
        THEN /\ vault' = [d \in DOMAIN vault \cup {c} |->
                            IF d = c THEN new ELSE vault[d]]
             /\ Become(r, [request[r] EXCEPT !.at = "stored",
                             !.list = [d \in {c} |-> SummaryOf(new)]])
             /\ raced' = IF Revoking(c) THEN raced \cup {c} ELSE raced \ {c}
        ELSE /\ Finish(r)
             /\ UNCHANGED <<vault, raced>>
     /\ UNCHANGED <<providerApps, registry, google>>

(* The summary the Broker answered with is saved, however late.            *)
SaveProviderConnection(r) ==
  /\ At(r, {"callback", "revoke"}, "stored")
  /\ RegistryFree
  /\ copy' = [d \in DOMAIN copy \cup {Target(r)} |->
                IF d = Target(r) THEN request[r].list[d] ELSE copy[d]]
  /\ Finish(r)
  /\ UNCHANGED <<providerApps, vault, states, managed, referenced, google, raced>>

(* ------------------------------ revoke, remove ------------------------- *)

\* Mutant: the vault is marked and Google never told.
BeginRevoke_NotAtGoogle(r, c) ==
  /\ Free(r)
  /\ c \in DOMAIN vault /\ vault[c].health = "healthy"
  /\ Become(r, Begin(r, "revoke", "revoked", c))
  /\ UNCHANGED <<providerApps, vault, registry, google, raced>>

(* Only a healthy Connection is leased to a revocation.                    *)
BeginRevoke(r, c) ==
  /\ Free(r)
  /\ c \in DOMAIN vault /\ vault[c].health = "healthy"
  /\ Become(r, [Begin(r, "revoke", "leased", c) EXCEPT !.token = vault[c].token])
  /\ UNCHANGED <<providerApps, vault, registry, google, raced>>

\* Mutant: a Connection that failed is taken for one Google has withdrawn.
BeginRemove_HealthyOnly(r, c) ==
  /\ Free(r)
  /\ c \in DOMAIN vault
  /\ Become(r, Begin(r, "remove",
       IF vault[c].health = "healthy" THEN "read" ELSE "revoked", c))
  /\ UNCHANGED <<providerApps, vault, registry, google, raced>>

BeginRemove(r, c) ==
  /\ Free(r)
  /\ c \in DOMAIN vault
  /\ Become(r, Begin(r, "remove",
       IF vault[c].health = "revoked" THEN "revoked" ELSE "read", c))
  /\ UNCHANGED <<providerApps, vault, registry, google, raced>>

LeaseForRevocation(r) ==
  /\ At(r, {"remove"}, "read")
  /\ IF Target(r) \in DOMAIN vault
     THEN Become(r, [request[r] EXCEPT !.at = "leased", !.token = vault[Target(r)].token])
     ELSE Finish(r)
  /\ UNCHANGED <<providerApps, vault, registry, google, raced>>

(* Google answers a token it no longer honours with an error.              *)
RevokeAtGoogle(r) ==
  LET t == request[r].token IN
  /\ At(r, {"revoke", "remove"}, "leased")
  /\ IF t \in live
     THEN /\ live' = live \ SameGrant(t)
          /\ withdrawn' = withdrawn \cup SameGrant(t)
          /\ Goto(r, "revoked")
     ELSE /\ Finish(r)
          /\ UNCHANGED <<live, withdrawn>>
  /\ UNCHANGED <<providerApps, vault, registry, grants, raced>>

MarkRevoked(r) ==
  LET c == Target(r) IN
  /\ At(r, {"revoke"}, "revoked")
  /\ IF c \in DOMAIN vault
     THEN /\ vault' = [vault EXCEPT ![c].health = "revoked"]
          /\ Become(r, [request[r] EXCEPT !.at = "stored",
                          !.list = [d \in {c} |-> SummaryOf(vault'[c])]])
     ELSE /\ Finish(r)
          /\ UNCHANGED vault
  /\ UNCHANGED <<providerApps, registry, google, raced>>

RemoveAtVault(r) ==
  LET c == Target(r) IN
  /\ At(r, {"remove"}, "revoked")
  /\ IF c \in DOMAIN vault
     THEN /\ vault' = Restrict(vault, DOMAIN vault \ {c})
          /\ Goto(r, "removed")
     ELSE /\ Finish(r)
          /\ UNCHANGED vault
  /\ UNCHANGED <<providerApps, registry, google, raced>>

RemoveProviderConnection(r) ==
  /\ At(r, {"remove"}, "removed")
  /\ RegistryFree
  /\ copy' = Restrict(copy, DOMAIN copy \ {Target(r)})
  /\ Finish(r)
  /\ UNCHANGED <<providerApps, vault, states, managed, referenced, google, raced>>

(* ------------------------------- tool calls ---------------------------- *)

(* The Broker leases a healthy Connection, refreshes its access token and, *)
(* when Google refuses the refresh, marks the Connection.                  *)
BeginCall(r, c) ==
  /\ Free(r)
  /\ c \in DOMAIN vault /\ vault[c].health = "healthy"
  /\ Become(r, [Begin(r, "call", "leased", c) EXCEPT !.token = vault[c].token])
  /\ UNCHANGED <<providerApps, vault, registry, google, raced>>

Refresh(r) ==
  /\ At(r, {"call"}, "leased")
  /\ IF request[r].token \in live THEN Finish(r) ELSE Goto(r, "refused")
  /\ UNCHANGED <<providerApps, vault, registry, google, raced>>

MarkError(r) ==
  LET c == Target(r) IN
  /\ At(r, {"call"}, "refused")
  /\ vault' = IF c \in DOMAIN vault THEN [vault EXCEPT ![c].health = "error"] ELSE vault
  /\ Finish(r)
  /\ UNCHANGED <<providerApps, registry, google, raced>>

(* The user removes the app's access at Google, or Google lets it lapse.   *)
GrantLost(t) ==
  /\ t \in live
  /\ live' = live \ SameGrant(t)
  /\ withdrawn' = withdrawn \cup SameGrant(t)
  /\ UNCHANGED <<providerApps, vault, registry, request, grants, raced>>

StepOf(r) ==
  \/ Authorize(r) \/ Reconcile(r) \/ BeginReauthorize(r) \/ Deploy(r)
  \/ \E i \in Identities, scoped \in BOOLEAN : Exchange(r, i, scoped)
  \/ Store(r) \/ SaveProviderConnection(r)
  \/ LeaseForRevocation(r) \/ RevokeAtGoogle(r) \/ MarkRevoked(r)
  \/ RemoveAtVault(r) \/ RemoveProviderConnection(r)
  \/ Refresh(r) \/ MarkError(r)

Arrive(r) ==
  \/ \E c \in Connections, n \in Nicknames, a \in Apps : BeginAuthorize(r, c, n, a)
  \/ \E s \in DOMAIN states : BeginCallback(r, s)
  \/ \E c \in Connections : BeginRevoke(r, c) \/ BeginRemove(r, c)
                            \/ BeginCall(r, c) \/ BeginDeploy(r, c)
  \/ \E c \in Connections : BeginList(r, {c})
  \/ BeginList(r, {})

CustodyNext ==
  \/ \E r \in Requests : Arrive(r) \/ StepOf(r) \/ Abandon(r)
  \/ \E a \in Apps : StoreProviderApp(a)
  \/ \E s \in DOMAIN states : ExpireState(s)
  \/ \E t \in live : GrantLost(t)

CustodySpec == CustodyInit /\ [][CustodyNext]_custodyVars

(* ------------------------------- properties ---------------------------- *)

(* A state is exchanged at most once, however often and however            *)
(* concurrently its callback arrives (take_oauth_state).                   *)
OneExchange ==
  \A t, u \in Tokens : grants[t].state = grants[u].state => t = u

(* A Connection marked revoked holds a token Google no longer honours,     *)
(* unless a reauthorization overlapped a revocation of it.                 *)
RevokedIsDead ==
  \A c \in DOMAIN vault \ raced :
    vault[c].health = "revoked" => vault[c].token \notin live

(* Removing a Connection leaves no live token behind, with the same        *)
(* exception: "revoke if needed, then remove it".                          *)
RemovalRevokes ==
  [][\A c \in DOMAIN vault \ (DOMAIN vault' \cup raced) : vault[c].token \notin live]_custodyVars

(* A Connection keeps its nickname, Provider App and Google identity over  *)
(* reauthorizations, and enters the vault of a consent to create it alone, *)
(* under a nickname of its own, whichever callbacks were under way.  The   *)
(* runs check LivesOnce, which is deeper; that the token is of a consent   *)
(* to create is said here alone, and proved.                               *)
IdentityPreserved ==
  [][/\ \A c \in DOMAIN vault \cap DOMAIN vault' :
          /\ vault'[c].nickname = vault[c].nickname
          /\ vault'[c].app = vault[c].app
          /\ vault'[c].identity = vault[c].identity
     /\ \A c \in DOMAIN vault' \ DOMAIN vault :
          /\ states[grants[vault'[c].token].state].flow = "create"
          /\ \A d \in DOMAIN vault : vault[d].nickname # vault'[c].nickname]_custodyVars

(* The states that may make c a Connection, and whether one still may: it  *)
(* waits for its callback, or a callback of it is at work.                 *)
StatesOf(c) ==
  {s \in DOMAIN states : states[s].connection = c /\ states[s].flow = "create"}

InFlight(handler) == handler.op = "callback" /\ handler.at \in {"taken", "exchanged"}

Open(s) ==
  \/ states[s].status \in {"put", "offered"}
  \/ \E r \in Requests : InFlight(request[r]) /\ request[r].state = s

LifeOf(c) ==
  LET s == CHOOSE s \in StatesOf(c) : TRUE
  IN  IF c \in DOMAIN vault
      THEN [phase |-> "held", nickname |-> vault[c].nickname, app |-> vault[c].app,
            identity |-> vault[c].identity]
      ELSE IF StatesOf(c) = {} THEN [phase |-> "unused"]
      ELSE IF Open(s)
      THEN [phase |-> "asked", nickname |-> states[s].nickname, app |-> states[s].app]
      ELSE [phase |-> "over"]

Life == INSTANCE ConnectionLife WITH life <- [c \in Connections |-> LifeOf(c)]

(* The id of a Connection has one life: whatever callbacks, revocations    *)
(* and removals overlap or are cut short, what was removed or refused      *)
(* never comes back, neither as itself nor as another identity.            *)
LivesOnce == Life!Spec

(* No authorization that fails takes another Connection's grant with it: a *)
(* token dies only of a revocation, a removal or at Google's own hand.     *)
SiblingsSurvive ==
  \A c \in DOMAIN vault : vault[c].token \in live \cup withdrawn

(* The copies say what the vault says, and Management keeps an entry for   *)
(* every Connection a Deployment binds, also after it is gone.             *)
CopiesAgree ==
  /\ copy = VaultList
  /\ referenced \subseteq DOMAIN managed
  /\ \A c \in DOMAIN managed :
       managed[c] = IF c \in DOMAIN vault
                    THEN ManagedHealth(vault[c].health) ELSE "error"

(* Once requests are no longer cut short and the vault settles, the        *)
(* registry's copies come to agree with it for good, whatever lists and    *)
(* summaries were under way.                                               *)
CopiesFollowVault ==
  <>[][\A r \in Requests : Abandon(r) => StepOf(r)]_custodyVars => <>[]CopiesAgree
=============================================================================
