----------------------------- MODULE CustodyProofs -----------------------------
(***************************************************************************)
(* Theorems about Custody, for every set of Connections, Provider Apps,    *)
(* identities and requests at work and every bound: what the vault and the *)
(* requests hold is well formed, a state is exchanged once, a revoked      *)
(* Connection's token is dead, no consent that fails kills another's, and  *)
(* every id of a Connection lives once.                                    *)
(***************************************************************************)
EXTENDS Custody, TLAPS

Summaries == [nickname : Nicknames, app : Apps, health : Healths]

Lists == UNION {[S -> Summaries] : S \in SUBSET Connections}

Entries == [nickname : Nicknames, app : Apps, identity : Identities, token : Nat,
            health : Healths]

States == [connection : Connections, nickname : Nicknames, app : Apps,
           flow : {"create", "reauth"}, status : {"put", "offered", "taken", "expired"}]

Consents == [identity : Identities, app : Apps, state : Nat]

Handlers ==
  [op : {"none", "authorize", "list", "deploy", "callback", "revoke", "remove", "call"},
   at : {"idle", "put", "fetched", "found", "taken", "exchanged", "stored", "read", "leased",
         "revoked", "removed", "refused"},
   connection : SUBSET Connections, state : Nat, token : Nat, list : Lists]

CustodyTypeOK ==
  /\ providerApps \in SUBSET Apps
  /\ DOMAIN vault \subseteq Connections /\ vault \in [DOMAIN vault -> Entries]
  /\ states \in Seq(States)
  /\ copy \in Lists
  /\ DOMAIN managed \subseteq Connections /\ managed \in [DOMAIN managed -> {"healthy", "error"}]
  /\ referenced \in SUBSET Connections
  /\ request \in [Requests -> Handlers]
  /\ grants \in Seq(Consents)
  /\ live \in SUBSET Nat /\ withdrawn \in SUBSET Nat
  /\ raced \in SUBSET Connections

(* What a handler at work has established: it is about one Connection or,  *)
(* for a list of them all, about none; its OAuth state was issued; what it *)
(* found is in its list; and the token it exchanged is of its state.       *)
HandlerOK(h) ==
  /\ h.connection = {} \/ \E c \in Connections : h.connection = {c}
  /\ h.op \in {"deploy", "callback", "revoke", "remove", "call"} => h.connection # {}
  /\ h.op \in {"authorize", "callback"} => h.state \in DOMAIN states
  /\ h.at \in {"found", "stored"} => h.connection # {} /\ h.connection \subseteq DOMAIN h.list
  /\ h.at = "exchanged" => h.token \in Tokens /\ grants[h.token].state = h.state

HandlersInv == CustodyTypeOK /\ \A r \in Requests : HandlerOK(request[r])

(* A state that was exchanged, or is about to be, has been taken; and of   *)
(* the handlers about to exchange no two have the same one.                *)
TakenOnce ==
  /\ \A t \in Tokens :
       /\ grants[t].state \in DOMAIN states
       /\ states[grants[t].state].status = "taken"
  /\ \A r \in Requests : request[r].at = "taken" =>
       /\ request[r].state \in DOMAIN states
       /\ states[request[r].state].status = "taken"
       /\ \A t \in Tokens : grants[t].state # request[r].state
  /\ \A r, q \in Requests :
       request[r].at = "taken" /\ request[q].at = "taken" /\ request[r].state = request[q].state
         => r = q

ExchangeInv == TakenOnce /\ OneExchange

(* Every token that was minted is honoured or was withdrawn by someone.    *)
TokensInv ==
  /\ live \subseteq Tokens /\ Tokens \subseteq live \cup withdrawn
  /\ \A c \in DOMAIN vault : vault[c].token \in Tokens

(* What a revocation or a removal knows of a Connection that was not       *)
(* reauthorized meanwhile: it leased the token the Connection holds, and   *)
(* has got it revoked before it marks or removes the Connection.           *)
Undisturbed(h, c) ==
  h.op \in {"revoke", "remove"} /\ h.connection = {c} =>
    /\ h.at = "leased" => h.token = vault[c].token
    /\ h.at = "revoked" => vault[c].token \notin live

RevokeInv ==
  /\ \A r \in Requests, c \in DOMAIN vault \ raced : Undisturbed(request[r], c)
  /\ RevokedIsDead

-----------------------------------------------------------------------------
(* The actions a step can be.                                              *)
LEMMA CustodyCases ==
  ASSUME [CustodyNext]_custodyVars
  PROVE  \/ \E r \in Requests :
              \/ \E c \in Connections, n \in Nicknames, a \in Apps : BeginAuthorize(r, c, n, a)
              \/ \E s \in DOMAIN states : BeginCallback(r, s)
              \/ \E c \in Connections : BeginRevoke(r, c)
              \/ \E c \in Connections : BeginRemove(r, c)
              \/ \E c \in Connections : BeginCall(r, c)
              \/ \E c \in Connections : BeginDeploy(r, c)
              \/ \E wanted \in {{}} \cup {{c} : c \in Connections} : BeginList(r, wanted)
              \/ Authorize(r) \/ Reconcile(r) \/ BeginReauthorize(r) \/ Deploy(r)
              \/ \E i \in Identities, scoped \in BOOLEAN : Exchange(r, i, scoped)
              \/ Store(r) \/ SaveProviderConnection(r)
              \/ LeaseForRevocation(r) \/ RevokeAtGoogle(r) \/ MarkRevoked(r)
              \/ RemoveAtVault(r) \/ RemoveProviderConnection(r)
              \/ Refresh(r) \/ MarkError(r)
              \/ Abandon(r)
         \/ \E a \in Apps : StoreProviderApp(a)
         \/ \E s \in DOMAIN states : ExpireState(s)
         \/ \E t \in live : GrantLost(t)
         \/ UNCHANGED custodyVars
BY DEF CustodyNext, Arrive, StepOf

-----------------------------------------------------------------------------
(* Lists and handlers.                                                     *)
LEMMA ListType ==
  ASSUME NEW list
  PROVE  list \in Lists <=> /\ DOMAIN list \in SUBSET Connections
                            /\ list \in [DOMAIN list -> Summaries]
BY DEF Lists

LEMMA IdleType == Idle \in Handlers
<1>1. Nothing \in Lists
  <2>1. Nothing \in [{} -> Summaries]
    BY DEF Nothing
  <2> QED
    BY <2>1 DEF Lists
<1> QED
  BY <1>1 DEF Idle, Handlers

LEMMA VaultListType ==
  ASSUME CustodyTypeOK
  PROVE  VaultList \in Lists /\ DOMAIN VaultList = DOMAIN vault
<1>1. \A c \in DOMAIN vault : SummaryOf(vault[c]) \in Summaries
  BY DEF CustodyTypeOK, Entries, SummaryOf, Summaries
<1>2. /\ DOMAIN VaultList = DOMAIN vault
      /\ VaultList \in [DOMAIN VaultList -> Summaries]
  BY <1>1 DEF VaultList
<1> QED
  BY <1>2, ListType DEF CustodyTypeOK

LEMMA ReconcileType ==
  ASSUME CustodyTypeOK, NEW list \in Lists, ReconcileProviderConnections(list)
  PROVE  /\ copy' \in Lists
         /\ DOMAIN managed' \subseteq Connections
         /\ managed' \in [DOMAIN managed' -> {"healthy", "error"}]
<1>1. DOMAIN list \subseteq Connections
  BY ListType
<1>2. managed' = ReconcileManagementConnections(list) /\ copy' = list
  BY DEF ReconcileProviderConnections
<1> QED
  BY <1>1, <1>2 DEF ReconcileManagementConnections, ManagedHealth, CustodyTypeOK

(* The Connection a handler is about.                                      *)
LEMMA TargetIs ==
  ASSUME HandlersInv, NEW r \in Requests, request[r].connection # {}
  PROVE  /\ Target(r) \in Connections
         /\ request[r].connection = {Target(r)}
         /\ \A c : request[r].connection = {c} => c = Target(r)
<1>1. PICK c \in Connections : request[r].connection = {c}
  BY DEF HandlersInv, HandlerOK
<1>2. \E d \in Connections : request[r].connection = {d}
  BY <1>1
<1>3. Target(r) \in Connections /\ request[r].connection = {Target(r)}
  BY <1>2 DEF Target
<1> QED
  BY <1>3

LEMMA Becomes ==
  ASSUME HandlersInv, NEW r \in Requests, NEW new \in Handlers, Become(r, new)
  PROVE  /\ request' \in [Requests -> Handlers]
         /\ request'[r] = new
         /\ \A q \in Requests \ {r} : request'[q] = request[q]
BY DEF Become, HandlersInv, CustodyTypeOK

(* A step that changes one handler, and issues or mints at most, keeps the *)
(* others as they are.                                                     *)
LEMMA OthersKept ==
  ASSUME HandlersInv, NEW r \in Requests, NEW new \in Handlers, Become(r, new),
         DOMAIN states \subseteq DOMAIN states',
         \A t \in Tokens : t \in Tokens' /\ grants'[t].state = grants[t].state,
         HandlerOK(new)'
  PROVE  \A q \in Requests : HandlerOK(request[q])'
<1> SUFFICES ASSUME NEW q \in Requests PROVE HandlerOK(request[q])'
  OBVIOUS
<1>1. CASE q = r
  BY <1>1, Becomes DEF HandlerOK
<1>2. CASE q # r
  <2>1. request'[q] = request[q] /\ HandlerOK(request[q])
    BY <1>2, Becomes DEF HandlersInv
  <2> QED
    BY <2>1 DEF HandlerOK
<1> QED
  BY <1>1, <1>2

(* The steps that issue no state and mint no token.                        *)
LEMMA HandlerMoves ==
  ASSUME HandlersInv, NEW r \in Requests, NEW new \in Handlers, Become(r, new),
         UNCHANGED <<states, grants>>, HandlerOK(new)
  PROVE  \A q \in Requests : HandlerOK(request[q])'
BY OthersKept DEF Tokens, HandlerOK

LEMMA FinishMoves ==
  ASSUME HandlersInv, NEW r \in Requests, Finish(r)
  PROVE  /\ request' \in [Requests -> Handlers]
         /\ request'[r] = Idle
         /\ \A q \in Requests \ {r} : request'[q] = request[q]
         /\ UNCHANGED <<states, grants>> => \A q \in Requests : HandlerOK(request[q])'
<1>1. HandlerOK(Idle)
  BY DEF HandlerOK, Idle
<1> QED
  BY <1>1, IdleType, Becomes, HandlerMoves DEF Finish

(* What a handler goes on with.                                            *)
LEMMA WithToken ==
  ASSUME NEW h \in Handlers, NEW n \in Nat
  PROVE  LET g == [h EXCEPT !.token = n]
         IN  /\ g \in Handlers /\ g.op = h.op /\ g.at = h.at
             /\ g.connection = h.connection /\ g.state = h.state /\ g.token = n
BY DEF Handlers

LEMMA WithState ==
  ASSUME NEW h \in Handlers, NEW n \in Nat
  PROVE  LET g == [h EXCEPT !.state = n]
         IN  /\ g \in Handlers /\ g.op = h.op /\ g.at = h.at
             /\ g.connection = h.connection /\ g.state = n
BY DEF Handlers

LEMMA WithList ==
  ASSUME NEW h \in Handlers, NEW list \in Lists
  PROVE  LET g == [h EXCEPT !.list = list]
         IN  /\ g \in Handlers /\ g.op = h.op /\ g.at = h.at
             /\ g.connection = h.connection /\ g.state = h.state /\ g.list = list
BY DEF Handlers

-----------------------------------------------------------------------------
(* Type correctness, with what the handlers have established.              *)
LEMMA HandlersInit == CustodyInit => HandlersInv
<1> SUFFICES ASSUME CustodyInit PROVE HandlersInv
  OBVIOUS
<1>1. Nothing \in Lists /\ DOMAIN Nothing = {} /\ \A S : Nothing \in [DOMAIN Nothing -> S]
  BY IdleType DEF Handlers, Idle, Nothing
<1>2. request \in [Requests -> Handlers] /\ \A r \in Requests : request[r] = Idle
  BY IdleType DEF CustodyInit
<1>3. CustodyTypeOK
  BY <1>1, <1>2 DEF CustodyInit, CustodyTypeOK
<1>4. HandlerOK(Idle)
  BY DEF HandlerOK, Idle
<1> QED
  BY <1>2, <1>3, <1>4 DEF HandlersInv

(* A request arrives.                                                      *)
LEMMA ArriveKeepsHandlers ==
  ASSUME HandlersInv, NEW r \in Requests, NEW c \in Connections,
         \/ BeginRevoke(r, c) \/ BeginRemove(r, c) \/ BeginCall(r, c) \/ BeginDeploy(r, c)
  PROVE  HandlersInv'
<1>1. UNCHANGED <<providerApps, vault, registry, google, raced>>
  BY DEF BeginRevoke, BeginRemove, BeginCall, BeginDeploy
<1>2. VaultList \in Lists
  BY VaultListType DEF HandlersInv
<1>3. c \in DOMAIN vault => vault[c].token \in Nat
  BY DEF HandlersInv, CustodyTypeOK, Entries
<1>4. PICK new \in Handlers : Become(r, new) /\ HandlerOK(new)
  <2>1. CASE BeginRevoke(r, c)
    <3> DEFINE base == Begin(r, "revoke", "leased", c)
               new == [base EXCEPT !.token = vault[c].token]
    <3>1. vault[c].token \in Nat /\ Become(r, new)
      BY <1>3, <2>1 DEF BeginRevoke
    <3>2. /\ base \in Handlers /\ base.op = "revoke" /\ base.at = "leased"
          /\ base.connection = {c}
      BY IdleType DEF Begin, Handlers
    <3> HIDE DEF base
    <3>3. /\ new \in Handlers /\ new.op = "revoke" /\ new.at = "leased"
          /\ new.connection = {c}
      BY <3>1, <3>2, WithToken
    <3> HIDE DEF new
    <3>4. HandlerOK(new)
      BY <3>3 DEF HandlerOK
    <3> QED
      BY <3>1, <3>3, <3>4
  <2>2. CASE BeginCall(r, c)
    <3> DEFINE base == Begin(r, "call", "leased", c)
               new == [base EXCEPT !.token = vault[c].token]
    <3>1. vault[c].token \in Nat /\ Become(r, new)
      BY <1>3, <2>2 DEF BeginCall
    <3>2. /\ base \in Handlers /\ base.op = "call" /\ base.at = "leased"
          /\ base.connection = {c}
      BY IdleType DEF Begin, Handlers
    <3> HIDE DEF base
    <3>3. /\ new \in Handlers /\ new.op = "call" /\ new.at = "leased"
          /\ new.connection = {c}
      BY <3>1, <3>2, WithToken
    <3> HIDE DEF new
    <3>4. HandlerOK(new)
      BY <3>3 DEF HandlerOK
    <3> QED
      BY <3>1, <3>3, <3>4
  <2>3. CASE BeginRemove(r, c)
    <3> DEFINE at == IF vault[c].health = "revoked" THEN "revoked" ELSE "read"
               new == Begin(r, "remove", at, c)
    <3>1. at \in {"revoked", "read"} /\ Become(r, new)
      BY <2>3 DEF BeginRemove
    <3> HIDE DEF at
    <3>2. /\ new \in Handlers /\ new.op = "remove" /\ new.at = at
          /\ new.connection = {c}
      BY <3>1, IdleType DEF Begin, Handlers
    <3> HIDE DEF new
    <3>3. HandlerOK(new)
      BY <3>1, <3>2 DEF HandlerOK
    <3> QED
      BY <3>1, <3>2, <3>3
  <2>4. CASE BeginDeploy(r, c)
    <3> DEFINE base == Begin(r, "deploy", "fetched", c)
               new == [base EXCEPT !.list = VaultList]
    <3>1. Become(r, new)
      BY <2>4 DEF BeginDeploy
    <3>2. /\ base \in Handlers /\ base.op = "deploy" /\ base.at = "fetched"
          /\ base.connection = {c}
      BY IdleType DEF Begin, Handlers
    <3> HIDE DEF base
    <3>3. /\ new \in Handlers /\ new.op = "deploy" /\ new.at = "fetched"
          /\ new.connection = {c}
      BY <1>2, <3>2, WithList
    <3> HIDE DEF new
    <3>4. HandlerOK(new)
      BY <3>3 DEF HandlerOK
    <3> QED
      BY <3>1, <3>3, <3>4
  <2> QED
    BY <2>1, <2>2, <2>3, <2>4
<1>5. \A q \in Requests : HandlerOK(request[q])'
  BY <1>1, <1>4, HandlerMoves DEF registry, google
<1>6. CustodyTypeOK'
  BY <1>1, <1>4, Becomes DEF HandlersInv, CustodyTypeOK, registry, google
<1> QED
  BY <1>5, <1>6 DEF HandlersInv

LEMMA ListKeepsHandlers ==
  ASSUME HandlersInv, NEW r \in Requests,
         NEW wanted \in {{}} \cup {{c} : c \in Connections}, BeginList(r, wanted)
  PROVE  HandlersInv'
<1> DEFINE new == [Idle EXCEPT !.op = "list", !.at = "fetched", !.connection = wanted,
                               !.list = VaultList]
<1>1. Become(r, new) /\ UNCHANGED <<providerApps, vault, registry, google, raced>>
  BY DEF BeginList
<1>2. VaultList \in Lists
  BY VaultListType DEF HandlersInv
<1>3. new \in Handlers /\ new.op = "list" /\ new.at = "fetched" /\ new.connection = wanted
  BY <1>2, IdleType DEF Idle, Handlers
<1> HIDE DEF new
<1>4. HandlerOK(new)
  BY <1>3 DEF HandlerOK
<1>5. \A q \in Requests : HandlerOK(request[q])'
  BY <1>1, <1>3, <1>4, HandlerMoves DEF registry, google
<1>6. CustodyTypeOK'
  BY <1>1, <1>3, Becomes DEF HandlersInv, CustodyTypeOK, registry, google
<1> QED
  BY <1>5, <1>6 DEF HandlersInv

(* An OAuth state is issued, or moves on.                                  *)
LEMMA StateMarked ==
  ASSUME CustodyTypeOK, NEW s \in DOMAIN states, NEW status \in {"offered", "taken", "expired"},
         states' = [states EXCEPT ![s].status = status]
  PROVE  /\ states' \in Seq(States)
         /\ DOMAIN states' = DOMAIN states
         /\ states'[s].status = status
         /\ states'[s].connection = states[s].connection /\ states'[s].flow = states[s].flow
         /\ \A z \in DOMAIN states : z # s => states'[z] = states[z]
<1>1. states[s] \in States
  BY DEF CustodyTypeOK
<1>2. [states[s] EXCEPT !.status = status] \in States
  BY <1>1 DEF States
<1>3. /\ states' \in Seq(States)
      /\ DOMAIN states' = DOMAIN states
      /\ states'[s] = [states[s] EXCEPT !.status = status]
      /\ \A z \in DOMAIN states : z # s => states'[z] = states[z]
  BY <1>2 DEF CustodyTypeOK
<1> QED
  BY <1>1, <1>3 DEF States

LEMMA StatePut ==
  ASSUME HandlersInv, NEW r \in Requests, NEW state \in States, PutState(r, state)
  PROVE  /\ states' = Append(states, state)
         /\ states' \in Seq(States)
         /\ DOMAIN states' = DOMAIN states \cup {Len(states) + 1}
         /\ Len(states) + 1 \notin DOMAIN states
         /\ \A z \in DOMAIN states : states'[z] = states[z]
         /\ \E new \in Handlers : /\ Become(r, new) /\ new.op = "authorize" /\ new.at = "put"
                                  /\ new.connection = {}
         /\ UNCHANGED <<providerApps, vault, copy, managed, referenced, google, raced>>
         /\ HandlersInv'
<1>1. /\ states' = Append(states, state)
      /\ UNCHANGED <<providerApps, vault, copy, managed, referenced, google, raced>>
  BY DEF PutState
<1>2. /\ states \in Seq(States) /\ Len(states) + 1 \in Nat
      /\ DOMAIN states = 1 .. Len(states)
  BY DEF HandlersInv, CustodyTypeOK
<1>3. /\ states' \in Seq(States)
      /\ DOMAIN states' = DOMAIN states \cup {Len(states) + 1}
      /\ Len(states) + 1 \notin DOMAIN states
      /\ \A z \in DOMAIN states : states'[z] = states[z]
  BY <1>1, <1>2
<1>4. PICK new \in Handlers :
        /\ Become(r, new)
        /\ new.op = "authorize" /\ new.at = "put" /\ new.connection = {}
        /\ new.state = Len(states) + 1
  <2> DEFINE next == [Idle EXCEPT !.op = "authorize", !.at = "put", !.state = Len(states) + 1]
  <2>1. Become(r, next)
    BY DEF PutState
  <2>2. /\ next \in Handlers /\ next.op = "authorize" /\ next.at = "put" /\ next.connection = {}
        /\ next.state = Len(states) + 1
    BY <1>2, IdleType DEF Idle, Handlers
  <2> QED
    BY <2>1, <2>2
<1>5. Len(states) + 1 \in DOMAIN states'
  BY <1>3
<1>6. HandlerOK(new)'
  BY <1>4, <1>5 DEF HandlerOK
<1>7. \A q \in Requests : HandlerOK(request[q])'
  BY <1>1, <1>3, <1>4, <1>6, OthersKept DEF google, Tokens
<1>8. CustodyTypeOK'
  BY <1>1, <1>3, <1>4, Becomes DEF HandlersInv, CustodyTypeOK, google
<1> QED
  BY <1>1, <1>3, <1>4, <1>7, <1>8 DEF HandlersInv

LEMMA CallbackBegins ==
  ASSUME NEW r \in Requests, NEW s \in Nat, states[s] \in States, BeginCallback(r, s)
  PROVE  \E new \in Handlers :
           /\ Become(r, new) /\ new.op = "callback" /\ new.at = "taken"
           /\ new.connection = {states[s].connection} /\ new.state = s
<1> DEFINE base == Begin(r, "callback", "taken", states[s].connection)
           new == [base EXCEPT !.state = s]
<1>1. Become(r, new)
  BY DEF BeginCallback
<1>2. states[s].connection \in Connections
  BY DEF States
<1>3. /\ base \in Handlers /\ base.op = "callback" /\ base.at = "taken"
      /\ base.connection = {states[s].connection}
  BY <1>2, IdleType DEF Begin, Handlers
<1> HIDE DEF base
<1>4. /\ new \in Handlers /\ new.op = "callback" /\ new.at = "taken"
      /\ new.connection = {states[s].connection} /\ new.state = s
  BY <1>3, WithState
<1> QED
  BY <1>1, <1>4

LEMMA ConsentKeepsHandlers ==
  ASSUME HandlersInv, NEW r \in Requests,
         \/ \E c \in Connections, n \in Nicknames, a \in Apps : BeginAuthorize(r, c, n, a)
         \/ \E s \in DOMAIN states : BeginCallback(r, s)
         \/ Authorize(r) \/ BeginReauthorize(r)
  PROVE  HandlersInv'
<1>0. request[r] \in Handlers /\ HandlerOK(request[r])
  BY DEF HandlersInv, CustodyTypeOK
<1>1. ASSUME NEW c \in Connections, NEW n \in Nicknames, NEW a \in Apps,
             BeginAuthorize(r, c, n, a)
      PROVE  HandlersInv'
  BY <1>1, StatePut DEF BeginAuthorize, NewState, States
<1>2. ASSUME NEW s \in DOMAIN states, BeginCallback(r, s) PROVE HandlersInv'
  <2>1. /\ states' = [states EXCEPT ![s].status = "taken"]
        /\ UNCHANGED <<providerApps, vault, copy, managed, referenced, google, raced>>
    BY <1>2 DEF BeginCallback, TakeState
  <2>2. states[s] \in States /\ DOMAIN states \subseteq Nat
    BY DEF HandlersInv, CustodyTypeOK
  <2>3. states' \in Seq(States) /\ DOMAIN states' = DOMAIN states
    BY <2>1, StateMarked DEF HandlersInv
  <2>4. PICK new \in Handlers :
          /\ Become(r, new) /\ new.op = "callback" /\ new.at = "taken"
          /\ new.connection = {states[s].connection} /\ new.state = s
    BY <1>2, <2>2, CallbackBegins
  <2>5. states[s].connection \in Connections
    BY <2>2 DEF States
  <2>6. HandlerOK(new)'
    BY <2>3, <2>4, <2>5 DEF HandlerOK
  <2>7. \A q \in Requests : HandlerOK(request[q])'
    BY <2>1, <2>3, <2>4, <2>6, OthersKept DEF google, Tokens
  <2>8. CustodyTypeOK'
    BY <2>1, <2>3, <2>4, Becomes DEF HandlersInv, CustodyTypeOK, google
  <2> QED
    BY <2>7, <2>8 DEF HandlersInv
<1>3. CASE Authorize(r)
  <2>1. /\ Finish(r)
        /\ UNCHANGED <<providerApps, vault, copy, managed, referenced, google, raced>>
        /\ \/ UNCHANGED states
           \/ states' = [states EXCEPT ![request[r].state].status = "offered"]
        /\ request[r].state \in DOMAIN states
    BY <1>0, <1>3 DEF Authorize, At, HandlerOK
  <2>2. states' \in Seq(States) /\ DOMAIN states' = DOMAIN states
    BY <2>1, StateMarked DEF HandlersInv, CustodyTypeOK
  <2>3. HandlerOK(Idle)'
    BY DEF HandlerOK, Idle
  <2>4. \A q \in Requests : HandlerOK(request[q])'
    BY <2>1, <2>2, <2>3, IdleType, OthersKept DEF google, Tokens, Finish
  <2>5. CustodyTypeOK'
    BY <2>1, <2>2, FinishMoves DEF HandlersInv, CustodyTypeOK, google
  <2> QED
    BY <2>4, <2>5 DEF HandlersInv
<1>4. CASE BeginReauthorize(r)
  <2> DEFINE found == request[r].list[Target(r)]
             state == NewState(Target(r), found.nickname, found.app, "reauth")
  <2>1. request[r].connection # {} /\ request[r].connection \subseteq DOMAIN request[r].list
    BY <1>0, <1>4 DEF BeginReauthorize, At, HandlerOK
  <2>2. Target(r) \in Connections /\ Target(r) \in DOMAIN request[r].list
    BY <2>1, TargetIs
  <2>3. found \in Summaries
    BY <1>0, <2>2, ListType DEF Handlers
  <2>4. state \in States
    BY <2>2, <2>3 DEF NewState, States, Summaries
  <2>5. CASE PutState(r, state)
    BY <2>4, <2>5, StatePut
  <2>6. CASE Finish(r) /\ UNCHANGED <<providerApps, vault, registry, google, raced>>
    BY <2>6, FinishMoves DEF HandlersInv, CustodyTypeOK, registry, google
  <2> QED
    BY <1>4, <2>5, <2>6 DEF BeginReauthorize
<1> QED
  BY <1>1, <1>2, <1>3, <1>4

(* A consent is exchanged: a token is minted, and kept or given up.        *)
LEMMA Exchanged ==
  ASSUME HandlersInv, NEW r \in Requests, NEW i \in Identities, NEW scoped \in BOOLEAN,
         Exchange(r, i, scoped)
  PROVE  /\ request[r].state \in DOMAIN states /\ request[r].at = "taken"
         /\ grants' \in Seq(Consents) /\ Len(grants') = Len(grants) + 1
         /\ \A t \in Tokens : grants'[t] = grants[t]
         /\ grants'[Len(grants) + 1].state = request[r].state
         /\ Len(grants) \in Nat
         /\ live' = live \cup {Len(grants) + 1}
         /\ UNCHANGED <<providerApps, vault, registry, withdrawn, raced>>
         /\ \E new \in Handlers :
              /\ Become(r, new)
              /\ \/ new = Idle
                 \/ /\ new.op = "callback" /\ new.at = "exchanged"
                    /\ new.connection = request[r].connection
                    /\ new.state = request[r].state /\ new.token = Len(grants) + 1
<1> DEFINE t == Len(grants) + 1
           consent == [identity |-> i, app |-> states[request[r].state].app,
                       state |-> request[r].state]
           next == [request[r] EXCEPT !.at = "exchanged", !.token = t]
<1>1. /\ request[r] \in Handlers /\ HandlerOK(request[r])
      /\ request[r].op = "callback" /\ request[r].at = "taken"
  BY DEF HandlersInv, CustodyTypeOK, Exchange, At
<1>2. request[r].state \in DOMAIN states /\ states[request[r].state] \in States
  BY <1>1 DEF HandlerOK, HandlersInv, CustodyTypeOK
<1>3. consent \in Consents /\ consent.state = request[r].state
  BY <1>1, <1>2 DEF Consents, States, Handlers
<1>4. grants \in Seq(Consents) /\ t \in Nat
  BY DEF HandlersInv, CustodyTypeOK
<1>5. /\ grants' = Append(grants, consent)
      /\ live' = live \cup {t}
      /\ UNCHANGED <<providerApps, vault, registry, withdrawn, raced>>
      /\ Become(r, next) \/ Become(r, Idle)
  BY DEF Exchange, RejectGrant, Finish
<1> HIDE DEF consent
<1>6. /\ grants' \in Seq(Consents) /\ Len(grants') = Len(grants) + 1
      /\ \A u \in Tokens : grants'[u] = grants[u]
      /\ grants'[t] = consent
  BY <1>3, <1>4, <1>5 DEF Tokens
<1>7. /\ next \in Handlers /\ next.op = "callback" /\ next.at = "exchanged"
      /\ next.connection = request[r].connection
      /\ next.state = request[r].state /\ next.token = t
  BY <1>1, <1>4 DEF Handlers
<1> HIDE DEF next
<1>8. \E new \in Handlers :
        /\ Become(r, new)
        /\ \/ new = Idle
           \/ /\ new.op = "callback" /\ new.at = "exchanged"
              /\ new.connection = request[r].connection
              /\ new.state = request[r].state /\ new.token = t
  <2>1. CASE Become(r, next)
    BY <1>7, <2>1
  <2>2. CASE Become(r, Idle)
    BY <2>2, IdleType
  <2> QED
    BY <1>5, <2>1, <2>2
<1>9. Len(grants) \in Nat
  BY <1>4
<1> QED
  BY <1>1, <1>2, <1>3, <1>5, <1>6, <1>8, <1>9

LEMMA ExchangeKeepsHandlers ==
  ASSUME HandlersInv, NEW r \in Requests, NEW i \in Identities, NEW scoped \in BOOLEAN,
         Exchange(r, i, scoped)
  PROVE  HandlersInv'
<1>1. /\ request[r].state \in DOMAIN states
      /\ grants' \in Seq(Consents) /\ Len(grants') = Len(grants) + 1
      /\ \A t \in Tokens : grants'[t] = grants[t]
      /\ grants'[Len(grants) + 1].state = request[r].state
      /\ Len(grants) \in Nat
      /\ live' = live \cup {Len(grants) + 1}
      /\ UNCHANGED <<providerApps, vault, registry, withdrawn, raced>>
  BY Exchanged
<1>2. HandlerOK(request[r]) /\ request[r].op = "callback"
  BY DEF HandlersInv, Exchange, At
<1>3. PICK new \in Handlers :
        /\ Become(r, new)
        /\ \/ new = Idle
           \/ /\ new.op = "callback" /\ new.at = "exchanged"
              /\ new.connection = request[r].connection
              /\ new.state = request[r].state /\ new.token = Len(grants) + 1
  BY Exchanged
<1>4. Tokens' = Tokens \cup {Len(grants) + 1}
  BY <1>1 DEF Tokens
<1>5. HandlerOK(new)'
  <2>1. CASE new = Idle
    BY <2>1 DEF HandlerOK, Idle
  <2>2. CASE new # Idle
    BY <1>1, <1>2, <1>3, <1>4, <2>2 DEF HandlerOK, registry
  <2> QED
    BY <2>1, <2>2
<1>6. \A q \in Requests : HandlerOK(request[q])'
  BY <1>1, <1>3, <1>4, <1>5, OthersKept DEF registry
<1>7. CustodyTypeOK'
  BY <1>1, <1>3, Becomes DEF HandlersInv, CustodyTypeOK, registry
<1> QED
  BY <1>6, <1>7 DEF HandlersInv

(* A consent is stored, as a new Connection or in place of one's token.    *)
Accepted(c, t, s, entry) ==
  /\ entry = [nickname |-> states[s].nickname, app |-> states[s].app,
              identity |-> grants[t].identity, token |-> t, health |-> "healthy"]
  /\ entry \in Entries
  /\ IF states[s].flow = "create" THEN Storable(c, entry) ELSE Replaceable(c, entry)

LEMMA Stored ==
  ASSUME HandlersInv, NEW r \in Requests, Store(r)
  PROVE  LET c == Target(r)
             t == request[r].token
             s == request[r].state
         IN  /\ c \in Connections /\ t \in Tokens /\ grants[t].state = s
             /\ request[r].connection = {c} /\ request[r].op = "callback"
             /\ UNCHANGED <<providerApps, registry, google>>
             /\ \/ Finish(r) /\ UNCHANGED <<vault, raced>>
                \/ \E entry \in Entries, new \in Handlers :
                     /\ Accepted(c, t, s, entry)
                     /\ vault' = [d \in DOMAIN vault \cup {c} |->
                                    IF d = c THEN entry ELSE vault[d]]
                     /\ raced' = IF Revoking(c) THEN raced \cup {c} ELSE raced \ {c}
                     /\ Become(r, new) /\ new.op = "callback" /\ new.at = "stored"
                     /\ new.connection = {c} /\ new.state = s /\ DOMAIN new.list = {c}
<1> DEFINE c == Target(r)
           t == request[r].token
           s == request[r].state
           entry == [nickname |-> states[s].nickname, app |-> states[s].app,
                     identity |-> grants[t].identity, token |-> t, health |-> "healthy"]
           list == [d \in {c} |-> SummaryOf(entry)]
           new == [request[r] EXCEPT !.at = "stored", !.list = list]
           fits == IF states[s].flow = "create" THEN Storable(c, entry) ELSE Replaceable(c, entry)
<1>1. /\ request[r] \in Handlers /\ HandlerOK(request[r])
      /\ request[r].op = "callback" /\ request[r].at = "exchanged"
  BY DEF HandlersInv, CustodyTypeOK, Store, At
<1>2. s \in DOMAIN states /\ t \in Tokens /\ grants[t].state = s /\ request[r].connection # {}
  BY <1>1 DEF HandlerOK
<1>3. c \in Connections /\ request[r].connection = {c}
  BY <1>2, TargetIs
<1>4. /\ states[s].nickname \in Nicknames /\ states[s].app \in Apps
      /\ grants[t].identity \in Identities /\ t \in Nat
  <2>1. states[s] \in States
    BY <1>2 DEF HandlersInv, CustodyTypeOK
  <2>2. grants[t] \in Consents
    BY <1>2 DEF HandlersInv, CustodyTypeOK, Tokens
  <2> QED
    BY <1>1, <2>1, <2>2 DEF States, Consents, Handlers
<1>5. entry \in Entries /\ SummaryOf(entry) \in Summaries
  BY <1>4 DEF Entries, SummaryOf, Summaries, Healths
<1>6. /\ UNCHANGED <<providerApps, registry, google>>
      /\ IF fits
         THEN /\ vault' = [d \in DOMAIN vault \cup {c} |-> IF d = c THEN entry ELSE vault[d]]
              /\ Become(r, new)
              /\ raced' = IF Revoking(c) THEN raced \cup {c} ELSE raced \ {c}
         ELSE Finish(r) /\ UNCHANGED <<vault, raced>>
  BY DEF Store
<1>7. fits => Accepted(c, t, s, entry)
  BY <1>5 DEF Accepted
<1> HIDE DEF entry, fits
<1>8. list \in Lists /\ DOMAIN list = {c}
  BY <1>3, <1>5, ListType
<1> HIDE DEF list
<1>9. /\ new \in Handlers /\ new.op = "callback" /\ new.at = "stored"
      /\ new.connection = {c} /\ new.state = s /\ DOMAIN new.list = {c}
  BY <1>1, <1>3, <1>8 DEF Handlers
<1> HIDE DEF new
<1> QED
  BY <1>1, <1>2, <1>3, <1>5, <1>6, <1>7, <1>9

LEMMA StoreKeepsHandlers ==
  ASSUME HandlersInv, NEW r \in Requests, Store(r)
  PROVE  HandlersInv'
<1> DEFINE c == Target(r)
<1>1. /\ c \in Connections
      /\ UNCHANGED <<providerApps, registry, google>>
  BY Stored
<1>2. CASE Finish(r) /\ UNCHANGED <<vault, raced>>
  BY <1>1, <1>2, FinishMoves DEF HandlersInv, CustodyTypeOK, registry, google
<1>3. ASSUME NEW entry \in Entries, NEW new \in Handlers,
             vault' = [d \in DOMAIN vault \cup {c} |-> IF d = c THEN entry ELSE vault[d]],
             raced' = IF Revoking(c) THEN raced \cup {c} ELSE raced \ {c},
             Become(r, new), new.op = "callback", new.at = "stored",
             new.connection = {c}, new.state = request[r].state, DOMAIN new.list = {c}
      PROVE  HandlersInv'
  <2>1. request[r].state \in DOMAIN states
    BY DEF Store, At, HandlersInv, HandlerOK
  <2>2. HandlerOK(new)
    BY <1>1, <1>3, <2>1 DEF HandlerOK
  <2>3. \A q \in Requests : HandlerOK(request[q])'
    BY <1>1, <1>3, <2>2, HandlerMoves DEF registry, google
  <2> HIDE DEF c
  <2>4. DOMAIN vault' \subseteq Connections /\ vault' \in [DOMAIN vault' -> Entries]
    BY <1>1, <1>3 DEF HandlersInv, CustodyTypeOK
  <2>5. raced' \in SUBSET Connections
    BY <1>1, <1>3 DEF HandlersInv, CustodyTypeOK
  <2>6. CustodyTypeOK'
    BY <1>1, <1>3, <2>4, <2>5, Becomes DEF HandlersInv, CustodyTypeOK, registry, google
  <2> QED
    BY <2>3, <2>6 DEF HandlersInv
<1>4. \/ Finish(r) /\ UNCHANGED <<vault, raced>>
      \/ \E entry \in Entries, new \in Handlers :
           /\ vault' = [d \in DOMAIN vault \cup {c} |-> IF d = c THEN entry ELSE vault[d]]
           /\ raced' = IF Revoking(c) THEN raced \cup {c} ELSE raced \ {c}
           /\ Become(r, new) /\ new.op = "callback" /\ new.at = "stored"
           /\ new.connection = {c} /\ new.state = request[r].state /\ DOMAIN new.list = {c}
  BY Stored
<1> HIDE DEF c
<1> QED
  BY <1>2, <1>3, <1>4

(* What a handler knows of its Connection when it is about to use it.      *)
LEMMA AtWork ==
  ASSUME HandlersInv, NEW r \in Requests
  PROVE  /\ request[r] \in Handlers /\ HandlerOK(request[r])
         /\ request[r].op \in {"deploy", "callback", "revoke", "remove", "call"} =>
              Target(r) \in Connections /\ request[r].connection = {Target(r)}
<1>1. request[r] \in Handlers /\ HandlerOK(request[r])
  BY DEF HandlersInv, CustodyTypeOK
<1> QED
  BY <1>1, TargetIs DEF HandlerOK

(* The lists that are told to the registry.                                *)
LEMMA RegistryKeepsHandlers ==
  ASSUME HandlersInv, NEW r \in Requests,
         \/ SaveProviderConnection(r) \/ RemoveProviderConnection(r) \/ Reconcile(r) \/ Deploy(r)
  PROVE  HandlersInv'
<1>0. request[r] \in Handlers /\ HandlerOK(request[r]) /\ request[r].list \in Lists
  BY AtWork DEF Handlers
<1>1. CASE SaveProviderConnection(r)
  <2> DEFINE c == Target(r)
  <2>1. /\ request[r].op \in {"callback", "revoke"} /\ request[r].at = "stored"
        /\ copy' = [d \in DOMAIN copy \cup {c} |->
                      IF d = c THEN request[r].list[d] ELSE copy[d]]
        /\ Finish(r)
        /\ UNCHANGED <<providerApps, vault, states, managed, referenced, google, raced>>
    BY <1>1 DEF SaveProviderConnection, At
  <2>2. c \in Connections /\ c \in DOMAIN request[r].list
    BY <1>0, <2>1, AtWork DEF HandlerOK
  <2>3. request[r].list[c] \in Summaries
    BY <1>0, <2>2, ListType
  <2>4. DOMAIN copy \in SUBSET Connections /\ copy \in [DOMAIN copy -> Summaries]
    BY ListType DEF HandlersInv, CustodyTypeOK
  <2> HIDE DEF c
  <2>5. DOMAIN copy' \in SUBSET Connections /\ copy' \in [DOMAIN copy' -> Summaries]
    BY <2>1, <2>2, <2>3, <2>4
  <2>6. copy' \in Lists
    BY <2>5, ListType
  <2> QED
    BY <2>1, <2>6, FinishMoves DEF HandlersInv, CustodyTypeOK, google
<1>2. CASE RemoveProviderConnection(r)
  <2>1. /\ copy' = Restrict(copy, DOMAIN copy \ {Target(r)})
        /\ Finish(r)
        /\ UNCHANGED <<providerApps, vault, states, managed, referenced, google, raced>>
    BY <1>2 DEF RemoveProviderConnection
  <2>2. DOMAIN copy \in SUBSET Connections /\ copy \in [DOMAIN copy -> Summaries]
    BY ListType DEF HandlersInv, CustodyTypeOK
  <2>3. DOMAIN copy' \in SUBSET Connections /\ copy' \in [DOMAIN copy' -> Summaries]
    BY <2>1, <2>2 DEF Restrict
  <2>4. copy' \in Lists
    BY <2>3, ListType
  <2> QED
    BY <2>1, <2>4, FinishMoves DEF HandlersInv, CustodyTypeOK, google
<1>3. CASE Reconcile(r)
  <2> DEFINE list == Restrict(request[r].list, request[r].connection)
             next == [request[r] EXCEPT !.at = "found", !.list = list]
  <2>1. /\ request[r].op = "list"
        /\ ReconcileProviderConnections(request[r].list)
        /\ UNCHANGED <<providerApps, vault, states, referenced, google, raced>>
        /\ \/ Finish(r)
           \/ /\ request[r].connection # {}
              /\ request[r].connection \subseteq DOMAIN request[r].list
              /\ Become(r, next)
    BY <1>3 DEF Reconcile, At
  <2>2. CASE Finish(r)
    BY <1>0, <2>1, <2>2, FinishMoves, ReconcileType DEF HandlersInv, CustodyTypeOK, google
  <2>3. CASE ~Finish(r)
    <3>1. list \in Lists /\ DOMAIN list = request[r].connection
      BY <1>0, <2>1, <2>3, ListType DEF Restrict
    <3> HIDE DEF list
    <3>2. PICK new \in Handlers :
            /\ Become(r, new) /\ new.op = "list" /\ new.at = "found"
            /\ new.connection = request[r].connection /\ DOMAIN new.list = new.connection
      <4>1. /\ next \in Handlers /\ next.op = "list" /\ next.at = "found"
            /\ next.connection = request[r].connection /\ next.list = list
        BY <1>0, <2>1, <3>1 DEF Handlers
      <4> QED
        BY <2>1, <2>3, <3>1, <4>1
    <3>3. HandlerOK(new)
      BY <1>0, <2>1, <2>3, <3>2 DEF HandlerOK
    <3>4. \A q \in Requests : HandlerOK(request[q])'
      BY <2>1, <3>2, <3>3, HandlerMoves DEF google
    <3> QED
      BY <1>0, <2>1, <3>2, <3>4, Becomes, ReconcileType DEF HandlersInv, CustodyTypeOK, google
  <2> QED
    BY <2>2, <2>3
<1>4. CASE Deploy(r)
  <2>1. /\ ReconcileProviderConnections(request[r].list)
        /\ referenced' = referenced \cup
             {c \in request[r].connection \cap DOMAIN managed' : managed'[c] = "healthy"}
        /\ Finish(r)
        /\ UNCHANGED <<providerApps, vault, states, google, raced>>
    BY <1>4 DEF Deploy
  <2>2. referenced' \in SUBSET Connections
    BY <1>0, <2>1 DEF Handlers, HandlersInv, CustodyTypeOK
  <2> QED
    BY <1>0, <2>1, <2>2, FinishMoves, ReconcileType DEF HandlersInv, CustodyTypeOK, google
<1> QED
  BY <1>1, <1>2, <1>3, <1>4

(* A handler that goes on, or ends, and leaves all but Google's live       *)
(* tokens as they are.                                                     *)
LEMMA LeaseMoves ==
  ASSUME HandlersInv, NEW r \in Requests,
         LeaseForRevocation(r) \/ RevokeAtGoogle(r) \/ Refresh(r) \/ Abandon(r)
  PROVE  \E new \in Handlers :
           /\ Become(r, new)
           /\ \/ new = Idle
              \/ /\ new.op \in {"revoke", "remove", "call"}
                 /\ new.at \in {"leased", "revoked", "refused"}
                 /\ new.op = request[r].op /\ new.connection = request[r].connection
                 /\ new.at = "leased" => new.token = vault[Target(r)].token
                 /\ new.at = "revoked" => /\ request[r].at = "leased"
                                          /\ request[r].token \in live
                                          /\ live' = live \ SameGrant(request[r].token)
<1> DEFINE leased == [request[r] EXCEPT !.at = "leased", !.token = vault[Target(r)].token]
           moved(at) == [request[r] EXCEPT !.at = at]
<1>1. request[r] \in Handlers
  BY AtWork
<1>2. CASE Finish(r)
  BY <1>2, IdleType DEF Finish
<1>3. CASE Target(r) \in DOMAIN vault /\ request[r].op = "remove" /\ Become(r, leased)
  <2>1. vault[Target(r)].token \in Nat
    BY <1>3 DEF HandlersInv, CustodyTypeOK, Entries
  <2>2. /\ leased \in Handlers /\ leased.op = request[r].op /\ leased.at = "leased"
        /\ leased.connection = request[r].connection
        /\ leased.token = vault[Target(r)].token
    BY <1>1, <2>1 DEF Handlers
  <2> HIDE DEF leased
  <2> QED
    BY <1>3, <2>2
<1>4. ASSUME NEW at \in {"revoked", "refused"}, Become(r, moved(at)),
             request[r].op \in {"revoke", "remove", "call"},
             at = "revoked" => /\ request[r].at = "leased"
                               /\ request[r].token \in live
                               /\ live' = live \ SameGrant(request[r].token)
      PROVE  \E new \in Handlers :
               /\ Become(r, new)
               /\ new.op \in {"revoke", "remove", "call"}
               /\ new.at \in {"revoked", "refused"}
               /\ new.op = request[r].op /\ new.connection = request[r].connection
               /\ new.at = "revoked" => /\ request[r].at = "leased"
                                        /\ request[r].token \in live
                                        /\ live' = live \ SameGrant(request[r].token)
  <2>1. /\ moved(at) \in Handlers /\ moved(at).op = request[r].op /\ moved(at).at = at
        /\ moved(at).connection = request[r].connection
    BY <1>1, <1>4 DEF Handlers
  <2> HIDE DEF moved
  <2> QED
    BY <1>4, <2>1
<1>5. CASE LeaseForRevocation(r)
  BY <1>2, <1>3, <1>5 DEF LeaseForRevocation, At
<1>6. CASE RevokeAtGoogle(r)
  <2>1. \/ Finish(r)
        \/ /\ request[r].op \in {"revoke", "remove", "call"} /\ request[r].at = "leased"
           /\ request[r].token \in live
           /\ live' = live \ SameGrant(request[r].token)
           /\ Become(r, moved("revoked"))
    BY <1>6 DEF RevokeAtGoogle, At, Goto
  <2> HIDE DEF moved
  <2> QED
    BY <1>2, <1>4, <2>1
<1>7. CASE Refresh(r)
  <2>1. \/ Finish(r)
        \/ request[r].op \in {"revoke", "remove", "call"} /\ Become(r, moved("refused"))
    BY <1>7 DEF Refresh, At, Goto
  <2> HIDE DEF moved
  <2> QED
    BY <1>2, <1>4, <2>1
<1>8. CASE Abandon(r)
  BY <1>2, <1>8 DEF Abandon
<1> QED
  BY <1>5, <1>6, <1>7, <1>8

LEMMA LeasesKeepHandlers ==
  ASSUME HandlersInv, NEW r \in Requests,
         LeaseForRevocation(r) \/ RevokeAtGoogle(r) \/ Refresh(r) \/ Abandon(r)
  PROVE  HandlersInv'
<1>1. request[r] \in Handlers /\ HandlerOK(request[r])
  BY AtWork
<1>2. /\ UNCHANGED <<providerApps, vault, registry, grants, raced>>
      /\ live' \in SUBSET Nat /\ withdrawn' \in SUBSET Nat
  <2>1. /\ UNCHANGED <<providerApps, vault, registry, grants, raced>>
        /\ \/ UNCHANGED <<live, withdrawn>>
           \/ /\ live' = live \ SameGrant(request[r].token)
              /\ withdrawn' = withdrawn \cup SameGrant(request[r].token)
    BY DEF LeaseForRevocation, RevokeAtGoogle, Refresh, Abandon, google
  <2>2. SameGrant(request[r].token) \in SUBSET Nat
    BY DEF SameGrant, Tokens
  <2> QED
    BY <2>1, <2>2 DEF HandlersInv, CustodyTypeOK
<1>3. PICK new \in Handlers :
        /\ Become(r, new)
        /\ \/ new = Idle
           \/ /\ new.op \in {"revoke", "remove", "call"}
              /\ new.at \in {"leased", "revoked", "refused"}
              /\ new.op = request[r].op /\ new.connection = request[r].connection
  BY LeaseMoves
<1>4. HandlerOK(new)
  <2>1. CASE new = Idle
    BY <2>1 DEF HandlerOK, Idle
  <2>2. CASE new # Idle
    BY <1>1, <1>3, <2>2 DEF HandlerOK
  <2> QED
    BY <2>1, <2>2
<1>5. \A q \in Requests : HandlerOK(request[q])'
  BY <1>2, <1>3, <1>4, HandlerMoves DEF registry
<1> QED
  BY <1>2, <1>3, <1>5, Becomes DEF HandlersInv, CustodyTypeOK, registry

(* The vault's own marks: a health is changed, or a Connection removed.    *)
LEMMA Marked ==
  ASSUME CustodyTypeOK, NEW c \in DOMAIN vault, NEW health \in Healths,
         vault' = [vault EXCEPT ![c].health = health]
  PROVE  /\ DOMAIN vault' = DOMAIN vault
         /\ vault' \in [DOMAIN vault -> Entries]
         /\ vault'[c].health = health
         /\ \A d \in DOMAIN vault :
              /\ d # c => vault'[d] = vault[d]
              /\ vault'[d].nickname = vault[d].nickname /\ vault'[d].app = vault[d].app
              /\ vault'[d].identity = vault[d].identity /\ vault'[d].token = vault[d].token
<1>1. \A d \in DOMAIN vault : vault[d] \in Entries
  BY DEF CustodyTypeOK
<1>2. /\ [vault[c] EXCEPT !.health = health] \in Entries
      /\ [vault[c] EXCEPT !.health = health].health = health
      /\ [vault[c] EXCEPT !.health = health].nickname = vault[c].nickname
      /\ [vault[c] EXCEPT !.health = health].app = vault[c].app
      /\ [vault[c] EXCEPT !.health = health].identity = vault[c].identity
      /\ [vault[c] EXCEPT !.health = health].token = vault[c].token
  BY <1>1 DEF Entries
<1>3. /\ DOMAIN vault' = DOMAIN vault
      /\ vault'[c] = [vault[c] EXCEPT !.health = health]
      /\ \A d \in DOMAIN vault : d # c => vault'[d] = vault[d]
      /\ vault' \in [DOMAIN vault -> Entries]
  BY <1>2 DEF CustodyTypeOK
<1> QED
  BY <1>2, <1>3

LEMMA VaultKeepsHandlers ==
  ASSUME HandlersInv, NEW r \in Requests,
         MarkRevoked(r) \/ RemoveAtVault(r) \/ MarkError(r)
  PROVE  HandlersInv'
<1> DEFINE c == Target(r)
<1>1. /\ request[r] \in Handlers /\ HandlerOK(request[r])
      /\ request[r].op \in {"revoke", "remove", "call"}
      /\ c \in Connections /\ request[r].connection = {c}
  BY AtWork DEF MarkRevoked, RemoveAtVault, MarkError, At
<1>2. UNCHANGED <<providerApps, registry, google, raced>>
  BY DEF MarkRevoked, RemoveAtVault, MarkError
<1>3. DOMAIN vault' \subseteq Connections /\ vault' \in [DOMAIN vault' -> Entries]
  <2>1. \/ UNCHANGED vault
        \/ c \in DOMAIN vault /\ vault' = [vault EXCEPT ![c].health = "revoked"]
        \/ c \in DOMAIN vault /\ vault' = [vault EXCEPT ![c].health = "error"]
        \/ vault' = Restrict(vault, DOMAIN vault \ {c})
    BY DEF MarkRevoked, RemoveAtVault, MarkError
  <2>2. CASE vault' = Restrict(vault, DOMAIN vault \ {c})
    BY <2>2 DEF HandlersInv, CustodyTypeOK, Restrict
  <2>3. DOMAIN vault \subseteq Connections /\ vault \in [DOMAIN vault -> Entries]
    BY DEF HandlersInv, CustodyTypeOK
  <2> HIDE DEF c
  <2> QED
    BY <2>1, <2>2, <2>3, Marked DEF HandlersInv, Healths
<1>4. \E new \in Handlers : Become(r, new) /\ HandlerOK(new)
  <2>1. CASE Finish(r)
    BY <2>1, IdleType DEF Finish, HandlerOK, Idle
  <2>2. CASE MarkRevoked(r) /\ c \in DOMAIN vault
    <3> DEFINE list == [d \in {c} |-> SummaryOf(vault'[c])]
               next == [request[r] EXCEPT !.at = "stored", !.list = list]
    <3>1. Become(r, next) /\ vault' = [vault EXCEPT ![c].health = "revoked"]
      BY <2>2 DEF MarkRevoked
    <3>2. vault'[c] \in Entries
      BY <1>3, <2>2, <3>1
    <3>3. SummaryOf(vault'[c]) \in Summaries
      BY <3>2 DEF Entries, SummaryOf, Summaries
    <3>4. list \in Lists /\ DOMAIN list = {c}
      BY <1>1, <3>3, ListType
    <3> HIDE DEF list
    <3>5. /\ next \in Handlers /\ next.op = request[r].op /\ next.at = "stored"
          /\ next.connection = {c} /\ next.list = list /\ next.state = request[r].state
      BY <1>1, <3>4 DEF Handlers
    <3> HIDE DEF next
    <3>6. HandlerOK(next)
      BY <1>1, <3>4, <3>5 DEF HandlerOK
    <3> QED
      BY <3>1, <3>5, <3>6
  <2>3. CASE RemoveAtVault(r) /\ c \in DOMAIN vault
    <3> DEFINE next == [request[r] EXCEPT !.at = "removed"]
    <3>1. Become(r, next)
      BY <2>3 DEF RemoveAtVault, Goto
    <3>2. /\ next \in Handlers /\ next.op = request[r].op /\ next.at = "removed"
          /\ next.connection = {c} /\ next.state = request[r].state
      BY <1>1 DEF Handlers
    <3> HIDE DEF next
    <3>3. HandlerOK(next)
      BY <1>1, <3>2 DEF HandlerOK
    <3> QED
      BY <3>1, <3>2, <3>3
  <2> QED
    BY <2>1, <2>2, <2>3 DEF MarkRevoked, RemoveAtVault, MarkError
<1>5. \A q \in Requests : HandlerOK(request[q])'
  BY <1>2, <1>4, HandlerMoves DEF registry, google
<1>6. CustodyTypeOK'
  BY <1>2, <1>3, <1>4, Becomes DEF HandlersInv, CustodyTypeOK, registry, google
<1> QED
  BY <1>5, <1>6 DEF HandlersInv

(* What happens outside every request.                                     *)
LEMMA OutsideKeepsHandlers ==
  ASSUME HandlersInv,
         \/ \E a \in Apps : StoreProviderApp(a)
         \/ \E s \in DOMAIN states : ExpireState(s)
         \/ \E t \in live : GrantLost(t)
         \/ UNCHANGED custodyVars
  PROVE  HandlersInv'
<1>1. UNCHANGED <<vault, copy, managed, referenced, request, grants, raced>>
  BY DEF StoreProviderApp, ExpireState, GrantLost, custodyVars, registry, google
<1>2. states' \in Seq(States) /\ DOMAIN states' = DOMAIN states
  <2>1. \/ UNCHANGED states
        \/ \E s \in DOMAIN states : states' = [states EXCEPT ![s].status = "expired"]
    BY DEF StoreProviderApp, ExpireState, GrantLost, custodyVars, registry
  <2> QED
    BY <2>1, StateMarked DEF HandlersInv, CustodyTypeOK
<1>3. providerApps' \in SUBSET Apps
  BY DEF StoreProviderApp, ExpireState, GrantLost, custodyVars, HandlersInv, CustodyTypeOK
<1>4. live' \in SUBSET Nat /\ withdrawn' \in SUBSET Nat
  <2>1. \A t : SameGrant(t) \in SUBSET Nat
    BY DEF SameGrant, Tokens
  <2>2. \/ UNCHANGED <<live, withdrawn>>
        \/ \E t : live' = live \ SameGrant(t) /\ withdrawn' = withdrawn \cup SameGrant(t)
    BY DEF StoreProviderApp, ExpireState, GrantLost, custodyVars, google
  <2> QED
    BY <2>1, <2>2 DEF HandlersInv, CustodyTypeOK
<1>5. \A q \in Requests : HandlerOK(request[q])'
  BY <1>1, <1>2 DEF HandlersInv, HandlerOK, Tokens
<1> QED
  BY <1>1, <1>2, <1>3, <1>4, <1>5 DEF HandlersInv, CustodyTypeOK

LEMMA HandlersStep == HandlersInv /\ [CustodyNext]_custodyVars => HandlersInv'
<1> SUFFICES ASSUME HandlersInv, [CustodyNext]_custodyVars PROVE HandlersInv'
  OBVIOUS
<1>1. ASSUME NEW r \in Requests, NEW c \in Connections,
             \/ BeginRevoke(r, c) \/ BeginRemove(r, c) \/ BeginCall(r, c) \/ BeginDeploy(r, c)
      PROVE  HandlersInv'
  BY <1>1, ArriveKeepsHandlers
<1>2. ASSUME NEW r \in Requests,
             NEW wanted \in {{}} \cup {{c} : c \in Connections}, BeginList(r, wanted)
      PROVE  HandlersInv'
  BY <1>2, ListKeepsHandlers
<1>3. ASSUME NEW r \in Requests,
             \/ \E c \in Connections, n \in Nicknames, a \in Apps : BeginAuthorize(r, c, n, a)
             \/ \E s \in DOMAIN states : BeginCallback(r, s)
             \/ Authorize(r) \/ BeginReauthorize(r)
      PROVE  HandlersInv'
  BY <1>3, ConsentKeepsHandlers
<1>4. ASSUME NEW r \in Requests, NEW i \in Identities, NEW scoped \in BOOLEAN,
             Exchange(r, i, scoped)
      PROVE  HandlersInv'
  BY <1>4, ExchangeKeepsHandlers
<1>5. ASSUME NEW r \in Requests,
             \/ Store(r) \/ SaveProviderConnection(r) \/ RemoveProviderConnection(r)
             \/ Reconcile(r) \/ Deploy(r)
      PROVE  HandlersInv'
  BY <1>5, StoreKeepsHandlers, RegistryKeepsHandlers
<1>6. ASSUME NEW r \in Requests,
             \/ LeaseForRevocation(r) \/ RevokeAtGoogle(r) \/ Refresh(r) \/ Abandon(r)
             \/ MarkRevoked(r) \/ RemoveAtVault(r) \/ MarkError(r)
      PROVE  HandlersInv'
  BY <1>6, LeasesKeepHandlers, VaultKeepsHandlers
<1> QED
  BY <1>1, <1>2, <1>3, <1>4, <1>5, <1>6, OutsideKeepsHandlers, CustodyCases

(* The records of the vault, the registry, Google and the requests at work *)
(* are what they are declared to be, and a request in the middle of its    *)
(* work still has the Connection, the state, the token and the list that   *)
(* its next step takes for granted.                                        *)
THEOREM HandlersKnow == CustodySpec => []HandlersInv
<1> QED
  BY HandlersInit, HandlersStep, PTL DEF CustodySpec

-----------------------------------------------------------------------------
(* What other requests may rely on is only at the points "taken", "leased" *)
(* and "revoked" of a handler; these steps take no handler there.          *)
Settles(r) == \A q \in Requests :
                request'[q] = request[q] \/ request'[q].at \notin {"taken", "leased", "revoked"}

LEMMA Settling ==
  ASSUME HandlersInv, NEW r \in Requests,
         \/ \E c \in Connections : BeginDeploy(r, c)
         \/ \E wanted \in {{}} \cup {{c} : c \in Connections} : BeginList(r, wanted)
         \/ \E c \in Connections, n \in Nicknames, a \in Apps : BeginAuthorize(r, c, n, a)
         \/ Authorize(r) \/ Reconcile(r) \/ BeginReauthorize(r) \/ Deploy(r)
         \/ \E i \in Identities, scoped \in BOOLEAN : Exchange(r, i, scoped)
         \/ Store(r) \/ SaveProviderConnection(r) \/ MarkRevoked(r)
         \/ RemoveAtVault(r) \/ RemoveProviderConnection(r)
         \/ Refresh(r) \/ MarkError(r) \/ Abandon(r)
  PROVE  Settles(r)
<1> DEFINE quiet == {"idle", "put", "fetched", "found", "exchanged", "stored", "removed", "refused"}
<1>1. ASSUME NEW new, Become(r, new), new.at \in quiet PROVE Settles(r)
  BY <1>1 DEF Settles, Become, HandlersInv, CustodyTypeOK
<1>2. request[r] \in Handlers
  BY DEF HandlersInv, CustodyTypeOK
<1>3. CASE Finish(r)
  BY <1>1, <1>3 DEF Finish, Idle
<1>4. ASSUME NEW c \in Connections, BeginDeploy(r, c) PROVE Settles(r)
  BY <1>1, <1>4 DEF BeginDeploy, Begin, Idle
<1>5. ASSUME NEW wanted, BeginList(r, wanted) PROVE Settles(r)
  BY <1>1, <1>5 DEF BeginList, Idle
<1>6. ASSUME NEW state, PutState(r, state) PROVE Settles(r)
  BY <1>1, <1>6 DEF PutState, Idle
<1>7. ASSUME NEW at \in quiet, Become(r, [request[r] EXCEPT !.at = at]) PROVE Settles(r)
  BY <1>1, <1>2, <1>7 DEF Handlers
<1>8. ASSUME NEW at \in quiet, NEW list, Become(r, [request[r] EXCEPT !.at = at, !.list = list])
      PROVE  Settles(r)
  BY <1>1, <1>2, <1>8 DEF Handlers
<1>9. ASSUME NEW at \in quiet, NEW t, Become(r, [request[r] EXCEPT !.at = at, !.token = t])
       PROVE  Settles(r)
  BY <1>1, <1>2, <1>9 DEF Handlers
<1> HIDE DEF quiet
<1>10. {"found", "exchanged", "stored", "removed", "refused"} \subseteq quiet
  BY DEF quiet
<1>11. CASE Store(r) \/ MarkRevoked(r) \/ Reconcile(r)
  BY <1>3, <1>8, <1>10, <1>11 DEF Store, MarkRevoked, Reconcile
<1>12. CASE RemoveAtVault(r) \/ Refresh(r)
  BY <1>3, <1>7, <1>10, <1>12 DEF RemoveAtVault, Refresh, Goto
<1>13. ASSUME NEW i, NEW scoped, Exchange(r, i, scoped) PROVE Settles(r)
  BY <1>3, <1>9, <1>10, <1>13 DEF Exchange
<1>14. CASE \/ Authorize(r) \/ Deploy(r) \/ SaveProviderConnection(r)
            \/ RemoveProviderConnection(r) \/ MarkError(r) \/ Abandon(r)
  BY <1>3, <1>14 DEF Authorize, Deploy, SaveProviderConnection, RemoveProviderConnection,
                     MarkError, Abandon
<1>15. CASE \/ \E c \in Connections, n \in Nicknames, a \in Apps : BeginAuthorize(r, c, n, a)
            \/ BeginReauthorize(r)
  BY <1>3, <1>6, <1>15 DEF BeginAuthorize, BeginReauthorize
<1> QED
  BY <1>4, <1>5, <1>11, <1>12, <1>13, <1>14, <1>15

-----------------------------------------------------------------------------
(* One exchange of a state.                                                *)
LEMMA ExchangeInit == CustodyInit => ExchangeInv
BY DEF CustodyInit, ExchangeInv, TakenOnce, OneExchange, Tokens, Idle

(* A step after which no more states are taken, and none is less.          *)
LEMMA TakenKept ==
  ASSUME ExchangeInv, UNCHANGED grants,
         \A s \in DOMAIN states : states[s].status = "taken" =>
           s \in DOMAIN states' /\ states'[s].status = "taken",
         \A q \in Requests : request'[q] = request[q] \/ request'[q].at # "taken"
  PROVE  ExchangeInv'
BY DEF ExchangeInv, TakenOnce, OneExchange, Tokens

LEMMA TakenExchanged ==
  ASSUME HandlersInv, ExchangeInv, NEW r \in Requests, NEW i \in Identities,
         NEW scoped \in BOOLEAN, Exchange(r, i, scoped)
  PROVE  ExchangeInv'
<1> DEFINE n == Len(grants) + 1
<1>1. /\ request[r].at = "taken" /\ n \in Nat
      /\ \A t \in Tokens : grants'[t] = grants[t]
      /\ grants'[n].state = request[r].state
      /\ states' = states
  BY Exchanged DEF registry
<1>2. Tokens' = Tokens \cup {n} /\ n \notin Tokens
  BY Exchanged DEF Tokens
<1>3. PICK new \in Handlers : Become(r, new) /\ new.at \in {"idle", "exchanged"}
  BY Exchanged DEF Idle
<1>4. request'[r] = new /\ \A q \in Requests \ {r} : request'[q] = request[q]
  BY <1>3, Becomes
<1> HIDE DEF n
<1>5. \A t \in Tokens' : /\ grants'[t].state \in DOMAIN states'
                         /\ states'[grants'[t].state].status = "taken"
  BY <1>1, <1>2 DEF ExchangeInv, TakenOnce
<1>6. ASSUME NEW q \in Requests, request'[q].at = "taken"
      PROVE  /\ q # r /\ request'[q] = request[q]
             /\ request'[q].state \in DOMAIN states'
             /\ states'[request'[q].state].status = "taken"
             /\ \A t \in Tokens' : grants'[t].state # request'[q].state
  <2>1. q # r /\ request'[q] = request[q]
    BY <1>3, <1>4, <1>6
  <2>2. request[q].state # request[r].state
    BY <1>1, <1>6, <2>1 DEF ExchangeInv, TakenOnce
  <2> QED
    BY <1>1, <1>2, <1>6, <2>1, <2>2 DEF ExchangeInv, TakenOnce
<1>7. TakenOnce'
  BY <1>5, <1>6 DEF ExchangeInv, TakenOnce
<1>8. OneExchange'
  BY <1>1, <1>2 DEF ExchangeInv, TakenOnce, OneExchange
<1> QED
  BY <1>7, <1>8 DEF ExchangeInv

LEMMA TakenBegins ==
  ASSUME HandlersInv, ExchangeInv, NEW r \in Requests, NEW s \in DOMAIN states,
         BeginCallback(r, s)
  PROVE  ExchangeInv'
<1>1. states[s] \in States /\ DOMAIN states \subseteq Nat
  BY DEF HandlersInv, CustodyTypeOK
<1>2. /\ states[s].status = "offered" /\ states' = [states EXCEPT ![s].status = "taken"]
      /\ grants' = grants
  BY DEF BeginCallback, TakeState, google
<1>3. /\ DOMAIN states' = DOMAIN states /\ states'[s].status = "taken"
      /\ \A z \in DOMAIN states : z # s => states'[z] = states[z]
  BY <1>2, StateMarked DEF HandlersInv
<1>4. PICK new \in Handlers : Become(r, new) /\ new.state = s
  BY <1>1, CallbackBegins
<1>5. request'[r] = new /\ \A q \in Requests \ {r} : request'[q] = request[q]
  BY <1>4, Becomes
<1>6. \A t \in Tokens : grants[t].state # s
  BY <1>2 DEF ExchangeInv, TakenOnce
<1>7. \A q \in Requests : request[q].at = "taken" => request[q].state # s
  BY <1>2 DEF ExchangeInv, TakenOnce
<1>8. \A t \in Tokens : /\ grants[t].state \in DOMAIN states'
                        /\ states'[grants[t].state].status = "taken"
  BY <1>3, <1>6 DEF ExchangeInv, TakenOnce
<1>9. \A q \in Requests : request'[q].at = "taken" =>
        /\ request'[q].state \in DOMAIN states'
        /\ states'[request'[q].state].status = "taken"
        /\ \A t \in Tokens : grants[t].state # request'[q].state
  BY <1>3, <1>4, <1>5, <1>6, <1>7 DEF ExchangeInv, TakenOnce
<1>10. \A p, q \in Requests :
         request'[p].at = "taken" /\ request'[q].at = "taken" =>
           (request'[p].state = request'[q].state => p = q)
  BY <1>4, <1>5, <1>7 DEF ExchangeInv, TakenOnce
<1>11. Tokens' = Tokens
  BY <1>2 DEF Tokens
<1> QED
  BY <1>2, <1>8, <1>9, <1>10, <1>11 DEF ExchangeInv, TakenOnce, OneExchange

LEMMA StatesIssued ==
  ASSUME HandlersInv, NEW r \in Requests,
         \/ \E c \in Connections, n \in Nicknames, a \in Apps : BeginAuthorize(r, c, n, a)
         \/ Authorize(r) \/ BeginReauthorize(r)
  PROVE  /\ grants' = grants
         /\ \A s \in DOMAIN states : states[s].status = "taken" =>
              s \in DOMAIN states' /\ states'[s].status = "taken"
<1>1. ASSUME NEW state, PutState(r, state)
      PROVE  \A s \in DOMAIN states : s \in DOMAIN states' /\ states'[s] = states[s]
  BY <1>1 DEF PutState, HandlersInv, CustodyTypeOK
<1>2. CASE Authorize(r)
  <2>1. request[r].state \in DOMAIN states
    BY <1>2, AtWork DEF Authorize, At, HandlerOK
  <2>2. CASE UNCHANGED states
    BY <1>2, <2>2 DEF Authorize, google
  <2>3. CASE ~UNCHANGED states
    <3>1. /\ states' = [states EXCEPT ![request[r].state].status = "offered"]
          /\ states[request[r].state].status = "put"
      BY <1>2, <2>3 DEF Authorize
    <3>2. /\ DOMAIN states' = DOMAIN states
          /\ \A z \in DOMAIN states : z # request[r].state => states'[z] = states[z]
      BY <2>1, <3>1, StateMarked DEF HandlersInv
    <3> QED
      BY <1>2, <3>1, <3>2 DEF Authorize, google
  <2> QED
    BY <2>2, <2>3
<1>3. CASE \E c \in Connections, n \in Nicknames, a \in Apps : BeginAuthorize(r, c, n, a)
  BY <1>1, <1>3 DEF BeginAuthorize, PutState, google
<1>4. CASE BeginReauthorize(r)
  <2>1. CASE UNCHANGED <<states, grants>>
    BY <2>1
  <2>2. CASE ~UNCHANGED <<states, grants>>
    BY <1>1, <1>4, <2>2 DEF BeginReauthorize, PutState, google, registry
  <2> QED
    BY <2>1, <2>2
<1> QED
  BY <1>2, <1>3, <1>4

LEMMA ExchangeStep ==
  HandlersInv /\ ExchangeInv /\ [CustodyNext]_custodyVars => ExchangeInv'
<1> SUFFICES ASSUME HandlersInv, ExchangeInv, [CustodyNext]_custodyVars PROVE ExchangeInv'
  OBVIOUS
<1>1. ASSUME NEW r \in Requests,
             \/ \E c \in Connections, n \in Nicknames, a \in Apps : BeginAuthorize(r, c, n, a)
             \/ Authorize(r) \/ BeginReauthorize(r)
      PROVE  ExchangeInv'
  BY <1>1, StatesIssued, Settling, TakenKept DEF Settles
<1>2. ASSUME NEW r \in Requests, NEW c \in Connections, BeginDeploy(r, c)
      PROVE  ExchangeInv'
  BY <1>2, Settling, TakenKept DEF Settles, BeginDeploy, google, registry
<1>3. ASSUME NEW r \in Requests, NEW wanted \in {{}} \cup {{c} : c \in Connections},
             BeginList(r, wanted)
      PROVE  ExchangeInv'
  BY <1>3, Settling, TakenKept DEF Settles, BeginList, google, registry
<1>4. ASSUME NEW r \in Requests,
             \/ Reconcile(r) \/ Deploy(r) \/ Store(r) \/ SaveProviderConnection(r)
             \/ MarkRevoked(r) \/ RemoveAtVault(r) \/ RemoveProviderConnection(r)
             \/ Refresh(r) \/ MarkError(r) \/ Abandon(r)
      PROVE  ExchangeInv'
  <2>1. UNCHANGED <<states, grants>>
    BY <1>4 DEF Reconcile, Deploy, Store, SaveProviderConnection, MarkRevoked, RemoveAtVault,
                RemoveProviderConnection, Refresh, MarkError, Abandon, google, registry
  <2>2. Settles(r)
    BY <1>4, Settling
  <2> QED
    BY <2>1, <2>2, TakenKept DEF Settles
<1>5. ASSUME NEW r \in Requests, NEW c \in Connections,
             BeginRevoke(r, c) \/ BeginRemove(r, c) \/ BeginCall(r, c)
      PROVE  ExchangeInv'
  <2>1. UNCHANGED <<states, grants>>
    BY <1>5 DEF BeginRevoke, BeginRemove, BeginCall, google, registry
  <2>2. \A q \in Requests : request'[q] = request[q] \/ request'[q].at # "taken"
    BY <1>5 DEF BeginRevoke, BeginRemove, BeginCall, Become, Begin, Idle, HandlersInv,
                CustodyTypeOK
  <2> QED
    BY <2>1, <2>2, TakenKept
<1>6. ASSUME NEW r \in Requests, LeaseForRevocation(r) \/ RevokeAtGoogle(r)
      PROVE  ExchangeInv'
  <2>1. UNCHANGED <<states, grants>>
    BY <1>6 DEF LeaseForRevocation, RevokeAtGoogle, google, registry
  <2>2. \E new \in Handlers : Become(r, new) /\ new.at # "taken"
    BY <1>6, LeaseMoves DEF Idle
  <2>3. \A q \in Requests : request'[q] = request[q] \/ request'[q].at # "taken"
    BY <2>2, Becomes
  <2> QED
    BY <2>1, <2>3, TakenKept
<1>7. ASSUME NEW s \in DOMAIN states, ExpireState(s) PROVE ExchangeInv'
  <2>1. /\ DOMAIN states' = DOMAIN states
        /\ \A z \in DOMAIN states : z # s => states'[z] = states[z]
    BY <1>7, StateMarked DEF ExpireState, HandlersInv
  <2> QED
    BY <1>7, <2>1, TakenKept DEF ExpireState, google
<1>8. CASE (\E a \in Apps : StoreProviderApp(a)) \/ (\E t \in live : GrantLost(t))
           \/ UNCHANGED custodyVars
  BY <1>8, TakenKept DEF StoreProviderApp, GrantLost, custodyVars, google, registry
<1> QED
  BY <1>1, <1>2, <1>3, <1>4, <1>5, <1>6, <1>7, <1>8, TakenBegins, TakenExchanged, CustodyCases

LEMMA ExchangeInvariant == CustodySpec => [](HandlersInv /\ ExchangeInv)
<1> QED
  BY HandlersInit, HandlersStep, ExchangeInit, ExchangeStep, PTL DEF CustodySpec

(* A state is exchanged for at most one refresh token, however often and   *)
(* however concurrently its callback arrives: it is taken for good before  *)
(* the exchange, and no two handlers go on with the same one.              *)
THEOREM StatesAreExchangedOnce == CustodySpec => []OneExchange
<1>1. ExchangeInv => OneExchange
  BY DEF ExchangeInv
<1> QED
  BY <1>1, ExchangeInvariant, PTL

-----------------------------------------------------------------------------
(* The tokens.                                                             *)
LEMMA VaultChanges ==
  ASSUME [CustodyNext]_custodyVars
  PROVE  \/ UNCHANGED vault
         \/ \E r \in Requests : Store(r) \/ MarkRevoked(r) \/ RemoveAtVault(r) \/ MarkError(r)
<1>1. ASSUME NEW r \in Requests,
             \/ \E c \in Connections, n \in Nicknames, a \in Apps : BeginAuthorize(r, c, n, a)
             \/ \E s \in DOMAIN states : BeginCallback(r, s)
             \/ \E c \in Connections : BeginRevoke(r, c)
             \/ \E c \in Connections : BeginRemove(r, c)
             \/ \E c \in Connections : BeginCall(r, c)
             \/ \E c \in Connections : BeginDeploy(r, c)
             \/ \E wanted \in {{}} \cup {{c} : c \in Connections} : BeginList(r, wanted)
      PROVE  UNCHANGED vault
  BY <1>1 DEF BeginAuthorize, PutState, BeginCallback, BeginRevoke, BeginRemove, BeginCall,
              BeginDeploy, BeginList
<1>2. ASSUME NEW r \in Requests,
             \/ Authorize(r) \/ Reconcile(r) \/ BeginReauthorize(r) \/ Deploy(r)
             \/ SaveProviderConnection(r) \/ LeaseForRevocation(r) \/ RevokeAtGoogle(r)
             \/ RemoveProviderConnection(r) \/ Refresh(r) \/ Abandon(r)
      PROVE  UNCHANGED vault
  BY <1>2 DEF Authorize, Reconcile, BeginReauthorize, PutState, Deploy, SaveProviderConnection,
              LeaseForRevocation, RevokeAtGoogle, RemoveProviderConnection, Refresh, Abandon
<1>3. ASSUME NEW r \in Requests, NEW i, NEW scoped, Exchange(r, i, scoped)
      PROVE  UNCHANGED vault
  BY <1>3 DEF Exchange
<1>4. CASE \/ \E a \in Apps : StoreProviderApp(a)
           \/ \E s \in DOMAIN states : ExpireState(s)
           \/ \E t \in live : GrantLost(t)
           \/ UNCHANGED custodyVars
  BY <1>4 DEF StoreProviderApp, ExpireState, GrantLost, custodyVars
<1> QED
  BY <1>1, <1>2, <1>3, <1>4, CustodyCases

LEMMA GoogleChanges ==
  ASSUME [CustodyNext]_custodyVars
  PROVE  \/ UNCHANGED google
         \/ \E r \in Requests, i \in Identities, scoped \in BOOLEAN : Exchange(r, i, scoped)
         \/ \E t : /\ grants' = grants /\ live' = live \ SameGrant(t)
                   /\ withdrawn' = withdrawn \cup SameGrant(t)
<1>1. ASSUME NEW r \in Requests,
             \/ \E c \in Connections, n \in Nicknames, a \in Apps : BeginAuthorize(r, c, n, a)
             \/ \E s \in DOMAIN states : BeginCallback(r, s)
             \/ \E c \in Connections : BeginRevoke(r, c)
             \/ \E c \in Connections : BeginRemove(r, c)
             \/ \E c \in Connections : BeginCall(r, c)
             \/ \E c \in Connections : BeginDeploy(r, c)
             \/ \E wanted \in {{}} \cup {{c} : c \in Connections} : BeginList(r, wanted)
      PROVE  UNCHANGED google
  BY <1>1 DEF BeginAuthorize, PutState, BeginCallback, BeginRevoke, BeginRemove, BeginCall,
              BeginDeploy, BeginList, google
<1>2. ASSUME NEW r \in Requests,
             \/ Authorize(r) \/ Reconcile(r) \/ BeginReauthorize(r) \/ Deploy(r) \/ Store(r)
             \/ SaveProviderConnection(r) \/ LeaseForRevocation(r) \/ MarkRevoked(r)
             \/ RemoveAtVault(r) \/ RemoveProviderConnection(r)
             \/ Refresh(r) \/ MarkError(r) \/ Abandon(r)
      PROVE  UNCHANGED google
  BY <1>2 DEF Authorize, Reconcile, BeginReauthorize, PutState, Deploy, Store,
              SaveProviderConnection, LeaseForRevocation, MarkRevoked, RemoveAtVault,
              RemoveProviderConnection, Refresh, MarkError, Abandon, google
<1>3. ASSUME NEW t, \/ \E r \in Requests : RevokeAtGoogle(r) /\ t = request[r].token
                    \/ GrantLost(t)
      PROVE  \/ UNCHANGED google
             \/ /\ grants' = grants /\ live' = live \ SameGrant(t)
                /\ withdrawn' = withdrawn \cup SameGrant(t)
  BY <1>3 DEF RevokeAtGoogle, GrantLost, google
<1>4. CASE \/ \E a \in Apps : StoreProviderApp(a)
           \/ \E s \in DOMAIN states : ExpireState(s)
           \/ UNCHANGED custodyVars
  BY <1>4 DEF StoreProviderApp, ExpireState, custodyVars, google
<1> QED
  BY <1>1, <1>2, <1>3, <1>4, CustodyCases

(* A token that is dead stays dead, and only an exchange mints one.        *)
LEMMA TokensStep ==
  ASSUME HandlersInv, TokensInv, [CustodyNext]_custodyVars
  PROVE  /\ TokensInv'
         /\ \A t \in Tokens : t \in live' => t \in live
<1>1. /\ live' \subseteq Tokens' /\ Tokens' \subseteq live' \cup withdrawn'
      /\ Tokens \subseteq Tokens' /\ \A t \in Tokens : t \in live' => t \in live
  <2>1. ASSUME NEW r \in Requests, NEW i \in Identities, NEW scoped \in BOOLEAN,
               Exchange(r, i, scoped)
        PROVE  /\ live' = live \cup {Len(grants) + 1} /\ withdrawn' = withdrawn
               /\ Tokens' = Tokens \cup {Len(grants) + 1} /\ Len(grants) + 1 \notin Tokens
    BY <2>1, Exchanged DEF Tokens
  <2>2. CASE UNCHANGED google
    BY <2>2 DEF TokensInv, google, Tokens
  <2>3. ASSUME NEW t, grants' = grants, live' = live \ SameGrant(t),
               withdrawn' = withdrawn \cup SameGrant(t)
        PROVE  /\ live' \subseteq Tokens' /\ Tokens' \subseteq live' \cup withdrawn'
               /\ Tokens \subseteq Tokens' /\ live' \subseteq live
    BY <2>3 DEF TokensInv, Tokens
  <2> QED
    BY <2>1, <2>2, <2>3, GoogleChanges DEF TokensInv
<1>2. \A c \in DOMAIN vault' : vault'[c].token \in Tokens
  <2>1. CASE UNCHANGED vault
    BY <2>1 DEF TokensInv
  <2>2. ASSUME NEW r \in Requests, Store(r)
        PROVE  \A c \in DOMAIN vault' : vault'[c].token \in Tokens
    <3> DEFINE c == Target(r)
    <3>1. \/ UNCHANGED vault
          \/ \E entry \in Entries :
               /\ Accepted(c, request[r].token, request[r].state, entry)
               /\ vault' = [d \in DOMAIN vault \cup {c} |-> IF d = c THEN entry ELSE vault[d]]
      BY <2>2, Stored
    <3>2. request[r].token \in Tokens
      BY <2>2, Stored
    <3> HIDE DEF c
    <3> QED
      BY <3>1, <3>2 DEF Accepted, TokensInv
  <2>3. ASSUME NEW r \in Requests, MarkRevoked(r) \/ RemoveAtVault(r) \/ MarkError(r)
        PROVE  \A c \in DOMAIN vault' : vault'[c].token \in Tokens
    <3>1. \/ UNCHANGED vault
          \/ \E c \in DOMAIN vault, health \in Healths :
               vault' = [vault EXCEPT ![c].health = health]
          \/ \E S : vault' = Restrict(vault, DOMAIN vault \ S)
      BY <2>3 DEF MarkRevoked, RemoveAtVault, MarkError, Healths
    <3>2. ASSUME NEW S, vault' = Restrict(vault, DOMAIN vault \ S)
          PROVE  \A c \in DOMAIN vault' : vault'[c].token \in Tokens
      BY <3>2 DEF Restrict, TokensInv
    <3> QED
      BY <3>1, <3>2, Marked DEF HandlersInv, TokensInv
  <2> QED
    BY <2>1, <2>2, <2>3, VaultChanges
<1> QED
  BY <1>1, <1>2 DEF TokensInv

LEMMA TokensInit == CustodyInit => TokensInv
BY DEF CustodyInit, TokensInv, Tokens, Nothing

LEMMA TokensInvariant == CustodySpec => [](HandlersInv /\ TokensInv)
<1>1. HandlersInv /\ TokensInv /\ [CustodyNext]_custodyVars => TokensInv'
  BY TokensStep
<1> QED
  BY <1>1, HandlersInit, HandlersStep, TokensInit, PTL DEF CustodySpec

(* No authorization that fails, and no tool call, takes a Connection's    *)
(* grant away: what a Connection holds is honoured by Google, or somebody  *)
(* revoked or removed a Connection of that grant, or Google let it lapse.  *)
THEOREM SiblingsAlwaysSurvive == CustodySpec => []SiblingsSurvive
<1>1. TokensInv => SiblingsSurvive
  BY DEF TokensInv, SiblingsSurvive
<1> QED
  BY <1>1, TokensInvariant, PTL

-----------------------------------------------------------------------------
(* What is revoked is dead.                                                *)
LEMMA RevokeInit == CustodyInit => RevokeInv
BY DEF CustodyInit, RevokeInv, RevokedIsDead, Nothing

(* A step that reauthorizes nothing, and kills what it marks revoked.      *)
LEMMA RevokedKept ==
  ASSUME RevokeInv, TokensInv, UNCHANGED raced,
         \A t \in Tokens : t \in live' => t \in live,
         DOMAIN vault' \subseteq DOMAIN vault,
         \A c \in DOMAIN vault' \ raced :
           /\ vault'[c].token = vault[c].token
           /\ vault'[c].health = "revoked" =>
                vault[c].health = "revoked" \/ vault[c].token \notin live,
         \A q \in Requests, c \in DOMAIN vault' \ raced :
           request'[q] # request[q] => Undisturbed(request[q], c)'
  PROVE  RevokeInv'
<1>1. ASSUME NEW q \in Requests, NEW c \in DOMAIN vault' \ raced
      PROVE  Undisturbed(request[q], c)'
  <2>1. CASE request'[q] = request[q]
    <3>1. Undisturbed(request[q], c) /\ vault[c].token \in Tokens
      BY DEF RevokeInv, TokensInv
    <3> QED
      BY <2>1, <3>1 DEF Undisturbed
  <2> QED
    BY <2>1
<1>2. RevokedIsDead'
  BY DEF RevokeInv, RevokedIsDead, TokensInv
<1> QED
  BY <1>1, <1>2 DEF RevokeInv

(* A reauthorization that overlaps no revocation of the Connection.        *)
LEMMA RevokedStored ==
  ASSUME HandlersInv, RevokeInv, NEW r \in Requests, Store(r)
  PROVE  RevokeInv'
<1> DEFINE c == Target(r)
<1>1. Settles(r) /\ live' = live
  BY Settling DEF Store, google
<1>2. c \in Connections
  BY Stored
<1>3. CASE UNCHANGED <<vault, raced>>
  BY <1>1, <1>3 DEF RevokeInv, RevokedIsDead, Settles, Undisturbed
<1>4. ASSUME NEW entry \in Entries, NEW new \in Handlers,
             Accepted(c, request[r].token, request[r].state, entry),
             vault' = [d \in DOMAIN vault \cup {c} |-> IF d = c THEN entry ELSE vault[d]],
             raced' = IF Revoking(c) THEN raced \cup {c} ELSE raced \ {c},
             Become(r, new), new.op = "callback"
      PROVE  RevokeInv'
  <2>1. request'[r] = new /\ \A q \in Requests \ {r} : request'[q] = request[q]
    BY <1>4, Becomes
  <2> HIDE DEF c
  <2>2. ASSUME NEW d \in DOMAIN vault' \ raced', d # c
        PROVE  d \in DOMAIN vault \ raced /\ vault'[d] = vault[d]
    BY <1>4, <2>2
  <2>3. c \in DOMAIN vault' /\ vault'[c] = entry
    BY <1>4
  <2>4. ASSUME NEW q \in Requests, NEW d \in DOMAIN vault' \ raced'
        PROVE  Undisturbed(request[q], d)'
    <3>1. CASE d # c
      BY <1>1, <2>2, <3>1 DEF RevokeInv, Settles, Undisturbed
    <3>2. CASE d = c /\ q = r
      BY <1>4, <2>1, <3>2 DEF Undisturbed
    <3>3. CASE d = c /\ q # r
      <4>1. ~Revoking(c)
        BY <1>4, <3>3
      <4> QED
        BY <2>1, <3>3, <4>1 DEF Undisturbed, Revoking
    <3> QED
      BY <3>1, <3>2, <3>3
  <2>5. entry.health = "healthy"
    BY <1>4 DEF Accepted
  <2>6. RevokedIsDead'
    BY <1>1, <2>2, <2>3, <2>5 DEF RevokeInv, RevokedIsDead
  <2> QED
    BY <2>4, <2>6 DEF RevokeInv
<1>5. \/ Finish(r) /\ UNCHANGED <<vault, raced>>
      \/ \E entry \in Entries, new \in Handlers :
           /\ Accepted(c, request[r].token, request[r].state, entry)
           /\ vault' = [d \in DOMAIN vault \cup {c} |-> IF d = c THEN entry ELSE vault[d]]
           /\ raced' = IF Revoking(c) THEN raced \cup {c} ELSE raced \ {c}
           /\ Become(r, new) /\ new.op = "callback" /\ new.at = "stored"
           /\ new.connection = {c} /\ new.state = request[r].state /\ DOMAIN new.list = {c}
  BY Stored
<1> HIDE DEF c
<1>6. CASE \E entry \in Entries, new \in Handlers :
             /\ Accepted(c, request[r].token, request[r].state, entry)
             /\ vault' = [d \in DOMAIN vault \cup {c} |-> IF d = c THEN entry ELSE vault[d]]
             /\ raced' = IF Revoking(c) THEN raced \cup {c} ELSE raced \ {c}
             /\ Become(r, new) /\ new.op = "callback" /\ new.at = "stored"
             /\ new.connection = {c} /\ new.state = request[r].state /\ DOMAIN new.list = {c}
  <2>1. PICK entry \in Entries, new \in Handlers :
          /\ Accepted(c, request[r].token, request[r].state, entry)
          /\ vault' = [d \in DOMAIN vault \cup {c} |-> IF d = c THEN entry ELSE vault[d]]
          /\ raced' = IF Revoking(c) THEN raced \cup {c} ELSE raced \ {c}
          /\ Become(r, new) /\ new.op = "callback"
    BY <1>6
  <2> QED
    BY <1>4, <2>1
<1> QED
  BY <1>3, <1>5, <1>6

(* The vault's other writes.                                               *)
LEMMA RevokedMarked ==
  ASSUME HandlersInv, TokensInv, RevokeInv, NEW r \in Requests,
         MarkRevoked(r) \/ RemoveAtVault(r) \/ MarkError(r),
         \A t \in Tokens : t \in live' => t \in live
  PROVE  RevokeInv'
<1> DEFINE c == Target(r)
<1>1. request[r].op \in {"revoke", "remove", "call"} /\ request[r].connection = {c}
  BY AtWork DEF MarkRevoked, RemoveAtVault, MarkError, At
<1>2. Settles(r) /\ raced' = raced
  BY Settling DEF MarkRevoked, RemoveAtVault, MarkError
<1>3. \A q \in Requests, d \in DOMAIN vault' \ raced :
        request'[q] # request[q] => Undisturbed(request[q], d)'
  BY <1>2 DEF Settles, Undisturbed
<1>4. CASE UNCHANGED vault
  BY <1>2, <1>3, <1>4, RevokedKept
<1>5. CASE MarkRevoked(r) /\ c \in DOMAIN vault
  <2>1. vault' = [vault EXCEPT ![c].health = "revoked"]
    BY <1>5 DEF MarkRevoked
  <2>2. c \in DOMAIN vault \ raced => vault[c].token \notin live
    BY <1>1, <1>5 DEF RevokeInv, Undisturbed, MarkRevoked, At
  <2> HIDE DEF c
  <2>3. /\ DOMAIN vault' = DOMAIN vault
        /\ \A d \in DOMAIN vault : /\ vault'[d].token = vault[d].token
                                   /\ d # c => vault'[d] = vault[d]
    BY <1>5, <2>1, Marked DEF HandlersInv, Healths
  <2>4. /\ DOMAIN vault' \subseteq DOMAIN vault
        /\ \A d \in DOMAIN vault' \ raced :
             /\ vault'[d].token = vault[d].token
             /\ vault'[d].health = "revoked" =>
                  vault[d].health = "revoked" \/ vault[d].token \notin live
    BY <2>2, <2>3
  <2> QED
    BY <1>2, <1>3, <2>4, RevokedKept
<1>6. CASE MarkError(r) /\ c \in DOMAIN vault
  <2>1. vault' = [vault EXCEPT ![c].health = "error"]
    BY <1>6 DEF MarkError
  <2> HIDE DEF c
  <2>2. /\ DOMAIN vault' = DOMAIN vault /\ vault'[c].health = "error"
        /\ \A d \in DOMAIN vault : /\ vault'[d].token = vault[d].token
                                   /\ d # c => vault'[d] = vault[d]
    BY <1>6, <2>1, Marked DEF HandlersInv, Healths
  <2>3. /\ DOMAIN vault' \subseteq DOMAIN vault
        /\ \A d \in DOMAIN vault' \ raced :
             /\ vault'[d].token = vault[d].token
             /\ vault'[d].health = "revoked" =>
                  vault[d].health = "revoked" \/ vault[d].token \notin live
    BY <2>2
  <2> QED
    BY <1>2, <1>3, <2>3, RevokedKept
<1>7. CASE vault' = Restrict(vault, DOMAIN vault \ {c})
  <2> HIDE DEF c
  <2>1. /\ DOMAIN vault' \subseteq DOMAIN vault
        /\ \A d \in DOMAIN vault' : vault'[d] = vault[d]
    BY <1>7 DEF Restrict
  <2> QED
    BY <1>2, <1>3, <2>1, RevokedKept
<1> QED
  BY <1>4, <1>5, <1>6, <1>7 DEF MarkRevoked, RemoveAtVault, MarkError

(* A revocation or a removal begins, leases a token and gets it revoked.   *)
LEMMA RevokedLeased ==
  ASSUME HandlersInv, TokensInv, RevokeInv, NEW r \in Requests,
         \/ \E c \in Connections : BeginRevoke(r, c) \/ BeginRemove(r, c) \/ BeginCall(r, c)
         \/ \E s \in DOMAIN states : BeginCallback(r, s)
         \/ LeaseForRevocation(r) \/ RevokeAtGoogle(r),
         \A t \in Tokens : t \in live' => t \in live
  PROVE  RevokeInv'
<1>1. UNCHANGED <<vault, grants, raced>>
  BY DEF BeginRevoke, BeginRemove, BeginCall, BeginCallback, LeaseForRevocation,
         RevokeAtGoogle, google
<1>2. ASSUME NEW new \in Handlers, Become(r, new),
             \A c \in DOMAIN vault \ raced :
               new.op \in {"revoke", "remove"} /\ new.connection = {c} =>
                 /\ new.at = "leased" => new.token = vault[c].token
                 /\ new.at = "revoked" => vault[c].token \notin live'
      PROVE  RevokeInv'
  <2>1. request'[r] = new /\ \A q \in Requests \ {r} : request'[q] = request[q]
    BY <1>2, Becomes
  <2>2. \A q \in Requests, c \in DOMAIN vault' \ raced :
          request'[q] # request[q] => Undisturbed(request[q], c)'
    BY <1>1, <1>2, <2>1 DEF Undisturbed
  <2> QED
    BY <1>1, <2>2, RevokedKept
<1>3. ASSUME NEW c \in Connections, BeginRevoke(r, c) \/ BeginCall(r, c)
      PROVE  RevokeInv'
  <2> DEFINE new(op) == [Begin(r, op, "leased", c) EXCEPT !.token = vault[c].token]
  <2>1. c \in DOMAIN vault /\ \E op \in {"revoke", "call"} : Become(r, new(op))
    BY <1>3 DEF BeginRevoke, BeginCall
  <2>2. vault[c].token \in Nat
    BY <2>1 DEF HandlersInv, CustodyTypeOK, Entries
  <2>3. \A op \in {"revoke", "call"} :
          /\ new(op) \in Handlers /\ new(op).at = "leased" /\ new(op).connection = {c}
          /\ new(op).token = vault[c].token
    BY <2>2, IdleType DEF Begin, Handlers
  <2> HIDE DEF new
  <2> QED
    BY <1>2, <2>1, <2>3
<1>4. ASSUME NEW c \in Connections, BeginRemove(r, c) PROVE RevokeInv'
  <2> DEFINE new(at) == Begin(r, "remove", at, c)
  <2>1. /\ c \in DOMAIN vault /\ live' = live
        /\ \E at \in {"read", "revoked"} :
             Become(r, new(at)) /\ (at = "revoked" => vault[c].health = "revoked")
    BY <1>4 DEF BeginRemove, google
  <2>2. \A at \in {"read", "revoked"} :
          new(at) \in Handlers /\ new(at).at = at /\ new(at).connection = {c}
    BY IdleType DEF Begin, Handlers
  <2> HIDE DEF new
  <2> QED
    BY <1>2, <2>1, <2>2 DEF RevokeInv, RevokedIsDead
<1>5. ASSUME NEW s \in DOMAIN states, BeginCallback(r, s) PROVE RevokeInv'
  <2>1. s \in Nat /\ states[s] \in States
    BY DEF HandlersInv, CustodyTypeOK
  <2> QED
    BY <1>2, <1>5, <2>1, CallbackBegins
<1>6. CASE LeaseForRevocation(r) \/ RevokeAtGoogle(r)
  <2>1. PICK new \in Handlers :
          /\ Become(r, new)
          /\ \/ new = Idle
             \/ /\ new.op = request[r].op /\ new.connection = request[r].connection
                /\ new.at = "leased" => new.token = vault[Target(r)].token
                /\ new.at = "revoked" => /\ request[r].at = "leased"
                                         /\ live' = live \ SameGrant(request[r].token)
    BY <1>6, LeaseMoves
  <2>2. request[r].op \in {"revoke", "remove"} /\ request[r].connection = {Target(r)}
    BY <1>6, AtWork DEF LeaseForRevocation, RevokeAtGoogle, At
  <2>3. ASSUME NEW c \in DOMAIN vault \ raced, new.op \in {"revoke", "remove"},
               new.connection = {c}
        PROVE  /\ new.at = "leased" => new.token = vault[c].token
               /\ new.at = "revoked" => vault[c].token \notin live'
    <3>1. /\ new # Idle /\ request[r].connection = {c} /\ c = Target(r)
      BY <2>1, <2>2, <2>3 DEF Idle
    <3>2. request[r].at = "leased" => request[r].token = vault[c].token
      BY <2>2, <3>1 DEF RevokeInv, Undisturbed
    <3>3. vault[c].token \in SameGrant(vault[c].token)
      BY DEF SameGrant, TokensInv
    <3> QED
      BY <2>1, <3>1, <3>2, <3>3
  <2> QED
    BY <1>2, <2>1, <2>3
<1> QED
  BY <1>3, <1>4, <1>5, <1>6

LEMMA RevokeStep ==
  HandlersInv /\ TokensInv /\ RevokeInv /\ [CustodyNext]_custodyVars => RevokeInv'
<1> SUFFICES ASSUME HandlersInv, TokensInv, RevokeInv, [CustodyNext]_custodyVars
             PROVE  RevokeInv'
  OBVIOUS
<1>1. \A t \in Tokens : t \in live' => t \in live
  BY TokensStep
<1>2. ASSUME UNCHANGED <<vault, raced>>,
             \A q \in Requests :
               request'[q] = request[q] \/ request'[q].at \notin {"taken", "leased", "revoked"}
      PROVE  RevokeInv'
  BY <1>1, <1>2, RevokedKept DEF Undisturbed
<1>3. ASSUME NEW r \in Requests,
             \/ \E c \in Connections : BeginDeploy(r, c)
             \/ \E wanted \in {{}} \cup {{c} : c \in Connections} : BeginList(r, wanted)
             \/ \E c \in Connections, n \in Nicknames, a \in Apps : BeginAuthorize(r, c, n, a)
             \/ Authorize(r) \/ Reconcile(r) \/ BeginReauthorize(r) \/ Deploy(r)
             \/ \E i \in Identities, scoped \in BOOLEAN : Exchange(r, i, scoped)
             \/ SaveProviderConnection(r) \/ RemoveProviderConnection(r)
             \/ Refresh(r) \/ Abandon(r)
      PROVE  RevokeInv'
  <2>1. Settles(r)
    BY <1>3, Settling
  <2>2. UNCHANGED <<vault, raced>>
    BY <1>3 DEF BeginDeploy, BeginList, BeginAuthorize, PutState, Authorize, Reconcile,
                BeginReauthorize, Deploy, Exchange, SaveProviderConnection,
                RemoveProviderConnection, Refresh, Abandon
  <2> QED
    BY <1>2, <2>1, <2>2 DEF Settles
<1>4. CASE \/ \E a \in Apps : StoreProviderApp(a)
           \/ \E s \in DOMAIN states : ExpireState(s)
           \/ \E t \in live : GrantLost(t)
           \/ UNCHANGED custodyVars
  BY <1>2, <1>4 DEF StoreProviderApp, ExpireState, GrantLost, custodyVars
<1>5. ASSUME NEW r \in Requests, MarkRevoked(r) \/ RemoveAtVault(r) \/ MarkError(r)
      PROVE  RevokeInv'
  BY <1>1, <1>5, RevokedMarked
<1>6. ASSUME NEW r \in Requests, Store(r) PROVE RevokeInv'
  BY <1>6, RevokedStored
<1>7. ASSUME NEW r \in Requests,
             \/ \E c \in Connections : BeginRevoke(r, c) \/ BeginRemove(r, c) \/ BeginCall(r, c)
             \/ \E s \in DOMAIN states : BeginCallback(r, s)
             \/ LeaseForRevocation(r) \/ RevokeAtGoogle(r)
      PROVE  RevokeInv'
  BY <1>1, <1>7, RevokedLeased
<1> QED
  BY <1>3, <1>4, <1>5, <1>6, <1>7, CustodyCases

LEMMA RevokeInvariant == CustodySpec => [](HandlersInv /\ TokensInv /\ RevokeInv)
<1>1. HandlersInv /\ TokensInv /\ [CustodyNext]_custodyVars => TokensInv'
  BY TokensStep
<1> QED
  BY <1>1, HandlersInit, HandlersStep, TokensInit, RevokeInit, RevokeStep, PTL DEF CustodySpec

(* A Connection the vault calls revoked holds a token Google no longer     *)
(* honours, unless a reauthorization overlapped a revocation of it: the    *)
(* revocation leased the very token the Connection still holds.            *)
THEOREM RevokedIsAlwaysDead == CustodySpec => []RevokedIsDead
<1>1. RevokeInv => RevokedIsDead
  BY DEF RevokeInv
<1> QED
  BY <1>1, RevokeInvariant, PTL
-----------------------------------------------------------------------------
(* What a step may do to a Connection.                                     *)
LEMMA RemovalStep ==
  ASSUME HandlersInv, RevokeInv, [CustodyNext]_custodyVars,
         NEW c \in DOMAIN vault \ (DOMAIN vault' \cup raced)
  PROVE  vault[c].token \notin live
<1>1. CASE UNCHANGED vault
  BY <1>1
<1>2. ASSUME NEW r \in Requests, Store(r) PROVE FALSE
  <2>1. vault' = vault \/ \E d, entry : vault' = [x \in DOMAIN vault \cup {d} |->
                                                    IF x = d THEN entry ELSE vault[x]]
    BY <1>2 DEF Store
  <2> QED
    BY <2>1
<1>3. ASSUME NEW r \in Requests, MarkRevoked(r) \/ MarkError(r) PROVE FALSE
  <2>1. DOMAIN vault' = DOMAIN vault
    BY <1>3 DEF MarkRevoked, MarkError, HandlersInv, CustodyTypeOK
  <2> QED
    BY <2>1
<1>4. ASSUME NEW r \in Requests, RemoveAtVault(r) PROVE vault[c].token \notin live
  <2>1. /\ request[r].op = "remove" /\ request[r].at = "revoked"
        /\ request[r].connection = {Target(r)}
    BY <1>4, AtWork DEF RemoveAtVault, At
  <2>2. c = Target(r)
    BY <1>4 DEF RemoveAtVault, Restrict
  <2> QED
    BY <2>1, <2>2 DEF RevokeInv, Undisturbed
<1> QED
  BY <1>1, <1>2, <1>3, <1>4, VaultChanges

(* When a Connection leaves the vault its token is dead at Google, unless  *)
(* a reauthorization overlapped a revocation or removal of it: remove asks *)
(* Google first, and removes only what Google has withdrawn.               *)
THEOREM RemovalAlwaysRevokes == CustodySpec => RemovalRevokes
<1> DEFINE Dead == \A c \in DOMAIN vault \ (DOMAIN vault' \cup raced) : vault[c].token \notin live
<1>1. HandlersInv /\ RevokeInv /\ [CustodyNext]_custodyVars => [Dead]_custodyVars
  BY RemovalStep
<1>2. CustodySpec => [][Dead]_custodyVars
  BY <1>1, RevokeInvariant, PTL DEF CustodySpec
<1> QED
  BY <1>2 DEF RemovalRevokes

(* A Connection that stays is the one it was, and one that comes is new.   *)
SameIdentity(c) ==
  /\ vault'[c].nickname = vault[c].nickname
  /\ vault'[c].app = vault[c].app
  /\ vault'[c].identity = vault[c].identity

NewIdentity(c) ==
  /\ states[grants[vault'[c].token].state].flow = "create"
  /\ \A d \in DOMAIN vault : vault[d].nickname # vault'[c].nickname

LEMMA StoredIdentity ==
  ASSUME HandlersInv, NEW r \in Requests, Store(r)
  PROVE  /\ \A c \in DOMAIN vault \cap DOMAIN vault' : SameIdentity(c)
         /\ \A c \in DOMAIN vault' \ DOMAIN vault : NewIdentity(c)
<1> DEFINE c == Target(r)
           t == request[r].token
           s == request[r].state
<1>1. \/ UNCHANGED vault
      \/ \E entry \in Entries :
           /\ Accepted(c, t, s, entry)
           /\ vault' = [d \in DOMAIN vault \cup {c} |-> IF d = c THEN entry ELSE vault[d]]
  BY Stored
<1>2. grants[t].state = s
  BY Stored
<1> HIDE DEF c, t, s
<1>3. CASE UNCHANGED vault
  BY <1>3 DEF SameIdentity
<1>4. ASSUME NEW entry \in Entries, Accepted(c, t, s, entry),
             vault' = [d \in DOMAIN vault \cup {c} |-> IF d = c THEN entry ELSE vault[d]]
      PROVE  /\ \A d \in DOMAIN vault \cap DOMAIN vault' : SameIdentity(d)
             /\ \A d \in DOMAIN vault' \ DOMAIN vault : NewIdentity(d)
  <2>1. /\ entry.token = t
        /\ IF states[s].flow = "create" THEN Storable(c, entry) ELSE Replaceable(c, entry)
    BY <1>4 DEF Accepted
  <2>2. /\ DOMAIN vault' = DOMAIN vault \cup {c} /\ vault'[c] = entry
        /\ \A d \in DOMAIN vault : d # c => vault'[d] = vault[d]
    BY <1>4
  <2> QED
    BY <1>2, <2>1, <2>2 DEF Storable, Replaceable, SameIdentity, NewIdentity
<1> QED
  BY <1>1, <1>3, <1>4

(* A Connection keeps its nickname, Provider App and Google identity over  *)
(* every reauthorization and mark, and enters the vault only of a consent  *)
(* that was asked for to create it, under a nickname no other has.         *)
THEOREM IdentityIsPreserved == CustodySpec => IdentityPreserved
<1> DEFINE Kept == /\ \A c \in DOMAIN vault \cap DOMAIN vault' : SameIdentity(c)
                   /\ \A c \in DOMAIN vault' \ DOMAIN vault : NewIdentity(c)
<1>1. ASSUME HandlersInv, [CustodyNext]_custodyVars PROVE Kept
  <2>1. ASSUME NEW r \in Requests, Store(r) PROVE Kept
    BY <2>1, <1>1, StoredIdentity
  <2>2. ASSUME NEW r \in Requests, MarkRevoked(r) \/ RemoveAtVault(r) \/ MarkError(r)
        PROVE  Kept
    <3>1. \/ UNCHANGED vault
          \/ \E c \in DOMAIN vault, health \in Healths :
               vault' = [vault EXCEPT ![c].health = health]
          \/ \E S : vault' = Restrict(vault, DOMAIN vault \ S)
      BY <2>2 DEF MarkRevoked, RemoveAtVault, MarkError, Healths
    <3>2. CASE UNCHANGED vault
      BY <3>2 DEF SameIdentity
    <3>3. ASSUME NEW S, vault' = Restrict(vault, DOMAIN vault \ S) PROVE Kept
      BY <3>3 DEF Restrict, SameIdentity
    <3>4. ASSUME NEW c \in DOMAIN vault, NEW health \in Healths,
                 vault' = [vault EXCEPT ![c].health = health]
          PROVE  Kept
      BY <1>1, <3>4, Marked DEF HandlersInv, SameIdentity
    <3> QED
      BY <3>1, <3>2, <3>3, <3>4
  <2>3. CASE UNCHANGED vault
    BY <2>3 DEF SameIdentity
  <2> QED
    BY <1>1, <2>1, <2>2, <2>3, VaultChanges
<1>2. HandlersInv /\ [CustodyNext]_custodyVars => [Kept]_custodyVars
  BY <1>1
<1>3. []HandlersInv /\ [][CustodyNext]_custodyVars => [][Kept]_custodyVars
  BY <1>2, PTL
<1> QED
  BY <1>3, HandlersKnow, PTL DEF CustodySpec, IdentityPreserved, SameIdentity, NewIdentity

-----------------------------------------------------------------------------
(* The life of an id, from a vault, the states, and the ones of them that  *)
(* are open.                                                               *)
Creating(z, c) == {s \in DOMAIN z : z[s].connection = c /\ z[s].flow = "create"}

LifeFrom(v, z, open, c) ==
  LET s == CHOOSE s \in Creating(z, c) : TRUE
  IN  IF c \in DOMAIN v
      THEN Life!Held(v[c].nickname, v[c].app, v[c].identity)
      ELSE IF Creating(z, c) = {} THEN Life!Unused
      ELSE IF s \in open THEN Life!Asked(z[s].nickname, z[s].app) ELSE Life!Over

(* The states that may still make a Connection, and what every id stands   *)
(* for.                                                                    *)
OpenStates == {s \in DOMAIN states : Open(s)}
Lives == [c \in Connections |-> LifeOf(c)]

(* The life Custody names is this one, before a step                       *)
LEMMA LifeIs == \A c \in Connections : LifeOf(c) = LifeFrom(vault, states, OpenStates, c)
<1> SUFFICES ASSUME NEW c \in Connections
             PROVE  LifeOf(c) = LifeFrom(vault, states, OpenStates, c)
  OBVIOUS
<1>1. CASE StatesOf(c) = {}
  BY <1>1 DEF LifeOf, LifeFrom, StatesOf, Creating, Life!Held, Life!Unused
<1>2. CASE StatesOf(c) # {}
  <2> DEFINE s == CHOOSE s \in StatesOf(c) : TRUE
  <2>1. s \in StatesOf(c)
    BY <1>2
  <2>2. s \in OpenStates <=> Open(s)
    BY <2>1 DEF StatesOf, OpenStates
  <2>3. Creating(states, c) = StatesOf(c)
    BY DEF StatesOf, Creating
  <2> QED
    BY <1>2, <2>2, <2>3 DEF LifeOf, LifeFrom, Life!Held, Life!Asked, Life!Over
<1> QED
  BY <1>1, <1>2

(* and after it.                                                           *)
LEMMA LifeWillBe ==
  \A c \in Connections : LifeOf(c)' = LifeFrom(vault', states', OpenStates', c)
<1>1. (\A c \in Connections : LifeOf(c) = LifeFrom(vault, states, OpenStates, c))'
  BY LifeIs, PTL
<1> QED
  BY <1>1 DEF LifeFrom, Creating, Life!Held, Life!Asked, Life!Over, Life!Unused

(* What a life depends on.                                                 *)
LEMMA SameLife ==
  ASSUME NEW v, NEW w, NEW z, NEW y, NEW open, NEW after, NEW c,
         c \in DOMAIN v <=> c \in DOMAIN w,
         c \in DOMAIN v => /\ w[c].nickname = v[c].nickname /\ w[c].app = v[c].app
                          /\ w[c].identity = v[c].identity,
         Creating(y, c) = Creating(z, c),
         \A s \in Creating(z, c) : /\ y[s].nickname = z[s].nickname /\ y[s].app = z[s].app
                                   /\ s \in after <=> s \in open
  PROVE  LifeFrom(w, y, after, c) = LifeFrom(v, z, open, c)
<1> DEFINE s == CHOOSE s \in Creating(z, c) : TRUE
<1>1. Creating(z, c) # {} => s \in Creating(z, c)
  OBVIOUS
<1> QED
  BY <1>1 DEF LifeFrom

(* The life of an id that one state was issued for and the vault does not  *)
(* hold.                                                                   *)
LEMMA LifeOfAsked ==
  ASSUME NEW v, NEW z, NEW open, NEW c, c \notin DOMAIN v, NEW s \in Creating(z, c),
         \A u \in Creating(z, c) : u = s
  PROVE  LifeFrom(v, z, open, c)
           = IF s \in open THEN Life!Asked(z[s].nickname, z[s].app) ELSE Life!Over
BY DEF LifeFrom

(* No two states may make one id a Connection; of the handlers that work   *)
(* for a callback each has taken a state of its own, and is about the id   *)
(* it is for; and the state that made a Connection is no longer open.      *)
OneCreating(z) ==
  \A c : \A s, u \in Creating(z, c) : s = u

FlightInv ==
  /\ \A r \in Requests : InFlight(request[r]) =>
       /\ request[r].state \in DOMAIN states
       /\ states[request[r].state].status = "taken"
       /\ request[r].connection = {states[request[r].state].connection}
  /\ \A r, q \in Requests :
       InFlight(request[r]) /\ InFlight(request[q]) /\ request[r].state = request[q].state
         => r = q

Settled(v, z, open) == \A c \in DOMAIN v : \E s \in Creating(z, c) : s \notin open

LifeInv == OneCreating(states) /\ FlightInv /\ Settled(vault, states, OpenStates)

(* Nothing is asked for at the start.                                      *)
LEMMA LifeInit == CustodyInit => LifeInv
<1> SUFFICES ASSUME CustodyInit PROVE LifeInv
  OBVIOUS
<1>1. DOMAIN states = {} /\ DOMAIN vault = {}
  BY DEF CustodyInit, Nothing
<1>2. \A r \in Requests : ~InFlight(request[r])
  BY DEF CustodyInit, InFlight, Idle
<1> QED
  BY <1>1, <1>2 DEF LifeInv, OneCreating, Creating, FlightInv, Settled

(* A step that lets one id go on to what it stands for next.               *)
LEMMA OneLife ==
  ASSUME NEW c \in Connections, NEW new, LifeOf(c)' = new,
         \A d \in Connections \ {c} : LifeOf(d)' = LifeOf(d)
  PROVE  Lives' = [Lives EXCEPT ![c] = new]
<1>1. Lives' = [d \in Connections |-> LifeOf(d)']
  BY DEF Lives
<1> QED
  BY <1>1 DEF Lives

(* A step that lets every id stand for what it did.                        *)
LEMMA Stays ==
  ASSUME \A c \in Connections : LifeFrom(vault', states', OpenStates', c)
                                = LifeFrom(vault, states, OpenStates, c)
  PROVE  UNCHANGED Lives
<1>1. Lives' = [c \in Connections |-> LifeOf(c)']
  BY DEF Lives
<1>2. \A c \in Connections : LifeOf(c)' = LifeOf(c)
  BY LifeIs, LifeWillBe
<1> QED
  BY <1>1, <1>2 DEF Lives

(* States that were issued stay what they are for, and taken.              *)
Preserved ==
  \A s \in DOMAIN states :
    /\ s \in DOMAIN states'
    /\ states'[s].connection = states[s].connection /\ states'[s].flow = states[s].flow
    /\ states'[s].nickname = states[s].nickname /\ states'[s].app = states[s].app
    /\ states[s].status = "taken" => states'[s].status = "taken"

(* A handler that works for a callback after the step did so before it.    *)
Follows(q) ==
  InFlight(request'[q]) => /\ InFlight(request[q])
                           /\ request'[q].state = request[q].state
                           /\ request'[q].connection = request[q].connection

(* Such a step keeps what is known of the callbacks at work.               *)
LEMMA FlightKept ==
  ASSUME FlightInv, Preserved, \A q \in Requests : Follows(q)
  PROVE  FlightInv'
BY DEF FlightInv, Preserved, Follows

(* A step of one handler that begins no callback is such a step.           *)
LEMMA FollowsWhen ==
  ASSUME HandlersInv, NEW r \in Requests, NEW new, Become(r, new),
         InFlight(new) => /\ InFlight(request[r]) /\ new.state = request[r].state
                          /\ new.connection = request[r].connection
  PROVE  /\ \A q \in Requests : Follows(q)
         /\ request'[r] = new /\ \A q \in Requests \ {r} : request'[q] = request[q]
<1>1. request'[r] = new /\ \A q \in Requests \ {r} : request'[q] = request[q]
  BY DEF Become, HandlersInv, CustodyTypeOK
<1> QED
  BY <1>1 DEF Follows

(* A state closes, or none.                                                *)
LEMMA Closes ==
  ASSUME HandlersInv, LifeInv, Preserved, DOMAIN states' = DOMAIN states, UNCHANGED vault,
         NEW s \in DOMAIN states, OpenStates' = OpenStates \ {s}
  PROVE  Life!Next \/ UNCHANGED Lives
<1>1. PICK c \in Connections : c = states[s].connection
  <2>1. states[s] \in States
    BY DEF HandlersInv, CustodyTypeOK
  <2> QED
    BY <2>1 DEF States
<1>2. \A d : Creating(states', d) = Creating(states, d)
  BY DEF Preserved, Creating
<1>3. ASSUME NEW d \in Connections, d # c \/ s \notin Creating(states, c) \/ s \notin OpenStates
      PROVE  LifeFrom(vault', states', OpenStates', d) = LifeFrom(vault, states, OpenStates, d)
  <2>1. \A u \in Creating(states, d) :
          /\ states'[u].nickname = states[u].nickname /\ states'[u].app = states[u].app
          /\ u \in OpenStates' <=> u \in OpenStates
    BY <1>1, <1>3 DEF Preserved, Creating
  <2> QED
    BY <1>2, <2>1, SameLife
<1>4. CASE s \notin Creating(states, c) \/ s \notin OpenStates
  BY <1>3, <1>4, Stays
<1>5. CASE c \in DOMAIN vault
  <2>1. LifeFrom(vault', states', OpenStates', c) = LifeFrom(vault, states, OpenStates, c)
    BY <1>5 DEF LifeFrom
  <2> QED
    BY <1>3, <2>1, Stays
<1>6. CASE s \in Creating(states, c) /\ s \in OpenStates /\ c \notin DOMAIN vault
  <2>1. \A u \in Creating(states, c) : u = s
    BY <1>6 DEF LifeInv, OneCreating
  <2>2. LifeOf(c) = Life!Asked(states[s].nickname, states[s].app)
    BY <1>1, <1>6, <2>1, LifeOfAsked, LifeIs
  <2>3. LifeFrom(vault', states', OpenStates', c) = Life!Over
    <3>1. c \notin DOMAIN vault' /\ s \in Creating(states', c)
          /\ \A u \in Creating(states', c) : u = s
      BY <1>2, <1>6, <2>1
    <3>2. s \notin OpenStates'
      OBVIOUS
    <3> QED
      BY <3>1, <3>2, LifeOfAsked
  <2>4. LifeOf(c)' = Life!Over
    BY <1>1, <2>3, LifeWillBe
  <2>5. \A d \in Connections \ {c} : LifeOf(d)' = LifeOf(d)
    BY <1>3, LifeIs, LifeWillBe
  <2>6. Lives' = [Lives EXCEPT ![c] = Life!Over]
    BY <1>1, <2>4, <2>5, OneLife
  <2>7. Lives[c].phase = "asked"
    BY <1>1, <2>2 DEF Lives, Life!Asked
  <2>8. Life!GiveUp(c)
    BY <2>6, <2>7 DEF Lives, Life!GiveUp
  <2> QED
    BY <1>1, <2>8 DEF Life!Next
<1> QED
  BY <1>4, <1>5, <1>6

(* No state closes, and the vault keeps whom its entries stand for.        *)
LEMMA Unmoved ==
  ASSUME Preserved, DOMAIN states' = DOMAIN states, OpenStates' = OpenStates,
         DOMAIN vault' = DOMAIN vault,
         \A c \in DOMAIN vault :
           /\ vault'[c].nickname = vault[c].nickname /\ vault'[c].app = vault[c].app
           /\ vault'[c].identity = vault[c].identity
  PROVE  UNCHANGED Lives
<1>1. \A d : Creating(states', d) = Creating(states, d)
  BY DEF Preserved, Creating
<1>2. ASSUME NEW d \in Connections
      PROVE  LifeFrom(vault', states', OpenStates', d) = LifeFrom(vault, states, OpenStates, d)
  <2>1. \A u \in Creating(states, d) :
          states'[u].nickname = states[u].nickname /\ states'[u].app = states[u].app
    BY DEF Preserved, Creating
  <2> QED
    BY <1>1, <2>1, SameLife
<1> QED
  BY <1>2, Stays

(* Steps that issue no state and store no new Connection keep the          *)
(* invariant when they keep what is known of the callbacks.                *)
LEMMA LifeKept ==
  ASSUME LifeInv, FlightInv', Preserved, DOMAIN states' = DOMAIN states,
         DOMAIN vault' \subseteq DOMAIN vault, OpenStates' \subseteq OpenStates
  PROVE  LifeInv'
<1>1. \A d : Creating(states', d) = Creating(states, d)
  BY DEF Preserved, Creating
<1>2. OneCreating(states') /\ Settled(vault', states', OpenStates')
  BY <1>1 DEF LifeInv, OneCreating, Settled
<1> QED
  BY <1>2 DEF LifeInv, OneCreating, Settled, Creating

(* Which states are open, before a step                                    *)
LEMMA OpenBefore ==
  \A s : s \in OpenStates <=>
           /\ s \in DOMAIN states
           /\ \/ states[s].status \in {"put", "offered"}
              \/ \E q \in Requests : InFlight(request[q]) /\ request[q].state = s
BY DEF OpenStates, Open

(* and after it.                                                           *)
LEMMA OpenAfter ==
  \A s : s \in OpenStates' <=>
           /\ s \in DOMAIN states'
           /\ \/ states'[s].status \in {"put", "offered"}
              \/ \E q \in Requests : InFlight(request'[q]) /\ request'[q].state = s
BY DEF OpenStates, Open

(* A step that leaves the states alone preserves them.                     *)
LEMMA SameStates ==
  ASSUME UNCHANGED states
  PROVE  Preserved /\ DOMAIN states' = DOMAIN states
BY DEF Preserved

(* A handler leaves the flight, or was not in it.                          *)
LEMMA Lands ==
  ASSUME HandlersInv, LifeInv, UNCHANGED states, NEW r \in Requests, NEW new, Become(r, new),
         ~InFlight(new)
  PROVE  /\ FlightInv'
         /\ ~InFlight(request[r]) => OpenStates' = OpenStates
         /\ InFlight(request[r]) => /\ request[r].state \in DOMAIN states
                                    /\ OpenStates' = OpenStates \ {request[r].state}
<1>1. request'[r] = new /\ \A q \in Requests \ {r} : request'[q] = request[q]
  BY FollowsWhen
<1>2. FlightInv'
  BY FollowsWhen, SameStates, FlightKept DEF LifeInv
<1>3. ASSUME ~InFlight(request[r]) PROVE OpenStates' = OpenStates
  <2>1. \A q \in Requests : InFlight(request'[q]) <=> InFlight(request[q])
    BY <1>1, <1>3
  <2>2. \A s : (\E q \in Requests : InFlight(request'[q]) /\ request'[q].state = s) <=>
               (\E q \in Requests : InFlight(request[q]) /\ request[q].state = s)
    BY <1>1, <1>3, <2>1
  <2>3. \A s : s \in OpenStates' <=> s \in OpenStates
    BY <2>2, OpenBefore, OpenAfter
  <2> QED
    BY <2>3 DEF OpenStates
<1>4. ASSUME InFlight(request[r])
      PROVE  /\ request[r].state \in DOMAIN states
             /\ OpenStates' = OpenStates \ {request[r].state}
  <2> DEFINE mine == request[r].state
  <2>1. /\ mine \in DOMAIN states /\ states[mine].status = "taken"
        /\ \A q \in Requests : InFlight(request[q]) /\ request[q].state = mine => q = r
    BY <1>4 DEF LifeInv, FlightInv
  <2>2. \A s : (\E q \in Requests : InFlight(request'[q]) /\ request'[q].state = s) <=>
               s # mine /\ \E q \in Requests : InFlight(request[q]) /\ request[q].state = s
    BY <1>1, <2>1
  <2>3. \A s : s \in OpenStates' <=> s \in OpenStates /\ s # mine
    BY <2>1, <2>2, OpenBefore, OpenAfter
  <2> QED
    BY <2>1, <2>3 DEF OpenStates
<1> QED
  BY <1>2, <1>3, <1>4

(* A step that keeps the invariant and is a step of the lives, or none.    *)
GoesOn == LifeInv' /\ (Life!Next \/ UNCHANGED Lives)

(* Nothing changes but a handler, which leaves the flight or was not in    *)
(* it: the state it had taken closes.                                      *)
LEMMA LandStep ==
  ASSUME HandlersInv, LifeInv, UNCHANGED <<vault, states>>, NEW r \in Requests, NEW new,
         Become(r, new), ~InFlight(new)
  PROVE  GoesOn
<1>1. /\ FlightInv' /\ Preserved /\ DOMAIN states' = DOMAIN states
      /\ vault' = vault /\ DOMAIN vault' = DOMAIN vault
  BY Lands, SameStates
<1>2. CASE ~InFlight(request[r])
  <2>1. OpenStates' = OpenStates
    BY <1>2, Lands
  <2>2. UNCHANGED Lives
    BY <1>1, <2>1, Unmoved
  <2>3. LifeInv'
    BY <1>1, <2>1, LifeKept
  <2> QED
    BY <2>2, <2>3 DEF GoesOn
<1>3. CASE InFlight(request[r])
  <2>1. request[r].state \in DOMAIN states /\ OpenStates' = OpenStates \ {request[r].state}
    BY <1>3, Lands
  <2>2. Life!Next \/ UNCHANGED Lives
    BY <1>1, <2>1, Closes
  <2>3. LifeInv'
    BY <1>1, <2>1, LifeKept
  <2> QED
    BY <2>2, <2>3 DEF GoesOn
<1> QED
  BY <1>2, <1>3

(* All actions of a handler but two leave it out of the flight.            *)
Landing(r) == \E new : Become(r, new) /\ ~InFlight(new)

LEMMA LandingSteps ==
  ASSUME HandlersInv, NEW r \in Requests,
         \/ \E c \in Connections : BeginRevoke(r, c)
         \/ \E c \in Connections : BeginRemove(r, c)
         \/ \E c \in Connections : BeginCall(r, c)
         \/ \E c \in Connections : BeginDeploy(r, c)
         \/ \E wanted \in {{}} \cup {{c} : c \in Connections} : BeginList(r, wanted)
         \/ Authorize(r) \/ Reconcile(r) \/ BeginReauthorize(r) \/ Deploy(r)
         \/ Store(r) \/ SaveProviderConnection(r) \/ LeaseForRevocation(r) \/ RevokeAtGoogle(r)
         \/ MarkRevoked(r) \/ RemoveAtVault(r) \/ RemoveProviderConnection(r)
         \/ Refresh(r) \/ MarkError(r) \/ Abandon(r)
  PROVE  Landing(r)
<1>1. request[r] \in Handlers
  BY DEF HandlersInv, CustodyTypeOK
<1>2. ASSUME NEW new, Become(r, new), new.op # "callback" \/ new.at \notin {"taken", "exchanged"}
      PROVE  Landing(r)
  BY <1>2 DEF Landing, InFlight
<1>3. CASE Finish(r)
  BY <1>2, <1>3 DEF Finish, Idle
<1>4. ASSUME NEW c \in Connections, BeginRevoke(r, c) \/ BeginCall(r, c)
      PROVE  Landing(r)
  BY <1>2, <1>4 DEF BeginRevoke, BeginCall, Begin, Idle
<1>5. ASSUME NEW c \in Connections, BeginRemove(r, c)
      PROVE  Landing(r)
  BY <1>2, <1>5 DEF BeginRemove, Begin, Idle
<1>6. ASSUME NEW c \in Connections, BeginDeploy(r, c)
      PROVE  Landing(r)
  BY <1>2, <1>6 DEF BeginDeploy, Begin, Idle
<1>7. ASSUME NEW wanted, BeginList(r, wanted)
      PROVE  Landing(r)
  BY <1>2, <1>7 DEF BeginList, Idle
<1>8. ASSUME NEW state, PutState(r, state)
      PROVE  Landing(r)
  BY <1>2, <1>8 DEF PutState, Idle
<1>9. ASSUME NEW at \in {"found", "stored", "removed", "revoked", "refused"},
             Become(r, [request[r] EXCEPT !.at = at])
      PROVE  Landing(r)
  BY <1>1, <1>2, <1>9 DEF Handlers
<1>10. ASSUME NEW at \in {"found", "stored"}, NEW list,
              Become(r, [request[r] EXCEPT !.at = at, !.list = list])
       PROVE  Landing(r)
  BY <1>1, <1>2, <1>10 DEF Handlers
<1>11. ASSUME NEW t, Become(r, [request[r] EXCEPT !.at = "leased", !.token = t])
       PROVE  Landing(r)
  BY <1>1, <1>2, <1>11 DEF Handlers
<1>12. CASE Store(r) \/ MarkRevoked(r) \/ Reconcile(r)
  BY <1>3, <1>10, <1>12 DEF Store, MarkRevoked, Reconcile
<1>13. CASE RemoveAtVault(r) \/ Refresh(r) \/ RevokeAtGoogle(r)
  BY <1>3, <1>9, <1>13 DEF RemoveAtVault, Refresh, RevokeAtGoogle, Goto
<1>14. CASE LeaseForRevocation(r)
  BY <1>3, <1>11, <1>14 DEF LeaseForRevocation
<1>15. CASE \/ Authorize(r) \/ Deploy(r) \/ SaveProviderConnection(r)
            \/ RemoveProviderConnection(r) \/ MarkError(r) \/ Abandon(r)
  BY <1>3, <1>15 DEF Authorize, Deploy, SaveProviderConnection, RemoveProviderConnection,
                     MarkError, Abandon
<1>16. CASE BeginReauthorize(r)
  BY <1>3, <1>8, <1>16 DEF BeginReauthorize
<1> QED
  BY <1>4, <1>5, <1>6, <1>7, <1>12, <1>13, <1>14, <1>15, <1>16

(* The health of a Connection is no part of its life.                      *)
LEMMA MarkStep ==
  ASSUME HandlersInv, LifeInv, NEW r \in Requests, MarkRevoked(r) \/ MarkError(r)
  PROVE  GoesOn
<1>1. UNCHANGED states /\ ~InFlight(request[r])
  BY DEF MarkRevoked, MarkError, At, InFlight, registry
<1>2. /\ FlightInv' /\ Preserved /\ DOMAIN states' = DOMAIN states
      /\ OpenStates' = OpenStates
  BY <1>1, LandingSteps, Lands, SameStates DEF Landing
<1>3. /\ DOMAIN vault' = DOMAIN vault
      /\ \A d \in DOMAIN vault :
           /\ vault'[d].nickname = vault[d].nickname /\ vault'[d].app = vault[d].app
           /\ vault'[d].identity = vault[d].identity
  <2>1. CASE UNCHANGED vault
    BY <2>1
  <2>2. CASE \E c \in DOMAIN vault, health \in Healths :
               vault' = [vault EXCEPT ![c].health = health]
    BY <2>2, Marked DEF HandlersInv
  <2>3. "revoked" \in Healths /\ "error" \in Healths
    BY DEF Healths
  <2> QED
    BY <2>1, <2>2, <2>3 DEF MarkRevoked, MarkError
<1>4. UNCHANGED Lives /\ LifeInv'
  BY <1>2, <1>3, Unmoved, LifeKept
<1> QED
  BY <1>4 DEF GoesOn

(* A removal ends the life of what was held.                               *)
LEMMA RemoveStep ==
  ASSUME HandlersInv, LifeInv, NEW r \in Requests, RemoveAtVault(r)
  PROVE  GoesOn
<1>1. UNCHANGED states /\ ~InFlight(request[r])
  BY DEF RemoveAtVault, At, InFlight, registry
<1>2. /\ FlightInv' /\ Preserved /\ DOMAIN states' = DOMAIN states
      /\ OpenStates' = OpenStates
  BY <1>1, LandingSteps, Lands, SameStates DEF Landing
<1>3. CASE UNCHANGED vault
  <2>1. UNCHANGED Lives /\ LifeInv'
    BY <1>2, <1>3, Unmoved, LifeKept
  <2> QED
    BY <2>1 DEF GoesOn
<1>4. CASE ~UNCHANGED vault
  <2>1. PICK c \in DOMAIN vault : vault' = Restrict(vault, DOMAIN vault \ {c})
    BY <1>4 DEF RemoveAtVault
  <2>2. /\ c \in Connections /\ DOMAIN vault' = DOMAIN vault \ {c}
        /\ \A d \in DOMAIN vault' : vault'[d] = vault[d]
    BY <2>1 DEF Restrict, HandlersInv, CustodyTypeOK
  <2>3. LifeInv'
    BY <1>2, <2>2, LifeKept
  <2>4. \A d \in Connections \ {c} : LifeOf(d)' = LifeOf(d)
    <3> SUFFICES ASSUME NEW d \in Connections \ {c} PROVE LifeOf(d)' = LifeOf(d)
      OBVIOUS
    <3>1. LifeFrom(vault', states, OpenStates, d) = LifeFrom(vault, states, OpenStates, d)
      BY <2>2, SameLife
    <3> QED
      BY <1>1, <1>2, <3>1, LifeIs, LifeWillBe
  <2>5. PICK s \in Creating(states, c) : s \notin OpenStates
    BY DEF LifeInv, Settled
  <2>6. \A u \in Creating(states, c) : u = s
    BY DEF LifeInv, OneCreating
  <2>7. LifeOf(c)' = Life!Over
    <3>1. LifeFrom(vault', states, OpenStates, c) = Life!Over
      BY <2>2, <2>5, <2>6, LifeOfAsked
    <3> QED
      BY <1>1, <1>2, <2>2, <3>1, LifeWillBe
  <2>8. Lives' = [Lives EXCEPT ![c] = Life!Over]
    BY <2>2, <2>4, <2>7, OneLife
  <2>9. LifeOf(c) = Life!Held(vault[c].nickname, vault[c].app, vault[c].identity)
    BY <2>2, LifeIs DEF LifeFrom
  <2>10. Lives[c].phase = "held"
    BY <2>2, <2>9 DEF Lives, Life!Held
  <2>11. Life!Remove(c)
    BY <2>8, <2>10 DEF Lives, Life!Remove
  <2> QED
    BY <2>2, <2>3, <2>11 DEF GoesOn, Life!Next
<1> QED
  BY <1>3, <1>4

(* The consent to create a Connection is stored.                           *)
LEMMA CreatedStep ==
  ASSUME HandlersInv, LifeInv, FlightInv', UNCHANGED states,
         NEW c \in Connections, NEW s \in DOMAIN states, NEW entry \in Entries,
         states[s].connection = c, states[s].flow = "create",
         s \in OpenStates, OpenStates' = OpenStates \ {s}, Storable(c, entry),
         entry.nickname = states[s].nickname, entry.app = states[s].app,
         vault' = [d \in DOMAIN vault \cup {c} |-> IF d = c THEN entry ELSE vault[d]]
  PROVE  GoesOn
<1>1. /\ c \notin DOMAIN vault
      /\ \A d \in DOMAIN vault : vault[d].nickname # entry.nickname
      /\ entry.identity \in Identities
  BY DEF Storable, Entries
<1>2. /\ DOMAIN vault' = DOMAIN vault \cup {c} /\ vault'[c] = entry
      /\ \A d \in DOMAIN vault : d # c => vault'[d] = vault[d]
  OBVIOUS
<1>3. s \in Creating(states, c) /\ \A d : d # c => s \notin Creating(states, d)
  BY DEF Creating
<1>4. \A u \in Creating(states, c) : u = s
  BY <1>3 DEF LifeInv, OneCreating
<1>5. LifeOf(c) = Life!Asked(states[s].nickname, states[s].app)
  BY <1>1, <1>3, <1>4, LifeOfAsked, LifeIs
<1>6. LifeOf(c)' = Life!Held(states[s].nickname, states[s].app, entry.identity)
  <2>1. LifeFrom(vault', states', OpenStates', c)
          = Life!Held(states[s].nickname, states[s].app, entry.identity)
    BY <1>2 DEF LifeFrom
  <2> QED
    BY <2>1, LifeWillBe
<1>7. ASSUME NEW d \in Connections \ {c} PROVE LifeOf(d)' = LifeOf(d)
  <2>1. LifeFrom(vault', states, OpenStates', d) = LifeFrom(vault, states, OpenStates, d)
    BY <1>2, <1>3, SameLife
  <2> QED
    BY <2>1, LifeIs, LifeWillBe
<1>8. Lives' = [Lives EXCEPT ![c] = Life!Held(states[s].nickname, states[s].app, entry.identity)]
  BY <1>6, <1>7, OneLife
<1>9. ASSUME NEW d \in Connections, Lives[d].phase = "held"
      PROVE  Lives[d].nickname # states[s].nickname
  <2>1. LifeFrom(vault, states, OpenStates, d).phase = "held"
    BY <1>9, LifeIs DEF Lives
  <2>2. d \in DOMAIN vault
    BY <2>1 DEF LifeFrom, Life!Unused, Life!Asked, Life!Over
  <2>3. Lives[d] = Life!Held(vault[d].nickname, vault[d].app, vault[d].identity)
    BY <2>2, LifeIs DEF Lives, LifeFrom
  <2> QED
    BY <1>1, <2>2, <2>3 DEF Life!Held
<1>10. /\ Lives[c].phase = "asked" /\ Lives[c].nickname = states[s].nickname
       /\ Lives[c].app = states[s].app
  BY <1>5 DEF Lives, Life!Asked
<1>11. Life!Consent(c, entry.identity)
  BY <1>8, <1>9, <1>10 DEF Lives, Life!Consent
<1>12. Settled(vault', states', OpenStates')
  <2> SUFFICES ASSUME NEW d \in DOMAIN vault'
               PROVE  \E u \in Creating(states, d) : u \notin OpenStates'
    BY DEF Settled
  <2>1. CASE d = c
    BY <1>3, <2>1
  <2>2. CASE d # c
    BY <1>2, <2>2 DEF LifeInv, Settled
  <2> QED
    BY <2>1, <2>2
<1>13. LifeInv'
  BY <1>12 DEF LifeInv, OneCreating, Settled, Creating
<1> QED
  BY <1>1, <1>11, <1>13 DEF GoesOn, Life!Next

(* The consent to renew one is stored.                                     *)
LEMMA RenewedStep ==
  ASSUME HandlersInv, LifeInv, FlightInv', UNCHANGED states,
         NEW c \in Connections, NEW s \in DOMAIN states, NEW entry \in Entries,
         states[s].flow # "create", OpenStates' = OpenStates \ {s}, Replaceable(c, entry),
         vault' = [d \in DOMAIN vault \cup {c} |-> IF d = c THEN entry ELSE vault[d]]
  PROVE  GoesOn
<1>1. /\ DOMAIN vault' = DOMAIN vault
      /\ \A d \in DOMAIN vault :
           /\ vault'[d].nickname = vault[d].nickname /\ vault'[d].app = vault[d].app
           /\ vault'[d].identity = vault[d].identity
  BY DEF Replaceable
<1>2. \A d : s \notin Creating(states, d)
  BY DEF Creating
<1>3. ASSUME NEW d \in Connections
      PROVE  LifeFrom(vault', states', OpenStates', d) = LifeFrom(vault, states, OpenStates, d)
  <2>1. LifeFrom(vault', states, OpenStates', d) = LifeFrom(vault, states, OpenStates, d)
    BY <1>1, <1>2, SameLife
  <2> QED
    BY <2>1
<1>4. UNCHANGED Lives
  BY <1>3, Stays
<1>5. LifeInv'
  BY <1>1, LifeKept, SameStates
<1> QED
  BY <1>4, <1>5 DEF GoesOn

(* A callback stores its consent, or finds it may not.                     *)
LEMMA StoreStep ==
  ASSUME HandlersInv, LifeInv, NEW r \in Requests, Store(r)
  PROVE  GoesOn
<1> DEFINE s == request[r].state
<1>1. PICK c \in Connections : c = Target(r)
  BY Stored
<1>2. /\ request[r].connection = {c} /\ UNCHANGED states
      /\ \/ Finish(r) /\ UNCHANGED vault
         \/ \E entry \in Entries :
              /\ Accepted(c, request[r].token, s, entry)
              /\ vault' = [d \in DOMAIN vault \cup {c} |-> IF d = c THEN entry ELSE vault[d]]
  BY <1>1, Stored DEF registry
<1>3. InFlight(request[r])
  BY DEF Store, At, InFlight
<1>4. s \in DOMAIN states /\ states[s].connection = c
  BY <1>2, <1>3 DEF LifeInv, FlightInv
<1>5. FlightInv' /\ OpenStates' = OpenStates \ {s}
  BY <1>2, <1>3, LandingSteps, Lands DEF Landing
<1>6. s \in OpenStates
  BY <1>3, <1>4, OpenBefore
<1> HIDE DEF s
<1>7. CASE Finish(r) /\ UNCHANGED vault
  BY <1>2, <1>7, LandingSteps, LandStep DEF Landing
<1>8. ASSUME NEW entry \in Entries, Accepted(c, request[r].token, s, entry),
             vault' = [d \in DOMAIN vault \cup {c} |-> IF d = c THEN entry ELSE vault[d]]
      PROVE  GoesOn
  <2>1. CASE states[s].flow = "create"
    <3>1. /\ Storable(c, entry) /\ entry.nickname = states[s].nickname
          /\ entry.app = states[s].app
      BY <1>8, <2>1 DEF Accepted
    <3> QED
      BY <1>2, <1>4, <1>5, <1>6, <1>8, <2>1, <3>1, CreatedStep
  <2>2. CASE states[s].flow # "create"
    <3>1. Replaceable(c, entry)
      BY <1>8, <2>2 DEF Accepted
    <3> QED
      BY <1>2, <1>4, <1>5, <1>8, <2>2, <3>1, RenewedStep
  <2> QED
    BY <2>1, <2>2
<1> QED
  BY <1>2, <1>7, <1>8

(* A state is issued, to create a Connection or to renew one.              *)
LEMMA PutStep ==
  ASSUME HandlersInv, LifeInv, NEW r \in Requests, ~InFlight(request[r]),
         NEW state \in States, state.status = "put", PutState(r, state),
         state.flow = "create" =>
           \A s \in DOMAIN states : states[s].connection # state.connection
  PROVE  GoesOn
<1>1. PICK n : /\ n \notin DOMAIN states /\ DOMAIN states' = DOMAIN states \cup {n}
               /\ states'[n] = state /\ \A z \in DOMAIN states : states'[z] = states[z]
               /\ UNCHANGED vault
  <2>1. states' = Append(states, state) /\ states \in Seq(States)
    BY StatePut DEF HandlersInv, CustodyTypeOK
  <2>2. states'[Len(states) + 1] = state
    BY <2>1
  <2> QED
    BY <2>2, StatePut
<1>2. PICK new : Become(r, new) /\ ~InFlight(new)
  BY StatePut DEF InFlight
<1>3. request'[r] = new /\ \A q \in Requests \ {r} : request'[q] = request[q]
  BY <1>2, FollowsWhen
<1>4. Preserved
  BY <1>1 DEF Preserved
<1>5. FlightInv'
  BY <1>2, <1>4, FollowsWhen, FlightKept DEF LifeInv
<1>6. OpenStates' = OpenStates \cup {n}
  <2>1. \A s : (\E q \in Requests : InFlight(request'[q]) /\ request'[q].state = s) <=>
               (\E q \in Requests : InFlight(request[q]) /\ request[q].state = s)
    BY <1>2, <1>3
  <2>2. \A q \in Requests : InFlight(request[q]) => request[q].state # n
    BY <1>1 DEF LifeInv, FlightInv
  <2>3. \A s : s \in OpenStates' <=> s \in OpenStates \/ s = n
    BY <1>1, <2>1, <2>2, OpenBefore, OpenAfter
  <2> QED
    BY <2>3 DEF OpenStates
<1>7. \A d, s : s \in Creating(states', d) <=>
        \/ s \in Creating(states, d)
        \/ s = n /\ state.connection = d /\ state.flow = "create"
  BY <1>1 DEF Creating
<1>8. LifeInv'
  <2>1. ASSUME NEW d, NEW s \in Creating(states', d), NEW u \in Creating(states', d) PROVE s = u
    <3>1. s \in Creating(states, d) /\ u \in Creating(states, d) => s = u
      BY DEF LifeInv, OneCreating
    <3>2. \A z \in Creating(states, d) : ~(state.connection = d /\ state.flow = "create")
      BY DEF Creating
    <3> QED
      BY <1>7, <3>1, <3>2
  <2>2. OneCreating(states')
    BY <2>1 DEF OneCreating
  <2>3. ASSUME NEW d \in DOMAIN vault
        PROVE  \E s \in Creating(states', d) : s \notin OpenStates'
    <3>1. PICK s \in Creating(states, d) : s \notin OpenStates
      BY DEF LifeInv, Settled
    <3>2. s # n /\ s \in Creating(states', d)
      BY <1>1, <1>7, <3>1 DEF Creating
    <3> QED
      BY <1>6, <3>1, <3>2
  <2>4. Settled(vault', states', OpenStates')
    BY <1>1, <2>3 DEF Settled
  <2> QED
    BY <1>5, <2>2, <2>4 DEF LifeInv, OneCreating, Settled, Creating
<1>9. ASSUME NEW d \in Connections, state.connection # d \/ state.flow # "create"
      PROVE  LifeFrom(vault', states', OpenStates', d) = LifeFrom(vault, states, OpenStates, d)
  <2>1. Creating(states', d) = Creating(states, d)
    BY <1>7, <1>9 DEF Creating
  <2>2. \A s \in Creating(states, d) :
          /\ states'[s].nickname = states[s].nickname /\ states'[s].app = states[s].app
          /\ s \in OpenStates' <=> s \in OpenStates
    BY <1>1, <1>6 DEF Creating
  <2> QED
    BY <1>1, <2>1, <2>2, SameLife
<1>10. CASE state.flow # "create"
  BY <1>8, <1>9, <1>10, Stays DEF GoesOn
<1>11. CASE state.flow = "create"
  <2> DEFINE c == state.connection
  <2>1. /\ c \in Connections /\ state.nickname \in Nicknames /\ state.app \in Apps
    BY DEF States
  <2>2. Creating(states, c) = {}
    BY <1>11 DEF Creating
  <2>3. c \notin DOMAIN vault
    BY <2>2 DEF LifeInv, Settled
  <2>4. LifeOf(c) = Life!Unused
    BY <2>1, <2>2, <2>3, LifeIs DEF LifeFrom
  <2>5. n \in Creating(states', c) /\ \A u \in Creating(states', c) : u = n
    BY <1>7, <1>11, <2>2
  <2>6. LifeFrom(vault', states', OpenStates', c) = Life!Asked(state.nickname, state.app)
    BY <1>1, <1>6, <2>3, <2>5, LifeOfAsked
  <2>7. LifeOf(c)' = Life!Asked(state.nickname, state.app)
    BY <2>1, <2>6, LifeWillBe
  <2>8. \A d \in Connections \ {c} : LifeOf(d)' = LifeOf(d)
    BY <1>9, LifeIs, LifeWillBe
  <2> HIDE DEF c
  <2>9. Lives' = [Lives EXCEPT ![c] = Life!Asked(state.nickname, state.app)]
    BY <2>1, <2>7, <2>8, OneLife
  <2>10. Lives[c] = Life!Unused
    BY <2>1, <2>4 DEF Lives
  <2>11. Life!Ask(c, state.nickname, state.app)
    BY <2>9, <2>10 DEF Lives, Life!Ask
  <2> QED
    BY <1>8, <2>1, <2>11 DEF GoesOn, Life!Next
<1> QED
  BY <1>10, <1>11

(* A state is marked that is not taken, or to be taken.                    *)
LEMMA MarkPreserves ==
  ASSUME HandlersInv, NEW s \in DOMAIN states, NEW status \in {"offered", "taken", "expired"},
         states' = [states EXCEPT ![s].status = status], states[s].status # "taken"
  PROVE  /\ Preserved /\ DOMAIN states' = DOMAIN states
         /\ states'[s].status = status
         /\ \A z \in DOMAIN states : z # s => states'[z] = states[z]
         /\ \A q \in Requests : FlightInv /\ InFlight(request[q]) => request[q].state # s
<1>1. states[s] \in States
  BY DEF HandlersInv, CustodyTypeOK
<1>2. /\ states'[s] = [states[s] EXCEPT !.status = status] /\ DOMAIN states' = DOMAIN states
      /\ \A z \in DOMAIN states : z # s => states'[z] = states[z]
  OBVIOUS
<1>3. /\ states'[s].connection = states[s].connection /\ states'[s].flow = states[s].flow
      /\ states'[s].nickname = states[s].nickname /\ states'[s].app = states[s].app
      /\ states'[s].status = status
  BY <1>1, <1>2 DEF States
<1>4. Preserved
  BY <1>2, <1>3 DEF Preserved
<1> QED
  BY <1>2, <1>3, <1>4 DEF FlightInv

(* A state nobody took in time closes.                                     *)
LEMMA ExpireStep ==
  ASSUME HandlersInv, LifeInv, NEW s \in DOMAIN states, ExpireState(s)
  PROVE  GoesOn
<1>1. /\ Preserved /\ DOMAIN states' = DOMAIN states /\ states'[s].status = "expired"
      /\ \A z \in DOMAIN states : z # s => states'[z] = states[z]
      /\ \A q \in Requests : InFlight(request[q]) => request[q].state # s
  BY MarkPreserves DEF ExpireState, LifeInv
<1>2. UNCHANGED <<vault, request>>
  BY DEF ExpireState
<1>3. OpenStates' = OpenStates \ {s}
  <2>1. \A z : z \in OpenStates' <=> z \in OpenStates /\ z # s
    BY <1>1, <1>2, OpenBefore, OpenAfter
  <2> QED
    BY <2>1 DEF OpenStates
<1>4. FlightInv'
  BY <1>1, <1>2, FlightKept DEF Follows, LifeInv
<1>5. LifeInv'
  BY <1>1, <1>2, <1>3, <1>4, LifeKept
<1>6. Life!Next \/ UNCHANGED Lives
  BY <1>1, <1>2, <1>3, Closes
<1> QED
  BY <1>5, <1>6 DEF GoesOn

(* A callback takes its state, which stays open.                           *)
LEMMA CallbackStep ==
  ASSUME HandlersInv, LifeInv, NEW r \in Requests, NEW s \in DOMAIN states, BeginCallback(r, s)
  PROVE  GoesOn
<1>1. /\ states' = [states EXCEPT ![s].status = "taken"] /\ states[s].status = "offered"
      /\ UNCHANGED vault /\ ~InFlight(request[r])
  BY DEF BeginCallback, TakeState, Free, Idle, InFlight
<1>2. /\ Preserved /\ DOMAIN states' = DOMAIN states /\ states'[s].status = "taken"
      /\ \A z \in DOMAIN states : z # s => states'[z] = states[z]
      /\ \A q \in Requests : InFlight(request[q]) => request[q].state # s
  BY <1>1, MarkPreserves DEF LifeInv
<1>3. states[s] \in States /\ s \in Nat
  BY DEF HandlersInv, CustodyTypeOK
<1>4. PICK new \in Handlers :
        /\ Become(r, new) /\ new.op = "callback" /\ new.at = "taken"
        /\ new.connection = {states[s].connection} /\ new.state = s
  BY <1>3, CallbackBegins
<1>5. request'[r] = new /\ \A q \in Requests \ {r} : request'[q] = request[q]
  BY <1>4, Becomes
<1>6. InFlight(new)
  BY <1>4 DEF InFlight
<1>7. FlightInv'
  <2>1. ASSUME NEW q \in Requests, InFlight(request'[q])
        PROVE  /\ request'[q].state \in DOMAIN states'
               /\ states'[request'[q].state].status = "taken"
               /\ request'[q].connection = {states'[request'[q].state].connection}
               /\ q # r => request'[q].state # s
    <3>1. CASE q = r
      BY <1>2, <1>4, <1>5, <3>1 DEF Preserved
    <3>2. CASE q # r
      <4>1. request'[q] = request[q] /\ InFlight(request[q])
        BY <1>5, <2>1, <3>2
      <4>2. /\ request[q].state \in DOMAIN states /\ request[q].state # s
            /\ states[request[q].state].status = "taken"
            /\ request[q].connection = {states[request[q].state].connection}
        BY <1>2, <4>1 DEF LifeInv, FlightInv
      <4> QED
        BY <1>2, <4>1, <4>2
    <3> QED
      BY <3>1, <3>2
  <2>2. ASSUME NEW p \in Requests, NEW q \in Requests, InFlight(request'[p]),
               InFlight(request'[q]), request'[p].state = request'[q].state
        PROVE  p = q
    <3>1. CASE p = r \/ q = r
      BY <1>4, <1>5, <2>1, <2>2, <3>1
    <3>2. CASE p # r /\ q # r
      BY <1>5, <2>2, <3>2 DEF LifeInv, FlightInv
    <3> QED
      BY <3>1, <3>2
  <2> QED
    BY <2>1, <2>2 DEF FlightInv
<1>8. OpenStates' = OpenStates
  <2>1. \A z : (\E q \in Requests : InFlight(request'[q]) /\ request'[q].state = z) <=>
               z = s \/ \E q \in Requests : InFlight(request[q]) /\ request[q].state = z
    BY <1>1, <1>4, <1>5, <1>6
  <2>2. \A z : z \in OpenStates' <=> z \in OpenStates
    BY <1>1, <1>2, <2>1, OpenBefore, OpenAfter
  <2> QED
    BY <2>2 DEF OpenStates
<1>9. UNCHANGED Lives /\ LifeInv'
  BY <1>1, <1>2, <1>7, <1>8, Unmoved, LifeKept
<1> QED
  BY <1>9 DEF GoesOn

(* The Broker makes the consent URL of a state, or finds it expired.       *)
LEMMA AuthorizeStep ==
  ASSUME HandlersInv, LifeInv, NEW r \in Requests, Authorize(r)
  PROVE  GoesOn
<1> DEFINE s == request[r].state
<1>1. /\ s \in DOMAIN states /\ ~InFlight(request[r]) /\ UNCHANGED vault
      /\ Become(r, Idle) /\ ~InFlight(Idle)
      /\ \/ UNCHANGED states
         \/ states[s].status = "put" /\ states' = [states EXCEPT ![s].status = "offered"]
  BY DEF Authorize, At, Finish, InFlight, Idle, HandlersInv, HandlerOK
<1> HIDE DEF s
<1>2. CASE UNCHANGED states
  BY <1>1, <1>2, LandStep
<1>3. CASE states[s].status = "put" /\ states' = [states EXCEPT ![s].status = "offered"]
  <2>1. /\ Preserved /\ DOMAIN states' = DOMAIN states /\ states'[s].status = "offered"
        /\ \A z \in DOMAIN states : z # s => states'[z] = states[z]
    BY <1>1, <1>3, MarkPreserves
  <2>2. request'[r] = Idle /\ \A q \in Requests \ {r} : request'[q] = request[q]
    BY <1>1, FollowsWhen
  <2>3. FlightInv'
    BY <1>1, <2>1, FollowsWhen, FlightKept DEF LifeInv
  <2>4. OpenStates' = OpenStates
    <3>1. \A z : (\E q \in Requests : InFlight(request'[q]) /\ request'[q].state = z) <=>
                 \E q \in Requests : InFlight(request[q]) /\ request[q].state = z
      BY <1>1, <2>2
    <3>2. \A z : z \in OpenStates' <=> z \in OpenStates
      BY <1>1, <1>3, <2>1, <3>1, OpenBefore, OpenAfter
    <3> QED
      BY <3>2 DEF OpenStates
  <2>5. UNCHANGED Lives /\ LifeInv'
    BY <1>1, <2>1, <2>3, <2>4, Unmoved, LifeKept
  <2> QED
    BY <2>5 DEF GoesOn
<1> QED
  BY <1>1, <1>2, <1>3

(* A consent is exchanged, or given up as short of its scopes.             *)
LEMMA MintStep ==
  ASSUME HandlersInv, LifeInv, NEW r \in Requests, NEW i \in Identities, NEW scoped \in BOOLEAN,
         Exchange(r, i, scoped)
  PROVE  GoesOn
<1>1. UNCHANGED <<vault, states>>
  BY Exchanged DEF registry
<1>2. InFlight(request[r])
  BY DEF Exchange, At, InFlight
<1>3. PICK new \in Handlers :
        /\ Become(r, new)
        /\ \/ new = Idle
           \/ /\ new.op = "callback" /\ new.at = "exchanged"
              /\ new.connection = request[r].connection
              /\ new.state = request[r].state /\ new.token = Len(grants) + 1
  BY Exchanged
<1>4. CASE new = Idle
  <2>1. ~InFlight(new)
    BY <1>4 DEF InFlight, Idle
  <2> QED
    BY <1>1, <1>3, <2>1, LandStep
<1>5. CASE new # Idle
  <2>1. InFlight(new) /\ new.state = request[r].state /\ new.connection = request[r].connection
    BY <1>3, <1>5 DEF InFlight
  <2>2. request'[r] = new /\ \A q \in Requests \ {r} : request'[q] = request[q]
    BY <1>3, Becomes
  <2>3. FlightInv'
    BY <1>1, <1>2, <1>3, <2>1, FollowsWhen, SameStates, FlightKept DEF LifeInv
  <2>4. OpenStates' = OpenStates
    <3>1. \A z : (\E q \in Requests : InFlight(request'[q]) /\ request'[q].state = z) <=>
                 \E q \in Requests : InFlight(request[q]) /\ request[q].state = z
      BY <1>2, <2>1, <2>2
    <3>2. \A z : z \in OpenStates' <=> z \in OpenStates
      BY <1>1, <3>1, OpenBefore, OpenAfter
    <3> QED
      BY <3>2 DEF OpenStates
  <2>5. Preserved /\ DOMAIN states' = DOMAIN states /\ vault' = vault
    BY <1>1, SameStates
  <2>6. UNCHANGED Lives /\ LifeInv'
    BY <2>3, <2>4, <2>5, Unmoved, LifeKept
  <2> QED
    BY <2>6 DEF GoesOn
<1> QED
  BY <1>4, <1>5

(* An authorization begins, for a fresh id or for a Connection found.      *)
LEMMA AskStep ==
  ASSUME HandlersInv, LifeInv, NEW r \in Requests,
         NEW c \in Connections, NEW n \in Nicknames, NEW a \in Apps, BeginAuthorize(r, c, n, a)
  PROVE  GoesOn
<1> DEFINE state == NewState(c, n, a, "create")
<1>1. /\ state \in States /\ state.status = "put" /\ state.connection = c
  BY DEF NewState, States
<1>2. /\ PutState(r, state) /\ ~InFlight(request[r])
      /\ \A s \in DOMAIN states : states[s].connection # c
  BY DEF BeginAuthorize, Free, Idle, InFlight
<1> HIDE DEF state
<1> QED
  BY <1>1, <1>2, PutStep

(* A consent to renew one is of no life, whatever the list it was found in *)
(* says.                                                                   *)
LEMMA AskAgainStep ==
  ASSUME HandlersInv, LifeInv, NEW r \in Requests, BeginReauthorize(r)
  PROVE  GoesOn
<1> DEFINE found == request[r].list[Target(r)]
           state == NewState(Target(r), found.nickname, found.app, "reauth")
<1>1. request[r] \in Handlers /\ HandlerOK(request[r]) /\ ~InFlight(request[r])
  BY DEF HandlersInv, CustodyTypeOK, BeginReauthorize, At, InFlight
<1>2. request[r].connection # {} /\ request[r].connection \subseteq DOMAIN request[r].list
  BY <1>1 DEF BeginReauthorize, At, HandlerOK
<1>3. Target(r) \in Connections /\ Target(r) \in DOMAIN request[r].list
  BY <1>2, TargetIs
<1>4. found \in Summaries
  BY <1>1, <1>3, ListType DEF Handlers
<1>5. state \in States /\ state.status = "put" /\ state.flow # "create"
  BY <1>3, <1>4 DEF NewState, States, Summaries
<1>6. CASE PutState(r, state)
  <2> HIDE DEF state
  <2> QED
    BY <1>1, <1>5, <1>6, PutStep
<1>7. CASE Finish(r) /\ UNCHANGED <<providerApps, vault, registry, google, raced>>
  <2>1. Become(r, Idle) /\ ~InFlight(Idle) /\ UNCHANGED <<vault, states>>
    BY <1>7 DEF Finish, Idle, InFlight, registry
  <2> QED
    BY <2>1, LandStep
<1> QED
  BY <1>6, <1>7 DEF BeginReauthorize

(* Every step of custody lets the ids go on, or leaves them as they are.   *)
LEMMA LifeStep == HandlersInv /\ LifeInv /\ [CustodyNext]_custodyVars => GoesOn
<1> SUFFICES ASSUME HandlersInv, LifeInv, [CustodyNext]_custodyVars PROVE GoesOn
  OBVIOUS
<1>1. ASSUME NEW r \in Requests,
             \/ \E c \in Connections : BeginRevoke(r, c)
             \/ \E c \in Connections : BeginRemove(r, c)
             \/ \E c \in Connections : BeginCall(r, c)
             \/ \E c \in Connections : BeginDeploy(r, c)
             \/ \E wanted \in {{}} \cup {{c} : c \in Connections} : BeginList(r, wanted)
             \/ Reconcile(r) \/ Deploy(r) \/ SaveProviderConnection(r)
             \/ LeaseForRevocation(r) \/ RevokeAtGoogle(r) \/ RemoveProviderConnection(r)
             \/ Refresh(r) \/ Abandon(r)
      PROVE  GoesOn
  <2>1. UNCHANGED <<vault, states>>
    BY <1>1 DEF BeginRevoke, BeginRemove, BeginCall, BeginDeploy, BeginList, Reconcile, Deploy,
       SaveProviderConnection, LeaseForRevocation, RevokeAtGoogle, RemoveProviderConnection,
       Refresh, Abandon, registry
  <2>2. Landing(r)
    BY <1>1, LandingSteps
  <2> QED
    BY <2>1, <2>2, LandStep DEF Landing
<1>2. CASE UNCHANGED <<vault, states, request>>
  <2>1. Preserved /\ DOMAIN states' = DOMAIN states /\ vault' = vault
    BY <1>2, SameStates
  <2>2. FlightInv'
    BY <1>2, <2>1, FlightKept DEF Follows, LifeInv
  <2>3. \A z : z \in OpenStates' <=> z \in OpenStates
    BY <1>2, OpenBefore, OpenAfter
  <2>4. OpenStates' = OpenStates
    BY <2>3 DEF OpenStates
  <2>5. UNCHANGED Lives /\ LifeInv'
    BY <2>1, <2>2, <2>4, Unmoved, LifeKept
  <2> QED
    BY <2>5 DEF GoesOn
<1>3. ASSUME \/ \E a \in Apps : StoreProviderApp(a)
             \/ \E t \in live : GrantLost(t)
             \/ UNCHANGED custodyVars
      PROVE  UNCHANGED <<vault, states, request>>
  BY <1>3 DEF StoreProviderApp, GrantLost, custodyVars, registry
<1> QED
  BY <1>1, <1>2, <1>3, CustodyCases, CallbackStep, AuthorizeStep, MintStep, AskStep,
     AskAgainStep, StoreStep, MarkStep, RemoveStep, ExpireStep

(* The lives begin unused.                                                 *)
LEMMA LifeInitial == CustodyInit => Life!Init
<1> SUFFICES ASSUME CustodyInit PROVE Lives = [c \in Connections |-> Life!Unused]
  BY DEF Lives, Life!Init
<1>1. DOMAIN states = {} /\ DOMAIN vault = {}
  BY DEF CustodyInit, Nothing
<1>2. \A c \in Connections : LifeOf(c) = Life!Unused
  BY <1>1, LifeIs DEF LifeFrom, Creating
<1> QED
  BY <1>2 DEF Lives

(* The invariant holds of every state reached.                             *)
LEMMA LifeInvariant == CustodySpec => []LifeInv
<1>1. HandlersInv /\ LifeInv /\ [CustodyNext]_custodyVars => LifeInv'
  BY LifeStep DEF GoesOn
<1> QED
  BY <1>1, LifeInit, HandlersKnow, PTL DEF CustodySpec

(* The vault, the OAuth states and the callbacks at work implement the     *)
(* life of a Connection (put_oauth_state and take_oauth_state in           *)
(* src/src/workers/account-registry.ts; storeConnection, replaceConnection *)
(* and removeConnection in src/src/custody.ts): whatever handlers overlap  *)
(* or are cut short, an id stands for one Google identity, once, under the *)
(* nickname and Provider App that were asked for, and for nothing after.   *)
THEOREM ConnectionsLiveOnce == CustodySpec => LivesOnce
<1>1. HandlersInv /\ LifeInv /\ [CustodyNext]_custodyVars => [Life!Next]_Lives
  BY LifeStep DEF GoesOn
<1> QED
  BY <1>1, LifeInitial, LifeInvariant, HandlersKnow, PTL
     DEF CustodySpec, LivesOnce, Life!Spec, Lives
===============================================================================
