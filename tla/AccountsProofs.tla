---------------------------- MODULE AccountsProofs ----------------------------
(***************************************************************************)
(* Theorems about what an Account is known by.  Of Handles, for every set  *)
(* of Accounts, names and requests at work: the directory, its replica at  *)
(* the Gateway and what Control has answered agree, and no name ever       *)
(* moves.  Of SignIn, for every set of addresses and sources, every cap    *)
(* and every bound: how many links of one address are live at one time.    *)
(***************************************************************************)
EXTENDS Handles, SignIn, FiniteSetTheorems, TLAPS

Tasks == [at : {"free", "claim", "push", "push retired", "record"},
          op : {"get", "put"}, account : Accounts \cup {NoName},
          handle : Names \cup {NoName}, retired : Names \cup {NoName}]

Owned(h, a) == h \in DOMAIN owner /\ owner[h] = a

Bound(h) == h \in DOMAIN bindings

(* What a request at work has established: it claims for some Account, and *)
(* from its claim on the directory has what it tells the others; when it   *)
(* is about to be answered, the Gateway has it too.                        *)
TaskOK(t) ==
  /\ t.at # "free" => t.account \in Accounts
  /\ t.at = "claim" => t.handle \in Names
  /\ t.at \in {"push", "push retired"} =>
       /\ Owned(t.handle, t.account)
       /\ t.retired # NoName => Owned(t.retired, t.account)
  /\ t.at = "push retired" => t.retired # NoName /\ Bound(t.handle)
  /\ t.at = "record" /\ t.op = "put" =>
       /\ Bound(t.handle)
       /\ t.retired # NoName => Bound(t.retired)

HandlesType ==
  /\ owner \in [DOMAIN owner -> Accounts] /\ DOMAIN owner \subseteq Names
  /\ naming \in [DOMAIN naming -> [handle : Names, retired : Names \cup {NoName}]]
  /\ DOMAIN naming \subseteq Accounts
  /\ bindings \in [DOMAIN bindings -> Accounts] /\ DOMAIN bindings \subseteq Names
  /\ task \in [HandleRequests -> Tasks]

HandlesInv ==
  /\ HandlesType
  /\ DirectoryConsistent
  /\ ReplicaAgrees
  /\ \A r \in HandleRequests : TaskOK(task[r])
  /\ acknowledged \subseteq DOMAIN bindings

-----------------------------------------------------------------------------
(* What a request has established lasts while no name moves and none is     *)
(* forgotten.                                                              *)
NamesStay ==
  /\ \A n \in DOMAIN owner : n \in DOMAIN owner' /\ owner'[n] = owner[n]
  /\ DOMAIN bindings \subseteq DOMAIN bindings'

LEMMA TaskStays ==
  ASSUME NEW CONSTANT t, TaskOK(t), NamesStay
  PROVE  TaskOK(t)'
<1>1. \A h, a : Owned(h, a) => Owned(h, a)'
  BY DEF NamesStay, Owned
<1>2. \A h : Bound(h) => Bound(h)'
  BY DEF NamesStay, Bound
<1>3. t.at \in {"push", "push retired"} =>
        Owned(t.handle, t.account)' /\ (t.retired # NoName => Owned(t.retired, t.account)')
  BY <1>1 DEF TaskOK
<1>4. /\ t.at = "push retired" => Bound(t.handle)'
      /\ t.at = "record" /\ t.op = "put" =>
           Bound(t.handle)' /\ (t.retired # NoName => Bound(t.retired)')
  BY <1>2 DEF TaskOK
<1> QED
  BY <1>3, <1>4 DEF TaskOK

(* A put adds one key of the same kind.                                    *)
LEMMA PutType ==
  ASSUME NEW f, NEW S, NEW x, NEW y \in S, f \in [DOMAIN f -> S]
  PROVE  Put(f, x, y) \in [DOMAIN Put(f, x, y) -> S]
BY DEF Put

(* The directory as a claim that is not refused leaves it.                 *)
Claims(a, h) ==
  /\ owner' = Put(owner, h, a)
  /\ naming' = Put(naming, a, [handle |-> h, retired |-> Retired(a, h)])

(* A claim that is not refused takes a name nobody has, or repeats the     *)
(* Account's own; every name that was owned stays where it was.            *)
LEMMA ClaimKeepsNames ==
  ASSUME HandlesInv, NEW a \in Accounts, NEW h \in Names, ~Refused(a, h), Claims(a, h)
  PROVE  /\ \A n \in DOMAIN owner : n \in DOMAIN owner' /\ owner'[n] = owner[n]
         /\ DOMAIN owner' = DOMAIN owner \cup {h} /\ owner'[h] = a
         /\ \A b \in DOMAIN naming : naming[b].retired # NoName => naming'[b] = naming[b]
         /\ Retired(a, h) # NoName => Owned(Retired(a, h), a)
<1>1. h # NoName
  BY HandleConstants
<1>a. /\ DOMAIN owner' = DOMAIN owner \cup {h} /\ owner'[h] = a
      /\ \A n \in DOMAIN owner : n # h => owner'[n] = owner[n]
  BY DEF Claims, Put
<1>b. /\ naming'[a] = [handle |-> h, retired |-> Retired(a, h)]
      /\ \A b \in DOMAIN naming : b # a => naming'[b] = naming[b]
  BY DEF Claims, Put
<1>2. CASE Current(a) = h
  <2>1. a \in DOMAIN naming /\ naming[a].handle = h
    BY <1>1, <1>2 DEF Current
  <2>2. h \in DOMAIN owner /\ owner[h] = a
    BY <1>1, <2>1 DEF HandlesInv, DirectoryConsistent
  <2>3. naming[a] = [handle |-> h, retired |-> Retired(a, h)]
    BY <1>2, <2>1 DEF HandlesInv, HandlesType, Retired
  <2>4. Retired(a, h) # NoName => Owned(Retired(a, h), a)
    BY <1>2, <2>1 DEF HandlesInv, DirectoryConsistent, Retired, Owned
  <2> QED
    BY <1>a, <1>b, <2>2, <2>3, <2>4
<1>3. CASE Current(a) # h
  <2>1. h \notin DOMAIN owner
    BY <1>3 DEF Refused
  <2>2. a \in DOMAIN naming => naming[a].retired = NoName
    BY <1>3 DEF Refused
  <2>3. Retired(a, h) = Current(a)
    BY <1>3 DEF Retired
  <2>4. Retired(a, h) # NoName => Owned(Retired(a, h), a)
    BY <2>3 DEF HandlesInv, DirectoryConsistent, Current, Owned
  <2> QED
    BY <1>a, <1>b, <2>1, <2>2, <2>4
<1> QED
  BY <1>2, <1>3

(* The two kinds of entry agree again after it.                            *)
LEMMA ClaimKeepsDirectory ==
  ASSUME HandlesInv, NEW a \in Accounts, NEW h \in Names, ~Refused(a, h), Claims(a, h)
  PROVE  DirectoryConsistent'
<1>1. h # NoName
  BY HandleConstants
<1>2. /\ DOMAIN naming' = DOMAIN naming \cup {a}
      /\ naming'[a] = [handle |-> h, retired |-> Retired(a, h)]
      /\ \A b \in DOMAIN naming : b # a => naming'[b] = naming[b]
  BY DEF Claims, Put
<1>3. /\ DOMAIN owner' = DOMAIN owner \cup {h} /\ owner'[h] = a
      /\ \A n \in DOMAIN owner : owner'[n] = owner[n]
      /\ Retired(a, h) # NoName => Owned(Retired(a, h), a)
  BY ClaimKeepsNames
<1>4. naming'[a].handle = h /\ naming'[a].retired = Retired(a, h)
  BY <1>2
<1>5. h # Retired(a, h)
  <2>1. CASE Current(a) = h
    BY <1>1, <2>1 DEF HandlesInv, DirectoryConsistent, Retired, Current
  <2>2. CASE Current(a) # h
    BY <2>2 DEF Retired
  <2> QED
    BY <2>1, <2>2
<1>6. ASSUME NEW b \in DOMAIN naming'
      PROVE  /\ naming'[b].handle # naming'[b].retired
             /\ \A n \in {naming'[b].handle, naming'[b].retired} \ {NoName} :
                  n \in DOMAIN owner' /\ owner'[n] = b
  <2>1. CASE b = a
    BY <1>3, <1>4, <1>5, <2>1 DEF Owned
  <2>2. CASE b # a
    BY <1>2, <1>3, <2>2 DEF HandlesInv, DirectoryConsistent
  <2> QED
    BY <2>1, <2>2
<1>7. ASSUME NEW n \in DOMAIN owner'
      PROVE  /\ owner'[n] \in DOMAIN naming'
             /\ n \in {naming'[owner'[n]].handle, naming'[owner'[n]].retired}
  <2>1. CASE n = h
    BY <1>2, <1>3, <1>4, <2>1
  <2>2. CASE n # h
    <3>1. n \in DOMAIN owner /\ owner'[n] = owner[n]
      BY <1>3, <2>2
    <3>2. owner[n] \in DOMAIN naming /\ n \in {naming[owner[n]].handle, naming[owner[n]].retired}
      BY <3>1 DEF HandlesInv, DirectoryConsistent
    <3>3. CASE owner[n] # a
      BY <1>2, <3>1, <3>2, <3>3
    <3>4. CASE owner[n] = a
      <4>1. n # NoName
        BY <3>1, HandleConstants DEF HandlesInv, HandlesType
      <4>2. n \in {h, Retired(a, h)}
        BY <2>2, <3>2, <3>4, <4>1 DEF Retired, Current, Refused
      <4> QED
        BY <1>2, <1>4, <3>1, <3>4, <4>2
    <3> QED
      BY <3>3, <3>4
  <2> QED
    BY <2>1, <2>2
<1> QED
  BY <1>6, <1>7 DEF DirectoryConsistent

-----------------------------------------------------------------------------
(* What a request has established stays so when names are only added.      *)
LEMMA TaskKept ==
  ASSUME NEW t,
         \A h \in DOMAIN owner : h \in DOMAIN owner' /\ owner'[h] = owner[h],
         DOMAIN bindings \subseteq DOMAIN bindings',
         TaskOK(t)
  PROVE  TaskOK(t)'
BY DEF TaskOK, Owned, Bound

LEMMA HandlesInvInit == HandlesInit => HandlesInv
<1> SUFFICES ASSUME HandlesInit PROVE HandlesInv
  OBVIOUS
<1>1. owner = <<>> /\ naming = <<>> /\ bindings = <<>> /\ acknowledged = {}
  BY DEF HandlesInit
<1>2. DOMAIN owner = {} /\ DOMAIN naming = {} /\ DOMAIN bindings = {}
  BY <1>1
<1>3. NoTask \in Tasks
  BY DEF NoTask, Tasks
<1>4. task \in [HandleRequests -> Tasks]
  BY <1>3 DEF HandlesInit
<1>5. \A S : /\ owner \in [DOMAIN owner -> S] /\ naming \in [DOMAIN naming -> S]
             /\ bindings \in [DOMAIN bindings -> S]
  BY <1>1, <1>2
<1>6. \A r \in HandleRequests : TaskOK(task[r])
  BY DEF HandlesInit, NoTask, TaskOK
<1> QED
  BY <1>1, <1>2, <1>4, <1>5, <1>6
     DEF HandlesInv, HandlesType, DirectoryConsistent, ReplicaAgrees

(* Only the steps of a claim touch the directory, the replica and what was *)
(* answered; each is a lemma of its own.                                   *)
LEMMA ClaimStep ==
  ASSUME HandlesInv, NEW r \in HandleRequests, ClaimHandle(r)
  PROVE  HandlesInv'
<1> DEFINE a == task[r].account
           h == task[r].handle
<1>1. task[r] \in Tasks /\ TaskOK(task[r]) /\ task[r].at = "claim"
  BY DEF HandlesInv, HandlesType, ClaimHandle, TaskAt
<1>2. a \in Accounts /\ h \in Names
  BY <1>1 DEF TaskOK
<1>3. CASE Refused(a, h)
  <2>1. UNCHANGED <<owner, naming, bindings, acknowledged>>
    BY <1>3 DEF ClaimHandle
  <2>2. task' = [task EXCEPT ![r] = NoTask] /\ NoTask \in Tasks
    BY <1>3 DEF ClaimHandle, Stop, Continue, NoTask, Tasks
  <2>3. HandlesType'
    BY <2>1, <2>2 DEF HandlesInv, HandlesType
  <2>4. ASSUME NEW q \in HandleRequests PROVE TaskOK(task[q])'
    BY <2>1, <2>2 DEF HandlesInv, HandlesType, TaskOK, NoTask, Owned, Bound
  <2> QED
    BY <2>1, <2>3, <2>4 DEF HandlesInv, DirectoryConsistent, ReplicaAgrees
<1>4. CASE ~Refused(a, h)
  <2> DEFINE t == [task[r] EXCEPT !.at = "push", !.retired = Retired(a, h)]
  <2>1. /\ Claims(a, h)
        /\ task' = [task EXCEPT ![r] = t]
        /\ UNCHANGED <<bindings, acknowledged>>
    BY <1>4 DEF ClaimHandle, Claims, Continue
  <2>2. /\ \A n \in DOMAIN owner : n \in DOMAIN owner' /\ owner'[n] = owner[n]
        /\ DOMAIN owner' = DOMAIN owner \cup {h} /\ owner'[h] = a
        /\ Retired(a, h) # NoName => Owned(Retired(a, h), a)
    BY <1>2, <1>4, <2>1, ClaimKeepsNames
  <2>3. DirectoryConsistent'
    BY <1>2, <1>4, <2>1, ClaimKeepsDirectory
  <2>4. Retired(a, h) \in Names \cup {NoName}
    BY <1>2, HandleConstants DEF HandlesInv, HandlesType, Retired, Current
  <2>5. t \in Tasks /\ t.at = "push" /\ t.account = a /\ t.handle = h /\ t.retired = Retired(a, h)
    BY <1>1, <2>4 DEF Tasks
  <2>6. HandlesType'
    <3>1. owner' \in [DOMAIN owner' -> Accounts] /\ DOMAIN owner' \subseteq Names
      BY <1>2, <2>1, <2>2, PutType DEF Claims, HandlesInv, HandlesType
    <3>2. [handle |-> h, retired |-> Retired(a, h)]
            \in [handle : Names, retired : Names \cup {NoName}]
      BY <1>2, <2>4
    <3>3. /\ naming' \in [DOMAIN naming' -> [handle : Names, retired : Names \cup {NoName}]]
          /\ DOMAIN naming' \subseteq Accounts
      BY <1>2, <2>1, <3>2 DEF Claims, Put, HandlesInv, HandlesType
    <3>4. task' \in [HandleRequests -> Tasks]
      BY <2>1, <2>5 DEF HandlesInv, HandlesType
    <3> QED
      BY <2>1, <3>1, <3>3, <3>4 DEF HandlesInv, HandlesType
  <2>7. ASSUME NEW q \in HandleRequests PROVE TaskOK(task[q])'
    <3>1. CASE q = r
      <4>1. task'[q] = t
        BY <2>1, <3>1 DEF HandlesInv, HandlesType
      <4>2. t.at # "free" /\ t.at # "claim" /\ t.at # "push retired" /\ t.at # "record"
        BY <2>5
      <4> QED
        BY <1>2, <2>2, <2>5, <4>1, <4>2 DEF TaskOK, Owned
    <3>2. CASE q # r
      <4>1. PICK u : u = task[q]
        OBVIOUS
      <4>2. task'[q] = u
        BY <2>1, <3>2, <4>1 DEF HandlesInv, HandlesType
      <4>3. NamesStay
        BY <2>1, <2>2 DEF NamesStay
      <4>4. TaskOK(u)
        BY <4>1 DEF HandlesInv
      <4>5. TaskOK(u)'
        BY <4>3, <4>4, TaskStays
      <4> QED
        BY <4>2, <4>5
    <3> QED
      BY <3>1, <3>2
  <2>8. ReplicaAgrees'
    BY <2>1, <2>2 DEF HandlesInv, ReplicaAgrees
  <2> QED
    BY <2>1, <2>3, <2>6, <2>7, <2>8 DEF HandlesInv
<1> QED
  BY <1>3, <1>4

(* A name that is told to the Gateway is the Account's at the directory.   *)
LEMMA PushStep ==
  ASSUME HandlesInv, NEW r \in HandleRequests, PushHandleBinding(r)
  PROVE  HandlesInv' /\ (\A h \in DOMAIN bindings : bindings'[h] = bindings[h])
<1> DEFINE t == task[r]
           name == IF t.at = "push" THEN t.handle ELSE t.retired
<1>1. t \in Tasks /\ TaskOK(t) /\ t.at \in {"push", "push retired"}
  BY DEF HandlesInv, HandlesType, PushHandleBinding
<1>2. t.account \in Accounts /\ Owned(name, t.account)
  BY <1>1 DEF TaskOK
<1>3. ~(name \in DOMAIN bindings /\ bindings[name] # t.account)
  BY <1>2 DEF HandlesInv, ReplicaAgrees, Owned
<1> DEFINE n == [t EXCEPT !.at = AfterPush(t)]
<1>4. /\ bindings' = Put(bindings, name, t.account)
      /\ task' = [task EXCEPT ![r] = n]
      /\ UNCHANGED <<owner, naming, acknowledged>>
  BY <1>3 DEF PushHandleBinding, Continue
<1>5. /\ DOMAIN bindings' = DOMAIN bindings \cup {name} /\ bindings'[name] = t.account
      /\ \A h \in DOMAIN bindings : bindings'[h] = bindings[h]
  BY <1>3, <1>4 DEF Put
<1>6. n \in Tasks /\ n.at = AfterPush(t) /\ n.op = t.op /\ n.account = t.account
      /\ n.handle = t.handle /\ n.retired = t.retired
  BY <1>1 DEF Tasks, AfterPush
<1>7. HandlesType'
  <2>1. bindings' \in [DOMAIN bindings' -> Accounts]
    BY <1>2, <1>4, PutType DEF HandlesInv, HandlesType
  <2>2. name \in Names
    BY <1>2 DEF Owned, HandlesInv, HandlesType
  <2>3. task' \in [HandleRequests -> Tasks]
    BY <1>4, <1>6 DEF HandlesInv, HandlesType
  <2> QED
    BY <1>4, <1>5, <2>1, <2>2, <2>3 DEF HandlesInv, HandlesType
<1>8. ReplicaAgrees'
  BY <1>2, <1>4, <1>5 DEF HandlesInv, ReplicaAgrees, Owned
<1>9. ASSUME NEW q \in HandleRequests PROVE TaskOK(task[q])'
  <2>1. CASE q = r
    <3>1. task'[q] = n
      BY <1>4, <2>1 DEF HandlesInv, HandlesType
    <3>2. name \in DOMAIN bindings'
      BY <1>5
    <3>3. /\ Owned(t.handle, t.account)
          /\ t.retired # NoName => Owned(t.retired, t.account)
          /\ t.at = "push retired" => t.retired # NoName /\ Bound(t.handle)
      BY <1>1 DEF TaskOK
    <3>4. \/ n.at = "push retired" /\ t.at = "push" /\ t.retired # NoName
          \/ n.at = "record" /\ t.at = "push" /\ t.retired = NoName
          \/ n.at = "record" /\ t.at = "push retired"
      BY <1>1, <1>6 DEF AfterPush
    <3>5. /\ n.account \in Accounts
          /\ n.handle \in DOMAIN owner /\ owner[n.handle] = n.account
          /\ n.retired # NoName =>
               n.retired \in DOMAIN owner /\ owner[n.retired] = n.account
          /\ n.handle \in DOMAIN bindings'
          /\ n.at = "record" /\ n.retired # NoName => n.retired \in DOMAIN bindings'
      BY <1>1, <1>2, <1>5, <1>6, <3>2, <3>3, <3>4 DEF Owned, Bound
    <3>6. n.at \in {"push retired", "record"} /\ (n.at = "push retired" => n.retired # NoName)
      BY <1>6, <3>4
    <3> HIDE DEF n
    <3> QED
      BY <1>4, <3>1, <3>5, <3>6 DEF TaskOK, Owned, Bound
  <2>2. CASE q # r
    <3>1. task'[q] = task[q]
      BY <1>4, <2>2 DEF HandlesInv, HandlesType
    <3> QED
      BY <1>4, <1>5, <3>1 DEF HandlesInv, TaskOK, Owned, Bound
  <2> QED
    BY <2>1, <2>2
<1> QED
  BY <1>4, <1>5, <1>7, <1>8, <1>9 DEF HandlesInv, DirectoryConsistent

(* The other steps move one request and leave both directories alone.      *)
LEMMA OtherSteps ==
  ASSUME HandlesInv, NEW r \in HandleRequests, NEW t \in Tasks,
         task' = [task EXCEPT ![r] = t], TaskOK(t),
         UNCHANGED <<owner, naming, bindings>>,
         acknowledged' \subseteq DOMAIN bindings
  PROVE  HandlesInv'
<1>1. HandlesType'
  BY DEF HandlesInv, HandlesType
<1>2. ASSUME NEW q \in HandleRequests PROVE TaskOK(task[q])'
  <2>1. task'[q] = IF q = r THEN t ELSE task[q]
    BY DEF HandlesInv, HandlesType
  <2> QED
    BY <2>1 DEF HandlesInv, TaskOK, Owned, Bound
<1> QED
  BY <1>1, <1>2 DEF HandlesInv, DirectoryConsistent, ReplicaAgrees

-----------------------------------------------------------------------------
(* The invariant over every step, and that a step never moves a name.      *)
NamesKept ==
  /\ \A h \in DOMAIN owner : h \in DOMAIN owner' /\ owner'[h] = owner[h]
  /\ \A a \in DOMAIN naming : naming[a].retired # NoName => naming'[a] = naming[a]

LEMMA HandlesInvStep ==
  ASSUME HandlesInv, [HandlesNext]_handleVars
  PROVE  HandlesInv' /\ NamesKept
<1>1. CASE UNCHANGED handleVars
  <2>1. UNCHANGED <<owner, naming, bindings, task, acknowledged>>
    BY <1>1 DEF handleVars
  <2>2. HandlesType' /\ DirectoryConsistent' /\ ReplicaAgrees' /\ NamesKept
    BY <2>1 DEF HandlesInv, HandlesType, DirectoryConsistent, ReplicaAgrees, NamesKept
  <2>3. ASSUME NEW r \in HandleRequests PROVE TaskOK(task[r])'
    BY <2>1 DEF HandlesInv, TaskOK, Owned, Bound
  <2> QED
    BY <2>1, <2>2, <2>3 DEF HandlesInv
<1>2. ASSUME NEW r \in HandleRequests, NEW a \in Accounts,
             NEW segment \in Accounts \cup Names, NEW h \in Names, BeginPut(r, a, segment, h)
      PROVE  HandlesInv' /\ NamesKept
  <2> DEFINE t == [NoTask EXCEPT !.at = "claim", !.op = "put", !.account = a, !.handle = h]
  <2>1. t \in Tasks /\ TaskOK(t)
    BY DEF NoTask, Tasks, TaskOK
  <2> QED
    BY <1>2, <2>1, OtherSteps DEF BeginPut, Continue, HandlesInv, NamesKept
<1>3. ASSUME NEW r \in HandleRequests, NEW a \in Accounts, BeginGet(r, a)
      PROVE  HandlesInv' /\ NamesKept
  <2> DEFINE t == [NoTask EXCEPT !.at = "record", !.account = a, !.handle = naming[a].handle]
  <2>1. naming[a].handle \in Names
    BY <1>3 DEF BeginGet, HandlesInv, HandlesType
  <2>2. t \in Tasks /\ TaskOK(t)
    BY <2>1 DEF NoTask, Tasks, TaskOK
  <2> QED
    BY <1>3, <2>2, OtherSteps DEF BeginGet, Continue, HandlesInv, NamesKept
<1>4. ASSUME NEW r \in HandleRequests, ClaimHandle(r)
      PROVE  HandlesInv' /\ NamesKept
  <2> DEFINE a == task[r].account
             h == task[r].handle
  <2>1. a \in Accounts /\ h \in Names
    BY <1>4 DEF HandlesInv, ClaimHandle, TaskAt, TaskOK
  <2>2. NamesKept
    <3>1. CASE Refused(a, h)
      <4>1. UNCHANGED <<owner, naming>>
        BY <1>4, <3>1 DEF ClaimHandle
      <4> QED
        BY <4>1 DEF NamesKept
    <3>2. CASE ~Refused(a, h)
      <4>1. Claims(a, h)
        BY <1>4, <3>2 DEF ClaimHandle, Claims
      <4> QED
        BY <2>1, <3>2, <4>1, ClaimKeepsNames DEF NamesKept
    <3> QED
      BY <3>1, <3>2
  <2> QED
    BY <1>4, <2>2, ClaimStep
<1>5. ASSUME NEW r \in HandleRequests, PushHandleBinding(r)
      PROVE  HandlesInv' /\ NamesKept
  BY <1>5, PushStep DEF PushHandleBinding, NamesKept
<1>6. NoTask \in Tasks /\ TaskOK(NoTask)
  BY DEF NoTask, Tasks, TaskOK
<1>7. ASSUME NEW r \in HandleRequests, RecordHandle(r)
      PROVE  HandlesInv' /\ NamesKept
  <2>1. TaskOK(task[r]) /\ task[r].at = "record"
    BY <1>7 DEF HandlesInv, RecordHandle, TaskAt
  <2>2. acknowledged' \subseteq DOMAIN bindings
    BY <1>7, <2>1 DEF RecordHandle, TaskOK, Bound, HandlesInv
  <2> QED
    BY <1>6, <1>7, <2>2, OtherSteps DEF RecordHandle, Stop, Continue, NamesKept
<1>8. ASSUME NEW r \in HandleRequests, GiveUp(r)
      PROVE  HandlesInv' /\ NamesKept
  BY <1>6, <1>8, OtherSteps DEF GiveUp, Stop, Continue, HandlesInv, NamesKept
<1> QED
  BY <1>1, <1>2, <1>3, <1>4, <1>5, <1>7, <1>8 DEF HandlesNext, HandleStep

LEMMA HandlesInvAlways == HandlesSpec => []HandlesInv
BY HandlesInvInit, HandlesInvStep, PTL DEF HandlesSpec

-----------------------------------------------------------------------------
(* The two kinds of entry of the directory (claimAccountHandle in          *)
(* handles.ts) agree: no name has two Accounts and no Account a name that  *)
(* is not its own.                                                         *)
THEOREM DirectoryAlwaysConsistent == HandlesSpec => []DirectoryConsistent
<1>1. HandlesInv => DirectoryConsistent
  BY DEF HandlesInv
<1> QED
  BY <1>1, HandlesInvAlways, PTL

(* The Gateway's replica (bindHandle in workers/gateway.ts) never has a    *)
(* name for another Account than the directory: the conflict it answers    *)
(* with 409 does not arise.                                                *)
THEOREM ReplicaAlwaysAgrees == HandlesSpec => []ReplicaAgrees
<1>1. HandlesInv => ReplicaAgrees
  BY DEF HandlesInv
<1> QED
  BY <1>1, HandlesInvAlways, PTL

(* What Control has answered for with success (handleRoutes in             *)
(* workers/control.ts) the Gateway serves, the replaced name included.     *)
THEOREM AnsweredNamesAlwaysServe == HandlesSpec => []AnsweredNamesServe
<1>1. HandlesInv => AnsweredNamesServe
  BY HandleConstants
     DEF HandlesInv, HandlesType, ReplicaAgrees, AnsweredNamesServe, ResolveAccountSegment
<1> QED
  BY <1>1, HandlesInvAlways, PTL

(* No name moves, at any step, and an Account that has renamed once keeps  *)
(* both its names for good (claimAccountHandle in handles.ts).             *)
THEOREM NamesAlwaysPermanent == HandlesSpec => NamesArePermanent
<1>1. HandlesInv /\ [HandlesNext]_handleVars => [NamesKept]_handleVars
  BY HandlesInvStep
<1>2. HandlesSpec => [][NamesKept]_handleVars
  BY <1>1, HandlesInvAlways, PTL DEF HandlesSpec
<1> QED
  BY <1>2 DEF NamesArePermanent, NamesKept

-----------------------------------------------------------------------------
(* Asking for a link.  A bag of requests is counted by its copies.         *)

SignIns ==
  [at : {"source", "address", "clear", "issue"}, source : Sources, address : Addresses,
   now : Nat]

BagOK(B) == DOMAIN B \subseteq SignIns /\ B \in [DOMAIN B -> Nat \ {0}]

(* The copies of a bag's elements, numbered: as many as its counts add up  *)
(* to.                                                                     *)
Copies(B) == {c \in SignIns \X Nat : c[1] \in DOMAIN B /\ 1 <= c[2] /\ c[2] <= B[c[1]]}

(* A copy of q more or less, and one that has become a copy of r.          *)
OneMore(C, D, q) == \E c \in SignIns \X Nat : c[1] = q /\ c \notin C /\ D = C \cup {c}

OneLess(C, D, q) == \E c \in C : c[1] = q /\ D = C \ {c}

Moved(C, D, q, r) ==
  \E c \in C, d \in SignIns \X Nat :
    c[1] = q /\ d[1] = r /\ d \notin C \ {c} /\ D = (C \ {c}) \cup {d}

LEMMA CopyAdded ==
  ASSUME NEW B, BagOK(B), NEW q \in SignIns
  PROVE  /\ BagOK(B (+) One(q)) /\ DOMAIN (B (+) One(q)) = DOMAIN B \cup {q}
         /\ OneMore(Copies(B), Copies(B (+) One(q)), q)
<1> DEFINE more == B (+) One(q)
           n == IF q \in DOMAIN B THEN B[q] + 1 ELSE 1
           c == <<q, n>>
<1>1. n \in Nat \ {0}
  BY DEF BagOK
<1>2. DOMAIN more = DOMAIN B \cup {q}
  BY DEF (+), One, SetToBag
<1>3. \A e \in DOMAIN more : more[e] = IF e = q THEN n ELSE B[e]
  BY DEF (+), One, SetToBag, BagOK
<1>4. BagOK(more)
  <2>1. more = [e \in DOMAIN more |-> more[e]]
    BY DEF (+)
  <2>2. \A e \in DOMAIN more : more[e] \in Nat \ {0}
    BY <1>1, <1>2, <1>3 DEF BagOK
  <2> HIDE DEF more
  <2> QED
    BY <1>2, <2>1, <2>2 DEF BagOK
<1> HIDE DEF more
<1>5. c \in SignIns \X Nat /\ c[1] = q /\ c \notin Copies(B)
  BY <1>1 DEF Copies, BagOK
<1>6. Copies(more) = Copies(B) \cup {c}
  <2>1. \A e \in SignIns \X Nat : e \in Copies(more) <=> e \in Copies(B) \/ e = c
    <3> SUFFICES ASSUME NEW s \in SignIns, NEW k \in Nat
                 PROVE  <<s, k>> \in Copies(more) <=> <<s, k>> \in Copies(B) \/ <<s, k>> = c
      OBVIOUS
    <3>1. s # q => (s \in DOMAIN more <=> s \in DOMAIN B)
      BY <1>2
    <3>2. CASE s # q
      BY <3>1, <3>2, <1>3 DEF Copies
    <3>3. CASE s = q
      BY <3>3, <1>1, <1>2, <1>3 DEF Copies, BagOK
    <3> QED
      BY <3>2, <3>3
  <2> QED
    BY <1>5, <2>1 DEF Copies
<1> QED
  BY <1>2, <1>4, <1>5, <1>6 DEF more, OneMore

LEMMA CopyRemoved ==
  ASSUME NEW B, BagOK(B), NEW q \in DOMAIN B
  PROVE  /\ BagOK(B (-) One(q)) /\ DOMAIN (B (-) One(q)) \subseteq DOMAIN B
         /\ OneLess(Copies(B), Copies(B (-) One(q)), q)
<1> DEFINE less == B (-) One(q)
           c == <<q, B[q]>>
<1>1. B[q] \in Nat \ {0} /\ q \in SignIns
  BY DEF BagOK
<1>2. /\ DOMAIN less = {e \in DOMAIN B : (IF e = q THEN B[e] - 1 ELSE B[e]) > 0}
      /\ \A e \in DOMAIN less : less[e] = IF e = q THEN B[e] - 1 ELSE B[e]
      /\ less = [e \in DOMAIN less |-> less[e]]
  BY DEF (-), One, SetToBag
<1> HIDE DEF less
<1>3. BagOK(less) /\ DOMAIN less \subseteq DOMAIN B
  <2>1. \A e \in DOMAIN less : less[e] \in Nat \ {0}
    BY <1>2 DEF BagOK
  <2> QED
    BY <1>2, <2>1 DEF BagOK
<1>4. c \in Copies(B) /\ c[1] = q
  BY <1>1 DEF Copies
<1>5. Copies(less) = Copies(B) \ {c}
  <2>1. \A e \in SignIns \X Nat : e \in Copies(less) <=> e \in Copies(B) /\ e # c
    <3> SUFFICES ASSUME NEW s \in SignIns, NEW k \in Nat
                 PROVE  <<s, k>> \in Copies(less) <=> <<s, k>> \in Copies(B) /\ <<s, k>> # c
      OBVIOUS
    <3>1. CASE s # q
      BY <3>1, <1>2 DEF Copies, BagOK
    <3>2. CASE s = q
      BY <3>2, <1>1, <1>2 DEF Copies
    <3> QED
      BY <3>1, <3>2
  <2> QED
    BY <1>4, <2>1 DEF Copies
<1> QED
  BY <1>3, <1>4, <1>5 DEF less, OneLess

LEMMA CopyMoved ==
  ASSUME NEW B, BagOK(B), NEW q \in DOMAIN B, NEW r \in SignIns
  PROVE  LET moved == (B (-) One(q)) (+) One(r) IN
           /\ BagOK(moved) /\ DOMAIN moved \subseteq DOMAIN B \cup {r}
           /\ \E D : OneLess(Copies(B), D, q) /\ OneMore(D, Copies(moved), r)
<1> DEFINE less == B (-) One(q)
<1>1. /\ BagOK(less) /\ DOMAIN less \subseteq DOMAIN B
      /\ OneLess(Copies(B), Copies(less), q)
  BY CopyRemoved
<1> HIDE DEF less
<1>2. /\ BagOK(less (+) One(r)) /\ DOMAIN (less (+) One(r)) = DOMAIN less \cup {r}
      /\ OneMore(Copies(less), Copies(less (+) One(r)), r)
  BY <1>1, CopyAdded
<1> QED
  BY <1>1, <1>2 DEF less

(* The requests for an address that its throttle has let through, those of *)
(* them that are about to store a link, and those that arrived late.       *)
Spent(C, a) == {c \in C : c[1].address = a /\ c[1].at \in {"clear", "issue"}}

Issuing(C, a) == {c \in Spent(C, a) : c[1].at = "issue"}

Later(C, a, start) == {c \in Spent(C, a) : c[1].now > start}

SignInTypeOK ==
  /\ ticks \in Nat
  /\ window \in [Counted -> [start : Nat, count : Nat]]
  /\ BagOK(asking) /\ IsFiniteSet(Copies(asking))
  /\ links \in [Addresses -> Seq(Nat)]

(* Every request arrived in this tick or in the last one.                  *)
RequestsAreBrief == \A q \in DOMAIN asking : q.now <= ticks /\ ticks <= q.now + 1

(* What the throttle of an address says of the requests it let through: it *)
(* counted all of them, but for fewer than the cap that the window before  *)
(* let through; all those that arrived after its start, and one more; and  *)
(* none of them arrived after its end.                                     *)
ThrottleOK(C, a, w, time) ==
  /\ w.count <= MAX_LINKS_PER_EMAIL
  /\ w.count = 0 =>
       /\ Cardinality(Spent(C, a)) <= MAX_LINKS_PER_EMAIL - 1
       /\ \A c \in Spent(C, a) : c[1].now < time
  /\ w.count # 0 =>
       /\ Cardinality(Spent(C, a)) <= w.count + MAX_LINKS_PER_EMAIL - 1
       /\ Cardinality(Later(C, a, w.start)) <= w.count - 1
       /\ \A c \in Spent(C, a) : c[1].now < w.start + THROTTLE_WINDOW

(* The links of an address, and those about to be stored, are as many as   *)
(* the requests that were let through when it was last cleared.            *)
LinksOK(C, a, n) == n + Cardinality(Issuing(C, a)) <= 2 * MAX_LINKS_PER_EMAIL - 1

SignInInv ==
  /\ SignInTypeOK /\ RequestsAreBrief
  /\ \A a \in Addresses :
       /\ ThrottleOK(Copies(asking), a, window[a], ticks)
       /\ LinksOK(Copies(asking), a, Len(links[a]))

LEMMA Limits ==
  /\ MAX_LINKS_PER_EMAIL \in Nat \ {0} /\ THROTTLE_WINDOW \in Nat \ {0, 1} /\ TTL \in Nat
  /\ Addresses \cap Sources = {}
<1>1. MAX_LINKS_PER_EMAIL \in {MAX_LINKS_PER_EMAIL, MAX_LINKS_PER_SOURCE}
  OBVIOUS
<1> QED
  BY <1>1, SignInAssumption

LEMMA Counts ==
  ASSUME NEW C, IsFiniteSet(C), NEW a, NEW start
  PROVE  /\ IsFiniteSet(Spent(C, a)) /\ IsFiniteSet(Issuing(C, a))
         /\ IsFiniteSet(Later(C, a, start))
         /\ Cardinality(Spent(C, a)) \in Nat /\ Cardinality(Issuing(C, a)) \in Nat
         /\ Cardinality(Later(C, a, start)) \in Nat
         /\ Cardinality(Issuing(C, a)) <= Cardinality(Spent(C, a))
         /\ Cardinality(Later(C, a, start)) <= Cardinality(Spent(C, a))
<1>1. /\ Spent(C, a) \subseteq C /\ Issuing(C, a) \subseteq Spent(C, a)
      /\ Later(C, a, start) \subseteq Spent(C, a)
  BY DEF Spent, Issuing, Later
<1>2. IsFiniteSet(Spent(C, a))
  BY <1>1, FS_Subset
<1>3. /\ IsFiniteSet(Issuing(C, a)) /\ IsFiniteSet(Later(C, a, start))
      /\ Cardinality(Issuing(C, a)) <= Cardinality(Spent(C, a))
      /\ Cardinality(Later(C, a, start)) <= Cardinality(Spent(C, a))
  BY <1>1, <1>2, FS_Subset
<1> QED
  BY <1>2, <1>3, FS_CardinalityType

(* Requests that are fewer, in a window that is the same.                  *)
LEMMA Fewer ==
  ASSUME NEW C, IsFiniteSet(C), NEW D, IsFiniteSet(D), NEW a,
         Spent(D, a) \subseteq Spent(C, a), NEW n \in Nat,
         NEW w \in [start : Nat, count : Nat], NEW time \in Nat
  PROVE  /\ ThrottleOK(C, a, w, time) => ThrottleOK(D, a, w, time)
         /\ LinksOK(C, a, n) => LinksOK(D, a, n)
<1>1. Issuing(D, a) \subseteq Issuing(C, a) /\ Later(D, a, w.start) \subseteq Later(C, a, w.start)
  BY DEF Issuing, Later
<1>2. /\ Cardinality(Spent(D, a)) <= Cardinality(Spent(C, a))
      /\ Cardinality(Issuing(D, a)) <= Cardinality(Issuing(C, a))
      /\ Cardinality(Later(D, a, w.start)) <= Cardinality(Later(C, a, w.start))
  BY <1>1, Counts, FS_Subset
<1>3. /\ Cardinality(Spent(C, a)) \in Nat /\ Cardinality(Spent(D, a)) \in Nat
      /\ Cardinality(Issuing(C, a)) \in Nat /\ Cardinality(Issuing(D, a)) \in Nat
      /\ Cardinality(Later(C, a, w.start)) \in Nat /\ Cardinality(Later(D, a, w.start)) \in Nat
  BY Counts
<1>4. ThrottleOK(C, a, w, time) => ThrottleOK(D, a, w, time)
  BY <1>2, <1>3, Limits DEF ThrottleOK
<1>5. LinksOK(C, a, n) => LinksOK(D, a, n)
  BY <1>2, <1>3, Limits DEF LinksOK
<1> QED
  BY <1>4, <1>5

LEMMA SignInInitial == SignInInit => SignInInv
<1> SUFFICES ASSUME SignInInit PROVE SignInInv
  OBVIOUS
<1>1. DOMAIN asking = {}
  BY DEF SignInInit, EmptyBag, SetToBag
<1>2. Copies(asking) = {}
  BY <1>1 DEF Copies
<1>3. asking = [e \in {} |-> 1]
  BY DEF SignInInit, EmptyBag, SetToBag
<1>4. BagOK(asking)
  BY <1>1, <1>3 DEF BagOK
<1>5. IsFiniteSet(Copies(asking)) /\ Cardinality({}) = 0
  BY <1>2, FS_EmptySet
<1>6. SignInTypeOK /\ RequestsAreBrief
  BY <1>1, <1>4, <1>5 DEF SignInTypeOK, RequestsAreBrief, SignInInit, NoWindow
<1>7. ASSUME NEW a \in Addresses
      PROVE  /\ ThrottleOK(Copies(asking), a, window[a], ticks)
             /\ LinksOK(Copies(asking), a, Len(links[a]))
  <2>1. Spent(Copies(asking), a) = {} /\ Issuing(Copies(asking), a) = {}
    BY <1>2 DEF Spent, Issuing
  <2>2. window[a].count = 0 /\ Len(links[a]) = 0
    BY DEF SignInInit, NoWindow, Counted
  <2> QED
    BY <1>5, <2>1, <2>2, Limits DEF ThrottleOK, LinksOK
<1> QED
  BY <1>6, <1>7 DEF SignInInv

(* The copies of the requests at work are of requests that are brief.      *)
LEMMA CopiesOf ==
  ASSUME SignInInv, NEW c \in Copies(asking)
  PROVE  /\ c[1] \in SignIns /\ c[1] \in DOMAIN asking
         /\ c[1].now \in Nat /\ c[1].now <= ticks /\ ticks <= c[1].now + 1
BY DEF SignInInv, RequestsAreBrief, Copies, SignIns

(* What leaves no more requests let through than there were, nor links.    *)
LEMMA QuietStep ==
  ASSUME SignInInv, ticks' = ticks, BagOK(asking'), IsFiniteSet(Copies(asking)'),
         RequestsAreBrief', window' \in [Counted -> [start : Nat, count : Nat]],
         links' \in [Addresses -> Seq(Nat)],
         \A a \in Addresses : /\ window'[a] = window[a]
                              /\ Len(links'[a]) <= Len(links[a])
                              /\ Spent(Copies(asking)', a) \subseteq Spent(Copies(asking), a)
  PROVE  SignInInv'
<1>1. SignInTypeOK'
  BY DEF SignInInv, SignInTypeOK
<1>2. ASSUME NEW a \in Addresses
      PROVE  /\ ThrottleOK(Copies(asking)', a, window'[a], ticks')
             /\ LinksOK(Copies(asking)', a, Len(links'[a]))
  <2> DEFINE C == Copies(asking)
             D == Copies(asking')
  <2>1. /\ IsFiniteSet(C) /\ IsFiniteSet(D) /\ ticks \in Nat
        /\ ThrottleOK(C, a, window[a], ticks) /\ LinksOK(C, a, Len(links[a]))
    BY DEF SignInInv, SignInTypeOK
  <2>2. /\ window[a] \in [start : Nat, count : Nat]
        /\ Len(links[a]) \in Nat /\ Len(links'[a]) \in Nat
    BY DEF SignInInv, SignInTypeOK, Counted
  <2>3. Spent(D, a) \subseteq Spent(C, a)
    OBVIOUS
  <2> HIDE DEF C, D
  <2>4. ThrottleOK(D, a, window[a], ticks) /\ LinksOK(D, a, Len(links[a]))
    BY <2>1, <2>2, <2>3, Fewer
  <2>5. Cardinality(Issuing(D, a)) \in Nat
    BY <2>1, Counts
  <2>6. LinksOK(D, a, Len(links'[a]))
    BY <2>2, <2>4, <2>5, Limits DEF LinksOK
  <2> QED
    BY <2>4, <2>6 DEF D
<1> QED
  BY <1>1, <1>2 DEF SignInInv

(* A request leaves or goes on.                                            *)
LEMMA Left ==
  ASSUME SignInInv, NEW q \in DOMAIN asking, Leave(q)
  PROVE  /\ BagOK(asking') /\ DOMAIN asking' \subseteq DOMAIN asking
         /\ IsFiniteSet(Copies(asking)') /\ OneLess(Copies(asking), Copies(asking)', q)
<1>1. BagOK(asking) /\ IsFiniteSet(Copies(asking))
  BY DEF SignInInv, SignInTypeOK
<1>2. /\ BagOK(asking') /\ DOMAIN asking' \subseteq DOMAIN asking
      /\ OneLess(Copies(asking), Copies(asking'), q)
  BY <1>1, CopyRemoved DEF Leave
<1>3. IsFiniteSet(Copies(asking'))
  BY <1>1, <1>2, FS_RemoveElement DEF OneLess
<1> QED
  BY <1>2, <1>3

LEMMA Proceeded ==
  ASSUME SignInInv, NEW q \in DOMAIN asking, NEW at \in {"address", "clear", "issue"},
         Proceed(q, at)
  PROVE  /\ BagOK(asking') /\ IsFiniteSet(Copies(asking)')
         /\ DOMAIN asking' \subseteq DOMAIN asking \cup {[q EXCEPT !.at = at]}
         /\ [q EXCEPT !.at = at] \in SignIns
         /\ Moved(Copies(asking), Copies(asking)', q, [q EXCEPT !.at = at])
<1> DEFINE r == [q EXCEPT !.at = at]
           C == Copies(asking)
<1>1. BagOK(asking) /\ IsFiniteSet(C) /\ q \in SignIns
  BY DEF SignInInv, SignInTypeOK, BagOK
<1>2. r \in SignIns
  BY <1>1 DEF SignIns
<1>3. asking' = (asking (-) One(q)) (+) One(r)
  BY DEF Proceed
<1> HIDE DEF r
<1>4. /\ BagOK(asking') /\ DOMAIN asking' \subseteq DOMAIN asking \cup {r}
      /\ \E D : OneLess(Copies(asking), D, q) /\ OneMore(D, Copies(asking'), r)
  BY <1>1, <1>2, <1>3, CopyMoved
<1>5. PICK D : OneLess(C, D, q) /\ OneMore(D, Copies(asking'), r)
  BY <1>4
<1>6. PICK c \in C : c[1] = q /\ D = C \ {c}
  BY <1>5 DEF OneLess
<1>7. PICK d \in SignIns \X Nat : d[1] = r /\ d \notin D /\ Copies(asking') = D \cup {d}
  BY <1>5 DEF OneMore
<1>8. IsFiniteSet(Copies(asking'))
  BY <1>1, <1>6, <1>7, FS_RemoveElement, FS_AddElement
<1> QED
  BY <1>2, <1>4, <1>6, <1>7, <1>8 DEF r, Moved

LEMMA BeginStep ==
  ASSUME SignInInv, NEW s \in Sources, NEW a \in Addresses, BeginSignIn(s, a)
  PROVE  SignInInv'
<1> DEFINE q == [at |-> "source", source |-> s, address |-> a, now |-> ticks]
           C == Copies(asking)
<1>1. /\ BagOK(asking) /\ IsFiniteSet(C) /\ ticks \in Nat /\ q \in SignIns
      /\ q.at = "source" /\ q.now = ticks
  BY DEF SignInInv, SignInTypeOK, SignIns
<1>2. asking' = asking (+) One(q) /\ UNCHANGED <<ticks, window, links>>
  BY DEF BeginSignIn
<1> HIDE DEF q
<1>3. /\ BagOK(asking') /\ DOMAIN asking' = DOMAIN asking \cup {q}
      /\ OneMore(C, Copies(asking'), q)
  BY <1>1, <1>2, CopyAdded
<1>4. PICK c \in SignIns \X Nat : c[1] = q /\ c \notin C /\ Copies(asking') = C \cup {c}
  BY <1>3 DEF OneMore
<1>5. IsFiniteSet(Copies(asking'))
  BY <1>1, <1>4, FS_AddElement
<1>6. RequestsAreBrief'
  BY <1>1, <1>2, <1>3 DEF SignInInv, RequestsAreBrief
<1>7. \A b \in Addresses : Spent(Copies(asking'), b) \subseteq Spent(C, b)
  BY <1>1, <1>4 DEF Spent
<1>8. /\ window' \in [Counted -> [start : Nat, count : Nat]]
      /\ links' \in [Addresses -> Seq(Nat)]
      /\ \A b \in Addresses : Len(links[b]) \in Nat
  BY <1>2 DEF SignInInv, SignInTypeOK
<1> QED
  BY <1>2, <1>3, <1>5, <1>6, <1>7, <1>8, QuietStep

LEMMA StopsStep ==
  ASSUME SignInInv, NEW q \in DOMAIN asking, Leave(q), ticks' = ticks, links' = links,
         window' \in [Counted -> [start : Nat, count : Nat]],
         \A a \in Addresses : window'[a] = window[a]
  PROVE  SignInInv'
<1>1. /\ BagOK(asking') /\ DOMAIN asking' \subseteq DOMAIN asking
      /\ IsFiniteSet(Copies(asking')) /\ OneLess(Copies(asking), Copies(asking'), q)
  BY Left
<1>2. RequestsAreBrief'
  BY <1>1 DEF SignInInv, RequestsAreBrief
<1>3. \A a \in Addresses : Spent(Copies(asking'), a) \subseteq Spent(Copies(asking), a)
  BY <1>1 DEF OneLess, Spent
<1>4. links' \in [Addresses -> Seq(Nat)] /\ \A a \in Addresses : Len(links[a]) \in Nat
  BY DEF SignInInv, SignInTypeOK
<1> QED
  BY <1>1, <1>2, <1>3, <1>4, QuietStep

(* What a throttle answers, and the window it leaves.                      *)
LEMMA Allowance ==
  ASSUME NEW w \in [start : Nat, count : Nat], NEW limit \in Nat \ {0}, NEW now \in Nat
  PROVE  LET outcome == SpendAllowance(w, limit, now) IN
           /\ outcome.window \in [start : Nat, count : Nat] /\ outcome.allowed \in BOOLEAN
           /\ ~outcome.allowed => outcome.window = w
           /\ outcome.allowed =>
                \/ /\ w.count = 0 \/ now >= w.start + THROTTLE_WINDOW
                   /\ outcome.window.start = now /\ outcome.window.count = 1
                \/ /\ w.count # 0 /\ now < w.start + THROTTLE_WINDOW /\ w.count < limit
                   /\ outcome.window.start = w.start /\ outcome.window.count = w.count + 1
<1>1. CASE w.count = 0 \/ now >= w.start + THROTTLE_WINDOW
  BY <1>1 DEF SpendAllowance
<1>2. CASE ~(w.count = 0 \/ now >= w.start + THROTTLE_WINDOW) /\ w.count >= limit
  BY <1>2 DEF SpendAllowance
<1>3. CASE ~(w.count = 0 \/ now >= w.start + THROTTLE_WINDOW) /\ ~(w.count >= limit)
  BY <1>3, Limits DEF SpendAllowance
<1> QED
  BY <1>1, <1>2, <1>3

LEMMA SpendSourceStep ==
  ASSUME SignInInv, NEW q \in DOMAIN asking, SpendSource(q)
  PROVE  SignInInv'
<1> DEFINE outcome == SpendAllowance(window[q.source], MAX_LINKS_PER_SOURCE, q.now)
           r == [q EXCEPT !.at = "address"]
<1>1. q \in SignIns /\ q.at = "source" /\ q.source \in Sources /\ q.now \in Nat
  BY DEF SignInInv, SignInTypeOK, BagOK, SignIns, SpendSource
<1>2. window[q.source] \in [start : Nat, count : Nat]
  BY <1>1 DEF SignInInv, SignInTypeOK, Counted
<1>3. outcome.window \in [start : Nat, count : Nat] /\ outcome.allowed \in BOOLEAN
  <2>1. MAX_LINKS_PER_SOURCE \in Nat \ {0}
    BY SignInAssumption
  <2> QED
    BY <1>1, <1>2, <2>1, Allowance
<1>4. /\ window' = [window EXCEPT ![q.source] = outcome.window]
      /\ IF outcome.allowed THEN Proceed(q, "address") ELSE Leave(q)
      /\ ticks' = ticks /\ links' = links
  BY DEF SpendSource, Spend
<1> HIDE DEF outcome
<1>5. /\ window' \in [Counted -> [start : Nat, count : Nat]]
      /\ \A a \in Addresses : window'[a] = window[a]
  BY <1>1, <1>3, <1>4, Limits DEF SignInInv, SignInTypeOK, Counted
<1>6. CASE ~outcome.allowed
  BY <1>4, <1>5, <1>6, StopsStep
<1>7. CASE outcome.allowed
  <2>1. /\ BagOK(asking') /\ IsFiniteSet(Copies(asking'))
        /\ DOMAIN asking' \subseteq DOMAIN asking \cup {r}
        /\ Moved(Copies(asking), Copies(asking'), q, r)
    BY <1>4, <1>7, Proceeded
  <2>2. PICK c \in Copies(asking), d \in SignIns \X Nat :
          c[1] = q /\ d[1] = r /\ Copies(asking') = (Copies(asking) \ {c}) \cup {d}
    BY <2>1 DEF Moved
  <2>3. r.at = "address" /\ r.now = q.now
    BY <1>1 DEF SignIns
  <2> HIDE DEF r
  <2>4. RequestsAreBrief'
    BY <1>4, <2>1, <2>3 DEF SignInInv, RequestsAreBrief
  <2>5. ASSUME NEW a \in Addresses
        PROVE  Spent(Copies(asking'), a) \subseteq Spent(Copies(asking), a)
    BY <2>2, <2>3 DEF Spent
  <2>6. links' \in [Addresses -> Seq(Nat)] /\ \A a \in Addresses : Len(links[a]) \in Nat
    BY <1>4 DEF SignInInv, SignInTypeOK
  <2> QED
    BY <1>4, <1>5, <2>1, <2>4, <2>5, <2>6, QuietStep
<1> QED
  BY <1>3, <1>6, <1>7

LEMMA AtMostOneMore ==
  ASSUME NEW S, IsFiniteSet(S), NEW x
  PROVE  /\ IsFiniteSet(S \cup {x}) /\ Cardinality(S \cup {x}) \in Nat
         /\ Cardinality(S \cup {x}) <= Cardinality(S) + 1
<1>1. /\ IsFiniteSet(S \cup {x})
      /\ Cardinality(S \cup {x}) = IF x \in S THEN Cardinality(S) ELSE Cardinality(S) + 1
  BY FS_AddElement
<1>2. Cardinality(S) \in Nat
  BY FS_CardinalityType
<1> QED
  BY <1>1, <1>2

LEMMA Swapped ==
  ASSUME NEW S, IsFiniteSet(S), NEW c \in S, NEW d
  PROVE  Cardinality((S \ {c}) \cup {d}) <= Cardinality(S)
<1>1. IsFiniteSet(S \ {c}) /\ Cardinality(S \ {c}) = Cardinality(S) - 1
  BY FS_RemoveElement
<1>2. /\ Cardinality((S \ {c}) \cup {d}) <= Cardinality(S \ {c}) + 1
      /\ Cardinality((S \ {c}) \cup {d}) \in Nat
  BY <1>1, AtMostOneMore
<1>3. Cardinality(S) \in Nat
  BY FS_CardinalityType
<1> QED
  BY <1>1, <1>2, <1>3

(* An address's throttle lets one more request through.  If that opens a   *)
(* window, those that the window before let through all arrived after it   *)
(* began, and none later than this one.                                    *)
LEMMA Admitted ==
  ASSUME NEW C, IsFiniteSet(C), NEW a, NEW time \in Nat,
         \A c \in C : c[1].now \in Nat /\ c[1].now <= time /\ time <= c[1].now + 1,
         NEW w \in [start : Nat, count : Nat], ThrottleOK(C, a, w, time),
         NEW d, d[1].now \in Nat, d[1].now <= time, time <= d[1].now + 1,
         NEW v \in [start : Nat, count : Nat],
         \/ /\ w.count = 0 \/ d[1].now >= w.start + THROTTLE_WINDOW
            /\ v.start = d[1].now /\ v.count = 1
         \/ /\ w.count # 0 /\ d[1].now < w.start + THROTTLE_WINDOW
            /\ w.count < MAX_LINKS_PER_EMAIL /\ v.start = w.start /\ v.count = w.count + 1,
         NEW D, IsFiniteSet(D), Spent(D, a) = Spent(C, a) \cup {d}
  PROVE  ThrottleOK(D, a, v, time)
<1> DEFINE cap == MAX_LINKS_PER_EMAIL
<1>1. /\ cap \in Nat \ {0} /\ w.count \in Nat /\ w.start \in Nat
      /\ IsFiniteSet(Spent(C, a)) /\ IsFiniteSet(Later(C, a, w.start))
      /\ Cardinality(Spent(C, a)) \in Nat /\ Cardinality(Later(C, a, w.start)) \in Nat
      /\ Cardinality(Spent(D, a)) \in Nat
  <2>1. cap \in Nat \ {0} /\ w.count \in Nat /\ w.start \in Nat
    BY Limits
  <2>2. /\ IsFiniteSet(Spent(C, a)) /\ IsFiniteSet(Later(C, a, w.start))
        /\ Cardinality(Spent(C, a)) \in Nat /\ Cardinality(Later(C, a, w.start)) \in Nat
    BY Counts
  <2>3. Cardinality(Spent(D, a)) \in Nat
    BY Counts
  <2> QED
    BY <2>1, <2>2, <2>3
<1>2. Cardinality(Spent(D, a)) <= Cardinality(Spent(C, a)) + 1
  BY <1>1, AtMostOneMore
<1>3. \A c \in Spent(C, a) : c[1].now \in Nat /\ c[1].now <= time /\ time <= c[1].now + 1
  BY DEF Spent
<1>4. CASE /\ w.count = 0 \/ d[1].now >= w.start + THROTTLE_WINDOW
           /\ v.start = d[1].now /\ v.count = 1
  <2>1. \A c \in Spent(C, a) : c[1].now <= d[1].now
    <3>1. CASE w.count = 0
      BY <1>3, <3>1 DEF ThrottleOK
    <3>2. CASE w.count # 0 /\ d[1].now >= w.start + THROTTLE_WINDOW
      BY <1>1, <1>3, <3>2, Limits DEF ThrottleOK
    <3> QED
      BY <1>4, <3>1, <3>2
  <2>2. Cardinality(Spent(C, a)) <= cap - 1
    <3>1. CASE w.count = 0
      BY <3>1 DEF ThrottleOK
    <3>2. CASE w.count # 0 /\ d[1].now >= w.start + THROTTLE_WINDOW
      <4>1. \A c \in Spent(C, a) : c[1].now > w.start
        <5>1. ASSUME NEW c \in Spent(C, a) PROVE c[1].now > w.start
          <6>1. c[1].now < w.start + THROTTLE_WINDOW
            BY <3>2 DEF ThrottleOK
          <6>2. c[1].now + 1 >= time
            BY <1>3
          <6> QED
            BY <1>1, <1>3, <3>2, <6>1, <6>2, Limits
        <5> QED
          BY <5>1
      <4>2. Later(C, a, w.start) = Spent(C, a)
        BY <4>1 DEF Later
      <4>3. Cardinality(Later(C, a, w.start)) <= w.count - 1 /\ w.count <= cap
        BY <3>2 DEF ThrottleOK
      <4> QED
        BY <1>1, <4>2, <4>3
    <3> QED
      BY <1>4, <3>1, <3>2
  <2>3. Later(D, a, v.start) = {}
    BY <1>3, <1>4, <2>1 DEF Later
  <2>4. Cardinality(Later(D, a, v.start)) = 0
    BY <2>3, FS_EmptySet
  <2>5. \A c \in Spent(D, a) : c[1].now < v.start + THROTTLE_WINDOW
    <3>1. \A c \in Spent(D, a) : c[1].now \in Nat /\ c[1].now <= d[1].now
      BY <1>3, <2>1
    <3> QED
      BY <1>4, <3>1, Limits
  <2> QED
    BY <1>1, <1>2, <1>4, <2>2, <2>4, <2>5 DEF ThrottleOK
<1>5. CASE /\ w.count # 0 /\ d[1].now < w.start + THROTTLE_WINDOW
           /\ w.count < cap /\ v.start = w.start /\ v.count = w.count + 1
  <2>1. Later(D, a, v.start) \subseteq Later(C, a, w.start) \cup {d}
    BY <1>5 DEF Later
  <2>2. /\ IsFiniteSet(Later(C, a, w.start) \cup {d})
        /\ Cardinality(Later(C, a, w.start) \cup {d}) \in Nat
        /\ Cardinality(Later(C, a, w.start) \cup {d}) <= Cardinality(Later(C, a, w.start)) + 1
    BY <1>1, AtMostOneMore
  <2>3. Cardinality(Later(D, a, v.start)) <= Cardinality(Later(C, a, w.start) \cup {d})
    BY <2>1, <2>2, FS_Subset
  <2>4. Cardinality(Later(D, a, v.start)) <= v.count - 1
    <3>1. Cardinality(Later(D, a, v.start)) \in Nat
      BY Counts
    <3>2. Cardinality(Later(C, a, w.start)) <= w.count - 1
      BY <1>5 DEF ThrottleOK
    <3> QED
      BY <1>1, <1>5, <2>2, <2>3, <3>1, <3>2
  <2>5. \A c \in Spent(D, a) : c[1].now < v.start + THROTTLE_WINDOW
    BY <1>5 DEF ThrottleOK
  <2> QED
    BY <1>1, <1>2, <1>5, <2>4, <2>5 DEF ThrottleOK
<1> QED
  BY <1>4, <1>5

LEMMA SpendEmailStep ==
  ASSUME SignInInv, NEW q \in DOMAIN asking, SpendEmail(q)
  PROVE  SignInInv'
<1> DEFINE a == q.address
           outcome == SpendAllowance(window[a], MAX_LINKS_PER_EMAIL, q.now)
           r == [q EXCEPT !.at = "clear"]
           C == Copies(asking)
           D == Copies(asking')
<1>1. /\ q \in SignIns /\ q.at = "address" /\ a \in Addresses /\ a \in Counted
      /\ q.now \in Nat /\ q.now <= ticks /\ ticks <= q.now + 1
  BY DEF SignInInv, SignInTypeOK, RequestsAreBrief, BagOK, SignIns, SpendEmail, Counted
<1>2. window[a] \in [start : Nat, count : Nat]
  BY <1>1 DEF SignInInv, SignInTypeOK
<1>3. /\ outcome.window \in [start : Nat, count : Nat] /\ outcome.allowed \in BOOLEAN
      /\ ~outcome.allowed => outcome.window = window[a]
      /\ outcome.allowed =>
           \/ /\ window[a].count = 0 \/ q.now >= window[a].start + THROTTLE_WINDOW
              /\ outcome.window.start = q.now /\ outcome.window.count = 1
           \/ /\ window[a].count # 0 /\ q.now < window[a].start + THROTTLE_WINDOW
              /\ window[a].count < MAX_LINKS_PER_EMAIL
              /\ outcome.window.start = window[a].start
              /\ outcome.window.count = window[a].count + 1
  <2>1. q.now \in Nat /\ MAX_LINKS_PER_EMAIL \in Nat \ {0}
    BY <1>1, Limits
  <2> HIDE DEF a
  <2> QED
    BY <1>2, <2>1, Allowance
<1>4. /\ window' = [window EXCEPT ![a] = outcome.window]
      /\ IF outcome.allowed THEN Proceed(q, "clear") ELSE Leave(q)
      /\ ticks' = ticks /\ links' = links
  BY DEF SpendEmail, Spend
<1> HIDE DEF outcome
<1>5. /\ window' \in [Counted -> [start : Nat, count : Nat]]
      /\ window'[a] = outcome.window
      /\ \A b \in Addresses : b # a => window'[b] = window[b]
  BY <1>1, <1>3, <1>4 DEF SignInInv, SignInTypeOK, Counted
<1>6. CASE ~outcome.allowed
  BY <1>3, <1>4, <1>5, <1>6, StopsStep
<1>7. CASE outcome.allowed
  <2>1. /\ BagOK(asking') /\ IsFiniteSet(D) /\ DOMAIN asking' \subseteq DOMAIN asking \cup {r}
        /\ Moved(C, D, q, r)
    BY <1>4, <1>7, Proceeded
  <2>2. PICK c \in C, d \in SignIns \X Nat :
          c[1] = q /\ d[1] = r /\ D = (C \ {c}) \cup {d}
    BY <2>1 DEF Moved
  <2>3. r.at = "clear" /\ r.now = q.now /\ r.address = a
    BY <1>1 DEF SignIns
  <2> HIDE DEF r
  <2>4. SignInTypeOK' /\ RequestsAreBrief'
    BY <1>1, <1>4, <1>5, <2>1, <2>3 DEF SignInInv, SignInTypeOK, RequestsAreBrief
  <2>5. /\ IsFiniteSet(C) /\ ticks \in Nat
        /\ \A b \in Addresses : /\ window[b] \in [start : Nat, count : Nat]
                                /\ Len(links[b]) \in Nat
                                /\ ThrottleOK(C, b, window[b], ticks)
                                /\ LinksOK(C, b, Len(links[b]))
    BY DEF SignInInv, SignInTypeOK, Counted
  <2>6. \A e \in C : e[1].now \in Nat /\ e[1].now <= ticks /\ ticks <= e[1].now + 1
    BY CopiesOf
  <2>7. Spent(D, a) = Spent(C, a) \cup {d} /\ Issuing(D, a) = Issuing(C, a)
    BY <1>1, <2>2, <2>3 DEF Spent, Issuing
  <2>8. \A b \in Addresses : b # a => Spent(D, b) \subseteq Spent(C, b)
    BY <2>2, <2>3 DEF Spent
  <2>9. ThrottleOK(D, a, window'[a], ticks') /\ LinksOK(D, a, Len(links'[a]))
    <3>1. /\ d[1].now \in Nat /\ d[1].now <= ticks /\ ticks <= d[1].now + 1
          /\ d[1].now = q.now
      BY <1>1, <2>2, <2>3
    <3> DEFINE w == window[a]
               v == outcome.window
    <3>2. w \in [start : Nat, count : Nat] /\ ThrottleOK(C, a, w, ticks)
      BY <1>1, <2>5
    <3>3. v \in [start : Nat, count : Nat]
      BY <1>3
    <3>4. \/ /\ w.count = 0 \/ d[1].now >= w.start + THROTTLE_WINDOW
             /\ v.start = d[1].now /\ v.count = 1
          \/ /\ w.count # 0 /\ d[1].now < w.start + THROTTLE_WINDOW
             /\ w.count < MAX_LINKS_PER_EMAIL /\ v.start = w.start /\ v.count = w.count + 1
      BY <1>3, <1>7, <3>1
    <3> HIDE DEF w, v, a, C, D
    <3>5. ThrottleOK(D, a, v, ticks)
      BY <2>1, <2>5, <2>6, <2>7, <3>1, <3>2, <3>3, <3>4, Admitted
    <3>6. LinksOK(D, a, Len(links'[a]))
      BY <1>1, <1>4, <2>5, <2>7 DEF LinksOK, a
    <3> QED
      BY <1>4, <1>5, <3>5, <3>6 DEF v
  <2>10. ASSUME NEW b \in Addresses, b # a
         PROVE  ThrottleOK(D, b, window'[b], ticks') /\ LinksOK(D, b, Len(links'[b]))
    <3> HIDE DEF a, C, D
    <3>1. /\ window'[b] = window[b] /\ links'[b] = links[b] /\ ticks' = ticks
          /\ Spent(D, b) \subseteq Spent(C, b)
      BY <1>4, <1>5, <2>8, <2>10
    <3>2. ThrottleOK(D, b, window[b], ticks) /\ LinksOK(D, b, Len(links[b]))
      BY <2>1, <2>5, <3>1, Fewer
    <3> QED
      BY <3>1, <3>2
  <2> QED
    BY <2>4, <2>9, <2>10 DEF SignInInv
<1> QED
  BY <1>3, <1>6, <1>7

(* Older links are deleted: those that are about to be stored were all let *)
(* through, and those are fewer than two windows allow.                    *)
LEMMA ClearOlderStep ==
  ASSUME SignInInv, NEW q \in DOMAIN asking, ClearOlder(q)
  PROVE  SignInInv'
<1> DEFINE a == q.address
           r == [q EXCEPT !.at = "issue"]
           C == Copies(asking)
           D == Copies(asking')
<1>1. /\ q \in SignIns /\ q.at = "clear" /\ a \in Addresses /\ q.now \in Nat
      /\ q.now <= ticks /\ ticks <= q.now + 1
  BY DEF SignInInv, SignInTypeOK, RequestsAreBrief, BagOK, SignIns, ClearOlder
<1>2. /\ links' = [links EXCEPT ![a] = <<>>] /\ Proceed(q, "issue")
      /\ ticks' = ticks /\ window' = window
  BY DEF ClearOlder
<1>3. /\ BagOK(asking') /\ IsFiniteSet(D) /\ DOMAIN asking' \subseteq DOMAIN asking \cup {r}
      /\ Moved(C, D, q, r)
  BY <1>2, Proceeded
<1>4. PICK c \in C, d \in SignIns \X Nat :
        c[1] = q /\ d[1] = r /\ D = (C \ {c}) \cup {d}
  BY <1>3 DEF Moved
<1>5. r.at = "issue" /\ r.now = q.now /\ r.address = a
  BY <1>1 DEF SignIns
<1> HIDE DEF r
<1>6. SignInTypeOK' /\ RequestsAreBrief'
  BY <1>1, <1>2, <1>3, <1>5 DEF SignInInv, SignInTypeOK, RequestsAreBrief
<1>7. /\ IsFiniteSet(C) /\ ticks \in Nat
      /\ \A b \in Addresses : /\ window[b] \in [start : Nat, count : Nat]
                              /\ Len(links[b]) \in Nat
                              /\ ThrottleOK(C, b, window[b], ticks)
                              /\ LinksOK(C, b, Len(links[b]))
  BY DEF SignInInv, SignInTypeOK, Counted
<1>8. \A b \in Addresses : b # a => Spent(D, b) \subseteq Spent(C, b)
  BY <1>4, <1>5 DEF Spent
<1>9. ASSUME NEW b \in Addresses, b # a
      PROVE  ThrottleOK(D, b, window'[b], ticks') /\ LinksOK(D, b, Len(links'[b]))
  <2>1. links'[b] = links[b]
    BY <1>2, <1>9 DEF SignInInv, SignInTypeOK
  <2> HIDE DEF a, C, D
  <2> QED
    BY <1>2, <1>3, <1>7, <1>8, <1>9, <2>1, Fewer
<1>10. /\ c \in Spent(C, a) /\ Spent(D, a) = (Spent(C, a) \ {c}) \cup {d}
       /\ \A start \in Nat : Later(D, a, start) =
            IF c \in Later(C, a, start) THEN (Later(C, a, start) \ {c}) \cup {d}
                                        ELSE Later(C, a, start)
  BY <1>1, <1>4, <1>5 DEF Spent, Later
<1>11. \A b : b = a => ThrottleOK(D, b, window[b], ticks)
  <2> DEFINE w == window[a]
  <2>1. w \in [start : Nat, count : Nat] /\ ThrottleOK(C, a, w, ticks)
    BY <1>1, <1>7
  <2>2. /\ Cardinality(Spent(D, a)) <= Cardinality(Spent(C, a))
        /\ Cardinality(Later(D, a, w.start)) <= Cardinality(Later(C, a, w.start))
    <3> HIDE DEF a, C, D, w
    <3>1. IsFiniteSet(Spent(C, a)) /\ IsFiniteSet(Later(C, a, w.start))
      BY <1>7, Counts
    <3>2. w.start \in Nat
      BY <2>1
    <3> QED
      <4>1. Cardinality(Spent(D, a)) <= Cardinality(Spent(C, a))
        BY <1>10, <3>1, Swapped
      <4>2. CASE c \in Later(C, a, w.start)
        <5>1. Later(D, a, w.start) = (Later(C, a, w.start) \ {c}) \cup {d}
          BY <1>10, <3>2, <4>2
        <5>2. Cardinality(Later(D, a, w.start)) <= Cardinality(Later(C, a, w.start))
          BY <3>1, <4>2, <5>1, Swapped
        <5> QED
          BY <4>1, <5>2
      <4>3. CASE c \notin Later(C, a, w.start)
        <5>1. Later(D, a, w.start) = Later(C, a, w.start)
          BY <1>10, <3>2, <4>3
        <5>2. Cardinality(Later(C, a, w.start)) \in Nat
          BY <3>1, FS_CardinalityType
        <5> QED
          BY <4>1, <5>1, <5>2
      <4> QED
        BY <4>1, <4>2, <4>3
  <2>3. /\ Cardinality(Spent(D, a)) \in Nat /\ Cardinality(Spent(C, a)) \in Nat
        /\ Cardinality(Later(D, a, w.start)) \in Nat
        /\ Cardinality(Later(C, a, w.start)) \in Nat
    <3> HIDE DEF a, C, D, w
    <3> QED
      BY <1>3, <1>7, Counts
  <2>4. /\ d[1].now = c[1].now
        /\ \A e \in Spent(D, a) : e \in Spent(C, a) \/ e = d
    BY <1>4, <1>5, <1>10
  <2>5. c \in Spent(C, a)
    BY <1>10
  <2> HIDE DEF a, C, D, w
  <2>6. ThrottleOK(D, a, w, ticks)
    BY <2>1, <2>2, <2>3, <2>4, <2>5, Limits DEF ThrottleOK
  <2> QED
    BY <2>6 DEF w
<1>12. LinksOK(D, a, Len(links'[a]))
  <2>1. ThrottleOK(D, a, window[a], ticks) /\ window[a] \in [start : Nat, count : Nat]
    BY <1>1, <1>7, <1>11
  <2>2. Len(links'[a]) = 0
    BY <1>1, <1>2 DEF SignInInv, SignInTypeOK
  <2> HIDE DEF a, C, D
  <2>3. /\ Cardinality(Spent(D, a)) \in Nat /\ Cardinality(Issuing(D, a)) \in Nat
        /\ Cardinality(Issuing(D, a)) <= Cardinality(Spent(D, a))
    BY <1>3, Counts
  <2>4. Cardinality(Spent(D, a)) <= 2 * MAX_LINKS_PER_EMAIL - 1
    BY <2>1, <2>3, Limits DEF ThrottleOK
  <2> QED
    BY <2>2, <2>3, <2>4, Limits DEF LinksOK
<1>13. ASSUME NEW b \in Addresses
       PROVE  ThrottleOK(D, b, window'[b], ticks') /\ LinksOK(D, b, Len(links'[b]))
  BY <1>2, <1>9, <1>11, <1>12
<1> QED
  BY <1>6, <1>13 DEF SignInInv

LEMMA IssueStep ==
  ASSUME SignInInv, NEW q \in DOMAIN asking, Issue(q)
  PROVE  SignInInv'
<1> DEFINE a == q.address
           C == Copies(asking)
           D == Copies(asking')
<1>1. q \in SignIns /\ q.at = "issue" /\ a \in Addresses
  BY DEF SignInInv, SignInTypeOK, BagOK, SignIns, Issue
<1>2. /\ links' = [links EXCEPT ![a] = Append(links[a], ticks + TTL)] /\ Leave(q)
      /\ ticks' = ticks /\ window' = window
  BY DEF Issue
<1>3. /\ BagOK(asking') /\ DOMAIN asking' \subseteq DOMAIN asking
      /\ IsFiniteSet(D) /\ OneLess(C, D, q)
  BY <1>2, Left
<1>4. PICK c \in C : c[1] = q /\ D = C \ {c}
  BY <1>3 DEF OneLess
<1>5. /\ IsFiniteSet(C) /\ ticks \in Nat /\ links \in [Addresses -> Seq(Nat)]
      /\ \A b \in Addresses : /\ window[b] \in [start : Nat, count : Nat]
                              /\ Len(links[b]) \in Nat
                              /\ ThrottleOK(C, b, window[b], ticks)
                              /\ LinksOK(C, b, Len(links[b]))
  BY DEF SignInInv, SignInTypeOK, Counted
<1>6. /\ links' \in [Addresses -> Seq(Nat)] /\ Len(links'[a]) = Len(links[a]) + 1
      /\ \A b \in Addresses : b # a => links'[b] = links[b]
  <2>1. ticks + TTL \in Nat /\ links[a] \in Seq(Nat)
    BY <1>1, <1>5, Limits
  <2>2. /\ Append(links[a], ticks + TTL) \in Seq(Nat)
        /\ Len(Append(links[a], ticks + TTL)) = Len(links[a]) + 1
    BY <2>1
  <2> QED
    BY <1>1, <1>2, <1>5, <2>2
<1>7. SignInTypeOK' /\ RequestsAreBrief'
  BY <1>2, <1>3, <1>6 DEF SignInInv, SignInTypeOK, RequestsAreBrief
<1>8. ASSUME NEW b \in Addresses
      PROVE  ThrottleOK(D, b, window'[b], ticks') /\ LinksOK(D, b, Len(links'[b]))
  <2>1. Spent(D, b) \subseteq Spent(C, b)
    BY <1>4 DEF Spent
  <2> HIDE DEF C, D
  <2>2. ThrottleOK(D, b, window[b], ticks) /\ LinksOK(D, b, Len(links[b]))
    BY <1>3, <1>5, <2>1, Fewer
  <2>3. CASE b # a
    BY <1>2, <1>6, <2>2, <2>3
  <2>4. CASE b = a
    <3>1. c \in Issuing(C, a) /\ Issuing(D, a) = Issuing(C, a) \ {c}
      BY <1>1, <1>4 DEF Issuing, Spent
    <3> HIDE DEF a
    <3>2. IsFiniteSet(Issuing(C, a)) /\ Cardinality(Issuing(C, a)) \in Nat
      BY <1>5, Counts
    <3>3. Cardinality(Issuing(D, a)) = Cardinality(Issuing(C, a)) - 1
      BY <3>1, <3>2, FS_RemoveElement
    <3>4. LinksOK(C, a, Len(links[a])) /\ Len(links[a]) \in Nat
      BY <1>5, <2>4
    <3>5. LinksOK(D, a, Len(links'[a]))
      BY <1>6, <3>2, <3>3, <3>4, Limits DEF LinksOK
    <3> QED
      BY <1>2, <2>2, <2>4, <3>5
  <2> QED
    BY <2>3, <2>4
<1> QED
  BY <1>7, <1>8 DEF SignInInv

LEMMA ClickStep ==
  ASSUME SignInInv, NEW a \in Addresses, NEW link \in DOMAIN links[a], Click(a, link)
  PROVE  SignInInv'
<1>1. links \in [Addresses -> Seq(Nat)]
  BY DEF SignInInv, SignInTypeOK
<1> DEFINE s == links[a]
           left == RemoveAt(s, link)
<1>2. left \in Seq(Nat) /\ Len(left) <= Len(s)
  <2>1. s \in Seq(Nat) /\ link \in 1 .. Len(s)
    BY <1>1
  <2>2. PICK t \in Seq(Nat) : t = s
    BY <2>1
  <2>3. /\ SubSeq(t, 1, link - 1) \in Seq(Nat) /\ Len(SubSeq(t, 1, link - 1)) = link - 1
    BY <2>1, <2>2
  <2>4. /\ SubSeq(t, link + 1, Len(t)) \in Seq(Nat)
        /\ Len(SubSeq(t, link + 1, Len(t))) = Len(t) - link
    BY <2>1, <2>2
  <2>5. left = SubSeq(t, 1, link - 1) \o SubSeq(t, link + 1, Len(t))
    BY <2>2 DEF RemoveAt
  <2> HIDE DEF left, s
  <2>6. \A u, v \in Seq(Nat) : u \o v \in Seq(Nat) /\ Len(u \o v) = Len(u) + Len(v)
    OBVIOUS
  <2>7. left \in Seq(Nat) /\ Len(left) = (link - 1) + (Len(t) - link)
    BY <2>3, <2>4, <2>5, <2>6
  <2>8. Len(t) \in Nat /\ Len(s) = Len(t) /\ link \in 1 .. Len(t)
    BY <2>1, <2>2
  <2> QED
    BY <2>7, <2>8
<1>3. links' = [links EXCEPT ![a] = left] /\ UNCHANGED <<ticks, window, asking>>
  BY DEF Click
<1> HIDE DEF left
<1>4. /\ links' \in [Addresses -> Seq(Nat)]
      /\ \A b \in Addresses : Len(links'[b]) <= Len(links[b])
  BY <1>1, <1>2, <1>3
<1>5. /\ BagOK(asking') /\ IsFiniteSet(Copies(asking')) /\ RequestsAreBrief'
      /\ window' \in [Counted -> [start : Nat, count : Nat]]
  BY <1>3 DEF SignInInv, SignInTypeOK, RequestsAreBrief
<1> QED
  BY <1>3, <1>4, <1>5, QuietStep

(* A window that is forgotten has ended: all it let through that are still *)
(* at work arrived after it began.                                         *)
LEMMA AlarmStep ==
  ASSUME SignInInv, NEW k \in Counted, ThrottleAlarm(k)
  PROVE  SignInInv'
<1> DEFINE C == Copies(asking)
<1>1. /\ window' = [window EXCEPT ![k] = NoWindow] /\ UNCHANGED <<ticks, asking, links>>
      /\ window[k].count > 0 /\ ticks >= window[k].start + THROTTLE_WINDOW
  BY DEF ThrottleAlarm
<1>2. SignInTypeOK' /\ RequestsAreBrief'
  BY <1>1 DEF SignInInv, SignInTypeOK, RequestsAreBrief, NoWindow
<1>3. /\ IsFiniteSet(C) /\ ticks \in Nat /\ window[k] \in [start : Nat, count : Nat]
      /\ \A b \in Addresses : /\ ThrottleOK(C, b, window[b], ticks)
                              /\ LinksOK(C, b, Len(links[b]))
  BY DEF SignInInv, SignInTypeOK, Counted
<1>4. ASSUME NEW a \in Addresses
      PROVE  ThrottleOK(C, a, window'[a], ticks)
  <2>1. CASE a # k
    BY <1>1, <1>3, <2>1 DEF SignInInv, SignInTypeOK, Counted
  <2>2. CASE a = k
    <3> DEFINE w == window[a]
    <3>1. /\ window'[a] = NoWindow /\ w \in [start : Nat, count : Nat] /\ w.count # 0
          /\ ticks >= w.start + THROTTLE_WINDOW /\ ThrottleOK(C, a, w, ticks)
      BY <1>1, <1>3, <2>2 DEF SignInInv, SignInTypeOK, Counted
    <3>2. \A c \in Spent(C, a) : c[1].now \in Nat /\ ticks <= c[1].now + 1
      BY CopiesOf DEF Spent
    <3> HIDE DEF w, C
    <3>3. \A c \in Spent(C, a) : c[1].now > w.start /\ c[1].now < ticks
      BY <1>3, <3>1, <3>2, Limits DEF ThrottleOK
    <3>4. Later(C, a, w.start) = Spent(C, a)
      BY <3>3 DEF Later
    <3>5. Cardinality(Spent(C, a)) \in Nat
      BY <1>3, Counts
    <3>6. Cardinality(Spent(C, a)) <= MAX_LINKS_PER_EMAIL - 1
      BY <3>1, <3>4, <3>5, Limits DEF ThrottleOK
    <3>7. NoWindow.count = 0
      BY DEF NoWindow
    <3> QED
      BY <3>1, <3>3, <3>6, <3>7, Limits DEF ThrottleOK
  <2> QED
    BY <2>1, <2>2
<1> QED
  BY <1>1, <1>2, <1>3, <1>4 DEF SignInInv

LEMMA TickStep == ASSUME SignInInv, Tick PROVE SignInInv'
<1> DEFINE C == Copies(asking)
<1>1. /\ ticks' = ticks + 1 /\ UNCHANGED <<window, asking, links>>
      /\ \A q \in DOMAIN asking : q.now = ticks
  BY DEF Tick, BagToSet
<1>2. SignInTypeOK' /\ RequestsAreBrief'
  BY <1>1 DEF SignInInv, SignInTypeOK, RequestsAreBrief
<1>3. ASSUME NEW a \in Addresses
      PROVE  ThrottleOK(C, a, window[a], ticks + 1) /\ LinksOK(C, a, Len(links[a]))
  <2>1. \A c \in Spent(C, a) : c[1].now < ticks + 1
    BY <1>1 DEF Spent, Copies, SignInInv, SignInTypeOK
  <2>2. ThrottleOK(C, a, window[a], ticks) /\ LinksOK(C, a, Len(links[a]))
    BY DEF SignInInv
  <2> HIDE DEF C
  <2> QED
    BY <2>1, <2>2 DEF ThrottleOK
<1> QED
  BY <1>1, <1>2, <1>3 DEF SignInInv

LEMMA SignInStep == SignInInv /\ [SignInNext]_signInVars => SignInInv'
<1> SUFFICES ASSUME SignInInv, [SignInNext]_signInVars PROVE SignInInv'
  OBVIOUS
<1>1. CASE UNCHANGED signInVars
  BY <1>1 DEF signInVars, SignInInv, SignInTypeOK, RequestsAreBrief
<1>2. ASSUME NEW s \in Sources, NEW a \in Addresses, BeginSignIn(s, a) PROVE SignInInv'
  BY <1>2, BeginStep
<1>3. ASSUME NEW q \in DOMAIN asking,
             SpendSource(q) \/ SpendEmail(q) \/ ClearOlder(q) \/ Issue(q) \/ SignInStops(q)
      PROVE  SignInInv'
  <2>1. CASE SpendSource(q)
    BY <2>1, SpendSourceStep
  <2>2. CASE SpendEmail(q)
    BY <2>2, SpendEmailStep
  <2>3. CASE ClearOlder(q)
    BY <2>3, ClearOlderStep
  <2>4. CASE Issue(q)
    BY <2>4, IssueStep
  <2>5. CASE SignInStops(q)
    BY <2>5, StopsStep DEF SignInStops, SignInInv, SignInTypeOK
  <2> QED
    BY <1>3, <2>1, <2>2, <2>3, <2>4, <2>5
<1>4. ASSUME NEW a \in Addresses, NEW link \in DOMAIN links[a], Click(a, link)
      PROVE  SignInInv'
  BY <1>4, ClickStep
<1>5. ASSUME NEW k \in Counted, ThrottleAlarm(k) PROVE SignInInv'
  BY <1>5, AlarmStep
<1>6. CASE Tick
  BY <1>6, TickStep
<1> QED
  BY <1>1, <1>2, <1>3, <1>4, <1>5, <1>6 DEF SignInNext, BagToSet

(* However requests for an address overlap, fewer links of it are live     *)
(* than two windows of its throttle allow.                                 *)
THEOREM LinksAreBounded == SignInSpec => []LinksBounded
<1>1. ASSUME SignInInv, NEW a \in Addresses
      PROVE  Cardinality(LiveLinks(a)) < 2 * MAX_LINKS_PER_EMAIL
  <2>1. /\ links[a] \in Seq(Nat) /\ Len(links[a]) \in Nat /\ IsFiniteSet(Copies(asking))
        /\ LinksOK(Copies(asking), a, Len(links[a]))
    BY <1>1 DEF SignInInv, SignInTypeOK
  <2>2. LiveLinks(a) \subseteq 1 .. Len(links[a])
    BY <2>1 DEF LiveLinks
  <2>3. IsFiniteSet(1 .. Len(links[a])) /\ Cardinality(1 .. Len(links[a])) = Len(links[a])
    BY <2>1, FS_Interval
  <2>4. IsFiniteSet(LiveLinks(a)) /\ Cardinality(LiveLinks(a)) <= Len(links[a])
    BY <2>2, <2>3, FS_Subset
  <2>5. Cardinality(LiveLinks(a)) \in Nat /\ Cardinality(Issuing(Copies(asking), a)) \in Nat
    BY <2>1, <2>4, FS_CardinalityType, Counts
  <2> QED
    BY <2>1, <2>4, <2>5, Limits DEF LinksOK
<1>2. SignInInv => LinksBounded
  BY <1>1 DEF LinksBounded
<1> QED
  BY <1>2, SignInInitial, SignInStep, PTL DEF SignInSpec
=============================================================================
