------------------------------- MODULE Handles --------------------------------
(***************************************************************************)
(* Account handles: the directory that owns them (one AccountRegistry for  *)
(* the whole platform), the replica the Gateway resolves coordinates from, *)
(* and the copy each Account shows.  A claim is three requests of Control, *)
(* to each of them in turn; any number of claims and reads interleave and  *)
(* any of them may stop between two requests.                              *)
(*                                                                         *)
(* A handle is permanent: never released, never moved to another Account,  *)
(* renamed at most once.                                                   *)
(***************************************************************************)
EXTENDS Naturals, FiniteSets

CONSTANTS Accounts, Names,
          Unclaimable,     \* the names that are reserved or malformed
          HandleRequests,  \* requests of Control at work at one time
          NoName

(* The underscore of an Account id is outside the grammar of names.        *)
ASSUME HandleConstants ==
  /\ Unclaimable \subseteq Names
  /\ NoName \notin Names
  /\ Accounts \cap Names = {}

VARIABLES
  owner,         \* directory: the Account of each claimed name
  naming,        \* directory: each Account's current and retired name
  bindings,      \* Gateway: the replica
  display,       \* the name each Account shows
  task,          \* the requests at work
  acknowledged   \* history: the names Control has answered for with success

handleVars == <<owner, naming, bindings, display, task, acknowledged>>

Put(f, x, y) == [z \in DOMAIN f \cup {x} |-> IF z = x THEN y ELSE f[z]]

NoTask == [at |-> "free", op |-> "get", account |-> NoName, handle |-> NoName,
           retired |-> NoName]

HandlesInit ==
  /\ owner = <<>> /\ naming = <<>> /\ bindings = <<>>
  /\ display = [a \in Accounts |-> NoName]
  /\ task = [r \in HandleRequests |-> NoTask]
  /\ acknowledged = {}

Continue(r, new) == task' = [task EXCEPT ![r] = new]
Stop(r) == Continue(r, NoTask)
TaskAt(r, at) == task[r].at = at

(* The path names the Account by its id or by a name, current or retired,  *)
(* and the session has to be of the Account it stands for.                 *)
Canonical(segment) == IF segment \in DOMAIN owner THEN owner[segment] ELSE segment

BeginPut(r, a, segment, h) ==
  /\ TaskAt(r, "free")
  /\ Canonical(segment) = a
  /\ Continue(r, [NoTask EXCEPT !.at = "claim", !.op = "put", !.account = a, !.handle = h])
  /\ UNCHANGED <<owner, naming, bindings, display, acknowledged>>

BeginGet(r, a) ==
  /\ TaskAt(r, "free")
  /\ a \in DOMAIN naming
  /\ Continue(r, [NoTask EXCEPT !.at = "record", !.account = a, !.handle = naming[a].handle])
  /\ UNCHANGED <<owner, naming, bindings, display, acknowledged>>

Current(a) == IF a \in DOMAIN naming THEN naming[a].handle ELSE NoName

(* claimAccountHandle: taken, or the one rename is spent.                  *)
Refused(a, h) ==
  \/ h \in Unclaimable
  \/ /\ Current(a) # h
     /\ \/ h \in DOMAIN owner
        \/ a \in DOMAIN naming /\ naming[a].retired # NoName

(* The name an Account has given up once it holds h.                       *)
Retired(a, h) == IF Current(a) = h THEN naming[a].retired ELSE Current(a)

(* Mutant: the name is told to the Gateway and then claimed.               *)
ClaimHandle_PushFirst(r) ==
  LET a == task[r].account
      h == task[r].handle
  IN /\ TaskAt(r, "claim")
     /\ h \notin DOMAIN bindings
     /\ bindings' = Put(bindings, h, a)
     /\ UNCHANGED <<task, owner, naming, display, acknowledged>>

(* The name's and the Account's entry are one put.                         *)
ClaimHandle(r) ==
  LET a == task[r].account
      h == task[r].handle
      retired == Retired(a, h)
  IN /\ TaskAt(r, "claim")
     /\ IF Refused(a, h)
        THEN Stop(r) /\ UNCHANGED <<owner, naming>>
        ELSE /\ owner' = Put(owner, h, a)
             /\ naming' = Put(naming, a, [handle |-> h, retired |-> retired])
             /\ Continue(r, [task[r] EXCEPT !.at = "push", !.retired = retired])
     /\ UNCHANGED <<bindings, display, acknowledged>>

(* Mutant: the retired name is not told again.                             *)
AfterPush_Current(t) == "record"

AfterPush(t) ==
  IF t.at = "push" /\ t.retired # NoName THEN "push retired" ELSE "record"

(* The Gateway binds a name once; another Account's is a conflict, and     *)
(* Control answers 500: the directories have diverged.                     *)
PushHandleBinding(r) ==
  LET t == task[r]
      name == IF t.at = "push" THEN t.handle ELSE t.retired
  IN /\ t.at \in {"push", "push retired"}
     /\ IF name \in DOMAIN bindings /\ bindings[name] # t.account
        THEN Stop(r) /\ UNCHANGED bindings
        ELSE /\ bindings' = Put(bindings, name, t.account)
             /\ Continue(r, [t EXCEPT !.at = AfterPush(t)])
     /\ UNCHANGED <<owner, naming, display, acknowledged>>

(* Mutant: the name to show is stored the first time only.                 *)
RecordHandle_Once(r) ==
  LET t == task[r] IN
  /\ TaskAt(r, "record")
  /\ display' = [display EXCEPT ![t.account] = IF @ = NoName THEN t.handle ELSE @]
  /\ Stop(r)
  /\ UNCHANGED <<owner, naming, bindings, acknowledged>>

(* How the Gateway reads the account segment of a coordinate.              *)
ResolveAccountSegment(segment) ==
  IF segment \in Accounts THEN segment
  ELSE IF segment \in DOMAIN bindings THEN bindings[segment]
  ELSE NoName

(* The Account's registry stores the name to show, and the request is      *)
(* answered.                                                               *)
RecordHandle(r) ==
  LET t == task[r] IN
  /\ TaskAt(r, "record")
  /\ display' = [display EXCEPT ![t.account] = t.handle]
  /\ acknowledged' = IF t.op = "put"
                     THEN acknowledged \cup ({t.handle, t.retired} \ {NoName})
                     ELSE acknowledged
  /\ Stop(r)
  /\ UNCHANGED <<owner, naming, bindings>>

(* The answer of a request never comes, or its Worker stops.               *)
GiveUp(r) ==
  /\ ~TaskAt(r, "free")
  /\ Stop(r)
  /\ UNCHANGED <<owner, naming, bindings, display, acknowledged>>

HandleStep(r) == ClaimHandle(r) \/ PushHandleBinding(r) \/ RecordHandle(r)

HandlesNext ==
  \E r \in HandleRequests :
    \/ \E a \in Accounts, segment \in Accounts \cup Names, h \in Names :
         BeginPut(r, a, segment, h)
    \/ \E a \in Accounts : BeginGet(r, a)
    \/ HandleStep(r) \/ GiveUp(r)

HandlesSpec == HandlesInit /\ [][HandlesNext]_handleVars

-----------------------------------------------------------------------------
(* The directory's two kinds of entry agree: a name belongs to the Account *)
(* that has it as its current or its retired name, and to no other.        *)
DirectoryConsistent ==
  /\ \A a \in DOMAIN naming :
       /\ naming[a].handle # naming[a].retired
       /\ \A h \in {naming[a].handle, naming[a].retired} \ {NoName} :
            h \in DOMAIN owner /\ owner[h] = a
  /\ \A h \in DOMAIN owner :
       /\ owner[h] \in DOMAIN naming
       /\ h \in {naming[owner[h]].handle, naming[owner[h]].retired}

(* The Gateway never binds a name the directory has not given to that      *)
(* Account, so that a push never meets a conflict (pushHandleBinding).     *)
ReplicaAgrees ==
  \A h \in DOMAIN bindings : h \in DOMAIN owner /\ bindings[h] = owner[h]

(* A name never moves, at the directory or at the Gateway, and the retired *)
(* name of an Account never becomes its current one again.                 *)
NamesArePermanent ==
  [][/\ \A h \in DOMAIN owner : h \in DOMAIN owner' /\ owner'[h] = owner[h]
     /\ \A a \in DOMAIN naming : naming[a].retired # NoName => naming'[a] = naming[a]]_handleVars

(* Once Control has answered a claim with success, the Gateway serves the  *)
(* name and the name it replaced for that Account, whichever earlier       *)
(* pushes were lost.                                                       *)
AnsweredNamesServe ==
  \A h \in acknowledged : ResolveAccountSegment(h) = owner[h]

(* control.ts:206-208: "Self-healing backfill: claims made before the      *)
(* display push existed (or whose push was lost) reach the Account's own   *)
(* state on the next read."  Once requests are no longer cut short, an     *)
(* Account whose handle is read again and again comes to show its current  *)
(* name for good, whatever earlier pushes were lost and whichever reads    *)
(* from before a rename are still to record the old one.  That the reads   *)
(* recur is a hypothesis: no client in the repository makes them.          *)
DisplayConverges ==
  \A a \in Accounts :
    /\ <>[][\A r \in HandleRequests : GiveUp(r) => HandleStep(r)]_handleVars
    /\ []<><<\E r \in HandleRequests : BeginGet(r, a)>>_handleVars
    => <>[](display[a] = Current(a))
=============================================================================
