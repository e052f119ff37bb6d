---------------------------- MODULE ConnectionsPage ----------------------------
(***************************************************************************)
(* The Connections page of the web client (src/www/app.js): a list with a  *)
(* row for each Connection and, in it, buttons to reauthorize, revoke and  *)
(* remove.  Everything between two awaits is one step; requests are served *)
(* in any order, fail at any moment, and are answered late.                *)
(*                                                                         *)
(* A button locks the row it is in.  The list is painted whole, by every   *)
(* answer to a request for it, so a row is replaced, and with it the lock, *)
(* while the action it started is still under way.  Not modelled: health,  *)
(* scopes and messages, and the moment in which the browser leaves for     *)
(* Google; a failed list, as an empty one, leaves no rows.                 *)
(***************************************************************************)
EXTENDS Naturals

CONSTANTS Stored,       \* the Connections there are at first
          Jobs,         \* async functions of the page under way at one time
          NoConnection

ASSUME NoConnectionAssumption == NoConnection \notin Stored

VARIABLES
  custody,  \* the Connections the Broker has
  rows,     \* for each Connection with a row: whether the row is locked
  jobs      \* the functions under way

connectionsPageVars == <<custody, rows, jobs>>

RowActions == {"reauthorize", "revoke", "remove"}

(* row: the row that the button was pressed in, while it is painted.       *)
NoJob == [stage |-> "none", action |-> "load", on |-> NoConnection, row |-> NoConnection,
          list |-> {}]

(* loadProviderCustody: at the start and after a Provider App was saved.   *)
LoadJob == [NoJob EXCEPT !.stage = "listing"]

Locking(c) == {j \in Jobs : jobs[j].row = c}

OpenedPage(j) == [i \in Jobs |-> IF i = j THEN LoadJob ELSE NoJob]

ConnectionsPageInit ==
  /\ custody = Stored
  /\ rows = <<>>
  /\ jobs = OpenedPage(CHOOSE j \in Jobs : TRUE)

(* The list is painted: every row is a new one, and job j is over.         *)
Repaint(j, shown) ==
  /\ rows' = [c \in shown |-> FALSE]
  /\ jobs' = [i \in Jobs |-> IF i = j THEN NoJob ELSE [jobs[i] EXCEPT !.row = NoConnection]]

-----------------------------------------------------------------------------
(* runConnectionAction: a button in a row that is not locked.              *)
PressRowButton(j, c, action) ==
  /\ jobs[j] = NoJob
  /\ c \in DOMAIN rows
  /\ ~rows[c]
  /\ rows' = [rows EXCEPT ![c] = TRUE]
  /\ jobs' = [jobs EXCEPT ![j] = [NoJob EXCEPT !.stage = "sent", !.action = action,
                                               !.on = c, !.row = c]]
  /\ UNCHANGED custody

ServeMutation(j) ==
  /\ jobs[j].stage = "sent"
  /\ jobs[j].on \in custody
  /\ custody' = IF jobs[j].action = "remove" THEN custody \ {jobs[j].on} ELSE custody
  /\ jobs' = [jobs EXCEPT ![j].stage = "served"]
  /\ UNCHANGED rows

(* The list is asked for again.                                            *)
MutationAnswered(j) ==
  /\ jobs[j].stage = "served"
  /\ jobs[j].action \in {"revoke", "remove"}
  /\ jobs' = [jobs EXCEPT ![j].stage = "listing"]
  /\ UNCHANGED <<custody, rows>>

(* The browser leaves for Google, and the page is opened anew afterwards.  *)
ReauthorizationAnswered(j) ==
  /\ jobs[j].stage = "served"
  /\ jobs[j].action = "reauthorize"
  /\ rows' = <<>>
  /\ jobs' = OpenedPage(j)
  /\ UNCHANGED custody

(* Mutant: the row that shows the Connection is unlocked.                  *)
MutationFails_Unlocks(j) ==
  /\ jobs[j].stage \in {"sent", "served"}
  /\ rows' = [c \in DOMAIN rows |-> rows[c] /\ c # jobs[j].on]
  /\ jobs' = [jobs EXCEPT ![j] = NoJob]
  /\ UNCHANGED custody

(* Refused, or the answer is lost: the buttons that were locked, if they   *)
(* are still painted, are unlocked, and no list is asked for.              *)
MutationFails(j) ==
  /\ jobs[j].stage \in {"sent", "served"}
  /\ rows' = [c \in DOMAIN rows |-> rows[c] /\ c # jobs[j].row]
  /\ jobs' = [jobs EXCEPT ![j] = NoJob]
  /\ UNCHANGED custody

-----------------------------------------------------------------------------
(* Loading the list.                                                       *)

SaveProviderApp(j) ==
  /\ jobs[j] = NoJob
  /\ jobs' = [jobs EXCEPT ![j] = LoadJob]
  /\ UNCHANGED <<custody, rows>>

ServeList(j) ==
  /\ jobs[j].stage = "listing"
  /\ jobs' = [jobs EXCEPT ![j].stage = "listed", ![j].list = custody]
  /\ UNCHANGED <<custody, rows>>

PaintList(j) ==
  /\ jobs[j].stage = "listed"
  /\ Repaint(j, jobs[j].list)
  /\ UNCHANGED custody

(* The message takes the place of the rows.                                *)
ListFails(j) ==
  /\ jobs[j].stage \in {"listing", "listed"}
  /\ Repaint(j, {})
  /\ UNCHANGED custody

(* Other clients remove a Connection.                                      *)
RemovedElsewhere(c) ==
  /\ custody' = custody \ {c}
  /\ UNCHANGED <<rows, jobs>>

ConnectionsPageNext ==
  \/ \E j \in Jobs :
       \/ \E c \in Stored, action \in RowActions : PressRowButton(j, c, action)
       \/ ServeMutation(j) \/ MutationAnswered(j) \/ ReauthorizationAnswered(j)
       \/ MutationFails(j)
       \/ SaveProviderApp(j) \/ ServeList(j) \/ PaintList(j) \/ ListFails(j)
  \/ \E c \in custody : RemovedElsewhere(c)

ConnectionsPageSpec ==
  ConnectionsPageInit /\ [][ConnectionsPageNext]_connectionsPageVars

-----------------------------------------------------------------------------
(* Properties.                                                             *)

(* A row is locked exactly while the one action that was pressed in it is  *)
(* under way: an action that outlives its row neither unlocks the row that *)
(* took its place nor leaves one locked for good.  That it is the only one *)
(* at work on its Connection, as the comment in app.js has it, is not so.  *)
RowsLockTheirActions ==
  \A c \in DOMAIN rows :
    /\ rows[c] <=> Locking(c) # {}
    /\ \A i, j \in Locking(c) : i = j

===============================================================================
