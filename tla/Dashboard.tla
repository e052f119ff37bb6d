------------------------------ MODULE Dashboard -------------------------------
(***************************************************************************)
(* One page of the web client (src/www/app.js): module state, what is      *)
(* painted from it, and the requests in flight.  JavaScript runs one event *)
(* handler or one continuation of an await at a time; everything between   *)
(* two awaits is one step here.  Requests are served in any order, fail at *)
(* any moment, and are answered late.                                      *)
(*                                                                         *)
(* The hosted side is what the page can tell of it: which Angels exist,    *)
(* which preview deployment is ready for production, and the secrets that  *)
(* were minted.  Other clients change it at any time.                      *)
(***************************************************************************)
EXTENDS Naturals, Sequences

CONSTANTS Angels,       \* slugs
          Null,      \* null, undefined
          Routes, Panes,  \* the screens and tabs the operator visits
          MaxChanges,   \* bound: changes by other clients
          MaxSecrets    \* bound: keys minted

ASSUME DashboardAssumption ==
  /\ MaxChanges \in Nat /\ MaxSecrets \in Nat /\ Null \notin Angels \cup Nat
  /\ {"home", "angel"} \subseteq Routes /\ Routes \subseteq {"home", "angel", "connections"}
  /\ Panes \subseteq {"permissions", "keys", "activity", "settings"}

VARIABLES
  cloud,    \* the hosted side
  page,     \* the module variables of app.js
  dom,      \* what is painted
  tasks,    \* the async functions under way: a key mutation, an action, a load
  arrived,  \* history: secrets the page was answered
  seen      \* history: secrets the operator could see

dashboardVars == <<cloud, page, dom, tasks, arrived, seen>>

ViewNow(c) ==
  [angels |-> c.angels,
   ready  |-> [a \in Angels |-> IF a \in c.angels THEN c.staged[a] ELSE 0]]

DashboardInit ==
  /\ cloud = [angels |-> Angels, staged |-> [a \in Angels |-> 0], changes |-> 0,
              secrets |-> <<>>]
  /\ page = [demoState |-> Null, activeAngelId |-> Null,
             activeEnvironment |-> "production", activeRoute |-> "home",
             activePane |-> "permissions", keyReveal |-> Null, keysBusy |-> FALSE]
  /\ dom = [secret |-> 0, keysEnabled |-> FALSE, offered |-> 0, enabled |-> FALSE,
            busy |-> TRUE, blocked |-> FALSE]
  /\ tasks = [key |-> Null, action |-> Null,
              load |-> [by |-> "start", view |-> Null]]
  /\ arrived = {}
  /\ seen = {}

-----------------------------------------------------------------------------
(* Painting.  Each function maps the page and what is painted to both.     *)

Context(p) == <<p.activeAngelId, p.activeEnvironment>>

(* selectedAngel throws when the view does not have the active Angel.      *)
Selected(p) == p.demoState # Null /\ p.activeAngelId \in p.demoState.angels

(* Mutant: the reveal is painted in whatever environment is open.          *)
Reveals_AnyEnvironment(p) ==
  p.keyReveal # Null /\ p.keyReveal.context[1] = p.activeAngelId

Reveals(p) == p.keyReveal # Null /\ p.keyReveal.context = Context(p)

(* The one paint of a reveal consumes it.                                  *)
Consumed(p) == IF Reveals(p) THEN [p EXCEPT !.keyReveal = Null] ELSE p

RenderKeys(p, d) ==
  IF ~Selected(p) THEN [page |-> p, dom |-> d]
  ELSE [page |-> Consumed(p),
        dom  |-> [d EXCEPT !.secret = IF Reveals(p) THEN p.keyReveal.secret ELSE 0,
                           !.keysEnabled = ~p.keysBusy]]

(* A promotion is offered in production only.                              *)
RenderDecisionCard(p, d) ==
  [d EXCEPT !.offered = IF p.activeEnvironment = "production"
                          THEN p.demoState.ready[p.activeAngelId] ELSE 0]

(* Mutant: controls that were just painted are left as they are.           *)
SetActionControls_Fresh(d) == [d EXCEPT !.enabled = TRUE]

SetActionControls(d) == [d EXCEPT !.enabled = ~d.busy]

SetBusy(d, busy) == SetActionControls([d EXCEPT !.busy = busy])

(* The panes of one Angel, as painted for a view that has it.              *)
RenderPanes(p, d) ==
  LET keys == RenderKeys(p, d)
  IN  [keys EXCEPT !.dom = SetActionControls(RenderDecisionCard(keys.page, @))]

(* An Angel that is gone gives way to the first of the view; a view with   *)
(* none leaves the panes as they are.                                      *)
Render(p, d) ==
  IF p.demoState.angels = {}
    THEN [page |-> [p EXCEPT !.activeRoute = "home"], dom |-> SetActionControls(d)]
  ELSE IF Selected(p) THEN RenderPanes(p, d)
  ELSE RenderPanes([p EXCEPT !.activeAngelId = CHOOSE a \in p.demoState.angels : TRUE], d)

Visible(p, d) ==
  IF d.secret # 0 /\ ~d.blocked /\ p.activeRoute = "angel" /\ p.activePane = "keys"
    THEN {d.secret} ELSE {}

Paint(shown) ==
  /\ page' = shown.page
  /\ dom' = shown.dom
  /\ seen' = seen \cup Visible(shown.page, shown.dom)

-----------------------------------------------------------------------------
(* Loading the view: at the start and after an error.                      *)

ServeLoad ==
  /\ tasks.load # Null
  /\ tasks.load.view = Null
  /\ tasks' = [tasks EXCEPT !.load.view = ViewNow(cloud)]
  /\ UNCHANGED <<cloud, page, dom, arrived, seen>>

Loaded ==
  /\ tasks.load # Null
  /\ tasks.load.view # Null
  /\ tasks' = [tasks EXCEPT !.load = Null]
  /\ Paint(Render([page EXCEPT !.demoState = tasks.load.view], [dom EXCEPT !.busy = FALSE]))
  /\ UNCHANGED <<cloud, arrived>>

(* A start that failed leaves the page busy, a retry does not.             *)
LoadFails ==
  /\ tasks.load # Null
  /\ tasks' = [tasks EXCEPT !.load = Null]
  /\ LET d == IF tasks.load.by = "start" THEN dom ELSE SetBusy(dom, FALSE)
     IN  Paint([page |-> page, dom |-> [d EXCEPT !.blocked = TRUE]])
  /\ UNCHANGED <<cloud, arrived>>

ClickRetry ==
  /\ dom.blocked
  /\ tasks.load = Null
  /\ tasks' = [tasks EXCEPT !.load = [by |-> "retry", view |-> Null]]
  /\ Paint([page |-> page, dom |-> SetBusy([dom EXCEPT !.blocked = FALSE], TRUE)])
  /\ UNCHANGED <<cloud, arrived>>

-----------------------------------------------------------------------------
(* Moving about.                                                           *)

Usable == page.demoState # Null /\ ~dom.blocked

NoAngels == page.demoState # Null /\ page.demoState.angels = {}

OnPane(pane) == Usable /\ page.activeRoute = "angel" /\ page.activePane = pane

(* A card of the Home screen opens the Angel screen as well.               *)
ClickAngel(a) ==
  /\ Usable
  /\ page.activeRoute \in {"home", "angel"}
  /\ a \in page.demoState.angels
  /\ LET shown == Render([page EXCEPT !.activeAngelId = a], dom)
     IN  Paint([shown EXCEPT !.page.activeRoute = "angel"])
  /\ UNCHANGED <<cloud, tasks, arrived>>

(* The navigation of the page's header repaints nothing.                   *)
Navigate(route) ==
  /\ route = "angel" => ~NoAngels
  /\ Paint([page |-> [page EXCEPT !.activeRoute = route], dom |-> dom])
  /\ UNCHANGED <<cloud, tasks, arrived>>

ClickPane(pane) ==
  /\ Usable
  /\ page.activeRoute = "angel"
  /\ Paint(RenderKeys([page EXCEPT !.activePane = pane], dom))
  /\ UNCHANGED <<cloud, tasks, arrived>>

(* The handler throws at its first repaint when the active Angel is gone.  *)
ClickEnvironment(e) ==
  /\ Usable
  /\ page.activeRoute = "angel"
  /\ LET p == [page EXCEPT !.activeEnvironment = e]
     IN  Paint(IF Selected(p) THEN RenderPanes(p, dom) ELSE [page |-> p, dom |-> dom])
  /\ UNCHANGED <<cloud, tasks, arrived>>

(* The form for a new key is opened or closed.                             *)
ToggleKeyForm ==
  /\ OnPane("keys")
  /\ dom.keysEnabled
  /\ Paint(RenderKeys(page, dom))
  /\ UNCHANGED <<cloud, tasks, arrived>>

-----------------------------------------------------------------------------
(* performKeyMutation: creating and rotating mint a secret, revoking does  *)
(* not.  One retry with the same token follows a request that got lost;    *)
(* the view is loaded again after the answer.                              *)

KeyStage(stage) == tasks.key # Null /\ tasks.key.stage = stage

ClickKey(mints) ==
  /\ OnPane("keys")
  /\ dom.keysEnabled
  /\ Selected(page)
  /\ mints => Len(cloud.secrets) < MaxSecrets
  /\ tasks' = [tasks EXCEPT !.key =
       [stage |-> "sent", attempt |-> 0, context |-> Context(page), mints |-> mints,
        secret |-> 0, view |-> Null]]
  /\ Paint(RenderKeys([page EXCEPT !.keysBusy = TRUE], dom))
  /\ UNCHANGED <<cloud, arrived>>

(* A token that has minted before is answered with the same secret.        *)
CommitKey ==
  /\ KeyStage("sent")
  /\ tasks.key.context[1] \in cloud.angels
  /\ IF tasks.key.mints /\ tasks.key.secret = 0
       THEN /\ cloud' = [cloud EXCEPT !.secrets = Append(@, tasks.key.context)]
            /\ tasks' = [tasks EXCEPT !.key.stage = "committed",
                                      !.key.secret = Len(cloud.secrets) + 1]
       ELSE /\ cloud' = cloud
            /\ tasks' = [tasks EXCEPT !.key.stage = "committed"]
  /\ UNCHANGED <<page, dom, arrived, seen>>

KeyRequestLost ==
  /\ KeyStage("sent") \/ KeyStage("committed")
  /\ tasks.key.attempt = 0
  /\ tasks' = [tasks EXCEPT !.key.attempt = 1, !.key.stage = "sent"]
  /\ UNCHANGED <<cloud, page, dom, arrived, seen>>

(* The secret is kept before the view is loaded again.                     *)
KeyAnswered ==
  /\ KeyStage("committed")
  /\ tasks' = [tasks EXCEPT !.key.stage = "refreshing"]
  /\ IF tasks.key.mints
       THEN /\ page' = [page EXCEPT !.keyReveal =
                          [secret |-> tasks.key.secret, context |-> tasks.key.context]]
            /\ arrived' = arrived \cup {tasks.key.secret}
       ELSE UNCHANGED <<page, arrived>>
  /\ UNCHANGED <<cloud, dom, seen>>

ServeRefresh ==
  /\ KeyStage("refreshing")
  /\ tasks.key.view = Null
  /\ tasks' = [tasks EXCEPT !.key.view = ViewNow(cloud)]
  /\ UNCHANGED <<cloud, page, dom, arrived, seen>>

(* Of what is painted only the keys are painted again.                     *)
KeyRefreshed ==
  /\ KeyStage("refreshing")
  /\ tasks.key.view # Null
  /\ tasks' = [tasks EXCEPT !.key = Null]
  /\ Paint(RenderKeys([page EXCEPT !.demoState = tasks.key.view, !.keysBusy = FALSE], dom))
  /\ UNCHANGED <<cloud, arrived>>

(* The request was refused, or lost twice, or the view was not loaded.     *)
KeyFails ==
  /\ tasks.key # Null
  /\ \/ tasks.key.stage = "refreshing"
     \/ tasks.key.attempt = 1
     \/ tasks.key.stage = "sent"
  /\ tasks' = [tasks EXCEPT !.key = Null]
  /\ Paint(RenderKeys([page EXCEPT !.keysBusy = FALSE], dom))
  /\ UNCHANGED <<cloud, arrived>>

-----------------------------------------------------------------------------
(* performAction: a pause, a resume, or the promotion that is offered.     *)

(* The request is made from the view, not from what is painted.            *)
RunAction(kind) ==
  [kind |-> kind, angel |-> page.activeAngelId, view |-> Null,
   staged |-> IF kind = "promote" THEN page.demoState.ready[page.activeAngelId] ELSE 0]

ClickAction(kind) ==
  /\ Usable
  /\ page.activeRoute = "angel"
  /\ dom.enabled
  /\ kind = "promote" => page.activePane = "activity" /\ dom.offered # 0
  /\ kind = "availability" => page.activePane \in {"permissions", "activity"}
  /\ IF Selected(page)
       THEN /\ tasks' = [tasks EXCEPT !.action = RunAction(kind)]
            /\ Paint([page |-> page, dom |-> SetBusy(dom, TRUE)])
       ELSE /\ tasks' = tasks
            /\ Paint([page |-> page, dom |-> [dom EXCEPT !.blocked = TRUE]])
  /\ UNCHANGED <<cloud, arrived>>

(* The registry promotes exactly what it would offer now.                  *)
ServeAction ==
  LET task == tasks.action
      promoted == [cloud EXCEPT !.staged[task.angel] = 0]
  IN  /\ task # Null
      /\ task.view = Null
      /\ task.angel \in cloud.angels
      /\ IF task.kind = "promote"
           THEN /\ task.staged # 0
                /\ task.staged = cloud.staged[task.angel]
                /\ cloud' = promoted
           ELSE cloud' = cloud
      /\ tasks' = [tasks EXCEPT !.action.view = ViewNow(cloud')]
      /\ UNCHANGED <<page, dom, arrived, seen>>

ActionAnswered ==
  /\ tasks.action # Null
  /\ tasks.action.view # Null
  /\ tasks' = [tasks EXCEPT !.action = Null]
  /\ Paint(Render([page EXCEPT !.demoState = tasks.action.view],
                  [dom EXCEPT !.blocked = FALSE, !.busy = FALSE]))
  /\ UNCHANGED <<cloud, arrived>>

ActionFails ==
  /\ tasks.action # Null
  /\ tasks' = [tasks EXCEPT !.action = Null]
  /\ Paint([page |-> page, dom |-> SetBusy([dom EXCEPT !.blocked = TRUE], FALSE)])
  /\ UNCHANGED <<cloud, arrived>>

-----------------------------------------------------------------------------
(* The other clients create, delete and stage; the deployments they stage  *)
(* are numbered by their changes.                                          *)

CloudCreates(a) ==
  /\ a \notin cloud.angels
  /\ cloud' = [cloud EXCEPT !.angels = @ \cup {a}, !.changes = @ + 1]

CloudDeletes(a) ==
  /\ a \in cloud.angels
  /\ cloud' = [cloud EXCEPT !.angels = @ \ {a}, !.staged[a] = 0, !.changes = @ + 1]

CloudStages(a) ==
  /\ a \in cloud.angels
  /\ cloud' = [cloud EXCEPT !.staged[a] = cloud.changes + 1, !.changes = @ + 1]

CloudChanges ==
  /\ cloud.changes < MaxChanges
  /\ \E a \in Angels : CloudCreates(a) \/ CloudDeletes(a) \/ CloudStages(a)
  /\ UNCHANGED <<page, dom, tasks, arrived, seen>>

DashboardNext ==
  \/ ServeLoad \/ Loaded \/ LoadFails \/ ClickRetry
  \/ \E a \in Angels : ClickAngel(a)
  \/ \E route \in Routes : Navigate(route)
  \/ \E pane \in Panes : ClickPane(pane)
  \/ \E e \in {"preview", "production"} : ClickEnvironment(e)
  \/ ToggleKeyForm
  \/ \E mints \in BOOLEAN : ClickKey(mints)
  \/ CommitKey \/ KeyRequestLost \/ KeyAnswered
  \/ ServeRefresh \/ KeyRefreshed \/ KeyFails
  \/ \E kind \in {"promote", "availability"} : ClickAction(kind)
  \/ ServeAction \/ ActionAnswered \/ ActionFails
  \/ CloudChanges

DashboardSpec == DashboardInit /\ [][DashboardNext]_dashboardVars

-----------------------------------------------------------------------------
(* Properties.                                                             *)

(* A secret is only ever visible where it was minted: under its Angel and  *)
(* in its environment, whatever was opened while it was on its way.  Once  *)
(* the open Angel is gone from the view nothing is repainted, and what was *)
(* painted for it stays until another is opened.                           *)
SecretInItsContext ==
  Selected(page) => \A s \in Visible(page, dom) : cloud.secrets[s] = Context(page)

(* The controls that are painted are locked while what they start is under *)
(* way, whatever repaints them meanwhile: key mutations do not overlap,    *)
(* and neither do actions and loads of the view.                           *)
ActionsDoNotOverlap ==
  /\ tasks.key # Null => ~dom.keysEnabled
  /\ tasks.action # Null \/ tasks.load # Null => ~dom.enabled

(* "A reveal minted while the operator was on another context stays held   *)
(* until they return to that context, then paints once" (src/www/app.js):  *)
(* a secret that arrived was shown, or is still to be.                     *)
NoSecretLost ==
  \A s \in arrived :
    \/ s \in seen \/ dom.secret = s
    \/ page.keyReveal # Null /\ page.keyReveal.secret = s

===============================================================================
