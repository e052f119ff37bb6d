-------------------------------- MODULE SignIn --------------------------------
(***************************************************************************)
(* Asking for a sign-in link: the caps per source and per address, each    *)
(* counted by a Durable Object over a fixed window, and the links that are *)
(* live at one time.  Requests interleave at every await.                  *)
(*                                                                         *)
(* Better Auth and its database are external: a request that is let        *)
(* through stores one link, good for TTL ticks, and a click consumes it.   *)
(* Time passes in ticks; a Worker's clock is read when a request arrives.  *)
(***************************************************************************)
EXTENDS Naturals, FiniteSets, Bags, SequencesExt

CONSTANTS Addresses, Sources,
          MAX_LINKS_PER_EMAIL, MAX_LINKS_PER_SOURCE,
          THROTTLE_WINDOW, TTL,             \* in ticks; TTL is the shorter
          MaxTicks, MaxRequests, MaxLinks   \* bounds: time, requests at work
                                            \* at one time, links per address

(* The throttles are named by what they count, an address or a source.  A  *)
(* window is longer than the two ticks one request may touch.              *)
ASSUME SignInAssumption ==
  /\ {MAX_LINKS_PER_EMAIL, MAX_LINKS_PER_SOURCE} \subseteq Nat \ {0}
  /\ {MaxTicks, MaxRequests, MaxLinks} \subseteq Nat
  /\ TTL \in Nat /\ THROTTLE_WINDOW \in Nat \ {0, 1} /\ TTL <= THROTTLE_WINDOW
  /\ Addresses \cap Sources = {}

VARIABLES
  ticks,      \* the time
  window,     \* the throttles' windows: [start, count], by what they count
  asking,     \* the requests at work, a bag
  links       \* when the links stored for each address run out

signInVars == <<ticks, window, asking, links>>

Counted == Addresses \cup Sources
NoWindow == [start |-> 0, count |-> 0]

SignInInit ==
  /\ ticks = 0
  /\ window = [c \in Counted |-> NoWindow]
  /\ asking = EmptyBag
  /\ links = [a \in Addresses |-> <<>>]

One(q) == SetToBag({q})
Leave(q) == asking' = asking (-) One(q)
Proceed(q, at) == asking' = (asking (-) One(q)) (+) One([q EXCEPT !.at = at])

BeginSignIn(s, a) ==
  /\ BagCardinality(asking) < MaxRequests
  /\ asking' = asking (+) One([at |-> "source", source |-> s, address |-> a, now |-> ticks])
  /\ UNCHANGED <<ticks, window, links>>

SpendAllowance(w, limit, now) ==
  IF w.count = 0 \/ now >= w.start + THROTTLE_WINDOW
  THEN [window |-> [start |-> now, count |-> 1], allowed |-> TRUE]
  ELSE IF w.count >= limit THEN [window |-> w, allowed |-> FALSE]
  ELSE [window |-> [w EXCEPT !.count = @ + 1], allowed |-> TRUE]

(* Mutant: the window is counted and never put.                            *)
Spend_NotPut(q, c, limit, next) ==
  /\ IF SpendAllowance(window[c], limit, q.now).allowed THEN Proceed(q, next) ELSE Leave(q)
  /\ UNCHANGED <<ticks, window, links>>

(* One throttle's spend; the input gate keeps others out of it.            *)
Spend(q, c, limit, next) ==
  LET outcome == SpendAllowance(window[c], limit, q.now) IN
  /\ window' = [window EXCEPT ![c] = outcome.window]
  /\ IF outcome.allowed THEN Proceed(q, next) ELSE Leave(q)
  /\ UNCHANGED <<ticks, links>>

SpendSource(q) ==
  q.at = "source" /\ Spend(q, q.source, MAX_LINKS_PER_SOURCE, "address")

SpendEmail(q) ==
  q.at = "address" /\ Spend(q, q.address, MAX_LINKS_PER_EMAIL, "clear")

(* DELETE FROM verification, for the address alone.                        *)
ClearOlder(q) ==
  /\ q.at = "clear"
  /\ links' = [links EXCEPT ![q.address] = <<>>]
  /\ Proceed(q, "issue")
  /\ UNCHANGED <<ticks, window>>

(* Better Auth stores the link and mails it.                               *)
Issue(q) ==
  /\ q.at = "issue"
  /\ Len(links[q.address]) < MaxLinks
  /\ links' = [links EXCEPT ![q.address] = Append(@, ticks + TTL)]
  /\ Leave(q)
  /\ UNCHANGED <<ticks, window>>

(* The request ends before its next await.                                 *)
SignInStops(q) == Leave(q) /\ UNCHANGED <<ticks, window, links>>

(* A link signs its holder in once.                                        *)
Click(a, link) ==
  /\ links[a][link] > ticks
  /\ links' = [links EXCEPT ![a] = RemoveAt(@, link)]
  /\ UNCHANGED <<ticks, window, asking>>

(* The throttle forgets a window at its end, or some time later.           *)
ThrottleAlarm(c) ==
  /\ window[c].count > 0
  /\ ticks >= window[c].start + THROTTLE_WINDOW
  /\ window' = [window EXCEPT ![c] = NoWindow]
  /\ UNCHANGED <<ticks, asking, links>>

(* A request takes less than a tick.                                       *)
Tick ==
  /\ ticks < MaxTicks
  /\ \A q \in BagToSet(asking) : q.now = ticks
  /\ ticks' = ticks + 1
  /\ UNCHANGED <<window, asking, links>>

SignInNext ==
  \/ \E s \in Sources, a \in Addresses : BeginSignIn(s, a)
  \/ \E q \in BagToSet(asking) :
       SpendSource(q) \/ SpendEmail(q) \/ ClearOlder(q) \/ Issue(q) \/ SignInStops(q)
  \/ \E a \in Addresses : \E link \in DOMAIN links[a] : Click(a, link)
  \/ \E c \in Counted : ThrottleAlarm(c)
  \/ Tick

SignInSpec == SignInInit /\ [][SignInNext]_signInVars

-----------------------------------------------------------------------------
LiveLinks(a) == {link \in DOMAIN links[a] : links[a][link] > ticks}

(* However requests for an address overlap, fewer links of it are live     *)
(* than two windows allow: the first of a window has left it long before   *)
(* the next begins.  The cap itself, which the comment in auth.ts names,   *)
(* is no bound: requests at a window's end overlap those of the next.      *)
LinksBounded ==
  \A a \in Addresses : Cardinality(LiveLinks(a)) < 2 * MAX_LINKS_PER_EMAIL
=============================================================================
