---------------------------- MODULE ConnectionLife ----------------------------
(***************************************************************************)
(* What custody promises of a Connection, without requests, callbacks or   *)
(* Google: its id is asked for once, comes to stand for the one Google     *)
(* identity that consented, under the nickname and Provider App that were  *)
(* asked for, and when it is removed, or never came to be, stands for      *)
(* nothing again.                                                          *)
(*                                                                         *)
(* Deployments bind ids, and outlive the Connections: an id that came back *)
(* would give what was deployed the account of somebody else.              *)
(***************************************************************************)
CONSTANTS Connections, Nicknames, Apps, Identities

VARIABLE life  \* what each id stands for

Unused == [phase |-> "unused"]
Asked(n, a) == [phase |-> "asked", nickname |-> n, app |-> a]
Held(n, a, i) == [phase |-> "held", nickname |-> n, app |-> a, identity |-> i]
Over == [phase |-> "over"]

Init == life = [c \in Connections |-> Unused]

Ask(c, n, a) ==
  /\ life[c] = Unused
  /\ life' = [life EXCEPT ![c] = Asked(n, a)]

(* No two Connections have one nickname.                                   *)
Consent(c, i) ==
  /\ life[c].phase = "asked"
  /\ \A d \in Connections : life[d].phase = "held" => life[d].nickname # life[c].nickname
  /\ life' = [life EXCEPT ![c] = Held(life[c].nickname, life[c].app, i)]

(* The consent is refused, too late, or lost.                              *)
GiveUp(c) ==
  /\ life[c].phase = "asked"
  /\ life' = [life EXCEPT ![c] = Over]

Remove(c) ==
  /\ life[c].phase = "held"
  /\ life' = [life EXCEPT ![c] = Over]

Next ==
  \E c \in Connections :
    \/ \E n \in Nicknames, a \in Apps : Ask(c, n, a)
    \/ \E i \in Identities : Consent(c, i)
    \/ GiveUp(c)
    \/ Remove(c)

Spec == Init /\ [][Next]_life

===============================================================================
