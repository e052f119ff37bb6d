----------------------------- MODULE CallContract -----------------------------
(***************************************************************************)
(* What a tool call promises, without gates or Workers: an agent that held *)
(* a key the Angel accepted reaches a Connection only through one decision *)
(* made at one moment under one policy, and each request at most once.     *)
(*                                                                         *)
(* The promise is void while the Angel is being closed.                    *)
(***************************************************************************)
CONSTANTS NoSelector  \* the request leaves the Connection to the policy

VARIABLES keys,     \* the keys accepted, per environment
          policy,   \* the <<tool, Connection ref, Version>> permitted, likewise
          closing,  \* the Angel is being closed
          stage,    \* how far the current request has come
          asked,    \* the current request
          chosen,   \* the Connection ref it was let through to
          told      \* the answer it got

vars == <<keys, policy, closing, stage, asked, chosen, told>>

governed == <<keys, policy, closing>>

Refusals == {"unauthorized", "denied", "mismatch"}

Init == stage = "none"

(* Whoever governs the Angel changes keys and policy at any time.          *)
Govern == UNCHANGED <<stage, asked, chosen, told>>

Ask ==
  /\ stage = "none"
  /\ stage' = "asked"
  /\ UNCHANGED governed

Admit ==
  /\ stage = "asked"
  /\ asked.key \in keys[asked.environment]
  /\ stage' = "admitted"
  /\ UNCHANGED <<governed, asked, told>>

Choices == {p \in policy[asked.environment] : p[1] = asked.tool /\ p[3] \in asked.fits}

(* Without a selector the policy has to leave exactly one choice.          *)
Permitted(ref) ==
  /\ \E p \in Choices : p[2] = ref
  /\ asked.selector # NoSelector => ref = asked.selector
  /\ asked.selector = NoSelector => \A p \in Choices : p[2] = ref

Decide ==
  /\ stage = "admitted"
  /\ Permitted(chosen) \/ closing
  /\ stage' = "decided"
  /\ UNCHANGED <<governed, asked, chosen, told>>

Execute ==
  /\ stage = "decided"
  /\ stage' = "executed"
  /\ UNCHANGED <<governed, asked, chosen, told>>

(* A request is refused before the decision and never after it, answered   *)
(* once it is executed, and fails or is lost at any time.                  *)
End ==
  /\ stage' = "none"
  /\ told' = "served" => stage = "executed"
  /\ told' \in Refusals => stage \in {"none", "asked", "admitted"}
  /\ UNCHANGED governed

Next == Govern \/ Ask \/ Admit \/ Decide \/ Execute \/ End

Spec == Init /\ [][Next]_vars

===============================================================================
