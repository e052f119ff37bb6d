------------------------------ MODULE MCServices ------------------------------
(* The services that share no state with one another, in one instance: the *)
(* first state says which of them runs, and the others stand still.  What  *)
(* holds of each alone holds of any interleaving of them.                  *)
EXTENDS Custody, Handles, SignIn, TLC

CONSTANTS Services,  \* the services this instance checks
          c1, c2, n1, a1, i1, i2, r1, r2, u1, u2,
          h1, h2, h3, m1, s1

VARIABLE service

ServicesInit ==
  service \in Services /\ CustodyInit /\ HandlesInit /\ SignInInit

ServicesNext ==
  /\ UNCHANGED service
  /\ \/ service = "custody" /\ CustodyNext /\ UNCHANGED <<handleVars, signInVars>>
     \/ service = "handles" /\ HandlesNext /\ UNCHANGED <<custodyVars, signInVars>>
     \/ service = "sign-in" /\ SignInNext /\ UNCHANGED <<custodyVars, handleVars>>

ServicesSpec ==
  ServicesInit /\ [][ServicesNext]_<<service, custodyVars, handleVars, signInVars>>

(* A request that is not cut short runs to its end, the registry's queue   *)
(* is fair, and dashboards go on asking for the list of Connections, as    *)
(* app.js does when it is loaded and after each of its actions on one.     *)
(* Nothing asks for an Account's handle by itself.                         *)
FairServices ==
  /\ ServicesSpec
  /\ SF_custodyVars(service = "custody" /\ \E r \in Requests : BeginList(r, {}))
  /\ SF_custodyVars(service = "custody" /\ \E r \in Requests : Reconcile(r))
  /\ \A r \in Requests : WF_custodyVars(service = "custody" /\ StepOf(r))
  /\ \A r \in HandleRequests : WF_handleVars(service = "handles" /\ HandleStep(r))

MCServicesSymmetry ==
  UNION {Permutations(S) : S \in {Connections, Identities, Requests, Accounts}}
===============================================================================
