---------------------------- MODULE MCManagement ----------------------------
(* Small instances of Management for TLC.                                  *)
EXTENDS DemoView, TLC

CONSTANTS t1, t2, c1, c2, v1, v2

(* v2 drops a tool that v1 ships, so an install has something to prune.    *)
MCVersionTools == v1 :> {t1, t2} @@ v2 :> {t1}

(* One Version and one tool, where the run is about something else.        *)
MCOneTool == v1 :> {t1}

(* Deployments per environment: production only, or both.                  *)
MCProduction(n) == [e \in Environments |-> IF e = "production" THEN n ELSE 0]

MCProductionTwice == MCProduction(2)

MCProductionOnce == MCProduction(1)

MCPreviewTwice == [e \in Environments |-> IF e = "preview" THEN 2 ELSE 1]

MCDeployments == [e \in Environments |-> IF e = "production" THEN 2 ELSE 1]

-----------------------------------------------------------------------------
(* One run holds three instances, each small where the others are not.     *)

(* Production is deployed twice and its availability changed.              *)
Redeployed == minted["preview"] = 0 /\ \A e \in Environments : mintedKeys[e] <= 1

(* One Deployment at most of one Connection, and no change of availability.*)
DeployedOnce ==
  /\ healthy \in {{c1, c2}, {c2}}
  /\ \A e \in Environments :
       /\ minted[e] <= 1
       /\ pending[e] # None => pending[e].connections = {c1}
       /\ active[e] # None => active[e].connections = {c1}
       /\ pendingAvailability[e] = None
       /\ availability[e] = DefaultAvailability

(* Both environments, promotions, and a second key in production.          *)
Promoted == DeployedOnce /\ mintedKeys["preview"] <= 1

(* An Angel is deleted and created again.                                  *)
Recreated == DeployedOnce /\ minted["preview"] = 0

MCBounds == Redeployed \/ Promoted \/ Recreated
======================================================================
