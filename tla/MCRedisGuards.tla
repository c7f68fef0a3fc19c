---------------------------- MODULE MCRedisGuards ----------------------------
(***************************************************************************)
(* RateLimit and Idempotency for TLC.  The two services keep their keys    *)
(* apart by namespace and share nothing else, so a behaviour of the run    *)
(* serves either requests to be limited or callers of one key.             *)
(***************************************************************************)
EXTENDS RateLimit, Idempotency, TLC

CONSTANTS r1, r2, r3, c1, c2, c3

\* A login passes two scopes, a search one that fails open before or after.
MCRoute ==
  r1 :> <<"login", "search">> @@ r2 :> <<"login">> @@ r3 :> <<"search", "login">>
MCLimit == "login" :> 1 @@ "search" :> 2
MCFingerprint == c1 :> "f" @@ c2 :> "f" @@ c3 :> "g"

VARIABLE serving

guardVars == <<rateVars, idemVars, serving>>

GuardsInit == RateInit /\ IdemInit /\ serving \in {"limits", "key"}

ServeLimits == serving = "limits" /\ RateNext /\ UNCHANGED <<idemVars, serving>>
ServeKey == serving = "key" /\ IdemNext /\ UNCHANGED <<rateVars, serving>>

GuardsSpec ==
  GuardsInit /\ [][ServeLimits \/ ServeKey]_guardVars /\ RateFairness

GuardsTypeOK == RateTypeOK /\ IdemTypeOK
=============================================================================
