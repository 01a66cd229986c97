------------------------------ MODULE Networks ------------------------------
(***************************************************************************)
(* The two kinds of networks of scripts/dev/contracts.sh: a public network *)
(* keeps its contracts, to which reconciliation adds; a local one is       *)
(* deployed from nothing and filled with test data.  The third kind is the *)
(* site of a public network, as its builds follow one another.             *)
(***************************************************************************)
EXTENDS Deployment, Seeding, SiteProxy

VARIABLE network

vars == <<deployVars, seedVars, siteVars, network>>

Init ==
  /\ network \in {"public", "local", "site"}
  /\ IF network = "local"
     THEN \E mode \in {"dev", "mock"} :
            /\ DeployInit([FirstConfig EXCEPT !.mode = mode]) /\ journal = <<>>
            /\ SeedInit(mode)
     ELSE DeployInit(FirstConfig) /\ SeedNothing
  /\ IF network = "site" THEN SiteInit /\ journal = <<>> ELSE SiteNothing

Next ==
  \/ /\ network = "public" /\ DeployNext
     /\ UNCHANGED <<seedVars, siteVars, network>>
  \/ /\ network = "local" /\ SeedNext
     /\ UNCHANGED <<deployVars, siteVars, network>>
  \/ /\ network = "site" /\ SiteNext
     /\ UNCHANGED <<deployVars, seedVars, network>>

Spec ==
  /\ Init /\ [][Next]_vars
  /\ DeployFairness /\ WF_seedVars(SeedStep) /\ SiteFairness

=============================================================================
