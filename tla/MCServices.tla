----------------------------- MODULE MCServices ------------------------------
(***************************************************************************)
(* The gateway's services beside the payments, one scene each.  They share *)
(* no variable, so a behaviour of one is a behaviour of all, with the      *)
(* others standing still; and one run explores them all.                   *)
(***************************************************************************)
EXTENDS Catalog, OAuthLink, Receipts, HostedProxy, AllowanceLifecycle, PolicyRunner, TLC

CONSTANTS X, Y      \* the pairs that most components take their values from

VARIABLE scene

Services == Permutations(X) \cup Permutations(Y)

\* up to two policies, of any configuration
UpToTwoPolicies == UNION {[1 .. n -> Policy] : n \in 0 .. 2}

Scenes == {"catalog", "link", "receipts", "evidence", "hosted", "lifecycle", "policies"}

ServicesInit ==
    /\ scene \in Scenes
    /\ CatalogInit /\ LinkInit /\ RecordInit /\ HostedInit /\ LifecycleInit /\ PolicyInit
    /\ scene # "policies" => policies = <<>>

servicesVars ==
    <<scene, catalogVars, linkVars, recordVars, hostedProxyVars, lifecycleVars,
      policyVars>>

Still(name, names, variables) == IF name \in names THEN TRUE ELSE UNCHANGED variables

Others(name) ==
    /\ scene = name /\ UNCHANGED scene
    /\ Still(name, {"catalog"}, catalogVars)
    /\ Still(name, {"link"}, linkVars)
    /\ Still(name, {"receipts", "evidence"}, recordVars)
    /\ Still(name, {"hosted"}, hostedProxyVars)
    /\ Still(name, {"lifecycle"}, lifecycleVars)
    /\ Still(name, {"policies"}, policyVars)

ServicesNext ==
    \/ scene = "catalog" /\ CatalogNext /\ Others("catalog")
    \/ scene = "link" /\ LinkNext /\ Others("link")
    \/ scene = "receipts" /\ (PassRecordTime \/ ReceiptStep) /\ Others("receipts")
    \/ scene = "evidence" /\ (PassRecordTime \/ EvidenceStep) /\ Others("evidence")
    \/ scene = "hosted" /\ HostedNext /\ Others("hosted")
    \/ scene = "lifecycle" /\ LifecycleNext /\ Others("lifecycle")
    \/ scene = "policies" /\ PolicyNext /\ Others("policies")

ServicesSpec == ServicesInit /\ [][ServicesNext]_servicesVars

=============================================================================
