----------------------------- MODULE PolicyRunner ----------------------------
(***************************************************************************)
(* The policies a verified payment passes before anything is reserved or   *)
(* settled (onAfterVerify and runPaymentPolicies of the SDK).  They are    *)
(* asked one after the other, each under a deadline of its own, whose      *)
(* signal the evaluator may heed or not: the Webacy adapter hands it to    *)
(* its fetch, an evaluator of the merchant's may answer late or never.     *)
(* Webacy and the merchant's evaluators are outside: they answer anything. *)
(***************************************************************************)
EXTENDS Naturals, Sequences

CONSTANTS
    PolicySets,         \* the sequences of policies a merchant may configure
    WarnAt, DenyAt,     \* the Webacy thresholds
    MaxRisk

\* refused otherwise by createWebacyPolicy
ASSUME PolicyAssumption ==
    /\ {WarnAt, DenyAt, MaxRisk} \subseteq Nat
    /\ WarnAt < DenyAt /\ DenyAt <= MaxRisk

VARIABLES
    policies,           \* of the product
    phase,              \* where the payment is
    aborted,            \* the deadline of the policy being asked has passed
    decisions,          \* so far, in order
    allowed,
    heard               \* outside: the risk each evaluator saw and told

policyVars == <<policies, phase, aborted, decisions, allowed, heard>>

\* named: the evaluator, and what it decides, bear the configured id
Policy ==
    [by : {"webacy", "merchant"}, named : BOOLEAN,
     mode : {"enforce", "observe"}, onError : {"allow", "deny"}]

ASSUME PolicySetsAssumption == PolicySets \subseteq Seq(Policy)

\* of an evaluator that told nothing
Unheard == MaxRisk + 1

Asked == policies[Len(decisions) + 1]
IsAsked(by) == phase \in {"asking", "reading"} /\ Asked.by = by

-----------------------------------------------------------------------------
(* runPaymentPolicies.                                                     *)

\* only enforced policies refuse; a warning does
Forbids(policy, outcome) ==
    /\ policy.mode = "enforce"
    /\ outcome \in {"warn", "deny"} \/ (outcome = "error" /\ policy.onError = "deny")

\* said: what the evaluator answered at that risk, or "error" if it threw;
\* another's decision counts as an error
Decide(said, risk) ==
    LET outcome == IF Asked.named THEN said ELSE "error"
    IN /\ decisions' = Append(decisions, outcome)
       /\ allowed' = (allowed /\ ~Forbids(Asked, outcome))
       /\ heard' = Append(heard, risk)
       /\ phase' = "deciding" /\ aborted' = FALSE
       /\ UNCHANGED policies

AskNext ==
    /\ phase = "deciding" /\ Len(decisions) < Len(policies)
    /\ phase' = "asking"
    /\ UNCHANGED <<policies, aborted, decisions, allowed, heard>>

PassDeadline ==
    /\ phase \in {"asking", "reading"} /\ ~aborted
    /\ aborted' = TRUE
    /\ UNCHANGED <<policies, phase, decisions, allowed, heard>>

\* an evaluator that does not heed the signal
MerchantEvaluates ==
    /\ IsAsked("merchant")
    /\ \/ Decide("allow", 0) \/ Decide("warn", 1) \/ Decide("deny", 1)
       \/ Decide("error", Unheard)

-----------------------------------------------------------------------------
(* createWebacyPolicy.                                                     *)

\* a slip: the thresholds themselves are still below
AboveThresholds(risk) ==
    IF risk > DenyAt THEN "deny" ELSE IF risk > WarnAt THEN "warn" ELSE "allow"

OutcomeOf(risk) ==
    IF risk >= DenyAt THEN "deny" ELSE IF risk >= WarnAt THEN "warn" ELSE "allow"

\* status and declared length
WebacyResponds ==
    /\ IsAsked("webacy") /\ phase = "asking" /\ ~aborted
    /\ phase' = "reading"
    /\ UNCHANGED <<policies, aborted, decisions, allowed, heard>>

\* no answer in time, another status, too long, or not a report
WebacyFails == IsAsked("webacy") /\ Decide("error", Unheard)

WebacyReports(risk) ==
    /\ IsAsked("webacy") /\ phase = "reading" /\ ~aborted
    /\ Decide(OutcomeOf(risk), risk)

-----------------------------------------------------------------------------
(* onAfterVerify.                                                          *)

\* either the payment goes on to its reservations, or the hook aborts it
Conclude ==
    /\ phase = "deciding" /\ Len(decisions) = Len(policies)
    /\ phase' = IF allowed THEN "passed" ELSE "refused"
    /\ UNCHANGED <<policies, aborted, decisions, allowed, heard>>

PolicyInit ==
    /\ policies \in PolicySets
    /\ phase = "deciding" /\ aborted = FALSE
    /\ decisions = <<>> /\ allowed = TRUE /\ heard = <<>>

PolicyNext ==
    \/ AskNext \/ PassDeadline \/ Conclude
    \/ MerchantEvaluates \/ WebacyResponds \/ WebacyFails
    \/ \E risk \in 0 .. MaxRisk : WebacyReports(risk)

PolicySpec == PolicyInit /\ [][PolicyNext]_policyVars

-----------------------------------------------------------------------------
(* Properties.                                                             *)

\* a merchant's evaluator heard of no risk, or of one
Alarming(policy) == IF policy.by = "webacy" THEN WarnAt ELSE 1

\* policy i does not stand in the payment's way
Clears(i) ==
    LET p == policies[i]
    IN \/ p.mode = "observe"
       \/ p.named /\ heard[i] < Alarming(p)
       \/ (~p.named \/ heard[i] = Unheard) /\ p.onError = "allow"

\* Whatever its policies' order, deadlines and failures, a payment that passes was
\* cleared by every enforced policy, or that policy told nothing usable and its
\* merchant lets that pass; and one that is refused has a policy that did not
\* clear it (runPaymentPolicies and the thresholds of createWebacyPolicy).
VerdictIsEarned ==
    /\ phase = "passed" => \A i \in DOMAIN policies : Clears(i)
    /\ phase = "refused" => \E i \in DOMAIN policies : ~Clears(i)

=============================================================================
