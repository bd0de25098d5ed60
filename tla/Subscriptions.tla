---------------------------- MODULE Subscriptions ----------------------------
(***************************************************************************)
(* The scripts that verify allowances and plans against the subscriptions  *)
(* program on devnet.  A script is a sequence of transactions of one       *)
(* wallet; it sweeps what earlier runs left, since any of them may have    *)
(* stopped anywhere, and claims in its evidence what it has checked.  The  *)
(* program and the network are outside: a transaction may be refused, its  *)
(* confirmation may be lost, and it may land after its sender gave up.     *)
(***************************************************************************)
EXTENDS Naturals, Sequences

CONSTANTS
    ScriptRun,      \* runs of scripts
    AttemptAtomic   \* what a transfer or a pull moves

ASSUME SubscriptionsAssumption == AttemptAtomic \in Nat \ {0}

VARIABLES
    chain,          \* the program's accounts, and the balances of destinations
    limbo,          \* transactions whose senders gave up, and which may land
    script,         \* where each run is
    disturbed       \* history: a run had network trouble, or was not alone

subscriptionsVars == <<chain, limbo, script, disturbed>>

\* a slip: a budget for both attempts
BothAttempts == 2 * AttemptAtomic

\* one attempt and a half
MaxAtomic == AttemptAtomic + AttemptAtomic \div 2

-----------------------------------------------------------------------------
(* The builders' instructions: what the program makes of the accounts, as  *)
(* the set of its outcomes, empty when it refuses.                         *)

When(condition, outcome) == IF condition THEN {outcome} ELSE {}

InitAuthority(c) ==
    LET init == c.inits + 1
    IN  When(c.authority = 0, [[c EXCEPT !.inits = init] EXCEPT !.authority = init])

\* what is created under another initialization of the authority is void
CreateFixed(c, r, init) ==
    When(c.authority = init /\ init # 0,
         [c EXCEPT !.grants = @ \cup {[by |-> r, init |-> init, left |-> MaxAtomic]}])

\* an attempt of r arrives where the scripts of this kind have it sent
Credited(c, r, kind) ==
    [[c EXCEPT !.moved[r] = @ + AttemptAtomic] EXCEPT !.balance[kind] = @ + AttemptAtomic]

TransferFixed(c, r) ==
    {[Credited(c, r, "agentBudget") EXCEPT
        !.grants = (@ \ {g}) \cup {[g EXCEPT !.left = @ - AttemptAtomic]}] :
        g \in {h \in c.grants : h.by = r /\ h.init = c.authority /\ h.left >= AttemptAtomic}}

RevokeDelegation(c, r) ==
    When(\E g \in c.grants : g.by = r, [c EXCEPT !.grants = {g \in @ : g.by # r}])

RevokeAllForMint(c) == When(c.authority # 0, [c EXCEPT !.authority = 0])

CreatePlan(c, r) == {[c EXCEPT !.plans = @ \cup {r}]}

Subscribe(c, r, init) ==
    When(r \in c.plans /\ c.authority = init /\ init # 0,
         [c EXCEPT !.subscriptions =
            @ \cup {[by |-> r, init |-> init, pulled |-> FALSE, ends |-> FALSE]}])

\* once in a period
TransferSubscription(c, r) ==
    {[Credited(c, r, "plan") EXCEPT
        !.subscriptions = (@ \ {s}) \cup {[s EXCEPT !.pulled = TRUE]}] :
        s \in {t \in c.subscriptions : t.by = r /\ t.init = c.authority /\ ~t.pulled}}

CancelSubscription(c, r) ==
    {[c EXCEPT !.subscriptions = (@ \ {s}) \cup {[s EXCEPT !.ends = TRUE]}] :
        s \in {t \in c.subscriptions : t.by = r}}

\* only when its authority is gone
RevokeAbandoned(c, r) ==
    When(\E s \in c.subscriptions : s.by = r /\ s.init # c.authority,
         [c EXCEPT !.subscriptions = {s \in @ : s.by # r}])

Outcomes(c, tx) ==
    CASE tx.op = "init" -> InitAuthority(c)
      [] tx.op = "create" -> CreateFixed(c, tx.of, tx.init)
      [] tx.op \in {"raceA", "raceB", "probe"} -> TransferFixed(c, tx.of)
      [] tx.op = "revoke" -> RevokeDelegation(c, tx.of)
      [] tx.op = "close" -> RevokeAllForMint(c)
      [] tx.op = "plan" -> CreatePlan(c, tx.of)
      [] tx.op = "subscribe" -> Subscribe(c, tx.of, tx.init)
      [] tx.op = "pull" -> TransferSubscription(c, tx.of)
      [] tx.op = "cancel" -> CancelSubscription(c, tx.of)
      [] tx.op = "abandon" -> RevokeAbandoned(c, tx.of)

-----------------------------------------------------------------------------
(* The scripts.                                                            *)

Kinds == {"agentBudget", "plan", "plain"}

\* two transfers race for what only one may move; after the revocation a third probes
AgentBudgetSteps == <<"init", "create", "raceA", "raceB", "revoke", "probe", "close">>

\* the authority is closed first, so that the subscription is abandoned
PlanSteps == <<"init", "plan", "subscribe", "pull", "cancel", "close", "abandon">>

PlainSteps == <<"init", "create", "revoke", "close">>

Steps(kind) ==
    CASE kind = "agentBudget" -> AgentBudgetSteps
      [] kind = "plan" -> PlanSteps
      [] kind = "plain" -> PlainSteps

Idle(r) == script[r].at = "idle"
Active(r) == script[r].at \in {"sweeping", "running", "checking"}
Failed(r) == script[r].at = "failed"

Tx(op, of, init) == [op |-> op, of |-> of, init |-> init]

\* a slip: the authority is taken to be closed
NothingToSweep(kind) == [first |-> {}, last |-> {}]

Close == IF chain.authority = 0 THEN {} ELSE {Tx("close", 0, 0)}

\* when there is an authority: revokes what it finds, then closes
SweepAgentBudget ==
    [first |-> IF Close = {} THEN {} ELSE {Tx("revoke", g.by, 0) : g \in chain.grants},
     last |-> Close]

\* closes, then revokes what only then is abandoned
SweepPlan ==
    [first |-> Close, last |-> {Tx("abandon", s.by, 0) : s \in chain.subscriptions}]

\* the plain script leaves it all
Sweep(kind) ==
    CASE kind = "agentBudget" -> SweepAgentBudget
      [] kind = "plan" -> SweepPlan
      [] kind = "plain" -> [first |-> {}, last |-> {}]

TokenBalance(kind) == chain.balance[kind]

\* the script looks at the accounts
StartRun(r, kind) ==
    /\ Idle(r)
    /\ script' = [script EXCEPT ![r] =
                    [at |-> "sweeping", kind |-> kind, sweep |-> Sweep(kind),
                     next |-> 1, init |-> 0, before |-> 0, won |-> 0]]
    /\ disturbed' = [q \in ScriptRun |->
                        \/ disturbed[q]
                        \/ q = r /\ (limbo # {} \/ \E p \in ScriptRun : Active(p))
                        \/ Active(q)]
    /\ UNCHANGED <<chain, limbo>>

\* sendAndConfirm: refused by the program; or landed and confirmed; or neither is
\* known, and the run ends, unless it takes any error for a refusal
Send(r, tx, accepted, refused) ==
    \/ Outcomes(chain, tx) = {} /\ script' = [script EXCEPT ![r] = refused]
       /\ UNCHANGED <<chain, limbo, disturbed>>
    \/ chain' \in Outcomes(chain, tx) /\ script' = [script EXCEPT ![r] = accepted]
       /\ UNCHANGED <<limbo, disturbed>>
    \/ /\ script' = [script EXCEPT ![r] = refused]
       /\ disturbed' = [disturbed EXCEPT ![r] = TRUE]
       /\ \/ limbo' = limbo \cup {tx} /\ UNCHANGED chain
          \/ chain' \in Outcomes(chain, tx) /\ UNCHANGED limbo

MovesTo(s, where) == [s EXCEPT !.at = where]
Over(r) == MovesTo(script[r], "failed")

SweepStep(r) ==
    LET s == script[r]
        set == IF s.sweep.first # {} THEN s.sweep.first ELSE s.sweep.last
    IN /\ s.at = "sweeping" /\ set # {}
       /\ \E tx \in set :
            Send(r, tx,
                 [s EXCEPT !.sweep = [first |-> @.first \ {tx}, last |-> @.last \ {tx}]],
                 Over(r))

Swept(r) ==
    /\ script[r].at = "sweeping"
    /\ script[r].sweep = [first |-> {}, last |-> {}]
    /\ script' = [script EXCEPT ![r] =
                    [MovesTo(@, "running") EXCEPT !.before = TokenBalance(script[r].kind)]]
    /\ UNCHANGED <<chain, limbo, disturbed>>

\* the step after a transaction, with what the script reads after it
After(r, won) ==
    LET s == [MovesTo(script[r], "checking") EXCEPT !.next = @ + 1]
    IN [s EXCEPT !.won = @ + won]

Grants(r) == {g \in chain.grants : g.by = r}
Subscribed(r) == {u \in chain.subscriptions : u.by = r}
Arrived(r) == TokenBalance(script[r].kind) - script[r].before
Upcoming(r) == LET s == script[r]
               IN IF s.next > Len(Steps(s.kind)) THEN "end" ELSE Steps(s.kind)[s.next]

\* What is checked before the upcoming step: accounts that are there or gone.
AuthorityMissing(r) == script[r].next = 2 /\ chain.authority = 0

\* the allowance is whole; exactly one of the racing transfers was accepted
AgentBudgetFails(r) ==
    \/ Upcoming(r) = "raceA" /\ \A g \in Grants(r) : g.left # MaxAtomic
    \/ Upcoming(r) = "revoke" /\ (script[r].won # 1 \/ Arrived(r) # AttemptAtomic)
    \/ Upcoming(r) = "probe" /\ Grants(r) # {}

\* the pull is noted and has arrived; the cancellation is noted
PlanFails(r) ==
    \/ Upcoming(r) = "pull" /\ Subscribed(r) = {}
    \/ Upcoming(r) = "cancel"
       /\ \/ \A u \in Subscribed(r) : ~u.pulled
          \/ Arrived(r) # AttemptAtomic
    \/ Upcoming(r) = "close" /\ \A u \in Subscribed(r) : ~u.ends
    \/ Upcoming(r) = "end" /\ Subscribed(r) # {}

PlainFails(r) ==
    \/ Upcoming(r) = "revoke" /\ Grants(r) = {}
    \/ Upcoming(r) = "close" /\ Grants(r) # {}

CheckFails(r) ==
    \/ AuthorityMissing(r)
    \/ CASE script[r].kind = "agentBudget" -> AgentBudgetFails(r)
         [] script[r].kind = "plan" -> PlanFails(r)
         [] script[r].kind = "plain" -> PlainFails(r)

RunStep(r) ==
    LET s == script[r]
        op == Steps(s.kind)[s.next]
    IN /\ s.at = "running" /\ s.next <= Len(Steps(s.kind))
       /\ CASE op \in {"raceA", "raceB"} -> Send(r, Tx(op, r, 0), After(r, 1), After(r, 0))
            [] op = "probe" -> Send(r, Tx(op, r, 0), Over(r), After(r, 0))
            [] op \in {"create", "subscribe"} -> Send(r, Tx(op, r, s.init), After(r, 0), Over(r))
            [] OTHER -> Send(r, Tx(op, r, 0), After(r, 0), Over(r))

AuthorityId(r) == IF script[r].init = 0 THEN chain.authority ELSE script[r].init

\* after the first step the id of the authority is read
Check(r) ==
    /\ script[r].at = "checking"
    /\ script' = [script EXCEPT ![r] =
                    IF CheckFails(r) THEN Over(r)
                    ELSE [MovesTo(@, "running") EXCEPT !.init = AuthorityId(r)]]
    /\ UNCHANGED <<chain, limbo, disturbed>>

\* waitForFinalized, and the evidence
WriteEvidence(r) ==
    /\ script[r].at = "running" /\ script[r].next > Len(Steps(script[r].kind))
    /\ script' = [script EXCEPT ![r] = MovesTo(@, "evidence")]
    /\ UNCHANGED <<chain, limbo, disturbed>>

\* stopped, or not finalized in time
Crash(r) ==
    /\ Active(r)
    /\ script' = [script EXCEPT ![r] = Over(r)]
    /\ disturbed' = [disturbed EXCEPT ![r] = TRUE]
    /\ UNCHANGED <<chain, limbo>>

\* a transaction lands late, or its block hash expires
Land(tx) ==
    /\ limbo' = limbo \ {tx}
    /\ chain' \in {chain} \cup Outcomes(chain, tx)
    /\ UNCHANGED <<script, disturbed>>

SubscriptionsInit ==
    /\ chain = [authority |-> 0, inits |-> 0, grants |-> {}, plans |-> {},
                subscriptions |-> {}, moved |-> [r \in ScriptRun |-> 0],
                balance |-> [kind \in Kinds |-> 0]]
    /\ limbo = {}
    /\ script = [r \in ScriptRun |-> [at |-> "idle", kind |-> "none"]]
    /\ disturbed = [r \in ScriptRun |-> FALSE]

SubscriptionsNext ==
    \/ \E r \in ScriptRun :
         \/ \E kind \in Kinds : StartRun(r, kind)
         \/ SweepStep(r) \/ Swept(r)
         \/ RunStep(r) \/ Check(r) \/ WriteEvidence(r) \/ Crash(r)
    \/ \E tx \in limbo : Land(tx)

SubscriptionsSpec == SubscriptionsInit /\ [][SubscriptionsNext]_subscriptionsVars

-----------------------------------------------------------------------------
(* Properties.                                                             *)

\* Evidence is true although confirmations are lost, transactions land late and
\* another run is under way: of the racing transfers, or of the pull, exactly one
\* attempt was moved, and its allowance or subscription is gone.
EvidenceIsTrue ==
    \A r \in ScriptRun : script[r].at = "evidence" =>
        /\ chain.moved[r] = (IF script[r].kind = "plain" THEN 0 ELSE AttemptAtomic)
        /\ \A g \in chain.grants : g.by # r
        /\ \A s \in chain.subscriptions : s.by # r

\* Wherever earlier runs stopped, what they left does not stop a run of a script
\* that sweeps: alone and with a network that answers, it does not fail.
RerunsRecover ==
    \A r \in ScriptRun :
        (Failed(r) /\ script[r].kind \in {"agentBudget", "plan"}) => disturbed[r]

=============================================================================
