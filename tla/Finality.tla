------------------------------ MODULE Finality ------------------------------
(***************************************************************************)
(* From confirmed to finalized: the gateway's SolanaFinalityReconciler and *)
(* the payments rows it judges.  A timer starts a run every few seconds in *)
(* every replica, whether or not the previous run has ended; a run lists   *)
(* the oldest confirmed rows, asks the RPC providers in turn, and then     *)
(* writes the verdicts one statement at a time.                            *)
(*                                                                         *)
(* The chain and the RPC providers are outside src/.  A provider may know  *)
(* less than the chain, but what it reports is so.  The counter of missing *)
(* answers is left out: nothing reads it.                                  *)
(***************************************************************************)
EXTENDS Naturals, FiniteSets, Sequences, SequencesExt, Selection

CONSTANTS
    Signature,      \* signatures of saved payments
    Run,            \* runs of reconcile() that may overlap
    Providers,      \* how many RPC URLs are configured
    Limit,          \* how many rows a run lists
    MaxDropped      \* bound on the transactions that are dropped

ASSUME FinalityAssumption ==
    /\ Providers \in Nat \ {0}
    /\ Limit \in Nat \ {0}
    /\ MaxDropped \in Nat

VARIABLES
    truth,          \* what became of each transaction on chain
    rows,           \* the payments table, oldest settled_at first
    status,         \* its status column
    listed,         \* the signatures a run has listed and not yet judged
    attempt,        \* the provider a run asks next; 0 when it is not asking
    answer,         \* what the provider told the run
    healthy         \* the outage is over: RPC, database and process are well

finalityVars == <<truth, rows, status, listed, attempt, answer, healthy>>

Fate == {"finalized", "failed"}
Report == Fate \cup {"pending", "null"}

-----------------------------------------------------------------------------
(* The world: a confirmed transaction is finalized, fails or is dropped.   *)

Decide(s) ==
    /\ truth[s] = "pending"
    /\ \E fate \in Fate \cup {"dropped"} :
         /\ truth' = [truth EXCEPT ![s] = fate]
         /\ Cardinality({other \in Signature : truth'[other] = "dropped"}) <= MaxDropped
    /\ UNCHANGED <<rows, status, listed, attempt, answer, healthy>>

\* the paid request's save, after its validator found the transaction without
\* an error at commitment confirmed
SavePayment(s) ==
    /\ status[s] = "none"
    /\ truth[s] \in {"pending", "finalized"}
    /\ rows' = Append(rows, s)
    /\ status' = [status EXCEPT ![s] = "confirmed"]
    /\ UNCHANGED <<truth, listed, attempt, answer, healthy>>

Recover ==
    /\ ~healthy
    /\ healthy' = TRUE
    /\ UNCHANGED <<truth, rows, status, listed, attempt, answer>>

-----------------------------------------------------------------------------
(* reconcile.                                                              *)

\* a slip: the WHERE clause forgets the status
AllRows == rows

ConfirmedRows == Selected(rows, {s \in Signature : status[s] = "confirmed"})

\* a slip: the query has no LIMIT, and the RPC method takes at most 256
WholeTable(q) == q

\* ORDER BY settled_at ASC LIMIT: the batch
Batch(q) == SubSeq(q, 1, IF Len(q) < Limit THEN Len(q) ELSE Limit)

ListConfirmed(n) ==
    /\ listed[n] = <<>>
    /\ ConfirmedRows # <<>>
    /\ listed' = [listed EXCEPT ![n] = Batch(ConfirmedRows)]
    /\ attempt' = [attempt EXCEPT ![n] = 1]
    /\ UNCHANGED <<truth, rows, status, answer, healthy>>

\* getSignatureStatuses throws or times out: the next provider, if there is one
ProviderFails(n) ==
    /\ attempt[n] # 0
    /\ ~healthy
    /\ IF attempt[n] < Providers
         THEN /\ attempt' = [attempt EXCEPT ![n] = @ + 1]
              /\ UNCHANGED listed
         ELSE /\ attempt' = [attempt EXCEPT ![n] = 0]
              /\ listed' = [listed EXCEPT ![n] = <<>>]
    /\ UNCHANGED <<truth, rows, status, answer, healthy>>

\* all that the chain knows about the batch
FullReply(n) ==
    [s \in Signature |->
        IF Contains(listed[n], s) /\ truth[s] # "dropped" THEN truth[s] ELSE "null"]

PartialReply(n, reply) ==
    \A s \in Signature : reply[s] \in {"null", FullReply(n)[s]}

ProviderAnswers(n) ==
    /\ attempt[n] # 0
    /\ \E reply \in [Signature -> Report] :
         /\ PartialReply(n, reply)
         /\ healthy => reply = FullReply(n)
         /\ answer' = [answer EXCEPT ![n] = reply]
    /\ attempt' = [attempt EXCEPT ![n] = 0]
    /\ UNCHANGED <<truth, rows, status, listed, healthy>>

\* a slip: a transaction no provider knows is taken for a failed one
AbsenceIsFailure(report, old) ==
    IF report = "null" THEN "failed" ELSE IF report \in Fate THEN report ELSE old

\* finalized without an error, or an error: anything else proves nothing
Verdict(report, old) == IF report \in Fate THEN report ELSE old

\* markFinalized, markFailed: UPDATE ... WHERE status='confirmed'
Judge(n) ==
    /\ listed[n] # <<>>
    /\ attempt[n] = 0
    /\ LET s == Head(listed[n])
       IN  status' = [status EXCEPT ![s] =
                        IF @ = "confirmed" THEN Verdict(answer[n][s], @) ELSE @]
    /\ listed' = [listed EXCEPT ![n] = Tail(@)]
    /\ UNCHANGED <<truth, rows, attempt, answer, healthy>>

\* a database error or the end of the process ends a run where it is
Abandon(n) ==
    /\ listed[n] # <<>>
    /\ ~healthy
    /\ listed' = [listed EXCEPT ![n] = <<>>]
    /\ attempt' = [attempt EXCEPT ![n] = 0]
    /\ UNCHANGED <<truth, rows, status, answer, healthy>>

-----------------------------------------------------------------------------

FinalityInit ==
    /\ truth = [s \in Signature |-> "pending"]
    /\ rows = <<>>
    /\ status = [s \in Signature |-> "none"]
    /\ listed = [n \in Run |-> <<>>]
    /\ attempt = [n \in Run |-> 0]
    /\ answer = [n \in Run |-> [s \in Signature |-> "null"]]
    /\ healthy = FALSE

FinalityNext ==
    \/ \E s \in Signature : Decide(s) \/ SavePayment(s)
    \/ Recover
    \/ \E n \in Run :
         \/ ListConfirmed(n)
         \/ ProviderFails(n)
         \/ ProviderAnswers(n)
         \/ Judge(n)
         \/ Abandon(n)

FinalitySpec == FinalityInit /\ [][FinalityNext]_finalityVars

(* The timer starts runs for ever and the outage ends; after that a run is *)
(* answered and writes its verdicts.  The chain decides every transaction. *)
FairFinalitySpec ==
    /\ FinalitySpec
    /\ WF_finalityVars(Recover)
    /\ \A s \in Signature : WF_finalityVars(Decide(s))
    /\ \A n \in Run :
         /\ WF_finalityVars(ListConfirmed(n))
         /\ WF_finalityVars(ProviderAnswers(n))
         /\ WF_finalityVars(Judge(n))

-----------------------------------------------------------------------------
(* Properties.                                                             *)

FinalityTypeOK ==
    /\ truth \in [Signature -> Fate \cup {"pending", "dropped"}]
    /\ status \in [Signature -> Fate \cup {"none", "confirmed"}]
    /\ IsInjective(rows)
    /\ ToSet(rows) = {s \in Signature : status[s] # "none"}
    /\ \A n \in Run : listed[n] \in Seq(ToSet(rows)) /\ Len(listed[n]) <= Limit
    /\ attempt \in [Run -> 0 .. Providers]
    /\ answer \in [Run -> [Signature -> Report]]
    /\ healthy \in BOOLEAN

\* A payment is marked finalized or failed only when the chain says so: not by
\* an absent answer, a lagging provider, or a run that judges an old batch while
\* another one has written since.
VerdictsAreProven ==
    \A s \in Signature : status[s] \in Fate => truth[s] = status[s]

\* the saved payments whose transaction no provider will ever report
Dropped == {s \in ToSet(rows) : truth[s] = "dropped"}

\* "A reconciler promotes successful signatures from `confirmed` to `finalized`"
\* (docs/en/architecture.md:66-67): what the chain decides about a saved payment
\* reaches its row.
DecidedIsRecorded ==
    \A s \in Signature :
        (status[s] = "confirmed" /\ truth[s] \in Fate) ~> (status[s] = truth[s])

\* The same, unless enough dropped transactions precede it to fill a batch: they
\* stay confirmed for ever, and the oldest rows are listed first.  Overlapping
\* runs, lagging providers and an outage only delay it.
DecidedUnlessCrowdedOut ==
    \A s \in Signature :
        (status[s] = "confirmed" /\ truth[s] \in Fate)
            ~> (status[s] = truth[s] \/ Cardinality(Dropped) >= Limit)

=============================================================================
