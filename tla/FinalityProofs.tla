--------------------------- MODULE FinalityProofs ---------------------------
(***************************************************************************)
(* No verdict the chain did not give, for any number of payments, of       *)
(* overlapping runs, of providers, and for any batch.                      *)
(***************************************************************************)
EXTENDS Finality, SelectionProofs

-----------------------------------------------------------------------------
(* The inductive invariant.  A run may judge long after it was answered,   *)
(* and others judge meanwhile: what makes an old answer harmless is that   *)
(* the chain does not take back a verdict, so an answer that has one stays *)
(* true.                                                                   *)

TablesTyped ==
    /\ truth \in [Signature -> Fate \cup {"pending", "dropped"}]
    /\ status \in [Signature -> Fate \cup {"none", "confirmed"}]
    /\ answer \in [Run -> [Signature -> Report]]

AnswersStayTrue ==
    \A n \in Run, s \in Signature : answer[n][s] \in Fate => truth[s] = answer[n][s]

VerdictInv == TablesTyped /\ AnswersStayTrue /\ VerdictsAreProven

\* Nothing is decided, answered or judged.
LEMMA VerdictInitSafe == FinalityInit => VerdictInv
  BY DEF FinalityInit, VerdictInv, TablesTyped, AnswersStayTrue, VerdictsAreProven,
         Fate, Report

\* The chain decides what was pending, so no verdict was given on it.
LEMMA DecideSafe ==
    ASSUME VerdictInv, NEW s \in Signature, Decide(s)
    PROVE  VerdictInv'
<1>1. PICK fate \in Fate \cup {"dropped"} : truth' = [truth EXCEPT ![s] = fate]
  BY DEF Decide
<1>2. truth[s] = "pending" /\ status' = status /\ answer' = answer
  BY DEF Decide
<1>3. \A t \in Signature : truth[t] \in Fate => truth'[t] = truth[t]
  BY <1>1, <1>2 DEF VerdictInv, TablesTyped, Fate
<1>4. TablesTyped'
  BY <1>1, <1>2 DEF VerdictInv, TablesTyped
<1>5. AnswersStayTrue'
  BY <1>2, <1>3 DEF VerdictInv, AnswersStayTrue
<1>6. VerdictsAreProven'
  BY <1>2, <1>3 DEF VerdictInv, VerdictsAreProven
<1> QED
  BY <1>4, <1>5, <1>6 DEF VerdictInv

\* A payment is saved as confirmed, which is no verdict.
LEMMA SaveSafe ==
    ASSUME VerdictInv, NEW s \in Signature, SavePayment(s)
    PROVE  VerdictInv'
<1>1. /\ status' = [status EXCEPT ![s] = "confirmed"]
      /\ truth' = truth /\ answer' = answer
  BY DEF SavePayment
<1>2. TablesTyped' /\ AnswersStayTrue'
  BY <1>1 DEF VerdictInv, TablesTyped, AnswersStayTrue
<1>3. VerdictsAreProven'
  BY <1>1 DEF VerdictInv, TablesTyped, VerdictsAreProven, Fate
<1> QED
  BY <1>2, <1>3 DEF VerdictInv

\* A provider reports what the chain knows, or less.
LEMMA AnswerSafe ==
    ASSUME VerdictInv, NEW n \in Run, ProviderAnswers(n)
    PROVE  VerdictInv'
<1>1. PICK reply \in [Signature -> Report] :
         PartialReply(n, reply) /\ answer' = [answer EXCEPT ![n] = reply]
  BY DEF ProviderAnswers
<1>2. truth' = truth /\ status' = status
  BY DEF ProviderAnswers
<1>3. \A s \in Signature : reply[s] \in Fate => truth[s] = reply[s]
  BY <1>1 DEF PartialReply, FullReply, Fate
<1>4. TablesTyped' /\ VerdictsAreProven'
  BY <1>1, <1>2 DEF VerdictInv, TablesTyped, VerdictsAreProven
<1>5. AnswersStayTrue'
  BY <1>1, <1>2, <1>3 DEF VerdictInv, TablesTyped, AnswersStayTrue
<1> QED
  BY <1>4, <1>5 DEF VerdictInv

\* A run writes what it was told, however long ago.
LEMMA JudgeSafe ==
    ASSUME VerdictInv, NEW n \in Run, Judge(n)
    PROVE  VerdictInv'
<1> DEFINE judged == Head(listed[n])
<1>1. /\ status' = [status EXCEPT ![judged] =
                      IF @ = "confirmed" THEN Verdict(answer[n][judged], @) ELSE @]
      /\ truth' = truth /\ answer' = answer
  BY DEF Judge
<1>2. \A s \in Signature :
         status'[s] = status[s] \/ (status'[s] = answer[n][s] /\ answer[n][s] \in Fate)
  BY <1>1 DEF VerdictInv, TablesTyped, Verdict
<1>3. TablesTyped'
  <2>1. status' \in [Signature -> Fate \cup {"none", "confirmed"}]
    BY <1>1, <1>2 DEF VerdictInv, TablesTyped
  <2> QED
    BY <1>1, <2>1 DEF VerdictInv, TablesTyped
<1>4. AnswersStayTrue'
  BY <1>1 DEF VerdictInv, AnswersStayTrue
<1>5. VerdictsAreProven'
  BY <1>1, <1>2 DEF VerdictInv, AnswersStayTrue, VerdictsAreProven
<1> QED
  BY <1>3, <1>4, <1>5 DEF VerdictInv

\* Every step keeps the invariant; a run's other steps touch none of its tables.
LEMMA VerdictNextSafe == VerdictInv /\ [FinalityNext]_finalityVars => VerdictInv'
<1> SUFFICES ASSUME VerdictInv, [FinalityNext]_finalityVars PROVE VerdictInv'
  OBVIOUS
<1>1. ASSUME UNCHANGED <<truth, status, answer>> PROVE VerdictInv'
  BY <1>1 DEF VerdictInv, TablesTyped, AnswersStayTrue, VerdictsAreProven
<1>2. CASE \E s \in Signature : Decide(s) \/ SavePayment(s)
  BY <1>2, DecideSafe, SaveSafe
<1>3. CASE Recover
  BY <1>1, <1>3 DEF Recover
<1>4. ASSUME NEW n \in Run,
             ListConfirmed(n) \/ ProviderFails(n) \/ Abandon(n)
      PROVE  VerdictInv'
  BY <1>1, <1>4 DEF ListConfirmed, ProviderFails, Abandon
<1>5. ASSUME NEW n \in Run, ProviderAnswers(n) \/ Judge(n)
      PROVE  VerdictInv'
  BY <1>5, AnswerSafe, JudgeSafe
<1>6. CASE UNCHANGED finalityVars
  BY <1>1, <1>6 DEF finalityVars
<1> QED
  BY <1>2, <1>3, <1>4, <1>5, <1>6 DEF FinalityNext

\* A row says finalized or failed only if the chain said so, whatever runs
\* overlap, providers omit and processes abandon.
THEOREM VerdictsAreTheChains == FinalitySpec => []VerdictsAreProven
<1>1. VerdictInv => VerdictsAreProven
  BY DEF VerdictInv
<1> QED
  BY <1>1, VerdictInitSafe, VerdictNextSafe, PTL DEF FinalitySpec

-----------------------------------------------------------------------------
(* Type correctness.  A run holds a batch of what it listed; the batch is a *)
(* selection from the table, so its rows are there, and it fits the method. *)

FinalityInv ==
    /\ rows \in Seq(Signature)
    /\ listed \in [Run -> Seq(Signature)]
    /\ FinalityTypeOK

\* what one run may hold, while the rows are those of the table
HoldsBatch(n) == listed[n] \in Seq(ToSet(rows)) /\ Len(listed[n]) <= Limit

\* A batch is no longer than the limit, and has rows of the table only.
LEMMA BatchFits ==
    ASSUME rows \in Seq(Signature)
    PROVE  Batch(ConfirmedRows) \in Seq(ToSet(rows)) /\ Len(Batch(ConfirmedRows)) <= Limit
<1> DEFINE q == ConfirmedRows
           size == IF Len(q) < Limit THEN Len(q) ELSE Limit
<1>1. q \in Seq(ToSet(rows))
  <2> DEFINE S == {s \in Signature : status[s] = "confirmed"}
  <2>0. q = Selected(rows, S)
    BY DEF ConfirmedRows
  <2> HIDE DEF S
  <2>1. /\ q \in Seq(Signature)
        /\ \A k \in DOMAIN q : \E i \in DOMAIN rows : q[k] = rows[i]
    BY <2>0, SelectedElements
  <2> HIDE DEF q
  <2>2. \A k \in DOMAIN q : q[k] \in ToSet(rows)
    BY <2>1 DEF ToSet
  <2> QED
    BY <2>1, <2>2
<1>2. size \in 0 .. Len(q) /\ size <= Limit
  BY <1>1, FinalityAssumption
<1>3. Batch(q) = SubSeq(q, 1, size)
  BY DEF Batch
<1> HIDE DEF q, size
<1>4. SubSeq(q, 1, size) \in Seq(ToSet(rows)) /\ Len(SubSeq(q, 1, size)) = size
  BY <1>1, <1>2
<1> QED
  BY <1>2, <1>3, <1>4 DEF q

\* A run that holds less than before still holds a batch, or a fresh one.
LEMMA RunMoves ==
    ASSUME FinalityInv, NEW n \in Run, NEW q, NEW a \in 0 .. Providers,
           listed' = [listed EXCEPT ![n] = q], attempt' = [attempt EXCEPT ![n] = a],
           q \in Seq(ToSet(rows)), Len(q) <= Limit,
           UNCHANGED <<truth, rows, healthy>>,
           status' \in [Signature -> Fate \cup {"none", "confirmed"}],
           \A s \in Signature : status'[s] = "none" <=> status[s] = "none",
           answer' \in [Run -> [Signature -> Report]]
    PROVE  FinalityInv'
<1>1. ASSUME NEW m \in Run
      PROVE  listed'[m] \in Seq(ToSet(rows')) /\ Len(listed'[m]) <= Limit
  <2>1. HoldsBatch(m)
    BY DEF FinalityInv, FinalityTypeOK, HoldsBatch
  <2>2. listed'[m] = q \/ listed'[m] = listed[m]
    OBVIOUS
  <2> QED
    BY <2>1, <2>2 DEF HoldsBatch
<1>2. ToSet(rows') = {s \in Signature : status'[s] # "none"}
  BY DEF FinalityInv, FinalityTypeOK
<1>3. attempt' \in [Run -> 0 .. Providers]
  BY DEF FinalityInv, FinalityTypeOK
<1>4. listed' \in [Run -> Seq(Signature)]
  <2>1. ToSet(rows) \subseteq Signature
    BY DEF FinalityInv, ToSet
  <2>2. q \in Seq(Signature)
    BY <2>1
  <2> QED
    BY <2>2 DEF FinalityInv
<1> QED
  BY <1>1, <1>2, <1>3, <1>4 DEF FinalityInv, FinalityTypeOK

\* A payment is saved at the end of the table, once.
LEMMA SavePaymentTyped ==
    ASSUME FinalityInv, NEW s \in Signature, SavePayment(s)
    PROVE  FinalityInv'
<1>1. /\ rows' = Append(rows, s) /\ status' = [status EXCEPT ![s] = "confirmed"]
      /\ UNCHANGED <<truth, listed, attempt, answer, healthy>>
      /\ status[s] = "none" /\ rows \in Seq(Signature)
  BY DEF SavePayment, FinalityInv
<1>2. /\ rows' \in Seq(Signature) /\ DOMAIN rows' = DOMAIN rows \cup {Len(rows) + 1}
      /\ Len(rows) + 1 \notin DOMAIN rows /\ rows'[Len(rows) + 1] = s
      /\ \A i \in DOMAIN rows : rows'[i] = rows[i]
  BY <1>1
<1>3. ToSet(rows') = ToSet(rows) \cup {s}
  BY <1>2 DEF ToSet
<1>4. s \notin ToSet(rows)
  BY <1>1 DEF FinalityInv, FinalityTypeOK
<1>5. IsInjective(rows')
  <2> SUFFICES ASSUME NEW i \in DOMAIN rows', NEW j \in DOMAIN rows', rows'[i] = rows'[j]
               PROVE  i = j
    BY DEF IsInjective
  <2>1. \A k \in DOMAIN rows : rows[k] # s
    BY <1>4 DEF ToSet
  <2> QED
    BY <1>2, <2>1 DEF FinalityInv, FinalityTypeOK, IsInjective
<1>6. /\ status' \in [Signature -> Fate \cup {"none", "confirmed"}]
      /\ ToSet(rows') = {t \in Signature : status'[t] # "none"}
  BY <1>1, <1>3 DEF FinalityInv, FinalityTypeOK
<1>7. ASSUME NEW n \in Run
      PROVE  listed'[n] \in Seq(ToSet(rows')) /\ Len(listed'[n]) <= Limit
  <2> PICK q \in Seq(ToSet(rows)) : q = listed[n] /\ Len(q) <= Limit
    BY DEF FinalityInv, FinalityTypeOK
  <2>1. q \in Seq(ToSet(rows'))
    BY <1>3
  <2> QED
    BY <1>1, <2>1
<1> QED
  BY <1>1, <1>2, <1>5, <1>6, <1>7 DEF FinalityInv, FinalityTypeOK

\* Listing, asking, judging and giving up move one run.
LEMMA RunTyped ==
    ASSUME FinalityInv, NEW n \in Run,
           \/ ListConfirmed(n) \/ ProviderFails(n) \/ ProviderAnswers(n)
           \/ Judge(n) \/ Abandon(n)
    PROVE  FinalityInv'
<1> PICK q \in Seq(ToSet(rows)) : q = listed[n] /\ Len(q) <= Limit
  BY DEF FinalityInv, FinalityTypeOK
<1>1. <<>> \in Seq(ToSet(rows)) /\ Len(<<>>) <= Limit /\ {0, 1} \subseteq 0 .. Providers
  BY FinalityAssumption
<1>2. /\ status \in [Signature -> Fate \cup {"none", "confirmed"}]
      /\ answer \in [Run -> [Signature -> Report]]
      /\ attempt \in [Run -> 0 .. Providers]
      /\ listed \in [Run -> Seq(Signature)]
  BY DEF FinalityInv, FinalityTypeOK
<1>3. ASSUME ListConfirmed(n) PROVE FinalityInv'
  <2>1. Batch(ConfirmedRows) \in Seq(ToSet(rows)) /\ Len(Batch(ConfirmedRows)) <= Limit
    BY BatchFits DEF FinalityInv
  <2> PICK batch : batch = Batch(ConfirmedRows)
    OBVIOUS
  <2>2. /\ listed' = [listed EXCEPT ![n] = batch] /\ attempt' = [attempt EXCEPT ![n] = 1]
        /\ UNCHANGED <<truth, rows, status, answer, healthy>>
    BY <1>3 DEF ListConfirmed
  <2> QED
    BY <1>1, <1>2, <2>1, <2>2, RunMoves
<1>4. ASSUME ProviderFails(n) PROVE FinalityInv'
  <2>1. CASE attempt[n] < Providers
    <3>1. attempt[n] + 1 \in 0 .. Providers
      BY <1>2, <2>1, FinalityAssumption
    <3>2. listed' = [listed EXCEPT ![n] = q] /\ attempt' = [attempt EXCEPT ![n] = attempt[n] + 1]
      BY <1>2, <1>4, <2>1 DEF ProviderFails
    <3> QED
      BY <1>2, <1>4, <3>1, <3>2, RunMoves DEF ProviderFails
  <2>2. CASE ~(attempt[n] < Providers)
    <3>1. listed' = [listed EXCEPT ![n] = <<>>] /\ attempt' = [attempt EXCEPT ![n] = 0]
      BY <1>4, <2>2 DEF ProviderFails
    <3> QED
      BY <1>1, <1>2, <1>4, <3>1, RunMoves DEF ProviderFails
  <2> QED
    BY <2>1, <2>2
<1>5. ASSUME ProviderAnswers(n) PROVE FinalityInv'
  <2>1. answer' \in [Run -> [Signature -> Report]]
    BY <1>2, <1>5 DEF ProviderAnswers
  <2>2. listed' = [listed EXCEPT ![n] = q] /\ attempt' = [attempt EXCEPT ![n] = 0]
    BY <1>2, <1>5 DEF ProviderAnswers
  <2> QED
    BY <1>1, <1>2, <1>5, <2>1, <2>2, RunMoves DEF ProviderAnswers
<1>6. ASSUME Judge(n) PROVE FinalityInv'
  <2>1. q # <<>> /\ ToSet(rows) \subseteq {s \in Signature : status[s] # "none"}
    BY <1>6 DEF Judge, FinalityInv, FinalityTypeOK
  <2> PICK s \in Signature : s = Head(q) /\ status[s] # "none"
    BY <2>1
  <2>2. /\ Tail(q) \in Seq(ToSet(rows)) /\ Len(Tail(q)) <= Limit
    BY <2>1, FinalityAssumption
  <2>3. status' = [status EXCEPT ![s] =
                     IF status[s] = "confirmed" THEN Verdict(answer[n][s], status[s])
                     ELSE status[s]]
    BY <1>6 DEF Judge
  <2>4. /\ status' \in [Signature -> Fate \cup {"none", "confirmed"}]
        /\ \A t \in Signature : status'[t] = "none" <=> status[t] = "none"
    BY <1>2, <2>3 DEF Verdict, Fate
  <2>5. listed' = [listed EXCEPT ![n] = Tail(q)]
    BY <1>2, <1>6 DEF Judge
  <2>6. attempt[n] \in 0 .. Providers /\ attempt' = [attempt EXCEPT ![n] = attempt[n]]
    BY <1>2, <1>6 DEF Judge
  <2> QED
    BY <1>2, <1>6, <2>2, <2>4, <2>5, <2>6, RunMoves DEF Judge
<1>7. ASSUME Abandon(n) PROVE FinalityInv'
  BY <1>1, <1>2, <1>7, RunMoves DEF Abandon
<1> QED
  BY <1>3, <1>4, <1>5, <1>6, <1>7

\* The table is empty and nothing runs.
LEMMA FinalityInitTyped == FinalityInit => FinalityInv
<1> SUFFICES ASSUME FinalityInit PROVE FinalityInv
  OBVIOUS
<1>1. /\ rows = <<>> /\ ToSet(rows) = {} /\ IsInjective(rows)
      /\ rows \in Seq(Signature)
  BY DEF FinalityInit, ToSet, IsInjective
<1>2. \A n \in Run : listed[n] \in Seq(ToSet(rows)) /\ Len(listed[n]) <= Limit
  BY FinalityAssumption DEF FinalityInit
<1>3. /\ ToSet(rows) = {s \in Signature : status[s] # "none"}
      /\ truth \in [Signature -> Fate \cup {"pending", "dropped"}]
      /\ status \in [Signature -> Fate \cup {"none", "confirmed"}]
  BY <1>1 DEF FinalityInit
<1>4. /\ attempt \in [Run -> 0 .. Providers] /\ listed \in [Run -> Seq(Signature)]
      /\ answer \in [Run -> [Signature -> Report]]
  BY FinalityAssumption DEF FinalityInit, Report
<1>5. healthy \in BOOLEAN
  BY Zenon DEF FinalityInit
<1> QED
  BY <1>1, <1>2, <1>3, <1>4, <1>5 DEF FinalityInv, FinalityTypeOK

LEMMA FinalityNextTyped == FinalityInv /\ [FinalityNext]_finalityVars => FinalityInv'
<1> SUFFICES ASSUME FinalityInv, [FinalityNext]_finalityVars PROVE FinalityInv'
  OBVIOUS
<1>1. ASSUME NEW s \in Signature, Decide(s) PROVE FinalityInv'
  <2>1. truth' \in [Signature -> Fate \cup {"pending", "dropped"}]
    BY <1>1 DEF Decide, FinalityInv, FinalityTypeOK
  <2> QED
    BY <1>1, <2>1 DEF Decide, FinalityInv, FinalityTypeOK
<1>2. CASE Recover
  BY <1>2 DEF Recover, FinalityInv, FinalityTypeOK
<1>3. CASE UNCHANGED finalityVars
  BY <1>3 DEF finalityVars, FinalityInv, FinalityTypeOK
<1> QED
  BY <1>1, <1>2, <1>3, SavePaymentTyped, RunTyped DEF FinalityNext

\* The table has a payment once, and every run holds a batch of rows that are in it
\* and that the method takes, for any tables, limits, runs and providers.
THEOREM FinalityTypeCorrect == FinalitySpec => []FinalityTypeOK
<1>1. FinalityInv => FinalityTypeOK
  BY DEF FinalityInv
<1> QED
  BY <1>1, FinalityInitTyped, FinalityNextTyped, PTL DEF FinalitySpec

=============================================================================
