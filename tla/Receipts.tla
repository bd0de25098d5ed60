------------------------------ MODULE Receipts -------------------------------
(***************************************************************************)
(* The public records of the store: the receipt of a payment, whose        *)
(* reports may come late, twice and out of order; release manifests and    *)
(* benchmark runs, which are written once; and requests for an owner's     *)
(* metadata, which lapse.  Two payments that report under one receipt id   *)
(* are told apart by their terms: product, network, mint, amount,          *)
(* recipient and resource.                                                 *)
(***************************************************************************)
EXTENDS Naturals, FiniteSets

CONSTANTS
    Terms,              \* the payments that report under the receipt's id
    Evidence,           \* contents of a manifest or of a run
    RecordOwner,        \* wallets that ask for their metadata
    RequestLife, MaxRecordTime,
    NoRecord

Settlement == {"not_started", "pending", "confirmed", "finalized", "unknown", "failed"}
Terminal == {"finalized", "failed"}
Receipt == [terms : Terms, settlement : Settlement, updated : 0..MaxRecordTime]

ASSUME ReceiptsAssumption ==
    /\ NoRecord \notin Evidence \cup Receipt
    /\ {RequestLife, MaxRecordTime} \subseteq Nat

VARIABLES
    recordTime,
    stage,          \* how far the settlement of each payment has come
    reports,        \* the receipts written out, delivered or not
    receipt,        \* the row of public_payment_receipts
    delivered,      \* history: the reports that were saved or refused
    manifest,       \* the release_manifests row of one version
    benchmark,      \* the benchmark_runs row of one run
    published,      \* history: the evidence whose save returned
    requests        \* the hosted_metadata_requests table

receiptVars == <<stage, reports, receipt, delivered>>
evidenceVars == <<manifest, benchmark, published>>
recordVars == <<recordTime, receiptVars, evidenceVars, requests>>

-----------------------------------------------------------------------------

\* what a settlement may become
Follows(s) ==
    CASE s = "not_started" -> {"pending"}
      [] s = "pending" -> {"confirmed", "unknown", "failed"}
      [] s = "unknown" -> {"confirmed", "failed"}
      [] s = "confirmed" -> Terminal
      [] OTHER -> {}

Report(t, s) ==
    /\ s \in Follows(stage[t])
    /\ stage' = [stage EXCEPT ![t] = s]
    /\ reports' = reports \cup {[terms |-> t, settlement |-> s, updated |-> recordTime]}
    /\ UNCHANGED <<recordTime, receipt, delivered, evidenceVars, requests>>

\* a slip: whatever arrives replaces the row
InAnyOrder(row, r) == r.terms = row.terms

\* the WHERE of the upsert
MayReplace(row, r) ==
    /\ r.terms = row.terms
    /\ row.settlement \in Terminal => r.settlement = row.settlement
    /\ row.settlement = "confirmed" => r.settlement \in {"confirmed"} \cup Terminal
    /\ row.updated <= r.updated

\* RECEIPT_TRANSITION_REJECTED leaves the row
SavePublicReceipt(r) ==
    /\ receipt' = IF receipt = NoRecord \/ MayReplace(receipt, r) THEN r ELSE receipt
    /\ delivered' = delivered \cup {r}
    /\ UNCHANGED <<recordTime, stage, reports, evidenceVars, requests>>

\* ON CONFLICT DO NOTHING
FirstWriterWins(row, e) == IF row = NoRecord THEN e ELSE row

SaveReleaseManifest(e) ==
    /\ manifest' = FirstWriterWins(manifest, e)
    /\ published' = published \cup
         (IF manifest = NoRecord THEN {[kind |-> "release", is |-> e]} ELSE {})
    /\ UNCHANGED <<recordTime, receiptVars, benchmark, requests>>

SaveBenchmarkRun(e) ==
    /\ benchmark' = FirstWriterWins(benchmark, e)
    /\ published' = published \cup
         (IF benchmark = NoRecord THEN {[kind |-> "benchmark", is |-> e]} ELSE {})
    /\ UNCHANGED <<recordTime, receiptVars, manifest, requests>>

CreateHostedMetadataRequest(o, kind) ==
    /\ requests' = requests \cup
         {[owner |-> o, kind |-> kind, expires |-> recordTime + RequestLife]}
    /\ UNCHANGED <<recordTime, receiptVars, evidenceVars>>

CleanupRequests ==
    /\ requests' = {q \in requests : q.expires > recordTime}
    /\ UNCHANGED <<recordTime, receiptVars, evidenceVars>>

PassRecordTime ==
    /\ recordTime < MaxRecordTime
    /\ recordTime' = recordTime + 1
    /\ UNCHANGED <<receiptVars, evidenceVars, requests>>

RecordInit ==
    /\ recordTime = 0
    /\ stage = [t \in Terms |-> "not_started"]
    /\ reports = {[terms |-> t, settlement |-> "not_started", updated |-> 0] : t \in Terms}
    /\ receipt = NoRecord /\ manifest = NoRecord /\ benchmark = NoRecord
    /\ delivered = {} /\ published = {} /\ requests = {}

ReceiptStep ==
    \/ \E t \in Terms, s \in Settlement : Report(t, s)
    \/ \E r \in reports : SavePublicReceipt(r)

EvidenceStep ==
    \/ \E e \in Evidence : SaveReleaseManifest(e) \/ SaveBenchmarkRun(e)
    \/ \E o \in RecordOwner, k \in {"export", "delete"} : CreateHostedMetadataRequest(o, k)
    \/ CleanupRequests

RecordNext == PassRecordTime \/ ReceiptStep \/ EvidenceStep

RecordSpec == RecordInit /\ [][RecordNext]_recordVars

-----------------------------------------------------------------------------
(* Properties.                                                             *)

Rank(s) == IF s \in Terminal THEN 2 ELSE IF s = "confirmed" THEN 1 ELSE 0

\* Late, repeated and reordered reports leave the receipt with the newest that
\* arrived, and with the furthest of those of one moment (the upsert of
\* savePublicReceipt); evidence, whoever saves next, stays as first published.
RecordsStand ==
    /\ \A d \in delivered :
         (receipt # NoRecord /\ d.terms = receipt.terms) =>
             \/ d.updated < receipt.updated
             \/ d.updated = receipt.updated /\ Rank(d.settlement) <= Rank(receipt.settlement)
    /\ \A p \in published : p.is = IF p.kind = "release" THEN manifest ELSE benchmark

=============================================================================
