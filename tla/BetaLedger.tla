----------------------------- MODULE BetaLedger ------------------------------
(***************************************************************************)
(* The beta evidence file of the pilot CLI: one record per line, read and  *)
(* checked before a record is appended, by processes that share no lock.   *)
(* The aggregate and the commercial gate are computed from the whole file. *)
(***************************************************************************)
EXTENDS Naturals, Sequences, FiniteSets

CONSTANTS
    BetaWriter,         \* processes that run beta-record
    BetaRecord,         \* the records they are given
    Completion,         \* the milestones of a completed engagement
    MinStarts, MinCompleted,
    Quick,              \* durations that pass for a quick first 402
    MaxLines

ASSUME BetaAssumption ==
    /\ \A r \in BetaRecord :
         DOMAIN r = {"id", "engagement", "external", "milestone", "passed", "helped",
                     "duration", "consented"}
    /\ {MinStarts, MinCompleted, MaxLines} \cup Quick \subseteq Nat

VARIABLES
    lines,          \* the file
    torn,           \* its last line was cut off by a crash
    recording,      \* the record each writer has checked, if any
    overlapped      \* history: a record was appended between a check and its append

betaVars == <<lines, torn, recording, overlapped>>

Waiting == [phase |-> "waiting"]
Lines == {lines[i] : i \in DOMAIN lines}

-----------------------------------------------------------------------------

\* a slip: nobody asks
NoneOf(e) == {}

\* existing.find: the first record of the engagement
Prior(e) == {lines[i] : i \in {j \in DOMAIN lines : lines[j].engagement = e /\
                \A k \in DOMAIN lines : lines[k].engagement = e => j <= k}}

IdUnused(r) == \A l \in Lines : l.id # r.id

\* a file with a torn line cannot be parsed, and nothing more is recorded
CheckEvidence(w, r) ==
    /\ recording[w] = Waiting
    /\ ~torn
    /\ IdUnused(r)
    /\ \A prior \in Prior(r.engagement) : prior.external = r.external
    /\ recording' = [recording EXCEPT ![w] = [phase |-> "checked", record |-> r,
                                              seen |-> Len(lines)]]
    /\ UNCHANGED <<lines, torn, overlapped>>

AppendEvidence(w) ==
    /\ recording[w] # Waiting
    /\ Len(lines) < MaxLines
    /\ lines' = IF torn THEN lines ELSE Append(lines, recording[w].record)
    /\ overlapped' = (overlapped \/ recording[w].seen # Len(lines))
    /\ recording' = [recording EXCEPT ![w] = Waiting]
    /\ UNCHANGED torn

\* the process ends before the append, or within it
CrashRecording(w) ==
    /\ recording[w] # Waiting
    /\ recording' = [recording EXCEPT ![w] = Waiting]
    /\ torn' \in {torn, TRUE}
    /\ UNCHANGED <<lines, overlapped>>

BetaInit ==
    /\ lines = <<>> /\ torn = FALSE /\ overlapped = FALSE
    /\ recording = [w \in BetaWriter |-> Waiting]

BetaNext ==
    \E w \in BetaWriter :
        \/ \E r \in BetaRecord : CheckEvidence(w, r)
        \/ AppendEvidence(w)
        \/ CrashRecording(w)

BetaSpec == BetaInit /\ [][BetaNext]_betaVars

-----------------------------------------------------------------------------
(* The aggregate: beta-export.                                             *)

Consented == {l \in Lines : l.consented}
External == {l \in Consented : l.external}
Engagements(records) == {l.engagement : l \in records}
Reached(records, m) == {l.engagement : l \in {k \in records : k.milestone = m /\ k.passed}}

Starts == Reached(External, "initializer_started")

CompletedAlone ==
    {e \in Starts : \A m \in Completion :
        \E l \in External : l.engagement = e /\ l.milestone = m /\ l.passed /\ l.helped = 0}

\* the positions of the first 402s of the starts
First402 ==
    {i \in DOMAIN lines : /\ lines[i] \in External
                          /\ lines[i].engagement \in Starts
                          /\ lines[i].milestone = "first_402" /\ lines[i].passed}

\* sort()[floor(n / 2)]: as many are smaller or equal as that index needs
MedianIsQuick ==
    \E i \in First402 :
        /\ lines[i].duration \in Quick
        /\ LET below == {j \in First402 : lines[j].duration < lines[i].duration}
               upto == {j \in First402 : lines[j].duration <= lines[i].duration}
               middle == Cardinality(First402) \div 2
           IN  Cardinality(below) <= middle /\ middle < Cardinality(upto)

Eligible ==
    /\ Cardinality(Starts) >= MinStarts
    /\ Cardinality(CompletedAlone) >= MinCompleted
    /\ MedianIsQuick
    /\ CompletedAlone # {}

-----------------------------------------------------------------------------
(* Properties.                                                             *)

\* As long as no two writers overlapped, whoever opens the commercial gate was an
\* independent participant from the first record on, and is not counted among the
\* synthetic ones as well.
GateIsIndependent ==
    (~overlapped /\ Eligible) =>
        /\ Cardinality({e \in Starts : \A l \in Prior(e) : l.external}) >= MinStarts
        /\ Engagements(External) \cap Engagements(Consented \ External) = {}

=============================================================================
