----------------------------- MODULE ToolsProofs -----------------------------
(***************************************************************************)
(* What the programs around the gateway promise, for any number of runs,   *)
(* calls, wallets, reads and writers: the initializer, the commands, the   *)
(* buyers, the scout, the two pages, the pilot's files and the scripts on  *)
(* devnet.  Each has an inductive invariant; they share no variable but    *)
(* the two pages'.                                                         *)
(***************************************************************************)
EXTENDS Scaffold, Commands, Buyer, McpScout, AllowancePanel, Dashboard, BetaLedger,
        PilotEngagement, Subscriptions, SelectionProofs, FiniteSetTheorems

-----------------------------------------------------------------------------
(* The initializer.  A project reaches the target in the one step that     *)
(* renames a staging directory, which is whole by then; so what a run may  *)
(* claim follows from where it stands.                                     *)

\* before the rename, or ended without it
NotWritten ==
    {"starting", "shown", "locking", "checking", "copying", "removing", "renaming",
     "failing", "exit 3"}

Written == {"finishing", "written", "exit 0", "exit 1"}

RunPhase == NotWritten \cup Written \cup {"exit 2", "killed"}

Directory == (SUBSET Entry) \cup {Missing}

ScaffoldTyped ==
    /\ doing \in [Run -> RunPhase]
    /\ target \in Directory
    /\ staging \in [Run -> Directory]
    /\ kept \in BOOLEAN

StagingInOrder ==
    \A r \in Run :
        /\ Does(r, "copying") => staging[r] \subseteq Project(r)
        /\ doing[r] \in {"removing", "renaming"} => staging[r] = Project(r)

\* what the user put there is there
KeptIsThere == kept => Mine \in Contents

\* nothing but the user's file, or one project and perhaps that file
TargetInOrder ==
    \/ Contents \subseteq {Mine}
    \/ \E r \in Run : Project(r) \subseteq Contents /\ Contents \subseteq Project(r) \cup {Mine}

PhaseTells ==
    \A r \in Run :
        /\ doing[r] \in NotWritten => Contents \cap Project(r) = {}
        /\ doing[r] \in Written => Project(r) \subseteq Contents

ScaffoldInv ==
    ScaffoldTyped /\ StagingInOrder /\ KeptIsThere /\ TargetInOrder /\ PhaseTells

\* Projects are of entries, none is empty, no two share a file, and none has the user's.
LEMMA ProjectsApart ==
    ASSUME NEW r \in Run
    PROVE  /\ Project(r) \subseteq Entry /\ Mine \notin Project(r)
           /\ Project(r) # {} /\ Project(r) # Missing
           /\ \A q \in Run : q # r => Project(q) \cap Project(r) = {}
<1>1. Project(r) \subseteq Entry
  BY DEF Project, Entry
<1>2. Mine \notin Project(r) /\ Project(r) # {}
  <2>1. \A f \in Template \cup {EnvFile} : <<r, f>> \in Run \X (Template \cup {EnvFile})
    OBVIOUS
  <2>2. \A f \in Template \cup {EnvFile} : <<r, f>> # Mine
    BY <2>1, ScaffoldAssumption
  <2> QED
    BY <2>2 DEF Project
<1>3. Project(r) # Missing
  <2>1. Project(r) \in SUBSET Entry
    BY <1>1
  <2> QED
    BY <2>1, ScaffoldAssumption
<1>4. \A q \in Run : q # r => Project(q) \cap Project(r) = {}
  BY DEF Project
<1> QED
  BY <1>1, <1>2, <1>3, <1>4

\* A run that goes on, while the contents of the target stay, and that claims no
\* more of them than it did.
LEMMA RunMoves ==
    ASSUME ScaffoldInv, NEW r \in Run, NEW phase \in RunPhase, Goes(r, phase),
           phase \in NotWritten => doing[r] \in NotWritten,
           phase \in Written => doing[r] \in Written,
           staging' \in [Run -> Directory],
           phase = "copying" => staging'[r] \subseteq Project(r),
           phase \in {"removing", "renaming"} => staging'[r] = Project(r),
           \A q \in Run : q # r => staging'[q] = staging[q],
           target' \in Directory, Contents' = Contents, UNCHANGED kept
    PROVE  ScaffoldInv'
<1>1. /\ doing'[r] = phase /\ doing' \in [Run -> RunPhase]
      /\ \A q \in Run : q # r => doing'[q] = doing[q]
  BY DEF ScaffoldInv, ScaffoldTyped, Goes
<1>2. ScaffoldTyped'
  BY <1>1 DEF ScaffoldInv, ScaffoldTyped
<1>3. StagingInOrder'
  BY <1>1 DEF ScaffoldInv, StagingInOrder, Does
<1>4. KeptIsThere' /\ TargetInOrder'
  BY DEF ScaffoldInv, KeptIsThere, TargetInOrder
<1>5. PhaseTells'
  BY <1>1 DEF ScaffoldInv, PhaseTells
<1> QED
  BY <1>2, <1>3, <1>4, <1>5 DEF ScaffoldInv

\* The rename: the target was empty or missing, so the user has nothing in it, no run
\* has written before, and the project is whole.
LEMMA RenameSafe ==
    ASSUME ScaffoldInv, NEW r \in Run, Does(r, "renaming"), EmptyOrMissing,
           target' = staging[r], Goes(r, "finishing"),
           staging' = [staging EXCEPT ![r] = Missing], UNCHANGED kept
    PROVE  ScaffoldInv'
<1>1. /\ doing'[r] = "finishing" /\ doing' \in [Run -> RunPhase]
      /\ \A q \in Run : q # r => doing'[q] = doing[q]
  BY DEF ScaffoldInv, ScaffoldTyped, Goes, RunPhase, Written
<1>2. target' = Project(r) /\ Contents' = Project(r)
  BY ProjectsApart DEF ScaffoldInv, StagingInOrder, Does, Contents
<1>3. Contents = {}
  BY DEF EmptyOrMissing, Contents
<1>4. \A q \in Run : q # r => doing[q] \notin Written
  BY <1>3, ProjectsApart DEF ScaffoldInv, PhaseTells
<1>5. ScaffoldTyped'
  BY <1>1, <1>2, ProjectsApart DEF ScaffoldInv, ScaffoldTyped, Directory
<1>6. StagingInOrder'
  BY <1>1 DEF ScaffoldInv, StagingInOrder, Does
<1>7. KeptIsThere' /\ TargetInOrder'
  BY <1>2, <1>3 DEF ScaffoldInv, KeptIsThere, TargetInOrder
<1>8. PhaseTells'
  BY <1>1, <1>2, <1>4, ProjectsApart DEF PhaseTells, NotWritten, Written
<1> QED
  BY <1>5, <1>6, <1>7, <1>8 DEF ScaffoldInv

\* The user's directory, or the user's file.
LEMMA UserSafe ==
    ASSUME ScaffoldInv, WorkInTarget
    PROVE  ScaffoldInv'
<1>1. {} # Missing /\ \A S \in SUBSET Entry : S # Missing
  BY ScaffoldAssumption
<1>2. CASE target = Missing
  <2>1. Contents' = Contents /\ target' = {} /\ UNCHANGED <<staging, doing, kept>>
    BY <1>1, <1>2 DEF WorkInTarget, Contents
  <2> QED
    BY <2>1 DEF ScaffoldInv, ScaffoldTyped, Directory, StagingInOrder, Does, KeptIsThere,
                TargetInOrder, PhaseTells
<1>3. CASE target # Missing
  <2>1. /\ target' = target \cup {Mine} /\ kept' = TRUE /\ UNCHANGED <<staging, doing>>
        /\ target' \in SUBSET Entry
    BY <1>3 DEF WorkInTarget, ScaffoldInv, ScaffoldTyped, Directory, Entry
  <2>2. Contents' = Contents \cup {Mine}
    BY <1>1, <1>3, <2>1 DEF Contents
  <2>3. ScaffoldTyped' /\ StagingInOrder' /\ KeptIsThere'
    BY <2>1, <2>2
       DEF ScaffoldInv, ScaffoldTyped, Directory, StagingInOrder, Does, KeptIsThere
  <2>4. TargetInOrder'
    BY <2>2 DEF ScaffoldInv, TargetInOrder
  <2>5. PhaseTells'
    BY <2>1, <2>2, ProjectsApart DEF ScaffoldInv, PhaseTells
  <2> QED
    BY <2>3, <2>4, <2>5 DEF ScaffoldInv
<1> QED
  BY <1>2, <1>3

\* Every step of runs and user keeps the invariant.
LEMMA ScaffoldNextSafe ==
    ASSUME ScaffoldInv, [ScaffoldNext]_scaffoldVars
    PROVE  ScaffoldInv'
<1> USE DEF Does, NotWritten, Written, RunPhase
<1>1. target \in Directory /\ Missing \in Directory /\ {} \in Directory
  BY DEF Directory, ScaffoldInv, ScaffoldTyped
<1>2. ASSUME NEW r \in Run, UNCHANGED <<target, staging, kept>>, NEW phase \in RunPhase,
             Goes(r, phase), phase \in NotWritten => doing[r] \in NotWritten,
             phase \in Written => doing[r] \in Written,
             phase \notin {"copying", "removing", "renaming"}
      PROVE  ScaffoldInv'
  <2>1. /\ Contents' = Contents /\ staging' \in [Run -> Directory]
        /\ \A q \in Run : staging'[q] = staging[q]
    BY <1>2 DEF Contents, ScaffoldInv, ScaffoldTyped
  <2> QED
    BY <1>1, <1>2, <2>1, RunMoves
<1>3. ASSUME NEW r \in Run, NEW a \in Arguments, RunCli(r, a)
      PROVE  ScaffoldInv'
  BY <1>2, <1>3 DEF RunCli
<1>4. ASSUME NEW r \in Run, TakeLock(r) \/ FailToCopy(r) \/ InstallGeneratedProject(r) \/ Kill(r)
      PROVE  ScaffoldInv'
  BY <1>2, <1>4 DEF TakeLock, FailToCopy, InstallGeneratedProject, Kill
<1>5. \A r \in Run : Project(r) \in SUBSET Entry
  BY ProjectsApart
<1>6. ASSUME NEW r \in Run, AssertSafeTarget(r) \/ CopyFile(r) \/ LookAtTarget(r)
      PROVE  ScaffoldInv'
  <2>1. Contents' = Contents /\ UNCHANGED <<target, kept>>
    BY <1>6 DEF AssertSafeTarget, CopyFile, LookAtTarget, Contents
  <2>2. staging \in [Run -> Directory]
    BY DEF ScaffoldInv, ScaffoldTyped
  <2>3. CASE AssertSafeTarget(r) /\ Goes(r, "failing") /\ UNCHANGED staging
    BY <1>2, <2>3 DEF AssertSafeTarget
  <2>4. CASE AssertSafeTarget(r) /\ Goes(r, "copying") /\ staging' = [staging EXCEPT ![r] = {}]
    BY <1>1, <2>1, <2>2, <2>4, RunMoves DEF AssertSafeTarget
  <2>5. CASE CopyFile(r)
    <3>1. PICK e \in Project(r) : staging' = [staging EXCEPT ![r] = staging[r] \cup {e}]
      BY <2>2, <2>5 DEF CopyFile
    <3>2. staging[r] \cup {e} \subseteq Project(r) /\ staging[r] \cup {e} \in Directory
      BY <1>5, <2>5, <3>1 DEF CopyFile, ScaffoldInv, StagingInOrder, Directory
    <3>3. Goes(r, "copying")
      BY <2>5 DEF CopyFile, ScaffoldInv, ScaffoldTyped, Goes
    <3>4. staging' \in [Run -> Directory] /\ staging'[r] \subseteq Project(r)
          /\ \A q \in Run : q # r => staging'[q] = staging[q]
      BY <2>2, <3>1, <3>2
    <3> QED
      BY <1>1, <2>1, <2>5, <3>3, <3>4, RunMoves DEF CopyFile
  <2>6. CASE LookAtTarget(r)
    BY <1>1, <2>1, <2>2, <2>6, RunMoves DEF LookAtTarget
  <2> QED
    BY <1>6, <2>3, <2>4, <2>5, <2>6 DEF AssertSafeTarget
<1>7. ASSUME NEW r \in Run, RemoveTarget(r)
      PROVE  ScaffoldInv'
  <2>1. CASE Goes(r, "failing") /\ UNCHANGED target
    BY <1>2, <1>7, <2>1 DEF RemoveTarget
  <2>2. CASE Rmdir /\ target' = Missing /\ Goes(r, "renaming")
    <3>1. Contents' = Contents
      BY <2>2 DEF Rmdir, EmptyOrMissing, Contents
    <3>2. staging[r] = Project(r) /\ staging \in [Run -> Directory]
      BY <1>7 DEF RemoveTarget, ScaffoldInv, ScaffoldTyped, StagingInOrder
    <3> QED
      BY <1>1, <1>7, <2>2, <3>1, <3>2, RunMoves DEF RemoveTarget
  <2> QED
    BY <1>7, <2>1, <2>2 DEF RemoveTarget
<1>8. ASSUME NEW r \in Run, RenameStaging(r)
      PROVE  ScaffoldInv'
  BY <1>2, <1>8, RenameSafe DEF RenameStaging
<1>9. ASSUME NEW r \in Run, CleanUp(r) \/ FailToCleanUp(r)
      PROVE  ScaffoldInv'
  <2>1. /\ Contents' = Contents /\ UNCHANGED <<target, kept>>
        /\ staging' \in [Run -> Directory]
        /\ \A q \in Run : q # r => staging'[q] = staging[q]
    BY <1>1, <1>9 DEF CleanUp, FailToCleanUp, Contents, ScaffoldInv, ScaffoldTyped
  <2> QED
    BY <1>1, <1>9, <2>1, RunMoves DEF CleanUp, FailToCleanUp
<1>10. CASE UNCHANGED scaffoldVars
  BY <1>10 DEF scaffoldVars, ScaffoldInv, ScaffoldTyped, StagingInOrder, KeptIsThere,
               TargetInOrder, PhaseTells, Contents
<1> QED
  BY <1>3, <1>4, <1>6, <1>7, <1>8, <1>9, <1>10, UserSafe DEF ScaffoldNext

\* No target, nobody at work.
LEMMA ScaffoldInitSafe == ScaffoldInit => ScaffoldInv
  BY ScaffoldAssumption
     DEF ScaffoldInit, ScaffoldInv, ScaffoldTyped, StagingInOrder, KeptIsThere, TargetInOrder,
         PhaseTells, Contents, Does, Directory, RunPhase, NotWritten, Written

\* The inductive invariant of the initializer.
THEOREM ScaffoldInvariant == ScaffoldSpec => []ScaffoldInv
  BY ScaffoldInitSafe, ScaffoldNextSafe, PTL DEF ScaffoldSpec

\* What the user has in the target stays, and a project is there as a whole and from
\* one run, for any number of runs, any template, and any kill, error or lost lock.
THEOREM TargetsStayWhole == ScaffoldSpec => []TargetStaysWhole
<1>1. ScaffoldInv => TargetStaysWhole
  <2> SUFFICES ASSUME ScaffoldInv, NEW r \in Run, Contents \cap Project(r) # {}
               PROVE  Project(r) \subseteq Contents /\ Contents \subseteq Project(r) \cup {Mine}
    BY DEF ScaffoldInv, KeptIsThere, TargetStaysWhole
  <2>1. ~(Contents \subseteq {Mine})
    BY ProjectsApart
  <2>2. PICK q \in Run : Project(q) \subseteq Contents /\ Contents \subseteq Project(q) \cup {Mine}
    BY <2>1 DEF ScaffoldInv, TargetInOrder
  <2>3. q = r
    BY <2>2, ProjectsApart
  <2> QED
    BY <2>2, <2>3
<1> QED
  BY <1>1, ScaffoldInvariant, PTL

\* Exit codes 0 and 1 mean that the run's own project is there, for good, and 3 that
\* nothing of the run is.
THEOREM ExitCodesAreTrue == ScaffoldSpec => []ExitTellsTheOutcome
<1>1. ScaffoldInv => ExitTellsTheOutcome
  BY DEF ScaffoldInv, PhaseTells, ExitTellsTheOutcome, Does, Written, NotWritten
<1> QED
  BY <1>1, ScaffoldInvariant, PTL

-----------------------------------------------------------------------------
(* Buyers with a budget.  The check of the budget and its charge are two   *)
(* steps, so what holds between them has to be kept: only the call at the  *)
(* head of the queue is at work.                                           *)

BuyerSteps ==
    {"idle", "queued", "asking", "signing", "paying", "replaying", "reported", "returned", "failed"}

BuyerTyped ==
    /\ step \in [Buyers -> BuyerSteps]
    /\ pending \in Seq(Call)
    /\ authorized \in Nat
    /\ DOMAIN amount = Buyers
    /\ DOMAIN options = Command
    /\ taken \in [Buyers -> Nat]

AtWork(b) == step[b] \in {"asking", "signing", "paying"}

OneCallAtWork == \A c \in Call : AtWork(c) => pending # <<>> /\ Head(pending) = c

\* the seller has seen nothing before the payment is sent
UnseenUntilPaid ==
    \A b \in Buyers :
        AtWork(b) \/ step[b] \in {"idle", "queued"} \/ b \in Proof => taken[b] = 0

Committed(b) == step[b] = "signing" \/ Signed(b)

WithinRequest ==
    \A b \in Buyers : Committed(b) =>
        /\ amount[b] \in Nat
        /\ b \in Call => amount[b] <= MaxPerRequest
        /\ b \in Command => amount[b] <= options[b].request

\* what has been signed was charged; what is being signed fits
WithinSession ==
    /\ IsFiniteSet(Units(Call))
    /\ Cardinality(Units(Call)) <= authorized
    /\ authorized <= MaxSession
    /\ \A c \in Call : step[c] = "signing" => authorized + amount[c] <= MaxSession

BuyerInv == BuyerTyped /\ OneCallAtWork /\ UnseenUntilPaid /\ WithinRequest /\ WithinSession

\* Fewer payments, fewer units.
LEMMA UnitsShrink ==
    ASSUME IsFiniteSet(Units(Call)),
           \A c \in Call : Signed(c)' => Signed(c) /\ amount'[c] = amount[c]
    PROVE  /\ IsFiniteSet(Units(Call)') /\ Cardinality(Units(Call)') \in Nat
           /\ Cardinality(Units(Call)') <= Cardinality(Units(Call))
<1>1. Units(Call)' \subseteq Units(Call)
  <2> SUFFICES ASSUME NEW u \in Units(Call)' PROVE u \in Units(Call)
    OBVIOUS
  <2>1. PICK c \in Call : Signed(c)' /\ u \in {c} \X (1 .. amount'[c])
    BY DEF Units
  <2>2. Signed(c) /\ u \in {c} \X (1 .. amount[c])
    BY <2>1
  <2> QED
    BY <2>2 DEF Units
<1> QED
  BY <1>1, FS_Subset, FS_CardinalityType

\* A payment adds its amount.
LEMMA UnitsGrow ==
    ASSUME IsFiniteSet(Units(Call)), NEW c \in Call, amount[c] \in Nat,
           UNCHANGED amount, \A d \in Call : d # c => Signed(d)' = Signed(d)
    PROVE  /\ IsFiniteSet(Units(Call)') /\ Cardinality(Units(Call)') \in Nat
           /\ Cardinality(Units(Call)') <= Cardinality(Units(Call)) + amount[c]
<1> DEFINE own == {c} \X (1 .. amount[c])
<1>1. IsFiniteSet(own) /\ Cardinality(own) = amount[c]
  <2>1. IsFiniteSet(1 .. amount[c]) /\ Cardinality(1 .. amount[c]) = amount[c]
    BY FS_Interval
  <2>2. IsFiniteSet({c}) /\ Cardinality({c}) = 1
    BY FS_Singleton
  <2>3. IsFiniteSet(own) /\ Cardinality(own) = Cardinality({c}) * Cardinality(1 .. amount[c])
    BY <2>1, <2>2, FS_Product
  <2> QED
    BY <2>1, <2>2, <2>3
<1>2. Units(Call)' \subseteq Units(Call) \cup own
  <2> SUFFICES ASSUME NEW u \in Units(Call)' PROVE u \in Units(Call) \cup own
    OBVIOUS
  <2>1. PICK d \in Call : Signed(d)' /\ u \in {d} \X (1 .. amount[d])
    BY DEF Units
  <2>2. CASE d = c
    BY <2>1, <2>2
  <2>3. CASE d # c
    BY <2>1, <2>3 DEF Units
  <2> QED
    BY <2>2, <2>3
<1> HIDE DEF own
<1>3. /\ IsFiniteSet(Units(Call) \cup own)
      /\ Cardinality(Units(Call) \cup own) =
           Cardinality(Units(Call)) + Cardinality(own) - Cardinality(Units(Call) \cap own)
  BY <1>1, FS_Union
<1>4. Cardinality(Units(Call)) \in Nat /\ Cardinality(Units(Call) \cap own) \in Nat
  BY FS_CardinalityType, FS_Intersection
<1>5. /\ IsFiniteSet(Units(Call)') /\ Cardinality(Units(Call)') \in Nat
      /\ Cardinality(Units(Call)') <= Cardinality(Units(Call) \cup own)
  BY <1>2, <1>3, FS_Subset, FS_CardinalityType
<1> QED
  BY <1>1, <1>3, <1>4, <1>5

\* The buyer's step after Moves.
LEMMA MovesOne ==
    ASSUME BuyerTyped, NEW b \in Buyers, NEW s \in BuyerSteps, Moves(b, s)
    PROVE  /\ step' \in [Buyers -> BuyerSteps] /\ step'[b] = s
           /\ \A c \in Buyers : c # b => step'[c] = step[c]
  BY DEF BuyerTyped, Moves

\* A buyer moves to a place where it has nothing more committed than it had, and
\* the call at work is at the head.
LEMMA BuyerMoves ==
    ASSUME BuyerInv, NEW b \in Buyers, NEW s \in BuyerSteps, Moves(b, s),
           pending' \in Seq(Call),
           \A c \in Call : AtWork(c)' => pending' # <<>> /\ Head(pending') = c,
           taken' \in [Buyers -> Nat], \A c \in Buyers : c # b => taken'[c] = taken[c],
           s \in {"idle", "queued", "asking", "signing", "paying"} \/ b \in Proof => taken'[b] = 0,
           s # "signing", Signed(b)' => Signed(b),
           DOMAIN options' = Command,
           b \in Command /\ Signed(b)' => options'[b] = options[b],
           \A p \in Command : p # b => options'[p] = options[p],
           UNCHANGED <<authorized, amount>>
    PROVE  BuyerInv'
<1>1. /\ step' \in [Buyers -> BuyerSteps] /\ step'[b] = s
      /\ \A c \in Buyers : c # b => step'[c] = step[c]
  BY MovesOne DEF BuyerInv
<1>2. BuyerTyped'
  BY <1>1 DEF BuyerInv, BuyerTyped
<1>3. OneCallAtWork'
  BY DEF OneCallAtWork
<1>4. UnseenUntilPaid'
  BY <1>1 DEF BuyerInv, UnseenUntilPaid, AtWork
<1>5. \A c \in Buyers : c # b => Signed(c)' = Signed(c)
  BY <1>1 DEF Signed
<1>6. WithinRequest'
  BY <1>1, <1>5, BuyerAssumption DEF BuyerInv, WithinRequest, Committed
<1>7. WithinSession'
  <2>1. \A c \in Call : c \in Buyers /\ (Signed(c)' => Signed(c))
    BY <1>5 DEF Buyers
  <2>2. /\ IsFiniteSet(Units(Call)') /\ Cardinality(Units(Call)') \in Nat
        /\ Cardinality(Units(Call)') <= Cardinality(Units(Call))
    BY <2>1, UnitsShrink DEF BuyerInv, WithinSession
  <2>3. Cardinality(Units(Call)) \in Nat
    BY FS_CardinalityType DEF BuyerInv, WithinSession
  <2>4. \A c \in Call : step'[c] = "signing" => step[c] = "signing"
    BY <1>1, <2>1
  <2> QED
    BY <2>2, <2>3, <2>4, BuyerAssumption DEF BuyerInv, BuyerTyped, WithinSession
<1> QED
  BY <1>2, <1>3, <1>4, <1>6, <1>7 DEF BuyerInv

\* A buyer that was at work ends, and if it is a call, the next one is at the head.
LEMMA LeavingKeepsOrder ==
    ASSUME BuyerInv, NEW b \in Buyers, NEW s \in BuyerSteps, Moves(b, s), Leaves(b), AtWork(b),
           s \notin {"asking", "signing", "paying"}
    PROVE  /\ pending' \in Seq(Call)
           /\ \A c \in Call : AtWork(c)' => pending' # <<>> /\ Head(pending') = c
<1>1. /\ step'[b] = s /\ \A c \in Buyers : c # b => step'[c] = step[c]
  BY MovesOne DEF BuyerInv
<1>2. \A c \in Call : c \in Buyers /\ (AtWork(c)' => c # b /\ AtWork(c))
  BY <1>1 DEF AtWork, Buyers
<1>3. CASE b \in Call
  <2>1. pending # <<>> /\ Head(pending) = b /\ pending \in Seq(Call)
    BY <1>3 DEF BuyerInv, BuyerTyped, OneCallAtWork
  <2>2. Tail(pending) \in Seq(Call)
    BY <2>1
  <2>3. \A c \in Call : ~AtWork(c)'
    BY <1>2, <2>1 DEF BuyerInv, OneCallAtWork
  <2> QED
    BY <1>3, <2>2, <2>3 DEF Leaves
<1>4. CASE b \notin Call
  BY <1>2, <1>4 DEF Leaves, BuyerInv, BuyerTyped, OneCallAtWork
<1> QED
  BY <1>3, <1>4

\* An offer within the limits: what the budget must still bear is the call's own.
LEMMA OfferSafe ==
    ASSUME BuyerInv, NEW b \in Buyers, Stands(b, "asking"), NEW o \in Offers, MayUse(b, o),
           amount' = [amount EXCEPT ![b] = o.amount], Moves(b, "signing"),
           UNCHANGED <<pending, authorized, options, taken>>
    PROVE  BuyerInv'
<1>1. /\ step' \in [Buyers -> BuyerSteps] /\ step'[b] = "signing"
      /\ \A c \in Buyers : c # b => step'[c] = step[c]
  BY MovesOne DEF BuyerInv, BuyerSteps
<1>2. /\ DOMAIN amount' = Buyers /\ amount'[b] = o.amount /\ o.amount \in Nat
      /\ \A c \in Buyers : c # b => amount'[c] = amount[c]
  BY BuyerAssumption DEF BuyerInv, BuyerTyped, Offers
<1>3. step[b] = "asking" /\ taken[b] = 0 /\ b \in Buyers
  BY DEF Stands, BuyerInv, UnseenUntilPaid, AtWork
<1>4. ~Signed(b)' /\ \A c \in Buyers : c # b => Signed(c)' = Signed(c)
  BY <1>1, <1>3 DEF Signed
<1>5. BuyerTyped'
  BY <1>1, <1>2 DEF BuyerInv, BuyerTyped
<1>6. \A c \in Call : c \in Buyers /\ AtWork(c)' = AtWork(c)
  BY <1>1, <1>3 DEF AtWork, Buyers
<1>7. OneCallAtWork'
  BY <1>6 DEF BuyerInv, OneCallAtWork
<1>8. UnseenUntilPaid'
  BY <1>1, <1>3 DEF BuyerInv, UnseenUntilPaid, AtWork
<1>9. WithinRequest'
  <2>1. /\ b \in Call => o.amount <= MaxPerRequest
        /\ b \in Command => o.amount <= options[b].request
    BY BuyerAssumption DEF MayUse
  <2> QED
    BY <1>1, <1>2, <1>4, <2>1 DEF BuyerInv, WithinRequest, Committed
<1>10. WithinSession'
  <2>1. \A c \in Call : Signed(c)' => Signed(c) /\ amount'[c] = amount[c]
    BY <1>2, <1>4, <1>6
  <2>2. /\ IsFiniteSet(Units(Call)') /\ Cardinality(Units(Call)') \in Nat
        /\ Cardinality(Units(Call)') <= Cardinality(Units(Call))
    BY <2>1, UnitsShrink DEF BuyerInv, WithinSession
  <2>3. Cardinality(Units(Call)) \in Nat
    BY FS_CardinalityType DEF BuyerInv, WithinSession
  <2>4. b \in Call => authorized + o.amount <= MaxSession
    BY BuyerAssumption DEF MayUse
  <2>5. \A c \in Call : step'[c] = "signing" => authorized + amount'[c] <= MaxSession
    BY <1>1, <1>2, <1>6, <2>4 DEF BuyerInv, WithinSession
  <2> QED
    BY <2>2, <2>3, <2>5, BuyerAssumption DEF BuyerInv, BuyerTyped, WithinSession
<1> QED
  BY <1>5, <1>7, <1>8, <1>9, <1>10 DEF BuyerInv

\* A payment is signed and charged: it is the only one that was to be.
LEMMA ChargeSafe ==
    ASSUME BuyerInv, NEW b \in Buyers, Stands(b, "signing"), Moves(b, "paying"),
           authorized' = authorized + (IF b \in Call THEN amount[b] ELSE 0),
           UNCHANGED <<pending, amount, options, taken>>
    PROVE  BuyerInv'
<1>1. /\ step' \in [Buyers -> BuyerSteps] /\ step'[b] = "paying"
      /\ \A c \in Buyers : c # b => step'[c] = step[c]
  BY MovesOne DEF BuyerInv, BuyerSteps
<1>2. step[b] = "signing" /\ taken[b] = 0 /\ amount[b] \in Nat
  BY DEF Stands, BuyerInv, UnseenUntilPaid, AtWork, WithinRequest, Committed
<1>3. \A c \in Buyers : c # b => Signed(c)' = Signed(c)
  BY <1>1 DEF Signed
<1>4. \A c \in Call : c \in Buyers /\ AtWork(c)' = AtWork(c)
  BY <1>1, <1>2 DEF AtWork, Buyers
<1>5. BuyerTyped'
  BY <1>1, <1>2 DEF BuyerInv, BuyerTyped
<1>6. OneCallAtWork'
  BY <1>4 DEF BuyerInv, OneCallAtWork
<1>7. UnseenUntilPaid'
  BY <1>1, <1>2 DEF BuyerInv, UnseenUntilPaid, AtWork
<1>8. WithinRequest'
  BY <1>1, <1>2, <1>3 DEF BuyerInv, WithinRequest, Committed
<1>9. IsFiniteSet(Units(Call)) /\ Cardinality(Units(Call)) \in Nat
      /\ Cardinality(Units(Call)) <= authorized /\ authorized \in Nat /\ authorized <= MaxSession
  BY FS_CardinalityType DEF BuyerInv, BuyerTyped, WithinSession
<1>10. CASE b \in Call
  <2>1. /\ IsFiniteSet(Units(Call)') /\ Cardinality(Units(Call)') \in Nat
        /\ Cardinality(Units(Call)') <= Cardinality(Units(Call)) + amount[b]
    BY <1>2, <1>3, <1>4, <1>9, <1>10, UnitsGrow
  <2>2. authorized' = authorized + amount[b] /\ authorized + amount[b] <= MaxSession
    BY <1>2, <1>10 DEF BuyerInv, WithinSession
  <2>3. \A c \in Call : step'[c] # "signing"
    <3> SUFFICES ASSUME NEW c \in Call, step'[c] = "signing" PROVE FALSE
      OBVIOUS
    <3>1. c # b /\ step[c] = "signing"
      BY <1>1, <1>4
    <3> QED
      BY <1>2, <1>10, <3>1 DEF BuyerInv, OneCallAtWork, AtWork
  <2>4. WithinSession'
    BY <1>2, <1>9, <2>1, <2>2, <2>3, BuyerAssumption DEF WithinSession
  <2> QED
    BY <1>5, <1>6, <1>7, <1>8, <2>4 DEF BuyerInv
<1>11. CASE b \notin Call
  <2>1. \A c \in Call : Signed(c)' => Signed(c) /\ amount'[c] = amount[c]
    BY <1>3, <1>4, <1>11
  <2>2. /\ IsFiniteSet(Units(Call)') /\ Cardinality(Units(Call)') \in Nat
        /\ Cardinality(Units(Call)') <= Cardinality(Units(Call))
    BY <1>9, <2>1, UnitsShrink
  <2>3. authorized' = authorized
    BY <1>9, <1>11
  <2>4. \A c \in Call : step'[c] = step[c]
    BY <1>1, <1>4, <1>11
  <2>5. WithinSession'
    BY <1>9, <2>2, <2>3, <2>4, BuyerAssumption DEF BuyerInv, WithinSession
  <2> QED
    BY <1>5, <1>6, <1>7, <1>8, <2>5 DEF BuyerInv
<1> QED
  BY <1>10, <1>11

\* Every step of a buyer keeps the invariant.
LEMMA BuyerNextSafe ==
    ASSUME BuyerInv, [BuyerNext]_buyerVars
    PROVE  BuyerInv'
<1> USE DEF Stands
<1>1. /\ BuyerTyped /\ pending \in Seq(Call) /\ taken \in [Buyers -> Nat]
      /\ DOMAIN options = Command
  BY DEF BuyerInv, BuyerTyped
<1>2. /\ \A c \in Call : c \in Buyers /\ c \notin Command /\ c \notin Proof
      /\ \A p \in Command : p \in Buyers /\ p \notin Call /\ p \notin Proof
      /\ \A q \in Proof : q \in Buyers /\ q \notin Call /\ q \notin Command
  BY BuyerAssumption DEF Buyers
<1>3. ASSUME NEW b \in Buyers, NEW s \in BuyerSteps, Moves(b, s), UNCHANGED pending,
             b \in Call => ~AtWork(b)'
      PROVE  /\ pending' \in Seq(Call)
             /\ \A c \in Call : AtWork(c)' => pending' # <<>> /\ Head(pending') = c
  BY <1>1, <1>2, <1>3, MovesOne DEF BuyerInv, OneCallAtWork, AtWork
<1>4. ASSUME NEW c \in Call, CallFetch(c)
      PROVE  BuyerInv'
  <2>1. /\ Moves(c, "queued") /\ pending' = Append(pending, c) /\ step[c] = "idle"
        /\ UNCHANGED <<authorized, amount, options, taken>>
    BY <1>4 DEF CallFetch
  <2>2. /\ step'[c] = "queued" /\ \A b \in Buyers : b # c => step'[b] = step[b]
    BY <1>1, <1>2, <2>1, MovesOne DEF BuyerSteps
  <2>3. pending' \in Seq(Call) /\ pending' # <<>>
        /\ (pending # <<>> => Head(pending') = Head(pending))
    BY <1>1, <2>1
  <2>4. \A d \in Call : AtWork(d)' => pending' # <<>> /\ Head(pending') = d
    BY <1>2, <2>2, <2>3 DEF BuyerInv, OneCallAtWork, AtWork
  <2>5. taken[c] = 0
    BY <1>2, <2>1 DEF BuyerInv, UnseenUntilPaid
  <2>6. ~Signed(c)'
    BY <2>1, <2>2, <2>5 DEF Signed
  <2> QED
    BY <1>1, <1>2, <2>1, <2>3, <2>4, <2>5, <2>6, BuyerMoves DEF BuyerSteps
<1>5. ASSUME NEW c \in Call, TakeTurn(c)
      PROVE  BuyerInv'
  <2>1. /\ Moves(c, "asking") /\ step[c] = "queued" /\ pending # <<>> /\ Head(pending) = c
        /\ UNCHANGED <<pending, authorized, amount, options, taken>>
    BY <1>5 DEF TakeTurn, IsTurnOf
  <2>2. /\ step'[c] = "asking" /\ \A b \in Buyers : b # c => step'[b] = step[b]
    BY <1>1, <1>2, <2>1, MovesOne DEF BuyerSteps
  <2>3. \A d \in Call : AtWork(d)' => pending' # <<>> /\ Head(pending') = d
    BY <1>2, <2>1, <2>2 DEF BuyerInv, OneCallAtWork, AtWork
  <2>4. taken[c] = 0
    BY <1>2, <2>1 DEF BuyerInv, UnseenUntilPaid
  <2>5. ~Signed(c)'
    BY <2>1, <2>2, <2>4 DEF Signed
  <2> QED
    BY <1>1, <1>2, <2>1, <2>3, <2>4, <2>5, BuyerMoves DEF BuyerSteps
<1>6. ASSUME NEW p \in Command, NEW o \in Option, StartCommand(p, o)
      PROVE  BuyerInv'
  <2>1. PICK s \in {"failed", "asking"} : Moves(p, s)
    BY <1>6 DEF StartCommand, ReadKeypairFile
  <2>2. /\ options' = [options EXCEPT ![p] = o] /\ step[p] = "idle"
        /\ UNCHANGED <<pending, authorized, amount, taken>>
    BY <1>6 DEF StartCommand
  <2>3. step'[p] = s
    BY <1>1, <1>2, <2>1, MovesOne DEF BuyerSteps
  <2>4. taken[p] = 0
    BY <1>2, <2>2 DEF BuyerInv, UnseenUntilPaid
  <2>5. ~Signed(p)'
    BY <2>2, <2>3, <2>4 DEF Signed
  <2>6. DOMAIN options' = Command /\ \A x \in Command : x # p => options'[x] = options[x]
    BY <1>1, <2>2
  <2> QED
    BY <1>1, <1>2, <1>3, <2>1, <2>2, <2>4, <2>5, <2>6, BuyerMoves DEF BuyerSteps
<1>7. ASSUME NEW q \in Proof, StartProof(q) \/ CaptureProof(q)
      PROVE  BuyerInv'
  <2>1. PICK s \in {"asking", "returned"} : Moves(q, s)
    BY <1>7 DEF StartProof, CaptureProof
  <2>2. UNCHANGED <<pending, authorized, amount, options, taken>>
    BY <1>7 DEF StartProof, CaptureProof
  <2>3. step'[q] = s
    BY <1>1, <1>2, <2>1, MovesOne DEF BuyerSteps
  <2>4. taken[q] = 0
    BY <1>2 DEF BuyerInv, UnseenUntilPaid
  <2>5. ~Signed(q)'
    BY <2>2, <2>3, <2>4 DEF Signed
  <2> QED
    BY <1>1, <1>2, <1>3, <2>1, <2>2, <2>4, <2>5, BuyerMoves DEF BuyerSteps
<1>8. ASSUME NEW b \in Buyers, AtWork(b), NEW s \in {"returned", "failed"}, Moves(b, s), Leaves(b),
             step[b] \in {"asking", "signing"}, UNCHANGED <<authorized, amount, options, taken>>
      PROVE  BuyerInv'
  <2>1. /\ pending' \in Seq(Call)
        /\ \A c \in Call : AtWork(c)' => pending' # <<>> /\ Head(pending') = c
    BY <1>8, LeavingKeepsOrder DEF BuyerSteps
  <2>2. step'[b] = s
    BY <1>1, <1>8, MovesOne DEF BuyerSteps
  <2>3. taken[b] = 0
    BY <1>8 DEF BuyerInv, UnseenUntilPaid
  <2>4. ~Signed(b)'
    BY <1>8, <2>2, <2>3 DEF Signed
  <2> QED
    BY <1>1, <1>8, <2>1, <2>3, <2>4, BuyerMoves DEF BuyerSteps
<1>9. ASSUME NEW b \in Buyers, NEW o \in Offers, NEW u \in Resources, SelectOffer(b, o, u)
      PROVE  BuyerInv'
  <2>1. AtWork(b) /\ step[b] = "asking"
    BY <1>9 DEF SelectOffer, AtWork
  <2>2. CASE Moves(b, "failed") /\ Leaves(b) /\ UNCHANGED amount
    BY <1>8, <1>9, <2>1, <2>2 DEF SelectOffer
  <2>3. CASE /\ MayUse(b, o) /\ amount' = [amount EXCEPT ![b] = o.amount]
             /\ Moves(b, "signing") /\ UNCHANGED pending
    BY <1>9, <2>3, OfferSafe DEF SelectOffer
  <2> QED
    BY <1>9, <2>2, <2>3 DEF SelectOffer
<1>10. ASSUME NEW b \in Buyers, AnswerUnpaid(b)
       PROVE  BuyerInv'
  <2>1. PICK s \in {"returned", "failed"} : Moves(b, s)
    BY <1>10 DEF AnswerUnpaid
  <2> QED
    BY <1>8, <1>10, <2>1 DEF AnswerUnpaid, AtWork
<1>11. ASSUME NEW b \in Buyers, CreatePayment(b)
       PROVE  BuyerInv'
  <2>1. AtWork(b) /\ step[b] = "signing"
    BY <1>11 DEF CreatePayment, AtWork
  <2>2. CASE Moves(b, "failed") /\ Leaves(b) /\ UNCHANGED authorized
    BY <1>8, <1>11, <2>1, <2>2 DEF CreatePayment
  <2>3. CASE /\ Moves(b, "paying") /\ UNCHANGED pending
             /\ authorized' = authorized + (IF b \in Call THEN amount[b] ELSE 0)
    BY <1>11, <2>3, ChargeSafe DEF CreatePayment
  <2> QED
    BY <1>11, <2>2, <2>3 DEF CreatePayment
<1>12. ASSUME NEW b \in Buyers, ResendPaid(b)
       PROVE  BuyerInv'
  <2>1. PICK s \in {"returned", "failed", "replaying", "reported"} : Moves(b, s)
    BY <1>12 DEF ResendPaid, ParsePaymentResponse
  <2>2. /\ step[b] = "paying" /\ b \notin Proof /\ Leaves(b)
        /\ taken' \in {taken, [taken EXCEPT ![b] = @ + 1]}
        /\ UNCHANGED <<authorized, amount, options>>
    BY <1>12 DEF ResendPaid
  <2>3. /\ pending' \in Seq(Call)
        /\ \A c \in Call : AtWork(c)' => pending' # <<>> /\ Head(pending') = c
    BY <2>1, <2>2, LeavingKeepsOrder DEF BuyerSteps, AtWork
  <2>4. taken' \in [Buyers -> Nat] /\ \A c \in Buyers : c # b => taken'[c] = taken[c]
    BY <1>1, <2>2
  <2>5. Signed(b)
    BY <2>2 DEF Signed
  <2> QED
    BY <1>1, <2>1, <2>2, <2>3, <2>4, <2>5, BuyerMoves DEF BuyerSteps
<1>13. ASSUME NEW p \in Command, Replay(p)
       PROVE  BuyerInv'
  <2>1. PICK s \in {"failed", "reported"}, n \in {0, 1} :
           Moves(p, s) /\ taken' = [taken EXCEPT ![p] = @ + n]
    BY <1>13 DEF Replay
  <2>2. step[p] = "replaying" /\ UNCHANGED <<pending, authorized, amount, options>>
    BY <1>13 DEF Replay
  <2>3. taken' \in [Buyers -> Nat] /\ \A c \in Buyers : c # p => taken'[c] = taken[c]
    BY <1>1, <1>2, <2>1
  <2>4. Signed(p)
    BY <2>2 DEF Signed
  <2> QED
    BY <1>1, <1>2, <1>3, <2>1, <2>2, <2>3, <2>4, BuyerMoves DEF BuyerSteps
<1>14. CASE UNCHANGED buyerVars
  BY <1>14 DEF buyerVars, BuyerInv, BuyerTyped, OneCallAtWork, AtWork, UnseenUntilPaid, Signed,
               WithinRequest, Committed, WithinSession, Units
<1> QED
  BY <1>4, <1>5, <1>6, <1>7, <1>9, <1>10, <1>11, <1>12, <1>13, <1>14 DEF BuyerNext

\* Nothing is asked, signed or charged.
LEMMA BuyerInitSafe == BuyerInit => BuyerInv
<1> SUFFICES ASSUME BuyerInit PROVE BuyerInv
  OBVIOUS
<1>1. \A b \in Buyers : step[b] = "idle" /\ taken[b] = 0 /\ ~Signed(b) /\ ~AtWork(b)
  BY DEF BuyerInit, Signed, AtWork
<1>2. Units(Call) = {}
  BY <1>1 DEF Units, Buyers
<1>3. WithinSession
  BY <1>1, <1>2, FS_EmptySet, BuyerAssumption DEF BuyerInit, WithinSession, Buyers
<1>4. BuyerTyped
  BY DEF BuyerInit, BuyerTyped, BuyerSteps
<1> QED
  BY <1>1, <1>3, <1>4
     DEF BuyerInv, OneCallAtWork, UnseenUntilPaid, WithinRequest, Committed, Buyers

\* Any number of calls, of any amounts, on one client: the payments that were signed
\* stay within its session and request limits, a command's within its own, and a
\* captured proof never reaches the seller.
THEOREM SpendStays == BuyerSpec => []SpendStaysInBudget
<1>1. BuyerInv => SpendStaysInBudget
  <2> SUFFICES ASSUME BuyerInv PROVE SpendStaysInBudget
    OBVIOUS
  <2>1. Cardinality(Units(Call)) \in Nat
    BY FS_CardinalityType DEF BuyerInv, WithinSession
  <2> QED
    BY <2>1, BuyerAssumption
       DEF BuyerInv, BuyerTyped, WithinSession, WithinRequest, Committed, UnseenUntilPaid,
           SpendStaysInBudget, Buyers
<1>2. BuyerInv /\ [BuyerNext]_buyerVars => BuyerInv'
  BY BuyerNextSafe
<1> QED
  BY <1>1, <1>2, BuyerInitSafe, PTL DEF BuyerSpec

-----------------------------------------------------------------------------
(* The scout.  A claim belongs to the one call that is about to spend it,  *)
(* or is spent, or is lost with a call that failed: the exclusive creation *)
(* of its file is what keeps servers and calls apart.                      *)

Claim == Payload \cup PreviewScope

Place ==
    {"idle", "claiming", "fetching", "settling", "validating", "saving", "answered",
     "failing", "failed"}

ScoutTyped ==
    /\ calls \in [ToolCall -> [at : Place, of : Claim]]
    /\ published \in [Payload -> Nat]
    /\ given \in [PreviewScope -> Nat]

\* where a call has its claim and has not used it
Holding(call) == call.at = (IF call.of \in Payload THEN "saving" ELSE "fetching")

Used(k) == IF k \in Payload THEN published[k] ELSE given[k]

\* a payment is claimed after the chain was asked; a preview is never settled
ComesFromHere(call, onChain) ==
    /\ call.of \in Payload /\ call.at \in {"claiming", "saving"} => call.of \in onChain
    /\ call.of \in PreviewScope => call.at \notin {"settling", "validating", "saving"}

CallsInOrder == \A c \in ToolCall : ComesFromHere(calls[c], settled)

HeldIsUnused ==
    \A c \in ToolCall :
        Holding(calls[c]) => calls[c].of \in claims /\ Used(calls[c].of) = 0

HeldByOne ==
    \A c, d \in ToolCall :
        Holding(calls[c]) /\ Holding(calls[d]) /\ calls[c].of = calls[d].of => c = d

UsedOnce ==
    \A k \in Claim :
        /\ Used(k) <= 1
        /\ Used(k) = 1 => k \in claims /\ (k \in Payload => k \in settled)

ScoutInv == ScoutTyped /\ CallsInOrder /\ HeldIsUnused /\ HeldByOne /\ UsedOnce

\* The call's record after Goto.
LEMMA GotoMovesOne ==
    ASSUME ScoutTyped, NEW c \in ToolCall, NEW at, Goto(c, at)
    PROVE  calls' = [calls EXCEPT ![c] = [at |-> at, of |-> calls[c].of]]
<1>1. calls[c] \in [at : Place, of : Claim]
  BY DEF ScoutTyped
<1>2. [calls[c] EXCEPT !.at = at] = [at |-> at, of |-> calls[c].of]
  BY <1>1
<1> QED
  BY <1>2 DEF Goto

\* A call that moves to a place where it holds no claim, while chain and claims
\* only grow and nothing is handed out, breaks nothing.
LEMMA IdleMoveSafe ==
    ASSUME ScoutInv, NEW c \in ToolCall, NEW call \in [at : Place, of : Claim],
           calls' = [calls EXCEPT ![c] = call],
           ~Holding(call), ComesFromHere(call, settled'),
           settled \subseteq settled', claims \subseteq claims',
           UNCHANGED <<published, given>>
    PROVE  ScoutInv'
<1>1. /\ calls'[c] = call
      /\ \A d \in ToolCall : d # c => calls'[d] = calls[d]
      /\ calls' \in [ToolCall -> [at : Place, of : Claim]]
  BY DEF ScoutInv, ScoutTyped
<1>2. \A k : Used(k)' = Used(k)
  BY DEF Used
<1>3. ScoutTyped'
  BY <1>1 DEF ScoutInv, ScoutTyped
<1>4. CallsInOrder'
  BY <1>1 DEF ScoutInv, CallsInOrder, ComesFromHere
<1>5. HeldIsUnused' /\ HeldByOne'
  BY <1>1, <1>2 DEF ScoutInv, HeldIsUnused, HeldByOne, Used
<1>6. UsedOnce'
  BY <1>2 DEF ScoutInv, UsedOnce
<1> QED
  BY <1>3, <1>4, <1>5, <1>6 DEF ScoutInv

\* A claim that nobody had goes to the call that creates its file.
LEMMA ClaimSafe ==
    ASSUME ScoutInv, NEW c \in ToolCall, CallIs(c, "claiming"), Unclaimed(calls[c].of),
           claims' = claims \cup {calls[c].of},
           Goto(c, IF calls[c].of \in Payload THEN "saving" ELSE "fetching"),
           UNCHANGED <<settled, published, given>>
    PROVE  ScoutInv'
<1> DEFINE k == calls[c].of
           there == IF k \in Payload THEN "saving" ELSE "fetching"
<1>1. k \in Claim /\ k \notin claims
  BY DEF ScoutInv, ScoutTyped, Unclaimed
<1>2. /\ calls'[c] = [at |-> there, of |-> k]
      /\ \A d \in ToolCall : d # c => calls'[d] = calls[d]
      /\ calls' \in [ToolCall -> [at : Place, of : Claim]]
  BY <1>1, GotoMovesOne DEF ScoutInv, ScoutTyped, Place
<1>3. \A x : Used(x)' = Used(x)
  BY DEF Used
<1>4. Used(k) = 0
  <2>1. Used(k) \in Nat
    BY <1>1 DEF Used, Claim, ScoutInv, ScoutTyped
  <2> QED
    BY <1>1, <2>1 DEF ScoutInv, UsedOnce
<1>5. \A d \in ToolCall : Holding(calls[d]) => calls[d].of # k
  BY <1>1 DEF ScoutInv, HeldIsUnused
<1>6. ScoutTyped'
  BY <1>2 DEF ScoutInv, ScoutTyped
<1>7. CallsInOrder'
  <2>1. ComesFromHere(calls[c], settled)
    BY DEF ScoutInv, CallsInOrder
  <2>2. ComesFromHere(calls'[c], settled)
    BY <1>2, <2>1, ScoutAssumption DEF ComesFromHere, CallIs
  <2> QED
    BY <1>2, <2>2 DEF ScoutInv, CallsInOrder
<1>8. HeldIsUnused'
  BY <1>2, <1>3, <1>4 DEF ScoutInv, HeldIsUnused, Used
<1>9. HeldByOne'
  BY <1>2, <1>5 DEF ScoutInv, HeldByOne
<1>10. UsedOnce'
  BY <1>3 DEF ScoutInv, UsedOnce
<1> QED
  BY <1>6, <1>7, <1>8, <1>9, <1>10 DEF ScoutInv

\* What a claim was held for is handed out, and the claim is held no more.
LEMMA SpendSafe ==
    ASSUME ScoutInv, NEW c \in ToolCall, Holding(calls[c]), Goto(c, "answered"),
           \A k \in Claim : Used(k)' = IF k = calls[c].of THEN Used(k) + 1 ELSE Used(k),
           published' \in [Payload -> Nat], given' \in [PreviewScope -> Nat],
           UNCHANGED <<settled, claims>>
    PROVE  ScoutInv'
<1> DEFINE k == calls[c].of
<1>1. k \in Claim /\ k \in claims /\ Used(k) = 0 /\ (k \in Payload => k \in settled)
  BY DEF ScoutInv, ScoutTyped, HeldIsUnused, CallsInOrder, ComesFromHere, Holding
<1>2. /\ calls'[c] = [at |-> "answered", of |-> k]
      /\ \A d \in ToolCall : d # c => calls'[d] = calls[d]
      /\ calls' \in [ToolCall -> [at : Place, of : Claim]]
  BY <1>1, GotoMovesOne DEF ScoutInv, ScoutTyped, Place
<1>3. ~Holding(calls'[c])
  BY <1>2 DEF Holding
<1>4. \A d \in ToolCall : d # c /\ Holding(calls[d]) => calls[d].of # k
  BY DEF ScoutInv, HeldByOne
<1>5. ScoutTyped'
  BY <1>2 DEF ScoutTyped
<1>6. CallsInOrder'
  BY <1>2 DEF ScoutInv, CallsInOrder, ComesFromHere
<1>7. HeldIsUnused'
  <2> SUFFICES ASSUME NEW d \in ToolCall, Holding(calls'[d])
               PROVE  calls'[d].of \in claims' /\ Used(calls[d].of)' = 0 /\ calls'[d] = calls[d]
    BY DEF HeldIsUnused, Used
  <2>1. d # c /\ calls'[d] = calls[d] /\ calls[d].of \in Claim
    BY <1>2, <1>3 DEF ScoutInv, ScoutTyped
  <2> QED
    BY <1>4, <2>1 DEF ScoutInv, HeldIsUnused
<1>8. HeldByOne'
  BY <1>2, <1>3 DEF ScoutInv, HeldByOne
<1>9. UsedOnce'
  BY <1>1 DEF ScoutInv, UsedOnce
<1> QED
  BY <1>5, <1>6, <1>7, <1>8, <1>9 DEF ScoutInv

\* A call that goes to a place where it holds nothing.
LEMMA GotoSafe ==
    ASSUME ScoutInv, NEW c \in ToolCall, NEW at \in Place, Goto(c, at),
           at \notin {"claiming", "saving"} \/ calls[c].of \in settled',
           calls[c].of \in PreviewScope =>
               at \notin {"fetching", "settling", "validating", "saving"},
           calls[c].of \in Payload => at # "saving",
           settled \subseteq settled', claims \subseteq claims',
           UNCHANGED <<published, given>>
    PROVE  ScoutInv'
<1> DEFINE call == [at |-> at, of |-> calls[c].of]
<1>1. call \in [at : Place, of : Claim] /\ calls' = [calls EXCEPT ![c] = call]
  BY GotoMovesOne DEF ScoutInv, ScoutTyped
<1>2. ~Holding(call) /\ ComesFromHere(call, settled')
  BY <1>1 DEF Holding, ComesFromHere, Claim
<1> QED
  BY <1>1, <1>2, IdleMoveSafe

\* Every step of servers and buyer keeps the invariant.
LEMMA ScoutNextSafe ==
    ASSUME ScoutInv, [ScoutNext]_scoutVars
    PROVE  ScoutInv'
<1> USE DEF CallIs
<1>1. ASSUME NEW c \in ToolCall
      PROVE  calls[c] \in [at : Place, of : Claim] /\ ComesFromHere(calls[c], settled)
  BY DEF ScoutInv, ScoutTyped, CallsInOrder
<1>2. ASSUME NEW c \in ToolCall, NEW scope \in PreviewScope, AskPreview(c, scope)
      PROVE  ScoutInv'
  <2>1. [at |-> "claiming", of |-> scope] \in [at : Place, of : Claim]
    BY DEF Place, Claim
  <2>2. scope \notin Payload
    BY ScoutAssumption
  <2> QED
    BY <1>2, <2>1, <2>2, IdleMoveSafe DEF AskPreview, Holding, ComesFromHere
<1>3. ASSUME NEW c \in ToolCall, NEW p \in Payload, AskReport(c, p)
      PROVE  ScoutInv'
  <2>1. [at |-> "fetching", of |-> p] \in [at : Place, of : Claim]
    BY DEF Place, Claim
  <2> QED
    BY <1>3, <2>1, IdleMoveSafe DEF AskReport, Holding, ComesFromHere
<1>4. ASSUME NEW c \in ToolCall, ClaimOnce(c)
      PROVE  ScoutInv'
  <2>1. CASE Goto(c, "failing") /\ claims \subseteq claims'
    BY <1>4, <2>1, GotoSafe DEF ClaimOnce, Place
  <2>2. CASE /\ Unclaimed(calls[c].of)
             /\ claims' = claims \cup {calls[c].of}
             /\ Goto(c, IF calls[c].of \in Payload THEN "saving" ELSE "fetching")
    BY <1>4, <2>2, ClaimSafe DEF ClaimOnce
  <2> QED
    BY <1>4, <2>1, <2>2 DEF ClaimOnce
<1>5. ASSUME NEW c \in ToolCall, FetchProject(c)
      PROVE  ScoutInv'
  <2> DEFINE k == calls[c].of
  <2>1. PICK report \in BOOLEAN :
           IF k \in PreviewScope
             THEN /\ Goto(c, IF report THEN "answered" ELSE "failed")
                  /\ given' = [given EXCEPT ![k] = @ + (IF report THEN 1 ELSE 0)]
             ELSE Goto(c, IF report THEN "settling" ELSE "failed") /\ UNCHANGED given
    BY <1>5 DEF FetchProject
  <2>2. UNCHANGED <<settled, claims, published>> /\ calls[c].at = "fetching"
    BY <1>5 DEF FetchProject
  <2>3. CASE k \in PreviewScope /\ report
    <3>1. Holding(calls[c]) /\ k \notin Payload
      BY <2>2, <2>3, ScoutAssumption DEF Holding
    <3>2. given' = [given EXCEPT ![k] = @ + 1] /\ given \in [PreviewScope -> Nat]
      BY <2>1, <2>3 DEF ScoutInv, ScoutTyped
    <3>3. \A x \in Claim : Used(x)' = IF x = k THEN Used(x) + 1 ELSE Used(x)
      BY <2>2, <2>3, <3>1, <3>2 DEF Used, Claim
    <3>4. published' \in [Payload -> Nat] /\ given' \in [PreviewScope -> Nat]
      BY <2>2, <2>3, <3>2 DEF ScoutInv, ScoutTyped
    <3> QED
      BY <2>1, <2>2, <2>3, <3>1, <3>3, <3>4, SpendSafe
  <2>4. CASE k \in PreviewScope /\ ~report
    <3>1. given' = given
      BY <2>1, <2>4 DEF ScoutInv, ScoutTyped
    <3> QED
      BY <2>1, <2>2, <2>4, <3>1, GotoSafe DEF Place
  <2>5. CASE k \notin PreviewScope
    BY <2>1, <2>2, <2>5, GotoSafe DEF Place
  <2> QED
    BY <2>3, <2>4, <2>5
<1>6. ASSUME NEW c \in ToolCall, Settle(c)
      PROVE  ScoutInv'
  <2>1. calls[c].of \notin PreviewScope
    BY <1>1, <1>6 DEF Settle, ComesFromHere
  <2>2. settled \subseteq settled' /\ (Goto(c, "validating") \/ Goto(c, "failed"))
    BY <1>6 DEF Settle
  <2> QED
    BY <1>6, <2>1, <2>2, GotoSafe DEF Settle, Place
<1>7. ASSUME NEW c \in ToolCall, ValidateSettlement(c)
      PROVE  ScoutInv'
  <2>1. CASE Validated(calls[c].of) /\ Goto(c, "claiming")
    BY <1>7, <2>1, GotoSafe DEF ValidateSettlement, Validated, Place
  <2>2. CASE Goto(c, "failing")
    BY <1>7, <2>2, GotoSafe DEF ValidateSettlement, Place
  <2> QED
    BY <1>7, <2>1, <2>2 DEF ValidateSettlement
<1>8. ASSUME NEW c \in ToolCall, SavePublicReceipt(c)
      PROVE  ScoutInv'
  <2> DEFINE k == calls[c].of
  <2>1. k \in Payload /\ Holding(calls[c])
    BY <1>1, <1>8 DEF SavePublicReceipt, ComesFromHere, Claim, Holding
  <2>2. CASE Goto(c, "failing") /\ UNCHANGED published
    BY <1>8, <2>2, GotoSafe DEF SavePublicReceipt, Place
  <2>3. CASE published' = [published EXCEPT ![k] = @ + 1] /\ Goto(c, "answered")
    <3>1. published \in [Payload -> Nat] /\ given \in [PreviewScope -> Nat]
      BY DEF ScoutInv, ScoutTyped
    <3>2. UNCHANGED <<settled, claims, given>>
      BY <1>8 DEF SavePublicReceipt
    <3>3. \A x \in Claim : Used(x)' = IF x = k THEN Used(x) + 1 ELSE Used(x)
      BY <2>1, <2>3, <3>1, <3>2 DEF Used, Claim
    <3>4. published' \in [Payload -> Nat] /\ given' \in [PreviewScope -> Nat]
      BY <2>1, <2>3, <3>1, <3>2
    <3> QED
      BY <2>1, <2>3, <3>2, <3>3, <3>4, SpendSafe
  <2> QED
    BY <1>8, <2>2, <2>3 DEF SavePublicReceipt
<1>9. ASSUME NEW c \in ToolCall, Answer(c) \/ KillServer(c)
      PROVE  ScoutInv'
  <2>1. Goto(c, "failed") \/ Goto(c, "answered")
    BY <1>9 DEF Answer, KillServer
  <2> QED
    BY <1>9, <2>1, GotoSafe DEF Answer, KillServer, Place
<1>10. ASSUME NEW c \in ToolCall, calls' = [calls EXCEPT ![c] = Unused],
              UNCHANGED <<settled, claims, published, given>>
       PROVE  ScoutInv'
  <2>1. Unused \in [at : Place, of : Claim]
    BY ScoutAssumption DEF Unused, Place, Claim
  <2> QED
    BY <1>10, <2>1, IdleMoveSafe DEF Unused, Holding, ComesFromHere
<1>11. CASE ReplayPayload \/ EndPurchase
  BY <1>10, <1>11 DEF ReplayPayload, EndPurchase, OwnCalls
<1>12. CASE UNCHANGED <<calls, settled, claims, published, given>>
  BY <1>12 DEF ScoutInv, ScoutTyped, CallsInOrder, HeldIsUnused, HeldByOne, UsedOnce, Used
<1>13. CASE (\E expected \in BOOLEAN : RequestPayment(expected)) \/ UNCHANGED scoutVars
  BY <1>12, <1>13 DEF RequestPayment, scoutVars
<1> QED
  BY <1>2, <1>3, <1>4, <1>5, <1>6, <1>7, <1>8, <1>9, <1>11, <1>13 DEF ScoutNext

\* Nothing is claimed and nothing given.
LEMMA ScoutInitSafe == ScoutInit => ScoutInv
<1> SUFFICES ASSUME ScoutInit PROVE ScoutInv
  OBVIOUS
<1>1. Unused \in [at : Place, of : Claim] /\ ~Holding(Unused) /\ ComesFromHere(Unused, settled)
  BY ScoutAssumption DEF Unused, Place, Claim, Holding, ComesFromHere
<1>2. \A k \in Claim : Used(k) = 0
  BY DEF ScoutInit, Used, Claim
<1> QED
  BY <1>1, <1>2
     DEF ScoutInit, ScoutInv, ScoutTyped, CallsInOrder, HeldIsUnused, HeldByOne, UsedOnce

\* A payment has one receipt at most, for a transfer that is on the chain, and a
\* scope one preview: servers that race for a claim, replays and kills included.
THEOREM OneReceiptEach == ScoutSpec => []ReceiptsAreUnique
<1>1. ScoutInv => ReceiptsAreUnique
  <2> SUFFICES ASSUME ScoutInv PROVE ReceiptsAreUnique
    OBVIOUS
  <2>1. \A p \in Payload : published[p] <= 1 /\ (published[p] = 1 => p \in settled /\ p \in claims)
    BY DEF ScoutInv, UsedOnce, Used, Claim
  <2>2. \A s \in PreviewScope : given[s] <= 1
    BY ScoutAssumption DEF ScoutInv, UsedOnce, Used, Claim
  <2> QED
    BY <2>1, <2>2 DEF ReceiptsAreUnique
<1>2. ScoutInv /\ [ScoutNext]_scoutVars => ScoutInv'
  BY ScoutNextSafe
<1> QED
  BY <1>1, <1>2, ScoutInitSafe, PTL DEF ScoutSpec

-----------------------------------------------------------------------------
(* The payer's page.  The gateway has no row that the chain does not       *)
(* prove, and the page knows, by where its operation stands, what the      *)
(* gateway has.                                                            *)

Anyone == Visitors \cup {Nobody}

CreateSteps == {"creating", "signing", "opening", "recording"}
RevokeSteps == {"revoking", "signing revocation", "announcing", "closing", "recording close"}
PanelSteps == {"rest", "listing active", "listing revoked"} \cup CreateSteps \cup RevokeSteps

Panel ==
    [step : PanelSteps, grant : Grant \cup {NoGrant}, wallet : Anyone, session : Session,
     polls : Nat]

StatusLine == [word : {"", "active", "revoked"}, grant : Grant \cup {NoGrant}]

OnChain == [owner : Anyone, state : {"none", "opening", "open", "failed", "closing", "closed"}]

Row == [wallet : Anyone, status : {"none", "active", "revocation_pending", "revoked"}]

PageTyped ==
    /\ connection \in Anyone
    /\ session \in Session
    /\ DOMAIN signingIn = SignIn

PanelTyped ==
    /\ panel \in Panel
    /\ said \in StatusLine
    /\ ledger \in [Grant -> OnChain]
    /\ inGateway \in [Grant -> Row]

\* a row is of a grant that its wallet has opened; a revoked one is closed
RowsAreTrue ==
    \A g \in Grant :
        /\ inGateway[g].status # "none" =>
             inGateway[g].wallet = ledger[g].owner /\ ledger[g].state \in {"open", "closing", "closed"}
        /\ inGateway[g].status = "revoked" => ledger[g].state = "closed"

Knows(p) ==
    /\ p.step # "rest" => p.grant \in Grant
    /\ p.step \in {"creating", "signing"} => ledger[p.grant].state = "none"
    /\ p.step \in CreateSteps => inGateway[p.grant].status = "none"
    /\ p.step \in {"closing", "recording close", "listing active"} =>
         inGateway[p.grant].status # "none"
    /\ p.step = "listing revoked" => inGateway[p.grant].status = "revoked"

Stated(line) ==
    /\ line.word = "active" => line.grant \in Grant /\ inGateway[line.grant].status # "none"
    /\ line.word = "revoked" => line.grant \in Grant /\ inGateway[line.grant].status = "revoked"

PanelInv == PageTyped /\ PanelTyped /\ RowsAreTrue /\ Knows(panel) /\ Stated(said)

\* Polls are counted in the natural numbers.
LEMMA Successor == \A n \in Nat : n + 1 \in Nat
  OBVIOUS

\* An operation at rest and an empty line are well-formed.
LEMMA RestTyped == AtRest \in Panel /\ Silent \in StatusLine
<1>1. NoSession \in Session /\ "rest" \in PanelSteps /\ Nobody \in Anyone
  BY DEF Session, PanelSteps, Anyone
<1>2. AtRest \in Panel
  BY <1>1 DEF Panel, AtRest
<1> QED
  BY <1>2 DEF Silent, StatusLine

\* An operation at rest, and an empty status line, claim nothing.
LEMMA NothingKnown == Knows(AtRest) /\ Stated(Silent)
  BY DEF Knows, Stated, AtRest, Silent, CreateSteps

\* Chain and gateway stay: what the panel and the line know must be so.
LEMMA PanelMoves ==
    ASSUME PanelInv, PageTyped', UNCHANGED outsideVars,
           panel' \in Panel, Knows(panel'), said' \in StatusLine, Stated(said')
    PROVE  PanelInv'
<1>1. PanelTyped' /\ RowsAreTrue'
  BY DEF PanelInv, PanelTyped, RowsAreTrue, outsideVars
<1>2. Knows(panel)' /\ Stated(said)'
  BY DEF Knows, Stated, outsideVars
<1> QED
  BY <1>1, <1>2 DEF PanelInv

\* A grant changes on the chain: one the gateway has no row of, or by a transaction
\* that leaves its owner and does not undo a closing.
LEMMA ChainMoves ==
    ASSUME PanelInv, PageTyped', NEW g \in Grant, NEW e \in OnChain,
           ledger' = [ledger EXCEPT ![g] = e], UNCHANGED inGateway,
           \/ inGateway[g].status = "none"
           \/ /\ e.owner = ledger[g].owner /\ e.state \in {"open", "closing", "closed"}
              /\ ledger[g].state # "closed",
           panel' \in Panel, panel'.step \in {"creating", "signing"} => panel'.grant # g,
           Knows(panel'), said' \in StatusLine, Stated(said')
    PROVE  PanelInv'
<1>1. /\ ledger \in [Grant -> OnChain] /\ ledger' \in [Grant -> OnChain] /\ ledger'[g] = e
      /\ \A h \in Grant : h # g => ledger'[h] = ledger[h]
  BY DEF PanelInv, PanelTyped
<1>2. PanelTyped'
  BY <1>1 DEF PanelInv, PanelTyped
<1>3. RowsAreTrue'
  BY <1>1 DEF PanelInv, RowsAreTrue
<1>4. Knows(panel)'
  BY <1>1 DEF Knows
<1>5. Stated(said)'
  BY DEF Stated
<1> QED
  BY <1>2, <1>3, <1>4, <1>5 DEF PanelInv

\* The panel's grant gets a row that is true.
LEMMA GatewayMoves ==
    ASSUME PanelInv, PageTyped', NEW row \in Row, panel.grant \in Grant,
           inGateway' = [inGateway EXCEPT ![panel.grant] = row], UNCHANGED ledger,
           row.status # "none",
           row.wallet = ledger[panel.grant].owner,
           ledger[panel.grant].state \in {"open", "closing", "closed"},
           row.status = "revoked" => ledger[panel.grant].state = "closed",
           inGateway[panel.grant].status = "revoked" => row.status = "revoked",
           panel' \in Panel, Knows(panel)',
           said' \in {said, Silent}
    PROVE  PanelInv'
<1> DEFINE g == panel.grant
<1>1. /\ inGateway' \in [Grant -> Row] /\ inGateway'[g] = row
      /\ \A h \in Grant : h # g => inGateway'[h] = inGateway[h]
  BY DEF PanelInv, PanelTyped
<1>2. PanelTyped'
  BY <1>1, RestTyped DEF PanelInv, PanelTyped
<1>3. RowsAreTrue'
  BY <1>1 DEF PanelInv, RowsAreTrue
<1>4. Stated(said)'
  <2>1. CASE said' = Silent
    BY <2>1 DEF Stated, Silent
  <2>2. CASE said' = said
    BY <1>1, <2>2 DEF PanelInv, Stated
  <2> QED
    BY <2>1, <2>2
<1> QED
  BY <1>2, <1>3, <1>4 DEF PanelInv

\* Connecting and signing in keep the page's own types.
LEMMA PageStepTyped ==
    ASSUME PageTyped,
           \/ \E w \in Visitors : Connect(w)
           \/ \E x \in SignIn : Authenticate(x) \/ FailToAuthenticate(x)
           \/ UNCHANGED walletPageVars
    PROVE  PageTyped'
  BY DEF PageTyped, Connect, Authenticate, FailToAuthenticate, walletPageVars, Session, Anyone

\* A wallet's transaction is sent, is not, or is and nobody says so.
LEMMA SendSafe ==
    ASSUME PanelInv, NEW may \in BOOLEAN, NEW then \in OnChain, NEW next \in PanelSteps,
           panel.step \in {"signing", "signing revocation"}, SignAndSend(may, then, next),
           next \notin {"creating", "signing", "closing", "recording close", "listing active",
                        "listing revoked", "rest"},
           next \in CreateSteps => panel.step \in CreateSteps,
           \/ inGateway[panel.grant].status = "none"
           \/ may => /\ then.owner = ledger[panel.grant].owner
                     /\ then.state \in {"open", "closing", "closed"}
                     /\ ledger[panel.grant].state # "closed"
    PROVE  PanelInv'
<1>1. PageTyped' /\ panel.grant \in Grant /\ UNCHANGED <<inGateway>> /\ PanelTyped
  BY PageStepTyped DEF PanelInv, SignAndSend, Knows
<1>2. panel \in Panel /\ ledger \in [Grant -> OnChain]
  BY DEF PanelInv, PanelTyped
<1>3. CASE Onto(next) /\ UNCHANGED said /\ may /\ ledger' = [ledger EXCEPT ![panel.grant] = then]
  <2>1. panel' = [step |-> next, grant |-> panel.grant, wallet |-> panel.wallet,
                  session |-> panel.session, polls |-> 0]
    BY <1>3 DEF Onto
  <2>2. panel' \in Panel
    BY <1>2, <2>1 DEF Panel
  <2>3. Knows(panel')
    BY <1>1, <2>1 DEF PanelInv, Knows
  <2> QED
    BY <1>1, <1>3, <2>1, <2>2, <2>3, ChainMoves DEF PanelInv, PanelTyped
<1>4. CASE GiveUpWith(Silent) /\ UNCHANGED ledger
  BY <1>1, <1>4, RestTyped, NothingKnown, PanelMoves DEF GiveUpWith, outsideVars
<1>5. CASE GiveUpWith(Silent) /\ may /\ ledger' = [ledger EXCEPT ![panel.grant] = then]
  BY <1>1, <1>5, RestTyped, NothingKnown, ChainMoves DEF GiveUpWith, AtRest
<1> QED
  BY <1>3, <1>4, <1>5 DEF SignAndSend

\* The gateway is told, and accepts only what makes a true row; its answer may be lost.
LEMMA TellSafe ==
    ASSUME PanelInv, NEW accepts \in BOOLEAN,
           NEW status \in {"active", "revocation_pending", "revoked"},
           NEW next \in {"listing active", "closing", "listing revoked"},
           panel.step \in {"recording", "announcing", "recording close"},
           TellGateway(accepts, status, next),
           next = "listing revoked" => status = "revoked",
           accepts =>
             /\ panel.session.wallet = ledger[panel.grant].owner
             /\ ledger[panel.grant].state \in {"open", "closing", "closed"}
             /\ status = "revoked" => ledger[panel.grant].state = "closed"
             /\ inGateway[panel.grant].status = "revoked" => status = "revoked"
    PROVE  PanelInv'
<1>1. PageTyped' /\ panel.grant \in Grant /\ UNCHANGED ledger /\ PanelTyped
  BY PageStepTyped DEF PanelInv, TellGateway, Knows
<1>2. panel \in Panel /\ inGateway \in [Grant -> Row]
  BY DEF PanelInv, PanelTyped
<1>3. PICK row : row = [wallet |-> panel.session.wallet, status |-> status]
  OBVIOUS
<1>4. row \in Row /\ row.status = status /\ row.wallet = panel.session.wallet
  <2>1. panel.session \in Session
    BY <1>2 DEF Panel
  <2>2. NoSession.wallet = Nobody
    BY DEF NoSession
  <2>3. panel.session.wallet \in Anyone
    BY <2>1, <2>2 DEF Session, Anyone
  <2> QED
    BY <1>3, <2>3 DEF Row
<1>5. CASE Onto(next) /\ UNCHANGED said /\ accepts
           /\ inGateway' = [inGateway EXCEPT ![panel.grant] = row]
  <2>1. panel' = [step |-> next, grant |-> panel.grant, wallet |-> panel.wallet,
                  session |-> panel.session, polls |-> 0]
    BY <1>5 DEF Onto
  <2>2. panel' \in Panel
    BY <1>2, <2>1 DEF Panel, PanelSteps, RevokeSteps
  <2>3. inGateway'[panel.grant].status = status
    BY <1>1, <1>2, <1>4, <1>5
  <2>4. Knows(panel)'
    BY <1>1, <2>1, <2>3 DEF Knows, CreateSteps
  <2> QED
    BY <1>1, <1>4, <1>5, <2>2, <2>4, GatewayMoves
<1>6. CASE GiveUpWith(Silent) /\ UNCHANGED inGateway
  BY <1>1, <1>6, RestTyped, NothingKnown, PanelMoves DEF GiveUpWith, outsideVars
<1>7. CASE GiveUpWith(Silent) /\ accepts
           /\ inGateway' = [inGateway EXCEPT ![panel.grant] = row]
  <2>1. panel' = AtRest /\ said' = Silent /\ panel' \in Panel
    BY <1>7, RestTyped DEF GiveUpWith
  <2>2. Knows(panel)'
    BY <2>1 DEF Knows, AtRest, CreateSteps
  <2> QED
    BY <1>1, <1>4, <1>7, <2>1, <2>2, GatewayMoves
<1> QED
  BY <1>3, <1>5, <1>6, <1>7 DEF TellGateway, ResponseOk

\* Every step of page, chain and gateway keeps the invariant.
LEMMA PanelNextSafe ==
    ASSUME PanelInv, [PanelNext]_panelVars
    PROVE  PanelInv'
<1> USE DEF Working
<1>1. PanelTyped /\ PageTyped /\ panel \in Panel
  BY DEF PanelInv, PanelTyped
<1>2. ASSUME UNCHANGED <<panel, said, outsideVars>>, PageTyped'
      PROVE  PanelInv'
  BY <1>1, <1>2, PanelMoves DEF PanelInv, PanelTyped
<1>3. ASSUME UNCHANGED <<outsideVars>>, PageTyped', panel' = AtRest, said' = Silent
      PROVE  PanelInv'
  BY <1>1, <1>3, RestTyped, NothingKnown, PanelMoves DEF PanelInv
<1>4. ASSUME \/ \E w \in Visitors : ConnectPayer(w)
             \/ \E x \in SignIn : PayerSignedIn(x) \/ PayerNotSignedIn(x)
             \/ RefreshAllowances
             \/ \E s \in lists : AnswerList(s)
             \/ UNCHANGED panelVars
      PROVE  PanelInv'
  <2>1. UNCHANGED <<panel, said, outsideVars>>
    BY <1>4 DEF ConnectPayer, PayerSignedIn, PayerNotSignedIn, RefreshAllowances, AnswerList,
                panelVars, ownPanelVars
  <2>2. \/ \E w \in Visitors : Connect(w)
        \/ \E x \in SignIn : Authenticate(x) \/ FailToAuthenticate(x)
        \/ UNCHANGED walletPageVars
    BY <1>4 DEF ConnectPayer, PayerSignedIn, PayerNotSignedIn, RefreshAllowances, AnswerList,
                panelVars
  <2> QED
    BY <1>1, <1>2, <2>1, <2>2, PageStepTyped
<1>5. ASSUME UNCHANGED walletPageVars
      PROVE  PageTyped'
  BY <1>1, <1>5, PageStepTyped
<1>6. ASSUME NEW g \in Grant, SubmitAllowance(g) \/ RevokeAllowance(g)
      PROVE  PanelInv'
  <2>1. PICK phase \in {"creating", "revoking"} :
           Start(phase, g) /\ (phase = "creating" => ledger[g].state = "none")
    BY <1>6 DEF SubmitAllowance, RevokeAllowance
  <2>2. panel' = [step |-> phase, grant |-> g, wallet |-> connection, session |-> session,
                  polls |-> 0]
    BY <2>1 DEF Start
  <2>3. panel' \in Panel
    BY <1>1, <2>2 DEF Panel, PageTyped, PanelSteps, CreateSteps, RevokeSteps
  <2>4. inGateway[g].status \in {"none", "active", "revocation_pending", "revoked"}
        /\ (ledger[g].state = "none" => inGateway[g].status = "none")
    BY <1>1 DEF PanelInv, PanelTyped, RowsAreTrue, Row
  <2>5. Knows(panel')
    BY <2>1, <2>2, <2>4 DEF Knows, CreateSteps
  <2> QED
    BY <1>1, <1>5, <2>1, <2>3, <2>5, PanelMoves DEF Start, PanelInv, PanelTyped, outsideVars
<1>7. ASSUME GetLatestBlockhash
      PROVE  PanelInv'
  <2>1. PageTyped' /\ UNCHANGED outsideVars
    BY <1>5, <1>7 DEF GetLatestBlockhash
  <2>2. PICK next \in {"signing", "signing revocation"} :
           \/ Onto(next) /\ UNCHANGED said /\ (next = "signing" => panel.step = "creating")
           \/ GiveUpWith(Silent)
    BY <1>7 DEF GetLatestBlockhash
  <2>3. CASE Onto(next) /\ UNCHANGED said /\ (next = "signing" => panel.step = "creating")
    <3>1. panel' = [step |-> next, grant |-> panel.grant, wallet |-> panel.wallet,
                    session |-> panel.session, polls |-> 0]
      BY <2>3 DEF Onto
    <3>2. panel' \in Panel
      BY <1>1, <3>1 DEF Panel, PanelSteps, CreateSteps, RevokeSteps
    <3>3. Knows(panel')
      BY <1>7, <2>3, <3>1 DEF GetLatestBlockhash, PanelInv, Knows, CreateSteps
    <3> QED
      BY <1>1, <2>1, <2>3, <3>2, <3>3, PanelMoves DEF PanelInv, PanelTyped
  <2> QED
    BY <1>3, <2>1, <2>2, <2>3 DEF GiveUpWith
<1>8. ASSUME SendAllowance
      PROVE  PanelInv'
  <2>1. OpeningBy(panel.wallet) \in OnChain
    BY <1>1 DEF OpeningBy, OnChain, Panel
  <2>2. inGateway[panel.grant].status = "none"
    BY <1>8 DEF SendAllowance, PanelInv, Knows, CreateSteps
  <2> QED
    BY <1>8, <2>1, <2>2, SendSafe DEF SendAllowance, PanelSteps, CreateSteps
<1>9. ASSUME SendRevocation
      PROVE  PanelInv'
  <2> DEFINE may == ledger[panel.grant] = [owner |-> panel.wallet, state |-> "open"]
             then == ClosingBy(panel.wallet)
  <2>1. then \in OnChain
    BY <1>1 DEF ClosingBy, OnChain, Panel
  <2>2. may => /\ then.owner = ledger[panel.grant].owner /\ then.state = "closing"
               /\ ledger[panel.grant].state = "open"
    BY DEF ClosingBy
  <2>3. SignAndSend(may, then, "announcing") /\ panel.step = "signing revocation"
    BY <1>9 DEF SendRevocation
  <2> HIDE DEF may, then
  <2>4. PICK m \in BOOLEAN : m = (may = TRUE)
    OBVIOUS
  <2>5. SignAndSend(m, then, "announcing")
    BY <2>3, <2>4 DEF SignAndSend
  <2> QED
    BY <2>1, <2>2, <2>3, <2>4, <2>5, SendSafe DEF PanelSteps, RevokeSteps, CreateSteps
<1>10. ASSUME NEW g \in Grant, Finalize(g)
       PROVE  PanelInv'
  <2>1. ledger[g] \in OnChain /\ PageTyped' /\ UNCHANGED <<panel, said, inGateway>>
    BY <1>1, <1>5, <1>10 DEF Finalize, PanelTyped
  <2>2. PICK s \in {"open", "failed", "closed"} :
           /\ ledger' = [ledger EXCEPT ![g].state = s]
           /\ ledger[g].state \in {"opening", "closing"}
           /\ ledger[g].state = "closing" => s \in {"open", "closed"}
    BY <1>10 DEF Finalize
  <2>3. PICK e : e = [owner |-> ledger[g].owner, state |-> s]
    OBVIOUS
  <2>4. e \in OnChain /\ [ledger[g] EXCEPT !.state = s] = e
    BY <2>1, <2>3 DEF OnChain
  <2>5. ledger' = [ledger EXCEPT ![g] = e]
    BY <2>2, <2>4
  <2>6. inGateway[g].status = "none" \/ ledger[g].state = "closing"
    BY <2>2 DEF PanelInv, RowsAreTrue
  <2>7. panel.step \in {"creating", "signing"} => panel.grant # g
    BY <2>2 DEF PanelInv, Knows
  <2>8. e.owner = ledger[g].owner /\ (ledger[g].state = "closing" =>
            e.state \in {"open", "closing", "closed"} /\ ledger[g].state # "closed")
    BY <2>2, <2>3
  <2>9. /\ panel' \in Panel /\ Knows(panel') /\ Stated(said') /\ said' \in StatusLine
        /\ (panel'.step \in {"creating", "signing"} => panel'.grant # g)
    BY <1>1, <2>1, <2>7 DEF PanelInv, PanelTyped
  <2> QED
    BY <2>1, <2>4, <2>5, <2>6, <2>8, <2>9, ChainMoves
<1>11. ASSUME WaitForFinality
       PROVE  PanelInv'
  <2>1. PageTyped' /\ UNCHANGED outsideVars
    BY <1>5, <1>11 DEF WaitForFinality
  <2>2. PICK next \in {"recording", "recording close"} :
           \/ /\ Onto(next) /\ UNCHANGED said
              /\ panel.step = (IF next = "recording" THEN "opening" ELSE "closing")
           \/ panel' = [panel EXCEPT !.polls = panel.polls + 1] /\ UNCHANGED said
           \/ GiveUpWith(Silent)
    BY <1>11 DEF WaitForFinality
  <2>3. CASE Onto(next) /\ UNCHANGED said
             /\ panel.step = (IF next = "recording" THEN "opening" ELSE "closing")
    <3>1. panel' = [step |-> next, grant |-> panel.grant, wallet |-> panel.wallet,
                    session |-> panel.session, polls |-> 0]
      BY <2>3 DEF Onto
    <3>2. panel' \in Panel
      BY <1>1, <3>1 DEF Panel, PanelSteps, CreateSteps, RevokeSteps
    <3>3. Knows(panel')
      BY <2>3, <3>1 DEF PanelInv, Knows, CreateSteps
    <3> QED
      BY <1>1, <2>1, <2>3, <3>2, <3>3, PanelMoves DEF PanelInv, PanelTyped
  <2>4. CASE panel' = [panel EXCEPT !.polls = panel.polls + 1] /\ UNCHANGED said
    <3>1. panel' = [step |-> panel.step, grant |-> panel.grant, wallet |-> panel.wallet,
                    session |-> panel.session, polls |-> panel.polls + 1]
      BY <1>1, <2>4 DEF Panel
    <3>2. panel' \in Panel
      <4>1. /\ panel.step \in PanelSteps /\ panel.grant \in Grant \cup {NoGrant}
            /\ panel.wallet \in Anyone /\ panel.session \in Session
        BY <1>1 DEF Panel
      <4>2. panel.polls \in Nat
        BY <1>1 DEF Panel
      <4> QED
        BY <3>1, <4>1, <4>2, Successor DEF Panel
    <3>3. Knows(panel')
      BY <3>1 DEF PanelInv, Knows
    <3> QED
      BY <1>1, <2>1, <2>4, <3>2, <3>3, PanelMoves DEF PanelInv, PanelTyped
  <2> QED
    BY <1>3, <2>1, <2>2, <2>3, <2>4 DEF GiveUpWith
<1>12. ASSUME panel.step \in {"recording", "announcing", "recording close"}
       PROVE  inGateway[panel.grant] \in Row /\ panel.grant \in Grant
  BY <1>1, <1>12 DEF PanelInv, PanelTyped, Knows
<1>13. ASSUME RecordAllowance
       PROVE  PanelInv'
  <2> DEFINE accepts == CreationIsProven(panel.session, panel.grant)
  <2>1. accepts \in BOOLEAN
    BY DEF CreationIsProven
  <2>2. inGateway[panel.grant].status = "none"
    BY <1>13 DEF RecordAllowance, PanelInv, Knows, CreateSteps
  <2>3. accepts => /\ panel.session.wallet = ledger[panel.grant].owner
                   /\ ledger[panel.grant].state \in {"open", "closing", "closed"}
    BY DEF CreationIsProven
  <2>4. TellGateway(accepts, "active", "listing active") /\ panel.step = "recording"
    BY <1>13 DEF RecordAllowance
  <2> HIDE DEF accepts
  <2> QED
    BY <2>1, <2>2, <2>3, <2>4, TellSafe
<1>14. ASSUME AnnounceRevocation
       PROVE  PanelInv'
  <2> DEFINE accepts == MayAnnounce(panel.session, panel.grant)
  <2>1. accepts \in BOOLEAN
    BY DEF MayAnnounce
  <2>2. accepts => /\ panel.session.wallet = ledger[panel.grant].owner
                   /\ ledger[panel.grant].state \in {"open", "closing", "closed"}
                   /\ inGateway[panel.grant].status # "revoked"
    BY <1>12, <1>14 DEF MayAnnounce, AnnounceRevocation, PanelInv, RowsAreTrue
  <2>3. TellGateway(accepts, "revocation_pending", "closing") /\ panel.step = "announcing"
    BY <1>14 DEF AnnounceRevocation
  <2> HIDE DEF accepts
  <2> QED
    BY <2>1, <2>2, <2>3, TellSafe
<1>15. ASSUME RecordRevocation
       PROVE  PanelInv'
  <2> DEFINE accepts == RevocationIsProven(panel.session, panel.grant)
  <2>1. accepts \in BOOLEAN
    BY DEF RevocationIsProven
  <2>2. accepts => /\ panel.session.wallet = ledger[panel.grant].owner
                   /\ ledger[panel.grant].state = "closed"
    BY <1>12, <1>15 DEF RevocationIsProven, RecordRevocation, PanelInv, RowsAreTrue, Knows
  <2>3. TellGateway(accepts, "revoked", "listing revoked") /\ panel.step = "recording close"
    BY <1>15 DEF RecordRevocation
  <2> HIDE DEF accepts
  <2> QED
    BY <2>1, <2>2, <2>3, TellSafe
<1>16. ASSUME Conclude
       PROVE  PanelInv'
  <2>1. PageTyped' /\ UNCHANGED outsideVars
    BY <1>5, <1>16 DEF Conclude
  <2>2. CASE GiveUpWith([word |-> IF Working("listing active") THEN "active" ELSE "revoked",
                         grant |-> panel.grant])
    <3>1. PICK line : line = [word |-> IF Working("listing active") THEN "active" ELSE "revoked",
                              grant |-> panel.grant]
      OBVIOUS
    <3>2. line \in StatusLine /\ Stated(line)
      BY <1>1, <1>16, <3>1 DEF Conclude, Panel, PanelInv, Knows, Stated, StatusLine
    <3> QED
      BY <1>1, <2>1, <2>2, <3>1, <3>2, RestTyped, NothingKnown, PanelMoves DEF GiveUpWith
  <2> QED
    BY <1>3, <1>16, <2>1, <2>2 DEF Conclude, GiveUpWith
<1>17. ASSUME Reload
       PROVE  PanelInv'
  <2>1. PageTyped'
    BY <1>17 DEF Reload, PageTyped, Anyone, Session
  <2> QED
    BY <1>3, <1>17, <2>1 DEF Reload
<1> QED
  BY <1>4, <1>6, <1>7, <1>8, <1>9, <1>10, <1>11, <1>13, <1>14, <1>15, <1>16, <1>17 DEF PanelNext

\* No operation, no grant on the chain and no row.
LEMMA PanelInitSafe == PanelInit => PanelInv
<1> SUFFICES ASSUME PanelInit PROVE PanelInv
  OBVIOUS
<1>1. PageTyped
  BY DEF PanelInit, WalletPageInit, PageTyped, Anyone, Session
<1>2. [owner |-> Nobody, state |-> "none"] \in OnChain
      /\ [wallet |-> Nobody, status |-> "none"] \in Row
  BY DEF OnChain, Row, Anyone
<1>3. PanelTyped
  BY <1>2, RestTyped DEF PanelInit, PanelTyped
<1>4. RowsAreTrue
  BY DEF PanelInit, RowsAreTrue
<1> QED
  BY <1>1, <1>3, <1>4, NothingKnown DEF PanelInit, PanelInv

\* The status line says active or revoked of what is so on the chain and, under the
\* owner's wallet, in the gateway: for any wallets, sign-ins, grants and attempts.
THEOREM StatusLineIsTrue == PanelSpec => []StatusTellsTheOutcome
<1>1. PanelInv => StatusTellsTheOutcome
  BY DEF PanelInv, RowsAreTrue, Stated, StatusTellsTheOutcome
<1>2. PanelInv /\ [PanelNext]_panelVars => PanelInv'
  BY PanelNextSafe
<1> QED
  BY <1>1, <1>2, PanelInitSafe, PTL DEF PanelSpec

-----------------------------------------------------------------------------
(* The dashboard.  Every read takes a number of its own and only the latest *)
(* counts; the page is safe because an answer uses its number up.          *)

\* a read, whatever session it was asked for
IsRead(r) ==
    /\ r = [number |-> r.number, session |-> r.session, timed |-> r.timed,
            aborted |-> r.aborted]
    /\ r.number \in Nat

ReadsAreNumbered ==
    /\ refreshSequence \in Nat /\ page.number \in Nat /\ pageError \in Nat
    /\ \A r \in reads : IsRead(r) /\ r.number <= refreshSequence
    /\ \A q, r \in reads : q.number = r.number => q = r

AnsweredIsUsed ==
    /\ page.number <= refreshSequence
    /\ \A r \in reads : r.number # page.number
    /\ pageError \notin 1 .. page.number

DashboardInv == ReadsAreNumbered /\ AnsweredIsUsed

\* a step that leaves what the page shows
Asks ==
    /\ UNCHANGED <<page, pageError>>
    /\ refreshSequence' \in Nat /\ refreshSequence <= refreshSequence'
    /\ \A r \in reads' :
         /\ IsRead(r) /\ r.number <= refreshSequence'
         /\ r.number > refreshSequence \/ \E q \in reads : q.number = r.number
    /\ \A q, r \in reads' : q.number = r.number => q = r

LEMMA AsksSafe ==
    ASSUME DashboardInv, Asks
    PROVE  DashboardInv'
<1>1. ReadsAreNumbered'
  BY DEF DashboardInv, Asks, ReadsAreNumbered, IsRead
<1>2. AnsweredIsUsed'
  BY DEF DashboardInv, Asks, ReadsAreNumbered, AnsweredIsUsed, IsRead
<1> QED
  BY <1>1, <1>2 DEF DashboardInv

\* Aborting the reads of the timer keeps their numbers.
LEMMA AbortKeepsNumbers ==
    ASSUME ReadsAreNumbered
    PROVE  /\ \A r \in AbortTimed : /\ IsRead(r)
                                    /\ \E q \in reads : q.number = r.number
           /\ \A q, r \in AbortTimed : q.number = r.number => q = r
<1>1. ASSUME NEW q \in reads
      PROVE  /\ IsRead([q EXCEPT !.aborted = q.timed])
             /\ [q EXCEPT !.aborted = q.timed].number = q.number
  <2>1. q = [number |-> q.number, session |-> q.session, timed |-> q.timed,
             aborted |-> q.aborted] /\ q.number \in Nat
    BY DEF ReadsAreNumbered, IsRead
  <2>2. [q EXCEPT !.aborted = q.timed] =
          [number |-> q.number, session |-> q.session, timed |-> q.timed, aborted |-> q.timed]
    BY <2>1
  <2> QED
    BY <2>1, <2>2 DEF IsRead
<1>2. ASSUME NEW r \in AbortTimed
      PROVE  IsRead(r) /\ \E q \in reads : q.number = r.number
  BY <1>1 DEF AbortTimed
<1>3. ASSUME NEW q \in AbortTimed, NEW r \in AbortTimed, q.number = r.number PROVE q = r
  <2> PICK a \in reads : q = [a EXCEPT !.aborted = a.timed]
    BY DEF AbortTimed
  <2> PICK b \in reads : r = [b EXCEPT !.aborted = b.timed]
    BY DEF AbortTimed
  <2>1. a.number = b.number
    BY <1>1, <1>3
  <2> QED
    BY <2>1 DEF ReadsAreNumbered
<1> QED
  BY <1>2, <1>3

\* A read with a new number joins those that are there, aborted or not.
LEMMA NewReadAsks ==
    ASSUME DashboardInv, NEW old, old \in {reads, AbortTimed},
           NEW n \in Nat, n > refreshSequence, refreshSequence' = n,
           NEW of, NEW timed, reads' = old \cup {Read(n, of, timed)},
           UNCHANGED <<page, pageError>>
    PROVE  Asks
<1> DEFINE new == Read(n, of, timed)
<1>1. IsRead(new) /\ new.number = n
  BY DEF Read, IsRead
<1>2. /\ \A r \in old : IsRead(r) /\ \E q \in reads : q.number = r.number
      /\ \A q, r \in old : q.number = r.number => q = r
  BY AbortKeepsNumbers DEF DashboardInv, ReadsAreNumbered
<1>3. \A r \in old : r.number \in Nat /\ r.number <= refreshSequence
  BY <1>2 DEF DashboardInv, ReadsAreNumbered, IsRead
<1> HIDE DEF new
<1>4. refreshSequence \in Nat
  BY DEF DashboardInv, ReadsAreNumbered
<1>5. reads' = old \cup {new}
  BY DEF new
<1>6. \A q, r \in reads' : q.number = r.number => q = r
  BY <1>1, <1>2, <1>3, <1>4, <1>5
<1>7. \A r \in reads' : /\ IsRead(r) /\ r.number <= refreshSequence'
                        /\ r.number > refreshSequence \/ \E q \in reads : q.number = r.number
  BY <1>1, <1>2, <1>3, <1>4, <1>5
<1> QED
  BY <1>4, <1>6, <1>7 DEF Asks

\* An answer counts only for the latest number, which the page has not shown.
LEMMA AnswerReadSafe ==
    ASSUME DashboardInv, NEW r \in reads, AnswerRead(r)
    PROVE  DashboardInv' /\ page'.number >= page.number
<1>1. reads' = reads \ {r} /\ refreshSequence' = refreshSequence
  BY DEF AnswerRead
<1>2. r.number \in Nat /\ \A q \in reads' : q.number # r.number
  BY <1>1 DEF DashboardInv, ReadsAreNumbered, IsRead
<1>3. \/ UNCHANGED <<page, pageError>>
      \/ page' = r /\ pageError' = 0 /\ r.number = refreshSequence
      \/ page' = page /\ pageError' = r.number /\ r.number = refreshSequence
  BY DEF AnswerRead, Counts
<1>4. ReadsAreNumbered'
  BY <1>1, <1>2, <1>3 DEF DashboardInv, ReadsAreNumbered, IsRead
<1>5. AnsweredIsUsed' /\ page'.number >= page.number
  <2>1. r.number # page.number /\ page.number \in Nat /\ refreshSequence \in Nat
        /\ page.number <= refreshSequence
    BY DEF DashboardInv, ReadsAreNumbered, AnsweredIsUsed
  <2>2. CASE UNCHANGED <<page, pageError>>
    BY <1>1, <2>1, <2>2 DEF DashboardInv, AnsweredIsUsed
  <2>3. CASE page' = r /\ pageError' = 0 /\ r.number = refreshSequence
    BY <1>1, <1>2, <2>1, <2>3 DEF DashboardInv, AnsweredIsUsed
  <2>4. CASE page' = page /\ pageError' = r.number /\ r.number = refreshSequence
    BY <1>1, <1>2, <2>1, <2>4 DEF DashboardInv, AnsweredIsUsed
  <2> QED
    BY <1>3, <2>2, <2>3, <2>4
<1> QED
  BY <1>4, <1>5 DEF DashboardInv

\* The first read is asked when the page loads.
LEMMA DashboardInitSafe == DashboardInit => DashboardInv
<1> SUFFICES ASSUME DashboardInit PROVE DashboardInv
  OBVIOUS
<1> DEFINE first == Read(1, NoSession, TRUE)
<1>1. first.number = 1 /\ IsRead(first)
  BY DEF Read, IsRead
<1>2. /\ refreshSequence = 1 /\ page.number = 0 /\ pageError = 0
      /\ reads = {first}
  BY DEF DashboardInit, Read
<1> HIDE DEF first
<1>3. ReadsAreNumbered
  BY <1>1, <1>2 DEF ReadsAreNumbered
<1>4. AnsweredIsUsed
  BY <1>1, <1>2 DEF AnsweredIsUsed
<1> QED
  BY <1>3, <1>4 DEF DashboardInv

\* Every step either asks, or answers a read.
LEMMA DashboardNextSafe ==
    DashboardInv /\ [DashboardNext]_dashboardVars =>
        DashboardInv' /\ page'.number >= page.number
<1> SUFFICES ASSUME DashboardInv, [DashboardNext]_dashboardVars
             PROVE  DashboardInv' /\ page'.number >= page.number
  OBVIOUS
<1> refreshSequence \in Nat /\ page.number \in Nat
  BY DEF DashboardInv, ReadsAreNumbered
<1>1. ASSUME Asks PROVE DashboardInv' /\ page'.number >= page.number
  BY <1>1, AsksSafe DEF Asks
<1>2. ASSUME UNCHANGED readVars PROVE Asks
  BY <1>2 DEF readVars, Asks, DashboardInv, ReadsAreNumbered
<1>3. ASSUME NEW of, Refresh(of), UNCHANGED <<page, pageError>> PROVE Asks
  <2> PICK n \in Nat : n = refreshSequence + 1 /\ n > refreshSequence
    OBVIOUS
  <2>1. refreshSequence' = n /\ reads' = reads \cup {Read(n, of, FALSE)}
    BY <1>3 DEF Refresh
  <2> QED
    BY <1>3, <2>1, NewReadAsks
<1>4. ASSUME NEW x \in SignIn, SignedIn(x) PROVE Asks
  <2> PICK n \in Nat : n = refreshSequence + 2 /\ n > refreshSequence
    OBVIOUS
  <2>1. refreshSequence' = n /\ reads' = AbortTimed \cup {Read(n, session', TRUE)}
    BY <1>4 DEF SignedIn
  <2>2. UNCHANGED <<page, pageError>>
    BY <1>4 DEF SignedIn
  <2> QED
    BY <2>1, <2>2, NewReadAsks
<1>5. CASE RefreshByButton
  BY <1>1, <1>3, <1>5 DEF RefreshByButton
<1>6. CASE Tick
  <2> PICK n \in Nat : n = refreshSequence + 1 /\ n > refreshSequence
    OBVIOUS
  <2>1. refreshSequence' = n /\ reads' = AbortTimed \cup {Read(n, session, TRUE)}
    BY <1>6 DEF Tick
  <2>2. UNCHANGED <<page, pageError>>
    BY <1>6 DEF Tick
  <2>3. Asks
    BY <2>1, <2>2, NewReadAsks
  <2> QED
    BY <1>1, <2>3
<1>7. ASSUME NEW x \in SignIn, NotSignedIn(x) PROVE Asks
  BY <1>2, <1>7 DEF NotSignedIn
<1>8. ASSUME NEW w \in Visitors, ConnectWallet(w) PROVE Asks
  BY <1>2, <1>8 DEF ConnectWallet
<1>9. ASSUME NEW s \in identityReads, AnswerIdentity(s) PROVE Asks
  BY <1>2, <1>9 DEF AnswerIdentity
<1>10. CASE AskForLink \/ LinkAnswered \/ LinkedInPopup \/ SubmitProduct \/ ProductNotCreated
  <2>1. Asks
    BY <1>2, <1>10 DEF AskForLink, LinkAnswered, LinkedInPopup, SubmitProduct,
                       ProductNotCreated
  <2> QED
    BY <1>1, <2>1
<1>11. CASE ProductCreated
  BY <1>1, <1>3, <1>11 DEF ProductCreated
<1>12. CASE UNCHANGED dashboardVars
  BY <1>1, <1>2, <1>12 DEF dashboardVars, ownDashboardVars
<1> QED
  BY <1>1, <1>4, <1>5, <1>6, <1>7, <1>8, <1>9, <1>10, <1>11, <1>12, AnswerReadSafe
     DEF DashboardNext

\* Whatever order answers come in, the page never goes back to an earlier read, and
\* no error of an earlier read covers the answer to a later one.
THEOREM PageOnlyAdvances == DashboardSpec => PageNeverGoesBack
<1>1. DashboardInv' => pageError' \notin 1 .. page'.number
  BY DEF DashboardInv, AnsweredIsUsed
<1> QED
  BY <1>1, DashboardInitSafe, DashboardNextSafe, PTL DEF DashboardSpec, PageNeverGoesBack

-----------------------------------------------------------------------------
(* The beta evidence file.  A record is compared with the first of its      *)
(* engagement only; that is enough because the others agree with the first, *)
(* as long as nobody appends between a look and its append.                *)

BetaTyped ==
    /\ lines \in Seq(BetaRecord)
    /\ overlapped \in BOOLEAN
    /\ recording \in [BetaWriter -> {Waiting} \cup
                        [phase : {"checked"}, record : BetaRecord, seen : Nat]]

\* the record agrees with all lines of its engagement
Agrees(r) == \A l \in Lines : l.engagement = r.engagement => l.external = r.external

EngagementsAgree ==
    ~overlapped =>
        /\ \A l \in Lines : Agrees(l)
        /\ \A w \in BetaWriter : recording[w] # Waiting =>
             /\ recording[w].seen <= Len(lines)
             /\ recording[w].seen = Len(lines) => Agrees(recording[w].record)

BetaInv == BetaTyped /\ EngagementsAgree

\* An engagement that has a line has a first one.
LEMMA PriorExists ==
    ASSUME BetaTyped, NEW l \in Lines
    PROVE  \E prior \in Prior(l.engagement) : prior \in Lines /\ prior.engagement = l.engagement
<1> DEFINE S == {j \in DOMAIN lines : lines[j].engagement = l.engagement}
<1>1. S \subseteq Nat /\ S # {}
  BY DEF BetaTyped, Lines
<1> PICK j \in S : \A k \in S : j <= k
  BY <1>1, LeastElement
<1>2. lines[j] \in Prior(l.engagement)
  BY DEF Prior
<1> QED
  BY <1>2 DEF Lines

\* What writers hold as checked has the fields of a check.
LEMMA CheckedHolds ==
    ASSUME BetaTyped, NEW w \in BetaWriter, recording[w] # Waiting
    PROVE  recording[w].record \in BetaRecord /\ recording[w].seen \in Nat
  BY DEF BetaTyped

\* A record that fits the first of its engagement fits them all.
LEMMA CheckEvidenceSafe ==
    ASSUME BetaInv, NEW w \in BetaWriter, NEW r \in BetaRecord, CheckEvidence(w, r)
    PROVE  BetaInv'
<1> PICK n \in Nat : n = Len(lines)
  BY DEF BetaInv, BetaTyped
<1> DEFINE next == [phase |-> "checked", record |-> r, seen |-> n]
<1>1. recording' = [recording EXCEPT ![w] = next] /\ UNCHANGED <<lines, overlapped>>
      /\ next.record = r /\ next.seen = n
      /\ next \in [phase : {"checked"}, record : BetaRecord, seen : Nat]
  BY DEF CheckEvidence
<1> HIDE DEF next
<1>2. BetaTyped'
  BY <1>1 DEF BetaInv, BetaTyped
<1>3. ASSUME ~overlapped PROVE Agrees(r)
  <2> SUFFICES ASSUME NEW l \in Lines, l.engagement = r.engagement
               PROVE  l.external = r.external
    BY DEF Agrees
  <2> PICK prior \in Prior(l.engagement) : prior \in Lines /\ prior.engagement = l.engagement
    BY PriorExists DEF BetaInv
  <2>1. prior.external = r.external
    BY DEF CheckEvidence
  <2>2. l.external = prior.external
    BY <1>3 DEF BetaInv, EngagementsAgree, Agrees
  <2> QED
    BY <2>1, <2>2
<1>4. \A l : Agrees(l)' <=> Agrees(l)
  BY <1>1 DEF Agrees, Lines
<1>5. \A v \in BetaWriter : recording'[v] = IF v = w THEN next ELSE recording[v]
  BY <1>1 DEF BetaInv, BetaTyped
<1>6. EngagementsAgree'
  <2> SUFFICES ASSUME ~overlapped'
               PROVE  /\ \A l \in Lines' : Agrees(l)'
                      /\ \A v \in BetaWriter : recording'[v] # Waiting =>
                           /\ recording'[v].seen <= Len(lines')
                           /\ recording'[v].seen = Len(lines') => Agrees(recording[v].record)'
    BY DEF EngagementsAgree, Agrees
  <2>1. \A l \in Lines' : Agrees(l)'
    BY <1>1, <1>4 DEF BetaInv, EngagementsAgree, Lines
  <2>2. ASSUME NEW v \in BetaWriter, recording'[v] # Waiting
        PROVE  /\ recording'[v].seen <= Len(lines')
               /\ recording'[v].seen = Len(lines') => Agrees(recording[v].record)'
    <3>1. CASE v = w
      <4>1. recording'[v] = next
        BY <1>5, <3>1
      <4>2. Agrees(r)'
        BY <1>1, <1>3, <1>4
      <4>3. Agrees(recording[v].record)'
        BY <1>1, <4>1, <4>2 DEF Agrees
      <4> QED
        BY <1>1, <4>1, <4>3
    <3>2. CASE v # w
      <4>1. recording'[v] = recording[v]
        BY <1>5, <3>2
      <4>2. /\ recording[v].seen <= Len(lines)
            /\ recording[v].seen = Len(lines) => Agrees(recording[v].record)
        BY <1>1, <2>2, <4>1 DEF BetaInv, EngagementsAgree
      <4> QED
        BY <1>1, <4>1, <4>2 DEF Agrees, Lines
    <3> QED
      BY <3>1, <3>2
  <2> QED
    BY <2>1, <2>2
<1> QED
  BY <1>2, <1>6 DEF BetaInv

\* A writer that waits again holds nothing.
LEMMA ReleaseSafe ==
    ASSUME BetaInv, NEW w \in BetaWriter,
           recording' = [recording EXCEPT ![w] = Waiting],
           lines' = lines, overlapped' \in BOOLEAN, overlapped => overlapped'
    PROVE  BetaInv'
<1>1. BetaTyped'
  BY DEF BetaInv, BetaTyped
<1>2. \A v \in BetaWriter : recording'[v] = Waiting \/ recording'[v] = recording[v]
  BY DEF BetaInv, BetaTyped
<1>3. ASSUME NEW v \in BetaWriter, ~overlapped, recording'[v] # Waiting
      PROVE  /\ recording'[v].seen <= Len(lines')
             /\ recording'[v].seen = Len(lines') => Agrees(recording[v].record)'
  <2>1. recording'[v] = recording[v]
    BY <1>2, <1>3
  <2>2. /\ recording[v].seen <= Len(lines)
        /\ recording[v].seen = Len(lines) => Agrees(recording[v].record)
    BY <1>3, <2>1 DEF BetaInv, EngagementsAgree
  <2> QED
    BY <2>1, <2>2 DEF Agrees, Lines
<1>4. ~overlapped => \A l \in Lines' : Agrees(l)'
  BY DEF BetaInv, EngagementsAgree, Agrees, Lines
<1>5. EngagementsAgree'
  BY <1>3, <1>4 DEF EngagementsAgree, Agrees
<1> QED
  BY <1>1, <1>5 DEF BetaInv

\* A record is appended to the lines it was compared with, or the writers overlapped.
LEMMA AppendEvidenceSafe ==
    ASSUME BetaInv, NEW w \in BetaWriter, AppendEvidence(w)
    PROVE  BetaInv'
<1> PICK r \in BetaRecord, seen \in Nat : r = recording[w].record /\ seen = recording[w].seen
  BY CheckedHolds DEF BetaInv, AppendEvidence
<1>1. /\ recording' = [recording EXCEPT ![w] = Waiting]
      /\ lines' = IF torn THEN lines ELSE Append(lines, r)
      /\ ~overlapped' => ~overlapped /\ seen = Len(lines)
      /\ overlapped' \in BOOLEAN
  BY DEF AppendEvidence
<1>2. CASE torn
  BY <1>1, <1>2, ReleaseSafe
<1>3. CASE ~torn
  <2>1. /\ lines \in Seq(BetaRecord) /\ lines' = Append(lines, r)
        /\ lines' \in Seq(BetaRecord) /\ Len(lines') = Len(lines) + 1
    BY <1>1, <1>3 DEF BetaInv, BetaTyped
  <2>2. BetaTyped'
    BY <1>1, <2>1 DEF BetaInv, BetaTyped
  <2>3. Lines' = Lines \cup {r}
    <3>1. DOMAIN lines' = DOMAIN lines \cup {Len(lines) + 1}
      BY <2>1
    <3>2. lines'[Len(lines) + 1] = r /\ \A i \in DOMAIN lines : lines'[i] = lines[i]
      BY <2>1
    <3> QED
      BY <3>1, <3>2 DEF Lines
  <2>4. EngagementsAgree'
    <3> SUFFICES ASSUME ~overlapped'
                 PROVE  /\ \A l \in Lines' : Agrees(l)'
                        /\ \A v \in BetaWriter : recording'[v] # Waiting =>
                             /\ recording'[v].seen <= Len(lines')
                             /\ recording'[v].seen # Len(lines')
      BY DEF EngagementsAgree, Agrees
    <3>1. ~overlapped /\ Agrees(r) /\ \A l \in Lines : Agrees(l)
      BY <1>1 DEF BetaInv, EngagementsAgree, AppendEvidence
    <3>2. \A l \in Lines' : Agrees(l)'
      BY <2>3, <3>1 DEF Agrees
    <3>3. \A v \in BetaWriter : recording'[v] = Waiting \/ recording'[v] = recording[v]
      BY <1>1 DEF BetaInv, BetaTyped
    <3>4. ASSUME NEW v \in BetaWriter, recording'[v] # Waiting
          PROVE  recording'[v].seen <= Len(lines') /\ recording'[v].seen # Len(lines')
      <4>1. recording'[v] = recording[v] /\ recording[v] # Waiting
        BY <3>3, <3>4
      <4>2. recording[v].seen <= Len(lines) /\ recording[v].seen \in Nat
        BY <3>1, <4>1, CheckedHolds DEF BetaInv, EngagementsAgree
      <4> QED
        BY <2>1, <4>1, <4>2
    <3> QED
      BY <3>2, <3>4
  <2> QED
    BY <2>2, <2>4 DEF BetaInv
<1> QED
  BY <1>2, <1>3

\* The file is empty.
LEMMA BetaInitSafe == BetaInit => BetaInv
<1> SUFFICES ASSUME BetaInit PROVE BetaInv
  OBVIOUS
<1>1. lines = <<>> /\ overlapped = FALSE /\ recording = [w \in BetaWriter |-> Waiting]
  BY DEF BetaInit
<1>2. BetaTyped
  <2>1. lines \in Seq(BetaRecord)
    BY <1>1
  <2>2. overlapped \in BOOLEAN
    BY <1>1, Zenon
  <2>3. recording \in [BetaWriter -> {Waiting} \cup
                         [phase : {"checked"}, record : BetaRecord, seen : Nat]]
    BY <1>1
  <2> QED
    BY <2>1, <2>2, <2>3 DEF BetaTyped
<1>3. Lines = {} /\ \A w \in BetaWriter : recording[w] = Waiting
  BY <1>1 DEF Lines
<1> QED
  BY <1>2, <1>3 DEF BetaInv, EngagementsAgree

LEMMA BetaNextSafe == BetaInv /\ [BetaNext]_betaVars => BetaInv'
<1> SUFFICES ASSUME BetaInv, [BetaNext]_betaVars PROVE BetaInv'
  OBVIOUS
<1>1. ASSUME NEW w \in BetaWriter, CrashRecording(w) PROVE BetaInv'
  BY <1>1, ReleaseSafe DEF CrashRecording, BetaInv, BetaTyped
<1>2. CASE UNCHANGED betaVars
  BY <1>2 DEF betaVars, BetaInv, BetaTyped, EngagementsAgree, Agrees, Lines
<1> QED
  BY <1>1, <1>2, CheckEvidenceSafe, AppendEvidenceSafe DEF BetaNext

\* Whoever opens the commercial gate was an independent participant from the first
\* record on, for any number of records and of writers that did not overlap.
THEOREM GateStaysIndependent == BetaSpec => []GateIsIndependent
<1>1. BetaInv => GateIsIndependent
  <2> SUFFICES ASSUME BetaInv, ~overlapped, Eligible
               PROVE  /\ Cardinality({e \in Starts : \A l \in Prior(e) : l.external}) >= MinStarts
                      /\ Engagements(External) \cap Engagements(Consented \ External) = {}
    BY DEF GateIsIndependent
  <2>1. \A k, l \in Lines : k.engagement = l.engagement => k.external = l.external
    BY DEF BetaInv, EngagementsAgree, Agrees
  <2>2. ASSUME NEW e \in Starts, NEW l \in Prior(e) PROVE l.external
    <3>1. l \in Lines /\ l.engagement = e
      BY DEF Prior, Lines
    <3> PICK k \in Lines : k.engagement = e /\ k.external
      BY DEF Starts, Reached, External, Consented
    <3> QED
      BY <2>1, <3>1
  <2>3. {e \in Starts : \A l \in Prior(e) : l.external} = Starts
    BY <2>2
  <2>4. Engagements(External) \cap Engagements(Consented \ External) = {}
    BY <2>1 DEF Engagements, External, Consented
  <2> QED
    BY <2>3, <2>4 DEF Eligible
<1> QED
  BY <1>1, BetaInitSafe, BetaNextSafe, PTL DEF BetaSpec

-----------------------------------------------------------------------------
(* The pilot's evidence.  What a post has not saved yet is still in its     *)
(* list of statements, and rows of the tables are never removed.           *)

Statement == PilotItem \cup [kind : {"engagement"}, owner : PilotWallet]

PilotTyped ==
    /\ commands \in Nat
    /\ files \subseteq Seq(PilotItem)
    /\ posts \in [Post -> {None} \cup
                    [file : Seq(PilotItem), todo : Seq(Statement), met : BOOLEAN]]

Stored(id) == \E e \in evidence : e.id = id

\* what a post of f that has still to run todo has dealt with is stored
StoredOrToDo(f, todo) ==
    \A i \in Items(f) : i.kind # "consent" => i \in Items(todo) \/ Stored(i.id)

PilotInv ==
    /\ PilotTyped
    /\ \A p \in Serving : StoredOrToDo(posts[p].file, posts[p].todo)
    /\ RecordedIsStored

\* The elements of a concatenation are those of its parts.
LEMMA ItemsOfConcatenation ==
    ASSUME NEW T, NEW a \in Seq(T), NEW b \in Seq(T)
    PROVE  a \o b \in Seq(T) /\ Items(a \o b) = Items(a) \cup Items(b)
<1> DEFINE c == a \o b
<1>0. c \in Seq(T)
  OBVIOUS
<1>1. /\ Len(c) = Len(a) + Len(b) /\ Len(a) \in Nat /\ Len(b) \in Nat
      /\ DOMAIN a = 1 .. Len(a) /\ DOMAIN b = 1 .. Len(b) /\ DOMAIN c = 1 .. Len(c)
      /\ \A n \in 1 .. Len(a) : c[n] = a[n]
      /\ \A n \in 1 .. Len(b) : c[Len(a) + n] = b[n]
  OBVIOUS
<1> HIDE DEF c
<1>2. \A n \in DOMAIN c : c[n] \in Items(a) \cup Items(b)
  <2> SUFFICES ASSUME NEW n \in 1 .. Len(c) PROVE c[n] \in Items(a) \cup Items(b)
    BY <1>1
  <2>1. CASE n <= Len(a)
    BY <1>1, <2>1 DEF Items
  <2>2. CASE n > Len(a)
    <3>1. n - Len(a) \in 1 .. Len(b) /\ Len(a) + (n - Len(a)) = n
      BY <1>1, <2>2
    <3>2. c[n] = b[n - Len(a)]
      BY <1>1, <3>1
    <3> QED
      BY <1>1, <3>1, <3>2 DEF Items
  <2> QED
    BY <1>1, <2>1, <2>2
<1>3. \A n \in 1 .. Len(a) : n \in DOMAIN c
  BY <1>1
<1>4. \A n \in 1 .. Len(b) : Len(a) + n \in DOMAIN c
  BY <1>1
<1>5. Items(a) \subseteq Items(c)
  BY <1>1, <1>3 DEF Items
<1>6. Items(b) \subseteq Items(c)
  BY <1>1, <1>4 DEF Items
<1>7. Items(c) \subseteq Items(a) \cup Items(b)
  BY <1>2 DEF Items
<1>8. Items(c) = Items(a) \cup Items(b)
  BY <1>5, <1>6, <1>7
<1> QED
  BY <1>0, <1>8 DEF c

\* The first of a list, and the rest of it.
LEMMA HeadAndTail ==
    ASSUME NEW T, NEW t \in Seq(T), t # <<>>
    PROVE  /\ Head(t) \in T /\ Tail(t) \in Seq(T)
           /\ Items(t) = {Head(t)} \cup Items(Tail(t))
<1>0. Tail(t) \in Seq(T)
  OBVIOUS
<1> PICK rest \in Seq(T) : rest = Tail(t)
  BY <1>0
<1>1. /\ Head(t) = t[1] /\ t[1] \in T /\ Len(t) \in Nat /\ Len(t) >= 1
      /\ DOMAIN t = 1 .. Len(t) /\ DOMAIN rest = 1 .. (Len(t) - 1)
      /\ \A n \in DOMAIN rest : rest[n] = t[n + 1]
  OBVIOUS
<1>2. ASSUME NEW n \in DOMAIN t, n # 1
      PROVE  t[n] \in Items(rest)
  <2>1. n - 1 \in DOMAIN rest /\ rest[n - 1] = t[n]
    BY <1>1, <1>2
  <2> QED
    BY <2>1 DEF Items
<1>3. \A n \in DOMAIN rest : n + 1 \in DOMAIN t /\ rest[n] = t[n + 1]
  BY <1>1
<1>4. 1 \in DOMAIN t
  BY <1>1
<1> QED
  BY <1>1, <1>2, <1>3, <1>4 DEF Items

\* The items of a kind are those of the file that have it.
LEMMA ItemsOfKind ==
    ASSUME NEW f \in Seq(PilotItem), NEW k
    PROVE  OfKind(f, k) \in Seq(PilotItem) /\ Items(OfKind(f, k)) = {i \in Items(f) : i.kind = k}
<1> DEFINE S == {i \in Items(f) : i.kind = k}
           q == Selected(f, S)
<1>1. OfKind(f, k) = q
  BY DEF OfKind
<1> HIDE DEF S
<1>2. /\ q \in Seq(PilotItem)
      /\ \A n \in DOMAIN q : q[n] \in S /\ \E i \in DOMAIN f : q[n] = f[i]
      /\ \A i \in DOMAIN f : f[i] \in S => \E n \in DOMAIN q : q[n] = f[i]
  BY SelectedElements
<1> HIDE DEF q
<1>3. Items(q) \subseteq S
  BY <1>2 DEF Items
<1>4. S \subseteq Items(q)
  BY <1>2 DEF Items, S
<1> QED
  BY <1>1, <1>2, <1>3, <1>4 DEF S

\* A post has a statement for every item of its file.
LEMMA StatementsOfAll ==
    ASSUME NEW w \in PilotWallet, NEW f \in Seq(PilotItem)
    PROVE  /\ Statements(w, f) \in Seq(Statement)
           /\ \A i \in Items(f) : i \in Items(Statements(w, f))
           /\ \A i \in Items(Statements(w, f)) : i.kind = "engagement" \/ i \in Items(f)
<1> DEFINE first == <<[kind |-> "engagement", owner |-> w]>>
           a == OfKind(f, "intervention")
           b == OfKind(f, "event")
           c == OfKind(f, "consent")
           d == OfKind(f, "observation")
           e == OfKind(f, "answer")
<1>1. first \in Seq(Statement)
  BY DEF Statement
<1>2. \A k : OfKind(f, k) \in Seq(Statement)
  <2> SUFFICES ASSUME NEW k PROVE OfKind(f, k) \in Seq(Statement)
    OBVIOUS
  <2>1. OfKind(f, k) \in Seq(PilotItem)
    BY ItemsOfKind
  <2> QED
    BY <2>1 DEF Statement
<1>3. a \in Seq(Statement) /\ b \in Seq(Statement) /\ c \in Seq(Statement)
      /\ d \in Seq(Statement) /\ e \in Seq(Statement)
  BY <1>2
<1>4. Statements(w, f) = first \o a \o b \o c \o d \o e
  BY DEF Statements
<1>5. ASSUME NEW i \in Items(f)
      PROVE  i \in Items(a) \cup Items(b) \cup Items(c) \cup Items(d) \cup Items(e)
  <2>1. i \in PilotItem
    BY DEF Items
  <2>2. i.kind \in {"intervention", "event", "observation", "answer", "consent"}
    BY <2>1 DEF PilotItem, EvidenceKinds
  <2>3. \A k : Items(OfKind(f, k)) = {x \in Items(f) : x.kind = k}
    BY ItemsOfKind
  <2>4. i \in Items(OfKind(f, i.kind))
    BY <2>3
  <2> QED
    BY <2>2, <2>4
<1>12. \A i \in Items(first) : i.kind = "engagement"
  BY DEF Items
<1>13. Items(a) \cup Items(b) \cup Items(c) \cup Items(d) \cup Items(e) \subseteq Items(f)
  BY ItemsOfKind
<1> HIDE DEF first, a, b, c, d, e
<1> DEFINE ab == first \o a
           abb == ab \o b
           abc == abb \o c
           abd == abc \o d
           abe == abd \o e
<1>6. ab \in Seq(Statement) /\ Items(ab) = Items(first) \cup Items(a)
  BY <1>1, <1>3, ItemsOfConcatenation
<1> HIDE DEF ab
<1>7. abb \in Seq(Statement) /\ Items(abb) = Items(ab) \cup Items(b)
  BY <1>3, <1>6, ItemsOfConcatenation
<1> HIDE DEF abb
<1>8. abc \in Seq(Statement) /\ Items(abc) = Items(abb) \cup Items(c)
  BY <1>3, <1>7, ItemsOfConcatenation
<1> HIDE DEF abc
<1>9. abd \in Seq(Statement) /\ Items(abd) = Items(abc) \cup Items(d)
  BY <1>3, <1>8, ItemsOfConcatenation
<1> HIDE DEF abd
<1>10. abe \in Seq(Statement) /\ Items(abe) = Items(abd) \cup Items(e)
  BY <1>3, <1>9, ItemsOfConcatenation
<1>11. Statements(w, f) = abe
  BY <1>4 DEF ab, abb, abc, abd
<1> HIDE DEF abe
<1> QED
  BY <1>5, <1>6, <1>7, <1>8, <1>9, <1>10, <1>11, <1>12, <1>13

\* An item of a command's making is an item of a file.
LEMMA ItemIsTyped ==
    ASSUME PilotAssumption, commands \in Nat,
           NEW k \in EvidenceKinds \cup {"consent"},
           NEW name \in Stage \cup Scope \cup {"day7", "price"},
           NEW value \in Result \cup Outcome \cup Response
                           \cup {"support", "granted", "denied", "withdrawn"},
           NEW at \in Instant \cup Told \cup {0}
    PROVE  Item(k, name, value, at) \in PilotItem
<1>1. commands + 1 \in Nat
  OBVIOUS
<1> QED
  BY <1>1 DEF Item, PilotItem

\* A command that writes one more file of items, or removes one, keeps the invariant.
LEMMA FilesMayChange ==
    ASSUME PilotInv, files' \subseteq Seq(PilotItem), commands' = commands + 1,
           UNCHANGED <<hostedVars, posts, postCount, recorded, alone>>
    PROVE  PilotInv'
<1>1. /\ commands' \in Nat /\ posts' = posts /\ evidence' = evidence
      /\ recorded' = recorded
  BY DEF PilotInv, PilotTyped, hostedVars
<1>2. PilotTyped'
  BY <1>1 DEF PilotInv, PilotTyped
<1>3. Serving' = Serving
  BY <1>1 DEF Serving
<1>4. (\A p \in Serving : StoredOrToDo(posts[p].file, posts[p].todo))'
  BY <1>1, <1>3 DEF PilotInv, StoredOrToDo, Stored
<1>5. RecordedIsStored'
  BY <1>1 DEF PilotInv, RecordedIsStored
<1> QED
  BY <1>2, <1>4, <1>5 DEF PilotInv

\* Every command of the pilot CLI keeps the invariant.
LEMMA CommandsAreSafe ==
    ASSUME PilotAssumption, PilotInv, NEW f \in files,
           \/ \E s \in Stage, o \in Result, at \in Instant : AddActivationEvent(f, s, o, at)
           \/ \E s \in Scope : AddConsent(f, s, TRUE) \/ AddConsent(f, s, FALSE)
           \/ \E s \in Scope : WithdrawConsent(f, s)
           \/ \E s \in Stage : AddIntervention(f, s)
           \/ \E o \in Outcome, at \in Told : ObserveDaySevenRetention(f, o, at)
           \/ \E o \in Response, at \in Told : RecordWillingnessToPay(f, o, at)
           \/ DeleteEngagement(f)
    PROVE  PilotInv'
<1>1. commands \in Nat /\ files \subseteq Seq(PilotItem) /\ f \in Seq(PilotItem)
  BY DEF PilotInv, PilotTyped
<1>2. ASSUME NEW g \in Seq(PilotItem), WriteExclusive(g)
      PROVE  PilotInv'
  <2>1. files' \subseteq Seq(PilotItem)
    BY <1>1, <1>2 DEF WriteExclusive
  <2> QED
    BY <1>2, <2>1, FilesMayChange DEF WriteExclusive
<1>3. ASSUME NEW i \in PilotItem, WriteExclusive(Append(f, i))
      PROVE  PilotInv'
  <2>1. Append(f, i) \in Seq(PilotItem)
    BY <1>1
  <2> QED
    BY <1>2, <1>3, <2>1
<1>4. ASSUME NEW s \in Stage, NEW o \in Result, NEW at \in Instant,
             AddActivationEvent(f, s, o, at)
      PROVE  PilotInv'
  <2>1. Item("event", s, o, at) \in PilotItem
    BY <1>1, ItemIsTyped DEF EvidenceKinds
  <2> QED
    BY <1>3, <1>4, <2>1 DEF AddActivationEvent
<1>5. ASSUME NEW s \in Scope, NEW b \in BOOLEAN, AddConsent(f, s, b)
      PROVE  PilotInv'
  <2>1. /\ Item("consent", s, "granted", 0) \in PilotItem
        /\ Item("consent", s, "denied", 0) \in PilotItem
    BY <1>1, ItemIsTyped DEF EvidenceKinds
  <2>2. Item("consent", s, IF b THEN "granted" ELSE "denied", 0) \in PilotItem
    BY <2>1
  <2> QED
    BY <1>3, <1>5, <2>2 DEF AddConsent
<1>6. ASSUME NEW s \in Scope, WithdrawConsent(f, s)
      PROVE  PilotInv'
  <2> DEFINE g == [n \in DOMAIN f |->
                     IF f[n].kind = "consent" /\ f[n].name = s
                       THEN [f[n] EXCEPT !.value = "withdrawn"] ELSE f[n]]
  <2>1. DOMAIN f = 1 .. Len(f) /\ Len(f) \in Nat /\ \A n \in DOMAIN f : f[n] \in PilotItem
    BY <1>1
  <2>2. ASSUME NEW i \in PilotItem
        PROVE  [i EXCEPT !.value = "withdrawn"] \in PilotItem
    BY <2>2 DEF PilotItem
  <2>3. \A n \in DOMAIN f : g[n] \in PilotItem
    BY <2>1, <2>2
  <2>4. g \in [1 .. Len(f) -> PilotItem]
    BY <2>1, <2>3
  <2>5. WriteExclusive(g)
    BY <1>6 DEF WithdrawConsent
  <2> HIDE DEF g
  <2>6. g \in Seq(PilotItem)
    BY <2>1, <2>4
  <2> QED
    BY <1>2, <2>5, <2>6
<1>7. ASSUME NEW s \in Stage, AddIntervention(f, s)
      PROVE  PilotInv'
  <2>1. Item("intervention", s, "support", 0) \in PilotItem
    BY <1>1, ItemIsTyped DEF EvidenceKinds
  <2> QED
    BY <1>3, <1>7, <2>1 DEF AddIntervention
<1>8. ASSUME NEW o \in Outcome, NEW at \in Told, ObserveDaySevenRetention(f, o, at)
      PROVE  PilotInv'
  <2>1. Item("observation", "day7", o, at) \in PilotItem
    BY <1>1, ItemIsTyped DEF EvidenceKinds
  <2> QED
    BY <1>3, <1>8, <2>1 DEF ObserveDaySevenRetention
<1>9. ASSUME NEW o \in Response, NEW at \in Told, RecordWillingnessToPay(f, o, at)
      PROVE  PilotInv'
  <2>1. Item("answer", "price", o, at) \in PilotItem
    BY <1>1, ItemIsTyped DEF EvidenceKinds
  <2> QED
    BY <1>3, <1>9, <2>1 DEF RecordWillingnessToPay
<1>10. ASSUME DeleteEngagement(f)
       PROVE  PilotInv'
  <2>1. files' \subseteq Seq(PilotItem)
    BY <1>1, <1>10 DEF DeleteEngagement
  <2> QED
    BY <1>10, <2>1, FilesMayChange DEF DeleteEngagement
<1> QED
  BY <1>4, <1>5, <1>6, <1>7, <1>8, <1>9, <1>10

\* When rows are only added, what was stored stays stored.
LEMMA StoredStays ==
    ASSUME evidence \subseteq evidence', NEW f, NEW todo, StoredOrToDo(f, todo)
    PROVE  /\ StoredOrToDo(f, todo)'
           /\ RecordedIsStored /\ recorded' = recorded => RecordedIsStored'
BY DEF StoredOrToDo, Stored, RecordedIsStored

\* Starting a post keeps the invariant: nothing is done, and everything is to do.
LEMMA StartIsSafe ==
    ASSUME PilotAssumption, PilotInv,
           NEW p \in Post, NEW w \in PilotWallet, NEW f \in files, StartPost(p, w, f)
    PROVE  PilotInv'
<1>1. f \in Seq(PilotItem)
  BY DEF PilotInv, PilotTyped
<1>2. PICK todo \in Seq(Statement) :
        todo = Statements(w, f) /\ \A i \in Items(f) : i \in Items(todo)
  BY <1>1, StatementsOfAll
<1>3. PICK met \in BOOLEAN : met = (Serving # {})
  OBVIOUS
<1>4. posts' = [q \in Post |->
                  IF q = p THEN [file |-> f, todo |-> todo, met |-> met]
                  ELSE IF q \in Serving THEN [posts[q] EXCEPT !.met = TRUE] ELSE None]
  BY <1>2, <1>3 DEF StartPost
<1>5. /\ files' = files /\ commands' = commands /\ evidence' = evidence
      /\ recorded' = recorded
  BY DEF StartPost, localVars, hostedVars
<1> DEFINE Kept == [file : Seq(PilotItem), todo : Seq(Statement), met : BOOLEAN]
<1>6. \A q \in Serving : posts[q] \in Kept
  BY DEF Serving, PilotInv, PilotTyped
<1>7. ASSUME NEW r \in Kept
      PROVE  /\ [r EXCEPT !.met = TRUE] \in Kept
             /\ [r EXCEPT !.met = TRUE].file = r.file
             /\ [r EXCEPT !.met = TRUE].todo = r.todo
  BY <1>7
<1>8. [file |-> f, todo |-> todo, met |-> met] \in Kept
  BY <1>1, <1>2, <1>3
<1>9. posts' \in [Post -> {None} \cup Kept]
  BY <1>4, <1>6, <1>7, <1>8
<1>10. PilotTyped'
  BY <1>5, <1>9 DEF PilotInv, PilotTyped
<1>11. ASSUME NEW q \in Post, posts'[q] # None
       PROVE  StoredOrToDo(posts[q].file, posts[q].todo)'
  <2>1. CASE q = p
    <3>1. posts'[q].file = f /\ posts'[q].todo = todo
      BY <1>4, <2>1
    <3>2. StoredOrToDo(f, todo)'
      BY <1>2 DEF StoredOrToDo
    <3> QED
      BY <3>1, <3>2 DEF StoredOrToDo, Stored
  <2>2. CASE q # p
    <3>1. q \in Serving
      BY <1>4, <1>11, <2>2
    <3>2. PICK r \in Kept : r = posts[q]
      BY <1>6, <3>1
    <3>3. posts'[q].file = r.file /\ posts'[q].todo = r.todo
      BY <1>4, <1>7, <2>2, <3>1, <3>2
    <3>4. StoredOrToDo(r.file, r.todo)'
      BY <1>5, <3>1, <3>2, StoredStays DEF PilotInv
    <3> QED
      BY <3>3, <3>4 DEF StoredOrToDo, Stored
  <2> QED
    BY <2>1, <2>2
<1>12. RecordedIsStored'
  BY <1>5 DEF PilotInv, RecordedIsStored
<1> QED
  BY <1>10, <1>11, <1>12 DEF PilotInv, Serving

\* The statement of an item that is no consent leaves a row of the item's id.
LEMMA StatementStores ==
    ASSUME NEW i \in Statement,
           \/ i.kind = "engagement" /\ SavePilotEngagement(i.owner)
           \/ i.kind = "intervention" /\ SaveSupportIntervention(i)
           \/ i.kind = "event" /\ AppendActivationEvent(i)
           \/ i.kind = "consent" /\ SaveConsentGrant(i)
           \/ i.kind = "observation" /\ SaveRetentionObservation(i)
           \/ i.kind = "answer" /\ SaveWillingnessToPay(i)
    PROVE  /\ evidence \subseteq evidence'
           /\ i.kind \in EvidenceKinds => Stored(i.id)'
<1>1. Insert(i) => evidence \subseteq evidence' /\ Stored(i.id)'
  BY DEF Insert, Stored
<1> QED
  BY <1>1 DEF SavePilotEngagement, SaveSupportIntervention, AppendActivationEvent,
     SaveConsentGrant, SaveRetentionObservation, SaveWillingnessToPay, EvidenceKinds

\* One statement of a post keeps the invariant: what leaves the list is stored.
LEMMA SaveIsSafe ==
    ASSUME PilotInv, NEW p \in Post, SaveStatement(p)
    PROVE  PilotInv'
<1> DEFINE Kept == [file : Seq(PilotItem), todo : Seq(Statement), met : BOOLEAN]
<1>1. PICK r \in Kept : r = posts[p] /\ r.todo # <<>>
  BY DEF PilotInv, PilotTyped, SaveStatement
<1>2. PICK rest \in Seq(Statement) : rest = Tail(r.todo)
  BY <1>1, HeadAndTail
<1>3. PICK i \in Statement : i = Head(r.todo)
  BY <1>1, HeadAndTail
<1>4. \A x \in Items(r.todo) : x = i \/ x \in Items(rest)
  BY <1>1, <1>2, <1>3, HeadAndTail
<1>5. /\ evidence \subseteq evidence'
      /\ i.kind \in EvidenceKinds => Stored(i.id)'
  <2>1. \/ i.kind = "engagement" /\ SavePilotEngagement(i.owner)
        \/ i.kind = "intervention" /\ SaveSupportIntervention(i)
        \/ i.kind = "event" /\ AppendActivationEvent(i)
        \/ i.kind = "consent" /\ SaveConsentGrant(i)
        \/ i.kind = "observation" /\ SaveRetentionObservation(i)
        \/ i.kind = "answer" /\ SaveWillingnessToPay(i)
    <3>1. i.kind \in EvidenceKinds \cup {"consent", "engagement"}
      BY <1>3 DEF Statement, PilotItem
    <3> QED
      BY <1>1, <1>3, <3>1 DEF SaveStatement, EvidenceKinds
  <2> QED
    BY <2>1, StatementStores
<1>6. posts' = [posts EXCEPT ![p] = [file |-> r.file, todo |-> rest, met |-> r.met]]
  <2>1. posts' = [posts EXCEPT ![p] = [posts[p] EXCEPT !.todo = Tail(posts[p].todo)]]
    BY DEF SaveStatement
  <2>2. [r EXCEPT !.todo = rest] = [file |-> r.file, todo |-> rest, met |-> r.met]
    BY <1>1
  <2> QED
    BY <1>1, <1>2, <2>1, <2>2
<1>7. /\ files' = files /\ commands' = commands /\ recorded' = recorded
  BY DEF SaveStatement, localVars
<1>8. PilotTyped'
  <2>1. [file |-> r.file, todo |-> rest, met |-> r.met] \in Kept
    BY <1>1, <1>2
  <2> QED
    BY <1>6, <1>7, <2>1 DEF PilotInv, PilotTyped
<1>9. ASSUME NEW q \in Post, posts'[q] # None
      PROVE  StoredOrToDo(posts[q].file, posts[q].todo)'
  <2>1. CASE q = p
    <3>1. posts'[q].file = r.file /\ posts'[q].todo = rest
      BY <1>6, <2>1 DEF PilotInv, PilotTyped
    <3>2. StoredOrToDo(r.file, r.todo)
      BY <1>1 DEF PilotInv, Serving, SaveStatement
    <3>3. \A x \in Items(r.file) : x \in PilotItem
      BY <1>1 DEF Items
    <3>4. StoredOrToDo(r.file, rest)'
      BY <1>4, <1>5, <3>2, <3>3 DEF StoredOrToDo, Stored, PilotItem
    <3> QED
      BY <3>1, <3>4 DEF StoredOrToDo, Stored
  <2>2. CASE q # p
    <3>1. posts'[q] = posts[q]
      BY <1>6, <2>2 DEF PilotInv, PilotTyped
    <3>2. PICK s : s = posts[q]
      OBVIOUS
    <3>3. StoredOrToDo(s.file, s.todo)'
      BY <1>5, <1>9, <3>1, <3>2, StoredStays DEF PilotInv, Serving
    <3> QED
      BY <3>1, <3>2, <3>3 DEF StoredOrToDo, Stored
  <2> QED
    BY <2>1, <2>2
<1>10. RecordedIsStored'
  BY <1>5, <1>7 DEF PilotInv, RecordedIsStored
<1> QED
  BY <1>8, <1>9, <1>10 DEF PilotInv, Serving

\* The answer and the end of a post keep the invariant: with nothing left to do,
\* everything of the file is stored.
LEMMA EndIsSafe ==
    ASSUME PilotInv, NEW p \in Post, AnswerRecorded(p) \/ BreakOff(p)
    PROVE  PilotInv'
<1>1. /\ posts' = [posts EXCEPT ![p] = None]
      /\ files' = files /\ commands' = commands /\ evidence' = evidence
  BY DEF AnswerRecorded, BreakOff, localVars, hostedVars
<1>2. PilotTyped'
  BY <1>1 DEF PilotInv, PilotTyped
<1>3. ASSUME NEW q \in Post, posts'[q] # None
      PROVE  StoredOrToDo(posts[q].file, posts[q].todo)'
  <2>1. posts'[q] = posts[q] /\ q \in Serving
    BY <1>1, <1>3 DEF PilotInv, PilotTyped, Serving
  <2> QED
    BY <1>1, <2>1 DEF PilotInv, StoredOrToDo, Stored
<1>4. ASSUME NEW id \in recorded'
      PROVE  Stored(id)
  <2>1. CASE id \in recorded
    BY <2>1 DEF PilotInv, RecordedIsStored, Stored
  <2>2. CASE id \notin recorded
    <3>1. AnswerRecorded(p)
      BY <1>4, <2>2 DEF BreakOff
    <3>2. PICK j \in Items(posts[p].file) : j.kind # "consent" /\ j.id = id
      BY <1>4, <2>2, <3>1 DEF AnswerRecorded
    <3>3. posts[p].todo = <<>> /\ p \in Serving
      BY <3>1 DEF AnswerRecorded, Serving
    <3>4. Items(posts[p].todo) = {}
      BY <3>3 DEF Items
    <3> QED
      BY <3>2, <3>3, <3>4 DEF PilotInv, StoredOrToDo
  <2> QED
    BY <2>1, <2>2
<1>5. RecordedIsStored'
  BY <1>1, <1>4 DEF RecordedIsStored, Stored
<1> QED
  BY <1>2, <1>3, <1>5 DEF PilotInv, Serving

\* The invariant holds at first, when nothing was posted.
LEMMA PilotInitSafe ==
    PilotInit => PilotInv
<1> SUFFICES ASSUME PilotInit PROVE PilotInv
  OBVIOUS
<1>1. <<>> \in Seq(PilotItem)
  OBVIOUS
<1>2. PilotTyped
  BY <1>1 DEF PilotInit, PilotTyped
<1>3. Serving = {} /\ RecordedIsStored
  BY DEF PilotInit, Serving, RecordedIsStored
<1> QED
  BY <1>2, <1>3 DEF PilotInv

\* Every step keeps the invariant.
LEMMA PilotNextSafe ==
    ASSUME PilotAssumption, PilotInv, [PilotNext]_pilotVars
    PROVE  PilotInv'
<1>1. CASE UNCHANGED pilotVars
  <2>1. /\ files' = files /\ commands' = commands /\ posts' = posts
        /\ evidence' = evidence /\ recorded' = recorded
    BY <1>1 DEF pilotVars, localVars, hostedVars
  <2> QED
    BY <2>1 DEF PilotInv, PilotTyped, Serving, StoredOrToDo, Stored, RecordedIsStored
<1>2. ASSUME NEW f \in files, NEW p \in Post, NEW w \in PilotWallet, StartPost(p, w, f)
      PROVE  PilotInv'
  BY <1>2, StartIsSafe
<1>3. ASSUME NEW p \in Post, SaveStatement(p) \/ AnswerRecorded(p) \/ BreakOff(p)
      PROVE  PilotInv'
  BY <1>3, SaveIsSafe, EndIsSafe
<1> QED
  BY <1>1, <1>2, <1>3, CommandsAreSafe DEF PilotNext

\* RecordedIsStored: everything that a 202 acknowledged is a row of the tables,
\* however many posts overlapped, broke off and were repeated.
THEOREM AcknowledgedIsStored == PilotSpec => []RecordedIsStored
<1>1. PilotInv => RecordedIsStored
  BY DEF PilotInv
<1> QED
  BY <1>1, PilotAssumption, PilotInitSafe, PilotNextSafe, PTL DEF PilotSpec

-----------------------------------------------------------------------------
(* The two summaries of a pilot.  An identifier is of one item, which only *)
(* a withdrawal changes; a post that meets no other brings its whole file  *)
(* into the rows.  Then a file that knows every row is the rows.           *)

\* two states of one item: a withdrawal changes the status of a consent, and nothing
\* changes anything else
Alike(i, j) ==
    /\ i.id = j.id /\ i.kind = j.kind /\ i.name = j.name
    /\ i.kind # "consent" => i = j

\* the files in S and the rows in H, of which n commands made all items
KnownIn(S, H) == (UNION {Items(f) : f \in S}) \cup H

Coherent(K, n) ==
    /\ \A i \in K : i \in PilotItem /\ i.id <= n /\ (i.kind = "consent" => i.name \in Scope)
    /\ \A i, j \in K : i.id = j.id => Alike(i, j)

IsConsent(i, s) == i.kind = "consent" /\ i.name = s

OneAnswerPerScope(f) ==
    \A s \in Scope : \A i, j \in Items(f) : IsConsent(i, s) /\ IsConsent(j, s) => i = j

Consistent(S, H, n) ==
    /\ Coherent(KnownIn(S, H), n)
    /\ \A f \in S : OneAnswerPerScope(f)

\* every file that may still matter
Sheets ==
    files \cup {posts[p].file : p \in Serving} \cup (IF alone = None THEN {} ELSE {alone})

RowsInPlace ==
    /\ consents \in [Scope -> {None} \cup PilotItem]
    /\ \A e \in evidence : e.kind # "consent"
    /\ \A s \in Scope : consents[s] # None => IsConsent(consents[s], s)

PostsApart ==
    /\ \A p \in Serving : ~posts[p].met => Serving = {p}
    /\ alone # None => Serving = {}

\* the row of a consent says what the file says
Mirrors(i) == consents[i.name] # None /\ consents[i.name].value = i.value

MirrorsOrToDo(f, todo) ==
    \A i \in Items(f) : i.kind = "consent" => i \in Items(todo) \/ Mirrors(i)

FromFile(f, todo) ==
    \A i \in Items(todo) : i.kind # "engagement" => i \in Items(f)

PostsMirror ==
    \A p \in Serving :
        /\ FromFile(posts[p].file, posts[p].todo)
        /\ ~posts[p].met => MirrorsOrToDo(posts[p].file, posts[p].todo)

AloneIsSaved ==
    alone # None =>
        /\ alone \in Seq(PilotItem)
        /\ \A i \in Items(alone) : IF i.kind = "consent" THEN Mirrors(i) ELSE Stored(i.id)

AgreementInv ==
    /\ PilotInv
    /\ Consistent(Sheets, HostedItems, commands)
    /\ RowsInPlace /\ PostsApart /\ PostsMirror /\ AloneIsSaved

\* What is like something known is coherent with it.
LEMMA StaysCoherent ==
    ASSUME NEW K, NEW L, NEW n \in Nat, NEW m \in Nat, Coherent(K, n), n <= m,
           \A j \in L : j \in PilotItem /\ \E i \in K : Alike(i, j)
    PROVE  Coherent(L, m)
<1>1. ASSUME NEW j \in L
      PROVE  j \in PilotItem /\ j.id <= m /\ (j.kind = "consent" => j.name \in Scope)
  <2>1. PICK i \in K : Alike(i, j)
    OBVIOUS
  <2>2. j \in PilotItem /\ j.id = i.id /\ i.id <= n /\ j.id \in Nat
    BY <2>1 DEF Coherent, Alike, PilotItem
  <2>3. j.kind = "consent" => j.name \in Scope
    BY <2>1 DEF Coherent, Alike
  <2> QED
    BY <2>2, <2>3
<1>2. ASSUME NEW j \in L, NEW k \in L, j.id = k.id
      PROVE  Alike(j, k)
  <2>1. PICK i \in K : Alike(i, j)
    OBVIOUS
  <2>2. PICK h \in K : Alike(h, k)
    OBVIOUS
  <2>3. Alike(i, h)
    BY <1>2, <2>1, <2>2 DEF Coherent, Alike
  <2> QED
    BY <2>1, <2>2, <2>3 DEF Alike
<1> QED
  BY <1>1, <1>2 DEF Coherent

\* A new item has an identifier of its own.
LEMMA GrowsCoherent ==
    ASSUME NEW K, NEW L, NEW n \in Nat, Coherent(K, n),
           NEW new \in PilotItem, new.id = n + 1, new.kind = "consent" => new.name \in Scope,
           L \subseteq K \cup {new}
    PROVE  Coherent(L, n + 1)
<1>1. ASSUME NEW j \in L
      PROVE  j \in PilotItem /\ j.id <= n + 1 /\ (j.kind = "consent" => j.name \in Scope)
  <2>1. CASE j = new
    BY <2>1
  <2>2. CASE j \in K
    <3>1. j \in PilotItem /\ j.id <= n /\ j.id \in Nat
      BY <2>2 DEF Coherent, PilotItem
    <3> QED
      BY <2>2, <3>1 DEF Coherent
  <2> QED
    BY <2>1, <2>2
<1>2. \A j \in K : j.id # new.id
  <2> SUFFICES ASSUME NEW j \in K PROVE j.id # n + 1
    OBVIOUS
  <2>1. j.id <= n /\ j.id \in Nat
    BY DEF Coherent, PilotItem
  <2> QED
    BY <2>1
<1>3. ASSUME NEW j \in L, NEW k \in L, j.id = k.id
      PROVE  Alike(j, k)
  <2>1. CASE j = new
    BY <1>2, <1>3, <2>1 DEF Alike
  <2>2. CASE j # new
    BY <1>2, <1>3, <2>2 DEF Alike, Coherent
  <2> QED
    BY <2>1, <2>2
<1> QED
  BY <1>1, <1>3 DEF Coherent

\* Nothing becomes inconsistent when files go.
LEMMA FewerFiles ==
    ASSUME NEW S, NEW T, T \subseteq S, NEW H, NEW n \in Nat, NEW m \in Nat, n <= m,
           Consistent(S, H, n)
    PROVE  Consistent(T, H, m)
<1> PICK K : K = KnownIn(S, H)
  OBVIOUS
<1> PICK L : L = KnownIn(T, H)
  OBVIOUS
<1>1. L \subseteq K
  BY DEF KnownIn
<1>2. \A j \in L : j \in PilotItem /\ \E i \in K : Alike(i, j)
  BY <1>1 DEF Consistent, Coherent, Alike
<1>3. Coherent(L, m)
  BY <1>2, StaysCoherent DEF Consistent
<1> QED
  BY <1>3 DEF Consistent

\* A row may take a consent's status from a file.
LEMMA RowsFromFiles ==
    ASSUME NEW S, NEW H, NEW G, NEW n \in Nat, Consistent(S, H, n),
           \A j \in G : j \in PilotItem /\ \E i \in KnownIn(S, H) : Alike(i, j)
    PROVE  Consistent(S, G, n)
<1> PICK K : K = KnownIn(S, H)
  OBVIOUS
<1> PICK L : L = KnownIn(S, G)
  OBVIOUS
<1>1. \A j \in L : j \in PilotItem /\ \E i \in K : Alike(i, j)
  <2> SUFFICES ASSUME NEW j \in L PROVE j \in PilotItem /\ \E i \in K : Alike(i, j)
    OBVIOUS
  <2>1. CASE j \in K
    BY <2>1 DEF Consistent, Coherent, Alike
  <2>2. CASE j \in G
    BY <2>2
  <2>3. j \in K \/ j \in G
    BY DEF KnownIn
  <2> QED
    BY <2>1, <2>2, <2>3
<1>2. Coherent(L, n)
  BY <1>1, StaysCoherent DEF Consistent
<1> QED
  BY <1>2 DEF Consistent

\* A file that is made from another by adding one item is consistent with all.
LEMMA OneMoreItem ==
    ASSUME NEW S, NEW f \in S, NEW g, NEW H, NEW n \in Nat, Consistent(S, H, n),
           NEW new \in PilotItem, new.id = n + 1, new.kind = "consent" => new.name \in Scope,
           Items(g) = Items(f) \cup {new},
           \A s \in Scope : IsConsent(new, s) => \A i \in Items(f) : ~IsConsent(i, s)
    PROVE  Consistent(S \cup {g}, H, n + 1)
<1> PICK K : K = KnownIn(S, H)
  OBVIOUS
<1> PICK L : L = KnownIn(S \cup {g}, H)
  OBVIOUS
<1>1. L \subseteq K \cup {new}
  BY DEF KnownIn
<1>2. Coherent(L, n + 1)
  BY <1>1, GrowsCoherent DEF Consistent
<1>3. OneAnswerPerScope(g)
  BY DEF Consistent, OneAnswerPerScope
<1> QED
  BY <1>2, <1>3 DEF Consistent

\* So is one that is made from another by a withdrawal.
LEMMA OneWithdrawn ==
    ASSUME NEW S, NEW f \in S, NEW g, NEW H, NEW n \in Nat, Consistent(S, H, n),
           \A j \in Items(g) : j \in PilotItem /\ \E i \in Items(f) : Alike(i, j),
           OneAnswerPerScope(g)
    PROVE  Consistent(S \cup {g}, H, n + 1)
<1> PICK K : K = KnownIn(S, H)
  OBVIOUS
<1> PICK L : L = KnownIn(S \cup {g}, H)
  OBVIOUS
<1>1. \A j \in L : j \in PilotItem /\ \E i \in K : Alike(i, j)
  <2> SUFFICES ASSUME NEW j \in L PROVE j \in PilotItem /\ \E i \in K : Alike(i, j)
    OBVIOUS
  <2>1. CASE j \in K
    BY <2>1 DEF Consistent, Coherent, Alike
  <2>2. CASE j \in Items(g)
    BY <2>2 DEF KnownIn
  <2> QED
    BY <2>1, <2>2 DEF KnownIn
<1>2. n + 1 \in Nat /\ n <= n + 1
  OBVIOUS
<1>3. Coherent(L, n + 1)
  BY <1>1, <1>2, StaysCoherent DEF Consistent
<1> QED
  BY <1>3 DEF Consistent

\* A command that leaves the files consistent keeps the invariant.
LEMMA CommandKeepsAgreement ==
    ASSUME AgreementInv, PilotInv', NEW T,
           files' \cup Sheets \subseteq T, T \subseteq files' \cup Sheets,
           Consistent(T, HostedItems, commands + 1),
           commands' = commands + 1,
           UNCHANGED <<hostedVars, posts, postCount, recorded, alone>>
    PROVE  AgreementInv'
<1>1. /\ posts' = posts /\ alone' = alone /\ evidence' = evidence /\ consents' = consents
  BY DEF hostedVars
<1>2. Serving' = Serving /\ HostedItems' = HostedItems
  BY <1>1 DEF Serving, HostedItems
<1>3. Sheets' \subseteq T
  BY <1>1, <1>2 DEF Sheets
<1>4. commands + 1 \in Nat /\ commands + 1 <= commands + 1
  BY DEF AgreementInv, PilotInv, PilotTyped
<1>5. ASSUME NEW S, S = Sheets' PROVE Consistent(S, HostedItems, commands + 1)
  BY <1>3, <1>4, <1>5, FewerFiles
<1>6. Consistent(Sheets, HostedItems, commands)'
  BY <1>2, <1>5 DEF Consistent, Coherent
<1>7. (RowsInPlace /\ PostsApart /\ PostsMirror /\ AloneIsSaved)'
  BY <1>1, <1>2 DEF AgreementInv, RowsInPlace, PostsApart, PostsMirror, AloneIsSaved,
     MirrorsOrToDo, Mirrors, Stored
<1> QED
  BY <1>6, <1>7 DEF AgreementInv

\* A file with one more item keeps the invariant.
LEMMA AppendKeepsAgreement ==
    ASSUME AgreementInv, PilotInv', NEW f \in files,
           NEW k \in EvidenceKinds \cup {"consent"}, NEW name, NEW value, NEW at,
           Item(k, name, value, at) \in PilotItem,
           k = "consent" => name \in Scope /\ \A i \in Items(f) : i.kind = "consent" => i.name # name,
           WriteExclusive(Append(f, Item(k, name, value, at)))
    PROVE  AgreementInv'
<1> PICK new \in PilotItem : new = Item(k, name, value, at)
  OBVIOUS
<1>1. new.id = commands + 1 /\ new.kind = k /\ new.name = name
  BY DEF Item
<1>2. commands \in Nat /\ f \in Seq(PilotItem) /\ f \in Sheets
  BY DEF AgreementInv, PilotInv, PilotTyped, Sheets
<1> PICK g : g = Append(f, new)
  OBVIOUS
<1>3. Items(g) = Items(f) \cup {new}
  <2>1. /\ DOMAIN f = 1 .. Len(f) /\ DOMAIN g = 1 .. (Len(f) + 1) /\ Len(f) \in Nat
        /\ g[Len(f) + 1] = new /\ \A n \in DOMAIN f : g[n] = f[n]
    BY <1>2
  <2>2. \A n \in DOMAIN g : g[n] \in Items(f) \cup {new}
    <3> SUFFICES ASSUME NEW n \in DOMAIN g, n # Len(f) + 1 PROVE g[n] \in Items(f)
      BY <2>1
    <3>1. n \in DOMAIN f
      BY <2>1
    <3> QED
      BY <2>1, <3>1 DEF Items
  <2>3. \A n \in DOMAIN f : n \in DOMAIN g
    BY <2>1
  <2>4. Len(f) + 1 \in DOMAIN g
    BY <2>1
  <2> QED
    BY <2>1, <2>2, <2>3, <2>4 DEF Items
<1>4. \A s \in Scope : IsConsent(new, s) => \A i \in Items(f) : ~IsConsent(i, s)
  BY <1>1 DEF IsConsent
<1>5. Consistent(Sheets, HostedItems, commands) /\ (new.kind = "consent" => new.name \in Scope)
  BY <1>1 DEF AgreementInv
<1>6. Consistent(Sheets \cup {g}, HostedItems, commands + 1)
  BY <1>1, <1>2, <1>3, <1>4, <1>5, OneMoreItem
<1>7. /\ files' = files \cup {g} /\ commands' = commands + 1
      /\ UNCHANGED <<hostedVars, posts, postCount, recorded, alone>>
  BY DEF WriteExclusive
<1>8. files' \cup Sheets \subseteq Sheets \cup {g} /\ Sheets \cup {g} \subseteq files' \cup Sheets
  BY <1>7 DEF Sheets
<1> QED
  BY <1>6, <1>7, <1>8, CommandKeepsAgreement

\* A withdrawal in a file keeps the invariant.
LEMMA WithdrawalKeepsAgreement ==
    ASSUME AgreementInv, PilotInv', NEW f \in files, NEW s \in Scope, WithdrawConsent(f, s)
    PROVE  AgreementInv'
<1> DEFINE W(i) == IF i.kind = "consent" /\ i.name = s
                     THEN [i EXCEPT !.value = "withdrawn"] ELSE i
           g == [n \in DOMAIN f |-> W(f[n])]
<1>1. commands \in Nat /\ f \in Seq(PilotItem) /\ f \in Sheets
  BY DEF AgreementInv, PilotInv, PilotTyped, Sheets
<1>2. \A n \in DOMAIN f : f[n] \in PilotItem
  BY <1>1
<1>3. ASSUME NEW i \in PilotItem
      PROVE  W(i) \in PilotItem /\ Alike(i, W(i))
  BY <1>3 DEF PilotItem, Alike
<1>4. Consistent(Sheets, HostedItems, commands)
  BY DEF AgreementInv
<1>5. OneAnswerPerScope(f)
  BY <1>1, <1>4 DEF Consistent
<1>6. WriteExclusive(g)
  BY DEF WithdrawConsent
<1> HIDE DEF W
<1>7. \A j \in Items(g) : \E i \in Items(f) : j = W(i)
  BY DEF Items
<1>8. \A j \in Items(g) : j \in PilotItem /\ \E i \in Items(f) : Alike(i, j)
  BY <1>2, <1>3, <1>7 DEF Items
<1>9. OneAnswerPerScope(g)
  <2> SUFFICES ASSUME NEW t \in Scope, NEW j \in Items(g), NEW k \in Items(g),
                      IsConsent(j, t), IsConsent(k, t)
               PROVE  j = k
    BY DEF OneAnswerPerScope
  <2>1. PICK i \in Items(f) : j = W(i)
    BY <1>7
  <2>2. PICK h \in Items(f) : k = W(h)
    BY <1>7
  <2>3. i \in PilotItem /\ h \in PilotItem
    BY <1>2 DEF Items
  <2>4. IsConsent(i, t) /\ IsConsent(h, t)
    BY <1>3, <2>1, <2>2, <2>3 DEF IsConsent, Alike
  <2> QED
    BY <1>5, <2>1, <2>2, <2>4 DEF OneAnswerPerScope
<1> HIDE DEF g
<1>10. Consistent(Sheets \cup {g}, HostedItems, commands + 1)
  BY <1>1, <1>4, <1>8, <1>9, OneWithdrawn
<1>11. /\ files' = files \cup {g} /\ commands' = commands + 1
       /\ UNCHANGED <<hostedVars, posts, postCount, recorded, alone>>
  BY <1>6 DEF WriteExclusive
<1>12. files' \cup Sheets \subseteq Sheets \cup {g} /\ Sheets \cup {g} \subseteq files' \cup Sheets
  BY <1>11 DEF Sheets
<1> QED
  BY <1>10, <1>11, <1>12, CommandKeepsAgreement

\* What the table has of a consent after its statement.
LEMMA ConsentIsMerged ==
    ASSUME RowsInPlace, NEW i \in PilotItem, i.kind = "consent", i.name \in Scope,
           SaveConsentGrant(i), PilotAssumption
    PROVE  \E m \in PilotItem :
             /\ consents' = [consents EXCEPT ![i.name] = m]
             /\ m # None /\ m.value = i.value /\ IsConsent(m, i.name)
             /\ m = i \/ (consents[i.name] # None /\ Alike(consents[i.name], m))
<1> DEFINE m == MergeConsent(i)
<1>1. consents' = [consents EXCEPT ![i.name] = m]
  BY DEF SaveConsentGrant
<1>2. CASE consents[i.name] = None
  <2>1. m = i
    BY <1>2 DEF MergeConsent
  <2> QED
    BY <1>1, <2>1 DEF IsConsent, PilotAssumption
<1>3. CASE consents[i.name] # None
  <2>1. PICK c \in PilotItem : c = consents[i.name] /\ IsConsent(c, i.name)
    BY <1>3 DEF RowsInPlace
  <2>2. m = [c EXCEPT !.value = i.value]
    BY <1>3, <2>1 DEF MergeConsent
  <2>3. m \in PilotItem /\ m.value = i.value /\ m.id = c.id /\ m.kind = c.kind /\ m.name = c.name
    BY <2>2 DEF PilotItem
  <2>4. Alike(c, m) /\ IsConsent(m, i.name)
    BY <2>1, <2>3 DEF Alike, IsConsent
  <2> QED
    BY <1>1, <1>3, <2>1, <2>3, <2>4 DEF PilotAssumption
<1> QED
  BY <1>2, <1>3

\* What a statement of a file's item does to the rows: it adds one that comes from the
\* file, or makes a consent's row say what the item says.
LEMMA StatementMirrors ==
    ASSUME RowsInPlace, PilotAssumption, NEW i, i.kind # "engagement" => i \in PilotItem,
           i.kind = "consent" => i.name \in Scope,
           \/ i.kind = "engagement" /\ SavePilotEngagement(i.owner)
           \/ i.kind = "intervention" /\ SaveSupportIntervention(i)
           \/ i.kind = "event" /\ AppendActivationEvent(i)
           \/ i.kind = "consent" /\ SaveConsentGrant(i)
           \/ i.kind = "observation" /\ SaveRetentionObservation(i)
           \/ i.kind = "answer" /\ SaveWillingnessToPay(i)
    PROVE  /\ RowsInPlace'
           /\ \A j \in HostedItems' :
                \/ j \in HostedItems
                \/ j = i /\ i.kind # "engagement"
                \/ j \in PilotItem /\ \E h \in HostedItems : Alike(h, j)
           /\ i.kind = "consent" => Mirrors(i)'
           /\ \A j : j.name \in Scope =>
                \/ i.kind = "consent" /\ j.name = i.name
                \/ ~Mirrors(j)
                \/ Mirrors(j)'
<1>1. CASE i.kind = "consent"
  <2>1. SaveConsentGrant(i) /\ i \in PilotItem /\ i.name \in Scope
    BY <1>1
  <2>2. PICK m \in PilotItem :
          /\ consents' = [consents EXCEPT ![i.name] = m]
          /\ m # None /\ m.value = i.value /\ IsConsent(m, i.name)
          /\ m = i \/ (consents[i.name] # None /\ Alike(consents[i.name], m))
    BY <1>1, <2>1, ConsentIsMerged
  <2>3. evidence' = evidence /\ consents \in [Scope -> {None} \cup PilotItem]
    BY <2>1 DEF SaveConsentGrant, RowsInPlace
  <2>4. /\ consents' \in [Scope -> {None} \cup PilotItem]
        /\ consents'[i.name] = m /\ \A s : s # i.name /\ s \in Scope => consents'[s] = consents[s]
    BY <2>1, <2>2, <2>3
  <2>5. RowsInPlace'
    BY <2>2, <2>3, <2>4 DEF RowsInPlace
  <2>6. \A j \in HostedItems' : j \in HostedItems \/ j = m
    BY <2>3, <2>4 DEF HostedItems
  <2>7. consents[i.name] # None => consents[i.name] \in HostedItems
    BY <2>1 DEF HostedItems
  <2>8. Mirrors(i)'
    BY <2>2, <2>4 DEF Mirrors
  <2>9. \A j : j.name \in Scope => j.name = i.name \/ ~Mirrors(j) \/ Mirrors(j)'
    BY <2>4 DEF Mirrors
  <2> QED
    BY <1>1, <2>2, <2>5, <2>6, <2>7, <2>8, <2>9
<1>2. CASE i.kind # "consent"
  <2>1. consents' = consents /\ (evidence' = evidence \/ (i.kind # "engagement" /\ evidence' = evidence \cup {i}))
    BY <1>2 DEF SavePilotEngagement, SaveSupportIntervention, AppendActivationEvent,
       SaveRetentionObservation, SaveWillingnessToPay, Insert
  <2>2. \A j \in HostedItems' : j \in HostedItems \/ (j = i /\ i.kind # "engagement")
    BY <2>1 DEF HostedItems
  <2>3. RowsInPlace'
    BY <1>2, <2>1 DEF RowsInPlace
  <2>4. \A j : ~Mirrors(j) \/ Mirrors(j)'
    BY <2>1 DEF Mirrors
  <2> QED
    BY <1>2, <2>2, <2>3, <2>4
<1> QED
  BY <1>1, <1>2

\* Starting a post keeps the invariant: a post that is alone has everything to do.
LEMMA StartKeepsAgreement ==
    ASSUME AgreementInv, PilotInv',
           NEW p \in Post, NEW w \in PilotWallet, NEW f \in files, StartPost(p, w, f)
    PROVE  AgreementInv'
<1>1. f \in Seq(PilotItem) /\ commands \in Nat
  BY DEF AgreementInv, PilotInv, PilotTyped
<1>2. PICK todo \in Seq(Statement) :
        /\ todo = Statements(w, f)
        /\ \A i \in Items(f) : i \in Items(todo)
        /\ FromFile(f, todo)
  BY <1>1, StatementsOfAll DEF FromFile
<1>3. PICK met \in BOOLEAN : met = (Serving # {})
  OBVIOUS
<1>4. posts' = [q \in Post |->
                  IF q = p THEN [file |-> f, todo |-> todo, met |-> met]
                  ELSE IF q \in Serving THEN [posts[q] EXCEPT !.met = TRUE] ELSE None]
  BY <1>2, <1>3 DEF StartPost
<1>5. /\ files' = files /\ commands' = commands /\ evidence' = evidence
      /\ consents' = consents /\ alone' = None
  BY DEF StartPost, localVars, hostedVars
<1> DEFINE Kept == [file : Seq(PilotItem), todo : Seq(Statement), met : BOOLEAN]
<1>6. \A q \in Serving : posts[q] \in Kept
  BY DEF Serving, AgreementInv, PilotInv, PilotTyped
<1>7. ASSUME NEW r \in Kept
      PROVE  /\ [r EXCEPT !.met = TRUE].met = TRUE
             /\ [r EXCEPT !.met = TRUE].file = r.file
             /\ [r EXCEPT !.met = TRUE].todo = r.todo
  BY <1>7
<1>8. posts'[p].file = f /\ posts'[p].todo = todo /\ posts'[p].met = met
  BY <1>4
<1>9. ASSUME NEW q \in Serving', q # p
      PROVE  /\ q \in Serving /\ posts'[q].met = TRUE
             /\ posts'[q].file = posts[q].file /\ posts'[q].todo = posts[q].todo
  <2>1. q \in Serving /\ posts'[q] = [posts[q] EXCEPT !.met = TRUE]
    BY <1>4, <1>9 DEF Serving
  <2>2. PICK r \in Kept : r = posts[q]
    BY <1>6, <2>1
  <2> QED
    BY <1>7, <2>1, <2>2
<1> HIDE DEF Kept
<1>10. HostedItems' = HostedItems
  BY <1>5 DEF HostedItems
<1>11. Sheets' \subseteq Sheets
  BY <1>5, <1>8, <1>9 DEF Sheets
<1>12. ASSUME NEW S, S = Sheets' PROVE Consistent(S, HostedItems, commands)
  BY <1>1, <1>11, <1>12, FewerFiles DEF AgreementInv
<1>13. Consistent(Sheets, HostedItems, commands)'
  BY <1>5, <1>10, <1>12 DEF Consistent, Coherent
<1>14. RowsInPlace'
  BY <1>5 DEF AgreementInv, RowsInPlace
<1>15. PostsApart'
  <2> SUFFICES ASSUME NEW q \in Serving', ~posts'[q].met PROVE Serving' = {q}
    BY <1>5 DEF PostsApart
  <2>1. q = p
    BY <1>9
  <2>2. Serving = {}
    BY <1>3, <1>8, <2>1
  <2> QED
    BY <1>9, <2>1, <2>2
<1>16. PostsMirror'
  <2> SUFFICES ASSUME NEW q \in Serving'
               PROVE  /\ FromFile(posts[q].file, posts[q].todo)'
                      /\ ~posts'[q].met => MirrorsOrToDo(posts[q].file, posts[q].todo)'
    BY DEF PostsMirror
  <2>1. CASE q = p
    BY <1>2, <1>8, <2>1 DEF FromFile, MirrorsOrToDo
  <2>2. CASE q # p
    BY <1>9, <2>2 DEF AgreementInv, PostsMirror, FromFile
  <2> QED
    BY <2>1, <2>2
<1>17. AloneIsSaved'
  BY <1>5 DEF AloneIsSaved
<1> QED
  BY <1>13, <1>14, <1>15, <1>16, <1>17 DEF AgreementInv

\* So does one statement: what leaves the list of a post that is alone is in the rows.
LEMMA SaveKeepsAgreement ==
    ASSUME PilotAssumption, AgreementInv, PilotInv', NEW p \in Post, SaveStatement(p)
    PROVE  AgreementInv'
<1> DEFINE Kept == [file : Seq(PilotItem), todo : Seq(Statement), met : BOOLEAN]
<1>1. PICK r \in Kept : r = posts[p] /\ r.todo # <<>> /\ p \in Serving
  BY DEF AgreementInv, PilotInv, PilotTyped, SaveStatement, Serving
<1>2. PICK todo \in Seq(Statement) : todo = r.todo /\ todo # <<>>
  BY <1>1
<1>3. PICK rest \in Seq(Statement) : rest = Tail(todo)
  BY <1>2, HeadAndTail
<1>4. PICK i \in Statement : i = Head(todo)
  BY <1>2, HeadAndTail
<1>5. Items(todo) = {i} \cup Items(rest)
  BY <1>2, <1>3, <1>4, HeadAndTail
<1>6. FromFile(r.file, todo) /\ (~r.met => MirrorsOrToDo(r.file, todo))
  BY <1>1, <1>2 DEF AgreementInv, PostsMirror
<1>7. Consistent(Sheets, HostedItems, commands) /\ r.file \in Sheets
  BY <1>1 DEF AgreementInv, Sheets
<1>8. \A j \in Items(r.file) :
        j \in KnownIn(Sheets, HostedItems) /\ j \in PilotItem /\ (j.kind = "consent" => j.name \in Scope)
  BY <1>7 DEF Consistent, Coherent, KnownIn
<1>9. i.kind # "engagement" => i \in Items(r.file)
  BY <1>5, <1>6 DEF FromFile
<1>10. /\ RowsInPlace'
       /\ \A j \in HostedItems' :
            \/ j \in HostedItems
            \/ j = i /\ i.kind # "engagement"
            \/ j \in PilotItem /\ \E h \in HostedItems : Alike(h, j)
       /\ i.kind = "consent" => Mirrors(i)'
       /\ \A j : j.name \in Scope =>
            \/ i.kind = "consent" /\ j.name = i.name
            \/ ~Mirrors(j)
            \/ Mirrors(j)'
  <2>1. \/ i.kind = "engagement" /\ SavePilotEngagement(i.owner)
        \/ i.kind = "intervention" /\ SaveSupportIntervention(i)
        \/ i.kind = "event" /\ AppendActivationEvent(i)
        \/ i.kind = "consent" /\ SaveConsentGrant(i)
        \/ i.kind = "observation" /\ SaveRetentionObservation(i)
        \/ i.kind = "answer" /\ SaveWillingnessToPay(i)
    <3>1. i.kind \in EvidenceKinds \cup {"consent", "engagement"}
      BY DEF Statement, PilotItem
    <3> QED
      BY <1>1, <1>2, <1>4, <3>1 DEF SaveStatement, EvidenceKinds
  <2>2. /\ RowsInPlace
        /\ i.kind # "engagement" => i \in PilotItem
        /\ i.kind = "consent" => i.name \in Scope
    BY <1>8, <1>9 DEF AgreementInv
  <2> QED
    BY <2>1, <2>2, StatementMirrors
<1>11. posts' = [posts EXCEPT ![p] = [file |-> r.file, todo |-> rest, met |-> r.met]]
  <2>1. posts' = [posts EXCEPT ![p] = [posts[p] EXCEPT !.todo = Tail(posts[p].todo)]]
    BY DEF SaveStatement
  <2>2. [r EXCEPT !.todo = rest] = [file |-> r.file, todo |-> rest, met |-> r.met]
    BY <1>1
  <2> QED
    BY <1>1, <1>2, <1>3, <2>1, <2>2
<1>12. files' = files /\ commands' = commands /\ alone' = alone /\ commands \in Nat
  BY DEF SaveStatement, localVars, AgreementInv, PilotInv, PilotTyped
<1>13. /\ posts'[p].file = r.file /\ posts'[p].todo = rest /\ posts'[p].met = r.met
       /\ \A q \in Post : q # p => posts'[q] = posts[q]
  BY <1>11 DEF AgreementInv, PilotInv, PilotTyped
<1> HIDE DEF Kept
<1>14. \A q \in Serving' :
         q \in Serving /\ posts'[q].file = posts[q].file /\ posts'[q].met = posts[q].met
  BY <1>1, <1>13 DEF Serving
<1>15. alone = None
  BY <1>1 DEF AgreementInv, PostsApart
<1>16. Sheets' \subseteq Sheets
  BY <1>12, <1>14 DEF Sheets
<1>17. ASSUME NEW S, S = Sheets', NEW H, H = HostedItems' PROVE Consistent(S, H, commands)
  <2>1. \A j \in H : j \in PilotItem /\ \E h \in KnownIn(Sheets, HostedItems) : Alike(h, j)
    <3> SUFFICES ASSUME NEW j \in H
                 PROVE  j \in PilotItem /\ \E h \in KnownIn(Sheets, HostedItems) : Alike(h, j)
      OBVIOUS
    <3>1. CASE j \in HostedItems
      BY <1>7, <3>1 DEF Consistent, Coherent, KnownIn, Alike
    <3>2. CASE j = i /\ i.kind # "engagement"
      BY <1>8, <1>9, <3>2 DEF Alike
    <3>3. CASE j \in PilotItem /\ \E h \in HostedItems : Alike(h, j)
      BY <3>3 DEF KnownIn
    <3> QED
      BY <1>10, <1>17, <3>1, <3>2, <3>3
  <2>2. Consistent(Sheets, H, commands)
    BY <1>7, <1>12, <2>1, RowsFromFiles
  <2> QED
    BY <1>12, <1>16, <1>17, <2>2, FewerFiles
<1>18. Consistent(Sheets, HostedItems, commands)'
  BY <1>12, <1>17 DEF Consistent, Coherent
<1>19. PostsApart'
  BY <1>1, <1>12, <1>14, <1>15 DEF AgreementInv, PostsApart
<1>20. FromFile(r.file, rest)
  BY <1>5, <1>6 DEF FromFile
<1>21. ASSUME ~r.met, NEW c \in Items(r.file), c.kind = "consent", c \notin Items(rest)
       PROVE  Mirrors(c)'
  <2>1. c = i \/ Mirrors(c)
    BY <1>5, <1>6, <1>21 DEF MirrorsOrToDo
  <2>2. c.name \in Scope
    BY <1>8, <1>21
  <2>3. CASE i.kind = "consent" /\ c.name = i.name
    <3>1. i \in Items(r.file)
      BY <1>9, <2>3
    <3>2. c = i
      BY <1>7, <1>21, <2>2, <2>3, <3>1 DEF Consistent, OneAnswerPerScope, IsConsent
    <3> QED
      BY <1>10, <2>3, <3>2
  <2>4. CASE ~(i.kind = "consent" /\ c.name = i.name)
    BY <1>10, <1>21, <2>1, <2>2, <2>4
  <2> QED
    BY <2>3, <2>4
<1>22. PostsMirror'
  <2> SUFFICES ASSUME NEW q \in Serving'
               PROVE  /\ FromFile(posts[q].file, posts[q].todo)'
                      /\ ~posts'[q].met => MirrorsOrToDo(posts[q].file, posts[q].todo)'
    BY DEF PostsMirror
  <2>1. CASE q = p
    BY <1>13, <1>20, <1>21, <2>1 DEF FromFile, MirrorsOrToDo
  <2>2. CASE q # p
    <3>1. posts'[q] = posts[q] /\ q \in Serving
      BY <1>13, <1>14, <2>2 DEF Serving
    <3>2. posts[q].met
      BY <1>1, <2>2, <3>1 DEF AgreementInv, PostsApart
    <3> QED
      BY <3>1, <3>2 DEF AgreementInv, PostsMirror, FromFile
  <2> QED
    BY <2>1, <2>2
<1>23. AloneIsSaved'
  BY <1>12, <1>15 DEF AloneIsSaved
<1> QED
  BY <1>10, <1>18, <1>19, <1>22, <1>23 DEF AgreementInv

\* A post that ends keeps the invariant: one that is alone and has nothing left to do
\* has brought every item of its file into the rows.
LEMMA EndKeepsAgreement ==
    ASSUME AgreementInv, PilotInv', NEW p \in Post, AnswerRecorded(p) \/ BreakOff(p)
    PROVE  AgreementInv'
<1>1. /\ posts' = [posts EXCEPT ![p] = None]
      /\ files' = files /\ commands' = commands /\ evidence' = evidence
      /\ consents' = consents /\ p \in Serving
  BY DEF AnswerRecorded, BreakOff, localVars, hostedVars, Serving
<1>2. commands \in Nat /\ \A q \in Serving' : q \in Serving /\ q # p /\ posts'[q] = posts[q]
  BY <1>1 DEF AgreementInv, PilotInv, PilotTyped, Serving
<1>3. alone = None
  BY <1>1 DEF AgreementInv, PostsApart
<1>4. alone' # None => AnswerRecorded(p) /\ ~posts[p].met /\ alone' = posts[p].file
  BY <1>3 DEF AnswerRecorded, BreakOff
<1>5. HostedItems' = HostedItems
  BY <1>1 DEF HostedItems
<1>6. Sheets' \subseteq Sheets
  BY <1>1, <1>2, <1>4 DEF Sheets
<1>7. ASSUME NEW S, S = Sheets' PROVE Consistent(S, HostedItems, commands)
  BY <1>2, <1>6, <1>7, FewerFiles DEF AgreementInv
<1>8. Consistent(Sheets, HostedItems, commands)'
  BY <1>1, <1>5, <1>7 DEF Consistent, Coherent
<1>9. RowsInPlace'
  BY <1>1 DEF AgreementInv, RowsInPlace
<1>10. PostsApart'
  BY <1>1, <1>2, <1>4 DEF AgreementInv, PostsApart
<1>11. PostsMirror'
  <2> SUFFICES ASSUME NEW q \in Serving'
               PROVE  /\ FromFile(posts[q].file, posts[q].todo)'
                      /\ ~posts'[q].met => MirrorsOrToDo(posts[q].file, posts[q].todo)'
    BY DEF PostsMirror
  <2> QED
    BY <1>1, <1>2 DEF AgreementInv, PostsMirror, FromFile, MirrorsOrToDo, Mirrors
<1>12. AloneIsSaved'
  <2> SUFFICES ASSUME alone' # None, NEW i \in Items(posts[p].file)
               PROVE  IF i.kind = "consent" THEN Mirrors(i)' ELSE Stored(i.id)'
    <3>1. posts[p].file \in Seq(PilotItem)
      BY <1>1 DEF AgreementInv, PilotInv, PilotTyped, Serving
    <3> QED
      BY <1>4, <3>1 DEF AloneIsSaved
  <2>1. /\ MirrorsOrToDo(posts[p].file, posts[p].todo)
        /\ StoredOrToDo(posts[p].file, posts[p].todo)
    BY <1>1, <1>4 DEF AgreementInv, PilotInv, PostsMirror
  <2>2. Items(posts[p].todo) = {}
    BY <1>4 DEF AnswerRecorded, Items
  <2>3. IF i.kind = "consent" THEN Mirrors(i) ELSE Stored(i.id)
    BY <2>1, <2>2 DEF MirrorsOrToDo, StoredOrToDo
  <2> QED
    BY <1>1, <2>3 DEF Mirrors, Stored
<1> QED
  BY <1>8, <1>9, <1>10, <1>11, <1>12 DEF AgreementInv

\* The commands keep the invariant.
LEMMA CommandsKeepAgreement ==
    ASSUME PilotAssumption, AgreementInv, NEW f \in files,
           \/ \E s \in Stage, o \in Result, at \in Instant : AddActivationEvent(f, s, o, at)
           \/ \E s \in Scope : AddConsent(f, s, TRUE) \/ AddConsent(f, s, FALSE)
           \/ \E s \in Scope : WithdrawConsent(f, s)
           \/ \E s \in Stage : AddIntervention(f, s)
           \/ \E o \in Outcome, at \in Told : ObserveDaySevenRetention(f, o, at)
           \/ \E o \in Response, at \in Told : RecordWillingnessToPay(f, o, at)
           \/ DeleteEngagement(f)
    PROVE  AgreementInv'
<1>1. PilotInv' /\ commands \in Nat
  BY CommandsAreSafe DEF AgreementInv, PilotInv, PilotTyped
<1>2. ASSUME NEW k \in EvidenceKinds,
             NEW name \in Stage \cup Scope \cup {"day7", "price"},
             NEW value \in Result \cup Outcome \cup Response
                             \cup {"support", "granted", "denied", "withdrawn"},
             NEW at \in Instant \cup Told \cup {0},
             WriteExclusive(Append(f, Item(k, name, value, at)))
      PROVE  AgreementInv'
  <2>1. Item(k, name, value, at) \in PilotItem
    BY <1>1, ItemIsTyped
  <2>2. k \in EvidenceKinds \cup {"consent"} /\ k # "consent"
    BY DEF EvidenceKinds
  <2> QED
    BY <1>1, <1>2, <2>1, <2>2, AppendKeepsAgreement
<1>3. ASSUME NEW s \in Stage, NEW o \in Result, NEW at \in Instant,
             AddActivationEvent(f, s, o, at)
      PROVE  AgreementInv'
  BY <1>2, <1>3 DEF AddActivationEvent, EvidenceKinds
<1>4. ASSUME NEW s \in Scope, NEW b \in BOOLEAN, AddConsent(f, s, b)
      PROVE  AgreementInv'
  <2>1. PICK value \in {"granted", "denied"} : value = IF b THEN "granted" ELSE "denied"
    OBVIOUS
  <2>2. Item("consent", s, value, 0) \in PilotItem
    BY <1>1, ItemIsTyped
  <2>3. WriteExclusive(Append(f, Item("consent", s, value, 0)))
    BY <1>4, <2>1 DEF AddConsent
  <2>4. \A i \in Items(f) : i.kind = "consent" => i.name # s
    BY <1>4 DEF AddConsent
  <2> QED
    BY <1>1, <2>2, <2>3, <2>4, AppendKeepsAgreement
<1>5. ASSUME NEW s \in Scope, WithdrawConsent(f, s)
      PROVE  AgreementInv'
  BY <1>1, <1>5, WithdrawalKeepsAgreement
<1>6. ASSUME NEW s \in Stage, AddIntervention(f, s)
      PROVE  AgreementInv'
  BY <1>2, <1>6 DEF AddIntervention, EvidenceKinds
<1>7. ASSUME NEW o \in Outcome, NEW at \in Told, ObserveDaySevenRetention(f, o, at)
      PROVE  AgreementInv'
  BY <1>2, <1>7 DEF ObserveDaySevenRetention, EvidenceKinds
<1>8. ASSUME NEW o \in Response, NEW at \in Told, RecordWillingnessToPay(f, o, at)
      PROVE  AgreementInv'
  BY <1>2, <1>8 DEF RecordWillingnessToPay, EvidenceKinds
<1>9. ASSUME DeleteEngagement(f)
      PROVE  AgreementInv'
  <2>1. /\ files' \subseteq files /\ commands' = commands + 1
        /\ UNCHANGED <<hostedVars, posts, postCount, recorded, alone>>
    BY <1>9 DEF DeleteEngagement
  <2>2. files' \cup Sheets \subseteq Sheets
    BY <2>1 DEF Sheets
  <2> PICK T : T = Sheets
    OBVIOUS
  <2>3. commands + 1 \in Nat /\ commands <= commands + 1
    BY <1>1
  <2>4. Consistent(T, HostedItems, commands + 1)
    BY <1>1, <2>3, FewerFiles DEF AgreementInv
  <2> QED
    BY <1>1, <2>1, <2>2, <2>4, CommandKeepsAgreement
<1> QED
  BY <1>3, <1>4, <1>5, <1>6, <1>7, <1>8, <1>9

\* The invariant holds at first, when there is one file and nothing in it.
LEMMA AgreementInitSafe ==
    PilotInit => AgreementInv
<1> SUFFICES ASSUME PilotInit PROVE AgreementInv
  OBVIOUS
<1>1. Serving = {} /\ alone = None /\ commands = 0
  BY DEF PilotInit, Serving
<1>2. Sheets = {<<>>} /\ Items(<<>>) = {}
  BY <1>1 DEF PilotInit, Sheets, Items
<1>3. HostedItems = {}
  BY DEF PilotInit, HostedItems
<1>4. KnownIn(Sheets, HostedItems) = {}
  BY <1>2, <1>3 DEF KnownIn
<1>5. Consistent(Sheets, HostedItems, commands)
  BY <1>2, <1>4 DEF Consistent, Coherent, OneAnswerPerScope
<1>6. RowsInPlace
  BY DEF PilotInit, RowsInPlace
<1> QED
  BY <1>1, <1>5, <1>6, PilotInitSafe DEF AgreementInv, PostsApart, PostsMirror, AloneIsSaved

\* Every step keeps it.
LEMMA AgreementNextSafe ==
    ASSUME PilotAssumption, AgreementInv, [PilotNext]_pilotVars
    PROVE  AgreementInv'
<1>1. PilotInv'
  BY PilotNextSafe DEF AgreementInv
<1>2. CASE UNCHANGED pilotVars
  <2>1. /\ files' = files /\ commands' = commands /\ posts' = posts
        /\ evidence' = evidence /\ consents' = consents /\ alone' = alone
    BY <1>2 DEF pilotVars, localVars, hostedVars
  <2>2. Serving' = Serving /\ HostedItems' = HostedItems
    BY <2>1 DEF Serving, HostedItems
  <2>3. Sheets' = Sheets
    BY <2>1, <2>2 DEF Sheets
  <2>4. Consistent(Sheets, HostedItems, commands)'
    BY <2>1, <2>2, <2>3 DEF AgreementInv, Consistent, Coherent
  <2>5. (RowsInPlace /\ PostsApart /\ PostsMirror /\ AloneIsSaved)'
    BY <2>1, <2>2 DEF AgreementInv, RowsInPlace, PostsApart, PostsMirror, AloneIsSaved,
       FromFile, MirrorsOrToDo, Mirrors, Stored
  <2> QED
    BY <1>1, <2>4, <2>5 DEF AgreementInv
<1>3. ASSUME NEW f \in files, NEW p \in Post, NEW w \in PilotWallet, StartPost(p, w, f)
      PROVE  AgreementInv'
  BY <1>1, <1>3, StartKeepsAgreement
<1>4. ASSUME NEW p \in Post, SaveStatement(p) \/ AnswerRecorded(p) \/ BreakOff(p)
      PROVE  AgreementInv'
  BY <1>1, <1>4, SaveKeepsAgreement, EndKeepsAgreement
<1> QED
  BY <1>2, <1>3, <1>4, CommandsKeepAgreement DEF PilotNext

\* When the file knows every row, the evidence is the file's.
LEMMA EvidenceIsTheFiles ==
    ASSUME AgreementInv, alone # None, \A h \in HostedItems : \E i \in Items(alone) : i.id = h.id
    PROVE  evidence = {i \in Items(alone) : i.kind # "consent"}
<1>1. /\ evidence \subseteq KnownIn(Sheets, HostedItems)
      /\ Items(alone) \subseteq KnownIn(Sheets, HostedItems)
  BY DEF KnownIn, HostedItems, Sheets
<1>2. \A i, j \in KnownIn(Sheets, HostedItems) : i.id = j.id => Alike(i, j)
  BY DEF AgreementInv, Consistent, Coherent
<1>3. ASSUME NEW e \in evidence
      PROVE  e \in Items(alone) /\ e.kind # "consent"
  <2>1. PICK i \in Items(alone) : i.id = e.id
    BY DEF HostedItems
  <2>2. e.kind # "consent"
    BY DEF AgreementInv, RowsInPlace
  <2> QED
    BY <1>1, <1>2, <2>1, <2>2 DEF Alike
<1>4. ASSUME NEW i \in Items(alone), i.kind # "consent"
      PROVE  i \in evidence
  <2>1. PICK e \in evidence : e.id = i.id
    BY <1>4 DEF AgreementInv, AloneIsSaved, Stored
  <2> QED
    BY <1>1, <1>2, <1>4, <2>1 DEF Alike
<1> QED
  BY <1>3, <1>4

\* And a consent is granted in the rows when it is in the file.
LEMMA GrantedAlike ==
    ASSUME AgreementInv, alone # None, \A h \in HostedItems : \E i \in Items(alone) : i.id = h.id,
           NEW s \in Scope
    PROVE  Granted(HostedItems, s) <=> Granted(Items(alone), s)
<1>1. /\ HostedItems \subseteq KnownIn(Sheets, HostedItems)
      /\ Items(alone) \subseteq KnownIn(Sheets, HostedItems)
  BY DEF KnownIn, Sheets
<1>2. \A i, j \in KnownIn(Sheets, HostedItems) : i.id = j.id => Alike(i, j)
  BY DEF AgreementInv, Consistent, Coherent
<1>3. ASSUME NEW i \in Items(alone), IsConsent(i, s)
      PROVE  consents[s] # None /\ consents[s].value = i.value /\ IsConsent(consents[s], s)
  BY <1>3 DEF AgreementInv, AloneIsSaved, Mirrors, IsConsent, RowsInPlace
<1>4. ASSUME Granted(Items(alone), s)
      PROVE  Granted(HostedItems, s)
  <2>1. PICK i \in Items(alone) : IsConsent(i, s) /\ i.value = "granted"
    BY <1>4 DEF Granted, IsConsent
  <2>2. consents[s] \in HostedItems
    BY <1>3, <2>1 DEF HostedItems
  <2> QED
    BY <1>3, <2>1, <2>2 DEF Granted, IsConsent
<1>5. ASSUME Granted(HostedItems, s)
      PROVE  Granted(Items(alone), s)
  <2>1. PICK h \in HostedItems : IsConsent(h, s) /\ h.value = "granted"
    BY <1>5 DEF Granted, IsConsent
  <2>2. PICK t \in Scope : consents[t] # None /\ h = consents[t]
    BY <2>1 DEF HostedItems, AgreementInv, RowsInPlace, IsConsent
  <2>3. t = s
    BY <2>1, <2>2 DEF AgreementInv, RowsInPlace, IsConsent
  <2>4. PICK i \in Items(alone) : i.id = h.id
    OBVIOUS
  <2>5. IsConsent(i, s)
    BY <1>1, <1>2, <2>1, <2>4 DEF Alike, IsConsent
  <2>6. i.value = "granted"
    BY <1>3, <2>1, <2>2, <2>3, <2>5
  <2> QED
    BY <2>5, <2>6 DEF Granted, IsConsent
<1> QED
  BY <1>4, <1>5

\* The last of a kind in the file is the latest in the rows, if the times follow the
\* order of the file.
LEMMA LastIsLatest ==
    ASSUME NEW f \in Seq(PilotItem), evidence = {i \in Items(f) : i.kind # "consent"},
           NEW k \in EvidenceKinds, InOrder(f, k), NEW default, PilotAssumption
    PROVE  LatestValues(k, default) = {LastValue(f, k, default)}
<1> PICK g \in Seq(PilotItem) : g = OfKind(f, k)
  BY ItemsOfKind
<1>1. Items(g) = {e \in evidence : e.kind = k}
  BY ItemsOfKind DEF EvidenceKinds
<1>2. DOMAIN g = 1 .. Len(g) /\ Len(g) \in Nat /\ \A n \in DOMAIN g : g[n] \in PilotItem
  OBVIOUS
<1>3. \A m, n \in DOMAIN g : m < n => g[m].at < g[n].at
  BY DEF InOrder
<1>4. \A i \in PilotItem : i.at \in Nat
  BY DEF PilotItem, PilotAssumption
<1>5. CASE g = <<>>
  <2>1. Items(g) = {}
    BY <1>5 DEF Items
  <2>2. Latest(k) = {}
    BY <1>1, <2>1 DEF Latest
  <2> QED
    BY <1>5, <2>2 DEF LatestValues, LastValue
<1>6. CASE g # <<>>
  <2>1. Len(g) \in DOMAIN g
    BY <1>2, <1>6
  <2>2. PICK last \in PilotItem : last = g[Len(g)]
    BY <1>2, <2>1
  <2>3. ASSUME NEW e \in Items(g)
        PROVE  e = last \/ e.at < last.at
    <3>1. PICK n \in DOMAIN g : e = g[n]
      BY DEF Items
    <3>2. n = Len(g) \/ n < Len(g)
      BY <1>2
    <3> QED
      BY <1>3, <2>1, <2>2, <3>1, <3>2
  <2>4. last \in Items(g) /\ \A e \in Items(g) : e.at \in Nat
    BY <1>2, <1>4, <2>1, <2>2 DEF Items
  <2>5. Latest(k) = {e \in Items(g) : \A d \in Items(g) : d.at <= e.at}
    BY <1>1 DEF Latest
  <2>6. \A d \in Items(g) : d.at <= last.at
    BY <2>3, <2>4
  <2>7. \A e \in Items(g) : last.at <= e.at => e = last
    <3> SUFFICES ASSUME NEW e \in Items(g), last.at <= e.at, e.at < last.at PROVE FALSE
      BY <2>3
    <3> QED
      BY <2>4
  <2>8. Latest(k) = {last}
    BY <2>4, <2>5, <2>6, <2>7
  <2>9. LastValue(f, k, default) = last.value
    BY <1>6, <2>2 DEF LastValue
  <2> QED
    BY <2>8, <2>9 DEF LatestValues
<1> QED
  BY <1>5, <1>6

\* A set of records with one value for each field has one member.
LEMMA OneRecord ==
    ASSUME NEW a, NEW b, NEW c, NEW d
    PROVE  [completed : {a}, helped : {b}, daySeven : {c}, willingness : {d}]
             = {[completed |-> a, helped |-> b, daySeven |-> c, willingness |-> d]}
<1> DEFINE R == [completed : {a}, helped : {b}, daySeven : {c}, willingness : {d}]
           r == [completed |-> a, helped |-> b, daySeven |-> c, willingness |-> d]
<1>1. r \in R
  OBVIOUS
<1>2. ASSUME NEW x \in R
      PROVE  x = r
  <2>1. x = [completed |-> x.completed, helped |-> x.helped, daySeven |-> x.daySeven,
             willingness |-> x.willingness]
    OBVIOUS
  <2>2. x.completed = a /\ x.helped = b /\ x.daySeven = c /\ x.willingness = d
    OBVIOUS
  <2> QED
    BY <2>1, <2>2
<1> HIDE DEF R, r
<1>3. R = {r}
  BY <1>1, <1>2
<1> QED
  BY <1>3 DEF R, r

\* The two summaries of such a file are one.
LEMMA SummariesAgree ==
    ASSUME PilotAssumption, AgreementInv
    PROVE  HostedAgreesWithFile
<1> SUFFICES ASSUME alone # None,
                    \A h \in HostedItems : \E i \in Items(alone) : i.id = h.id,
                    InOrder(alone, "observation"), InOrder(alone, "answer"),
                    engagement \in PilotWallet
             PROVE  GetPilotConversionSummary(engagement) = {DerivePilotConversionSummary(alone)}
  BY DEF HostedAgreesWithFile
<1>1. alone \in Seq(PilotItem)
  BY DEF AgreementInv, AloneIsSaved
<1>2. evidence = {i \in Items(alone) : i.kind # "consent"}
  BY EvidenceIsTheFiles
<1>3. \A s \in Required : Granted(HostedItems, s) <=> Granted(Items(alone), s)
  BY GrantedAlike DEF Scope
<1>4. \A h \in HostedItems : h.kind = "event" => h \in evidence
  BY DEF HostedItems, AgreementInv, RowsInPlace, IsConsent
<1>5. \A h : (h \in HostedItems /\ h.kind = "event") <=> (h \in Items(alone) /\ h.kind = "event")
  BY <1>2, <1>4 DEF HostedItems
<1>6. Passed(HostedItems) = Passed(Items(alone))
  BY <1>5 DEF Passed
<1>7. DeriveActivationStatus(HostedItems) <=> DeriveActivationStatus(Items(alone))
  BY <1>3, <1>6 DEF DeriveActivationStatus
<1>8. (\E e \in evidence : e.kind = "intervention") <=> (OfKind(alone, "intervention") # <<>>)
  <2> PICK g \in Seq(PilotItem) : g = OfKind(alone, "intervention")
    BY <1>1, ItemsOfKind
  <2>1. Items(g) = {e \in evidence : e.kind = "intervention"}
    BY <1>1, <1>2, ItemsOfKind
  <2>2. DOMAIN g = 1 .. Len(g) /\ Len(g) \in Nat /\ (g # <<>> => Len(g) > 0)
    OBVIOUS
  <2>3. g # <<>> => g[1] \in Items(g)
    BY <2>2 DEF Items
  <2>4. g = <<>> => Items(g) = {}
    BY DEF Items
  <2> QED
    BY <2>1, <2>3, <2>4
<1>9. LatestValues("observation", "ineligible") = {LastValue(alone, "observation", "ineligible")}
  BY <1>1, <1>2, LastIsLatest DEF EvidenceKinds
<1>10. LatestValues("answer", "unknown") = {LastValue(alone, "answer", "unknown")}
  BY <1>1, <1>2, LastIsLatest DEF EvidenceKinds
<1> DEFINE done == DeriveActivationStatus(HostedItems)
           helped == \E e \in evidence : e.kind = "intervention"
           seven == LastValue(alone, "observation", "ineligible")
           answer == LastValue(alone, "answer", "unknown")
<1>11. DerivePilotConversionSummary(alone) =
         [completed |-> done, helped |-> helped, daySeven |-> seven, willingness |-> answer]
  <2>1. done \in BOOLEAN /\ DeriveActivationStatus(Items(alone)) \in BOOLEAN
    BY DEF DeriveActivationStatus
  <2>2. done = DeriveActivationStatus(Items(alone))
    BY <1>7, <2>1
  <2>3. helped = (OfKind(alone, "intervention") # <<>>)
    BY <1>8
  <2> HIDE DEF done, helped
  <2> QED
    BY <2>2, <2>3 DEF DerivePilotConversionSummary
<1>12. GetPilotConversionSummary(engagement) =
         [completed : {done}, helped : {helped}, daySeven : {seven}, willingness : {answer}]
  <2> HIDE DEF done, helped, seven, answer
  <2> QED
    BY <1>9, <1>10 DEF GetPilotConversionSummary, done, helped, seven, answer
<1> HIDE DEF done, helped, seven, answer
<1>13. [completed : {done}, helped : {helped}, daySeven : {seven}, willingness : {answer}]
         = {[completed |-> done, helped |-> helped, daySeven |-> seven, willingness |-> answer]}
  BY OneRecord
<1> QED
  BY <1>11, <1>12, <1>13

\* The invariant of files, posts and rows: identifiers are of one item, posts that meet no
\* other mirror their file.
THEOREM MirrorInvariant == PilotSpec => []AgreementInv
BY PilotAssumption, AgreementInitSafe, AgreementNextSafe, PTL DEF PilotSpec

\* HostedAgreesWithFile: what the hosted query answers after a post that met no other is
\* what the participant's file says, whatever was posted, broken off or repeated before.
THEOREM HostedAnswersAsTheFile == PilotSpec => []HostedAgreesWithFile
<1>1. AgreementInv => HostedAgreesWithFile
  BY PilotAssumption, SummariesAgree
<1> QED
  BY <1>1, MirrorInvariant, PTL

-----------------------------------------------------------------------------
(* The five readings of an endpoint.  Each command's exit code is what it   *)
(* makes of an endpoint that does not change; the rest compares them.       *)

CommandsInv ==
    /\ endpoint \in EndpointOf(Seq(Entries))
    /\ exit \in [Commands -> 0 .. 4 \cup {NotRun}]
    /\ exit["doctor"] = Success /\ surroundings.url =>
         CheckEndpoint(endpoint, surroundings.localhost) /\ PolicyMatches(surroundings, endpoint)
    /\ exit["verify"] = Success => VerifyEndpoint(endpoint, surroundings.localhost)
    /\ exit["verify"] = CheckFailed => ~VerifyEndpoint(endpoint, surroundings.localhost)
    /\ exit["pay"] = Success => MayPay(endpoint)
    /\ exit["page"] = Success => HostedVerify(endpoint)
    /\ exit["page"] = CheckFailed => ~HostedVerify(endpoint)

\* Where some entry can be signed within the policy, verify judges such an entry.
LEMMA FittingIsJudged ==
    ASSUME CommandsAssumption, NEW e \in EndpointOf(Seq(Entries)),
           NEW k \in Sound(e), WithinPolicy(e.accepts[k])
    PROVE  /\ Candidates(e) # <<>>
           /\ SelectRequirement(Candidates(e), TRUE) \in Payable
<1> PICK s \in Seq(Entries) : s = e.accepts
  BY DEF EndpointOf
<1>1. DOMAIN s = 1 .. Len(s) /\ Len(s) \in Nat
  OBVIOUS
<1>2. \A i \in DOMAIN s : s[i] \in Entries
  BY <1>1
<1> DEFINE Good == {a \in Entries : Accepted(a)}
           Both == {i \in DOMAIN s : s[i] \in Good /\ s[i] \in Payable}
<1>3. k \in Both
  BY <1>1, <1>2 DEF Sound, EntryIndexes, Payable, Exact
<1>4. Both \subseteq Nat
  BY <1>1
<1> PICK i \in Both : \A j \in Both : i <= j
  BY <1>3, <1>4, LeastElement
<1>5. Candidates(e) = Selected(s, Good)
  BY DEF Candidates
<1> HIDE DEF Good
<1>6. /\ i \in DOMAIN s /\ s[i] \in Good /\ s[i] \in Payable
      /\ \A j \in DOMAIN s : s[j] \in Good /\ s[j] \in Payable => i <= j
  OBVIOUS
<1> HIDE DEF Both
<1> PICK c \in Seq(Entries) : c = Candidates(e)
  BY <1>5, SelectedIsSelection
<1> PICK p \in Seq(Entries) : p = Selected(c, Payable)
  BY SelectedIsSelection
<1>7. p # <<>> /\ Head(p) = s[i]
  BY <1>5, <1>6, FirstSelectedTwice
<1> PICK x \in Seq(Entries) : x = Selected(c, Exact)
  BY SelectedIsSelection
<1>8. Head(p \o x \o c) = Head(p)
  BY <1>7
<1>9. SelectRequirement(c, TRUE) = s[i]
  BY <1>7, <1>8 DEF SelectRequirement
<1>10. c # <<>>
  <2>1. PICK m \in DOMAIN c : c[m] = s[i]
    BY <1>5, <1>6, SelectedElements
  <2> QED
    BY <2>1
<1> QED
  BY <1>6, <1>9, <1>10

\* With or without a policy, what is judged is an entry of the answer; without one
\* it is the first exact entry, if any is exact.
LEMMA JudgedIsAnEntry ==
    ASSUME CommandsAssumption, NEW e \in EndpointOf(Seq(Entries)),
           NEW hasPolicy \in BOOLEAN, Candidates(e) # <<>>
    PROVE  \E k \in EntryIndexes(e) :
              /\ Accepted(e.accepts[k])
              /\ SelectRequirement(Candidates(e), hasPolicy) = e.accepts[k]
<1> PICK s \in Seq(Entries) : s = e.accepts
  BY DEF EndpointOf
<1> DEFINE Good == {a \in Entries : Accepted(a)}
           First == IF hasPolicy THEN Payable ELSE Exact
<1> PICK c \in Seq(Entries) : c = Candidates(e)
  BY SelectedIsSelection DEF Candidates
<1>1. \A m \in DOMAIN c : c[m] \in Good /\ \E i \in DOMAIN s : c[m] = s[i]
  <2>1. c = Selected(s, Good)
    BY DEF Candidates
  <2> HIDE DEF Good
  <2> QED
    BY <2>1, SelectedElements
<1>2. PICK p : p = Selected(c, First)
  OBVIOUS
<1>3. p \in Seq(Entries) /\ \A n \in DOMAIN p : \E m \in DOMAIN c : p[n] = c[m]
  <2> HIDE DEF First
  <2> QED
    BY <1>2, SelectedElements
<1>4. PICK x : x = Selected(c, Exact)
  OBVIOUS
<1>5. x \in Seq(Entries) /\ \A n \in DOMAIN x : \E m \in DOMAIN c : x[n] = c[m]
  BY <1>4, SelectedElements
<1>6. /\ Len(p) \in Nat /\ Len(x) \in Nat /\ Len(c) \in Nat /\ Len(c) > 0
      /\ DOMAIN p = 1 .. Len(p) /\ DOMAIN x = 1 .. Len(x) /\ DOMAIN c = 1 .. Len(c)
  BY <1>3, <1>5
<1>7. Head(p \o x \o c) = IF Len(p) > 0 THEN p[1] ELSE IF Len(x) > 0 THEN x[1] ELSE c[1]
  <2>1. /\ p \o x \in Seq(Entries) /\ Len(p \o x) = Len(p) + Len(x)
        /\ Len(p) > 0 => (p \o x)[1] = p[1]
        /\ Len(p) = 0 /\ Len(x) > 0 => (p \o x)[1] = x[1]
    <3>1. p \o x \in Seq(Entries) /\ Len(p \o x) = Len(p) + Len(x)
      BY <1>3, <1>5
    <3>2. \A n \in 1 .. Len(p) : (p \o x)[n] = p[n]
      BY <1>3, <1>5
    <3>3. \A n \in 1 .. Len(x) : (p \o x)[Len(p) + n] = x[n]
      BY <1>3, <1>5
    <3> QED
      BY <1>6, <3>1, <3>2, <3>3
  <2>2. PICK q \in Seq(Entries) : q = p \o x
    BY <2>1
  <2>3. q \o c \in Seq(Entries) /\ Len(q \o c) > 0 /\ Head(q \o c) = (q \o c)[1]
    BY <1>6
  <2>4. Len(q) \in Nat /\ (q \o c)[1] = IF Len(q) > 0 THEN q[1] ELSE c[1]
    BY <1>6
  <2> QED
    BY <1>6, <2>1, <2>2, <2>3, <2>4
<1>8. SelectRequirement(c, hasPolicy) = Head(p \o x \o c)
  BY <1>2, <1>4 DEF SelectRequirement
<1>9. PICK m \in DOMAIN c : SelectRequirement(c, hasPolicy) = c[m]
  BY <1>3, <1>5, <1>6, <1>7, <1>8
<1> QED
  BY <1>1, <1>9 DEF EntryIndexes

\* Without a policy the first exact entry is judged, if any is exact.
LEMMA FirstExactIsJudged ==
    ASSUME CommandsAssumption, NEW e \in EndpointOf(Seq(Entries)), Sound(e) # {}
    PROVE  \E i \in Sound(e) :
              /\ SelectRequirement(Candidates(e), FALSE) = e.accepts[i]
              /\ \A j \in Sound(e) : i <= j
<1> PICK s \in Seq(Entries) : s = e.accepts
  BY DEF EndpointOf
<1>1. DOMAIN s = 1 .. Len(s) /\ Len(s) \in Nat
  OBVIOUS
<1>2. \A i \in DOMAIN s : s[i] \in Entries
  BY <1>1
<1> DEFINE Good == {a \in Entries : Accepted(a)}
<1>3. Sound(e) = {i \in DOMAIN s : s[i] \in Good /\ s[i] \in Exact}
  BY <1>1, <1>2 DEF Sound, EntryIndexes, Exact
<1>4. Sound(e) \subseteq Nat
  BY <1>1, <1>3
<1> PICK i \in Sound(e) : \A j \in Sound(e) : i <= j
  BY <1>4, LeastElement
<1>5. Candidates(e) = Selected(s, Good)
  BY DEF Candidates
<1> HIDE DEF Good
<1> PICK c \in Seq(Entries) : c = Candidates(e)
  BY <1>5, SelectedIsSelection
<1> PICK x \in Seq(Entries) : x = Selected(c, Exact)
  BY SelectedIsSelection
<1>6. x # <<>> /\ Head(x) = s[i]
  BY <1>3, <1>5, FirstSelectedTwice
<1>7. Head(x \o x \o c) = Head(x)
  BY <1>6
<1>8. SelectRequirement(c, FALSE) = s[i]
  BY <1>6, <1>7 DEF SelectRequirement
<1> QED
  BY <1>8

\* What the commands made of the endpoint agrees.
LEMMA ReadingsAgree ==
    ASSUME CommandsAssumption, CommandsInv
    PROVE  ReadinessAgrees
<1> DEFINE e == endpoint
           l == surroundings.localhost
           contacted == ParseEndpoint(e, l)
           fitting == {i \in Sound(e) : WithinPolicy(e.accepts[i])}
<1>1. e \in EndpointOf(Seq(Entries))
  BY DEF CommandsInv
<1>2. ASSUME fitting # {}, contacted, e.paywalled, e.header, e.version
      PROVE  VerifyEndpoint(e, l)
  <2> PICK k \in Sound(e) : WithinPolicy(e.accepts[k])
    BY <1>2
  <2>1. Candidates(e) # <<>> /\ SelectRequirement(Candidates(e), TRUE) \in Payable
    BY <1>1, FittingIsJudged
  <2> QED
    BY <1>2, <2>1 DEF VerifyEndpoint, ProtocolChecks, Payable, Exact, WithinPolicy
<1>3. ASSUME exit["doctor"] = Success, surroundings.url, contacted
      PROVE  exit["verify"] # CheckFailed
  <2>1. CheckEndpoint(e, l) /\ PolicyMatches(surroundings, e)
    BY <1>3 DEF CommandsInv
  <2>2. PICK s \in Seq(Entries) : s = e.accepts
    BY <1>1 DEF EndpointOf
  <2>3. s # <<>> /\ 1 \in 1 .. Len(s) /\ Head(s) = s[1]
    BY <2>1, <2>2 DEF CheckEndpoint
  <2>4. 1 \in fitting
    BY <2>1, <2>2, <2>3
       DEF CheckEndpoint, PolicyMatches, Sound, EntryIndexes, Accepted
  <2>5. VerifyEndpoint(e, l)
    BY <1>2, <1>3, <2>1, <2>4 DEF CheckEndpoint
  <2> QED
    BY <2>5 DEF CommandsInv
<1>4. ASSUME exit["pay"] = Success, exit["verify"] = CheckFailed, contacted
      PROVE  fitting = {}
  BY <1>2, <1>4 DEF CommandsInv, MayPay
<1>5. ASSUME exit["verify"] = Success
      PROVE  \E k \in fitting : TRUE
  <2>1. VerifyEndpoint(e, l)
    BY <1>5 DEF CommandsInv
  <2>2. Candidates(e) # <<>>
    BY <2>1 DEF VerifyEndpoint, ProtocolChecks
  <2>3. PICK k \in EntryIndexes(e) :
          /\ Accepted(e.accepts[k])
          /\ SelectRequirement(Candidates(e), TRUE) = e.accepts[k]
    BY <1>1, <2>2, JudgedIsAnEntry
  <2>4. k \in fitting
    BY <2>1, <2>3 DEF VerifyEndpoint, ProtocolChecks, Sound
  <2> QED
    BY <2>4
<1>6. ASSUME exit["verify"] = Success, e.same
      PROVE  MayPay(e)
  <2>1. PICK k \in fitting : TRUE
    BY <1>5, <1>6
  <2>2. VerifyEndpoint(e, l)
    BY <1>6 DEF CommandsInv
  <2> QED
    BY <1>6, <2>1, <2>2
       DEF MayPay, VerifyEndpoint, ProtocolChecks, ParseEndpoint, Parses, Sound
<1>7. ASSUME exit["page"] = Success, exit["verify"] = CheckFailed
      PROVE  fitting = {}
  <2>1. HostedVerify(e) /\ ~VerifyEndpoint(e, l)
    BY <1>7 DEF CommandsInv
  <2>2. contacted
    BY <2>1 DEF HostedVerify, ProtocolChecks, ParseEndpoint
  <2> QED
    BY <1>2, <2>1, <2>2 DEF HostedVerify, ProtocolChecks
<1>8. ASSUME exit["page"] = CheckFailed, exit["verify"] = Success, e.at = "https"
      PROVE  \E i \in Sound(e) : /\ e.accepts[i].fits = "nothing"
                                 /\ \A j \in fitting : i < j
  <2>1. ~HostedVerify(e) /\ VerifyEndpoint(e, l)
    BY <1>8 DEF CommandsInv
  <2>2. PICK k \in fitting : TRUE
    BY <1>5, <1>8
  <2>3. PICK i \in Sound(e) :
          /\ SelectRequirement(Candidates(e), FALSE) = e.accepts[i]
          /\ \A j \in Sound(e) : i <= j
    BY <1>1, <2>2, FirstExactIsJudged
  <2>4. e.accepts[i].exact
    BY DEF Sound
  <2>5. e.accepts[i].fits = "nothing"
    BY <1>8, <2>1, <2>3, <2>4
       DEF HostedVerify, VerifyEndpoint, ProtocolChecks, ParseEndpoint
  <2>6. Sound(e) \subseteq Int
    BY DEF Sound, EntryIndexes
  <2>7. \A j \in fitting : i < j
    BY <2>3, <2>5, <2>6 DEF WithinPolicy
  <2> QED
    BY <2>5, <2>7
<1> QED
  BY <1>3, <1>4, <1>6, <1>7, <1>8 DEF ReadinessAgrees

\* Each command answers by what its operators say of the endpoint.
LEMMA CommandsNextSafe ==
    ASSUME CommandsAssumption, CommandsInv, [CommandsNext]_commandsVars
    PROVE  CommandsInv'
<1>1. CASE UNCHANGED commandsVars
  <2>1. endpoint' = endpoint /\ surroundings' = surroundings /\ exit' = exit
    BY <1>1 DEF commandsVars
  <2> QED
    BY <2>1 DEF CommandsInv, CheckEndpoint, PolicyMatches, VerifyEndpoint, MayPay, HostedVerify
<1> USE DEF Success, CheckFailed, InvalidInput, EnvironmentUnavailable, PaymentFailed, Commands
<1> DEFINE Right(c, code) ==
             /\ c = "doctor" /\ code = Success =>
                  "failed" \notin Findings(surroundings, endpoint)
             /\ c = "verify" /\ code = Success =>
                  VerifyEndpoint(endpoint, surroundings.localhost)
             /\ c = "verify" /\ code = CheckFailed =>
                  ~VerifyEndpoint(endpoint, surroundings.localhost)
             /\ c = "pay" /\ code = Success => MayPay(endpoint)
             /\ c = "page" /\ code = Success => HostedVerify(endpoint)
             /\ c = "page" /\ code = CheckFailed => ~HostedVerify(endpoint)
<1>2. ASSUME NEW c \in Commands, NEW code \in 0 .. 4, Exits(c, code), Right(c, code)
      PROVE  CommandsInv'
  <2>1. /\ endpoint' = endpoint /\ surroundings' = surroundings
        /\ exit' \in [Commands -> 0 .. 4 \cup {NotRun}]
        /\ exit'[c] = code /\ \A d \in Commands : d # c => exit'[d] = exit[d]
    BY <1>2 DEF Exits, CommandsInv
  <2>2. /\ CheckEndpoint(endpoint, surroundings.localhost)' =
             CheckEndpoint(endpoint, surroundings.localhost)
        /\ PolicyMatches(surroundings, endpoint)' = PolicyMatches(surroundings, endpoint)
        /\ VerifyEndpoint(endpoint, surroundings.localhost)' =
             VerifyEndpoint(endpoint, surroundings.localhost)
        /\ MayPay(endpoint)' = MayPay(endpoint)
        /\ HostedVerify(endpoint)' = HostedVerify(endpoint)
    BY <2>1
  <2>3. (c = "doctor" /\ code = Success /\ surroundings.url) =>
            /\ CheckEndpoint(endpoint, surroundings.localhost)
            /\ PolicyMatches(surroundings, endpoint)
    BY <1>2 DEF Findings, EndpointFindings, Finding
  <2> QED
    BY <1>2, <2>1, <2>2, <2>3 DEF CommandsInv
<1>3. ASSUME NEW c \in Commands, RunIncomplete(c)
      PROVE  CommandsInv'
  BY <1>2, <1>3 DEF RunIncomplete
<1>4. CASE RunCheck
  BY <1>2, <1>4 DEF RunCheck
<1>5. CASE RunVerify
  BY <1>2, <1>5 DEF RunVerify
<1>6. CASE RunPage
  BY <1>2, <1>6 DEF RunPage, NotVerified
<1>7. CASE RunPay
  BY <1>2, <1>7 DEF RunPay
<1>8. CASE RunDoctor
  BY <1>2, <1>8 DEF RunDoctor
<1> QED
  BY <1>1, <1>3, <1>4, <1>5, <1>6, <1>7, <1>8 DEF CommandsNext

\* ReadinessAgrees: check, doctor, verify, pay and the readiness page never contradict
\* one another, whatever number of entries the endpoint's answer has.
THEOREM ReadingsNeverContradict == CommandsSpec => []ReadinessAgrees
<1>1. CommandsAssumption /\ CommandsInit => CommandsInv
  BY DEF CommandsAssumption, CommandsInit, CommandsInv, Commands, Success, CheckFailed
<1>2. CommandsAssumption /\ CommandsInv => ReadinessAgrees
  BY ReadingsAgree
<1> QED
  BY <1>1, <1>2, CommandsAssumption, CommandsNextSafe, PTL DEF CommandsSpec

-----------------------------------------------------------------------------
(* The subscription scripts.  What a run has on chain depends on how far it *)
(* is: only its own transactions add to it, and those of a run that lives   *)
(* are not in limbo, but for transfers.                                     *)

Chain ==
    [authority : Nat, inits : Nat,
     grants : SUBSET [by : ScriptRun, init : Nat, left : Nat],
     plans : SUBSET (ScriptRun \cup {0}),
     subscriptions : SUBSET [by : ScriptRun, init : Nat \ {0},
                             pulled : BOOLEAN, ends : BOOLEAN],
     moved : [ScriptRun -> Nat], balance : [Kinds -> Nat]]

TransferOps == {"raceA", "raceB", "probe"}
OwnOps == TransferOps \cup {"create", "subscribe", "pull"}

Transaction ==
    [op : OwnOps, of : ScriptRun, init : Nat]
    \cup [op : {"init", "revoke", "close", "plan", "cancel", "abandon"},
          of : ScriptRun \cup {0}, init : {0}]

\* what a sweep sends
CleaningTx == [op : {"revoke", "close", "abandon"}, of : ScriptRun \cup {0}, init : {0}]

Sweeps == [first : SUBSET CleaningTx, last : SUBSET CleaningTx]

Script ==
    [at : {"sweeping", "running", "checking", "evidence", "failed"}, kind : Kinds,
     sweep : Sweeps,
     next : Nat \ {0}, init : Nat, before : Nat, won : Nat]

SubscriptionsTyped ==
    /\ chain \in Chain
    /\ limbo \subseteq Transaction
    /\ script \in [ScriptRun -> Script \cup [at : {"idle"}, kind : {"none"}]]
    /\ disturbed \in [ScriptRun -> BOOLEAN]

OwnTx(tx, r) == tx.of = r /\ tx.op \in OwnOps

\* nothing of r is on chain or may land
Untouched(r) ==
    /\ chain.moved[r] = 0 /\ Grants(r) = {} /\ Subscribed(r) = {}
    /\ \A tx \in limbo : ~OwnTx(tx, r)

\* between two transfers that race, one of which may be in limbo
AgentBudgetTruth(r, s) ==
    /\ Subscribed(r) = {}
    /\ \A tx \in limbo : OwnTx(tx, r) => tx.op \in TransferOps
    /\ \A g \in Grants(r) : g.left + chain.moved[r] = MaxAtomic /\ Grants(r) = {g}
    /\ chain.moved[r] \in {0, AttemptAtomic}
    /\ s.next <= 2 => Grants(r) = {} /\ chain.moved[r] = 0
    /\ s.won > 0 => chain.moved[r] = AttemptAtomic
    /\ (s.next > 5 \/ (s.next = 5 /\ s.at = "running")) => chain.moved[r] = AttemptAtomic
    /\ s.next > 5 => Grants(r) = {}
    /\ s.at = "evidence" => s.next > 7

PlanTruth(r, s) ==
    /\ Grants(r) = {}
    /\ \A tx \in limbo : ~OwnTx(tx, r)
    /\ chain.moved[r] = IF s.next > 4 THEN AttemptAtomic ELSE 0
    /\ s.next > 7 => Subscribed(r) = {}
    /\ s.at = "evidence" => s.next > 7

PlainTruth(r, s) ==
    /\ Subscribed(r) = {}
    /\ \A tx \in limbo : ~OwnTx(tx, r)
    /\ chain.moved[r] = 0
    /\ s.next > 3 => Grants(r) = {}
    /\ s.at = "evidence" => s.next > 4

Truth(r, s) ==
    /\ s.at \in {"idle", "sweeping"} => Untouched(r)
    /\ s.at = "sweeping" => s.next = 1 /\ s.init = 0 /\ s.won = 0
    /\ s.at \in {"running", "checking", "evidence"} =>
         /\ s.kind = "agentBudget" => AgentBudgetTruth(r, s)
         /\ s.kind = "plan" => PlanTruth(r, s)
         /\ s.kind = "plain" => PlainTruth(r, s)

EvidenceInv ==
    /\ SubscriptionsTyped
    /\ \A r \in ScriptRun : \A s \in {script[r]} : Truth(r, s)

\* What lets a run that nothing disturbs go on: nobody else is under way and nothing
\* may land; a sweep takes what is still there, and the first step follows a sweep.
Alone(r) == limbo = {} /\ \A q \in ScriptRun \ {r} : ~Active(q)

AgentBudgetSweeps(s) ==
    /\ s.sweep.first \subseteq {Tx("revoke", g.by, 0) : g \in chain.grants}
    /\ s.sweep.last = Close

AgentBudgetRuns(r, s) ==
    /\ s.next = 1 => s.at = "running" /\ chain.authority = 0
    /\ s.next = 1 \/ (s.next = 2 /\ s.at = "checking") => s.init = 0
    /\ s.next \in 2 .. 7 => chain.authority # 0
    /\ s.next = 2 /\ s.at = "running" => s.init = chain.authority
    /\ s.next < 4 => s.won = 0 /\ chain.balance[s.kind] = s.before
    /\ s.next = 3 => \E g \in Grants(r) : g.init = chain.authority /\ g.left = MaxAtomic
    /\ s.next \in {4, 5} =>
         /\ s.won = 1 /\ Grants(r) # {}
         /\ chain.balance[s.kind] = s.before + AttemptAtomic

PlanSweeps(s) ==
    /\ s.sweep.first = Close
    /\ s.sweep.last \subseteq {Tx("abandon", u.by, 0) : u \in chain.subscriptions}

PlanRuns(r, s) ==
    /\ s.next = 1 => s.at = "running" /\ chain.authority = 0
    /\ s.next = 1 \/ (s.next = 2 /\ s.at = "checking") => s.init = 0
    /\ s.next \in 2 .. 6 => chain.authority # 0
    /\ s.next = 3 \/ (s.next = 2 /\ s.at = "running") => s.init = chain.authority
    /\ s.next < 5 => chain.balance[s.kind] = s.before
    /\ s.next = 3 => r \in chain.plans
    /\ s.next = 4 => \E u \in Subscribed(r) : u.init = chain.authority /\ ~u.pulled
    /\ s.next = 5 =>
         /\ chain.balance[s.kind] = s.before + AttemptAtomic
         /\ \E u \in Subscribed(r) : u.pulled
    /\ s.next = 6 => \E u \in Subscribed(r) : u.ends
    /\ s.next = 7 => chain.authority = 0 /\ Subscribed(r) # {}

Recovers(r, s) ==
    disturbed[r] = FALSE /\ s.kind \in {"agentBudget", "plan"} =>
      /\ s.at # "failed"
      /\ s.at \in {"sweeping", "running", "checking"} =>
           /\ Alone(r)
           /\ s.kind = "agentBudget" =>
                IF s.at = "sweeping" THEN AgentBudgetSweeps(s) ELSE AgentBudgetRuns(r, s)
           /\ s.kind = "plan" => IF s.at = "sweeping" THEN PlanSweeps(s) ELSE PlanRuns(r, s)

RecoverInv == \A r \in ScriptRun : \A s \in {script[r]} : Recovers(r, s)

GrantsIn(c, r) == {g \in c.grants : g.by = r}
SubscribedIn(c, r) == {u \in c.subscriptions : u.by = r}

\* What each instruction leaves of the accounts.
LEMMA OutcomesAre ==
    ASSUME NEW c, NEW tx \in Transaction
    PROVE  /\ tx.op = "init" => Outcomes(c, tx) = InitAuthority(c)
           /\ tx.op = "create" => Outcomes(c, tx) = CreateFixed(c, tx.of, tx.init)
           /\ tx.op \in TransferOps => Outcomes(c, tx) = TransferFixed(c, tx.of)
           /\ tx.op = "revoke" => Outcomes(c, tx) = RevokeDelegation(c, tx.of)
           /\ tx.op = "close" => Outcomes(c, tx) = RevokeAllForMint(c)
           /\ tx.op = "plan" => Outcomes(c, tx) = CreatePlan(c, tx.of)
           /\ tx.op = "subscribe" => Outcomes(c, tx) = Subscribe(c, tx.of, tx.init)
           /\ tx.op = "pull" => Outcomes(c, tx) = TransferSubscription(c, tx.of)
           /\ tx.op = "cancel" => Outcomes(c, tx) = CancelSubscription(c, tx.of)
           /\ tx.op = "abandon" => Outcomes(c, tx) = RevokeAbandoned(c, tx.of)
           /\ tx.op \in OwnOps \cup {"init", "revoke", "close", "plan", "cancel", "abandon"}
           /\ tx.op \in OwnOps => tx.of \in ScriptRun
           /\ tx.of \in ScriptRun \cup {0} /\ tx.init \in Nat
<1>1. /\ tx.op \in OwnOps \cup {"init", "revoke", "close", "plan", "cancel", "abandon"}
      /\ tx.op \in OwnOps => tx.of \in ScriptRun
      /\ tx.of \in ScriptRun \cup {0} /\ tx.init \in Nat
  BY DEF Transaction, OwnOps, TransferOps
<1> PICK op, of, init : op = tx.op /\ of = tx.of /\ init = tx.init
  OBVIOUS
<1>2. op = "init" => Outcomes(c, tx) = InitAuthority(c)
  BY DEF Outcomes
<1>3. op = "create" => Outcomes(c, tx) = CreateFixed(c, of, init)
  BY DEF Outcomes
<1>4. op \in TransferOps => Outcomes(c, tx) = TransferFixed(c, of)
  BY DEF Outcomes, TransferOps
<1>5. op = "revoke" => Outcomes(c, tx) = RevokeDelegation(c, of)
  BY DEF Outcomes
<1>6. op = "close" => Outcomes(c, tx) = RevokeAllForMint(c)
  BY DEF Outcomes
<1>7. op = "plan" => Outcomes(c, tx) = CreatePlan(c, of)
  BY DEF Outcomes
<1>8. op = "subscribe" => Outcomes(c, tx) = Subscribe(c, of, init)
  BY DEF Outcomes
<1>9. op = "pull" => Outcomes(c, tx) = TransferSubscription(c, of)
  BY DEF Outcomes
<1>10. op = "cancel" => Outcomes(c, tx) = CancelSubscription(c, of)
  BY DEF Outcomes
<1>11. op = "abandon" => Outcomes(c, tx) = RevokeAbandoned(c, of)
  BY DEF Outcomes
<1> QED
  BY <1>1, <1>2, <1>3, <1>4, <1>5, <1>6, <1>7, <1>8, <1>9, <1>10, <1>11

\* An allowance holds one attempt and not two.
LEMMA MaxAtomicBounds ==
    ASSUME SubscriptionsAssumption
    PROVE  /\ MaxAtomic \in Nat /\ AttemptAtomic \in Nat /\ AttemptAtomic > 0
           /\ MaxAtomic >= AttemptAtomic /\ MaxAtomic - AttemptAtomic < AttemptAtomic
<1>1. /\ AttemptAtomic \div 2 \in Nat /\ AttemptAtomic \in Nat /\ AttemptAtomic > 0
      /\ AttemptAtomic \div 2 < AttemptAtomic
  BY DEF SubscriptionsAssumption
<1> QED
  BY <1>1 DEF MaxAtomic

\* An authority is made only when there is none, with an id never used before.
LEMMA InitOutcome ==
    ASSUME NEW c \in Chain, NEW d \in InitAuthority(c)
    PROVE  /\ c.authority = 0 /\ d.authority # 0
           /\ d \in Chain /\ d.grants = c.grants /\ d.plans = c.plans
           /\ d.subscriptions = c.subscriptions /\ d.moved = c.moved /\ d.balance = c.balance
<1> PICK n \in Nat : n = c.inits + 1
  BY DEF Chain
<1>1. n # 0
  BY DEF Chain
<1>2. c.authority = 0 /\ d = [[c EXCEPT !.inits = n] EXCEPT !.authority = n]
  BY DEF InitAuthority, When
<1> QED
  BY <1>1, <1>2 DEF Chain

\* An allowance is made under the authority that its maker read.
LEMMA CreateOutcome ==
    ASSUME SubscriptionsAssumption, NEW c \in Chain, NEW r \in ScriptRun, NEW init \in Nat,
           NEW d \in CreateFixed(c, r, init)
    PROVE  \E g \in [by : ScriptRun, init : Nat, left : Nat] :
             /\ g.by = r /\ g.init = init /\ g.left = MaxAtomic
             /\ c.authority = init /\ init # 0
             /\ d \in Chain /\ d.authority = c.authority
             /\ d.grants = c.grants \cup {g} /\ d.plans = c.plans
             /\ d.subscriptions = c.subscriptions /\ d.moved = c.moved /\ d.balance = c.balance
<1> PICK g \in [by : ScriptRun, init : Nat, left : Nat] :
           g = [by |-> r, init |-> init, left |-> MaxAtomic]
  BY MaxAtomicBounds
<1>1. c.authority = init /\ init # 0 /\ d = [c EXCEPT !.grants = @ \cup {g}]
  BY DEF CreateFixed, When
<1>2. d \in Chain
  BY <1>1 DEF Chain
<1> QED
  BY <1>1, <1>2 DEF Chain

\* What arrives is counted for the run and for where its scripts send it.
LEMMA CreditedOutcome ==
    ASSUME SubscriptionsAssumption, NEW c \in Chain, NEW r \in ScriptRun, NEW kind \in Kinds,
           NEW m, m = Credited(c, r, kind)
    PROVE  /\ m \in Chain /\ m.authority = c.authority
           /\ m.grants = c.grants /\ m.plans = c.plans /\ m.subscriptions = c.subscriptions
           /\ m.moved[r] = c.moved[r] + AttemptAtomic
           /\ \A q \in ScriptRun \ {r} : m.moved[q] = c.moved[q]
           /\ m.balance[kind] = c.balance[kind] + AttemptAtomic
           /\ \A k \in Kinds \ {kind} : m.balance[k] = c.balance[k]
<1>1. PICK a \in Nat, b \in Nat :
        a = c.moved[r] + AttemptAtomic /\ b = c.balance[kind] + AttemptAtomic
  BY DEF Chain, SubscriptionsAssumption
<1>2. PICK moved \in [ScriptRun -> Nat] : moved = [c.moved EXCEPT ![r] = a]
  BY DEF Chain
<1>3. PICK balance \in [Kinds -> Nat] : balance = [c.balance EXCEPT ![kind] = b]
  BY DEF Chain
<1>4. m = [[c EXCEPT !.moved = moved] EXCEPT !.balance = balance]
  BY <1>1, <1>2, <1>3 DEF Credited, Chain
<1>5. m \in Chain
  BY <1>4 DEF Chain
<1> QED
  BY <1>1, <1>2, <1>3, <1>4, <1>5 DEF Chain

\* A transfer takes an attempt from an allowance of its run.
LEMMA TransferOutcome ==
    ASSUME SubscriptionsAssumption, NEW c \in Chain, NEW r \in ScriptRun,
           NEW d \in TransferFixed(c, r)
    PROVE  \E g \in c.grants, h \in [by : ScriptRun, init : Nat, left : Nat] :
             /\ g.by = r /\ g.init = c.authority /\ g.left >= AttemptAtomic
             /\ h.by = r /\ h.init = g.init /\ h.left = g.left - AttemptAtomic
             /\ d \in Chain /\ d.authority = c.authority
             /\ d.grants = (c.grants \ {g}) \cup {h} /\ d.plans = c.plans
             /\ d.subscriptions = c.subscriptions
             /\ d.moved[r] = c.moved[r] + AttemptAtomic
             /\ \A q \in ScriptRun \ {r} : d.moved[q] = c.moved[q]
             /\ d.balance["agentBudget"] = c.balance["agentBudget"] + AttemptAtomic
<1> PICK m : m = Credited(c, r, "agentBudget")
  OBVIOUS
<1>1. /\ m \in Chain /\ m.authority = c.authority
      /\ m.grants = c.grants /\ m.plans = c.plans /\ m.subscriptions = c.subscriptions
      /\ m.moved[r] = c.moved[r] + AttemptAtomic
      /\ \A q \in ScriptRun \ {r} : m.moved[q] = c.moved[q]
      /\ m.balance["agentBudget"] = c.balance["agentBudget"] + AttemptAtomic
  <2>1. "agentBudget" \in Kinds
    BY DEF Kinds
  <2> QED
    BY <2>1, CreditedOutcome
<1>2. PICK g \in c.grants :
        /\ g.by = r /\ g.init = c.authority /\ g.left >= AttemptAtomic
        /\ d = [m EXCEPT !.grants = (@ \ {g}) \cup {[g EXCEPT !.left = @ - AttemptAtomic]}]
  BY DEF TransferFixed
<1>3. g \in [by : ScriptRun, init : Nat, left : Nat]
  BY DEF Chain
<1>4. PICK h \in [by : ScriptRun, init : Nat, left : Nat] :
        /\ h = [g EXCEPT !.left = @ - AttemptAtomic]
        /\ h.by = r /\ h.init = g.init /\ h.left = g.left - AttemptAtomic
  <2> PICK l \in Nat : l = g.left - AttemptAtomic
    BY <1>2, <1>3, MaxAtomicBounds
  <2> PICK h \in [by : ScriptRun, init : Nat, left : Nat] : h = [g EXCEPT !.left = l]
    BY <1>3
  <2> QED
    BY <1>2, <1>3
<1>5. PICK set \in SUBSET [by : ScriptRun, init : Nat, left : Nat] :
        set = (m.grants \ {g}) \cup {h}
  BY <1>1 DEF Chain
<1>6. d = [m EXCEPT !.grants = set]
  BY <1>2, <1>4, <1>5
<1>7. /\ d \in Chain /\ d.authority = m.authority /\ d.grants = set /\ d.plans = m.plans
      /\ d.subscriptions = m.subscriptions /\ d.moved = m.moved /\ d.balance = m.balance
  BY <1>1, <1>6 DEF Chain
<1>8. d.grants = (c.grants \ {g}) \cup {h}
  BY <1>1, <1>5, <1>7
<1> HIDE DEF Chain
<1> QED
  BY <1>1, <1>2, <1>4, <1>7, <1>8

\* A revocation leaves no allowance of the run.
LEMMA RevokeOutcome ==
    ASSUME NEW c \in Chain, NEW r, NEW d \in RevokeDelegation(c, r)
    PROVE  /\ d \in Chain /\ d.authority = c.authority
           /\ d.grants = {g \in c.grants : g.by # r} /\ d.plans = c.plans
           /\ d.subscriptions = c.subscriptions /\ d.moved = c.moved /\ d.balance = c.balance
<1> PICK set \in SUBSET [by : ScriptRun, init : Nat, left : Nat] :
           set = {g \in c.grants : g.by # r}
  BY DEF Chain
<1>1. d = [c EXCEPT !.grants = set]
  BY DEF RevokeDelegation, When
<1> QED
  BY <1>1 DEF Chain

\* Closing leaves everything but the authority.
LEMMA CloseOutcome ==
    ASSUME NEW c \in Chain, NEW d \in RevokeAllForMint(c)
    PROVE  /\ d \in Chain /\ c.authority # 0 /\ d.authority = 0
           /\ d.grants = c.grants /\ d.plans = c.plans
           /\ d.subscriptions = c.subscriptions /\ d.moved = c.moved /\ d.balance = c.balance
BY DEF RevokeAllForMint, When, Chain

\* A plan is made once.
LEMMA PlanOutcome ==
    ASSUME NEW c \in Chain, NEW r \in ScriptRun \cup {0}, NEW d \in CreatePlan(c, r)
    PROVE  /\ d \in Chain /\ d.authority = c.authority
           /\ d.grants = c.grants /\ d.plans = c.plans \cup {r}
           /\ d.subscriptions = c.subscriptions /\ d.moved = c.moved /\ d.balance = c.balance
BY DEF CreatePlan, Chain

Subscriptions0 == [by : ScriptRun, init : Nat \ {0}, pulled : BOOLEAN, ends : BOOLEAN]

\* A subscription is made to a plan that exists.
LEMMA SubscribeOutcome ==
    ASSUME NEW c \in Chain, NEW r \in ScriptRun, NEW init \in Nat, NEW d \in Subscribe(c, r, init)
    PROVE  \E u \in Subscriptions0 :
             /\ u.by = r /\ u.init = init /\ ~u.pulled
             /\ d \in Chain /\ d.authority = c.authority
             /\ d.grants = c.grants /\ d.plans = c.plans
             /\ d.subscriptions = c.subscriptions \cup {u}
             /\ d.moved = c.moved /\ d.balance = c.balance
<1>1. r \in c.plans /\ c.authority = init /\ init # 0
  BY DEF Subscribe, When
<1> PICK u \in Subscriptions0 : u = [by |-> r, init |-> init, pulled |-> FALSE, ends |-> FALSE]
  BY <1>1 DEF Subscriptions0
<1>2. d = [c EXCEPT !.subscriptions = @ \cup {u}]
  BY DEF Subscribe, When
<1>3. d \in Chain
  BY <1>2 DEF Chain, Subscriptions0
<1> QED
  BY <1>1, <1>2, <1>3 DEF Chain

\* A pull marks the subscription it takes an attempt from.
LEMMA PullOutcome ==
    ASSUME SubscriptionsAssumption, NEW c \in Chain, NEW r \in ScriptRun,
           NEW d \in TransferSubscription(c, r)
    PROVE  \E u \in c.subscriptions, v \in Subscriptions0 :
             /\ u.by = r /\ v.by = r /\ v.pulled
             /\ d \in Chain /\ d.authority = c.authority
             /\ d.grants = c.grants /\ d.plans = c.plans
             /\ d.subscriptions = (c.subscriptions \ {u}) \cup {v}
             /\ d.moved[r] = c.moved[r] + AttemptAtomic
             /\ \A q \in ScriptRun \ {r} : d.moved[q] = c.moved[q]
             /\ d.balance["plan"] = c.balance["plan"] + AttemptAtomic
<1> PICK m : m = Credited(c, r, "plan")
  OBVIOUS
<1>1. /\ m \in Chain /\ m.authority = c.authority
      /\ m.grants = c.grants /\ m.plans = c.plans /\ m.subscriptions = c.subscriptions
      /\ m.moved[r] = c.moved[r] + AttemptAtomic
      /\ \A q \in ScriptRun \ {r} : m.moved[q] = c.moved[q]
      /\ m.balance["plan"] = c.balance["plan"] + AttemptAtomic
  <2>1. "plan" \in Kinds
    BY DEF Kinds
  <2> QED
    BY <2>1, CreditedOutcome
<1>2. PICK u \in c.subscriptions :
        /\ u.by = r
        /\ d = [m EXCEPT !.subscriptions = (@ \ {u}) \cup {[u EXCEPT !.pulled = TRUE]}]
  BY DEF TransferSubscription
<1>3. PICK v \in Subscriptions0 : v = [u EXCEPT !.pulled = TRUE]
  BY DEF Chain, Subscriptions0
<1>4. v.by = r /\ v.pulled
  BY <1>2, <1>3 DEF Chain
<1>5. PICK set \in SUBSET Subscriptions0 : set = (m.subscriptions \ {u}) \cup {v}
  BY <1>1 DEF Chain, Subscriptions0
<1>6. d = [m EXCEPT !.subscriptions = set]
  BY <1>2, <1>3, <1>5
<1>7. /\ d \in Chain /\ d.authority = m.authority /\ d.grants = m.grants /\ d.plans = m.plans
      /\ d.subscriptions = set /\ d.moved = m.moved /\ d.balance = m.balance
  BY <1>1, <1>6 DEF Chain, Subscriptions0
<1>8. d.subscriptions = (c.subscriptions \ {u}) \cup {v}
  BY <1>1, <1>5, <1>7
<1> QED
  BY <1>1, <1>2, <1>4, <1>7, <1>8

\* A cancellation marks a subscription.
LEMMA CancelOutcome ==
    ASSUME NEW c \in Chain, NEW r, NEW d \in CancelSubscription(c, r)
    PROVE  \E u \in c.subscriptions, v \in Subscriptions0 :
             /\ u.by = r /\ v.by = r /\ v.ends
             /\ d \in Chain /\ d.authority = c.authority
             /\ d.grants = c.grants /\ d.plans = c.plans
             /\ d.subscriptions = (c.subscriptions \ {u}) \cup {v}
             /\ d.moved = c.moved /\ d.balance = c.balance
<1>1. PICK u \in c.subscriptions :
        /\ u.by = r
        /\ d = [c EXCEPT !.subscriptions = (@ \ {u}) \cup {[u EXCEPT !.ends = TRUE]}]
  BY DEF CancelSubscription
<1>2. PICK v \in Subscriptions0 : v = [u EXCEPT !.ends = TRUE]
  BY DEF Chain, Subscriptions0
<1>3. v.by = r /\ v.ends
  BY <1>1, <1>2 DEF Chain
<1>4. PICK set \in SUBSET Subscriptions0 : set = (c.subscriptions \ {u}) \cup {v}
  BY DEF Chain, Subscriptions0
<1>5. d = [c EXCEPT !.subscriptions = set]
  BY <1>1, <1>2, <1>4
<1>6. /\ d \in Chain /\ d.authority = c.authority /\ d.grants = c.grants /\ d.plans = c.plans
      /\ d.subscriptions = set /\ d.moved = c.moved /\ d.balance = c.balance
  BY <1>5 DEF Chain, Subscriptions0
<1> QED
  BY <1>1, <1>2, <1>3, <1>4, <1>6

\* What is abandoned is gone.
LEMMA AbandonOutcome ==
    ASSUME NEW c \in Chain, NEW r, NEW d \in RevokeAbandoned(c, r)
    PROVE  /\ d \in Chain /\ d.authority = c.authority
           /\ d.grants = c.grants /\ d.plans = c.plans
           /\ d.subscriptions = {u \in c.subscriptions : u.by # r}
           /\ d.moved = c.moved /\ d.balance = c.balance
<1> PICK set \in SUBSET Subscriptions0 : set = {u \in c.subscriptions : u.by # r}
  BY DEF Chain, Subscriptions0
<1>1. d = [c EXCEPT !.subscriptions = set]
  BY DEF RevokeAbandoned, When
<1> QED
  BY <1>1 DEF Chain, Subscriptions0

\* Whatever the instruction, the accounts stay well formed.
LEMMA OutcomeIsTyped ==
    ASSUME SubscriptionsAssumption, NEW c \in Chain, NEW tx \in Transaction,
           NEW d \in Outcomes(c, tx)
    PROVE  d \in Chain
BY OutcomesAre, InitOutcome, CreateOutcome, TransferOutcome, RevokeOutcome, CloseOutcome,
   PlanOutcome, SubscribeOutcome, PullOutcome, CancelOutcome, AbandonOutcome DEF OwnOps

\* Nobody else adds to what a run has.
LEMMA OutcomeForOthers ==
    ASSUME SubscriptionsAssumption, NEW c \in Chain, NEW tx \in Transaction,
           NEW d \in Outcomes(c, tx), NEW r \in ScriptRun, ~OwnTx(tx, r)
    PROVE  /\ d.moved[r] = c.moved[r]
           /\ GrantsIn(d, r) = GrantsIn(c, r) \/ GrantsIn(d, r) = {}
           /\ SubscribedIn(c, r) = {} => SubscribedIn(d, r) = {}
<1>1. CASE tx.op = "init"
  BY <1>1, OutcomesAre, InitOutcome DEF GrantsIn, SubscribedIn
<1>2. CASE tx.op = "create"
  <2>1. tx.of # r /\ tx.of \in ScriptRun /\ tx.init \in Nat
    BY <1>2, OutcomesAre DEF OwnTx, OwnOps
  <2>2. d \in CreateFixed(c, tx.of, tx.init)
    BY <1>2, OutcomesAre
  <2> QED
    BY <2>1, <2>2, CreateOutcome DEF GrantsIn, SubscribedIn
<1>3. CASE tx.op \in TransferOps
  <2>1. tx.of # r /\ tx.of \in ScriptRun
    BY <1>3, OutcomesAre DEF OwnTx, OwnOps
  <2>2. d \in TransferFixed(c, tx.of)
    BY <1>3, OutcomesAre
  <2> QED
    BY <2>1, <2>2, TransferOutcome DEF GrantsIn, SubscribedIn
<1>4. CASE tx.op = "revoke"
  <2>1. d \in RevokeDelegation(c, tx.of)
    BY <1>4, OutcomesAre
  <2> QED
    BY <2>1, RevokeOutcome DEF GrantsIn, SubscribedIn
<1>5. CASE tx.op = "close"
  BY <1>5, OutcomesAre, CloseOutcome DEF GrantsIn, SubscribedIn
<1>6. CASE tx.op = "plan"
  BY <1>6, OutcomesAre, PlanOutcome DEF GrantsIn, SubscribedIn
<1>7. CASE tx.op = "subscribe"
  <2>1. tx.of # r /\ tx.of \in ScriptRun /\ tx.init \in Nat
    BY <1>7, OutcomesAre DEF OwnTx, OwnOps
  <2>2. d \in Subscribe(c, tx.of, tx.init)
    BY <1>7, OutcomesAre
  <2> QED
    BY <2>1, <2>2, SubscribeOutcome DEF GrantsIn, SubscribedIn
<1>8. CASE tx.op = "pull"
  <2>1. tx.of # r /\ tx.of \in ScriptRun
    BY <1>8, OutcomesAre DEF OwnTx, OwnOps
  <2>2. d \in TransferSubscription(c, tx.of)
    BY <1>8, OutcomesAre
  <2> QED
    BY <2>1, <2>2, PullOutcome DEF GrantsIn, SubscribedIn
<1>9. CASE tx.op = "cancel"
  <2>1. d \in CancelSubscription(c, tx.of)
    BY <1>9, OutcomesAre
  <2> QED
    BY <2>1, CancelOutcome DEF GrantsIn, SubscribedIn
<1>10. CASE tx.op = "abandon"
  <2>1. d \in RevokeAbandoned(c, tx.of)
    BY <1>10, OutcomesAre
  <2> QED
    BY <2>1, AbandonOutcome DEF GrantsIn, SubscribedIn
<1> QED
  BY <1>1, <1>2, <1>3, <1>4, <1>5, <1>6, <1>7, <1>8, <1>9, <1>10, OutcomesAre DEF OwnOps

\* Two transfers race for an allowance that only one fits in.
LEMMA OneTransferFits ==
    ASSUME SubscriptionsAssumption, SubscriptionsTyped, NEW r \in ScriptRun, NEW s,
           AgentBudgetTruth(r, s), NEW d \in TransferFixed(chain, r)
    PROVE  /\ chain.moved[r] = 0 /\ d.moved[r] = AttemptAtomic
           /\ \A h \in GrantsIn(d, r) :
                h.left + AttemptAtomic = MaxAtomic /\ GrantsIn(d, r) = {h}
           /\ GrantsIn(d, r) # {} /\ Grants(r) # {}
           /\ SubscribedIn(d, r) = Subscribed(r)
           /\ d.balance["agentBudget"] = chain.balance["agentBudget"] + AttemptAtomic
           /\ d \in Chain /\ d.authority = chain.authority
<1>1. chain \in Chain
  BY DEF SubscriptionsTyped
<1>2. PICK g \in chain.grants, h \in [by : ScriptRun, init : Nat, left : Nat] :
        /\ g.by = r /\ g.init = chain.authority /\ g.left >= AttemptAtomic
        /\ h.by = r /\ h.init = g.init /\ h.left = g.left - AttemptAtomic
        /\ d \in Chain /\ d.authority = chain.authority
        /\ d.grants = (chain.grants \ {g}) \cup {h}
        /\ d.subscriptions = chain.subscriptions
        /\ d.moved[r] = chain.moved[r] + AttemptAtomic
        /\ d.balance["agentBudget"] = chain.balance["agentBudget"] + AttemptAtomic
  BY <1>1, TransferOutcome
<1>3. g.left \in Nat /\ chain.moved[r] \in Nat
  BY <1>1 DEF Chain
<1>4. g \in Grants(r) /\ Grants(r) = {g} /\ g.left + chain.moved[r] = MaxAtomic
  BY <1>2 DEF AgentBudgetTruth, Grants
<1>5. chain.moved[r] = 0
  BY <1>2, <1>3, <1>4, MaxAtomicBounds DEF AgentBudgetTruth
<1>6. GrantsIn(d, r) = {h}
  BY <1>2, <1>4 DEF GrantsIn, Grants
<1>7. h.left + AttemptAtomic = MaxAtomic
  BY <1>2, <1>3, <1>4, <1>5, MaxAtomicBounds
<1>8. d.moved[r] = AttemptAtomic
  BY <1>2, <1>5, MaxAtomicBounds
<1> QED
  BY <1>2, <1>4, <1>5, <1>6, <1>7, <1>8 DEF SubscribedIn, Subscribed

\* What is true of a run stays true while it waits, whatever lands.
LEMMA TruthStays ==
    ASSUME SubscriptionsAssumption, SubscriptionsTyped, NEW r \in ScriptRun, NEW s,
           Truth(r, s), \A tx \in limbo' : OwnTx(tx, r) => tx \in limbo,
           \/ chain' = chain
           \/ \E tx \in Transaction :
                chain' \in Outcomes(chain, tx) /\ (OwnTx(tx, r) => tx \in limbo)
    PROVE  Truth(r, s)'
<1>1. CASE chain' = chain
  BY <1>1 DEF Truth, Untouched, AgentBudgetTruth, PlanTruth, PlainTruth, Grants, Subscribed
<1>2. ASSUME NEW tx \in Transaction, chain' \in Outcomes(chain, tx), ~OwnTx(tx, r)
      PROVE  Truth(r, s)'
  <2>1. /\ chain'.moved[r] = chain.moved[r]
        /\ GrantsIn(chain', r) = GrantsIn(chain, r) \/ GrantsIn(chain', r) = {}
        /\ SubscribedIn(chain, r) = {} => SubscribedIn(chain', r) = {}
    BY <1>2, OutcomeForOthers DEF SubscriptionsTyped
  <2>2. /\ Grants(r)' = Grants(r) \/ Grants(r)' = {}
        /\ Subscribed(r) = {} => Subscribed(r)' = {}
    BY <2>1 DEF GrantsIn, SubscribedIn, Grants, Subscribed
  <2> QED
    BY <2>1, <2>2 DEF Truth, Untouched, AgentBudgetTruth, PlanTruth, PlainTruth
<1>3. ASSUME NEW tx \in Transaction, chain' \in Outcomes(chain, tx), OwnTx(tx, r), tx \in limbo
      PROVE  Truth(r, s)'
  <2>1. CASE s.at \in {"running", "checking", "evidence"} /\ s.kind = "agentBudget"
    <3>1. AgentBudgetTruth(r, s)
      BY <2>1 DEF Truth
    <3>2. tx.op \in TransferOps /\ tx.of = r
      BY <1>3, <3>1 DEF AgentBudgetTruth, OwnTx
    <3>3. PICK d \in TransferFixed(chain, r) : d = chain'
      BY <1>3, <3>2, OutcomesAre
    <3>4. /\ chain.moved[r] = 0 /\ d.moved[r] = AttemptAtomic
          /\ \A h \in GrantsIn(d, r) :
               h.left + AttemptAtomic = MaxAtomic /\ GrantsIn(d, r) = {h}
          /\ Grants(r) # {} /\ SubscribedIn(d, r) = Subscribed(r)
      BY <3>1, OneTransferFits
    <3>5. Grants(r)' = GrantsIn(d, r) /\ Subscribed(r)' = SubscribedIn(d, r)
      BY <3>3 DEF Grants, GrantsIn, Subscribed, SubscribedIn
    <3>6. AgentBudgetTruth(r, s)'
      BY <3>1, <3>3, <3>4, <3>5 DEF AgentBudgetTruth
    <3> QED
      BY <2>1, <3>6 DEF Truth
  <2>2. CASE ~(s.at \in {"running", "checking", "evidence"} /\ s.kind = "agentBudget")
    <3>1. ~(s.at \in {"idle", "sweeping"})
      BY <1>3 DEF Truth, Untouched
    <3>2. ~(s.at \in {"running", "checking", "evidence"} /\ s.kind \in {"plan", "plain"})
      BY <1>3 DEF Truth, PlanTruth, PlainTruth
    <3> QED
      BY <2>2, <3>1, <3>2 DEF Truth
  <2> QED
    BY <2>1, <2>2
<1> QED
  BY <1>1, <1>2, <1>3

\* The three scripts, spelled out.
LEMMA StepsAre ==
    /\ Steps("agentBudget") = <<"init", "create", "raceA", "raceB", "revoke", "probe", "close">>
    /\ Steps("plan") = <<"init", "plan", "subscribe", "pull", "cancel", "close", "abandon">>
    /\ Steps("plain") = <<"init", "create", "revoke", "close">>
BY DEF Steps, AgentBudgetSteps, PlanSteps, PlainSteps

\* How long they are.
LEMMA StepCounts ==
    Len(Steps("agentBudget")) = 7 /\ Len(Steps("plan")) = 7 /\ Len(Steps("plain")) = 4
BY StepsAre

Same(s, t) == t.kind = s.kind /\ t.init = s.init /\ t.before = s.before
Advanced(s, t, won) ==
    t.at = "checking" /\ t.next = s.next + 1 /\ t.won = s.won + won /\ Same(s, t)
RunEnded(s, t) == t.at = "failed" /\ t.kind = s.kind

\* What a run records when it goes on, and when it ends.
LEMMA AfterIs ==
    ASSUME NEW r \in ScriptRun, NEW s \in Script, s = script[r], NEW won \in {0, 1}
    PROVE  /\ After(r, won) \in Script /\ Advanced(s, After(r, won), won)
           /\ Over(r) \in Script /\ RunEnded(s, Over(r))
<1>1. PICK n \in Nat \ {0}, w \in Nat : n = s.next + 1 /\ w = s.won + won
  BY DEF Script
<1>2. PICK t \in Script : t = MovesTo(s, "checking")
  BY DEF MovesTo, Script
<1>3. /\ t.at = "checking" /\ t.kind = s.kind /\ t.init = s.init /\ t.before = s.before
      /\ t.next = s.next /\ t.won = s.won
  BY <1>2 DEF MovesTo, Script
<1>4. PICK u \in Script : u = [t EXCEPT !.next = n]
  BY DEF Script
<1>5. /\ u.at = "checking" /\ u.kind = s.kind /\ u.init = s.init /\ u.before = s.before
      /\ u.next = n /\ u.won = s.won
  BY <1>3, <1>4 DEF Script
<1>6. PICK v \in Script : v = [u EXCEPT !.won = w]
  BY DEF Script
<1>7. /\ v.at = "checking" /\ v.kind = s.kind /\ v.init = s.init /\ v.before = s.before
      /\ v.next = n /\ v.won = w
  BY <1>5, <1>6 DEF Script
<1>8. After(r, won) = v
  BY <1>1, <1>2, <1>3, <1>4, <1>5, <1>6 DEF After
<1>9. Over(r) \in Script /\ RunEnded(s, Over(r))
  BY DEF Over, MovesTo, Script, RunEnded
<1> QED
  BY <1>1, <1>7, <1>8, <1>9 DEF Advanced, Same

\* Every step is an instruction of the program.
LEMMA StepIsTyped ==
    ASSUME NEW kind \in Kinds, NEW n \in 1 .. Len(Steps(kind))
    PROVE  Steps(kind)[n] \in OwnOps \cup {"init", "revoke", "close", "plan", "cancel", "abandon"}
<1>1. CASE kind = "agentBudget"
  BY <1>1, StepsAre DEF OwnOps, TransferOps
<1>2. CASE kind = "plan"
  BY <1>2, StepsAre DEF OwnOps, TransferOps
<1>3. CASE kind = "plain"
  BY <1>3, StepsAre DEF OwnOps, TransferOps
<1> QED
  BY <1>1, <1>2, <1>3 DEF Kinds

\* How a step of a script ends: refused, accepted, or unknown to it.
Sent(r, s, t, tx) ==
    LET op == Steps(s.kind)[s.next]
        Declined == IF op \in TransferOps THEN Advanced(s, t, 0) ELSE RunEnded(s, t)
    IN  /\ tx.op = op /\ tx.of = r /\ (op \in {"create", "subscribe"} => tx.init = s.init)
        /\ script' = [script EXCEPT ![r] = t]
        /\ \/ /\ Outcomes(chain, tx) = {} /\ Declined
              /\ chain' = chain /\ limbo' = limbo /\ disturbed' = disturbed
           \/ /\ chain' \in Outcomes(chain, tx)
              /\ IF op = "probe" THEN RunEnded(s, t)
                 ELSE Advanced(s, t, IF op \in {"raceA", "raceB"} THEN 1 ELSE 0)
              /\ limbo' = limbo /\ disturbed' = disturbed
           \/ /\ Declined /\ disturbed' = [disturbed EXCEPT ![r] = TRUE]
              /\ \/ limbo' = limbo \cup {tx} /\ chain' = chain
                 \/ chain' \in Outcomes(chain, tx) /\ limbo' = limbo

\* A step sends one transaction, which is the upcoming one.
LEMMA RunStepSends ==
    ASSUME SubscriptionsTyped, NEW r \in ScriptRun, RunStep(r), NEW s, s = script[r]
    PROVE  /\ s \in Script /\ s.at = "running" /\ s.kind \in Kinds
           /\ s.next \in 1 .. Len(Steps(s.kind))
           /\ \E t \in Script, tx \in Transaction : Sent(r, s, t, tx)
<1>1. s \in Script \cup [at : {"idle"}, kind : {"none"}] /\ s.at = "running"
  BY DEF SubscriptionsTyped, RunStep
<1>2. s \in Script
  BY <1>1
<1>3. s.kind \in Kinds /\ s.next \in Nat \ {0} /\ s.init \in Nat
  BY <1>2 DEF Script
<1>4. Len(Steps(s.kind)) \in Nat
  BY <1>3, StepCounts DEF Kinds
<1>5. s.next \in 1 .. Len(Steps(s.kind))
  BY <1>3, <1>4 DEF RunStep
<1> PICK op : op = Steps(s.kind)[s.next]
  OBVIOUS
<1>6. op \in OwnOps \cup {"init", "revoke", "close", "plan", "cancel", "abandon"}
  BY <1>3, <1>5, StepIsTyped
<1>7. /\ Tx(op, r, 0).op = op /\ Tx(op, r, 0).of = r
      /\ Tx(op, r, s.init).op = op /\ Tx(op, r, s.init).of = r /\ Tx(op, r, s.init).init = s.init
  BY DEF Tx
<1>8. /\ Tx(op, r, 0) \in Transaction
      /\ op \in OwnOps => Tx(op, r, s.init) \in Transaction
  BY <1>3, <1>6 DEF Tx, Transaction
<1>9. /\ \A won \in {0, 1} : After(r, won) \in Script /\ Advanced(s, After(r, won), won)
      /\ Over(r) \in Script /\ RunEnded(s, Over(r))
  BY <1>2, AfterIs
<1>10. CASE op \in {"raceA", "raceB"}
  <2>1. Send(r, Tx(op, r, 0), After(r, 1), After(r, 0))
    BY <1>10 DEF RunStep
  <2>2. PICK t \in {After(r, 1), After(r, 0)} : Sent(r, s, t, Tx(op, r, 0))
    <3> PICK tx : tx = Tx(op, r, 0)
      OBVIOUS
    <3> PICK a, b : a = After(r, 1) /\ b = After(r, 0)
      OBVIOUS
    <3>1. Advanced(s, a, 1) /\ Advanced(s, b, 0)
      BY <1>9
    <3> QED
      BY <1>7, <1>10, <2>1, <3>1 DEF Send, Sent, TransferOps
  <2> QED
    BY <1>2, <1>3, <1>5, <1>1, <1>8, <1>9, <2>2
<1>11. CASE op = "probe"
  <2>1. Send(r, Tx(op, r, 0), Over(r), After(r, 0))
    BY <1>11 DEF RunStep
  <2>2. PICK t \in {Over(r), After(r, 0)} : Sent(r, s, t, Tx(op, r, 0))
    <3> PICK tx : tx = Tx(op, r, 0)
      OBVIOUS
    <3> PICK a, b : a = Over(r) /\ b = After(r, 0)
      OBVIOUS
    <3>1. RunEnded(s, a) /\ Advanced(s, b, 0)
      BY <1>9
    <3> QED
      BY <1>7, <1>11, <2>1, <3>1 DEF Send, Sent, TransferOps
  <2> QED
    BY <1>2, <1>3, <1>5, <1>1, <1>8, <1>9, <2>2
<1>12. CASE op \notin TransferOps
  <2> PICK tx \in Transaction :
         /\ tx = IF op \in {"create", "subscribe"} THEN Tx(op, r, s.init) ELSE Tx(op, r, 0)
         /\ tx.op = op /\ tx.of = r /\ (op \in {"create", "subscribe"} => tx.init = s.init)
    BY <1>7, <1>8 DEF OwnOps
  <2>1. Send(r, tx, After(r, 0), Over(r))
    BY <1>12 DEF RunStep, TransferOps
  <2>2. PICK t \in {After(r, 0), Over(r)} : Sent(r, s, t, tx)
    <3> PICK a, b : a = After(r, 0) /\ b = Over(r)
      OBVIOUS
    <3>1. Advanced(s, a, 0) /\ RunEnded(s, b)
      BY <1>9
    <3> QED
      BY <1>12, <2>1, <3>1 DEF Send, Sent, TransferOps
  <2> QED
    BY <1>2, <1>3, <1>5, <1>1, <1>9, <2>2
<1> QED
  BY <1>10, <1>11, <1>12 DEF TransferOps

\* The step of a script, seen from the run: what was sent is its own, and either
\* the run has ended, or it goes on to look at what it did.
LEMMA RunStepGoesOn ==
    ASSUME SubscriptionsTyped, NEW r \in ScriptRun, RunStep(r), NEW s, s = script[r]
    PROVE  /\ s \in Script /\ s.at = "running" /\ s.kind \in Kinds
           /\ s.next \in 1 .. Len(Steps(s.kind))
           /\ \E t \in Script, tx \in Transaction :
                /\ script' = [script EXCEPT ![r] = t] /\ t.kind = s.kind
                /\ tx.op = Steps(s.kind)[s.next] /\ tx.of = r
                /\ tx.op \in {"create", "subscribe"} => tx.init = s.init
                /\ \/ /\ Outcomes(chain, tx) = {}
                      /\ chain' = chain /\ limbo' = limbo /\ disturbed' = disturbed
                      /\ t.at = "failed" => tx.op \notin TransferOps
                      /\ t.at # "failed" => tx.op \in TransferOps /\ t.won = s.won
                   \/ /\ chain' \in Outcomes(chain, tx)
                      /\ limbo' = limbo /\ disturbed' = disturbed
                      /\ t.at = "failed" => tx.op = "probe"
                      /\ t.at # "failed" =>
                           /\ tx.op # "probe"
                           /\ t.won = s.won + (IF tx.op \in {"raceA", "raceB"} THEN 1 ELSE 0)
                   \/ /\ disturbed' = [disturbed EXCEPT ![r] = TRUE]
                      /\ t.at # "failed" => tx.op \in TransferOps /\ t.won = s.won
                      /\ \/ limbo' = limbo \cup {tx} /\ chain' = chain
                         \/ chain' \in Outcomes(chain, tx) /\ limbo' = limbo
                /\ t.at # "failed" => t.at = "checking" /\ t.next = s.next + 1 /\ Same(s, t)
<1>1. /\ s \in Script /\ s.at = "running" /\ s.kind \in Kinds
      /\ s.next \in 1 .. Len(Steps(s.kind))
  BY RunStepSends
<1>2. PICK t \in Script, tx \in Transaction : Sent(r, s, t, tx)
  BY RunStepSends
<1>3. s.won \in Nat
  BY <1>1 DEF Script
<1>4. /\ RunEnded(s, t) => t.at = "failed" /\ t.kind = s.kind
      /\ \A won : Advanced(s, t, won) =>
           /\ t.at = "checking" /\ t.next = s.next + 1 /\ t.won = s.won + won /\ Same(s, t)
           /\ t.kind = s.kind
  BY DEF RunEnded, Advanced, Same
<1> PICK op : op = Steps(s.kind)[s.next]
  OBVIOUS
<1>5. /\ script' = [script EXCEPT ![r] = t]
      /\ tx.op = op /\ tx.of = r /\ (op \in {"create", "subscribe"} => tx.init = s.init)
  BY <1>2 DEF Sent
<1>6. ASSUME op \in TransferOps => Advanced(s, t, 0), op \notin TransferOps => RunEnded(s, t)
      PROVE  /\ t.at = "failed" => op \notin TransferOps
             /\ t.at # "failed" =>
                  op \in TransferOps /\ t.won = s.won /\ t.at = "checking"
                  /\ t.next = s.next + 1 /\ Same(s, t)
             /\ t.kind = s.kind
  BY <1>3, <1>4, <1>6
<1>7. ASSUME op = "probe" => RunEnded(s, t),
             op # "probe" => Advanced(s, t, IF op \in {"raceA", "raceB"} THEN 1 ELSE 0)
      PROVE  /\ t.at = "failed" => op = "probe"
             /\ t.at # "failed" =>
                  /\ op # "probe" /\ t.at = "checking" /\ t.next = s.next + 1 /\ Same(s, t)
                  /\ t.won = s.won + (IF op \in {"raceA", "raceB"} THEN 1 ELSE 0)
             /\ t.kind = s.kind
  BY <1>4, <1>7
<1>8. CASE /\ Outcomes(chain, tx) = {}
           /\ op \in TransferOps => Advanced(s, t, 0)
           /\ op \notin TransferOps => RunEnded(s, t)
           /\ chain' = chain /\ limbo' = limbo /\ disturbed' = disturbed
  BY <1>1, <1>5, <1>6, <1>8
<1>9. CASE /\ chain' \in Outcomes(chain, tx)
           /\ op = "probe" => RunEnded(s, t)
           /\ op # "probe" => Advanced(s, t, IF op \in {"raceA", "raceB"} THEN 1 ELSE 0)
           /\ limbo' = limbo /\ disturbed' = disturbed
  BY <1>1, <1>5, <1>7, <1>9
<1>10. CASE /\ op \in TransferOps => Advanced(s, t, 0)
            /\ op \notin TransferOps => RunEnded(s, t)
            /\ disturbed' = [disturbed EXCEPT ![r] = TRUE]
            /\ \/ limbo' = limbo \cup {tx} /\ chain' = chain
               \/ chain' \in Outcomes(chain, tx) /\ limbo' = limbo
  BY <1>1, <1>5, <1>6, <1>10
<1> QED
  BY <1>2, <1>8, <1>9, <1>10 DEF Sent

\* A script's own step keeps what is true of it.
LEMMA AgentBudgetStepIsTrue ==
    ASSUME SubscriptionsAssumption, SubscriptionsTyped, NEW r \in ScriptRun,
           NEW s \in Script, s.at = "running", s.kind = "agentBudget", s.next \in 1 .. 7,
           AgentBudgetTruth(r, s), NEW t \in Script, NEW tx \in Transaction, t.at = "checking", t.next = s.next + 1,
           tx.op = Steps(s.kind)[s.next], tx.of = r,
           tx.op \in {"create", "subscribe"} => tx.init = s.init,
           \/ /\ tx.op \in TransferOps /\ t.won = s.won /\ chain' = chain
              /\ limbo' = limbo \/ limbo' = limbo \cup {tx}
           \/ /\ chain' \in Outcomes(chain, tx) /\ limbo' = limbo
              /\ \/ tx.op \in TransferOps /\ t.won = s.won
                 \/ /\ tx.op # "probe"
                    /\ t.won = s.won + (IF tx.op \in {"raceA", "raceB"} THEN 1 ELSE 0)
    PROVE  AgentBudgetTruth(r, t)'
<1> PICK n \in 1 .. 7 : n = s.next
  OBVIOUS
<1> PICK op : op = Steps("agentBudget")[n]
  OBVIOUS
<1>1. op = <<"init", "create", "raceA", "raceB", "revoke", "probe", "close">>[n]
  BY StepsAre
<1>2. /\ tx.op = op /\ tx.of = r /\ (op = "create" => tx.init = s.init)
      /\ t.next = n + 1
      /\ \/ /\ op \in TransferOps /\ t.won = s.won /\ chain' = chain
            /\ limbo' = limbo \/ limbo' = limbo \cup {tx}
         \/ /\ chain' \in Outcomes(chain, tx) /\ limbo' = limbo
            /\ \/ op \in TransferOps /\ t.won = s.won
               \/ /\ op # "probe"
                  /\ t.won = s.won + (IF op \in {"raceA", "raceB"} THEN 1 ELSE 0)
  OBVIOUS
<1>3. chain \in Chain /\ s.won \in Nat /\ s.init \in Nat
  BY DEF SubscriptionsTyped, Script
<1>4. Truth(r, s)
  BY DEF Truth
<1>5. \A x \in limbo' : OwnTx(x, r) => x.op \in TransferOps
  BY <1>2 DEF AgentBudgetTruth
<1>6. ASSUME op \notin OwnOps
      PROVE  AgentBudgetTruth(r, s)' /\ t.won = s.won /\ chain' \in Outcomes(chain, tx)
  <2>1. chain' \in Outcomes(chain, tx) /\ limbo' = limbo /\ ~OwnTx(tx, r) /\ t.won = s.won
    BY <1>2, <1>3, <1>6 DEF OwnOps, TransferOps, OwnTx
  <2>2. Truth(r, s)'
    BY <1>4, <2>1, TruthStays
  <2> QED
    BY <2>1, <2>2 DEF Truth
<1>7. CASE op \in {"init", "close"}
  <2>1. AgentBudgetTruth(r, s)' /\ t.won = s.won /\ (n = 1 \/ n = 7)
    BY <1>1, <1>6, <1>7 DEF OwnOps, TransferOps
  <2> QED
    BY <1>2, <2>1 DEF AgentBudgetTruth
<1>8. CASE op = "create"
  <2>1. chain' \in CreateFixed(chain, r, s.init) /\ limbo' = limbo /\ t.won = s.won /\ n = 2
    BY <1>1, <1>2, <1>3, <1>8, OutcomesAre DEF TransferOps
  <2>2. PICK g \in [by : ScriptRun, init : Nat, left : Nat] :
          /\ g.by = r /\ g.left = MaxAtomic /\ chain'.grants = chain.grants \cup {g}
          /\ chain'.subscriptions = chain.subscriptions /\ chain'.moved = chain.moved
    BY <1>3, <2>1, CreateOutcome
  <2>3. Grants(r) = {} /\ chain.moved[r] = 0 /\ Subscribed(r) = {} /\ s.won = 0
    BY <1>3, <2>1, MaxAtomicBounds DEF AgentBudgetTruth
  <2>4. Grants(r)' = {g} /\ Subscribed(r)' = {}
    BY <2>2, <2>3 DEF Grants, Subscribed
  <2> QED
    BY <1>2, <1>5, <2>1, <2>2, <2>3, <2>4, MaxAtomicBounds DEF AgentBudgetTruth
<1>9. ASSUME op \in TransferOps, chain' \in Outcomes(chain, tx)
      PROVE  /\ chain'.moved[r] = AttemptAtomic
             /\ \A h \in Grants(r)' :
                  h.left + chain'.moved[r] = MaxAtomic /\ Grants(r)' = {h}
             /\ Subscribed(r)' = {} /\ Grants(r) # {}
  <2>1. PICK d \in TransferFixed(chain, r) : d = chain'
    BY <1>2, <1>9, OutcomesAre
  <2>2. Grants(r)' = GrantsIn(d, r) /\ Subscribed(r)' = SubscribedIn(d, r)
    BY <2>1 DEF Grants, GrantsIn, Subscribed, SubscribedIn
  <2> QED
    BY <2>1, <2>2, OneTransferFits DEF AgentBudgetTruth
<1>10. CASE op \in {"raceA", "raceB"}
  <2>1. n \in {3, 4} /\ op \in TransferOps
    BY <1>1, <1>10 DEF TransferOps
  <2>2. CASE chain' = chain /\ t.won = s.won
    <3>1. Grants(r)' = Grants(r) /\ Subscribed(r)' = Subscribed(r)
      BY <2>2 DEF Grants, Subscribed
    <3> QED
      BY <1>2, <1>5, <2>1, <2>2, <3>1 DEF AgentBudgetTruth
  <2>3. CASE chain' \in Outcomes(chain, tx)
    BY <1>2, <1>5, <1>9, <2>1, <2>3 DEF AgentBudgetTruth
  <2> QED
    BY <1>2, <2>2, <2>3
<1>11. CASE op = "revoke"
  <2>1. /\ AgentBudgetTruth(r, s)' /\ t.won = s.won /\ n = 5
        /\ chain' \in RevokeDelegation(chain, r)
    BY <1>1, <1>2, <1>6, <1>11, OutcomesAre DEF OwnOps, TransferOps
  <2>2. Grants(r)' = {}
    BY <1>3, <2>1, RevokeOutcome DEF Grants
  <2> QED
    BY <1>2, <2>1, <2>2 DEF AgentBudgetTruth
<1>12. CASE op = "probe"
  <2>1. n = 6 /\ op \in TransferOps
    BY <1>1, <1>12 DEF TransferOps
  <2>2. Grants(r) = {}
    BY <2>1 DEF AgentBudgetTruth
  <2>3. chain' = chain /\ t.won = s.won
    BY <1>2, <1>9, <1>12, <2>1, <2>2
  <2>4. Grants(r)' = Grants(r) /\ Subscribed(r)' = Subscribed(r)
    BY <2>3 DEF Grants, Subscribed
  <2> QED
    BY <1>2, <1>5, <2>1, <2>3, <2>4 DEF AgentBudgetTruth
<1> QED
  BY <1>1, <1>7, <1>8, <1>10, <1>11, <1>12

\* The same for the plan: it moves nothing but by its pull.
LEMMA PlanStepIsTrue ==
    ASSUME SubscriptionsAssumption, SubscriptionsTyped, NEW r \in ScriptRun,
           NEW s \in Script, s.at = "running", s.kind = "plan", s.next \in 1 .. 7,
           PlanTruth(r, s), NEW t \in Script, NEW tx \in Transaction, t.at = "checking", t.next = s.next + 1,
           tx.op = Steps(s.kind)[s.next], tx.of = r,
           tx.op \in {"create", "subscribe"} => tx.init = s.init,
           \/ /\ tx.op \in TransferOps /\ t.won = s.won /\ chain' = chain
              /\ limbo' = limbo \/ limbo' = limbo \cup {tx}
           \/ /\ chain' \in Outcomes(chain, tx) /\ limbo' = limbo
              /\ \/ tx.op \in TransferOps /\ t.won = s.won
                 \/ /\ tx.op # "probe"
                    /\ t.won = s.won + (IF tx.op \in {"raceA", "raceB"} THEN 1 ELSE 0)
    PROVE  PlanTruth(r, t)'
<1> PICK n \in 1 .. 7 : n = s.next
  OBVIOUS
<1> PICK op : op = Steps("plan")[n]
  OBVIOUS
<1>1. op = <<"init", "plan", "subscribe", "pull", "cancel", "close", "abandon">>[n]
  BY StepsAre
<1>2. /\ tx.op = op /\ tx.of = r /\ (op = "subscribe" => tx.init = s.init)
      /\ t.next = n + 1 /\ chain' \in Outcomes(chain, tx) /\ limbo' = limbo
  <2>1. op \notin TransferOps
    BY <1>1 DEF TransferOps
  <2> QED
    BY <2>1
<1>3. chain \in Chain /\ s.init \in Nat
  BY DEF SubscriptionsTyped, Script
<1>4. Truth(r, s)
  BY DEF Truth
<1>5. CASE op \notin OwnOps
  <2>1. ~OwnTx(tx, r)
    BY <1>2, <1>5 DEF OwnTx
  <2>2. Truth(r, s)'
    BY <1>2, <1>4, <2>1, TruthStays
  <2>3. PlanTruth(r, s)' /\ n \in {1, 2, 5, 6, 7}
    BY <1>1, <1>5, <2>2 DEF Truth, OwnOps
  <2>4. n = 7 => Subscribed(r)' = {}
    <3> SUFFICES ASSUME n = 7 PROVE Subscribed(r)' = {}
      OBVIOUS
    <3>1. chain' \in RevokeAbandoned(chain, r)
      BY <1>1, <1>2, OutcomesAre
    <3> QED
      BY <1>3, <3>1, AbandonOutcome DEF Subscribed
  <2> QED
    BY <1>2, <2>3, <2>4 DEF PlanTruth
<1>6. CASE op = "subscribe"
  <2>1. chain' \in Subscribe(chain, r, s.init) /\ n = 3
    BY <1>1, <1>2, <1>6, OutcomesAre
  <2>2. chain'.grants = chain.grants /\ chain'.moved = chain.moved
    BY <1>3, <2>1, SubscribeOutcome
  <2>3. Grants(r)' = Grants(r)
    BY <2>2 DEF Grants
  <2> QED
    BY <1>2, <2>1, <2>2, <2>3 DEF PlanTruth
<1>7. CASE op = "pull"
  <2>1. chain' \in TransferSubscription(chain, r) /\ n = 4
    BY <1>1, <1>2, <1>7, OutcomesAre
  <2>2. chain'.grants = chain.grants /\ chain'.moved[r] = chain.moved[r] + AttemptAtomic
    BY <1>3, <2>1, PullOutcome
  <2>4. chain.moved[r] = 0
    BY <2>1 DEF PlanTruth
  <2>5. AttemptAtomic \in Int /\ 0 + AttemptAtomic = AttemptAtomic
    BY DEF SubscriptionsAssumption
  <2>6. chain'.moved[r] = AttemptAtomic
    BY <2>2, <2>4, <2>5
  <2>3. Grants(r)' = Grants(r)
    BY <2>2 DEF Grants
  <2> QED
    BY <1>2, <2>1, <2>3, <2>6 DEF PlanTruth
<1> QED
  BY <1>1, <1>5, <1>6, <1>7 DEF OwnOps, TransferOps

\* The same for the plain script, which moves nothing.
LEMMA PlainStepIsTrue ==
    ASSUME SubscriptionsAssumption, SubscriptionsTyped, NEW r \in ScriptRun,
           NEW s \in Script, s.at = "running", s.kind = "plain", s.next \in 1 .. 4,
           PlainTruth(r, s), NEW t \in Script, NEW tx \in Transaction, t.at = "checking", t.next = s.next + 1,
           tx.op = Steps(s.kind)[s.next], tx.of = r,
           tx.op \in {"create", "subscribe"} => tx.init = s.init,
           \/ /\ tx.op \in TransferOps /\ t.won = s.won /\ chain' = chain
              /\ limbo' = limbo \/ limbo' = limbo \cup {tx}
           \/ /\ chain' \in Outcomes(chain, tx) /\ limbo' = limbo
              /\ \/ tx.op \in TransferOps /\ t.won = s.won
                 \/ /\ tx.op # "probe"
                    /\ t.won = s.won + (IF tx.op \in {"raceA", "raceB"} THEN 1 ELSE 0)
    PROVE  PlainTruth(r, t)'
<1> PICK n \in 1 .. 4 : n = s.next
  OBVIOUS
<1> PICK op : op = Steps("plain")[n]
  OBVIOUS
<1>1. op = <<"init", "create", "revoke", "close">>[n]
  BY StepsAre
<1>2. /\ tx.op = op /\ tx.of = r /\ (op = "create" => tx.init = s.init)
      /\ t.next = n + 1 /\ chain' \in Outcomes(chain, tx) /\ limbo' = limbo
  <2>1. op \notin TransferOps
    BY <1>1 DEF TransferOps
  <2> QED
    BY <2>1
<1>3. chain \in Chain /\ s.init \in Nat
  BY DEF SubscriptionsTyped, Script
<1>4. Truth(r, s)
  BY DEF Truth
<1>5. CASE op # "create"
  <2>1. ~OwnTx(tx, r)
    BY <1>1, <1>2, <1>5 DEF OwnTx, OwnOps, TransferOps
  <2>2. Truth(r, s)'
    BY <1>2, <1>4, <2>1, TruthStays
  <2>3. PlainTruth(r, s)' /\ n \in {1, 3, 4}
    BY <1>1, <1>5, <2>2 DEF Truth
  <2>4. n = 3 => Grants(r)' = {}
    <3> SUFFICES ASSUME n = 3 PROVE Grants(r)' = {}
      OBVIOUS
    <3>1. chain' \in RevokeDelegation(chain, r)
      BY <1>1, <1>2, OutcomesAre
    <3> QED
      BY <1>3, <3>1, RevokeOutcome DEF Grants
  <2> QED
    BY <1>2, <2>3, <2>4 DEF PlainTruth
<1>6. CASE op = "create"
  <2>1. chain' \in CreateFixed(chain, r, s.init) /\ n = 2
    BY <1>1, <1>2, <1>6, OutcomesAre
  <2>2. chain'.subscriptions = chain.subscriptions /\ chain'.moved = chain.moved
    BY <1>3, <2>1, CreateOutcome
  <2>3. Subscribed(r)' = Subscribed(r)
    BY <2>2 DEF Subscribed
  <2> QED
    BY <1>2, <2>1, <2>2, <2>3 DEF PlainTruth
<1> QED
  BY <1>5, <1>6

\* When one run moves, it adds nothing to another.
LEMMA ScriptMoves ==
    ASSUME SubscriptionsAssumption, EvidenceInv, NEW r \in ScriptRun, NEW t \in Script,
           script' = [script EXCEPT ![r] = t], disturbed' \in [ScriptRun -> BOOLEAN],
           NEW tx \in Transaction, \A q \in ScriptRun \ {r} : ~OwnTx(tx, q),
           chain' = chain \/ chain' \in Outcomes(chain, tx),
           limbo' = limbo \/ limbo' = limbo \cup {tx},
           Truth(r, t)'
    PROVE  EvidenceInv'
<1>1. SubscriptionsTyped'
  <2>1. chain \in Chain /\ limbo \subseteq Transaction
        /\ script \in [ScriptRun -> Script \cup [at : {"idle"}, kind : {"none"}]]
    BY DEF EvidenceInv, SubscriptionsTyped
  <2>2. chain' \in Chain
    BY <2>1, OutcomeIsTyped
  <2>3. limbo' \subseteq Transaction
    BY <2>1
  <2>4. script' \in [ScriptRun -> Script \cup [at : {"idle"}, kind : {"none"}]]
    BY <2>1
  <2> QED
    BY <2>2, <2>3, <2>4 DEF SubscriptionsTyped
<1>2. script \in [ScriptRun -> Script \cup [at : {"idle"}, kind : {"none"}]]
  BY DEF EvidenceInv, SubscriptionsTyped
<1>3. ASSUME NEW q \in ScriptRun, NEW s, s = script'[q]
      PROVE  Truth(q, s)'
  <2>1. CASE q = r
    <3>1. s = t
      BY <1>2, <1>3, <2>1
    <3> QED
      BY <2>1, <3>1
  <2>2. CASE q # r
    <3>1. s = script[q]
      BY <1>2, <1>3, <2>2
    <3>2. Truth(q, s)
      BY <3>1 DEF EvidenceInv
    <3>3. ~OwnTx(tx, q)
      BY <2>2
    <3>4. \A x \in limbo' : OwnTx(x, q) => x \in limbo
      BY <3>3
    <3>5. SubscriptionsTyped
      BY DEF EvidenceInv
    <3> QED
      BY <3>2, <3>3, <3>4, <3>5, TruthStays
  <2> QED
    BY <2>1, <2>2
<1>4. \A q \in ScriptRun : \A s \in {script'[q]} : Truth(q, s)'
  BY <1>3
<1> QED
  BY <1>1, <1>4 DEF EvidenceInv

\* A run that only its own record changes.
LEMMA ScriptTurns ==
    ASSUME SubscriptionsAssumption, EvidenceInv, NEW r \in ScriptRun, NEW t \in Script,
           script' = [script EXCEPT ![r] = t], disturbed' \in [ScriptRun -> BOOLEAN],
           UNCHANGED <<chain, limbo>>, Truth(r, t)'
    PROVE  EvidenceInv'
<1> PICK tx \in Transaction : tx = Tx("close", 0, 0)
  BY DEF Tx, Transaction
<1>1. \A q \in ScriptRun \ {r} : ~OwnTx(tx, q)
  BY DEF Tx, OwnTx, OwnOps, TransferOps
<1> QED
  BY <1>1, ScriptMoves

\* What a run has on chain and in limbo, when nothing moves there.
LEMMA NothingMoves ==
    ASSUME UNCHANGED <<chain, limbo>>, NEW r, NEW s
    PROVE  /\ Untouched(r)' <=> Untouched(r)
           /\ AgentBudgetTruth(r, s)' <=> AgentBudgetTruth(r, s)
           /\ PlanTruth(r, s)' <=> PlanTruth(r, s)
           /\ PlainTruth(r, s)' <=> PlainTruth(r, s)
BY DEF Untouched, AgentBudgetTruth, PlanTruth, PlainTruth, Grants, Subscribed

\* What a run finds to clean up only revokes and closes.
LEMMA SweepIsTyped ==
    ASSUME SubscriptionsTyped, NEW kind \in Kinds
    PROVE  Sweep(kind) \in Sweeps
<1>1. /\ \A g \in chain.grants : Tx("revoke", g.by, 0) \in CleaningTx
      /\ \A u \in chain.subscriptions : Tx("abandon", u.by, 0) \in CleaningTx
      /\ Close \in SUBSET CleaningTx
  BY DEF SubscriptionsTyped, Chain, Tx, CleaningTx, Close
<1>2. CASE kind = "agentBudget"
  BY <1>1, <1>2 DEF Sweeps, Sweep, SweepAgentBudget
<1>3. CASE kind = "plan"
  BY <1>1, <1>3 DEF Sweeps, Sweep, SweepPlan
<1>4. CASE kind = "plain"
  BY <1>4 DEF Sweeps, Sweep
<1> QED
  BY <1>2, <1>3, <1>4 DEF Kinds

\* A run begins with nothing of its own.
LEMMA StartKeepsTruth ==
    ASSUME SubscriptionsAssumption, EvidenceInv, NEW r \in ScriptRun, NEW kind \in Kinds,
           StartRun(r, kind)
    PROVE  EvidenceInv'
<1> PICK t : t = [at |-> "sweeping", kind |-> kind, sweep |-> Sweep(kind),
                  next |-> 1, init |-> 0, before |-> 0, won |-> 0]
  OBVIOUS
<1>1. t \in Script
  BY SweepIsTyped DEF EvidenceInv, Script
<1>2. script' = [script EXCEPT ![r] = t] /\ script[r].at = "idle" /\ UNCHANGED <<chain, limbo>>
  BY DEF StartRun, Idle
<1>3. disturbed' \in [ScriptRun -> BOOLEAN]
  BY DEF StartRun
<1>4. Untouched(r)
  BY <1>2 DEF EvidenceInv, Truth
<1>5. Untouched(r)'
  BY <1>2, <1>4, NothingMoves
<1>6. Truth(r, t)'
  BY <1>5 DEF Truth
<1> QED
  BY <1>1, <1>2, <1>3, <1>6, ScriptTurns

\* It takes its first step with nothing of its own.
LEMMA SweptKeepsTruth ==
    ASSUME SubscriptionsAssumption, EvidenceInv, NEW r \in ScriptRun, Swept(r)
    PROVE  EvidenceInv'
<1> PICK s : s = script[r]
  OBVIOUS
<1>1. s \in Script /\ s.at = "sweeping" /\ Truth(r, s)
  BY DEF EvidenceInv, SubscriptionsTyped, Swept
<1>2. PICK b \in Nat : b = TokenBalance(s.kind)
  BY <1>1 DEF EvidenceInv, SubscriptionsTyped, TokenBalance, Chain, Script
<1>3. PICK u \in Script : u = MovesTo(s, "running")
  BY <1>1 DEF MovesTo, Script
<1>4. PICK t \in Script : t = [u EXCEPT !.before = b]
  BY <1>2 DEF Script
<1>5. t.at = "running" /\ t.next = s.next /\ t.init = s.init /\ t.won = s.won /\ t.kind = s.kind
  BY <1>1, <1>3, <1>4 DEF MovesTo, Script
<1>6. script' = [script EXCEPT ![r] = t] /\ UNCHANGED <<chain, limbo, disturbed>>
  BY <1>1, <1>2, <1>3, <1>4 DEF Swept, EvidenceInv, SubscriptionsTyped
<1>7. Untouched(r)' /\ t.next = 1 /\ t.won = 0
  BY <1>1, <1>5, <1>6, NothingMoves DEF Truth
<1>8. Truth(r, t)'
  <2>1. t.at = "running" /\ ~(t.at \in {"idle", "sweeping"})
    BY <1>5
  <2>2. AgentBudgetTruth(r, t)'
    BY <1>7, <2>1 DEF Untouched, AgentBudgetTruth
  <2>3. PlanTruth(r, t)'
    BY <1>7, <2>1 DEF Untouched, PlanTruth
  <2>4. PlainTruth(r, t)'
    BY <1>7, <2>1 DEF Untouched, PlainTruth
  <2> QED
    BY <2>1, <2>2, <2>3, <2>4 DEF Truth
<1>9. disturbed' \in [ScriptRun -> BOOLEAN]
  BY <1>6 DEF EvidenceInv, SubscriptionsTyped
<1> QED
  BY <1>6, <1>8, <1>9, ScriptTurns

\* A run that stops claims nothing.
LEMMA CrashKeepsTruth ==
    ASSUME SubscriptionsAssumption, EvidenceInv, NEW r \in ScriptRun, Crash(r)
    PROVE  EvidenceInv'
<1> PICK s : s = script[r]
  OBVIOUS
<1>1. s \in Script
  BY DEF EvidenceInv, SubscriptionsTyped, Crash, Active
<1>2. PICK t \in Script : t = Over(r) /\ t.at = "failed"
  BY <1>1, AfterIs DEF RunEnded
<1>3. script' = [script EXCEPT ![r] = t] /\ UNCHANGED <<chain, limbo>>
  BY <1>2 DEF Crash
<1>4. disturbed' \in [ScriptRun -> BOOLEAN]
  BY DEF Crash, EvidenceInv, SubscriptionsTyped
<1>5. Truth(r, t)'
  BY <1>2 DEF Truth
<1> QED
  BY <1>3, <1>4, <1>5, ScriptTurns

\* Evidence is written after the last step.
LEMMA WriteKeepsTruth ==
    ASSUME SubscriptionsAssumption, EvidenceInv, NEW r \in ScriptRun, WriteEvidence(r)
    PROVE  EvidenceInv'
<1> PICK s : s = script[r]
  OBVIOUS
<1>1. s \in Script /\ s.at = "running" /\ Truth(r, s) /\ s.kind \in Kinds /\ s.next \in Nat
  BY DEF EvidenceInv, SubscriptionsTyped, WriteEvidence, Script
<1>2. PICK t \in Script : t = MovesTo(s, "evidence")
  BY <1>1 DEF MovesTo, Script
<1>3. t.at = "evidence" /\ t.next = s.next /\ t.won = s.won /\ t.kind = s.kind
  BY <1>1, <1>2 DEF MovesTo, Script
<1>4. script' = [script EXCEPT ![r] = t] /\ UNCHANGED <<chain, limbo, disturbed>>
  BY <1>2 DEF WriteEvidence, EvidenceInv, SubscriptionsTyped
<1>5. s.next > Len(Steps(s.kind))
  BY DEF WriteEvidence
<1>6. /\ AgentBudgetTruth(r, s) => AgentBudgetTruth(r, s)'
      /\ PlanTruth(r, s) => PlanTruth(r, s)'
      /\ PlainTruth(r, s) => PlainTruth(r, s)'
  BY <1>4, NothingMoves
<1>7. s.kind = "agentBudget" => AgentBudgetTruth(r, t)'
  <2> SUFFICES ASSUME s.kind = "agentBudget" PROVE AgentBudgetTruth(r, t)'
    OBVIOUS
  <2>1. AgentBudgetTruth(r, s)' /\ s.next > 7
    BY <1>1, <1>5, <1>6, StepCounts DEF Truth
  <2> QED
    BY <1>1, <1>3, <2>1 DEF AgentBudgetTruth
<1>8. s.kind = "plan" => PlanTruth(r, t)'
  <2> SUFFICES ASSUME s.kind = "plan" PROVE PlanTruth(r, t)'
    OBVIOUS
  <2>1. PlanTruth(r, s)' /\ s.next > 7
    BY <1>1, <1>5, <1>6, StepCounts DEF Truth
  <2> QED
    BY <1>1, <1>3, <2>1 DEF PlanTruth
<1>9. s.kind = "plain" => PlainTruth(r, t)'
  <2> SUFFICES ASSUME s.kind = "plain" PROVE PlainTruth(r, t)'
    OBVIOUS
  <2>1. PlainTruth(r, s)' /\ s.next > 4
    BY <1>1, <1>5, <1>6, StepCounts DEF Truth
  <2> QED
    BY <1>1, <1>3, <2>1 DEF PlainTruth
<1>10. Truth(r, t)'
  BY <1>3, <1>7, <1>8, <1>9 DEF Truth
<1>11. disturbed' \in [ScriptRun -> BOOLEAN]
  BY <1>4 DEF EvidenceInv, SubscriptionsTyped
<1> QED
  BY <1>4, <1>10, <1>11, ScriptTurns

\* What lands late is no transaction of a run that lives, but a transfer that raced.
LEMMA LandKeepsTruth ==
    ASSUME SubscriptionsAssumption, EvidenceInv, NEW tx \in limbo, Land(tx)
    PROVE  EvidenceInv'
<1>1. SubscriptionsTyped /\ tx \in Transaction /\ limbo' \subseteq limbo
      /\ (chain' = chain \/ chain' \in Outcomes(chain, tx))
      /\ UNCHANGED <<script, disturbed>>
  BY DEF EvidenceInv, SubscriptionsTyped, Land
<1>2. SubscriptionsTyped'
  BY <1>1, OutcomeIsTyped DEF SubscriptionsTyped
<1>3. ASSUME NEW r \in ScriptRun, NEW s, s = script'[r]
      PROVE  Truth(r, s)'
  <2>1. s = script[r]
    BY <1>1, <1>3
  <2>2. Truth(r, s)
    BY <2>1 DEF EvidenceInv
  <2>3. chain' = chain \/ \E x \in Transaction :
          chain' \in Outcomes(chain, x) /\ (OwnTx(x, r) => x \in limbo)
    BY <1>1
  <2>4. \A x \in limbo' : OwnTx(x, r) => x \in limbo
    BY <1>1
  <2> QED
    BY <1>1, <2>2, <2>3, <2>4, TruthStays
<1>4. \A r \in ScriptRun : \A s \in {script'[r]} : Truth(r, s)'
  BY <1>3
<1> QED
  BY <1>2, <1>4 DEF EvidenceInv

\* A sweep revokes and closes: it moves nothing.
LEMMA SweepKeepsTruth ==
    ASSUME SubscriptionsAssumption, EvidenceInv, NEW r \in ScriptRun, SweepStep(r)
    PROVE  EvidenceInv'
<1> PICK s : s = script[r]
  OBVIOUS
<1>1. s \in Script /\ s.at = "sweeping" /\ Truth(r, s) /\ SubscriptionsTyped
  BY DEF EvidenceInv, SubscriptionsTyped, SweepStep
<1>2. PICK tx \in CleaningTx :
        Send(r, tx,
             [s EXCEPT !.sweep = [first |-> s.sweep.first \ {tx}, last |-> s.sweep.last \ {tx}]],
             Over(r))
  BY <1>1 DEF SweepStep, Script, Sweeps
<1>3. tx \in Transaction /\ \A q \in ScriptRun : ~OwnTx(tx, q)
  BY DEF CleaningTx, Transaction, OwnTx, OwnOps, TransferOps
<1>4. PICK w \in Sweeps :
        w = [first |-> s.sweep.first \ {tx}, last |-> s.sweep.last \ {tx}]
  BY <1>1 DEF Script, Sweeps
<1>10. PICK a \in Script :
         /\ a = [s EXCEPT !.sweep = w]
         /\ a.at = s.at /\ a.next = s.next /\ a.init = s.init /\ a.won = s.won
  <2>1. s \in Script
    BY <1>1
  <2>2. PICK a \in Script : a = [s EXCEPT !.sweep = w]
    BY <2>1 DEF Script
  <2>3. a.at = s.at /\ a.next = s.next /\ a.init = s.init /\ a.won = s.won
    BY <2>1, <2>2 DEF Script
  <2> QED
    BY <2>2, <2>3
<1>5. PICK b \in Script : b = Over(r) /\ b.at = "failed"
  BY <1>1, AfterIs DEF RunEnded
<1>6. PICK t \in {a, b} : script' = [script EXCEPT ![r] = t]
  BY <1>2, <1>4, <1>5, <1>10 DEF Send
<1>7. /\ chain' = chain \/ chain' \in Outcomes(chain, tx)
      /\ limbo' = limbo \/ limbo' = limbo \cup {tx}
  BY <1>2 DEF Send
<1>8. disturbed' \in [ScriptRun -> BOOLEAN]
  BY <1>1, <1>2 DEF Send, SubscriptionsTyped
<1>9. Truth(r, t)'
  <2>1. CASE t = b
    BY <1>5, <2>1 DEF Truth
  <2>2. CASE t = a
    <3>1. \A x \in limbo' : OwnTx(x, r) => x \in limbo
      BY <1>3, <1>7
    <3>2. chain' = chain \/ \E x \in Transaction :
            chain' \in Outcomes(chain, x) /\ (OwnTx(x, r) => x \in limbo)
      BY <1>3, <1>7
    <3>3. Truth(r, s)'
      BY <1>1, <3>1, <3>2, TruthStays
    <3> QED
      BY <1>1, <1>10, <2>2, <3>3 DEF Truth
  <2> QED
    BY <2>1, <2>2
<1> QED
  BY <1>3, <1>5, <1>6, <1>7, <1>8, <1>9, <1>10, ScriptMoves

\* What is checked between two transfers and the revocation: that one was accepted.
LEMMA CheckKeepsTruth ==
    ASSUME SubscriptionsAssumption, EvidenceInv, NEW r \in ScriptRun, Check(r)
    PROVE  EvidenceInv'
<1> PICK s : s = script[r]
  OBVIOUS
<1>1. s \in Script /\ s.at = "checking" /\ Truth(r, s) /\ s.kind \in Kinds /\ s.next \in Nat
      /\ s.init \in Nat /\ s.won \in Nat /\ chain.authority \in Nat
  BY DEF EvidenceInv, SubscriptionsTyped, Check, Script, Chain
<1>2. UNCHANGED <<chain, limbo, disturbed>>
  BY DEF Check
<1>3. disturbed' \in [ScriptRun -> BOOLEAN]
  BY <1>2 DEF EvidenceInv, SubscriptionsTyped
<1>4. CASE CheckFails(r)
  <2>1. PICK t \in Script : t = Over(r) /\ t.at = "failed"
    BY <1>1, AfterIs DEF RunEnded
  <2>2. script' = [script EXCEPT ![r] = t]
    BY <1>4, <2>1 DEF Check, EvidenceInv, SubscriptionsTyped
  <2>3. Truth(r, t)'
    BY <2>1 DEF Truth
  <2> QED
    BY <1>2, <1>3, <2>2, <2>3, ScriptTurns
<1>5. CASE ~CheckFails(r)
  <2>1. PICK i \in Nat : i = IF s.init = 0 THEN chain.authority ELSE s.init
    BY <1>1
  <2>2. PICK u \in Script : u = MovesTo(s, "running")
    BY <1>1 DEF MovesTo, Script
  <2>3. u.next = s.next /\ u.init = s.init /\ u.won = s.won /\ u.kind = s.kind /\ u.at = "running"
    BY <1>1, <2>2 DEF MovesTo, Script
  <2>4. PICK t \in Script : t = [u EXCEPT !.init = i]
    BY <2>1 DEF Script
  <2>5. t.at = "running" /\ t.next = s.next /\ t.won = s.won /\ t.kind = s.kind
    BY <2>3, <2>4 DEF Script
  <2>6. script' = [script EXCEPT ![r] = t]
    BY <1>1, <1>5, <2>1, <2>2, <2>4 DEF Check, AuthorityId, EvidenceInv, SubscriptionsTyped
  <2>7. /\ AgentBudgetTruth(r, s) => AgentBudgetTruth(r, s)'
        /\ PlanTruth(r, s) => PlanTruth(r, s)'
        /\ PlainTruth(r, s) => PlainTruth(r, s)'
    BY <1>2, NothingMoves
  <2>8. s.kind = "agentBudget" => AgentBudgetTruth(r, t)'
    <3> SUFFICES ASSUME s.kind = "agentBudget" PROVE AgentBudgetTruth(r, t)'
      OBVIOUS
    <3>1. AgentBudgetTruth(r, s)'
      BY <1>1, <2>7 DEF Truth
    <3>2. s.next = 5 => Upcoming(r) = "revoke"
      BY <1>1, StepsAre, StepCounts DEF Upcoming
    <3>3. s.next = 5 => s.won = 1
      BY <1>5, <3>2 DEF CheckFails, AgentBudgetFails
    <3> QED
      BY <1>1, <2>5, <3>1, <3>3 DEF AgentBudgetTruth
  <2>9. s.kind = "plan" => PlanTruth(r, t)'
    <3> SUFFICES ASSUME s.kind = "plan" PROVE PlanTruth(r, t)'
      OBVIOUS
    <3>1. PlanTruth(r, s)'
      BY <1>1, <2>7 DEF Truth
    <3> QED
      BY <1>1, <2>5, <3>1 DEF PlanTruth
  <2>10. s.kind = "plain" => PlainTruth(r, t)'
    <3> SUFFICES ASSUME s.kind = "plain" PROVE PlainTruth(r, t)'
      OBVIOUS
    <3>1. PlainTruth(r, s)'
      BY <1>1, <2>7 DEF Truth
    <3> QED
      BY <1>1, <2>5, <3>1 DEF PlainTruth
  <2>11. Truth(r, t)'
    BY <2>5, <2>8, <2>9, <2>10 DEF Truth
  <2> QED
    BY <1>2, <1>3, <2>6, <2>11, ScriptTurns
<1> QED
  BY <1>4, <1>5

\* A step of a run keeps what is true of it and of the others.
LEMMA RunStepKeepsTruth ==
    ASSUME SubscriptionsAssumption, EvidenceInv, NEW r \in ScriptRun, RunStep(r)
    PROVE  EvidenceInv'
<1> PICK s : s = script[r]
  OBVIOUS
<1>1. SubscriptionsTyped /\ Truth(r, s)
  BY DEF EvidenceInv
<1>2. /\ s \in Script /\ s.at = "running" /\ s.kind \in Kinds
      /\ s.next \in 1 .. Len(Steps(s.kind))
  BY <1>1, RunStepGoesOn
<1>3. PICK t \in Script, tx \in Transaction :
        /\ script' = [script EXCEPT ![r] = t] /\ t.kind = s.kind
        /\ tx.op = Steps(s.kind)[s.next] /\ tx.of = r
        /\ tx.op \in {"create", "subscribe"} => tx.init = s.init
        /\ \/ /\ Outcomes(chain, tx) = {}
              /\ chain' = chain /\ limbo' = limbo /\ disturbed' = disturbed
              /\ t.at # "failed" => tx.op \in TransferOps /\ t.won = s.won
           \/ /\ chain' \in Outcomes(chain, tx)
              /\ limbo' = limbo /\ disturbed' = disturbed
              /\ t.at # "failed" =>
                   /\ tx.op # "probe"
                   /\ t.won = s.won + (IF tx.op \in {"raceA", "raceB"} THEN 1 ELSE 0)
           \/ /\ disturbed' = [disturbed EXCEPT ![r] = TRUE]
              /\ t.at # "failed" => tx.op \in TransferOps /\ t.won = s.won
              /\ \/ limbo' = limbo \cup {tx} /\ chain' = chain
                 \/ chain' \in Outcomes(chain, tx) /\ limbo' = limbo
        /\ t.at # "failed" => t.at = "checking" /\ t.next = s.next + 1 /\ Same(s, t)
  BY <1>1, RunStepGoesOn
<1>4. disturbed' \in [ScriptRun -> BOOLEAN]
  BY <1>1, <1>3 DEF SubscriptionsTyped
<1>5. \A q \in ScriptRun \ {r} : ~OwnTx(tx, q)
  BY <1>3 DEF OwnTx
<1>6. Truth(r, t)'
  <2>1. CASE t.at = "failed"
    BY <2>1 DEF Truth
  <2>2. CASE t.at # "failed"
    <3>1. \/ /\ tx.op \in TransferOps /\ t.won = s.won /\ chain' = chain
             /\ limbo' = limbo \/ limbo' = limbo \cup {tx}
          \/ /\ chain' \in Outcomes(chain, tx) /\ limbo' = limbo
             /\ \/ tx.op \in TransferOps /\ t.won = s.won
                \/ /\ tx.op # "probe"
                   /\ t.won = s.won + (IF tx.op \in {"raceA", "raceB"} THEN 1 ELSE 0)
      BY <1>3, <2>2
    <3>2. t.at = "checking" /\ t.next = s.next + 1
      BY <1>3, <2>2
    <3>3. s.kind = "agentBudget" => AgentBudgetTruth(r, t)'
      <4> SUFFICES ASSUME s.kind = "agentBudget" PROVE AgentBudgetTruth(r, t)'
        OBVIOUS
      <4>1. AgentBudgetTruth(r, s) /\ s.next \in 1 .. 7
        BY <1>1, <1>2, StepCounts DEF Truth
      <4> QED
        BY <1>1, <1>2, <1>3, <3>1, <3>2, <4>1, AgentBudgetStepIsTrue
    <3>4. s.kind = "plan" => PlanTruth(r, t)'
      <4> SUFFICES ASSUME s.kind = "plan" PROVE PlanTruth(r, t)'
        OBVIOUS
      <4>1. PlanTruth(r, s) /\ s.next \in 1 .. 7
        BY <1>1, <1>2, StepCounts DEF Truth
      <4> QED
        BY <1>1, <1>2, <1>3, <3>1, <3>2, <4>1, PlanStepIsTrue
    <3>5. s.kind = "plain" => PlainTruth(r, t)'
      <4> SUFFICES ASSUME s.kind = "plain" PROVE PlainTruth(r, t)'
        OBVIOUS
      <4>1. PlainTruth(r, s) /\ s.next \in 1 .. 4
        BY <1>1, <1>2, StepCounts DEF Truth
      <4> QED
        BY <1>1, <1>2, <1>3, <3>1, <3>2, <4>1, PlainStepIsTrue
    <3> QED
      BY <1>3, <3>2, <3>3, <3>4, <3>5 DEF Truth
  <2> QED
    BY <2>1, <2>2
<1>7. /\ chain' = chain \/ chain' \in Outcomes(chain, tx)
      /\ limbo' = limbo \/ limbo' = limbo \cup {tx}
  BY <1>3
<1> QED
  BY <1>3, <1>4, <1>5, <1>6, <1>7, ScriptMoves

\* ScriptsInvariant: what is true of a run at each of its steps.
THEOREM ScriptsInvariant == SubscriptionsSpec => []EvidenceInv
<1> USE SubscriptionsAssumption
<1>1. SubscriptionsInit => EvidenceInv
  <2> SUFFICES ASSUME SubscriptionsInit PROVE EvidenceInv
    OBVIOUS
  <2>1. chain \in Chain
    BY DEF SubscriptionsInit, Chain
  <2>2. SubscriptionsTyped
    BY <2>1 DEF SubscriptionsInit, SubscriptionsTyped
  <2>3. ASSUME NEW r \in ScriptRun, NEW s, s = script[r]
        PROVE  Truth(r, s)
    <3>1. s.at = "idle"
      BY <2>3 DEF SubscriptionsInit
    <3>2. Untouched(r)
      BY DEF SubscriptionsInit, Untouched, Grants, Subscribed
    <3> QED
      BY <3>1, <3>2 DEF Truth
  <2> QED
    BY <2>2, <2>3 DEF EvidenceInv
<1>2. EvidenceInv /\ [SubscriptionsNext]_subscriptionsVars => EvidenceInv'
  <2> SUFFICES ASSUME EvidenceInv, [SubscriptionsNext]_subscriptionsVars PROVE EvidenceInv'
    OBVIOUS
  <2>1. ASSUME NEW r \in ScriptRun, NEW kind \in Kinds, StartRun(r, kind) PROVE EvidenceInv'
    BY <2>1, StartKeepsTruth
  <2>2. ASSUME NEW r \in ScriptRun, SweepStep(r) PROVE EvidenceInv'
    BY <2>2, SweepKeepsTruth
  <2>3. ASSUME NEW r \in ScriptRun, Swept(r) PROVE EvidenceInv'
    BY <2>3, SweptKeepsTruth
  <2>4. ASSUME NEW r \in ScriptRun, RunStep(r) PROVE EvidenceInv'
    BY <2>4, RunStepKeepsTruth
  <2>5. ASSUME NEW r \in ScriptRun, Check(r) PROVE EvidenceInv'
    BY <2>5, CheckKeepsTruth
  <2>6. ASSUME NEW r \in ScriptRun, WriteEvidence(r) PROVE EvidenceInv'
    BY <2>6, WriteKeepsTruth
  <2>7. ASSUME NEW r \in ScriptRun, Crash(r) PROVE EvidenceInv'
    BY <2>7, CrashKeepsTruth
  <2>8. ASSUME NEW tx \in limbo, Land(tx) PROVE EvidenceInv'
    BY <2>8, LandKeepsTruth
  <2>9. CASE UNCHANGED subscriptionsVars
    <3>1. UNCHANGED <<chain, limbo, script, disturbed>>
      BY <2>9 DEF subscriptionsVars
    <3>2. SubscriptionsTyped'
      BY <3>1 DEF EvidenceInv, SubscriptionsTyped
    <3>3. \A r \in ScriptRun : \A s \in {script[r]} : Truth(r, s)'
      BY <3>1, NothingMoves DEF EvidenceInv, Truth
    <3> QED
      BY <3>1, <3>2, <3>3 DEF EvidenceInv
  <2> QED
    BY <2>1, <2>2, <2>3, <2>4, <2>5, <2>6, <2>7, <2>8, <2>9 DEF SubscriptionsNext
<1> QED
  BY <1>1, <1>2, PTL DEF SubscriptionsSpec

\* EvidenceIsTrue: whatever is lost, lands late or runs at the same time, what the
\* scripts write down is true, for any number of runs and any attempt.
THEOREM EvidenceStaysTrue == SubscriptionsSpec => []EvidenceIsTrue
<1>1. EvidenceInv => EvidenceIsTrue
  <2> SUFFICES ASSUME EvidenceInv, NEW r \in ScriptRun, script[r].at = "evidence"
               PROVE  /\ chain.moved[r] = (IF script[r].kind = "plain" THEN 0 ELSE AttemptAtomic)
                      /\ Grants(r) = {} /\ Subscribed(r) = {}
    BY DEF EvidenceIsTrue, Grants, Subscribed
  <2> PICK s : s = script[r]
    OBVIOUS
  <2>1. s \in Script /\ s.kind \in Kinds /\ s.next \in Nat /\ Truth(r, s)
    BY DEF EvidenceInv, SubscriptionsTyped, Script
  <2>2. CASE s.kind = "agentBudget"
    BY <2>1, <2>2 DEF Truth, AgentBudgetTruth
  <2>3. CASE s.kind = "plan"
    BY <2>1, <2>3 DEF Truth, PlanTruth
  <2>4. CASE s.kind = "plain"
    BY <2>1, <2>4 DEF Truth, PlainTruth
  <2> QED
    BY <2>1, <2>2, <2>3, <2>4 DEF Kinds
<1> QED
  BY <1>1, ScriptsInvariant, PTL

-----------------------------------------------------------------------------
(* What an earlier run left does not stop a later one.  A run that nothing  *)
(* disturbs is alone, so that whatever it looked at is still there when it  *)
(* acts; what follows goes through the scripts step by step.                *)

\* When the program accepts an instruction that needs an account of the run.
LEMMA AcceptedWhen ==
    ASSUME NEW c, NEW r
    PROVE  /\ TransferFixed(c, r) # {} <=>
                \E g \in c.grants : g.by = r /\ g.init = c.authority /\ g.left >= AttemptAtomic
           /\ RevokeDelegation(c, r) # {} <=> \E g \in c.grants : g.by = r
           /\ CreatePlan(c, r) # {}
           /\ \A init : Subscribe(c, r, init) # {} <=>
                (r \in c.plans /\ c.authority = init /\ init # 0)
           /\ TransferSubscription(c, r) # {} <=>
                \E u \in c.subscriptions : u.by = r /\ u.init = c.authority /\ ~u.pulled
           /\ CancelSubscription(c, r) # {} <=> \E u \in c.subscriptions : u.by = r
           /\ RevokeAbandoned(c, r) # {} <=>
                \E u \in c.subscriptions : u.by = r /\ u.init # c.authority
<1>1. \A init : Subscribe(c, r, init) # {} <=>
           (r \in c.plans /\ c.authority = init /\ init # 0)
  BY DEF Subscribe, When
<1>2. /\ RevokeDelegation(c, r) # {} <=> \E g \in c.grants : g.by = r
      /\ RevokeAbandoned(c, r) # {} <=>
           \E u \in c.subscriptions : u.by = r /\ u.init # c.authority
      /\ CreatePlan(c, r) # {}
  BY DEF RevokeDelegation, RevokeAbandoned, CreatePlan, When
<1>3. TransferFixed(c, r) # {} <=>
        \E g \in c.grants : g.by = r /\ g.init = c.authority /\ g.left >= AttemptAtomic
  BY DEF TransferFixed
<1>4. TransferSubscription(c, r) # {} <=>
        \E u \in c.subscriptions : u.by = r /\ u.init = c.authority /\ ~u.pulled
  BY DEF TransferSubscription
<1>5. CancelSubscription(c, r) # {} <=> \E u \in c.subscriptions : u.by = r
  BY DEF CancelSubscription
<1> QED
  BY <1>1, <1>2, <1>3, <1>4, <1>5

\* While an undisturbed run is under way no other run moves.
LEMMA OthersRecover ==
    ASSUME NEW q \in ScriptRun, Active(q), NEW r \in ScriptRun \ {q}, NEW s, s = script[r],
           Recovers(r, s), disturbed'[r] = FALSE => disturbed[r] = FALSE
    PROVE  Recovers(r, s)'
<1>1. SUFFICES ASSUME disturbed'[r] = FALSE, s.kind \in {"agentBudget", "plan"}
               PROVE  /\ s.at # "failed"
                      /\ s.at \notin {"sweeping", "running", "checking"}
  BY DEF Recovers
<1>2. disturbed[r] = FALSE
  BY <1>1
<1>3. s.at # "failed"
  BY <1>1, <1>2 DEF Recovers
<1>4. ASSUME s.at \in {"sweeping", "running", "checking"}
      PROVE  FALSE
  <2>1. Alone(r)
    BY <1>1, <1>2, <1>4 DEF Recovers
  <2>2. q \in ScriptRun \ {r}
    OBVIOUS
  <2> QED
    BY <2>1, <2>2 DEF Alone
<1> QED
  BY <1>3, <1>4

\* So a run's step matters for itself only.
LEMMA RecoverMoves ==
    ASSUME SubscriptionsTyped, RecoverInv, NEW r \in ScriptRun, Active(r),
           NEW t, script' = [script EXCEPT ![r] = t],
           disturbed' = disturbed \/ disturbed' = [disturbed EXCEPT ![r] = TRUE],
           Recovers(r, t)'
    PROVE  RecoverInv'
<1>1. /\ DOMAIN script = ScriptRun /\ DOMAIN disturbed = ScriptRun
      /\ script = [q \in ScriptRun |-> script[q]] /\ disturbed = [q \in ScriptRun |-> disturbed[q]]
  BY DEF SubscriptionsTyped
<1>2. ASSUME NEW q \in ScriptRun, NEW s, s = script'[q]
      PROVE  Recovers(q, s)'
  <2>1. CASE q = r
    <3>1. s = t
      BY <1>1, <1>2, <2>1
    <3> QED
      BY <2>1, <3>1
  <2>2. CASE q # r
    <3>1. s = script[q]
      BY <1>1, <1>2, <2>2
    <3>2. disturbed'[q] = disturbed[q]
      BY <1>1, <2>2
    <3>3. Recovers(q, s)
      BY <3>1 DEF RecoverInv
    <3>4. q \in ScriptRun \ {r}
      BY <2>2
    <3> QED
      BY <3>1, <3>2, <3>3, <3>4, OthersRecover
  <2> QED
    BY <2>1, <2>2
<1>3. \A q \in ScriptRun : \A s \in {script'[q]} : Recovers(q, s)'
  BY <1>2
<1> QED
  BY <1>3 DEF RecoverInv

\* A run that was disturbed claims nothing.
LEMMA DisturbedRecovers ==
    ASSUME SubscriptionsTyped, NEW r \in ScriptRun, NEW t,
           disturbed' = [disturbed EXCEPT ![r] = TRUE]
    PROVE  Recovers(r, t)'
<1>1. disturbed'[r] = TRUE
  BY DEF SubscriptionsTyped
<1>2. TRUE # FALSE
  OBVIOUS
<1>3. disturbed'[r] # FALSE
  BY <1>1, <1>2
<1> QED
  BY <1>3 DEF Recovers

\* A run that was alone stays so by its own steps.
LEMMA StaysAlone ==
    ASSUME SubscriptionsTyped, NEW r \in ScriptRun, Alone(r), NEW t,
           script' = [script EXCEPT ![r] = t], limbo' = limbo
    PROVE  Alone(r)'
BY DEF Alone, Active, SubscriptionsTyped

\* A run that stops was disturbed.
LEMMA CrashRecovers ==
    ASSUME SubscriptionsTyped, RecoverInv, NEW r \in ScriptRun, Crash(r)
    PROVE  RecoverInv'
<1> PICK t : t = Over(r)
  OBVIOUS
<1>1. /\ script' = [script EXCEPT ![r] = t] /\ Active(r)
      /\ disturbed' = [disturbed EXCEPT ![r] = TRUE]
  BY DEF Crash
<1> QED
  BY <1>1, DisturbedRecovers, RecoverMoves

\* A run that wrote its evidence has not failed.
LEMMA WriteRecovers ==
    ASSUME SubscriptionsTyped, RecoverInv, NEW r \in ScriptRun, WriteEvidence(r)
    PROVE  RecoverInv'
<1> PICK s, t : s = script[r] /\ t = MovesTo(s, "evidence")
  OBVIOUS
<1>1. /\ script' = [script EXCEPT ![r] = t] /\ disturbed' = disturbed
      /\ s \in Script /\ s.at = "running"
  BY DEF WriteEvidence, SubscriptionsTyped
<1>2. t.at = "evidence"
  BY <1>1 DEF MovesTo, Script
<1>3. Recovers(r, t)' /\ Active(r)
  BY <1>1, <1>2 DEF Recovers, Active
<1> QED
  BY <1>1, <1>3, RecoverMoves

\* What lands late disturbed its run when it was sent.
LEMMA LandRecovers ==
    ASSUME SubscriptionsTyped, RecoverInv, NEW tx \in limbo, Land(tx)
    PROVE  RecoverInv'
<1>1. ASSUME NEW r \in ScriptRun, NEW s, s = script'[r]
      PROVE  Recovers(r, s)'
  <2>1. s = script[r] /\ disturbed' = disturbed /\ ~Alone(r)
    BY <1>1 DEF Land, Alone
  <2>2. Recovers(r, s)
    BY <2>1 DEF RecoverInv
  <2> QED
    BY <2>1, <2>2 DEF Recovers
<1>2. \A r \in ScriptRun : \A s \in {script'[r]} : Recovers(r, s)'
  BY <1>1
<1> QED
  BY <1>2 DEF RecoverInv

\* A run that starts while another lives disturbs it; what it finds is to be swept.
LEMMA StartRecovers ==
    ASSUME SubscriptionsTyped, RecoverInv, NEW q \in ScriptRun, NEW kind \in Kinds,
           StartRun(q, kind)
    PROVE  RecoverInv'
<1> PICK t : t = [at |-> "sweeping", kind |-> kind, sweep |-> Sweep(kind),
                  next |-> 1, init |-> 0, before |-> 0, won |-> 0]
  OBVIOUS
<1>1. /\ script' = [script EXCEPT ![q] = t] /\ ~Active(q) /\ UNCHANGED <<chain, limbo>>
      /\ disturbed' = [r \in ScriptRun |->
                         \/ disturbed[r]
                         \/ r = q /\ (limbo # {} \/ \E p \in ScriptRun : Active(p))
                         \/ Active(r)]
  BY DEF StartRun, Idle, Active
<1>2. ASSUME NEW r \in ScriptRun, disturbed'[r] = FALSE
      PROVE  /\ ~disturbed[r] /\ ~Active(r)
             /\ r = q => limbo = {} /\ \A p \in ScriptRun : ~Active(p)
  BY <1>1, <1>2
<1>3. \A r \in ScriptRun : ~disturbed[r] => disturbed[r] = FALSE
  BY DEF SubscriptionsTyped
<1>4. script \in [ScriptRun -> Script \cup [at : {"idle"}, kind : {"none"}]]
  BY DEF SubscriptionsTyped
<1>5. ASSUME NEW r \in ScriptRun, NEW s, s = script'[r]
      PROVE  Recovers(r, s)'
  <2>1. CASE r = q
    <3>1. s = t
      BY <1>1, <1>4, <1>5, <2>1
    <3>2. SUFFICES ASSUME disturbed'[r] = FALSE
                   PROVE  /\ Alone(r)'
                          /\ kind = "agentBudget" => AgentBudgetSweeps(t)'
                          /\ kind = "plan" => PlanSweeps(t)'
      BY <3>1 DEF Recovers
    <3>3. Alone(r)
      BY <1>2, <2>1, <3>2 DEF Alone
    <3>4. Alone(r)'
      BY <1>1, <2>1, <3>3, StaysAlone
    <3>5. kind = "agentBudget" => AgentBudgetSweeps(t)'
      BY <1>1 DEF AgentBudgetSweeps, Sweep, SweepAgentBudget, Close
    <3>6. kind = "plan" => PlanSweeps(t)'
      BY <1>1 DEF PlanSweeps, Sweep, SweepPlan, Close
    <3> QED
      BY <3>4, <3>5, <3>6
  <2>2. CASE r # q
    <3>1. s = script[r]
      BY <1>1, <1>4, <1>5, <2>2
    <3>2. Recovers(r, s)
      BY <3>1 DEF RecoverInv
    <3>3. SUFFICES ASSUME disturbed'[r] = FALSE, s.kind \in {"agentBudget", "plan"}
                   PROVE  s.at \notin {"failed", "sweeping", "running", "checking"}
      BY DEF Recovers
    <3>4. ~Active(r) /\ disturbed[r] = FALSE
      BY <1>2, <1>3, <3>3
    <3> QED
      BY <3>1, <3>2, <3>3, <3>4 DEF Recovers, Active
  <2> QED
    BY <2>1, <2>2
<1>6. \A r \in ScriptRun : \A s \in {script'[r]} : Recovers(r, s)'
  BY <1>5
<1> QED
  BY <1>6 DEF RecoverInv

\* After a sweep there is no authority.
LEMMA SweptRecovers ==
    ASSUME EvidenceInv, RecoverInv, NEW r \in ScriptRun, Swept(r)
    PROVE  RecoverInv'
<1> PICK s : s = script[r]
  OBVIOUS
<1>1. /\ s \in Script /\ s.at = "sweeping" /\ Truth(r, s) /\ SubscriptionsTyped
      /\ s.sweep = [first |-> {}, last |-> {}]
  BY DEF EvidenceInv, SubscriptionsTyped, Swept
<1>2. PICK b \in Nat : b = TokenBalance(s.kind)
  BY <1>1 DEF SubscriptionsTyped, TokenBalance, Chain, Script
<1>3. PICK u \in Script : u = MovesTo(s, "running")
  BY <1>1 DEF MovesTo, Script
<1>4. PICK t \in Script : t = [u EXCEPT !.before = b]
  BY <1>2 DEF Script
<1>5. /\ t.at = "running" /\ t.next = s.next /\ t.init = s.init /\ t.won = s.won
      /\ t.kind = s.kind /\ t.before = b
  BY <1>1, <1>3, <1>4 DEF MovesTo, Script
<1>6. script' = [script EXCEPT ![r] = t] /\ UNCHANGED <<chain, limbo, disturbed>> /\ Active(r)
  BY <1>1, <1>2, <1>3, <1>4 DEF Swept, SubscriptionsTyped, Active
<1>7. t.next = 1 /\ t.init = 0 /\ t.won = 0 /\ chain'.balance[t.kind] = t.before
  BY <1>1, <1>2, <1>5, <1>6 DEF Truth, TokenBalance
<1>8. Recovers(r, t)'
  <2>1. SUFFICES ASSUME disturbed[r] = FALSE, s.kind \in {"agentBudget", "plan"}
                 PROVE  /\ Alone(r)'
                        /\ s.kind = "agentBudget" => AgentBudgetRuns(r, t)'
                        /\ s.kind = "plan" => PlanRuns(r, t)'
    BY <1>5, <1>6 DEF Recovers
  <2>2. /\ Alone(r)
        /\ s.kind = "agentBudget" => AgentBudgetSweeps(s)
        /\ s.kind = "plan" => PlanSweeps(s)
    BY <1>1, <2>1 DEF RecoverInv, Recovers
  <2>3. Alone(r)'
    BY <1>1, <1>6, <2>2, StaysAlone
  <2>4. Close = {}
    BY <1>1, <2>1, <2>2 DEF AgentBudgetSweeps, PlanSweeps
  <2>5. chain'.authority = 0
    BY <1>6, <2>4 DEF Close
  <2>6. AgentBudgetRuns(r, t)'
    BY <1>5, <1>7, <2>5 DEF AgentBudgetRuns
  <2>7. PlanRuns(r, t)'
    BY <1>5, <1>7, <2>5 DEF PlanRuns
  <2> QED
    BY <2>3, <2>6, <2>7
<1> QED
  BY <1>1, <1>6, <1>8, RecoverMoves

\* What a lone run finds can be revoked, and closed, in the order it chose.
LEMMA SweepRecovers ==
    ASSUME EvidenceInv, RecoverInv, NEW r \in ScriptRun, SweepStep(r)
    PROVE  RecoverInv'
<1> PICK s : s = script[r]
  OBVIOUS
<1>1. s \in Script /\ s.at = "sweeping" /\ SubscriptionsTyped /\ Active(r) /\ chain \in Chain
  BY DEF EvidenceInv, SubscriptionsTyped, SweepStep, Active
<1>2. PICK tx \in CleaningTx :
        /\ tx \in IF s.sweep.first # {} THEN s.sweep.first ELSE s.sweep.last
        /\ Send(r, tx,
             [s EXCEPT !.sweep = [first |-> s.sweep.first \ {tx}, last |-> s.sweep.last \ {tx}]],
             Over(r))
  BY <1>1 DEF SweepStep, Script, Sweeps
<1>3. PICK w \in Sweeps : w = [first |-> s.sweep.first \ {tx}, last |-> s.sweep.last \ {tx}]
  BY <1>1 DEF Script, Sweeps
<1>4. PICK a \in Script :
        /\ a = [s EXCEPT !.sweep = w] /\ a.at = s.at /\ a.kind = s.kind /\ a.sweep = w
  <2>1. s \in Script
    BY <1>1
  <2>2. PICK a \in Script : a = [s EXCEPT !.sweep = w]
    BY <2>1 DEF Script
  <2>3. a.at = s.at /\ a.kind = s.kind /\ a.sweep = w
    BY <2>1, <2>2 DEF Script
  <2> QED
    BY <2>2, <2>3
<1>5. PICK b \in Script : b = Over(r) /\ b.at = "failed" /\ b.kind = s.kind
  BY <1>1, AfterIs DEF RunEnded
<1>6. Send(r, tx, a, b)
  BY <1>2, <1>3, <1>4, <1>5
<1>7. CASE disturbed' = [disturbed EXCEPT ![r] = TRUE] /\ script' = [script EXCEPT ![r] = b]
  BY <1>1, <1>7, DisturbedRecovers, RecoverMoves
<1>8. ASSUME NEW t \in {a, b}, script' = [script EXCEPT ![r] = t], disturbed' = disturbed,
             limbo' = limbo,
             \/ t = b /\ Outcomes(chain, tx) = {}
             \/ t = a /\ chain' \in Outcomes(chain, tx)
      PROVE  RecoverInv'
  <2>1. t.kind = s.kind
    BY <1>4, <1>5
  <2>2. ASSUME disturbed[r] = FALSE, s.kind \in {"agentBudget", "plan"}
        PROVE  /\ t = a /\ Alone(r)'
               /\ s.kind = "agentBudget" => AgentBudgetSweeps(a)'
               /\ s.kind = "plan" => PlanSweeps(a)'
    <3>1. /\ Alone(r)
          /\ s.kind = "agentBudget" => AgentBudgetSweeps(s)
          /\ s.kind = "plan" => PlanSweeps(s)
      BY <1>1, <2>2 DEF RecoverInv, Recovers
    <3>2. Alone(r)'
      BY <1>1, <1>8, <3>1, StaysAlone
    <3>3. tx \in Transaction
      BY DEF CleaningTx, Transaction
    <3>4. /\ \A x \in Close : x.op = "close" /\ chain.authority # 0
          /\ Close' = IF chain'.authority = 0 THEN {} ELSE {Tx("close", 0, 0)}
          /\ Close = IF chain.authority = 0 THEN {} ELSE {Tx("close", 0, 0)}
      BY DEF Close, Tx
    <3>5. ASSUME tx \in Close
          PROVE  /\ t = a /\ chain'.authority = 0 /\ Close' = {} /\ Close = {tx}
                 /\ chain'.grants = chain.grants /\ chain'.subscriptions = chain.subscriptions
      <4>1. Outcomes(chain, tx) = RevokeAllForMint(chain) /\ chain.authority # 0
        BY <3>3, <3>4, <3>5, OutcomesAre
      <4>2. Outcomes(chain, tx) # {}
        BY <4>1 DEF RevokeAllForMint, When
      <4>3. t = a /\ chain' \in RevokeAllForMint(chain)
        BY <1>8, <4>1, <4>2
      <4> QED
        BY <1>1, <3>4, <3>5, <4>3, CloseOutcome
    <3>6. CASE s.kind = "agentBudget"
      <4>1. /\ s.sweep.first \subseteq {Tx("revoke", g.by, 0) : g \in chain.grants}
            /\ s.sweep.last = Close
        BY <3>1, <3>6 DEF AgentBudgetSweeps
      <4>2. CASE s.sweep.first # {}
        <5>1. PICK g \in chain.grants : tx = Tx("revoke", g.by, 0)
          BY <1>2, <4>1, <4>2
        <5>2. tx.op = "revoke" /\ tx.of = g.by
          BY <5>1 DEF Tx
        <5>3. Outcomes(chain, tx) = RevokeDelegation(chain, g.by)
          BY <3>3, <5>2, OutcomesAre
        <5>4. Outcomes(chain, tx) # {}
          BY <5>3, AcceptedWhen
        <5>5. t = a /\ chain' \in RevokeDelegation(chain, g.by)
          BY <1>8, <5>3, <5>4
        <5>6. /\ chain'.authority = chain.authority
              /\ chain'.grants = {h \in chain.grants : h.by # g.by}
          BY <1>1, <5>5, RevokeOutcome
        <5>7. w.first \subseteq {Tx("revoke", h.by, 0) : h \in chain'.grants}
          <6>1. ASSUME NEW x \in w.first
                PROVE  \E h \in chain'.grants : x = Tx("revoke", h.by, 0)
            <7>1. x \in s.sweep.first /\ x # tx
              BY <1>3, <6>1
            <7>2. PICK h \in chain.grants : x = Tx("revoke", h.by, 0)
              BY <4>1, <7>1
            <7>3. h.by # g.by
              BY <5>1, <7>1, <7>2
            <7> QED
              BY <5>6, <7>2, <7>3
          <6> QED
            BY <6>1
        <5>8. w.last = Close'
          <6>1. tx \notin Close
            BY <3>4, <5>2
          <6> QED
            BY <1>3, <3>4, <4>1, <5>6, <6>1
        <5> QED
          BY <1>4, <3>2, <3>6, <5>5, <5>7, <5>8 DEF AgentBudgetSweeps
      <4>3. CASE s.sweep.first = {}
        <5>1. tx \in Close
          BY <1>2, <4>1, <4>3
        <5>2. w.first = {} /\ w.last = {}
          BY <1>3, <3>5, <4>1, <4>3, <5>1
        <5> QED
          BY <1>4, <3>2, <3>5, <3>6, <5>1, <5>2 DEF AgentBudgetSweeps
      <4> QED
        BY <4>2, <4>3
    <3>7. CASE s.kind = "plan"
      <4>1. /\ s.sweep.first = Close
            /\ s.sweep.last \subseteq {Tx("abandon", u.by, 0) : u \in chain.subscriptions}
        BY <3>1, <3>7 DEF PlanSweeps
      <4>2. CASE s.sweep.first # {}
        <5>1. tx \in Close
          BY <1>2, <4>1, <4>2
        <5>2. w.first = {} /\ w.last \subseteq s.sweep.last
          BY <1>3, <3>5, <4>1, <5>1
        <5>3. w.last \subseteq {Tx("abandon", u.by, 0) : u \in chain'.subscriptions}
          BY <3>5, <4>1, <5>1, <5>2
        <5> QED
          BY <1>4, <3>2, <3>5, <3>7, <5>1, <5>2, <5>3 DEF PlanSweeps
      <4>3. CASE s.sweep.first = {}
        <5>1. PICK u \in chain.subscriptions : tx = Tx("abandon", u.by, 0)
          BY <1>2, <4>1, <4>3
        <5>2. tx.op = "abandon" /\ tx.of = u.by
          BY <5>1 DEF Tx
        <5>3. Outcomes(chain, tx) = RevokeAbandoned(chain, u.by)
          BY <3>3, <5>2, OutcomesAre
        <5>4. chain.authority = 0 /\ u.init # 0
          BY <1>1, <3>4, <4>1, <4>3 DEF Chain
        <5>5. Outcomes(chain, tx) # {}
          BY <5>3, <5>4, AcceptedWhen
        <5>6. t = a /\ chain' \in RevokeAbandoned(chain, u.by)
          BY <1>8, <5>3, <5>5
        <5>7. /\ chain'.authority = chain.authority
              /\ chain'.subscriptions = {v \in chain.subscriptions : v.by # u.by}
          BY <1>1, <5>6, AbandonOutcome
        <5>8. w.last \subseteq {Tx("abandon", v.by, 0) : v \in chain'.subscriptions}
          <6>1. ASSUME NEW x \in w.last
                PROVE  \E v \in chain'.subscriptions : x = Tx("abandon", v.by, 0)
            <7>1. x \in s.sweep.last /\ x # tx
              BY <1>3, <6>1
            <7>2. PICK v \in chain.subscriptions : x = Tx("abandon", v.by, 0)
              BY <4>1, <7>1
            <7>3. v.by # u.by
              BY <5>1, <7>1, <7>2
            <7> QED
              BY <5>7, <7>2, <7>3
          <6> QED
            BY <6>1
        <5>9. w.first = Close'
          BY <1>3, <3>4, <4>3, <5>4, <5>7
        <5> QED
          BY <1>4, <3>2, <3>7, <5>6, <5>8, <5>9 DEF PlanSweeps
      <4> QED
        BY <4>2, <4>3
    <3> QED
      BY <2>2, <3>6, <3>7
  <2>3. Recovers(r, t)'
    <3>1. SUFFICES ASSUME disturbed[r] = FALSE, s.kind \in {"agentBudget", "plan"}
                   PROVE  /\ t.at = "sweeping" /\ Alone(r)'
                          /\ s.kind = "agentBudget" => AgentBudgetSweeps(t)'
                          /\ s.kind = "plan" => PlanSweeps(t)'
      BY <1>8, <2>1 DEF Recovers
    <3> QED
      BY <1>1, <1>4, <2>2, <3>1
  <2> QED
    BY <1>1, <1>8, <2>3, RecoverMoves
<1> QED
  BY <1>6, <1>7, <1>8 DEF Send

\* What is checked holds of a run that nothing disturbs.
LEMMA CheckRecovers ==
    ASSUME SubscriptionsAssumption, EvidenceInv, RecoverInv, NEW r \in ScriptRun, Check(r)
    PROVE  RecoverInv'
<1> PICK s : s = script[r]
  OBVIOUS
<1>1. /\ s \in Script /\ s.at = "checking" /\ Truth(r, s) /\ SubscriptionsTyped /\ Active(r)
      /\ s.kind \in Kinds /\ s.next \in Nat \ {0} /\ s.init \in Nat /\ s.before \in Nat
      /\ chain.authority \in Nat /\ Recovers(r, s)
  BY DEF EvidenceInv, RecoverInv, SubscriptionsTyped, Check, Script, Chain, Active
<1>2. UNCHANGED <<chain, limbo, disturbed>>
  BY DEF Check
<1>3. ASSUME disturbed[r] = FALSE, s.kind \in {"agentBudget", "plan"}
      PROVE  /\ Alone(r) /\ ~CheckFails(r)
             /\ s.kind = "agentBudget" => AgentBudgetRuns(r, s)
             /\ s.kind = "plan" => PlanRuns(r, s)
  <2>1. /\ Alone(r)
        /\ s.kind = "agentBudget" => AgentBudgetRuns(r, s)
        /\ s.kind = "plan" => PlanRuns(r, s)
    BY <1>1, <1>3 DEF Recovers
  <2>2. AttemptAtomic \in Nat /\ s.before + AttemptAtomic - s.before = AttemptAtomic
    BY <1>1 DEF SubscriptionsAssumption
  <2>3. chain.balance[s.kind] = s.before + AttemptAtomic => Arrived(r) = AttemptAtomic
    <3>1. Arrived(r) = chain.balance[s.kind] - s.before
      BY DEF Arrived, TokenBalance
    <3> PICK b : b = chain.balance[s.kind]
      OBVIOUS
    <3>2. Arrived(r) = b - s.before
      BY <3>1
    <3> SUFFICES ASSUME b = s.before + AttemptAtomic PROVE Arrived(r) = AttemptAtomic
      OBVIOUS
    <3>3. s.before \in Nat /\ AttemptAtomic \in Nat
      BY <1>1, <2>2
    <3> QED
      BY <3>2, <3>3
  <2>4. CASE s.kind = "agentBudget"
    <3>1. AgentBudgetRuns(r, s) /\ AgentBudgetTruth(r, s)
      BY <1>1, <2>1, <2>4 DEF Truth
    <3>2. ~AuthorityMissing(r)
      BY <3>1 DEF AgentBudgetRuns, AuthorityMissing
    <3>3. /\ Upcoming(r) = "raceA" => s.next = 3
          /\ Upcoming(r) = "revoke" => s.next = 5
          /\ Upcoming(r) = "probe" => s.next = 6
      <4> PICK n \in Nat \ {0} : n = s.next
        BY <1>1
      <4>1. CASE n > 7
        <5>1. Upcoming(r) = "end"
          BY <2>4, <4>1, StepCounts DEF Upcoming
        <5> QED
          BY <4>1, <5>1
      <4>2. CASE n \in 1 .. 7
        <5>1. Upcoming(r) =
                <<"init", "create", "raceA", "raceB", "revoke", "probe", "close">>[n]
          BY <2>4, <4>2, StepsAre, StepCounts DEF Upcoming
        <5> QED
          BY <4>2, <5>1
      <4> QED
        BY <4>1, <4>2
    <3>4. Upcoming(r) = "raceA" => \E g \in Grants(r) : g.left = MaxAtomic
      BY <3>1, <3>3 DEF AgentBudgetRuns
    <3>5. Upcoming(r) = "revoke" => s.won = 1 /\ Arrived(r) = AttemptAtomic
      <4>1. s.next = 5 => s.won = 1 /\ chain.balance[s.kind] = s.before + AttemptAtomic
        BY <3>1 DEF AgentBudgetRuns
      <4> QED
        BY <2>3, <3>3, <4>1
    <3>6. Upcoming(r) = "probe" => Grants(r) = {}
      BY <3>1, <3>3 DEF AgentBudgetTruth
    <3>7. ~AgentBudgetFails(r)
      BY <3>4, <3>5, <3>6 DEF AgentBudgetFails
    <3> QED
      BY <2>1, <2>4, <3>2, <3>7 DEF CheckFails
  <2>5. CASE s.kind = "plan"
    <3>1. PlanRuns(r, s) /\ PlanTruth(r, s)
      BY <1>1, <2>1, <2>5 DEF Truth
    <3>2. ~AuthorityMissing(r)
      BY <3>1 DEF PlanRuns, AuthorityMissing
    <3>3. /\ Upcoming(r) = "pull" => s.next = 4
          /\ Upcoming(r) = "cancel" => s.next = 5
          /\ Upcoming(r) = "close" => s.next = 6
          /\ Upcoming(r) = "end" => s.next > 7
      <4> PICK n \in Nat \ {0} : n = s.next
        BY <1>1
      <4>1. CASE n > 7
        <5>1. Upcoming(r) = "end"
          BY <2>5, <4>1, StepCounts DEF Upcoming
        <5> QED
          BY <4>1, <5>1
      <4>2. CASE n \in 1 .. 7
        <5>1. Upcoming(r) =
                <<"init", "plan", "subscribe", "pull", "cancel", "close", "abandon">>[n]
          BY <2>5, <4>2, StepsAre, StepCounts DEF Upcoming
        <5> QED
          BY <4>2, <5>1
      <4> QED
        BY <4>1, <4>2
    <3>4. Upcoming(r) = "pull" => Subscribed(r) # {}
      BY <3>1, <3>3 DEF PlanRuns
    <3>5. Upcoming(r) = "cancel" => (\E u \in Subscribed(r) : u.pulled) /\ Arrived(r) = AttemptAtomic
      <4>1. s.next = 5 => /\ \E u \in Subscribed(r) : u.pulled
                          /\ chain.balance[s.kind] = s.before + AttemptAtomic
        BY <3>1 DEF PlanRuns
      <4> QED
        BY <2>3, <3>3, <4>1
    <3>6. Upcoming(r) = "close" => \E u \in Subscribed(r) : u.ends
      BY <3>1, <3>3 DEF PlanRuns
    <3>7. Upcoming(r) = "end" => Subscribed(r) = {}
      BY <3>1, <3>3 DEF PlanTruth
    <3>8. ~PlanFails(r)
      BY <3>4, <3>5, <3>6, <3>7 DEF PlanFails
    <3> QED
      BY <2>1, <2>5, <3>2, <3>8 DEF CheckFails
  <2> QED
    BY <1>3, <2>4, <2>5
<1>4. CASE CheckFails(r)
  <2>1. PICK t \in Script : t = Over(r) /\ t.at = "failed" /\ t.kind = s.kind
    BY <1>1, AfterIs DEF RunEnded
  <2>2. script' = [script EXCEPT ![r] = t]
    BY <1>4, <2>1 DEF Check
  <2>3. Recovers(r, t)'
    BY <1>2, <1>3, <1>4, <2>1 DEF Recovers
  <2> QED
    BY <1>1, <1>2, <2>2, <2>3, RecoverMoves
<1>5. CASE ~CheckFails(r)
  <2>1. PICK i \in Nat : i = IF s.init = 0 THEN chain.authority ELSE s.init
    BY <1>1
  <2>2. PICK u \in Script : u = MovesTo(s, "running")
    BY <1>1 DEF MovesTo, Script
  <2>3. /\ u.next = s.next /\ u.init = s.init /\ u.won = s.won /\ u.kind = s.kind
        /\ u.at = "running" /\ u.before = s.before
    BY <1>1, <2>2 DEF MovesTo, Script
  <2>4. PICK t \in Script : t = [u EXCEPT !.init = i]
    BY <2>1 DEF Script
  <2>5. /\ t.at = "running" /\ t.next = s.next /\ t.won = s.won /\ t.kind = s.kind
        /\ t.before = s.before /\ t.init = i
    BY <2>3, <2>4 DEF Script
  <2>6. script' = [script EXCEPT ![r] = t]
    BY <1>1, <1>5, <2>1, <2>2, <2>4 DEF Check, AuthorityId
  <2>7. SUFFICES ASSUME disturbed[r] = FALSE, s.kind \in {"agentBudget", "plan"}
                 PROVE  /\ Alone(r)'
                        /\ s.kind = "agentBudget" => AgentBudgetRuns(r, t)'
                        /\ s.kind = "plan" => PlanRuns(r, t)'
    <3>1. SUFFICES Recovers(r, t)'
      BY <1>1, <1>2, <2>6, RecoverMoves
    <3> QED
      BY <1>2, <2>5 DEF Recovers
  <2>8. Alone(r)'
    BY <1>1, <1>2, <1>3, <2>6, <2>7, StaysAlone
  <2>9. Grants(r)' = Grants(r) /\ Subscribed(r)' = Subscribed(r)
    BY <1>2 DEF Grants, Subscribed
  <2>10. ASSUME s.kind = "agentBudget" PROVE AgentBudgetRuns(r, t)'
    <3>1. AgentBudgetRuns(r, s)
      BY <1>3, <2>7, <2>10
    <3> QED
      BY <1>1, <1>2, <2>1, <2>5, <2>9, <3>1 DEF AgentBudgetRuns
  <2>11. ASSUME s.kind = "plan" PROVE PlanRuns(r, t)'
    <3>1. PlanRuns(r, s)
      BY <1>3, <2>7, <2>11
    <3> QED
      BY <1>1, <1>2, <2>1, <2>5, <2>9, <3>1 DEF PlanRuns
  <2> QED
    BY <2>8, <2>10, <2>11
<1> QED
  BY <1>4, <1>5

\* Each step of an undisturbed run is accepted, or refused, as the script expects.
LEMMA AgentBudgetGoesOn ==
    ASSUME SubscriptionsAssumption, SubscriptionsTyped, NEW r \in ScriptRun,
           NEW s \in Script, s.at = "running", s.kind = "agentBudget", s.next \in 1 .. 7,
           AgentBudgetTruth(r, s), AgentBudgetRuns(r, s),
           NEW t \in Script, NEW tx \in Transaction,
           tx.op = Steps(s.kind)[s.next], tx.of = r,
           tx.op \in {"create", "subscribe"} => tx.init = s.init,
           \/ /\ Outcomes(chain, tx) = {} /\ chain' = chain
              /\ t.at = "failed" => tx.op \notin TransferOps
              /\ t.at # "failed" => tx.op \in TransferOps /\ t.won = s.won
           \/ /\ chain' \in Outcomes(chain, tx)
              /\ t.at = "failed" => tx.op = "probe"
              /\ t.at # "failed" =>
                   /\ tx.op # "probe"
                   /\ t.won = s.won + (IF tx.op \in {"raceA", "raceB"} THEN 1 ELSE 0),
           t.at # "failed" => t.at = "checking" /\ t.next = s.next + 1 /\ Same(s, t)
    PROVE  t.at # "failed" /\ AgentBudgetRuns(r, t)'
<1> PICK n \in 1 .. 7 : n = s.next
  OBVIOUS
<1> PICK op : op = Steps("agentBudget")[n]
  OBVIOUS
<1>1. op = <<"init", "create", "raceA", "raceB", "revoke", "probe", "close">>[n]
  BY StepsAre
<1>2. chain \in Chain /\ s.won \in Nat /\ s.init \in Nat /\ s.before \in Nat
      /\ AttemptAtomic \in Nat /\ AttemptAtomic > 0
  BY MaxAtomicBounds DEF SubscriptionsTyped, Script
<1>3. tx.op = op /\ tx.of = r /\ (op = "create" => tx.init = s.init)
  OBVIOUS
<1>4. ASSUME Outcomes(chain, tx) # {}, op \notin TransferOps
      PROVE  /\ t.at = "checking" /\ t.next = n + 1 /\ Same(s, t) /\ t.won = s.won
             /\ chain' \in Outcomes(chain, tx)
  <2>1. chain' \in Outcomes(chain, tx) /\ t.at # "failed"
    BY <1>3, <1>4 DEF TransferOps
  <2>2. t.won = s.won + (IF tx.op \in {"raceA", "raceB"} THEN 1 ELSE 0)
    BY <1>4, <2>1
  <2>3. t.won = s.won
    BY <1>2, <1>3, <1>4, <2>2 DEF TransferOps
  <2> QED
    BY <2>1, <2>3
<1>5. CASE n = 1
  <2>1. op = "init" /\ Outcomes(chain, tx) = InitAuthority(chain)
    BY <1>1, <1>3, <1>5, OutcomesAre
  <2>2. Outcomes(chain, tx) # {}
    BY <1>5, <2>1 DEF AgentBudgetRuns, InitAuthority, When
  <2>3. /\ t.at = "checking" /\ t.next = 2 /\ Same(s, t) /\ t.won = s.won
        /\ chain' \in InitAuthority(chain)
    BY <1>4, <1>5, <2>1, <2>2 DEF TransferOps
  <2>4. chain'.authority # 0 /\ chain'.balance = chain.balance
    BY <1>2, <2>3, InitOutcome
  <2> QED
    BY <1>5, <2>3, <2>4 DEF AgentBudgetRuns, Same
<1>6. CASE n = 2
  <2>1. op = "create" /\ Outcomes(chain, tx) = CreateFixed(chain, r, s.init)
    BY <1>1, <1>3, <1>6, OutcomesAre
  <2>2. s.init = chain.authority /\ chain.authority # 0
    BY <1>6 DEF AgentBudgetRuns
  <2>3. Outcomes(chain, tx) # {}
    BY <2>1, <2>2 DEF CreateFixed, When
  <2>4. /\ t.at = "checking" /\ t.next = 3 /\ Same(s, t) /\ t.won = s.won
        /\ chain' \in CreateFixed(chain, r, s.init)
    BY <1>4, <1>6, <2>1, <2>3 DEF TransferOps
  <2>5. PICK g \in [by : ScriptRun, init : Nat, left : Nat] :
          /\ g.by = r /\ g.init = s.init /\ g.left = MaxAtomic
          /\ chain'.authority = chain.authority /\ chain'.balance = chain.balance
          /\ chain'.grants = chain.grants \cup {g}
    BY <1>2, <2>4, CreateOutcome
  <2>6. g \in Grants(r)' /\ g.init = chain'.authority /\ chain'.authority # 0
    BY <2>2, <2>5 DEF Grants
  <2> QED
    BY <1>6, <2>4, <2>5, <2>6 DEF AgentBudgetRuns, Same
<1>7. CASE n = 3
  <2>1. op = "raceA" /\ Outcomes(chain, tx) = TransferFixed(chain, r)
    BY <1>1, <1>3, <1>7, OutcomesAre DEF TransferOps
  <2>2. PICK g \in chain.grants : g.by = r /\ g.init = chain.authority /\ g.left = MaxAtomic
    BY <1>7 DEF AgentBudgetRuns, Grants
  <2>3. g.left >= AttemptAtomic
    BY <2>2, MaxAtomicBounds
  <2>4. Outcomes(chain, tx) # {}
    BY <2>1, <2>2, <2>3, AcceptedWhen
  <2>5. chain' \in TransferFixed(chain, r) /\ t.at # "failed"
        /\ t.won = s.won + (IF tx.op \in {"raceA", "raceB"} THEN 1 ELSE 0)
    BY <1>3, <2>1, <2>4
  <2>6. t.won = 1 /\ t.next = 4 /\ Same(s, t)
    BY <1>3, <1>7, <2>1, <2>5 DEF AgentBudgetRuns
  <2>7. PICK d \in TransferFixed(chain, r) : d = chain'
    BY <2>5
  <2>8. /\ GrantsIn(d, r) # {} /\ d.authority = chain.authority
        /\ d.balance["agentBudget"] = chain.balance["agentBudget"] + AttemptAtomic
    BY OneTransferFits
  <2>9. Grants(r)' # {} /\ chain'.authority # 0
    BY <1>7, <2>7, <2>8 DEF Grants, GrantsIn, AgentBudgetRuns
  <2>10. chain'.balance[t.kind] = t.before + AttemptAtomic
    BY <1>7, <2>6, <2>7, <2>8 DEF AgentBudgetRuns, Same
  <2> QED
    BY <2>5, <2>6, <2>9, <2>10 DEF AgentBudgetRuns
<1>8. CASE n = 4
  <2>1. op = "raceB" /\ Outcomes(chain, tx) = TransferFixed(chain, r)
    BY <1>1, <1>3, <1>8, OutcomesAre DEF TransferOps
  <2>2. s.won = 1 /\ chain.moved[r] = AttemptAtomic
    BY <1>8 DEF AgentBudgetRuns, AgentBudgetTruth
  <2>3. Outcomes(chain, tx) = {}
    <3> SUFFICES ASSUME NEW d \in TransferFixed(chain, r) PROVE FALSE
      BY <2>1
    <3>1. chain.moved[r] = 0
      BY OneTransferFits
    <3> QED
      BY <1>2, <2>2, <3>1
  <2>4. chain' = chain /\ t.at # "failed" /\ t.won = s.won
    BY <1>3, <2>1, <2>3 DEF TransferOps
  <2>5. t.next = 5 /\ Same(s, t) /\ t.at = "checking"
    BY <1>8, <2>4
  <2>6. Grants(r)' = Grants(r)
    BY <2>4 DEF Grants
  <2> QED
    BY <1>8, <2>2, <2>4, <2>5, <2>6 DEF AgentBudgetRuns, Same
<1>9. CASE n = 5
  <2>1. op = "revoke" /\ Outcomes(chain, tx) = RevokeDelegation(chain, r)
    BY <1>1, <1>3, <1>9, OutcomesAre
  <2>2. \E g \in chain.grants : g.by = r
    BY <1>9 DEF AgentBudgetRuns, Grants
  <2>3. Outcomes(chain, tx) # {}
    BY <2>1, <2>2, AcceptedWhen
  <2>4. t.at = "checking" /\ t.next = 6 /\ chain' \in RevokeDelegation(chain, r)
    BY <1>4, <1>9, <2>1, <2>3 DEF TransferOps
  <2>5. chain'.authority # 0
    BY <1>2, <1>9, <2>4, RevokeOutcome DEF AgentBudgetRuns
  <2> QED
    BY <2>4, <2>5 DEF AgentBudgetRuns
<1>10. CASE n = 6
  <2>1. op = "probe" /\ Outcomes(chain, tx) = TransferFixed(chain, r)
    BY <1>1, <1>3, <1>10, OutcomesAre DEF TransferOps
  <2>2. Grants(r) = {}
    BY <1>10 DEF AgentBudgetTruth
  <2>3. Outcomes(chain, tx) = {}
    BY <2>1, <2>2, AcceptedWhen DEF Grants
  <2>4. chain' = chain /\ t.at # "failed"
    BY <1>3, <2>1, <2>3 DEF TransferOps
  <2>5. t.next = 7 /\ t.at = "checking" /\ chain'.authority # 0
    BY <1>10, <2>4 DEF AgentBudgetRuns
  <2> QED
    BY <2>4, <2>5 DEF AgentBudgetRuns
<1>11. CASE n = 7
  <2>1. op = "close" /\ Outcomes(chain, tx) = RevokeAllForMint(chain)
    BY <1>1, <1>3, <1>11, OutcomesAre
  <2>2. Outcomes(chain, tx) # {}
    <3>1. chain.authority # 0
      BY <1>11 DEF AgentBudgetRuns
    <3> QED
      BY <2>1, <3>1 DEF RevokeAllForMint, When
  <2>3. t.at = "checking" /\ t.next = 8
    BY <1>4, <1>11, <2>1, <2>2 DEF TransferOps
  <2> QED
    BY <2>3 DEF AgentBudgetRuns
<1> QED
  BY <1>5, <1>6, <1>7, <1>8, <1>9, <1>10, <1>11

\* The same for the plan: none of its steps is refused.
LEMMA PlanGoesOn ==
    ASSUME SubscriptionsAssumption, SubscriptionsTyped, NEW r \in ScriptRun,
           NEW s \in Script, s.at = "running", s.kind = "plan", s.next \in 1 .. 7,
           PlanTruth(r, s), PlanRuns(r, s),
           NEW t \in Script, NEW tx \in Transaction,
           tx.op = Steps(s.kind)[s.next], tx.of = r,
           tx.op \in {"create", "subscribe"} => tx.init = s.init,
           \/ /\ Outcomes(chain, tx) = {} /\ chain' = chain
              /\ t.at # "failed" => tx.op \in TransferOps
           \/ /\ chain' \in Outcomes(chain, tx)
              /\ t.at = "failed" => tx.op = "probe",
           t.at # "failed" => t.at = "checking" /\ t.next = s.next + 1 /\ Same(s, t)
    PROVE  t.at # "failed" /\ PlanRuns(r, t)'
<1> PICK n \in 1 .. 7 : n = s.next
  OBVIOUS
<1> PICK op : op = Steps("plan")[n]
  OBVIOUS
<1>1. op = <<"init", "plan", "subscribe", "pull", "cancel", "close", "abandon">>[n]
  BY StepsAre
<1>2. chain \in Chain /\ s.init \in Nat /\ s.before \in Nat
  BY DEF SubscriptionsTyped, Script
<1>3. /\ tx.op = op /\ tx.of = r /\ (op = "subscribe" => tx.init = s.init)
      /\ op \notin TransferOps
  BY <1>1 DEF TransferOps
<1>4. ASSUME Outcomes(chain, tx) # {}
      PROVE  /\ t.at = "checking" /\ t.next = n + 1 /\ Same(s, t)
             /\ chain' \in Outcomes(chain, tx)
  BY <1>3, <1>4 DEF TransferOps
<1>5. CASE n = 1
  <2>1. op = "init" /\ Outcomes(chain, tx) = InitAuthority(chain)
    BY <1>1, <1>3, <1>5, OutcomesAre
  <2>2. Outcomes(chain, tx) # {}
    BY <1>5, <2>1 DEF PlanRuns, InitAuthority, When
  <2>3. t.at = "checking" /\ t.next = 2 /\ Same(s, t) /\ chain' \in InitAuthority(chain)
    BY <1>4, <1>5, <2>1, <2>2
  <2>4. chain'.authority # 0 /\ chain'.balance = chain.balance
    BY <1>2, <2>3, InitOutcome
  <2> QED
    BY <1>5, <2>3, <2>4 DEF PlanRuns, Same
<1>6. CASE n = 2
  <2>1. op = "plan" /\ Outcomes(chain, tx) = CreatePlan(chain, r)
    BY <1>1, <1>3, <1>6, OutcomesAre
  <2>2. Outcomes(chain, tx) # {}
    BY <2>1, AcceptedWhen
  <2>3. t.at = "checking" /\ t.next = 3 /\ Same(s, t) /\ chain' \in CreatePlan(chain, r)
    BY <1>4, <1>6, <2>1, <2>2
  <2>4. /\ chain'.authority = chain.authority /\ chain'.balance = chain.balance
        /\ chain'.plans = chain.plans \cup {r}
    BY <1>2, <2>3, PlanOutcome
  <2> QED
    BY <1>6, <2>3, <2>4 DEF PlanRuns, Same
<1>7. CASE n = 3
  <2>1. op = "subscribe" /\ Outcomes(chain, tx) = Subscribe(chain, r, s.init)
    BY <1>1, <1>3, <1>7, OutcomesAre
  <2>2. s.init = chain.authority /\ chain.authority # 0 /\ r \in chain.plans
    BY <1>7 DEF PlanRuns
  <2>3. Outcomes(chain, tx) # {}
    BY <2>1, <2>2, AcceptedWhen
  <2>4. t.at = "checking" /\ t.next = 4 /\ Same(s, t) /\ chain' \in Subscribe(chain, r, s.init)
    BY <1>4, <1>7, <2>1, <2>3
  <2>5. PICK u \in Subscriptions0 :
          /\ u.by = r /\ u.init = s.init /\ ~u.pulled
          /\ chain'.authority = chain.authority /\ chain'.balance = chain.balance
          /\ chain'.subscriptions = chain.subscriptions \cup {u}
    BY <1>2, <2>4, SubscribeOutcome
  <2>6. u \in Subscribed(r)' /\ u.init = chain'.authority /\ chain'.authority # 0
    BY <2>2, <2>5 DEF Subscribed
  <2> QED
    BY <1>7, <2>4, <2>5, <2>6 DEF PlanRuns, Same
<1>8. CASE n = 4
  <2>1. op = "pull" /\ Outcomes(chain, tx) = TransferSubscription(chain, r)
    BY <1>1, <1>3, <1>8, OutcomesAre
  <2>2. \E u \in chain.subscriptions : u.by = r /\ u.init = chain.authority /\ ~u.pulled
    BY <1>8 DEF PlanRuns, Subscribed
  <2>3. Outcomes(chain, tx) # {}
    BY <2>1, <2>2, AcceptedWhen
  <2>4. t.at = "checking" /\ t.next = 5 /\ Same(s, t) /\ chain' \in TransferSubscription(chain, r)
    BY <1>4, <1>8, <2>1, <2>3
  <2>5. PICK v \in Subscriptions0 :
          /\ v.by = r /\ v.pulled /\ v \in chain'.subscriptions
          /\ chain'.authority = chain.authority
          /\ chain'.balance["plan"] = chain.balance["plan"] + AttemptAtomic
    BY <1>2, <2>4, PullOutcome
  <2>6. v \in Subscribed(r)' /\ chain'.authority # 0
    BY <1>8, <2>5 DEF Subscribed, PlanRuns
  <2>7. chain'.balance[t.kind] = t.before + AttemptAtomic
    BY <1>8, <2>4, <2>5 DEF PlanRuns, Same
  <2> QED
    BY <2>4, <2>5, <2>6, <2>7 DEF PlanRuns
<1>9. CASE n = 5
  <2>1. op = "cancel" /\ Outcomes(chain, tx) = CancelSubscription(chain, r)
    BY <1>1, <1>3, <1>9, OutcomesAre
  <2>2. \E u \in chain.subscriptions : u.by = r
    BY <1>9 DEF PlanRuns, Subscribed
  <2>3. Outcomes(chain, tx) # {}
    BY <2>1, <2>2, AcceptedWhen
  <2>4. t.at = "checking" /\ t.next = 6 /\ chain' \in CancelSubscription(chain, r)
    BY <1>4, <1>9, <2>1, <2>3
  <2>5. PICK v \in Subscriptions0 :
          v.by = r /\ v.ends /\ v \in chain'.subscriptions /\ chain'.authority = chain.authority
    BY <1>2, <2>4, CancelOutcome
  <2>6. v \in Subscribed(r)' /\ chain'.authority # 0
    BY <1>9, <2>5 DEF Subscribed, PlanRuns
  <2> QED
    BY <2>4, <2>5, <2>6 DEF PlanRuns
<1>10. CASE n = 6
  <2>1. op = "close" /\ Outcomes(chain, tx) = RevokeAllForMint(chain)
    BY <1>1, <1>3, <1>10, OutcomesAre
  <2>2. Outcomes(chain, tx) # {}
    <3>1. chain.authority # 0
      BY <1>10 DEF PlanRuns
    <3> QED
      BY <2>1, <3>1 DEF RevokeAllForMint, When
  <2>3. t.at = "checking" /\ t.next = 7 /\ chain' \in RevokeAllForMint(chain)
    BY <1>4, <1>10, <2>1, <2>2
  <2>4. chain'.authority = 0 /\ chain'.subscriptions = chain.subscriptions
    BY <1>2, <2>3, CloseOutcome
  <2>5. Subscribed(r)' # {}
    BY <1>10, <2>4 DEF Subscribed, PlanRuns
  <2> QED
    BY <2>3, <2>4, <2>5 DEF PlanRuns
<1>11. CASE n = 7
  <2>1. op = "abandon" /\ Outcomes(chain, tx) = RevokeAbandoned(chain, r)
    BY <1>1, <1>3, <1>11, OutcomesAre
  <2>2. \E u \in chain.subscriptions : u.by = r /\ u.init # chain.authority
    BY <1>2, <1>11 DEF PlanRuns, Subscribed, Chain
  <2>3. Outcomes(chain, tx) # {}
    BY <2>1, <2>2, AcceptedWhen
  <2>4. t.at = "checking" /\ t.next = 8
    BY <1>4, <1>11, <2>3
  <2> QED
    BY <2>4 DEF PlanRuns
<1> QED
  BY <1>5, <1>6, <1>7, <1>8, <1>9, <1>10, <1>11

\* An undisturbed step goes on, and leaves what the next one needs.
LEMMA RunStepRecovers ==
    ASSUME SubscriptionsAssumption, EvidenceInv, RecoverInv, NEW r \in ScriptRun, RunStep(r)
    PROVE  RecoverInv'
<1> PICK s : s = script[r]
  OBVIOUS
<1>1. SubscriptionsTyped /\ Truth(r, s) /\ Recovers(r, s)
  BY DEF EvidenceInv, RecoverInv
<1>2. /\ s \in Script /\ s.at = "running" /\ s.kind \in Kinds
      /\ s.next \in 1 .. Len(Steps(s.kind)) /\ Active(r)
  BY <1>1, RunStepGoesOn DEF Active
<1>3. PICK t \in Script, tx \in Transaction :
        /\ script' = [script EXCEPT ![r] = t] /\ t.kind = s.kind
        /\ tx.op = Steps(s.kind)[s.next] /\ tx.of = r
        /\ tx.op \in {"create", "subscribe"} => tx.init = s.init
        /\ \/ /\ Outcomes(chain, tx) = {}
              /\ chain' = chain /\ limbo' = limbo /\ disturbed' = disturbed
              /\ t.at = "failed" => tx.op \notin TransferOps
              /\ t.at # "failed" => tx.op \in TransferOps /\ t.won = s.won
           \/ /\ chain' \in Outcomes(chain, tx)
              /\ limbo' = limbo /\ disturbed' = disturbed
              /\ t.at = "failed" => tx.op = "probe"
              /\ t.at # "failed" =>
                   /\ tx.op # "probe"
                   /\ t.won = s.won + (IF tx.op \in {"raceA", "raceB"} THEN 1 ELSE 0)
           \/ disturbed' = [disturbed EXCEPT ![r] = TRUE]
        /\ t.at # "failed" => t.at = "checking" /\ t.next = s.next + 1 /\ Same(s, t)
  BY <1>1, RunStepGoesOn
<1>4. CASE disturbed' = [disturbed EXCEPT ![r] = TRUE]
  BY <1>1, <1>2, <1>3, <1>4, DisturbedRecovers, RecoverMoves
<1>5. CASE disturbed' # [disturbed EXCEPT ![r] = TRUE]
  <2>1. limbo' = limbo /\ disturbed' = disturbed
    BY <1>3, <1>5
  <2>2. \/ /\ Outcomes(chain, tx) = {} /\ chain' = chain
           /\ t.at = "failed" => tx.op \notin TransferOps
           /\ t.at # "failed" => tx.op \in TransferOps /\ t.won = s.won
        \/ /\ chain' \in Outcomes(chain, tx)
           /\ t.at = "failed" => tx.op = "probe"
           /\ t.at # "failed" =>
                /\ tx.op # "probe"
                /\ t.won = s.won + (IF tx.op \in {"raceA", "raceB"} THEN 1 ELSE 0)
    BY <1>3, <1>5
  <2>3. SUFFICES ASSUME disturbed[r] = FALSE, s.kind \in {"agentBudget", "plan"}
                 PROVE  /\ t.at = "checking" /\ Alone(r)'
                        /\ s.kind = "agentBudget" => AgentBudgetRuns(r, t)'
                        /\ s.kind = "plan" => PlanRuns(r, t)'
    <3>1. SUFFICES Recovers(r, t)'
      BY <1>1, <1>2, <1>3, <2>1, RecoverMoves
    <3> QED
      BY <1>3, <2>1 DEF Recovers
  <2>4. /\ Alone(r)
        /\ s.kind = "agentBudget" => AgentBudgetRuns(r, s)
        /\ s.kind = "plan" => PlanRuns(r, s)
    BY <1>1, <1>2, <2>3 DEF Recovers
  <2>5. Alone(r)'
    BY <1>1, <1>3, <2>1, <2>4, StaysAlone
  <2>6. CASE s.kind = "agentBudget"
    <3>1. AgentBudgetTruth(r, s) /\ AgentBudgetRuns(r, s) /\ s.next \in 1 .. 7
      BY <1>1, <1>2, <2>4, <2>6, StepCounts DEF Truth
    <3>2. t.at # "failed" /\ AgentBudgetRuns(r, t)'
      BY <1>1, <1>2, <1>3, <2>2, <2>6, <3>1, AgentBudgetGoesOn
    <3> QED
      BY <1>3, <2>5, <2>6, <3>2
  <2>7. CASE s.kind = "plan"
    <3>1. PlanTruth(r, s) /\ PlanRuns(r, s) /\ s.next \in 1 .. 7
      BY <1>1, <1>2, <2>4, <2>7, StepCounts DEF Truth
    <3>2. t.at # "failed" /\ PlanRuns(r, t)'
      BY <1>1, <1>2, <1>3, <2>2, <2>7, <3>1, PlanGoesOn
    <3> QED
      BY <1>3, <2>5, <2>7, <3>2
  <2> QED
    BY <2>3, <2>6, <2>7
<1> QED
  BY <1>4, <1>5

\* RerunsRecover: wherever earlier runs stopped, a lone run whose transactions are
\* answered does not fail, for any number of runs and any attempt.
THEOREM RerunsAlwaysRecover == SubscriptionsSpec => []RerunsRecover
<1> USE SubscriptionsAssumption
<1>1. SubscriptionsInit => RecoverInv
  <2> SUFFICES ASSUME SubscriptionsInit, NEW r \in ScriptRun, NEW s, s = script[r]
               PROVE  Recovers(r, s)
    BY DEF RecoverInv
  <2>1. s.kind = "none"
    BY DEF SubscriptionsInit
  <2> QED
    BY <2>1 DEF Recovers
<1>2. EvidenceInv /\ RecoverInv /\ [SubscriptionsNext]_subscriptionsVars => RecoverInv'
  <2> SUFFICES ASSUME EvidenceInv, RecoverInv, [SubscriptionsNext]_subscriptionsVars
               PROVE  RecoverInv'
    OBVIOUS
  <2>1. SubscriptionsTyped
    BY DEF EvidenceInv
  <2>2. ASSUME NEW r \in ScriptRun, NEW kind \in Kinds, StartRun(r, kind) PROVE RecoverInv'
    BY <2>1, <2>2, StartRecovers
  <2>3. ASSUME NEW r \in ScriptRun, SweepStep(r) PROVE RecoverInv'
    BY <2>3, SweepRecovers
  <2>4. ASSUME NEW r \in ScriptRun, Swept(r) PROVE RecoverInv'
    BY <2>4, SweptRecovers
  <2>5. ASSUME NEW r \in ScriptRun, RunStep(r) PROVE RecoverInv'
    BY <2>5, RunStepRecovers
  <2>6. ASSUME NEW r \in ScriptRun, Check(r) PROVE RecoverInv'
    BY <2>6, CheckRecovers
  <2>7. ASSUME NEW r \in ScriptRun, WriteEvidence(r) PROVE RecoverInv'
    BY <2>1, <2>7, WriteRecovers
  <2>8. ASSUME NEW r \in ScriptRun, Crash(r) PROVE RecoverInv'
    BY <2>1, <2>8, CrashRecovers
  <2>9. ASSUME NEW tx \in limbo, Land(tx) PROVE RecoverInv'
    BY <2>1, <2>9, LandRecovers
  <2>10. CASE UNCHANGED subscriptionsVars
    <3>1. UNCHANGED <<chain, limbo, script, disturbed>>
      BY <2>10 DEF subscriptionsVars
    <3>2. ASSUME NEW r \in ScriptRun, NEW s, Recovers(r, s) PROVE Recovers(r, s)'
      BY <3>1, <3>2 DEF Recovers, Alone, Active, AgentBudgetSweeps, AgentBudgetRuns,
           PlanSweeps, PlanRuns, Close, Grants, Subscribed
    <3>3. \A r \in ScriptRun : \A s \in {script[r]} : Recovers(r, s)'
      BY <3>2 DEF RecoverInv
    <3> QED
      BY <3>1, <3>3 DEF RecoverInv
  <2> QED
    BY <2>2, <2>3, <2>4, <2>5, <2>6, <2>7, <2>8, <2>9, <2>10 DEF SubscriptionsNext
<1>3. EvidenceInv /\ RecoverInv => RerunsRecover
  <2> SUFFICES ASSUME EvidenceInv, RecoverInv, NEW r \in ScriptRun, script[r].at = "failed",
                      script[r].kind \in {"agentBudget", "plan"}
               PROVE  disturbed[r]
    BY DEF RerunsRecover, Failed
  <2>1. disturbed[r] # FALSE
    BY DEF RecoverInv, Recovers
  <2>2. disturbed[r] \in BOOLEAN
    BY DEF EvidenceInv, SubscriptionsTyped
  <2> QED
    BY <2>1, <2>2
<1> QED
  BY <1>1, <1>2, <1>3, ScriptsInvariant, PTL DEF SubscriptionsSpec

=============================================================================
