------------------------- MODULE SessionTree_proofs -------------------------
(***************************************************************************)
(* Proofs about SessionTree, for any versions, any bound on the numbers    *)
(* and labels, and edits by another program at any place: no recorded      *)
(* promotion is lost or renumbered, every result has its own table, a      *)
(* watermark hit is complete, and drift is signalled.  That no edit is     *)
(* overwritten holds for edits outside three windows of the save and of    *)
(* the resume.                                                             *)
(***************************************************************************)
EXTENDS SessionTree, WellFoundedInduction, TLAPS

\* A recorded or stale number is below the floor or in the working set, so the next
\* number is new; promotions wait to be recorded only during a turn.
NumberInv ==
    /\ \A n \in DOMAIN mem.turns : n <= mem.floor \/ n \in mem.results
    /\ \A n \in mem.stale : n <= mem.floor \/ n \in mem.results
    /\ DOMAIN mem.fresh \cap DOMAIN mem.turns = {}
    /\ pc # "turn" => mem.fresh = Nothing

\* A source brings the engine with it.
EngineInv ==
    /\ mem.src # NoVersion => mem.engine
    /\ pc \in {"replacing", "replaced"} => mem.src # NoVersion

\* A row is complete for the recipe it names, and nothing that came after it
\* has dropped a table it vouches for.
RowInv ==
    /\ stamp # <<>> =>
         LET row == stamp[1]
             chain == row.digest[2]
         IN /\ row.src = row.digest[1] /\ row.stale \subseteq row.results
            /\ DOMAIN chain \ row.digest[3] \subseteq row.results \ row.stale
            /\ \A n \in row.results \ row.stale :
                 /\ n \in DOMAIN tables
                 /\ n \in DOMAIN chain => tables[n] = chain[n]
            /\ Running => row.results \subseteq mem.results
    /\ pc = "replaying" => stamp = <<>>
    /\ pc = "inserting" => Live(Recipe(mem)) \subseteq mem.results

\* What is recorded is in the running session, or in the recipe being resumed.
RecordInv ==
    /\ file.stale \subseteq DOMAIN file.chain
    /\ loaded.stale \subseteq DOMAIN loaded.chain
    /\ Running =>
         /\ DOMAIN file.chain \subseteq DOMAIN mem.turns
         /\ \A n \in DOMAIN file.chain : mem.turns[n] = file.chain[n]
         /\ file.stale \subseteq mem.stale
    /\ pc \in {"hashing", "probing", "replaying"} =>
         loaded.chain = file.chain /\ loaded.stale = file.stale

\* A save that has written has brought the disk up to date.
SavedInv ==
    pc \in {"refreshing", "stamping", "inserting"} =>
        Digest(Recipe(mem)) = Digest(file)

Inv ==
    /\ TypeOK /\ NumberInv /\ EngineInv /\ RowInv /\ RecordInv /\ SavedInv
    /\ ResultsStand /\ DriftIsSignalled

\* No other program edits the recipe between the check of a save and the new
\* baseline, or between a resume's read of it and its hash.
NoEditInWindows == EditAt \cap {"writing", "refreshing", "hashing"} = {}

\* The baseline is of a recipe this session read or wrote.
BaselineInv ==
    /\ pc \notin {"down", "hashing"} => baseline # <<>> /\ baseline[1] \in seen
    /\ pc \in {"hashing", "writing", "refreshing"} => file \in seen
    /\ pc = "refreshing" => file = Recipe(mem)

-----------------------------------------------------------------------------
\* A set of naturals with a bound has a largest member.
LEMMA MaxIsLargest ==
    ASSUME NEW B \in Nat, NEW S \in SUBSET (0 .. B), S # {}
    PROVE  Max(S) \in S /\ \A x \in S : x <= Max(S)
<1> DEFINE Less == OpToRel(<, Nat)
           Gaps == {B - x : x \in S}
<1>1. \A x \in S : x \in Nat /\ x <= B
  OBVIOUS
<1>2. Gaps \subseteq Nat /\ Gaps # {}
  <2>1. \A x \in S : B - x \in Nat
    BY <1>1
  <2> QED
    BY <2>1
<1>3. PICK g \in Gaps : \A h \in Gaps : ~ (<<h, g>> \in Less)
  <2> HIDE DEF Gaps, Less
  <2>1. IsWellFoundedOn(Less, Nat)
    BY NatLessThanWellFounded DEF Less
  <2> QED
    BY <1>2, <2>1, WFMin
<1>4. \A h \in Gaps : ~ (h < g)
  BY <1>2, <1>3 DEF OpToRel
<1>5. PICK m \in S : g = B - m
  OBVIOUS
<1>6. \A x \in S : m >= x
  <2> TAKE x \in S
  <2>1. ~ (B - x < B - m)
    BY <1>4, <1>5
  <2>2. x \in Nat /\ m \in Nat /\ x <= B /\ m <= B
    BY <1>1
  <2> QED
    BY <2>1, <2>2
<1>7. Max(S) \in S /\ \A x \in S : Max(S) >= x
  BY <1>6 DEF Max
<1> QED
  BY <1>1, <1>7

\* A chain is a function from some of the numbers.
LEMMA ChainParts ==
    ASSUME NEW f \in Chains
    PROVE  /\ DOMAIN f \subseteq Numbers
           /\ f = [n \in DOMAIN f |-> f[n]]
           /\ \A n \in DOMAIN f : f[n] \in {0} \cup Numbers
  BY DEF Chains

LEMMA IsChain ==
    ASSUME NEW D \in SUBSET Numbers, NEW f \in [D -> {0} \cup Numbers]
    PROVE  f \in Chains
  BY DEF Chains

LEMMA NothingIsChain == Nothing \in Chains
<1>1. Nothing \in [{} -> {0} \cup Numbers]
  BY DEF Nothing
<1> QED
  BY <1>1, IsChain

LEMMA PutIsChain ==
    ASSUME NEW f \in Chains, NEW n \in Numbers, NEW d \in {0} \cup Numbers
    PROVE  Put(f, n, d) \in Chains
<1>1. Put(f, n, d) \in [DOMAIN f \cup {n} -> {0} \cup Numbers]
  BY ChainParts DEF Put
<1> QED
  BY <1>1, ChainParts, IsChain

LEMMA RestrictIsChain ==
    ASSUME NEW f \in Chains, NEW D \in SUBSET DOMAIN f
    PROVE  Restrict(f, D) \in Chains
<1>1. Restrict(f, D) \in [D -> {0} \cup Numbers]
  BY ChainParts DEF Restrict
<1> QED
  BY <1>1, ChainParts, IsChain

LEMMA MergeIsChain ==
    ASSUME NEW f \in Chains, NEW g \in Chains
    PROVE  [n \in DOMAIN f \cup DOMAIN g |->
              IF n \in DOMAIN g THEN g[n] ELSE f[n]] \in Chains
<1> DEFINE h == [n \in DOMAIN f \cup DOMAIN g |->
                   IF n \in DOMAIN g THEN g[n] ELSE f[n]]
<1>1. h \in [DOMAIN f \cup DOMAIN g -> {0} \cup Numbers]
  BY ChainParts
<1> QED
  BY <1>1, ChainParts, IsChain

\* The next number is above every number of the working set and the history.
LEMMA NextNumberIsNew ==
    ASSUME NEW m \in Memories
    PROVE  /\ \A n \in m.results : n < NextNumber(m)
           /\ m.floor < NextNumber(m)
<1> DEFINE S == m.results \cup {m.floor, 0}
<1>1. S \in SUBSET (0 .. MaxResult) /\ S # {}
  BY MaxResultAssumption DEF Memories, Numbers
<1>2. Max(S) \in 0 .. MaxResult /\ \A x \in S : x <= Max(S)
  BY <1>1, MaxIsLargest, MaxResultAssumption
<1>3. NextNumber(m) = Max(S) + 1 /\ m.floor \in S /\ m.results \subseteq S
  BY DEF NextNumber
<1>4. \A x \in S : x \in Nat
  BY <1>1
<1> HIDE DEF S
<1> QED
  BY <1>2, <1>3, <1>4

\* The floor that a resume takes is above every recorded number.
LEMMA HighestOfBounds ==
    ASSUME NEW r \in Recipes
    PROVE  /\ HighestOf(r) \in {0} \cup Numbers
           /\ \A n \in DOMAIN r.chain : n <= HighestOf(r)
<1> DEFINE S == DOMAIN r.chain \cup {0}
<1>1. S \in SUBSET (0 .. MaxResult) /\ S # {}
  BY ChainParts, MaxResultAssumption DEF Recipes, Numbers
<1>2. Max(S) \in 0 .. MaxResult /\ \A x \in S : x <= Max(S)
  BY <1>1, MaxIsLargest, MaxResultAssumption
<1> QED
  BY <1>2, MaxResultAssumption DEF HighestOf, Numbers

LEMMA RecipeIsRecipe == ASSUME NEW m \in Memories PROVE Recipe(m) \in Recipes
  BY DEF Memories, Recipes, Recipe


LEMMA Basics ==
    /\ 0 .. MaxLabel \subseteq Labels /\ 0 \in Labels /\ EditedLabel \in Labels
    /\ DOMAIN Nothing = {} /\ Nothing \in Chains
    /\ Blank \in Memories /\ Recipe(Blank) \in Recipes
    /\ Blank.fresh = Nothing /\ Blank.turns = Nothing /\ Blank.stale = {}
    /\ Recipe(Blank).stale = {}
    /\ Blank.attached = NoVersion /\ Blank.src = NoVersion
<1>1. 0 .. MaxLabel \subseteq Labels /\ 0 \in Labels /\ EditedLabel \in Labels
  BY MaxLabelAssumption DEF Labels, EditedLabel
<1>2. Blank \in Memories
  BY <1>1, NothingIsChain DEF Blank, Memories
<1> QED
  BY <1>1, <1>2, NothingIsChain, RecipeIsRecipe DEF Nothing, Blank, Recipe


LEMMA ResumedIsMemory ==
    ASSUME NEW src \in Versions \cup {NoVersion}, NEW label \in Labels,
           NEW results \in SUBSET Numbers, NEW stale \in SUBSET Numbers,
           NEW turns \in Chains, NEW attached \in Versions \cup {NoVersion},
           loaded \in Recipes
    PROVE  Resumed(src, label, results, stale, turns, attached) \in Memories
<1>1. HighestOf(loaded) \in {0} \cup Numbers
  BY HighestOfBounds
<1>2. (src # NoVersion) \in BOOLEAN
  OBVIOUS
<1> QED
  BY <1>1, <1>2, NothingIsChain DEF Resumed, Memories

\* Each action keeps memory and disk in shape.
LEMMA TypeStep == ASSUME Inv, Next PROVE TypeOK'
<1> USE NoVersionAssumption, Basics
    DEF Inv, Step, disk, signals, persister, TypeOK, NumberInv, EngineInv
<1>1. ASSUME NEW v \in Versions, AddSource(v) PROVE TypeOK'
  <2>1. mem' \in Memories
    BY <1>1
       DEF AddSource, Memories
  <2>2. DOMAIN mem'.fresh \subseteq mem'.results \ mem'.stale
    BY <1>1
       DEF AddSource, Memories
  <2>3. mem'.attached # NoVersion => mem'.engine
    BY <1>1
       DEF AddSource, Memories
  <2> QED
    BY <1>1, <2>1, <2>2, <2>3
       DEF AddSource
<1>2. ASSUME NEW v \in Versions, ReplacePromote(v) PROVE TypeOK'
  BY <1>2 DEF ReplacePromote, Memories
<1>3. ASSUME NEW v \in Versions, ReplaceInPlace(v) PROVE TypeOK'
  BY <1>3 DEF ReplaceInPlace, Memories
<1>4. ASSUME NEW l \in 0 .. MaxLabel, RenameDisplay(l) PROVE TypeOK'
  <2>1. mem' \in Memories
    BY <1>4
       DEF RenameDisplay, Memories
  <2>2. DOMAIN mem'.fresh \subseteq mem'.results \ mem'.stale
    BY <1>4
       DEF RenameDisplay, Memories
  <2>3. mem'.attached # NoVersion => mem'.engine
    BY <1>4
       DEF RenameDisplay, Memories
  <2> QED
    BY <1>4, <2>1, <2>2, <2>3
       DEF RenameDisplay
<1>5. CASE RemoveSource
  <2>1. mem' \in Memories
    BY <1>5
       DEF RemoveSource, Cascade, Memories
  <2>2. DOMAIN mem'.fresh \subseteq mem'.results \ mem'.stale
    BY <1>5
       DEF RemoveSource, Cascade, Memories
  <2>3. mem'.attached # NoVersion => mem'.engine
    BY <1>5
       DEF RemoveSource, Cascade, Memories
  <2> QED
    BY <1>5, <2>1, <2>2, <2>3
       DEF RemoveSource
<1>6. CASE ReplaceRetire
  BY <1>6 DEF ReplaceRetire, Memories
<1>7. CASE ReplaceCommit
  <2>1. mem' \in Memories
    BY <1>7
       DEF ReplaceCommit, Cascade, Memories
  <2>2. DOMAIN mem'.fresh \subseteq mem'.results \ mem'.stale
    BY <1>7
       DEF ReplaceCommit, Cascade, Memories
  <2>3. mem'.attached # NoVersion => mem'.engine
    BY <1>7
       DEF ReplaceCommit, Cascade, Memories
  <2> QED
    BY <1>7, <2>1, <2>2, <2>3
       DEF ReplaceCommit
<1>8. ASSUME NEW n \in Numbers, NEW d \in {0} \cup Numbers, InstallResult(n, d)
      PROVE  TypeOK'
  <2>1. Put(mem.fresh, n, d) \in Chains /\ Put(tables, n, d) \in Chains
    BY <1>8, PutIsChain DEF InstallResult, Memories
  <2>2. DOMAIN Put(mem.fresh, n, d) = DOMAIN mem.fresh \cup {n}
    BY DEF Put
  <2>3. n \notin mem.stale
    BY <1>8, NextNumberIsNew, MaxResultAssumption
       DEF InstallResult, Memories, Numbers
  <2>4. mem' \in Memories
    BY <1>8, <2>1 DEF InstallResult, Registered, Memories
  <2>5. DOMAIN mem'.fresh \subseteq mem'.results \ mem'.stale
    BY <1>8, <2>2, <2>3 DEF InstallResult, Registered, Memories
  <2>6. mem'.attached # NoVersion => mem'.engine
    BY <1>8 DEF InstallResult, Registered, Memories
  <2> QED
    BY <1>8, <2>1, <2>4, <2>5, <2>6 DEF InstallResult, InTurn
<1>9. ASSUME NEW n \in Numbers, NEW d \in {0} \cup Numbers, InstallCollides(n, d)
      PROVE  TypeOK'
  <2>1. tables' \in Chains
    BY <1>9, RestrictIsChain DEF InstallCollides
  <2> QED
    BY <1>9, <2>1 DEF InstallCollides, InTurn
<1>10. CASE TurnConverges
  <2> DEFINE merged == [n \in DOMAIN mem.turns \cup DOMAIN mem.fresh |->
                          IF n \in DOMAIN mem.fresh THEN mem.fresh[n]
                                                    ELSE mem.turns[n]]
  <2>1. merged \in Chains
    BY MergeIsChain DEF Memories
  <2>2. mem' = [mem EXCEPT !.turns = merged, !.fresh = Nothing]
    BY <1>10 DEF TurnConverges, Memories
  <2> HIDE DEF merged
  <2>3. mem' \in Memories
    BY <2>1, <2>2 DEF Memories
  <2> QED
    BY <1>10, <2>2, <2>3 DEF TurnConverges, Memories
<1>11. CASE TurnFails
  <2>1. mem' \in Memories
    BY <1>11
       DEF TurnFails, Memories
  <2>2. DOMAIN mem'.fresh \subseteq mem'.results \ mem'.stale
    BY <1>11
       DEF TurnFails, Memories
  <2>3. mem'.attached # NoVersion => mem'.engine
    BY <1>11
       DEF TurnFails, Memories
  <2> QED
    BY <1>11, <2>1, <2>2, <2>3
       DEF TurnFails
<1>12. CASE SaveSuspended \/ SaveConflicts \/ SaveChecks \/ WriteFails
  BY <1>12 DEF SaveSuspended, SaveConflicts, SaveChecks, WriteFails
<1>13. CASE Write
  <2>1. Recipe(mem) \in Recipes
    BY RecipeIsRecipe
  <2>2. told' \in BOOLEAN
    BY <1>13, Zenon DEF Write
  <2> QED
    BY <1>13, <2>1, <2>2 DEF Write
<1>14. CASE RefreshBaseline
  <2>1. Recipe(mem) \in Recipes
    BY RecipeIsRecipe
  <2> QED
    BY <1>14, <2>1 DEF RefreshBaseline
<1>15. CASE NoStamp \/ StampFails
  BY <1>15 DEF NoStamp, StampFails
<1>16. CASE ClearStamp
  BY <1>16 DEF ClearStamp
<1>17. CASE InsertStamp
  <2> DEFINE row == [digest |-> Digest(Recipe(mem)), src |-> mem.src,
                     label |-> mem.label, results |-> mem.results,
                     stale |-> mem.stale \cap mem.results]
  <2>1. row \in Rows
    BY RecipeIsRecipe DEF Rows, Memories, Digest, Recipe, Recipes
  <2>2. stamp' = <<row>> /\ stamp'[1] = row
    BY <1>17 DEF InsertStamp
  <2> HIDE DEF row
  <2> QED
    BY <1>17, <2>1, <2>2 DEF InsertStamp
<1>18. CASE TakePersistError \/ TakePendingConflict
  BY <1>18 DEF TakePersistError, TakePendingConflict
<1>19. CASE ReadRecipe
  BY <1>19 DEF ReadRecipe
<1>20. CASE SeedBaseline
  BY <1>20 DEF SeedBaseline
<1>21. CASE RestoreHit
  <2>1. stamp[1] \in Rows /\ HighestOf(loaded) \in {0} \cup Numbers
    BY <1>21, HighestOfBounds DEF RestoreHit, Hit
  <2>2. mem' \in Memories
    BY <1>21, <2>1, ResumedIsMemory
       DEF RestoreHit, Memories, Rows, Recipes
  <2>3. mem'.fresh = Nothing /\ (mem'.attached # NoVersion => mem'.engine)
    BY <1>21 DEF RestoreHit, Resumed
  <2> QED
    BY <1>21, <2>2, <2>3 DEF RestoreHit
<1>22. CASE DiscardCompanion
  BY <1>22 DEF DiscardCompanion
<1>23. ASSUME NEW k \in 1 .. (MaxResult + 1), Replay(k) PROVE TypeOK'
  <2>1. HighestOf(loaded) \in {0} \cup Numbers /\ loaded.chain \in Chains
    BY HighestOfBounds DEF Recipes
  <2>2. Replayed(k) \subseteq DOMAIN loaded.chain
    BY DEF Replayed, Live
  <2>3. Restrict(loaded.chain, Replayed(k)) \in Chains
    BY <2>1, <2>2, RestrictIsChain
  <2>4. Replayed(k) \subseteq Numbers
    BY <2>1, <2>2, ChainParts
  <2>5. mem' \in Memories
    BY <1>23, <2>1, <2>4, ResumedIsMemory
       DEF Replay, Recipes, History
  <2>6. mem'.fresh = Nothing /\ (mem'.attached # NoVersion => mem'.engine)
    BY <1>23 DEF Replay, Resumed
  <2>7. snapshot' \in Versions \cup {NoVersion} /\ tables' \in Chains
    BY <1>23, <2>3 DEF Replay, Recipes
  <2> QED
    BY <1>23, <2>5, <2>6, <2>7 DEF Replay
<1>24. CASE ResumeFails
  BY <1>24 DEF ResumeFails
<1>25. CASE Stop
  <2>1. conflict' \in BOOLEAN /\ error' \in BOOLEAN /\ told' \in BOOLEAN
    BY <1>25, Zenon DEF Stop
  <2> QED
    BY <1>25, <2>1 DEF Stop
<1>26. CASE EditRecipe
  BY <1>26 DEF EditRecipe, Recipes
<1> QED
  BY <1>1, <1>2, <1>3, <1>4, <1>5, <1>6, <1>7, <1>8, <1>9, <1>10, <1>11,
     <1>12, <1>13, <1>14, <1>15, <1>16, <1>17, <1>18, <1>19, <1>20, <1>21,
     <1>22, <1>23, <1>24, <1>25, <1>26
     DEF Next, SessionStep, SaveStep, ResumeStep

\* Numbers are minted above what is recorded, stale or in the working set.
LEMMA NumberStep == ASSUME Inv, Next PROVE NumberInv'
<1> USE Basics
    DEF Inv, Step, disk, signals, persister, TypeOK, NumberInv, Memories,
    RowInv, RecordInv
<1>1. ASSUME NEW v \in Versions, AddSource(v) PROVE NumberInv'
  BY <1>1 DEF AddSource
<1>2. ASSUME NEW v \in Versions, ReplacePromote(v) PROVE NumberInv'
  BY <1>2 DEF ReplacePromote
<1>3. ASSUME NEW v \in Versions, ReplaceInPlace(v) PROVE NumberInv'
  BY <1>3 DEF ReplaceInPlace
<1>4. ASSUME NEW l \in 0 .. MaxLabel, RenameDisplay(l) PROVE NumberInv'
  BY <1>4 DEF RenameDisplay
<1>5. CASE RemoveSource
  BY <1>5 DEF RemoveSource, Cascade
<1>6. CASE ReplaceRetire
  BY <1>6 DEF ReplaceRetire
<1>7. CASE ReplaceCommit
  BY <1>7 DEF ReplaceCommit, Cascade
<1>8. ASSUME NEW n \in Numbers, NEW d \in {0} \cup Numbers, InstallResult(n, d)
      PROVE  NumberInv'
  <2>1. n \notin DOMAIN mem.turns
    <3>1. mem.floor < n /\ \A r \in mem.results : r < n
      BY <1>8, NextNumberIsNew DEF InstallResult
    <3>2. mem.floor \in Nat /\ n \in Nat /\ mem.results \subseteq Nat
      BY MaxResultAssumption DEF Numbers
    <3>3. DOMAIN mem.turns \subseteq Nat
      BY ChainParts, MaxResultAssumption DEF Numbers
    <3> QED
      BY <3>1, <3>2, <3>3
  <2>2. DOMAIN Put(mem.fresh, n, d) = DOMAIN mem.fresh \cup {n}
    BY DEF Put
  <2>3. /\ mem'.turns = mem.turns /\ mem'.fresh = Put(mem.fresh, n, d)
        /\ mem'.results = mem.results \cup {n}
        /\ mem'.floor = mem.floor /\ mem'.stale = mem.stale /\ pc' = "turn"
    BY <1>8 DEF InstallResult, Registered, InTurn
  <2> QED
    BY <2>1, <2>2, <2>3
<1>9. ASSUME NEW n \in Numbers, NEW d \in {0} \cup Numbers, InstallCollides(n, d)
      PROVE  NumberInv'
  BY <1>9 DEF InstallCollides, InTurn
<1>10. CASE TurnConverges
  BY <1>10 DEF TurnConverges
<1>11. CASE TurnFails
  BY <1>11 DEF TurnFails
<1>12. CASE SaveSuspended \/ SaveConflicts \/ SaveChecks \/ WriteFails
  BY <1>12 DEF SaveSuspended, SaveConflicts, SaveChecks, WriteFails
<1>13. CASE Write
  BY <1>13 DEF Write
<1>14. CASE RefreshBaseline
  BY <1>14 DEF RefreshBaseline
<1>15. CASE NoStamp \/ StampFails
  BY <1>15 DEF NoStamp, StampFails
<1>16. CASE ClearStamp
  BY <1>16 DEF ClearStamp
<1>17. CASE InsertStamp
  BY <1>17 DEF InsertStamp
<1>18. CASE TakePersistError \/ TakePendingConflict
  BY <1>18 DEF TakePersistError, TakePendingConflict
<1>19. CASE ReadRecipe
  BY <1>19 DEF ReadRecipe
<1>20. CASE SeedBaseline
  BY <1>20 DEF SeedBaseline
<1>21. CASE RestoreHit
  <2>1. stamp[1].stale \subseteq stamp[1].results
    BY <1>21 DEF RestoreHit, Hit
  <2>2. \A n \in DOMAIN loaded.chain : n <= HighestOf(loaded)
    BY HighestOfBounds
  <2>3. /\ mem'.turns = loaded.chain /\ mem'.fresh = Nothing
        /\ mem'.results = stamp[1].results \cup loaded.stale
        /\ mem'.stale = stamp[1].stale \cup loaded.stale
        /\ mem'.floor = HighestOf(loaded)
    BY <1>21 DEF RestoreHit, Resumed
  <2> QED
    BY <2>1, <2>2, <2>3
<1>22. CASE DiscardCompanion
  BY <1>22 DEF DiscardCompanion
<1>23. ASSUME NEW k \in 1 .. (MaxResult + 1), Replay(k) PROVE NumberInv'
  <2>1. \A n \in DOMAIN loaded.chain : n <= HighestOf(loaded)
    BY HighestOfBounds
  <2>2. /\ mem'.turns = loaded.chain /\ mem'.fresh = Nothing
        /\ mem'.stale = loaded.stale /\ mem'.floor = HighestOf(loaded)
    BY <1>23 DEF Replay, Resumed, History
  <2> QED
    BY <2>1, <2>2
<1>24. CASE ResumeFails
  BY <1>24 DEF ResumeFails
<1>25. CASE Stop
  BY <1>25 DEF Stop
<1>26. CASE EditRecipe
  BY <1>26 DEF EditRecipe
<1> QED
  BY <1>1, <1>2, <1>3, <1>4, <1>5, <1>6, <1>7, <1>8, <1>9, <1>10, <1>11,
     <1>12, <1>13, <1>14, <1>15, <1>16, <1>17, <1>18, <1>19, <1>20, <1>21,
     <1>22, <1>23, <1>24, <1>25, <1>26
     DEF Next, SessionStep, SaveStep, ResumeStep

\* A source comes with an engine and leaves before it.
LEMMA EngineStep == ASSUME Inv, Next PROVE EngineInv'
<1> USE Basics, NoVersionAssumption
    DEF Inv, Step, disk, signals, persister, TypeOK, EngineInv, Memories
<1>1. ASSUME NEW v \in Versions, AddSource(v) PROVE EngineInv'
  BY <1>1 DEF AddSource
<1>2. ASSUME NEW v \in Versions, ReplacePromote(v) PROVE EngineInv'
  BY <1>2 DEF ReplacePromote
<1>3. ASSUME NEW v \in Versions, ReplaceInPlace(v) PROVE EngineInv'
  BY <1>3 DEF ReplaceInPlace
<1>4. ASSUME NEW l \in 0 .. MaxLabel, RenameDisplay(l) PROVE EngineInv'
  BY <1>4 DEF RenameDisplay
<1>5. CASE RemoveSource
  BY <1>5 DEF RemoveSource
<1>6. CASE ReplaceRetire
  BY <1>6 DEF ReplaceRetire
<1>7. CASE ReplaceCommit
  BY <1>7 DEF ReplaceCommit
<1>8. ASSUME NEW n \in Numbers, NEW d \in {0} \cup Numbers, InstallResult(n, d)
      PROVE  EngineInv'
  BY <1>8 DEF InstallResult, InTurn, Registered
<1>9. ASSUME NEW n \in Numbers, NEW d \in {0} \cup Numbers, InstallCollides(n, d)
      PROVE  EngineInv'
  BY <1>9 DEF InstallCollides, InTurn
<1>10. CASE TurnConverges
  BY <1>10 DEF TurnConverges
<1>11. CASE TurnFails
  BY <1>11 DEF TurnFails
<1>12. CASE SaveSuspended \/ SaveConflicts \/ SaveChecks \/ WriteFails
  BY <1>12 DEF SaveSuspended, SaveConflicts, SaveChecks, WriteFails
<1>13. CASE Write
  BY <1>13 DEF Write
<1>14. CASE RefreshBaseline
  BY <1>14 DEF RefreshBaseline
<1>15. CASE NoStamp \/ StampFails
  BY <1>15 DEF NoStamp, StampFails
<1>16. CASE ClearStamp
  BY <1>16 DEF ClearStamp
<1>17. CASE InsertStamp
  BY <1>17 DEF InsertStamp
<1>18. CASE TakePersistError \/ TakePendingConflict
  BY <1>18 DEF TakePersistError, TakePendingConflict
<1>19. CASE ReadRecipe
  BY <1>19 DEF ReadRecipe
<1>20. CASE SeedBaseline
  BY <1>20 DEF SeedBaseline
<1>21. CASE RestoreHit
  BY <1>21 DEF RestoreHit, Resumed
<1>22. CASE DiscardCompanion
  BY <1>22 DEF DiscardCompanion
<1>23. ASSUME NEW k \in 1 .. (MaxResult + 1), Replay(k) PROVE EngineInv'
  BY <1>23 DEF Replay, Resumed
<1>24. CASE ResumeFails
  BY <1>24 DEF ResumeFails
<1>25. CASE Stop
  BY <1>25 DEF Stop
<1>26. CASE EditRecipe
  BY <1>26 DEF EditRecipe
<1> QED
  BY <1>1, <1>2, <1>3, <1>4, <1>5, <1>6, <1>7, <1>8, <1>9, <1>10, <1>11,
     <1>12, <1>13, <1>14, <1>15, <1>16, <1>17, <1>18, <1>19, <1>20, <1>21,
     <1>22, <1>23, <1>24, <1>25, <1>26
     DEF Next, SessionStep, SaveStep, ResumeStep

\* Only a write reaches the part of a save that takes the disk for current.
LEMMA SavedStep == ASSUME Inv, Next PROVE SavedInv'
<1> USE Basics
    DEF Inv, Step, disk, signals, persister, TypeOK, SavedInv, Memories,
    Recipes, Digest, Recipe
<1>1. ASSUME NEW v \in Versions, AddSource(v) PROVE SavedInv'
  BY <1>1 DEF AddSource
<1>2. ASSUME NEW v \in Versions, ReplacePromote(v) PROVE SavedInv'
  BY <1>2 DEF ReplacePromote
<1>3. ASSUME NEW v \in Versions, ReplaceInPlace(v) PROVE SavedInv'
  BY <1>3 DEF ReplaceInPlace
<1>4. ASSUME NEW l \in 0 .. MaxLabel, RenameDisplay(l) PROVE SavedInv'
  BY <1>4 DEF RenameDisplay
<1>5. CASE RemoveSource
  BY <1>5 DEF RemoveSource
<1>6. CASE ReplaceRetire
  BY <1>6 DEF ReplaceRetire
<1>7. CASE ReplaceCommit
  BY <1>7 DEF ReplaceCommit
<1>8. ASSUME NEW n \in Numbers, NEW d \in {0} \cup Numbers, InstallResult(n, d)
      PROVE  SavedInv'
  BY <1>8 DEF InstallResult, InTurn, Registered
<1>9. ASSUME NEW n \in Numbers, NEW d \in {0} \cup Numbers, InstallCollides(n, d)
      PROVE  SavedInv'
  BY <1>9 DEF InstallCollides, InTurn
<1>10. CASE TurnConverges
  BY <1>10 DEF TurnConverges
<1>11. CASE TurnFails
  BY <1>11 DEF TurnFails
<1>12. CASE SaveSuspended \/ SaveConflicts \/ SaveChecks \/ WriteFails
  BY <1>12 DEF SaveSuspended, SaveConflicts, SaveChecks, WriteFails
<1>13. CASE Write
  BY <1>13 DEF Write
<1>14. CASE RefreshBaseline
  BY <1>14 DEF RefreshBaseline
<1>15. CASE NoStamp \/ StampFails
  BY <1>15 DEF NoStamp, StampFails
<1>16. CASE ClearStamp
  BY <1>16 DEF ClearStamp
<1>17. CASE InsertStamp
  BY <1>17 DEF InsertStamp
<1>18. CASE TakePersistError \/ TakePendingConflict
  BY <1>18 DEF TakePersistError, TakePendingConflict
<1>19. CASE ReadRecipe
  BY <1>19 DEF ReadRecipe
<1>20. CASE SeedBaseline
  BY <1>20 DEF SeedBaseline
<1>21. CASE RestoreHit
  BY <1>21 DEF RestoreHit
<1>22. CASE DiscardCompanion
  BY <1>22 DEF DiscardCompanion
<1>23. ASSUME NEW k \in 1 .. (MaxResult + 1), Replay(k) PROVE SavedInv'
  BY <1>23 DEF Replay
<1>24. CASE ResumeFails
  BY <1>24 DEF ResumeFails
<1>25. CASE Stop
  BY <1>25 DEF Stop
<1>26. CASE EditRecipe
  BY <1>26 DEF EditRecipe
<1> QED
  BY <1>1, <1>2, <1>3, <1>4, <1>5, <1>6, <1>7, <1>8, <1>9, <1>10, <1>11,
     <1>12, <1>13, <1>14, <1>15, <1>16, <1>17, <1>18, <1>19, <1>20, <1>21,
     <1>22, <1>23, <1>24, <1>25, <1>26
     DEF Next, SessionStep, SaveStep, ResumeStep

\* A save that ends without the disk being current leaves a signal.
LEMMA DriftStep == ASSUME Inv, Next PROVE DriftIsSignalled'
<1> USE Basics
    DEF Inv, Step, disk, signals, persister, TypeOK, SavedInv,
    DriftIsSignalled, Memories, Recipes, Digest, Recipe
<1>1. ASSUME NEW v \in Versions, AddSource(v) PROVE DriftIsSignalled'
  BY <1>1 DEF AddSource
<1>2. ASSUME NEW v \in Versions, ReplacePromote(v) PROVE DriftIsSignalled'
  BY <1>2 DEF ReplacePromote
<1>3. ASSUME NEW v \in Versions, ReplaceInPlace(v) PROVE DriftIsSignalled'
  BY <1>3 DEF ReplaceInPlace
<1>4. ASSUME NEW l \in 0 .. MaxLabel, RenameDisplay(l) PROVE DriftIsSignalled'
  BY <1>4 DEF RenameDisplay
<1>5. CASE RemoveSource
  BY <1>5 DEF RemoveSource
<1>6. CASE ReplaceRetire
  BY <1>6 DEF ReplaceRetire
<1>7. CASE ReplaceCommit
  BY <1>7 DEF ReplaceCommit
<1>8. ASSUME NEW n \in Numbers, NEW d \in {0} \cup Numbers, InstallResult(n, d)
      PROVE  DriftIsSignalled'
  BY <1>8 DEF InstallResult, InTurn, Registered
<1>9. ASSUME NEW n \in Numbers, NEW d \in {0} \cup Numbers, InstallCollides(n, d)
      PROVE  DriftIsSignalled'
  BY <1>9 DEF InstallCollides, InTurn
<1>10. CASE TurnConverges
  BY <1>10 DEF TurnConverges
<1>11. CASE TurnFails
  BY <1>11 DEF TurnFails
<1>12. CASE SaveSuspended \/ SaveConflicts \/ SaveChecks \/ WriteFails
  BY <1>12 DEF SaveSuspended, SaveConflicts, SaveChecks, WriteFails
<1>13. CASE Write
  BY <1>13 DEF Write
<1>14. CASE RefreshBaseline
  BY <1>14 DEF RefreshBaseline
<1>15. CASE NoStamp \/ StampFails
  BY <1>15 DEF NoStamp, StampFails
<1>16. CASE ClearStamp
  BY <1>16 DEF ClearStamp
<1>17. CASE InsertStamp
  BY <1>17 DEF InsertStamp
<1>18. CASE TakePersistError \/ TakePendingConflict
  BY <1>18 DEF TakePersistError, TakePendingConflict
<1>19. CASE ReadRecipe
  BY <1>19 DEF ReadRecipe
<1>20. CASE SeedBaseline
  BY <1>20 DEF SeedBaseline
<1>21. CASE RestoreHit
  BY <1>21 DEF RestoreHit
<1>22. CASE DiscardCompanion
  BY <1>22 DEF DiscardCompanion
<1>23. ASSUME NEW k \in 1 .. (MaxResult + 1), Replay(k)
      PROVE  DriftIsSignalled'
  BY <1>23 DEF Replay
<1>24. CASE ResumeFails
  BY <1>24 DEF ResumeFails
<1>25. CASE Stop
  BY <1>25 DEF Stop
<1>26. CASE EditRecipe
  BY <1>26 DEF EditRecipe
<1> QED
  BY <1>1, <1>2, <1>3, <1>4, <1>5, <1>6, <1>7, <1>8, <1>9, <1>10, <1>11,
     <1>12, <1>13, <1>14, <1>15, <1>16, <1>17, <1>18, <1>19, <1>20, <1>21,
     <1>22, <1>23, <1>24, <1>25, <1>26
     DEF Next, SessionStep, SaveStep, ResumeStep

\* Whatever the session does, it carries what the recipe records.
LEMMA RecordStep == ASSUME Inv, Next PROVE RecordInv'
<1> USE Basics
    DEF Inv, Step, disk, signals, persister, TypeOK, NumberInv, RecordInv,
    Running, Memories, Recipes
<1>1. ASSUME NEW v \in Versions, AddSource(v) PROVE RecordInv'
  BY <1>1 DEF AddSource
<1>2. ASSUME NEW v \in Versions, ReplacePromote(v) PROVE RecordInv'
  BY <1>2 DEF ReplacePromote
<1>3. ASSUME NEW v \in Versions, ReplaceInPlace(v) PROVE RecordInv'
  BY <1>3 DEF ReplaceInPlace
<1>4. ASSUME NEW l \in 0 .. MaxLabel, RenameDisplay(l) PROVE RecordInv'
  BY <1>4 DEF RenameDisplay
<1>5. CASE RemoveSource
  BY <1>5 DEF RemoveSource, Cascade
<1>6. CASE ReplaceRetire
  BY <1>6 DEF ReplaceRetire
<1>7. CASE ReplaceCommit
  BY <1>7 DEF ReplaceCommit, Cascade
<1>8. ASSUME NEW n \in Numbers, NEW d \in {0} \cup Numbers, InstallResult(n, d)
      PROVE  RecordInv'
  BY <1>8 DEF InstallResult, InTurn, Registered
<1>9. ASSUME NEW n \in Numbers, NEW d \in {0} \cup Numbers, InstallCollides(n, d)
      PROVE  RecordInv'
  BY <1>9 DEF InstallCollides, InTurn
<1>10. CASE TurnConverges
  BY <1>10 DEF TurnConverges
<1>11. CASE TurnFails
  BY <1>11 DEF TurnFails
<1>12. CASE SaveSuspended \/ SaveConflicts \/ SaveChecks \/ WriteFails
  BY <1>12 DEF SaveSuspended, SaveConflicts, SaveChecks, WriteFails
<1>13. CASE Write
  BY <1>13 DEF Write, Recipe
<1>14. CASE RefreshBaseline
  BY <1>14 DEF RefreshBaseline
<1>15. CASE NoStamp \/ StampFails
  BY <1>15 DEF NoStamp, StampFails
<1>16. CASE ClearStamp
  BY <1>16 DEF ClearStamp
<1>17. CASE InsertStamp
  BY <1>17 DEF InsertStamp
<1>18. CASE TakePersistError \/ TakePendingConflict
  BY <1>18 DEF TakePersistError, TakePendingConflict
<1>19. CASE ReadRecipe
  BY <1>19 DEF ReadRecipe
<1>20. CASE SeedBaseline
  BY <1>20 DEF SeedBaseline
<1>21. CASE RestoreHit
  BY <1>21 DEF RestoreHit, Resumed, Recipe
<1>22. CASE DiscardCompanion
  BY <1>22 DEF DiscardCompanion
<1>23. ASSUME NEW k \in 1 .. (MaxResult + 1), Replay(k) PROVE RecordInv'
  BY <1>23 DEF Replay, Resumed, Recipe, History
<1>24. CASE ResumeFails
  BY <1>24 DEF ResumeFails
<1>25. CASE Stop
  BY <1>25 DEF Stop
<1>26. CASE EditRecipe
  BY <1>26 DEF EditRecipe
<1> QED
  BY <1>1, <1>2, <1>3, <1>4, <1>5, <1>6, <1>7, <1>8, <1>9, <1>10, <1>11,
     <1>12, <1>13, <1>14, <1>15, <1>16, <1>17, <1>18, <1>19, <1>20, <1>21,
     <1>22, <1>23, <1>24, <1>25, <1>26
     DEF Next, SessionStep, SaveStep, ResumeStep

\* What a row vouches for stays: a table is dropped only under a number that is
\* in no working set, or with the row.
LEMMA RowStep == ASSUME Inv, Next PROVE RowInv'
<1> USE Basics
    DEF Inv, Step, disk, signals, persister, TypeOK, NumberInv, RowInv,
    ResultsStand, Running, Memories
<1>1. ASSUME NEW v \in Versions, AddSource(v) PROVE RowInv'
  BY <1>1 DEF AddSource
<1>2. ASSUME NEW v \in Versions, ReplacePromote(v) PROVE RowInv'
  BY <1>2 DEF ReplacePromote
<1>3. ASSUME NEW v \in Versions, ReplaceInPlace(v) PROVE RowInv'
  BY <1>3 DEF ReplaceInPlace
<1>4. ASSUME NEW l \in 0 .. MaxLabel, RenameDisplay(l) PROVE RowInv'
  BY <1>4 DEF RenameDisplay
<1>5. CASE RemoveSource
  BY <1>5 DEF RemoveSource, Cascade
<1>6. CASE ReplaceRetire
  BY <1>6 DEF ReplaceRetire
<1>7. CASE ReplaceCommit
  BY <1>7 DEF ReplaceCommit, Cascade
<1>8. ASSUME NEW n \in Numbers, NEW d \in {0} \cup Numbers, InstallResult(n, d)
      PROVE  RowInv'
  BY <1>8 DEF InstallResult, InTurn, Registered, Put
<1>9. ASSUME NEW n \in Numbers, NEW d \in {0} \cup Numbers, InstallCollides(n, d)
      PROVE  RowInv'
  <2>1. n \notin mem.results
    <3>1. \A r \in mem.results : r < n
      BY <1>9, NextNumberIsNew DEF InstallCollides
    <3>2. n \in Nat
      BY MaxResultAssumption DEF Numbers
    <3> QED
      BY <3>1, <3>2
  <2>2. /\ tables' = Restrict(tables, DOMAIN tables \ {n})
        /\ mem' = mem /\ stamp' = stamp /\ pc' = "turn" /\ pc \in {"rest", "turn"}
    BY <1>9 DEF InstallCollides, InTurn
  <2>3. /\ DOMAIN tables' = DOMAIN tables \ {n}
        /\ \A m \in DOMAIN tables' : tables'[m] = tables[m]
    BY <2>2 DEF Restrict
  <2> QED
    BY <2>1, <2>2, <2>3
<1>10. CASE TurnConverges
  BY <1>10 DEF TurnConverges
<1>11. CASE TurnFails
  BY <1>11 DEF TurnFails
<1>12. CASE SaveSuspended \/ SaveConflicts \/ SaveChecks \/ WriteFails
  BY <1>12 DEF SaveSuspended, SaveConflicts, SaveChecks, WriteFails
<1>13. CASE Write
  BY <1>13 DEF Write
<1>14. CASE RefreshBaseline
  BY <1>14 DEF RefreshBaseline
<1>15. CASE NoStamp \/ StampFails
  BY <1>15 DEF NoStamp, StampFails, MayStamp
<1>16. CASE ClearStamp
  BY <1>16 DEF ClearStamp, MayStamp
<1>17. CASE InsertStamp
  BY <1>17 DEF InsertStamp, Digest, Recipe, Live
<1>18. CASE TakePersistError \/ TakePendingConflict
  BY <1>18 DEF TakePersistError, TakePendingConflict
<1>19. CASE ReadRecipe
  BY <1>19 DEF ReadRecipe
<1>20. CASE SeedBaseline
  BY <1>20 DEF SeedBaseline
<1>21. CASE RestoreHit
  BY <1>21 DEF RestoreHit, Resumed
<1>22. CASE DiscardCompanion
  BY <1>22 DEF DiscardCompanion
<1>23. ASSUME NEW k \in 1 .. (MaxResult + 1), Replay(k) PROVE RowInv'
  BY <1>23 DEF Replay, Resumed
<1>24. CASE ResumeFails
  BY <1>24 DEF ResumeFails
<1>25. CASE Stop
  BY <1>25 DEF Stop
<1>26. CASE EditRecipe
  BY <1>26 DEF EditRecipe
<1> QED
  BY <1>1, <1>2, <1>3, <1>4, <1>5, <1>6, <1>7, <1>8, <1>9, <1>10, <1>11,
     <1>12, <1>13, <1>14, <1>15, <1>16, <1>17, <1>18, <1>19, <1>20, <1>21,
     <1>22, <1>23, <1>24, <1>25, <1>26
     DEF Next, SessionStep, SaveStep, ResumeStep

\* A result's table is put under a number that no other result has.
LEMMA StandStep == ASSUME Inv, Next PROVE ResultsStand'
<1> USE Basics
    DEF Inv, Step, disk, signals, persister, TypeOK, NumberInv, RowInv,
    ResultsStand, Running, Memories
<1>1. ASSUME NEW v \in Versions, AddSource(v) PROVE ResultsStand'
  BY <1>1 DEF AddSource
<1>2. ASSUME NEW v \in Versions, ReplacePromote(v) PROVE ResultsStand'
  BY <1>2 DEF ReplacePromote
<1>3. ASSUME NEW v \in Versions, ReplaceInPlace(v) PROVE ResultsStand'
  BY <1>3 DEF ReplaceInPlace
<1>4. ASSUME NEW l \in 0 .. MaxLabel, RenameDisplay(l) PROVE ResultsStand'
  BY <1>4 DEF RenameDisplay
<1>5. CASE RemoveSource
  BY <1>5 DEF RemoveSource, Cascade
<1>6. CASE ReplaceRetire
  BY <1>6 DEF ReplaceRetire
<1>7. CASE ReplaceCommit
  BY <1>7 DEF ReplaceCommit, Cascade
<1>8. ASSUME NEW n \in Numbers, NEW d \in {0} \cup Numbers, InstallResult(n, d)
      PROVE  ResultsStand'
  BY <1>8 DEF InstallResult, InTurn, Registered, Put
<1>9. ASSUME NEW n \in Numbers, NEW d \in {0} \cup Numbers, InstallCollides(n, d)
      PROVE  ResultsStand'
  <2>1. n \notin mem.results
    <3>1. \A r \in mem.results : r < n
      BY <1>9, NextNumberIsNew DEF InstallCollides
    <3>2. n \in Nat
      BY MaxResultAssumption DEF Numbers
    <3> QED
      BY <3>1, <3>2
  <2>2. /\ tables' = Restrict(tables, DOMAIN tables \ {n})
        /\ mem' = mem /\ stamp' = stamp /\ pc' = "turn" /\ pc \in {"rest", "turn"}
    BY <1>9 DEF InstallCollides, InTurn
  <2>3. /\ DOMAIN tables' = DOMAIN tables \ {n}
        /\ \A m \in DOMAIN tables' : tables'[m] = tables[m]
    BY <2>2 DEF Restrict
  <2>4. /\ mem.results \ mem.stale \subseteq DOMAIN tables'
        /\ \A m \in mem.results \ mem.stale :
             /\ tables'[m] = tables[m]
             /\ m \in DOMAIN mem.fresh => tables[m] = mem.fresh[m]
             /\ m \in DOMAIN mem.turns \ DOMAIN mem.fresh =>
                    tables[m] = mem.turns[m]
    <3>1. Running
      BY <2>2 DEF Running
    <3>2. mem.results \ mem.stale \subseteq DOMAIN tables \ {n}
      BY <2>1, <3>1 DEF ResultsStand
    <3> QED
      BY <2>3, <3>1, <3>2 DEF ResultsStand
  <2> HIDE DEF Inv, TypeOK, NumberInv, RowInv, Memories
  <2> QED
    BY <2>2, <2>4 DEF ResultsStand
<1>10. CASE TurnConverges
  BY <1>10 DEF TurnConverges
<1>11. CASE TurnFails
  BY <1>11 DEF TurnFails
<1>12. CASE SaveSuspended \/ SaveConflicts \/ SaveChecks \/ WriteFails
  BY <1>12 DEF SaveSuspended, SaveConflicts, SaveChecks, WriteFails
<1>13. CASE Write
  BY <1>13 DEF Write
<1>14. CASE RefreshBaseline
  BY <1>14 DEF RefreshBaseline
<1>15. CASE NoStamp \/ StampFails
  BY <1>15 DEF NoStamp, StampFails
<1>16. CASE ClearStamp
  BY <1>16 DEF ClearStamp
<1>17. CASE InsertStamp
  BY <1>17 DEF InsertStamp
<1>18. CASE TakePersistError \/ TakePendingConflict
  BY <1>18 DEF TakePersistError, TakePendingConflict
<1>19. CASE ReadRecipe
  BY <1>19 DEF ReadRecipe
<1>20. CASE SeedBaseline
  BY <1>20 DEF SeedBaseline
<1>21. CASE RestoreHit
  BY <1>21 DEF RestoreHit, Resumed, Hit, Digest
<1>22. CASE DiscardCompanion
  BY <1>22 DEF DiscardCompanion
<1>23. ASSUME NEW k \in 1 .. (MaxResult + 1), Replay(k) PROVE ResultsStand'
  BY <1>23 DEF Replay, Resumed, History, Restrict, Replayed, Live
<1>24. CASE ResumeFails
  BY <1>24 DEF ResumeFails
<1>25. CASE Stop
  BY <1>25 DEF Stop
<1>26. CASE EditRecipe
  BY <1>26 DEF EditRecipe
<1> QED
  BY <1>1, <1>2, <1>3, <1>4, <1>5, <1>6, <1>7, <1>8, <1>9, <1>10, <1>11,
     <1>12, <1>13, <1>14, <1>15, <1>16, <1>17, <1>18, <1>19, <1>20, <1>21,
     <1>22, <1>23, <1>24, <1>25, <1>26
     DEF Next, SessionStep, SaveStep, ResumeStep

\* Outside the windows, what a save or a resume has read is what is there.
LEMMA BaselineStep == ASSUME Inv, BaselineInv, NoEditInWindows, Next PROVE BaselineInv'
<1> USE Basics
    DEF Inv, Step, disk, signals, persister, TypeOK, BaselineInv,
    NoEditInWindows
<1>1. ASSUME NEW v \in Versions, AddSource(v) PROVE BaselineInv'
  BY <1>1 DEF AddSource
<1>2. ASSUME NEW v \in Versions, ReplacePromote(v) PROVE BaselineInv'
  BY <1>2 DEF ReplacePromote
<1>3. ASSUME NEW v \in Versions, ReplaceInPlace(v) PROVE BaselineInv'
  BY <1>3 DEF ReplaceInPlace
<1>4. ASSUME NEW l \in 0 .. MaxLabel, RenameDisplay(l) PROVE BaselineInv'
  BY <1>4 DEF RenameDisplay
<1>5. CASE RemoveSource
  BY <1>5 DEF RemoveSource
<1>6. CASE ReplaceRetire
  BY <1>6 DEF ReplaceRetire
<1>7. CASE ReplaceCommit
  BY <1>7 DEF ReplaceCommit
<1>8. ASSUME NEW n \in Numbers, NEW d \in {0} \cup Numbers, InstallResult(n, d)
      PROVE  BaselineInv'
  BY <1>8 DEF InstallResult, InTurn
<1>9. ASSUME NEW n \in Numbers, NEW d \in {0} \cup Numbers, InstallCollides(n, d)
      PROVE  BaselineInv'
  BY <1>9 DEF InstallCollides, InTurn
<1>10. CASE TurnConverges
  BY <1>10 DEF TurnConverges
<1>11. CASE TurnFails
  BY <1>11 DEF TurnFails
<1>12. CASE SaveSuspended \/ SaveConflicts \/ SaveChecks \/ WriteFails
  BY <1>12 DEF SaveSuspended, SaveConflicts, SaveChecks, WriteFails
<1>13. CASE Write
  BY <1>13 DEF Write
<1>14. CASE RefreshBaseline
  BY <1>14 DEF RefreshBaseline
<1>15. CASE NoStamp \/ StampFails
  BY <1>15 DEF NoStamp, StampFails
<1>16. CASE ClearStamp
  BY <1>16 DEF ClearStamp
<1>17. CASE InsertStamp
  BY <1>17 DEF InsertStamp
<1>18. CASE TakePersistError \/ TakePendingConflict
  BY <1>18 DEF TakePersistError, TakePendingConflict
<1>19. CASE ReadRecipe
  BY <1>19 DEF ReadRecipe
<1>20. CASE SeedBaseline
  BY <1>20 DEF SeedBaseline
<1>21. CASE RestoreHit
  BY <1>21 DEF RestoreHit
<1>22. CASE DiscardCompanion
  BY <1>22 DEF DiscardCompanion
<1>23. ASSUME NEW k \in 1 .. (MaxResult + 1), Replay(k) PROVE BaselineInv'
  BY <1>23 DEF Replay
<1>24. CASE ResumeFails
  BY <1>24 DEF ResumeFails
<1>25. CASE Stop
  BY <1>25 DEF Stop
<1>26. CASE EditRecipe
  BY <1>26 DEF EditRecipe
<1> QED
  BY <1>1, <1>2, <1>3, <1>4, <1>5, <1>6, <1>7, <1>8, <1>9, <1>10, <1>11,
     <1>12, <1>13, <1>14, <1>15, <1>16, <1>17, <1>18, <1>19, <1>20, <1>21,
     <1>22, <1>23, <1>24, <1>25, <1>26
     DEF Next, SessionStep, SaveStep, ResumeStep


\* The invariant is inductive.
THEOREM InvHolds == Spec => []Inv
<1>1. Init => Inv
  <2> SUFFICES ASSUME Init PROVE Inv
    OBVIOUS
  <2> USE Basics DEF Init
  <2>1. conflict \in BOOLEAN /\ error \in BOOLEAN /\ told \in BOOLEAN
    BY Zenon
  <2>2. TypeOK
    BY <2>1 DEF TypeOK
  <2>3. NumberInv /\ EngineInv
    BY DEF NumberInv, EngineInv
  <2>4. RowInv /\ ResultsStand
    BY DEF RowInv, ResultsStand, Blank
  <2>5. RecordInv /\ SavedInv /\ DriftIsSignalled
    BY DEF RecordInv, SavedInv, DriftIsSignalled, Recipe, Blank, Digest
  <2> QED
    BY <2>2, <2>3, <2>4, <2>5 DEF Inv
<1>2. Inv /\ [Next]_vars => Inv'
  <2>1. ASSUME Inv, Next PROVE Inv'
    BY <2>1, TypeStep, NumberStep, EngineStep, RowStep, RecordStep, SavedStep,
       StandStep, DriftStep DEF Inv
  <2>2. ASSUME Inv, UNCHANGED vars PROVE Inv'
    <3> USE <2>2 DEF Inv, vars, disk, persister, signals
    <3>1. TypeOK' /\ NumberInv' /\ EngineInv'
      BY DEF TypeOK, NumberInv, EngineInv
    <3>2. RowInv' /\ ResultsStand'
      BY DEF RowInv, ResultsStand, Running, Live, Recipe
    <3>3. RecordInv' /\ SavedInv' /\ DriftIsSignalled'
      BY DEF RecordInv, SavedInv, DriftIsSignalled, Running, Digest, Recipe
    <3> QED
      BY <3>1, <3>2, <3>3
  <2> QED
    BY <2>1, <2>2
<1> QED
  BY <1>1, <1>2, PTL DEF Spec

\* Memory and disk keep their shapes, whatever stops and fails.
THEOREM TypeCorrect == Spec => []TypeOK
<1>1. Inv => TypeOK
  BY DEF Inv
<1> QED
  BY <1>1, InvHolds, PTL

\* Every result that is not stale has its own table, for any bound on numbers.
THEOREM ResultsStandHolds == Spec => []ResultsStand
<1>1. Inv => ResultsStand
  BY DEF Inv
<1> QED
  BY <1>1, InvHolds, PTL

\* A watermark hit hides no recorded promotion that a replay would rebuild.
THEOREM HitIsCompleteHolds == Spec => []HitIsComplete
<1>1. Inv => HitIsComplete
  <2> SUFFICES ASSUME Inv, pc = "probing", Hit
               PROVE  /\ stamp[1].src = loaded.src
                      /\ Live(loaded) \subseteq stamp[1].results
                      /\ \A n \in Live(loaded) : /\ n \in DOMAIN tables
                                                 /\ tables[n] = loaded.chain[n]
    BY DEF HitIsComplete
  <2>1. stamp # <<>> /\ stamp[1].digest = <<loaded.src, loaded.chain, loaded.stale>>
    BY DEF Hit, Digest
  <2> QED
    BY <2>1 DEF Inv, RowInv, Live
<1> QED
  BY <1>1, InvHolds, PTL

\* What the disk lacks of the chain has been signalled whenever the session rests.
THEOREM DriftIsSignalledHolds == Spec => []DriftIsSignalled
<1>1. Inv => DriftIsSignalled
  BY DEF Inv
<1> QED
  BY <1>1, InvHolds, PTL

\* No step removes, renumbers or revives a recorded promotion: the only program
\* that edits a chain is the session, and it carries all of it.
THEOREM HistoryOnlyGrowsHolds == Spec => HistoryOnlyGrows
<1> DEFINE Grows == /\ DOMAIN file.chain \subseteq DOMAIN file'.chain
                    /\ \A n \in DOMAIN file.chain : file'.chain[n] = file.chain[n]
                    /\ file.stale \subseteq file'.stale
<1>1. Inv /\ [Next]_vars => [Grows]_vars
  <2> SUFFICES ASSUME Inv, Next PROVE Grows
    OBVIOUS
  <2>1. CASE Write
    BY <2>1 DEF Inv, Write, Step, RecordInv, Running, Recipe
  <2>2. CASE EditRecipe
    BY <2>2 DEF Inv, TypeOK, Recipes, EditRecipe
  <2>3. CASE file' = file
    BY <2>3
  <2> QED
    BY <2>1, <2>2, <2>3
    DEF Next, SessionStep, SaveStep, ResumeStep, disk, AddSource,
        ReplacePromote, ReplaceInPlace, RenameDisplay, RemoveSource,
        ReplaceRetire, ReplaceCommit, InstallResult, InstallCollides,
        TurnConverges, TurnFails, SaveSuspended, SaveConflicts, SaveChecks,
        WriteFails, RefreshBaseline, NoStamp, ClearStamp, InsertStamp,
        StampFails, TakePersistError, TakePendingConflict, ReadRecipe,
        SeedBaseline, RestoreHit, DiscardCompanion, Replay, ResumeFails, Stop
<1> QED
  BY <1>1, InvHolds, PTL DEF Spec, HistoryOnlyGrows

\* If no other program edits the recipe in the three windows, no save overwrites
\* an edit: the windows are the only ones.
THEOREM NoSilentClobberHolds ==
    ASSUME NoEditInWindows PROVE Spec => NoSilentClobber
<1>1. Init => BaselineInv
  BY DEF Init, BaselineInv
<1>2. Inv /\ BaselineInv /\ [Next]_vars => BaselineInv'
  <2>1. ASSUME Inv, BaselineInv, Next PROVE BaselineInv'
    BY <2>1, NoEditInWindows, BaselineStep
  <2>2. ASSUME BaselineInv, UNCHANGED vars PROVE BaselineInv'
    BY <2>2 DEF BaselineInv, vars, disk, persister, Recipe
  <2> QED
    BY <2>1, <2>2
<1>3. BaselineInv /\ [Next]_vars =>
        [pc = "writing" /\ pc' = "refreshing" => file \in seen]_vars
  BY DEF BaselineInv
<1> QED
  BY <1>1, <1>2, <1>3, InvHolds, PTL DEF Spec, NoSilentClobber
=============================================================================
