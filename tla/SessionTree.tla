---------------------------- MODULE SessionTree ----------------------------
(***************************************************************************)
(* The directory of one session and the session that keeps it: the recipe  *)
(* (recipe.json, the authority), the companion database with the result    *)
(* tables and the watermark row, and the snapshot of the source.  Several  *)
(* files change in one operation and none of the groups is atomic, so the  *)
(* process may stop between any two steps; a resume then decides from what *)
(* it finds whether the cached tables still stand for the recipe.          *)
(*                                                                         *)
(* One source is modelled, and every result reads it, directly or through  *)
(* an earlier result.  A promotion's SQL is the dataset it reads: 0 for    *)
(* the source, n for result_n.  A hash or digest is what it is taken over. *)
(***************************************************************************)
EXTENDS Naturals, FiniteSetsExt, Functions

CONSTANTS
    Versions,   \* contents a source file may have
    NoVersion,
    MaxResult,  \* bound: the highest result number minted
    MaxLabel,   \* bound: the labels the user renames the source to
    EditAt      \* bound: where in the session's work another program may edit

ASSUME NoVersionAssumption == NoVersion \notin Versions
ASSUME MaxResultAssumption == MaxResult \in Nat
ASSUME MaxLabelAssumption == MaxLabel \in Nat

Numbers == 1 .. MaxResult
Labels == 0 .. (MaxLabel + 1)
EditedLabel == MaxLabel + 1     \* the label another program writes
Nothing == [n \in {} |-> 0]

VARIABLES
    pc,         \* where the session is, or "down"
    mem,        \* its working set, timeline and attached snapshot
    baseline, conflict, error,  \* the persister's hash and its two signals
    loaded,     \* the recipe a resume has read
    file,       \* the recipe on disk
    snapshot,   \* what the source's snapshot file holds
    tables,     \* the companion's result tables, by number: what each reads
    stamp,      \* the companion's watermark row, <<>> or one row
    seen,       \* history: what this session last read or wrote
    told        \* history: the user was told since the last write

disk == <<file, snapshot, tables, stamp>>
signals == <<conflict, error>>
persister == <<baseline, signals>>
vars == <<pc, mem, persister, loaded, disk, seen, told>>

Blank == [src |-> NoVersion, label |-> 0, results |-> {}, stale |-> {},
          turns |-> Nothing, fresh |-> Nothing, floor |-> 0,
          attached |-> NoVersion, engine |-> FALSE]

\* build_recipe: a recorded promotion is written whether its table was rebuilt
\* or not.
Recipe(m) == [src |-> m.src, label |-> m.label, chain |-> m.turns,
              stale |-> m.stale \cap DOMAIN m.turns]

\* chain_digest: the source's fingerprint, the SQL and the stale marks; the
\* label is left out.
Digest(r) == <<r.src, r.chain, r.stale>>

Live(r) == DOMAIN r.chain \ r.stale

Init ==
    /\ pc = "rest" /\ mem = Blank /\ loaded = Recipe(Blank)
    /\ file = Recipe(Blank) /\ baseline = <<file>> /\ seen = {file}
    /\ conflict = FALSE /\ error = FALSE /\ told = FALSE
    /\ snapshot = NoVersion
    /\ tables = Nothing /\ stamp = <<>>

Step(from, to) == pc = from /\ pc' = to
-----------------------------------------------------------------------------
(***************************************************************************)
(* Operations of the session, each under the session's lock.               *)
(***************************************************************************)
AddSource(v) ==
    /\ Step("rest", "checking") /\ mem.src = NoVersion
    /\ snapshot' = v
    /\ mem' = [mem EXCEPT !.src = v, !.label = 0, !.attached = v,
                          !.engine = TRUE]
    /\ UNCHANGED <<persister, loaded, file, tables, stamp, seen, told>>

\* Only the working set: the label reaches the disk with the next save.
RenameDisplay(l) ==
    /\ pc = "rest" /\ mem.src # NoVersion /\ l # mem.label
    /\ mem' = [mem EXCEPT !.label = l]
    /\ UNCHANGED <<pc, persister, loaded, disk, seen, told>>

\* Everything the source feeds goes stale; a promotion that a replay could not
\* rebuild is in no working set, so the cascade leaves it alone.
Cascade(m) == m.stale \cup m.results

RemoveSource ==
    /\ Step("rest", "checking") /\ mem.src # NoVersion
    /\ snapshot' = NoVersion
    /\ mem' = [mem EXCEPT !.src = NoVersion, !.label = 0, !.stale = Cascade(mem),
                          !.attached = NoVersion]
    /\ UNCHANGED <<persister, loaded, file, tables, stamp, seen, told>>

\* replace_source: the new file is confirmed, the old snapshot is detached and
\* its file removed, and then the new file takes its name.
ReplaceRetire ==
    /\ Step("rest", "replacing") /\ mem.src # NoVersion
    /\ snapshot' = NoVersion
    /\ mem' = [mem EXCEPT !.attached = NoVersion]
    /\ UNCHANGED <<persister, loaded, file, tables, stamp, seen, told>>

ReplacePromote(v) ==
    /\ Step("replacing", "replaced")
    /\ snapshot' = v
    /\ mem' = [mem EXCEPT !.attached = v]
    /\ UNCHANGED <<persister, loaded, file, tables, stamp, seen, told>>

\* The name could not be taken over, because the old file could not be removed
\* or the rename failed: the new file is attached where it is.
ReplaceInPlace(v) ==
    /\ pc \in {"rest", "replacing"} /\ pc' = "replaced" /\ mem.src # NoVersion
    /\ mem' = [mem EXCEPT !.attached = v]
    /\ UNCHANGED <<persister, loaded, disk, seen, told>>

ReplaceCommit ==
    /\ Step("replaced", "checking")
    /\ mem' = [mem EXCEPT !.src = mem.attached, !.stale = Cascade(mem)]
    /\ UNCHANGED <<persister, loaded, disk, seen, told>>

\* One past the highest number in the working set or in the recorded history.
NextNumber(m) == Max(m.results \cup {m.floor, 0}) + 1

Readable(m) == {0} \cup (m.results \ m.stale)

InTurn == pc \in {"rest", "turn"} /\ pc' = "turn" /\ mem.attached # NoVersion

Put(f, n, d) == [k \in DOMAIN f \cup {n} |-> IF k = n THEN d ELSE f[k]]

Registered(n, d) ==
    [mem EXCEPT !.results = @ \cup {n}, !.fresh = Put(@, n, d)]

InstallResult(n, d) ==
    /\ InTurn /\ n = NextNumber(mem) /\ d \in Readable(mem)
    /\ n \notin DOMAIN tables
    /\ tables' = Put(tables, n, d)
    /\ mem' = Registered(n, d)
    /\ UNCHANGED <<persister, loaded, file, snapshot, stamp, seen, told>>

\* Plausible bug: a table that is already there is taken for the result.
InstallCollidesKeeps(n, d) ==
    /\ InTurn /\ n = NextNumber(mem) /\ d \in Readable(mem)
    /\ n \in DOMAIN tables
    /\ mem' = Registered(n, d)
    /\ UNCHANGED <<persister, loaded, disk, seen, told>>

\* A table of that number was left by a turn whose record never reached the
\* disk: the install fails on it and its rollback drops it.
InstallCollides(n, d) ==
    /\ InTurn /\ n = NextNumber(mem) /\ d \in Readable(mem)
    /\ n \in DOMAIN tables
    /\ tables' = Restrict(tables, DOMAIN tables \ {n})
    /\ UNCHANGED <<mem, persister, loaded, file, snapshot, stamp, seen, told>>

\* record_turn: a turn that converged records its promotions.
TurnConverges ==
    /\ pc \in {"rest", "turn"} /\ pc' = "checking"
    /\ mem' = [mem EXCEPT
                 !.turns = [n \in DOMAIN @ \cup DOMAIN mem.fresh |->
                              IF n \in DOMAIN mem.fresh THEN mem.fresh[n] ELSE @[n]],
                 !.fresh = Nothing]
    /\ UNCHANGED <<persister, loaded, disk, seen, told>>

\* A turn that failed or was cancelled records none: its results stay in the
\* working set.
TurnFails ==
    /\ Step("turn", "checking")
    /\ mem' = [mem EXCEPT !.fresh = Nothing]
    /\ UNCHANGED <<persister, loaded, disk, seen, told>>
-----------------------------------------------------------------------------
(***************************************************************************)
(* persist_if_bound: check, write, take the new baseline, stamp.           *)
(***************************************************************************)
SaveSuspended ==
    /\ Step("checking", "rest") /\ conflict
    /\ UNCHANGED <<mem, persister, loaded, disk, seen, told>>

\* The recipe is not what was last written, or it could not be read.
SaveConflicts ==
    /\ Step("checking", "rest") /\ ~conflict /\ baseline # <<>>
    /\ conflict' = TRUE
    /\ UNCHANGED <<mem, baseline, error, loaded, disk, seen, told>>

\* Plausible bug: the check is skipped.
SaveChecksNothing ==
    /\ Step("checking", "writing") /\ ~conflict
    /\ UNCHANGED <<mem, persister, loaded, disk, seen, told>>

SaveChecks ==
    /\ Step("checking", "writing") /\ ~conflict
    /\ baseline = <<>> \/ baseline = <<file>>
    /\ UNCHANGED <<mem, persister, loaded, disk, seen, told>>

Write ==
    /\ Step("writing", "refreshing")
    /\ file' = Recipe(mem) /\ seen' = seen \cup {file'} /\ told' = FALSE
    /\ UNCHANGED <<mem, persister, loaded, snapshot, tables, stamp>>

\* Plausible bug: a failed write is only logged.
WriteFailsSilently ==
    /\ Step("writing", "rest")
    /\ UNCHANGED <<mem, persister, loaded, disk, seen, told>>

WriteFails ==
    /\ Step("writing", "rest")
    /\ error' = TRUE
    /\ UNCHANGED <<mem, baseline, conflict, loaded, disk, seen, told>>

\* The baseline is read back from the disk; if that fails the old one stays.
RefreshBaseline ==
    /\ Step("refreshing", "stamping")
    /\ \/ baseline' = <<file>> /\ seen' = {Recipe(mem)}
       \/ UNCHANGED <<baseline, seen>>
    /\ UNCHANGED <<mem, signals, loaded, disk, told>>

\* Plausible bug: a degraded working set is stamped too.
MayStampDegraded == ~error /\ mem.engine

\* The write landed as far as the persister's signals tell (an error that nobody
\* has taken yet hides it), the engine runs, and no recorded live promotion is
\* missing from the working set.
MayStamp ==
    /\ ~error /\ mem.engine
    /\ Live(Recipe(mem)) \subseteq mem.results

NoStamp ==
    /\ Step("stamping", "rest") /\ ~MayStamp
    /\ UNCHANGED <<mem, persister, loaded, disk, seen, told>>

\* The row is deleted and then inserted; either statement may fail.
ClearStamp ==
    /\ Step("stamping", "inserting") /\ MayStamp
    /\ stamp' = <<>>
    /\ UNCHANGED <<mem, persister, loaded, file, snapshot, tables, seen, told>>

InsertStamp ==
    /\ Step("inserting", "rest")
    /\ stamp' = <<[digest |-> Digest(Recipe(mem)), src |-> mem.src,
                   label |-> mem.label, results |-> mem.results,
                   stale |-> mem.stale \cap mem.results]>>
    /\ UNCHANGED <<mem, persister, loaded, file, snapshot, tables, seen, told>>

StampFails ==
    /\ pc \in {"stamping", "inserting"} /\ (pc = "stamping" => MayStamp)
    /\ pc' = "rest"
    /\ UNCHANGED <<mem, persister, loaded, disk, seen, told>>

TakePersistError ==
    /\ pc = "rest" /\ error
    /\ error' = FALSE /\ told' = TRUE
    /\ UNCHANGED <<pc, mem, baseline, conflict, loaded, disk, seen>>

TakePendingConflict ==
    /\ pc = "rest" /\ conflict
    /\ conflict' = FALSE /\ told' = TRUE
    /\ UNCHANGED <<pc, mem, baseline, error, loaded, disk, seen>>
-----------------------------------------------------------------------------
(***************************************************************************)
(* The end of the process and the resume of the recipe.                    *)
(***************************************************************************)
Stop ==
    /\ pc # "down" /\ pc' = "down"
    /\ mem' = Blank /\ baseline' = <<>>
    /\ conflict' = FALSE /\ error' = FALSE
    /\ loaded' = Recipe(Blank) /\ seen' = {} /\ told' = FALSE
    /\ UNCHANGED disk

ReadRecipe ==
    /\ Step("down", "hashing")
    /\ loaded' = file /\ seen' = {file}
    /\ UNCHANGED <<mem, persister, disk, told>>

SeedBaseline ==
    /\ Step("hashing", "probing")
    /\ baseline' = <<file>>
    /\ UNCHANGED <<mem, signals, loaded, disk, seen, told>>

\* probe: the row is for this recipe and the source's snapshot file opens.
Hit ==
    /\ stamp # <<>> /\ stamp[1].digest = Digest(loaded)
    /\ loaded.src # NoVersion => snapshot # NoVersion

HighestOf(r) == Max(DOMAIN r.chain \cup {0})

\* The session that a resume builds; nothing is attached without a source.
Resumed(src, label, results, stale, turns, attached) ==
    [src |-> src, label |-> label, results |-> results, stale |-> stale,
     turns |-> turns, fresh |-> Nothing, floor |-> HighestOf(loaded),
     attached |-> IF src = NoVersion THEN NoVersion ELSE attached,
     engine |-> src # NoVersion]

\* restore_hit: the working set comes from the row, the history from the recipe.
RestoreHit ==
    /\ Step("probing", "checking") /\ Hit
    /\ LET row == stamp[1] IN
       mem' = Resumed(row.src, row.label, row.results \cup loaded.stale,
                      row.stale \cup loaded.stale, loaded.chain, snapshot)
    /\ loaded' = Recipe(Blank)
    /\ UNCHANGED <<persister, disk, seen, told>>

DiscardCompanion ==
    /\ Step("probing", "replaying") /\ ~Hit
    /\ stamp' = <<>> /\ tables' = Nothing
    /\ UNCHANGED <<mem, persister, loaded, file, snapshot, seen, told>>

\* The source is read again, then the live promotions are executed in order up
\* to the first that cannot be: one that reads a result the history lacks, or
\* one the engine fails on.
Replayed(k) == {n \in Live(loaded) : n < k}

\* Plausible bug: the history is cut at the break.
HistoryCut(k) == Restrict(loaded.chain, {n \in DOMAIN loaded.chain : n <= k})

\* A promotion that was not executed keeps its recorded entry.
History(k) == loaded.chain

Replay(k) ==
    /\ Step("replaying", "checking")
    /\ k \in Live(loaded) \cup {MaxResult + 1}
    /\ loaded.src = NoVersion => Replayed(k) = {}
    /\ \A n \in Replayed(k) : loaded.chain[n] \in {0} \cup Replayed(k)
    /\ snapshot' = loaded.src
    /\ tables' = Restrict(loaded.chain, Replayed(k))
    /\ mem' = Resumed(loaded.src, loaded.label,
                      Replayed(k) \cup {n \in loaded.stale : n <= k},
                      loaded.stale, History(k), loaded.src)
    /\ loaded' = Recipe(Blank)
    /\ UNCHANGED <<persister, file, stamp, seen, told>>

\* The source changed or is gone and the user gives up, or an attach fails.
ResumeFails ==
    /\ pc \in {"hashing", "probing", "replaying"} /\ pc' = "down"
    /\ baseline' = <<>> /\ loaded' = Recipe(Blank) /\ seen' = {}
    /\ UNCHANGED <<mem, signals, disk, told>>

\* Another program edits the recipe.
EditRecipe ==
    /\ pc \in EditAt /\ file.src # NoVersion
    /\ file' = [file EXCEPT !.label = EditedLabel]
    /\ UNCHANGED <<pc, mem, persister, loaded, snapshot, tables, stamp, seen, told>>
-----------------------------------------------------------------------------
SessionStep ==
    \/ \E v \in Versions : \/ AddSource(v)
                           \/ ReplacePromote(v) \/ ReplaceInPlace(v)
    \/ \E l \in 0 .. MaxLabel : RenameDisplay(l)
    \/ RemoveSource \/ ReplaceRetire \/ ReplaceCommit
    \/ \E n \in Numbers, d \in {0} \cup Numbers :
         InstallResult(n, d) \/ InstallCollides(n, d)
    \/ TurnConverges \/ TurnFails

SaveStep ==
    \/ SaveSuspended \/ SaveConflicts \/ SaveChecks
    \/ Write \/ WriteFails \/ RefreshBaseline
    \/ NoStamp \/ ClearStamp \/ InsertStamp \/ StampFails
    \/ TakePersistError \/ TakePendingConflict

ResumeStep ==
    \/ ReadRecipe \/ SeedBaseline \/ RestoreHit \/ DiscardCompanion
    \/ \E k \in 1 .. (MaxResult + 1) : Replay(k)
    \/ ResumeFails

Next == SessionStep \/ SaveStep \/ ResumeStep \/ Stop \/ EditRecipe

Spec == Init /\ [][Next]_vars
-----------------------------------------------------------------------------
Chains == UNION {[D -> {0} \cup Numbers] : D \in SUBSET Numbers}

Recipes ==
    [src : Versions \cup {NoVersion}, label : Labels, chain : Chains,
     stale : SUBSET Numbers]

Memories ==
    [src : Versions \cup {NoVersion}, label : Labels, results : SUBSET Numbers,
     stale : SUBSET Numbers, turns : Chains, fresh : Chains,
     floor : {0} \cup Numbers, attached : Versions \cup {NoVersion},
     engine : BOOLEAN]

Rows ==
    [digest : (Versions \cup {NoVersion}) \X Chains \X SUBSET Numbers,
     src : Versions \cup {NoVersion}, label : Labels,
     results : SUBSET Numbers, stale : SUBSET Numbers]

\* Memory and disk keep their shapes; a turn's promotions are results that can
\* be read, and a source is attached only to an engine that runs.
TypeOK ==
    /\ pc \in {"rest", "turn", "replacing", "replaced", "checking", "writing",
               "refreshing", "stamping", "inserting", "down", "hashing",
               "probing", "replaying"}
    /\ mem \in Memories
    /\ DOMAIN mem.fresh \subseteq mem.results \ mem.stale
    /\ mem.attached # NoVersion => mem.engine
    /\ file \in Recipes /\ loaded \in Recipes /\ seen \subseteq Recipes
    /\ baseline = <<>> \/ (baseline = <<baseline[1]>> /\ baseline[1] \in Recipes)
    /\ stamp = <<>> \/ (stamp = <<stamp[1]>> /\ stamp[1] \in Rows)
    /\ conflict \in BOOLEAN /\ error \in BOOLEAN /\ told \in BOOLEAN
    /\ snapshot \in Versions \cup {NoVersion}
    /\ tables \in Chains

\* The session serves its user; otherwise it is down or being resumed.
Running == pc \notin {"down", "hashing", "probing", "replaying"}

\* Every result that is not stale has its table, and the table is the one its
\* promotion computes, not one that an earlier, lost turn left under its number.
ResultsStand ==
    Running =>
        \A n \in mem.results \ mem.stale :
            /\ n \in DOMAIN tables
            /\ n \in DOMAIN mem.fresh => tables[n] = mem.fresh[n]
            /\ n \in DOMAIN mem.turns \ DOMAIN mem.fresh =>
                   tables[n] = mem.turns[n]

\* A hit skips the replay only if the row is of the recorded source and nothing
\* the replay would compute is missing: a session that could not rebuild a
\* recorded promotion is never frozen behind a hit.
HitIsComplete ==
    pc = "probing" /\ Hit =>
        /\ stamp[1].src = loaded.src
        /\ Live(loaded) \subseteq stamp[1].results
        /\ \A n \in Live(loaded) : /\ n \in DOMAIN tables
                                   /\ tables[n] = loaded.chain[n]

\* Whatever stops, failed writes and broken replays come between, a promotion
\* once recorded on disk stays, no later one takes its number, and a stale mark
\* is not lifted.
HistoryOnlyGrows ==
    [][/\ DOMAIN file.chain \subseteq DOMAIN file'.chain
       /\ \A n \in DOMAIN file.chain : file'.chain[n] = file.chain[n]
       /\ file.stale \subseteq file'.stale]_vars

\* An automatic save replaces only what this session itself read or wrote.
NoSilentClobber ==
    [][pc = "writing" /\ pc' = "refreshing" => file \in seen]_vars

\* At rest, what the disk lacks of the session's chain has been signalled.
DriftIsSignalled ==
    pc = "rest" =>
        Digest(Recipe(mem)) = Digest(file) \/ error \/ conflict \/ told

\* A watermark hit gives back the label that the recipe records.
HitKeepsLabel ==
    [][pc = "probing" /\ pc' = "checking" => mem'.label = loaded.label]_vars

\* A watermark hit attaches the data whose fingerprint the recipe records.
HitKeepsData ==
    [][pc = "probing" /\ pc' = "checking" => mem'.attached = loaded.src]_vars
=============================================================================
