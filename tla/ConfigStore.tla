---------------------------- MODULE ConfigStore ----------------------------
(***************************************************************************)
(* The app-config file and everyone who writes it.                         *)
(*                                                                         *)
(*   - The backend's setters (provider/live_config.rs) read the file,      *)
(*     change one section and write the file back, all under write_lock.   *)
(*     The window calls some of them through commands, which Tauri runs on *)
(*     its main thread; turns and posture changes call others from worker  *)
(*     threads.                                                            *)
(*   - Reads (load) take no lock; the first read after the move to the     *)
(*     file seeds it from the legacy keychain blob.                        *)
(*   - The window keeps a copy of the whole document and persists an edit  *)
(*     by sending all of it (set_app_config).  A settings control reverts  *)
(*     on failure, a quick control (profile switch, sidebar) does not.     *)
(*   - What a write puts on disk is the normalized document: a value out   *)
(*     of its domain (a memory limit the engine cannot parse, an empty     *)
(*     base URL, a blank directory) is repaired.  The window does not      *)
(*     validate it, and keeps the copy it sent.                            *)
(*                                                                         *)
(* A write (persistence/io.rs, write_str_atomic) truncates the one temp    *)
(* file, fills it and renames it over the target: files are modelled as    *)
(* inodes, so a writer whose temp file was renamed by someone else goes on *)
(* writing into the target.                                                *)
(***************************************************************************)
EXTENDS Naturals, Sequences, FiniteSets

CONSTANTS Posts,      \* setter calls of worker threads: the window is not told
          Reads,      \* reads of worker threads
          Dedicated,  \* setter calls of the window: the reply is the new document
          Settings,   \* whole-document commits of the settings view
          Quick,      \* whole-document commits of the top bar and the sidebar
          Malformed,  \* operations whose value is out of its section's domain
          Spoilt,     \* sections to which the user may give a malformed value by hand
          Starts,     \* what the application may find at its first launch
          MaxMishaps,    \* failing writes, crashes and edits by hand, together
          FaultyUpgrade, \* writes may fail while there is a legacy blob to move
          None, Failed

Main == "main"  Boot == "boot"  Scan == "scan"  Mount == "mount"

Commits == Settings \cup Quick
Window  == Commits \cup Dedicated \cup {Mount}
Setters == Posts \cup Dedicated \cup {Scan}
Threads == {Main} \cup Posts \cup Reads

ASSUME StoreAssumption ==
  /\ Starts \subseteq {"upgrade", "fresh", "settled"}
  /\ MaxMishaps \in Nat /\ FaultyUpgrade \in BOOLEAN

\* The section an operation writes.  The legacy blob seeds the provider's.
Section(r) ==
  CASE r \in Posts     -> "posture"
    [] r \in Dedicated -> "runtime"
    [] r = Scan        -> "tools"
    [] r \in Settings  -> "engine"
    [] r \in Quick     -> "sidebar"

Sections == {"posture", "runtime", "tools", "engine", "sidebar", "provider"}
Default  == "default"
Legacy   == "legacy"
Raw      == "raw"        \* a value out of its domain that was written by hand
Repaired == "repaired"   \* what the repair makes of such a value
Values   == Setters \cup Commits \cup {Default, Legacy, Raw, Repaired}
Configs  == [Sections -> Values]
Defaults == [s \in Sections |-> Default]
Seed     == [Defaults EXCEPT !["provider"] = Legacy]

ASSUME SpoiltAssumption == Spoilt \subseteq Sections

\* Every write repairs every section; a read repairs the fields of the engine only
\* (and two limits in a section that nothing here writes).
Repair(v)    == IF v \in Malformed \cup {Raw} THEN Repaired ELSE v
Normalize(d) == [s \in Sections |-> Repair(d[s])]
Sanitize(d)  == [d EXCEPT !["engine"] = Repair(@)]

\* Threads and requests have names of their own.
Names == {Main, Boot, Scan, Mount, Default, Legacy, Raw, Repaired, "torn", "broken"}
ASSUME NameAssumption ==
  /\ IsFiniteSet(Posts) /\ IsFiniteSet(Reads)
  /\ Posts \cap (Reads \cup Dedicated \cup Settings \cup Quick \cup Names) = {}
  /\ Reads \cap (Dedicated \cup Settings \cup Quick \cup Names) = {}
  /\ Dedicated \cap (Settings \cup Quick \cup Names) = {}
  /\ Settings \cap (Quick \cup Names) = {} /\ Quick \cap Names = {}
  /\ Malformed \subseteq Posts \cup Dedicated \cup Commits
  /\ None \notin Nat \cup Configs \cup Threads \cup {Failed}
  /\ Failed \notin Configs

Torn   == [s \in Sections |-> "torn"]     \* a file that is still being filled
Broken == [s \in Sections |-> "broken"]   \* a file that does not parse, or of another version

VARIABLES
  disk,      \* the inode of the config file, or None
  tmp,       \* the inode of the temp file, or None
  content,   \* what each inode holds
  legacy,    \* the keychain still has the legacy blob
  lock,      \* write_lock: the thread that holds it
  pc, doc, seeding, fd,  \* each thread: step, document in memory, seeding, open file
  job,       \* the request the main thread works on
  ipc,       \* the requests it has yet to take
  up,        \* the setup is over
  front,     \* the window's copy of the document
  prev,      \* what the running settings commit goes back to
  step,      \* each request of the window
  answer,    \* its reply
  endpoint,  \* history: the user had an endpoint before the first launch
  drift,     \* history: something touched the file or the copy behind the other's back
  edited,    \* history: the file was edited by hand
  faulty,    \* writes may fail
  mishaps    \* mishaps still to come

fileVars   == <<disk, tmp, content, legacy>>
threadVars == <<lock, pc, doc, seeding, fd, job>>
windowVars == <<front, prev, step, answer>>
historyVars == <<endpoint, edited, faulty>>
vars == <<fileVars, threadVars, ipc, up, windowVars, historyVars, drift, mishaps>>

Inodes == 1 .. Cardinality(Threads) + 2
Held   == IF disk = None THEN Defaults ELSE content[disk]
Readable == IF Held \in Configs THEN Sanitize(Held) ELSE Defaults

NoJob   == [kind |-> "none", by |-> None, doc |-> Defaults]
Req(k, r, d) == [kind |-> k, by |-> r, doc |-> d]
JobOf(t) == IF t = Main THEN job
            ELSE IF t \in Posts THEN Req("set", t, Defaults) ELSE Req("load", t, Defaults)

\* setup: one load, then the builtin scan, before the window exists.
Setup == <<Req("load", Boot, Defaults), Req("set", Scan, Defaults)>>

Init ==
  /\ \E s \in Starts :
       /\ disk = IF s = "settled" THEN 1 ELSE None
       /\ content = [i \in Inodes |-> IF s = "settled" /\ i = 1 THEN Seed ELSE Torn]
       /\ legacy = (s = "upgrade") /\ endpoint = (s # "fresh")
       /\ faulty = (s = "upgrade" => FaultyUpgrade)
  /\ tmp = None /\ lock = None
  /\ pc = [t \in Threads |-> "idle"] /\ doc = [t \in Threads |-> Defaults]
  /\ seeding = [t \in Threads |-> FALSE] /\ fd = [t \in Threads |-> None]
  /\ job = NoJob /\ ipc = Setup /\ up = FALSE
  /\ front = None /\ prev = None
  /\ step = [r \in Window |-> "idle"] /\ answer = [r \in Window |-> None]
  /\ drift = FALSE /\ edited = FALSE /\ mishaps = MaxMishaps

----------------------------------------------------------------------------
(* The backend.  A thread that takes up work starts here: a read looks     *)
(* for the file, everyone else waits for the lock.                         *)

FirstStep(kind) == IF kind = "load" THEN "look" ELSE "lock"

Goes(t, to) == pc' = [pc EXCEPT ![t] = to]

MainTakes ==
  /\ pc[Main] = "idle" /\ ipc # <<>>
  /\ job' = Head(ipc) /\ ipc' = Tail(ipc)
  /\ Goes(Main, FirstStep(Head(ipc).kind))
  /\ doc' = [doc EXCEPT ![Main] = Head(ipc).doc]
  /\ UNCHANGED <<fileVars, lock, seeding, fd, up, windowVars, historyVars, drift, mishaps>>

WorkerStarts(t) ==
  /\ t # Main /\ up /\ pc[t] = "idle"
  /\ Goes(t, FirstStep(JobOf(t).kind))
  /\ UNCHANGED <<fileVars, lock, doc, seeding, fd, job, ipc, up, windowVars, historyVars, drift, mishaps>>

\* The operation returns: the guard is dropped, a caller in the window is answered.
Returns(t, result) ==
  /\ lock' = IF lock = t THEN None ELSE lock
  /\ Goes(t, IF t = Main THEN "idle" ELSE "done")
  /\ doc' = [doc EXCEPT ![t] = Defaults] /\ seeding' = [seeding EXCEPT ![t] = FALSE]
  /\ fd' = [fd EXCEPT ![t] = None]
  /\ job' = IF t = Main THEN NoJob ELSE job
  /\ answer' = IF JobOf(t).by \in Window THEN [answer EXCEPT ![JobOf(t).by] = result] ELSE answer
  /\ up' = (up \/ JobOf(t).by = Scan)
  /\ UNCHANGED <<ipc, front, prev, step, historyVars>>

Locks(t) ==
  /\ pc[t] = "lock" /\ lock = None
  /\ lock' = t
  /\ Goes(t, IF JobOf(t).kind = "set" THEN "read" ELSE "create")
  /\ UNCHANGED <<fileVars, doc, seeding, fd, job, ipc, up, windowVars, historyVars, drift, mishaps>>

\* load: without the file it turns to the migration; read_at shows a file that
\* cannot be parsed as the defaults.
Loads(t) ==
  /\ pc[t] = "look"
  /\ IF disk = None
     THEN /\ Goes(t, "fetch")
          /\ UNCHANGED <<lock, doc, seeding, fd, job, ipc, up, windowVars, historyVars>>
     ELSE Returns(t, Readable)
  /\ UNCHANGED <<fileVars, drift, mishaps>>

\* Mutant of ReadForWrite: a file that cannot be parsed reads as the defaults.
ReadForWriteDegrades(t) ==
  /\ pc[t] = "read"
  /\ Goes(t, IF disk = None THEN "fetch" ELSE "change")
  /\ doc' = [doc EXCEPT ![t] = Readable]
  /\ UNCHANGED <<fileVars, lock, seeding, fd, job, ipc, up, windowVars, historyVars, drift, mishaps>>

\* load_for_write: it refuses the write instead.
ReadForWrite(t) ==
  /\ pc[t] = "read"
  /\ IF Held \in Configs
     THEN /\ Goes(t, IF disk = None THEN "fetch" ELSE "change")
          /\ doc' = [doc EXCEPT ![t] = Readable]
          /\ UNCHANGED <<lock, seeding, fd, job, ipc, up, windowVars, historyVars>>
     ELSE Returns(t, Failed)
  /\ UNCHANGED <<fileVars, drift, mishaps>>

\* Mutant of Fetches: the blob is removed before the file is written.
FetchesAndClears(t) ==
  /\ pc[t] = "fetch"
  /\ IF legacy
     THEN /\ Goes(t, "create") /\ doc' = [doc EXCEPT ![t] = Seed]
          /\ seeding' = [seeding EXCEPT ![t] = TRUE]
          /\ UNCHANGED <<lock, fd, job, ipc, up, windowVars, historyVars>>
     ELSE IF JobOf(t).kind = "load" THEN Returns(t, Defaults)
     ELSE /\ Goes(t, "change") /\ doc' = [doc EXCEPT ![t] = Defaults]
          /\ UNCHANGED <<lock, seeding, fd, job, ipc, up, windowVars, historyVars>>
  /\ legacy' = FALSE
  /\ UNCHANGED <<disk, tmp, content, drift, mishaps>>

\* load_missing: the legacy blob, if there is one, seeds the file at once.
Fetches(t) ==
  /\ pc[t] = "fetch"
  /\ IF legacy
     THEN /\ Goes(t, "create") /\ doc' = [doc EXCEPT ![t] = Seed]
          /\ seeding' = [seeding EXCEPT ![t] = TRUE]
          /\ UNCHANGED <<lock, fd, job, ipc, up, windowVars, historyVars>>
     ELSE IF JobOf(t).kind = "load" THEN Returns(t, Defaults)
     ELSE /\ Goes(t, "change") /\ doc' = [doc EXCEPT ![t] = Defaults]
          /\ UNCHANGED <<lock, seeding, fd, job, ipc, up, windowVars, historyVars>>
  /\ UNCHANGED <<fileVars, drift, mishaps>>

\* A setter may refuse the change, and the scan may find nothing to persist.
ChangesNothing(t) ==
  /\ pc[t] = "change" /\ JobOf(t).by \in Dedicated \cup {Scan}
  /\ Returns(t, IF JobOf(t).by = Scan THEN doc[t] ELSE Failed)
  /\ UNCHANGED <<fileVars, drift, mishaps>>

----------------------------------------------------------------------------
(* write_str_atomic.                                                       *)

Free == CHOOSE i \in Inodes : i \notin {disk, tmp} \cup {fd[t] : t \in Threads}
Target == IF tmp # None THEN tmp ELSE Free

\* A setter changes its own section of the document it read; what goes out is
\* normal, whoever sends it.
Outgoing(t) ==
  Normalize(IF pc[t] = "change"
            THEN [doc[t] EXCEPT ![Section(JobOf(t).by)] = JobOf(t).by] ELSE doc[t])

\* Mutant of Creates: the target itself is rewritten.
CreatesInPlace(t) ==
  /\ pc[t] \in {"change", "create"}
  /\ doc' = [doc EXCEPT ![t] = Outgoing(t)]
  /\ LET i == IF disk # None THEN disk ELSE Target
     IN  tmp' = i /\ content' = [content EXCEPT ![i] = Torn] /\ fd' = [fd EXCEPT ![t] = i]
  /\ Goes(t, "fill")
  /\ UNCHANGED <<disk, legacy, lock, seeding, job, ipc, up, windowVars, historyVars, drift, mishaps>>

Creates(t) ==
  /\ pc[t] \in {"change", "create"}
  /\ doc' = [doc EXCEPT ![t] = Outgoing(t)]
  /\ tmp' = Target /\ content' = [content EXCEPT ![Target] = Torn]
  /\ fd' = [fd EXCEPT ![t] = Target]
  /\ Goes(t, "fill")
  /\ UNCHANGED <<disk, legacy, lock, seeding, job, ipc, up, windowVars, historyVars, drift, mishaps>>

Fills(t) ==
  /\ pc[t] = "fill"
  /\ content' = [content EXCEPT ![fd[t]] = doc[t]]
  /\ fd' = [fd EXCEPT ![t] = None]
  /\ Goes(t, "rename")
  /\ UNCHANGED <<disk, tmp, legacy, lock, doc, seeding, job, ipc, up, windowVars, historyVars, drift, mishaps>>

\* A seed that was written is followed by the removal of the blob; any other
\* document that was written ends the operation.
Renames(t) ==
  /\ pc[t] = "rename" /\ tmp # None
  /\ disk' = tmp /\ tmp' = None
  /\ content' = [i \in Inodes |-> IF i = disk THEN Torn ELSE content[i]]
  /\ IF seeding[t]
     THEN /\ Goes(t, "clear")
          /\ UNCHANGED <<lock, doc, seeding, fd, job, ipc, up, windowVars, historyVars, drift>>
     ELSE /\ Returns(t, doc[t])
          /\ drift' = (drift \/ t \in Posts)
  /\ UNCHANGED <<legacy, mishaps>>

\* A write that fails leaves the target alone.  A failed seed is retried by the
\* next read: the caller goes on with the seeded document in memory.
WriteFails(t) ==
  /\ \/ pc[t] \in {"change", "create", "fill"} /\ faulty /\ mishaps > 0 /\ mishaps' = mishaps - 1
     \/ pc[t] = "rename" /\ tmp = None /\ mishaps' = mishaps
  /\ IF seeding[t] /\ JobOf(t).kind = "set"
     THEN /\ Goes(t, "change") /\ seeding' = [seeding EXCEPT ![t] = FALSE]
          /\ fd' = [fd EXCEPT ![t] = None]
          /\ UNCHANGED <<lock, doc, job, ipc, up, windowVars, historyVars>>
     ELSE Returns(t, IF seeding[t] THEN doc[t] ELSE Failed)
  /\ UNCHANGED <<fileVars, drift>>

Clears(t) ==
  /\ pc[t] = "clear"
  /\ legacy' = FALSE
  /\ IF JobOf(t).kind = "load" THEN Returns(t, doc[t])
     ELSE /\ Goes(t, "change") /\ seeding' = [seeding EXCEPT ![t] = FALSE]
          /\ UNCHANGED <<lock, doc, fd, job, ipc, up, windowVars, historyVars>>
  /\ UNCHANGED <<disk, tmp, content, drift, mishaps>>

----------------------------------------------------------------------------
(* The window.                                                             *)

Outstanding == {r \in Window : step[r] \notin {"idle", "done"}}

\* Replies that replace the whole copy race the requests sent meanwhile.
Replaces(r) == r \in Dedicated \/ step[r] = "rereading"

Sends(r, kind, d) ==
  /\ ipc' = Append(ipc, Req(kind, r, d))
  /\ answer' = [answer EXCEPT ![r] = None]

Overlaps(r) ==
  IF r \in Dedicated THEN Outstanding \ {r} # {}
  ELSE \E q \in Outstanding \ {r} : Replaces(q)

Mounts ==
  /\ up /\ step[Mount] = "idle"
  /\ step' = [step EXCEPT ![Mount] = "sent"]
  /\ Sends(Mount, "load", Defaults)
  /\ UNCHANGED <<fileVars, threadVars, up, front, prev, historyVars, drift, mishaps>>

Asks(r) ==
  /\ r \in Dedicated /\ front # None /\ step[r] = "idle"
  /\ step' = [step EXCEPT ![r] = "sent"]
  /\ Sends(r, "set", Defaults)
  /\ drift' = (drift \/ Overlaps(r))
  /\ UNCHANGED <<fileVars, threadVars, up, front, prev, historyVars, mishaps>>

\* Mutant of Commit: what a failure goes back to is not kept.
CommitKeepsNothing(r) ==
  /\ r \in Commits /\ front # None /\ step[r] = "idle"
  /\ r \in Settings => Outstanding \cap Settings = {}
  /\ LET next == [front EXCEPT ![Section(r)] = r]
     IN  /\ front' = next /\ Sends(r, "store", next)
  /\ step' = [step EXCEPT ![r] = "sent"]
  /\ drift' = (drift \/ Overlaps(r))
  /\ UNCHANGED <<fileVars, threadVars, up, prev, historyVars, mishaps>>

\* commitAppConfig: the copy changes first, then the whole of it is sent.
\* Settings commits run one after the other.  Nothing checks the value, and the
\* reply, the document as it was stored, is dropped (Settles).
Commit(r) ==
  /\ r \in Commits /\ front # None /\ step[r] = "idle"
  /\ r \in Settings => Outstanding \cap Settings = {}
  /\ LET next == [front EXCEPT ![Section(r)] = r]
     IN  /\ front' = next /\ Sends(r, "store", next)
  /\ prev' = IF r \in Settings THEN front ELSE prev
  /\ step' = [step EXCEPT ![r] = "sent"]
  /\ drift' = (drift \/ Overlaps(r))
  /\ UNCHANGED <<fileVars, threadVars, up, historyVars, mishaps>>

Answered(r) == r \in Outstanding /\ answer[r] # None
Ends(r) ==
  /\ step' = [step EXCEPT ![r] = "done"] /\ answer' = [answer EXCEPT ![r] = None]
  /\ prev' = IF r \in Settings THEN None ELSE prev

\* The reply of a load or of a dedicated setter becomes the copy.
Adopts(r) ==
  /\ Answered(r) /\ answer[r] # Failed
  /\ r \in Dedicated \cup {Mount} \/ step[r] = "rereading"
  /\ front' = answer[r]
  /\ Ends(r)
  /\ UNCHANGED <<fileVars, threadVars, ipc, up, historyVars, drift, mishaps>>

\* A commit that was written needs nothing; nor does a failure of a dedicated
\* setter, or of a quick commit, whose copy stays as it is.
Settles(r) ==
  /\ Answered(r)
  /\ \/ r \in Commits /\ answer[r] # Failed /\ step[r] # "rereading"
     \/ r \in Dedicated \cup Quick /\ answer[r] = Failed
  /\ Ends(r)
  /\ drift' = (drift \/ (r \in Quick /\ answer[r] = Failed))
  /\ UNCHANGED <<fileVars, threadVars, ipc, up, front, historyVars, mishaps>>

\* Mutant of Reverts: the copy stays as it is.
RevertsNothing(r) ==
  /\ r \in Settings /\ Answered(r) /\ answer[r] = Failed /\ step[r] = "sent"
  /\ Ends(r)
  /\ UNCHANGED <<fileVars, threadVars, ipc, up, front, historyVars, drift, mishaps>>

\* A settings commit that failed writes the old document back; when that fails
\* too, the copy is read anew.
Reverts(r) ==
  /\ r \in Settings /\ Answered(r) /\ answer[r] = Failed /\ step[r] = "sent"
  /\ front' = prev
  /\ step' = [step EXCEPT ![r] = "reverting"]
  /\ Sends(r, "store", prev)
  /\ UNCHANGED <<fileVars, threadVars, up, prev, historyVars, drift, mishaps>>

Rereads(r) ==
  /\ r \in Settings /\ Answered(r) /\ answer[r] = Failed /\ step[r] = "reverting"
  /\ step' = [step EXCEPT ![r] = "rereading"]
  /\ Sends(r, "load", Defaults)
  /\ drift' = (drift \/ Outstanding # {r})
  /\ UNCHANGED <<fileVars, threadVars, up, front, prev, historyVars, mishaps>>

----------------------------------------------------------------------------
(* The environment.                                                        *)

\* The user edits the file by hand, or another version wrote it: it does not
\* parse any more, or it has a value that no write would have let pass.
HandEdit ==
  /\ mishaps > 0 /\ disk # None /\ lock = None
  /\ mishaps' = mishaps - 1 /\ edited' = TRUE /\ drift' = TRUE
  /\ \/ content' = [content EXCEPT ![disk] = Broken]
     \/ /\ Held \in Configs
        /\ \E s \in Spoilt : content' = [content EXCEPT ![disk] = [Held EXCEPT ![s] = Raw]]
  /\ UNCHANGED <<disk, tmp, legacy, threadVars, ipc, up, windowVars, endpoint, faulty>>

\* The application dies and is launched again; what was under way is gone.
Crash ==
  /\ mishaps > 0
  /\ mishaps' = mishaps - 1
  /\ lock' = None /\ job' = NoJob /\ ipc' = Setup /\ up' = FALSE
  /\ pc' = [t \in Threads |-> IF t = Main \/ pc[t] = "idle" THEN "idle" ELSE "done"]
  /\ doc' = [t \in Threads |-> Defaults] /\ seeding' = [t \in Threads |-> FALSE]
  /\ fd' = [t \in Threads |-> None]
  /\ front' = None /\ prev' = None /\ drift' = FALSE
  /\ step' = [r \in Window |-> IF r = Mount \/ step[r] = "idle" THEN "idle" ELSE "done"]
  /\ answer' = [r \in Window |-> None]
  /\ UNCHANGED <<fileVars, historyVars>>

Backend(t) ==
  \/ Locks(t) \/ Loads(t) \/ ReadForWrite(t) \/ Fetches(t) \/ ChangesNothing(t)
  \/ Creates(t) \/ Fills(t) \/ Renames(t) \/ WriteFails(t) \/ Clears(t)

Next ==
  \/ MainTakes \/ Mounts \/ HandEdit \/ Crash
  \/ \E t \in Threads : WorkerStarts(t) \/ Backend(t)
  \/ \E r \in Window : Asks(r) \/ Commit(r) \/ Adopts(r) \/ Settles(r) \/ Reverts(r) \/ Rereads(r)

Spec == Init /\ [][Next]_vars

----------------------------------------------------------------------------
TypeOK ==
  /\ disk \in Inodes \cup {None} /\ tmp \in Inodes \cup {None}
  /\ content \in [Inodes -> Configs \cup {Torn, Broken}]
  /\ legacy \in BOOLEAN /\ endpoint \in BOOLEAN /\ up \in BOOLEAN /\ drift \in BOOLEAN
  /\ lock \in Threads \cup {None}
  /\ pc \in [Threads -> {"idle", "lock", "look", "read", "fetch", "change", "create",
                         "fill", "rename", "clear", "done"}]
  /\ doc \in [Threads -> Configs] /\ seeding \in [Threads -> BOOLEAN]
  /\ fd \in [Threads -> Inodes \cup {None}]
  /\ front \in Configs \cup {None} /\ prev \in Configs \cup {None}
  /\ step \in [Window -> {"idle", "sent", "reverting", "rereading", "done"}]
  /\ answer \in [Window -> Configs \cup {None, Failed}]
  /\ edited \in BOOLEAN /\ faulty \in BOOLEAN /\ mishaps \in 0 .. MaxMishaps

\* t puts its document in the place of the file.
Lands(t, kind) ==
  pc[t] = "rename" /\ pc'[t] # "rename" /\ tmp # None /\ tmp' = None
  /\ JobOf(t).kind = kind /\ ~seeding[t]

KeepsSiblings(t) ==
  disk # None => \A s \in Sections \ {Section(JobOf(t).by)} : Held'[s] = Repair(Held[s])

(* No setter loses the update of another one, or of a commit: what it puts *)
(* on disk differs from what was there in its own section only, but for    *)
(* the repair of what was written by hand (provider/live_config.rs,        *)
(* write_lock and store_inner).                                            *)
SettersKeepSiblings == [][\A t \in Threads : Lands(t, "set") => KeepsSiblings(t)]_vars

(* A commit sends the window's whole copy.  "a commit always reads the     *)
(* true current config" (SettingsView.tsx): it changes nothing but its own *)
(* section.                                                                *)
CommitsKeepSiblings ==
  [][\A t \in Threads :
        Lands(t, "store") /\ step[JobOf(t).by] = "sent" => KeepsSiblings(t)]_vars

(* Nobody ever finds a half-written file, crashes included                 *)
(* (persistence/io.rs: temp file, fsync, rename).                          *)
NeverTorn == Held # Torn

(* The endpoint of an installation from before the file survives the move, *)
(* crashes included: the blob goes only once the file carries it.          *)
EndpointSurvives ==
  endpoint => legacy \/ Held["provider"] \in {Legacy, "broken"} \/ edited

(* When every request has been answered the settings view shows what is    *)
(* stored up to the repair of malformed values, whichever writes failed    *)
(* (SettingsView.tsx, commitWithRevert), unless the file or the copy was   *)
(* changed behind the other's back: what it would send next is stored as   *)
(* what is there already.                                                  *)
Quiet == up /\ front # None /\ Outstanding = {} /\ ipc = <<>> /\ pc[Main] = "idle"
ViewShowsDisk == Quiet /\ ~drift => Normalize(front) = Normalize(Readable)

(* "restore the previous config in React state + disk so the UI never      *)
(* diverges from what is stored" (SettingsView.tsx, commitWithRevert).     *)
(* False with no failure at all: commitAppConfig keeps the document it     *)
(* sent and drops the normalized one that store returned.                  *)
ViewIsStored == Quiet /\ ~drift => front = Readable
=============================================================================
