-------------------------- MODULE ConfigStore_proofs --------------------------
(***************************************************************************)
(* Proofs about the app-config file and its writers (ConfigStore), for any *)
(* workers, reads, requests of the window and mishaps.  One hypothesis:    *)
(* writes do not fail while there is a legacy blob to move.  A read that   *)
(* fails to seed the file holds no lock and is retried by the next one, so *)
(* without it two threads may fill the same temp file.                     *)
(*                                                                         *)
(* The invariant says whose the temp file is, what a setter has read, what *)
(* carries the endpoint, which requests are under way and what the window  *)
(* may conclude from an answer.                                            *)
(***************************************************************************)
EXTENDS ConfigStore, FiniteSetTheorems, SequenceTheorems, TLAPS

Requests == [kind : {"load", "set", "store"}, by : Window \cup {Boot, Scan},
             doc : Configs]

QueueOK == job \in Requests \cup {NoJob} /\ ipc \in Seq(Requests)

\* Who asks for what: the setup and the window's requests, each once at a time.
Shape(q) ==
  /\ q.kind = "set" <=> q.by \in Dedicated \cup {Scan}
  /\ q.kind = "store" => q.by \in Commits
  /\ q.by \in Quick => q.kind = "store"

Inside == {"read", "fetch", "change", "create", "fill", "rename", "clear"}

\* The main thread works on a request exactly when it is not idle.
JobInv ==
  /\ pc[Main] = "idle" <=> job = NoJob
  /\ pc[Main] # "done"
  /\ pc[Main] # "idle" => Shape(job)
  /\ \A i \in DOMAIN ipc : Shape(ipc[i])

\* What each kind of operation goes through.
KindInv ==
  \A t \in Threads :
    /\ JobOf(t).kind = "load" =>
         pc[t] \in {"idle", "look", "fetch", "create", "fill", "rename",
                    "clear", "done"}
    /\ JobOf(t).kind = "set" => pc[t] \notin {"look", "create", "clear"}
    /\ JobOf(t).kind = "store" =>
         pc[t] \in {"idle", "lock", "create", "fill", "rename", "done"}
    /\ seeding[t] => pc[t] \in {"create", "fill", "rename", "clear"}
    /\ pc[t] = "clear" => seeding[t]

\* The lock belongs to the setter or the commit that is inside.
LockInv ==
  \A t \in Threads : lock = t <=> JobOf(t).kind # "load" /\ pc[t] \in Inside

\* The setup comes first and alone: its read, then its scan.
StartInv ==
  ~up =>
    /\ \A t \in Threads \ {Main} : pc[t] \in {"idle", "done"}
    /\ \/ ipc = Setup /\ pc[Main] = "idle"
       \/ ipc = Tail(Setup) /\ pc[Main] = "idle"
       \/ ipc = Tail(Setup) /\ pc[Main] # "idle" /\ job = Setup[1]
       \/ ipc = <<>> /\ pc[Main] # "idle" /\ job = Setup[2]
    /\ front = None /\ Outstanding = {}
UpInv ==
  up => /\ \A i \in DOMAIN ipc : ipc[i].by \in Window
        /\ pc[Main] # "idle" => job.by \in Window

\* A read seeds the file during the setup only, from the blob, and nothing that
\* could fail comes between.
SeedInv ==
  \A t \in Threads :
    /\ JobOf(t).kind = "load" /\ pc[t] \in {"create", "fill", "rename", "clear"} =>
         t = Main /\ ~up /\ seeding[t]
    /\ seeding[t] => t = Main /\ ~up /\ job.kind = "load" /\ legacy
LegacyInv ==
  legacy =>
    /\ ~faulty
    /\ disk = None =>
         ~up /\ (ipc = Setup \/ (ipc = Tail(Setup) /\ pc[Main] # "idle"))
    /\ \A t \in Threads : pc[t] = "fetch" => ~up /\ disk = None
SetupInv == StartInv /\ UpInv /\ SeedInv /\ LegacyInv

\* The temp file is its writer's, and it is not the file.
FileInv ==
  /\ tmp # None => tmp # disk
  /\ disk # None => content[disk] \in Configs \cup {Broken}
  /\ \A t \in Threads :
       /\ fd[t] # None => pc[t] = "fill"
       /\ pc[t] = "fill" => fd[t] = tmp /\ tmp # None
       /\ pc[t] = "rename" => tmp # None /\ content[tmp] = doc[t]
       /\ pc[t] = "clear" => disk # None

\* What a setter has read is what is there, but for what the writing repairs.
SetterInv ==
  \A t \in Threads : JobOf(t).kind = "set" =>
    /\ pc[t] = "fetch" => disk = None
    /\ pc[t] = "change" /\ disk # None =>
         \A s \in Sections : Repair(doc[t][s]) = Repair(content[disk][s])
    /\ pc[t] \in {"fill", "rename"} /\ disk # None =>
         \A s \in Sections \ {Section(JobOf(t).by)} :
           doc[t][s] = Repair(content[disk][s])

\* Every copy of the document carries the endpoint.
Carries(d) == d \in Configs => d["provider"] = Legacy
InFile   == disk # None => content[disk] \in Configs /\ Carries(content[disk])
InMemory ==
  \A t \in Threads :
    /\ pc[t] \in {"change", "create", "fill", "rename", "clear"} => Carries(doc[t])
    /\ pc[t] = "lock" /\ JobOf(t).kind = "store" => Carries(doc[t])
    /\ pc[t] = "fetch" => disk = None
InQueue  == \A i \in DOMAIN ipc : ipc[i].kind = "store" => Carries(ipc[i].doc)
InWindow == Carries(front) /\ Carries(prev) /\ \A r \in Window : Carries(answer[r])
CopiesInv == endpoint /\ ~edited => InFile /\ InMemory /\ InQueue /\ InWindow
BlobInv   == endpoint /\ disk = None => legacy
EndpointInv == BlobInv /\ CopiesInv

\* A request is under way while the window waits for its answer.
Awaited(q) ==
  q.by \in Window =>
    /\ q.by \in Outstanding /\ answer[q.by] = None
    /\ q.kind = "load" <=> q.by = Mount \/ step[q.by] = "rereading"
PendingInv ==
  /\ pc[Main] # "idle" => Awaited(job)
  /\ \A i \in DOMAIN ipc :
       /\ Awaited(ipc[i])
       /\ pc[Main] # "idle" => ipc[i].by # job.by
       /\ \A j \in DOMAIN ipc : ipc[i].by = ipc[j].by => i = j
WindowInv ==
  /\ Mount \in Outstanding => front = None
  /\ front = None => Outstanding \subseteq {Mount}
  /\ step[Mount] = "idle" => front = None
  /\ \A r \in Window : step[r] \in {"reverting", "rereading"} => r \in Settings
  /\ \A r, q \in Settings \cap Outstanding : r = q
  /\ \A r \in Settings : step[r] \in {"sent", "reverting"} => prev # None
RequestInv == PendingInv /\ WindowInv

\* The last store carries the window's copy; when nothing is under way and no
\* commit has failed, the copy or the answer about to replace it is the file.
\* All this up to the repair of malformed values, which only the file has seen.
Same(a, b) == Normalize(a) = Normalize(b)
Sole(r) == r \in Outstanding /\ (r \in Dedicated \cup {Mount} \/ step[r] = "rereading")
Under == pc[Main] # "idle" \/ ipc # <<>>
LastStore == ipc # <<>> /\ ipc[Len(ipc)].kind = "store" => ipc[Len(ipc)].doc = front
RunningStore ==
  ipc = <<>> /\ pc[Main] # "idle" /\ job.kind = "store" => Same(doc[Main], front)
SoleInv ==
  \A r \in Window : Sole(r) =>
    /\ Outstanding = {r}
    /\ answer[r] \in Configs => Same(answer[r], Readable)
    /\ r \in Dedicated /\ answer[r] \notin Configs => Same(front, Readable)
SettledInv ==
  ~Under /\ front # None /\ (\A r \in Window : ~Sole(r))
         /\ (\A r \in Commits \cap Outstanding : answer[r] # Failed) =>
    Same(front, Readable)
FetchInv == pc[Main] = "fetch" => disk = None
ViewInv ==
  up /\ ~drift => LastStore /\ RunningStore /\ SoleInv /\ SettledInv /\ FetchInv

-----------------------------------------------------------------------------

\* Threads and requests have names of their own.
LEMMA NameFacts ==
  /\ Main \in Threads /\ Main \notin Posts \cup Reads
  /\ Posts \cap Reads = {} /\ None \notin Threads
  /\ Dedicated \cap Commits = {} /\ Settings \cap Quick = {}
  /\ Mount \notin Dedicated \cup Commits
  /\ {Boot, Scan} \cap Window = {} /\ Window \cap (Posts \cup Reads) = {}
BY NameAssumption DEF Threads, Names, Main, Boot, Scan, Mount, Window, Commits,
   Default, Legacy

\* Every writer has a section; none of them writes the provider's.
LEMMA SectionFacts ==
  ASSUME NEW r \in Setters \cup Commits
  PROVE  Section(r) \in Sections \ {"provider"}
<1>1. CASE r \in Posts
  BY <1>1 DEF Section, Sections
<1>2. CASE r \in Dedicated
  BY <1>2, NameAssumption DEF Section, Sections
<1>3. CASE r = Scan
  BY <1>3, NameAssumption DEF Section, Sections, Names, Scan
<1>4. CASE r \in Settings
  BY <1>4, NameAssumption DEF Section, Sections, Names, Scan
<1>5. CASE r \in Quick
  BY <1>5, NameAssumption DEF Section, Sections, Names, Scan
<1> QED
  BY <1>1, <1>2, <1>3, <1>4, <1>5 DEF Setters, Commits

\* Documents, and what is not one: a torn or broken file, no answer, a failure.
LEMMA ConfigFacts ==
  /\ Defaults \in Configs /\ Seed \in Configs /\ Seed["provider"] = Legacy
  /\ Torn \notin Configs /\ Broken \notin Configs /\ Torn # Broken
  /\ None \notin Configs /\ Failed \notin Configs /\ None # Failed
<1>1. "provider" \in Sections
  BY DEF Sections
<1>2. Default \in Values /\ Legacy \in Values
  BY DEF Values
<1>3. Defaults \in Configs
  BY <1>2 DEF Defaults, Configs
<1>4. Seed \in Configs /\ Seed["provider"] = Legacy
  BY <1>1, <1>2 DEF Seed, Defaults, Configs
<1>5. "torn" \notin Values /\ "broken" \notin Values
  BY NameAssumption DEF Values, Names, Setters, Commits, Default, Legacy, Raw,
     Repaired, Scan
<1>6. Torn["provider"] = "torn" /\ Broken["provider"] = "broken"
  BY <1>1 DEF Torn, Broken
<1>7. Torn \notin Configs /\ Broken \notin Configs /\ Torn # Broken
  BY <1>1, <1>5, <1>6 DEF Configs
<1> QED
  BY <1>3, <1>4, <1>7, NameAssumption

\* A change of one section leaves the others, the provider's among them.
LEMMA ChangeFacts ==
  ASSUME NEW d \in Configs, NEW r \in Setters \cup Commits
  PROVE  /\ [d EXCEPT ![Section(r)] = r] \in Configs
         /\ [d EXCEPT ![Section(r)] = r]["provider"] = d["provider"]
         /\ \A s \in Sections \ {Section(r)} :
              [d EXCEPT ![Section(r)] = r][s] = d[s]
<1>1. "provider" \in Sections
  BY DEF Sections
<1> QED
  BY <1>1, SectionFacts DEF Configs, Values

\* A hand may spoil a section: the document remains one.
LEMMA SpoilFacts ==
  ASSUME NEW d \in Configs, NEW s PROVE [d EXCEPT ![s] = Raw] \in Configs
BY DEF Configs, Values

\* A repaired value needs no repair; the defaults and the endpoint never do.
LEMMA RepairFacts ==
  /\ \A v \in Values : Repair(v) \in Values /\ Repair(Repair(v)) = Repair(v)
  /\ Repair(Default) = Default /\ Repair(Legacy) = Legacy
<1>1. Malformed \cap {Default, Legacy, Repaired} = {}
  BY NameAssumption DEF Names, Commits
<1>2. {Default, Legacy, Repaired} \cap {Raw} = {}
  BY DEF Default, Legacy, Repaired, Raw
<1> QED
  BY <1>1, <1>2 DEF Repair, Values

\* What a write and a read repair (normalize, sanitize).
LEMMA NormalFacts ==
  ASSUME NEW d \in Configs
  PROVE  /\ Normalize(d) \in Configs /\ Sanitize(d) \in Configs
         /\ \A s \in Sections : /\ Normalize(d)[s] = Repair(d[s])
                                /\ Repair(Sanitize(d)[s]) = Repair(d[s])
         /\ Same(Normalize(d), d) /\ Same(Sanitize(d), d)
         /\ Sanitize(d)["provider"] = d["provider"]
<1>1. \A s \in Sections : d[s] \in Values
  BY DEF Configs
<1>2. /\ Normalize(d) \in Configs
      /\ \A s \in Sections : Normalize(d)[s] = Repair(d[s])
  BY <1>1, RepairFacts DEF Normalize, Configs
<1>3. /\ Sanitize(d) \in Configs
      /\ \A s \in Sections :
           Sanitize(d)[s] = IF s = "engine" THEN Repair(d[s]) ELSE d[s]
  BY <1>1, RepairFacts DEF Sanitize, Configs
<1>4. \A s \in Sections : Repair(Sanitize(d)[s]) = Repair(d[s])
  BY <1>1, <1>3, RepairFacts
<1>5. \A s \in Sections : Repair(Normalize(d)[s]) = Repair(d[s])
  BY <1>1, <1>2, RepairFacts
<1>6. Same(Normalize(d), d)
  BY <1>5 DEF Same, Normalize
<1>7. Same(Sanitize(d), d)
  BY <1>4 DEF Same, Normalize
<1>8. Sanitize(d)["provider"] = d["provider"]
  BY <1>3 DEF Sections
<1> QED
  BY <1>2, <1>3, <1>4, <1>6, <1>7, <1>8

\* The defaults read as they are.
LEMMA DefaultsFacts == Sanitize(Defaults) = Defaults
BY RepairFacts DEF Sanitize, Defaults

\* There is room for a temp file beside the file (Inodes).
LEMMA InodeFacts == Inodes \subseteq Nat /\ {1, 2} \subseteq Inodes
<1>1. Cardinality(Threads) \in Nat
  <2>1. IsFiniteSet({Main})
    BY FS_Singleton
  <2>2. IsFiniteSet(Posts \cup Reads)
    BY NameAssumption, FS_Union
  <2>3. IsFiniteSet({Main} \cup (Posts \cup Reads))
    BY <2>1, <2>2, FS_Union
  <2>4. {Main} \cup (Posts \cup Reads) = Threads
    BY DEF Threads
  <2> QED
    BY <2>3, <2>4, FS_CardinalityType
<1> QED
  BY <1>1 DEF Inodes

\* A write goes into a file that is not the target.
LEMMA TargetFacts ==
  ASSUME TypeOK, FileInv
  PROVE  Target \in Inodes /\ Target # disk /\ Target # None
<1>1. None \notin Inodes
  BY InodeFacts, NameAssumption
<1>2. CASE tmp # None
  BY <1>1, <1>2 DEF Target, FileInv, TypeOK
<1>3. CASE tmp = None
  <2>1. \A t \in Threads : fd[t] = None
    BY <1>3 DEF FileInv
  <2>2. {fd[t] : t \in Threads} \subseteq {None}
    BY <2>1
  <2>3. \E i \in Inodes : i \notin {disk, tmp} \cup {fd[t] : t \in Threads}
    BY <1>1, <1>3, <2>2, InodeFacts DEF TypeOK
  <2> QED
    BY <1>1, <1>3, <2>3 DEF Target, Free
<1> QED
  BY <1>2, <1>3

\* The parts of the types.
FilesOK ==
  /\ disk \in Inodes \cup {None} /\ tmp \in Inodes \cup {None}
  /\ content \in [Inodes -> Configs \cup {Torn, Broken}] /\ legacy \in BOOLEAN
ThreadsOK ==
  /\ lock \in Threads \cup {None}
  /\ pc \in [Threads -> {"idle", "lock", "look", "read", "fetch", "change",
                         "create", "fill", "rename", "clear", "done"}]
  /\ doc \in [Threads -> Configs] /\ seeding \in [Threads -> BOOLEAN]
  /\ fd \in [Threads -> Inodes \cup {None}]
WindowOK ==
  /\ front \in Configs \cup {None} /\ prev \in Configs \cup {None}
  /\ step \in [Window -> {"idle", "sent", "reverting", "rereading", "done"}]
  /\ answer \in [Window -> Configs \cup {None, Failed}]
HistoryOK ==
  /\ endpoint \in BOOLEAN /\ up \in BOOLEAN /\ drift \in BOOLEAN
  /\ edited \in BOOLEAN /\ faulty \in BOOLEAN /\ mishaps \in 0 .. MaxMishaps

\* The type invariant is the conjunction of its parts.
LEMMA TypeParts ==
  /\ TypeOK <=> FilesOK /\ ThreadsOK /\ WindowOK /\ HistoryOK
  /\ TypeOK' <=> FilesOK' /\ ThreadsOK' /\ WindowOK' /\ HistoryOK'
BY DEF TypeOK, FilesOK, ThreadsOK, WindowOK, HistoryOK

\* What an operation may return, and what it writes.
LEMMA ReadableFacts ==
  ASSUME FilesOK
  PROVE  Readable \in Configs /\ (Held \in Configs => Readable = Sanitize(Held))
         /\ (disk = None => Held = Defaults /\ Readable = Defaults)
BY ConfigFacts, NormalFacts, DefaultsFacts DEF Readable, Held

\* An edit by hand spoils the file and leaves the rest.
LEMMA HandFacts ==
  ASSUME FilesOK, HandEdit
  PROVE  /\ UNCHANGED <<disk, tmp, legacy, lock, pc, doc, seeding, fd, job, ipc, up>>
         /\ UNCHANGED <<front, prev, step, answer>>
         /\ disk # None /\ content'[disk] \in Configs \cup {Broken}
         /\ content' \in [Inodes -> Configs \cup {Torn, Broken}]
         /\ \A i \in Inodes \ {disk} : content'[i] = content[i]
<1>1. PICK d \in Configs \cup {Broken} : content' = [content EXCEPT ![disk] = d]
  BY SpoilFacts DEF HandEdit
<1> QED
  BY <1>1 DEF HandEdit, FilesOK, threadVars, windowVars

\* What a setter writes is what it read, repaired, but for its own section
\* (Creates).
LEMMA OutgoingFacts ==
  ASSUME ThreadsOK, QueueOK, JobInv, KindInv, NEW t \in Threads,
         pc[t] \in {"change", "create"}
  PROVE  /\ Outgoing(t) \in Configs
         /\ Outgoing(t)["provider"] = Repair(doc[t]["provider"])
         /\ pc[t] = "create" => Same(Outgoing(t), doc[t])
         /\ pc[t] = "change" => \A s \in Sections \ {Section(JobOf(t).by)} :
                                  Outgoing(t)[s] = Repair(doc[t][s])
<1>1. doc[t] \in Configs /\ "provider" \in Sections
  BY DEF ThreadsOK, Sections
<1>2. CASE pc[t] = "create"
  <2>1. Outgoing(t) = Normalize(doc[t])
    BY <1>2 DEF Outgoing
  <2> QED
    BY <1>1, <1>2, <2>1, NormalFacts
<1>3. CASE pc[t] = "change"
  <2>1. JobOf(t).by \in Setters \cup Commits
    <3>1. CASE t = Main
      BY <3>1, <1>3, NameFacts
         DEF JobInv, KindInv, Shape, QueueOK, Requests, NoJob, JobOf, Setters,
         Window
    <3>2. CASE t # Main
      BY <3>2, <1>3, NameFacts DEF KindInv, JobOf, Req, Threads, Setters
    <3> QED
      BY <3>1, <3>2
  <2> DEFINE d == [doc[t] EXCEPT ![Section(JobOf(t).by)] = JobOf(t).by]
  <2>2. /\ d \in Configs /\ d["provider"] = doc[t]["provider"]
        /\ \A s \in Sections \ {Section(JobOf(t).by)} : d[s] = doc[t][s]
    BY <1>1, <2>1, ChangeFacts
  <2>3. Outgoing(t) = Normalize(d)
    BY <1>3 DEF Outgoing
  <2> HIDE DEF d
  <2> QED
    BY <1>1, <1>3, <2>2, <2>3, NormalFacts
<1> QED
  BY <1>2, <1>3

\* An operation that returns keeps the types (Returns).
LEMMA ReturnsOK ==
  ASSUME ThreadsOK, WindowOK, QueueOK, NEW t \in Threads,
         NEW result \in Configs \cup {Failed}, Returns(t, result)
  PROVE  ThreadsOK' /\ WindowOK'
<1> USE NameFacts, ConfigFacts DEF Returns
<1>1. ThreadsOK'
  BY DEF ThreadsOK, Goes
<1>2. WindowOK'
  BY DEF WindowOK
<1> QED
  BY <1>1, <1>2

\* Every step keeps the types of the files.
LEMMA FilesType ==
  ASSUME FilesOK, ThreadsOK, WindowOK, HistoryOK, QueueOK, JobInv, KindInv,
         FileInv, Next
  PROVE  FilesOK'
<1> USE NameFacts, ConfigFacts DEF fileVars, threadVars, windowVars,
   historyVars, Goes
<1>0. TypeOK
  BY TypeParts
<1>1. ASSUME MainTakes \/ Mounts \/ HandEdit \/ Crash
      PROVE  FilesOK'
  <2>1. CASE HandEdit
    BY <2>1, HandFacts DEF FilesOK
  <2> QED
    BY <1>1, <2>1 DEF FilesOK, MainTakes, Mounts, Sends, Crash
<1>2. ASSUME NEW t \in Threads, WorkerStarts(t) \/ Locks(t) \/ Creates(t)
      PROVE  FilesOK'
  BY <1>2, <1>0, TargetFacts DEF FilesOK, WorkerStarts, Locks, Creates
<1>3. ASSUME NEW t \in Threads, Loads(t) \/ ReadForWrite(t) \/ Fetches(t)
             \/ ChangesNothing(t) \/ Renames(t) \/ WriteFails(t) \/ Clears(t)
      PROVE  FilesOK'
  BY <1>3 DEF FilesOK, Loads, Returns, ReadForWrite, Fetches, ChangesNothing,
     Renames, WriteFails, Clears
<1>4. ASSUME NEW t \in Threads, Fills(t) PROVE FilesOK'
  BY <1>4 DEF FilesOK, ThreadsOK, FileInv, Fills
<1>5. ASSUME NEW r \in Window, Asks(r) \/ Commit(r) \/ Adopts(r) \/ Settles(r)
             \/ Reverts(r) \/ Rereads(r)
      PROVE  FilesOK'
  BY <1>5 DEF FilesOK, Asks, Sends, Commit, Adopts, Answered, Ends, Settles,
     Reverts, Rereads
<1> HIDE DEF fileVars, threadVars, windowVars, historyVars, Goes
<1> QED
  BY <1>1, <1>2, <1>3, <1>4, <1>5 DEF Next, Backend

\* Every step keeps the types of the threads.
LEMMA ThreadsType ==
  ASSUME FilesOK, ThreadsOK, WindowOK, HistoryOK, QueueOK, JobInv, KindInv,
         FileInv, Next
  PROVE  ThreadsOK'
<1> USE NameFacts, ConfigFacts DEF fileVars, threadVars, windowVars,
   historyVars, Goes
<1>0. TypeOK
  BY TypeParts
<1>1. ASSUME MainTakes PROVE ThreadsOK'
  <2>1. Head(ipc) \in Requests
    BY <1>1 DEF MainTakes, QueueOK
  <2> QED
    BY <1>1, <2>1 DEF ThreadsOK, MainTakes, FirstStep, Requests
<1>2. ASSUME NEW t \in Threads, WorkerStarts(t) \/ Locks(t) \/ Fills(t)
      PROVE  ThreadsOK'
  BY <1>2, ReadableFacts, ReturnsOK DEF ThreadsOK, WorkerStarts, FirstStep,
     Locks, Fills
<1>3. ASSUME NEW t \in Threads, Loads(t) PROVE ThreadsOK'
  BY <1>3, ReadableFacts, ReturnsOK DEF ThreadsOK, Loads, Returns
<1>4. ASSUME NEW t \in Threads, ReadForWrite(t) PROVE ThreadsOK'
  BY <1>4, ReadableFacts, ReturnsOK DEF ThreadsOK, ReadForWrite, Returns
<1>5. ASSUME NEW t \in Threads, Fetches(t) PROVE ThreadsOK'
  <2>1. CASE legacy
    <3>1. /\ pc' = [pc EXCEPT ![t] = "create"] /\ doc' = [doc EXCEPT ![t] = Seed]
          /\ seeding' = [seeding EXCEPT ![t] = TRUE] /\ UNCHANGED <<lock, fd>>
      BY <1>5, <2>1 DEF Fetches
    <3> QED
      BY <3>1 DEF ThreadsOK
  <2>2. CASE ~legacy /\ JobOf(t).kind = "load"
    BY <1>5, <2>2, ReturnsOK DEF Fetches
  <2>3. CASE ~legacy /\ JobOf(t).kind # "load"
    BY <1>5, <2>3 DEF ThreadsOK, Fetches
  <2> QED
    BY <2>1, <2>2, <2>3
<1>6. ASSUME NEW t \in Threads, ChangesNothing(t) PROVE ThreadsOK'
  BY <1>6, ReadableFacts, ReturnsOK DEF ThreadsOK, ChangesNothing, Returns
<1>7. ASSUME NEW t \in Threads, Creates(t) PROVE ThreadsOK'
  <2>1. Outgoing(t) \in Configs /\ Target \in Inodes
    BY <1>7, <1>0, TargetFacts, OutgoingFacts DEF Creates
  <2> QED
    BY <1>7, <2>1 DEF ThreadsOK, Creates
<1>8. ASSUME NEW t \in Threads, Renames(t) PROVE ThreadsOK'
  BY <1>8, ReadableFacts, ReturnsOK DEF ThreadsOK, Renames, Returns
<1>9. ASSUME NEW t \in Threads, WriteFails(t) PROVE ThreadsOK'
  BY <1>9, ReadableFacts, ReturnsOK DEF ThreadsOK, WriteFails, Returns
<1>10. ASSUME NEW t \in Threads, Clears(t) PROVE ThreadsOK'
  BY <1>10, ReadableFacts, ReturnsOK DEF ThreadsOK, Clears, Returns
<1>11. ASSUME Mounts PROVE ThreadsOK'
  BY <1>11, ReadableFacts, ReturnsOK DEF ThreadsOK, Mounts, Sends
<1>12. ASSUME HandEdit PROVE ThreadsOK'
  BY <1>12, ReadableFacts, ReturnsOK DEF ThreadsOK, HandEdit
<1>13. ASSUME Crash PROVE ThreadsOK'
  BY <1>13, ReadableFacts, ReturnsOK DEF ThreadsOK, Crash
<1>14. ASSUME NEW r \in Window, Asks(r) \/ Commit(r) \/ Adopts(r)
             \/ Settles(r) \/ Reverts(r) \/ Rereads(r)
      PROVE  ThreadsOK'
  BY <1>14, ReadableFacts, ReturnsOK DEF ThreadsOK, Asks, Sends, Commit,
     Adopts, Answered, Ends, Settles, Reverts, Rereads
<1> HIDE DEF fileVars, threadVars, windowVars, historyVars, Goes
<1> QED
  BY <1>1, <1>2, <1>3, <1>4, <1>5, <1>6, <1>7, <1>8, <1>9, <1>10, <1>11, <1>12,
     <1>13, <1>14 DEF Next, Backend

\* Every step keeps the types of the window.
LEMMA WindowType ==
  ASSUME FilesOK, ThreadsOK, WindowOK, HistoryOK, QueueOK, JobInv, KindInv,
         FileInv, Next
  PROVE  WindowOK'
<1> USE NameFacts, ConfigFacts DEF fileVars, threadVars, windowVars,
   historyVars, Goes
<1>0. TypeOK
  BY TypeParts
<1>1. ASSUME MainTakes \/ Mounts \/ HandEdit \/ Crash
      PROVE  WindowOK'
  BY <1>1 DEF WindowOK, MainTakes, Mounts, Sends, HandEdit, Crash
<1>2. ASSUME NEW t \in Threads, WorkerStarts(t) \/ Locks(t) \/ Loads(t)
             \/ ReadForWrite(t) \/ Fetches(t) \/ ChangesNothing(t) \/ Creates(t)
             \/ Fills(t)
      PROVE  WindowOK'
  BY <1>2, ReturnsOK, ReadableFacts DEF WindowOK, WorkerStarts, Locks, Loads,
     Returns, ReadForWrite, Fetches, ChangesNothing, Creates, Fills
<1>3. ASSUME NEW t \in Threads, Renames(t) PROVE WindowOK'
  <2>1. CASE seeding[t]
    BY <1>3, <2>1 DEF WindowOK, Renames
  <2>2. CASE ~(seeding[t])
    BY <1>3, <2>2, ReturnsOK DEF ThreadsOK, Renames
  <2> QED
    BY <2>1, <2>2
<1>4. ASSUME NEW t \in Threads, WriteFails(t) PROVE WindowOK'
  <2>1. CASE seeding[t] /\ JobOf(t).kind = "set"
    BY <1>4, <2>1 DEF WindowOK, WriteFails
  <2>2. CASE ~(seeding[t] /\ JobOf(t).kind = "set")
    BY <1>4, <2>2, ReturnsOK DEF ThreadsOK, WriteFails
  <2> QED
    BY <2>1, <2>2
<1>5. ASSUME NEW t \in Threads, Clears(t) PROVE WindowOK'
  <2>1. CASE JobOf(t).kind # "load"
    BY <1>5, <2>1 DEF WindowOK, Clears
  <2>2. CASE ~(JobOf(t).kind # "load")
    BY <1>5, <2>2, ReturnsOK DEF ThreadsOK, Clears
  <2> QED
    BY <2>1, <2>2
<1>6. ASSUME NEW r \in Window, Asks(r) \/ Adopts(r) \/ Settles(r)
             \/ Reverts(r) \/ Rereads(r)
      PROVE  WindowOK'
  BY <1>6 DEF WindowOK, Asks, Sends, Adopts, Answered, Ends, Settles,
     Reverts, Rereads
<1>7. ASSUME NEW r \in Window, Commit(r) PROVE WindowOK'
  <2>1. r \in Setters \cup Commits /\ front \in Configs
    BY <1>7 DEF Commit, WindowOK
  <2>2. [front EXCEPT ![Section(r)] = r] \in Configs
    BY <2>1, ChangeFacts
  <2> QED
    BY <1>7, <2>2 DEF WindowOK, Commit, Sends
<1> HIDE DEF fileVars, threadVars, windowVars, historyVars, Goes
<1> QED
  BY <1>1, <1>2, <1>3, <1>4, <1>5, <1>6, <1>7 DEF Next, Backend

\* Every step keeps the types of the rest.
LEMMA HistoryType ==
  ASSUME FilesOK, ThreadsOK, WindowOK, HistoryOK, QueueOK, JobInv, KindInv,
         FileInv, Next
  PROVE  HistoryOK'
<1> USE NameFacts, ConfigFacts DEF fileVars, threadVars, windowVars,
   historyVars, Goes
<1>0. TypeOK
  BY TypeParts
<1>1. ASSUME MainTakes PROVE HistoryOK'
  BY <1>1 DEF HistoryOK, MainTakes
<1>2. ASSUME NEW t \in Threads, WorkerStarts(t) \/ Locks(t) \/ Loads(t)
             \/ ReadForWrite(t) \/ Fetches(t) \/ ChangesNothing(t) \/ Creates(t)
             \/ Fills(t) \/ Renames(t) \/ Clears(t)
      PROVE  HistoryOK'
  BY <1>2 DEF HistoryOK, WorkerStarts, Locks, Loads, Returns, ReadForWrite,
     Fetches, ChangesNothing, Creates, Fills, Renames, Clears
<1>3. ASSUME NEW t \in Threads, WriteFails(t) PROVE HistoryOK'
  <2>1. mishaps' \in 0 .. MaxMishaps
    BY <1>3, StoreAssumption DEF HistoryOK, WriteFails
  <2>2. up' \in BOOLEAN
    BY <1>3 DEF HistoryOK, WriteFails, Returns
  <2> QED
    BY <1>3, <2>1, <2>2 DEF HistoryOK, WriteFails, Returns
<1>4. ASSUME Mounts PROVE HistoryOK'
  BY <1>4 DEF HistoryOK, Mounts, Sends
<1>5. ASSUME HandEdit PROVE HistoryOK'
  BY <1>5, StoreAssumption DEF HistoryOK, HandEdit
<1>6. ASSUME Crash PROVE HistoryOK'
  <2>1. mishaps' \in 0 .. MaxMishaps
    BY <1>6, StoreAssumption DEF HistoryOK, Crash
  <2> QED
    BY <1>6, <2>1 DEF HistoryOK, Crash
<1>7. ASSUME NEW r \in Window, Asks(r) \/ Commit(r) \/ Adopts(r) \/ Settles(r)
             \/ Reverts(r) \/ Rereads(r)
      PROVE  HistoryOK'
  BY <1>7 DEF HistoryOK, Asks, Sends, Commit, Adopts, Answered, Ends,
     Settles, Reverts, Rereads
<1> HIDE DEF fileVars, threadVars, windowVars, historyVars, Goes
<1> QED
  BY <1>1, <1>2, <1>3, <1>4, <1>5, <1>6, <1>7 DEF Next, Backend

\* Every step keeps the type invariant.
LEMMA TypeStep ==
  ASSUME FilesOK, ThreadsOK, WindowOK, HistoryOK, QueueOK, JobInv, KindInv,
         FileInv, Next
  PROVE  TypeOK'
BY FilesType, ThreadsType, WindowType, HistoryType, TypeParts

\* Every step keeps the types of the job and of the queue.
LEMMA QueueStep ==
  ASSUME WindowOK, QueueOK, RequestInv, Next PROVE QueueOK'
<1> USE NameFacts, ConfigFacts DEF fileVars, threadVars, windowVars,
   historyVars, Goes
<1>1. ASSUME MainTakes PROVE QueueOK'
  <2>1. Head(ipc) \in Requests /\ Tail(ipc) \in Seq(Requests)
    BY <1>1 DEF MainTakes, QueueOK
  <2> QED
    BY <1>1, <2>1 DEF MainTakes, QueueOK
<1>2. ASSUME NEW t \in Threads, WorkerStarts(t) \/ Locks(t) \/ Loads(t)
             \/ ReadForWrite(t) \/ Fetches(t) \/ ChangesNothing(t) \/ Creates(t)
             \/ Fills(t) \/ Renames(t) \/ WriteFails(t) \/ Clears(t)
      PROVE  QueueOK'
  BY <1>2 DEF WorkerStarts, QueueOK, Locks, Loads, Returns, ReadForWrite,
     Fetches, ChangesNothing, Creates, Fills, Renames, WriteFails, Clears
<1>3. ASSUME Mounts PROVE QueueOK'
  <2>1. Defaults \in Configs
    BY <1>3 DEF Mounts, WindowOK, RequestInv, Answered, Commits
  <2>2. Req("load", Mount, Defaults) \in Requests
    BY <1>3, <2>1 DEF Mounts, Req, Requests, Window, Commits
  <2> QED
    BY <1>3, <2>2 DEF Mounts, Sends, QueueOK
<1>4. ASSUME HandEdit PROVE QueueOK'
  BY <1>4 DEF HandEdit, QueueOK
<1>5. ASSUME Crash PROVE QueueOK'
  <2>1. Setup \in Seq(Requests)
    BY DEF Setup, Req, Requests
  <2> QED
    BY <1>5, <2>1 DEF Crash, QueueOK
<1>6. ASSUME NEW r \in Window, Asks(r) PROVE QueueOK'
  <2>1. Defaults \in Configs
    BY <1>6 DEF Asks, WindowOK, RequestInv, Answered, Commits
  <2>2. Req("set", r, Defaults) \in Requests
    BY <1>6, <2>1 DEF Asks, Req, Requests, Window, Commits
  <2> QED
    BY <1>6, <2>2 DEF Asks, Sends, QueueOK
<1>7. ASSUME NEW r \in Window, Commit(r) PROVE QueueOK'
  <2>1. [front EXCEPT ![Section(r)] = r] \in Configs
    BY <1>7, ChangeFacts DEF Commit, WindowOK, RequestInv, Answered, Commits
  <2>2. Req("store", r, [front EXCEPT ![Section(r)] = r]) \in Requests
    BY <1>7, <2>1 DEF Commit, Req, Requests, Window, Commits
  <2> QED
    BY <1>7, <2>2 DEF Commit, Sends, QueueOK
<1>8. ASSUME NEW r \in Window, Adopts(r) \/ Settles(r)
      PROVE  QueueOK'
  BY <1>8 DEF Adopts, Answered, Ends, QueueOK, Settles
<1>9. ASSUME NEW r \in Window, Reverts(r) PROVE QueueOK'
  <2>1. prev \in Configs
    BY <1>9 DEF Reverts, WindowOK, RequestInv, WindowInv, Answered, Commits
  <2>2. Req("store", r, prev) \in Requests
    BY <1>9, <2>1 DEF Reverts, Req, Requests, Window, Commits
  <2> QED
    BY <1>9, <2>2 DEF Reverts, Sends, QueueOK
<1>10. ASSUME NEW r \in Window, Rereads(r) PROVE QueueOK'
  <2>1. Defaults \in Configs
    BY <1>10 DEF Rereads, WindowOK, RequestInv, Answered, Commits
  <2>2. Req("load", r, Defaults) \in Requests
    BY <1>10, <2>1 DEF Rereads, Req, Requests, Window, Commits
  <2> QED
    BY <1>10, <2>2 DEF Rereads, Sends, QueueOK
<1> HIDE DEF fileVars, threadVars, windowVars, historyVars, Goes
<1> QED
  BY <1>1, <1>2, <1>3, <1>4, <1>5, <1>6, <1>7, <1>8, <1>9, <1>10 DEF Next,
     Backend

\* Where the elements of a queue come from when a request joins or leaves it.
LEMMA AppendFacts ==
  ASSUME NEW S, NEW q \in Seq(S), NEW x \in S
  PROVE  /\ Append(q, x) \in Seq(S) /\ Len(Append(q, x)) = Len(q) + 1
         /\ Append(q, x) # <<>> /\ Append(q, x)[Len(Append(q, x))] = x
         /\ DOMAIN q = 1 .. Len(q) /\ Len(q) \in Nat
         /\ \A i \in DOMAIN Append(q, x) :
              \/ i \in DOMAIN q /\ i # Len(q) + 1 /\ Append(q, x)[i] = q[i]
              \/ i = Len(q) + 1 /\ Append(q, x)[i] = x
OBVIOUS

\* Where the elements of a queue come from when its first request leaves it.
LEMMA TailFacts ==
  ASSUME NEW S, NEW q \in Seq(S), q # <<>>
  PROVE  /\ Head(q) = q[1] /\ Head(q) \in S /\ 1 \in DOMAIN q
         /\ Tail(q) \in Seq(S)
         /\ \A i \in DOMAIN Tail(q) :
              /\ i \in Nat /\ i + 1 \in DOMAIN q /\ Tail(q)[i] = q[i + 1]
              /\ i + 1 # 1
         /\ Tail(q) # <<>> => /\ Tail(q)[Len(Tail(q))] = q[Len(q)]
                              /\ Len(Tail(q)) \in DOMAIN Tail(q)
         /\ Tail(q) = <<>> => Len(q) = 1
<1>1. /\ Head(q) = q[1] /\ Head(q) \in S /\ 1 \in DOMAIN q
      /\ Tail(q) \in Seq(S) /\ Len(Tail(q)) = Len(q) - 1
      /\ Len(q) \in Nat /\ Len(q) > 0 /\ DOMAIN q = 1 .. Len(q)
      /\ DOMAIN Tail(q) = 1 .. Len(q) - 1
  OBVIOUS
<1>2. \A i \in 1 .. Len(q) - 1 : Tail(q)[i] = q[i + 1]
  OBVIOUS
<1>3. Tail(q) = <<>> <=> Len(q) = 1
  <2>1. Tail(q) = <<>> <=> Len(Tail(q)) = 0
    BY <1>1, EmptySeq
  <2> QED
    BY <1>1, <2>1
<1>4. \A i \in DOMAIN Tail(q) :
        i \in Nat /\ i + 1 \in DOMAIN q /\ Tail(q)[i] = q[i + 1] /\ i + 1 # 1
  BY <1>1, <1>2
<1>5. ASSUME Tail(q) # <<>>
      PROVE  /\ Tail(q)[Len(Tail(q))] = q[Len(q)]
             /\ Len(Tail(q)) \in DOMAIN Tail(q)
  <2>1. Len(q) - 1 \in 1 .. Len(q) - 1 /\ (Len(q) - 1) + 1 = Len(q)
    BY <1>1, <1>3, <1>5
  <2> QED
    BY <2>1, <1>1, <1>2
<1> QED
  BY <1>1, <1>3, <1>4, <1>5

\* The requests of the setup.
LEMMA SetupFacts ==
  /\ Setup \in Seq(Requests) /\ Setup # <<>> /\ Tail(Setup) # <<>>
  /\ Head(Setup) = Setup[1] /\ Head(Tail(Setup)) = Setup[2]
  /\ Tail(Tail(Setup)) = <<>>
  /\ Setup[1] = Req("load", Boot, Defaults) /\ Setup[2] = Req("set", Scan, Defaults)
  /\ \A i \in DOMAIN Setup : Setup[i] \in {Setup[1], Setup[2]}
  /\ \A i \in DOMAIN Tail(Setup) : Tail(Setup)[i] = Setup[2]
BY ConfigFacts DEF Setup, Req, Requests

\* A request that the window sends.
LEMMA SentFacts ==
  ASSUME WindowOK, RequestInv, NEW r \in Window
  PROVE  /\ Req("load", Mount, Defaults) \in Requests
         /\ Shape(Req("load", Mount, Defaults))
         /\ r \in Dedicated => /\ Req("set", r, Defaults) \in Requests
                               /\ Shape(Req("set", r, Defaults))
         /\ r \in Commits => \A d \in Configs : /\ Req("store", r, d) \in Requests
                                                /\ Shape(Req("store", r, d))
         /\ r \in Settings => /\ Req("load", r, Defaults) \in Requests
                              /\ Shape(Req("load", r, Defaults))
<1> USE NameFacts, ConfigFacts DEF Req, Requests, Shape, Window, Commits
<1>1. Scan # Mount /\ Scan \notin Dedicated /\ Scan \notin Settings /\ Scan \notin Quick
  OBVIOUS
<1> QED
  BY <1>1

\* What a thread that is not idle works on.
LEMMA JobFacts ==
  ASSUME QueueOK, JobInv, NEW t \in Threads, pc[t] # "idle"
  PROVE  /\ JobOf(t).kind \in {"load", "set", "store"} /\ JobOf(t).doc \in Configs
         /\ t = Main => /\ JobOf(t) = job /\ job \in Requests /\ Shape(job)
                        /\ JobOf(t).by \in Window \cup {Boot, Scan}
         /\ t # Main => /\ t \in Posts \cup Reads
                        /\ JobOf(t).by = t /\ t \notin Window \cup {Boot, Scan}
                        /\ JobOf(t).kind = IF t \in Posts THEN "set" ELSE "load"
<1>1. CASE t = Main
  BY <1>1, NameFacts DEF JobInv, QueueOK, NoJob, JobOf, Requests
<1>2. CASE t # Main
  <2>1. t \in Posts \cup Reads /\ t \notin Window \cup {Boot, Scan}
    BY <1>2, NameAssumption DEF Threads, Names, Window, Commits, Boot, Scan,
       Mount
  <2> QED
    BY <1>2, <2>1, NameFacts, ConfigFacts DEF JobOf, Req
<1> QED
  BY <1>1, <1>2

\* Every step keeps the main thread's job and the shape of its requests.
LEMMA JobStep ==
  ASSUME ThreadsOK, WindowOK, QueueOK, JobInv, RequestInv, Next PROVE JobInv'
<1> USE NameFacts DEF fileVars, threadVars, windowVars, historyVars, Goes,
   ThreadsOK, QueueOK, JobInv, Requests, Shape, NoJob
<1>1. ASSUME MainTakes PROVE JobInv'
  BY <1>1 DEF MainTakes, FirstStep
<1>2. ASSUME NEW t \in Threads, WorkerStarts(t) \/ Locks(t) \/ Loads(t)
             \/ ReadForWrite(t) \/ Fetches(t) \/ ChangesNothing(t) \/ Creates(t)
             \/ Fills(t) \/ Renames(t) \/ WriteFails(t) \/ Clears(t)
      PROVE  JobInv'
  BY <1>2 DEF WorkerStarts, FirstStep, Locks, Loads, Returns, ReadForWrite,
     Fetches, ChangesNothing, Creates, Fills, Renames, WriteFails, Clears
<1>3. ASSUME Mounts PROVE JobInv'
  <2>1. Req("load", Mount, Defaults) \in Requests /\ Shape(Req("load", Mount, Defaults))
    BY <1>3, SentFacts, NameFacts DEF Mounts, Window
  <2>2. /\ ipc' = Append(ipc, Req("load", Mount, Defaults))
        /\ pc' = pc /\ job' = job
    BY <1>3 DEF Mounts, Sends
  <2>3. ipc \in Seq(Requests)
    OBVIOUS
  <2>4. \A i \in DOMAIN ipc' : Shape(ipc'[i])
    BY <2>1, <2>2, <2>3, AppendFacts
  <2> QED
    BY <2>2, <2>4
<1>4. ASSUME HandEdit PROVE JobInv'
  BY <1>4 DEF HandEdit
<1>5. ASSUME Crash PROVE JobInv'
  <2>1. \A i \in DOMAIN Setup : Shape(Setup[i])
    BY SetupFacts, NameFacts DEF Req, Boot, Scan, Window, Commits
  <2> QED
    BY <1>5, <2>1 DEF Crash
<1>6. ASSUME NEW r \in Window, Asks(r) PROVE JobInv'
  <2>1. Req("set", r, Defaults) \in Requests /\ Shape(Req("set", r, Defaults))
    BY <1>6, SentFacts DEF Asks
  <2>2. /\ ipc' = Append(ipc, Req("set", r, Defaults))
        /\ pc' = pc /\ job' = job
    BY <1>6 DEF Asks, Sends
  <2>3. ipc \in Seq(Requests)
    OBVIOUS
  <2>4. \A i \in DOMAIN ipc' : Shape(ipc'[i])
    BY <2>1, <2>2, <2>3, AppendFacts
  <2> QED
    BY <2>2, <2>4
<1>7. ASSUME NEW r \in Window, Commit(r) PROVE JobInv'
  <2>0. [front EXCEPT ![Section(r)] = r] \in Configs
    BY <1>7, ChangeFacts DEF Commit, WindowOK
  <2>1. Req("store", r, [front EXCEPT ![Section(r)] = r]) \in Requests /\ Shape(Req("store", r, [front EXCEPT ![Section(r)] = r]))
    BY <1>7, SentFacts, <2>0 DEF Commit
  <2>2. /\ ipc' = Append(ipc, Req("store", r, [front EXCEPT ![Section(r)] = r]))
        /\ pc' = pc /\ job' = job
    BY <1>7 DEF Commit, Sends
  <2>3. ipc \in Seq(Requests)
    OBVIOUS
  <2>4. \A i \in DOMAIN ipc' : Shape(ipc'[i])
    BY <2>1, <2>2, <2>3, AppendFacts
  <2> QED
    BY <2>2, <2>4
<1>8. ASSUME NEW r \in Window, Adopts(r) \/ Settles(r)
      PROVE  JobInv'
  BY <1>8 DEF Adopts, Answered, Ends, Settles
<1>9. ASSUME NEW r \in Window, Reverts(r) PROVE JobInv'
  <2>0. prev \in Configs
    BY <1>9 DEF Reverts, RequestInv, WindowInv, Answered, WindowOK
  <2>1. Req("store", r, prev) \in Requests /\ Shape(Req("store", r, prev))
    BY <1>9, SentFacts, <2>0 DEF Reverts, Commits
  <2>2. /\ ipc' = Append(ipc, Req("store", r, prev))
        /\ pc' = pc /\ job' = job
    BY <1>9 DEF Reverts, Sends
  <2>3. ipc \in Seq(Requests)
    OBVIOUS
  <2>4. \A i \in DOMAIN ipc' : Shape(ipc'[i])
    BY <2>1, <2>2, <2>3, AppendFacts
  <2> QED
    BY <2>2, <2>4
<1>10. ASSUME NEW r \in Window, Rereads(r) PROVE JobInv'
  <2>1. Req("load", r, Defaults) \in Requests /\ Shape(Req("load", r, Defaults))
    BY <1>10, SentFacts DEF Rereads
  <2>2. /\ ipc' = Append(ipc, Req("load", r, Defaults))
        /\ pc' = pc /\ job' = job
    BY <1>10 DEF Rereads, Sends
  <2>3. ipc \in Seq(Requests)
    OBVIOUS
  <2>4. \A i \in DOMAIN ipc' : Shape(ipc'[i])
    BY <2>1, <2>2, <2>3, AppendFacts
  <2> QED
    BY <2>2, <2>4
<1> HIDE DEF fileVars, threadVars, windowVars, historyVars, Goes, ThreadsOK,
   QueueOK, JobInv, Requests, Shape, NoJob
<1> QED
  BY <1>1, <1>2, <1>3, <1>4, <1>5, <1>6, <1>7, <1>8, <1>9, <1>10 DEF Next,
     Backend

\* Every operation keeps to the steps of its kind.
LEMMA KindStep ==
  ASSUME ThreadsOK, QueueOK, JobInv, KindInv, LockInv, SetupInv, SetterInv,
     Next PROVE KindInv'
<1> USE NameFacts DEF fileVars, threadVars, windowVars, historyVars, Goes,
   ThreadsOK, KindInv, JobOf, Req, NoJob, Threads
<1>1. ASSUME MainTakes \/ Mounts \/ HandEdit \/ Crash
      PROVE  KindInv'
  BY <1>1 DEF MainTakes, FirstStep, JobInv, QueueOK, Requests, Mounts, Sends,
     HandEdit, Crash
<1>2. ASSUME NEW t \in Threads, WorkerStarts(t) \/ Locks(t) \/ Loads(t)
             \/ ReadForWrite(t) \/ Fetches(t) \/ ChangesNothing(t) \/ Creates(t)
             \/ Fills(t) \/ WriteFails(t) \/ Clears(t)
      PROVE  KindInv'
  <2>1. CASE WorkerStarts(t) \/ Locks(t) \/ Loads(t)
    BY <2>1 DEF WorkerStarts, FirstStep, Locks, Loads, Returns
  <2>2. CASE ReadForWrite(t) \/ ChangesNothing(t)
    BY <2>2 DEF ReadForWrite, ChangesNothing, Returns
  <2>3. CASE Fetches(t)
    BY <2>3 DEF Fetches, Returns, SetupInv, LegacyInv, StartInv, Setup
  <2>4. CASE Creates(t) \/ Fills(t)
    BY <2>4 DEF Creates, Fills
  <2>5. CASE WriteFails(t) \/ Clears(t)
    BY <2>5 DEF WriteFails, Clears, Returns
  <2> QED
    BY <1>2, <2>1, <2>2, <2>3, <2>4, <2>5
<1>3. ASSUME NEW t \in Threads, Renames(t) PROVE KindInv'
  <2>1. CASE seeding[t]
    <3>1. t = Main /\ job.kind = "load"
      BY <2>1 DEF SetupInv, SeedInv
    <3> QED
      BY <1>3, <2>1, <3>1 DEF Renames
  <2>2. CASE ~seeding[t]
    BY <1>3, <2>2 DEF Renames, Returns
  <2> QED
    BY <2>1, <2>2
<1>4. ASSUME NEW r \in Window, Asks(r) \/ Commit(r) \/ Adopts(r) \/ Settles(r)
             \/ Reverts(r) \/ Rereads(r)
      PROVE  KindInv'
  BY <1>4 DEF Asks, Sends, Commit, Adopts, Answered, Ends, Settles, Reverts,
     Rereads
<1> HIDE DEF fileVars, threadVars, windowVars, historyVars, Goes, ThreadsOK,
   KindInv, JobOf, Req, NoJob, Threads
<1> QED
  BY <1>1, <1>2, <1>3, <1>4 DEF Next, Backend

\* Every step leaves write_lock with the setter or the commit inside.
LEMMA LockStep ==
  ASSUME ThreadsOK, QueueOK, JobInv, KindInv, LockInv, SetupInv, SetterInv,
     Next PROVE LockInv'
<1> USE NameFacts DEF fileVars, threadVars, windowVars, historyVars, Goes,
   ThreadsOK, LockInv, KindInv, JobInv, JobOf, Req, NoJob, Threads, Inside
<1>1. ASSUME MainTakes \/ Mounts \/ HandEdit \/ Crash
      PROVE  LockInv'
  BY <1>1 DEF MainTakes, FirstStep, QueueOK, Requests, Mounts, Sends,
     HandEdit, Crash
<1>2. ASSUME NEW t \in Threads, WorkerStarts(t) \/ Locks(t) \/ Loads(t)
             \/ ReadForWrite(t) \/ Fetches(t) \/ ChangesNothing(t) \/ Creates(t)
             \/ Fills(t) \/ Renames(t) \/ WriteFails(t) \/ Clears(t)
      PROVE  LockInv'
  BY <1>2 DEF WorkerStarts, FirstStep, Locks, Loads, Returns, QueueOK,
     Requests, ReadForWrite, Fetches, ChangesNothing, Creates, Fills, Renames,
     WriteFails, Clears
<1>3. ASSUME NEW r \in Window, Asks(r) \/ Commit(r) \/ Adopts(r) \/ Settles(r)
             \/ Reverts(r) \/ Rereads(r)
      PROVE  LockInv'
  BY <1>3 DEF Asks, Sends, Commit, Adopts, Answered, Ends, Settles, Reverts,
     Rereads
<1> HIDE DEF fileVars, threadVars, windowVars, historyVars, Goes, ThreadsOK,
   LockInv, KindInv, JobInv, JobOf, Req, NoJob, Threads, Inside
<1> QED
  BY <1>1, <1>2, <1>3 DEF Next, Backend

\* Only the main thread works during the setup, and it sends no answers.
LEMMA LaunchFacts ==
  ASSUME QueueOK, JobInv, StartInv, ~up, NEW t \in Threads,
         pc[t] \notin {"idle", "done"}
  PROVE  /\ t = Main /\ JobOf(t) = job /\ JobOf(t).by \notin Window
         /\ \/ /\ ipc = Tail(Setup) /\ job = Setup[1]
               /\ job.kind = "load" /\ job.by = Boot
            \/ ipc = <<>> /\ job = Setup[2] /\ job.kind = "set" /\ job.by = Scan
BY SetupFacts, NameFacts DEF StartInv, JobOf, Req, Boot, Scan

\* The setup's two requests are gone once it is over.
LEMMA RunFacts ==
  ASSUME QueueOK, JobInv, UpInv, up, NEW t \in Threads, pc[t] # "idle"
  PROVE  JobOf(t).by \notin {Boot, Scan}
BY JobFacts, NameFacts DEF UpInv, JobOf

\* An operation that returns leaves only the window's requests behind the setup.
LEMMA UpReturns ==
  ASSUME QueueOK, JobInv, StartInv, UpInv, ThreadsOK, NEW t \in Threads, NEW result,
         pc[t] \notin {"idle", "done"}, Returns(t, result)
  PROVE  UpInv'
<1> USE NameFacts DEF ThreadsOK, Returns, Goes
<1>1. CASE up
  BY <1>1, RunFacts DEF UpInv
<1>2. CASE ~up /\ up'
  <2>1. t = Main /\ ipc = <<>>
    BY <1>2, LaunchFacts DEF Boot, Scan
  <2> QED
    BY <1>2, <2>1 DEF UpInv
<1>3. CASE ~up'
  BY <1>3 DEF UpInv
<1> QED
  BY <1>1, <1>2, <1>3

\* Every step keeps the order of the setup.
LEMMA StartStep ==
  ASSUME ThreadsOK, WindowOK, QueueOK, JobInv, KindInv, LockInv, SetupInv,
     FileInv, SetterInv, Next PROVE StartInv'
<1> USE NameFacts DEF fileVars, threadVars, windowVars, historyVars, Goes,
   ThreadsOK, SetupInv, StartInv, Outstanding
<1>1. ASSUME MainTakes \/ Mounts \/ HandEdit \/ Crash
      PROVE  StartInv'
  <2>1. CASE HandEdit
    BY <2>1 DEF HandEdit
  <2>2. CASE MainTakes
    BY <2>2, LaunchFacts, RunFacts, SetupFacts DEF MainTakes, FirstStep
  <2>3. CASE Mounts \/ Crash
    BY <2>3, LaunchFacts, RunFacts, SetupFacts DEF Mounts, Sends, Crash
  <2> QED
    BY <1>1, <2>1, <2>2, <2>3
<1>2. ASSUME NEW t \in Threads, WorkerStarts(t) \/ Locks(t) \/ Creates(t)
             \/ Fills(t)
      PROVE  StartInv'
  BY <1>2, LaunchFacts, RunFacts, SetupFacts DEF WorkerStarts, FirstStep,
     Locks, Creates, Fills
<1>3. ASSUME NEW t \in Threads, Loads(t) PROVE StartInv'
  BY <1>3, LaunchFacts, RunFacts, SetupFacts, ZenonT(30) DEF Loads, Returns
<1>4. ASSUME NEW t \in Threads, ReadForWrite(t) PROVE StartInv'
  BY <1>4, LaunchFacts, RunFacts, SetupFacts, ZenonT(30) DEF ReadForWrite, Returns
<1>5. ASSUME NEW t \in Threads, Fetches(t) PROVE StartInv'
  BY <1>5, LaunchFacts, RunFacts, SetupFacts, ZenonT(30) DEF Fetches, Returns
<1>6. ASSUME NEW t \in Threads, ChangesNothing(t) PROVE StartInv'
  BY <1>6, LaunchFacts, RunFacts, SetupFacts DEF ChangesNothing, Returns
<1>7. ASSUME NEW t \in Threads, Renames(t) PROVE StartInv'
  BY <1>7, LaunchFacts, RunFacts, SetupFacts DEF Renames, Returns, SeedInv
<1>8. ASSUME NEW t \in Threads, WriteFails(t) PROVE StartInv'
  BY <1>8, LaunchFacts, RunFacts, SetupFacts, ZenonT(30) DEF WriteFails, Returns
<1>9. ASSUME NEW t \in Threads, Clears(t) PROVE StartInv'
  BY <1>9, LaunchFacts, RunFacts, SetupFacts, ZenonT(30) DEF Clears, Returns
<1>10. ASSUME NEW r \in Window, Asks(r) \/ Commit(r) \/ Adopts(r)
             \/ Settles(r) \/ Reverts(r) \/ Rereads(r)
      PROVE  StartInv'
  BY <1>10, LaunchFacts, RunFacts, SetupFacts DEF Asks, Sends, Commit,
     Adopts, Answered, Ends, Settles, Reverts, Rereads
<1> HIDE DEF fileVars, threadVars, windowVars, historyVars, Goes, ThreadsOK,
   SetupInv, StartInv, Outstanding
<1> QED
  BY <1>1, <1>2, <1>3, <1>4, <1>5, <1>6, <1>7, <1>8, <1>9, <1>10 DEF Next,
     Backend

\* Every step keeps the queue the window's once the setup is over.
LEMMA UpStep ==
  ASSUME ThreadsOK, WindowOK, QueueOK, JobInv, KindInv, LockInv, SetupInv,
     FileInv, SetterInv, RequestInv, Next PROVE UpInv'
<1> USE NameFacts DEF fileVars, threadVars, windowVars, historyVars, Goes,
   ThreadsOK, SetupInv
<1>1. ASSUME MainTakes PROVE UpInv'
  <2>1. ipc \in Seq(Requests)
    BY DEF QueueOK
  <2> QED
    BY <1>1, <2>1, TailFacts DEF MainTakes, UpInv
<1>2. ASSUME NEW t \in Threads, WorkerStarts(t) \/ Locks(t)
             \/ ChangesNothing(t) \/ Creates(t) \/ Fills(t)
      PROVE  UpInv'
  BY <1>2, LaunchFacts, RunFacts, SetupFacts, UpReturns DEF WorkerStarts,
     UpInv, Locks, ChangesNothing, Creates, Fills
<1>3. ASSUME NEW t \in Threads, Loads(t) PROVE UpInv'
  <2>1. CASE disk = None
    BY <1>3, <2>1 DEF Loads, UpInv
  <2>2. CASE ~(disk = None)
    BY <1>3, <2>2, UpReturns DEF Loads
  <2> QED
    BY <2>1, <2>2
<1>4. ASSUME NEW t \in Threads, ReadForWrite(t) PROVE UpInv'
  <2>1. CASE Held \in Configs
    BY <1>4, <2>1 DEF ReadForWrite, UpInv
  <2>2. CASE ~(Held \in Configs)
    BY <1>4, <2>2, UpReturns DEF ReadForWrite
  <2> QED
    BY <2>1, <2>2
<1>5. ASSUME NEW t \in Threads, Fetches(t) PROVE UpInv'
  <2>1. CASE (legacy \/ JobOf(t).kind # "load")
    BY <1>5, <2>1 DEF Fetches, UpInv
  <2>2. CASE ~(legacy \/ JobOf(t).kind # "load")
    BY <1>5, <2>2, UpReturns DEF Fetches
  <2> QED
    BY <2>1, <2>2
<1>6. ASSUME NEW t \in Threads, Renames(t) PROVE UpInv'
  <2>1. CASE seeding[t]
    BY <1>6, <2>1 DEF Renames, UpInv
  <2>2. CASE ~(seeding[t])
    BY <1>6, <2>2, UpReturns DEF Renames
  <2> QED
    BY <2>1, <2>2
<1>7. ASSUME NEW t \in Threads, WriteFails(t) PROVE UpInv'
  <2>1. CASE (seeding[t] /\ JobOf(t).kind = "set")
    BY <1>7, <2>1 DEF WriteFails, UpInv
  <2>2. CASE ~(seeding[t] /\ JobOf(t).kind = "set")
    BY <1>7, <2>2, UpReturns DEF WriteFails
  <2> QED
    BY <2>1, <2>2
<1>8. ASSUME NEW t \in Threads, Clears(t) PROVE UpInv'
  <2>1. CASE JobOf(t).kind # "load"
    BY <1>8, <2>1 DEF Clears, UpInv
  <2>2. CASE ~(JobOf(t).kind # "load")
    BY <1>8, <2>2, UpReturns DEF Clears
  <2> QED
    BY <2>1, <2>2
<1>9. ASSUME Mounts PROVE UpInv'
  <2>1. Req("load", Mount, Defaults) \in Requests /\ Req("load", Mount, Defaults).by \in Window
    BY <1>9, SentFacts, NameFacts DEF Mounts, Req, Window, WindowOK,
       RequestInv,
       WindowInv, Answered, Commits
  <2>2. /\ ipc' = Append(ipc, Req("load", Mount, Defaults))
        /\ pc' = pc /\ job' = job /\ up' = up
    BY <1>9 DEF Mounts, Sends
  <2>3. ipc \in Seq(Requests)
    BY DEF QueueOK
  <2>4. up => \A i \in DOMAIN ipc' : ipc'[i].by \in Window
    BY <2>1, <2>2, <2>3, AppendFacts DEF UpInv
  <2> QED
    BY <2>2, <2>4 DEF UpInv
<1>10. ASSUME HandEdit \/ Crash
      PROVE  UpInv'
  BY <1>10, LaunchFacts, RunFacts, SetupFacts DEF HandEdit, UpInv, Crash
<1>11. ASSUME NEW r \in Window, Asks(r) PROVE UpInv'
  <2>1. Req("set", r, Defaults) \in Requests /\ Req("set", r, Defaults).by \in Window
    BY <1>11, SentFacts, NameFacts DEF Asks, Req, Window, WindowOK, RequestInv,
       WindowInv, Answered, Commits
  <2>2. /\ ipc' = Append(ipc, Req("set", r, Defaults))
        /\ pc' = pc /\ job' = job /\ up' = up
    BY <1>11 DEF Asks, Sends
  <2>3. ipc \in Seq(Requests)
    BY DEF QueueOK
  <2>4. up => \A i \in DOMAIN ipc' : ipc'[i].by \in Window
    BY <2>1, <2>2, <2>3, AppendFacts DEF UpInv
  <2> QED
    BY <2>2, <2>4 DEF UpInv
<1>12. ASSUME NEW r \in Window, Commit(r) PROVE UpInv'
  <2>1. Req("store", r, [front EXCEPT ![Section(r)] = r]) \in Requests /\ Req("store", r, [front EXCEPT ![Section(r)] = r]).by \in Window
    BY <1>12, SentFacts, ChangeFacts, NameFacts DEF Commit, Req, Window,
       WindowOK,
       RequestInv, WindowInv, Answered, Commits
  <2>2. /\ ipc' = Append(ipc, Req("store", r, [front EXCEPT ![Section(r)] = r]))
        /\ pc' = pc /\ job' = job /\ up' = up
    BY <1>12 DEF Commit, Sends
  <2>3. ipc \in Seq(Requests)
    BY DEF QueueOK
  <2>4. up => \A i \in DOMAIN ipc' : ipc'[i].by \in Window
    BY <2>1, <2>2, <2>3, AppendFacts DEF UpInv
  <2> QED
    BY <2>2, <2>4 DEF UpInv
<1>13. ASSUME NEW r \in Window, Adopts(r) \/ Settles(r)
      PROVE  UpInv'
  BY <1>13, LaunchFacts, RunFacts, SetupFacts DEF Adopts, Answered, Ends,
     UpInv, Settles
<1>14. ASSUME NEW r \in Window, Reverts(r) PROVE UpInv'
  <2>1. Req("store", r, prev) \in Requests /\ Req("store", r, prev).by \in Window
    BY <1>14, SentFacts, NameFacts DEF Reverts, Req, Window, WindowOK,
       RequestInv,
       WindowInv, Answered, Commits
  <2>2. /\ ipc' = Append(ipc, Req("store", r, prev))
        /\ pc' = pc /\ job' = job /\ up' = up
    BY <1>14 DEF Reverts, Sends
  <2>3. ipc \in Seq(Requests)
    BY DEF QueueOK
  <2>4. up => \A i \in DOMAIN ipc' : ipc'[i].by \in Window
    BY <2>1, <2>2, <2>3, AppendFacts DEF UpInv
  <2> QED
    BY <2>2, <2>4 DEF UpInv
<1>15. ASSUME NEW r \in Window, Rereads(r) PROVE UpInv'
  <2>1. Req("load", r, Defaults) \in Requests /\ Req("load", r, Defaults).by \in Window
    BY <1>15, SentFacts, NameFacts DEF Rereads, Req, Window, WindowOK,
       RequestInv,
       WindowInv, Answered, Commits
  <2>2. /\ ipc' = Append(ipc, Req("load", r, Defaults))
        /\ pc' = pc /\ job' = job /\ up' = up
    BY <1>15 DEF Rereads, Sends
  <2>3. ipc \in Seq(Requests)
    BY DEF QueueOK
  <2>4. up => \A i \in DOMAIN ipc' : ipc'[i].by \in Window
    BY <2>1, <2>2, <2>3, AppendFacts DEF UpInv
  <2> QED
    BY <2>2, <2>4 DEF UpInv
<1> HIDE DEF fileVars, threadVars, windowVars, historyVars, Goes, ThreadsOK,
   SetupInv
<1> QED
  BY <1>1, <1>2, <1>3, <1>4, <1>5, <1>6, <1>7, <1>8, <1>9, <1>10, <1>11, <1>12,
     <1>13, <1>14, <1>15 DEF Next, Backend

\* Without a blob nobody seeds the file, and a step of one thread that does not
\* write leaves it so.
LEMMA NothingSeeds ==
  ASSUME SeedInv, ~legacy, NEW t \in Threads, ~seeding'[t],
         pc'[t] \in {"idle", "done", "change"},
         \A u \in Threads \ {t} : /\ pc'[u] = pc[u] /\ seeding'[u] = seeding[u]
                                  /\ JobOf(u)' = JobOf(u)
  PROVE  SeedInv'
<1>1. \A u \in Threads :
        /\ ~seeding[u]
        /\ JobOf(u).kind = "load" => pc[u] \notin {"create", "fill", "rename", "clear"}
  BY DEF SeedInv
<1>2. \A u \in Threads :
        /\ ~seeding'[u]
        /\ JobOf(u)'.kind = "load" => pc'[u] \notin {"create", "fill", "rename", "clear"}
  BY <1>1
<1> QED
  BY <1>2 DEF SeedInv

\* Only the setup's read seeds the file.
LEMMA SeedStep ==
  ASSUME ThreadsOK, WindowOK, QueueOK, JobInv, KindInv, LockInv, SetupInv,
     FileInv, SetterInv, Next PROVE SeedInv'
<1> USE NameFacts DEF fileVars, threadVars, windowVars, historyVars, Goes,
   ThreadsOK, SetupInv, SeedInv, JobOf, Req, Threads
<1>1. ASSUME MainTakes \/ Mounts \/ HandEdit \/ Crash
      PROVE  SeedInv'
  BY <1>1, LaunchFacts, SetupFacts DEF MainTakes, FirstStep, NoJob, KindInv,
     Mounts, Sends, HandEdit, Crash
<1>2. ASSUME NEW t \in Threads, WorkerStarts(t) \/ Locks(t) \/ Loads(t)
             \/ ReadForWrite(t) \/ Fetches(t) \/ ChangesNothing(t) \/ Creates(t)
             \/ Fills(t) \/ Renames(t) \/ WriteFails(t) \/ Clears(t)
      PROVE  SeedInv'
  <2>1. CASE WorkerStarts(t)
    BY <2>1 DEF WorkerStarts, FirstStep, KindInv
  <2>7. CASE Locks(t)
    <3>1. pc[t] = "lock" /\ JobOf(t).kind # "load" /\ ~seeding[t]
      BY <2>7 DEF Locks, KindInv
    <3> QED
      BY <2>7, <3>1 DEF Locks
  <2>8. CASE Loads(t)
    <3>1. pc'[t] \in {"idle", "done", "fetch"} /\ ~seeding'[t]
      BY <2>8 DEF Loads, Returns, KindInv
    <3>2. \A u \in Threads \ {t} : /\ pc'[u] = pc[u] /\ seeding'[u] = seeding[u]
                                   /\ JobOf(u)' = JobOf(u)
      BY <2>8 DEF Loads, Returns
    <3>3. pc[t] = "look"
      BY <2>8 DEF Loads
    <3>4. \A u \in Threads \ {t} :
            /\ ~seeding[u]
            /\ JobOf(u).kind = "load" =>
                 pc[u] \notin {"create", "fill", "rename", "clear"}
      BY <3>3, LaunchFacts
    <3> HIDE DEF JobOf
    <3> QED
      BY <3>1, <3>2, <3>4
  <2>2. CASE ReadForWrite(t) \/ ChangesNothing(t)
    BY <2>2, LaunchFacts, SetupFacts DEF ReadForWrite, ChangesNothing, Returns, KindInv
  <2>3. CASE Fetches(t)
    <3>1. CASE legacy
      <4>1. t = Main /\ ~up /\ job.kind = "load"
        BY <2>3, <3>1, LaunchFacts, SetupFacts DEF Fetches, LegacyInv, StartInv
      <4> QED
        BY <2>3, <3>1, <4>1 DEF Fetches
    <3>2. CASE ~legacy
      <4>1. pc'[t] \in {"idle", "done", "change"} /\ ~seeding'[t]
        BY <2>3, <3>2 DEF Fetches, Returns
      <4>2. \A u \in Threads \ {t} : /\ pc'[u] = pc[u] /\ seeding'[u] = seeding[u]
                                     /\ JobOf(u)' = JobOf(u)
        BY <2>3, <3>2 DEF Fetches, Returns
      <4> QED
        BY <3>2, <4>1, <4>2, NothingSeeds
    <3> QED
      BY <3>1, <3>2
  <2>4. CASE Creates(t) \/ Fills(t)
    <3>1. /\ pc[t] \in {"change", "create", "fill"} /\ pc'[t] \in {"fill", "rename"}
          /\ \A u \in Threads \ {t} : pc'[u] = pc[u]
          /\ UNCHANGED <<seeding, job, up, legacy>>
      BY <2>4 DEF Creates, Fills
    <3>2. JobOf(t).kind = "load" => pc[t] \in {"create", "fill"}
      BY <3>1 DEF KindInv
    <3>3. \A u \in Threads : JobOf(u)' = JobOf(u)
      BY <3>1
    <3> HIDE DEF JobOf
    <3> QED
      BY <3>1, <3>2, <3>3
  <2>6. CASE Renames(t)
    <3>1. CASE seeding[t]
      BY <2>6, <3>1 DEF Renames
    <3>2. CASE ~seeding[t]
      <4>1. pc'[t] \in {"idle", "done"} /\ ~seeding'[t]
        BY <2>6, <3>2 DEF Renames, Returns
      <4>2. \A u \in Threads \ {t} : /\ pc'[u] = pc[u] /\ seeding'[u] = seeding[u]
                                     /\ JobOf(u)' = JobOf(u)
        BY <2>6, <3>2 DEF Renames, Returns
      <4>3. pc[t] = "rename" /\ UNCHANGED legacy
        BY <2>6 DEF Renames
      <4>4. \A u \in Threads \ {t} :
              /\ ~seeding[u]
              /\ JobOf(u).kind = "load" =>
                   pc[u] \notin {"create", "fill", "rename", "clear"}
        BY <3>2, <4>3, LaunchFacts
      <4> HIDE DEF JobOf
      <4> QED
        BY <4>1, <4>2, <4>4
    <3> QED
      BY <3>1, <3>2
  <2>5. CASE WriteFails(t) \/ Clears(t)
    BY <2>5, LaunchFacts, SetupFacts DEF WriteFails, Clears, Returns, KindInv
  <2> QED
    BY <1>2, <2>1, <2>2, <2>3, <2>4, <2>5, <2>6, <2>7, <2>8
<1>3. ASSUME NEW r \in Window, Asks(r) \/ Commit(r) \/ Adopts(r) \/ Settles(r)
             \/ Reverts(r) \/ Rereads(r)
      PROVE  SeedInv'
  BY <1>3, LaunchFacts, SetupFacts DEF Asks, Sends, Commit, Adopts, Answered,
     Ends, Settles, Reverts, Rereads
<1> HIDE DEF fileVars, threadVars, windowVars, historyVars, Goes, ThreadsOK,
   SetupInv, SeedInv, JobOf, Req, Threads
<1> QED
  BY <1>1, <1>2, <1>3 DEF Next, Backend

\* Until the file exists, the blob is the setup's to move.
LEMMA LegacyStep ==
  ASSUME ThreadsOK, WindowOK, QueueOK, JobInv, KindInv, LockInv, SetupInv,
     FileInv, SetterInv, Next PROVE LegacyInv'
<1> USE NameFacts DEF fileVars, threadVars, windowVars, historyVars, Goes,
   ThreadsOK, SetupInv, LegacyInv, KindInv, LockInv
<1>1. ASSUME MainTakes \/ Mounts \/ HandEdit \/ Crash
      PROVE  LegacyInv'
  BY <1>1, LaunchFacts, SetupFacts, ZenonT(30) DEF MainTakes, FirstStep, Mounts, Sends,
     HandEdit, Crash
<1>2. ASSUME NEW t \in Threads, WorkerStarts(t) PROVE LegacyInv'
  BY <1>2, LaunchFacts, SetupFacts DEF WorkerStarts, FirstStep
<1>3. ASSUME NEW t \in Threads, Locks(t) PROVE LegacyInv'
  BY <1>3, LaunchFacts, SetupFacts DEF Locks
<1>4. ASSUME NEW t \in Threads, Loads(t) PROVE LegacyInv'
  BY <1>4, LaunchFacts, SetupFacts DEF Loads, Returns
<1>5. ASSUME NEW t \in Threads, ReadForWrite(t) PROVE LegacyInv'
  BY <1>5, LaunchFacts, SetupFacts DEF ReadForWrite, Returns
<1>6. ASSUME NEW t \in Threads, Fetches(t) PROVE LegacyInv'
  BY <1>6, LaunchFacts, SetupFacts DEF Fetches, Returns
<1>7. ASSUME NEW t \in Threads, ChangesNothing(t) PROVE LegacyInv'
  BY <1>7, LaunchFacts, SetupFacts DEF ChangesNothing, Returns
<1>8. ASSUME NEW t \in Threads, Creates(t) PROVE LegacyInv'
  BY <1>8, LaunchFacts, SetupFacts DEF Creates
<1>9. ASSUME NEW t \in Threads, Fills(t) PROVE LegacyInv'
  BY <1>9, LaunchFacts, SetupFacts DEF Fills
<1>10. ASSUME NEW t \in Threads, Renames(t) PROVE LegacyInv'
  BY <1>10, LaunchFacts, SetupFacts, SMTT(30) DEF Renames, Returns
<1>11. ASSUME NEW t \in Threads, WriteFails(t) PROVE LegacyInv'
  BY <1>11, LaunchFacts, SetupFacts DEF WriteFails, Returns, FileInv
<1>12. ASSUME NEW t \in Threads, Clears(t) PROVE LegacyInv'
  BY <1>12, LaunchFacts, SetupFacts DEF Clears, Returns
<1>13. ASSUME NEW r \in Window, Asks(r) \/ Commit(r) \/ Adopts(r)
             \/ Settles(r) \/ Reverts(r) \/ Rereads(r)
      PROVE  LegacyInv'
  BY <1>13, LaunchFacts, SetupFacts DEF Asks, Sends, StartInv, Outstanding,
     Commit, Adopts, Answered, Ends, Settles, Reverts, Rereads
<1> HIDE DEF fileVars, threadVars, windowVars, historyVars, Goes, ThreadsOK,
   SetupInv, LegacyInv, KindInv, LockInv
<1> QED
  BY <1>1, <1>2, <1>3, <1>4, <1>5, <1>6, <1>7, <1>8, <1>9, <1>10, <1>11, <1>12,
     <1>13 DEF Next, Backend

\* There is one writer at a time.
Writing(t) ==
  /\ pc[t] \in Inside
  /\ JobOf(t).kind # "load" \/ pc[t] \in {"create", "fill", "rename", "clear"}

\* Two threads inside a write are one: write_lock, and the setup comes alone.
LEMMA Alone ==
  ASSUME QueueOK, JobInv, LockInv, StartInv, SeedInv,
         NEW t \in Threads, NEW u \in Threads, Writing(t), Writing(u)
  PROVE  t = u
<1>1. CASE JobOf(t).kind # "load" /\ JobOf(u).kind # "load"
  BY <1>1 DEF LockInv, Writing
<1>2. CASE JobOf(t).kind = "load"
  BY <1>2, LaunchFacts DEF SeedInv, Writing, Inside
<1>3. CASE JobOf(u).kind = "load"
  BY <1>3, LaunchFacts DEF SeedInv, Writing, Inside
<1> QED
  BY <1>1, <1>2, <1>3

\* Every step keeps what a setter has read equal to what is in the file.
LEMMA SetterStep ==
  ASSUME FilesOK, ThreadsOK, WindowOK, HistoryOK, QueueOK, JobInv, KindInv,
     LockInv, SetupInv, FileInv, SetterInv, Next PROVE SetterInv'
<1> USE NameFacts, ConfigFacts DEF fileVars, threadVars, windowVars,
   historyVars, Goes, FilesOK, ThreadsOK, SetupInv, SetterInv, JobOf, NoJob,
   Req
<1>1. ASSUME MainTakes \/ Mounts \/ Crash
      PROVE  SetterInv'
  BY <1>1 DEF MainTakes, FirstStep, Mounts, Sends, Crash
<1>2. ASSUME NEW t \in Threads, WorkerStarts(t) \/ Locks(t) \/ Loads(t)
             \/ ReadForWrite(t) \/ Fetches(t) \/ ChangesNothing(t)
      PROVE  SetterInv'
  <2>1. Held \in Configs =>
          Readable \in Configs /\ \A s \in Sections : Repair(Readable[s]) = Repair(Held[s])
    BY NormalFacts, ReadableFacts
  <2> QED
    BY <1>2, <2>1 DEF WorkerStarts, FirstStep, Locks, Loads, Returns,
       ReadForWrite, Held, Fetches, ChangesNothing
<1>3. ASSUME NEW t \in Threads, Creates(t) PROVE SetterInv'
  <2>1. Target \in Inodes /\ Target # disk
    BY TargetFacts, TypeParts
  <2>2. disk # None => content'[disk] = content[disk]
    BY <1>3, <2>1 DEF Creates
  <2>3. JobOf(t).kind = "set" => pc[t] = "change"
    BY <1>3 DEF Creates, KindInv
  <2>4. pc[t] = "change" => \A s \in Sections \ {Section(JobOf(t).by)} :
                              doc'[t][s] = Repair(doc[t][s])
    BY <1>3, OutgoingFacts DEF Creates
  <2>5. /\ pc' = [pc EXCEPT ![t] = "fill"] /\ disk' = disk /\ job' = job
        /\ \A u \in Threads \ {t} : doc'[u] = doc[u]
    BY <1>3 DEF Creates
  <2> HIDE DEF JobOf
  <2>6. \A u \in Threads : JobOf(u)' = JobOf(u)
    BY <2>5 DEF JobOf
  <2> QED
    BY <2>2, <2>3, <2>4, <2>5, <2>6, <1>3 DEF Creates
<1>4. ASSUME NEW t \in Threads, Fills(t) PROVE SetterInv'
  <2>1. /\ pc' = [pc EXCEPT ![t] = "rename"] /\ disk' = disk /\ job' = job
        /\ doc' = doc /\ pc[t] = "fill"
    BY <1>4 DEF Fills
  <2>2. disk # None => content'[disk] = content[disk]
    BY <1>4 DEF Fills, FileInv
  <2>3. \A u \in Threads : JobOf(u)' = JobOf(u)
    BY <2>1 DEF JobOf
  <2> HIDE DEF JobOf
  <2> QED
    BY <2>1, <2>2, <2>3
<1>5. ASSUME NEW t \in Threads, Renames(t) PROVE SetterInv'
  <2> HIDE DEF JobOf
  <2>1. Writing(t)
    BY <1>5, JobFacts DEF Renames, Writing, Inside
  <2>2. \A u \in Threads \ {t} : pc'[u] = pc[u] /\ JobOf(u)' = JobOf(u)
    BY <1>5 DEF Renames, Returns, JobOf
  <2>3. pc'[t] \notin {"fetch", "change", "fill", "rename"}
    BY <1>5 DEF Renames, Returns
  <2>4. \A u \in Threads \ {t} :
          JobOf(u).kind = "set" => pc[u] \notin {"fetch", "change", "fill", "rename"}
    BY <2>1, Alone DEF Writing, Inside
  <2> QED
    BY <2>2, <2>3, <2>4
<1>6. ASSUME NEW t \in Threads, WriteFails(t) PROVE SetterInv'
  <2>1. ~(seeding[t] /\ JobOf(t).kind = "set")
    BY DEF SeedInv
  <2> QED
    BY <1>6, <2>1 DEF WriteFails, Returns
<1>7. ASSUME NEW t \in Threads, Clears(t) PROVE SetterInv'
  <2>1. JobOf(t).kind = "load"
    BY <1>7 DEF Clears, SeedInv, KindInv
  <2> QED
    BY <1>7, <2>1 DEF Clears, Returns
<1>8. ASSUME HandEdit PROVE SetterInv'
  <2>1. \A t \in Threads : JobOf(t).kind = "set" => pc[t] \notin Inside
    BY <1>8 DEF HandEdit, LockInv
  <2> QED
    BY <1>8, <2>1 DEF HandEdit, Inside
<1>9. ASSUME NEW r \in Window, Asks(r) \/ Commit(r) \/ Adopts(r) \/ Settles(r)
             \/ Reverts(r) \/ Rereads(r)
      PROVE  SetterInv'
  BY <1>9 DEF Asks, Sends, Commit, Adopts, Answered, Ends, Settles, Reverts,
     Rereads
<1> HIDE DEF fileVars, threadVars, windowVars, historyVars, Goes, FilesOK,
   ThreadsOK, SetupInv, SetterInv, JobOf, NoJob, Req
<1> QED
  BY <1>1, <1>2, <1>3, <1>4, <1>5, <1>6, <1>7, <1>8, <1>9 DEF Next, Backend

\* Every step keeps the temp file its writer's and the file whole.
LEMMA FileStep ==
  ASSUME FilesOK, ThreadsOK, WindowOK, HistoryOK, QueueOK, JobInv, KindInv,
     LockInv, SetupInv, FileInv, SetterInv, Next PROVE FileInv'
<1> USE NameFacts, ConfigFacts DEF fileVars, threadVars, windowVars,
   historyVars, Goes, FilesOK, ThreadsOK, SetupInv, FileInv
<1>1. ASSUME MainTakes \/ Mounts \/ HandEdit \/ Crash
      PROVE  FileInv'
  <2>1. CASE HandEdit
    BY <2>1, HandFacts
  <2> QED
    BY <1>1, <2>1 DEF MainTakes, FirstStep, Mounts, Sends, Crash
<1>2. ASSUME NEW t \in Threads, WorkerStarts(t) \/ Locks(t) \/ Loads(t)
             \/ ReadForWrite(t) \/ Fetches(t) \/ ChangesNothing(t)
             \/ WriteFails(t) \/ Clears(t)
      PROVE  FileInv'
  BY <1>2 DEF WorkerStarts, FirstStep, Locks, Loads, Returns, ReadForWrite,
     Fetches, ChangesNothing, WriteFails, Clears
<1>3. ASSUME NEW t \in Threads, Creates(t) PROVE FileInv'
  <2>1. Target \in Inodes /\ Target # disk /\ Target # None
    BY TargetFacts, TypeParts
  <2>2. Writing(t)
    BY <1>3, JobFacts DEF Creates, Writing, Inside, KindInv
  <2>3. \A u \in Threads \ {t} : pc[u] \notin {"fill", "rename"}
    BY <2>2, Alone DEF Writing, Inside
  <2>4. /\ pc' = [pc EXCEPT ![t] = "fill"] /\ disk' = disk /\ tmp' = Target
        /\ fd' = [fd EXCEPT ![t] = Target]
    BY <1>3 DEF Creates
  <2>5. disk # None => content'[disk] = content[disk]
    BY <1>3, <2>1 DEF Creates
  <2>6. pc[t] # "fill" /\ pc[t] # "clear"
    BY <1>3 DEF Creates
  <2>7. \A u \in Threads : /\ fd'[u] # None => pc'[u] = "fill"
                           /\ pc'[u] = "fill" => fd'[u] = tmp' /\ tmp' # None
                           /\ pc'[u] # "rename"
                           /\ pc'[u] = "clear" => disk' # None
    BY <2>1, <2>3, <2>4, <2>6
  <2> QED
    BY <2>1, <2>4, <2>5, <2>7
<1>4. ASSUME NEW t \in Threads, Fills(t) PROVE FileInv'
  <2>1. Writing(t)
    BY <1>4, JobFacts DEF Fills, Writing, Inside
  <2>2. \A u \in Threads \ {t} : pc[u] \notin {"fill", "rename"}
    BY <2>1, Alone DEF Writing, Inside
  <2>3. /\ pc' = [pc EXCEPT ![t] = "rename"] /\ disk' = disk /\ tmp' = tmp
        /\ fd' = [fd EXCEPT ![t] = None] /\ doc' = doc /\ pc[t] = "fill"
        /\ content' = [content EXCEPT ![tmp] = doc[t]] /\ tmp # None
    BY <1>4 DEF Fills
  <2>4. disk # None => content'[disk] = content[disk]
    BY <2>3
  <2>5. content'[tmp] = doc[t]
    BY <2>3
  <2> QED
    BY <2>2, <2>3, <2>4, <2>5
<1>5. ASSUME NEW t \in Threads, Renames(t) PROVE FileInv'
  <2>1. Writing(t)
    BY <1>5, JobFacts DEF Renames, Writing, Inside
  <2>2. \A u \in Threads \ {t} : pc[u] \notin {"fill", "rename"}
    BY <2>1, Alone DEF Writing, Inside
  <2>3. /\ \A u \in Threads \ {t} : pc'[u] = pc[u] /\ fd'[u] = fd[u]
        /\ pc'[t] \notin {"fill", "rename"} /\ fd'[t] = None
    BY <1>5 DEF Renames, Returns
  <2>4. disk' = tmp /\ tmp # None /\ tmp' = None /\ tmp # disk
    BY <1>5 DEF Renames
  <2>5. content'[tmp] = content[tmp] /\ content[tmp] = doc[t]
    BY <1>5, <2>4 DEF Renames
  <2> QED
    BY <2>2, <2>3, <2>4, <2>5
<1>6. ASSUME NEW r \in Window, Asks(r) \/ Commit(r) \/ Adopts(r) \/ Settles(r)
             \/ Reverts(r) \/ Rereads(r)
      PROVE  FileInv'
  BY <1>6 DEF Asks, Sends, Commit, Adopts, Answered, Ends, Settles, Reverts,
     Rereads
<1> HIDE DEF fileVars, threadVars, windowVars, historyVars, Goes, FilesOK,
   ThreadsOK, SetupInv, FileInv
<1> QED
  BY <1>1, <1>2, <1>3, <1>4, <1>5, <1>6 DEF Next, Backend

\* With an endpoint to keep and no file, only the setup's read is under way.
LEMMA BlobFacts ==
  ASSUME QueueOK, JobInv, StartInv, LegacyInv, BlobInv, endpoint, disk = None,
         NEW t \in Threads, pc[t] \notin {"idle", "done"}
  PROVE  t = Main /\ ~up /\ legacy /\ ~faulty /\ job = Setup[1] /\ job.kind = "load"
<1>1. legacy /\ ~up /\ ~faulty
      /\ (ipc = Setup \/ (ipc = Tail(Setup) /\ pc[Main] # "idle"))
  BY DEF BlobInv, LegacyInv
<1>2. t = Main /\ ipc = Tail(Setup)
  BY <1>1, LaunchFacts, SetupFacts
<1> QED
  BY <1>1, <1>2, LaunchFacts, SetupFacts

\* What a step of one thread leaves alone.
LEMMA BackendFrame ==
  ASSUME ThreadsOK, NEW t \in Threads, Backend(t)
  PROVE  /\ UNCHANGED <<ipc, front, prev, step, historyVars>>
         /\ \A u \in Threads \ {t} : /\ pc'[u] = pc[u] /\ doc'[u] = doc[u]
                                     /\ seeding'[u] = seeding[u]
                                     /\ JobOf(u)' = JobOf(u)
<1> USE DEF ThreadsOK, Goes, JobOf
<1>1. ASSUME NEW result, Returns(t, result)
      PROVE  /\ UNCHANGED <<ipc, front, prev, step, historyVars>>
             /\ \A u \in Threads \ {t} : /\ pc'[u] = pc[u] /\ doc'[u] = doc[u]
                                         /\ seeding'[u] = seeding[u]
                                         /\ JobOf(u)' = JobOf(u)
  BY <1>1 DEF Returns
<1> USE DEF windowVars, fileVars
<1>2. CASE Locks(t)
  BY <1>2 DEF Locks
<1>3. CASE Loads(t)
  BY <1>1, <1>3 DEF Loads
<1>4. CASE ReadForWrite(t)
  BY <1>1, <1>4 DEF ReadForWrite
<1>5. CASE Fetches(t)
  BY <1>1, <1>5 DEF Fetches
<1>6. CASE ChangesNothing(t)
  BY <1>1, <1>6 DEF ChangesNothing
<1>7. CASE Creates(t)
  BY <1>7 DEF Creates
<1>8. CASE Fills(t)
  BY <1>8 DEF Fills
<1>9. CASE Renames(t)
  BY <1>1, <1>9 DEF Renames
<1>10. CASE WriteFails(t)
  BY <1>1, <1>10 DEF WriteFails
<1>11. CASE Clears(t)
  BY <1>1, <1>11 DEF Clears
<1> HIDE DEF ThreadsOK, Goes, JobOf, windowVars, fileVars
<1> QED
  BY <1>2, <1>3, <1>4, <1>5, <1>6, <1>7, <1>8, <1>9, <1>10, <1>11 DEF Backend

\* No answer and a failure carry nothing; the seed carries the endpoint.
LEMMA CarryFacts ==
  /\ Carries(None) /\ Carries(Failed) /\ Carries(Seed)
  /\ \A d \in Configs : Carries(d) <=> d["provider"] = Legacy
BY ConfigFacts DEF Carries

\* What a read makes of a file that carries the endpoint carries it.
LEMMA ReadCarries ==
  ASSUME FilesOK, InFile, disk # None
  PROVE  Held \in Configs /\ Readable \in Configs /\ Carries(Readable)
<1>1. Held \in Configs /\ Carries(Held)
  BY DEF InFile, Held
<1> QED
  BY <1>1, ReadableFacts, NormalFacts DEF Carries

\* A change of a section outside the provider's carries the endpoint on.
LEMMA ChangeCarries ==
  ASSUME NEW d \in Configs, NEW r \in Setters \cup Commits, Carries(d)
  PROVE  /\ [d EXCEPT ![Section(r)] = r] \in Configs
         /\ Carries([d EXCEPT ![Section(r)] = r])
<1>1. d["provider"] = Legacy
  BY DEF Carries
<1>2. [d EXCEPT ![Section(r)] = r]["provider"] = Legacy
  BY <1>1, ChangeFacts
<1> QED
  BY <1>2, ChangeFacts DEF Carries

\* Every step keeps the blob until there is a file.
LEMMA BlobStep ==
  ASSUME FilesOK, ThreadsOK, WindowOK, HistoryOK, QueueOK, JobInv, KindInv,
     LockInv, SetupInv, FileInv, SetterInv, RequestInv, BlobInv, CopiesInv,
     Next PROVE BlobInv'
<1> USE NameFacts, ConfigFacts DEF fileVars, threadVars, windowVars,
   historyVars, Goes, BlobInv, SetupInv, FilesOK, ThreadsOK
<1>1. ASSUME MainTakes \/ Mounts \/ HandEdit \/ Crash
      PROVE  BlobInv'
  BY <1>1, BlobFacts DEF MainTakes, Mounts, Sends, HandEdit, Crash
<1>2. ASSUME NEW t \in Threads, WorkerStarts(t) \/ Locks(t) \/ Loads(t)
             \/ ReadForWrite(t) \/ Fetches(t) \/ ChangesNothing(t) \/ Creates(t)
             \/ Fills(t) \/ Renames(t) \/ WriteFails(t) \/ Clears(t)
      PROVE  BlobInv'
  BY <1>2, BlobFacts DEF WorkerStarts, Locks, Loads, Returns, ReadForWrite,
     Fetches, ChangesNothing, Creates, Fills, Renames, WriteFails, Clears,
     FileInv
<1>3. ASSUME NEW r \in Window, Asks(r) \/ Commit(r) \/ Adopts(r) \/ Settles(r)
             \/ Reverts(r) \/ Rereads(r)
      PROVE  BlobInv'
  BY <1>3, BlobFacts DEF Asks, Sends, Commit, Adopts, Answered, Ends,
     Settles, Reverts, Rereads
<1> HIDE DEF fileVars, threadVars, windowVars, historyVars, Goes, BlobInv,
   SetupInv, FilesOK, ThreadsOK
<1> QED
  BY <1>1, <1>2, <1>3 DEF Next, Backend

\* Every step keeps the endpoint in the file.
LEMMA FileCarries ==
  ASSUME FilesOK, ThreadsOK, WindowOK, HistoryOK, QueueOK, JobInv, KindInv,
     LockInv, SetupInv, FileInv, SetterInv, RequestInv, BlobInv, CopiesInv,
     endpoint, ~edited, ~edited', Next PROVE InFile'
<1> USE NameFacts, ConfigFacts DEF fileVars, threadVars, windowVars,
   historyVars, Goes, CopiesInv, SetupInv, FilesOK, ThreadsOK, InFile
<1>1. ASSUME MainTakes \/ Mounts \/ HandEdit \/ Crash
      PROVE  InFile'
  BY <1>1 DEF MainTakes, Mounts, Sends, HandEdit, Crash
<1>2. ASSUME NEW t \in Threads, WorkerStarts(t) \/ Locks(t) \/ Loads(t)
             \/ ReadForWrite(t) \/ Fetches(t) \/ ChangesNothing(t)
             \/ WriteFails(t) \/ Clears(t)
      PROVE  InFile'
  BY <1>2 DEF WorkerStarts, Locks, Loads, Returns, ReadForWrite, Fetches,
     ChangesNothing, WriteFails, Clears
<1>3. ASSUME NEW t \in Threads, Creates(t) PROVE InFile'
  <2>1. Target \in Inodes /\ Target # disk
    BY TargetFacts, TypeParts
  <2> QED
    BY <1>3, <2>1 DEF Creates
<1>4. ASSUME NEW t \in Threads, Fills(t) PROVE InFile'
  BY <1>4 DEF Fills, FileInv
<1>5. ASSUME NEW t \in Threads, Renames(t) PROVE InFile'
  BY <1>5 DEF Renames, Returns, InMemory, FileInv
<1>6. ASSUME NEW r \in Window, Asks(r) \/ Commit(r) \/ Adopts(r) \/ Settles(r)
             \/ Reverts(r) \/ Rereads(r)
      PROVE  InFile'
  BY <1>6 DEF Asks, Sends, Commit, Adopts, Answered, Ends, Settles, Reverts,
     Rereads
<1> HIDE DEF fileVars, threadVars, windowVars, historyVars, Goes, CopiesInv,
   SetupInv, FilesOK, ThreadsOK, InFile
<1> QED
  BY <1>1, <1>2, <1>3, <1>4, <1>5, <1>6 DEF Next, Backend

\* Every step keeps the endpoint in the documents the threads hold.
LEMMA MemoryCarries ==
  ASSUME FilesOK, ThreadsOK, WindowOK, HistoryOK, QueueOK, JobInv, KindInv,
     LockInv, SetupInv, FileInv, SetterInv, RequestInv, BlobInv, CopiesInv,
     endpoint, ~edited, ~edited', Next PROVE InMemory'
<1> USE NameFacts, ConfigFacts DEF fileVars, threadVars, windowVars,
   historyVars, Goes, CopiesInv, SetupInv, FilesOK, ThreadsOK, InMemory
<1>1. ASSUME MainTakes PROVE InMemory'
  <2>1. ipc \in Seq(Requests) /\ Head(ipc) = ipc[1] /\ 1 \in DOMAIN ipc
    BY <1>1, TailFacts DEF MainTakes, QueueOK
  <2>2. Head(ipc).kind = "store" => Carries(Head(ipc).doc)
    BY <2>1 DEF InQueue
  <2>3. /\ pc' = [pc EXCEPT ![Main] = FirstStep(Head(ipc).kind)] /\ job' = Head(ipc)
        /\ doc' = [doc EXCEPT ![Main] = Head(ipc).doc] /\ disk' = disk
    BY <1>1 DEF MainTakes
  <2>4. \A u \in Threads \ {Main} : JobOf(u)' = JobOf(u)
    BY DEF JobOf
  <2>5. JobOf(Main)' = job'
    BY DEF JobOf
  <2> QED
    BY <2>2, <2>3, <2>4, <2>5 DEF FirstStep
<1>2. ASSUME NEW t \in Threads, WorkerStarts(t) PROVE InMemory'
  BY <1>2 DEF WorkerStarts, JobOf, Req, FirstStep
<1>3. ASSUME NEW t \in Threads, Locks(t) PROVE InMemory'
  <2>1. \A u \in Threads \ {t} :
          pc'[u] = pc[u] /\ doc'[u] = doc[u] /\ JobOf(u)' = JobOf(u)
    BY <1>3, BackendFrame DEF Backend
  <2>2. \A u \in Threads \ {t} : pc[u] = "fetch" => disk' = None
    BY <1>3 DEF Locks
  <2>3. /\ pc'[t] \in {"change", "create", "fill", "rename", "clear"} => Carries(doc'[t])
        /\ pc'[t] # "lock" /\ (pc'[t] = "fetch" => disk' = None)
    BY <1>3, JobFacts DEF Locks, KindInv
  <2> QED
    BY <2>1, <2>2, <2>3
<1>4. ASSUME NEW t \in Threads, Loads(t) PROVE InMemory'
  <2>1. \A u \in Threads \ {t} :
          pc'[u] = pc[u] /\ doc'[u] = doc[u] /\ JobOf(u)' = JobOf(u)
    BY <1>4, BackendFrame DEF Backend
  <2>2. \A u \in Threads \ {t} : pc[u] = "fetch" => disk' = None
    BY <1>4 DEF Loads
  <2>3. /\ pc'[t] \in {"change", "create", "fill", "rename", "clear"} => Carries(doc'[t])
        /\ pc'[t] # "lock" /\ (pc'[t] = "fetch" => disk' = None)
    <3>1. CASE disk = None
      BY <1>4, <3>1 DEF Loads
    <3>2. CASE ~(disk = None)
      <4>1. pc'[t] \in {"idle", "done"}
        BY <1>4, <3>2 DEF Loads, Returns
      <4> QED
        BY <4>1
    <3> QED
      BY <3>1, <3>2
  <2> QED
    BY <2>1, <2>2, <2>3
<1>5. ASSUME NEW t \in Threads, ReadForWrite(t) PROVE InMemory'
  <2>1. \A u \in Threads \ {t} :
          pc'[u] = pc[u] /\ doc'[u] = doc[u] /\ JobOf(u)' = JobOf(u)
    BY <1>5, BackendFrame DEF Backend
  <2>2. \A u \in Threads \ {t} : pc[u] = "fetch" => disk' = None
    BY <1>5 DEF ReadForWrite
  <2>3. /\ pc'[t] \in {"change", "create", "fill", "rename", "clear"} => Carries(doc'[t])
        /\ pc'[t] # "lock" /\ (pc'[t] = "fetch" => disk' = None)
    <3>1. CASE disk = None
      <4>1. pc'[t] \in {"fetch", "idle", "done"}
        BY <1>5, <3>1 DEF ReadForWrite, Returns
      <4> QED
        BY <1>5, <3>1, <4>1 DEF ReadForWrite
    <3>2. CASE disk # None
      <4>1. pc'[t] = "change" /\ doc'[t] = Readable
        BY <1>5, <3>2, ReadCarries DEF ReadForWrite
      <4> QED
        BY <3>2, <4>1, ReadCarries
    <3> QED
      BY <3>1, <3>2
  <2> QED
    BY <2>1, <2>2, <2>3
<1>6. ASSUME NEW t \in Threads, Fetches(t) PROVE InMemory'
  <2>1. \A u \in Threads \ {t} :
          pc'[u] = pc[u] /\ doc'[u] = doc[u] /\ JobOf(u)' = JobOf(u)
    BY <1>6, BackendFrame DEF Backend
  <2>2. \A u \in Threads \ {t} : pc[u] = "fetch" => disk' = None
    BY <1>6 DEF Fetches
  <2>3. /\ pc'[t] \in {"change", "create", "fill", "rename", "clear"} => Carries(doc'[t])
        /\ pc'[t] # "lock" /\ (pc'[t] = "fetch" => disk' = None)
    BY <1>6, BlobFacts, CarryFacts, ZenonT(30) DEF Fetches, Returns
  <2> QED
    BY <2>1, <2>2, <2>3
<1>7. ASSUME NEW t \in Threads, ChangesNothing(t) PROVE InMemory'
  <2>1. \A u \in Threads \ {t} :
          pc'[u] = pc[u] /\ doc'[u] = doc[u] /\ JobOf(u)' = JobOf(u)
    BY <1>7, BackendFrame DEF Backend
  <2>2. \A u \in Threads \ {t} : pc[u] = "fetch" => disk' = None
    BY <1>7 DEF ChangesNothing
  <2>3. /\ pc'[t] \in {"change", "create", "fill", "rename", "clear"} => Carries(doc'[t])
        /\ pc'[t] # "lock" /\ (pc'[t] = "fetch" => disk' = None)
    BY <1>7 DEF ChangesNothing, Returns
  <2> QED
    BY <2>1, <2>2, <2>3
<1>8. ASSUME NEW t \in Threads, Creates(t) PROVE InMemory'
  <2>1. \A u \in Threads \ {t} :
          pc'[u] = pc[u] /\ doc'[u] = doc[u] /\ JobOf(u)' = JobOf(u)
    BY <1>8, BackendFrame DEF Backend
  <2>2. \A u \in Threads \ {t} : pc[u] = "fetch" => disk' = None
    BY <1>8 DEF Creates
  <2>4. doc[t] \in Configs /\ Carries(doc[t])
    BY <1>8 DEF Creates
  <2>0. Carries(Outgoing(t))
    BY <1>8, <2>4, OutgoingFacts, CarryFacts, RepairFacts DEF Creates
  <2>3. /\ pc'[t] \in {"change", "create", "fill", "rename", "clear"} => Carries(doc'[t])
        /\ pc'[t] # "lock" /\ (pc'[t] = "fetch" => disk' = None)
    BY <1>8, <2>0 DEF Creates
  <2> QED
    BY <2>1, <2>2, <2>3
<1>9. ASSUME NEW t \in Threads, Fills(t) PROVE InMemory'
  <2>1. \A u \in Threads \ {t} :
          pc'[u] = pc[u] /\ doc'[u] = doc[u] /\ JobOf(u)' = JobOf(u)
    BY <1>9, BackendFrame DEF Backend
  <2>2. \A u \in Threads \ {t} : pc[u] = "fetch" => disk' = None
    BY <1>9 DEF Fills
  <2>3. /\ pc'[t] \in {"change", "create", "fill", "rename", "clear"} => Carries(doc'[t])
        /\ pc'[t] # "lock" /\ (pc'[t] = "fetch" => disk' = None)
    BY <1>9 DEF Fills
  <2> QED
    BY <2>1, <2>2, <2>3
<1>10. ASSUME NEW t \in Threads, Renames(t) PROVE InMemory'
  <2>1. \A u \in Threads \ {t} :
          pc'[u] = pc[u] /\ doc'[u] = doc[u] /\ JobOf(u)' = JobOf(u)
    BY <1>10, BackendFrame DEF Backend
  <2>2. \A u \in Threads \ {t} : pc[u] = "fetch" => disk' = None
    BY <1>10, BlobFacts DEF Renames
  <2>3. /\ pc'[t] \in {"change", "create", "fill", "rename", "clear"} => Carries(doc'[t])
        /\ pc'[t] # "lock" /\ (pc'[t] = "fetch" => disk' = None)
    <3>1. CASE seeding[t]
      BY <1>10, <3>1 DEF Renames
    <3>2. CASE ~(seeding[t])
      <4>1. pc'[t] \in {"idle", "done"}
        BY <1>10, <3>2 DEF Renames, Returns
      <4> QED
        BY <4>1
    <3> QED
      BY <3>1, <3>2
  <2> QED
    BY <2>1, <2>2, <2>3
<1>11. ASSUME NEW t \in Threads, WriteFails(t) PROVE InMemory'
  <2>1. \A u \in Threads \ {t} :
          pc'[u] = pc[u] /\ doc'[u] = doc[u] /\ JobOf(u)' = JobOf(u)
    BY <1>11, BackendFrame DEF Backend
  <2>2. \A u \in Threads \ {t} : pc[u] = "fetch" => disk' = None
    BY <1>11 DEF WriteFails
  <2>3. /\ pc'[t] \in {"change", "create", "fill", "rename", "clear"} => Carries(doc'[t])
        /\ pc'[t] # "lock" /\ (pc'[t] = "fetch" => disk' = None)
    <3>1. CASE (seeding[t] /\ JobOf(t).kind = "set")
      BY <1>11, <3>1 DEF WriteFails
    <3>2. CASE ~(seeding[t] /\ JobOf(t).kind = "set")
      <4>1. pc'[t] \in {"idle", "done"}
        BY <1>11, <3>2 DEF WriteFails, Returns
      <4> QED
        BY <4>1
    <3> QED
      BY <3>1, <3>2
  <2> QED
    BY <2>1, <2>2, <2>3
<1>12. ASSUME NEW t \in Threads, Clears(t) PROVE InMemory'
  <2>1. \A u \in Threads \ {t} :
          pc'[u] = pc[u] /\ doc'[u] = doc[u] /\ JobOf(u)' = JobOf(u)
    BY <1>12, BackendFrame DEF Backend
  <2>2. \A u \in Threads \ {t} : pc[u] = "fetch" => disk' = None
    BY <1>12 DEF Clears
  <2>3. /\ pc'[t] \in {"change", "create", "fill", "rename", "clear"} => Carries(doc'[t])
        /\ pc'[t] # "lock" /\ (pc'[t] = "fetch" => disk' = None)
    <3>1. CASE JobOf(t).kind # "load"
      BY <1>12, <3>1 DEF Clears
    <3>2. CASE ~(JobOf(t).kind # "load")
      <4>1. pc'[t] \in {"idle", "done"}
        BY <1>12, <3>2 DEF Clears, Returns
      <4> QED
        BY <4>1
    <3> QED
      BY <3>1, <3>2
  <2> QED
    BY <2>1, <2>2, <2>3
<1>13. ASSUME Mounts \/ HandEdit \/ Crash
      PROVE  InMemory'
  BY <1>13, ZenonT(30) DEF Mounts, Sends, JobOf, HandEdit, Crash
<1>14. ASSUME NEW r \in Window, Asks(r) \/ Commit(r) \/ Adopts(r)
             \/ Settles(r) \/ Reverts(r) \/ Rereads(r)
      PROVE  InMemory'
  BY <1>14 DEF Asks, Sends, JobOf, Commit, Adopts, Answered, Ends, Settles,
     Reverts, Rereads
<1> HIDE DEF fileVars, threadVars, windowVars, historyVars, Goes, CopiesInv,
   SetupInv, FilesOK, ThreadsOK, InMemory
<1> QED
  BY <1>1, <1>2, <1>3, <1>4, <1>5, <1>6, <1>7, <1>8, <1>9, <1>10, <1>11, <1>12,
     <1>13, <1>14 DEF Next, Backend

\* Every step keeps the endpoint in the documents that wait to be stored.
LEMMA QueueCarries ==
  ASSUME FilesOK, ThreadsOK, WindowOK, HistoryOK, QueueOK, JobInv, KindInv,
     LockInv, SetupInv, FileInv, SetterInv, RequestInv, BlobInv, CopiesInv,
     endpoint, ~edited, ~edited', Next PROVE InQueue'
<1> USE NameFacts, ConfigFacts DEF fileVars, threadVars, windowVars,
   historyVars, Goes, CopiesInv, SetupInv, FilesOK, ThreadsOK, InQueue
<1>1. ASSUME MainTakes PROVE InQueue'
  <2>1. ipc \in Seq(Requests)
    BY DEF QueueOK
  <2> QED
    BY <1>1, <2>1, TailFacts DEF MainTakes
<1>2. ASSUME NEW t \in Threads, WorkerStarts(t) \/ Locks(t) \/ Loads(t)
             \/ ReadForWrite(t) \/ Fetches(t) \/ ChangesNothing(t) \/ Creates(t)
             \/ Fills(t) \/ Renames(t) \/ WriteFails(t) \/ Clears(t)
      PROVE  InQueue'
  BY <1>2 DEF WorkerStarts, Locks, Loads, Returns, ReadForWrite, Fetches,
     ChangesNothing, Creates, Fills, Renames, WriteFails, Clears
<1>3. ASSUME Mounts PROVE InQueue'
  <2>1. Req("load", Mount, Defaults) \in Requests
        /\ (Req("load", Mount, Defaults).kind = "store" => Carries(Req("load", Mount, Defaults).doc))
    BY <1>3, SentFacts, NameFacts DEF Mounts, Req, Window, WindowOK,
       RequestInv,
       WindowInv, InWindow, Answered, Commits
  <2>2. ipc' = Append(ipc, Req("load", Mount, Defaults))
    BY <1>3 DEF Mounts, Sends
  <2>3. ipc \in Seq(Requests)
    BY DEF QueueOK
  <2> QED
    BY <2>1, <2>2, <2>3, AppendFacts
<1>4. ASSUME HandEdit PROVE InQueue'
  BY <1>4 DEF HandEdit
<1>5. ASSUME Crash PROVE InQueue'
  <2>1. ipc' = Setup
    BY <1>5 DEF Crash
  <2>2. \A i \in DOMAIN Setup : Setup[i].kind # "store"
    BY SetupFacts DEF Req
  <2> QED
    BY <2>1, <2>2
<1>6. ASSUME NEW r \in Window, Asks(r) PROVE InQueue'
  <2>1. Req("set", r, Defaults) \in Requests
        /\ (Req("set", r, Defaults).kind = "store" => Carries(Req("set", r, Defaults).doc))
    BY <1>6, SentFacts, NameFacts DEF Asks, Req, Window, WindowOK, RequestInv,
       WindowInv, InWindow, Answered, Commits
  <2>2. ipc' = Append(ipc, Req("set", r, Defaults))
    BY <1>6 DEF Asks, Sends
  <2>3. ipc \in Seq(Requests)
    BY DEF QueueOK
  <2> QED
    BY <2>1, <2>2, <2>3, AppendFacts
<1>7. ASSUME NEW r \in Window, Commit(r) PROVE InQueue'
  <2>a. front \in Configs /\ r \in Setters \cup Commits /\ Carries(front)
    BY <1>7 DEF Commit, WindowOK, InWindow
  <2>0. [front EXCEPT ![Section(r)] = r] \in Configs /\ Carries([front EXCEPT ![Section(r)] = r])
    BY <2>a, ChangeCarries
  <2>1. Req("store", r, [front EXCEPT ![Section(r)] = r]) \in Requests
        /\ (Req("store", r, [front EXCEPT ![Section(r)] = r]).kind = "store" => Carries(Req("store", r, [front EXCEPT ![Section(r)] = r]).doc))
    BY <1>7, <2>0, SentFacts, ChangeFacts, CarryFacts, NameFacts DEF Commit,
       Req,
       Window, WindowOK, RequestInv, WindowInv, InWindow, Answered, Commits
  <2>2. ipc' = Append(ipc, Req("store", r, [front EXCEPT ![Section(r)] = r]))
    BY <1>7 DEF Commit, Sends
  <2>3. ipc \in Seq(Requests)
    BY DEF QueueOK
  <2> QED
    BY <2>1, <2>2, <2>3, AppendFacts
<1>8. ASSUME NEW r \in Window, Adopts(r) \/ Settles(r)
      PROVE  InQueue'
  BY <1>8 DEF Adopts, Answered, Ends, Settles
<1>9. ASSUME NEW r \in Window, Reverts(r) PROVE InQueue'
  <2>1. Req("store", r, prev) \in Requests
        /\ (Req("store", r, prev).kind = "store" => Carries(Req("store", r, prev).doc))
    BY <1>9, SentFacts, NameFacts DEF Reverts, Req, Window, WindowOK,
       RequestInv,
       WindowInv, InWindow, Answered, Commits
  <2>2. ipc' = Append(ipc, Req("store", r, prev))
    BY <1>9 DEF Reverts, Sends
  <2>3. ipc \in Seq(Requests)
    BY DEF QueueOK
  <2> QED
    BY <2>1, <2>2, <2>3, AppendFacts
<1>10. ASSUME NEW r \in Window, Rereads(r) PROVE InQueue'
  <2>1. Req("load", r, Defaults) \in Requests
        /\ (Req("load", r, Defaults).kind = "store" => Carries(Req("load", r, Defaults).doc))
    BY <1>10, SentFacts, NameFacts DEF Rereads, Req, Window, WindowOK,
       RequestInv,
       WindowInv, InWindow, Answered, Commits
  <2>2. ipc' = Append(ipc, Req("load", r, Defaults))
    BY <1>10 DEF Rereads, Sends
  <2>3. ipc \in Seq(Requests)
    BY DEF QueueOK
  <2> QED
    BY <2>1, <2>2, <2>3, AppendFacts
<1> HIDE DEF fileVars, threadVars, windowVars, historyVars, Goes, CopiesInv,
   SetupInv, FilesOK, ThreadsOK, InQueue
<1> QED
  BY <1>1, <1>2, <1>3, <1>4, <1>5, <1>6, <1>7, <1>8, <1>9, <1>10 DEF Next,
     Backend

\* Every step keeps the endpoint in the window's copies and its answers.
LEMMA WindowCarries ==
  ASSUME FilesOK, ThreadsOK, WindowOK, HistoryOK, QueueOK, JobInv, KindInv,
     LockInv, SetupInv, FileInv, SetterInv, RequestInv, BlobInv, CopiesInv,
     endpoint, ~edited, ~edited', Next PROVE InWindow'
<1> USE NameFacts, ConfigFacts DEF fileVars, threadVars, windowVars,
   historyVars, Goes, CopiesInv, SetupInv, FilesOK, ThreadsOK, InWindow,
   WindowOK
<1>1. ASSUME MainTakes \/ HandEdit
      PROVE  InWindow'
  BY <1>1, BlobFacts DEF MainTakes, HandEdit
<1>2. ASSUME NEW t \in Threads, WorkerStarts(t) \/ Locks(t) \/ Loads(t)
             \/ Fetches(t) \/ Creates(t) \/ Fills(t) \/ Renames(t) \/ Clears(t)
      PROVE  InWindow'
  <2>1. CASE Loads(t)
    <3>1. CASE disk = None
      BY <2>1, <3>1 DEF Loads
    <3>2. CASE disk # None
      <4>1. front' = front /\ prev' = prev
        BY <2>1, <3>2 DEF Loads, Returns
      <4>2. answer' = answer \/ answer' = [answer EXCEPT ![JobOf(t).by] = Readable]
        BY <2>1, <3>2 DEF Loads, Returns
      <4>3. Carries(Readable)
        BY <3>2, ReadCarries
      <4> QED
        BY <4>1, <4>2, <4>3
    <3> QED
      BY <3>1, <3>2
  <2> QED
    BY <1>2, <2>1, BlobFacts, ZenonT(30) DEF WorkerStarts, Locks, Returns,
       Fetches, InMemory, Creates, Fills, Renames, Clears
<1>3. ASSUME NEW t \in Threads, ReadForWrite(t) PROVE InWindow'
  <2>1. front' = front /\ prev' = prev
    BY <1>3 DEF ReadForWrite, Returns
  <2>2. answer' = answer \/ answer' = [answer EXCEPT ![JobOf(t).by] = Failed]
    BY <1>3 DEF ReadForWrite, Returns
  <2> QED
    BY <2>1, <2>2, CarryFacts
<1>4. ASSUME NEW t \in Threads, ChangesNothing(t) PROVE InWindow'
  <2>1. front' = front /\ prev' = prev
    BY <1>4 DEF ChangesNothing, Returns
  <2>2. \/ answer' = answer \/ answer' = [answer EXCEPT ![JobOf(t).by] = Failed]
        \/ answer' = [answer EXCEPT ![JobOf(t).by] = doc[t]]
    BY <1>4 DEF ChangesNothing, Returns
  <2>3. Carries(doc[t])
    BY <1>4 DEF ChangesNothing, InMemory
  <2> QED
    BY <2>1, <2>2, <2>3, CarryFacts
<1>5. ASSUME NEW t \in Threads, WriteFails(t) PROVE InWindow'
  <2>1. front' = front /\ prev' = prev
    BY <1>5 DEF WriteFails, Returns
  <2>2. \/ answer' = answer \/ answer' = [answer EXCEPT ![JobOf(t).by] = Failed]
        \/ answer' = [answer EXCEPT ![JobOf(t).by] = doc[t]]
    BY <1>5 DEF WriteFails, Returns
  <2>3. Carries(doc[t])
    BY <1>5 DEF WriteFails, InMemory, FileInv
  <2> QED
    BY <2>1, <2>2, <2>3, CarryFacts
<1>6. ASSUME Mounts PROVE InWindow'
  <2>1. front' = front /\ prev' = prev /\ answer' = [answer EXCEPT ![Mount] = None]
    BY <1>6 DEF Mounts, Sends
  <2> QED
    BY <2>1, CarryFacts
<1>7. ASSUME Crash PROVE InWindow'
  <2>1. front' = None /\ prev' = None /\ answer' = [r \in Window |-> None]
    BY <1>7 DEF Crash
  <2> QED
    BY <2>1, CarryFacts
<1>8. ASSUME NEW r \in Window, Asks(r) PROVE InWindow'
  <2>1. front' = front /\ prev' = prev /\ answer' = [answer EXCEPT ![r] = None]
    BY <1>8 DEF Asks, Sends
  <2> QED
    BY <2>1, CarryFacts
<1>9. ASSUME NEW r \in Window, Commit(r) PROVE InWindow'
  <2>a. front \in Configs /\ r \in Setters \cup Commits /\ Carries(front)
    BY <1>9 DEF Commit
  <2>0. Carries([front EXCEPT ![Section(r)] = r])
    BY <2>a, ChangeCarries
  <2>1. front' = [front EXCEPT ![Section(r)] = r] /\ prev' \in {prev, front}
        /\ answer' = [answer EXCEPT ![r] = None]
    BY <1>9 DEF Commit, Sends
  <2> QED
    BY <2>0, <2>1, CarryFacts
<1>10. ASSUME NEW r \in Window, Adopts(r) PROVE InWindow'
  <2>1. front' = answer[r] /\ prev' \in {prev, None}
        /\ answer' = [answer EXCEPT ![r] = None]
    BY <1>10 DEF Adopts, Ends
  <2> QED
    BY <2>1, CarryFacts
<1>11. ASSUME NEW r \in Window, Settles(r) PROVE InWindow'
  <2>1. front' = front /\ prev' \in {prev, None}
        /\ answer' = [answer EXCEPT ![r] = None]
    BY <1>11 DEF Settles, Ends
  <2> QED
    BY <2>1, CarryFacts
<1>12. ASSUME NEW r \in Window, Reverts(r) PROVE InWindow'
  <2>1. front' = prev /\ prev' = prev
        /\ answer' = [answer EXCEPT ![r] = None]
    BY <1>12 DEF Reverts, Sends
  <2> QED
    BY <2>1, CarryFacts
<1>13. ASSUME NEW r \in Window, Rereads(r) PROVE InWindow'
  <2>1. front' = front /\ prev' = prev /\ answer' = [answer EXCEPT ![r] = None]
    BY <1>13 DEF Rereads, Sends
  <2> QED
    BY <2>1, CarryFacts
<1> HIDE DEF fileVars, threadVars, windowVars, historyVars, Goes, CopiesInv,
   SetupInv, FilesOK, ThreadsOK, InWindow, WindowOK
<1> QED
  BY <1>1, <1>2, <1>3, <1>4, <1>5, <1>6, <1>7, <1>8, <1>9, <1>10, <1>11, <1>12,
     <1>13 DEF Next, Backend

\* A request whose turn it is may be sent: nothing of the same origin waits.
LEMMA PendingSend ==
  ASSUME QueueOK, JobInv, WindowOK, PendingInv,
         NEW x \in Requests, NEW to \in {"sent", "reverting", "rereading"},
         x.by \in Window, step[x.by] = "idle" \/ answer[x.by] # None,
         x.kind = "load" <=> x.by = Mount \/ to = "rereading",
         ipc' = Append(ipc, x), pc' = pc, job' = job,
         step' = [step EXCEPT ![x.by] = to], answer' = [answer EXCEPT ![x.by] = None]
  PROVE  PendingInv'
<1> USE NameFacts, ConfigFacts
<1>1. ipc \in Seq(Requests)
  BY DEF QueueOK
<1>2. /\ pc[Main] # "idle" => job.by # x.by
      /\ \A i \in DOMAIN ipc : ipc[i].by # x.by
  BY DEF PendingInv, Awaited, Outstanding
<1>3. /\ x.by \in Outstanding' /\ answer'[x.by] = None /\ step'[x.by] = to
      /\ \A w \in Window \ {x.by} :
           /\ step'[w] = step[w] /\ answer'[w] = answer[w]
           /\ w \in Outstanding' <=> w \in Outstanding
  BY DEF WindowOK, Outstanding
<1>4. pc'[Main] # "idle" => Awaited(job)'
  BY <1>2, <1>3 DEF PendingInv, Awaited
<1>5. \A i \in DOMAIN ipc : ipc[i].by \in Window =>
        /\ ipc[i].by \in Outstanding' /\ answer'[ipc[i].by] = None
        /\ ipc[i].kind = "load" <=> ipc[i].by = Mount \/ step'[ipc[i].by] = "rereading"
  BY <1>2, <1>3 DEF PendingInv, Awaited
<1>6. \A i \in DOMAIN ipc' : Awaited(ipc[i])'
  BY <1>1, <1>3, <1>5, AppendFacts DEF Awaited
<1>7. \A i \in DOMAIN ipc' : pc'[Main] # "idle" => ipc'[i].by # job'.by
  BY <1>1, <1>2, AppendFacts DEF PendingInv
<1>8. \A i, j \in DOMAIN ipc' : ipc'[i].by = ipc'[j].by => i = j
  BY <1>1, <1>2, AppendFacts DEF PendingInv
<1> QED
  BY <1>4, <1>6, <1>7, <1>8 DEF PendingInv

\* Every step keeps one request of an origin under way, and it awaited.
LEMMA PendingStep ==
  ASSUME ThreadsOK, WindowOK, QueueOK, JobInv, KindInv, SetupInv, RequestInv,
     Next PROVE PendingInv'
<1> USE NameFacts, ConfigFacts DEF fileVars, threadVars, windowVars,
   historyVars, Goes, RequestInv, PendingInv, Awaited, Outstanding, QueueOK,
   JobInv, ThreadsOK, WindowOK
<1>1. ASSUME MainTakes PROVE PendingInv'
  <2>1. ipc \in Seq(Requests) /\ ipc # <<>> /\ pc[Main] = "idle"
    BY <1>1 DEF MainTakes
  <2>2. /\ ipc' = Tail(ipc) /\ job' = ipc[1] /\ 1 \in DOMAIN ipc
        /\ step' = step /\ answer' = answer
    BY <1>1, <2>1, TailFacts DEF MainTakes
  <2>3. \A i \in DOMAIN ipc' :
          i \in Nat /\ i + 1 \in DOMAIN ipc /\ ipc'[i] = ipc[i + 1] /\ i + 1 # 1
    BY <2>1, <2>2, TailFacts
  <2>4. Awaited(job)' /\ \A i \in DOMAIN ipc' : Awaited(ipc[i])'
    BY <2>2, <2>3
  <2>5. \A i \in DOMAIN ipc' : ipc'[i].by # job'.by
    BY <2>2, <2>3
  <2>6. \A i, j \in DOMAIN ipc' : ipc'[i].by = ipc'[j].by => i = j
    <3>1. ASSUME NEW i \in DOMAIN ipc', NEW j \in DOMAIN ipc', ipc'[i].by = ipc'[j].by
          PROVE  i = j
      <4>1. i + 1 = j + 1
        BY <2>3, <3>1
      <4> QED
        BY <2>3, <4>1
    <3> QED
      BY <3>1
  <2> QED
    BY <2>4, <2>5, <2>6
<1>2. ASSUME NEW t \in Threads, WorkerStarts(t) \/ Locks(t) \/ Loads(t)
             \/ ReadForWrite(t) \/ Fetches(t) \/ ChangesNothing(t) \/ Creates(t)
             \/ Fills(t) \/ Renames(t) \/ WriteFails(t) \/ Clears(t)
      PROVE  PendingInv'
  BY <1>2, JobFacts DEF WorkerStarts, FirstStep, Locks, Loads, Returns,
     ReadForWrite, Fetches, ChangesNothing, Creates, Fills, Renames,
     WriteFails, Clears
<1>3. ASSUME Mounts PROVE PendingInv'
  <2>1. /\ Req("load", Mount, Defaults) \in Requests /\ Req("load", Mount, Defaults).by = Mount
        /\ Mount \in Window
        /\ Req("load", Mount, Defaults).kind = "load" <=> Mount = Mount \/ "sent" = "rereading"
    BY <1>3, SentFacts DEF Mounts, Req, Window, Commits
  <2>2. /\ ipc' = Append(ipc, Req("load", Mount, Defaults))
        /\ pc' = pc /\ job' = job /\ step' = [step EXCEPT ![Mount] = "sent"]
        /\ answer' = [answer EXCEPT ![Mount] = None]
    BY <1>3 DEF Mounts, Sends
  <2>3. QED
    <3> DEFINE x == Req("load", Mount, Defaults)
    <3>1. /\ x \in Requests /\ x.by \in Window
          /\ x.kind = "load" <=> x.by = Mount \/ "sent" = "rereading"
      BY <2>1
    <3>2. step[x.by] = "idle" \/ answer[x.by] # None
      BY <1>3, <2>1 DEF Mounts, Answered
    <3>3. /\ ipc' = Append(ipc, x) /\ pc' = pc /\ job' = job
          /\ step' = [step EXCEPT ![x.by] = "sent"]
          /\ answer' = [answer EXCEPT ![x.by] = None]
      BY <2>1, <2>2
    <3> HIDE DEF x
    <3> QED
      BY <3>1, <3>2, <3>3, PendingSend
<1>4. ASSUME HandEdit PROVE PendingInv'
  BY <1>4, JobFacts DEF HandEdit
<1>5. ASSUME Crash PROVE PendingInv'
  <2>1. ipc' = Setup /\ pc'[Main] = "idle"
    BY <1>5 DEF Crash
  <2>2. DOMAIN Setup = {1, 2} /\ Setup[1].by = Boot /\ Setup[2].by = Scan /\ Boot # Scan
    BY DEF Setup, Req, Boot, Scan
  <2> QED
    BY <2>1, <2>2
<1>6. ASSUME NEW r \in Window, Asks(r) PROVE PendingInv'
  <2>1. /\ Req("set", r, Defaults) \in Requests /\ Req("set", r, Defaults).by = r
        /\ r \in Window
        /\ Req("set", r, Defaults).kind = "load" <=> r = Mount \/ "sent" = "rereading"
    BY <1>6, SentFacts DEF Asks, Req, Window, Commits
  <2>2. /\ ipc' = Append(ipc, Req("set", r, Defaults))
        /\ pc' = pc /\ job' = job /\ step' = [step EXCEPT ![r] = "sent"]
        /\ answer' = [answer EXCEPT ![r] = None]
    BY <1>6 DEF Asks, Sends
  <2>3. QED
    <3> DEFINE x == Req("set", r, Defaults)
    <3>1. /\ x \in Requests /\ x.by \in Window
          /\ x.kind = "load" <=> x.by = Mount \/ "sent" = "rereading"
      BY <2>1
    <3>2. step[x.by] = "idle" \/ answer[x.by] # None
      BY <1>6, <2>1 DEF Asks, Answered
    <3>3. /\ ipc' = Append(ipc, x) /\ pc' = pc /\ job' = job
          /\ step' = [step EXCEPT ![x.by] = "sent"]
          /\ answer' = [answer EXCEPT ![x.by] = None]
      BY <2>1, <2>2
    <3> HIDE DEF x
    <3> QED
      BY <3>1, <3>2, <3>3, PendingSend
<1>7. ASSUME NEW r \in Window, Commit(r) PROVE PendingInv'
  <2>a. front \in Configs /\ r \in Setters \cup Commits
    BY <1>7 DEF Commit, WindowOK
  <2>b. [front EXCEPT ![Section(r)] = r] \in Configs
    BY <2>a, ChangeFacts
  <2> DEFINE x == Req("store", r, [front EXCEPT ![Section(r)] = r])
  <2>1. /\ x \in Requests /\ x.by = r
        /\ r \in Window
        /\ x.kind = "load" <=> r = Mount \/ "sent" = "rereading"
    BY <1>7, SentFacts, <2>b DEF Commit, Req, Window, Commits
  <2>2. /\ ipc' = Append(ipc, x)
        /\ pc' = pc /\ job' = job /\ step' = [step EXCEPT ![r] = "sent"]
        /\ answer' = [answer EXCEPT ![r] = None]
    BY <1>7 DEF Commit, Sends
  <2> HIDE DEF x
  <2>3. QED
    BY <2>1, <2>2, PendingSend, <1>7 DEF Commit, Answered
<1>8. ASSUME NEW r \in Window, Adopts(r) \/ Settles(r)
      PROVE  PendingInv'
  BY <1>8, JobFacts DEF Adopts, Answered, Ends, Settles
<1>9. ASSUME NEW r \in Window, Reverts(r) PROVE PendingInv'
  <2>a. prev \in Configs
    BY <1>9 DEF Reverts, WindowInv, Answered, WindowOK, Window, Commits
  <2>1. /\ Req("store", r, prev) \in Requests /\ Req("store", r, prev).by = r
        /\ r \in Window
        /\ Req("store", r, prev).kind = "load" <=> r = Mount \/ "reverting" = "rereading"
    BY <1>9, SentFacts, <2>a DEF Reverts, Req, Window, Commits
  <2>2. /\ ipc' = Append(ipc, Req("store", r, prev))
        /\ pc' = pc /\ job' = job /\ step' = [step EXCEPT ![r] = "reverting"]
        /\ answer' = [answer EXCEPT ![r] = None]
    BY <1>9 DEF Reverts, Sends
  <2>3. QED
    <3> DEFINE x == Req("store", r, prev)
    <3>1. /\ x \in Requests /\ x.by \in Window
          /\ x.kind = "load" <=> x.by = Mount \/ "reverting" = "rereading"
      BY <2>1
    <3>2. step[x.by] = "idle" \/ answer[x.by] # None
      BY <1>9, <2>1 DEF Reverts, Answered
    <3>3. /\ ipc' = Append(ipc, x) /\ pc' = pc /\ job' = job
          /\ step' = [step EXCEPT ![x.by] = "reverting"]
          /\ answer' = [answer EXCEPT ![x.by] = None]
      BY <2>1, <2>2
    <3> HIDE DEF x
    <3> QED
      BY <3>1, <3>2, <3>3, PendingSend
<1>10. ASSUME NEW r \in Window, Rereads(r) PROVE PendingInv'
  <2>1. /\ Req("load", r, Defaults) \in Requests /\ Req("load", r, Defaults).by = r
        /\ r \in Window
        /\ Req("load", r, Defaults).kind = "load" <=> r = Mount \/ "rereading" = "rereading"
    BY <1>10, SentFacts DEF Rereads, Req, Window, Commits
  <2>2. /\ ipc' = Append(ipc, Req("load", r, Defaults))
        /\ pc' = pc /\ job' = job /\ step' = [step EXCEPT ![r] = "rereading"]
        /\ answer' = [answer EXCEPT ![r] = None]
    BY <1>10 DEF Rereads, Sends
  <2>3. QED
    <3> DEFINE x == Req("load", r, Defaults)
    <3>1. /\ x \in Requests /\ x.by \in Window
          /\ x.kind = "load" <=> x.by = Mount \/ "rereading" = "rereading"
      BY <2>1
    <3>2. step[x.by] = "idle" \/ answer[x.by] # None
      BY <1>10, <2>1 DEF Rereads, Answered
    <3>3. /\ ipc' = Append(ipc, x) /\ pc' = pc /\ job' = job
          /\ step' = [step EXCEPT ![x.by] = "rereading"]
          /\ answer' = [answer EXCEPT ![x.by] = None]
      BY <2>1, <2>2
    <3> HIDE DEF x
    <3> QED
      BY <3>1, <3>2, <3>3, PendingSend
<1> HIDE DEF fileVars, threadVars, windowVars, historyVars, Goes, RequestInv,
   PendingInv, Awaited, Outstanding, QueueOK, JobInv, ThreadsOK, WindowOK
<1> QED
  BY <1>1, <1>2, <1>3, <1>4, <1>5, <1>6, <1>7, <1>8, <1>9, <1>10 DEF Next,
     Backend

\* Every step keeps the window's bookkeeping.
LEMMA WindowStep ==
  ASSUME ThreadsOK, WindowOK, QueueOK, JobInv, KindInv, SetupInv, RequestInv,
     Next PROVE WindowInv'
<1> USE NameFacts, ConfigFacts DEF fileVars, threadVars, windowVars,
   historyVars, Goes, RequestInv, WindowInv, Outstanding, ThreadsOK, WindowOK,
   Window, Commits
<1>1. ASSUME MainTakes \/ Mounts \/ HandEdit \/ Crash
      PROVE  WindowInv'
  BY <1>1 DEF MainTakes, Mounts, Sends, HandEdit, Crash
<1>2. ASSUME NEW t \in Threads, WorkerStarts(t) \/ Locks(t) \/ Loads(t)
             \/ ReadForWrite(t) \/ Fetches(t) \/ ChangesNothing(t) \/ Creates(t)
             \/ Fills(t) \/ Renames(t) \/ WriteFails(t) \/ Clears(t)
      PROVE  WindowInv'
  BY <1>2 DEF WorkerStarts, Locks, Loads, Returns, ReadForWrite, Fetches,
     ChangesNothing, Creates, Fills, Renames, WriteFails, Clears
<1>3. ASSUME NEW r \in Window, Asks(r) \/ Adopts(r) \/ Settles(r)
             \/ Reverts(r) \/ Rereads(r)
      PROVE  WindowInv'
  BY <1>3 DEF Asks, Sends, Adopts, Answered, Ends, Settles, Reverts, Rereads
<1>4. ASSUME NEW r \in Window, Commit(r) PROVE WindowInv'
  <2>1. front \in Configs /\ r \in Setters \cup Commits
    BY <1>4 DEF Commit
  <2>2. front' \in Configs
    BY <1>4, <2>1, ChangeFacts DEF Commit
  <2>3. /\ prev' = (IF r \in Settings THEN front ELSE prev)
        /\ step' = [step EXCEPT ![r] = "sent"] /\ r \in Commits /\ step[r] = "idle"
        /\ r \in Settings => Outstanding \cap Settings = {}
    BY <1>4 DEF Commit
  <2> QED
    BY <2>1, <2>2, <2>3
<1> HIDE DEF fileVars, threadVars, windowVars, historyVars, Goes, RequestInv,
   WindowInv, Outstanding, ThreadsOK, WindowOK, Window, Commits
<1> QED
  BY <1>1, <1>2, <1>3, <1>4 DEF Next, Backend

\* What the running request of the window is.
LEMMA JobOfWindow ==
  ASSUME QueueOK, JobInv, UpInv, PendingInv, up, pc[Main] # "idle"
  PROVE  /\ job.by \in Window /\ job.by \in Outstanding /\ answer[job.by] = None
         /\ job.kind = "load" <=> job.by = Mount \/ step[job.by] = "rereading"
         /\ job.kind = "set" <=> job.by \in Dedicated
         /\ job.kind = "store" => job.by \in Commits
         /\ job.kind = "store" <=> ~Sole(job.by)
         /\ job.kind \in {"load", "set", "store"}
<1>1. job \in Requests /\ Shape(job) /\ job.by \in Window /\ Awaited(job)
  BY NameFacts DEF JobInv, QueueOK, NoJob, UpInv, PendingInv
<1> QED
  BY <1>1, NameFacts DEF Requests, Shape, Awaited, Sole, Window, Commits

\* What a waiting request of the window is.
LEMMA QueueOfWindow ==
  ASSUME QueueOK, JobInv, UpInv, PendingInv, up, NEW i \in DOMAIN ipc
  PROVE  /\ ipc[i].by \in Window /\ ipc[i].by \in Outstanding
         /\ answer[ipc[i].by] = None
         /\ ipc[i].kind = "store" => ~Sole(ipc[i].by)
<1>1. ipc[i] \in Requests /\ Shape(ipc[i]) /\ ipc[i].by \in Window /\ Awaited(ipc[i])
  BY NameFacts DEF JobInv, QueueOK, UpInv, PendingInv
<1> QED
  BY <1>1, NameFacts DEF Requests, Shape, Awaited, Sole, Window, Commits

\* With nothing outstanding, or only what has been answered, nothing runs.
LEMMA AllAnswered ==
  ASSUME QueueOK, JobInv, UpInv, PendingInv, up,
         \A w \in Outstanding : answer[w] # None
  PROVE  ~Under
<1>1. pc[Main] = "idle"
  BY JobOfWindow
<1>2. ipc = <<>>
  <2>1. SUFFICES ASSUME ipc # <<>> PROVE FALSE
    OBVIOUS
  <2>2. 1 \in DOMAIN ipc
    BY <2>1, TailFacts DEF QueueOK
  <2> QED
    BY <2>2, QueueOfWindow
<1> QED
  BY <1>1, <1>2 DEF Under

\* A reader finds the same as long as the file stays the same.
LEMMA ReadableKept ==
  ASSUME disk' = disk, disk # None => content'[disk] = content[disk]
  PROVE  Readable' = Readable
BY DEF Readable, Held

\* The main thread goes on with its operation.
LEMMA MainGoesOn ==
  ASSUME ViewInv, JobInv, QueueOK, pc[Main] # "idle", pc'[Main] # "idle",
         UNCHANGED <<job, ipc, answer, step, front, up, drift>>,
         Readable' = Readable, job.kind = "store" => Same(doc'[Main], doc[Main]),
         pc'[Main] = "fetch" => disk' = None
  PROVE  ViewInv'
<1>1. SUFFICES ASSUME up, ~drift
               PROVE  /\ LastStore' /\ RunningStore' /\ SoleInv' /\ SettledInv' /\ FetchInv'
  BY DEF ViewInv
<1>2. LastStore /\ RunningStore /\ SoleInv
  BY <1>1 DEF ViewInv
<1>3. Outstanding' = Outstanding /\ \A r \in Window : Sole(r)' = Sole(r)
  BY DEF Outstanding, Sole
<1>4. LastStore' /\ RunningStore' /\ FetchInv'
  BY <1>2 DEF LastStore, RunningStore, FetchInv, Same
<1>5. SoleInv'
  BY <1>2, <1>3 DEF SoleInv
<1>6. SettledInv'
  BY DEF SettledInv, Under
<1> QED
  BY <1>4, <1>5, <1>6

\* It returns: the outcome tells the window what is in the file.
LEMMA MainReturns ==
  ASSUME ViewInv, JobInv, QueueOK, WindowOK, ThreadsOK, PendingInv, UpInv, up,
         pc[Main] # "idle", pc'[Main] = "idle",
         UNCHANGED <<ipc, step, front, up>>, drift' = drift,
         NEW result \in Configs \cup {Failed},
         answer' = [answer EXCEPT ![job.by] = result],
         \/ result = Failed /\ Readable' = Readable /\ job.kind # "load"
         \/ result \in Configs /\ Same(result, Readable')
            /\ (job.kind = "store" => result = doc[Main])
  PROVE  ViewInv'
<1> USE ConfigFacts, NameFacts
<1>1. SUFFICES ASSUME ~drift
               PROVE  /\ LastStore' /\ RunningStore' /\ SoleInv' /\ SettledInv' /\ FetchInv'
  BY DEF ViewInv
<1>2. LastStore /\ RunningStore /\ SoleInv
  BY <1>1 DEF ViewInv
<1> DEFINE r == job.by
<1>3. /\ r \in Window /\ r \in Outstanding /\ answer[r] = None
      /\ job.kind = "set" <=> r \in Dedicated
      /\ job.kind = "store" => r \in Commits
      /\ job.kind = "store" <=> ~Sole(r)
  BY JobOfWindow
<1>4. Outstanding' = Outstanding /\ \A q \in Window : Sole(q)' = Sole(q)
  BY DEF Outstanding, Sole
<1>5. answer'[r] = result /\ \A q \in Window \ {r} : answer'[q] = answer[q]
  BY <1>3 DEF WindowOK
<1> HIDE DEF r
<1>6. LastStore' /\ RunningStore' /\ FetchInv'
  BY <1>2 DEF LastStore, RunningStore, FetchInv
<1>7. SoleInv'
  <2>1. SUFFICES ASSUME NEW q \in Window, Sole(q)
                 PROVE  /\ Outstanding = {q}
                        /\ answer'[q] \in Configs => Same(answer'[q], Readable')
                        /\ q \in Dedicated /\ answer'[q] \notin Configs =>
                             Same(front, Readable')
    BY <1>4 DEF SoleInv
  <2>2. Outstanding = {q} /\ q = r
    BY <1>2, <1>3, <2>1 DEF SoleInv
  <2>3. q \in Dedicated => Same(front, Readable)
    BY <1>2, <1>3, <2>1, <2>2 DEF SoleInv
  <2> QED
    BY <1>5, <2>2, <2>3
<1>8. SettledInv'
  <2>1. SUFFICES ASSUME ipc = <<>>, \A q \in Window : ~Sole(q),
                        \A q \in Commits \cap Outstanding : answer'[q] # Failed
                 PROVE  Same(front, Readable')
    BY <1>4 DEF SettledInv, Under
  <2>2. job.kind = "store" /\ r \in Commits
    BY <1>3, <2>1
  <2>3. result = doc[Main] /\ Same(result, Readable')
    BY <1>3, <1>5, <2>1, <2>2
  <2> QED
    BY <1>2, <2>1, <2>2, <2>3 DEF RunningStore, Same
<1> QED
  BY <1>6, <1>7, <1>8

\* A worker writes under the window's eyes only behind its back.
LEMMA WorkerView ==
  ASSUME ViewInv, UNCHANGED <<job, ipc, answer, step, front, up>>, drift => drift',
         pc'[Main] = pc[Main], doc'[Main] = doc[Main],
         ~drift' => Readable' = Readable /\ disk' = disk
  PROVE  ViewInv'
<1>1. SUFFICES ASSUME up, ~drift, ~drift'
               PROVE  /\ LastStore' /\ RunningStore' /\ SoleInv' /\ SettledInv' /\ FetchInv'
  BY DEF ViewInv
<1>2. LastStore /\ RunningStore /\ SoleInv /\ SettledInv /\ FetchInv
  BY <1>1 DEF ViewInv
<1>3. Outstanding' = Outstanding /\ \A r \in Window : Sole(r)' = Sole(r)
  BY DEF Outstanding, Sole
<1>4. LastStore' /\ RunningStore' /\ FetchInv'
  BY <1>1, <1>2 DEF LastStore, RunningStore, FetchInv
<1>5. SoleInv'
  BY <1>1, <1>2, <1>3 DEF SoleInv
<1>6. SettledInv'
  BY <1>1, <1>2, <1>3 DEF SettledInv, Under
<1> QED
  BY <1>4, <1>5, <1>6

\* The last return of the setup finds no window.
LEMMA SetupView ==
  ASSUME StartInv, ~up, ipc' = <<>> \/ ~up', pc'[Main] = "idle",
         UNCHANGED <<step, front>>
  PROVE  ViewInv'
BY ConfigFacts DEF StartInv, ViewInv, LastStore, RunningStore, SoleInv,
   SettledInv,
   FetchInv, Outstanding, Sole

\* What else a step of the backend leaves alone.
LEMMA BackendEnds ==
  ASSUME ThreadsOK, NEW t \in Threads, Backend(t)
  PROVE  /\ t # Main => job' = job
         /\ JobOf(t).by \notin Window => answer' = answer
         /\ up => up'
         /\ ~up /\ up' => JobOf(t).by = Scan /\ (t = Main => pc'[t] = "idle")
<1> DEFINE Q == /\ t # Main => job' = job
                /\ JobOf(t).by \notin Window => answer' = answer
                /\ up => up'
                /\ ~up /\ up' => JobOf(t).by = Scan /\ (t = Main => pc'[t] = "idle")
<1> USE DEF ThreadsOK, Goes
<1>1. ASSUME NEW result, Returns(t, result) PROVE Q
  BY <1>1 DEF Returns
<1> USE DEF windowVars, fileVars
<1>2. CASE Locks(t)
  BY <1>2 DEF Locks
<1>3. CASE Loads(t)
  BY <1>1, <1>3 DEF Loads
<1>4. CASE ReadForWrite(t)
  BY <1>1, <1>4 DEF ReadForWrite
<1>5. CASE Fetches(t)
  BY <1>1, <1>5 DEF Fetches
<1>6. CASE ChangesNothing(t)
  BY <1>1, <1>6 DEF ChangesNothing
<1>7. CASE Creates(t)
  BY <1>7 DEF Creates
<1>8. CASE Fills(t)
  BY <1>8 DEF Fills
<1>9. CASE Renames(t)
  BY <1>1, <1>9 DEF Renames
<1>10. CASE WriteFails(t)
  BY <1>1, <1>10 DEF WriteFails
<1>11. CASE Clears(t)
  BY <1>1, <1>11 DEF Clears
<1> HIDE DEF ThreadsOK, Goes, windowVars, fileVars
<1> QED
  BY <1>2, <1>3, <1>4, <1>5, <1>6, <1>7, <1>8, <1>9, <1>10, <1>11 DEF Backend

\* Only the scan of the setup ends the setup.
LEMMA UpFrame ==
  ASSUME NEW t \in Threads, Backend(t), JobOf(t).by # Scan, up \in BOOLEAN
  PROVE  up' = up
<1>1. ASSUME NEW result, Returns(t, result) PROVE up' = up
  BY <1>1, Zenon DEF Returns
<1>2. CASE Locks(t)
  BY <1>1, <1>2, Zenon DEF Locks
<1>3. CASE Loads(t)
  BY <1>1, <1>3, Zenon DEF Loads
<1>4. CASE ReadForWrite(t)
  BY <1>1, <1>4, Zenon DEF ReadForWrite
<1>5. CASE Fetches(t)
  BY <1>1, <1>5, Zenon DEF Fetches
<1>6. CASE ChangesNothing(t)
  BY <1>1, <1>6, Zenon DEF ChangesNothing
<1>7. CASE Creates(t)
  BY <1>1, <1>7, Zenon DEF Creates
<1>8. CASE Fills(t)
  BY <1>1, <1>8, Zenon DEF Fills
<1>9. CASE Renames(t)
  BY <1>1, <1>9, Zenon DEF Renames
<1>10. CASE WriteFails(t)
  BY <1>1, <1>10, Zenon DEF WriteFails
<1>11. CASE Clears(t)
  BY <1>1, <1>11, Zenon DEF Clears
<1> QED
  BY <1>2, <1>3, <1>4, <1>5, <1>6, <1>7, <1>8, <1>9, <1>10, <1>11 DEF Backend

\* Only the rename changes what a reader finds.
LEMMA FilesKept ==
  ASSUME FilesOK, ThreadsOK, WindowOK, HistoryOK, FileInv, NEW t \in Threads, Backend(t)
  PROVE  \/ Renames(t)
         \/ disk' = disk /\ Readable' = Readable /\ Held' = Held /\ drift' = drift
<1> USE DEF fileVars
<1> DEFINE Q == /\ disk' = disk /\ drift' = drift
                /\ disk # None => content'[disk] = content[disk]
<1>1. CASE Locks(t) \/ Loads(t) \/ ReadForWrite(t) \/ Fetches(t) \/ ChangesNothing(t)
  <2>1. Q
    BY <1>1 DEF Locks, Loads, ReadForWrite, Fetches, ChangesNothing
  <2> QED
    BY <2>1 DEF Readable, Held
<1>2. CASE Creates(t)
  <2>1. Target \in Inodes /\ Target # disk
    BY TargetFacts, TypeParts
  <2>2. Q
    BY <1>2, <2>1 DEF Creates, FilesOK
  <2> QED
    BY <2>2 DEF Readable, Held
<1>3. CASE Fills(t)
  <2>1. Q
    BY <1>3 DEF Fills, FilesOK, FileInv
  <2> QED
    BY <2>1 DEF Readable, Held
<1>4. CASE WriteFails(t) \/ Clears(t)
  <2>1. Q
    BY <1>4 DEF WriteFails, Clears
  <2> QED
    BY <2>1 DEF Readable, Held
<1> HIDE DEF fileVars
<1> QED
  BY <1>1, <1>2, <1>3, <1>4 DEF Backend

\* Every step of the backend keeps what the window may conclude.
LEMMA BackendView ==
  ASSUME FilesOK, ThreadsOK, WindowOK, HistoryOK, QueueOK, JobInv, KindInv, SetupInv,
         FileInv, RequestInv, ViewInv, NEW t \in Threads, Backend(t)
  PROVE  ViewInv'
<1> USE NameFacts, ConfigFacts DEF SetupInv, RequestInv
<1>1. pc[t] \notin {"idle", "done"}
  BY DEF Backend, Locks, Loads, ReadForWrite, Fetches, ChangesNothing, Creates,
     Fills,
     Renames, WriteFails, Clears
<1>2. CASE t # Main
  <2>1. JobOf(t).by = t /\ t \notin Window \cup {Boot, Scan} /\ t \in Posts \cup Reads
    BY <1>1, <1>2, JobFacts
  <2>0. up' = up
    BY <2>1, UpFrame DEF HistoryOK
  <2>2. UNCHANGED <<job, answer, up, ipc, front, step>>
    BY <1>2, <2>0, <2>1, BackendEnds, BackendFrame
  <2>3. pc'[Main] = pc[Main] /\ doc'[Main] = doc[Main]
    BY <1>2, BackendFrame
  <2>4. drift => drift'
    BY FilesKept DEF Renames
  <2>5. ~drift' => Readable' = Readable /\ disk' = disk
    <3>1. CASE Renames(t)
      <4>1. ~seeding[t] /\ JobOf(t).kind # "load"
        BY <1>2, <3>1 DEF Renames, SeedInv
      <4>2. t \in Posts
        BY <1>1, <1>2, <4>1, JobFacts
      <4> QED
        BY <3>1, <4>1, <4>2 DEF Renames
    <3>2. CASE ~Renames(t)
      BY <3>2, FilesKept
    <3> QED
      BY <3>1, <3>2
  <2> QED
    BY <2>2, <2>3, <2>4, <2>5, WorkerView
<1>3. CASE ~up
  <2>1. CASE ~up'
    BY <2>1 DEF ViewInv
  <2>2. CASE up'
    <3>1. JobOf(t).by = Scan
      BY <1>3, <2>2, BackendEnds
    <3>2. t = Main /\ ipc = <<>>
      BY <1>1, <1>3, <3>1, LaunchFacts DEF Boot, Scan
    <3>3. pc'[Main] = "idle" /\ UNCHANGED <<ipc, step, front>>
      BY <1>3, <2>2, <3>2, BackendEnds, BackendFrame
    <3> QED
      BY <1>3, <3>2, <3>3, SetupView
  <2> QED
    BY <2>1, <2>2
<1>4. CASE t = Main /\ up
  <2> DEFINE Stays == UNCHANGED <<job, ipc, answer, step, front, up, drift>>
  <2>1. /\ JobOf(t) = job /\ pc[Main] # "idle" /\ up'
        /\ UNCHANGED <<ipc, front, prev, step>> /\ job.by \in Window
        /\ job.by \notin {Boot, Scan}
        /\ job.kind \in {"load", "set", "store"}
        /\ job.kind = "set" <=> job.by \in Dedicated
    BY <1>1, <1>4, BackendEnds, BackendFrame, JobOfWindow DEF JobOf
  <2>2. ~seeding[t] /\ (legacy => pc[t] # "fetch")
        /\ (job.kind = "load" => pc[t] \in {"look", "fetch"})
        /\ (job.kind = "store" => pc[t] \in {"lock", "create", "fill", "rename"})
    BY <1>1, <1>4, <2>1 DEF SeedInv, LegacyInv, KindInv
  <2>3. ASSUME NEW result \in Configs \cup {Failed}, Returns(t, result)
        PROVE  /\ pc'[Main] = "idle" /\ up' = up
               /\ answer' = [answer EXCEPT ![job.by] = result]
    BY <1>4, <2>1, <2>3 DEF Returns, Goes, ThreadsOK
  <2> USE <1>4, <2>1, <2>2 DEF Goes
  <2>4. CASE drift'
    BY <2>4 DEF ViewInv
  <2>5. CASE Locks(t)
    <3>1. Stays /\ pc'[Main] \in {"read", "create"} /\ doc' = doc
      BY <2>5 DEF Locks, ThreadsOK, windowVars
    <3>2. Readable' = Readable
      BY <2>5 DEF Locks, fileVars, Readable, Held
    <3> QED
      BY <3>1, <3>2, MainGoesOn DEF Same
  <2>6. CASE Loads(t)
    <3>1. Readable' = Readable /\ disk' = disk /\ drift' = drift /\ job.kind = "load"
      BY <2>6 DEF Loads, fileVars, Readable, Held, KindInv
    <3>2. CASE disk = None
      <4>1. Stays /\ pc'[Main] = "fetch"
        BY <2>6, <3>2 DEF Loads, ThreadsOK, windowVars
      <4> QED
        BY <3>1, <3>2, <4>1, MainGoesOn
    <3>3. CASE disk # None
      <4>1. Returns(t, Readable) /\ Readable \in Configs
        BY <2>6, <3>3, ReadableFacts DEF Loads
      <4>2. /\ pc'[Main] = "idle" /\ up' = up
            /\ answer' = [answer EXCEPT ![job.by] = Readable]
        BY <2>3, <4>1
      <4> QED
        BY <3>1, <4>1, <4>2, MainReturns DEF Same
    <3> QED
      BY <3>2, <3>3
  <2>7. CASE ReadForWrite(t)
    <3>1. Readable' = Readable /\ disk' = disk /\ drift' = drift /\ job.kind = "set"
      BY <2>7 DEF ReadForWrite, fileVars, Readable, Held
    <3>2. CASE Held \in Configs
      <4>1. Stays /\ pc'[Main] = IF disk = None THEN "fetch" ELSE "change"
        BY <2>7, <3>2 DEF ReadForWrite, ThreadsOK, windowVars
      <4> QED
        BY <3>1, <3>2, <4>1, MainGoesOn
    <3>3. CASE Held \notin Configs
      <4>1. Returns(t, Failed)
        BY <2>7, <3>3 DEF ReadForWrite
      <4>2. /\ pc'[Main] = "idle" /\ up' = up
            /\ answer' = [answer EXCEPT ![job.by] = Failed]
        BY <2>3, <4>1
      <4> QED
        BY <3>1, <4>2, MainReturns
    <3> QED
      BY <3>2, <3>3
  <2>8. CASE Fetches(t) /\ ~drift'
    <3>1. /\ Readable' = Readable /\ disk' = disk /\ drift' = drift
          /\ pc[t] = "fetch" /\ ~legacy
      BY <2>8 DEF Fetches, fileVars, Readable, Held
    <3>2. disk = None /\ Readable = Defaults
      BY <2>8, <3>1, ReadableFacts DEF ViewInv, FetchInv
    <3>3. CASE job.kind # "load"
      <4>1. Stays /\ pc'[Main] = "change" /\ job.kind # "store"
        BY <2>8, <3>1, <3>3 DEF Fetches, ThreadsOK, windowVars
      <4> QED
        BY <3>1, <4>1, MainGoesOn
    <3>4. CASE job.kind = "load"
      <4>1. Returns(t, Defaults)
        BY <2>8, <3>1, <3>4 DEF Fetches
      <4>2. /\ pc'[Main] = "idle" /\ up' = up
            /\ answer' = [answer EXCEPT ![job.by] = Defaults]
        BY <2>3, <4>1
      <4> QED
        BY <3>1, <3>2, <3>4, <4>2, MainReturns DEF Same
    <3> QED
      BY <3>3, <3>4
  <2>9. CASE ChangesNothing(t)
    <3>1. Readable' = Readable /\ drift' = drift /\ job.kind # "load"
      BY <2>9 DEF ChangesNothing, fileVars, Readable, Held
    <3>2. Returns(t, Failed)
      BY <2>9 DEF ChangesNothing
    <3>3. /\ pc'[Main] = "idle" /\ up' = up
          /\ answer' = [answer EXCEPT ![job.by] = Failed]
      BY <2>3, <3>2
    <3> QED
      BY <3>1, <3>3, MainReturns
  <2>10. CASE Creates(t)
    <3>1. Stays /\ pc'[Main] = "fill"
      BY <2>10 DEF Creates, ThreadsOK, windowVars
    <3>2. job.kind = "store" => Same(doc'[Main], doc[Main])
      BY <2>10, OutgoingFacts DEF Creates, ThreadsOK
    <3>3. Readable' = Readable
      BY <2>10, FilesKept DEF Creates, Renames
    <3> QED
      BY <3>1, <3>2, <3>3, MainGoesOn
  <2>11. CASE Fills(t)
    <3>1. Stays /\ pc'[Main] = "rename" /\ doc' = doc
      BY <2>11 DEF Fills, ThreadsOK, windowVars
    <3>2. Readable' = Readable
      BY <2>11, FilesKept DEF Fills, Renames
    <3> QED
      BY <3>1, <3>2, MainGoesOn DEF Same
  <2>12. CASE Renames(t)
    <3>1. Returns(t, doc[t]) /\ drift' = drift /\ doc[t] \in Configs /\ job.kind # "load"
      BY <2>12 DEF Renames, ThreadsOK, HistoryOK
    <3>2. disk' = tmp /\ tmp # None /\ content'[tmp] = doc[t]
      BY <2>12 DEF Renames, FileInv, FilesOK
    <3>3. Same(doc[t], Readable')
      BY <3>1, <3>2, NormalFacts DEF Readable, Held, Same
    <3>4. /\ pc'[Main] = "idle" /\ up' = up
          /\ answer' = [answer EXCEPT ![job.by] = doc[t]]
      BY <2>3, <3>1
    <3> QED
      BY <3>1, <3>3, <3>4, MainReturns
  <2>13. CASE WriteFails(t)
    <3>1. Returns(t, Failed) /\ job.kind # "load"
      BY <2>13 DEF WriteFails
    <3>2. Readable' = Readable /\ drift' = drift
      BY <2>13 DEF WriteFails, fileVars, Readable, Held
    <3>3. /\ pc'[Main] = "idle" /\ up' = up
          /\ answer' = [answer EXCEPT ![job.by] = Failed]
      BY <2>3, <3>1
    <3> QED
      BY <3>1, <3>2, <3>3, MainReturns
  <2>14. CASE Clears(t)
    BY <2>14 DEF Clears, KindInv
  <2> QED
    BY <2>4, <2>5, <2>6, <2>7, <2>8, <2>9, <2>10, <2>11, <2>12, <2>13, <2>14
       DEF Backend
<1> QED
  BY <1>2, <1>3, <1>4

\* A step of the window keeps the files and what runs.
LEMMA WindowFrame ==
  ASSUME NEW r \in Window,
         Mounts \/ Asks(r) \/ Commit(r) \/ Adopts(r) \/ Settles(r) \/ Reverts(r)
         \/ Rereads(r)
  PROVE  UNCHANGED <<fileVars, threadVars, up>> /\ Readable' = Readable
<1>1. UNCHANGED <<fileVars, threadVars, up>>
  BY DEF Mounts, Asks, Commit, Adopts, Settles, Reverts, Rereads
<1> QED
  BY <1>1 DEF fileVars, Readable, Held

\* Every step keeps what the window may conclude.
LEMMA ViewStep ==
  ASSUME FilesOK, ThreadsOK, WindowOK, HistoryOK, QueueOK, JobInv, KindInv, SetupInv,
         FileInv, RequestInv, ViewInv, Next
  PROVE  ViewInv'
<1> USE NameFacts, ConfigFacts DEF SetupInv, RequestInv
<1> DEFINE Parts == LastStore /\ RunningStore /\ SoleInv /\ SettledInv /\ FetchInv
<1>0. ipc \in Seq(Requests)
  BY DEF QueueOK
<1>1. ASSUME MainTakes PROVE ViewInv'
  <2>1. /\ ipc' = Tail(ipc) /\ job' = ipc[1] /\ ipc # <<>> /\ pc'[Main] \in {"look", "lock"}
        /\ doc'[Main] = ipc[1].doc /\ UNCHANGED <<answer, step, front, up, drift>>
    BY <1>0, <1>1, TailFacts
       DEF MainTakes, ThreadsOK, Goes, FirstStep, windowVars
  <2>2. Readable' = Readable
    BY <1>1 DEF MainTakes, fileVars, Readable, Held
  <2>3. SUFFICES ASSUME up, ~drift PROVE Parts'
    BY <2>1 DEF ViewInv
  <2>4. Parts
    BY <2>3 DEF ViewInv
  <2>5. Outstanding' = Outstanding /\ \A r \in Window : Sole(r)' = Sole(r)
    BY <2>1 DEF Outstanding, Sole
  <2>6. LastStore' /\ RunningStore'
    BY <1>0, <2>1, <2>4, TailFacts DEF LastStore, RunningStore, Same
  <2>7. SoleInv'
    BY <2>1, <2>2, <2>4, <2>5 DEF SoleInv
  <2>8. SettledInv' /\ FetchInv'
    BY <2>1 DEF SettledInv, FetchInv, Under
  <2> QED
    BY <2>6, <2>7, <2>8
<1>2. ASSUME NEW t \in Threads, WorkerStarts(t) PROVE ViewInv'
  <2>1. /\ UNCHANGED <<job, ipc, answer, step, front, up, drift, disk>>
        /\ pc'[Main] = pc[Main] /\ doc' = doc
    BY <1>2 DEF WorkerStarts, ThreadsOK, Goes, windowVars, fileVars
  <2>2. Readable' = Readable
    BY <1>2 DEF WorkerStarts, fileVars, Readable, Held
  <2> QED
    BY <2>1, <2>2, WorkerView
<1>3. ASSUME NEW t \in Threads, Backend(t) PROVE ViewInv'
  BY <1>3, BackendView
<1>4. ASSUME HandEdit PROVE ViewInv'
  BY <1>4 DEF HandEdit, ViewInv
<1>5. ASSUME Crash PROVE ViewInv'
  BY <1>5 DEF Crash, ViewInv
<1>6. ASSUME Mounts PROVE ViewInv'
  <2>1. /\ up /\ ipc' = Append(ipc, Req("load", Mount, Defaults))
        /\ step' = [step EXCEPT ![Mount] = "sent"] /\ step[Mount] = "idle"
        /\ answer' = [answer EXCEPT ![Mount] = None] /\ front' = front
    BY <1>6 DEF Mounts, Sends
  <2>2. Mount \in Window /\ front = None /\ Outstanding = {}
    BY <2>1 DEF Window, WindowInv, Outstanding
  <2>3. Outstanding' = {Mount} /\ Sole(Mount)' /\ answer'[Mount] = None
    BY <2>1, <2>2 DEF WindowOK, Outstanding, Sole
  <2>4. Req("load", Mount, Defaults) \in Requests
        /\ Req("load", Mount, Defaults).kind = "load"
    BY <2>2 DEF Req, Requests
  <2>5. ipc' # <<>> /\ ipc'[Len(ipc')].kind = "load"
    BY <1>0, <2>1, <2>4, AppendFacts
  <2>6. LastStore' /\ RunningStore' /\ SettledInv'
    BY <2>2, <2>1, <2>5 DEF LastStore, RunningStore, SettledInv
  <2>7. SoleInv'
    BY <2>3 DEF SoleInv, Sole
  <2>8. ~drift => FetchInv'
    BY <1>6, <2>1, <2>2, WindowFrame DEF ViewInv, FetchInv, fileVars, threadVars
  <2>9. drift' = drift
    BY <1>6 DEF Mounts
  <2> QED
    BY <2>6, <2>7, <2>8, <2>9 DEF ViewInv
<1>7. ASSUME NEW r \in Window, Asks(r) PROVE ViewInv'
  <2>1. /\ ipc' = Append(ipc, Req("set", r, Defaults)) /\ r \in Dedicated
        /\ step' = [step EXCEPT ![r] = "sent"] /\ step[r] = "idle"
        /\ answer' = [answer EXCEPT ![r] = None] /\ front' = front /\ front # None
        /\ Readable' = Readable /\ disk' = disk /\ pc' = pc /\ up' = up
    BY <1>7, WindowFrame DEF Asks, Sends, fileVars, threadVars
  <2>b. drift' \/ (~drift /\ ~Overlaps(r))
    BY <1>7, Zenon DEF Asks
  <2>2. SUFFICES ASSUME up, ~drift, ~Overlaps(r) PROVE Parts'
    BY <2>1, <2>b DEF ViewInv
  <2>3. Outstanding = {}
    BY <2>1, <2>2 DEF Overlaps, Outstanding
  <2>4. Parts
    BY <2>2 DEF ViewInv
  <2>5. Same(front, Readable)
    BY <2>1, <2>2, <2>3, <2>4, AllAnswered DEF SettledInv, Sole
  <2>6. Outstanding' = {r} /\ Sole(r)' /\ answer'[r] = None
    BY <2>1, <2>3 DEF WindowOK, Outstanding, Sole
  <2>7. Req("set", r, Defaults) \in Requests /\ Req("set", r, Defaults).kind = "set"
    BY DEF Req, Requests
  <2>8. ipc' # <<>> /\ ipc'[Len(ipc')].kind = "set"
    BY <1>0, <2>1, <2>7, AppendFacts
  <2>9. LastStore' /\ RunningStore' /\ SettledInv' /\ FetchInv'
    BY <2>1, <2>4, <2>6, <2>8
       DEF LastStore, RunningStore, SettledInv, FetchInv
  <2>10. SoleInv'
    BY <2>1, <2>5, <2>6 DEF SoleInv, Sole
  <2> QED
    BY <2>9, <2>10
<1>8. ASSUME NEW r \in Window, Commit(r) PROVE ViewInv'
  <2> DEFINE next == [front EXCEPT ![Section(r)] = r]
             x    == Req("store", r, next)
  <2>1. /\ ipc' = Append(ipc, x) /\ r \in Commits /\ front' = next
        /\ step' = [step EXCEPT ![r] = "sent"] /\ step[r] = "idle"
        /\ answer' = [answer EXCEPT ![r] = None] /\ front \in Configs
        /\ Readable' = Readable /\ disk' = disk /\ pc' = pc /\ up' = up
    BY <1>8, WindowFrame DEF Commit, Sends, fileVars, threadVars, WindowOK
  <2>2. next \in Configs
    BY <2>1, ChangeFacts
  <2> HIDE DEF next
  <2>3. x \in Requests /\ x.doc = next
    BY <2>2 DEF Req, Requests
  <2> HIDE DEF x
  <2>b. drift' \/ (~drift /\ ~Overlaps(r))
    BY <1>8, Zenon DEF Commit
  <2>4. SUFFICES ASSUME up, ~drift, ~Overlaps(r) PROVE Parts'
    BY <2>1, <2>b DEF ViewInv
  <2>5. Parts
    BY <2>4 DEF ViewInv
  <2>6. \A q \in Window : ~Sole(q)
    <3>1. \A q \in Outstanding \ {r} : ~Replaces(q)
      BY <2>1, <2>4 DEF Overlaps
    <3>2. r \notin Outstanding /\ Mount \notin Outstanding
      BY <2>1 DEF Outstanding, WindowInv
    <3> QED
      BY <3>1, <3>2 DEF Sole, Replaces
  <2>7. \A q \in Window : ~Sole(q)'
    BY <2>1, <2>6 DEF WindowOK, Outstanding, Sole
  <2>8. ipc' # <<>> /\ ipc'[Len(ipc')].doc = next
    BY <1>0, <2>1, <2>3, AppendFacts
  <2>9. LastStore' /\ RunningStore' /\ SettledInv' /\ FetchInv'
    BY <2>1, <2>5, <2>8 DEF LastStore, RunningStore, SettledInv, FetchInv, Under
  <2> QED
    BY <2>7, <2>9 DEF SoleInv
<1>9. ASSUME NEW r \in Window, Adopts(r) PROVE ViewInv'
  <2>1. /\ r \in Outstanding /\ answer[r] # None /\ answer[r] \in Configs
        /\ r \in Dedicated \cup {Mount} \/ step[r] = "rereading"
        /\ front' = answer[r] /\ step' = [step EXCEPT ![r] = "done"]
        /\ UNCHANGED <<ipc, drift>>
        /\ Readable' = Readable /\ disk' = disk /\ pc' = pc /\ up' = up
    BY <1>9, WindowFrame DEF Adopts, Answered, Ends, fileVars, threadVars,
       WindowOK
  <2>2. SUFFICES ASSUME up, ~drift PROVE Parts'
    BY <2>1 DEF ViewInv
  <2>3. Parts
    BY <2>2 DEF ViewInv
  <2>4. Sole(r) /\ Outstanding = {r} /\ Same(answer[r], Readable)
    BY <2>1, <2>3 DEF Sole, SoleInv
  <2>5. ~Under
    BY <2>1, <2>2, <2>4, AllAnswered
  <2>6. Outstanding' = {}
    BY <2>1, <2>4 DEF WindowOK, Outstanding
  <2> QED
    BY <2>1, <2>4, <2>5, <2>6
       DEF LastStore, RunningStore, SoleInv, SettledInv, FetchInv, Under, Sole
<1>10. ASSUME NEW r \in Window, Settles(r) PROVE ViewInv'
  <2>1. /\ r \in Outstanding /\ answer[r] # None /\ front' = front
        /\ \/ r \in Commits /\ answer[r] # Failed /\ step[r] # "rereading"
           \/ r \in Dedicated \cup Quick /\ answer[r] = Failed
        /\ step' = [step EXCEPT ![r] = "done"] /\ answer' = [answer EXCEPT ![r] = None]
        /\ drift' = (drift \/ (r \in Quick /\ answer[r] = Failed)) /\ ipc' = ipc
    BY <1>10 DEF Settles, Answered, Ends
  <2>a. /\ Readable' = Readable /\ disk' = disk /\ pc' = pc /\ up' = up
        /\ job' = job /\ doc' = doc
    BY <1>10, WindowFrame DEF fileVars, threadVars
  <2>2. SUFFICES ASSUME up, ~drift, ~(r \in Quick /\ answer[r] = Failed) PROVE Parts'
    BY <2>1, <2>a DEF ViewInv
  <2>3. Parts
    BY <2>2 DEF ViewInv
  <2>4. LastStore' /\ RunningStore' /\ FetchInv'
    BY <2>1, <2>a, <2>3 DEF LastStore, RunningStore, FetchInv
  <2>5. Outstanding' = Outstanding \ {r} /\ \A q \in Window \ {r} : Sole(q)' = Sole(q)
    BY <2>1 DEF WindowOK, Outstanding, Sole
  <2>6. ~Sole(r)' /\ \A q \in Window \ {r} : answer'[q] = answer[q]
    BY <2>1, <2>5 DEF WindowOK, Sole
  <2>7. CASE r \in Dedicated
    <3>1. Sole(r) /\ Outstanding = {r} /\ answer[r] = Failed /\ Same(front, Readable)
      BY <2>1, <2>3, <2>7 DEF Sole, SoleInv
    <3>2. Outstanding' = {}
      BY <2>5, <3>1
    <3> QED
      BY <2>1, <2>a, <2>4, <3>1, <3>2 DEF SoleInv, SettledInv, Sole
  <2>8. CASE r \in Commits
    <3>1. answer[r] # Failed /\ step[r] # "rereading"
      BY <2>1, <2>2, <2>8
    <3>2. ~Sole(r)
      BY <2>8, <3>1 DEF Sole
    <3>3. \A q \in Window : ~Sole(q)
      BY <2>1, <2>3, <3>2 DEF SoleInv
    <3>4. SoleInv'
      BY <2>5, <2>6, <3>3 DEF SoleInv
    <3>5. SettledInv'
      <4>1. SUFFICES ASSUME ~Under', front # None,
                            \A q \in Commits \cap Outstanding' : answer'[q] # Failed
                     PROVE  Same(front, Readable)
        BY <2>1, <2>a DEF SettledInv
      <4>2. ~Under
        BY <2>1, <2>a, <4>1 DEF Under
      <4>3. \A q \in Commits \cap Outstanding : answer[q] # Failed
        BY <2>5, <2>6, <3>1, <4>1 DEF Outstanding
      <4> QED
        BY <2>3, <3>3, <4>1, <4>2, <4>3 DEF SettledInv
    <3> QED
      BY <2>4, <3>4, <3>5
  <2> QED
    BY <2>1, <2>7, <2>8 DEF Commits
<1>11. ASSUME NEW r \in Window, Reverts(r) PROVE ViewInv'
  <2>1. /\ r \in Settings /\ r \in Outstanding /\ step[r] = "sent" /\ front' = prev
        /\ step' = [step EXCEPT ![r] = "reverting"]
        /\ ipc' = Append(ipc, Req("store", r, prev)) /\ drift' = drift
        /\ Readable' = Readable /\ disk' = disk /\ pc' = pc /\ up' = up
    BY <1>11, WindowFrame DEF Reverts, Answered, Sends, fileVars, threadVars
  <2>2. SUFFICES ASSUME up, ~drift PROVE Parts'
    BY <2>1 DEF ViewInv
  <2>3. Parts
    BY <2>2 DEF ViewInv
  <2>4. prev \in Configs
    BY <2>1 DEF WindowInv, WindowOK
  <2>5. Req("store", r, prev) \in Requests /\ Req("store", r, prev).doc = prev
    BY <2>4 DEF Req, Requests
  <2>6. ipc' # <<>> /\ ipc'[Len(ipc')].doc = prev
    BY <1>0, <2>1, <2>5, AppendFacts
  <2>7. ~Sole(r)
    BY <2>1 DEF Sole, Commits
  <2>8. \A q \in Window : ~Sole(q)
    BY <2>1, <2>3, <2>7 DEF SoleInv
  <2>9. \A q \in Window : ~Sole(q)'
    BY <2>1, <2>8 DEF WindowOK, Outstanding, Sole, Commits
  <2>10. LastStore' /\ RunningStore' /\ SettledInv' /\ FetchInv'
    BY <2>1, <2>3, <2>6 DEF LastStore, RunningStore, SettledInv, FetchInv, Under
  <2> QED
    BY <2>9, <2>10 DEF SoleInv
<1>12. ASSUME NEW r \in Window, Rereads(r) PROVE ViewInv'
  <2>1. /\ r \in Settings /\ r \in Outstanding /\ front' = front
        /\ step' = [step EXCEPT ![r] = "rereading"]
        /\ ipc' = Append(ipc, Req("load", r, Defaults))
        /\ answer' = [answer EXCEPT ![r] = None]
        /\ drift' = (drift \/ Outstanding # {r})
    BY <1>12 DEF Rereads, Answered, Sends
  <2>a. Readable' = Readable /\ disk' = disk /\ pc' = pc /\ up' = up
    BY <1>12, WindowFrame DEF fileVars, threadVars
  <2>2. SUFFICES ASSUME up, ~drift, Outstanding = {r} PROVE Parts'
    BY <2>1, <2>a DEF ViewInv
  <2>3. Parts
    BY <2>2 DEF ViewInv
  <2>4. Req("load", r, Defaults) \in Requests /\ Req("load", r, Defaults).kind = "load"
    BY DEF Req, Requests
  <2>5. ipc' # <<>> /\ ipc'[Len(ipc')].kind = "load"
    BY <1>0, <2>1, <2>4, AppendFacts
  <2>6. Outstanding' = {r} /\ Sole(r)' /\ answer'[r] = None
    BY <2>1, <2>2 DEF WindowOK, Outstanding, Sole
  <2>7. LastStore' /\ RunningStore' /\ SettledInv' /\ FetchInv'
    BY <2>1, <2>a, <2>3, <2>5, <2>6
       DEF LastStore, RunningStore, SettledInv, FetchInv
  <2>8. SoleInv'
    BY <2>1, <2>6 DEF SoleInv, Sole, Commits
  <2> QED
    BY <2>7, <2>8
<1> QED
  BY <1>1, <1>2, <1>3, <1>4, <1>5, <1>6, <1>7, <1>8, <1>9, <1>10, <1>11, <1>12
     DEF Next

-----------------------------------------------------------------------------
\* The invariant.
Inv ==
  /\ TypeOK /\ QueueOK /\ JobInv /\ KindInv /\ LockInv /\ SetupInv
  /\ FileInv /\ SetterInv /\ EndpointInv /\ RequestInv /\ ViewInv

\* The invariant holds at the first launch, whatever the application finds.
LEMMA InitInv ==
  ASSUME FaultyUpgrade = FALSE, Init PROVE Inv
<1> USE NameFacts, ConfigFacts, SetupFacts DEF Init
<1>1. /\ disk \in {1, None} /\ (disk # None => content[disk] = Seed)
      /\ content \in [Inodes -> Configs \cup {Torn, Broken}]
      /\ legacy \in BOOLEAN /\ endpoint \in BOOLEAN /\ faulty \in BOOLEAN
      /\ (legacy => ~faulty) /\ (endpoint /\ disk = None => legacy)
  <2>1. PICK s \in Starts :
          /\ disk = IF s = "settled" THEN 1 ELSE None
          /\ content = [i \in Inodes |-> IF s = "settled" /\ i = 1 THEN Seed ELSE Torn]
          /\ legacy = (s = "upgrade") /\ endpoint = (s # "fresh")
          /\ faulty = (s = "upgrade" => FaultyUpgrade)
    OBVIOUS
  <2>2. s \in {"upgrade", "fresh", "settled"}
    BY StoreAssumption
  <2>3. CASE s = "upgrade"
    BY <2>1, <2>3, InodeFacts, NameAssumption
  <2>4. CASE s = "fresh"
    BY <2>1, <2>4, InodeFacts, NameAssumption
  <2>5. CASE s = "settled"
    BY <2>1, <2>5, InodeFacts, NameAssumption
  <2> QED
    BY <2>2, <2>3, <2>4, <2>5
<1>2. TypeOK
  <2>1. FilesOK
    BY <1>1, InodeFacts DEF FilesOK
  <2>2. ThreadsOK
    BY DEF ThreadsOK
  <2>3. WindowOK
    BY DEF WindowOK
  <2>4. HistoryOK
    <3>1. mishaps \in 0 .. MaxMishaps
      BY StoreAssumption
    <3>2. up \in BOOLEAN /\ drift \in BOOLEAN /\ edited \in BOOLEAN
      OBVIOUS
    <3> QED
      BY <1>1, <3>1, <3>2 DEF HistoryOK
  <2> QED
    BY <2>1, <2>2, <2>3, <2>4, TypeParts
<1>3. QueueOK
  BY DEF QueueOK
<1>4. JobInv
  <2>1. \A i \in DOMAIN ipc : Shape(ipc[i])
    BY DEF Req, Shape, Boot, Scan, Window, Commits
  <2> QED
    BY <2>1 DEF JobInv
<1>5. KindInv /\ LockInv /\ SetterInv
  BY DEF KindInv, LockInv, SetterInv, Inside
<1>6. StartInv /\ UpInv
  BY DEF StartInv, UpInv, Outstanding
<1>7. SeedInv /\ LegacyInv
  BY <1>1 DEF SeedInv, LegacyInv
<1>8. FileInv
  BY <1>1 DEF FileInv
<1>9. BlobInv /\ CopiesInv
  <2>1. InFile
    BY <1>1 DEF InFile, Carries
  <2>2. InMemory
    BY DEF InMemory
  <2>3. InQueue
    BY DEF InQueue, Req
  <2>4. InWindow
    BY CarryFacts DEF InWindow
  <2> QED
    BY <1>1, <2>1, <2>2, <2>3, <2>4 DEF BlobInv, CopiesInv
<1>10. PendingInv
  <2>1. DOMAIN Setup = {1, 2} /\ Setup[1].by = Boot /\ Setup[2].by = Scan /\ Boot # Scan
    BY DEF Setup, Req, Boot, Scan
  <2> QED
    BY <2>1 DEF PendingInv, Awaited
<1>11. WindowInv
  BY DEF WindowInv, Outstanding, Window, Commits
<1>12. ViewInv
  BY DEF ViewInv
<1> QED
  BY <1>2, <1>3, <1>4, <1>5, <1>6, <1>7, <1>8, <1>9, <1>10, <1>11, <1>12
     DEF Inv, SetupInv, EndpointInv, RequestInv

\* An edit by hand is not forgotten; the endpoint is of before the launch.
LEMMA HistoryStep ==
  ASSUME ThreadsOK, Next PROVE endpoint' = endpoint /\ (edited => edited')
<1> USE DEF historyVars
<1>1. CASE MainTakes \/ Mounts \/ HandEdit \/ Crash
  BY <1>1 DEF MainTakes, Mounts, HandEdit, Crash
<1>2. ASSUME NEW t \in Threads, WorkerStarts(t)
      PROVE  endpoint' = endpoint /\ (edited => edited')
  BY <1>2 DEF WorkerStarts
<1>3. ASSUME NEW t \in Threads, Backend(t)
      PROVE  endpoint' = endpoint /\ (edited => edited')
  BY <1>3, BackendFrame
<1>4. ASSUME NEW r \in Window,
             Asks(r) \/ Commit(r) \/ Adopts(r) \/ Settles(r) \/ Reverts(r) \/ Rereads(r)
      PROVE  endpoint' = endpoint /\ (edited => edited')
  BY <1>4 DEF Asks, Commit, Adopts, Settles, Reverts, Rereads
<1> QED
  BY <1>1, <1>2, <1>3, <1>4 DEF Next

\* Every step keeps the invariant.
LEMMA InvStep ==
  ASSUME Inv, Next PROVE Inv'
<1>1. FilesOK /\ ThreadsOK /\ WindowOK /\ HistoryOK
  BY TypeParts DEF Inv
<1>2. TypeOK'
  BY <1>1, TypeStep DEF Inv
<1>3. QueueOK' /\ JobInv' /\ KindInv' /\ LockInv'
  BY <1>1, QueueStep, JobStep, KindStep, LockStep DEF Inv
<1>4. SetupInv'
  BY <1>1, StartStep, UpStep, SeedStep, LegacyStep DEF Inv, SetupInv
<1>5. FileInv' /\ SetterInv'
  BY <1>1, FileStep, SetterStep DEF Inv
<1>6. BlobInv'
  BY <1>1, BlobStep DEF Inv, EndpointInv
<1>7. CopiesInv'
  <2>1. SUFFICES ASSUME endpoint, ~edited, ~edited'
                 PROVE  InFile' /\ InMemory' /\ InQueue' /\ InWindow'
    BY <1>1, HistoryStep DEF CopiesInv
  <2> QED
    BY <1>1, <2>1, FileCarries, MemoryCarries, QueueCarries, WindowCarries
       DEF Inv, EndpointInv
<1>8. RequestInv'
  BY <1>1, PendingStep, WindowStep DEF Inv, RequestInv
<1>9. ViewInv'
  BY <1>1, ViewStep DEF Inv
<1> QED
  BY <1>2, <1>3, <1>4, <1>5, <1>6, <1>7, <1>8, <1>9 DEF Inv, EndpointInv

\* So does a stutter.
LEMMA InvStutter ==
  ASSUME Inv, UNCHANGED vars PROVE Inv'
<1> USE DEF vars, fileVars, threadVars, windowVars, historyVars
<1>1. TypeOK' /\ QueueOK' /\ JobInv'
  BY DEF Inv, TypeOK, QueueOK, JobInv, Shape
<1>2. KindInv' /\ LockInv' /\ SetterInv'
  BY DEF Inv, KindInv, LockInv, SetterInv, JobOf
<1>3. SetupInv'
  BY DEF Inv, SetupInv, StartInv, UpInv, SeedInv, LegacyInv, JobOf, Outstanding
<1>4. FileInv'
  BY DEF Inv, FileInv
<1>5. EndpointInv'
  BY DEF Inv, EndpointInv, BlobInv, CopiesInv, InFile, InMemory, InQueue,
     InWindow, JobOf
<1>6. RequestInv'
  BY DEF Inv, RequestInv, PendingInv, WindowInv, Awaited, Outstanding
<1>7. ViewInv'
  BY DEF Inv, ViewInv, LastStore, RunningStore, SoleInv, SettledInv, FetchInv,
     Sole,
     Under, Outstanding, Readable, Held
<1> QED
  BY <1>1, <1>2, <1>3, <1>4, <1>5, <1>6, <1>7 DEF Inv

\* The invariant: types, locks, files, endpoint, requests and the window's view.
THEOREM InvHolds ==
  ASSUME FaultyUpgrade = FALSE PROVE Spec => []Inv
<1>1. Init => Inv
  BY InitInv
<1>2. Inv /\ [Next]_vars => Inv'
  BY InvStep, InvStutter
<1> QED
  BY <1>1, <1>2, PTL DEF Spec

\* Every variable keeps its type.
THEOREM TypeCorrect ==
  ASSUME FaultyUpgrade = FALSE PROVE Spec => []TypeOK
<1>1. Inv => TypeOK
  BY DEF Inv
<1> QED
  BY <1>1, InvHolds, PTL

\* Nobody ever finds a half-written file (write_str_atomic), for any number of
\* workers, reads, requests and mishaps, when the upgrade itself meets no failing
\* write.
THEOREM NeverTornHolds ==
  ASSUME FaultyUpgrade = FALSE PROVE Spec => []NeverTorn
<1>1. Inv => NeverTorn
  BY ConfigFacts DEF Inv, FileInv, NeverTorn, Held
<1> QED
  BY <1>1, InvHolds, PTL

\* The endpoint of an older installation survives the move to the file
\* (load_missing), crashes and edits by hand included.
THEOREM EndpointSurvivesHolds ==
  ASSUME FaultyUpgrade = FALSE PROVE Spec => []EndpointSurvives
<1>1. Inv => EndpointSurvives
  BY DEF Inv, EndpointInv, BlobInv, CopiesInv, InFile, Carries,
     EndpointSurvives, Held
<1> QED
  BY <1>1, InvHolds, PTL

\* A window to which every request was answered shows what is stored
\* (commitWithRevert), unless the file or the copy changed behind the other's back.
THEOREM ViewShowsDiskHolds ==
  ASSUME FaultyUpgrade = FALSE PROVE Spec => []ViewShowsDisk
<1>1. Inv => ViewShowsDisk
  BY DEF Inv, ViewInv, SettledInv, ViewShowsDisk, Quiet, Under, Sole, Same,
     Outstanding
<1> QED
  BY <1>1, InvHolds, PTL

\* Which step makes a temp file disappear, and what it was.
LEMMA LandingFacts ==
  ASSUME ThreadsOK, Next, NEW t \in Threads, NEW k, Lands(t, k)
  PROVE  Renames(t)
<1>1. tmp # None /\ tmp' = None /\ pc[t] = "rename" /\ pc'[t] # "rename"
  BY DEF Lands
<1>2. PICK u \in Threads : Backend(u)
  <2> USE <1>1 DEF fileVars
  <2>1. ASSUME NEW u \in Threads, WorkerStarts(u) PROVE FALSE
    BY <2>1 DEF WorkerStarts
  <2>2. ASSUME NEW r \in Window,
               Asks(r) \/ Commit(r) \/ Adopts(r) \/ Settles(r) \/ Reverts(r) \/ Rereads(r)
        PROVE  FALSE
    BY <2>2 DEF Asks, Commit, Adopts, Settles, Reverts, Rereads
  <2>3. ~MainTakes /\ ~Mounts /\ ~HandEdit /\ ~Crash
    BY DEF MainTakes, Mounts, HandEdit, Crash
  <2> QED
    BY <2>1, <2>2, <2>3 DEF Next
<1>3. u = t
  BY <1>1, <1>2, BackendFrame
<1>4. Renames(t)
  <2> USE <1>1, <1>2, <1>3 DEF fileVars
  <2>1. CASE Locks(t) \/ Loads(t) \/ ReadForWrite(t) \/ Fetches(t) \/ ChangesNothing(t)
             \/ Creates(t) \/ Fills(t)
    BY <2>1 DEF Locks, Loads, ReadForWrite, Fetches, ChangesNothing, Creates,
       Fills
  <2>2. CASE WriteFails(t) \/ Clears(t)
    BY <2>2 DEF WriteFails, Clears
  <2> QED
    BY <2>1, <2>2 DEF Backend
<1> QED
  BY <1>4

\* No setter loses another one's update (write_lock): what it puts on disk
\* differs from what was there in its own section only.
THEOREM SettersKeepSiblingsHolds ==
  ASSUME FaultyUpgrade = FALSE PROVE Spec => SettersKeepSiblings
<1> DEFINE Keeps == \A t \in Threads : Lands(t, "set") => KeepsSiblings(t)
<1>1. Inv /\ [Next]_vars => [Keeps]_vars
  <2>1. SUFFICES ASSUME Inv, Next, NEW t \in Threads, Lands(t, "set"), disk # None,
                        NEW s \in Sections \ {Section(JobOf(t).by)}
                 PROVE  Held'[s] = Repair(Held[s])
    BY DEF KeepsSiblings
  <2>2. FilesOK /\ ThreadsOK /\ FileInv /\ SetterInv
    BY <2>1, TypeParts DEF Inv
  <2>3. Renames(t) /\ JobOf(t).kind = "set" /\ pc[t] = "rename"
    BY <2>1, <2>2, LandingFacts DEF Lands
  <2>4. doc[t][s] = Repair(content[disk][s])
    BY <2>1, <2>2, <2>3 DEF SetterInv
  <2>5. disk' = tmp /\ tmp # None /\ content'[tmp] = doc[t]
    BY <2>2, <2>3 DEF Renames, FileInv, FilesOK
  <2> QED
    BY <2>1, <2>4, <2>5 DEF Held
<1> QED
  BY <1>1, InvHolds, PTL DEF Spec, SettersKeepSiblings
=============================================================================
