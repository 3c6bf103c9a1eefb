------------------------ MODULE SessionLifecycle_proofs ----------------------
(***************************************************************************)
(* Proofs about SessionLifecycle, for any sets of sessions, recipes and    *)
(* commands.  With or without the shell's gates: the types, that a turn    *)
(* ended by a close is never recorded, and, when a resume cannot fail      *)
(* after its session took the key, one writer per recipe.  Under the       *)
(* shell's gates: the implementation of PathWriters and, without renames,  *)
(* that a delete which waited finds the key free.                          *)
(***************************************************************************)
EXTENDS SessionLifecycle, TLAPS

\* Every command that works on a recipe knows which.
Labels ==
    {"idle", "done", "queued", "connecting", "running", "judged", "leaving",
     "recording", "marking", "firing", "cleaning", "taking", "detaching",
     "peeking", "waiting", "deleting", "erasing", "freeing", "requested",
     "renaming", "resolved", "acquiring", "ending", "reading", "adopted",
     "unwinding", "rearming", "swapping", "installing", "tidying"}

PcInv == pc \in [Commands -> Labels]

PathInv ==
    \A c \in Deletes \cup Renames \cup Opens : pc[c] # "idle" => path[c] \in Paths

LabelInv == PcInv /\ PathInv

\* A session in the map, or whose handle a command holds, is not dropped.
LiveInv ==
    /\ \A s \in map : stage[s] = "live"
    /\ \A c \in Commands : Holds(c) => tgt[c] \in Sids /\ stage[tgt[c]] = "live"

\* A turn holds its session's lock from its start to its end, an open while it
\* replaces the session's content.
LockInv ==
    /\ \A a \in Asks :
          pc[a] \in {"connecting", "running", "judged", "recording", "leaving"} =>
            lock[tgt[a]] = a
    /\ \A o \in Opens : pc[o] = "installing" => lock[tgt[o]] = o

\* Nothing but a close cancels, and it has marked the session first.
CloseInv ==
    /\ cancelled \subseteq closing
    /\ \A c \in Detachers : pc[c] = "firing" => tgt[c] \in closing
    /\ \A a \in Asks : pc[a] = "judged" /\ result[a] = "Cancelled" => tgt[a] \in closing
    /\ CloseDiscardsTurn

Inv == TypeOK /\ LabelInv /\ LiveInv /\ LockInv /\ CloseInv

\* Nobody has touched the directory of a session that is yet to be created.
BirthInv ==
    \A s \in Sids :
        stage[s] = "none" => file[s] = "absent" /\ bound[s] = s /\ s \notin held

\* While an open that failed late unwinds, nobody has taken its key.
UnwindInv ==
    \A o \in Opens : pc[o] = "unwinding" => LateFailures /\ path[o] \notin held

\* The shell's gates: one open or delete at a time.
AloneInv ==
    \A c, e \in Opens \cup Deletes : Busy(c) /\ Busy(e) => c = e

\* Who holds a key, and what could take it.
KeyInv ==
    BirthInv /\ UnwindInv /\ SingleWriter /\ (ShellGuards = TRUE => AloneInv)

\* Under the shell's gates an open has its session to itself.
ExclusiveInv ==
    \A o \in Opens, c \in Commands : Busy(o) /\ tgt[c] = tgt[o] => c = o

\* The session owns its recipe: it is not dropped, and no open is replacing it.
Owns(s) ==
    /\ stage[s] = "live"
    /\ \A o \in Opens : tgt[o] = s => pc[o] # "installing"

\* A session with an empty timeline has recorded nothing.
UsedInv ==
    \A s \in Sids \ used : Owns(s) => file[bound[s]] # "recorded"

\* The directory a close removes is its session's; the one an open removes is
\* empty, has no session any more and is not the one it resumes.
SpareInv ==
    /\ \A c \in Closes : pc[c] \in {"marking", "firing", "detaching", "cleaning"} =>
          spare[c] \in {NoOne, bound[tgt[c]]}
    /\ \A o \in Opens : pc[o] \in {"installing", "tidying"} /\ spare[o] # NoOne =>
          /\ file[spare[o]] # "recorded"
          /\ \A s \in Sids : Owns(s) => bound[s] # spare[o]
          /\ pc[o] = "installing" => path[o] # spare[o]

ShellInv == ExclusiveInv /\ UsedInv /\ SpareInv

\* A command that found its session keeps it, and it has been created.
TargetInv ==
    \A c \in Commands :
        /\ pc[c] = "idle" => tgt[c] = NoOne
        /\ tgt[c] # NoOne => stage[tgt[c]] # "none"

\* Every session has a drop signal of its own, sent after its key is released.
Installed == {"tidying", "ending", "done"}
SenderInv ==
    \A s \in Sids :
        sender[s] = s \/ /\ sender[s] \in Opens /\ tgt[sender[s]] = s
                         /\ pc[sender[s]] \in Installed
SignalInv ==
    /\ \A s \in Sids : sender[s] \in signals => stage[s] \in {"signalled", "gone"}
    /\ \A o \in Opens : o \in signals => pc[o] \in Installed

\* The receiver in a handle is the one of its session's signal.
SlotInv ==
    /\ \A o \in Opens : pc[o] \in {"swapping", "installing"} => slot[tgt[o]] = o
    /\ \A s \in Sids :
          \/ \E o \in Opens : tgt[o] = s /\ pc[o] \in {"swapping", "installing"}
          \/ slot[s] \in {NoOne, sender[s]}

\* A delete that waited has the key of a session that has released it.
GateInv ==
    \A d \in Deletes :
        /\ Busy(d) /\ tgt[d] # NoOne => path[d] = bound[tgt[d]]
        /\ pc[d] \in {"idle", "marking", "firing", "detaching", "taking"} =>
             rx[d] = NoOne
        /\ pc[d] \in {"waiting", "deleting"} /\ rx[d] # NoOne => tgt[d] # NoOne
        /\ pc[d] = "waiting" => rx[d] = sender[tgt[d]]
        /\ pc[d] = "deleting" /\ rx[d] # NoOne =>
             stage[tgt[d]] \in {"signalled", "gone"}
        /\ pc[d] \in {"waiting", "deleting"} /\ tgt[d] # NoOne =>
             stage[tgt[d]] = "live" \/ path[d] \notin held
        /\ result[d] = "conflict" => pc[d] = "done"
        /\ DeleteGateOpen

WaitInv == TargetInv /\ SenderInv /\ SignalInv /\ SlotInv /\ GateInv

\* What a step does to the writers of one recipe and to its key.
Others(p) == \A q \in Paths \ {p} : Writers(q)' = Writers(q)
Taken(p, w) ==
    /\ Writers(p) = {} /\ Writers(p)' = {w} /\ Others(p)
    /\ held' = held \cup {p}
Freed(p) ==
    /\ Writers(p) # {} /\ Writers(p)' = {} /\ Others(p)
    /\ held' = held \ {p}
Passed(p, v, w) ==
    /\ Writers(p) = {v} /\ Writers(p)' = {w} /\ Others(p)
    /\ held' = held
Quiet == held' = held /\ \A q \in Paths : Writers(q)' = Writers(q)

\* The steps that change a file without changing hands.
FileStep ==
    \/ file' = file
    \/ \E a \in Asks : AskRecord(a)
    \/ \E e \in Edits : EditApply(e)
    \/ \E c \in Closes : CloseClean(c)
    \/ \E d \in Deletes : DeleteErase(d)
    \/ \E o \in Opens : OpenTidy(o)

Moves ==
    \/ \E s \in Sids : CreateSession(s) /\ Taken(s, s)
    \/ /\ file' = file
       /\ \E p \in Paths : \/ \E w \in Sids \cup Commands : Taken(p, w)
                           \/ Freed(p)
                           \/ \E v, w \in Sids \cup Commands : Passed(p, v, w)
    \/ Quiet /\ FileStep

-----------------------------------------------------------------------------

\* Each action keeps the types.
LEMMA TypeStep == ASSUME Inv, Next PROVE TypeOK'
<1> USE NoOneAssumption, KindAssumption
    DEF handles, flags, sessions, disk, locals, Goto, Return, Busy, Holds,
    Paths, Channels, Commands, Detachers, Inv, TypeOK, LabelInv, PcInv,
    PathInv, LiveInv
<1>1. ASSUME NEW s \in Sids, CreateSession(s) PROVE TypeOK'
  BY <1>1 DEF CreateSession
<1>2. ASSUME NEW s \in Sids, DropRelease(s) PROVE TypeOK'
  BY <1>2 DEF DropRelease
<1>3. ASSUME NEW s \in Sids, DropSignal(s) PROVE TypeOK'
  BY <1>3 DEF DropSignal
<1>4. ASSUME NEW s \in Sids, DropFields(s) PROVE TypeOK'
  BY <1>4 DEF DropFields
<1>5. ASSUME NEW a \in Asks, NEW s \in Sids, AskStart(a, s) PROVE TypeOK'
  BY <1>5 DEF AskStart, Lookup
<1>6. ASSUME NEW a \in Asks, AskLock(a) PROVE TypeOK'
  BY <1>6 DEF AskLock
<1>7. ASSUME NEW a \in Asks, AskBegin(a) PROVE TypeOK'
  BY <1>7 DEF AskBegin
<1>8. ASSUME NEW a \in Asks, AskVerdict(a) PROVE TypeOK'
  BY <1>8 DEF AskVerdict
<1>9. ASSUME NEW a \in Asks, AskCheck(a) PROVE TypeOK'
  BY <1>9 DEF AskCheck
<1>10. ASSUME NEW a \in Asks, AskRecord(a) PROVE TypeOK'
  BY <1>10 DEF AskRecord, Save
<1>11. ASSUME NEW a \in Asks, AskLeave(a) PROVE TypeOK'
  BY <1>11 DEF AskLeave
<1>12. ASSUME NEW e \in Edits, NEW s \in Sids, EditStart(e, s) PROVE TypeOK'
  BY <1>12 DEF EditStart, Lookup
<1>13. ASSUME NEW e \in Edits, EditApply(e) PROVE TypeOK'
  BY <1>13 DEF EditApply, Save
<1>14. ASSUME NEW c \in Closes, NEW s \in Sids, CloseStart(c, s) PROVE TypeOK'
  BY <1>14 DEF CloseStart, Lookup
<1>15. ASSUME NEW c \in Closes, ClosePeek(c) PROVE TypeOK'
  BY <1>15 DEF ClosePeek
<1>16. ASSUME NEW c \in Detachers, DetachMark(c) PROVE TypeOK'
  BY <1>16 DEF DetachMark, Detachers
<1>17. ASSUME NEW c \in Detachers, DetachFire(c) PROVE TypeOK'
  BY <1>17 DEF DetachFire, Detachers
<1>18. ASSUME NEW c \in Detachers, DetachRemove(c) PROVE TypeOK'
  BY <1>18 DEF DetachRemove, Detachers
<1>19. ASSUME NEW c \in Closes, CloseClean(c) PROVE TypeOK'
  BY <1>19 DEF CloseClean
<1>20. ASSUME NEW d \in Deletes, NEW s \in Sids, DeleteOpenSession(d, s)
      PROVE  TypeOK'
  BY <1>20 DEF DeleteOpenSession, Lookup
<1>21. ASSUME NEW d \in Deletes, NEW p \in Paths, DeleteClosed(d, p)
      PROVE  TypeOK'
  BY <1>21 DEF DeleteClosed
<1>22. ASSUME NEW d \in Deletes, WaitTake(d) PROVE TypeOK'
  BY <1>22 DEF WaitTake
<1>23. ASSUME NEW d \in Deletes, WaitSignalled(d) PROVE TypeOK'
  BY <1>23 DEF WaitSignalled
<1>24. ASSUME NEW d \in Deletes, WaitTimeout(d) PROVE TypeOK'
  BY <1>24 DEF WaitTimeout
<1>25. ASSUME NEW d \in Deletes, DeleteAcquire(d) PROVE TypeOK'
  BY <1>25 DEF DeleteAcquire
<1>26. ASSUME NEW d \in Deletes, DeleteErase(d) PROVE TypeOK'
  BY <1>26 DEF DeleteErase
<1>27. ASSUME NEW d \in Deletes, DeleteRelease(d) PROVE TypeOK'
  BY <1>27 DEF DeleteRelease
<1>28. ASSUME NEW r \in Renames, NEW p \in Paths, RenameStart(r, p)
      PROVE  TypeOK'
  BY <1>28 DEF RenameStart
<1>29. ASSUME NEW r \in Renames, RenameAcquire(r) PROVE TypeOK'
  BY <1>29 DEF RenameAcquire
<1>30. ASSUME NEW r \in Renames, RenameRelease(r) PROVE TypeOK'
  BY <1>30 DEF RenameRelease
<1>31. ASSUME NEW o \in Opens, NEW s \in Sids, NEW p \in Paths, OpenStart(o, s, p)
      PROVE  TypeOK'
  BY <1>31 DEF OpenStart, Lookup
<1>32. ASSUME NEW o \in Opens, OpenMark(o) PROVE TypeOK'
  BY <1>32 DEF OpenMark
<1>33. ASSUME NEW o \in Opens, OpenAcquire(o) PROVE TypeOK'
  BY <1>33 DEF OpenAcquire
<1>34. ASSUME NEW o \in Opens, OpenFailsEarly(o) PROVE TypeOK'
  BY <1>34 DEF OpenFailsEarly, EndTurn
<1>35. ASSUME NEW o \in Opens, OpenAdopt(o) PROVE TypeOK'
  BY <1>35 DEF OpenAdopt
<1>36. ASSUME NEW o \in Opens, OpenFailsLate(o) PROVE TypeOK'
  BY <1>36 DEF OpenFailsLate
<1>37. ASSUME NEW o \in Opens, OpenUnwind(o) PROVE TypeOK'
  BY <1>37 DEF OpenUnwind, EndTurn
<1>38. ASSUME NEW o \in Opens, OpenSucceeds(o) PROVE TypeOK'
  BY <1>38 DEF OpenSucceeds, EndTurn
<1>39. ASSUME NEW o \in Opens, OpenRearm(o) PROVE TypeOK'
  BY <1>39 DEF OpenRearm
<1>40. ASSUME NEW o \in Opens, OpenSwap(o) PROVE TypeOK'
  BY <1>40 DEF OpenSwap
<1>41. ASSUME NEW o \in Opens, OpenInstall(o) PROVE TypeOK'
  BY <1>41 DEF OpenInstall
<1>42. ASSUME NEW o \in Opens, OpenTidy(o) PROVE TypeOK'
  BY <1>42 DEF OpenTidy
<1>43. ASSUME NEW o \in Opens, OpenEnd(o) PROVE TypeOK'
  BY <1>43 DEF OpenEnd
<1>44. ASSUME AtRest PROVE TypeOK'
  BY <1>44 DEF AtRest, vars
<1> HIDE DEF handles, flags, sessions, disk, locals, Goto, Return, Busy,
    Holds, Paths, Channels, Inv, TypeOK, LabelInv, PcInv, PathInv, LiveInv
<1> QED
  BY <1>1, <1>2, <1>3, <1>4, <1>5, <1>6, <1>7, <1>8, <1>9, <1>10,
     <1>11, <1>12, <1>13, <1>14, <1>15, <1>16, <1>17, <1>18, <1>19, <1>20,
     <1>21, <1>22, <1>23, <1>24, <1>25, <1>26, <1>27, <1>28, <1>29, <1>30,
     <1>31, <1>32, <1>33, <1>34, <1>35, <1>36, <1>37, <1>38, <1>39, <1>40,
     <1>41, <1>42, <1>43, <1>44
     DEF Next, AskStep, AskProceeds, DetachStep, CloseStep, DropStep, DeleteStep,
         RenameStep, OpenStep, OpenProceeds

\* Each command goes from label to label.
LEMMA PcStep == ASSUME PcInv, Next PROVE PcInv'
<1> USE DEF Goto, Return, Commands, Detachers, handles, flags, sessions,
    disk, locals, PcInv, Labels
<1>1. ASSUME NEW s \in Sids,
             \/ CreateSession(s) \/ DropRelease(s) \/ DropSignal(s)
             \/ DropFields(s)
      PROVE  PcInv'
  BY <1>1 DEF CreateSession, DropRelease, DropSignal, DropFields
<1>2. ASSUME NEW a \in Asks, NEW s \in Sids,
             AskStart(a, s)
      PROVE  PcInv'
  BY <1>2 DEF AskStart, Lookup
<1>3. ASSUME NEW a \in Asks,
             \/ AskLock(a) \/ AskBegin(a) \/ AskVerdict(a) \/ AskCheck(a)
             \/ AskRecord(a) \/ AskLeave(a)
      PROVE  PcInv'
  BY <1>3 DEF AskLock, AskBegin, AskVerdict, AskCheck, AskRecord, Save,
     AskLeave
<1>4. ASSUME NEW e \in Edits, NEW s \in Sids,
             EditStart(e, s)
      PROVE  PcInv'
  BY <1>4 DEF EditStart, Lookup
<1>5. ASSUME NEW e \in Edits,
             EditApply(e)
      PROVE  PcInv'
  BY <1>5 DEF EditApply, Save
<1>6. ASSUME NEW c \in Closes, NEW s \in Sids,
             CloseStart(c, s)
      PROVE  PcInv'
  BY <1>6 DEF CloseStart, Lookup
<1>7. ASSUME NEW c \in Closes,
             ClosePeek(c) \/ CloseClean(c)
      PROVE  PcInv'
  BY <1>7 DEF ClosePeek, CloseClean
<1>8. ASSUME NEW c \in Detachers,
             DetachMark(c) \/ DetachFire(c) \/ DetachRemove(c)
      PROVE  PcInv'
  BY <1>8 DEF DetachMark, Detachers, DetachFire, DetachRemove
<1>9. ASSUME NEW d \in Deletes, NEW s \in Sids,
             DeleteOpenSession(d, s)
      PROVE  PcInv'
  BY <1>9 DEF DeleteOpenSession, Lookup
<1>10. ASSUME NEW d \in Deletes, NEW p \in Paths,
             DeleteClosed(d, p)
      PROVE  PcInv'
  BY <1>10 DEF DeleteClosed
<1>11. ASSUME NEW d \in Deletes,
             \/ WaitTake(d) \/ WaitSignalled(d) \/ WaitTimeout(d)
             \/ DeleteAcquire(d) \/ DeleteErase(d) \/ DeleteRelease(d)
      PROVE  PcInv'
  BY <1>11 DEF WaitTake, WaitSignalled, WaitTimeout, DeleteAcquire,
     DeleteErase, DeleteRelease
<1>12. ASSUME NEW r \in Renames, NEW p \in Paths,
             RenameStart(r, p)
      PROVE  PcInv'
  BY <1>12 DEF RenameStart
<1>13. ASSUME NEW r \in Renames,
             RenameAcquire(r) \/ RenameRelease(r)
      PROVE  PcInv'
  BY <1>13 DEF RenameAcquire, RenameRelease
<1>14. ASSUME NEW o \in Opens, NEW s \in Sids, NEW p \in Paths,
             OpenStart(o, s, p)
      PROVE  PcInv'
  BY <1>14 DEF OpenStart, Lookup
<1>15. ASSUME NEW o \in Opens,
             \/ OpenMark(o) \/ OpenAcquire(o) \/ OpenFailsEarly(o)
             \/ OpenAdopt(o) \/ OpenFailsLate(o) \/ OpenUnwind(o)
             \/ OpenSucceeds(o) \/ OpenRearm(o) \/ OpenSwap(o) \/ OpenInstall(o)
             \/ OpenTidy(o) \/ OpenEnd(o)
      PROVE  PcInv'
  BY <1>15 DEF OpenMark, OpenAcquire, OpenFailsEarly, EndTurn, OpenAdopt,
     OpenFailsLate, OpenUnwind, OpenSucceeds, OpenRearm, OpenSwap,
     OpenInstall, OpenTidy, OpenEnd
<1>16. ASSUME AtRest PROVE PcInv'
  BY <1>16 DEF AtRest, vars
<1> HIDE DEF Goto, Return, handles, flags, sessions, disk, locals, PcInv,
    Labels
<1> QED
  BY <1>1, <1>2, <1>3, <1>4, <1>5, <1>6, <1>7, <1>8, <1>9, <1>10,
     <1>11, <1>12, <1>13, <1>14, <1>15, <1>16
     DEF Next, AskStep, AskProceeds, DetachStep, CloseStep, DropStep, DeleteStep,
         RenameStep, OpenStep, OpenProceeds

\* A command gets its recipe when it starts.
LEMMA PathStep == ASSUME Inv, Next PROVE PathInv'
<1> USE NoOneAssumption, KindAssumption
    DEF Goto, Return, Commands, Detachers, handles, flags, sessions, disk,
    locals, Paths, Inv, TypeOK, LabelInv, PcInv, PathInv, LiveInv
<1>1. ASSUME NEW d \in Deletes, NEW s \in Sids, DeleteOpenSession(d, s)
      PROVE  PathInv'
  BY <1>1 DEF DeleteOpenSession, Lookup
<1>2. ASSUME NEW d \in Deletes, NEW p \in Paths, DeleteClosed(d, p)
      PROVE  PathInv'
  BY <1>2 DEF DeleteClosed
<1>3. ASSUME NEW r \in Renames, NEW p \in Paths, RenameStart(r, p)
      PROVE  PathInv'
  BY <1>3 DEF RenameStart
<1>4. ASSUME NEW o \in Opens, NEW s \in Sids, NEW p \in Paths, OpenStart(o, s, p)
      PROVE  PathInv'
  BY <1>4 DEF OpenStart, Lookup
<1>5. ASSUME NEW s \in Sids,
             \/ CreateSession(s) \/ DropRelease(s) \/ DropSignal(s)
             \/ DropFields(s)
      PROVE  PathInv'
  BY <1>5 DEF CreateSession, DropRelease, DropSignal, DropFields
<1>6. ASSUME NEW a \in Asks, NEW s \in Sids,
             AskStart(a, s)
      PROVE  PathInv'
  BY <1>6 DEF AskStart, Lookup
<1>7. ASSUME NEW a \in Asks,
             \/ AskLock(a) \/ AskBegin(a) \/ AskVerdict(a) \/ AskCheck(a)
             \/ AskRecord(a) \/ AskLeave(a)
      PROVE  PathInv'
  BY <1>7 DEF AskLock, AskBegin, AskVerdict, AskCheck, AskRecord, Save,
     AskLeave
<1>8. ASSUME NEW e \in Edits, NEW s \in Sids,
             EditStart(e, s)
      PROVE  PathInv'
  BY <1>8 DEF EditStart, Lookup
<1>9. ASSUME NEW e \in Edits,
             EditApply(e)
      PROVE  PathInv'
  BY <1>9 DEF EditApply, Save
<1>10. ASSUME NEW c \in Closes, NEW s \in Sids,
             CloseStart(c, s)
      PROVE  PathInv'
  BY <1>10 DEF CloseStart, Lookup
<1>11. ASSUME NEW c \in Closes,
             ClosePeek(c) \/ CloseClean(c)
      PROVE  PathInv'
  BY <1>11 DEF ClosePeek, CloseClean
<1>12. ASSUME NEW c \in Detachers,
             DetachMark(c) \/ DetachFire(c) \/ DetachRemove(c)
      PROVE  PathInv'
  BY <1>12 DEF DetachMark, Detachers, DetachFire, DetachRemove
<1>13. ASSUME NEW d \in Deletes,
             \/ WaitTake(d) \/ WaitSignalled(d) \/ WaitTimeout(d)
             \/ DeleteAcquire(d) \/ DeleteErase(d) \/ DeleteRelease(d)
      PROVE  PathInv'
  BY <1>13 DEF WaitTake, WaitSignalled, WaitTimeout, DeleteAcquire,
     DeleteErase, DeleteRelease
<1>14. ASSUME NEW r \in Renames,
             RenameAcquire(r) \/ RenameRelease(r)
      PROVE  PathInv'
  BY <1>14 DEF RenameAcquire, RenameRelease
<1>15. ASSUME NEW o \in Opens,
             \/ OpenMark(o) \/ OpenAcquire(o) \/ OpenFailsEarly(o)
             \/ OpenAdopt(o) \/ OpenFailsLate(o) \/ OpenUnwind(o)
             \/ OpenSucceeds(o) \/ OpenRearm(o) \/ OpenSwap(o) \/ OpenInstall(o)
             \/ OpenTidy(o) \/ OpenEnd(o)
      PROVE  PathInv'
  BY <1>15 DEF OpenMark, OpenAcquire, OpenFailsEarly, EndTurn, OpenAdopt,
     OpenFailsLate, OpenUnwind, OpenSucceeds, OpenRearm, OpenSwap,
     OpenInstall, OpenTidy, OpenEnd
<1>16. ASSUME AtRest PROVE PathInv'
  BY <1>16 DEF AtRest, vars
<1> HIDE DEF Goto, Return, handles, flags, sessions, disk, locals, Paths,
    Inv, TypeOK, LabelInv, PcInv, PathInv, LiveInv
<1> QED
  BY <1>1, <1>2, <1>3, <1>4, <1>5, <1>6, <1>7, <1>8, <1>9, <1>10,
     <1>11, <1>12, <1>13, <1>14, <1>15, <1>16
     DEF Next, AskStep, AskProceeds, DetachStep, CloseStep, DropStep, DeleteStep,
         RenameStep, OpenStep, OpenProceeds

\* Only an unreferenced session is dropped.
LEMMA LiveStep == ASSUME Inv, Next PROVE LiveInv'
<1> USE NoOneAssumption, KindAssumption
    DEF handles, flags, sessions, disk, locals, Goto, Return, Busy, Holds,
    Paths, Channels, Commands, Detachers, Inv, TypeOK, LabelInv, PcInv,
    PathInv, LiveInv
<1>1. ASSUME NEW s \in Sids, CreateSession(s) PROVE LiveInv'
  BY <1>1 DEF CreateSession
<1>2. ASSUME NEW s \in Sids, DropRelease(s) PROVE LiveInv'
  BY <1>2 DEF DropRelease, Unreferenced
<1>3. ASSUME NEW c \in Detachers, DetachRemove(c) PROVE LiveInv'
  BY <1>3 DEF DetachRemove, Detachers
<1>4. ASSUME NEW s \in Sids,
             DropSignal(s) \/ DropFields(s)
      PROVE  LiveInv'
  BY <1>4 DEF DropSignal, DropFields
<1>5. ASSUME NEW a \in Asks, NEW s \in Sids,
             AskStart(a, s)
      PROVE  LiveInv'
  BY <1>5 DEF AskStart, Lookup
<1>6. ASSUME NEW a \in Asks,
             \/ AskLock(a) \/ AskBegin(a) \/ AskVerdict(a) \/ AskCheck(a)
             \/ AskRecord(a) \/ AskLeave(a)
      PROVE  LiveInv'
  BY <1>6 DEF AskLock, AskBegin, AskVerdict, AskCheck, AskRecord, Save,
     AskLeave
<1>7. ASSUME NEW e \in Edits, NEW s \in Sids,
             EditStart(e, s)
      PROVE  LiveInv'
  BY <1>7 DEF EditStart, Lookup
<1>8. ASSUME NEW e \in Edits,
             EditApply(e)
      PROVE  LiveInv'
  BY <1>8 DEF EditApply, Save
<1>9. ASSUME NEW c \in Closes, NEW s \in Sids,
             CloseStart(c, s)
      PROVE  LiveInv'
  BY <1>9 DEF CloseStart, Lookup
<1>10. ASSUME NEW c \in Closes,
             ClosePeek(c) \/ CloseClean(c)
      PROVE  LiveInv'
  BY <1>10 DEF ClosePeek, CloseClean
<1>11. ASSUME NEW c \in Detachers,
             DetachMark(c) \/ DetachFire(c)
      PROVE  LiveInv'
  BY <1>11 DEF DetachMark, Detachers, DetachFire
<1>12. ASSUME NEW d \in Deletes, NEW s \in Sids,
             DeleteOpenSession(d, s)
      PROVE  LiveInv'
  BY <1>12 DEF DeleteOpenSession, Lookup
<1>13. ASSUME NEW d \in Deletes, NEW p \in Paths,
             DeleteClosed(d, p)
      PROVE  LiveInv'
  BY <1>13 DEF DeleteClosed
<1>14. ASSUME NEW d \in Deletes,
             \/ WaitTake(d) \/ WaitSignalled(d) \/ WaitTimeout(d)
             \/ DeleteAcquire(d) \/ DeleteErase(d) \/ DeleteRelease(d)
      PROVE  LiveInv'
  BY <1>14 DEF WaitTake, WaitSignalled, WaitTimeout, DeleteAcquire,
     DeleteErase, DeleteRelease
<1>15. ASSUME NEW r \in Renames, NEW p \in Paths,
             RenameStart(r, p)
      PROVE  LiveInv'
  BY <1>15 DEF RenameStart
<1>16. ASSUME NEW r \in Renames,
             RenameAcquire(r) \/ RenameRelease(r)
      PROVE  LiveInv'
  BY <1>16 DEF RenameAcquire, RenameRelease
<1>17. ASSUME NEW o \in Opens, NEW s \in Sids, NEW p \in Paths,
             OpenStart(o, s, p)
      PROVE  LiveInv'
  BY <1>17 DEF OpenStart, Lookup
<1>18. ASSUME NEW o \in Opens,
             \/ OpenMark(o) \/ OpenAcquire(o) \/ OpenFailsEarly(o)
             \/ OpenAdopt(o) \/ OpenFailsLate(o) \/ OpenUnwind(o)
             \/ OpenSucceeds(o) \/ OpenRearm(o) \/ OpenSwap(o) \/ OpenInstall(o)
             \/ OpenTidy(o) \/ OpenEnd(o)
      PROVE  LiveInv'
  BY <1>18 DEF OpenMark, OpenAcquire, OpenFailsEarly, EndTurn, OpenAdopt,
     OpenFailsLate, OpenUnwind, OpenSucceeds, OpenRearm, OpenSwap,
     OpenInstall, OpenTidy, OpenEnd
<1>19. ASSUME AtRest PROVE LiveInv'
  BY <1>19 DEF AtRest, vars
<1> HIDE DEF handles, flags, sessions, disk, locals, Goto, Return, Busy,
    Holds, Paths, Channels, Inv, TypeOK, LabelInv, PcInv, PathInv, LiveInv
<1> QED
  BY <1>1, <1>2, <1>3, <1>4, <1>5, <1>6, <1>7, <1>8, <1>9, <1>10,
     <1>11, <1>12, <1>13, <1>14, <1>15, <1>16, <1>17, <1>18, <1>19
     DEF Next, AskStep, AskProceeds, DetachStep, CloseStep, DropStep, DeleteStep,
         RenameStep, OpenStep, OpenProceeds

\* The lock is taken when it is free and given back by its holder.
LEMMA LockStep == ASSUME Inv, Next PROVE LockInv'
<1> USE NoOneAssumption, KindAssumption
    DEF handles, flags, sessions, disk, locals, Goto, Return, Busy, Holds,
    Paths, Channels, Commands, Detachers, Inv, TypeOK, LabelInv, PcInv,
    PathInv, LockInv, LiveInv
<1>1. ASSUME NEW a \in Asks, AskLock(a) PROVE LockInv'
  BY <1>1 DEF AskLock
<1>2. ASSUME NEW a \in Asks, AskLeave(a) PROVE LockInv'
  BY <1>2 DEF AskLeave
<1>3. ASSUME NEW o \in Opens, OpenSwap(o) PROVE LockInv'
  BY <1>3 DEF OpenSwap
<1>4. ASSUME NEW o \in Opens, OpenInstall(o) PROVE LockInv'
  BY <1>4 DEF OpenInstall
<1>5. ASSUME NEW s \in Sids,
             \/ CreateSession(s) \/ DropRelease(s) \/ DropSignal(s)
             \/ DropFields(s)
      PROVE  LockInv'
  BY <1>5 DEF CreateSession, DropRelease, DropSignal, DropFields
<1>6. ASSUME NEW a \in Asks, NEW s \in Sids,
             AskStart(a, s)
      PROVE  LockInv'
  BY <1>6 DEF AskStart, Lookup
<1>7. ASSUME NEW a \in Asks,
             AskBegin(a) \/ AskVerdict(a) \/ AskCheck(a) \/ AskRecord(a)
      PROVE  LockInv'
  BY <1>7 DEF AskBegin, AskVerdict, AskCheck, AskRecord, Save
<1>8. ASSUME NEW e \in Edits, NEW s \in Sids,
             EditStart(e, s)
      PROVE  LockInv'
  BY <1>8 DEF EditStart, Lookup
<1>9. ASSUME NEW e \in Edits,
             EditApply(e)
      PROVE  LockInv'
  BY <1>9 DEF EditApply, Save
<1>10. ASSUME NEW c \in Closes, NEW s \in Sids,
             CloseStart(c, s)
      PROVE  LockInv'
  BY <1>10 DEF CloseStart, Lookup
<1>11. ASSUME NEW c \in Closes,
             ClosePeek(c) \/ CloseClean(c)
      PROVE  LockInv'
  BY <1>11 DEF ClosePeek, CloseClean
<1>12. ASSUME NEW c \in Detachers,
             DetachMark(c) \/ DetachFire(c) \/ DetachRemove(c)
      PROVE  LockInv'
  BY <1>12 DEF DetachMark, Detachers, DetachFire, DetachRemove
<1>13. ASSUME NEW d \in Deletes, NEW s \in Sids,
             DeleteOpenSession(d, s)
      PROVE  LockInv'
  BY <1>13 DEF DeleteOpenSession, Lookup
<1>14. ASSUME NEW d \in Deletes, NEW p \in Paths,
             DeleteClosed(d, p)
      PROVE  LockInv'
  BY <1>14 DEF DeleteClosed
<1>15. ASSUME NEW d \in Deletes,
             \/ WaitTake(d) \/ WaitSignalled(d) \/ WaitTimeout(d)
             \/ DeleteAcquire(d) \/ DeleteErase(d) \/ DeleteRelease(d)
      PROVE  LockInv'
  BY <1>15 DEF WaitTake, WaitSignalled, WaitTimeout, DeleteAcquire,
     DeleteErase, DeleteRelease
<1>16. ASSUME NEW r \in Renames, NEW p \in Paths,
             RenameStart(r, p)
      PROVE  LockInv'
  BY <1>16 DEF RenameStart
<1>17. ASSUME NEW r \in Renames,
             RenameAcquire(r) \/ RenameRelease(r)
      PROVE  LockInv'
  BY <1>17 DEF RenameAcquire, RenameRelease
<1>18. ASSUME NEW o \in Opens, NEW s \in Sids, NEW p \in Paths,
             OpenStart(o, s, p)
      PROVE  LockInv'
  BY <1>18 DEF OpenStart, Lookup
<1>19. ASSUME NEW o \in Opens,
             \/ OpenMark(o) \/ OpenAcquire(o) \/ OpenFailsEarly(o)
             \/ OpenAdopt(o) \/ OpenFailsLate(o) \/ OpenUnwind(o)
             \/ OpenSucceeds(o) \/ OpenRearm(o) \/ OpenTidy(o) \/ OpenEnd(o)
      PROVE  LockInv'
  BY <1>19 DEF OpenMark, OpenAcquire, OpenFailsEarly, EndTurn, OpenAdopt,
     OpenFailsLate, OpenUnwind, OpenSucceeds, OpenRearm, OpenTidy, OpenEnd
<1>20. ASSUME AtRest PROVE LockInv'
  BY <1>20 DEF AtRest, vars
<1> HIDE DEF handles, flags, sessions, disk, locals, Goto, Return, Busy,
    Holds, Paths, Channels, Inv, TypeOK, LabelInv, PcInv, PathInv, LockInv,
    LiveInv
<1> QED
  BY <1>1, <1>2, <1>3, <1>4, <1>5, <1>6, <1>7, <1>8, <1>9, <1>10,
     <1>11, <1>12, <1>13, <1>14, <1>15, <1>16, <1>17, <1>18, <1>19, <1>20
     DEF Next, AskStep, AskProceeds, DetachStep, CloseStep, DropStep, DeleteStep,
         RenameStep, OpenStep, OpenProceeds

\* A cancel follows its mark, and the mark stays.
LEMMA CloseInvStep == ASSUME Inv, Next PROVE CloseInv'
<1> USE NoOneAssumption, KindAssumption
    DEF handles, flags, sessions, disk, locals, Goto, Return, Busy, Holds,
    Paths, Channels, Commands, Detachers, Inv, TypeOK, LabelInv, PcInv,
    PathInv, CloseInv, LiveInv, CloseDiscardsTurn
<1>1. ASSUME NEW a \in Asks, AskVerdict(a) PROVE CloseInv'
  BY <1>1 DEF AskVerdict
<1>2. ASSUME NEW a \in Asks, AskCheck(a) PROVE CloseInv'
  BY <1>2 DEF AskCheck
<1>3. ASSUME NEW c \in Detachers, DetachMark(c) PROVE CloseInv'
  BY <1>3 DEF DetachMark, Detachers
<1>4. ASSUME NEW c \in Detachers, DetachFire(c) PROVE CloseInv'
  BY <1>4 DEF DetachFire, Detachers
<1>5. ASSUME NEW s \in Sids,
             \/ CreateSession(s) \/ DropRelease(s) \/ DropSignal(s)
             \/ DropFields(s)
      PROVE  CloseInv'
  BY <1>5 DEF CreateSession, DropRelease, DropSignal, DropFields
<1>6. ASSUME NEW a \in Asks, NEW s \in Sids,
             AskStart(a, s)
      PROVE  CloseInv'
  BY <1>6 DEF AskStart, Lookup
<1>7. ASSUME NEW a \in Asks,
             AskLock(a) \/ AskBegin(a) \/ AskRecord(a) \/ AskLeave(a)
      PROVE  CloseInv'
  BY <1>7 DEF AskLock, AskBegin, AskRecord, Save, AskLeave
<1>8. ASSUME NEW e \in Edits, NEW s \in Sids,
             EditStart(e, s)
      PROVE  CloseInv'
  BY <1>8 DEF EditStart, Lookup
<1>9. ASSUME NEW e \in Edits,
             EditApply(e)
      PROVE  CloseInv'
  BY <1>9 DEF EditApply, Save
<1>10. ASSUME NEW c \in Closes, NEW s \in Sids,
             CloseStart(c, s)
      PROVE  CloseInv'
  BY <1>10 DEF CloseStart, Lookup
<1>11. ASSUME NEW c \in Closes,
             ClosePeek(c) \/ CloseClean(c)
      PROVE  CloseInv'
  BY <1>11 DEF ClosePeek, CloseClean
<1>12. ASSUME NEW c \in Detachers,
             DetachRemove(c)
      PROVE  CloseInv'
  BY <1>12 DEF DetachRemove, Detachers
<1>13. ASSUME NEW d \in Deletes, NEW s \in Sids,
             DeleteOpenSession(d, s)
      PROVE  CloseInv'
  BY <1>13 DEF DeleteOpenSession, Lookup
<1>14. ASSUME NEW d \in Deletes, NEW p \in Paths,
             DeleteClosed(d, p)
      PROVE  CloseInv'
  BY <1>14 DEF DeleteClosed
<1>15. ASSUME NEW d \in Deletes,
             \/ WaitTake(d) \/ WaitSignalled(d) \/ WaitTimeout(d)
             \/ DeleteAcquire(d) \/ DeleteErase(d) \/ DeleteRelease(d)
      PROVE  CloseInv'
  BY <1>15 DEF WaitTake, WaitSignalled, WaitTimeout, DeleteAcquire,
     DeleteErase, DeleteRelease
<1>16. ASSUME NEW r \in Renames, NEW p \in Paths,
             RenameStart(r, p)
      PROVE  CloseInv'
  BY <1>16 DEF RenameStart
<1>17. ASSUME NEW r \in Renames,
             RenameAcquire(r) \/ RenameRelease(r)
      PROVE  CloseInv'
  BY <1>17 DEF RenameAcquire, RenameRelease
<1>18. ASSUME NEW o \in Opens, NEW s \in Sids, NEW p \in Paths,
             OpenStart(o, s, p)
      PROVE  CloseInv'
  BY <1>18 DEF OpenStart, Lookup
<1>19. ASSUME NEW o \in Opens,
             \/ OpenMark(o) \/ OpenAcquire(o) \/ OpenFailsEarly(o)
             \/ OpenAdopt(o) \/ OpenFailsLate(o) \/ OpenUnwind(o)
             \/ OpenSucceeds(o) \/ OpenRearm(o) \/ OpenSwap(o) \/ OpenInstall(o)
             \/ OpenTidy(o) \/ OpenEnd(o)
      PROVE  CloseInv'
  BY <1>19 DEF OpenMark, OpenAcquire, OpenFailsEarly, EndTurn, OpenAdopt,
     OpenFailsLate, OpenUnwind, OpenSucceeds, OpenRearm, OpenSwap,
     OpenInstall, OpenTidy, OpenEnd
<1>20. ASSUME AtRest PROVE CloseInv'
  BY <1>20 DEF AtRest, vars
<1> HIDE DEF handles, flags, sessions, disk, locals, Goto, Return, Busy,
    Holds, Paths, Channels, Inv, TypeOK, LabelInv, PcInv, PathInv, CloseInv,
    LiveInv, CloseDiscardsTurn
<1> QED
  BY <1>1, <1>2, <1>3, <1>4, <1>5, <1>6, <1>7, <1>8, <1>9, <1>10,
     <1>11, <1>12, <1>13, <1>14, <1>15, <1>16, <1>17, <1>18, <1>19, <1>20
     DEF Next, AskStep, AskProceeds, DetachStep, CloseStep, DropStep, DeleteStep,
         RenameStep, OpenStep, OpenProceeds

\* What is acquired exists, and what exists was created.
LEMMA BirthStep == ASSUME Inv, BirthInv, SingleWriter, Next PROVE BirthInv'
<1> USE NoOneAssumption, KindAssumption
    DEF handles, flags, sessions, disk, locals, Goto, Return, Busy, Holds,
    Paths, Channels, Commands, Detachers, Inv, TypeOK, LabelInv, PcInv,
    PathInv, LiveInv, BirthInv
<1>1. ASSUME NEW s \in Sids, CreateSession(s) PROVE BirthInv'
  BY <1>1 DEF CreateSession
<1>2. ASSUME NEW d \in Deletes, DeleteAcquire(d) PROVE BirthInv'
  BY <1>2 DEF DeleteAcquire
<1>3. ASSUME NEW r \in Renames, RenameAcquire(r) PROVE BirthInv'
  BY <1>3 DEF RenameAcquire
<1>4. ASSUME NEW o \in Opens, OpenAcquire(o) PROVE BirthInv'
  BY <1>4 DEF OpenAcquire
<1>5. ASSUME NEW o \in Opens, OpenInstall(o) PROVE BirthInv'
  BY <1>5 DEF OpenInstall
<1>6. ASSUME NEW s \in Sids,
             DropRelease(s) \/ DropSignal(s) \/ DropFields(s)
      PROVE  BirthInv'
  BY <1>6 DEF DropRelease, DropSignal, DropFields
<1>7. ASSUME NEW a \in Asks, NEW s \in Sids,
             AskStart(a, s)
      PROVE  BirthInv'
  BY <1>7 DEF AskStart, Lookup
<1>8. ASSUME NEW a \in Asks,
             \/ AskLock(a) \/ AskBegin(a) \/ AskVerdict(a) \/ AskCheck(a)
             \/ AskRecord(a) \/ AskLeave(a)
      PROVE  BirthInv'
  BY <1>8 DEF AskLock, AskBegin, AskVerdict, AskCheck, AskRecord, Save,
     AskLeave
<1>9. ASSUME NEW e \in Edits, NEW s \in Sids,
             EditStart(e, s)
      PROVE  BirthInv'
  BY <1>9 DEF EditStart, Lookup
<1>10. ASSUME NEW e \in Edits,
             EditApply(e)
      PROVE  BirthInv'
  BY <1>10 DEF EditApply, Save
<1>11. ASSUME NEW c \in Closes, NEW s \in Sids,
             CloseStart(c, s)
      PROVE  BirthInv'
  BY <1>11 DEF CloseStart, Lookup
<1>12. ASSUME NEW c \in Closes,
             ClosePeek(c) \/ CloseClean(c)
      PROVE  BirthInv'
  BY <1>12 DEF ClosePeek, CloseClean
<1>13. ASSUME NEW c \in Detachers,
             DetachMark(c) \/ DetachFire(c) \/ DetachRemove(c)
      PROVE  BirthInv'
  BY <1>13 DEF DetachMark, Detachers, DetachFire, DetachRemove
<1>14. ASSUME NEW d \in Deletes, NEW s \in Sids,
             DeleteOpenSession(d, s)
      PROVE  BirthInv'
  BY <1>14 DEF DeleteOpenSession, Lookup
<1>15. ASSUME NEW d \in Deletes, NEW p \in Paths,
             DeleteClosed(d, p)
      PROVE  BirthInv'
  BY <1>15 DEF DeleteClosed
<1>16. ASSUME NEW d \in Deletes,
             \/ WaitTake(d) \/ WaitSignalled(d) \/ WaitTimeout(d)
             \/ DeleteErase(d) \/ DeleteRelease(d)
      PROVE  BirthInv'
  BY <1>16 DEF WaitTake, WaitSignalled, WaitTimeout, DeleteErase,
     DeleteRelease
<1>17. ASSUME NEW r \in Renames, NEW p \in Paths,
             RenameStart(r, p)
      PROVE  BirthInv'
  BY <1>17 DEF RenameStart
<1>18. ASSUME NEW r \in Renames,
             RenameRelease(r)
      PROVE  BirthInv'
  BY <1>18 DEF RenameRelease
<1>19. ASSUME NEW o \in Opens, NEW s \in Sids, NEW p \in Paths,
             OpenStart(o, s, p)
      PROVE  BirthInv'
  BY <1>19 DEF OpenStart, Lookup
<1>20. ASSUME NEW o \in Opens,
             \/ OpenMark(o) \/ OpenFailsEarly(o) \/ OpenAdopt(o)
             \/ OpenFailsLate(o) \/ OpenUnwind(o) \/ OpenSucceeds(o)
             \/ OpenRearm(o) \/ OpenSwap(o) \/ OpenTidy(o) \/ OpenEnd(o)
      PROVE  BirthInv'
  BY <1>20 DEF OpenMark, OpenFailsEarly, EndTurn, OpenAdopt, OpenFailsLate,
     OpenUnwind, OpenSucceeds, OpenRearm, OpenSwap, OpenTidy, OpenEnd
<1>21. ASSUME AtRest PROVE BirthInv'
  BY <1>21 DEF AtRest, vars
<1> HIDE DEF handles, flags, sessions, disk, locals, Goto, Return, Busy,
    Holds, Paths, Channels, Inv, TypeOK, LabelInv, PcInv, PathInv, LiveInv,
    BirthInv
<1> QED
  BY <1>1, <1>2, <1>3, <1>4, <1>5, <1>6, <1>7, <1>8, <1>9, <1>10,
     <1>11, <1>12, <1>13, <1>14, <1>15, <1>16, <1>17, <1>18, <1>19, <1>20,
     <1>21
     DEF Next, AskStep, AskProceeds, DetachStep, CloseStep, DropStep, DeleteStep,
         RenameStep, OpenStep, OpenProceeds

\* An open or a delete starts when none is under way.
LEMMA AloneStep ==
    ASSUME ShellGuards = TRUE, Inv, AloneInv, Next
    PROVE  AloneInv'
<1> USE NoOneAssumption, KindAssumption DEF handles, flags, sessions, disk,
    locals, Goto, Return, Busy, Holds, Paths, Channels, Commands, Detachers,
    Inv, TypeOK, LabelInv, PcInv, PathInv, LiveInv, AloneInv
<1>1. ASSUME NEW d \in Deletes, NEW s \in Sids, DeleteOpenSession(d, s)
      PROVE  AloneInv'
  BY <1>1 DEF DeleteOpenSession, Lookup, ShellIdle
<1>2. ASSUME NEW d \in Deletes, NEW p \in Paths, DeleteClosed(d, p)
      PROVE  AloneInv'
  BY <1>2 DEF DeleteClosed, ShellIdle
<1>3. ASSUME NEW o \in Opens, NEW s \in Sids, NEW p \in Paths,
              OpenStart(o, s, p)
      PROVE  AloneInv'
  BY <1>3 DEF OpenStart, Lookup, ShellIdle
<1>4. ASSUME NEW s \in Sids,
             \/ CreateSession(s) \/ DropRelease(s) \/ DropSignal(s)
             \/ DropFields(s)
      PROVE  AloneInv'
  BY <1>4 DEF CreateSession, DropRelease, DropSignal, DropFields
<1>5. ASSUME NEW a \in Asks, NEW s \in Sids, AskStart(a, s) PROVE AloneInv'
  BY <1>5 DEF AskStart, Lookup
<1>6. ASSUME NEW a \in Asks,
             \/ AskLock(a) \/ AskBegin(a) \/ AskVerdict(a) \/ AskCheck(a)
             \/ AskRecord(a) \/ AskLeave(a)
      PROVE  AloneInv'
  BY <1>6 DEF AskLock, AskBegin, AskVerdict, AskCheck, AskRecord, Save,
     AskLeave
<1>7. ASSUME NEW e \in Edits, NEW s \in Sids, EditStart(e, s) PROVE AloneInv'
  BY <1>7 DEF EditStart, Lookup
<1>8. ASSUME NEW e \in Edits, EditApply(e) PROVE AloneInv'
  BY <1>8 DEF EditApply, Save
<1>9. ASSUME NEW c \in Closes, NEW s \in Sids, CloseStart(c, s) PROVE AloneInv'
  BY <1>9 DEF CloseStart, Lookup
<1>10. ASSUME NEW c \in Closes, ClosePeek(c) \/ CloseClean(c) PROVE AloneInv'
  BY <1>10 DEF ClosePeek, CloseClean
<1>11. ASSUME NEW c \in Detachers,
             \/ DetachMark(c) \/ DetachFire(c) \/ DetachRemove(c)
      PROVE  AloneInv'
  BY <1>11 DEF DetachMark, DetachFire, DetachRemove
<1>12. ASSUME NEW d \in Deletes,
             \/ WaitTake(d) \/ WaitSignalled(d) \/ WaitTimeout(d)
             \/ DeleteAcquire(d) \/ DeleteErase(d) \/ DeleteRelease(d)
      PROVE  AloneInv'
  BY <1>12 DEF WaitTake, WaitSignalled, WaitTimeout, DeleteAcquire,
     DeleteErase, DeleteRelease
<1>13. ASSUME NEW r \in Renames, NEW p \in Paths, RenameStart(r, p)
      PROVE  AloneInv'
  BY <1>13 DEF RenameStart
<1>14. ASSUME NEW r \in Renames, RenameAcquire(r) \/ RenameRelease(r)
      PROVE  AloneInv'
  BY <1>14 DEF RenameAcquire, RenameRelease
<1>15. ASSUME NEW o \in Opens,
             \/ OpenMark(o) \/ OpenAcquire(o) \/ OpenFailsEarly(o)
             \/ OpenAdopt(o) \/ OpenFailsLate(o) \/ OpenUnwind(o)
             \/ OpenSucceeds(o) \/ OpenRearm(o) \/ OpenSwap(o)
             \/ OpenInstall(o) \/ OpenTidy(o) \/ OpenEnd(o)
      PROVE  AloneInv'
  BY <1>15 DEF OpenMark, OpenAcquire, OpenFailsEarly, EndTurn, OpenAdopt,
     OpenFailsLate, OpenUnwind, OpenSucceeds, OpenRearm, OpenSwap, OpenInstall,
     OpenTidy, OpenEnd
<1>16. ASSUME AtRest PROVE AloneInv'
  BY <1>16 DEF AtRest, vars
<1> HIDE DEF handles, flags, sessions, disk, locals, Goto, Return, Busy, Holds,
    Paths, Channels, Inv, TypeOK, LabelInv, PcInv, PathInv, LiveInv, AloneInv
<1> QED
  BY <1>1, <1>2, <1>3, <1>4, <1>5, <1>6, <1>7, <1>8, <1>9, <1>10, <1>11, <1>12,
     <1>13, <1>14, <1>15, <1>16
     DEF Next, AskStep, AskProceeds, DetachStep, CloseStep, DropStep, DeleteStep,
         RenameStep, OpenStep, OpenProceeds

\* Nobody else finds the session of an open: it was created for it, and the
\* gates are shut.
LEMMA ExclusiveStep ==
    ASSUME ShellGuards = TRUE, Inv, AloneInv, ExclusiveInv, Next
    PROVE  ExclusiveInv'
<1> USE NoOneAssumption, KindAssumption DEF handles, flags, sessions, disk,
    locals, Goto, Return, Busy, Holds, Paths, Channels, Commands, Detachers,
    Inv, TypeOK, LabelInv, PcInv, PathInv, LiveInv, ExclusiveInv
<1>1. ASSUME NEW a \in Asks, NEW s \in Sids, AskStart(a, s) PROVE ExclusiveInv'
  BY <1>1 DEF AskStart, Lookup, Shown
<1>2. ASSUME NEW e \in Edits, NEW s \in Sids, EditStart(e, s)
      PROVE  ExclusiveInv'
  BY <1>2 DEF EditStart, Lookup, Shown
<1>3. ASSUME NEW c \in Closes, NEW s \in Sids, CloseStart(c, s)
      PROVE  ExclusiveInv'
  BY <1>3 DEF CloseStart, Lookup, ShellIdle
<1>4. ASSUME NEW d \in Deletes, NEW s \in Sids, DeleteOpenSession(d, s)
      PROVE  ExclusiveInv'
  BY <1>4 DEF DeleteOpenSession, Lookup, ShellIdle
<1>5. ASSUME NEW o \in Opens, NEW s \in Sids, NEW p \in Paths,
              OpenStart(o, s, p)
      PROVE  ExclusiveInv'
  BY <1>5 DEF OpenStart, Lookup, ShellIdle, Fresh
<1>6. ASSUME NEW s \in Sids,
             \/ CreateSession(s) \/ DropRelease(s) \/ DropSignal(s)
             \/ DropFields(s)
      PROVE  ExclusiveInv'
  BY <1>6 DEF CreateSession, DropRelease, DropSignal, DropFields
<1>7. ASSUME NEW a \in Asks,
             \/ AskLock(a) \/ AskBegin(a) \/ AskVerdict(a) \/ AskCheck(a)
             \/ AskRecord(a) \/ AskLeave(a)
      PROVE  ExclusiveInv'
  BY <1>7 DEF AskLock, AskBegin, AskVerdict, AskCheck, AskRecord, Save,
     AskLeave
<1>8. ASSUME NEW e \in Edits, EditApply(e) PROVE ExclusiveInv'
  BY <1>8 DEF EditApply, Save
<1>9. ASSUME NEW c \in Closes, ClosePeek(c) \/ CloseClean(c)
      PROVE  ExclusiveInv'
  BY <1>9 DEF ClosePeek, CloseClean
<1>10. ASSUME NEW c \in Detachers,
             \/ DetachMark(c) \/ DetachFire(c) \/ DetachRemove(c)
      PROVE  ExclusiveInv'
  BY <1>10 DEF DetachMark, DetachFire, DetachRemove
<1>11. ASSUME NEW d \in Deletes, NEW p \in Paths, DeleteClosed(d, p)
      PROVE  ExclusiveInv'
  BY <1>11 DEF DeleteClosed
<1>12. ASSUME NEW d \in Deletes,
             \/ WaitTake(d) \/ WaitSignalled(d) \/ WaitTimeout(d)
             \/ DeleteAcquire(d) \/ DeleteErase(d) \/ DeleteRelease(d)
      PROVE  ExclusiveInv'
  BY <1>12 DEF WaitTake, WaitSignalled, WaitTimeout, DeleteAcquire,
     DeleteErase, DeleteRelease
<1>13. ASSUME NEW r \in Renames, NEW p \in Paths, RenameStart(r, p)
      PROVE  ExclusiveInv'
  BY <1>13 DEF RenameStart
<1>14. ASSUME NEW r \in Renames, RenameAcquire(r) \/ RenameRelease(r)
      PROVE  ExclusiveInv'
  BY <1>14 DEF RenameAcquire, RenameRelease
<1>15. ASSUME NEW o \in Opens,
             \/ OpenMark(o) \/ OpenAcquire(o) \/ OpenFailsEarly(o)
             \/ OpenAdopt(o) \/ OpenFailsLate(o) \/ OpenUnwind(o)
             \/ OpenSucceeds(o) \/ OpenRearm(o) \/ OpenSwap(o)
             \/ OpenInstall(o) \/ OpenTidy(o) \/ OpenEnd(o)
      PROVE  ExclusiveInv'
  BY <1>15 DEF OpenMark, OpenAcquire, OpenFailsEarly, EndTurn, OpenAdopt,
     OpenFailsLate, OpenUnwind, OpenSucceeds, OpenRearm, OpenSwap, OpenInstall,
     OpenTidy, OpenEnd
<1>16. ASSUME AtRest PROVE ExclusiveInv'
  BY <1>16 DEF AtRest, vars
<1> HIDE DEF handles, flags, sessions, disk, locals, Goto, Return, Busy, Holds,
    Paths, Channels, Inv, TypeOK, LabelInv, PcInv, PathInv, LiveInv,
    ExclusiveInv
<1> QED
  BY <1>1, <1>2, <1>3, <1>4, <1>5, <1>6, <1>7, <1>8, <1>9, <1>10, <1>11, <1>12,
     <1>13, <1>14, <1>15, <1>16
     DEF Next, AskStep, AskProceeds, DetachStep, CloseStep, DropStep, DeleteStep,
         RenameStep, OpenStep, OpenProceeds

\* A command that found a session keeps it.
LEMMA TargetStep ==
    ASSUME Inv, TargetInv, Next
    PROVE  TargetInv'
<1> USE NoOneAssumption, KindAssumption DEF handles, flags, sessions, disk,
    locals, Goto, Return, Busy, Holds, Paths, Channels, Commands, Detachers,
    Inv, TypeOK, LabelInv, PcInv, PathInv, LiveInv, TargetInv
<1>1. ASSUME NEW s \in Sids,
             \/ CreateSession(s) \/ DropRelease(s) \/ DropSignal(s)
             \/ DropFields(s)
      PROVE  TargetInv'
  BY <1>1 DEF CreateSession, DropRelease, DropSignal, DropFields
<1>2. ASSUME NEW a \in Asks, NEW s \in Sids, AskStart(a, s) PROVE TargetInv'
  BY <1>2 DEF AskStart, Lookup
<1>3. ASSUME NEW a \in Asks,
             \/ AskLock(a) \/ AskBegin(a) \/ AskVerdict(a) \/ AskCheck(a)
             \/ AskRecord(a) \/ AskLeave(a)
      PROVE  TargetInv'
  BY <1>3 DEF AskLock, AskBegin, AskVerdict, AskCheck, AskRecord, Save,
     AskLeave
<1>4. ASSUME NEW e \in Edits, NEW s \in Sids, EditStart(e, s) PROVE TargetInv'
  BY <1>4 DEF EditStart, Lookup
<1>5. ASSUME NEW e \in Edits, EditApply(e) PROVE TargetInv'
  BY <1>5 DEF EditApply, Save
<1>6. ASSUME NEW c \in Closes, NEW s \in Sids, CloseStart(c, s)
      PROVE  TargetInv'
  BY <1>6 DEF CloseStart, Lookup
<1>7. ASSUME NEW c \in Closes, ClosePeek(c) \/ CloseClean(c) PROVE TargetInv'
  BY <1>7 DEF ClosePeek, CloseClean
<1>8. ASSUME NEW c \in Detachers,
             \/ DetachMark(c) \/ DetachFire(c) \/ DetachRemove(c)
      PROVE  TargetInv'
  BY <1>8 DEF DetachMark, DetachFire, DetachRemove
<1>9. ASSUME NEW d \in Deletes, NEW s \in Sids, DeleteOpenSession(d, s)
      PROVE  TargetInv'
  BY <1>9 DEF DeleteOpenSession, Lookup
<1>10. ASSUME NEW d \in Deletes, NEW p \in Paths, DeleteClosed(d, p)
      PROVE  TargetInv'
  BY <1>10 DEF DeleteClosed
<1>11. ASSUME NEW d \in Deletes,
             \/ WaitTake(d) \/ WaitSignalled(d) \/ WaitTimeout(d)
             \/ DeleteAcquire(d) \/ DeleteErase(d) \/ DeleteRelease(d)
      PROVE  TargetInv'
  BY <1>11 DEF WaitTake, WaitSignalled, WaitTimeout, DeleteAcquire,
     DeleteErase, DeleteRelease
<1>12. ASSUME NEW r \in Renames, NEW p \in Paths, RenameStart(r, p)
      PROVE  TargetInv'
  BY <1>12 DEF RenameStart
<1>13. ASSUME NEW r \in Renames, RenameAcquire(r) \/ RenameRelease(r)
      PROVE  TargetInv'
  BY <1>13 DEF RenameAcquire, RenameRelease
<1>14. ASSUME NEW o \in Opens, NEW s \in Sids, NEW p \in Paths,
              OpenStart(o, s, p)
      PROVE  TargetInv'
  BY <1>14 DEF OpenStart, Lookup
<1>15. ASSUME NEW o \in Opens,
             \/ OpenMark(o) \/ OpenAcquire(o) \/ OpenFailsEarly(o)
             \/ OpenAdopt(o) \/ OpenFailsLate(o) \/ OpenUnwind(o)
             \/ OpenSucceeds(o) \/ OpenRearm(o) \/ OpenSwap(o)
             \/ OpenInstall(o) \/ OpenTidy(o) \/ OpenEnd(o)
      PROVE  TargetInv'
  BY <1>15 DEF OpenMark, OpenAcquire, OpenFailsEarly, EndTurn, OpenAdopt,
     OpenFailsLate, OpenUnwind, OpenSucceeds, OpenRearm, OpenSwap, OpenInstall,
     OpenTidy, OpenEnd
<1>16. ASSUME AtRest PROVE TargetInv'
  BY <1>16 DEF AtRest, vars
<1> HIDE DEF handles, flags, sessions, disk, locals, Goto, Return, Busy, Holds,
    Paths, Channels, Inv, TypeOK, LabelInv, PcInv, PathInv, LiveInv, TargetInv
<1> QED
  BY <1>1, <1>2, <1>3, <1>4, <1>5, <1>6, <1>7, <1>8, <1>9, <1>10, <1>11, <1>12,
     <1>13, <1>14, <1>15, <1>16
     DEF Next, AskStep, AskProceeds, DetachStep, CloseStep, DropStep, DeleteStep,
         RenameStep, OpenStep, OpenProceeds

\* An open that failed late finds its key free: nobody else could take it.
LEMMA UnwindStep ==
    ASSUME LateFailures = FALSE \/ (ShellGuards = TRUE /\ Renames = {} /\ AloneInv),
           Inv, UnwindInv, Next
    PROVE  UnwindInv'
<1> USE NoOneAssumption, KindAssumption DEF handles, flags, sessions, disk,
    locals, Goto, Return, Busy, Holds, Paths, Channels, Commands, Detachers,
    Inv, TypeOK, LabelInv, PcInv, PathInv, LiveInv, UnwindInv, AloneInv
<1>1. ASSUME NEW s \in Sids, CreateSession(s) PROVE UnwindInv'
  BY <1>1 DEF CreateSession, ShellIdle
<1>2. ASSUME NEW d \in Deletes, DeleteAcquire(d) PROVE UnwindInv'
  BY <1>2 DEF DeleteAcquire
<1>3. ASSUME NEW r \in Renames, RenameAcquire(r) PROVE UnwindInv'
  BY <1>3 DEF RenameAcquire
<1>4. ASSUME NEW o \in Opens, OpenAcquire(o) PROVE UnwindInv'
  BY <1>4 DEF OpenAcquire
<1>5. ASSUME NEW o \in Opens, OpenFailsLate(o) PROVE UnwindInv'
  BY <1>5 DEF OpenFailsLate
<1>6. ASSUME NEW s \in Sids, DropRelease(s) \/ DropSignal(s) \/ DropFields(s)
      PROVE  UnwindInv'
  BY <1>6 DEF DropRelease, DropSignal, DropFields
<1>7. ASSUME NEW a \in Asks, NEW s \in Sids, AskStart(a, s) PROVE UnwindInv'
  BY <1>7 DEF AskStart, Lookup
<1>8. ASSUME NEW a \in Asks,
             \/ AskLock(a) \/ AskBegin(a) \/ AskVerdict(a) \/ AskCheck(a)
             \/ AskRecord(a) \/ AskLeave(a)
      PROVE  UnwindInv'
  BY <1>8 DEF AskLock, AskBegin, AskVerdict, AskCheck, AskRecord, Save,
     AskLeave
<1>9. ASSUME NEW e \in Edits, NEW s \in Sids, EditStart(e, s) PROVE UnwindInv'
  BY <1>9 DEF EditStart, Lookup
<1>10. ASSUME NEW e \in Edits, EditApply(e) PROVE UnwindInv'
  BY <1>10 DEF EditApply, Save
<1>11. ASSUME NEW c \in Closes, NEW s \in Sids, CloseStart(c, s)
      PROVE  UnwindInv'
  BY <1>11 DEF CloseStart, Lookup
<1>12. ASSUME NEW c \in Closes, ClosePeek(c) \/ CloseClean(c) PROVE UnwindInv'
  BY <1>12 DEF ClosePeek, CloseClean
<1>13. ASSUME NEW c \in Detachers,
             \/ DetachMark(c) \/ DetachFire(c) \/ DetachRemove(c)
      PROVE  UnwindInv'
  BY <1>13 DEF DetachMark, DetachFire, DetachRemove
<1>14. ASSUME NEW d \in Deletes, NEW s \in Sids, DeleteOpenSession(d, s)
      PROVE  UnwindInv'
  BY <1>14 DEF DeleteOpenSession, Lookup
<1>15. ASSUME NEW d \in Deletes, NEW p \in Paths, DeleteClosed(d, p)
      PROVE  UnwindInv'
  BY <1>15 DEF DeleteClosed
<1>16. ASSUME NEW d \in Deletes,
             \/ WaitTake(d) \/ WaitSignalled(d) \/ WaitTimeout(d)
             \/ DeleteErase(d) \/ DeleteRelease(d)
      PROVE  UnwindInv'
  BY <1>16 DEF WaitTake, WaitSignalled, WaitTimeout, DeleteErase, DeleteRelease
<1>17. ASSUME NEW r \in Renames, NEW p \in Paths, RenameStart(r, p)
      PROVE  UnwindInv'
  BY <1>17 DEF RenameStart
<1>18. ASSUME NEW r \in Renames, RenameRelease(r) PROVE UnwindInv'
  BY <1>18 DEF RenameRelease
<1>19. ASSUME NEW o \in Opens, NEW s \in Sids, NEW p \in Paths,
              OpenStart(o, s, p)
      PROVE  UnwindInv'
  BY <1>19 DEF OpenStart, Lookup
<1>20. ASSUME NEW o \in Opens,
             \/ OpenMark(o) \/ OpenFailsEarly(o) \/ OpenAdopt(o)
             \/ OpenUnwind(o) \/ OpenSucceeds(o) \/ OpenRearm(o) \/ OpenSwap(o)
             \/ OpenInstall(o) \/ OpenTidy(o) \/ OpenEnd(o)
      PROVE  UnwindInv'
  BY <1>20 DEF OpenMark, OpenFailsEarly, EndTurn, OpenAdopt, OpenUnwind,
     OpenSucceeds, OpenRearm, OpenSwap, OpenInstall, OpenTidy, OpenEnd
<1>21. ASSUME AtRest PROVE UnwindInv'
  BY <1>21 DEF AtRest, vars
<1> HIDE DEF handles, flags, sessions, disk, locals, Goto, Return, Busy, Holds,
    Paths, Channels, Inv, TypeOK, LabelInv, PcInv, PathInv, LiveInv, UnwindInv,
    AloneInv
<1> QED
  BY <1>1, <1>2, <1>3, <1>4, <1>5, <1>6, <1>7, <1>8, <1>9, <1>10, <1>11, <1>12,
     <1>13, <1>14, <1>15, <1>16, <1>17, <1>18, <1>19, <1>20, <1>21
     DEF Next, AskStep, AskProceeds, DetachStep, CloseStep, DropStep, DeleteStep,
         RenameStep, OpenStep, OpenProceeds

\* Every step moves at most one recipe from hand to hand, and its key with it;
\* a file changes when its session is created, or while no recipe moves.
LEMMA WritersStep ==
    ASSUME Inv, BirthInv, UnwindInv, SingleWriter, Next
    PROVE  Moves
<1> USE NoOneAssumption, KindAssumption
    DEF handles, flags, sessions, disk, locals, Goto, Return, Busy, Holds,
    Paths, Channels, Commands, Detachers, Inv, TypeOK, LabelInv, PcInv,
    PathInv, LiveInv, LockInv
<1>1. ASSUME NEW s \in Sids, CreateSession(s) PROVE Moves
  <2>1. bound[s] = s
    BY <1>1 DEF CreateSession, BirthInv
  <2>2. \A o \in Opens : tgt[o] = s => pc[o] # "installing"
    BY <1>1 DEF CreateSession
  <2>3. PICK p \in Paths : p = s /\ Writers(p) = {}
    BY <1>1 DEF CreateSession, SingleWriter, BirthInv
  <2>4. \A q \in Paths : q # p => Writers(q)' = Writers(q)
    BY <1>1, <2>1, <2>2, <2>3 DEF CreateSession, Writers, Resumed
  <2>5. Writers(p)' = {s}
    BY <1>1, <2>1, <2>2, <2>3 DEF CreateSession, Writers, Resumed
  <2>6. held' = held \cup {p}
    BY <1>1, <2>1, <2>2, <2>3 DEF CreateSession
  <2>7. Taken(p, s)
    BY <2>1, <2>2, <2>3, <2>4, <2>5, <2>6 DEF Taken, Others
  <2> HIDE DEF Paths, Commands, Inv, TypeOK
  <2> QED
    BY <1>1, <2>3, <2>7 DEF Moves
<1>2. ASSUME NEW s \in Sids, DropRelease(s) PROVE Moves
  <2>1. bound[s] \in Paths /\ s \in Writers(bound[s])
    BY <1>2 DEF DropRelease, Unreferenced, Writers
  <2>2. PICK p \in Paths : p = bound[s] /\ Writers(p) = {s}
    BY <2>1 DEF SingleWriter
  <2>3. \A q \in Paths : q # p => Writers(q)' = Writers(q)
    BY <1>2, <2>1, <2>2 DEF DropRelease, Writers, Resumed
  <2>4. Writers(p)' = {}
    BY <1>2, <2>1, <2>2 DEF DropRelease, Writers, Resumed
  <2>5. held' = held \ {p}
    BY <1>2, <2>1, <2>2 DEF DropRelease
  <2>6. Freed(p)
    BY <2>1, <2>2, <2>3, <2>4, <2>5 DEF Freed, Others
  <2>7. file' = file
    BY <1>2 DEF DropRelease
  <2> HIDE DEF Paths, Commands, Inv, TypeOK
  <2> QED
    BY <2>2, <2>6, <2>7 DEF Moves
<1>3. ASSUME NEW d \in Deletes, DeleteAcquire(d) PROVE Moves
  <2>0. file' = file
    BY <1>3 DEF DeleteAcquire
  <2>1. CASE file[path[d]] # "absent" /\ path[d] \notin held
    <3>1. PICK p \in Paths : p = path[d] /\ Writers(p) = {}
      BY <1>3, <2>1 DEF DeleteAcquire, SingleWriter
    <3>2. \A q \in Paths : q # p => Writers(q)' = Writers(q)
      BY <1>3, <2>1, <3>1 DEF DeleteAcquire, Writers, Resumed
    <3>3. Writers(p)' = {d}
      BY <1>3, <2>1, <3>1 DEF DeleteAcquire, Writers, Resumed
    <3>4. held' = held \cup {p}
      BY <1>3, <2>1, <3>1 DEF DeleteAcquire
    <3>5. Taken(p, d)
      BY <3>1, <3>2, <3>3, <3>4 DEF Taken, Others
    <3>6. d \in Sids \cup Commands
      OBVIOUS
    <3> HIDE DEF Paths, Commands, Inv, TypeOK
    <3> QED
      BY <2>0, <3>1, <3>5, <3>6 DEF Moves
  <2>2. CASE ~(file[path[d]] # "absent" /\ path[d] \notin held)
    <3>1. Quiet /\ FileStep
      BY <1>3, <2>2 DEF DeleteAcquire, Writers, Resumed, Quiet, FileStep
    <3> QED
      BY <3>1 DEF Moves
  <2> QED
    BY <2>1, <2>2
<1>4. ASSUME NEW d \in Deletes, DeleteRelease(d) PROVE Moves
  <2>1. path[d] \in Paths /\ d \in Writers(path[d])
    BY <1>4 DEF DeleteRelease, Writers, Resumed
  <2>2. PICK p \in Paths : p = path[d] /\ Writers(p) = {d}
    BY <2>1 DEF SingleWriter
  <2>3. \A q \in Paths : q # p => Writers(q)' = Writers(q)
    BY <1>4, <2>1, <2>2 DEF DeleteRelease, Writers, Resumed
  <2>4. Writers(p)' = {}
    BY <1>4, <2>1, <2>2 DEF DeleteRelease, Writers, Resumed
  <2>5. held' = held \ {p}
    BY <1>4, <2>1, <2>2 DEF DeleteRelease
  <2>6. Freed(p)
    BY <2>1, <2>2, <2>3, <2>4, <2>5 DEF Freed, Others
  <2>7. file' = file
    BY <1>4 DEF DeleteRelease
  <2> HIDE DEF Paths, Commands, Inv, TypeOK
  <2> QED
    BY <2>2, <2>6, <2>7 DEF Moves
<1>5. ASSUME NEW r \in Renames, RenameAcquire(r) PROVE Moves
  <2>0. file' = file
    BY <1>5 DEF RenameAcquire
  <2>1. CASE file[path[r]] # "absent" /\ path[r] \notin held
    <3>1. PICK p \in Paths : p = path[r] /\ Writers(p) = {}
      BY <1>5, <2>1 DEF RenameAcquire, SingleWriter
    <3>2. \A q \in Paths : q # p => Writers(q)' = Writers(q)
      BY <1>5, <2>1, <3>1 DEF RenameAcquire, Writers, Resumed
    <3>3. Writers(p)' = {r}
      BY <1>5, <2>1, <3>1 DEF RenameAcquire, Writers, Resumed
    <3>4. held' = held \cup {p}
      BY <1>5, <2>1, <3>1 DEF RenameAcquire
    <3>5. Taken(p, r)
      BY <3>1, <3>2, <3>3, <3>4 DEF Taken, Others
    <3>6. r \in Sids \cup Commands
      OBVIOUS
    <3> HIDE DEF Paths, Commands, Inv, TypeOK
    <3> QED
      BY <2>0, <3>1, <3>5, <3>6 DEF Moves
  <2>2. CASE ~(file[path[r]] # "absent" /\ path[r] \notin held)
    <3>1. Quiet /\ FileStep
      BY <1>5, <2>2 DEF RenameAcquire, Writers, Resumed, Quiet, FileStep
    <3> QED
      BY <3>1 DEF Moves
  <2> QED
    BY <2>1, <2>2
<1>6. ASSUME NEW r \in Renames, RenameRelease(r) PROVE Moves
  <2>1. path[r] \in Paths /\ r \in Writers(path[r])
    BY <1>6 DEF RenameRelease, Writers, Resumed
  <2>2. PICK p \in Paths : p = path[r] /\ Writers(p) = {r}
    BY <2>1 DEF SingleWriter
  <2>3. \A q \in Paths : q # p => Writers(q)' = Writers(q)
    BY <1>6, <2>1, <2>2 DEF RenameRelease, Writers, Resumed
  <2>4. Writers(p)' = {}
    BY <1>6, <2>1, <2>2 DEF RenameRelease, Writers, Resumed
  <2>5. held' = held \ {p}
    BY <1>6, <2>1, <2>2 DEF RenameRelease
  <2>6. Freed(p)
    BY <2>1, <2>2, <2>3, <2>4, <2>5 DEF Freed, Others
  <2>7. file' = file
    BY <1>6 DEF RenameRelease
  <2> HIDE DEF Paths, Commands, Inv, TypeOK
  <2> QED
    BY <2>2, <2>6, <2>7 DEF Moves
<1>7. ASSUME NEW o \in Opens, OpenAcquire(o) PROVE Moves
  <2>0. file' = file
    BY <1>7 DEF OpenAcquire
  <2>1. CASE file[path[o]] # "absent" /\ path[o] \notin held
    <3>1. PICK p \in Paths : p = path[o] /\ Writers(p) = {}
      BY <1>7, <2>1 DEF OpenAcquire, SingleWriter
    <3>2. \A q \in Paths : q # p => Writers(q)' = Writers(q)
      BY <1>7, <2>1, <3>1 DEF OpenAcquire, Writers, Resumed
    <3>3. Writers(p)' = {o}
      BY <1>7, <2>1, <3>1 DEF OpenAcquire, Writers, Resumed
    <3>4. held' = held \cup {p}
      BY <1>7, <2>1, <3>1 DEF OpenAcquire
    <3>5. Taken(p, o)
      BY <3>1, <3>2, <3>3, <3>4 DEF Taken, Others
    <3>6. o \in Sids \cup Commands
      OBVIOUS
    <3> HIDE DEF Paths, Commands, Inv, TypeOK
    <3> QED
      BY <2>0, <3>1, <3>5, <3>6 DEF Moves
  <2>2. CASE ~(file[path[o]] # "absent" /\ path[o] \notin held)
    <3>1. Quiet /\ FileStep
      BY <1>7, <2>2 DEF OpenAcquire, Writers, Resumed, Quiet, FileStep
    <3> QED
      BY <3>1 DEF Moves
  <2> QED
    BY <2>1, <2>2
<1>8. ASSUME NEW o \in Opens, OpenFailsEarly(o) PROVE Moves
  <2>1. path[o] \in Paths /\ o \in Writers(path[o])
    BY <1>8 DEF OpenFailsEarly, EndTurn, Writers, Resumed
  <2>2. PICK p \in Paths : p = path[o] /\ Writers(p) = {o}
    BY <2>1 DEF SingleWriter
  <2>3. \A q \in Paths : q # p => Writers(q)' = Writers(q)
    BY <1>8, <2>1, <2>2 DEF OpenFailsEarly, EndTurn, Writers, Resumed
  <2>4. Writers(p)' = {}
    BY <1>8, <2>1, <2>2 DEF OpenFailsEarly, EndTurn, Writers, Resumed
  <2>5. held' = held \ {p}
    BY <1>8, <2>1, <2>2 DEF OpenFailsEarly, EndTurn
  <2>6. Freed(p)
    BY <2>1, <2>2, <2>3, <2>4, <2>5 DEF Freed, Others
  <2>7. file' = file
    BY <1>8 DEF OpenFailsEarly, EndTurn
  <2> HIDE DEF Paths, Commands, Inv, TypeOK
  <2> QED
    BY <2>2, <2>6, <2>7 DEF Moves
<1>9. ASSUME NEW o \in Opens, OpenFailsLate(o) PROVE Moves
  <2>1. path[o] \in Paths /\ o \in Writers(path[o])
    BY <1>9 DEF OpenFailsLate, Writers, Resumed
  <2>2. PICK p \in Paths : p = path[o] /\ Writers(p) = {o}
    BY <2>1 DEF SingleWriter
  <2>3. \A q \in Paths : q # p => Writers(q)' = Writers(q)
    BY <1>9, <2>1, <2>2 DEF OpenFailsLate, Writers, Resumed
  <2>4. Writers(p)' = {}
    BY <1>9, <2>1, <2>2 DEF OpenFailsLate, Writers, Resumed
  <2>5. held' = held \ {p}
    BY <1>9, <2>1, <2>2 DEF OpenFailsLate
  <2>6. Freed(p)
    BY <2>1, <2>2, <2>3, <2>4, <2>5 DEF Freed, Others
  <2>7. file' = file
    BY <1>9 DEF OpenFailsLate
  <2> HIDE DEF Paths, Commands, Inv, TypeOK
  <2> QED
    BY <2>2, <2>6, <2>7 DEF Moves
<1>10. ASSUME NEW o \in Opens, OpenUnwind(o) PROVE Moves
  <2>1. held' = held
    BY <1>10 DEF OpenUnwind, UnwindInv
  <2>2. \A q \in Paths : Writers(q)' = Writers(q)
    BY <1>10 DEF OpenUnwind, EndTurn, Writers, Resumed
  <2>3. file' = file
    BY <1>10 DEF OpenUnwind
  <2> QED
    BY <2>1, <2>2, <2>3 DEF Moves, Quiet, FileStep
<1>11. ASSUME NEW o \in Opens, OpenSwap(o) PROVE Moves
  <2>1. tgt[o] \in Sids /\ stage[tgt[o]] = "live" /\ bound[tgt[o]] \in Paths
    BY <1>11 DEF OpenSwap
  <2>2. \A u \in Opens : tgt[u] = tgt[o] => pc[u] # "installing"
    BY <1>11 DEF OpenSwap
  <2>3. tgt[o] \in Writers(bound[tgt[o]])
    BY <2>1, <2>2 DEF Writers
  <2>4. PICK p \in Paths : p = bound[tgt[o]] /\ Writers(p) = {tgt[o]}
    BY <2>1, <2>3 DEF SingleWriter
  <2>5. \A q \in Paths : q # p => Writers(q)' = Writers(q)
    BY <1>11, <2>1, <2>2, <2>3, <2>4 DEF OpenSwap, Writers, Resumed
  <2>6. Writers(p)' = {}
    BY <1>11, <2>1, <2>2, <2>3, <2>4 DEF OpenSwap, Writers, Resumed
  <2>7. held' = held \ {p}
    BY <1>11, <2>1, <2>2, <2>3, <2>4 DEF OpenSwap
  <2>8. Freed(p)
    BY <2>1, <2>2, <2>3, <2>4, <2>5, <2>6, <2>7 DEF Freed, Others
  <2>9. file' = file
    BY <1>11 DEF OpenSwap
  <2> HIDE DEF Paths, Commands, Inv, TypeOK
  <2> QED
    BY <2>4, <2>8, <2>9 DEF Moves
<1>12. ASSUME NEW o \in Opens, OpenInstall(o) PROVE Moves
  <2>1. PICK t \in Sids : t = tgt[o] /\ stage[t] = "live"
    BY <1>12 DEF OpenInstall
  <2>2. \A u \in Opens : u # o /\ tgt[u] = t => pc[u] # "installing"
    BY <1>12, <2>1 DEF OpenInstall
  <2>3. path[o] \in Paths /\ o \in Writers(path[o])
    BY <1>12 DEF OpenInstall, Writers, Resumed
  <2>4. PICK p \in Paths : p = path[o] /\ Writers(p) = {o}
    BY <2>3 DEF SingleWriter
  <2>5. \A q \in Paths : q # p => Writers(q)' = Writers(q)
    BY <1>12, <2>1, <2>2, <2>3, <2>4 DEF OpenInstall, Writers, Resumed
  <2>6. Writers(p)' = {t}
    BY <1>12, <2>1, <2>2, <2>3, <2>4 DEF OpenInstall, Writers, Resumed
  <2>7. held' = held
    BY <1>12, <2>1, <2>2, <2>3, <2>4 DEF OpenInstall
  <2>8. Passed(p, o, t)
    BY <2>1, <2>2, <2>3, <2>4, <2>5, <2>6, <2>7 DEF Passed, Others
  <2>9. file' = file /\ o \in Sids \cup Commands /\ t \in Sids \cup Commands
    BY <1>12 DEF OpenInstall
  <2> HIDE DEF Paths, Commands, Inv, TypeOK
  <2> QED
    BY <2>4, <2>8, <2>9 DEF Moves
<1>13. ASSUME NEW s \in Sids,
             DropSignal(s) \/ DropFields(s)
      PROVE  Quiet /\ FileStep
  BY <1>13 DEF DropSignal, DropFields, Writers, Resumed, Quiet, FileStep
<1>14. ASSUME NEW a \in Asks, NEW s \in Sids,
             AskStart(a, s)
      PROVE  Quiet /\ FileStep
  BY <1>14 DEF AskStart, Lookup, Writers, Resumed, Quiet, FileStep
<1>15. ASSUME NEW a \in Asks,
             \/ AskLock(a) \/ AskBegin(a) \/ AskVerdict(a) \/ AskCheck(a)
             \/ AskRecord(a) \/ AskLeave(a)
      PROVE  Quiet /\ FileStep
  BY <1>15 DEF AskLock, AskBegin, AskVerdict, AskCheck, AskRecord, Save,
     AskLeave, Writers, Resumed, Quiet, FileStep
<1>16. ASSUME NEW e \in Edits, NEW s \in Sids,
             EditStart(e, s)
      PROVE  Quiet /\ FileStep
  BY <1>16 DEF EditStart, Lookup, Writers, Resumed, Quiet, FileStep
<1>17. ASSUME NEW e \in Edits,
             EditApply(e)
      PROVE  Quiet /\ FileStep
  <2>1. Quiet
    BY <1>17 DEF EditApply, Save, Writers, Resumed, Quiet
  <2>2. FileStep
    BY <1>17 DEF FileStep
  <2> QED
    BY <2>1, <2>2
<1>18. ASSUME NEW c \in Closes, NEW s \in Sids,
             CloseStart(c, s)
      PROVE  Quiet /\ FileStep
  BY <1>18 DEF CloseStart, Lookup, Writers, Resumed, Quiet, FileStep
<1>19. ASSUME NEW c \in Closes,
             ClosePeek(c) \/ CloseClean(c)
      PROVE  Quiet /\ FileStep
  BY <1>19 DEF ClosePeek, CloseClean, Writers, Resumed, Quiet, FileStep
<1>20. ASSUME NEW c \in Detachers,
             DetachMark(c) \/ DetachFire(c) \/ DetachRemove(c)
      PROVE  Quiet /\ FileStep
  BY <1>20 DEF DetachMark, Detachers, DetachFire, DetachRemove, Writers,
     Resumed, Quiet, FileStep
<1>21. ASSUME NEW d \in Deletes, NEW s \in Sids,
             DeleteOpenSession(d, s)
      PROVE  Quiet /\ FileStep
  BY <1>21 DEF DeleteOpenSession, Lookup, Writers, Resumed, Quiet, FileStep
<1>22. ASSUME NEW d \in Deletes, NEW p \in Paths,
             DeleteClosed(d, p)
      PROVE  Quiet /\ FileStep
  BY <1>22 DEF DeleteClosed, Writers, Resumed, Quiet, FileStep
<1>23. ASSUME NEW d \in Deletes,
             \/ WaitTake(d) \/ WaitSignalled(d) \/ WaitTimeout(d)
             \/ DeleteErase(d)
      PROVE  Quiet /\ FileStep
  BY <1>23 DEF WaitTake, WaitSignalled, WaitTimeout, DeleteErase, Writers,
     Resumed, Quiet, FileStep
<1>24. ASSUME NEW r \in Renames, NEW p \in Paths,
             RenameStart(r, p)
      PROVE  Quiet /\ FileStep
  BY <1>24 DEF RenameStart, Writers, Resumed, Quiet, FileStep
<1>25. ASSUME NEW o \in Opens, NEW s \in Sids, NEW p \in Paths,
             OpenStart(o, s, p)
      PROVE  Quiet /\ FileStep
  BY <1>25 DEF OpenStart, Lookup, Writers, Resumed, Quiet, FileStep
<1>26. ASSUME NEW o \in Opens,
             \/ OpenMark(o) \/ OpenAdopt(o) \/ OpenSucceeds(o) \/ OpenRearm(o)
             \/ OpenTidy(o) \/ OpenEnd(o)
      PROVE  Quiet /\ FileStep
  BY <1>26 DEF OpenMark, OpenAdopt, OpenSucceeds, EndTurn, OpenRearm,
     OpenTidy, OpenEnd, Writers, Resumed, Quiet, FileStep
<1>27. ASSUME AtRest PROVE Quiet /\ FileStep
  BY <1>27 DEF AtRest, vars, Writers, Resumed, Quiet, FileStep
<1> HIDE DEF handles, flags, sessions, disk, locals, Goto, Return, Busy,
    Holds, Paths, Channels, Inv, TypeOK, LabelInv, PcInv, PathInv, LiveInv,
    LockInv
<1> QED
  BY <1>1, <1>2, <1>3, <1>4, <1>5, <1>6, <1>7, <1>8, <1>9, <1>10, <1>11, <1>12, <1>13,
     <1>14, <1>15, <1>16, <1>17, <1>18, <1>19, <1>20, <1>21, <1>22, <1>23, <1>24, <1>25, <1>26, <1>27
     DEF Moves, Next, AskStep, AskProceeds, DetachStep, CloseStep, DropStep,
         DeleteStep, RenameStep, OpenStep, OpenProceeds

\* The writers of a recipe and its key change together.
LEMMA RegStep == ASSUME SingleWriter, Moves PROVE SingleWriter'
<1>1. ASSUME NEW p \in Paths, NEW w, Taken(p, w) PROVE SingleWriter'
  BY <1>1 DEF Taken, Others, SingleWriter
<1>2. ASSUME NEW p \in Paths, Freed(p) PROVE SingleWriter'
  BY <1>2 DEF Freed, Others, SingleWriter
<1>3. ASSUME NEW p \in Paths, NEW v, NEW w, Passed(p, v, w) PROVE SingleWriter'
  BY <1>3 DEF Passed, Others, SingleWriter
<1>4. ASSUME Quiet PROVE SingleWriter'
  BY <1>4 DEF Quiet, SingleWriter
<1> QED
  BY <1>1, <1>2, <1>3, <1>4 DEF Moves, Paths
-----------------------------------------------------------------------------
LEMMA OneOwner ==
    ASSUME SingleWriter, NEW s \in Sids, NEW t \in Sids, Owns(s), Owns(t),
           bound[s] \in Paths, bound[s] = bound[t]
    PROVE  s = t
<1>1. s \in Writers(bound[s]) /\ t \in Writers(bound[s])
  BY DEF Owns, Writers
<1> QED
  BY <1>1 DEF SingleWriter

LEMMA NotResumed ==
    ASSUME SingleWriter, NEW s \in Sids, NEW o \in Opens, Owns(s),
           pc[o] \in Resumed, bound[s] \in Paths
    PROVE  path[o] # bound[s]
<1>1. SUFFICES ASSUME path[o] = bound[s] PROVE FALSE
  OBVIOUS
<1>2. s \in Writers(bound[s]) /\ o \in Writers(bound[s])
  BY <1>1 DEF Owns, Writers
<1> QED
  BY <1>2, KindAssumption DEF SingleWriter, Commands

LEMMA RecorderOwns ==
    ASSUME Inv, NEW a \in Asks, AskRecord(a)
    PROVE  tgt[a] \in Sids /\ Owns(tgt[a]) /\ bound[tgt[a]] \in Paths
BY KindAssumption
   DEF AskRecord, Inv, TypeOK, LiveInv, Holds, Busy, LockInv, Owns, Commands

LEMMA EditorOwns ==
    ASSUME Inv, NEW e \in Edits, EditApply(e)
    PROVE  tgt[e] \in Sids /\ Owns(tgt[e]) /\ bound[tgt[e]] \in Paths
BY KindAssumption, NoOneAssumption
   DEF EditApply, Inv, TypeOK, LiveInv, Holds, Busy, LockInv, Owns, Commands

LEMMA SwapperOwns ==
    ASSUME Inv, NEW o \in Opens, OpenSwap(o)
    PROVE  tgt[o] \in Sids /\ Owns(tgt[o]) /\ bound[tgt[o]] \in Paths
BY KindAssumption, NoOneAssumption
   DEF OpenSwap, Inv, TypeOK, LiveInv, Holds, Busy, LockInv, Owns, Commands

LEMMA CreatedAlone ==
    ASSUME Inv, BirthInv, SingleWriter, NEW s \in Sids, CreateSession(s)
    PROVE  \A t \in Sids : Owns(t) => bound[t] # s
<1>1. SUFFICES ASSUME NEW t \in Sids, Owns(t), bound[t] = s PROVE FALSE
  OBVIOUS
<1>2. s \in Paths /\ s \notin held
  BY DEF CreateSession, BirthInv, Paths
<1>3. t \in Writers(s)
  BY <1>1 DEF Owns, Writers
<1> QED
  BY <1>2, <1>3 DEF SingleWriter

\* What is recorded in a recipe is in the timeline of the session that owns it.
LEMMA UsedStep ==
    ASSUME Inv, BirthInv, SingleWriter, UsedInv, Next
    PROVE  UsedInv'
<1> USE NoOneAssumption, KindAssumption DEF handles, flags, sessions, disk,
    locals, Goto, Return, Busy, Holds, Paths, Channels, Commands, Detachers,
    Inv, TypeOK, LabelInv, PcInv, PathInv, LiveInv, UsedInv, Owns
<1>1. ASSUME NEW s \in Sids, CreateSession(s) PROVE UsedInv'
  BY <1>1 DEF CreateSession, BirthInv
<1>2. ASSUME NEW s \in Sids, DropRelease(s) PROVE UsedInv'
  BY <1>2 DEF DropRelease
<1>3. ASSUME NEW a \in Asks, AskRecord(a) PROVE UsedInv'
  <2>1. tgt[a] \in Sids /\ Owns(tgt[a]) /\ bound[tgt[a]] \in Paths
    BY <1>3, RecorderOwns
  <2>2. file' = [file EXCEPT ![bound[tgt[a]]] =
                   IF @ = "absent" THEN "absent" ELSE "recorded"]
        /\ used' = used \cup {tgt[a]}
    BY <1>3 DEF AskRecord, Save
  <2>3. \A s \in Sids : Owns(s)' <=> Owns(s)
    BY <1>3 DEF AskRecord, Owns
  <2>4. bound' = bound
    BY <1>3 DEF AskRecord
  <2>5. ASSUME NEW s \in Sids \ used', Owns(s)' PROVE file[bound[s]]' # "recorded"
    <3>1. bound[s] # bound[tgt[a]]
      BY <2>1, <2>2, <2>3, <2>5, OneOwner
    <3> QED
      BY <2>2, <2>3, <2>4, <2>5, <3>1
  <2> QED
    BY <2>5
<1>4. ASSUME NEW e \in Edits, EditApply(e) PROVE UsedInv'
  <2>1. tgt[e] \in Sids /\ Owns(tgt[e]) /\ bound[tgt[e]] \in Paths
    BY <1>4, EditorOwns
  <2>2. file' = [file EXCEPT ![bound[tgt[e]]] =
                   IF @ = "absent" THEN "absent" ELSE "recorded"]
        /\ used' = used \cup {tgt[e]}
    BY <1>4 DEF EditApply, Save
  <2>3. \A s \in Sids : Owns(s)' <=> Owns(s)
    BY <1>4 DEF EditApply, Owns
  <2>4. bound' = bound
    BY <1>4 DEF EditApply
  <2>5. ASSUME NEW s \in Sids \ used', Owns(s)' PROVE file[bound[s]]' # "recorded"
    <3>1. bound[s] # bound[tgt[e]]
      BY <2>1, <2>2, <2>3, <2>5, OneOwner
    <3> QED
      BY <2>2, <2>3, <2>4, <2>5, <3>1
  <2> QED
    BY <2>5
<1>5. ASSUME NEW c \in Closes, CloseClean(c) PROVE UsedInv'
  BY <1>5 DEF CloseClean
<1>6. ASSUME NEW d \in Deletes, DeleteErase(d) PROVE UsedInv'
  BY <1>6 DEF DeleteErase
<1>7. ASSUME NEW o \in Opens, OpenSwap(o) PROVE UsedInv'
  BY <1>7 DEF OpenSwap
<1>8. ASSUME NEW o \in Opens, OpenInstall(o) PROVE UsedInv'
  BY <1>8 DEF OpenInstall
<1>9. ASSUME NEW o \in Opens, OpenTidy(o) PROVE UsedInv'
  BY <1>9 DEF OpenTidy
<1>10. ASSUME NEW s \in Sids, DropSignal(s) \/ DropFields(s) PROVE UsedInv'
  BY <1>10 DEF DropSignal, DropFields
<1>11. ASSUME NEW a \in Asks, NEW s \in Sids, AskStart(a, s) PROVE UsedInv'
  BY <1>11 DEF AskStart, Lookup
<1>12. ASSUME NEW a \in Asks,
             \/ AskLock(a) \/ AskBegin(a) \/ AskVerdict(a) \/ AskCheck(a)
             \/ AskLeave(a)
      PROVE  UsedInv'
  BY <1>12 DEF AskLock, AskBegin, AskVerdict, AskCheck, AskLeave
<1>13. ASSUME NEW e \in Edits, NEW s \in Sids, EditStart(e, s) PROVE UsedInv'
  BY <1>13 DEF EditStart, Lookup
<1>14. ASSUME NEW c \in Closes, NEW s \in Sids, CloseStart(c, s) PROVE UsedInv'
  BY <1>14 DEF CloseStart, Lookup
<1>15. ASSUME NEW c \in Closes, ClosePeek(c) PROVE UsedInv'
  BY <1>15 DEF ClosePeek
<1>16. ASSUME NEW c \in Detachers,
             \/ DetachMark(c) \/ DetachFire(c) \/ DetachRemove(c)
      PROVE  UsedInv'
  BY <1>16 DEF DetachMark, DetachFire, DetachRemove
<1>17. ASSUME NEW d \in Deletes, NEW s \in Sids, DeleteOpenSession(d, s)
      PROVE  UsedInv'
  BY <1>17 DEF DeleteOpenSession, Lookup
<1>18. ASSUME NEW d \in Deletes, NEW p \in Paths, DeleteClosed(d, p)
      PROVE  UsedInv'
  BY <1>18 DEF DeleteClosed
<1>19. ASSUME NEW d \in Deletes,
             \/ WaitTake(d) \/ WaitSignalled(d) \/ WaitTimeout(d)
             \/ DeleteAcquire(d) \/ DeleteRelease(d)
      PROVE  UsedInv'
  BY <1>19 DEF WaitTake, WaitSignalled, WaitTimeout, DeleteAcquire,
     DeleteRelease
<1>20. ASSUME NEW r \in Renames, NEW p \in Paths, RenameStart(r, p)
      PROVE  UsedInv'
  BY <1>20 DEF RenameStart
<1>21. ASSUME NEW r \in Renames, RenameAcquire(r) \/ RenameRelease(r)
      PROVE  UsedInv'
  BY <1>21 DEF RenameAcquire, RenameRelease
<1>22. ASSUME NEW o \in Opens, NEW s \in Sids, NEW p \in Paths,
              OpenStart(o, s, p)
      PROVE  UsedInv'
  BY <1>22 DEF OpenStart, Lookup
<1>23. ASSUME NEW o \in Opens,
             \/ OpenMark(o) \/ OpenAcquire(o) \/ OpenFailsEarly(o)
             \/ OpenAdopt(o) \/ OpenFailsLate(o) \/ OpenUnwind(o)
             \/ OpenSucceeds(o) \/ OpenRearm(o) \/ OpenEnd(o)
      PROVE  UsedInv'
  BY <1>23 DEF OpenMark, OpenAcquire, OpenFailsEarly, EndTurn, OpenAdopt,
     OpenFailsLate, OpenUnwind, OpenSucceeds, OpenRearm, OpenEnd
<1>24. ASSUME AtRest PROVE UsedInv'
  BY <1>24 DEF AtRest, vars
<1> HIDE DEF handles, flags, sessions, disk, locals, Goto, Return, Busy, Holds,
    Paths, Channels, Inv, TypeOK, LabelInv, PcInv, PathInv, LiveInv, UsedInv,
    Owns
<1> QED
  BY <1>1, <1>2, <1>3, <1>4, <1>5, <1>6, <1>7, <1>8, <1>9, <1>10, <1>11, <1>12,
     <1>13, <1>14, <1>15, <1>16, <1>17, <1>18, <1>19, <1>20, <1>21, <1>22,
     <1>23, <1>24
     DEF Next, AskStep, AskProceeds, DetachStep, CloseStep, DropStep, DeleteStep,
         RenameStep, OpenStep, OpenProceeds

\* A close removes the directory of a session nobody resumes; an open removes
\* a directory its session has left.
LEMMA SpareStep ==
    ASSUME ShellGuards = TRUE, Inv, BirthInv, SingleWriter, AloneInv, ExclusiveInv,
           UsedInv, SpareInv, Next
    PROVE  SpareInv'
<1> USE NoOneAssumption, KindAssumption DEF handles, flags, sessions, disk,
    locals, Goto, Return, Busy, Holds, Paths, Channels, Commands, Detachers,
    Inv, TypeOK, LabelInv, PcInv, PathInv, LiveInv, SpareInv
<1>1. ASSUME NEW s \in Sids, CreateSession(s) PROVE SpareInv'
  <2>1. \A t \in Sids : Owns(t) => bound[t] # s
    BY <1>1, CreatedAlone
  <2>2. \A o \in Opens : pc[o] \notin {"installing", "tidying"}
    BY <1>1 DEF CreateSession, ShellIdle
  <2> QED
    BY <1>1, <2>1, <2>2 DEF CreateSession
<1>2. ASSUME NEW s \in Sids, DropRelease(s) PROVE SpareInv'
  <2>1. \A t \in Sids : Owns(t)' => Owns(t)
    BY <1>2 DEF DropRelease, Owns
  <2> QED
    BY <1>2, <2>1 DEF DropRelease
<1>3. ASSUME NEW a \in Asks, AskRecord(a) PROVE SpareInv'
  <2>1. tgt[a] \in Sids /\ Owns(tgt[a]) /\ bound[tgt[a]] \in Paths
    BY <1>3, RecorderOwns
  <2>2. file' = [file EXCEPT ![bound[tgt[a]]] =
                   IF @ = "absent" THEN "absent" ELSE "recorded"]
    BY <1>3 DEF AskRecord, Save
  <2>3. \A s \in Sids : Owns(s)' <=> Owns(s)
    BY <1>3 DEF AskRecord, Owns
  <2>4. /\ \A c \in Closes \cup Opens : spare[c]' = spare[c] /\ path[c]' = path[c]
        /\ \A c \in Closes : pc[c]' = pc[c] /\ tgt[c]' = tgt[c]
        /\ \A o \in Opens : pc[o]' = pc[o]
        /\ bound' = bound
    BY <1>3 DEF AskRecord
  <2>5. ASSUME NEW o \in Opens, pc[o] \in {"installing", "tidying"}, spare[o] # NoOne
        PROVE  file[spare[o]]' # "recorded"
    BY <2>1, <2>2, <2>4, <2>5
  <2> HIDE DEF Inv, TypeOK, Owns
  <2> QED
    BY <2>3, <2>4, <2>5
<1>4. ASSUME NEW e \in Edits, EditApply(e) PROVE SpareInv'
  <2>1. tgt[e] \in Sids /\ Owns(tgt[e]) /\ bound[tgt[e]] \in Paths
    BY <1>4, EditorOwns
  <2>2. file' = [file EXCEPT ![bound[tgt[e]]] =
                   IF @ = "absent" THEN "absent" ELSE "recorded"]
    BY <1>4 DEF EditApply, Save
  <2>3. \A s \in Sids : Owns(s)' <=> Owns(s)
    BY <1>4 DEF EditApply, Owns
  <2>4. /\ \A c \in Closes \cup Opens : spare[c]' = spare[c] /\ path[c]' = path[c]
        /\ \A c \in Closes : pc[c]' = pc[c] /\ tgt[c]' = tgt[c]
        /\ \A o \in Opens : pc[o]' = pc[o]
        /\ bound' = bound
    BY <1>4 DEF EditApply
  <2>5. ASSUME NEW o \in Opens, pc[o] \in {"installing", "tidying"}, spare[o] # NoOne
        PROVE  file[spare[o]]' # "recorded"
    BY <2>1, <2>2, <2>4, <2>5
  <2> HIDE DEF Inv, TypeOK, Owns
  <2> QED
    BY <2>3, <2>4, <2>5
<1>5. ASSUME NEW c \in Closes, ClosePeek(c) PROVE SpareInv'
  BY <1>5 DEF ClosePeek, Owns
<1>6. ASSUME NEW c \in Closes, CloseClean(c) PROVE SpareInv'
  BY <1>6 DEF CloseClean, Owns
<1>7. ASSUME NEW d \in Deletes, DeleteErase(d) PROVE SpareInv'
  BY <1>7 DEF DeleteErase, Owns
<1>8. ASSUME NEW o \in Opens, OpenSwap(o) PROVE SpareInv'
  <2>1. tgt[o] \in Sids /\ Owns(tgt[o]) /\ bound[tgt[o]] \in Paths
    BY <1>8, SwapperOwns
  <2>2. path[o] # bound[tgt[o]]
    BY <1>8, <2>1, NotResumed DEF OpenSwap, Resumed
  <2>3. \A s \in Sids \ {tgt[o]} : Owns(s) => bound[s] # bound[tgt[o]]
    BY <2>1, OneOwner
  <2>4. \A s \in Sids : Owns(s)' => Owns(s) /\ s # tgt[o]
    BY <1>8, <2>1 DEF OpenSwap, Owns
  <2>5. \A u \in Opens \ {o} : pc[u]' \notin {"installing", "tidying"}
    BY <1>8 DEF OpenSwap, AloneInv
  <2>6. spare[o]' # NoOne => spare[o]' = bound[tgt[o]] /\ tgt[o] \notin used
    BY <1>8 DEF OpenSwap
  <2>7. file' = file /\ path' = path /\ bound' = bound
    BY <1>8 DEF OpenSwap
  <2>8. \A c \in Closes : spare[c]' = spare[c] /\ pc[c]' = pc[c] /\ tgt[c]' = tgt[c]
    BY <1>8 DEF OpenSwap
  <2>9. spare[o]' # NoOne => file[spare[o]]' # "recorded"
    BY <2>1, <2>6, <2>7 DEF UsedInv
  <2> HIDE DEF Inv, TypeOK, Owns
  <2> QED
    BY <2>1, <2>2, <2>3, <2>4, <2>5, <2>6, <2>7, <2>8, <2>9
<1>9. ASSUME NEW o \in Opens, OpenInstall(o) PROVE SpareInv'
  <2>1. \A u \in Opens \ {o} : pc[u]' \notin {"installing", "tidying"}
    BY <1>9 DEF OpenInstall, AloneInv
  <2>2. \A c \in Closes : tgt[c] # tgt[o]
    BY <1>9 DEF OpenInstall, ExclusiveInv
  <2>3. \A s \in Sids : Owns(s)' => Owns(s) \/ s = tgt[o]
    BY <1>9 DEF OpenInstall, Owns
  <2>4. bound' = [bound EXCEPT ![tgt[o]] = path[o]] /\ tgt[o] \in Sids
        /\ path[o]' = path[o] /\ file' = file /\ spare' = spare /\ tgt' = tgt
        /\ \A c \in Closes : pc[c]' = pc[c]
    BY <1>9 DEF OpenInstall
  <2>5. pc[o] = "installing" /\ pc[o]' = "tidying"
    BY <1>9 DEF OpenInstall
  <2>6. \A c \in Closes : tgt[c] \in Sids \cup {NoOne}
    OBVIOUS
  <2>7. \A c \in Closes : pc[c] \in {"marking", "firing", "detaching", "cleaning"} =>
           tgt[c] \in Sids
    OBVIOUS
  <2>8. ASSUME NEW c \in Closes,
               pc[c]' \in {"marking", "firing", "detaching", "cleaning"}
        PROVE  spare[c]' \in {NoOne, bound[tgt[c]]'}
    BY <2>2, <2>4, <2>7, <2>8
  <2>9. ASSUME NEW u \in Opens, pc[u]' \in {"installing", "tidying"},
               spare[u]' # NoOne
        PROVE  /\ file[spare[u]]' # "recorded"
               /\ \A s \in Sids : Owns(s)' => bound[s]' # spare[u]'
               /\ pc[u]' = "installing" => path[u]' # spare[u]'
    <3>1. u = o
      BY <2>1, <2>9
    <3>2. bound \in [Sids -> Paths]
      OBVIOUS
    <3> HIDE DEF Inv, TypeOK, Owns, LiveInv
    <3> QED
      BY <2>3, <2>4, <2>5, <2>9, <3>1, <3>2
  <2> HIDE DEF Inv, TypeOK, Owns, LiveInv
  <2> QED
    BY <2>4, <2>8, <2>9
<1>10. ASSUME NEW o \in Opens, OpenTidy(o) PROVE SpareInv'
  BY <1>10 DEF OpenTidy, Owns
<1>11. ASSUME NEW s \in Sids, DropSignal(s) \/ DropFields(s) PROVE SpareInv'
  BY <1>11 DEF DropSignal, DropFields, Owns
<1>12. ASSUME NEW a \in Asks, NEW s \in Sids, AskStart(a, s) PROVE SpareInv'
  BY <1>12 DEF AskStart, Lookup, Owns
<1>13. ASSUME NEW a \in Asks,
             \/ AskLock(a) \/ AskBegin(a) \/ AskVerdict(a) \/ AskCheck(a)
             \/ AskLeave(a)
      PROVE  SpareInv'
  BY <1>13 DEF AskLock, AskBegin, AskVerdict, AskCheck, AskLeave, Owns
<1>14. ASSUME NEW e \in Edits, NEW s \in Sids, EditStart(e, s) PROVE SpareInv'
  BY <1>14 DEF EditStart, Lookup, Owns
<1>15. ASSUME NEW c \in Closes, NEW s \in Sids, CloseStart(c, s)
      PROVE  SpareInv'
  BY <1>15 DEF CloseStart, Lookup, Owns
<1>16. ASSUME NEW c \in Detachers,
             \/ DetachMark(c) \/ DetachFire(c) \/ DetachRemove(c)
      PROVE  SpareInv'
  BY <1>16 DEF DetachMark, DetachFire, DetachRemove, Owns
<1>17. ASSUME NEW d \in Deletes, NEW s \in Sids, DeleteOpenSession(d, s)
      PROVE  SpareInv'
  BY <1>17 DEF DeleteOpenSession, Lookup, Owns
<1>18. ASSUME NEW d \in Deletes, NEW p \in Paths, DeleteClosed(d, p)
      PROVE  SpareInv'
  BY <1>18 DEF DeleteClosed, Owns
<1>19. ASSUME NEW d \in Deletes,
             \/ WaitTake(d) \/ WaitSignalled(d) \/ WaitTimeout(d)
             \/ DeleteAcquire(d) \/ DeleteRelease(d)
      PROVE  SpareInv'
  BY <1>19 DEF WaitTake, WaitSignalled, WaitTimeout, DeleteAcquire,
     DeleteRelease, Owns
<1>20. ASSUME NEW r \in Renames, NEW p \in Paths, RenameStart(r, p)
      PROVE  SpareInv'
  BY <1>20 DEF RenameStart, Owns
<1>21. ASSUME NEW r \in Renames, RenameAcquire(r) \/ RenameRelease(r)
      PROVE  SpareInv'
  BY <1>21 DEF RenameAcquire, RenameRelease, Owns
<1>22. ASSUME NEW o \in Opens, NEW s \in Sids, NEW p \in Paths,
              OpenStart(o, s, p)
      PROVE  SpareInv'
  BY <1>22 DEF OpenStart, Lookup, Owns
<1>23. ASSUME NEW o \in Opens,
             \/ OpenMark(o) \/ OpenAcquire(o) \/ OpenFailsEarly(o)
             \/ OpenAdopt(o) \/ OpenFailsLate(o) \/ OpenUnwind(o)
             \/ OpenSucceeds(o) \/ OpenRearm(o) \/ OpenEnd(o)
      PROVE  SpareInv'
  BY <1>23 DEF OpenMark, OpenAcquire, OpenFailsEarly, EndTurn, OpenAdopt,
     OpenFailsLate, OpenUnwind, OpenSucceeds, OpenRearm, OpenEnd, Owns
<1>24. ASSUME AtRest PROVE SpareInv'
  BY <1>24 DEF AtRest, vars, Owns
<1> HIDE DEF handles, flags, sessions, disk, locals, Goto, Return, Busy, Holds,
    Paths, Channels, Inv, TypeOK, LabelInv, PcInv, PathInv, LiveInv, SpareInv
<1> QED
  BY <1>1, <1>2, <1>3, <1>4, <1>5, <1>6, <1>7, <1>8, <1>9, <1>10, <1>11, <1>12,
     <1>13, <1>14, <1>15, <1>16, <1>17, <1>18, <1>19, <1>20, <1>21, <1>22,
     <1>23, <1>24
     DEF Next, AskStep, AskProceeds, DetachStep, CloseStep, DropStep, DeleteStep,
         RenameStep, OpenStep, OpenProceeds

\* A session changes its drop signal for that of the open which fills it.
LEMMA SenderStep ==
    ASSUME Inv, SenderInv, Next
    PROVE  SenderInv'
<1> USE NoOneAssumption, KindAssumption DEF handles, flags, sessions, disk,
    locals, Goto, Return, Busy, Holds, Paths, Channels, Commands, Detachers,
    Inv, TypeOK, LabelInv, PcInv, PathInv, LiveInv, SenderInv, Installed
<1>1. ASSUME NEW o \in Opens, OpenInstall(o) PROVE SenderInv'
  BY <1>1 DEF OpenInstall
<1>2. ASSUME NEW s \in Sids,
             \/ CreateSession(s) \/ DropRelease(s) \/ DropSignal(s)
             \/ DropFields(s)
      PROVE  SenderInv'
  BY <1>2 DEF CreateSession, DropRelease, DropSignal, DropFields
<1>3. ASSUME NEW a \in Asks, NEW s \in Sids, AskStart(a, s) PROVE SenderInv'
  BY <1>3 DEF AskStart, Lookup
<1>4. ASSUME NEW a \in Asks,
             \/ AskLock(a) \/ AskBegin(a) \/ AskVerdict(a) \/ AskCheck(a)
             \/ AskRecord(a) \/ AskLeave(a)
      PROVE  SenderInv'
  BY <1>4 DEF AskLock, AskBegin, AskVerdict, AskCheck, AskRecord, Save,
     AskLeave
<1>5. ASSUME NEW e \in Edits, NEW s \in Sids, EditStart(e, s) PROVE SenderInv'
  BY <1>5 DEF EditStart, Lookup
<1>6. ASSUME NEW e \in Edits, EditApply(e) PROVE SenderInv'
  BY <1>6 DEF EditApply, Save
<1>7. ASSUME NEW c \in Closes, NEW s \in Sids, CloseStart(c, s)
      PROVE  SenderInv'
  BY <1>7 DEF CloseStart, Lookup
<1>8. ASSUME NEW c \in Closes, ClosePeek(c) \/ CloseClean(c) PROVE SenderInv'
  BY <1>8 DEF ClosePeek, CloseClean
<1>9. ASSUME NEW c \in Detachers,
             \/ DetachMark(c) \/ DetachFire(c) \/ DetachRemove(c)
      PROVE  SenderInv'
  BY <1>9 DEF DetachMark, DetachFire, DetachRemove
<1>10. ASSUME NEW d \in Deletes, NEW s \in Sids, DeleteOpenSession(d, s)
      PROVE  SenderInv'
  BY <1>10 DEF DeleteOpenSession, Lookup
<1>11. ASSUME NEW d \in Deletes, NEW p \in Paths, DeleteClosed(d, p)
      PROVE  SenderInv'
  BY <1>11 DEF DeleteClosed
<1>12. ASSUME NEW d \in Deletes,
             \/ WaitTake(d) \/ WaitSignalled(d) \/ WaitTimeout(d)
             \/ DeleteAcquire(d) \/ DeleteErase(d) \/ DeleteRelease(d)
      PROVE  SenderInv'
  BY <1>12 DEF WaitTake, WaitSignalled, WaitTimeout, DeleteAcquire,
     DeleteErase, DeleteRelease
<1>13. ASSUME NEW r \in Renames, NEW p \in Paths, RenameStart(r, p)
      PROVE  SenderInv'
  BY <1>13 DEF RenameStart
<1>14. ASSUME NEW r \in Renames, RenameAcquire(r) \/ RenameRelease(r)
      PROVE  SenderInv'
  BY <1>14 DEF RenameAcquire, RenameRelease
<1>15. ASSUME NEW o \in Opens, NEW s \in Sids, NEW p \in Paths,
              OpenStart(o, s, p)
      PROVE  SenderInv'
  BY <1>15 DEF OpenStart, Lookup
<1>16. ASSUME NEW o \in Opens,
             \/ OpenMark(o) \/ OpenAcquire(o) \/ OpenFailsEarly(o)
             \/ OpenAdopt(o) \/ OpenFailsLate(o) \/ OpenUnwind(o)
             \/ OpenSucceeds(o) \/ OpenRearm(o) \/ OpenSwap(o) \/ OpenTidy(o)
             \/ OpenEnd(o)
      PROVE  SenderInv'
  BY <1>16 DEF OpenMark, OpenAcquire, OpenFailsEarly, EndTurn, OpenAdopt,
     OpenFailsLate, OpenUnwind, OpenSucceeds, OpenRearm, OpenSwap, OpenTidy,
     OpenEnd
<1>17. ASSUME AtRest PROVE SenderInv'
  BY <1>17 DEF AtRest, vars
<1> HIDE DEF handles, flags, sessions, disk, locals, Goto, Return, Busy, Holds,
    Paths, Channels, Inv, TypeOK, LabelInv, PcInv, PathInv, LiveInv, SenderInv,
    Installed
<1> QED
  BY <1>1, <1>2, <1>3, <1>4, <1>5, <1>6, <1>7, <1>8, <1>9, <1>10, <1>11, <1>12,
     <1>13, <1>14, <1>15, <1>16, <1>17
     DEF Next, AskStep, AskProceeds, DetachStep, CloseStep, DropStep, DeleteStep,
         RenameStep, OpenStep, OpenProceeds

\* A signal is sent for its session alone, after the release.
LEMMA SignalStep ==
    ASSUME Inv, SenderInv, SignalInv, Next
    PROVE  SignalInv'
<1> USE NoOneAssumption, KindAssumption DEF handles, flags, sessions, disk,
    locals, Goto, Return, Busy, Holds, Paths, Channels, Commands, Detachers,
    Inv, TypeOK, LabelInv, PcInv, PathInv, LiveInv, SignalInv, Installed
<1>1. ASSUME NEW s \in Sids, DropSignal(s) PROVE SignalInv'
  BY <1>1 DEF DropSignal, SenderInv
<1>2. ASSUME NEW o \in Opens, OpenInstall(o) PROVE SignalInv'
  BY <1>2 DEF OpenInstall, SenderInv
<1>3. ASSUME NEW s \in Sids,
             \/ CreateSession(s) \/ DropRelease(s) \/ DropFields(s)
      PROVE  SignalInv'
  BY <1>3 DEF CreateSession, DropRelease, DropFields
<1>4. ASSUME NEW a \in Asks, NEW s \in Sids, AskStart(a, s) PROVE SignalInv'
  BY <1>4 DEF AskStart, Lookup
<1>5. ASSUME NEW a \in Asks,
             \/ AskLock(a) \/ AskBegin(a) \/ AskVerdict(a) \/ AskCheck(a)
             \/ AskRecord(a) \/ AskLeave(a)
      PROVE  SignalInv'
  BY <1>5 DEF AskLock, AskBegin, AskVerdict, AskCheck, AskRecord, Save,
     AskLeave
<1>6. ASSUME NEW e \in Edits, NEW s \in Sids, EditStart(e, s) PROVE SignalInv'
  BY <1>6 DEF EditStart, Lookup
<1>7. ASSUME NEW e \in Edits, EditApply(e) PROVE SignalInv'
  BY <1>7 DEF EditApply, Save
<1>8. ASSUME NEW c \in Closes, NEW s \in Sids, CloseStart(c, s)
      PROVE  SignalInv'
  BY <1>8 DEF CloseStart, Lookup
<1>9. ASSUME NEW c \in Closes, ClosePeek(c) \/ CloseClean(c) PROVE SignalInv'
  BY <1>9 DEF ClosePeek, CloseClean
<1>10. ASSUME NEW c \in Detachers,
             \/ DetachMark(c) \/ DetachFire(c) \/ DetachRemove(c)
      PROVE  SignalInv'
  BY <1>10 DEF DetachMark, DetachFire, DetachRemove
<1>11. ASSUME NEW d \in Deletes, NEW s \in Sids, DeleteOpenSession(d, s)
      PROVE  SignalInv'
  BY <1>11 DEF DeleteOpenSession, Lookup
<1>12. ASSUME NEW d \in Deletes, NEW p \in Paths, DeleteClosed(d, p)
      PROVE  SignalInv'
  BY <1>12 DEF DeleteClosed
<1>13. ASSUME NEW d \in Deletes,
             \/ WaitTake(d) \/ WaitSignalled(d) \/ WaitTimeout(d)
             \/ DeleteAcquire(d) \/ DeleteErase(d) \/ DeleteRelease(d)
      PROVE  SignalInv'
  BY <1>13 DEF WaitTake, WaitSignalled, WaitTimeout, DeleteAcquire,
     DeleteErase, DeleteRelease
<1>14. ASSUME NEW r \in Renames, NEW p \in Paths, RenameStart(r, p)
      PROVE  SignalInv'
  BY <1>14 DEF RenameStart
<1>15. ASSUME NEW r \in Renames, RenameAcquire(r) \/ RenameRelease(r)
      PROVE  SignalInv'
  BY <1>15 DEF RenameAcquire, RenameRelease
<1>16. ASSUME NEW o \in Opens, NEW s \in Sids, NEW p \in Paths,
              OpenStart(o, s, p)
      PROVE  SignalInv'
  BY <1>16 DEF OpenStart, Lookup
<1>17. ASSUME NEW o \in Opens,
             \/ OpenMark(o) \/ OpenAcquire(o) \/ OpenFailsEarly(o)
             \/ OpenAdopt(o) \/ OpenFailsLate(o) \/ OpenUnwind(o)
             \/ OpenSucceeds(o) \/ OpenRearm(o) \/ OpenSwap(o) \/ OpenTidy(o)
             \/ OpenEnd(o)
      PROVE  SignalInv'
  BY <1>17 DEF OpenMark, OpenAcquire, OpenFailsEarly, EndTurn, OpenAdopt,
     OpenFailsLate, OpenUnwind, OpenSucceeds, OpenRearm, OpenSwap, OpenTidy,
     OpenEnd
<1>18. ASSUME AtRest PROVE SignalInv'
  BY <1>18 DEF AtRest, vars
<1> HIDE DEF handles, flags, sessions, disk, locals, Goto, Return, Busy, Holds,
    Paths, Channels, Inv, TypeOK, LabelInv, PcInv, PathInv, LiveInv, SignalInv,
    Installed
<1> QED
  BY <1>1, <1>2, <1>3, <1>4, <1>5, <1>6, <1>7, <1>8, <1>9, <1>10, <1>11, <1>12,
     <1>13, <1>14, <1>15, <1>16, <1>17, <1>18
     DEF Next, AskStep, AskProceeds, DetachStep, CloseStep, DropStep, DeleteStep,
         RenameStep, OpenStep, OpenProceeds

\* A handle keeps the receiver of its session, unless an open or a wait took it.
LEMMA SlotStep ==
    ASSUME Inv, AloneInv, TargetInv, SenderInv, SlotInv, Next
    PROVE  SlotInv'
<1> USE NoOneAssumption, KindAssumption DEF handles, flags, sessions, disk,
    locals, Goto, Return, Busy, Holds, Paths, Channels, Commands, Detachers,
    Inv, TypeOK, LabelInv, PcInv, PathInv, LiveInv, SlotInv
<1>1. ASSUME NEW s \in Sids, CreateSession(s) PROVE SlotInv'
  BY <1>1 DEF CreateSession, SenderInv, TargetInv
<1>2. ASSUME NEW d \in Deletes, WaitTake(d) PROVE SlotInv'
  BY <1>2 DEF WaitTake, AloneInv
<1>3. ASSUME NEW o \in Opens, OpenRearm(o) PROVE SlotInv'
  BY <1>3 DEF OpenRearm, AloneInv
<1>4. ASSUME NEW o \in Opens, OpenSwap(o) PROVE SlotInv'
  BY <1>4 DEF OpenSwap
<1>5. ASSUME NEW o \in Opens, OpenInstall(o) PROVE SlotInv'
  BY <1>5 DEF OpenInstall, AloneInv
<1>6. ASSUME NEW s \in Sids, DropRelease(s) \/ DropSignal(s) \/ DropFields(s)
      PROVE  SlotInv'
  BY <1>6 DEF DropRelease, DropSignal, DropFields
<1>7. ASSUME NEW a \in Asks, NEW s \in Sids, AskStart(a, s) PROVE SlotInv'
  BY <1>7 DEF AskStart, Lookup
<1>8. ASSUME NEW a \in Asks,
             \/ AskLock(a) \/ AskBegin(a) \/ AskVerdict(a) \/ AskCheck(a)
             \/ AskRecord(a) \/ AskLeave(a)
      PROVE  SlotInv'
  BY <1>8 DEF AskLock, AskBegin, AskVerdict, AskCheck, AskRecord, Save,
     AskLeave
<1>9. ASSUME NEW e \in Edits, NEW s \in Sids, EditStart(e, s) PROVE SlotInv'
  BY <1>9 DEF EditStart, Lookup
<1>10. ASSUME NEW e \in Edits, EditApply(e) PROVE SlotInv'
  BY <1>10 DEF EditApply, Save
<1>11. ASSUME NEW c \in Closes, NEW s \in Sids, CloseStart(c, s) PROVE SlotInv'
  BY <1>11 DEF CloseStart, Lookup
<1>12. ASSUME NEW c \in Closes, ClosePeek(c) \/ CloseClean(c) PROVE SlotInv'
  BY <1>12 DEF ClosePeek, CloseClean
<1>13. ASSUME NEW c \in Detachers,
             \/ DetachMark(c) \/ DetachFire(c) \/ DetachRemove(c)
      PROVE  SlotInv'
  BY <1>13 DEF DetachMark, DetachFire, DetachRemove
<1>14. ASSUME NEW d \in Deletes, NEW s \in Sids, DeleteOpenSession(d, s)
      PROVE  SlotInv'
  BY <1>14 DEF DeleteOpenSession, Lookup
<1>15. ASSUME NEW d \in Deletes, NEW p \in Paths, DeleteClosed(d, p)
      PROVE  SlotInv'
  BY <1>15 DEF DeleteClosed
<1>16. ASSUME NEW d \in Deletes,
             \/ WaitSignalled(d) \/ WaitTimeout(d) \/ DeleteAcquire(d)
             \/ DeleteErase(d) \/ DeleteRelease(d)
      PROVE  SlotInv'
  BY <1>16 DEF WaitSignalled, WaitTimeout, DeleteAcquire, DeleteErase,
     DeleteRelease
<1>17. ASSUME NEW r \in Renames, NEW p \in Paths, RenameStart(r, p)
      PROVE  SlotInv'
  BY <1>17 DEF RenameStart
<1>18. ASSUME NEW r \in Renames, RenameAcquire(r) \/ RenameRelease(r)
      PROVE  SlotInv'
  BY <1>18 DEF RenameAcquire, RenameRelease
<1>19. ASSUME NEW o \in Opens, NEW s \in Sids, NEW p \in Paths,
              OpenStart(o, s, p)
      PROVE  SlotInv'
  BY <1>19 DEF OpenStart, Lookup
<1>20. ASSUME NEW o \in Opens,
             \/ OpenMark(o) \/ OpenAcquire(o) \/ OpenFailsEarly(o)
             \/ OpenAdopt(o) \/ OpenFailsLate(o) \/ OpenUnwind(o)
             \/ OpenSucceeds(o) \/ OpenTidy(o) \/ OpenEnd(o)
      PROVE  SlotInv'
  BY <1>20 DEF OpenMark, OpenAcquire, OpenFailsEarly, EndTurn, OpenAdopt,
     OpenFailsLate, OpenUnwind, OpenSucceeds, OpenTidy, OpenEnd
<1>21. ASSUME AtRest PROVE SlotInv'
  BY <1>21 DEF AtRest, vars
<1> HIDE DEF handles, flags, sessions, disk, locals, Goto, Return, Busy, Holds,
    Paths, Channels, Inv, TypeOK, LabelInv, PcInv, PathInv, LiveInv, SlotInv
<1> QED
  BY <1>1, <1>2, <1>3, <1>4, <1>5, <1>6, <1>7, <1>8, <1>9, <1>10, <1>11, <1>12,
     <1>13, <1>14, <1>15, <1>16, <1>17, <1>18, <1>19, <1>20, <1>21
     DEF Next, AskStep, AskProceeds, DetachStep, CloseStep, DropStep, DeleteStep,
         RenameStep, OpenStep, OpenProceeds

\* Between the signal and the delete the key stays free.
LEMMA GateStep ==
    ASSUME ShellGuards = TRUE, Renames = {}, Inv, AloneInv, TargetInv,
           SignalInv, SlotInv, GateInv, Next
    PROVE  GateInv'
<1> USE NoOneAssumption, KindAssumption DEF handles, flags, sessions, disk,
    locals, Goto, Return, Busy, Holds, Paths, Channels, Commands, Detachers,
    Inv, TypeOK, LabelInv, PcInv, PathInv, LiveInv, GateInv, DeleteGateOpen
<1>1. ASSUME NEW s \in Sids, CreateSession(s) PROVE GateInv'
  BY <1>1 DEF CreateSession, ShellIdle
<1>2. ASSUME NEW s \in Sids, DropRelease(s) PROVE GateInv'
  BY <1>2 DEF DropRelease
<1>3. ASSUME NEW s \in Sids, DropSignal(s) PROVE GateInv'
  BY <1>3 DEF DropSignal
<1>4. ASSUME NEW s \in Sids, DropFields(s) PROVE GateInv'
  BY <1>4 DEF DropFields
<1>5. ASSUME NEW d \in Deletes, NEW s \in Sids, DeleteOpenSession(d, s)
      PROVE  GateInv'
  BY <1>5 DEF DeleteOpenSession, Lookup, TargetInv
<1>6. ASSUME NEW d \in Deletes, NEW p \in Paths, DeleteClosed(d, p)
      PROVE  GateInv'
  BY <1>6 DEF DeleteClosed, TargetInv
<1>7. ASSUME NEW d \in Deletes, WaitTake(d) PROVE GateInv'
  BY <1>7 DEF WaitTake, AloneInv, SlotInv
<1>8. ASSUME NEW d \in Deletes, WaitSignalled(d) PROVE GateInv'
  BY <1>8 DEF WaitSignalled, SignalInv
<1>9. ASSUME NEW d \in Deletes, WaitTimeout(d) PROVE GateInv'
  BY <1>9 DEF WaitTimeout
<1>10. ASSUME NEW d \in Deletes, DeleteAcquire(d) PROVE GateInv'
  BY <1>10 DEF DeleteAcquire, AloneInv
<1>11. ASSUME NEW d \in Deletes, DeleteErase(d) PROVE GateInv'
  BY <1>11 DEF DeleteErase
<1>12. ASSUME NEW d \in Deletes, DeleteRelease(d) PROVE GateInv'
  BY <1>12 DEF DeleteRelease
<1>13. ASSUME NEW r \in Renames, RenameAcquire(r) PROVE GateInv'
  BY <1>13 DEF RenameAcquire
<1>14. ASSUME NEW o \in Opens, OpenAcquire(o) PROVE GateInv'
  BY <1>14 DEF OpenAcquire, AloneInv
<1>15. ASSUME NEW o \in Opens, OpenFailsEarly(o) PROVE GateInv'
  BY <1>15 DEF OpenFailsEarly, EndTurn, AloneInv
<1>16. ASSUME NEW o \in Opens, OpenFailsLate(o) PROVE GateInv'
  BY <1>16 DEF OpenFailsLate, AloneInv
<1>17. ASSUME NEW o \in Opens, OpenUnwind(o) PROVE GateInv'
  BY <1>17 DEF OpenUnwind, EndTurn, AloneInv
<1>18. ASSUME NEW o \in Opens, OpenSwap(o) PROVE GateInv'
  BY <1>18 DEF OpenSwap, AloneInv
<1>19. ASSUME NEW o \in Opens, OpenInstall(o) PROVE GateInv'
  BY <1>19 DEF OpenInstall, AloneInv
<1>20. ASSUME NEW a \in Asks, NEW s \in Sids, AskStart(a, s) PROVE GateInv'
  BY <1>20 DEF AskStart, Lookup
<1>21. ASSUME NEW a \in Asks,
             \/ AskLock(a) \/ AskBegin(a) \/ AskVerdict(a) \/ AskCheck(a)
             \/ AskRecord(a) \/ AskLeave(a)
      PROVE  GateInv'
  BY <1>21 DEF AskLock, AskBegin, AskVerdict, AskCheck, AskRecord, Save,
     AskLeave
<1>22. ASSUME NEW e \in Edits, NEW s \in Sids, EditStart(e, s) PROVE GateInv'
  BY <1>22 DEF EditStart, Lookup
<1>23. ASSUME NEW e \in Edits, EditApply(e) PROVE GateInv'
  BY <1>23 DEF EditApply, Save
<1>24. ASSUME NEW c \in Closes, NEW s \in Sids, CloseStart(c, s) PROVE GateInv'
  BY <1>24 DEF CloseStart, Lookup
<1>25. ASSUME NEW c \in Closes, ClosePeek(c) \/ CloseClean(c) PROVE GateInv'
  BY <1>25 DEF ClosePeek, CloseClean
<1>26. ASSUME NEW c \in Detachers,
             \/ DetachMark(c) \/ DetachFire(c) \/ DetachRemove(c)
      PROVE  GateInv'
  BY <1>26 DEF DetachMark, DetachFire, DetachRemove
<1>27. ASSUME NEW r \in Renames, NEW p \in Paths, RenameStart(r, p)
      PROVE  GateInv'
  BY <1>27 DEF RenameStart
<1>28. ASSUME NEW r \in Renames, RenameRelease(r) PROVE GateInv'
  BY <1>28 DEF RenameRelease
<1>29. ASSUME NEW o \in Opens, NEW s \in Sids, NEW p \in Paths,
              OpenStart(o, s, p)
      PROVE  GateInv'
  BY <1>29 DEF OpenStart, Lookup
<1>30. ASSUME NEW o \in Opens,
             \/ OpenMark(o) \/ OpenAdopt(o) \/ OpenSucceeds(o) \/ OpenRearm(o)
             \/ OpenTidy(o) \/ OpenEnd(o)
      PROVE  GateInv'
  BY <1>30 DEF OpenMark, OpenAdopt, OpenSucceeds, EndTurn, OpenRearm, OpenTidy,
     OpenEnd
<1>31. ASSUME AtRest PROVE GateInv'
  BY <1>31 DEF AtRest, vars
<1> HIDE DEF handles, flags, sessions, disk, locals, Goto, Return, Busy, Holds,
    Paths, Channels, Inv, TypeOK, LabelInv, PcInv, PathInv, LiveInv, GateInv,
    DeleteGateOpen
<1> QED
  BY <1>1, <1>2, <1>3, <1>4, <1>5, <1>6, <1>7, <1>8, <1>9, <1>10, <1>11, <1>12,
     <1>13, <1>14, <1>15, <1>16, <1>17, <1>18, <1>19, <1>20, <1>21, <1>22,
     <1>23, <1>24, <1>25, <1>26, <1>27, <1>28, <1>29, <1>30, <1>31
     DEF Next, AskStep, AskProceeds, DetachStep, CloseStep, DropStep, DeleteStep,
         RenameStep, OpenStep, OpenProceeds
-----------------------------------------------------------------------------
\* In the abstract specification's terms.
LEMMA TakenIsClaim ==
    ASSUME NEW p \in Paths, NEW w \in Sids \cup Commands, Taken(p, w), file' = file
    PROVE  Recipes!Claim(p)
BY DEF Taken, Others, Recipes!Claim, Recipes!Enter

LEMMA FreedIsRelease ==
    ASSUME NEW p \in Paths, Freed(p), file' = file
    PROVE  Recipes!Release(p)
BY DEF Freed, Others, Recipes!Release

LEMMA PassedIsHandOver ==
    ASSUME NEW p \in Paths, NEW v, NEW w \in Sids \cup Commands,
           Passed(p, v, w), file' = file
    PROVE  Recipes!HandOver(p)
BY DEF Passed, Others, Recipes!HandOver, Recipes!Enter

LEMMA CreatedIsCreate ==
    ASSUME BirthInv, NEW s \in Sids, CreateSession(s), Taken(s, s)
    PROVE  Recipes!Create(s)
<1>1. s \in Paths
  BY DEF Paths
<1>2. file[s] = "absent" /\ file' = [file EXCEPT ![s] = "empty"]
  BY DEF CreateSession, BirthInv
<1> QED
  BY <1>1, <1>2 DEF Taken, Others, Recipes!Create, Recipes!Enter

\* The steps that change a file without changing hands are steps of the writer,
\* or discard a directory that is nobody's.
LEMMA FileRefines ==
    ASSUME Inv, ExclusiveInv, SpareInv, Quiet, FileStep
    PROVE  Recipes!Next \/ UNCHANGED Recipes!vars
<1> DEFINE W == [p \in Paths |-> Writers(p)]
           Erased(p) == file' = [file EXCEPT ![p] = "absent"]
<1>1. W' = W /\ file \in [Paths -> {"absent", "empty", "recorded"}]
  BY DEF Quiet, Inv, TypeOK
<1>2. ASSUME file' = file PROVE UNCHANGED Recipes!vars
  BY <1>1, <1>2 DEF Recipes!vars
<1>3. ASSUME NEW s \in Sids, Owns(s), bound[s] \in Paths, Save(s)
      PROVE  Recipes!Next \/ UNCHANGED Recipes!vars
  <2>1. Writers(bound[s]) # {}
    BY <1>3 DEF Owns, Writers
  <2>2. CASE file[bound[s]] = "absent"
    <3>1. file' = file
      BY <1>1, <1>3, <2>2 DEF Save
    <3> QED
      BY <3>1, <1>2
  <2>3. CASE file[bound[s]] # "absent"
    <3>1. file' = [file EXCEPT ![bound[s]] = "recorded"]
      BY <1>1, <1>3, <2>3 DEF Save
    <3>2. Recipes!Record(bound[s])
      BY <1>1, <1>3, <2>1, <2>3, <3>1 DEF Recipes!Record
    <3> QED
      BY <1>3, <3>2 DEF Recipes!Next
  <2> QED
    BY <2>2, <2>3
<1>4. ASSUME NEW p \in Paths, Writers(p) # {}, Erased(p) PROVE Recipes!Next
  <2>1. Recipes!Erase(p)
    BY <1>1, <1>4 DEF Recipes!Erase
  <2> QED
    BY <2>1 DEF Recipes!Next
<1>5. ASSUME NEW x, file' = [p \in Paths |-> IF p = x THEN "absent" ELSE file[p]]
      PROVE  /\ x \notin Paths => file' = file
             /\ x \in Paths => Erased(x)
  BY <1>1, <1>5
<1>6. ASSUME NEW a \in Asks, AskRecord(a)
      PROVE  Recipes!Next \/ UNCHANGED Recipes!vars
  <2>1. Save(tgt[a])
    BY <1>6 DEF AskRecord
  <2> QED
    BY <1>3, <1>6, <2>1, RecorderOwns
<1>7. ASSUME NEW e \in Edits, EditApply(e)
      PROVE  Recipes!Next \/ UNCHANGED Recipes!vars
  <2>1. Save(tgt[e])
    BY <1>7 DEF EditApply
  <2> QED
    BY <1>3, <1>7, <2>1, EditorOwns
<1>8. ASSUME NEW c \in Closes, CloseClean(c)
      PROVE  Recipes!Next \/ UNCHANGED Recipes!vars
  <2>1. /\ tgt[c] \in Sids /\ stage[tgt[c]] = "live"
        /\ c \in Commands /\ c \notin Opens
    BY <1>8, KindAssumption DEF CloseClean, Inv, LiveInv, Holds, Busy, Commands
  <2>2. Owns(tgt[c]) /\ bound[tgt[c]] \in Paths
    BY <2>1 DEF Owns, ExclusiveInv, Busy, Inv, TypeOK
  <2>3. Writers(bound[tgt[c]]) # {}
    BY <2>1, <2>2 DEF Owns, Writers
  <2>4. spare[c] \in {NoOne, bound[tgt[c]]}
    BY <1>8 DEF CloseClean, SpareInv
  <2>5. NoOne \notin Paths
    BY NoOneAssumption
  <2>6. file' = [p \in Paths |-> IF p = spare[c] THEN "absent" ELSE file[p]]
    BY <1>8 DEF CloseClean
  <2> HIDE DEF Erased
  <2> QED
    BY <1>2, <1>4, <1>5, <2>2, <2>3, <2>4, <2>5, <2>6
<1>9. ASSUME NEW d \in Deletes, DeleteErase(d)
      PROVE  Recipes!Next \/ UNCHANGED Recipes!vars
  <2>1. path[d] \in Paths /\ d \in Writers(path[d]) /\ Erased(path[d])
    BY <1>9 DEF DeleteErase, Writers, Inv, LabelInv, PathInv
  <2> QED
    BY <1>4, <2>1
<1>10. ASSUME NEW o \in Opens, OpenTidy(o)
       PROVE  Recipes!Next \/ UNCHANGED Recipes!vars
  <2>1. file' = [p \in Paths |-> IF p = spare[o] THEN "absent" ELSE file[p]]
    BY <1>10 DEF OpenTidy
  <2>2. CASE spare[o] = NoOne
    <3>1. spare[o] \notin Paths
      BY <2>2, NoOneAssumption
    <3> QED
      BY <1>2, <1>5, <2>1, <3>1
  <2>3. CASE spare[o] # NoOne
    <3>1. spare[o] \in Paths
      BY <2>3 DEF Inv, TypeOK
    <3>2. Erased(spare[o])
      BY <1>5, <2>1, <3>1
    <3>3. file[spare[o]] # "recorded"
      BY <1>10, <2>3 DEF OpenTidy, SpareInv
    <3>4. CASE Writers(spare[o]) # {}
      BY <1>4, <3>1, <3>2, <3>4
    <3>5. CASE Writers(spare[o]) = {} /\ file[spare[o]] = "absent"
      <4>1. file' = file
        BY <1>1, <3>1, <3>2, <3>5
      <4> QED
        BY <1>2, <4>1
    <3>6. CASE Writers(spare[o]) = {} /\ file[spare[o]] = "empty"
      <4>1. Recipes!Discard(spare[o])
        BY <1>1, <3>1, <3>2, <3>6 DEF Recipes!Discard
      <4> QED
        BY <3>1, <4>1 DEF Recipes!Next
    <3>7. file[spare[o]] \in {"absent", "empty"}
      BY <1>1, <3>1, <3>3
    <3> QED
      BY <3>4, <3>5, <3>6, <3>7
  <2> QED
    BY <2>2, <2>3
<1> HIDE DEF W, Erased
<1> QED
  BY <1>2, <1>6, <1>7, <1>8, <1>9, <1>10 DEF FileStep

\* Every step is a step of the abstract specification, or leaves it alone.
LEMMA RefineStep ==
    ASSUME Inv, BirthInv, ExclusiveInv, SpareInv, Moves
    PROVE  Recipes!Next \/ UNCHANGED Recipes!vars
<1>1. ASSUME NEW s \in Sids, CreateSession(s), Taken(s, s) PROVE Recipes!Next
  BY <1>1, CreatedIsCreate DEF Recipes!Next, Paths
<1>2. ASSUME NEW p \in Paths, NEW w \in Sids \cup Commands, Taken(p, w),
             file' = file
      PROVE  Recipes!Next
  BY <1>2, TakenIsClaim DEF Recipes!Next
<1>3. ASSUME NEW p \in Paths, Freed(p), file' = file PROVE Recipes!Next
  BY <1>3, FreedIsRelease DEF Recipes!Next
<1>4. ASSUME NEW p \in Paths, NEW v \in Sids \cup Commands,
             NEW w \in Sids \cup Commands, Passed(p, v, w), file' = file
      PROVE  Recipes!Next
  BY <1>4, PassedIsHandOver DEF Recipes!Next
<1> QED
  BY <1>1, <1>2, <1>3, <1>4, FileRefines DEF Moves
-----------------------------------------------------------------------------
\* A stutter keeps what the steps keep.
LEMMA Stutter ==
    ASSUME UNCHANGED vars
    PROVE  /\ Inv => Inv'
           /\ KeyInv => KeyInv'
           /\ ShellInv => ShellInv'
           /\ WaitInv => WaitInv'
<1> USE DEF vars, handles, flags, sessions, disk, locals
<1>1. Inv => Inv'
  <2>1. TypeOK => TypeOK'
    BY DEF TypeOK
  <2>2. LabelInv => LabelInv'
    BY DEF LabelInv, PcInv, PathInv
  <2>3. LiveInv => LiveInv'
    BY DEF LiveInv, Holds, Busy
  <2>4. LockInv => LockInv'
    BY DEF LockInv
  <2>5. CloseInv => CloseInv'
    BY DEF CloseInv, CloseDiscardsTurn
  <2> QED
    BY <2>1, <2>2, <2>3, <2>4, <2>5 DEF Inv
<1>2. KeyInv => KeyInv'
  <2>1. BirthInv => BirthInv'
    BY DEF BirthInv
  <2>2. UnwindInv => UnwindInv'
    BY DEF UnwindInv
  <2>3. SingleWriter => SingleWriter'
    BY DEF SingleWriter, Writers, Resumed
  <2>4. AloneInv => AloneInv'
    BY DEF AloneInv, Busy
  <2> QED
    BY <2>1, <2>2, <2>3, <2>4 DEF KeyInv
<1>3. ShellInv => ShellInv'
  <2>1. ExclusiveInv => ExclusiveInv'
    BY DEF ExclusiveInv, Busy
  <2>2. UsedInv => UsedInv'
    BY DEF UsedInv, Owns
  <2>3. SpareInv => SpareInv'
    BY DEF SpareInv, Owns
  <2> QED
    BY <2>1, <2>2, <2>3 DEF ShellInv
<1>4. WaitInv => WaitInv'
  <2>1. TargetInv => TargetInv'
    BY DEF TargetInv
  <2>2. SenderInv => SenderInv'
    BY DEF SenderInv, Installed
  <2>3. SignalInv => SignalInv'
    BY DEF SignalInv, Installed
  <2>4. SlotInv => SlotInv'
    BY DEF SlotInv
  <2>5. GateInv => GateInv'
    BY DEF GateInv, DeleteGateOpen, Busy
  <2> QED
    BY <2>1, <2>2, <2>3, <2>4, <2>5 DEF WaitInv
<1> QED
  BY <1>1, <1>2, <1>3, <1>4

\* The state the application starts in.
LEMMA InitInv == ASSUME Init PROVE Inv /\ KeyInv /\ ShellInv /\ WaitInv
<1> USE NoOneAssumption, KindAssumption DEF Init, Paths, Channels, Commands
<1>1. TypeOK
  BY DEF TypeOK
<1>2. LabelInv
  BY DEF LabelInv, PcInv, PathInv, Labels
<1>3. LiveInv
  BY DEF LiveInv, Holds, Busy
<1>4. LockInv
  BY DEF LockInv
<1>5. CloseInv
  BY DEF CloseInv, CloseDiscardsTurn, Detachers
<1>6. BirthInv
  BY FreshAssumption DEF BirthInv
<1>7. UnwindInv
  BY DEF UnwindInv
<1>8. SingleWriter
  <2>1. \A p \in Paths : Writers(p) = {}
    BY DEF Writers, Resumed
  <2> QED
    BY <2>1 DEF SingleWriter
<1>9. AloneInv
  BY DEF AloneInv, Busy
<1>10. ShellInv
  BY DEF ShellInv, ExclusiveInv, UsedInv, SpareInv, Owns, Busy
<1>11. WaitInv
  <2>1. TargetInv
    BY DEF TargetInv
  <2>2. SenderInv /\ SignalInv /\ SlotInv
    BY DEF SenderInv, SignalInv, SlotInv, Installed
  <2>3. GateInv
    BY DEF GateInv, DeleteGateOpen, Busy
  <2> QED
    BY <2>1, <2>2, <2>3 DEF WaitInv
<1> QED
  BY <1>1, <1>2, <1>3, <1>4, <1>5, <1>6, <1>7, <1>8, <1>9, <1>10, <1>11
     DEF Inv, KeyInv

\* The invariant of every run, with or without the shell's gates.
LEMMA Invariant == Spec => []Inv
<1>1. Init => Inv
  BY InitInv
<1>2. Inv /\ [Next]_vars => Inv'
  <2>1. ASSUME Inv, Next PROVE Inv'
    <3>1. TypeOK' /\ PathInv' /\ LiveInv' /\ LockInv' /\ CloseInv'
      BY <2>1, TypeStep, PathStep, LiveStep, LockStep, CloseInvStep
    <3>2. PcInv'
      BY <2>1, PcStep DEF Inv, LabelInv
    <3> QED
      BY <3>1, <3>2 DEF Inv, LabelInv
  <2> QED
    BY <2>1, Stutter
<1> QED
  BY <1>1, <1>2, PTL DEF Spec

\* Keys and writers go together unless a late failure meets a rename, or meets
\* anything at all outside the shell.
LEMMA KeyInvariant ==
    ASSUME LateFailures = FALSE \/ (ShellGuards = TRUE /\ Renames = {})
    PROVE  Spec => []KeyInv
<1>1. Init => KeyInv
  BY InitInv
<1>2. Inv /\ KeyInv /\ [Next]_vars => KeyInv'
  <2>1. ASSUME Inv, KeyInv, Next PROVE KeyInv'
    <3>1. BirthInv'
      BY <2>1, BirthStep DEF KeyInv
    <3>2. UnwindInv'
      <4>1. LateFailures = FALSE \/ (ShellGuards = TRUE /\ Renames = {} /\ AloneInv)
        BY <2>1 DEF KeyInv
      <4> QED
        BY <2>1, <4>1, UnwindStep DEF KeyInv
    <3>3. SingleWriter'
      BY <2>1, WritersStep, RegStep DEF KeyInv
    <3>4. ShellGuards = TRUE => AloneInv'
      BY <2>1, AloneStep DEF KeyInv
    <3> QED
      BY <3>1, <3>2, <3>3, <3>4 DEF KeyInv
  <2> QED
    BY <2>1, Stutter
<1> QED
  BY <1>1, <1>2, Invariant, PTL DEF Spec

\* Under the shell's gates an open has its session to itself, and what a close
\* or an open removes is its own or empty.
LEMMA ShellInvariant ==
    ASSUME ShellGuards = TRUE, LateFailures = FALSE \/ Renames = {}
    PROVE  Spec => []ShellInv
<1>1. Init => ShellInv
  BY InitInv
<1>2. Inv /\ KeyInv /\ ShellInv /\ [Next]_vars => ShellInv'
  <2>1. ASSUME Inv, KeyInv, ShellInv, Next PROVE ShellInv'
    <3>1. BirthInv /\ SingleWriter /\ AloneInv
      BY <2>1 DEF KeyInv
    <3>2. ExclusiveInv /\ UsedInv /\ SpareInv
      BY <2>1 DEF ShellInv
    <3>3. ExclusiveInv'
      BY <2>1, <3>1, <3>2, ExclusiveStep
    <3>4. UsedInv'
      BY <2>1, <3>1, <3>2, UsedStep
    <3>5. SpareInv'
      BY <2>1, <3>1, <3>2, SpareStep
    <3> QED
      BY <3>3, <3>4, <3>5 DEF ShellInv
  <2> QED
    BY <2>1, Stutter
<1>3. Spec => []KeyInv
  BY KeyInvariant
<1> QED
  BY <1>1, <1>2, <1>3, Invariant, PTL DEF Spec

\* Whatever the commands and however they interleave, the handles, the
\* sessions, the registry and the session directories stay in their domains and
\* a waiting delete has a receiver.
THEOREM TypeCorrect == Spec => []TypeOK
<1>1. Inv => TypeOK
  BY DEF Inv
<1> QED
  BY <1>1, Invariant, PTL

\* detach marks the handle closing before it fires the cancel, and run_user_turn
\* looks at the mark after its verdict: a turn a close cancelled is never
\* recorded.
THEOREM CloseDiscardsTurnHolds == Spec => []CloseDiscardsTurn
<1>1. Inv => CloseDiscardsTurn
  BY DEF Inv, CloseInv
<1> QED
  BY <1>1, Invariant, PTL

\* The set of held keys holds exactly the recipes that have a writer and no
\* recipe has two.  Without a resume that fails after its session took the key
\* the registry alone is enough; with one, the shell's gates are, as long as no
\* rename is asked for.
THEOREM SingleWriterHolds ==
    ASSUME LateFailures = FALSE \/ (ShellGuards = TRUE /\ Renames = {})
    PROVE  Spec => []SingleWriter
<1>1. KeyInv => SingleWriter
  BY DEF KeyInv
<1> QED
  BY <1>1, KeyInvariant, PTL

\* Under the shell's gates every step of the commands, the turns and the
\* destructor is a step of PathWriters or changes neither a recipe nor its
\* writer: a recipe changes hands through the registry, is changed and erased by
\* its writer, and a directory that is nobody's is removed only while empty.
THEOREM OneWriterPerRecipeHolds ==
    ASSUME ShellGuards = TRUE, LateFailures = FALSE \/ Renames = {}
    PROVE  Spec => OneWriterPerRecipe
<1>1. Init => Recipes!Init
  <2>1. ASSUME Init PROVE \A p \in Paths : Writers(p) = {}
    BY <2>1, KindAssumption DEF Init, Writers, Resumed, Commands
  <2>2. Init => file \in [Paths -> {"absent", "empty", "recorded"}]
    BY DEF Init
  <2> QED
    BY <2>1, <2>2 DEF Recipes!Init
<1>2. Inv /\ KeyInv /\ ShellInv /\ [Next]_vars => [Recipes!Next]_(Recipes!vars)
  <2>1. ASSUME Inv, KeyInv, ShellInv, Next
        PROVE  Recipes!Next \/ UNCHANGED Recipes!vars
    <3>1. Moves
      BY <2>1, WritersStep DEF KeyInv
    <3> QED
      BY <2>1, <3>1, RefineStep DEF KeyInv, ShellInv
  <2>2. UNCHANGED vars => UNCHANGED Recipes!vars
    BY DEF vars, handles, flags, sessions, disk, locals, Recipes!vars, Writers,
       Resumed
  <2> QED
    BY <2>1, <2>2
<1>3. Spec => []KeyInv
  BY KeyInvariant
<1>4. Spec => []ShellInv
  BY ShellInvariant
<1> QED
  BY <1>1, <1>2, <1>3, <1>4, Invariant, PTL DEF Spec, OneWriterPerRecipe, Recipes!Spec

\* Under the shell's gates, and unless a rename was asked for, a delete whose
\* close-wait was answered finds the key free: the destructor sends the signal
\* after the release, and nobody takes the key before the delete does.
THEOREM DeleteGateOpenHolds ==
    ASSUME ShellGuards = TRUE, Renames = {}
    PROVE  Spec => []DeleteGateOpen
<1>1. Init => WaitInv
  BY InitInv
<1>2. Inv /\ KeyInv /\ WaitInv /\ [Next]_vars => WaitInv'
  <2>1. ASSUME Inv, KeyInv, WaitInv, Next PROVE WaitInv'
    <3>1. AloneInv
      BY <2>1 DEF KeyInv
    <3>2. TargetInv /\ SenderInv /\ SignalInv /\ SlotInv /\ GateInv
      BY <2>1 DEF WaitInv
    <3>3. TargetInv' /\ SenderInv' /\ SignalInv'
      BY <2>1, <3>2, TargetStep, SenderStep, SignalStep
    <3>4. SlotInv'
      BY <2>1, <3>1, <3>2, SlotStep
    <3>5. GateInv'
      BY <2>1, <3>1, <3>2, GateStep
    <3> QED
      BY <3>3, <3>4, <3>5 DEF WaitInv
  <2> QED
    BY <2>1, Stutter
<1>3. WaitInv => DeleteGateOpen
  BY DEF WaitInv, GateInv, DeleteGateOpen
<1>4. Spec => []KeyInv
  BY KeyInvariant
<1> QED
  BY <1>1, <1>2, <1>3, <1>4, Invariant, PTL DEF Spec
=============================================================================
