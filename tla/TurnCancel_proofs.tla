------------------------- MODULE TurnCancel_proofs --------------------------
(***************************************************************************)
(* Proofs about TurnCancel, for any sets of commands and clicks.  The      *)
(* shell's discipline FreshTarget is a hypothesis of every theorem: without*)
(* it a resume overlaps a turn and the invariants fail.                    *)
(***************************************************************************)
EXTENDS TurnCancel, TLAPS

AtRestLabels == {"idle", "done", "refused"}
InDispatch == {"gated", "calling", "register", "registered", "query",
               "unregister", "thaw"}

\* The command holds the session: the lock, or the resuming flag.
InSession(c) == pc[c] \notin AtRestLabels \cup {"queued"}

\* The lock and the resuming flag between them admit one command at a time.
SessionInv ==
    /\ \A c \in Locked : InSession(c) <=> lock = c
    /\ \A r \in Resumes : pc[r] \notin AtRestLabels =>
          resuming /\ \A c \in Commands \ {r} : pc[c] \in AtRestLabels

\* Each kind of command only visits its own labels.
LabelInv ==
    /\ \A p \in Pulls : pc[p] \in {"idle", "queued", "retireLoad", "retireSwap",
                                   "scanning", "unlocking", "done"}
    /\ \A r \in Resumes : pc[r] \in {"idle", "refused", "loading", "swapping",
                                     "marking", "replaying", "dropFlag",
                                     "dropSlot", "dropClock", "retireLoad",
                                     "retireSwap", "rejoining", "done"}
    /\ \A t \in Turns : pc[t] \notin {"scanning", "replaying", "rejoining"}

\* A guard's owner carries the current generation, and a successor computed
\* from a load is still the successor when it is swapped in.
GenerationInv ==
    /\ \A c \in Guarded : Serving(c) => myGen[c] = gen
    /\ \A c \in Commands : pc[c] \in {"swapping", "retireSwap"} =>
                                loaded[c] = gen + 1
    /\ \A c \in Guarded : pc[c] \in {"unlocking", "rejoining", "done"} =>
                              myGen[c] < gen

\* A watchdog lives from its turn's arming on, and latches before it fires.
WatchdogInv ==
    \A t \in Turns :
        /\ dog[t] # "none" =>
             pc[t] \in (Running \ {"marking", "clocking"}) \cup Leaving
                         \cup {"unlocking", "done"}
        /\ dog[t] \in {"fire", "interrupt"} => timedOut[t]

\* The freeze depth counts the one dispatch that may be running.
FreezeInv ==
    /\ \A t \in Turns : frozenBy[t] # NoOne =>
          pc[t] \in InDispatch /\ frozen[frozenBy[t]] = 1
    /\ \A u \in Turns : frozen[u] # 0 => \E t \in Turns : frozenBy[t] = u

FlagInv == inFlight => \E c \in Guarded :
               pc[c] \in (Running \ {"marking"}) \cup {"reason", "dropFlag"}

\* A raised flag has a cause that concerns the command that will read it.
CauseInv ==
    /\ \A t \in killers : Serving(t) /\ timedOut[t]
    /\ \A c \in Commands : req /\ Listening(c) =>
          c \in killers \/ \E s \in Stops : c \in hit[s]
    /\ \A t \in Turns : pc[t] = "reason" =>
          timedOut[t] \/ \E s \in Stops : t \in hit[s]
    /\ \A s \in Stops : stop[s] = "idle" => hit[s] = {}
    /\ OnlyItsUserCancels

\* A stop that hit a running turn keeps the flag up until the turn reads it.
HonourInv ==
    /\ \A t \in Turns : pc[t] \in BeforeGuard \cup Running => outcome[t] # "Reply"
    /\ \A t \in Turns, s \in Stops : t \in hit[s] =>
          /\ pc[t] \notin BeforeGuard
          /\ pc[t] \in Running => req
          /\ outcome[t] # "Reply"

Inv == /\ TypeOK /\ SessionInv /\ LabelInv /\ GenerationInv /\ WatchdogInv
       /\ FreezeInv /\ FlagInv /\ CauseInv /\ HonourInv

\* Every step keeps the variables in their domains.
LEMMA TypeStep == ASSUME Inv, FreshTarget, Next PROVE TypeOK'
<1> USE CapAssumption, DisjointAssumption
    DEF Inv, Goto, DogGoto, FireInterrupt, word, cells, clocks, clicks, TypeOK,
    Outcomes, Commands, Guarded, Locked, BeforeGuard, Running, Leaving,
    AfterGuard
<1>1. ASSUME NEW t \in Turns,
             (\/ SubmitTurn(t) \/ Reply(t) \/ NoticeStop(t) \/ ToolProceeds(t)
              \/ ToolStopped(t) \/ CallEnds(t) \/ QueryCompletes(t)
              \/ QueryAborts(t))
      PROVE  TypeOK'
  BY <1>1 DEF SubmitTurn, Reply, NoticeStop, ToolProceeds, ToolStopped, CallEnds,
             QueryCompletes, QueryAborts
<1>2. ASSUME NEW t \in Turns, ToolPanics(t) \/ Verdict(t) \/ CancelLanding(t)
      PROVE  TypeOK'
  BY <1>2 DEF ToolPanics, Verdict, CancelLanding
<1>3. ASSUME NEW t \in Turns, ClearStaleRequest(t) PROVE TypeOK'
  BY <1>3 DEF ClearStaleRequest
<1>4. ASSUME NEW t \in Turns, ArmClock(t) \/ PublishClock(t) PROVE TypeOK'
  BY <1>4 DEF ArmClock, PublishClock
<1>5. ASSUME NEW t \in Turns, SetInterrupt(t) \/ StartQuery(t)
             \/ ClearInterrupt(t)
      PROVE  TypeOK'
  BY <1>5 DEF SetInterrupt, StartQuery, ClearInterrupt
<1>6. ASSUME NEW t \in Turns, Touch(t) \/ DogPoll(t) \/ DogInterrupt(t)
      PROVE  TypeOK'
  BY <1>6 DEF Touch, DogPoll, DogInterrupt
<1>7. ASSUME NEW t \in Turns, CallTool(t) PROVE TypeOK'
  BY <1>7 DEF CallTool
<1>8. ASSUME NEW t \in Turns, Thaw(t) PROVE TypeOK'
  <2>1. \A u \in Turns : u = frozenBy[t] => frozen[u] = 1
    BY DEF FreezeInv
  <2>2. frozen' \in [Turns -> Nat]
    BY <1>8, <2>1 DEF Thaw
  <2> QED
    BY <1>8, <2>2 DEF Thaw
<1>9. ASSUME NEW t \in Turns, DogJudge(t) PROVE TypeOK'
  <2>1. silent' \in [Turns -> 0..Cap]
    BY <1>9 DEF DogJudge
  <2>2. timedOut' \in [Turns -> BOOLEAN]
    BY <1>9 DEF DogJudge
  <2> QED
    BY <1>9, <2>1, <2>2 DEF DogJudge
<1>10. ASSUME NEW t \in Turns, DogFire(t) PROVE TypeOK'
  <2>1. CASE gen = myGen[t]
    BY <1>10, <2>1 DEF DogFire
  <2>2. CASE gen # myGen[t]
    BY <1>10, <2>2 DEF DogFire
  <2> QED
    BY <2>1, <2>2
<1>11. ASSUME NEW c \in Locked, TakeLock(c) PROVE TypeOK'
  BY <1>11 DEF TakeLock
<1>12. ASSUME NEW c \in Locked, Unlock(c) PROVE TypeOK'
  BY <1>12 DEF Unlock
<1>13. ASSUME NEW c \in Guarded, BeginLoad(c) PROVE TypeOK'
  BY <1>13 DEF BeginLoad
<1>14. ASSUME NEW c \in Guarded, MarkInFlight(c) PROVE TypeOK'
  BY <1>14 DEF MarkInFlight
<1>15. ASSUME NEW c \in Guarded, BeginSwap(c) PROVE TypeOK'
  BY <1>15 DEF BeginSwap
<1>16. ASSUME NEW c \in Guarded, DropInFlight(c) PROVE TypeOK'
  BY <1>16 DEF DropInFlight
<1>17. ASSUME NEW c \in Guarded, DropSlot(c) PROVE TypeOK'
  BY <1>17 DEF DropSlot
<1>18. ASSUME NEW c \in Guarded, DropClock(c) PROVE TypeOK'
  BY <1>18 DEF DropClock
<1>19. ASSUME NEW c \in Commands, RetireLoad(c) PROVE TypeOK'
  BY <1>19 DEF RetireLoad
<1>20. ASSUME NEW c \in Commands, RetireSwap(c) PROVE TypeOK'
  BY <1>20 DEF RetireSwap
<1>21. ASSUME NEW p \in Pulls, SubmitPull(p) \/ ScanStopped(p) \/ ScanEnds(p)
      PROVE  TypeOK'
  BY <1>21 DEF SubmitPull, ScanStopped, ScanEnds
<1>22. ASSUME NEW r \in Resumes, SubmitResume(r) PROVE TypeOK'
  <2>1. CASE resuming \/ inFlight
    BY <1>22, <2>1 DEF SubmitResume
  <2>2. CASE ~(resuming \/ inFlight)
    BY <1>22, <2>2 DEF SubmitResume
  <2> QED
    BY <2>1, <2>2
<1>23. ASSUME NEW r \in Resumes, ReplayStopped(r) PROVE TypeOK'
  BY <1>23 DEF ReplayStopped
<1>24. ASSUME NEW r \in Resumes, ReplayEnds(r) PROVE TypeOK'
  BY <1>24 DEF ReplayEnds
<1>25. ASSUME NEW r \in Resumes, EndResume(r) PROVE TypeOK'
  BY <1>25 DEF EndResume
<1>26. ASSUME NEW s \in Stops, StopFlag(s) PROVE TypeOK'
  BY <1>26 DEF StopFlag
<1>27. ASSUME NEW s \in Stops, StopInterrupt(s) PROVE TypeOK'
  BY <1>27 DEF StopInterrupt
<1>28. CASE AtRest
  BY <1>28 DEF AtRest, vars
<1> QED
  BY <1>1, <1>2, <1>3, <1>4, <1>5, <1>6, <1>7, <1>8, <1>9, <1>10, <1>11,
     <1>12, <1>13, <1>14, <1>15, <1>16, <1>17, <1>18, <1>19, <1>20, <1>21,
     <1>22, <1>23, <1>24, <1>25, <1>26, <1>27, <1>28
     DEF Next, TurnStep, PullStep, ResumeStep, GuardStep, DogStep, StopStep,
         ProviderEvent

\* The lock and the resuming flag keep admitting one command at a time.
LEMMA SessionStep == ASSUME Inv, FreshTarget, Next PROVE SessionInv'
<1> USE DisjointAssumption
    DEF Inv, Goto, DogGoto, FireInterrupt, word, cells, clocks, clicks, TypeOK,
    SessionInv, LabelInv, InSession, AtRestLabels, Commands, Guarded,
    Locked
<1>1. ASSUME NEW t \in Turns,
             (\/ SubmitTurn(t) \/ Reply(t) \/ NoticeStop(t) \/ ToolProceeds(t)
              \/ ToolStopped(t) \/ CallEnds(t) \/ QueryCompletes(t)
              \/ QueryAborts(t))
      PROVE  SessionInv'
  BY <1>1 DEF SubmitTurn, Reply, NoticeStop, ToolProceeds, ToolStopped, CallEnds,
             QueryCompletes, QueryAborts
<1>2. ASSUME NEW t \in Turns, ToolPanics(t) \/ Verdict(t) \/ CancelLanding(t)
      PROVE  SessionInv'
  BY <1>2 DEF ToolPanics, Verdict, CancelLanding
<1>3. ASSUME NEW t \in Turns, ClearStaleRequest(t) PROVE SessionInv'
  BY <1>3 DEF ClearStaleRequest
<1>4. ASSUME NEW t \in Turns, ArmClock(t) \/ PublishClock(t) PROVE SessionInv'
  BY <1>4 DEF ArmClock, PublishClock
<1>5. ASSUME NEW t \in Turns, SetInterrupt(t) \/ StartQuery(t)
             \/ ClearInterrupt(t)
      PROVE  SessionInv'
  BY <1>5 DEF SetInterrupt, StartQuery, ClearInterrupt
<1>6. ASSUME NEW t \in Turns, Touch(t) \/ DogPoll(t) \/ DogInterrupt(t)
      PROVE  SessionInv'
  BY <1>6 DEF Touch, DogPoll, DogInterrupt
<1>7. ASSUME NEW t \in Turns, CallTool(t) PROVE SessionInv'
  BY <1>7 DEF CallTool
<1>8. ASSUME NEW t \in Turns, Thaw(t) PROVE SessionInv'
  BY <1>8 DEF Thaw
<1>9. ASSUME NEW t \in Turns, DogJudge(t) PROVE SessionInv'
  BY <1>9 DEF DogJudge
<1>10. ASSUME NEW t \in Turns, DogFire(t) PROVE SessionInv'
  BY <1>10 DEF DogFire
<1>11. ASSUME NEW c \in Locked, TakeLock(c) \/ Unlock(c) PROVE SessionInv'
  BY <1>11 DEF TakeLock, Unlock
<1>12. ASSUME NEW c \in Guarded, BeginLoad(c) \/ MarkInFlight(c)
      PROVE  SessionInv'
  BY <1>12 DEF BeginLoad, MarkInFlight
<1>13. ASSUME NEW c \in Guarded, BeginSwap(c) PROVE SessionInv'
  BY <1>13 DEF BeginSwap
<1>14. ASSUME NEW c \in Guarded, DropInFlight(c) \/ DropSlot(c) \/ DropClock(c)
      PROVE  SessionInv'
  BY <1>14 DEF DropInFlight, DropSlot, DropClock
<1>15. ASSUME NEW c \in Commands, RetireLoad(c) PROVE SessionInv'
  BY <1>15 DEF RetireLoad
<1>16. ASSUME NEW c \in Commands, RetireSwap(c) PROVE SessionInv'
  BY <1>16 DEF RetireSwap
<1>17. ASSUME NEW p \in Pulls, SubmitPull(p) \/ ScanStopped(p) \/ ScanEnds(p)
      PROVE  SessionInv'
  BY <1>17 DEF SubmitPull, ScanStopped, ScanEnds
<1>18. ASSUME NEW r \in Resumes, SubmitResume(r) PROVE SessionInv'
  BY <1>18 DEF SubmitResume
<1>19. ASSUME NEW r \in Resumes, ReplayStopped(r) \/ ReplayEnds(r) \/ EndResume(r)
      PROVE  SessionInv'
  BY <1>19 DEF ReplayStopped, ReplayEnds, EndResume
<1>20. ASSUME NEW s \in Stops, StopFlag(s) PROVE SessionInv'
  BY <1>20 DEF StopFlag
<1>21. ASSUME NEW s \in Stops, StopInterrupt(s) PROVE SessionInv'
  BY <1>21 DEF StopInterrupt
<1>22. CASE AtRest
  BY <1>22 DEF AtRest, vars
<1> QED
  BY <1>1, <1>2, <1>3, <1>4, <1>5, <1>6, <1>7, <1>8, <1>9, <1>10, <1>11,
     <1>12, <1>13, <1>14, <1>15, <1>16, <1>17, <1>18, <1>19, <1>20, <1>21,
     <1>22
     DEF Next, TurnStep, PullStep, ResumeStep, GuardStep, DogStep, StopStep,
         ProviderEvent

\* A command never leaves the labels of its kind.
LEMMA LabelStep == ASSUME Inv, FreshTarget, Next PROVE LabelInv'
<1> USE DisjointAssumption
    DEF Inv, Goto, DogGoto, FireInterrupt, word, cells, clocks, clicks, TypeOK,
    LabelInv, Commands, Guarded, Locked
<1>1. ASSUME NEW t \in Turns,
             (\/ SubmitTurn(t) \/ Reply(t) \/ NoticeStop(t) \/ ToolProceeds(t)
              \/ ToolStopped(t) \/ CallEnds(t) \/ QueryCompletes(t)
              \/ QueryAborts(t))
      PROVE  LabelInv'
  BY <1>1 DEF SubmitTurn, Reply, NoticeStop, ToolProceeds, ToolStopped, CallEnds,
             QueryCompletes, QueryAborts
<1>2. ASSUME NEW t \in Turns, ToolPanics(t) \/ Verdict(t) \/ CancelLanding(t)
      PROVE  LabelInv'
  BY <1>2 DEF ToolPanics, Verdict, CancelLanding
<1>3. ASSUME NEW t \in Turns, ClearStaleRequest(t) PROVE LabelInv'
  BY <1>3 DEF ClearStaleRequest
<1>4. ASSUME NEW t \in Turns, ArmClock(t) \/ PublishClock(t) PROVE LabelInv'
  BY <1>4 DEF ArmClock, PublishClock
<1>5. ASSUME NEW t \in Turns, SetInterrupt(t) \/ StartQuery(t)
             \/ ClearInterrupt(t)
      PROVE  LabelInv'
  BY <1>5 DEF SetInterrupt, StartQuery, ClearInterrupt
<1>6. ASSUME NEW t \in Turns, Touch(t) \/ DogPoll(t) \/ DogInterrupt(t)
      PROVE  LabelInv'
  BY <1>6 DEF Touch, DogPoll, DogInterrupt
<1>7. ASSUME NEW t \in Turns, CallTool(t) PROVE LabelInv'
  BY <1>7 DEF CallTool
<1>8. ASSUME NEW t \in Turns, Thaw(t) PROVE LabelInv'
  BY <1>8 DEF Thaw
<1>9. ASSUME NEW t \in Turns, DogJudge(t) PROVE LabelInv'
  BY <1>9 DEF DogJudge
<1>10. ASSUME NEW t \in Turns, DogFire(t) PROVE LabelInv'
  BY <1>10 DEF DogFire
<1>11. ASSUME NEW c \in Locked, TakeLock(c) \/ Unlock(c) PROVE LabelInv'
  BY <1>11 DEF TakeLock, Unlock
<1>12. ASSUME NEW c \in Guarded, BeginLoad(c) \/ MarkInFlight(c)
      PROVE  LabelInv'
  BY <1>12 DEF BeginLoad, MarkInFlight
<1>13. ASSUME NEW c \in Guarded, BeginSwap(c) PROVE LabelInv'
  BY <1>13 DEF BeginSwap
<1>14. ASSUME NEW c \in Guarded, DropInFlight(c) \/ DropSlot(c) \/ DropClock(c)
      PROVE  LabelInv'
  BY <1>14 DEF DropInFlight, DropSlot, DropClock
<1>15. ASSUME NEW c \in Commands, RetireLoad(c) PROVE LabelInv'
  BY <1>15 DEF RetireLoad
<1>16. ASSUME NEW c \in Commands, RetireSwap(c) PROVE LabelInv'
  BY <1>16 DEF RetireSwap
<1>17. ASSUME NEW p \in Pulls, SubmitPull(p) \/ ScanStopped(p) \/ ScanEnds(p)
      PROVE  LabelInv'
  BY <1>17 DEF SubmitPull, ScanStopped, ScanEnds
<1>18. ASSUME NEW r \in Resumes, SubmitResume(r) PROVE LabelInv'
  BY <1>18 DEF SubmitResume
<1>19. ASSUME NEW r \in Resumes, ReplayStopped(r) \/ ReplayEnds(r) \/ EndResume(r)
      PROVE  LabelInv'
  BY <1>19 DEF ReplayStopped, ReplayEnds, EndResume
<1>20. ASSUME NEW s \in Stops, StopFlag(s) PROVE LabelInv'
  BY <1>20 DEF StopFlag
<1>21. ASSUME NEW s \in Stops, StopInterrupt(s) PROVE LabelInv'
  BY <1>21 DEF StopInterrupt
<1>22. CASE AtRest
  BY <1>22 DEF AtRest, vars
<1> QED
  BY <1>1, <1>2, <1>3, <1>4, <1>5, <1>6, <1>7, <1>8, <1>9, <1>10, <1>11,
     <1>12, <1>13, <1>14, <1>15, <1>16, <1>17, <1>18, <1>19, <1>20, <1>21,
     <1>22
     DEF Next, TurnStep, PullStep, ResumeStep, GuardStep, DogStep, StopStep,
         ProviderEvent

\* No other command moves the generation while one owns or computes it.
LEMMA GenerationStep == ASSUME Inv, FreshTarget, Next PROVE GenerationInv'
<1> USE DisjointAssumption
    DEF Inv, Goto, DogGoto, FireInterrupt, word, cells, clocks, clicks, TypeOK,
    GenerationInv, SessionInv, InSession, AtRestLabels, LabelInv, Serving,
    Running, Leaving, Commands, Guarded, Locked
<1>1. ASSUME NEW t \in Turns,
             (\/ SubmitTurn(t) \/ Reply(t) \/ NoticeStop(t) \/ ToolProceeds(t)
              \/ ToolStopped(t) \/ CallEnds(t) \/ QueryCompletes(t)
              \/ QueryAborts(t))
      PROVE  GenerationInv'
  BY <1>1 DEF SubmitTurn, Reply, NoticeStop, ToolProceeds, ToolStopped, CallEnds,
             QueryCompletes, QueryAborts
<1>2. ASSUME NEW t \in Turns, ToolPanics(t) \/ Verdict(t) \/ CancelLanding(t)
      PROVE  GenerationInv'
  BY <1>2 DEF ToolPanics, Verdict, CancelLanding
<1>3. ASSUME NEW t \in Turns, ClearStaleRequest(t) PROVE GenerationInv'
  BY <1>3 DEF ClearStaleRequest
<1>4. ASSUME NEW t \in Turns, ArmClock(t) \/ PublishClock(t)
      PROVE  GenerationInv'
  BY <1>4 DEF ArmClock, PublishClock
<1>5. ASSUME NEW t \in Turns, SetInterrupt(t) \/ StartQuery(t)
             \/ ClearInterrupt(t)
      PROVE  GenerationInv'
  BY <1>5 DEF SetInterrupt, StartQuery, ClearInterrupt
<1>6. ASSUME NEW t \in Turns, Touch(t) \/ DogPoll(t) \/ DogInterrupt(t)
      PROVE  GenerationInv'
  BY <1>6 DEF Touch, DogPoll, DogInterrupt
<1>7. ASSUME NEW t \in Turns, CallTool(t) PROVE GenerationInv'
  BY <1>7 DEF CallTool
<1>8. ASSUME NEW t \in Turns, Thaw(t) PROVE GenerationInv'
  BY <1>8 DEF Thaw
<1>9. ASSUME NEW t \in Turns, DogJudge(t) PROVE GenerationInv'
  BY <1>9 DEF DogJudge
<1>10. ASSUME NEW t \in Turns, DogFire(t) PROVE GenerationInv'
  BY <1>10 DEF DogFire
<1>11. ASSUME NEW c \in Locked, TakeLock(c) \/ Unlock(c) PROVE GenerationInv'
  BY <1>11 DEF TakeLock, Unlock
<1>12. ASSUME NEW c \in Guarded, BeginLoad(c) \/ MarkInFlight(c)
      PROVE  GenerationInv'
  BY <1>12, SMTT(30) DEF BeginLoad, MarkInFlight
<1>13. ASSUME NEW c \in Guarded, BeginSwap(c) PROVE GenerationInv'
  BY <1>13 DEF BeginSwap
<1>14. ASSUME NEW c \in Guarded, DropInFlight(c) \/ DropSlot(c) \/ DropClock(c)
      PROVE  GenerationInv'
  BY <1>14 DEF DropInFlight, DropSlot, DropClock
<1>15. ASSUME NEW c \in Commands, RetireLoad(c) PROVE GenerationInv'
  BY <1>15 DEF RetireLoad
<1>16. ASSUME NEW c \in Commands, RetireSwap(c) PROVE GenerationInv'
  BY <1>16 DEF RetireSwap
<1>17. ASSUME NEW p \in Pulls, SubmitPull(p) \/ ScanStopped(p) \/ ScanEnds(p)
      PROVE  GenerationInv'
  BY <1>17 DEF SubmitPull, ScanStopped, ScanEnds
<1>18. ASSUME NEW r \in Resumes, SubmitResume(r) PROVE GenerationInv'
  BY <1>18 DEF SubmitResume
<1>19. ASSUME NEW r \in Resumes, ReplayStopped(r) \/ ReplayEnds(r) \/ EndResume(r)
      PROVE  GenerationInv'
  BY <1>19 DEF ReplayStopped, ReplayEnds, EndResume
<1>20. ASSUME NEW s \in Stops, StopFlag(s) PROVE GenerationInv'
  BY <1>20 DEF StopFlag
<1>21. ASSUME NEW s \in Stops, StopInterrupt(s) PROVE GenerationInv'
  BY <1>21 DEF StopInterrupt
<1>22. CASE AtRest
  BY <1>22 DEF AtRest, vars
<1> QED
  BY <1>1, <1>2, <1>3, <1>4, <1>5, <1>6, <1>7, <1>8, <1>9, <1>10, <1>11,
     <1>12, <1>13, <1>14, <1>15, <1>16, <1>17, <1>18, <1>19, <1>20, <1>21,
     <1>22
     DEF Next, TurnStep, PullStep, ResumeStep, GuardStep, DogStep, StopStep,
         ProviderEvent

\* A watchdog is not armed before its turn has a generation.
LEMMA WatchdogStep == ASSUME Inv, FreshTarget, Next PROVE WatchdogInv'
<1> USE DisjointAssumption
    DEF Inv, Goto, DogGoto, FireInterrupt, word, cells, clocks, clicks, TypeOK,
    WatchdogInv, LabelInv, Running, Leaving, Commands, Guarded, Locked
<1>1. ASSUME NEW t \in Turns,
             (\/ SubmitTurn(t) \/ Reply(t) \/ NoticeStop(t) \/ ToolProceeds(t)
              \/ ToolStopped(t) \/ CallEnds(t) \/ QueryCompletes(t)
              \/ QueryAborts(t))
      PROVE  WatchdogInv'
  BY <1>1 DEF SubmitTurn, Reply, NoticeStop, ToolProceeds, ToolStopped, CallEnds,
             QueryCompletes, QueryAborts
<1>2. ASSUME NEW t \in Turns, ToolPanics(t) \/ Verdict(t) \/ CancelLanding(t)
      PROVE  WatchdogInv'
  BY <1>2 DEF ToolPanics, Verdict, CancelLanding
<1>3. ASSUME NEW t \in Turns, ClearStaleRequest(t) PROVE WatchdogInv'
  BY <1>3 DEF ClearStaleRequest
<1>4. ASSUME NEW t \in Turns, ArmClock(t) \/ PublishClock(t)
      PROVE  WatchdogInv'
  BY <1>4 DEF ArmClock, PublishClock
<1>5. ASSUME NEW t \in Turns, SetInterrupt(t) \/ StartQuery(t)
             \/ ClearInterrupt(t)
      PROVE  WatchdogInv'
  BY <1>5 DEF SetInterrupt, StartQuery, ClearInterrupt
<1>6. ASSUME NEW t \in Turns, Touch(t) \/ DogPoll(t) \/ DogInterrupt(t)
      PROVE  WatchdogInv'
  BY <1>6 DEF Touch, DogPoll, DogInterrupt
<1>7. ASSUME NEW t \in Turns, CallTool(t) PROVE WatchdogInv'
  BY <1>7 DEF CallTool
<1>8. ASSUME NEW t \in Turns, Thaw(t) PROVE WatchdogInv'
  BY <1>8 DEF Thaw
<1>9. ASSUME NEW t \in Turns, DogJudge(t) PROVE WatchdogInv'
  BY <1>9 DEF DogJudge
<1>10. ASSUME NEW t \in Turns, DogFire(t) PROVE WatchdogInv'
  BY <1>10 DEF DogFire
<1>11. ASSUME NEW c \in Locked, TakeLock(c) \/ Unlock(c) PROVE WatchdogInv'
  BY <1>11 DEF TakeLock, Unlock
<1>12. ASSUME NEW c \in Guarded, BeginLoad(c) \/ MarkInFlight(c)
      PROVE  WatchdogInv'
  BY <1>12 DEF BeginLoad, MarkInFlight
<1>13. ASSUME NEW c \in Guarded, BeginSwap(c) PROVE WatchdogInv'
  BY <1>13 DEF BeginSwap
<1>14. ASSUME NEW c \in Guarded, DropInFlight(c) \/ DropSlot(c) \/ DropClock(c)
      PROVE  WatchdogInv'
  BY <1>14 DEF DropInFlight, DropSlot, DropClock
<1>15. ASSUME NEW c \in Commands, RetireLoad(c) PROVE WatchdogInv'
  BY <1>15 DEF RetireLoad
<1>16. ASSUME NEW c \in Commands, RetireSwap(c) PROVE WatchdogInv'
  BY <1>16 DEF RetireSwap
<1>17. ASSUME NEW p \in Pulls, SubmitPull(p) \/ ScanStopped(p) \/ ScanEnds(p)
      PROVE  WatchdogInv'
  BY <1>17 DEF SubmitPull, ScanStopped, ScanEnds
<1>18. ASSUME NEW r \in Resumes, SubmitResume(r) PROVE WatchdogInv'
  BY <1>18 DEF SubmitResume
<1>19. ASSUME NEW r \in Resumes, ReplayStopped(r) \/ ReplayEnds(r) \/ EndResume(r)
      PROVE  WatchdogInv'
  BY <1>19 DEF ReplayStopped, ReplayEnds, EndResume
<1>20. ASSUME NEW s \in Stops, StopFlag(s) PROVE WatchdogInv'
  BY <1>20 DEF StopFlag
<1>21. ASSUME NEW s \in Stops, StopInterrupt(s) PROVE WatchdogInv'
  BY <1>21 DEF StopInterrupt
<1>22. CASE AtRest
  BY <1>22 DEF AtRest, vars
<1> QED
  BY <1>1, <1>2, <1>3, <1>4, <1>5, <1>6, <1>7, <1>8, <1>9, <1>10, <1>11,
     <1>12, <1>13, <1>14, <1>15, <1>16, <1>17, <1>18, <1>19, <1>20, <1>21,
     <1>22
     DEF Next, TurnStep, PullStep, ResumeStep, GuardStep, DogStep, StopStep,
         ProviderEvent

\* Freezes and thaws of the one running dispatch pair up.
LEMMA FreezeStep == ASSUME Inv, FreshTarget, Next PROVE FreezeInv'
<1> USE DisjointAssumption
    DEF Inv, Goto, DogGoto, FireInterrupt, word, cells, clocks, clicks, TypeOK,
    FreezeInv, LabelInv, InDispatch, SessionInv, InSession, AtRestLabels,
    Commands, Guarded, Locked
<1>1. ASSUME NEW t \in Turns,
             (\/ SubmitTurn(t) \/ Reply(t) \/ NoticeStop(t) \/ ToolProceeds(t)
              \/ ToolStopped(t) \/ CallEnds(t) \/ QueryCompletes(t)
              \/ QueryAborts(t))
      PROVE  FreezeInv'
  BY <1>1 DEF SubmitTurn, Reply, NoticeStop, ToolProceeds, ToolStopped, CallEnds,
             QueryCompletes, QueryAborts
<1>2. ASSUME NEW t \in Turns, ToolPanics(t) \/ Verdict(t) \/ CancelLanding(t)
      PROVE  FreezeInv'
  BY <1>2 DEF ToolPanics, Verdict, CancelLanding
<1>3. ASSUME NEW t \in Turns, ClearStaleRequest(t) PROVE FreezeInv'
  BY <1>3 DEF ClearStaleRequest
<1>4. ASSUME NEW t \in Turns, ArmClock(t) \/ PublishClock(t) PROVE FreezeInv'
  BY <1>4 DEF ArmClock, PublishClock
<1>5. ASSUME NEW t \in Turns, SetInterrupt(t) \/ StartQuery(t)
             \/ ClearInterrupt(t)
      PROVE  FreezeInv'
  BY <1>5 DEF SetInterrupt, StartQuery, ClearInterrupt
<1>6. ASSUME NEW t \in Turns, Touch(t) \/ DogPoll(t) \/ DogInterrupt(t)
      PROVE  FreezeInv'
  BY <1>6 DEF Touch, DogPoll, DogInterrupt
<1>7. ASSUME NEW t \in Turns, CallTool(t) PROVE FreezeInv'
  BY <1>7 DEF CallTool
<1>8. ASSUME NEW t \in Turns, Thaw(t) PROVE FreezeInv'
  <2>1. lock = t /\ \A u \in Turns \ {t} : pc[u] \notin InDispatch
    BY <1>8 DEF Thaw
  <2>2. \A u \in Turns : frozenBy'[u] = NoOne
    BY <1>8, <2>1 DEF Thaw
  <2>3. \A u \in Turns : frozen[u] # 0 => u = frozenBy[t]
    BY <2>1
  <2>4. \A u \in Turns : frozen'[u] = 0
    BY <1>8, <2>3 DEF Thaw
  <2> QED
    BY <2>2, <2>4
<1>9. ASSUME NEW t \in Turns, DogJudge(t) PROVE FreezeInv'
  BY <1>9 DEF DogJudge
<1>10. ASSUME NEW t \in Turns, DogFire(t) PROVE FreezeInv'
  BY <1>10 DEF DogFire
<1>11. ASSUME NEW c \in Locked, TakeLock(c) \/ Unlock(c) PROVE FreezeInv'
  BY <1>11 DEF TakeLock, Unlock
<1>12. ASSUME NEW c \in Guarded, BeginLoad(c) \/ MarkInFlight(c)
      PROVE  FreezeInv'
  BY <1>12 DEF BeginLoad, MarkInFlight
<1>13. ASSUME NEW c \in Guarded, BeginSwap(c) PROVE FreezeInv'
  BY <1>13 DEF BeginSwap
<1>14. ASSUME NEW c \in Guarded, DropInFlight(c) \/ DropSlot(c) \/ DropClock(c)
      PROVE  FreezeInv'
  BY <1>14 DEF DropInFlight, DropSlot, DropClock
<1>15. ASSUME NEW c \in Commands, RetireLoad(c) PROVE FreezeInv'
  BY <1>15 DEF RetireLoad
<1>16. ASSUME NEW c \in Commands, RetireSwap(c) PROVE FreezeInv'
  BY <1>16 DEF RetireSwap
<1>17. ASSUME NEW p \in Pulls, SubmitPull(p) \/ ScanStopped(p) \/ ScanEnds(p)
      PROVE  FreezeInv'
  BY <1>17 DEF SubmitPull, ScanStopped, ScanEnds
<1>18. ASSUME NEW r \in Resumes, SubmitResume(r) PROVE FreezeInv'
  BY <1>18 DEF SubmitResume
<1>19. ASSUME NEW r \in Resumes, ReplayStopped(r) \/ ReplayEnds(r) \/ EndResume(r)
      PROVE  FreezeInv'
  BY <1>19 DEF ReplayStopped, ReplayEnds, EndResume
<1>20. ASSUME NEW s \in Stops, StopFlag(s) PROVE FreezeInv'
  BY <1>20 DEF StopFlag
<1>21. ASSUME NEW s \in Stops, StopInterrupt(s) PROVE FreezeInv'
  BY <1>21 DEF StopInterrupt
<1>22. CASE AtRest
  BY <1>22 DEF AtRest, vars
<1> QED
  BY <1>1, <1>2, <1>3, <1>4, <1>5, <1>6, <1>7, <1>8, <1>9, <1>10, <1>11,
     <1>12, <1>13, <1>14, <1>15, <1>16, <1>17, <1>18, <1>19, <1>20, <1>21,
     <1>22
     DEF Next, TurnStep, PullStep, ResumeStep, GuardStep, DogStep, StopStep,
         ProviderEvent

\* The in-flight flag follows the life of a guard.
LEMMA FlagStep == ASSUME Inv, FreshTarget, Next PROVE FlagInv'
<1> USE DisjointAssumption
    DEF Inv, Goto, DogGoto, FireInterrupt, word, cells, clocks, clicks, TypeOK,
    FlagInv, LabelInv, SessionInv, InSession, AtRestLabels, Running,
    Commands, Guarded, Locked
<1>1. ASSUME NEW t \in Turns, SubmitTurn(t) PROVE FlagInv'
  BY <1>1 DEF SubmitTurn
<1>2. ASSUME NEW t \in Turns, Reply(t) PROVE FlagInv'
  BY <1>2 DEF Reply
<1>3. ASSUME NEW t \in Turns, NoticeStop(t) PROVE FlagInv'
  BY <1>3 DEF NoticeStop
<1>4. ASSUME NEW t \in Turns, ToolProceeds(t) PROVE FlagInv'
  BY <1>4 DEF ToolProceeds
<1>4a. ASSUME NEW t \in Turns, CallEnds(t) PROVE FlagInv'
  BY <1>4a DEF CallEnds
<1>5. ASSUME NEW t \in Turns, ToolStopped(t) PROVE FlagInv'
  BY <1>5 DEF ToolStopped
<1>6. ASSUME NEW t \in Turns, QueryCompletes(t) PROVE FlagInv'
  BY <1>6 DEF QueryCompletes
<1>7. ASSUME NEW t \in Turns, QueryAborts(t) PROVE FlagInv'
  BY <1>7 DEF QueryAborts
<1>8. ASSUME NEW t \in Turns, ToolPanics(t) PROVE FlagInv'
  BY <1>8 DEF ToolPanics
<1>9. ASSUME NEW t \in Turns, Verdict(t) PROVE FlagInv'
  BY <1>9 DEF Verdict
<1>10. ASSUME NEW t \in Turns, CancelLanding(t) PROVE FlagInv'
  BY <1>10 DEF CancelLanding
<1>11. ASSUME NEW t \in Turns, ClearStaleRequest(t) PROVE FlagInv'
  BY <1>11 DEF ClearStaleRequest
<1>12. ASSUME NEW t \in Turns, ArmClock(t) PROVE FlagInv'
  BY <1>12 DEF ArmClock
<1>13. ASSUME NEW t \in Turns, PublishClock(t) PROVE FlagInv'
  BY <1>13 DEF PublishClock
<1>14. ASSUME NEW t \in Turns, SetInterrupt(t) PROVE FlagInv'
  BY <1>14 DEF SetInterrupt
<1>14a. ASSUME NEW t \in Turns, StartQuery(t) PROVE FlagInv'
  BY <1>14a DEF StartQuery
<1>15. ASSUME NEW t \in Turns, ClearInterrupt(t) PROVE FlagInv'
  BY <1>15 DEF ClearInterrupt
<1>16. ASSUME NEW t \in Turns, Touch(t) PROVE FlagInv'
  BY <1>16 DEF Touch
<1>17. ASSUME NEW t \in Turns, DogPoll(t) PROVE FlagInv'
  BY <1>17 DEF DogPoll
<1>18. ASSUME NEW t \in Turns, DogInterrupt(t) PROVE FlagInv'
  BY <1>18 DEF DogInterrupt
<1>19. ASSUME NEW t \in Turns, CallTool(t) PROVE FlagInv'
  BY <1>19 DEF CallTool
<1>20. ASSUME NEW t \in Turns, Thaw(t) PROVE FlagInv'
  BY <1>20 DEF Thaw
<1>21. ASSUME NEW t \in Turns, DogJudge(t) PROVE FlagInv'
  BY <1>21 DEF DogJudge
<1>22. ASSUME NEW t \in Turns, DogFire(t) PROVE FlagInv'
  BY <1>22 DEF DogFire
<1>23. ASSUME NEW c \in Locked, TakeLock(c) PROVE FlagInv'
  BY <1>23 DEF TakeLock
<1>24. ASSUME NEW c \in Locked, Unlock(c) PROVE FlagInv'
  BY <1>24 DEF Unlock
<1>25. ASSUME NEW c \in Guarded, BeginLoad(c) PROVE FlagInv'
  BY <1>25 DEF BeginLoad
<1>26. ASSUME NEW c \in Guarded, MarkInFlight(c) PROVE FlagInv'
  BY <1>26 DEF MarkInFlight
<1>27. ASSUME NEW c \in Guarded, BeginSwap(c) PROVE FlagInv'
  BY <1>27 DEF BeginSwap
<1>28. ASSUME NEW c \in Guarded, DropInFlight(c) PROVE FlagInv'
  BY <1>28 DEF DropInFlight
<1>29. ASSUME NEW c \in Guarded, DropSlot(c) PROVE FlagInv'
  BY <1>29 DEF DropSlot
<1>30. ASSUME NEW c \in Guarded, DropClock(c) PROVE FlagInv'
  BY <1>30 DEF DropClock
<1>31. ASSUME NEW c \in Commands, RetireLoad(c) PROVE FlagInv'
  BY <1>31 DEF RetireLoad
<1>32. ASSUME NEW c \in Commands, RetireSwap(c) PROVE FlagInv'
  BY <1>32 DEF RetireSwap
<1>33. ASSUME NEW p \in Pulls, SubmitPull(p) PROVE FlagInv'
  BY <1>33 DEF SubmitPull
<1>34. ASSUME NEW p \in Pulls, ScanStopped(p) PROVE FlagInv'
  BY <1>34 DEF ScanStopped
<1>35. ASSUME NEW p \in Pulls, ScanEnds(p) PROVE FlagInv'
  BY <1>35 DEF ScanEnds
<1>36. ASSUME NEW r \in Resumes, SubmitResume(r) PROVE FlagInv'
  BY <1>36 DEF SubmitResume
<1>37. ASSUME NEW r \in Resumes, ReplayStopped(r) PROVE FlagInv'
  BY <1>37 DEF ReplayStopped
<1>38. ASSUME NEW r \in Resumes, ReplayEnds(r) PROVE FlagInv'
  BY <1>38 DEF ReplayEnds
<1>39. ASSUME NEW r \in Resumes, EndResume(r) PROVE FlagInv'
  BY <1>39 DEF EndResume
<1>40. ASSUME NEW s \in Stops, StopFlag(s) PROVE FlagInv'
  BY <1>40 DEF StopFlag
<1>41. ASSUME NEW s \in Stops, StopInterrupt(s) PROVE FlagInv'
  BY <1>41 DEF StopInterrupt
<1>42. CASE AtRest
  BY <1>42 DEF AtRest, vars
<1> QED
  BY <1>1, <1>2, <1>3, <1>4, <1>4a, <1>5, <1>6, <1>7, <1>8, <1>9, <1>10,
     <1>11, <1>14a,
     <1>12, <1>13, <1>14, <1>15, <1>16, <1>17, <1>18, <1>19, <1>20, <1>21,
     <1>22, <1>23, <1>24, <1>25, <1>26, <1>27, <1>28, <1>29, <1>30, <1>31,
     <1>32, <1>33, <1>34, <1>35, <1>36, <1>37, <1>38, <1>39, <1>40, <1>41,
     <1>42
     DEF Next, TurnStep, PullStep, ResumeStep, GuardStep, DogStep, StopStep,
         ProviderEvent

\* Every cause of a stop is a click that hit its command or its own watchdog.
LEMMA CauseStep == ASSUME Inv, FreshTarget, Next PROVE CauseInv'
<1> USE DisjointAssumption
    DEF Inv, Goto, DogGoto, FireInterrupt, word, cells, clocks, clicks, TypeOK,
    CauseInv, OnlyItsUserCancels, GenerationInv, WatchdogInv, LabelInv,
    SessionInv, InSession, AtRestLabels, Serving, Listening, Running,
    Leaving, Commands, Guarded, Locked
<1>1. ASSUME NEW t \in Turns,
             (\/ SubmitTurn(t) \/ Reply(t) \/ NoticeStop(t) \/ ToolProceeds(t)
              \/ ToolStopped(t))
      PROVE  CauseInv'
  BY <1>1, SMTT(30) DEF SubmitTurn, Reply, NoticeStop, ToolProceeds, ToolStopped
<1>1a. ASSUME NEW t \in Turns, CallEnds(t) \/ QueryCompletes(t) \/ QueryAborts(t)
       PROVE  CauseInv'
  BY <1>1a, SMTT(30) DEF CallEnds, QueryCompletes, QueryAborts
<1>2. ASSUME NEW t \in Turns, ToolPanics(t) \/ Verdict(t) \/ CancelLanding(t)
      PROVE  CauseInv'
  BY <1>2, SMTT(30) DEF ToolPanics, Verdict, CancelLanding
<1>3. ASSUME NEW t \in Turns, ClearStaleRequest(t) PROVE CauseInv'
  BY <1>3 DEF ClearStaleRequest
<1>4. ASSUME NEW t \in Turns, ArmClock(t) \/ PublishClock(t) PROVE CauseInv'
  BY <1>4 DEF ArmClock, PublishClock
<1>5. ASSUME NEW t \in Turns, SetInterrupt(t) \/ StartQuery(t)
             \/ ClearInterrupt(t)
      PROVE  CauseInv'
  BY <1>5, SMTT(30) DEF SetInterrupt, StartQuery, ClearInterrupt
<1>6. ASSUME NEW t \in Turns, Touch(t) \/ DogPoll(t) \/ DogInterrupt(t)
      PROVE  CauseInv'
  BY <1>6 DEF Touch, DogPoll, DogInterrupt
<1>7. ASSUME NEW t \in Turns, CallTool(t) PROVE CauseInv'
  BY <1>7 DEF CallTool
<1>8. ASSUME NEW t \in Turns, Thaw(t) PROVE CauseInv'
  BY <1>8 DEF Thaw
<1>9. ASSUME NEW t \in Turns, DogJudge(t) PROVE CauseInv'
  BY <1>9 DEF DogJudge
<1>10. ASSUME NEW t \in Turns, DogFire(t) PROVE CauseInv'
  BY <1>10 DEF DogFire
<1>11. ASSUME NEW c \in Locked, TakeLock(c) \/ Unlock(c) PROVE CauseInv'
  BY <1>11, SMTT(30) DEF TakeLock, Unlock
<1>12. ASSUME NEW c \in Guarded, BeginLoad(c) \/ MarkInFlight(c)
      PROVE  CauseInv'
  BY <1>12 DEF BeginLoad, MarkInFlight
<1>13. ASSUME NEW c \in Guarded, BeginSwap(c) PROVE CauseInv'
  BY <1>13 DEF BeginSwap
<1>14. ASSUME NEW c \in Guarded, DropInFlight(c) \/ DropSlot(c) \/ DropClock(c)
      PROVE  CauseInv'
  BY <1>14 DEF DropInFlight, DropSlot, DropClock
<1>15. ASSUME NEW c \in Commands, RetireLoad(c) PROVE CauseInv'
  BY <1>15 DEF RetireLoad
<1>16. ASSUME NEW c \in Commands, RetireSwap(c) PROVE CauseInv'
  BY <1>16 DEF RetireSwap
<1>17. ASSUME NEW p \in Pulls, SubmitPull(p) \/ ScanStopped(p) \/ ScanEnds(p)
      PROVE  CauseInv'
  BY <1>17, SMTT(30) DEF SubmitPull, ScanStopped, ScanEnds
<1>18. ASSUME NEW r \in Resumes, SubmitResume(r) PROVE CauseInv'
  BY <1>18 DEF SubmitResume
<1>19. ASSUME NEW r \in Resumes, ReplayStopped(r) PROVE CauseInv'
  BY <1>19 DEF ReplayStopped
<1>20. ASSUME NEW r \in Resumes, ReplayEnds(r) PROVE CauseInv'
  BY <1>20 DEF ReplayEnds
<1>21. ASSUME NEW r \in Resumes, EndResume(r) PROVE CauseInv'
  BY <1>21 DEF EndResume
<1>22. ASSUME NEW s \in Stops, StopFlag(s) PROVE CauseInv'
  <2>1. hit'[s] = {c \in Commands : Listening(c)} /\ hit[s] = {}
    BY <1>22 DEF StopFlag
  <2>2. \A u \in Stops \ {s} : hit'[u] = hit[u]
    BY <1>22 DEF StopFlag
  <2>3. \A c \in Commands : (\E u \in Stops : c \in hit[u]) =>
                              \E u \in Stops : c \in hit'[u]
    BY <2>1, <2>2
  <2>4. \A c \in Commands : Listening(c)' => c \in hit'[s]
    BY <1>22, <2>1 DEF StopFlag
  <2> QED
    BY <1>22, <2>1, <2>3, <2>4 DEF StopFlag
<1>23. ASSUME NEW s \in Stops, StopInterrupt(s) PROVE CauseInv'
  BY <1>23 DEF StopInterrupt
<1>24. CASE AtRest
  BY <1>24 DEF AtRest, vars
<1> QED
  BY <1>1, <1>1a, <1>2, <1>3, <1>4, <1>5, <1>6, <1>7, <1>8, <1>9, <1>10, <1>11,
     <1>12, <1>13, <1>14, <1>15, <1>16, <1>17, <1>18, <1>19, <1>20, <1>21,
     <1>22, <1>23, <1>24
     DEF Next, TurnStep, PullStep, ResumeStep, GuardStep, DogStep, StopStep,
         ProviderEvent

\* A click that hit a running turn stays pending until the turn reads it.
LEMMA HonourStep == ASSUME Inv, FreshTarget, Next PROVE HonourInv'
<1> USE DisjointAssumption
    DEF Inv, Goto, DogGoto, FireInterrupt, word, cells, clocks, clicks, TypeOK,
    HonourInv, Listening, LabelInv, SessionInv, InSession, AtRestLabels,
    BeforeGuard, Running, Commands, Guarded, Locked
<1>1. ASSUME NEW t \in Turns,
             (\/ SubmitTurn(t) \/ Reply(t) \/ NoticeStop(t) \/ ToolProceeds(t)
              \/ ToolStopped(t) \/ CallEnds(t) \/ QueryCompletes(t)
              \/ QueryAborts(t))
      PROVE  HonourInv'
  BY <1>1 DEF SubmitTurn, Reply, NoticeStop, ToolProceeds, ToolStopped, CallEnds,
             QueryCompletes, QueryAborts
<1>2. ASSUME NEW t \in Turns, ToolPanics(t) \/ Verdict(t) \/ CancelLanding(t)
      PROVE  HonourInv'
  BY <1>2 DEF ToolPanics, Verdict, CancelLanding
<1>3. ASSUME NEW t \in Turns, ClearStaleRequest(t) PROVE HonourInv'
  BY <1>3 DEF ClearStaleRequest
<1>4. ASSUME NEW t \in Turns, ArmClock(t) \/ PublishClock(t) PROVE HonourInv'
  BY <1>4 DEF ArmClock, PublishClock
<1>5. ASSUME NEW t \in Turns, SetInterrupt(t) \/ StartQuery(t)
             \/ ClearInterrupt(t)
      PROVE  HonourInv'
  BY <1>5 DEF SetInterrupt, StartQuery, ClearInterrupt
<1>6. ASSUME NEW t \in Turns, Touch(t) \/ DogPoll(t) \/ DogInterrupt(t)
      PROVE  HonourInv'
  BY <1>6 DEF Touch, DogPoll, DogInterrupt
<1>7. ASSUME NEW t \in Turns, CallTool(t) PROVE HonourInv'
  BY <1>7 DEF CallTool
<1>8. ASSUME NEW t \in Turns, Thaw(t) PROVE HonourInv'
  BY <1>8 DEF Thaw
<1>9. ASSUME NEW t \in Turns, DogJudge(t) PROVE HonourInv'
  BY <1>9 DEF DogJudge
<1>10. ASSUME NEW t \in Turns, DogFire(t) PROVE HonourInv'
  BY <1>10 DEF DogFire
<1>11. ASSUME NEW c \in Locked, TakeLock(c) \/ Unlock(c) PROVE HonourInv'
  BY <1>11 DEF TakeLock, Unlock
<1>12. ASSUME NEW c \in Guarded, BeginLoad(c) \/ MarkInFlight(c)
      PROVE  HonourInv'
  BY <1>12 DEF BeginLoad, MarkInFlight
<1>13. ASSUME NEW c \in Guarded, BeginSwap(c) PROVE HonourInv'
  BY <1>13 DEF BeginSwap
<1>14. ASSUME NEW c \in Guarded, DropInFlight(c) \/ DropSlot(c) \/ DropClock(c)
      PROVE  HonourInv'
  BY <1>14 DEF DropInFlight, DropSlot, DropClock
<1>15. ASSUME NEW c \in Commands, RetireLoad(c) PROVE HonourInv'
  BY <1>15 DEF RetireLoad
<1>16. ASSUME NEW c \in Commands, RetireSwap(c) PROVE HonourInv'
  BY <1>16 DEF RetireSwap
<1>17. ASSUME NEW p \in Pulls, SubmitPull(p) \/ ScanStopped(p) \/ ScanEnds(p)
      PROVE  HonourInv'
  BY <1>17 DEF SubmitPull, ScanStopped, ScanEnds
<1>18. ASSUME NEW r \in Resumes, SubmitResume(r) PROVE HonourInv'
  BY <1>18 DEF SubmitResume
<1>19. ASSUME NEW r \in Resumes, ReplayStopped(r) \/ ReplayEnds(r) \/ EndResume(r)
      PROVE  HonourInv'
  BY <1>19 DEF ReplayStopped, ReplayEnds, EndResume
<1>20. ASSUME NEW s \in Stops, StopFlag(s) PROVE HonourInv'
  <2>1. hit'[s] = {c \in Commands : Listening(c)}
    BY <1>20 DEF StopFlag
  <2>2. \A u \in Stops \ {s} : hit'[u] = hit[u]
    BY <1>20 DEF StopFlag
  <2> QED
    BY <1>20, <2>1, <2>2 DEF StopFlag
<1>21. ASSUME NEW s \in Stops, StopInterrupt(s) PROVE HonourInv'
  BY <1>21 DEF StopInterrupt
<1>22. CASE AtRest
  BY <1>22 DEF AtRest, vars
<1> QED
  BY <1>1, <1>2, <1>3, <1>4, <1>5, <1>6, <1>7, <1>8, <1>9, <1>10, <1>11,
     <1>12, <1>13, <1>14, <1>15, <1>16, <1>17, <1>18, <1>19, <1>20, <1>21,
     <1>22
     DEF Next, TurnStep, PullStep, ResumeStep, GuardStep, DogStep, StopStep,
         ProviderEvent

\* The initial state satisfies the inductive invariant.
LEMMA InitInv == Init => Inv
<1> SUFFICES ASSUME Init PROVE Inv
  OBVIOUS
<1> USE DisjointAssumption, CapAssumption DEF Init, Commands, Guarded, Locked
<1>1. TypeOK
  <2>1. 0 \in 0..Cap /\ gen = 0
    OBVIOUS
  <2>2. /\ pc \in [Commands -> BeforeGuard \cup Running \cup Leaving
                                 \cup AfterGuard \cup {"scanning"}]
        /\ outcome \in [Commands -> Outcomes]
        /\ dog \in [Turns -> {"none", "poll", "judge", "fire", "interrupt",
                             "gone"}]
        /\ stop \in [Stops -> {"idle", "interrupt", "done"}]
    BY DEF Outcomes, BeforeGuard
  <2>3. /\ loaded \in [Commands -> Nat] /\ myGen \in [Commands -> Nat]
        /\ silent \in [Turns -> 0..Cap] /\ frozen \in [Turns -> Nat]
        /\ frozenBy \in [Turns -> Turns \cup {NoOne}]
        /\ timedOut \in [Turns -> BOOLEAN] /\ hit \in [Stops -> SUBSET Commands]
    BY <2>1
  <2>4. /\ gen \in Nat /\ req \in BOOLEAN /\ killers \subseteq Turns
        /\ inFlight \in BOOLEAN /\ resuming \in BOOLEAN
        /\ slot \in Turns \cup {NoOne} /\ clockSlot \in Turns \cup {NoOne}
        /\ lock \in Locked \cup {NoOne} /\ interrupted \subseteq Turns
        /\ missed \subseteq Turns
    OBVIOUS
  <2> QED
    BY <2>2, <2>3, <2>4, Zenon DEF TypeOK
<1>2. SessionInv /\ LabelInv
  BY DEF SessionInv, InSession, AtRestLabels, LabelInv
<1>3. GenerationInv /\ WatchdogInv /\ FreezeInv /\ FlagInv
  BY DEF GenerationInv, Serving, Running, Leaving, WatchdogInv, FreezeInv, FlagInv
<1>4. CauseInv /\ HonourInv
  BY DEF CauseInv, OnlyItsUserCancels, HonourInv
<1> QED
  BY <1>1, <1>2, <1>3, <1>4 DEF Inv

\* Inv is inductive: it holds in every reachable state.
THEOREM InvHolds == ASSUME FreshTarget PROVE Spec => []Inv
<1>1. Init => Inv
  BY InitInv
<1>2. Inv /\ [Next]_vars => Inv'
  <2> SUFFICES ASSUME Inv, [Next]_vars PROVE Inv'
    OBVIOUS
  <2>1. CASE Next
    BY <2>1, TypeStep, SessionStep, LabelStep, GenerationStep, WatchdogStep,
       FreezeStep, FlagStep, CauseStep, HonourStep DEF Inv
  <2>2. CASE UNCHANGED vars
    BY <2>2 DEF Inv, vars, word, cells, clocks, clicks, TypeOK, SessionInv,
       InSession, LabelInv, GenerationInv, Serving, WatchdogInv, FreezeInv,
       FlagInv, CauseInv, Listening, OnlyItsUserCancels, HonourInv
  <2> QED
    BY <2>1, <2>2
<1> QED
  BY <1>1, <1>2, PTL DEF Spec

\* The token and its clocks keep their types; the freeze depth of a clock never
\* underflows although freezes and thaws go through the shared slot.
THEOREM TypeCorrect == ASSUME FreshTarget PROVE Spec => []TypeOK
<1>1. Inv => TypeOK
  BY DEF Inv
<1> QED
  BY <1>1, InvHolds, PTL

\* However many commands queue up, one at a time owns the token's generation,
\* and the in-flight flag is up only during a guard's life.
THEOREM SingleInFlightHolds == ASSUME FreshTarget PROVE Spec => []SingleInFlight
<1>1. Inv => SingleInFlight
  <2> SUFFICES ASSUME Inv PROVE SingleInFlight
    OBVIOUS
  <2> USE DisjointAssumption
      DEF Inv, SessionInv, InSession, AtRestLabels, LabelInv, Serving, Running,
          Leaving, Commands, Guarded, Locked
  <2>1. ASSUME NEW c \in Commands, NEW d \in Commands, Serving(c), Serving(d)
        PROVE  c = d
    <3>1. InSession(c) /\ InSession(d)
      BY <2>1
    <3> QED
      BY <2>1, <3>1
  <2>2. inFlight => \E c \in Guarded : Serving(c)
    BY DEF FlagInv
  <2> QED
    BY <2>1, <2>2 DEF SingleInFlight
<1> QED
  BY <1>1, InvHolds, PTL

\* For any number of turns, pulls and clicks, a watchdog that slept through its
\* turn's end never raises the flag against whoever runs next.
THEOREM WatchdogStandsDownHolds ==
    ASSUME FreshTarget PROVE Spec => []WatchdogStandsDown
<1>1. Inv => WatchdogStandsDown
  BY DEF Inv, CauseInv, WatchdogStandsDown
<1> QED
  BY <1>1, InvHolds, PTL

\* A command that ends as cancelled was hit by a click while it listened.
THEOREM OnlyItsUserCancelsHolds ==
    ASSUME FreshTarget PROVE Spec => []OnlyItsUserCancels
<1>1. Inv => OnlyItsUserCancels
  BY DEF Inv, CauseInv
<1> QED
  BY <1>1, InvHolds, PTL

\* A turn hit by a click never ends with a reply.
THEOREM StopHonouredHolds == ASSUME FreshTarget PROVE Spec => []StopHonoured
<1>1. Inv => StopHonoured
  BY DEF Inv, HonourInv, StopHonoured
<1> QED
  BY <1>1, InvHolds, PTL
=============================================================================
