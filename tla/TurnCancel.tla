----------------------------- MODULE TurnCancel -----------------------------
(***************************************************************************)
(* One session's cancel token and the threads that share it: turns, full   *)
(* row pulls and a recipe resume (the commands), the user's stop clicks,   *)
(* and the no-progress watchdog every turn arms.                           *)
(*                                                                         *)
(* The token is one atomic word (generation, request flag) plus three      *)
(* separately locked cells: the in-flight flag, the interrupt slot of the  *)
(* running query and the progress-clock slot.  Each atomic access of the   *)
(* code is one action, so everything between two accesses can interleave.  *)
(* A command and a stop click run once; the sets of them bound the model.  *)
(***************************************************************************)
EXTENDS Naturals

CONSTANTS
    Turns,        \* `ask` calls: they hold the session lock and a turn guard
    Pulls,        \* CSV exports and TSV copies: the lock, no guard
    Resumes,      \* `open_recipe` calls: a guard on the token, no lock
    Stops,        \* clicks of the stop button
    Cap,          \* watchdog polls of silence that make the no-progress cap
    FreshTarget,  \* TRUE: a resume is only opened in a session just created
    NoOne         \* the empty interrupt slot, clock slot or lock

Commands == Turns \cup Pulls \cup Resumes
Guarded == Turns \cup Resumes
Locked == Turns \cup Pulls

ASSUME CapAssumption == Cap \in Nat \ {0}
ASSUME FreshAssumption == FreshTarget \in BOOLEAN
ASSUME DisjointAssumption ==
    /\ NoOne \notin Commands
    /\ Turns \cap Pulls = {}
    /\ Turns \cap Resumes = {}
    /\ Pulls \cap Resumes = {}

VARIABLES
    gen,          \* the generation half of the token's word
    req,          \* the request flag, bit 0 of the same word
    inFlight,     \* the token's in_flight flag
    slot,         \* the turn whose sandbox query is registered, or NoOne
    clockSlot,    \* the turn whose clock is published, or NoOne
    lock,         \* the holder of the session Mutex, or NoOne
    resuming,     \* the handle's resuming flag
    pc,           \* where each command stands
    loaded,       \* the successor generation a command computed from its load
    myGen,        \* the generation its InFlightGuard carries (0: none yet)
    outcome,      \* how each command ended
    dog,          \* where each turn's watchdog stands
    silent,       \* polls since the turn's deadline was last re-armed
    frozen,       \* the clock's freeze depth
    frozenBy,     \* the clock a turn's running dispatch froze, or NoOne
    timedOut,     \* the clock's latched kill reason
    interrupted,  \* turns whose running query received an engine interrupt
    stop,         \* where each stop click stands
    hit,          \* history: the commands listening when a stop set the flag
    missed,       \* history: turns whose query an interrupt came too early for
    killers       \* history: watchdogs that set the flag now in the word

word == <<gen, req, killers>>
clocks == <<dog, silent, frozen, frozenBy, timedOut>>
clicks == <<stop, hit, missed>>
cells == <<inFlight, slot, clockSlot, lock, resuming>>
vars == <<word, cells, pc, loaded, myGen, outcome, clocks, interrupted, clicks>>

Goto(c, label) == pc' = [pc EXCEPT ![c] = label]

(***************************************************************************)
(* The places a command passes through, in program order.                  *)
(***************************************************************************)
BeforeGuard == {"idle", "queued", "arming", "loading", "swapping"}
Running == {"marking", "clocking", "publishing", "free", "gated", "calling",
            "register", "registered", "query", "unregister", "thaw", "verdict",
            "replaying"}
Leaving == {"reason", "dropFlag", "dropSlot", "dropClock", "retireLoad",
            "retireSwap"}
AfterGuard == {"unlocking", "rejoining", "done", "refused"}

\* The command owns the generation now in the word: its own swap put it there.
Serving(c) == \/ c \in Guarded /\ pc[c] \in Running \cup Leaving
              \/ c \in Pulls /\ pc[c] = "scanning"

\* A request flag raised now is still going to be read by this command.
Listening(c) == pc[c] \in Running \cup {"scanning"}

\* A strong reference to the turn's clock exists.
ClockAlive(t) ==
    \/ clockSlot = t
    \/ pc[t] \in (Running \cup {"reason"}) \ {"marking", "clocking"}
-----------------------------------------------------------------------------
Init ==
    /\ gen = 0 /\ req = FALSE /\ killers = {}
    /\ inFlight = FALSE /\ slot = NoOne /\ clockSlot = NoOne
    /\ lock = NoOne /\ resuming = FALSE
    /\ pc = [c \in Commands |-> "idle"]
    /\ loaded = [c \in Commands |-> 0]
    /\ myGen = [c \in Commands |-> 0]
    /\ outcome = [c \in Commands |-> "none"]
    /\ dog = [t \in Turns |-> "none"]
    /\ silent = [t \in Turns |-> 0]
    /\ frozen = [t \in Turns |-> 0]
    /\ frozenBy = [t \in Turns |-> NoOne]
    /\ timedOut = [t \in Turns |-> FALSE]
    /\ interrupted = {}
    /\ stop = [s \in Stops |-> "idle"]
    /\ hit = [s \in Stops |-> {}] /\ missed = {}
-----------------------------------------------------------------------------
(***************************************************************************)
(* Entering a command.                                                     *)
(***************************************************************************)

\* `ask` checks the two flags without the session lock and queues on it.
SubmitTurn(t) ==
    /\ pc[t] = "idle"
    /\ Goto(t, IF resuming \/ inFlight THEN "refused" ELSE "queued")
    /\ UNCHANGED <<word, cells, loaded, myGen, outcome, clocks, interrupted,
                   clicks>>

\* A pull checks nothing; a session the shell is still opening shows no rows.
SubmitPull(p) ==
    /\ pc[p] = "idle"
    /\ FreshTarget => ~resuming
    /\ Goto(p, "queued")
    /\ UNCHANGED <<word, cells, loaded, myGen, outcome, clocks, interrupted,
                   clicks>>

\* The shell opens a recipe in the session it has just created for it; the
\* backend itself only checks the two flags.
SubmitResume(r) ==
    /\ pc[r] = "idle"
    /\ FreshTarget => \A c \in Commands : pc[c] = "idle"
    /\ IF resuming \/ inFlight
         THEN Goto(r, "refused") /\ UNCHANGED resuming
         ELSE Goto(r, "loading") /\ resuming' = TRUE
    /\ UNCHANGED <<word, inFlight, slot, clockSlot, lock, loaded, myGen,
                   outcome, clocks, interrupted, clicks>>

\* Plausible bug: a command that does not wait for the session Mutex.
TakeLockUnguarded(c) ==
    /\ pc[c] = "queued"
    /\ lock' = c
    /\ Goto(c, IF c \in Turns THEN "arming" ELSE "retireLoad")
    /\ UNCHANGED <<word, inFlight, slot, clockSlot, resuming, loaded, myGen,
                   outcome, clocks, interrupted, clicks>>

TakeLock(c) ==
    /\ pc[c] = "queued"
    /\ lock = NoOne
    /\ lock' = c
    /\ Goto(c, IF c \in Turns THEN "arming" ELSE "retireLoad")
    /\ UNCHANGED <<word, inFlight, slot, clockSlot, resuming, loaded, myGen,
                   outcome, clocks, interrupted, clicks>>

\* clear_stale_request, ahead of the connects that precede begin_turn.
ClearStaleRequest(t) ==
    /\ pc[t] = "arming"
    /\ req' = FALSE /\ killers' = {}
    /\ Goto(t, "loading")
    /\ UNCHANGED <<gen, cells, loaded, myGen, outcome, clocks, interrupted,
                   clicks>>
-----------------------------------------------------------------------------
(***************************************************************************)
(* begin_turn, InFlightGuard's drop and retire_generation.                 *)
(***************************************************************************)
BeginLoad(c) ==
    /\ pc[c] = "loading"
    /\ loaded' = [loaded EXCEPT ![c] = gen + 1]
    /\ Goto(c, "swapping")
    /\ UNCHANGED <<word, cells, myGen, outcome, clocks, interrupted, clicks>>

BeginSwap(c) ==
    /\ pc[c] = "swapping"
    /\ gen' = loaded[c] /\ req' = FALSE /\ killers' = {}
    /\ myGen' = [myGen EXCEPT ![c] = loaded[c]]
    /\ Goto(c, "marking")
    /\ UNCHANGED <<cells, loaded, outcome, clocks, interrupted, clicks>>

MarkInFlight(c) ==
    /\ pc[c] = "marking"
    /\ inFlight' = TRUE
    /\ Goto(c, IF c \in Turns THEN "clocking" ELSE "replaying")
    /\ UNCHANGED <<word, slot, clockSlot, lock, resuming, loaded, myGen,
                   outcome, clocks, interrupted, clicks>>

DropInFlight(c) ==
    /\ pc[c] = "dropFlag"
    /\ inFlight' = FALSE
    /\ Goto(c, "dropSlot")
    /\ UNCHANGED <<word, slot, clockSlot, lock, resuming, loaded, myGen,
                   outcome, clocks, interrupted, clicks>>

DropSlot(c) ==
    /\ pc[c] = "dropSlot"
    /\ slot' = NoOne
    /\ Goto(c, "dropClock")
    /\ UNCHANGED <<word, inFlight, clockSlot, lock, resuming, loaded, myGen,
                   outcome, clocks, interrupted, clicks>>

DropClock(c) ==
    /\ pc[c] = "dropClock"
    /\ clockSlot' = NoOne
    /\ Goto(c, "retireLoad")
    /\ UNCHANGED <<word, inFlight, slot, lock, resuming, loaded, myGen,
                   outcome, clocks, interrupted, clicks>>

RetireLoad(c) ==
    /\ pc[c] = "retireLoad"
    /\ loaded' = [loaded EXCEPT ![c] = gen + 1]
    /\ Goto(c, "retireSwap")
    /\ UNCHANGED <<word, cells, myGen, outcome, clocks, interrupted, clicks>>

\* Plausible bug: the retired generation keeps the flag it was left with.
RetireSwapKeepsFlag(c) ==
    /\ pc[c] = "retireSwap"
    /\ gen' = loaded[c]
    /\ Goto(c, CASE c \in Turns -> "unlocking"
                 [] c \in Pulls -> "scanning"
                 [] c \in Resumes -> "rejoining")
    /\ UNCHANGED <<req, killers, cells, loaded, myGen, outcome, clocks,
                   interrupted, clicks>>

\* A turn or a resume retires its generation last; a pull retires whatever
\* generation it finds before it reads its first row.
RetireSwap(c) ==
    /\ pc[c] = "retireSwap"
    /\ gen' = loaded[c] /\ req' = FALSE /\ killers' = {}
    /\ Goto(c, CASE c \in Turns -> "unlocking"
                 [] c \in Pulls -> "scanning"
                 [] c \in Resumes -> "rejoining")
    /\ UNCHANGED <<cells, loaded, myGen, outcome, clocks, interrupted, clicks>>

Unlock(c) ==
    /\ pc[c] = "unlocking"
    /\ lock' = NoOne
    /\ Goto(c, "done")
    /\ UNCHANGED <<word, inFlight, slot, clockSlot, resuming, loaded, myGen,
                   outcome, clocks, interrupted, clicks>>

EndResume(r) ==
    /\ pc[r] = "rejoining"
    /\ resuming' = FALSE
    /\ Goto(r, "done")
    /\ UNCHANGED <<word, inFlight, slot, clockSlot, lock, loaded, myGen,
                   outcome, clocks, interrupted, clicks>>
-----------------------------------------------------------------------------
(***************************************************************************)
(* A turn between its two ends.                                            *)
(***************************************************************************)

\* ProgressClock::arm spawns the watchdog, then the clock is published.
ArmClock(t) ==
    /\ pc[t] = "clocking"
    /\ dog' \in {dog, [dog EXCEPT ![t] = "poll"]}
    /\ Goto(t, "publishing")
    /\ UNCHANGED <<word, cells, loaded, myGen, outcome, silent, frozen,
                   frozenBy, timedOut, interrupted, clicks>>

PublishClock(t) ==
    /\ pc[t] = "publishing"
    /\ clockSlot' = t
    /\ Goto(t, "free")
    /\ UNCHANGED <<word, inFlight, slot, lock, resuming, loaded, myGen,
                   outcome, clocks, interrupted, clicks>>

\* Stream activity of the provider re-arms the deadline.
Touch(t) ==
    /\ pc[t] = "free"
    /\ silent[t] > 0
    /\ silent' = [silent EXCEPT ![t] = 0]
    /\ UNCHANGED <<word, cells, pc, loaded, myGen, outcome, dog, frozen,
                   frozenBy, timedOut, interrupted, clicks>>

\* A tool call passes the per-call stop gate and freezes the clock it finds
\* in the token's slot for the whole dispatch.
CallTool(t) ==
    /\ pc[t] = "free"
    /\ ~req
    /\ frozenBy' = [frozenBy EXCEPT ![t] = clockSlot]
    /\ frozen' = [u \in Turns |-> IF u = clockSlot THEN frozen[u] + 1
                                                   ELSE frozen[u]]
    /\ Goto(t, "gated")
    /\ UNCHANGED <<word, cells, loaded, myGen, outcome, dog, silent, timedOut,
                   interrupted, clicks>>

\* The provider ended its run, with a reply or an error.
Reply(t) ==
    /\ pc[t] = "free"
    /\ Goto(t, "verdict")
    /\ UNCHANGED <<word, cells, loaded, myGen, outcome, clocks, interrupted,
                   clicks>>

\* Plausible bug: only the gate of the next call looks at the flag, so a
\* provider that is not calling tools is never stopped.
NoticeStopDeaf(t) ==
    /\ pc[t] = "free"
    /\ req /\ outcome[t] # "none"
    /\ Goto(t, "reason")
    /\ UNCHANGED <<word, cells, loaded, myGen, outcome, clocks, interrupted,
                   clicks>>

\* The cancel watcher, or the gate of the next call, notices the flag.
NoticeStop(t) ==
    /\ pc[t] = "free"
    /\ req
    /\ Goto(t, "reason")
    /\ UNCHANGED <<word, cells, loaded, myGen, outcome, clocks, interrupted,
                   clicks>>

\* The approval wait ends without a stop: the tool is denied or called.
ToolProceeds(t) ==
    /\ pc[t] = "gated"
    /\ Goto(t, "thaw") \/ Goto(t, "calling")
    /\ UNCHANGED <<word, cells, loaded, myGen, outcome, clocks, interrupted,
                   clicks>>

\* The approval gate gives way to the flag.
ToolStopped(t) ==
    /\ pc[t] = "gated"
    /\ req
    /\ Goto(t, "thaw")
    /\ UNCHANGED <<word, cells, loaded, myGen, outcome, clocks, interrupted,
                   clicks>>

\* The part of a call that no interrupt reaches is over: a tool without a
\* query has returned, or a sandbox is set up and its mid-check passes.
CallEnds(t) ==
    /\ pc[t] = "calling"
    /\ \/ Goto(t, "thaw")
       \/ ~req /\ Goto(t, "register")
    /\ UNCHANGED <<word, cells, loaded, myGen, outcome, clocks, interrupted,
                   clicks>>

\* A panic inside the dispatch is caught and ends the turn.
ToolPanics(t) ==
    /\ pc[t] \in {"gated", "calling"}
    /\ outcome' = [outcome EXCEPT ![t] = "Aborted"]
    /\ Goto(t, "thaw")
    /\ UNCHANGED <<word, cells, loaded, myGen, clocks, interrupted, clicks>>

\* Plausible bug: the query runs without its interrupt handle in the slot.
SetInterruptForgotten(t) ==
    /\ pc[t] = "register"
    /\ Goto(t, "registered")
    /\ UNCHANGED <<word, cells, loaded, myGen, outcome, clocks, interrupted,
                   clicks>>

SetInterrupt(t) ==
    /\ pc[t] = "register"
    /\ slot' = t
    /\ Goto(t, "registered")
    /\ UNCHANGED <<word, inFlight, clockSlot, lock, resuming, loaded, myGen,
                   outcome, clocks, interrupted, clicks>>

\* The engine starts the statement; an interrupt from before it may be lost.
StartQuery(t) ==
    /\ pc[t] = "registered"
    /\ interrupted' \in {interrupted, interrupted \ {t}}
    /\ Goto(t, "query")
    /\ UNCHANGED <<word, cells, loaded, myGen, outcome, clocks, clicks>>

\* The query came to its own end, in time or in spite of an interrupt.
QueryCompletes(t) ==
    /\ pc[t] = "query"
    /\ Goto(t, "unregister")
    /\ UNCHANGED <<word, cells, loaded, myGen, outcome, clocks, interrupted,
                   clicks>>

QueryAborts(t) ==
    /\ pc[t] = "query"
    /\ t \in interrupted
    /\ Goto(t, "unregister")
    /\ UNCHANGED <<word, cells, loaded, myGen, outcome, clocks, interrupted,
                   clicks>>

ClearInterrupt(t) ==
    /\ pc[t] = "unregister"
    /\ slot' = NoOne
    /\ interrupted' = interrupted \ {t}
    /\ Goto(t, "thaw")
    /\ UNCHANGED <<word, inFlight, clockSlot, lock, resuming, loaded, myGen,
                   outcome, clocks, clicks>>

\* Plausible bug: the freeze of a dispatch is not given back.
ThawLeaksFreeze(t) ==
    /\ pc[t] = "thaw"
    /\ frozenBy' = [frozenBy EXCEPT ![t] = NoOne]
    /\ Goto(t, IF outcome[t] = "Aborted" THEN "dropFlag" ELSE "free")
    /\ UNCHANGED <<word, cells, loaded, myGen, outcome, dog, silent, frozen,
                   timedOut, interrupted, clicks>>

\* FreezeGuard's drop; a caught panic ends the drive instead of resuming it.
Thaw(t) ==
    /\ pc[t] = "thaw"
    /\ frozen' = [u \in Turns |-> IF u = frozenBy[t] THEN frozen[u] - 1
                                                     ELSE frozen[u]]
    /\ frozenBy' = [frozenBy EXCEPT ![t] = NoOne]
    /\ Goto(t, IF outcome[t] = "Aborted" THEN "dropFlag" ELSE "free")
    /\ UNCHANGED <<word, cells, loaded, myGen, outcome, dog, silent, timedOut,
                   interrupted, clicks>>

\* Plausible bug: a reply that is already there wins over the stop.
VerdictReplyWins(t) ==
    /\ pc[t] = "verdict"
    /\ Goto(t, "dropFlag")
    /\ outcome' = [outcome EXCEPT ![t] = "Reply"]
    /\ UNCHANGED <<word, cells, loaded, myGen, clocks, interrupted, clicks>>

\* A stop that arrived during the run wins over the reply.
Verdict(t) ==
    /\ pc[t] = "verdict"
    /\ IF req THEN Goto(t, "reason") /\ UNCHANGED outcome
              ELSE /\ Goto(t, "dropFlag")
                   /\ outcome' = [outcome EXCEPT ![t] = "Reply"]
    /\ UNCHANGED <<word, cells, loaded, myGen, clocks, interrupted, clicks>>

\* cancel_landing: the latched clock tells whose stop it was.
CancelLanding(t) ==
    /\ pc[t] = "reason"
    /\ outcome' = [outcome EXCEPT
                     ![t] = IF timedOut[t] THEN "NoProgress" ELSE "Cancelled"]
    /\ Goto(t, "dropFlag")
    /\ UNCHANGED <<word, cells, loaded, myGen, clocks, interrupted, clicks>>
-----------------------------------------------------------------------------
(***************************************************************************)
(* Pulls and resumes poll the flag between rows, sources and replays.      *)
(***************************************************************************)
ScanStopped(p) ==
    /\ pc[p] = "scanning"
    /\ req
    /\ outcome' = [outcome EXCEPT ![p] = "Cancelled"]
    /\ Goto(p, "unlocking")
    /\ UNCHANGED <<word, cells, loaded, myGen, clocks, interrupted, clicks>>

ScanEnds(p) ==
    /\ pc[p] = "scanning"
    /\ outcome' = [outcome EXCEPT ![p] = "Reply"]
    /\ Goto(p, "unlocking")
    /\ UNCHANGED <<word, cells, loaded, myGen, clocks, interrupted, clicks>>

ReplayStopped(r) ==
    /\ pc[r] = "replaying"
    /\ req
    /\ outcome' = [outcome EXCEPT ![r] = "Cancelled"]
    /\ Goto(r, "dropFlag")
    /\ UNCHANGED <<word, cells, loaded, myGen, clocks, interrupted, clicks>>

ReplayEnds(r) ==
    /\ pc[r] = "replaying"
    /\ outcome' = [outcome EXCEPT ![r] = "Reply"]
    /\ Goto(r, "dropFlag")
    /\ UNCHANGED <<word, cells, loaded, myGen, clocks, interrupted, clicks>>
-----------------------------------------------------------------------------
(***************************************************************************)
(* The watchdog of turn t: one iteration is a poll, a judgement and, on    *)
(* expiry, a generation-guarded request followed by the engine interrupt.  *)
(***************************************************************************)
DogGoto(t, label) == dog' = [dog EXCEPT ![t] = label]

DogPoll(t) ==
    /\ dog[t] = "poll"
    /\ DogGoto(t, IF ~ClockAlive(t) \/ req THEN "gone" ELSE "judge")
    /\ UNCHANGED <<word, cells, pc, loaded, myGen, outcome, silent, frozen,
                   frozenBy, timedOut, interrupted, clicks>>

\* Plausible bug: the cap is compared with > instead of >=.
DogJudgeLateTrip(t) ==
    /\ dog[t] = "judge"
    /\ \/ /\ frozen[t] > 0 \/ silent[t] <= Cap
          /\ silent' = [silent EXCEPT ![t] = IF frozen[t] > 0 THEN 0 ELSE @ + 1]
          /\ DogGoto(t, "poll")
          /\ UNCHANGED timedOut
       \/ /\ frozen[t] = 0
          /\ silent[t] > Cap
          /\ timedOut' = [timedOut EXCEPT ![t] = TRUE]
          /\ DogGoto(t, "fire")
          /\ UNCHANGED silent
    /\ UNCHANGED <<word, cells, pc, loaded, myGen, outcome, frozen, frozenBy,
                   interrupted, clicks>>

DogJudge(t) ==
    /\ dog[t] = "judge"
    /\ \/ /\ frozen[t] > 0
          /\ silent' = [silent EXCEPT ![t] = 0]
          /\ DogGoto(t, "poll")
          /\ UNCHANGED timedOut
       \/ /\ frozen[t] = 0
          /\ silent[t] < Cap
          /\ silent' = [silent EXCEPT ![t] = @ + 1]
          /\ DogGoto(t, "poll")
          /\ UNCHANGED timedOut
       \/ /\ frozen[t] = 0
          /\ silent[t] >= Cap
          /\ timedOut' = [timedOut EXCEPT ![t] = TRUE]
          /\ DogGoto(t, "fire")
          /\ UNCHANGED silent
    /\ UNCHANGED <<word, cells, pc, loaded, myGen, outcome, frozen, frozenBy,
                   interrupted, clicks>>

\* Plausible bug: the watchdog calls request() instead of request_if().
DogFireUnguarded(t) ==
    /\ dog[t] = "fire"
    /\ req' = TRUE
    /\ killers' = killers \cup {t}
    /\ DogGoto(t, "interrupt")
    /\ UNCHANGED <<gen, cells, pc, loaded, myGen, outcome, silent, frozen,
                   frozenBy, timedOut, interrupted, clicks>>

\* request_if: the compare-exchange loop is one atomic read-modify-write.
DogFire(t) ==
    /\ dog[t] = "fire"
    /\ IF gen = myGen[t]
         THEN /\ req' = TRUE
              /\ killers' = killers \cup {t}
              /\ DogGoto(t, "interrupt")
         ELSE /\ DogGoto(t, "gone")
              /\ UNCHANGED <<req, killers>>
    /\ UNCHANGED <<gen, cells, pc, loaded, myGen, outcome, silent, frozen,
                   frozenBy, timedOut, interrupted, clicks>>

\* The registered query, if there is one, and whoever it belongs to.  A turn
\* past its mid-check whose query has not begun is not aborted by it.
FireInterrupt ==
    /\ interrupted' = interrupted \cup ({slot} \ {NoOne})
    /\ missed' = missed \cup {t \in Turns : pc[t] \in {"register", "registered"}}

DogInterrupt(t) ==
    /\ dog[t] = "interrupt"
    /\ FireInterrupt
    /\ DogGoto(t, "gone")
    /\ UNCHANGED <<word, cells, pc, loaded, myGen, outcome, silent, frozen,
                   frozenBy, timedOut, stop, hit>>
-----------------------------------------------------------------------------
(***************************************************************************)
(* The user's stop: fetch_or of the flag, then the engine interrupt.       *)
(***************************************************************************)
StopFlag(s) ==
    /\ stop[s] = "idle"
    /\ req' = TRUE
    /\ stop' = [stop EXCEPT ![s] = "interrupt"]
    /\ hit' = [hit EXCEPT ![s] = {c \in Commands : Listening(c)}]
    /\ UNCHANGED <<gen, killers, cells, pc, loaded, myGen, outcome, clocks,
                   interrupted, missed>>

StopInterrupt(s) ==
    /\ stop[s] = "interrupt"
    /\ FireInterrupt
    /\ stop' = [stop EXCEPT ![s] = "done"]
    /\ UNCHANGED <<word, cells, pc, loaded, myGen, outcome, clocks, hit>>
-----------------------------------------------------------------------------
\* Steps the provider, the user's approval, a tool or the engine may never take.
ProviderEvent(t) ==
    \/ Touch(t) \/ CallTool(t) \/ Reply(t) \/ ToolProceeds(t)
    \/ CallEnds(t) \/ QueryCompletes(t)

GuardStep(c) ==
    \/ BeginLoad(c) \/ BeginSwap(c) \/ MarkInFlight(c)
    \/ DropInFlight(c) \/ DropSlot(c) \/ DropClock(c)
    \/ RetireLoad(c) \/ RetireSwap(c)

TurnStep(t) ==
    \/ TakeLock(t) \/ ClearStaleRequest(t) \/ GuardStep(t) \/ Unlock(t)
    \/ ArmClock(t) \/ PublishClock(t) \/ NoticeStop(t) \/ ToolStopped(t)
    \/ SetInterrupt(t) \/ StartQuery(t) \/ QueryAborts(t)
    \/ ClearInterrupt(t) \/ Thaw(t) \/ Verdict(t) \/ CancelLanding(t)

PullStep(p) ==
    \/ TakeLock(p) \/ RetireLoad(p) \/ RetireSwap(p) \/ ScanStopped(p)
    \/ ScanEnds(p) \/ Unlock(p)

ResumeStep(r) ==
    \/ GuardStep(r) \/ ReplayStopped(r) \/ ReplayEnds(r) \/ EndResume(r)

DogStep(t) == DogPoll(t) \/ DogJudge(t) \/ DogFire(t) \/ DogInterrupt(t)
StopStep(s) == StopFlag(s) \/ StopInterrupt(s)

\* Every command has returned or was never issued: the session is at rest.
AtRest ==
    /\ \A c \in Commands : pc[c] \in {"idle", "done", "refused"}
    /\ UNCHANGED vars

Next ==
    \/ \E t \in Turns :
         \/ SubmitTurn(t) \/ ProviderEvent(t) \/ ToolPanics(t)
         \/ TurnStep(t) \/ DogStep(t)
    \/ \E p \in Pulls : SubmitPull(p) \/ PullStep(p)
    \/ \E r \in Resumes : SubmitResume(r) \/ ResumeStep(r)
    \/ \E s \in Stops : StopStep(s)
    \/ AtRest

Spec == Init /\ [][Next]_vars

(***************************************************************************)
(* Threads that can run do run: a turn takes its own steps, an interrupted *)
(* query aborts, a watchdog polls, and a stop's interrupt follows its      *)
(* flag.  Nothing is assumed of the provider, the user, the tools or the   *)
(* engine: a query has no time limit and need not end by itself.           *)
(***************************************************************************)
Fairness ==
    /\ \A t \in Turns : WF_vars(TurnStep(t)) /\ WF_vars(DogStep(t))
    /\ \A s \in Stops : WF_vars(StopInterrupt(s))

FairSpec == Spec /\ Fairness
-----------------------------------------------------------------------------
Outcomes == {"none", "Reply", "Cancelled", "NoProgress", "Aborted"}

\* Every variable stays in its domain; in particular the freeze depth never
\* underflows and the silence count never runs past the cap.
TypeOK ==
    /\ gen \in Nat /\ req \in BOOLEAN /\ killers \subseteq Turns
    /\ inFlight \in BOOLEAN /\ resuming \in BOOLEAN
    /\ slot \in Turns \cup {NoOne} /\ clockSlot \in Turns \cup {NoOne}
    /\ lock \in Locked \cup {NoOne}
    /\ pc \in [Commands -> BeforeGuard \cup Running \cup Leaving
                             \cup AfterGuard \cup {"scanning"}]
    /\ loaded \in [Commands -> Nat] /\ myGen \in [Commands -> Nat]
    /\ outcome \in [Commands -> Outcomes]
    /\ dog \in [Turns -> {"none", "poll", "judge", "fire", "interrupt", "gone"}]
    /\ silent \in [Turns -> 0..Cap] /\ frozen \in [Turns -> Nat]
    /\ frozenBy \in [Turns -> Turns \cup {NoOne}]
    /\ timedOut \in [Turns -> BOOLEAN] /\ interrupted \subseteq Turns
    /\ stop \in [Stops -> {"idle", "interrupt", "done"}]
    /\ hit \in [Stops -> SUBSET Commands] /\ missed \subseteq Turns

\* The single-in-flight invariant: at most one command owns the generation in
\* the word, and the in_flight flag is raised only while one does.
SingleInFlight ==
    /\ \A c, d \in Commands : Serving(c) /\ Serving(d) => c = d
    /\ inFlight => \E c \in Guarded : Serving(c)

\* A watchdog fires inside its own turn or stands down: a flag it raised is in
\* the word only while its turn's guard is alive, so neither a successor turn
\* nor a pull nor an idle session ever sees it.
WatchdogStandsDown == \A t \in killers : Serving(t)

\* A command reported as cancelled was stopped by a click that arrived while
\* that very command was listening: neither a stale click from before it nor a
\* watchdog, its own or another turn's, ends it under that name.
OnlyItsUserCancels ==
    \A c \in Commands : outcome[c] = "Cancelled" => \E s \in Stops : c \in hit[s]

\* A click that lands while a turn is running is never swallowed: the turn ends
\* as stopped (by this click or by the watchdog), or with the caught panic that
\* takes precedence over both; it never ends with a reply.
StopHonoured ==
    \A t \in Turns, s \in Stops : t \in hit[s] => outcome[t] # "Reply"

\* The engine interrupt reaches the query it was meant for: the query of a turn
\* is interrupted only if that turn has a pending stop request.
InterruptMeansRequest ==
    \A t \in Turns : t \in interrupted /\ pc[t] = "query" => req

\* The engine is told to abort the query of a turn the user has stopped.
StopAbortsQuery ==
    \A t \in Turns, s \in Stops :
        t \in hit[s] /\ stop[s] = "done" /\ pc[t] = "query" => t \in interrupted

\* A query that no interrupt has reached runs on, and nothing bounds it.
RunsOn(t) == pc[t] = "query" /\ t \notin interrupted

\* A running turn the user has stopped comes to an end and frees the session,
\* unless it waits for ever for a tool that no interrupt reaches, or for a
\* query whose one interrupt came between the mid-check and the statement.
StopEndsTurn ==
    \A t \in Turns :
        \/ \A s \in Stops : t \in hit[s] ~> pc[t] = "done"
        \/ <>[](RunsOn(t) /\ t \in missed)
        \/ <>[](pc[t] = "calling")

\* A turn whose provider falls silent is ended by its watchdog, if that could
\* be spawned: once it runs, it ends, unless the provider keeps producing
\* events for ever, an approval card is never answered, or a tool or a query
\* never returns (a running dispatch freezes the clock).
HungTurnEnds ==
    \A t \in Turns :
        \/ (pc[t] = "free" /\ dog[t] # "none") ~> pc[t] = "done"
        \/ []<><<ProviderEvent(t)>>_vars
        \/ <>[](pc[t] \in {"gated", "calling"})
        \/ <>[]RunsOn(t)
=============================================================================
