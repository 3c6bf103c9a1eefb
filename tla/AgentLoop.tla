------------------------------ MODULE AgentLoop ------------------------------
(***************************************************************************)
(* A turn of the built-in agent loop (session/loop_runtime).  Four threads *)
(* work on it:                                                             *)
(*                                                                         *)
(*   - the driver (drive_turn) polls the model's event stream, runs the    *)
(*     callbacks of the calls in a batch one after the other, and folds    *)
(*     the events into the rounds of the trace;                            *)
(*   - the dispatch server (LoopRuntime::run) executes the calls on the    *)
(*     session's thread and records each row on the channel of the family  *)
(*     that asked, before it replies;                                      *)
(*   - the watcher turns a requested stop into a notification;             *)
(*   - the user or the no-progress watchdog may stop the turn.             *)
(*                                                                         *)
(* A delegation is a call whose callback runs a sub-agent: a second stream *)
(* with a fold and a channel of its own, served by the same server.  The   *)
(* model and the loop library are environment: a turn streams what it      *)
(* likes, issues any batch, falls silent or fails; a batch's results       *)
(* surface once all its calls have returned, in call order.                *)
(***************************************************************************)
EXTENDS Naturals, Sequences, FiniteSets, SequencesExt

CONSTANTS Plain,         \* calls the main loop may make
          Delegation,    \* calls that run a sub-agent
          Sub,           \* calls a sub-agent may make
          Promoting,     \* calls that promote a result when they run
          Signature,     \* name and arguments of a call, as one value
          Contents,      \* what a model turn may stream: sets of parts
          SteerAt,       \* IDENTICAL_STEER_AT
          StepCap,       \* model turns of a window
          SubStepCap,    \* SUBAGENT_STEP_CAP
          MaxResumes,    \* MAX_WINDOW_RESUMES
          BatchCap,      \* DELEGATION_BATCH_CAP
          None

Calls == Plain \cup Delegation \cup Sub
Family == {"main", "sub"}
Issues == [main |-> Plain \cup Delegation, sub |-> Sub]
Cap == [main |-> StepCap, sub |-> SubStepCap]

\* A round of the trace, and what a turn returns.
Parts == SUBSET {"thinking", "text"}
Rounds == [turn : Nat, parts : Parts, calls : Seq(Calls)]
Outcomes == [termination : {"reply", "stepCap", "cancelled", "noProgress", "failed"},
             trace : Seq(Rounds), promotions : Seq(Promoting)]

ASSUME LoopAssumption ==
  /\ Plain \cap Delegation = {} /\ Sub \cap (Plain \cup Delegation) = {}
  /\ None \notin Calls \cup Nat \cup Outcomes /\ Promoting \subseteq Plain \cup Sub
  /\ Contents \subseteq Parts
  /\ {SteerAt, StepCap, SubStepCap, MaxResumes, BatchCap} \subseteq Nat
  /\ SteerAt > 0

VARIABLES
  driver,     \* the driver's thread
  exit,       \* how its loop ended
  windows,    \* windows reopened
  rig,        \* each family's stream: where it is
  steps,      \* model turns of the family's window
  todo,       \* calls of the family's batch that have not returned
  results,    \* results of the batch that have not surfaced
  fold,       \* each family's event fold
  width,      \* delegations of this batch
  delegation, \* the delegation that runs
  before,     \* promotions when it began
  queue,      \* each family's recorded rows that no fold has taken
  server,     \* the session's thread: where it is
  request,    \* the call it was asked for
  reply,      \* its answer
  arrivals,   \* arrivals of each signature
  promotions, \* promoting calls, in order
  aborted,    \* an honest abort is latched
  gateOver,   \* a cancelled gate is latched
  flag,       \* the cancel token's request flag
  timedOut,   \* the watchdog's latch
  notified,   \* the driver was notified of the stop
  subTrace,   \* rows that a landed delegation carries
  orphans,    \* promotions that a failed delegation names
  outcome,    \* what the turn returned
  made,       \* history: calls with a row made, in order
  ran,        \* history: calls the server executed, in order
  issuer,     \* history: the model turn, or the delegation, that issued a call
  spoke       \* history: the main turns that streamed prose

driveVars  == <<driver, exit, windows>>
streamVars == <<rig, steps, todo, results, fold, width>>
subVars    == <<delegation, before, subTrace, orphans>>
serverVars == <<server, request, reply, arrivals, promotions>>
overVars   == <<aborted, gateOver, flag, timedOut, notified>>
history    == <<made, ran, issuer, spoke>>
vars == <<driveVars, streamVars, subVars, queue, serverVars, overVars,
          outcome, history>>

(***************************************************************************)
(* The event fold (fold.rs)                                                *)
(***************************************************************************)
Round(turn, parts) == [turn |-> turn, parts |-> parts, calls |-> <<>>]

NewFold == [rounds |-> <<>>, trips |-> 0, open |-> FALSE, batch |-> FALSE,
            parts |-> {}, trailing |-> <<>>, final |-> FALSE]

Flush(f) == [f EXCEPT !.rounds = @ \o f.trailing, !.trailing = <<>>]

\* The turn's first item: the round that the last turn left waiting lands.
OpenCall(f) ==
  IF f.open THEN f
  ELSE [Flush(f) EXCEPT !.open = TRUE, !.trips = @ + 1,
                        !.batch = FALSE, !.parts = {}]

Park(f) ==
  [f EXCEPT !.trailing = IF f.parts = {} THEN <<>>
                         ELSE <<Round(f.trips, f.parts)>>]

CloseCall(f) ==
  LET g == OpenCall(f) IN [(IF g.batch THEN g ELSE Park(g)) EXCEPT !.open = FALSE]

\* The batch takes the thinking back from the waiting round and supersedes it.
ConfirmBatch(f) ==
  LET waiting == UNION {f.trailing[i].parts : i \in DOMAIN f.trailing}
      parts == (waiting \cap {"thinking"}) \cup (f.parts \cap {"text"})
  IN [f EXCEPT !.batch = TRUE, !.trailing = <<>>,
               !.rounds = Append(@, Round(f.trips, parts))]

ResetCall(f) == [Flush(f) EXCEPT !.open = FALSE, !.batch = FALSE, !.parts = {}]

\* Rows land in the last round, or in a round of their own when there is none.
PushCalls(rounds, rows) ==
  IF rows = <<>> THEN rounds
  ELSE IF rounds = <<>> THEN <<[Round(0, {}) EXCEPT !.calls = rows]>>
  ELSE [rounds EXCEPT ![Len(rounds)].calls = @ \o rows]

\* The reply's prose leaves the waiting round: it is the outcome's body.
FinalResponse(f) ==
  LET kept == {i \in DOMAIN f.trailing : "thinking" \in f.trailing[i].parts}
  IN [f EXCEPT !.final = TRUE, !.trailing = <<>>,
               !.rounds = IF kept = {} THEN @
                          ELSE Append(@, Round(f.trailing[1].turn, {"thinking"}))]

\* Plausible bug: a stream cut in the middle of a turn is not salvaged.
FinishSkipsOpen(f) == Flush(f)

Finish(f) == Flush(IF f.open /\ ~f.batch THEN Park(f) ELSE f)

\* Plausible bug: the rows left on the channel are not drained.
DrainsNothing(f, rows) == f

Drain(f, rows) == [f EXCEPT !.rounds = PushCalls(@, rows)]

\* retain_landed_rounds
Landed(rounds) ==
  LET kept[i \in 0..Len(rounds)] ==
        IF i = 0 THEN <<>>
        ELSE IF rounds[i].parts = {} /\ rounds[i].calls = <<>> THEN kept[i - 1]
        ELSE Append(kept[i - 1], rounds[i])
  IN kept[Len(rounds)]

RowsOf(rounds) ==
  LET rows[i \in 0..Len(rounds)] ==
        IF i = 0 THEN <<>> ELSE rows[i - 1] \o rounds[i].calls
  IN rows[Len(rounds)]

-----------------------------------------------------------------------------
TurnOver == aborted \/ gateOver \/ flag

\* The select is biased: the stream is polled when no notification waits.  A
\* sub-agent's stream is polled inside the callback of its delegation.
Polled(f) ==
  /\ driver = "running" /\ ~notified
  /\ f = "main" <=> delegation = None

Init ==
  /\ driver = "starting" /\ exit = "none" /\ windows = 0
  /\ rig = [f \in Family |-> "idle"] /\ steps = [f \in Family |-> 0]
  /\ todo = [f \in Family |-> <<>>] /\ results = [f \in Family |-> 0]
  /\ fold = [f \in Family |-> NewFold] /\ width = 0
  /\ delegation = None /\ before = 0
  /\ subTrace = [d \in Delegation |-> <<>>] /\ orphans = [d \in Delegation |-> <<>>]
  /\ queue = [f \in Family |-> <<>>]
  /\ server = "idle" /\ request = None /\ reply = "none"
  /\ arrivals = [s \in {Signature[c] : c \in Plain \cup Sub} |-> 0]
  /\ promotions = <<>>
  /\ aborted = FALSE /\ gateOver = FALSE /\ flag = FALSE
  /\ timedOut = FALSE /\ notified = FALSE
  /\ outcome = None
  /\ made = <<>> /\ ran = <<>> /\ issuer = [c \in Calls |-> None] /\ spoke = {}

\* The driver's runtime may fail to build.
DriverStarts ==
  /\ driver = "starting"
  /\ \/ driver' = "running" /\ UNCHANGED <<exit, aborted>>
     \/ driver' = "left" /\ exit' = "done" /\ aborted' = TRUE
  /\ UNCHANGED <<windows, streamVars, subVars, queue, serverVars, gateOver, flag,
                 timedOut, notified, outcome, history>>

(***************************************************************************)
(* How a stream ends                                                       *)
(***************************************************************************)
\* The main loop is left: the streams are dropped, and the thread goes once
\* its runtime has no blocking task left.
Leaves(how, folded) ==
  /\ driver' = "leaving" /\ exit' = how
  /\ fold' = [main |-> folded, sub |-> NewFold]
  /\ rig' = [f \in Family |-> "idle"] /\ steps' = [f \in Family |-> 0]
  /\ todo' = [f \in Family |-> <<>>] /\ results' = [f \in Family |-> 0]
  /\ width' = 0

\* finish_run and land_delegation_entry: the rows that the private channel
\* still holds are drained, and the delegation's own row is recorded.
Collects(folded, success) ==
  LET rounds == Landed(Drain(Finish(folded), queue["sub"]).rounds)
  IN /\ subTrace' = [subTrace EXCEPT ![delegation] = RowsOf(rounds)]
     /\ orphans' = [orphans EXCEPT ![delegation] =
                      IF success THEN <<>>
                      ELSE SubSeq(promotions, before + 1, Len(promotions))]
     /\ queue' = [queue EXCEPT !["sub"] = <<>>, !["main"] = Append(@, delegation)]
     /\ made' = Append(made, delegation)
     /\ delegation' = None
     /\ UNCHANGED before

\* The sub-agent's report is the result of the delegation's callback.
Reports(folded, success) ==
  /\ Collects(folded, success)
  /\ rig' = [rig EXCEPT !["sub"] = "idle"]
  /\ steps' = [steps EXCEPT !["sub"] = 0]
  /\ todo' = [todo EXCEPT !["sub"] = <<>>, !["main"] = Tail(@)]
  /\ results' = [results EXCEPT !["sub"] = 0, !["main"] = @ + 1]
  /\ fold' = [fold EXCEPT !["sub"] = NewFold]
  /\ UNCHANGED <<driveVars, width, serverVars, overVars, outcome, ran, issuer, spoke>>

StreamEnds(f, how, folded) ==
  IF f = "sub" THEN Reports(folded, folded.final)
  ELSE /\ Leaves(how, Finish(folded))
       /\ UNCHANGED <<windows, subVars, queue, serverVars, overVars, outcome, history>>

(***************************************************************************)
(* The streams: model turns                                                *)
(***************************************************************************)
OnlyStreams ==
  UNCHANGED <<driveVars, subVars, queue, serverVars, overVars, outcome, made, ran>>

\* The watcher's hook lets the next model call through.
ModelCalled(f) ==
  /\ Polled(f) /\ rig[f] = "idle" /\ ~TurnOver /\ steps[f] < Cap[f]
  /\ rig' = [rig EXCEPT ![f] = "asked"] /\ steps' = [steps EXCEPT ![f] = @ + 1]
  /\ UNCHANGED <<todo, results, fold, width, issuer, spoke>> /\ OnlyStreams

\* A window is exhausted.  The main loop reopens the next one.
WindowReopens ==
  /\ Polled("main") /\ rig["main"] = "idle" /\ steps["main"] = StepCap
  /\ windows < MaxResumes
  /\ windows' = windows + 1 /\ steps' = [steps EXCEPT !["main"] = 0]
  /\ UNCHANGED <<driver, exit, rig, todo, results, fold, width, subVars, queue,
                 serverVars, overVars, outcome, history>>

BudgetSpent(f) ==
  /\ Polled(f) /\ rig[f] = "idle" /\ steps[f] = Cap[f]
  /\ f = "main" => windows = MaxResumes
  /\ StreamEnds(f, "stepCap", fold[f])

TurnOpens(f, parts) ==
  /\ Polled(f) /\ rig[f] = "asked" /\ parts # {}
  /\ rig' = [rig EXCEPT ![f] = "open"]
  /\ fold' = [fold EXCEPT ![f] = [OpenCall(@) EXCEPT !.parts = parts]]
  /\ spoke' = IF f = "main" /\ "text" \in parts
              THEN spoke \cup {fold'[f].trips} ELSE spoke
  /\ UNCHANGED <<steps, todo, results, width, issuer>> /\ OnlyStreams

\* The usage record: a turn with nothing in it opens and closes here.  The
\* main stream's record begins a new count of delegations.
TurnCloses(f) ==
  /\ Polled(f) /\ rig[f] \in {"asked", "open"}
  /\ rig' = [rig EXCEPT ![f] = "closed"]
  /\ fold' = [fold EXCEPT ![f] = CloseCall(@)]
  /\ width' = IF f = "main" THEN 0 ELSE width
  /\ UNCHANGED <<steps, todo, results, issuer, spoke>> /\ OnlyStreams

TurnRetried(f) ==
  /\ Polled(f) /\ rig[f] = "closed"
  /\ rig' = [rig EXCEPT ![f] = "idle"]
  /\ fold' = [fold EXCEPT ![f] = ResetCall(@)]
  /\ UNCHANGED <<steps, todo, results, width, issuer, spoke>> /\ OnlyStreams

BatchCommits(f, batch) ==
  /\ Polled(f) /\ rig[f] = "closed"
  /\ rig' = [rig EXCEPT ![f] = "batch"] /\ todo' = [todo EXCEPT ![f] = batch]
  /\ fold' = [fold EXCEPT ![f] = ConfirmBatch(@)]
  /\ issuer' = [c \in Calls |->
                  IF c \notin Range(batch) THEN issuer[c]
                  ELSE IF f = "main" THEN fold[f].trips ELSE delegation]
  /\ UNCHANGED <<steps, results, width, spoke>> /\ OnlyStreams

\* The batch's results surface, each landing the row at the queue's head.
BatchSettles(f) ==
  /\ Polled(f) /\ rig[f] = "batch" /\ todo[f] = <<>>
  /\ rig' = [rig EXCEPT ![f] = "results"]
  /\ UNCHANGED <<steps, todo, results, fold, width, issuer, spoke>> /\ OnlyStreams

ResultSurfaces(f) ==
  /\ Polled(f) /\ rig[f] = "results"
  /\ rig' = [rig EXCEPT ![f] = IF results[f] = 1 THEN "idle" ELSE @]
  /\ results' = [results EXCEPT ![f] = @ - 1]
  /\ IF queue[f] = <<>> THEN UNCHANGED <<queue, fold>>
     ELSE /\ queue' = [queue EXCEPT ![f] = Tail(@)]
          /\ fold' = [fold EXCEPT ![f].rounds = PushCalls(@, <<Head(queue[f])>>)]
  /\ UNCHANGED <<driveVars, steps, todo, width, subVars, serverVars, overVars,
                 outcome, history>>

Replies(f) ==
  /\ Polled(f) /\ rig[f] = "closed"
  /\ StreamEnds(f, "done", FinalResponse(fold[f]))

\* A provider's fault, or a stream that ends without a reply.
StreamFails(f) ==
  /\ Polled(f) /\ rig[f] \in {"asked", "open", "closed"}
  /\ StreamEnds(f, "error", fold[f])

\* The watcher's hook stops the stream, before a model call or at a delta.
Checkpoint(f) ==
  /\ Polled(f) /\ rig[f] \in {"idle", "open"} /\ TurnOver
  /\ StreamEnds(f, "stopped", fold[f])

(***************************************************************************)
(* The calls of a batch                                                    *)
(***************************************************************************)
NextCall(f) ==
  IF Polled(f) /\ rig[f] = "batch" /\ todo[f] # <<>> /\ request = None
  THEN Head(todo[f]) ELSE None

CallSent(f) ==
  /\ NextCall(f) \in Plain \cup Sub
  /\ request' = [call |-> NextCall(f), family |-> f]
  /\ UNCHANGED <<driveVars, streamVars, subVars, queue, server, reply, arrivals,
                 promotions, overVars, outcome, history>>

\* A delegation without a task, or past the width of a batch, is refused with
\* a row of its own.
DelegationRefused(blank) ==
  /\ NextCall("main") \in Delegation
  /\ blank \/ width >= BatchCap
  /\ width' = IF blank THEN width ELSE width + 1
  /\ queue' = [queue EXCEPT !["main"] = Append(@, NextCall("main"))]
  /\ made' = Append(made, NextCall("main"))
  /\ todo' = [todo EXCEPT !["main"] = Tail(@)]
  /\ results' = [results EXCEPT !["main"] = @ + 1]
  /\ UNCHANGED <<driveVars, rig, steps, fold, subVars, serverVars, overVars,
                 outcome, ran, issuer, spoke>>

SubagentStarts ==
  /\ NextCall("main") \in Delegation /\ width < BatchCap
  /\ width' = width + 1
  /\ delegation' = NextCall("main") /\ before' = Len(promotions)
  /\ UNCHANGED <<driveVars, rig, steps, todo, results, fold, subTrace, orphans,
                 queue, serverVars, overVars, outcome, history>>

\* The callback takes the reply and latches what ends the turn.
CallReturns(f) ==
  /\ Polled(f) /\ reply # "none"
  /\ gateOver' = (gateOver \/ reply = "cancelled")
  /\ aborted' = (aborted \/ reply = "aborted")
  /\ request' = None /\ reply' = "none"
  /\ todo' = [todo EXCEPT ![f] = Tail(@)]
  /\ results' = [results EXCEPT ![f] = @ + 1]
  /\ UNCHANGED <<driveVars, rig, steps, fold, width, subVars, queue, server,
                 arrivals, promotions, flag, timedOut, notified, outcome, history>>

(***************************************************************************)
(* The driver is gone                                                      *)
(***************************************************************************)
\* The futures are dropped.  A sub-agent's guard collects what it has and
\* lands the delegation's row on the main channel.
FuturesDrop ==
  IF delegation = None THEN UNCHANGED <<subVars, queue, made>>
  ELSE Collects([fold["sub"] EXCEPT !.final = FALSE], FALSE)

\* Plausible bug: the notification wakes the driver out of a call only.
AbandonsCallsOnly ==
  /\ driver = "running" /\ notified /\ request # None
  /\ Leaves("abandoned", Finish(fold["main"]))
  /\ FuturesDrop
  /\ UNCHANGED <<windows, serverVars, overVars, outcome, ran, issuer, spoke>>

DriverAbandons ==
  /\ driver = "running" /\ notified
  /\ Leaves("abandoned", Finish(fold["main"]))
  /\ FuturesDrop
  /\ UNCHANGED <<windows, serverVars, overVars, outcome, ran, issuer, spoke>>

\* The driver panics: its fold dies with it.
DriverPanics ==
  /\ driver = "running"
  /\ Leaves("panic", NewFold)
  /\ FuturesDrop
  /\ UNCHANGED <<windows, serverVars, overVars, outcome, ran, issuer, spoke>>

\* The runtime's end waits for the blocking half of a callback.
DriverLeaves ==
  /\ driver = "leaving" /\ (request = None \/ reply # "none")
  /\ driver' = "left" /\ request' = None /\ reply' = "none"
  /\ UNCHANGED <<exit, windows, streamVars, subVars, queue, server, arrivals,
                 promotions, overVars, outcome, history>>

(***************************************************************************)
(* The dispatch server                                                     *)
(***************************************************************************)
Asked == server = "idle" /\ request # None /\ reply = "none"
Sig == Signature[request.call]

\* Once the turn is over, what is queued is answered and not run.
ServerCancels ==
  /\ Asked /\ TurnOver
  /\ reply' = "cancelled"
  /\ UNCHANGED <<driveVars, streamVars, subVars, queue, server, request, arrivals,
                 promotions, overVars, outcome, history>>

\* Plausible bug: all families record on one channel.
RecordsOnMain ==
  /\ queue' = [queue EXCEPT !["main"] = Append(@, request.call)]
  /\ made' = Append(made, request.call)

Records ==
  /\ queue' = [queue EXCEPT ![request.family] = Append(@, request.call)]
  /\ made' = Append(made, request.call)

\* A call that came too often is refused; the one after that ends the turn.
ServerRefuses ==
  /\ Asked /\ ~TurnOver /\ arrivals[Sig] + 1 >= SteerAt
  /\ arrivals' = [arrivals EXCEPT ![Sig] = @ + 1]
  /\ aborted' = (aborted \/ arrivals'[Sig] > SteerAt)
  /\ Records /\ server' = "recorded"
  /\ UNCHANGED <<driveVars, streamVars, subVars, request, reply, promotions,
                 gateOver, flag, timedOut, notified, outcome, ran, issuer, spoke>>

\* Plausible bug: the detector's threshold is off by one.
StartsOnceTooOften ==
  /\ Asked /\ ~TurnOver /\ arrivals[Sig] + 1 <= SteerAt
  /\ arrivals' = [arrivals EXCEPT ![Sig] = @ + 1]
  /\ server' = "executing"
  /\ UNCHANGED <<driveVars, streamVars, subVars, queue, request, reply,
                 promotions, overVars, outcome, history>>

ServerStarts ==
  /\ Asked /\ ~TurnOver /\ arrivals[Sig] + 1 < SteerAt
  /\ arrivals' = [arrivals EXCEPT ![Sig] = @ + 1]
  /\ server' = "executing"
  /\ UNCHANGED <<driveVars, streamVars, subVars, queue, request, reply,
                 promotions, overVars, outcome, history>>

\* Plausible bug: the promotion waits for the loop to take the reply.
PromotesForTheLiving ==
  /\ server = "executing" /\ server' = "recorded"
  /\ Records
  /\ ran' = Append(ran, request.call)
  /\ promotions' = IF request.call \in Promoting /\ driver = "running"
                   THEN Append(promotions, request.call) ELSE promotions
  /\ UNCHANGED <<driveVars, streamVars, subVars, request, reply, arrivals,
                 overVars, outcome, issuer, spoke>>

\* The row and the promotion are recorded before the reply crosses.
ServerExecutes ==
  /\ server = "executing" /\ server' = "recorded"
  /\ Records
  /\ ran' = Append(ran, request.call)
  /\ promotions' = IF request.call \in Promoting
                   THEN Append(promotions, request.call) ELSE promotions
  /\ UNCHANGED <<driveVars, streamVars, subVars, request, reply, arrivals,
                 overVars, outcome, issuer, spoke>>

\* A meta call that never reached a tool leaves no row.
ServerExecutesTraceless ==
  /\ server = "executing" /\ request.call \notin Promoting
  /\ server' = "recorded"
  /\ UNCHANGED <<driveVars, streamVars, subVars, queue, request, reply, arrivals,
                 promotions, overVars, outcome, history>>

ServerReplies ==
  /\ server = "recorded" /\ server' = "idle" /\ reply' = "done"
  /\ UNCHANGED <<driveVars, streamVars, subVars, queue, request, arrivals,
                 promotions, overVars, outcome, history>>

\* The gate was cancelled, or the dispatch panicked.
ServerAborts ==
  /\ server = "executing" /\ server' = "idle"
  /\ \/ flag /\ reply' = "cancelled"
     \/ reply' = "aborted"
  /\ UNCHANGED <<driveVars, streamVars, subVars, queue, request, arrivals,
                 promotions, overVars, outcome, history>>

\* cancel_landing
Landing == IF timedOut THEN "noProgress" ELSE "cancelled"

\* How a run ends that nothing else decided.
ExitTermination ==
  CASE exit \in {"abandoned", "stopped"} -> Landing
    [] exit = "stepCap" -> "stepCap"
    [] exit = "done" /\ fold["main"].final -> "reply"
    [] OTHER -> "failed"

\* The request channel has closed: an abort wins, then a stop, then the exit.
Settles ==
  /\ driver = "left" /\ server = "idle" /\ outcome = None
  /\ outcome' = [termination |-> IF aborted \/ exit = "panic" THEN "failed"
                                 ELSE IF TurnOver THEN Landing
                                 ELSE ExitTermination,
                 trace |-> Landed(Drain(fold["main"], queue["main"]).rounds),
                 promotions |-> promotions]
  /\ queue' = [queue EXCEPT !["main"] = <<>>]
  /\ UNCHANGED <<driveVars, streamVars, subVars, serverVars, overVars, history>>

(***************************************************************************)
(* Stops                                                                   *)
(***************************************************************************)
UserStops ==
  /\ ~flag /\ outcome = None /\ flag' = TRUE
  /\ UNCHANGED <<driveVars, streamVars, subVars, queue, serverVars, aborted,
                 gateOver, timedOut, notified, outcome, history>>

\* The watchdog's clock is frozen while a call is dispatched.
WatchdogStops ==
  /\ ~flag /\ outcome = None /\ server # "executing"
  /\ flag' = TRUE /\ timedOut' = TRUE
  /\ UNCHANGED <<driveVars, streamVars, subVars, queue, serverVars, aborted,
                 gateOver, notified, outcome, history>>

WatcherNotifies ==
  /\ flag /\ ~notified /\ outcome = None
  /\ notified' = TRUE
  /\ UNCHANGED <<driveVars, streamVars, subVars, queue, serverVars, aborted,
                 gateOver, flag, timedOut, outcome, history>>

-----------------------------------------------------------------------------
\* The batches a family may still issue: one call, or two.
Batches(f) ==
  LET fresh == {c \in Issues[f] : issuer[c] = None}
  IN {batch \in fresh \X fresh : batch[1] # batch[2]} \cup {<<c>> : c \in fresh}

ModelMoves(f) ==
  \/ ModelCalled(f)
  \/ \E parts \in Contents : TurnOpens(f, parts)
  \/ TurnCloses(f) \/ TurnRetried(f) \/ Replies(f) \/ StreamFails(f)
  \/ \E batch \in Batches(f) : BatchCommits(f, batch)

LoopMoves(f) ==
  \/ BudgetSpent(f) \/ Checkpoint(f)
  \/ BatchSettles(f) \/ ResultSurfaces(f) \/ CallSent(f) \/ CallReturns(f)

DriverMoves ==
  \/ \E f \in Family : LoopMoves(f)
  \/ DriverStarts \/ WindowReopens
  \/ \E blank \in BOOLEAN : DelegationRefused(blank)
  \/ SubagentStarts
  \/ DriverAbandons \/ DriverLeaves

\* What the dispatch server does on its own account.
ServerProceeds ==
  \/ ServerCancels \/ ServerRefuses \/ ServerStarts \/ ServerReplies \/ Settles

\* A call that executes may stay there: a card that nobody answers, a query
\* without a statement timeout, a tool server that does not reply.
ServerMoves ==
  \/ ServerProceeds
  \/ ServerExecutes \/ ServerExecutesTraceless \/ ServerAborts

Done == outcome # None /\ UNCHANGED vars

Next ==
  \/ \E f \in Family : ModelMoves(f)
  \/ DriverMoves \/ DriverPanics \/ ServerMoves
  \/ UserStops \/ WatchdogStops \/ WatcherNotifies
  \/ Done

Spec == Init /\ [][Next]_vars

\* The model may stay silent for ever, and nothing bounds a call that executes;
\* every thread of the program keeps running.
FairSpec ==
  /\ Spec
  /\ WF_vars(DriverMoves) /\ WF_vars(ServerProceeds) /\ WF_vars(WatcherNotifies)

-----------------------------------------------------------------------------
TypeOK ==
  /\ driver \in {"starting", "running", "leaving", "left"}
  /\ exit \in {"none", "done", "error", "stepCap", "stopped", "abandoned", "panic"}
  /\ windows \in 0..MaxResumes
  /\ rig \in [Family -> {"idle", "asked", "open", "closed", "batch", "results"}]
  /\ steps \in [Family -> Nat] /\ \A f \in Family : steps[f] <= Cap[f]
  /\ todo \in [Family -> Seq(Calls)] /\ \A f \in Family : todo[f] \in Seq(Issues[f])
  /\ results \in [Family -> Nat] /\ queue \in [Family -> Seq(Calls)]
  /\ delegation \in Delegation \cup {None}
  /\ server \in {"idle", "executing", "recorded"}
  /\ request \in [call : Plain \cup Sub, family : Family] \cup {None}
  /\ reply \in {"none", "done", "cancelled", "aborted"}
  /\ arrivals \in [{Signature[c] : c \in Plain \cup Sub} -> Nat]
  /\ {aborted, gateOver, flag, timedOut, notified} \subseteq BOOLEAN
  /\ promotions \in Seq(Promoting) /\ ran \in Seq(Plain \cup Sub)

\* The sequence t lists the members of s that are in S, in their order.
Lists(t, s, S) ==
  \E at \in [DOMAIN t -> DOMAIN s] :
    /\ \A i, j \in DOMAIN t : i < j => at[i] < at[j]
    /\ \A i \in DOMAIN t : t[i] = s[at[i]]
    /\ {at[i] : i \in DOMAIN t} = {j \in DOMAIN s : s[j] \in S}

\* Whatever cut the turn, the trace it returns holds the row of every call of
\* the main loop exactly once, in the order in which the rows were made, each
\* in the round of the model turn that issued it.  Only a panicked driver
\* takes with it what its fold had landed.
MainTraceIsExact ==
  outcome # None /\ exit # "panic" =>
    /\ Lists(RowsOf(outcome.trace), made, Plain \cup Delegation)
    /\ \A i \in DOMAIN outcome.trace :
         \A c \in Range(outcome.trace[i].calls) : issuer[c] = outcome.trace[i].turn

SubCalls(d) == {c \in Sub : issuer[c] = d}

\* The rows under a delegation are the rows of its own sub-agent, in order; an
\* abandonment may cut the last, that of the call under way, and nothing more.
SubTraceIsPrefix ==
  \A d \in Delegation \cap Range(made) :
    \/ Lists(subTrace[d], made, SubCalls(d))
    \/ /\ exit \in {"abandoned", "panic"}
       /\ \E c \in Sub : Lists(Append(subTrace[d], c), made, SubCalls(d))

\* Every executed call of a sub-agent stays under its delegation's row.
SubTraceIsExact ==
  exit # "panic" =>
    \A d \in Delegation \cap Range(made) : Lists(subTrace[d], made, SubCalls(d))

\* What the calls promoted is promoted once, in the order of execution,
\* whether or not the loop lived to hear of it.
PromotionsSurvive ==
  outcome # None => Lists(outcome.promotions, ran, Promoting)

\* Prose that the model streamed is in the trace exactly once; the reply's is
\* not in it.
ProseLandsOnce ==
  outcome # None /\ exit # "panic" =>
    LET saying(t) == {i \in DOMAIN outcome.trace :
                        outcome.trace[i].turn = t /\ "text" \in outcome.trace[i].parts}
        answer == IF fold["main"].final THEN {fold["main"].trips} ELSE {}
    IN \A t \in 1..fold["main"].trips :
         Cardinality(saying(t)) = IF t \in spoke \ answer THEN 1 ELSE 0

\* No call runs as often as the detector's threshold, whoever issues it and
\* in whichever window.
RepeatsAreRefused ==
  \A s \in DOMAIN arrivals :
    Cardinality({i \in DOMAIN ran : Signature[ran[i]] = s}) < SteerAt

\* A stopped turn ends, with the model silent and wherever the stop finds it,
\* or else in a call that the server executes and that never comes back: the
\* server serves one call at a time and the turn is settled by its thread.
StopEnds == flag ~> (outcome # None \/ <>[](server = "executing"))
=============================================================================
