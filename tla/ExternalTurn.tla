---------------------------- MODULE ExternalTurn ----------------------------
(***************************************************************************)
(* A turn driven by an external agent runtime (session/turn_runner.rs,     *)
(* run_external_turn).  Five threads work on it:                           *)
(*                                                                         *)
(*   - the engine (runtime/acp/engine.rs) prompts the agent and folds its  *)
(*     updates into rounds of tool rows;                                   *)
(*   - the spine (runtime/gateway/server.rs, serve_connection) runs on the *)
(*     session's thread and executes the calls the agent sends through its *)
(*     bridge;                                                             *)
(*   - the reader hands the bridge's frames to the spine;                  *)
(*   - the keep-alive companion writes progress frames while a call runs;  *)
(*   - the user may answer a card, or stop the turn.                       *)
(*                                                                         *)
(* When the engine and the spine are through, merge_outcomes joins the     *)
(* rows that both collected.  The agent and its bridge are environment:    *)
(* they send calls and updates in any order, fall silent or die.           *)
(***************************************************************************)
EXTENDS Naturals, Sequences, FiniteSets, SequencesExt

CONSTANTS Gateway,     \* tool calls the agent sends through the bridge
          Native,      \* tool calls the agent executes itself
          Gated,       \* the gateway calls that need the user's approval
          Tokened,     \* the gateway calls that carry a progress token
          Reported,    \* the calls that the agent's updates mention
          Name,        \* the tool each call names
          MaxResumes,  \* MAX_WINDOW_RESUMES
          None

Calls == Gateway \cup Native

ASSUME CallsAssumption ==
  /\ Gateway \cap Native = {} /\ Gated \subseteq Gateway /\ None \notin Calls
  /\ Tokened \subseteq Gateway /\ Native \subseteq Reported /\ Reported \subseteq Calls
  /\ MaxResumes \in Nat

VARIABLES
  eng,        \* the engine thread: where it is
  end,        \* how its prompt loop ended
  resumes,    \* windows resumed so far
  cancelSent, \* session/cancel went out in this window
  rows,       \* the calls with a landed row, in order
  pending,    \* the calls with an open row, in order
  alive,      \* the agent's process runs
  flag,       \* the cancel token's request flag
  spine,      \* the session's thread: where it is
  call,       \* the call the spine works on
  woken,      \* a stop or an abandonment has latched on the open gate
  gtrace,     \* calls the gateway has a row for, in order
  broken,     \* the serve returned an error
  bridge,     \* the bridge's connection
  sent,       \* calls the agent has sent
  socket,     \* frames the spine has not taken
  reader,     \* the reader task: where it is
  slot,       \* the keep-alive slot: the call whose token is armed
  keeper,     \* the keep-alive thread: where it is
  progress,   \* the wire's last frame is a progress frame, of this call
  running,    \* live rail: the calls shown as running
  completed,  \* live rail: completed events of each call
  outcome     \* how the turn settled

engineVars == <<eng, end, resumes, cancelSent, rows, pending>>
spineVars  == <<spine, call, woken, gtrace, broken>>
wireVars   == <<bridge, sent, socket, reader>>
beatVars   == <<slot, keeper, progress>>
liveVars   == <<running, completed>>
vars == <<engineVars, alive, flag, spineVars, wireVars, beatVars, liveVars,
          outcome>>

\* The flag that ends the serve is set when run has returned.
engineDone == eng = "finished"

Init ==
  /\ eng = "idle" /\ end = "none" /\ resumes = 0 /\ cancelSent = FALSE
  /\ rows = <<>> /\ pending = <<>>
  /\ alive = FALSE /\ flag = FALSE
  /\ spine = "accept" /\ call = None /\ woken = FALSE
  /\ gtrace = <<>> /\ broken = FALSE
  /\ bridge = "absent" /\ sent = {}
  /\ socket = <<>> /\ reader = "none"
  /\ slot = None /\ keeper = "off" /\ progress = None
  /\ running = {} /\ completed = [c \in Calls |-> 0]
  /\ outcome = "none"

(***************************************************************************)
(* The agent and its bridge                                                *)
(***************************************************************************)
\* The agent starts its bridge, which connects and then says who it is.  A
\* bridge that says something else fails the serve like one that dies.
BridgeMoves ==
  /\ alive
  /\ \/ bridge = "absent" /\ spine = "accept" /\ bridge' = "connected"
     \/ bridge = "connected" /\ bridge' = "authed"
  /\ UNCHANGED <<engineVars, alive, flag, spineVars, sent, socket,
                 reader, beatVars, liveVars, outcome>>

AgentCalls(c) ==
  /\ alive /\ eng = "prompting" /\ bridge = "authed" /\ c \in Gateway \ sent
  /\ sent' = sent \cup {c} /\ socket' = Append(socket, c)
  /\ UNCHANGED <<engineVars, alive, flag, spineVars, bridge,
                 reader, beatVars, liveVars, outcome>>

\* The process tree of the agent, bridge included, ends: on its own account, or
\* because the engine kills it.
TreeEnds(how) ==
  /\ alive' = FALSE
  /\ bridge' = IF bridge \in {"absent", "gone"} THEN bridge ELSE how

AgentDies ==
  /\ alive /\ eng = "prompting" /\ TreeEnds("gone")
  /\ UNCHANGED <<engineVars, flag, spineVars, sent, socket,
                 reader, beatVars, liveVars, outcome>>

(***************************************************************************)
(* The engine thread                                                       *)
(***************************************************************************)
\* begin_turn wipes the request flag; the spawn of the agent may fail.
EngineBegins ==
  /\ eng = "idle" /\ flag' = FALSE
  /\ \/ eng' = "handshake" /\ alive' = TRUE /\ UNCHANGED end
     \/ eng' = "killed" /\ end' = "failed" /\ UNCHANGED alive
  /\ UNCHANGED <<resumes, cancelSent, rows, pending,
                 spineVars, wireVars, beatVars, liveVars,
                 outcome>>

EngineUnchanged ==
  UNCHANGED <<flag, spineVars, wireVars, beatVars, outcome>>

PumpEnds(how) == eng' = "settle" /\ end' = how /\ cancelSent' = FALSE

\* A window opens: the flag is read, then the prompt goes out.
Prompts ==
  IF flag THEN PumpEnds("cancelled")
  ELSE eng' = "prompting" /\ cancelSent' = FALSE /\ UNCHANGED end

\* initialize, session/new and the configuration requests, any of which may
\* fail; their waits end when the flag is up.
HandshakeEnds ==
  /\ eng = "handshake"
  /\ \/ Prompts
     \/ PumpEnds(IF flag THEN "cancelled" ELSE "failed")
  /\ UNCHANGED <<resumes, rows, pending, alive, liveVars>>
  /\ EngineUnchanged

SendCancel ==
  /\ eng = "prompting" /\ flag /\ ~cancelSent
  /\ cancelSent' = TRUE
  /\ UNCHANGED <<eng, end, resumes, rows, pending, alive, liveVars>>
  /\ EngineUnchanged

\* Plausible bug: the pump waits for the cancelled agent as long as it lives.
GraceForever ==
  /\ eng = "prompting" /\ cancelSent /\ ~alive /\ PumpEnds("cancelled")
  /\ UNCHANGED <<resumes, rows, pending, alive, liveVars>>
  /\ EngineUnchanged

\* The agent did not answer the cancel within its grace.
GraceElapses ==
  /\ eng = "prompting" /\ cancelSent /\ PumpEnds("cancelled")
  /\ UNCHANGED <<resumes, rows, pending, alive, liveVars>>
  /\ EngineUnchanged

PumpEof ==
  /\ eng = "prompting" /\ ~alive
  /\ PumpEnds(IF cancelSent THEN "cancelled" ELSE "failed")
  /\ UNCHANGED <<resumes, rows, pending, alive, liveVars>>
  /\ EngineUnchanged

\* The prompt's response: a further window, or the end.
PumpStop(reason) ==
  /\ eng = "prompting"
  /\ IF reason = "maxRequests" /\ resumes < MaxResumes
     THEN Prompts /\ resumes' = resumes + 1
     ELSE /\ UNCHANGED resumes
          /\ PumpEnds([endTurn |-> "text", cancelled |-> "cancelled",
                       maxRequests |-> "failed"][reason])
  /\ UNCHANGED <<rows, pending, alive, liveVars>>
  /\ EngineUnchanged

\* An update announces a call and opens a row.  The gateway shows its own calls
\* on the live rail, so the fold shows only the agent's.  After the cancel
\* nothing is folded.
PumpOpen(c) ==
  /\ eng = "prompting" /\ ~cancelSent
  /\ c \in Reported \ (Range(pending) \cup Range(rows))
  /\ pending' = Append(pending, c)
  /\ running' = running \cup ({c} \cap Native)
  /\ UNCHANGED <<eng, end, resumes, cancelSent, rows, alive, completed>>
  /\ EngineUnchanged

\* finalize_row for each of some open rows.  The rail hears of the agent's own
\* calls only.
Finalizes(open) ==
  /\ rows' = rows \o open
  /\ running' = running \ (Native \cap Range(open))
  /\ completed' = [c \in Calls |->
                     completed[c] + IF c \in Native \cap Range(open) THEN 1 ELSE 0]

\* A terminal update closes the call's row: the call was answered, or the agent
\* has dropped it.  If the gate is parked on that call, the gate is told.
PumpClose(c) ==
  /\ eng = "prompting" /\ ~cancelSent
  /\ \E i \in DOMAIN pending : pending[i] = c /\ pending' = RemoveAt(pending, i)
  /\ Finalizes(<<c>>)
  /\ woken' = (woken \/ (spine = "gate" /\ call = c))
  /\ UNCHANGED <<eng, end, resumes, cancelSent, alive, flag, spine, call, gtrace,
                 broken, wireVars, beatVars, outcome>>

\* drain_unobserved closes what is open, and the process tree is killed.
EngineSettles ==
  /\ eng = "settle" /\ eng' = "killed"
  /\ Finalizes(pending) /\ pending' = <<>> /\ TreeEnds("killed")
  /\ UNCHANGED <<end, resumes, cancelSent, flag, spineVars,
                 sent, socket, reader, beatVars, outcome>>

\* The turn's guard is dropped, which retires the flag; after run has
\* returned, the serve is told.
GuardDrops ==
  /\ eng = "killed" /\ eng' = "retired" /\ flag' = FALSE
  /\ UNCHANGED <<end, resumes, cancelSent, rows, pending, alive, spineVars,
                 wireVars, beatVars, liveVars, outcome>>

TellServe ==
  /\ eng = "retired" /\ eng' = "finished"
  /\ UNCHANGED <<end, resumes, cancelSent, rows, pending, alive, flag,
                 spineVars, wireVars, beatVars, liveVars, outcome>>

(***************************************************************************)
(* The reader                                                              *)
(***************************************************************************)
ReaderUnchanged ==
  UNCHANGED <<engineVars, alive, flag, spineVars, bridge, sent,
              socket, slot, progress, liveVars, outcome>>

Cut == bridge \in {"gone", "killed"}

\* An error tells whether the engine's own kill was behind it.
Failure == IF bridge = "killed" THEN "cut" ELSE "failed"

\* verify_bridge reads the auth line; when the line does not come, the flags
\* decide whether that is an error.  With the write half, which the spine takes
\* before any frame, the companion starts.
VerifyReads ==
  /\ reader = "auth"
  /\ \/ bridge = "authed" /\ reader' = "frames" /\ keeper' = "sleep"
     \/ /\ Cut /\ UNCHANGED keeper
        /\ reader' = IF flag \/ engineDone THEN "closed" ELSE Failure
  /\ ReaderUnchanged

\* The frames of the socket are handed on in order, so they are left in it
\* until the spine takes them.  The connection ends between two frames or
\* within one.
ReaderEnds ==
  /\ reader = "frames" /\ Cut /\ reader' \in {"closed", Failure}
  /\ UNCHANGED keeper /\ ReaderUnchanged

(***************************************************************************)
(* The spine, on the session's thread                                      *)
(***************************************************************************)
SpineUnchanged ==
  UNCHANGED <<engineVars, alive, flag, bridge, sent, outcome>>

\* The serve is over, with what was collected or with an error.
Closes(err) == spine' = "closed" /\ broken' = err /\ UNCHANGED <<call, woken, gtrace>>

\* accept_bridge and the entry of verify_bridge read the flags; then the
\* connection is taken or, at the deadline, given up.
Accepts ==
  /\ spine = "accept"
  /\ IF flag \/ engineDone
     THEN Closes(FALSE) /\ UNCHANGED <<reader>>
     ELSE \/ /\ bridge # "absent" /\ spine' = "serve" /\ reader' = "auth"
             /\ UNCHANGED <<call, woken, gtrace, broken>>
          \/ bridge = "absent" /\ Closes(TRUE) /\ UNCHANGED reader
  /\ UNCHANGED <<socket, beatVars, liveVars>> /\ SpineUnchanged

\* A tools/call arms the companion.  It is refused ahead of the gate, parks in
\* the gate, whose latches it clears, or runs.
TakeFrame ==
  /\ spine = "serve" /\ socket # <<>> /\ reader # "auth" /\ socket' = Tail(socket)
  /\ LET c == Head(socket) IN
       /\ call' = c /\ slot' = IF c \in Tokened THEN c ELSE None
       /\ \/ spine' = "answer" /\ UNCHANGED <<woken, running>>
          \/ c \in Gated /\ spine' = "gate" /\ woken' = FALSE /\ UNCHANGED running
          \/ /\ c \notin Gated /\ spine' = "run" /\ UNCHANGED woken
             /\ running' = running \cup {c}
  /\ UNCHANGED <<keeper, progress, gtrace, broken, reader,
                 completed>>
  /\ SpineUnchanged

Over == {"closed", "failed", "cut"}

TakeDone ==
  /\ spine = "serve" /\ socket = <<>> /\ reader \in Over
  /\ Closes(reader # "closed")
  /\ UNCHANGED <<socket, reader, beatVars, liveVars>> /\ SpineUnchanged

\* Nothing came within a beat: the flags are read.  Frames may still be on
\* their way, unless the reader is through.
Beat ==
  /\ spine = "serve" /\ reader \notin Over /\ (flag \/ engineDone)
  /\ Closes(FALSE)
  /\ UNCHANGED <<socket, reader, beatVars, liveVars>> /\ SpineUnchanged

DispatchUnchanged ==
  /\ UNCHANGED <<call, broken, socket, reader, beatVars>> /\ SpineUnchanged

\* The row and the live event of a call that the gateway has settled.
Records == /\ gtrace' = Append(gtrace, call)
           /\ running' = running \ {call}
           /\ completed' = [completed EXCEPT ![call] = @ + 1]

GateAllows ==
  /\ spine = "gate" /\ spine' = "run" /\ woken' = FALSE
  /\ running' = running \cup {call}
  /\ UNCHANGED <<gtrace, completed>> /\ DispatchUnchanged

GateDenies ==
  /\ spine = "gate" /\ spine' = "answer" /\ woken' = FALSE /\ Records
  /\ DispatchUnchanged

\* A cancelled gate answers with an error and leaves no row.
GateCancels ==
  /\ spine = "gate" /\ (flag \/ woken) /\ spine' = "answer" /\ woken' = FALSE
  /\ UNCHANGED <<gtrace, liveVars>> /\ DispatchUnchanged

RunEnds ==
  /\ spine = "run" /\ spine' = "answer" /\ Records
  /\ UNCHANGED woken /\ DispatchUnchanged

\* Plausible bug: the companion is disarmed only after the response.
DisarmsLate ==
  /\ spine = "answer" /\ spine' = "write"
  /\ UNCHANGED <<call, woken, gtrace, broken, socket, reader, beatVars, liveVars>>
  /\ SpineUnchanged

Disarms ==
  /\ spine = "answer" /\ spine' = "write" /\ slot' = None
  /\ UNCHANGED <<call, woken, gtrace, broken, socket, reader, keeper,
                 progress, liveVars>> /\ SpineUnchanged

\* The response goes out under the funnel's lock.  A bridge that is gone may
\* refuse it, and then the serve ends with what it has.
Writes ==
  /\ spine = "write"
  /\ \/ /\ spine' = "serve" /\ call' = None /\ progress' = None
        /\ UNCHANGED <<woken, gtrace, broken>>
     \/ Cut /\ Closes(FALSE) /\ UNCHANGED progress
  /\ UNCHANGED <<socket, reader, slot, keeper, liveVars>> /\ SpineUnchanged

(***************************************************************************)
(* The keep-alive companion                                                *)
(***************************************************************************)
KeeperUnchanged ==
  UNCHANGED <<engineVars, alive, flag, spineVars, wireVars, slot,
              liveVars, outcome>>

\* Awake: the stop flag, then the slot.
KeeperWakes ==
  /\ keeper = "sleep"
  /\ \/ spine = "closed" /\ keeper' = "off"
     \/ spine # "closed" /\ slot # None /\ keeper' = "due"
  /\ UNCHANGED progress /\ KeeperUnchanged

\* Under the funnel's lock the slot is read again: a response that has the
\* funnel next must not be overtaken.
KeeperWrites ==
  /\ keeper = "due"
  /\ IF slot = None THEN keeper' = "sleep" /\ UNCHANGED progress
     ELSE \/ keeper' = "sleep" /\ progress' = slot
          \/ Cut /\ keeper' = "off" /\ UNCHANGED progress
  /\ KeeperUnchanged

(***************************************************************************)
(* The user, and the end of the turn                                       *)
(***************************************************************************)
\* A stop raises the flag and wakes the gate, if one is open (commands.rs, fire_cancel).
UserStops ==
  /\ outcome = "none" /\ ~flag /\ flag' = TRUE /\ woken' = (spine = "gate")
  /\ UNCHANGED <<engineVars, alive, spine, call, gtrace, broken, wireVars, beatVars, liveVars, outcome>>

\* merge_outcomes: an engine row gives way to the next row that the gateway
\* has under its name; what the gateway has left over trails.
EngineRow(c) == [call |-> c, by |-> "engine"]
GatewayRow(c) == [call |-> c, by |-> "gateway"]

\* Where the gateway's remaining rows under the call's name stand.
Queued(left, c) == {i \in DOMAIN left : Name[left[i]] = Name[c]}

\* Plausible bug: the paired row keeps the engine's content.
PairKeepsEngine(acc, c) ==
  LET queued == Queued(acc.left, c) IN
    [left |-> IF queued = {} THEN acc.left ELSE RemoveAt(acc.left, Min(queued)),
     out |-> Append(acc.out, EngineRow(c))]

Pair(acc, c) ==
  LET queued == Queued(acc.left, c) IN
    IF queued = {} THEN [acc EXCEPT !.out = Append(@, EngineRow(c))]
    ELSE [left |-> RemoveAt(acc.left, Min(queued)),
          out |-> Append(acc.out, GatewayRow(acc.left[Min(queued)]))]

Merged ==
  LET paired[n \in 0..Len(rows)] ==
        IF n = 0 THEN [left |-> gtrace, out |-> <<>>] ELSE Pair(paired[n - 1], rows[n])
      last == paired[Len(rows)]
  IN last.out \o [i \in DOMAIN last.left |-> GatewayRow(last.left[i])]

\* The threads are joined.  A serve error fails the turn and leaves it the
\* engine's rows; otherwise the engine's end decides.
Joins ==
  /\ spine = "closed" /\ eng = "finished" /\ outcome = "none"
  /\ outcome' = IF broken THEN "failed"
                ELSE [text |-> "recorded", cancelled |-> "cancelled",
                      failed |-> "failed"][end]
  /\ UNCHANGED <<engineVars, alive, flag, spineVars, wireVars, beatVars,
                 liveVars>>

\* The rows of the settled turn.
settled == IF broken THEN [i \in DOMAIN rows |-> EngineRow(rows[i])] ELSE Merged

AtRest == outcome # "none" /\ keeper = "off" /\ UNCHANGED vars

Reasons == {"endTurn", "maxRequests", "cancelled"}

Agent == BridgeMoves \/ AgentDies \/ \E c \in Gateway : AgentCalls(c)
Pump == \/ PumpEof \/ \E r \in Reasons : PumpStop(r)
        \/ \E c \in Calls : PumpOpen(c) \/ PumpClose(c)
Engine == EngineBegins \/ HandshakeEnds \/ SendCancel \/ GraceElapses
          \/ Pump \/ EngineSettles \/ GuardDrops \/ TellServe
Reader == VerifyReads \/ ReaderEnds
SpineMoves == \/ Accepts \/ TakeFrame \/ TakeDone \/ Beat
              \/ GateCancels \/ Disarms \/ Writes \/ Joins
Spine == SpineMoves \/ RunEnds
User == UserStops \/ GateAllows \/ GateDenies
Keeper == KeeperWakes \/ KeeperWrites

Next == Agent \/ Engine \/ Reader \/ Spine \/ User \/ Keeper \/ AtRest

Spec == Init /\ [][Next]_vars

\* The threads run.  The agent, the bridge and the user owe nothing, so the
\* handshake's end is fair only once the agent is gone or a stop is up, and a
\* missing bridge times out.  Nor does a tool owe its end (RunEnds): a query has
\* no time limit, nothing reads the engine's end during a dispatch, and the
\* guard's drop takes the interrupt handle away.
Fairness ==
  /\ WF_vars(EngineBegins \/ PumpEof \/ EngineSettles \/ GuardDrops \/ TellServe)
  /\ WF_vars((flag \/ ~alive) /\ HandshakeEnds)
  /\ WF_vars(SendCancel) /\ WF_vars(GraceElapses)
  /\ WF_vars(Reader) /\ WF_vars(SpineMoves)

FairSpec == Spec /\ Fairness

(***************************************************************************)
(* Properties                                                              *)
(***************************************************************************)
SeqOK ==
  /\ rows \in Seq(Calls) /\ pending \in Seq(Calls)
  /\ gtrace \in Seq(Gateway) /\ socket \in Seq(sent)

FlagOK ==
  /\ cancelSent \in BOOLEAN /\ alive \in BOOLEAN /\ flag \in BOOLEAN
  /\ woken \in BOOLEAN /\ broken \in BOOLEAN

TypeOK ==
  /\ eng \in {"idle", "handshake", "prompting", "settle", "killed",
              "retired", "finished"}
  /\ end \in {"none", "text", "cancelled", "failed"}
  /\ resumes \in 0..MaxResumes
  /\ spine \in {"accept", "serve", "gate", "run", "answer", "write", "closed"}
  /\ call \in Gateway \cup {None} /\ slot \in Gateway \cup {None}
  /\ bridge \in {"absent", "connected", "authed", "gone", "killed"}
  /\ reader \in {"none", "auth", "frames"} \cup Over
  /\ keeper \in {"off", "sleep", "due"} /\ progress \in Gateway \cup {None}
  /\ sent \subseteq Gateway /\ SeqOK /\ FlagOK
  /\ running \subseteq Calls /\ completed \in [Calls -> 0..1]
  /\ outcome \in {"none", "recorded", "cancelled", "failed"}

\* The calls whose response is on the wire.
Answered == sent \ (Range(socket) \cup {call})

\* No progress frame of a call follows its response on the wire, however the
\* companion and the spine interleave (server.rs: "a frame written now would
\* land behind it").
AnswerIsLast == progress \notin Answered

\* What the live rail showed is what the settled turn has, although two
\* threads emit on the rail and a third place merges: a row that running has
\* completed, and the rows that completed are those of the settled turn, each
\* exactly once, but for the engine's rows of calls the gateway kept none of.
LiveMatchesSettled ==
  outcome # "none" =>
    /\ running = {}
    /\ ~broken => \A c \in Calls :
         completed[c] = Cardinality({i \in DOMAIN settled : settled[i] =
                                       IF c \in Native THEN EngineRow(c) ELSE GatewayRow(c)})

\* A turn whose engine is through, or which was stopped, settles, unless a
\* card is on the screen that nobody ever answers, or a tool never returns.
TurnSettles ==
  ((eng # "idle" /\ flag) \/ eng = "finished") ~>
     (outcome # "none" \/ <>[](spine \in {"gate", "run"}))

\* A turn that its engine completed is not recorded as failed because of the
\* connection that the engine's own kill cut (server.rs, verify_bridge: the flag
\* "hands the turn to the ACP termination instead of surfacing the serve error
\* that mislabels the completed turn as Failed").
CompletedIsNotFailed == outcome = "failed" /\ end = "text" => reader # "cut"

\* A call that the gateway answered without a record keeps the row that the
\* engine has of it (outcome_merge.rs, merge_outcomes: "Either way the row is
\* real, so it stays"), whatever other calls of the same tool the turn made.
UnrecordedRowStays ==
  outcome # "none" =>
    \A c \in (Range(rows) \cap Answered) \ Range(gtrace) : EngineRow(c) \in Range(settled)
=============================================================================
