------------------------------ MODULE McpFleet ------------------------------
(***************************************************************************)
(* The external MCP servers of one turn (mcp/aggregator.rs and the three   *)
(* transports of mcp/client.rs).  The session's thread connects them one   *)
(* after the other, routes tool calls to them and drops them; a watcher    *)
(* polls the cancel token and kills every transport it knows of when a     *)
(* stop lands, so that the thread, parked on a silent server, comes back.  *)
(* A server answers, errs, falls silent, dies, or survives its own kill.   *)
(*                                                                         *)
(* The built-in runtime begins the turn on the session's thread, after the *)
(* connects.  An external one begins and ends it on the engine's thread,   *)
(* next to everything here, and both moments clear the token's request.    *)
(***************************************************************************)
EXTENDS Naturals, Sequences, SequencesExt

CONSTANTS Fleet,     \* the enabled servers, in the order of the configuration
          Sse,       \* those reached by an event stream
          Http,      \* those reached by plain requests: the others are stdio
          Untimed,   \* those whose timeout_ms is too long to ever run out
          PageCap,   \* TOOLS_LIST_PAGE_CAP
          Runtimes,  \* "builtin", "external"
          None

Servers == ToSet(Fleet)
Stdio == Servers \ (Sse \cup Http)
Killable == Servers \ Http
Index(s) == CHOOSE i \in DOMAIN Fleet : Fleet[i] = s

ASSUME FleetAssumption ==
  /\ Fleet \in Seq(Servers) /\ IsInjective(Fleet) /\ None \notin Servers
  /\ Sse \cup Http \cup Untimed \subseteq Servers /\ Sse \cap Http = {}
  /\ PageCap \in Nat \ {0} /\ Runtimes \subseteq {"builtin", "external"}

VARIABLES
  runtime,  \* which runtime drives the turn
  req,      \* the token's request flag
  engine,   \* the turn's guard: before, serving, after
  at,       \* the session's thread: where it is
  nth,      \* the server whose connect is next
  cur,      \* the server the thread works with
  job,      \* what it asks of it
  page,     \* the page of tools/list
  record,   \* the connect records
  home,     \* servers whose client is in its slot between calls
  dead,     \* servers latched dead
  corpse,   \* the call under way began on a transport already killed
  revived,  \* such a call has returned an answer
  slots,    \* the registry: connects with a kill slot
  marked,   \* slots that have expired
  handle,   \* slots that hold the transport's kill handle
  up,       \* transports that exist: a child, a stop signal, a client
  killed,   \* those whose kill has fired
  permit,   \* stop signals with a wake stored
  poisoned, \* streams found broken
  resists,  \* children that outlive their kill
  watcher,  \* the watcher: where it is
  todo,     \* slots its pass has still to expire
  mark,     \* the slot it has marked and not yet killed
  done,     \* the turn's stand-down flag
  wiped     \* a stop the watcher acted on was cleared amid the connects

turn == <<runtime, req, engine>>
thread == <<at, nth, cur, job, page>>
servers == <<record, home, dead, corpse, revived>>
registry == <<slots, marked, handle>>
wires == <<up, killed, permit, poisoned, resists>>
watch == <<watcher, todo, mark, wiped>>
vars == <<turn, thread, servers, registry, wires, watch, done>>

Init ==
  /\ runtime \in Runtimes /\ req \in BOOLEAN /\ engine = "before"
  /\ at = "arming" /\ nth = 1 /\ cur = None /\ job = "init" /\ page = 1
  /\ record = [s \in Servers |-> "none"] /\ home = {} /\ dead = {}
  /\ corpse = FALSE /\ revived = FALSE
  /\ slots = {} /\ marked = {} /\ handle = {}
  /\ up = {} /\ killed = {} /\ permit = {} /\ poisoned = {} /\ resists = {}
  /\ watcher = "unarmed" /\ todo = {} /\ mark = None /\ wiped = FALSE
  /\ done = FALSE

\* A request to the server is under way, or its late end is awaited.
Places == {"get", "endpoint", "entry", "post", "check", "read", "ack", "grace"}
Parked == {"get", "endpoint", "post", "read", "ack"}

\* Mutant of Kill: the stop is flagged and nobody woken.
KillWakesNobody(s) ==
  /\ killed' = killed \cup ({s} \cap up \cap Killable)
  /\ UNCHANGED <<up, permit, poisoned, resists>>

\* TransportKill::kill: the child is terminated, or the stop flagged and a wake
\* stored; an HTTP client, or a transport that is gone, has nothing to kill.
Kill(s) ==
  /\ killed' = killed \cup ({s} \cap up \cap Killable)
  /\ permit' = permit \cup ({s} \cap up \cap Sse)
  /\ UNCHANGED <<up, poisoned, resists>>

\* The clients are dropped: children die with theirs, streams are closed.
Drop(gone) ==
  /\ up' = up \ gone /\ killed' = killed \ gone /\ permit' = permit \ gone
  /\ poisoned' = poisoned \ gone /\ resists' = resists \ gone

\* The pipes of a killed child have closed.
Severed(s) == s \in Stdio \cap killed /\ s \notin resists
\* Mutant of Stopped: only the wake is trusted.
StoppedNever(s) == FALSE
\* SseStopSignal::is_stopped.
Stopped(s) == s \in Sse \cap killed
-----------------------------------------------------------------------------
(***************************************************************************)
(* The connects.                                                           *)
(***************************************************************************)
\* arm_cancel_teardown consumes a request that it takes to be stale and
\* spawns the watcher; a failed spawn is only logged.
Arm ==
  /\ at = "arming" /\ at' = "gap" /\ req' = FALSE
  /\ watcher' \in {"poll", "failed"}
  /\ UNCHANGED <<runtime, engine, nth, cur, job, page, servers, registry, wires,
                 todo, mark, wiped, done>>

\* Mutant of CancelSeen: nothing is checked between the attempts.
CancelUnseen == FALSE
\* connect_all's check between the attempts.
CancelSeen == req

Gap ==
  /\ at = "gap" /\ nth <= Len(Fleet)
  /\ IF CancelSeen
     THEN /\ record' = [record EXCEPT ![Fleet[nth]] = "skipped"]
          /\ nth' = nth + 1
          /\ UNCHANGED <<at, cur>>
     ELSE /\ at' = "keys" /\ cur' = Fleet[nth]
          /\ UNCHANGED <<record, nth>>
  /\ UNCHANGED <<turn, job, page, home, dead, corpse, revived, registry, wires,
                 watch, done>>

\* After the keychain reads, the slot is registered under the lock that the
\* watcher holds throughout its pass.
Register ==
  /\ at = "keys" /\ watcher # "pass"
  /\ slots' = slots \cup {cur} /\ at' = "open"
  /\ UNCHANGED <<turn, nth, cur, job, page, servers, marked, handle, wires,
                 watch, done>>

\* connect_one's skip: the connect's future is dropped, its transport with it.
ConnectFails ==
  /\ record' = [record EXCEPT ![cur] = "failed"] /\ Drop({cur})
  /\ nth' = nth + 1 /\ at' = "gap" /\ page' = 1
  /\ UNCHANGED <<cur, job, home, dead, corpse, revived>>

Open ==
  /\ at = "open" /\ at' = "publish" /\ up' = up \cup {cur}
  /\ resists' \in {resists, resists \cup ({cur} \cap Stdio)}
  /\ UNCHANGED <<turn, nth, cur, job, page, servers, registry, killed, permit,
                 poisoned, watch, done>>

OpenFails ==
  at = "open" /\ ConnectFails /\ UNCHANGED <<turn, registry, watch, done>>

\* ConnectKill::publish stores the handle, then reads the expired flag.
Publish ==
  /\ at = "publish" /\ at' = "recheck" /\ handle' = handle \cup {cur}
  /\ UNCHANGED <<turn, nth, cur, job, page, servers, slots, marked, wires,
                 watch, done>>

\* Mutant of AlreadyExpired: the flag is not read again.
AlreadyExpiredIgnored == FALSE
AlreadyExpired == cur \in marked

Recheck ==
  /\ at = "recheck"
  /\ at' = IF cur \in Sse THEN "get" ELSE "entry"
  /\ job' = "init"
  /\ IF AlreadyExpired THEN Kill(cur) ELSE UNCHANGED wires
  /\ UNCHANGED <<turn, nth, cur, page, servers, registry, watch, done>>

\* The event stream's GET and its first event, each raced with the stop.
StreamStep ==
  /\ at \in {"get", "endpoint"}
  /\ at' = IF at = "get" THEN "endpoint" ELSE "entry"
  /\ UNCHANGED <<turn, nth, cur, job, page, servers, registry, wires, watch,
                 done>>

StreamFails ==
  /\ at \in {"get", "endpoint"} /\ ConnectFails
  /\ UNCHANGED <<turn, registry, watch, done>>

StreamWoken == cur \in permit /\ StreamFails
-----------------------------------------------------------------------------
(***************************************************************************)
(* One request and its response, for a connect or for a call.              *)
(***************************************************************************)
MorePages == page < PageCap

\* What an answer leads to; list_tools follows the cursors to the last page.
Answered ==
  \/ job = "init" /\ at' = "ack" /\ UNCHANGED <<nth, cur, job, page, servers>>
  \/ /\ job = "list" /\ MorePages /\ at' = "entry" /\ page' = page + 1
     /\ UNCHANGED <<nth, cur, job, servers>>
  \/ /\ job = "list" /\ at' = "gap" /\ nth' = nth + 1 /\ page' = 1
     /\ record' = [record EXCEPT ![cur] = "connected"]
     /\ home' = home \cup {cur}
     /\ UNCHANGED <<cur, job, dead, corpse, revived>>
  \/ /\ job = "call" /\ at' = "free" /\ home' = home \cup {cur}
     /\ revived' = (revived \/ corpse) /\ corpse' = FALSE
     /\ UNCHANGED <<nth, cur, job, page, record, dead>>

\* A request that ends without its answer, its stream broken or its wake heard.
\* The transport's death (ServerClosed, a broken pipe) is latched by route.
Fails(death, broken, heard) ==
  \/ /\ job = "call" /\ at' = "free" /\ home' = home \cup {cur}
     /\ dead' = (IF death THEN dead \cup {cur} ELSE dead) /\ corpse' = FALSE
     /\ poisoned' = poisoned \cup (broken \cap Sse) /\ permit' = permit \ heard
     /\ UNCHANGED <<nth, cur, job, page, record, revived, up, killed, resists>>
  \/ job # "call" /\ ConnectFails

\* A stream's client refuses a request once it is stopped or poisoned.
Entry ==
  /\ at = "entry"
  /\ IF Stopped(cur) \/ cur \in poisoned
     THEN Fails(TRUE, {}, {})
     ELSE at' = "post" /\ UNCHANGED <<nth, cur, job, page, servers, wires>>
  /\ UNCHANGED <<turn, registry, watch, done>>

Posted ==
  /\ at = "post"
  /\ at' = IF cur \in Sse THEN "check" ELSE "read"
  /\ UNCHANGED <<turn, nth, cur, job, page, servers, registry, wires, watch,
                 done>>

\* The write meets a broken pipe; the POST is refused or not acknowledged.
PostFails ==
  /\ at = "post" /\ Fails(cur \in Stdio, {}, {})
  /\ UNCHANGED <<turn, registry, watch, done>>

\* A stream's client looks at the stop flag before each park.
Check ==
  /\ at = "check"
  /\ IF Stopped(cur)
     THEN Fails(TRUE, {}, {})
     ELSE at' = "read" /\ UNCHANGED <<nth, cur, job, page, servers, wires>>
  /\ UNCHANGED <<turn, registry, watch, done>>

Answer ==
  /\ at = "read" /\ ~Severed(cur) /\ Answered
  /\ UNCHANGED <<turn, registry, wires, watch, done>>

\* tools/list still carries a cursor on the last page that is allowed.
TooManyPages ==
  /\ at = "read" /\ job = "list" /\ ~MorePages /\ ~Severed(cur)
  /\ ConnectFails /\ UNCHANGED <<turn, registry, watch, done>>

\* An event that is not the response; the loop goes round.
OtherEvent ==
  /\ at = "read" /\ cur \in Sse /\ at' = "check"
  /\ UNCHANGED <<turn, nth, cur, job, page, servers, registry, wires, watch,
                 done>>

\* The server's own error, a frame that cannot be read, or too many tools.
ReadFails ==
  /\ at = "read" /\ \E broken \in {{}, {cur}} : Fails(FALSE, broken, {})
  /\ UNCHANGED <<turn, registry, watch, done>>

\* End of file: the server, or its kill, has closed the connection.
ReadEnds ==
  /\ at = "read" /\ Fails(TRUE, {cur}, {})
  /\ UNCHANGED <<turn, registry, watch, done>>

\* The stop's wake, raced with the POST and with every read.
RequestWoken ==
  /\ at \in {"post", "read"} /\ cur \in permit /\ Fails(TRUE, {}, {cur})
  /\ UNCHANGED <<turn, registry, watch, done>>

\* notifications/initialized: not raced with the stop, no answer awaited.
Acked ==
  /\ at = "ack" /\ at' = "entry" /\ job' = "list"
  /\ UNCHANGED <<turn, nth, cur, page, servers, registry, wires, watch, done>>

AckFails ==
  at = "ack" /\ ConnectFails /\ UNCHANGED <<turn, registry, watch, done>>
-----------------------------------------------------------------------------
(***************************************************************************)
(* with_deadline: the budget runs out on a parked request, the kill fires, *)
(* and the request has a short grace to unwind.                            *)
(***************************************************************************)
BudgetEnds ==
  /\ at \in Parked /\ cur \notin Untimed
  /\ marked' = IF job = "call" THEN marked ELSE marked \cup {cur}
  /\ Kill(cur) /\ at' = "grace"
  /\ UNCHANGED <<turn, nth, cur, job, page, servers, slots, handle, watch,
                 done>>

\* The request unwinds in the grace, and its outcome is discarded, or it is
\* dropped at the grace's end: for a server that outlives its kill, the latter.
GraceEnds ==
  /\ at = "grace"
  /\ \/ /\ job = "call" /\ at' = "free" /\ dead' = dead \cup {cur}
        /\ Drop({cur}) /\ corpse' = FALSE
        /\ UNCHANGED <<nth, cur, job, page, record, home, revived>>
     \/ job # "call" /\ ConnectFails
  /\ UNCHANGED <<turn, registry, watch, done>>
-----------------------------------------------------------------------------
(***************************************************************************)
(* The turn: its guard, its calls, its end.                                *)
(***************************************************************************)
\* The request in the word is cleared by the guard's birth and by its end.
ClearsRequest ==
  /\ req' = FALSE
  /\ wiped' = (wiped \/ /\ req /\ nth <= Len(Fleet)
                        /\ watcher \in {"locking", "pass", "fired"})

ConnectsDone ==
  /\ at = "gap" /\ nth > Len(Fleet) /\ at' = "free"
  /\ IF runtime = "builtin"
     THEN engine' = "serving" /\ ClearsRequest
     ELSE UNCHANGED <<engine, req, wiped>>
  /\ UNCHANGED <<runtime, nth, cur, job, page, servers, registry, wires,
                 watcher, todo, mark, done>>

EngineStep ==
  /\ runtime = "external" /\ engine # "after"
  /\ engine' = IF engine = "before" THEN "serving" ELSE "after"
  /\ ClearsRequest
  /\ UNCHANGED <<runtime, thread, servers, registry, wires, watcher, todo, mark,
                 done>>

\* route takes the client out of its slot; a dead server, or one without a
\* client, is refused at once.
Route(s) ==
  /\ at = "free" /\ record[s] = "connected" /\ s \notin dead /\ s \in home
  /\ home' = home \ {s} /\ cur' = s /\ job' = "call" /\ at' = "entry"
  /\ corpse' = (s \in killed \ resists)
  /\ UNCHANGED <<turn, nth, page, record, dead, revived, registry, wires, watch,
                 done>>

\* The built-in loop drops its guard, then the block drops the flag before the
\* fleet; the external serve drops the fleet first, then joins the engine.
LeaveTurn ==
  /\ at = "free"
  /\ IF runtime = "builtin"
     THEN at' = "flag" /\ engine' = "after" /\ ClearsRequest
     ELSE at' = "drop" /\ UNCHANGED <<engine, req, wiped>>
  /\ UNCHANGED <<runtime, nth, cur, job, page, servers, registry, wires,
                 watcher, todo, mark, done>>

StandDown ==
  /\ at = "flag" /\ done' = TRUE
  /\ at' = IF runtime = "builtin" THEN "drop" ELSE "over"
  /\ UNCHANGED <<turn, nth, cur, job, page, servers, registry, wires, watch>>

DropFleet ==
  /\ at = "drop" /\ Drop(up) /\ home' = {}
  /\ at' = IF runtime = "builtin" THEN "over" ELSE "join"
  /\ UNCHANGED <<turn, nth, cur, job, page, record, dead, corpse, revived,
                 registry, watch, done>>

JoinEngine ==
  /\ at = "join" /\ engine = "after" /\ at' = "flag"
  /\ UNCHANGED <<turn, nth, cur, job, page, servers, registry, wires, watch,
                 done>>
-----------------------------------------------------------------------------
(***************************************************************************)
(* The watcher of arm_cancel_teardown, and the user.                       *)
(***************************************************************************)
Glance ==
  /\ watcher = "poll" /\ watcher' = IF done THEN "stood" ELSE "look"
  /\ UNCHANGED <<turn, thread, servers, registry, wires, todo, mark, wiped,
                 done>>

Look ==
  /\ watcher = "look" /\ watcher' = IF req THEN "locking" ELSE "poll"
  /\ UNCHANGED <<turn, thread, servers, registry, wires, todo, mark, wiped,
                 done>>

Snapshot ==
  /\ watcher = "locking" /\ watcher' = "pass" /\ todo' = slots
  /\ UNCHANGED <<turn, thread, servers, registry, wires, mark, wiped, done>>

\* ConnectKill::expire sets the flag, then kills what it finds in the slot; the
\* pass takes the slots in the order of their registration.
ExpireMark(s) ==
  /\ watcher = "pass" /\ mark = None /\ s \in todo
  /\ \A t \in todo : Index(s) <= Index(t)
  /\ marked' = marked \cup {s} /\ mark' = s
  /\ UNCHANGED <<turn, thread, servers, slots, handle, wires, watcher, todo,
                 wiped, done>>

ExpireKill(s) ==
  /\ mark = s /\ mark' = None /\ todo' = todo \ {s}
  /\ IF s \in handle THEN Kill(s) ELSE UNCHANGED wires
  /\ UNCHANGED <<turn, thread, servers, registry, watcher, wiped, done>>

PassEnds ==
  /\ watcher = "pass" /\ todo = {} /\ mark = None /\ watcher' = "fired"
  /\ UNCHANGED <<turn, thread, servers, registry, wires, todo, mark, wiped,
                 done>>

\* The user's stop, or the watchdog's: the flag goes up.
Stop ==
  /\ at # "over" /\ ~req /\ req' = TRUE
  /\ UNCHANGED <<runtime, engine, thread, servers, registry, wires, watch,
                 done>>
-----------------------------------------------------------------------------
Watch ==
  \/ Glance \/ Look \/ Snapshot \/ PassEnds
  \/ \E s \in Servers : ExpireMark(s) \/ ExpireKill(s)

\* Steps the thread takes by itself.
Walk ==
  \/ Arm \/ Gap \/ Register \/ Open \/ Publish \/ Recheck \/ Entry \/ Check
  \/ ConnectsDone \/ StandDown \/ DropFleet \/ JoinEngine

\* What a server may do, and when.
Reply ==
  \/ StreamStep \/ Posted \/ Answer \/ TooManyPages \/ OtherEvent \/ Acked
  \/ ReadFails \/ OpenFails

\* Waits that carry a bound of their own: the GET, the endpoint event, the
\* acknowledgements and every HTTP read.
BoundedWait ==
  \/ StreamFails \/ AckFails \/ PostFails
  \/ (cur \in Http /\ ReadEnds)

\* A kill that reaches the parked request.
KillLands == StreamWoken \/ RequestWoken \/ (Severed(cur) /\ ReadEnds)

AtRest ==
  /\ at = "over" /\ watcher \in {"stood", "fired", "failed"}
  /\ UNCHANGED vars

Next ==
  \/ Walk \/ Reply \/ BoundedWait \/ KillLands \/ ReadEnds
  \/ BudgetEnds \/ GraceEnds
  \/ EngineStep \/ (\E s \in Servers : Route(s)) \/ LeaveTurn
  \/ Watch \/ Stop \/ AtRest

Spec == Init /\ [][Next]_vars

(***************************************************************************)
(* Both threads run.  A wait with a bound ends, an elapsed budget stays    *)
(* elapsed and is polled at every park, and a kill that landed is noticed; *)
(* a silent server owes nothing, and neither does the engine.              *)
(***************************************************************************)
Fairness ==
  /\ WF_vars(Walk) /\ WF_vars(Watch) /\ WF_vars(BoundedWait)
  /\ WF_vars(KillLands) /\ WF_vars(GraceEnds) /\ SF_vars(BudgetEnds)

FairSpec == Spec /\ Fairness
-----------------------------------------------------------------------------
TypeOK ==
  /\ runtime \in Runtimes /\ req \in BOOLEAN
  /\ engine \in {"before", "serving", "after"}
  /\ at \in Places \cup {"arming", "gap", "keys", "open", "publish", "recheck",
                         "free", "flag", "drop", "join", "over"}
  /\ nth \in 1 .. Len(Fleet) + 1 /\ cur \in Servers \cup {None}
  /\ job \in {"init", "list", "call"} /\ page \in 1 .. PageCap
  /\ record \in [Servers -> {"none", "skipped", "failed", "connected"}]
  /\ home \subseteq Servers /\ dead \subseteq Servers
  /\ corpse \in BOOLEAN /\ revived \in BOOLEAN
  /\ slots \subseteq Servers /\ marked \subseteq Servers
  /\ handle \subseteq Servers /\ up \subseteq Servers
  /\ killed \subseteq Killable /\ permit \subseteq Sse
  /\ poisoned \subseteq Sse /\ resists \subseteq Stdio
  /\ watcher \in {"unarmed", "failed", "poll", "look", "locking", "pass",
                  "fired", "stood"}
  /\ todo \subseteq Servers /\ mark \in Servers \cup {None}
  /\ done \in BOOLEAN /\ wiped \in BOOLEAN

\* Whichever of the two comes first, the connect that publishes its handle or
\* the side that expires the slot (ConnectKill), the transport is killed: no
\* expired slot keeps a live handle once both are through with it.
ExpiredMeansKilled ==
  \A s \in marked \cap handle \cap up \cap Killable :
    \/ s \in killed \/ mark = s
    \/ cur = s /\ at = "recheck"

\* "Covers at most one server per fire" (aggregator.rs): once the watcher has
\* fired, at most one transport is alive that no kill has reached, unless the
\* external engine cleared the very stop while the connects went on.
Live == {s \in up \cap Killable : s \notin killed}
OneMissedPerFire ==
  watcher = "fired" /\ ~wiped => \A s, t \in Live : s = t

\* A call that begins on a transport already killed never returns an answer,
\* though the stream may still be open and the answer on its way.
KilledStaysKilled == ~revived

\* No wait is for ever: a request to a server with a budget ends, also when
\* the server outlives its kill; and in a built-in turn a stop ends a request
\* to any server that its kill can reach, with a budget or without, as long as
\* the watcher has not fired yet.
WaitsEnd ==
  \/ at \in Places /\ cur \notin Untimed
  \/ /\ at \in Places /\ cur \in Killable \ resists
     /\ runtime = "builtin" /\ req
     /\ watcher \in {"poll", "look", "locking", "pass"}
  ~> at \notin Places

\* While the turn is in flight nothing takes a stop back.
StopStands ==
  [][engine = "serving" /\ req /\ engine' = "serving" => req']_vars
=============================================================================
