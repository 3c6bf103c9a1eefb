-------------------------- MODULE SessionLifecycle --------------------------
(***************************************************************************)
(* Sessions and the recipes they write: the store of live handles, the     *)
(* process-wide set of held recipe keys, and the commands that create,     *)
(* close, resume, rename and delete sessions while turns and edits run.    *)
(*                                                                         *)
(* A command that found its session keeps a reference to the handle until  *)
(* it returns; the Session is dropped with the last reference and gives    *)
(* its key back only then.  A command that is refused at its first check   *)
(* changes nothing and is not modelled as started.  Every command runs     *)
(* once, so the sets of them bound the model.                              *)
(***************************************************************************)
EXTENDS Naturals, FiniteSets

CONSTANTS
    Sids,          \* session ids; the fresh directory of s is path s
    Stored,        \* recipes earlier runs of the app left behind
    Asks, Edits,   \* turns; other commands that change and save a session
    Closes,        \* close_session calls
    Deletes,       \* the shell's delete: close-and-wait if open, then delete
    Opens,         \* open_recipe calls
    Renames,       \* renames of a session that is not open
    NoOne,
    ShellGuards,   \* TRUE: commands come from the shell and obey its gates
    LateFailures   \* TRUE: a resume may fail after its session took the key

Paths == Sids \cup Stored
Channels == Sids \cup Opens
Commands == Asks \cup Edits \cup Closes \cup Deletes \cup Opens \cup Renames

ASSUME GuardAssumption == ShellGuards \in BOOLEAN /\ LateFailures \in BOOLEAN
ASSUME NoOneAssumption == NoOne \notin Paths \cup Channels \cup Commands
\* A new session's id, and with it its directory, is fresh.
ASSUME FreshAssumption == Sids \cap Stored = {}
ASSUME KindAssumption ==
    /\ Sids \cap Commands = {}
    /\ Asks \cap (Edits \cup Closes \cup Deletes \cup Opens \cup Renames) = {}
    /\ Edits \cap (Closes \cup Deletes \cup Opens \cup Renames) = {}
    /\ Closes \cap (Deletes \cup Opens \cup Renames) = {}
    /\ Deletes \cap (Opens \cup Renames) = {} /\ Opens \cap Renames = {}

VARIABLES
    map,        \* the ids in the session store
    slot,       \* the drop-signal receiver in each handle, or NoOne
    closing, cancelled, resuming, inFlight,  \* the handles' flags, as id sets
    lock,       \* the holder of each session Mutex, or NoOne
    stage,      \* the life of each Session object
    bound,      \* the recipe it is bound to
    used,       \* the sessions with a non-empty timeline
    sender,     \* the drop signal it carries
    held,       \* the registry of held recipe keys
    file,       \* each session directory
    signals,    \* the drop signals sent
    pc, tgt, path,  \* where each command is, its session and its recipe
    rx,         \* the receiver a delete waits on, or NoOne
    spare,      \* the directory a close or an open has decided to remove
    result

handles == <<map, slot, closing>>
flags == <<cancelled, resuming, inFlight, lock>>
sessions == <<stage, bound, used, sender>>
disk == <<held, file, signals>>
locals == <<tgt, path, rx, spare, result>>
vars == <<handles, flags, sessions, disk, pc, locals>>

Goto(c, label) == pc' = [pc EXCEPT ![c] = label]
Busy(c) == pc[c] \notin {"idle", "done"}

\* Plausible bug: a close lets its handle go before it removes the directory.
HoldsUntilDetached(c) ==
    Busy(c) /\ c \notin Renames
            /\ pc[c] \notin {"cleaning", "waiting", "deleting", "erasing", "freeing"}

\* The command holds a strong reference to its session's handle.
Holds(c) == Busy(c) /\ c \notin Renames
            /\ pc[c] \notin {"waiting", "deleting", "erasing", "freeing"}

\* The phases of an open in which the session it builds owns the recipe.
Resumed == {"reading", "adopted", "rearming", "swapping", "installing"}

\* Whoever may write the recipe at p: a session, a command acting for one.
Writers(p) ==
    {s \in Sids : /\ stage[s] = "live" /\ bound[s] = p
                  /\ ~\E o \in Opens : tgt[o] = s /\ pc[o] = "installing"}
    \cup {o \in Opens : path[o] = p /\ pc[o] \in Resumed}
    \cup {d \in Deletes : path[d] = p /\ pc[d] \in {"erasing", "freeing"}}
    \cup {r \in Renames : path[r] = p /\ pc[r] = "renaming"}
-----------------------------------------------------------------------------
Init ==
    /\ map = {} /\ slot = [s \in Sids |-> NoOne] /\ closing = {}
    /\ cancelled = {} /\ resuming = {} /\ inFlight = {}
    /\ lock = [s \in Sids |-> NoOne]
    /\ stage = [s \in Sids |-> "none"] /\ bound = [s \in Sids |-> s]
    /\ used = {} /\ sender = [s \in Sids |-> s]
    /\ held = {} /\ signals = {}
    /\ file = [p \in Paths |-> IF p \in Stored THEN "recorded" ELSE "absent"]
    /\ pc = [c \in Commands |-> "idle"]
    /\ tgt = [c \in Commands |-> NoOne] /\ path = [c \in Commands |-> NoOne]
    /\ rx = [d \in Deletes |-> NoOne]
    /\ spare = [c \in Closes \cup Opens |-> NoOne]
    /\ result = [c \in Asks \cup Deletes |-> "none"]
-----------------------------------------------------------------------------
(***************************************************************************)
(* The shell: its busy flag is up while an open or a delete runs and shuts *)
(* the controls that start closes and file operations; an open goes into a *)
(* session just created for it, and only for a recipe that is not open.    *)
(* A rename does not raise the flag.                                       *)
(***************************************************************************)
ShellIdle == ShellGuards => \A c \in Opens \cup Deletes : ~Busy(c)
NotOpenInShell(p) == ShellGuards => \A s \in map : bound[s] # p
Fresh(s) == ShellGuards => s \notin used /\ \A c \in Commands : tgt[c] # s
Shown(s) == ShellGuards => \A o \in Opens : tgt[o] = s => pc[o] = "done"

\* create_session: the id is told to nobody before the recipe is bound.
CreateSession(s) ==
    /\ stage[s] = "none"
    /\ ShellIdle
    /\ map' = map \cup {s} /\ slot' = [slot EXCEPT ![s] = s]
    /\ stage' = [stage EXCEPT ![s] = "live"]
    /\ held' = held \cup {s} /\ file' = [file EXCEPT ![s] = "empty"]
    /\ UNCHANGED <<closing, flags, bound, used, sender, signals, pc, locals>>

\* A command looks its session up and keeps the handle it got.
Lookup(c, s, label) ==
    /\ pc[c] = "idle" /\ s \in map
    /\ tgt' = [tgt EXCEPT ![c] = s]
    /\ Goto(c, label)
    /\ UNCHANGED <<handles, flags, sessions, disk, rx, spare, result>>

Return(c) == Goto(c, "done")
-----------------------------------------------------------------------------
(***************************************************************************)
(* ask and the other commands that change a session and save its recipe.   *)
(***************************************************************************)
Save(s) == file' = [file EXCEPT ![bound[s]] =
                      IF @ = "absent" THEN "absent" ELSE "recorded"]

AskStart(a, s) ==
    /\ s \notin resuming \cup inFlight /\ Shown(s)
    /\ Lookup(a, s, "queued")
    /\ UNCHANGED path

AskLock(a) ==
    /\ pc[a] = "queued" /\ lock[tgt[a]] = NoOne
    /\ lock' = [lock EXCEPT ![tgt[a]] = a]
    /\ Goto(a, "connecting")
    /\ UNCHANGED <<handles, cancelled, resuming, inFlight, sessions, disk,
                   locals>>

\* begin_turn wipes a cancel that arrived before the turn began.
AskBegin(a) ==
    /\ pc[a] = "connecting"
    /\ inFlight' = inFlight \cup {tgt[a]}
    /\ cancelled' = cancelled \ {tgt[a]}
    /\ Goto(a, "running")
    /\ UNCHANGED <<handles, resuming, lock, sessions, disk, locals>>

AskVerdict(a) ==
    /\ pc[a] = "running"
    /\ result' = [result EXCEPT
                    ![a] = IF tgt[a] \in cancelled THEN "Cancelled" ELSE "Reply"]
    /\ Goto(a, "judged")
    /\ UNCHANGED <<handles, flags, sessions, disk, tgt, path, rx, spare>>

\* The post-turn check: a session marked closing discards the turn.
AskCheck(a) ==
    /\ pc[a] = "judged"
    /\ Goto(a, IF tgt[a] \in closing THEN "leaving" ELSE "recording")
    /\ UNCHANGED <<handles, flags, sessions, disk, locals>>

AskRecord(a) ==
    /\ pc[a] = "recording"
    /\ used' = used \cup {tgt[a]}
    /\ Save(tgt[a])
    /\ Goto(a, "leaving")
    /\ UNCHANGED <<handles, flags, stage, bound, sender, held, signals, locals>>

AskLeave(a) ==
    /\ pc[a] = "leaving"
    /\ inFlight' = inFlight \ {tgt[a]}
    /\ cancelled' = cancelled \ {tgt[a]}
    /\ lock' = [lock EXCEPT ![tgt[a]] = NoOne]
    /\ Return(a)
    /\ UNCHANGED <<handles, resuming, sessions, disk, locals>>

EditStart(e, s) ==
    /\ s \notin resuming /\ Shown(s)
    /\ Lookup(e, s, "queued")
    /\ UNCHANGED path

EditApply(e) ==
    /\ pc[e] = "queued" /\ lock[tgt[e]] = NoOne
    /\ used' = used \cup {tgt[e]}
    /\ Save(tgt[e])
    /\ Return(e)
    /\ UNCHANGED <<handles, flags, stage, bound, sender, held, signals, locals>>
-----------------------------------------------------------------------------
(***************************************************************************)
(* detach, shared by both closes: mark closing, fire cancel, leave the map.*)
(***************************************************************************)
Detachers == Closes \cup Deletes

DetachMark(c) ==
    /\ pc[c] = "marking"
    /\ IF tgt[c] \in map
         THEN closing' = closing \cup {tgt[c]} /\ Goto(c, "firing")
         ELSE UNCHANGED closing /\ Return(c)
    /\ UNCHANGED <<map, slot, flags, sessions, disk, locals>>

DetachFire(c) ==
    /\ pc[c] = "firing"
    /\ cancelled' = cancelled \cup {tgt[c]}
    /\ Goto(c, "detaching")
    /\ UNCHANGED <<handles, resuming, inFlight, lock, sessions, disk, locals>>

\* Plausible bug: a detach that leaves the entry in the map.
DetachRemoveKeepsEntry(c) ==
    /\ pc[c] = "detaching"
    /\ Goto(c, IF c \in Closes THEN "cleaning" ELSE "taking")
    /\ UNCHANGED <<handles, flags, sessions, disk, locals>>

DetachRemove(c) ==
    /\ pc[c] = "detaching"
    /\ map' = map \ {tgt[c]}
    /\ Goto(c, IF c \in Closes THEN "cleaning" ELSE "taking")
    /\ UNCHANGED <<slot, closing, flags, sessions, disk, locals>>

CloseStart(c, s) ==
    /\ ShellIdle
    /\ Lookup(c, s, "peeking")
    /\ UNCHANGED path

\* An empty session's directory is picked for removal if its lock is free.
ClosePeek(c) ==
    /\ pc[c] = "peeking"
    /\ spare' = [spare EXCEPT
                   ![c] = IF lock[tgt[c]] = NoOne /\ tgt[c] \notin used
                            THEN bound[tgt[c]] ELSE NoOne]
    /\ Goto(c, "marking")
    /\ UNCHANGED <<handles, flags, sessions, disk, tgt, path, rx, result>>

CloseClean(c) ==
    /\ pc[c] = "cleaning"
    /\ file' = [p \in Paths |-> IF p = spare[c] THEN "absent" ELSE file[p]]
    /\ Return(c)
    /\ UNCHANGED <<handles, flags, sessions, held, signals, locals>>

(***************************************************************************)
(* The last reference is gone: Session's drop releases the key, then sends *)
(* the signal, and only then are its fields dropped, the engine and the    *)
(* companion database it keeps open among them.                            *)
(***************************************************************************)
Unreferenced(s) == s \notin map /\ ~\E c \in Commands : tgt[c] = s /\ Holds(c)

DropRelease(s) ==
    /\ stage[s] = "live" /\ Unreferenced(s)
    /\ held' = held \ {bound[s]}
    /\ stage' = [stage EXCEPT ![s] = "released"]
    /\ UNCHANGED <<handles, flags, bound, used, sender, file, signals, pc, locals>>

DropSignal(s) ==
    /\ stage[s] = "released"
    /\ signals' = signals \cup {sender[s]}
    /\ stage' = [stage EXCEPT ![s] = "signalled"]
    /\ UNCHANGED <<handles, flags, bound, used, sender, held, file, pc, locals>>

DropFields(s) ==
    /\ stage[s] = "signalled"
    /\ stage' = [stage EXCEPT ![s] = "gone"]
    /\ UNCHANGED <<handles, flags, bound, used, sender, disk, pc, locals>>
-----------------------------------------------------------------------------
(***************************************************************************)
(* The delete of a session that is open waits for its key first.           *)
(***************************************************************************)
DeleteOpenSession(d, s) ==
    /\ ShellIdle
    /\ Lookup(d, s, "marking")
    /\ path' = [path EXCEPT ![d] = bound[s]]

DeleteClosed(d, p) ==
    /\ pc[d] = "idle" /\ ShellIdle /\ NotOpenInShell(p)
    /\ path' = [path EXCEPT ![d] = p]
    /\ Goto(d, "deleting")
    /\ UNCHANGED <<handles, flags, sessions, disk, tgt, rx, spare, result>>

\* A receiver is taken once: a second waiter on the same handle is refused.
WaitTake(d) ==
    /\ pc[d] = "taking"
    /\ rx' = [rx EXCEPT ![d] = slot[tgt[d]]]
    /\ slot' = [slot EXCEPT ![tgt[d]] = NoOne]
    /\ Goto(d, IF slot[tgt[d]] = NoOne THEN "done" ELSE "waiting")
    /\ UNCHANGED <<map, closing, flags, sessions, disk, tgt, path, spare, result>>

WaitSignalled(d) ==
    /\ pc[d] = "waiting" /\ rx[d] \in signals
    /\ Goto(d, "deleting")
    /\ UNCHANGED <<handles, flags, sessions, disk, locals>>

\* After two minutes the delete is given up.
WaitTimeout(d) ==
    /\ pc[d] = "waiting" /\ rx[d] \notin signals
    /\ Return(d)
    /\ UNCHANGED <<handles, flags, sessions, disk, locals>>

\* A directory that is gone counts as deleted; a held key is a conflict.
DeleteAcquire(d) ==
    /\ pc[d] = "deleting"
    /\ \/ /\ file[path[d]] = "absent"
          /\ Return(d)
          /\ UNCHANGED <<held, result>>
       \/ /\ file[path[d]] # "absent" /\ path[d] \in held
          /\ result' = [result EXCEPT ![d] = "conflict"]
          /\ Return(d)
          /\ UNCHANGED held
       \/ /\ file[path[d]] # "absent" /\ path[d] \notin held
          /\ held' = held \cup {path[d]}
          /\ Goto(d, "erasing")
          /\ UNCHANGED result
    /\ UNCHANGED <<handles, flags, sessions, file, signals, tgt, path, rx, spare>>

DeleteErase(d) ==
    /\ pc[d] = "erasing"
    /\ file' = [file EXCEPT ![path[d]] = "absent"]
    /\ Goto(d, "freeing")
    /\ UNCHANGED <<handles, flags, sessions, held, signals, locals>>

DeleteRelease(d) ==
    /\ pc[d] = "freeing"
    /\ held' = held \ {path[d]}
    /\ Return(d)
    /\ UNCHANGED <<handles, flags, sessions, file, signals, locals>>

(***************************************************************************)
(* The rename of a session that is not open.                               *)
(***************************************************************************)
RenameStart(r, p) ==
    /\ pc[r] = "idle" /\ ShellIdle /\ NotOpenInShell(p)
    /\ path' = [path EXCEPT ![r] = p]
    /\ Goto(r, "requested")
    /\ UNCHANGED <<handles, flags, sessions, disk, tgt, rx, spare, result>>

\* Plausible bug: a rename that does not ask the registry.
RenameAcquireUnchecked(r) ==
    /\ pc[r] = "requested"
    /\ IF file[path[r]] = "absent"
         THEN Return(r) /\ UNCHANGED held
         ELSE Goto(r, "renaming") /\ held' = held \cup {path[r]}
    /\ UNCHANGED <<handles, flags, sessions, file, signals, locals>>

RenameAcquire(r) ==
    /\ pc[r] = "requested"
    /\ IF file[path[r]] = "absent" \/ path[r] \in held
         THEN Return(r) /\ UNCHANGED held
         ELSE Goto(r, "renaming") /\ held' = held \cup {path[r]}
    /\ UNCHANGED <<handles, flags, sessions, file, signals, locals>>

\* The header is rewritten and the key given back.
RenameRelease(r) ==
    /\ pc[r] = "renaming"
    /\ held' = held \ {path[r]}
    /\ Return(r)
    /\ UNCHANGED <<handles, flags, sessions, file, signals, locals>>
-----------------------------------------------------------------------------
(***************************************************************************)
(* open_recipe: build a session from the recipe at p, then make it the     *)
(* content of handle s.                                                    *)
(***************************************************************************)
OpenStart(o, s, p) ==
    /\ ShellIdle /\ Fresh(s) /\ NotOpenInShell(p)
    /\ s \notin resuming \cup inFlight
    /\ Lookup(o, s, "resolved")
    /\ path' = [path EXCEPT ![o] = p]

\* The flag is set after the check that found it clear.
OpenMark(o) ==
    /\ pc[o] = "resolved"
    /\ resuming' = resuming \cup {tgt[o]}
    /\ Goto(o, "acquiring")
    /\ UNCHANGED <<handles, cancelled, inFlight, lock, sessions, disk, locals>>

\* The key, then begin_turn on the handle's token.
OpenAcquire(o) ==
    /\ pc[o] = "acquiring"
    /\ IF file[path[o]] = "absent" \/ path[o] \in held
         THEN Goto(o, "ending") /\ UNCHANGED <<held, inFlight, cancelled>>
         ELSE /\ Goto(o, "reading")
              /\ held' = held \cup {path[o]}
              /\ inFlight' = inFlight \cup {tgt[o]}
              /\ cancelled' = cancelled \ {tgt[o]}
    /\ UNCHANGED <<handles, resuming, lock, sessions, file, signals, locals>>

EndTurn(s) == inFlight' = inFlight \ {s} /\ cancelled' = cancelled \ {s}

\* An unreadable recipe: the registry guard gives the key back.
OpenFailsEarly(o) ==
    /\ pc[o] = "reading"
    /\ EndTurn(tgt[o])
    /\ held' = held \ {path[o]}
    /\ Goto(o, "ending")
    /\ UNCHANGED <<handles, resuming, lock, sessions, file, signals, locals>>

\* adopt_resumed: the new session's own drop will release the key from here on.
OpenAdopt(o) ==
    /\ pc[o] = "reading"
    /\ Goto(o, "adopted")
    /\ UNCHANGED <<handles, flags, sessions, disk, locals>>

\* A failed or cancelled replay drops the new session, which releases the key.
OpenFailsLate(o) ==
    /\ pc[o] = "adopted" /\ LateFailures
    /\ held' = held \ {path[o]}
    /\ Goto(o, "unwinding")
    /\ UNCHANGED <<handles, flags, sessions, file, signals, locals>>

\* Then the registry guard, declared before it, releases the same key again.
OpenUnwind(o) ==
    /\ pc[o] = "unwinding"
    /\ EndTurn(tgt[o])
    /\ held' = held \ {path[o]}
    /\ Goto(o, "ending")
    /\ UNCHANGED <<handles, resuming, lock, sessions, file, signals, locals>>

OpenSucceeds(o) ==
    /\ pc[o] = "adopted"
    /\ EndTurn(tgt[o])
    /\ Goto(o, "rearming")
    /\ UNCHANGED <<handles, resuming, lock, sessions, disk, locals>>

OpenRearm(o) ==
    /\ pc[o] = "rearming"
    /\ slot' = [slot EXCEPT ![tgt[o]] = o]
    /\ Goto(o, "swapping")
    /\ UNCHANGED <<map, closing, flags, sessions, disk, locals>>

\* Under the session lock the old content is noted and dropped, its key first.
OpenSwap(o) ==
    /\ pc[o] = "swapping" /\ lock[tgt[o]] = NoOne
    /\ lock' = [lock EXCEPT ![tgt[o]] = o]
    /\ spare' = [spare EXCEPT
                   ![o] = IF tgt[o] \notin used THEN bound[tgt[o]] ELSE NoOne]
    /\ held' = held \ {bound[tgt[o]]}
    /\ Goto(o, "installing")
    /\ UNCHANGED <<handles, cancelled, resuming, inFlight, sessions, file,
                   signals, tgt, path, rx, result>>

OpenInstall(o) ==
    /\ pc[o] = "installing"
    /\ signals' = signals \cup {sender[tgt[o]]}
    /\ bound' = [bound EXCEPT ![tgt[o]] = path[o]]
    /\ sender' = [sender EXCEPT ![tgt[o]] = o]
    /\ used' = IF file[path[o]] = "recorded" THEN used \cup {tgt[o]}
                                             ELSE used \ {tgt[o]}
    /\ lock' = [lock EXCEPT ![tgt[o]] = NoOne]
    /\ Goto(o, "tidying")
    /\ UNCHANGED <<handles, cancelled, resuming, inFlight, stage, held, file,
                   locals>>

\* The directory the fresh session left behind goes if nothing was recorded.
OpenTidy(o) ==
    /\ pc[o] = "tidying"
    /\ file' = [p \in Paths |-> IF p = spare[o] THEN "absent" ELSE file[p]]
    /\ Goto(o, "ending")
    /\ UNCHANGED <<handles, flags, sessions, held, signals, locals>>

\* Plausible bug: the resume flag is cleared on the success path only.
OpenEndOnSuccess(o) ==
    /\ pc[o] = "ending"
    /\ resuming' = IF bound[tgt[o]] = path[o] THEN resuming \ {tgt[o]} ELSE resuming
    /\ Return(o)
    /\ UNCHANGED <<handles, cancelled, inFlight, lock, sessions, disk, locals>>

OpenEnd(o) ==
    /\ pc[o] = "ending"
    /\ resuming' = resuming \ {tgt[o]}
    /\ Return(o)
    /\ UNCHANGED <<handles, cancelled, inFlight, lock, sessions, disk, locals>>
-----------------------------------------------------------------------------
AskProceeds(a) == AskLock(a) \/ AskCheck(a) \/ AskRecord(a) \/ AskLeave(a)
\* The connects and the turn's run end when the servers and the provider say so.
AskStep(a) == AskProceeds(a) \/ AskBegin(a) \/ AskVerdict(a)
\* Plausible bug: the cancel fires before closing is marked.
DetachStepSwapped(c) ==
    \/ /\ pc[c] = "marking"
       /\ cancelled' = cancelled \cup {tgt[c]}
       /\ Goto(c, "firing")
       /\ UNCHANGED <<handles, resuming, inFlight, lock, sessions, disk, locals>>
    \/ /\ pc[c] = "firing"
       /\ closing' = closing \cup {tgt[c]}
       /\ Goto(c, "detaching")
       /\ UNCHANGED <<map, slot, flags, sessions, disk, locals>>
    \/ DetachRemove(c)
DetachStep(c) == DetachMark(c) \/ DetachFire(c) \/ DetachRemove(c)
CloseStep(c) == ClosePeek(c) \/ DetachStep(c) \/ CloseClean(c)
\* Plausible bug: the waiter is signalled before the key is released.
DropStepSignalFirst(s) ==
    \/ /\ stage[s] = "live" /\ Unreferenced(s) /\ sender[s] \notin signals
       /\ signals' = signals \cup {sender[s]}
       /\ UNCHANGED <<handles, flags, sessions, held, file, pc, locals>>
    \/ /\ stage[s] = "live" /\ Unreferenced(s) /\ sender[s] \in signals
       /\ held' = held \ {bound[s]}
       /\ stage' = [stage EXCEPT ![s] = "gone"]
       /\ UNCHANGED <<handles, flags, bound, used, sender, file, signals, pc, locals>>
DropStep(s) == DropRelease(s) \/ DropSignal(s) \/ DropFields(s)
DeleteStep(d) == \/ DetachStep(d) \/ WaitTake(d) \/ WaitSignalled(d)
                 \/ DeleteAcquire(d) \/ DeleteErase(d) \/ DeleteRelease(d)
RenameStep(r) == RenameAcquire(r) \/ RenameRelease(r)
OpenProceeds(o) ==
    \/ OpenMark(o) \/ OpenAcquire(o) \/ OpenFailsEarly(o) \/ OpenAdopt(o)
    \/ OpenUnwind(o) \/ OpenRearm(o) \/ OpenSwap(o) \/ OpenInstall(o)
    \/ OpenTidy(o) \/ OpenEnd(o)
\* The replay ends when its last query does.
OpenStep(o) == OpenProceeds(o) \/ OpenFailsLate(o) \/ OpenSucceeds(o)

\* No command is under way: the application waits for its user.
AtRest == (\A c \in Commands : ~Busy(c)) /\ UNCHANGED vars

Next ==
    \/ \E s \in Sids : CreateSession(s) \/ DropStep(s)
    \/ \E a \in Asks : AskStep(a) \/ \E s \in Sids : AskStart(a, s)
    \/ \E e \in Edits : EditApply(e) \/ \E s \in Sids : EditStart(e, s)
    \/ \E c \in Closes : CloseStep(c) \/ \E s \in Sids : CloseStart(c, s)
    \/ \E d \in Deletes :
         \/ DeleteStep(d) \/ WaitTimeout(d)
         \/ \E s \in Sids : DeleteOpenSession(d, s)
         \/ \E p \in Paths : DeleteClosed(d, p)
    \/ \E r \in Renames : RenameStep(r) \/ \E p \in Paths : RenameStart(r, p)
    \/ \E o \in Opens :
         OpenStep(o) \/ \E s \in Sids, p \in Paths : OpenStart(o, s, p)
    \/ AtRest

Spec == Init /\ [][Next]_vars

(***************************************************************************)
(* A started command runs on a thread of its own and the destructor runs   *)
(* to its end; nothing obliges the user to start one.  Nothing is assumed  *)
(* of the run of a turn, of the connects before it and of a replay, which  *)
(* wait for servers, providers, users and queries without a bound.         *)
(***************************************************************************)
Fairness ==
    /\ \A s \in Sids : WF_vars(DropStep(s))
    /\ \A a \in Asks : WF_vars(AskProceeds(a))
    /\ \A e \in Edits : WF_vars(EditApply(e))
    /\ \A c \in Closes : WF_vars(CloseStep(c))
    /\ \A d \in Deletes : WF_vars(DeleteStep(d))
    /\ \A r \in Renames : WF_vars(RenameStep(r))
    /\ \A o \in Opens : WF_vars(OpenProceeds(o))

FairSpec == Spec /\ Fairness
-----------------------------------------------------------------------------
\* Every variable stays in its domain; a waiting delete has a receiver.
TypeOK ==
    /\ map \subseteq Sids /\ slot \in [Sids -> Channels \cup {NoOne}]
    /\ closing \subseteq Sids /\ cancelled \subseteq Sids
    /\ resuming \subseteq Sids /\ inFlight \subseteq Sids
    /\ lock \in [Sids -> Asks \cup Opens \cup {NoOne}]
    /\ stage \in [Sids -> {"none", "live", "released", "signalled", "gone"}]
    /\ bound \in [Sids -> Paths] /\ used \subseteq Sids
    /\ sender \in [Sids -> Channels]
    /\ held \subseteq Paths /\ signals \subseteq Channels
    /\ file \in [Paths -> {"absent", "empty", "recorded"}]
    /\ tgt \in [Commands -> Sids \cup {NoOne}]
    /\ path \in [Commands -> Paths \cup {NoOne}]
    /\ rx \in [Deletes -> Channels \cup {NoOne}]
    /\ \A d \in Deletes : pc[d] = "waiting" => rx[d] # NoOne
    /\ spare \in [Closes \cup Opens -> Paths \cup {NoOne}]
    /\ result \in [Asks \cup Deletes -> {"none", "Cancelled", "Reply", "conflict"}]

\* The single-writer invariant: a recipe has at most one writer, and its key is
\* in the registry exactly while it has one.
SingleWriter ==
    \A p \in Paths :
        /\ \A v, w \in Writers(p) : v = w
        /\ p \in held <=> Writers(p) # {}

\* Closing is marked before the cancel fires, so a turn that ends because of a
\* close is never recorded in the timeline or in the recipe.
CloseDiscardsTurn ==
    \A a \in Asks : pc[a] = "recording" => result[a] # "Cancelled"

\* A delete whose close-wait has been answered finds the key free: the signal is
\* sent after the release, and nobody takes the key in between.
DeleteGateOpen ==
    \A d \in Deletes : rx[d] # NoOne => result[d] # "conflict"

\* A resume never reads the recipe while a session that is being dropped still
\* has that recipe's companion database open.
CompanionClosed ==
    \A o \in Opens, s \in Sids :
        ( /\ pc[o] \in {"reading", "adopted"} /\ bound[s] = path[o] /\ s \in used )
        => stage[s] \notin {"released", "signalled"}

\* The close of a session has reached its running turn: the turn is cancelled.
CloseReachesTurn ==
    \A a \in Asks :
        pc[a] = "running" /\ tgt[a] \in closing \ map => tgt[a] \in cancelled

\* What may be at work in session s without a bound: a turn with its connects,
\* and a replay.
Turning(s) == \E a \in Asks : tgt[a] = s /\ pc[a] \in {"connecting", "running"}
Replaying(s) == \E o \in Opens : tgt[o] = s /\ pc[o] = "adopted"

\* A closed session is dropped in the end, and its key with it, unless a turn or
\* a replay in it never ends: the close waits for it, and a cancel that the
\* close fired before the turn began does not reach it.
ClosedSessionGoes ==
    \A s \in Sids :
        s \in closing ~> stage[s] = "gone" \/ <>[](Turning(s) \/ Replaying(s))

\* A session does not keep refusing its commands because of a resume, unless
\* its replay goes on for ever.
ResumeEnds ==
    \A s \in Sids : s \in resuming ~> s \notin resuming \/ <>[]Replaying(s)

\* The registry and the commands around it implement one writer per recipe: a
\* recipe is changed and its directory erased only by its one writer, and the
\* directory a resume leaves behind only while it is empty and nobody's.
Recipes == INSTANCE PathWriters WITH
    Agents <- Sids \cup Commands,
    writers <- [p \in Paths |-> Writers(p)],
    file <- file

OneWriterPerRecipe == Recipes!Spec
=============================================================================
