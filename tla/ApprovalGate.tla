---------------------------- MODULE ApprovalGate ----------------------------
(***************************************************************************)
(* The approval gate of a session: a tool call that the policy does not    *)
(* pass shows a card and parks until the user answers it, the turn is      *)
(* stopped, the session is reset by a resume, or the external caller drops *)
(* the call.  The user's commands, the stops, the resets and the thread    *)
(* that reads the external runtime's echoes run beside the parked call.    *)
(*                                                                         *)
(* The calls of a session are serial, so one gate is open at a time; a     *)
(* command's check that no resume is running is not atomic with what it    *)
(* then does, so the commands here may run at any time.                    *)
(***************************************************************************)
CONSTANTS
    Tools,
    Builtin,    \* the tools that pass with no approval
    Calls,      \* tool calls, each made once
    Bridged,    \* those of an external runtime, which carry a call id
    Stops,      \* stop and close commands
    Resets,     \* resumes that put the policy back to its default
    NoCall

ASSUME BuiltinAssumption == Builtin \subseteq Tools
ASSUME BridgedAssumption == Bridged \subseteq Calls
ASSUME NoCallAssumption == NoCall \notin Calls

Modes == {"PerCall", "NoConfirmation"}
Responses == {"AllowOnce", "AlwaysAllow", "Deny"}
Actors == Stops \cup Resets

VARIABLES
    mode, trust,            \* the policy, under one lock
    slot, answer,           \* the pending slot and the response in it
    interrupted, abandoned, \* the two latches
    requested,              \* the cancel token's flag
    at, pc, heard, taken,   \* the call at the gate, and the gate's locals
    tool, outcome,          \* each call's tool and what the gate returned
    card,                   \* each call's card
    accepted,               \* the answer that respond took, for each call
    step,                   \* where each stop and reset is
    pump,                   \* the call whose echo was matched, or NoCall
    dropped,                \* the calls their caller was seen to drop
    woken                   \* history: calls hit by a latch while at the gate

policy == <<mode, trust>>
pending == <<slot, answer>>
latches == <<interrupted, abandoned>>
gate == <<at, pc, heard, taken>>
calls == <<tool, outcome, card>>
echoes == <<pump, dropped>>
vars == <<policy, pending, latches, requested, gate, calls, accepted, step,
          echoes, woken>>

\* classify: built-in, no-confirmation mode, or trusted for the session.
Allowed(t) == t \in Builtin \/ mode = "NoConfirmation" \/ t \in trust

\* The gate's result for an answer.
Verdict(r) == IF r = "Deny" THEN "Denied" ELSE "Allow"

Init ==
    /\ mode = "PerCall" /\ trust = {}
    /\ slot = NoCall /\ answer = "none"
    /\ interrupted = FALSE /\ abandoned = FALSE /\ requested = FALSE
    /\ at = NoCall /\ pc = "idle" /\ heard = "none" /\ taken = "none"
    /\ tool \in [Calls -> Tools]
    /\ outcome = [c \in Calls |-> "none"] /\ card = [c \in Calls |-> "none"]
    /\ accepted = [c \in Calls |-> "none"]
    /\ step = [a \in Actors |-> "idle"]
    /\ pump = NoCall /\ dropped = {} /\ woken = {}
-----------------------------------------------------------------------------
(***************************************************************************)
(* The gate.                                                               *)
(***************************************************************************)
Goto(label) == pc' = label

\* The policy is read under its lock; a call it passes never opens a gate.
Enter(c) ==
    /\ at = NoCall /\ outcome[c] = "none"
    /\ IF Allowed(tool[c])
         THEN outcome' = [outcome EXCEPT ![c] = "Allow"] /\ UNCHANGED <<at, pc>>
         ELSE at' = c /\ Goto("disarming") /\ UNCHANGED outcome
    /\ UNCHANGED <<policy, pending, latches, requested, heard, taken, tool, card,
                   accepted, step, echoes, woken>>

\* Plausible bug: the interrupt latch of an earlier gate is kept.
ClearInterruptedKeeps ==
    /\ pc = "disarming"
    /\ Goto("disarmed")
    /\ UNCHANGED <<policy, pending, latches, requested, at, heard, taken, calls,
                   accepted, step, echoes, woken>>

\* Latches left over from an earlier gate are cleared before the slot is filled.
ClearInterrupted ==
    /\ pc = "disarming"
    /\ interrupted' = FALSE
    /\ Goto("disarmed")
    /\ UNCHANGED <<policy, pending, abandoned, requested, at, heard, taken,
                   calls, accepted, step, echoes, woken>>

ClearAbandoned ==
    /\ pc = "disarmed"
    /\ abandoned' = FALSE
    /\ Goto("installing")
    /\ UNCHANGED <<policy, pending, interrupted, requested, at, heard, taken,
                   calls, accepted, step, echoes, woken>>

Install ==
    /\ pc = "installing"
    /\ slot' = at /\ answer' = "none"
    /\ Goto("announcing")
    /\ UNCHANGED <<policy, latches, requested, at, heard, taken, calls, accepted,
                   step, echoes, woken>>

EmitRequest ==
    /\ pc = "announcing"
    /\ card' = [card EXCEPT ![at] = "shown"]
    /\ Goto("waiting")
    /\ UNCHANGED <<policy, pending, latches, requested, at, heard, taken, tool,
                   outcome, accepted, step, echoes, woken>>

\* The wait, woken by a notification or by its 200 ms poll.
HearAnswer ==
    /\ pc = "waiting" /\ answer # "none"
    /\ heard' = answer
    /\ Goto("taking")
    /\ UNCHANGED <<policy, pending, latches, requested, at, taken, calls,
                   accepted, step, echoes, woken>>

\* Plausible bug: the poll reads the latches and not the token.
HearStopLatchOnly ==
    /\ pc = "waiting" /\ answer = "none"
    /\ interrupted \/ abandoned
    /\ Goto("taking")
    /\ UNCHANGED <<policy, pending, latches, requested, at, heard, taken, calls,
                   accepted, step, echoes, woken>>

HearStop ==
    /\ pc = "waiting" /\ answer = "none"
    /\ interrupted \/ abandoned \/ requested
    /\ Goto("taking")
    /\ UNCHANGED <<policy, pending, latches, requested, at, heard, taken, calls,
                   accepted, step, echoes, woken>>

\* The slot is emptied, and with it an answer that came after the wait ended.
TakeSlot ==
    /\ pc = "taking"
    /\ taken' = answer
    /\ slot' = NoCall /\ answer' = "none"
    /\ Goto("settling")
    /\ UNCHANGED <<policy, latches, requested, at, heard, calls, accepted, step,
                   echoes, woken>>

Leave(result) ==
    /\ outcome' = [outcome EXCEPT ![at] = result]
    /\ at' = NoCall /\ Goto("idle") /\ heard' = "none" /\ taken' = "none"

\* Plausible bug: an answer that came after the wait ended is lost.
LandedInWait == heard

Landed == IF heard # "none" THEN heard ELSE taken

\* Plausible bug: every allow is trusted, "allow once" too.
SettleAnsweredTrustsOnce ==
    /\ pc = "settling" /\ Landed # "none"
    /\ card' = [card EXCEPT ![at] = Landed]
    /\ IF Landed # "Deny"
         THEN Goto("trusting") /\ UNCHANGED <<outcome, at, heard, taken>>
         ELSE Leave(Verdict(Landed))
    /\ UNCHANGED <<policy, pending, latches, requested, tool, accepted, step,
                   echoes, woken>>

\* An answer that landed settles the card, "always allow" before it is trusted.
SettleAnswered ==
    /\ pc = "settling" /\ Landed # "none"
    /\ card' = [card EXCEPT ![at] = Landed]
    /\ IF Landed = "AlwaysAllow"
         THEN Goto("trusting") /\ UNCHANGED <<outcome, at, heard, taken>>
         ELSE Leave(Verdict(Landed))
    /\ UNCHANGED <<policy, pending, latches, requested, tool, accepted, step,
                   echoes, woken>>

SettleUnanswered ==
    /\ pc = "settling" /\ Landed = "none"
    /\ card' = [card EXCEPT ![at] = IF abandoned THEN "abandoned" ELSE "Deny"]
    /\ Leave("Cancelled")
    /\ UNCHANGED <<policy, pending, latches, requested, tool, accepted, step,
                   echoes, woken>>

Escalate ==
    /\ pc = "trusting"
    /\ trust' = trust \cup {tool[at]}
    /\ Leave("Allow")
    /\ UNCHANGED <<mode, pending, latches, requested, tool, card, accepted, step,
                   echoes, woken>>

\* The turn is over: its token's request is wiped.
EndTurn ==
    /\ at = NoCall /\ requested
    /\ requested' = FALSE
    /\ UNCHANGED <<policy, pending, latches, gate, calls, accepted, step, echoes,
                   woken>>
-----------------------------------------------------------------------------
(***************************************************************************)
(* The user's commands.                                                    *)
(***************************************************************************)
\* An answer lands in the slot of the request it names, once.
Respond(c, r) ==
    /\ card[c] # "none"
    /\ slot = c /\ answer = "none"
    /\ answer' = r
    /\ accepted' = [accepted EXCEPT ![c] = r]
    /\ UNCHANGED <<policy, slot, latches, requested, gate, calls, step, echoes,
                   woken>>

SetAuthMode(m) ==
    /\ mode # m /\ mode' = m
    /\ UNCHANGED <<trust, pending, latches, requested, gate, calls, accepted,
                   step, echoes, woken>>

Revoke(t) ==
    /\ t \in trust /\ trust' = trust \ {t}
    /\ UNCHANGED <<mode, pending, latches, requested, gate, calls, accepted,
                   step, echoes, woken>>

\* fire_cancel: the token first, then the gate's latch.
StopRequest(x) ==
    /\ step[x] = "idle"
    /\ requested' = TRUE
    /\ step' = [step EXCEPT ![x] = "interrupting"]
    /\ UNCHANGED <<policy, pending, latches, gate, calls, accepted, echoes, woken>>

\* reset: mode and trust under one lock, then the gate's latch.
ResetPolicy(z) ==
    /\ step[z] = "idle"
    /\ mode' = "PerCall" /\ trust' = {}
    /\ step' = [step EXCEPT ![z] = "interrupting"]
    /\ UNCHANGED <<pending, latches, requested, gate, calls, accepted, echoes,
                   woken>>

Wake == woken' = woken \cup ({at} \ {NoCall})

InterruptPending(a) ==
    /\ step[a] = "interrupting"
    /\ interrupted' = TRUE /\ Wake
    /\ step' = [step EXCEPT ![a] = "done"]
    /\ UNCHANGED <<policy, pending, abandoned, requested, gate, calls, accepted,
                   echoes>>
-----------------------------------------------------------------------------
(***************************************************************************)
(* The thread that folds the external runtime's events: a terminal echo of *)
(* the parked call means that its caller dropped it.                       *)
(***************************************************************************)
EchoMatch(c) ==
    /\ pump = NoCall /\ slot = c /\ c \in Bridged
    /\ pump' = c /\ dropped' = dropped \cup {c}
    /\ UNCHANGED <<policy, pending, latches, requested, gate, calls, accepted,
                   step, woken>>

AbandonPending ==
    /\ pump # NoCall
    /\ abandoned' = TRUE /\ pump' = NoCall /\ Wake
    /\ UNCHANGED <<policy, pending, interrupted, requested, gate, calls, accepted,
                   step, dropped>>
-----------------------------------------------------------------------------
GateStep ==
    \/ ClearInterrupted \/ ClearAbandoned \/ Install \/ EmitRequest
    \/ HearAnswer \/ HearStop \/ TakeSlot
    \/ SettleAnswered \/ SettleUnanswered \/ Escalate

Commands ==
    \/ \E c \in Calls, r \in Responses : Respond(c, r)
    \/ \E m \in Modes : SetAuthMode(m)
    \/ \E t \in Tools : Revoke(t)
    \/ \E x \in Stops : StopRequest(x)
    \/ \E z \in Resets : ResetPolicy(z)
    \/ \E a \in Actors : InterruptPending(a)

Next ==
    \/ \E c \in Calls : Enter(c)
    \/ GateStep
    \/ EndTurn
    \/ Commands
    \/ (\E c \in Calls : EchoMatch(c)) \/ AbandonPending

Spec == Init /\ [][Next]_vars

\* The gate's thread runs, if only by its poll; nobody has to answer a card.
FairSpec == Spec /\ WF_vars(GateStep)
-----------------------------------------------------------------------------
TypeOK ==
    /\ mode \in Modes /\ trust \subseteq Tools
    /\ slot \in Calls \cup {NoCall} /\ answer \in Responses \cup {"none"}
    /\ interrupted \in BOOLEAN /\ abandoned \in BOOLEAN /\ requested \in BOOLEAN
    /\ at \in Calls \cup {NoCall}
    /\ pc \in {"idle", "disarming", "disarmed", "installing", "announcing",
               "waiting", "taking", "settling", "trusting"}
    /\ (pc = "idle") <=> (at = NoCall)
    /\ heard \in Responses \cup {"none"} /\ taken \in Responses \cup {"none"}
    /\ tool \in [Calls -> Tools]
    /\ outcome \in [Calls -> {"none", "Allow", "Denied", "Cancelled"}]
    /\ card \in [Calls -> Responses \cup {"none", "shown", "abandoned"}]
    /\ accepted \in [Calls -> Responses \cup {"none"}]
    /\ step \in [Actors -> {"idle", "interrupting", "done"}]
    /\ pump \in Calls \cup {NoCall}
    /\ dropped \subseteq Calls /\ woken \subseteq Calls

\* An answer that respond accepted is the one the call and its card end with,
\* whatever stop, reset or abandonment raced it; a card with no accepted answer
\* ends refused or abandoned, and its call cancelled.
AnswerHonoured ==
    \A c \in Calls : outcome[c] # "none" =>
        IF accepted[c] # "none"
          THEN card[c] = accepted[c] /\ outcome[c] = Verdict(accepted[c])
          ELSE card[c] # "none" => /\ card[c] \in {"Deny", "abandoned"}
                                   /\ outcome[c] = "Cancelled"

\* A call that needs approval runs only if its own card was answered with an
\* allow, the user turned confirmation off, or the user said "always allow" on
\* an earlier card of the same tool: no answer is spent on another call's card.
Consented(c) ==
    \/ tool[c] \in Builtin \/ mode = "NoConfirmation"
    \/ accepted[c] \in {"AllowOnce", "AlwaysAllow"}
    \/ \E d \in Calls \ {c} : tool[d] = tool[c] /\ accepted[d] = "AlwaysAllow"

ConsentBeforeRun ==
    [][\A c \in Calls :
         outcome[c] = "none" /\ outcome'[c] = "Allow" => Consented(c)]_vars

\* A gate ends as cancelled only if its turn was asked to stop or a latch was
\* raised while it was open: a latch an earlier gate left raised does not leak.
CancelHasCause ==
    [][\A c \in Calls :
         outcome[c] # "Cancelled" /\ outcome'[c] = "Cancelled" =>
           requested \/ c \in woken]_vars

\* A card ends as abandoned only if the caller dropped that very call.
AbandonIsOwn == \A c \in Calls : card[c] = "abandoned" => c \in dropped

\* A call that was answered, or whose turn was asked to stop while it was at the
\* gate, leaves the gate, even if the wake-up came before the latches were reset.
DecidedGateEnds ==
    \A c \in Calls :
        accepted[c] # "none" \/ (at = c /\ requested) ~> outcome[c] # "none"
=============================================================================
