-------------------------- MODULE AgentLoop_proofs --------------------------
(***************************************************************************)
(* Proofs about the agent loop, for any set of calls and delegations, any  *)
(* signatures, caps and threshold: that the repeat detector bounds what    *)
(* the server executes, that what the calls promoted survives every way a  *)
(* turn can end, that the trace has every row that was made, once and in   *)
(* its place, and the prose of every turn, once.  All rest on who waits   *)
(* for whom: the driver, one family's batch and the server pass a single   *)
(* request back and forth, and the driver's thread does not end under a    *)
(* call that executes.  The rows rest on where one is between the server   *)
(* and a round (RowInv), the prose on where it is beside the rounds while  *)
(* its turn is not decided (SpeechInv).                                    *)
(***************************************************************************)
EXTENDS AgentLoop, FiniteSetTheorems, SequenceTheorems, WellFoundedInduction,
        TLAPS

\* A call that waits for its answer, or whose answer waits for the driver, is
\* at the head of its family's batch.
CallInv ==
  driver = "running" /\ request # None =>
    /\ rig[request.family] = "batch" /\ todo[request.family] # <<>>
    /\ request.family = "main" <=> delegation = None

\* A delegation that runs is a call of the main loop's batch.
DelegationInv ==
  /\ driver = "running" /\ delegation # None =>
       rig["main"] = "batch" /\ todo["main"] # <<>>
  /\ driver = "starting" => delegation = None

\* A batch with no call left has results to surface.
BatchInv ==
  \A f \in Family :
    \/ rig[f] = "batch" /\ todo[f] # <<>>
    \/ rig[f] \in {"batch", "results"} /\ results[f] > 0
    \/ rig[f] \notin {"batch", "results"}

\* The server works for a caller that waits: the driver's thread does not end
\* under it, and the turn settles after both.
ServerInv ==
  /\ server # "idle" => request # None /\ reply = "none"
  /\ reply # "none" => request # None
  /\ driver \in {"starting", "left"} => request = None
  /\ outcome # None => driver = "left"

\* The positions at which a call of the signature s was executed, and whether
\* one is being executed.
Ran(s) == {i \in DOMAIN ran : Signature[ran[i]] = s}
Running(s) == IF server = "executing" /\ Sig = s THEN 1 ELSE 0

\* A call executes only on an arrival that the detector counted and let pass.
RepeatInv ==
  \A s \in DOMAIN arrivals :
    /\ Cardinality(Ran(s)) + Running(s) <= arrivals[s]
    /\ Cardinality(Ran(s)) + Running(s) < SteerAt

\* The promotions so far are those of the calls executed so far, and the
\* turn's outcome was settled after the last of them.
PromotionInv ==
  /\ Lists(promotions, ran, Promoting)
  /\ outcome # None => outcome.promotions = promotions

Inv == /\ TypeOK /\ CallInv /\ DelegationInv /\ BatchInv
       /\ ServerInv /\ RepeatInv /\ PromotionInv

-----------------------------------------------------------------------------
LEMMA InitInv == ASSUME Init PROVE Inv
<1> USE LoopAssumption
<1>1. TypeOK
  <2>1. \A S : <<>> \in Seq(S)
    BY EmptySeq
  <2>2. 0 \in 0..MaxResumes /\ \A f \in Family : Cap[f] \in Nat
    BY DEF Family, Cap
  <2>3. {aborted, gateOver, flag, timedOut, notified} \subseteq BOOLEAN
    BY DEF Init
  <2> QED
    BY <2>1, <2>2, <2>3 DEF Init, TypeOK
<1>2. CallInv /\ DelegationInv /\ BatchInv /\ ServerInv
  BY DEF Init, CallInv, DelegationInv, BatchInv, ServerInv, Family
<1>3. RepeatInv
  <2>1. \A s : Ran(s) = {}
    BY DEF Init, Ran
  <2>2. \A s : Cardinality(Ran(s)) = 0
    BY <2>1, FS_EmptySet, Zenon
  <2>3. server = "idle" /\ \A s \in DOMAIN arrivals : arrivals[s] = 0
    BY DEF Init
  <2>4. SteerAt \in Nat \ {0}
    OBVIOUS
  <2>5. \A s : Running(s) = 0
    BY <2>3 DEF Running
  <2> QED
    BY <2>2, <2>3, <2>4, <2>5 DEF RepeatInv
<1>4. PromotionInv
  <2>1. promotions = <<>> /\ ran = <<>> /\ outcome = None
    BY DEF Init
  <2>2. Lists(<<>>, <<>>, Promoting)
    <3> DEFINE at == [i \in {} |-> 0]
    <3>1. at \in [DOMAIN <<>> -> DOMAIN <<>>] /\ DOMAIN <<>> = {}
      OBVIOUS
    <3> QED
      BY <3>1 DEF Lists
  <2> QED
    BY <2>1, <2>2 DEF PromotionInv
<1> QED
  BY <1>1, <1>2, <1>3, <1>4 DEF Inv

-----------------------------------------------------------------------------
(***************************************************************************)
(* Steps of the driver                                                     *)
(***************************************************************************)
\* A step that neither asks the server, nor answers, nor settles leaves what
\* was counted, executed and promoted as it was.
LEMMA ServerFrame ==
  ASSUME Inv, UNCHANGED <<serverVars, ran, outcome>>, 
         driver' = driver \/ (driver = "running" /\ driver' = "leaving")
  PROVE  ServerInv' /\ RepeatInv' /\ PromotionInv'
<1>1. ServerInv'
  <2>1. /\ server' = server /\ request' = request /\ reply' = reply
    BY DEF serverVars
  <2> QED
    BY <2>1 DEF Inv, ServerInv
<1>2. RepeatInv'
  BY DEF Inv, RepeatInv, Ran, Running, Sig, serverVars
<1>3. PromotionInv'
  BY DEF Inv, PromotionInv, Lists, serverVars
<1> QED
  BY <1>1, <1>2, <1>3

\* A step that moves the streams and the batches alone keeps the types.
LEMMA StreamTypes ==
  ASSUME TypeOK, windows' \in 0..MaxResumes,
         rig' \in [Family -> {"idle", "asked", "open", "closed", "batch", "results"}],
         steps' \in [Family -> Nat], \A f \in Family : steps'[f] <= Cap[f],
         todo' \in [Family -> Seq(Calls)], \A f \in Family : todo'[f] \in Seq(Issues[f]),
         results' \in [Family -> Nat], queue' \in [Family -> Seq(Calls)],
         delegation' \in Delegation \cup {None},
         UNCHANGED <<driver, exit, server, request, reply, arrivals, promotions,
                     overVars, ran>>
  PROVE  TypeOK'
BY DEF TypeOK, overVars

\* A step of one family's stream that leaves its batch alone.
LEMMA StreamStep ==
  ASSUME Inv, NEW f \in Family, Polled(f), rig[f] \notin {"batch", "results"},
         NEW where \in {"idle", "asked", "open", "closed"},
         rig' = [rig EXCEPT ![f] = where],
         UNCHANGED <<driveVars, todo, results, subVars, queue, serverVars,
                     overVars, outcome, ran>>,
         steps' \in [Family -> Nat], \A g \in Family : steps'[g] <= Cap[g]
  PROVE  Inv'
<1>1. TypeOK'
  <2>1. TypeOK
    BY DEF Inv
  <2>2. rig' \in [Family -> {"idle", "asked", "open", "closed", "batch", "results"}]
    BY <2>1 DEF TypeOK
  <2>3. UNCHANGED <<driver, exit, windows, todo, results, queue, delegation, server,
                    request, reply, arrivals, promotions, overVars, ran>>
    BY DEF driveVars, subVars, serverVars
  <2>4. /\ windows' \in 0..MaxResumes
        /\ todo' \in [Family -> Seq(Calls)] /\ \A g \in Family : todo'[g] \in Seq(Issues[g])
        /\ results' \in [Family -> Nat] /\ queue' \in [Family -> Seq(Calls)]
        /\ delegation' \in Delegation \cup {None}
    BY <2>1, <2>3 DEF TypeOK
  <2> QED
    BY <2>1, <2>2, <2>3, <2>4, StreamTypes
<1>2. CallInv'
  BY DEF Inv, TypeOK, CallInv, driveVars, subVars, serverVars
<1>3. DelegationInv'
  BY DEF Inv, TypeOK, DelegationInv, driveVars, subVars, Polled, Family
<1>4. BatchInv'
  BY DEF Inv, TypeOK, BatchInv
<1> QED
  <2>1. UNCHANGED serverVars /\ driver' = driver /\ ran' = ran /\ outcome' = outcome
    BY DEF driveVars
  <2>2. ServerInv' /\ RepeatInv' /\ PromotionInv'
    BY <2>1, ServerFrame
  <2> QED
    BY <1>1, <1>2, <1>3, <1>4, <2>2 DEF Inv

\* The guard that collects what a sub-agent has lands one row.
LEMMA CollectsTypes ==
  ASSUME Inv, delegation # None, NEW folded, NEW success, Collects(folded, success)
  PROVE  /\ queue' \in [Family -> Seq(Calls)]
         /\ delegation' = None
<1>1. delegation \in Calls
  BY DEF Inv, TypeOK, Calls
<1>2. Append(queue["main"], delegation) \in Seq(Calls) /\ <<>> \in Seq(Calls)
  BY <1>1, AppendProperties, EmptySeq DEF Inv, TypeOK, Family
<1>3. queue' = [queue EXCEPT !["sub"] = <<>>, !["main"] = Append(@, delegation)]
  BY Zenon DEF Collects
<1>4. delegation' = None
  BY Zenon DEF Collects
<1> QED
  BY <1>2, <1>3, <1>4 DEF Inv, TypeOK, Family

\* The main loop is left in whatever state its streams are.
LEMMA LeavesStep ==
  ASSUME Inv, driver = "running",
         NEW how \in {"done", "error", "stepCap", "stopped", "abandoned", "panic"},
         NEW folded, Leaves(how, folded), UNCHANGED <<windows, serverVars, overVars, outcome, ran>>,
         queue' \in [Family -> Seq(Calls)], delegation' \in Delegation \cup {None}
  PROVE  Inv'
<1> USE LoopAssumption
<1>1. /\ driver' = "leaving" /\ exit' = how
      /\ rig' = [f \in Family |-> "idle"] /\ steps' = [f \in Family |-> 0]
      /\ todo' = [f \in Family |-> <<>>] /\ results' = [f \in Family |-> 0]
  BY Zenon DEF Leaves
<1>2. TypeOK'
  <2>1. steps' \in [Family -> Nat] /\ \A f \in Family : steps'[f] <= Cap[f]
    BY <1>1 DEF Family, Cap
  <2>2. /\ todo' \in [Family -> Seq(Calls)] /\ results' \in [Family -> Nat]
        /\ \A f \in Family : todo'[f] \in Seq(Issues[f])
    BY <1>1, EmptySeq
  <2>3. rig' \in [Family -> {"idle", "asked", "open", "closed", "batch", "results"}]
    BY <1>1
  <2> QED
    BY <1>1, <2>1, <2>2, <2>3 DEF Inv, TypeOK, serverVars, overVars
<1>3. CallInv' /\ DelegationInv'
  BY <1>1 DEF CallInv, DelegationInv
<1>4. BatchInv'
  BY <1>1 DEF BatchInv
<1>5. UNCHANGED serverVars /\ ran' = ran /\ outcome' = outcome
  OBVIOUS
<1>6. ServerInv' /\ RepeatInv' /\ PromotionInv'
  BY <1>1, <1>5, ServerFrame
<1> QED
  BY <1>2, <1>3, <1>4, <1>6 DEF Inv

\* The sub-agent's report is the result of the call at the head of the main
\* loop's batch.
LEMMA ReportsStep ==
  ASSUME Inv, Polled("sub"), rig["sub"] \notin {"batch", "results"},
         NEW folded, NEW success, Reports(folded, success)
  PROVE  Inv'
<1> USE LoopAssumption
<1>1. delegation # None /\ driver = "running"
  BY DEF Polled
<1>2. Collects(folded, success)
  BY Zenon DEF Reports
<1>3. queue' \in [Family -> Seq(Calls)] /\ delegation' = None
  BY <1>1, <1>2, CollectsTypes
<1>4. /\ rig' = [rig EXCEPT !["sub"] = "idle"]
      /\ steps' = [steps EXCEPT !["sub"] = 0]
      /\ todo' = [todo EXCEPT !["sub"] = <<>>, !["main"] = Tail(@)]
      /\ results' = [results EXCEPT !["sub"] = 0, !["main"] = @ + 1]
      /\ UNCHANGED <<driveVars, serverVars, overVars, outcome, ran>>
  BY Zenon DEF Reports
<1>5. rig["main"] = "batch" /\ todo["main"] # <<>>
  BY <1>1 DEF Inv, DelegationInv
<1>6. todo["main"] \in Seq(Calls) /\ todo["main"] \in Seq(Issues["main"])
  BY DEF Inv, TypeOK, Family
<1>7. Tail(todo["main"]) \in Seq(Calls) /\ Tail(todo["main"]) \in Seq(Issues["main"])
  BY <1>5, <1>6, HeadTailProperties
<1>8. todo' \in [Family -> Seq(Calls)] /\ \A f \in Family : todo'[f] \in Seq(Issues[f])
  BY <1>4, <1>7, EmptySeq DEF Inv, TypeOK, Family
<1>9. steps' \in [Family -> Nat] /\ \A f \in Family : steps'[f] <= Cap[f]
  BY <1>4 DEF Inv, TypeOK, Family, Cap
<1>10. /\ results' \in [Family -> Nat]
       /\ rig' \in [Family -> {"idle", "asked", "open", "closed", "batch", "results"}]
  <2>1. /\ results \in [Family -> Nat]
        /\ rig \in [Family -> {"idle", "asked", "open", "closed", "batch", "results"}]
    BY DEF Inv, TypeOK
  <2>2. results' \in [Family -> Nat]
    BY <1>4, <2>1 DEF Family
  <2> QED
    BY <1>4, <2>1, <2>2 DEF Family
<1>11. TypeOK'
  <2>1. TypeOK
    BY DEF Inv
  <2>2. UNCHANGED <<driver, exit, windows, server, request, reply, arrivals, promotions,
                    overVars, ran>>
    BY <1>4 DEF driveVars, serverVars
  <2>3. windows' \in 0..MaxResumes /\ delegation' \in Delegation \cup {None}
    BY <1>3, <2>1, <2>2 DEF TypeOK
  <2> QED
    BY <1>3, <1>8, <1>9, <1>10, <2>1, <2>2, <2>3, StreamTypes
<1>12. request = None
  BY <1>1, <1>5 DEF Inv, CallInv, TypeOK, Family
<1>13. CallInv' /\ DelegationInv'
  BY <1>3, <1>4, <1>12 DEF CallInv, DelegationInv, serverVars
<1>14. BatchInv'
  <2>0. /\ results \in [Family -> Nat]
        /\ rig \in [Family -> {"idle", "asked", "open", "closed", "batch", "results"}]
    BY DEF Inv, TypeOK
  <2>1. rig'["sub"] = "idle" /\ rig'["main"] = "batch"
    BY <1>4, <1>5, <2>0 DEF Family
  <2>2. results'["main"] > 0
    BY <1>4, <2>0 DEF Family
  <2> QED
    BY <2>1, <2>2 DEF BatchInv, Family
<1> QED
  <2>1. UNCHANGED serverVars /\ driver' = driver /\ ran' = ran /\ outcome' = outcome
    BY <1>4 DEF driveVars
  <2>2. ServerInv' /\ RepeatInv' /\ PromotionInv'
    BY <2>1, ServerFrame
  <2> QED
    BY <1>11, <1>13, <1>14, <2>2 DEF Inv

\* A stream ends: the sub-agent's into a report, the main one into the turn's
\* end.
LEMMA StreamEndsStep ==
  ASSUME Inv, NEW f \in Family, Polled(f), rig[f] \notin {"batch", "results"},
         NEW how \in {"done", "error", "stepCap", "stopped"}, NEW folded,
         StreamEnds(f, how, folded)
  PROVE  Inv'
<1>1. CASE f = "sub"
  <2>1. Reports(folded, folded.final)
    BY <1>1 DEF StreamEnds
  <2> QED
    BY <1>1, <2>1, ReportsStep
<1>2. CASE f = "main"
  <2>1. /\ Leaves(how, Finish(folded))
        /\ UNCHANGED <<windows, subVars, queue, serverVars, overVars, outcome, history>>
    BY <1>2, Zenon DEF StreamEnds
  <2>2. /\ UNCHANGED <<windows, serverVars, overVars, outcome, ran>>
        /\ queue' = queue /\ delegation' = delegation
    BY <2>1 DEF subVars, history
  <2>3. queue' \in [Family -> Seq(Calls)] /\ delegation' \in Delegation \cup {None}
    BY <2>2 DEF Inv, TypeOK
  <2>4. driver = "running"
    BY DEF Polled
  <2> QED
    BY <2>1, <2>2, <2>3, <2>4, LeavesStep
<1> QED
  BY <1>1, <1>2 DEF Family

LEMMA BatchIsSeq ==
  ASSUME NEW S, NEW c \in S, NEW d \in S
  PROVE  /\ <<c>> \in Seq(S) /\ <<c>> # <<>>
         /\ <<c, d>> \in Seq(S) /\ <<c, d>> # <<>>
OBVIOUS

\* A model turn's steps: none touches a batch but the one that commits it.
LEMMA ModelStep ==
  ASSUME Inv, NEW f \in Family, ModelMoves(f)
  PROVE  Inv'
<1> USE LoopAssumption
<1>1. Polled(f)
  BY Zenon DEF ModelMoves, ModelCalled, TurnOpens, TurnCloses, TurnRetried,
               Replies, StreamFails, BatchCommits
<1>2. CASE ModelCalled(f)
  <2>1. /\ rig[f] = "idle" /\ steps[f] < Cap[f]
        /\ rig' = [rig EXCEPT ![f] = "asked"] /\ steps' = [steps EXCEPT ![f] = @ + 1]
        /\ UNCHANGED <<driveVars, todo, results, subVars, queue, serverVars,
                       overVars, outcome, ran>>
    BY <1>2 DEF ModelCalled, OnlyStreams
  <2>2. steps' \in [Family -> Nat] /\ \A g \in Family : steps'[g] <= Cap[g]
    <3>2. steps \in [Family -> Nat] /\ f \in Family
      BY DEF Inv, TypeOK
    <3>6. \A g \in Family : steps[g] <= Cap[g]
      BY DEF Inv, TypeOK
    <3>7. \A g \in Family : Cap[g] \in Nat
      BY DEF Family, Cap
    <3>1. \A g \in Family : Cap[g] \in Nat /\ steps[g] \in Nat /\ steps[g] <= Cap[g]
      BY <3>2, <3>6, <3>7
    <3>3. steps[f] + 1 \in Nat /\ steps[f] + 1 <= Cap[f]
      BY <2>1, <3>1
    <3>4. \A g \in Family : steps'[g] = IF g = f THEN steps[f] + 1 ELSE steps[g]
      BY <2>1, <3>2
    <3>5. steps' \in [Family -> Nat]
      BY <2>1, <3>2, <3>3
    <3> QED
      BY <3>1, <3>3, <3>4, <3>5
  <2> QED
    BY <1>1, <2>1, <2>2, StreamStep
<1>3. CASE \/ \E parts \in Contents : TurnOpens(f, parts)
           \/ TurnCloses(f) \/ TurnRetried(f)
  <2>1. PICK where \in {"idle", "asked", "open", "closed"} :
          rig' = [rig EXCEPT ![f] = where]
    BY <1>3, Zenon DEF TurnOpens, TurnCloses, TurnRetried
  <2>2. /\ rig[f] \notin {"batch", "results"}
        /\ UNCHANGED <<driveVars, steps, todo, results, subVars, queue,
                       serverVars, overVars, outcome, ran>>
    BY <1>3 DEF TurnOpens, TurnCloses, TurnRetried, OnlyStreams
  <2>3. steps' \in [Family -> Nat] /\ \A g \in Family : steps'[g] <= Cap[g]
    BY <2>2 DEF Inv, TypeOK
  <2> QED
    BY <1>1, <2>1, <2>2, <2>3, StreamStep
<1>4. CASE Replies(f) \/ StreamFails(f)
  <2>1. PICK how \in {"done", "error"} : \E folded : StreamEnds(f, how, folded)
    BY <1>4, Zenon DEF Replies, StreamFails
  <2>2. rig[f] \notin {"batch", "results"}
    BY <1>4 DEF Replies, StreamFails
  <2> QED
    BY <1>1, <2>1, <2>2, StreamEndsStep
<1>5. ASSUME NEW batch \in Batches(f), BatchCommits(f, batch)
      PROVE  Inv'
  <2>1. /\ rig[f] = "closed" /\ driver = "running" /\ (f = "main" <=> delegation = None)
        /\ rig' = [rig EXCEPT ![f] = "batch"] /\ todo' = [todo EXCEPT ![f] = batch]
        /\ UNCHANGED <<driveVars, steps, results, subVars, queue, serverVars,
                       overVars, outcome, ran>>
    BY <1>5 DEF BatchCommits, Polled, OnlyStreams
  <2>2. batch \in Seq(Issues[f]) /\ batch \in Seq(Calls) /\ batch # <<>>
    <3>1. Issues[f] \subseteq Calls
      BY DEF Issues, Calls, Family
    <3>2. batch \in Seq(Issues[f]) /\ batch # <<>>
      <4>1. CASE \E c \in Issues[f] : batch = <<c>>
        <5>1. PICK c \in Issues[f] : batch = <<c>>
          BY <4>1
        <5> QED
          BY <5>1, BatchIsSeq
      <4>2. CASE \E c, d \in Issues[f] : batch = <<c, d>>
        <5>1. PICK c, d \in Issues[f] : batch = <<c, d>>
          BY <4>2
        <5> QED
          BY <5>1, BatchIsSeq
      <4> QED
        BY <1>5, <4>1, <4>2 DEF Batches
    <3> QED
      BY <3>1, <3>2, SeqMonotonic
  <2>3. TypeOK'
    <3>1. rig' \in [Family -> {"idle", "asked", "open", "closed", "batch", "results"}]
      BY <2>1 DEF Inv, TypeOK
    <3>2. todo' \in [Family -> Seq(Calls)] /\ \A g \in Family : todo'[g] \in Seq(Issues[g])
      BY <2>1, <2>2 DEF Inv, TypeOK
    <3> QED
      BY <2>1, <3>1, <3>2 DEF Inv, TypeOK, driveVars, subVars, serverVars, overVars
  <2>4. CallInv' /\ DelegationInv'
    BY <2>1, <2>2 DEF Inv, TypeOK, CallInv, DelegationInv, driveVars, subVars, serverVars, Family
  <2>5. BatchInv'
    BY <2>1, <2>2 DEF Inv, TypeOK, BatchInv
  <2>6. UNCHANGED serverVars /\ driver' = driver /\ ran' = ran /\ outcome' = outcome
    BY <2>1 DEF driveVars
  <2>7. ServerInv' /\ RepeatInv' /\ PromotionInv'
    BY <2>6, ServerFrame
  <2> QED
    BY <2>3, <2>4, <2>5, <2>7 DEF Inv
<1> QED
  BY <1>2, <1>3, <1>4, <1>5, Zenon DEF ModelMoves

\* A call returns: its answer is taken and its place in the batch is free.
LEMMA CallReturnsStep ==
  ASSUME Inv, NEW f \in Family, CallReturns(f)
  PROVE  Inv'
<1>1. /\ driver = "running" /\ (f = "main" <=> delegation = None)
      /\ reply # "none" /\ request' = None /\ reply' = "none"
      /\ gateOver' = (gateOver \/ reply = "cancelled")
      /\ aborted' = (aborted \/ reply = "aborted")
      /\ todo' = [todo EXCEPT ![f] = Tail(@)]
      /\ results' = [results EXCEPT ![f] = @ + 1]
      /\ UNCHANGED <<driveVars, rig, steps, subVars, queue, server, arrivals,
                     promotions, flag, timedOut, notified, outcome, ran>>
  BY DEF CallReturns, Polled, history
<1>2. request # None /\ request.family \in Family /\ server = "idle"
  BY <1>1 DEF Inv, ServerInv, TypeOK
<1>3. rig[f] = "batch" /\ todo[f] # <<>>
  BY <1>1, <1>2 DEF Inv, CallInv, Family
<1>4. Tail(todo[f]) \in Seq(Calls) /\ Tail(todo[f]) \in Seq(Issues[f])
  <2>1. todo[f] \in Seq(Calls) /\ todo[f] \in Seq(Issues[f])
    BY DEF Inv, TypeOK
  <2> QED
    BY <1>3, <2>1, HeadTailProperties
<1>5. TypeOK'
  <2>1. gateOver' \in BOOLEAN /\ aborted' \in BOOLEAN
    BY <1>1, Zenon DEF Inv, TypeOK
  <2>2. todo' \in [Family -> Seq(Calls)] /\ \A g \in Family : todo'[g] \in Seq(Issues[g])
    BY <1>1, <1>4 DEF Inv, TypeOK
  <2>3. results' \in [Family -> Nat]
    BY <1>1 DEF Inv, TypeOK
  <2> QED
    BY <1>1, <2>1, <2>2, <2>3 DEF Inv, TypeOK, driveVars, subVars
<1>6. CallInv' /\ ServerInv'
  BY <1>1, <1>2 DEF Inv, CallInv, ServerInv, driveVars
<1>7. DelegationInv'
  <2>1. f = "sub" => todo'["main"] = todo["main"]
    BY <1>1 DEF Inv, TypeOK, Family
  <2> QED
    BY <1>1, <2>1 DEF Inv, DelegationInv, driveVars, subVars, Family
<1>8. BatchInv'
  BY <1>1, <1>3 DEF Inv, TypeOK, BatchInv
<1>9. RepeatInv'
  BY <1>1, <1>2 DEF Inv, RepeatInv, Ran, Running
<1>10. PromotionInv'
  BY <1>1 DEF Inv, PromotionInv, Lists
<1> QED
  BY <1>5, <1>6, <1>7, <1>8, <1>9, <1>10 DEF Inv

\* What a stream does outside a model turn.
LEMMA LoopStep ==
  ASSUME Inv, NEW f \in Family, LoopMoves(f)
  PROVE  Inv'
<1> USE LoopAssumption
<1>1. CASE BudgetSpent(f) \/ Checkpoint(f)
  <2>1. PICK how \in {"stepCap", "stopped"} : StreamEnds(f, how, fold[f])
    BY <1>1, Zenon DEF BudgetSpent, Checkpoint
  <2>2. Polled(f) /\ rig[f] \notin {"batch", "results"}
    BY <1>1 DEF BudgetSpent, Checkpoint
  <2> QED
    BY <2>1, <2>2, StreamEndsStep
<1>2. CASE BatchSettles(f) \/ ResultSurfaces(f)
  <2>1. /\ driver = "running" /\ (f = "main" <=> delegation = None)
        /\ (rig[f] = "batch" /\ todo[f] = <<>>) \/ rig[f] = "results"
        /\ UNCHANGED <<driveVars, steps, todo, subVars, serverVars, overVars,
                       outcome, ran>>
    BY <1>2 DEF BatchSettles, ResultSurfaces, Polled, OnlyStreams, history
  <2>2. /\ results[f] \in Nat \ {0}
        /\ rig \in [Family -> {"idle", "asked", "open", "closed", "batch", "results"}]
        /\ results \in [Family -> Nat]
    BY <2>1 DEF Inv, TypeOK, BatchInv
  <2>3. /\ rig' = [rig EXCEPT ![f] = rig'[f]] /\ results' = [results EXCEPT ![f] = results'[f]]
        /\ results'[f] \in Nat
        /\ \/ rig'[f] = "results" /\ results'[f] > 0
           \/ rig'[f] = "idle"
    <3>1. CASE BatchSettles(f)
      BY <2>2, <3>1 DEF BatchSettles
    <3>2. CASE ResultSurfaces(f)
      <4>1. /\ rig[f] = "results"
            /\ rig' = [rig EXCEPT ![f] = IF results[f] = 1 THEN "idle" ELSE @]
            /\ results' = [results EXCEPT ![f] = @ - 1]
        BY <3>2, Zenon DEF ResultSurfaces
      <4> QED
        BY <2>2, <4>1
    <3> QED
      BY <1>2, <3>1, <3>2
  <2>4. queue' \in [Family -> Seq(Calls)]
    <3>1. queue' = queue \/ (queue[f] # <<>> /\ queue' = [queue EXCEPT ![f] = Tail(@)])
      BY <1>2 DEF BatchSettles, ResultSurfaces, OnlyStreams
    <3>2. queue \in [Family -> Seq(Calls)]
      BY DEF Inv, TypeOK
    <3>3. queue[f] # <<>> => Tail(queue[f]) \in Seq(Calls)
      BY <3>2, HeadTailProperties
    <3> QED
      BY <3>1, <3>2, <3>3
  <2>5. rig' \in [Family -> {"idle", "asked", "open", "closed", "batch", "results"}]
        /\ results' \in [Family -> Nat]
    BY <2>2, <2>3
  <2>6. TypeOK'
    BY <2>1, <2>4, <2>5 DEF Inv, TypeOK, driveVars, subVars, serverVars, overVars
  <2>7. f = "main" => delegation = None
    BY <2>1
  <2>8. request # None => request.family \in Family /\ request.family # f
    <3>1. request # None => request.family \in Family /\ rig[request.family] = "batch"
                            /\ todo[request.family] # <<>>
      BY <2>1 DEF Inv, CallInv, TypeOK
    <3> QED
      BY <2>1, <3>1
  <2>9. CallInv'
    BY <2>1, <2>2, <2>3, <2>8 DEF Inv, CallInv, driveVars, subVars, serverVars
  <2>10. DelegationInv'
    BY <2>1, <2>2, <2>3, <2>7 DEF Inv, DelegationInv, driveVars, subVars, Family
  <2>11. BatchInv'
    BY <2>1, <2>2, <2>3 DEF Inv, BatchInv
  <2>12. UNCHANGED serverVars /\ driver' = driver /\ ran' = ran /\ outcome' = outcome
    BY <2>1 DEF driveVars
  <2>13. ServerInv' /\ RepeatInv' /\ PromotionInv'
    BY <2>12, ServerFrame
  <2> QED
    BY <2>6, <2>9, <2>10, <2>11, <2>13 DEF Inv
<1>3. CASE CallSent(f)
  <2>1. /\ NextCall(f) \in Plain \cup Sub
        /\ request' = [call |-> NextCall(f), family |-> f]
        /\ UNCHANGED <<driveVars, rig, steps, todo, results, subVars, queue, server,
                       reply, arrivals, promotions, overVars, outcome, ran>>
    BY <1>3 DEF CallSent, streamVars, history
  <2>2. /\ driver = "running" /\ (f = "main" <=> delegation = None)
        /\ rig[f] = "batch" /\ todo[f] # <<>> /\ request = None
    BY <2>1 DEF NextCall, Polled, Calls
  <2>3. server = "idle" /\ reply = "none"
    BY <2>2 DEF Inv, ServerInv, TypeOK
  <2>4. request' \in [call : Plain \cup Sub, family : Family] /\ request'.family = f
    BY <2>1
  <2>5. TypeOK'
    BY <2>1, <2>4 DEF Inv, TypeOK, driveVars, subVars, overVars
  <2>6. CallInv' /\ DelegationInv' /\ BatchInv'
    BY <2>1, <2>2, <2>4 DEF Inv, CallInv, DelegationInv, BatchInv, driveVars, subVars
  <2>7. ServerInv'
    BY <2>1, <2>2, <2>3 DEF Inv, ServerInv, driveVars
  <2>8. RepeatInv'
    BY <2>1, <2>3 DEF Inv, RepeatInv, Ran, Running
  <2>9. PromotionInv'
    BY <2>1 DEF Inv, PromotionInv, Lists
  <2> QED
    BY <2>5, <2>6, <2>7, <2>8, <2>9 DEF Inv
<1> QED
  BY <1>1, <1>2, <1>3, CallReturnsStep, Zenon DEF LoopMoves

\* The futures drop with the driver: a sub-agent's guard lands its row.
LEMMA DropStep ==
  ASSUME Inv, driver = "running", NEW how \in {"abandoned", "panic"}, NEW folded,
         Leaves(how, folded), FuturesDrop,
         UNCHANGED <<windows, serverVars, overVars, outcome, ran, issuer, spoke>>
  PROVE  Inv'
<1>1. queue' \in [Family -> Seq(Calls)] /\ delegation' \in Delegation \cup {None}
  <2>1. CASE delegation = None
    <3>1. UNCHANGED <<subVars, queue, made>>
      BY <2>1, Zenon DEF FuturesDrop
    <3> QED
      BY <3>1 DEF Inv, TypeOK, subVars
  <2>2. CASE delegation # None
    <3>1. Collects([fold["sub"] EXCEPT !.final = FALSE], FALSE)
      BY <2>2, Zenon DEF FuturesDrop
    <3> QED
      BY <2>2, <3>1, CollectsTypes
  <2> QED
    BY <2>1, <2>2
<1>2. UNCHANGED <<windows, serverVars, overVars, outcome, ran>>
  OBVIOUS
<1> QED
  BY <1>1, <1>2, LeavesStep

\* The driver's own steps.
LEMMA DriverStep ==
  ASSUME Inv, DriverMoves \/ DriverPanics
  PROVE  Inv'
<1> USE LoopAssumption
<1>1. ASSUME NEW f \in Family, LoopMoves(f)
      PROVE  Inv'
  BY <1>1, LoopStep
<1>2. CASE DriverStarts
  <2>1. /\ driver = "starting" /\ driver' \in {"running", "left"}
        /\ exit' \in {exit, "done"} /\ aborted' \in {aborted, TRUE}
        /\ UNCHANGED <<windows, streamVars, subVars, queue, serverVars, gateOver,
                       flag, timedOut, notified, outcome, history>>
    BY <1>2, Zenon DEF DriverStarts
  <2>2. request = None /\ delegation = None /\ server = "idle" /\ outcome = None
    BY <2>1 DEF Inv, ServerInv, DelegationInv, TypeOK
  <2>3. exit' \in {"none", "done", "error", "stepCap", "stopped", "abandoned", "panic"}
        /\ aborted' \in BOOLEAN
    BY <2>1 DEF Inv, TypeOK
  <2>4. UNCHANGED <<rig, steps, todo, results, delegation, ran>>
    BY <2>1 DEF streamVars, subVars, history
  <2>5. TypeOK'
    BY <2>1, <2>3, <2>4 DEF Inv, TypeOK, serverVars
  <2>9. request' = None /\ delegation' = None
    BY <2>1, <2>2, <2>4 DEF serverVars
  <2>10. CallInv' /\ DelegationInv'
    BY <2>9 DEF CallInv, DelegationInv
  <2>6. CallInv' /\ DelegationInv' /\ BatchInv'
    BY <2>4, <2>10 DEF Inv, BatchInv
  <2>7. ServerInv'
    BY <2>1, <2>2 DEF Inv, ServerInv, serverVars
  <2>8. RepeatInv' /\ PromotionInv'
    BY <2>1, <2>4 DEF Inv, RepeatInv, Ran, Running, Sig, PromotionInv, Lists, serverVars
  <2> QED
    BY <2>5, <2>6, <2>7, <2>8 DEF Inv
<1>3. CASE WindowReopens
  <2>1. /\ windows < MaxResumes /\ windows' = windows + 1
        /\ steps' = [steps EXCEPT !["main"] = 0]
        /\ UNCHANGED <<driver, exit, rig, todo, results, subVars, queue,
                       serverVars, overVars, outcome, ran>>
    BY <1>3 DEF WindowReopens, history
  <2>2. windows' \in 0..MaxResumes
    BY <2>1 DEF Inv, TypeOK
  <2>3. steps' \in [Family -> Nat] /\ \A g \in Family : steps'[g] <= Cap[g]
    <3>1. Cap["main"] \in Nat
      BY DEF Cap
    <3>2. steps \in [Family -> Nat] /\ \A g \in Family : steps[g] <= Cap[g]
      BY DEF Inv, TypeOK
    <3> QED
      BY <2>1, <3>1, <3>2 DEF Family
  <2>4. TypeOK'
    <3>1. UNCHANGED <<driver, exit, rig, todo, results, queue, delegation, server, request,
                      reply, arrivals, promotions, overVars, ran>>
      BY <2>1 DEF subVars, serverVars
    <3>2. TypeOK
      BY DEF Inv
    <3>3. /\ rig' \in [Family -> {"idle", "asked", "open", "closed", "batch", "results"}]
          /\ todo' \in [Family -> Seq(Calls)] /\ \A f \in Family : todo'[f] \in Seq(Issues[f])
          /\ results' \in [Family -> Nat] /\ queue' \in [Family -> Seq(Calls)]
          /\ delegation' \in Delegation \cup {None}
      BY <3>1, <3>2 DEF TypeOK
    <3> QED
      BY <2>2, <2>3, <3>1, <3>2, <3>3, StreamTypes
  <2>5. CallInv' /\ DelegationInv' /\ BatchInv'
    BY <2>1 DEF Inv, CallInv, DelegationInv, BatchInv, subVars, serverVars
  <2>6. UNCHANGED serverVars /\ driver' = driver /\ ran' = ran /\ outcome' = outcome
    BY <2>1
  <2>7. ServerInv' /\ RepeatInv' /\ PromotionInv'
    BY <2>6, ServerFrame
  <2> QED
    BY <2>4, <2>5, <2>7 DEF Inv
<1>4. ASSUME NEW blank \in BOOLEAN, DelegationRefused(blank)
      PROVE  Inv'
  <2>1. /\ NextCall("main") \in Delegation
        /\ queue' = [queue EXCEPT !["main"] = Append(@, NextCall("main"))]
        /\ todo' = [todo EXCEPT !["main"] = Tail(@)]
        /\ results' = [results EXCEPT !["main"] = @ + 1]
        /\ UNCHANGED <<driveVars, rig, steps, subVars, serverVars, overVars,
                       outcome, ran>>
    BY <1>4 DEF DelegationRefused
  <2>2. /\ driver = "running" /\ delegation = None
        /\ rig["main"] = "batch" /\ todo["main"] # <<>> /\ request = None
    BY <2>1 DEF NextCall, Polled, Calls
  <2>3. "main" \in Family /\ NextCall("main") \in Calls
    BY <2>1 DEF Family, Calls
  <2>4. Tail(todo["main"]) \in Seq(Calls) /\ Tail(todo["main"]) \in Seq(Issues["main"])
    <3>1. todo["main"] \in Seq(Calls) /\ todo["main"] \in Seq(Issues["main"])
      BY <2>3 DEF Inv, TypeOK
    <3> QED
      BY <2>2, <3>1, HeadTailProperties
  <2>5. todo' \in [Family -> Seq(Calls)] /\ \A g \in Family : todo'[g] \in Seq(Issues[g])
    BY <2>1, <2>4 DEF Inv, TypeOK
  <2>6. queue' \in [Family -> Seq(Calls)]
    <3>1. queue \in [Family -> Seq(Calls)]
      BY DEF Inv, TypeOK
    <3>2. Append(queue["main"], NextCall("main")) \in Seq(Calls)
      BY <2>3, <3>1, AppendProperties
    <3> QED
      BY <2>1, <3>1, <3>2
  <2>7. results' \in [Family -> Nat] /\ results'["main"] > 0
    <3>1. results \in [Family -> Nat]
      BY DEF Inv, TypeOK
    <3> QED
      BY <2>1, <2>3, <3>1
  <2>8. TypeOK'
    <3>1. UNCHANGED <<driver, exit, windows, rig, steps, delegation, server, request, reply,
                      arrivals, promotions, overVars, ran>>
      BY <2>1 DEF driveVars, subVars, serverVars
    <3>2. TypeOK
      BY DEF Inv
    <3>3. /\ rig' \in [Family -> {"idle", "asked", "open", "closed", "batch", "results"}]
          /\ steps' \in [Family -> Nat] /\ \A f \in Family : steps'[f] <= Cap[f]
          /\ windows' \in 0..MaxResumes /\ delegation' \in Delegation \cup {None}
      BY <3>1, <3>2 DEF TypeOK
    <3> QED
      BY <2>5, <2>6, <2>7, <3>1, <3>2, <3>3, StreamTypes
  <2>9. CallInv' /\ DelegationInv'
    BY <2>1, <2>2 DEF CallInv, DelegationInv, subVars, serverVars
  <2>10. BatchInv'
    BY <2>1, <2>2, <2>7 DEF Inv, TypeOK, BatchInv
  <2>11. UNCHANGED serverVars /\ driver' = driver /\ ran' = ran /\ outcome' = outcome
    BY <2>1 DEF driveVars
  <2>12. ServerInv' /\ RepeatInv' /\ PromotionInv'
    BY <2>11, ServerFrame
  <2> QED
    BY <2>8, <2>9, <2>10, <2>12 DEF Inv
<1>5. CASE SubagentStarts
  <2>1. /\ NextCall("main") \in Delegation /\ delegation' = NextCall("main")
        /\ UNCHANGED <<driveVars, rig, steps, todo, results, queue, serverVars,
                       overVars, outcome, ran>>
    BY <1>5 DEF SubagentStarts, history
  <2>2. /\ driver = "running"
        /\ rig["main"] = "batch" /\ todo["main"] # <<>> /\ request = None
    BY <2>1 DEF NextCall, Polled, Calls
  <2>3. TypeOK'
    BY <2>1 DEF Inv, TypeOK, driveVars, serverVars, overVars
  <2>4. CallInv' /\ DelegationInv' /\ BatchInv'
    BY <2>1, <2>2 DEF Inv, CallInv, DelegationInv, BatchInv, driveVars, serverVars
  <2>5. UNCHANGED serverVars /\ driver' = driver /\ ran' = ran /\ outcome' = outcome
    BY <2>1 DEF driveVars
  <2>6. ServerInv' /\ RepeatInv' /\ PromotionInv'
    BY <2>5, ServerFrame
  <2> QED
    BY <2>3, <2>4, <2>6 DEF Inv
<1>6. CASE DriverAbandons \/ DriverPanics
  <2>1. PICK how \in {"abandoned", "panic"} : \E folded : Leaves(how, folded)
    BY <1>6, Zenon DEF DriverAbandons, DriverPanics
  <2>2. /\ driver = "running" /\ FuturesDrop
        /\ UNCHANGED <<windows, serverVars, overVars, outcome, ran, issuer, spoke>>
    BY <1>6, Zenon DEF DriverAbandons, DriverPanics
  <2> QED
    BY <2>1, <2>2, DropStep
<1>7. CASE DriverLeaves
  <2>1. /\ driver = "leaving" /\ (request = None \/ reply # "none")
        /\ driver' = "left" /\ request' = None /\ reply' = "none"
        /\ UNCHANGED <<exit, windows, rig, steps, todo, results, subVars, queue, server,
                       arrivals, promotions, overVars, outcome, ran>>
    BY <1>7 DEF DriverLeaves, streamVars, history
  <2>2. server = "idle"
    BY <2>1 DEF Inv, ServerInv, TypeOK
  <2>3. TypeOK'
    BY <2>1 DEF Inv, TypeOK, subVars, overVars
  <2>4. CallInv' /\ DelegationInv' /\ BatchInv'
    BY <2>1 DEF Inv, CallInv, DelegationInv, BatchInv
  <2>7. ServerInv'
    BY <2>1, <2>2 DEF Inv, ServerInv
  <2>5. RepeatInv'
    BY <2>1, <2>2 DEF Inv, RepeatInv, Ran, Running
  <2>6. PromotionInv'
    BY <2>1 DEF Inv, PromotionInv, Lists
  <2> QED
    BY <2>3, <2>4, <2>5, <2>6, <2>7 DEF Inv
<1> QED
  BY <1>1, <1>2, <1>3, <1>4, <1>5, <1>6, <1>7, Zenon DEF DriverMoves

-----------------------------------------------------------------------------
(***************************************************************************)
(* Steps of the server                                                     *)
(***************************************************************************)
\* A step of the server moves neither the driver nor the streams.
LEMMA StreamFrame ==
  ASSUME Inv, UNCHANGED <<driver, rig, todo, results, delegation, request>>
  PROVE  CallInv' /\ DelegationInv' /\ BatchInv'
BY DEF Inv, CallInv, DelegationInv, BatchInv

\* The row of the call that the server was asked for.
LEMMA RecordsTypes ==
  ASSUME Inv, request # None, Records
  PROVE  queue' \in [Family -> Seq(Calls)]
<1>1. request.call \in Calls /\ request.family \in Family
  BY DEF Inv, TypeOK, Calls
<1>2. queue \in [Family -> Seq(Calls)]
  BY DEF Inv, TypeOK
<1>3. Append(queue[request.family], request.call) \in Seq(Calls)
  BY <1>1, <1>2, AppendProperties
<1> QED
  BY <1>1, <1>2, <1>3 DEF Records

\* Executing a call adds its position to those of its signature.
LEMMA RanGrows ==
  ASSUME Inv, NEW c, ran' = Append(ran, c), NEW s
  PROVE  /\ Ran(s)' = IF Signature[c] = s THEN Ran(s) \cup {Len(ran) + 1} ELSE Ran(s)
         /\ Len(ran) + 1 \notin Ran(s)
         /\ IsFiniteSet(Ran(s))
<1>1. ran \in Seq(Plain \cup Sub)
  BY DEF Inv, TypeOK
<1>2. /\ Len(ran) \in Nat /\ DOMAIN ran = 1..Len(ran)
      /\ DOMAIN ran' = 1..(Len(ran) + 1)
      /\ \A i \in 1..Len(ran) : ran'[i] = ran[i]
      /\ ran'[Len(ran) + 1] = c
  BY <1>1
<1>3. IsFiniteSet(1..Len(ran))
  BY <1>2, FS_Interval
<1>4. Ran(s) \subseteq 1..Len(ran)
  BY <1>2 DEF Ran
<1> QED
  BY <1>2, <1>3, <1>4, FS_Subset DEF Ran

\* A longer list of executions, and the same choice of them one longer when
\* the last is one of the chosen.
LEMMA ListsGrow ==
  ASSUME NEW S, NEW A, NEW t \in Seq(A), NEW s \in Seq(S), NEW c \in S,
         Lists(t, s, A)
  PROVE  /\ c \in A => Lists(Append(t, c), Append(s, c), A)
         /\ c \notin A => Lists(t, Append(s, c), A)
<1> DEFINE n == Len(t)
           m == Len(s)
           u == Append(s, c)
           v == Append(t, c)
<1>1. PICK at \in [1..n -> 1..m] :
        /\ \A i, j \in 1..n : i < j => at[i] < at[j]
        /\ \A i \in 1..n : t[i] = s[at[i]]
        /\ {at[i] : i \in 1..n} = {j \in 1..m : s[j] \in A}
  <2>1. DOMAIN t = 1..n /\ DOMAIN s = 1..m
    OBVIOUS
  <2> HIDE DEF n, m
  <2>2. PICK at \in [DOMAIN t -> DOMAIN s] :
          /\ \A i, j \in DOMAIN t : i < j => at[i] < at[j]
          /\ \A i \in DOMAIN t : t[i] = s[at[i]]
          /\ {at[i] : i \in DOMAIN t} = {j \in DOMAIN s : s[j] \in A}
    BY DEF Lists
  <2>3. at \in [1..n -> 1..m]
    BY <2>1, <2>2
  <2>4. {at[i] : i \in 1..n} = {j \in 1..m : s[j] \in A}
    BY <2>1, <2>2
  <2> QED
    BY <2>1, <2>2, <2>3, <2>4
<1>2. /\ n \in Nat /\ m \in Nat
      /\ DOMAIN t = 1..n /\ DOMAIN u = 1..(m + 1)
      /\ \A j \in 1..m : u[j] = s[j]
      /\ u[m + 1] = c
  OBVIOUS
<1>3. ASSUME c \in A PROVE Lists(v, u, A)
  <2> DEFINE bt == [i \in 1..(n + 1) |-> IF i = n + 1 THEN m + 1 ELSE at[i]]
  <2>1. /\ DOMAIN v = 1..(n + 1) /\ v[n + 1] = c
        /\ \A i \in 1..n : v[i] = t[i]
    BY <1>3
  <2> HIDE DEF u, v, n, m
  <2>2. bt \in [1..(n + 1) -> 1..(m + 1)]
    BY <1>1, <1>2
  <2>3. /\ bt[n + 1] = m + 1
        /\ \A i \in 1..n : bt[i] = at[i] /\ at[i] \in 1..m
    BY <1>1, <1>2
  <2>4. \A i \in 1..(n + 1) : i = n + 1 \/ i \in 1..n
    BY <1>2
  <2>5. \A i, j \in 1..(n + 1) : i < j => bt[i] < bt[j]
    BY <1>1, <1>2, <2>3, <2>4
  <2>6. \A i \in 1..(n + 1) : v[i] = u[bt[i]]
    BY <1>1, <1>2, <2>1, <2>3, <2>4
  <2> HIDE DEF bt
  <2>7. {bt[i] : i \in 1..(n + 1)} = {j \in 1..(m + 1) : u[j] \in A}
    <3>1. ASSUME NEW i \in 1..(n + 1) PROVE bt[i] \in 1..(m + 1) /\ u[bt[i]] \in A
      <4>1. CASE i = n + 1
        BY <1>2, <1>3, <2>3, <4>1
      <4>2. CASE i \in 1..n
        <5>1. at[i] \in {j \in 1..m : s[j] \in A}
          BY <1>1, <4>2
        <5> QED
          BY <1>2, <2>3, <4>2, <5>1
      <4> QED
        BY <2>4, <4>1, <4>2
    <3>2. ASSUME NEW j \in 1..(m + 1), u[j] \in A
          PROVE  \E i \in 1..(n + 1) : bt[i] = j
      <4>1. CASE j = m + 1
        BY <1>2, <2>3, <4>1
      <4>2. CASE j \in 1..m
        <5>2. s[j] \in A
          BY <1>2, <3>2, <4>2
        <5>3. j \in {k \in 1..m : s[k] \in A}
          BY <4>2, <5>2
        <5>4. {at[i] : i \in 1..n} = {k \in 1..m : s[k] \in A}
          BY <1>1
        <5>1. j \in {at[i] : i \in 1..n}
          BY <5>3, <5>4, Zenon
        <5>5. PICK i \in 1..n : at[i] = j
          BY <5>1
        <5>6. i \in 1..(n + 1)
          BY <1>2, <5>5
        <5> QED
          BY <2>3, <5>5, <5>6, Zenon
      <4> QED
        BY <1>2, <4>1, <4>2
    <3> QED
      BY <3>1, <3>2
  <2>8. DOMAIN u = 1..(m + 1)
    BY <1>2
  <2>9. bt \in [DOMAIN v -> DOMAIN u]
    BY <2>1, <2>2, <2>8
  <2>10. /\ \A i, j \in DOMAIN v : i < j => bt[i] < bt[j]
         /\ \A i \in DOMAIN v : v[i] = u[bt[i]]
    BY <2>1, <2>5, <2>6
  <2>11. {bt[i] : i \in DOMAIN v} = {j \in DOMAIN u : u[j] \in A}
    BY <2>1, <2>7, <2>8
  <2> QED
    BY <2>9, <2>10, <2>11, Zenon DEF Lists
<1>4. ASSUME c \notin A PROVE Lists(t, u, A)
  <2> HIDE DEF u, n, m
  <2>1. at \in [1..n -> 1..(m + 1)]
    BY <1>1, <1>2
  <2>2. \A i \in 1..n : t[i] = u[at[i]]
    BY <1>1, <1>2
  <2>3. {j \in 1..(m + 1) : u[j] \in A} = {j \in 1..m : s[j] \in A}
    BY <1>2, <1>4
  <2>4. at \in [DOMAIN t -> DOMAIN u]
    BY <1>2, <2>1
  <2>5. /\ \A i, j \in DOMAIN t : i < j => at[i] < at[j]
        /\ \A i \in DOMAIN t : t[i] = u[at[i]]
    BY <1>1, <1>2, <2>2
  <2>6. {at[i] : i \in DOMAIN t} = {j \in DOMAIN u : u[j] \in A}
    BY <1>1, <1>2, <2>3
  <2> QED
    BY <2>4, <2>5, <2>6, Zenon DEF Lists
<1> QED
  BY <1>3, <1>4

\* The detector counts an arrival of the call's signature.
LEMMA ArrivalCounted ==
  ASSUME Inv, request # None, arrivals' = [arrivals EXCEPT ![Sig] = @ + 1]
  PROVE  /\ arrivals' \in [{Signature[c] : c \in Plain \cup Sub} -> Nat]
         /\ DOMAIN arrivals' = DOMAIN arrivals /\ Sig \in DOMAIN arrivals
         /\ \A s \in DOMAIN arrivals : /\ arrivals[s] \in Nat
                                       /\ arrivals'[s] = IF s = Sig THEN arrivals[s] + 1
                                                                    ELSE arrivals[s]
<1> DEFINE D == {Signature[c] : c \in Plain \cup Sub}
<1>1. request.call \in Plain \cup Sub
  BY DEF Inv, TypeOK
<1>2. Sig \in D
  BY <1>1 DEF Sig
<1>3. arrivals \in [D -> Nat]
  BY DEF Inv, TypeOK
<1> HIDE DEF D
<1>4. arrivals[Sig] + 1 \in Nat
  BY <1>2, <1>3
<1>5. /\ arrivals' \in [D -> Nat] /\ DOMAIN arrivals' = D /\ DOMAIN arrivals = D
      /\ \A s \in D : arrivals'[s] = IF s = Sig THEN arrivals[s] + 1 ELSE arrivals[s]
  BY <1>2, <1>3, <1>4
<1> QED
  BY <1>2, <1>3, <1>5 DEF D

LEMMA RanCount ==
  ASSUME Inv, NEW s PROVE Cardinality(Ran(s)) \in Nat
<1>1. Ran(s) \subseteq 1..Len(ran) /\ Len(ran) \in Nat
  BY DEF Inv, TypeOK, Ran
<1>2. IsFiniteSet(1..Len(ran))
  BY <1>1, FS_Interval
<1>3. IsFiniteSet(Ran(s))
  BY <1>1, <1>2, FS_Subset
<1> QED
  BY <1>3, FS_CardinalityType

\* A step that executes nothing and lets no call pass: the counts only rise.
LEMMA RepeatFrame ==
  ASSUME Inv, ran' = ran, server' # "executing", DOMAIN arrivals' = DOMAIN arrivals,
         \A s \in DOMAIN arrivals : arrivals'[s] \in Nat /\ arrivals'[s] >= arrivals[s]
  PROVE  RepeatInv'
<1>1. ASSUME NEW s \in DOMAIN arrivals
      PROVE  /\ Cardinality(Ran(s)') + Running(s)' <= arrivals'[s]
             /\ Cardinality(Ran(s)') + Running(s)' < SteerAt
  <2>1. Ran(s)' = Ran(s)
    BY DEF Ran
  <2>2. Running(s)' = 0 /\ Running(s) \in {0, 1}
    BY DEF Running
  <2>3. Cardinality(Ran(s)) \in Nat
    BY RanCount
  <2>4. Cardinality(Ran(s)) + Running(s) <= arrivals[s]
        /\ Cardinality(Ran(s)) + Running(s) < SteerAt
    BY DEF Inv, RepeatInv
  <2>5. arrivals[s] \in Nat /\ SteerAt \in Nat
    BY LoopAssumption DEF Inv, TypeOK
  <2> QED
    BY <2>1, <2>2, <2>3, <2>4, <2>5
<1> QED
  BY <1>1 DEF RepeatInv

\* What the server records and executes after it let a call pass, and what it
\* refuses.
LEMMA ServerStep ==
  ASSUME Inv, ServerMoves
  PROVE  Inv'
<1> USE LoopAssumption
<1>1. CASE ServerCancels
  <2>1. /\ server = "idle" /\ request # None /\ reply' = "cancelled"
        /\ UNCHANGED <<driver, exit, windows, rig, steps, todo, results, delegation,
                       queue, server, request, arrivals, promotions, overVars,
                       outcome, ran>>
    BY <1>1 DEF ServerCancels, Asked, driveVars, streamVars, subVars, history
  <2>2. TypeOK'
    BY <2>1 DEF Inv, TypeOK, overVars
  <2>3. CallInv' /\ DelegationInv' /\ BatchInv'
    BY <2>1, StreamFrame
  <2>4. ServerInv'
    BY <2>1 DEF Inv, ServerInv
  <2>5. RepeatInv' /\ PromotionInv'
    BY <2>1 DEF Inv, RepeatInv, Ran, Running, Sig, PromotionInv, Lists
  <2> QED
    BY <2>2, <2>3, <2>4, <2>5 DEF Inv
<1>2. CASE ServerRefuses
  <2>1. /\ server = "idle" /\ request # None /\ reply = "none" /\ server' = "recorded"
        /\ arrivals' = [arrivals EXCEPT ![Sig] = @ + 1]
        /\ aborted' = (aborted \/ arrivals'[Sig] > SteerAt)
        /\ Records
        /\ UNCHANGED <<driver, exit, windows, rig, steps, todo, results, delegation,
                       request, reply, promotions, gateOver, flag, timedOut,
                       notified, outcome, ran>>
    BY <1>2 DEF ServerRefuses, Asked, driveVars, streamVars, subVars
  <2>2. aborted' \in BOOLEAN
    BY <2>1, Zenon
  <2>3. /\ arrivals' \in [{Signature[c] : c \in Plain \cup Sub} -> Nat]
        /\ DOMAIN arrivals' = DOMAIN arrivals
        /\ \A s \in DOMAIN arrivals : arrivals'[s] \in Nat /\ arrivals'[s] >= arrivals[s]
    BY <2>1, ArrivalCounted
  <2>4. queue' \in [Family -> Seq(Calls)]
    BY <2>1, RecordsTypes
  <2>5. TypeOK'
    BY <2>1, <2>2, <2>3, <2>4 DEF Inv, TypeOK
  <2>6. CallInv' /\ DelegationInv' /\ BatchInv'
    BY <2>1, StreamFrame
  <2>7. ServerInv'
    BY <2>1 DEF Inv, ServerInv
  <2>8. RepeatInv'
    BY <2>1, <2>3, RepeatFrame
  <2>9. PromotionInv'
    BY <2>1 DEF Inv, PromotionInv, Lists
  <2> QED
    BY <2>5, <2>6, <2>7, <2>8, <2>9 DEF Inv
<1>3. CASE ServerStarts
  <2>1. /\ server = "idle" /\ request # None /\ reply = "none" /\ server' = "executing"
        /\ arrivals[Sig] + 1 < SteerAt
        /\ arrivals' = [arrivals EXCEPT ![Sig] = @ + 1]
        /\ UNCHANGED <<driver, exit, windows, rig, steps, todo, results, delegation,
                       queue, request, reply, promotions, overVars, outcome, ran>>
    BY <1>3 DEF ServerStarts, Asked, driveVars, streamVars, subVars, history
  <2>2. arrivals' \in [{Signature[c] : c \in Plain \cup Sub} -> Nat]
    BY <2>1, ArrivalCounted
  <2>3. TypeOK'
    BY <2>1, <2>2 DEF Inv, TypeOK, overVars
  <2>4. CallInv' /\ DelegationInv' /\ BatchInv'
    BY <2>1, StreamFrame
  <2>5. ServerInv'
    BY <2>1 DEF Inv, ServerInv
  <2>6. RepeatInv'
    <3>1. ASSUME NEW s \in DOMAIN arrivals
          PROVE  /\ Cardinality(Ran(s)') + Running(s)' <= arrivals'[s]
                 /\ Cardinality(Ran(s)') + Running(s)' < SteerAt
      <4>1. Ran(s)' = Ran(s) /\ Cardinality(Ran(s)) \in Nat
        BY <2>1, RanCount DEF Ran
      <4>2. Running(s) = 0 /\ Running(s)' = IF s = Sig THEN 1 ELSE 0
        BY <2>1 DEF Running, Sig
      <4>3. Cardinality(Ran(s)) + Running(s) <= arrivals[s]
            /\ Cardinality(Ran(s)) + Running(s) < SteerAt
        BY DEF Inv, RepeatInv
      <4>4. arrivals[s] \in Nat /\ arrivals'[s] = IF s = Sig THEN arrivals[s] + 1 ELSE arrivals[s]
        BY <2>1, ArrivalCounted
      <4>5. SteerAt \in Nat
        OBVIOUS
      <4> QED
        BY <2>1, <4>1, <4>2, <4>3, <4>4, <4>5
    <3>2. DOMAIN arrivals' = DOMAIN arrivals
      BY <2>1, ArrivalCounted
    <3> QED
      BY <3>1, <3>2 DEF RepeatInv
  <2>7. PromotionInv'
    BY <2>1 DEF Inv, PromotionInv, Lists
  <2> QED
    BY <2>3, <2>4, <2>5, <2>6, <2>7 DEF Inv
<1>4. CASE ServerExecutes
  <2>1. /\ server = "executing" /\ server' = "recorded" /\ Records
        /\ ran' = Append(ran, request.call)
        /\ promotions' = IF request.call \in Promoting
                         THEN Append(promotions, request.call) ELSE promotions
        /\ UNCHANGED <<driver, exit, windows, rig, steps, todo, results, delegation,
                       request, reply, arrivals, overVars, outcome>>
    BY <1>4 DEF ServerExecutes, driveVars, streamVars, subVars
  <2>2. request # None /\ reply = "none" /\ request.call \in Plain \cup Sub
    BY <2>1 DEF Inv, ServerInv, TypeOK
  <2>3. promotions \in Seq(Promoting) /\ ran \in Seq(Plain \cup Sub)
    BY DEF Inv, TypeOK
  <2>4. promotions' \in Seq(Promoting) /\ ran' \in Seq(Plain \cup Sub)
    BY <2>1, <2>2, <2>3, AppendProperties
  <2>5. queue' \in [Family -> Seq(Calls)]
    BY <2>1, <2>2, RecordsTypes
  <2>6. TypeOK'
    BY <2>1, <2>4, <2>5 DEF Inv, TypeOK, overVars
  <2>7. CallInv' /\ DelegationInv' /\ BatchInv'
    BY <2>1, StreamFrame
  <2>8. ServerInv'
    BY <2>1, <2>2 DEF Inv, ServerInv
  <2>9. RepeatInv'
    <3>1. ASSUME NEW s \in DOMAIN arrivals
          PROVE  /\ Cardinality(Ran(s)') + Running(s)' <= arrivals[s]
                 /\ Cardinality(Ran(s)') + Running(s)' < SteerAt
      <4>1. Running(s)' = 0 /\ Running(s) = IF s = Sig THEN 1 ELSE 0
        BY <2>1 DEF Running
      <4>2. Cardinality(Ran(s)) \in Nat
        BY RanCount
      <4>3. Cardinality(Ran(s)') = Cardinality(Ran(s)) + Running(s)
        <5>1. CASE s = Sig
          <6>1. Ran(s)' = Ran(s) \cup {Len(ran) + 1}
            BY <2>1, <5>1, RanGrows DEF Sig
          <6>2. Len(ran) + 1 \notin Ran(s) /\ IsFiniteSet(Ran(s))
            BY <2>1, RanGrows
          <6>3. Cardinality(Ran(s) \cup {Len(ran) + 1}) = Cardinality(Ran(s)) + 1
            BY <6>2, FS_AddElement
          <6> QED
            BY <4>1, <5>1, <6>1, <6>3
        <5>2. CASE s # Sig
          <6>1. Ran(s)' = Ran(s)
            BY <2>1, <5>2, RanGrows DEF Sig
          <6> QED
            BY <4>1, <4>2, <5>2, <6>1
        <5> QED
          BY <5>1, <5>2
      <4>4. Cardinality(Ran(s)) + Running(s) <= arrivals[s]
            /\ Cardinality(Ran(s)) + Running(s) < SteerAt
        BY DEF Inv, RepeatInv
      <4>5. arrivals[s] \in Nat /\ SteerAt \in Nat
        BY DEF Inv, TypeOK
      <4> QED
        BY <4>1, <4>2, <4>3, <4>4, <4>5
    <3> QED
      BY <2>1, <3>1 DEF RepeatInv
  <2>10. PromotionInv'
    <3>1. Lists(promotions, ran, Promoting)
      BY DEF Inv, PromotionInv
    <3>2. Lists(promotions, ran, Promoting)'
      <4>1. Lists(promotions', ran', Promoting)
        BY <2>1, <2>2, <2>3, <3>1, ListsGrow
      <4> QED
        BY <4>1 DEF Lists
    <3>3. outcome' = None
      BY <2>1, <2>2 DEF Inv, ServerInv
    <3> QED
      BY <3>2, <3>3 DEF PromotionInv
  <2> QED
    BY <2>6, <2>7, <2>8, <2>9, <2>10 DEF Inv
<1>5. CASE ServerExecutesTraceless \/ ServerReplies \/ ServerAborts
  <2>1. /\ server # "idle" /\ server' \in {"idle", "recorded"}
        /\ \/ server' = "recorded" /\ reply' = reply
           \/ server' = "idle" /\ reply' \in {"done", "cancelled", "aborted"}
        /\ UNCHANGED <<driver, exit, windows, rig, steps, todo, results, delegation,
                       queue, request, arrivals, promotions, overVars, outcome, ran>>
    BY <1>5 DEF ServerExecutesTraceless, ServerReplies, ServerAborts,
                driveVars, streamVars, subVars, history
  <2>2. TypeOK'
    BY <2>1 DEF Inv, TypeOK, overVars
  <2>3. CallInv' /\ DelegationInv' /\ BatchInv'
    BY <2>1, StreamFrame
  <2>4. ServerInv'
    BY <2>1 DEF Inv, ServerInv
  <2>5. RepeatInv'
    <3>1. \A s \in DOMAIN arrivals : arrivals'[s] \in Nat /\ arrivals'[s] >= arrivals[s]
      <4> DEFINE D == {Signature[c] : c \in Plain \cup Sub}
      <4>1. arrivals \in [D -> Nat]
        BY DEF Inv, TypeOK
      <4> HIDE DEF D
      <4> QED
        BY <2>1, <4>1
    <3> QED
      BY <2>1, <3>1, RepeatFrame
  <2>6. PromotionInv'
    BY <2>1 DEF Inv, PromotionInv, Lists
  <2> QED
    BY <2>2, <2>3, <2>4, <2>5, <2>6 DEF Inv
<1>6. CASE Settles
  <2>1. /\ driver = "left" /\ outcome'.promotions = promotions
        /\ queue' = [queue EXCEPT !["main"] = <<>>]
        /\ UNCHANGED <<driver, exit, windows, rig, steps, todo, results, delegation,
                       serverVars, overVars, ran>>
    BY <1>6 DEF Settles, driveVars, streamVars, subVars, history
  <2>2. queue' \in [Family -> Seq(Calls)]
    BY <2>1, EmptySeq DEF Inv, TypeOK
  <2>3. TypeOK'
    BY <2>1, <2>2 DEF Inv, TypeOK, serverVars, overVars
  <2>4. CallInv' /\ DelegationInv' /\ BatchInv'
    BY <2>1, StreamFrame DEF serverVars
  <2>5. ServerInv'
    BY <2>1 DEF Inv, ServerInv, serverVars
  <2>6. RepeatInv' /\ PromotionInv'
    BY <2>1 DEF Inv, RepeatInv, Ran, Running, Sig, PromotionInv, Lists, serverVars
  <2> QED
    BY <2>2, <2>3, <2>4, <2>5, <2>6 DEF Inv
<1> QED
  BY <1>1, <1>2, <1>3, <1>4, <1>5, <1>6, Zenon DEF ServerMoves, ServerProceeds

-----------------------------------------------------------------------------
LEMMA Inductive ==
  ASSUME Inv, [Next]_vars PROVE Inv'
<1>1. ASSUME NEW f \in Family, ModelMoves(f)
      PROVE  Inv'
  BY <1>1, ModelStep
<1>2. CASE DriverMoves \/ DriverPanics
  BY <1>2, DriverStep
<1>3. CASE ServerMoves
  BY <1>3, ServerStep
<1>4. CASE UserStops \/ WatchdogStops \/ WatcherNotifies
  <2>1. /\ UNCHANGED <<driver, exit, windows, rig, steps, todo, results, delegation,
                       queue, serverVars, aborted, gateOver, outcome, ran>>
        /\ {flag', timedOut', notified'} \subseteq BOOLEAN
    <3>1. {flag, timedOut, notified} \subseteq BOOLEAN
      BY DEF Inv, TypeOK
    <3> QED
      BY <1>4, <3>1 DEF UserStops, WatchdogStops, WatcherNotifies, driveVars,
                        streamVars, subVars, history
  <2>2. TypeOK'
    BY <2>1 DEF Inv, TypeOK, serverVars
  <2>3. CallInv' /\ DelegationInv' /\ BatchInv'
    BY <2>1, StreamFrame DEF serverVars
  <2>4. UNCHANGED serverVars /\ driver' = driver /\ ran' = ran /\ outcome' = outcome
    BY <2>1
  <2>5. ServerInv' /\ RepeatInv' /\ PromotionInv'
    BY <2>4, ServerFrame
  <2> QED
    BY <2>2, <2>3, <2>5 DEF Inv
<1>5. CASE UNCHANGED vars
  <2>1. UNCHANGED <<driver, exit, windows, rig, steps, todo, results, delegation,
                    queue, serverVars, overVars, outcome, ran>>
    BY <1>5 DEF vars, driveVars, streamVars, subVars, history
  <2>2. TypeOK'
    BY <2>1 DEF Inv, TypeOK, serverVars, overVars
  <2>3. CallInv' /\ DelegationInv' /\ BatchInv'
    BY <2>1, StreamFrame DEF serverVars
  <2>4. UNCHANGED serverVars /\ driver' = driver /\ ran' = ran /\ outcome' = outcome
    BY <2>1
  <2>5. ServerInv' /\ RepeatInv' /\ PromotionInv'
    BY <2>4, ServerFrame
  <2> QED
    BY <2>2, <2>3, <2>5 DEF Inv
<1> QED
  BY <1>1, <1>2, <1>3, <1>4, <1>5, Zenon DEF Next, Done

\* The invariant holds of every turn of the loop, whatever its calls, caps and
\* threshold.
THEOREM InvHolds == Spec => []Inv
<1>1. Init => Inv
  BY InitInv
<1>2. Inv /\ [Next]_vars => Inv'
  BY Inductive
<1> QED
  BY <1>1, <1>2, PTL DEF Spec

\* Every variable keeps its type: a window never takes more model turns than
\* its cap, and a family's batch holds only calls that the family may issue.
THEOREM TypeCorrect == Spec => []TypeOK
<1>1. Inv => TypeOK
  BY DEF Inv
<1> QED
  BY <1>1, InvHolds, PTL

\* No call runs as often as the detector's threshold, whichever family issues
\* it and in whichever window.
THEOREM RepeatsAreRefusedHolds == Spec => []RepeatsAreRefused
<1>1. ASSUME Inv, NEW s \in DOMAIN arrivals
      PROVE  Cardinality({i \in DOMAIN ran : Signature[ran[i]] = s}) < SteerAt
  <2>1. Cardinality(Ran(s)) \in Nat /\ SteerAt \in Nat
    BY <1>1, RanCount, LoopAssumption
  <2>2. Running(s) \in {0, 1}
    BY DEF Running
  <2>3. Cardinality(Ran(s)) + Running(s) < SteerAt
    BY <1>1 DEF Inv, RepeatInv
  <2>4. Cardinality(Ran(s)) < SteerAt
    BY <2>1, <2>2, <2>3
  <2> QED
    BY <2>4 DEF Ran
<1>2. Inv => RepeatsAreRefused
  BY <1>1 DEF RepeatsAreRefused
<1> QED
  BY <1>2, InvHolds, PTL

\* Whatever cut the turn, what its calls promoted is promoted once and in the
\* order of execution.
THEOREM PromotionsSurviveHolds == Spec => []PromotionsSurvive
<1>1. Inv => PromotionsSurvive
  BY DEF Inv, PromotionInv, PromotionsSurvive
<1> QED
  BY <1>1, InvHolds, PTL

-----------------------------------------------------------------------------
(***************************************************************************)
(* Rows and rounds: what RowsOf, Landed and PushCalls do to the rows of a  *)
(* sequence of rounds.  Both of the first are functions on its prefixes.   *)
(***************************************************************************)
\* A round that no call has landed in.
Waiting == {<<>>} \cup {<<Round(t, p)>> : t \in Nat, p \in Parts}
Folds == [rounds : Seq(Rounds), trips : Nat, open : BOOLEAN, batch : BOOLEAN,
          parts : Parts, trailing : Waiting, final : BOOLEAN]

\* Induction over the natural numbers, for a set of them.
LEMMA SetInduction ==
  ASSUME NEW T \in SUBSET Nat, 0 \in T, \A n \in T : n + 1 \in T
  PROVE  T = Nat
<1>1. SUFFICES ASSUME Nat \ T # {} PROVE FALSE
  OBVIOUS
<1> DEFINE R == OpToRel(<, Nat)
<1>2. IsWellFoundedOn(R, Nat)
  BY NatLessThanWellFounded
<1>3. \A x, y \in Nat : x < y => <<x, y>> \in R
  BY Zenon DEF OpToRel
<1> HIDE DEF R
<1>4. PICK x \in Nat \ T : \A y \in Nat \ T : <<y, x>> \notin R
  <2>1. Nat \ T \subseteq Nat
    OBVIOUS
  <2> QED
    BY <1>1, <1>2, <2>1, WFMin, Zenon
<1>5. x # 0 /\ x - 1 \in Nat /\ x - 1 < x
  BY <1>4
<1>6. x - 1 \in T
  BY <1>3, <1>4, <1>5
<1> QED
  BY <1>4, <1>5, <1>6

\* The rows of a sequence of rounds are a function over its prefixes.
RowsFrom(s, g, n) ==
  g = [i \in 0..n |-> IF i = 0 THEN <<>> ELSE g[i - 1] \o s[i].calls]

\* Such a function exists: the recursive definition in RowsOf has a value.
LEMMA RowsExist ==
  ASSUME NEW s, NEW n \in Nat
  PROVE  \E g : RowsFrom(s, g, n)
<1> DEFINE T == {m \in Nat : \E g : RowsFrom(s, g, m)}
<1>1. 0 \in T
  <2> DEFINE g == [i \in 0..0 |-> <<>>]
  <2>1. g = [i \in 0..0 |-> IF i = 0 THEN <<>> ELSE g[i - 1] \o s[i].calls]
    OBVIOUS
  <2> QED
    BY <2>1 DEF RowsFrom
<1>2. ASSUME NEW m \in T PROVE m + 1 \in T
  <2>1. PICK g : RowsFrom(s, g, m)
    OBVIOUS
  <2> DEFINE h == [i \in 0..(m + 1) |-> IF i = m + 1 THEN g[m] \o s[m + 1].calls ELSE g[i]]
  <2>2. m \in Nat
    OBVIOUS
  <2>3. \A i \in 0..m : g[i] = IF i = 0 THEN <<>> ELSE g[i - 1] \o s[i].calls
    BY <2>1 DEF RowsFrom
  <2>4. \A i \in 0..(m + 1) : h[i] = IF i = 0 THEN <<>> ELSE h[i - 1] \o s[i].calls
    <3> SUFFICES ASSUME NEW i \in 0..(m + 1)
                 PROVE  h[i] = IF i = 0 THEN <<>> ELSE h[i - 1] \o s[i].calls
      OBVIOUS
    <3>1. CASE i = m + 1
      <4>1. i - 1 = m /\ m \in 0..(m + 1) /\ m # m + 1 /\ i # 0
        BY <2>2, <3>1
      <4>2. h[i] = g[m] \o s[m + 1].calls /\ h[m] = g[m]
        BY <3>1, <4>1
      <4> QED
        BY <3>1, <4>1, <4>2
    <3>2. CASE i # m + 1
      <4>1. i \in 0..m /\ (i # 0 => i - 1 \in 0..(m + 1) /\ i - 1 # m + 1)
        BY <2>2, <3>2
      <4>2. h[i] = g[i] /\ (i # 0 => h[i - 1] = g[i - 1])
        BY <3>2, <4>1
      <4> QED
        BY <2>3, <4>1, <4>2
    <3> QED
      BY <3>1, <3>2
  <2>5. h = [i \in 0..(m + 1) |-> h[i]]
    OBVIOUS
  <2> HIDE DEF h
  <2>6. h = [i \in 0..(m + 1) |-> IF i = 0 THEN <<>> ELSE h[i - 1] \o s[i].calls]
    BY <2>4, <2>5
  <2>7. RowsFrom(s, h, m + 1)
    BY <2>6 DEF RowsFrom
  <2> QED
    BY <2>2, <2>7
<1> HIDE DEF T
<1>3. T = Nat
  <2>1. T \in SUBSET Nat
    BY DEF T
  <2> QED
    BY <1>1, <1>2, <2>1, SetInduction
<1> QED
  BY <1>3 DEF T

\* The function that RowsOf reads is one of them.
LEMMA RowsChosen ==
  ASSUME NEW s, Len(s) \in Nat
  PROVE  \E g : RowsFrom(s, g, Len(s)) /\ RowsOf(s) = g[Len(s)]
<1> DEFINE g == CHOOSE g : g = [i \in 0..Len(s) |-> IF i = 0 THEN <<>> ELSE g[i - 1] \o s[i].calls]
<1>1. \E h : h = [i \in 0..Len(s) |-> IF i = 0 THEN <<>> ELSE h[i - 1] \o s[i].calls]
  BY RowsExist DEF RowsFrom
<1>2. g = [i \in 0..Len(s) |-> IF i = 0 THEN <<>> ELSE g[i - 1] \o s[i].calls]
  BY <1>1, Zenon
<1>3. RowsOf(s) = g[Len(s)]
  BY Zenon DEF RowsOf
<1> QED
  BY <1>2, <1>3, Zenon DEF RowsFrom

\* Two of them agree on every prefix that both cover.
LEMMA RowsAgree ==
  ASSUME NEW s, NEW t, NEW g, NEW h, NEW m \in Nat, NEW n \in Nat, NEW k \in Nat,
         RowsFrom(s, g, m), RowsFrom(t, h, n), k <= m, k <= n,
         \A i \in 1..k : s[i] = t[i]
  PROVE  g[k] = h[k]
<1> DEFINE T == {j \in Nat : j <= k => g[j] = h[j]}
<1>1. \A i \in 0..m : g[i] = IF i = 0 THEN <<>> ELSE g[i - 1] \o s[i].calls
  BY DEF RowsFrom
<1>2. \A i \in 0..n : h[i] = IF i = 0 THEN <<>> ELSE h[i - 1] \o t[i].calls
  BY DEF RowsFrom
<1>3. 0 \in T
  BY <1>1, <1>2
<1>4. ASSUME NEW j \in T PROVE j + 1 \in T
  <2>1. j \in Nat /\ (j <= k => g[j] = h[j])
    OBVIOUS
  <2>2. SUFFICES ASSUME j + 1 <= k PROVE g[j + 1] = h[j + 1]
    BY <2>1
  <2>3. j + 1 \in 0..m /\ j + 1 \in 0..n /\ j + 1 \in 1..k /\ j + 1 # 0 /\ (j + 1) - 1 = j
    BY <2>1, <2>2
  <2>4. g[j] = h[j]
    BY <2>1, <2>2
  <2>5. g[j + 1] = g[j] \o s[j + 1].calls
    BY <1>1, <2>3
  <2>6. h[j + 1] = h[j] \o t[j + 1].calls
    BY <1>2, <2>3
  <2> QED
    BY <2>3, <2>4, <2>5, <2>6
<1> HIDE DEF T
<1>5. T = Nat
  <2>1. T \in SUBSET Nat
    BY DEF T
  <2> QED
    BY <1>3, <1>4, <2>1, SetInduction
<1> QED
  BY <1>5 DEF T

\* A sequence of rounds has the rows of its rounds, one after the other.
LEMMA RowsOfEmpty == RowsOf(<<>>) = <<>>
<1>1. PICK g : RowsFrom(<<>>, g, 0) /\ RowsOf(<<>>) = g[0]
  <2>1. Len(<<>>) = 0
    OBVIOUS
  <2> QED
    BY <2>1, RowsChosen
<1> QED
  BY <1>1 DEF RowsFrom

\* One round more adds the calls of that round.
LEMMA RowsOfAppend ==
  ASSUME NEW S, NEW s \in Seq(S), NEW r \in S
  PROVE  RowsOf(Append(s, r)) = RowsOf(s) \o r.calls
<1> DEFINE t == Append(s, r)
           n == Len(s)
<1>1. /\ n \in Nat /\ Len(t) = n + 1 /\ Len(t) \in Nat /\ t[n + 1] = r
      /\ \A i \in 1..n : t[i] = s[i]
  OBVIOUS
<1> HIDE DEF t, n
<1>2. PICK g : RowsFrom(s, g, n) /\ RowsOf(s) = g[n]
  BY <1>1, RowsChosen DEF n
<1>3. PICK h : RowsFrom(t, h, n + 1) /\ RowsOf(t) = h[n + 1]
  BY <1>1, RowsChosen
<1>4. \A i \in 0..(n + 1) : h[i] = IF i = 0 THEN <<>> ELSE h[i - 1] \o t[i].calls
  BY <1>3 DEF RowsFrom
<1>5. n + 1 \in 0..(n + 1) /\ n + 1 # 0 /\ (n + 1) - 1 = n
  BY <1>1
<1>6. h[n + 1] = h[n] \o t[n + 1].calls
  BY <1>4, <1>5
<1>7. h[n] = g[n]
  BY <1>1, <1>2, <1>3, RowsAgree
<1> QED
  BY <1>1, <1>2, <1>3, <1>6, <1>7 DEF t

\* Every sequence is built by appending.
LEMMA SeqInduction ==
  ASSUME NEW S, NEW P \in SUBSET Seq(S), <<>> \in P,
         \A s \in P, r \in S : Append(s, r) \in P
  PROVE  P = Seq(S)
<1> DEFINE T == {n \in Nat : \A s \in Seq(S) : Len(s) = n => s \in P}
<1>1. 0 \in T
  OBVIOUS
<1>2. ASSUME NEW n \in T PROVE n + 1 \in T
  <2>1. SUFFICES ASSUME NEW s \in Seq(S), Len(s) = n + 1 PROVE s \in P
    OBVIOUS
  <2>2. n \in Nat /\ \A t \in Seq(S) : Len(t) = n => t \in P
    OBVIOUS
  <2>3. s # <<>>
    BY <2>1, <2>2
  <2>4. PICK t \in Seq(S), r \in S : s = Append(t, r)
    BY <2>3, SequenceEmptyOrAppend
  <2>5. Len(t) = n
    BY <2>1, <2>2, <2>4
  <2> QED
    BY <2>2, <2>4, <2>5
<1> HIDE DEF T
<1>3. T = Nat
  <2>1. T \in SUBSET Nat
    BY DEF T
  <2> QED
    BY <1>1, <1>2, <2>1, SetInduction
<1>4. ASSUME NEW s \in Seq(S) PROVE s \in P
  <2>1. Len(s) \in T
    BY <1>3
  <2> QED
    BY <2>1 DEF T
<1> QED
  BY <1>4

\* Rows are calls.
LEMMA RowsOfType ==
  ASSUME NEW C, NEW s \in Seq([turn : Nat, parts : Parts, calls : Seq(C)])
  PROVE  RowsOf(s) \in Seq(C)
<1> DEFINE R == [turn : Nat, parts : Parts, calls : Seq(C)]
           P == {t \in Seq(R) : RowsOf(t) \in Seq(C)}
<1>1. <<>> \in P
  BY RowsOfEmpty, EmptySeq
<1>2. ASSUME NEW t \in P, NEW r \in R PROVE Append(t, r) \in P
  <2>1. t \in Seq(R) /\ RowsOf(t) \in Seq(C) /\ r.calls \in Seq(C)
    OBVIOUS
  <2>2. RowsOf(Append(t, r)) = RowsOf(t) \o r.calls
    BY <2>1, RowsOfAppend
  <2>3. RowsOf(t) \o r.calls \in Seq(C)
    BY <2>1, ConcatProperties
  <2>4. Append(t, r) \in Seq(R)
    BY <2>1, AppendProperties
  <2> QED
    BY <2>2, <2>3, <2>4
<1>3. P \in SUBSET Seq(R)
  OBVIOUS
<1> HIDE DEF P, R
<1>4. P = Seq(R)
  BY <1>1, <1>2, <1>3, SeqInduction
<1> QED
  BY <1>4 DEF P, R

\* Rows joined in either order of joining are the same rows.
LEMMA Joined ==
  ASSUME NEW a \in Seq(Calls), NEW b \in Seq(Calls), NEW c \in Seq(Calls)
  PROVE  (a \o b) \o c = a \o (b \o c)
  BY ConcatAssociative

\* Rows that land in the last round come last.
LEMMA RowsOfPush ==
  ASSUME NEW s \in Seq(Rounds), NEW rows \in Seq(Calls), s # <<>>
  PROVE  RowsOf(PushCalls(s, rows)) = RowsOf(s) \o rows
<1>1. RowsOf(s) \in Seq(Calls)
  BY RowsOfType DEF Rounds
<1>2. CASE rows = <<>>
  BY <1>1, <1>2, ConcatEmptySeq DEF PushCalls
<1>3. CASE rows # <<>>
  <2> DEFINE n == Len(s)
             t == SubSeq(s, 1, n - 1)
             r == [s[n] EXCEPT !.calls = @ \o rows]
             u == [s EXCEPT ![n].calls = @ \o rows]
  <2>1. /\ n \in Nat /\ n >= 1 /\ s[n] \in Rounds
        /\ t \in Seq(Rounds) /\ s = Append(t, s[n])
    OBVIOUS
  <2>2. s[n].calls \in Seq(Calls) /\ s[n].calls \o rows \in Seq(Calls)
    BY <2>1, ConcatProperties DEF Rounds
  <2>3. r \in Rounds /\ r.calls = s[n].calls \o rows
    BY <2>1, <2>2 DEF Rounds
  <2>4. u = [s EXCEPT ![n] = r]
    BY <2>1
  <2>5. u = Append(t, r)
    BY <2>1, <2>3, <2>4
  <2> HIDE DEF t, r, u, n
  <2>6. RowsOf(u) = RowsOf(t) \o (s[n].calls \o rows)
    BY <2>1, <2>3, <2>5, RowsOfAppend
  <2>7. RowsOf(s) = RowsOf(t) \o s[n].calls
    BY <2>1, RowsOfAppend
  <2>8. RowsOf(t) \in Seq(Calls)
    BY <2>1, RowsOfType DEF Rounds
  <2>11. (RowsOf(t) \o s[n].calls) \o rows = RowsOf(t) \o (s[n].calls \o rows)
    BY <2>2, <2>8, Joined
  <2>9. RowsOf(u) = RowsOf(s) \o rows
    BY <2>6, <2>7, <2>11
  <2>10. PushCalls(s, rows) = u
    BY <1>3 DEF PushCalls, u, n
  <2> QED
    BY <2>9, <2>10
<1> QED
  BY <1>2, <1>3

\* So are the rounds that are kept of a sequence: those that hold anything.
Bare(r) == r.parts = {} /\ r.calls = <<>>
Kept(kept, r) == IF Bare(r) THEN kept ELSE Append(kept, r)
LandedFrom(s, g, n) ==
  g = [i \in 0..n |-> IF i = 0 THEN <<>> ELSE Kept(g[i - 1], s[i])]

\* Such a function exists: the recursive definition in Landed has a value.
LEMMA LandedExist ==
  ASSUME NEW s, NEW n \in Nat
  PROVE  \E g : LandedFrom(s, g, n)
<1> DEFINE T == {m \in Nat : \E g : LandedFrom(s, g, m)}
<1>1. 0 \in T
  <2> DEFINE g == [i \in 0..0 |-> <<>>]
  <2>1. g = [i \in 0..0 |-> IF i = 0 THEN <<>> ELSE Kept(g[i - 1], s[i])]
    OBVIOUS
  <2> QED
    BY <2>1 DEF LandedFrom
<1>2. ASSUME NEW m \in T PROVE m + 1 \in T
  <2>1. PICK g : LandedFrom(s, g, m)
    OBVIOUS
  <2> DEFINE h == [i \in 0..(m + 1) |-> IF i = m + 1 THEN Kept(g[m], s[m + 1]) ELSE g[i]]
  <2>2. m \in Nat
    OBVIOUS
  <2>3. \A i \in 0..m : g[i] = IF i = 0 THEN <<>> ELSE Kept(g[i - 1], s[i])
    BY <2>1 DEF LandedFrom
  <2>4. \A i \in 0..(m + 1) : h[i] = IF i = 0 THEN <<>> ELSE Kept(h[i - 1], s[i])
    <3> SUFFICES ASSUME NEW i \in 0..(m + 1)
                 PROVE  h[i] = IF i = 0 THEN <<>> ELSE Kept(h[i - 1], s[i])
      OBVIOUS
    <3>1. CASE i = m + 1
      <4>1. i - 1 = m /\ m \in 0..(m + 1) /\ m # m + 1 /\ i # 0
        BY <2>2, <3>1
      <4>2. h[i] = Kept(g[m], s[m + 1]) /\ h[m] = g[m]
        BY <3>1, <4>1
      <4> QED
        BY <3>1, <4>1, <4>2
    <3>2. CASE i # m + 1
      <4>1. i \in 0..m /\ (i # 0 => i - 1 \in 0..(m + 1) /\ i - 1 # m + 1)
        BY <2>2, <3>2
      <4>2. h[i] = g[i] /\ (i # 0 => h[i - 1] = g[i - 1])
        BY <3>2, <4>1
      <4> QED
        BY <2>3, <4>1, <4>2
    <3> QED
      BY <3>1, <3>2
  <2>5. h = [i \in 0..(m + 1) |-> h[i]]
    OBVIOUS
  <2> HIDE DEF h
  <2>6. h = [i \in 0..(m + 1) |-> IF i = 0 THEN <<>> ELSE Kept(h[i - 1], s[i])]
    BY <2>4, <2>5
  <2>7. LandedFrom(s, h, m + 1)
    BY <2>6 DEF LandedFrom
  <2> QED
    BY <2>2, <2>7
<1> HIDE DEF T
<1>3. T = Nat
  <2>1. T \in SUBSET Nat
    BY DEF T
  <2> QED
    BY <1>1, <1>2, <2>1, SetInduction
<1> QED
  BY <1>3 DEF T

\* The function that Landed reads is one of them.
LEMMA LandedChosen ==
  ASSUME NEW s, Len(s) \in Nat
  PROVE  \E g : LandedFrom(s, g, Len(s)) /\ Landed(s) = g[Len(s)]
<1> DEFINE g == CHOOSE g : g = [i \in 0..Len(s) |->
                   IF i = 0 THEN <<>>
                   ELSE IF s[i].parts = {} /\ s[i].calls = <<>> THEN g[i - 1]
                   ELSE Append(g[i - 1], s[i])]
<1>1. PICK h : h = [i \in 0..Len(s) |-> IF i = 0 THEN <<>> ELSE Kept(h[i - 1], s[i])]
  BY LandedExist DEF LandedFrom
<1>4. h = [i \in 0..Len(s) |->
             IF i = 0 THEN <<>>
             ELSE IF s[i].parts = {} /\ s[i].calls = <<>> THEN h[i - 1]
             ELSE Append(h[i - 1], s[i])]
  BY <1>1, Zenon DEF Kept, Bare
<1>5. g = [i \in 0..Len(s) |->
             IF i = 0 THEN <<>>
             ELSE IF s[i].parts = {} /\ s[i].calls = <<>> THEN g[i - 1]
             ELSE Append(g[i - 1], s[i])]
  BY <1>4, Zenon
<1>2. g = [i \in 0..Len(s) |-> IF i = 0 THEN <<>> ELSE Kept(g[i - 1], s[i])]
  BY <1>5, Zenon DEF Kept, Bare
<1>3. Landed(s) = g[Len(s)]
  BY Zenon DEF Landed
<1> QED
  BY <1>2, <1>3, Zenon DEF LandedFrom

\* Two of them agree on every prefix that both cover.
LEMMA LandedAgree ==
  ASSUME NEW s, NEW t, NEW g, NEW h, NEW m \in Nat, NEW n \in Nat, NEW k \in Nat,
         LandedFrom(s, g, m), LandedFrom(t, h, n), k <= m, k <= n,
         \A i \in 1..k : s[i] = t[i]
  PROVE  g[k] = h[k]
<1> DEFINE T == {j \in Nat : j <= k => g[j] = h[j]}
<1>1. \A i \in 0..m : g[i] = IF i = 0 THEN <<>> ELSE Kept(g[i - 1], s[i])
  BY DEF LandedFrom
<1>2. \A i \in 0..n : h[i] = IF i = 0 THEN <<>> ELSE Kept(h[i - 1], t[i])
  BY DEF LandedFrom
<1>3. 0 \in T
  BY <1>1, <1>2
<1>4. ASSUME NEW j \in T PROVE j + 1 \in T
  <2>1. j \in Nat /\ (j <= k => g[j] = h[j])
    OBVIOUS
  <2>2. SUFFICES ASSUME j + 1 <= k PROVE g[j + 1] = h[j + 1]
    BY <2>1
  <2>3. j + 1 \in 0..m /\ j + 1 \in 0..n /\ j + 1 \in 1..k /\ j + 1 # 0 /\ (j + 1) - 1 = j
    BY <2>1, <2>2
  <2>4. g[j] = h[j]
    BY <2>1, <2>2
  <2>5. g[j + 1] = Kept(g[j], s[j + 1])
    BY <1>1, <2>3
  <2>6. h[j + 1] = Kept(h[j], t[j + 1])
    BY <1>2, <2>3
  <2> QED
    BY <2>3, <2>4, <2>5, <2>6
<1> HIDE DEF T
<1>5. T = Nat
  <2>1. T \in SUBSET Nat
    BY DEF T
  <2> QED
    BY <1>3, <1>4, <2>1, SetInduction
<1> QED
  BY <1>5 DEF T

\* Of no round none is kept.
LEMMA LandedEmpty == Landed(<<>>) = <<>>
<1>1. PICK g : LandedFrom(<<>>, g, 0) /\ Landed(<<>>) = g[0]
  <2>1. Len(<<>>) = 0
    OBVIOUS
  <2> QED
    BY <2>1, LandedChosen
<1> QED
  BY <1>1 DEF LandedFrom

\* A round more is kept after the others, if it holds anything.
LEMMA LandedAppend ==
  ASSUME NEW S, NEW s \in Seq(S), NEW r \in S
  PROVE  Landed(Append(s, r)) = Kept(Landed(s), r)
<1> DEFINE t == Append(s, r)
           n == Len(s)
<1>1. /\ n \in Nat /\ Len(t) = n + 1 /\ Len(t) \in Nat /\ t[n + 1] = r
      /\ \A i \in 1..n : t[i] = s[i]
  OBVIOUS
<1> HIDE DEF t, n
<1>2. PICK g : LandedFrom(s, g, n) /\ Landed(s) = g[n]
  BY <1>1, LandedChosen DEF n
<1>3. PICK h : LandedFrom(t, h, n + 1) /\ Landed(t) = h[n + 1]
  BY <1>1, LandedChosen
<1>4. \A i \in 0..(n + 1) : h[i] = IF i = 0 THEN <<>> ELSE Kept(h[i - 1], t[i])
  BY <1>3 DEF LandedFrom
<1>5. n + 1 \in 0..(n + 1) /\ n + 1 # 0 /\ (n + 1) - 1 = n
  BY <1>1
<1>6. h[n + 1] = Kept(h[n], t[n + 1])
  BY <1>4, <1>5
<1>7. h[n] = g[n]
  BY <1>1, <1>2, <1>3, LandedAgree
<1> QED
  BY <1>1, <1>2, <1>3, <1>6, <1>7 DEF t

\* What is kept has the rows of what there was.
LEMMA LandedRows ==
  ASSUME NEW s \in Seq(Rounds)
  PROVE  Landed(s) \in Seq(Rounds) /\ RowsOf(Landed(s)) = RowsOf(s)
<1> DEFINE P == {t \in Seq(Rounds) : Landed(t) \in Seq(Rounds) /\ RowsOf(Landed(t)) = RowsOf(t)}
<1>1. <<>> \in P
  BY RowsOfEmpty, LandedEmpty, EmptySeq
<1>2. ASSUME NEW t \in P, NEW r \in Rounds PROVE Append(t, r) \in P
  <2>1. t \in Seq(Rounds) /\ Landed(t) \in Seq(Rounds) /\ RowsOf(Landed(t)) = RowsOf(t)
    OBVIOUS
  <2>2. Append(t, r) \in Seq(Rounds) /\ Append(Landed(t), r) \in Seq(Rounds)
    BY <2>1, AppendProperties
  <2>3. Landed(Append(t, r)) = Kept(Landed(t), r) /\ RowsOf(Append(t, r)) = RowsOf(t) \o r.calls
    BY <2>1, LandedAppend, RowsOfAppend
  <2>4. CASE Bare(r)
    <3>1. RowsOf(t) \in Seq(Calls)
      BY <2>1, RowsOfType DEF Rounds
    <3>2. RowsOf(t) \o r.calls = RowsOf(t)
      BY <2>4, <3>1, ConcatEmptySeq DEF Bare
    <3> QED
      BY <2>1, <2>2, <2>3, <2>4, <3>2 DEF Kept
  <2>5. CASE ~Bare(r)
    <3>1. Landed(Append(t, r)) = Append(Landed(t), r)
      BY <2>3, <2>5 DEF Kept
    <3>2. RowsOf(Append(Landed(t), r)) = RowsOf(Landed(t)) \o r.calls
      BY <2>1, RowsOfAppend
    <3> QED
      BY <2>1, <2>2, <2>3, <3>1, <3>2
  <2> QED
    BY <2>4, <2>5
<1>3. P \in SUBSET Seq(Rounds)
  OBVIOUS
<1> HIDE DEF P
<1>4. P = Seq(Rounds)
  BY <1>1, <1>2, <1>3, SeqInduction
<1> QED
  BY <1>4 DEF P

\* Every round that is kept was there.
LEMMA LandedElements ==
  ASSUME NEW s \in Seq(Rounds)
  PROVE  \A i \in DOMAIN Landed(s) : \E j \in DOMAIN s : Landed(s)[i] = s[j]
<1> DEFINE P == {t \in Seq(Rounds) :
                   \A i \in DOMAIN Landed(t) : \E j \in DOMAIN t : Landed(t)[i] = t[j]}
<1>1. <<>> \in P
  BY LandedEmpty, EmptySeq
<1>2. ASSUME NEW t \in P, NEW r \in Rounds PROVE Append(t, r) \in P
  <2>1. t \in Seq(Rounds) /\ \A i \in DOMAIN Landed(t) : \E j \in DOMAIN t : Landed(t)[i] = t[j]
    OBVIOUS
  <2>2. Append(t, r) \in Seq(Rounds) /\ Landed(Append(t, r)) = Kept(Landed(t), r)
    BY <2>1, AppendProperties, LandedAppend
  <2>3. \A i \in DOMAIN Landed(t) : \E j \in DOMAIN Append(t, r) : Landed(t)[i] = Append(t, r)[j]
    BY <2>1
  <2>4. CASE Bare(r)
    BY <2>2, <2>3, <2>4 DEF Kept
  <2>5. CASE ~Bare(r)
    <3>1. Landed(Append(t, r)) = Append(Landed(t), r)
      BY <2>2, <2>5 DEF Kept
    <3>2. Landed(t) \in Seq(Rounds)
      BY <2>1, LandedRows
    <3>3. Append(t, r)[Len(t) + 1] = r /\ Len(t) + 1 \in DOMAIN Append(t, r)
      BY <2>1
    <3>4. ASSUME NEW i \in DOMAIN Append(Landed(t), r)
          PROVE  \E j \in DOMAIN Append(t, r) : Append(Landed(t), r)[i] = Append(t, r)[j]
      <4>1. CASE i = Len(Landed(t)) + 1
        <5>1. Append(Landed(t), r)[i] = r
          BY <3>2, <4>1
        <5> QED
          BY <3>3, <5>1
      <4>2. CASE i # Len(Landed(t)) + 1
        <5>1. i \in DOMAIN Landed(t) /\ Append(Landed(t), r)[i] = Landed(t)[i]
          BY <3>2, <3>4, <4>2
        <5> QED
          BY <2>3, <5>1
      <4> QED
        BY <4>1, <4>2
    <3> QED
      BY <2>2, <3>1, <3>4
  <2> QED
    BY <2>4, <2>5
<1>3. P \in SUBSET Seq(Rounds)
  OBVIOUS
<1> HIDE DEF P
<1>4. P = Seq(Rounds)
  BY <1>1, <1>2, <1>3, SeqInduction
<1> QED
  BY <1>4 DEF P

\* Rows land in the last round, or in a round of their own when there is none.
LEMMA PushedRows ==
  ASSUME NEW s \in Seq(Rounds), NEW rows \in Seq(Calls)
  PROVE  /\ PushCalls(s, rows) \in Seq(Rounds)
         /\ RowsOf(PushCalls(s, rows)) = RowsOf(s) \o rows
         /\ s # <<>> =>
              /\ DOMAIN PushCalls(s, rows) = DOMAIN s
              /\ \A i \in DOMAIN s :
                   /\ PushCalls(s, rows)[i].turn = s[i].turn
                   /\ PushCalls(s, rows)[i].parts = s[i].parts
                   /\ Range(PushCalls(s, rows)[i].calls) \subseteq
                        Range(s[i].calls) \cup (IF i = Len(s) THEN Range(rows) ELSE {})
<1>1. CASE s = <<>>
  <2> DEFINE r == [Round(0, {}) EXCEPT !.calls = rows]
  <2>1. r \in Rounds /\ r.calls = rows
    BY DEF Round, Rounds, Parts
  <2> HIDE DEF r
  <2>2. <<>> \in Seq(Rounds) /\ <<>> \in Seq(Calls)
    BY EmptySeq
  <2>3. Append(<<>>, r) = <<r>> /\ <<r>> \in Seq(Rounds)
    BY <2>1
  <2>4. RowsOf(<<r>>) = rows
    <3>1. RowsOf(<<r>>) = RowsOf(<<>>) \o r.calls
      BY <2>1, <2>2, <2>3, RowsOfAppend
    <3> QED
      BY <2>1, <3>1, RowsOfEmpty, ConcatEmptySeq
  <2>5. RowsOf(s) \o rows = rows
    BY <1>1, RowsOfEmpty, ConcatEmptySeq
  <2>6. CASE rows = <<>>
    BY <1>1, <2>2, <2>5, <2>6, RowsOfEmpty DEF PushCalls
  <2>7. CASE rows # <<>>
    <3>1. PushCalls(s, rows) = <<r>>
      BY <1>1, <2>7 DEF PushCalls, r
    <3> QED
      BY <1>1, <2>3, <2>4, <2>5, <3>1
  <2> QED
    BY <2>6, <2>7
<1>2. CASE s # <<>>
  <2>1. RowsOf(PushCalls(s, rows)) = RowsOf(s) \o rows
    BY <1>2, RowsOfPush
  <2>2. CASE rows = <<>>
    BY <2>1, <2>2 DEF PushCalls
  <2>3. CASE rows # <<>>
    <3> DEFINE n == Len(s)
               r == [s[n] EXCEPT !.calls = @ \o rows]
               u == [s EXCEPT ![n] = r]
    <3>1. n \in DOMAIN s /\ s[n] \in Rounds
      BY <1>2
    <3>2. r.calls = s[n].calls \o rows /\ r.turn = s[n].turn /\ r.parts = s[n].parts
      BY <3>1 DEF Rounds
    <3>3. r.calls \in Seq(Calls) /\ s[n].calls \in Seq(Calls)
      BY <3>1, <3>2, ConcatProperties DEF Rounds
    <3>4. r \in Rounds
      BY <3>1, <3>2, <3>3 DEF Rounds
    <3>5. PushCalls(s, rows) = u
      BY <1>2, <2>3, <3>1 DEF PushCalls
    <3>6. Range(r.calls) \subseteq Range(s[n].calls) \cup Range(rows)
      <4>1. \A a, b \in Seq(Calls) : Range(a \o b) \subseteq Range(a) \cup Range(b)
        BY DEF Range
      <4> QED
        BY <3>2, <3>3, <4>1
    <3> HIDE DEF r, n
    <3>7. /\ u \in Seq(Rounds) /\ DOMAIN u = DOMAIN s /\ u[n] = r
          /\ \A i \in DOMAIN s : i # n => u[i] = s[i]
      BY <3>1, <3>4
    <3> HIDE DEF u
    <3> QED
      BY <2>1, <3>2, <3>5, <3>6, <3>7 DEF n
  <2> QED
    BY <2>2, <2>3
<1> QED
  BY <1>1, <1>2

-----------------------------------------------------------------------------
(***************************************************************************)
(* The fold                                                                *)
(***************************************************************************)
\* The fold g has the rows of f, each in the round that f has it in.
Carries(f, g) ==
  /\ g \in Folds /\ RowsOf(g.rounds) = RowsOf(f.rounds)
  /\ \A i \in DOMAIN g.rounds :
       g.rounds[i].calls = <<>> \/ \E j \in DOMAIN f.rounds : g.rounds[i] = f.rounds[j]

\* Moves that keep the rows compose.
LEMMA CarriesChain ==
  ASSUME NEW f, NEW g, NEW h, Carries(f, g), Carries(g, h)
  PROVE  Carries(f, h)
<1>1. h \in Folds /\ RowsOf(h.rounds) = RowsOf(f.rounds)
  BY DEF Carries
<1>2. ASSUME NEW i \in DOMAIN h.rounds
      PROVE  h.rounds[i].calls = <<>> \/ \E j \in DOMAIN f.rounds : h.rounds[i] = f.rounds[j]
  <2>1. CASE h.rounds[i].calls = <<>>
    BY <2>1
  <2>2. CASE h.rounds[i].calls # <<>>
    <3>1. PICK k \in DOMAIN g.rounds : h.rounds[i] = g.rounds[k]
      BY <1>2, <2>2 DEF Carries
    <3>2. \E j \in DOMAIN f.rounds : g.rounds[k] = f.rounds[j]
      BY <2>2, <3>1 DEF Carries
    <3> QED
      BY <3>1, <3>2
  <2> QED
    BY <2>1, <2>2
<1> QED
  BY <1>1, <1>2 DEF Carries

\* No round waits, and no part is open.
LEMMA NoRound == <<>> \in Waiting /\ {} \in Parts
  BY DEF Waiting, Parts

\* A fresh round has no call.
LEMMA RoundType ==
  ASSUME NEW t \in Nat, NEW p \in Parts
  PROVE  Round(t, p) \in Rounds /\ Round(t, p).calls = <<>>
  BY EmptySeq DEF Round, Rounds

\* A round without calls adds no row.
LEMMA AddedRound ==
  ASSUME NEW s \in Seq(Rounds), NEW r \in Rounds, r.calls = <<>>
  PROVE  /\ Append(s, r) \in Seq(Rounds) /\ RowsOf(Append(s, r)) = RowsOf(s)
         /\ \A i \in DOMAIN Append(s, r) :
              Append(s, r)[i].calls = <<>> \/ \E j \in DOMAIN s : Append(s, r)[i] = s[j]
<1>1. RowsOf(s) \in Seq(Calls)
  BY RowsOfType DEF Rounds
<1>2. RowsOf(Append(s, r)) = RowsOf(s) \o <<>>
  BY RowsOfAppend
<1>3. RowsOf(s) \o <<>> = RowsOf(s)
  BY <1>1, ConcatEmptySeq
<1>4. \A i \in DOMAIN Append(s, r) : (i \in DOMAIN s /\ Append(s, r)[i] = s[i]) \/ Append(s, r)[i] = r
  OBVIOUS
<1> QED
  BY <1>2, <1>3, <1>4, AppendProperties

\* What trails is flushed as a round without calls.
LEMMA FlushCarries ==
  ASSUME NEW f \in Folds
  PROVE  Carries(f, Flush(f)) /\ Flush(f).trailing = <<>> /\ Flush(f).open = f.open
         /\ Flush(f).trips = f.trips /\ Flush(f).batch = f.batch /\ Flush(f).parts = f.parts
         /\ (f.trailing = <<>> => Flush(f).rounds = f.rounds)
<1>1. /\ f.rounds \in Seq(Rounds) /\ f.trailing \in Waiting
      /\ f = [f EXCEPT !.rounds = f.rounds]
  BY DEF Folds
<1>2. /\ Flush(f).rounds = f.rounds \o f.trailing /\ Flush(f).trailing = <<>> /\ Flush(f).open = f.open
      /\ Flush(f).trips = f.trips /\ Flush(f).batch = f.batch /\ Flush(f).parts = f.parts
  BY DEF Flush, Folds
<1>3. ASSUME NEW s \in Seq(Rounds), f.rounds \o f.trailing = s
      PROVE  Flush(f) \in Folds
  <2>1. PICK w \in Waiting : w = <<>>
    BY NoRound
  <2>2. [f EXCEPT !.rounds = s, !.trailing = w] \in Folds
    BY DEF Folds
  <2> QED
    BY <1>3, <2>1, <2>2 DEF Flush
<1>4. CASE f.trailing = <<>>
  <2>1. f.rounds \o f.trailing = f.rounds
    BY <1>1, <1>4, ConcatEmptySeq
  <2> QED
    BY <1>1, <1>2, <1>3, <2>1 DEF Carries
<1>5. CASE f.trailing # <<>>
  <2>1. PICK r \in Rounds : f.trailing = <<r>> /\ r.calls = <<>>
    BY <1>1, <1>5, RoundType DEF Waiting
  <2>2. f.rounds \o f.trailing = Append(f.rounds, r)
    BY <1>1, <2>1
  <2>3. Append(f.rounds, r) \in Seq(Rounds)
    BY <1>1, <2>1, AddedRound
  <2>4. Flush(f) \in Folds
    BY <1>3, <2>2, <2>3
  <2>5. Flush(f).rounds = Append(f.rounds, r)
    BY <1>2, <2>2
  <2>6. /\ RowsOf(Append(f.rounds, r)) = RowsOf(f.rounds)
        /\ \A i \in DOMAIN Append(f.rounds, r) :
             \/ Append(f.rounds, r)[i].calls = <<>>
             \/ \E j \in DOMAIN f.rounds : Append(f.rounds, r)[i] = f.rounds[j]
    BY <1>1, <2>1, AddedRound
  <2>7. /\ RowsOf(Flush(f).rounds) = RowsOf(f.rounds)
        /\ \A i \in DOMAIN Flush(f).rounds :
             \/ Flush(f).rounds[i].calls = <<>>
             \/ \E j \in DOMAIN f.rounds : Flush(f).rounds[i] = f.rounds[j]
    BY <2>5, <2>6, Zenon
  <2> QED
    BY <1>2, <1>5, <2>4, <2>7 DEF Carries
<1> QED
  BY <1>4, <1>5

\* Fields other than the rounds are free.
LEMMA SameRounds ==
  ASSUME NEW f, NEW g \in Folds, g.rounds = f.rounds
  PROVE  Carries(f, g)
  BY DEF Carries

\* A turn that opens flushes what trailed.
LEMMA OpenCarries ==
  ASSUME NEW f \in Folds, NEW parts \in Parts
  PROVE  /\ Carries(f, OpenCall(f)) /\ OpenCall(f).open
         /\ ~f.open => OpenCall(f).trailing = <<>>
         /\ f.open => OpenCall(f) = f
         /\ Carries(f, [OpenCall(f) EXCEPT !.parts = parts])
<1> DEFINE g == [Flush(f) EXCEPT !.open = TRUE, !.trips = @ + 1, !.batch = FALSE, !.parts = {}]
<1>1. Flush(f) \in Folds /\ Carries(f, Flush(f)) /\ Flush(f).trailing = <<>>
  BY FlushCarries DEF Carries
<1>2. g \in Folds /\ g.rounds = Flush(f).rounds /\ g.trailing = <<>> /\ g.open
  <2>1. g \in Folds
    <3>1. PICK n \in Nat : n = Flush(f).trips + 1
      BY <1>1 DEF Folds
    <3>2. PICK p \in Parts : p = {}
      BY NoRound
    <3>3. [Flush(f) EXCEPT !.open = TRUE, !.trips = n, !.batch = FALSE, !.parts = p] \in Folds
      BY <1>1 DEF Folds
    <3> QED
      BY <3>1, <3>2, <3>3
  <2> QED
    BY <1>1, <2>1 DEF Folds
<1>3. Carries(f, g)
  BY <1>1, <1>2, SameRounds, CarriesChain
<1>4. Carries(f, f)
  BY SameRounds
<1>5. Carries(f, OpenCall(f)) /\ OpenCall(f) \in Folds
  <2>1. OpenCall(f) = IF f.open THEN f ELSE g
    BY DEF OpenCall
  <2> QED
    BY <1>2, <1>3, <1>4, <2>1
<1>6. OpenCall(f).open /\ (~f.open => OpenCall(f).trailing = <<>>) /\ (f.open => OpenCall(f) = f)
  BY <1>2 DEF OpenCall
<1>7. /\ [OpenCall(f) EXCEPT !.parts = parts] \in Folds
      /\ [OpenCall(f) EXCEPT !.parts = parts].rounds = OpenCall(f).rounds
  BY <1>5 DEF Folds
<1>8. Carries(f, [OpenCall(f) EXCEPT !.parts = parts])
  BY <1>5, <1>7, SameRounds, CarriesChain
<1> QED
  BY <1>5, <1>6, <1>8

\* A turn that ends without a batch parks its round.
LEMMA ParkCarries ==
  ASSUME NEW f \in Folds
  PROVE  /\ Park(f) \in Folds /\ Park(f).rounds = f.rounds /\ Park(f).open = f.open
         /\ Carries(f, Park(f))
<1> DEFINE w == IF f.parts = {} THEN <<>> ELSE <<Round(f.trips, f.parts)>>
<1>1. w \in Waiting
  BY DEF Waiting, Folds
<1> HIDE DEF w
<1>2. [f EXCEPT !.trailing = w] \in Folds
  BY <1>1 DEF Folds
<1>3. Park(f) = [f EXCEPT !.trailing = w]
  BY DEF Park, w
<1>4. Park(f) \in Folds /\ Park(f).rounds = f.rounds /\ Park(f).open = f.open
  BY <1>2, <1>3 DEF Folds
<1> QED
  BY <1>4, SameRounds

\* The turn's end parks its round or, behind a batch, leaves it to the batch.
LEMMA CloseCarries ==
  ASSUME NEW f \in Folds
  PROVE  Carries(f, CloseCall(f)) /\ ~CloseCall(f).open
<1> DEFINE g == OpenCall(f)
           h == IF g.batch THEN g ELSE Park(g)
<1>1. Carries(f, g) /\ g \in Folds
  BY NoRound, OpenCarries DEF Carries
<1> HIDE DEF g
<1>2. h \in Folds /\ Carries(g, h)
  BY <1>1, ParkCarries, SameRounds
<1>3. CloseCall(f) = [h EXCEPT !.open = FALSE]
  BY DEF CloseCall, g
<1> HIDE DEF h
<1>4. CloseCall(f) \in Folds /\ CloseCall(f).rounds = h.rounds /\ ~CloseCall(f).open
  BY <1>2, <1>3 DEF Folds
<1> QED
  BY <1>1, <1>2, <1>4, SameRounds, CarriesChain

\* A batch confirms its turn: one round more, the last, of this turn.
LEMMA ConfirmCarries ==
  ASSUME NEW f \in Folds
  PROVE  LET g == ConfirmBatch(f) IN
         /\ Carries(f, g) /\ g.trailing = <<>> /\ g.open = f.open
         /\ g.rounds # <<>> /\ g.rounds[Len(g.rounds)].turn = f.trips
<1> DEFINE waiting == UNION {f.trailing[i].parts : i \in DOMAIN f.trailing}
           parts == (waiting \cap {"thinking"}) \cup (f.parts \cap {"text"})
           r == Round(f.trips, parts)
<1>1. parts \in Parts
  BY DEF Parts
<1> HIDE DEF parts, waiting
<1>2. f.trips \in Nat /\ f.rounds \in Seq(Rounds)
  BY DEF Folds
<1>3. r \in Rounds /\ r.calls = <<>> /\ r.turn = f.trips
  BY <1>1, <1>2, RoundType DEF Round
<1>4. ConfirmBatch(f) = [f EXCEPT !.batch = TRUE, !.trailing = <<>>, !.rounds = Append(@, r)]
  BY DEF ConfirmBatch, waiting, parts, r
<1> HIDE DEF r
<1>5. /\ Append(f.rounds, r) \in Seq(Rounds) /\ RowsOf(Append(f.rounds, r)) = RowsOf(f.rounds)
      /\ \A i \in DOMAIN Append(f.rounds, r) :
           Append(f.rounds, r)[i].calls = <<>> \/ \E j \in DOMAIN f.rounds : Append(f.rounds, r)[i] = f.rounds[j]
  BY <1>2, <1>3, AddedRound
<1>6. Append(f.rounds, r) # <<>> /\ Append(f.rounds, r)[Len(Append(f.rounds, r))] = r
  BY <1>2, <1>3
<1>7. /\ ConfirmBatch(f).rounds = Append(f.rounds, r) /\ ConfirmBatch(f).trailing = <<>>
      /\ ConfirmBatch(f).open = f.open
  BY <1>4 DEF Folds
<1>8. ConfirmBatch(f) \in Folds
  <2>1. PICK s \in Seq(Rounds) : s = Append(f.rounds, r)
    BY <1>5
  <2>2. PICK w \in Waiting : w = <<>>
    BY NoRound
  <2>3. [f EXCEPT !.batch = TRUE, !.trailing = w, !.rounds = s] \in Folds
    BY DEF Folds
  <2> QED
    BY <1>4, <2>1, <2>2, <2>3
<1>9. /\ RowsOf(ConfirmBatch(f).rounds) = RowsOf(f.rounds)
      /\ \A i \in DOMAIN ConfirmBatch(f).rounds :
           \/ ConfirmBatch(f).rounds[i].calls = <<>>
           \/ \E j \in DOMAIN f.rounds : ConfirmBatch(f).rounds[i] = f.rounds[j]
  BY <1>5, <1>7, Zenon
<1> QED
  BY <1>3, <1>6, <1>7, <1>8, <1>9 DEF Carries

\* A turn that is retried drops its parts and no row.
LEMMA ResetCarries ==
  ASSUME NEW f \in Folds
  PROVE  Carries(f, ResetCall(f)) /\ ResetCall(f).trailing = <<>> /\ ~ResetCall(f).open
<1>1. Flush(f) \in Folds /\ Carries(f, Flush(f)) /\ Flush(f).trailing = <<>>
  BY FlushCarries DEF Carries
<1>2. ResetCall(f) \in Folds
  <2>1. PICK p \in Parts : p = {}
    BY NoRound
  <2>2. [Flush(f) EXCEPT !.open = FALSE, !.batch = FALSE, !.parts = p] \in Folds
    BY <1>1 DEF Folds
  <2> QED
    BY <2>1, <2>2 DEF ResetCall
<1>3. /\ ResetCall(f).rounds = Flush(f).rounds /\ ResetCall(f).trailing = <<>>
      /\ ~ResetCall(f).open
  BY <1>1 DEF ResetCall, Folds
<1> QED
  BY <1>1, <1>2, <1>3, SameRounds, CarriesChain

\* The reply leaves the thinking of its turn behind.
LEMMA FinalCarries ==
  ASSUME NEW f \in Folds
  PROVE  Carries(f, FinalResponse(f)) /\ FinalResponse(f).trailing = <<>>
         /\ FinalResponse(f).open = f.open
<1> DEFINE kept == {i \in DOMAIN f.trailing : "thinking" \in f.trailing[i].parts}
           r == Round(f.trailing[1].turn, {"thinking"})
           s == IF kept = {} THEN f.rounds ELSE Append(f.rounds, r)
<1>1. f.rounds \in Seq(Rounds) /\ f.trailing \in Waiting
  BY DEF Folds
<1>2. FinalResponse(f) = [f EXCEPT !.final = TRUE, !.trailing = <<>>, !.rounds = s]
  BY DEF FinalResponse
<1>3. kept # {} => r \in Rounds /\ r.calls = <<>>
  <2>1. SUFFICES ASSUME kept # {} PROVE f.trailing[1].turn \in Nat
    BY RoundType DEF Parts
  <2>2. PICK t \in Nat, p \in Parts : f.trailing = <<Round(t, p)>>
    BY <1>1, <2>1 DEF Waiting
  <2> QED
    BY <2>2 DEF Round
<1> HIDE DEF kept, r
<1>4. /\ s \in Seq(Rounds) /\ RowsOf(s) = RowsOf(f.rounds)
      /\ \A i \in DOMAIN s : s[i].calls = <<>> \/ \E j \in DOMAIN f.rounds : s[i] = f.rounds[j]
  BY <1>1, <1>3, AddedRound
<1> HIDE DEF s
<1>5. FinalResponse(f) \in Folds
  <2>1. PICK w \in Waiting : w = <<>>
    BY NoRound
  <2>2. [f EXCEPT !.final = TRUE, !.trailing = w, !.rounds = s] \in Folds
    BY <1>4 DEF Folds
  <2> QED
    BY <1>2, <2>1, <2>2
<1>6. /\ FinalResponse(f).rounds = s /\ FinalResponse(f).trailing = <<>>
      /\ FinalResponse(f).open = f.open
  BY <1>2 DEF Folds
<1> QED
  BY <1>4, <1>5, <1>6 DEF Carries

\* The end lands what still waits; a stream that ends in a batch leaves the
\* rounds as they are.
LEMMA FinishCarries ==
  ASSUME NEW f \in Folds
  PROVE  /\ Carries(f, Finish(f))
         /\ ~f.open /\ f.trailing = <<>> => Finish(f).rounds = f.rounds
<1> DEFINE g == IF f.open /\ ~f.batch THEN Park(f) ELSE f
<1>1. g \in Folds /\ Carries(f, g) /\ (~f.open => g = f)
  BY ParkCarries, SameRounds
<1>2. Finish(f) = Flush(g)
  BY DEF Finish
<1> HIDE DEF g
<1>3. Carries(g, Flush(g)) /\ (g.trailing = <<>> => Flush(g).rounds = g.rounds)
  BY <1>1, FlushCarries
<1> QED
  BY <1>1, <1>2, <1>3, CarriesChain

-----------------------------------------------------------------------------
(***************************************************************************)
(* Rows on their way from the server to a round                            *)
(***************************************************************************)
\* A listing depends on the set through the members of the sequence alone.
LEMMA ListsSame ==
  ASSUME NEW S, NEW T, NEW t, NEW s, \A i \in DOMAIN s : s[i] \in S <=> s[i] \in T,
         Lists(t, s, S)
  PROVE  Lists(t, s, T)
<1>1. PICK at \in [DOMAIN t -> DOMAIN s] :
        /\ \A i, j \in DOMAIN t : i < j => at[i] < at[j]
        /\ \A i \in DOMAIN t : t[i] = s[at[i]]
        /\ {at[i] : i \in DOMAIN t} = {j \in DOMAIN s : s[j] \in S}
  BY DEF Lists
<1>2. {j \in DOMAIN s : s[j] \in S} = {j \in DOMAIN s : s[j] \in T}
  OBVIOUS
<1>3. {at[i] : i \in DOMAIN t} = {j \in DOMAIN s : s[j] \in T}
  BY <1>1, <1>2
<1> QED
  BY <1>1, <1>3, Zenon DEF Lists

\* A sequence without a member of the set has the empty listing.
LEMMA ListsNothing ==
  ASSUME NEW S, NEW s, \A i \in DOMAIN s : s[i] \notin S
  PROVE  Lists(<<>>, s, S)
<1> DEFINE at == [i \in {} |-> 0]
<1>1. /\ at \in [DOMAIN <<>> -> DOMAIN s] /\ DOMAIN <<>> = {}
      /\ {j \in DOMAIN s : s[j] \in S} = {}
  OBVIOUS
<1>2. {at[i] : i \in {}} = {}
  OBVIOUS
<1> QED
  BY <1>1, <1>2 DEF Lists

\* A row added behind what waits is added behind everything.
LEMMA AppendLast ==
  ASSUME NEW a \in Seq(Calls), NEW q \in Seq(Calls), NEW c \in Calls
  PROVE  a \o Append(q, c) = Append(a \o q, c)
<1> DEFINE p == a \o Append(q, c)
           r == Append(a \o q, c)
<1>1. p \in Seq(Calls) /\ r \in Seq(Calls) /\ Len(p) = Len(r)
  OBVIOUS
<1>2. \A i \in 1..Len(p) : p[i] = r[i]
  OBVIOUS
<1> QED
  BY <1>1, <1>2, SeqEqual

\* The head of what waits may move behind what has landed.
LEMMA HeadMoves ==
  ASSUME NEW a \in Seq(Calls), NEW q \in Seq(Calls), q # <<>>
  PROVE  (a \o <<Head(q)>>) \o Tail(q) = a \o q
<1>1. Head(q) \in Calls /\ Tail(q) \in Seq(Calls) /\ <<Head(q)>> \o Tail(q) = q
  OBVIOUS
<1>2. <<Head(q)>> \in Seq(Calls)
  BY <1>1
<1>3. (a \o <<Head(q)>>) \o Tail(q) = a \o (<<Head(q)>> \o Tail(q))
  BY <1>1, <1>2, Joined
<1> QED
  BY <1>1, <1>3

\* A row made is added to a listing of the calls it belongs to, and leaves the
\* others alone.
LEMMA AppendedRow ==
  ASSUME NEW A, NEW t \in Seq(Calls), NEW s \in Seq(Calls), NEW c \in Calls, Lists(t, s, A)
  PROVE  /\ c \in A => Lists(Append(t, c), Append(s, c), A)
         /\ c \notin A => Lists(t, Append(s, c), A)
<1>1. PICK at \in [DOMAIN t -> DOMAIN s] :
        /\ \A i \in DOMAIN t : t[i] = s[at[i]]
        /\ {at[i] : i \in DOMAIN t} = {j \in DOMAIN s : s[j] \in A}
  BY DEF Lists
<1>2. \A i \in DOMAIN t : t[i] \in A
  BY <1>1
<1>3. t \in Seq(A)
  BY <1>2
<1> QED
  BY <1>3, ListsGrow

\* One element more.
LEMMA RangeAppend ==
  ASSUME NEW S, NEW s \in Seq(S), NEW c \in S
  PROVE  Range(Append(s, c)) = Range(s) \cup {c}
<1>1. /\ DOMAIN Append(s, c) = DOMAIN s \cup {Len(s) + 1} /\ Append(s, c)[Len(s) + 1] = c
      /\ \A i \in DOMAIN s : Append(s, c)[i] = s[i]
  OBVIOUS
<1> QED
  BY <1>1 DEF Range

\* The rest of a batch whose calls are distinct.
LEMMA TailDistinct ==
  ASSUME NEW S, NEW q \in Seq(S), q # <<>>,
         \A i, j \in DOMAIN q : i # j => q[i] # q[j]
  PROVE  /\ \A i, j \in DOMAIN Tail(q) : i # j => Tail(q)[i] # Tail(q)[j]
         /\ Head(q) \notin Range(Tail(q)) /\ Range(Tail(q)) \subseteq Range(q)
         /\ Head(q) \in Range(q) /\ Tail(q) \in Seq(S)
<1>1. /\ \A i \in DOMAIN Tail(q) : i \in Nat /\ i + 1 \in DOMAIN q /\ Tail(q)[i] = q[i + 1]
      /\ q[1] = Head(q) /\ 1 \in DOMAIN q /\ Tail(q) \in Seq(S)
  OBVIOUS
<1>2. ASSUME NEW i \in DOMAIN Tail(q), NEW j \in DOMAIN Tail(q), i # j
      PROVE  Tail(q)[i] # Tail(q)[j]
  <2>1. i + 1 # j + 1
    BY <1>1, <1>2
  <2> QED
    BY <1>1, <2>1
<1>3. ASSUME NEW i \in DOMAIN Tail(q) PROVE Tail(q)[i] # Head(q)
  <2>1. i + 1 # 1
    BY <1>1
  <2> QED
    BY <1>1, <2>1
<1> QED
  BY <1>1, <1>2, <1>3 DEF Range

-----------------------------------------------------------------------------
(***************************************************************************)
(* The rows of a turn: the inductive invariant                             *)
(***************************************************************************)
\* The rows that family f has, in its fold and on its channel.
RowsSoFar(f) == RowsOf(fold[f].rounds) \o queue[f]

\* The row of the request that waits has been made, if it ever will be.
Recorded == server = "recorded" \/ reply # "none"

RowTypes ==
  /\ fold \in [Family -> Folds] /\ subTrace \in [Delegation -> Seq(Calls)]
  /\ made \in Seq(Calls) /\ outcome \in Outcomes \cup {None}
  /\ issuer \in [Calls -> Nat \cup Delegation \cup {None}]

\* A request is of the family that sent it and, while the driver lives, is the
\* call at the head of its batch.  Only a driver that abandoned the turn, or
\* panicked, leaves one behind.
RequestInv ==
  /\ request # None =>
       /\ request.call \in Issues[request.family] /\ issuer[request.call] # None
       /\ IF driver = "running" THEN request.call = Head(todo[request.family])
          ELSE exit \in {"abandoned", "panic"}
  /\ driver \in {"starting", "running"} => exit = "none"

\* What waits on a channel belongs to the batch whose results have yet to
\* surface, so between two batches the channel is empty.
QueueInv ==
  driver \in {"starting", "running"} =>
    \A f \in Family :
      /\ Len(queue[f]) <= results[f] +
           (IF request # None /\ Recorded THEN IF request.family = f THEN 1 ELSE 0 ELSE 0)
      /\ rig[f] # "batch" => todo[f] = <<>>
      /\ rig[f] \notin {"batch", "results"} => results[f] = 0
      /\ rig[f] \in {"closed", "batch", "results"} => ~fold[f].open
      /\ fold[f].trailing # <<>> => rig[f] = "closed"

\* A call is issued before its row is made, a sub-agent's by a delegation that
\* runs or has landed; no delegation has a trace before it lands.
IssueInv ==
  /\ \A d \in Delegation : d \notin Range(made) => subTrace[d] = <<>>
  /\ \A c \in Range(made) : issuer[c] # None
  /\ \A c \in Plain \cup Delegation : issuer[c] \in Nat \cup {None}
  /\ \A c \in Sub : \/ issuer[c] = None
                    \/ issuer[c] \in Delegation \cap (Range(made) \cup {delegation})

\* A batch lists a call once; its delegations have not landed, and the one at
\* its head may run.  The sub-agent's channel, fold and batch are its own.
DelegationRowsInv ==
  driver \in {"starting", "running"} =>
    /\ \A i, j \in DOMAIN todo["main"] : i # j => todo["main"][i] # todo["main"][j]
    /\ \A c \in Range(todo["main"]) \cap Delegation : c \notin Range(made)
    /\ \A c \in Range(todo["sub"]) : issuer[c] = delegation
    /\ IF delegation = None
       THEN fold["sub"] = NewFold /\ queue["sub"] = <<>> /\ todo["sub"] = <<>>
       ELSE delegation = Head(todo["main"])

\* The calls of the main loop that no round has yet.
Unlanded == Range(queue["main"]) \cup Range(todo["main"])
            \cup {c \in Calls : request # None /\ request.family = "main" /\ request.call = c}

\* A landed call is in the round of the turn that issued it, and those still
\* to land were issued by the turn of the last round.
TurnInv ==
  outcome = None /\ exit # "panic" =>
    LET rounds == fold["main"].rounds IN
    /\ \A i \in DOMAIN rounds : \A c \in Range(rounds[i].calls) : issuer[c] = rounds[i].turn
    /\ \A c \in Unlanded : rounds # <<>> /\ issuer[c] = rounds[Len(rounds)].turn

MainInv ==
  outcome = None /\ exit # "panic" => Lists(RowsSoFar("main"), made, Plain \cup Delegation)

\* A sub-agent that runs has all its rows; one that landed has them too, or
\* the abandonment cut the one that was under way.
SubInv ==
  /\ driver = "running" /\ delegation # None =>
       Lists(RowsSoFar("sub"), made, SubCalls(delegation))
  /\ \A d \in Delegation \cap Range(made) :
       \/ Lists(subTrace[d], made, SubCalls(d))
       \/ /\ exit \in {"abandoned", "panic"} /\ (request # None => Recorded)
          /\ \E c \in Sub : Lists(Append(subTrace[d], c), made, SubCalls(d))

RowInv == /\ RowTypes /\ RequestInv /\ QueueInv /\ IssueInv /\ DelegationRowsInv
          /\ TurnInv /\ MainInv /\ SubInv /\ MainTraceIsExact

-----------------------------------------------------------------------------
(***************************************************************************)
(* Steps                                                                   *)
(***************************************************************************)
\* A step that moves a stream on without touching its fold or its batch, or
\* that moves the server on without a row.
LEMMA QuietStep ==
  ASSUME Inv, RowInv,
         UNCHANGED <<driver, exit, fold, queue, made, issuer, todo, results,
                     delegation, subTrace, outcome, request>>,
         Recorded => Recorded',
         \A f \in Family :
           \/ rig'[f] = rig[f]
           \/ rig[f] = "idle" /\ rig'[f] = "asked"
           \/ rig[f] = "batch" /\ todo[f] = <<>> /\ rig'[f] = "results"
  PROVE  RowInv'
<1>1. RowTypes' /\ RequestInv' /\ IssueInv'
  BY DEF RowInv, RowTypes, RequestInv, IssueInv
<1>2. QueueInv'
  BY DEF RowInv, QueueInv, Recorded, Inv, TypeOK
<1>3. DelegationRowsInv' /\ TurnInv' /\ MainInv' /\ SubInv'
  <2>1. DelegationRowsInv' /\ TurnInv'
    BY DEF RowInv, DelegationRowsInv, TurnInv, Unlanded
  <2>2. RowsSoFar("main")' = RowsSoFar("main") /\ RowsSoFar("sub")' = RowsSoFar("sub")
    BY DEF RowsSoFar
  <2>3. MainInv /\ SubInv
    BY DEF RowInv
  <2>4. MainInv'
    BY <2>2, <2>3 DEF MainInv, Lists
  <2>5. \A d : SubCalls(d)' = SubCalls(d)
    BY DEF SubCalls
  <2>6. SubInv'
    BY <2>2, <2>3, <2>5 DEF SubInv, Lists
  <2> QED
    BY <2>1, <2>4, <2>6
<1>4. MainTraceIsExact'
  BY DEF RowInv, MainTraceIsExact, Lists
<1> QED
  BY <1>1, <1>2, <1>3, <1>4 DEF RowInv

\* A step that moves nothing towards a round, while a delegation stays as it is.
LEMMA SameRows ==
  ASSUME RowInv, driver = "running", exit = "none",
         UNCHANGED <<driver, exit, fold, made, issuer, subTrace, outcome>>,
         queue' = queue, delegation' = delegation
  PROVE  MainInv' /\ SubInv'
<1>1. RowsSoFar("main")' = RowsSoFar("main") /\ RowsSoFar("sub")' = RowsSoFar("sub")
  BY DEF RowsSoFar
<1>2. MainInv'
  BY <1>1 DEF RowInv, MainInv, Lists
<1>3. \A d : SubCalls(d)' = SubCalls(d)
  BY DEF SubCalls
<1>4. delegation # None => Lists(RowsSoFar("sub"), made, SubCalls(delegation))
  BY DEF RowInv, SubInv
<1>5. ASSUME NEW d \in Delegation \cap Range(made)
      PROVE  Lists(subTrace[d], made, SubCalls(d))
  BY <1>5 DEF RowInv, SubInv
<1> QED
  BY <1>1, <1>2, <1>3, <1>4, <1>5 DEF SubInv, Lists

\* Between two batches nothing waits.
LEMMA NothingWaits ==
  ASSUME Inv, RowInv, NEW f \in Family, driver = "running", f = "main" <=> delegation = None,
         rig[f] \notin {"batch", "results"}
  PROVE  /\ queue[f] = <<>> /\ todo[f] = <<>> /\ exit = "none" /\ outcome = None
         /\ request # None => request.family # f
         /\ f = "main" => request = None /\ Unlanded = {}
<1>1. request # None => request.family # f
  BY DEF Inv, CallInv
<1>2. queue[f] = <<>>
  <2>1. Len(queue[f]) <= results[f] /\ results[f] = 0
    BY <1>1 DEF RowInv, QueueInv, Inv, TypeOK
  <2>2. queue[f] \in Seq(Calls)
    BY DEF Inv, TypeOK
  <2> QED
    BY <2>1, <2>2
<1>3. todo[f] = <<>> /\ exit = "none" /\ outcome = None
  BY DEF RowInv, QueueInv, RequestInv, Inv, ServerInv
<1>4. f = "main" => request = None
  BY <1>1 DEF Inv, CallInv, TypeOK, Family
<1>5. f = "main" => Unlanded = {}
  BY <1>2, <1>3, <1>4 DEF Unlanded, Range
<1> QED
  BY <1>1, <1>2, <1>3, <1>4, <1>5

\* A step of a family's fold between two batches.
LEMMA FoldStep ==
  ASSUME Inv, RowInv, NEW f \in Family, Polled(f), rig[f] \notin {"batch", "results"},
         NEW g, Carries(fold[f], g), fold' = [fold EXCEPT ![f] = g],
         NEW where \in {"idle", "open", "closed"}, rig' = [rig EXCEPT ![f] = where],
         g.trailing # <<>> => where = "closed", where = "closed" => ~g.open,
         UNCHANGED <<driver, exit, queue, made, issuer, todo, results, delegation,
                     subTrace, outcome, request, server, reply>>
  PROVE  RowInv'
<1>1. /\ driver = "running" /\ (f = "main" <=> delegation = None)
      /\ queue[f] = <<>> /\ exit = "none" /\ outcome = None
      /\ f = "main" => request = None /\ Unlanded = {}
  BY NothingWaits DEF Polled
<1>2. /\ fold \in [Family -> Folds] /\ fold' \in [Family -> Folds] /\ fold'[f] = g
      /\ \A h \in Family : h # f => fold'[h] = fold[h]
  BY DEF RowInv, RowTypes, Carries
<1>3. RowTypes' /\ RequestInv' /\ IssueInv'
  BY <1>2 DEF RowInv, RowTypes, RequestInv, IssueInv
<1>4. QueueInv'
  <2>1. rig'[f] = where /\ \A h \in Family : h # f => rig'[h] = rig[h]
    BY DEF Inv, TypeOK
  <2> QED
    BY <1>2, <2>1 DEF RowInv, QueueInv, Recorded
<1>5. DelegationRowsInv'
  <2>1. delegation = None => fold'["sub"] = fold["sub"]
    BY <1>1, <1>2 DEF Family
  <2> QED
    BY <2>1 DEF RowInv, DelegationRowsInv
<1>6. RowsSoFar("main")' = RowsSoFar("main") /\ RowsSoFar("sub")' = RowsSoFar("sub")
  <2>1. \A h \in Family : RowsOf(fold'[h].rounds) = RowsOf(fold[h].rounds)
    BY <1>2 DEF Carries
  <2> QED
    BY <2>1 DEF RowsSoFar, Family
<1>7. TurnInv'
  <2>1. CASE f = "main"
    <3>1. Unlanded' = {}
      BY <1>1, <2>1 DEF Unlanded
    <3>2. \A i \in DOMAIN g.rounds : \A c \in Range(g.rounds[i].calls) : issuer[c] = g.rounds[i].turn
      <4> SUFFICES ASSUME NEW i \in DOMAIN g.rounds, NEW c \in Range(g.rounds[i].calls)
                   PROVE  issuer[c] = g.rounds[i].turn
        OBVIOUS
      <4>1. g.rounds[i].calls # <<>>
        BY DEF Range
      <4>2. PICK j \in DOMAIN fold["main"].rounds : g.rounds[i] = fold["main"].rounds[j]
        BY <2>1, <4>1 DEF Carries
      <4> QED
        BY <1>1, <4>2 DEF RowInv, TurnInv
    <3> QED
      BY <1>2, <2>1, <3>1, <3>2 DEF TurnInv
  <2>2. CASE f # "main"
    <3>1. fold'["main"] = fold["main"] /\ Unlanded' = Unlanded
      BY <1>2, <2>2 DEF Unlanded, Family
    <3> QED
      BY <3>1 DEF RowInv, TurnInv
  <2> QED
    BY <2>1, <2>2
<1>8. MainInv' /\ SubInv'
  <2>1. MainInv'
    BY <1>6 DEF RowInv, MainInv, Recorded, Lists
  <2>2. SubInv
    BY DEF RowInv
  <2>3. SubInv'
    BY <1>6, <2>2 DEF SubInv, Recorded, SubCalls, Lists
  <2> QED
    BY <2>1, <2>3
<1>9. MainTraceIsExact'
  BY <1>1 DEF MainTraceIsExact
<1> QED
  BY <1>3, <1>4, <1>5, <1>7, <1>8, <1>9 DEF RowInv

\* Whatever waits to land was issued by the turn of the fold's last round.
LEMMA UnlandedIssued ==
  ASSUME RowInv, outcome = None, exit # "panic", NEW c \in Unlanded
  PROVE  /\ fold["main"].rounds # <<>> /\ issuer[c] \in Nat /\ issuer[c] # None
         /\ issuer[c] = fold["main"].rounds[Len(fold["main"].rounds)].turn
<1>1. /\ fold["main"].rounds # <<>>
      /\ issuer[c] = fold["main"].rounds[Len(fold["main"].rounds)].turn
  BY DEF RowInv, TurnInv
<1>2. fold["main"].rounds \in Seq(Rounds)
  BY DEF RowInv, RowTypes, Folds, Family
<1>3. fold["main"].rounds[Len(fold["main"].rounds)] \in Rounds
  BY <1>1, <1>2
<1> QED
  BY <1>1, <1>3, LoopAssumption DEF Rounds

\* What a landing sub-agent collects is its rounds' rows and the rows that wait.
LEMMA CollectedRows ==
  ASSUME NEW folded \in Folds, NEW rows \in Seq(Calls)
  PROVE  LET rounds == Landed(Drain(Finish(folded), rows).rounds) IN
         rounds \in Seq(Rounds) /\ RowsOf(rounds) = RowsOf(folded.rounds) \o rows
<1> DEFINE g == Finish(folded)
           s == PushCalls(g.rounds, rows)
<1>1. g \in Folds /\ RowsOf(g.rounds) = RowsOf(folded.rounds) /\ g.rounds \in Seq(Rounds)
  <2>1. g \in Folds /\ RowsOf(g.rounds) = RowsOf(folded.rounds)
    BY FinishCarries DEF Carries
  <2> QED
    BY <2>1 DEF Folds
<1>2. Drain(g, rows).rounds = s
  BY <1>1 DEF Drain, Folds
<1> HIDE DEF g
<1>3. s \in Seq(Rounds) /\ RowsOf(s) = RowsOf(g.rounds) \o rows
  BY <1>1, PushedRows
<1>4. Landed(s) \in Seq(Rounds) /\ RowsOf(Landed(s)) = RowsOf(s)
  BY <1>3, LandedRows
<1>5. RowsOf(Landed(s)) = RowsOf(folded.rounds) \o rows
  BY <1>1, <1>3, <1>4
<1> QED
  BY <1>2, <1>4, <1>5 DEF g

\* A sub-agent lands: its rows are those that its calls made, and its own row
\* is the last of the main loop's.
LEMMA CollectsStep ==
  ASSUME Inv, RowInv, driver = "running", delegation # None,
         NEW folded, Carries(fold["sub"], folded), NEW success, Collects(folded, success)
  PROVE  /\ subTrace' \in [Delegation -> Seq(Calls)] /\ made' \in Seq(Calls)
         /\ delegation \in Delegation /\ made' = Append(made, delegation)
         /\ queue' = [queue EXCEPT !["sub"] = <<>>, !["main"] = Append(@, delegation)]
         /\ delegation = Head(todo["main"]) /\ todo["main"] # <<>>
         /\ Lists(RowsOf(fold["main"].rounds) \o queue'["main"], made', Plain \cup Delegation)
         /\ \A d \in Delegation \cap Range(made') : Lists(subTrace'[d], made', SubCalls(d))
         /\ \A d \in Delegation : d \notin Range(made') => subTrace'[d] = <<>>
<1> DEFINE rounds == Landed(Drain(Finish(folded), queue["sub"]).rounds)
           d0 == delegation
<1>1. /\ subTrace' = [subTrace EXCEPT ![d0] = RowsOf(rounds)]
      /\ queue' = [queue EXCEPT !["sub"] = <<>>, !["main"] = Append(@, d0)]
      /\ made' = Append(made, d0)
  BY Zenon DEF Collects
<1>2. /\ d0 \in Delegation /\ d0 = Head(todo["main"]) /\ todo["main"] # <<>>
      /\ todo["main"] \in Seq(Calls) /\ d0 \in Range(todo["main"]) /\ d0 \notin Range(made)
      /\ d0 \in Calls /\ d0 \notin Sub
  <2>1. /\ d0 \in Delegation /\ d0 = Head(todo["main"]) /\ todo["main"] # <<>>
        /\ todo["main"] \in Seq(Calls)
    BY DEF Inv, TypeOK, DelegationInv, RowInv, DelegationRowsInv, Family
  <2>2. d0 \in Range(todo["main"])
    BY <2>1 DEF Range
  <2>3. d0 \notin Range(made)
    BY <2>1, <2>2 DEF RowInv, DelegationRowsInv
  <2> QED
    BY <2>1, <2>2, <2>3, LoopAssumption DEF Calls
<1>3. /\ queue \in [Family -> Seq(Calls)] /\ made \in Seq(Calls) /\ exit = "none" /\ outcome = None
      /\ fold["main"] \in Folds /\ subTrace \in [Delegation -> Seq(Calls)]
      /\ fold["sub"] \in Folds
  BY DEF Inv, TypeOK, ServerInv, RowInv, RowTypes, RequestInv, Family
<1>4. RowsOf(rounds) = RowsSoFar("sub") /\ RowsOf(rounds) \in Seq(Calls)
  <2>1. folded \in Folds /\ RowsOf(folded.rounds) = RowsOf(fold["sub"].rounds)
    BY DEF Carries
  <2>2. queue["sub"] \in Seq(Calls)
    BY <1>3 DEF Family
  <2>3. rounds \in Seq(Rounds) /\ RowsOf(rounds) = RowsOf(folded.rounds) \o queue["sub"]
    BY <2>1, <2>2, CollectedRows
  <2>4. RowsOf(rounds) \in Seq(Calls)
    BY <2>3, RowsOfType DEF Rounds
  <2> QED
    BY <2>1, <2>3, <2>4 DEF RowsSoFar
<1> HIDE DEF rounds
<1>5. subTrace' \in [Delegation -> Seq(Calls)] /\ made' \in Seq(Calls)
  BY <1>1, <1>2, <1>3, <1>4
<1>6. Lists(RowsOf(fold["main"].rounds) \o queue'["main"], made', Plain \cup Delegation)
  <2>1. /\ RowsOf(fold["main"].rounds) \in Seq(Calls) /\ queue["main"] \in Seq(Calls)
        /\ queue'["main"] = Append(queue["main"], d0) /\ RowsSoFar("main") \in Seq(Calls)
    BY <1>1, <1>3, RowsOfType, ConcatProperties DEF Folds, Rounds, Family, RowsSoFar
  <2>2. RowsOf(fold["main"].rounds) \o queue'["main"] = Append(RowsSoFar("main"), d0)
    <3>1. RowsOf(fold["main"].rounds) \o Append(queue["main"], d0)
            = Append(RowsOf(fold["main"].rounds) \o queue["main"], d0)
      BY <1>2, <2>1, AppendLast
    <3> QED
      BY <2>1, <3>1, Zenon DEF RowsSoFar
  <2>3. Lists(RowsSoFar("main"), made, Plain \cup Delegation)
    BY <1>3 DEF RowInv, MainInv
  <2>4. d0 \in Plain \cup Delegation
    BY <1>2
  <2>5. Lists(Append(RowsSoFar("main"), d0), Append(made, d0), Plain \cup Delegation)
    BY <1>2, <1>3, <2>1, <2>3, <2>4, AppendedRow
  <2> QED
    BY <1>1, <2>2, <2>5, Zenon
<1>7. ASSUME NEW d \in Delegation \cap Range(made')
      PROVE  Lists(subTrace'[d], made', SubCalls(d))
  <2>1. d0 \notin SubCalls(d)
    BY <1>2 DEF SubCalls
  <2>2. CASE d = d0
    <3>1. Lists(RowsSoFar("sub"), made, SubCalls(d0))
      BY DEF RowInv, SubInv
    <3> QED
      BY <1>1, <1>2, <1>3, <1>4, <2>1, <2>2, <3>1, AppendedRow
  <2>3. CASE d # d0
    <3>1. d \in Range(made)
      BY <1>1, <1>3, <1>7, <2>3 DEF Range
    <3>2. Lists(subTrace[d], made, SubCalls(d))
      BY <1>3, <3>1 DEF RowInv, SubInv
    <3>3. subTrace'[d] = subTrace[d]
      BY <1>1, <1>3, <2>3
    <3> QED
      BY <1>1, <1>2, <1>3, <2>1, <3>2, <3>3, AppendedRow
  <2> QED
    BY <2>2, <2>3
<1>8. ASSUME NEW d \in Delegation, d \notin Range(made') PROVE subTrace'[d] = <<>>
  <2>1. Range(made') = Range(made) \cup {d0}
    BY <1>1, <1>2, <1>3, RangeAppend
  <2>2. d # d0 /\ d \notin Range(made)
    BY <1>8, <2>1
  <2> QED
    BY <1>1, <1>3, <2>2 DEF RowInv, IssueInv
<1> QED
  BY <1>1, <1>2, <1>5, <1>6, <1>7, <1>8

\* A new fold has no row.
LEMMA NewFoldType ==
  NewFold \in Folds /\ RowsOf(NewFold.rounds) = <<>> /\ NewFold.rounds = <<>>
<1>1. <<>> \in Seq(Rounds) /\ <<>> \in Waiting /\ {} \in Parts
  BY EmptySeq, NoRound
<1>2. NewFold.rounds = <<>>
  BY DEF NewFold
<1> QED
  BY <1>1, <1>2, RowsOfEmpty DEF NewFold, Folds

\* The main loop's stream ends, with no batch under way.
LEMMA MainEndsStep ==
  ASSUME Inv, RowInv, Polled("main"), rig["main"] \notin {"batch", "results"},
         NEW how \in {"done", "error", "stopped", "stepCap"},
         NEW folded, Carries(fold["main"], folded), Leaves(how, Finish(folded)),
         UNCHANGED <<subVars, queue, serverVars, outcome, history>>
  PROVE  RowInv'
<1> DEFINE g == Finish(folded)
<1>1. /\ driver = "running" /\ delegation = None /\ queue["main"] = <<>> /\ exit = "none"
      /\ outcome = None /\ request = None
  BY NothingWaits DEF Polled, Family
<1>2. /\ driver' = "leaving" /\ exit' = how /\ fold' = [main |-> g, sub |-> NewFold]
      /\ todo' = [f \in Family |-> <<>>]
  BY DEF Leaves
<1>3. /\ UNCHANGED <<delegation, subTrace, queue, request, server, reply, outcome, made, issuer>>
  BY DEF subVars, serverVars, history
<1>4. Carries(fold["main"], g)
  <2>1. Carries(folded, g)
    BY FinishCarries DEF Carries
  <2> QED
    BY <2>1, CarriesChain
<1> HIDE DEF g
<1>5. /\ fold' \in [Family -> Folds] /\ fold'["main"] = g
  BY <1>2, <1>4, NewFoldType DEF Family, Carries
<1>6. RowTypes' /\ RequestInv' /\ QueueInv' /\ IssueInv' /\ DelegationRowsInv'
  BY <1>1, <1>2, <1>3, <1>5
     DEF RowInv, RowTypes, RequestInv, QueueInv, IssueInv, DelegationRowsInv
<1>7. TurnInv'
  <2>1. Unlanded' = {}
    BY <1>1, <1>2, <1>3 DEF Unlanded, Range, Family
  <2>2. \A i \in DOMAIN g.rounds : \A c \in Range(g.rounds[i].calls) : issuer[c] = g.rounds[i].turn
    <3> SUFFICES ASSUME NEW i \in DOMAIN g.rounds, NEW c \in Range(g.rounds[i].calls)
                 PROVE  issuer[c] = g.rounds[i].turn
      OBVIOUS
    <3>1. g.rounds[i].calls # <<>>
      BY DEF Range
    <3>2. PICK j \in DOMAIN fold["main"].rounds : g.rounds[i] = fold["main"].rounds[j]
      BY <1>4, <3>1 DEF Carries
    <3> QED
      BY <1>1, <3>2 DEF RowInv, TurnInv
  <2> QED
    BY <1>3, <1>5, <2>1, <2>2 DEF TurnInv
<1>8. RowsSoFar("main")' = RowsSoFar("main")
  BY <1>3, <1>4, <1>5 DEF RowsSoFar, Carries
<1>9. MainInv' /\ SubInv'
  BY <1>1, <1>2, <1>3, <1>8 DEF RowInv, MainInv, SubInv, Recorded, SubCalls, Lists
<1>10. MainTraceIsExact'
  BY <1>1, <1>3 DEF MainTraceIsExact
<1> QED
  BY <1>6, <1>7, <1>9, <1>10 DEF RowInv

\* The driver goes in the middle of a call: what it has stays in its fold, and
\* a delegation that runs lands.
LEMMA DropRows ==
  ASSUME Inv, RowInv, driver = "running", NEW how \in {"abandoned", "panic"},
         NEW g, g = Finish(fold["main"]) \/ (how = "panic" /\ g = NewFold),
         Leaves(how, g), FuturesDrop,
         UNCHANGED <<serverVars, outcome, issuer>>
  PROVE  RowInv'
<1>1. /\ driver' = "leaving" /\ exit' = how /\ fold' = [main |-> g, sub |-> NewFold]
      /\ todo' = [f \in Family |-> <<>>]
      /\ UNCHANGED <<request, server, reply, outcome, issuer>>
  BY DEF Leaves, serverVars
<1>2. /\ exit = "none" /\ outcome = None /\ fold["main"] \in Folds
      /\ queue \in [Family -> Seq(Calls)] /\ made \in Seq(Calls)
      /\ subTrace \in [Delegation -> Seq(Calls)]
  BY DEF RowInv, RequestInv, RowTypes, Inv, TypeOK, ServerInv, Family
<1>3. /\ delegation = None => UNCHANGED <<subTrace, queue, made, delegation>>
      /\ delegation # None => Collects([fold["sub"] EXCEPT !.final = FALSE], FALSE)
  BY DEF FuturesDrop, subVars
<1>4. delegation # None =>
        /\ subTrace' \in [Delegation -> Seq(Calls)] /\ made' \in Seq(Calls)
        /\ delegation \in Delegation /\ made' = Append(made, delegation)
        /\ queue' = [queue EXCEPT !["sub"] = <<>>, !["main"] = Append(@, delegation)]
        /\ delegation = Head(todo["main"]) /\ todo["main"] # <<>>
        /\ Lists(RowsOf(fold["main"].rounds) \o queue'["main"], made', Plain \cup Delegation)
        /\ \A d \in Delegation \cap Range(made') : Lists(subTrace'[d], made', SubCalls(d))
        /\ \A d \in Delegation : d \notin Range(made') => subTrace'[d] = <<>>
        /\ delegation' = None
  <2>1. SUFFICES ASSUME delegation # None PROVE Carries(fold["sub"], [fold["sub"] EXCEPT !.final = FALSE])
    BY <1>3, CollectsStep DEF Collects
  <2>2. fold["sub"] \in Folds
    BY DEF RowInv, RowTypes, Family
  <2>3. /\ [fold["sub"] EXCEPT !.final = FALSE] \in Folds
        /\ [fold["sub"] EXCEPT !.final = FALSE].rounds = fold["sub"].rounds
    BY <2>2 DEF Folds
  <2> QED
    BY <2>3, SameRounds
<1>5. Carries(fold["main"], Finish(fold["main"])) /\ g \in Folds
  BY <1>2, FinishCarries, NewFoldType DEF Carries
<1>6. /\ fold' \in [Family -> Folds] /\ fold'["main"] = g
  BY <1>1, <1>5, NewFoldType DEF Family
<1>7. subTrace' \in [Delegation -> Seq(Calls)] /\ made' \in Seq(Calls)
  BY <1>2, <1>3, <1>4
<1>8. RowTypes'
  BY <1>1, <1>6, <1>7 DEF RowInv, RowTypes
<1>9. RequestInv' /\ QueueInv' /\ DelegationRowsInv'
  BY <1>1 DEF RowInv, RequestInv, QueueInv, DelegationRowsInv
<1>10. IssueInv'
  <2>1. CASE delegation = None
    BY <1>1, <1>3, <2>1 DEF RowInv, IssueInv
  <2>2. CASE delegation # None
    <3>1. Range(made') = Range(made) \cup {delegation}
      <4>1. delegation \in Calls
        BY <1>4, <2>2 DEF Calls
      <4>2. Range(Append(made, delegation)) = Range(made) \cup {delegation}
        BY <1>2, <4>1, RangeAppend
      <4> QED
        BY <1>4, <2>2, <4>2
    <3>2. issuer[delegation] # None
      <4>3. todo["main"] \in Seq(Calls)
        BY DEF Inv, TypeOK, Family
      <4>1. delegation \in Range(todo["main"]) /\ delegation \in Calls
        BY <1>4, <2>2, <4>3 DEF Range
      <4>2. delegation \in Unlanded
        BY <4>1 DEF Unlanded
      <4> QED
        BY <1>2, <4>2, UnlandedIssued
    <3> QED
      BY <1>1, <1>4, <2>2, <3>1, <3>2 DEF RowInv, IssueInv
  <2> QED
    BY <2>1, <2>2
<1>11. TurnInv'
  <2>1. SUFFICES ASSUME how = "abandoned", g = Finish(fold["main"]) PROVE TurnInv'
    BY <1>1 DEF TurnInv
  <2>2. Unlanded' \subseteq Unlanded
    <3>1. Unlanded' = Range(queue'["main"])
            \cup {c \in Calls : request # None /\ request.family = "main" /\ request.call = c}
      BY <1>1 DEF Unlanded, Range, Family
    <3>2. CASE delegation = None
      BY <1>3, <3>1, <3>2 DEF Unlanded
    <3>3. CASE delegation # None
      <4>4. todo["main"] \in Seq(Calls)
        BY DEF Inv, TypeOK, Family
      <4>1. delegation \in Range(todo["main"]) /\ delegation \in Calls
        BY <1>4, <3>3, <4>4 DEF Range
      <4>2. queue'["main"] = Append(queue["main"], delegation) /\ queue["main"] \in Seq(Calls)
        BY <1>2, <1>4, <3>3 DEF Family
      <4>3. Range(queue'["main"]) = Range(queue["main"]) \cup {delegation}
        BY <4>1, <4>2, RangeAppend
      <4> QED
        BY <3>1, <4>1, <4>3 DEF Unlanded
    <3> QED
      BY <3>2, <3>3
  <2>3. \A i \in DOMAIN g.rounds : \A c \in Range(g.rounds[i].calls) : issuer[c] = g.rounds[i].turn
    <3> SUFFICES ASSUME NEW i \in DOMAIN g.rounds, NEW c \in Range(g.rounds[i].calls)
                 PROVE  issuer[c] = g.rounds[i].turn
      OBVIOUS
    <3>1. g.rounds[i].calls # <<>>
      BY DEF Range
    <3>2. PICK j \in DOMAIN fold["main"].rounds : g.rounds[i] = fold["main"].rounds[j]
      BY <1>5, <2>1, <3>1 DEF Carries
    <3> QED
      BY <1>2, <3>2 DEF RowInv, TurnInv
  <2>4. Unlanded # {} => g.rounds = fold["main"].rounds
    <3>1. SUFFICES ASSUME Unlanded # {} PROVE rig["main"] \in {"batch", "results"}
      <4>1. rig["main"] \in {"batch", "results"} => ~fold["main"].open /\ fold["main"].trailing = <<>>
        BY DEF RowInv, QueueInv, Family
      <4> QED
        BY <1>2, <2>1, <4>1, FinishCarries
    <3>2. CASE delegation = None
      BY <3>1, <3>2, NothingWaits DEF Family
    <3>3. CASE delegation # None
      BY <3>3 DEF Inv, DelegationInv
    <3> QED
      BY <3>2, <3>3
  <2> QED
    BY <1>1, <1>2, <1>6, UnlandedIssued, <2>2, <2>3, <2>4 DEF TurnInv
<1>12. MainInv' /\ SubInv' /\ MainTraceIsExact'
  <2>1. MainInv'
    <3>1. SUFFICES ASSUME how = "abandoned", g = Finish(fold["main"])
                   PROVE  Lists(RowsSoFar("main")', made', Plain \cup Delegation)
      BY <1>1 DEF MainInv, Lists
    <3>2. RowsOf(g.rounds) = RowsOf(fold["main"].rounds)
      BY <1>5, <3>1 DEF Carries
    <3>3. RowsSoFar("main")' = RowsOf(fold["main"].rounds) \o queue'["main"]
      BY <1>6, <3>2 DEF RowsSoFar
    <3>4. CASE delegation = None
      <4>1. RowsSoFar("main")' = RowsSoFar("main")
        BY <1>3, <3>3, <3>4 DEF RowsSoFar
      <4>2. Lists(RowsSoFar("main"), made, Plain \cup Delegation) /\ made' = made
        BY <1>2, <1>3, <3>4 DEF RowInv, MainInv
      <4> QED
        BY <4>1, <4>2
    <3>5. CASE delegation # None
      BY <1>4, <3>3, <3>5
    <3> QED
      BY <3>4, <3>5
  <2>2. SubInv'
    <3>1. ASSUME NEW d \in Delegation \cap Range(made')
          PROVE  Lists(subTrace'[d], made', SubCalls(d))
      BY <1>2, <1>3, <1>4, <3>1 DEF RowInv, SubInv
    <3>2. \A d : SubCalls(d)' = SubCalls(d)
      BY <1>1 DEF SubCalls
    <3> QED
      BY <1>1, <3>1, <3>2 DEF SubInv, Lists
  <2>3. MainTraceIsExact'
    BY <1>1, <1>2 DEF MainTraceIsExact
  <2> QED
    BY <2>1, <2>2, <2>3
<1> QED
  BY <1>8, <1>9, <1>10, <1>11, <1>12 DEF RowInv

\* A sub-agent reports to the batch that delegated to it.
LEMMA ReportsRows ==
  ASSUME Inv, RowInv, Polled("sub"), rig["sub"] \notin {"batch", "results"},
         NEW folded, Carries(fold["sub"], folded), NEW success, Reports(folded, success)
  PROVE  RowInv'
<1>1. /\ driver = "running" /\ delegation # None /\ exit = "none" /\ outcome = None
      /\ request = None
  <2>1. driver = "running" /\ delegation # None
    BY DEF Polled
  <2>2. exit = "none" /\ outcome = None /\ (request # None => request.family # "sub")
    BY <2>1, NothingWaits DEF Family
  <2> QED
    BY <2>1, <2>2 DEF Inv, CallInv, TypeOK, Family
<1>2. /\ rig' = [rig EXCEPT !["sub"] = "idle"]
      /\ todo' = [todo EXCEPT !["sub"] = <<>>, !["main"] = Tail(@)]
      /\ results' = [results EXCEPT !["sub"] = 0, !["main"] = @ + 1]
      /\ fold' = [fold EXCEPT !["sub"] = NewFold]
      /\ UNCHANGED <<driver, exit, request, server, reply, outcome, issuer>>
      /\ delegation' = None
  BY DEF Reports, Collects, driveVars, serverVars
<1>3. /\ subTrace' \in [Delegation -> Seq(Calls)] /\ made' \in Seq(Calls)
      /\ delegation \in Delegation /\ made' = Append(made, delegation)
      /\ queue' = [queue EXCEPT !["sub"] = <<>>, !["main"] = Append(@, delegation)]
      /\ delegation = Head(todo["main"]) /\ todo["main"] # <<>>
      /\ Lists(RowsOf(fold["main"].rounds) \o queue'["main"], made', Plain \cup Delegation)
      /\ \A d \in Delegation \cap Range(made') : Lists(subTrace'[d], made', SubCalls(d))
      /\ \A d \in Delegation : d \notin Range(made') => subTrace'[d] = <<>>
  BY <1>1, CollectsStep DEF Reports
<1>4. /\ rig \in [Family -> {"idle", "asked", "open", "closed", "batch", "results"}]
      /\ todo \in [Family -> Seq(Calls)] /\ results \in [Family -> Nat]
      /\ queue \in [Family -> Seq(Calls)] /\ fold \in [Family -> Folds] /\ made \in Seq(Calls)
  BY DEF Inv, TypeOK, RowInv, RowTypes
<1>5. /\ rig'["main"] = rig["main"] /\ rig'["sub"] = "idle"
      /\ todo'["main"] = Tail(todo["main"]) /\ todo'["sub"] = <<>>
      /\ results'["main"] = results["main"] + 1 /\ results'["sub"] = 0
      /\ queue'["main"] = Append(queue["main"], delegation) /\ queue'["sub"] = <<>>
      /\ fold'["main"] = fold["main"] /\ fold'["sub"] = NewFold
  BY <1>2, <1>3, <1>4 DEF Family
<1>6. RowTypes'
  BY <1>2, <1>3, <1>4, NewFoldType DEF RowInv, RowTypes, Family
<1>7. RequestInv'
  BY <1>1, <1>2 DEF RowInv, RequestInv
<1>8. QueueInv'
  <2>1. /\ Len(queue["main"]) <= results["main"] /\ rig["main"] = "batch"
        /\ ~fold["main"].open /\ fold["main"].trailing = <<>>
    <3>1. rig["main"] = "batch"
      BY <1>1 DEF Inv, DelegationInv
    <3>2. /\ Len(queue["main"]) <= results["main"] + 0 /\ results["main"] \in Nat
          /\ ~fold["main"].open /\ fold["main"].trailing = <<>>
      BY <1>1, <1>4, <3>1 DEF RowInv, QueueInv, Family
    <3> QED
      BY <3>1, <3>2
  <2>2. Len(queue'["main"]) <= results'["main"]
    <3>1. queue["main"] \in Seq(Calls) /\ results["main"] \in Nat
      BY <1>4 DEF Family
    <3>2. Len(queue'["main"]) = Len(queue["main"]) + 1
      BY <1>5, <3>1
    <3> QED
      BY <1>5, <2>1, <3>1, <3>2
  <2>3. NewFold.trailing = <<>>
    BY DEF NewFold
  <2>4. Len(queue'["sub"]) = 0
    BY <1>5
  <2>5. \A f \in Family : results'[f] \in Nat
    BY <1>4, <1>5 DEF Family
  <2>6. \A f \in Family : Len(queue'[f]) <= results'[f] + 0
    BY <1>5, <2>2, <2>4, <2>5 DEF Family
  <2>7. request' = None
    BY <1>1, <1>2
  <2>8. \A f \in Family :
          /\ rig'[f] # "batch" => todo'[f] = <<>>
          /\ rig'[f] \notin {"batch", "results"} => results'[f] = 0
          /\ rig'[f] \in {"closed", "batch", "results"} => ~fold'[f].open
          /\ fold'[f].trailing # <<>> => rig'[f] = "closed"
    BY <1>5, <2>1, <2>3 DEF Family
  <2> QED
    BY <2>6, <2>7, <2>8 DEF QueueInv
<1>9. /\ delegation \in Calls /\ delegation \in Range(todo["main"])
      /\ Range(made') = Range(made) \cup {delegation} /\ issuer[delegation] # None
  <2>1. delegation \in Calls /\ delegation \in Range(todo["main"])
    BY <1>3, <1>4 DEF Range, Calls, Family
  <2>2. Range(Append(made, delegation)) = Range(made) \cup {delegation}
    BY <1>4, <2>1, RangeAppend
  <2>3. issuer[delegation] # None
    <3>1. delegation \in Unlanded
      BY <2>1 DEF Unlanded
    <3> QED
      BY <1>1, <3>1, UnlandedIssued
  <2> QED
    BY <1>3, <2>1, <2>2, <2>3
<1>10. IssueInv'
  BY <1>2, <1>3, <1>9 DEF RowInv, IssueInv
<1>11. DelegationRowsInv'
  <2>1. todo["main"] \in Seq(Calls) /\ todo["main"] # <<>>
    BY <1>3, <1>4 DEF Family
  <2>2. /\ \A i, j \in DOMAIN Tail(todo["main"]) :
             i # j => Tail(todo["main"])[i] # Tail(todo["main"])[j]
        /\ delegation \notin Range(Tail(todo["main"]))
        /\ Range(Tail(todo["main"])) \subseteq Range(todo["main"])
    <3>1. \A i, j \in DOMAIN todo["main"] : i # j => todo["main"][i] # todo["main"][j]
      BY <1>1 DEF RowInv, DelegationRowsInv
    <3> QED
      BY <1>3, <2>1, <3>1, TailDistinct
  <2>3. \A c \in Range(Tail(todo["main"])) \cap Delegation : c \notin Range(made')
    BY <1>1, <1>9, <2>2 DEF RowInv, DelegationRowsInv
  <2>4. Range(todo'["sub"]) = {}
    BY <1>5 DEF Range
  <2>5. /\ \A i, j \in DOMAIN todo'["main"] : i # j => todo'["main"][i] # todo'["main"][j]
        /\ \A c \in Range(todo'["main"]) \cap Delegation : c \notin Range(made')
    BY <1>5, <2>2, <2>3
  <2> QED
    BY <1>2, <1>5, <2>4, <2>5 DEF DelegationRowsInv
<1>12. TurnInv'
  <2>1. Unlanded' \subseteq Unlanded
    <3>1. Range(todo'["main"]) \subseteq Range(todo["main"])
      BY <1>3, <1>4, <1>5 DEF Range, Family
    <3>2. Range(queue'["main"]) = Range(queue["main"]) \cup {delegation}
      <4>1. queue["main"] \in Seq(Calls)
        BY <1>4 DEF Family
      <4> QED
        BY <1>5, <1>9, <4>1, RangeAppend
    <3> QED
      BY <1>1, <1>2, <1>9, <3>1, <3>2 DEF Unlanded
  <2> QED
    BY <1>2, <1>5, <2>1 DEF RowInv, TurnInv
<1>13. MainInv'
  <2>1. RowsSoFar("main")' = RowsOf(fold["main"].rounds) \o queue'["main"]
    BY <1>5 DEF RowsSoFar
  <2>2. Lists(RowsSoFar("main")', made', Plain \cup Delegation)
    BY <1>3, <2>1
  <2> QED
    BY <2>2 DEF MainInv, Lists
<1>14. SubInv'
  <2>1. \A d : SubCalls(d)' = SubCalls(d)
    BY <1>2 DEF SubCalls
  <2>2. ASSUME NEW d \in Delegation \cap Range(made')
        PROVE  Lists(subTrace'[d], made', SubCalls(d))
    BY <1>3
  <2> QED
    BY <1>2, <2>1, <2>2 DEF SubInv, Lists
<1>15. MainTraceIsExact'
  BY <1>1, <1>2 DEF MainTraceIsExact
<1> QED
  BY <1>6, <1>7, <1>8, <1>10, <1>11, <1>12, <1>13, <1>14, <1>15 DEF RowInv

\* A row is recorded, for a driver that waits for it or for one that is gone.
LEMMA RecordsRows ==
  ASSUME Inv, RowInv, request # None, ~Recorded, server' = "recorded", Records,
         UNCHANGED <<driver, exit, rig, todo, results, fold, delegation, subTrace,
                     outcome, issuer, request, reply>>
  PROVE  RowInv'
<1> DEFINE c == request.call
           f == request.family
<1>1. /\ c \in Plain \cup Sub /\ f \in Family /\ c \in Calls /\ c \notin Delegation
      /\ c \in Issues[f] /\ issuer[c] # None
      /\ f = "main" => c \in Plain /\ c \notin Sub
      /\ f = "sub" => c \in Sub /\ c \notin Plain \cup Delegation
  <2>1. c \in Plain \cup Sub /\ f \in Family
    BY DEF Inv, TypeOK
  <2>2. c \in Issues[f] /\ issuer[c] # None
    BY DEF RowInv, RequestInv
  <2> QED
    BY <2>1, <2>2, LoopAssumption DEF Issues, Family, Calls
<1>2. /\ queue \in [Family -> Seq(Calls)] /\ made \in Seq(Calls)
      /\ fold \in [Family -> Folds] /\ subTrace \in [Delegation -> Seq(Calls)]
      /\ results \in [Family -> Nat]
  BY DEF Inv, TypeOK, RowInv, RowTypes
<1>3. /\ queue' = [queue EXCEPT ![f] = Append(@, c)] /\ made' = Append(made, c)
      /\ queue'[f] = Append(queue[f], c) /\ queue[f] \in Seq(Calls)
      /\ \A h \in Family : h # f => queue'[h] = queue[h]
  BY <1>1, <1>2 DEF Records
<1>4. /\ driver \in {"running", "leaving"} /\ outcome = None /\ Recorded' /\ request # None
      /\ driver = "running" => /\ todo[f] # <<>> /\ c = Head(todo[f]) /\ exit = "none"
                               /\ f = "main" <=> delegation = None
      /\ driver # "running" => exit \in {"abandoned", "panic"}
  BY DEF Inv, ServerInv, TypeOK, Recorded, CallInv, RowInv, RequestInv
<1> HIDE DEF c, f
<1>5. Range(made') = Range(made) \cup {c} /\ Range(queue'[f]) = Range(queue[f]) \cup {c}
      /\ made' \in Seq(Calls)
  BY <1>1, <1>2, <1>3, RangeAppend
<1>6. RowTypes' /\ RequestInv' /\ IssueInv' /\ DelegationRowsInv'
  <2>1. RowTypes' /\ RequestInv'
    BY <1>5 DEF RowInv, RowTypes, RequestInv
  <2>2. IssueInv'
    BY <1>1, <1>5 DEF RowInv, IssueInv
  <2>3. DelegationRowsInv'
    <3>1. driver = "running" /\ delegation = None => queue'["sub"] = queue["sub"]
      BY <1>3, <1>4 DEF Family
    <3> QED
      BY <1>1, <1>4, <1>5, <3>1 DEF RowInv, DelegationRowsInv
  <2> QED
    BY <2>1, <2>2, <2>3
<1>7. QueueInv'
  <2>1. SUFFICES ASSUME driver = "running" PROVE QueueInv'
    BY <1>4 DEF QueueInv
  <2>2. \A h \in Family : Len(queue[h]) <= results[h] /\ results[h] \in Nat
    BY <1>2, <2>1 DEF RowInv, QueueInv
  <2>3. Len(queue'[f]) <= results[f] + 1 /\ \A h \in Family : h # f => Len(queue'[h]) <= results[h] + 0
    BY <1>1, <1>3, <2>2
  <2>4. \A h \in Family :
          /\ rig[h] # "batch" => todo[h] = <<>>
          /\ rig[h] \notin {"batch", "results"} => results[h] = 0
          /\ rig[h] \in {"closed", "batch", "results"} => ~fold[h].open
          /\ fold[h].trailing # <<>> => rig[h] = "closed"
    BY <2>1 DEF RowInv, QueueInv
  <2> QED
    BY <1>4, <2>3, <2>4 DEF QueueInv, f
<1>8. TurnInv'
  <2>1. SUFFICES ASSUME exit # "panic" PROVE TurnInv'
    BY DEF TurnInv
  <2>2. Unlanded' = Unlanded
    BY <1>1, <1>3, <1>4, <1>5 DEF Unlanded, f, c, Family
  <2> QED
    BY <2>2 DEF RowInv, TurnInv
<1>9. \A h \in Family : RowsSoFar(h) \in Seq(Calls)
  <2>1. \A h \in Family : RowsOf(fold[h].rounds) \in Seq(Calls) /\ queue[h] \in Seq(Calls)
    BY <1>2, RowsOfType DEF Folds, Rounds
  <2> QED
    BY <2>1, ConcatProperties DEF RowsSoFar
<1>10. ASSUME NEW h \in Family
       PROVE  RowsSoFar(h)' = IF h = f THEN Append(RowsSoFar(h), c) ELSE RowsSoFar(h)
  <2>1. CASE h = f
    <3>1. RowsOf(fold[f].rounds) \in Seq(Calls)
      BY <1>1, <1>2, RowsOfType DEF Folds, Rounds
    <3>2. RowsOf(fold[f].rounds) \o Append(queue[f], c) = Append(RowsOf(fold[f].rounds) \o queue[f], c)
      BY <1>1, <1>3, <3>1, AppendLast
    <3>3. RowsSoFar(h)' = RowsOf(fold[f].rounds) \o Append(queue[f], c)
      BY <1>3, <2>1 DEF RowsSoFar
    <3> QED
      BY <2>1, <3>2, <3>3 DEF RowsSoFar
  <2>2. CASE h # f
    <3>1. queue'[h] = queue[h]
      BY <1>3, <2>2
    <3>2. RowsSoFar(h)' = RowsSoFar(h)
      BY <3>1, Zenon DEF RowsSoFar
    <3> QED
      BY <2>2, <3>2
  <2> QED
    BY <2>1, <2>2
<1>11. MainInv'
  <2>1. SUFFICES ASSUME exit # "panic"
                 PROVE  Lists(RowsSoFar("main")', made', Plain \cup Delegation)
    BY DEF MainInv, Lists
  <2>2. Lists(RowsSoFar("main"), made, Plain \cup Delegation) /\ RowsSoFar("main") \in Seq(Calls)
    BY <1>4, <1>9, <2>1 DEF RowInv, MainInv, Family
  <2>3. CASE f = "main"
    <3>1. Lists(Append(RowsSoFar("main"), c), Append(made, c), Plain \cup Delegation)
      BY <1>1, <1>2, <2>2, <2>3, AppendedRow
    <3>2. RowsSoFar("main")' = Append(RowsSoFar("main"), c)
      BY <1>1, <1>10, <2>3
    <3> QED
      BY <1>3, <3>1, <3>2
  <2>4. CASE f = "sub"
    <3>1. Lists(RowsSoFar("main"), Append(made, c), Plain \cup Delegation)
      BY <1>1, <1>2, <2>2, <2>4, AppendedRow
    <3>2. RowsSoFar("main")' = RowsSoFar("main")
      BY <1>10, <2>4 DEF Family
    <3> QED
      BY <1>3, <3>1, <3>2
  <2> QED
    BY <1>1, <2>3, <2>4 DEF Family
<1>12. SubInv'
  <2>1. \A d : SubCalls(d)' = SubCalls(d)
    BY DEF SubCalls
  <2>2. ASSUME driver = "running", delegation # None
        PROVE  Lists(RowsSoFar("sub")', made', SubCalls(delegation))
    <3>1. f = "sub" /\ c \in Range(todo["sub"])
      <4>1. f = "sub" /\ todo["sub"] # <<>> /\ c = Head(todo["sub"])
        BY <1>1, <1>4, <2>2 DEF Family
      <4>2. todo["sub"] \in Seq(Calls)
        BY DEF Inv, TypeOK, Family
      <4> QED
        BY <4>1, <4>2 DEF Range
    <3>2. c \in SubCalls(delegation)
      BY <1>1, <2>2, <3>1 DEF RowInv, DelegationRowsInv, SubCalls
    <3>3. Lists(RowsSoFar("sub"), made, SubCalls(delegation)) /\ RowsSoFar("sub") \in Seq(Calls)
      BY <1>9, <2>2 DEF RowInv, SubInv, Family
    <3>4. Lists(Append(RowsSoFar("sub"), c), Append(made, c), SubCalls(delegation))
      BY <1>1, <1>2, <3>2, <3>3, AppendedRow
    <3>5. RowsSoFar("sub")' = Append(RowsSoFar("sub"), c)
      BY <1>1, <1>10, <3>1
    <3> QED
      BY <1>3, <3>4, <3>5
  <2>3. ASSUME NEW d \in Delegation \cap Range(made')
        PROVE  \/ Lists(subTrace[d], made', SubCalls(d))
               \/ /\ exit \in {"abandoned", "panic"}
                  /\ \E e \in Sub : Lists(Append(subTrace[d], e), made', SubCalls(d))
    <3>1. d \in Range(made) /\ subTrace[d] \in Seq(Calls)
      BY <1>1, <1>2, <1>5, <2>3
    <3>2. Lists(subTrace[d], made, SubCalls(d))
      BY <3>1 DEF RowInv, SubInv
    <3>3. CASE c \notin SubCalls(d)
      BY <1>1, <1>2, <1>3, <3>1, <3>2, <3>3, AppendedRow
    <3>4. CASE c \in SubCalls(d)
      <4>1. Lists(Append(subTrace[d], c), made', SubCalls(d))
        BY <1>1, <1>2, <1>3, <3>1, <3>2, <3>4, AppendedRow
      <4>2. driver # "running"
        <5>1. SUFFICES ASSUME driver = "running" PROVE FALSE
          OBVIOUS
        <5>2. c \in Sub /\ f = "sub" /\ c \in Range(todo["sub"]) /\ delegation # None
          <6>1. c \in Sub /\ f = "sub" /\ delegation # None
            BY <1>1, <1>4, <3>4, <5>1 DEF SubCalls, Family
          <6>2. todo["sub"] # <<>> /\ c = Head(todo["sub"]) /\ todo["sub"] \in Seq(Calls)
            BY <1>4, <5>1, <6>1 DEF Inv, TypeOK, Family
          <6> QED
            BY <6>1, <6>2 DEF Range
        <5>3. issuer[c] = delegation /\ d = delegation
          BY <3>4, <5>1, <5>2 DEF RowInv, DelegationRowsInv, SubCalls
        <5>4. todo["main"] # <<>> /\ delegation = Head(todo["main"]) /\ todo["main"] \in Seq(Calls)
          BY <5>1, <5>2 DEF Inv, DelegationInv, TypeOK, RowInv, DelegationRowsInv, Family
        <5>5. delegation \in Range(todo["main"]) \cap Delegation
          BY <5>3, <5>4 DEF Range
        <5> QED
          BY <3>1, <5>1, <5>3, <5>5 DEF RowInv, DelegationRowsInv
      <4>3. c \in Sub
        BY <3>4 DEF SubCalls
      <4> QED
        BY <1>4, <4>1, <4>2, <4>3
    <3> QED
      BY <3>3, <3>4
  <2> QED
    BY <1>4, <2>1, <2>2, <2>3 DEF SubInv, Lists
<1>13. MainTraceIsExact'
  BY <1>4 DEF MainTraceIsExact
<1> QED
  BY <1>6, <1>7, <1>8, <1>11, <1>12, <1>13 DEF RowInv

\* A turn commits to a batch of calls that no turn has issued before.
LEMMA BatchCommitsRows ==
  ASSUME Inv, RowInv, NEW f \in Family, NEW batch \in Batches(f), BatchCommits(f, batch)
  PROVE  RowInv'
<1> DEFINE g == ConfirmBatch(fold[f])
           who == IF f = "main" THEN fold[f].trips ELSE delegation
<1>1. /\ driver = "running" /\ (f = "main" <=> delegation = None) /\ rig[f] = "closed"
      /\ rig' = [rig EXCEPT ![f] = "batch"] /\ todo' = [todo EXCEPT ![f] = batch]
      /\ fold' = [fold EXCEPT ![f] = g]
      /\ issuer' = [c \in Calls |-> IF c \notin Range(batch) THEN issuer[c] ELSE who]
      /\ UNCHANGED <<driver, exit, queue, made, results, delegation, subTrace, outcome,
                     request, server, reply>>
  BY DEF BatchCommits, Polled, OnlyStreams, driveVars, subVars, serverVars
<1>2. /\ queue[f] = <<>> /\ exit = "none" /\ outcome = None
      /\ request # None => request.family # f
      /\ f = "main" => request = None
  BY <1>1, NothingWaits
<1>3. /\ rig \in [Family -> {"idle", "asked", "open", "closed", "batch", "results"}]
      /\ todo \in [Family -> Seq(Calls)] /\ fold \in [Family -> Folds] /\ made \in Seq(Calls)
      /\ issuer \in [Calls -> Nat \cup Delegation \cup {None}]
      /\ delegation \in Delegation \cup {None} /\ None \notin Nat
      /\ queue \in [Family -> Seq(Calls)]
  BY LoopAssumption DEF Inv, TypeOK, RowInv, RowTypes
<1>4. /\ batch \in Seq(Calls) /\ Range(batch) \subseteq Issues[f]
      /\ \A c \in Range(batch) : issuer[c] = None
      /\ \A i, j \in DOMAIN batch : i # j => batch[i] # batch[j]
  <2> DEFINE fresh == {c \in Issues[f] : issuer[c] = None}
  <2>1. fresh \subseteq Calls /\ fresh \subseteq Issues[f] /\ \A c \in fresh : issuer[c] = None
    BY DEF Issues, Calls, Family
  <2>2. batch \in {b \in fresh \X fresh : b[1] # b[2]} \cup {<<c>> : c \in fresh}
    BY DEF Batches
  <2> HIDE DEF fresh
  <2>3. CASE batch \in {<<c>> : c \in fresh}
    <3>1. PICK c \in fresh : batch = <<c>>
      BY <2>3
    <3>2. <<c>> \in Seq(fresh) /\ Range(<<c>>) = {c} /\ DOMAIN <<c>> = {1}
      BY DEF Range
    <3> QED
      BY <2>1, <3>1, <3>2
  <2>4. CASE batch \in {b \in fresh \X fresh : b[1] # b[2]}
    <3>1. PICK c \in fresh, d \in fresh : batch = <<c, d>> /\ c # d
      BY <2>4
    <3>2. /\ <<c, d>> \in Seq(fresh) /\ Range(<<c, d>>) = {c, d} /\ DOMAIN <<c, d>> = {1, 2}
          /\ <<c, d>>[1] = c /\ <<c, d>>[2] = d
      BY DEF Range
    <3> QED
      BY <2>1, <3>1, <3>2
  <2> QED
    BY <2>2, <2>3, <2>4
<1>5. /\ Carries(fold[f], g) /\ g \in Folds /\ g.trailing = <<>> /\ g.rounds # <<>>
      /\ g.rounds[Len(g.rounds)].turn = fold[f].trips /\ g.open = fold[f].open
      /\ fold[f].trips \in Nat
  <2>1. fold[f] \in Folds
    BY <1>3
  <2> QED
    BY <2>1, ConfirmCarries DEF Carries, Folds
<1>6. /\ \A c \in Calls : issuer[c] # None => issuer'[c] = issuer[c]
      /\ \A c \in Range(batch) : c \in Calls /\ issuer'[c] = who
      /\ \A c \in Calls : c \notin Range(batch) => issuer'[c] = issuer[c]
      /\ issuer' \in [Calls -> Nat \cup Delegation \cup {None}]
      /\ who # None /\ (f = "main" => who \in Nat) /\ (f = "sub" => who \in Delegation)
  <2>1. who # None /\ (f = "main" => who \in Nat) /\ (f = "sub" => who \in Delegation)
    BY <1>1, <1>3, <1>5 DEF Family
  <2>2. \A c \in Range(batch) : c \in Calls
    BY <1>4 DEF Range
  <2>3. who \in Nat \cup Delegation
    BY <2>1 DEF Family
  <2> HIDE DEF who
  <2> QED
    BY <1>1, <1>3, <1>4, <2>1, <2>2, <2>3
<1> HIDE DEF g, who
<1>7. /\ fold' \in [Family -> Folds] /\ fold'[f] = g /\ todo'[f] = batch /\ rig'[f] = "batch"
      /\ \A h \in Family : h # f => fold'[h] = fold[h] /\ todo'[h] = todo[h] /\ rig'[h] = rig[h]
  BY <1>1, <1>3, <1>5
<1>8. RowTypes'
  BY <1>1, <1>6, <1>7 DEF RowInv, RowTypes
<1>9. RequestInv'
  <2>1. request # None =>
          /\ request.family \in Family /\ request.family # f /\ request.call \in Calls
          /\ issuer'[request.call] # None /\ todo'[request.family] = todo[request.family]
    BY <1>2, <1>6, <1>7 DEF Inv, TypeOK, RowInv, RequestInv, Calls
  <2> QED
    BY <1>1, <2>1 DEF RowInv, RequestInv
<1>10. QueueInv'
  <2>1. ~fold[f].open
    <3>1. SUFFICES ASSUME fold[f].open PROVE FALSE
      OBVIOUS
    <3> QED
      BY <1>1, <3>1 DEF RowInv, QueueInv
  <2>2. QueueInv
    BY DEF RowInv
  <2> QED
    BY <1>1, <1>5, <1>7, <2>1, <2>2 DEF QueueInv, Recorded
<1>11. IssueInv'
  <2>1. \A c \in Range(made) : c \in Calls /\ issuer[c] # None
    BY <1>3 DEF RowInv, IssueInv, Range
  <2>2. ASSUME NEW c \in Plain \cup Delegation PROVE issuer'[c] \in Nat \cup {None}
    <3>1. c \in Range(batch) => f = "main"
      BY <1>4, LoopAssumption DEF Issues, Family
    <3> QED
      BY <1>6, <2>2, <3>1 DEF RowInv, IssueInv, Calls
  <2>3. ASSUME NEW c \in Sub
        PROVE  issuer'[c] = None \/ issuer'[c] \in Delegation \cap (Range(made) \cup {delegation})
    <3>1. c \in Range(batch) => who = delegation /\ who \in Delegation
      <4>1. c \in Range(batch) => f = "sub"
        BY <1>4, LoopAssumption DEF Issues, Family
      <4> QED
        BY <1>6, <4>1 DEF who
    <3> QED
      BY <1>6, <2>3, <3>1 DEF RowInv, IssueInv, Calls
  <2>4. \A d \in Delegation : d \notin Range(made) => subTrace[d] = <<>>
    BY DEF RowInv, IssueInv
  <2> QED
    BY <1>1, <1>6, <2>1, <2>2, <2>3, <2>4 DEF IssueInv
<1>12. DelegationRowsInv'
  <2>1. /\ \A i, j \in DOMAIN todo'["main"] : i # j => todo'["main"][i] # todo'["main"][j]
        /\ \A c \in Range(todo'["main"]) \cap Delegation : c \notin Range(made)
    <3>1. CASE f = "main"
      <4>1. \A c \in Range(made) : c \notin Range(batch)
        BY <1>4 DEF RowInv, IssueInv
      <4> QED
        BY <1>4, <1>7, <3>1, <4>1
    <3>2. CASE f # "main"
      BY <1>1, <1>7, <3>2 DEF RowInv, DelegationRowsInv, Family
    <3> QED
      BY <3>1, <3>2
  <2>2. \A c \in Range(todo'["sub"]) : issuer'[c] = delegation
    <3>1. CASE f = "sub"
      BY <1>6, <1>7, <3>1 DEF who
    <3>2. CASE f # "sub"
      <4>1. todo'["sub"] = <<>>
        BY <1>1, <1>7, <3>2 DEF RowInv, DelegationRowsInv, Family
      <4> QED
        BY <4>1 DEF Range
    <3> QED
      BY <3>1, <3>2
  <2>3. IF delegation = None
        THEN fold'["sub"] = NewFold /\ queue["sub"] = <<>> /\ todo'["sub"] = <<>>
        ELSE delegation = Head(todo'["main"])
    <3>1. CASE f = "main"
      BY <1>1, <1>7, <3>1 DEF RowInv, DelegationRowsInv, Family
    <3>2. CASE f # "main"
      BY <1>1, <1>7, <3>2 DEF RowInv, DelegationRowsInv, Family
    <3> QED
      BY <3>1, <3>2
  <2> QED
    BY <1>1, <2>1, <2>2, <2>3 DEF DelegationRowsInv
<1>13. TurnInv'
  <2> DEFINE rounds == fold["main"].rounds
  <2>1. ASSUME NEW i \in DOMAIN rounds, NEW c \in Range(rounds[i].calls)
        PROVE  issuer'[c] = rounds[i].turn
    <3>1. rounds \in Seq(Rounds)
      BY <1>3 DEF Folds, Family
    <3>2. rounds[i] \in Rounds
      BY <2>1, <3>1
    <3>3. c \in Calls /\ rounds[i].turn \in Nat
      BY <2>1, <3>2 DEF Rounds, Range
    <3>4. issuer[c] = rounds[i].turn
      BY <1>2, <2>1 DEF RowInv, TurnInv
    <3> QED
      BY <1>3, <1>6, <3>3, <3>4
  <2>2. CASE f = "main"
    <3>1. Unlanded' = Range(batch)
      BY <1>1, <1>2, <1>7, <2>2 DEF Unlanded, Range
    <3>2. ASSUME NEW i \in DOMAIN g.rounds, NEW c \in Range(g.rounds[i].calls)
          PROVE  issuer'[c] = g.rounds[i].turn
      <4>1. g.rounds[i].calls # <<>>
        BY <3>2 DEF Range
      <4>2. PICK j \in DOMAIN rounds : g.rounds[i] = rounds[j]
        BY <1>5, <2>2, <4>1 DEF Carries
      <4> QED
        BY <2>1, <3>2, <4>2
    <3>3. \A c \in Range(batch) : g.rounds # <<>> /\ issuer'[c] = g.rounds[Len(g.rounds)].turn
      BY <1>5, <1>6, <2>2 DEF who
    <3> QED
      BY <1>7, <2>2, <3>1, <3>2, <3>3 DEF TurnInv
  <2>3. CASE f # "main"
    <3>1. fold'["main"] = fold["main"] /\ Unlanded' = Unlanded
      BY <1>1, <1>7, <2>3 DEF Unlanded, Family
    <3>2. ASSUME NEW c \in Unlanded
          PROVE  rounds # <<>> /\ issuer'[c] = rounds[Len(rounds)].turn
      <4>1. c \in Calls
        BY <1>3 DEF Unlanded, Range, Family
      <4> QED
        BY <1>2, <1>6, <4>1, UnlandedIssued
    <3> QED
      BY <2>1, <3>1, <3>2 DEF TurnInv
  <2> QED
    BY <2>2, <2>3
<1>14. RowsSoFar("main")' = RowsSoFar("main") /\ RowsSoFar("sub")' = RowsSoFar("sub")
  <2>1. \A h \in Family : RowsOf(fold'[h].rounds) = RowsOf(fold[h].rounds)
    BY <1>5, <1>7 DEF Carries
  <2> QED
    BY <1>1, <2>1 DEF RowsSoFar, Family
<1>15. MainInv'
  BY <1>1, <1>14 DEF RowInv, MainInv, Lists
<1>16. SubInv'
  <2>1. ASSUME NEW t, NEW d, Lists(t, made, SubCalls(d))
        PROVE  Lists(t, made, SubCalls(d)')
    <3>1. ASSUME NEW i \in DOMAIN made PROVE made[i] \in SubCalls(d) <=> made[i] \in SubCalls(d)'
      <4>1. made[i] \in Calls /\ issuer[made[i]] # None
        BY <1>3, <3>1 DEF RowInv, IssueInv, Range
      <4> QED
        BY <1>6, <4>1 DEF SubCalls
    <3> QED
      BY <2>1, <3>1, ListsSame
  <2>2. delegation # None => Lists(RowsSoFar("sub"), made, SubCalls(delegation)')
    BY <1>1, <2>1 DEF RowInv, SubInv
  <2>3. ASSUME NEW d \in Delegation \cap Range(made) PROVE Lists(subTrace[d], made, SubCalls(d)')
    BY <1>2, <2>1, <2>3 DEF RowInv, SubInv
  <2> QED
    BY <1>1, <1>14, <2>2, <2>3 DEF SubInv, Lists
<1>17. MainTraceIsExact'
  BY <1>1, <1>2 DEF MainTraceIsExact
<1> QED
  BY <1>8, <1>9, <1>10, <1>11, <1>12, <1>13, <1>15, <1>16, <1>17 DEF RowInv

\* A result surfaces: it takes the row at the queue's head, if there is one.
LEMMA ResultSurfacesRows ==
  ASSUME Inv, RowInv, NEW f \in Family, ResultSurfaces(f)
  PROVE  RowInv'
<1> DEFINE q == queue[f]
           s == fold[f].rounds
           u == PushCalls(s, <<Head(q)>>)
<1>1. /\ driver = "running" /\ (f = "main" <=> delegation = None) /\ rig[f] = "results"
      /\ rig' = [rig EXCEPT ![f] = IF results[f] = 1 THEN "idle" ELSE @]
      /\ results' = [results EXCEPT ![f] = @ - 1]
      /\ UNCHANGED <<driver, exit, todo, made, issuer, delegation, subTrace, outcome,
                     request, server, reply>>
  BY DEF ResultSurfaces, Polled, driveVars, subVars, serverVars, history
<1>2. /\ q = <<>> => UNCHANGED <<queue, fold>>
      /\ q # <<>> => /\ queue' = [queue EXCEPT ![f] = Tail(@)]
                     /\ fold' = [fold EXCEPT ![f].rounds = u]
  BY DEF ResultSurfaces
<1>3. /\ rig \in [Family -> {"idle", "asked", "open", "closed", "batch", "results"}]
      /\ results \in [Family -> Nat] /\ queue \in [Family -> Seq(Calls)]
      /\ fold \in [Family -> Folds] /\ q \in Seq(Calls) /\ s \in Seq(Rounds) /\ fold[f] \in Folds
  BY DEF Inv, TypeOK, RowInv, RowTypes, Folds
<1>4. /\ exit = "none" /\ outcome = None /\ todo[f] = <<>>
      /\ request # None => request.family # f
      /\ results[f] > 0 /\ Len(q) <= results[f] + 0
      /\ ~fold[f].open /\ fold[f].trailing = <<>>
  <2>1. exit = "none" /\ outcome = None /\ todo[f] = <<>> /\ results[f] > 0
    BY <1>1 DEF RowInv, RequestInv, QueueInv, Inv, ServerInv, BatchInv
  <2>2. request # None => request.family # f
    BY <1>1 DEF Inv, CallInv
  <2> QED
    BY <1>1, <1>3, <2>1, <2>2 DEF RowInv, QueueInv
<1>5. q # <<>> =>
        /\ u \in Seq(Rounds) /\ RowsOf(u) = RowsOf(s) \o <<Head(q)>>
        /\ s # <<>> =>
             /\ DOMAIN u = DOMAIN s
             /\ \A i \in DOMAIN s :
                  /\ u[i].turn = s[i].turn
                  /\ Range(u[i].calls) \subseteq
                       Range(s[i].calls) \cup (IF i = Len(s) THEN {Head(q)} ELSE {})
  <2>1. SUFFICES ASSUME q # <<>>
                 PROVE  <<Head(q)>> \in Seq(Calls) /\ Range(<<Head(q)>>) = {Head(q)}
    BY <1>3, PushedRows
  <2> QED
    BY <1>3, <2>1 DEF Range
<1>6. q # <<>> => /\ Len(Tail(q)) = Len(q) - 1 /\ Tail(q) \in Seq(Calls)
                  /\ Range(Tail(q)) \subseteq Range(q) /\ Head(q) \in Range(q)
  BY <1>3 DEF Range
<1>7. /\ \A h \in Family : h # f => fold'[h] = fold[h] /\ queue'[h] = queue[h]
      /\ fold'[f].open = fold[f].open /\ fold'[f].trailing = fold[f].trailing
      /\ q # <<>> => queue'[f] = Tail(q) /\ fold'[f].rounds = u
      /\ fold' \in [Family -> Folds]
  <2>1. CASE q = <<>>
    BY <1>2, <1>3, <2>1
  <2>2. CASE q # <<>>
    <3>1. fold' = [fold EXCEPT ![f] = [fold[f] EXCEPT !.rounds = u]]
      BY <1>2, <1>3, <2>2
    <3>2. [fold[f] EXCEPT !.rounds = u] \in Folds
      BY <1>3, <1>5, <2>2 DEF Folds
    <3>3. fold'[f] = [fold[f] EXCEPT !.rounds = u] /\ fold' \in [Family -> Folds]
      BY <1>3, <3>1, <3>2
    <3>4. fold'[f].rounds = u /\ fold'[f].open = fold[f].open /\ fold'[f].trailing = fold[f].trailing
      BY <1>3, <3>3 DEF Folds
    <3>5. \A h \in Family : h # f => fold'[h] = fold[h] /\ queue'[h] = queue[h]
      BY <1>2, <1>3, <2>2, <3>1
    <3>6. queue'[f] = Tail(q)
      BY <1>2, <1>3, <2>2
    <3> QED
      BY <3>3, <3>4, <3>5, <3>6
  <2> QED
    BY <2>1, <2>2
<1> HIDE DEF u
<1>8. RowTypes' /\ RequestInv' /\ IssueInv'
  BY <1>1, <1>7 DEF RowInv, RowTypes, RequestInv, IssueInv
<1>9. QueueInv'
  <2>1. Len(queue'[f]) <= results'[f] + 0 /\ results'[f] \in Nat
    <3>1. results'[f] = results[f] - 1 /\ results[f] \in Nat
      BY <1>1, <1>3
    <3>2. CASE q = <<>>
      <4>1. Len(queue'[f]) = 0
        BY <1>2, <3>2
      <4> QED
        BY <1>4, <3>1, <4>1
    <3>3. CASE q # <<>>
      BY <1>3, <1>4, <1>6, <1>7, <3>1, <3>3
    <3> QED
      BY <3>2, <3>3
  <2>2. /\ rig'[f] \in {"idle", "results"}
        /\ rig'[f] = "idle" => results'[f] = 0
        /\ \A h \in Family : h # f => rig'[h] = rig[h] /\ results'[h] = results[h]
    BY <1>1, <1>3
  <2>3. QueueInv
    BY DEF RowInv
  <2> QED
    BY <1>1, <1>4, <1>7, <2>1, <2>2, <2>3 DEF QueueInv, Recorded
<1>10. DelegationRowsInv'
  <2>1. delegation = None => fold'["sub"] = fold["sub"] /\ queue'["sub"] = queue["sub"]
    BY <1>1, <1>7 DEF Family
  <2> QED
    BY <1>1, <2>1 DEF RowInv, DelegationRowsInv
<1>11. TurnInv'
  <2>1. Unlanded' \subseteq Unlanded
    BY <1>1, <1>2, <1>6, <1>7 DEF Unlanded, Family
  <2>2. CASE f # "main" \/ q = <<>>
    <3>1. fold'["main"] = fold["main"]
      BY <1>2, <1>7, <2>2 DEF Family
    <3> QED
      BY <1>1, <2>1, <3>1 DEF RowInv, TurnInv
  <2>3. CASE f = "main" /\ q # <<>>
    <3>1. Head(q) \in Unlanded
      BY <1>6, <2>3 DEF Unlanded
    <3>2. s # <<>> /\ issuer[Head(q)] = s[Len(s)].turn
      BY <1>4, <2>3, <3>1, UnlandedIssued
    <3>3. Len(u) = Len(s) /\ Len(s) \in DOMAIN s
      BY <1>3, <1>5, <2>3, <3>2
    <3>4. ASSUME NEW i \in DOMAIN u, NEW c \in Range(u[i].calls) PROVE issuer[c] = u[i].turn
      <4>1. i \in DOMAIN s /\ u[i].turn = s[i].turn
        BY <1>5, <2>3, <3>2, <3>4
      <4>2. CASE c \in Range(s[i].calls)
        BY <1>4, <2>3, <4>1, <4>2 DEF RowInv, TurnInv
      <4>3. CASE c \notin Range(s[i].calls)
        <5>1. i = Len(s) /\ c = Head(q)
          BY <1>5, <2>3, <3>2, <3>4, <4>1, <4>3
        <5> QED
          BY <3>2, <4>1, <5>1
      <4> QED
        BY <4>2, <4>3
    <3>5. ASSUME NEW c \in Unlanded PROVE u # <<>> /\ issuer[c] = u[Len(u)].turn
      <4>1. issuer[c] = s[Len(s)].turn
        BY <1>4, <2>3, UnlandedIssued
      <4>2. u[Len(s)].turn = s[Len(s)].turn
        BY <1>5, <2>3, <3>2, <3>3
      <4> QED
        BY <1>3, <3>2, <3>3, <4>1, <4>2
    <3> QED
      BY <1>1, <1>7, <2>1, <2>3, <3>4, <3>5 DEF TurnInv
  <2> QED
    BY <2>2, <2>3
<1>12. ASSUME NEW h \in Family PROVE RowsSoFar(h)' = RowsSoFar(h)
  <2>1. CASE h # f \/ q = <<>>
    BY <1>2, <1>7, <2>1 DEF RowsSoFar
  <2>2. CASE h = f /\ q # <<>>
    <3>1. RowsOf(s) \in Seq(Calls)
      BY <1>3, RowsOfType DEF Rounds
    <3>2. (RowsOf(s) \o <<Head(q)>>) \o Tail(q) = RowsOf(s) \o q
      BY <1>3, <2>2, <3>1, HeadMoves
    <3>3. RowsSoFar(h)' = RowsOf(u) \o Tail(q)
      BY <1>7, <2>2 DEF RowsSoFar
    <3> QED
      BY <1>5, <2>2, <3>2, <3>3 DEF RowsSoFar
  <2> QED
    BY <2>1, <2>2
<1>13. RowsSoFar("main")' = RowsSoFar("main") /\ RowsSoFar("sub")' = RowsSoFar("sub")
  BY <1>12 DEF Family
<1>14. MainInv' /\ SubInv'
  <2>1. MainInv'
    BY <1>1, <1>13 DEF RowInv, MainInv, Lists
  <2>2. \A d : SubCalls(d)' = SubCalls(d)
    BY <1>1 DEF SubCalls
  <2>3. SubInv'
    <3>1. delegation # None => Lists(RowsSoFar("sub"), made, SubCalls(delegation))
      BY <1>1 DEF RowInv, SubInv
    <3>2. ASSUME NEW d \in Delegation \cap Range(made)
          PROVE  Lists(subTrace[d], made, SubCalls(d))
      BY <1>4, <3>2 DEF RowInv, SubInv
    <3> QED
      BY <1>1, <1>13, <2>2, <3>1, <3>2 DEF SubInv, Lists
  <2> QED
    BY <2>1, <2>3
<1>15. MainTraceIsExact'
  BY <1>1, <1>4 DEF MainTraceIsExact
<1> QED
  BY <1>8, <1>9, <1>10, <1>11, <1>14, <1>15 DEF RowInv

\* The turn settles: the fold and what waits on its channel become the trace.
LEMMA SettlesRows ==
  ASSUME Inv, RowInv, Settles
  PROVE  RowInv'
<1> DEFINE s == fold["main"].rounds
           q == queue["main"]
           u == PushCalls(s, q)
<1>1. /\ driver = "left" /\ outcome = None /\ request = None
      /\ queue' = [queue EXCEPT !["main"] = <<>>]
      /\ UNCHANGED <<driver, exit, rig, todo, results, fold, made, issuer, delegation,
                     subTrace, request, server, reply>>
  BY DEF Settles, Inv, ServerInv, driveVars, streamVars, subVars, serverVars, history
<1>2. /\ fold["main"] \in Folds /\ s \in Seq(Rounds) /\ q \in Seq(Calls)
      /\ promotions \in Seq(Promoting)
  BY DEF RowInv, RowTypes, Inv, TypeOK, Folds, Family
<1>3. /\ u \in Seq(Rounds) /\ RowsOf(u) = RowsOf(s) \o q
      /\ s # <<>> =>
           /\ DOMAIN u = DOMAIN s
           /\ \A i \in DOMAIN s :
                /\ u[i].turn = s[i].turn
                /\ Range(u[i].calls) \subseteq
                     Range(s[i].calls) \cup (IF i = Len(s) THEN Range(q) ELSE {})
  BY <1>2, PushedRows
<1>4. /\ outcome'.trace = Landed(u) /\ outcome'.promotions = promotions
      /\ outcome' = [termination |-> outcome'.termination, trace |-> Landed(u),
                     promotions |-> promotions]
      /\ outcome'.termination \in {"reply", "stepCap", "cancelled", "noProgress", "failed"}
  <2>1. Drain(fold["main"], q).rounds = u
    BY <1>2 DEF Drain, Folds
  <2>2. ExitTermination \in {"reply", "stepCap", "cancelled", "noProgress", "failed"}
    BY DEF ExitTermination, Landing
  <2> QED
    BY <2>1, <2>2 DEF Settles, Landing
<1>5. /\ Landed(u) \in Seq(Rounds) /\ RowsOf(Landed(u)) = RowsOf(u)
      /\ \A i \in DOMAIN Landed(u) : \E j \in DOMAIN u : Landed(u)[i] = u[j]
  BY <1>3, LandedRows, LandedElements
<1>6. outcome' \in Outcomes /\ outcome' # None
  BY <1>2, <1>4, <1>5, LoopAssumption DEF Outcomes
<1>7. RowTypes'
  BY <1>1, <1>6 DEF RowInv, RowTypes
<1>8. RequestInv' /\ IssueInv'
  BY <1>1 DEF RowInv, RequestInv, IssueInv
<1>9. QueueInv' /\ DelegationRowsInv'
  BY <1>1 DEF QueueInv, DelegationRowsInv
<1>10. TurnInv' /\ MainInv'
  BY <1>6 DEF TurnInv, MainInv
<1>11. SubInv'
  <2>1. \A d : SubCalls(d)' = SubCalls(d)
    BY <1>1 DEF SubCalls
  <2>2. ASSUME NEW d \in Delegation \cap Range(made)
        PROVE  \/ Lists(subTrace[d], made, SubCalls(d))
               \/ /\ exit \in {"abandoned", "panic"}
                  /\ \E c \in Sub : Lists(Append(subTrace[d], c), made, SubCalls(d))
    BY <2>2 DEF RowInv, SubInv
  <2>3. UNCHANGED <<driver, exit, made, subTrace, request>> /\ request = None /\ driver = "left"
    BY <1>1
  <2> QED
    BY <2>1, <2>2, <2>3 DEF SubInv, Lists
<1>12. MainTraceIsExact'
  <2>1. SUFFICES ASSUME exit # "panic" PROVE
          /\ Lists(RowsOf(Landed(u)), made, Plain \cup Delegation)
          /\ \A i \in DOMAIN Landed(u) :
               \A c \in Range(Landed(u)[i].calls) : issuer[c] = Landed(u)[i].turn
    BY <1>1, <1>4 DEF MainTraceIsExact, Lists
  <2>2. Lists(RowsOf(Landed(u)), made, Plain \cup Delegation)
    BY <1>1, <1>3, <1>5, <2>1 DEF RowInv, MainInv, RowsSoFar
  <2>3. ASSUME NEW i \in DOMAIN u, NEW c \in Range(u[i].calls) PROVE issuer[c] = u[i].turn
    <3>1. CASE s = <<>>
      <4>1. q = <<>>
        <5>1. SUFFICES ASSUME q # <<>> PROVE FALSE
          OBVIOUS
        <5>2. Head(q) \in Range(q)
          BY <1>2, <5>1 DEF Range
        <5>3. Head(q) \in Unlanded
          BY <5>2 DEF Unlanded
        <5> QED
          BY <1>1, <2>1, <3>1, <5>3, UnlandedIssued
      <4>2. u = <<>>
        BY <3>1, <4>1 DEF PushCalls
      <4> QED
        BY <2>3, <4>2
    <3>2. CASE s # <<>>
      <4>1. i \in DOMAIN s /\ u[i].turn = s[i].turn
        BY <1>3, <2>3, <3>2
      <4>2. CASE c \in Range(s[i].calls)
        BY <1>1, <2>1, <4>1, <4>2 DEF RowInv, TurnInv
      <4>3. CASE c \notin Range(s[i].calls)
        <5>1. i = Len(s) /\ c \in Range(q)
          BY <1>3, <2>3, <3>2, <4>1, <4>3
        <5>2. c \in Unlanded
          BY <5>1 DEF Unlanded
        <5> QED
          BY <1>1, <2>1, <4>1, <5>1, <5>2, UnlandedIssued
      <4> QED
        BY <4>2, <4>3
    <3> QED
      BY <3>1, <3>2
  <2> QED
    BY <1>5, <2>2, <2>3
<1> QED
  BY <1>7, <1>8, <1>9, <1>10, <1>11, <1>12 DEF RowInv

\* A call is sent to the server.
LEMMA CallSentRows ==
  ASSUME Inv, RowInv, NEW f \in Family, CallSent(f)
  PROVE  RowInv'
<1>1. /\ Polled(f) /\ rig[f] = "batch" /\ todo[f] # <<>> /\ request = None
      /\ request' = [call |-> Head(todo[f]), family |-> f]
      /\ Head(todo[f]) \in Plain \cup Sub
      /\ UNCHANGED <<driver, exit, rig, todo, results, fold, made, issuer, delegation,
                     subTrace, queue, outcome, server, reply>>
  <2>1. None \notin Plain \cup Sub
    BY LoopAssumption DEF Calls
  <2> QED
    BY <2>1 DEF CallSent, NextCall, driveVars, streamVars, subVars, history
<1>2. /\ driver = "running" /\ exit = "none" /\ outcome = None /\ (f = "main" <=> delegation = None)
      /\ server = "idle" /\ reply = "none"
  BY <1>1 DEF Polled, RowInv, RequestInv, Inv, ServerInv, TypeOK
<1>3. /\ request'.call = Head(todo[f]) /\ request'.family = f
      /\ Head(todo[f]) \in Issues[f] /\ Head(todo[f]) \in Range(todo[f]) /\ Head(todo[f]) \in Calls
  <2>1. todo[f] \in Seq(Issues[f]) /\ todo[f] \in Seq(Calls)
    BY DEF Inv, TypeOK
  <2> QED
    BY <1>1, <2>1 DEF Range
<1>4. issuer[Head(todo[f])] # None
  <2>1. CASE f = "main"
    <3>1. Head(todo[f]) \in Unlanded
      BY <1>3, <2>1 DEF Unlanded
    <3> QED
      BY <1>2, <3>1, UnlandedIssued
  <2>2. CASE f = "sub"
    BY <1>2, <1>3, <2>2 DEF RowInv, DelegationRowsInv
  <2> QED
    BY <2>1, <2>2 DEF Family
<1>5. RowTypes' /\ RequestInv' /\ IssueInv' /\ DelegationRowsInv'
  BY <1>1, <1>2, <1>3, <1>4 DEF RowInv, RowTypes, RequestInv, IssueInv, DelegationRowsInv
<1>6. QueueInv'
  <2>1. ~Recorded'
    BY <1>1, <1>2 DEF Recorded
  <2>2. QueueInv
    BY DEF RowInv
  <2> QED
    BY <1>1, <2>1, <2>2 DEF QueueInv
<1>7. TurnInv'
  <2>1. Unlanded' \subseteq Unlanded
    BY <1>1, <1>3 DEF Unlanded
  <2> QED
    BY <1>1, <2>1 DEF RowInv, TurnInv
<1>8. MainInv' /\ SubInv'
  BY <1>1, <1>2, SameRows
<1>9. MainTraceIsExact'
  BY <1>1, <1>2 DEF MainTraceIsExact
<1> QED
  BY <1>5, <1>6, <1>7, <1>8, <1>9 DEF RowInv

\* The callback takes its reply, with or without a row behind it.
LEMMA CallReturnsRows ==
  ASSUME Inv, RowInv, NEW f \in Family, CallReturns(f)
  PROVE  RowInv'
<1>1. /\ driver = "running" /\ (f = "main" <=> delegation = None) /\ reply # "none"
      /\ request' = None /\ reply' = "none" /\ server' = server
      /\ todo' = [todo EXCEPT ![f] = Tail(@)] /\ results' = [results EXCEPT ![f] = @ + 1]
      /\ UNCHANGED <<driver, exit, rig, fold, made, issuer, delegation, subTrace, queue, outcome>>
  BY DEF CallReturns, Polled, driveVars, subVars, history
<1>2. /\ exit = "none" /\ outcome = None /\ request # None /\ request.family = f
      /\ rig[f] = "batch" /\ todo[f] # <<>> /\ Recorded /\ request.call = Head(todo[f])
      /\ request.call \in Calls /\ request.call \in Plain \cup Sub
  <2>1. /\ exit = "none" /\ outcome = None /\ request # None /\ Recorded
    BY <1>1 DEF RowInv, RequestInv, Inv, ServerInv, Recorded
  <2>2. request.family = f
    BY <1>1, <2>1 DEF Inv, CallInv, TypeOK, Family
  <2> QED
    BY <1>1, <2>1, <2>2 DEF RowInv, RequestInv, Inv, CallInv, TypeOK, Calls
<1>3. /\ todo \in [Family -> Seq(Calls)] /\ results \in [Family -> Nat]
      /\ todo'[f] = Tail(todo[f]) /\ todo[f] \in Seq(Calls)
      /\ \A h \in Family : h # f => todo'[h] = todo[h] /\ results'[h] = results[h]
      /\ results'[f] = results[f] + 1 /\ results[f] \in Nat
      /\ Range(todo'[f]) \subseteq Range(todo[f])
  <2>1. todo \in [Family -> Seq(Calls)] /\ results \in [Family -> Nat]
    BY DEF Inv, TypeOK
  <2>2. Range(Tail(todo[f])) \subseteq Range(todo[f])
    BY <1>2, <2>1 DEF Range
  <2> QED
    BY <1>1, <2>1, <2>2
<1>4. RowTypes' /\ RequestInv' /\ IssueInv'
  BY <1>1, <1>2 DEF RowInv, RowTypes, RequestInv, IssueInv
<1>5. QueueInv'
  <2>1. Len(queue[f]) <= results[f] + 1 /\ \A h \in Family : h # f => Len(queue[h]) <= results[h] + 0
    BY <1>1, <1>2 DEF RowInv, QueueInv
  <2>2. \A h \in Family : Len(queue'[h]) <= results'[h] + 0
    BY <1>1, <1>3, <2>1
  <2>3. QueueInv
    BY DEF RowInv
  <2> QED
    BY <1>1, <1>2, <1>3, <2>2, <2>3 DEF QueueInv
<1>6. DelegationRowsInv'
  <2>1. DelegationRowsInv
    BY DEF RowInv
  <2>2. CASE f = "main"
    <3>3. \A i, j \in DOMAIN todo["main"] : i # j => todo["main"][i] # todo["main"][j]
      BY <1>1, <1>2, <2>1, <2>2 DEF DelegationRowsInv
    <3>1. /\ \A i, j \in DOMAIN todo'["main"] : i # j => todo'["main"][i] # todo'["main"][j]
          /\ Range(todo'["main"]) \subseteq Range(todo["main"])
      <4>1. todo["main"] \in Seq(Calls) /\ todo["main"] # <<>> /\ todo'["main"] = Tail(todo["main"])
        BY <1>2, <1>3, <2>2
      <4> QED
        BY <3>3, <4>1, TailDistinct
    <3>2. delegation = None /\ todo'["sub"] = todo["sub"]
      BY <1>1, <1>3, <2>2 DEF Family
    <3> QED
      BY <1>1, <2>1, <3>1, <3>2 DEF DelegationRowsInv
  <2>3. CASE f = "sub"
    <3>1. delegation # None /\ todo'["main"] = todo["main"] /\ Range(todo'["sub"]) \subseteq Range(todo["sub"])
      BY <1>1, <1>3, <2>3 DEF Family
    <3> QED
      BY <1>1, <2>1, <3>1 DEF DelegationRowsInv
  <2> QED
    BY <2>2, <2>3 DEF Family
<1>7. TurnInv'
  <2>1. Range(todo'["main"]) \subseteq Range(todo["main"])
    BY <1>3 DEF Family
  <2>2. Unlanded' \subseteq Unlanded
    BY <1>1, <2>1 DEF Unlanded
  <2> QED
    BY <1>1, <2>2 DEF RowInv, TurnInv
<1>8. MainInv' /\ SubInv'
  BY <1>1, <1>2, SameRows
<1>9. MainTraceIsExact'
  BY <1>1, <1>2 DEF MainTraceIsExact
<1> QED
  BY <1>4, <1>5, <1>6, <1>7, <1>8, <1>9 DEF RowInv

\* A delegation is refused: its row is made on the spot.
LEMMA DelegationRefusedRows ==
  ASSUME Inv, RowInv, NEW blank \in BOOLEAN, DelegationRefused(blank)
  PROVE  RowInv'
<1> DEFINE c == NextCall("main")
<1>1. /\ driver = "running" /\ delegation = None /\ rig["main"] = "batch"
      /\ todo["main"] # <<>> /\ request = None /\ c = Head(todo["main"]) /\ c \in Delegation
      /\ queue' = [queue EXCEPT !["main"] = Append(@, c)] /\ made' = Append(made, c)
      /\ todo' = [todo EXCEPT !["main"] = Tail(@)]
      /\ results' = [results EXCEPT !["main"] = @ + 1]
      /\ UNCHANGED <<driver, exit, rig, fold, delegation, subTrace, request, server, reply,
                     outcome, issuer>>
  <2>1. None \notin Delegation
    BY LoopAssumption DEF Calls
  <2> QED
    BY <2>1 DEF DelegationRefused, NextCall, Polled, driveVars, subVars, serverVars
<1> HIDE DEF c
<1>2. /\ todo["main"] \in Seq(Calls) /\ queue["main"] \in Seq(Calls) /\ made \in Seq(Calls)
      /\ fold["main"] \in Folds /\ c \in Calls /\ c \notin Sub /\ c \in Plain \cup Delegation
      /\ results \in [Family -> Nat] /\ todo \in [Family -> Seq(Calls)]
      /\ queue \in [Family -> Seq(Calls)]
  BY <1>1, LoopAssumption DEF Inv, TypeOK, RowInv, RowTypes, Calls, Family
<1>3. /\ todo'["main"] = Tail(todo["main"]) /\ todo'["sub"] = todo["sub"]
      /\ queue'["main"] = Append(queue["main"], c) /\ queue'["sub"] = queue["sub"]
      /\ results'["main"] = results["main"] + 1 /\ results'["sub"] = results["sub"]
  BY <1>1, <1>2 DEF Family
<1>4. /\ Range(made') = Range(made) \cup {c} /\ made' \in Seq(Calls)
      /\ Range(queue'["main"]) = Range(queue["main"]) \cup {c}
  BY <1>1, <1>2, <1>3, RangeAppend
<1>5. /\ \A i, j \in DOMAIN Tail(todo["main"]) :
           i # j => Tail(todo["main"])[i] # Tail(todo["main"])[j]
      /\ c \notin Range(Tail(todo["main"])) /\ Range(Tail(todo["main"])) \subseteq Range(todo["main"])
      /\ c \in Range(todo["main"])
  <2>1. \A i, j \in DOMAIN todo["main"] : i # j => todo["main"][i] # todo["main"][j]
    BY <1>1 DEF RowInv, DelegationRowsInv
  <2> QED
    BY <1>1, <1>2, <2>1, TailDistinct
<1>6. /\ exit = "none" /\ outcome = None /\ issuer[c] # None
  <2>1. exit = "none" /\ outcome = None
    BY <1>1 DEF RowInv, RequestInv, Inv, ServerInv
  <2>2. c \in Unlanded
    BY <1>5 DEF Unlanded
  <2> QED
    BY <2>1, <2>2, UnlandedIssued
<1>7. RowTypes' /\ RequestInv' /\ IssueInv'
  BY <1>1, <1>4, <1>6 DEF RowInv, RowTypes, RequestInv, IssueInv
<1>8. QueueInv'
  <2>1. Len(queue["main"]) <= results["main"] + 0 /\ Len(queue["sub"]) <= results["sub"] + 0
    BY <1>1 DEF RowInv, QueueInv, Family
  <2>2. Len(queue'["main"]) <= results'["main"] + 0 /\ Len(queue'["sub"]) <= results'["sub"] + 0
    BY <1>2, <1>3, <2>1 DEF Family
  <2>3. QueueInv
    BY DEF RowInv
  <2> QED
    BY <1>1, <1>3, <2>2, <2>3 DEF QueueInv, Family
<1>9. DelegationRowsInv'
  <2>1. /\ \A i, j \in DOMAIN todo'["main"] : i # j => todo'["main"][i] # todo'["main"][j]
        /\ \A d \in Range(todo'["main"]) \cap Delegation : d \notin Range(made')
    BY <1>1, <1>3, <1>4, <1>5 DEF RowInv, DelegationRowsInv
  <2> QED
    BY <1>1, <1>3, <2>1 DEF RowInv, DelegationRowsInv
<1>10. TurnInv'
  <2>1. Unlanded' \subseteq Unlanded
    BY <1>1, <1>3, <1>4, <1>5 DEF Unlanded
  <2> QED
    BY <1>1, <2>1 DEF RowInv, TurnInv
<1>11. MainInv'
  <2>1. RowsOf(fold["main"].rounds) \in Seq(Calls)
    BY <1>2, RowsOfType DEF Folds, Rounds
  <2>2. RowsSoFar("main") \in Seq(Calls)
    BY <1>2, <2>1, ConcatProperties DEF RowsSoFar
  <2>3. RowsOf(fold["main"].rounds) \o Append(queue["main"], c) = Append(RowsOf(fold["main"].rounds) \o queue["main"], c)
    BY <1>2, <2>1, AppendLast
  <2>4. RowsSoFar("main")' = Append(RowsSoFar("main"), c)
    BY <1>1, <1>3, <2>3 DEF RowsSoFar
  <2>5. Lists(RowsSoFar("main"), made, Plain \cup Delegation)
    BY <1>6 DEF RowInv, MainInv
  <2>6. Lists(Append(RowsSoFar("main"), c), Append(made, c), Plain \cup Delegation)
    BY <1>2, <2>2, <2>5, AppendedRow
  <2>7. Lists(RowsSoFar("main")', made', Plain \cup Delegation)
    BY <1>1, <2>4, <2>6
  <2> QED
    BY <2>7 DEF MainInv, Lists
<1>12. SubInv'
  <2>1. \A d : SubCalls(d)' = SubCalls(d)
    BY <1>1 DEF SubCalls
  <2>2. ASSUME NEW d \in Delegation \cap Range(made')
        PROVE  Lists(subTrace'[d], made', SubCalls(d))
    <3>1. subTrace[d] \in Seq(Calls) /\ c \notin SubCalls(d)
      BY <1>2, <2>2 DEF RowInv, RowTypes, SubCalls
    <3>2. Lists(subTrace[d], made, SubCalls(d))
      <4>1. CASE d \in Range(made)
        BY <1>6, <2>2, <4>1 DEF RowInv, SubInv
      <4>2. CASE d \notin Range(made)
        <5>1. subTrace[d] = <<>>
          BY <2>2, <4>2 DEF RowInv, IssueInv
        <5>2. \A e \in Sub : issuer[e] # d
          <6>1. d # None
            BY <2>2, LoopAssumption DEF Calls
          <6> QED
            BY <1>1, <2>2, <4>2, <6>1 DEF RowInv, IssueInv
        <5>3. \A i \in DOMAIN made : made[i] \notin SubCalls(d)
          BY <5>2 DEF SubCalls
        <5> QED
          BY <5>1, <5>3, ListsNothing
      <4> QED
        BY <4>1, <4>2
    <3> QED
      BY <1>1, <1>2, <3>1, <3>2, AppendedRow
  <2>3. delegation' = None
    BY <1>1
  <2>4. \A d \in Delegation \cap Range(made') : Lists(subTrace[d], made, SubCalls(d))'
    BY <2>1, <2>2 DEF Lists
  <2> QED
    BY <2>3, <2>4 DEF SubInv
<1>13. MainTraceIsExact'
  BY <1>1, <1>6 DEF MainTraceIsExact
<1> QED
  BY <1>7, <1>8, <1>9, <1>10, <1>11, <1>12, <1>13 DEF RowInv

\* A sub-agent starts with no call issued and no row made.
LEMMA SubagentStartsRows ==
  ASSUME Inv, RowInv, SubagentStarts
  PROVE  RowInv'
<1>1. /\ driver = "running" /\ delegation = None /\ todo["main"] # <<>>
      /\ delegation' = Head(todo["main"]) /\ Head(todo["main"]) \in Delegation
      /\ UNCHANGED <<driver, exit, rig, todo, results, fold, queue, made, issuer, subTrace,
                     outcome, request, server, reply>>
  <2>1. None \notin Delegation
    BY LoopAssumption DEF Calls
  <2> QED
    BY <2>1 DEF SubagentStarts, NextCall, Polled, driveVars, serverVars, history
<1> DEFINE d0 == Head(todo["main"])
<1>2. /\ exit = "none" /\ outcome = None /\ d0 # None
      /\ d0 \in Range(todo["main"]) /\ d0 \notin Range(made)
  <2>1. exit = "none" /\ outcome = None /\ d0 # None
    BY <1>1, LoopAssumption DEF RowInv, RequestInv, Inv, ServerInv, Calls
  <2>2. todo["main"] \in Seq(Calls)
    BY DEF Inv, TypeOK, Family
  <2>3. d0 \in Range(todo["main"])
    BY <1>1, <2>2 DEF Range
  <2> QED
    BY <1>1, <2>1, <2>3 DEF RowInv, DelegationRowsInv
<1>3. RowTypes' /\ RequestInv' /\ QueueInv'
  BY <1>1 DEF RowInv, RowTypes, RequestInv, QueueInv, Recorded
<1>4. IssueInv'
  <2>1. \A c \in Sub : issuer[c] = None \/ issuer[c] \in Delegation \cap Range(made)
    <3>1. None \notin Delegation
      BY LoopAssumption DEF Calls
    <3> QED
      BY <1>1, <3>1 DEF RowInv, IssueInv
  <2> QED
    BY <1>1, <2>1 DEF RowInv, IssueInv
<1>5. DelegationRowsInv'
  <2>1. fold["sub"] = NewFold /\ queue["sub"] = <<>> /\ todo["sub"] = <<>>
    BY <1>1 DEF RowInv, DelegationRowsInv
  <2>2. Range(todo["sub"]) = {}
    BY <2>1 DEF Range
  <2> QED
    BY <1>1, <1>2, <2>1, <2>2 DEF RowInv, DelegationRowsInv
<1>6. TurnInv' /\ MainTraceIsExact'
  <2>1. Unlanded' = Unlanded
    BY <1>1 DEF Unlanded
  <2> QED
    BY <1>1, <1>2, <2>1 DEF RowInv, TurnInv, MainTraceIsExact
<1>7. RowsSoFar("main")' = RowsSoFar("main")
  BY <1>1 DEF RowsSoFar
<1>8. MainInv'
  BY <1>1, <1>7 DEF RowInv, MainInv, Lists
<1>9. SubInv'
  <2>1. \A d : SubCalls(d)' = SubCalls(d)
    BY <1>1 DEF SubCalls
  <2>2. RowsSoFar("sub")' = <<>>
    <3>1. fold'["sub"] = NewFold /\ queue'["sub"] = <<>>
      BY <1>1 DEF RowInv, DelegationRowsInv
    <3>2. RowsOf(NewFold.rounds) \o <<>> = <<>>
      BY NewFoldType
    <3> QED
      BY <3>1, <3>2 DEF RowsSoFar
  <2>3. ASSUME NEW i \in DOMAIN made PROVE made[i] \notin SubCalls(d0)
    <3>1. made[i] \in Range(made)
      BY DEF Range
    <3>2. \A c \in Sub : issuer[c] # d0
      BY <1>1, <1>2 DEF RowInv, IssueInv
    <3> QED
      BY <3>2 DEF SubCalls
  <2>4. Lists(<<>>, made, SubCalls(d0))
    BY <2>3, ListsNothing
  <2>5. ASSUME NEW d \in Delegation \cap Range(made)
        PROVE  Lists(subTrace[d], made, SubCalls(d))
    BY <1>2, <2>5 DEF RowInv, SubInv
  <2>6. Lists(RowsSoFar("sub")', made', SubCalls(delegation'))
    BY <1>1, <2>2, <2>4
  <2>7. \A d \in Delegation \cap Range(made) : Lists(subTrace[d], made, SubCalls(d))
    BY <2>5
  <2> QED
    BY <1>1, <2>1, <2>6, <2>7 DEF SubInv, Lists, SubCalls
<1> QED
  BY <1>3, <1>4, <1>5, <1>6, <1>8, <1>9 DEF RowInv

\* The driver's thread starts, or fails to, or goes.
LEMMA DriverThreadRows ==
  ASSUME Inv, RowInv, DriverStarts \/ DriverLeaves
  PROVE  RowInv'
<1>1. UNCHANGED <<fold, made, issuer, delegation, subTrace, queue, outcome, todo, results, rig>>
  BY DEF DriverStarts, DriverLeaves, streamVars, subVars, history
<1>2. \/ /\ driver = "starting" /\ driver' = "running"
         /\ UNCHANGED <<exit, request, server, reply>>
      \/ /\ driver = "starting" /\ driver' = "left" /\ exit' = "done"
         /\ UNCHANGED <<request, server, reply>>
      \/ /\ driver = "leaving" /\ driver' = "left" /\ exit' = exit /\ request' = None
  BY DEF DriverStarts, DriverLeaves, driveVars, serverVars
<1>3. /\ outcome = None /\ (driver = "starting" => request = None /\ exit = "none" /\ delegation = None)
  BY <1>2 DEF Inv, ServerInv, DelegationInv, RowInv, RequestInv
<1>4. RowTypes' /\ IssueInv'
  BY <1>1 DEF RowInv, RowTypes, IssueInv
<1>5. RequestInv'
  BY <1>2, <1>3 DEF RowInv, RequestInv
<1>6. QueueInv' /\ DelegationRowsInv'
  BY <1>1, <1>2, <1>3 DEF RowInv, QueueInv, DelegationRowsInv
<1>7. TurnInv'
  <2>1. Unlanded' \subseteq Unlanded
    BY <1>1, <1>2 DEF Unlanded
  <2>2. exit' # "panic" => exit # "panic"
    BY <1>2, <1>3
  <2> QED
    BY <1>1, <2>1, <2>2 DEF RowInv, TurnInv
<1>8. MainInv'
  <2>1. RowsSoFar("main")' = RowsSoFar("main")
    BY <1>1 DEF RowsSoFar
  <2>2. exit' # "panic" => exit # "panic"
    BY <1>2, <1>3
  <2> QED
    BY <1>1, <2>1, <2>2 DEF RowInv, MainInv, Lists
<1>9. SubInv'
  <2>1. \A d : SubCalls(d)' = SubCalls(d)
    BY <1>1 DEF SubCalls
  <2>2. ASSUME NEW d \in Delegation \cap Range(made)
        PROVE  \/ Lists(subTrace[d], made, SubCalls(d))
               \/ /\ exit' \in {"abandoned", "panic"} /\ request' = None
                  /\ \E c \in Sub : Lists(Append(subTrace[d], c), made, SubCalls(d))
    BY <1>2, <1>3, <2>2 DEF RowInv, SubInv
  <2> QED
    BY <1>1, <1>2, <1>3, <2>1, <2>2 DEF SubInv, Lists
<1>10. MainTraceIsExact'
  BY <1>1, <1>3 DEF MainTraceIsExact
<1> QED
  BY <1>4, <1>5, <1>6, <1>7, <1>8, <1>9, <1>10 DEF RowInv

\* A turn begins with no row made and none on its way.
LEMMA InitRows == ASSUME Init PROVE RowInv
<1>1. /\ fold = [f \in Family |-> NewFold] /\ queue = [f \in Family |-> <<>>]
      /\ todo = [f \in Family |-> <<>>] /\ results = [f \in Family |-> 0]
      /\ subTrace = [d \in Delegation |-> <<>>] /\ made = <<>>
      /\ issuer = [c \in Calls |-> None] /\ outcome = None /\ request = None
      /\ driver = "starting" /\ exit = "none" /\ delegation = None
      /\ rig = [f \in Family |-> "idle"]
  BY DEF Init
<1>2. <<>> \in Seq(Calls) /\ Range(<<>>) = {} /\ Len(<<>>) = 0
  BY EmptySeq DEF Range
<1>3. NewFold.trailing = <<>> /\ ~NewFold.open /\ NewFold.rounds = <<>>
  BY DEF NewFold
<1>4. RowTypes /\ RequestInv
  BY <1>1, <1>2, NewFoldType DEF RowTypes, RequestInv
<1>5. QueueInv
  BY <1>1, <1>2, <1>3 DEF QueueInv, Recorded
<1>6. IssueInv /\ DelegationRowsInv
  BY <1>1, <1>2 DEF IssueInv, DelegationRowsInv, Calls, Family
<1>7. TurnInv
  <2>1. Unlanded = {}
    BY <1>1, <1>2 DEF Unlanded, Family
  <2> QED
    BY <1>1, <1>3, <2>1 DEF TurnInv, Family
<1>8. MainInv
  <2>1. RowsSoFar("main") = <<>>
    <3>1. RowsOf(NewFold.rounds) \o <<>> = <<>>
      BY NewFoldType
    <3> QED
      BY <1>1, <3>1 DEF RowsSoFar, Family
  <2>2. Lists(<<>>, <<>>, Plain \cup Delegation)
    BY ListsNothing
  <2> QED
    BY <1>1, <2>1, <2>2 DEF MainInv
<1>9. SubInv
  BY <1>1, <1>2 DEF SubInv
<1>10. MainTraceIsExact
  BY <1>1 DEF MainTraceIsExact
<1> QED
  BY <1>4, <1>5, <1>6, <1>7, <1>8, <1>9, <1>10 DEF RowInv

\* A stream that ends lands the delegation or closes the main loop's fold.
LEMMA StreamEndsRows ==
  ASSUME Inv, RowInv, NEW f \in Family, Polled(f), rig[f] \notin {"batch", "results"},
         NEW how \in {"done", "error", "stopped", "stepCap"},
         NEW folded, Carries(fold[f], folded), StreamEnds(f, how, folded)
  PROVE  RowInv'
<1>1. CASE f = "sub"
  BY <1>1, ReportsRows DEF StreamEnds
<1>2. CASE f = "main"
  BY <1>2, MainEndsStep DEF StreamEnds
<1> QED
  BY <1>1, <1>2 DEF Family

\* Every move of a model's stream keeps the rows.
LEMMA ModelRows ==
  ASSUME Inv, RowInv, NEW f \in Family, ModelMoves(f)
  PROVE  RowInv'
<1>1. fold[f] \in Folds /\ Carries(fold[f], fold[f])
  <2>1. fold[f] \in Folds
    BY DEF RowInv, RowTypes
  <2> QED
    BY <2>1, SameRounds
<1>2. rig \in [Family -> {"idle", "asked", "open", "closed", "batch", "results"}]
  BY DEF Inv, TypeOK
<1>3. CASE ModelCalled(f)
  <2>1. /\ rig[f] = "idle" /\ rig' = [rig EXCEPT ![f] = "asked"]
        /\ UNCHANGED <<driver, exit, fold, queue, made, issuer, todo, results,
                       delegation, subTrace, outcome, request, server, reply>>
    BY <1>3 DEF ModelCalled, OnlyStreams, driveVars, subVars, serverVars
  <2>2. \A h \in Family : rig'[h] = rig[h] \/ (rig[h] = "idle" /\ rig'[h] = "asked")
    BY <1>2, <2>1
  <2> QED
    BY <2>1, <2>2, QuietStep DEF Recorded
<1>4. ASSUME NEW parts \in Contents, TurnOpens(f, parts) PROVE RowInv'
  <2> DEFINE g == [OpenCall(fold[f]) EXCEPT !.parts = parts]
  <2>1. /\ Polled(f) /\ rig[f] = "asked" /\ rig' = [rig EXCEPT ![f] = "open"]
        /\ fold' = [fold EXCEPT ![f] = g]
        /\ UNCHANGED <<driver, exit, queue, made, issuer, todo, results, delegation,
                       subTrace, outcome, request, server, reply>>
    BY <1>4 DEF TurnOpens, OnlyStreams, driveVars, subVars, serverVars
  <2>2. Carries(fold[f], g) /\ (~fold[f].open => g.trailing = <<>>)
        /\ (fold[f].open => g.trailing = fold[f].trailing)
    <3>1. parts \in Parts
      BY LoopAssumption
    <3>2. Carries(fold[f], OpenCall(fold[f])) /\ Carries(fold[f], g)
          /\ (~fold[f].open => OpenCall(fold[f]).trailing = <<>>)
          /\ (fold[f].open => OpenCall(fold[f]) = fold[f])
      BY <1>1, <3>1, OpenCarries
    <3>3. OpenCall(fold[f]) \in Folds
      BY <3>2 DEF Carries
    <3>4. g.trailing = OpenCall(fold[f]).trailing
      BY <3>3 DEF Folds
    <3> QED
      BY <3>2, <3>4
  <2>3. fold[f].trailing = <<>>
    BY <2>1 DEF Polled, RowInv, QueueInv
  <2> HIDE DEF g
  <2> QED
    BY <2>1, <2>2, <2>3, FoldStep
<1>5. CASE TurnCloses(f)
  <2>1. /\ Polled(f) /\ rig[f] \in {"asked", "open"} /\ rig' = [rig EXCEPT ![f] = "closed"]
        /\ fold' = [fold EXCEPT ![f] = CloseCall(fold[f])]
        /\ UNCHANGED <<driver, exit, queue, made, issuer, todo, results, delegation,
                       subTrace, outcome, request, server, reply>>
    BY <1>5 DEF TurnCloses, OnlyStreams, driveVars, subVars, serverVars
  <2>2. Carries(fold[f], CloseCall(fold[f])) /\ ~CloseCall(fold[f]).open
    BY <1>1, CloseCarries
  <2> QED
    BY <2>1, <2>2, FoldStep
<1>6. CASE TurnRetried(f)
  <2>1. /\ Polled(f) /\ rig[f] = "closed" /\ rig' = [rig EXCEPT ![f] = "idle"]
        /\ fold' = [fold EXCEPT ![f] = ResetCall(fold[f])]
        /\ UNCHANGED <<driver, exit, queue, made, issuer, todo, results, delegation,
                       subTrace, outcome, request, server, reply>>
    BY <1>6 DEF TurnRetried, OnlyStreams, driveVars, subVars, serverVars
  <2>2. Carries(fold[f], ResetCall(fold[f])) /\ ResetCall(fold[f]).trailing = <<>>
    BY <1>1, ResetCarries
  <2> QED
    BY <2>1, <2>2, FoldStep
<1>7. CASE Replies(f)
  <2>1. Polled(f) /\ rig[f] = "closed" /\ StreamEnds(f, "done", FinalResponse(fold[f]))
    BY <1>7 DEF Replies
  <2>2. Carries(fold[f], FinalResponse(fold[f]))
    BY <1>1, FinalCarries
  <2> QED
    BY <2>1, <2>2, StreamEndsRows
<1>8. CASE StreamFails(f)
  <2>1. Polled(f) /\ rig[f] \in {"asked", "open", "closed"} /\ StreamEnds(f, "error", fold[f])
    BY <1>8 DEF StreamFails
  <2> QED
    BY <1>1, <2>1, StreamEndsRows
<1>9. ASSUME NEW batch \in Batches(f), BatchCommits(f, batch) PROVE RowInv'
  BY <1>9, BatchCommitsRows
<1> QED
  BY <1>3, <1>4, <1>5, <1>6, <1>7, <1>8, <1>9 DEF ModelMoves

\* Every move of a family's loop keeps the rows.
LEMMA LoopRows ==
  ASSUME Inv, RowInv, NEW f \in Family, LoopMoves(f)
  PROVE  RowInv'
<1>1. Carries(fold[f], fold[f])
  BY SameRounds DEF RowInv, RowTypes
<1>2. CASE BudgetSpent(f)
  <2>1. Polled(f) /\ rig[f] = "idle" /\ StreamEnds(f, "stepCap", fold[f])
    BY <1>2 DEF BudgetSpent
  <2> QED
    BY <1>1, <2>1, StreamEndsRows
<1>3. CASE Checkpoint(f)
  <2>1. Polled(f) /\ rig[f] \in {"idle", "open"} /\ StreamEnds(f, "stopped", fold[f])
    BY <1>3 DEF Checkpoint
  <2> QED
    BY <1>1, <2>1, StreamEndsRows
<1>4. CASE BatchSettles(f)
  <2>1. /\ rig[f] = "batch" /\ todo[f] = <<>> /\ rig' = [rig EXCEPT ![f] = "results"]
        /\ UNCHANGED <<driver, exit, fold, queue, made, issuer, todo, results,
                       delegation, subTrace, outcome, request, server, reply>>
    BY <1>4 DEF BatchSettles, OnlyStreams, driveVars, subVars, serverVars
  <2>2. \A h \in Family : rig'[h] = rig[h]
          \/ (rig[h] = "batch" /\ todo[h] = <<>> /\ rig'[h] = "results")
    BY <2>1 DEF Inv, TypeOK
  <2> QED
    BY <2>1, <2>2, QuietStep DEF Recorded
<1>5. CASE ResultSurfaces(f)
  BY <1>5, ResultSurfacesRows
<1>6. CASE CallSent(f)
  BY <1>6, CallSentRows
<1>7. CASE CallReturns(f)
  BY <1>7, CallReturnsRows
<1> QED
  BY <1>2, <1>3, <1>4, <1>5, <1>6, <1>7 DEF LoopMoves

\* Every move of the driver keeps the rows.
LEMMA DriverRows ==
  ASSUME Inv, RowInv, DriverMoves \/ DriverPanics
  PROVE  RowInv'
<1>1. ASSUME NEW f \in Family, LoopMoves(f) PROVE RowInv'
  BY <1>1, LoopRows
<1>2. CASE DriverStarts \/ DriverLeaves
  BY <1>2, DriverThreadRows
<1>3. CASE WindowReopens
  <2>1. UNCHANGED <<driver, exit, fold, queue, made, issuer, todo, results, rig,
                    delegation, subTrace, outcome, request, server, reply>>
    BY <1>3 DEF WindowReopens, subVars, serverVars, history
  <2> QED
    BY <2>1, QuietStep DEF Recorded
<1>4. ASSUME NEW blank \in BOOLEAN, DelegationRefused(blank) PROVE RowInv'
  BY <1>4, DelegationRefusedRows
<1>5. CASE SubagentStarts
  BY <1>5, SubagentStartsRows
<1>6. CASE DriverAbandons
  <2>1. /\ driver = "running" /\ Leaves("abandoned", Finish(fold["main"])) /\ FuturesDrop
        /\ UNCHANGED <<serverVars, outcome, issuer>>
    BY <1>6 DEF DriverAbandons
  <2> QED
    BY <2>1, DropRows
<1>7. CASE DriverPanics
  <2>1. /\ driver = "running" /\ Leaves("panic", NewFold) /\ FuturesDrop
        /\ UNCHANGED <<serverVars, outcome, issuer>>
    BY <1>7 DEF DriverPanics
  <2> QED
    BY <2>1, DropRows
<1> QED
  BY <1>1, <1>2, <1>3, <1>4, <1>5, <1>6, <1>7 DEF DriverMoves

\* Every move of the dispatch server keeps the rows.
LEMMA ServerRows ==
  ASSUME Inv, RowInv, ServerMoves
  PROVE  RowInv'
<1>1. CASE ServerRefuses \/ ServerExecutes
  <2>1. /\ Records /\ server' = "recorded"
        /\ UNCHANGED <<driver, exit, rig, todo, results, fold, delegation, subTrace,
                       outcome, issuer, request, reply>>
    BY <1>1 DEF ServerRefuses, ServerExecutes, driveVars, streamVars, subVars
  <2>2. request # None /\ ~Recorded
    BY <1>1 DEF ServerRefuses, ServerExecutes, Asked, Recorded, Inv, ServerInv
  <2> QED
    BY <2>1, <2>2, RecordsRows
<1>2. CASE ServerCancels \/ ServerStarts \/ ServerExecutesTraceless \/ ServerReplies \/ ServerAborts
  <2>1. UNCHANGED <<driver, exit, fold, queue, made, issuer, todo, results, rig,
                    delegation, subTrace, outcome, request>>
    BY <1>2 DEF ServerCancels, ServerStarts, ServerExecutesTraceless, ServerReplies,
                ServerAborts, driveVars, streamVars, subVars, history
  <2>2. Recorded => Recorded'
    BY <1>2 DEF ServerCancels, ServerStarts, ServerExecutesTraceless, ServerReplies,
                ServerAborts, Recorded, Asked, Inv, ServerInv
  <2> QED
    BY <2>1, <2>2, QuietStep
<1>3. CASE Settles
  BY <1>3, SettlesRows
<1> QED
  BY <1>1, <1>2, <1>3 DEF ServerMoves, ServerProceeds

\* Every step of the turn keeps the rows.
LEMMA RowsInductive == ASSUME Inv, RowInv, [Next]_vars PROVE RowInv'
<1>1. ASSUME NEW f \in Family, ModelMoves(f) PROVE RowInv'
  BY <1>1, ModelRows
<1>2. CASE DriverMoves \/ DriverPanics
  BY <1>2, DriverRows
<1>3. CASE ServerMoves
  BY <1>3, ServerRows
<1>4. CASE UserStops \/ WatchdogStops \/ WatcherNotifies \/ Done \/ UNCHANGED vars
  <2>1. UNCHANGED <<driver, exit, fold, queue, made, issuer, todo, results, rig,
                    delegation, subTrace, outcome, request, server, reply>>
    BY <1>4 DEF UserStops, WatchdogStops, WatcherNotifies, Done, vars, driveVars,
                streamVars, subVars, serverVars, history
  <2> QED
    BY <2>1, QuietStep DEF Recorded
<1> QED
  BY <1>1, <1>2, <1>3, <1>4 DEF Next

\* A row that the server has recorded, or a refusal made, is in a round of its
\* family's fold or on its channel, in the order of the making, until it lands
\* with the delegation or the turn: fold.rs's events, the adapter's channel, the
\* stop paths and the settle all keep it (RowInv).
THEOREM RowInvHolds == Spec => []RowInv
<1>1. Init => RowInv
  BY InitRows
<1>2. Inv /\ RowInv /\ [Next]_vars => RowInv'
  BY RowsInductive
<1> QED
  BY <1>1, <1>2, InvHolds, PTL DEF Spec

\* MainTraceIsExact, for any calls, caps and threshold: unless the driver
\* panicked, the trace that a turn settles with has the row of every call of the
\* main loop that was made, once, in the order of the making and in the round of
\* the turn that issued it, whatever cut the turn (EventFold::assistant_item,
\* event and drain_residual, LoopRuntime::run's exits).
THEOREM MainTraceIsExactHolds == Spec => []MainTraceIsExact
<1>1. RowInv => MainTraceIsExact
  BY DEF RowInv
<1> QED
  BY <1>1, RowInvHolds, PTL

\* SubTraceIsPrefix, likewise: what finish_run lands under a delegation is the
\* rows of that sub-agent's own calls in their order, and only a driver that
\* abandons its call, or panics in it, cuts the last one.
THEOREM SubTraceIsPrefixHolds == Spec => []SubTraceIsPrefix
<1>1. RowInv => SubTraceIsPrefix
  BY DEF RowInv, SubInv, SubTraceIsPrefix
<1> QED
  BY <1>1, RowInvHolds, PTL

-----------------------------------------------------------------------------
(***************************************************************************)
(* Prose                                                                   *)
(***************************************************************************)
\* The rounds s carry the prose of the turns in D, each once, and no other.
ProseOf(s, D) ==
  /\ \A i \in DOMAIN s : "text" \in s[i].parts => s[i].turn \in D
  /\ \A i, j \in DOMAIN s :
       "text" \in s[i].parts /\ "text" \in s[j].parts /\ s[i].turn = s[j].turn => i = j
  /\ \A t \in D : \E i \in DOMAIN s : s[i].turn = t /\ "text" \in s[i].parts

\* The round of an unconfirmed turn, if the turn had anything in it.
Parked(turn, parts) == IF parts = {} THEN <<>> ELSE <<Round(turn, parts)>>

\* A turn's prose waits beside the rounds from its first item until the next
\* turn, a batch or the end decides where it goes; a reply's goes nowhere.
StreamInv ==
  /\ driver = "starting" => rig["main"] = "idle"
  /\ driver \in {"starting", "running"} =>
       LET f == fold["main"] IN
       /\ ~f.final /\ (f.open <=> rig["main"] = "open")
       /\ rig["main"] \in {"open", "closed"} =>
            ~f.batch /\ (f.trips \in spoke <=> "text" \in f.parts)
       /\ f.trailing = IF rig["main"] = "closed" THEN Parked(f.trips, f.parts) ELSE <<>>

Waits == driver = "running" /\ rig["main"] \in {"open", "closed"}

ProseInv ==
  outcome = None /\ exit # "panic" =>
    LET f == fold["main"] IN
    /\ spoke \subseteq 1..f.trips
    /\ ProseOf(f.rounds, IF Waits \/ f.final THEN spoke \ {f.trips} ELSE spoke)

SpeechInv == StreamInv /\ ProseInv /\ ProseLandsOnce

\* Without rounds there is no prose.
LEMMA ProseNone == ProseOf(<<>>, {})
  BY DEF ProseOf

\* A round without prose adds none.
LEMMA ProseQuiet ==
  ASSUME NEW s \in Seq(Rounds), NEW D, ProseOf(s, D), NEW r \in Rounds, "text" \notin r.parts
  PROVE  ProseOf(Append(s, r), D)
<1>1. /\ DOMAIN Append(s, r) = DOMAIN s \cup {Len(s) + 1}
      /\ Append(s, r)[Len(s) + 1] = r /\ \A i \in DOMAIN s : Append(s, r)[i] = s[i]
  OBVIOUS
<1> QED
  BY <1>1 DEF ProseOf

\* A round with the prose of a turn that no other round carries.
LEMMA ProseSpoken ==
  ASSUME NEW s \in Seq(Rounds), NEW D, NEW r \in Rounds, "text" \in r.parts,
         r.turn \in D, ProseOf(s, D \ {r.turn})
  PROVE  ProseOf(Append(s, r), D)
<1>1. /\ DOMAIN Append(s, r) = DOMAIN s \cup {Len(s) + 1}
      /\ Append(s, r)[Len(s) + 1] = r /\ \A i \in DOMAIN s : Append(s, r)[i] = s[i]
  OBVIOUS
<1> QED
  BY <1>1 DEF ProseOf

\* And backwards, when the last round is taken away.
LEMMA ProseButLast ==
  ASSUME NEW s \in Seq(Rounds), NEW D, NEW r \in Rounds, ProseOf(Append(s, r), D)
  PROVE  IF "text" \in r.parts THEN r.turn \in D /\ ProseOf(s, D \ {r.turn})
         ELSE ProseOf(s, D)
<1>1. /\ DOMAIN Append(s, r) = DOMAIN s \cup {Len(s) + 1} /\ Len(s) + 1 \notin DOMAIN s
      /\ Append(s, r)[Len(s) + 1] = r /\ \A i \in DOMAIN s : Append(s, r)[i] = s[i]
  OBVIOUS
<1>2. CASE "text" \in r.parts
  <2>1. r.turn \in D
    BY <1>1, <1>2 DEF ProseOf
  <2>2. \A i \in DOMAIN s : "text" \in s[i].parts => s[i].turn \in D \ {r.turn}
    BY <1>1, <1>2 DEF ProseOf
  <2>3. \A i, j \in DOMAIN s :
          "text" \in s[i].parts /\ "text" \in s[j].parts /\ s[i].turn = s[j].turn => i = j
    BY <1>1 DEF ProseOf
  <2>4. \A t \in D \ {r.turn} : \E i \in DOMAIN s : s[i].turn = t /\ "text" \in s[i].parts
    BY <1>1 DEF ProseOf
  <2> QED
    BY <1>2, <2>1, <2>2, <2>3, <2>4 DEF ProseOf
<1>3. CASE "text" \notin r.parts
  <2>1. \A t \in D : \E i \in DOMAIN s : s[i].turn = t /\ "text" \in s[i].parts
    BY <1>1, <1>3 DEF ProseOf
  <2>2. \A i, j \in DOMAIN s :
          "text" \in s[i].parts /\ "text" \in s[j].parts /\ s[i].turn = s[j].turn => i = j
    BY <1>1 DEF ProseOf
  <2>3. \A i \in DOMAIN s : "text" \in s[i].parts => s[i].turn \in D
    BY <1>1 DEF ProseOf
  <2> QED
    BY <1>3, <2>1, <2>2, <2>3 DEF ProseOf
<1> QED
  BY <1>2, <1>3

\* Rows that land carry no prose.
LEMMA ProsePushed ==
  ASSUME NEW s \in Seq(Rounds), NEW D, ProseOf(s, D), NEW rows \in Seq(Calls)
  PROVE  ProseOf(PushCalls(s, rows), D)
<1>1. CASE rows = <<>>
  BY <1>1 DEF PushCalls
<1>2. CASE rows # <<>> /\ s = <<>>
  <2> DEFINE r == [Round(0, {}) EXCEPT !.calls = rows]
  <2>1. r.parts = {}
    BY DEF Round
  <2>2. PushCalls(s, rows) = <<r>>
    BY <1>2 DEF PushCalls
  <2>3. D = {}
    BY <1>2 DEF ProseOf
  <2> HIDE DEF r
  <2>4. DOMAIN <<r>> = {1} /\ <<r>>[1] = r
    OBVIOUS
  <2> QED
    BY <2>1, <2>2, <2>3, <2>4 DEF ProseOf
<1>3. CASE rows # <<>> /\ s # <<>>
  <2> DEFINE u == PushCalls(s, rows)
  <2>1. DOMAIN u = DOMAIN s /\ \A i \in DOMAIN s : u[i].turn = s[i].turn /\ u[i].parts = s[i].parts
    BY <1>3, PushedRows
  <2> HIDE DEF u
  <2>2. ProseOf(u, D)
    BY <2>1 DEF ProseOf
  <2> QED
    BY <2>2 DEF u
<1> QED
  BY <1>1, <1>2, <1>3

\* What is kept carries the prose of what there was.
LEMMA ProseLanded ==
  ASSUME NEW s \in Seq(Rounds), NEW D, ProseOf(s, D)
  PROVE  ProseOf(Landed(s), D)
<1> DEFINE P == {q \in Seq(Rounds) : \A E \in SUBSET D : ProseOf(q, E) => ProseOf(Landed(q), E)}
<1>1. <<>> \in P
  BY LandedEmpty
<1>2. ASSUME NEW q \in P, NEW r \in Rounds PROVE Append(q, r) \in P
  <2>1. SUFFICES ASSUME NEW E \in SUBSET D, ProseOf(Append(q, r), E)
                 PROVE  ProseOf(Landed(Append(q, r)), E)
    OBVIOUS
  <2>2. Landed(Append(q, r)) = Kept(Landed(q), r)
    BY LandedAppend
  <2>3. Landed(q) \in Seq(Rounds)
    BY LandedRows
  <2>4. CASE "text" \in r.parts
    <3>1. r.turn \in E /\ ProseOf(q, E \ {r.turn})
      BY <2>1, <2>4, ProseButLast
    <3>2. ProseOf(Landed(q), E \ {r.turn})
      BY <3>1
    <3>3. Kept(Landed(q), r) = Append(Landed(q), r)
      BY <2>4 DEF Kept, Bare
    <3> QED
      BY <2>2, <2>3, <2>4, <3>1, <3>2, <3>3, ProseSpoken
  <2>5. CASE "text" \notin r.parts
    <3>1. ProseOf(Landed(q), E)
      BY <2>1, <2>5, ProseButLast
    <3>2. ProseOf(Append(Landed(q), r), E)
      BY <2>3, <2>5, <3>1, ProseQuiet
    <3> QED
      BY <2>2, <3>1, <3>2 DEF Kept
  <2> QED
    BY <2>4, <2>5
<1> HIDE DEF P
<1>3. P \subseteq Seq(Rounds)
  BY DEF P
<1>4. s \in P
  BY <1>1, <1>2, <1>3, SeqInduction
<1> QED
  BY <1>4 DEF P

\* Rounds that carry each turn's prose once are counted.
LEMMA ProseCounted ==
  ASSUME NEW s \in Seq(Rounds), NEW D, ProseOf(s, D), NEW t
  PROVE  Cardinality({i \in DOMAIN s : s[i].turn = t /\ "text" \in s[i].parts})
           = IF t \in D THEN 1 ELSE 0
<1> DEFINE S == {i \in DOMAIN s : s[i].turn = t /\ "text" \in s[i].parts}
<1>1. CASE t \in D
  <2>1. PICK i \in DOMAIN s : s[i].turn = t /\ "text" \in s[i].parts
    BY <1>1 DEF ProseOf
  <2>2. S = {i}
    BY <2>1 DEF ProseOf
  <2> QED
    BY <1>1, <2>2, FS_Singleton
<1>2. CASE t \notin D
  <2>1. S = {}
    BY <1>2 DEF ProseOf
  <2> QED
    BY <1>2, <2>1, FS_EmptySet
<1> QED
  BY <1>1, <1>2

\* Where a turn's parts go: a round of their own, or nowhere if there are none.
LEMMA ProseParked ==
  ASSUME NEW s \in Seq(Rounds), NEW D, NEW t \in Nat, NEW p \in Parts,
         ProseOf(s, D \ {t}), t \in D <=> "text" \in p
  PROVE  s \o Parked(t, p) \in Seq(Rounds) /\ ProseOf(s \o Parked(t, p), D)
<1> DEFINE r == Round(t, p)
<1>1. r \in Rounds /\ r.turn = t /\ r.parts = p
  BY RoundType DEF Round
<1> HIDE DEF r
<1>2. CASE p = {}
  <2>1. D \ {t} = D /\ s \o <<>> = s
    BY <1>2, ConcatEmptySeq
  <2> QED
    BY <1>2, <2>1 DEF Parked
<1>3. CASE p # {}
  <2>1. s \o Parked(t, p) = Append(s, r)
    <3>1. Parked(t, p) = <<r>>
      BY <1>3 DEF Parked, r
    <3>2. s \o <<r>> = Append(s, r)
      BY <1>1
    <3> QED
      BY <3>1, <3>2
  <2>2. CASE "text" \in p
    BY <1>1, <2>1, <2>2, ProseSpoken, AppendProperties
  <2>3. CASE "text" \notin p
    <3>1. D \ {t} = D
      BY <2>3
    <3>2. ProseOf(s, D)
      BY <3>1
    <3>3. ProseOf(Append(s, r), D)
      BY <1>1, <2>3, <3>2, ProseQuiet
    <3> QED
      BY <1>1, <2>1, <3>3, AppendProperties
  <2> QED
    BY <2>2, <2>3
<1> QED
  BY <1>2, <1>3

\* What the fold's functions do to its fields.
LEMMA OpenFields ==
  ASSUME NEW f \in Folds, ~f.open, f.trailing = <<>>, NEW parts \in Parts
  PROVE  LET g == [OpenCall(f) EXCEPT !.parts = parts] IN
         /\ g.rounds = f.rounds /\ g.trips = f.trips + 1 /\ g.open /\ ~g.batch
         /\ g.parts = parts /\ g.trailing = <<>> /\ g.final = f.final
<1>1. /\ Flush(f) = [f EXCEPT !.rounds = f.rounds \o <<>>, !.trailing = <<>>]
  BY DEF Flush
<1>2. f.rounds \o <<>> = f.rounds
  BY ConcatEmptySeq DEF Folds
<1>3. OpenCall(f) = [Flush(f) EXCEPT !.open = TRUE, !.trips = @ + 1, !.batch = FALSE, !.parts = {}]
  BY DEF OpenCall
<1> QED
  BY <1>1, <1>2, <1>3 DEF Folds

LEMMA CloseFields ==
  ASSUME NEW f \in Folds, f.trailing = <<>>, f.open => ~f.batch
  PROVE  LET g == CloseCall(f)
             turn == IF f.open THEN f.trips ELSE f.trips + 1
             parts == IF f.open THEN f.parts ELSE {}
         IN /\ g.rounds = f.rounds /\ g.trips = turn /\ ~g.open /\ ~g.batch
            /\ g.parts = parts /\ g.trailing = Parked(turn, parts) /\ g.final = f.final
<1> DEFINE h == OpenCall(f)
<1>1. h \in Folds
  BY NoRound, OpenCarries DEF Carries
<1>2. /\ h.rounds = f.rounds /\ h.trips = IF f.open THEN f.trips ELSE f.trips + 1
      /\ h.open /\ ~h.batch /\ h.parts = IF f.open THEN f.parts ELSE {}
      /\ h.final = f.final
  <2>1. CASE f.open
    BY <2>1 DEF OpenCall
  <2>2. CASE ~f.open
    <3>1. Flush(f) = [f EXCEPT !.rounds = f.rounds \o <<>>, !.trailing = <<>>]
      BY DEF Flush
    <3>2. f.rounds \o <<>> = f.rounds
      BY ConcatEmptySeq DEF Folds
    <3>3. h = [Flush(f) EXCEPT !.open = TRUE, !.trips = @ + 1, !.batch = FALSE, !.parts = {}]
      BY <2>2 DEF OpenCall
    <3> QED
      BY <2>2, <3>1, <3>2, <3>3 DEF Folds
  <2> QED
    BY <2>1, <2>2
<1>3. CloseCall(f) = [Park(h) EXCEPT !.open = FALSE]
  BY <1>2 DEF CloseCall
<1> HIDE DEF h
<1>4. Park(h) = [h EXCEPT !.trailing = Parked(h.trips, h.parts)]
  BY DEF Park, Parked
<1>5. /\ CloseCall(f).rounds = h.rounds /\ CloseCall(f).trips = h.trips
      /\ ~CloseCall(f).open /\ CloseCall(f).batch = h.batch /\ CloseCall(f).parts = h.parts
      /\ CloseCall(f).trailing = Parked(h.trips, h.parts) /\ CloseCall(f).final = h.final
  BY <1>1, <1>3, <1>4 DEF Folds
<1> QED
  BY <1>2, <1>5

LEMMA ResetFields ==
  ASSUME NEW f \in Folds
  PROVE  LET g == ResetCall(f) IN
         /\ g.rounds = f.rounds \o f.trailing /\ g.trips = f.trips /\ ~g.open
         /\ g.trailing = <<>> /\ g.final = f.final
  BY DEF ResetCall, Flush, Folds

LEMMA ConfirmFields ==
  ASSUME NEW f \in Folds
  PROVE  LET g == ConfirmBatch(f) IN
         /\ g.trips = f.trips /\ g.open = f.open /\ g.trailing = <<>> /\ g.final = f.final
         /\ \E r \in Rounds : /\ g.rounds = Append(f.rounds, r) /\ r.turn = f.trips
                              /\ "text" \in r.parts <=> "text" \in f.parts
<1> DEFINE waiting == UNION {f.trailing[i].parts : i \in DOMAIN f.trailing}
           parts == (waiting \cap {"thinking"}) \cup (f.parts \cap {"text"})
           r == Round(f.trips, parts)
<1>1. parts \in Parts /\ ("text" \in parts <=> "text" \in f.parts)
  BY DEF Parts
<1> HIDE DEF parts, waiting
<1>2. f.trips \in Nat
  BY DEF Folds
<1>3. r \in Rounds /\ r.turn = f.trips /\ r.parts = parts
  BY <1>1, <1>2, RoundType DEF Round
<1>4. ConfirmBatch(f) = [f EXCEPT !.batch = TRUE, !.trailing = <<>>, !.rounds = Append(@, r)]
  BY DEF ConfirmBatch, waiting, parts, r
<1> HIDE DEF r
<1>5. /\ ConfirmBatch(f).rounds = Append(f.rounds, r) /\ ConfirmBatch(f).trailing = <<>>
      /\ ConfirmBatch(f).open = f.open /\ ConfirmBatch(f).trips = f.trips
      /\ ConfirmBatch(f).final = f.final
  BY <1>4 DEF Folds
<1> QED
  BY <1>1, <1>3, <1>5

LEMMA FinalFields ==
  ASSUME NEW f \in Folds, NEW D, ProseOf(f.rounds, D)
  PROVE  LET g == FinalResponse(f) IN
         /\ g.trips = f.trips /\ g.open = f.open /\ g.trailing = <<>> /\ g.final
         /\ ProseOf(g.rounds, D)
<1> DEFINE kept == {i \in DOMAIN f.trailing : "thinking" \in f.trailing[i].parts}
           r == Round(f.trailing[1].turn, {"thinking"})
           s == IF kept = {} THEN f.rounds ELSE Append(f.rounds, r)
<1>1. f.rounds \in Seq(Rounds) /\ f.trailing \in Waiting
  BY DEF Folds
<1>2. FinalResponse(f) = [f EXCEPT !.final = TRUE, !.trailing = <<>>, !.rounds = s]
  BY DEF FinalResponse
<1>3. kept # {} => r \in Rounds /\ r.parts = {"thinking"}
  <2>1. SUFFICES ASSUME kept # {} PROVE f.trailing[1].turn \in Nat
    BY RoundType DEF Parts, Round
  <2>2. PICK t \in Nat, p \in Parts : f.trailing = <<Round(t, p)>>
    BY <1>1, <2>1 DEF Waiting
  <2> QED
    BY <2>2 DEF Round
<1> HIDE DEF kept, r
<1>4. ProseOf(s, D)
  BY <1>1, <1>3, ProseQuiet
<1> HIDE DEF s
<1>5. /\ FinalResponse(f).rounds = s /\ FinalResponse(f).trailing = <<>>
      /\ FinalResponse(f).open = f.open /\ FinalResponse(f).trips = f.trips
      /\ FinalResponse(f).final
  BY <1>2 DEF Folds
<1> QED
  BY <1>4, <1>5

LEMMA FinishFields ==
  ASSUME NEW f \in Folds
  PROVE  LET g == Finish(f) IN
         /\ g.trips = f.trips /\ g.final = f.final
         /\ g.rounds = f.rounds \o (IF f.open /\ ~f.batch THEN Parked(f.trips, f.parts)
                                    ELSE f.trailing)
<1>1. CASE f.open /\ ~f.batch
  <2>1. Park(f) = [f EXCEPT !.trailing = Parked(f.trips, f.parts)]
    BY DEF Park, Parked
  <2>2. Finish(f) = Flush(Park(f))
    BY <1>1 DEF Finish
  <2> QED
    BY <1>1, <2>1, <2>2 DEF Flush, Folds
<1>2. CASE ~(f.open /\ ~f.batch)
  BY <1>2 DEF Finish, Flush, Folds
<1> QED
  BY <1>1, <1>2

\* A step that leaves the main loop's fold as it is, and does not take its
\* stream from where prose waits or to it.
LEMMA SameSpeech ==
  ASSUME SpeechInv, UNCHANGED <<outcome, spoke>>, fold'["main"] = fold["main"],
         \/ rig'["main"] = rig["main"]
         \/ {rig["main"], rig'["main"]} \subseteq {"idle", "asked", "batch", "results"},
         \/ driver' = driver /\ (driver = "starting" => rig' = rig)
         \/ driver = "starting" /\ driver' \in {"running", "left"}
         \/ driver = "leaving" /\ driver' = "left",
         exit' = exit \/ (exit = "none" /\ outcome = None)
  PROVE  SpeechInv'
<1>1. StreamInv /\ ProseInv /\ ProseLandsOnce
  BY DEF SpeechInv
<1>2. StreamInv'
  BY <1>1 DEF StreamInv
<1>3. Waits' <=> Waits
  BY <1>1 DEF Waits, StreamInv
<1>4. ProseInv'
  <2>1. outcome = None /\ exit # "panic" =>
          /\ spoke \subseteq 1..fold["main"].trips
          /\ ProseOf(fold["main"].rounds, IF Waits \/ fold["main"].final
                                          THEN spoke \ {fold["main"].trips} ELSE spoke)
    BY <1>1 DEF ProseInv
  <2>2. outcome' = None /\ exit' # "panic" => outcome = None /\ exit # "panic"
    OBVIOUS
  <2>3. outcome' = None /\ exit' # "panic" =>
          /\ spoke' \subseteq 1..fold'["main"].trips
          /\ ProseOf(fold'["main"].rounds, IF Waits' \/ fold'["main"].final
                                           THEN spoke' \ {fold'["main"].trips} ELSE spoke')
    BY <1>3, <2>1, <2>2
  <2> QED
    BY <2>3 DEF ProseInv, ProseOf
<1>5. ProseLandsOnce'
  BY <1>1 DEF ProseLandsOnce
<1> QED
  BY <1>2, <1>4, <1>5 DEF SpeechInv

\* A step of the main loop's stream while the turn runs: what its fold and its
\* rounds have to be afterwards.
LEMMA MainSpeech ==
  ASSUME SpeechInv, driver = "running", driver' = "running", UNCHANGED outcome, outcome = None,
         NEW g, fold'["main"] = g, ~g.final, g.open <=> rig'["main"] = "open",
         rig'["main"] \in {"open", "closed"} =>
           ~g.batch /\ (g.trips \in spoke' <=> "text" \in g.parts),
         g.trailing = IF rig'["main"] = "closed" THEN Parked(g.trips, g.parts) ELSE <<>>,
         spoke' \subseteq 1..g.trips,
         ProseOf(g.rounds, IF rig'["main"] \in {"open", "closed"}
                           THEN spoke' \ {g.trips} ELSE spoke')
  PROVE  SpeechInv'
<1>1. StreamInv'
  BY DEF StreamInv
<1>2. ProseInv'
  <2>1. ProseOf(g.rounds, IF Waits' \/ g.final THEN spoke' \ {g.trips} ELSE spoke')
    BY DEF Waits
  <2> QED
    BY <2>1 DEF ProseInv, ProseOf
<1>3. ProseLandsOnce'
  BY DEF ProseLandsOnce
<1> QED
  BY <1>1, <1>2, <1>3 DEF SpeechInv

\* What holds of the main loop's fold while the turn runs.
LEMMA MainFold ==
  ASSUME Inv, RowInv, SpeechInv, driver = "running"
  PROVE  LET f == fold["main"] IN
         /\ driver = "running" /\ outcome = None /\ exit = "none"
         /\ fold \in [Family -> Folds] /\ f \in Folds /\ f.rounds \in Seq(Rounds)
         /\ f.trips \in Nat /\ f.parts \in Parts
         /\ rig \in [Family -> {"idle", "asked", "open", "closed", "batch", "results"}]
         /\ ~f.final /\ (f.open <=> rig["main"] = "open")
         /\ rig["main"] \in {"open", "closed"} =>
              ~f.batch /\ (f.trips \in spoke <=> "text" \in f.parts)
         /\ f.trailing = IF rig["main"] = "closed" THEN Parked(f.trips, f.parts) ELSE <<>>
         /\ spoke \subseteq 1..f.trips
         /\ ProseOf(f.rounds, IF rig["main"] \in {"open", "closed"}
                              THEN spoke \ {f.trips} ELSE spoke)
<1>1. driver = "running" /\ "main" \in Family
  BY DEF Family
<1>2. outcome = None /\ exit = "none"
  BY <1>1 DEF Inv, ServerInv, RowInv, RequestInv
<1>3. /\ fold \in [Family -> Folds]
      /\ rig \in [Family -> {"idle", "asked", "open", "closed", "batch", "results"}]
  BY DEF Inv, TypeOK, RowInv, RowTypes
<1>4. fold["main"] \in Folds
  BY <1>1, <1>3
<1>5. /\ fold["main"].rounds \in Seq(Rounds) /\ fold["main"].trips \in Nat
      /\ fold["main"].parts \in Parts
  BY <1>4 DEF Folds
<1>6. StreamInv /\ ProseInv
  BY DEF SpeechInv
<1>7. /\ spoke \subseteq 1..fold["main"].trips
      /\ ProseOf(fold["main"].rounds, IF Waits \/ fold["main"].final
                                      THEN spoke \ {fold["main"].trips} ELSE spoke)
  BY <1>2, <1>6 DEF ProseInv
<1>8. LET f == fold["main"] IN
         /\ ~f.final /\ (f.open <=> rig["main"] = "open")
         /\ rig["main"] \in {"open", "closed"} =>
              ~f.batch /\ (f.trips \in spoke <=> "text" \in f.parts)
         /\ f.trailing = IF rig["main"] = "closed" THEN Parked(f.trips, f.parts) ELSE <<>>
  BY <1>1, <1>6 DEF StreamInv
<1> QED
  BY <1>1, <1>2, <1>3, <1>4, <1>5, <1>7, <1>8 DEF Waits

\* A turn opens: it is a new one, so no round has its prose.
LEMMA OpensSpeech ==
  ASSUME Inv, RowInv, SpeechInv, NEW parts \in Contents, TurnOpens("main", parts)
  PROVE  SpeechInv'
<1> DEFINE f == fold["main"]
           g == [OpenCall(f) EXCEPT !.parts = parts]
<1>1. /\ driver = "running" /\ rig["main"] = "asked" /\ rig' = [rig EXCEPT !["main"] = "open"]
      /\ fold' = [fold EXCEPT !["main"] = g]
      /\ spoke' = IF "text" \in parts THEN spoke \cup {fold'["main"].trips} ELSE spoke
      /\ UNCHANGED <<driver, outcome>>
  BY DEF TurnOpens, Polled, OnlyStreams, driveVars
<1>2. /\ driver = "running" /\ outcome = None /\ fold \in [Family -> Folds] /\ f \in Folds
      /\ f.trips \in Nat /\ ~f.final /\ ~f.open /\ f.trailing = <<>> /\ spoke \subseteq 1..f.trips
      /\ rig \in [Family -> {"idle", "asked", "open", "closed", "batch", "results"}]
      /\ ProseOf(f.rounds, spoke)
  BY <1>1, MainFold
<1>3. parts \in Parts /\ "main" \in Family
  BY LoopAssumption DEF Family
<1>4. /\ g.rounds = f.rounds /\ g.trips = f.trips + 1 /\ g.open /\ ~g.batch
      /\ g.parts = parts /\ g.trailing = <<>> /\ g.final = f.final
  BY <1>2, <1>3, OpenFields
<1> HIDE DEF f, g
<1>5. fold'["main"] = g /\ rig'["main"] = "open"
  BY <1>1, <1>2, <1>3
<1>6. /\ spoke' \subseteq 1..g.trips /\ spoke' \ {g.trips} = spoke
      /\ g.trips \in spoke' <=> "text" \in g.parts
  <2>1. spoke' = IF "text" \in parts THEN spoke \cup {f.trips + 1} ELSE spoke
    BY <1>1, <1>4, <1>5
  <2>2. f.trips + 1 \notin spoke /\ spoke \subseteq 1..(f.trips + 1)
        /\ f.trips + 1 \in 1..(f.trips + 1)
    BY <1>2
  <2> QED
    BY <1>4, <2>1, <2>2
<1>7. ProseOf(g.rounds, spoke' \ {g.trips})
  BY <1>2, <1>4, <1>6
<1> QED
  BY <1>1, <1>2, <1>4, <1>5, <1>6, <1>7, MainSpeech

\* A turn closes, the empty one included: its parts are parked.
LEMMA ClosesSpeech ==
  ASSUME Inv, RowInv, SpeechInv, TurnCloses("main")
  PROVE  SpeechInv'
<1> DEFINE f == fold["main"]
           g == CloseCall(f)
           turn == IF f.open THEN f.trips ELSE f.trips + 1
           parts == IF f.open THEN f.parts ELSE {}
<1>1. /\ driver = "running" /\ rig["main"] \in {"asked", "open"}
      /\ rig' = [rig EXCEPT !["main"] = "closed"]
      /\ fold' = [fold EXCEPT !["main"] = g] /\ UNCHANGED <<driver, outcome, spoke>>
  BY DEF TurnCloses, Polled, OnlyStreams, driveVars
<1>2. /\ driver = "running" /\ outcome = None /\ fold \in [Family -> Folds] /\ f \in Folds
      /\ f.trips \in Nat /\ ~f.final /\ (f.open <=> rig["main"] = "open")
      /\ f.trailing = <<>> /\ spoke \subseteq 1..f.trips
      /\ rig["main"] = "open" => ~f.batch /\ (f.trips \in spoke <=> "text" \in f.parts)
      /\ rig \in [Family -> {"idle", "asked", "open", "closed", "batch", "results"}]
      /\ ProseOf(f.rounds, IF rig["main"] = "open" THEN spoke \ {f.trips} ELSE spoke)
  BY <1>1, MainFold
<1>3. "main" \in Family
  BY DEF Family
<1>4. /\ g.rounds = f.rounds /\ g.trips = turn /\ ~g.open /\ ~g.batch
      /\ g.parts = parts /\ g.trailing = Parked(turn, parts) /\ g.final = f.final
  BY <1>2, CloseFields
<1> HIDE DEF f, g
<1>5. fold'["main"] = g /\ rig'["main"] = "closed"
  BY <1>1, <1>2, <1>3
<1>6. /\ spoke' \subseteq 1..g.trips /\ (g.trips \in spoke' <=> "text" \in g.parts)
      /\ ProseOf(g.rounds, spoke' \ {g.trips})
  <2>1. CASE f.open
    BY <1>1, <1>2, <1>4, <2>1
  <2>2. CASE ~f.open
    <3>1. spoke \ {f.trips + 1} = spoke /\ f.trips + 1 \notin spoke /\ spoke \subseteq 1..(f.trips + 1)
      BY <1>2
    <3> QED
      BY <1>1, <1>2, <1>4, <2>2, <3>1
  <2> QED
    BY <2>1, <2>2
<1> QED
  BY <1>1, <1>2, <1>4, <1>5, <1>6, MainSpeech

\* A turn is retried: what it said lands.
LEMMA RetriedSpeech ==
  ASSUME Inv, RowInv, SpeechInv, TurnRetried("main")
  PROVE  SpeechInv'
<1> DEFINE f == fold["main"]
           g == ResetCall(f)
<1>1. /\ driver = "running" /\ rig["main"] = "closed" /\ rig' = [rig EXCEPT !["main"] = "idle"]
      /\ fold' = [fold EXCEPT !["main"] = g] /\ UNCHANGED <<driver, outcome, spoke>>
  BY DEF TurnRetried, Polled, OnlyStreams, driveVars
<1>2. /\ driver = "running" /\ outcome = None /\ fold \in [Family -> Folds] /\ f \in Folds
      /\ f.rounds \in Seq(Rounds) /\ f.trips \in Nat /\ f.parts \in Parts /\ ~f.final
      /\ f.trips \in spoke <=> "text" \in f.parts
      /\ f.trailing = Parked(f.trips, f.parts) /\ spoke \subseteq 1..f.trips
      /\ rig \in [Family -> {"idle", "asked", "open", "closed", "batch", "results"}]
      /\ ProseOf(f.rounds, spoke \ {f.trips})
  BY <1>1, MainFold
<1>3. "main" \in Family
  BY DEF Family
<1>4. /\ g.rounds = f.rounds \o f.trailing /\ g.trips = f.trips /\ ~g.open
      /\ g.trailing = <<>> /\ g.final = f.final
  BY <1>2, ResetFields
<1> HIDE DEF f, g
<1>5. fold'["main"] = g /\ rig'["main"] = "idle"
  BY <1>1, <1>2, <1>3
<1>6. ProseOf(g.rounds, spoke')
  BY <1>1, <1>2, <1>4, ProseParked
<1> QED
  BY <1>1, <1>2, <1>4, <1>5, <1>6, MainSpeech

\* A batch takes its turn's prose into its round.
LEMMA CommitsSpeech ==
  ASSUME Inv, RowInv, SpeechInv, NEW batch, BatchCommits("main", batch)
  PROVE  SpeechInv'
<1> DEFINE f == fold["main"]
           g == ConfirmBatch(f)
<1>1. /\ driver = "running" /\ rig["main"] = "closed" /\ rig' = [rig EXCEPT !["main"] = "batch"]
      /\ fold' = [fold EXCEPT !["main"] = g] /\ UNCHANGED <<driver, outcome, spoke>>
  BY DEF BatchCommits, Polled, OnlyStreams, driveVars
<1>2. /\ driver = "running" /\ outcome = None /\ fold \in [Family -> Folds] /\ f \in Folds
      /\ f.rounds \in Seq(Rounds) /\ ~f.final /\ ~f.open
      /\ f.trips \in spoke <=> "text" \in f.parts
      /\ spoke \subseteq 1..f.trips
      /\ rig \in [Family -> {"idle", "asked", "open", "closed", "batch", "results"}]
      /\ ProseOf(f.rounds, spoke \ {f.trips})
  BY <1>1, MainFold
<1>3. "main" \in Family
  BY DEF Family
<1>4. /\ g.trips = f.trips /\ g.open = f.open /\ g.trailing = <<>> /\ g.final = f.final
      /\ \E r \in Rounds : /\ g.rounds = Append(f.rounds, r) /\ r.turn = f.trips
                           /\ "text" \in r.parts <=> "text" \in f.parts
  BY <1>2, ConfirmFields
<1> HIDE DEF f, g
<1>5. fold'["main"] = g /\ rig'["main"] = "batch"
  BY <1>1, <1>2, <1>3
<1>6. ProseOf(g.rounds, spoke)
  <2>1. PICK r \in Rounds : /\ g.rounds = Append(f.rounds, r) /\ r.turn = f.trips
                            /\ "text" \in r.parts <=> "text" \in f.parts
    BY <1>4
  <2>2. CASE "text" \in r.parts
    BY <1>2, <2>1, <2>2, ProseSpoken
  <2>3. CASE "text" \notin r.parts
    <3>1. spoke \ {f.trips} = spoke
      BY <1>2, <2>1, <2>3
    <3>2. ProseOf(f.rounds, spoke)
      BY <1>2, <3>1
    <3> QED
      BY <1>2, <2>1, <2>3, <3>2, ProseQuiet
  <2> QED
    BY <2>2, <2>3
<1> QED
  BY <1>1, <1>2, <1>4, <1>5, <1>6, MainSpeech

\* A result's row brings no prose.
LEMMA SurfacesSpeech ==
  ASSUME Inv, RowInv, SpeechInv, ResultSurfaces("main")
  PROVE  SpeechInv'
<1> DEFINE f == fold["main"]
           s == PushCalls(f.rounds, <<Head(queue["main"])>>)
           g == [f EXCEPT !.rounds = s]
<1>1. /\ driver = "running" /\ rig["main"] = "results"
      /\ rig' = [rig EXCEPT !["main"] = IF results["main"] = 1 THEN "idle" ELSE @]
      /\ IF queue["main"] = <<>> THEN fold' = fold
         ELSE fold' = [fold EXCEPT !["main"].rounds = s]
      /\ UNCHANGED <<driver, exit, outcome, spoke>>
  BY DEF ResultSurfaces, Polled, driveVars, history
<1>2. /\ driver = "running" /\ outcome = None /\ fold \in [Family -> Folds] /\ f \in Folds
      /\ f.rounds \in Seq(Rounds) /\ ~f.final /\ ~f.open /\ f.trailing = <<>>
      /\ spoke \subseteq 1..f.trips
      /\ rig \in [Family -> {"idle", "asked", "open", "closed", "batch", "results"}]
      /\ ProseOf(f.rounds, spoke)
  BY <1>1, MainFold
<1>3. "main" \in Family /\ queue["main"] \in Seq(Calls)
  BY DEF Family, Inv, TypeOK
<1>4. rig'["main"] \in {"idle", "results"}
  BY <1>1, <1>2, <1>3
<1>5. CASE queue["main"] = <<>>
  BY <1>1, <1>2, <1>4, <1>5, SameSpeech
<1>6. CASE queue["main"] # <<>>
  <2>1. fold'["main"] = g
    BY <1>1, <1>2, <1>3, <1>6
  <2>2. <<Head(queue["main"])>> \in Seq(Calls)
    BY <1>3, <1>6
  <2>3. ProseOf(s, spoke)
    BY <1>2, <2>2, ProsePushed
  <2> HIDE DEF s
  <2>4. /\ g.rounds = s /\ g.trips = f.trips /\ g.open = f.open /\ g.trailing = f.trailing
        /\ g.final = f.final
    BY <1>2 DEF Folds
  <2> HIDE DEF f, g
  <2> QED
    BY <1>1, <1>2, <1>4, <2>1, <2>3, <2>4, MainSpeech
<1> QED
  BY <1>5, <1>6

\* The main loop is left: what waits lands, but for the reply.
LEMMA LeavesSpeech ==
  ASSUME SpeechInv, outcome = None, outcome' = None, UNCHANGED spoke,
         NEW how, how # "panic", NEW g, Leaves(how, g),
         spoke \subseteq 1..g.trips,
         ProseOf(g.rounds, IF g.final THEN spoke \ {g.trips} ELSE spoke)
  PROVE  SpeechInv'
<1>1. driver' = "leaving" /\ fold'["main"] = g
  BY DEF Leaves
<1>2. StreamInv' /\ ~Waits'
  BY <1>1 DEF StreamInv, Waits
<1>3. ProseInv'
  BY <1>1, <1>2 DEF ProseInv, ProseOf
<1>4. ProseLandsOnce'
  BY DEF ProseLandsOnce
<1> QED
  BY <1>2, <1>3, <1>4 DEF SpeechInv

\* The prose of a fold that ends, wherever its stream is.
LEMMA FinishSpeech ==
  ASSUME Inv, RowInv, SpeechInv, driver = "running"
  PROVE  LET g == Finish(fold["main"]) IN
         /\ g.trips = fold["main"].trips /\ ~g.final /\ ProseOf(g.rounds, spoke)
<1> DEFINE f == fold["main"]
           g == Finish(f)
<1>1. /\ f \in Folds /\ f.rounds \in Seq(Rounds) /\ f.trips \in Nat /\ f.parts \in Parts
      /\ ~f.final /\ (f.open <=> rig["main"] = "open")
      /\ rig["main"] \in {"open", "closed"} =>
           ~f.batch /\ (f.trips \in spoke <=> "text" \in f.parts)
      /\ f.trailing = IF rig["main"] = "closed" THEN Parked(f.trips, f.parts) ELSE <<>>
      /\ ProseOf(f.rounds, IF rig["main"] \in {"open", "closed"}
                           THEN spoke \ {f.trips} ELSE spoke)
  BY MainFold
<1>2. /\ g.trips = f.trips /\ g.final = f.final
      /\ g.rounds = f.rounds \o (IF f.open /\ ~f.batch THEN Parked(f.trips, f.parts)
                                 ELSE f.trailing)
  BY <1>1, FinishFields
<1> HIDE DEF f, g
<1>3. CASE rig["main"] \in {"open", "closed"}
  <2>1. g.rounds = f.rounds \o Parked(f.trips, f.parts)
    BY <1>1, <1>2, <1>3
  <2>2. ProseOf(f.rounds \o Parked(f.trips, f.parts), spoke)
    BY <1>1, <1>3, ProseParked
  <2> QED
    BY <1>1, <1>2, <2>1, <2>2 DEF f, g
<1>4. CASE rig["main"] \notin {"open", "closed"}
  <2>1. g.rounds = f.rounds \o <<>>
    BY <1>1, <1>2, <1>4
  <2>2. g.rounds = f.rounds
    BY <1>1, <2>1, ConcatEmptySeq
  <2> QED
    BY <1>1, <1>2, <1>4, <2>2 DEF f, g
<1> QED
  BY <1>3, <1>4

\* The main loop's stream ends without a reply, or is dropped.
LEMMA EndsSpeech ==
  ASSUME Inv, RowInv, SpeechInv, driver = "running", NEW how, how # "panic",
         Leaves(how, Finish(fold["main"])), UNCHANGED <<outcome, spoke>>
  PROVE  SpeechInv'
<1> DEFINE g == Finish(fold["main"])
<1>1. outcome = None /\ spoke \subseteq 1..fold["main"].trips
  BY MainFold
<1>2. g.trips = fold["main"].trips /\ ~g.final /\ ProseOf(g.rounds, spoke)
  BY FinishSpeech
<1> HIDE DEF g
<1>3. Leaves(how, g)
  BY DEF g
<1> QED
  BY <1>1, <1>2, <1>3, LeavesSpeech

\* The main loop's stream ends with the reply: its prose is the answer.
LEMMA RepliesSpeech ==
  ASSUME Inv, RowInv, SpeechInv, driver = "running", rig["main"] = "closed",
         Leaves("done", Finish(FinalResponse(fold["main"]))), UNCHANGED <<outcome, spoke>>
  PROVE  SpeechInv'
<1> DEFINE f == fold["main"]
           h == FinalResponse(f)
           g == Finish(h)
<1>1. /\ f \in Folds /\ outcome = None /\ spoke \subseteq 1..f.trips /\ ~f.open
      /\ ProseOf(f.rounds, spoke \ {f.trips})
  BY MainFold
<1>2. /\ h.trips = f.trips /\ h.open = f.open /\ h.trailing = <<>> /\ h.final
      /\ ProseOf(h.rounds, spoke \ {f.trips})
  BY <1>1, FinalFields
<1>3. h \in Folds
  BY <1>1, FinalCarries DEF Carries
<1> HIDE DEF f, h
<1>4. /\ g.trips = h.trips /\ g.final = h.final
      /\ g.rounds = h.rounds \o (IF h.open /\ ~h.batch THEN Parked(h.trips, h.parts)
                                 ELSE h.trailing)
  BY <1>3, FinishFields
<1>5. h.rounds \o <<>> = h.rounds
  BY <1>3, ConcatEmptySeq DEF Folds
<1>6. Leaves("done", g)
  BY DEF f, h
<1> HIDE DEF g
<1>7. g.rounds = h.rounds
  BY <1>1, <1>2, <1>4, <1>5
<1> QED
  BY <1>1, <1>2, <1>4, <1>6, <1>7, LeavesSpeech

\* A sub-agent's end, and a delegation that a driver drops, are not the main
\* loop's prose.
LEMMA StreamEndsSpeech ==
  ASSUME Inv, RowInv, SpeechInv, NEW f \in Family, Polled(f), NEW how, how # "panic",
         NEW folded, StreamEnds(f, how, folded),
         \/ folded = fold[f]
         \/ folded = FinalResponse(fold[f]) /\ how = "done" /\ rig[f] = "closed"
  PROVE  SpeechInv'
<1>1. CASE f = "sub"
  <2>1. /\ rig' = [rig EXCEPT !["sub"] = "idle"] /\ fold' = [fold EXCEPT !["sub"] = NewFold]
        /\ UNCHANGED <<driver, exit, outcome, spoke>>
    BY <1>1 DEF StreamEnds, Reports, driveVars
  <2>2. fold'["main"] = fold["main"] /\ rig'["main"] = rig["main"]
    BY <2>1 DEF Inv, TypeOK, RowInv, RowTypes, Family
  <2>3. driver # "starting"
    BY DEF Polled
  <2> QED
    BY <2>1, <2>2, <2>3, SameSpeech
<1>2. CASE f = "main"
  <2>1. Leaves(how, Finish(folded)) /\ UNCHANGED <<outcome, spoke>>
    BY <1>2 DEF StreamEnds, history
  <2>2. driver = "running"
    BY DEF Polled
  <2> QED
    BY <1>2, <2>1, <2>2, EndsSpeech, RepliesSpeech
<1> QED
  BY <1>1, <1>2 DEF Family

\* The driver drops its futures wherever its streams are.
LEMMA DropSpeech ==
  ASSUME Inv, RowInv, SpeechInv, DriverAbandons \/ DriverPanics
  PROVE  SpeechInv'
<1>1. driver = "running" /\ UNCHANGED <<outcome, spoke>>
  BY DEF DriverAbandons, DriverPanics
<1>2. CASE DriverAbandons
  <2>1. Leaves("abandoned", Finish(fold["main"]))
    BY <1>2 DEF DriverAbandons
  <2> QED
    BY <1>1, <2>1, EndsSpeech
<1>3. CASE DriverPanics
  <2>1. driver' = "leaving" /\ exit' = "panic"
    BY <1>3 DEF DriverPanics, Leaves
  <2>2. outcome = None
    BY <1>1, MainFold
  <2> QED
    BY <1>1, <2>1, <2>2 DEF SpeechInv, StreamInv, ProseInv, ProseLandsOnce
<1> QED
  BY <1>2, <1>3

\* The turn settles: the trace has the prose that its fold's rounds have.
LEMMA SettlesSpeech ==
  ASSUME Inv, RowInv, SpeechInv, Settles
  PROVE  SpeechInv'
<1> DEFINE f == fold["main"]
           D == IF f.final THEN spoke \ {f.trips} ELSE spoke
           s == PushCalls(f.rounds, queue["main"])
<1>1. /\ driver = "left" /\ outcome = None
      /\ outcome'.trace = Landed(Drain(f, queue["main"]).rounds)
      /\ UNCHANGED <<driver, exit, fold, rig, spoke>>
  BY DEF Settles, driveVars, streamVars, history
<1>2. f \in Folds /\ f.rounds \in Seq(Rounds) /\ queue["main"] \in Seq(Calls)
  BY DEF Inv, TypeOK, RowInv, RowTypes, Family, Folds
<1>3. Drain(f, queue["main"]).rounds = s
  BY <1>2 DEF Drain, Folds
<1>4. ASSUME exit # "panic"
      PROVE  ProseOf(outcome'.trace, D)
  <2>1. ProseOf(f.rounds, D)
    BY <1>1, <1>4 DEF SpeechInv, ProseInv, Waits
  <2>2. s \in Seq(Rounds) /\ ProseOf(s, D)
    BY <1>2, <2>1, ProsePushed, PushedRows
  <2> QED
    BY <1>1, <1>3, <2>2, ProseLanded
<1>5. StreamInv' /\ ProseInv'
  BY <1>1 DEF SpeechInv, StreamInv, ProseInv, ProseOf, Waits
<1>6. ASSUME exit # "panic", NEW t \in 1..f.trips
      PROVE  Cardinality({i \in DOMAIN outcome'.trace :
                            outcome'.trace[i].turn = t /\ "text" \in outcome'.trace[i].parts})
               = IF t \in D THEN 1 ELSE 0
  <2>1. ProseOf(outcome'.trace, D) /\ outcome'.trace \in Seq(Rounds)
    BY <1>1, <1>2, <1>3, <1>4, <1>6, PushedRows, LandedRows
  <2> HIDE DEF D, f, s
  <2> QED
    BY <2>1, ProseCounted
<1>7. D = spoke \ (IF f.final THEN {f.trips} ELSE {})
  OBVIOUS
<1> HIDE DEF D
<1>8. ProseLandsOnce'
  BY <1>1, <1>6, <1>7, Zenon DEF ProseLandsOnce
<1> QED
  BY <1>5, <1>8 DEF SpeechInv

\* A turn begins silent.
LEMMA InitSpeech == ASSUME Init PROVE SpeechInv
<1>1. /\ driver = "starting" /\ outcome = None /\ spoke = {} /\ fold["main"] = NewFold
      /\ rig["main"] = "idle"
  BY DEF Init, Family
<1>2. NewFold.trips = 0 /\ ~NewFold.final /\ ~NewFold.open /\ NewFold.trailing = <<>>
      /\ NewFold.rounds = <<>>
  BY DEF NewFold
<1>3. StreamInv
  BY <1>1, <1>2 DEF StreamInv
<1>4. ProseOf(<<>>, {}) /\ ~Waits
  BY <1>1, ProseNone DEF Waits
<1>5. ProseInv /\ ProseLandsOnce
  BY <1>1, <1>2, <1>4 DEF ProseInv, ProseLandsOnce
<1> QED
  BY <1>3, <1>5 DEF SpeechInv

\* Every move of a model's stream keeps the prose.
LEMMA ModelSpeech ==
  ASSUME Inv, RowInv, SpeechInv, NEW f \in Family, ModelMoves(f)
  PROVE  SpeechInv'
<1>1. fold \in [Family -> Folds] /\ rig \in [Family -> {"idle", "asked", "open", "closed", "batch", "results"}]
  BY DEF Inv, TypeOK, RowInv, RowTypes
<1>2. CASE ModelCalled(f)
  <2>1. /\ rig[f] = "idle" /\ rig' = [rig EXCEPT ![f] = "asked"] /\ driver = "running"
        /\ UNCHANGED <<driver, exit, fold, outcome, spoke>>
    BY <1>2 DEF ModelCalled, OnlyStreams, driveVars, Polled
  <2>2. \/ rig'["main"] = rig["main"]
        \/ {rig["main"], rig'["main"]} \subseteq {"idle", "asked", "batch", "results"}
    BY <1>1, <2>1 DEF Family
  <2> QED
    BY <2>1, <2>2, SameSpeech
<1>3. CASE Replies(f) \/ StreamFails(f)
  <2>1. Polled(f)
    BY <1>3 DEF Replies, StreamFails
  <2>2. \/ rig[f] = "closed" /\ StreamEnds(f, "done", FinalResponse(fold[f]))
        \/ StreamEnds(f, "error", fold[f])
    BY <1>3 DEF Replies, StreamFails
  <2> QED
    BY <2>1, <2>2, StreamEndsSpeech
<1>4. ASSUME f = "sub", NEW g, NEW to, fold' = [fold EXCEPT !["sub"] = g],
             rig' = [rig EXCEPT !["sub"] = to], driver = "running",
             UNCHANGED <<driver, exit, outcome, spoke>>
      PROVE  SpeechInv'
  <2>1. fold'["main"] = fold["main"] /\ rig'["main"] = rig["main"]
    BY <1>1, <1>4 DEF Family
  <2> QED
    BY <1>4, <2>1, SameSpeech
<1>5. ASSUME NEW parts \in Contents, TurnOpens(f, parts) PROVE SpeechInv'
  <2>1. CASE f = "main"
    BY <1>5, <2>1, OpensSpeech
  <2>2. CASE f = "sub"
    <3>1. /\ fold' = [fold EXCEPT !["sub"] = [OpenCall(fold["sub"]) EXCEPT !.parts = parts]]
          /\ rig' = [rig EXCEPT !["sub"] = "open"] /\ driver = "running"
          /\ UNCHANGED <<driver, exit, outcome, spoke>>
      BY <1>5, <2>2 DEF TurnOpens, OnlyStreams, driveVars, Polled
    <3> QED
      BY <1>4, <2>2, <3>1
  <2> QED
    BY <2>1, <2>2 DEF Family
<1>6. CASE TurnCloses(f)
  <2>1. CASE f = "main"
    BY <1>6, <2>1, ClosesSpeech
  <2>2. CASE f = "sub"
    <3>1. /\ fold' = [fold EXCEPT !["sub"] = CloseCall(fold["sub"])]
          /\ rig' = [rig EXCEPT !["sub"] = "closed"] /\ driver = "running"
          /\ UNCHANGED <<driver, exit, outcome, spoke>>
      BY <1>6, <2>2 DEF TurnCloses, OnlyStreams, driveVars, Polled
    <3> QED
      BY <1>4, <2>2, <3>1
  <2> QED
    BY <2>1, <2>2 DEF Family
<1>7. CASE TurnRetried(f)
  <2>1. CASE f = "main"
    BY <1>7, <2>1, RetriedSpeech
  <2>2. CASE f = "sub"
    <3>1. /\ fold' = [fold EXCEPT !["sub"] = ResetCall(fold["sub"])]
          /\ rig' = [rig EXCEPT !["sub"] = "idle"] /\ driver = "running"
          /\ UNCHANGED <<driver, exit, outcome, spoke>>
      BY <1>7, <2>2 DEF TurnRetried, OnlyStreams, driveVars, Polled
    <3> QED
      BY <1>4, <2>2, <3>1
  <2> QED
    BY <2>1, <2>2 DEF Family
<1>8. ASSUME NEW batch \in Batches(f), BatchCommits(f, batch) PROVE SpeechInv'
  <2>1. CASE f = "main"
    BY <1>8, <2>1, CommitsSpeech
  <2>2. CASE f = "sub"
    <3>1. /\ fold' = [fold EXCEPT !["sub"] = ConfirmBatch(fold["sub"])]
          /\ rig' = [rig EXCEPT !["sub"] = "batch"] /\ driver = "running"
          /\ UNCHANGED <<driver, exit, outcome, spoke>>
      BY <1>8, <2>2 DEF BatchCommits, OnlyStreams, driveVars, Polled
    <3> QED
      BY <1>4, <2>2, <3>1
  <2> QED
    BY <2>1, <2>2 DEF Family
<1> QED
  BY <1>2, <1>3, <1>5, <1>6, <1>7, <1>8 DEF ModelMoves

\* Every move of a family's loop keeps the prose.
LEMMA LoopSpeech ==
  ASSUME Inv, RowInv, SpeechInv, NEW f \in Family, LoopMoves(f)
  PROVE  SpeechInv'
<1>1. fold \in [Family -> Folds] /\ rig \in [Family -> {"idle", "asked", "open", "closed", "batch", "results"}]
  BY DEF Inv, TypeOK, RowInv, RowTypes
<1>2. CASE BudgetSpent(f) \/ Checkpoint(f)
  <2>1. Polled(f) /\ \E how \in {"stepCap", "stopped"} : StreamEnds(f, how, fold[f])
    BY <1>2 DEF BudgetSpent, Checkpoint
  <2> QED
    BY <2>1, StreamEndsSpeech
<1>3. CASE BatchSettles(f)
  <2>1. /\ rig[f] = "batch" /\ rig' = [rig EXCEPT ![f] = "results"] /\ driver = "running"
        /\ UNCHANGED <<driver, exit, fold, outcome, spoke>>
    BY <1>3 DEF BatchSettles, OnlyStreams, driveVars, Polled
  <2>2. \/ rig'["main"] = rig["main"]
        \/ {rig["main"], rig'["main"]} \subseteq {"idle", "asked", "batch", "results"}
    BY <1>1, <2>1 DEF Family
  <2> QED
    BY <2>1, <2>2, SameSpeech
<1>4. CASE ResultSurfaces(f)
  <2>1. CASE f = "main"
    BY <1>4, <2>1, SurfacesSpeech
  <2>2. CASE f = "sub"
    <3>1. /\ rig'["main"] = rig["main"] /\ fold'["main"] = fold["main"] /\ driver = "running"
          /\ UNCHANGED <<driver, exit, outcome, spoke>>
      BY <1>1, <1>4, <2>2 DEF ResultSurfaces, Family, driveVars, history, Polled
    <3> QED
      BY <3>1, SameSpeech
  <2> QED
    BY <2>1, <2>2 DEF Family
<1>5. CASE CallSent(f) \/ CallReturns(f)
  <2>1. UNCHANGED <<driver, exit, rig, fold, outcome, spoke>>
    BY <1>5 DEF CallSent, CallReturns, driveVars, streamVars, history
  <2> QED
    BY <2>1, SameSpeech
<1> QED
  BY <1>2, <1>3, <1>4, <1>5 DEF LoopMoves

\* Every step of the turn keeps the prose.
LEMMA SpeechInductive == ASSUME Inv, RowInv, SpeechInv, [Next]_vars PROVE SpeechInv'
<1>1. ASSUME NEW f \in Family, ModelMoves(f) PROVE SpeechInv'
  BY <1>1, ModelSpeech
<1>2. ASSUME NEW f \in Family, LoopMoves(f) PROVE SpeechInv'
  BY <1>2, LoopSpeech
<1>3. CASE DriverStarts
  <2>1. /\ driver = "starting" /\ driver' \in {"running", "left"}
        /\ UNCHANGED <<rig, fold, outcome, spoke>> /\ exit' \in {exit, "done"}
    BY <1>3 DEF DriverStarts, streamVars, history
  <2>2. exit = "none" /\ outcome = None
    BY <2>1 DEF Inv, ServerInv, RowInv, RequestInv
  <2> QED
    BY <2>1, <2>2, SameSpeech
<1>4. CASE DriverLeaves
  <2>1. /\ driver = "leaving" /\ driver' = "left"
        /\ UNCHANGED <<exit, rig, fold, outcome, spoke>>
    BY <1>4 DEF DriverLeaves, streamVars, history
  <2> QED
    BY <2>1, SameSpeech
<1>5. ASSUME \/ WindowReopens \/ SubagentStarts
             \/ \E blank \in BOOLEAN : DelegationRefused(blank)
      PROVE  SpeechInv'
  <2>1. UNCHANGED <<driver, exit, rig, fold, outcome, spoke>>
    BY <1>5 DEF WindowReopens, SubagentStarts, DelegationRefused, driveVars, history
  <2> QED
    BY <2>1, SameSpeech
<1>6. CASE DriverAbandons \/ DriverPanics
  BY <1>6, DropSpeech
<1>7. CASE ServerMoves /\ ~Settles
  <2>1. UNCHANGED <<driver, exit, rig, fold, outcome, spoke>>
    BY <1>7 DEF ServerMoves, ServerProceeds, ServerCancels, ServerRefuses, ServerStarts, ServerExecutes,
                ServerExecutesTraceless, ServerReplies, ServerAborts, Records, driveVars,
                streamVars, history
  <2> QED
    BY <2>1, SameSpeech
<1>8. CASE Settles
  BY <1>8, SettlesSpeech
<1>9. CASE UserStops \/ WatchdogStops \/ WatcherNotifies \/ Done \/ UNCHANGED vars
  <2>1. UNCHANGED <<driver, exit, rig, fold, outcome, spoke>>
    BY <1>9 DEF UserStops, WatchdogStops, WatcherNotifies, Done, vars, driveVars,
                streamVars, history
  <2> QED
    BY <2>1, SameSpeech
<1> QED
  BY <1>1, <1>2, <1>3, <1>4, <1>5, <1>6, <1>7, <1>8, <1>9 DEF Next, DriverMoves

\* ProseLandsOnce, for any contents of the model turns: what the main loop's
\* turns said before their calls, or before they were cut, is in the settled
\* trace once and the reply's prose is not, whichever of EventFold's parking,
\* confirmation, retry, final response and finish the turn went through.
THEOREM ProseLandsOnceHolds == Spec => []ProseLandsOnce
<1>1. Init => SpeechInv
  BY InitSpeech
<1>2. Inv /\ RowInv /\ SpeechInv /\ [Next]_vars => SpeechInv'
  BY SpeechInductive
<1>3. SpeechInv => ProseLandsOnce
  BY DEF SpeechInv
<1> QED
  BY <1>1, <1>2, <1>3, InvHolds, RowInvHolds, PTL DEF Spec
=============================================================================
