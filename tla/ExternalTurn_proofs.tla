------------------------- MODULE ExternalTurn_proofs -------------------------
(***************************************************************************)
(* Proofs about ExternalTurn, for any sets of calls and any number of      *)
(* windows: no progress frame follows its answer, no call gets two rows,   *)
(* the live rail has completed exactly the calls that have one, and the    *)
(* merge of the two accounts keeps each of them once.                      *)
(***************************************************************************)
EXTENDS ExternalTurn, FiniteSetTheorems, WellFoundedInduction, TLAPS

\* What the sequences of the model do to the set of their members.
LEMMA ConcatFacts ==
  ASSUME NEW S, NEW s \in Seq(S), NEW t \in Seq(S)
  PROVE  /\ s \o t \in Seq(S)
         /\ Range(s \o t) = Range(s) \cup Range(t)
         /\ IsInjective(s) /\ IsInjective(t) /\ Range(s) \cap Range(t) = {} =>
              IsInjective(s \o t)
<1>1. s \o t \in Seq(S) /\ DOMAIN s = 1 .. Len(s) /\ DOMAIN t = 1 .. Len(t)
      /\ DOMAIN (s \o t) = 1 .. Len(s) + Len(t) /\ Len(s) \in Nat /\ Len(t) \in Nat
  OBVIOUS
<1>2. /\ \A i \in 1 .. Len(s) : (s \o t)[i] = s[i]
      /\ \A i \in 1 .. Len(t) : (s \o t)[i + Len(s)] = t[i]
  OBVIOUS
<1>3. Range(s \o t) = Range(s) \cup Range(t)
  <2>1. ASSUME NEW x \in Range(s \o t) PROVE x \in Range(s) \cup Range(t)
    <3>1. PICK i \in 1 .. Len(s) + Len(t) : x = (s \o t)[i]
      BY <1>1, <2>1 DEF Range
    <3>2. CASE i <= Len(s)
      BY <1>1, <1>2, <3>1, <3>2 DEF Range
    <3>3. CASE i > Len(s)
      <4>1. i - Len(s) \in 1 .. Len(t) /\ x = t[i - Len(s)]
        BY <1>1, <1>2, <3>1, <3>3
      <4> QED
        BY <1>1, <4>1 DEF Range
    <3> QED
      BY <1>1, <3>2, <3>3
  <2>2. ASSUME NEW x \in Range(s) PROVE x \in Range(s \o t)
    BY <1>1, <1>2, <2>2 DEF Range
  <2>3. ASSUME NEW x \in Range(t) PROVE x \in Range(s \o t)
    <3>1. PICK i \in 1 .. Len(t) : x = t[i]
      BY <1>1, <2>3 DEF Range
    <3>2. i + Len(s) \in 1 .. Len(s) + Len(t) /\ x = (s \o t)[i + Len(s)]
      BY <1>1, <1>2, <3>1
    <3> QED
      BY <1>1, <3>2 DEF Range
  <2> QED
    BY <2>1, <2>2, <2>3
<1>4. ASSUME IsInjective(s), IsInjective(t), Range(s) \cap Range(t) = {},
             NEW i \in DOMAIN (s \o t), NEW j \in DOMAIN (s \o t),
             (s \o t)[i] = (s \o t)[j]
      PROVE  i = j
  <2>1. ASSUME NEW k \in 1 .. Len(s), NEW l \in 1 .. Len(t) PROVE s[k] # t[l]
    <3>1. s[k] \in Range(s) /\ t[l] \in Range(t)
      BY <1>1 DEF Range
    <3> QED
      BY <3>1, <1>4
  <2>2. \A k \in DOMAIN (s \o t) :
          \/ k \in 1 .. Len(s) /\ (s \o t)[k] = s[k]
          \/ k - Len(s) \in 1 .. Len(t) /\ (s \o t)[k] = t[k - Len(s)]
    BY <1>1, <1>2
  <2>3. CASE i \in 1 .. Len(s) /\ j \in 1 .. Len(s)
    BY <1>1, <1>2, <1>4, <2>3 DEF IsInjective
  <2>4. CASE i - Len(s) \in 1 .. Len(t) /\ j - Len(s) \in 1 .. Len(t)
    <3>1. t[i - Len(s)] = t[j - Len(s)]
      BY <1>1, <1>2, <1>4, <2>4
    <3>2. i - Len(s) = j - Len(s)
      BY <1>1, <1>4, <2>4, <3>1 DEF IsInjective
    <3> QED
      BY <1>1, <3>2
  <2> QED
    BY <1>1, <1>4, <2>1, <2>2, <2>3, <2>4
<1> QED
  BY <1>1, <1>3, <1>4 DEF IsInjective

LEMMA AppendFacts ==
  ASSUME NEW S, NEW s \in Seq(S), NEW e \in S
  PROVE  /\ Append(s, e) \in Seq(S)
         /\ Range(Append(s, e)) = Range(s) \cup {e}
         /\ IsInjective(s) /\ e \notin Range(s) => IsInjective(Append(s, e))
<1> DEFINE t == <<e>>
<1>1. Append(s, e) = s \o t /\ t \in Seq(S)
  OBVIOUS
<1>2. Range(t) = {e} /\ IsInjective(t)
  BY DEF Range, IsInjective
<1> HIDE DEF t
<1>3. e \notin Range(s) => Range(s) \cap Range(t) = {}
  BY <1>2
<1>4. /\ s \o t \in Seq(S) /\ Range(s \o t) = Range(s) \cup Range(t)
      /\ IsInjective(s) /\ IsInjective(t) /\ Range(s) \cap Range(t) = {} =>
           IsInjective(s \o t)
  BY <1>1, ConcatFacts
<1> QED
  BY <1>1, <1>2, <1>3, <1>4

LEMMA TailFacts ==
  ASSUME NEW S, NEW s \in Seq(S), s # <<>>, IsInjective(s)
  PROVE  /\ Tail(s) \in Seq(S) /\ Head(s) \in S /\ Head(s) \in Range(s)
         /\ Range(Tail(s)) = Range(s) \ {Head(s)} /\ IsInjective(Tail(s))
<1>1. /\ Tail(s) \in Seq(S) /\ Len(s) \in Nat \ {0} /\ Len(Tail(s)) = Len(s) - 1
      /\ DOMAIN s = 1 .. Len(s) /\ DOMAIN Tail(s) = 1 .. Len(s) - 1 /\ Head(s) = s[1]
      /\ \A i \in 1 .. Len(s) - 1 : Tail(s)[i] = s[i + 1]
  OBVIOUS
<1>2. Head(s) \in S /\ Head(s) \in Range(s)
  BY <1>1 DEF Range
<1>3. ASSUME NEW x \in Range(Tail(s)) PROVE x \in Range(s) \ {Head(s)}
  BY <1>1, <1>3 DEF Range, IsInjective
<1>4. ASSUME NEW x \in Range(s) \ {Head(s)} PROVE x \in Range(Tail(s))
  <2>1. PICK i \in 1 .. Len(s) : x = s[i]
    BY <1>1, <1>4 DEF Range
  <2>2. i # 1 /\ i - 1 \in 1 .. Len(s) - 1 /\ Tail(s)[i - 1] = x
    BY <1>1, <1>4, <2>1
  <2> QED
    BY <1>1, <2>2 DEF Range
<1>5. IsInjective(Tail(s))
  BY <1>1 DEF IsInjective
<1> QED
  BY <1>1, <1>2, <1>3, <1>4, <1>5

LEMMA RemoveFacts ==
  ASSUME NEW S, NEW s \in Seq(S), NEW i \in DOMAIN s, IsInjective(s)
  PROVE  /\ RemoveAt(s, i) \in Seq(S)
         /\ Range(RemoveAt(s, i)) = Range(s) \ {s[i]} /\ IsInjective(RemoveAt(s, i))
<1> DEFINE u == SubSeq(s, 1, i - 1)
           v == SubSeq(s, i + 1, Len(s))
<1>1. /\ DOMAIN s = 1 .. Len(s) /\ Len(s) \in Nat /\ i \in 1 .. Len(s)
      /\ u \in Seq(S) /\ v \in Seq(S)
      /\ DOMAIN u = 1 .. i - 1 /\ DOMAIN v = 1 .. Len(s) - i
      /\ \A k \in 1 .. i - 1 : u[k] = s[k]
      /\ \A k \in 1 .. Len(s) - i : v[k] = s[k + i]
  <2>1. DOMAIN s = 1 .. Len(s) /\ Len(s) \in Nat /\ i \in 1 .. Len(s)
    OBVIOUS
  <2>2. /\ u \in Seq(S) /\ DOMAIN u = 1 .. i - 1
        /\ \A k \in 1 .. i - 1 : u[k] = s[k]
    BY <2>1
  <2>3. /\ v \in Seq(S) /\ DOMAIN v = 1 .. Len(s) - i
        /\ \A k \in 1 .. Len(s) - i : v[k] = s[k + i]
    BY <2>1
  <2> HIDE DEF u, v
  <2> QED
    BY <2>1, <2>2, <2>3
<1> HIDE DEF u, v
<1>2. IsInjective(u) /\ IsInjective(v)
  <2>1. ASSUME NEW a \in 1 .. i - 1, NEW b \in 1 .. i - 1, u[a] = u[b] PROVE a = b
    <3>1. a \in DOMAIN s /\ b \in DOMAIN s /\ s[a] = s[b]
      BY <1>1, <2>1
    <3> QED
      BY <3>1 DEF IsInjective
  <2>2. ASSUME NEW a \in 1 .. Len(s) - i, NEW b \in 1 .. Len(s) - i, v[a] = v[b]
        PROVE  a = b
    <3>1. a + i \in DOMAIN s /\ b + i \in DOMAIN s /\ s[a + i] = s[b + i]
      BY <1>1, <2>2
    <3>2. a + i = b + i
      BY <3>1 DEF IsInjective
    <3> QED
      BY <3>2
  <2> QED
    BY <1>1, <2>1, <2>2 DEF IsInjective
<1>3. Range(u) \cap Range(v) = {}
  BY <1>1, SMTT(30) DEF Range, IsInjective
<1>4. Range(u) \cup Range(v) = Range(s) \ {s[i]}
  <2>1. ASSUME NEW x \in Range(u) \cup Range(v) PROVE x \in Range(s) \ {s[i]}
    <3>1. PICK k \in DOMAIN s : x = s[k] /\ k # i
      <4>1. CASE x \in Range(u)
        BY <1>1, <4>1 DEF Range
      <4>2. CASE x \in Range(v)
        <5>1. PICK l \in 1 .. Len(s) - i : x = v[l]
          BY <1>1, <4>2 DEF Range
        <5>2. l + i \in DOMAIN s /\ x = s[l + i] /\ l + i # i
          BY <1>1, <5>1
        <5> QED
          BY <5>2
      <4> QED
        BY <2>1, <4>1, <4>2
    <3> QED
      BY <3>1 DEF Range, IsInjective
  <2>2. ASSUME NEW x \in Range(s) \ {s[i]} PROVE x \in Range(u) \cup Range(v)
    <3>1. PICK k \in 1 .. Len(s) : x = s[k]
      BY <1>1, <2>2 DEF Range
    <3>2. CASE k < i
      <4>1. k \in 1 .. i - 1 /\ u[k] = x
        BY <1>1, <3>1, <3>2
      <4> QED
        BY <1>1, <4>1 DEF Range
    <3>3. CASE k > i
      <4>1. k - i \in 1 .. Len(s) - i /\ v[k - i] = x
        BY <1>1, <3>1, <3>3
      <4> QED
        BY <1>1, <4>1 DEF Range
    <3> QED
      BY <1>1, <2>2, <3>1, <3>2, <3>3
  <2> QED
    BY <2>1, <2>2
<1>5. RemoveAt(s, i) = u \o v
  BY <1>1 DEF RemoveAt, u, v
<1> QED
  BY <1>1, <1>2, <1>3, <1>4, <1>5, ConcatFacts
----------------------------------------------------------------------------
\* The companion's slot and the last progress frame are of the call at hand;
\* there is none while the spine waits for a frame or writes an answer.
FunnelInv ==
  /\ progress \in {None, call} /\ slot \in {None, call}
  /\ spine \in {"accept", "serve", "write"} => slot = None
  /\ spine \in {"accept", "serve"} => call = None

\* A call is sent once: it waits in the socket, is at hand or was at hand.
SocketInv ==
  /\ IsInjective(socket)
  /\ call # None => call \in sent \ Range(socket)
  /\ Range(gtrace) \subseteq sent \ Range(socket)

\* The gateway's side of the rail: the call that runs is shown as running, the
\* calls with a row as completed.
GatewayInv ==
  /\ IsInjective(gtrace)
  /\ spine \in {"gate", "run"} => call \in Gateway \ Range(gtrace)
  /\ running \cap Gateway = IF spine = "run" THEN {call} ELSE {}
  /\ \A c \in Gateway : completed[c] = IF c \in Range(gtrace) THEN 1 ELSE 0

\* The engine's side: a call has one row, open or landed; the agent's own calls
\* are shown as running and completed accordingly.
RowsInv ==
  /\ IsInjective(pending) /\ IsInjective(rows) /\ Range(pending) \cap Range(rows) = {}
  /\ eng \notin {"prompting", "settle"} => pending = <<>>

NativeInv ==
  /\ running \cap Native = Range(pending) \cap Native
  /\ \A c \in Native : completed[c] = IF c \in Range(rows) THEN 1 ELSE 0

\* An engine that has settled knows how it ended, and a settled turn has joined
\* both threads.
JoinInv ==
  /\ eng \in {"settle", "killed", "retired", "finished"} => end # "none"
  /\ outcome # "none" => spine = "closed" /\ eng = "finished"

Inv == /\ TypeOK /\ FunnelInv /\ SocketInv /\ GatewayInv
       /\ RowsInv /\ NativeInv /\ JoinInv

(* The rows of either side are single, and the rail has completed exactly  *)
(* the calls with a row on the side that shows them, once each; when the   *)
(* turn has settled nothing is left running (engine.rs, finalize_row;      *)
(* server.rs, the gateway's own rows).                                     *)
RailShowsRows ==
  /\ IsInjective(rows) /\ IsInjective(gtrace)
  /\ \A c \in Calls :
       completed[c] = IF c \in Range(IF c \in Native THEN rows ELSE gtrace) THEN 1 ELSE 0
  /\ outcome # "none" => running = {}

----------------------------------------------------------------------------
LEMMA RangeEmpty == Range(<<>>) = {} /\ IsInjective(<<>>)
BY DEF Range, IsInjective

LEMMA RangeMember ==
  ASSUME NEW S, NEW s \in Seq(S) PROVE Range(s) \subseteq S
BY DEF Range

LEMMA InitInv == Init => Inv
<1> SUFFICES ASSUME Init PROVE Inv
  OBVIOUS
<1>1. TypeOK
  <2>1. SeqOK
    BY DEF Init, SeqOK
  <2>2. FlagOK
    BY DEF Init, FlagOK
  <2>3. completed \in [Calls -> 0..1]
    BY DEF Init
  <2> QED
    BY <2>1, <2>2, <2>3, CallsAssumption DEF Init, TypeOK, Over
<1>2. SocketInv /\ GatewayInv /\ NativeInv
  BY CallsAssumption, RangeEmpty DEF Init, SocketInv, GatewayInv, NativeInv, Calls
<1>3. FunnelInv /\ RowsInv /\ JoinInv
  BY RangeEmpty DEF Init, FunnelInv, RowsInv, JoinInv
<1> QED
  BY <1>1, <1>2, <1>3 DEF Inv


\* What the engine does with a closed row, and with those it drains at the end.
LEMMA CloseFacts ==
  ASSUME Inv, NEW c \in Calls, PumpClose(c)
  PROVE  /\ c \in Range(pending) /\ c \notin Range(rows)
         /\ pending' \in Seq(Calls) /\ rows' \in Seq(Calls)
         /\ Range(pending') = Range(pending) \ {c} /\ Range(rows') = Range(rows) \cup {c}
         /\ IsInjective(pending') /\ IsInjective(rows')
         /\ running' = running \ (Native \cap {c})
         /\ completed' = [d \in Calls |->
                            completed[d] + IF d \in Native \cap {c} THEN 1 ELSE 0]
<1> DEFINE open == <<c>>
<1>1. pending \in Seq(Calls) /\ rows \in Seq(Calls) /\ open \in Seq(Calls)
  BY DEF Inv, TypeOK, SeqOK
<1>2. /\ IsInjective(pending) /\ IsInjective(rows)
      /\ Range(pending) \cap Range(rows) = {}
  BY DEF Inv, RowsInv
<1>3. PICK i \in DOMAIN pending : pending[i] = c /\ pending' = RemoveAt(pending, i)
  BY DEF PumpClose
<1>4. c \in Range(pending) /\ c \notin Range(rows)
  BY <1>2, <1>3 DEF Range
<1>5. /\ pending' \in Seq(Calls) /\ Range(pending') = Range(pending) \ {c}
      /\ IsInjective(pending')
  BY <1>1, <1>2, <1>3, RemoveFacts
<1>6. Range(open) = {c}
  BY DEF Range
<1>7. /\ rows' = rows \o open /\ running' = running \ (Native \cap Range(open))
      /\ completed' = [d \in Calls |->
                   completed[d] + IF d \in Native \cap Range(open) THEN 1 ELSE 0]
  BY DEF PumpClose, Finalizes
<1>8. rows' = Append(rows, c)
  BY <1>1, <1>7
<1> HIDE DEF open
<1>9. /\ rows' \in Seq(Calls) /\ Range(rows') = Range(rows) \cup {c}
      /\ IsInjective(rows')
  BY <1>1, <1>2, <1>4, <1>8, AppendFacts
<1> QED
  BY <1>4, <1>5, <1>6, <1>7, <1>9

LEMMA SettleFacts ==
  ASSUME Inv, EngineSettles
  PROVE  /\ pending' = <<>> /\ pending' \in Seq(Calls) /\ rows' \in Seq(Calls)
         /\ Range(rows') = Range(rows) \cup Range(pending) /\ IsInjective(rows')
         /\ running' = running \ (Native \cap Range(pending))
         /\ completed' = [d \in Calls |->
                completed[d] + IF d \in Native \cap Range(pending) THEN 1 ELSE 0]
<1>1. pending \in Seq(Calls) /\ rows \in Seq(Calls)
  BY DEF Inv, TypeOK, SeqOK
<1>2. /\ IsInjective(pending) /\ IsInjective(rows)
      /\ Range(rows) \cap Range(pending) = {}
  BY DEF Inv, RowsInv
<1>3. /\ pending' = <<>> /\ rows' = rows \o pending
      /\ running' = running \ (Native \cap Range(pending))
      /\ completed' = [d \in Calls |->
                completed[d] + IF d \in Native \cap Range(pending) THEN 1 ELSE 0]
  BY DEF EngineSettles, Finalizes
<1> QED
  BY <1>1, <1>2, <1>3, ConcatFacts

\* A call that the gateway settles had no row before.
LEMMA RecordFacts ==
  ASSUME Inv, spine \in {"gate", "run"}, Records
  PROVE  /\ call \in Gateway /\ call \notin Range(gtrace)
         /\ gtrace' \in Seq(Gateway) /\ Range(gtrace') = Range(gtrace) \cup {call}
         /\ IsInjective(gtrace') /\ running' = running \ {call}
         /\ completed' = [completed EXCEPT ![call] = 1]
<1>1. gtrace \in Seq(Gateway) /\ completed \in [Calls -> 0..1]
  BY DEF Inv, TypeOK, SeqOK
<1>2. call \in Gateway /\ call \notin Range(gtrace) /\ IsInjective(gtrace)
  BY DEF Inv, GatewayInv
<1>3. completed[call] = 0
  BY <1>2 DEF Inv, GatewayInv
<1>4. completed' = [completed EXCEPT ![call] = 1]
  BY <1>1, <1>3 DEF Records
<1>5. gtrace' = Append(gtrace, call) /\ running' = running \ {call}
  BY DEF Records
<1> QED
  BY <1>1, <1>2, <1>4, <1>5, AppendFacts

\* The frame that the spine takes.
LEMMA TakeFacts ==
  ASSUME Inv, TakeFrame
  PROVE  /\ call' \in sent /\ call' \in Range(socket)
         /\ Range(socket') = Range(socket) \ {call'} /\ IsInjective(socket')
         /\ socket' \in Seq(sent)
<1>1. socket \in Seq(sent) /\ socket # <<>> /\ IsInjective(socket)
  BY DEF Inv, TypeOK, SeqOK, SocketInv, TakeFrame
<1>2. call' = Head(socket) /\ socket' = Tail(socket)
  BY DEF TakeFrame
<1> QED
  BY <1>1, <1>2, TailFacts


\* The slot is armed with the call at hand and emptied before its answer.
LEMMA FunnelStep == ASSUME Inv, Next PROVE FunnelInv'
<1> USE CallsAssumption DEF Inv, FunnelInv, vars, engineVars, spineVars,
    wireVars, beatVars, liveVars
<1>1. CASE Accepts
  BY <1>1 DEF Accepts, Closes, SpineUnchanged
<1>2. CASE TakeFrame
  BY <1>2 DEF TakeFrame, SpineUnchanged
<1>3. CASE TakeDone
  BY <1>3 DEF TakeDone, Closes, SpineUnchanged
<1>4. CASE Beat
  BY <1>4 DEF Beat, Closes, SpineUnchanged
<1>5. CASE GateAllows
  BY <1>5 DEF GateAllows, DispatchUnchanged, SpineUnchanged
<1>6. CASE GateDenies
  BY <1>6 DEF GateDenies, DispatchUnchanged, SpineUnchanged, Records
<1>7. CASE GateCancels
  BY <1>7 DEF GateCancels, DispatchUnchanged, SpineUnchanged
<1>8. CASE RunEnds
  BY <1>8 DEF RunEnds, DispatchUnchanged, SpineUnchanged, Records
<1>9. CASE Disarms
  BY <1>9 DEF Disarms, SpineUnchanged
<1>10. CASE Writes
  BY <1>10 DEF Writes, Closes, SpineUnchanged
<1>11. CASE KeeperWrites
  BY <1>11 DEF KeeperWrites, KeeperUnchanged
<1>12. ASSUME \/ BridgeMoves \/ AgentDies \/ EngineBegins \/ HandshakeEnds
              \/ SendCancel \/ GraceElapses \/ PumpEof \/ EngineSettles
              \/ GuardDrops \/ TellServe \/ VerifyReads \/ ReaderEnds \/ Joins
              \/ UserStops \/ KeeperWakes \/ AtRest
              \/ \E c \in Gateway : AgentCalls(c)
              \/ \E r \in Reasons : PumpStop(r)
              \/ \E c \in Calls : PumpOpen(c)
              \/ \E c \in Calls : PumpClose(c)
      PROVE  FunnelInv'
  BY <1>12 DEF BridgeMoves, AgentCalls, AgentDies, TreeEnds, EngineBegins,
     HandshakeEnds, Prompts, PumpEnds, EngineUnchanged, SendCancel,
     GraceElapses, PumpEof, PumpStop, Reasons, PumpOpen, PumpClose,
     Finalizes, EngineSettles, GuardDrops, TellServe, VerifyReads,
     ReaderUnchanged, Cut, Failure, ReaderEnds, Joins, UserStops,
     KeeperWakes, KeeperUnchanged, AtRest
<1> HIDE DEF Inv, FunnelInv, vars, engineVars, spineVars, wireVars, beatVars,
    liveVars
<1> QED
  BY <1>1, <1>2, <1>3, <1>4, <1>5, <1>6, <1>7, <1>8, <1>9, <1>10,
     <1>11, <1>12
     DEF Next, Agent, Engine, Pump, Reader, Spine, SpineMoves, User, Keeper

\* A frame enters the socket once and leaves it into the spine's hand.
LEMMA SocketStep == ASSUME Inv, Next PROVE SocketInv'
<1> USE CallsAssumption DEF Calls, Inv, TypeOK, SocketInv, vars, engineVars,
    spineVars, wireVars, beatVars, liveVars
<1>1. ASSUME NEW c \in Gateway, AgentCalls(c) PROVE SocketInv'
  <2>1. socket \in Seq(sent) /\ sent \subseteq Gateway
    BY DEF SeqOK
  <2>2. sent \subseteq sent' /\ c \in sent' /\ socket \in Seq(sent') /\ c \notin Range(socket)
    BY <1>1, <2>1, RangeMember DEF AgentCalls
  <2>3. Range(socket') = Range(socket) \cup {c} /\ IsInjective(socket')
    BY <1>1, <2>2, AppendFacts DEF AgentCalls
  <2>4. c \notin Range(gtrace) /\ call # c
    BY <1>1, <2>1 DEF AgentCalls
  <2> QED
    BY <1>1, <2>2, <2>3, <2>4 DEF AgentCalls
<1>2. CASE TakeFrame
  <2>1. Range(gtrace') \subseteq sent' \ Range(socket')
    BY <1>2, TakeFacts DEF TakeFrame, SpineUnchanged
  <2> QED
    BY <1>2, <2>1, TakeFacts DEF TakeFrame, SpineUnchanged
<1>3. CASE GateDenies
  BY <1>3, RecordFacts DEF GateDenies, DispatchUnchanged, SpineUnchanged
<1>4. CASE RunEnds
  BY <1>4, RecordFacts DEF RunEnds, DispatchUnchanged, SpineUnchanged
<1>5. CASE Writes
  BY <1>5 DEF Writes, Closes, SpineUnchanged
<1>6. ASSUME \/ BridgeMoves \/ AgentDies \/ EngineBegins \/ HandshakeEnds
             \/ SendCancel \/ GraceElapses \/ PumpEof \/ EngineSettles
             \/ GuardDrops \/ TellServe \/ VerifyReads \/ ReaderEnds \/ Accepts
             \/ TakeDone \/ Beat \/ GateAllows \/ GateCancels \/ Disarms \/ Joins
             \/ UserStops \/ KeeperWakes \/ KeeperWrites \/ AtRest
             \/ \E r \in Reasons : PumpStop(r)
             \/ \E c \in Calls : PumpOpen(c)
             \/ \E c \in Calls : PumpClose(c)
      PROVE  SocketInv'
  BY <1>6 DEF BridgeMoves, AgentDies, TreeEnds, EngineBegins, HandshakeEnds,
     Prompts, PumpEnds, EngineUnchanged, SendCancel, GraceElapses, PumpEof,
     PumpStop, Reasons, PumpOpen, PumpClose, Finalizes, EngineSettles,
     GuardDrops, TellServe, VerifyReads, ReaderUnchanged, Cut, Failure,
     ReaderEnds, Accepts, Closes, SpineUnchanged, TakeDone, Beat, GateAllows,
     DispatchUnchanged, GateCancels, Disarms, Joins, UserStops, KeeperWakes,
     KeeperUnchanged, KeeperWrites, AtRest
<1> HIDE DEF Calls, Inv, TypeOK, SocketInv, vars, engineVars, spineVars,
    wireVars, beatVars, liveVars
<1> QED
  BY <1>1, <1>2, <1>3, <1>4, <1>5, <1>6
     DEF Next, Agent, Engine, Pump, Reader, Spine, SpineMoves, User, Keeper

\* The gateway shows, runs and records one call at a time.
LEMMA GatewayStep == ASSUME Inv, Next PROVE GatewayInv'
<1> USE CallsAssumption DEF Calls, Inv, TypeOK, GatewayInv, vars, engineVars,
    spineVars, wireVars, beatVars, liveVars
<1>1. ASSUME NEW c \in Calls, PumpOpen(c) PROVE GatewayInv'
  <2>1. running' \cap Gateway = running \cap Gateway
    BY <1>1 DEF PumpOpen
  <2> QED
    BY <1>1, <2>1 DEF PumpOpen, EngineUnchanged
<1>2. ASSUME NEW c \in Calls, PumpClose(c) PROVE GatewayInv'
  <2>1. running' \cap Gateway = running \cap Gateway
    BY <1>2, CloseFacts
  <2>2. \A d \in Gateway : completed'[d] = completed[d]
    BY <1>2, CloseFacts
  <2> QED
    BY <1>2, <2>1, <2>2 DEF PumpClose
<1>3. CASE EngineSettles
  <2>1. running' \cap Gateway = running \cap Gateway
    BY <1>3, SettleFacts
  <2>2. \A d \in Gateway : completed'[d] = completed[d]
    BY <1>3, SettleFacts
  <2> QED
    BY <1>3, <2>1, <2>2 DEF EngineSettles
<1>4. CASE Accepts
  BY <1>4 DEF Accepts, Closes, SpineUnchanged
<1>5. CASE TakeFrame
  <2>1. call' \in Gateway \ Range(gtrace)
    BY <1>5, TakeFacts DEF TakeFrame, SocketInv
  <2> QED
    BY <1>5, <2>1 DEF TakeFrame, SpineUnchanged
<1>6. CASE TakeDone
  BY <1>6 DEF TakeDone, Closes, SpineUnchanged
<1>7. CASE Beat
  BY <1>7 DEF Beat, Closes, SpineUnchanged
<1>8. CASE GateAllows
  BY <1>8 DEF GateAllows, DispatchUnchanged, SpineUnchanged
<1>9. CASE GateDenies
  <2>1. \A c \in Gateway : completed'[c] = IF c \in Range(gtrace') THEN 1 ELSE 0
    BY <1>9, RecordFacts DEF GateDenies
  <2>2. spine' = "answer" /\ running' \cap Gateway = {}
    BY <1>9, RecordFacts DEF GateDenies
  <2> QED
    BY <1>9, <2>1, <2>2, RecordFacts DEF GateDenies
<1>10. CASE GateCancels
  BY <1>10 DEF GateCancels, DispatchUnchanged, SpineUnchanged
<1>11. CASE RunEnds
  <2>1. \A c \in Gateway : completed'[c] = IF c \in Range(gtrace') THEN 1 ELSE 0
    BY <1>11, RecordFacts DEF RunEnds
  <2>2. spine' = "answer" /\ running' \cap Gateway = {}
    BY <1>11, RecordFacts DEF RunEnds
  <2> QED
    BY <1>11, <2>1, <2>2, RecordFacts DEF RunEnds
<1>12. CASE Disarms
  BY <1>12 DEF Disarms, SpineUnchanged
<1>13. CASE Writes
  BY <1>13 DEF Writes, Closes, SpineUnchanged
<1>14. ASSUME \/ BridgeMoves \/ AgentDies \/ EngineBegins \/ HandshakeEnds
              \/ SendCancel \/ GraceElapses \/ PumpEof \/ GuardDrops \/ TellServe
              \/ VerifyReads \/ ReaderEnds \/ Joins \/ UserStops \/ KeeperWakes
              \/ KeeperWrites \/ AtRest
              \/ \E c \in Gateway : AgentCalls(c)
              \/ \E r \in Reasons : PumpStop(r)
      PROVE  GatewayInv'
  BY <1>14 DEF BridgeMoves, AgentCalls, AgentDies, TreeEnds, EngineBegins,
     HandshakeEnds, Prompts, PumpEnds, EngineUnchanged, SendCancel,
     GraceElapses, PumpEof, PumpStop, Reasons, GuardDrops, TellServe,
     VerifyReads, ReaderUnchanged, Cut, Failure, ReaderEnds, Joins,
     UserStops, KeeperWakes, KeeperUnchanged, KeeperWrites, AtRest
<1> HIDE DEF Calls, Inv, TypeOK, GatewayInv, vars, engineVars, spineVars,
    wireVars, beatVars, liveVars
<1> QED
  BY <1>1, <1>2, <1>3, <1>4, <1>5, <1>6, <1>7, <1>8, <1>9, <1>10,
     <1>11, <1>12, <1>13, <1>14
     DEF Next, Agent, Engine, Pump, Reader, Spine, SpineMoves, User, Keeper

\* A row is opened once and lands once.
LEMMA RowsStep == ASSUME Inv, Next PROVE RowsInv'
<1> USE CallsAssumption DEF Calls, Inv, TypeOK, RowsInv, vars, engineVars,
    spineVars, wireVars, beatVars, liveVars
<1>1. CASE EngineBegins
  BY <1>1 DEF EngineBegins
<1>2. CASE HandshakeEnds
  BY <1>2 DEF HandshakeEnds, Prompts, PumpEnds, EngineUnchanged
<1>3. CASE GraceElapses
  BY <1>3 DEF GraceElapses, PumpEnds, EngineUnchanged
<1>4. CASE PumpEof
  BY <1>4 DEF PumpEof, PumpEnds, EngineUnchanged
<1>5. ASSUME NEW r \in Reasons, PumpStop(r) PROVE RowsInv'
  BY <1>5 DEF PumpStop, Prompts, PumpEnds, EngineUnchanged, Reasons
<1>6. ASSUME NEW c \in Calls, PumpOpen(c) PROVE RowsInv'
  <2>1. Range(pending') = Range(pending) \cup {c} /\ IsInjective(pending')
    BY <1>6, AppendFacts DEF PumpOpen, SeqOK
  <2> QED
    BY <1>6, <2>1 DEF PumpOpen
<1>7. ASSUME NEW c \in Calls, PumpClose(c) PROVE RowsInv'
  <2>1. eng' = "prompting"
    BY <1>7 DEF PumpClose
  <2> QED
    BY <1>7, <2>1, CloseFacts
<1>8. CASE EngineSettles
  BY <1>8, SettleFacts, RangeEmpty DEF EngineSettles
<1>9. CASE GuardDrops
  BY <1>9 DEF GuardDrops
<1>10. CASE TellServe
  BY <1>10 DEF TellServe
<1>11. ASSUME \/ BridgeMoves \/ AgentDies \/ SendCancel \/ VerifyReads
              \/ ReaderEnds \/ Accepts \/ TakeFrame \/ TakeDone \/ Beat
              \/ GateAllows \/ GateDenies \/ GateCancels \/ RunEnds \/ Disarms
              \/ Writes \/ Joins \/ UserStops \/ KeeperWakes \/ KeeperWrites
              \/ AtRest
              \/ \E c \in Gateway : AgentCalls(c)
      PROVE  RowsInv'
  BY <1>11 DEF BridgeMoves, AgentCalls, AgentDies, TreeEnds, SendCancel,
     EngineUnchanged, VerifyReads, ReaderUnchanged, Cut, Failure, ReaderEnds,
     Accepts, Closes, SpineUnchanged, TakeFrame, TakeDone, Beat, GateAllows,
     DispatchUnchanged, GateDenies, Records, GateCancels, RunEnds, Disarms,
     Writes, Joins, UserStops, KeeperWakes, KeeperUnchanged, KeeperWrites,
     AtRest
<1> HIDE DEF Calls, Inv, TypeOK, RowsInv, vars, engineVars, spineVars,
    wireVars, beatVars, liveVars
<1> QED
  BY <1>1, <1>2, <1>3, <1>4, <1>5, <1>6, <1>7, <1>8, <1>9, <1>10,
     <1>11
     DEF Next, Agent, Engine, Pump, Reader, Spine, SpineMoves, User, Keeper

\* The rail follows the rows of the agent's own calls.
LEMMA NativeStep == ASSUME Inv, Next PROVE NativeInv'
<1> USE CallsAssumption DEF Calls, Inv, TypeOK, NativeInv, vars, engineVars,
    spineVars, wireVars, beatVars, liveVars
<1>1. ASSUME NEW c \in Calls, PumpOpen(c) PROVE NativeInv'
  <2>1. Range(pending') = Range(pending) \cup {c}
    BY <1>1, AppendFacts DEF PumpOpen, SeqOK
  <2> QED
    BY <1>1, <2>1 DEF PumpOpen, EngineUnchanged
<1>2. ASSUME NEW c \in Calls, PumpClose(c) PROVE NativeInv'
  <2>1. running' \cap Native = Range(pending') \cap Native
    BY <1>2, CloseFacts
  <2>2. ASSUME NEW d \in Native
        PROVE  completed'[d] = IF d \in Range(rows') THEN 1 ELSE 0
    BY <1>2, CloseFacts
  <2> QED
    BY <2>1, <2>2
<1>3. CASE EngineSettles
  <2>1. running' \cap Native = Range(pending') \cap Native
    BY <1>3, SettleFacts, RangeEmpty
  <2>2. ASSUME NEW d \in Native
        PROVE  completed'[d] = IF d \in Range(rows') THEN 1 ELSE 0
    BY <1>3, SettleFacts DEF RowsInv
  <2> QED
    BY <2>1, <2>2
<1>4. CASE TakeFrame
  <2>1. call' \in Gateway
    BY <1>4, TakeFacts
  <2>2. running' \cap Native = running \cap Native
    BY <1>4, <2>1 DEF TakeFrame
  <2> QED
    BY <1>4, <2>2 DEF TakeFrame, SpineUnchanged
<1>5. CASE GateAllows
  <2>1. running' \cap Native = running \cap Native
    BY <1>5 DEF GateAllows, GatewayInv
  <2> QED
    BY <1>5, <2>1 DEF GateAllows, DispatchUnchanged, SpineUnchanged
<1>6. CASE GateDenies
  <2>1. /\ running' \cap Native = running \cap Native
        /\ \A d \in Native : completed'[d] = completed[d]
    BY <1>6, RecordFacts DEF GateDenies
  <2> QED
    BY <1>6, <2>1 DEF GateDenies, DispatchUnchanged, SpineUnchanged
<1>7. CASE RunEnds
  <2>1. /\ running' \cap Native = running \cap Native
        /\ \A d \in Native : completed'[d] = completed[d]
    BY <1>7, RecordFacts DEF RunEnds
  <2> QED
    BY <1>7, <2>1 DEF RunEnds, DispatchUnchanged, SpineUnchanged
<1>8. ASSUME \/ BridgeMoves \/ AgentDies \/ EngineBegins \/ HandshakeEnds
             \/ SendCancel \/ GraceElapses \/ PumpEof \/ GuardDrops \/ TellServe
             \/ VerifyReads \/ ReaderEnds \/ Accepts \/ TakeDone \/ Beat
             \/ GateCancels \/ Disarms \/ Writes \/ Joins \/ UserStops
             \/ KeeperWakes \/ KeeperWrites \/ AtRest
             \/ \E c \in Gateway : AgentCalls(c)
             \/ \E r \in Reasons : PumpStop(r)
      PROVE  NativeInv'
  BY <1>8 DEF BridgeMoves, AgentCalls, AgentDies, TreeEnds, EngineBegins,
     HandshakeEnds, Prompts, PumpEnds, EngineUnchanged, SendCancel,
     GraceElapses, PumpEof, PumpStop, Reasons, GuardDrops, TellServe,
     VerifyReads, ReaderUnchanged, Cut, Failure, ReaderEnds, Accepts, Closes,
     SpineUnchanged, TakeDone, Beat, GateCancels, DispatchUnchanged, Disarms,
     Writes, Joins, UserStops, KeeperWakes, KeeperUnchanged, KeeperWrites,
     AtRest
<1> HIDE DEF Calls, Inv, TypeOK, NativeInv, vars, engineVars, spineVars,
    wireVars, beatVars, liveVars
<1> QED
  BY <1>1, <1>2, <1>3, <1>4, <1>5, <1>6, <1>7, <1>8
     DEF Next, Agent, Engine, Pump, Reader, Spine, SpineMoves, User, Keeper

\* Both threads stay where the join found them.
LEMMA JoinStep == ASSUME Inv, Next PROVE JoinInv'
<1> USE CallsAssumption DEF Inv, JoinInv, vars, engineVars, spineVars,
    wireVars, beatVars, liveVars
<1>1. CASE BridgeMoves
  BY <1>1 DEF BridgeMoves
<1>2. CASE EngineBegins
  BY <1>2 DEF EngineBegins
<1>3. CASE HandshakeEnds
  BY <1>3 DEF HandshakeEnds, Prompts, PumpEnds, EngineUnchanged
<1>4. CASE GraceElapses
  BY <1>4 DEF GraceElapses, PumpEnds, EngineUnchanged
<1>5. CASE PumpEof
  BY <1>5 DEF PumpEof, PumpEnds, EngineUnchanged
<1>6. ASSUME NEW r \in Reasons, PumpStop(r) PROVE JoinInv'
  BY <1>6 DEF PumpStop, Prompts, PumpEnds, EngineUnchanged, Reasons
<1>7. CASE EngineSettles
  BY <1>7 DEF EngineSettles, Finalizes, TreeEnds
<1>8. CASE GuardDrops
  BY <1>8 DEF GuardDrops
<1>9. CASE TellServe
  BY <1>9 DEF TellServe
<1>10. CASE Accepts
  BY <1>10 DEF Accepts, Closes, SpineUnchanged
<1>11. CASE TakeFrame
  BY <1>11 DEF TakeFrame, SpineUnchanged
<1>12. CASE TakeDone
  BY <1>12 DEF TakeDone, Closes, SpineUnchanged
<1>13. CASE Beat
  BY <1>13 DEF Beat, Closes, SpineUnchanged
<1>14. CASE Joins
  BY <1>14 DEF Joins
<1>15. CASE UserStops
  BY <1>15 DEF UserStops
<1>16. ASSUME \/ AgentDies \/ SendCancel \/ VerifyReads \/ ReaderEnds \/ GateAllows
              \/ GateDenies \/ GateCancels \/ RunEnds \/ Disarms \/ Writes
              \/ KeeperWakes \/ KeeperWrites \/ AtRest
              \/ \E c \in Gateway : AgentCalls(c)
              \/ \E c \in Calls : PumpOpen(c)
              \/ \E c \in Calls : PumpClose(c)
      PROVE  JoinInv'
  BY <1>16 DEF AgentCalls, AgentDies, TreeEnds, SendCancel, EngineUnchanged,
     PumpOpen, PumpClose, Finalizes, VerifyReads, ReaderUnchanged, Cut,
     Failure, ReaderEnds, GateAllows, DispatchUnchanged, SpineUnchanged,
     GateDenies, Records, GateCancels, RunEnds, Disarms, Writes, Closes,
     KeeperWakes, KeeperUnchanged, KeeperWrites, AtRest
<1> HIDE DEF Inv, JoinInv, vars, engineVars, spineVars, wireVars, beatVars,
    liveVars
<1> QED
  BY <1>1, <1>2, <1>3, <1>4, <1>5, <1>6, <1>7, <1>8, <1>9, <1>10,
     <1>11, <1>12, <1>13, <1>14, <1>15, <1>16
     DEF Next, Agent, Engine, Pump, Reader, Spine, SpineMoves, User, Keeper

\* Each action keeps the types of the sequences.
LEMMA SeqStep == ASSUME Inv, Next PROVE SeqOK'
<1> USE CallsAssumption DEF Inv, TypeOK, SeqOK, vars, engineVars, spineVars,
    wireVars, beatVars, liveVars
<1>1. ASSUME NEW c \in Gateway, AgentCalls(c) PROVE SeqOK'
  <2>1. sent \subseteq sent' /\ c \in sent' /\ socket \in Seq(sent')
    BY <1>1 DEF AgentCalls
  <2>2. socket' \in Seq(sent')
    BY <1>1, <2>1, AppendFacts DEF AgentCalls
  <2> QED
    BY <1>1, <2>2 DEF AgentCalls
<1>2. ASSUME NEW c \in Calls, PumpOpen(c) PROVE SeqOK'
  <2>1. pending' \in Seq(Calls)
    BY <1>2, AppendFacts DEF PumpOpen
  <2> QED
    BY <1>2, <2>1 DEF PumpOpen, EngineUnchanged
<1>3. ASSUME NEW c \in Calls, PumpClose(c) PROVE SeqOK'
  BY <1>3, CloseFacts DEF PumpClose
<1>4. CASE EngineSettles
  BY <1>4, SettleFacts DEF EngineSettles
<1>5. CASE TakeFrame
  <2>1. socket' \in Seq(sent')
    BY <1>5, TakeFacts DEF TakeFrame, SpineUnchanged
  <2> QED
    BY <1>5, <2>1 DEF TakeFrame, SpineUnchanged
<1>6. CASE GateDenies
  BY <1>6, RecordFacts DEF GateDenies, DispatchUnchanged, SpineUnchanged
<1>7. CASE RunEnds
  BY <1>7, RecordFacts DEF RunEnds, DispatchUnchanged, SpineUnchanged
<1>8. ASSUME \/ BridgeMoves \/ AgentDies \/ EngineBegins \/ HandshakeEnds
             \/ SendCancel \/ GraceElapses \/ PumpEof \/ GuardDrops \/ TellServe
             \/ VerifyReads \/ ReaderEnds \/ Accepts \/ TakeDone \/ Beat
             \/ GateAllows \/ GateCancels \/ Disarms \/ Writes \/ Joins
             \/ UserStops \/ KeeperWakes \/ KeeperWrites \/ AtRest
             \/ \E r \in Reasons : PumpStop(r)
      PROVE  SeqOK'
  BY <1>8 DEF BridgeMoves, AgentDies, TreeEnds, EngineBegins, HandshakeEnds,
     Prompts, PumpEnds, EngineUnchanged, SendCancel, GraceElapses, PumpEof,
     PumpStop, Reasons, GuardDrops, TellServe, VerifyReads, ReaderUnchanged,
     Cut, Failure, ReaderEnds, Accepts, Closes, SpineUnchanged, TakeDone,
     Beat, GateAllows, DispatchUnchanged, GateCancels, Disarms, Writes,
     Joins, UserStops, KeeperWakes, KeeperUnchanged, KeeperWrites, AtRest
<1> HIDE DEF Inv, TypeOK, SeqOK, vars, engineVars, spineVars, wireVars,
    beatVars, liveVars
<1> QED
  BY <1>1, <1>2, <1>3, <1>4, <1>5, <1>6, <1>7, <1>8
     DEF Next, Agent, Engine, Pump, Reader, Spine, SpineMoves, User, Keeper

\* Each action keeps the types of the flags.
LEMMA FlagStep == ASSUME Inv, Next PROVE FlagOK'
<1> USE CallsAssumption DEF Inv, TypeOK, FlagOK, vars, engineVars, spineVars,
    wireVars, beatVars, liveVars
<1>1. CASE AgentDies
  BY <1>1 DEF AgentDies, TreeEnds
<1>2. CASE EngineBegins
  BY <1>2 DEF EngineBegins
<1>3. CASE HandshakeEnds
  BY <1>3 DEF HandshakeEnds, Prompts, PumpEnds, EngineUnchanged
<1>4. CASE SendCancel
  BY <1>4 DEF SendCancel, EngineUnchanged
<1>5. CASE GraceElapses
  BY <1>5 DEF GraceElapses, PumpEnds, EngineUnchanged
<1>6. CASE PumpEof
  BY <1>6 DEF PumpEof, PumpEnds, EngineUnchanged
<1>7. ASSUME NEW r \in Reasons, PumpStop(r) PROVE FlagOK'
  BY <1>7 DEF PumpStop, Prompts, PumpEnds, EngineUnchanged, Reasons
<1>8. ASSUME NEW c \in Calls, PumpClose(c) PROVE FlagOK'
  BY <1>8 DEF PumpClose, Finalizes
<1>9. CASE EngineSettles
  BY <1>9 DEF EngineSettles, Finalizes, TreeEnds
<1>10. CASE GuardDrops
  BY <1>10 DEF GuardDrops
<1>11. CASE Accepts
  BY <1>11 DEF Accepts, Closes, SpineUnchanged
<1>12. CASE TakeFrame
  BY <1>12 DEF TakeFrame, SpineUnchanged
<1>13. CASE TakeDone
  BY <1>13 DEF TakeDone, Closes, SpineUnchanged
<1>14. CASE Beat
  BY <1>14 DEF Beat, Closes, SpineUnchanged
<1>15. CASE GateAllows
  BY <1>15 DEF GateAllows, DispatchUnchanged, SpineUnchanged
<1>16. CASE GateDenies
  BY <1>16 DEF GateDenies, DispatchUnchanged, SpineUnchanged, Records
<1>17. CASE GateCancels
  BY <1>17 DEF GateCancels, DispatchUnchanged, SpineUnchanged
<1>18. CASE Writes
  BY <1>18 DEF Writes, Closes, SpineUnchanged
<1>19. CASE UserStops
  BY <1>19 DEF UserStops
<1>20. ASSUME \/ BridgeMoves \/ TellServe \/ VerifyReads \/ ReaderEnds \/ RunEnds
              \/ Disarms \/ Joins \/ KeeperWakes \/ KeeperWrites \/ AtRest
              \/ \E c \in Gateway : AgentCalls(c)
              \/ \E c \in Calls : PumpOpen(c)
      PROVE  FlagOK'
  BY <1>20 DEF BridgeMoves, AgentCalls, PumpOpen, EngineUnchanged, TellServe,
     VerifyReads, ReaderUnchanged, Cut, Failure, ReaderEnds, RunEnds,
     DispatchUnchanged, SpineUnchanged, Records, Disarms, Joins, KeeperWakes,
     KeeperUnchanged, KeeperWrites, AtRest
<1> HIDE DEF Inv, TypeOK, FlagOK, vars, engineVars, spineVars, wireVars,
    beatVars, liveVars
<1> QED
  BY <1>1, <1>2, <1>3, <1>4, <1>5, <1>6, <1>7, <1>8, <1>9, <1>10,
     <1>11, <1>12, <1>13, <1>14, <1>15, <1>16, <1>17, <1>18, <1>19, <1>20
     DEF Next, Agent, Engine, Pump, Reader, Spine, SpineMoves, User, Keeper

\* Each action keeps the types; a completed event comes at most once.
LEMMA TypeStep == ASSUME Inv, Next PROVE TypeOK'
<1>0. SeqOK' /\ FlagOK'
  BY SeqStep, FlagStep
<1> USE CallsAssumption DEF Calls, Inv, TypeOK, vars, engineVars, spineVars,
    wireVars, beatVars, liveVars, Over
<1>1. CASE BridgeMoves
  BY <1>1, <1>0 DEF BridgeMoves
<1>2. ASSUME NEW c \in Gateway, AgentCalls(c) PROVE TypeOK'
  BY <1>2, <1>0 DEF AgentCalls
<1>3. CASE AgentDies
  BY <1>3, <1>0 DEF AgentDies, TreeEnds
<1>4. CASE EngineBegins
  BY <1>4, <1>0 DEF EngineBegins
<1>5. CASE HandshakeEnds
  BY <1>5, <1>0 DEF HandshakeEnds, Prompts, PumpEnds, EngineUnchanged
<1>6. CASE SendCancel
  BY <1>6, <1>0 DEF SendCancel, EngineUnchanged
<1>7. CASE GraceElapses
  BY <1>7, <1>0 DEF GraceElapses, PumpEnds, EngineUnchanged
<1>8. CASE PumpEof
  BY <1>8, <1>0 DEF PumpEof, PumpEnds, EngineUnchanged
<1>9. ASSUME NEW r \in Reasons, PumpStop(r) PROVE TypeOK'
  BY <1>9, <1>0 DEF PumpStop, Prompts, PumpEnds, EngineUnchanged, Reasons
<1>10. ASSUME NEW c \in Calls, PumpOpen(c) PROVE TypeOK'
  BY <1>10, <1>0 DEF PumpOpen, EngineUnchanged
<1>11. ASSUME NEW c \in Calls, PumpClose(c) PROVE TypeOK'
  <2>1. \A d \in Native \cap {c} : completed[d] = 0
    BY <1>11, CloseFacts DEF RowsInv, NativeInv
  <2>2. completed' \in [Calls -> 0..1] /\ running' \subseteq Calls
    BY <1>11, <2>1, CloseFacts
  <2> QED
    BY <1>11, <2>2, <1>0 DEF PumpClose
<1>12. CASE EngineSettles
  <2>1. \A d \in Native \cap Range(pending) : completed[d] = 0
    BY <1>12, SettleFacts DEF RowsInv, NativeInv
  <2>2. completed' \in [Calls -> 0..1] /\ running' \subseteq Calls
    BY <1>12, <2>1, SettleFacts
  <2> QED
    BY <1>12, <2>2, <1>0 DEF EngineSettles, TreeEnds
<1>13. CASE VerifyReads
  BY <1>13, <1>0 DEF VerifyReads, ReaderUnchanged, Cut, Failure
<1>14. CASE ReaderEnds
  BY <1>14, <1>0 DEF ReaderEnds, ReaderUnchanged, Cut, Failure
<1>15. CASE Accepts
  BY <1>15, <1>0 DEF Accepts, Closes, SpineUnchanged
<1>16. CASE TakeFrame
  <2>1. call' \in Gateway /\ running' \subseteq Calls
    BY <1>16, TakeFacts DEF TakeFrame
  <2> QED
    BY <1>16, <2>1, <1>0 DEF TakeFrame, SpineUnchanged
<1>17. CASE TakeDone
  BY <1>17, <1>0 DEF TakeDone, Closes, SpineUnchanged
<1>18. CASE Beat
  BY <1>18, <1>0 DEF Beat, Closes, SpineUnchanged
<1>19. CASE GateAllows
  <2>1. running' \subseteq Calls
    BY <1>19 DEF GateAllows, GatewayInv
  <2> QED
    BY <1>19, <2>1, <1>0 DEF GateAllows, DispatchUnchanged, SpineUnchanged
<1>20. CASE GateDenies
  <2>1. completed' \in [Calls -> 0..1] /\ running' \subseteq Calls
    BY <1>20, RecordFacts DEF GateDenies
  <2> QED
    BY <1>20, <2>1, <1>0 DEF GateDenies, DispatchUnchanged, SpineUnchanged
<1>21. CASE GateCancels
  BY <1>21, <1>0 DEF GateCancels, DispatchUnchanged, SpineUnchanged
<1>22. CASE RunEnds
  <2>1. completed' \in [Calls -> 0..1] /\ running' \subseteq Calls
    BY <1>22, RecordFacts DEF RunEnds
  <2> QED
    BY <1>22, <2>1, <1>0 DEF RunEnds, DispatchUnchanged, SpineUnchanged
<1>23. CASE Writes
  BY <1>23, <1>0 DEF Writes, Closes, SpineUnchanged
<1>24. CASE Joins
  BY <1>24, <1>0 DEF Joins, JoinInv
<1>25. CASE UserStops
  BY <1>25, <1>0 DEF UserStops
<1>26. CASE KeeperWrites
  BY <1>26, <1>0 DEF KeeperWrites, KeeperUnchanged
<1>27. ASSUME \/ GuardDrops \/ TellServe \/ Disarms \/ KeeperWakes \/ AtRest
      PROVE  TypeOK'
  BY <1>27, <1>0 DEF GuardDrops, TellServe, Disarms, SpineUnchanged,
     KeeperWakes, KeeperUnchanged, AtRest
<1> HIDE DEF Calls, Inv, TypeOK, vars, engineVars, spineVars, wireVars,
    beatVars, liveVars, Over
<1> QED
  BY <1>1, <1>2, <1>3, <1>4, <1>5, <1>6, <1>7, <1>8, <1>9, <1>10,
     <1>11, <1>12, <1>13, <1>14, <1>15, <1>16, <1>17, <1>18, <1>19, <1>20,
     <1>21, <1>22, <1>23, <1>24, <1>25, <1>26, <1>27
     DEF Next, Agent, Engine, Pump, Reader, Spine, SpineMoves, User, Keeper

----------------------------------------------------------------------------
LEMMA Inductive == Spec => []Inv
<1>1. Inv /\ [Next]_vars => Inv'
  <2> SUFFICES ASSUME Inv, [Next]_vars PROVE Inv'
    OBVIOUS
  <2>1. CASE Next
    BY <2>1, TypeStep, FunnelStep, SocketStep, GatewayStep, RowsStep,
       NativeStep, JoinStep DEF Inv
  <2>2. CASE UNCHANGED vars
    BY <2>2 DEF vars, engineVars, spineVars, wireVars, beatVars, liveVars, Inv,
       TypeOK, SeqOK, FlagOK, FunnelInv, SocketInv, GatewayInv, RowsInv, NativeInv, JoinInv
  <2> QED
    BY <2>1, <2>2
<1> QED
  BY InitInv, <1>1, PTL DEF Spec

(* The state of the external turn keeps its types: in particular no call's *)
(* completed event is emitted twice.                                       *)
THEOREM TypeCorrect == Spec => []TypeOK
<1>1. Inv => TypeOK
  BY DEF Inv
<1> QED
  BY Inductive, <1>1, PTL

(* No progress frame of a call follows its response on the wire            *)
(* (runtime/gateway/server.rs, the keep-alive companion).                  *)
THEOREM AnswerIsLastHolds == Spec => []AnswerIsLast
<1>1. Inv => AnswerIsLast
  BY CallsAssumption DEF Inv, TypeOK, FunnelInv, AnswerIsLast, Answered, Calls
<1> QED
  BY Inductive, <1>1, PTL

(* What the live rail has completed is what the two sides have rows of.    *)
THEOREM RailShowsRowsHolds == Spec => []RailShowsRows
<1>1. Inv => RailShowsRows
  <2> SUFFICES ASSUME Inv PROVE RailShowsRows
    OBVIOUS
  <2>1. ASSUME NEW c \in Calls
        PROVE  completed[c] =
                 IF c \in Range(IF c \in Native THEN rows ELSE gtrace) THEN 1 ELSE 0
    BY DEF Inv, GatewayInv, NativeInv, Calls
  <2>2. ASSUME outcome # "none" PROVE running = {}
    BY <2>2, RangeEmpty DEF Inv, TypeOK, GatewayInv, RowsInv, NativeInv, JoinInv, Calls
  <2> QED
    BY <2>1, <2>2 DEF Inv, GatewayInv, RowsInv, RailShowsRows
<1> QED
  BY Inductive, <1>1, PTL

----------------------------------------------------------------------------
(***************************************************************************)
(* The merge of the rows of either side                                    *)
(***************************************************************************)
\* The agent's own tools and the gateway's have different names.
NamesApart == \A n \in Native, g \in Gateway : Name[n] # Name[g]

\* The rows of a merged trace.
Merging == [call : Calls, by : {"engine", "gateway"}]

\* The calls of the engine's first n rows.
Seen(n) == {rows[i] : i \in 1..n}

\* After n rows of the engine, a gateway row is left over or has landed, never
\* both, and the agent's own calls have landed as far as they have been seen.
MergeInv(acc, n) ==
  /\ acc \in [left : Seq(Gateway), out : Seq(Merging)]
  /\ IsInjective(acc.left) /\ IsInjective(acc.out)
  /\ Range(acc.left) \subseteq Range(gtrace)
  /\ \A g \in Gateway :
       GatewayRow(g) \in Range(acc.out) <=> g \in Range(gtrace) \ Range(acc.left)
  /\ \A c \in Calls : EngineRow(c) \in Range(acc.out) => c \in Seen(n)
  /\ \A c \in Native \cap Seen(n) : EngineRow(c) \in Range(acc.out)

\* A set of naturals that has 0 and every successor has all.
LEMMA SetInduction ==
  ASSUME NEW T \in SUBSET Nat, 0 \in T, \A n \in T : n + 1 \in T
  PROVE  T = Nat
<1>1. SUFFICES ASSUME Nat \ T # {} PROVE FALSE
  OBVIOUS
<1> DEFINE R == OpToRel(<, Nat)
<1>2. IsWellFoundedOn(R, Nat)
  BY NatLessThanWellFounded
<1>3. \A x, y \in Nat : x < y => <<x, y>> \in R
  BY Zenon DEF OpToRel
<1> HIDE DEF R
<1>4. PICK x \in Nat \ T : \A y \in Nat \ T : <<y, x>> \notin R
  <2>1. Nat \ T \subseteq Nat
    OBVIOUS
  <2> QED
    BY <1>1, <1>2, <2>1, WFMin, Zenon
<1>5. x # 0 /\ x - 1 \in Nat /\ x - 1 < x
  BY <1>4
<1>6. x - 1 \in T
  BY <1>3, <1>4, <1>5
<1> QED
  BY <1>4, <1>5, <1>6

\* The rows of a call are told apart by the side that they come from.
LEMMA RowsApart ==
  /\ \A c, d : EngineRow(c) = EngineRow(d) <=> c = d
  /\ \A c, d : GatewayRow(c) = GatewayRow(d) <=> c = d
  /\ \A c, d : EngineRow(c) # GatewayRow(d)
  /\ \A c \in Calls : EngineRow(c) \in Merging /\ GatewayRow(c) \in Merging
<1>1. \A c, d : EngineRow(c) = EngineRow(d) <=> c = d
  <2>1. \A c : EngineRow(c).call = c
    BY DEF EngineRow
  <2> QED
    BY <2>1
<1>2. \A c, d : GatewayRow(c) = GatewayRow(d) <=> c = d
  <2>1. \A c : GatewayRow(c).call = c
    BY DEF GatewayRow
  <2> QED
    BY <2>1
<1>3. \A c, d : EngineRow(c) # GatewayRow(d)
  <2>1. \A c : EngineRow(c).by = "engine" /\ GatewayRow(c).by = "gateway"
    BY DEF EngineRow, GatewayRow
  <2> QED
    BY <2>1
<1>4. \A c \in Calls : EngineRow(c) \in Merging /\ GatewayRow(c) \in Merging
  BY DEF EngineRow, GatewayRow, Merging
<1> QED
  BY <1>1, <1>2, <1>3, <1>4

\* A nonempty set of positions has a least one.
LEMMA QueuedFirst ==
  ASSUME NEW left \in Seq(Gateway), NEW c, Queued(left, c) # {}
  PROVE  /\ Min(Queued(left, c)) \in DOMAIN left
         /\ Name[left[Min(Queued(left, c))]] = Name[c]
<1> DEFINE Q == Queued(left, c)
<1>1. Q \subseteq Nat /\ Q # {}
  BY DEF Queued
<1>2. \E x \in Q : \A y \in Q : x =< y
  <2> DEFINE R == OpToRel(<, Nat)
  <2>1. IsWellFoundedOn(R, Nat)
    BY NatLessThanWellFounded
  <2>2. \A x, y \in Nat : x < y => <<x, y>> \in R
    BY Zenon DEF OpToRel
  <2> HIDE DEF R, Q
  <2>3. PICK x \in Q : \A y \in Q : <<y, x>> \notin R
    BY <1>1, <2>1, WFMin, Zenon
  <2>4. ASSUME NEW y \in Q PROVE x =< y
    <3>1. x \in Nat /\ y \in Nat
      BY <1>1
    <3>2. ~(y < x)
      BY <2>2, <2>3, <3>1, Zenon
    <3> QED
      BY <3>1, <3>2
  <2> QED
    BY <2>4
<1>3. Min(Q) \in Q
  BY <1>2, Zenon DEF Min
<1> QED
  BY <1>3 DEF Queued

\* An engine row of a call takes its place, or gives it to a gateway row.
LEMMA PairStep ==
  ASSUME NamesApart, gtrace \in Seq(Gateway), rows \in Seq(Calls), IsInjective(rows),
         NEW n \in Nat, n + 1 \in DOMAIN rows, NEW acc, MergeInv(acc, n)
  PROVE  MergeInv(Pair(acc, rows[n + 1]), n + 1)
<1> DEFINE c == rows[n + 1]
           next == Pair(acc, c)
<1> SUFFICES MergeInv(next, n + 1)
  OBVIOUS
<1>1. c \in Calls /\ c \notin Seen(n) /\ Seen(n + 1) = Seen(n) \cup {c}
  <2>1. \A i \in 1..n : i \in DOMAIN rows /\ i # n + 1
    OBVIOUS
  <2>2. \A i : i \in 1..(n + 1) <=> i \in 1..n \/ i = n + 1
    OBVIOUS
  <2> QED
    BY <2>1, <2>2 DEF Seen, IsInjective
<1>2. /\ acc.left \in Seq(Gateway) /\ acc.out \in Seq(Merging)
      /\ IsInjective(acc.left) /\ IsInjective(acc.out)
      /\ acc = [left |-> acc.left, out |-> acc.out]
  BY DEF MergeInv
<1> HIDE DEF c
<1>3. CASE Queued(acc.left, c) = {}
  <2>1. next = [left |-> acc.left, out |-> Append(acc.out, EngineRow(c))]
    BY <1>2, <1>3 DEF Pair
  <2>2. EngineRow(c) \in Merging /\ EngineRow(c) \notin Range(acc.out)
    BY <1>1, RowsApart DEF MergeInv
  <2>3. /\ Append(acc.out, EngineRow(c)) \in Seq(Merging)
        /\ Range(Append(acc.out, EngineRow(c))) = Range(acc.out) \cup {EngineRow(c)}
        /\ IsInjective(Append(acc.out, EngineRow(c)))
    BY <1>2, <2>2, AppendFacts
  <2>4. /\ next \in [left : Seq(Gateway), out : Seq(Merging)] /\ next.left = acc.left
        /\ next.out = Append(acc.out, EngineRow(c))
    BY <1>2, <2>1, <2>3
  <2> HIDE DEF next
  <2>5. IsInjective(next.left) /\ IsInjective(next.out) /\ Range(next.left) \subseteq Range(gtrace)
    BY <1>2, <2>3, <2>4 DEF MergeInv
  <2>6. \A h \in Gateway :
          GatewayRow(h) \in Range(next.out) <=> h \in Range(gtrace) \ Range(next.left)
    BY <2>3, <2>4, RowsApart DEF MergeInv
  <2>7. /\ \A d \in Calls : EngineRow(d) \in Range(next.out) => d \in Seen(n + 1)
        /\ \A d \in Native \cap Seen(n + 1) : EngineRow(d) \in Range(next.out)
    BY <1>1, <2>3, <2>4, RowsApart DEF MergeInv
  <2> QED
    BY <2>4, <2>5, <2>6, <2>7, Zenon DEF MergeInv
<1>4. CASE Queued(acc.left, c) # {}
  <2> DEFINE i == Min(Queued(acc.left, c))
             g == acc.left[i]
  <2>1. i \in DOMAIN acc.left /\ Name[g] = Name[c]
    BY <1>2, <1>4, QueuedFirst
  <2>2. next = [left |-> RemoveAt(acc.left, i), out |-> Append(acc.out, GatewayRow(g))]
    BY <1>4 DEF Pair
  <2> HIDE DEF i
  <2>3. g \in Gateway /\ g \in Range(acc.left)
    BY <1>2, <2>1 DEF Range
  <2>4. c \notin Native
    BY <2>1, <2>3 DEF NamesApart
  <2>5. /\ RemoveAt(acc.left, i) \in Seq(Gateway) /\ IsInjective(RemoveAt(acc.left, i))
        /\ Range(RemoveAt(acc.left, i)) = Range(acc.left) \ {g}
    BY <1>2, <2>1, RemoveFacts
  <2>6. g \in Range(gtrace) /\ GatewayRow(g) \notin Range(acc.out) /\ GatewayRow(g) \in Merging
    BY <2>3, RowsApart DEF MergeInv, Calls
  <2>7. /\ Append(acc.out, GatewayRow(g)) \in Seq(Merging)
        /\ Range(Append(acc.out, GatewayRow(g))) = Range(acc.out) \cup {GatewayRow(g)}
        /\ IsInjective(Append(acc.out, GatewayRow(g)))
    BY <1>2, <2>6, AppendFacts
  <2>8. /\ next \in [left : Seq(Gateway), out : Seq(Merging)]
        /\ next.left = RemoveAt(acc.left, i) /\ next.out = Append(acc.out, GatewayRow(g))
    BY <2>2, <2>5, <2>7
  <2> HIDE DEF next, g
  <2>9. \A h \in Gateway :
          GatewayRow(h) \in Range(next.out) <=> h \in Range(gtrace) \ Range(next.left)
    BY <2>5, <2>6, <2>7, <2>8, RowsApart DEF MergeInv
  <2>10. /\ \A d \in Calls : EngineRow(d) \in Range(next.out) => d \in Seen(n + 1)
         /\ \A d \in Native \cap Seen(n + 1) : EngineRow(d) \in Range(next.out)
    BY <1>1, <2>4, <2>7, <2>8, RowsApart DEF MergeInv
  <2>11. IsInjective(next.left) /\ IsInjective(next.out) /\ Range(next.left) \subseteq Range(gtrace)
    BY <2>5, <2>7, <2>8 DEF MergeInv
  <2> QED
    BY <2>8, <2>9, <2>10, <2>11, Zenon DEF MergeInv
<1> QED
  BY <1>3, <1>4

\* The engine's rows are paired one after the other.
PairsFrom(p, m) ==
  p = [n \in 0..m |-> IF n = 0 THEN [left |-> gtrace, out |-> <<>>] ELSE Pair(p[n - 1], rows[n])]

\* Such pairs exist: the recursive definition in Merged has a value.
LEMMA PairsExist ==
  ASSUME NEW m \in Nat
  PROVE  \E p : PairsFrom(p, m)
<1> DEFINE start == [left |-> gtrace, out |-> <<>>]
           T == {k \in Nat : \E p : PairsFrom(p, k)}
<1>1. 0 \in T
  <2> DEFINE p == [n \in 0..0 |-> start]
  <2>1. p = [n \in 0..0 |-> IF n = 0 THEN start ELSE Pair(p[n - 1], rows[n])]
    OBVIOUS
  <2> QED
    BY <2>1 DEF PairsFrom
<1>2. ASSUME NEW k \in T PROVE k + 1 \in T
  <2>1. PICK p : PairsFrom(p, k)
    OBVIOUS
  <2> DEFINE q == [n \in 0..(k + 1) |-> IF n = k + 1 THEN Pair(p[k], rows[k + 1]) ELSE p[n]]
  <2>2. k \in Nat
    OBVIOUS
  <2>3. \A n \in 0..k : p[n] = IF n = 0 THEN start ELSE Pair(p[n - 1], rows[n])
    BY <2>1 DEF PairsFrom
  <2> HIDE DEF start
  <2>4. \A n \in 0..(k + 1) : q[n] = IF n = 0 THEN start ELSE Pair(q[n - 1], rows[n])
    <3> SUFFICES ASSUME NEW n \in 0..(k + 1)
                 PROVE  q[n] = IF n = 0 THEN start ELSE Pair(q[n - 1], rows[n])
      OBVIOUS
    <3>1. CASE n = k + 1
      <4>1. n - 1 = k /\ k \in 0..(k + 1) /\ k # k + 1 /\ n # 0
        BY <2>2, <3>1
      <4>2. q[n] = Pair(p[k], rows[k + 1]) /\ q[k] = p[k]
        BY <3>1, <4>1
      <4> QED
        BY <3>1, <4>1, <4>2
    <3>2. CASE n # k + 1
      <4>1. n \in 0..k /\ (n # 0 => n - 1 \in 0..(k + 1) /\ n - 1 # k + 1)
        BY <2>2, <3>2
      <4>2. q[n] = p[n] /\ (n # 0 => q[n - 1] = p[n - 1])
        BY <3>2, <4>1
      <4> QED
        BY <2>3, <4>1, <4>2
    <3> QED
      BY <3>1, <3>2
  <2>5. q = [n \in 0..(k + 1) |-> q[n]]
    OBVIOUS
  <2> HIDE DEF q
  <2>6. q = [n \in 0..(k + 1) |-> IF n = 0 THEN start ELSE Pair(q[n - 1], rows[n])]
    BY <2>4, <2>5
  <2>7. PairsFrom(q, k + 1)
    BY <2>6 DEF PairsFrom, start
  <2> QED
    BY <2>2, <2>7
<1> HIDE DEF T
<1>3. T = Nat
  <2>1. T \in SUBSET Nat
    BY DEF T
  <2> QED
    BY <1>1, <1>2, <2>1, SetInduction
<1> QED
  BY <1>3 DEF T

\* Those that Merged reads are among them.
LEMMA MergedChosen ==
  ASSUME Len(rows) \in Nat
  PROVE  \E p : /\ PairsFrom(p, Len(rows))
                /\ LET last == p[Len(rows)]
                   IN Merged = last.out \o [i \in DOMAIN last.left |-> GatewayRow(last.left[i])]
<1> DEFINE p == CHOOSE p : p = [n \in 0..Len(rows) |->
                   IF n = 0 THEN [left |-> gtrace, out |-> <<>>] ELSE Pair(p[n - 1], rows[n])]
<1>1. \E q : q = [n \in 0..Len(rows) |->
                   IF n = 0 THEN [left |-> gtrace, out |-> <<>>] ELSE Pair(q[n - 1], rows[n])]
  BY PairsExist DEF PairsFrom
<1>2. p = [n \in 0..Len(rows) |->
             IF n = 0 THEN [left |-> gtrace, out |-> <<>>] ELSE Pair(p[n - 1], rows[n])]
  BY <1>1, Zenon
<1>3. Merged = p[Len(rows)].out \o [i \in DOMAIN p[Len(rows)].left |-> GatewayRow(p[Len(rows)].left[i])]
  BY Zenon DEF Merged
<1>4. PairsFrom(p, Len(rows))
  BY <1>2, Zenon DEF PairsFrom
<1> HIDE DEF p
<1> QED
  BY <1>3, <1>4

\* Each of them keeps the invariant of the merge.
LEMMA PairsKeep ==
  ASSUME NamesApart, gtrace \in Seq(Gateway), rows \in Seq(Calls), IsInjective(rows),
         IsInjective(gtrace), NEW p, PairsFrom(p, Len(rows))
  PROVE  MergeInv(p[Len(rows)], Len(rows))
<1> DEFINE T == {n \in Nat : n <= Len(rows) => MergeInv(p[n], n)}
<1>1. Len(rows) \in Nat /\ DOMAIN rows = 1..Len(rows)
  OBVIOUS
<1>2. \A n \in 0..Len(rows) :
        p[n] = IF n = 0 THEN [left |-> gtrace, out |-> <<>>] ELSE Pair(p[n - 1], rows[n])
  BY DEF PairsFrom
<1>3. 0 \in T
  <2>1. p[0] = [left |-> gtrace, out |-> <<>>]
    BY <1>1, <1>2
  <2>2. p[0] \in [left : Seq(Gateway), out : Seq(Merging)] /\ p[0].left = gtrace /\ p[0].out = <<>>
    BY <2>1
  <2>3. Range(p[0].out) = {} /\ IsInjective(p[0].out) /\ IsInjective(p[0].left)
    BY <2>2, RangeEmpty
  <2>4. Seen(0) = {}
    BY DEF Seen
  <2>5. MergeInv(p[0], 0)
    BY <2>2, <2>3, <2>4, Zenon DEF MergeInv
  <2> QED
    BY <2>5
<1>4. ASSUME NEW n \in T PROVE n + 1 \in T
  <2>1. SUFFICES ASSUME n + 1 <= Len(rows) PROVE MergeInv(p[n + 1], n + 1)
    OBVIOUS
  <2>2. n \in Nat /\ n + 1 \in DOMAIN rows /\ MergeInv(p[n], n)
    BY <1>1, <2>1
  <2>3. p[n + 1] = Pair(p[n], rows[n + 1])
    <3>1. n + 1 \in 0..Len(rows) /\ n + 1 # 0 /\ (n + 1) - 1 = n
      BY <1>1, <2>2
    <3> QED
      BY <1>2, <3>1
  <2>4. MergeInv(Pair(p[n], rows[n + 1]), n + 1)
    BY <2>2, PairStep
  <2> QED
    BY <2>3, <2>4
<1> HIDE DEF T
<1>5. T = Nat
  <2>1. T \in SUBSET Nat
    BY DEF T
  <2> QED
    BY <1>3, <1>4, <2>1, SetInduction
<1> QED
  BY <1>1, <1>5 DEF T

\* The gateway's rows that no engine row gave way to are still single.
LEMMA LeftOver ==
  ASSUME NEW left \in Seq(Gateway), IsInjective(left),
         NEW u, u = [i \in DOMAIN left |-> GatewayRow(left[i])]
  PROVE  /\ u \in Seq(Merging) /\ IsInjective(u)
         /\ \A x : x \in Range(u) <=> \E g \in Range(left) : x = GatewayRow(g)
<1>1. DOMAIN left = 1..Len(left) /\ Len(left) \in Nat /\ DOMAIN u = DOMAIN left
      /\ \A i \in DOMAIN left : left[i] \in Gateway /\ u[i] = GatewayRow(left[i])
  OBVIOUS
<1>2. \A i \in DOMAIN left : u[i] \in Merging
  BY <1>1, RowsApart DEF Calls
<1>3. u \in Seq(Merging)
  BY <1>1, <1>2
<1>4. IsInjective(u)
  BY <1>1, RowsApart DEF IsInjective
<1>5. \A x : x \in Range(u) <=> \E g \in Range(left) : x = GatewayRow(g)
  BY <1>1 DEF Range
<1> QED
  BY <1>3, <1>4, <1>5

\* What single rows add up to.
LEMMA RowsCounted ==
  ASSUME NEW s, IsInjective(s), NEW x
  PROVE  Cardinality({i \in DOMAIN s : s[i] = x}) = IF x \in Range(s) THEN 1 ELSE 0
<1>1. CASE x \in Range(s)
  <2>1. PICK i \in DOMAIN s : s[i] = x
    BY <1>1 DEF Range
  <2>2. {j \in DOMAIN s : s[j] = x} = {i}
    BY <2>1 DEF IsInjective
  <2> QED
    BY <1>1, <2>2, FS_Singleton
<1>2. CASE x \notin Range(s)
  <2>1. {j \in DOMAIN s : s[j] = x} = {}
    BY <1>2 DEF Range
  <2> QED
    BY <1>2, <2>1, FS_EmptySet
<1> QED
  BY <1>1, <1>2

\* The merged trace has one row of each call that either side shows, and it is
\* the row of that side.
LEMMA MergedRows ==
  ASSUME NamesApart, gtrace \in Seq(Gateway), rows \in Seq(Calls), IsInjective(rows),
         IsInjective(gtrace)
  PROVE  /\ IsInjective(Merged)
         /\ \A g \in Gateway : GatewayRow(g) \in Range(Merged) <=> g \in Range(gtrace)
         /\ \A c \in Native : EngineRow(c) \in Range(Merged) <=> c \in Range(rows)
<1>1. Len(rows) \in Nat /\ Seen(Len(rows)) = Range(rows)
  BY DEF Seen, Range
<1>2. PICK p : /\ PairsFrom(p, Len(rows))
               /\ LET last == p[Len(rows)]
                  IN Merged = last.out \o [i \in DOMAIN last.left |-> GatewayRow(last.left[i])]
  BY <1>1, MergedChosen
<1> DEFINE last == p[Len(rows)]
           u == [i \in DOMAIN last.left |-> GatewayRow(last.left[i])]
<1>3. MergeInv(last, Len(rows))
  BY <1>2, PairsKeep
<1>4. Merged = last.out \o u
  BY <1>2
<1> HIDE DEF last
<1>5. /\ last.left \in Seq(Gateway) /\ last.out \in Seq(Merging)
      /\ IsInjective(last.left) /\ IsInjective(last.out)
      /\ Range(last.left) \subseteq Range(gtrace)
  BY <1>3 DEF MergeInv
<1>6. /\ u \in Seq(Merging) /\ IsInjective(u)
      /\ \A x : x \in Range(u) <=> \E g \in Range(last.left) : x = GatewayRow(g)
  BY <1>5, LeftOver
<1> HIDE DEF u
<1>7. Range(last.left) \subseteq Gateway
  BY <1>5, RangeMember
<1>8. Range(last.out) \cap Range(u) = {}
  BY <1>3, <1>6, <1>7 DEF MergeInv
<1>9. IsInjective(Merged) /\ Range(Merged) = Range(last.out) \cup Range(u)
  BY <1>4, <1>5, <1>6, <1>8, ConcatFacts
<1>10. \A g \in Gateway : GatewayRow(g) \in Range(Merged) <=> g \in Range(gtrace)
  BY <1>3, <1>5, <1>6, <1>9, RowsApart DEF MergeInv
<1>11. \A c \in Native : EngineRow(c) \in Range(Merged) <=> c \in Range(rows)
  BY <1>1, <1>3, <1>6, <1>9, RowsApart DEF MergeInv, Calls
<1> QED
  BY <1>9, <1>10, <1>11

(* When the names of the agent's own tools and of the gateway's differ,    *)
(* the settled trace has each call that the live rail showed as completed  *)
(* exactly once, on the side that showed it, and nothing is left running   *)
(* (session/outcome_merge.rs, merge_outcomes).                             *)
THEOREM LiveMatchesSettledHolds ==
  ASSUME NamesApart PROVE Spec => []LiveMatchesSettled
<1>1. Inv => LiveMatchesSettled
  <2> SUFFICES ASSUME Inv PROVE LiveMatchesSettled
    OBVIOUS
  <2>1. ASSUME outcome # "none" PROVE running = {}
    BY <2>1, RangeEmpty DEF Inv, TypeOK, GatewayInv, RowsInv, NativeInv, JoinInv, Calls
  <2>2. /\ rows \in Seq(Calls) /\ gtrace \in Seq(Gateway)
        /\ IsInjective(rows) /\ IsInjective(gtrace)
    BY DEF Inv, TypeOK, SeqOK, RowsInv, GatewayInv
  <2>3. /\ IsInjective(Merged)
        /\ \A g \in Gateway : GatewayRow(g) \in Range(Merged) <=> g \in Range(gtrace)
        /\ \A c \in Native : EngineRow(c) \in Range(Merged) <=> c \in Range(rows)
    BY <2>2, MergedRows
  <2>4. ASSUME ~broken, NEW c \in Calls
        PROVE  completed[c] = Cardinality({i \in DOMAIN settled : settled[i] =
                                IF c \in Native THEN EngineRow(c) ELSE GatewayRow(c)})
    <3> DEFINE x == IF c \in Native THEN EngineRow(c) ELSE GatewayRow(c)
    <3>1. settled = Merged
      BY <2>4 DEF settled
    <3>2. Cardinality({i \in DOMAIN Merged : Merged[i] = x}) = IF x \in Range(Merged) THEN 1 ELSE 0
      <4> HIDE DEF x
      <4> QED
        BY <2>3, RowsCounted
    <3>3. completed[c] = IF x \in Range(Merged) THEN 1 ELSE 0
      <4>1. CASE c \in Native
        BY <2>3, <4>1 DEF Inv, NativeInv
      <4>2. CASE c \notin Native
        <5>1. c \in Gateway
          BY <4>2 DEF Calls
        <5> QED
          BY <2>3, <4>2, <5>1 DEF Inv, GatewayInv
      <4> QED
        BY <4>1, <4>2
    <3> HIDE DEF x
    <3>4. completed[c] = Cardinality({i \in DOMAIN settled : settled[i] = x})
      BY <3>1, <3>2, <3>3
    <3> QED
      BY <3>4 DEF x
  <2> QED
    BY <2>1, <2>4 DEF LiveMatchesSettled
<1> QED
  BY Inductive, <1>1, PTL
=============================================================================
