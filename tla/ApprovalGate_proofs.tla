------------------------ MODULE ApprovalGate_proofs -------------------------
(***************************************************************************)
(* Proofs about ApprovalGate, for any sets of tools, calls, stops and      *)
(* resets: the accepted answer is honoured, no call runs without consent,  *)
(* and no call is cancelled without a cause of its own.                    *)
(***************************************************************************)
EXTENDS ApprovalGate, TLAPS

Opening == {"disarming", "disarmed", "installing", "announcing"}
Listed == {"announcing", "waiting", "taking"}

\* The slot is the parked call's while it is listed, and holds nothing else.
SlotInv ==
    /\ slot = IF pc \in Listed THEN at ELSE NoCall
    /\ pc \notin {"waiting", "taking"} => answer = "none"

\* The gate's locals say nothing before the wait ends, and agree with the slot
\* and with the answer that respond accepted after it.
AnswerInv ==
    /\ pc \in Opening \cup {"idle", "waiting"} => heard = "none" /\ taken = "none"
    /\ pc = "waiting" => accepted[at] = answer
    /\ pc = "taking" => /\ taken = "none" /\ accepted[at] = answer
                        /\ heard \in {"none", answer}
    /\ pc \in {"settling", "trusting"} => /\ accepted[at] = taken
                                          /\ heard \in {"none", taken}
    /\ pc = "trusting" => taken = "AlwaysAllow"

\* The card of the parked call is shown from its announcement to its settling;
\* a call that has not reached its gate has none.
CardInv ==
    /\ \A c \in Calls : outcome[c] = "none" /\ (c # at \/ pc \in Opening) =>
          card[c] = "none" /\ accepted[c] = "none"
    /\ at # NoCall => outcome[at] = "none"
    /\ pc \in {"waiting", "taking", "settling"} => card[at] = "shown"
    /\ pc = "trusting" => card[at] = "AlwaysAllow"

\* A trusted tool is trusted for an earlier answer.
TrustInv ==
    \A t \in trust : \E d \in Calls :
        tool[d] = t /\ accepted[d] = "AlwaysAllow" /\ outcome[d] # "none"

\* A latch that this gate may still read was raised while it was open.
LatchInv ==
    /\ pc \notin {"idle", "disarming"} /\ interrupted => at \in woken
    /\ pc \notin {"idle", "disarming", "disarmed"} /\ abandoned => at \in woken
    /\ pc \in {"taking", "settling"} /\ heard = "none" =>
          requested \/ at \in woken

Inv ==
    /\ TypeOK /\ SlotInv /\ AnswerInv /\ CardInv
    /\ TrustInv /\ LatchInv /\ AnswerHonoured

\* Each action keeps the types.
LEMMA TypeStep == ASSUME Inv, Next PROVE TypeOK'
<1> USE NoCallAssumption
    DEF Inv, Goto, policy, pending, latches, gate, calls, echoes, TypeOK,
    Modes, Responses, Actors, Verdict
<1>1. ASSUME NEW c \in Calls, Enter(c) PROVE TypeOK'
  BY <1>1 DEF Enter
<1>2. CASE ClearInterrupted
  <2>1. interrupted' \in BOOLEAN
    BY <1>2, Zenon DEF ClearInterrupted
  <2> QED
    BY <1>2, <2>1 DEF ClearInterrupted
<1>3. CASE ClearAbandoned
  <2>1. abandoned' \in BOOLEAN
    BY <1>3, Zenon DEF ClearAbandoned
  <2> QED
    BY <1>3, <2>1 DEF ClearAbandoned
<1>4. CASE Install
  BY <1>4 DEF Install
<1>5. CASE EmitRequest
  BY <1>5 DEF EmitRequest
<1>6. CASE HearAnswer
  BY <1>6 DEF HearAnswer
<1>7. CASE HearStop
  BY <1>7 DEF HearStop
<1>8. CASE TakeSlot
  BY <1>8 DEF TakeSlot
<1>9. CASE SettleAnswered
  BY <1>9 DEF SettleAnswered, Leave, Verdict, Landed
<1>10. CASE SettleUnanswered
  BY <1>10 DEF SettleUnanswered, Leave, Landed
<1>11. CASE Escalate
  BY <1>11 DEF Escalate, Leave
<1>12. CASE EndTurn
  <2>1. requested' \in BOOLEAN
    BY <1>12, Zenon DEF EndTurn
  <2> QED
    BY <1>12, <2>1 DEF EndTurn
<1>13. ASSUME NEW c \in Calls, NEW r \in Responses, Respond(c, r)
      PROVE  TypeOK'
  BY <1>13 DEF Respond
<1>14. ASSUME NEW m \in Modes, SetAuthMode(m) PROVE TypeOK'
  BY <1>14 DEF SetAuthMode
<1>15. ASSUME NEW t \in Tools, Revoke(t) PROVE TypeOK'
  BY <1>15 DEF Revoke
<1>16. ASSUME NEW x \in Stops, StopRequest(x) PROVE TypeOK'
  BY <1>16 DEF StopRequest
<1>17. ASSUME NEW z \in Resets, ResetPolicy(z) PROVE TypeOK'
  BY <1>17 DEF ResetPolicy
<1>18. ASSUME NEW a \in Actors, InterruptPending(a) PROVE TypeOK'
  BY <1>18 DEF InterruptPending, Wake
<1>19. ASSUME NEW c \in Calls, EchoMatch(c) PROVE TypeOK'
  BY <1>19 DEF EchoMatch
<1>20. CASE AbandonPending
  BY <1>20 DEF AbandonPending, Wake
<1> QED
  BY <1>1, <1>2, <1>3, <1>4, <1>5, <1>6, <1>7, <1>8, <1>9, <1>10, <1>11,
     <1>12, <1>13, <1>14, <1>15, <1>16, <1>17, <1>18, <1>19, <1>20
     DEF Next, GateStep, Commands

\* The slot is filled after the latches are cleared and emptied by its own gate.
LEMMA SlotStep == ASSUME Inv, Next PROVE SlotInv'
<1> USE NoCallAssumption
    DEF Inv, Goto, policy, pending, latches, gate, calls, echoes, TypeOK,
    SlotInv, CardInv, Opening, Listed
<1>1. ASSUME NEW c \in Calls, Enter(c) PROVE SlotInv'
  BY <1>1 DEF Enter
<1>2. CASE ClearInterrupted
  BY <1>2 DEF ClearInterrupted
<1>3. CASE ClearAbandoned
  BY <1>3 DEF ClearAbandoned
<1>4. CASE Install
  BY <1>4 DEF Install
<1>5. CASE EmitRequest
  BY <1>5 DEF EmitRequest
<1>6. CASE HearAnswer
  BY <1>6 DEF HearAnswer
<1>7. CASE HearStop
  BY <1>7 DEF HearStop
<1>8. CASE TakeSlot
  BY <1>8 DEF TakeSlot
<1>9. CASE SettleAnswered
  BY <1>9 DEF SettleAnswered, Leave, Verdict, Landed
<1>10. CASE SettleUnanswered
  BY <1>10 DEF SettleUnanswered, Leave, Landed
<1>11. CASE Escalate
  BY <1>11 DEF Escalate, Leave
<1>12. CASE EndTurn
  BY <1>12 DEF EndTurn
<1>13. ASSUME NEW c \in Calls, NEW r \in Responses, Respond(c, r)
      PROVE  SlotInv'
  BY <1>13 DEF Respond
<1>14. ASSUME NEW m \in Modes, SetAuthMode(m) PROVE SlotInv'
  BY <1>14 DEF SetAuthMode
<1>15. ASSUME NEW t \in Tools, Revoke(t) PROVE SlotInv'
  BY <1>15 DEF Revoke
<1>16. ASSUME NEW x \in Stops, StopRequest(x) PROVE SlotInv'
  BY <1>16 DEF StopRequest
<1>17. ASSUME NEW z \in Resets, ResetPolicy(z) PROVE SlotInv'
  BY <1>17 DEF ResetPolicy
<1>18. ASSUME NEW a \in Actors, InterruptPending(a) PROVE SlotInv'
  BY <1>18 DEF InterruptPending, Wake
<1>19. ASSUME NEW c \in Calls, EchoMatch(c) PROVE SlotInv'
  BY <1>19 DEF EchoMatch
<1>20. CASE AbandonPending
  BY <1>20 DEF AbandonPending, Wake
<1> QED
  BY <1>1, <1>2, <1>3, <1>4, <1>5, <1>6, <1>7, <1>8, <1>9, <1>10, <1>11,
     <1>12, <1>13, <1>14, <1>15, <1>16, <1>17, <1>18, <1>19, <1>20
     DEF Next, GateStep, Commands

\* An answer is accepted once, before the slot is emptied.
LEMMA AnswerStep == ASSUME Inv, Next PROVE AnswerInv'
<1> USE NoCallAssumption
    DEF Inv, Goto, policy, pending, latches, gate, calls, echoes, TypeOK,
    Responses, SlotInv, AnswerInv, CardInv, Opening, Listed
<1>1. ASSUME NEW c \in Calls, Enter(c) PROVE AnswerInv'
  BY <1>1 DEF Enter
<1>2. CASE ClearInterrupted
  BY <1>2 DEF ClearInterrupted
<1>3. CASE ClearAbandoned
  BY <1>3 DEF ClearAbandoned
<1>4. CASE Install
  BY <1>4 DEF Install
<1>5. CASE EmitRequest
  BY <1>5 DEF EmitRequest
<1>6. CASE HearAnswer
  BY <1>6 DEF HearAnswer
<1>7. CASE HearStop
  BY <1>7 DEF HearStop
<1>8. CASE TakeSlot
  BY <1>8 DEF TakeSlot
<1>9. CASE SettleAnswered
  BY <1>9 DEF SettleAnswered, Leave, Verdict, Landed
<1>10. CASE SettleUnanswered
  BY <1>10 DEF SettleUnanswered, Leave, Landed
<1>11. CASE Escalate
  BY <1>11 DEF Escalate, Leave
<1>12. CASE EndTurn
  BY <1>12 DEF EndTurn
<1>13. ASSUME NEW c \in Calls, NEW r \in Responses, Respond(c, r)
      PROVE  AnswerInv'
  BY <1>13 DEF Respond
<1>14. ASSUME NEW m \in Modes, SetAuthMode(m) PROVE AnswerInv'
  BY <1>14 DEF SetAuthMode
<1>15. ASSUME NEW t \in Tools, Revoke(t) PROVE AnswerInv'
  BY <1>15 DEF Revoke
<1>16. ASSUME NEW x \in Stops, StopRequest(x) PROVE AnswerInv'
  BY <1>16 DEF StopRequest
<1>17. ASSUME NEW z \in Resets, ResetPolicy(z) PROVE AnswerInv'
  BY <1>17 DEF ResetPolicy
<1>18. ASSUME NEW a \in Actors, InterruptPending(a) PROVE AnswerInv'
  BY <1>18 DEF InterruptPending, Wake
<1>19. ASSUME NEW c \in Calls, EchoMatch(c) PROVE AnswerInv'
  BY <1>19 DEF EchoMatch
<1>20. CASE AbandonPending
  BY <1>20 DEF AbandonPending, Wake
<1> QED
  BY <1>1, <1>2, <1>3, <1>4, <1>5, <1>6, <1>7, <1>8, <1>9, <1>10, <1>11,
     <1>12, <1>13, <1>14, <1>15, <1>16, <1>17, <1>18, <1>19, <1>20
     DEF Next, GateStep, Commands

\* Only the gate changes cards, and only its own call's.
LEMMA CardStep == ASSUME Inv, Next PROVE CardInv'
<1> USE NoCallAssumption
    DEF Inv, Goto, policy, pending, latches, gate, calls, echoes, TypeOK,
    Responses, SlotInv, AnswerInv, CardInv, Opening, Listed
<1>1. ASSUME NEW c \in Calls, Enter(c) PROVE CardInv'
  BY <1>1 DEF Enter
<1>2. CASE ClearInterrupted
  BY <1>2 DEF ClearInterrupted
<1>3. CASE ClearAbandoned
  BY <1>3 DEF ClearAbandoned
<1>4. CASE Install
  BY <1>4 DEF Install
<1>5. CASE EmitRequest
  BY <1>5 DEF EmitRequest
<1>6. CASE HearAnswer
  BY <1>6 DEF HearAnswer
<1>7. CASE HearStop
  BY <1>7 DEF HearStop
<1>8. CASE TakeSlot
  BY <1>8 DEF TakeSlot
<1>9. CASE SettleAnswered
  BY <1>9 DEF SettleAnswered, Leave, Verdict, Landed
<1>10. CASE SettleUnanswered
  BY <1>10 DEF SettleUnanswered, Leave, Landed
<1>11. CASE Escalate
  BY <1>11 DEF Escalate, Leave
<1>12. CASE EndTurn
  BY <1>12 DEF EndTurn
<1>13. ASSUME NEW c \in Calls, NEW r \in Responses, Respond(c, r)
      PROVE  CardInv'
  BY <1>13 DEF Respond
<1>14. ASSUME NEW m \in Modes, SetAuthMode(m) PROVE CardInv'
  BY <1>14 DEF SetAuthMode
<1>15. ASSUME NEW t \in Tools, Revoke(t) PROVE CardInv'
  BY <1>15 DEF Revoke
<1>16. ASSUME NEW x \in Stops, StopRequest(x) PROVE CardInv'
  BY <1>16 DEF StopRequest
<1>17. ASSUME NEW z \in Resets, ResetPolicy(z) PROVE CardInv'
  BY <1>17 DEF ResetPolicy
<1>18. ASSUME NEW a \in Actors, InterruptPending(a) PROVE CardInv'
  BY <1>18 DEF InterruptPending, Wake
<1>19. ASSUME NEW c \in Calls, EchoMatch(c) PROVE CardInv'
  BY <1>19 DEF EchoMatch
<1>20. CASE AbandonPending
  BY <1>20 DEF AbandonPending, Wake
<1> QED
  BY <1>1, <1>2, <1>3, <1>4, <1>5, <1>6, <1>7, <1>8, <1>9, <1>10, <1>11,
     <1>12, <1>13, <1>14, <1>15, <1>16, <1>17, <1>18, <1>19, <1>20
     DEF Next, GateStep, Commands

\* A tool is trusted only by a gate that ends with its answer.
LEMMA TrustStep == ASSUME Inv, Next PROVE TrustInv'
<1> USE NoCallAssumption
    DEF Inv, Goto, policy, pending, latches, gate, calls, echoes, TypeOK,
    Responses, SlotInv, AnswerInv, CardInv, TrustInv, Opening, Listed
<1>1. ASSUME NEW c \in Calls, Enter(c) PROVE TrustInv'
  BY <1>1 DEF Enter
<1>2. CASE ClearInterrupted
  BY <1>2 DEF ClearInterrupted
<1>3. CASE ClearAbandoned
  BY <1>3 DEF ClearAbandoned
<1>4. CASE Install
  BY <1>4 DEF Install
<1>5. CASE EmitRequest
  BY <1>5 DEF EmitRequest
<1>6. CASE HearAnswer
  BY <1>6 DEF HearAnswer
<1>7. CASE HearStop
  BY <1>7 DEF HearStop
<1>8. CASE TakeSlot
  BY <1>8 DEF TakeSlot
<1>9. CASE SettleAnswered
  BY <1>9 DEF SettleAnswered, Leave, Verdict, Landed
<1>10. CASE SettleUnanswered
  BY <1>10 DEF SettleUnanswered, Leave, Landed
<1>11. CASE Escalate
  BY <1>11 DEF Escalate, Leave
<1>12. CASE EndTurn
  BY <1>12 DEF EndTurn
<1>13. ASSUME NEW c \in Calls, NEW r \in Responses, Respond(c, r)
      PROVE  TrustInv'
  BY <1>13 DEF Respond
<1>14. ASSUME NEW m \in Modes, SetAuthMode(m) PROVE TrustInv'
  BY <1>14 DEF SetAuthMode
<1>15. ASSUME NEW t \in Tools, Revoke(t) PROVE TrustInv'
  BY <1>15 DEF Revoke
<1>16. ASSUME NEW x \in Stops, StopRequest(x) PROVE TrustInv'
  BY <1>16 DEF StopRequest
<1>17. ASSUME NEW z \in Resets, ResetPolicy(z) PROVE TrustInv'
  BY <1>17 DEF ResetPolicy
<1>18. ASSUME NEW a \in Actors, InterruptPending(a) PROVE TrustInv'
  BY <1>18 DEF InterruptPending, Wake
<1>19. ASSUME NEW c \in Calls, EchoMatch(c) PROVE TrustInv'
  BY <1>19 DEF EchoMatch
<1>20. CASE AbandonPending
  BY <1>20 DEF AbandonPending, Wake
<1> QED
  BY <1>1, <1>2, <1>3, <1>4, <1>5, <1>6, <1>7, <1>8, <1>9, <1>10, <1>11,
     <1>12, <1>13, <1>14, <1>15, <1>16, <1>17, <1>18, <1>19, <1>20
     DEF Next, GateStep, Commands

\* Both latches are lowered before the gate can read them.
LEMMA LatchStep == ASSUME Inv, Next PROVE LatchInv'
<1> USE NoCallAssumption
    DEF Inv, Goto, policy, pending, latches, gate, calls, echoes, TypeOK,
    Responses, SlotInv, AnswerInv, CardInv, LatchInv, Opening, Listed
<1>1. ASSUME NEW c \in Calls, Enter(c) PROVE LatchInv'
  BY <1>1 DEF Enter
<1>2. CASE ClearInterrupted
  BY <1>2 DEF ClearInterrupted
<1>3. CASE ClearAbandoned
  BY <1>3 DEF ClearAbandoned
<1>4. CASE Install
  BY <1>4 DEF Install
<1>5. CASE EmitRequest
  BY <1>5 DEF EmitRequest
<1>6. CASE HearAnswer
  BY <1>6 DEF HearAnswer
<1>7. CASE HearStop
  BY <1>7 DEF HearStop
<1>8. CASE TakeSlot
  BY <1>8 DEF TakeSlot
<1>9. CASE SettleAnswered
  BY <1>9 DEF SettleAnswered, Leave, Verdict, Landed
<1>10. CASE SettleUnanswered
  BY <1>10 DEF SettleUnanswered, Leave, Landed
<1>11. CASE Escalate
  BY <1>11 DEF Escalate, Leave
<1>12. CASE EndTurn
  BY <1>12 DEF EndTurn
<1>13. ASSUME NEW c \in Calls, NEW r \in Responses, Respond(c, r)
      PROVE  LatchInv'
  BY <1>13 DEF Respond
<1>14. ASSUME NEW m \in Modes, SetAuthMode(m) PROVE LatchInv'
  BY <1>14 DEF SetAuthMode
<1>15. ASSUME NEW t \in Tools, Revoke(t) PROVE LatchInv'
  BY <1>15 DEF Revoke
<1>16. ASSUME NEW x \in Stops, StopRequest(x) PROVE LatchInv'
  BY <1>16 DEF StopRequest
<1>17. ASSUME NEW z \in Resets, ResetPolicy(z) PROVE LatchInv'
  BY <1>17 DEF ResetPolicy
<1>18. ASSUME NEW a \in Actors, InterruptPending(a) PROVE LatchInv'
  BY <1>18 DEF InterruptPending, Wake
<1>19. ASSUME NEW c \in Calls, EchoMatch(c) PROVE LatchInv'
  BY <1>19 DEF EchoMatch
<1>20. CASE AbandonPending
  BY <1>20 DEF AbandonPending, Wake
<1> QED
  BY <1>1, <1>2, <1>3, <1>4, <1>5, <1>6, <1>7, <1>8, <1>9, <1>10, <1>11,
     <1>12, <1>13, <1>14, <1>15, <1>16, <1>17, <1>18, <1>19, <1>20
     DEF Next, GateStep, Commands

\* A settled call ends with the accepted answer, or cancelled without one.
LEMMA HonourStep == ASSUME Inv, Next PROVE AnswerHonoured'
<1> USE NoCallAssumption
    DEF Inv, Goto, policy, pending, latches, gate, calls, echoes, TypeOK,
    Responses, Verdict, SlotInv, AnswerInv, CardInv, AnswerHonoured,
    Opening, Listed
<1>1. ASSUME NEW c \in Calls, Enter(c) PROVE AnswerHonoured'
  BY <1>1 DEF Enter
<1>2. CASE ClearInterrupted
  BY <1>2 DEF ClearInterrupted
<1>3. CASE ClearAbandoned
  BY <1>3 DEF ClearAbandoned
<1>4. CASE Install
  BY <1>4 DEF Install
<1>5. CASE EmitRequest
  BY <1>5 DEF EmitRequest
<1>6. CASE HearAnswer
  BY <1>6 DEF HearAnswer
<1>7. CASE HearStop
  BY <1>7 DEF HearStop
<1>8. CASE TakeSlot
  BY <1>8 DEF TakeSlot
<1>9. CASE SettleAnswered
  BY <1>9 DEF SettleAnswered, Leave, Verdict, Landed
<1>10. CASE SettleUnanswered
  BY <1>10 DEF SettleUnanswered, Leave, Landed
<1>11. CASE Escalate
  BY <1>11 DEF Escalate, Leave
<1>12. CASE EndTurn
  BY <1>12 DEF EndTurn
<1>13. ASSUME NEW c \in Calls, NEW r \in Responses, Respond(c, r)
      PROVE  AnswerHonoured'
  BY <1>13 DEF Respond
<1>14. ASSUME NEW m \in Modes, SetAuthMode(m) PROVE AnswerHonoured'
  BY <1>14 DEF SetAuthMode
<1>15. ASSUME NEW t \in Tools, Revoke(t) PROVE AnswerHonoured'
  BY <1>15 DEF Revoke
<1>16. ASSUME NEW x \in Stops, StopRequest(x) PROVE AnswerHonoured'
  BY <1>16 DEF StopRequest
<1>17. ASSUME NEW z \in Resets, ResetPolicy(z) PROVE AnswerHonoured'
  BY <1>17 DEF ResetPolicy
<1>18. ASSUME NEW a \in Actors, InterruptPending(a) PROVE AnswerHonoured'
  BY <1>18 DEF InterruptPending, Wake
<1>19. ASSUME NEW c \in Calls, EchoMatch(c) PROVE AnswerHonoured'
  BY <1>19 DEF EchoMatch
<1>20. CASE AbandonPending
  BY <1>20 DEF AbandonPending, Wake
<1> QED
  BY <1>1, <1>2, <1>3, <1>4, <1>5, <1>6, <1>7, <1>8, <1>9, <1>10, <1>11,
     <1>12, <1>13, <1>14, <1>15, <1>16, <1>17, <1>18, <1>19, <1>20
     DEF Next, GateStep, Commands


\* The invariant is inductive.
THEOREM InvHolds == Spec => []Inv
<1>1. Init => Inv
  <2> SUFFICES ASSUME Init PROVE Inv
    OBVIOUS
  <2>1. interrupted \in BOOLEAN /\ abandoned \in BOOLEAN /\ requested \in BOOLEAN
    BY Zenon DEF Init
  <2>2. TypeOK
    BY <2>1 DEF Init, TypeOK, Modes, Responses, Actors
  <2>3. SlotInv /\ AnswerInv /\ CardInv
    BY NoCallAssumption DEF Init, SlotInv, AnswerInv, CardInv, Opening, Listed
  <2>4. TrustInv /\ LatchInv /\ AnswerHonoured
    BY DEF Init, TrustInv, LatchInv, AnswerHonoured
  <2> QED
    BY <2>2, <2>3, <2>4 DEF Inv
<1>2. Inv /\ [Next]_vars => Inv'
  <2>1. ASSUME Inv, Next PROVE Inv'
    BY <2>1, TypeStep, SlotStep, AnswerStep, CardStep, TrustStep, LatchStep,
       HonourStep DEF Inv
  <2>2. ASSUME Inv, UNCHANGED vars PROVE Inv'
    <3> USE <2>2 DEF Inv, vars, policy, pending, latches, gate, calls, echoes
    <3>1. TypeOK'
      BY DEF TypeOK
    <3>2. SlotInv' /\ AnswerInv' /\ CardInv'
      BY DEF SlotInv, AnswerInv, CardInv
    <3>3. TrustInv' /\ LatchInv' /\ AnswerHonoured'
      BY DEF TrustInv, LatchInv, AnswerHonoured, Verdict
    <3> QED
      BY <3>1, <3>2, <3>3
  <2> QED
    BY <2>1, <2>2
<1> QED
  BY <1>1, <1>2, PTL DEF Spec

\* The gate's state keeps its types, and a call is at the gate exactly while the
\* gate's thread is between entering and leaving it.
THEOREM TypeCorrect == Spec => []TypeOK
<1>1. Inv => TypeOK
  BY DEF Inv
<1> QED
  BY <1>1, InvHolds, PTL

\* For any number of calls, stops and resets: an answer that respond accepted is
\* the one its call and card end with.
THEOREM AnswerHonouredHolds == Spec => []AnswerHonoured
<1>1. Inv => AnswerHonoured
  BY DEF Inv
<1> QED
  BY <1>1, InvHolds, PTL

\* No step lets a call that needs approval run without the user's consent.
THEOREM ConsentBeforeRunHolds == Spec => ConsentBeforeRun
<1> DEFINE Runs(c) == outcome[c] = "none" /\ outcome'[c] = "Allow"
<1>1. Inv /\ [Next]_vars => [\A c \in Calls : Runs(c) => Consented(c)]_vars
  <2> SUFFICES ASSUME Inv, Next, NEW c \in Calls, Runs(c) PROVE Consented(c)
    OBVIOUS
  <2> USE DEF Inv, Goto
  <2>1. ASSUME NEW d \in Calls, Enter(d) PROVE Consented(c)
    <3>1. c = d /\ Allowed(tool[c])
      BY <2>1 DEF Enter, TypeOK
    <3> QED
      BY <3>1 DEF Allowed, TrustInv, Consented
  <2>2. CASE SettleAnswered
    <3>1. c = at /\ accepted[c] = Landed /\ Verdict(Landed) = "Allow"
      BY <2>2 DEF SettleAnswered, Leave, TypeOK, AnswerInv, Landed
    <3> QED
      BY <2>2, <3>1
      DEF SettleAnswered, Verdict, Landed, TypeOK, Responses, Consented
  <2>3. CASE SettleUnanswered
    BY <2>3 DEF SettleUnanswered, Leave, TypeOK
  <2>4. CASE Escalate
    <3>1. c = at
      BY <2>4 DEF Escalate, Leave, TypeOK
    <3> QED
      BY <2>4, <3>1 DEF Escalate, AnswerInv, Consented
  <2>5. CASE outcome' = outcome
    BY <2>5
  <2> QED
    BY <2>1, <2>2, <2>3, <2>4, <2>5
    DEF Next, GateStep, Commands, calls, gate, ClearInterrupted, ClearAbandoned,
        Install, EmitRequest, HearAnswer, HearStop, TakeSlot, EndTurn, Respond,
        SetAuthMode, Revoke, StopRequest, ResetPolicy, InterruptPending,
        EchoMatch, AbandonPending
<1> QED
  BY <1>1, InvHolds, PTL DEF Spec, ConsentBeforeRun

\* No step cancels a call whose turn was not asked to stop and whose gate no
\* latch hit: what an earlier gate left raised never reaches a later one.
THEOREM CancelHasCauseHolds == Spec => CancelHasCause
<1> DEFINE Ends(c) == outcome[c] # "Cancelled" /\ outcome'[c] = "Cancelled"
<1>1. Inv /\ [Next]_vars =>
        [\A c \in Calls : Ends(c) => requested \/ c \in woken]_vars
  <2> SUFFICES ASSUME Inv, Next, NEW c \in Calls, Ends(c)
               PROVE  requested \/ c \in woken
    OBVIOUS
  <2> USE DEF Inv, Goto
  <2>1. ASSUME NEW d \in Calls, Enter(d) PROVE FALSE
    BY <2>1 DEF Enter, TypeOK
  <2>2. CASE SettleAnswered
    BY <2>2 DEF SettleAnswered, Leave, Verdict, TypeOK
  <2>3. CASE SettleUnanswered
    <3>1. c = at /\ heard = "none"
      BY <2>3 DEF SettleUnanswered, Leave, Landed, TypeOK
    <3> QED
      BY <2>3, <3>1 DEF SettleUnanswered, LatchInv
  <2>4. CASE Escalate
    BY <2>4 DEF Escalate, Leave, TypeOK
  <2>5. CASE outcome' = outcome
    BY <2>5
  <2> QED
    BY <2>1, <2>2, <2>3, <2>4, <2>5
    DEF Next, GateStep, Commands, calls, gate, ClearInterrupted, ClearAbandoned,
        Install, EmitRequest, HearAnswer, HearStop, TakeSlot, EndTurn, Respond,
        SetAuthMode, Revoke, StopRequest, ResetPolicy, InterruptPending,
        EchoMatch, AbandonPending
<1> QED
  BY <1>1, InvHolds, PTL DEF Spec, CancelHasCause
=============================================================================
