--------------------------- MODULE McpFleet_proofs ---------------------------
(***************************************************************************)
(* Proofs about McpFleet, for any list of servers, any transports, budgets *)
(* and caps: an expired slot keeps no live handle, a call on a killed      *)
(* transport gets no answer, and a fire misses at most one server.         *)
(***************************************************************************)
EXTENDS McpFleet, TLAPS

Connecting ==
  \/ at \in {"keys", "open", "publish", "recheck"}
  \/ at \in Places /\ job # "call"

Calling == at \in Places /\ job = "call"

\* While it connects the thread works with the next server of the list; when it
\* calls, or is through, the list is.
PlaceInv ==
  /\ Connecting => nth <= Len(Fleet) /\ cur = Fleet[nth]
  /\ Calling \/ at \in {"free", "flag", "drop", "join", "over"} =>
       nth > Len(Fleet)
  /\ Calling => cur \in Servers
  /\ at \in {"get", "endpoint", "ack"} => job = "init"
  /\ at = "arming" => watcher = "unarmed"

\* Slots come in the order of the list, handles and transports after their
\* slot, and only the connect that is about to publish lacks a handle.
RegistryInv ==
  /\ handle \subseteq slots /\ up \subseteq slots
  /\ \A i \in nth .. Len(Fleet) :
       Fleet[i] \in slots => i = nth /\ Connecting /\ at # "keys"
  /\ Connecting /\ at # "keys" => cur \in slots
  /\ at \in {"keys", "open", "publish"} => cur \notin handle
  /\ \A s \in up \ handle : at = "publish" /\ s = cur

\* A call on a killed transport can still meet its refusal or its end of file.
CorpseInv ==
  /\ corpse => Calling /\ cur \in killed \ resists
  /\ corpse /\ cur \in Sse => at = "entry"
  /\ KilledStaysKilled

\* A pass has expired every slot that it no longer has before it; a slot that
\* comes after the pass is the last, because the request still stands.
FireInv ==
  /\ watcher # "pass" => mark = None
  /\ mark # None => mark \in marked
  /\ watcher = "pass" => slots \subseteq todo \cup marked
  /\ watcher \in {"locking", "pass", "fired"} /\ ~wiped /\ nth <= Len(Fleet) =>
       req
  /\ watcher = "fired" /\ ~wiped =>
       /\ at = "keys" => slots \subseteq marked
       /\ Connecting => slots \ marked \subseteq {cur}
       /\ \A s, t \in slots \ marked : s = t

Inv ==
  /\ TypeOK /\ PlaceInv /\ RegistryInv /\ ExpiredMeansKilled /\ CorpseInv
  /\ FireInv

\* The list of servers as a function.
LEMMA FleetFacts ==
  /\ Len(Fleet) \in Nat /\ DOMAIN Fleet = 1 .. Len(Fleet)
  /\ \A i \in 1 .. Len(Fleet) : Fleet[i] \in Servers
  /\ \A i, j \in 1 .. Len(Fleet) : Fleet[i] = Fleet[j] => i = j
  /\ None \notin Servers
<1>1. Len(Fleet) \in Nat /\ DOMAIN Fleet = 1 .. Len(Fleet)
  BY FleetAssumption
<1> QED
  BY <1>1, FleetAssumption DEF Servers, ToSet, IsInjective

\* The actions that the groups of Next come down to.
LEMMA NextActions ==
  ASSUME Next
  PROVE  \/ Arm \/ Gap \/ Register \/ Open \/ OpenFails \/ Publish
         \/ Recheck \/ StreamStep \/ StreamFails \/ Entry \/ Posted
         \/ PostFails \/ Check \/ Answer \/ TooManyPages \/ OtherEvent
         \/ ReadFails \/ ReadEnds \/ RequestWoken \/ Acked \/ AckFails
         \/ BudgetEnds \/ GraceEnds \/ ConnectsDone \/ EngineStep
         \/ LeaveTurn \/ StandDown \/ DropFleet \/ JoinEngine \/ Glance
         \/ Look \/ Snapshot \/ PassEnds \/ Stop \/ AtRest
         \/ \E s \in Servers : Route(s) \/ ExpireMark(s) \/ ExpireKill(s)
  BY DEF Next, Walk, Reply, BoundedWait, KillLands, StreamWoken, Watch

\* The guard's two moments, and the answer to a call, set truth values.
LEMMA ClearsType ==
  ASSUME TypeOK, ClearsRequest PROVE req' = FALSE /\ wiped' \in BOOLEAN
  BY DEF ClearsRequest

LEMMA RevivedType ==
  ASSUME TypeOK, Answered PROVE revived' \in BOOLEAN /\ corpse' \in BOOLEAN
  BY DEF Answered, servers, TypeOK

\* A request that ends without its answer leaves every type right.
Ended ==
  /\ at' \in {"free", "gap"} /\ nth' \in 1 .. Len(Fleet) + 1 /\ cur' = cur
  /\ job' = job /\ page' \in 1 .. PageCap
  /\ record' \in [Servers -> {"none", "skipped", "failed", "connected"}]
  /\ home' \subseteq Servers /\ dead' \subseteq Servers
  /\ corpse' \in BOOLEAN /\ revived' = revived
  /\ up' \subseteq Servers /\ killed' \subseteq Killable
  /\ permit' \subseteq Sse /\ poisoned' \subseteq Sse
  /\ resists' \subseteq Stdio

LEMMA FailsType ==
  ASSUME TypeOK, PlaceInv, at \in Places, NEW death \in BOOLEAN, NEW broken,
         NEW heard, Fails(death, broken, heard)
  PROVE  Ended
<1> USE FleetAssumption, FleetFacts
    DEF TypeOK, PlaceInv, Connecting, Calling, Fails, Ended
<1>1. CASE job = "call"
  BY <1>1
<1>2. CASE job # "call"
  <2>1. ConnectFails /\ Connecting
    BY <1>2
  <2> QED
    BY <2>1, <1>2 DEF ConnectFails, Drop
<1> QED
  BY <1>1, <1>2

\* Nothing is registered before the arming.
LEMMA InitInv == Init => Inv
<1> SUFFICES ASSUME Init PROVE Inv
  OBVIOUS
<1> USE FleetAssumption, FleetFacts DEF Init
<1>1. req \in BOOLEAN /\ corpse \in BOOLEAN /\ revived \in BOOLEAN
      /\ done \in BOOLEAN /\ wiped \in BOOLEAN
  OBVIOUS
<1>2. TypeOK
  BY <1>1 DEF TypeOK
<1>3. PlaceInv
  BY DEF PlaceInv, Connecting, Calling, Places
<1>4. RegistryInv
  BY DEF RegistryInv, Connecting, Places
<1>5. ExpiredMeansKilled /\ CorpseInv
  BY DEF ExpiredMeansKilled, CorpseInv, KilledStaysKilled
<1>6. FireInv
  BY DEF FireInv
<1> QED
  BY <1>2, <1>3, <1>4, <1>5, <1>6 DEF Inv

\* Every variable keeps its type.
LEMMA TypeStep == ASSUME TypeOK, PlaceInv, Next PROVE TypeOK'
<1> USE FleetAssumption, FleetFacts DEF turn, thread, servers, registry,
    wires, watch, TypeOK, PlaceInv, Connecting, Calling, Places, Killable,
    Stdio
<1>1. CASE Arm
  BY <1>1, ZenonT(30) DEF Arm
<1>2. CASE Gap
  BY <1>2 DEF Gap, CancelSeen
<1>3. CASE Register
  BY <1>3 DEF Register
<1>4. CASE Open
  BY <1>4 DEF Open
<1>5. CASE OpenFails
  BY <1>5 DEF OpenFails, ConnectFails, Drop
<1>6. CASE Publish
  BY <1>6 DEF Publish
<1>7. CASE Recheck
  BY <1>7 DEF Recheck, AlreadyExpired, Kill
<1>8. CASE StreamStep
  BY <1>8 DEF StreamStep
<1>9. CASE StreamFails
  BY <1>9 DEF StreamFails, ConnectFails, Drop
<1>10. CASE Entry
  <2>1. at \in Places
    BY <1>10 DEF Entry
  <2>2. CASE Stopped(cur) \/ cur \in poisoned
    <3>1. Fails(TRUE, {}, {})
      BY <1>10, <2>2 DEF Entry
    <3>2. Ended
      <4> HIDE DEF TypeOK, PlaceInv, Places
      <4> QED
        BY <2>1, <3>1, FailsType
    <3> QED
      BY <1>10, <3>2 DEF Entry, Ended
  <2>3. CASE ~(Stopped(cur) \/ cur \in poisoned)
    BY <1>10, <2>3 DEF Entry
  <2> QED
    BY <2>2, <2>3
<1>11. CASE Posted
  BY <1>11 DEF Posted
<1>12. CASE PostFails
  <2>1. at \in Places
    BY <1>12 DEF PostFails
  <2>2. Ended
    <3> HIDE DEF TypeOK, PlaceInv, Places
    <3>1. (cur \in Stdio) \in BOOLEAN
      OBVIOUS
    <3>2. Fails(cur \in Stdio, {}, {})
      BY <1>12 DEF PostFails
    <3> QED
      BY <2>1, <3>1, <3>2, FailsType
  <2> QED
    BY <1>12, <2>2 DEF PostFails, Ended
<1>13. CASE Check
  <2>1. at \in Places
    BY <1>13 DEF Check
  <2>2. CASE Stopped(cur)
    <3>1. Fails(TRUE, {}, {})
      BY <1>13, <2>2 DEF Check
    <3>2. Ended
      <4> HIDE DEF TypeOK, PlaceInv, Places
      <4> QED
        BY <2>1, <3>1, FailsType
    <3> QED
      BY <1>13, <3>2 DEF Check, Ended
  <2>3. CASE ~(Stopped(cur))
    BY <1>13, <2>3 DEF Check
  <2> QED
    BY <2>2, <2>3
<1>14. CASE Answer
  <2>1. revived' \in BOOLEAN /\ corpse' \in BOOLEAN
    <3> HIDE DEF TypeOK, PlaceInv
    <3> QED
      BY <1>14, RevivedType DEF Answer
  <2> QED
    BY <1>14, <2>1 DEF Answer, Answered, MorePages
<1>15. CASE TooManyPages
  BY <1>15 DEF TooManyPages, ConnectFails, Drop, MorePages
<1>16. CASE OtherEvent
  BY <1>16 DEF OtherEvent
<1>17. CASE ReadFails
  <2>1. at \in Places
    BY <1>17 DEF ReadFails
  <2>2. Ended
    <3> HIDE DEF TypeOK, PlaceInv, Places
    <3>1. PICK broken \in {{}, {cur}} : Fails(FALSE, broken, {})
      BY <1>17 DEF ReadFails
    <3> QED
      BY <2>1, <3>1, FailsType
  <2> QED
    BY <1>17, <2>2 DEF ReadFails, Ended
<1>18. CASE ReadEnds
  <2>1. at \in Places
    BY <1>18 DEF ReadEnds
  <2>2. Ended
    <3> HIDE DEF TypeOK, PlaceInv, Places
    <3>1. Fails(TRUE, {cur}, {})
      BY <1>18 DEF ReadEnds
    <3> QED
      BY <2>1, <3>1, FailsType
  <2> QED
    BY <1>18, <2>2 DEF ReadEnds, Ended
<1>19. CASE RequestWoken
  <2>1. at \in Places
    BY <1>19 DEF RequestWoken
  <2>2. Ended
    <3> HIDE DEF TypeOK, PlaceInv, Places
    <3>1. Fails(TRUE, {}, {cur})
      BY <1>19 DEF RequestWoken
    <3> QED
      BY <2>1, <3>1, FailsType
  <2> QED
    BY <1>19, <2>2 DEF RequestWoken, Ended
<1>20. CASE Acked
  BY <1>20 DEF Acked
<1>21. CASE AckFails
  BY <1>21 DEF AckFails, ConnectFails, Drop
<1>22. CASE BudgetEnds
  BY <1>22 DEF BudgetEnds, Kill, Parked
<1>23. CASE GraceEnds
  <2>1. CASE job # "call" /\ ConnectFails
    BY <1>23, <2>1 DEF GraceEnds, ConnectFails, Drop
  <2>2. CASE job = "call"
    <3>1. cur \in Servers /\ at = "grace"
      BY <1>23, <2>2 DEF GraceEnds
    <3>2. /\ at' = "free" /\ dead' = dead \cup {cur} /\ corpse' = FALSE
          /\ Drop({cur})
          /\ UNCHANGED <<turn, nth, cur, job, page, record, home, revived,
                         registry, watch, done>>
      BY <1>23, <2>2 DEF GraceEnds
    <3>3. dead' \subseteq Servers /\ corpse' \in BOOLEAN /\ revived' \in BOOLEAN
      BY <3>1, <3>2
    <3>4. /\ up' \subseteq Servers /\ killed' \subseteq Killable
          /\ permit' \subseteq Sse /\ poisoned' \subseteq Sse
          /\ resists' \subseteq Stdio
      BY <3>2 DEF Drop
    <3> HIDE DEF Killable, Stdio, Places, PlaceInv
    <3>5. at' = "free"
      BY <3>2
    <3> QED
      BY <3>2, <3>3, <3>4, <3>5
  <2> QED
    BY <1>23, <2>1, <2>2 DEF GraceEnds
<1>24. CASE ConnectsDone
  <2>1. req' \in BOOLEAN /\ wiped' \in BOOLEAN
    <3> HIDE DEF TypeOK, PlaceInv
    <3>1. CASE ClearsRequest
      BY <3>1, ClearsType
    <3>2. CASE UNCHANGED <<req, wiped>>
      BY <3>2 DEF TypeOK
    <3> QED
      BY <1>24, <3>1, <3>2 DEF ConnectsDone
  <2> QED
    BY <1>24, <2>1 DEF ConnectsDone
<1>25. CASE EngineStep
  <2>1. req' \in BOOLEAN /\ wiped' \in BOOLEAN
    <3> HIDE DEF TypeOK, PlaceInv
    <3>1. CASE ClearsRequest
      BY <3>1, ClearsType
    <3>2. CASE UNCHANGED <<req, wiped>>
      BY <3>2 DEF TypeOK
    <3> QED
      BY <1>25, <3>1, <3>2 DEF EngineStep
  <2> QED
    BY <1>25, <2>1 DEF EngineStep
<1>26. ASSUME NEW s \in Servers, Route(s) PROVE TypeOK'
  BY <1>26 DEF Route
<1>27. CASE LeaveTurn
  <2>1. req' \in BOOLEAN /\ wiped' \in BOOLEAN
    <3> HIDE DEF TypeOK, PlaceInv
    <3>1. CASE ClearsRequest
      BY <3>1, ClearsType
    <3>2. CASE UNCHANGED <<req, wiped>>
      BY <3>2 DEF TypeOK
    <3> QED
      BY <1>27, <3>1, <3>2 DEF LeaveTurn
  <2> QED
    BY <1>27, <2>1 DEF LeaveTurn
<1>28. CASE StandDown
  BY <1>28 DEF StandDown
<1>29. CASE DropFleet
  BY <1>29 DEF DropFleet, Drop
<1>30. CASE JoinEngine
  BY <1>30 DEF JoinEngine
<1>31. CASE Glance
  BY <1>31 DEF Glance
<1>32. CASE Look
  BY <1>32 DEF Look
<1>33. CASE Snapshot
  BY <1>33 DEF Snapshot
<1>34. ASSUME NEW s \in Servers, ExpireMark(s) PROVE TypeOK'
  BY <1>34 DEF ExpireMark
<1>35. ASSUME NEW s \in Servers, ExpireKill(s) PROVE TypeOK'
  BY <1>35 DEF ExpireKill, Kill
<1>36. CASE PassEnds
  BY <1>36 DEF PassEnds
<1>37. CASE Stop
  BY <1>37 DEF Stop
<1>38. CASE AtRest
  BY <1>38 DEF AtRest, vars
<1> HIDE DEF turn, thread, servers, registry, wires, watch, TypeOK, PlaceInv,
    Connecting, Calling, Places, Killable, Stdio
<1> QED
  BY <1>1, <1>2, <1>3, <1>4, <1>5, <1>6, <1>7, <1>8, <1>9, <1>10, <1>11,
     <1>12, <1>13, <1>14, <1>15, <1>16, <1>17, <1>18, <1>19, <1>20, <1>21,
     <1>22, <1>23, <1>24, <1>25, <1>26, <1>27, <1>28, <1>29, <1>30, <1>31,
     <1>32, <1>33, <1>34, <1>35, <1>36, <1>37, <1>38, NextActions

\* The thread walks down the list once.
LEMMA PlaceStep == ASSUME TypeOK, PlaceInv, Next PROVE PlaceInv'
<1> USE FleetAssumption, FleetFacts DEF turn, thread, servers, registry,
    wires, watch, TypeOK, PlaceInv, Connecting, Calling, Places
<1>1. CASE Arm
  BY <1>1 DEF Arm
<1>2. CASE Gap
  BY <1>2 DEF Gap, CancelSeen
<1>3. CASE Register
  BY <1>3 DEF Register
<1>4. CASE Open
  BY <1>4 DEF Open
<1>5. CASE OpenFails \/ StreamFails \/ AckFails \/ TooManyPages
  BY <1>5 DEF OpenFails, ConnectFails, Drop, StreamFails, AckFails,
     TooManyPages, MorePages
<1>6. CASE Publish
  BY <1>6 DEF Publish
<1>7. CASE Recheck
  BY <1>7 DEF Recheck, AlreadyExpired, Kill
<1>8. CASE StreamStep \/ Posted \/ OtherEvent \/ Acked
  BY <1>8 DEF StreamStep, Posted, OtherEvent, Acked
<1>9. CASE Entry
  BY <1>9 DEF Entry, Stopped, Fails, ConnectFails, Drop
<1>10. CASE PostFails \/ ReadFails
  BY <1>10 DEF PostFails, Fails, ConnectFails, Drop, ReadFails
<1>11. CASE Check
  BY <1>11 DEF Check, Stopped, Fails, ConnectFails, Drop
<1>12. CASE Answer
  BY <1>12 DEF Answer, Answered, Severed, MorePages
<1>13. CASE ReadEnds \/ RequestWoken
  BY <1>13 DEF ReadEnds, Fails, ConnectFails, Drop, RequestWoken
<1>14. CASE BudgetEnds
  BY <1>14 DEF BudgetEnds, Kill, Parked
<1>15. CASE GraceEnds
  BY <1>15 DEF GraceEnds, ConnectFails, Drop
<1>16. CASE ConnectsDone
  BY <1>16 DEF ConnectsDone, ClearsRequest
<1>17. CASE EngineStep
  BY <1>17 DEF EngineStep, ClearsRequest
<1>18. ASSUME NEW s \in Servers, Route(s) PROVE PlaceInv'
  BY <1>18 DEF Route
<1>19. CASE LeaveTurn
  BY <1>19 DEF LeaveTurn, ClearsRequest
<1>20. CASE StandDown \/ JoinEngine
  BY <1>20 DEF StandDown, JoinEngine
<1>21. CASE DropFleet
  BY <1>21 DEF DropFleet, Drop
<1>22. CASE Glance \/ Look \/ Snapshot \/ PassEnds
  BY <1>22 DEF Glance, Look, Snapshot, PassEnds
<1>23. ASSUME NEW s \in Servers, ExpireMark(s) PROVE PlaceInv'
  BY <1>23 DEF ExpireMark
<1>24. ASSUME NEW s \in Servers, ExpireKill(s) PROVE PlaceInv'
  BY <1>24 DEF ExpireKill, Kill
<1>25. CASE Stop \/ AtRest
  BY <1>25 DEF Stop, AtRest, vars
<1> HIDE DEF turn, thread, servers, registry, wires, watch, TypeOK, PlaceInv,
    Connecting, Calling, Places
<1> QED
  BY <1>1, <1>2, <1>3, <1>4, <1>5, <1>6, <1>7, <1>8, <1>9, <1>10, <1>11,
     <1>12, <1>13, <1>14, <1>15, <1>16, <1>17, <1>18, <1>19, <1>20, <1>21,
     <1>22, <1>23, <1>24, <1>25, NextActions

\* Slots, handles and transports come in order.
LEMMA RegistryStep ==
  ASSUME TypeOK, PlaceInv, RegistryInv, Next PROVE RegistryInv'
<1> USE FleetAssumption, FleetFacts DEF turn, thread, servers, registry,
    wires, watch, TypeOK, PlaceInv, RegistryInv, Connecting, Calling, Places
<1>1. CASE Arm
  BY <1>1 DEF Arm
<1>2. CASE Gap
  BY <1>2 DEF Gap, CancelSeen
<1>3. CASE Register
  BY <1>3 DEF Register
<1>4. CASE Open
  BY <1>4 DEF Open
<1>5. CASE OpenFails \/ StreamFails \/ AckFails \/ TooManyPages
  BY <1>5 DEF OpenFails, ConnectFails, Drop, StreamFails, AckFails,
     TooManyPages, MorePages
<1>6. CASE Publish
  BY <1>6 DEF Publish
<1>7. CASE Recheck
  BY <1>7 DEF Recheck, AlreadyExpired, Kill
<1>8. CASE StreamStep \/ Posted \/ OtherEvent \/ Acked
  BY <1>8 DEF StreamStep, Posted, OtherEvent, Acked
<1>9. CASE Entry
  BY <1>9 DEF Entry, Stopped, Fails, ConnectFails, Drop
<1>10. CASE PostFails \/ ReadFails
  BY <1>10 DEF PostFails, Fails, ConnectFails, Drop, ReadFails
<1>11. CASE Check
  BY <1>11 DEF Check, Stopped, Fails, ConnectFails, Drop
<1>12. CASE Answer
  BY <1>12 DEF Answer, Answered, Severed, MorePages
<1>13. CASE ReadEnds \/ RequestWoken
  BY <1>13 DEF ReadEnds, Fails, ConnectFails, Drop, RequestWoken
<1>14. CASE BudgetEnds
  BY <1>14 DEF BudgetEnds, Kill, Parked
<1>15. CASE GraceEnds
  BY <1>15 DEF GraceEnds, ConnectFails, Drop
<1>16. CASE ConnectsDone
  BY <1>16 DEF ConnectsDone, ClearsRequest
<1>17. CASE EngineStep
  BY <1>17 DEF EngineStep, ClearsRequest
<1>18. ASSUME NEW s \in Servers, Route(s) PROVE RegistryInv'
  BY <1>18 DEF Route
<1>19. CASE LeaveTurn
  BY <1>19 DEF LeaveTurn, ClearsRequest
<1>20. CASE StandDown \/ JoinEngine
  BY <1>20 DEF StandDown, JoinEngine
<1>21. CASE DropFleet
  BY <1>21 DEF DropFleet, Drop
<1>22. CASE Glance \/ Look \/ Snapshot \/ PassEnds
  BY <1>22 DEF Glance, Look, Snapshot, PassEnds
<1>23. ASSUME NEW s \in Servers, ExpireMark(s) PROVE RegistryInv'
  BY <1>23 DEF ExpireMark
<1>24. ASSUME NEW s \in Servers, ExpireKill(s) PROVE RegistryInv'
  BY <1>24 DEF ExpireKill, Kill
<1>25. CASE Stop \/ AtRest
  BY <1>25 DEF Stop, AtRest, vars
<1> HIDE DEF turn, thread, servers, registry, wires, watch, TypeOK, PlaceInv,
    RegistryInv, Connecting, Calling, Places
<1> QED
  BY <1>1, <1>2, <1>3, <1>4, <1>5, <1>6, <1>7, <1>8, <1>9, <1>10, <1>11,
     <1>12, <1>13, <1>14, <1>15, <1>16, <1>17, <1>18, <1>19, <1>20, <1>21,
     <1>22, <1>23, <1>24, <1>25, NextActions

\* Publishing and expiring meet in either order.
LEMMA KillStep ==
  ASSUME TypeOK, PlaceInv, RegistryInv, ExpiredMeansKilled, Next
  PROVE  ExpiredMeansKilled'
<1> USE FleetAssumption, FleetFacts DEF turn, thread, servers, registry,
    wires, watch, ExpiredMeansKilled, TypeOK, PlaceInv, RegistryInv,
    Connecting, Calling, Places, Killable, Stdio
<1>1. CASE Arm
  BY <1>1 DEF Arm
<1>2. CASE Gap
  BY <1>2 DEF Gap, CancelSeen
<1>3. CASE Register
  BY <1>3 DEF Register
<1>4. CASE Open
  BY <1>4 DEF Open
<1>5. CASE OpenFails \/ StreamFails \/ AckFails \/ TooManyPages
  BY <1>5 DEF OpenFails, ConnectFails, Drop, StreamFails, AckFails,
     TooManyPages, MorePages
<1>6. CASE Publish
  BY <1>6 DEF Publish
<1>7. CASE Recheck
  BY <1>7 DEF Recheck, AlreadyExpired, Kill
<1>8. CASE StreamStep \/ Posted \/ OtherEvent \/ Acked
  BY <1>8 DEF StreamStep, Posted, OtherEvent, Acked
<1>9. CASE Entry
  BY <1>9 DEF Entry, Stopped, Fails, ConnectFails, Drop
<1>10. CASE PostFails \/ ReadFails
  BY <1>10 DEF PostFails, Fails, ConnectFails, Drop, ReadFails
<1>11. CASE Check
  BY <1>11 DEF Check, Stopped, Fails, ConnectFails, Drop
<1>12. CASE Answer
  BY <1>12 DEF Answer, Answered, Severed, MorePages
<1>13. CASE ReadEnds \/ RequestWoken
  BY <1>13 DEF ReadEnds, Fails, ConnectFails, Drop, RequestWoken
<1>14. CASE BudgetEnds
  BY <1>14 DEF BudgetEnds, Kill, Parked
<1>15. CASE GraceEnds
  BY <1>15 DEF GraceEnds, ConnectFails, Drop
<1>16. CASE ConnectsDone
  BY <1>16 DEF ConnectsDone, ClearsRequest
<1>17. CASE EngineStep
  BY <1>17 DEF EngineStep, ClearsRequest
<1>18. ASSUME NEW s \in Servers, Route(s) PROVE ExpiredMeansKilled'
  BY <1>18 DEF Route
<1>19. CASE LeaveTurn
  BY <1>19 DEF LeaveTurn, ClearsRequest
<1>20. CASE StandDown \/ JoinEngine
  BY <1>20 DEF StandDown, JoinEngine
<1>21. CASE DropFleet
  BY <1>21 DEF DropFleet, Drop
<1>22. CASE Glance \/ Look \/ Snapshot \/ PassEnds
  BY <1>22 DEF Glance, Look, Snapshot, PassEnds
<1>23. ASSUME NEW s \in Servers, ExpireMark(s) PROVE ExpiredMeansKilled'
  BY <1>23 DEF ExpireMark
<1>24. ASSUME NEW s \in Servers, ExpireKill(s) PROVE ExpiredMeansKilled'
  BY <1>24 DEF ExpireKill, Kill
<1>25. CASE Stop \/ AtRest
  BY <1>25 DEF Stop, AtRest, vars
<1> HIDE DEF turn, thread, servers, registry, wires, watch,
    ExpiredMeansKilled, TypeOK, PlaceInv, RegistryInv, Connecting, Calling,
    Places, Killable, Stdio
<1> QED
  BY <1>1, <1>2, <1>3, <1>4, <1>5, <1>6, <1>7, <1>8, <1>9, <1>10, <1>11,
     <1>12, <1>13, <1>14, <1>15, <1>16, <1>17, <1>18, <1>19, <1>20, <1>21,
     <1>22, <1>23, <1>24, <1>25, NextActions

\* A call on a killed transport is refused, or meets the end of the file.
LEMMA CorpseStep == ASSUME TypeOK, PlaceInv, CorpseInv, Next PROVE CorpseInv'
<1> USE FleetAssumption, FleetFacts DEF turn, thread, servers, registry,
    wires, watch, CorpseInv, KilledStaysKilled, TypeOK, PlaceInv, Connecting,
    Calling, Places, Killable, Stdio
<1>1. CASE Arm
  BY <1>1 DEF Arm
<1>2. CASE Gap
  BY <1>2 DEF Gap, CancelSeen
<1>3. CASE Register
  BY <1>3 DEF Register
<1>4. CASE Open
  BY <1>4 DEF Open
<1>5. CASE OpenFails \/ StreamFails \/ AckFails \/ TooManyPages
  BY <1>5 DEF OpenFails, ConnectFails, Drop, StreamFails, AckFails,
     TooManyPages, MorePages
<1>6. CASE Publish
  BY <1>6 DEF Publish
<1>7. CASE Recheck
  BY <1>7 DEF Recheck, AlreadyExpired, Kill
<1>8. CASE StreamStep \/ Posted \/ OtherEvent \/ Acked
  BY <1>8 DEF StreamStep, Posted, OtherEvent, Acked
<1>9. CASE Entry
  BY <1>9 DEF Entry, Stopped, Fails, ConnectFails, Drop
<1>10. CASE PostFails \/ ReadFails
  BY <1>10 DEF PostFails, Fails, ConnectFails, Drop, ReadFails
<1>11. CASE Check
  BY <1>11 DEF Check, Stopped, Fails, ConnectFails, Drop
<1>12. CASE Answer
  BY <1>12 DEF Answer, Answered, Severed, MorePages
<1>13. CASE ReadEnds \/ RequestWoken
  BY <1>13 DEF ReadEnds, Fails, ConnectFails, Drop, RequestWoken
<1>14. CASE BudgetEnds
  BY <1>14 DEF BudgetEnds, Kill, Parked
<1>15. CASE GraceEnds
  BY <1>15 DEF GraceEnds, ConnectFails, Drop
<1>16. CASE ConnectsDone
  BY <1>16 DEF ConnectsDone, ClearsRequest
<1>17. CASE EngineStep
  BY <1>17 DEF EngineStep, ClearsRequest
<1>18. ASSUME NEW s \in Servers, Route(s) PROVE CorpseInv'
  BY <1>18 DEF Route
<1>19. CASE LeaveTurn
  BY <1>19 DEF LeaveTurn, ClearsRequest
<1>20. CASE StandDown \/ JoinEngine
  BY <1>20 DEF StandDown, JoinEngine
<1>21. CASE DropFleet
  BY <1>21 DEF DropFleet, Drop
<1>22. CASE Glance \/ Look \/ Snapshot \/ PassEnds
  BY <1>22 DEF Glance, Look, Snapshot, PassEnds
<1>23. ASSUME NEW s \in Servers, ExpireMark(s) PROVE CorpseInv'
  BY <1>23 DEF ExpireMark
<1>24. ASSUME NEW s \in Servers, ExpireKill(s) PROVE CorpseInv'
  BY <1>24 DEF ExpireKill, Kill
<1>25. CASE Stop \/ AtRest
  BY <1>25 DEF Stop, AtRest, vars
<1> HIDE DEF turn, thread, servers, registry, wires, watch, CorpseInv,
    KilledStaysKilled, TypeOK, PlaceInv, Connecting, Calling, Places,
    Killable, Stdio
<1> QED
  BY <1>1, <1>2, <1>3, <1>4, <1>5, <1>6, <1>7, <1>8, <1>9, <1>10, <1>11,
     <1>12, <1>13, <1>14, <1>15, <1>16, <1>17, <1>18, <1>19, <1>20, <1>21,
     <1>22, <1>23, <1>24, <1>25, NextActions

\* What a pass leaves out is one connect.
LEMMA FireStep ==
  ASSUME TypeOK, PlaceInv, RegistryInv, FireInv, Next PROVE FireInv'
<1> USE FleetAssumption, FleetFacts DEF turn, thread, servers, registry,
    wires, watch, FireInv, TypeOK, PlaceInv, RegistryInv, Connecting, Calling,
    Places
<1>1. CASE Arm
  BY <1>1 DEF Arm
<1>2. CASE Gap
  BY <1>2 DEF Gap, CancelSeen
<1>3. CASE Register
  BY <1>3 DEF Register
<1>4. CASE Open
  BY <1>4 DEF Open
<1>5. CASE OpenFails \/ StreamFails \/ AckFails \/ TooManyPages
  BY <1>5 DEF OpenFails, ConnectFails, Drop, StreamFails, AckFails,
     TooManyPages, MorePages
<1>6. CASE Publish
  BY <1>6 DEF Publish
<1>7. CASE Recheck
  BY <1>7 DEF Recheck, AlreadyExpired, Kill
<1>8. CASE StreamStep \/ Posted \/ OtherEvent \/ Acked
  BY <1>8 DEF StreamStep, Posted, OtherEvent, Acked
<1>9. CASE Entry
  BY <1>9 DEF Entry, Stopped, Fails, ConnectFails, Drop
<1>10. CASE PostFails \/ ReadFails
  BY <1>10 DEF PostFails, Fails, ConnectFails, Drop, ReadFails
<1>11. CASE Check
  BY <1>11 DEF Check, Stopped, Fails, ConnectFails, Drop
<1>12. CASE Answer
  BY <1>12 DEF Answer, Answered, Severed, MorePages
<1>13. CASE ReadEnds \/ RequestWoken
  BY <1>13 DEF ReadEnds, Fails, ConnectFails, Drop, RequestWoken
<1>14. CASE BudgetEnds
  BY <1>14 DEF BudgetEnds, Kill, Parked
<1>15. CASE GraceEnds
  BY <1>15 DEF GraceEnds, ConnectFails, Drop
<1>16. CASE ConnectsDone
  BY <1>16 DEF ConnectsDone, ClearsRequest
<1>17. CASE EngineStep
  BY <1>17 DEF EngineStep, ClearsRequest
<1>18. ASSUME NEW s \in Servers, Route(s) PROVE FireInv'
  BY <1>18 DEF Route
<1>19. CASE LeaveTurn
  BY <1>19 DEF LeaveTurn, ClearsRequest
<1>20. CASE StandDown \/ JoinEngine
  BY <1>20 DEF StandDown, JoinEngine
<1>21. CASE DropFleet
  BY <1>21 DEF DropFleet, Drop
<1>22. CASE Glance \/ Look \/ Snapshot \/ PassEnds
  BY <1>22 DEF Glance, Look, Snapshot, PassEnds
<1>23. ASSUME NEW s \in Servers, ExpireMark(s) PROVE FireInv'
  BY <1>23 DEF ExpireMark
<1>24. ASSUME NEW s \in Servers, ExpireKill(s) PROVE FireInv'
  BY <1>24 DEF ExpireKill, Kill
<1>25. CASE Stop \/ AtRest
  BY <1>25 DEF Stop, AtRest, vars
<1> HIDE DEF turn, thread, servers, registry, wires, watch, FireInv, TypeOK,
    PlaceInv, RegistryInv, Connecting, Calling, Places
<1> QED
  BY <1>1, <1>2, <1>3, <1>4, <1>5, <1>6, <1>7, <1>8, <1>9, <1>10, <1>11,
     <1>12, <1>13, <1>14, <1>15, <1>16, <1>17, <1>18, <1>19, <1>20, <1>21,
     <1>22, <1>23, <1>24, <1>25, NextActions

\* The parts carry one another.
LEMMA InvStep == ASSUME Inv, [Next]_vars PROVE Inv'
<1>1. CASE Next
  BY <1>1, TypeStep, PlaceStep, RegistryStep, KillStep, CorpseStep, FireStep
     DEF Inv
<1>2. CASE UNCHANGED vars
  BY <1>2
     DEF Inv, vars, turn, thread, servers, registry, wires, watch, TypeOK,
         PlaceInv, RegistryInv, ExpiredMeansKilled, CorpseInv, FireInv,
         KilledStaysKilled, Connecting, Calling
<1> QED
  BY <1>1, <1>2

\* The inductive invariant of the fleet's threads (connect_one, route and the
\* watcher).
THEOREM Invariance == Spec => []Inv
<1>1. Init => Inv
  BY InitInv
<1>2. Inv /\ [Next]_vars => Inv'
  BY InvStep
<1> QED
  BY <1>1, <1>2, PTL DEF Spec

\* Every variable of the turn's fleet keeps its type, for any list of servers
\* and any page cap (mcp/aggregator.rs, mcp/client.rs).
THEOREM TypeCorrect == Spec => []TypeOK
  BY Invariance, PTL DEF Inv

\* ConnectKill's promise: whichever comes first, publish or expire, no slot that
\* has expired keeps a live handle once both are through.
THEOREM ExpiredMeansKilledHolds == Spec => []ExpiredMeansKilled
  BY Invariance, PTL DEF Inv

\* route and the transports: a call that begins on a killed transport returns no
\* answer.
THEOREM KilledStaysKilledHolds == Spec => []KilledStaysKilled
  BY Invariance, PTL DEF Inv, CorpseInv

\* The one that is missed: past the gap check, before its slot or its handle.
LEMMA FireMissesOne == Inv => OneMissedPerFire
<1> SUFFICES ASSUME Inv, watcher = "fired", ~wiped,
                    NEW s \in Live, NEW t \in Live
             PROVE  s = t
  BY DEF OneMissedPerFire
<1>1. /\ mark = None /\ s \in slots /\ t \in slots
      /\ s \in Servers /\ t \in Servers /\ None \notin Servers
  BY FleetFacts DEF Inv, FireInv, RegistryInv, Live, TypeOK
<1>2. ASSUME NEW u \in {s, t}, u \in marked
      PROVE  u = cur /\ at \in {"publish", "recheck"}
  BY <1>1, <1>2 DEF Inv, RegistryInv, ExpiredMeansKilled, Live
<1>3. at \in {"publish", "recheck"} => slots \ marked \subseteq {cur}
  BY DEF Inv, FireInv, Connecting
<1>4. \A u, v \in slots \ marked : u = v
  BY DEF Inv, FireInv
<1> QED
  BY <1>1, <1>2, <1>3, <1>4

\* arm_cancel_teardown's comment: a fire misses at most the one connect that had
\* passed the gap check, unless the engine wiped the stop meanwhile.
THEOREM OneMissedPerFireHolds == Spec => []OneMissedPerFire
  BY Invariance, FireMissesOne, PTL
=============================================================================
