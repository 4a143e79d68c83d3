------------------------ MODULE SensorRegistry_proofs ------------------------
(***************************************************************************)
(* Theorems about SensorRegistry, for every value of its constants.        *)
(***************************************************************************)
EXTENDS SensorRegistry, TLAPS

-----------------------------------------------------------------------------
(* Type correctness.                                                       *)

LEMMA Bounds ==
    0 \in 0..SyncPeriod /\ SyncPeriod \in 0..SyncPeriod /\ 0 \in 0..MaxAge
BY TimesAssumption DEF MaxAge

LEMMA UpdateRowTypes ==
    ASSUME TypeOK, NEW k \in Keys, NEW column \in Fields, NEW next \in ReqSteps,
           UpdateRow(k, column, next), age' \in [Keys -> 0..MaxAge]
    PROVE  TypeOK'
<1>1. fields \in [Keys -> SUBSET Fields] /\ req \in [Keys -> ReqSteps \cup Answers \cup {"idle"}]
  BY DEF TypeOK
<1>2. fields' \in [Keys -> SUBSET Fields]
  BY <1>1 DEF UpdateRow
<1>3. req' \in [Keys -> ReqSteps \cup Answers \cup {"idle"}]
  BY <1>1 DEF UpdateRow, Answers
<1>4. UNCHANGED <<wrapper, api, sync, dereg, pruning, chal, owner, db, gone, c2, faults>>
  BY DEF UpdateRow
<1> QED
  BY <1>2, <1>3, <1>4 DEF TypeOK, wrapper, pruning

LEMMA DeleteRowTypes ==
    ASSUME TypeOK, NEW k \in Keys, DeleteRow(k)
    PROVE  /\ db' \subseteq Keys
           /\ gone' \subseteq Keys
           /\ chal' \in [Keys -> {"none", "issued", "signed", "linked"}]
           /\ owner' \in [Keys -> Sensors \cup {None}]
           /\ fields' \in [Keys -> SUBSET Fields]
           /\ age' \in [Keys -> 0..MaxAge]
<1> USE Bounds DEF TypeOK, DeleteRow
<1>2. db' \subseteq Keys /\ gone' \subseteq Keys
  OBVIOUS
<1>3. chal' \in [Keys -> {"none", "issued", "signed", "linked"}]
  OBVIOUS
<1>4. fields' \in [Keys -> SUBSET Fields]
  OBVIOUS
<1>5. age' \in [Keys -> 0..MaxAge]
  OBVIOUS
<1> QED
  BY <1>2, <1>3, <1>4, <1>5

LEMMA CreateSensorTypes ==
    ASSUME TypeOK, NEW k \in Keys, CreateSensor(k)
    PROVE  TypeOK'
<1>1. /\ req \in [Keys -> ReqSteps \cup Answers \cup {"idle"}]
      /\ age \in [Keys -> 0..MaxAge]
      /\ db \subseteq Keys
  BY DEF TypeOK
<1>2. req' \in [Keys -> ReqSteps \cup Answers \cup {"idle"}]
  BY <1>1 DEF CreateSensor, Answers, ReqSteps
<1>3. age' \in [Keys -> 0..MaxAge]
  BY <1>1, Bounds DEF CreateSensor, rows
<1>4. db' \subseteq Keys
  BY <1>1 DEF CreateSensor, rows
<1>5. UNCHANGED <<wrapper, api, sync, dereg, pruning, chal, owner, fields, gone, c2, faults>>
  BY DEF CreateSensor, rows
<1> QED
  BY <1>2, <1>3, <1>4, <1>5 DEF TypeOK, wrapper, pruning

LEMMA LinkAuthChallengeTypes ==
    ASSUME TypeOK, NEW k \in Keys, LinkAuthChallenge(k)
    PROVE  TypeOK'
<1>1. /\ req \in [Keys -> ReqSteps \cup Answers \cup {"idle"}]
      /\ chal \in [Keys -> {"none", "issued", "signed", "linked"}]
  BY DEF TypeOK
<1>2. req' \in [Keys -> ReqSteps \cup Answers \cup {"idle"}]
  BY <1>1 DEF LinkAuthChallenge, Answers, ReqSteps
<1>3. chal' \in [Keys -> {"none", "issued", "signed", "linked"}]
  BY <1>1 DEF LinkAuthChallenge
<1>4. UNCHANGED <<wrapper, api, sync, dereg, pruning, owner, db, fields, age, gone, c2, faults>>
  BY DEF LinkAuthChallenge, rows
<1> QED
  BY <1>2, <1>3, <1>4 DEF TypeOK, wrapper, pruning

LEMMA SyncUpdateTypes ==
    ASSUME TypeOK, NEW k \in Keys, SyncUpdate(k)
    PROVE  TypeOK'
<1>1. sync \in [Keys -> SyncSteps \cup Answers \cup {"idle"}] /\ age \in [Keys -> 0..MaxAge]
  BY DEF TypeOK
<1>2. sync' \in [Keys -> SyncSteps \cup Answers \cup {"idle"}]
  BY <1>1 DEF SyncUpdate, Answers
<1>3. age' \in [Keys -> 0..MaxAge]
  BY <1>1, Bounds DEF SyncUpdate
<1>4. UNCHANGED <<wrapper, api, req, dereg, pruning, chal, owner, db, fields, gone, c2, faults>>
  BY DEF SyncUpdate
<1> QED
  BY <1>2, <1>3, <1>4 DEF TypeOK, wrapper, pruning

LEMMA DeregisterDeleteTypes ==
    ASSUME TypeOK, NEW k \in Keys, DeregisterDelete(k)
    PROVE  TypeOK'
<1>1. dereg \in [Keys -> DeregSteps \cup Answers \cup {"idle"}]
  BY DEF TypeOK
<1>2. dereg' \in [Keys -> DeregSteps \cup Answers \cup {"idle"}]
  BY <1>1 DEF DeregisterDelete, DeregSteps, Answers
<1>3. UNCHANGED <<wrapper, api, req, sync, pruning, c2, faults>>
  BY DEF DeregisterDelete
<1>4. CASE k \in db
  <2>1. DeleteRow(k)
    BY <1>4 DEF DeregisterDelete
  <2> QED
    BY <1>2, <1>3, <2>1, DeleteRowTypes DEF TypeOK, wrapper, pruning
<1>5. CASE k \notin db
  <2>1. UNCHANGED <<rows, chal>>
    BY <1>5 DEF DeregisterDelete
  <2> QED
    BY <1>2, <1>3, <2>1 DEF TypeOK, wrapper, pruning, rows
<1> QED
  BY <1>4, <1>5

LEMMA DropAnswerTypes ==
    ASSUME TypeOK, NEW k \in Keys, DropAnswer(k)
    PROVE  TypeOK'
<1>1. /\ req \in [Keys -> ReqSteps \cup Answers \cup {"idle"}]
      /\ sync \in [Keys -> SyncSteps \cup Answers \cup {"idle"}]
      /\ dereg \in [Keys -> DeregSteps \cup Answers \cup {"idle"}]
  BY DEF TypeOK
<1>2. req' \in [Keys -> ReqSteps \cup Answers \cup {"idle"}]
  BY <1>1 DEF DropAnswer
<1>3. sync' \in [Keys -> SyncSteps \cup Answers \cup {"idle"}]
  BY <1>1 DEF DropAnswer
<1>4. dereg' \in [Keys -> DeregSteps \cup Answers \cup {"idle"}]
  BY <1>1 DEF DropAnswer
<1>5. UNCHANGED <<wrapper, api, pruning, chal, rows, c2, faults>>
  BY DEF DropAnswer
<1> QED
  BY <1>2, <1>3, <1>4, <1>5 DEF TypeOK, wrapper, pruning, rows

LEMMA PruneDeleteTypes ==
    ASSUME TypeOK, NEW p \in Pruners, NEW k \in Keys, PruneDelete(p, k)
    PROVE  TypeOK'
<1>1. UNCHANGED <<wrapper, api, handlers, c2, faults>>
  BY DEF PruneDelete
<1>2. CASE k \in db
  <2>1. DeleteRow(k)
    BY <1>2 DEF PruneDelete
  <2>2. /\ todo \in [Pruners -> SUBSET Keys]
        /\ bare \in [Pruners -> SUBSET Keys]
        /\ deleted \in [Pruners -> Keys \cup {None}]
    BY DEF TypeOK
  <2>3. todo' \in [Pruners -> SUBSET Keys]
    BY <1>2, <2>2 DEF PruneDelete
  <2>4. bare' \in [Pruners -> SUBSET Keys] /\ deleted' \in [Pruners -> Keys \cup {None}]
    BY <1>2, <2>2 DEF PruneDelete
  <2> QED
    BY <1>1, <2>1, <2>3, <2>4, DeleteRowTypes DEF TypeOK, wrapper, handlers
<1>3. CASE k \notin db
  <2>1. UNCHANGED <<rows, chal, deleted>> /\ EndRun(p)
    BY <1>3 DEF PruneDelete
  <2>2. todo' \in [Pruners -> SUBSET Keys] /\ bare' \in [Pruners -> SUBSET Keys]
    BY <2>1 DEF EndRun, TypeOK
  <2> QED
    BY <1>1, <2>1, <2>2 DEF TypeOK, wrapper, handlers, rows
<1> QED
  BY <1>2, <1>3

LEMMA PruneAnnounceTypes ==
    ASSUME TypeOK, NEW p \in Pruners, PruneAnnounce(p)
    PROVE  TypeOK'
<1>1. UNCHANGED <<wrapper, api, handlers, chal, rows, faults>>
  BY DEF PruneAnnounce
<1>2. deleted' \in [Pruners -> Keys \cup {None}]
  BY DEF PruneAnnounce, TypeOK
<1>3. /\ todo \in [Pruners -> SUBSET Keys]
      /\ bare \in [Pruners -> SUBSET Keys]
      /\ c2 \in [Keys -> Seq({"registration", "deregistration"})]
  BY DEF TypeOK
<1>4. todo' \in [Pruners -> SUBSET Keys] /\ bare' \in [Pruners -> SUBSET Keys]
  BY <1>3 DEF PruneAnnounce, EndRun
<1>5. c2' \in [Keys -> Seq({"registration", "deregistration"})]
  <2>1. CASE c2' = [c2 EXCEPT ![deleted[p]] = Append(@, "deregistration")]
    <3>1. deleted[p] \in Keys
      BY DEF PruneAnnounce, TypeOK
    <3>2. Append(c2[deleted[p]], "deregistration") \in Seq({"registration", "deregistration"})
      BY <1>3, <3>1
    <3> QED
      BY <1>3, <2>1, <3>1, <3>2
  <2> QED
    BY <1>3, <2>1 DEF PruneAnnounce
<1> QED
  BY <1>1, <1>2, <1>4, <1>5 DEF TypeOK, wrapper, handlers, rows

LEMMA PruneSelectTypes ==
    ASSUME TypeOK, NEW p \in Pruners, PruneSelect(p)
    PROVE  TypeOK'
<1>1. todo \in [Pruners -> SUBSET Keys] /\ bare \in [Pruners -> SUBSET Keys]
  BY DEF TypeOK
<1>2. todo' \in [Pruners -> SUBSET Keys]
  BY <1>1 DEF PruneSelect
<1>3. bare' \in [Pruners -> SUBSET Keys]
  BY <1>1 DEF PruneSelect
<1>4. UNCHANGED <<wrapper, api, handlers, deleted, chal, rows, c2, faults>>
  BY DEF PruneSelect
<1> QED
  BY <1>2, <1>3, <1>4 DEF TypeOK, wrapper, handlers, rows

LEMMA CrashApiTypes ==
    ASSUME TypeOK, CrashApi
    PROVE  TypeOK'
<1>1. req' \in [Keys -> ReqSteps \cup Answers \cup {"idle"}]
  BY DEF CrashApi, Answers
<1>2. sync' \in [Keys -> SyncSteps \cup Answers \cup {"idle"}]
  BY DEF CrashApi, Answers
<1>3. dereg' \in [Keys -> DeregSteps \cup Answers \cup {"idle"}]
  BY DEF CrashApi, Answers
<1>4. /\ todo' \in [Pruners -> SUBSET Keys]
      /\ bare' \in [Pruners -> SUBSET Keys]
      /\ deleted' \in [Pruners -> Keys \cup {None}]
  BY DEF CrashApi
<1>5. api' = FALSE /\ UNCHANGED <<wrapper, chal, rows, c2>>
  BY DEF CrashApi
<1>6. faults' \in Nat
  BY DEF CrashApi, Fault, TypeOK
<1> QED
  BY <1>1, <1>2, <1>3, <1>4, <1>5, <1>6 DEF TypeOK, wrapper, rows

LEMMA TickTypes ==
    ASSUME TypeOK, Tick
    PROVE  TypeOK'
<1>1. age' \in [Keys -> 0..MaxAge]
  BY TimesAssumption DEF Tick, TypeOK, MaxAge
<1>2. timer' \in [Sensors -> 0..SyncPeriod]
  BY TimesAssumption DEF Tick, TypeOK
<1>3. UNCHANGED <<pc, key, heartbeat, api, handlers, pruning, chal, owner, db,
                 fields, gone, c2, faults>>
  BY DEF Tick
<1> QED
  BY <1>1, <1>2, <1>3 DEF TypeOK, handlers, pruning

LEMMA TypeStep == TypeOK /\ [Next]_vars => TypeOK'
<1> SUFFICES ASSUME TypeOK, [Next]_vars PROVE TypeOK'
  OBVIOUS
<1> USE Bounds
    DEF TypeOK, PCs, Waiting, ReqSteps, SyncSteps, DeregSteps, Answers,
        Fields, wrapper, handlers, pruning, rows
<1>1. ASSUME NEW s \in Sensors, Start(s) PROVE TypeOK'
  BY <1>1 DEF Start
<1>2. ASSUME NEW s \in Sensors, WaitForSensorApi(s) PROVE TypeOK'
  BY <1>2 DEF WaitForSensorApi
<1>3. ASSUME NEW s \in Sensors, Retry(s) PROVE TypeOK'
  BY <1>3 DEF Retry
<1>4. ASSUME NEW s \in Sensors, RequestSignedPublicKey(s) PROVE TypeOK'
  BY <1>4 DEF RequestSignedPublicKey, Sent
<1>5. ASSUME NEW s \in Sensors, RequestRegistration(s) PROVE TypeOK'
  BY <1>5 DEF RequestRegistration, Sent
<1>6. ASSUME NEW s \in Sensors, StartSensing(s) PROVE TypeOK'
  BY <1>6 DEF StartSensing
<1>7. ASSUME NEW s \in Sensors, FailCycle(s) PROVE TypeOK'
  BY <1>7 DEF FailCycle, AbandonCycle
<1>8. ASSUME NEW s \in Sensors, SendSync(s) PROVE TypeOK'
  BY <1>8 DEF SendSync, Sent
<1>9. ASSUME NEW s \in Sensors, EndSync(s) PROVE TypeOK'
  BY <1>9 DEF EndSync
<1>10. ASSUME NEW s \in Sensors, FailSync(s) PROVE TypeOK'
  BY <1>10 DEF FailSync
<1>11. ASSUME NEW s \in Sensors, EndDeregistration(s) PROVE TypeOK'
  <2>1. PICK next \in AfterMain(s) : LeaveMain(s, next)
    BY <1>11 DEF EndDeregistration
  <2>2. next \in PCs
    BY DEF AfterMain
  <2> QED
    BY <1>11, <2>1, <2>2 DEF EndDeregistration, LeaveMain
<1>12. ASSUME NEW s \in Sensors, FailDeregistration(s) PROVE TypeOK'
  BY <1>12 DEF FailDeregistration, LeaveMain
<1>13. ASSUME NEW s \in Sensors, LoseConnection(s) PROVE TypeOK'
  BY <1>13 DEF LoseConnection, AbandonCycle, Fault
<1>14. ASSUME NEW s \in Sensors, LoseSyncConnection(s) PROVE TypeOK'
  BY <1>14 DEF LoseSyncConnection, Fault
<1>15. ASSUME NEW s \in Sensors, LoseDeregConnection(s) PROVE TypeOK'
  BY <1>15 DEF LoseDeregConnection, LeaveMain, Fault
<1>16. ASSUME NEW s \in Sensors, CrashSensor(s) PROVE TypeOK'
  BY <1>16 DEF CrashSensor, LeaveMain, Fault
<1>17. ASSUME NEW s \in Sensors, Terminate(s) PROVE TypeOK'
  BY <1>17 DEF Terminate, Sent
<1>18. ASSUME NEW s \in Sensors, NEW k \in Keys, RequestPrivateKey(s, k) PROVE TypeOK'
  <2>1. fields' \in [Keys -> SUBSET Fields] /\ gone' \subseteq Keys
    BY <1>18 DEF RequestPrivateKey
  <2>2. c2' \in [Keys -> Seq({"registration", "deregistration"})]
    BY <1>18 DEF RequestPrivateKey
  <2>3. req' \in [Keys -> ReqSteps \cup Answers \cup {"idle"}] /\ pc' \in [Sensors -> PCs]
    BY <1>18 DEF RequestPrivateKey, Sent
  <2> QED
    BY <1>18, <2>1, <2>2, <2>3 DEF RequestPrivateKey
<1>19. ASSUME NEW k \in Keys, IssuePrivateKey(k) PROVE TypeOK'
  BY <1>19 DEF IssuePrivateKey
<1>20. ASSUME NEW k \in Keys, VerifyChallenge(k) PROVE TypeOK'
  BY <1>20 DEF VerifyChallenge
<1>21. ASSUME NEW k \in Keys, SignPublicKey(k) PROVE TypeOK'
  BY <1>21 DEF SignPublicKey
<1>22. ASSUME NEW k \in Keys, VerifyRemoteSensor(k) PROVE TypeOK'
  BY <1>22 DEF VerifyRemoteSensor
<1>23. ASSUME NEW k \in Keys, CreateSensor(k) PROVE TypeOK'
  BY <1>23, CreateSensorTypes
<1>24. ASSUME NEW k \in Keys, AssignComponent(k) PROVE TypeOK'
  BY <1>24, UpdateRowTypes DEF AssignComponent
<1>25. ASSUME NEW k \in Keys, AssignConfiguration(k) PROVE TypeOK'
  BY <1>25, UpdateRowTypes DEF AssignConfiguration
<1>26. ASSUME NEW k \in Keys, MarkAsRegistered(k) PROVE TypeOK'
  <2>1. age' \in [Keys -> 0..MaxAge]
    BY <1>26 DEF MarkAsRegistered
  <2> QED
    BY <1>26, <2>1, UpdateRowTypes DEF MarkAsRegistered
<1>27. ASSUME NEW k \in Keys, MarkHasCertificates(k) PROVE TypeOK'
  BY <1>27, UpdateRowTypes DEF MarkHasCertificates
<1>28. ASSUME NEW k \in Keys, LinkAuthChallenge(k) PROVE TypeOK'
  BY <1>28, LinkAuthChallengeTypes
<1>29. ASSUME NEW k \in Keys, AnnounceNewSensor(k) PROVE TypeOK'
  BY <1>29 DEF AnnounceNewSensor
<1>30. ASSUME NEW k \in Keys, SyncGet(k) PROVE TypeOK'
  BY <1>30 DEF SyncGet
<1>31. ASSUME NEW k \in Keys, SyncUpdate(k) PROVE TypeOK'
  BY <1>31, SyncUpdateTypes
<1>32. ASSUME NEW k \in Keys, DeregisterGet(k) PROVE TypeOK'
  BY <1>32 DEF DeregisterGet
<1>33. ASSUME NEW k \in Keys, DeregisterDelete(k) PROVE TypeOK'
  BY <1>33, DeregisterDeleteTypes
<1>34. ASSUME NEW k \in Keys, DeregisterAnnounce(k) PROVE TypeOK'
  BY <1>34 DEF DeregisterAnnounce
<1>35. ASSUME NEW k \in Keys, DropAnswer(k) PROVE TypeOK'
  BY <1>35, DropAnswerTypes
<1>36. ASSUME NEW k \in Keys, FailRequest(k) PROVE TypeOK'
  BY <1>36 DEF FailRequest, Fault
<1>37. ASSUME NEW k \in Keys, FailSyncRequest(k) PROVE TypeOK'
  BY <1>37 DEF FailSyncRequest, Fault
<1>38. ASSUME NEW k \in Keys, FailDeregRequest(k) PROVE TypeOK'
  BY <1>38 DEF FailDeregRequest, Fault
<1>39. ASSUME NEW p \in Pruners, PruneSelect(p) PROVE TypeOK'
  BY <1>39, PruneSelectTypes
<1>40. ASSUME NEW p \in Pruners, NEW k \in Keys, PruneDelete(p, k) PROVE TypeOK'
  BY <1>40, PruneDeleteTypes
<1>41. ASSUME NEW p \in Pruners, PruneAnnounce(p) PROVE TypeOK'
  BY <1>41, PruneAnnounceTypes
<1>42. ASSUME NEW p \in Pruners, FailPrune(p) PROVE TypeOK'
  BY <1>42 DEF FailPrune, EndRun, Fault
<1>43. ASSUME StartApi PROVE TypeOK'
  BY <1>43 DEF StartApi
<1>44. ASSUME CrashApi PROVE TypeOK'
  BY <1>44, CrashApiTypes
<1>45. ASSUME Tick PROVE TypeOK'
  BY <1>45, TickTypes
<1>46. ASSUME UNCHANGED vars PROVE TypeOK'
  BY <1>46 DEF vars
<1> HIDE DEF TypeOK, PCs, Waiting, ReqSteps, SyncSteps, DeregSteps, Answers,
        Fields, wrapper, handlers, pruning, rows
<1> QED
  BY <1>1, <1>2, <1>3, <1>4, <1>5, <1>6, <1>7, <1>8, <1>9, <1>10, <1>11,
     <1>12, <1>13, <1>14, <1>15, <1>16, <1>17, <1>18, <1>19, <1>20, <1>21,
     <1>22, <1>23, <1>24, <1>25, <1>26, <1>27, <1>28, <1>29, <1>30, <1>31,
     <1>32, <1>33, <1>34, <1>35, <1>36, <1>37, <1>38, <1>39, <1>40, <1>41,
     <1>42, <1>43, <1>44, <1>45, <1>46
  DEF Next, WrapperStep, WrapperFault, HandlerStep, HandlerFault, PruneStep

\* The state of wrappers, handlers, prune runs and tables keeps its type.
THEOREM TypeCorrect == Spec => []TypeOK
<1>1. Init => TypeOK
  <2> USE DEF Init
  <2>1. Init => c2 \in [Keys -> Seq({"registration", "deregistration"})]
    OBVIOUS
  <2>2. Init => age \in [Keys -> 0..MaxAge] /\ timer \in [Sensors -> 0..SyncPeriod]
    BY Bounds
  <2>3. Init => /\ req \in [Keys -> ReqSteps \cup Answers \cup {"idle"}]
                /\ sync \in [Keys -> SyncSteps \cup Answers \cup {"idle"}]
                /\ dereg \in [Keys -> DeregSteps \cup Answers \cup {"idle"}]
    OBVIOUS
  <2>4. Init => pc \in [Sensors -> PCs]
    BY DEF PCs
  <2>5. Init => /\ todo \in [Pruners -> SUBSET Keys]
                /\ bare \in [Pruners -> SUBSET Keys]
                /\ deleted \in [Pruners -> Keys \cup {None}]
    OBVIOUS
  <2>6. Init => /\ key \in [Sensors -> Keys \cup {None}]
                /\ heartbeat \in [Sensors -> BOOLEAN]
                /\ fields \in [Keys -> SUBSET Fields]
    OBVIOUS
  <2>7. Init => /\ chal \in [Keys -> {"none", "issued", "signed", "linked"}]
                /\ owner \in [Keys -> Sensors \cup {None}]
    OBVIOUS
  <2>8. Init => api \in BOOLEAN
    BY Zenon
  <2>9. Init => db \subseteq Keys /\ gone \subseteq Keys
    OBVIOUS
  <2>10. Init => faults \in Nat
    OBVIOUS
  <2> HIDE DEF Init
  <2> QED
    BY <2>1, <2>2, <2>3, <2>4, <2>5, <2>6, <2>7, <2>8, <2>9, <2>10
    DEF TypeOK
<1> QED
  BY <1>1, TypeStep, PTL DEF Spec

-----------------------------------------------------------------------------
(* The inductive invariant.  Shape is the part of TypeOK it needs; each of *)
(* its four parts is preserved by every step.                              *)

Shape ==
    /\ pc \in [Sensors -> PCs] /\ key \in [Sensors -> Keys \cup {None}]
    /\ req \in [Keys -> ReqSteps \cup Answers \cup {"idle"}]
    /\ dereg \in [Keys -> DeregSteps \cup Answers \cup {"idle"}]
    /\ deleted \in [Pruners -> Keys \cup {None}]
    /\ chal \in [Keys -> {"none", "issued", "signed", "linked"}]
    /\ owner \in [Keys -> Sensors \cup {None}]
    /\ db \subseteq Keys /\ gone \subseteq Keys
    /\ fields \in [Keys -> SUBSET Fields]
    /\ c2 \in [Keys -> Seq({"registration", "deregistration"})]

LEMMA ShapeFromTypes == TypeOK => Shape
BY DEF TypeOK, Shape

LEMMA WrapperInvStep ==
    ASSUME Shape, Shape', RegistryInv, [Next]_vars, NEW s \in Sensors
    PROVE  WrapperInv(s)'
<1> USE SetsAssumption DEF Shape, RegistryInv, wrapper, handlers, pruning, rows
<1>1. ASSUME NEW a \in Sensors, Start(a)
      PROVE  WrapperInv(s)'
  BY <1>1 DEF Start, WrapperInv, RowInv, Settled, Complete, Heard, RowSteps,
      EarlySteps, ReqSteps, Answers, Waiting
<1>2. ASSUME NEW a \in Sensors, WaitForSensorApi(a)
      PROVE  WrapperInv(s)'
  BY <1>2 DEF WaitForSensorApi, WrapperInv, RowInv, Settled, Complete,
      Heard, RowSteps, EarlySteps, ReqSteps, Answers, Waiting
<1>3. ASSUME NEW a \in Sensors, Retry(a)
      PROVE  WrapperInv(s)'
  BY <1>3 DEF Retry, WrapperInv, RowInv, Settled, Complete, Heard, RowSteps,
      EarlySteps, ReqSteps, Answers, Waiting
<1>4. ASSUME NEW a \in Sensors, RequestSignedPublicKey(a)
      PROVE  WrapperInv(s)'
  BY <1>4 DEF RequestSignedPublicKey, Sent, WrapperInv, RowInv, Settled,
      Complete, Heard, RowSteps, EarlySteps, ReqSteps, Answers, Waiting
<1>5. ASSUME NEW a \in Sensors, RequestRegistration(a)
      PROVE  WrapperInv(s)'
  BY <1>5 DEF RequestRegistration, Sent, WrapperInv, RowInv, Settled,
      Complete, Heard, RowSteps, EarlySteps, ReqSteps, Answers, Waiting
<1>6. ASSUME NEW a \in Sensors, StartSensing(a)
      PROVE  WrapperInv(s)'
  BY <1>6 DEF StartSensing, WrapperInv, RowInv, Settled, Complete, Heard,
      RowSteps, EarlySteps, ReqSteps, Answers, Waiting
<1>7. ASSUME NEW a \in Sensors, FailCycle(a)
      PROVE  WrapperInv(s)'
  BY <1>7 DEF FailCycle, AbandonCycle, WrapperInv, RowInv, Settled,
      Complete, Heard, RowSteps, EarlySteps, ReqSteps, Answers, Waiting
<1>8. ASSUME NEW a \in Sensors, SendSync(a)
      PROVE  WrapperInv(s)'
  BY <1>8 DEF SendSync, Sent, WrapperInv, Settled, Complete, Heard
<1>9. ASSUME NEW a \in Sensors, EndSync(a)
      PROVE  WrapperInv(s)'
  BY <1>9 DEF EndSync, WrapperInv, Settled, Complete, Heard
<1>10. ASSUME NEW a \in Sensors, FailSync(a)
      PROVE  WrapperInv(s)'
  BY <1>10 DEF FailSync, WrapperInv, Settled, Complete, Heard
<1>11. ASSUME NEW a \in Sensors, EndDeregistration(a)
      PROVE  WrapperInv(s)'
  BY <1>11 DEF EndDeregistration, AfterMain, LeaveMain, WrapperInv, RowInv,
      Settled, Complete, Heard, RowSteps, EarlySteps, ReqSteps, Answers,
      Waiting
<1>12. ASSUME NEW a \in Sensors, FailDeregistration(a)
      PROVE  WrapperInv(s)'
  BY <1>12 DEF FailDeregistration, LeaveMain, WrapperInv, RowInv, Settled,
      Complete, Heard, RowSteps, EarlySteps, ReqSteps, Answers, Waiting
<1>13. ASSUME NEW a \in Sensors, LoseConnection(a)
      PROVE  WrapperInv(s)'
  BY <1>13 DEF LoseConnection, AbandonCycle, WrapperInv, RowInv, Settled,
      Complete, Heard, RowSteps, EarlySteps, ReqSteps, Answers, Waiting
<1>14. ASSUME NEW a \in Sensors, LoseSyncConnection(a)
      PROVE  WrapperInv(s)'
  BY <1>14 DEF LoseSyncConnection, WrapperInv, Settled, Complete, Heard
<1>15. ASSUME NEW a \in Sensors, LoseDeregConnection(a)
      PROVE  WrapperInv(s)'
  BY <1>15 DEF LoseDeregConnection, LeaveMain, WrapperInv, RowInv, Settled,
      Complete, Heard, RowSteps, EarlySteps, ReqSteps, Answers, Waiting
<1>16. ASSUME NEW a \in Sensors, CrashSensor(a)
      PROVE  WrapperInv(s)'
  BY <1>16 DEF CrashSensor, LeaveMain, WrapperInv, RowInv, Settled,
      Complete, Heard, RowSteps, EarlySteps, ReqSteps, Answers, Waiting
<1>17. ASSUME NEW a \in Sensors, Terminate(a)
      PROVE  WrapperInv(s)'
  BY <1>17 DEF Terminate, Sent, WrapperInv, RowInv, Settled, Complete,
      Heard, RowSteps, EarlySteps, ReqSteps, Answers, Waiting
<1>18. ASSUME NEW a \in Sensors, NEW b \in Keys, RequestPrivateKey(a, b)
      PROVE  WrapperInv(s)'
  BY <1>18 DEF RequestPrivateKey, Sent, Fresh, WrapperInv, RowInv, Settled,
      Complete, Heard, RowSteps, EarlySteps, ReqSteps, Answers, Waiting
<1>19. ASSUME NEW b \in Keys, IssuePrivateKey(b)
      PROVE  WrapperInv(s)'
  BY <1>19 DEF IssuePrivateKey, WrapperInv, RowInv, Settled, Complete,
      Heard, RowSteps, EarlySteps, ReqSteps, Answers, Waiting
<1>20. ASSUME NEW b \in Keys, VerifyChallenge(b)
      PROVE  WrapperInv(s)'
  BY <1>20 DEF VerifyChallenge, WrapperInv, RowInv, Settled, Complete,
      Heard, RowSteps, EarlySteps, ReqSteps, Answers, Waiting
<1>21. ASSUME NEW b \in Keys, SignPublicKey(b)
      PROVE  WrapperInv(s)'
  BY <1>21 DEF SignPublicKey, WrapperInv, RowInv, Settled, Complete, Heard,
      RowSteps, EarlySteps, ReqSteps, Answers, Waiting
<1>22. ASSUME NEW b \in Keys, VerifyRemoteSensor(b)
      PROVE  WrapperInv(s)'
  BY <1>22 DEF VerifyRemoteSensor, WrapperInv, RowInv, Settled, Complete,
      Heard, RowSteps, EarlySteps, ReqSteps, Answers, Waiting
<1>23. ASSUME NEW b \in Keys, CreateSensor(b)
      PROVE  WrapperInv(s)'
  BY <1>23 DEF CreateSensor, WrapperInv, RowInv, Settled, Complete, Heard,
      RowSteps, EarlySteps, ReqSteps, Answers, Waiting
<1>24. ASSUME NEW b \in Keys, AssignComponent(b)
      PROVE  WrapperInv(s)'
  BY <1>24 DEF AssignComponent, UpdateRow, WrapperInv, RowInv, Settled,
      Complete, Heard, RowSteps, EarlySteps, ReqSteps, Answers, Waiting
<1>25. ASSUME NEW b \in Keys, AssignConfiguration(b)
      PROVE  WrapperInv(s)'
  BY <1>25 DEF AssignConfiguration, UpdateRow, WrapperInv, RowInv, Settled,
      Complete, Heard, RowSteps, EarlySteps, ReqSteps, Answers, Waiting
<1>26. ASSUME NEW b \in Keys, MarkAsRegistered(b)
      PROVE  WrapperInv(s)'
  BY <1>26 DEF MarkAsRegistered, UpdateRow, WrapperInv, RowInv, Settled,
      Complete, Heard, RowSteps, EarlySteps, ReqSteps, Answers, Waiting
<1>27. ASSUME NEW b \in Keys, MarkHasCertificates(b)
      PROVE  WrapperInv(s)'
  BY <1>27 DEF MarkHasCertificates, UpdateRow, WrapperInv, RowInv, Settled,
      Complete, Heard, RowSteps, EarlySteps, ReqSteps, Answers, Waiting
<1>28. ASSUME NEW b \in Keys, LinkAuthChallenge(b)
      PROVE  WrapperInv(s)'
  BY <1>28 DEF LinkAuthChallenge, WrapperInv, RowInv, Settled, Complete,
      Heard, RowSteps, EarlySteps, ReqSteps, Answers, Waiting
<1>29. ASSUME NEW b \in Keys, AnnounceNewSensor(b)
      PROVE  WrapperInv(s)'
  <2>1. CASE key[s] # b
    BY <1>29, <2>1 DEF AnnounceNewSensor, WrapperInv, Settled, Complete, Heard
  <2>2. CASE key[s] = b
    <3>1. Settled(b)
      <4>1. Written("announce") = Fields
        BY DEF Written
      <4>2. req[b] = "announce" /\ req[b] \in RowSteps
        BY <1>29 DEF AnnounceNewSensor, RowSteps, EarlySteps, ReqSteps
      <4>3. fields[b] \subseteq Fields /\ RowInv(b)
        OBVIOUS
      <4>4. b \in gone \/ (b \in db /\ fields[b] = Fields /\ chal[b] = "linked")
        <5> HIDE DEF Shape, RegistryInv
        <5> QED
          BY <4>1, <4>2, <4>3 DEF RowInv
      <4> QED
        BY <4>4 DEF Settled, Complete
    <3>2. pc[s] \notin {"await_key", "await_cert", "running", "await_dereg"}
      BY <1>29, <2>2 DEF AnnounceNewSensor, WrapperInv, Answers
    <3> QED
      BY <1>29, <2>2, <3>1, <3>2
      DEF AnnounceNewSensor, WrapperInv, Settled, Complete, Answers, Waiting
  <2> QED
    BY <2>1, <2>2
<1>30. ASSUME NEW b \in Keys, SyncGet(b)
      PROVE  WrapperInv(s)'
  BY <1>30 DEF SyncGet, WrapperInv, Settled, Complete, Heard
<1>31. ASSUME NEW b \in Keys, SyncUpdate(b)
      PROVE  WrapperInv(s)'
  BY <1>31 DEF SyncUpdate, WrapperInv, Settled, Complete, Heard
<1>32. ASSUME NEW b \in Keys, DeregisterGet(b)
      PROVE  WrapperInv(s)'
  BY <1>32 DEF DeregisterGet, WrapperInv, Settled, Complete, Heard
<1>33. ASSUME NEW b \in Keys, DeregisterDelete(b)
      PROVE  WrapperInv(s)'
  BY <1>33 DEF DeregisterDelete, DeleteRow, WrapperInv, RowInv, Settled,
      Complete, Heard, RowSteps, EarlySteps, ReqSteps, Answers, Waiting
<1>34. ASSUME NEW b \in Keys, DeregisterAnnounce(b)
      PROVE  WrapperInv(s)'
  BY <1>34 DEF DeregisterAnnounce, WrapperInv, RowInv, Settled, Complete,
      Heard, RowSteps, EarlySteps, ReqSteps, Answers, Waiting
<1>35. ASSUME NEW b \in Keys, DropAnswer(b)
      PROVE  WrapperInv(s)'
  BY <1>35 DEF DropAnswer, AwaitsReq, WrapperInv, RowInv, Settled, Complete,
      Heard, RowSteps, EarlySteps, ReqSteps, Answers, Waiting
<1>36. ASSUME NEW b \in Keys, FailRequest(b)
      PROVE  WrapperInv(s)'
  BY <1>36 DEF FailRequest, WrapperInv, RowInv, Settled, Complete, Heard,
      RowSteps, EarlySteps, ReqSteps, Answers, Waiting
<1>37. ASSUME NEW b \in Keys, FailSyncRequest(b)
      PROVE  WrapperInv(s)'
  BY <1>37 DEF FailSyncRequest, WrapperInv, Settled, Complete, Heard
<1>38. ASSUME NEW b \in Keys, FailDeregRequest(b)
      PROVE  WrapperInv(s)'
  BY <1>38 DEF FailDeregRequest, WrapperInv, Settled, Complete, Heard
<1>39. ASSUME NEW p \in Pruners, PruneSelect(p)
      PROVE  WrapperInv(s)'
  BY <1>39 DEF PruneSelect, WrapperInv, Settled, Complete, Heard
<1>40. ASSUME NEW p \in Pruners, NEW b \in Keys, PruneDelete(p, b)
      PROVE  WrapperInv(s)'
  BY <1>40 DEF PruneDelete, DeleteRow, EndRun, WrapperInv, RowInv, Settled,
      Complete, Heard, RowSteps, EarlySteps, ReqSteps, Answers, Waiting
<1>41. ASSUME NEW p \in Pruners, PruneAnnounce(p)
      PROVE  WrapperInv(s)'
  <2>1. CASE key[s] \notin Keys
    BY <1>41, <2>1 DEF PruneAnnounce, WrapperInv, Waiting
  <2>2. CASE key[s] \in Keys /\ key[s] # deleted[p]
    BY <1>41, <2>2 DEF PruneAnnounce, WrapperInv, Settled, Complete, Heard
  <2>3. CASE key[s] \in Keys /\ key[s] = deleted[p]
    <3>1. key[s] \in gone
      BY <1>41, <2>3 DEF PruneAnnounce, RemovalInv
    <3>2. pc[s] \notin {"await_key", "await_cert"}
      BY <3>1 DEF WrapperInv
    <3>3. UNCHANGED <<pc, key, req, chal, owner, db, fields, gone>>
      BY <1>41 DEF PruneAnnounce
    <3> QED
      BY <3>1, <3>2, <3>3 DEF WrapperInv, Settled, Complete, Waiting
  <2> QED
    BY <2>1, <2>2, <2>3
<1>42. ASSUME NEW p \in Pruners, FailPrune(p)
      PROVE  WrapperInv(s)'
  BY <1>42 DEF FailPrune, EndRun, WrapperInv, Settled, Complete, Heard
<1>43. ASSUME StartApi
      PROVE  WrapperInv(s)'
  BY <1>43 DEF StartApi, WrapperInv, Settled, Complete, Heard
<1>44. ASSUME CrashApi
      PROVE  WrapperInv(s)'
  <2>1. \A k \in Keys : req'[k] = IF req[k] = "idle" THEN "idle" ELSE "broken"
    BY <1>44 DEF CrashApi
  <2>2. UNCHANGED <<pc, key, owner, db, gone, chal, fields, c2>>
    BY <1>44 DEF CrashApi
  <2> QED
    BY <2>1, <2>2
    DEF WrapperInv, Settled, Complete, Heard, Answers, Waiting, EarlySteps,
        RowSteps, ReqSteps
<1>45. ASSUME Tick
      PROVE  WrapperInv(s)'
  BY <1>45 DEF Tick, WrapperInv, Settled, Complete, Heard
<1>46. ASSUME UNCHANGED vars
      PROVE  WrapperInv(s)'
  BY <1>46 DEF vars, WrapperInv, Settled, Complete, Heard
<1> HIDE DEF Shape, RegistryInv, wrapper, handlers, pruning, rows
<1> QED
  BY <1>1, <1>2, <1>3, <1>4, <1>5, <1>6, <1>7, <1>8, <1>9, <1>10, <1>11,
     <1>12, <1>13, <1>14, <1>15, <1>16, <1>17, <1>18, <1>19, <1>20, <1>21,
     <1>22, <1>23, <1>24, <1>25, <1>26, <1>27, <1>28, <1>29, <1>30, <1>31,
     <1>32, <1>33, <1>34, <1>35, <1>36, <1>37, <1>38, <1>39, <1>40, <1>41,
     <1>42, <1>43, <1>44, <1>45, <1>46
  DEF Next, WrapperStep, WrapperFault, HandlerStep, HandlerFault, PruneStep

LEMMA RowInvStep ==
    ASSUME Shape, Shape', RegistryInv, [Next]_vars, NEW k \in Keys
    PROVE  RowInv(k)'
<1> USE SetsAssumption DEF Shape, RegistryInv, wrapper, handlers, pruning, rows
<1>1. ASSUME NEW a \in Sensors, Start(a)
      PROVE  RowInv(k)'
  BY <1>1 DEF Start, RowInv
<1>2. ASSUME NEW a \in Sensors, WaitForSensorApi(a)
      PROVE  RowInv(k)'
  BY <1>2 DEF WaitForSensorApi, RowInv
<1>3. ASSUME NEW a \in Sensors, Retry(a)
      PROVE  RowInv(k)'
  BY <1>3 DEF Retry, RowInv
<1>4. ASSUME NEW a \in Sensors, RequestSignedPublicKey(a)
      PROVE  RowInv(k)'
  BY <1>4 DEF RequestSignedPublicKey, Sent, RowInv, WrapperInv, RowSteps,
      EarlySteps, ReqSteps, Answers, Waiting, Written, Fields
<1>5. ASSUME NEW a \in Sensors, RequestRegistration(a)
      PROVE  RowInv(k)'
  BY <1>5 DEF RequestRegistration, Sent, RowInv, WrapperInv, RowSteps,
      EarlySteps, ReqSteps, Answers, Waiting, Written, Fields
<1>6. ASSUME NEW a \in Sensors, StartSensing(a)
      PROVE  RowInv(k)'
  BY <1>6 DEF StartSensing, RowInv, WrapperInv, RowSteps, EarlySteps,
      ReqSteps, Answers, Waiting, Written, Fields
<1>7. ASSUME NEW a \in Sensors, FailCycle(a)
      PROVE  RowInv(k)'
  BY <1>7 DEF FailCycle, AbandonCycle, RowInv, WrapperInv, RowSteps,
      EarlySteps, ReqSteps, Answers, Waiting, Written, Fields
<1>8. ASSUME NEW a \in Sensors, SendSync(a)
      PROVE  RowInv(k)'
  BY <1>8 DEF SendSync, Sent, RowInv
<1>9. ASSUME NEW a \in Sensors, EndSync(a)
      PROVE  RowInv(k)'
  BY <1>9 DEF EndSync, RowInv
<1>10. ASSUME NEW a \in Sensors, FailSync(a)
      PROVE  RowInv(k)'
  BY <1>10 DEF FailSync, RowInv
<1>11. ASSUME NEW a \in Sensors, EndDeregistration(a)
      PROVE  RowInv(k)'
  BY <1>11 DEF EndDeregistration, AfterMain, LeaveMain, RowInv
<1>12. ASSUME NEW a \in Sensors, FailDeregistration(a)
      PROVE  RowInv(k)'
  BY <1>12 DEF FailDeregistration, LeaveMain, RowInv
<1>13. ASSUME NEW a \in Sensors, LoseConnection(a)
      PROVE  RowInv(k)'
  BY <1>13 DEF LoseConnection, AbandonCycle, RowInv
<1>14. ASSUME NEW a \in Sensors, LoseSyncConnection(a)
      PROVE  RowInv(k)'
  BY <1>14 DEF LoseSyncConnection, RowInv
<1>15. ASSUME NEW a \in Sensors, LoseDeregConnection(a)
      PROVE  RowInv(k)'
  BY <1>15 DEF LoseDeregConnection, LeaveMain, RowInv
<1>16. ASSUME NEW a \in Sensors, CrashSensor(a)
      PROVE  RowInv(k)'
  BY <1>16 DEF CrashSensor, LeaveMain, RowInv
<1>17. ASSUME NEW a \in Sensors, Terminate(a)
      PROVE  RowInv(k)'
  BY <1>17 DEF Terminate, Sent, RowInv
<1>18. ASSUME NEW a \in Sensors, NEW b \in Keys, RequestPrivateKey(a, b)
      PROVE  RowInv(k)'
  BY <1>18 DEF RequestPrivateKey, Sent, Fresh, RowInv, WrapperInv, RowSteps,
      EarlySteps, ReqSteps, Answers, Waiting, Written, Fields
<1>19. ASSUME NEW b \in Keys, IssuePrivateKey(b)
      PROVE  RowInv(k)'
  BY <1>19 DEF IssuePrivateKey, RowInv, WrapperInv, RowSteps, EarlySteps,
      ReqSteps, Answers, Waiting, Written, Fields
<1>20. ASSUME NEW b \in Keys, VerifyChallenge(b)
      PROVE  RowInv(k)'
  BY <1>20 DEF VerifyChallenge, RowInv, WrapperInv, RowSteps, EarlySteps,
      ReqSteps, Answers, Waiting, Written, Fields
<1>21. ASSUME NEW b \in Keys, SignPublicKey(b)
      PROVE  RowInv(k)'
  BY <1>21 DEF SignPublicKey, RowInv, WrapperInv, RowSteps, EarlySteps,
      ReqSteps, Answers, Waiting, Written, Fields
<1>22. ASSUME NEW b \in Keys, VerifyRemoteSensor(b)
      PROVE  RowInv(k)'
  BY <1>22 DEF VerifyRemoteSensor, RowInv, WrapperInv, RowSteps, EarlySteps,
      ReqSteps, Answers, Waiting, Written, Fields
<1>23. ASSUME NEW b \in Keys, CreateSensor(b)
      PROVE  RowInv(k)'
  <2>1. CASE k # b
    BY <1>23, <2>1 DEF CreateSensor, RowInv, WrapperInv, RowSteps, EarlySteps, ReqSteps, Answers,
        Waiting, Written, Fields
  <2>2. CASE k = b /\ \E r \in db : r = b \/ owner[r] = owner[b]
    BY <1>23, <2>2 DEF CreateSensor, RowInv, WrapperInv, RowSteps, EarlySteps, ReqSteps, Answers,
        Waiting, Written, Fields
  <2>3. CASE k = b /\ ~ \E r \in db : r = b \/ owner[r] = owner[b]
    <3>1. /\ k \in db' /\ k \notin gone' /\ req'[k] = "component"
          /\ chal'[k] = "signed" /\ fields'[k] = {}
      BY <1>23, <2>3 DEF CreateSensor, RowInv, EarlySteps
    <3>2. Written("component") = {}
      BY DEF Written
    <3> QED
      BY <3>1, <3>2 DEF RowInv, RowSteps, EarlySteps, ReqSteps
  <2> QED
    BY <2>1, <2>2, <2>3
<1>24. ASSUME NEW b \in Keys, AssignComponent(b)
      PROVE  RowInv(k)'
  <2>1. CASE k # b
    BY <1>24, <2>1 DEF AssignComponent, UpdateRow, RowInv, WrapperInv, RowSteps, EarlySteps, ReqSteps, Answers,
        Waiting, Written, Fields
  <2>2. CASE k = b /\ k \in db
    BY <1>24, <2>2 DEF AssignComponent, UpdateRow, RowInv, WrapperInv, RowSteps, EarlySteps, ReqSteps, Answers,
        Waiting, Written, Fields
  <2>3. CASE k = b /\ k \notin db
    BY <1>24, <2>3 DEF AssignComponent, UpdateRow, RowInv, WrapperInv, RowSteps, EarlySteps, ReqSteps, Answers,
        Waiting, Written, Fields
  <2> QED
    BY <2>1, <2>2, <2>3
<1>25. ASSUME NEW b \in Keys, AssignConfiguration(b)
      PROVE  RowInv(k)'
  <2>1. CASE k # b
    BY <1>25, <2>1 DEF AssignConfiguration, UpdateRow, RowInv, WrapperInv, RowSteps, EarlySteps, ReqSteps, Answers,
        Waiting, Written, Fields
  <2>2. CASE k = b /\ k \in db
    BY <1>25, <2>2 DEF AssignConfiguration, UpdateRow, RowInv, WrapperInv, RowSteps, EarlySteps, ReqSteps, Answers,
        Waiting, Written, Fields
  <2>3. CASE k = b /\ k \notin db
    BY <1>25, <2>3 DEF AssignConfiguration, UpdateRow, RowInv, WrapperInv, RowSteps, EarlySteps, ReqSteps, Answers,
        Waiting, Written, Fields
  <2> QED
    BY <2>1, <2>2, <2>3
<1>26. ASSUME NEW b \in Keys, MarkAsRegistered(b)
      PROVE  RowInv(k)'
  <2>1. CASE k # b
    BY <1>26, <2>1 DEF MarkAsRegistered, UpdateRow, RowInv, WrapperInv, RowSteps, EarlySteps, ReqSteps, Answers,
        Waiting, Written, Fields
  <2>2. CASE k = b /\ k \in db
    BY <1>26, <2>2 DEF MarkAsRegistered, UpdateRow, RowInv, WrapperInv, RowSteps, EarlySteps, ReqSteps, Answers,
        Waiting, Written, Fields
  <2>3. CASE k = b /\ k \notin db
    BY <1>26, <2>3 DEF MarkAsRegistered, UpdateRow, RowInv, WrapperInv, RowSteps, EarlySteps, ReqSteps, Answers,
        Waiting, Written, Fields
  <2> QED
    BY <2>1, <2>2, <2>3
<1>27. ASSUME NEW b \in Keys, MarkHasCertificates(b)
      PROVE  RowInv(k)'
  <2>1. CASE k # b
    BY <1>27, <2>1 DEF MarkHasCertificates, UpdateRow, RowInv, WrapperInv, RowSteps, EarlySteps, ReqSteps, Answers,
        Waiting, Written, Fields
  <2>2. CASE k = b /\ k \in db
    BY <1>27, <2>2 DEF MarkHasCertificates, UpdateRow, RowInv, WrapperInv, RowSteps, EarlySteps, ReqSteps, Answers,
        Waiting, Written, Fields
  <2>3. CASE k = b /\ k \notin db
    BY <1>27, <2>3 DEF MarkHasCertificates, UpdateRow, RowInv, WrapperInv, RowSteps, EarlySteps, ReqSteps, Answers,
        Waiting, Written, Fields
  <2> QED
    BY <2>1, <2>2, <2>3
<1>28. ASSUME NEW b \in Keys, LinkAuthChallenge(b)
      PROVE  RowInv(k)'
  BY <1>28 DEF LinkAuthChallenge, RowInv, WrapperInv, RowSteps, EarlySteps,
      ReqSteps, Answers, Waiting, Written, Fields
<1>29. ASSUME NEW b \in Keys, AnnounceNewSensor(b)
      PROVE  RowInv(k)'
  BY <1>29 DEF AnnounceNewSensor, RowInv, WrapperInv, RowSteps, EarlySteps,
      ReqSteps, Answers, Waiting, Written, Fields
<1>30. ASSUME NEW b \in Keys, SyncGet(b)
      PROVE  RowInv(k)'
  BY <1>30 DEF SyncGet, RowInv
<1>31. ASSUME NEW b \in Keys, SyncUpdate(b)
      PROVE  RowInv(k)'
  BY <1>31 DEF SyncUpdate, RowInv
<1>32. ASSUME NEW b \in Keys, DeregisterGet(b)
      PROVE  RowInv(k)'
  BY <1>32 DEF DeregisterGet, RowInv
<1>33. ASSUME NEW b \in Keys, DeregisterDelete(b)
      PROVE  RowInv(k)'
  BY <1>33 DEF DeregisterDelete, DeleteRow, RowInv, WrapperInv, RowSteps,
      EarlySteps, ReqSteps, Answers, Waiting, Written, Fields
<1>34. ASSUME NEW b \in Keys, DeregisterAnnounce(b)
      PROVE  RowInv(k)'
  BY <1>34 DEF DeregisterAnnounce, RowInv
<1>35. ASSUME NEW b \in Keys, DropAnswer(b)
      PROVE  RowInv(k)'
  BY <1>35 DEF DropAnswer, AwaitsReq, RowInv, WrapperInv, RowSteps,
      EarlySteps, ReqSteps, Answers, Waiting, Written, Fields
<1>36. ASSUME NEW b \in Keys, FailRequest(b)
      PROVE  RowInv(k)'
  BY <1>36 DEF FailRequest, RowInv, WrapperInv, RowSteps, EarlySteps,
      ReqSteps, Answers, Waiting, Written, Fields
<1>37. ASSUME NEW b \in Keys, FailSyncRequest(b)
      PROVE  RowInv(k)'
  BY <1>37 DEF FailSyncRequest, RowInv
<1>38. ASSUME NEW b \in Keys, FailDeregRequest(b)
      PROVE  RowInv(k)'
  BY <1>38 DEF FailDeregRequest, RowInv
<1>39. ASSUME NEW p \in Pruners, PruneSelect(p)
      PROVE  RowInv(k)'
  BY <1>39 DEF PruneSelect, RowInv
<1>40. ASSUME NEW p \in Pruners, NEW b \in Keys, PruneDelete(p, b)
      PROVE  RowInv(k)'
  BY <1>40 DEF PruneDelete, DeleteRow, EndRun, RowInv, WrapperInv, RowSteps,
      EarlySteps, ReqSteps, Answers, Waiting, Written, Fields
<1>41. ASSUME NEW p \in Pruners, PruneAnnounce(p)
      PROVE  RowInv(k)'
  BY <1>41 DEF PruneAnnounce, EndRun, RowInv
<1>42. ASSUME NEW p \in Pruners, FailPrune(p)
      PROVE  RowInv(k)'
  BY <1>42 DEF FailPrune, EndRun, RowInv
<1>43. ASSUME StartApi
      PROVE  RowInv(k)'
  BY <1>43 DEF StartApi, RowInv
<1>44. ASSUME CrashApi
      PROVE  RowInv(k)'
  BY <1>44 DEF CrashApi, RowInv, WrapperInv, RowSteps, EarlySteps, ReqSteps,
      Answers, Waiting, Written, Fields
<1>45. ASSUME Tick
      PROVE  RowInv(k)'
  BY <1>45 DEF Tick, RowInv
<1>46. ASSUME UNCHANGED vars
      PROVE  RowInv(k)'
  BY <1>46 DEF vars, RowInv
<1> HIDE DEF Shape, RegistryInv, wrapper, handlers, pruning, rows
<1> QED
  BY <1>1, <1>2, <1>3, <1>4, <1>5, <1>6, <1>7, <1>8, <1>9, <1>10, <1>11,
     <1>12, <1>13, <1>14, <1>15, <1>16, <1>17, <1>18, <1>19, <1>20, <1>21,
     <1>22, <1>23, <1>24, <1>25, <1>26, <1>27, <1>28, <1>29, <1>30, <1>31,
     <1>32, <1>33, <1>34, <1>35, <1>36, <1>37, <1>38, <1>39, <1>40, <1>41,
     <1>42, <1>43, <1>44, <1>45, <1>46
  DEF Next, WrapperStep, WrapperFault, HandlerStep, HandlerFault, PruneStep

LEMMA RemovalInvStep ==
    ASSUME Shape, Shape', RegistryInv, [Next]_vars, NEW k \in Keys
    PROVE  RemovalInv(k)'
<1> USE SetsAssumption DEF Shape, RegistryInv, wrapper, handlers, pruning, rows
<1>1. ASSUME NEW a \in Sensors, Start(a)
      PROVE  RemovalInv(k)'
  BY <1>1 DEF Start, RemovalInv, Heard
<1>2. ASSUME NEW a \in Sensors, WaitForSensorApi(a)
      PROVE  RemovalInv(k)'
  BY <1>2 DEF WaitForSensorApi, RemovalInv, Heard
<1>3. ASSUME NEW a \in Sensors, Retry(a)
      PROVE  RemovalInv(k)'
  BY <1>3 DEF Retry, RemovalInv, Heard
<1>4. ASSUME NEW a \in Sensors, RequestSignedPublicKey(a)
      PROVE  RemovalInv(k)'
  BY <1>4 DEF RequestSignedPublicKey, Sent, RemovalInv, RowInv, WrapperInv,
      Heard, ReqSteps, Answers, Waiting
<1>5. ASSUME NEW a \in Sensors, RequestRegistration(a)
      PROVE  RemovalInv(k)'
  BY <1>5 DEF RequestRegistration, Sent, RemovalInv, RowInv, WrapperInv,
      Heard, ReqSteps, Answers, Waiting
<1>6. ASSUME NEW a \in Sensors, StartSensing(a)
      PROVE  RemovalInv(k)'
  BY <1>6 DEF StartSensing, RemovalInv, RowInv, WrapperInv, Heard, ReqSteps,
      Answers, Waiting
<1>7. ASSUME NEW a \in Sensors, FailCycle(a)
      PROVE  RemovalInv(k)'
  BY <1>7 DEF FailCycle, AbandonCycle, RemovalInv, RowInv, WrapperInv,
      Heard, ReqSteps, Answers, Waiting
<1>8. ASSUME NEW a \in Sensors, SendSync(a)
      PROVE  RemovalInv(k)'
  BY <1>8 DEF SendSync, Sent, RemovalInv, Heard
<1>9. ASSUME NEW a \in Sensors, EndSync(a)
      PROVE  RemovalInv(k)'
  BY <1>9 DEF EndSync, RemovalInv, Heard
<1>10. ASSUME NEW a \in Sensors, FailSync(a)
      PROVE  RemovalInv(k)'
  BY <1>10 DEF FailSync, RemovalInv, Heard
<1>11. ASSUME NEW a \in Sensors, EndDeregistration(a)
      PROVE  RemovalInv(k)'
  BY <1>11 DEF EndDeregistration, AfterMain, LeaveMain, RemovalInv, RowInv,
      WrapperInv, Heard, ReqSteps, Answers, Waiting
<1>12. ASSUME NEW a \in Sensors, FailDeregistration(a)
      PROVE  RemovalInv(k)'
  BY <1>12 DEF FailDeregistration, LeaveMain, RemovalInv, RowInv,
      WrapperInv, Heard, ReqSteps, Answers, Waiting
<1>13. ASSUME NEW a \in Sensors, LoseConnection(a)
      PROVE  RemovalInv(k)'
  BY <1>13 DEF LoseConnection, AbandonCycle, RemovalInv, Heard
<1>14. ASSUME NEW a \in Sensors, LoseSyncConnection(a)
      PROVE  RemovalInv(k)'
  BY <1>14 DEF LoseSyncConnection, RemovalInv, Heard
<1>15. ASSUME NEW a \in Sensors, LoseDeregConnection(a)
      PROVE  RemovalInv(k)'
  BY <1>15 DEF LoseDeregConnection, LeaveMain, RemovalInv, Heard
<1>16. ASSUME NEW a \in Sensors, CrashSensor(a)
      PROVE  RemovalInv(k)'
  BY <1>16 DEF CrashSensor, LeaveMain, RemovalInv, Heard
<1>17. ASSUME NEW a \in Sensors, Terminate(a)
      PROVE  RemovalInv(k)'
  BY <1>17 DEF Terminate, Sent, RemovalInv, RowInv, WrapperInv, Heard,
      ReqSteps, Answers, Waiting
<1>18. ASSUME NEW a \in Sensors, NEW b \in Keys, RequestPrivateKey(a, b)
      PROVE  RemovalInv(k)'
  BY <1>18 DEF RequestPrivateKey, Sent, Fresh, RemovalInv, RowInv,
      WrapperInv, Heard, ReqSteps, Answers, Waiting
<1>19. ASSUME NEW b \in Keys, IssuePrivateKey(b)
      PROVE  RemovalInv(k)'
  BY <1>19 DEF IssuePrivateKey, RemovalInv, RowInv, WrapperInv, Heard,
      ReqSteps, Answers, Waiting
<1>20. ASSUME NEW b \in Keys, VerifyChallenge(b)
      PROVE  RemovalInv(k)'
  BY <1>20 DEF VerifyChallenge, RemovalInv, RowInv, WrapperInv, Heard,
      ReqSteps, Answers, Waiting
<1>21. ASSUME NEW b \in Keys, SignPublicKey(b)
      PROVE  RemovalInv(k)'
  BY <1>21 DEF SignPublicKey, RemovalInv, RowInv, WrapperInv, Heard,
      ReqSteps, Answers, Waiting
<1>22. ASSUME NEW b \in Keys, VerifyRemoteSensor(b)
      PROVE  RemovalInv(k)'
  BY <1>22 DEF VerifyRemoteSensor, RemovalInv, RowInv, WrapperInv, Heard,
      ReqSteps, Answers, Waiting
<1>23. ASSUME NEW b \in Keys, CreateSensor(b)
      PROVE  RemovalInv(k)'
  <2>1. /\ c2' = c2 /\ gone' = gone /\ deleted' = deleted
        /\ dereg'[k] = "announce" => dereg[k] = "announce"
    BY <1>23 DEF CreateSensor, Answers
  <2>2. req'[k] \in ReqSteps => req[k] \in ReqSteps
    BY <1>23 DEF CreateSensor, ReqSteps, Answers
  <2> QED
    BY <2>1, <2>2 DEF RemovalInv, Heard
<1>24. ASSUME NEW b \in Keys, AssignComponent(b)
      PROVE  RemovalInv(k)'
  <2>1. /\ c2' = c2 /\ gone' = gone /\ deleted' = deleted
        /\ dereg'[k] = "announce" => dereg[k] = "announce"
    BY <1>24 DEF AssignComponent, UpdateRow, Answers
  <2>2. req'[k] \in ReqSteps => req[k] \in ReqSteps
    BY <1>24 DEF AssignComponent, UpdateRow, ReqSteps, Answers
  <2> QED
    BY <2>1, <2>2 DEF RemovalInv, Heard
<1>25. ASSUME NEW b \in Keys, AssignConfiguration(b)
      PROVE  RemovalInv(k)'
  BY <1>25 DEF AssignConfiguration, UpdateRow, RemovalInv, RowInv,
      WrapperInv, Heard, ReqSteps, Answers, Waiting
<1>26. ASSUME NEW b \in Keys, MarkAsRegistered(b)
      PROVE  RemovalInv(k)'
  BY <1>26 DEF MarkAsRegistered, UpdateRow, RemovalInv, RowInv, WrapperInv,
      Heard, ReqSteps, Answers, Waiting
<1>27. ASSUME NEW b \in Keys, MarkHasCertificates(b)
      PROVE  RemovalInv(k)'
  BY <1>27 DEF MarkHasCertificates, UpdateRow, RemovalInv, RowInv,
      WrapperInv, Heard, ReqSteps, Answers, Waiting
<1>28. ASSUME NEW b \in Keys, LinkAuthChallenge(b)
      PROVE  RemovalInv(k)'
  <2>1. /\ c2' = c2 /\ gone' = gone /\ deleted' = deleted
        /\ dereg'[k] = "announce" => dereg[k] = "announce"
    BY <1>28 DEF LinkAuthChallenge, Answers
  <2>2. req'[k] \in ReqSteps => req[k] \in ReqSteps
    BY <1>28 DEF LinkAuthChallenge, ReqSteps, Answers
  <2> QED
    BY <2>1, <2>2 DEF RemovalInv, Heard
<1>29. ASSUME NEW b \in Keys, AnnounceNewSensor(b)
      PROVE  RemovalInv(k)'
  BY <1>29 DEF AnnounceNewSensor, RemovalInv, RowInv, WrapperInv, Heard,
      ReqSteps, Answers, Waiting
<1>30. ASSUME NEW b \in Keys, SyncGet(b)
      PROVE  RemovalInv(k)'
  BY <1>30 DEF SyncGet, RemovalInv, Heard
<1>31. ASSUME NEW b \in Keys, SyncUpdate(b)
      PROVE  RemovalInv(k)'
  BY <1>31 DEF SyncUpdate, RemovalInv, Heard
<1>32. ASSUME NEW b \in Keys, DeregisterGet(b)
      PROVE  RemovalInv(k)'
  BY <1>32 DEF DeregisterGet, RemovalInv, RowInv, WrapperInv, Heard,
      ReqSteps, Answers, Waiting
<1>33. ASSUME NEW b \in Keys, DeregisterDelete(b)
      PROVE  RemovalInv(k)'
  BY <1>33 DEF DeregisterDelete, DeleteRow, RemovalInv, RowInv, WrapperInv,
      Heard, ReqSteps, Answers, Waiting
<1>34. ASSUME NEW b \in Keys, DeregisterAnnounce(b)
      PROVE  RemovalInv(k)'
  BY <1>34 DEF DeregisterAnnounce, RemovalInv, RowInv, WrapperInv, Heard,
      ReqSteps, Answers, Waiting
<1>35. ASSUME NEW b \in Keys, DropAnswer(b)
      PROVE  RemovalInv(k)'
  <2>1. /\ c2' = c2 /\ gone' = gone /\ deleted' = deleted
        /\ dereg'[k] = "announce" => dereg[k] = "announce"
    BY <1>35 DEF DropAnswer, Answers
  <2>2. req'[k] \in ReqSteps => req[k] \in ReqSteps
    BY <1>35 DEF DropAnswer, ReqSteps, Answers
  <2> QED
    BY <2>1, <2>2 DEF RemovalInv, Heard
<1>36. ASSUME NEW b \in Keys, FailRequest(b)
      PROVE  RemovalInv(k)'
  BY <1>36 DEF FailRequest, RemovalInv, RowInv, WrapperInv, Heard, ReqSteps,
      Answers, Waiting
<1>37. ASSUME NEW b \in Keys, FailSyncRequest(b)
      PROVE  RemovalInv(k)'
  BY <1>37 DEF FailSyncRequest, RemovalInv, Heard
<1>38. ASSUME NEW b \in Keys, FailDeregRequest(b)
      PROVE  RemovalInv(k)'
  BY <1>38 DEF FailDeregRequest, RemovalInv, RowInv, WrapperInv, Heard,
      ReqSteps, Answers, Waiting
<1>39. ASSUME NEW p \in Pruners, PruneSelect(p)
      PROVE  RemovalInv(k)'
  BY <1>39 DEF PruneSelect, RemovalInv, Heard
<1>40. ASSUME NEW p \in Pruners, NEW b \in Keys, PruneDelete(p, b)
      PROVE  RemovalInv(k)'
  BY <1>40 DEF PruneDelete, DeleteRow, EndRun, RemovalInv, RowInv,
      WrapperInv, Heard, ReqSteps, Answers, Waiting
<1>41. ASSUME NEW p \in Pruners, PruneAnnounce(p)
      PROVE  RemovalInv(k)'
  <2>1. CASE c2'[k] = c2[k]
    BY <1>41, <2>1 DEF PruneAnnounce, EndRun, RemovalInv, Heard
  <2>2. CASE c2'[k] # c2[k]
    <3> DEFINE n == Len(c2[k])
    <3>1. k = deleted[p] /\ c2'[k] = Append(c2[k], "deregistration")
      BY <1>41, <2>2 DEF PruneAnnounce
    <3>2. /\ n \in Nat /\ Len(c2'[k]) = n + 1
          /\ c2'[k][n + 1] = "deregistration"
          /\ \A i \in 1..n : c2'[k][i] = c2[k][i]
      BY <3>1
    <3>3. ~Heard(k, "deregistration") /\ k \in gone
      BY <3>1 DEF RemovalInv
    <3>4. \A i \in 1..Len(c2'[k]) : i \in 1..n \/ i = n + 1
      BY <3>2
    <3>5. \A i, j \in 1..Len(c2'[k]) : c2'[k][i] = c2'[k][j] => i = j
      <4>1. \A i, j \in 1..n : c2[k][i] = c2[k][j] => i = j
        BY DEF RemovalInv
      <4>2. \A i \in 1..n : c2[k][i] # "deregistration"
        BY <3>3 DEF Heard
      <4> QED
        BY <3>2, <3>4, <4>1, <4>2
    <3>6. Heard(k, "registration")' => Heard(k, "registration")
      BY <3>2, <3>4 DEF Heard
    <3> QED
      BY <1>41, <3>1, <3>3, <3>5, <3>6 DEF PruneAnnounce, RemovalInv, Heard
  <2> QED
    BY <2>1, <2>2
<1>42. ASSUME NEW p \in Pruners, FailPrune(p)
      PROVE  RemovalInv(k)'
  BY <1>42 DEF FailPrune, EndRun, RemovalInv, RowInv, WrapperInv, Heard,
      ReqSteps, Answers, Waiting
<1>43. ASSUME StartApi
      PROVE  RemovalInv(k)'
  BY <1>43 DEF StartApi, RemovalInv, Heard
<1>44. ASSUME CrashApi
      PROVE  RemovalInv(k)'
  BY <1>44 DEF CrashApi, RemovalInv, RowInv, WrapperInv, Heard, ReqSteps,
      Answers, Waiting
<1>45. ASSUME Tick
      PROVE  RemovalInv(k)'
  BY <1>45 DEF Tick, RemovalInv, Heard
<1>46. ASSUME UNCHANGED vars
      PROVE  RemovalInv(k)'
  BY <1>46 DEF vars, RemovalInv, Heard
<1> HIDE DEF Shape, RegistryInv, wrapper, handlers, pruning, rows
<1> QED
  BY <1>1, <1>2, <1>3, <1>4, <1>5, <1>6, <1>7, <1>8, <1>9, <1>10, <1>11,
     <1>12, <1>13, <1>14, <1>15, <1>16, <1>17, <1>18, <1>19, <1>20, <1>21,
     <1>22, <1>23, <1>24, <1>25, <1>26, <1>27, <1>28, <1>29, <1>30, <1>31,
     <1>32, <1>33, <1>34, <1>35, <1>36, <1>37, <1>38, <1>39, <1>40, <1>41,
     <1>42, <1>43, <1>44, <1>45, <1>46
  DEF Next, WrapperStep, WrapperFault, HandlerStep, HandlerFault, PruneStep

LEMMA OneRowStep ==
    ASSUME Shape, Shape', RegistryInv, [Next]_vars
    PROVE  OneRowPerSensor'
<1> USE SetsAssumption DEF Shape, RegistryInv, wrapper, handlers, pruning, rows
<1>1. ASSUME NEW a \in Sensors, Start(a)
      PROVE  OneRowPerSensor'
  BY <1>1 DEF Start, OneRowPerSensor
<1>2. ASSUME NEW a \in Sensors, WaitForSensorApi(a)
      PROVE  OneRowPerSensor'
  BY <1>2 DEF WaitForSensorApi, OneRowPerSensor
<1>3. ASSUME NEW a \in Sensors, Retry(a)
      PROVE  OneRowPerSensor'
  BY <1>3 DEF Retry, OneRowPerSensor
<1>4. ASSUME NEW a \in Sensors, RequestSignedPublicKey(a)
      PROVE  OneRowPerSensor'
  BY <1>4 DEF RequestSignedPublicKey, Sent, OneRowPerSensor
<1>5. ASSUME NEW a \in Sensors, RequestRegistration(a)
      PROVE  OneRowPerSensor'
  BY <1>5 DEF RequestRegistration, Sent, OneRowPerSensor
<1>6. ASSUME NEW a \in Sensors, StartSensing(a)
      PROVE  OneRowPerSensor'
  BY <1>6 DEF StartSensing, OneRowPerSensor
<1>7. ASSUME NEW a \in Sensors, FailCycle(a)
      PROVE  OneRowPerSensor'
  BY <1>7 DEF FailCycle, AbandonCycle, OneRowPerSensor
<1>8. ASSUME NEW a \in Sensors, SendSync(a)
      PROVE  OneRowPerSensor'
  BY <1>8 DEF SendSync, Sent, OneRowPerSensor
<1>9. ASSUME NEW a \in Sensors, EndSync(a)
      PROVE  OneRowPerSensor'
  BY <1>9 DEF EndSync, OneRowPerSensor
<1>10. ASSUME NEW a \in Sensors, FailSync(a)
      PROVE  OneRowPerSensor'
  BY <1>10 DEF FailSync, OneRowPerSensor
<1>11. ASSUME NEW a \in Sensors, EndDeregistration(a)
      PROVE  OneRowPerSensor'
  BY <1>11 DEF EndDeregistration, AfterMain, LeaveMain, OneRowPerSensor
<1>12. ASSUME NEW a \in Sensors, FailDeregistration(a)
      PROVE  OneRowPerSensor'
  BY <1>12 DEF FailDeregistration, LeaveMain, OneRowPerSensor
<1>13. ASSUME NEW a \in Sensors, LoseConnection(a)
      PROVE  OneRowPerSensor'
  BY <1>13 DEF LoseConnection, AbandonCycle, OneRowPerSensor
<1>14. ASSUME NEW a \in Sensors, LoseSyncConnection(a)
      PROVE  OneRowPerSensor'
  BY <1>14 DEF LoseSyncConnection, OneRowPerSensor
<1>15. ASSUME NEW a \in Sensors, LoseDeregConnection(a)
      PROVE  OneRowPerSensor'
  BY <1>15 DEF LoseDeregConnection, LeaveMain, OneRowPerSensor
<1>16. ASSUME NEW a \in Sensors, CrashSensor(a)
      PROVE  OneRowPerSensor'
  BY <1>16 DEF CrashSensor, LeaveMain, OneRowPerSensor
<1>17. ASSUME NEW a \in Sensors, Terminate(a)
      PROVE  OneRowPerSensor'
  BY <1>17 DEF Terminate, Sent, OneRowPerSensor
<1>18. ASSUME NEW a \in Sensors, NEW b \in Keys, RequestPrivateKey(a, b)
      PROVE  OneRowPerSensor'
  BY <1>18 DEF RequestPrivateKey, Sent, Fresh, OneRowPerSensor
<1>19. ASSUME NEW b \in Keys, IssuePrivateKey(b)
      PROVE  OneRowPerSensor'
  BY <1>19 DEF IssuePrivateKey, OneRowPerSensor
<1>20. ASSUME NEW b \in Keys, VerifyChallenge(b)
      PROVE  OneRowPerSensor'
  BY <1>20 DEF VerifyChallenge, OneRowPerSensor
<1>21. ASSUME NEW b \in Keys, SignPublicKey(b)
      PROVE  OneRowPerSensor'
  BY <1>21 DEF SignPublicKey, OneRowPerSensor
<1>22. ASSUME NEW b \in Keys, VerifyRemoteSensor(b)
      PROVE  OneRowPerSensor'
  BY <1>22 DEF VerifyRemoteSensor, OneRowPerSensor
<1>23. ASSUME NEW b \in Keys, CreateSensor(b)
      PROVE  OneRowPerSensor'
  BY <1>23 DEF CreateSensor, OneRowPerSensor
<1>24. ASSUME NEW b \in Keys, AssignComponent(b)
      PROVE  OneRowPerSensor'
  BY <1>24 DEF AssignComponent, UpdateRow, OneRowPerSensor
<1>25. ASSUME NEW b \in Keys, AssignConfiguration(b)
      PROVE  OneRowPerSensor'
  BY <1>25 DEF AssignConfiguration, UpdateRow, OneRowPerSensor
<1>26. ASSUME NEW b \in Keys, MarkAsRegistered(b)
      PROVE  OneRowPerSensor'
  BY <1>26 DEF MarkAsRegistered, UpdateRow, OneRowPerSensor
<1>27. ASSUME NEW b \in Keys, MarkHasCertificates(b)
      PROVE  OneRowPerSensor'
  BY <1>27 DEF MarkHasCertificates, UpdateRow, OneRowPerSensor
<1>28. ASSUME NEW b \in Keys, LinkAuthChallenge(b)
      PROVE  OneRowPerSensor'
  BY <1>28 DEF LinkAuthChallenge, OneRowPerSensor
<1>29. ASSUME NEW b \in Keys, AnnounceNewSensor(b)
      PROVE  OneRowPerSensor'
  BY <1>29 DEF AnnounceNewSensor, OneRowPerSensor
<1>30. ASSUME NEW b \in Keys, SyncGet(b)
      PROVE  OneRowPerSensor'
  BY <1>30 DEF SyncGet, OneRowPerSensor
<1>31. ASSUME NEW b \in Keys, SyncUpdate(b)
      PROVE  OneRowPerSensor'
  BY <1>31 DEF SyncUpdate, OneRowPerSensor
<1>32. ASSUME NEW b \in Keys, DeregisterGet(b)
      PROVE  OneRowPerSensor'
  BY <1>32 DEF DeregisterGet, OneRowPerSensor
<1>33. ASSUME NEW b \in Keys, DeregisterDelete(b)
      PROVE  OneRowPerSensor'
  BY <1>33 DEF DeregisterDelete, DeleteRow, OneRowPerSensor
<1>34. ASSUME NEW b \in Keys, DeregisterAnnounce(b)
      PROVE  OneRowPerSensor'
  BY <1>34 DEF DeregisterAnnounce, OneRowPerSensor
<1>35. ASSUME NEW b \in Keys, DropAnswer(b)
      PROVE  OneRowPerSensor'
  BY <1>35 DEF DropAnswer, AwaitsReq, OneRowPerSensor
<1>36. ASSUME NEW b \in Keys, FailRequest(b)
      PROVE  OneRowPerSensor'
  BY <1>36 DEF FailRequest, OneRowPerSensor
<1>37. ASSUME NEW b \in Keys, FailSyncRequest(b)
      PROVE  OneRowPerSensor'
  BY <1>37 DEF FailSyncRequest, OneRowPerSensor
<1>38. ASSUME NEW b \in Keys, FailDeregRequest(b)
      PROVE  OneRowPerSensor'
  BY <1>38 DEF FailDeregRequest, OneRowPerSensor
<1>39. ASSUME NEW p \in Pruners, PruneSelect(p)
      PROVE  OneRowPerSensor'
  BY <1>39 DEF PruneSelect, OneRowPerSensor
<1>40. ASSUME NEW p \in Pruners, NEW b \in Keys, PruneDelete(p, b)
      PROVE  OneRowPerSensor'
  BY <1>40 DEF PruneDelete, DeleteRow, EndRun, OneRowPerSensor
<1>41. ASSUME NEW p \in Pruners, PruneAnnounce(p)
      PROVE  OneRowPerSensor'
  BY <1>41 DEF PruneAnnounce, EndRun, OneRowPerSensor
<1>42. ASSUME NEW p \in Pruners, FailPrune(p)
      PROVE  OneRowPerSensor'
  BY <1>42 DEF FailPrune, EndRun, OneRowPerSensor
<1>43. ASSUME StartApi
      PROVE  OneRowPerSensor'
  BY <1>43 DEF StartApi, OneRowPerSensor
<1>44. ASSUME CrashApi
      PROVE  OneRowPerSensor'
  BY <1>44 DEF CrashApi, OneRowPerSensor
<1>45. ASSUME Tick
      PROVE  OneRowPerSensor'
  BY <1>45 DEF Tick, OneRowPerSensor
<1>46. ASSUME UNCHANGED vars
      PROVE  OneRowPerSensor'
  BY <1>46 DEF vars, OneRowPerSensor
<1> HIDE DEF Shape, RegistryInv, wrapper, handlers, pruning, rows
<1> QED
  BY <1>1, <1>2, <1>3, <1>4, <1>5, <1>6, <1>7, <1>8, <1>9, <1>10, <1>11,
     <1>12, <1>13, <1>14, <1>15, <1>16, <1>17, <1>18, <1>19, <1>20, <1>21,
     <1>22, <1>23, <1>24, <1>25, <1>26, <1>27, <1>28, <1>29, <1>30, <1>31,
     <1>32, <1>33, <1>34, <1>35, <1>36, <1>37, <1>38, <1>39, <1>40, <1>41,
     <1>42, <1>43, <1>44, <1>45, <1>46
  DEF Next, WrapperStep, WrapperFault, HandlerStep, HandlerFault, PruneStep

LEMMA RegistryInvInit == Init => RegistryInv
<1> SUFFICES ASSUME Init PROVE RegistryInv
  OBVIOUS
<1>1. \A s \in Sensors : WrapperInv(s)
  BY DEF Init, WrapperInv, Waiting
<1>2. \A k \in Keys : RowInv(k)
  BY DEF Init, RowInv, Written, EarlySteps, RowSteps, ReqSteps
<1>3. \A k \in Keys : RemovalInv(k)
  <2>1. \A k \in Keys : c2[k] = <<>> /\ dereg[k] = "idle"
    BY DEF Init
  <2>2. \A p \in Pruners : deleted[p] = None
    BY DEF Init
  <2> QED
    BY <2>1, <2>2, SetsAssumption DEF RemovalInv, Heard
<1>4. OneRowPerSensor
  BY DEF Init, OneRowPerSensor
<1> QED
  BY <1>1, <1>2, <1>3, <1>4 DEF RegistryInv

\* How far a handler has come is how much of the row is written, a wrapper
\* waits for an answer its key's handler can give, and a row has one remover,
\* in every state the statements of handlers, wrappers and prune runs reach.
THEOREM RegistryCorrect == Spec => []RegistryInv
<1>1. TypeOK /\ TypeOK' /\ RegistryInv /\ [Next]_vars => RegistryInv'
  <2> SUFFICES ASSUME TypeOK, TypeOK', RegistryInv, [Next]_vars
               PROVE  RegistryInv'
    OBVIOUS
  <2>1. Shape /\ Shape'
    BY ShapeFromTypes DEF TypeOK, Shape
  <2>2. \A s \in Sensors : WrapperInv(s)'
    BY <2>1, WrapperInvStep
  <2>3. \A k \in Keys : RowInv(k)'
    BY <2>1, RowInvStep
  <2>4. \A k \in Keys : RemovalInv(k)'
    BY <2>1, RemovalInvStep
  <2>5. OneRowPerSensor'
    BY <2>1, OneRowStep
  <2> QED
    BY <2>2, <2>3, <2>4, <2>5 DEF RegistryInv
<1> QED
  BY <1>1, RegistryInvInit, TypeCorrect, PTL DEF Spec

-----------------------------------------------------------------------------
(* What follows from it.                                                   *)

\* Whatever prune runs, other handlers and failures did between the statements
\* of register/2, a wrapper that got its 200 has a complete row unless the row
\* has been deleted since.
THEOREM AcknowledgedCorrect == Spec => []AcknowledgedIsComplete
<1>1. RegistryInv => AcknowledgedIsComplete
  BY DEF RegistryInv, WrapperInv, Settled, AcknowledgedIsComplete
<1> QED
  BY <1>1, RegistryCorrect, PTL

\* A row marked has_registered has a component, a configuration and a signed
\* certificate, wherever register/2 stopped.
THEOREM RegisteredCorrect == Spec => []RegisteredIsUsable
<1>1. TypeOK /\ RegistryInv => RegisteredIsUsable
  BY DEF TypeOK, RegistryInv, RowInv, RegisteredIsUsable
<1> QED
  BY <1>1, TypeCorrect, RegistryCorrect, PTL

\* No two rows carry the same sensor id, however often its wrapper retries.
THEOREM OneRowCorrect == Spec => []OneRowPerSensor
<1>1. RegistryInv => OneRowPerSensor
  BY DEF RegistryInv
<1> QED
  BY <1>1, RegistryCorrect, PTL

\* Each registration and each deregistration is announced at most once, and no
\* deregistration while the row stands, whoever removes it.
THEOREM AnnouncedOnceCorrect == Spec => []AnnouncedOnce
<1>1. TypeOK /\ RegistryInv => AnnouncedOnce
  BY DEF TypeOK, RegistryInv, RowInv, RemovalInv, Heard, AnnouncedOnce
<1> QED
  BY <1>1, TypeCorrect, RegistryCorrect, PTL

-----------------------------------------------------------------------------
(* Refinement.  A step that changes no table and announces nothing is a    *)
(* stutter; each of the others is a step of SensorLifecycle on one key.    *)

LEMMA StatusStep ==
    ASSUME NEW k, NEW new,
           Status(k)' = new, \A j \in Keys : j # k => Status(j)' = Status(j)
    PROVE  [j \in Keys |-> Status(j)]' = [[j \in Keys |-> Status(j)] EXCEPT ![k] = new]
OBVIOUS

\* Columns and challenge of one row change, the row itself stays.
LEMMA OthersKeepStatus ==
    ASSUME NEW k,
           \A j \in Keys : j # k =>
               /\ j \in db' <=> j \in db
               /\ j \in gone' <=> j \in gone
               /\ fields'[j] = fields[j] /\ chal'[j] = chal[j]
    PROVE  \A j \in Keys : j # k => Status(j)' = Status(j)
BY DEF Status, Complete

LEMMA UpdateRefines ==
    ASSUME Shape, RegistryInv, NEW k \in Keys,
           req[k] \notin EarlySteps \/ k \notin db,
           db' = db, gone' = gone, owner' = owner, c2' = c2,
           \A j \in Keys : j # k => fields'[j] = fields[j] /\ chal'[j] = chal[j],
           k \in db => fields[k] \subseteq fields'[k] /\ fields'[k] \subseteq Fields,
           k \in db /\ chal[k] = "linked" => chal'[k] = "linked"
    PROVE  Lifecycle!Next \/ UNCHANGED Lifecycle!vars
<1>1. \A j \in Keys : j # k => Status(j)' = Status(j)
  BY OthersKeepStatus
<1>2. Status(k)' = Status(k) \/ (Status(k) = "pending" /\ Status(k)' = "registered")
  BY DEF Status, Complete
<1>3. CASE Status(k)' = Status(k)
  BY <1>1, <1>3 DEF Lifecycle!vars
<1>4. CASE Status(k) = "pending" /\ Status(k)' = "registered"
  <2>1. Lifecycle!Confirm(k)
    BY <1>1, <1>4, StatusStep DEF Lifecycle!Confirm
  <2> QED
    BY <2>1 DEF Lifecycle!Next
<1> QED
  BY <1>2, <1>3, <1>4

LEMMA DeleteRefines ==
    ASSUME Shape, RegistryInv, NEW k \in db, DeleteRow(k), c2' = c2
    PROVE  Lifecycle!Next
<1>0. k \in Keys
  BY DEF Shape
<1>1. \A j \in Keys : j # k => Status(j)' = Status(j)
  BY OthersKeepStatus DEF DeleteRow, Shape
<1>2. Status(k)' = "removed" /\ Status(k) \in {"pending", "registered"}
  BY <1>0 DEF DeleteRow, Status, RegistryInv, RowInv
<1>3. owner' = owner
  BY DEF DeleteRow
<1>4. Lifecycle!Remove(k)
  BY <1>0, <1>1, <1>2, <1>3, StatusStep DEF Lifecycle!Remove, Lifecycle!Live
<1> QED
  BY <1>0, <1>4 DEF Lifecycle!Next

LEMMA AnnounceRefines ==
    ASSUME Shape, NEW k \in Keys, NEW m \in {"registration", "deregistration"},
           ~Heard(k, m), c2' = [c2 EXCEPT ![k] = Append(@, m)],
           m = "registration" => Status(k) \in {"registered", "removed"},
           m = "deregistration" => k \in gone,
           UNCHANGED <<db, gone, fields, chal, owner>>
    PROVE  Lifecycle!Next
<1>1. UNCHANGED [j \in Keys |-> Status(j)]
  BY DEF Status, Complete
<1>2. m = "deregistration" => Status(k) = "removed"
  BY DEF Status
<1>3. Lifecycle!Announce(k, m)
  BY <1>1, <1>2 DEF Lifecycle!Announce, Lifecycle!Announced, Heard
<1> QED
  BY <1>3 DEF Lifecycle!Next

LEMMA RequestRefines ==
    ASSUME Shape, NEW s \in Sensors, NEW k \in Keys, RequestPrivateKey(s, k)
    PROVE  Lifecycle!Next
<1>0. k \notin db
  BY DEF RequestPrivateKey, Fresh
<1>1. \A j \in Keys : j # k => Status(j)' = Status(j)
  BY OthersKeepStatus DEF RequestPrivateKey, Shape
<1>2. Status(k)' = "unused"
  BY <1>0 DEF RequestPrivateKey, Status, Complete
<1>3. Status(k) \notin {"pending", "registered"}
  BY <1>0 DEF Status, Complete
<1>4. Lifecycle!Issue(k, s)
  BY <1>1, <1>2, <1>3, StatusStep
  DEF Lifecycle!Issue, Lifecycle!Live, RequestPrivateKey
<1> QED
  BY <1>4 DEF Lifecycle!Next

LEMMA CreateRefines ==
    ASSUME Shape, RegistryInv, NEW k \in Keys, CreateSensor(k)
    PROVE  Lifecycle!Next \/ UNCHANGED Lifecycle!vars
<1>1. CASE \E r \in db : r = k \/ owner[r] = owner[k]
  BY <1>1 DEF CreateSensor, rows, Lifecycle!vars, Status, Complete
<1>2. CASE ~ \E r \in db : r = k \/ owner[r] = owner[k]
  <2>1. UNCHANGED <<owner, fields, gone, chal, c2>> /\ db' = db \cup {k} /\ k \notin db
    BY <1>2 DEF CreateSensor
  <2>2. k \notin gone /\ fields[k] = {}
    BY <2>1 DEF CreateSensor, RegistryInv, RowInv, EarlySteps
  <2>3. \A j \in Keys : j # k => Status(j)' = Status(j)
    BY <2>1, OthersKeepStatus
  <2>4. Status(k) = "unused" /\ Status(k)' = "pending"
    BY <2>1, <2>2 DEF Status, Complete, Fields
  <2>5. \A j \in Keys : Status(j) \in {"pending", "registered"} => j \in db
    BY DEF Status, Complete
  <2>6. Lifecycle!Open(k)
    BY <1>2, <2>1, <2>3, <2>4, <2>5, StatusStep DEF Lifecycle!Open, Lifecycle!Live
  <2> QED
    BY <2>6 DEF Lifecycle!Next
<1> QED
  BY <1>1, <1>2

LEMMA LifecycleStep ==
    ASSUME Shape, Shape', RegistryInv, [Next]_vars
    PROVE  Lifecycle!Next \/ UNCHANGED Lifecycle!vars
<1> USE DEF wrapper, handlers, pruning, rows
<1>0. ASSUME UNCHANGED <<db, gone, fields, chal, owner, c2>>
      PROVE  UNCHANGED Lifecycle!vars
  BY <1>0 DEF Lifecycle!vars, Status, Complete
<1>1. ASSUME NEW a \in Sensors, Start(a)
      PROVE  Lifecycle!Next \/ UNCHANGED Lifecycle!vars
  BY <1>1, <1>0 DEF Start
<1>2. ASSUME NEW a \in Sensors, WaitForSensorApi(a)
      PROVE  Lifecycle!Next \/ UNCHANGED Lifecycle!vars
  BY <1>2, <1>0 DEF WaitForSensorApi
<1>3. ASSUME NEW a \in Sensors, Retry(a)
      PROVE  Lifecycle!Next \/ UNCHANGED Lifecycle!vars
  BY <1>3, <1>0 DEF Retry
<1>4. ASSUME NEW a \in Sensors, RequestSignedPublicKey(a)
      PROVE  Lifecycle!Next \/ UNCHANGED Lifecycle!vars
  BY <1>4, <1>0 DEF RequestSignedPublicKey
<1>5. ASSUME NEW a \in Sensors, RequestRegistration(a)
      PROVE  Lifecycle!Next \/ UNCHANGED Lifecycle!vars
  BY <1>5, <1>0 DEF RequestRegistration
<1>6. ASSUME NEW a \in Sensors, StartSensing(a)
      PROVE  Lifecycle!Next \/ UNCHANGED Lifecycle!vars
  BY <1>6, <1>0 DEF StartSensing
<1>7. ASSUME NEW a \in Sensors, FailCycle(a)
      PROVE  Lifecycle!Next \/ UNCHANGED Lifecycle!vars
  BY <1>7, <1>0 DEF FailCycle
<1>8. ASSUME NEW a \in Sensors, SendSync(a)
      PROVE  Lifecycle!Next \/ UNCHANGED Lifecycle!vars
  BY <1>8, <1>0 DEF SendSync
<1>9. ASSUME NEW a \in Sensors, EndSync(a)
      PROVE  Lifecycle!Next \/ UNCHANGED Lifecycle!vars
  BY <1>9, <1>0 DEF EndSync
<1>10. ASSUME NEW a \in Sensors, FailSync(a)
      PROVE  Lifecycle!Next \/ UNCHANGED Lifecycle!vars
  BY <1>10, <1>0 DEF FailSync
<1>11. ASSUME NEW a \in Sensors, EndDeregistration(a)
      PROVE  Lifecycle!Next \/ UNCHANGED Lifecycle!vars
  BY <1>11, <1>0 DEF EndDeregistration
<1>12. ASSUME NEW a \in Sensors, FailDeregistration(a)
      PROVE  Lifecycle!Next \/ UNCHANGED Lifecycle!vars
  BY <1>12, <1>0 DEF FailDeregistration
<1>13. ASSUME NEW a \in Sensors, LoseConnection(a)
      PROVE  Lifecycle!Next \/ UNCHANGED Lifecycle!vars
  BY <1>13, <1>0 DEF LoseConnection
<1>14. ASSUME NEW a \in Sensors, LoseSyncConnection(a)
      PROVE  Lifecycle!Next \/ UNCHANGED Lifecycle!vars
  BY <1>14, <1>0 DEF LoseSyncConnection
<1>15. ASSUME NEW a \in Sensors, LoseDeregConnection(a)
      PROVE  Lifecycle!Next \/ UNCHANGED Lifecycle!vars
  BY <1>15, <1>0 DEF LoseDeregConnection
<1>16. ASSUME NEW a \in Sensors, CrashSensor(a)
      PROVE  Lifecycle!Next \/ UNCHANGED Lifecycle!vars
  BY <1>16, <1>0 DEF CrashSensor
<1>17. ASSUME NEW a \in Sensors, Terminate(a)
      PROVE  Lifecycle!Next \/ UNCHANGED Lifecycle!vars
  BY <1>17, <1>0 DEF Terminate
<1>18. ASSUME NEW a \in Sensors, NEW b \in Keys, RequestPrivateKey(a, b)
      PROVE  Lifecycle!Next \/ UNCHANGED Lifecycle!vars
  BY <1>18, RequestRefines
<1>19. ASSUME NEW b \in Keys, IssuePrivateKey(b)
      PROVE  Lifecycle!Next \/ UNCHANGED Lifecycle!vars
  <2>1. /\ UNCHANGED <<db, gone, owner, c2, fields>>
        /\ \A j \in Keys : j # b => chal'[j] = chal[j]
        /\ req[b] \in EarlySteps
    BY <1>19 DEF IssuePrivateKey, Shape, EarlySteps
  <2>2. b \notin db
    BY <2>1 DEF RegistryInv, RowInv
  <2> QED
    BY <2>1, <2>2, UpdateRefines
<1>20. ASSUME NEW b \in Keys, VerifyChallenge(b)
      PROVE  Lifecycle!Next \/ UNCHANGED Lifecycle!vars
  BY <1>20, <1>0 DEF VerifyChallenge
<1>21. ASSUME NEW b \in Keys, SignPublicKey(b)
      PROVE  Lifecycle!Next \/ UNCHANGED Lifecycle!vars
  <2>1. /\ UNCHANGED <<db, gone, owner, c2, fields>>
        /\ \A j \in Keys : j # b => chal'[j] = chal[j]
        /\ req[b] \in EarlySteps
    BY <1>21 DEF SignPublicKey, Shape, EarlySteps
  <2>2. b \notin db
    BY <2>1 DEF RegistryInv, RowInv
  <2> QED
    BY <2>1, <2>2, UpdateRefines
<1>22. ASSUME NEW b \in Keys, VerifyRemoteSensor(b)
      PROVE  Lifecycle!Next \/ UNCHANGED Lifecycle!vars
  BY <1>22, <1>0 DEF VerifyRemoteSensor
<1>23. ASSUME NEW b \in Keys, CreateSensor(b)
      PROVE  Lifecycle!Next \/ UNCHANGED Lifecycle!vars
  BY <1>23, CreateRefines
<1>24. ASSUME NEW b \in Keys, AssignComponent(b)
      PROVE  Lifecycle!Next \/ UNCHANGED Lifecycle!vars
  <2>1. /\ UNCHANGED <<db, gone, owner, c2, chal>>
        /\ \A j \in Keys : j # b => fields'[j] = fields[j]
        /\ fields[b] \subseteq fields'[b] /\ fields'[b] \subseteq Fields
        /\ req[b] \notin EarlySteps
    BY <1>24 DEF AssignComponent, UpdateRow, Shape, EarlySteps, Fields
  <2> QED
    BY <2>1, UpdateRefines
<1>25. ASSUME NEW b \in Keys, AssignConfiguration(b)
      PROVE  Lifecycle!Next \/ UNCHANGED Lifecycle!vars
  <2>1. /\ UNCHANGED <<db, gone, owner, c2, chal>>
        /\ \A j \in Keys : j # b => fields'[j] = fields[j]
        /\ fields[b] \subseteq fields'[b] /\ fields'[b] \subseteq Fields
        /\ req[b] \notin EarlySteps
    BY <1>25 DEF AssignConfiguration, UpdateRow, Shape, EarlySteps, Fields
  <2> QED
    BY <2>1, UpdateRefines
<1>26. ASSUME NEW b \in Keys, MarkAsRegistered(b)
      PROVE  Lifecycle!Next \/ UNCHANGED Lifecycle!vars
  <2>1. /\ UNCHANGED <<db, gone, owner, c2, chal>>
        /\ \A j \in Keys : j # b => fields'[j] = fields[j]
        /\ fields[b] \subseteq fields'[b] /\ fields'[b] \subseteq Fields
        /\ req[b] \notin EarlySteps
    BY <1>26 DEF MarkAsRegistered, UpdateRow, Shape, EarlySteps, Fields
  <2> QED
    BY <2>1, UpdateRefines
<1>27. ASSUME NEW b \in Keys, MarkHasCertificates(b)
      PROVE  Lifecycle!Next \/ UNCHANGED Lifecycle!vars
  <2>1. /\ UNCHANGED <<db, gone, owner, c2, chal>>
        /\ \A j \in Keys : j # b => fields'[j] = fields[j]
        /\ fields[b] \subseteq fields'[b] /\ fields'[b] \subseteq Fields
        /\ req[b] \notin EarlySteps
    BY <1>27 DEF MarkHasCertificates, UpdateRow, Shape, EarlySteps, Fields
  <2> QED
    BY <2>1, UpdateRefines
<1>28. ASSUME NEW b \in Keys, LinkAuthChallenge(b)
      PROVE  Lifecycle!Next \/ UNCHANGED Lifecycle!vars
  <2>1. /\ UNCHANGED <<db, gone, owner, c2, fields>>
        /\ \A j \in Keys : j # b => chal'[j] = chal[j]
        /\ chal[b] = "linked" => chal'[b] = "linked"
        /\ req[b] \notin EarlySteps
    BY <1>28 DEF LinkAuthChallenge, Shape, EarlySteps
  <2>2. fields[b] \subseteq Fields
    BY DEF Shape
  <2> QED
    BY <2>1, <2>2, UpdateRefines
<1>29. ASSUME NEW b \in Keys, AnnounceNewSensor(b)
      PROVE  Lifecycle!Next \/ UNCHANGED Lifecycle!vars
  <2>1. ~Heard(b, "registration") /\ req[b] = "announce"
    BY <1>29 DEF AnnounceNewSensor, RegistryInv, RemovalInv, ReqSteps
  <2>2. Status(b) \in {"registered", "removed"}
    <3>1. Written("announce") = Fields /\ req[b] \in RowSteps
      BY <2>1 DEF Written, RowSteps, EarlySteps, ReqSteps
    <3>2. fields[b] \subseteq Fields
      BY DEF Shape
    <3>3. b \in gone \/ (b \in db /\ fields[b] = Fields /\ chal[b] = "linked")
      BY <2>1, <3>1, <3>2 DEF RegistryInv, RowInv
    <3> QED
      BY <3>3 DEF Status, Complete
  <2> QED
    BY <1>29, <2>1, <2>2, AnnounceRefines DEF AnnounceNewSensor
<1>30. ASSUME NEW b \in Keys, SyncGet(b)
      PROVE  Lifecycle!Next \/ UNCHANGED Lifecycle!vars
  BY <1>30, <1>0 DEF SyncGet
<1>31. ASSUME NEW b \in Keys, SyncUpdate(b)
      PROVE  Lifecycle!Next \/ UNCHANGED Lifecycle!vars
  BY <1>31, <1>0 DEF SyncUpdate
<1>32. ASSUME NEW b \in Keys, DeregisterGet(b)
      PROVE  Lifecycle!Next \/ UNCHANGED Lifecycle!vars
  BY <1>32, <1>0 DEF DeregisterGet
<1>33. ASSUME NEW b \in Keys, DeregisterDelete(b)
      PROVE  Lifecycle!Next \/ UNCHANGED Lifecycle!vars
  <2>1. CASE b \in db
    BY <1>33, <2>1, DeleteRefines DEF DeregisterDelete
  <2>2. CASE b \notin db
    BY <1>33, <2>2, <1>0 DEF DeregisterDelete
  <2> QED
    BY <2>1, <2>2
<1>34. ASSUME NEW b \in Keys, DeregisterAnnounce(b)
      PROVE  Lifecycle!Next \/ UNCHANGED Lifecycle!vars
  <2>1. ~Heard(b, "deregistration") /\ b \in gone
    BY <1>34 DEF DeregisterAnnounce, RegistryInv, RemovalInv
  <2> QED
    BY <1>34, <2>1, AnnounceRefines DEF DeregisterAnnounce
<1>35. ASSUME NEW b \in Keys, DropAnswer(b)
      PROVE  Lifecycle!Next \/ UNCHANGED Lifecycle!vars
  BY <1>35, <1>0 DEF DropAnswer
<1>36. ASSUME NEW b \in Keys, FailRequest(b)
      PROVE  Lifecycle!Next \/ UNCHANGED Lifecycle!vars
  BY <1>36, <1>0 DEF FailRequest
<1>37. ASSUME NEW b \in Keys, FailSyncRequest(b)
      PROVE  Lifecycle!Next \/ UNCHANGED Lifecycle!vars
  BY <1>37, <1>0 DEF FailSyncRequest
<1>38. ASSUME NEW b \in Keys, FailDeregRequest(b)
      PROVE  Lifecycle!Next \/ UNCHANGED Lifecycle!vars
  BY <1>38, <1>0 DEF FailDeregRequest
<1>39. ASSUME NEW p \in Pruners, PruneSelect(p)
      PROVE  Lifecycle!Next \/ UNCHANGED Lifecycle!vars
  BY <1>39, <1>0 DEF PruneSelect
<1>40. ASSUME NEW p \in Pruners, NEW b \in Keys, PruneDelete(p, b)
      PROVE  Lifecycle!Next \/ UNCHANGED Lifecycle!vars
  <2>1. CASE b \in db
    BY <1>40, <2>1, DeleteRefines DEF PruneDelete
  <2>2. CASE b \notin db
    BY <1>40, <2>2, <1>0 DEF PruneDelete
  <2> QED
    BY <2>1, <2>2
<1>41. ASSUME NEW p \in Pruners, PruneAnnounce(p)
      PROVE  Lifecycle!Next \/ UNCHANGED Lifecycle!vars
  <2>1. CASE deleted[p] \in bare[p]
    BY <1>41, <2>1, <1>0 DEF PruneAnnounce
  <2>2. CASE deleted[p] \notin bare[p]
    <3>1. deleted[p] \in Keys
      BY <1>41 DEF PruneAnnounce, Shape
    <3>2. ~Heard(deleted[p], "deregistration") /\ deleted[p] \in gone
      BY <3>1 DEF RegistryInv, RemovalInv
    <3> QED
      BY <1>41, <2>2, <3>1, <3>2, AnnounceRefines DEF PruneAnnounce
  <2> QED
    BY <2>1, <2>2
<1>42. ASSUME NEW p \in Pruners, FailPrune(p)
      PROVE  Lifecycle!Next \/ UNCHANGED Lifecycle!vars
  BY <1>42, <1>0 DEF FailPrune
<1>43. ASSUME StartApi
      PROVE  Lifecycle!Next \/ UNCHANGED Lifecycle!vars
  BY <1>43, <1>0 DEF StartApi
<1>44. ASSUME CrashApi
      PROVE  Lifecycle!Next \/ UNCHANGED Lifecycle!vars
  BY <1>44, <1>0 DEF CrashApi
<1>45. ASSUME Tick
      PROVE  Lifecycle!Next \/ UNCHANGED Lifecycle!vars
  BY <1>45, <1>0 DEF Tick
<1>46. ASSUME UNCHANGED vars
      PROVE  Lifecycle!Next \/ UNCHANGED Lifecycle!vars
  BY <1>46, <1>0 DEF vars
<1> HIDE DEF wrapper, handlers, pruning, rows
<1> QED
  BY <1>1, <1>2, <1>3, <1>4, <1>5, <1>6, <1>7, <1>8, <1>9, <1>10, <1>11,
     <1>12, <1>13, <1>14, <1>15, <1>16, <1>17, <1>18, <1>19, <1>20, <1>21,
     <1>22, <1>23, <1>24, <1>25, <1>26, <1>27, <1>28, <1>29, <1>30, <1>31,
     <1>32, <1>33, <1>34, <1>35, <1>36, <1>37, <1>38, <1>39, <1>40, <1>41,
     <1>42, <1>43, <1>44, <1>45, <1>46
  DEF Next, WrapperStep, WrapperFault, HandlerStep, HandlerFault, PruneStep

\* Seen from outside, what the statements of register/2, deregister/2 and
\* prune_old_sensors do to a row is the life of a registration that
\* SensorLifecycle describes.
THEOREM RefinesLifecycle == Spec => ImplementsLifecycle
<1>1. Init => Lifecycle!Init
  BY DEF Init, Lifecycle!Init, Status, Complete
<1>2. TypeOK /\ TypeOK' /\ RegistryInv /\ [Next]_vars => [Lifecycle!Next]_(Lifecycle!vars)
  BY ShapeFromTypes, LifecycleStep DEF TypeOK, Shape
<1> QED
  BY <1>1, <1>2, TypeCorrect, RegistryCorrect, PTL DEF Spec, ImplementsLifecycle, Lifecycle!Spec

-----------------------------------------------------------------------------
(* Heartbeats that are in time.                                            *)

\* Requests are answered within the minute, the limit of prune_old_sensors is
\* not below the period of the heartbeat, and only these faults happen.
InTime(kinds) == Timely /\ SyncPeriod <= PruneAge /\ FaultKinds \subseteq kinds

\* No minute passes while a wrapper waits, so the row of its key is new; from
\* then on the row is no older than the sleep of sync_sensor, and nobody is
\* about to delete it.
HealthInv(s) ==
    LET k == key[s]
    IN /\ pc[s] \in Waiting =>
              /\ k \notin gone /\ age[k] = 0 /\ sync[k] = "idle" /\ dereg[k] = "idle"
              /\ \A p \in Pruners : k \notin todo[p]
       /\ pc[s] = "running" /\ heartbeat[s] =>
              /\ k \in db /\ age[k] <= timer[s] /\ dereg[k] = "idle"
              /\ sync[k] # "error" /\ (sync[k] = "ok" => age[k] = 0)
              /\ \A p \in Pruners : k \notin todo[p]

\* A row is new, and nobody removes it, while register/2 works on it; when it
\* no longer does, the registration has been announced.
HeardInv(k) ==
    /\ req[k] \in ReqSteps => dereg[k] = "idle" /\ \A p \in Pruners : k \notin todo[p]
    /\ req[k] \in RowSteps => k \in db /\ age[k] = 0
    /\ req[k] \in RowSteps \ {"announce"} => chal[k] = "signed"
    /\ k \in db \cup gone => req[k] \in RowSteps \/ Heard(k, "registration")
    /\ Len(c2[k]) > 0 => c2[k][1] = "registration"

\* The part of TypeOK that these need.
TimeShape ==
    /\ pc \in [Sensors -> PCs] /\ key \in [Sensors -> Keys \cup {None}]
    /\ heartbeat \in [Sensors -> BOOLEAN] /\ timer \in [Sensors -> 0..SyncPeriod]
    /\ req \in [Keys -> ReqSteps \cup Answers \cup {"idle"}]
    /\ sync \in [Keys -> SyncSteps \cup Answers \cup {"idle"}]
    /\ dereg \in [Keys -> DeregSteps \cup Answers \cup {"idle"}]
    /\ todo \in [Pruners -> SUBSET Keys] /\ deleted \in [Pruners -> Keys \cup {None}]
    /\ chal \in [Keys -> {"none", "issued", "signed", "linked"}]
    /\ db \subseteq Keys /\ gone \subseteq Keys
    /\ age \in [Keys -> 0..MaxAge]
    /\ c2 \in [Keys -> Seq({"registration", "deregistration"})]

LEMMA TimeShapeFromTypes == TypeOK => TimeShape
BY DEF TypeOK, TimeShape

\* A wrapper that waits or runs is the only one with its key.
LEMMA OneHolder ==
    ASSUME RegistryInv, NEW s \in Sensors, NEW a \in Sensors, key[s] = key[a],
           pc[s] \in Waiting \cup {"running", "await_dereg"},
           pc[a] \in Waiting \cup {"running", "await_dereg"}
    PROVE  s = a
BY DEF RegistryInv, WrapperInv

\* Steps that leave s and the row of its key alone, or make the row younger.
LEMMA HealthFrame ==
    ASSUME TimeShape, RegistryInv, NEW s \in Sensors, HealthInv(s),
           UNCHANGED <<pc[s], key[s], heartbeat[s], timer[s]>>,
           key[s] \in Keys =>
           LET k == key[s]
           IN  /\ sync'[k] = sync[k] \/ sync'[k] = "idle"
               /\ dereg'[k] = dereg[k] \/ dereg'[k] = "idle"
               /\ age'[k] = age[k] \/ age'[k] = 0
               /\ k \in db => k \in db'
               /\ k \in gone' => k \in gone
               /\ \A p \in Pruners : k \in todo'[p] => k \in todo[p]
    PROVE  HealthInv(s)'
<1>1. timer[s] \in Nat  BY TimesAssumption DEF TimeShape
<1>2. pc[s] \in Waiting \cup {"running"} => key[s] \in Keys  BY DEF RegistryInv, WrapperInv
<1> QED  BY <1>1, <1>2 DEF HealthInv

LEMMA WrapperHealth ==
    ASSUME TimeShape, RegistryInv, NEW s \in Sensors, HealthInv(s), SyncPeriod <= PruneAge,
           NEW a \in Sensors, WrapperStep(a) \/ WrapperFault(a) \/ Terminate(a)
    PROVE  HealthInv(s)'
<1> USE SetsAssumption, TimesAssumption DEF TimeShape, wrapper, handlers, pruning, rows, Waiting
<1>1. CASE Start(a) \/ WaitForSensorApi(a) \/ Retry(a)
  BY <1>1 DEF Start, WaitForSensorApi, Retry, HealthInv
<1>2. CASE RequestSignedPublicKey(a) \/ RequestRegistration(a)
  BY <1>2 DEF RequestSignedPublicKey, RequestRegistration, HealthInv
<1>3. CASE FailCycle(a) \/ LoseConnection(a)
  BY <1>3 DEF FailCycle, LoseConnection, AbandonCycle, HealthInv
<1>4. CASE LoseDeregConnection(a) \/ CrashSensor(a)
  BY <1>4 DEF LoseDeregConnection, CrashSensor, LeaveMain, HealthInv
<1>5. CASE EndDeregistration(a) \/ FailDeregistration(a)
  <2>1. /\ \E next \in {"boot", "exited"} : LeaveMain(a, next)
        /\ dereg' = [dereg EXCEPT ![key[a]] = "idle"]
        /\ UNCHANGED <<sync, todo, db, age, gone>>
    BY <1>5 DEF EndDeregistration, FailDeregistration, AfterMain
  <2> QED  BY <2>1 DEF LeaveMain, HealthInv
<1>6. CASE Terminate(a)
  <2>1. CASE a = s  BY <1>6, <2>1 DEF Terminate, HealthInv
  <2>2. CASE a # s
    <3>1. pc[s] \in Waiting \cup {"running"} => key[a] # key[s]
      BY <1>6, <2>2, OneHolder DEF Terminate
    <3> QED  BY <1>6, <2>2, <3>1 DEF Terminate, HealthInv
  <2> QED  BY <2>1, <2>2
<1>7. CASE LoseSyncConnection(a) \/ FailSync(a)
  <2>1. CASE a = s  BY <1>7, <2>1 DEF LoseSyncConnection, FailSync, HealthInv
  <2>2. CASE a # s
    <3>1. UNCHANGED <<pc[s], key[s], heartbeat[s], timer[s], db, age, gone, dereg, todo>>
      BY <1>7, <2>2 DEF LoseSyncConnection, FailSync
    <3>2. key[s] \in Keys => sync'[key[s]] = sync[key[s]] \/ sync'[key[s]] = "idle"
      BY <1>7, <2>2 DEF LoseSyncConnection, FailSync
    <3> QED  BY <3>1, <3>2, HealthFrame
  <2> QED  BY <2>1, <2>2
<1>8. CASE SendSync(a)
  <2>1. CASE a = s  BY <1>8, <2>1 DEF SendSync, Sent, HealthInv
  <2>2. CASE a # s
    <3>1. pc[s] \in Waiting \cup {"running"} => key[a] # key[s]
      BY <1>8, <2>2, OneHolder DEF SendSync
    <3> QED  BY <1>8, <2>2, <3>1 DEF SendSync, HealthInv
  <2> QED  BY <2>1, <2>2
<1>9. CASE EndSync(a)
  <2>1. CASE a = s  BY <1>9, <2>1 DEF EndSync, HealthInv
  <2>2. CASE a # s
    <3>1. UNCHANGED <<pc[s], key[s], heartbeat[s], timer[s], db, age, gone, dereg, todo>>
          /\ (key[s] \in Keys => sync'[key[s]] = sync[key[s]] \/ sync'[key[s]] = "idle")
      BY <1>9, <2>2 DEF EndSync
    <3> QED  BY <3>1, HealthFrame
  <2> QED  BY <2>1, <2>2
<1>10. CASE StartSensing(a)
  <2>1. CASE a = s
    <3>1. key[s] \in db
      BY <1>10, <2>1 DEF StartSensing, RegistryInv, WrapperInv, Settled, Complete, HealthInv
    <3>2. key[s] \in Keys /\ age[key[s]] = 0 /\ sync[key[s]] = "idle"  /\ dereg[key[s]] = "idle"
          /\ \A p \in Pruners : key[s] \notin todo[p]
      BY <1>10, <2>1, <3>1 DEF StartSensing, HealthInv
    <3>3. pc'[s] = "running" /\ timer'[s] = SyncPeriod /\ UNCHANGED <<key, sync, dereg, todo, db, age, gone>>
      BY <1>10, <2>1 DEF StartSensing
    <3> QED  BY <3>1, <3>2, <3>3 DEF HealthInv
  <2>2. CASE a # s  BY <1>10, <2>2 DEF StartSensing, HealthInv
  <2> QED  BY <2>1, <2>2
<1>11. ASSUME NEW b \in Keys, RequestPrivateKey(a, b) PROVE HealthInv(s)'
  <2>1. CASE a = s  BY <1>11, <2>1 DEF RequestPrivateKey, Fresh, HealthInv
  <2>2. CASE a # s
    <3>1. key[s] # b  BY <1>11 DEF RequestPrivateKey, Fresh
    <3>2. /\ UNCHANGED <<pc[s], key[s], heartbeat, timer, db, dereg, sync, todo>>
          /\ (key[s] \in Keys => age'[key[s]] = age[key[s]]) /\ gone' = gone \ {b}
      BY <1>11, <2>2, <3>1 DEF RequestPrivateKey
    <3> QED  BY <3>1, <3>2, HealthFrame
  <2> QED  BY <2>1, <2>2
<1> QED
  BY <1>1, <1>2, <1>3, <1>4, <1>5, <1>6, <1>7, <1>8, <1>9, <1>10, <1>11
  DEF WrapperStep, WrapperFault

LEMMA HandlerHealth ==
    ASSUME TimeShape, RegistryInv, NEW s \in Sensors, HealthInv(s), "handler" \notin FaultKinds,
           NEW b \in Keys, HandlerStep(b) \/ HandlerFault(b)
    PROVE  HealthInv(s)'
<1> USE DEF TimeShape, wrapper, handlers, pruning, rows
<1>1. CASE IssuePrivateKey(b) \/ VerifyChallenge(b) \/ SignPublicKey(b) \/ VerifyRemoteSensor(b)
           \/ LinkAuthChallenge(b) \/ AnnounceNewSensor(b)
  <2>1. UNCHANGED <<pc, key, heartbeat, timer, sync, dereg, todo, db, age, gone>>
    BY <1>1 DEF IssuePrivateKey, VerifyChallenge, SignPublicKey, VerifyRemoteSensor,
                LinkAuthChallenge, AnnounceNewSensor
  <2> QED  BY <2>1, HealthFrame
<1>2. CASE AssignComponent(b) \/ AssignConfiguration(b) \/ MarkAsRegistered(b) \/ MarkHasCertificates(b)
  <2>1. /\ UNCHANGED <<pc, key, heartbeat, timer, sync, dereg, todo, db, gone>>
        /\ age' = age \/ age' = [age EXCEPT ![b] = 0]
    BY <1>2 DEF AssignComponent, AssignConfiguration, MarkAsRegistered, MarkHasCertificates, UpdateRow
  <2>2. key[s] \in Keys => age'[key[s]] = age[key[s]] \/ age'[key[s]] = 0  BY <2>1
  <2> QED  BY <2>1, <2>2, HealthFrame
<1>3. CASE CreateSensor(b)
  <2>1. /\ UNCHANGED <<pc, key, heartbeat, timer, sync, dereg, todo, gone>>
        /\ db \subseteq db' /\ (age' = age \/ age' = [age EXCEPT ![b] = 0])
    BY <1>3 DEF CreateSensor
  <2>2. key[s] \in Keys => age'[key[s]] = age[key[s]] \/ age'[key[s]] = 0  BY <2>1
  <2> QED  BY <2>1, <2>2, HealthFrame
<1>4. CASE SyncGet(b)
  <2>1. UNCHANGED <<pc, key, heartbeat, timer, dereg, todo, db, age, gone>>  BY <1>4 DEF SyncGet
  <2>2. CASE key[s] # b
    BY <1>4, <2>1, <2>2, HealthFrame DEF SyncGet
  <2>3. CASE key[s] = b
    <3>1. sync[b] = "get" /\ (b \in db => sync'[b] = "update")  BY <1>4 DEF SyncGet
    <3> QED  BY <2>1, <2>3, <3>1 DEF HealthInv
  <2> QED  BY <2>2, <2>3
<1>5. CASE SyncUpdate(b)
  <2>1. UNCHANGED <<pc, key, heartbeat, timer, dereg, todo, db, gone>>  BY <1>5 DEF SyncUpdate
  <2>2. CASE key[s] # b
    <3>1. key[s] \in Keys => sync'[key[s]] = sync[key[s]] /\ age'[key[s]] = age[key[s]]  BY <1>5, <2>2 DEF SyncUpdate
    <3> QED  BY <2>1, <3>1, HealthFrame
  <2>3. CASE key[s] = b
    <3>1. sync[b] = "update" /\ (b \in db => sync'[b] = "ok" /\ age'[b] = 0)  BY <1>5 DEF SyncUpdate
    <3>2. timer[s] \in Nat  BY TimesAssumption
    <3> QED  BY <2>1, <2>3, <3>1, <3>2 DEF HealthInv
  <2> QED  BY <2>2, <2>3
<1>6. CASE DeregisterGet(b) \/ DeregisterAnnounce(b)
  <2>1. UNCHANGED <<pc, key, heartbeat, timer, sync, todo, db, age, gone>> /\ dereg[b] # "idle"
        /\ \A j \in Keys : j # b => dereg'[j] = dereg[j]
    BY <1>6 DEF DeregisterGet, DeregisterAnnounce
  <2> QED  BY <2>1 DEF HealthInv, RegistryInv, WrapperInv
<1>7. CASE DeregisterDelete(b)
  <2>1. /\ UNCHANGED <<pc, key, heartbeat, timer, sync, todo>> /\ dereg[b] # "idle"
        /\ \A j \in Keys : j # b => dereg'[j] = dereg[j] /\ age'[j] = age[j]
        /\ db \subseteq db' \cup {b} /\ gone' \subseteq gone \cup {b}
    BY <1>7 DEF DeregisterDelete, DeleteRow
  <2> QED  BY <2>1 DEF HealthInv, RegistryInv, WrapperInv
<1>8. CASE DropAnswer(b)
  <2>1. /\ UNCHANGED <<pc, key, heartbeat, timer, todo, db, age, gone>>
        /\ sync' = sync \/ sync' = [sync EXCEPT ![b] = "idle"]
        /\ dereg' = dereg \/ dereg' = [dereg EXCEPT ![b] = "idle"]
    BY <1>8 DEF DropAnswer
  <2>2. key[s] \in Keys =>
          /\ sync'[key[s]] = sync[key[s]] \/ sync'[key[s]] = "idle"
          /\ dereg'[key[s]] = dereg[key[s]] \/ dereg'[key[s]] = "idle"
    BY <2>1
  <2> QED  BY <2>1, <2>2, HealthFrame
<1>9. ~HandlerFault(b)
  BY DEF HandlerFault, FailRequest, FailSyncRequest, FailDeregRequest, Fault
<1> QED  BY <1>1, <1>2, <1>3, <1>4, <1>5, <1>6, <1>7, <1>8, <1>9 DEF HandlerStep

\* A row that is young is not selected, one that was not selected is not deleted.
LEMMA PruneHealth ==
    ASSUME TimeShape, RegistryInv, NEW s \in Sensors, HealthInv(s), SyncPeriod <= PruneAge,
           NEW p \in Pruners, PruneStep(p) \/ FailPrune(p)
    PROVE  HealthInv(s)'
<1> USE DEF TimeShape, wrapper, handlers, pruning, rows
<1>1. CASE PruneSelect(p)
  <2>1. /\ UNCHANGED <<pc, key, heartbeat, timer, sync, dereg, db, age, gone>>
        /\ todo' = [todo EXCEPT ![p] = {j \in Keys : Old(j)}]
    BY <1>1 DEF PruneSelect
  <2>2. pc[s] \in Waiting \/ (pc[s] = "running" /\ heartbeat[s]) => ~Old(key[s]) /\ key[s] \in Keys
    <3>1. ASSUME pc[s] \in Waiting PROVE ~Old(key[s])
      BY <3>1, TimesAssumption DEF Old, HealthInv
    <3>2. ASSUME pc[s] = "running", heartbeat[s] PROVE ~Old(key[s])
      <4>1. timer[s] \in 0..SyncPeriod /\ age[key[s]] <= timer[s] /\ key[s] \in Keys
        BY <3>2 DEF HealthInv, RegistryInv, WrapperInv
      <4>2. age[key[s]] \in Nat  BY <4>1, TimesAssumption DEF MaxAge
      <4> QED  BY <4>1, <4>2, TimesAssumption DEF Old
    <3> QED  BY <3>1, <3>2 DEF RegistryInv, WrapperInv
  <2>3. pc[s] \in Waiting \/ (pc[s] = "running" /\ heartbeat[s])
          => \A q \in Pruners : key[s] \in todo'[q] => key[s] \in todo[q]
    BY <2>1, <2>2
  <2> QED  BY <2>1, <2>3 DEF HealthInv
<1>2. ASSUME NEW b \in Keys, PruneDelete(p, b) PROVE HealthInv(s)'
  <2>1. /\ UNCHANGED <<pc, key, heartbeat, timer, sync, dereg>> /\ b \in todo[p]
        /\ \A q \in Pruners : todo'[q] \subseteq todo[q]
        /\ \A j \in Keys : j # b => age'[j] = age[j]
        /\ db \subseteq db' \cup {b} /\ gone' \subseteq gone \cup {b}
    <3>1. CASE b \in db
      <4>1. /\ UNCHANGED <<pc, key, heartbeat, timer, sync, dereg>> /\ b \in todo[p]
            /\ todo' = [todo EXCEPT ![p] = @ \ {b}] /\ age' = [age EXCEPT ![b] = 0]
            /\ db' = db \ {b} /\ gone' = gone \cup {b}
        BY <1>2, <3>1 DEF PruneDelete, DeleteRow
      <4> QED  BY <4>1
    <3>2. CASE b \notin db  BY <1>2, <3>2 DEF PruneDelete, EndRun
    <3> QED  BY <3>1, <3>2
  <2> QED  BY <2>1 DEF HealthInv, RegistryInv, WrapperInv
<1>3. CASE PruneAnnounce(p) \/ FailPrune(p)
  <2>1. /\ UNCHANGED <<pc, key, heartbeat, timer, sync, dereg, db, age, gone>>
        /\ \A q \in Pruners : todo'[q] \subseteq todo[q]
    BY <1>3 DEF PruneAnnounce, FailPrune, EndRun
  <2> QED  BY <2>1, HealthFrame
<1> QED  BY <1>1, <1>2, <1>3 DEF PruneStep

LEMMA HealthStep ==
    ASSUME TimeShape, RegistryInv, NEW s \in Sensors, HealthInv(s),
           InTime({"sensor", "connection", "api"}), [Next]_vars
    PROVE  HealthInv(s)'
<1> USE DEF TimeShape, wrapper, handlers, pruning, rows
<1>1. SyncPeriod <= PruneAge /\ "handler" \notin FaultKinds /\ Timely  BY DEF InTime
<1>2. CASE StartApi  BY <1>2, HealthFrame DEF StartApi
<1>3. CASE CrashApi
  <2>1. /\ UNCHANGED <<pc, key, heartbeat, timer, db, age, gone>>
        /\ \A j \in Keys : sync'[j] = (IF sync[j] = "idle" THEN "idle" ELSE "broken")
        /\ \A j \in Keys : dereg[j] = "idle" => dereg'[j] = "idle"
        /\ \A q \in Pruners : todo'[q] = {}
    BY <1>3 DEF CrashApi
  <2> QED  BY <2>1 DEF HealthInv, RegistryInv, WrapperInv
<1>4. CASE Tick
  <2>1. /\ Quiet /\ UNCHANGED <<pc, key, heartbeat, sync, dereg, todo, db, gone>>
        /\ age' = [k \in Keys |-> IF k \in db /\ age[k] < MaxAge THEN age[k] + 1 ELSE age[k]]
        /\ timer' = [q \in Sensors |-> IF heartbeat[q] /\ timer[q] < SyncPeriod
                                        THEN timer[q] + 1 ELSE timer[q]]
    BY <1>1, <1>4 DEF Tick
  <2>2. pc[s] \notin Waiting
    <3> SUFFICES ASSUME pc[s] \in Waiting PROVE FALSE  OBVIOUS
    <3>1. key[s] \in Keys /\ req[key[s]] \in ReqSteps \cup Answers
      BY DEF RegistryInv, WrapperInv, Waiting, RowSteps, ReqSteps, Answers
    <3> QED  BY <2>1, <3>1 DEF Quiet
  <2>3. ASSUME pc[s] = "running", heartbeat[s]
        PROVE  age'[key[s]] <= timer'[s] /\ sync[key[s]] = "idle"
    <3>1. key[s] \in Keys  BY <2>3 DEF RegistryInv, WrapperInv
    <3>2. timer[s] # SyncPeriod /\ sync[key[s]] = "idle"  BY <2>1, <2>3, <3>1 DEF Quiet
    <3>3. timer[s] \in 0..SyncPeriod /\ age[key[s]] \in 0..MaxAge  BY <3>1
    <3>4. timer'[s] = timer[s] + 1  BY <2>1, <2>3, <3>2, <3>3, TimesAssumption
    <3>5. age'[key[s]] \in {age[key[s]], age[key[s]] + 1}  BY <2>1, <3>1
    <3>6. age[key[s]] <= timer[s]  BY <2>3 DEF HealthInv
    <3> QED  BY <3>2, <3>3, <3>4, <3>5, <3>6, TimesAssumption DEF MaxAge
  <2> QED  BY <2>1, <2>2, <2>3 DEF HealthInv
<1>5. CASE UNCHANGED vars  BY <1>5, HealthFrame DEF vars
<1> HIDE DEF TimeShape, wrapper, handlers, pruning, rows
<1> QED
  BY <1>1, <1>2, <1>3, <1>4, <1>5, WrapperHealth, HandlerHealth, PruneHealth DEF Next

\* With requests that are answered within the minute, a sensor whose heartbeat
\* task lives keeps its row, whatever the other sensors, their crashes, lost
\* connections, crashes of the API server and overlapping prune runs do: for any
\* period of the heartbeat that the limit of prune_old_sensors is not below.
THEOREM HealthyCorrect ==
    ASSUME InTime({"sensor", "connection", "api"})
    PROVE  Spec => []HealthyKeepsRow
<1> DEFINE H == \A s \in Sensors : HealthInv(s)
<1>1. Init => H  BY DEF Init, HealthInv, Waiting
<1>2. TypeOK /\ RegistryInv /\ H /\ [Next]_vars => H'
  <2> SUFFICES ASSUME TypeOK, RegistryInv, H, [Next]_vars, NEW s \in Sensors PROVE HealthInv(s)'
    OBVIOUS
  <2> QED  BY TimeShapeFromTypes, HealthStep
<1>3. H => HealthyKeepsRow  BY DEF HealthInv, HealthyKeepsRow
<1> QED  BY <1>1, <1>2, <1>3, TypeCorrect, RegistryCorrect, PTL DEF Spec

-----------------------------------------------------------------------------
(* What the subscribers of the C2 topic hear first.                        *)

\* Steps that leave the row of k, its handler and its announcements alone.
LEMMA HeardFrame ==
    ASSUME TimeShape, NEW k \in Keys, HeardInv(k),
           c2'[k] = c2[k],
           req'[k] = req[k] \/ (req[k] \notin ReqSteps /\ req'[k] \notin ReqSteps),
           dereg'[k] = dereg[k] \/ dereg'[k] = "idle",
           chal'[k] = chal[k], age'[k] = age[k] \/ age'[k] = 0,
           k \in db => k \in db', k \in db' \cup gone' => k \in db \cup gone,
           \A p \in Pruners : k \in todo'[p] => k \in todo[p]
    PROVE  HeardInv(k)'
BY DEF HeardInv, Heard, RowSteps

\* An announcement is one more message, and keeps what was heard.
LEMMA HeardAppend ==
    ASSUME TimeShape, NEW k \in Keys, NEW m \in {"registration", "deregistration"},
           c2' = [c2 EXCEPT ![k] = Append(@, m)],
           Len(c2[k]) > 0 => c2[k][1] = "registration",
           m = "registration" \/ Heard(k, "registration")
    PROVE  Heard(k, "registration")' /\ c2'[k][1] = "registration"
<1>1. c2[k] \in Seq({"registration", "deregistration"}) /\ c2'[k] = Append(c2[k], m)
  BY DEF TimeShape
<1>2. /\ Len(c2'[k]) = Len(c2[k]) + 1 /\ Len(c2[k]) \in Nat
      /\ \A i \in 1..Len(c2[k]) : c2'[k][i] = c2[k][i]
      /\ c2'[k][Len(c2[k]) + 1] = m
  BY <1>1
<1>3. c2'[k][1] = "registration"
  <2>1. CASE Len(c2[k]) = 0  BY <1>2, <2>1 DEF Heard
  <2>2. CASE Len(c2[k]) > 0  BY <1>2, <2>2
  <2> QED  BY <1>2, <2>1, <2>2
<1> QED  BY <1>2, <1>3 DEF Heard

LEMMA WrapperHeard ==
    ASSUME TimeShape, RegistryInv, \A s \in Sensors : HealthInv(s), NEW k \in Keys, HeardInv(k),
           NEW a \in Sensors, WrapperStep(a) \/ WrapperFault(a) \/ Terminate(a)
    PROVE  HeardInv(k)'
<1> USE DEF TimeShape, wrapper, handlers, pruning, rows
<1>1. CASE Start(a) \/ WaitForSensorApi(a) \/ Retry(a) \/ SendSync(a) \/ EndSync(a) \/ FailSync(a)
           \/ WrapperFault(a)
  <2>1. UNCHANGED <<req, dereg, todo, chal, db, age, gone, c2>>
    BY <1>1 DEF Start, WaitForSensorApi, Retry, SendSync, EndSync, FailSync, WrapperFault,
                LoseConnection, LoseSyncConnection, LoseDeregConnection, CrashSensor
  <2> QED  BY <2>1, HeardFrame
<1>2. CASE EndDeregistration(a) \/ FailDeregistration(a)
  <2>1. /\ UNCHANGED <<req, todo, chal, db, age, gone, c2>>
        /\ dereg' = [dereg EXCEPT ![key[a]] = "idle"]
    BY <1>2 DEF EndDeregistration, FailDeregistration
  <2>2. dereg'[k] = dereg[k] \/ dereg'[k] = "idle"  BY <2>1
  <2> QED  BY <2>1, <2>2, HeardFrame
<1>3. CASE FailCycle(a) \/ StartSensing(a)
  <2>1. /\ UNCHANGED <<dereg, todo, chal, db, age, gone, c2>>
        /\ req[key[a]] \in Answers /\ req' = [req EXCEPT ![key[a]] = "idle"]
    BY <1>3 DEF FailCycle, StartSensing, Answers
  <2>2. req'[k] = req[k] \/ (req[k] \notin ReqSteps /\ req'[k] \notin ReqSteps)
    BY <2>1 DEF Answers, ReqSteps
  <2> QED  BY <2>1, <2>2, HeardFrame
<1>4. CASE RequestSignedPublicKey(a) \/ RequestRegistration(a)
  <2>1. /\ UNCHANGED <<dereg, todo, chal, db, age, gone, c2>>
        /\ pc[a] \in {"await_key", "await_cert"}
        /\ \E r \in EarlySteps \cup {"broken"} : req' = [req EXCEPT ![key[a]] = r]
    BY <1>4 DEF RequestSignedPublicKey, RequestRegistration, EarlySteps, Sent
  <2>2. CASE k = key[a]
    <3>1. k \notin db \cup gone  BY <2>1, <2>2 DEF RegistryInv, WrapperInv
    <3>2. dereg[k] = "idle" /\ \A p \in Pruners : k \notin todo[p]
      BY <2>1, <2>2 DEF HealthInv, Waiting
    <3>3. req'[k] \notin RowSteps  BY <2>1, <2>2 DEF RowSteps, ReqSteps
    <3> QED  BY <2>1, <3>1, <3>2, <3>3 DEF HeardInv
  <2>3. CASE k # key[a]  BY <2>1, <2>3, HeardFrame
  <2> QED  BY <2>2, <2>3
<1>5. ASSUME NEW b \in Keys, RequestPrivateKey(a, b) PROVE HeardInv(k)'
  <2>1. CASE k = b
    <3>1. /\ k \notin db' \cup gone' /\ c2'[k] = <<>> /\ dereg'[k] = "idle"
          /\ \A p \in Pruners : k \notin todo'[p]
      BY <1>5, <2>1 DEF RequestPrivateKey, Fresh
    <3>2. req'[k] \notin RowSteps  BY <1>5, <2>1 DEF RequestPrivateKey, Sent, RowSteps, EarlySteps, ReqSteps
    <3>3. ~(Len(c2'[k]) > 0)  BY <3>1
    <3> QED  BY <3>1, <3>2, <3>3, Zenon DEF HeardInv, RowSteps
  <2>2. CASE k # b
    <3>1. /\ UNCHANGED <<dereg, todo, db>> /\ gone' = gone \ {b}
          /\ req'[k] = req[k] /\ chal'[k] = chal[k] /\ age'[k] = age[k] /\ c2'[k] = c2[k]
      BY <1>5, <2>2 DEF RequestPrivateKey
    <3> QED  BY <2>2, <3>1, HeardFrame
  <2> QED  BY <2>1, <2>2
<1>6. CASE Terminate(a)
  <2>1. /\ UNCHANGED <<req, todo, chal, db, age, gone, c2>> /\ pc[a] = "running"
        /\ \A j \in Keys : j # key[a] => dereg'[j] = dereg[j]
    BY <1>6 DEF Terminate
  <2>2. CASE k = key[a]
    <3>1. req[k] \notin ReqSteps  BY <2>1, <2>2 DEF RegistryInv, WrapperInv, ReqSteps
    <3> QED  BY <2>1, <3>1 DEF HeardInv, Heard, RowSteps
  <2>3. CASE k # key[a]  BY <2>1, <2>3, HeardFrame
  <2> QED  BY <2>2, <2>3
<1> QED  BY <1>1, <1>2, <1>3, <1>4, <1>5, <1>6 DEF WrapperStep

LEMMA HandlerHeard ==
    ASSUME TimeShape, RegistryInv, NEW k \in Keys, HeardInv(k), "handler" \notin FaultKinds,
           NEW b \in Keys, HandlerStep(b) \/ HandlerFault(b)
    PROVE  HeardInv(k)'
<1> USE DEF TimeShape, wrapper, handlers, pruning, rows
<1>1. CASE IssuePrivateKey(b) \/ VerifyChallenge(b) \/ SignPublicKey(b) \/ VerifyRemoteSensor(b)
  <2>1. /\ UNCHANGED <<dereg, todo, db, age, gone, c2>> /\ req[b] \in EarlySteps
        /\ \A j \in Keys : j # b => chal'[j] = chal[j]
        /\ \E r \in EarlySteps \cup Answers : req' = [req EXCEPT ![b] = r]
    BY <1>1 DEF IssuePrivateKey, VerifyChallenge, SignPublicKey, VerifyRemoteSensor, EarlySteps, Answers
  <2>2. CASE k = b
    <3>1. k \notin db \cup gone  BY <2>1, <2>2 DEF RegistryInv, RowInv
    <3>2. req[k] \in ReqSteps /\ req'[k] \notin RowSteps
      BY <2>1, <2>2 DEF EarlySteps, RowSteps, ReqSteps, Answers
    <3> QED  BY <2>1, <3>1, <3>2 DEF HeardInv
  <2>3. CASE k # b  BY <2>1, <2>3, HeardFrame
  <2> QED  BY <2>2, <2>3
<1>2. CASE CreateSensor(b)
  <2>0. UNCHANGED <<dereg, todo, chal, gone, c2>> /\ req[b] = "create"  BY <1>2 DEF CreateSensor
  <2>1. CASE k = b
    <3>1. k \notin db \cup gone /\ chal[k] = "signed"
      BY <2>0, <2>1 DEF RegistryInv, RowInv, EarlySteps
    <3>2. req[k] \in ReqSteps  BY <2>0, <2>1 DEF ReqSteps
    <3>3. CASE \E r \in db : r = b \/ owner[r] = owner[b]
      <4>1. db' = db /\ req'[k] = "error"  BY <1>2, <2>1, <3>3 DEF CreateSensor
      <4> QED  BY <2>0, <3>1, <3>2, <4>1 DEF HeardInv, RowSteps, ReqSteps
    <3>4. CASE ~\E r \in db : r = b \/ owner[r] = owner[b]
      <4>1. db' = db \cup {k} /\ req'[k] = "component" /\ age'[k] = 0
        BY <1>2, <2>1, <3>4 DEF CreateSensor
      <4> QED  BY <2>0, <3>1, <3>2, <4>1 DEF HeardInv, RowSteps, EarlySteps, ReqSteps
    <3> QED  BY <3>3, <3>4
  <2>2. CASE k # b
    <3>1. req'[k] = req[k] /\ (k \in db' <=> k \in db) /\ age'[k] = age[k]
      BY <1>2, <2>2 DEF CreateSensor
    <3> QED  BY <2>0, <3>1, HeardFrame
  <2> QED  BY <2>1, <2>2
<1>3. CASE AssignComponent(b) \/ AssignConfiguration(b) \/ MarkAsRegistered(b) \/ MarkHasCertificates(b)
  <2>1. /\ UNCHANGED <<dereg, todo, chal, db, gone, c2>>
        /\ age' = age \/ age' = [age EXCEPT ![b] = 0]
        /\ req[b] \in RowSteps \ {"announce"}
        /\ b \in db => \E r \in RowSteps : req' = [req EXCEPT ![b] = r]
        /\ \A j \in Keys : j # b => req'[j] = req[j]
    BY <1>3 DEF AssignComponent, AssignConfiguration, MarkAsRegistered, MarkHasCertificates, UpdateRow,
                RowSteps, ReqSteps, EarlySteps
  <2>2. CASE k = b
    <3>1. k \in db /\ req'[k] \in RowSteps  BY <2>1, <2>2 DEF HeardInv
    <3>2. age'[k] = 0  BY <2>1, <2>2 DEF HeardInv
    <3> QED  BY <2>1, <2>2, <3>1, <3>2 DEF HeardInv, RowSteps
  <2>3. CASE k # b
    <3>1. age'[k] = age[k]  BY <2>1, <2>3
    <3> QED  BY <2>1, <2>3, <3>1, HeardFrame
  <2> QED  BY <2>2, <2>3
<1>4. CASE LinkAuthChallenge(b)
  <2>1. UNCHANGED <<dereg, todo, db, age, gone, c2>> /\ req[b] = "link"
    BY <1>4 DEF LinkAuthChallenge
  <2>2. CASE k = b
    <3>1. k \in db /\ chal[k] = "signed" /\ req[k] \in RowSteps
      BY <2>1, <2>2 DEF HeardInv, RowSteps, EarlySteps, ReqSteps
    <3>2. req'[k] = "announce"  BY <1>4, <2>2, <3>1 DEF LinkAuthChallenge
    <3> QED  BY <2>1, <3>1, <3>2 DEF HeardInv, RowSteps, EarlySteps, ReqSteps
  <2>3. CASE k # b
    <3>1. req'[k] = req[k] /\ chal'[k] = chal[k]  BY <1>4, <2>3 DEF LinkAuthChallenge
    <3> QED  BY <2>1, <3>1, HeardFrame
  <2> QED  BY <2>2, <2>3
<1>5. CASE AnnounceNewSensor(b)
  <2>1. /\ UNCHANGED <<dereg, todo, chal, db, age, gone>>
        /\ req' = [req EXCEPT ![b] = "ok"] /\ c2' = [c2 EXCEPT ![b] = Append(@, "registration")]
    BY <1>5 DEF AnnounceNewSensor
  <2>2. CASE k = b
    <3>1. Heard(k, "registration")' /\ c2'[k][1] = "registration"
      BY <2>1, <2>2, HeardAppend DEF HeardInv
    <3>2. req'[k] \notin ReqSteps  BY <2>1, <2>2 DEF ReqSteps
    <3> QED  BY <3>1, <3>2 DEF HeardInv, RowSteps
  <2>3. CASE k # b  BY <2>1, <2>3, HeardFrame
  <2> QED  BY <2>2, <2>3
<1>6. CASE SyncGet(b) \/ SyncUpdate(b)
  <2>1. /\ UNCHANGED <<req, dereg, todo, chal, db, gone, c2>>
        /\ age' = age \/ age' = [age EXCEPT ![b] = 0]
    BY <1>6 DEF SyncGet, SyncUpdate
  <2>2. age'[k] = age[k] \/ age'[k] = 0  BY <2>1
  <2> QED  BY <2>1, <2>2, HeardFrame
<1>7. CASE DeregisterGet(b)
  <2>1. /\ UNCHANGED <<req, todo, chal, db, age, gone, c2>> /\ dereg[b] # "idle"
        /\ \A j \in Keys : j # b => dereg'[j] = dereg[j]
    BY <1>7 DEF DeregisterGet
  <2>2. CASE k = b  BY <2>1, <2>2 DEF HeardInv, Heard
  <2>3. CASE k # b  BY <2>1, <2>3, HeardFrame
  <2> QED  BY <2>2, <2>3
<1>8. CASE DeregisterDelete(b)
  <2>1. /\ UNCHANGED <<req, todo, c2>> /\ dereg[b] # "idle"
        /\ \A j \in Keys : j # b => dereg'[j] = dereg[j] /\ age'[j] = age[j] /\ chal'[j] = chal[j]
        /\ \A j \in Keys : j # b => (j \in db' <=> j \in db) /\ (j \in gone' <=> j \in gone)
        /\ db' \cup gone' \subseteq db \cup gone
    BY <1>8 DEF DeregisterDelete, DeleteRow
  <2>2. CASE k = b  BY <2>1, <2>2 DEF HeardInv, Heard, RowSteps
  <2>3. CASE k # b  BY <2>1, <2>3, HeardFrame
  <2> QED  BY <2>2, <2>3
<1>9. CASE DeregisterAnnounce(b)
  <2>1. /\ UNCHANGED <<req, todo, chal, db, age, gone>> /\ dereg[b] = "announce"
        /\ c2' = [c2 EXCEPT ![b] = Append(@, "deregistration")]
        /\ \A j \in Keys : j # b => dereg'[j] = dereg[j]
    BY <1>9 DEF DeregisterAnnounce
  <2>2. CASE k = b
    <3>1. k \in gone /\ req[k] \notin ReqSteps
      BY <2>1, <2>2 DEF RegistryInv, RemovalInv, HeardInv
    <3>2. Heard(k, "registration")  BY <3>1 DEF HeardInv, RowSteps
    <3>3. Heard(k, "registration")' /\ c2'[k][1] = "registration"
      BY <2>1, <2>2, <3>2, HeardAppend DEF HeardInv
    <3> QED  BY <2>1, <3>1, <3>3 DEF HeardInv, RowSteps
  <2>3. CASE k # b  BY <2>1, <2>3, HeardFrame
  <2> QED  BY <2>2, <2>3
<1>10. CASE DropAnswer(b)
  <2>1. /\ UNCHANGED <<todo, chal, db, age, gone, c2>>
        /\ req' = req \/ (req[b] \in Answers /\ req' = [req EXCEPT ![b] = "idle"])
        /\ dereg' = dereg \/ dereg' = [dereg EXCEPT ![b] = "idle"]
    BY <1>10 DEF DropAnswer
  <2>2. /\ req'[k] = req[k] \/ (req[k] \notin ReqSteps /\ req'[k] \notin ReqSteps)
        /\ dereg'[k] = dereg[k] \/ dereg'[k] = "idle"
    BY <2>1 DEF Answers, ReqSteps
  <2> QED  BY <2>1, <2>2, HeardFrame
<1>11. ~HandlerFault(b)
  BY DEF HandlerFault, FailRequest, FailSyncRequest, FailDeregRequest, Fault
<1> QED
  BY <1>1, <1>2, <1>3, <1>4, <1>5, <1>6, <1>7, <1>8, <1>9, <1>10, <1>11 DEF HandlerStep

LEMMA PruneHeard ==
    ASSUME TimeShape, RegistryInv, NEW k \in Keys, HeardInv(k),
           NEW p \in Pruners, PruneStep(p) \/ FailPrune(p)
    PROVE  HeardInv(k)'
<1> USE DEF TimeShape, wrapper, handlers, pruning, rows
<1>1. CASE PruneSelect(p)
  <2>1. /\ UNCHANGED <<req, dereg, chal, db, age, gone, c2>>
        /\ todo' = [todo EXCEPT ![p] = {j \in Keys : Old(j)}]
    BY <1>1 DEF PruneSelect
  <2>2. req[k] \in ReqSteps => ~Old(k)
    <3>1. req[k] \in RowSteps => ~Old(k)  BY TimesAssumption DEF HeardInv, Old
    <3>2. req[k] \in EarlySteps => ~Old(k)  BY DEF RegistryInv, RowInv, Old
    <3> QED  BY <3>1, <3>2 DEF RowSteps
  <2>3. req[k] \in ReqSteps => \A q \in Pruners : k \notin todo'[q]
    BY <2>1, <2>2 DEF HeardInv
  <2> QED  BY <2>1, <2>3 DEF HeardInv, Heard
<1>2. ASSUME NEW b \in Keys, PruneDelete(p, b) PROVE HeardInv(k)'
  <2>1. /\ UNCHANGED <<req, dereg, c2>> /\ b \in todo[p]
        /\ \A q \in Pruners : todo'[q] \subseteq todo[q]
        /\ \A j \in Keys : j # b => age'[j] = age[j] /\ chal'[j] = chal[j]
        /\ \A j \in Keys : j # b => (j \in db' <=> j \in db) /\ (j \in gone' <=> j \in gone)
        /\ db' \cup gone' \subseteq db \cup gone
    <3>1. CASE b \in db
      <4>1. /\ UNCHANGED <<req, dereg, c2>> /\ b \in todo[p]
            /\ todo' = [todo EXCEPT ![p] = @ \ {b}] /\ age' = [age EXCEPT ![b] = 0]
            /\ db' = db \ {b} /\ gone' = gone \cup {b}
            /\ \A j \in Keys : j # b => chal'[j] = chal[j]
        BY <1>2, <3>1 DEF PruneDelete, DeleteRow
      <4> QED  BY <3>1, <4>1
    <3>2. CASE b \notin db  BY <1>2, <3>2 DEF PruneDelete, EndRun
    <3> QED  BY <3>1, <3>2
  <2>2. CASE k = b
    <3>1. req[k] \notin ReqSteps  BY <2>1, <2>2 DEF HeardInv
    <3> QED  BY <2>1, <3>1 DEF HeardInv, Heard, RowSteps
  <2>3. CASE k # b  BY <2>1, <2>3, HeardFrame
  <2> QED  BY <2>2, <2>3
<1>3. CASE FailPrune(p)
  <2>1. /\ UNCHANGED <<req, dereg, chal, db, age, gone, c2>>
        /\ \A q \in Pruners : todo'[q] \subseteq todo[q]
    BY <1>3 DEF FailPrune, EndRun
  <2> QED  BY <2>1, HeardFrame
<1>4. CASE PruneAnnounce(p)
  <2>1. /\ UNCHANGED <<req, dereg, chal, db, age, gone>> /\ deleted[p] \in Keys
        /\ \A q \in Pruners : todo'[q] \subseteq todo[q]
        /\ c2' = c2 \/ c2' = [c2 EXCEPT ![deleted[p]] = Append(@, "deregistration")]
    BY <1>4 DEF PruneAnnounce, EndRun
  <2>2. CASE k = deleted[p] /\ c2' # c2
    <3>1. k \in gone  BY <2>2 DEF RegistryInv, RemovalInv
    <3>2. req[k] \notin RowSteps  BY <3>1 DEF HeardInv, RegistryInv, RowInv
    <3>3. Heard(k, "registration")  BY <3>1, <3>2 DEF HeardInv
    <3>4. Heard(k, "registration")' /\ c2'[k][1] = "registration"
      BY <2>1, <2>2, <3>3, HeardAppend DEF HeardInv
    <3> QED  BY <2>1, <3>1, <3>2, <3>4 DEF HeardInv
  <2>3. CASE k # deleted[p] \/ c2' = c2
    <3>1. c2'[k] = c2[k]  BY <2>1, <2>3
    <3> QED  BY <2>1, <3>1, HeardFrame
  <2> QED  BY <2>2, <2>3
<1> QED  BY <1>1, <1>2, <1>3, <1>4 DEF PruneStep

LEMMA HeardStep ==
    ASSUME TimeShape, RegistryInv, \A s \in Sensors : HealthInv(s), NEW k \in Keys, HeardInv(k),
           InTime({"sensor", "connection"}), [Next]_vars
    PROVE  HeardInv(k)'
<1> USE DEF TimeShape, wrapper, handlers, pruning, rows
<1>1. "handler" \notin FaultKinds /\ "api" \notin FaultKinds /\ Timely  BY DEF InTime
<1>2. CASE StartApi  BY <1>2, HeardFrame DEF StartApi
<1>3. ~CrashApi  BY <1>1 DEF CrashApi, Fault
<1>4. CASE Tick
  <2>1. Quiet /\ UNCHANGED <<req, dereg, todo, chal, db, gone, c2>>  BY <1>1, <1>4 DEF Tick
  <2>2. req[k] \notin ReqSteps  BY <2>1 DEF Quiet
  <2> QED  BY <2>1, <2>2 DEF HeardInv, Heard, RowSteps
<1>5. CASE UNCHANGED vars  BY <1>5, HeardFrame DEF vars
<1> HIDE DEF TimeShape, wrapper, handlers, pruning, rows
<1> QED
  BY <1>1, <1>2, <1>3, <1>4, <1>5, WrapperHeard, HandlerHeard, PruneHeard DEF Next

\* With requests that are answered within the minute and handlers that run to
\* their end, subscribers of the C2 topic hear of a registration before they
\* hear of its deregistration, whoever of deregister/2 and the overlapping
\* prune runs removes the row, and though sensors crash and connections break.
THEOREM HeardFirstCorrect ==
    ASSUME InTime({"sensor", "connection"})
    PROVE  Spec => []RegistrationHeardFirst
<1> DEFINE H == \A s \in Sensors : HealthInv(s)
           F == \A k \in Keys : HeardInv(k)
<1>1. Init => H /\ F
  <2>1. Init => H  BY DEF Init, HealthInv, Waiting
  <2>2. Init => F  BY DEF Init, HeardInv, ReqSteps, RowSteps
  <2> QED  BY <2>1, <2>2
<1>2. TypeOK /\ RegistryInv /\ H /\ F /\ [Next]_vars => H' /\ F'
  <2> SUFFICES ASSUME TypeOK, RegistryInv, H, F, [Next]_vars PROVE H' /\ F'
    OBVIOUS
  <2>1. InTime({"sensor", "connection", "api"})  BY DEF InTime
  <2>2. ASSUME NEW s \in Sensors PROVE HealthInv(s)'
    BY <2>1, TimeShapeFromTypes, HealthStep
  <2>3. ASSUME NEW k \in Keys PROVE HeardInv(k)'
    BY TimeShapeFromTypes, HeardStep
  <2> QED  BY <2>2, <2>3
<1>3. F => RegistrationHeardFirst  BY DEF HeardInv, RegistrationHeardFirst
<1> QED  BY <1>1, <1>2, <1>3, TypeCorrect, RegistryCorrect, PTL DEF Spec
=============================================================================
