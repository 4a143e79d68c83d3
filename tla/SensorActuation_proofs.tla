------------------------ MODULE SensorActuation_proofs ------------------------
(***************************************************************************)
(* Proofs about SensorActuation, for any number of overlapping actuations. *)
(***************************************************************************)
EXTENDS SensorActuation, TLAPS

\* The types of what the wrapper and the requests keep; log_drain_task is set
\* before main() runs on.
TypeInv ==
    /\ obs \in [Observers -> {"idle", "assign", "put", "await", "ok", "error"}]
    /\ pc \in {"registering", "running", "stopping", "stopped"}
    /\ handler \in [Observers -> {"none", "headers", "body", "read", "bounce", "closed"}]
    /\ bounces \in [Observers -> Starters \cup {None}]
    /\ spawned \in Seq(Starters)
    /\ csm \in [Starters -> {"none", "ready", "cancelling", "running", "done"}]
    /\ drain \in [Starters -> {"none", "running", "cancelled", "done"}]
    /\ drainTask \in Starters \cup {None}
    /\ pc = "running" => drainTask # None

\* A request that has not been put to the sensor has no handler there.
HandlerInv ==
    \A o \in Observers : obs[o] \in {"idle", "assign", "put"} => handler[o] = "none"

\* Until a signal comes.
Live == pc \in {"registering", "running"}
Index == 1..Len(spawned)

\* call_sensing_method is spawned once by main() and once by each handler that
\* has read its body.
SpawnInv ==
    /\ waits \in [Starters -> Starters \cup {None}]
    /\ group \in Starters \cup {None}
    /\ \A i, j \in Index : spawned[i] = spawned[j] => i = j
    /\ \A i \in Index : spawned[i] \in Observers => handler[spawned[i]] \in {"bounce", "closed"}
    /\ \A i \in Index : spawned[i] = "main" => pc = "running"
    /\ pc = "running" => Len(spawned) > 0
    /\ \A t \in Starters : csm[t] # "none" => \E i \in Index : spawned[i] = t

\* What was spawned has started its methods up to the group, is cancelling a
\* group behind that, and has not run at the end; a group whose methods have
\* ended is one that somebody behind it cancels.
Sensed(g) ==
    /\ group = spawned[g]
    /\ \A i \in 1..g : csm[spawned[i]] \in {"running", "done"}
    /\ \A i \in Index : i > g => csm[spawned[i]] \in {"cancelling", "ready"}
    /\ csm[group] = "done" =>
           \E i \in Index : csm[spawned[i]] = "cancelling" /\ waits[spawned[i]] = group

SenseInv ==
    /\ \A i, j \in Index : i < j /\ csm[spawned[i]] = "ready" => csm[spawned[j]] = "ready"
    /\ group = None => \A i \in Index : csm[spawned[i]] = "ready"
    /\ group # None => \E g \in Index : Sensed(g)

ActuationInv == TypeInv /\ HandlerInv /\ DrainIsReplaced /\ (Live => SpawnInv /\ SenseInv)

-----------------------------------------------------------------------------
(* Steps that keep TypeInv and HandlerInv.                                 *)

\* The types and the handlers of requests, action by action.
LEMMA TypeStep ==
    ASSUME TypeInv, HandlerInv, [Next]_vars
    PROVE  TypeInv' /\ HandlerInv'
<1> USE NamesAssumption DEF Starters
<1>1. ASSUME NEW o \in Observers, NEW l \in Levels, SelectSensor(o, l) PROVE TypeInv' /\ HandlerInv'
  BY <1>1 DEF SelectSensor, TypeInv, HandlerInv, sensing, drains
<1>2. ASSUME NEW o \in Observers, AssignConfiguration(o) PROVE TypeInv' /\ HandlerInv'
  BY <1>2 DEF AssignConfiguration, TypeInv, HandlerInv, sensing, drains
<1>3. ASSUME NEW o \in Observers, PutSensor(o) PROVE TypeInv' /\ HandlerInv'
  BY <1>3 DEF PutSensor, TypeInv, HandlerInv, sensing, drains
<1>4. ASSUME NEW o \in Observers, TimeOut(o) PROVE TypeInv' /\ HandlerInv'
  BY <1>4 DEF TimeOut, TypeInv, HandlerInv, sensing, drains
<1>5. ASSUME NEW o \in Observers, HttpHandler(o) \/ WaitForJson(o) PROVE TypeInv' /\ HandlerInv'
  BY <1>5 DEF HttpHandler, WaitForJson, TypeInv, HandlerInv, api, sensing, drains
<1>6. ASSUME NEW o \in Observers, SpawnSensingMethod(o) PROVE TypeInv' /\ HandlerInv'
  <2>1. TypeInv'
    <3>1. /\ spawned' \in Seq(Starters)
          /\ csm' \in [Starters -> {"none", "ready", "cancelling", "running", "done"}]
          /\ bounces' \in [Observers -> Starters \cup {None}]
          /\ UNCHANGED <<pc, drainTask>>
      BY <1>6 DEF SpawnSensingMethod, TypeInv
    <3>2. drain' \in [Starters -> {"none", "running", "cancelled", "done"}]
      BY <1>6 DEF SpawnSensingMethod, TypeInv
    <3>3. /\ handler' \in [Observers -> {"none", "headers", "body", "read", "bounce", "closed"}]
          /\ obs' \in [Observers -> {"idle", "assign", "put", "await", "ok", "error"}]
      BY <1>6 DEF SpawnSensingMethod, Reply, TypeInv
    <3> QED  BY <3>1, <3>2, <3>3 DEF TypeInv
  <2>2. HandlerInv'
    BY <1>6 DEF SpawnSensingMethod, Reply, TypeInv, HandlerInv
  <2> QED  BY <2>1, <2>2
<1>7. ASSUME NEW o \in Observers, BounceLogDrain(o) PROVE TypeInv' /\ HandlerInv'
  BY <1>7 DEF BounceLogDrain, Reply, TypeInv, HandlerInv, sensing
<1>8. ASSUME NEW t \in Starters, StopDrain(t) PROVE TypeInv' /\ HandlerInv'
  BY <1>8 DEF StopDrain, TypeInv, HandlerInv, api, sensing
<1>9. ASSUME NEW t \in Starters, CancelRemaining(t) PROVE TypeInv' /\ HandlerInv'
  BY <1>9 DEF CancelRemaining, TypeInv, HandlerInv, api, drains
<1>10. ASSUME NEW t \in Starters, EndSensing(t) PROVE TypeInv' /\ HandlerInv'
  BY <1>10 DEF EndSensing, TypeInv, HandlerInv, api, drains
<1>11. ASSUME NEW t \in Starters, RestartSensing(t) PROVE TypeInv' /\ HandlerInv'
  BY <1>11 DEF RestartSensing, TypeInv, HandlerInv, api, drains
<1>12. CASE StartSensing
  BY <1>12 DEF StartSensing, TypeInv, HandlerInv, api
<1>13. CASE Stop
  <2>1. TypeInv'  BY <1>13 DEF Stop, TypeInv
  <2>2. HandlerInv'  BY <1>13 DEF Stop, TypeInv, HandlerInv
  <2> QED  BY <2>1, <2>2
<1>14. CASE Deregister
  BY <1>14 DEF Deregister, TypeInv, HandlerInv, sensing, drains
<1>15. CASE UNCHANGED vars
  BY <1>15 DEF vars, api, sensing, drains, TypeInv, HandlerInv
<1> QED
  BY <1>1, <1>2, <1>3, <1>4, <1>5, <1>6, <1>7, <1>8, <1>9, <1>10, <1>11, <1>12, <1>13,
     <1>14, <1>15 DEF Next, ApiStep, HandlerStep, TaskStep

-----------------------------------------------------------------------------
(* The log drain.                                                          *)

\* A handler bounces the log drain only when main() has started one; what it
\* cancels, it replaces.
LEMMA DrainStep ==
    ASSUME TypeInv, HandlerInv, DrainIsReplaced, [Next]_vars
    PROVE  DrainIsReplaced'
<1> USE NamesAssumption DEF Starters, DrainIsReplaced
<1>1. ASSUME UNCHANGED <<pc, handler, bounces, drain, drainTask>> PROVE DrainIsReplaced'
  BY <1>1
<1>2. ASSUME NEW o \in Observers, PutSensor(o) PROVE DrainIsReplaced'
  BY <1>2 DEF PutSensor, TypeInv, HandlerInv, drains
<1>3. ASSUME NEW o \in Observers, HttpHandler(o) \/ WaitForJson(o) PROVE DrainIsReplaced'
  BY <1>3 DEF HttpHandler, WaitForJson, TypeInv, drains
<1>4. ASSUME NEW o \in Observers, SpawnSensingMethod(o) PROVE DrainIsReplaced'
  <2>1. CASE drainTask = None
    BY <1>4, <2>1 DEF SpawnSensingMethod, TypeInv
  <2>2. CASE drainTask # None
    <3>1. handler'[o] = "bounce" /\ bounces'[o] = drainTask'
      BY <1>4, <2>2 DEF SpawnSensingMethod, TypeInv
    <3> QED  BY <3>1
  <2> QED  BY <2>1, <2>2
<1>5. ASSUME NEW o \in Observers, BounceLogDrain(o) PROVE DrainIsReplaced'
  BY <1>5 DEF BounceLogDrain, TypeInv
<1>6. ASSUME NEW t \in Starters, StopDrain(t) PROVE DrainIsReplaced'
  BY <1>6 DEF StopDrain, TypeInv
<1>7. CASE StartSensing
  BY <1>7 DEF StartSensing, TypeInv
<1>8. CASE Stop \/ Deregister
  BY <1>8 DEF Stop, Deregister
<1>9. \A o \in Observers :
        (\E l \in Levels : SelectSensor(o, l)) \/ AssignConfiguration(o) \/ TimeOut(o)
        => UNCHANGED <<pc, handler, bounces, drain, drainTask>>
  BY DEF SelectSensor, AssignConfiguration, TimeOut, drains
<1>10. \A t \in Starters :
        CancelRemaining(t) \/ EndSensing(t) \/ RestartSensing(t)
        => UNCHANGED <<pc, handler, bounces, drain, drainTask>>
  BY DEF CancelRemaining, EndSensing, RestartSensing, drains
<1>11. UNCHANGED vars => UNCHANGED <<pc, handler, bounces, drain, drainTask>>
  BY DEF vars, drains
<1> QED
  BY <1>1, <1>2, <1>3, <1>4, <1>5, <1>6, <1>7, <1>8, <1>9, <1>10, <1>11
  DEF Next, ApiStep, HandlerStep, TaskStep

-----------------------------------------------------------------------------
(* The order of the sensing methods.                                       *)

\* What is spawned goes to the end and is ready.
LEMMA AppendKeepsOrder ==
    ASSUME TypeInv, SpawnInv, SenseInv, NEW t \in Starters,
           \A i \in Index : spawned[i] # t,
           spawned' = Append(spawned, t), csm' = [csm EXCEPT ![t] = "ready"],
           UNCHANGED <<waits, group>>
    PROVE  /\ SenseInv'
           /\ Len(spawned') = Len(spawned) + 1 /\ spawned'[Len(spawned) + 1] = t
           /\ \A i \in Index : spawned'[i] = spawned[i]
           /\ \A i, j \in Index' : spawned'[i] = spawned'[j] => i = j
           /\ \A u \in Starters : csm'[u] # "none" => \E i \in Index' : spawned'[i] = u
<1> DEFINE n == Len(spawned)
<1>1. /\ n \in Nat /\ Len(spawned') = n + 1 /\ spawned'[n + 1] = t
      /\ \A i \in 1..n : spawned'[i] = spawned[i] /\ spawned[i] \in Starters
  BY DEF TypeInv
<1>2. Index = 1..n /\ Index' = 1..(n + 1)
  BY <1>1 DEF Index
<1> HIDE DEF n
<1>3. csm'[t] = "ready" /\ \A u \in Starters : u # t => csm'[u] = csm[u]
  BY DEF TypeInv
<1>4. \A i \in 1..n : csm'[spawned'[i]] = csm[spawned[i]]
  BY <1>1, <1>2, <1>3
<1>5. \A i, j \in Index' : spawned'[i] = spawned'[j] => i = j
  BY <1>1, <1>2 DEF SpawnInv
<1>6. ASSUME NEW u \in Starters, csm'[u] # "none" PROVE \E i \in Index' : spawned'[i] = u
  <2>1. CASE u = t  BY <1>1, <1>2, <2>1
  <2>2. CASE u # t
    <3>1. PICK i \in 1..n : spawned[i] = u  BY <1>2, <1>3, <1>6, <2>2 DEF SpawnInv
    <3> QED  BY <1>1, <1>2, <3>1
  <2> QED  BY <2>1, <2>2
<1>7. SenseInv'
  <2>1. ASSUME NEW i \in Index', NEW j \in Index', i < j, csm'[spawned'[i]] = "ready"
        PROVE  csm'[spawned'[j]] = "ready"
    <3>1. i \in 1..n  BY <1>1, <1>2, <2>1
    <3>2. CASE j = n + 1  BY <1>1, <1>3, <3>2
    <3>3. CASE j \in 1..n  BY <1>2, <1>4, <2>1, <3>1, <3>3, ZenonT(60) DEF SenseInv
    <3> QED  BY <1>1, <1>2, <3>2, <3>3
  <2>2. ASSUME group' = None, NEW i \in Index' PROVE csm'[spawned'[i]] = "ready"
    <3>1. CASE i = n + 1  BY <1>1, <1>3, <3>1
    <3>2. CASE i \in 1..n  BY <1>2, <1>4, <2>2, <3>2 DEF SenseInv
    <3> QED  BY <1>1, <1>2, <3>1, <3>2
  <2>3. ASSUME group' # None PROVE \E g \in Index' : Sensed(g)'
    <3>1. PICK g \in 1..n : Sensed(g)  BY <1>2, <2>3 DEF SenseInv
    <3>2. group' = spawned'[g] /\ csm'[group'] = csm[group]
      BY <1>1, <1>4, <3>1 DEF Sensed
    <3>3. \A i \in 1..g : csm'[spawned'[i]] \in {"running", "done"}
      BY <1>1, <1>4, <3>1 DEF Sensed
    <3>4. ASSUME NEW i \in Index', i > g PROVE csm'[spawned'[i]] \in {"cancelling", "ready"}
      <4>1. CASE i = n + 1  BY <1>1, <1>3, <4>1
      <4>2. CASE i \in 1..n  BY <1>2, <1>4, <3>1, <3>4, <4>2 DEF Sensed
      <4> QED  BY <1>1, <1>2, <4>1, <4>2
    <3>5. ASSUME csm'[group'] = "done"
          PROVE  \E i \in Index' : csm'[spawned'[i]] = "cancelling" /\ waits'[spawned'[i]] = group'
      <4>1. PICK i \in 1..n : csm[spawned[i]] = "cancelling" /\ waits[spawned[i]] = group
        BY <1>2, <3>1, <3>2, <3>5 DEF Sensed
      <4>2. i \in Index'  BY <1>1, <1>2
      <4> QED  BY <1>1, <1>4, <4>1, <4>2
    <3>6. g \in Index'  BY <1>1, <1>2
    <3> QED  BY <3>2, <3>3, <3>4, <3>5, <3>6 DEF Sensed
  <2> QED  BY <2>1, <2>2, <2>3 DEF SenseInv
<1> QED  BY <1>1, <1>2, <1>5, <1>6, <1>7

\* Every spawning, cancelling and restarting keeps the order.
LEMMA SenseStep ==
    ASSUME TypeInv, HandlerInv, Live => SpawnInv /\ SenseInv, [Next]_vars, Live'
    PROVE  SpawnInv' /\ SenseInv'
<1>0. Live /\ ~Stop /\ ~Deregister /\ SpawnInv /\ SenseInv
  <2>1. ~Stop /\ ~Deregister  BY DEF Live, Stop, Deregister
  <2>2. Live
    BY <2>1 DEF Live, Next, ApiStep, HandlerStep, TaskStep, SelectSensor, AssignConfiguration,
       PutSensor, TimeOut, HttpHandler, WaitForJson, SpawnSensingMethod, BounceLogDrain,
       StopDrain, CancelRemaining, EndSensing, RestartSensing, StartSensing, vars
  <2> QED  BY <2>1, <2>2
<1> USE NamesAssumption DEF Starters
<1>1. Len(spawned) \in Nat /\ \A i \in Index : spawned[i] \in Starters
  BY DEF TypeInv, Index
<1>2. ASSUME UNCHANGED <<spawned, csm, waits, group>> PROVE SenseInv'
  BY <1>0, <1>2 DEF SenseInv, Sensed, Index
<1>3. ASSUME UNCHANGED <<pc, handler, spawned, csm, waits, group>> PROVE SpawnInv'
  BY <1>0, <1>3 DEF SpawnInv, Index
<1>4. ASSUME NEW o \in Observers, PutSensor(o) PROVE SpawnInv' /\ SenseInv'
  <2>1. SpawnInv'
    BY <1>0, <1>4 DEF PutSensor, TypeInv, HandlerInv, SpawnInv, Index, sensing
  <2> QED  BY <1>2, <1>4, <2>1 DEF PutSensor, sensing
<1>5. ASSUME NEW o \in Observers, HttpHandler(o) \/ WaitForJson(o) \/ BounceLogDrain(o)
      PROVE  SpawnInv' /\ SenseInv'
  <2>1. SpawnInv'
    BY <1>0, <1>5 DEF HttpHandler, WaitForJson, BounceLogDrain, TypeInv, SpawnInv, Index, sensing
  <2> QED  BY <1>2, <1>5, <2>1 DEF HttpHandler, WaitForJson, BounceLogDrain, sensing
<1>6. ASSUME NEW o \in Observers, SpawnSensingMethod(o) PROVE SpawnInv' /\ SenseInv'
  <2>1. \A i \in Index : spawned[i] # o
    BY <1>0, <1>6 DEF SpawnSensingMethod, SpawnInv
  <2>2. /\ spawned' = Append(spawned, o) /\ csm' = [csm EXCEPT ![o] = "ready"]
        /\ UNCHANGED <<waits, group, pc>>
    BY <1>6 DEF SpawnSensingMethod
  <2>3. /\ SenseInv'
        /\ Len(spawned') = Len(spawned) + 1 /\ spawned'[Len(spawned) + 1] = o
        /\ \A i \in Index : spawned'[i] = spawned[i]
        /\ \A i, j \in Index' : spawned'[i] = spawned'[j] => i = j
        /\ \A u \in Starters : csm'[u] # "none" => \E i \in Index' : spawned'[i] = u
    BY <1>0, <2>1, <2>2, AppendKeepsOrder
  <2>4. \A p \in Observers : p # o => handler'[p] = handler[p]
    BY <1>6 DEF SpawnSensingMethod, TypeInv
  <2>5. handler'[o] \in {"bounce", "closed"}
    BY <1>6 DEF SpawnSensingMethod, TypeInv
  <2>6. \A i \in Index' : i \in Index \/ i = Len(spawned) + 1
    BY <1>1, <2>3 DEF Index
  <2>7. \A i \in Index' : spawned'[i] \in Observers => handler'[spawned'[i]] \in {"bounce", "closed"}
    BY <1>0, <2>1, <2>3, <2>4, <2>5, <2>6 DEF SpawnInv
  <2>8. \A i \in Index' : spawned'[i] = "main" => pc' = "running"
    BY <1>0, <2>2, <2>3, <2>6, ZenonT(60) DEF SpawnInv
  <2>9. /\ waits' \in [Starters -> Starters \cup {None}] /\ group' \in Starters \cup {None}
        /\ Len(spawned') > 0
    BY <1>0, <1>1, <2>2, <2>3 DEF SpawnInv
  <2> QED  BY <2>3, <2>7, <2>8, <2>9 DEF SpawnInv
<1>7. CASE StartSensing
  <2>1. \A i \in Index : spawned[i] # "main"
    BY <1>0, <1>7 DEF StartSensing, SpawnInv
  <2>2. /\ spawned' = Append(spawned, "main") /\ csm' = [csm EXCEPT !["main"] = "ready"]
        /\ UNCHANGED <<waits, group, handler>> /\ pc' = "running"
    BY <1>7 DEF StartSensing
  <2>3. /\ SenseInv'
        /\ Len(spawned') = Len(spawned) + 1 /\ spawned'[Len(spawned) + 1] = "main"
        /\ \A i \in Index : spawned'[i] = spawned[i]
        /\ \A i, j \in Index' : spawned'[i] = spawned'[j] => i = j
        /\ \A u \in Starters : csm'[u] # "none" => \E i \in Index' : spawned'[i] = u
    BY <1>0, <2>1, <2>2, AppendKeepsOrder
  <2>4. \A i \in Index' : i \in Index \/ i = Len(spawned) + 1
    BY <1>1, <2>3 DEF Index
  <2>5. \A i \in Index' : spawned'[i] \in Observers => handler'[spawned'[i]] \in {"bounce", "closed"}
    <3> SUFFICES ASSUME NEW i \in Index', spawned'[i] \in Observers
                 PROVE  handler[spawned'[i]] \in {"bounce", "closed"}
      BY <2>2
    <3>1. i \in Index  BY <2>3, <2>4
    <3>2. spawned'[i] = spawned[i]  BY <2>3, <3>1
    <3> QED  BY <1>0, <3>1, <3>2 DEF SpawnInv
  <2>6. /\ waits' \in [Starters -> Starters \cup {None}] /\ group' \in Starters \cup {None}
        /\ Len(spawned') > 0
    BY <1>0, <1>1, <2>2, <2>3 DEF SpawnInv
  <2> QED  BY <2>2, <2>3, <2>5, <2>6 DEF SpawnInv
<1>8. ASSUME NEW t \in Starters, CancelRemaining(t) PROVE SpawnInv' /\ SenseInv'
  <2>1. PICK k \in Index : spawned[k] = t /\ csm[t] = "ready"
                           /\ \A j \in 1..(k - 1) : csm[spawned[j]] # "ready"
    BY <1>8 DEF CancelRemaining, First, Index
  <2>2. UNCHANGED <<pc, handler, spawned>> /\ Index' = Index
    BY <1>8 DEF CancelRemaining, Index
  <2>3. \A i \in Index : i # k => spawned[i] # t
    BY <1>0, <2>1 DEF SpawnInv
  <2>4. CASE group = None
    <3>1. csm' = [csm EXCEPT ![t] = "running"] /\ group' = t /\ UNCHANGED waits
      BY <1>8, <2>4 DEF CancelRemaining
    <3>2. csm'[t] = "running" /\ \A i \in Index : i # k => csm'[spawned[i]] = "ready"
      BY <1>0, <1>1, <2>3, <2>4, <3>1 DEF TypeInv, SenseInv
    <3>3. k = 1
      BY <1>0, <1>1, <2>1, <2>4 DEF SenseInv, Index
    <3>4. SpawnInv'
      BY <1>0, <1>1, <2>1, <2>2, <3>1 DEF SpawnInv, TypeInv
    <3>5. Sensed(1)'
      BY <1>1, <2>1, <2>2, <3>1, <3>2, <3>3 DEF Sensed, Index
    <3>6. \A i, j \in Index' : i < j /\ csm'[spawned'[i]] = "ready" => csm'[spawned'[j]] = "ready"
      BY <1>1, <2>1, <2>2, <3>2, <3>3 DEF Index
    <3> QED  BY <2>2, <3>1, <3>3, <3>4, <3>5, <3>6 DEF SenseInv
  <2>5. CASE group # None
    <3>1. /\ csm' = [csm EXCEPT ![t] = "cancelling"] /\ waits' = [waits EXCEPT ![t] = group]
          /\ UNCHANGED group
      BY <1>8, <2>5 DEF CancelRemaining
    <3>2. csm'[t] = "cancelling" /\ \A i \in Index : i # k => csm'[spawned[i]] = csm[spawned[i]]
                                        /\ waits'[spawned[i]] = waits[spawned[i]]
      BY <1>0, <1>1, <2>3, <3>1 DEF TypeInv, SpawnInv
    <3>3. SpawnInv'
      BY <1>0, <1>1, <2>1, <2>2, <3>1 DEF SpawnInv, TypeInv
    <3>4. PICK g \in Index : Sensed(g)
      BY <1>0, <2>5 DEF SenseInv
    <3>5. g < k
      BY <1>1, <2>1, <3>4 DEF Sensed, Index
    <3>6. Sensed(g)'
      <4>1. group' = spawned'[g] /\ csm'[group'] = csm[group]
        BY <2>2, <3>1, <3>2, <3>4, <3>5 DEF Sensed, Index
      <4>2. \A i \in 1..g : csm'[spawned'[i]] \in {"running", "done"}
        BY <1>1, <2>2, <3>2, <3>4, <3>5 DEF Sensed, Index
      <4>3. \A i \in Index' : i > g => csm'[spawned'[i]] \in {"cancelling", "ready"}
        BY <2>1, <2>2, <3>2, <3>4 DEF Sensed
      <4>4. csm[group] = "done" =>
               \E i \in Index : csm'[spawned[i]] = "cancelling" /\ waits'[spawned[i]] = group
        BY <2>1, <3>2, <3>4 DEF Sensed
      <4> QED  BY <2>2, <3>1, <4>1, <4>2, <4>3, <4>4 DEF Sensed
    <3>7. \A i, j \in Index' : i < j /\ csm'[spawned'[i]] = "ready" => csm'[spawned'[j]] = "ready"
      <4> SUFFICES ASSUME NEW i \in Index, NEW j \in Index, i < j, csm'[spawned[i]] = "ready"
                   PROVE  csm'[spawned[j]] = "ready"
        BY <2>2
      <4>1. i # k /\ csm[spawned[i]] = "ready"  BY <2>1, <3>2
      <4>2. i > k  BY <1>1, <2>1, <4>1 DEF Index
      <4> QED  BY <1>0, <1>1, <3>2, <4>1, <4>2 DEF SenseInv, Index
    <3> QED  BY <2>2, <2>5, <3>1, <3>3, <3>4, <3>6, <3>7 DEF SenseInv
  <2> QED  BY <2>4, <2>5
<1>9. ASSUME NEW t \in Starters, EndSensing(t) PROVE SpawnInv' /\ SenseInv'
  <2>1. PICK u \in Starters : csm[u] = "cancelling" /\ waits[u] = t
    BY <1>9 DEF EndSensing
  <2>2. /\ csm[t] = "running" /\ csm' = [csm EXCEPT ![t] = "done"]
        /\ UNCHANGED <<pc, handler, spawned, waits, group>> /\ Index' = Index
    BY <1>9 DEF EndSensing, Index
  <2>3. csm'[t] = "done" /\ \A v \in Starters : v # t => csm'[v] = csm[v]
    BY <2>2 DEF TypeInv
  <2>4. SpawnInv'
    BY <1>0, <2>2, <2>3 DEF SpawnInv
  <2>5. \A i, j \in Index' : i < j /\ csm'[spawned'[i]] = "ready" => csm'[spawned'[j]] = "ready"
    BY <1>0, <1>1, <2>2, <2>3 DEF SenseInv
  <2>6. group # None
    <3>1. PICK i \in Index : spawned[i] = t  BY <1>0, <2>2 DEF SpawnInv
    <3> QED  BY <1>0, <2>2, <3>1 DEF SenseInv
  <2>7. PICK g \in Index : Sensed(g)
    BY <1>0, <2>6 DEF SenseInv
  <2>8. Sensed(g)'
    <3>1. \A i \in 1..g : i \in Index  BY <1>1 DEF Index
    <3>2. \A i \in 1..g : csm'[spawned'[i]] \in {"running", "done"}
      BY <1>1, <2>2, <2>3, <2>7, <3>1 DEF Sensed
    <3>3. \A i \in Index' : i > g => csm'[spawned'[i]] \in {"cancelling", "ready"}
      BY <1>1, <2>2, <2>3, <2>7 DEF Sensed
    <3>4. ASSUME csm'[group'] = "done"
          PROVE  \E i \in Index' : csm'[spawned'[i]] = "cancelling" /\ waits'[spawned'[i]] = group'
      <4>1. CASE group = t
        <5>1. PICK i \in Index : spawned[i] = u  BY <1>0, <2>1 DEF SpawnInv
        <5> QED  BY <2>1, <2>2, <2>3, <4>1, <5>1
      <4>2. CASE group # t
        <5>1. group \in Starters  BY <1>1, <2>7 DEF Sensed
        <5>2. PICK i \in Index : csm[spawned[i]] = "cancelling" /\ waits[spawned[i]] = group
          BY <2>2, <2>3, <2>7, <3>4, <4>2, <5>1 DEF Sensed
        <5> QED  BY <1>1, <2>2, <2>3, <5>2
      <4> QED  BY <4>1, <4>2
    <3> QED  BY <2>2, <2>7, <3>2, <3>3, <3>4 DEF Sensed
  <2> QED  BY <2>2, <2>4, <2>5, <2>6, <2>8 DEF SenseInv
<1>10. ASSUME NEW t \in Starters, RestartSensing(t) PROVE SpawnInv' /\ SenseInv'
  <2>1. PICK k \in Index : spawned[k] = t /\ csm[t] = "cancelling"
                           /\ \A j \in 1..(k - 1) : csm[spawned[j]] # "cancelling"
    BY <1>10 DEF RestartSensing, First, Index
  <2>2. /\ csm' = [csm EXCEPT ![t] = "running"] /\ group' = t
        /\ UNCHANGED <<pc, handler, spawned, waits>> /\ Index' = Index
    BY <1>10 DEF RestartSensing, Index
  <2>3. csm'[t] = "running" /\ \A i \in Index : i # k => csm'[spawned[i]] = csm[spawned[i]]
    BY <1>0, <1>1, <2>1, <2>2 DEF TypeInv, SpawnInv
  <2>4. SpawnInv'
    BY <1>0, <1>1, <2>1, <2>2 DEF SpawnInv, TypeInv
  <2>5. group # None
    BY <1>0, <2>1 DEF SenseInv
  <2>6. PICK g \in Index : Sensed(g)
    BY <1>0, <2>5 DEF SenseInv
  <2>7. g < k
    BY <1>1, <2>1, <2>6 DEF Sensed, Index
  <2>8. \A i \in 1..(k - 1) : csm[spawned[i]] \in {"running", "done"}
    <3> SUFFICES ASSUME NEW i \in 1..(k - 1) PROVE csm[spawned[i]] \in {"running", "done"}
      OBVIOUS
    <3>1. i \in Index /\ k \in Index /\ i < k  BY <1>1 DEF Index
    <3>2. CASE i <= g  BY <1>1, <2>6, <3>1, <3>2 DEF Sensed, Index
    <3>3. CASE i > g
      <4>1. csm[spawned[i]] = "ready"  BY <2>1, <2>6, <3>1, <3>3 DEF Sensed
      <4> QED  BY <1>0, <2>1, <3>1, <4>1 DEF SenseInv
    <3> QED  BY <1>1, <3>1, <3>2, <3>3 DEF Index
  <2>9. Sensed(k)'
    <3>1. \A i \in 1..k : csm'[spawned'[i]] \in {"running", "done"}
      BY <1>1, <2>1, <2>2, <2>3, <2>8 DEF Index
    <3>2. \A i \in Index' : i > k => csm'[spawned'[i]] \in {"cancelling", "ready"}
      BY <1>1, <2>2, <2>3, <2>6, <2>7 DEF Sensed, Index
    <3> QED  BY <2>1, <2>2, <2>3, <3>1, <3>2 DEF Sensed
  <2>10. \A i, j \in Index' : i < j /\ csm'[spawned'[i]] = "ready" => csm'[spawned'[j]] = "ready"
    <3> SUFFICES ASSUME NEW i \in Index, NEW j \in Index, i < j, csm'[spawned[i]] = "ready"
                 PROVE  csm'[spawned[j]] = "ready"
      BY <2>2
    <3>1. i # k /\ csm[spawned[i]] = "ready"  BY <2>1, <2>3
    <3>2. csm[spawned[j]] = "ready"  BY <1>0, <3>1 DEF SenseInv
    <3>3. j # k  BY <2>1, <3>2
    <3> QED  BY <2>3, <3>2, <3>3
  <2> QED  BY <1>1, <2>1, <2>2, <2>4, <2>9, <2>10 DEF SenseInv
<1>11. \A o \in Observers :
        (\E l \in Levels : SelectSensor(o, l)) \/ AssignConfiguration(o) \/ TimeOut(o)
        => UNCHANGED <<pc, handler, spawned, csm, waits, group>>
  BY DEF SelectSensor, AssignConfiguration, TimeOut, sensing
<1>12. \A t \in Starters : StopDrain(t) => UNCHANGED <<pc, handler, spawned, csm, waits, group>>
  BY DEF StopDrain, sensing
<1>13. UNCHANGED vars => UNCHANGED <<pc, handler, spawned, csm, waits, group>>
  BY DEF vars, sensing
<1> QED
  BY <1>0, <1>2, <1>3, <1>4, <1>5, <1>6, <1>7, <1>8, <1>9, <1>10, <1>11, <1>12, <1>13
  DEF Next, ApiStep, HandlerStep, TaskStep

-----------------------------------------------------------------------------
(* The theorems.                                                           *)

\* ActuationInv is an invariant.
THEOREM ActuationInvariant == Spec => []ActuationInv
<1>1. Init => ActuationInv
  <2> SUFFICES ASSUME Init PROVE ActuationInv
    OBVIOUS
  <2>1. TypeInv  BY NamesAssumption DEF Init, TypeInv, Starters
  <2>2. HandlerInv /\ DrainIsReplaced  BY DEF Init, HandlerInv, DrainIsReplaced
  <2>3. SpawnInv /\ SenseInv  BY DEF Init, SpawnInv, SenseInv, Index, Starters
  <2> QED  BY <2>1, <2>2, <2>3 DEF ActuationInv
<1>2. ActuationInv /\ [Next]_vars => ActuationInv'
  BY TypeStep, DrainStep, SenseStep DEF ActuationInv
<1> QED  BY <1>1, <1>2, PTL DEF Spec

\* However many actuations overlap, with each other and with the start of
\* main(), a log_drain runs or is about to be started while the sensor runs.
THEOREM DrainNeverDies == Spec => []DrainIsReplaced
<1>1. ActuationInv => DrainIsReplaced  BY DEF ActuationInv
<1> QED  BY <1>1, ActuationInvariant, PTL

\* However many actuations overlap, when call_sensing_method has settled the
\* sensing methods that run last are the ones spawned last, and
\* sensing_method_task_group is theirs.
THEOREM NewestWins == Spec => []NewestIsKept
<1>1. ASSUME ActuationInv PROVE NewestIsKept
  <2> SUFFICES ASSUME pc = "running", ~Unsettled
               PROVE  group = spawned[Len(spawned)] /\ csm[group] = "running"
    BY DEF NewestIsKept
  <2>1. SpawnInv /\ SenseInv /\ TypeInv  BY <1>1 DEF ActuationInv, Live
  <2>2. Len(spawned) \in Index /\ \A i \in Index : spawned[i] \in Starters
    BY <2>1 DEF TypeInv, SpawnInv, Index
  <2>3. \A i \in Index : csm[spawned[i]] \notin {"ready", "cancelling"}
    BY <2>2 DEF Unsettled
  <2>4. group # None  BY <2>1, <2>2, <2>3 DEF SenseInv
  <2>5. PICK g \in Index : Sensed(g)  BY <2>1, <2>4 DEF SenseInv
  <2>6. g = Len(spawned)  BY <2>2, <2>3, <2>5 DEF Sensed, Index
  <2>7. csm[group] \in {"running", "done"} /\ csm[group] # "done"
    BY <2>2, <2>3, <2>5 DEF Sensed, Index
  <2> QED  BY <2>5, <2>6, <2>7 DEF Sensed
<1> QED  BY <1>1, ActuationInvariant, PTL


-----------------------------------------------------------------------------
(* The level of the row and the level that is sensed.                      *)

RequestTypes ==
    /\ row \in Configured \cup {None}
    /\ level \in [Observers -> Levels \cup {None}]
    /\ loaded \in [Observers -> Levels \cup {None}]

\* One request at a time, and none failed that has a configuration.
Orderly == ~overlap /\ \A o \in Observers : obs[o] = "error" => level[o] \notin Configured

Busy(o) == obs[o] \in {"assign", "put", "await"}
\* It has written the row, and its sensing method is not spawned yet.
Pending(o) == obs[o] \in {"put", "await"} /\ handler[o] # "bounce"
\* The newest call_sensing_method is for the level of the row.
NewestHasRow ==
    IF spawned = <<>> THEN row = Default ELSE row = LevelOf(spawned[Len(spawned)])

RowInv ==
    /\ row # None
    /\ pc = "registering" =>
           drainTask = None /\ spawned = <<>> /\ \A o \in Observers : handler[o] # "bounce"
    /\ \A o, p \in Observers : Busy(o) /\ Busy(p) => o = p
    /\ \A o \in Observers : obs[o] = "assign" => loaded[o] = row
    /\ \A o \in Observers : obs[o] \in {"put", "await"} => level[o] = row
    /\ \A o \in Observers : handler[o] \in {"headers", "body", "read", "bounce"} <=> obs[o] = "await"
    /\ (\A o \in Observers : ~Pending(o)) => NewestHasRow

AppliedInv == RequestTypes /\ (Live /\ Orderly => RowInv)

LEMMA RequestTypesStep ==
    ASSUME RequestTypes, [Next]_vars
    PROVE  RequestTypes'
<1> USE LevelsAssumption
<1>1. ASSUME NEW o \in Observers, NEW l \in Levels, SelectSensor(o, l) PROVE RequestTypes'
  BY <1>1 DEF SelectSensor, RequestTypes
<1>2. ASSUME NEW o \in Observers, AssignConfiguration(o) PROVE RequestTypes'
  BY <1>2 DEF AssignConfiguration, RequestTypes
<1>3. CASE Deregister  BY <1>3 DEF Deregister, RequestTypes
<1>4. \/ \E o \in Observers : PutSensor(o) \/ TimeOut(o) \/ HandlerStep(o)
      \/ \E t \in Starters : TaskStep(t)
      \/ StartSensing \/ Stop \/ UNCHANGED vars
      => UNCHANGED <<row, level, loaded>>
  BY DEF PutSensor, TimeOut, HandlerStep, HttpHandler, WaitForJson, SpawnSensingMethod,
         BounceLogDrain, TaskStep, StopDrain, CancelRemaining, EndSensing, RestartSensing,
         StartSensing, Stop, vars, api
<1> QED  BY <1>1, <1>2, <1>3, <1>4 DEF Next, ApiStep, RequestTypes

\* An orderly run has been so from the start.
LEMMA OrderlyBefore ==
    ASSUME TypeInv, RequestTypes, [Next]_vars, Orderly', Live'
    PROVE  Orderly /\ Live
<1> USE DEF Orderly, Live
<1>1. ASSUME NEW o \in Observers, NEW l \in Levels, SelectSensor(o, l) PROVE Orderly /\ Live
  BY <1>1 DEF SelectSensor, TypeInv, RequestTypes
<1>2. ASSUME NEW o \in Observers, ApiStep(o) \/ TimeOut(o) PROVE Orderly /\ Live
  BY <1>2 DEF ApiStep, AssignConfiguration, PutSensor, TimeOut, TypeInv, RequestTypes
<1>3. ASSUME NEW o \in Observers, HandlerStep(o) PROVE Orderly /\ Live
  <2>1. UNCHANGED <<pc, overlap, level>> /\ (obs' = obs \/ Reply(o, "error") \/ Reply(o, "ok"))
    BY <1>3 DEF HandlerStep, HttpHandler, WaitForJson, SpawnSensingMethod, BounceLogDrain, api
  <2> QED  BY <2>1 DEF Reply, TypeInv
<1>4. ASSUME NEW t \in Starters, TaskStep(t) PROVE Orderly /\ Live
  BY <1>4 DEF TaskStep, StopDrain, CancelRemaining, EndSensing, RestartSensing, api
<1>5. CASE StartSensing  BY <1>5 DEF StartSensing, api
<1>6. CASE Stop \/ Deregister  BY <1>6 DEF Stop, Deregister
<1>7. CASE UNCHANGED vars  BY <1>7 DEF vars, api
<1> QED  BY <1>1, <1>2, <1>3, <1>4, <1>5, <1>6, <1>7 DEF Next

\* A request changes the row only when no other is under way, and then spawns
\* the sensing method for it behind all others.
LEMMA RowStep ==
    ASSUME TypeInv, HandlerInv, SpawnInv, RequestTypes, RowInv, Orderly, Live,
           [Next]_vars, Orderly', Live'
    PROVE  RowInv'
<1> USE LevelsAssumption, NamesAssumption DEF Live
<1>0. /\ Len(spawned) \in Nat /\ \A i \in 1..Len(spawned) : spawned[i] \in Starters
      /\ spawned # <<>> => Len(spawned) \in 1..Len(spawned)
  BY DEF TypeInv
<1>1. ASSUME NEW o \in Observers, NEW l \in Levels, SelectSensor(o, l) PROVE RowInv'
  <2>1. /\ obs[o] = "idle" /\ obs' = [obs EXCEPT ![o] = "assign"]
        /\ level' = [level EXCEPT ![o] = l] /\ loaded' = [loaded EXCEPT ![o] = row]
        /\ \A p \in Observers : obs[p] = "idle" \/ Answered(p)
        /\ UNCHANGED <<row, pc, handler, spawned, drainTask>>
    BY <1>1 DEF SelectSensor, RowInv, Orderly, sensing, drains
  <2>2. handler[o] = "none"  BY <2>1 DEF HandlerInv
  <2>3. \A p \in Observers : p # o => obs'[p] = obs[p] /\ level'[p] = level[p] /\ loaded'[p] = loaded[p]
    BY <2>1 DEF TypeInv, RequestTypes
  <2>4. obs'[o] = "assign" /\ loaded'[o] = row  BY <2>1 DEF TypeInv, RequestTypes
  <2>5. \A p \in Observers : Busy(p)' => p = o
    BY <2>1, <2>3 DEF Busy, Answered
  <2>6. \A p \in Observers : ~Pending(p) /\ ~Pending(p)'
    BY <2>1, <2>3, <2>4 DEF Pending, Answered
  <2>7. NewestHasRow'
    <3>1. NewestHasRow  BY <2>6 DEF RowInv
    <3>2. CASE spawned = <<>>  BY <2>1, <3>1, <3>2 DEF NewestHasRow
    <3>3. CASE spawned # <<>>
      <4> DEFINE t == spawned[Len(spawned)]
      <4>1. t \in Starters /\ t # o
        BY <1>0, <2>2, <3>3 DEF SpawnInv, Index
      <4>2. LevelOf(t) = (IF t = "main" THEN Default ELSE level'[t])
        BY <2>3, <4>1 DEF LevelOf, Starters
      <4> QED  BY <2>1, <3>1, <3>3, <4>2 DEF NewestHasRow, LevelOf
    <3> QED  BY <3>2, <3>3
  <2>8. /\ row' # None
        /\ pc' = "registering" =>
             drainTask' = None /\ spawned' = <<>> /\ \A p \in Observers : handler'[p] # "bounce"
    BY <2>1 DEF RowInv
  <2>9. \A p \in Observers : obs'[p] = "assign" => loaded'[p] = row'
    BY <2>1, <2>3, <2>4 DEF RowInv
  <2>10. \A p \in Observers : obs'[p] \in {"put", "await"} => level'[p] = row'
    BY <2>1, <2>3, <2>4 DEF RowInv
  <2>11. \A p \in Observers : handler'[p] \in {"headers", "body", "read", "bounce"} <=> obs'[p] = "await"
    BY <2>1, <2>2, <2>3, <2>4 DEF RowInv
  <2> QED  BY <2>5, <2>7, <2>8, <2>9, <2>10, <2>11 DEF RowInv
<1>2. ASSUME NEW o \in Observers, AssignConfiguration(o) PROVE RowInv'
  <2>1. /\ obs[o] = "assign" /\ UNCHANGED <<level, loaded, pc, handler, spawned, drainTask>>
        /\ \/ obs' = [obs EXCEPT ![o] = "error"] /\ row' = row
           \/ obs' = [obs EXCEPT ![o] = "put"] /\ level[o] \in Configured /\ row' = level[o]
    BY <1>2 DEF AssignConfiguration, RowInv, sensing, drains
  <2>2. /\ loaded[o] = row /\ handler[o] = "none" /\ Busy(o)
        /\ \A p \in Observers : p # o => ~Busy(p) /\ obs'[p] = obs[p]
    BY <2>1 DEF RowInv, HandlerInv, Busy, TypeInv
  <2>3. /\ row' # None
        /\ pc' = "registering" =>
             drainTask' = None /\ spawned' = <<>> /\ \A p \in Observers : handler'[p] # "bounce"
    BY <2>1 DEF RowInv
  <2>4. obs'[o] \in {"error", "put"} /\ (obs'[o] = "put" => level'[o] = row') /\ (obs'[o] = "error" => row' = row)
    BY <2>1 DEF TypeInv
  <2>5. \A p, q \in Observers : Busy(p)' /\ Busy(q)' => p = q
    BY <2>2 DEF Busy
  <2>6. /\ \A p \in Observers : obs'[p] = "assign" => loaded'[p] = row'
        /\ \A p \in Observers : obs'[p] \in {"put", "await"} => level'[p] = row'
    BY <2>2, <2>4 DEF Busy
  <2>7. \A p \in Observers : handler'[p] \in {"headers", "body", "read", "bounce"} <=> obs'[p] = "await"
    BY <2>1, <2>2, <2>4 DEF RowInv
  <2>8. ASSUME \A p \in Observers : ~Pending(p)' PROVE NewestHasRow'
    <3>1. obs'[o] = "error"  BY <2>1, <2>2, <2>4, <2>8 DEF Pending
    <3>2. \A p \in Observers : ~Pending(p)  BY <2>1, <2>2 DEF Pending, Busy
    <3>3. NewestHasRow  BY <3>2 DEF RowInv
    <3> QED  BY <2>1, <2>4, <3>1, <3>3 DEF NewestHasRow, LevelOf
  <2> QED  BY <2>3, <2>5, <2>6, <2>7, <2>8 DEF RowInv
<1>3. ASSUME NEW o \in Observers, PutSensor(o) PROVE RowInv'
  <2>1. /\ obs[o] = "put" /\ obs' = [obs EXCEPT ![o] = "await"]
        /\ handler' = [handler EXCEPT ![o] = "headers"]
        /\ UNCHANGED <<row, level, loaded, pc, spawned, drainTask>>
    BY <1>3 DEF PutSensor, sensing, drains
  <2>2. /\ obs'[o] = "await" /\ handler'[o] = "headers" /\ handler[o] = "none"
        /\ \A p \in Observers : p # o => obs'[p] = obs[p] /\ handler'[p] = handler[p]
    BY <2>1 DEF TypeInv, HandlerInv
  <2>3. \A p \in Observers : (Busy(p)' <=> Busy(p)) /\ (Pending(p)' <=> Pending(p))
    BY <2>1, <2>2 DEF Busy, Pending
  <2>4. NewestHasRow' <=> NewestHasRow  BY <2>1 DEF NewestHasRow, LevelOf
  <2> QED  BY <2>1, <2>2, <2>3, <2>4 DEF RowInv
<1>4. ASSUME NEW o \in Observers, TimeOut(o) PROVE FALSE
  <2>1. obs[o] = "await" /\ obs'[o] = "error" /\ level'[o] = level[o]
    BY <1>4 DEF TimeOut, TypeInv
  <2>2. level[o] \in Configured  BY <2>1 DEF RowInv, RequestTypes
  <2> QED  BY <2>1, <2>2 DEF Orderly
<1>5. ASSUME NEW o \in Observers, HttpHandler(o) \/ WaitForJson(o) PROVE RowInv'
  <2>1. /\ handler[o] \in {"headers", "body"} /\ UNCHANGED <<row, obs, level, loaded, pc, spawned, drainTask>>
        /\ handler' = [handler EXCEPT ![o] = "body"] \/ handler' = [handler EXCEPT ![o] = "read"]
    BY <1>5 DEF HttpHandler, WaitForJson, api, sensing, drains
  <2>2. /\ handler'[o] \in {"body", "read"}
        /\ \A p \in Observers : p # o => handler'[p] = handler[p]
    BY <2>1 DEF TypeInv
  <2>3. \A p \in Observers : (Busy(p)' <=> Busy(p)) /\ (Pending(p)' <=> Pending(p))
    BY <2>1, <2>2 DEF Busy, Pending
  <2>4. NewestHasRow' <=> NewestHasRow  BY <2>1 DEF NewestHasRow, LevelOf
  <2> QED  BY <2>1, <2>2, <2>3, <2>4 DEF RowInv
<1>6. ASSUME NEW o \in Observers, SpawnSensingMethod(o) PROVE RowInv'
  <2>1. /\ handler[o] = "read" /\ spawned' = Append(spawned, o)
        /\ UNCHANGED <<row, level, loaded, pc, drainTask>>
    BY <1>6 DEF SpawnSensingMethod
  <2>2. obs[o] = "await" /\ level[o] = row /\ level[o] \in Configured
    BY <2>1 DEF RowInv, RequestTypes
  <2>3. drainTask # None
    <3> SUFFICES ASSUME drainTask = None PROVE FALSE  OBVIOUS
    <3>1. obs'[o] = "error"  BY <1>6, <2>2 DEF SpawnSensingMethod, Reply, TypeInv
    <3> QED  BY <2>1, <2>2, <3>1 DEF Orderly
  <2>4. handler' = [handler EXCEPT ![o] = "bounce"] /\ UNCHANGED obs
    BY <1>6, <2>3 DEF SpawnSensingMethod
  <2>5. /\ handler'[o] = "bounce" /\ \A p \in Observers : p # o => handler'[p] = handler[p]
    BY <2>4 DEF TypeInv
  <2>6. NewestHasRow'
    <3>1. spawned' # <<>> /\ spawned'[Len(spawned')] = o
      BY <2>1 DEF TypeInv, Starters
    <3>2. o # "main"  OBVIOUS
    <3> QED  BY <2>1, <2>2, <3>1, <3>2 DEF NewestHasRow, LevelOf
  <2>7. \A p \in Observers : Busy(p)' <=> Busy(p)  BY <2>4 DEF Busy
  <2>8. pc' # "registering"  BY <2>1, <2>3 DEF RowInv
  <2> QED  BY <2>1, <2>2, <2>4, <2>5, <2>6, <2>7, <2>8 DEF RowInv
<1>7. ASSUME NEW o \in Observers, BounceLogDrain(o) PROVE RowInv'
  <2>1. /\ handler[o] = "bounce" /\ handler' = [handler EXCEPT ![o] = "closed"]
        /\ Reply(o, "ok") /\ drainTask' = o
        /\ UNCHANGED <<row, level, loaded, pc, spawned>>
    BY <1>7 DEF BounceLogDrain, sensing
  <2>2. obs[o] = "await"  BY <2>1 DEF RowInv
  <2>3. /\ handler'[o] = "closed" /\ obs'[o] = "ok"
        /\ \A p \in Observers : p # o => handler'[p] = handler[p] /\ obs'[p] = obs[p]
    BY <2>1, <2>2 DEF TypeInv, Reply
  <2>4. pc # "registering"  BY <2>1 DEF RowInv
  <2>5. \A p \in Observers : (Busy(p)' => Busy(p)) /\ (Pending(p)' <=> Pending(p))
    BY <2>1, <2>3 DEF Busy, Pending
  <2>6. NewestHasRow' <=> NewestHasRow  BY <2>1 DEF NewestHasRow, LevelOf
  <2> QED  BY <2>1, <2>3, <2>4, <2>5, <2>6 DEF RowInv
<1>8. CASE StartSensing
  <2>1. /\ pc = "registering" /\ pc' = "running" /\ spawned' = Append(spawned, "main")
        /\ UNCHANGED <<row, obs, level, loaded, handler>>
    BY <1>8 DEF StartSensing, api
  <2>2. spawned' # <<>> /\ spawned'[Len(spawned')] = "main" /\ spawned = <<>>
    BY <2>1 DEF RowInv, TypeInv, Starters
  <2>3. \A p \in Observers : (Busy(p)' <=> Busy(p)) /\ (Pending(p)' <=> Pending(p))
    BY <2>1 DEF Busy, Pending
  <2>4. NewestHasRow => NewestHasRow'  BY <2>1, <2>2 DEF NewestHasRow, LevelOf
  <2> QED  BY <2>1, <2>3, <2>4 DEF RowInv
<1>9. ASSUME UNCHANGED <<row, obs, level, loaded, pc, handler, spawned, drainTask>> PROVE RowInv'
  <2>1. \A p \in Observers : (Busy(p)' <=> Busy(p)) /\ (Pending(p)' <=> Pending(p))
    BY <1>9 DEF Busy, Pending
  <2>2. NewestHasRow' <=> NewestHasRow  BY <1>9 DEF NewestHasRow, LevelOf
  <2> QED  BY <1>9, <2>1, <2>2 DEF RowInv
<1>10. (\E t \in Starters : TaskStep(t)) \/ UNCHANGED vars
         => UNCHANGED <<row, obs, level, loaded, pc, handler, spawned, drainTask>>
  BY DEF TaskStep, StopDrain, CancelRemaining, EndSensing, RestartSensing, vars, api, sensing, drains
<1>11. ~Stop /\ ~Deregister  BY DEF Stop, Deregister
<1> QED
  BY <1>1, <1>2, <1>3, <1>4, <1>5, <1>6, <1>7, <1>8, <1>9, <1>10, <1>11
  DEF Next, ApiStep, HandlerStep

\* With one observe request at a time, however it is interleaved with the start
\* of main() and the cancellation of the sensing methods before it, a sensor that
\* has come to rest senses at the level that its row has.
THEOREM RowIsWhatRuns == Spec => []RowIsApplied
<1>1. Init => AppliedInv
  <2> SUFFICES ASSUME Init PROVE RequestTypes /\ RowInv  BY DEF AppliedInv
  <2>1. RequestTypes  BY LevelsAssumption DEF Init, RequestTypes
  <2>2. /\ row = Default /\ row # None /\ drainTask = None /\ spawned = <<>>
        /\ \A o \in Observers : obs[o] = "idle" /\ handler[o] = "none"
    BY LevelsAssumption DEF Init
  <2> QED  BY <2>1, <2>2 DEF RowInv, Busy, Pending, NewestHasRow
<1>2. ActuationInv /\ AppliedInv /\ [Next]_vars => AppliedInv'
  BY RequestTypesStep, OrderlyBefore, RowStep DEF AppliedInv, ActuationInv
<1>3. ActuationInv /\ NewestIsKept /\ AppliedInv => RowIsApplied
  <2> SUFFICES ASSUME ActuationInv, NewestIsKept, AppliedInv, pc = "running", ~Unsettled, Orderly,
                      \A o \in Observers : obs[o] = "idle" \/ Answered(o)
               PROVE  LevelOf(group) = row
    BY DEF RowIsApplied, Orderly
  <2>1. RowInv /\ SpawnInv  BY DEF AppliedInv, ActuationInv, Live
  <2>2. \A o \in Observers : ~Pending(o)  BY DEF Pending, Answered
  <2>3. spawned # <<>>  BY <2>1 DEF SpawnInv
  <2>4. group = spawned[Len(spawned)]  BY DEF NewestIsKept
  <2> QED  BY <2>1, <2>2, <2>3, <2>4 DEF RowInv, NewestHasRow
<1> QED  BY <1>1, <1>2, <1>3, ActuationInvariant, NewestWins, PTL DEF Spec
=============================================================================
