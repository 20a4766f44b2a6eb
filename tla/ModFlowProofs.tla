--------------------------- MODULE ModFlowProofs ----------------------------
(***************************************************************************)
(* What holds of ModFlow for every timeout, number of time slots and set   *)
(* of packet times: one flow per session, no report before the timeout,    *)
(* and, as long as the oldest packet lags less than Slots - Timeout        *)
(* seconds behind the newest, no flow is ever lost.                        *)
(***************************************************************************)
EXTENDS ModFlow, SumProofs, TLAPS

USE DEF NotIn

(* The types of what Recv computes.                                        *)
LEMMA ElapsedType ==
  ASSUME TypeOK, NEW ts \in Time
  PROVE  /\ Elapsed(ts) \in Nat
         /\ lastTs # 0 => tick + Elapsed(ts) - (IF lastTs < ts THEN ts ELSE lastTs) = tick - lastTs
BY ModFlowAssumption DEF TypeOK, Elapsed

(* A new Flow's fields.                                                    *)
LEMMA NewFlowType ==
  ASSUME NEW k \in Key, NEW ts \in Time
  PROVE  NewFlow(k, ts) \in Flow
BY DEF NewFlow, Flow

(* update() changes updated_at_ and the counters, nothing else.            *)
LEMMA UpdatedType ==
  ASSUME NEW g \in Flow, NEW ts \in Time, NEW d \in Dir, NEW len \in PacketLen
  PROVE  /\ Updated(g, ts, d, len) \in Flow
         /\ Updated(g, ts, d, len).key = g.key
         /\ Updated(g, ts, d, len).created = g.created
         /\ Updated(g, ts, d, len).refreshed = g.refreshed
         /\ Updated(g, ts, d, len).updated = ts
<1>1. \A x \in Int : ToInt(x) \in Int
  BY ModFlowAssumption DEF ToInt
<1>2. g.size[d] + len \in Int
  BY ModFlowAssumption DEF Flow
<1> QED
  BY <1>1, <1>2 DEF Updated, Flow

(* What the sweep does to one flow.                                        *)
LEMMA SweepFacts ==
  ASSUME FlowInv, NEW f \in FlowId, NEW ts \in Time, NEW now \in Nat,
         now = tick + Elapsed(ts)
  PROVE  /\ SweptDue(now)[f] \in Nat \union {NotIn}
         /\ SweptFlow(now, ts)[f] \in Flow \union {NoFlow}
         /\ flow[f] = NoFlow => SweptFlow(now, ts)[f] = NoFlow /\ SweptDue(now)[f] = NotIn
         /\ SweptFlow(now, ts)[f] # NoFlow =>
              /\ flow[f] # NoFlow
              /\ SweptFlow(now, ts)[f].key = flow[f].key
              /\ SweptFlow(now, ts)[f].created = flow[f].created
              /\ SweptFlow(now, ts)[f].updated = flow[f].updated
              /\ SweptFlow(now, ts)[f].refreshed \in {flow[f].refreshed, ts}
         /\ SweptDue(now)[f] # NotIn =>
              /\ due[f] # NotIn
              /\ SweptFlow(now, ts)[f] # NoFlow
              /\ SweptDue(now)[f] >= now
              /\ SweptDue(now)[f] >= due[f]
              /\ \/ /\ SweptDue(now)[f] = due[f]
                    /\ SweptFlow(now, ts)[f].refreshed = flow[f].refreshed
                 \/ /\ SweptDue(now)[f] <= now + Timeout + MaxLag
                    /\ SweptFlow(now, ts)[f].refreshed = ts
                    /\ lastTs < ts
         /\ f \in Lapsed(now) => Remain(f) <= Timeout + MaxLag /\ lastTs < ts
<1>1. TypeOK /\ NothingYet /\ NodesAreFlows /\ LeaseBounded
  BY DEF FlowInv
<1>2. /\ flow[f] \in Flow \union {NoFlow} /\ due[f] \in Nat \union {NotIn}
      /\ tick \in Nat /\ lastTs \in Nat /\ ts \in Nat
      /\ Timeout \in Nat /\ MaxLag \in Nat /\ NoFlow \notin Flow
  BY <1>1, ModFlowAssumption DEF TypeOK
<1>3. flow[f] = NoFlow => due[f] = NotIn
  BY <1>1 DEF NodesAreFlows
<1>4. ASSUME flow[f] # NoFlow
      PROVE  /\ flow[f] \in Flow
             /\ flow[f].updated \in Nat /\ flow[f].refreshed \in Nat
             /\ [flow[f] EXCEPT !.refreshed = ts] \in Flow
             /\ [flow[f] EXCEPT !.refreshed = ts].key = flow[f].key
             /\ [flow[f] EXCEPT !.refreshed = ts].created = flow[f].created
             /\ [flow[f] EXCEPT !.refreshed = ts].updated = flow[f].updated
             /\ [flow[f] EXCEPT !.refreshed = ts].refreshed = ts
             /\ Remain(f) \in Nat
  BY <1>2, <1>4, ModFlowAssumption DEF Flow, Remain
<1>5. ASSUME f \in Lapsed(now)
      PROVE  /\ flow[f] # NoFlow /\ due[f] # NotIn /\ due[f] < now
             /\ Remain(f) <= Timeout + MaxLag /\ lastTs < ts
  <2>1. due[f] # NotIn /\ due[f] < now /\ flow[f] # NoFlow
    BY <1>3, <1>5 DEF Lapsed
  <2>2. tick <= due[f] /\ due[f] + lastTs <= tick + flow[f].refreshed + Timeout + MaxLag
    BY <1>1, <2>1 DEF LeaseBounded
  <2>3. lastTs < ts
    BY <1>2, <2>1, <2>2 DEF Elapsed
  <2>4. lastTs >= flow[f].updated
    BY <1>1, <2>1 DEF NodesAreFlows
  <2>5. Remain(f) <= Timeout + MaxLag
    BY <1>2, <1>4, <2>1, <2>2, <2>4 DEF Remain
  <2> QED
    BY <2>1, <2>3, <2>5
<1>6. SweptFlow(now, ts)[f] =
        IF f \in Finished(now) THEN NoFlow
        ELSE IF f \in Renewed(now) THEN [flow[f] EXCEPT !.refreshed = ts]
        ELSE flow[f]
  BY DEF SweptFlow
<1>7. SweptDue(now)[f] =
        IF f \in TakenBack(now) THEN now + Remain(f)
        ELSE IF f \in Lapsed(now) THEN NotIn ELSE due[f]
  BY DEF SweptDue
<1>8. /\ Renewed(now) \subseteq Lapsed(now) /\ TakenBack(now) \subseteq Renewed(now)
      /\ Finished(now) = Lapsed(now) \ Renewed(now)
  BY DEF Renewed, TakenBack, Finished
<1>9. f \notin Lapsed(now) /\ due[f] # NotIn => due[f] >= now
  BY <1>2 DEF Lapsed
<1>10. CASE f \in TakenBack(now)
  <2>1. f \in Renewed(now) /\ f \in Lapsed(now) /\ f \notin Finished(now)
    BY <1>8, <1>10
  <2>2. /\ SweptDue(now)[f] = now + Remain(f)
        /\ SweptFlow(now, ts)[f] = [flow[f] EXCEPT !.refreshed = ts]
    BY <1>6, <1>7, <1>10, <2>1
  <2>3. Remain(f) \in Nat /\ due[f] < now /\ due[f] \in Nat /\ Remain(f) <= Timeout + MaxLag
    BY <1>2, <1>4, <1>5, <2>1
  <2>4. /\ SweptDue(now)[f] \in Nat /\ SweptDue(now)[f] # NotIn
        /\ SweptDue(now)[f] >= now /\ SweptDue(now)[f] >= due[f]
        /\ SweptDue(now)[f] <= now + Timeout + MaxLag
    BY <1>2, <2>2, <2>3
  <2> QED
    BY <1>2, <1>4, <1>5, <2>1, <2>2, <2>4
<1>11. CASE f \in Renewed(now) \ TakenBack(now)
  BY <1>2, <1>4, <1>5, <1>6, <1>7, <1>8, <1>11
<1>12. CASE f \in Finished(now)
  BY <1>2, <1>4, <1>5, <1>6, <1>7, <1>8, <1>12
<1>13. CASE f \notin Lapsed(now)
  BY <1>2, <1>3, <1>4, <1>6, <1>7, <1>8, <1>9, <1>13
<1> QED
  BY <1>8, <1>10, <1>11, <1>12, <1>13

(* After recv(), a cell holds what the sweep left in it, its flow updated  *)
(* or not, or the flow the packet opened.                                  *)
Carried(f, ts, now) ==
  /\ due'[f] = SweptDue(now)[f]
  /\ flow'[f] = NoFlow <=> SweptFlow(now, ts)[f] = NoFlow
  /\ flow'[f] # NoFlow =>
       /\ flow'[f].key = SweptFlow(now, ts)[f].key
       /\ flow'[f].created = SweptFlow(now, ts)[f].created
       /\ flow'[f].refreshed = SweptFlow(now, ts)[f].refreshed
       /\ flow'[f].updated \in {SweptFlow(now, ts)[f].updated, ts}

Opened(f, k, ts, now) ==
  /\ flow[f] = NoFlow /\ Found(k, now) = {}
  /\ due'[f] = now + Timeout
  /\ flow'[f] # NoFlow
  /\ flow'[f].key = k /\ flow'[f].created = ts
  /\ flow'[f].refreshed = ts /\ flow'[f].updated = ts

(* recv() opens at most one cell and carries the others over.              *)
LEMMA RecvCells ==
  ASSUME FlowInv, NEW k \in Key, NEW ts \in Time, NEW d \in Dir, NEW len \in PacketLen,
         Recv(k, ts, d, len)
  PROVE  \E now \in Nat :
           /\ now = tick + Elapsed(ts)
           /\ flow' \in [FlowId -> Flow \union {NoFlow}]
           /\ due' \in [FlowId -> Nat \union {NotIn}]
           /\ \A f, g \in FlowId :
                /\ Carried(f, ts, now) \/ Opened(f, k, ts, now)
                /\ Carried(f, ts, now) \/ Carried(g, ts, now) \/ f = g
<1>1. TypeOK
  BY DEF FlowInv
<1> DEFINE now == tick + Elapsed(ts)
<1>2. now \in Nat
  BY <1>1, ElapsedType DEF TypeOK
<1>3. Known(k, ts, d, len, now) \/ New(k, ts, d, len, now)
  BY DEF Recv
<1>4. now = tick + Elapsed(ts)
  OBVIOUS
<1> HIDE DEF now
<1>5. /\ SweptFlow(now, ts) \in [FlowId -> Flow \union {NoFlow}]
      /\ SweptDue(now) \in [FlowId -> Nat \union {NotIn}]
  <2>1. /\ SweptFlow(now, ts) = [f \in FlowId |-> SweptFlow(now, ts)[f]]
        /\ SweptDue(now) = [f \in FlowId |-> SweptDue(now)[f]]
    BY DEF SweptFlow, SweptDue
  <2>2. \A f \in FlowId : /\ SweptDue(now)[f] \in Nat \union {NotIn}
                          /\ SweptFlow(now, ts)[f] \in Flow \union {NoFlow}
    BY <1>2, <1>4, SweepFacts
  <2> QED
    BY <2>1, <2>2
<1>6. CASE Known(k, ts, d, len, now)
  <2>1. PICK e \in Found(k, now) :
          /\ flow' = [SweptFlow(now, ts) EXCEPT ![e] = Updated(@, ts, d, len)]
          /\ due' = SweptDue(now)
    BY <1>6 DEF Known
  <2> DEFINE g == SweptFlow(now, ts)[e]
             u == Updated(g, ts, d, len)
  <2>2. e \in FlowId /\ g \in Flow /\ g # NoFlow
    <3>1. e \in FlowId /\ SweptDue(now)[e] # NotIn
      BY <2>1 DEF Found
    <3>2. g # NoFlow
      BY <1>2, <1>4, <3>1, SweepFacts
    <3> QED
      BY <1>5, <3>1, <3>2
  <2>3. /\ u \in Flow /\ u # NoFlow /\ u.key = g.key /\ u.created = g.created
        /\ u.refreshed = g.refreshed /\ u.updated = ts
    BY <2>2, UpdatedType, ModFlowAssumption
  <2>4. flow' = [SweptFlow(now, ts) EXCEPT ![e] = u]
    BY <2>1
  <2> HIDE DEF u
  <2>5. \A f \in FlowId : Carried(f, ts, now)
    BY <1>5, <2>1, <2>2, <2>3, <2>4 DEF Carried
  <2> QED
    BY <1>2, <1>4, <1>5, <2>1, <2>2, <2>3, <2>4, <2>5
<1>7. CASE New(k, ts, d, len, now)
  <2> DEFINE u == Updated(NewFlow(k, ts), ts, d, len)
  <2>1. PICK e \in FlowId :
          /\ flow[e] = NoFlow
          /\ flow' = [SweptFlow(now, ts) EXCEPT ![e] = u]
          /\ due' = [SweptDue(now) EXCEPT ![e] = now + Timeout]
    BY <1>7 DEF New
  <2>2. Found(k, now) = {}
    BY <1>7 DEF New
  <2>3. /\ u \in Flow /\ u # NoFlow
        /\ u.key = k /\ u.created = ts /\ u.refreshed = ts /\ u.updated = ts
    BY NewFlowType, UpdatedType, ModFlowAssumption DEF NewFlow
  <2> HIDE DEF u
  <2>4. \A f \in FlowId : f # e => Carried(f, ts, now)
    BY <1>5, <2>1 DEF Carried
  <2>5. Opened(e, k, ts, now)
    BY <1>5, <2>1, <2>2, <2>3 DEF Opened
  <2>6. /\ flow' \in [FlowId -> Flow \union {NoFlow}]
        /\ due' \in [FlowId -> Nat \union {NotIn}]
    BY <1>2, <1>5, <2>1, <2>3, ModFlowAssumption
  <2> QED
    BY <1>2, <1>4, <2>4, <2>5, <2>6
<1> QED
  BY <1>3, <1>6, <1>7

(* A packet keeps FlowInv.                                                 *)
LEMMA RecvKeepsFlowInv ==
  ASSUME FlowInv, NEW k \in Key, NEW ts \in Time, NEW d \in Dir, NEW len \in PacketLen,
         Recv(k, ts, d, len)
  PROVE  FlowInv'
<1>1. TypeOK /\ NothingYet /\ NodesAreFlows /\ LeaseBounded /\ LeaseLongEnough
      /\ OneFlowPerKey
  BY DEF FlowInv
<1>2. PICK now \in Nat :
        /\ now = tick + Elapsed(ts)
        /\ flow' \in [FlowId -> Flow \union {NoFlow}]
        /\ due' \in [FlowId -> Nat \union {NotIn}]
        /\ \A f, g \in FlowId :
             /\ Carried(f, ts, now) \/ Opened(f, k, ts, now)
             /\ Carried(f, ts, now) \/ Carried(g, ts, now) \/ f = g
  BY RecvCells
<1>3. /\ tick' = now /\ lastTs' = IF lastTs < ts THEN ts ELSE lastTs
      /\ ts >= lastTs - MaxLag
      /\ updateMap' = [updateMap EXCEPT ![k] = @ + len]
      /\ log' = log \union Logged(now)
      /\ UNCHANGED alive
  BY <1>2 DEF Recv
<1>4. /\ tick \in Nat /\ lastTs \in Nat /\ ts \in Nat /\ ts # 0
      /\ Timeout \in Nat /\ MaxLag \in Nat /\ lastTs' \in Time /\ lastTs' \in Nat
      /\ lastTs' >= ts /\ lastTs' >= lastTs /\ lastTs' <= ts + MaxLag
      /\ lastTs < ts => lastTs' = ts
      /\ lastTs # 0 => now - lastTs' = tick - lastTs
  BY <1>1, <1>2, <1>3, ElapsedType, ModFlowAssumption DEF TypeOK
<1>5. TypeOK'
  <2>1. updateMap' \in [Key -> Nat]
    BY <1>1, <1>3, ModFlowAssumption DEF TypeOK
  <2>2. Logged(now) \subseteq Flow
    <3> SUFFICES ASSUME NEW f \in Finished(now) PROVE flow[f] \in Flow
      BY DEF Logged
    <3>1. f \in FlowId /\ due[f] # NotIn
      BY DEF Finished, Lapsed
    <3> QED
      BY <1>1, <3>1 DEF TypeOK, NodesAreFlows
  <2> QED
    BY <1>1, <1>2, <1>3, <1>4, <2>1, <2>2 DEF TypeOK
<1>6. ASSUME NEW f \in FlowId
      PROVE  /\ due'[f] # NotIn => flow'[f] # NoFlow
             /\ flow'[f] # NoFlow =>
                  lastTs' >= flow'[f].updated /\ lastTs' >= flow'[f].refreshed
             /\ due'[f] # NotIn =>
                  /\ tick' <= due'[f]
                  /\ due'[f] + lastTs' <= tick' + flow'[f].refreshed + Timeout + MaxLag
                  /\ due'[f] + lastTs' >= tick' + flow'[f].created + Timeout
  <2>1. /\ flow[f] \in Flow \union {NoFlow} /\ flow'[f] \in Flow \union {NoFlow}
        /\ due[f] \in Nat \union {NotIn} /\ due'[f] \in Nat \union {NotIn}
        /\ NoFlow \notin Flow
    BY <1>1, <1>2, ModFlowAssumption DEF TypeOK
  <2>2. \A g \in Flow : g.created \in Nat /\ g.updated \in Nat /\ g.refreshed \in Nat
    BY ModFlowAssumption DEF Flow
  <2>3. CASE Carried(f, ts, now)
    <3>1. ASSUME flow'[f] # NoFlow
          PROVE  lastTs' >= flow'[f].updated /\ lastTs' >= flow'[f].refreshed
      <4>1. /\ flow[f] # NoFlow /\ flow'[f] \in Flow
            /\ flow'[f].updated \in {flow[f].updated, ts}
            /\ flow'[f].refreshed \in {flow[f].refreshed, ts}
        BY <1>2, <2>1, <2>3, <3>1, SweepFacts DEF Carried
      <4>2. lastTs >= flow[f].updated /\ lastTs >= flow[f].refreshed
        BY <1>1, <4>1 DEF NodesAreFlows
      <4>3. /\ flow[f].updated \in Nat /\ flow[f].refreshed \in Nat
        BY <2>1, <2>2, <4>1
      <4> QED
        BY <1>4, <4>1, <4>2, <4>3
    <3>2. ASSUME due'[f] # NotIn
          PROVE  /\ flow'[f] # NoFlow
                 /\ tick' <= due'[f]
                 /\ due'[f] + lastTs' <= tick' + flow'[f].refreshed + Timeout + MaxLag
                 /\ due'[f] + lastTs' >= tick' + flow'[f].created + Timeout
      <4>1. /\ due[f] # NotIn /\ flow[f] # NoFlow /\ flow'[f] # NoFlow
            /\ due'[f] >= now /\ due'[f] >= due[f]
            /\ flow'[f].created = flow[f].created
            /\ \/ due'[f] = due[f] /\ flow'[f].refreshed = flow[f].refreshed
               \/ /\ due'[f] <= now + Timeout + MaxLag
                  /\ flow'[f].refreshed = ts /\ lastTs < ts
        BY <1>2, <2>1, <2>3, <3>2, SweepFacts DEF Carried
      <4>2. /\ due[f] + lastTs <= tick + flow[f].refreshed + Timeout + MaxLag
            /\ due[f] + lastTs >= tick + flow[f].created + Timeout
        BY <1>1, <4>1 DEF LeaseBounded, LeaseLongEnough
      <4>3. lastTs # 0
        BY <1>1, <4>1 DEF NothingYet
      <4>4. /\ due[f] \in Nat /\ due'[f] \in Nat /\ lastTs' \in Nat
            /\ flow[f].created \in Nat /\ flow[f].refreshed \in Nat
            /\ now - lastTs' = tick - lastTs
        <5>1. flow[f] \in Flow
          BY <2>1, <4>1
        <5> QED
          BY <1>4, <2>1, <2>2, <3>2, <4>1, <4>3, <5>1
      <4>5. due'[f] + lastTs' >= tick' + flow'[f].created + Timeout
        BY <1>3, <1>4, <4>1, <4>2, <4>4
      <4>6. due'[f] + lastTs' <= tick' + flow'[f].refreshed + Timeout + MaxLag
        BY <1>3, <1>4, <4>1, <4>2, <4>4
      <4> QED
        BY <1>3, <4>1, <4>5, <4>6
    <3> QED
      BY <3>1, <3>2
  <2>4. CASE Opened(f, k, ts, now)
    <3>1. /\ due'[f] = now + Timeout
          /\ flow'[f].created = ts /\ flow'[f].refreshed = ts /\ flow'[f].updated = ts
      BY <2>4 DEF Opened
    <3>2. flow'[f] # NoFlow
      BY <1>2, <2>4 DEF Opened
    <3> QED
      BY <1>3, <1>4, <3>1, <3>2
  <2> QED
    BY <1>2, <2>3, <2>4
<1>7. NothingYet'
  BY <1>4, ModFlowAssumption DEF NothingYet
<1>8. NodesAreFlows' /\ LeaseBounded' /\ LeaseLongEnough'
  BY <1>6 DEF NodesAreFlows, LeaseBounded, LeaseLongEnough
<1>9. OneFlowPerKey'
  <2> SUFFICES ASSUME NEW f \in FlowId, NEW g \in FlowId, f # g,
                      due'[f] # NotIn, due'[g] # NotIn, flow'[f].key = flow'[g].key
               PROVE  FALSE
    BY DEF OneFlowPerKey
  <2>1. \A h \in FlowId :
          Carried(h, ts, now) /\ due'[h] # NotIn =>
            due[h] # NotIn /\ flow'[h].key = flow[h].key /\ SweptDue(now)[h] # NotIn
    BY <1>2, SweepFacts DEF Carried
  <2>2. \A h, e \in FlowId :
          ~(/\ Carried(h, ts, now) /\ Opened(e, k, ts, now)
            /\ due'[h] # NotIn /\ flow'[h].key = flow'[e].key)
    BY <2>1 DEF Opened, Found
  <2>3. Carried(f, ts, now) /\ Carried(g, ts, now)
    BY <1>2, <2>2
  <2> QED
    BY <1>1, <2>1, <2>3 DEF OneFlowPerKey
<1> QED
  BY <1>5, <1>7, <1>8, <1>9 DEF FlowInv

(* The destructor empties the table.                                       *)
LEMMA DestroyKeepsFlowInv == FlowInv /\ Destroy => FlowInv'
<1> SUFFICES ASSUME FlowInv, Destroy PROVE FlowInv'
  OBVIOUS
<1>1. \A f \in FlowId : due'[f] = NotIn /\ flow'[f] \in {flow[f], NoFlow}
  BY DEF Destroy
<1>2. TypeOK'
  BY DEF FlowInv, TypeOK, Destroy
<1>3. NothingYet'
  BY <1>1 DEF FlowInv, NothingYet, Destroy
<1>4. NodesAreFlows' /\ LeaseBounded' /\ LeaseLongEnough' /\ OneFlowPerKey'
  BY <1>1 DEF FlowInv, Destroy, NodesAreFlows, LeaseBounded, LeaseLongEnough, OneFlowPerKey
<1> QED
  BY <1>2, <1>3, <1>4 DEF FlowInv

(* The table starts empty.                                                 *)
LEMMA InitEstablishesFlowInv == Init => FlowInv
BY DEF Init, FlowInv, TypeOK, NothingYet, NodesAreFlows, LeaseBounded, LeaseLongEnough,
       OneFlowPerKey

(* FlowInv depends on the variables only.                                  *)
LEMMA StutterKeepsFlowInv == FlowInv /\ UNCHANGED vars => FlowInv'
BY DEF FlowInv, TypeOK, NothingYet, NodesAreFlows, LeaseBounded, LeaseLongEnough,
       OneFlowPerKey, vars

(* The clocks, the deadlines and the keys of the flows stay in step, for   *)
(* every sequence of packets.                                              *)
THEOREM FlowsStayInStep == Spec => []FlowInv
<1>1. Init => FlowInv
  BY InitEstablishesFlowInv
<1>2. FlowInv /\ [Next]_vars => FlowInv'
  BY RecvKeepsFlowInv, DestroyKeepsFlowInv, StutterKeepsFlowInv DEF Next
<1> QED
  BY <1>1, <1>2, PTL DEF Spec

(* Every variable keeps its type, packet by packet.                        *)
THEOREM FlowTypesKept == Spec => []TypeOK
<1>1. FlowInv => TypeOK
  BY DEF FlowInv
<1> QED
  BY <1>1, FlowsStayInStep, PTL

(* However the packets are ordered, a session never has two flows in the   *)
(* table.                                                                  *)
THEOREM OneFlowPerSession == Spec => []OneFlowPerKey
<1>1. FlowInv => OneFlowPerKey
  BY DEF FlowInv
<1> QED
  BY <1>1, FlowsStayInStep, PTL

(* A lease granted by recv() ends within Timeout + MaxLag of its refresh.  *)
THEOREM LeasesBounded == Spec => []LeaseBounded
<1>1. FlowInv => LeaseBounded
  BY DEF FlowInv
<1> QED
  BY <1>1, FlowsStayInStep, PTL

(* No flow.log message is sent for a flow younger than the timeout.        *)
THEOREM NoEarlyReport == Spec => MinimumLifetime
<1> DEFINE Lifetime ==
      \A f \in FlowId :
        (alive' /\ flow[f] # NoFlow /\ flow'[f] = NoFlow) =>
          lastTs' - flow[f].created > Timeout
<1>1. FlowInv /\ [Next]_vars => [Lifetime]_vars
  <2> SUFFICES ASSUME FlowInv, Next, NEW f \in FlowId,
                      alive', flow[f] # NoFlow, flow'[f] = NoFlow
               PROVE  lastTs' - flow[f].created > Timeout
    OBVIOUS
  <2>1. PICK k \in Key, ts \in Time, d \in Dir, len \in PacketLen : Recv(k, ts, d, len)
    BY DEF Next, Destroy
  <2>2. PICK now \in Nat :
          now = tick + Elapsed(ts) /\ Carried(f, ts, now)
    BY <2>1, RecvCells DEF Opened
  <2>3. f \in Finished(now)
    <3>1. flow[f] \in Flow
      BY DEF FlowInv, TypeOK
    <3>2. [flow[f] EXCEPT !.refreshed = ts] \in Flow
      BY <3>1 DEF Flow
    <3>3. SweptFlow(now, ts)[f] = NoFlow
      BY <2>2 DEF Carried
    <3> QED
      BY <3>2, <3>3, ModFlowAssumption DEF SweptFlow
  <2>4. due[f] # NotIn /\ due[f] < now
    BY <2>3 DEF Finished, Lapsed
  <2>5. TypeOK /\ lastTs # 0 /\ due[f] + lastTs >= tick + flow[f].created + Timeout
    BY <2>4 DEF FlowInv, NothingYet, LeaseLongEnough
  <2>6. lastTs' = IF lastTs < ts THEN ts ELSE lastTs
    BY <2>1 DEF Recv
  <2>7. /\ flow[f].created \in Nat /\ tick \in Nat /\ lastTs \in Nat /\ lastTs' \in Nat
        /\ due[f] \in Nat /\ Timeout \in Nat
    BY <2>1, <2>4, <2>5, <2>6, ModFlowAssumption DEF TypeOK, Flow
  <2>8. now - lastTs' = tick - lastTs
    BY <2>1, <2>2, <2>5, <2>6, <2>7, ElapsedType
  <2> QED
    BY <2>2, <2>4, <2>5, <2>7, <2>8
<1> QED
  BY <1>1, FlowsStayInStep, PTL DEF Spec, MinimumLifetime

(* A lease that is at most Timeout + MaxLag old fits the wheel again, so   *)
(* the sweep keeps every flow it does not report in the table.             *)
LEMMA SweptOwned ==
  ASSUME Timeout + MaxLag < Slots, FlowInv, NoFlowLost,
         NEW f \in FlowId, NEW ts \in Time, NEW now \in Nat, now = tick + Elapsed(ts),
         SweptFlow(now, ts)[f] # NoFlow
  PROVE  SweptDue(now)[f] # NotIn
<1>1. flow[f] # NoFlow /\ due[f] # NotIn
  BY SweepFacts DEF NoFlowLost
<1>2. CASE f \in Lapsed(now)
  <2>1. f \in Renewed(now)
    BY <1>2 DEF SweptFlow, Finished
  <2>2. Remain(f) <= Timeout + MaxLag
    BY <1>2, SweepFacts
  <2>3. Remain(f) \in Nat /\ Timeout \in Nat /\ MaxLag \in Nat /\ Slots \in Nat
    <3>1. flow[f] \in Flow
      BY <1>1 DEF FlowInv, TypeOK
    <3>2. flow[f].updated \in Nat /\ flow[f].refreshed \in Nat
      BY <3>1, ModFlowAssumption DEF Flow
    <3> QED
      BY <3>2, ModFlowAssumption DEF Remain
  <2>4. f \in TakenBack(now)
    BY <2>1, <2>2, <2>3 DEF TakenBack
  <2>5. SweptDue(now)[f] = now + Remain(f)
    BY <2>4 DEF SweptDue
  <2> QED
    BY <2>3, <2>5
<1>3. CASE f \notin Lapsed(now)
  BY <1>1, <1>3 DEF SweptDue, TakenBack, Renewed
<1> QED
  BY <1>2, <1>3

(* Under that premise no step loses a flow.                                *)
LEMMA NoFlowLostKept ==
  ASSUME Timeout + MaxLag < Slots, FlowInv, NoFlowLost, [Next]_vars
  PROVE  NoFlowLost'
<1> SUFFICES ASSUME NEW f \in FlowId, flow'[f] # NoFlow
             PROVE  due'[f] # NotIn
  BY DEF NoFlowLost
<1>1. ASSUME NEW k \in Key, NEW ts \in Time, NEW d \in Dir, NEW len \in PacketLen,
             Recv(k, ts, d, len)
      PROVE  due'[f] # NotIn
  <2>1. PICK now \in Nat :
          /\ now = tick + Elapsed(ts)
          /\ Carried(f, ts, now) \/ Opened(f, k, ts, now)
    BY <1>1, RecvCells
  <2>2. CASE Opened(f, k, ts, now)
    BY <2>1, <2>2, ModFlowAssumption DEF Opened
  <2>3. CASE Carried(f, ts, now)
    BY <2>1, <2>3, SweptOwned DEF Carried
  <2> QED
    BY <2>1, <2>2, <2>3
<1>2. CASE Destroy
  BY <1>2 DEF Destroy, NoFlowLost
<1>3. CASE UNCHANGED vars
  BY <1>3 DEF vars, NoFlowLost
<1> QED
  BY <1>1, <1>2, <1>3 DEF Next

(* If no packet lags Slots - Timeout seconds or more behind the newest, a  *)
(* renewed flow always fits the wheel again: recv() loses none.            *)
THEOREM RenewalsFit ==
  ASSUME Timeout + MaxLag < Slots
  PROVE  Spec => []NoFlowLost
<1>1. Init => NoFlowLost
  BY DEF Init, NoFlowLost
<1>2. FlowInv /\ NoFlowLost /\ [Next]_vars => NoFlowLost'
  BY NoFlowLostKept
<1> QED
  BY <1>1, <1>2, FlowsStayInStep, PTL DEF Spec

-----------------------------------------------------------------------------
(* BytesConserved.  What recv() does to the two sums.                      *)

(* The sum over finitely many reports is a function of the set of reports: *)
(* one more report adds its bytes.                                         *)
BytesOf(S) == MapThenSumSet(Bytes, S)

(* MapThenSumSet's choice of elements gives the sum of SumProofs.          *)
LEMMA BytesAreSums ==
  ASSUME NEW S, IsFiniteSet(S), NEW w, \A g \in S : w[g] = Bytes(g) /\ w[g] \in Int
  PROVE  \E s : Sums(s, w, S) /\ BytesOf(S) = s[S]
<1> DEFINE Eq(g) == g = [T \in SUBSET S |-> IF T = {} THEN 0
                          ELSE LET x == CHOOSE x \in T : TRUE IN Bytes(x) + g[T \ {x}]]
           s == CHOOSE g : Eq(g)
<1>1. BytesOf(S) = s[S]
  BY Zenon DEF BytesOf, MapThenSumSet, MapThenFoldSet
<1>2. PICK t : Sums(t, w, S)
  BY SumsExist
<1>3. \A T \in SUBSET S : T # {} => w[Pick(T)] = Bytes(Pick(T))
  BY DEF Pick
<1>4. ASSUME NEW g, Eq(g) PROVE \A T \in SUBSET S : g[T] = IF T = {} THEN 0 ELSE w[Pick(T)] + g[T \ {Pick(T)}]
  BY <1>3, <1>4 DEF Pick
<1>5. Eq(t)
  <2>1. \A T \in SUBSET S : t[T] = IF T = {} THEN 0 ELSE LET x == CHOOSE x \in T : TRUE IN Bytes(x) + t[T \ {x}]
    BY <1>2, <1>3 DEF Sums, Adds, Pick
  <2>2. t = [T \in SUBSET S |-> t[T]]
    BY <1>2 DEF Sums
  <2> QED
    BY <2>1, <2>2
<1> HIDE DEF Eq
<1>6. Eq(s)
  BY <1>5
<1> HIDE DEF s
<1>7. Adds(s, w, S)
  BY <1>4, <1>6 DEF Adds
<1>8. \A T \in SUBSET S : s[T] = t[T]
  BY <1>2, <1>7, SumsAgree DEF Sums
<1>9. s = [T \in SUBSET S |-> s[T]]
  BY <1>6 DEF Eq
<1>10. s \in [SUBSET S -> Int]
  BY <1>2, <1>8, <1>9 DEF Sums
<1> QED
  BY <1>1, <1>7, <1>10 DEF Sums

(* Nothing reported adds nothing, a new report adds its bytes.             *)
LEMMA BytesOfNone == BytesOf({}) = 0
<1> DEFINE w == [g \in {} |-> 0]
<1>1. IsFiniteSet({})
  BY FS_EmptySet
<1>2. PICK s : Sums(s, w, {}) /\ BytesOf({}) = s[{}]
  BY <1>1, BytesAreSums
<1> QED
  BY <1>2 DEF Sums, Adds

(* One new report adds its bytes.                                          *)
LEMMA BytesOfMore ==
  ASSUME NEW S, IsFiniteSet(S), \A g \in S : Bytes(g) \in Int,
         NEW h, h \notin S, Bytes(h) \in Int
  PROVE  /\ IsFiniteSet(S \union {h})
         /\ BytesOf(S \union {h}) = BytesOf(S) + Bytes(h)
<1> DEFINE R == S \union {h}
           v == [g \in R |-> Bytes(g)]
<1>1. IsFiniteSet(R)
  BY FS_AddElement
<1>2. \A g \in R : v[g] = Bytes(g) /\ v[g] \in Int
  OBVIOUS
<1>3. R \ {h} = S /\ h \in R /\ S \subseteq R
  OBVIOUS
<1> HIDE DEF v, R
<1>4. PICK r : Sums(r, v, R) /\ BytesOf(R) = r[R]
  BY <1>1, <1>2, BytesAreSums
<1>5. PICK s : Sums(s, v, S) /\ BytesOf(S) = s[S]
  BY <1>2, <1>3, BytesAreSums
<1>6. s[S] = r[S]
  BY <1>3, <1>4, <1>5, SumsAgree DEF Sums
<1>7. r[R] = v[h] + r[S]
  BY <1>1, <1>2, <1>3, <1>4, SumsAnyFirst
<1>8. r[S] \in Int /\ v[h] \in Int
  BY <1>2, <1>3, <1>4 DEF Sums
<1>9. BytesOf(R) = BytesOf(S) + Bytes(h)
  BY <1>2, <1>3, <1>4, <1>5, <1>6, <1>7, <1>8
<1> QED
  BY <1>1, <1>9 DEF R

(* A session without a live flow has no live bytes, one with a single live *)
(* flow has that flow's.                                                   *)
LiveSum ==
  \A k \in Key :
    /\ Live(k) = {} => LiveBytes(k) = 0
    /\ \A f \in FlowId : Live(k) = {f} /\ Bytes(flow[f]) \in Int =>
                          LiveBytes(k) = Bytes(flow[f])

(* LiveSum holds in every state, whatever the table contains.              *)
LEMMA LiveIsSum == LiveSum
<1> SUFFICES ASSUME NEW k \in Key
             PROVE  /\ Live(k) = {} => LiveBytes(k) = 0
                    /\ \A f \in FlowId : Live(k) = {f} /\ Bytes(flow[f]) \in Int =>
                                          LiveBytes(k) = Bytes(flow[f])
  BY DEF LiveSum
<1> DEFINE S == Live(k)
           Eq(g) == g = [T \in SUBSET S |-> IF T = {} THEN 0
                          ELSE LET x == CHOOSE x \in T : TRUE IN Bytes(flow[x]) + g[T \ {x}]]
           s == CHOOSE g : Eq(g)
<1>1. LiveBytes(k) = s[S]
  BY Zenon DEF LiveBytes, MapThenSumSet, MapThenFoldSet
<1> HIDE DEF S
<1>2. ASSUME S = {} PROVE s[S] = 0
  <2> DEFINE t == [T \in SUBSET S |-> 0]
  <2>1. Eq(t)
    BY <1>2
  <2> HIDE DEF t
  <2>2. Eq(s)
    <3> HIDE DEF Eq
    <3> QED
      BY <2>1
  <2> HIDE DEF s
  <2> QED
    BY <2>2, <1>2
<1>3. ASSUME NEW f \in FlowId, S = {f}, Bytes(flow[f]) \in Int PROVE s[S] = Bytes(flow[f])
  <2> DEFINE b == Bytes(flow[f])
             t == [T \in SUBSET S |-> IF T = {} THEN 0 ELSE b]
  <2>1. SUBSET S = {{}, {f}} /\ {f} \ {f} = {} /\ {f} # {} /\ (CHOOSE x \in {f} : TRUE) = f
    BY <1>3
  <2>2. Eq(t)
    <3>1. \A T \in SUBSET S : t[T] = IF T = {} THEN 0
             ELSE LET x == CHOOSE x \in T : TRUE IN Bytes(flow[x]) + t[T \ {x}]
      BY <1>3, <2>1
    <3> QED
      BY <3>1
  <2> HIDE DEF t
  <2>3. Eq(s)
    <3> HIDE DEF Eq
    <3> QED
      BY <2>2
  <2> HIDE DEF s
  <2>4. \A T \in SUBSET S : s[T] = IF T = {} THEN 0
             ELSE LET x == CHOOSE x \in T : TRUE IN Bytes(flow[x]) + s[T \ {x}]
    BY <2>3
  <2>5. s[{}] = 0 /\ s[{f}] = b + s[{}]
    BY <2>1, <2>4
  <2> QED
    BY <1>3, <2>5
<1> QED
  BY <1>1, <1>2, <1>3 DEF S

(* An int holds what it can hold.                                          *)
LEMMA ToIntSmall ==
  ASSUME NEW x \in Nat, x <= MaxInt
  PROVE  ToInt(x) = x
<1> DEFINE m == MaxInt + 1
           y == x + m
<1>1. m \in Nat /\ m > 0 /\ y \in Nat /\ y >= m /\ y < 2 * m
  BY ModFlowAssumption
<1> HIDE DEF m, y
<1>2. y % (2 * m) = y
  BY <1>1
<1>3. ToInt(x) = (y % (2 * m)) - m
  BY ModFlowAssumption DEF ToInt, m, y
<1> QED
  BY <1>2, <1>3, ModFlowAssumption DEF m, y

(* A session has at most one live flow.                                    *)
LEMMA LiveOnce ==
  ASSUME FlowInv, NoFlowLost, NEW k \in Key, NEW f \in Live(k)
  PROVE  Live(k) = {f}
BY DEF FlowInv, OneFlowPerKey, NoFlowLost, Live

(* A flow the sweep reports was opened more than Timeout seconds before    *)
(* the packet at hand.                                                     *)
LEMMA FinishedOld ==
  ASSUME FlowInv, NEW ts \in Time, NEW now \in Nat, now = tick + Elapsed(ts),
         NEW f \in Finished(now)
  PROVE  /\ f \in FlowId /\ flow[f] \in Flow
         /\ lastTs < ts /\ flow[f].created + Timeout < ts
<1>1. f \in FlowId /\ f \in Lapsed(now) /\ due[f] # NotIn /\ due[f] < now
  BY DEF Finished, Lapsed
<1>2. lastTs < ts
  BY <1>1, SweepFacts
<1>3. TypeOK /\ lastTs # 0 /\ flow[f] # NoFlow /\ due[f] + lastTs >= tick + flow[f].created + Timeout
  BY <1>1 DEF FlowInv, NothingYet, NodesAreFlows, LeaseLongEnough
<1>4. flow[f] \in Flow
  BY <1>1, <1>3 DEF TypeOK
<1>5. /\ flow[f].created \in Nat /\ tick \in Nat /\ lastTs \in Nat /\ ts \in Nat
      /\ due[f] \in Nat /\ Timeout \in Nat /\ now = tick + (ts - lastTs)
  BY <1>1, <1>2, <1>3, <1>4, ModFlowAssumption DEF TypeOK, Flow, Elapsed
<1> QED
  BY <1>1, <1>2, <1>3, <1>4, <1>5

(* recv() accounts the packet to cell e: to the session's flow that the    *)
(* sweep left there, or to one it opens.  The other cells keep what they   *)
(* counted, unless the sweep reports them.                                 *)
Untouched(f, now) ==
  /\ flow'[f] = NoFlow <=> (flow[f] = NoFlow \/ f \in Finished(now))
  /\ flow'[f] # NoFlow =>
       /\ flow'[f].key = flow[f].key
       /\ flow'[f].created = flow[f].created
       /\ flow'[f].size = flow[f].size

Accounted(e, k, ts, d, len, now) ==
  /\ flow'[e] # NoFlow /\ flow'[e].key = k
  /\ \/ /\ e \in Live(k) /\ e \notin Finished(now)
        /\ flow'[e].created = flow[e].created
        /\ flow'[e].size = [flow[e].size EXCEPT ![d] = ToInt(@ + len)]
     \/ /\ flow[e] = NoFlow /\ Live(k) \subseteq Finished(now)
        /\ flow'[e].created = ts
        /\ flow'[e].size = [c \in Dir |-> IF c = d THEN ToInt(0 + len) ELSE 0]

(* Each packet is accounted to exactly one cell.                           *)
LEMMA RecvAccounts ==
  ASSUME Timeout + MaxLag < Slots, FlowInv, NoFlowLost,
         NEW k \in Key, NEW ts \in Time, NEW d \in Dir, NEW len \in PacketLen,
         Recv(k, ts, d, len), NEW now \in Nat, now = tick + Elapsed(ts)
  PROVE  \E e \in FlowId :
           /\ Accounted(e, k, ts, d, len, now)
           /\ \A f \in FlowId : f # e => Untouched(f, now)
<1>1. Known(k, ts, d, len, now) \/ New(k, ts, d, len, now)
  BY DEF Recv
<1>2. TypeOK /\ NoFlow \notin Flow
  BY ModFlowAssumption DEF FlowInv
<1> DEFINE s == SweptFlow(now, ts)
<1>3. ASSUME NEW f \in FlowId
      PROVE  /\ s[f] = NoFlow <=> (flow[f] = NoFlow \/ f \in Finished(now))
             /\ s[f] # NoFlow => /\ s[f] \in Flow /\ s[f].key = flow[f].key
                                 /\ s[f].created = flow[f].created /\ s[f].size = flow[f].size
  <2>1. flow[f] \in Flow \union {NoFlow} /\ ts \in Time
    BY <1>2 DEF TypeOK
  <2>2. ASSUME flow[f] # NoFlow
        PROVE  /\ flow[f] \in Flow /\ [flow[f] EXCEPT !.refreshed = ts] \in Flow
               /\ [flow[f] EXCEPT !.refreshed = ts].key = flow[f].key
               /\ [flow[f] EXCEPT !.refreshed = ts].created = flow[f].created
               /\ [flow[f] EXCEPT !.refreshed = ts].size = flow[f].size
    BY <2>1, <2>2 DEF Flow
  <2>3. flow[f] = NoFlow => f \notin Renewed(now) /\ s[f] = NoFlow
    BY <1>2 DEF FlowInv, NodesAreFlows, Renewed, Lapsed, SweptFlow
  <2>4. s[f] = IF f \in Finished(now) THEN NoFlow
               ELSE IF f \in Renewed(now) THEN [flow[f] EXCEPT !.refreshed = ts]
               ELSE flow[f]
    BY DEF SweptFlow
  <2> QED
    BY <1>2, <2>2, <2>3, <2>4
<1>4. \A e : s = [f \in FlowId |-> s[f]]
  BY DEF SweptFlow
<1>5. \A g \in Flow : Updated(g, ts, d, len).size = [g.size EXCEPT ![d] = ToInt(@ + len)]
  BY DEF Updated, Flow
<1> HIDE DEF s
<1>6. CASE Known(k, ts, d, len, now)
  <2> DEFINE u(e) == Updated(s[e], ts, d, len)
  <2>1. PICK e \in Found(k, now) : flow' = [s EXCEPT ![e] = Updated(s[e], ts, d, len)]
    BY <1>6 DEF Known, s
  <2>2. e \in FlowId /\ SweptDue(now)[e] # NotIn /\ flow[e].key = k
    BY <2>1 DEF Found
  <2>3. s[e] # NoFlow
    BY <2>2, SweepFacts DEF s
  <2>4. /\ u(e) \in Flow /\ u(e).key = s[e].key /\ u(e).created = s[e].created
        /\ u(e).size = [s[e].size EXCEPT ![d] = ToInt(@ + len)]
    BY <1>3, <1>5, <2>2, <2>3, UpdatedType
  <2> HIDE DEF u
  <2>5. flow' = [s EXCEPT ![e] = u(e)]
    BY <2>1 DEF u
  <2>6. flow'[e] = u(e) /\ \A f \in FlowId : f # e => flow'[f] = s[f]
    BY <1>4, <2>2, <2>5
  <2>7. e \in Live(k) /\ e \notin Finished(now)
    BY <1>3, <2>2, <2>3 DEF Live
  <2>8. Accounted(e, k, ts, d, len, now)
    BY <1>2, <1>3, <2>2, <2>3, <2>4, <2>6, <2>7 DEF Accounted
  <2>9. \A f \in FlowId : f # e => Untouched(f, now)
    BY <1>3, <2>6 DEF Untouched
  <2> QED
    BY <2>2, <2>8, <2>9
<1>7. CASE New(k, ts, d, len, now)
  <2> DEFINE u == Updated(NewFlow(k, ts), ts, d, len)
  <2>1. PICK e \in FlowId : flow[e] = NoFlow /\ flow' = [s EXCEPT ![e] = u]
    BY <1>7 DEF New, s
  <2>2. Found(k, now) = {}
    BY <1>7 DEF New
  <2>3. /\ u \in Flow /\ u.key = k /\ u.created = ts
        /\ u.size = [NewFlow(k, ts).size EXCEPT ![d] = ToInt(@ + len)]
    BY <1>5, NewFlowType, UpdatedType DEF NewFlow
  <2>4. u.size = [c \in Dir |-> IF c = d THEN ToInt(0 + len) ELSE 0]
    BY <2>3 DEF NewFlow
  <2> HIDE DEF u
  <2>5. flow'[e] = u /\ \A f \in FlowId : f # e => flow'[f] = s[f]
    BY <1>4, <2>1
  <2>6. Live(k) \subseteq Finished(now)
    <3> SUFFICES ASSUME NEW f \in Live(k), f \notin Finished(now) PROVE FALSE
      OBVIOUS
    <3>1. f \in FlowId /\ flow[f] # NoFlow /\ flow[f].key = k
      BY DEF Live
    <3>2. s[f] # NoFlow
      BY <1>3, <3>1
    <3>3. SweptDue(now)[f] # NotIn
      BY <3>1, <3>2, SweptOwned DEF s
    <3> QED
      BY <2>2, <3>1, <3>3 DEF Found
  <2>7. Accounted(e, k, ts, d, len, now)
    BY <1>2, <2>1, <2>3, <2>4, <2>5, <2>6 DEF Accounted
  <2>8. \A f \in FlowId : f # e => Untouched(f, now)
    BY <1>3, <2>5 DEF Untouched
  <2> QED
    BY <2>1, <2>7, <2>8
<1> QED
  BY <1>1, <1>6, <1>7

(* A session's live flow counts no more than the session's bytes.          *)
LEMMA LiveCounted ==
  ASSUME BytesInv, alive, NEW k \in Key
  PROVE  /\ \A f \in Live(k) :
              /\ f \in FlowId /\ Live(k) = {f} /\ flow[f].size \in [Dir -> Nat]
              /\ LiveBytes(k) = Bytes(flow[f]) /\ Bytes(flow[f]) \in Nat
              /\ \A d \in Dir : flow[f].size[d] <= updateMap[k]
         /\ LiveBytes(k) \in Nat /\ updateMap[k] \in Nat
         /\ updateMap[k] = ReportedBytes(k) + LiveBytes(k)
         /\ ReportedBytes(k) \in Nat
<1>1. updateMap[k] = ReportedBytes(k) + LiveBytes(k) /\ ReportedBytes(k) \in Nat
  BY DEF BytesInv, BytesConserved, Counted
<1>2. updateMap[k] \in Nat
  BY DEF BytesInv, FlowInv, TypeOK
<1>3. ASSUME NEW f \in Live(k)
      PROVE  /\ f \in FlowId /\ Live(k) = {f} /\ flow[f].size \in [Dir -> Nat]
             /\ LiveBytes(k) = Bytes(flow[f]) /\ Bytes(flow[f]) \in Nat
             /\ \A d \in Dir : flow[f].size[d] <= updateMap[k]
  <2>1. f \in FlowId /\ flow[f] # NoFlow
    BY DEF Live
  <2>2. Live(k) = {f}
    BY LiveOnce DEF BytesInv
  <2>3. flow[f].size \in [Dir -> Nat]
    BY <2>1 DEF BytesInv, Counted
  <2>4. Bytes(flow[f]) \in Nat /\ \A d \in Dir : flow[f].size[d] <= Bytes(flow[f])
    BY <2>3 DEF Bytes, Dir
  <2>5. LiveBytes(k) = Bytes(flow[f])
    BY <2>1, <2>2, <2>4, LiveIsSum DEF LiveSum
  <2>6. \A d \in Dir : flow[f].size[d] \in Nat
    BY <2>3
  <2> QED
    BY <1>1, <1>2, <2>1, <2>2, <2>3, <2>4, <2>5, <2>6
<1>4. CASE Live(k) = {}
  <2>1. LiveBytes(k) = 0
    BY <1>4, LiveIsSum DEF LiveSum
  <2> QED
    BY <1>1, <1>2, <1>4, <2>1
<1> QED
  BY <1>1, <1>2, <1>3, <1>4

(* The packet's flow counts len bytes more, in the packet's direction.     *)
LEMMA AccountedBytes ==
  ASSUME MaxBytes <= MaxInt, BytesInv, alive, NEW k \in Key,
         NEW d \in Dir, NEW len \in PacketLen, updateMap[k] + len <= MaxBytes,
         NEW ts, NEW now, NEW e \in FlowId,
         Accounted(e, k, ts, d, len, now)
  PROVE  /\ flow'[e].size \in [Dir -> Nat]
         /\ IF e \in Live(k) THEN Bytes(flow'[e]) = Bytes(flow[e]) + len
                             ELSE Bytes(flow'[e]) = len
<1>1. len \in Nat /\ MaxBytes \in Nat /\ MaxInt \in Nat /\ updateMap[k] \in Nat
  BY LiveCounted, ModFlowAssumption
<1>2. CASE e \in Live(k)
  <2>1. flow[e] # NoFlow /\ flow[e].size \in [Dir -> Nat] /\ flow[e].size[d] <= updateMap[k]
    BY <1>2, LiveCounted DEF Live
  <2>2. ToInt(flow[e].size[d] + len) = flow[e].size[d] + len
    BY <1>1, <2>1, ToIntSmall
  <2>3. flow'[e].size = [flow[e].size EXCEPT ![d] = flow[e].size[d] + len]
    BY <2>1, <2>2 DEF Accounted
  <2> QED
    BY <1>1, <1>2, <2>1, <2>3 DEF Bytes, Dir
<1>3. CASE e \notin Live(k)
  <2>1. ToInt(0 + len) = len
    BY <1>1, ToIntSmall
  <2>2. flow'[e].size = [c \in Dir |-> IF c = d THEN len ELSE 0]
    BY <1>3, <2>1 DEF Accounted
  <2> QED
    BY <1>1, <1>3, <2>2 DEF Bytes, Dir
<1> QED
  BY <1>2, <1>3

(* A packet keeps the books: per session, the reported flow moves from one *)
(* sum to the other and the packet's bytes are added once.                 *)
LEMMA RecvKeepsBytes ==
  ASSUME Timeout + MaxLag < Slots, MaxLag <= Timeout, MaxBytes <= MaxInt, BytesInv,
         NEW k \in Key, NEW ts \in Time, NEW d \in Dir, NEW len \in PacketLen,
         Recv(k, ts, d, len)
  PROVE  FlowsApart' /\ Counted' /\ BytesConserved'
<1> DEFINE now == tick + Elapsed(ts)
<1>1. FlowInv /\ NoFlowLost /\ FlowsApart /\ Counted /\ TypeOK
  BY DEF BytesInv, FlowInv
<1>2. now \in Nat
  BY <1>1, ElapsedType DEF TypeOK
<1>3. now = tick + Elapsed(ts)
  OBVIOUS
<1>4. /\ alive /\ ts >= lastTs - MaxLag /\ updateMap[k] + len <= MaxBytes
      /\ lastTs' = IF lastTs < ts THEN ts ELSE lastTs
      /\ updateMap' = [updateMap EXCEPT ![k] = @ + len]
      /\ log' = log \union Logged(now)
  BY DEF Recv
<1> HIDE DEF now
<1>5. PICK e \in FlowId :
        /\ Accounted(e, k, ts, d, len, now)
        /\ \A f \in FlowId : f # e => Untouched(f, now)
  BY <1>1, <1>2, <1>3, RecvAccounts
<1>6. /\ lastTs \in Nat /\ lastTs' \in Nat /\ ts \in Nat /\ Timeout \in Nat /\ MaxLag \in Nat
      /\ lastTs <= lastTs'
  BY <1>1, <1>4, ModFlowAssumption DEF TypeOK
<1>7. ASSUME NEW f \in Finished(now)
      PROVE  /\ f \in FlowId /\ flow[f] \in Flow /\ flow[f] # NoFlow
             /\ lastTs' = ts /\ flow[f].created + Timeout < ts
             /\ flow[f].key \in Key /\ f \in Live(flow[f].key)
  <2>1. f \in FlowId /\ flow[f] \in Flow /\ lastTs < ts /\ flow[f].created + Timeout < ts
    BY <1>1, <1>2, <1>3, FinishedOld
  <2> QED
    BY <1>4, <2>1, ModFlowAssumption DEF Live, Flow
<1>8. ASSUME NEW f \in FlowId, flow'[f] # NoFlow
      PROVE  \/ /\ flow[f] # NoFlow /\ f \notin Finished(now)
                /\ flow'[f].key = flow[f].key /\ flow'[f].created = flow[f].created
             \/ f = e /\ flow[f] = NoFlow /\ flow'[f].created = ts
  <2>1. CASE f = e
    BY <1>5, <1>8, <2>1 DEF Accounted, Live
  <2>2. CASE f # e
    BY <1>5, <1>8, <2>2 DEF Untouched
  <2> QED
    BY <2>1, <2>2
<1>9. FlowsApart'
  <2> SUFFICES ASSUME NEW g \in log'
               PROVE  /\ g.created + Timeout < lastTs'
                      /\ \A f \in FlowId : flow'[f] # NoFlow /\ flow'[f].key = g.key =>
                                           g.created < flow'[f].created
    BY DEF FlowsApart, Live
  <2>1. g \in Flow
    BY <1>1, <1>4, <1>7 DEF TypeOK, Logged
  <2>2. g.created \in Nat
    BY <2>1, ModFlowAssumption DEF Flow
  <2>3. CASE g \in log
    <3>1. g.created + Timeout < lastTs
      BY <1>1, <2>3 DEF FlowsApart
    <3>2. g.created + Timeout < lastTs' /\ g.created < ts
      BY <1>4, <1>6, <2>2, <3>1
    <3>3. \A f \in FlowId : flow[f] # NoFlow /\ flow[f].key = g.key => g.created < flow[f].created
      BY <1>1, <2>3 DEF FlowsApart, Live
    <3> QED
      BY <1>8, <3>2, <3>3
  <2>4. CASE g \in Logged(now)
    <3>1. PICK h \in Finished(now) : g = flow[h]
      BY <2>4 DEF Logged
    <3>2. g.created + Timeout < ts /\ lastTs' = ts /\ h \in Live(g.key) /\ g.key \in Key
      BY <1>7, <3>1
    <3>3. \A f \in FlowId : flow[f] # NoFlow /\ flow[f].key = g.key => f = h
      BY <1>1, <3>2, LiveOnce DEF Live
    <3>4. g.created < ts
      BY <1>6, <2>2, <3>2
    <3> QED
      BY <1>8, <3>1, <3>2, <3>3, <3>4
  <2> QED
    BY <1>4, <2>3, <2>4
<1>10. \A f \in FlowId : flow'[f] # NoFlow => flow'[f].size \in [Dir -> Nat]
  <2>1. flow'[e].size \in [Dir -> Nat]
    BY <1>4, <1>5, AccountedBytes
  <2>2. \A f \in FlowId : f # e /\ flow'[f] # NoFlow => flow[f] # NoFlow /\ flow'[f].size = flow[f].size
    BY <1>5 DEF Untouched
  <2> QED
    BY <1>1, <2>1, <2>2 DEF Counted
<1>11. \A g \in log' : g.size \in [Dir -> Nat]
  BY <1>1, <1>4, <1>7 DEF Counted, Logged
<1>12. ASSUME NEW q \in Key
       PROVE  /\ IsFiniteSet(Reported(q)') /\ ReportedBytes(q)' \in Nat
              /\ updateMap'[q] = ReportedBytes(q)' + LiveBytes(q)'
  <2> DEFINE R == Reported(q)
             L == Live(q)
             b == IF q = k THEN len ELSE 0
  <2>1. /\ ReportedBytes(q) = BytesOf(R) /\ ReportedBytes(q)' = BytesOf(R')
    BY DEF ReportedBytes, BytesOf
  <2>2. R' = R \union {flow[f] : f \in L \intersect Finished(now)}
    BY <1>4, <1>7 DEF Reported, Live, Logged
  <2>3. /\ q # k => L' = L \ Finished(now)
        /\ q = k => L' = {e} /\ (e \in L \ Finished(now) \/ (e \notin L /\ L \subseteq Finished(now)))
    <3>1. CASE q # k
      <4>1. e \notin L /\ e \notin L'
        BY <1>5, <3>1 DEF Accounted, Live
      <4>2. \A f \in FlowId : f # e => (f \in L' <=> f \in L \ Finished(now))
        BY <1>5 DEF Untouched, Live
      <4> QED
        BY <3>1, <4>1, <4>2 DEF Live
    <3>2. CASE q = k
      <4>1. e \in L' /\ (e \in L \ Finished(now) \/ (e \notin L /\ L \subseteq Finished(now)))
        BY <1>5, <3>2 DEF Accounted, Live
      <4>2. \A f \in FlowId : f # e => (f \in L' <=> f \in L \ Finished(now))
        BY <1>5 DEF Untouched, Live
      <4>3. \A f \in L : L = {f}
        BY <1>1, LiveOnce
      <4>4. L' = {e}
        BY <4>1, <4>2, <4>3 DEF Live
      <4> QED
        BY <3>2, <4>1, <4>4
    <3> QED
      BY <3>1, <3>2
  <2>4. /\ updateMap[q] = BytesOf(R) + LiveBytes(q) /\ BytesOf(R) \in Nat
        /\ updateMap'[q] = updateMap[q] + b /\ b \in Nat
        /\ updateMap[q] \in Nat /\ LiveBytes(q) \in Nat
        /\ \A f \in L : LiveBytes(q) = Bytes(flow[f]) /\ Bytes(flow[f]) \in Nat
    <3>1. updateMap'[q] = updateMap[q] + b /\ len \in Nat
      BY <1>1, <1>4, ModFlowAssumption, LiveCounted DEF TypeOK
    <3> QED
      BY <1>4, <2>1, <3>1, LiveCounted
  <2>5. IsFiniteSet(R) /\ \A g \in R : Bytes(g) \in Int
    BY <1>1 DEF Counted, Reported, Bytes, Dir
  <2>6. LiveSum'
    BY LiveIsSum, PTL
  <2>7. L' = {} => LiveBytes(q)' = 0
    BY <2>6 DEF LiveSum
  <2>8. \A f \in FlowId : L' = {f} /\ Bytes(flow'[f]) \in Int => LiveBytes(q)' = Bytes(flow'[f])
    BY <2>6 DEF LiveSum
  <2>9. ASSUME NEW f \in L, f \in Finished(now)
        PROVE  IsFiniteSet(R') /\ BytesOf(R') = BytesOf(R) + LiveBytes(q)
    <3>1. L = {f} /\ flow[f] \in Flow /\ flow[f].key = q
      BY <1>1, <1>7, <2>9, LiveOnce DEF Live
    <3>2. R' = R \union {flow[f]}
      BY <2>2, <2>9, <3>1
    <3>3. flow[f] \notin R
      <4> SUFFICES ASSUME flow[f] \in R PROVE FALSE
        OBVIOUS
      <4>1. flow[f].created < flow[f].created
        BY <1>1, <2>9, <3>1 DEF Reported, FlowsApart
      <4>2. flow[f].created \in Nat
        BY <3>1, ModFlowAssumption DEF Flow
      <4> HIDE DEF R, L
      <4> QED
        BY <4>1, <4>2
    <3>4. Bytes(flow[f]) = LiveBytes(q) /\ Bytes(flow[f]) \in Int
      BY <2>4, <2>9
    <3> HIDE DEF R
    <3> QED
      BY <2>5, <3>2, <3>3, <3>4, BytesOfMore
  <2>10. (L \intersect Finished(now) = {}) => IsFiniteSet(R') /\ BytesOf(R') = BytesOf(R)
    BY <2>2, <2>5
  <2>11. ASSUME q = k
         PROVE  /\ Bytes(flow'[e]) = (IF e \in L THEN Bytes(flow[e]) ELSE 0) + len
                /\ LiveBytes(q)' = Bytes(flow'[e])
    <3>1. Bytes(flow'[e]) = IF e \in L THEN Bytes(flow[e]) + len ELSE len
      BY <1>4, <1>5, <2>11, AccountedBytes
    <3>2. len \in Nat /\ (e \in L => Bytes(flow[e]) \in Nat)
      BY <2>4, ModFlowAssumption
    <3>3. Bytes(flow'[e]) \in Int
      BY <3>1, <3>2
    <3> QED
      BY <2>3, <2>8, <2>11, <3>1, <3>2, <3>3
  <2> HIDE DEF R, L
  <2>12. CASE L \intersect Finished(now) # {}
    <3>1. PICK f : f \in L /\ f \in Finished(now)
      BY <2>12
    <3>2. L = {f}
      BY <1>1, <3>1, LiveOnce DEF L
    <3>3. BytesOf(R') = BytesOf(R) + LiveBytes(q) /\ IsFiniteSet(R')
      BY <2>9, <3>1
    <3>4. q # k => LiveBytes(q)' = 0
      BY <2>3, <2>7, <3>1, <3>2
    <3>5. q = k => LiveBytes(q)' = len
      BY <2>3, <2>4, <2>11, <3>1, <3>2
    <3> QED
      BY <2>1, <2>4, <3>3, <3>4, <3>5 DEF R
  <2>13. CASE L \intersect Finished(now) = {}
    <3>1. BytesOf(R') = BytesOf(R) /\ IsFiniteSet(R')
      BY <2>10, <2>13
    <3>2. LiveBytes(q)' = LiveBytes(q) + b
      <4>1. CASE q = k
        <5>1. e \in L => LiveBytes(q) = Bytes(flow[e])
          BY <2>4
        <5>2. e \notin L => LiveBytes(q) = 0
          <6>1. e \notin L => L = {}
            BY <2>3, <2>13, <4>1
          <6> QED
            BY <6>1, LiveIsSum DEF LiveSum, L
        <5> QED
          BY <2>4, <2>11, <4>1, <5>1, <5>2
      <4>2. CASE q # k
        <5>1. L' = L
          BY <2>3, <2>13, <4>2
        <5>2. CASE L = {}
          BY <2>4, <2>7, <4>2, <5>1, <5>2, LiveIsSum DEF LiveSum, L
        <5>3. CASE L # {}
          <6>1. PICK f : f \in L
            BY <5>3
          <6>2. f \in FlowId /\ flow[f] # NoFlow /\ flow[f].key = q /\ L = {f}
            BY <1>1, <6>1, LiveOnce DEF L, Live
          <6>3. f # e
            BY <1>5, <4>2, <6>2 DEF Accounted, Live
          <6>4. flow'[f] # NoFlow
            BY <5>1, <6>1 DEF L, Live
          <6>5. Bytes(flow'[f]) = Bytes(flow[f])
            BY <1>5, <6>2, <6>3, <6>4 DEF Untouched, Bytes
          <6>6. LiveBytes(q)' = Bytes(flow[f])
            BY <2>4, <2>8, <5>1, <6>1, <6>2, <6>5
          <6> QED
            BY <2>4, <4>2, <6>1, <6>6
        <5> QED
          BY <5>2, <5>3
      <4> QED
        BY <4>1, <4>2
    <3> QED
      BY <2>1, <2>4, <3>1, <3>2 DEF R
  <2> QED
    BY <2>12, <2>13
<1>13. Counted'
  BY <1>10, <1>11, <1>12 DEF Counted
<1>14. BytesConserved'
  BY <1>12 DEF BytesConserved
<1> QED
  BY <1>9, <1>13, <1>14

(* The other steps: deletion counts nothing and reports nothing.           *)
LEMMA DestroyKeepsBytes ==
  ASSUME BytesInv, Destroy
  PROVE  FlowsApart' /\ Counted' /\ BytesConserved'
<1>1. /\ log' = log /\ lastTs' = lastTs /\ ~alive'
      /\ \A f \in FlowId : flow'[f] # NoFlow => flow'[f] = flow[f]
  BY DEF Destroy
<1>2. FlowsApart /\ Counted
  BY DEF BytesInv
<1>3. \A k : Reported(k)' = Reported(k) /\ Live(k)' \subseteq Live(k)
             /\ ReportedBytes(k)' = ReportedBytes(k)
  BY <1>1 DEF Reported, Live, ReportedBytes
<1>4. FlowsApart'
  BY <1>1, <1>2, <1>3 DEF FlowsApart, Live
<1>5. Counted'
  BY <1>1, <1>2, <1>3 DEF Counted
<1> QED
  BY <1>1, <1>4, <1>5 DEF BytesConserved

(* The books depend on the variables only.                                 *)
LEMMA StutterKeepsBytes ==
  ASSUME BytesInv, UNCHANGED vars
  PROVE  FlowsApart' /\ Counted' /\ BytesConserved'
<1>1. /\ flow' = flow /\ log' = log /\ lastTs' = lastTs /\ updateMap' = updateMap
      /\ alive' = alive
  BY DEF vars
<1>2. \A k : /\ Reported(k)' = Reported(k) /\ Live(k)' = Live(k)
             /\ ReportedBytes(k)' = ReportedBytes(k)
  BY <1>1 DEF Reported, Live, ReportedBytes
<1>3. ASSUME NEW k \in Key, alive PROVE LiveBytes(k)' = LiveBytes(k)
  <2>1. LiveSum'
    BY LiveIsSum, PTL
  <2>2. CASE Live(k) = {}
    BY <1>2, <2>1, <2>2, LiveIsSum DEF LiveSum
  <2>3. CASE Live(k) # {}
    <3>1. PICK f : f \in Live(k)
      BY <2>3
    <3>2. f \in FlowId /\ Live(k) = {f} /\ LiveBytes(k) = Bytes(flow[f]) /\ Bytes(flow[f]) \in Nat
      BY <1>3, <3>1, LiveCounted
    <3> QED
      BY <1>1, <1>2, <2>1, <3>2 DEF LiveSum
  <2> QED
    BY <2>2, <2>3
<1> QED
  BY <1>1, <1>2, <1>3 DEF BytesInv, FlowsApart, Counted, BytesConserved

(* Nothing received, nothing reported.                                     *)
LEMMA InitConservesBytes == Init => FlowsApart /\ Counted /\ BytesConserved
<1> SUFFICES ASSUME Init PROVE FlowsApart /\ Counted /\ BytesConserved
  OBVIOUS
<1>1. /\ log = {} /\ \A f \in FlowId : flow[f] = NoFlow
      /\ \A k \in Key : updateMap[k] = 0
  BY DEF Init
<1>2. \A k \in Key : Reported(k) = {} /\ Live(k) = {}
  BY <1>1 DEF Reported, Live
<1>3. \A k \in Key : ReportedBytes(k) = 0 /\ LiveBytes(k) = 0 /\ IsFiniteSet(Reported(k))
  BY <1>2, BytesOfNone, FS_EmptySet, LiveIsSum DEF ReportedBytes, BytesOf, LiveSum
<1> QED
  BY <1>1, <1>3 DEF FlowsApart, Counted, BytesConserved

(* While no counter overflows and no flow is lost, the reports, the live   *)
(* flows and update_map_ stay in step, packet by packet.                   *)
THEOREM BooksKept ==
  ASSUME Timeout + MaxLag < Slots, MaxLag <= Timeout, MaxBytes <= MaxInt
  PROVE  Spec => []BytesInv
<1>1. Init => BytesInv
  BY InitEstablishesFlowInv, InitConservesBytes DEF BytesInv, Init, NoFlowLost
<1>2. ASSUME BytesInv, [Next]_vars PROVE BytesInv'
  <2>1. FlowInv /\ NoFlowLost
    BY <1>2 DEF BytesInv
  <2>2. FlowInv'
    BY <1>2, <2>1, RecvKeepsFlowInv, DestroyKeepsFlowInv, StutterKeepsFlowInv DEF Next
  <2>3. NoFlowLost'
    BY <1>2, <2>1, NoFlowLostKept
  <2>4. FlowsApart' /\ Counted' /\ BytesConserved'
    BY <1>2, RecvKeepsBytes, DestroyKeepsBytes, StutterKeepsBytes DEF Next
  <2> QED
    BY <2>2, <2>3, <2>4 DEF BytesInv
<1> QED
  BY <1>1, <1>2, PTL DEF Spec

(* Whatever the order of the packets, flow.log and the table account for   *)
(* every byte received, once: provided no packet lags so far behind the    *)
(* newest that a renewal misses the wheel or a session's next flow could   *)
(* be as old as its last one, and no session counts more than an int holds *)
(* (the run flow_int shows what happens when one does).                    *)
THEOREM EveryByteAccounted ==
  ASSUME Timeout + MaxLag < Slots, MaxLag <= Timeout, MaxBytes <= MaxInt
  PROVE  Spec => []BytesConserved
<1>1. BytesInv => BytesConserved
  BY DEF BytesInv
<1> QED
  BY <1>1, BooksKept, PTL

=============================================================================
