--------------------------- MODULE FlowRecvProofs ---------------------------
(***************************************************************************)
(* The table calls of ModFlow::recv() and ~ModFlow() come to the atomic    *)
(* Recv and Destroy of ModFlow.tla, for all constants, and between two of  *)
(* those calls no flow is lost or reached after its deletion.  What is     *)
(* known of ModFlow is used through an instance of its proofs, at the      *)
(* state that is seen between calls.                                       *)
(***************************************************************************)
EXTENDS FlowRecv, TableSeqProofs

P == INSTANCE ModFlowProofs
       WITH lastTs <- Shown.lastTs, tick <- Shown.tick, flow <- Shown.flow,
            due <- Shown.due, updateMap <- Shown.updateMap,
            log <- Shown.log, alive <- Shown.alive

(* Atomic and P instantiate the same definitions alike.                    *)
LEMMA SameOperators ==
  ASSUME NEW ts, NEW now, NEW f
  PROVE  /\ Atomic!Elapsed(ts) = P!Elapsed(ts)
         /\ Atomic!Remain(f) = P!Remain(f)
         /\ Atomic!Lapsed(now) = P!Lapsed(now)
         /\ Atomic!Renewed(now) = P!Renewed(now)
         /\ Atomic!TakenBack(now) = P!TakenBack(now)
         /\ Atomic!Finished(now) = P!Finished(now)
         /\ Atomic!SweptDue(now) = P!SweptDue(now)
         /\ Atomic!SweptFlow(now, ts) = P!SweptFlow(now, ts)
BY DEF Atomic!Elapsed, P!Elapsed, Atomic!Remain, P!Remain, Atomic!Lapsed, P!Lapsed,
       Atomic!Renewed, P!Renewed, Atomic!TakenBack, P!TakenBack, Atomic!Finished, P!Finished,
       Atomic!SweptDue, P!SweptDue, Atomic!SweptFlow, P!SweptFlow, Atomic!NotIn, P!NotIn

(* ModFlow and the instance that ModFlowProofs is talking of are the same  *)
(* specification: their definitions agree one by one.                      *)
LEMMA SameFlow == P!Flow = Flow /\ P!NotIn = NotIn
BY DEF P!Flow, Flow, P!Dir, Dir, P!NotIn, NotIn

(* Their invariants are the same formula ...                               *)
LEMMA SameInv == Atomic!FlowInv <=> P!FlowInv
BY DEF Atomic!FlowInv, P!FlowInv, Atomic!TypeOK, P!TypeOK, Atomic!NothingYet, P!NothingYet,
       Atomic!NodesAreFlows, P!NodesAreFlows, Atomic!LeaseBounded, P!LeaseBounded,
       Atomic!LeaseLongEnough, P!LeaseLongEnough, Atomic!OneFlowPerKey, P!OneFlowPerKey,
       Atomic!Flow, P!Flow, Atomic!Dir, P!Dir, Atomic!NotIn, P!NotIn

(* ... and so are their steps ...                                          *)
LEMMA SameNext == Atomic!Next <=> P!Next
BY DEF Atomic!Next, P!Next, Atomic!Recv, P!Recv, Atomic!Destroy, P!Destroy, Atomic!Known, P!Known,
       Atomic!New, P!New, Atomic!Found, P!Found, Atomic!Logged, P!Logged, Atomic!Updated, P!Updated,
       Atomic!NewFlow, P!NewFlow, Atomic!ToInt, P!ToInt, Atomic!Dir, P!Dir,
       Atomic!Elapsed, P!Elapsed, Atomic!Remain, P!Remain, Atomic!Lapsed, P!Lapsed,
       Atomic!Renewed, P!Renewed, Atomic!TakenBack, P!TakenBack, Atomic!Finished, P!Finished,
       Atomic!SweptDue, P!SweptDue, Atomic!SweptFlow, P!SweptFlow, Atomic!NotIn, P!NotIn

(* ... and initial states.                                                 *)
LEMMA SameInit == (Atomic!Init <=> P!Init) /\ Atomic!vars = P!vars
BY DEF Atomic!Init, P!Init, Atomic!vars, P!vars, Atomic!Dir, P!Dir, Atomic!NotIn, P!NotIn

-----------------------------------------------------------------------------
(* What the table's operations do to the chains.                           *)
ChainsOk ==
  /\ byKey \in [Key -> Seq(FlowId)]
  /\ \A k \in Key : \A i \in DOMAIN byKey[k] :
       KeyOf[byKey[k][i]] = k /\ due[byKey[k][i]] # NotIn
  /\ \A f \in FlowId :
       due[f] # NotIn => \E i \in DOMAIN byKey[KeyOf[f]] : byKey[KeyOf[f]][i] = f

(* The table filters its chains as TableSeq does.                          *)
LEMMA SameSift == ASSUME NEW s, NEW S PROVE Table!Sift(s, S) = Sift(s, S)
BY DEF Table!Sift, Sift

(* prog() takes expired flows out of the chains and the slots alike.       *)
LEMMA ExpireChains ==
  ASSUME ChainsOk, NEW S, Table!Expire(S)
  PROVE  ChainsOk'
<1> DEFINE R == FlowId \ S
<1>1. /\ byKey' = [k \in Key |-> Sift(byKey[k], R)]
      /\ due' = [f \in FlowId |-> IF f \in S THEN NotIn ELSE due[f]]
  BY SameSift DEF Table!Expire, Table!NotIn, NotIn
<1> HIDE DEF R
<1>2. ASSUME NEW k \in Key
      PROVE  /\ byKey'[k] \in Seq(FlowId)
             /\ \A i \in DOMAIN byKey'[k] :
                  /\ byKey'[k][i] \in R
                  /\ \E j \in DOMAIN byKey[k] : byKey[k][j] = byKey'[k][i]
             /\ \A j \in DOMAIN byKey[k] : byKey[k][j] \in R =>
                  \E i \in DOMAIN byKey'[k] : byKey'[k][i] = byKey[k][j]
  <2>1. byKey'[k] = Sift(byKey[k], R) /\ byKey[k] \in Seq(FlowId)
    BY <1>1 DEF ChainsOk
  <2> QED
    BY <2>1, SiftElements
<1>3. byKey' \in [Key -> Seq(FlowId)]
  BY <1>1, <1>2
<1>4. ASSUME NEW k \in Key, NEW i \in DOMAIN byKey'[k]
      PROVE  KeyOf[byKey'[k][i]] = k /\ due'[byKey'[k][i]] # NotIn
  <2>1. PICK j \in DOMAIN byKey[k] : byKey[k][j] = byKey'[k][i]
    BY <1>2
  <2>2. KeyOf[byKey[k][j]] = k /\ due[byKey[k][j]] # NotIn
    BY DEF ChainsOk
  <2>3. byKey'[k][i] \in FlowId /\ byKey'[k][i] \notin S
    BY <1>2 DEF R
  <2> QED
    BY <1>1, <2>1, <2>2, <2>3
<1>5. ASSUME NEW f \in FlowId, due'[f] # NotIn
      PROVE  \E i \in DOMAIN byKey'[KeyOf[f]] : byKey'[KeyOf[f]][i] = f
  <2>1. f \in R /\ due[f] # NotIn
    BY <1>1, <1>5 DEF R
  <2>2. PICK j \in DOMAIN byKey[KeyOf[f]] : byKey[KeyOf[f]][j] = f
    BY <2>1 DEF ChainsOk
  <2>3. KeyOf[f] \in Key
    BY FlowRecvAssumption
  <2> QED
    BY <1>2, <2>1, <2>2, <2>3
<1> QED
  BY <1>3, <1>4, <1>5 DEF ChainsOk

(* put() files a flow in its session's chain and in a slot.                *)
LEMMA PutChains ==
  ASSUME ChainsOk, NEW n \in FlowId, NEW ttl \in Nat, Table!Put(n, ttl), tick \in Nat,
         due \in [FlowId -> Nat \union {NotIn}]
  PROVE  ChainsOk'
<1>1. CASE ttl < Slots
  <2> DEFINE k == KeyOf[n]
             c == <<n>> \o byKey[k]
  <2>1. /\ byKey' = [byKey EXCEPT ![k] = c]
        /\ due' = [due EXCEPT ![n] = tick + ttl]
    BY <1>1 DEF Table!Put
  <2>2. k \in Key /\ byKey[k] \in Seq(FlowId)
    BY FlowRecvAssumption DEF ChainsOk
  <2>3. /\ c \in Seq(FlowId) /\ DOMAIN c = 1..(Len(byKey[k]) + 1) /\ c[1] = n
        /\ DOMAIN byKey[k] = 1..Len(byKey[k]) /\ Len(byKey[k]) \in Nat
        /\ \A i \in DOMAIN c : i # 1 => i - 1 \in DOMAIN byKey[k] /\ c[i] = byKey[k][i - 1]
        /\ \A j \in DOMAIN byKey[k] : j + 1 \in DOMAIN c /\ c[j + 1] = byKey[k][j]
    BY <2>2
  <2> HIDE DEF c
  <2>4. byKey' \in [Key -> Seq(FlowId)] /\ byKey'[k] = c
        /\ \A m \in Key : m # k => byKey'[m] = byKey[m]
    BY <2>1, <2>2, <2>3 DEF ChainsOk
  <2>5. due'[n] # NotIn /\ due'[n] = tick + ttl /\ \A f \in FlowId : f # n => due'[f] = due[f]
    <3>1. tick + ttl # NotIn
      BY DEF NotIn
    <3> QED
      BY <2>1, <3>1
  <2>6. ASSUME NEW m \in Key, NEW i \in DOMAIN byKey'[m]
        PROVE  KeyOf[byKey'[m][i]] = m /\ due'[byKey'[m][i]] # NotIn
    <3>1. byKey'[m][i] \in FlowId
      BY <2>4
    <3>2. CASE m = k /\ i = 1
      BY <2>3, <2>4, <2>5, <3>2
    <3>3. CASE m = k /\ i # 1
      <4>1. i - 1 \in DOMAIN byKey[k] /\ byKey'[m][i] = byKey[k][i - 1]
        BY <2>3, <2>4, <3>3
      <4> QED
        BY <2>2, <2>5, <3>1, <3>3, <4>1 DEF ChainsOk
    <3>4. CASE m # k
      BY <2>4, <2>5, <3>1, <3>4 DEF ChainsOk
    <3> QED
      BY <3>2, <3>3, <3>4
  <2>7. ASSUME NEW f \in FlowId, due'[f] # NotIn
        PROVE  \E i \in DOMAIN byKey'[KeyOf[f]] : byKey'[KeyOf[f]][i] = f
    <3>1. CASE f = n
      <4>1. 1 \in DOMAIN c /\ c[1] = n
        BY <2>3
      <4> QED
        BY <2>4, <3>1, <4>1
    <3>2. CASE f # n
      <4>1. PICK j \in DOMAIN byKey[KeyOf[f]] : byKey[KeyOf[f]][j] = f
        BY <2>5, <2>7, <3>2 DEF ChainsOk
      <4>2. KeyOf[f] \in Key
        BY FlowRecvAssumption
      <4>3. CASE KeyOf[f] = k
        <5>1. j + 1 \in DOMAIN c /\ c[j + 1] = f
          BY <2>3, <4>1, <4>3
        <5> QED
          BY <2>4, <4>3, <5>1
      <4>4. CASE KeyOf[f] # k
        BY <2>4, <4>1, <4>2, <4>4
      <4> QED
        BY <4>3, <4>4
    <3> QED
      BY <3>1, <3>2
  <2> QED
    BY <2>4, <2>6, <2>7 DEF ChainsOk
<1>2. CASE ~(ttl < Slots)
  <2>1. byKey' = byKey /\ due' = due
    BY <1>2 DEF Table!Put
  <2> QED
    BY <2>1 DEF ChainsOk
<1> QED
  BY <1>1, <1>2

(* A step that does not touch the table keeps the chains.                  *)
LEMMA SameChains ==
  ASSUME ChainsOk, byKey' = byKey, due' = due
  PROVE  ChainsOk'
BY DEF ChainsOk

-----------------------------------------------------------------------------
(* What ModFlow's lemmas say of the sweep that a call carries out.         *)
InCall == pc \in {"sweep", "lapsed", "lookup", "create", "account"}

(* During a call, the state seen from outside is the one before the call.  *)
LEMMA ShownInCall == pc # "idle" => Shown = atCall
BY DEF Shown

(* The parts of Seen, named.                                               *)
LEMMA SeenFields ==
  /\ Seen.lastTs = lastTs /\ Seen.tick = tick /\ Seen.flow = flow /\ Seen.due = due
  /\ Seen.updateMap = updateMap /\ Seen.log = log /\ Seen.alive = alive
BY DEF Seen

(* The parts of ToBe are what ModFlow computes of the state the call began *)
(* in.                                                                     *)
LEMMA ToBeFields ==
  /\ ToBe.tick = Shown.tick + Atomic!Elapsed(packet.ts)
  /\ ToBe.lapsed = Atomic!Lapsed(tick) /\ ToBe.finished = Atomic!Finished(tick)
  /\ ToBe.flow = Atomic!SweptFlow(tick, packet.ts) /\ ToBe.due = Atomic!SweptDue(tick)
  /\ ToBe.found = Atomic!Found(packet.key, tick)
BY DEF ToBe

(* The state the call began with is well-typed.                            *)
LEMMA ShownTypes ==
  ASSUME Atomic!FlowInv
  PROVE  /\ Shown.lastTs \in Time \union {0} /\ Shown.tick \in Nat
         /\ Shown.flow \in [FlowId -> Flow \union {NoFlow}]
         /\ Shown.due \in [FlowId -> Nat \union {NotIn}]
         /\ Shown.updateMap \in [Key -> Nat] /\ Shown.log \subseteq Flow
         /\ Shown.alive \in BOOLEAN
         /\ \A f \in FlowId : Shown.due[f] # NotIn => Shown.flow[f] # NoFlow
BY DEF Atomic!FlowInv, Atomic!TypeOK, Atomic!NodesAreFlows, Atomic!Flow, Flow, Atomic!Dir, Dir,
       Atomic!NotIn, NotIn

(* Packet times are natural numbers.                                       *)
LEMMA TimeNat == ASSUME NEW t \in Time \union {0} PROVE t \in Nat
BY ModFlowAssumption

(* The sweep's result, cell by cell.                                       *)
LEMMA ToBeCells ==
  ASSUME NEW f \in FlowId
  PROVE  /\ f \in ToBe.lapsed <=> Shown.due[f] # NotIn /\ Shown.due[f] < tick
         /\ f \in ToBe.finished <=> f \in ToBe.lapsed /\ ~(Atomic!Remain(f) > 0)
         /\ ToBe.flow[f] = IF f \in ToBe.finished THEN NoFlow
                           ELSE IF f \in ToBe.lapsed
                                  THEN [Shown.flow[f] EXCEPT !.refreshed = packet.ts]
                           ELSE Shown.flow[f]
         /\ ToBe.due[f] = IF f \in ToBe.lapsed
                            THEN IF Atomic!Remain(f) > 0 /\ Atomic!Remain(f) < Slots
                                   THEN tick + Atomic!Remain(f) ELSE NotIn
                          ELSE Shown.due[f]
<1>1. /\ f \in Atomic!Lapsed(tick) <=> Shown.due[f] # NotIn /\ Shown.due[f] < tick
      /\ f \in Atomic!Renewed(tick) <=> f \in Atomic!Lapsed(tick) /\ Atomic!Remain(f) > 0
      /\ f \in Atomic!TakenBack(tick) <=> f \in Atomic!Renewed(tick) /\ Atomic!Remain(f) < Slots
      /\ f \in Atomic!Finished(tick) <=> f \in Atomic!Lapsed(tick) /\ f \notin Atomic!Renewed(tick)
  BY DEF Atomic!Lapsed, Atomic!Renewed, Atomic!TakenBack, Atomic!Finished, Atomic!NotIn, NotIn
<1>2. Atomic!SweptFlow(tick, packet.ts)[f] =
        IF f \in Atomic!Finished(tick) THEN NoFlow
        ELSE IF f \in Atomic!Renewed(tick) THEN [Shown.flow[f] EXCEPT !.refreshed = packet.ts]
        ELSE Shown.flow[f]
  BY DEF Atomic!SweptFlow
<1>3. Atomic!SweptDue(tick)[f] =
        IF f \in Atomic!TakenBack(tick) THEN tick + Atomic!Remain(f)
        ELSE IF f \in Atomic!Lapsed(tick) THEN NotIn ELSE Shown.due[f]
  BY DEF Atomic!SweptDue, Atomic!NotIn, NotIn
<1> QED
  BY <1>1, <1>2, <1>3, ToBeFields

(* The types of ToBe, and what the sweep can have done to one cell.        *)
LEMMA ToBeTypes ==
  ASSUME Atomic!FlowInv, packet \in Packet, tick = ToBe.tick, NEW f \in FlowId
  PROVE  /\ tick \in Nat
         /\ ToBe.due[f] \in Nat \union {NotIn} /\ ToBe.flow[f] \in Flow \union {NoFlow}
         /\ Shown.flow[f] = NoFlow => ToBe.flow[f] = NoFlow /\ ToBe.due[f] = NotIn
         /\ ToBe.flow[f] # NoFlow =>
              Shown.flow[f] # NoFlow /\ ToBe.flow[f].key = Shown.flow[f].key
         /\ ToBe.due[f] # NotIn => Shown.due[f] # NotIn /\ ToBe.flow[f] # NoFlow
<1>1. packet.ts \in Time
  BY DEF Packet
<1>2. tick = Shown.tick + P!Elapsed(packet.ts)
  BY SameOperators, ToBeFields
<1>3. P!FlowInv
  BY SameInv
<1>4. tick \in Nat
  <2>1. Shown.tick \in Nat /\ Shown.lastTs \in Nat /\ packet.ts \in Nat
    BY <1>1, ShownTypes, TimeNat
  <2> QED
    BY <1>2, <2>1 DEF P!Elapsed
<1>5. P!Flow = Flow /\ P!NotIn = NotIn
  BY SameFlow
<1> PICK ts \in Time, now \in Nat : ts = packet.ts /\ now = tick
  BY <1>1, <1>4
<1>6. now = Shown.tick + P!Elapsed(ts)
  BY <1>2
<1>7. /\ P!SweptDue(now)[f] \in Nat \union {NotIn}
      /\ P!SweptFlow(now, ts)[f] \in Flow \union {NoFlow}
      /\ Shown.flow[f] = NoFlow => P!SweptFlow(now, ts)[f] = NoFlow /\ P!SweptDue(now)[f] = NotIn
      /\ P!SweptFlow(now, ts)[f] # NoFlow =>
           Shown.flow[f] # NoFlow /\ P!SweptFlow(now, ts)[f].key = Shown.flow[f].key
      /\ P!SweptDue(now)[f] # NotIn => Shown.due[f] # NotIn /\ P!SweptFlow(now, ts)[f] # NoFlow
  BY <1>3, <1>5, <1>6, P!SweepFacts, ModFlowAssumption
<1>8. ToBe.due = P!SweptDue(now) /\ ToBe.flow = P!SweptFlow(now, ts)
  BY ToBeFields, SameOperators
<1> QED
  BY <1>4, <1>7, <1>8

(* Nothing of it changes while neither the clock nor what is shown does.   *)
LEMMA ToBeSame ==
  ASSUME Shown' = Shown, packet' = packet, tick' = tick
  PROVE  ToBe' = ToBe
BY DEF ToBe, Atomic!Elapsed, Atomic!Lapsed, Atomic!Finished, Atomic!Renewed, Atomic!TakenBack,
       Atomic!Remain, Atomic!SweptFlow, Atomic!SweptDue, Atomic!Found, Atomic!NotIn

(* A step that is not seen from outside keeps what holds of the outside.   *)
LEMMA AtomicInvSame ==
  ASSUME Atomic!FlowInv, Shown' = Shown
  PROVE  Atomic!FlowInv'
BY DEF Atomic!FlowInv, Atomic!TypeOK, Atomic!NothingYet, Atomic!NodesAreFlows,
       Atomic!LeaseBounded, Atomic!LeaseLongEnough, Atomic!OneFlowPerKey

-----------------------------------------------------------------------------
(* A step inside a call: what is shown stays, and the sweep it works for.  *)
SameCall ==
  /\ pc # "idle" /\ pc' # "idle" /\ atCall' = atCall /\ packet' = packet

(* A step within a call is not seen from outside.                          *)
LEMMA ShownSame ==
  ASSUME SameCall
  PROVE  Shown' = Shown /\ Shown = atCall
BY DEF SameCall, Shown

(* A step within a call does not change what the call will have done.      *)
LEMMA SweepSame ==
  ASSUME SameCall, tick' = tick
  PROVE  ToBe' = ToBe
BY ShownSame, ToBeSame DEF SameCall

(* remain() of a flow the call has not touched is what it was at the       *)
(* start.                                                                  *)
LEMMA RemainSame ==
  ASSUME NEW f \in FlowId, flow[f] = Shown.flow[f]
  PROVE  Remain(f) = Atomic!Remain(f)
BY DEF Remain, Atomic!Remain

(* The parts of CallInv that a step inside the sweep has to keep, in terms *)
(* of what it does to the cells.                                           *)
LEMMA SweepStepKeeps ==
  ASSUME CallInv, InCall, InCall', SameCall, tick' = tick, lastTs' = lastTs,
         updateMap' = updateMap, alive' = alive,
         ChainsOk', expired' \subseteq FlowId,
         \A f \in FlowId : InHands(f)' => due'[f] = NotIn,
         flow' \in [FlowId -> Flow \union {NoFlow}], due' \in [FlowId -> Nat \union {NotIn}],
         pc' \in {"lookup", "create", "account"} => expired' = {},
         log' = atCall.log \union {atCall.flow[f] : f \in {g \in ToBe.finished : ~InHands(g)'}},
         \A f \in FlowId :
           IF InHands(f)' THEN f \in ToBe.lapsed /\ flow'[f] = atCall.flow[f]
           ELSE \/ flow'[f] = ToBe.flow[f] /\ due'[f] = ToBe.due[f]
                \/ pc' = "account" /\ found' = f /\ Opening(f, ToBe)',
         pc' = "lapsed" => ret' \in FlowId /\ ret' \notin expired',
         pc' = "create" => ToBe.found = {},
         pc' = "account" => found' \in FlowId /\ (found' \in ToBe.found \/ Opening(found, ToBe)')
  PROVE  CallInv'
<1>1. Shown' = Shown /\ Shown = atCall /\ ToBe' = ToBe
  BY ShownSame, SweepSame
<1>2. Atomic!FlowInv'
  BY <1>1, AtomicInvSame DEF CallInv
<1>3. Shape'
  BY DEF CallInv, Shape, InCall, SameCall, ChainsOk
<1>4. ChainsMatch'
  <2>1. \A f \in FlowId : Shown'.flow[f] # NoFlow => Shown'.flow[f].key = KeyOf[f]
    BY <1>1 DEF CallInv, ChainsMatch
  <2> QED
    BY <2>1 DEF ChainsMatch, ChainsOk
<1>5. AtRest' /\ NotBegun' /\ InDrain'
  BY DEF InCall, AtRest, NotBegun, InDrain
<1>6. InSweep'
  <2>1. /\ tick = ToBe.tick
        /\ lastTs = IF atCall.lastTs < packet.ts THEN packet.ts ELSE atCall.lastTs
        /\ updateMap = atCall.updateMap
    BY DEF CallInv, InSweep, InCall
  <2>2. \A f \in FlowId :
         IF InHands(f)' THEN Waiting(f, ToBe)'
         ELSE Swept(f, ToBe)' \/ (pc' = "account" /\ found' = f /\ Opening(f, ToBe)')
    BY <1>1 DEF Waiting, Swept, SameCall
  <2> QED
    BY <1>1, <2>1, <2>2 DEF InSweep, SameCall
<1> QED
  BY <1>2, <1>3, <1>4, <1>5, <1>6 DEF CallInv

-----------------------------------------------------------------------------
(* Each step keeps the invariant.                                          *)
LEMMA ChainsOfInv == ASSUME CallInv PROVE ChainsOk
BY DEF CallInv, Shape, ChainsMatch, ChainsOk

(* What CallInv says of a step inside the sweep, with the types it needs.  *)
LEMMA InCallFacts ==
  ASSUME CallInv, InCall
  PROVE  /\ Atomic!FlowInv /\ ChainsOk /\ Shown = atCall
         /\ packet \in Packet /\ tick = ToBe.tick /\ tick \in Nat
         /\ flow \in [FlowId -> Flow \union {NoFlow}]
         /\ due \in [FlowId -> Nat \union {NotIn}]
         /\ expired \subseteq FlowId
         /\ \A f \in FlowId : InHands(f) => Waiting(f, ToBe)
         /\ pc # "account" => \A f \in FlowId : ~InHands(f) => Swept(f, ToBe)
         /\ log = atCall.log \union {atCall.flow[f] : f \in {g \in ToBe.finished : ~InHands(g)}}
<1>1. /\ Atomic!FlowInv /\ Shown = atCall /\ packet \in Packet /\ tick = ToBe.tick
      /\ flow \in [FlowId -> Flow \union {NoFlow}]
      /\ due \in [FlowId -> Nat \union {NotIn}]
      /\ expired \subseteq FlowId
      /\ log = atCall.log \union {atCall.flow[f] : f \in {g \in ToBe.finished : ~InHands(g)}}
  BY ShownInCall DEF CallInv, Shape, InSweep, InCall
<1>2. tick \in Nat
  <2>1. packet.ts \in Nat /\ Shown.lastTs \in Nat /\ Shown.tick \in Nat
    BY <1>1, ShownTypes, TimeNat DEF Packet
  <2> QED
    BY <1>1, <2>1, ToBeFields DEF Atomic!Elapsed
<1>3. \A f \in FlowId : InHands(f) => Waiting(f, ToBe)
  BY DEF CallInv, InSweep, InCall
<1>4. pc # "account" => \A f \in FlowId : ~InHands(f) => Swept(f, ToBe)
  BY DEF CallInv, InSweep, InCall
<1> QED
  BY <1>1, <1>2, <1>3, <1>4, ChainsOfInv

(* Between two calls there is nothing to say but that the table and the    *)
(* flows agree.                                                            *)
LEMMA IdleHolds ==
  ASSUME pc = "idle", Atomic!FlowInv, ChainsOk, expired = {},
         \A f \in FlowId : flow[f] # NoFlow => flow[f].key = KeyOf[f]
  PROVE  CallInv
<1>1. Shown = Seen
  BY DEF Shown
<1>2. Shown.flow = flow
  BY <1>1, SeenFields
<1>3. ChainsMatch
  BY <1>2 DEF ChainsOk, ChainsMatch, InHands
<1> QED
  BY <1>3 DEF ChainsOk, CallInv, Shape, AtRest, NotBegun, InSweep, InDrain

(* After the last step of a call, only the outside and the chains matter.  *)
LEMMA IdleHoldsNext ==
  ASSUME pc' = "idle", Atomic!FlowInv', ChainsOk', expired' = {},
         \A f \in FlowId : flow'[f] # NoFlow => flow'[f].key = KeyOf[f]
  PROVE  CallInv'
<1>1. Shown' = Seen'
  BY DEF Shown
<1>2. Shown'.flow = flow'
  BY <1>1 DEF Seen
<1>3. ChainsMatch'
  BY <1>2 DEF ChainsOk, ChainsMatch, InHands
<1> QED
  BY <1>3 DEF ChainsOk, CallInv, Shape, AtRest, NotBegun, InSweep, InDrain

(* The state of the constructed module is at rest.                         *)
LEMMA InitHolds == CallInit => CallInv
<1> SUFFICES ASSUME CallInit PROVE CallInv
  OBVIOUS
<1>1. Shown = Seen /\ pc = "idle" /\ expired = {} /\ Init
  BY DEF CallInit, Shown, Table!Init
<1>2. Atomic!Init
  BY <1>1, SeenFields DEF Init, Atomic!Init, Atomic!Dir, Dir, NotIn, Atomic!NotIn
<1>3. Atomic!FlowInv
  <2>1. P!Init
    BY <1>2, SameInit
  <2>2. P!Init => P!FlowInv
    BY SameFlow, ModFlowAssumption, P!InitEstablishesFlowInv
  <2> QED
    BY <2>1, <2>2, SameInv
<1>4. ChainsOk
  <2>1. byKey = [k \in Key |-> <<>>] /\ due = [f \in FlowId |-> NotIn]
    BY DEF CallInit, Table!Init, Init
  <2>2. <<>> \in Seq(FlowId) /\ DOMAIN <<>> = {}
    BY EmptySeq
  <2> QED
    BY <2>1, <2>2 DEF ChainsOk
<1>5. \A f \in FlowId : flow[f] = NoFlow
  BY <1>1 DEF Init
<1> QED
  BY <1>1, <1>3, <1>4, <1>5, IdleHolds

(* A call begins with what is shown.                                       *)
LEMMA CallKeeps ==
  ASSUME CallInv, NEW p \in Packet, Call(p)
  PROVE  CallInv' /\ Shown' = Shown
<1>1. /\ pc = "idle" /\ alive /\ pc' = "clock" /\ packet' = p /\ atCall' = Seen
      /\ UNCHANGED <<state, byKey, expired, ret, found>>
      /\ p.ts >= lastTs - MaxLag /\ updateMap[p.key] + p.len <= MaxBytes
  BY DEF Call
<1>2. Shown = Seen /\ Shown' = Seen
  BY <1>1 DEF Shown
<1>3. Atomic!FlowInv'
  BY <1>2, AtomicInvSame DEF CallInv
<1>4. Shape'
  <2>1. alive = TRUE
    BY <1>1, <1>2, ShownTypes, SeenFields DEF CallInv
  <2> QED
    BY <1>1, <2>1, SeenFields DEF CallInv, Shape, state
<1>5. ChainsMatch'
  <2>1. ChainsOk'
    BY <1>1, ChainsOfInv, SameChains DEF state
  <2>2. \A f \in FlowId : Shown'.flow[f] # NoFlow => Shown'.flow[f].key = KeyOf[f]
    BY <1>2 DEF CallInv, ChainsMatch
  <2>3. expired' = {} /\ \A f \in FlowId : ~InHands(f)'
    BY <1>1 DEF CallInv, AtRest, InHands
  <2> QED
    BY <2>1, <2>2, <2>3 DEF ChainsMatch, ChainsOk
<1>6. AtRest'
  BY <1>1 DEF CallInv, AtRest
<1>7. NotBegun'
  <2>1. Seen' = Seen
    BY <1>1 DEF Seen, state
  <2> QED
    BY <1>1, <2>1 DEF NotBegun
<1>8. InSweep' /\ InDrain'
  BY <1>1 DEF InSweep, InDrain
<1> QED
  BY <1>2, <1>3, <1>4, <1>5, <1>6, <1>7, <1>8 DEF CallInv

(* What remains to be shown of a step that stays in the call.              *)
LEMMA StepKeeps ==
  ASSUME CallInv, SameCall, pc # "drain", InCall', alive' = alive, ChainsOk',
         expired' \subseteq FlowId, \A f \in FlowId : InHands(f)' => due'[f] = NotIn,
         AtRest', InSweep'
  PROVE  CallInv' /\ Shown' = Shown
<1>1. Shown' = Shown
  BY ShownSame
<1>2. Atomic!FlowInv'
  BY <1>1, AtomicInvSame DEF CallInv
<1>3. Shape'
  BY DEF CallInv, Shape, InCall, SameCall, ChainsOk
<1>4. ChainsMatch'
  <2>1. \A f \in FlowId : Shown'.flow[f] # NoFlow => Shown'.flow[f].key = KeyOf[f]
    BY <1>1 DEF CallInv, ChainsMatch
  <2> QED
    BY <2>1 DEF ChainsMatch, ChainsOk
<1>5. NotBegun' /\ InDrain'
  BY DEF InCall, NotBegun, InDrain
<1> QED
  BY <1>1, <1>2, <1>3, <1>4, <1>5 DEF CallInv

(* Before the clock moved, all is as when the call began.                  *)
LEMMA ClockFacts ==
  ASSUME CallInv, pc = "clock"
  PROVE  /\ Atomic!FlowInv /\ Shown = Seen /\ Shown = atCall /\ packet \in Packet
         /\ expired = {} /\ alive
         /\ lastTs \in Nat /\ tick \in Nat /\ packet.ts \in Nat \ {0}
         /\ flow \in [FlowId -> Flow \union {NoFlow}]
         /\ due \in [FlowId -> Nat \union {NotIn}]
<1>1. /\ Atomic!FlowInv /\ Shown = Seen /\ Shown = atCall /\ packet \in Packet
      /\ expired = {} /\ alive
  BY ShownInCall DEF CallInv, Shape, AtRest, NotBegun
<1>2. /\ lastTs \in Time \union {0} /\ tick \in Nat
      /\ flow \in [FlowId -> Flow \union {NoFlow}]
      /\ due \in [FlowId -> Nat \union {NotIn}]
  BY <1>1, SeenFields, ShownTypes
<1>3. packet.ts \in Time
  BY <1>1 DEF Packet
<1> QED
  BY <1>1, <1>2, <1>3, TimeNat, ModFlowAssumption

(* A packet that is not newer has nothing to sweep.                        *)
LEMMA KeepClockKeeps ==
  ASSUME CallInv, KeepClock
  PROVE  CallInv' /\ Shown' = Shown
<1>1. /\ pc = "clock" /\ (lastTs = 0 \/ lastTs >= packet.ts)
      /\ lastTs' = IF lastTs = 0 THEN packet.ts ELSE lastTs
      /\ pc' = "lookup" /\ tick' = tick /\ flow' = flow /\ due' = due
      /\ updateMap' = updateMap /\ log' = log /\ alive' = alive /\ byKey' = byKey
      /\ expired' = expired /\ packet' = packet /\ atCall' = atCall
  BY DEF KeepClock
<1>2. SameCall /\ InCall' /\ Shown' = Shown /\ ToBe' = ToBe
  BY <1>1, ShownSame, SweepSame DEF SameCall, InCall
<1>3. ToBe.tick = tick
  <2>1. Atomic!Elapsed(packet.ts) = 0
    BY <1>1, ClockFacts, SeenFields DEF Atomic!Elapsed
  <2> QED
    BY <1>1, <2>1, ClockFacts, SeenFields, ToBeFields
<1>4. ASSUME NEW f \in FlowId
      PROVE  f \notin ToBe.lapsed /\ f \notin ToBe.finished /\ Swept(f, ToBe)
  <2>1. Shown.due[f] # NotIn => tick <= Shown.due[f]
    BY <1>1, ClockFacts, SeenFields DEF Atomic!FlowInv, Atomic!LeaseBounded, Atomic!NotIn, NotIn
  <2>2. Shown.due[f] \in Nat \union {NotIn} /\ tick \in Nat
    BY <1>1, ClockFacts, SeenFields
  <2>3. f \in ToBe.lapsed => Shown.due[f] # NotIn /\ Shown.due[f] < tick
    BY ToBeCells
  <2>4. f \notin ToBe.lapsed
    BY <2>1, <2>2, <2>3
  <2> QED
    BY <1>1, <2>4, ToBeCells, ClockFacts, SeenFields DEF Swept
<1>5. InSweep'
  <2>1. lastTs' = IF atCall.lastTs < packet.ts THEN packet.ts ELSE atCall.lastTs
    BY <1>1, ClockFacts, SeenFields
  <2>2. {atCall.flow[f] : f \in {g \in ToBe.finished : ~InHands(g)'}} = {}
    <3>1. ToBe.finished \subseteq FlowId
      BY ToBeFields DEF Atomic!Finished, Atomic!Lapsed
    <3> QED
      BY <1>4, <3>1
  <2>3. log' = atCall.log \union {}
    BY <1>1, ClockFacts, SeenFields
  <2>4. \A f \in FlowId : ~InHands(f)' /\ Swept(f, ToBe)'
    BY <1>1, <1>2, <1>4, ClockFacts DEF InHands, Swept
  <2>5. updateMap' = atCall.updateMap
    BY <1>1, ClockFacts, SeenFields
  <2> QED
    BY <1>1, <1>2, <1>3, <2>1, <2>2, <2>3, <2>4, <2>5, ClockFacts DEF InSweep
<1>6. ChainsOk' /\ AtRest' /\ expired' = {} /\ \A f \in FlowId : ~InHands(f)'
  BY <1>1, ChainsOfInv, SameChains, ClockFacts DEF AtRest, InHands
<1> QED
  BY <1>1, <1>2, <1>5, <1>6, StepKeeps

(* The same of the sweep that the next state works for.                    *)
LapsedAre == \A f \in FlowId : f \in ToBe.lapsed <=> Shown.due[f] # NotIn /\ Shown.due[f] < tick

UnlapsedKept ==
  /\ ToBe.finished \subseteq ToBe.lapsed
  /\ \A f \in FlowId :
       f \notin ToBe.lapsed => ToBe.flow[f] = Shown.flow[f] /\ ToBe.due[f] = Shown.due[f]

TickIs == ToBe.tick = Shown.tick + Atomic!Elapsed(packet.ts)

(* Lapsed flows, the others and the clock, before the step ...             *)
LEMMA SweepIs == LapsedAre /\ UnlapsedKept /\ TickIs
<1>1. LapsedAre /\ TickIs
  BY ToBeCells, ToBeFields DEF LapsedAre, TickIs
<1>2. UnlapsedKept
  <2>1. ToBe.finished \subseteq ToBe.lapsed
    BY ToBeFields DEF Atomic!Finished
  <2> QED
    BY <2>1, ToBeCells DEF UnlapsedKept
<1> QED
  BY <1>1, <1>2

(* ... and after it.                                                       *)
LEMMA SweepIsNext == LapsedAre' /\ UnlapsedKept' /\ TickIs'
BY SweepIs, PTL

(* prog() expires exactly the flows the sweep is about.                    *)
LEMMA MoveClockKeeps ==
  ASSUME CallInv, MoveClock
  PROVE  CallInv' /\ Shown' = Shown
<1>1. /\ pc = "clock" /\ lastTs # 0 /\ lastTs < packet.ts /\ lastTs' = packet.ts
      /\ Table!Prog(packet.ts - lastTs)
      /\ pc' = "sweep" /\ flow' = flow /\ updateMap' = updateMap /\ log' = log
      /\ alive' = alive /\ packet' = packet /\ atCall' = atCall
  BY DEF MoveClock
<1>2. SameCall /\ InCall' /\ Shown' = Shown /\ Shown = atCall
  BY <1>1, ShownSame DEF SameCall, InCall
<1> DEFINE S == {f \in FlowId : due[f] # NotIn /\ due[f] < tick'}
<1>3. tick' = tick + (packet.ts - lastTs) /\ Table!Expire(S)
  <2>1. tick' = tick + (packet.ts - lastTs)
    BY <1>1 DEF Table!Prog
  <2> QED
    BY <1>1, <2>1 DEF Table!Prog, Table!Live, Table!NotIn, NotIn
<1>4. ChainsOk'
  BY <1>3, ChainsOfInv, ExpireChains
<1>5. /\ due' = [f \in FlowId |-> IF f \in S THEN NotIn ELSE due[f]]
      /\ expired' = S
  BY <1>1, <1>3, ClockFacts DEF Table!Expire, Table!NotIn, NotIn
<1>6. ToBe'.tick = tick'
  <2>1. Atomic!Elapsed(packet.ts)' = packet.ts - lastTs
    BY <1>1, <1>2, ClockFacts, SeenFields DEF Atomic!Elapsed
  <2>2. ToBe'.tick = Shown'.tick + Atomic!Elapsed(packet.ts)'
    BY SweepIsNext DEF TickIs
  <2> QED
    BY <1>1, <1>2, <1>3, <2>1, <2>2, ClockFacts, SeenFields
<1>7. Shown.due = due /\ Shown.flow = flow /\ Shown.lastTs = lastTs
      /\ Shown.updateMap = updateMap /\ Shown.log = log
  BY <1>1, ClockFacts, SeenFields
<1>8. \A f \in FlowId : f \in ToBe'.lapsed <=> f \in S
  BY <1>2, <1>7, SweepIsNext DEF LapsedAre
<1> HIDE DEF S
<1>9. \A f \in FlowId : InHands(f)' <=> f \in S
  BY <1>1, <1>5 DEF InHands
<1>10. S \subseteq FlowId
  BY DEF S
<1>11. InSweep'
  <2>1. /\ tick' = ToBe'.tick
        /\ lastTs' = IF atCall'.lastTs < packet'.ts THEN packet'.ts ELSE atCall'.lastTs
        /\ updateMap' = atCall'.updateMap
    BY <1>1, <1>2, <1>6, <1>7
  <2>2. log' = atCall'.log \union
                 {atCall'.flow[f] : f \in {g \in ToBe'.finished : ~InHands(g)'}}
    <3>1. \A g \in ToBe'.finished : InHands(g)'
      <4>1. ToBe'.finished \subseteq ToBe'.lapsed
        BY SweepIsNext DEF UnlapsedKept
      <4>2. ToBe'.lapsed \subseteq FlowId
        BY DEF ToBe, Atomic!Lapsed
      <4> QED
        BY <1>8, <1>9, <4>1, <4>2
    <3>2. {atCall'.flow[f] : f \in {g \in ToBe'.finished : ~InHands(g)'}} = {}
      BY <3>1
    <3> QED
      BY <1>1, <1>2, <1>7, <3>2
  <2>3. /\ flow' \in [FlowId -> Flow \union {NoFlow}]
        /\ due' \in [FlowId -> Nat \union {NotIn}]
    BY <1>1, <1>5, ClockFacts
  <2>4. ASSUME NEW f \in FlowId, InHands(f)'
        PROVE  Waiting(f, ToBe)'
    BY <1>1, <1>2, <1>5, <1>7, <1>8, <1>9, <2>4 DEF Waiting
  <2>5. ASSUME NEW f \in FlowId, ~InHands(f)'
        PROVE  Swept(f, ToBe)'
    BY <1>1, <1>2, <1>5, <1>7, <1>8, <1>9, <2>5, SweepIsNext DEF Swept, UnlapsedKept
  <2> QED
    BY <1>1, <2>1, <2>2, <2>3, <2>4, <2>5 DEF InSweep
<1>12. /\ AtRest' /\ expired' \subseteq FlowId
       /\ \A f \in FlowId : InHands(f)' => due'[f] = NotIn
  BY <1>1, <1>5, <1>9, <1>10 DEF AtRest
<1>13. pc # "drain"
  BY <1>1
<1> QED
  BY <1>1, <1>2, <1>4, <1>11, <1>12, <1>13, StepKeeps

(* pop() hands out a flow of the sweep, or ends the loop.                  *)
LEMMA SweepKeeps ==
  ASSUME CallInv, Sweep
  PROVE  CallInv' /\ Shown' = Shown
<1>1. /\ pc = "sweep" /\ pc' = IF ret' = Null THEN "lookup" ELSE "lapsed"
      /\ lastTs' = lastTs /\ flow' = flow /\ updateMap' = updateMap /\ log' = log
      /\ alive' = alive /\ packet' = packet /\ found' = found /\ atCall' = atCall
      /\ byKey' = byKey /\ due' = due /\ tick' = tick
      /\ \/ expired = {} /\ ret' = Null /\ expired' = expired
         \/ \E n \in expired : ret' = n /\ expired' = expired \ {n}
  BY DEF Sweep, Table!Pop
<1>2. SameCall /\ InCall /\ InCall' /\ Shown' = Shown
  BY <1>1, ShownSame DEF SameCall, InCall
<1>3. ChainsOk'
  BY <1>1, ChainsOfInv, SameChains
<1>4. expired \subseteq FlowId /\ Null \notin FlowId
  BY <1>2, InCallFacts, FlowRecvAssumption
<1>5. \A f \in FlowId : InHands(f)' <=> InHands(f)
  BY <1>1, <1>4 DEF InHands
<1>6. /\ expired' \subseteq FlowId
      /\ pc' \in {"lookup", "create", "account"} => expired' = {}
      /\ pc' = "lapsed" => ret' \in FlowId /\ ret' \notin expired'
      /\ pc' # "create" /\ pc' # "account"
  BY <1>1, <1>4
<1>7. log' = atCall.log \union {atCall.flow[f] : f \in {g \in ToBe.finished : ~InHands(g)'}}
  <2>1. \A g \in ToBe.finished : g \in FlowId
    BY ToBeFields DEF Atomic!Finished, Atomic!Lapsed
  <2>2. {g \in ToBe.finished : ~InHands(g)'} = {g \in ToBe.finished : ~InHands(g)}
    BY <1>5, <2>1
  <2> QED
    BY <1>1, <1>2, <2>2, InCallFacts
<1>8. \A f \in FlowId :
        IF InHands(f)' THEN f \in ToBe.lapsed /\ flow'[f] = atCall.flow[f] /\ due'[f] = NotIn
        ELSE flow'[f] = ToBe.flow[f] /\ due'[f] = ToBe.due[f]
  BY <1>1, <1>2, <1>5, InCallFacts DEF Waiting, Swept
<1>9. /\ flow' \in [FlowId -> Flow \union {NoFlow}]
      /\ due' \in [FlowId -> Nat \union {NotIn}]
  BY <1>1, <1>2, InCallFacts
<1> QED
  BY <1>1, <1>2, <1>3, <1>6, <1>7, <1>8, <1>9, SweepStepKeeps

(* The flow in recv()'s hands.                                             *)
LEMMA LapsedFacts ==
  ASSUME CallInv, pc = "lapsed"
  PROVE  /\ ret \in FlowId /\ ret \notin expired /\ InHands(ret)
         /\ ret \in ToBe.lapsed /\ flow[ret] = Shown.flow[ret] /\ due[ret] = NotIn
         /\ flow[ret] \in Flow /\ flow[ret] # NoFlow
         /\ Remain(ret) \in Nat /\ Remain(ret) = Atomic!Remain(ret)
<1>1. InCall
  BY DEF InCall
<1>2. ret \in FlowId /\ ret \notin expired /\ InHands(ret)
  BY DEF CallInv, InSweep, InHands
<1>3. ret \in ToBe.lapsed /\ flow[ret] = Shown.flow[ret] /\ due[ret] = NotIn
  BY <1>1, <1>2, InCallFacts DEF Waiting
<1>4. Shown.due[ret] # NotIn
  BY <1>2, <1>3, ToBeCells
<1>5. flow[ret] # NoFlow /\ flow[ret] \in Flow
  BY <1>1, <1>2, <1>3, <1>4, InCallFacts, ShownTypes
<1>6. flow[ret].updated \in Nat /\ flow[ret].refreshed \in Nat
  BY <1>5, TimeNat DEF Flow
<1>7. Remain(ret) \in Nat
  BY <1>6 DEF Remain
<1> QED
  BY <1>2, <1>3, <1>5, <1>7, RemainSame

(* What is left of the sweep once the flow in hand is settled.             *)
LEMMA Settled ==
  ASSUME CallInv, pc = "lapsed", pc' = "sweep", SameCall, expired' = expired,
         tick' = tick, lastTs' = lastTs, updateMap' = updateMap, alive' = alive, ChainsOk',
         NEW g \in Flow \union {NoFlow}, NEW d \in Nat \union {NotIn},
         flow' = [flow EXCEPT ![ret] = g], due' = [due EXCEPT ![ret] = d],
         g = ToBe.flow[ret], d = ToBe.due[ret],
         log' = log \union {atCall.flow[f] : f \in {ret} \intersect ToBe.finished}
  PROVE  CallInv' /\ Shown' = Shown
<1>1. InCall /\ InCall'
  BY DEF InCall
<1>2. \A f \in FlowId : InHands(f)' <=> InHands(f) /\ f # ret
  BY LapsedFacts DEF InHands
<1>3. /\ flow' \in [FlowId -> Flow \union {NoFlow}] /\ flow'[ret] = g
      /\ due' \in [FlowId -> Nat \union {NotIn}] /\ due'[ret] = d
      /\ \A f \in FlowId : f # ret => flow'[f] = flow[f] /\ due'[f] = due[f]
  BY <1>1, InCallFacts, LapsedFacts
<1>4. log' = atCall.log \union {atCall.flow[f] : f \in {h \in ToBe.finished : ~InHands(h)'}}
  <2>1. \A h \in ToBe.finished : h \in FlowId
    BY ToBeFields DEF Atomic!Finished, Atomic!Lapsed
  <2>2. {h \in ToBe.finished : ~InHands(h)'} =
          {h \in ToBe.finished : ~InHands(h)} \union ({ret} \intersect ToBe.finished)
    BY <1>2, <2>1, LapsedFacts
  <2> QED
    BY <1>1, <2>2, InCallFacts
<1>5. \A f \in FlowId :
        IF InHands(f)' THEN f \in ToBe.lapsed /\ flow'[f] = atCall.flow[f] /\ due'[f] = NotIn
        ELSE flow'[f] = ToBe.flow[f] /\ due'[f] = ToBe.due[f]
  BY <1>1, <1>2, <1>3, InCallFacts, LapsedFacts DEF Waiting, Swept
<1>6. expired' \subseteq FlowId
  BY <1>1, InCallFacts
<1> QED
  BY <1>1, <1>3, <1>4, <1>5, <1>6, SweepStepKeeps, ShownSame

(* A flow that was used goes back for as long as it was.                   *)
LEMMA RenewKeeps ==
  ASSUME CallInv, Renew
  PROVE  CallInv' /\ Shown' = Shown
<1>1. /\ pc = "lapsed" /\ Remain(ret) > 0 /\ Table!Put(ret, Remain(ret))
      /\ flow' = [flow EXCEPT ![ret].refreshed = packet.ts]
      /\ pc' = "sweep" /\ lastTs' = lastTs /\ updateMap' = updateMap /\ log' = log
      /\ alive' = alive /\ packet' = packet /\ atCall' = atCall
      /\ tick' = tick /\ expired' = expired
  BY DEF Renew, Table!Put
<1>2. SameCall /\ InCall
  BY <1>1 DEF SameCall, InCall
<1>3. ChainsOk'
  BY <1>1, <1>2, InCallFacts, LapsedFacts, PutChains
<1>4. ret \notin ToBe.finished
  BY <1>1, LapsedFacts, ToBeCells
<1>5. /\ ToBe.flow[ret] = [flow[ret] EXCEPT !.refreshed = packet.ts]
      /\ ToBe.due[ret] = IF Remain(ret) < Slots THEN tick + Remain(ret) ELSE NotIn
  BY <1>1, <1>4, LapsedFacts, ToBeCells
<1>6. flow' = [flow EXCEPT ![ret] = ToBe.flow[ret]]
  BY <1>1, <1>2, <1>5, InCallFacts, LapsedFacts
<1>7. due' = [due EXCEPT ![ret] = ToBe.due[ret]]
  <2>1. CASE Remain(ret) < Slots
    BY <1>1, <1>5, <2>1 DEF Table!Put
  <2>2. CASE ~(Remain(ret) < Slots)
    BY <1>1, <1>2, <1>5, <2>2, InCallFacts, LapsedFacts DEF Table!Put
  <2> QED
    BY <2>1, <2>2
<1>8. ToBe.flow[ret] \in Flow \union {NoFlow} /\ ToBe.due[ret] \in Nat \union {NotIn}
  BY <1>1, <1>2, InCallFacts, LapsedFacts, ToBeTypes
<1>9. log' = log \union {atCall.flow[f] : f \in {ret} \intersect ToBe.finished}
  BY <1>1, <1>4
<1> QED
  BY <1>1, <1>2, <1>3, <1>6, <1>7, <1>8, <1>9, Settled

(* A flow that was not is reported as it was shown, and deleted.           *)
LEMMA ReportKeeps ==
  ASSUME CallInv, Report
  PROVE  CallInv' /\ Shown' = Shown
<1>1. /\ pc = "lapsed" /\ Remain(ret) = 0 /\ log' = log \union {flow[ret]}
      /\ flow' = [flow EXCEPT ![ret] = NoFlow]
      /\ pc' = "sweep" /\ lastTs' = lastTs /\ updateMap' = updateMap
      /\ alive' = alive /\ packet' = packet /\ atCall' = atCall
      /\ tick' = tick /\ expired' = expired /\ due' = due /\ byKey' = byKey
  BY DEF Report
<1>2. SameCall /\ InCall
  BY <1>1 DEF SameCall, InCall
<1>3. ChainsOk'
  BY <1>1, ChainsOfInv, SameChains
<1>4. ret \in ToBe.finished /\ ToBe.flow[ret] = NoFlow /\ ToBe.due[ret] = NotIn
  <2>1. ret \in FlowId /\ ret \in ToBe.lapsed /\ ~(Atomic!Remain(ret) > 0)
    BY <1>1, LapsedFacts
  <2>2. ret \in ToBe.finished
    BY <2>1, ToBeCells
  <2>3. ToBe.due[ret] = NotIn
    BY <2>1, ToBeCells
  <2> QED
    BY <2>1, <2>2, <2>3, ToBeCells
<1>5. due' = [due EXCEPT ![ret] = NotIn]
  BY <1>1, <1>2, InCallFacts, LapsedFacts
<1>6. log' = log \union {atCall.flow[f] : f \in {ret} \intersect ToBe.finished}
  <2>1. {ret} \intersect ToBe.finished = {ret}
    BY <1>4
  <2>2. flow[ret] = atCall.flow[ret]
    BY <1>1, <1>2, InCallFacts, LapsedFacts
  <2> QED
    BY <1>1, <2>1, <2>2
<1> QED
  BY <1>1, <1>2, <1>3, <1>4, <1>5, <1>6, Settled

(* Once the sweep is over and until the packet opens a flow, the table is  *)
(* what ModFlow makes of it.                                               *)
LEMMA SweptFacts ==
  ASSUME CallInv, pc \in {"lookup", "create"}
  PROVE  /\ expired = {} /\ \A f \in FlowId : ~InHands(f) /\ Swept(f, ToBe)
         /\ packet \in Packet /\ packet.key \in Key /\ packet.ts \in Time
<1>1. InCall /\ expired = {} /\ pc # "lapsed" /\ pc # "account"
  BY DEF InCall, CallInv, AtRest
<1>2. \A f \in FlowId : ~InHands(f)
  BY <1>1 DEF InHands
<1>3. packet \in Packet
  BY <1>1, InCallFacts
<1> QED
  BY <1>1, <1>2, <1>3, InCallFacts DEF Packet

(* A flow in the table is filed under its own key.                         *)
LEMMA FiledUnderKey ==
  ASSUME CallInv, InCall, NEW f \in FlowId, ToBe.due[f] # NotIn
  PROVE  Shown.flow[f] # NoFlow /\ Shown.flow[f].key = KeyOf[f]
<1>1. Shown.flow[f] # NoFlow
  BY InCallFacts, ToBeTypes
<1> QED
  BY <1>1 DEF CallInv, ChainsMatch

(* get() is to find the flows of the packet's session that the sweep       *)
(* leaves in a slot.                                                       *)
LEMMA FoundIs ==
  \A f \in FlowId :
    f \in ToBe.found <=> ToBe.due[f] # NotIn /\ Shown.flow[f].key = packet.key
BY ToBeFields DEF Atomic!Found, Atomic!NotIn, NotIn

(* get() finds the session's flow exactly when the sweep left one in a     *)
(* slot, and sends recv() on accordingly.                                  *)
LEMMA LookupKeeps ==
  ASSUME CallInv, Lookup
  PROVE  CallInv' /\ Shown' = Shown
<1>1. /\ pc = "lookup" /\ ret' = IF byKey[packet.key] = <<>> THEN Null ELSE Head(byKey[packet.key])
      /\ found' = ret' /\ pc' = IF ret' = Null THEN "create" ELSE "account"
      /\ lastTs' = lastTs /\ flow' = flow /\ updateMap' = updateMap /\ log' = log
      /\ alive' = alive /\ packet' = packet /\ atCall' = atCall
      /\ byKey' = byKey /\ due' = due /\ tick' = tick /\ expired' = expired
  BY DEF Lookup, Table!Get
<1>2. SameCall /\ InCall /\ InCall'
  BY <1>1 DEF SameCall, InCall
<1>3. ChainsOk /\ ChainsOk' /\ expired' = {} /\ \A f \in FlowId : ~InHands(f)' /\ Swept(f, ToBe)
  BY <1>1, ChainsOfInv, SameChains, SweptFacts DEF InHands
<1>4. byKey[packet.key] \in Seq(FlowId) /\ packet.key \in Key
  BY <1>1, <1>3, SweptFacts DEF ChainsOk
<1>5. pc' = "create" => ToBe.found = {}
  <2> SUFFICES ASSUME pc' = "create", NEW f \in ToBe.found PROVE FALSE
    OBVIOUS
  <2>1. byKey[packet.key] = <<>>
    <3>1. byKey[packet.key] # <<>> => Head(byKey[packet.key]) \in FlowId
      BY <1>4
    <3> QED
      BY <1>1, <3>1, FlowRecvAssumption
  <2>2. f \in FlowId
    BY ToBeFields DEF Atomic!Found
  <2>3. due[f] # NotIn /\ KeyOf[f] = packet.key
    BY <1>2, <1>3, <2>2, FoundIs, FiledUnderKey DEF Swept
  <2>4. PICK i \in DOMAIN byKey[packet.key] : byKey[packet.key][i] = f
    BY <1>3, <2>2, <2>3 DEF ChainsOk
  <2> QED
    BY <2>1, <2>4, EmptySeq
<1>6. pc' = "account" => found' \in FlowId /\ found' \in ToBe.found
  <2> SUFFICES ASSUME pc' = "account" PROVE found' \in FlowId /\ found' \in ToBe.found
    OBVIOUS
  <2>1. byKey[packet.key] # <<>> /\ found' = Head(byKey[packet.key])
    BY <1>1
  <2>2. 1 \in DOMAIN byKey[packet.key] /\ found' = byKey[packet.key][1] /\ found' \in FlowId
    BY <1>4, <2>1
  <2>3. KeyOf[found'] = packet.key /\ due[found'] # NotIn
    BY <1>3, <1>4, <2>2 DEF ChainsOk
  <2>4. ToBe.due[found'] # NotIn
    BY <1>3, <2>2, <2>3 DEF Swept
  <2> QED
    BY <1>2, <2>2, <2>3, <2>4, FiledUnderKey, FoundIs
<1>7. log' = atCall.log \union {atCall.flow[f] : f \in {g \in ToBe.finished : ~InHands(g)'}}
  <2>1. \A g \in ToBe.finished : g \in FlowId
    BY ToBeFields DEF Atomic!Finished, Atomic!Lapsed
  <2>2. {g \in ToBe.finished : ~InHands(g)'} = {g \in ToBe.finished : ~InHands(g)}
    BY <1>1, <1>3, <2>1, SweptFacts
  <2> QED
    BY <1>1, <1>2, <2>2, InCallFacts
<1>8. \A f \in FlowId : ~InHands(f)' /\ flow'[f] = ToBe.flow[f] /\ due'[f] = ToBe.due[f]
  BY <1>1, <1>3 DEF Swept
<1>9. /\ flow' \in [FlowId -> Flow \union {NoFlow}]
      /\ due' \in [FlowId -> Nat \union {NotIn}]
  BY <1>1, <1>2, InCallFacts
<1>10. pc' # "lapsed" /\ expired' \subseteq FlowId
  BY <1>1, <1>3
<1> QED
  BY <1>1, <1>2, <1>3, <1>5, <1>6, <1>7, <1>8, <1>9, <1>10, SweepStepKeeps, ShownSame

(* A new Flow is filed under the packet's session.                         *)
LEMMA NewFlowType ==
  ASSUME NEW k \in Key, NEW ts \in Time
  PROVE  NewFlow(k, ts) \in Flow /\ NewFlow(k, ts).key = k
BY DEF NewFlow, Flow

(* The step that creates a flow puts it under a session that has none.     *)
LEMMA CreateKeeps ==
  ASSUME CallInv, Create
  PROVE  CallInv' /\ Shown' = Shown
<1> PICK e \in FlowId :
       /\ flow[e] = NoFlow /\ atCall.flow[e] = NoFlow
       /\ KeyOf[e] = packet.key
       /\ flow' = [flow EXCEPT ![e] = NewFlow(packet.key, packet.ts)]
       /\ Table!Put(e, Timeout)
       /\ found' = e
  BY DEF Create
<1>1. /\ pc = "create" /\ pc' = "account"
      /\ lastTs' = lastTs /\ updateMap' = updateMap /\ log' = log
      /\ alive' = alive /\ packet' = packet /\ atCall' = atCall
      /\ tick' = tick /\ expired' = expired
  BY DEF Create, Table!Put
<1>2. SameCall /\ InCall /\ InCall' /\ ToBe' = ToBe
  BY <1>1, SweepSame DEF SameCall, InCall
<1>3. Timeout \in Nat /\ Timeout < Slots
  BY ModFlowAssumption
<1>4. ChainsOk'
  BY <1>2, <1>3, InCallFacts, PutChains
<1>5. expired' = {} /\ \A f \in FlowId : ~InHands(f)' /\ Swept(f, ToBe)
  BY <1>1, SweptFacts DEF InHands
<1>6. due' = [due EXCEPT ![e] = tick + Timeout]
  BY <1>3 DEF Table!Put
<1>7. NewFlow(packet.key, packet.ts) \in Flow
  BY <1>1, SweptFacts, NewFlowType
<1>8. /\ flow' \in [FlowId -> Flow \union {NoFlow}]
      /\ due' \in [FlowId -> Nat \union {NotIn}]
      /\ flow'[e] = NewFlow(packet.key, packet.ts) /\ due'[e] = tick + Timeout
      /\ \A f \in FlowId : f # e => flow'[f] = flow[f] /\ due'[f] = due[f]
  BY <1>2, <1>3, <1>6, <1>7, InCallFacts
<1>9. ToBe.found = {}
  BY <1>1 DEF CallInv, InSweep
<1>10. Opening(e, ToBe)'
  BY <1>1, <1>2, <1>8, <1>9 DEF Opening
<1>11. log' = atCall.log \union {atCall.flow[f] : f \in {g \in ToBe.finished : ~InHands(g)'}}
  <2>1. \A g \in ToBe.finished : g \in FlowId
    BY ToBeFields DEF Atomic!Finished, Atomic!Lapsed
  <2>2. {g \in ToBe.finished : ~InHands(g)'} = {g \in ToBe.finished : ~InHands(g)}
    BY <1>1, <1>5, <2>1, SweptFacts
  <2> QED
    BY <1>1, <1>2, <2>2, InCallFacts
<1>12. \A f \in FlowId :
         /\ ~InHands(f)'
         /\ \/ flow'[f] = ToBe.flow[f] /\ due'[f] = ToBe.due[f]
            \/ pc' = "account" /\ found' = f /\ Opening(f, ToBe)'
  BY <1>1, <1>5, <1>8, <1>10 DEF Swept
<1>13. /\ pc' # "lapsed" /\ pc' # "create" /\ expired' \subseteq FlowId
       /\ found' \in FlowId /\ Opening(found, ToBe)'
  BY <1>1, <1>5, <1>10 DEF Opening
<1> QED
  BY <1>1, <1>2, <1>4, <1>5, <1>8, <1>11, <1>12, <1>13, SweepStepKeeps, ShownSame

(* The return of recv() is the atomic Recv.                                *)
LEMMA AccountIsRecv ==
  ASSUME CallInv, Account
  PROVE  /\ Atomic!Recv(packet.key, packet.ts, packet.dir, packet.len)
         /\ Shown' = Seen' /\ ChainsOk' /\ expired' = {} /\ pc' = "idle"
         /\ \A f \in FlowId : flow'[f] # NoFlow => flow'[f].key = KeyOf[f]
<1>1. /\ pc = "account" /\ pc' = "idle"
      /\ flow' = [flow EXCEPT ![found] = Updated(@, packet.ts, packet.dir, packet.len)]
      /\ updateMap' = [updateMap EXCEPT ![packet.key] = @ + packet.len]
      /\ lastTs' = lastTs /\ tick' = tick /\ due' = due /\ log' = log /\ alive' = alive
      /\ byKey' = byKey /\ expired' = expired
  BY DEF Account, Return
<1>2. InCall /\ expired = {} /\ \A f \in FlowId : ~InHands(f)
  BY <1>1 DEF InCall, CallInv, AtRest, InHands
<1>3. /\ Atomic!FlowInv /\ ChainsOk /\ Shown = atCall /\ packet \in Packet
      /\ tick = ToBe.tick /\ tick \in Nat
      /\ flow \in [FlowId -> Flow \union {NoFlow}] /\ due \in [FlowId -> Nat \union {NotIn}]
  BY <1>2, InCallFacts
<1>4. /\ found \in FlowId /\ (found \in ToBe.found \/ Opening(found, ToBe))
      /\ \A f \in FlowId : Swept(f, ToBe) \/ (found = f /\ Opening(f, ToBe))
      /\ lastTs = IF atCall.lastTs < packet.ts THEN packet.ts ELSE atCall.lastTs
      /\ updateMap = atCall.updateMap
      /\ log = atCall.log \union {atCall.flow[f] : f \in {g \in ToBe.finished : ~InHands(g)}}
      /\ atCall.alive /\ alive
      /\ packet.ts >= atCall.lastTs - MaxLag
      /\ atCall.updateMap[packet.key] + packet.len <= MaxBytes
  BY <1>1, <1>2 DEF CallInv, InSweep, Shape
<1>5. Shown' = Seen'
  BY <1>1 DEF Shown
<1>6. /\ Shown'.lastTs = lastTs /\ Shown'.tick = tick /\ Shown'.flow = flow'
      /\ Shown'.due = due /\ Shown'.updateMap = updateMap' /\ Shown'.log = log
      /\ Shown'.alive = alive
  BY <1>1, <1>5 DEF Seen
<1>7. packet.key \in Key /\ packet.ts \in Time /\ packet.dir \in Dir /\ packet.len \in PacketLen
  BY <1>3 DEF Packet
<1> DEFINE u(g) == Updated(g, packet.ts, packet.dir, packet.len)
<1>8. /\ tick = Shown.tick + Atomic!Elapsed(packet.ts)
      /\ ToBe.flow = Atomic!SweptFlow(tick, packet.ts) /\ ToBe.due = Atomic!SweptDue(tick)
      /\ ToBe.found = Atomic!Found(packet.key, tick) /\ ToBe.finished = Atomic!Finished(tick)
      /\ DOMAIN ToBe.flow = FlowId /\ ToBe.flow = [f \in FlowId |-> ToBe.flow[f]]
      /\ ToBe.due = [f \in FlowId |-> ToBe.due[f]]
  BY <1>3, ToBeFields DEF Atomic!SweptFlow, Atomic!SweptDue
<1>9. \A g : Atomic!Updated(g, packet.ts, packet.dir, packet.len) = u(g)
  BY DEF Atomic!Updated, Updated, Atomic!ToInt, ToInt
<1>10. Atomic!NewFlow(packet.key, packet.ts) = NewFlow(packet.key, packet.ts)
  BY DEF Atomic!NewFlow, NewFlow, Atomic!Dir, Dir
<1>11. Atomic!Known(packet.key, packet.ts, packet.dir, packet.len, tick)
         \/ Atomic!New(packet.key, packet.ts, packet.dir, packet.len, tick)
  <2>1. CASE Opening(found, ToBe)
    <3>1. /\ flow[found] = NewFlow(packet.key, packet.ts) /\ due[found] = tick + Timeout
          /\ \A f \in FlowId : f # found => flow[f] = ToBe.flow[f] /\ due[f] = ToBe.due[f]
          /\ ToBe.found = {} /\ Shown.flow[found] = NoFlow
      BY <1>3, <1>4, <2>1 DEF Opening, Swept
    <3>2. flow' = [ToBe.flow EXCEPT ![found] = u(NewFlow(packet.key, packet.ts))]
      BY <1>1, <1>3, <1>4, <1>8, <3>1
    <3>3. due = [ToBe.due EXCEPT ![found] = tick + Timeout]
      BY <1>3, <1>4, <1>8, <3>1
    <3>4. Shown'.flow = [Atomic!SweptFlow(tick, packet.ts) EXCEPT ![found] =
                           Atomic!Updated(Atomic!NewFlow(packet.key, packet.ts), packet.ts,
                                          packet.dir, packet.len)]
      BY <1>6, <1>8, <1>9, <1>10, <3>2
    <3>5. Shown'.due = [Atomic!SweptDue(tick) EXCEPT ![found] = tick + Timeout]
      BY <1>6, <1>8, <3>3
    <3>6. Atomic!Found(packet.key, tick) = {}
      BY <1>8, <3>1
    <3> QED
      BY <1>4, <3>1, <3>4, <3>5, <3>6 DEF Atomic!New
  <2>2. CASE ~Opening(found, ToBe)
    <3>1. \A f \in FlowId : flow[f] = ToBe.flow[f] /\ due[f] = ToBe.due[f]
      BY <1>4, <2>2 DEF Swept
    <3>2. flow = ToBe.flow /\ due = ToBe.due
      BY <1>3, <1>8, <3>1
    <3>3. found \in ToBe.found
      BY <1>4, <2>2
    <3>4. flow' = [ToBe.flow EXCEPT ![found] = u(ToBe.flow[found])]
      BY <1>1, <1>8, <3>2
    <3>5. Shown'.flow = [Atomic!SweptFlow(tick, packet.ts) EXCEPT ![found] =
                           Atomic!Updated(Atomic!SweptFlow(tick, packet.ts)[found], packet.ts,
                                          packet.dir, packet.len)]
      BY <1>6, <1>8, <1>9, <3>4
    <3>6. Shown'.due = Atomic!SweptDue(tick) /\ found \in Atomic!Found(packet.key, tick)
      BY <1>6, <1>8, <3>2, <3>3
    <3> QED
      BY <3>5, <3>6 DEF Atomic!Known
  <2> QED
    BY <2>1, <2>2
<1>12. log = Shown.log \union Atomic!Logged(tick)
  <2>1. \A g \in ToBe.finished : g \in FlowId
    BY ToBeFields DEF Atomic!Finished, Atomic!Lapsed
  <2>2. {g \in ToBe.finished : ~InHands(g)} = ToBe.finished
    BY <1>2, <2>1
  <2> QED
    BY <1>3, <1>4, <1>8, <2>2 DEF Atomic!Logged
<1>13. Atomic!Recv(packet.key, packet.ts, packet.dir, packet.len)
  BY <1>1, <1>3, <1>4, <1>6, <1>8, <1>11, <1>12 DEF Atomic!Recv
<1>14. ASSUME NEW f \in FlowId, flow'[f] # NoFlow
       PROVE  flow'[f].key = KeyOf[f]
  <2>1. flow[f] # NoFlow => flow[f].key = KeyOf[f]
    <3>1. CASE Opening(f, ToBe)
      BY <1>7, <3>1, NewFlowType DEF Opening
    <3>2. CASE Swept(f, ToBe)
      <4>1. flow[f] # NoFlow => Shown.flow[f] # NoFlow /\ flow[f].key = Shown.flow[f].key
        BY <1>3, <3>2, ToBeTypes DEF Swept
      <4> QED
        BY <4>1 DEF CallInv, ChainsMatch
    <3> QED
      BY <1>4, <3>1, <3>2
  <2>2. CASE f # found
    BY <1>1, <1>3, <1>4, <2>1, <2>2, <1>14
  <2>3. CASE f = found
    <3>1. flow[f] \in Flow
      <4>1. CASE Opening(f, ToBe)
        BY <1>7, <4>1, NewFlowType DEF Opening
      <4>2. CASE ~Opening(f, ToBe)
        <5>1. f \in ToBe.found /\ Swept(f, ToBe)
          BY <1>4, <2>3, <4>2
        <5>2. ToBe.flow[f] # NoFlow
          BY <1>3, <5>1, FoundIs, ToBeTypes
        <5> QED
          BY <1>3, <5>1, <5>2 DEF Swept
      <4> QED
        BY <4>1, <4>2
    <3>2. flow'[f] = u(flow[f])
      BY <1>1, <1>3, <2>3
    <3>3. u(flow[f]).key = flow[f].key
      BY <3>1 DEF Updated, Flow
    <3>4. flow[f] # NoFlow
      BY <3>1, ModFlowAssumption
    <3> QED
      BY <2>1, <3>2, <3>3, <3>4
  <2> QED
    BY <2>2, <2>3
<1> QED
  BY <1>1, <1>2, <1>3, <1>5, <1>13, <1>14, SameChains

(* SameInv, of the state after the step.                                   *)
LEMMA SameInvNext == Atomic!FlowInv' <=> P!FlowInv'
BY SameInv, PTL

(* The last step of recv() completes ModFlow's Recv.                       *)
LEMMA AccountKeeps ==
  ASSUME CallInv, Account
  PROVE  CallInv' /\ Atomic!Recv(packet.key, packet.ts, packet.dir, packet.len)
<1>1. PICK k \in Key, ts \in Time, d \in Dir, len \in PacketLen :
        k = packet.key /\ ts = packet.ts /\ d = packet.dir /\ len = packet.len
  <2>1. packet \in Packet
    BY InCallFacts DEF InCall, Account
  <2> QED
    BY <2>1 DEF Packet
<1>2. Atomic!Recv(k, ts, d, len)
  BY <1>1, AccountIsRecv
<1>3. Atomic!Next
  BY <1>2 DEF Atomic!Next, Atomic!Dir, Dir
<1>4. P!Next /\ P!FlowInv
  BY <1>3, SameNext, SameInv DEF CallInv
<1>5. P!FlowInv'
  <2>1. P!FlowInv /\ P!Next => P!FlowInv'
    BY SameFlow, ModFlowAssumption, P!RecvKeepsFlowInv, P!DestroyKeepsFlowInv DEF P!Next
  <2> QED
    BY <1>4, <2>1
<1>6. Atomic!FlowInv'
  BY <1>5, SameInvNext
<1> QED
  BY <1>6, AccountIsRecv, IdleHoldsNext

(* ~ModFlow() begins: all nodes of the table wait for pop().               *)
LEMMA DeleteKeeps ==
  ASSUME CallInv, Delete
  PROVE  CallInv' /\ Shown' = Shown
<1>1. /\ pc = "idle" /\ alive /\ Table!Expire(Table!Live) /\ tick' = tick /\ alive' = FALSE
      /\ pc' = "drain" /\ atCall' = Seen /\ lastTs' = lastTs /\ flow' = flow
      /\ updateMap' = updateMap /\ log' = log
  BY DEF Delete, Table!Purge
<1>2. Shown = Seen /\ Shown' = Seen
  BY <1>1 DEF Shown
<1> DEFINE S == {f \in FlowId : due[f] # NotIn}
<1>3. Table!Live = S
  BY DEF Table!Live, Table!NotIn, NotIn
<1>4. ChainsOk' /\ expired = {}
  BY <1>1, ChainsOfInv, ExpireChains DEF CallInv, AtRest
<1>5. /\ due' = [f \in FlowId |-> IF f \in S THEN NotIn ELSE due[f]]
      /\ expired' = S
  BY <1>1, <1>3, <1>4 DEF Table!Expire, Table!NotIn, NotIn
<1>6. Atomic!FlowInv /\ Atomic!FlowInv'
  BY <1>2, AtomicInvSame DEF CallInv
<1>7. flow \in [FlowId -> Flow \union {NoFlow}]
  BY <1>2, <1>6, ShownTypes, SeenFields
<1>8. due' = [f \in FlowId |-> NotIn]
  BY <1>5
<1>9. Shape'
  BY <1>1, <1>4, <1>5, SeenFields DEF Shape, ChainsOk
<1>10. ChainsMatch'
  <2>1. \A f \in FlowId : Shown'.flow[f] # NoFlow => Shown'.flow[f].key = KeyOf[f]
    BY <1>2 DEF CallInv, ChainsMatch
  <2> QED
    BY <1>4, <1>8, <2>1 DEF ChainsMatch, ChainsOk
<1>11. InDrain'
  <2>1. \A f \in expired' : Seen.due[f] # NotIn
    BY <1>5, SeenFields
  <2>2. flow' = [f \in FlowId |->
                  IF f \in expired' \/ Seen.due[f] = NotIn THEN Seen.flow[f] ELSE NoFlow]
    BY <1>1, <1>5, <1>7, SeenFields
  <2> QED
    BY <1>1, <1>8, <2>1, <2>2, SeenFields DEF InDrain
<1>12. AtRest' /\ NotBegun' /\ InSweep'
  BY <1>1 DEF AtRest, NotBegun, InSweep
<1> QED
  BY <1>2, <1>6, <1>9, <1>10, <1>11, <1>12 DEF CallInv

(* ModFlow's Destroy is a step of the instance, too.                       *)
LEMMA SameDestroy == Atomic!Destroy => P!Next
BY DEF Atomic!Destroy, P!Destroy, P!Next, Atomic!NotIn, P!NotIn

(* Each pop() of the loop deletes one; the last is the atomic Destroy.     *)
LEMMA DrainKeeps ==
  ASSUME CallInv, Drain
  PROVE  /\ CallInv'
         /\ Shown' = Shown \/ Atomic!Destroy
<1>1. /\ pc = "drain" /\ lastTs' = lastTs /\ updateMap' = updateMap /\ log' = log
      /\ alive' = alive /\ tick' = tick /\ byKey' = byKey /\ due' = due
  BY DEF Drain, Table!Pop
<1>2. /\ Shown = atCall /\ Atomic!FlowInv
      /\ alive = FALSE /\ atCall.alive /\ lastTs = atCall.lastTs /\ tick = atCall.tick
      /\ updateMap = atCall.updateMap /\ log = atCall.log
      /\ due = [f \in FlowId |-> NotIn] /\ expired \subseteq FlowId
      /\ \A f \in expired : atCall.due[f] # NotIn
      /\ flow = [f \in FlowId |->
                   IF f \in expired \/ atCall.due[f] = NotIn THEN atCall.flow[f] ELSE NoFlow]
  BY <1>1, ShownInCall DEF CallInv, InDrain, Shape
<1>3. ChainsOk'
  BY <1>1, ChainsOfInv, SameChains
<1>4. CASE expired = {}
  <2>1. ret' = Null /\ expired' = {} /\ pc' = "idle" /\ flow' = flow
    BY <1>4 DEF Drain, Table!Pop, Return
  <2>2. Shown' = Seen'
    BY <2>1 DEF Shown
  <2>3. /\ Shown'.lastTs = lastTs /\ Shown'.tick = tick /\ Shown'.flow = flow
        /\ Shown'.due = due /\ Shown'.updateMap = updateMap /\ Shown'.log = log
        /\ Shown'.alive = alive
    BY <1>1, <2>1, <2>2 DEF Seen
  <2>4. flow = [f \in FlowId |-> IF Shown.due[f] # NotIn THEN NoFlow ELSE Shown.flow[f]]
    BY <1>2, <1>4
  <2>5. Atomic!Destroy
    <3>1. Atomic!NotIn = NotIn
      BY DEF Atomic!NotIn, NotIn
    <3>2. Shown.alive /\ Shown'.alive = FALSE
      BY <1>2, <2>3
    <3> QED
      BY <1>2, <2>3, <2>4, <3>1, <3>2 DEF Atomic!Destroy
  <2>6. Atomic!FlowInv'
    <3>1. P!FlowInv /\ P!Next => P!FlowInv'
      BY SameFlow, ModFlowAssumption, P!RecvKeepsFlowInv, P!DestroyKeepsFlowInv DEF P!Next
    <3> QED
      BY <1>2, <2>5, <3>1, SameDestroy, SameInv, SameInvNext
  <2>7. \A f \in FlowId : flow'[f] # NoFlow => flow'[f].key = KeyOf[f]
    <3>1. \A f \in FlowId : Shown.flow[f] # NoFlow => Shown.flow[f].key = KeyOf[f]
      BY DEF CallInv, ChainsMatch
    <3> QED
      BY <2>1, <2>4, <3>1
  <2> QED
    BY <1>3, <2>1, <2>5, <2>6, <2>7, IdleHoldsNext
<1>5. CASE expired # {}
  <2> PICK n \in expired : ret' = n /\ expired' = expired \ {n}
    BY <1>5 DEF Drain, Table!Pop
  <2>1. n \in FlowId /\ n # Null
    BY <1>2, FlowRecvAssumption
  <2>2. /\ flow' = [flow EXCEPT ![n] = NoFlow]
        /\ pc' = pc /\ packet' = packet /\ found' = found /\ atCall' = atCall
    BY <2>1 DEF Drain
  <2>3. Shown' = Shown
    BY <2>2 DEF Shown, Seen, Drain
  <2>4. Atomic!FlowInv'
    BY <1>2, <2>3, AtomicInvSame
  <2>5. Shape'
    BY <1>1, <1>2, <1>3, <2>2 DEF Shape, ChainsOk
  <2>6. ChainsMatch'
    <3>1. \A f \in FlowId : Shown'.flow[f] # NoFlow => Shown'.flow[f].key = KeyOf[f]
      BY <2>3 DEF CallInv, ChainsMatch
    <3> QED
      BY <1>1, <1>2, <1>3, <3>1 DEF ChainsMatch, ChainsOk
  <2>7. flow' = [f \in FlowId |->
                   IF f \in expired' \/ atCall.due[f] = NotIn THEN atCall.flow[f] ELSE NoFlow]
    BY <1>2, <2>1, <2>2
  <2>8. InDrain'
    BY <1>1, <1>2, <2>2, <2>7 DEF InDrain
  <2>9. AtRest' /\ NotBegun' /\ InSweep'
    BY <1>1, <2>2 DEF AtRest, NotBegun, InSweep
  <2> QED
    BY <2>3, <2>4, <2>5, <2>6, <2>8, <2>9 DEF CallInv
<1> QED
  BY <1>4, <1>5

(* Nothing changes if nothing is called.                                   *)
LEMMA StutterKeeps ==
  ASSUME CallInv, UNCHANGED callVars
  PROVE  CallInv' /\ Shown' = Shown
<1>1. /\ lastTs' = lastTs /\ tick' = tick /\ flow' = flow /\ due' = due
      /\ updateMap' = updateMap /\ log' = log /\ alive' = alive
      /\ byKey' = byKey /\ expired' = expired /\ ret' = ret /\ pc' = pc
      /\ packet' = packet /\ found' = found /\ atCall' = atCall
  BY DEF callVars, state
<1>2. Shown' = Shown /\ Seen' = Seen
  BY <1>1 DEF Shown, Seen
<1>3. ToBe' = ToBe
  BY <1>1, <1>2, ToBeSame
<1>4. Atomic!FlowInv'
  BY <1>2, AtomicInvSame DEF CallInv
<1>5. Shape' /\ AtRest' /\ NotBegun' /\ InDrain'
  BY <1>1, <1>2 DEF CallInv, Shape, AtRest, NotBegun, InDrain
<1>6. ChainsMatch'
  BY <1>1, <1>2 DEF CallInv, ChainsMatch, InHands
<1>7. \A f : Waiting(f, ToBe)' = Waiting(f, ToBe) /\ Swept(f, ToBe)' = Swept(f, ToBe) /\ Opening(f, ToBe)' = Opening(f, ToBe)
             /\ InHands(f)' = InHands(f)
  BY <1>1, <1>3 DEF Waiting, Swept, Opening, InHands
<1>8. InSweep'
  BY <1>1, <1>3, <1>7 DEF CallInv, InSweep
<1> QED
  BY <1>2, <1>4, <1>5, <1>6, <1>8 DEF CallInv

(* Every step keeps CallInv and is, seen from outside, a stutter or the    *)
(* one step of ModFlow that the call stands for.                           *)
LEMMA CallNextKeeps ==
  ASSUME CallInv, [CallNext]_callVars
  PROVE  /\ CallInv'
         /\ \/ Shown' = Shown
            \/ pc = "account" /\ Atomic!Recv(packet.key, packet.ts, packet.dir, packet.len)
            \/ pc = "drain" /\ Atomic!Destroy
<1>1. CASE \E p \in Packet : Call(p)
  BY <1>1, CallKeeps
<1>2. CASE KeepClock
  BY <1>2, KeepClockKeeps
<1>3. CASE MoveClock
  BY <1>3, MoveClockKeeps
<1>4. CASE Sweep
  BY <1>4, SweepKeeps
<1>5. CASE Renew
  BY <1>5, RenewKeeps
<1>6. CASE Report
  BY <1>6, ReportKeeps
<1>7. CASE Lookup
  BY <1>7, LookupKeeps
<1>8. CASE Create
  BY <1>8, CreateKeeps
<1>9. CASE Account
  BY <1>9, AccountKeeps DEF Account
<1>10. CASE Drain
  BY <1>10, DrainKeeps DEF Drain
<1>11. CASE Delete
  BY <1>11, DeleteKeeps
<1>12. CASE UNCHANGED callVars
  BY <1>12, StutterKeeps
<1> QED
  BY <1>1, <1>2, <1>3, <1>4, <1>5, <1>6, <1>7, <1>8, <1>9, <1>10, <1>11, <1>12 DEF CallNext, Step

-----------------------------------------------------------------------------
(* The results.                                                            *)

(* Between any two table calls, recv() and ~ModFlow() stand where CallInv  *)
(* says, for every order in which pop() hands the flows out.               *)
THEOREM CallsInStep == CallSpec => []CallInv
<1>1. CallInit => CallInv
  BY InitHolds
<1>2. CallInv /\ [CallNext]_callVars => CallInv'
  BY CallNextKeeps
<1> QED
  BY <1>1, <1>2, PTL DEF CallSpec

(* The table calls come to ModFlow.tla's atomic steps: what is seen        *)
(* between calls changes by Recv and Destroy only.                         *)
THEOREM CallsImplementModFlow == CallSpec => ImplementsModFlow
<1>1. CallInit => Atomic!Init
  <2> SUFFICES ASSUME CallInit PROVE Atomic!Init
    OBVIOUS
  <2>1. Shown = Seen /\ Init
    BY DEF CallInit, Shown
  <2> QED
    BY <2>1, SeenFields DEF Init, Atomic!Init, Atomic!Dir, Dir, NotIn, Atomic!NotIn
<1>2. CallInv /\ [CallNext]_callVars =>
        [\/ UNCHANGED Atomic!vars
         \/ pc = "account" /\ Atomic!Recv(packet.key, packet.ts, packet.dir, packet.len)
         \/ pc = "drain" /\ Atomic!Destroy]_(Atomic!vars)
  <2>1. Shown' = Shown => UNCHANGED Atomic!vars
    BY DEF Atomic!vars
  <2> QED
    BY <2>1, CallNextKeeps
<1> QED
  BY <1>1, <1>2, CallsInStep, PTL DEF CallSpec, ImplementsModFlow

(* A cell inside the sweep: in recv()'s hands or the table's, it holds a   *)
(* flow of its own session.                                                *)
LEMMA CellFacts ==
  ASSUME CallInv, NEW f \in FlowId
  PROVE  /\ due[f] # NotIn \/ f \in expired => flow[f] # NoFlow
         /\ flow[f] # NoFlow => flow[f].key = KeyOf[f]
<1>1. Atomic!FlowInv /\ \A g \in FlowId : Shown.flow[g] # NoFlow => Shown.flow[g].key = KeyOf[g]
  BY DEF CallInv, ChainsMatch
<1>2. Shown.due[f] # NotIn => Shown.flow[f] # NoFlow
  BY <1>1, ShownTypes
<1>3. CASE pc \in {"idle", "clock"}
  <2>1. Shown.flow = flow /\ Shown.due = due
    BY <1>3, ClockFacts, SeenFields DEF Shown
  <2>2. expired = {}
    BY <1>3 DEF CallInv, AtRest
  <2> QED
    BY <1>1, <1>2, <2>1, <2>2
<1>4. CASE pc = "drain"
  <2>1. /\ Shown = atCall /\ due[f] = NotIn /\ (f \in expired => atCall.due[f] # NotIn)
        /\ flow[f] = IF f \in expired \/ atCall.due[f] = NotIn THEN atCall.flow[f] ELSE NoFlow
    BY <1>4, ShownInCall DEF CallInv, InDrain
  <2> QED
    BY <1>1, <1>2, <2>1
<1>5. CASE InCall
  <2>1. CASE InHands(f)
    <3>1. flow[f] = Shown.flow[f] /\ Shown.due[f] # NotIn
      BY <1>5, <2>1, InCallFacts, ToBeCells DEF Waiting
    <3> QED
      BY <1>1, <1>2, <3>1
  <2>2. CASE ~InHands(f) /\ Swept(f, ToBe)
    <3>1. /\ ToBe.flow[f] # NoFlow => /\ Shown.flow[f] # NoFlow
                                      /\ ToBe.flow[f].key = Shown.flow[f].key
          /\ ToBe.due[f] # NotIn => ToBe.flow[f] # NoFlow
      BY <1>5, InCallFacts, ToBeTypes
    <3> QED
      BY <1>1, <2>2, <3>1 DEF Swept, InHands
  <2>3. CASE Opening(f, ToBe)
    <3>1. flow[f] = NewFlow(packet.key, packet.ts) /\ KeyOf[f] = packet.key
      BY <2>3 DEF Opening
    <3>2. packet.key \in Key /\ packet.ts \in Time
      BY <1>5, InCallFacts DEF Packet
    <3>3. NewFlow(packet.key, packet.ts) \in Flow
      BY <3>2, NewFlowType
    <3>4. NewFlow(packet.key, packet.ts).key = packet.key
      BY <3>2, NewFlowType
    <3>5. flow[f] # NoFlow
      BY <3>1, <3>3, ModFlowAssumption
    <3> QED
      BY <3>1, <3>4, <3>5
  <2> QED
    BY <1>5, <2>1, <2>2, <2>3 DEF CallInv, InSweep, InCall
<1> QED
  BY <1>3, <1>4, <1>5 DEF CallInv, Shape, InCall

(* recv() deletes nothing that the table still reaches, whatever the order *)
(* of its calls finds there.                                               *)
THEOREM TableReachesFlowsOnly == CallSpec => []TableHoldsFlows
<1>1. CallInv => TableHoldsFlows
  <2> SUFFICES ASSUME CallInv PROVE TableHoldsFlows
    OBVIOUS
  <2>1. ASSUME NEW k \in Key, NEW i \in DOMAIN byKey[k]
        PROVE  flow[byKey[k][i]] # NoFlow /\ flow[byKey[k][i]].key = k
    <3>1. byKey[k] \in Seq(FlowId)
      BY DEF CallInv, Shape
    <3>2. byKey[k][i] \in FlowId
      BY <3>1
    <3>3. KeyOf[byKey[k][i]] = k /\ due[byKey[k][i]] # NotIn
      BY DEF CallInv, ChainsMatch
    <3> QED
      BY <3>2, <3>3, CellFacts
  <2> QED
    BY <2>1, CellFacts DEF TableHoldsFlows
<1> QED
  BY <1>1, CallsInStep, PTL

(* Types, in the middle of a call too.                                     *)
THEOREM CallTypesKept == CallSpec => []CallTypeOK
<1>1. CallInv => CallTypeOK
  <2> SUFFICES ASSUME CallInv PROVE CallTypeOK
    OBVIOUS
  <2>1. /\ Atomic!FlowInv
        /\ Shown.lastTs \in Time \union {0} /\ Shown.tick \in Nat
        /\ Shown.flow \in [FlowId -> Flow \union {NoFlow}]
        /\ Shown.due \in [FlowId -> Nat \union {NotIn}]
        /\ Shown.updateMap \in [Key -> Nat] /\ Shown.log \subseteq Flow
        /\ Shown.alive \in BOOLEAN
    BY ShownTypes DEF CallInv
  <2>2. CASE pc \in {"idle", "clock"}
    <3>1. Shown = Seen
      BY <2>2, ClockFacts DEF Shown
    <3>2. TypeOK
      BY <2>1, <3>1, SeenFields DEF TypeOK
    <3> QED
      BY <2>2, <3>2 DEF CallTypeOK, CallInv, Shape
  <2>3. CASE pc = "drain"
    <3>1. /\ Shown = atCall /\ alive = FALSE /\ lastTs = atCall.lastTs /\ tick = atCall.tick
          /\ updateMap = atCall.updateMap /\ log = atCall.log
          /\ due = [f \in FlowId |-> NotIn]
          /\ flow = [f \in FlowId |->
                       IF f \in expired \/ atCall.due[f] = NotIn THEN atCall.flow[f] ELSE NoFlow]
      BY <2>3, ShownInCall DEF CallInv, InDrain
    <3>2. TypeOK
      BY <2>1, <3>1 DEF TypeOK
    <3> QED
      BY <2>3, <3>2 DEF CallTypeOK, CallInv, Shape
  <2>4. CASE InCall
    <3>1. /\ Shown = atCall /\ packet \in Packet /\ tick \in Nat /\ alive = TRUE
          /\ lastTs = IF atCall.lastTs < packet.ts THEN packet.ts ELSE atCall.lastTs
          /\ updateMap = atCall.updateMap
          /\ flow \in [FlowId -> Flow \union {NoFlow}] /\ due \in [FlowId -> Nat \union {NotIn}]
          /\ log = atCall.log \union {atCall.flow[f] : f \in {g \in ToBe.finished : ~InHands(g)}}
      BY <2>4, InCallFacts DEF CallInv, Shape, InSweep, InCall
    <3>2. \A f \in ToBe.finished : atCall.flow[f] \in Flow
      <4> SUFFICES ASSUME NEW f \in ToBe.finished PROVE atCall.flow[f] \in Flow
        OBVIOUS
      <4>1. f \in FlowId
        BY ToBeFields DEF Atomic!Finished, Atomic!Lapsed
      <4>2. Shown.due[f] # NotIn
        BY <4>1, ToBeCells
      <4> QED
        BY <2>1, <3>1, <4>1, <4>2, ShownTypes
    <3>3. log \subseteq Flow
      BY <2>1, <3>1, <3>2
    <3>4. lastTs \in Time \union {0}
      BY <2>1, <3>1 DEF Packet
    <3>5. TypeOK
      BY <2>1, <3>1, <3>3, <3>4 DEF TypeOK
    <3> QED
      BY <2>4, <3>1, <3>5 DEF CallTypeOK, CallInv, Shape, InSweep, InCall
  <2> QED
    BY <2>2, <2>3, <2>4 DEF CallInv, Shape, InCall
<1> QED
  BY <1>1, CallsInStep, PTL

(* NoFlowLost of the two instances, before and after a step.               *)
LEMMA SameLost == (Atomic!NoFlowLost <=> P!NoFlowLost) /\ (Atomic!NoFlowLost' <=> P!NoFlowLost')
BY DEF Atomic!NoFlowLost, P!NoFlowLost, Atomic!NotIn, P!NotIn

(* What is shown between the calls loses no flow, as ModFlow.tla says.     *)
LEMMA ShownLosesNone ==
  ASSUME Timeout + MaxLag < Slots, CallInv, Atomic!NoFlowLost, [CallNext]_callVars
  PROVE  Atomic!NoFlowLost'
<1>1. CASE Shown' = Shown
  BY <1>1 DEF Atomic!NoFlowLost
<1>2. P!FlowInv /\ P!NoFlowLost /\ P!Next => P!NoFlowLost'
  BY SameFlow, ModFlowAssumption, P!NoFlowLostKept
<1>3. CASE pc = "account" /\ Atomic!Recv(packet.key, packet.ts, packet.dir, packet.len)
  <2>1. PICK k \in Key, ts \in Time, d \in Dir, len \in PacketLen :
          k = packet.key /\ ts = packet.ts /\ d = packet.dir /\ len = packet.len
    <3>1. packet \in Packet
      BY <1>3, InCallFacts DEF InCall
    <3> QED
      BY <3>1 DEF Packet
  <2>2. Atomic!Recv(k, ts, d, len)
    BY <1>3, <2>1
  <2>3. Atomic!Next
    BY <2>2 DEF Atomic!Next, Atomic!Dir, Dir
  <2> QED
    BY <1>2, <2>3, SameNext, SameInv, SameLost DEF CallInv
<1>4. CASE Atomic!Destroy
  BY <1>2, <1>4, SameDestroy, SameInv, SameLost DEF CallInv
<1> QED
  BY <1>1, <1>3, <1>4, CallNextKeeps

(* And in the middle of a sweep neither, as long as no packet lags Slots - *)
(* Timeout seconds or more.                                                *)
THEOREM SweepLosesNone ==
  ASSUME Timeout + MaxLag < Slots
  PROVE  CallSpec => []FlowOwned
<1>1. CallInit => Atomic!NoFlowLost
  <2> SUFFICES ASSUME CallInit PROVE Atomic!NoFlowLost
    OBVIOUS
  <2>1. Shown.flow = [f \in FlowId |-> NoFlow]
    BY SeenFields DEF CallInit, Shown, Init
  <2> QED
    BY <2>1 DEF Atomic!NoFlowLost
<1>2. CallInv /\ Atomic!NoFlowLost /\ [CallNext]_callVars => Atomic!NoFlowLost'
  BY ShownLosesNone
<1>3. CallInv /\ Atomic!NoFlowLost => FlowOwned
  <2> SUFFICES ASSUME CallInv, Atomic!NoFlowLost, NEW f \in FlowId, flow[f] # NoFlow,
                      ~InHands(f)
               PROVE  due[f] # NotIn
    BY DEF FlowOwned, InHands
  <2>1. \A g \in FlowId : Shown.flow[g] # NoFlow => Shown.due[g] # NotIn
    BY DEF Atomic!NoFlowLost, Atomic!NotIn, NotIn
  <2>2. CASE pc \in {"idle", "clock"}
    <3>1. Shown.flow = flow /\ Shown.due = due
      BY <2>2, ClockFacts, SeenFields DEF Shown
    <3> QED
      BY <2>1, <3>1
  <2>3. CASE pc = "drain"
    <3>1. /\ Shown = atCall /\ f \notin expired
          /\ flow[f] = IF f \in expired \/ atCall.due[f] = NotIn THEN atCall.flow[f] ELSE NoFlow
      BY <2>3, ShownInCall DEF CallInv, InDrain, InHands
    <3> QED
      BY <2>1, <3>1
  <2>4. CASE InCall
    <3>1. CASE Swept(f, ToBe)
      <4>1. packet.ts \in Time /\ tick \in Nat
        BY <2>4, InCallFacts DEF Packet
      <4> PICK ts \in Time, now \in Nat : ts = packet.ts /\ now = tick
        BY <4>1
      <4>2. now = Shown.tick + P!Elapsed(ts)
        BY <2>4, InCallFacts, ToBeFields, SameOperators
      <4>3. P!SweptFlow(now, ts)[f] # NoFlow
        BY <3>1, ToBeFields, SameOperators DEF Swept
      <4>4. P!FlowInv /\ P!NoFlowLost
        BY SameInv, SameLost DEF CallInv
      <4>5. P!SweptDue(now)[f] # P!NotIn
        BY <4>2, <4>3, <4>4, SameFlow, ModFlowAssumption, P!SweptOwned
      <4> QED
        BY <3>1, <4>5, ToBeFields, SameOperators, SameFlow DEF Swept
    <3>2. CASE Opening(f, ToBe)
      <4>1. due[f] = tick + Timeout /\ tick \in Nat /\ Timeout \in Nat
        BY <2>4, <3>2, InCallFacts, ModFlowAssumption DEF Opening
      <4> QED
        BY <4>1 DEF NotIn
    <3> QED
      BY <2>4, <3>1, <3>2 DEF CallInv, InSweep, InCall
  <2> QED
    BY <2>2, <2>3, <2>4 DEF CallInv, Shape, InCall
<1> QED
  BY <1>1, <1>2, <1>3, CallsInStep, PTL DEF CallSpec

=============================================================================
