------------------------------ MODULE ModFlow -------------------------------
(***************************************************************************)
(* devourer::ModFlow (src/modules/flow.hpp, src/modules/flow.cc):          *)
(* one Flow per IP session, kept in an LRUHash.  recv() is called for      *)
(* every IP packet: it moves the table's clock to the packet's time,       *)
(* renews or reports the flows whose lease ran out, and accounts the       *)
(* packet to its session's flow.                                           *)
(*                                                                         *)
(* The table is used through what LRUTable promises: put(ttl) refuses a    *)
(* ttl of Slots or more, a node put at clock c is handed out by the first  *)
(* prog() that takes the clock past c + ttl.  The order in which flows of  *)
(* one sweep are popped makes no difference: they are distinct nodes.      *)
(* Packet counters are treated by the code as the byte counters are and    *)
(* addresses, ports and names are copied once: both are left out.          *)
(***************************************************************************)
EXTENDS Integers, FiniteSetsExt

CONSTANTS
  Key,       \* session labels, p.ssn_label()
  FlowId,    \* heap cells for Flow objects
  NoFlow,    \* content of a cell that holds no Flow
  Timeout,   \* flow_timeout_
  Slots,     \* the table's timeslot_.size()
  Time,      \* packet times, p.tv_sec()
  MaxLag,    \* bound on how far a packet's time lies behind an earlier one's
  PacketLen, \* packet lengths, p.len()
  MaxInt,    \* the largest value of an int
  MaxBytes   \* bound on the bytes of one session

Dir == {"L2R", "R2L"}

Flow == [key : Key, created : Time, updated : Time, refreshed : Time,
         size : [Dir -> Int]]

ASSUME ModFlowAssumption ==
  /\ Timeout \in Nat /\ Slots \in Nat /\ Timeout < Slots
  /\ Time \subseteq Nat \ {0}
  /\ PacketLen \subseteq Nat
  /\ NoFlow \notin Flow
  /\ MaxLag \in Nat /\ MaxInt \in Nat /\ MaxBytes \in Nat

VARIABLES
  lastTs,     \* last_ts_, 0 before the first packet
  tick,       \* the table's clock
  flow,       \* flow[f], the Flow in heap cell f
  due,        \* due[f], f's deadline in the table, NotIn if it is in no slot
  updateMap,  \* update_map_, bytes seen per session; the code never clears it
  log,        \* the flows that flow.log messages reported
  alive       \* the module has not been deleted

vars == <<lastTs, tick, flow, due, updateMap, log, alive>>

NotIn == -1

TypeOK ==
  /\ lastTs \in Time \union {0}
  /\ tick \in Nat
  /\ flow \in [FlowId -> Flow \union {NoFlow}]
  /\ due \in [FlowId -> Nat \union {NotIn}]
  /\ updateMap \in [Key -> Nat]
  /\ log \subseteq Flow
  /\ alive \in BOOLEAN

Init ==
  /\ lastTs = 0
  /\ tick = 0
  /\ flow = [f \in FlowId |-> NoFlow]
  /\ due = [f \in FlowId |-> NotIn]
  /\ updateMap = [k \in Key |-> 0]
  /\ log = {}
  /\ alive = TRUE

-----------------------------------------------------------------------------
(* A definition named ...Wrong is the one that follows it with a plausible *)
(* slip; no specification uses it, it only serves to show that a property  *)
(* below notices the slip.                                                 *)

(* The sum of a size_t and an int, stored in an int.                       *)
ToInt(x) == ((x + MaxInt + 1) % (2 * (MaxInt + 1))) - (MaxInt + 1)

NewFlow(k, ts) ==
  [key |-> k, created |-> ts, updated |-> ts, refreshed |-> ts,
   size |-> [d \in Dir |-> 0]]

(* Flow::update()                                                          *)
Updated(g, ts, d, len) ==
  [g EXCEPT !.updated = ts, !.size[d] = ToInt(@ + len)]

(* Flow::remain(): how long the flow was in use since its last refresh.    *)
Remain(f) ==
  IF flow[f].refreshed <= flow[f].updated
    THEN flow[f].updated - flow[f].refreshed ELSE 0

(* A packet from before last_ts_ turns the clock back.                     *)
ElapsedBackWrong(ts) == IF lastTs # 0 THEN ts - lastTs ELSE 0

(* prog()'s argument; 0 where recv() leaves the clock alone.               *)
Elapsed(ts) == IF lastTs # 0 /\ lastTs < ts THEN ts - lastTs ELSE 0

(* The deadline itself already counts as missed.                           *)
LapsedEarlyWrong(now) == {f \in FlowId : due[f] # NotIn /\ due[f] <= now}

(* The sweep of recv(): the flows that prog() expired and pop() returned,  *)
(* those of them to be re-put, those the table takes back.                 *)
Lapsed(now) == {f \in FlowId : due[f] # NotIn /\ due[f] < now}
Renewed(now) == {f \in Lapsed(now) : Remain(f) > 0}
TakenBackBelowTimeoutWrong(now) == {f \in Renewed(now) : Remain(f) < Timeout}

TakenBack(now) == {f \in Renewed(now) : Remain(f) < Slots}
Finished(now) == Lapsed(now) \ Renewed(now)

SweptDue(now) ==
  [f \in FlowId |-> IF f \in TakenBack(now) THEN now + Remain(f)
                    ELSE IF f \in Lapsed(now) THEN NotIn
                    ELSE due[f]]

(* refresh() is forgotten after the re-put.                                *)
SweptFlowUnrefreshedWrong(now, ts) ==
  [f \in FlowId |-> IF f \in Finished(now) THEN NoFlow ELSE flow[f]]

SweptFlow(now, ts) ==
  [f \in FlowId |-> IF f \in Finished(now) THEN NoFlow
                    ELSE IF f \in Renewed(now) THEN [flow[f] EXCEPT !.refreshed = ts]
                    ELSE flow[f]]

(* Only the flows the sweep left in their slots are found.                 *)
FoundUnsweptWrong(k, now) ==
  {f \in FlowId : due[f] # NotIn /\ f \notin Lapsed(now) /\ flow[f].key = k}

(* flow_table_.get() after the sweep.                                      *)
Found(k, now) == {f \in FlowId : SweptDue(now)[f] # NotIn /\ flow[f].key = k}

(* build_message() and emit() of the finished flows.                       *)
Logged(now) == {flow[f] : f \in Finished(now)}

Known(k, ts, d, len, now) ==
  \E f \in Found(k, now) :
    /\ flow' = [SweptFlow(now, ts) EXCEPT ![f] = Updated(@, ts, d, len)]
    /\ due' = SweptDue(now)

(* The packet that opens the flow is not counted.                          *)
NewUncountedWrong(k, ts, d, len, now) ==
  /\ Found(k, now) = {}
  /\ \E f \in FlowId :
       /\ flow[f] = NoFlow
       /\ flow' = [SweptFlow(now, ts) EXCEPT ![f] = NewFlow(k, ts)]
       /\ due' = [SweptDue(now) EXCEPT ![f] = now + Timeout]

New(k, ts, d, len, now) ==
  /\ Found(k, now) = {}
  /\ \E f \in FlowId :
       /\ flow[f] = NoFlow
       /\ flow' = [SweptFlow(now, ts) EXCEPT ![f] = Updated(NewFlow(k, ts), ts, d, len)]
       /\ due' = [SweptDue(now) EXCEPT ![f] = now + Timeout]

(* last_ts_ follows a late packet back.                                    *)
RecvFollowsLateWrong(k, ts, d, len) ==
  LET now == tick + Elapsed(ts)
  IN  /\ alive
      /\ ts >= lastTs - MaxLag
      /\ updateMap[k] + len <= MaxBytes
      /\ Known(k, ts, d, len, now) \/ New(k, ts, d, len, now)
      /\ tick' = now
      /\ lastTs' = ts
      /\ updateMap' = [updateMap EXCEPT ![k] = @ + len]
      /\ log' = log \union Logged(now)
      /\ UNCHANGED alive

Recv(k, ts, d, len) ==
  LET now == tick + Elapsed(ts)
  IN  /\ alive
      /\ ts >= lastTs - MaxLag
      /\ updateMap[k] + len <= MaxBytes
      /\ Known(k, ts, d, len, now) \/ New(k, ts, d, len, now)
      /\ tick' = now
      /\ lastTs' = IF lastTs < ts THEN ts ELSE lastTs
      /\ updateMap' = [updateMap EXCEPT ![k] = @ + len]
      /\ log' = log \union Logged(now)
      /\ UNCHANGED alive

(* ~ModFlow(): purge() and pop() of all, deleted without a message.        *)
Destroy ==
  /\ alive
  /\ alive' = FALSE
  /\ flow' = [f \in FlowId |-> IF due[f] # NotIn THEN NoFlow ELSE flow[f]]
  /\ due' = [f \in FlowId |-> NotIn]
  /\ UNCHANGED <<lastTs, tick, updateMap, log>>

Next ==
  \/ \E k \in Key, ts \in Time, d \in Dir, len \in PacketLen : Recv(k, ts, d, len)
  \/ Destroy

Spec == Init /\ [][Next]_vars

-----------------------------------------------------------------------------
(* A session has one flow: get() in front of put() keeps the keys of the   *)
(* table's nodes distinct, over renewals and reports.                      *)
OneFlowPerKey ==
  \A f, g \in FlowId :
    (due[f] # NotIn /\ due[g] # NotIn /\ flow[f].key = flow[g].key) => f = g

(* A Flow object is in the table until it is deleted: none is popped and   *)
(* then neither put back nor reported.                                     *)
NoFlowLost == \A f \in FlowId : flow[f] # NoFlow => due[f] # NotIn

(* The table's clock and the packet clock agree on how old a lease is: a   *)
(* flow is looked at again Timeout seconds after its refresh at the        *)
(* latest, plus the lag its first packet had.                              *)
LeaseBounded ==
  \A f \in FlowId :
    due[f] # NotIn =>
      /\ tick <= due[f]
      /\ due[f] + lastTs <= tick + flow[f].refreshed + Timeout + MaxLag

Bytes(g) == g.size["L2R"] + g.size["R2L"]

Reported(k) == {g \in log : g.key = k}
Live(k) == {f \in FlowId : flow[f] # NoFlow /\ flow[f].key = k}
ReportedBytes(k) == MapThenSumSet(Bytes, Reported(k))
LiveBytes(k) == MapThenSumSet(LAMBDA f : Bytes(flow[f]), Live(k))

(* Every byte received is in a live flow or was reported, once.            *)
BytesConserved == alive => \A k \in Key : updateMap[k] = ReportedBytes(k) + LiveBytes(k)

(* A flow is not reported while its session is active: Timeout passes      *)
(* without a packet first.  README.md:106 and flow.cc:79 read so.          *)
KeptWhileActive ==
  [][\A f \in FlowId :
       (alive' /\ flow[f] # NoFlow /\ flow'[f] = NoFlow) =>
         lastTs' - flow[f].updated >= Timeout]_vars

(* flow.log is not sent before the flow was in the cache for its time to   *)
(* live.                                                                   *)
MinimumLifetime ==
  [][\A f \in FlowId :
       (alive' /\ flow[f] # NoFlow /\ flow'[f] = NoFlow) =>
         lastTs' - flow[f].created > Timeout]_vars

-----------------------------------------------------------------------------
(* The inductive invariant behind OneFlowPerKey, LeaseBounded, NoFlowLost  *)
(* and MinimumLifetime.                                                    *)

NothingYet == lastTs = 0 => \A f \in FlowId : flow[f] = NoFlow

(* The table's nodes are Flows, no time of which is later than last_ts_.   *)
NodesAreFlows ==
  \A f \in FlowId :
    /\ due[f] # NotIn => flow[f] # NoFlow
    /\ flow[f] # NoFlow =>
         lastTs >= flow[f].updated /\ lastTs >= flow[f].refreshed

(* due[f] - tick is what remains of a lease: it ends no earlier than       *)
(* Timeout after the flow's first packet, in packet time.                  *)
LeaseLongEnough ==
  \A f \in FlowId :
    due[f] # NotIn => due[f] + lastTs >= tick + flow[f].created + Timeout

FlowInv ==
  /\ TypeOK /\ NothingYet /\ NodesAreFlows
  /\ LeaseBounded /\ LeaseLongEnough /\ OneFlowPerKey

(* What BytesConserved rests on besides.  A session's flows are apart in   *)
(* time: one is opened after the last one's timeout, so no report equals   *)
(* an earlier one.                                                         *)
FlowsApart ==
  \A g \in log :
    /\ g.created + Timeout < lastTs
    /\ \A f \in Live(g.key) : g.created < flow[f].created

(* No counter has overflowed and there are finitely many reports.          *)
Counted ==
  /\ \A f \in FlowId : flow[f] # NoFlow => flow[f].size \in [Dir -> Nat]
  /\ \A g \in log : g.size \in [Dir -> Nat]
  /\ \A k \in Key : IsFiniteSet(Reported(k)) /\ ReportedBytes(k) \in Nat

BytesInv == FlowInv /\ NoFlowLost /\ FlowsApart /\ Counted /\ BytesConserved

=============================================================================
