------------------------------ MODULE FlowRecv ------------------------------
(***************************************************************************)
(* ModFlow::recv() and ~ModFlow() call by call: each prog(), pop(), put(), *)
(* get() and purge() on flow_table_ is a step of its own, taken by the     *)
(* table that LRUTable.tla specifies and LRUHash.tla implements.           *)
(* ModFlow.tla treats recv() as one step over deadlines alone; this module *)
(* shows that the sequence of table calls comes to that, whatever order    *)
(* pop() chooses, and that the loop over pop() ends.                       *)
(*                                                                         *)
(* The table's keys are fixed per node, so a heap cell holds flows of one  *)
(* session only; Table is given ModFlow's tick for its clock.              *)
(***************************************************************************)
EXTENDS ModFlow, Sequences

CONSTANTS
  KeyOf,     \* KeyOf[f], the session whose flows heap cell f may hold
  Null,      \* the NULL pointer
  MaxNow     \* bound on the table's clock, past all of Time

ASSUME FlowRecvAssumption ==
  /\ KeyOf \in [FlowId -> Key]
  /\ Null \notin FlowId
  /\ MaxNow \in Nat /\ \A t \in Time : t <= MaxNow

VARIABLES
  byKey,     \* the table's chains
  expired,   \* the nodes that wait for pop()
  ret,       \* what the last table call returned
  pc,        \* where recv() or ~ModFlow() is, "idle" between calls
  packet,    \* the packet recv() was called with
  found,     \* recv()'s local `flow' after the lookup
  atCall     \* ModFlow's state when the current call began

state == <<lastTs, tick, flow, due, updateMap, log, alive>>
callVars == <<state, byKey, expired, ret, pc, packet, found, atCall>>

Table == INSTANCE LRUTable
           WITH Node <- FlowId, Capacity <- Slots, Ttls <- {}, Ticks <- {}, now <- tick

Packet == [key : Key, ts : Time, dir : Dir, len : PacketLen]

Seen == [lastTs |-> lastTs, tick |-> tick, flow |-> flow, due |-> due,
         updateMap |-> updateMap, log |-> log, alive |-> alive]

CallTypeOK ==
  /\ TypeOK
  /\ byKey \in [Key -> Seq(FlowId)]
  /\ expired \subseteq FlowId
  /\ pc \in {"idle", "clock", "sweep", "lapsed", "lookup", "create", "account", "drain"}
  /\ pc = "lapsed" => ret \in FlowId
  /\ pc = "account" => found \in FlowId
  /\ pc \notin {"idle", "drain"} => packet \in Packet

CallInit ==
  /\ Init
  /\ Table!Init
  /\ pc = "idle"
  /\ packet = Null
  /\ found = Null
  /\ atCall = Null

-----------------------------------------------------------------------------
(* A definition named ...Wrong is the one that follows it with a plausible *)
(* slip, as in ModFlow.tla.                                                *)

(* The locals of a call are gone when it returns.                          *)
Return == pc' = "idle" /\ packet' = Null /\ found' = Null /\ atCall' = Null

Call(p) ==
  /\ pc = "idle" /\ alive
  /\ p.ts >= lastTs - MaxLag
  /\ updateMap[p.key] + p.len <= MaxBytes
  /\ pc' = "clock"
  /\ packet' = p
  /\ atCall' = Seen
  /\ UNCHANGED <<state, byKey, expired, ret, found>>

(* The first packet, or one not newer than the newest, leaves the table as *)
(* it is.                                                                  *)
KeepClock ==
  /\ pc = "clock"
  /\ lastTs = 0 \/ lastTs >= packet.ts
  /\ lastTs' = IF lastTs = 0 THEN packet.ts ELSE lastTs
  /\ pc' = "lookup"
  /\ UNCHANGED <<tick, flow, due, updateMap, log, alive, byKey, expired, ret,
                 packet, found, atCall>>

MoveClock ==
  /\ pc = "clock"
  /\ lastTs # 0 /\ lastTs < packet.ts
  /\ Table!Prog(packet.ts - lastTs)
  /\ lastTs' = packet.ts
  /\ pc' = "sweep"
  /\ UNCHANGED <<flow, updateMap, log, alive, packet, found, atCall>>

(* The loop's condition is lost.                                           *)
SweepForeverWrong ==
  /\ pc = "sweep"
  /\ Table!Pop
  /\ pc' = IF ret' = Null THEN "sweep" ELSE "lapsed"
  /\ UNCHANGED <<lastTs, flow, updateMap, log, alive, packet, found, atCall>>

Sweep ==
  /\ pc = "sweep"
  /\ Table!Pop
  /\ pc' = IF ret' = Null THEN "lookup" ELSE "lapsed"
  /\ UNCHANGED <<lastTs, flow, updateMap, log, alive, packet, found, atCall>>

(* "delete flow" behind both branches.                                     *)
RenewDeletesWrong ==
  /\ pc = "lapsed" /\ Remain(ret) > 0
  /\ Table!Put(ret, Remain(ret))
  /\ flow' = [flow EXCEPT ![ret] = NoFlow]
  /\ pc' = "sweep"
  /\ UNCHANGED <<lastTs, updateMap, log, alive, packet, found, atCall>>

(* Only a lease shorter than the timeout is renewed.                       *)
RenewBelowTimeoutWrong ==
  /\ pc = "lapsed" /\ Remain(ret) > 0
  /\ IF Remain(ret) < Timeout THEN Table!Put(ret, Remain(ret))
                              ELSE UNCHANGED <<tick, due, byKey, expired, ret>>
  /\ flow' = [flow EXCEPT ![ret].refreshed = packet.ts]
  /\ pc' = "sweep"
  /\ UNCHANGED <<lastTs, updateMap, log, alive, packet, found, atCall>>

(* The popped flow was used: it goes back, for as long as it was.          *)
Renew ==
  /\ pc = "lapsed" /\ Remain(ret) > 0
  /\ Table!Put(ret, Remain(ret))
  /\ flow' = [flow EXCEPT ![ret].refreshed = packet.ts]
  /\ pc' = "sweep"
  /\ UNCHANGED <<lastTs, updateMap, log, alive, packet, found, atCall>>

(* The loop ends with the first flow that is reported.                     *)
ReportEndsSweepWrong ==
  /\ pc = "lapsed" /\ Remain(ret) = 0
  /\ log' = log \union {flow[ret]}
  /\ flow' = [flow EXCEPT ![ret] = NoFlow]
  /\ pc' = "lookup"
  /\ UNCHANGED <<lastTs, tick, due, updateMap, alive, byKey, expired, ret,
                 packet, found, atCall>>

(* It was not: flow.log is sent and the flow deleted.                      *)
Report ==
  /\ pc = "lapsed" /\ Remain(ret) = 0
  /\ log' = log \union {flow[ret]}
  /\ flow' = [flow EXCEPT ![ret] = NoFlow]
  /\ pc' = "sweep"
  /\ UNCHANGED <<lastTs, tick, due, updateMap, alive, byKey, expired, ret,
                 packet, found, atCall>>

(* The result of get() is not compared with NULL.                          *)
LookupUncheckedWrong ==
  /\ pc = "lookup"
  /\ Table!Get(packet.key)
  /\ found' = ret'
  /\ pc' = "account"
  /\ UNCHANGED <<lastTs, flow, updateMap, log, alive, packet, atCall>>

Lookup ==
  /\ pc = "lookup"
  /\ Table!Get(packet.key)
  /\ found' = ret'
  /\ pc' = IF ret' = Null THEN "create" ELSE "account"
  /\ UNCHANGED <<lastTs, flow, updateMap, log, alive, packet, atCall>>

(* A new Flow is allocated; flow.new is sent and put() takes the flow.  As *)
(* in ModFlow.tla, which tells flows apart by their cells, a cell that was *)
(* freed in this call is not allocated again before the next.              *)
Create ==
  /\ pc = "create"
  /\ \E f \in FlowId :
       /\ flow[f] = NoFlow /\ atCall.flow[f] = NoFlow
       /\ KeyOf[f] = packet.key
       /\ flow' = [flow EXCEPT ![f] = NewFlow(packet.key, packet.ts)]
       /\ Table!Put(f, Timeout)
       /\ found' = f
  /\ pc' = "account"
  /\ UNCHANGED <<lastTs, updateMap, log, alive, packet, atCall>>

Account ==
  /\ pc = "account"
  /\ flow' = [flow EXCEPT ![found] = Updated(@, packet.ts, packet.dir, packet.len)]
  /\ updateMap' = [updateMap EXCEPT ![packet.key] = @ + packet.len]
  /\ Return
  /\ UNCHANGED <<lastTs, tick, due, log, alive, byKey, expired, ret>>

(* ~ModFlow()                                                              *)
Delete ==
  /\ pc = "idle" /\ alive
  /\ Table!Purge
  /\ alive' = FALSE
  /\ pc' = "drain"
  /\ atCall' = Seen
  /\ UNCHANGED <<lastTs, flow, updateMap, log, packet, found>>

Drain ==
  /\ pc = "drain"
  /\ Table!Pop
  /\ IF ret' = Null
       THEN Return /\ UNCHANGED flow
       ELSE flow' = [flow EXCEPT ![ret'] = NoFlow] /\ UNCHANGED <<pc, packet, found, atCall>>
  /\ UNCHANGED <<lastTs, updateMap, log, alive>>

Step ==
  \/ KeepClock \/ MoveClock
  \/ Sweep \/ Renew \/ Report
  \/ Lookup \/ Create \/ Account
  \/ Drain

CallNext == (\E p \in Packet : Call(p)) \/ Step \/ Delete

(* Once called, the code runs: it is the program's one thread.             *)
CallSpec == CallInit /\ [][CallNext]_callVars /\ WF_callVars(Step)

-----------------------------------------------------------------------------
(* What is seen of the module between calls.                               *)
Shown == IF pc = "idle" THEN Seen ELSE atCall

Atomic == INSTANCE ModFlow
            WITH lastTs <- Shown.lastTs, tick <- Shown.tick, flow <- Shown.flow,
                 due <- Shown.due, updateMap <- Shown.updateMap,
                 log <- Shown.log, alive <- Shown.alive

(* The sequence of table calls implements ModFlow.tla: each step leaves    *)
(* what is seen as it is, or it is the return of recv() and comes to Recv  *)
(* for that packet, or the return of ~ModFlow() and comes to Destroy.      *)
(* Atomic!Spec follows.                                                    *)
ImplementsModFlow ==
  Atomic!Init /\
  [][\/ UNCHANGED Atomic!vars
     \/ pc = "account" /\ Atomic!Recv(packet.key, packet.ts, packet.dir, packet.len)
     \/ pc = "drain" /\ Atomic!Destroy]_(Atomic!vars)

(* recv() may delete what it popped and reported, nothing else: at every   *)
(* table call, all nodes that the table can reach are Flow objects of the  *)
(* session they are filed under.                                           *)
TableHoldsFlows ==
  /\ \A f \in FlowId : due[f] # NotIn \/ f \in expired => flow[f] # NoFlow
  /\ \A k \in Key : \A i \in DOMAIN byKey[k] :
       flow[byKey[k][i]] # NoFlow /\ flow[byKey[k][i]].key = k

(* In the middle of a sweep too, each flow is in the table, waits for      *)
(* pop(), or is the one in recv()'s hands.                                 *)
FlowOwned ==
  \A f \in FlowId :
    flow[f] # NoFlow => due[f] # NotIn \/ f \in expired \/ (pc = "lapsed" /\ ret = f)

(* Each call returns: putting flows back while popping does not keep the   *)
(* loop over pop() going.                                                  *)
CallReturns == pc # "idle" ~> pc = "idle"

-----------------------------------------------------------------------------
(* Why these hold: where each call stands between its table calls, as a    *)
(* whole inductive.                                                        *)

(* What ModFlow's sweep makes of the state the call began with.            *)
ToBe ==
  [tick |-> Shown.tick + Atomic!Elapsed(packet.ts),
   lapsed |-> Atomic!Lapsed(tick), finished |-> Atomic!Finished(tick),
   flow |-> Atomic!SweptFlow(tick, packet.ts), due |-> Atomic!SweptDue(tick),
   found |-> Atomic!Found(packet.key, tick)]

(* Popped, not yet put back or reported, or still to be popped.            *)
InHands(f) == f \in expired \/ (pc = "lapsed" /\ ret = f)

Waiting(f, s) == f \in s.lapsed /\ flow[f] = atCall.flow[f] /\ due[f] = NotIn

Swept(f, s) == flow[f] = s.flow[f] /\ due[f] = s.due[f]

Opening(f, s) ==
  /\ s.found = {} /\ atCall.flow[f] = NoFlow /\ KeyOf[f] = packet.key
  /\ flow[f] = NewFlow(packet.key, packet.ts) /\ due[f] = tick + Timeout

Shape ==
  /\ byKey \in [Key -> Seq(FlowId)] /\ expired \subseteq FlowId
  /\ pc \in {"idle", "clock", "sweep", "lapsed", "lookup", "create", "account", "drain"}
  /\ pc # "idle" => atCall.alive
  /\ pc \notin {"idle", "drain"} =>
       /\ alive = TRUE /\ packet \in Packet
       /\ packet.ts >= atCall.lastTs - MaxLag
       /\ atCall.updateMap[packet.key] + packet.len <= MaxBytes

(* The chains hold the nodes in the table, and only there.                 *)
ChainsMatch ==
  /\ \A k \in Key : \A i \in DOMAIN byKey[k] :
       KeyOf[byKey[k][i]] = k /\ due[byKey[k][i]] # NotIn
  /\ \A f \in FlowId :
       due[f] # NotIn => \E i \in DOMAIN byKey[KeyOf[f]] : byKey[KeyOf[f]][i] = f
  /\ \A f \in FlowId : InHands(f) => due[f] = NotIn
  /\ \A f \in FlowId : Shown.flow[f] # NoFlow => Shown.flow[f].key = KeyOf[f]

AtRest == pc \in {"idle", "clock", "lookup", "create", "account"} => expired = {}

NotBegun == pc = "clock" => Seen = atCall

InSweep ==
  pc \in {"sweep", "lapsed", "lookup", "create", "account"} =>
    LET s == ToBe IN
    /\ tick = s.tick
    /\ lastTs = IF atCall.lastTs < packet.ts THEN packet.ts ELSE atCall.lastTs
    /\ updateMap = atCall.updateMap
    /\ log = atCall.log \union {atCall.flow[f] : f \in {g \in s.finished : ~InHands(g)}}
    /\ flow \in [FlowId -> Flow \union {NoFlow}] /\ due \in [FlowId -> Nat \union {NotIn}]
    /\ \A f \in FlowId :
         IF InHands(f) THEN Waiting(f, s)
         ELSE Swept(f, s) \/ (pc = "account" /\ found = f /\ Opening(f, s))
    /\ pc = "lapsed" => ret \in FlowId /\ ret \notin expired
    /\ pc = "create" => s.found = {}
    /\ pc = "account" => found \in FlowId /\ (found \in s.found \/ Opening(found, s))

InDrain ==
  pc = "drain" =>
    /\ alive = FALSE /\ lastTs = atCall.lastTs /\ tick = atCall.tick
    /\ updateMap = atCall.updateMap /\ log = atCall.log
    /\ due = [f \in FlowId |-> NotIn]
    /\ \A f \in expired : atCall.due[f] # NotIn
    /\ flow = [f \in FlowId |->
                 IF f \in expired \/ atCall.due[f] = NotIn THEN atCall.flow[f] ELSE NoFlow]

CallInv ==
  Atomic!FlowInv /\ Shape /\ ChainsMatch /\ AtRest /\ NotBegun /\ InSweep /\ InDrain

=============================================================================
