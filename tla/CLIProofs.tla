----------------------------- MODULE CLIProofs ------------------------------
(***************************************************************************)
(* What holds of a Devourer for every owner, whatever packets come and     *)
(* whichever calls fail: a capture only runs with every module set up, and *)
(* after one no message is sent through a NULL logger.                     *)
(***************************************************************************)
EXTENDS CLI, SequenceTheorems, TLAPS

(* The three modules and their number.                                     *)
LEMMA ModFacts ==
  /\ Mod = {"dns", "flow", "local"}
  /\ Len(Installed) = 3
  /\ Installed[1] = "dns" /\ Installed[2] = "flow" /\ Installed[3] = "local"
  /\ Installed \in Seq(Mod)
BY DEF Mod, Installed, ToSet

(* Two and three modules, appended one by one.                             *)
LEMMA AppendModules ==
  ASSUME NEW a \in Mod, NEW b \in Mod, NEW c \in Mod
  PROVE  Append(<<a>>, b) = <<a, b>> /\ Append(<<a, b>>, c) = <<a, b, c>>
<1>1. Append(<<a>>, b) = <<a, b>>
  <2> DEFINE t == Append(<<a>>, b)  u == <<a, b>>
  <2>1. t \in Seq(Mod) /\ u \in Seq(Mod) /\ Len(t) = 2 /\ Len(u) = 2
    OBVIOUS
  <2>2. \A i \in 1..2 : t[i] = u[i]
    OBVIOUS
  <2> QED
    BY <2>1, <2>2, SeqEqual
<1>2. Append(<<a, b>>, c) = <<a, b, c>>
  <2> DEFINE t == Append(<<a, b>>, c)  u == <<a, b, c>>
  <2>1. t \in Seq(Mod) /\ u \in Seq(Mod) /\ Len(t) = 3 /\ Len(u) = 3
    OBVIOUS
  <2>2. \A i \in 1..3 : t[i] = u[i]
    OBVIOUS
  <2> QED
    BY <2>1, <2>2, SeqEqual
<1> QED
  BY <1>1, <1>2

(* A module stays registered as long as handlers and bound only grow.      *)
LEMMA RegisteredStays ==
  ASSUME NEW m \in Mod, Registered(m), handlers \subseteq handlers', bound \subseteq bound'
  PROVE  Registered(m)'
BY DEF Registered, Hears

(* install_module() registers all events of its module.                    *)
LEMMA RegisterRegisters ==
  ASSUME NEW m \in Mod, Register(m, ToSet(RecvEvent[m]))
  PROVE  /\ Registered(m)'
         /\ handlers \subseteq handlers' /\ bound \subseteq bound'
<1>1. \A i \in DOMAIN RecvEvent[m] : RecvEvent[m][i] \in ToSet(RecvEvent[m])
  BY DEF ToSet
<1>2. \A e \in ToSet(RecvEvent[m]) :
        <<e, m>> \in handlers' /\ (m = "dns" \/ <<e, m>> \in bound')
  BY DEF Register
<1>3. handlers \subseteq handlers' /\ bound \subseteq bound'
  BY DEF Register
<1> QED
  BY <1>1, <1>2, <1>3 DEF Registered, Hears

(* A program that has no Devourer yet is in a legal state.                 *)
LEMMA LifeInit == Init => LifeInv
BY ModFacts DEF Init, LifeInv, Constructed, SettingUp, LoggersStay, Phase

-----------------------------------------------------------------------------
(* While the constructor, start() or the destructor is not at work, a step *)
(* that leaves the object, its loggers and netcap_ alone keeps LifeInv.    *)
LEMMA QuietStep ==
  ASSUME LifeInv, at \in {"idle", "delete"}, at' \in {"idle", "delete", "deleted"},
         UNCHANGED <<object, logger, started>>, tasks' \in [Mod -> Nat]
  PROVE  LifeInv'
<1>1. \A m \in Mod : Registered(m)'
  BY RegisteredStays DEF LifeInv, Constructed, object
<1>2. Constructed'
  BY <1>1 DEF LifeInv, Constructed, object
<1>3. SettingUp'
  BY DEF SettingUp
<1>4. LoggersStay'
  BY DEF LifeInv, LoggersStay
<1> QED
  BY <1>2, <1>3, <1>4 DEF LifeInv, Phase

(* The constructor: every step installs one module, with all its events.   *)
LEMMA InstallStep ==
  ASSUME LifeInv, InstallModule
  PROVE  LifeInv'
<1> next \in 1..3 /\ Installed[next] \in Mod
  BY ModFacts DEF LifeInv, Constructed, InstallModule
<1> PICK m \in Mod : m = Installed[next]
  OBVIOUS
<1>1. /\ at = "install" /\ ~started /\ ~started'
      /\ UNCHANGED <<logger, tasks, started>>
      /\ next \in 1..3
      /\ modules' = Append(modules, m)
      /\ Register(m, ToSet(RecvEvent[m]))
      /\ IF next = 3 THEN at' = "idle" /\ next' = 1 ELSE next' = next + 1 /\ at' = at
  BY ModFacts DEF LifeInv, Constructed, InstallModule, capture
<1>3. /\ Registered(m)'
      /\ handlers \subseteq handlers' /\ bound \subseteq bound'
  BY <1>1, RegisterRegisters
<1>4. \A i \in 1..next : Registered(Installed[i])'
  <2> SUFFICES ASSUME NEW i \in 1..next PROVE Registered(Installed[i])'
    OBVIOUS
  <2>1. CASE i = next
    BY <2>1, <1>3
  <2>2. CASE i # next
    <3>1. i \in 1..next - 1 /\ Installed[i] \in Mod
      BY <2>2, <1>1, ModFacts
    <3>2. Registered(Installed[i])
      BY <3>1, <1>1 DEF LifeInv, Constructed
    <3> QED
      BY <3>1, <3>2, <1>3, RegisteredStays
  <2> QED
    BY <2>1, <2>2
<1>5. \/ next = 1 /\ modules' = <<"dns">>
      \/ next = 2 /\ modules' = <<"dns", "flow">>
      \/ next = 3 /\ modules' = Installed
  <2>1. CASE next = 1 /\ modules = <<>>
    BY <2>1, <1>1, ModFacts
  <2>2. CASE next = 2 /\ modules = <<"dns">>
    <3>1. modules' = Append(<<"dns">>, "flow")
      BY <2>2, <1>1, ModFacts
    <3> QED
      BY <2>2, <3>1, ModFacts, AppendModules
  <2>3. CASE next = 3 /\ modules = <<"dns", "flow">>
    <3>1. modules' = Append(<<"dns", "flow">>, "local")
      BY <2>3, <1>1, ModFacts
    <3> QED
      BY <2>3, <3>1, ModFacts, AppendModules DEF Installed
  <2> QED
    BY <2>1, <2>2, <2>3, <1>1 DEF LifeInv, Constructed
<1>6. Constructed'
  <2>1. CASE next = 3
    <3>1. \A k \in Mod : Registered(k)'
      <4> SUFFICES ASSUME NEW k \in Mod PROVE Registered(k)'
        OBVIOUS
      <4>1. \E i \in 1..next : k = Installed[i]
        BY <2>1, ModFacts
      <4> QED
        BY <4>1, <1>4
    <3> QED
      BY <2>1, <3>1, <1>1, <1>5 DEF Constructed
  <2>2. CASE next # 3
    <3>1. at' = "install" /\ next' = next + 1 /\ next' - 1 = next
      BY <2>2, <1>1
    <3> QED
      BY <2>2, <3>1, <1>1, <1>4, <1>5 DEF Constructed
  <2> QED
    BY <2>1, <2>2
<1>7. at' \in {"idle", "install"}
  BY <1>1
<1> QED
  BY <1>1, <1>6, <1>7 DEF LifeInv, SettingUp, LoggersStay, Phase

(* start(): when its loop ends, every module has its logger and one task.  *)
LEMMA SetupStep ==
  ASSUME LifeInv, SetupModule
  PROVE  LifeInv'
<1>0. /\ at = "setup" /\ modules = Installed
      /\ next \in 1..3 /\ Installed[next] \in Mod
  <2>1. at = "setup" /\ modules = Installed
    BY DEF LifeInv, Constructed, SetupModule
  <2>2. next \in 1..4 /\ next <= 3
    BY <2>1, ModFacts DEF LifeInv, SettingUp, SetupModule
  <2> QED
    BY <2>1, <2>2, ModFacts
<1> PICK m \in Mod : m = Installed[next]
  BY <1>0
<1>1. /\ at = "setup" /\ modules = Installed /\ next \in 1..3
      /\ tasks' = [tasks EXCEPT ![m] = @ + 1]
      /\ logger' = [logger EXCEPT ![m] = TRUE]
      /\ next' = next + 1
      /\ UNCHANGED <<at, object, netcap, decoding, started>>
  BY <1>0 DEF SetupModule, TaskInterval
<1>2. logger' \in [Mod -> BOOLEAN] /\ tasks' \in [Mod -> Nat]
  BY <1>1 DEF LifeInv
<1>3. Constructed'
  <2>1. \A k \in Mod : Registered(k)'
    BY <1>1, RegisteredStays DEF LifeInv, Constructed, object
  <2> QED
    BY <2>1, <1>1 DEF Constructed, object
<1>4. SettingUp'
  <2>1. next' \in 1..Len(Installed) + 1
    BY <1>1, ModFacts
  <2>2. ASSUME NEW i \in 1..3
        PROVE  /\ i < next' => logger'[Installed[i]] /\ tasks'[Installed[i]] = 1
               /\ i >= next' => tasks'[Installed[i]] = 0
    <3>1. CASE i = next
      BY <3>1, <1>1, ModFacts DEF LifeInv, SettingUp
    <3>2. CASE i # next
      <4>1. Installed[i] \in Mod /\ Installed[i] # m
        BY <3>2, <1>1, ModFacts
      <4> QED
        BY <4>1, <3>2, <1>1, ModFacts DEF LifeInv, SettingUp
    <3> QED
      BY <3>1, <3>2
  <2> QED
    BY <2>1, <2>2, <1>1, ModFacts DEF LifeInv, SettingUp
<1>5. LoggersStay'
  BY <1>1 DEF LifeInv, LoggersStay
<1> QED
  BY <1>1, <1>2, <1>3, <1>4, <1>5 DEF LifeInv

(* A packet: no handler sends without a logger once a capture was reached. *)
LEMMA RecvStep ==
  ASSUME LifeInv, NEW pkt \in Packet, Recv(pkt)
  PROVE  LifeInv'
<1>1. /\ at \in {"idle", "capture"}
      /\ at' \in {at, "crashed"}
      /\ UNCHANGED <<next, object, logger, capture, started>>
      /\ (\A m \in Mod : logger[m]) => at' = at
  BY DEF Recv
<1>2. Constructed'
  <2>1. \A m \in Mod : Registered(m)'
    BY <1>1, RegisteredStays DEF LifeInv, Constructed, object
  <2> QED
    BY <2>1, <1>1 DEF LifeInv, Constructed, object
<1>3. SettingUp' /\ LoggersStay'
  BY <1>1 DEF LifeInv, SettingUp, LoggersStay, capture
<1> QED
  BY <1>1, <1>2, <1>3 DEF LifeInv, Phase, capture

-----------------------------------------------------------------------------
(* Every step of a Devourer keeps LifeInv, whoever makes its calls.        *)
LEMMA LifeStep ==
  ASSUME LifeInv, [DevNext]_devVars
  PROVE  LifeInv'
<1> USE DEF object, capture, losses, traffic
<1>1. ASSUME NEW s \in Source, New(s) PROVE LifeInv'
  BY <1>1, ModFacts DEF New, LifeInv, Constructed, SettingUp, LoggersStay, Phase
<1>2. ASSUME NEW d \in Dest, AddDest(d) PROVE LifeInv'
  BY <1>2, QuietStep DEF AddDest, LifeInv
<1>3. CASE SetdstFluentdThrows
  BY <1>3, QuietStep DEF SetdstFluentdThrows, LifeInv
<1>4. CASE StartUnready
  BY <1>4, QuietStep, ModFacts DEF StartUnready, NewNetcap, LifeInv
<1>5. CASE Start
  <2>1. /\ at = "idle" /\ at' = "setup" /\ next' = 1
        /\ netcap' = "ready" /\ decoding' /\ tasks' = [m \in Mod |-> 0]
        /\ UNCHANGED <<object, logger, started>>
    BY <1>5 DEF Start, NewNetcap
  <2>2. Constructed'
    BY <2>1, RegisteredStays DEF LifeInv, Constructed
  <2>3. SettingUp'
    BY <2>1, ModFacts DEF SettingUp
  <2>4. LoggersStay'
    BY <2>1 DEF LifeInv, LoggersStay
  <2>5. tasks' \in [Mod -> Nat]
    BY <2>1
  <2> QED
    BY <2>1, <2>2, <2>3, <2>4, <2>5 DEF LifeInv, Phase
<1>6. CASE Delete
  BY <1>6, QuietStep DEF Delete, LifeInv
<1>7. CASE InstallModule
  BY <1>7, InstallStep
<1>8. CASE InstallThrows
  BY <1>8 DEF InstallThrows, LifeInv, Constructed, SettingUp, LoggersStay, Phase
<1>9. CASE SetupModule
  BY <1>9, SetupStep
<1>10. CASE SetupThrows
  <2>1. Constructed'
    BY <1>10, RegisteredStays DEF SetupThrows, LifeInv, Constructed
  <2> QED
    BY <1>10, <2>1 DEF SetupThrows, LifeInv, SettingUp, LoggersStay, Phase
<1>11. CASE Run
  <2>1. /\ at = "setup" /\ at' = "capture" /\ started'
        /\ UNCHANGED <<object, logger, capture>>
        /\ modules = Installed /\ next > 3
    BY <1>11, ModFacts DEF Run, LifeInv, Constructed
  <2>2. \A m \in Mod : logger[m] /\ tasks[m] = 1
    <3>1. \A i \in 1..3 : i < next /\ logger[Installed[i]] /\ tasks[Installed[i]] = 1
      BY <2>1, ModFacts DEF LifeInv, SettingUp
    <3> QED
      BY <3>1, ModFacts
  <2>3. Constructed'
    BY <2>1, RegisteredStays DEF LifeInv, Constructed
  <2> QED
    BY <2>1, <2>2, <2>3 DEF LifeInv, SettingUp, LoggersStay, Phase
<1>12. CASE FlushReplied \/ FlushUnanswered \/ DeleteModule
  <2>1. /\ at = "delete" /\ UNCHANGED <<object, logger, capture, started>>
        /\ at' \in {at, "crashed"}
        /\ (\A m \in Mod : logger[m]) => at' = at
    BY <1>12, ModFacts
    DEF FlushReplied, FlushUnanswered, DeleteModule, DeleteDns, DeleteFlow, DeleteLocal, Deleting
  <2>2. Constructed'
    BY <2>1, RegisteredStays DEF LifeInv, Constructed
  <2> QED
    BY <2>1, <2>2 DEF LifeInv, SettingUp, LoggersStay, Phase
<1>13. CASE Deleted
  BY <1>13, QuietStep DEF Deleted, LifeInv
<1>14. CASE CaptureEnds
  <2>1. Constructed'
    BY <1>14, RegisteredStays DEF CaptureEnds, LifeInv, Constructed
  <2> QED
    BY <1>14, <2>1 DEF CaptureEnds, LifeInv, SettingUp, LoggersStay, Phase
<1>15. ASSUME NEW pkt \in Packet, Recv(pkt) PROVE LifeInv'
  BY <1>15, RecvStep
<1>16. CASE UNCHANGED devVars
  <2>1. Constructed'
    BY <1>16, RegisteredStays DEF devVars, LifeInv, Constructed, Registered, Hears
  <2> QED
    BY <1>16, <2>1 DEF devVars, LifeInv, SettingUp, LoggersStay
<1> QED
  BY <1>1, <1>2, <1>3, <1>4, <1>5, <1>6, <1>7, <1>8, <1>9, <1>10, <1>11, <1>12,
     <1>13, <1>14, <1>15, <1>16
  DEF DevNext, Call, Inner, SetdstFilestream, SetdstMsgqueue, SetdstFluentd, Dest

(* main() and a client of the library only do what a Devourer offers.      *)
LEMMA OwnerSteps ==
  ASSUME [CLINext]_vars
  PROVE  [DevNext]_devVars
<1>1. CASE MainStep
  <2>1. CASE ShowVersion \/ Unspecified
    BY <2>1 DEF ShowVersion, Unspecified
  <2>2. CASE Construct
    BY <2>2 DEF Construct, DevNext, Call, Source
  <2>3. CASE Constructing
    BY <2>3 DEF Constructing, DevNext, Inner
  <2>4. CASE Output
    BY <2>4 DEF Output, DevNext, Call
  <2>5. CASE Fluentd
    BY <2>5 DEF Fluentd, DevNext, Call
  <2>6. CASE CallStart
    BY <2>6 DEF CallStart, DevNext, Call
  <2>7. CASE InStart(SetupModule \/ SetupThrows \/ Run)
    BY <2>7 DEF InStart, DevNext, Inner
  <2> QED
    BY <1>1, <2>1, <2>2, <2>3, <2>4, <2>5, <2>6, <2>7 DEF MainStep
<1>2. CASE MainCaptureEnds
  BY <1>2 DEF MainCaptureEnds, InStart, DevNext
<1>3. CASE MainRecv
  BY <1>3 DEF MainRecv, InStart, DevNext
<1>4. CASE LibraryStep
  BY <1>4 DEF LibraryStep
<1>5. CASE UNCHANGED vars
  BY <1>5 DEF vars
<1> QED
  BY <1>1, <1>2, <1>3, <1>4, <1>5 DEF CLINext

-----------------------------------------------------------------------------
(* LifeInv is an invariant of either owner's Devourer.                     *)
THEOREM LifeInvKept == CLISpec => []LifeInv
<1>1. CLIInit => LifeInv
  BY LifeInit DEF CLIInit
<1>2. LifeInv /\ [CLINext]_vars => LifeInv'
  BY LifeStep, OwnerSteps
<1> QED
  BY <1>1, <1>2, PTL DEF CLISpec

(* netcap_->start() is only reached with every module installed, hearing   *)
(* its events and holding its logger and one periodic task, whichever      *)
(* start() calls failed before.                                            *)
THEOREM CapturesReady == CLISpec => []CaptureReady
<1>1. LifeInv => CaptureReady
  BY DEF LifeInv, Constructed, SettingUp, LoggersStay, CaptureReady
<1> QED
  BY <1>1, LifeInvKept, PTL

(* After a start() that reached its capture, neither a packet nor a later  *)
(* failed start() nor the destructor finds a module with a NULL fluent_.   *)
THEOREM NoNullLogger == CLISpec => []LoggerOnceStarted
<1>1. LifeInv => LoggerOnceStarted
  BY DEF LifeInv, LoggersStay, LoggerOnceStarted
<1> QED
  BY <1>1, LifeInvKept, PTL

-----------------------------------------------------------------------------
(* The events a module asks for are among those netdec_ knows.             *)
LEMMA RecvEventFacts ==
  ASSUME NEW m \in Mod
  PROVE  ToSet(RecvEvent[m]) \subseteq Event
<1>1. /\ {"arp.request"} \in Packet
      /\ {"ipv4.packet", "dns.packet"} \in Packet
      /\ {"ipv6.packet", "mdns.packet"} \in Packet
  BY DEF Packet
<1>2. {"arp.request", "ipv4.packet", "ipv6.packet", "dns.packet", "mdns.packet"}
        \subseteq Event
  BY <1>1 DEF Event
<1>3. ToSet(DnsEvents) = {"dns.packet"}
  BY DEF ToSet, DnsEvents
<1>4. ToSet(FlowEvents) = {"ipv4.packet", "ipv6.packet"}
  BY DEF ToSet, FlowEvents
<1>5. ToSet(LocalEvents) = {"arp.request", "mdns.packet"}
  BY DEF ToSet, LocalEvents
<1>6. RecvEvent[m] \in {DnsEvents, FlowEvents, LocalEvents}
  BY ModFacts DEF RecvEvent
<1> QED
  BY <1>2, <1>3, <1>4, <1>5, <1>6

(* install_module() adds handlers of known events only, the same to bound. *)
LEMMA RegisterTypes ==
  ASSUME handlers \subseteq Event \X Mod, bound \subseteq handlers,
         NEW m \in Mod, NEW ev \in SUBSET Event, Register(m, ev)
  PROVE  handlers' \subseteq Event \X Mod /\ bound' \subseteq handlers'
BY DEF Register

(* modules_ while the constructor is at work.                              *)
Installing == {<<>>, <<"dns">>, <<"dns", "flow">>, Installed}

(* The constructor installs the modules one after another.                 *)
LEMMA InstalledParts == Installing = {SubSeq(Installed, 1, n) : n \in 0..Len(Installed)}
<1>1. SubSeq(Installed, 1, 0) = <<>>
  BY ModFacts
<1>2. SubSeq(Installed, 1, 1) = <<"dns">>
  <2> DEFINE t == SubSeq(Installed, 1, 1)  u == <<"dns">>
  <2>1. t \in Seq(Mod) /\ u \in Seq(Mod) /\ Len(t) = 1 /\ Len(u) = 1
    BY ModFacts
  <2>2. \A i \in 1..1 : t[i] = u[i]
    BY ModFacts
  <2> QED
    BY <2>1, <2>2, SeqEqual
<1>3. SubSeq(Installed, 1, 2) = <<"dns", "flow">>
  <2> DEFINE t == SubSeq(Installed, 1, 2)  u == <<"dns", "flow">>
  <2>1. t \in Seq(Mod) /\ u \in Seq(Mod) /\ Len(t) = 2 /\ Len(u) = 2
    BY ModFacts
  <2>2. \A i \in 1..2 : t[i] = u[i]
    BY ModFacts
  <2> QED
    BY <2>1, <2>2, SeqEqual
<1>4. SubSeq(Installed, 1, 3) = Installed
  <2> DEFINE t == SubSeq(Installed, 1, 3)  u == Installed
  <2>1. t \in Seq(Mod) /\ u \in Seq(Mod) /\ Len(t) = 3 /\ Len(u) = 3
    BY ModFacts
  <2>2. \A i \in 1..3 : t[i] = u[i]
    BY ModFacts
  <2> QED
    BY <2>1, <2>2, SeqEqual
<1>5. 0..Len(Installed) = {0, 1, 2, 3}
  BY ModFacts
<1> QED
  BY <1>1, <1>2, <1>3, <1>4, <1>5 DEF Installing

(* TypeOK, with the values of modules_ listed.                             *)
Types ==
  /\ at \in Phase
  /\ src \in Source \union {NoSource}
  /\ next \in 1..4
  /\ modules \in Installing
  /\ handlers \subseteq Event \X Mod
  /\ bound \subseteq handlers
  /\ logger \in [Mod -> BOOLEAN]
  /\ netcap \in {"NULL", "unready", "ready"}
  /\ decoding \in BOOLEAN
  /\ tasks \in [Mod -> Nat]
  /\ dests \subseteq Dest
  /\ threw \in BOOLEAN /\ started \in BOOLEAN
  /\ flows \subseteq Session
  /\ unanswered \subseteq Query
  /\ replied \subseteq Query \ unanswered
  /\ owed \subseteq Query
  /\ lost \subseteq Query

(* TypeOK and its conjuncts, one per variable.                             *)
LEMMA TypesListed == TypeOK <=> Types
BY ModFacts, InstalledParts DEF TypeOK, Types

(* The initial state is well typed.                                        *)
LEMMA TypesInit == Init => TypeOK
<1> SUFFICES ASSUME Init PROVE TypeOK
  OBVIOUS
<1>1. logger \in [Mod -> BOOLEAN] /\ tasks \in [Mod -> Nat]
  BY DEF Init
<1>2. decoding \in BOOLEAN /\ threw \in BOOLEAN /\ started \in BOOLEAN
  BY DEF Init
<1>3. at \in Phase /\ src \in Source \union {NoSource} /\ modules \in Installing
  BY DEF Init, Phase, Installing
<1> QED
  BY <1>1, <1>2, <1>3, TypesListed DEF Init, Types

(* The modules the constructor has appended are a prefix of the three.     *)
LEMMA ModulesGrow ==
  ASSUME LifeInv, LifeInv', TypeOK, [DevNext]_devVars
  PROVE  modules' \in Installing
<1>1. modules \in Installing
  BY TypesListed DEF Types
<1>2. modules' = modules \/ InstallModule
  BY DEF DevNext, devVars, Call, Inner, New, SetdstFilestream, SetdstMsgqueue, AddDest,
         SetdstFluentd, SetdstFluentdThrows, StartUnready, Start, Delete, InstallThrows,
         SetupModule, SetupThrows, Run, FlushReplied, FlushUnanswered, DeleteModule,
         Deleted, CaptureEnds, Recv, object
<1>3. CASE InstallModule
  <2>1. at' = "idle" \/ at' = "install"
    BY <1>3 DEF InstallModule
  <2> QED
    BY <2>1 DEF LifeInv, Constructed, Installing
<1> QED
  BY <1>1, <1>2, <1>3

(* The variables but modules_ keep their types.                            *)
LEMMA TypesStep ==
  ASSUME LifeInv, LifeInv', TypeOK, [DevNext]_devVars
  PROVE  TypeOK'
<1> USE DEF object, capture, losses, traffic
<1>1. /\ at' \in Phase /\ modules' \in Installing
      /\ logger' \in [Mod -> BOOLEAN] /\ tasks' \in [Mod -> Nat]
  BY ModulesGrow DEF LifeInv
<1>2. TypeOK' <=>
        /\ src' \in Source \union {NoSource}
        /\ next' \in 1..4
        /\ handlers' \subseteq Event \X Mod
        /\ bound' \subseteq handlers'
        /\ netcap' \in {"NULL", "unready", "ready"}
        /\ decoding' \in BOOLEAN
        /\ dests' \subseteq Dest
        /\ threw' \in BOOLEAN /\ started' \in BOOLEAN
        /\ flows' \subseteq Session
        /\ unanswered' \subseteq Query
        /\ replied' \subseteq Query \ unanswered'
        /\ owed' \subseteq Query /\ lost' \subseteq Query
  <2>1. TypeOK' <=> Types'
    BY TypesListed, PTL
  <2> QED
    BY <1>1, <2>1 DEF Types
<1>3. /\ src \in Source \union {NoSource}
      /\ next \in 1..4
      /\ handlers \subseteq Event \X Mod
      /\ bound \subseteq handlers
      /\ netcap \in {"NULL", "unready", "ready"}
      /\ decoding \in BOOLEAN
      /\ dests \subseteq Dest
      /\ threw \in BOOLEAN /\ started \in BOOLEAN
      /\ flows \subseteq Session
      /\ unanswered \subseteq Query
      /\ replied \subseteq Query \ unanswered
      /\ owed \subseteq Query /\ lost \subseteq Query
  BY TypesListed DEF Types
<1> HIDE DEF TypeOK, LifeInv
<1>4. ASSUME NEW s \in Source, New(s) PROVE TypeOK'
  BY <1>2, <1>3, <1>4 DEF New
<1>5. ASSUME NEW d \in Dest, AddDest(d) PROVE TypeOK'
  BY <1>2, <1>3, <1>5 DEF AddDest
<1>6. CASE SetdstFluentdThrows
  BY <1>2, <1>3, <1>6 DEF SetdstFluentdThrows
<1>7. CASE StartUnready \/ Start \/ Delete
  <2>1. /\ src' = src /\ next' \in {next, 1}
        /\ netcap' \in {"NULL", "unready", "ready"}
        /\ UNCHANGED <<handlers, bound, dests, started, flows, unanswered, replied, lost>>
        /\ owed' \in {owed, unanswered}
    BY <1>7 DEF StartUnready, Start, Delete, NewNetcap
  <2>2. decoding' \in {TRUE, FALSE} /\ threw' \in {TRUE, FALSE, threw}
    BY <1>7 DEF StartUnready, Start, Delete
  <2>3. decoding' \in BOOLEAN /\ threw' \in BOOLEAN
    BY <1>3, <2>2
  <2> QED
    BY <1>2, <1>3, <2>1, <2>3
<1>8. CASE InstallModule
  <2>1. PICK m \in Mod : m = Installed[next]
    <3>1. next \in 1..3
      BY <1>8, ModFacts DEF LifeInv, Constructed, InstallModule
    <3> QED
      BY <3>1, ModFacts
  <2>2. /\ Register(m, ToSet(RecvEvent[m]))
        /\ IF next = 3 THEN at' = "idle" /\ next' = 1 ELSE next' = next + 1 /\ at' = at
        /\ UNCHANGED <<src, logger, capture, dests, threw, started, traffic>>
        /\ at = "install"
    BY <1>8, <2>1, ModFacts DEF InstallModule
  <2>3. handlers' \subseteq Event \X Mod /\ bound' \subseteq handlers'
    BY <1>3, <2>2, RegisterTypes, RecvEventFacts
  <2>4. next' \in 1..4
    BY <1>3, <2>2, ModFacts DEF LifeInv, Constructed
  <2> QED
    BY <1>2, <1>3, <2>2, <2>3, <2>4
<1>9. CASE InstallThrows
  <2>1. PICK m \in Mod : m = Installed[next]
    <3>1. next \in 1..3
      BY <1>9, ModFacts DEF LifeInv, Constructed, InstallThrows
    <3> QED
      BY <3>1, ModFacts
  <2>2. PICK j \in DOMAIN RecvEvent[m] : Register(m, ToSet(SubSeq(RecvEvent[m], 1, j - 1)))
    BY <1>9, <2>1 DEF InstallThrows
  <2>3. ToSet(SubSeq(RecvEvent[m], 1, j - 1)) \subseteq Event
    <3> DEFINE t == RecvEvent[m]
               all == {"arp.request", "ipv4.packet", "ipv6.packet", "dns.packet", "mdns.packet"}
    <3>1. t \in Seq(all) /\ j \in 1..Len(t)
      <4>1. t \in {DnsEvents, FlowEvents, LocalEvents}
        BY ModFacts DEF RecvEvent
      <4>2. DnsEvents \in Seq(all) /\ FlowEvents \in Seq(all) /\ LocalEvents \in Seq(all)
        BY DEF DnsEvents, FlowEvents, LocalEvents
      <4> HIDE DEF t
      <4>3. t \in Seq(all)
        BY <4>1, <4>2
      <4>4. j \in DOMAIN t
        BY DEF t
      <4> QED
        BY <4>3, <4>4
    <3>2. \A l \in DOMAIN SubSeq(t, 1, j - 1) : l \in DOMAIN t /\ SubSeq(t, 1, j - 1)[l] = t[l]
      <4> HIDE DEF t
      <4> QED
        BY <3>1
    <3>3. ToSet(SubSeq(t, 1, j - 1)) \subseteq ToSet(t)
      <4> HIDE DEF t
      <4> QED
        BY <3>2 DEF ToSet
    <3> QED
      BY <3>3, RecvEventFacts
  <2>4. handlers' \subseteq Event \X Mod /\ bound' \subseteq handlers'
    BY <1>3, <2>2, <2>3, RegisterTypes
  <2>5. /\ threw' = TRUE
        /\ UNCHANGED <<next, src, modules, logger, capture, dests, started, traffic>>
    BY <1>9 DEF InstallThrows
  <2> QED
    BY <1>2, <1>3, <2>4, <2>5
<1>10. CASE SetupModule \/ DeleteModule
  <2>1. next \in 1..4 /\ next' = next + 1 /\ next <= Len(Installed)
    BY <1>3, <1>10
    DEF SetupModule, DeleteModule, DeleteDns, DeleteFlow, DeleteLocal, Deleting, LifeInv,
        Constructed
  <2>2. next' \in 1..4
    BY <2>1, ModFacts
  <2>3. CASE SetupModule
    BY <1>2, <1>3, <2>2, <2>3 DEF SetupModule
  <2>4. CASE DeleteModule
    <3>1. /\ UNCHANGED <<object, logger, capture, dests, threw, started>>
          /\ UNCHANGED <<unanswered, replied, losses>> /\ flows' \in {flows, {}}
      BY <2>4 DEF DeleteModule, DeleteDns, DeleteFlow, DeleteLocal
    <3> QED
      BY <1>2, <1>3, <2>2, <3>1
  <2> QED
    BY <1>10, <2>3, <2>4
<1>11. CASE SetupThrows \/ Run \/ CaptureEnds
  BY <1>2, <1>3, <1>11 DEF SetupThrows, Run, CaptureEnds
<1>12. CASE Deleted
  BY <1>2, <1>3, <1>12 DEF Deleted
<1>13. ASSUME NEW pkt \in Packet, Recv(pkt) PROVE TypeOK'
  <2>1. flows' \subseteq Session
    BY <1>3, <1>13 DEF Recv, RecvFlow
  <2>2. unanswered' \subseteq Query /\ replied' \subseteq Query \ unanswered'
    <3>1. UNCHANGED <<unanswered, replied>> \/ Request \/ Response
      BY <1>13 DEF Recv, RecvDns
    <3> QED
      BY <1>3, <3>1 DEF Request, Response
  <2>3. /\ threw' \in {threw, FALSE}
        /\ UNCHANGED <<next, object, logger, capture, dests, started, losses>>
    BY <1>13 DEF Recv
  <2> QED
    BY <1>2, <1>3, <2>1, <2>2, <2>3
<1>14. CASE UNCHANGED devVars
  BY <1>2, <1>3, <1>14 DEF devVars
<1>15. CASE FlushReplied \/ FlushUnanswered
  <2>1. /\ UNCHANGED <<next, object, logger, capture, dests, threw, started, flows, owed>>
        /\ \/ /\ \E q \in replied : replied' = replied \ {q}
              /\ UNCHANGED <<unanswered, lost>>
           \/ /\ \E q \in unanswered : unanswered' = unanswered \ {q} /\ lost' = lost \union {q}
              /\ UNCHANGED replied
           \/ UNCHANGED <<unanswered, replied, lost>>
    BY <1>15 DEF FlushReplied, FlushUnanswered
  <2>2. unanswered' \subseteq Query /\ replied' \subseteq Query \ unanswered' /\ lost' \subseteq Query
    BY <1>3, <2>1
  <2> QED
    BY <1>2, <1>3, <2>1, <2>2
<1> QED
  BY <1>4, <1>5, <1>6, <1>7, <1>8, <1>9, <1>10, <1>11, <1>12, <1>13, <1>14, <1>15
  DEF DevNext, Call, Inner, SetdstFilestream, SetdstMsgqueue, SetdstFluentd, Dest

(* What a turn of the destructor's flush does: a Query leaves the table,   *)
(* and it is sent as lost if it is one without an answer.                  *)
LEMMA FlushTurn ==
  ASSUME FlushReplied \/ FlushUnanswered
  PROVE  /\ at = "delete" /\ modules[next] = "dns"
         /\ UNCHANGED <<next, owed>>
         /\ \/ at' = at /\ UNCHANGED <<lost, unanswered>>
            \/ /\ at' = at
               /\ \E q \in unanswered : unanswered' = unanswered \ {q} /\ lost' = lost \union {q}
            \/ at' = "crashed"
BY DEF FlushReplied, FlushUnanswered, Deleting, losses

(* ~ModDns() ends with nothing left to send, and what it has sent is what  *)
(* the object owed; the other destructors send nothing.                    *)
LEMMA FlushingStep ==
  ASSUME LifeInv, TypeOK, Flushing, [DevNext]_devVars
  PROVE  Flushing'
<1> USE DEF object, capture, losses, traffic
<1>1. CASE FlushReplied \/ FlushUnanswered
  <2>1. at = "delete" /\ modules = Installed /\ next \in 1..4
    BY <1>1, FlushTurn, TypesListed DEF LifeInv, Constructed, Types
  <2>2. lost \union unanswered = owed /\ (next > 1 => unanswered = {})
    BY <2>1 DEF Flushing
  <2>3. CASE at' = "crashed"
    BY <2>3 DEF Flushing
  <2>4. CASE at' = at
    <3>1. /\ lost' \union unanswered' = lost \union unanswered
          /\ unanswered = {} => unanswered' = {}
          /\ next' = next /\ owed' = owed
      BY <1>1, <2>1, <2>4, FlushTurn
    <3> QED
      BY <2>1, <2>2, <2>4, <3>1 DEF Flushing
  <2> QED
    BY <1>1, <2>3, <2>4, FlushTurn
<1>2. CASE DeleteModule
  <2>1. at = "delete" /\ at' = at /\ UNCHANGED <<unanswered, losses>> /\ next' = next + 1
    BY <1>2 DEF DeleteModule, DeleteDns, DeleteFlow, DeleteLocal, Deleting
  <2>2. modules = Installed /\ next \in 1..4
    BY <2>1, TypesListed DEF LifeInv, Constructed, Types
  <2>3. unanswered = {}
    <3>1. CASE next = 1
      <4>1. DeleteDns
        BY <1>2, <2>2, <3>1, ModFacts DEF DeleteModule, DeleteFlow, DeleteLocal, Deleting
      <4> QED
        BY <4>1 DEF DeleteDns
    <3>2. CASE next # 1
      BY <2>1, <2>2, <3>2 DEF Flushing
    <3> QED
      BY <3>1, <3>2
  <2> QED
    BY <2>1, <2>3 DEF Flushing
<1>3. CASE Deleted
  <2>1. at = "delete" /\ modules = Installed /\ next > 3 /\ next \in 1..4
    BY <1>3, ModFacts, TypesListed DEF Deleted, LifeInv, Constructed, Types
  <2>2. lost \union unanswered = owed /\ unanswered = {}
    BY <2>1, ModFacts DEF Flushing
  <2>3. lost = owed
    BY <2>2
  <2>4. at' = "deleted" /\ lost' = lost /\ owed' = owed
    BY <1>3 DEF Deleted
  <2> QED
    BY <2>3, <2>4 DEF Flushing
<1>4. CASE Delete
  BY <1>4 DEF Delete, Flushing
<1>5. CASE UNCHANGED devVars
  BY <1>5 DEF devVars, Flushing
<1>6. CASE /\ [DevNext]_devVars
           /\ ~(FlushReplied \/ FlushUnanswered) /\ ~DeleteModule /\ ~Deleted /\ ~Delete
           /\ ~UNCHANGED devVars
  <2>1. /\ at \notin {"delete", "deleted", "crashed"}
        /\ at' \notin {"delete", "deleted"} /\ lost' = lost
    BY <1>6 DEF DevNext, Call, Inner, New, SetdstFilestream, SetdstMsgqueue, AddDest,
         SetdstFluentd, SetdstFluentdThrows, StartUnready, Start, NewNetcap, InstallModule,
         InstallThrows, SetupModule, SetupThrows, Run, CaptureEnds, Recv
  <2> QED
    BY <2>1 DEF Flushing
<1> QED
  BY <1>1, <1>2, <1>3, <1>4, <1>5, <1>6

-----------------------------------------------------------------------------
(* Where main() stands and what it has done so far, as one fact.           *)
MainInv == main \in Running \union Ended \union {"library"} /\ MainInStep /\ StatusTellsOutcome

(* A step of main(): it leaves the options alone, and its object is where  *)
(* main() left it.                                                         *)
LEMMA MainStepKeeps ==
  ASSUME LifeInv, MainInv, opt \in Options, UNCHANGED opt,
         ShowVersion \/ Unspecified \/ Construct \/ Constructing
           \/ Output \/ Fluentd \/ CallStart
  PROVE  MainInv'
<1> USE DEF object, capture, losses, traffic, Running, Ended
<1>0. AskedDests' = AskedDests /\ opt' = opt
  BY DEF AskedDests
<1>1. CASE ShowVersion
  BY <1>0, <1>1 DEF ShowVersion, MainInv, MainInStep, StatusTellsOutcome, devVars
<1>2. CASE Unspecified
  BY <1>0, <1>2 DEF Unspecified, MainInv, MainInStep, StatusTellsOutcome, devVars
<1>3. CASE Construct
  <2>1. /\ main = "parsed" /\ main' = "construct" /\ at' = "install"
        /\ UNCHANGED <<threw, started, dests>>
    BY <1>3 DEF Construct, New
  <2> QED
    BY <1>0, <2>1 DEF MainInv, MainInStep, StatusTellsOutcome
<1>4. CASE Constructing
  <2>1. main = "construct" /\ at = "install" /\ ~threw /\ ~started /\ dests = {}
    BY <1>4 DEF Constructing, MainInv, MainInStep
  <2>2. CASE InstallThrows
    <3>1. threw' = TRUE /\ main' = "aborted"
      BY <1>4, <2>2 DEF InstallThrows, Constructing
    <3> QED
      BY <3>1 DEF MainInv, MainInStep, StatusTellsOutcome
  <2>3. CASE InstallModule
    <3>1. /\ UNCHANGED <<threw, started, dests>>
          /\ at' \in {"idle", "install"}
      BY <2>1, <2>3 DEF InstallModule
    <3>2. main' = IF at' = "idle" THEN "output" ELSE main
      BY <1>4, <2>1, <3>1 DEF Constructing
    <3> QED
      BY <2>1, <3>1, <3>2 DEF MainInv, MainInStep, StatusTellsOutcome
  <2> QED
    BY <1>4, <2>2, <2>3 DEF Constructing
<1>5. CASE Output
  <2>1. /\ main = "output" /\ main' = "fluentd" /\ at = "idle" /\ ~started /\ dests = {}
        /\ dests' = IF opt.output THEN {"dumpfile"} ELSE {}
        /\ UNCHANGED <<at, started>>
    BY <1>5 DEF Output, SetdstFilestream, AddDest, MainInv, MainInStep, devVars
  <2> QED
    BY <1>0, <2>1 DEF MainInv, MainInStep, StatusTellsOutcome
<1>6. CASE Fluentd
  <2>1. /\ main = "fluentd" /\ at = "idle" /\ ~started
        /\ dests = IF opt.output THEN {"dumpfile"} ELSE {}
    BY <1>6 DEF Fluentd, MainInv, MainInStep
  <2>2. UNCHANGED <<at, started>>
    BY <1>6 DEF Fluentd, SetdstFluentd, SetdstFluentdThrows, AddDest, devVars
  <2>3. \/ main' = "failure"
        \/ main' = "start" /\ dests' = AskedDests
    <3>1. CASE opt.fluentd = "unset"
      BY <1>6, <2>1, <3>1 DEF Fluentd, AskedDests, devVars
    <3>2. CASE opt.fluentd = "valid"
      BY <1>6, <2>1, <3>2 DEF Fluentd, SetdstFluentd, AddDest, AskedDests
    <3>3. CASE opt.fluentd = "invalid"
      <4>1. threw' = TRUE
        BY <1>6, <3>3 DEF Fluentd, SetdstFluentd, SetdstFluentdThrows
      <4> QED
        BY <1>6, <4>1 DEF Fluentd
    <3> QED
      BY <1>6, <3>1, <3>2, <3>3 DEF Fluentd, Options
  <2> QED
    BY <1>0, <2>1, <2>2, <2>3 DEF MainInv, MainInStep, StatusTellsOutcome
<1>7. CASE CallStart
  <2>1. main = "start" /\ at = "idle" /\ ~started /\ dests = AskedDests
    BY <1>7 DEF CallStart, MainInv, MainInStep
  <2>2. CASE StartUnready
    <3>1. threw' = TRUE /\ main' = "failure" /\ started' = started
      BY <1>7, <2>2 DEF StartUnready, CallStart
    <3> QED
      BY <2>1, <3>1 DEF MainInv, MainInStep, StatusTellsOutcome
  <2>3. CASE Start
    <3>1. threw' = FALSE /\ main' = "running" /\ at' = "setup" /\ UNCHANGED <<started, dests>>
      BY <1>7, <2>3 DEF Start, CallStart
    <3> QED
      BY <1>0, <2>1, <3>1 DEF MainInv, MainInStep, StatusTellsOutcome
  <2> QED
    BY <1>7, <2>2, <2>3 DEF CallStart
<1> QED
  BY <1>1, <1>2, <1>3, <1>4, <1>5, <1>6, <1>7

(* A step inside start(), a packet among them.                             *)
LEMMA RunningKeeps ==
  ASSUME LifeInv, MainInv, UNCHANGED opt,
         \/ InStart(SetupModule \/ SetupThrows \/ Run)
         \/ InStart(CaptureEnds)
         \/ \E pkt \in Packet : InStart(Recv(pkt))
  PROVE  MainInv'
<1> USE DEF object, capture, losses, traffic, Running, Ended
<1>0. AskedDests' = AskedDests /\ opt' = opt
  BY DEF AskedDests
<1>1. /\ main = "running" /\ at \in {"setup", "capture"} /\ ~threw /\ dests = AskedDests
      /\ at = "setup" => ~started
      /\ at = "capture" => started
      /\ main' = CASE at' = "crashed" -> "killed"
                   [] at' = "idle" /\ threw' -> "failure"
                   [] at' = "idle" /\ ~threw' -> "success"
                   [] OTHER -> main
  BY DEF InStart, MainInv, MainInStep, LifeInv, LoggersStay
<1>2. CASE SetupModule
  <2>1. UNCHANGED <<at, threw, started, dests>> /\ at = "setup"
    BY <1>2 DEF SetupModule
  <2>2. main' = main
    BY <1>1, <2>1
  <2> QED
    BY <1>0, <1>1, <2>1, <2>2 DEF MainInv, MainInStep, StatusTellsOutcome
<1>3. CASE SetupThrows
  <2>1. at = "setup" /\ at' = "idle" /\ threw' = TRUE /\ started' = started
    BY <1>3 DEF SetupThrows
  <2>2. main' = "failure"
    BY <1>1, <2>1
  <2> QED
    BY <1>1, <2>1, <2>2 DEF MainInv, MainInStep, StatusTellsOutcome
<1>4. CASE Run
  <2>1. at = "setup" /\ at' = "capture" /\ started' = TRUE /\ UNCHANGED <<threw, dests>>
    BY <1>4 DEF Run
  <2>2. main' = main
    BY <1>1, <2>1
  <2> QED
    BY <1>0, <1>1, <2>1, <2>2 DEF MainInv, MainInStep, StatusTellsOutcome
<1>5. CASE CaptureEnds
  <2>1. at = "capture" /\ at' = "idle" /\ UNCHANGED <<threw, started>>
    BY <1>5 DEF CaptureEnds
  <2>2. main' = "success"
    BY <1>1, <2>1
  <2> QED
    BY <1>1, <2>1, <2>2 DEF MainInv, MainInStep, StatusTellsOutcome
<1>6. ASSUME NEW pkt \in Packet, Recv(pkt) PROVE MainInv'
  <2>1. /\ at = "capture" /\ at' \in {at, "crashed"} /\ threw' = threw
        /\ UNCHANGED <<started, dests>>
    BY <1>1, <1>6 DEF Recv
  <2>2. main' = IF at' = "crashed" THEN "killed" ELSE main
    BY <1>1, <2>1
  <2> QED
    BY <1>0, <1>1, <2>1, <2>2 DEF MainInv, MainInStep, StatusTellsOutcome
<1> QED
  BY <1>2, <1>3, <1>4, <1>5, <1>6 DEF InStart

(* main() starts without a Devourer.                                       *)
LEMMA OwnerInit == CLIInit => OwnerInv
<1> SUFFICES ASSUME CLIInit PROVE OwnerInv
  OBVIOUS
<1>1. CLITypeOK
  <2>1. NoOptions \in Options
    BY DEF NoOptions, Options
  <2> QED
    BY <2>1, TypesInit DEF CLIInit, CLITypeOK, Running
<1>2. LifeInv /\ Flushing
  BY LifeInit DEF CLIInit, Init, Flushing
<1>3. MainInStep /\ StatusTellsOutcome
  BY DEF CLIInit, Init, MainInStep, StatusTellsOutcome
<1> QED
  BY <1>1, <1>2, <1>3 DEF OwnerInv

(* Each step of main(), with the call it makes of its Devourer, keeps the  *)
(* two in step.                                                            *)
LEMMA OwnerStep == OwnerInv /\ [CLINext]_vars => OwnerInv'
<1> SUFFICES ASSUME OwnerInv, [CLINext]_vars PROVE OwnerInv'
  OBVIOUS
<1>1. /\ TypeOK /\ LifeInv /\ Flushing /\ opt \in Options /\ MainInv
      /\ [DevNext]_devVars
  BY OwnerSteps DEF OwnerInv, CLITypeOK, MainInv
<1>2. LifeInv'
  BY <1>1, LifeStep
<1>3. TypeOK' /\ Flushing'
  BY <1>1, <1>2, TypesStep, FlushingStep
<1>4. opt' = opt
  BY DEF CLINext, MainStep, MainCaptureEnds, MainRecv, LibraryStep, vars
<1>5. MainInv'
  <2>1. CASE MainStep
    BY <1>1, <2>1, MainStepKeeps, RunningKeeps DEF MainStep
  <2>2. CASE MainCaptureEnds \/ MainRecv
    BY <1>1, <2>2, RunningKeeps DEF MainCaptureEnds, MainRecv
  <2>3. CASE LibraryStep
    <3>1. main' = "library"
      BY <2>3 DEF LibraryStep
    <3> QED
      BY <3>1 DEF MainInv, MainInStep, StatusTellsOutcome
  <2>4. CASE UNCHANGED vars
    BY <1>1, <2>4
    DEF vars, devVars, object, losses, traffic, MainInv, MainInStep, StatusTellsOutcome, AskedDests
  <2> QED
    BY <2>1, <2>2, <2>3, <2>4 DEF CLINext
<1> QED
  BY <1>1, <1>2, <1>3, <1>4, <1>5 DEF OwnerInv, CLITypeOK, MainInv

-----------------------------------------------------------------------------
(* Every owner keeps OwnerInv: main() in its fixed order of calls, and a   *)
(* client in any order, whichever calls fail.                              *)
THEOREM OwnersInStep == CLISpec => []OwnerInv
BY OwnerInit, OwnerStep, PTL DEF CLISpec

(* Every variable keeps its type: start()'s index never runs past the      *)
(* modules, and no handler is registered for an event netdec_ lacks.       *)
THEOREM OwnerTypesKept == CLISpec => []CLITypeOK
<1>1. OwnerInv => CLITypeOK
  BY DEF OwnerInv
<1> QED
  BY <1>1, OwnersInStep, PTL

(* Any object that is deleted has then sent a "timeout" for each request   *)
(* without an answer, and for no other, however many there are.            *)
THEOREM EveryLossSent == CLISpec => []LossesSent
<1>1. OwnerInv => LossesSent
  BY DEF OwnerInv, Flushing, LossesSent
<1> QED
  BY <1>1, OwnersInStep, PTL

(* The exit status tells a capture that returned from one that never ran.  *)
THEOREM ExitStatusTrue == CLISpec => []StatusTellsOutcome
<1>1. OwnerInv => StatusTellsOutcome
  BY DEF OwnerInv
<1> QED
  BY <1>1, OwnersInStep, PTL

(* main() sets every destination it was asked for before it captures.      *)
THEOREM NothingSentNowhere == CLISpec => []DestinationsBeforeCapture
<1>1. OwnerInv => DestinationsBeforeCapture
  BY DEF OwnerInv, MainInStep, DestinationsBeforeCapture
<1> QED
  BY <1>1, OwnersInStep, PTL

=============================================================================
