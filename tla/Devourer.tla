------------------------------ MODULE Devourer ------------------------------
(***************************************************************************)
(* class Devourer (src/devourer.hpp, src/devourer.cc), the modules it owns *)
(* (src/module.hpp) and what their handlers do with the logger they are    *)
(* lent: one object's life from its constructor over start() and input()   *)
(* to its destructor, with every call that may fail part way.              *)
(*                                                                         *)
(* ModFlow and ModDns are reduced to when they send a message, which is    *)
(* all that depends on their owner; their tables are in ModFlow.tla and    *)
(* ModDns.tla.  ModLocal has no state and is modelled here.  The capture   *)
(* and decoding library (swarm) and the message library (libfluent) are    *)
(* external: a capture may not become ready, registering a handler or a    *)
(* periodic task may be refused, a packet raises a set of events.          *)
(***************************************************************************)
EXTENDS Naturals, Sequences, SequencesExt

CONSTANTS
  Query,      \* ModDns's Query objects
  Session     \* IP sessions

VARIABLES
  at,          \* the call that is executed, see Phase
  src,         \* src_
  next,        \* the loop index of install_module() calls and of start()
  modules,     \* modules_
  handlers,    \* <<event, module>>: the handlers netdec_ calls
  bound,       \* <<event, module>>: the event ids modules were told
  logger,      \* logger[m], m's fluent_ is not NULL
  netcap,      \* netcap_
  decoding,    \* netcap_ was given netdec_
  tasks,       \* tasks[m], the periodic tasks of netcap_ that run m
  dests,       \* where fluent_ sends messages
  threw,       \* the last call ended in a devourer::Exception
  started,     \* history: a start() of this object came to its capture
  flows,       \* the sessions that ModFlow has a Flow of
  unanswered,  \* ModDns's Query objects without has_reply_
  replied,     \* ModDns's Query objects with has_reply_
  owed,        \* history: the unanswered ones when the destructor was called
  lost         \* history: those that a dns.tx "timeout" was sent for

object == <<src, modules, handlers, bound>>
capture == <<netcap, decoding, tasks>>
losses == <<owed, lost>>
traffic == <<flows, unanswered, replied, losses>>
devVars == <<at, next, object, logger, capture, dests, threw, started, traffic>>

(* The modules in the order in which the constructor installs them.        *)
Installed == <<"dns", "flow", "local">>
Mod == ToSet(Installed)

Source == {"PCAP_FILE", "INTERFACE"}
NoSource == "none"
Dest == {"forward", "dumpfile", "msgqueue"}

(* The events that each module asks for.                                   *)
DnsEvents == <<"dns.packet">>
FlowEvents == <<"ipv4.packet", "ipv6.packet">>
LocalEvents == <<"arp.request", "mdns.packet">>
RecvEvent == [dns |-> DnsEvents, flow |-> FlowEvents, local |-> LocalEvents]

(* The events one packet raises: DNS and mDNS are carried by IP.           *)
Packet == {{"arp.request"}} \union
  {{ip} \union upper : ip \in {"ipv4.packet", "ipv6.packet"},
                       upper \in {{}, {"dns.packet"}, {"mdns.packet"}}}

Event == UNION Packet

(* task_interval(): every module wants to run once a second.               *)
TaskInterval(m) == 1

Phase ==
  {"none",      \* there is no object
   "install",   \* its constructor is installing modules
   "idle",      \* no call is executed
   "setup",     \* start() is setting up modules
   "capture",   \* start() is in netcap_->start()
   "delete",    \* its destructor is deleting modules
   "deleted",   \* the object was deleted
   "crashed"}   \* a module called a method of a NULL fluent_

TypeOK ==
  /\ at \in Phase
  /\ src \in Source \union {NoSource}
  /\ next \in 1..Len(Installed) + 1
  /\ modules \in {SubSeq(Installed, 1, n) : n \in 0..Len(Installed)}
  /\ handlers \subseteq Event \X Mod
  /\ bound \subseteq handlers
  /\ logger \in [Mod -> BOOLEAN]
  /\ netcap \in {"NULL", "unready", "ready"}
  /\ decoding \in BOOLEAN
  /\ tasks \in [Mod -> Nat]
  /\ dests \subseteq Dest
  /\ threw \in BOOLEAN /\ started \in BOOLEAN
  /\ flows \subseteq Session
  /\ unanswered \subseteq Query
  /\ replied \subseteq Query \ unanswered
  /\ owed \subseteq Query
  /\ lost \subseteq Query

Init ==
  /\ at = "none"
  /\ src = NoSource
  /\ next = 1
  /\ modules = <<>>
  /\ handlers = {}
  /\ bound = {}
  /\ logger = [m \in Mod |-> FALSE]
  /\ netcap = "NULL"
  /\ decoding = FALSE
  /\ tasks = [m \in Mod |-> 0]
  /\ dests = {}
  /\ threw = FALSE
  /\ started = FALSE
  /\ flows = {}
  /\ unanswered = {}
  /\ replied = {}
  /\ owed = {}
  /\ lost = {}

-----------------------------------------------------------------------------
(* A definition named ...Wrong is the one that follows it with a plausible *)
(* slip; no specification uses it, it only serves to show that a property  *)
(* below notices the slip.                                                 *)

(* The constructor's first lines: netdec_, fluent_ and the modules exist.  *)
New(s) ==
  /\ at = "none" /\ ~threw
  /\ src' = s
  /\ at' = "install"
  /\ UNCHANGED <<next, modules, handlers, bound, logger, capture, dests, threw,
                 started, traffic>>

(* The events of ev that install_module() registers m for.  ModDns does    *)
(* not override bind_event_id(): it handles one event and needs no id.     *)
Register(m, ev) ==
  /\ handlers' = handlers \union {<<e, m>> : e \in ev}
  /\ bound' = IF m = "dns" THEN bound ELSE bound \union {<<e, m>> : e \in ev}

(* push_back() inside the loop over the module's events.                   *)
InstallModulePerEventWrong ==
  LET m == Installed[next]
  IN  /\ at = "install"
      /\ Register(m, ToSet(RecvEvent[m]))
      /\ modules' = modules \o [i \in DOMAIN RecvEvent[m] |-> m]
      /\ IF next = Len(Installed) THEN at' = "idle" /\ next' = 1
                                  ELSE next' = next + 1 /\ UNCHANGED at
      /\ UNCHANGED <<src, logger, capture, dests, threw, started, traffic>>

(* One install_module() call of the constructor; the last ends it.         *)
InstallModule ==
  LET m == Installed[next]
  IN  /\ at = "install"
      /\ Register(m, ToSet(RecvEvent[m]))
      /\ modules' = Append(modules, m)
      /\ IF next = Len(Installed) THEN at' = "idle" /\ next' = 1
                                  ELSE next' = next + 1 /\ UNCHANGED at
      /\ UNCHANGED <<src, logger, capture, dests, threw, started, traffic>>

(* set_handler() refuses one of the module's events, so the constructor    *)
(* ends in an exception: there is no object, and what it made is lost.     *)
InstallThrows ==
  LET m == Installed[next]
  IN  /\ at = "install"
      /\ \E i \in DOMAIN RecvEvent[m] : Register(m, ToSet(SubSeq(RecvEvent[m], 1, i - 1)))
      /\ at' = "none"
      /\ threw' = TRUE
      /\ UNCHANGED <<next, src, modules, logger, capture, dests, started, traffic>>

(* setdst_...(): a destination is added to those that fluent_ has.         *)
AddDest(d) ==
  /\ at = "idle"
  /\ dests' = dests \union {d}
  /\ threw' = FALSE
  /\ UNCHANGED <<at, next, object, logger, capture, started, traffic>>

SetdstFilestream == AddDest("dumpfile")
SetdstMsgqueue == AddDest("msgqueue")

(* host:port whose port is no number is refused before it is used.         *)
SetdstFluentdThrows ==
  /\ at = "idle"
  /\ threw' = TRUE
  /\ UNCHANGED <<at, next, object, logger, capture, dests, started, traffic>>

SetdstFluentd(valid) == IF valid THEN AddDest("forward") ELSE SetdstFluentdThrows

-----------------------------------------------------------------------------
(* An older netcap_ is used again: "if (!netcap_)" around its creation.    *)
NewNetcapOnceWrong(state) ==
  /\ at = "idle"
  /\ netcap' = state
  /\ tasks' = IF netcap = "NULL" THEN [m \in Mod |-> 0] ELSE tasks

(* start() makes a new netcap_, whatever became of an older one.           *)
NewNetcap(state) ==
  /\ at = "idle"
  /\ netcap' = state
  /\ tasks' = [m \in Mod |-> 0]

(* The file or interface cannot be opened.                                 *)
StartUnready ==
  /\ NewNetcap("unready")
  /\ decoding' = FALSE
  /\ threw' = TRUE
  /\ UNCHANGED <<at, next, object, logger, dests, started, traffic>>

(* The loop over the modules starts at the second one.                     *)
StartSkipsFirstWrong ==
  /\ NewNetcap("ready")
  /\ decoding' = TRUE
  /\ threw' = FALSE
  /\ at' = "setup"
  /\ next' = 2
  /\ UNCHANGED <<object, logger, dests, started, traffic>>

(* start() up to its loop over the modules.                                *)
Start ==
  /\ NewNetcap("ready")
  /\ decoding' = TRUE
  /\ threw' = FALSE
  /\ at' = "setup"
  /\ next' = 1
  /\ UNCHANGED <<object, logger, dests, started, traffic>>

(* One turn of start()'s loop.                                             *)
SetupModule ==
  LET m == modules[next]
  IN  /\ at = "setup" /\ next <= Len(modules)
      /\ tasks' = [tasks EXCEPT ![m] = @ + TaskInterval(m)]
      /\ logger' = [logger EXCEPT ![m] = TRUE]
      /\ next' = next + 1
      /\ UNCHANGED <<at, object, netcap, decoding, dests, threw, started, traffic>>

(* The modules that were set up lose their logger again.                   *)
SetupThrowsUndoesWrong ==
  /\ at = "setup" /\ next <= Len(modules)
  /\ threw' = TRUE
  /\ at' = "idle"
  /\ logger' = [m \in Mod |-> FALSE]
  /\ UNCHANGED <<next, object, capture, dests, started, traffic>>

(* set_periodic_task() refuses: the modules before this one are set up.    *)
SetupThrows ==
  /\ at = "setup" /\ next <= Len(modules)
  /\ threw' = TRUE
  /\ at' = "idle"
  /\ UNCHANGED <<next, object, logger, capture, dests, started, traffic>>

(* netcap_->start() is called and, later, returns.                         *)
Run ==
  /\ at = "setup" /\ next > Len(modules)
  /\ at' = "capture"
  /\ started' = TRUE
  /\ UNCHANGED <<next, object, logger, capture, dests, threw, traffic>>

CaptureEnds ==
  /\ at = "capture"
  /\ at' = "idle"
  /\ UNCHANGED <<next, object, logger, capture, dests, threw, started, traffic>>

-----------------------------------------------------------------------------
(* netdec_ calls m for event e, and m knows e for one of its own.          *)
Hears(m, e) == <<e, m>> \in handlers /\ (m = "dns" \/ <<e, m>> \in bound)

(* ModFlow::recv() sends flow.log for the flows that end and flow.new for  *)
(* a session without a flow.                                               *)
RecvFlow(pkt, sends) ==
  \/ /\ \A e \in pkt : ~Hears("flow", e)
     /\ ~sends
     /\ UNCHANGED flows
  \/ /\ \E e \in pkt : Hears("flow", e)
     /\ \E s \in Session, ended \in SUBSET flows :
          /\ flows' = (flows \ ended) \union {s}
          /\ sends = (ended # {} \/ s \notin flows)

(* A request repeats another one or gets a Query, whose has_reply_ is not  *)
(* initialised and may be true from the start.                             *)
Request ==
  \/ UNCHANGED <<unanswered, replied>>
  \/ \E q \in Query \ (unanswered \union replied) :
       \/ unanswered' = unanswered \union {q} /\ UNCHANGED replied
       \/ replied' = replied \union {q} /\ UNCHANGED unanswered

(* A response finds no Query or marks the one it finds.                    *)
Response ==
  \/ UNCHANGED <<unanswered, replied>>
  \/ \E q \in unanswered \union replied :
       /\ unanswered' = unanswered \ {q}
       /\ replied' = replied \union {q}

(* ModDns::recv() sends dns.tx for every response and for no request.      *)
RecvDns(pkt, sends) ==
  \/ /\ \A e \in pkt : ~Hears("dns", e)
     /\ ~sends
     /\ UNCHANGED <<unanswered, replied>>
  \/ /\ \E e \in pkt : Hears("dns", e)
     /\ IF sends THEN Response ELSE Request

(* ModLocal::recv() sends a copy of an ARP request, nothing for mDNS.      *)
RecvLocal(pkt, sends) ==
  sends = ("arp.request" \in pkt /\ Hears("local", "arp.request"))

(* The handlers are called for a packet, from the capture or from input(). *)
Recv(pkt) ==
  /\ at \in {"idle", "capture"}
  /\ \E senders \in SUBSET Mod :
       /\ RecvFlow(pkt, "flow" \in senders)
       /\ RecvDns(pkt, "dns" \in senders)
       /\ RecvLocal(pkt, "local" \in senders)
       /\ at' = IF \A m \in senders : logger[m] THEN at ELSE "crashed"
  /\ threw' = IF at = "idle" THEN FALSE ELSE threw
  /\ UNCHANGED <<next, object, logger, capture, dests, started, losses>>

-----------------------------------------------------------------------------
(* ~Devourer() deletes netcap_, then the modules in the order they were    *)
(* installed.  fluent_ outlives them, and netdec_ too: neither is deleted. *)
Delete ==
  /\ at = "idle"
  /\ netcap' = "NULL"
  /\ decoding' = FALSE
  /\ tasks' = [m \in Mod |-> 0]
  /\ at' = "delete"
  /\ next' = 1
  /\ owed' = unanswered
  /\ UNCHANGED <<object, logger, dests, threw, started, flows, unanswered,
                 replied, lost>>

Deleting(m) == at = "delete" /\ next <= Len(modules) /\ modules[next] = m

(* One turn of the loop in flush_query(), whose pop() may give up any      *)
(* Query: one with has_reply_ is deleted without a message,                *)
FlushReplied ==
  /\ Deleting("dns")
  /\ \E q \in replied : replied' = replied \ {q}
  /\ UNCHANGED <<at, next, object, logger, capture, dests, threw, started,
                 flows, unanswered, losses>>

(* Also a request without an answer is deleted without a message.          *)
FlushUnansweredSilentWrong ==
  /\ Deleting("dns")
  /\ \E q \in unanswered : unanswered' = unanswered \ {q}
  /\ UNCHANGED <<at, next, object, logger, capture, dests, threw, started,
                 flows, replied, losses>>

(* one without it is sent as lost, if ModDns has a logger to do so.        *)
FlushUnanswered ==
  /\ Deleting("dns")
  /\ \E q \in unanswered :
       IF logger["dns"]
         THEN /\ lost' = lost \union {q}
              /\ unanswered' = unanswered \ {q}
              /\ UNCHANGED at
         ELSE /\ at' = "crashed"
              /\ UNCHANGED <<lost, unanswered>>
  /\ UNCHANGED <<next, object, logger, capture, dests, threw, started,
                 flows, replied, owed>>

(* The loop has emptied the table, and ~ModDns() ends.                     *)
DeleteDns ==
  /\ Deleting("dns")
  /\ unanswered = {} /\ replied = {}
  /\ UNCHANGED traffic

(* ~ModFlow() deletes its flows, and sends nothing for them.               *)
DeleteFlow ==
  /\ Deleting("flow")
  /\ flows' = {}
  /\ UNCHANGED <<unanswered, replied, losses>>

DeleteLocal ==
  /\ Deleting("local")
  /\ UNCHANGED traffic

DeleteModule ==
  /\ DeleteDns \/ DeleteFlow \/ DeleteLocal
  /\ next' = next + 1
  /\ UNCHANGED <<at, object, logger, capture, dests, threw, started>>

Deleted ==
  /\ at = "delete" /\ next > Len(modules)
  /\ at' = "deleted"
  /\ next' = 1
  /\ UNCHANGED <<object, logger, capture, dests, threw, started, traffic>>

-----------------------------------------------------------------------------
(* What a caller may ask for, what a call does by itself, and the packets  *)
(* and the end of a capture, which come from outside.                      *)
Call ==
  \/ \E s \in Source : New(s)
  \/ SetdstFilestream \/ SetdstMsgqueue
  \/ \E valid \in BOOLEAN : SetdstFluentd(valid)
  \/ StartUnready \/ Start
  \/ Delete

Inner ==
  \/ InstallModule \/ InstallThrows
  \/ SetupModule \/ SetupThrows \/ Run
  \/ FlushReplied \/ FlushUnanswered \/ DeleteModule \/ Deleted

DevNext == Call \/ Inner \/ CaptureEnds \/ \E pkt \in Packet : Recv(pkt)

-----------------------------------------------------------------------------
(* m's handler is called for every event that m asked for.                 *)
Registered(m) == \A i \in DOMAIN RecvEvent[m] : Hears(m, RecvEvent[m][i])

(* While a capture runs, the program is complete, however many start()     *)
(* calls failed on the way: every module is installed, has its logger and  *)
(* one task, and hears all the events it asked for.                        *)
CaptureReady ==
  at = "capture" =>
    /\ modules = Installed
    /\ netcap = "ready" /\ decoding
    /\ \A m \in Mod :
         /\ logger[m]
         /\ tasks[m] = 1
         /\ Registered(m)

(* Once a start() came to its capture, no handler and no destructor ever   *)
(* sends through a NULL fluent_: not through input(), not after a later    *)
(* start() that fails part way, not on deletion.                           *)
LoggerOnceStarted == started => at # "crashed"

(* Deleting the object sends a "timeout" for each request that had no      *)
(* answer by then and for no other, in whatever order the table gives up   *)
(* its Query objects: none is dropped silently, and none that was answered *)
(* is sent as lost.  (ModFlow's flows are not reported on deletion.)       *)
LossesSent == at = "deleted" => lost = owed

-----------------------------------------------------------------------------
(* The inductive invariant behind CaptureReady and LoggerOnceStarted.      *)

(* The constructor has installed the modules before `next'; once it ended, *)
(* all three are there for the rest of the object's life.                  *)
Constructed ==
  /\ at = "none" => ~started /\ (~threw => next = 1 /\ modules = <<>>)
  /\ at = "install" =>
       /\ ~started
       /\ \/ next = 1 /\ modules = <<>>
          \/ next = 2 /\ modules = <<"dns">>
          \/ next = 3 /\ modules = <<"dns", "flow">>
       /\ \A i \in 1..next - 1 : Registered(Installed[i])
  /\ at \notin {"none", "install"} =>
       modules = Installed /\ \A m \in Mod : Registered(m)

(* start() has given the logger and one task to the modules before `next'. *)
SettingUp ==
  /\ at \in {"setup", "capture"} => netcap = "ready" /\ decoding
  /\ at = "setup" =>
       /\ next \in 1..Len(Installed) + 1
       /\ \A i \in 1..Len(Installed) :
            /\ i < next => logger[Installed[i]] /\ tasks[Installed[i]] = 1
            /\ i >= next => tasks[Installed[i]] = 0
  /\ at = "capture" => \A m \in Mod : tasks[m] = 1

(* A capture is never seen without all loggers, nor anything after it.     *)
LoggersStay ==
  /\ at = "capture" => started
  /\ started => at # "crashed" /\ \A m \in Mod : logger[m]

LifeInv ==
  /\ at \in Phase
  /\ logger \in [Mod -> BOOLEAN]
  /\ tasks \in [Mod -> Nat]
  /\ Constructed /\ SettingUp /\ LoggersStay

(* The inductive invariant behind LossesSent: what is owed has been sent   *)
(* or is still to be popped, and ~ModDns() does not end before it is sent. *)
Flushing ==
  /\ at \notin {"delete", "deleted", "crashed"} => lost = {}
  /\ at = "delete" => /\ lost \union unanswered = owed
                      /\ next > 1 => unanswered = {}
  /\ at = "deleted" => lost = owed

=============================================================================
