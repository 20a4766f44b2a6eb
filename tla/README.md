# A TLA+ verification of devourer-cpp

devourer-cpp reads packets, pairs DNS requests with responses, keeps one record
per IP session, and emits what it sees as messages. This directory holds
TLA+ modules for its logic, TLC configurations that check them on small
instances, and TLAPS proofs about them for instances of every size.

Paths in `PROJECT.json` are relative to a directory that has the repository in
`src/`; comments in the modules and this text use the repository's own paths
(`src/lru-hash.cc`, `README.md:8`).

## The system

| Component | State it keeps | Operations | Correct when |
|---|---|---|---|
| `LRUHash` (`src/lru-hash.*`) | `timeslot_`, `bucket_`, `exp_node_`, `curr_tick_`; in each node `next_`, `prev_`, `link_` | `put`, `get`, `prog`, `pop`, `purge` | a node expires at its deadline and is popped once; `get` finds the node put last; nothing points to a node its owner may delete; the loops end |
| `ModFlow` (`src/modules/flow.*`) | `last_ts_`, `flow_table_`, `update_map_`; in each `Flow` three times, sizes, counters, names | `recv`, `exec` (empty), destructor | one flow per session; every flow is in the table until it is reported; not reported while its session is active; every byte is accounted |
| `ModDns` (`src/modules/dns.*`) | `last_ts_`, `query_table_`, `addr_table_`, `name_table_` | `recv`, `resolv_addr`, `exec` (empty), destructor | a response is paired with the request it answers; every request ends as success or timeout; a name is used for its time to live only |
| `ModLocal` (`src/modules/local.*`) | none | `recv`, `exec` (empty) | an ARP request is copied to a message |
| `Module` (`src/module.hpp`) | `fluent_` | `set_fluent` | the logger is set before a message is sent |
| `Devourer` (`src/devourer.*`) | `netdec_`, `netcap_`, `fluent_`, `modules_` | constructor, `setdst_*`, `install_module`, `start`, `input`, destructor | a capture runs with every module installed and set up, whichever calls failed before; after one, no module sends without a logger |
| CLI (`apps/cli.cc`) | options | `main` | every destination asked for is set before a packet comes; the exit status tells whether packets were captured; the program ends |
| `optparse`, gtest, `debug.hpp`, swarm, libfluent | | | vendored, output only, or external |

The program has one thread. swarm (external) decodes a packet and calls
`recv()` of the modules that registered for its events. `ModFlow` calls
`ModDns::resolv_addr()` to name a new flow's addresses. A `Devourer` owns the modules:
its constructor registers them for their events, `start()` lends each of them the
logger and registers its periodic task, and its destructor deletes them. `main()` of the
command line tool, or any client of the library, makes these calls. `ModFlow` and `ModDns` own `LRUHash`
tables: they allocate the nodes, hand them over with `put()`, get them back from
`pop()`, and delete them then (`ModDns`: only at its end). Time is the packets'
time: no module has a clock of its own, and a table's clock moves when
its owner calls `prog()` with the seconds since an earlier packet.

What makes this hard to test is not concurrency but long sequences of legal
calls. A node is in two lists at once, which share pointers and are left in
different calls. Deadlines are slots of a wheel that `prog()` may turn more than
once. Packet times can go backwards, and the modules treat that in two different
ways. A flow's renewal is computed from times that several packets wrote. `put()`
may refuse. `recv()` puts flows back into the table whose expired nodes it is
popping. `start()` may fail with half the modules set up and be called again. A request, its repetition, its response and its expiry come in any
order, and one field is read before it was written. `PROJECT.json` lists these
hazards at the lines where they bite, with the properties that cover them.

## The modules

| Module | Models | |
|---|---|---|
| `LRUTable` | what `LRUHash` promises: each node has a deadline, `get` sees those that stand, newest first | abstract specification |
| `LRUHash` | `src/lru-hash.*` on its pointers | implements `LRUTable` |
| `LRUHashProofs` | | theorems about the pointers of `LRUHash` |
| `LRUTableProofs` | | theorems about its lists, and that it implements `LRUTable` |
| `ModFlow` | `src/modules/flow.*` over tables as `LRUTable` promises them | |
| `ModFlowProofs` | | theorems about `ModFlow` |
| `SumProofs` | | what the sums of `ModFlow` come to |
| `FlowRecv` | `recv()` and `~ModFlow()` one table call at a time | composes `ModFlow` with `LRUTable`, implements `ModFlow` |
| `FlowRecvProofs` | | theorems about `FlowRecv`, and that it implements `ModFlow` |
| `ModDns` | `src/modules/dns.*` over tables as `LRUTable` promises them | |
| `ModDnsProofs` | | theorems about `ModDns` |
| `Devourer` | `src/devourer.*`, `src/module.hpp`, `src/modules/local.*` and when the other modules send | |
| `CLI` | `apps/cli.cc`, or any client of the library, as the owner of a `Devourer` | composes `main()` with `Devourer` |
| `CLIProofs` | | theorems about `Devourer` under either owner |
| `TableSeq` | the one operation on sequences that tables share: the elements of a set, in their order | |
| `TableSeqProofs` | | induction and recursion over numbers, facts about `TableSeq` |
| `MC...` | values of the constants for TLC | |

### LRUHash

`next`, `prev` and `link` are functions from cells (nodes and the root cells of
buckets, slots and `exp_node_`) to cells: the heap. `Attach`, `Detach`,
`PushLink` and `PopLink` are the four methods of `Node`. `Put`, `Get` and `Pop`
are whole calls. `prog()` and `purge()` are loops, split at the turns of their
inner and outer loop (`CallProg`, `CallPurge`, then `ExpireNode`, `NextSlot`,
`Return`), so that the invariants are checked between the turns too; `pc`
keeps other calls out meanwhile, as there is one thread. `at[n]` is history: where
node `n` is meant to be (a slot, `Expired`, or with its `Caller`). No action's
pointer update reads it; it guards `Put` alone, because the two owners only put
nodes that they just created or popped. `Node::pop_all()` has no caller
and is left out. `Walk` is what a pointer list holds: the nodes met from its root, in
order, at most as many as there are.

### ModFlow

One action, `Recv`, is the whole of `recv()` for an IP packet: `Elapsed` is
`prog()`'s argument, `Lapsed` what `prog()` expires, `Renewed` and `Finished` the
two branches of the loop over `pop()`, `TakenBack` those renewals that `put()`
does not refuse, and `Known` or `New` the lookup and accounting that follow.
`flow[f]` is the heap, `due[f]` the deadline that the table keeps for `f`. `log`
collects the flows that `flow.log` reported. `updateMap` is `update_map_`, which the
code never clears, and so is also the count of all bytes received.

A packet time is at most `MaxLag` behind the newest one. The sizes are `int`s
that wrap at `MaxInt`. Packet counters, which the code treats as it treats the
sizes, addresses, ports and names are left out; so are packets that are neither
left-to-right nor right-to-left, since swarm decides which are.

### FlowRecv

`ModFlow` treats `recv()` as one step over the deadlines of the table. `FlowRecv` takes
it apart: `Call`, then `KeepClock` or `MoveClock` (`prog()`), `Sweep` (each `pop()`),
`Renew` or `Report` for what was popped, `Lookup` (`get()`), `Create` (`new Flow`, `put()`)
and `Account`; `~ModFlow()` is `Delete` (`purge()`) and then `Drain`. Each table call is the
action of that name of `Table`, an instance of `LRUTable`, with all it chooses: the order in
which `pop()` gives the expired nodes is the table's. `pc` is the line `recv()` is at.
`ImplementsModFlow` maps the state that is seen between calls (`Shown`: during a call, the
state it began with, `atCall`) to `ModFlow`'s, and says that a return of `recv()` comes to
`ModFlow!Recv` of its packet and everything before that to a stutter. `LRUHash`
implements `LRUTable`, `FlowRecv` uses it and implements `ModFlow`: so what is
shown of `ModFlow` rests on the pointers of `LRUHash`.

### ModDns

`NewQuery`, `RepeatQuery`, `Success` and `Miss` are the four branches of `recv()`;
`Tick` is what they share. A packet has two times, `p.ts()` with its fraction and
`p.tv_sec()` without: `Time` holds the first, in units of 1/`Unit` seconds, and `Sec` makes it the
second. The clocks and the caches move with `p.tv_sec()` (dns.cc:212), the latency is a
difference of `p.ts()` (dns.cc:233, 251). So a request of second 0.0 is still found at
120.9, and the latency it is given, 120.9, is more than the time to live of 120 by a fraction:
`LatencyBounded` says below `QueryTtl + 1` seconds. `MissAfterTtl` and the properties of the caches count
in whole `p.tv_sec()` seconds, also how late a packet is: 10 ms late across the
beginning of a second costs a request a full second of its time to live. The two caches are sequences, newest record first, so
that the `get()` of a key is the first match. All three tables see the same
`prog()` calls and share `tick`. `last_ts_` becomes the time of every packet, also of
one from the past: `MaxLag` bounds how far a packet is behind the one before.
`has_reply_` of a new `Query` is any Boolean, because the constructor does not
set it. Expired requests stay allocated until the destructor (dns.cc:215, "ToDo: Need to
prune expired nodes"), so none is reported while the program runs; as the comment
says so, that is no finding. `sent` and `registered` are what the last call emitted and
cached. `answered`, `told` and `late` are history, as is a record's `since`: the records'
own times are written, from a variable that holds a latency (dns.cc:251 declares `ts` again),
but nothing reads them. `told` is every answer with the time it was last given; `NamesTold`
derives from it, without the two tables, which names `resolv_addr()` may return. The question section is copied to messages only
and left out, which takes requests without a question (`q_name(0)` reads past
the end of a vector) out of the model. So are A and AAAA answers whose data is neither 4 nor 16
bytes long, which end the program by `assert(0)` (dns.cc:123; no build sets `NDEBUG`).

### Devourer and CLI

`at` is the call a `Devourer` is in. `New`, `InstallModule` and `InstallThrows` are the
constructor, one `install_module()` a step; `SetdstFluentd`, `SetdstFilestream` and
`SetdstMsgqueue` the destinations; `StartUnready`, `Start`, `SetupModule`, `SetupThrows`, `Run`
and `CaptureEnds` are `start()`; `Recv` is a packet, of a capture or of `input()`;
`Delete`, `DeleteModule` and `Deleted` are the destructor, which deletes the modules in the order
they were installed. `FlushReplied` and `FlushUnanswered` are the loop of `flush_query()`, one `pop()` a
step and in any order: a request with an answer is deleted, one without is sent as lost and
deleted. `owed` (the requests without an answer when the destructor was called) and `lost` (those that a "timeout" was
sent for) are history, which no guard reads. `~ModFlow()` deletes its flows and sends nothing for them. A failing call is an action of its own
(`...Throws`, `StartUnready`): what was done before it stays done. `logger[m]` is whether `m`'s
`fluent_` was set; a message sent without it ends the program (`crashed`). `handlers` and `bound`
are the two places that know of a module's event. `ModFlow` and `ModDns` are reduced to when they send a
message: a flow that ends or begins, a response, and, on deletion, each request without an
answer (a new request may count as answered from the start, since `has_reply_` is not
initialised). Which flows end and which response finds its request is left open, which
allows more than the two modules do. `ModLocal` sends for an ARP request and has no state.

In `CLI`, `main` is either where `devourer_main()` is (`parsed`, `construct`, `output`,
`fluentd`, `start`, `running`, then how the process ends) or `library`: a client that makes any
call of a `Devourer` in any order. `opt` is what the option parser found.

Before the first `start()` a client may already call `input()`, whose first message then goes
through the NULL pointer: the model reaches `crashed` there. devourer.hpp:85-90 has `start()` "to capture"
and `input()` for "only decoding", so a client that only decodes, as the header offers, is ended by the
first packet that causes a message. `LoggerOnceStarted` excludes that case by its premise and says that nothing
crashes later.

Names that end in `Wrong` are deliberate slips of the definition that follows them.
No specification uses them. Each shows that some property notices it when it
takes that definition's place (`PROJECT.json`, `mutants`).

## What is checked

Passing runs:

| Run | Instance | Shows |
|---|---|---|
| `lru_hash` | 3 nodes in one bucket, 2 keys, 3 slots, 7 ticks, `ttl` 0..3, `prog` by 0, 1, 2, 5 ticks | `ChainsLinked`, `NoDanglingPointer`, `ListsExact`, `ChainedWhileSlotted`, refinement of `LRUTable` (`ImplementsTable`), `CallsReturn`; the inductive `PointerInv`, `TableInv` |
| `flow` | 2 sessions, 3 heap cells, 8 seconds, timeout 3, 5 slots, lag 1 | `OneFlowPerKey`, `NoFlowLost`, `LeaseBounded`, `BytesConserved`, `MinimumLifetime`; the inductive `FlowInv`, `BytesInv` |
| `flow_calls` | 2 sessions with 2 heap cells each, 6 seconds, timeout 2, 4 slots, lag 1 | `TableHoldsFlows`, `FlowOwned` at every table call, refinement of `ModFlow` (`ImplementsModFlow`), `CallReturns`; the inductive `CallInv` |
| `dns_lag` | 2 transactions, 2 `Query` cells, packets at 1, 1.5, 2.5 and 3 seconds, time to live 1, lag 1 | `OneQueryPerKey`, `OutcomesExclusive`, `LatencyBounded`, `MissAfterTtl` |
| `dns_cache` | 1 transaction, answers with one alias or none, 3 seconds, time to live 1, lag 1 | `CacheFresh`, `NamesTold`; the inductive `DnsInv` |
| `program` | 2 transactions, 2 sessions, every set of options, and a client of the library | `CaptureReady`, `LoggerOnceStarted`, `LossesSent`, `StatusTellsOutcome`, `DestinationsBeforeCapture`, `MainEnds`; the inductive `LifeInv`, `OwnerInv` |

Runs that end in a counterexample, each a disagreement between the code and what
is said of it (`PROJECT.json`, `findings`):

| Run | Property violated | What the code does |
|---|---|---|
| `flow_active` | `KeptWhileActive` | a renewal lasts `updated - refreshed`, not the timeout: an active session's leases shrink, and `flow.log` is sent less than 600 s after its last packet |
| `flow_int` | `BytesConserved` | sizes wrap as `int` |
| `dns_garbage` | `QueriesAccounted` | `has_reply_` is read uninitialised, and an unanswered request may never be reported |
| `dns_latency` | `LatencyFromRequest` | `set_last_ts()` assigns the field that nothing reads |
| `dns_chain` | `ChainResolved` | of a chain of two aliases the second is not stored |
| `program_losses` | `LossesReported` | `devourer_main()` never deletes its `Devourer`, so `~ModDns()` never runs and no request is ever reported as lost |

### Bounds

Real values are 600 (timeout) of 3600 (slots) seconds for flows, 120 of 600 for
requests and 600 of 1200 for the caches. The code compares and adds them
and uses no other property of theirs; what matters is their order, which the
small values keep.

* `Slots`, `Ttls`, `Ticks`: 3 slots with `ttl` 0, 1, `Slots - 1` and `Slots`
  (refused), and steps of `prog()` below and above a turn: each boundary of
  `put()` and `prog()` is met. `MaxNow` gives the wheel more than two turns, so
  every slot is first, last and in the middle of one. Three nodes make a
  chain with a first, an inner and a last one; four would add only more inner ones.
* `Timeout` 3, `Slots` 5, `Time` 1..8: a flow is created, renewed, renewed again
  and reported within eight seconds, and its session starts a second
  one. `MaxLag` 1 is below `Slots - Timeout`, where no renewal is refused.
  With 2 instead, TLC finds a flow whose renewal `put()` refuses, and which is
  then neither kept nor reported: the theorem `RenewalsFit` needs its premise. In the
  real program the distance is 3000 seconds.
* `FlowRecv`: timeout 2 and 4 slots let a flow be renewed and leave room for lag 1, so
  that, as in the real program, no `put()` is refused; six seconds hold a flow,
  its renewal, its report and the session's next flow, also two flows in one sweep. A cell belongs
  to a session, because `LRUTable`'s keys are fixed per node. Two cells for each are needed
  (`recv()` makes the next flow before a free cell could be reused within the call) and
  enough (a session has one flow at a time). `MaxNow` is the last second of `Time`.
* `MaxBytes`, `MaxInt`: three packets of one byte for each session; `MaxInt` 3 never
  wraps, 1 does.
* `Unit` is 2 in `dns_lag` and `dns_latency`, where half seconds show a latency of more than
  the time to live (a response of 2.5 s to a request of 1 s, at a time to live of 1 s), a packet that is late within a second and one
  that is late by half a second across the beginning of one. The other runs are about the clocks, which see whole seconds, and have
  `Unit` 1. The theorems hold for every `Unit`.
* `QueryTtl`, `CacheTtl`, `MaxTick`: the times let a request expire, be sent again and be
  answered; with lag the clock runs ahead of the packets' time, and
  `MaxTick` stops it. `MaxAlias` bounds the aliases, which the code
  stores again with every response.
* `dns_cache`: names `a`, `b` and `c`, of which `c` occurs in no answer, an address given for `a`, for `b`, or
  for `b` behind the alias `a`. Three seconds, and a clock that lateness may take to 4, let each record expire and be
  stored again while the other still stands. The time to live of requests, 4, keeps one request answerable
  throughout; responses without answers are in `dns_lag`.
* `program`: two requests and sessions let one be answered, reported or popped and another stay. The
  number of `start()` calls, of packets and of failures is not bounded.
* `RecurMax`: the default argument of `resolv_addr()` is more than the
  longest chain an instance can build, and so are the values here.

Symmetry: sessions, transactions and heap cells are interchangeable in `ModFlow`
and `ModDns`; names and addresses are not declared so, and no run with symmetry
has a liveness property. `CHECK_DEADLOCK FALSE` stands where the module can be deleted
(no step follows) or the times of the instance run out; `LRUHash` never stops and
is checked for deadlock.

### Fairness

`LRUHash!FairSpec` has weak fairness of `LoopStep`: once `prog()` or `purge()` was
called, their thread executes the loop, and nothing else can run meanwhile. That a
call is ever made is not assumed. `FlowRecv!CallSpec` has it of `Step`, for the same reason: a
`recv()` once called is executed to its end, while `Call` and `Delete` have no
fairness. `CLI!FairCLISpec` has it of `MainStep`, what `main()` does by itself, and of the
end of a capture whose source is a file, since a file ends; the capture of an
interface may last for ever, and `MainEnds` says so. Packets and a library client's calls have none. `ModFlow` and `ModDns` have no fairness: what
they do happens in `recv()`, and nothing guarantees another packet. That is also why
"a flow is eventually reported" is no property of theirs.

## What is proved

TLAPS proves these for every value of the constants that meets the modules'
assumptions: any number of nodes, slots, buckets, sessions, requests, records and seconds.
Every safety invariant of the passing runs, the action property `MinimumLifetime` and the two
refinements are among them.

### LRUHash

From `LRUHashAssumption`: roots and nodes are distinct cells, nodes are finitely many, there is a
slot and a bucket.

* `PointersSound`, and with it `TypesKept`, `ChainsStayLinked`, `OwnedNodesUnreferenced`
  (`TypeOK`, `ChainsLinked`, `NoDanglingPointer`), in `LRUHashProofs`.
* `TableSound`, and with it `ListsStayExact`, `ChainsStayExact` (`ListsExact`,
  `ChainedWhileSlotted`), in `LRUTableProofs`.
* `LRUHashImplementsTable`: the refinement of `LRUTable`.

`ChainsLinked` is not inductive by itself: `attach()` keeps it only if the new node has
no neighbours yet, `detach()` only if the node is in one chain. `PointerInv`
therefore says which nodes have neighbours (`ChainedIffSlotted`: those in
slots) and that the singly linked lists do not run into each other (`LinksStayInList`:
two cells of lists never lead to the same node), so that `pop_link()` moves a node
of one list only. A cell of no list may have any `link_`: `pop_link()` does not
clear it, and the proof shows that no harm comes of that. `NoDanglingPointer`
follows from the invariant in the state itself.

`TableInv` adds what the lists hold. That a list holds exactly the right nodes does not exclude that
it runs in a circle, so `ListsEnd` says that each is a `Path`: a sequence of different nodes, each the
successor of the one before, the last without one. The proof shows that there is one path
from a root at most and that `Walk` returns it, and
then works with paths: `push_link()` and `attach()` put a node in front of one (`HangsPush`), `pop_link()` takes
the first off (`HangsPop`), `detach()` takes one out of the middle, and what changes no pointer of a path
leaves it alone (`HangsFrame`). `VisitedEmpty` says that a slot `prog()` or `purge()` has left is
empty, which the end of the loop needs.

For the refinement, a node's deadline in the abstract table is the tick at which the wheel comes to its slot
(`TicksTo`). The arithmetic shows that one turn of `prog()` brings every slot one tick nearer and wraps the
current one around, so that deadlines stay what `put()` made them; nodes that a running `prog()` will
still move are already expired in the abstract table, which makes each turn a stutter. `get()` finds
the abstract table's newest node because a bucket's chain, sifted by key, is the abstract chain of that
key: `attach()` and `detach()` keep the order of the others.

### ModFlow

From `ModFlowAssumption`: `Timeout < Slots`, packet times positive.

* `FlowsStayInStep`: `FlowInv` always holds, and with it `FlowTypesKept`, `OneFlowPerSession`,
  `LeasesBounded` (`TypeOK`, `OneFlowPerKey`, `LeaseBounded`).
* `NoEarlyReport`: `MinimumLifetime`, from `FlowInv`, for every step.
* `RenewalsFit`: `NoFlowLost`, if moreover `Timeout + MaxLag < Slots`.
* `BooksKept`: `BytesInv`, and with it `EveryByteAccounted` (`BytesConserved`), if moreover `MaxLag <= Timeout` and `MaxBytes <= MaxInt`.

The argument for the flows is about what remains of a lease, `due - tick`. In
packet time it ends at most `Timeout + MaxLag` after the flow's refresh
(`LeaseBounded`), so when it ends a packet was at most that much newer, and
`remain()`, the next lease, is bounded by it again: with room for that in the
wheel no `put()` is refused. And it ends no earlier than `Timeout` after the first
packet (`LeaseLongEnough`), which gives the minimal lifetime. `NothingYet` handles
the first packet, whose time the code distinguishes by `last_ts_ == 0`.

`BytesConserved` compares a counter with a sum over the reports and one over the live flows. `recv()` moves a
flow from the second to the first and adds the packet's length to one flow. For that
to keep the books, the live flow must be the session's only one (`OneFlowPerKey`, `NoFlowLost`), the report must be
new, and the counter must not wrap. `BytesInv` adds the latter two. `FlowsApart`: a report's flow was opened
more than `Timeout` before the newest packet and before the session's live flow. It is what needs
`MaxLag <= Timeout`: a flow opened by a packet later than that could equal one reported before, and `log`, a
set, would count them once. `Counted`: no size has wrapped, since none exceeds the session's bytes, which `MaxBytes` bounds; the run `flow_int` is
without that premise and finds the counterexample. `SumProofs` shows that the sum does not depend on the order in which `MapThenSumSet` takes elements.

### FlowRecv

* `CallsInStep`: `CallInv` always holds, and with it `CallTypesKept`, `TableReachesFlowsOnly`
  (`CallTypeOK`, `TableHoldsFlows`).
* `CallsImplementModFlow`: the refinement of `ModFlow`.
* `SweepLosesNone`: `FlowOwned`, if `Timeout + MaxLag < Slots`.

The sweep may pop the flows in any order, so its intermediate states are many. `CallInv` says of each cell by
itself how far it is: `ToBe` is what `ModFlow` computes from the state in which the call began, and
between two calls of the table a cell either still is as it was, if its turn has
yet to come, or already is as `ToBe` has it, or is in `recv()`'s hands. `ChainsMatch` ties the table's
chains to the deadlines, for `get()`. When the loop ends, all cells are
as `ToBe` has them, which is what `ModFlow!Recv` says. The facts about `ToBe` are `ModFlowProofs`' own, cited through an instance at
the state seen between calls.

### ModDns

From `ModDnsAssumption`.

* `DnsInvariant`: `DnsInv` always holds, and with it `DnsTypes`, `OneQuery`, `CachesFresh`
  (`TypeOK`, `OneQueryPerKey`, `CacheFresh`).
* `OutcomesDiffer`, `LatencyBelowTtlAndOne`, `MissesAreOld`: `OutcomesExclusive`, `LatencyBounded`, `MissAfterTtl`,
  by what each step sends in a state with `DnsInv`.
* `ResolvedFromAnswers`: `NamesTold`, for alias chains and tables of any length.

The tables' clock follows the packets' seconds forwards only. `QueriesAged` says what that means for a request: its age in whole
seconds is at most its age in ticks, and this is at most the former plus `late`, the seconds that late
packets took back and later ones counted again. Misses follow from the second half. Latency
follows from the first and from what division leaves over: two times whose seconds are at most `QueryTtl`
apart are less than `QueryTtl + 1` seconds apart (`ApartInSeconds`). `RecordsAged` and `RecordsTold` say the same of the records and that each comes
from an answer in `told`; `AnsweredMarked` that `has_reply_` of an answered request is true, whatever it was
before. For `NamesTold`, each step of `resolv_addr()` from a name to the alias above it is shown
to be one that an answer told, and an induction over the steps collects them.

### Devourer and CLI

From no assumption on `Query` and `Session`; they may be any sets.

* `LifeInvKept`: `LifeInv` always holds, and with it `CapturesReady`, `NoNullLogger`
  (`CaptureReady`, `LoggerOnceStarted`).
* `OwnersInStep`: `OwnerInv` always holds, and with it `OwnerTypesKept`, `EveryLossSent`,
  `ExitStatusTrue`, `NothingSentNowhere` (`CLITypeOK`, `LossesSent`, `StatusTellsOutcome`,
  `DestinationsBeforeCapture`).

`CaptureReady` speaks of the moment of the capture only. `LifeInv` says how a `Devourer`
gets there: which modules the constructor has installed and registered before the loop index
(`Constructed`), which of them `start()` has given a logger and a task (`SettingUp`; the
tasks belong to the new `netcap_`, so a second `start()` begins from none), and that loggers
are never taken away (`LoggersStay`). `OwnerSteps` shows that `main()` does nothing
that a client could not do, so that one induction serves both. `OwnerInv` relates the two: `MainInStep` says for each place that
`main()` can be at what call its object is in, which destinations it has and whether a call threw. `Flushing` is about the destructor: what is owed has been
sent or is still to be popped, and once `~ModDns()` has ended nothing is left to pop.

### Induction

The library's induction theorems take an operator as a parameter, which the
installed provers cannot instantiate. `TableSeqProofs` therefore states induction over sets of
numbers (`SetInduction`, `RangeInduction`), from the theorem that a non-empty set of naturals has a
minimal element, and shows by it that a recursion over `0..n` has a solution
(`RecursionExists`). A definition by a recursive function is opened by showing that some function satisfies
its equation: what `Sift`, `Walk`, the loop of `resolv_addr()` and `MapThenSumSet` compute
for every input rests on that. No definition is declared `RECURSIVE`.

### Only model-checked

* `CallsReturn`, `CallReturns` and `MainEnds` are liveness under fairness: neither `ENABLED` nor the
  temporal rules for it are within reach of the provers. The runs check them on the instances above.
* The properties of the runs that end in a counterexample are false, so there is nothing to prove.

## Plan

1. `LRUTable`, `LRUHash` and its refinement: done; all its invariants and the refinement proved.
2. `ModFlow` on the abstract table: done; all its invariants proved.
3. `ModDns` on the abstract tables: done; all its invariants proved.
4. `Devourer` and `CLI`, with `Module` and `ModLocal`: done; all their invariants proved.
5. `ModFlow` and `ModDns` composed over one stream of packets: not done. The one thing that passes
   between them is the name that `resolv_addr()` returns, and `NamesTold` is what can be said of it; that the
   caches' clock stands still between DNS packets, so that a flow may get an older name by
   its own clock, contradicts no text.
6. `FlowRecv`: `ModFlow`'s table steps shown to implement sequences of `LRUTable`'s: done; invariants
   and refinement proved.
7. Left: `ModDns` taken apart into `LRUTable`'s calls as `FlowRecv` does with `ModFlow`, and proved to
   implement it. Every safety property of a passing run is proved; the liveness properties cannot be.

## Not modelled

`optparse` and gtest are vendored; that the option parser itself ends the process on an error or
on `-h` is part of what is external. `set_filter()` and `enable_verbose()` are declared and defined
nowhere. The periodic task of each module calls an empty `exec()`, so a task is counted when it is
registered and never run. What is allocated and never deleted (`netdec_`, `fluent_`, an older
`netcap_` after a second `start()`, what a throwing constructor made) is not counted. `debug.hpp` only prints. swarm and libfluent are not in the
repository: the modules assume of them that a packet has a time, a
session label and answers, that requests and responses have the same
hash value, and that an emitted message is sent. The formatting of addresses, hashes
and messages is left out. Of the repository's tests there is one, and it is empty.
