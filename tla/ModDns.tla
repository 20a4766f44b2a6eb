------------------------------- MODULE ModDns -------------------------------
(***************************************************************************)
(* devourer::ModDns (src/modules/dns.hpp, src/modules/dns.cc):             *)
(* pairs DNS requests with their responses and remembers which names the   *)
(* answers gave to an address.  recv() is called for every DNS packet; it  *)
(* moves the clock of three LRUHash tables by the seconds since the packet *)
(* before:                                                                 *)
(*   query_table_  the requests, by flow hash and transaction id           *)
(*   addr_table_   A and AAAA answers, by address                          *)
(*   name_table_   CNAME answers, all in one bucket: their hash is 0       *)
(* ModFlow asks resolv_addr() for the name of an address.                  *)
(*                                                                         *)
(* The tables are used through what LRUTable promises: a node put at clock *)
(* c with ttl t can be found until a prog() takes the clock past c + t,    *)
(* and a get() finds the matching node put last.  All three tables see the *)
(* same prog() calls, so they share one clock.  recv() never pops expired  *)
(* nodes: a Query stays allocated until ~ModDns() flushes it, a record     *)
(* for ever.  The question section is copied to messages only; left out.   *)
(*                                                                         *)
(* A packet has two times: p.ts(), a double, and p.tv_sec(), its whole     *)
(* seconds.  The clock runs on the seconds, a Query's times and its latency*)
(* are p.ts().  Time counts p.ts() in Unit parts of a second.              *)
(***************************************************************************)
EXTENDS Integers, SequencesExt, TableSeq

CONSTANTS
  Key,       \* (hash_value, tx_id) pairs, the same for request and response
  Name,      \* domain names
  Addr,      \* addresses
  QueryId,   \* heap cells for Query objects
  NoQuery,   \* content of a cell that holds no Query
  Nameless,  \* null_str_, what resolv_addr() returns for an unknown address
  Answers,   \* the answer sections of responses, sequences of Answer
  Unit,      \* the parts of a second that p.ts() tells apart
  Time,      \* packet times p.ts(), in Units
  MaxLag,    \* bound on the seconds a packet lies behind the one before
  QueryTtl,  \* query_ttl, in seconds
  CacheTtl,  \* cache_ttl, in seconds
  RecurMax,  \* recur_max of resolv_addr()
  MaxTick,   \* bound on the tables' clock
  MaxAlias   \* bound on the CNAME records in the table

Answer == [type : {"A"}, name : Name, data : Addr]
            \union [type : {"CNAME"}, name : Name, data : Name]

(* p.tv_sec() of a packet whose p.ts() is t.                               *)
Sec(t) == t \div Unit

Second == {Sec(t) : t \in Time}

Query == [key : Key, first : Time, ts : Time, due : Nat,
          hasReply : BOOLEAN]
(* A record's own times are written, from a `ts' that holds a latency, but *)
(* never read, and are left out.  `since' is history: the packet's second. *)
ARecord == [addr : Addr, name : Name, since : Second, due : Nat]
CNameRecord == [qname : Name, cname : Name, since : Second, due : Nat]

ASSUME ModDnsAssumption ==
  /\ NoQuery \notin Query
  /\ NoQuery \notin QueryId
  /\ Nameless \notin Name
  /\ Answers \subseteq Seq(Answer)
  /\ Unit \in Nat \ {0}
  /\ Time \subseteq {t \in Nat : t >= Unit}
  /\ MaxLag \in Nat /\ QueryTtl \in Nat /\ CacheTtl \in Nat
  /\ RecurMax \in Nat /\ MaxTick \in Nat /\ MaxAlias \in Nat

VARIABLES
  lastTs,      \* last_ts_, the second of the packet before, 0 before the first
  tick,        \* the clock of the three tables
  query,       \* query[q], the Query in heap cell q, in query_table_ or expired
  addrTable,   \* the records in addr_table_, put last first
  nameTable,   \* the records in name_table_, put last first
  sent,        \* the dns.tx messages of the last call
  registered,  \* the answers the last call registered, a sequence of Answer
  answered,    \* history: the queries a "success" was sent for
  told,        \* history: the answers registered in the last CacheTtl seconds
  late,        \* history: the seconds by which packets came too late, summed
  alive        \* the module has not been deleted

tables == <<query, addrTable, nameTable>>
vars == <<lastTs, tick, tables, sent, registered, answered, told, late, alive>>

(* A dns.tx message.  `of' and `at' are history: the Query and the p.ts()  *)
(* it was built from.                                                      *)
Message == [status : {"success", "miss", "timeout"}, key : Key,
            of : QueryId \union {NoQuery}, latency : Int,
            at : Time \union {0}]

TypeOK ==
  /\ lastTs \in Second \union {0}
  /\ tick \in Nat
  /\ query \in [QueryId -> Query \union {NoQuery}]
  /\ addrTable \in Seq(ARecord)
  /\ nameTable \in Seq(CNameRecord)
  /\ sent \subseteq Message
  /\ registered \in Seq(Answer)
  /\ answered \subseteq QueryId
  /\ told \subseteq [answer : Answer, at : Second]
  /\ late \in Nat
  /\ alive \in BOOLEAN

Init ==
  /\ lastTs = 0
  /\ tick = 0
  /\ query = [q \in QueryId |-> NoQuery]
  /\ addrTable = <<>>
  /\ nameTable = <<>>
  /\ sent = {}
  /\ registered = <<>>
  /\ answered = {}
  /\ told = {}
  /\ late = 0
  /\ alive = TRUE

-----------------------------------------------------------------------------
(* A definition named ...Wrong is the one that follows it with a plausible *)
(* slip; no specification uses it, it only serves to show that a property  *)
(* below notices the slip.                                                 *)

(* A packet from before last_ts_ turns the clock back.                     *)
ElapsedBackWrong(sec) == IF lastTs > 0 THEN sec - lastTs ELSE 0

(* prog()'s argument, 0 where recv() leaves the clock alone.               *)
Elapsed(sec) == IF lastTs > 0 /\ sec > lastTs THEN sec - lastTs ELSE 0

(* The deadline itself already counts as missed.                           *)
InFlightEarlyWrong(k, now) ==
  {q \in QueryId : query[q] # NoQuery /\ query[q].key = k /\ query[q].due > now}

(* query_table_.get() at clock now.                                        *)
InFlight(k, now) ==
  {q \in QueryId : query[q] # NoQuery /\ query[q].key = k /\ query[q].due >= now}

(* A record that is there gets a new deadline for its old name.            *)
RegisterAddrRenewsWrong(t, r) ==
  IF \E x \in ToSet(t) : x.addr = r.addr
    THEN [i \in DOMAIN t |->
            IF t[i].addr = r.addr THEN [t[i] EXCEPT !.due = r.due] ELSE t[i]]
    ELSE <<r>> \o t

(* An address that has a record keeps it as it is.                         *)
RegisterAddr(t, r) ==
  IF \E x \in ToSet(t) : x.addr = r.addr THEN t ELSE <<r>> \o t

(* The name asked for is looked up among the records' cname_, not qname_.  *)
RegisterName(t, r) ==
  IF \E x \in ToSet(t) : x.cname = r.qname THEN t ELSE <<r>> \o t

(* What recv() puts for an answer at clock now.                            *)
NewARecord(a, sec, now) ==
  [addr |-> a.data, name |-> a.name, since |-> sec, due |-> now + CacheTtl]

NewCNameRecord(a, sec, now) ==
  [qname |-> a.name, cname |-> a.data, since |-> sec, due |-> now + CacheTtl]

(* The tables after prog() to clock now and the answers ans in their order.*)
Unexpired(t, now) == Sift(t, {r \in ToSet(t) : r.due >= now})

AddrsAfter(ans, sec, now) ==
  LET t[i \in 0..Len(ans)] ==
        IF i = 0 THEN Unexpired(addrTable, now)
        ELSE IF ans[i].type = "A" THEN RegisterAddr(t[i - 1], NewARecord(ans[i], sec, now))
        ELSE t[i - 1]
  IN  t[Len(ans)]

(* name_table_ is forgotten among the three prog() calls.                  *)
NamesAfterUnprogressedWrong(ans, sec, now) ==
  LET t[i \in 0..Len(ans)] ==
        IF i = 0 THEN nameTable
        ELSE IF ans[i].type = "CNAME"
               THEN RegisterName(t[i - 1], NewCNameRecord(ans[i], sec, now))
        ELSE t[i - 1]
  IN  t[Len(ans)]

NamesAfter(ans, sec, now) ==
  LET t[i \in 0..Len(ans)] ==
        IF i = 0 THEN Unexpired(nameTable, now)
        ELSE IF ans[i].type = "CNAME"
               THEN RegisterName(t[i - 1], NewCNameRecord(ans[i], sec, now))
        ELSE t[i - 1]
  IN  t[Len(ans)]

(* The history of answers, with the second each was last given.            *)
Told(ans, sec) ==
  LET all == told \union {[answer |-> a, at |-> sec] : a \in ToSet(ans)}
  IN  {t \in all : /\ sec - t.at <= CacheTtl
                   /\ \A u \in all : u.answer = t.answer => u.at <= t.at}

-----------------------------------------------------------------------------
(* What every recv() does in second sec: the clock moves; ans are the      *)
(* answers of a response that has a request.                               *)
Tick(sec, ans) ==
  /\ alive
  /\ sec >= lastTs - MaxLag
  /\ tick + Elapsed(sec) <= MaxTick
  /\ tick' = tick + Elapsed(sec)
  /\ lastTs' = sec
  /\ late' = late + (IF sec < lastTs THEN lastTs - sec ELSE 0)
  /\ addrTable' = AddrsAfter(ans, sec, tick')
  /\ nameTable' = NamesAfter(ans, sec, tick')
  /\ Len(nameTable') <= MaxAlias
  /\ registered' = ans
  /\ told' = Told(ans, sec)
  /\ UNCHANGED alive

(* The table is not asked for the key first.                               *)
NewQueryUncheckedWrong(k, ts) ==
  /\ Tick(Sec(ts), <<>>)
  /\ \E q \in QueryId, garbage \in BOOLEAN :
       /\ query[q] = NoQuery
       /\ query' = [query EXCEPT ![q] =
                      [key |-> k, first |-> ts, ts |-> ts,
                       due |-> tick' + QueryTtl, hasReply |-> garbage]]
  /\ sent' = {}
  /\ UNCHANGED answered

(* A request not seen before.  has_reply_ is not initialised: any value.   *)
NewQuery(k, ts) ==
  /\ Tick(Sec(ts), <<>>)
  /\ InFlight(k, tick') = {}
  /\ \E q \in QueryId, garbage \in BOOLEAN :
       /\ query[q] = NoQuery
       /\ query' = [query EXCEPT ![q] =
                      [key |-> k, first |-> ts, ts |-> ts,
                       due |-> tick' + QueryTtl, hasReply |-> garbage]]
  /\ sent' = {}
  /\ UNCHANGED answered

(* The repeated request starts a new time to live.                         *)
RepeatQueryRenewsWrong(k, ts) ==
  /\ Tick(Sec(ts), <<>>)
  /\ \E q \in InFlight(k, tick') :
       query' = [query EXCEPT ![q].ts = ts, ![q].due = tick' + QueryTtl]
  /\ sent' = {}
  /\ UNCHANGED answered

(* A request whose key is in the table; set_last_ts() assigns ts_, and its *)
(* question is not looked at.                                              *)
RepeatQuery(k, ts) ==
  /\ Tick(Sec(ts), <<>>)
  /\ \E q \in InFlight(k, tick') : query' = [query EXCEPT ![q].ts = ts]
  /\ sent' = {}
  /\ UNCHANGED answered

(* The request is not marked as answered.                                  *)
SuccessUnmarkedWrong(k, ts, ans) ==
  /\ Tick(Sec(ts), ans)
  /\ \E q \in InFlight(k, tick') :
       /\ sent' = {[status |-> "success", key |-> k, of |-> q,
                    latency |-> ts - query[q].first, at |-> ts]}
       /\ answered' = answered \union {q}
  /\ UNCHANGED query

Success(k, ts, ans) ==
  /\ Tick(Sec(ts), ans)
  /\ \E q \in InFlight(k, tick') :
       /\ sent' = {[status |-> "success", key |-> k, of |-> q,
                    latency |-> ts - query[q].first, at |-> ts]}
       /\ query' = [query EXCEPT ![q].hasReply = TRUE]
       /\ answered' = answered \union {q}

Miss(k, ts) ==
  /\ Tick(Sec(ts), <<>>)
  /\ InFlight(k, tick') = {}
  /\ sent' = {[status |-> "miss", key |-> k, of |-> NoQuery, latency |-> 0,
              at |-> ts]}
  /\ UNCHANGED <<query, answered>>

(* ~ModDns(): purge() and flush_query().                                   *)
Destroy ==
  /\ alive
  /\ alive' = FALSE
  /\ sent' = {[status |-> "timeout", key |-> query[q].key, of |-> q, latency |-> 0,
               at |-> 0] :
                q \in {p \in QueryId : query[p] # NoQuery /\ ~query[p].hasReply}}
  /\ query' = [q \in QueryId |-> NoQuery]
  /\ registered' = <<>>
  /\ UNCHANGED <<lastTs, tick, addrTable, nameTable, answered, told, late>>

Next ==
  \/ \E k \in Key, ts \in Time : NewQuery(k, ts) \/ RepeatQuery(k, ts) \/ Miss(k, ts)
  \/ \E k \in Key, ts \in Time, ans \in Answers : Success(k, ts, ans)
  \/ Destroy

Spec == Init /\ [][Next]_vars

-----------------------------------------------------------------------------
(* resolv_addr(): the name of the address's record, then up to RecurMax    *)
(* steps from a cname_ to the qname_ of the newest record that has it.     *)
Parent(name) ==
  LET h == Sift(nameTable, {r \in ToSet(nameTable) : r.cname = name})
  IN  IF h = <<>> THEN name ELSE Head(h).qname

Resolve(addr) ==
  LET h == Sift(addrTable, {r \in ToSet(addrTable) : r.addr = addr})
      name[i \in 0..RecurMax] == IF i = 0 THEN Head(h).name ELSE Parent(name[i - 1])
  IN  IF h = <<>> THEN Nameless ELSE name[RecurMax]

-----------------------------------------------------------------------------
(* A transaction has one Query in the table, however requests, responses   *)
(* and expiry interleave: no two requests in flight hide each other.       *)
OneQueryPerKey ==
  \A k \in Key, p, q \in QueryId :
    p \in InFlight(k, tick) /\ q \in InFlight(k, tick) => p = q

(* A request that was answered is not reported as lost when the module is  *)
(* deleted.                                                                *)
OutcomesExclusive ==
  \A m \in sent : m.status = "timeout" => m.of \notin answered

(* A response is only paired with a request of at most QueryTtl whole      *)
(* seconds before, also when packets come out of order.  The latency it is *)
(* given is exact to the fraction, so it may pass QueryTtl, by less than a *)
(* second: the clock that expires requests does not see fractions.         *)
LatencyBounded ==
  \A m \in sent : m.status = "success" => m.latency < (QueryTtl + 1) * Unit

(* "miss" is sent only for a response without a request in the last        *)
(* QueryTtl seconds, all counted as p.tv_sec() does.  A second that some   *)
(* packet was late counts twice, but no more: that is all the time to live *)
(* that lateness can cost a request.  A packet a fraction late counts as a *)
(* whole second late when a second began in between.                       *)
MissAfterTtl ==
  \A m \in sent : m.status = "miss" =>
    \A q \in QueryId :
      query[q] # NoQuery /\ query[q].key = m.key =>
        lastTs - Sec(query[q].first) + late > QueryTtl

(* No name is taken from an answer more than CacheTtl seconds old, by the  *)
(* second of the newest DNS packet, and an address has one record at a time*)
CacheFresh ==
  /\ \A r \in ToSet(addrTable) \union ToSet(nameTable) : lastTs - r.since <= CacheTtl
  /\ \A i, j \in DOMAIN addrTable : addrTable[i].addr = addrTable[j].addr => i = j

(* The name ModFlow gives to an address follows from the answers of the    *)
(* last CacheTtl seconds alone: one of them gave a name for the address,   *)
(* and others lead from that name to an alias's origin, whichever records  *)
(* of the two caches have expired and whichever were kept in place of a    *)
(* later answer.                                                           *)
LeadsTo(n) ==
  {t.answer.name : t \in {u \in told : u.answer.type = "CNAME" /\ u.answer.data = n}}

NamesToldFor(addr) ==
  LET given == {t.answer.name :
                  t \in {u \in told : u.answer.type = "A" /\ u.answer.data = addr}}
      names[i \in 0..RecurMax] ==
        IF i = 0 THEN given
                 ELSE names[i - 1] \union UNION {LeadsTo(n) : n \in names[i - 1]}
  IN  names[RecurMax]

NamesTold ==
  \A addr \in Addr : Resolve(addr) # Nameless => Resolve(addr) \in NamesToldFor(addr)

-----------------------------------------------------------------------------
(* Why these hold: what every reachable state keeps, as a whole inductive. *)

(* A request's age in whole seconds is at least the part of its time to live *)
(* that the tables' clock has used up, less the seconds by which packets   *)
(* were late, and at most that part.                                       *)
QueriesAged ==
  \A q \in QueryId : query[q] # NoQuery =>
    LET used == QueryTtl - (query[q].due - tick)
        age == lastTs - Sec(query[q].first)
    IN  lastTs > 0 /\ age <= used /\ used <= age + late

(* While the module lives, an answered request keeps its cell and its mark.*)
AnsweredMarked ==
  alive => \A q \in answered : query[q] # NoQuery /\ query[q].hasReply

(* A record is in a table up to its deadline, and no older than the part   *)
(* of its time to live that the clock has used up.                         *)
RecordsAged ==
  \A r \in ToSet(addrTable) \union ToSet(nameTable) :
    lastTs > 0 /\ r.due >= tick /\ lastTs - r.since <= CacheTtl - (r.due - tick)

(* For every record an answer with the same content was given since.       *)
RecordsTold ==
  /\ \A t, u \in told : t.answer = u.answer => t = u
  /\ \A r \in ToSet(addrTable) :
       \E t \in told : /\ t.answer = [type |-> "A", name |-> r.name, data |-> r.addr]
                       /\ t.at >= r.since
  /\ \A r \in ToSet(nameTable) :
       \E t \in told : /\ t.answer = [type |-> "CNAME", name |-> r.qname, data |-> r.cname]
                       /\ t.at >= r.since

DnsInv ==
  /\ TypeOK /\ OneQueryPerKey /\ CacheFresh
  /\ QueriesAged /\ AnsweredMarked /\ RecordsAged /\ RecordsTold

-----------------------------------------------------------------------------
(* What the documentation says of the messages, and the code does not keep.*)

(* README.md:8, "Response loss rate": when the module is deleted, every    *)
(* request was answered or is reported as lost.                            *)
QueriesAccounted ==
  [][\A q \in QueryId :
       (alive /\ ~alive' /\ query[q] # NoQuery /\ q \notin answered) =>
         \E m \in sent' : m.status = "timeout" /\ m.of = q]_vars

(* README.md:66, "Latency between the request and the response": of the    *)
(* last request of that transaction.                                       *)
LatencyFromRequest ==
  \A m \in sent : m.status = "success" => m.latency = m.at - query[m.of].ts

(* README.md:94, "Destination Domain Name": an address that a response     *)
(* gives for a name has the name the response's aliases start from.        *)
Origin(name) ==
  LET up(n) == {a \in ToSet(registered) : a.type = "CNAME" /\ a.data = n}
      root[i \in 0..Len(registered)] ==
        IF i = 0 THEN name
        ELSE IF up(root[i - 1]) = {} THEN root[i - 1]
        ELSE (CHOOSE a \in up(root[i - 1]) : TRUE).name
  IN  root[Len(registered)]

ChainResolved ==
  \A a \in ToSet(registered) : a.type = "A" => Resolve(a.data) = Origin(a.name)

=============================================================================
