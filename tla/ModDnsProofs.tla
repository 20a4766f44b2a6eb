---------------------------- MODULE ModDnsProofs ----------------------------
(***************************************************************************)
(* ModDns keeps its invariants whatever the times to live, the answers, the*)
(* packet times and their lateness.  Every recv() starts with a Tick; what *)
(* Tick does to the clocks, the history and the two record tables is proved*)
(* once, and each action then adds what it does to the Query objects.      *)
(***************************************************************************)
EXTENDS ModDns, TableSeqProofs

(* A packet's p.ts() is in its second.                                     *)
LEMMA SecType ==
  ASSUME NEW t \in Time
  PROVE  /\ Sec(t) \in Second /\ Sec(t) \in Nat /\ Sec(t) > 0
         /\ Sec(t) * Unit <= t /\ t < Sec(t) * Unit + Unit
<1>1. t \in Nat /\ Unit \in Nat /\ Unit > 0 /\ t >= Unit
  BY ModDnsAssumption
<1> DEFINE s == t \div Unit
<1>2. s \in Int /\ Unit * s <= t /\ t < Unit * s + Unit
  BY <1>1
<1>3. s > 0
  <2>1. ASSUME s <= 0 PROVE FALSE
    <3>1. Unit * s <= 0
      <4> HIDE DEF s
      <4> QED
        BY <1>1, <1>2, <2>1
    <3> QED
      BY <1>1, <1>2, <3>1
  <2> QED
    BY <1>2, <2>1
<1>4. Unit * s = s * Unit
  BY <1>1, <1>2
<1> QED
  BY <1>2, <1>3, <1>4 DEF Sec, Second

(* Seconds are counted from one: last_ts_ is 0 only before the first.      *)
LEMMA SecondTypes == Second \subseteq Nat \ {0}
BY SecType DEF Second

(* Two times of which the seconds are at most n apart are less than n + 1  *)
(* seconds apart.                                                          *)
LEMMA ApartInSeconds ==
  ASSUME NEW t \in Time, NEW u \in Time, NEW n \in Nat, Sec(t) - Sec(u) <= n
  PROVE  t - u < (n + 1) * Unit
<1> DEFINE x == Sec(t)
           y == Sec(u)
<1>1. /\ x \in Nat /\ y \in Nat /\ x - y <= n
      /\ t < x * Unit + Unit /\ y * Unit <= u
  BY SecType
<1>2. t \in Nat /\ u \in Nat /\ Unit \in Nat
  BY ModDnsAssumption
<1> HIDE DEF x, y
<1>3. x * Unit <= (n + y) * Unit /\ (n + y) * Unit = n * Unit + y * Unit
  BY <1>1, <1>2
<1>4. (n + 1) * Unit = n * Unit + Unit
  BY <1>2
<1>5. x * Unit \in Nat /\ y * Unit \in Nat /\ n * Unit \in Nat
  BY <1>1, <1>2
<1> QED
  BY <1>1, <1>2, <1>3, <1>4, <1>5

-----------------------------------------------------------------------------
(* The clock of the tables moves by no less than the packets' seconds do,  *)
(* and the difference is what `late' counts.                               *)
LEMMA ClockStep ==
  ASSUME TypeOK, NEW sec \in Second, NEW ans, Tick(sec, ans)
  PROVE  /\ lastTs' = sec /\ sec > 0 /\ tick' \in Nat /\ late' \in Nat /\ tick <= tick'
         /\ lastTs > 0 => /\ lastTs' - tick' <= lastTs - tick
                          /\ lastTs' + late' - tick' = lastTs + late - tick
<1>1. /\ lastTs \in Nat /\ tick \in Nat /\ late \in Nat /\ sec \in Nat /\ sec > 0
  BY ModDnsAssumption, SecondTypes DEF TypeOK
<1>2. /\ lastTs' = sec
      /\ tick' = tick + (IF lastTs > 0 /\ sec > lastTs THEN sec - lastTs ELSE 0)
      /\ late' = late + (IF sec < lastTs THEN lastTs - sec ELSE 0)
  BY DEF Tick, Elapsed
<1> QED
  BY <1>1, <1>2

-----------------------------------------------------------------------------
(* An answer's history after a call: nothing is forgotten within CacheTtl  *)
(* seconds, and the answers of the call itself are in it.                  *)
LEMMA ToldStep ==
  ASSUME TypeOK, \A t, u \in told : t.answer = u.answer => t = u,
         NEW sec \in Second, NEW ans \in Seq(Answer)
  PROVE  /\ Told(ans, sec) \subseteq [answer : Answer, at : Second]
         /\ \A t, u \in Told(ans, sec) : t.answer = u.answer => t = u
         /\ \A i \in DOMAIN ans : \E u \in Told(ans, sec) : u.answer = ans[i] /\ u.at >= sec
         /\ \A t \in told : sec - t.at <= CacheTtl =>
              \E u \in Told(ans, sec) : u.answer = t.answer /\ u.at >= t.at
<1> DEFINE new == {[answer |-> a, at |-> sec] : a \in ToSet(ans)}
           all == told \union new
           H == Told(ans, sec)
<1>1. /\ told \subseteq [answer : Answer, at : Second] /\ sec \in Int /\ CacheTtl \in Nat
      /\ \A u \in [answer : Answer, at : Second] : u.at \in Int
  <2>1. told \subseteq [answer : Answer, at : Second]
    BY DEF TypeOK
  <2>2. Second \subseteq Int /\ CacheTtl \in Nat
    BY ModDnsAssumption, SecondTypes
  <2>3. \A u \in [answer : Answer, at : Second] : u.at \in Second
    OBVIOUS
  <2> QED
    BY <2>1, <2>2, <2>3
<1>2. new \subseteq [answer : Answer, at : Second] /\ \A u \in new : u.at = sec
  BY DEF ToSet
<1>3. H = {t \in all : /\ sec - t.at <= CacheTtl
                       /\ \A u \in all : u.answer = t.answer => u.at <= t.at}
  BY DEF Told
<1>4. ASSUME NEW i \in DOMAIN ans PROVE \E u \in new : u.answer = ans[i] /\ u.at = sec
  <2>1. [answer |-> ans[i], at |-> sec] \in new
    BY DEF ToSet
  <2> HIDE DEF new
  <2> QED
    BY <2>1
<1>5. \A t, u \in new : t.answer = u.answer => t = u
  BY DEF ToSet
<1>6. all \subseteq [answer : Answer, at : Second]
  BY <1>1, <1>2
<1> HIDE DEF new, H
<1>7. ASSUME NEW t \in H, NEW u \in H, t.answer = u.answer PROVE t = u
  <2>1. t.at <= u.at /\ u.at <= t.at /\ t.at \in Int /\ u.at \in Int
    BY <1>1, <1>3, <1>6, <1>7
  <2>2. t.at = u.at
    BY <2>1
  <2>3. t \in [answer : Answer, at : Second] /\ u \in [answer : Answer, at : Second]
    BY <1>3, <1>6
  <2> QED
    BY <1>7, <2>2, <2>3
<1>8. ASSUME NEW t \in all, sec - t.at <= CacheTtl
      PROVE  \E u \in H : u.answer = t.answer /\ u.at >= t.at
  <2>1. t.at \in Int
    BY <1>1, <1>6
  <2>2. CASE \A u \in all : u.answer = t.answer => u.at <= t.at
    <3>1. t \in H
      BY <1>3, <1>8, <2>2
    <3> QED
      BY <2>1, <3>1
  <2>3. CASE \E u \in all : u.answer = t.answer /\ ~(u.at <= t.at)
    <3>1. PICK u \in all : u.answer = t.answer /\ ~(u.at <= t.at)
      BY <2>3
    <3>2. u.at \in Int /\ u.at > t.at
      BY <1>1, <1>6, <2>1, <3>1
    <3>3. (u \in told /\ t \in new) \/ (u \in new /\ t \in told)
      <4>1. t # u
        BY <3>2, <2>1
      <4>2. ~(u \in told /\ t \in told) /\ ~(u \in new /\ t \in new)
        BY <1>5, <3>1, <4>1
      <4> QED
        BY <4>2
    <3>4. ASSUME NEW v \in all, v.answer = u.answer PROVE v.at <= u.at
      <4>1. v \in told \/ v \in new
        OBVIOUS
      <4>2. v.at \in Int
        BY <1>1, <1>6
      <4>3. v = t \/ v = u
        BY <1>5, <3>1, <3>3, <3>4, <4>1
      <4> QED
        BY <2>1, <3>2, <4>2, <4>3
    <3>5. sec - u.at <= CacheTtl
      BY <1>1, <1>8, <2>1, <3>2
    <3>6. u \in H
      BY <1>3, <3>4, <3>5
    <3> QED
      BY <3>1, <3>2, <3>6, <2>1
  <2> QED
    BY <2>2, <2>3
<1>9. ASSUME NEW i \in DOMAIN ans PROVE \E u \in H : u.answer = ans[i] /\ u.at >= sec
  <2>1. PICK t \in new : t.answer = ans[i] /\ t.at = sec
    BY <1>4
  <2>2. sec - t.at <= CacheTtl
    BY <1>1, <2>1
  <2>3. PICK u \in H : u.answer = t.answer /\ u.at >= t.at
    BY <1>8, <2>2
  <2> QED
    BY <2>1, <2>3
<1>10. H \subseteq [answer : Answer, at : Second]
  BY <1>3, <1>6
<1> QED
  BY <1>7, <1>8, <1>9, <1>10 DEF H

-----------------------------------------------------------------------------
(* addr_table_ after a call is in any set that holds the table prog()      *)
(* leaves and is closed under the registrations of the call.               *)
LEMMA AddrsAfterIn ==
  ASSUME NEW V, NEW sec, NEW now, NEW ans \in Seq(Answer), Unexpired(addrTable, now) \in V,
         \A t \in V, i \in DOMAIN ans :
           ans[i].type = "A" => RegisterAddr(t, NewARecord(ans[i], sec, now)) \in V
  PROVE  AddrsAfter(ans, sec, now) \in V
<1> DEFINE n == Len(ans)
           b == Unexpired(addrTable, now)
           F(t, i) == IF ans[i].type = "A" THEN RegisterAddr(t, NewARecord(ans[i], sec, now)) ELSE t
           Eq(g) == g = [i \in 0..n |->
                           IF i = 0 THEN Unexpired(addrTable, now)
                           ELSE IF ans[i].type = "A"
                                  THEN RegisterAddr(g[i - 1], NewARecord(ans[i], sec, now))
                           ELSE g[i - 1]]
           h == [x \in V \X (1..n) |-> F(x[1], x[2])]
<1>1. n \in Nat /\ b \in V /\ DOMAIN ans = 1..n
  OBVIOUS
<1>2. \A t \in V, i \in 1..n : F(t, i) \in V
  BY <1>1
<1>3. \A g : Eq(g) <=> g = [i \in 0..n |-> IF i = 0 THEN b ELSE F(g[i - 1], i)]
  OBVIOUS
<1>4. AddrsAfter(ans, sec, now) = (CHOOSE g : Eq(g))[n]
  BY Zenon DEF AddrsAfter
<1> HIDE DEF n, b, F, Eq
<1>5. h \in [V \X (1..n) -> V] /\ \A t \in V, i \in 1..n : h[<<t, i>>] = F(t, i)
  BY <1>2
<1>6. PICK f \in [0..n -> V] : \A i \in 0..n : f[i] = IF i = 0 THEN b ELSE h[<<f[i - 1], i>>]
  <2>1. Recursions(V, b, n, h) # {}
    <3> HIDE DEF h
    <3> QED
      BY <1>1, <1>5, RecursionExists
  <2> QED
    BY <2>1 DEF Recursions
<1> HIDE DEF h
<1>7. Eq(f)
  <2>1. ASSUME NEW i \in 0..n PROVE f[i] = IF i = 0 THEN b ELSE F(f[i - 1], i)
    <3>1. CASE i = 0
      BY <1>6, <3>1
    <3>2. CASE i # 0
      <4>1. i \in 1..n /\ f[i - 1] \in V
        BY <1>1, <3>2
      <4> QED
        BY <1>5, <1>6, <3>2, <4>1
    <3> QED
      BY <3>1, <3>2
  <2> QED
    BY <1>3, <2>1
<1> DEFINE k == CHOOSE g : Eq(g)
<1>8. Eq(k)
  BY <1>7
<1> HIDE DEF k
<1>9. k = [i \in 0..n |-> IF i = 0 THEN b ELSE F(k[i - 1], i)]
  BY <1>3, <1>8
<1>10. k[0] \in V
  BY <1>1, <1>9
<1>11. ASSUME NEW i \in 1..n, k[i - 1] \in V PROVE k[i] \in V
  BY <1>1, <1>2, <1>9, <1>11
<1>12. \A i \in 0..n : k[i] \in V
  BY <1>1, <1>10, <1>11, RangeInduction
<1> QED
  BY <1>1, <1>4, <1>12 DEF k

(* name_table_ after a call is in any set that holds the table prog()      *)
(* leaves and is closed under the registrations of the call.               *)
LEMMA NamesAfterIn ==
  ASSUME NEW V, NEW sec, NEW now, NEW ans \in Seq(Answer), Unexpired(nameTable, now) \in V,
         \A t \in V, i \in DOMAIN ans :
           ans[i].type = "CNAME" => RegisterName(t, NewCNameRecord(ans[i], sec, now)) \in V
  PROVE  NamesAfter(ans, sec, now) \in V
<1> DEFINE n == Len(ans)
           b == Unexpired(nameTable, now)
           F(t, i) == IF ans[i].type = "CNAME" THEN RegisterName(t, NewCNameRecord(ans[i], sec, now)) ELSE t
           Eq(g) == g = [i \in 0..n |->
                           IF i = 0 THEN Unexpired(nameTable, now)
                           ELSE IF ans[i].type = "CNAME"
                                  THEN RegisterName(g[i - 1], NewCNameRecord(ans[i], sec, now))
                           ELSE g[i - 1]]
           h == [x \in V \X (1..n) |-> F(x[1], x[2])]
<1>1. n \in Nat /\ b \in V /\ DOMAIN ans = 1..n
  OBVIOUS
<1>2. \A t \in V, i \in 1..n : F(t, i) \in V
  BY <1>1
<1>3. \A g : Eq(g) <=> g = [i \in 0..n |-> IF i = 0 THEN b ELSE F(g[i - 1], i)]
  OBVIOUS
<1>4. NamesAfter(ans, sec, now) = (CHOOSE g : Eq(g))[n]
  BY Zenon DEF NamesAfter
<1> HIDE DEF n, b, F, Eq
<1>5. h \in [V \X (1..n) -> V] /\ \A t \in V, i \in 1..n : h[<<t, i>>] = F(t, i)
  BY <1>2
<1>6. PICK f \in [0..n -> V] : \A i \in 0..n : f[i] = IF i = 0 THEN b ELSE h[<<f[i - 1], i>>]
  <2>1. Recursions(V, b, n, h) # {}
    <3> HIDE DEF h
    <3> QED
      BY <1>1, <1>5, RecursionExists
  <2> QED
    BY <2>1 DEF Recursions
<1> HIDE DEF h
<1>7. Eq(f)
  <2>1. ASSUME NEW i \in 0..n PROVE f[i] = IF i = 0 THEN b ELSE F(f[i - 1], i)
    <3>1. CASE i = 0
      BY <1>6, <3>1
    <3>2. CASE i # 0
      <4>1. i \in 1..n /\ f[i - 1] \in V
        BY <1>1, <3>2
      <4> QED
        BY <1>5, <1>6, <3>2, <4>1
    <3> QED
      BY <3>1, <3>2
  <2> QED
    BY <1>3, <2>1
<1> DEFINE k == CHOOSE g : Eq(g)
<1>8. Eq(k)
  BY <1>7
<1> HIDE DEF k
<1>9. k = [i \in 0..n |-> IF i = 0 THEN b ELSE F(k[i - 1], i)]
  BY <1>3, <1>8
<1>10. k[0] \in V
  BY <1>1, <1>9
<1>11. ASSUME NEW i \in 1..n, k[i - 1] \in V PROVE k[i] \in V
  BY <1>1, <1>2, <1>9, <1>11
<1>12. \A i \in 0..n : k[i] \in V
  BY <1>1, <1>10, <1>11, RangeInduction
<1> QED
  BY <1>1, <1>4, <1>12 DEF k

-----------------------------------------------------------------------------
(* Tables whose records have what RecordsAged and RecordsTold ask for, at  *)
(* second sec, table clock now and with the history T.                     *)
GoodARecord(sec, now, T) ==
  {r \in ARecord :
     /\ r.due >= now /\ sec - r.since <= CacheTtl - (r.due - now)
     /\ \E t \in T : /\ t.answer = [type |-> "A", name |-> r.name, data |-> r.addr]
                     /\ t.at >= r.since}

GoodCNameRecord(sec, now, T) ==
  {r \in CNameRecord :
     /\ r.due >= now /\ sec - r.since <= CacheTtl - (r.due - now)
     /\ \E t \in T : /\ t.answer = [type |-> "CNAME", name |-> r.qname, data |-> r.cname]
                     /\ t.at >= r.since}

OneRecordEach(t) == \A i, j \in DOMAIN t : t[i].addr = t[j].addr => i = j

GoodAddrs(sec, now, T) == {t \in Seq(GoodARecord(sec, now, T)) : OneRecordEach(t)}

(* A prog() keeps of a table what is not yet due, each record once.        *)
LEMMA UnexpiredIn ==
  ASSUME NEW E, NEW t \in Seq(E), NEW now, NEW G, \A r \in ToSet(t) : r.due >= now => r \in G
  PROVE  Unexpired(t, now) \in Seq(G)
<1> DEFINE S == {r \in ToSet(t) : r.due >= now}
           u == Sift(t, S)
<1>1. u \in Seq(E) /\ \A j \in DOMAIN u : u[j] \in S
  <2> HIDE DEF S
  <2> QED
    BY SiftElements
<1>2. \A j \in DOMAIN u : u[j] \in G
  BY <1>1
<1> HIDE DEF u
<1>3. u \in Seq(G)
  BY <1>1, <1>2
<1> QED
  BY <1>3 DEF u, Unexpired

(* Dropping expired records leaves at most one record for an address.      *)
LEMMA UnexpiredOnce ==
  ASSUME NEW t \in Seq(ARecord), OneRecordEach(t), NEW now
  PROVE  OneRecordEach(Unexpired(t, now))
<1> DEFINE S == {r \in ToSet(t) : r.due >= now}
           R == {p \in ARecord \X ARecord : p[1].addr = p[2].addr}
           u == Sift(t, S)
<1>1. \A i, j \in DOMAIN t : <<t[i], t[j]>> \in R => i = j
  BY DEF OneRecordEach
<1>2. u \in Seq(ARecord)
  <2> HIDE DEF S
  <2> QED
    BY SiftElements
<1>3. \A i, j \in DOMAIN u : <<u[i], u[j]>> \in R => i = j
  <2> HIDE DEF S, R
  <2> QED
    BY <1>1, SiftApart
<1> HIDE DEF u
<1>4. \A i, j \in DOMAIN u : u[i].addr = u[j].addr => <<u[i], u[j]>> \in R
  BY <1>2
<1>5. OneRecordEach(u)
  BY <1>3, <1>4 DEF OneRecordEach
<1> QED
  BY <1>5 DEF u, Unexpired

(* Registering an answer of the call keeps a good table good.              *)
LEMMA RegisterAddrGood ==
  ASSUME NEW sec, NEW now, NEW T, NEW t \in GoodAddrs(sec, now, T),
         NEW r \in GoodARecord(sec, now, T)
  PROVE  RegisterAddr(t, r) \in GoodAddrs(sec, now, T)
<1> DEFINE G == GoodARecord(sec, now, T)
           u == <<r>> \o t
<1>1. t \in Seq(G) /\ OneRecordEach(t) /\ r \in G
  BY DEF GoodAddrs
<1> HIDE DEF G
<1>2. CASE \E x \in ToSet(t) : x.addr = r.addr
  BY <1>2 DEF RegisterAddr
<1>3. CASE ~ \E x \in ToSet(t) : x.addr = r.addr
  <2>1. RegisterAddr(t, r) = u
    BY <1>3 DEF RegisterAddr
  <2>2. /\ u \in Seq(G) /\ DOMAIN u = 1..(Len(t) + 1) /\ u[1] = r
        /\ \A i \in DOMAIN u : i # 1 => i - 1 \in DOMAIN t /\ u[i] = t[i - 1]
        /\ Len(t) \in Nat
    BY <1>1
  <2>3. \A i \in DOMAIN t : t[i].addr # r.addr
    BY <1>3 DEF ToSet
  <2> HIDE DEF u
  <2>4. ASSUME NEW i \in DOMAIN u, NEW j \in DOMAIN u, u[i].addr = u[j].addr
        PROVE  i = j
    <3>1. CASE i = 1 \/ j = 1
      BY <3>1, <2>2, <2>3, <2>4
    <3>2. CASE i # 1 /\ j # 1
      <4>1. i - 1 = j - 1
        BY <1>1, <2>2, <2>4, <3>2 DEF OneRecordEach
      <4>2. i \in Int /\ j \in Int
        BY <2>2
      <4> QED
        BY <4>1, <4>2
    <3> QED
      BY <3>1, <3>2
  <2>5. u \in GoodAddrs(sec, now, T)
    BY <2>2, <2>4 DEF GoodAddrs, OneRecordEach, G
  <2> QED
    BY <2>1, <2>5
<1> QED
  BY <1>2, <1>3

(* Registering a name keeps the table's element type.                      *)
LEMMA RegisterNameGood ==
  ASSUME NEW G, NEW t \in Seq(G), NEW r \in G
  PROVE  RegisterName(t, r) \in Seq(G)
<1>1. <<r>> \o t \in Seq(G)
  OBVIOUS
<1> QED
  BY <1>1 DEF RegisterName

(* An answer of either type as a record of its table.                      *)
LEMMA AnswerRecords ==
  ASSUME NEW a \in Answer, NEW sec \in Second, NEW now \in Nat
  PROVE  /\ a.type = "A" => /\ NewARecord(a, sec, now) \in ARecord
                            /\ a = [type |-> "A", name |-> a.name, data |-> a.data]
         /\ a.type = "CNAME" => /\ NewCNameRecord(a, sec, now) \in CNameRecord
                                /\ a = [type |-> "CNAME", name |-> a.name, data |-> a.data]
<1>1. now + CacheTtl \in Nat
  BY ModDnsAssumption
<1>2. CASE a \in [type : {"A"}, name : Name, data : Addr]
  BY <1>1, <1>2 DEF NewARecord, ARecord
<1>3. CASE a \in [type : {"CNAME"}, name : Name, data : Name]
  BY <1>1, <1>3 DEF NewCNameRecord, CNameRecord
<1> QED
  BY <1>2, <1>3 DEF Answer

(* A record's age follows the clocks from one packet to the next.          *)
LEMMA AgeStep ==
  ASSUME NEW sec \in Nat, NEW now \in Nat, NEW last \in Nat, NEW clock \in Nat,
         NEW since \in Nat, NEW due \in Nat, NEW ttl \in Nat, NEW at \in Nat,
         sec - now <= last - clock, last - since <= ttl - (due - clock), due >= now, at >= since
  PROVE  sec - since <= ttl - (due - now) /\ sec - at <= ttl
OBVIOUS

(* A record just put has all its time to live before it.                   *)
LEMMA AgeNew ==
  ASSUME NEW sec \in Nat, NEW now \in Nat, NEW ttl \in Nat
  PROVE  now + ttl >= now /\ sec - sec <= ttl - ((now + ttl) - now)
OBVIOUS

(* After a Tick every record of the two tables is fresh and was told.      *)
LEMMA TablesStep ==
  ASSUME DnsInv, NEW sec \in Second, NEW ans \in Seq(Answer), Tick(sec, ans)
  PROVE  /\ addrTable' \in GoodAddrs(sec, tick', Told(ans, sec))
         /\ nameTable' \in Seq(GoodCNameRecord(sec, tick', Told(ans, sec)))
<1> DEFINE T == Told(ans, sec)
<1> PICK now \in Nat : now = tick'
  BY ClockStep DEF DnsInv
<1>1. /\ tick \in Nat /\ lastTs \in Nat /\ sec \in Nat /\ tick <= now /\ CacheTtl \in Nat
      /\ lastTs > 0 => sec - now <= lastTs - tick
  <2>1. TypeOK
    BY DEF DnsInv
  <2>2. /\ lastTs' = sec /\ sec > 0 /\ tick <= tick'
        /\ lastTs > 0 => lastTs' - tick' <= lastTs - tick
    BY <2>1, ClockStep
  <2>3. sec \in Nat /\ lastTs \in Nat /\ tick \in Nat /\ CacheTtl \in Nat
    BY <2>1, ModDnsAssumption, SecondTypes DEF TypeOK
  <2> QED
    BY <2>2, <2>3
<1>2. addrTable \in Seq(ARecord) /\ nameTable \in Seq(CNameRecord)
  BY DEF DnsInv, TypeOK
<1>3. /\ \A i \in DOMAIN ans : \E u \in T : u.answer = ans[i] /\ u.at >= sec
      /\ \A t \in told : sec - t.at <= CacheTtl => \E u \in T : u.answer = t.answer /\ u.at >= t.at
      /\ T \subseteq [answer : Answer, at : Second]
  BY ToldStep DEF DnsInv, RecordsTold
<1>4. \A r \in ARecord \union CNameRecord : r.since \in Nat /\ r.due \in Nat
  BY SecondTypes DEF ARecord, CNameRecord
<1>5. \A t \in [answer : Answer, at : Second] : t.at \in Nat
  BY SecondTypes
<1>6. told \subseteq [answer : Answer, at : Second]
  BY DEF DnsInv, TypeOK
<1> HIDE DEF T
<1>7. ASSUME NEW r \in ARecord \union CNameRecord, r.due >= now,
             lastTs > 0, r.due >= tick, lastTs - r.since <= CacheTtl - (r.due - tick),
             NEW t \in told, t.at >= r.since
      PROVE  /\ sec - r.since <= CacheTtl - (r.due - now)
             /\ \E u \in T : u.answer = t.answer /\ u.at >= r.since
  <2>1. r.since \in Nat /\ r.due \in Nat /\ t.at \in Nat
    BY <1>4, <1>5, <1>6
  <2>2. sec - r.since <= CacheTtl - (r.due - now) /\ sec - t.at <= CacheTtl
    <3>1. sec - now <= lastTs - tick
      BY <1>1, <1>7
    <3> DEFINE since == r.since
               due == r.due
               at == t.at
    <3>2. /\ since \in Nat /\ due \in Nat /\ at \in Nat /\ due >= now /\ at >= since
          /\ lastTs - since <= CacheTtl - (due - tick)
      BY <1>7, <2>1
    <3> HIDE DEF since, due, at
    <3>3. sec - since <= CacheTtl - (due - now) /\ sec - at <= CacheTtl
      <4>1. /\ sec \in Nat /\ now \in Nat /\ lastTs \in Nat /\ tick \in Nat /\ CacheTtl \in Nat
        BY <1>1
      <4> QED
        BY <3>1, <3>2, <4>1, AgeStep
    <3> QED
      BY <3>3 DEF since, due, at
  <2>3. PICK u \in T : u.answer = t.answer /\ u.at >= t.at
    BY <1>3, <2>2
  <2>4. u.at \in Nat /\ u.at >= r.since
    BY <1>3, <1>5, <1>7, <2>1, <2>3
  <2> QED
    BY <2>2, <2>3, <2>4
<1>8. ASSUME NEW r \in ToSet(addrTable), r.due >= now PROVE r \in GoodARecord(sec, now, T)
  <2>1. r \in ARecord
    BY <1>2 DEF ToSet
  <2>2. lastTs > 0 /\ r.due >= tick /\ lastTs - r.since <= CacheTtl - (r.due - tick)
    BY DEF DnsInv, RecordsAged
  <2>3. PICK t \in told : /\ t.answer = [type |-> "A", name |-> r.name, data |-> r.addr]
                          /\ t.at >= r.since
    BY DEF DnsInv, RecordsTold
  <2>4. /\ sec - r.since <= CacheTtl - (r.due - now)
        /\ \E u \in T : u.answer = t.answer /\ u.at >= r.since
    BY <1>7, <1>8, <2>1, <2>2, <2>3
  <2> QED
    BY <1>8, <2>1, <2>3, <2>4 DEF GoodARecord
<1>9. ASSUME NEW r \in ToSet(nameTable), r.due >= now PROVE r \in GoodCNameRecord(sec, now, T)
  <2>1. r \in CNameRecord
    BY <1>2 DEF ToSet
  <2>2. lastTs > 0 /\ r.due >= tick /\ lastTs - r.since <= CacheTtl - (r.due - tick)
    BY DEF DnsInv, RecordsAged
  <2>3. PICK t \in told : /\ t.answer = [type |-> "CNAME", name |-> r.qname, data |-> r.cname]
                          /\ t.at >= r.since
    BY DEF DnsInv, RecordsTold
  <2>4. /\ sec - r.since <= CacheTtl - (r.due - now)
        /\ \E u \in T : u.answer = t.answer /\ u.at >= r.since
    BY <1>7, <1>9, <2>1, <2>2, <2>3
  <2> QED
    BY <1>9, <2>1, <2>3, <2>4 DEF GoodCNameRecord
<1>10. ASSUME NEW i \in DOMAIN ans
       PROVE  /\ ans[i].type = "A" => NewARecord(ans[i], sec, now) \in GoodARecord(sec, now, T)
              /\ ans[i].type = "CNAME" =>
                   NewCNameRecord(ans[i], sec, now) \in GoodCNameRecord(sec, now, T)
  <2>1. ans[i] \in Answer
    OBVIOUS
  <2>2. PICK u \in T : u.answer = ans[i] /\ u.at >= sec
    BY <1>3
  <2>3. now + CacheTtl >= now /\ sec - sec <= CacheTtl - ((now + CacheTtl) - now)
    BY <1>1, AgeNew
  <2>4. ASSUME ans[i].type = "A"
        PROVE  NewARecord(ans[i], sec, now) \in GoodARecord(sec, now, T)
    <3>1. /\ NewARecord(ans[i], sec, now) \in ARecord
          /\ ans[i] = [type |-> "A", name |-> ans[i].name, data |-> ans[i].data]
      BY <2>1, <2>4, AnswerRecords
    <3> QED
      BY <2>2, <2>3, <3>1 DEF GoodARecord, NewARecord
  <2>5. ASSUME ans[i].type = "CNAME"
        PROVE  NewCNameRecord(ans[i], sec, now) \in GoodCNameRecord(sec, now, T)
    <3>1. /\ NewCNameRecord(ans[i], sec, now) \in CNameRecord
          /\ ans[i] = [type |-> "CNAME", name |-> ans[i].name, data |-> ans[i].data]
      BY <2>1, <2>5, AnswerRecords
    <3> QED
      BY <2>2, <2>3, <3>1 DEF GoodCNameRecord, NewCNameRecord
  <2> QED
    BY <2>4, <2>5
<1>11. AddrsAfter(ans, sec, now) \in GoodAddrs(sec, now, T)
  <2>1. Unexpired(addrTable, now) \in Seq(GoodARecord(sec, now, T))
    BY <1>2, <1>8, UnexpiredIn
  <2>2. OneRecordEach(addrTable)
    BY DEF DnsInv, CacheFresh, OneRecordEach
  <2>3. OneRecordEach(Unexpired(addrTable, now))
    BY <1>2, <2>2, UnexpiredOnce
  <2>4. Unexpired(addrTable, now) \in GoodAddrs(sec, now, T)
    BY <2>1, <2>3 DEF GoodAddrs
  <2>5. \A t \in GoodAddrs(sec, now, T), i \in DOMAIN ans : ans[i].type = "A" =>
          RegisterAddr(t, NewARecord(ans[i], sec, now)) \in GoodAddrs(sec, now, T)
    BY <1>10, RegisterAddrGood
  <2> QED
    BY <2>4, <2>5, AddrsAfterIn
<1>12. NamesAfter(ans, sec, now) \in Seq(GoodCNameRecord(sec, now, T))
  <2>1. Unexpired(nameTable, now) \in Seq(GoodCNameRecord(sec, now, T))
    BY <1>2, <1>9, UnexpiredIn
  <2>2. \A t \in Seq(GoodCNameRecord(sec, now, T)), i \in DOMAIN ans : ans[i].type = "CNAME" =>
          RegisterName(t, NewCNameRecord(ans[i], sec, now)) \in Seq(GoodCNameRecord(sec, now, T))
    BY <1>10, RegisterNameGood
  <2> QED
    BY <2>1, <2>2, NamesAfterIn
<1> QED
  BY <1>11, <1>12 DEF Tick, T

(* So a Tick keeps what the invariant says of the tables and the history.  *)
LEMMA TickKeeps ==
  ASSUME DnsInv, NEW sec \in Second, NEW ans \in Seq(Answer), Tick(sec, ans)
  PROVE  /\ CacheFresh' /\ RecordsAged' /\ RecordsTold'
         /\ addrTable' \in Seq(ARecord) /\ nameTable' \in Seq(CNameRecord)
         /\ told' \subseteq [answer : Answer, at : Second]
<1> PICK T : T = Told(ans, sec)
  OBVIOUS
<1> PICK now \in Nat : now = tick'
  BY ClockStep DEF DnsInv
<1>1. /\ addrTable' \in GoodAddrs(sec, now, T)
      /\ nameTable' \in Seq(GoodCNameRecord(sec, now, T))
  BY TablesStep
<1>2. told' = T /\ lastTs' = sec /\ tick' = now
  BY DEF Tick
<1>3. /\ \A t, u \in T : t.answer = u.answer => t = u
      /\ T \subseteq [answer : Answer, at : Second]
  BY ToldStep DEF DnsInv, RecordsTold
<1>4. sec \in Nat /\ sec > 0 /\ CacheTtl \in Nat
  BY ModDnsAssumption, SecondTypes
<1>5. \A r \in ToSet(addrTable') : r \in GoodARecord(sec, now, T)
  BY <1>1 DEF GoodAddrs, ToSet
<1>6. \A r \in ToSet(nameTable') : r \in GoodCNameRecord(sec, now, T)
  BY <1>1 DEF ToSet
<1>7. ASSUME NEW r \in ToSet(addrTable') \union ToSet(nameTable')
      PROVE  /\ r.due >= now /\ sec - r.since <= CacheTtl - (r.due - now)
             /\ sec - r.since <= CacheTtl
  <2>1. r.due >= now /\ sec - r.since <= CacheTtl - (r.due - now)
    BY <1>5, <1>6 DEF GoodARecord, GoodCNameRecord
  <2>2. r \in ARecord \union CNameRecord
    BY <1>5, <1>6 DEF GoodARecord, GoodCNameRecord
  <2>3. r.since \in Nat /\ r.due \in Nat
    BY <2>2, SecondTypes DEF ARecord, CNameRecord
  <2> QED
    BY <1>4, <2>1, <2>3
<1>8. RecordsAged'
  BY <1>2, <1>4, <1>7 DEF RecordsAged
<1>9. CacheFresh'
  <2>1. \A i, j \in DOMAIN addrTable' : addrTable'[i].addr = addrTable'[j].addr => i = j
    BY <1>1 DEF GoodAddrs, OneRecordEach
  <2> QED
    BY <1>2, <1>7, <2>1 DEF CacheFresh
<1>10. RecordsTold'
  <2>1. \A r \in ToSet(addrTable') :
          \E t \in T : /\ t.answer = [type |-> "A", name |-> r.name, data |-> r.addr]
                       /\ t.at >= r.since
    BY <1>5 DEF GoodARecord
  <2>2. \A r \in ToSet(nameTable') :
          \E t \in T : /\ t.answer = [type |-> "CNAME", name |-> r.qname, data |-> r.cname]
                       /\ t.at >= r.since
    BY <1>6 DEF GoodCNameRecord
  <2> QED
    BY <1>2, <1>3, <2>1, <2>2 DEF RecordsTold
<1>11. addrTable' \in Seq(ARecord) /\ nameTable' \in Seq(CNameRecord)
  <2>1. \A r \in GoodARecord(sec, now, T) : r \in ARecord
    BY DEF GoodARecord
  <2>2. \A r \in GoodCNameRecord(sec, now, T) : r \in CNameRecord
    BY DEF GoodCNameRecord
  <2> QED
    BY <1>1, <2>1, <2>2 DEF GoodAddrs
<1> QED
  BY <1>2, <1>3, <1>8, <1>9, <1>10, <1>11

-----------------------------------------------------------------------------
(* Query object y is x with at most a later ts or a reply noted.           *)
SameQuery(x, y) ==
  /\ x # NoQuery /\ y # NoQuery
  /\ y.key = x.key /\ y.first = x.first /\ y.due = x.due
  /\ x.hasReply => y.hasReply

(* Cell q gets a new Query in a call in second sec.                        *)
Begun(q, sec) ==
  /\ query[q] = NoQuery /\ query'[q] # NoQuery
  /\ Sec(query'[q].first) = sec /\ query'[q].due = tick' + QueryTtl
  /\ InFlight(query'[q].key, tick') = {}

(* A Query's age and the used part of its time to live, at given clocks.   *)
AgeOk(last, clock, l, first, due) ==
  /\ last - first <= QueryTtl - (due - clock)
  /\ QueryTtl - (due - clock) <= (last - first) + l

ClocksMoved(last, clock, l, last2, clock2, l2) ==
  last2 - clock2 <= last - clock /\ last2 + l2 - clock2 = last + l - clock

(* It stays so when the clocks move, and is so for a Query just put.       *)
LEMMA UsedStep ==
  ASSUME NEW last \in Nat, NEW clock \in Nat, NEW l \in Nat,
         NEW last2 \in Nat, NEW clock2 \in Nat, NEW l2 \in Nat,
         NEW first \in Nat, NEW due \in Nat,
         ClocksMoved(last, clock, l, last2, clock2, l2), AgeOk(last, clock, l, first, due)
  PROVE  AgeOk(last2, clock2, l2, first, due)
<1>1. QueryTtl \in Nat
  BY ModDnsAssumption
<1> QED
  BY <1>1 DEF ClocksMoved, AgeOk

(* A record or request stored now is zero ticks and zero seconds old.      *)
LEMMA UsedNew ==
  ASSUME NEW sec \in Nat, NEW now \in Nat, NEW l \in Nat
  PROVE  AgeOk(sec, now, l, sec, now + QueryTtl)
<1>1. QueryTtl \in Nat
  BY ModDnsAssumption
<1> QED
  BY <1>1 DEF AgeOk

(* The Query objects of before, at the clocks of after a Tick.             *)
LEMMA QueriesStep ==
  ASSUME DnsInv, NEW sec \in Second, NEW ans, Tick(sec, ans), NEW q \in QueryId,
         query[q] # NoQuery
  PROVE  AgeOk(sec, tick', late', Sec(query[q].first), query[q].due)
<1>1. TypeOK
  BY DEF DnsInv
<1>2. query[q] \in Query
  BY <1>1 DEF TypeOK
<1>3. lastTs > 0 /\ AgeOk(lastTs, tick, late, Sec(query[q].first), query[q].due)
  BY DEF DnsInv, QueriesAged, AgeOk
<1>4. /\ tick' \in Nat /\ late' \in Nat
      /\ ClocksMoved(lastTs, tick, late, sec, tick', late')
  BY <1>1, <1>3, ClockStep DEF ClocksMoved
<1>5. lastTs \in Nat /\ tick \in Nat /\ late \in Nat
  BY <1>1, ModDnsAssumption, SecondTypes DEF TypeOK
<1>6. Sec(query[q].first) \in Nat /\ query[q].due \in Nat
  BY <1>2, SecType DEF Query
<1>7. sec \in Nat
  BY SecondTypes
<1> QED
  BY <1>3, <1>4, <1>5, <1>6, <1>7, UsedStep

(* A call keeps the invariant if it leaves the Query objects what they were*)
(* but for a ts, a mark and at most one new object, put when its key had   *)
(* none in flight.                                                         *)
LEMMA RecvKeeps ==
  ASSUME DnsInv, NEW sec \in Second, NEW ans \in Seq(Answer), Tick(sec, ans),
         query' \in [QueryId -> Query \union {NoQuery}], sent' \subseteq Message,
         answered' \subseteq QueryId,
         \A q \in QueryId : query[q] # NoQuery => query'[q] # NoQuery,
         \A q \in QueryId : query'[q] # NoQuery =>
           SameQuery(query[q], query'[q]) \/ Begun(q, sec),
         \A p, q \in QueryId : Begun(p, sec) /\ Begun(q, sec) => p = q,
         \A q \in answered' : query'[q] # NoQuery /\ (q \in answered \/ query'[q].hasReply)
  PROVE  DnsInv'
<1>1. TypeOK
  BY DEF DnsInv
<1>2. /\ lastTs' = sec /\ sec > 0 /\ tick' \in Nat /\ late' \in Nat /\ tick <= tick'
  BY <1>1, ClockStep
<1>3. /\ CacheFresh' /\ RecordsAged' /\ RecordsTold'
      /\ addrTable' \in Seq(ARecord) /\ nameTable' \in Seq(CNameRecord)
      /\ told' \subseteq [answer : Answer, at : Second]
  BY TickKeeps
<1>4. tick \in Nat /\ sec \in Nat /\ QueryTtl \in Nat
  BY <1>1, ModDnsAssumption, SecondTypes DEF TypeOK
<1>5. TypeOK'
  <2>1. registered' \in Seq(Answer) /\ alive' \in BOOLEAN
    BY <1>1 DEF Tick, TypeOK
  <2>2. lastTs' \in Second \union {0}
    BY <1>2
  <2> QED
    BY <1>2, <1>3, <2>1, <2>2 DEF TypeOK
<1>6. \A q \in QueryId : query'[q] # NoQuery => query'[q] \in Query
  OBVIOUS
<1>7. \A q \in QueryId : query[q] # NoQuery => query[q] \in Query
  BY <1>1 DEF TypeOK
<1>8. QueriesAged'
  <2> SUFFICES ASSUME NEW q \in QueryId, query'[q] # NoQuery
               PROVE  AgeOk(sec, tick', late', Sec(query'[q].first), query'[q].due)
    BY <1>2 DEF QueriesAged, AgeOk
  <2>1. CASE SameQuery(query[q], query'[q])
    BY <2>1, QueriesStep DEF SameQuery
  <2>2. CASE Begun(q, sec)
    BY <1>2, <1>4, <2>2, UsedNew DEF Begun
  <2> QED
    BY <2>1, <2>2
<1>9. OneQueryPerKey'
  <2> SUFFICES ASSUME NEW k \in Key, NEW p \in QueryId, NEW q \in QueryId,
                      query'[p] # NoQuery, query'[p].key = k, query'[p].due >= tick',
                      query'[q] # NoQuery, query'[q].key = k, query'[q].due >= tick'
               PROVE  p = q
    BY DEF OneQueryPerKey, InFlight
  <2>1. ASSUME NEW x \in QueryId, query'[x].due >= tick', SameQuery(query[x], query'[x]),
               query'[x].key = k
        PROVE  x \in InFlight(k, tick) /\ x \in InFlight(k, tick')
    <3>1. /\ query[x] # NoQuery /\ query[x].key = k /\ query[x].due >= tick'
      BY <2>1 DEF SameQuery
    <3>2. query[x].due \in Nat
      BY <1>7, <3>1 DEF Query
    <3>3. query[x].due >= tick
      BY <1>2, <1>4, <3>1, <3>2
    <3> QED
      BY <3>1, <3>3 DEF InFlight
  <2>2. CASE SameQuery(query[p], query'[p]) /\ SameQuery(query[q], query'[q])
    BY <2>1, <2>2 DEF DnsInv, OneQueryPerKey
  <2>3. CASE Begun(p, sec) /\ Begun(q, sec)
    BY <2>3
  <2>4. CASE Begun(p, sec) /\ SameQuery(query[q], query'[q])
    BY <2>1, <2>4 DEF Begun
  <2>5. CASE SameQuery(query[p], query'[p]) /\ Begun(q, sec)
    BY <2>1, <2>5 DEF Begun
  <2> QED
    BY <2>2, <2>3, <2>4, <2>5
<1>10. AnsweredMarked'
  <2> SUFFICES ASSUME NEW q \in answered' PROVE query'[q] # NoQuery /\ query'[q].hasReply
    BY DEF AnsweredMarked
  <2>1. query'[q] # NoQuery /\ (q \in answered \/ query'[q].hasReply)
    OBVIOUS
  <2>2. ASSUME q \in answered PROVE query'[q].hasReply
    <3>1. query[q] # NoQuery /\ query[q].hasReply
      BY <2>2 DEF DnsInv, AnsweredMarked, Tick
    <3>2. q \in QueryId
      OBVIOUS
    <3>3. SameQuery(query[q], query'[q])
      BY <2>1, <3>1, <3>2 DEF Begun
    <3> QED
      BY <3>1, <3>3 DEF SameQuery
  <2> QED
    BY <2>1, <2>2
<1> QED
  BY <1>3, <1>5, <1>8, <1>9, <1>10 DEF DnsInv

-----------------------------------------------------------------------------
(* The module starts with empty tables.                                    *)
LEMMA DnsInvInit == Init => DnsInv
<1> SUFFICES ASSUME Init PROVE DnsInv
  OBVIOUS
<1>1. ToSet(addrTable) = {} /\ ToSet(nameTable) = {} /\ DOMAIN addrTable = {}
  BY DEF Init, ToSet
<1>2. TypeOK
  BY DEF Init, TypeOK
<1>3. OneQueryPerKey /\ QueriesAged /\ AnsweredMarked
  BY DEF Init, OneQueryPerKey, InFlight, QueriesAged, AnsweredMarked
<1>4. CacheFresh /\ RecordsAged /\ RecordsTold
  BY <1>1 DEF Init, CacheFresh, RecordsAged, RecordsTold
<1> QED
  BY <1>2, <1>3, <1>4 DEF DnsInv

(* A first request opens a Query.                                          *)
LEMMA NewQueryKeeps ==
  ASSUME DnsInv, NEW k \in Key, NEW ts \in Time, NewQuery(k, ts)
  PROVE  DnsInv'
<1>1. Tick(Sec(ts), <<>>) /\ <<>> \in Seq(Answer)
  BY DEF NewQuery
<1>2. tick' \in Nat /\ QueryTtl \in Nat /\ tick' + QueryTtl \in Nat
  BY <1>1, ClockStep, SecType, ModDnsAssumption DEF DnsInv
<1>3. PICK p \in QueryId, garbage \in BOOLEAN :
        /\ query[p] = NoQuery
        /\ query' = [query EXCEPT ![p] =
                       [key |-> k, first |-> ts, ts |-> ts,
                        due |-> tick' + QueryTtl, hasReply |-> garbage]]
  BY DEF NewQuery
<1> DEFINE new == [key |-> k, first |-> ts, ts |-> ts,
                   due |-> tick' + QueryTtl, hasReply |-> garbage]
<1>4. new \in Query /\ new # NoQuery
  <2>1. new \in Query
    BY <1>2 DEF Query
  <2> QED
    BY <2>1, ModDnsAssumption
<1>5. query \in [QueryId -> Query \union {NoQuery}]
  BY DEF DnsInv, TypeOK
<1>6. query' \in [QueryId -> Query \union {NoQuery}] /\ query'[p] = new
      /\ \A q \in QueryId : q # p => query'[q] = query[q]
  <2> HIDE DEF new
  <2> QED
    BY <1>3, <1>4, <1>5 DEF new
<1>7. InFlight(k, tick') = {} /\ sent' = {} /\ answered' = answered
  BY DEF NewQuery
<1>8. Begun(p, Sec(ts))
  BY <1>3, <1>4, <1>6, <1>7 DEF Begun
<1>9. \A q \in QueryId : q # p => ~Begun(q, Sec(ts))
  BY <1>6 DEF Begun
<1>10. \A q \in QueryId : query'[q] # NoQuery =>
         SameQuery(query[q], query'[q]) \/ Begun(q, Sec(ts))
  BY <1>6, <1>8 DEF SameQuery
<1>11. \A q \in answered' : query'[q] # NoQuery /\ q \in answered
  <2> SUFFICES ASSUME NEW q \in answered PROVE query'[q] # NoQuery
    BY <1>7
  <2>1. q \in QueryId /\ query[q] # NoQuery
    BY <1>1 DEF DnsInv, TypeOK, AnsweredMarked, Tick
  <2> QED
    BY <1>3, <1>6, <2>1
<1>12. answered' \subseteq QueryId /\ sent' \subseteq Message
  BY <1>7 DEF DnsInv, TypeOK
<1>13. \A q \in QueryId : query[q] # NoQuery => query'[q] # NoQuery
  BY <1>3, <1>6
<1>14. \A q, r \in QueryId : Begun(q, Sec(ts)) /\ Begun(r, Sec(ts)) => q = r
  BY <1>9
<1> QED
  BY <1>1, <1>6, <1>10, <1>11, <1>12, <1>13, <1>14, RecvKeeps, SecType

(* A call that makes no Query only needs to say what becomes of the others.*)
LEMMA OldQueriesKept ==
  ASSUME DnsInv, NEW sec \in Second, NEW ans \in Seq(Answer), Tick(sec, ans),
         query' \in [QueryId -> Query \union {NoQuery}], sent' \subseteq Message,
         answered' \subseteq QueryId,
         \A q \in QueryId : query[q] = NoQuery => query'[q] = NoQuery,
         \A q \in QueryId : query[q] # NoQuery => SameQuery(query[q], query'[q]),
         \A q \in answered' : q \in answered \/ (query[q] # NoQuery /\ query'[q].hasReply)
  PROVE  DnsInv'
<1>1. \A q \in QueryId : ~Begun(q, sec)
  BY DEF Begun
<1>2. \A q \in QueryId : query'[q] # NoQuery =>
        SameQuery(query[q], query'[q]) \/ Begun(q, sec)
  OBVIOUS
<1>3. \A q \in QueryId : query[q] # NoQuery => query'[q] # NoQuery
  BY DEF SameQuery
<1>4. \A q \in answered : query[q] # NoQuery
  BY DEF DnsInv, AnsweredMarked, Tick
<1>5. \A q \in answered' : query'[q] # NoQuery /\ (q \in answered \/ query'[q].hasReply)
  BY <1>3, <1>4
<1> QED
  BY <1>1, <1>2, <1>3, <1>5, RecvKeeps

(* A repeated request leaves the Query where it is.                        *)
LEMMA RepeatQueryKeeps ==
  ASSUME DnsInv, NEW k \in Key, NEW ts \in Time, RepeatQuery(k, ts)
  PROVE  DnsInv'
<1>1. Tick(Sec(ts), <<>>) /\ <<>> \in Seq(Answer)
  BY DEF RepeatQuery
<1>2. PICK p \in QueryId : query[p] # NoQuery /\ query' = [query EXCEPT ![p].ts = ts]
  BY DEF RepeatQuery, InFlight
<1>3. query \in [QueryId -> Query \union {NoQuery}]
  BY DEF DnsInv, TypeOK
<1>4. query[p] \in Query
  BY <1>2, <1>3
<1>5. query' = [query EXCEPT ![p] = [query[p] EXCEPT !.ts = ts]]
  BY <1>2
<1> DEFINE new == [query[p] EXCEPT !.ts = ts]
<1>6. /\ new \in Query /\ new # NoQuery
      /\ new.key = query[p].key /\ new.first = query[p].first /\ new.due = query[p].due
      /\ new.hasReply = query[p].hasReply
  BY <1>4, ModDnsAssumption DEF Query
<1> HIDE DEF new
<1>7. /\ query' \in [QueryId -> Query \union {NoQuery}] /\ query'[p] = new
      /\ \A q \in QueryId : q # p => query'[q] = query[q]
  BY <1>3, <1>5, <1>6 DEF new
<1>8. sent' \subseteq Message /\ answered' = answered /\ answered \subseteq QueryId
  BY DEF RepeatQuery, DnsInv, TypeOK
<1>9. \A q \in QueryId : query[q] # NoQuery => SameQuery(query[q], query'[q])
  BY <1>2, <1>6, <1>7 DEF SameQuery
<1>10. \A q \in QueryId : query[q] = NoQuery => query'[q] = NoQuery
  BY <1>2, <1>7
<1> QED
  BY <1>1, <1>7, <1>8, <1>9, <1>10, OldQueriesKept, SecType

(* A response is paired with p: what Success does, with p named.           *)
LEMMA SuccessPairs ==
  ASSUME DnsInv, NEW k \in Key, NEW ts \in Time, NEW ans \in Seq(Answer), Success(k, ts, ans)
  PROVE  \E p \in QueryId :
           /\ query[p] \in Query /\ query[p] # NoQuery /\ query[p].due >= tick'
           /\ sent' = {[status |-> "success", key |-> k, of |-> p,
                        latency |-> ts - query[p].first, at |-> ts]}
           /\ query' = [query EXCEPT ![p] = [query[p] EXCEPT !.hasReply = TRUE]]
           /\ answered' = answered \union {p}
           /\ Tick(Sec(ts), ans)
<1>1. query \in [QueryId -> Query \union {NoQuery}]
  BY DEF DnsInv, TypeOK
<1>2. PICK p \in QueryId :
        /\ query[p] # NoQuery /\ query[p].due >= tick'
        /\ sent' = {[status |-> "success", key |-> k, of |-> p,
                     latency |-> ts - query[p].first, at |-> ts]}
        /\ query' = [query EXCEPT ![p].hasReply = TRUE]
        /\ answered' = answered \union {p}
  BY DEF Success, InFlight
<1>3. query[p] \in Query
  BY <1>1, <1>2
<1>4. query' = [query EXCEPT ![p] = [query[p] EXCEPT !.hasReply = TRUE]]
  BY <1>2
<1>5. Tick(Sec(ts), ans)
  BY DEF Success
<1> QED
  BY <1>2, <1>3, <1>4, <1>5

(* A response marks its Query and stores its answers.                      *)
LEMMA SuccessKeeps ==
  ASSUME DnsInv, NEW k \in Key, NEW ts \in Time, NEW ans \in Seq(Answer), Success(k, ts, ans)
  PROVE  DnsInv'
<1>1. PICK p \in QueryId :
           /\ query[p] \in Query /\ query[p] # NoQuery /\ query[p].due >= tick'
           /\ sent' = {[status |-> "success", key |-> k, of |-> p,
                        latency |-> ts - query[p].first, at |-> ts]}
           /\ query' = [query EXCEPT ![p] = [query[p] EXCEPT !.hasReply = TRUE]]
           /\ answered' = answered \union {p}
           /\ Tick(Sec(ts), ans)
  BY SuccessPairs
<1>2. query \in [QueryId -> Query \union {NoQuery}] /\ answered \subseteq QueryId
  BY DEF DnsInv, TypeOK
<1> DEFINE new == [query[p] EXCEPT !.hasReply = TRUE]
<1>3. /\ new \in Query /\ new # NoQuery
      /\ new.key = query[p].key /\ new.first = query[p].first /\ new.due = query[p].due
      /\ new.hasReply
  BY <1>1, ModDnsAssumption DEF Query
<1> HIDE DEF new
<1>4. /\ query' \in [QueryId -> Query \union {NoQuery}] /\ query'[p] = new
      /\ \A q \in QueryId : q # p => query'[q] = query[q]
  BY <1>1, <1>2, <1>3 DEF new
<1>5. sent' \subseteq Message
  <2>1. ts \in Int /\ query[p].first \in Int
    BY <1>1, ModDnsAssumption DEF Query
  <2>2. ts - query[p].first \in Int
    BY <2>1
  <2> QED
    BY <1>1, <2>2 DEF Message
<1>6. \A q \in QueryId : query[q] # NoQuery => SameQuery(query[q], query'[q])
  BY <1>1, <1>3, <1>4 DEF SameQuery
<1>7. \A q \in QueryId : query[q] = NoQuery => query'[q] = NoQuery
  BY <1>1, <1>4
<1>8. \A q \in answered' : q \in answered \/ (query[q] # NoQuery /\ query'[q].hasReply)
  BY <1>1, <1>3, <1>4
<1>9. answered' \subseteq QueryId
  BY <1>1, <1>2
<1> QED
  BY <1>1, <1>4, <1>5, <1>6, <1>7, <1>8, <1>9, OldQueriesKept, SecType

(* A response without a Query moves the clocks.                            *)
LEMMA MissKeeps ==
  ASSUME DnsInv, NEW k \in Key, NEW ts \in Time, Miss(k, ts)
  PROVE  DnsInv'
<1>1. Tick(Sec(ts), <<>>) /\ <<>> \in Seq(Answer) /\ query' = query /\ answered' = answered
  BY DEF Miss
<1>2. query \in [QueryId -> Query \union {NoQuery}] /\ answered \subseteq QueryId
  BY DEF DnsInv, TypeOK
<1>3. sent' \subseteq Message
  BY DEF Miss, Message
<1>4. \A q \in QueryId : query[q] # NoQuery => SameQuery(query[q], query'[q])
  BY <1>1 DEF SameQuery
<1> QED
  BY <1>1, <1>2, <1>3, <1>4, OldQueriesKept, SecType

(* The destructor flushes the table.                                       *)
LEMMA DestroyKeeps ==
  ASSUME DnsInv, Destroy
  PROVE  DnsInv'
<1>1. /\ TypeOK /\ CacheFresh /\ RecordsAged /\ RecordsTold
  BY DEF DnsInv
<1>2. /\ ~alive' /\ registered' = <<>> /\ query' = [q \in QueryId |-> NoQuery]
      /\ lastTs' = lastTs /\ tick' = tick /\ addrTable' = addrTable
      /\ nameTable' = nameTable /\ answered' = answered /\ told' = told /\ late' = late
  BY DEF Destroy
<1>3. sent' \subseteq Message
  <2>1. \A p \in QueryId : query[p] # NoQuery => query[p].key \in Key
    BY <1>1 DEF TypeOK, Query
  <2> QED
    BY <2>1 DEF Destroy, Message
<1>4. TypeOK'
  <2>1. alive' \in BOOLEAN /\ registered' \in Seq(Answer)
    <3>1. alive' = FALSE
      BY DEF Destroy
    <3>2. <<>> \in Seq(Answer)
      OBVIOUS
    <3> QED
      BY <1>2, <3>1, <3>2
  <2>2. query' \in [QueryId -> Query \union {NoQuery}]
    BY <1>2
  <2> QED
    BY <1>1, <1>2, <1>3, <2>1, <2>2 DEF TypeOK
<1>5. CacheFresh' /\ RecordsAged' /\ RecordsTold'
  BY <1>1, <1>2 DEF CacheFresh, RecordsAged, RecordsTold
<1>6. OneQueryPerKey' /\ QueriesAged' /\ AnsweredMarked'
  BY <1>2 DEF OneQueryPerKey, InFlight, QueriesAged, AnsweredMarked
<1> QED
  BY <1>4, <1>5, <1>6 DEF DnsInv

(* Every packet and the destructor keep DnsInv.                            *)
LEMMA DnsInvNext == DnsInv /\ [Next]_vars => DnsInv'
<1> SUFFICES ASSUME DnsInv, [Next]_vars PROVE DnsInv'
  OBVIOUS
<1>1. CASE \E k \in Key, ts \in Time : NewQuery(k, ts)
  BY <1>1, NewQueryKeeps
<1>2. CASE \E k \in Key, ts \in Time : RepeatQuery(k, ts)
  BY <1>2, RepeatQueryKeeps
<1>3. CASE \E k \in Key, ts \in Time : Miss(k, ts)
  BY <1>3, MissKeeps
<1>4. CASE \E k \in Key, ts \in Time, ans \in Answers : Success(k, ts, ans)
  BY <1>4, SuccessKeeps, ModDnsAssumption
<1>5. CASE Destroy
  BY <1>5, DestroyKeeps
<1>6. CASE UNCHANGED vars
  BY <1>6 DEF vars, tables, DnsInv, TypeOK, OneQueryPerKey, InFlight, CacheFresh, QueriesAged,
              AnsweredMarked, RecordsAged, RecordsTold
<1> QED
  BY <1>1, <1>2, <1>3, <1>4, <1>5, <1>6 DEF Next

(* The invariant, for all constants: the tables, their clock and the two   *)
(* histories agree in every reachable state.                               *)
THEOREM DnsInvariant == Spec => []DnsInv
<1>1. Init => DnsInv
  BY DnsInvInit
<1>2. DnsInv /\ [Next]_vars => DnsInv'
  BY DnsInvNext
<1> QED
  BY <1>1, <1>2, PTL DEF Spec

-----------------------------------------------------------------------------
(* What resolv_addr() finds first for an address, and the step it takes    *)
(* from a name, was told.                                                  *)
RecordsOf(addr) == Sift(addrTable, {r \in ToSet(addrTable) : r.addr = addr})

(* The first name that lookup finds for an address was told in an answer.  *)
LEMMA FirstNameTold ==
  ASSUME DnsInv, NEW addr, RecordsOf(addr) # <<>>
  PROVE  \E t \in told : /\ t.answer.type = "A" /\ t.answer.data = addr
                         /\ t.answer.name = Head(RecordsOf(addr)).name
<1> DEFINE S == {r \in ToSet(addrTable) : r.addr = addr}
           u == Sift(addrTable, S)
<1>1. addrTable \in Seq(ARecord)
  BY DEF DnsInv, TypeOK
<1>2. u \in Seq(ARecord) /\ \A j \in DOMAIN u : u[j] \in S
  <2> HIDE DEF S
  <2> QED
    BY <1>1, SiftElements
<1>3. u = RecordsOf(addr)
  BY DEF RecordsOf
<1> HIDE DEF u
<1>4. Head(u) \in S
  BY <1>2, <1>3
<1>5. PICK t \in told :
        t.answer = [type |-> "A", name |-> Head(u).name, data |-> Head(u).addr]
  BY <1>4 DEF DnsInv, RecordsTold
<1> QED
  BY <1>3, <1>4, <1>5

(* One step up the alias chain follows an answer that was told.            *)
LEMMA ParentTold ==
  ASSUME DnsInv, NEW name \in Name
  PROVE  Parent(name) = name \/ Parent(name) \in LeadsTo(name)
<1> DEFINE S == {r \in ToSet(nameTable) : r.cname = name}
           u == Sift(nameTable, S)
<1>1. nameTable \in Seq(CNameRecord)
  BY DEF DnsInv, TypeOK
<1>2. u \in Seq(CNameRecord) /\ \A j \in DOMAIN u : u[j] \in S
  <2> HIDE DEF S
  <2> QED
    BY <1>1, SiftElements
<1>3. Parent(name) = IF u = <<>> THEN name ELSE Head(u).qname
  BY DEF Parent
<1> HIDE DEF u
<1>4. CASE u = <<>>
  BY <1>3, <1>4
<1>5. CASE u # <<>>
  <2>1. Head(u) \in S
    BY <1>2, <1>5
  <2>2. PICK t \in told :
          t.answer = [type |-> "CNAME", name |-> Head(u).qname, data |-> Head(u).cname]
    BY <2>1 DEF DnsInv, RecordsTold
  <2>3. t.answer.type = "CNAME" /\ t.answer.data = name /\ t.answer.name = Head(u).qname
    BY <2>1, <2>2
  <2>4. t.answer.name \in LeadsTo(name)
    BY <2>3 DEF LeadsTo
  <2> QED
    BY <1>3, <1>5, <2>3, <2>4
<1> QED
  BY <1>4, <1>5

(* Told answers give names.                                                *)
LEMMA ToldNames ==
  ASSUME TypeOK
  PROVE  /\ \A t \in told : t.answer.name \in Name
         /\ \A n : LeadsTo(n) \subseteq Name
<1>1. \A a \in Answer : a.name \in Name
  BY DEF Answer
<1>2. \A t \in told : t.answer \in Answer
  BY DEF TypeOK
<1> QED
  BY <1>1, <1>2 DEF LeadsTo

(* The names that follow from what was told, step by step.                 *)
LEMMA NamesToldSteps ==
  ASSUME TypeOK, NEW addr
  PROVE  \E k : /\ NamesToldFor(addr) = k[RecurMax]
                /\ k[0] = {t.answer.name :
                             t \in {u \in told : u.answer.type = "A" /\ u.answer.data = addr}}
                /\ \A i \in 1..RecurMax :
                     k[i] = k[i - 1] \union UNION {LeadsTo(n) : n \in k[i - 1]}
<1> DEFINE V == SUBSET Name
           n == RecurMax
           b == {t.answer.name : t \in {u \in told : u.answer.type = "A" /\ u.answer.data = addr}}
           F(x) == x \union UNION {LeadsTo(m) : m \in x}
           Eq(g) == g = [i \in 0..n |-> IF i = 0 THEN b
                                        ELSE g[i - 1] \union UNION {LeadsTo(m) : m \in g[i - 1]}]
           h == [x \in V \X (1..n) |-> F(x[1])]
<1>1. n \in Nat /\ b \in V
  BY ToldNames, ModDnsAssumption
<1>2. \A x \in V : F(x) \in V
  BY ToldNames
<1>3. \A g : Eq(g) <=> g = [i \in 0..n |-> IF i = 0 THEN b ELSE F(g[i - 1])]
  OBVIOUS
<1>4. NamesToldFor(addr) = (CHOOSE g : Eq(g))[n]
  BY Zenon DEF NamesToldFor
<1> HIDE DEF n, b, F, Eq
<1>5. h \in [V \X (1..n) -> V] /\ \A t \in V, i \in 1..n : h[<<t, i>>] = F(t)
  BY <1>2
<1>6. PICK f \in [0..n -> V] : \A i \in 0..n : f[i] = IF i = 0 THEN b ELSE h[<<f[i - 1], i>>]
  <2>1. Recursions(V, b, n, h) # {}
    <3> HIDE DEF h
    <3> QED
      BY <1>1, <1>5, RecursionExists
  <2> QED
    BY <2>1 DEF Recursions
<1> HIDE DEF h
<1>7. Eq(f)
  <2>1. ASSUME NEW i \in 0..n PROVE f[i] = IF i = 0 THEN b ELSE F(f[i - 1])
    <3>1. CASE i = 0
      BY <1>6, <3>1
    <3>2. CASE i # 0
      <4>1. i \in 1..n /\ f[i - 1] \in V
        BY <1>1, <3>2
      <4> QED
        BY <1>5, <1>6, <3>2, <4>1
    <3> QED
      BY <3>1, <3>2
  <2> QED
    BY <1>3, <2>1
<1> DEFINE k == CHOOSE g : Eq(g)
<1>8. Eq(k)
  BY <1>7
<1> HIDE DEF k
<1>9. k = [i \in 0..n |-> IF i = 0 THEN b ELSE F(k[i - 1])]
  BY <1>3, <1>8
<1>10. k[0] = b
  BY <1>1, <1>9
<1>11. \A i \in 1..n : k[i] = F(k[i - 1])
  BY <1>1, <1>9
<1>12. NamesToldFor(addr) = k[n]
  BY <1>4 DEF k
<1> QED
  BY <1>10, <1>11, <1>12 DEF n, b, F

(* resolv_addr()'s loop, step by step.                                     *)
LEMMA ResolveSteps ==
  ASSUME DnsInv, NEW addr, RecordsOf(addr) # <<>>
  PROVE  \E k : /\ Resolve(addr) = k[RecurMax]
                /\ k[0] = Head(RecordsOf(addr)).name
                /\ \A i \in 1..RecurMax : k[i] = Parent(k[i - 1])
                /\ \A i \in 0..RecurMax : k[i] \in Name
<1> DEFINE V == Name
           n == RecurMax
           b == Head(RecordsOf(addr)).name
           F(x) == Parent(x)
           Eq(g) == g = [i \in 0..n |-> IF i = 0 THEN Head(RecordsOf(addr)).name
                                        ELSE Parent(g[i - 1])]
           h == [x \in V \X (1..n) |-> F(x[1])]
<1>1. n \in Nat /\ b \in V
  BY FirstNameTold, ToldNames, ModDnsAssumption DEF DnsInv
<1>2. \A x \in V : F(x) \in V
  BY ParentTold, ToldNames DEF DnsInv
<1>3. \A g : Eq(g) <=> g = [i \in 0..n |-> IF i = 0 THEN b ELSE F(g[i - 1])]
  OBVIOUS
<1>4. Resolve(addr) = (CHOOSE g : Eq(g))[n]
  BY Zenon DEF Resolve, RecordsOf
<1> HIDE DEF n, b, F, Eq
<1>5. h \in [V \X (1..n) -> V] /\ \A t \in V, i \in 1..n : h[<<t, i>>] = F(t)
  BY <1>2
<1>6. PICK f \in [0..n -> V] : \A i \in 0..n : f[i] = IF i = 0 THEN b ELSE h[<<f[i - 1], i>>]
  <2>1. Recursions(V, b, n, h) # {}
    <3> HIDE DEF h
    <3> QED
      BY <1>1, <1>5, RecursionExists
  <2> QED
    BY <2>1 DEF Recursions
<1> HIDE DEF h
<1>7. Eq(f)
  <2>1. ASSUME NEW i \in 0..n PROVE f[i] = IF i = 0 THEN b ELSE F(f[i - 1])
    <3>1. CASE i = 0
      BY <1>6, <3>1
    <3>2. CASE i # 0
      <4>1. i \in 1..n /\ f[i - 1] \in V
        BY <1>1, <3>2
      <4> QED
        BY <1>5, <1>6, <3>2, <4>1
    <3> QED
      BY <3>1, <3>2
  <2> QED
    BY <1>3, <2>1
<1> DEFINE k == CHOOSE g : Eq(g)
<1>8. Eq(k)
  BY <1>7
<1> HIDE DEF k
<1>9. k = [i \in 0..n |-> IF i = 0 THEN b ELSE F(k[i - 1])]
  BY <1>3, <1>8
<1>10. k[0] = b
  BY <1>1, <1>9
<1>11. \A i \in 1..n : k[i] = F(k[i - 1])
  BY <1>1, <1>9
<1>12. Resolve(addr) = k[n]
  BY <1>4 DEF k
<1>13. \A i \in 0..n : k[i] \in V
  <2>1. ASSUME NEW i \in 1..n, k[i - 1] \in V PROVE k[i] \in V
    BY <1>2, <1>11, <2>1
  <2> HIDE DEF V
  <2> QED
    BY <1>1, <1>10, <2>1, RangeInduction
<1> QED
  BY <1>10, <1>11, <1>12, <1>13 DEF n, b, F

(* So the name found follows from what was told.                           *)
LEMMA ResolvedTold == DnsInv => NamesTold
<1> SUFFICES ASSUME DnsInv, NEW addr \in Addr, Resolve(addr) # Nameless
             PROVE  Resolve(addr) \in NamesToldFor(addr)
  BY DEF NamesTold
<1>1. RecordsOf(addr) # <<>>
  BY Zenon DEF Resolve, RecordsOf
<1>2. PICK f : /\ Resolve(addr) = f[RecurMax]
               /\ f[0] = Head(RecordsOf(addr)).name
               /\ \A i \in 1..RecurMax : f[i] = Parent(f[i - 1])
               /\ \A i \in 0..RecurMax : f[i] \in Name
  BY <1>1, ResolveSteps
<1>3. PICK g : /\ NamesToldFor(addr) = g[RecurMax]
               /\ g[0] = {t.answer.name :
                             t \in {u \in told : u.answer.type = "A" /\ u.answer.data = addr}}
               /\ \A i \in 1..RecurMax :
                     g[i] = g[i - 1] \union UNION {LeadsTo(n) : n \in g[i - 1]}
  BY NamesToldSteps DEF DnsInv
<1> DEFINE A == {i \in Nat : i <= RecurMax => f[i] \in g[i]}
<1>4. 0 \in A
  BY <1>1, <1>2, <1>3, FirstNameTold
<1>5. ASSUME NEW i \in Nat, i \in A PROVE i + 1 \in A
  <2> SUFFICES ASSUME i + 1 <= RecurMax PROVE f[i + 1] \in g[i + 1]
    OBVIOUS
  <2>1. RecurMax \in Nat
    BY ModDnsAssumption
  <2>2. i + 1 \in 1..RecurMax /\ (i + 1) - 1 = i /\ i \in 0..RecurMax /\ f[i] \in g[i]
    BY <1>5, <2>1
  <2>3. /\ f[i + 1] = Parent(f[i]) /\ f[i] \in Name
        /\ g[i + 1] = g[i] \union UNION {LeadsTo(n) : n \in g[i]}
    BY <1>2, <1>3, <2>2
  <2>4. Parent(f[i]) = f[i] \/ Parent(f[i]) \in LeadsTo(f[i])
    BY <2>3, ParentTold
  <2> QED
    BY <2>2, <2>3, <2>4
<1>6. \A i \in Nat : i \in A
  <2> HIDE DEF A
  <2> QED
    BY <1>4, <1>5, SetInduction
<1> QED
  BY <1>2, <1>3, <1>6, ModDnsAssumption

-----------------------------------------------------------------------------
(* What the last call sent.                                                *)
SentOk == OutcomesExclusive /\ LatencyBounded /\ MissAfterTtl

(* A call that sends nothing sends nothing wrong.                          *)
LEMMA SentNothing ==
  ASSUME sent' = {}
  PROVE  SentOk'
BY DEF SentOk, OutcomesExclusive, LatencyBounded, MissAfterTtl

(* What a response and the sweep before it send.                           *)
LEMMA SuccessSentOk ==
  ASSUME DnsInv, NEW k \in Key, NEW ts \in Time, NEW ans \in Seq(Answer), Success(k, ts, ans)
  PROVE  SentOk'
<1>1. PICK p \in QueryId :
           /\ query[p] \in Query /\ query[p] # NoQuery /\ query[p].due >= tick'
           /\ sent' = {[status |-> "success", key |-> k, of |-> p,
                        latency |-> ts - query[p].first, at |-> ts]}
           /\ query' = [query EXCEPT ![p] = [query[p] EXCEPT !.hasReply = TRUE]]
           /\ answered' = answered \union {p}
           /\ Tick(Sec(ts), ans)
  BY SuccessPairs
<1>2. AgeOk(Sec(ts), tick', late', Sec(query[p].first), query[p].due)
  BY <1>1, QueriesStep, SecType
<1>3. ts - query[p].first < (QueryTtl + 1) * Unit
  <2>1. tick' \in Nat
    BY <1>1, ClockStep, SecType DEF DnsInv
  <2>2. query[p].first \in Time /\ query[p].due \in Nat
    BY <1>1 DEF Query
  <2>3. QueryTtl \in Nat /\ Sec(ts) \in Nat /\ Sec(query[p].first) \in Nat
    BY <2>2, ModDnsAssumption, SecType
  <2>4. Sec(ts) - Sec(query[p].first) <= QueryTtl
    BY <1>1, <1>2, <2>1, <2>2, <2>3 DEF AgeOk
  <2> QED
    BY <2>2, <2>3, <2>4, ApartInSeconds
<1>4. \A m \in sent' : m.status = "success" /\ m.latency = ts - query[p].first
  BY <1>1
<1>5. LatencyBounded'
  BY <1>3, <1>4 DEF LatencyBounded
<1>6. OutcomesExclusive' /\ MissAfterTtl'
  BY <1>4 DEF OutcomesExclusive, MissAfterTtl
<1> QED
  BY <1>5, <1>6 DEF SentOk

(* What a response without a request sends.                                *)
LEMMA MissSentOk ==
  ASSUME DnsInv, NEW k \in Key, NEW ts \in Time, Miss(k, ts)
  PROVE  SentOk'
<1>1. /\ Tick(Sec(ts), <<>>) /\ InFlight(k, tick') = {} /\ query' = query
      /\ \A m \in sent' : m.status = "miss" /\ m.key = k
  BY DEF Miss
<1>2. ASSUME NEW q \in QueryId, query[q] # NoQuery, query[q].key = k
      PROVE  Sec(ts) - Sec(query[q].first) + late' > QueryTtl
  <2>1. AgeOk(Sec(ts), tick', late', Sec(query[q].first), query[q].due)
    BY <1>1, <1>2, QueriesStep, SecType
  <2>2. tick' \in Nat /\ late' \in Nat
    BY <1>1, ClockStep, SecType DEF DnsInv
  <2>3. query[q] \in Query
    BY <1>2 DEF DnsInv, TypeOK
  <2>4. /\ Sec(ts) \in Nat /\ QueryTtl \in Nat
        /\ Sec(query[q].first) \in Nat /\ query[q].due \in Nat
    BY <2>3, ModDnsAssumption, SecType DEF Query
  <2>5. ~(query[q].due >= tick')
    BY <1>1, <1>2 DEF InFlight
  <2> QED
    BY <2>1, <2>2, <2>4, <2>5 DEF AgeOk
<1>3. lastTs' = Sec(ts)
  BY <1>1 DEF Tick
<1>4. MissAfterTtl'
  BY <1>1, <1>2, <1>3 DEF MissAfterTtl
<1>5. LatencyBounded' /\ OutcomesExclusive'
  BY <1>1 DEF LatencyBounded, OutcomesExclusive
<1> QED
  BY <1>4, <1>5 DEF SentOk

(* What the destructor sends.                                              *)
LEMMA DestroySentOk ==
  ASSUME DnsInv, Destroy
  PROVE  SentOk'
<1>1. \A m \in sent' : m.status = "timeout" /\ m.of \in QueryId
                       /\ query[m.of] # NoQuery /\ ~query[m.of].hasReply
  BY DEF Destroy
<1>2. alive /\ answered' = answered
  BY DEF Destroy
<1>3. \A q \in answered : query[q].hasReply
  BY <1>2 DEF DnsInv, AnsweredMarked
<1>4. OutcomesExclusive'
  BY <1>1, <1>2, <1>3 DEF OutcomesExclusive
<1>5. LatencyBounded' /\ MissAfterTtl'
  BY <1>1 DEF LatencyBounded, MissAfterTtl
<1> QED
  BY <1>4, <1>5 DEF SentOk

(* Whatever the step, what it sends is right.                              *)
LEMMA SentOkNext == DnsInv /\ SentOk /\ [Next]_vars => SentOk'
<1> SUFFICES ASSUME DnsInv, SentOk, [Next]_vars PROVE SentOk'
  OBVIOUS
<1>1. CASE \E k \in Key, ts \in Time : NewQuery(k, ts) \/ RepeatQuery(k, ts)
  BY <1>1, SentNothing DEF NewQuery, RepeatQuery
<1>2. CASE \E k \in Key, ts \in Time : Miss(k, ts)
  BY <1>2, MissSentOk
<1>3. CASE \E k \in Key, ts \in Time, ans \in Answers : Success(k, ts, ans)
  BY <1>3, SuccessSentOk, ModDnsAssumption
<1>4. CASE Destroy
  BY <1>4, DestroySentOk
<1>5. CASE UNCHANGED vars
  BY <1>5 DEF vars, tables, SentOk, OutcomesExclusive, LatencyBounded, MissAfterTtl
<1> QED
  BY <1>1, <1>2, <1>3, <1>4, <1>5 DEF Next

(* Nothing was sent at first.                                              *)
LEMMA SentOkInit == Init => SentOk
BY DEF Init, SentOk, OutcomesExclusive, LatencyBounded, MissAfterTtl

(* All that ModDns sends of a request's outcome is right: one outcome, a   *)
(* latency below QueryTtl + 1 seconds, and no miss for a request that      *)
(* still lives.                                                            *)
LEMMA DnsSentOk == Spec => []SentOk
<1>1. Init => DnsInv /\ SentOk
  BY DnsInvInit, SentOkInit
<1>2. DnsInv /\ SentOk /\ [Next]_vars => (DnsInv /\ SentOk)'
  BY DnsInvNext, SentOkNext
<1> QED
  BY <1>1, <1>2, PTL DEF Spec

-----------------------------------------------------------------------------
(* Types, for all constants.                                               *)
THEOREM DnsTypes == Spec => []TypeOK
<1>1. DnsInv => TypeOK
  BY DEF DnsInv
<1> QED
  BY <1>1, DnsInvariant, PTL

(* recv() asks the table before it puts a Query, and the clock only goes   *)
(* on, so no key ever has two Query objects in flight.                     *)
THEOREM OneQuery == Spec => []OneQueryPerKey
<1>1. DnsInv => OneQueryPerKey
  BY DEF DnsInv
<1> QED
  BY <1>1, DnsInvariant, PTL

(* A request that got a response is never flushed as a timeout.            *)
THEOREM OutcomesDiffer == Spec => []OutcomesExclusive
<1>1. SentOk => OutcomesExclusive
  BY DEF SentOk
<1> QED
  BY <1>1, DnsSentOk, PTL

(* No latency of query_ttl + 1 seconds or more is reported, whatever the   *)
(* order of packets and however finely p.ts() divides a second: only the   *)
(* fraction that the clock does not see can take it over query_ttl.        *)
THEOREM LatencyBelowTtlAndOne == Spec => []LatencyBounded
<1>1. SentOk => LatencyBounded
  BY DEF SentOk
<1> QED
  BY <1>1, DnsSentOk, PTL

(* A request is missed only when its age and the lateness of the packets   *)
(* since, in whole seconds, together exceed query_ttl.                     *)
THEOREM MissesAreOld == Spec => []MissAfterTtl
<1>1. SentOk => MissAfterTtl
  BY DEF SentOk
<1> QED
  BY <1>1, DnsSentOk, PTL

(* The two caches hold nothing older than cache_ttl and one name for an    *)
(* address.                                                                *)
THEOREM CachesFresh == Spec => []CacheFresh
<1>1. DnsInv => CacheFresh
  BY DEF DnsInv
<1> QED
  BY <1>1, DnsInvariant, PTL

(* resolv_addr() only ever returns a name that recent answers lead to,     *)
(* for any number of records, aliases and steps.                           *)
THEOREM ResolvedFromAnswers == Spec => []NamesTold
BY ResolvedTold, DnsInvariant, PTL

=============================================================================
