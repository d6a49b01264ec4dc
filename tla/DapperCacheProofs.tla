------------------------- MODULE DapperCacheProofs -------------------------
(***************************************************************************)
(* Proofs about DapperCache: the flag of a load always has a load behind   *)
(* it, and an answer is what one load made of the table.                   *)
(***************************************************************************)
EXTENDS DapperCache, TLAPS

\* Functions stay functions, places are places, domains are domains.
Shape ==
    /\ clock \in Nat
    /\ cache = [d \in Domains |-> cache[d]]
    /\ pc \in [Procs -> Places]
    /\ dom \in [Procs -> Domains]
    /\ t = [p \in Procs |-> t[p]]
    /\ snap = [p \in Procs |-> snap[p]]

\* The flag is up only while someone refills the cache.
FlagHeld == cacheLoading => \E p \in Procs : Refilling(p)

\* A goroutine in hitCache that has read the entry of its domain.
Holding(p) == pc[p] \in Places \ {"idle", "read", "find", "put"}

\* An entry of the cache, or of rows to be stored, for domain d.
Good(entry, d) == entry = Missing \/ Loaded(entry.tables, d)

CacheGood == \A d \in Domains : Good(cache[d], d)

CopiesGood == \A p \in Procs : Holding(p) => Loaded(t[p].tables, dom[p])

RowsGood ==
    \A p \in Procs : pc[p] \in {"store", "write"} =>
        \A d \in Domains : Good(snap[p][d], d)

IInv ==
    /\ Shape
    /\ ~patched => CacheGood /\ CopiesGood /\ RowsGood

(***************************************************************************)
(* The shape of the state, and the flag.                                   *)
(***************************************************************************)

\* The initial state has the shape, and the flag is down.
LEMMA InitShape == Init => Shape /\ FlagHeld
BY CacheAssumption DEF Init, Shape, NoRows, Places, Procs, FlagHeld

\* A function that ends leaves the shape of its variables.
LEMMA ReturnShape ==
    ASSUME Shape, NEW p \in Procs, Return(p)
    PROVE  /\ pc' \in [Procs -> Places]
           /\ dom' \in [Procs -> Domains]
           /\ t' = [q \in Procs |-> t'[q]]
           /\ snap' = [q \in Procs |-> snap'[q]]
BY CacheAssumption DEF Shape, Return, Go, Places

\* Every action keeps the shape.
LEMMA NextShape == Shape /\ [Next]_vars => Shape'
<1> SUFFICES ASSUME Shape, [Next]_vars PROVE Shape'
    OBVIOUS
<1> USE DEF local, At
<1>1. ASSUME NEW s \in Series, Ingest(s[1], s[2]) PROVE Shape'
    BY <1>1 DEF Ingest, Shape
<1>2. CASE Tick
    BY <1>2 DEF Tick, Shape
<1>3. CASE Startup
    BY <1>3 DEF Startup, Shape, CacheRows, Come
<1>4. CASE Die
    BY <1>4, CacheAssumption DEF Die, Shape, NoRows, Places
<1>5. ASSUME NEW p \in Procs, NEW d \in Domains, Request(p, d) PROVE Shape'
    BY <1>5 DEF Request, Go, Shape, Places
<1>6. ASSUME NEW p \in Handlers, NEW s \in Asked, GetLatest(p, s[1], s[2]) PROVE Shape'
    <2>1. p \in Procs /\ s[1] \in Domains
        BY CacheAssumption DEF Procs
    <2> QED BY <1>6, <2>1 DEF GetLatest, Go, Shape, Places
<1>7. ASSUME NEW p \in Procs, Step(p) PROVE Shape'
    <2>1. CASE Read(p)
        BY <2>1, ReturnShape DEF Read, ReadEntry, Go, Shape, Places
    <2>2. CASE Check(p) \/ Mark(p) \/ AskNew(p) \/ Query(p) \/ Lock(p) \/ Unmark(p)
        BY <2>2 DEF Check, Mark, AskNew, Query, Lock, Unmark, Go, Shape, Places
    <2>3. CASE QueryFails(p) \/ ScanFails(p) \/ Answer(p)
        BY <2>3, ReturnShape DEF QueryFails, ScanFails, Answer, Fails, Shape
    <2>4. ASSUME NEW d \in Domains, Write(p, d) PROVE Shape'
        BY <2>4 DEF Write, Go, Shape, Places
    <2>5. CASE RemoveUnused(p)
        BY <2>5 DEF RemoveUnused, Go, Shape, Places
    <2>6. CASE Reread(p)
        BY <2>6, ReturnShape DEF Reread, Fails, Go, Shape, Places
    <2>7. CASE Find(p)
        BY <2>7, ReturnShape DEF Find, Go, Shape, Places
    <2>8. CASE PutTable(p)
        <3>1. CASE Return(p) /\ UNCHANGED <<cache, patched>>
            BY <2>8, <3>1, ReturnShape DEF PutTable, Shape
        <3>2. CASE ~(Return(p) /\ UNCHANGED <<cache, patched>>)
            BY <2>8, <3>2, CacheAssumption DEF PutTable, Go, Shape, Places
        <3> QED BY <3>1, <3>2
    <2> QED BY <1>7, <2>1, <2>2, <2>3, <2>4, <2>5, <2>6, <2>7, <2>8 DEF Step
<1>8. CASE UNCHANGED vars
    BY <1>8 DEF vars, Shape
<1> QED BY <1>1, <1>2, <1>3, <1>4, <1>5, <1>6, <1>7, <1>8 DEF Next

\* Who leaves a load takes the flag down.
LEMMA NextFlag == Shape /\ FlagHeld /\ [Next]_vars => FlagHeld'
<1> SUFFICES ASSUME Shape, FlagHeld, [Next]_vars PROVE FlagHeld'
    OBVIOUS
<1> USE DEF local, At, FlagHeld, Refilling
<1>1. ASSUME NEW s \in Series, Ingest(s[1], s[2]) PROVE FlagHeld'
    BY <1>1 DEF Ingest
<1>2. CASE Tick \/ Startup
    BY <1>2 DEF Tick, Startup
<1>3. CASE Die
    BY <1>3 DEF Die
<1>4. ASSUME NEW p \in Procs, NEW d \in Domains, Request(p, d) PROVE FlagHeld'
    BY <1>4 DEF Request, Go, Shape
<1>5. ASSUME NEW p \in Handlers, NEW s \in Asked, GetLatest(p, s[1], s[2]) PROVE FlagHeld'
    BY <1>5 DEF GetLatest, Go, Shape, Procs
<1>6. ASSUME NEW p \in Procs, Step(p) PROVE FlagHeld'
    <2>1. CASE Read(p) \/ Check(p) \/ Answer(p) \/ Find(p)
        BY <2>1 DEF Read, ReadEntry, Check, Answer, Find, Return, Go, Shape
    <2>2. CASE Mark(p) \/ AskNew(p) \/ Query(p) \/ Lock(p)
        BY <2>2 DEF Mark, AskNew, Query, Lock, Go, Shape
    <2>3. CASE QueryFails(p) \/ ScanFails(p) \/ Unmark(p)
        BY <2>3 DEF QueryFails, ScanFails, Fails, Unmark
    <2>4. ASSUME NEW d \in Domains, Write(p, d) PROVE FlagHeld'
        BY <2>4 DEF Write, Go, Shape
    <2>5. CASE RemoveUnused(p)
        BY <2>5 DEF RemoveUnused, Go, Shape
    <2>6. CASE Reread(p)
        BY <2>6 DEF Reread, Fails, Go, Shape
    <2>7. CASE PutTable(p)
        <3>1. pc' = [pc EXCEPT ![p] = "idle"] /\ UNCHANGED cacheLoading
            BY <2>7 DEF PutTable, Return, Go
        <3> QED BY <2>7, <3>1 DEF PutTable, Shape
    <2> QED BY <1>6, <2>1, <2>2, <2>3, <2>4, <2>5, <2>6, <2>7 DEF Step
<1>7. CASE UNCHANGED vars
    BY <1>7 DEF vars
<1> QED BY <1>1, <1>2, <1>3, <1>4, <1>5, <1>6, <1>7 DEF Next

\* cacheLoading is never left up by a load that has ended, failed or died:
\* whoever finds it up can count on a goroutine that will take it down.
THEOREM FlagHasLoader == Spec => []FlagHeld
<1>1. Init => Shape /\ FlagHeld
    BY InitShape
<1>2. (Shape /\ FlagHeld) /\ [Next]_vars => (Shape /\ FlagHeld)'
    BY NextShape, NextFlag
<1> QED BY <1>1, <1>2, PTL DEF Spec

(***************************************************************************)
(* Loads.                                                                  *)
(***************************************************************************)

\* What the table had at a moment of the past is not changed by records that
\* are ingested later, and a connection that broke then has broken.
LEMMA PastUnchanged ==
    ASSUME Shape, [Next]_vars, ~Die, NEW d \in Domains, NEW now \in 0..clock
    PROVE  /\ now \in 0..clock' /\ LatestTables(d, now)' = LatestTables(d, now)
           /\ now \in cut => now \in cut'
<1>1. \/ clock' = clock /\ records' = records
      \/ /\ clock' = clock + 1
         /\ \E r : r.time = clock + 1 /\ records' \in {records, records \cup {r}}
    <2>1. ASSUME NEW s \in Series, Ingest(s[1], s[2])
          PROVE  \E r : r.time = clock + 1 /\ records' = records \cup {r}
        BY <2>1 DEF Ingest
    <2>2. ASSUME Tick PROVE records' = records /\ \E r : r.time = clock + 1
        <3>1. [time |-> clock + 1].time = clock + 1
            OBVIOUS
        <3> QED BY <2>2, <3>1 DEF Tick
    <2>3. ASSUME NEW p \in Procs, Step(p) PROVE clock' = clock /\ records' = records
        BY <2>3 DEF Step, Read, Check, Mark, AskNew, QueryFails, Query, Lock, Write,
            ScanFails, RemoveUnused, Reread, Unmark, Answer, Find, PutTable
    <2> QED
        BY <2>1, <2>2, <2>3 DEF Next, Ingest, Tick, Startup, Die, Request, GetLatest, vars
<1>2. now \in 0..clock'
    BY <1>1 DEF Shape
<1>3. \A k : Times(d, k, now)' = Times(d, k, now)
    BY <1>1 DEF Times, Shape
<1> DEFINE recent == {k \in Keys : \E x \in Times(d, k, now) : x > now - Window}
<1>4. recent' = recent
    BY <1>3
<1>5. InOrder(recent)' = InOrder(recent)
    BY <1>4
<1>6. \A k : Newest(Times(d, k, now))' = Newest(Times(d, k, now))
    BY <1>3
<1> HIDE DEF recent
<1>7. LatestTables(d, now)' = LatestTables(d, now)
    <2>1. LatestTables(d, now) =
            [i \in 1..Len(InOrder(recent)) |->
                [key |-> InOrder(recent)[i],
                 time |-> Newest(Times(d, InOrder(recent)[i], now))]]
        BY DEF LatestTables, recent
    <2>2. LatestTables(d, now)' =
            [i \in 1..Len(InOrder(recent)') |->
                [key |-> InOrder(recent)'[i],
                 time |-> Newest(Times(d, InOrder(recent)[i], now))']]
        BY DEF LatestTables, recent
    <2> QED BY <1>5, <1>6, <2>1, <2>2
<1>8. cut \subseteq cut'
    BY DEF Next, Ingest, Tick, Startup, Come, Request, GetLatest, Step, Read, Check, Mark,
        AskNew, QueryFails, Query, Lock, Write, ScanFails, RemoveUnused, Reread,
        Unmark, Answer, Find, PutTable, vars
<1> QED BY <1>2, <1>7, <1>8

\* So a load stays a load.
LEMMA StaysLoaded ==
    ASSUME Shape, [Next]_vars, ~Die, NEW d \in Domains, NEW tables, Loaded(tables, d)
    PROVE  Loaded(tables, d)'
<1>1. PICK now \in 0..clock : MadeAt(tables, d, now)
    BY DEF Loaded
<1>2. /\ now \in 0..clock' /\ LatestTables(d, now)' = LatestTables(d, now)
      /\ now \in cut => now \in cut'
    BY PastUnchanged
<1> QED BY <1>1, <1>2 DEF Loaded, MadeAt, IsLast

\* So a good entry stays good.
LEMMA StaysGood ==
    ASSUME Shape, [Next]_vars, ~Die, NEW d \in Domains, NEW entry, Good(entry, d)
    PROVE  Good(entry, d)'
BY StaysLoaded DEF Good

\* What a load stores is what it makes of the table at the moment of its query:
\* of all rows, or of those that came before the connection broke.
LEMMA CacheRowsGood ==
    ASSUME Shape, clock' = clock, records' = records, NEW d \in Domains, NEW rows,
           rows = AllRows(clock) \/ Come(rows)
    PROVE  Good(CacheRows(rows)[d], d)'
<1> DEFINE all == LatestTables(d, clock)
<1>1. clock' \in 0..clock' /\ LatestTables(d, clock)' = all
    BY DEF Shape, LatestTables, Times
<1>2. ASSUME rows[d] \in {all, <<>>} PROVE Good(CacheRows(rows)[d], d)'
    <2>1. ASSUME NEW e \in Domains, e > d PROVE ~IsLast(d)
        BY <2>1, CacheAssumption DEF IsLast
    <2>2. \/ CacheRows(rows)[d] = Missing
          \/ CacheRows(rows)[d].tables = all
          \/ ~IsLast(d) /\ all # <<>> /\ CacheRows(rows)[d].tables = Front(all)
        BY <1>2, <2>1 DEF CacheRows
    <2> QED BY <1>1, <2>2 DEF Good, Loaded, MadeAt, IsLast
<1>3. CASE rows = AllRows(clock)
    BY <1>2, <1>3 DEF AllRows
<1>4. ASSUME rows \in BrokenRows(clock), clock \in cut' PROVE Good(CacheRows(rows)[d], d)'
    <2> PICK e \in Domains :
            \E n \in 0..Len(LatestTables(e, clock)) - 1 : rows = CutOff(AllRows(clock), e, n)
        BY <1>4 DEF BrokenRows
    <2>1. PICK n \in 0..Len(LatestTables(e, clock)) - 1 : rows = CutOff(AllRows(clock), e, n)
        OBVIOUS
    <2>2. CASE d # e
        <3>1. rows[d] \in {all, <<>>}
            BY <2>1, <2>2 DEF CutOff, AllRows
        <3> QED BY <1>2, <3>1
    <2>3. CASE d = e
        <3>1. rows[d] = SubSeq(all, 1, n) /\ \A c \in Domains : c > d => rows[c] = <<>>
            BY <2>1, <2>3, CacheAssumption DEF CutOff, AllRows
        <3>2. CASE rows[d] = <<>>
            BY <1>2, <3>2
        <3>3. CASE rows[d] # <<>>
            <4>1. n # 0
                BY <3>1, <3>3
            <4>2. n \in 1..Len(all) - 1
                BY <2>3, <4>1
            <4>3. CacheRows(rows)[d].tables = SubSeq(all, 1, n)
                BY <3>1, <3>3 DEF CacheRows
            <4> QED BY <1>1, <1>4, <4>2, <4>3 DEF Good, Loaded, MadeAt
        <3> QED BY <3>2, <3>3
    <2> QED BY <2>2, <2>3
<1>5. CASE rows \in BrokenRows(clock) /\ clock \in cut'
    BY <1>4, <1>5
<1>6. CASE ~(rows \in BrokenRows(clock) /\ clock \in cut')
    BY <1>3, <1>6 DEF Come
<1> QED BY <1>5, <1>6

(***************************************************************************)
(* The inductive invariant.                                                *)
(***************************************************************************)

\* The cache is empty at first.
LEMMA InitIInv == Init => IInv
<1> SUFFICES ASSUME Init PROVE IInv
    OBVIOUS
<1>1. Shape
    BY InitShape
<1>2. CacheGood
    BY DEF Init, CacheGood, Good, NoRows
<1>3. CopiesGood /\ RowsGood
    BY DEF Init, CopiesGood, Holding, RowsGood
<1> QED BY <1>1, <1>2, <1>3 DEF IInv

\* Entries of the cache that are kept stay good.
LEMMA CacheKept ==
    ASSUME IInv, [Next]_vars, ~Die, ~patched,
           \A d \in Domains : cache'[d] = cache[d] \/ cache'[d] = Missing
    PROVE  CacheGood'
<1> SUFFICES ASSUME NEW d \in Domains PROVE Good(cache[d], d)'
    BY DEF CacheGood
<1>1. Good(cache[d], d) /\ Shape
    BY DEF IInv, CacheGood
<1>2. CASE cache'[d] = cache[d]
    BY <1>1, <1>2, StaysGood DEF Good, Loaded
<1>3. CASE cache'[d] = Missing
    BY <1>3 DEF Good
<1> QED BY <1>2, <1>3

\* A copy that is kept stays a load.
LEMMA CopyKept ==
    ASSUME IInv, [Next]_vars, ~Die, ~patched, NEW q \in Procs,
           Holding(q), t'[q] = t[q], dom'[q] = dom[q]
    PROVE  Loaded(t[q].tables, dom[q])'
<1>1. Loaded(t[q].tables, dom[q]) /\ Shape /\ dom[q] \in Domains
    BY DEF IInv, CopiesGood, Shape
<1>2. PICK now \in 0..clock : MadeAt(t[q].tables, dom[q], now)
    BY <1>1 DEF Loaded
<1>3. /\ now \in 0..clock' /\ LatestTables(dom[q], now)' = LatestTables(dom[q], now)
      /\ now \in cut => now \in cut'
    BY <1>1, PastUnchanged
<1> QED BY <1>2, <1>3 DEF Loaded, MadeAt, IsLast

\* A copy of an entry is a load.
LEMMA CopyMade ==
    ASSUME IInv, [Next]_vars, ~Die, ~patched, NEW q \in Procs,
           cache[dom[q]] # Missing, t'[q] = cache[dom[q]], dom'[q] = dom[q]
    PROVE  Loaded(t[q].tables, dom[q])'
<1>1. dom[q] \in Domains /\ Shape
    BY DEF IInv, Shape
<1>2. Loaded(cache[dom[q]].tables, dom[q])
    BY <1>1 DEF IInv, CacheGood, Good
<1>3. PICK now \in 0..clock : MadeAt(cache[dom[q]].tables, dom[q], now)
    BY <1>2 DEF Loaded
<1>4. /\ now \in 0..clock' /\ LatestTables(dom[q], now)' = LatestTables(dom[q], now)
      /\ now \in cut => now \in cut'
    BY <1>1, PastUnchanged
<1> QED BY <1>3, <1>4 DEF Loaded, MadeAt, IsLast

\* Rows that are kept stay loads.
LEMMA RowsKept ==
    ASSUME IInv, [Next]_vars, ~Die, ~patched, NEW q \in Procs,
           pc[q] \in {"store", "write"}, snap'[q] = snap[q]
    PROVE  \A d \in Domains : Good(snap[q][d], d)'
<1> SUFFICES ASSUME NEW d \in Domains PROVE Good(snap[q][d], d)'
    OBVIOUS
<1>1. Good(snap[q][d], d) /\ Shape
    BY DEF IInv, RowsGood
<1> QED BY <1>1, StaysGood DEF Good, Loaded

\* The variables of goroutines other than p.
OthersKept(p) ==
    \A q \in Procs \ {p} :
        pc'[q] = pc[q] /\ t'[q] = t[q] /\ dom'[q] = dom[q] /\ snap'[q] = snap[q]

\* A step of p leaves the copies and rows of the others good.
LEMMA LocalStep ==
    ASSUME IInv, [Next]_vars, ~Die, ~patched, NEW p \in Procs, OthersKept(p),
           Holding(p)' => Loaded(t[p].tables, dom[p])',
           pc'[p] \in {"store", "write"} => \A d \in Domains : Good(snap[p][d], d)'
    PROVE  CopiesGood' /\ RowsGood'
<1>1. ASSUME NEW q \in Procs, q # p, Holding(q)' PROVE Loaded(t[q].tables, dom[q])'
    <2>1. Holding(q) /\ t'[q] = t[q] /\ dom'[q] = dom[q]
        BY <1>1 DEF OthersKept, Holding
    <2> QED BY <1>1, <2>1, CopyKept
<1>2. ASSUME NEW q \in Procs, q # p, pc'[q] \in {"store", "write"}, NEW d \in Domains
      PROVE  Good(snap[q][d], d)'
    <2>1. pc[q] \in {"store", "write"} /\ snap'[q] = snap[q]
        BY <1>2 DEF OthersKept
    <2> QED BY <1>2, <2>1, RowsKept
<1>3. CopiesGood'
    BY <1>1 DEF CopiesGood
<1>4. RowsGood'
    BY <1>2 DEF RowsGood
<1> QED BY <1>3, <1>4

\* The same when nobody's variables change.
LEMMA LocalKept ==
    ASSUME IInv, [Next]_vars, ~Die, ~patched, UNCHANGED local
    PROVE  CopiesGood' /\ RowsGood'
<1>1. ASSUME NEW q \in Procs, Holding(q)' PROVE Loaded(t[q].tables, dom[q])'
    BY <1>1, CopyKept DEF local, Holding
<1>2. ASSUME NEW q \in Procs, pc'[q] \in {"store", "write"}, NEW d \in Domains
      PROVE  Good(snap[q][d], d)'
    BY <1>2, RowsKept DEF local
<1> QED BY <1>1, <1>2 DEF CopiesGood, RowsGood

\* A goroutine that moves on with its copy, or ends.
LEMMA MoveOn ==
    ASSUME IInv, [Next]_vars, ~Die, ~patched, NEW p \in Procs, Holding(p), NEW place \in Places,
           Go(p, place), place \notin {"store", "write"}, UNCHANGED <<t, dom, snap>>
    PROVE  CopiesGood' /\ RowsGood'
<1>1. OthersKept(p) /\ pc'[p] = place
    BY DEF OthersKept, Go, IInv, Shape
<1>2. Loaded(t[p].tables, dom[p])'
    BY CopyKept
<1> QED BY <1>1, <1>2, LocalStep

\* A goroutine whose function ends.
LEMMA ReturnGood ==
    ASSUME IInv, [Next]_vars, ~Die, ~patched, NEW p \in Procs, Return(p)
    PROVE  CopiesGood' /\ RowsGood'
<1>1. OthersKept(p) /\ pc'[p] = "idle"
    BY DEF OthersKept, Return, Go, IInv, Shape
<1>2. ~Holding(p)'
    BY <1>1 DEF Holding
<1> QED BY <1>1, <1>2, LocalStep

\* The first load.
LEMMA StartupGood ==
    ASSUME IInv, [Next]_vars, ~Die, ~patched, Startup
    PROVE  CacheGood' /\ CopiesGood' /\ RowsGood'
<1>1. CopiesGood' /\ RowsGood'
    BY LocalKept DEF Startup
<1>2. ASSUME NEW d \in Domains PROVE Good(cache[d], d)'
    <2>1. CASE \E rows : Come(rows) /\ cache' = CacheRows(rows)
        <3>1. PICK rows : Come(rows) /\ cache' = CacheRows(rows)
            BY <2>1
        <3>2. Good(CacheRows(rows)[d], d)'
            BY <3>1, CacheRowsGood DEF Startup, IInv
        <3> QED BY <3>1, <3>2 DEF Good, Loaded
    <2>2. CASE cut' = cut /\ cache'[d] \in {Missing, CacheRows(AllRows(clock))[d]}
        <3>1. CASE cache'[d] = Missing
            BY <3>1 DEF Good
        <3>2. CASE cache'[d] = CacheRows(AllRows(clock))[d]
            <4>1. PICK rows : rows = AllRows(clock)
                OBVIOUS
            <4>2. Good(CacheRows(rows)[d], d)'
                BY <4>1, CacheRowsGood DEF Startup, IInv
            <4> QED BY <3>2, <4>1, <4>2 DEF Good, Loaded, MadeAt
        <3> QED BY <2>2, <3>1, <3>2
    <2> QED BY <2>1, <2>2 DEF Startup
<1> QED BY <1>1, <1>2 DEF CacheGood

\* The query of a load.
LEMMA QueryGood ==
    ASSUME IInv, [Next]_vars, ~Die, ~patched, NEW p \in Procs, Query(p)
    PROVE  CopiesGood' /\ RowsGood'
<1>1. OthersKept(p)
    BY DEF OthersKept, Query, Go, IInv, Shape
<1>2. Loaded(t[p].tables, dom[p])'
    BY CopyKept DEF Query, At, Holding, Places
<1>3. ASSUME NEW d \in Domains PROVE Good(snap[p][d], d)'
    <2>1. PICK rows : Come(rows) /\ snap'[p] = CacheRows(rows)
        BY DEF IInv, Query, Shape
    <2>2. Good(CacheRows(rows)[d], d)'
        BY <2>1, CacheRowsGood DEF IInv, Query
    <2> QED BY <2>1, <2>2 DEF Good, Loaded
<1> QED BY <1>1, <1>2, <1>3, LocalStep

\* rx is taken; the rows are kept.
LEMMA LockGood ==
    ASSUME IInv, [Next]_vars, ~Die, ~patched, NEW p \in Procs, Lock(p)
    PROVE  CopiesGood' /\ RowsGood'
<1>1. OthersKept(p)
    BY DEF OthersKept, Lock, Go, IInv, Shape
<1>2. Loaded(t[p].tables, dom[p])'
    BY CopyKept DEF Lock, At, Holding, Places
<1>3. \A d \in Domains : Good(snap[p][d], d)'
    BY RowsKept DEF Lock, At
<1> QED BY <1>1, <1>2, <1>3, LocalStep

\* A domain is stored.
LEMMA WriteGood ==
    ASSUME IInv, [Next]_vars, ~Die, ~patched, NEW p \in Procs, NEW e \in Domains, Write(p, e)
    PROVE  CacheGood' /\ CopiesGood' /\ RowsGood'
<1>1. OthersKept(p) /\ pc[p] = "write"
    BY DEF OthersKept, Write, At, Go, IInv, Shape
<1>2. Loaded(t[p].tables, dom[p])'
    BY <1>1, CopyKept DEF Write, Holding, Places
<1>3. \A d \in Domains : Good(snap[p][d], d)'
    BY <1>1, RowsKept DEF Write
<1>4. CopiesGood' /\ RowsGood'
    BY <1>1, <1>2, <1>3, LocalStep
<1>5. ASSUME NEW d \in Domains PROVE Good(cache[d], d)'
    <2>1. CASE d = e
        <3>1. cache'[d] = snap'[p][d]
            BY <2>1 DEF Write, IInv, Shape
        <3> QED BY <1>3, <3>1 DEF Good, Loaded
    <2>2. CASE d # e
        <3>1. cache'[d] = cache[d] /\ Good(cache[d], d) /\ Shape
            BY <2>2 DEF Write, IInv, Shape, CacheGood
        <3> QED BY <3>1, StaysGood DEF Good, Loaded
    <2> QED BY <2>1, <2>2
<1> QED BY <1>4, <1>5 DEF CacheGood

\* The entry of the domain is read.
LEMMA ReadGood ==
    ASSUME IInv, [Next]_vars, ~Die, ~patched, NEW p \in Procs, Read(p) \/ Reread(p)
    PROVE  CopiesGood' /\ RowsGood'
<1>1. CASE Return(p)
    BY <1>1, ReturnGood
<1>2. CASE ~Return(p)
    <2>1. /\ cache[dom[p]] # Missing /\ t' = [t EXCEPT ![p] = cache[dom[p]]]
          /\ UNCHANGED <<dom, snap>>
          /\ Go(p, "check") \/ Go(p, "unmark")
        BY <1>2 DEF Read, ReadEntry, Reread, Fails
    <2>2. OthersKept(p) /\ pc'[p] \in {"check", "unmark"} /\ t'[p] = cache[dom[p]]
        BY <2>1 DEF OthersKept, Go, IInv, Shape
    <2>3. Loaded(t[p].tables, dom[p])'
        BY <2>1, <2>2, CopyMade
    <2> QED BY <2>2, <2>3, LocalStep
<1> QED BY <1>1, <1>2

\* Every action preserves the invariant.
LEMMA NextIInv == IInv /\ [Next]_vars => IInv'
<1> SUFFICES ASSUME IInv, [Next]_vars PROVE IInv'
    OBVIOUS
<1>1. Shape'
    BY NextShape DEF IInv
<1> SUFFICES ASSUME ~patched' PROVE CacheGood' /\ CopiesGood' /\ RowsGood'
    BY <1>1 DEF IInv
<1>2. CASE Die
    BY <1>2 DEF Die, CacheGood, Good, NoRows, CopiesGood, Holding, RowsGood
<1> SUFFICES ASSUME ~Die PROVE CacheGood' /\ CopiesGood' /\ RowsGood'
    BY <1>2
<1>3. ~patched
    BY DEF Next, Ingest, Tick, Startup, Request, GetLatest, Step, Read, Check, Mark,
        AskNew, QueryFails, Query, Lock, Write, ScanFails, RemoveUnused, Reread,
        Unmark, Answer, Find, PutTable, vars
<1> DEFINE Goal == CacheGood' /\ CopiesGood' /\ RowsGood'
<1>4. ASSUME UNCHANGED <<cache, local>> PROVE Goal
    BY <1>3, <1>4, LocalKept, CacheKept
<1>5. ASSUME UNCHANGED cache, NEW p \in Procs, OthersKept(p), ~Holding(p)' PROVE Goal
    BY <1>3, <1>5, LocalStep, CacheKept DEF Holding, Places
<1>6. ASSUME NEW p \in Procs, NEW d \in Domains, Request(p, d) PROVE Goal
    <2>1. OthersKept(p) /\ pc'[p] = "read" /\ UNCHANGED cache
        BY <1>6 DEF Request, Go, OthersKept, IInv, Shape
    <2> QED BY <1>5, <2>1 DEF Holding
<1>7. ASSUME NEW p \in Handlers, NEW s \in Asked, GetLatest(p, s[1], s[2]) PROVE Goal
    <2>1. p \in Procs
        BY DEF Procs
    <2>2. OthersKept(p) /\ pc'[p] = "find" /\ UNCHANGED cache
        BY <1>7, <2>1 DEF GetLatest, Go, OthersKept, IInv, Shape
    <2> QED BY <1>5, <2>1, <2>2 DEF Holding
<1>8. ASSUME NEW p \in Procs, Step(p) PROVE Goal
    <2>1. CASE Read(p) \/ Reread(p)
        BY <1>3, <2>1, ReadGood, CacheKept DEF Read, Reread
    <2>2. CASE Check(p) \/ Mark(p) \/ AskNew(p) \/ Unmark(p)
        <3>1. Holding(p) /\ UNCHANGED <<cache, t, dom, snap>>
            BY <2>2 DEF Check, Mark, AskNew, Unmark, At, Holding, Places
        <3>2. \E place \in Places \ {"store", "write"} : Go(p, place)
            BY <2>2 DEF Check, Mark, AskNew, Unmark, Places
        <3> QED BY <1>3, <3>1, <3>2, MoveOn, CacheKept
    <2>3. CASE QueryFails(p) \/ ScanFails(p) \/ Answer(p)
        <3>1. Return(p) /\ UNCHANGED cache
            BY <2>3 DEF QueryFails, ScanFails, Answer, Fails
        <3> QED BY <1>3, <3>1, ReturnGood, CacheKept
    <2>4. CASE Query(p)
        BY <1>3, <2>4, QueryGood, CacheKept DEF Query
    <2>5. CASE Lock(p)
        BY <1>3, <2>5, LockGood, CacheKept DEF Lock
    <2>6. ASSUME NEW d \in Domains, Write(p, d) PROVE Goal
        BY <1>3, <2>6, WriteGood
    <2>7. CASE RemoveUnused(p)
        <3>1. \A d \in Domains : cache'[d] = cache[d] \/ cache'[d] = Missing
            BY <2>7 DEF RemoveUnused
        <3>2. OthersKept(p) /\ pc'[p] = "reread" /\ Holding(p) /\ UNCHANGED <<t, dom>>
            BY <2>7 DEF RemoveUnused, At, Go, OthersKept, Holding, Places, IInv, Shape
        <3>3. Loaded(t[p].tables, dom[p])'
            BY <1>3, <3>2, CopyKept
        <3> QED BY <1>3, <3>1, <3>2, <3>3, LocalStep, CacheKept
    <2>8. CASE Find(p)
        <3>1. CASE Return(p)
            BY <1>3, <2>8, <3>1, ReturnGood, CacheKept DEF Find
        <3>2. CASE ~Return(p)
            <4>1. OthersKept(p) /\ pc'[p] = "put" /\ UNCHANGED cache
                BY <2>8, <3>2 DEF Find, Go, OthersKept, IInv, Shape
            <4> QED BY <1>5, <4>1 DEF Holding
        <3> QED BY <3>1, <3>2
    <2>9. CASE PutTable(p)
        <3>1. Return(p) /\ UNCHANGED cache
            BY <2>9 DEF PutTable
        <3> QED BY <1>3, <3>1, ReturnGood, CacheKept
    <2> QED BY <1>8, <2>1, <2>2, <2>3, <2>4, <2>5, <2>6, <2>7, <2>8, <2>9 DEF Step
<1>9. ASSUME NEW s \in Series, Ingest(s[1], s[2]) PROVE Goal
    BY <1>4, <1>9 DEF Ingest
<1>10. CASE Tick \/ UNCHANGED vars
    BY <1>4, <1>10 DEF Tick, vars, local
<1>11. CASE Startup
    BY <1>3, <1>11, StartupGood
<1> QED BY <1>6, <1>7, <1>8, <1>9, <1>10, <1>11 DEF Next

\* An answer to key=all, while no answer to latest=1 has been put into the
\* cache, is of one moment: it is what the table had then, or all but the last
\* key, or, if a connection broke at that moment, its first keys; for any number
\* of handlers, domains and keys, with loads that fail, break off in the middle
\* of a domain or overlap, and deaths of the process.
THEOREM AnswerIsOneLoad == Spec => []OneLoad
<1>1. IInv => OneLoad
    BY DEF IInv, OneLoad, CopiesGood, Answering, Holding, Places
<1> QED BY <1>1, InitIInv, NextIInv, PTL DEF Spec
=============================================================================
