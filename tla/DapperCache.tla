---------------------------- MODULE DapperCache ----------------------------
(***************************************************************************)
(* The cache of the latest records in dapper-api: allLatestTables, which   *)
(* request handlers and a ticker read and refill at the same time.         *)
(*                                                                         *)
(* Abstracted: a table of the cache is a key and the time of the newest    *)
(* record it shows; record times are those of their ingestion; every key   *)
(* has metadata of the present, which sqlCacheLatest asks for; a key has   *)
(* one field, so that a connection breaks between two keys.                *)
(***************************************************************************)
EXTENDS Integers, FiniteSets, Sequences, SequencesExt

CONSTANTS
    Domains,        \* the domains of domainMap: numbers in their ORDER BY order
    Fdmp,           \* the domain whose cache the ticker refreshes
    Keys,           \* record keys: numbers in their ORDER BY order
    Series,         \* the domains and keys that records come in for
    Handlers,       \* request handlers
    Ticker,         \* the goroutine that refreshes the cache of Fdmp
    Asked,          \* the domains and keys that are asked for with latest=1
    Expire,         \* CACHE_EXPIRE
    Window,         \* how far back sqlCacheLatest looks
    Faults,         \* the kinds of faults that may happen
    MaxFaults,      \* bound on the faults in a behaviour
    MaxClock        \* bound on the clock

Procs == Handlers \cup {Ticker}
Record == [domain : Domains, key : Keys, time : 1..MaxClock]
Table == [key : Keys, time : 0..MaxClock]

ASSUME CacheAssumption ==
    /\ Fdmp \in Domains /\ Ticker \notin Handlers
    /\ Domains \subseteq Nat /\ IsFiniteSet(Domains)
    /\ Keys \subseteq Nat /\ IsFiniteSet(Keys)
    /\ Series \subseteq Domains \X Keys
    /\ Asked \subseteq Domains \X Keys
    /\ Expire \in Nat /\ Window \in Nat /\ MaxClock \in Nat
    /\ Faults \subseteq {"query", "scan", "break", "die", "startup"} /\ MaxFaults \in Nat

VARIABLES
    records,        \* dapper.records
    clock,          \* the time
    cache,          \* allLatestTables: for each domain its latestTables
    cacheLoading,   \* the flag of the same name
    lock,           \* who holds rx for writing
    pc,             \* what each goroutine is doing
    dom,            \* the domain it is asked for
    t,              \* its copy of the domain's latestTables
    live,           \* does that copy share its tables with the cache?
    snap,           \* the rows of its sqlCacheLatest
    stored,         \* the domains it has stored
    up,             \* main has loaded the cache for the first time
    patched,        \* some latest=1 request has written into the cache
    cut,            \* history: the moments at which a load's connection broke
    faults          \* faults so far

local == <<pc, dom, t, live, snap, stored>>
vars == <<records, clock, cache, cacheLoading, lock, pc, dom, t, live, snap,
          stored, up, patched, cut, faults>>

Nobody == "nobody"
Missing == [tables |-> <<>>, ts |-> -1]     \* no entry for a domain
NoRows == [d \in Domains |-> Missing]

-----------------------------------------------------------------------------
(* What the queries return.                                                *)

Times(d, k, now) ==
    {x \in 1..now : [domain |-> d, key |-> k, time |-> x] \in records}

Newest(S) == IF S = {} THEN 0 ELSE CHOOSE x \in S : \A y \in S : y <= x

\* A finite set of numbers as a sequence in ascending order.
InOrder(S) ==
    CHOOSE s \in [1..Cardinality(S) -> S] : \A i, j \in DOMAIN s : i < j => s[i] < s[j]

\* The keys with a record in the window, in order, with their newest records.
LatestTables(d, now) ==
    LET sorted == InOrder({k \in Keys : \E x \in Times(d, k, now) : x > now - Window})
    IN  [i \in 1..Len(sorted) |->
            [key |-> sorted[i], time |-> Newest(Times(d, sorted[i], now))]]

\* The time of the newest record shown, those of a dropped key included.
LatestTs(tables) == Newest({tables[i].time : i \in DOMAIN tables})

\* The rows of sqlCacheLatest: for each domain those of its keys, in order.
AllRows(now) == [d \in Domains |-> LatestTables(d, now)]

\* Of these, what comes until the connection breaks in domain e after n keys.
CutOff(rows, e, n) ==
    [d \in Domains |-> IF d < e THEN rows[d]
                       ELSE IF d = e THEN SubSeq(rows[d], 1, n) ELSE <<>>]

BrokenRows(now) ==
    UNION {{CutOff(AllRows(now), e, n) : n \in 0..Len(LatestTables(e, now)) - 1} : e \in Domains}

\* Mutant: the key before is not forgotten when a new domain begins, so that
\* its table goes into the new domain's tables.
CacheRowsMixed(rows) ==
    [d \in Domains |->
        LET own == rows[d]
            before == {e \in Domains : e < d /\ rows[e] # <<>>}
            kept == IF \E e \in Domains : e > d /\ rows[e] # <<>> THEN Front(own) ELSE own
        IN  IF own = <<>> THEN Missing
            ELSE [tables |-> IF before = {} THEN kept
                             ELSE <<Last(rows[Newest(before)])>> \o kept,
                  ts |-> LatestTs(own)]]

\* What the loop makes of the rows that come.  A key's table is appended when
\* the next key of the same domain comes, or after the last row: when another
\* domain comes, that of the last key is dropped.  The loop takes the end of a
\* broken connection for the last row: it does not ask rows.Err.
CacheRows(rows) ==
    [d \in Domains |->
        LET own == rows[d]
        IN  IF own = <<>> THEN Missing
            ELSE [tables |-> IF \E e \in Domains : e > d /\ rows[e] # <<>>
                             THEN Front(own) ELSE own,
                  ts |-> LatestTs(own)]]

\* sqlHasNewRec
HasNewRec(d, ts) == \E r \in records : r.domain = d /\ r.time > ts

Init ==
    /\ records = {}
    /\ clock = 0
    /\ cache = NoRows
    /\ cacheLoading = FALSE
    /\ lock = Nobody
    /\ pc = [p \in Procs |-> "idle"]
    /\ dom = [p \in Procs |-> Fdmp]
    /\ t = [p \in Procs |-> Missing]
    /\ live = [p \in Procs |-> FALSE]
    /\ snap = [p \in Procs |-> NoRows]
    /\ stored = [p \in Procs |-> {}]
    /\ up = FALSE
    /\ patched = FALSE
    /\ cut = {}
    /\ faults = 0

Fault(kind) == kind \in Faults /\ faults < MaxFaults /\ faults' = faults + 1

\* The rows come: all of them, or those before the connection breaks.
Come(rows) ==
    \/ rows = AllRows(clock) /\ UNCHANGED <<cut, faults>>
    \/ /\ rows \in BrokenRows(clock)
       /\ Fault("break")
       /\ cut' = cut \cup {clock}

-----------------------------------------------------------------------------
(* The world: time passes, records are ingested.                           *)

Ingest(d, k) ==
    /\ clock < MaxClock
    /\ clock' = clock + 1
    /\ records' = records \cup {[domain |-> d, key |-> k, time |-> clock + 1]}
    /\ UNCHANGED <<cache, cacheLoading, lock, local, up, patched, cut, faults>>

Tick ==
    /\ clock < MaxClock
    /\ clock' = clock + 1
    /\ UNCHANGED <<records, cache, cacheLoading, lock, local, up, patched, cut, faults>>

\* main calls cacheLatest before it serves.  An error, which comes with the
\* query or with a row of domain e, is only logged.
Startup ==
    /\ ~up
    /\ up' = TRUE
    /\ \/ \E rows \in {AllRows(clock)} \cup BrokenRows(clock) :
            Come(rows) /\ cache' = CacheRows(rows)
       \/ /\ Fault("startup")
          /\ \E e \in Domains : cache' = [d \in Domains |->
                IF d < e THEN CacheRows(AllRows(clock))[d] ELSE Missing]
          /\ UNCHANGED cut
    /\ UNCHANGED <<records, clock, cacheLoading, lock, local, patched>>

\* The statistics, the summary page and the handlers of latest=1 read the map
\* without rx: when a writer is in it the runtime ends the process.
Die ==
    /\ lock # Nobody
    /\ Fault("die")
    /\ cache' = NoRows
    /\ cacheLoading' = FALSE
    /\ lock' = Nobody
    /\ pc' = [p \in Procs |-> "idle"]
    /\ dom' = [p \in Procs |-> Fdmp]
    /\ t' = [p \in Procs |-> Missing]
    /\ live' = [p \in Procs |-> FALSE]
    /\ snap' = [p \in Procs |-> NoRows]
    /\ stored' = [p \in Procs |-> {}]
    /\ up' = FALSE
    /\ patched' = FALSE
    /\ cut' = {}
    /\ UNCHANGED <<records, clock>>

-----------------------------------------------------------------------------
(* hitCache(domain)                                                        *)

At(p, place) == up /\ pc[p] = place
Go(p, place) == pc' = [pc EXCEPT ![p] = place]

\* The function is over; its variables are gone.
Return(p) ==
    /\ Go(p, "idle")
    /\ t' = [t EXCEPT ![p] = Missing]
    /\ live' = [live EXCEPT ![p] = FALSE]
    /\ snap' = [snap EXCEPT ![p] = NoRows]
    /\ stored' = [stored EXCEPT ![p] = {}]
    /\ dom' = [dom EXCEPT ![p] = Fdmp]

Request(p, d) ==
    /\ At(p, "idle")
    /\ p = Ticker => d = Fdmp
    /\ Go(p, "read")
    /\ dom' = [dom EXCEPT ![p] = d]
    /\ UNCHANGED <<records, clock, cache, cacheLoading, lock, t, live, snap,
                   stored, up, patched, cut, faults>>

\* The entry is read under rx; a domain that has none is an error.
ReadEntry(p, next) ==
    /\ lock = Nobody
    /\ IF cache[dom[p]] = Missing THEN Return(p)
       ELSE /\ t' = [t EXCEPT ![p] = cache[dom[p]]]
            /\ live' = [live EXCEPT ![p] = TRUE]
            /\ Go(p, next)
            /\ UNCHANGED <<dom, snap, stored>>

Read(p) ==
    /\ At(p, "read")
    /\ ReadEntry(p, "check")
    /\ UNCHANGED <<records, clock, cache, cacheLoading, lock, up, patched, cut, faults>>

Expired(ts) == clock - ts > Expire

\* Mutant: who finds the flag up waits for it to come down.
CheckWaits(p) ==
    /\ At(p, "check")
    /\ Expired(t[p].ts) => ~cacheLoading
    /\ Go(p, IF Expired(t[p].ts) THEN "mark" ELSE "answer")
    /\ UNCHANGED <<records, clock, cache, cacheLoading, lock, dom, t, live, snap,
                   stored, up, patched, cut, faults>>

\* The flag is tested here and set in the next step.
Check(p) ==
    /\ At(p, "check")
    /\ Go(p, IF ~cacheLoading /\ Expired(t[p].ts) THEN "mark" ELSE "answer")
    /\ UNCHANGED <<records, clock, cache, cacheLoading, lock, dom, t, live, snap,
                   stored, up, patched, cut, faults>>

Mark(p) ==
    /\ At(p, "mark")
    /\ cacheLoading' = TRUE
    /\ Go(p, "ask")
    /\ UNCHANGED <<records, clock, cache, lock, dom, t, live, snap, stored, up, patched, cut, faults>>

AskNew(p) ==
    /\ At(p, "ask")
    /\ Go(p, IF HasNewRec(dom[p], t[p].ts) THEN "query" ELSE "unmark")
    /\ UNCHANGED <<records, clock, cache, cacheLoading, lock, dom, t, live, snap,
                   stored, up, patched, cut, faults>>

\* Mutant: the flag is reset at the end of the function, not by defer.
FailsMarked(p) ==
    /\ UNCHANGED cacheLoading
    /\ Return(p)

\* An error goes to the caller; the deferred function resets the flag.
Fails(p) ==
    /\ cacheLoading' = FALSE
    /\ Return(p)

QueryFails(p) ==
    /\ At(p, "ask") \/ At(p, "query")
    /\ Fault("query")
    /\ Fails(p)
    /\ UNCHANGED <<records, clock, cache, lock, up, patched, cut>>

-----------------------------------------------------------------------------
(* cacheLatest()                                                           *)

Query(p) ==
    /\ At(p, "query")
    /\ \E rows \in {AllRows(clock)} \cup BrokenRows(clock) :
        Come(rows) /\ snap' = [snap EXCEPT ![p] = CacheRows(rows)]
    /\ stored' = [stored EXCEPT ![p] = {}]
    /\ Go(p, "store")
    /\ UNCHANGED <<records, clock, cache, cacheLoading, lock, dom, t, live, up, patched>>

Unstored(p) == {d \in Domains : snap[p][d] # Missing} \ stored[p]

\* rx is taken to store a domain, or when all are stored to remove the rest.
Lock(p) ==
    /\ At(p, "store")
    /\ lock = Nobody
    /\ lock' = p
    /\ Go(p, IF Unstored(p) # {} THEN "write" ELSE "remove")
    /\ UNCHANGED <<records, clock, cache, cacheLoading, dom, t, live, snap, stored,
                   up, patched, cut, faults>>

\* Nobody shares the tables of the domains any more.
Replaced(ds) == live' = [q \in Procs |-> live[q] /\ dom[q] \notin ds]

\* Mutant: a domain that has an entry is not stored again.
WriteKept(p, d) ==
    /\ At(p, "write")
    /\ d \in Unstored(p)
    /\ \A e \in Unstored(p) : d <= e
    /\ cache' = [cache EXCEPT ![d] = IF @ = Missing THEN snap[p][d] ELSE @]
    /\ Replaced({d})
    /\ stored' = [stored EXCEPT ![p] = @ \cup {d}]
    /\ lock' = Nobody
    /\ Go(p, "store")
    /\ UNCHANGED <<records, clock, cacheLoading, dom, t, snap, up, patched, cut, faults>>

Write(p, d) ==
    /\ At(p, "write")
    /\ d \in Unstored(p)
    /\ \A e \in Unstored(p) : d <= e
    /\ cache' = [cache EXCEPT ![d] = snap[p][d]]
    /\ Replaced({d})
    /\ stored' = [stored EXCEPT ![p] = @ \cup {d}]
    /\ lock' = Nobody
    /\ Go(p, "store")
    /\ UNCHANGED <<records, clock, cacheLoading, dom, t, snap, up, patched, cut, faults>>

\* A row cannot be scanned: what is stored stays.
ScanFails(p) ==
    /\ At(p, "store")
    /\ Unstored(p) # {}
    /\ Fault("scan")
    /\ Fails(p)
    /\ UNCHANGED <<records, clock, cache, lock, up, patched, cut>>

\* The domains that were not found go, and with it the function is over.
RemoveUnused(p) ==
    /\ At(p, "remove")
    /\ cache' = [d \in Domains |-> IF d \in stored[p] THEN cache[d] ELSE Missing]
    /\ Replaced(Domains \ stored[p])
    /\ snap' = [snap EXCEPT ![p] = NoRows]
    /\ stored' = [stored EXCEPT ![p] = {}]
    /\ lock' = Nobody
    /\ Go(p, "reread")
    /\ UNCHANGED <<records, clock, cacheLoading, dom, t, up, patched, cut, faults>>

Reread(p) ==
    /\ At(p, "reread")
    /\ lock = Nobody
    /\ IF cache[dom[p]] = Missing THEN Fails(p)
       ELSE /\ t' = [t EXCEPT ![p] = cache[dom[p]]]
            /\ live' = [live EXCEPT ![p] = TRUE]
            /\ Go(p, "unmark")
            /\ UNCHANGED <<cacheLoading, dom, snap, stored>>
    /\ UNCHANGED <<records, clock, cache, lock, up, patched, cut, faults>>

Unmark(p) ==
    /\ At(p, "unmark")
    /\ cacheLoading' = FALSE
    /\ Go(p, "answer")
    /\ UNCHANGED <<records, clock, cache, lock, dom, t, live, snap, stored, up, patched, cut, faults>>

\* The tables are written to the response.
Answer(p) ==
    /\ At(p, "answer")
    /\ Return(p)
    /\ UNCHANGED <<records, clock, cache, cacheLoading, lock, up, patched, cut, faults>>

-----------------------------------------------------------------------------
(* latest=1 for one key: the answer goes into the cache as well.           *)

\* getDataLatest: the newest record, if there is one, however old.
GetLatest(p, d, k) ==
    /\ At(p, "idle") /\ p \in Handlers
    /\ dom' = [dom EXCEPT ![p] = d]
    /\ t' = [t EXCEPT ![p] = [tables |-> <<[key |-> k, time |-> Newest(Times(d, k, clock))]>>,
                              ts |-> 0]]
    /\ Go(p, "find")
    /\ UNCHANGED <<records, clock, cache, cacheLoading, lock, live, snap, stored,
                   up, patched, cut, faults>>

\* The loop, without rx, over the tables of the cache comes to the key; snap
\* keeps the index it has found.
Find(p) ==
    /\ At(p, "find")
    /\ LET tables == cache[dom[p]].tables
           found == {i \in DOMAIN tables : tables[i].key = t[p].tables[1].key}
       IN  IF found = {} THEN Return(p)
           ELSE /\ \E i \in found :
                    snap' = [snap EXCEPT ![p][dom[p]] = [tables |-> <<>>, ts |-> i]]
                /\ Go(p, "put")
                /\ UNCHANGED <<dom, t, live, stored>>
    /\ UNCHANGED <<records, clock, cache, cacheLoading, lock, up, patched, cut, faults>>

\* allLatestTables[domain] is looked up again: an index beyond its tables is a
\* panic that ends the request.
PutTable(p) ==
    /\ At(p, "put")
    /\ LET i == snap[p][dom[p]].ts
           tables == cache[dom[p]].tables
           new == [tables EXCEPT ![i] = t[p].tables[1]]
       IN  IF i \notin DOMAIN tables
           THEN Return(p) /\ UNCHANGED <<cache, patched>>
           ELSE /\ cache' = [cache EXCEPT ![dom[p]].tables = new]
                /\ t' = [q \in Procs |->
                            IF q = p THEN Missing
                            ELSE IF live[q] /\ dom[q] = dom[p] THEN [t[q] EXCEPT !.tables = new]
                            ELSE t[q]]
                /\ patched' = TRUE
                /\ Go(p, "idle")
                /\ snap' = [snap EXCEPT ![p] = NoRows]
                /\ dom' = [dom EXCEPT ![p] = Fdmp]
                /\ UNCHANGED <<live, stored>>
    /\ UNCHANGED <<records, clock, cacheLoading, lock, up, cut, faults>>

-----------------------------------------------------------------------------
\* What a goroutine does once it has begun.
Step(p) ==
    \/ Read(p) \/ Check(p) \/ Mark(p) \/ AskNew(p) \/ QueryFails(p)
    \/ Query(p) \/ Lock(p) \/ (\E d \in Domains : Write(p, d)) \/ ScanFails(p)
    \/ RemoveUnused(p) \/ Reread(p) \/ Unmark(p) \/ Answer(p)
    \/ Find(p) \/ PutTable(p)

Next ==
    \/ \E s \in Series : Ingest(s[1], s[2])
    \/ Tick \/ Startup \/ Die
    \/ \E p \in Procs, d \in Domains : Request(p, d)
    \/ \E p \in Handlers, s \in Asked : GetLatest(p, s[1], s[2])
    \/ \E p \in Procs : Step(p)

Spec == Init /\ [][Next]_vars

\* Goroutines go on, the ticker ticks, the service is started, time passes.
Fairness ==
    /\ \A p \in Procs : WF_vars(Step(p))
    /\ WF_vars(Request(Ticker, Fdmp))
    /\ WF_vars(Startup)
    /\ WF_vars(Tick)

FairSpec == Spec /\ Fairness
-----------------------------------------------------------------------------
(* Properties.                                                             *)

Places == {"idle", "read", "check", "mark", "ask", "query", "store", "write",
           "remove", "reread", "unmark", "answer", "find", "put"}
Entries == [tables : Seq(Table), ts : -1..MaxClock]
Indexes == [tables : {<<>>}, ts : Nat]          \* what Find leaves in snap

Refilling(p) == pc[p] \in {"ask", "query", "store", "write", "remove", "reread", "unmark"}

Typed ==
    /\ records \subseteq Record
    /\ clock \in 0..MaxClock
    /\ cache \in [Domains -> Entries]
    /\ cacheLoading \in BOOLEAN
    /\ lock \in Procs \cup {Nobody}
    /\ pc \in [Procs -> Places]
    /\ dom \in [Procs -> Domains]
    /\ t \in [Procs -> Entries]
    /\ live \in [Procs -> BOOLEAN]
    /\ snap \in [Procs -> [Domains -> Entries \cup Indexes]]
    /\ stored \in [Procs -> SUBSET Domains]
    /\ up \in BOOLEAN /\ patched \in BOOLEAN
    /\ cut \subseteq 0..MaxClock
    /\ faults \in 0..MaxFaults

\* Every variable keeps its type, and the flag is up only while someone refills
\* the cache.
TypeOK == Typed /\ (cacheLoading => \E p \in Procs : Refilling(p))

Answering(p) == pc[p] = "answer" /\ p \in Handlers

IsLast(d) == \A e \in Domains : e <= d

\* What a load makes of domain d at the moment now: all of it, or without the
\* last key when another domain may follow, or the first keys when it was then
\* that a connection broke.
MadeAt(tables, d, now) ==
    LET all == LatestTables(d, now)
    IN  \/ tables = all
        \/ ~IsLast(d) /\ all # <<>> /\ tables = Front(all)
        \/ now \in cut /\ \E n \in 1..Len(all) - 1 : tables = SubSeq(all, 1, n)

Loaded(tables, d) == \E now \in 0..clock : MadeAt(tables, d, now)

\* "returns a snapshot of the latest value for every live metadata", as far as
\* the code keeps it: an answer to key=all is of one moment, nothing in it mixed
\* with or older than the rest, though domains are stored one by one, loads
\* overlap and some break off; it lacks keys at its end only as MadeAt says: the
\* last one, or more if a connection broke.  (Not so once an answer to latest=1
\* is put into the tables.)
OneLoad ==
    \A p \in Procs : Answering(p) /\ ~patched => Loaded(t[p].tables, dom[p])

\* "when key=all we'll only return 1 record for each key": a key is in an answer
\* once, also when an answer to latest=1 is put into the tables meanwhile.
EachKeyOnce ==
    \A p \in Procs : Answering(p) =>
        \A i, j \in DOMAIN t[p].tables :
            t[p].tables[i].key = t[p].tables[j].key => i = j

\* The newest record of a key, old enough for the cache to have expired and
\* not yet out of the window, is in the cache.
Shown(d, k) ==
    LET x == Newest(Times(d, k, clock))
    IN  x > clock - Window /\ x > 0 /\ x + Expire < MaxClock =>
            \E i \in DOMAIN cache[d].tables : cache[d].tables[i] = [key |-> k, time |-> x]

\* A connection broke when the newest record of a key was there to be read, and
\* another key's record in the cache is as new: sqlHasNewRec will not see it.
Overlooked(d, k) ==
    LET x == Newest(Times(d, k, clock))
    IN  x <= cache[d].ts /\ \E now \in cut : x <= now

\* As long as Fdmp, when it is the last domain, has an entry, the ticker brings
\* it up to date once requests cease, whatever died, failed with an error, or
\* overwrote a newer load with an older one; after a connection that broke in
\* the middle of the rows, all but the keys that sqlHasNewRec cannot see.
CacheFollows ==
    IsLast(Fdmp) /\ <>[](\A h \in Handlers : pc[h] = "idle") =>
        <>[](cache[Fdmp] # Missing /\ ~patched =>
                \A k \in Keys : Shown(Fdmp, k) \/ Overlooked(Fdmp, k))

\* Every request is answered: no goroutine waits for rx or for a load for ever,
\* whatever fails in a load that holds rx or the flag.
RequestsEnd ==
    \A p \in Handlers : []<>(pc[p] = "idle")
=============================================================================
