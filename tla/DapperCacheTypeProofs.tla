----------------------- MODULE DapperCacheTypeProofs -----------------------
(***************************************************************************)
(* More proofs about DapperCache: what its queries return, the types of    *)
(* the cache and of every copy of it, and that one load has a key once.    *)
(***************************************************************************)
EXTENDS DapperCacheProofs, FiniteSetTheorems, WellFoundedInduction

(***************************************************************************)
(* Finite sets of numbers.                                                 *)
(***************************************************************************)

\* A set of naturals has a least element.
LEMMA LeastNatural ==
    ASSUME NEW T \in SUBSET Nat, T # {}
    PROVE  \E x \in T : \A y \in T : x <= y
<1> DEFINE Less == OpToRel(<, Nat)
<1>1. IsWellFoundedOn(Less, Nat)
    BY NatLessThanWellFounded
<1>2. PICK x \in T : \A y \in T : <<y, x>> \notin Less
    BY <1>1, WFMin
<1>3. ASSUME NEW y \in T PROVE x <= y
    <2>1. <<y, x>> \notin Less /\ x \in Nat /\ y \in Nat
        BY <1>2
    <2> QED BY <2>1 DEF OpToRel
<1> QED BY <1>3

\* The newest of a set of times is one of them, and 0 when there is none.
LEMMA NewestType ==
    ASSUME NEW m \in Nat, NEW S \in SUBSET (0..m)
    PROVE  /\ Newest(S) \in 0..m
           /\ S # {} => Newest(S) \in S /\ \A y \in S : y <= Newest(S)
<1>1. CASE S = {}
    BY <1>1 DEF Newest
<1>2. CASE S # {}
    <2> DEFINE Q == {m - x : x \in S}
    <2>1. Q \in SUBSET Nat /\ Q # {}
        BY <1>2
    <2>2. PICK q \in Q : \A y \in Q : q <= y
        BY <2>1, LeastNatural
    <2>3. PICK x \in S : q = m - x
        OBVIOUS
    <2>4. ASSUME NEW y \in S PROVE y <= x
        <3>1. m - y \in Q
            OBVIOUS
        <3> QED BY <2>2, <2>3, <3>1
    <2>5. Newest(S) = CHOOSE z \in S : \A y \in S : y <= z
        BY <1>2 DEF Newest
    <2>6. Newest(S) \in S /\ \A y \in S : y <= Newest(S)
        BY <2>4, <2>5
    <2> QED BY <2>6
<1> QED BY <1>1, <1>2

Ascending(s) == \A i, j \in DOMAIN s : i < j => s[i] < s[j]

\* A finite set of naturals can be put in order: the least element comes first, then
\* the others, of which there is one less.
LEMMA OrderExists ==
    ASSUME NEW S \in SUBSET Nat, IsFiniteSet(S)
    PROVE  \E s \in [1..Cardinality(S) -> S] : Ascending(s)
<1> DEFINE Orderable(T) == \E s \in [1..Cardinality(T) -> T] : Ascending(s)
           Bad == {n \in Nat : \E T \in SUBSET Nat :
                        IsFiniteSet(T) /\ Cardinality(T) = n /\ ~Orderable(T)}
<1>1. ASSUME Bad # {} PROVE FALSE
    <2>1. PICK n \in Bad : \A k \in Bad : n <= k
        BY <1>1, LeastNatural
    <2>2. PICK T \in SUBSET Nat : IsFiniteSet(T) /\ Cardinality(T) = n /\ ~Orderable(T)
        BY <2>1
    <2>3. CASE T = {}
        <3>1. Cardinality(T) = 0
            BY <2>3, FS_EmptySet
        <3>2. <<>> \in [1..Cardinality(T) -> T] /\ Ascending(<<>>)
            BY <3>1 DEF Ascending
        <3> QED BY <2>2, <3>2
    <2>4. CASE T # {}
        <3>1. PICK x \in T : \A y \in T : x <= y
            BY <2>4, LeastNatural
        <3>2. /\ T \ {x} \in SUBSET Nat /\ IsFiniteSet(T \ {x})
              /\ Cardinality(T \ {x}) = n - 1 /\ n - 1 \in Nat
            <4>1. IsFiniteSet(T \ {x}) /\ Cardinality(T \ {x}) = Cardinality(T) - 1
                BY <2>2, <3>1, FS_RemoveElement
            <4>2. Cardinality(T \ {x}) \in Nat
                BY <4>1, FS_CardinalityType
            <4> QED BY <2>2, <4>1, <4>2
        <3>3. n - 1 \notin Bad
            BY <2>1, <3>2
        <3>4. PICK s \in [1..(n - 1) -> T \ {x}] : Ascending(s)
            BY <3>2, <3>3
        <3> DEFINE r == [i \in 1..n |-> IF i = 1 THEN x ELSE s[i - 1]]
        <3>5. r \in [1..n -> T]
            BY <3>1, <3>2, <3>4
        <3>6. ASSUME NEW i \in 1..n, NEW j \in 1..n, i < j PROVE r[i] < r[j]
            <4>1. j - 1 \in 1..(n - 1) /\ r[j] = s[j - 1] /\ s[j - 1] \in T \ {x}
                BY <3>2, <3>4, <3>6
            <4>2. CASE i = 1
                <5>1. r[i] = x /\ x <= r[j] /\ r[j] # x /\ r[j] \in Nat /\ x \in Nat
                    BY <3>1, <3>6, <4>1, <4>2
                <5> QED BY <5>1
            <4>3. CASE i # 1
                <5>1. i - 1 \in 1..(n - 1) /\ i - 1 < j - 1 /\ r[i] = s[i - 1]
                    BY <3>2, <3>6, <4>3
                <5> QED BY <3>4, <4>1, <5>1 DEF Ascending
            <4> QED BY <4>2, <4>3
        <3>7. Ascending(r)
            BY <3>5, <3>6 DEF Ascending
        <3> QED BY <2>2, <3>5, <3>7
    <2> QED BY <2>3, <2>4
<1>2. Cardinality(S) \in Nat
    BY FS_CardinalityType
<1> QED BY <1>1, <1>2

\* InOrder lists a finite set of naturals in ascending order, each element once.
LEMMA InOrderType ==
    ASSUME NEW S \in SUBSET Nat, IsFiniteSet(S)
    PROVE  /\ InOrder(S) \in [1..Cardinality(S) -> S]
           /\ InOrder(S) \in Seq(S) /\ Len(InOrder(S)) = Cardinality(S)
           /\ Ascending(InOrder(S))
           /\ \A x \in S : \E i \in 1..Len(InOrder(S)) : InOrder(S)[i] = x
<1> DEFINE s == InOrder(S)
           n == Cardinality(S)
<1>1. s \in [1..n -> S] /\ Ascending(s)
    BY OrderExists DEF InOrder, Ascending
<1>2. n \in Nat
    BY FS_CardinalityType
<1> HIDE DEF s, n
<1>3. s \in Seq(S) /\ Len(s) = n
    BY <1>1, <1>2
<1>4. s \in Injection(1..n, S)
    <2>1. ASSUME NEW i \in 1..n, NEW j \in 1..n, s[i] = s[j], i # j PROVE FALSE
        <3>1. i < j \/ j < i
            BY <1>2, <2>1
        <3>2. s[i] < s[j] \/ s[j] < s[i]
            BY <1>1, <3>1 DEF Ascending
        <3>3. s[i] \in Nat /\ s[j] \in Nat
            BY <1>1
        <3> QED BY <2>1, <3>2, <3>3
    <2> QED BY <1>1, <2>1 DEF Injection, IsInjective
<1>5. Cardinality(1..n) = n
    BY <1>2, FS_Interval
<1>6. s \in Surjection(1..n, S)
    BY <1>4, <1>5, FS_Injection DEF n
<1> QED BY <1>1, <1>3, <1>6 DEF s, n, Surjection

(***************************************************************************)
(* What the queries return.                                                *)
(***************************************************************************)

\* The latest tables are tables of the keys, in the order of the keys.
LEMMA LatestTablesType ==
    ASSUME NEW d, NEW now \in 0..MaxClock
    PROVE  /\ LatestTables(d, now) \in Seq(Table)
           /\ \A i, j \in 1..Len(LatestTables(d, now)) :
                i < j => LatestTables(d, now)[i].key < LatestTables(d, now)[j].key
<1> DEFINE recent == {k \in Keys : \E x \in Times(d, k, now) : x > now - Window}
           sorted == InOrder(recent)
<1>1. recent \in SUBSET Nat /\ IsFiniteSet(recent)
    BY CacheAssumption, FS_Subset
<1>2. sorted \in Seq(recent) /\ Ascending(sorted)
    BY <1>1, InOrderType
<1>3. ASSUME NEW k PROVE Newest(Times(d, k, now)) \in 0..MaxClock
    <2>1. Times(d, k, now) \in SUBSET (0..MaxClock) /\ MaxClock \in Nat
        BY CacheAssumption DEF Times
    <2> QED BY <2>1, NewestType
<1>4. LatestTables(d, now) =
        [i \in 1..Len(sorted) |-> [key |-> sorted[i], time |-> Newest(Times(d, sorted[i], now))]]
    BY DEF LatestTables
<1>5. Len(sorted) \in Nat /\ DOMAIN sorted = 1..Len(sorted)
    BY <1>2
<1>6. \A i \in 1..Len(sorted) : sorted[i] \in Keys
    BY <1>2
<1> HIDE DEF recent, sorted
<1>7. LatestTables(d, now) \in Seq(Table) /\ Len(LatestTables(d, now)) = Len(sorted)
    BY <1>3, <1>4, <1>5, <1>6 DEF Table
<1>8. \A i \in 1..Len(sorted) : LatestTables(d, now)[i].key = sorted[i]
    BY <1>4
<1> QED BY <1>2, <1>5, <1>7, <1>8 DEF Ascending

\* A front is a shorter sequence of the same.
LEMMA FrontType ==
    ASSUME NEW S, NEW s \in Seq(S), s # <<>>
    PROVE  /\ Front(s) \in Seq(S) /\ Len(Front(s)) = Len(s) - 1
           /\ \A i \in 1..Len(Front(s)) : Front(s)[i] = s[i]
<1>1. Len(s) \in Nat /\ Len(s) # 0 /\ \A i \in 1..Len(s) : s[i] \in S
    OBVIOUS
<1>2. Front(s) = [i \in 1..(Len(s) - 1) |-> s[i]]
    BY <1>1 DEF Front
<1>3. Front(s) \in Seq(S) /\ Len(Front(s)) = Len(s) - 1
    BY <1>1, <1>2
<1> QED BY <1>2, <1>3

\* No entry is an entry.
LEMMA MissingType == Missing \in Entries /\ NoRows \in [Domains -> Entries]
BY CacheAssumption DEF Missing, NoRows, Entries

\* The rows that come are tables, also when the connection breaks.
LEMMA RowsType ==
    ASSUME Typed, NEW rows, rows = AllRows(clock) \/ Come(rows)
    PROVE  rows \in [Domains -> Seq(Table)]
<1>1. \A d \in Domains : LatestTables(d, clock) \in Seq(Table)
    BY LatestTablesType, CacheAssumption DEF Typed
<1>2. CASE rows = AllRows(clock)
    BY <1>1, <1>2 DEF AllRows
<1>3. CASE rows \in BrokenRows(clock)
    <2> PICK e \in Domains :
            \E n \in 0..Len(LatestTables(e, clock)) - 1 : rows = CutOff(AllRows(clock), e, n)
        BY <1>3 DEF BrokenRows
    <2> DEFINE all == LatestTables(e, clock)
    <2>1. PICK n \in 0..Len(all) - 1 : rows = CutOff(AllRows(clock), e, n)
        OBVIOUS
    <2>2. SubSeq(all, 1, n) \in Seq(Table)
        <3>1. all \in Seq(Table)
            BY <1>1
        <3> HIDE DEF all
        <3>2. Len(all) \in Nat /\ \A i \in 1..Len(all) : all[i] \in Table
            BY <3>1
        <3> QED BY <2>1, <3>1, <3>2
    <2> QED BY <1>1, <2>1, <2>2 DEF CutOff, AllRows
<1> QED BY <1>2, <1>3 DEF Come

\* What the loop makes of them are entries of the cache.
LEMMA CacheRowsType ==
    ASSUME NEW rows \in [Domains -> Seq(Table)]
    PROVE  CacheRows(rows) \in [Domains -> Entries]
<1>1. ASSUME NEW own \in Seq(Table) PROVE LatestTs(own) \in -1..MaxClock
    <2> DEFINE times == {own[i].time : i \in DOMAIN own}
    <2>1. times \in SUBSET (0..MaxClock)
        <3>1. \A i \in DOMAIN own : own[i] \in Table
            OBVIOUS
        <3> QED BY <3>1 DEF Table
    <2>2. Newest(times) \in 0..MaxClock /\ MaxClock \in Nat
        BY <2>1, NewestType, CacheAssumption
    <2> QED BY <2>2 DEF LatestTs
<1>2. ASSUME NEW d \in Domains PROVE CacheRows(rows)[d] \in Entries
    <2> DEFINE own == rows[d]
    <2>1. own \in Seq(Table) /\ LatestTs(own) \in -1..MaxClock
        BY <1>1
    <2>2. CASE own = <<>>
        BY <2>2, MissingType DEF CacheRows
    <2>3. CASE own # <<>>
        <3>1. Front(own) \in Seq(Table)
            BY <2>1, <2>3, FrontType
        <3> QED BY <2>1, <2>3, <3>1 DEF CacheRows, Entries
    <2> QED BY <2>2, <2>3
<1> QED BY <1>2 DEF CacheRows

(***************************************************************************)
(* The types of the state.                                                 *)
(***************************************************************************)

\* Rows that are being stored are entries: no index of Find's is among them.
RowsTyped ==
    \A p \in Procs : pc[p] \in {"store", "write"} => snap[p] \in [Domains -> Entries]

\* A request for latest=1 has the table of its answer.
KeyAsked == \A p \in Procs : pc[p] \in {"find", "put"} => t[p].tables # <<>>

TInv == Typed /\ RowsTyped /\ KeyAsked

\* The initial state is typed.
LEMMA InitTInv == Init => TInv
<1> SUFFICES ASSUME Init PROVE TInv
    OBVIOUS
<1>1. Typed
    <2>1. cache \in [Domains -> Entries]
        BY MissingType DEF Init
    <2>2. /\ snap \in [Procs -> [Domains -> Entries \cup Indexes]]
          /\ t \in [Procs -> Entries]
        BY MissingType DEF Init
    <2>3. /\ pc \in [Procs -> Places] /\ dom \in [Procs -> Domains]
          /\ live \in [Procs -> BOOLEAN] /\ stored \in [Procs -> SUBSET Domains]
        BY CacheAssumption DEF Init, Places
    <2>4. clock \in 0..MaxClock /\ faults \in 0..MaxFaults /\ cut \subseteq 0..MaxClock
        BY CacheAssumption DEF Init
    <2>5. /\ records \subseteq Record /\ lock \in Procs \cup {Nobody}
          /\ cacheLoading \in BOOLEAN /\ up \in BOOLEAN /\ patched \in BOOLEAN
        BY DEF Init
    <2> QED BY <2>1, <2>2, <2>3, <2>4, <2>5 DEF Typed
<1>2. RowsTyped /\ KeyAsked
    BY DEF Init, RowsTyped, KeyAsked
<1> QED BY <1>1, <1>2 DEF TInv

\* A function that ends leaves typed variables.
LEMMA ReturnTyped ==
    ASSUME TInv, NEW p \in Procs, Return(p)
    PROVE  /\ pc' \in [Procs -> Places] /\ dom' \in [Procs -> Domains]
           /\ t' \in [Procs -> Entries] /\ live' \in [Procs -> BOOLEAN]
           /\ snap' \in [Procs -> [Domains -> Entries \cup Indexes]]
           /\ stored' \in [Procs -> SUBSET Domains]
           /\ RowsTyped' /\ KeyAsked'
<1>1. Typed
    BY DEF TInv
<1>2. /\ pc' \in [Procs -> Places] /\ dom' \in [Procs -> Domains]
      /\ t' \in [Procs -> Entries] /\ live' \in [Procs -> BOOLEAN]
    BY <1>1, MissingType, CacheAssumption DEF Typed, Return, Go, Places
<1>3. /\ snap' \in [Procs -> [Domains -> Entries \cup Indexes]]
      /\ stored' \in [Procs -> SUBSET Domains]
    BY <1>1, MissingType DEF Typed, Return
<1>4. RowsTyped' /\ KeyAsked'
    BY <1>1 DEF TInv, Typed, RowsTyped, KeyAsked, Return, Go
<1> QED BY <1>2, <1>3, <1>4

\* Time and the records do not concern the goroutines.
LEMMA WorldTyped ==
    ASSUME TInv, \/ \E s \in Series : Ingest(s[1], s[2])
                 \/ Tick \/ UNCHANGED vars
    PROVE  TInv'
<1>1. Typed'
    <2>1. ASSUME NEW s \in Series, Ingest(s[1], s[2]) PROVE Typed'
        <3>1. s[1] \in Domains /\ s[2] \in Keys /\ MaxClock \in Nat
            BY CacheAssumption
        <3>2. clock' \in 0..MaxClock /\ records' \subseteq Record
            BY <2>1, <3>1 DEF Ingest, TInv, Typed, Record
        <3> QED BY <2>1, <3>2 DEF Ingest, TInv, Typed, local
    <2>2. CASE Tick
        BY <2>2, CacheAssumption DEF Tick, TInv, Typed, local
    <2>3. CASE UNCHANGED vars
        BY <2>3 DEF vars, TInv, Typed
    <2> QED BY <2>1, <2>2, <2>3
<1>2. UNCHANGED <<pc, snap, t>>
    BY DEF Ingest, Tick, local, vars
<1> QED BY <1>1, <1>2 DEF TInv, RowsTyped, KeyAsked

\* A connection that breaks is counted and noted.
LEMMA ComeTyped ==
    ASSUME Typed, NEW rows, Come(rows)
    PROVE  faults' \in 0..MaxFaults /\ cut' \subseteq 0..MaxClock
<1>1. CASE UNCHANGED <<cut, faults>>
    BY <1>1 DEF Typed
<1>2. CASE Fault("break") /\ cut' = cut \cup {clock}
    BY <1>2, CacheAssumption DEF Fault, Typed
<1> QED BY <1>1, <1>2 DEF Come

\* The first load, whole or broken off, stores entries.
LEMMA StartupTyped ==
    ASSUME TInv, Startup
    PROVE  TInv'
<1>1. /\ cache' \in [Domains -> Entries]
      /\ faults' \in 0..MaxFaults /\ cut' \subseteq 0..MaxClock
    <2>1. CASE \E rows : Come(rows) /\ cache' = CacheRows(rows)
        <3>1. PICK rows : Come(rows) /\ cache' = CacheRows(rows)
            BY <2>1
        <3> QED BY <3>1, RowsType, CacheRowsType, ComeTyped DEF TInv
    <2>2. CASE /\ Fault("startup") /\ cut' = cut
               /\ \E e \in Domains : cache' = [d \in Domains |->
                    IF d < e THEN CacheRows(AllRows(clock))[d] ELSE Missing]
        <3>1. CacheRows(AllRows(clock)) \in [Domains -> Entries]
            BY RowsType, CacheRowsType DEF TInv
        <3>2. cache' \in [Domains -> Entries]
            BY <2>2, <3>1, MissingType
        <3> QED BY <2>2, <3>2, CacheAssumption DEF Fault, TInv, Typed
    <2> QED BY <2>1, <2>2 DEF Startup
<1> QED BY <1>1 DEF Startup, TInv, Typed, RowsTyped, KeyAsked, local

\* A process that dies starts with typed variables.
LEMMA DieTyped ==
    ASSUME TInv, Die
    PROVE  TInv'
<1>1. faults' \in 0..MaxFaults /\ cache' \in [Domains -> Entries]
    BY CacheAssumption, MissingType DEF Die, Fault, TInv, Typed
<1>2. Typed'
    BY <1>1, MissingType, CacheAssumption DEF Die, TInv, Typed, Places, Nobody, NoRows
<1> QED BY <1>2 DEF Die, TInv, RowsTyped, KeyAsked

\* The beginning of a request.
LEMMA RequestTyped ==
    ASSUME TInv, NEW p \in Procs, NEW d \in Domains, Request(p, d)
    PROVE  TInv'
BY DEF Request, Go, Places, TInv, Typed, RowsTyped, KeyAsked

\* The beginning of a request for latest=1: it has the table to be put.
LEMMA GetLatestTyped ==
    ASSUME TInv, NEW p \in Procs, NEW d \in Domains, NEW k \in Keys, GetLatest(p, d, k)
    PROVE  TInv'
<1> DEFINE found == [tables |-> <<[key |-> k, time |-> Newest(Times(d, k, clock))]>>, ts |-> 0]
<1>1. Newest(Times(d, k, clock)) \in 0..MaxClock
    <2>1. Times(d, k, clock) \in SUBSET (0..MaxClock) /\ MaxClock \in Nat
        BY CacheAssumption DEF Times, TInv, Typed
    <2> QED BY <2>1, NewestType
<1>2. found \in Entries /\ found.tables # <<>>
    BY <1>1, CacheAssumption DEF Entries, Table
<1>3. t' = [t EXCEPT ![p] = found]
    BY DEF GetLatest
<1> HIDE DEF found
<1>4. Typed'
    <2>1. t' \in [Procs -> Entries]
        BY <1>2, <1>3 DEF TInv, Typed
    <2>2. /\ pc' \in [Procs -> Places] /\ dom' \in [Procs -> Domains]
          /\ live' \in [Procs -> BOOLEAN]
        BY DEF GetLatest, Go, Places, TInv, Typed
    <2> QED BY <2>1, <2>2 DEF GetLatest, Go, TInv, Typed
<1>5. RowsTyped' /\ KeyAsked'
    BY <1>2, <1>3 DEF GetLatest, Go, TInv, Typed, RowsTyped, KeyAsked
<1> QED BY <1>4, <1>5 DEF TInv

\* The steps that only move on, set the flag or take the lock.
LEMMA MoveTyped ==
    ASSUME TInv, NEW p \in Procs, Check(p) \/ Mark(p) \/ AskNew(p) \/ Lock(p) \/ Unmark(p)
    PROVE  TInv'
<1>1. Typed'
    BY DEF Check, Mark, AskNew, Lock, Unmark, Go, Places, TInv, Typed
<1>2. RowsTyped'
    <2>1. CASE Lock(p)
        BY <2>1 DEF Lock, At, Go, TInv, Typed, RowsTyped
    <2>2. CASE ~Lock(p)
        BY <2>2 DEF Check, Mark, AskNew, Unmark, Go, TInv, Typed, RowsTyped
    <2> QED BY <2>1, <2>2
<1>3. KeyAsked'
    BY DEF Check, Mark, AskNew, Lock, Unmark, Go, TInv, Typed, KeyAsked
<1> QED BY <1>1, <1>2, <1>3 DEF TInv

\* The entry is read: a copy of an entry is an entry.
LEMMA ReadTyped ==
    ASSUME TInv, NEW p \in Procs, Read(p) \/ Reread(p)
    PROVE  TInv'
<1>1. CASE Return(p)
    <2>1. Typed'
        BY <1>1, ReturnTyped DEF Read, Reread, Fails, TInv, Typed
    <2> QED BY <1>1, <2>1, ReturnTyped DEF TInv
<1>2. CASE ~Return(p)
    <2>1. /\ pc' = [pc EXCEPT ![p] = pc'[p]] /\ pc'[p] \in {"check", "unmark"}
          /\ t' = [t EXCEPT ![p] = cache[dom[p]]]
          /\ live' = [live EXCEPT ![p] = TRUE]
          /\ UNCHANGED <<records, clock, cache, cacheLoading, lock, dom, snap, stored,
                         up, patched, cut, faults>>
        BY <1>2 DEF Read, ReadEntry, Reread, Fails, Go, TInv, Typed
    <2>2. Typed'
        BY <2>1 DEF TInv, Typed, Places
    <2> QED BY <2>1, <2>2 DEF TInv, Typed, RowsTyped, KeyAsked
<1> QED BY <1>1, <1>2

\* A load or a request that ends.
LEMMA EndTyped ==
    ASSUME TInv, NEW p \in Procs, QueryFails(p) \/ ScanFails(p) \/ Answer(p)
    PROVE  TInv'
<1>1. Return(p) /\ faults' \in 0..MaxFaults
    BY CacheAssumption DEF QueryFails, ScanFails, Answer, Fails, Fault, TInv, Typed
<1>2. /\ UNCHANGED <<records, clock, cache, lock, up, patched, cut>>
      /\ cacheLoading' \in BOOLEAN
    BY DEF QueryFails, ScanFails, Answer, Fails, TInv, Typed
<1>3. Typed'
    BY <1>1, <1>2, ReturnTyped DEF TInv, Typed
<1> QED BY <1>1, <1>3, ReturnTyped DEF TInv

\* The query returns rows that make entries.
LEMMA QueryTyped ==
    ASSUME TInv, NEW p \in Procs, Query(p)
    PROVE  TInv'
<1>1. PICK rows : Come(rows) /\ snap' = [snap EXCEPT ![p] = CacheRows(rows)]
    BY DEF Query
<1>2. /\ CacheRows(rows) \in [Domains -> Entries]
      /\ faults' \in 0..MaxFaults /\ cut' \subseteq 0..MaxClock
    BY <1>1, RowsType, CacheRowsType, ComeTyped DEF TInv
<1>3. Typed'
    BY <1>1, <1>2 DEF Query, Go, Places, TInv, Typed
<1>4. RowsTyped' /\ KeyAsked'
    BY <1>1, <1>2 DEF Query, Go, TInv, Typed, RowsTyped, KeyAsked
<1> QED BY <1>3, <1>4 DEF TInv

\* A domain is stored: its rows are an entry.
LEMMA WriteTyped ==
    ASSUME TInv, NEW p \in Procs, NEW d \in Domains, Write(p, d)
    PROVE  TInv'
<1>1. snap[p][d] \in Entries
    BY DEF Write, At, TInv, RowsTyped
<1>2. cache' \in [Domains -> Entries]
    BY <1>1 DEF Write, TInv, Typed
<1>3. Typed'
    BY <1>2 DEF Write, Replaced, Go, Places, TInv, Typed
<1>4. RowsTyped' /\ KeyAsked'
    BY DEF Write, At, Go, TInv, Typed, RowsTyped, KeyAsked
<1> QED BY <1>3, <1>4 DEF TInv

\* The domains that were not found lose their entries.
LEMMA RemoveTyped ==
    ASSUME TInv, NEW p \in Procs, RemoveUnused(p)
    PROVE  TInv'
<1>1. cache' \in [Domains -> Entries]
    BY MissingType DEF RemoveUnused, TInv, Typed
<1>2. /\ snap' \in [Procs -> [Domains -> Entries \cup Indexes]]
      /\ stored' \in [Procs -> SUBSET Domains]
    BY MissingType DEF RemoveUnused, TInv, Typed
<1>3. Typed'
    BY <1>1, <1>2 DEF RemoveUnused, Replaced, Go, Places, TInv, Typed
<1>4. RowsTyped' /\ KeyAsked'
    BY DEF RemoveUnused, Go, TInv, Typed, RowsTyped, KeyAsked
<1> QED BY <1>3, <1>4 DEF TInv

\* The index that is found is kept where no load looks.
LEMMA FindTyped ==
    ASSUME TInv, NEW p \in Procs, Find(p)
    PROVE  TInv'
<1>1. CASE Return(p)
    <2>1. Typed'
        BY <1>1, ReturnTyped DEF Find, TInv, Typed
    <2> QED BY <1>1, <2>1, ReturnTyped DEF TInv
<1>2. CASE ~Return(p)
    <2>1. PICK i \in DOMAIN cache[dom[p]].tables :
            snap' = [snap EXCEPT ![p][dom[p]] = [tables |-> <<>>, ts |-> i]]
        BY <1>2 DEF Find
    <2>2. [tables |-> <<>>, ts |-> i] \in Indexes
        <3>1. dom[p] \in Domains /\ cache[dom[p]] \in Entries
            BY DEF TInv, Typed
        <3>2. cache[dom[p]].tables \in Seq(Table)
            BY <3>1 DEF Entries
        <3>3. i \in Nat
            BY <3>2
        <3> QED BY <3>3 DEF Indexes
    <2>3. snap' \in [Procs -> [Domains -> Entries \cup Indexes]]
        BY <2>1, <2>2 DEF TInv, Typed
    <2>4. /\ At(p, "find") /\ Go(p, "put")
          /\ UNCHANGED <<records, clock, cache, cacheLoading, lock, dom, t, live, stored,
                         up, patched, cut, faults>>
        BY <1>2 DEF Find
    <2>5. Typed'
        BY <2>3, <2>4 DEF Go, Places, TInv, Typed
    <2>6. RowsTyped'
        BY <2>1, <2>4 DEF Go, TInv, Typed, RowsTyped
    <2>7. KeyAsked'
        BY <2>4 DEF At, Go, TInv, Typed, KeyAsked
    <2> QED BY <2>5, <2>6, <2>7 DEF TInv
<1> QED BY <1>1, <1>2

\* The table of the answer replaces a table of the cache, and of the copies that
\* share it.
LEMMA PutTyped ==
    ASSUME TInv, NEW p \in Procs, PutTable(p)
    PROVE  TInv'
<1> DEFINE i == snap[p][dom[p]].ts
           tables == cache[dom[p]].tables
           new == [tables EXCEPT ![i] = t[p].tables[1]]
<1>1. CASE Return(p) /\ UNCHANGED <<cache, patched>>
    <2>1. Typed'
        BY <1>1, ReturnTyped DEF PutTable, TInv, Typed
    <2> QED BY <1>1, <2>1, ReturnTyped DEF TInv
<1>2. CASE ~(Return(p) /\ UNCHANGED <<cache, patched>>)
    <2>1. /\ i \in DOMAIN tables
          /\ cache' = [cache EXCEPT ![dom[p]].tables = new]
          /\ t' = [q \in Procs |->
                      IF q = p THEN Missing
                      ELSE IF live[q] /\ dom[q] = dom[p] THEN [t[q] EXCEPT !.tables = new]
                      ELSE t[q]]
          /\ patched' = TRUE /\ pc' = [pc EXCEPT ![p] = "idle"]
          /\ snap' = [snap EXCEPT ![p] = NoRows]
          /\ dom' = [dom EXCEPT ![p] = Fdmp]
          /\ UNCHANGED <<live, stored, records, clock, cacheLoading, lock, up, cut, faults>>
        BY <1>2 DEF PutTable, Go
    <2>2. tables \in Seq(Table)
        <3>1. dom[p] \in Domains /\ cache[dom[p]] \in Entries
            BY DEF TInv, Typed
        <3> QED BY <3>1 DEF Entries
    <2>3. t[p].tables[1] \in Table
        <3>1. t[p] \in Entries /\ t[p].tables # <<>>
            BY DEF PutTable, At, TInv, Typed, KeyAsked
        <3>2. t[p].tables \in Seq(Table)
            BY <3>1 DEF Entries
        <3> QED BY <3>1, <3>2
    <2> HIDE DEF tables, i
    <2>4. new \in Seq(Table) /\ new # <<>>
        BY <2>1, <2>2, <2>3
    <2> HIDE DEF new
    <2>5. cache' \in [Domains -> Entries]
        <3>1. dom[p] \in Domains /\ cache \in [Domains -> Entries]
            BY DEF TInv, Typed
        <3>2. [cache[dom[p]] EXCEPT !.tables = new] \in Entries
            BY <2>4, <3>1 DEF Entries
        <3> QED BY <2>1, <3>1, <3>2
    <2>6. t' \in [Procs -> Entries]
        BY <2>1, <2>4, MissingType DEF TInv, Typed, Entries
    <2>7. snap' \in [Procs -> [Domains -> Entries \cup Indexes]]
        BY <2>1, MissingType DEF TInv, Typed
    <2>8. Typed'
        BY <2>1, <2>5, <2>6, <2>7, CacheAssumption DEF TInv, Typed, Places
    <2>9. RowsTyped'
        BY <2>1 DEF TInv, Typed, RowsTyped
    <2>10. KeyAsked'
        <3> SUFFICES ASSUME NEW q \in Procs, pc'[q] \in {"find", "put"}
                     PROVE  t'[q].tables # <<>>
            BY DEF KeyAsked
        <3>1. q # p /\ t[q].tables # <<>> /\ t[q] \in Entries
            BY <2>1 DEF TInv, Typed, KeyAsked
        <3>2. t'[q] = t[q] \/ t'[q] = [t[q] EXCEPT !.tables = new]
            BY <2>1, <3>1
        <3> QED BY <2>4, <3>1, <3>2 DEF Entries
    <2> QED BY <2>8, <2>9, <2>10 DEF TInv
<1> QED BY <1>1, <1>2

\* Every step keeps the types.
LEMMA NextTInv == TInv /\ [Next]_vars => TInv'
<1> SUFFICES ASSUME TInv, [Next]_vars PROVE TInv'
    OBVIOUS
<1>1. ASSUME NEW p \in Handlers, NEW s \in Asked, GetLatest(p, s[1], s[2]) PROVE TInv'
    <2>1. p \in Procs /\ s[1] \in Domains /\ s[2] \in Keys
        BY CacheAssumption DEF Procs
    <2> QED BY <1>1, <2>1, GetLatestTyped
<1>2. ASSUME NEW p \in Procs, Step(p) PROVE TInv'
    BY <1>2, MoveTyped, ReadTyped, EndTyped, QueryTyped, WriteTyped, RemoveTyped,
       FindTyped, PutTyped DEF Step
<1> QED BY <1>1, <1>2, WorldTyped, StartupTyped, DieTyped, RequestTyped DEF Next

\* Every variable keeps its type; above all, what a load stores and what a
\* request reads are always sequences of tables of known keys and times, never
\* an index or a half-written entry.
THEOREM TypeCorrect == Spec => []TypeOK
<1>1. Spec => []TInv
    BY InitTInv, NextTInv, PTL DEF Spec
<1>2. TInv /\ FlagHeld => TypeOK
    BY DEF TInv, FlagHeld, TypeOK
<1> QED BY <1>1, <1>2, FlagHasLoader, PTL

(***************************************************************************)
(* One record for each key.                                                *)
(***************************************************************************)

\* The first n elements of a sequence.
BeginsTo(n, tables, all) ==
    DOMAIN tables = 1..n /\ \A i \in 1..n : tables[i] = all[i]

\* What one load makes of a domain is the beginning of what the query returns: all of
\* it, or all but the last key, or less when a connection broke.
LEMMA MadeBegins ==
    ASSUME Typed, NEW d, NEW now \in 0..MaxClock, NEW tables, MadeAt(tables, d, now)
    PROVE  \E n \in 0..Len(LatestTables(d, now)) :
              /\ BeginsTo(n, tables, LatestTables(d, now))
              /\ n < Len(LatestTables(d, now)) =>
                    \/ ~IsLast(d) /\ n = Len(LatestTables(d, now)) - 1
                    \/ now \in cut
<1> DEFINE all == LatestTables(d, now)
           Goal == \E n \in 0..Len(all) :
                        /\ BeginsTo(n, tables, all)
                        /\ n < Len(all) =>
                              \/ ~IsLast(d) /\ n = Len(all) - 1
                              \/ now \in cut
<1>1. all \in Seq(Table)
    BY LatestTablesType
<1>2. \/ tables = all
      \/ ~IsLast(d) /\ all # <<>> /\ tables = Front(all)
      \/ now \in cut /\ \E n \in 1..Len(all) - 1 : tables = SubSeq(all, 1, n)
    BY DEF MadeAt
<1> HIDE DEF all
<1>3. Len(all) \in Nat /\ DOMAIN all = 1..Len(all)
    BY <1>1
<1>4. ASSUME tables = all PROVE Goal
    <2>1. Len(all) \in 0..Len(all) /\ ~(Len(all) < Len(all))
        BY <1>3
    <2> QED BY <1>3, <1>4, <2>1 DEF BeginsTo
<1>5. ASSUME ~IsLast(d), all # <<>>, tables = Front(all) PROVE Goal
    <2>1. /\ tables \in Seq(Table) /\ Len(tables) = Len(all) - 1
          /\ \A i \in 1..Len(tables) : tables[i] = all[i]
        BY <1>1, <1>5, FrontType
    <2>2. Len(tables) \in Nat /\ DOMAIN tables = 1..Len(tables)
        BY <2>1
    <2>3. BeginsTo(Len(all) - 1, tables, all) /\ Len(all) - 1 \in 0..Len(all)
        BY <1>3, <2>1, <2>2 DEF BeginsTo
    <2> QED BY <1>5, <2>3
<1>6. ASSUME now \in cut, \E n \in 1..Len(all) - 1 : tables = SubSeq(all, 1, n) PROVE Goal
    <2>1. PICK n \in 1..Len(all) - 1 : tables = SubSeq(all, 1, n)
        BY <1>6
    <2>2. n \in 0..Len(all)
        BY <1>3
    <2>3. DOMAIN tables = 1..n /\ \A i \in 1..n : tables[i] = all[i]
        BY <1>1, <1>3, <2>1
    <2> QED BY <1>6, <2>2, <2>3 DEF BeginsTo
<1>7. Goal
    BY <1>2, <1>4, <1>5, <1>6
<1> QED BY <1>7 DEF all

\* What one load makes of a domain has each key once.
LEMMA LoadedOnce ==
    ASSUME Typed, NEW d, NEW tables, Loaded(tables, d)
    PROVE  \A i, j \in DOMAIN tables : tables[i].key = tables[j].key => i = j
<1>1. PICK now \in 0..clock : MadeAt(tables, d, now)
    BY DEF Loaded
<1> DEFINE all == LatestTables(d, now)
<1>2. now \in 0..MaxClock
    BY CacheAssumption DEF Typed
<1>3. all \in Seq(Table) /\ \A i, j \in 1..Len(all) : i < j => all[i].key < all[j].key
    BY <1>2, LatestTablesType
<1>4. Len(all) \in Nat /\ \A i \in 1..Len(all) : all[i].key \in Nat
    <2> HIDE DEF all
    <2>1. \A i \in 1..Len(all) : all[i] \in Table
        BY <1>3
    <2>2. Len(all) \in Nat
        BY <1>3
    <2> QED BY <2>1, <2>2, CacheAssumption DEF Table
<1>5. /\ DOMAIN tables \subseteq 1..Len(all)
      /\ \A i \in DOMAIN tables : tables[i] = all[i]
    <2>1. PICK n \in 0..Len(all) : BeginsTo(n, tables, all)
        BY <1>1, <1>2, MadeBegins
    <2> HIDE DEF all
    <2> QED BY <1>4, <2>1 DEF BeginsTo
<1> HIDE DEF all
<1>6. ASSUME NEW i \in DOMAIN tables, NEW j \in DOMAIN tables,
             tables[i].key = tables[j].key, i # j
      PROVE  FALSE
    <2>1. i \in 1..Len(all) /\ j \in 1..Len(all) /\ all[i].key = all[j].key
        BY <1>5, <1>6
    <2>2. i < j \/ j < i
        BY <1>4, <1>6, <2>1
    <2> QED BY <1>3, <1>4, <2>1, <2>2
<1> QED BY <1>6

\* "when key=all we'll only return 1 record for each key": it is so, whatever loads
\* overlap, fail or break off, until an answer to latest=1 is put into the cache.
THEOREM OneRecordPerKey == Spec => [](~patched => EachKeyOnce)
<1>1. Typed /\ OneLoad => (~patched => EachKeyOnce)
    BY LoadedOnce DEF OneLoad, EachKeyOnce, Answering
<1>2. TypeOK => Typed
    BY DEF TypeOK
<1> QED BY <1>1, <1>2, TypeCorrect, AnswerIsOneLoad, PTL

(***************************************************************************)
(* A snapshot.                                                             *)
(***************************************************************************)

\* The record of key k of time x is the newest one of its key at the moment now, and
\* in the window.
IsRecent(d, k, x, now) ==
    /\ x \in Times(d, k, now) /\ x > now - Window
    /\ \A y \in Times(d, k, now) : y <= x

\* Every table shows the newest record of its key at the moment now.  A key with
\* such a record that has no table is the last key of a domain that is not the last,
\* or a connection broke at that moment, and then no key after it has a table.
Snapshot(tables, d, now) ==
    /\ \A i \in DOMAIN tables : IsRecent(d, tables[i].key, tables[i].time, now)
    /\ \A k \in Keys : \A x \in Times(d, k, now) : IsRecent(d, k, x, now) =>
        \/ \E i \in DOMAIN tables : tables[i] = [key |-> k, time |-> x]
        \/ /\ ~IsLast(d)
           /\ \A j \in Keys : \A y \in Times(d, j, now) : IsRecent(d, j, y, now) => j <= k
        \/ now \in cut /\ \A i \in DOMAIN tables : tables[i].key < k

\* The query returns the recent records, one for each key.
LEMMA LatestTablesRecent ==
    ASSUME NEW d, NEW now \in 0..MaxClock
    PROVE  /\ \A i \in 1..Len(LatestTables(d, now)) :
                IsRecent(d, LatestTables(d, now)[i].key, LatestTables(d, now)[i].time, now)
           /\ \A k \in Keys : \A x \in Times(d, k, now) : IsRecent(d, k, x, now) =>
                \E i \in 1..Len(LatestTables(d, now)) :
                    LatestTables(d, now)[i] = [key |-> k, time |-> x]
<1> DEFINE recent == {k \in Keys : \E x \in Times(d, k, now) : x > now - Window}
           sorted == InOrder(recent)
           all == LatestTables(d, now)
<1>1. recent \in SUBSET Nat /\ IsFiniteSet(recent)
    BY CacheAssumption, FS_Subset
<1>2. /\ sorted \in Seq(recent)
      /\ \A k \in recent : \E i \in 1..Len(sorted) : sorted[i] = k
    BY <1>1, InOrderType
<1>3. ASSUME NEW k
      PROVE  /\ Times(d, k, now) \in SUBSET Nat
             /\ Times(d, k, now) # {} =>
                    /\ Newest(Times(d, k, now)) \in Times(d, k, now)
                    /\ \A y \in Times(d, k, now) : y <= Newest(Times(d, k, now))
    <2>1. Times(d, k, now) \in SUBSET (0..MaxClock) /\ MaxClock \in Nat
        BY CacheAssumption DEF Times
    <2> QED BY <2>1, NewestType
<1>4. Len(sorted) \in Nat /\ \A i \in 1..Len(sorted) : sorted[i] \in recent
    <2> HIDE DEF recent, sorted
    <2> QED BY <1>2
<1>5. /\ Len(all) = Len(sorted)
      /\ \A i \in 1..Len(sorted) :
            all[i] = [key |-> sorted[i], time |-> Newest(Times(d, sorted[i], now))]
    BY <1>4 DEF LatestTables
<1>6. ASSUME NEW k \in recent
      PROVE  IsRecent(d, k, Newest(Times(d, k, now)), now)
    <2>1. PICK x \in Times(d, k, now) : x > now - Window
        OBVIOUS
    <2>2. /\ Newest(Times(d, k, now)) \in Times(d, k, now)
          /\ \A y \in Times(d, k, now) : y <= Newest(Times(d, k, now))
          /\ Times(d, k, now) \in SUBSET Nat
        BY <1>3, <2>1
    <2>3. Newest(Times(d, k, now)) > now - Window
        BY <2>1, <2>2, CacheAssumption
    <2> QED BY <2>2, <2>3 DEF IsRecent
<1>7. ASSUME NEW k \in Keys, NEW x \in Times(d, k, now), IsRecent(d, k, x, now)
      PROVE  k \in recent /\ x = Newest(Times(d, k, now))
    <2>1. /\ Newest(Times(d, k, now)) \in Times(d, k, now)
          /\ x <= Newest(Times(d, k, now)) /\ Newest(Times(d, k, now)) <= x
          /\ Times(d, k, now) \in SUBSET Nat
        BY <1>3, <1>7 DEF IsRecent
    <2>2. k \in recent
        BY <1>7 DEF IsRecent
    <2> QED BY <2>1, <2>2
<1> HIDE DEF recent, sorted, all
<1>8. ASSUME NEW i \in 1..Len(all) PROVE IsRecent(d, all[i].key, all[i].time, now)
    <2>1. i \in 1..Len(sorted) /\ sorted[i] \in recent
        BY <1>4, <1>5
    <2>2. all[i] = [key |-> sorted[i], time |-> Newest(Times(d, sorted[i], now))]
        BY <1>5, <2>1
    <2>3. all[i].key = sorted[i] /\ all[i].time = Newest(Times(d, sorted[i], now))
        BY <2>2
    <2> QED BY <1>6, <2>1, <2>3
<1>9. ASSUME NEW k \in Keys, NEW x \in Times(d, k, now), IsRecent(d, k, x, now)
      PROVE  \E i \in 1..Len(all) : all[i] = [key |-> k, time |-> x]
    <2>1. k \in recent /\ x = Newest(Times(d, k, now))
        BY <1>7, <1>9
    <2>2. PICK i \in 1..Len(sorted) : sorted[i] = k
        BY <1>2, <2>1
    <2> QED BY <1>5, <2>1, <2>2
<1> QED BY <1>8, <1>9 DEF all

\* What one load makes of a domain is a snapshot of it.
LEMMA LoadedSnapshot ==
    ASSUME Typed, NEW d, NEW tables, Loaded(tables, d)
    PROVE  \E now \in 0..clock : Snapshot(tables, d, now)
<1>1. PICK now \in 0..clock : MadeAt(tables, d, now)
    BY DEF Loaded
<1> DEFINE all == LatestTables(d, now)
<1>2. now \in 0..MaxClock
    BY CacheAssumption DEF Typed
<1>3. all \in Seq(Table) /\ \A i, j \in 1..Len(all) : i < j => all[i].key < all[j].key
    BY <1>2, LatestTablesType
<1>4. /\ \A i \in 1..Len(all) : IsRecent(d, all[i].key, all[i].time, now)
      /\ \A k \in Keys : \A x \in Times(d, k, now) : IsRecent(d, k, x, now) =>
            \E i \in 1..Len(all) : all[i] = [key |-> k, time |-> x]
    BY <1>2, LatestTablesRecent
<1>5. PICK n \in 0..Len(all) :
        /\ BeginsTo(n, tables, all)
        /\ n < Len(all) =>
                              \/ ~IsLast(d) /\ n = Len(all) - 1
                              \/ now \in cut
    BY <1>1, <1>2, MadeBegins
<1> HIDE DEF all
<1>6. Len(all) \in Nat /\ \A i \in 1..Len(all) : all[i].key \in Nat
    <2>1. \A i \in 1..Len(all) : all[i] \in Table
        BY <1>3
    <2>2. Len(all) \in Nat
        BY <1>3
    <2> QED BY <2>1, <2>2, CacheAssumption DEF Table
<1>7. \A i \in DOMAIN tables : i \in 1..Len(all) /\ i <= n /\ tables[i] = all[i]
    BY <1>5, <1>6 DEF BeginsTo
<1>8. ASSUME NEW k \in Keys, NEW x \in Times(d, k, now), IsRecent(d, k, x, now),
             ~ \E i \in DOMAIN tables : tables[i] = [key |-> k, time |-> x]
      PROVE  \/ /\ ~IsLast(d)
                /\ \A j \in Keys : \A y \in Times(d, j, now) : IsRecent(d, j, y, now) => j <= k
             \/ now \in cut /\ \A i \in DOMAIN tables : tables[i].key < k
    <2>1. PICK a \in 1..Len(all) : all[a] = [key |-> k, time |-> x]
        BY <1>4, <1>8
    <2>2. n < a
        <3>1. a \notin 1..n
            BY <1>5, <1>8, <2>1 DEF BeginsTo
        <3> QED BY <1>6, <3>1
    <2>3. CASE now \in cut
        <3> SUFFICES ASSUME NEW i \in DOMAIN tables PROVE tables[i].key < k
            BY <2>3
        <3>1. i \in 1..Len(all) /\ i < a /\ tables[i] = all[i]
            BY <1>6, <1>7, <2>2
        <3> QED BY <1>3, <2>1, <3>1
    <2>4. CASE ~IsLast(d) /\ n = Len(all) - 1
        <3>1. a = Len(all)
            BY <1>6, <2>2, <2>4
        <3> SUFFICES ASSUME NEW j \in Keys, NEW y \in Times(d, j, now), IsRecent(d, j, y, now)
                     PROVE  j <= k
            BY <2>4
        <3>2. PICK b \in 1..Len(all) : all[b] = [key |-> j, time |-> y]
            BY <1>4
        <3>3. all[b].key <= all[a].key
            <4>1. CASE b < a
                BY <1>3, <1>6, <4>1
            <4>2. CASE b = a
                BY <1>6, <4>2
            <4> QED BY <1>6, <3>1, <4>1, <4>2
        <3> QED BY <2>1, <3>2, <3>3
    <2> QED BY <1>5, <1>6, <2>2, <2>3, <2>4
<1>9. \A i \in DOMAIN tables : IsRecent(d, tables[i].key, tables[i].time, now)
    BY <1>4, <1>7
<1> QED BY <1>8, <1>9 DEF Snapshot

\* "a snapshot of the latest value for every live metadata": an answer to
\* key=all shows, for one moment, only the newest records of their keys, in the
\* window; it lacks a key only if that is the last one of a domain that is not the
\* last, or if a connection broke at that moment, and then it has no key after it;
\* until an answer to latest=1 is put into the cache.
THEOREM AnswerIsSnapshot ==
    Spec => [](\A p \in Procs : Answering(p) /\ ~patched =>
                \E now \in 0..clock : Snapshot(t[p].tables, dom[p], now))
<1>1. Typed /\ OneLoad =>
        \A p \in Procs : Answering(p) /\ ~patched =>
            \E now \in 0..clock : Snapshot(t[p].tables, dom[p], now)
    BY LoadedSnapshot DEF OneLoad
<1>2. TypeOK => Typed
    BY DEF TypeOK
<1> QED BY <1>1, <1>2, TypeCorrect, AnswerIsOneLoad, PTL
=============================================================================
