------------------------- MODULE ScanResultsProofs -------------------------
(***************************************************************************)
(* OfferedTagWasFree, the types, and what is on the lists (ListsFitModes,  *)
(* NoProductTwice, ClearedIsGone, ShownIsListed), for every set of         *)
(* modules, connections, tags and products, every number of handlers and   *)
(* every bound.                                                            *)
(*                                                                         *)
(* OfferedTagWasFree needs to know of a handler that it is a record.  The  *)
(* lists need ListInv, and that FlattenSeq, which builds them, computes    *)
(* what it should: a recursive function, about which one reasons with the  *)
(* first number for which it does not.                                     *)
(***************************************************************************)
EXTENDS ScanResults, FiniteSetTheorems, SequenceTheorems, WellFoundedInduction, TLAPS

Stages == {"get", "find", "set", "show"}

\* Handlers over some set of values: all the proof needs to know of them.
Over(U) == [id : U, epc : U, rssi : U, time : U, mode : U, list : U, rows : U,
            at : Stages, free : BOOLEAN]

\* Handlers are records, whatever is in them.
JobsAreRecords == \E U : jobs \in [Slots -> Over(U) \cup {None}]

\* A handler whose tag is free now has noticed a moment when it was.
FreeIsNoticed == \A s \in Slots : Running(s) /\ Free(jobs[s].epc, stock) => jobs[s].free

\* Only outside NewProduct is anything written to the cache.
SetIsCached ==
  \A s \in Slots : Running(s) /\ jobs[s].at = "set" => jobs[s].mode # "NewProduct"

Inv == JobsAreRecords /\ FreeIsNoticed /\ SetIsCached /\ OfferedTagWasFree

\* What is read of a tag offers it only if it is free, unless two products
\* carry it.
LEMMA OfferedIsFree ==
  ASSUME NEW e, Offers(Carriers(e)), Cardinality(Carriers(e)) < 2
  PROVE  Free(e, stock)
<1> DEFINE C == Carriers(e)
<1>1. IsFiniteSet(C)
  <2> DEFINE Q == {q \in Products : e \in stock[q].tags}
             f == [q \in Q |-> stock[q]]
  <2>1. IsFiniteSet(Q)
    BY FS_Subset, ProductsAssumption
  <2>2. f \in Surjection(Q, C)
    BY DEF Surjection, Carriers
  <2> QED
    BY <2>1, <2>2, FS_Surjection
<1>2. \A q \in Products : e \in stock[q].tags => stock[q] \in C
  BY DEF Carriers
<1>3. CASE C = {}
  BY <1>2, <1>3 DEF Free
<1>4. CASE C # {}
  <2>1. Cardinality(C) \in Nat /\ Cardinality(C) # 0
    BY <1>1, <1>4, FS_CardinalityType, FS_EmptySet
  <2>2. Cardinality(C) = 1
    BY <2>1
  <2>3. PICK r : C = {r}
    BY <1>1, <2>2, FS_Singleton
  <2>4. ~r.left
    BY <1>4, <2>3 DEF Offers
  <2> QED
    BY <1>2, <2>3, <2>4 DEF Free
<1> QED
  BY <1>3, <1>4

\* Only one handler changes, and it keeps the invariant.
LEMMA OneHandler ==
  ASSUME Inv, NEW s \in Slots, NEW U, NEW j \in Over(U) \cup {None},
         jobs' = [jobs EXCEPT ![s] = j], stock' = stock,
         j # None /\ Free(j.epc, stock) => j.free,
         j # None /\ j.at = "set" => j.mode # "NewProduct",
         /\ j # None /\ j.at = "show" /\ j.mode = "NewProduct"
         /\ Offers(j.rows) /\ Cardinality(j.rows) < 2
         => j.free
  PROVE  Inv'
<1>1. PICK V : jobs \in [Slots -> Over(V) \cup {None}]
  BY DEF Inv, JobsAreRecords
<1>2. jobs' \in [Slots -> Over(U \cup V) \cup {None}]
  <2>1. Over(U) \subseteq Over(U \cup V) /\ Over(V) \subseteq Over(U \cup V)
    BY DEF Over
  <2> QED
    BY <1>1, <2>1
<1>3. jobs'[s] = j /\ \A t \in Slots : t # s => jobs'[t] = jobs[t]
  BY <1>1
<1>4. JobsAreRecords'
  BY <1>2 DEF JobsAreRecords
<1>5. FreeIsNoticed'
  BY <1>3 DEF Inv, FreeIsNoticed, Running, Free
<1>6. SetIsCached'
  BY <1>3 DEF Inv, SetIsCached, Running
<1>7. OfferedTagWasFree'
  BY <1>3 DEF Inv, OfferedTagWasFree, Running
<1> QED
  BY <1>4, <1>5, <1>6, <1>7 DEF Inv

\* A handler that runs is a record over some set.
LEMMA RunningIsRecord ==
  ASSUME Inv, NEW s \in Slots, Running(s)
  PROVE  \E U : jobs[s] \in Over(U)
BY DEF Inv, JobsAreRecords, Running

LEMMA InvInit == Init => Inv
<1> SUFFICES ASSUME Init PROVE Inv
  OBVIOUS
<1>1. \A s \in Slots : ~Running(s)
  BY DEF Init, Running
<1>2. jobs \in [Slots -> Over({}) \cup {None}]
  BY DEF Init
<1> QED
  BY <1>1, <1>2 DEF Inv, JobsAreRecords, FreeIsNoticed, SetIsCached, OfferedTagWasFree

\* Changes of the stock: every handler notices what became free.
LEMMA InvChange ==
  ASSUME Inv, NEW p \in Products, NEW row \in StockRows, Change(p, row)
  PROVE  Inv'
<1>1. PICK U : jobs \in [Slots -> Over(U) \cup {None}]
  BY DEF Inv, JobsAreRecords
<1> DEFINE After(s) == [jobs[s] EXCEPT !.free = @ \/ Free(jobs[s].epc, stock')]
<1>2. ASSUME NEW s \in Slots, Running(s)
      PROVE  /\ After(s) \in Over(U)
             /\ After(s).epc = jobs[s].epc /\ After(s).mode = jobs[s].mode
             /\ After(s).rows = jobs[s].rows /\ After(s).at = jobs[s].at
             /\ After(s).free <=> (jobs[s].free \/ Free(jobs[s].epc, stock'))
  <2>1. jobs[s] \in Over(U)
    BY <1>1, <1>2 DEF Running
  <2>2. (jobs[s].free \/ Free(jobs[s].epc, stock')) \in BOOLEAN
    BY DEF Free
  <2> HIDE DEF Free
  <2> QED
    BY <2>1, <2>2 DEF Over
<1>3. \A s \in Slots : jobs'[s] = IF Running(s) THEN After(s) ELSE None
  BY DEF Change
<1>4. jobs' \in [Slots -> Over(U) \cup {None}]
  <2>1. jobs' = [s \in Slots |-> IF Running(s) THEN After(s) ELSE None]
    BY DEF Change
  <2> HIDE DEF After
  <2> QED
    BY <1>2, <2>1
<1> HIDE DEF After
<1>5. FreeIsNoticed'
  BY <1>2, <1>3 DEF FreeIsNoticed, Running
<1>6. SetIsCached'
  BY <1>2, <1>3 DEF Inv, SetIsCached, Running
<1>7. OfferedTagWasFree'
  BY <1>2, <1>3 DEF Inv, OfferedTagWasFree, Running
<1> QED
  BY <1>4, <1>5, <1>6, <1>7 DEF Inv, JobsAreRecords

\* A frame comes: its handler notices at once whether the tag is free.
LEMMA InvOnTag ==
  ASSUME Inv, NEW c \in Conns, NEW e \in Epcs, NEW r \in RSSIs, OnTag(c, e, r)
  PROVE  Inv'
<1> DEFINE s == CHOOSE t \in Slots : ~Running(t)
           i == info[c].id
           m == info[c].mode
           list == info[c].lists[m]
           j == [id |-> i, epc |-> e, rssi |-> r, time |-> now, mode |-> m,
                 list |-> list, rows |-> {}, at |-> "get", free |-> Free(e, stock)]
<1>1. s \in Slots
  BY DEF OnTag
<1>2. jobs' = [jobs EXCEPT ![s] = j] /\ stock' = stock
  BY DEF OnTag
<1>3. Free(e, stock) \in BOOLEAN
  BY DEF Free
<1> HIDE DEF s, i, m, list
<1>4. j \in Over({i, e, r, now, m, list, {}})
  BY <1>3 DEF Over, Stages
<1>5. j.at = "get" /\ j.epc = e /\ (j.free <=> Free(e, stock))
  OBVIOUS
<1> HIDE DEF j
<1> QED
  BY <1>1, <1>2, <1>4, <1>5, OneHandler

\* Under NewProduct the cache's answer is not used.
LEMMA InvGet ==
  ASSUME Inv, NEW s \in Slots, Get(s)
  PROVE  Inv'
<1>1. PICK U : jobs[s] \in Over(U)
  BY RunningIsRecord DEF Get
<1> DEFINE hit == cache[<<jobs[s].epc, jobs[s].mode>>]
           j == IF Caches(jobs[s].mode) /\ hit # None
                THEN [jobs[s] EXCEPT !.rows = hit, !.at = "show"]
                ELSE [jobs[s] EXCEPT !.at = "find"]
<1>2. jobs' = [jobs EXCEPT ![s] = j] /\ stock' = stock
  <2>1. s \in DOMAIN jobs
    BY DEF Inv, JobsAreRecords
  <2> QED
    BY <2>1 DEF Get
<1> HIDE DEF hit
<1>3. j \in Over(U \cup {hit}) /\ j.epc = jobs[s].epc /\ j.free = jobs[s].free
      /\ j.mode = jobs[s].mode
  BY <1>1 DEF Over, Stages
<1>4. /\ j.at = "show" => j.mode # "NewProduct"
      /\ j.at # "set"
  BY <1>1 DEF Over, Caches
<1>5. Free(j.epc, stock) => j.free
  BY <1>3 DEF Inv, FreeIsNoticed, Get
<1> HIDE DEF j
<1> QED
  BY <1>2, <1>3, <1>4, <1>5, OneHandler

\* Under NewProduct what was read is what will be shown.
LEMMA InvFind ==
  ASSUME Inv, NEW s \in Slots, Find(s)
  PROVE  Inv'
<1>1. PICK U : jobs[s] \in Over(U)
  BY RunningIsRecord DEF Find
<1> DEFINE rows == Carriers(jobs[s].epc)
           at == IF Caches(jobs[s].mode) THEN "set" ELSE "show"
           j == [jobs[s] EXCEPT !.rows = rows, !.at = at]
<1>2. jobs' = [jobs EXCEPT ![s] = j] /\ stock' = stock
  <2>1. s \in DOMAIN jobs
    BY DEF Inv, JobsAreRecords
  <2> QED
    BY <2>1 DEF Find
<1>3. Offers(rows) /\ Cardinality(rows) < 2 => Free(jobs[s].epc, stock)
  BY OfferedIsFree
<1>4. at \in Stages
  BY DEF Stages
<1> HIDE DEF rows, at
<1>5. j \in Over(U \cup {rows}) /\ j.epc = jobs[s].epc /\ j.free = jobs[s].free
      /\ j.rows = rows
  BY <1>1, <1>4 DEF Over
<1>6. Free(j.epc, stock) => j.free
  BY <1>5 DEF Inv, FreeIsNoticed, Find
<1>7. j.at = "set" => j.mode # "NewProduct"
  BY <1>1 DEF at, Over, Caches
<1> HIDE DEF j
<1> QED
  BY <1>2, <1>3, <1>5, <1>6, <1>7, OneHandler

\* The cache is written outside NewProduct only.
LEMMA InvSet ==
  ASSUME Inv, NEW s \in Slots, Set(s)
  PROVE  Inv'
<1>1. PICK U : jobs[s] \in Over(U)
  BY RunningIsRecord DEF Set
<1> DEFINE j == [jobs[s] EXCEPT !.at = "show"]
<1>2. jobs' = [jobs EXCEPT ![s] = j] /\ stock' = stock
  <2>1. s \in DOMAIN jobs
    BY DEF Inv, JobsAreRecords
  <2> QED
    BY <2>1 DEF Set
<1>3. j \in Over(U) /\ j.epc = jobs[s].epc /\ j.free = jobs[s].free
      /\ j.mode = jobs[s].mode /\ j.at = "show"
  BY <1>1 DEF Over, Stages
<1>4. j.mode # "NewProduct"
  BY <1>3 DEF Inv, SetIsCached, Set
<1>5. Free(j.epc, stock) => j.free
  BY <1>3 DEF Inv, FreeIsNoticed, Set
<1> HIDE DEF j
<1> QED
  BY <1>2, <1>3, <1>4, <1>5, OneHandler

\* A handler is done, or dies with the process.
LEMMA InvEnd ==
  ASSUME Inv, NEW s \in Slots, Show(s) \/ FindFails(s)
  PROVE  Inv'
<1>1. CASE Show(s)
  BY <1>1, OneHandler DEF Show
<1>2. CASE FindFails(s)
  <2>1. jobs' \in [Slots -> Over({}) \cup {None}] /\ \A t \in Slots : jobs'[t] = None
    BY <1>2 DEF FindFails
  <2> QED
    BY <2>1 DEF Inv, JobsAreRecords, FreeIsNoticed, SetIsCached, OfferedTagWasFree, Running
<1> QED
  BY <1>1, <1>2

\* What touches neither the handlers nor the stock.
LEMMA InvRest ==
  ASSUME Inv, UNCHANGED <<jobs, stock>>
  PROVE  Inv'
BY DEF Inv, JobsAreRecords, FreeIsNoticed, SetIsCached, OfferedTagWasFree, Running, Free

LEMMA InvStep == Inv /\ [Next]_vars => Inv'
<1> SUFFICES ASSUME Inv, [Next]_vars PROVE Inv'
  OBVIOUS
<1>1. CASE Connections
  BY <1>1, InvRest DEF Connections, Register, Close, SetMode, ClearScanHistory
<1>2. CASE World
  <2>1. CASE \E p \in Products, row \in StockRows : Change(p, row)
    BY <2>1, InvChange
  <2>2. CASE Tick
    BY <2>2, InvRest DEF Tick
  <2>3. CASE \E e \in Epcs, m \in Modes : Expire(e, m)
    BY <2>3, InvRest DEF Expire
  <2> QED
    BY <1>2, <2>1, <2>2, <2>3 DEF World
<1>3. CASE Reports
  <2>1. CASE \E c \in Conns, e \in Epcs, r \in RSSIs : OnTag(c, e, r)
    BY <2>1, InvOnTag
  <2>2. CASE \E s \in Slots : Get(s) \/ Find(s) \/ Set(s) \/ FindFails(s) \/ Show(s)
    BY <2>2, InvGet, InvFind, InvSet, InvEnd
  <2> QED
    BY <1>3, <2>1, <2>2 DEF Reports
<1>4. CASE UNCHANGED vars
  BY <1>4, InvRest DEF vars
<1> QED
  BY <1>1, <1>2, <1>3, <1>4 DEF Next

\* A tag that is about to be offered for a new product was free at some moment
\* since its report came, or is carried by two products, whatever the other
\* handlers, the stock and the connections do.
THEOREM OffersWereFree == Spec => []OfferedTagWasFree
<1>1. Inv => OfferedTagWasFree
  BY DEF Inv
<1> QED
  BY InvInit, InvStep, <1>1, PTL DEF Spec
-----------------------------------------------------------------------------
(***************************************************************************)
(* FlattenSeq.  What it computes is shown by induction, in the form that   *)
(* every set of natural numbers has a least element.                       *)
(***************************************************************************)
\* Of the numbers for which something fails there is a first.
LEMMA Least ==
  ASSUME NEW T, T \subseteq Nat, T # {}
  PROVE  \E x \in T : \A y \in T : x <= y
<1> DEFINE R == OpToRel(<, Nat)
<1>1. IsWellFoundedOn(R, Nat)
  BY NatLessThanWellFounded
<1>2. \A x, y \in Nat : <<y, x>> \notin R => x <= y
  BY DEF OpToRel
<1> HIDE DEF R
<1>3. PICK x \in T : \A y \in T : <<y, x>> \notin R
  BY <1>1, WFMin
<1> QED
  BY <1>2, <1>3

\* The parts of a sequence put together, up to each of them.
JoinRule(f, seqs, n) == f = [i \in 1..n |-> IF i = 1 THEN seqs[i] ELSE f[i-1] \o seqs[i]]

LEMMA JoinExists ==
  ASSUME NEW seqs, NEW n \in Nat
  PROVE  \E f : JoinRule(f, seqs, n)
<1> DEFINE T == {k \in Nat : ~ \E f : JoinRule(f, seqs, k)}
<1> SUFFICES ASSUME T # {} PROVE FALSE
  OBVIOUS
<1>1. PICK k \in T : \A y \in T : k <= y
  <2> T \subseteq Nat
    OBVIOUS
  <2> HIDE DEF T
  <2> QED
    BY Least
<1>2. CASE k = 0
  <2> DEFINE f == [i \in 1..0 |-> seqs[i]]
  <2>1. JoinRule(f, seqs, 0)
    BY DEF JoinRule
  <2> QED
    BY <1>1, <1>2, <2>1
<1>3. CASE k # 0
  <2>1. k - 1 \in Nat /\ k - 1 \notin T
    BY <1>1, <1>3
  <2>2. PICK f : JoinRule(f, seqs, k - 1)
    BY <2>1
  <2> DEFINE g == [i \in 1..k |-> IF i = k THEN (IF k = 1 THEN seqs[k] ELSE f[k - 1] \o seqs[k])
                                            ELSE f[i]]
  <2>3. ASSUME NEW i \in 1..k
        PROVE  g[i] = IF i = 1 THEN seqs[i] ELSE g[i - 1] \o seqs[i]
    <3>1. CASE i = k
      <4>1. k # 1 => k - 1 \in 1..k /\ k - 1 # k /\ g[k - 1] = f[k - 1]
        BY <1>1, <1>3
      <4> QED
        BY <3>1, <4>1
    <3>2. CASE i # k
      <4>1. i \in 1..(k - 1)
        BY <1>1, <3>2
      <4>2. g[i] = IF i = 1 THEN seqs[i] ELSE f[i - 1] \o seqs[i]
        BY <2>2, <3>2, <4>1 DEF JoinRule
      <4>3. i # 1 => i - 1 \in 1..k /\ i - 1 # k /\ g[i - 1] = f[i - 1]
        BY <1>1, <4>1
      <4> QED
        BY <4>2, <4>3
    <3> QED
      BY <3>1, <3>2
  <2>4. g = [i \in 1..k |-> IF i = 1 THEN seqs[i] ELSE g[i - 1] \o seqs[i]]
    <3>1. g = [i \in 1..k |-> g[i]]
      OBVIOUS
    <3> HIDE DEF g
    <3> QED
      BY <2>3, <3>1
  <2>5. JoinRule(g, seqs, k)
    BY <2>4 DEF JoinRule
  <2> QED
    BY <1>1, <2>5
<1> QED
  BY <1>2, <1>3

LEMMA FlattenRule ==
  ASSUME NEW seqs, Len(seqs) \in Nat, Len(seqs) # 0
  PROVE  \E f : JoinRule(f, seqs, Len(seqs)) /\ FlattenSeq(seqs) = f[Len(seqs)]
<1> DEFINE f == CHOOSE g : JoinRule(g, seqs, Len(seqs))
<1>1. JoinRule(f, seqs, Len(seqs))
  BY JoinExists
<1>2. FlattenSeq(seqs) = f[Len(seqs)]
  BY DEF FlattenSeq, JoinRule
<1> QED
  BY <1>1, <1>2

\* Every element of the whole is one of a part.
LEMMA FlattenIn ==
  ASSUME NEW S, NEW seqs, Len(seqs) \in Nat, Len(seqs) # 0,
         \A k \in 1..Len(seqs) : seqs[k] \in Seq(S)
  PROVE  /\ FlattenSeq(seqs) \in Seq(S)
         /\ \A n \in 1..Len(FlattenSeq(seqs)) :
              \E k \in 1..Len(seqs), l \in Nat : l \in 1..Len(seqs[k]) /\ FlattenSeq(seqs)[n] = seqs[k][l]
<1> DEFINE N == Len(seqs)
           In(q) == /\ q \in Seq(S)
                    /\ \A n \in 1..Len(q) : \E k \in 1..N, l \in Nat :
                         l \in 1..Len(seqs[k]) /\ q[n] = seqs[k][l]
<1>1. PICK f : JoinRule(f, seqs, N) /\ FlattenSeq(seqs) = f[N]
  BY FlattenRule
<1>2. \A i \in 1..N : f[i] = IF i = 1 THEN seqs[i] ELSE f[i - 1] \o seqs[i]
  BY <1>1 DEF JoinRule
<1>3. ASSUME NEW i \in 1..N PROVE In(seqs[i])
  BY <1>3, LenProperties
<1>4. ASSUME NEW p, NEW q, In(p), In(q) PROVE In(p \o q)
  <2>1. /\ p \o q \in Seq(S) /\ Len(p) \in Nat /\ Len(q) \in Nat /\ Len(p \o q) = Len(p) + Len(q)
        /\ \A n \in 1..(Len(p) + Len(q)) : (p \o q)[n] = IF n <= Len(p) THEN p[n] ELSE q[n - Len(p)]
    BY <1>4, ConcatProperties, LenProperties
  <2>2. ASSUME NEW n \in 1..Len(p \o q)
        PROVE  \E k \in 1..N, l \in Nat : l \in 1..Len(seqs[k]) /\ (p \o q)[n] = seqs[k][l]
    <3>1. CASE n <= Len(p)
      <4>1. n \in 1..Len(p) /\ (p \o q)[n] = p[n]
        BY <2>1, <3>1
      <4>2. PICK k \in 1..N, l \in Nat : l \in 1..Len(seqs[k]) /\ p[n] = seqs[k][l]
        BY <1>4, <4>1
      <4>3. (p \o q)[n] = seqs[k][l]
        BY <4>1, <4>2
      <4> QED
        BY <4>2, <4>3
    <3>2. CASE ~(n <= Len(p))
      <4>1. n - Len(p) \in 1..Len(q) /\ (p \o q)[n] = q[n - Len(p)]
        BY <2>1, <3>2
      <4>2. PICK k \in 1..N, l \in Nat : l \in 1..Len(seqs[k]) /\ q[n - Len(p)] = seqs[k][l]
        BY <1>4, <4>1
      <4>3. (p \o q)[n] = seqs[k][l]
        BY <4>1, <4>2
      <4> QED
        BY <4>2, <4>3
    <3> QED
      BY <3>1, <3>2
  <2> QED
    BY <2>1, <2>2
<1> HIDE DEF In, N
<1>5. \A i \in 1..N : In(f[i])
  <2> DEFINE T == {i \in 1..N : ~In(f[i])}
  <2> SUFFICES ASSUME T # {} PROVE FALSE
    OBVIOUS
  <2>1. N \in Nat
    BY DEF N
  <2>2. PICK k \in T : \A y \in T : k <= y
    <3> T \subseteq Nat
      BY <2>1
    <3> HIDE DEF T
    <3> QED
      BY Least
  <2>3. k = 1 => FALSE
    BY <1>2, <1>3, <2>2
  <2>4. k # 1 => k - 1 \in 1..N /\ k - 1 \notin T
    BY <2>1, <2>2
  <2>5. k # 1 => In(f[k - 1]) /\ In(seqs[k]) /\ f[k] = f[k - 1] \o seqs[k]
    BY <1>2, <1>3, <2>2, <2>4
  <2> QED
    BY <1>4, <2>2, <2>3, <2>5
<1>6. In(f[N])
  BY <1>5 DEF N
<1> QED
  BY <1>1, <1>6 DEF In, N

\* Parts of one element each: the whole has them one after the other.
Ones(seqs, g, S) == \A k \in 1..Len(seqs) : g[k] \in S /\ seqs[k] = <<g[k]>>

LEMMA FlattenOnes ==
  ASSUME NEW S, NEW seqs, Len(seqs) \in Nat, Len(seqs) # 0, NEW g, Ones(seqs, g, S)
  PROVE  /\ DOMAIN FlattenSeq(seqs) = 1..Len(seqs)
         /\ \A k \in 1..Len(seqs) : FlattenSeq(seqs)[k] = g[k]
<1> DEFINE N == Len(seqs)
           Q(n) == [k \in 1..n |-> g[k]]
<1>1. PICK f : JoinRule(f, seqs, N) /\ FlattenSeq(seqs) = f[N]
  BY FlattenRule
<1>2. \A i \in 1..N : f[i] = IF i = 1 THEN seqs[i] ELSE f[i - 1] \o seqs[i]
  BY <1>1 DEF JoinRule
<1>3. N \in Nat
  OBVIOUS
<1>4. \A i \in 1..N : g[i] \in S /\ seqs[i] = <<g[i]>>
  BY DEF Ones
<1> HIDE DEF N
<1>5. N # 0 => <<g[1]>> = Q(1)
  OBVIOUS
<1>6. ASSUME NEW n \in Nat, n + 1 \in 1..N, n # 0
      PROVE  Q(n) \o <<g[n + 1]>> = Q(n + 1)
  <2>1. Q(n) \in Seq(S) /\ Len(Q(n)) = n
    BY <1>3, <1>4, <1>6
  <2>2. <<g[n + 1]>> \in Seq(S) /\ Len(<<g[n + 1]>>) = 1 /\ <<g[n + 1]>>[1] = g[n + 1]
    BY <1>4, <1>6
  <2>3. /\ Q(n) \o <<g[n + 1]>> \in Seq(S) /\ Len(Q(n) \o <<g[n + 1]>>) = n + 1
        /\ \A k \in 1..(n + 1) :
             (Q(n) \o <<g[n + 1]>>)[k] = IF k <= n THEN Q(n)[k] ELSE <<g[n + 1]>>[k - n]
    BY <2>1, <2>2, ConcatProperties
  <2>4. Q(n + 1) \in Seq(S) /\ Len(Q(n + 1)) = n + 1
    BY <1>3, <1>4, <1>6
  <2>5. \A k \in 1..(n + 1) : (Q(n) \o <<g[n + 1]>>)[k] = Q(n + 1)[k]
    <3> TAKE k \in 1..(n + 1)
    <3>1. CASE k <= n
      BY <2>3, <3>1
    <3>2. CASE k = n + 1
      BY <2>2, <2>3, <3>2
    <3> QED
      BY <3>1, <3>2
  <2> HIDE DEF Q
  <2> QED
    BY <2>3, <2>4, <2>5, SeqEqual
<1> HIDE DEF Q
<1>7. \A i \in 1..N : f[i] = Q(i)
  <2> DEFINE T == {i \in 1..N : f[i] # Q(i)}
  <2> SUFFICES ASSUME T # {} PROVE FALSE
    OBVIOUS
  <2>2. PICK k \in T : \A y \in T : k <= y
    <3> T \subseteq Nat
      BY <1>3
    <3> HIDE DEF T
    <3> QED
      BY Least
  <2>3. k # 1
    BY <1>2, <1>4, <1>5, <2>2
  <2>4. k - 1 \in 1..N /\ k - 1 \notin T /\ k - 1 \in Nat /\ k - 1 # 0 /\ (k - 1) + 1 = k
    BY <1>3, <2>2, <2>3
  <2>5. f[k] = Q(k - 1) \o <<g[k]>>
    BY <1>2, <1>4, <2>2, <2>3, <2>4
  <2>6. Q(k - 1) \o <<g[(k - 1) + 1]>> = Q((k - 1) + 1)
    BY <1>6, <2>2, <2>4
  <2> QED
    BY <2>2, <2>4, <2>5, <2>6
<1>8. DOMAIN FlattenSeq(seqs) = 1..N /\ \A k \in 1..N : FlattenSeq(seqs)[k] = g[k]
  <2>1. N \in 1..N
    BY <1>3 DEF N
  <2>2. FlattenSeq(seqs) = Q(N)
    BY <1>1, <1>7, <2>1
  <2>3. DOMAIN Q(N) = 1..N /\ \A k \in 1..N : Q(N)[k] = g[k]
    BY DEF Q
  <2> QED
    BY <2>2, <2>3
<1> QED
  BY <1>8 DEF N

-----------------------------------------------------------------------------
(***************************************************************************)
(* What a handler has to show.                                             *)
(***************************************************************************)
LEMMA SetToSeqIs ==
  ASSUME NEW S, IsFiniteSet(S)
  PROVE  /\ SetToSeq(S) \in Seq(S)
         /\ \A k, l \in 1..Len(SetToSeq(S)) : SetToSeq(S)[k] = SetToSeq(S)[l] => k = l
<1> DEFINE n == Cardinality(S)
<1>1. n \in Nat /\ ExistsBijection(1..n, S)
  BY FS_CardinalityType
<1>2. \E f \in [1..n -> S] : IsInjective(f)
  BY <1>1 DEF ExistsBijection, Bijection, Injection, IsInjective
<1>3. SetToSeq(S) \in [1..n -> S] /\ IsInjective(SetToSeq(S))
  BY <1>2 DEF SetToSeq
<1> HIDE DEF n
<1>4. SetToSeq(S) \in Seq(S) /\ Len(SetToSeq(S)) = n
  BY <1>1, <1>3
<1> QED
  BY <1>3, <1>4 DEF IsInjective

\* An element that the rows of handler j give rise to.
FromRows(x, j) ==
  IF j.mode = "NewProduct" THEN x.kind = "tag" /\ x.tags = {j.epc}
  ELSE \E q \in j.rows : /\ x.kind = "product" /\ x.id = q.id /\ x.tags = q.tags /\ x.inv = q.inv
                         /\ j.mode = "Inventory" => q.inv

\* No two rows, so no two elements.
Single(rows) == \A r, q \in rows : r = q

LEMMA ResultIs ==
  ASSUME NEW j \in Jobs, IsFiniteSet(j.rows)
  PROVE  /\ Result(j) \in Seq(Entries)
         /\ \A n \in 1..Len(Result(j)) : FromRows(Result(j)[n], j)
         /\ Single(j.rows) /\ Result(j) # <<>> => Len(Result(j)) = 1
<1>1. /\ j.epc \in Epcs /\ j.rssi \in RSSIs /\ j.time \in 0..MaxTicks /\ j.rows \subseteq Rows
      /\ j.mode \in Modes
  BY DEF Jobs
<1>2. CASE j.mode = "NewProduct"
  <2> DEFINE x == Placeholder(j)
  <2>1. x \in Entries /\ x.kind = "tag" /\ x.tags = {j.epc}
    BY <1>1 DEF Placeholder, Entries
  <2> HIDE DEF x
  <2>2. Result(j) \in {<<x>>, <<>>}
    BY <1>2 DEF Result, x
  <2>3. CASE Result(j) = <<x>>
    <3>1. <<x>> \in Seq(Entries) /\ Len(<<x>>) = 1 /\ <<x>>[1] = x
      BY <2>1
    <3>2. FromRows(x, j)
      BY <1>2, <2>1 DEF FromRows
    <3>3. \A n \in 1..1 : n = 1
      OBVIOUS
    <3> QED
      BY <2>3, <3>1, <3>2, <3>3
  <2>4. CASE Result(j) = <<>>
    BY <2>4, EmptySeq
  <2> QED
    BY <2>2, <2>3, <2>4
<1>3. CASE j.mode # "NewProduct"
  <2> DEFINE R == {q \in j.rows : q.left /\ (j.mode = "Inventory" => q.inv)}
             E(r) == Product(j, r)
             S == {E(r) : r \in R}
  <2>1. Result(j) = SetToSeq(S)
    BY <1>3 DEF Result
  <2>2. ASSUME NEW r \in R
        PROVE  /\ E(r) \in Entries /\ E(r).kind = "product"
               /\ E(r).id = r.id /\ E(r).tags = r.tags /\ E(r).inv = r.inv
    BY <1>1 DEF Product, Entries, Rows
  <2>3. IsFiniteSet(S)
    <3> DEFINE f == [r \in R |-> E(r)]
    <3>1. IsFiniteSet(R)
      BY FS_Subset
    <3>2. f \in Surjection(R, S)
      BY DEF Surjection
    <3> QED
      BY <3>1, <3>2, FS_Surjection
  <2> HIDE DEF E
  <2>4. \A x \in S : x \in Entries /\ FromRows(x, j)
    BY <1>3, <2>2 DEF FromRows
  <2>5. Single(j.rows) => Single(S)
    BY DEF Single
  <2> HIDE DEF S, R
  <2>6. /\ Result(j) \in Seq(S)
        /\ \A k, l \in 1..Len(Result(j)) : Result(j)[k] = Result(j)[l] => k = l
    BY <2>1, <2>3, SetToSeqIs
  <2>7. /\ Len(Result(j)) \in Nat
        /\ \A n \in 1..Len(Result(j)) : Result(j)[n] \in S
    BY <2>6, LenProperties
  <2>8. Result(j) \in Seq(Entries)
    BY <2>4, <2>6, <2>7
  <2>9. ASSUME Single(j.rows), Result(j) # <<>> PROVE Len(Result(j)) = 1
    <3>1. Len(Result(j)) # 0
      BY <2>6, <2>9, EmptySeq
    <3>2. ASSUME Len(Result(j)) # 1 PROVE FALSE
      <4> DEFINE N == Len(Result(j))
      <4>0. N \in Nat /\ N # 0 /\ N # 1
        BY <2>7, <3>1, <3>2
      <4>1. 1 \in 1..N /\ 2 \in 1..N
        <5> HIDE DEF N
        <5> QED
          BY <4>0
      <4>2. Result(j)[1] = Result(j)[2]
        BY <2>5, <2>7, <2>9, <4>1 DEF Single
      <4> QED
        BY <2>6, <4>1, <4>2
    <3> QED
      BY <3>2
  <2> QED
    BY <2>4, <2>7, <2>8, <2>9
<1> QED
  BY <1>2, <1>3

\* The list that is stored holds what was on the list and what is shown.
LEMMA ShownFrom ==
  ASSUME NEW j \in Jobs, IsFiniteSet(j.rows)
  PROVE  /\ Shown(j) \in Seq(Entries)
         /\ \A n \in 1..Len(Shown(j)) :
              \/ \E k \in 1..Len(j.list) : Shown(j)[n] = j.list[k]
              \/ \E k \in 1..Len(Result(j)) : Shown(j)[n] = Result(j)[k]
<1>1. /\ j.list \in Seq(Entries) /\ Len(j.list) \in Nat /\ DOMAIN j.list = 1..Len(j.list)
      /\ Result(j) \in Seq(Entries) /\ Len(Result(j)) \in Nat
  BY ResultIs, LenProperties DEF Jobs
<1>2. CASE Hits(j.list, j.epc) = {}
  <2>1. Shown(j) = j.list \o Result(j)
    BY <1>2 DEF Shown
  <2>2. /\ j.list \o Result(j) \in Seq(Entries)
        /\ Len(j.list \o Result(j)) = Len(j.list) + Len(Result(j))
        /\ \A i \in 1..(Len(j.list) + Len(Result(j))) : (j.list \o Result(j))[i] =
             IF i <= Len(j.list) THEN j.list[i] ELSE Result(j)[i - Len(j.list)]
    BY <1>1, ConcatProperties
  <2>3. ASSUME NEW n \in 1..Len(Shown(j))
        PROVE  \/ \E k \in 1..Len(j.list) : Shown(j)[n] = j.list[k]
               \/ \E k \in 1..Len(Result(j)) : Shown(j)[n] = Result(j)[k]
    <3>1. CASE n <= Len(j.list)
      BY <1>1, <2>1, <2>2, <3>1
    <3>2. CASE ~(n <= Len(j.list))
      <4>1. n - Len(j.list) \in 1..Len(Result(j)) /\ Shown(j)[n] = Result(j)[n - Len(j.list)]
        BY <1>1, <2>1, <2>2, <3>2
      <4> QED
        BY <4>1
    <3> QED
      BY <3>1, <3>2
  <2> QED
    BY <2>1, <2>2, <2>3
<1>3. CASE Hits(j.list, j.epc) # {}
  <2> DEFINE H == Hits(j.list, j.epc)
             seqs == [k \in DOMAIN j.list |-> IF k \in H THEN Result(j) ELSE <<j.list[k]>>]
  <2>1. Shown(j) = FlattenSeq(seqs)
    BY <1>3 DEF Shown
  <2>2. Len(j.list) # 0
    BY <1>1, <1>3 DEF Hits
  <2>3. \A k \in 1..Len(j.list) : j.list[k] \in Entries
    BY <1>1
  <2> HIDE DEF H
  <2>4. Len(seqs) = Len(j.list)
    BY <1>1
  <2>5. ASSUME NEW k \in 1..Len(j.list)
        PROVE  /\ seqs[k] \in Seq(Entries)
               /\ seqs[k] = Result(j) \/ (Len(seqs[k]) = 1 /\ seqs[k][1] = j.list[k])
    BY <1>1, <2>3
  <2> HIDE DEF seqs
  <2>6. /\ FlattenSeq(seqs) \in Seq(Entries)
        /\ \A n \in 1..Len(FlattenSeq(seqs)) : \E k \in 1..Len(seqs), l \in Nat :
             l \in 1..Len(seqs[k]) /\ FlattenSeq(seqs)[n] = seqs[k][l]
    BY <1>1, <2>2, <2>4, <2>5, FlattenIn
  <2>7. ASSUME NEW n \in 1..Len(Shown(j))
        PROVE  \/ \E k \in 1..Len(j.list) : Shown(j)[n] = j.list[k]
               \/ \E k \in 1..Len(Result(j)) : Shown(j)[n] = Result(j)[k]
    <3>1. PICK k \in 1..Len(seqs), l \in Nat :
            l \in 1..Len(seqs[k]) /\ FlattenSeq(seqs)[n] = seqs[k][l]
      BY <2>1, <2>6
    <3>2. CASE seqs[k] = Result(j)
      BY <2>1, <3>1, <3>2
    <3>3. CASE Len(seqs[k]) = 1 /\ seqs[k][1] = j.list[k]
      <4>1. l = 1
        BY <3>1, <3>3
      <4> QED
        BY <2>1, <2>4, <3>1, <3>3, <4>1
    <3> QED
      BY <2>4, <2>5, <3>2, <3>3
  <2> QED
    BY <2>1, <2>6, <2>7
<1> QED
  BY <1>2, <1>3

-----------------------------------------------------------------------------
(***************************************************************************)
(* The invariant of the lists.                                             *)
(***************************************************************************)
\* TypeOK in parts, with what it leaves open.
ConnsTyped ==
  /\ info \in [Conns -> Clients]
  /\ clients \in [Ids -> Conns \cup {None}]
  /\ \A i \in Ids : Registered(i) => info[clients[i]].id = i
  /\ \A c \in Conns, m \in Modes : info[c].id = None => info[c].lists[m] = <<>>
StockTyped == stock \in [Products -> Rows] /\ \A p \in Products : stock[p].id = p
CacheTyped == cache \in [Epcs \X Modes -> (SUBSET Rows) \cup {None}]
JobsTyped  == jobs \in [Slots -> Jobs \cup {None}]
HistTyped  == hist \in [Ids -> [Modes -> History]]
Typed == /\ ConnsTyped /\ StockTyped /\ CacheTyped /\ JobsTyped /\ HistTyped
         /\ now \in 0..MaxTicks /\ retagged \in BOOLEAN

\* Rows that were read for a tag are rows that carry it.
Read(e, rows) == IsFiniteSet(rows) /\ \A r \in rows : e \in r.tags
RowsRead ==
  /\ \A e \in Epcs, m \in Modes : cache[<<e, m>>] # None => Read(e, cache[<<e, m>>])
  /\ \A s \in Slots : Running(s) => Read(jobs[s].epc, jobs[s].rows)

ListFits(list, m) == \A k \in DOMAIN list : Fits(list[k], m)
AllFit ==
  /\ \A c \in Conns, m \in Modes : ListFits(info[c].lists[m], m)
  /\ \A s \in Slots : Running(s) => ListFits(jobs[s].list, jobs[s].mode)

\* A row, or a product on a list, has the tags its product has now.
Same(x)  == x.id \in Products /\ x.tags = stock[x.id].tags
SameOnList(x) == IF x.kind = "product" THEN Same(x) ELSE \E e : x.tags = {e}
Known(rows) == Single(rows) /\ \A r \in rows : Same(r)
RowsKnown ==
  TagsAreStable =>
    /\ \A e \in Epcs, m \in Modes : cache[<<e, m>>] # None => Known(cache[<<e, m>>])
    /\ \A s \in Slots : Running(s) => Known(jobs[s].rows)

\* No two elements of a list are the same product or the same tag.
Once(list) == /\ \A k \in DOMAIN list : SameOnList(list[k])
              /\ \A k, l \in DOMAIN list : SameThing(list[k], list[l]) => k = l
AllOnce ==
  TagsAreStable =>
    /\ \A c \in Conns, m \in Modes : Once(info[c].lists[m])
    /\ \A s \in Slots : Running(s) => Once(jobs[s].list)

\* Unless a list from before came in between, what the list holds, and what
\* its handlers will put on it, was reported since it was emptied.
Of(s, i, m) == Running(s) /\ jobs[s].id = i /\ jobs[s].mode = m
Recent(list, fresh) == \A k \in DOMAIN list : list[k].tags \cap fresh # {}
RecentAt(i, m) ==
  hist[i][m].met # "stale" =>
    /\ Registered(i) => Recent(List(i, m), hist[i][m].fresh)
    /\ \A s \in Slots : Of(s, i, m) =>
         jobs[s].epc \in hist[i][m].fresh /\ Recent(jobs[s].list, hist[i][m].fresh)

\* While handlers come one after the other, the one in flight works on the list
\* as it is, and what was shown is on it.
AloneAt(i, m) ==
  Registered(i) /\ hist[i][m].met = "nothing" =>
    \A s \in Slots : Of(s, i, m) =>
      /\ jobs[s].list = List(i, m)
      /\ \A t \in Slots : Of(t, i, m) => t = s
ListedAt(i, m) ==
  TagsAreStable /\ Registered(i) /\ hist[i][m].met = "nothing" =>
    \A e \in hist[i][m].shown : Hits(List(i, m), e) # {}

At(i, m) == RecentAt(i, m) /\ AloneAt(i, m) /\ ListedAt(i, m)
AllAt    == \A i \in Ids, m \in Modes : At(i, m)

ListInv == Typed /\ RowsRead /\ AllFit /\ RowsKnown /\ AllOnce /\ AllAt
-----------------------------------------------------------------------------
(***************************************************************************)
(* The list a handler stores.                                              *)
(***************************************************************************)
\* The list that is stored is for the handler's mode, and its elements are
\* those of the list before, or carry the tag.
LEMMA ShownFits ==
  ASSUME NEW j \in Jobs, Read(j.epc, j.rows), ListFits(j.list, j.mode)
  PROVE  /\ Shown(j) \in Seq(Entries)
         /\ ListFits(Shown(j), j.mode)
         /\ \A n \in DOMAIN Shown(j) :
              \/ \E k \in DOMAIN j.list : Shown(j)[n] = j.list[k]
              \/ j.epc \in Shown(j)[n].tags
<1>1. /\ j.list \in Seq(Entries) /\ DOMAIN j.list = 1..Len(j.list)
      /\ j.rows \subseteq Rows /\ j.epc \in Epcs
  BY LenProperties DEF Jobs
<1>2. IsFiniteSet(j.rows)
  BY DEF Read
<1>3. ASSUME NEW x, FromRows(x, j)
      PROVE  Fits(x, j.mode) /\ j.epc \in x.tags
  BY <1>1, <1>3 DEF FromRows, Fits, Read, Rows
<1>4. \A n \in 1..Len(Result(j)) : Fits(Result(j)[n], j.mode) /\ j.epc \in Result(j)[n].tags
  BY <1>2, <1>3, ResultIs
<1>5. /\ Shown(j) \in Seq(Entries)
      /\ \A n \in 1..Len(Shown(j)) :
           \/ \E k \in 1..Len(j.list) : Shown(j)[n] = j.list[k]
           \/ \E k \in 1..Len(Result(j)) : Shown(j)[n] = Result(j)[k]
  BY <1>2, ShownFrom
<1>6. DOMAIN Shown(j) = 1..Len(Shown(j))
  BY <1>5, LenProperties
<1>7. ASSUME NEW n \in DOMAIN Shown(j)
      PROVE  /\ Fits(Shown(j)[n], j.mode)
             /\ \/ \E k \in DOMAIN j.list : Shown(j)[n] = j.list[k]
                \/ j.epc \in Shown(j)[n].tags
  <2>1. CASE \E k \in 1..Len(j.list) : Shown(j)[n] = j.list[k]
    BY <1>1, <2>1 DEF ListFits
  <2>2. CASE \E k \in 1..Len(Result(j)) : Shown(j)[n] = Result(j)[k]
    BY <1>4, <2>2
  <2> QED
    BY <1>5, <1>6, <2>1, <2>2
<1> QED
  BY <1>5, <1>7 DEF ListFits

\* If no two products share a tag, the element that is shown is the one of
\* its product, or a new one: nothing else leaves the list.
LEMMA ShownOnce ==
  ASSUME TagsAreStable, NEW j \in Jobs, Read(j.epc, j.rows), Known(j.rows),
         ListFits(j.list, j.mode), Once(j.list), Result(j) # <<>>
  PROVE  /\ Once(Shown(j))
         /\ Hits(Shown(j), j.epc) # {}
         /\ \A e \in Epcs : Hits(j.list, e) # {} => Hits(Shown(j), e) # {}
<1> DEFINE y == Result(j)[1]
           n == Len(j.list)
<1>1. /\ j.list \in Seq(Entries) /\ n \in Nat /\ DOMAIN j.list = 1..n
      /\ j.rows \subseteq Rows /\ j.epc \in Epcs /\ j.mode \in Modes
  BY LenProperties DEF Jobs
<1>2. Result(j) \in Seq(Entries) /\ Len(Result(j)) = 1 /\ FromRows(y, j)
  BY ResultIs DEF Read, Known
<1>3. Result(j) = <<y>> /\ y \in Entries
  BY <1>2
<1> HIDE DEF y, n
<1>4. Fits(y, j.mode) /\ j.epc \in y.tags /\ SameOnList(y)
  <2>1. CASE j.mode = "NewProduct"
    BY <1>1, <1>2, <2>1 DEF FromRows, Fits, SameOnList
  <2>2. CASE j.mode # "NewProduct"
    BY <1>1, <1>2, <2>2 DEF FromRows, Fits, SameOnList, Same, Read, Known, Rows
  <2> QED
    BY <2>1, <2>2
<1>5. ASSUME NEW k \in 1..n
      PROVE  /\ j.list[k] \in Entries /\ SameOnList(j.list[k]) /\ j.list[k].kind = y.kind
             /\ k \in Hits(j.list, j.epc) <=> SameThing(j.list[k], y)
  <2> DEFINE x == j.list[k]
  <2>1. x \in Entries /\ SameOnList(x) /\ Fits(x, j.mode)
    BY <1>1 DEF n, Once, ListFits
  <2>2. k \in Hits(j.list, j.epc) <=> j.epc \in x.tags
    BY <1>1 DEF Hits
  <2> HIDE DEF x
  <2>3. CASE j.mode = "NewProduct"
    <3>1. /\ x.kind = "tag" /\ y.kind = "tag"
          /\ (\E e : x.tags = {e}) /\ (\E e : y.tags = {e})
      BY <1>4, <2>1, <2>3 DEF Fits, SameOnList
    <3> QED
      BY <1>4, <2>1, <2>2, <3>1 DEF x, SameThing
  <2>4. CASE j.mode # "NewProduct"
    <3>1. /\ x.kind = "product" /\ y.kind = "product"
          /\ x.id \in Products /\ y.id \in Products
          /\ x.tags = stock[x.id].tags /\ y.tags = stock[y.id].tags
      BY <1>4, <2>1, <2>4 DEF Fits, SameOnList, Same
    <3>2. x.id # y.id => stock[x.id].tags \cap stock[y.id].tags = {}
      BY <3>1 DEF TagsAreStable, Disjoint
    <3> QED
      BY <1>4, <2>1, <2>2, <3>1, <3>2 DEF x, SameThing
  <2> QED
    BY <2>3, <2>4
<1>6. CASE Hits(j.list, j.epc) = {}
  <2>1. Shown(j) = j.list \o <<y>>
    BY <1>3, <1>6 DEF Shown
  <2>2. /\ Shown(j) \in Seq(Entries) /\ Len(Shown(j)) = n + 1
        /\ \A k \in 1..n : Shown(j)[k] = j.list[k]
        /\ Shown(j)[n + 1] = y
    <3>1. <<y>> \in Seq(Entries) /\ Len(<<y>>) = 1 /\ <<y>>[1] = y
      BY <1>3
    <3>2. /\ j.list \o <<y>> \in Seq(Entries) /\ Len(j.list \o <<y>>) = n + 1
          /\ \A k \in 1..(n + 1) :
               (j.list \o <<y>>)[k] = IF k <= n THEN j.list[k] ELSE <<y>>[k - n]
      BY <1>1, <3>1, ConcatProperties DEF n
    <3>3. 1..n \subseteq 1..(n + 1) /\ n + 1 \in 1..(n + 1) /\ ~(n + 1 <= n) /\ (n + 1) - n = 1
      BY <1>1
    <3>4. \A k \in 1..n : Shown(j)[k] = j.list[k]
      BY <1>1, <2>1, <3>2, <3>3
    <3>5. Shown(j)[n + 1] = <<y>>[(n + 1) - n]
      BY <2>1, <3>2, <3>3
    <3>6. Shown(j)[n + 1] = y
      BY <3>1, <3>3, <3>5
    <3> QED
      BY <2>1, <3>2, <3>4, <3>6
  <2>3. DOMAIN Shown(j) = 1..(n + 1)
    BY <2>2, LenProperties
  <2>4. \A k \in 1..n : ~SameThing(j.list[k], y) /\ ~SameThing(y, j.list[k])
    BY <1>5, <1>6 DEF SameThing
  <2>5. \A k, l \in 1..n : SameThing(j.list[k], j.list[l]) => k = l
    BY <1>1 DEF Once
  <2>6. \A k \in 1..(n + 1) : k \in 1..n \/ k = n + 1
    BY <1>1
  <2>7. 1..n \subseteq 1..(n + 1) /\ n + 1 \in 1..(n + 1)
    BY <1>1
  <2>8. \A k \in 1..(n + 1) : SameOnList(Shown(j)[k])
    BY <1>4, <1>5, <2>2, <2>6
  <2>9. ASSUME NEW k \in 1..(n + 1), NEW l \in 1..(n + 1), SameThing(Shown(j)[k], Shown(j)[l])
        PROVE  k = l
    BY <2>2, <2>4, <2>5, <2>6, <2>9
  <2>10. Once(Shown(j))
    BY <2>3, <2>8, <2>9 DEF Once
  <2>11. n + 1 \in Hits(Shown(j), j.epc)
    BY <1>4, <2>2, <2>3, <2>7 DEF Hits
  <2>12. \A e \in Epcs : Hits(j.list, e) \subseteq Hits(Shown(j), e)
    BY <1>1, <2>2, <2>3, <2>7 DEF Hits
  <2> QED
    BY <2>10, <2>11, <2>12
<1>7. CASE Hits(j.list, j.epc) # {}
  <2> DEFINE H == Hits(j.list, j.epc)
             g == [k \in 1..n |-> IF k \in H THEN y ELSE j.list[k]]
             seqs == [k \in DOMAIN j.list |-> IF k \in H THEN Result(j) ELSE <<j.list[k]>>]
  <2>1. Shown(j) = FlattenSeq(seqs)
    BY <1>7 DEF Shown
  <2>2. H \subseteq 1..n /\ H # {}
    BY <1>1, <1>7 DEF Hits
  <2> HIDE DEF H
  <2>3. n # 0
    <3>1. PICK k : k \in H
      BY <2>2
    <3> QED
      BY <1>1, <2>2, <3>1
  <2>4. Len(seqs) = n
    BY <1>1
  <2>5. Ones(seqs, g, Entries)
    BY <1>1, <1>3, <1>5, <2>4 DEF Ones
  <2> HIDE DEF seqs, g
  <2>6. Len(seqs) \in Nat /\ Len(seqs) # 0
    BY <1>1, <2>3, <2>4
  <2>7. DOMAIN Shown(j) = 1..n /\ \A k \in 1..n : Shown(j)[k] = g[k]
    <3>1. DOMAIN FlattenSeq(seqs) = 1..Len(seqs)
      BY <2>5, <2>6, FlattenOnes
    <3>2. ASSUME NEW k \in 1..Len(seqs)
          PROVE  FlattenSeq(seqs)[k] = g[k]
      BY <2>5, <2>6, FlattenOnes
    <3> QED
      BY <2>1, <2>4, <3>1, <3>2
  <2> USE DEF g
  <2>8. ASSUME NEW k \in 1..n
        PROVE  /\ SameOnList(Shown(j)[k])
               /\ SameThing(j.list[k], Shown(j)[k]) /\ Shown(j)[k].tags = j.list[k].tags
    <3>1. CASE k \in H
      <4>1. Shown(j)[k] = y /\ SameThing(j.list[k], y) /\ SameOnList(j.list[k])
        BY <1>5, <2>7, <3>1 DEF H
      <4> QED
        BY <1>4, <4>1 DEF SameThing, SameOnList, Same
    <3>2. CASE k \notin H
      BY <1>5, <2>7, <3>2 DEF SameThing
    <3> QED
      BY <3>1, <3>2
  <2> HIDE DEF g
  <2>9. Once(Shown(j))
    BY <1>1, <2>7, <2>8 DEF Once, SameThing
  <2>10. \A e : Hits(Shown(j), e) = Hits(j.list, e)
    BY <1>1, <2>7, <2>8 DEF Hits
  <2> QED
    BY <1>7, <2>9, <2>10
<1> QED
  BY <1>6, <1>7

-----------------------------------------------------------------------------
(***************************************************************************)
(* What a step does to lists, rows and histories.                          *)
(***************************************************************************)
\* Lists are kept or emptied; a handler keeps its list, or starts with the one
\* of a connection.
ListsFrom ==
  /\ \A c \in Conns, m \in Modes : info'[c].lists[m] = info[c].lists[m] \/ info'[c].lists[m] = <<>>
  /\ \A s \in Slots : jobs'[s] # None =>
       \/ Running(s) /\ jobs'[s].mode = jobs[s].mode /\ jobs'[s].list = jobs[s].list
       \/ \E c \in Conns : jobs'[s].list = info[c].lists[jobs'[s].mode]

\* Rows come from the cache, the stock, or a handler of the same tag.
RowsFrom ==
  /\ \A e \in Epcs, m \in Modes : cache'[<<e, m>>] # None =>
       \/ cache'[<<e, m>>] = cache[<<e, m>>]
       \/ \E s \in Slots : Running(s) /\ jobs[s].epc = e /\ cache'[<<e, m>>] = jobs[s].rows
  /\ \A s \in Slots : jobs'[s] # None =>
       \/ jobs'[s].rows = {}
       \/ /\ Running(s) /\ jobs'[s].epc = jobs[s].epc
          /\ \/ jobs'[s].rows = jobs[s].rows
             \/ jobs'[s].rows = Carriers(jobs[s].epc)
             \/ \E m \in Modes : /\ cache[<<jobs[s].epc, m>>] # None
                                 /\ jobs'[s].rows = cache[<<jobs[s].epc, m>>]

TagsKept ==
  TagsAreStable' => TagsAreStable /\ \A p \in Products : stock'[p].tags = stock[p].tags

\* Handlers only end; a list stays with its history, or is emptied with it.
Quiet ==
  /\ \A s \in Slots : jobs'[s] # None =>
       /\ Running(s) /\ jobs'[s].id = jobs[s].id /\ jobs'[s].epc = jobs[s].epc
       /\ jobs'[s].mode = jobs[s].mode /\ jobs'[s].list = jobs[s].list
  /\ \A i \in Ids, m \in Modes :
       \/ /\ hist'[i][m] = hist[i][m]
          /\ clients'[i] # None =>
               /\ clients'[i] = clients[i]
               /\ info'[clients'[i]].lists[m] = info[clients'[i]].lists[m]
       \/ /\ hist'[i][m] = Emptied(i, m)
          /\ clients'[i] # None => info'[clients'[i]].lists[m] = <<>>

LEMMA CarriersRead ==
  ASSUME StockTyped, NEW e
  PROVE  /\ Carriers(e) \subseteq Rows /\ Read(e, Carriers(e))
         /\ TagsAreStable => Known(Carriers(e))
<1> DEFINE Q == {q \in Products : e \in stock[q].tags}
           f == [q \in Q |-> stock[q]]
<1>1. IsFiniteSet(Q)
  BY FS_Subset, ProductsAssumption
<1>2. f \in Surjection(Q, Carriers(e))
  BY DEF Surjection, Carriers
<1>3. IsFiniteSet(Carriers(e))
  BY <1>1, <1>2, FS_Surjection
<1>4. \A r \in Carriers(e) : \E q \in Products : r = stock[q] /\ e \in r.tags /\ r.id = q
  BY DEF Carriers, StockTyped
<1>5. TagsAreStable => Known(Carriers(e))
  BY <1>4 DEF TagsAreStable, Disjoint, Known, Single, Same
<1> QED
  BY <1>3, <1>4, <1>5 DEF Read, StockTyped

\* Same, Known and Once, after the step.
SameNext(x)     == x.id \in Products /\ x.tags = stock'[x.id].tags
OnListNext(x)   == IF x.kind = "product" THEN SameNext(x) ELSE \E e : x.tags = {e}
KnownNext(rows) == Single(rows) /\ \A r \in rows : SameNext(r)
OnceNext(list)  == /\ \A k \in DOMAIN list : OnListNext(list[k])
                   /\ \A k, l \in DOMAIN list : SameThing(list[k], list[l]) => k = l

LEMMA SameStays ==
  ASSUME TagsKept, TagsAreStable'
  PROVE  /\ TagsAreStable
         /\ \A rows : Known(rows) => KnownNext(rows)
         /\ \A list : Once(list) => OnceNext(list)
<1>1. TagsAreStable /\ \A x : Same(x) => SameNext(x)
  BY DEF TagsKept, Same, SameNext
<1>2. \A x : SameOnList(x) => OnListNext(x)
  BY <1>1 DEF SameOnList, OnListNext
<1> QED
  BY <1>1, <1>2 DEF Known, KnownNext, Once, OnceNext

LEMMA EmptyList ==
  /\ \A m : ListFits(<<>>, m)
  /\ OnceNext(<<>>)
  /\ \A fresh : Recent(<<>>, fresh)
<1>1. DOMAIN <<>> = {}
  OBVIOUS
<1> QED
  BY <1>1 DEF ListFits, OnceNext, Recent

\* The rows that are cached or read stay rows of their tag.
LEMMA RowsStep ==
  ASSUME ListInv, RowsFrom, TagsKept,
         cache' \in [Epcs \X Modes -> (SUBSET Rows) \cup {None}], JobsTyped'
  PROVE  RowsRead' /\ RowsKnown'
<1> DEFINE Good(e, rows) == Read(e, rows) /\ (TagsAreStable' => KnownNext(rows))
<1>1. \A rows : TagsAreStable' /\ (TagsAreStable => Known(rows)) => KnownNext(rows)
  BY SameStays
<1>2. ASSUME NEW e \in Epcs, NEW m \in Modes, cache[<<e, m>>] # None
      PROVE  Good(e, cache[<<e, m>>])
  BY <1>1, <1>2 DEF ListInv, RowsRead, RowsKnown
<1>3. ASSUME NEW s \in Slots, Running(s)
      PROVE  jobs[s].epc \in Epcs /\ Good(jobs[s].epc, jobs[s].rows)
  <2>1. jobs[s].epc \in Epcs
    BY <1>3 DEF ListInv, Typed, JobsTyped, Running, Jobs
  <2> QED
    BY <1>1, <1>3, <2>1 DEF ListInv, RowsRead, RowsKnown
<1>4. ASSUME NEW e PROVE Good(e, Carriers(e))
  BY <1>1, CarriersRead DEF ListInv, Typed
<1>5. ASSUME NEW e PROVE Good(e, {})
  BY FS_EmptySet DEF Read, KnownNext, Single
<1> HIDE DEF Good
<1>6. ASSUME NEW e \in Epcs, NEW m \in Modes, cache'[<<e, m>>] # None
      PROVE  Good(e, cache'[<<e, m>>])
  BY <1>2, <1>3, <1>6 DEF RowsFrom
<1>7. ASSUME NEW s \in Slots, jobs'[s] # None
      PROVE  Good(jobs'[s].epc, jobs'[s].rows)
  <2>1. CASE jobs'[s].rows = {}
    BY <1>5, <2>1
  <2>2. CASE /\ Running(s) /\ jobs'[s].epc = jobs[s].epc
             /\ \/ jobs'[s].rows = jobs[s].rows
                \/ jobs'[s].rows = Carriers(jobs[s].epc)
                \/ \E m \in Modes : /\ cache[<<jobs[s].epc, m>>] # None
                                    /\ jobs'[s].rows = cache[<<jobs[s].epc, m>>]
    BY <1>2, <1>3, <1>4, <2>2
  <2> QED
    BY <1>7, <2>1, <2>2 DEF RowsFrom
<1> USE DEF Good
<1>8. RowsRead'
  BY <1>6, <1>7 DEF RowsRead, Read, Running
<1>9. RowsKnown'
  <2> SUFFICES ASSUME TagsAreStable' PROVE RowsKnown'
    BY DEF RowsKnown
  <2>1. \A e \in Epcs, m \in Modes : cache'[<<e, m>>] # None => KnownNext(cache'[<<e, m>>])
    BY <1>6
  <2>2. \A s \in Slots : jobs'[s] # None => KnownNext(jobs'[s].rows)
    BY <1>7
  <2> QED
    BY <2>1, <2>2 DEF RowsKnown, Known, KnownNext, Same, SameNext, Single, Running
<1> QED
  BY <1>8, <1>9

\* Lists that are kept, emptied or taken over keep fitting.
LEMMA ListsStep ==
  ASSUME ListInv, ListsFrom, TagsKept, JobsTyped'
  PROVE  AllFit' /\ AllOnce'
<1> DEFINE Good(list, m) == ListFits(list, m) /\ (TagsAreStable' => OnceNext(list))
<1>1. \A list : TagsAreStable' /\ (TagsAreStable => Once(list)) => OnceNext(list)
  BY SameStays
<1>2. ASSUME NEW c \in Conns, NEW m \in Modes
      PROVE  Good(info[c].lists[m], m)
  BY <1>1 DEF ListInv, AllFit, AllOnce
<1>3. ASSUME NEW s \in Slots, Running(s)
      PROVE  Good(jobs[s].list, jobs[s].mode)
  BY <1>1, <1>3 DEF ListInv, AllFit, AllOnce
<1>4. \A m : Good(<<>>, m)
  BY EmptyList
<1> HIDE DEF Good
<1>5. ASSUME NEW c \in Conns, NEW m \in Modes
      PROVE  Good(info'[c].lists[m], m)
  BY <1>2, <1>4 DEF ListsFrom
<1>6. ASSUME NEW s \in Slots, jobs'[s] # None
      PROVE  Good(jobs'[s].list, jobs'[s].mode)
  <2>1. jobs'[s].mode \in Modes
    BY <1>6 DEF JobsTyped, Jobs
  <2> QED
    BY <1>2, <1>3, <1>6, <2>1 DEF ListsFrom
<1> USE DEF Good
<1>7. AllFit'
  BY <1>5, <1>6 DEF AllFit, ListFits, Running, Fits
<1>8. AllOnce'
  <2> SUFFICES ASSUME TagsAreStable' PROVE AllOnce'
    BY DEF AllOnce
  <2>1. \A c \in Conns, m \in Modes : OnceNext(info'[c].lists[m])
    BY <1>5
  <2>2. \A s \in Slots : jobs'[s] # None => OnceNext(jobs'[s].list)
    BY <1>6
  <2> QED
    BY <2>1, <2>2 DEF AllOnce, Once, OnceNext, SameOnList, OnListNext, Same, SameNext, Running
<1> QED
  BY <1>7, <1>8

\* While handlers only end and lists go with their histories, nothing is said
\* of a list that was not said before.
LEMMA QuietStep ==
  ASSUME ListInv, Quiet, TagsKept
  PROVE  AllAt'
<1> SUFFICES ASSUME NEW i \in Ids, NEW m \in Modes PROVE At(i, m)'
  BY DEF AllAt
<1>1. \A s \in Slots : Of(s, i, m)' =>
        /\ Of(s, i, m) /\ jobs'[s].epc = jobs[s].epc /\ jobs'[s].list = jobs[s].list
  BY DEF Quiet, Of, Running
<1>2. At(i, m)
  BY DEF ListInv, AllAt
<1>3. CASE /\ hist'[i][m] = hist[i][m]
           /\ clients'[i] # None =>
                /\ clients'[i] = clients[i]
                /\ info'[clients'[i]].lists[m] = info[clients'[i]].lists[m]
  <2>1. Registered(i)' => Registered(i) /\ List(i, m)' = List(i, m)
    BY <1>3 DEF Registered, List
  <2> HIDE DEF Of
  <2>2. RecentAt(i, m)'
    BY <1>1, <1>2, <1>3, <2>1 DEF At, RecentAt, Recent
  <2>3. AloneAt(i, m)'
    BY <1>1, <1>2, <1>3, <2>1 DEF At, AloneAt
  <2>4. ListedAt(i, m)'
    BY <1>2, <1>3, <2>1 DEF At, ListedAt, TagsKept, Hits
  <2> QED
    BY <2>2, <2>3, <2>4 DEF At
<1>4. CASE /\ hist'[i][m] = Emptied(i, m)
           /\ clients'[i] # None => info'[clients'[i]].lists[m] = <<>>
  <2>1. Registered(i)' => List(i, m)' = <<>>
    BY <1>4 DEF Registered, List
  <2>2. hist'[i][m].shown = {} /\ (hist'[i][m].met # "stale" => ~InFlight(i, m))
    BY <1>4 DEF Emptied
  <2>3. hist'[i][m].met # "stale" => \A s \in Slots : ~Of(s, i, m)'
    BY <1>1, <2>2 DEF InFlight, Of
  <2> HIDE DEF Of
  <2>4. RecentAt(i, m)'
    <3>1. DOMAIN <<>> = {}
      OBVIOUS
    <3> QED
      BY <2>1, <2>3, <3>1 DEF RecentAt, Recent
  <2>5. AloneAt(i, m)'
    BY <2>3, <1>4 DEF AloneAt, Emptied
  <2>6. ListedAt(i, m)'
    BY <2>2 DEF ListedAt
  <2> QED
    BY <2>4, <2>5, <2>6 DEF At
<1> QED
  BY <1>3, <1>4 DEF Quiet

-----------------------------------------------------------------------------
LEMMA EmptiedTyped == \A i, m : Emptied(i, m) \in History
BY DEF Emptied, History

LEMMA NewClientTyped ==
  NewClient \in Clients /\ NewClient.id = None /\ \A m \in Modes : NewClient.lists[m] = <<>>
<1>1. [m \in Modes |-> <<>>] \in [Modes -> Seq(Entries)]
  BY EmptySeq
<1> QED
  BY <1>1 DEF NewClient, Clients, Modes

LEMMA ListInvInit == Init => ListInv
<1> SUFFICES ASSUME Init PROVE ListInv
  OBVIOUS
<1>1. \A s \in Slots : ~Running(s)
  BY DEF Init, Running
<1>2. ConnsTyped
  BY NewClientTyped DEF Init, ConnsTyped, Registered
<1>3. StockTyped
  BY RowsAssumption DEF Init, StockTyped
<1>4. CacheTyped /\ JobsTyped
  BY DEF Init, CacheTyped, JobsTyped
<1>5. HistTyped
  <2> DEFINE h == [fresh |-> {}, shown |-> {}, met |-> "nothing"]
  <2>1. h \in History
    BY DEF History
  <2>2. hist = [i \in Ids |-> [m \in Modes |-> h]]
    BY DEF Init
  <2> HIDE DEF h
  <2> QED
    BY <2>1, <2>2 DEF HistTyped
<1>6. now \in 0..MaxTicks /\ retagged \in BOOLEAN
  <2>1. now = 0 /\ retagged = FALSE
    BY DEF Init
  <2>2. now \in 0..MaxTicks
    BY <2>1, TicksAssumption
  <2> QED
    BY <2>1, <2>2
<1>7. RowsRead /\ RowsKnown
  <2>1. \A e \in Epcs, m \in Modes : cache[<<e, m>>] = None
    BY DEF Init
  <2> QED
    BY <1>1, <2>1 DEF RowsRead, RowsKnown
<1>8. ASSUME NEW c \in Conns, NEW m \in Modes
      PROVE  ListFits(info[c].lists[m], m) /\ Once(info[c].lists[m])
  <2>1. info[c].lists[m] = <<>> /\ DOMAIN <<>> = {}
    BY NewClientTyped DEF Init
  <2> QED
    BY <2>1 DEF ListFits, Once
<1>9. AllFit /\ AllOnce
  BY <1>1, <1>8 DEF AllFit, AllOnce
<1>10. AllAt
  <2> SUFFICES ASSUME NEW i \in Ids, NEW m \in Modes PROVE At(i, m)
    BY DEF AllAt
  <2>1. ~Registered(i)
    BY DEF Init, Registered
  <2> QED
    BY <1>1, <2>1 DEF At, RecentAt, AloneAt, ListedAt, Of
<1> QED
  BY <1>2, <1>3, <1>4, <1>5, <1>6, <1>7, <1>9, <1>10 DEF ListInv, Typed

\* What a step has to show of itself.
LEMMA FromParts ==
  ASSUME ListInv, Typed', ListsFrom, RowsFrom, TagsKept, AllAt'
  PROVE  ListInv'
<1>1. CacheTyped' /\ JobsTyped'
  BY DEF Typed
<1> QED
  BY <1>1, RowsStep, ListsStep DEF ListInv, CacheTyped

LEMMA FromQuiet ==
  ASSUME ListInv, Typed', ListsFrom, RowsFrom, TagsKept, Quiet
  PROVE  ListInv'
BY FromParts, QuietStep

\* The handlers and the cache are left alone, or the stock.
LEMMA HandlersAlone ==
  ASSUME ListInv, UNCHANGED <<jobs, cache>>
  PROVE  /\ RowsFrom
         /\ (\A c \in Conns, m \in Modes :
               info'[c].lists[m] = info[c].lists[m] \/ info'[c].lists[m] = <<>>) => ListsFrom
         /\ \A s \in Slots : jobs'[s] # None =>
              /\ Running(s) /\ jobs'[s].id = jobs[s].id /\ jobs'[s].epc = jobs[s].epc
              /\ jobs'[s].mode = jobs[s].mode /\ jobs'[s].list = jobs[s].list
BY DEF RowsFrom, ListsFrom, Running

LEMMA StockAlone ==
  ASSUME UNCHANGED <<stock, retagged>>
  PROVE  TagsKept
BY DEF TagsKept, TagsAreStable, Disjoint

\* The connections of the modules.
LEMMA ListRegister ==
  ASSUME ListInv, NEW c \in Conns, NEW i \in Ids, Register(c, i)
  PROVE  ListInv'
<1> USE DEF Register
<1>1. ConnsTyped
  BY DEF ListInv, Typed
<1>2. /\ info' \in [Conns -> Clients] /\ info'[c].id = i
      /\ \A d \in Conns : d # c => info'[d] = info[d]
      /\ \A d \in Conns : info'[d].lists = info[d].lists
  BY <1>1 DEF ConnsTyped, Clients
<1>3. clients' \in [Ids -> Conns \cup {None}] /\ clients'[i] = c
      /\ \A k \in Ids : k # i => clients'[k] = clients[k]
  BY <1>1 DEF ConnsTyped
<1>4. ASSUME NEW k \in Ids, clients'[k] # None
      PROVE  info'[clients'[k]].id = k
  <2>1. k # i => clients[k] \in Conns /\ info[clients[k]].id = k /\ clients[k] # c
    BY <1>1, <1>3, <1>4, NamesAssumption DEF ConnsTyped, Registered
  <2> QED
    BY <1>2, <1>3, <2>1
<1>5. ConnsTyped'
  BY <1>1, <1>2, <1>3, <1>4, NamesAssumption DEF ConnsTyped, Registered
<1>6. HistTyped'
  BY EmptiedTyped DEF ListInv, Typed, HistTyped
<1>7. Typed'
  BY <1>5, <1>6 DEF ListInv, Typed, StockTyped, CacheTyped, JobsTyped
<1>8. \A k \in Ids, m \in Modes :
        \/ k # i /\ hist'[k][m] = hist[k][m]
        \/ k = i /\ hist'[k][m] = Emptied(k, m)
  BY DEF ListInv, Typed, HistTyped
<1>9. \A m \in Modes : info'[c].lists[m] = <<>>
  BY <1>1, <1>2 DEF ConnsTyped
<1>10. ASSUME NEW k \in Ids, NEW m \in Modes
       PROVE  \/ /\ hist'[k][m] = hist[k][m]
                 /\ clients'[k] # None =>
                      /\ clients'[k] = clients[k]
                      /\ info'[clients'[k]].lists[m] = info[clients'[k]].lists[m]
              \/ /\ hist'[k][m] = Emptied(k, m)
                 /\ clients'[k] # None => info'[clients'[k]].lists[m] = <<>>
  BY <1>2, <1>3, <1>8, <1>9
<1>11. ListsFrom /\ RowsFrom /\ Quiet
  BY <1>2, <1>10, HandlersAlone DEF Quiet
<1>12. TagsKept
  BY StockAlone
<1> QED
  BY <1>7, <1>11, <1>12, FromQuiet

LEMMA ListClose ==
  ASSUME ListInv, NEW c \in Conns, NEW swept \in BOOLEAN, Close(c, swept)
  PROVE  ListInv'
<1> USE DEF Close
<1>1. ConnsTyped
  BY DEF ListInv, Typed
<1>2. /\ info' \in [Conns -> Clients]
      /\ \A d \in Conns : d # c => info'[d] = info[d]
      /\ info'[c] = info[c] \/ info'[c] = NewClient
  BY <1>1, NewClientTyped DEF ConnsTyped
<1>3. /\ clients' \in [Ids -> Conns \cup {None}]
      /\ \A k \in Ids : clients'[k] # None => clients'[k] = clients[k] /\ clients[k] # c
  BY <1>1 DEF ConnsTyped
<1>4. \A k \in Ids : clients'[k] # None => clients'[k] \in Conns /\ info'[clients'[k]] = info[clients'[k]]
  BY <1>1, <1>2, <1>3 DEF ConnsTyped
<1>5. ConnsTyped'
  BY <1>1, <1>2, <1>3, <1>4, NewClientTyped DEF ConnsTyped, Registered
<1>6. Typed'
  BY <1>5 DEF ListInv, Typed, StockTyped, CacheTyped, JobsTyped, HistTyped
<1>7. ListsFrom /\ RowsFrom /\ Quiet
  <2>1. \A d \in Conns, m \in Modes :
          info'[d].lists[m] = info[d].lists[m] \/ info'[d].lists[m] = <<>>
    BY <1>2, NewClientTyped
  <2> QED
    BY <1>3, <1>4, <2>1, HandlersAlone DEF Quiet
<1>8. TagsKept
  BY StockAlone
<1> QED
  BY <1>6, <1>7, <1>8, FromQuiet

LEMMA ListSetMode ==
  ASSUME ListInv, NEW i \in Ids, NEW m \in Modes, SetMode(i, m)
  PROVE  ListInv'
<1> USE DEF SetMode
<1>1. ConnsTyped
  BY DEF ListInv, Typed
<1>2. clients[i] \in Conns
  BY <1>1 DEF ConnsTyped
<1>3. /\ info' \in [Conns -> Clients]
      /\ \A d \in Conns : info'[d].id = info[d].id /\ info'[d].lists = info[d].lists
  BY <1>1, <1>2 DEF ConnsTyped, Clients
<1>4. ConnsTyped'
  BY <1>1, <1>3 DEF ConnsTyped, Registered
<1>5. Typed'
  BY <1>4 DEF ListInv, Typed, StockTyped, CacheTyped, JobsTyped, HistTyped
<1>6. \A k \in Ids : clients[k] # None => clients[k] \in Conns
  BY <1>1 DEF ConnsTyped
<1>7. ListsFrom /\ RowsFrom /\ Quiet
  BY <1>3, <1>6, HandlersAlone DEF Quiet
<1>8. TagsKept
  BY StockAlone
<1> QED
  BY <1>5, <1>7, <1>8, FromQuiet

LEMMA ListClear ==
  ASSUME ListInv, NEW m \in Modes, ClearScanHistory(m)
  PROVE  ListInv'
<1> USE DEF ClearScanHistory
<1>1. ConnsTyped /\ HistTyped
  BY DEF ListInv, Typed
<1> DEFINE Of2(d) == \E i \in Ids : clients[i] = d
<1>2. ASSUME NEW d \in Conns
      PROVE  /\ info'[d] \in Clients /\ info'[d].id = info[d].id
             /\ \A n \in Modes : n # m \/ ~Of2(d) => info'[d].lists[n] = info[d].lists[n]
             /\ Of2(d) => info'[d].lists[m] = <<>>
  <2>1. info[d] \in Clients
    BY <1>1 DEF ConnsTyped
  <2>2. info'[d] = IF Of2(d) THEN [info[d] EXCEPT !.lists[m] = <<>>] ELSE info[d]
    OBVIOUS
  <2>3. [info[d].lists EXCEPT ![m] = <<>>] \in [Modes -> Seq(Entries)]
    BY <2>1, EmptySeq DEF Clients
  <2> HIDE DEF Of2
  <2> QED
    BY <2>1, <2>2, <2>3 DEF Clients
<1>3. info' \in [Conns -> Clients]
  BY <1>2
<1>4. ConnsTyped'
  BY <1>1, <1>2, <1>3 DEF ConnsTyped, Registered
<1>5. ASSUME NEW i \in Ids
      PROVE  /\ clients[i] = None => hist'[i] = hist[i]
             /\ clients[i] # None => hist'[i] = [hist[i] EXCEPT ![m] = Emptied(i, m)]
  OBVIOUS
<1>6. HistTyped'
  <2>1. \A i \in Ids : hist'[i] \in [Modes -> History]
    BY <1>1, <1>5, EmptiedTyped DEF HistTyped
  <2> QED
    BY <2>1 DEF HistTyped
<1>7. Typed'
  BY <1>4, <1>6 DEF ListInv, Typed, StockTyped, CacheTyped, JobsTyped
<1>8. ASSUME NEW k \in Ids, NEW n \in Modes
      PROVE  \/ /\ hist'[k][n] = hist[k][n]
                /\ clients'[k] # None =>
                     /\ clients'[k] = clients[k]
                     /\ info'[clients'[k]].lists[n] = info[clients'[k]].lists[n]
             \/ /\ hist'[k][n] = Emptied(k, n)
                /\ clients'[k] # None => info'[clients'[k]].lists[n] = <<>>
  <2>1. CASE clients[k] = None
    BY <1>5, <2>1
  <2>2. CASE clients[k] # None /\ n = m
    <3>1. clients[k] \in Conns /\ Of2(clients[k])
      BY <1>1, <2>2 DEF ConnsTyped
    <3>2. hist'[k][n] = Emptied(k, n)
      BY <1>1, <1>5, <2>2 DEF HistTyped
    <3> QED
      BY <1>2, <2>2, <3>1, <3>2
  <2>3. CASE clients[k] # None /\ n # m
    <3>1. clients[k] \in Conns
      BY <1>1, <2>3 DEF ConnsTyped
    <3>2. hist'[k][n] = hist[k][n]
      BY <1>1, <1>5, <2>3 DEF HistTyped
    <3> QED
      BY <1>2, <2>3, <3>1, <3>2
  <2> QED
    BY <2>1, <2>2, <2>3
<1>9. \A d \in Conns, n \in Modes :
        info'[d].lists[n] = info[d].lists[n] \/ info'[d].lists[n] = <<>>
  BY <1>2
<1>10. ListsFrom /\ RowsFrom /\ Quiet
  BY <1>8, <1>9, HandlersAlone DEF Quiet
<1>11. TagsKept
  BY StockAlone
<1> QED
  BY <1>7, <1>10, <1>11, FromQuiet

-----------------------------------------------------------------------------
\* The connections and the histories are left alone.
LEMMA ConnsAlone ==
  ASSUME ListInv, UNCHANGED <<info, clients, hist>>
  PROVE  /\ ConnsTyped' /\ HistTyped'
         /\ \A i \in Ids, m \in Modes :
              /\ hist'[i][m] = hist[i][m]
              /\ clients'[i] # None =>
                   /\ clients'[i] = clients[i]
                   /\ info'[clients'[i]].lists[m] = info[clients'[i]].lists[m]
BY DEF ListInv, Typed, ConnsTyped, HistTyped, Registered

\* The stock.
LEMMA ListChange ==
  ASSUME ListInv, NEW p \in Products, NEW row \in StockRows, Change(p, row)
  PROVE  ListInv'
<1> USE DEF Change
<1>1. StockTyped /\ JobsTyped
  BY DEF ListInv, Typed
<1>2. StockTyped' /\ retagged' \in BOOLEAN
  BY <1>1, RowsAssumption DEF StockTyped, ListInv, Typed
<1> DEFINE After(s) == [jobs[s] EXCEPT !.free = @ \/ Free(jobs[s].epc, stock')]
<1>3. ASSUME NEW s \in Slots, Running(s)
      PROVE  /\ After(s) \in Jobs /\ After(s).id = jobs[s].id /\ After(s).epc = jobs[s].epc
             /\ After(s).mode = jobs[s].mode /\ After(s).list = jobs[s].list
             /\ After(s).rows = jobs[s].rows
  <2>1. jobs[s] \in Jobs
    BY <1>1, <1>3 DEF JobsTyped, Running
  <2>2. (jobs[s].free \/ Free(jobs[s].epc, stock')) \in BOOLEAN
    BY DEF Free
  <2> HIDE DEF Free
  <2> QED
    BY <2>1, <2>2 DEF Jobs
<1>4. jobs' = [s \in Slots |-> IF Running(s) THEN After(s) ELSE None]
  OBVIOUS
<1> HIDE DEF After
<1>5. JobsTyped'
  BY <1>3, <1>4 DEF JobsTyped
<1>6. ASSUME NEW s \in Slots, jobs'[s] # None
      PROVE  /\ Running(s) /\ jobs'[s].id = jobs[s].id /\ jobs'[s].epc = jobs[s].epc
             /\ jobs'[s].mode = jobs[s].mode /\ jobs'[s].list = jobs[s].list
             /\ jobs'[s].rows = jobs[s].rows
  BY <1>3, <1>4, <1>6
<1>7. Typed'
  BY <1>2, <1>5, ConnsAlone DEF ListInv, Typed, CacheTyped
<1>8. ListsFrom /\ RowsFrom
  BY <1>6 DEF ListsFrom, RowsFrom
<1>9. Quiet
  BY <1>6, ConnsAlone DEF Quiet
<1>10. TagsKept
  <2>1. ~retagged' => ~retagged /\ \A q \in Products : stock'[q].tags = stock[q].tags
    BY <1>1 DEF StockTyped
  <2> QED
    BY <2>1 DEF TagsKept, TagsAreStable, Disjoint
<1> QED
  BY <1>7, <1>8, <1>9, <1>10, FromQuiet

\* The clock and the cache's own clock.
LEMMA ListTime ==
  ASSUME ListInv, Tick \/ \E e \in Epcs, m \in Modes : Expire(e, m)
  PROVE  ListInv'
<1>1. UNCHANGED <<info, clients, hist, stock, retagged, jobs>>
  BY DEF Tick, Expire
<1>2. now' \in 0..MaxTicks
  <2>1. now \in 0..MaxTicks
    BY DEF ListInv, Typed
  <2>2. now' = now \/ (now < MaxTicks /\ now' = now + 1)
    BY DEF Tick, Expire
  <2> QED
    BY <2>1, <2>2, TicksAssumption
<1>3. CacheTyped' /\ \A e \in Epcs, m \in Modes :
                       cache'[<<e, m>>] # None => cache'[<<e, m>>] = cache[<<e, m>>]
  BY DEF Tick, Expire, ListInv, Typed, CacheTyped
<1>4. Typed'
  BY <1>1, <1>2, <1>3, ConnsAlone DEF ListInv, Typed, StockTyped, JobsTyped
<1>5. ListsFrom /\ RowsFrom
  BY <1>1, <1>3 DEF ListsFrom, RowsFrom, Running
<1>6. Quiet
  BY <1>1, ConnsAlone DEF Quiet, Running
<1>7. TagsKept
  BY <1>1, StockAlone
<1> QED
  BY <1>4, <1>5, <1>6, <1>7, FromQuiet

\* A handler gets its rows, or passes them to the cache.
LEMMA OneGoesOn ==
  ASSUME ListInv, NEW s \in Slots, Running(s), NEW j \in Jobs,
         jobs' = [jobs EXCEPT ![s] = j],
         j.id = jobs[s].id, j.epc = jobs[s].epc, j.mode = jobs[s].mode, j.list = jobs[s].list,
         \/ j.rows = jobs[s].rows
         \/ j.rows = Carriers(jobs[s].epc)
         \/ \E m \in Modes : cache[<<jobs[s].epc, m>>] # None /\ j.rows = cache[<<jobs[s].epc, m>>],
         CacheTyped',
         \A e \in Epcs, m \in Modes : cache'[<<e, m>>] # None =>
           \/ cache'[<<e, m>>] = cache[<<e, m>>]
           \/ \E t \in Slots : Running(t) /\ jobs[t].epc = e /\ cache'[<<e, m>>] = jobs[t].rows,
         UNCHANGED <<info, clients, stock, now, hist, retagged>>
  PROVE  ListInv'
<1>1. JobsTyped' /\ jobs'[s] = j /\ \A t \in Slots : t # s => jobs'[t] = jobs[t]
  BY DEF ListInv, Typed, JobsTyped
<1>2. Typed'
  BY <1>1, ConnsAlone DEF ListInv, Typed, StockTyped
<1>3. ASSUME NEW t \in Slots, jobs'[t] # None
      PROVE  /\ Running(t) /\ jobs'[t].id = jobs[t].id /\ jobs'[t].epc = jobs[t].epc
             /\ jobs'[t].mode = jobs[t].mode /\ jobs'[t].list = jobs[t].list
             /\ \/ jobs'[t].rows = jobs[t].rows
                \/ jobs'[t].rows = Carriers(jobs[t].epc)
                \/ \E m \in Modes : /\ cache[<<jobs[t].epc, m>>] # None
                                    /\ jobs'[t].rows = cache[<<jobs[t].epc, m>>]
  <2>1. CASE t = s
    BY <1>1, <2>1
  <2>2. CASE t # s
    BY <1>1, <1>3, <2>2 DEF Running
  <2> QED
    BY <2>1, <2>2
<1>4. ListsFrom
  BY <1>3 DEF ListsFrom
<1>5. RowsFrom
  BY <1>3 DEF RowsFrom
<1>6. Quiet
  BY <1>3, ConnsAlone DEF Quiet
<1>7. TagsKept
  BY StockAlone
<1> QED
  BY <1>2, <1>4, <1>5, <1>6, <1>7, FromQuiet

LEMMA RunningIsJob ==
  ASSUME ListInv, NEW s \in Slots, Running(s)
  PROVE  /\ jobs[s] \in Jobs /\ s \in DOMAIN jobs
         /\ jobs[s].id \in Ids /\ jobs[s].epc \in Epcs /\ jobs[s].mode \in Modes
         /\ jobs[s].rows \subseteq Rows /\ jobs[s].list \in Seq(Entries)
<1>1. jobs[s] \in Jobs /\ s \in DOMAIN jobs
  BY DEF ListInv, Typed, JobsTyped, Running
<1> QED
  BY <1>1 DEF Jobs

LEMMA ListGet ==
  ASSUME ListInv, NEW s \in Slots, Get(s)
  PROVE  ListInv'
<1> DEFINE hit == cache[<<jobs[s].epc, jobs[s].mode>>]
           j == IF Caches(jobs[s].mode) /\ hit # None
                THEN [jobs[s] EXCEPT !.rows = hit, !.at = "show"]
                ELSE [jobs[s] EXCEPT !.at = "find"]
<1>1. Running(s)
  BY DEF Get
<1>2. jobs' = [jobs EXCEPT ![s] = j]
  BY <1>1, RunningIsJob DEF Get
<1>3. hit # None => hit \subseteq Rows
  BY <1>1, RunningIsJob DEF ListInv, Typed, CacheTyped
<1> HIDE DEF hit
<1>4. /\ j \in Jobs /\ j.id = jobs[s].id /\ j.epc = jobs[s].epc
      /\ j.mode = jobs[s].mode /\ j.list = jobs[s].list
      /\ j.rows = jobs[s].rows \/ (hit # None /\ j.rows = hit)
  BY <1>1, <1>3, RunningIsJob DEF Jobs
<1> HIDE DEF j
<1>5. \/ j.rows = jobs[s].rows
      \/ \E m \in Modes : cache[<<jobs[s].epc, m>>] # None /\ j.rows = cache[<<jobs[s].epc, m>>]
  BY <1>1, <1>4, RunningIsJob DEF hit
<1>6. CacheTyped' /\ cache' = cache /\ UNCHANGED <<info, clients, stock, now, hist, retagged>>
  BY DEF Get, ListInv, Typed, CacheTyped
<1> QED
  BY <1>1, <1>2, <1>4, <1>5, <1>6, OneGoesOn

LEMMA ListFind ==
  ASSUME ListInv, NEW s \in Slots, Find(s)
  PROVE  ListInv'
<1> DEFINE rows == Carriers(jobs[s].epc)
           at == IF Caches(jobs[s].mode) THEN "set" ELSE "show"
           j == [jobs[s] EXCEPT !.rows = rows, !.at = at]
<1>1. Running(s)
  BY DEF Find
<1>2. jobs' = [jobs EXCEPT ![s] = j]
  BY <1>1, RunningIsJob DEF Find
<1>3. rows \subseteq Rows
  BY CarriersRead DEF ListInv, Typed
<1> HIDE DEF rows
<1>4. /\ j \in Jobs /\ j.id = jobs[s].id /\ j.epc = jobs[s].epc
      /\ j.mode = jobs[s].mode /\ j.list = jobs[s].list /\ j.rows = rows
  BY <1>1, <1>3, RunningIsJob DEF Jobs
<1> HIDE DEF j
<1>5. j.rows = Carriers(jobs[s].epc)
  BY <1>4 DEF rows
<1>6. CacheTyped' /\ cache' = cache /\ UNCHANGED <<info, clients, stock, now, hist, retagged>>
  BY DEF Find, ListInv, Typed, CacheTyped
<1> QED
  BY <1>1, <1>2, <1>4, <1>5, <1>6, OneGoesOn

LEMMA ListSet ==
  ASSUME ListInv, NEW s \in Slots, Set(s)
  PROVE  ListInv'
<1> DEFINE j == [jobs[s] EXCEPT !.at = "show"]
<1>1. Running(s)
  BY DEF Set
<1>2. jobs' = [jobs EXCEPT ![s] = j]
  BY <1>1, RunningIsJob DEF Set
<1>3. /\ j \in Jobs /\ j.id = jobs[s].id /\ j.epc = jobs[s].epc
      /\ j.mode = jobs[s].mode /\ j.list = jobs[s].list /\ j.rows = jobs[s].rows
  BY <1>1, RunningIsJob DEF Jobs
<1> HIDE DEF j
<1>4. CacheTyped' /\ \A e \in Epcs, m \in Modes :
        \/ cache'[<<e, m>>] = cache[<<e, m>>]
        \/ jobs[s].epc = e /\ cache'[<<e, m>>] = jobs[s].rows
  BY <1>1, RunningIsJob DEF Set, ListInv, Typed, CacheTyped
<1>5. UNCHANGED <<info, clients, stock, now, hist, retagged>>
  BY DEF Set
<1> QED
  BY <1>1, <1>2, <1>3, <1>4, <1>5, OneGoesOn

LEMMA ListFindFails ==
  ASSUME ListInv, NEW s \in Slots, FindFails(s)
  PROVE  ListInv'
<1> USE DEF FindFails
<1>1. /\ info' \in [Conns -> Clients] /\ \A c \in Conns : info'[c] = NewClient
      /\ clients' \in [Ids -> Conns \cup {None}] /\ \A i \in Ids : clients'[i] = None
  BY NewClientTyped
<1>2. ConnsTyped'
  BY <1>1, NewClientTyped DEF ConnsTyped, Registered
<1>3. JobsTyped' /\ CacheTyped' /\ \A t \in Slots : jobs'[t] = None
  BY DEF JobsTyped, CacheTyped
<1>4. \A e \in Epcs, m \in Modes : cache'[<<e, m>>] = None
  OBVIOUS
<1>5. Typed'
  BY <1>2, <1>3 DEF ListInv, Typed, StockTyped, HistTyped
<1>6. ListsFrom /\ RowsFrom /\ Quiet
  BY <1>1, <1>3, <1>4, NewClientTyped DEF ListsFrom, RowsFrom, Quiet
<1>7. TagsKept
  BY StockAlone
<1> QED
  BY <1>5, <1>6, <1>7, FromQuiet

-----------------------------------------------------------------------------
\* A frame comes: the tag counts as reported, and the handler takes the list of
\* the connection it came over.
LEMMA ListOnTag ==
  ASSUME ListInv, NEW c \in Conns, NEW e \in Epcs, NEW r \in RSSIs, OnTag(c, e, r)
  PROVE  ListInv'
<1>1. PICK s \in Slots : ~Running(s) /\ s = CHOOSE t \in Slots : ~Running(t)
  BY DEF OnTag
<1> DEFINE i == info[c].id
           m == info[c].mode
           list == info[c].lists[m]
           j == [id |-> i, epc |-> e, rssi |-> r, time |-> now, mode |-> m,
                 list |-> list, rows |-> {}, at |-> "get", free |-> Free(e, stock)]
           met == Meets(c, i, m)
           h == [hist[i][m] EXCEPT !.fresh = @ \cup {e}, !.met = met]
<1>2. jobs' = [jobs EXCEPT ![s] = j]
  BY <1>1 DEF OnTag
<1>3. i \in Ids /\ m \in Modes /\ list \in Seq(Entries)
  <2>1. info[c] \in Clients /\ i # None
    BY DEF OnTag, ListInv, Typed, ConnsTyped
  <2> QED
    BY <2>1 DEF Clients
<1>4. hist' = [hist EXCEPT ![i][m].fresh = @ \cup {e}, ![i][m].met = met]
  BY DEF OnTag
<1>5. HistTyped /\ hist[i][m] \in History
  BY <1>3 DEF ListInv, Typed, HistTyped
<1>6. met \in {"nothing", "overlap", "stale"}
  BY <1>5 DEF Meets, History
<1>7. /\ met # "stale" => clients[i] = c /\ hist[i][m].met # "stale"
      /\ met = "nothing" => clients[i] = c /\ hist[i][m].met = "nothing" /\ ~InFlight(i, m)
  BY DEF Meets
<1>8. Free(e, stock) \in BOOLEAN
  BY DEF Free
<1>9. UNCHANGED <<info, clients, stock, cache, now, retagged>>
  BY DEF OnTag
<1>10. list = info[c].lists[m]
  OBVIOUS
<1> HIDE DEF i, m, list, met
<1>11. /\ j \in Jobs /\ j.id = i /\ j.epc = e /\ j.mode = m /\ j.list = list /\ j.rows = {}
  BY <1>3, <1>8 DEF ListInv, Typed, Jobs
<1> HIDE DEF j
<1>12. JobsTyped' /\ jobs'[s] = j /\ \A t \in Slots : t # s => jobs'[t] = jobs[t]
  BY <1>1, <1>2, <1>11 DEF ListInv, Typed, JobsTyped
<1>13. /\ h \in History /\ h.fresh = hist[i][m].fresh \cup {e}
       /\ h.shown = hist[i][m].shown /\ h.met = met
  BY <1>5, <1>6 DEF History
<1>14. /\ hist'[i][m] = h
       /\ \A k \in Ids, n \in Modes : k # i \/ n # m => hist'[k][n] = hist[k][n]
       /\ HistTyped'
  <2>1. hist' = [hist EXCEPT ![i] = [hist[i] EXCEPT ![m] = h]]
    BY <1>3, <1>4, <1>5 DEF HistTyped, History
  <2> HIDE DEF h
  <2> QED
    BY <1>3, <1>5, <1>13, <2>1 DEF HistTyped
<1> HIDE DEF h
<1>15. Typed'
  BY <1>9, <1>12, <1>14 DEF ListInv, Typed, ConnsTyped, StockTyped, CacheTyped, Registered
<1>16. ListsFrom
  BY <1>9, <1>10, <1>11, <1>12 DEF ListsFrom, Running
<1>17. RowsFrom
  BY <1>9, <1>11, <1>12 DEF RowsFrom, Running
<1>18. TagsKept
  BY <1>9, StockAlone
<1>19. ASSUME NEW k \in Ids, NEW n \in Modes
       PROVE  At(k, n)'
  <2>1. At(k, n)
    BY DEF ListInv, AllAt
  <2>2. Registered(k)' = Registered(k) /\ List(k, n)' = List(k, n)
    BY <1>9 DEF Registered, List
  <2>3. TagsAreStable' => TagsAreStable
    BY <1>18 DEF TagsKept
  <2>4. \A t \in Slots : t # s => /\ Of(t, k, n)' <=> Of(t, k, n)
                                  /\ jobs'[t] = jobs[t]
    BY <1>12 DEF Of, Running
  <2>5. CASE k # i \/ n # m
    <3>1. ~Of(s, k, n)'
      BY <1>11, <1>12, <2>5 DEF Of
    <3>2. hist'[k][n] = hist[k][n]
      BY <1>14, <2>5
    <3> HIDE DEF Of
    <3>3. RecentAt(k, n)'
      BY <2>1, <2>2, <2>4, <3>1, <3>2 DEF At, RecentAt
    <3>4. AloneAt(k, n)'
      BY <2>1, <2>2, <2>4, <3>1, <3>2 DEF At, AloneAt
    <3>5. ListedAt(k, n)'
      BY <2>1, <2>2, <2>3, <3>2 DEF At, ListedAt
    <3> QED
      BY <3>3, <3>4, <3>5 DEF At
  <2>6. CASE k = i /\ n = m
    <3>1. hist'[k][n] = h
      BY <1>14, <2>6
    <3>2. Registered(k) /\ clients[k] = c => List(k, n) = list
      BY <1>10, <2>6 DEF List
    <3>3. c # None /\ (clients[k] = c => Registered(k))
      BY NamesAssumption DEF Registered
    <3> HIDE DEF Of
    <3>4. RecentAt(k, n)'
      <4>1. \A l : Recent(l, hist[k][n].fresh) => Recent(l, h.fresh)
        BY <1>13, <2>6 DEF Recent
      <4>2. e \in h.fresh /\ hist[k][n].fresh \subseteq h.fresh
        BY <1>13, <2>6
      <4>3. CASE met = "stale"
        BY <1>13, <3>1, <4>3 DEF RecentAt
      <4>4. CASE met # "stale"
        <5>1. /\ Registered(k) /\ List(k, n) = list
              /\ Recent(List(k, n), h.fresh)
              /\ \A t \in Slots : Of(t, k, n) =>
                   jobs[t].epc \in h.fresh /\ Recent(jobs[t].list, h.fresh)
          BY <1>7, <2>1, <2>6, <3>2, <3>3, <4>1, <4>2, <4>4 DEF At, RecentAt
        <5>2. \A t \in Slots : Of(t, k, n)' =>
                jobs'[t].epc \in h.fresh /\ Recent(jobs'[t].list, h.fresh)
          BY <1>11, <1>12, <2>4, <4>2, <5>1
        <5> QED
          BY <2>2, <3>1, <5>1, <5>2 DEF RecentAt
      <4> QED
        BY <4>3, <4>4
    <3>5. AloneAt(k, n)'
      <4>1. CASE met # "nothing"
        BY <1>13, <3>1, <4>1 DEF AloneAt
      <4>2. CASE met = "nothing"
        <5>1. List(k, n) = list /\ \A t \in Slots : ~Of(t, k, n)
          BY <1>7, <2>6, <3>2, <3>3, <4>2 DEF InFlight, Of
        <5>2. \A t \in Slots : Of(t, k, n)' => t = s
          BY <2>4, <5>1
        <5> QED
          BY <1>11, <1>12, <2>2, <5>1, <5>2 DEF AloneAt
      <4> QED
        BY <4>1, <4>2
    <3>6. ListedAt(k, n)'
      BY <1>7, <1>13, <2>1, <2>2, <2>3, <2>6, <3>1 DEF At, ListedAt
    <3> QED
      BY <3>4, <3>5, <3>6 DEF At
  <2> QED
    BY <2>5, <2>6
<1>20. AllAt'
  BY <1>19 DEF AllAt
<1> QED
  BY <1>15, <1>16, <1>17, <1>18, <1>20, FromParts

\* The handler is done.  What it stores was looked up from the list as it was
\* when its frame came.
LEMMA ListShow ==
  ASSUME ListInv, NEW s \in Slots, Show(s)
  PROVE  ListInv'
<1> DEFINE j == jobs[s]
           d == clients[j.id]
<1>1. Running(s) /\ jobs' = [jobs EXCEPT ![s] = None]
      /\ UNCHANGED <<clients, stock, cache, now, retagged>>
  BY DEF Show
<1>2. /\ j \in Jobs /\ j.id \in Ids /\ j.epc \in Epcs /\ j.mode \in Modes
      /\ Read(j.epc, j.rows) /\ ListFits(j.list, j.mode)
      /\ TagsAreStable => Known(j.rows) /\ Once(j.list)
  BY <1>1, RunningIsJob DEF ListInv, RowsRead, RowsKnown, AllFit, AllOnce
<1>3. JobsTyped' /\ jobs'[s] = None /\ \A t \in Slots : t # s => jobs'[t] = jobs[t]
  BY <1>1 DEF ListInv, Typed, JobsTyped
<1>4. TagsKept /\ RowsFrom
  BY <1>1, <1>3, StockAlone DEF RowsFrom, Running
<1>5. \A t \in Slots : jobs'[t] # None => t # s /\ Running(t) /\ jobs'[t] = jobs[t]
  BY <1>3 DEF Running
<1>6. CASE ~Shows(j)
  <2>1. UNCHANGED <<info, hist>>
    BY <1>6 DEF Show
  <2>2. Typed'
    BY <1>1, <1>3, <2>1, ConnsAlone DEF ListInv, Typed, StockTyped, CacheTyped
  <2>3. ListsFrom
    BY <1>5, <2>1 DEF ListsFrom
  <2>4. Quiet
    BY <1>1, <1>5, <2>1, ConnsAlone DEF Quiet
  <2> QED
    BY <1>4, <2>2, <2>3, <2>4, FromQuiet
<1>7. CASE Shows(j)
  <2> DEFINE new == Shown(j)
             h == [hist[j.id][j.mode] EXCEPT !.shown = @ \cup {j.epc}]
  <2>1. /\ info' = [info EXCEPT ![d].lists[j.mode] = new]
        /\ hist' = [hist EXCEPT ![j.id][j.mode].shown = @ \cup {j.epc}]
    BY <1>7 DEF Show, Target
  <2>2. ConnsTyped /\ HistTyped /\ hist[j.id][j.mode] \in History
    BY <1>2 DEF ListInv, Typed, HistTyped
  <2>3. d \in Conns /\ d # None /\ info[d] \in Clients /\ info[d].id = j.id
    BY <1>2, <1>7, <2>2 DEF Shows, ConnsTyped, Registered
  <2>4. Result(j) # <<>>
    BY <1>7 DEF Shows
  <2>5. /\ new \in Seq(Entries) /\ ListFits(new, j.mode)
        /\ \A n \in DOMAIN new : \/ \E k \in DOMAIN j.list : new[n] = j.list[k]
                                 \/ j.epc \in new[n].tags
    BY <1>2, ShownFits
  <2>6. TagsAreStable => /\ Once(new)
                         /\ Hits(new, j.epc) # {}
                         /\ \A e \in Epcs : Hits(j.list, e) # {} => Hits(new, e) # {}
    BY <1>2, <2>4, ShownOnce
  <2> HIDE DEF new, j, d
  <2>7. /\ info' \in [Conns -> Clients]
        /\ \A b \in Conns : info'[b].id = info[b].id
        /\ info'[d].lists[j.mode] = new
        /\ \A b \in Conns, n \in Modes :
             b # d \/ n # j.mode => info'[b].lists[n] = info[b].lists[n]
    <3>1. info[d].lists \in [Modes -> Seq(Entries)]
      BY <2>3 DEF Clients
    <3> DEFINE l == [info[d].lists EXCEPT ![j.mode] = new]
    <3>2. /\ l \in [Modes -> Seq(Entries)] /\ l[j.mode] = new
          /\ \A n \in Modes : n # j.mode => l[n] = info[d].lists[n]
      BY <1>2, <2>5, <3>1
    <3>3. info' = [info EXCEPT ![d] = [info[d] EXCEPT !.lists = l]]
      BY <2>1, <2>2, <2>3 DEF ConnsTyped, Clients
    <3> HIDE DEF l
    <3>4. [info[d] EXCEPT !.lists = l] \in Clients /\ [info[d] EXCEPT !.lists = l].id = info[d].id
          /\ [info[d] EXCEPT !.lists = l].lists = l
      BY <2>3, <3>2 DEF Clients
    <3> QED
      BY <2>2, <2>3, <3>2, <3>3, <3>4 DEF ConnsTyped
  <2>8. /\ hist'[j.id][j.mode] = h
        /\ \A k \in Ids, n \in Modes : k # j.id \/ n # j.mode => hist'[k][n] = hist[k][n]
        /\ HistTyped'
        /\ h.fresh = hist[j.id][j.mode].fresh /\ h.met = hist[j.id][j.mode].met
        /\ h.shown = hist[j.id][j.mode].shown \cup {j.epc}
    <3>1. /\ h \in History
          /\ h.fresh = hist[j.id][j.mode].fresh /\ h.met = hist[j.id][j.mode].met
          /\ h.shown = hist[j.id][j.mode].shown \cup {j.epc}
      BY <1>2, <2>2 DEF History
    <3>2. hist' = [hist EXCEPT ![j.id] = [hist[j.id] EXCEPT ![j.mode] = h]]
      BY <1>2, <2>1, <2>2 DEF HistTyped, History
    <3> HIDE DEF h
    <3> QED
      BY <1>2, <2>2, <3>1, <3>2 DEF HistTyped
  <2> HIDE DEF h
  <2>9. ConnsTyped'
    <3>1. \A b \in Conns, n \in Modes : info'[b].id = None => info'[b].lists[n] = <<>>
      BY <1>2, <2>2, <2>3, <2>7, NamesAssumption DEF ConnsTyped
    <3>2. \A k \in Ids : clients[k] # None => clients[k] \in Conns /\ info[clients[k]].id = k
      BY <2>2 DEF ConnsTyped, Registered
    <3> QED
      BY <1>1, <2>2, <2>7, <3>1, <3>2 DEF ConnsTyped, Registered
  <2>10. Typed'
    BY <1>1, <1>3, <2>8, <2>9 DEF ListInv, Typed, StockTyped, CacheTyped
  <2>11. RowsRead' /\ RowsKnown'
    BY <1>4, <2>10, RowsStep DEF Typed, CacheTyped
  <2>12. AllFit'
    <3>1. \A b \in Conns, n \in Modes : ListFits(info'[b].lists[n], n)
      BY <2>5, <2>7 DEF ListInv, AllFit
    <3>2. \A t \in Slots : jobs'[t] # None => ListFits(jobs'[t].list, jobs'[t].mode)
      BY <1>5 DEF ListInv, AllFit
    <3> QED
      BY <3>1, <3>2 DEF AllFit, ListFits, Running, Fits
  <2>13. AllOnce'
    <3> SUFFICES ASSUME TagsAreStable' PROVE AllOnce'
      BY DEF AllOnce
    <3>1. TagsAreStable /\ \A list : Once(list) => OnceNext(list)
      BY <1>4, SameStays
    <3>2. \A b \in Conns, n \in Modes : OnceNext(info'[b].lists[n])
      BY <2>6, <2>7, <3>1 DEF ListInv, AllOnce
    <3>3. \A t \in Slots : jobs'[t] # None => OnceNext(jobs'[t].list)
      BY <1>5, <3>1 DEF ListInv, AllOnce
    <3> QED
      BY <3>2, <3>3 DEF AllOnce, Once, OnceNext, SameOnList, OnListNext, Same, SameNext, Running
  <2>14. ASSUME NEW k \in Ids, NEW n \in Modes
         PROVE  At(k, n)'
    <3>1. At(k, n) /\ At(j.id, j.mode)
      BY <1>2 DEF ListInv, AllAt
    <3>2. Registered(k)' = Registered(k)
      BY <1>1 DEF Registered
    <3>3. \A t \in Slots : Of(t, k, n)' => t # s /\ Of(t, k, n) /\ jobs'[t] = jobs[t]
      BY <1>5 DEF Of, Running
    <3>4. TagsAreStable' => TagsAreStable
      BY <1>4 DEF TagsKept
    <3>5. CASE k # j.id \/ n # j.mode
      <4>1. Registered(k) => List(k, n)' = List(k, n)
        <5>1. Registered(k) => clients[k] \in Conns /\ info[clients[k]].id = k
          BY <2>2 DEF ConnsTyped, Registered
        <5> QED
          BY <1>1, <2>3, <2>7, <3>5, <5>1 DEF List
      <4>2. hist'[k][n] = hist[k][n]
        BY <2>8, <3>5
      <4> HIDE DEF Of
      <4>3. RecentAt(k, n)'
        BY <3>1, <3>2, <3>3, <4>1, <4>2 DEF At, RecentAt
      <4>4. AloneAt(k, n)'
        BY <3>1, <3>2, <3>3, <4>1, <4>2 DEF At, AloneAt
      <4>5. ListedAt(k, n)'
        BY <3>1, <3>2, <3>4, <4>1, <4>2 DEF At, ListedAt
      <4> QED
        BY <4>3, <4>4, <4>5 DEF At
    <3>6. CASE k = j.id /\ n = j.mode
      <4>1. List(k, n)' = new /\ hist'[k][n] = h /\ Registered(k)
        BY <1>1, <2>3, <2>7, <2>8, <3>6 DEF List, d, Registered
      <4>2. Of(s, k, n)
        BY <1>1, <3>6 DEF Of, j
      <4> HIDE DEF Of
      <4>3. RecentAt(k, n)'
        <5>1. h.met # "stale" =>
                /\ \A t \in Slots : Of(t, k, n) =>
                     jobs[t].epc \in h.fresh /\ Recent(jobs[t].list, h.fresh)
                /\ j.epc \in h.fresh /\ Recent(j.list, h.fresh)
          BY <2>8, <3>1, <3>6, <4>2 DEF At, RecentAt, j
        <5>2. h.met # "stale" => Recent(new, h.fresh)
          BY <2>5, <5>1 DEF Recent
        <5> QED
          BY <3>3, <4>1, <5>1, <5>2 DEF RecentAt
      <4>4. AloneAt(k, n)'
        BY <2>8, <3>1, <3>3, <3>6, <4>1, <4>2 DEF At, AloneAt
      <4>5. ListedAt(k, n)'
        <5> SUFFICES ASSUME TagsAreStable, h.met = "nothing", NEW e \in h.shown
                     PROVE  Hits(new, e) # {}
          BY <3>4, <4>1 DEF ListedAt, Hits
        <5>1. j.list = List(k, n)
          BY <2>8, <3>1, <3>6, <4>1, <4>2 DEF At, AloneAt, j
        <5>2. e = j.epc \/ (e \in hist[k][n].shown /\ Hits(j.list, e) # {})
          BY <2>8, <3>1, <3>6, <4>1, <5>1 DEF At, ListedAt
        <5>3. e \in Epcs
          BY <1>2, <2>2, <3>6, <5>2 DEF History
        <5> QED
          BY <2>6, <5>2, <5>3
      <4> QED
        BY <4>3, <4>4, <4>5 DEF At
    <3> QED
      BY <3>5, <3>6
  <2>15. AllAt'
    BY <2>14 DEF AllAt
  <2> QED
    BY <2>10, <2>11, <2>12, <2>13, <2>15 DEF ListInv
<1> QED
  BY <1>6, <1>7

LEMMA ListInvStep == ListInv /\ [Next]_vars => ListInv'
<1> SUFFICES ASSUME ListInv, [Next]_vars PROVE ListInv'
  OBVIOUS
<1>1. CASE Connections
  BY <1>1, ListRegister, ListClose, ListSetMode, ListClear DEF Connections
<1>2. CASE World
  BY <1>2, ListChange, ListTime DEF World
<1>3. CASE Reports
  BY <1>3, ListOnTag, ListGet, ListFind, ListSet, ListFindFails, ListShow DEF Reports
<1>4. CASE UNCHANGED vars
  <2>1. UNCHANGED <<info, clients, stock, cache, jobs, now, hist, retagged>>
    BY <1>4 DEF vars
  <2>2. Typed'
    BY <2>1, ConnsAlone DEF ListInv, Typed, StockTyped, CacheTyped, JobsTyped
  <2>3. ListsFrom /\ RowsFrom
    BY <2>1 DEF ListsFrom, RowsFrom, Running
  <2>4. Quiet
    BY <2>1, ConnsAlone DEF Quiet, Running
  <2>5. TagsKept
    BY <2>1, StockAlone
  <2> QED
    BY <2>2, <2>3, <2>4, <2>5, FromQuiet
<1> QED
  BY <1>1, <1>2, <1>3, <1>4 DEF Next

LEMMA ListInvHolds == Spec => []ListInv
BY ListInvInit, ListInvStep, PTL DEF Spec

\* The state stays within its types, lists built up element by element
\* included, and a registered connection is one its module said hello over.
THEOREM TypesHold == Spec => []TypeOK
<1>1. ListInv => TypeOK
  <2> SUFFICES ASSUME ListInv PROVE TypeOK
    OBVIOUS
  <2>1. \A k \in Epcs \X Modes : cache[k] = None \/ cache[k] \subseteq Rows
    BY DEF ListInv, Typed, CacheTyped
  <2>2. \A s \in Slots : Running(s) => jobs[s] \in Jobs
    BY DEF ListInv, Typed, JobsTyped, Running
  <2> QED
    BY <2>1, <2>2 DEF ListInv, Typed, ConnsTyped, StockTyped, HistTyped, TypeOK, Registered
<1> QED
  BY ListInvHolds, <1>1, PTL

\* Every list holds what its mode is for, whatever mode and connection the
\* module has changed to while its frames were looked up.
THEOREM ListsFit == Spec => []ListsFitModes
<1>1. ListInv => ListsFitModes
  BY DEF ListInv, AllFit, ListFits, ListsFitModes
<1> QED
  BY ListInvHolds, <1>1, PTL

\* While tags are stable no product is on a list twice.
THEOREM ProductsListedOnce == Spec => []NoProductTwice
<1>1. ListInv => NoProductTwice
  BY DEF ListInv, AllOnce, Once, NoProductTwice
<1> QED
  BY ListInvHolds, <1>1, PTL

\* A list that was emptied while none of its frames was in flight holds nothing
\* from before.
THEOREM ClearedListsStayCleared == Spec => []ClearedIsGone
<1>1. ListInv => ClearedIsGone
  BY DEF ListInv, AllAt, At, RecentAt, Recent, ClearedIsGone
<1> QED
  BY ListInvHolds, <1>1, PTL

\* While the frames of a list are handled one after the other and tags are
\* stable, what was shown stays on the list.
THEOREM ShownStaysListed == Spec => []ShownIsListed
<1>1. ListInv => ShownIsListed
  BY DEF ListInv, AllAt, At, ListedAt, ShownIsListed
<1> QED
  BY ListInvHolds, <1>1, PTL
=============================================================================
