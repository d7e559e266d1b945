--------------------------- MODULE UserDataProofs ---------------------------
(***************************************************************************)
(* Proofs about UserData.tla for any number of changes, bad answers and    *)
(* threads: what a login request that is built while the streamer's copy   *)
(* is written can look like, and that subscription requests name their     *)
(* fields as the streamer requires, whatever list was asked for.           *)
(***************************************************************************)
EXTENDS UserData, FiniteSetTheorems, SequenceTheorems, WellFoundedInduction, TLAPS

\* The types of what the versions pass through.
DataTyped ==
    /\ current \in Version
    /\ answer \in Version
    /\ handed \in Version
    /\ built \in Version
    /\ pref \in [Parts -> Version]
    /\ info \in Info
    /\ login \in Info
    /\ reading \in {<<>>} \cup {<<v>> : v \in Version}

\* Versions only go up: nobody holds a newer one than the client was last answered.
NothingNewer ==
    /\ answer <= current
    /\ pref["streamerInfo"] <= answer
    /\ handed <= answer
    /\ built <= answer
    /\ info.ids <= answer
    /\ info.channel <= answer
    /\ reading # <<>> => Head(reading) <= answer

\* Only the updating thread writes the streamer's copy, once the streamer is there:
\* what it writes is blank or the version it was last answered.
OneWriter ==
    /\ updater = "parsed" => pref["streamerInfo"] \in {0, answer}
    /\ updater \in {"hand", "write"} => /\ main \in {"ready", "dead"}
                                        /\ handed \in {0, answer}
    /\ updater = "write" => info.ids = handed
    /\ reading # <<>> => main \in {"ready", "dead"}

\* Behind the ids come the channel and what was read of it.
IdsFirst ==
    /\ info.ids = 0 \/ info.channel <= info.ids
    /\ reading # <<>> => info.ids = 0 \/ Head(reading) <= info.ids
    /\ TornOneWay

TornInv == DataTyped /\ NothingNewer /\ OneWriter /\ IdsFirst

\* The invariant holds at the start, where everything is blank.
LEMMA TornInit == Init => TornInv
  BY UserDataAssumption
  DEF Init, TornInv, DataTyped, NothingNewer, OneWriter, IdsFirst, TornOneWay, AllOf,
      Info, Version, Parts

\* Every step of every thread keeps it.
LEMMA TornStep == TornInv /\ [Next]_vars => TornInv'
  <1> SUFFICES ASSUME TornInv, [Next]_vars
               PROVE  TornInv'
    OBVIOUS
  <1> USE UserDataAssumption
      DEF TornInv, DataTyped, NothingNewer, OneWriter, IdsFirst, TornOneWay, Info, Version
  <1>1. CASE ServerChanges
    BY <1>1 DEF ServerChanges, clientVars, loginVars
  <1>2. CASE MainStep
    <2>1. CASE Connect
      BY <1>2, <2>1 DEF Connect, loginVars
    <2>2. CASE Construct
      BY <1>2, <2>2 DEF Construct, loginVars, Parts
    <2>3. CASE Publish
      BY <1>2, <2>3 DEF Publish, loginVars, AllOf
    <2> QED
      BY <1>2, <2>1, <2>2, <2>3 DEF MainStep
  <1>3. CASE UpdateStep
    <2>1. CASE Request
      BY <1>3, <2>1 DEF Request, UpdaterAt, loginVars, Parts
    <2>2. CASE AllAssigned
      BY <1>3, <2>2 DEF AllAssigned, UpdaterAt, loginVars, Assigned, Parts
    <2>3. CASE NoInfoAssigned
      BY <1>3, <2>3 DEF NoInfoAssigned, UpdaterAt, loginVars, Assigned, Parts
    <2>4. CASE SomeAssigned
      BY <1>3, <2>4 DEF SomeAssigned, UpdateEnds, UpdaterAt, loginVars, Assigned, Parts
    <2>5. CASE TestStreamer
      BY <1>3, <2>5 DEF TestStreamer, UpdateEnds, UpdaterAt, loginVars, Parts
    <2>6. CASE WriteIds
      BY <1>3, <2>6 DEF WriteIds, UpdaterAt, loginVars
    <2>7. CASE WriteChannel
      BY <1>3, <2>7 DEF WriteChannel, UpdaterAt, loginVars
    <2> QED
      BY <1>3, <2>1, <2>2, <2>3, <2>4, <2>5, <2>6, <2>7 DEF UpdateStep
  <1>4. CASE LoginStep
    <2>1. CASE LoginReadsChannel
      BY <1>4, <2>1 DEF LoginReadsChannel, clientVars
    <2>2. CASE LoginReadsIds
      BY <1>4, <2>2 DEF LoginReadsIds, clientVars
    <2> QED
      BY <1>4, <2>1, <2>2 DEF LoginStep
  <1>5. CASE InfoRaces
    BY <1>5 DEF InfoRaces, Dies, loginVars
  <1>6. CASE \E c \in Callers : CallerStep(c)
    <2> PICK c \in Callers : CallerStep(c)
      BY <1>6
    <2>1. CASE Subscribe(c)
      BY <2>1 DEF Subscribe, PrepareFields, clientVars, loginVars
    <2>2. CASE BuildRequest(c)
      BY <2>2 DEF BuildRequest, clientVars, loginVars
    <2>3. CASE SubscribeToNothing(c)
      BY <2>3 DEF SubscribeToNothing, Dies, loginVars
    <2> QED
      BY <2>1, <2>2, <2>3 DEF CallerStep
  <1>7. CASE UNCHANGED vars
    BY <1>7 DEF vars, clientVars, loginVars
  <1> QED
    BY <1>1, <1>2, <1>3, <1>4, <1>5, <1>6, <1>7 DEF Next

\* A login request built while the streamer's copy is written has ids that are at
\* least as new as its channel, or none.
THEOREM LoginsTornOneWay == Spec => []TornOneWay
  <1>1. TornInv => TornOneWay
    BY DEF TornInv, IdsFirst
  <1> QED
    BY TornInit, TornStep, <1>1, PTL DEF Spec

-----------------------------------------------------------------------------
(***************************************************************************)
(* Sorting.  Every list can be sorted: by induction on its length, put in  *)
(* the form of a shortest list that cannot.                                *)
(***************************************************************************)
LEMMA Smallest ==
    ASSUME NEW S, S \subseteq Nat, S # {}
    PROVE  \E x \in S : \A y \in S : x <= y
<1>1. PICK x \in S : \A y \in S : ~ (<<y, x>> \in OpToRel(<, Nat))
  BY NatLessThanWellFounded, WFMin DEF OpToRel
<1>2. ASSUME NEW y \in S PROVE x <= y
  <2>1. x \in Nat /\ y \in Nat
    OBVIOUS
  <2>2. ~(y < x)
    BY <1>1, <2>1 DEF OpToRel
  <2> QED
    BY <2>1, <2>2
<1> QED
  BY <1>2

Sortable(n) == \A s \in [1..n -> Nat] : SortingOrders(s) # {}

\* What it takes to be one of the orders.
LEMMA OrdersOf ==
    ASSUME NEW n \in Nat, NEW s \in [1..n -> Nat], NEW p
    PROVE  p \in SortingOrders(s) <=>
               /\ p \in [1..n -> 1..n]
               /\ \A i, j \in 1..n : p[i] = p[j] => i = j
               /\ \A w \in 1..n : \E i \in 1..n : p[i] = w
               /\ \A i, j \in 1..n : i < j => s[p[i]] <= s[p[j]]
<1>1. DOMAIN s = 1..n
  OBVIOUS
<1>2. p \in Bijection(1..n, 1..n) <=>
          /\ p \in [1..n -> 1..n]
          /\ \A i, j \in 1..n : p[i] = p[j] => i = j
          /\ \A w \in 1..n : \E i \in 1..n : p[i] = w
  BY DEF Bijection, Injection, Surjection, IsInjective
<1> QED
  BY <1>1, <1>2 DEF SortingOrders

\* A list is sorted by putting its smallest element first and sorting the others, the
\* last one having taken its place.
LEMMA SortableNext ==
    ASSUME NEW n \in Nat \ {0}, Sortable(n - 1)
    PROVE  Sortable(n)
<1> SUFFICES ASSUME NEW s \in [1..n -> Nat] PROVE SortingOrders(s) # {}
  BY DEF Sortable
<1>1. PICK m \in 1..n : \A i \in 1..n : s[m] <= s[i]
  <2> DEFINE S == {s[i] : i \in 1..n}
  <2>1. S \subseteq Nat /\ s[1] \in S
    OBVIOUS
  <2>2. \A i \in 1..n : s[i] \in S
    OBVIOUS
  <2>3. \A x \in S : \E i \in 1..n : x = s[i]
    OBVIOUS
  <2> HIDE DEF S
  <2>4. PICK x \in S : \A y \in S : x <= y
    BY <2>1, Smallest
  <2> QED
    BY <2>2, <2>3, <2>4
<1> DEFINE r == [k \in 1..(n - 1) |-> IF k = m THEN n ELSE k]
           t == [k \in 1..(n - 1) |-> s[r[k]]]
<1>2. /\ \A k \in 1..(n - 1) : r[k] \in 1..n /\ r[k] # m
      /\ \A k, l \in 1..(n - 1) : r[k] = r[l] => k = l
      /\ \A w \in 1..n : w # m => \E k \in 1..(n - 1) : r[k] = w
  <2>1. ASSUME NEW w \in 1..n, w # m PROVE \E k \in 1..(n - 1) : r[k] = w
    <3>1. CASE w = n
      <4>1. m \in 1..(n - 1) /\ r[m] = w
        BY <2>1, <3>1
      <4> QED
        BY <4>1
    <3>2. CASE w # n
      <4>1. w \in 1..(n - 1) /\ r[w] = w
        BY <2>1, <3>2
      <4> QED
        BY <4>1
    <3> QED
      BY <3>1, <3>2
  <2>2. \A k \in 1..(n - 1) : r[k] \in 1..n /\ r[k] # m
    OBVIOUS
  <2>3. \A k, l \in 1..(n - 1) : r[k] = r[l] => k = l
    OBVIOUS
  <2> QED
    BY <2>1, <2>2, <2>3
<1>3. n - 1 \in Nat /\ t \in [1..(n - 1) -> Nat] /\ \A k \in 1..(n - 1) : t[k] = s[r[k]]
  BY <1>2
<1> HIDE DEF r, t
<1>4. PICK q : q \in SortingOrders(t)
  BY <1>3 DEF Sortable
<1>5. /\ q \in [1..(n - 1) -> 1..(n - 1)]
      /\ \A i, j \in 1..(n - 1) : q[i] = q[j] => i = j
      /\ \A w \in 1..(n - 1) : \E i \in 1..(n - 1) : q[i] = w
      /\ \A i, j \in 1..(n - 1) : i < j => t[q[i]] <= t[q[j]]
  BY <1>3, <1>4, OrdersOf
<1> DEFINE p == [i \in 1..n |-> IF i = 1 THEN m ELSE r[q[i - 1]]]
<1>6. p[1] = m
  OBVIOUS
<1>7. ASSUME NEW i \in 1..n, i # 1
      PROVE  /\ i - 1 \in 1..(n - 1) /\ q[i - 1] \in 1..(n - 1)
             /\ p[i] = r[q[i - 1]] /\ p[i] \in 1..n /\ p[i] # m
             /\ s[p[i]] = t[q[i - 1]]
  <2>1. i - 1 \in 1..(n - 1)
    BY <1>7
  <2>2. q[i - 1] \in 1..(n - 1)
    BY <1>5, <2>1
  <2>3. p[i] = r[q[i - 1]]
    BY <1>7
  <2> QED
    BY <1>2, <1>3, <2>1, <2>2, <2>3
<1> HIDE DEF p
<1>8. p \in [1..n -> 1..n]
  <2>1. \A i \in 1..n : p[i] \in 1..n
    BY <1>6, <1>7
  <2> QED
    BY <2>1 DEF p
<1>9. ASSUME NEW i \in 1..n, NEW j \in 1..n, p[i] = p[j] PROVE i = j
  <2>1. CASE i = 1 \/ j = 1
    BY <1>6, <1>7, <1>9, <2>1
  <2>2. CASE i # 1 /\ j # 1
    <3>1. q[i - 1] = q[j - 1]
      <4>1. r[q[i - 1]] = r[q[j - 1]]
        BY <1>7, <1>9, <2>2
      <4>2. q[i - 1] \in 1..(n - 1) /\ q[j - 1] \in 1..(n - 1)
        BY <1>7, <2>2
      <4> QED
        BY <1>2, <4>1, <4>2
    <3>2. i - 1 = j - 1
      BY <1>5, <1>7, <2>2, <3>1
    <3> QED
      BY <3>2
  <2> QED
    BY <2>1, <2>2
<1>10. ASSUME NEW w \in 1..n PROVE \E i \in 1..n : p[i] = w
  <2>1. CASE w = m
    BY <1>6, <2>1
  <2>2. CASE w # m
    <3>1. PICK k \in 1..(n - 1) : r[k] = w
      BY <1>2, <2>2
    <3>2. PICK i \in 1..(n - 1) : q[i] = k
      BY <1>5
    <3>3. i + 1 \in 1..n /\ i + 1 # 1 /\ (i + 1) - 1 = i
      OBVIOUS
    <3>4. p[i + 1] = r[q[i]]
      BY <1>7, <3>3
    <3> QED
      BY <3>1, <3>2, <3>3, <3>4
  <2> QED
    BY <2>1, <2>2
<1>11. ASSUME NEW i \in 1..n, NEW j \in 1..n, i < j PROVE s[p[i]] <= s[p[j]]
  <2>1. CASE i = 1
    BY <1>1, <1>6, <1>8, <2>1
  <2>2. CASE i # 1
    <3>1. j # 1 /\ i - 1 < j - 1
      BY <1>11, <2>2
    <3>2. i - 1 \in 1..(n - 1) /\ j - 1 \in 1..(n - 1)
      BY <1>7, <2>2, <3>1
    <3>3. t[q[i - 1]] <= t[q[j - 1]]
      BY <1>5, <3>1, <3>2
    <3>4. s[p[i]] = t[q[i - 1]] /\ s[p[j]] = t[q[j - 1]]
      BY <1>7, <2>2, <3>1
    <3> QED
      BY <3>3, <3>4
  <2> QED
    BY <2>1, <2>2
<1>12. p \in SortingOrders(s)
  BY <1>8, <1>9, <1>10, <1>11, OrdersOf
<1> QED
  BY <1>12

LEMMA AllSortable == \A n \in Nat : Sortable(n)
<1> DEFINE B == {n \in Nat : ~Sortable(n)}
<1> SUFFICES ASSUME B # {} PROVE FALSE
  OBVIOUS
<1>1. PICK n \in B : \A k \in B : n <= k
  BY Smallest
<1>2. CASE n = 0
  <2> SUFFICES ASSUME NEW s \in [1..0 -> Nat] PROVE SortingOrders(s) # {}
    BY <1>1, <1>2 DEF Sortable
  <2> DEFINE p == [i \in 1..0 |-> i]
  <2>1. p \in [1..0 -> 1..0] /\ 1..0 = {}
    OBVIOUS
  <2>2. p \in SortingOrders(s)
    BY <2>1, OrdersOf
  <2> QED
    BY <2>2
<1>3. CASE n # 0
  <2>1. n - 1 \in Nat /\ n \in Nat \ {0} /\ ~(n <= n - 1)
    BY <1>3
  <2>2. Sortable(n - 1)
    BY <1>1, <2>1
  <2> QED
    BY <1>1, <2>1, <2>2, SortableNext
<1> QED
  BY <1>2, <1>3

\* How often something is in a list is a number, and 0 if and only if it is not there.
LEMMA TimesTyped ==
    ASSUME NEW list \in Seq(Nat), NEW x
    PROVE  /\ IsFiniteSet({i \in DOMAIN list : list[i] = x})
           /\ Times(x, list) \in Nat
           /\ Times(x, list) = 0 <=> \A i \in DOMAIN list : list[i] # x
<1> DEFINE T == {i \in DOMAIN list : list[i] = x}
<1>1. DOMAIN list = 1..Len(list) /\ Len(list) \in Nat
  BY LenProperties
<1>2. IsFiniteSet(1..Len(list)) /\ T \in SUBSET (1..Len(list))
  BY <1>1, FS_Interval
<1>3. IsFiniteSet(T)
  BY <1>2, FS_Subset
<1>4. Cardinality(T) \in Nat /\ (Cardinality(T) = 0 <=> T = {})
  BY <1>3, FS_CardinalityType, FS_EmptySet
<1> QED
  BY <1>3, <1>4 DEF Times

\* Something is in two lists equally often if the places where it is can be paired.
Pairs(f, x, a, b) ==
    /\ \A i \in DOMAIN a : a[i] = x => f[i] \in DOMAIN b /\ b[f[i]] = x
    /\ \A i, j \in DOMAIN a : f[i] = f[j] => i = j
    /\ \A k \in DOMAIN b : b[k] = x => \E i \in DOMAIN a : a[i] = x /\ f[i] = k

LEMMA TimesPaired ==
    ASSUME NEW a \in Seq(Nat), NEW b \in Seq(Nat), NEW x, NEW f, Pairs(f, x, a, b)
    PROVE  Times(x, a) = Times(x, b)
<1> USE DEF Pairs
<1> DEFINE S == {i \in DOMAIN a : a[i] = x}
           T == {k \in DOMAIN b : b[k] = x}
           g == [i \in S |-> f[i]]
<1>1. g \in [S -> T]
  OBVIOUS
<1>2. \A i, j \in S : g[i] = g[j] => i = j
  OBVIOUS
<1>3. \A k \in T : \E i \in S : g[i] = k
  OBVIOUS
<1>4. g \in Bijection(S, T)
  BY <1>1, <1>2, <1>3 DEF Bijection, Injection, Surjection, IsInjective
<1>5. IsFiniteSet(S) /\ ExistsBijection(S, T)
  BY <1>4, TimesTyped DEF ExistsBijection
<1>6. Cardinality(T) = Cardinality(S)
  BY <1>5, FS_Bijection
<1> QED
  BY <1>6 DEF Times

\* What std::sort leaves: the same elements, as often, in ascending order.
LEMMA SortedList ==
    ASSUME NEW list \in Seq(Nat)
    PROVE  /\ Sorted(list) \in Seq(Nat) /\ Len(Sorted(list)) = Len(list)
           /\ \A i, j \in 1..Len(list) : i < j => Sorted(list)[i] <= Sorted(list)[j]
           /\ \A x : Times(x, Sorted(list)) = Times(x, list)
<1> DEFINE n == Len(list)
           p == CHOOSE q \in SortingOrders(list) : TRUE
           t == Sorted(list)
<1>1. n \in Nat /\ DOMAIN list = 1..n /\ list \in [1..n -> Nat]
  BY LenProperties
<1>2. p \in SortingOrders(list)
  BY <1>1, AllSortable DEF Sortable
<1> HIDE DEF p
<1>3. /\ p \in [1..n -> 1..n]
      /\ \A i, j \in 1..n : p[i] = p[j] => i = j
      /\ \A w \in 1..n : \E i \in 1..n : p[i] = w
      /\ \A i, j \in 1..n : i < j => list[p[i]] <= list[p[j]]
  BY <1>1, <1>2, OrdersOf
<1>4. t = [i \in 1..n |-> list[p[i]]]
  BY <1>1 DEF p, Sorted
<1> HIDE DEF t
<1>5. t \in [1..n -> Nat]
  BY <1>1, <1>3, <1>4
<1>6. t \in Seq(Nat) /\ Len(t) = n /\ DOMAIN t = 1..n
  BY <1>1, <1>5
<1>7. \A i, j \in 1..n : i < j => t[i] <= t[j]
  BY <1>3, <1>4
<1>8. ASSUME NEW x PROVE Times(x, t) = Times(x, list)
  <2>1. \A i \in 1..n : t[i] = x => p[i] \in 1..n /\ list[p[i]] = x
    BY <1>3, <1>4
  <2>2. \A k \in 1..n : list[k] = x => \E i \in 1..n : t[i] = x /\ p[i] = k
    BY <1>3, <1>4
  <2>3. Pairs(p, x, t, list)
    BY <1>1, <1>3, <1>6, <2>1, <2>2 DEF Pairs
  <2> QED
    BY <1>6, <2>3, TimesPaired
<1> QED
  BY <1>6, <1>7, <1>8 DEF t

\* Symbol in front of a list.
LEMMA SymbolInFront ==
    ASSUME NEW t \in Seq(Nat)
    PROVE  LET g == <<Symbol>> \o t
           IN  /\ g \in Seq(Nat) /\ Len(g) = Len(t) + 1 /\ g[1] = Symbol
               /\ \A i \in 1..Len(t) : g[i + 1] = t[i]
               /\ \A x : x # Symbol => Times(x, g) = Times(x, t)
               /\ Times(Symbol, t) = 0 => Times(Symbol, g) = 1
<1> DEFINE g == <<Symbol>> \o t
           n == Len(t)
<1>1. n \in Nat /\ DOMAIN t = 1..n
  BY LenProperties
<1>2. Symbol \in Nat /\ <<Symbol>> \in Seq(Nat) /\ Len(<<Symbol>>) = 1 /\ <<Symbol>>[1] = Symbol
  BY DEF Symbol
<1>3. /\ g \in Seq(Nat) /\ Len(g) = 1 + n /\ DOMAIN g = 1..(1 + n)
      /\ \A i \in 1..(1 + n) : g[i] = IF i <= 1 THEN <<Symbol>>[i] ELSE t[i - 1]
  BY <1>1, <1>2, ConcatProperties, LenProperties
<1> HIDE DEF g
<1>4. g[1] = Symbol
  BY <1>1, <1>2, <1>3
<1>5. ASSUME NEW i \in 1..n PROVE g[i + 1] = t[i]
  <2>1. i + 1 \in 1..(1 + n) /\ ~(i + 1 <= 1) /\ (i + 1) - 1 = i
    BY <1>1
  <2> QED
    BY <1>3, <2>1
<1>6. ASSUME NEW x, x # Symbol PROVE Times(x, g) = Times(x, t)
  <2> DEFINE f == [i \in 1..n |-> i + 1]
  <2>1. \A i \in 1..n : f[i] \in 1..(1 + n) /\ g[f[i]] = t[i]
    BY <1>1, <1>5
  <2>2. \A i, j \in 1..n : f[i] = f[j] => i = j
    BY <1>1
  <2>3. ASSUME NEW k \in 1..(1 + n), g[k] = x PROVE \E i \in 1..n : t[i] = x /\ f[i] = k
    <3>1. k # 1
      BY <1>4, <1>6, <2>3
    <3>2. k - 1 \in 1..n /\ f[k - 1] = k
      BY <1>1, <3>1
    <3>3. t[k - 1] = x
      BY <2>1, <2>3, <3>2
    <3> QED
      BY <3>2, <3>3
  <2> HIDE DEF f
  <2>4. Pairs(f, x, t, g)
    BY <1>1, <1>3, <2>1, <2>2, <2>3 DEF Pairs
  <2> QED
    BY <1>3, <2>4, TimesPaired
<1>7. ASSUME Times(Symbol, t) = 0 PROVE Times(Symbol, g) = 1
  <2>1. \A i \in 1..n : t[i] # Symbol
    BY <1>1, <1>7, TimesTyped
  <2>2. ASSUME NEW k \in 1..(1 + n), k # 1 PROVE g[k] # Symbol
    <3>1. k - 1 \in 1..n /\ (k - 1) + 1 = k
      BY <1>1, <2>2
    <3> QED
      BY <1>5, <2>1, <3>1
  <2>3. {k \in DOMAIN g : g[k] = Symbol} = {1}
    BY <1>1, <1>3, <1>4, <2>2
  <2> QED
    BY <2>3, FS_Singleton DEF Times
<1> QED
  BY <1>1, <1>3, <1>4, <1>5, <1>6, <1>7 DEF g

\* A list of fields as the streamer requires it, for what was asked.
Required(want, got) ==
    /\ got \in Seq(Nat) /\ got # <<>>
    /\ Head(got) = Symbol
    /\ \A j \in 1..(Len(got) - 1) : got[j] <= got[j + 1]
    /\ \A x \in Nat : Times(x, got) = IF x = Symbol /\ Times(x, want) = 0
                                      THEN 1 ELSE Times(x, want)

\* Whatever list was passed, that is what the preparation makes of it.
LEMMA PreparedAsRequired ==
    ASSUME NEW list \in Seq(Nat), list # <<>>
    PROVE  Required(list, Prepared(list))
<1> DEFINE t == Sorted(list)
           n == Len(list)
<1>1. /\ t \in Seq(Nat) /\ Len(t) = n /\ n \in Nat /\ n # 0
      /\ \A i, j \in 1..n : i < j => t[i] <= t[j]
      /\ \A x : Times(x, t) = Times(x, list)
  BY SortedList, LenProperties, EmptySeq
<1> HIDE DEF t
<1>2. t # <<>> /\ Head(t) = t[1] /\ DOMAIN t = 1..n /\ \A i \in 1..n : t[i] \in Nat
  <2>1. t # <<>>
    BY <1>1, EmptySeq
  <2>2. Head(t) = t[1]
    BY <1>1, <2>1, HeadTailProperties
  <2>3. DOMAIN t = 1..n /\ \A i \in 1..n : t[i] \in Nat
    BY <1>1, LenProperties, ElementOfSeq
  <2> QED
    BY <2>1, <2>2, <2>3
<1>3. ASSUME NEW j \in 1..(n - 1) PROVE t[j] <= t[j + 1]
  <2>1. j \in 1..n /\ j + 1 \in 1..n /\ j < j + 1
    BY <1>1
  <2> QED
    BY <1>1, <2>1
<1>4. CASE Head(t) = Symbol
  <2>1. Prepared(list) = t
    BY <1>4 DEF t, Prepared
  <2>2. Times(Symbol, list) # 0
    <3>1. 1 \in DOMAIN t /\ t[1] = Symbol
      BY <1>1, <1>2, <1>4
    <3> QED
      BY <1>1, <3>1, TimesTyped
  <2> QED
    BY <1>1, <1>2, <1>3, <1>4, <2>1, <2>2 DEF Required
<1>5. CASE Head(t) # Symbol
  <2> DEFINE g == <<Symbol>> \o t
  <2>1. Prepared(list) = g
    BY <1>5 DEF t, Prepared
  <2>2. Times(Symbol, list) = 0
    <3>1. ASSUME NEW i \in 1..n PROVE t[i] # Symbol
      <4>1. t[1] <= t[i] /\ t[1] \in Nat /\ t[1] # 0
        BY <1>1, <1>2, <1>5 DEF Symbol
      <4> QED
        BY <1>2, <4>1 DEF Symbol
    <3> QED
      BY <1>1, <1>2, <3>1, TimesTyped
  <2>3. /\ g \in Seq(Nat) /\ Len(g) = n + 1 /\ g[1] = Symbol
        /\ \A i \in 1..n : g[i + 1] = t[i]
        /\ \A x : x # Symbol => Times(x, g) = Times(x, t)
        /\ Times(Symbol, g) = 1
    BY <1>1, <2>2, SymbolInFront
  <2> HIDE DEF g
  <2>4. g # <<>> /\ Head(g) = Symbol
    BY <1>1, <2>3, EmptySeq, HeadTailProperties
  <2>5. ASSUME NEW j \in 1..n PROVE g[j] <= g[j + 1]
    <3>1. CASE j = 1
      BY <1>2, <2>3, <3>1 DEF Symbol
    <3>2. CASE j # 1
      <4>1. j - 1 \in 1..(n - 1) /\ (j - 1) + 1 = j /\ j - 1 \in 1..n
        BY <1>1, <3>2
      <4>2. g[j] = t[j - 1] /\ g[j + 1] = t[j] /\ t[j - 1] <= t[j]
        BY <1>3, <2>3, <4>1
      <4> QED
        BY <4>2
    <3> QED
      BY <3>1, <3>2
  <2> QED
    BY <1>1, <2>1, <2>2, <2>3, <2>4, <2>5 DEF Required
<1> QED
  BY <1>4, <1>5

\* Preparing it once more changes nothing about that.
LEMMA PreparedAgain ==
    ASSUME NEW want \in Seq(Nat), NEW got, Required(want, got)
    PROVE  Required(want, Prepared(got))
<1>1. got \in Seq(Nat) /\ Required(got, Prepared(got))
  BY PreparedAsRequired DEF Required
<1>2. \A x \in Nat : Times(x, Prepared(got)) = Times(x, got)
  <2>1. Times(Symbol, got) # 0
    BY DEF Required, Symbol
  <2> QED
    BY <1>1, <2>1 DEF Required
<1> QED
  BY <1>1, <1>2 DEF Required

-----------------------------------------------------------------------------
(***************************************************************************)
(* The requests that callers build                                         *)
(***************************************************************************)
Entries == [asked : FieldLists, fields : Seq(Nat), ids : Version]

RequestsTyped ==
    /\ at \in [Callers -> {"idle", "build"}]
    /\ asked \in [Callers -> FieldLists \cup {<<>>}]
    /\ fields \in [Callers -> Seq(Nat)]
    /\ record \in Seq(Entries)
    /\ info.ids \in Version

\* A vector that was passed once is, from then on, as required for what it was when it
\* was first passed; and so is what is recorded.
RequestsPrepared ==
    /\ \A c \in Callers :
          fields[c] # <<>> => asked[c] \in FieldLists /\ Required(asked[c], fields[c])
    /\ \A c \in Callers : at[c] = "build" => fields[c] # <<>>
    /\ \A i \in 1..Len(record) : Required(record[i].asked, record[i].fields)

RequestsInv == RequestsTyped /\ RequestsPrepared

\* Preparing a list, a new one or the one passed before, keeps it, ...
LEMMA SubscribeKeeps ==
    ASSUME RequestsInv, NEW c \in Callers, Subscribe(c)
    PROVE  RequestsInv'
<1>1. PICK list \in Seq(Nat) :
        /\ list # <<>>
        /\ fields' = [fields EXCEPT ![c] = Prepared(list)]
        /\ at' = [at EXCEPT ![c] = "build"]
        /\ UNCHANGED <<info, record>>
        /\ \/ list \in FieldLists /\ asked' = [asked EXCEPT ![c] = list]
           \/ list = fields[c] /\ asked' = asked
  BY UserDataAssumption DEF Subscribe, PrepareFields, RequestsInv, RequestsTyped
<1>2. /\ at \in [Callers -> {"idle", "build"}] /\ fields \in [Callers -> Seq(Nat)]
      /\ asked \in [Callers -> FieldLists \cup {<<>>}]
  BY DEF RequestsInv, RequestsTyped
<1>3. Required(list, Prepared(list)) /\ Prepared(list) \in Seq(Nat)
  BY <1>1, PreparedAsRequired DEF Required
<1>4. asked'[c] \in FieldLists /\ Required(asked'[c], Prepared(list))
  <2>1. CASE list \in FieldLists /\ asked' = [asked EXCEPT ![c] = list]
    BY <1>2, <1>3, <2>1
  <2>2. CASE list = fields[c] /\ asked' = asked
    <3>1. asked[c] \in FieldLists /\ Required(asked[c], list) /\ asked[c] \in Seq(Nat)
      BY <1>1, <2>2, UserDataAssumption DEF RequestsInv, RequestsPrepared
    <3> QED
      BY <2>2, <3>1, PreparedAgain
  <2> QED
    BY <1>1, <2>1, <2>2
<1>5. RequestsTyped'
  BY <1>1, <1>2, <1>3 DEF RequestsInv, RequestsTyped
<1>6. Prepared(list) # <<>>
  BY <1>3 DEF Required
<1>7. ASSUME NEW d \in Callers, fields'[d] # <<>>
      PROVE  asked'[d] \in FieldLists /\ Required(asked'[d], fields'[d])
  <2>1. CASE d = c
    BY <1>1, <1>2, <1>4, <2>1
  <2>2. CASE d # c
    <3>1. fields'[d] = fields[d] /\ asked'[d] = asked[d]
      BY <1>1, <1>2, <2>2
    <3> QED
      BY <1>7, <3>1 DEF RequestsInv, RequestsPrepared
  <2> QED
    BY <2>1, <2>2
<1>8. ASSUME NEW d \in Callers, at'[d] = "build" PROVE fields'[d] # <<>>
  BY <1>1, <1>2, <1>6, <1>8 DEF RequestsInv, RequestsPrepared
<1>9. \A i \in 1..Len(record') : Required(record'[i].asked, record'[i].fields)
  BY <1>1 DEF RequestsInv, RequestsPrepared
<1> QED
  BY <1>5, <1>7, <1>8, <1>9 DEF RequestsInv, RequestsPrepared

\* ... recording the request that was built from it does, ...
LEMMA BuildKeeps ==
    ASSUME RequestsInv, NEW c \in Callers, BuildRequest(c)
    PROVE  RequestsInv'
<1> DEFINE e == [asked |-> asked[c], fields |-> fields[c], ids |-> info.ids]
<1>1. /\ record' = Append(record, e)
      /\ at[c] = "build" /\ at' = [at EXCEPT ![c] = "idle"]
      /\ UNCHANGED <<asked, fields, info>>
  BY DEF BuildRequest
<1>2. asked[c] \in FieldLists /\ Required(asked[c], fields[c])
  BY <1>1 DEF RequestsInv, RequestsPrepared
<1>3. e \in Entries
  BY <1>2 DEF Entries, RequestsInv, RequestsTyped
<1>4. e.asked = asked[c] /\ e.fields = fields[c]
  OBVIOUS
<1> HIDE DEF e
<1>5. record \in Seq(Entries)
  BY DEF RequestsInv, RequestsTyped
<1>6. /\ record' \in Seq(Entries) /\ Len(record') = Len(record) + 1
      /\ \A i \in 1..Len(record) : record'[i] = record[i]
      /\ record'[Len(record) + 1] = e
      /\ Len(record) \in Nat
  BY <1>1, <1>3, <1>5, AppendProperties, LenProperties
<1>7. ASSUME NEW i \in 1..Len(record')
      PROVE  Required(record'[i].asked, record'[i].fields)
  <2>1. CASE i = Len(record) + 1
    BY <1>2, <1>4, <1>6, <2>1
  <2>2. CASE i # Len(record) + 1
    <3>1. i \in 1..Len(record)
      BY <1>6, <2>2
    <3> QED
      BY <1>6, <3>1 DEF RequestsInv, RequestsPrepared
  <2> QED
    BY <2>1, <2>2
<1>8. RequestsTyped'
  BY <1>1, <1>6 DEF RequestsInv, RequestsTyped
<1> QED
  BY <1>1, <1>7, <1>8 DEF RequestsInv, RequestsTyped, RequestsPrepared

\* ... and all else leaves the requests alone.
LEMMA RequestsStep == TornInv /\ RequestsInv /\ [Next]_vars => RequestsInv'
<1> SUFFICES ASSUME TornInv, RequestsInv, [Next]_vars PROVE RequestsInv'
  OBVIOUS
<1>1. info'.ids \in Version
  BY TornStep DEF TornInv, DataTyped, Info
<1>2. ASSUME UNCHANGED callerVars PROVE RequestsInv'
  BY <1>1, <1>2 DEF callerVars, RequestsInv, RequestsTyped, RequestsPrepared
<1>3. CASE ServerChanges \/ MainStep \/ UpdateStep \/ LoginStep \/ InfoRaces
  <2>1. UNCHANGED callerVars
    BY <1>3 DEF ServerChanges, MainStep, Connect, Construct, Publish, UpdateStep, Request,
       AllAssigned, NoInfoAssigned, SomeAssigned, TestStreamer, WriteIds, WriteChannel,
       LoginStep, LoginReadsChannel, LoginReadsIds, InfoRaces, Dies
  <2> QED
    BY <1>2, <2>1
<1>4. ASSUME NEW c \in Callers, CallerStep(c) PROVE RequestsInv'
  BY <1>2, <1>4, SubscribeKeeps, BuildKeeps DEF CallerStep, SubscribeToNothing, Dies
<1>5. CASE UNCHANGED vars
  BY <1>2, <1>5 DEF vars
<1> QED
  BY <1>3, <1>4, <1>5 DEF Next

LEMMA RequestsAlways == Spec => [](TornInv /\ RequestsInv)
<1>1. Init => RequestsInv
  <2> SUFFICES ASSUME Init PROVE RequestsInv
    OBVIOUS
  <2>1. record = <<>> /\ Len(record) = 0 /\ record \in Seq(Entries)
    BY EmptySeq DEF Init
  <2>2. info.ids \in Version
    BY UserDataAssumption DEF Init, AllOf, Version
  <2>3. RequestsTyped
    BY <2>1, <2>2, EmptySeq DEF Init, RequestsTyped
  <2>4. RequestsPrepared
    BY <2>1 DEF Init, RequestsPrepared
  <2> QED
    BY <2>3, <2>4 DEF RequestsInv
<1> QED
  BY <1>1, TornInit, TornStep, RequestsStep, PTL DEF Spec

\* Every subscription request ever recorded names its fields as the streamer requires
\* them: those asked for, as often as asked, in ascending order, behind Symbol; for any
\* lists, any number of threads, and vectors passed again.
THEOREM RequestsAsRequired == Spec => []FieldsAsRequired
<1>1. RequestsInv => FieldsAsRequired
  <2> SUFFICES ASSUME RequestsInv, NEW i \in DOMAIN record
               PROVE  LET want == record[i].asked
                          got  == record[i].fields
                      IN  /\ Head(got) = Symbol
                          /\ \A j \in 1..(Len(got) - 1) : got[j] <= got[j + 1]
                          /\ \A x \in {got[j] : j \in DOMAIN got}
                                          \cup {want[j] : j \in DOMAIN want} :
                                Times(x, got) = IF x = Symbol /\ Times(x, want) = 0
                                                THEN 1 ELSE Times(x, want)
    BY DEF FieldsAsRequired
  <2> DEFINE want == record[i].asked
             got  == record[i].fields
  <2>1. i \in 1..Len(record) /\ record[i] \in Entries
    BY LenProperties, ElementOfSeq DEF RequestsInv, RequestsTyped
  <2>2. want \in Seq(Nat) /\ got \in Seq(Nat) /\ Required(want, got)
    BY <2>1, UserDataAssumption DEF Entries, RequestsInv, RequestsPrepared
  <2> HIDE DEF want, got
  <2>3. \A x \in {got[j] : j \in DOMAIN got} \cup {want[j] : j \in DOMAIN want} : x \in Nat
    BY <2>2, LenProperties, ElementOfSeq
  <2>4. /\ Head(got) = Symbol
        /\ \A j \in 1..(Len(got) - 1) : got[j] <= got[j + 1]
        /\ \A x \in {got[j] : j \in DOMAIN got} \cup {want[j] : j \in DOMAIN want} :
              Times(x, got) = IF x = Symbol /\ Times(x, want) = 0
                              THEN 1 ELSE Times(x, want)
    BY <2>2, <2>3 DEF Required
  <2> QED
    BY <2>4 DEF want, got
<1> QED
  BY <1>1, RequestsAlways, PTL

\* The positions of the threads, which the versions do not depend on.
PlacesTyped ==
    /\ bad \in 0..MaxBad
    /\ main \in {"off", "update", "construct", "publish", "ready", "dead"}
    /\ updater \in {"idle", "answered", "parsed", "hand", "write"}

\* Every variable keeps its type, and the streamer's copy is written only once the
\* streamer is there.
THEOREM UserDataTypeCorrect == Spec => []TypeOK
<1>1. Init => PlacesTyped
  BY UserDataAssumption DEF Init, PlacesTyped
<1>2. PlacesTyped /\ [Next]_vars => PlacesTyped'
  <2> SUFFICES ASSUME PlacesTyped, [Next]_vars PROVE PlacesTyped'
    OBVIOUS
  <2> USE UserDataAssumption DEF PlacesTyped, clientVars
  <2>1. CASE ServerChanges \/ MainStep \/ LoginStep \/ InfoRaces \/ UNCHANGED vars
    BY <2>1 DEF ServerChanges, MainStep, Connect, Construct, Publish, LoginStep,
       LoginReadsChannel, LoginReadsIds, InfoRaces, Dies, vars
  <2>2. CASE UpdateStep
    BY <2>2 DEF UpdateStep, Request, AllAssigned, NoInfoAssigned, SomeAssigned, UpdateEnds,
       TestStreamer, WriteIds, WriteChannel
  <2>3. ASSUME NEW c \in Callers, CallerStep(c) PROVE PlacesTyped'
    BY <2>3 DEF CallerStep, Subscribe, PrepareFields, BuildRequest, SubscribeToNothing, Dies
  <2> QED
    BY <2>1, <2>2, <2>3 DEF Next
<1>3. TornInv /\ RequestsInv /\ PlacesTyped => TypeOK
  <2> SUFFICES ASSUME TornInv, RequestsInv, PlacesTyped PROVE TypeOK
    OBVIOUS
  <2>1. reading \in Seq(Version)
    <3>1. CASE reading = <<>>
      BY <3>1, EmptySeq
    <3>2. ASSUME NEW v \in Version, reading = <<v>> PROVE reading \in Seq(Version)
      BY <3>2
    <3> QED
      BY <3>1, <3>2 DEF TornInv, DataTyped
  <2>2. record \in Seq([asked : FieldLists, fields : Seq(Nat), ids : Version])
    BY DEF RequestsInv, RequestsTyped, Entries
  <2> QED
    BY <2>1, <2>2 DEF TypeOK, TornInv, DataTyped, OneWriter, RequestsInv, RequestsTyped,
       PlacesTyped
<1> QED
  BY <1>1, <1>2, <1>3, RequestsAlways, PTL DEF Spec
=============================================================================
