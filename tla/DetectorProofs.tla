--------------------------- MODULE DetectorProofs ---------------------------
(***************************************************************************)
(* Proofs about Detector for any addresses, threshold, window, cache size  *)
(* and any number of calls.                                                *)
(***************************************************************************)
EXTENDS Detector, FiniteSetTheorems, WellFoundedInduction, TLAPS

----------------------------------------------------------------------------
(* Sets of hits. *)

\* A non-empty set of hits has an earliest one.
LEMMA SmallestHit ==
  ASSUME NEW T \in SUBSET Nat, T # {}
  PROVE  \E m \in T : \A t \in T : m <= t
<1> DEFINE Less == {ss \in Nat \X Nat : ss[1] < ss[2]}
<1>1. IsWellFoundedOn(Less, Nat) BY NatLessThanWellFounded DEF OpToRel
<1> HIDE DEF Less
<1>2. \E m \in T : \A t \in T : ~ (<<t, m>> \in Less) BY <1>1, WFMin
<1>3. \A t, m \in Nat : ~ (<<t, m>> \in Less) => m <= t BY DEF Less
<1> QED BY <1>2, <1>3

\* A non-empty set of hits that ends has a latest one, the one Newest picks.
LEMMA LargestHit ==
  ASSUME NEW T \in SUBSET Nat, T # {}, NEW n \in Nat, \A t \in T : t <= n
  PROVE  /\ Newest(T) \in T
         /\ \A t \in T : t <= Newest(T)
<1> DEFINE D == {n - t : t \in T}
<1>1. D \in SUBSET Nat /\ D # {}
  <2>1. \A t \in T : n - t \in Nat OBVIOUS
  <2> QED BY <2>1
<1>2. PICK d \in D : \A e \in D : d <= e BY <1>1, SmallestHit
<1>3. PICK m \in T : d = n - m BY <1>2
<1>4. \A t \in T : t <= m
  <2> TAKE t \in T
  <2>1. n - t \in D OBVIOUS
  <2>2. n - m <= n - t BY <1>2, <1>3, <2>1
  <2> QED BY <2>2
<1> QED BY <1>4 DEF Newest

\* drain leaves no more than Cap hits, some of those it was given.
LEMMA CapBound ==
  ASSUME NEW S \in SUBSET Nat, IsFiniteSet(S)
  PROVE  KeepCap(S) \subseteq S /\ IsFiniteSet(KeepCap(S)) /\ Cardinality(KeepCap(S)) <= Cap
<1>1. KeepCap(S) \in SUBSET S BY DEF KeepCap
<1>2. IsFiniteSet(KeepCap(S)) /\ Cardinality(KeepCap(S)) \in Nat
  BY <1>1, FS_Subset, FS_CardinalityType
<1>3. Cap \in Nat BY DetectorAssumption DEF Cap
<1>4. ASSUME KeepCap(S) # {} PROVE Cardinality(KeepCap(S)) <= Cap
  <2>1. PICK m \in KeepCap(S) : \A t \in KeepCap(S) : m <= t BY <1>1, <1>4, SmallestHit
  <2> DEFINE Newer == {g \in S : g > m}
  <2>2. IsFiniteSet(Newer) /\ Cardinality(Newer) \in Nat BY FS_Subset, FS_CardinalityType
  <2>3. Cardinality(Newer) < Cap BY <2>1 DEF KeepCap
  <2>4. \A t \in KeepCap(S) \ {m} : t \in Newer
    <3> TAKE t \in KeepCap(S) \ {m}
    <3>1. t \in S /\ m \in Nat /\ t \in Nat /\ m <= t /\ t # m BY <1>1, <2>1
    <3> QED BY <3>1
  <2>5. Cardinality(KeepCap(S) \ {m}) <= Cardinality(Newer) BY <2>2, <2>4, FS_Subset
  <2>6. Cardinality(KeepCap(S) \ {m}) = Cardinality(KeepCap(S)) - 1
    BY <1>2, <2>1, FS_RemoveElement
  <2> QED BY <1>2, <1>3, <2>2, <2>3, <2>5, <2>6
<1>5. KeepCap(S) = {} => Cardinality(KeepCap(S)) <= Cap BY <1>3, FS_EmptySet
<1> QED BY <1>1, <1>2, <1>4, <1>5

\* The address and the time of a hit of any log.
LEMMA HitOfLog ==
  ASSUME NEW L \in Seq([ip : Ips, at : Nat])
  PROVE  \A h \in 1 .. Len(L) : L[h].ip \in Ips /\ L[h].at \in Nat
<1> DEFINE Hit == [ip : Ips, at : Nat]
<1>1. \A x \in Hit : x.ip \in Ips /\ x.at \in Nat OBVIOUS
<1>2. L \in Seq(Hit) OBVIOUS
<1> HIDE DEF Hit
<1>3. \A h \in 1 .. Len(L) : L[h] \in Hit BY <1>2
<1> QED BY <1>1, <1>3

----------------------------------------------------------------------------
(* What a call does to the log and to the entries. *)

\* Hits are in the order of their times, none of them in the future.
LogOrder ==
  /\ \A h \in 1 .. Len(log) : log[h].at <= now
  /\ \A g, h \in 1 .. Len(log) : g <= h => log[g].at <= log[h].at

\* The newest hit of an address is still in its entry, if it has one.
NewestKept ==
  \A ip \in Ips, h \in 1 .. Len(log) :
    history[ip] # {} /\ log[h].ip = ip => \E e \in history[ip] : h <= e

TrackerInv == TypeOK /\ LogOrder /\ NewestKept /\ MemoryBound

\* The hits of ip that a call by ip at position n works on.
Called(ip) == Prune(Evict(ip)[ip] \cup {Len(log) + 1}, log')

\* What a call appends to the history of hits, and that it keeps the earlier ones.
LEMMA LogOfRecord ==
  ASSUME TypeOK, NEW ip \in Ips, Record(ip)
  PROVE  /\ Len(log) \in Nat /\ Len(log') = Len(log) + 1
         /\ log' \in Seq([ip : Ips, at : Nat])
         /\ \A h \in 1 .. Len(log) : log'[h] = log[h]
         /\ log'[Len(log) + 1] = [ip |-> ip, at |-> now] /\ log'[Len(log) + 1].ip = ip
         /\ \A h \in 1 .. Len(log') : log'[h] \in [ip : Ips, at : Nat]
<1>1. [ip |-> ip, at |-> now] \in [ip : Ips, at : Nat] BY DEF TypeOK
<1>2. log \in Seq([ip : Ips, at : Nat]) /\ log' = Append(log, [ip |-> ip, at |-> now])
  BY DEF TypeOK, Record
<1> DEFINE Hit == [ip : Ips, at : Nat]  hit == [ip |-> ip, at |-> now]
<1> HIDE DEF Hit, hit
<1>3. log \in Seq(Hit) /\ hit \in Hit /\ log' = Append(log, hit) BY <1>1, <1>2 DEF Hit, hit
<1>4. /\ Len(log) \in Nat /\ Len(log') = Len(log) + 1 /\ log' \in Seq(Hit)
      /\ \A h \in 1 .. Len(log) : log'[h] = log[h]
      /\ log'[Len(log) + 1] = hit
      /\ \A h \in 1 .. Len(log') : log'[h] \in Hit
  BY <1>3
<1>5. hit.ip = ip BY DEF hit
<1> QED BY <1>4, <1>5 DEF Hit, hit

\* What a call makes of the entries: the caller's is pruned and capped, the others keep
\* what the eviction left.
LEMMA EntriesOfRecord ==
  ASSUME TypeOK, NEW ip \in Ips, Record(ip)
  PROVE  /\ history' = [Evict(ip) EXCEPT ![ip] = KeepCap(Called(ip))]
         /\ alarm' = (Cardinality(KeepCap(Called(ip))) >= Threshold)
         /\ now' = now
         /\ Evict(ip)[ip] = history[ip]
         /\ \A j \in Ips \ {ip} : history'[j] = Evict(ip)[j]
         /\ history'[ip] = KeepCap(Called(ip))
         /\ DOMAIN history' = Ips
<1>1. history' = [Evict(ip) EXCEPT ![ip] = KeepCap(Called(ip))]
      /\ alarm' = (Cardinality(KeepCap(Called(ip))) >= Threshold) /\ now' = now
  BY DEF Record, Called
<1>2. DOMAIN Evict(ip) = Ips BY DEF Evict
<1>3. Evict(ip)[ip] = history[ip]
  <2>1. ip \notin Tracked => history[ip] = {} BY DEF Tracked
  <2> QED BY <2>1 DEF Evict
<1> QED BY <1>1, <1>2, <1>3

\* A call keeps its own hit, drops only hits out of the window or beyond the cap, and
\* works on hits of its own address only.
LEMMA EntryOfCaller ==
  ASSUME TypeOK, NEW ip \in Ips, Record(ip)
  PROVE  /\ Called(ip) \in SUBSET (1 .. Len(log')) /\ IsFiniteSet(Called(ip))
         /\ Called(ip) = {h \in history[ip] \cup {Len(log) + 1} : log'[h].at >= now - Window}
         /\ \A h \in Called(ip) : log'[h].ip = ip
         /\ Len(log') \in KeepCap(Called(ip))
         /\ KeepCap(Called(ip)) \subseteq Called(ip)
         /\ IsFiniteSet(KeepCap(Called(ip))) /\ Cardinality(KeepCap(Called(ip))) <= Cap
<1> DEFINE n == Len(log) + 1
<1>1. /\ Len(log) \in Nat /\ Len(log') = n /\ log'[n] = [ip |-> ip, at |-> now]
      /\ \A h \in 1 .. Len(log) : log'[h] = log[h]
      /\ Evict(ip)[ip] = history[ip]
  BY LogOfRecord, EntriesOfRecord
<1>2. \A h \in history[ip] : h \in 1 .. Len(log) /\ log[h].ip = ip BY DEF TypeOK
<1>3. Called(ip) = {h \in history[ip] \cup {n} : log'[h].at >= now - Window}
  BY <1>1 DEF Called, Prune
<1>4. \A h \in Called(ip) : h \in 1 .. n /\ log'[h].ip = ip
  BY <1>1, <1>2, <1>3
<1>5. IsFiniteSet(Called(ip))
  <2>1. IsFiniteSet(1 .. n) BY <1>1, FS_Interval
  <2> QED BY <1>4, <2>1, FS_Subset
<1>6. n \in KeepCap(Called(ip))
  <2>1. n \in Called(ip) BY <1>1, <1>3, DetectorAssumption DEF TypeOK
  <2>2. {g \in Called(ip) : g > n} = {} BY <1>1, <1>4
  <2>3. 0 < Cap BY DetectorAssumption DEF Cap
  <2>4. Cardinality({g \in Called(ip) : g > n}) < Cap BY <2>2, <2>3, FS_EmptySet
  <2> QED BY <2>1, <2>4 DEF KeepCap
<1>7. Called(ip) \in SUBSET Nat BY <1>1, <1>4
<1> QED BY <1>1, <1>3, <1>4, <1>5, <1>6, <1>7, CapBound

----------------------------------------------------------------------------
(* The bookkeeping is right and bounded. *)

\* With an entry in the cache, the least recently seen one is well defined: its newest
\* hit is the newest of its address, and older than those of the other entries.
LEMMA LeastRecentEntry ==
  ASSUME TrackerInv, Tracked # {}
  PROVE  /\ LeastRecent \in Tracked
         /\ \A j \in Tracked : /\ Newest(history[j]) \in history[j]
                               /\ \A h \in history[j] : h <= Newest(history[j])
                               /\ Newest(history[LeastRecent]) <= Newest(history[j])
<1>1. /\ \A ip \in Ips : history[ip] \in SUBSET Nat /\ \A h \in history[ip] : h <= Len(log)
      /\ Len(log) \in Nat
  BY DEF TrackerInv, TypeOK
<1>2. \A j \in Tracked : Newest(history[j]) \in history[j] /\ \A h \in history[j] : h <= Newest(history[j])
  BY <1>1, LargestHit DEF Tracked
<1> DEFINE N == {Newest(history[j]) : j \in Tracked}
<1>3. N \in SUBSET Nat /\ N # {} BY <1>1, <1>2 DEF Tracked
<1>4. PICK m \in N : \A t \in N : m <= t BY <1>3, SmallestHit
<1>5. \E ip \in Tracked : \A j \in Tracked : Newest(history[ip]) <= Newest(history[j])
  BY <1>4
<1>6. LeastRecent \in Tracked /\ \A j \in Tracked : Newest(history[LeastRecent]) <= Newest(history[j])
  BY <1>5 DEF LeastRecent
<1> QED BY <1>2, <1>6

\* record_and_check keeps the invariant of the tracker.
LEMMA TrackerRecord ==
  ASSUME TrackerInv, NEW ip \in Ips, Record(ip)
  PROVE  TrackerInv'
<1> DEFINE n == Len(log) + 1
<1>1. TypeOK /\ LogOrder /\ NewestKept /\ MemoryBound BY DEF TrackerInv
<1>2. /\ Len(log) \in Nat /\ Len(log') = n /\ log'[n] = [ip |-> ip, at |-> now]
      /\ \A h \in 1 .. Len(log) : log'[h] = log[h]
      /\ log' \in Seq([ip : Ips, at : Nat])
  BY <1>1, LogOfRecord
<1>3. /\ now' = now /\ DOMAIN history' = Ips /\ history'[ip] = KeepCap(Called(ip))
      /\ \A j \in Ips \ {ip} : history'[j] = history[j] \/ history'[j] = {}
  BY <1>1, EntriesOfRecord DEF Evict
<1>4. /\ KeepCap(Called(ip)) \in SUBSET (1 .. n) /\ n \in KeepCap(Called(ip))
      /\ Cardinality(KeepCap(Called(ip))) <= Cap
      /\ \A h \in KeepCap(Called(ip)) : log'[h].ip = ip
  BY <1>1, <1>2, EntryOfCaller
<1>5. \A j \in Ips : \A h \in history'[j] : h \in 1 .. n /\ log'[h].ip = j
  <2> TAKE j \in Ips
  <2>1. CASE j = ip BY <1>3, <1>4, <2>1
  <2>2. CASE j # ip
    <3>1. \A h \in history[j] : h \in 1 .. Len(log) /\ log[h].ip = j BY <1>1 DEF TypeOK
    <3>2. \A h \in history[j] : h \in 1 .. n /\ log'[h].ip = j BY <1>2, <3>1
    <3>3. history'[j] = history[j] \/ history'[j] = {} BY <1>3, <2>2
    <3> QED BY <3>2, <3>3
  <2> QED BY <2>1, <2>2
<1>6. TypeOK'
  <2>1. history' \in [Ips -> SUBSET Nat]
    <3>1. \A j \in Ips : history'[j] \in SUBSET Nat BY <1>2, <1>5
    <3>2. history' = [j \in Ips |-> history'[j]] BY <1>3 DEF Record, Evict
    <3> QED BY <3>1, <3>2
  <2>2. alarm' \in BOOLEAN BY DEF Record
  <2>3. now' \in Nat BY <1>1, <1>3 DEF TypeOK
  <2> QED BY <1>2, <1>5, <2>1, <2>2, <2>3 DEF TypeOK
<1>7. LogOrder'
  <2>1. \A h \in 1 .. n : log'[h].at <= now
    BY <1>1, <1>2 DEF LogOrder, TypeOK
  <2>2. \A g, h \in 1 .. Len(log) : g <= h => log'[g].at <= log'[h].at
    BY <1>1, <1>2 DEF LogOrder
  <2>3. \A g \in 1 .. n : log'[g].at <= log'[n].at BY <1>2, <2>1
  <2>4. \A g, h \in 1 .. n : g <= h => h = n \/ (g \in 1 .. Len(log) /\ h \in 1 .. Len(log))
    BY <1>2
  <2>5. \A g, h \in 1 .. n : g <= h => log'[g].at <= log'[h].at BY <2>2, <2>3, <2>4
  <2> QED BY <1>2, <1>3, <2>1, <2>5 DEF LogOrder
<1>8. NewestKept'
  <2> SUFFICES ASSUME NEW j \in Ips, NEW h \in 1 .. n, history'[j] # {}, log'[h].ip = j
               PROVE  \E e \in history'[j] : h <= e
    BY <1>2 DEF NewestKept
  <2>1. CASE j = ip BY <1>3, <1>4, <2>1
  <2>2. CASE j # ip
    <3>1. history'[j] = history[j] BY <1>3, <2>2
    <3>2. h \in 1 .. Len(log) /\ log[h].ip = j BY <1>2, <2>2
    <3> QED BY <1>1, <3>1, <3>2 DEF NewestKept
  <2> QED BY <2>1, <2>2
<1>9. Cardinality(Tracked') <= MaxTracked
  <2>1. Tracked' \in SUBSET (Tracked \cup {ip}) BY <1>3 DEF Tracked
  <2>2. IsFiniteSet(Tracked) /\ Cardinality(Tracked) \in Nat
    <3>1. Tracked \in SUBSET Ips BY DEF Tracked
    <3> QED BY <3>1, DetectorAssumption, FS_Subset, FS_CardinalityType
  <2>3. Cardinality(Tracked) <= MaxTracked BY <1>1 DEF MemoryBound
  <2>4. CASE ip \in Tracked
    <3>1. Tracked' \in SUBSET Tracked BY <2>1, <2>4
    <3>2. IsFiniteSet(Tracked') /\ Cardinality(Tracked') <= Cardinality(Tracked)
      BY <2>2, <3>1, FS_Subset
    <3> QED BY <2>2, <2>3, <3>2, FS_CardinalityType, DetectorAssumption
  <2>5. CASE ip \notin Tracked /\ Cardinality(Tracked) < MaxTracked
    <3>1. IsFiniteSet(Tracked \cup {ip}) /\ Cardinality(Tracked \cup {ip}) = Cardinality(Tracked) + 1
      BY <2>2, <2>5, FS_AddElement
    <3>2. IsFiniteSet(Tracked') /\ Cardinality(Tracked') <= Cardinality(Tracked) + 1
      BY <2>1, <3>1, FS_Subset
    <3> QED BY <2>2, <2>5, <3>2, FS_CardinalityType, DetectorAssumption
  <2>6. CASE ip \notin Tracked /\ ~(Cardinality(Tracked) < MaxTracked)
    <3>1. Tracked # {} BY <2>6, FS_EmptySet, DetectorAssumption
    <3>2. LeastRecent \in Tracked BY <3>1, LeastRecentEntry
    <3>3. history'[LeastRecent] = {}
      <4>1. LeastRecent \in Ips /\ LeastRecent # ip BY <2>6, <3>2 DEF Tracked
      <4>2. history'[LeastRecent] = Evict(ip)[LeastRecent] BY <1>1, <4>1, EntriesOfRecord
      <4>3. Cardinality(Tracked) >= MaxTracked BY <2>2, <2>6, DetectorAssumption
      <4> QED BY <2>6, <4>1, <4>2, <4>3 DEF Evict
    <3>4. Tracked' \in SUBSET ((Tracked \ {LeastRecent}) \cup {ip})
      BY <2>1, <2>6, <3>2, <3>3 DEF Tracked
    <3>5. /\ IsFiniteSet(Tracked \ {LeastRecent})
          /\ Cardinality(Tracked \ {LeastRecent}) = Cardinality(Tracked) - 1
      BY <2>2, <3>2, FS_RemoveElement
    <3>6. /\ IsFiniteSet((Tracked \ {LeastRecent}) \cup {ip})
          /\ Cardinality((Tracked \ {LeastRecent}) \cup {ip}) = Cardinality(Tracked)
      BY <2>2, <2>6, <3>5, FS_AddElement
    <3>7. IsFiniteSet(Tracked') /\ Cardinality(Tracked') <= Cardinality(Tracked)
      BY <3>4, <3>6, FS_Subset
    <3> QED BY <2>2, <2>3, <3>7, FS_CardinalityType, DetectorAssumption
  <2> QED BY <2>4, <2>5, <2>6
<1>10. \A j \in Ips : Cardinality(history'[j]) <= Cap
  <2> TAKE j \in Ips
  <2>1. CASE j = ip BY <1>3, <1>4, <2>1
  <2>2. CASE j # ip /\ history'[j] = history[j] BY <1>1, <2>2 DEF MemoryBound
  <2>3. CASE history'[j] = {} BY <2>3, FS_EmptySet, DetectorAssumption DEF Cap
  <2> QED BY <1>3, <2>1, <2>2, <2>3
<1> QED BY <1>6, <1>7, <1>8, <1>9, <1>10 DEF TrackerInv, MemoryBound

\* The purge of old entries and the passing of time keep the invariant of the tracker.
LEMMA TrackerRest ==
  ASSUME TrackerInv, PurgeAllOld \/ Tick \/ UNCHANGED vars
  PROVE  TrackerInv'
<1>1. TypeOK /\ LogOrder /\ NewestKept /\ MemoryBound BY DEF TrackerInv
<1>2. CASE PurgeAllOld
  <2>1. UNCHANGED <<now, log, alarm>> /\ DOMAIN history' = Ips
        /\ \A ip \in Ips : history'[ip] = history[ip] \/ history'[ip] = {}
    BY <1>2 DEF PurgeAllOld
  <2>2. TypeOK'
    <3>1. history' \in [Ips -> SUBSET Nat]
      <4>1. history' = [ip \in Ips |-> history'[ip]] BY <1>2, <2>1 DEF PurgeAllOld
      <4> QED BY <1>1, <2>1, <4>1 DEF TypeOK
    <3> QED BY <1>1, <2>1, <3>1 DEF TypeOK
  <2>3. LogOrder' BY <1>1, <2>1 DEF LogOrder
  <2>4. NewestKept' BY <1>1, <2>1 DEF NewestKept
  <2>5. Tracked' \in SUBSET Tracked BY <2>1 DEF Tracked
  <2>6. IsFiniteSet(Tracked) BY DetectorAssumption, FS_Subset DEF Tracked
  <2>7. Cardinality(Tracked') <= MaxTracked
    BY <1>1, <2>5, <2>6, FS_Subset, FS_CardinalityType, DetectorAssumption DEF MemoryBound
  <2>8. \A ip \in Ips : Cardinality(history'[ip]) <= Cap
    BY <1>1, <2>1, FS_EmptySet, DetectorAssumption DEF MemoryBound, Cap
  <2> QED BY <2>2, <2>3, <2>4, <2>7, <2>8 DEF TrackerInv, MemoryBound
<1>3. CASE Tick \/ UNCHANGED vars
  <2>1. UNCHANGED <<log, history, alarm>> /\ now <= now' /\ now' \in Nat
    BY <1>1, <1>3 DEF Tick, vars, TypeOK
  <2>2. TypeOK' BY <1>1, <2>1 DEF TypeOK
  <2>3. LogOrder'
    <3>1. \A h \in 1 .. Len(log) : log[h].at \in Nat BY <1>1, HitOfLog DEF TypeOK
    <3>2. \A h \in 1 .. Len(log) : log[h].at <= now' BY <1>1, <2>1, <3>1 DEF LogOrder, TypeOK
    <3> QED BY <1>1, <2>1, <3>2 DEF LogOrder
  <2>4. NewestKept' BY <1>1, <2>1 DEF NewestKept
  <2>5. MemoryBound' BY <1>1, <2>1 DEF MemoryBound, Tracked
  <2> QED BY <2>2, <2>3, <2>4, <2>5 DEF TrackerInv
<1> QED BY <1>2, <1>3

\* A new tracker satisfies the invariant.
LEMMA TrackerInit == Init => TrackerInv
<1> SUFFICES ASSUME Init PROVE TrackerInv OBVIOUS
<1>1. Tracked = {} BY DEF Init, Tracked
<1>2. MemoryBound BY <1>1, FS_EmptySet, DetectorAssumption DEF Init, MemoryBound, Cap
<1>3. TypeOK
  <2>1. log \in Seq([ip : Ips, at : Nat]) BY DEF Init
  <2>2. history \in [Ips -> SUBSET Nat] /\ \A ip \in Ips : history[ip] = {} BY DEF Init
  <2> QED BY <2>1, <2>2 DEF Init, TypeOK
<1> QED BY <1>2, <1>3 DEF Init, TrackerInv, LogOrder, NewestKept

\* The invariant of the tracker holds in every state.
LEMMA TrackerInvariant == Spec => []TrackerInv
<1>1. TrackerInv /\ [Next]_vars => TrackerInv' BY TrackerRecord, TrackerRest DEF Next
<1> QED BY TrackerInit, <1>1, PTL DEF Spec

\* The entries stay well formed: evicting, pruning, capping and purging never leave a
\* hit in the entry of another address.
THEOREM TrackerTypes == Spec => []TypeOK
<1>1. TrackerInv => TypeOK BY DEF TrackerInv
<1> QED BY <1>1, TrackerInvariant, PTL

\* The tracker stays within its bounds whatever the clients do.
THEOREM MemoryIsBounded == Spec => []MemoryBound
<1>1. TrackerInv => MemoryBound BY DEF TrackerInv
<1> QED BY <1>1, TrackerInvariant, PTL

----------------------------------------------------------------------------
(* The verdict. *)

\* The hits a call works on are hits of the window that ends with the call.
LEMMA CalledRecent ==
  ASSUME TrackerInv, NEW ip \in Ips, Record(ip)
  PROVE  /\ Len(log') \in Nat \ {0} /\ log' # <<>>
         /\ Recent(Len(log))' = {h \in 1 .. Len(log') : log'[h].ip = ip /\ log'[h].at >= now - Window}
         /\ Called(ip) \subseteq Recent(Len(log))'
         /\ IsFiniteSet(Recent(Len(log))') /\ Cardinality(Recent(Len(log)))' \in Nat
<1> DEFINE n == Len(log')
<1>1. /\ Len(log) \in Nat /\ n = Len(log) + 1 /\ log'[n] = [ip |-> ip, at |-> now] /\ now' = now
      /\ log' \in Seq([ip : Ips, at : Nat])
  BY LogOfRecord, EntriesOfRecord DEF TrackerInv
<1>2. Called(ip) \in SUBSET (1 .. n) /\ \A h \in Called(ip) : log'[h].ip = ip /\ log'[h].at >= now - Window
  BY <1>1, EntryOfCaller DEF TrackerInv
<1>3. log'[n].ip = ip /\ log'[n].at = now BY <1>1
<1> DEFINE R == {h \in 1 .. n : log'[h].ip = ip /\ log'[h].at >= now - Window}
<1>4. Recent(Len(log))' = R BY <1>3 DEF Recent
<1>5. R \in SUBSET (1 .. n) OBVIOUS
<1>6. IsFiniteSet(1 .. n) BY <1>1, FS_Interval
<1>7. IsFiniteSet(R) /\ Cardinality(R) \in Nat BY <1>5, <1>6, FS_Subset, FS_CardinalityType
<1>8. Called(ip) \subseteq R BY <1>2
<1>9. log' # <<>> /\ n \in Nat \ {0} BY <1>1
<1> HIDE DEF R
<1> QED BY <1>4, <1>7, <1>8, <1>9 DEF R

\* NoFalseAlarm is preserved: the hits an alarm counts are all recent hits of the caller.
LEMMA FalseAlarmStep == TrackerInv /\ NoFalseAlarm /\ [Next]_vars => NoFalseAlarm'
<1> SUFFICES ASSUME TrackerInv, NoFalseAlarm, [Next]_vars PROVE NoFalseAlarm' OBVIOUS
<1>1. ASSUME NEW ip \in Ips, Record(ip) PROVE NoFalseAlarm'
  <2> DEFINE K == KeepCap(Called(ip))  R == Recent(Len(log))'
  <2>1. alarm' = (Cardinality(K) >= Threshold)
    BY <1>1, EntriesOfRecord DEF TrackerInv
  <2>2. log' # <<>> /\ K \in SUBSET R /\ IsFiniteSet(K) /\ IsFiniteSet(R)
    BY <1>1, CalledRecent, EntryOfCaller DEF TrackerInv
  <2> HIDE DEF K, R
  <2>3. Cardinality(K) <= Cardinality(R) /\ Cardinality(K) \in Nat /\ Cardinality(R) \in Nat
    BY <2>2, FS_Subset, FS_CardinalityType
  <2>4. Cardinality(K) >= Threshold => Cardinality(R) >= Threshold BY <2>3, DetectorAssumption
  <2>5. alarm' => Cardinality(R) >= Threshold BY <2>1, <2>4, Zenon
  <2> QED BY <2>2, <2>5 DEF NoFalseAlarm, R
<1>2. CASE PurgeAllOld \/ Tick \/ UNCHANGED vars
  BY <1>2 DEF PurgeAllOld, Tick, vars, NoFalseAlarm, Recent
<1> QED BY <1>1, <1>2 DEF Next

\* No address is reported that did not make threshold connections within the window.
THEOREM NoFalseAlarms == Spec => []NoFalseAlarm
<1>1. Init => NoFalseAlarm BY DEF Init, NoFalseAlarm
<1> QED BY <1>1, FalseAlarmStep, TrackerInvariant, PTL DEF Spec

----------------------------------------------------------------------------
(* No scan is missed.  A hit that is no longer in its entry has expired, was *)
(* pushed out with the entry, or is behind Cap newer hits of its address.    *)

Newer(h) == {g \in h + 1 .. Len(log) : log[g].ip = log[h].ip}

PushedOut(h) ==
  \E e \in h .. Len(log) : log[e].ip = log[h].ip /\ Cardinality(SeenAfter(e)) >= MaxTracked

HitFate ==
  \A h \in 1 .. Len(log) :
    \/ h \in history[log[h].ip]
    \/ log[h].at < now - Window
    \/ PushedOut(h)
    \/ Cardinality(Newer(h)) >= Cap

\* The addresses seen after a hit only grow in number.
LEMMA SeenAfterGrows ==
  ASSUME TypeOK, NEW ip \in Ips, Record(ip), NEW e \in 1 .. Len(log)
  PROVE  /\ SeenAfter(e) \subseteq SeenAfter(e)'
         /\ IsFiniteSet(SeenAfter(e)) /\ Cardinality(SeenAfter(e)) \in Nat
         /\ IsFiniteSet(SeenAfter(e)') /\ Cardinality(SeenAfter(e))' \in Nat
         /\ Cardinality(SeenAfter(e)) <= Cardinality(SeenAfter(e))'
<1> DEFINE G == {g \in e + 1 .. Len(log) : \A k \in e + 1 .. g : log[k].ip # log[e].ip}
           H == {g \in e + 1 .. Len(log') : \A k \in e + 1 .. g : log'[k].ip # log'[e].ip}
<1>1. /\ Len(log) \in Nat /\ Len(log') = Len(log) + 1
      /\ \A h \in 1 .. Len(log) : log'[h] = log[h]
      /\ \A h \in 1 .. Len(log') : log'[h].ip \in Ips
  BY LogOfRecord
<1>2. \A g \in G : g \in H /\ log'[g].ip = log[g].ip
  <2> TAKE g \in G
  <2>1. g \in 1 .. Len(log) /\ \A k \in e + 1 .. g : k \in 1 .. Len(log) BY <1>1
  <2>2. log'[e].ip = log[e].ip /\ \A k \in e + 1 .. g : log'[k].ip = log[k].ip BY <1>1, <2>1
  <2>3. g \in e + 1 .. Len(log') BY <1>1
  <2> QED BY <1>1, <2>1, <2>2, <2>3
<1>3. \A g \in H : log'[g].ip \in Ips BY <1>1
<1> HIDE DEF G, H
<1>4. SeenAfter(e) = {log[g].ip : g \in G} /\ SeenAfter(e)' = {log'[g].ip : g \in H}
  BY DEF SeenAfter, G, H
<1>5. SeenAfter(e) \in SUBSET SeenAfter(e)' BY <1>2, <1>4
<1>6. SeenAfter(e)' \in SUBSET Ips BY <1>3, <1>4
<1>7. IsFiniteSet(SeenAfter(e)') BY <1>6, FS_Subset, DetectorAssumption
<1> QED BY <1>5, <1>7, FS_Subset, FS_CardinalityType

\* A hit that other addresses have pushed out of the cache stays pushed out.
LEMMA PushedOutStays ==
  ASSUME TypeOK, NEW ip \in Ips, Record(ip), NEW h \in 1 .. Len(log), PushedOut(h)
  PROVE  PushedOut(h)'
<1>1. PICK e \in h .. Len(log) : log[e].ip = log[h].ip /\ Cardinality(SeenAfter(e)) >= MaxTracked
  BY DEF PushedOut
<1>2. /\ Len(log) \in Nat /\ Len(log') = Len(log) + 1
      /\ \A k \in 1 .. Len(log) : log'[k] = log[k]
  BY LogOfRecord
<1>3. e \in 1 .. Len(log) /\ e \in h .. Len(log') BY <1>2
<1>4. log'[e].ip = log'[h].ip BY <1>1, <1>2, <1>3
<1>5. Cardinality(SeenAfter(e))' >= MaxTracked
  BY <1>1, <1>3, SeenAfterGrows, DetectorAssumption
<1> QED BY <1>3, <1>4, <1>5 DEF PushedOut

\* The hits of an address that are newer than a given one only become more.
LEMMA NewerGrows ==
  ASSUME TypeOK, NEW ip \in Ips, Record(ip), NEW h \in 1 .. Len(log)
  PROVE  /\ Newer(h) \subseteq Newer(h)' /\ IsFiniteSet(Newer(h)')
         /\ Cardinality(Newer(h)) \in Nat /\ Cardinality(Newer(h))' \in Nat
         /\ Cardinality(Newer(h)) <= Cardinality(Newer(h))'
<1>1. /\ Len(log) \in Nat /\ Len(log') = Len(log) + 1
      /\ \A k \in 1 .. Len(log) : log'[k] = log[k]
  BY LogOfRecord
<1>2. \A g \in Newer(h) : g \in Newer(h)' BY <1>1 DEF Newer
<1>3. Newer(h)' \in SUBSET (h + 1 .. Len(log')) BY DEF Newer
<1>4. IsFiniteSet(h + 1 .. Len(log')) BY <1>1, FS_Interval
<1>5. IsFiniteSet(Newer(h)') BY <1>3, <1>4, FS_Subset
<1>6. Newer(h) \in SUBSET Newer(h)' BY <1>2
<1> QED BY <1>5, <1>6, FS_Subset, FS_CardinalityType

\* The hits drained by the cap are behind Cap newer ones.
LEMMA DrainedHit ==
  ASSUME TypeOK, NEW ip \in Ips, Record(ip), NEW h \in 1 .. Len(log),
         h \in Called(ip), h \notin KeepCap(Called(ip))
  PROVE  Cardinality(Newer(h))' >= Cap
<1> DEFINE S == {g \in Called(ip) : g > h}
<1>1. Called(ip) \in SUBSET (1 .. Len(log')) /\ \A g \in Called(ip) : log'[g].ip = ip
  BY EntryOfCaller
<1>2. S \in SUBSET Newer(h)'
  <2>1. Len(log') \in Nat BY LogOfRecord
  <2>2. \A g \in S : g \in h + 1 .. Len(log') /\ log'[g].ip = log'[h].ip BY <1>1, <2>1
  <2> QED BY <2>2 DEF Newer
<1>3. IsFiniteSet(Newer(h)') /\ Cardinality(Newer(h))' \in Nat BY NewerGrows
<1>4. ~(Cardinality(S) < Cap) BY DEF KeepCap
<1> HIDE DEF S
<1>5. Cardinality(S) \in Nat /\ Cardinality(S) <= Cardinality(Newer(h))'
  BY <1>2, <1>3, FS_Subset, FS_CardinalityType
<1> QED BY <1>3, <1>4, <1>5, DetectorAssumption DEF Cap

\* The victim of an eviction was seen before MaxTracked other addresses: those of the
\* other entries, and the new one.
LEMMA VictimPushedOut ==
  ASSUME TrackerInv, NEW ip \in Ips, Record(ip),
         ip \notin Tracked, Cardinality(Tracked) >= MaxTracked,
         NEW h \in history[LeastRecent]
  PROVE  h \in 1 .. Len(log) => PushedOut(h)'
<1> SUFFICES ASSUME h \in 1 .. Len(log) PROVE PushedOut(h)' OBVIOUS
<1>1. TypeOK /\ NewestKept BY DEF TrackerInv
<1>2. /\ Len(log) \in Nat /\ Len(log') = Len(log) + 1
      /\ \A k \in 1 .. Len(log) : log'[k] = log[k]
      /\ log'[Len(log) + 1].ip = ip
  BY <1>1, LogOfRecord
<1>3. IsFiniteSet(Tracked) /\ Cardinality(Tracked) \in Nat /\ Tracked \in SUBSET Ips
  BY FS_Subset, FS_CardinalityType, DetectorAssumption DEF Tracked
<1>4. Tracked # {} BY <1>3, FS_EmptySet, DetectorAssumption
<1>5. /\ LeastRecent \in Tracked
      /\ \A j \in Tracked : /\ Newest(history[j]) \in history[j]
                            /\ \A g \in history[j] : g <= Newest(history[j])
                            /\ Newest(history[LeastRecent]) <= Newest(history[j])
  BY <1>3, <1>4, LeastRecentEntry
<1>6. \A j \in Ips : \A g \in history[j] : g \in 1 .. Len(log) /\ log[g].ip = j
  BY <1>1 DEF TypeOK
<1> PICK v \in Tracked : v = LeastRecent BY <1>5
<1> PICK e \in history[v] : e = Newest(history[v]) BY <1>5
<1>7. v \in Ips /\ e \in 1 .. Len(log) /\ h <= e /\ log[e].ip = v /\ log[h].ip = v
  BY <1>3, <1>5, <1>6
<1>8. \A g \in 1 .. Len(log) : log[g].ip = v => g <= e
  <2> SUFFICES ASSUME NEW g \in 1 .. Len(log), log[g].ip = v PROVE g <= e OBVIOUS
  <2>1. PICK k \in history[v] : g <= k BY <1>1, <1>7 DEF NewestKept
  <2>2. k <= e BY <1>5, <2>1
  <2>3. k \in Nat BY <1>6, <1>7, <2>1
  <2> QED BY <1>7, <2>1, <2>2, <2>3
<1>9. ip # v OBVIOUS
<1>10. \A k \in e + 1 .. Len(log') : log'[k].ip # log'[e].ip
  <2> TAKE k \in e + 1 .. Len(log')
  <2>1. log'[e].ip = v BY <1>2, <1>7
  <2>2. CASE k = Len(log) + 1 BY <1>2, <1>9, <2>1, <2>2
  <2>3. CASE k # Len(log) + 1
    <3>1. k \in 1 .. Len(log) /\ ~(k <= e) BY <1>2, <1>7, <2>3
    <3> QED BY <1>2, <1>8, <2>1, <3>1
  <2> QED BY <2>2, <2>3
<1>11. \A g \in e + 1 .. Len(log') : log'[g].ip \in SeenAfter(e)'
  <2> TAKE g \in e + 1 .. Len(log')
  <2>1. \A k \in e + 1 .. g : k \in e + 1 .. Len(log') BY <1>2, <1>7
  <2>2. \A k \in e + 1 .. g : log'[k].ip # log'[e].ip BY <1>10, <2>1
  <2> QED BY <2>2 DEF SeenAfter
<1>12. ip \in SeenAfter(e)' BY <1>2, <1>7, <1>11
<1>13. \A j \in Tracked \ {v} : j \in SeenAfter(e)'
  <2> TAKE j \in Tracked \ {v}
  <2> DEFINE f == Newest(history[j])
  <2>1. f \in 1 .. Len(log) /\ log[f].ip = j /\ e <= f BY <1>3, <1>5, <1>6
  <2>2. f # e BY <1>7, <2>1
  <2> HIDE DEF f
  <2>3. f \in e + 1 .. Len(log') BY <1>2, <1>7, <2>1, <2>2
  <2> QED BY <1>2, <1>11, <2>1, <2>3
<1>14. (Tracked \ {v}) \cup {ip} \in SUBSET SeenAfter(e)' BY <1>12, <1>13
<1>15. Cardinality((Tracked \ {v}) \cup {ip}) = Cardinality(Tracked)
  <2>1. IsFiniteSet(Tracked \ {v}) /\ Cardinality(Tracked \ {v}) = Cardinality(Tracked) - 1
    BY <1>3, FS_RemoveElement
  <2>2. ip \notin Tracked \ {v} OBVIOUS
  <2>3. Cardinality((Tracked \ {v}) \cup {ip}) = Cardinality(Tracked \ {v}) + 1
    BY <2>1, <2>2, FS_AddElement
  <2> QED BY <1>3, <2>1, <2>3
<1>16. IsFiniteSet(SeenAfter(e)') /\ Cardinality(SeenAfter(e))' \in Nat
  BY <1>1, <1>7, SeenAfterGrows
<1>17. Cardinality(SeenAfter(e))' >= MaxTracked
  BY <1>3, <1>14, <1>15, <1>16, FS_Subset, DetectorAssumption
<1>18. e \in h .. Len(log') /\ log'[e].ip = log'[h].ip BY <1>2, <1>7
<1> QED BY <1>17, <1>18 DEF PushedOut

\* record_and_check accounts for every hit it lets go.
LEMMA FateRecord ==
  ASSUME TrackerInv, HitFate, NEW ip \in Ips, Record(ip)
  PROVE  HitFate'
<1>1. TypeOK BY DEF TrackerInv
<1>2. /\ Len(log) \in Nat /\ Len(log') = Len(log) + 1 /\ log'[Len(log) + 1].ip = ip
      /\ \A k \in 1 .. Len(log) : log'[k] = log[k]
      /\ now' = now /\ history'[ip] = KeepCap(Called(ip)) /\ Evict(ip)[ip] = history[ip]
      /\ \A j \in Ips \ {ip} : history'[j] = Evict(ip)[j]
  BY <1>1, LogOfRecord, EntriesOfRecord
<1>3. \A h \in 1 .. Len(log) : log[h].ip \in Ips BY <1>1, HitOfLog DEF TypeOK
<1> SUFFICES ASSUME NEW h \in 1 .. Len(log')
             PROVE  \/ h \in history'[log'[h].ip]
                    \/ log'[h].at < now' - Window
                    \/ PushedOut(h)'
                    \/ Cardinality(Newer(h))' >= Cap
  BY DEF HitFate
<1>4. CASE h = Len(log) + 1
  <2>1. h \in KeepCap(Called(ip)) BY <1>1, <1>2, <1>4, EntryOfCaller
  <2> QED BY <1>2, <1>4, <2>1
<1>5. CASE h \in 1 .. Len(log)
  <2>1. CASE log[h].at < now - Window BY <1>2, <1>5, <2>1
  <2>2. CASE PushedOut(h) BY <1>1, <1>5, <2>2, PushedOutStays
  <2>3. CASE Cardinality(Newer(h)) >= Cap
    BY <1>1, <1>5, <2>3, NewerGrows, DetectorAssumption DEF Cap
  <2>4. CASE h \in history[log[h].ip]
    <3>1. CASE log[h].ip = ip
      <4>1. log'[h].at >= now - Window \/ log'[h].at < now - Window
        <5>1. log'[h].at \in Nat /\ now \in Nat BY <1>1, LogOfRecord, HitOfLog DEF TypeOK
        <5> QED BY <5>1, DetectorAssumption
      <4>2. log'[h].at >= now - Window => h \in Called(ip)
        BY <1>1, <2>4, <3>1, EntryOfCaller
      <4>3. h \in KeepCap(Called(ip)) \/ log'[h].at < now - Window \/ Cardinality(Newer(h))' >= Cap
        BY <1>1, <1>5, <4>1, <4>2, DrainedHit
      <4> QED BY <1>2, <1>5, <3>1, <4>3
    <3>2. CASE log[h].ip # ip
      <4> DEFINE j == log[h].ip
      <4>1. j \in Ips \ {ip} BY <1>3, <1>5, <3>2
      <4>2. CASE history'[j] = history[j] BY <1>2, <1>5, <2>4, <4>2
      <4>3. CASE history'[j] # history[j]
        <5>1. history'[j] = Evict(ip)[j] BY <1>2, <4>1
        <5>2. ip \notin Tracked /\ Cardinality(Tracked) >= MaxTracked /\ j = LeastRecent
          BY <4>1, <4>3, <5>1 DEF Evict
        <5> QED BY <1>5, <2>4, <5>2, VictimPushedOut
      <4> QED BY <4>2, <4>3
    <3> QED BY <3>1, <3>2
  <2> QED BY <1>5, <2>1, <2>2, <2>3, <2>4 DEF HitFate
<1> QED BY <1>2, <1>4, <1>5

\* The purge of old entries and the passing of time account for every hit they let go.
LEMMA FateRest ==
  ASSUME TrackerInv, HitFate, PurgeAllOld \/ Tick \/ UNCHANGED vars
  PROVE  HitFate'
<1>1. UNCHANGED log /\ now <= now' /\ now' \in Nat /\ now \in Nat
  BY DEF PurgeAllOld, Tick, vars, TrackerInv, TypeOK
<1>2. \A h \in 1 .. Len(log) : log[h].ip \in Ips /\ log[h].at \in Nat
  BY HitOfLog DEF TrackerInv, TypeOK
<1> SUFFICES ASSUME NEW h \in 1 .. Len(log)
             PROVE  \/ h \in history'[log[h].ip]
                    \/ log[h].at < now' - Window
                    \/ PushedOut(h)'
                    \/ Cardinality(Newer(h))' >= Cap
  BY <1>1 DEF HitFate
<1>3. PushedOut(h)' = PushedOut(h) /\ Newer(h)' = Newer(h)
  BY <1>1 DEF PushedOut, SeenAfter, Newer
<1>4. log[h].at < now - Window => log[h].at < now' - Window
  BY <1>1, <1>2, DetectorAssumption
<1>5. h \in history[log[h].ip] => h \in history'[log[h].ip] \/ log[h].at < now - Window
  BY <1>2 DEF PurgeAllOld, Tick, vars
<1> QED BY <1>3, <1>4, <1>5 DEF HitFate

\* In every state, each hit is kept, expired, pushed out, or behind Cap newer ones.
LEMMA FateInvariant == Spec => []HitFate
<1>1. Init => HitFate BY DEF Init, HitFate
<1>2. TrackerInv /\ HitFate /\ [Next]_vars => HitFate' BY FateRecord, FateRest DEF Next
<1> QED BY <1>1, <1>2, TrackerInvariant, PTL DEF Spec

\* The newest hit of the window that the call does not work on is neither expired nor
\* behind the cap, or there would be an alarm: it was pushed out.
LEMMA MissedScanRecord ==
  ASSUME TrackerInv, TrackerInv', HitFate', NEW ip \in Ips, Record(ip)
  PROVE  NoMissedScan'
<1> DEFINE n == Len(log')  K == KeepCap(Called(ip))
           R == {h \in 1 .. n : log'[h].ip = ip /\ log'[h].at >= now - Window}
<1>1. TypeOK /\ TypeOK' /\ LogOrder' BY DEF TrackerInv
<1>2. /\ n \in Nat \ {0} /\ Recent(Len(log))' = R /\ Called(ip) \subseteq R
      /\ IsFiniteSet(R) /\ Cardinality(R) \in Nat
  BY CalledRecent
<1>3. /\ now' = now /\ history'[ip] = K
      /\ alarm' = (Cardinality(K) >= Threshold)
  BY <1>1, EntriesOfRecord
<1>4. K \subseteq Called(ip) /\ IsFiniteSet(K) /\ n \in K /\ Cardinality(K) \in Nat
  BY <1>1, EntryOfCaller, FS_CardinalityType
<1>5. R \in SUBSET Nat /\ \A h \in R : h \in 1 .. n /\ log'[h].ip = ip /\ log'[h].at >= now - Window
  BY <1>2
<1> HIDE DEF K, R
<1> SUFFICES ASSUME ~(Cardinality(K) >= Threshold), Cardinality(R) >= Threshold
             PROVE  \E h \in R : Cardinality(SeenAfter(h))' >= MaxTracked
  BY <1>2, <1>3 DEF NoMissedScan
<1>6. R \ K # {}
  <2> SUFFICES ASSUME R \ K = {} PROVE FALSE OBVIOUS
  <2>1. K = R BY <1>2, <1>4
  <2> QED BY <2>1
<1>7. PICK m \in R \ K : \A h \in R \ K : h <= m
  <2>1. \A h \in 1 .. n : h \in Nat /\ h <= n BY <1>2
  <2>2. R \ K \in SUBSET Nat /\ \A h \in R \ K : h <= n BY <1>5, <2>1, Zenon
  <2> QED BY <1>2, <1>6, <2>2, LargestHit
<1>8. PushedOut(m)' \/ Cardinality(Newer(m))' >= Cap
  <2>1. log'[m].ip = ip /\ log'[m].at >= now - Window /\ m \in 1 .. n BY <1>5
  <2>2. ~(log'[m].at < now - Window)
    <3>1. log'[m].at \in Nat /\ now \in Nat BY <1>1, <2>1, HitOfLog DEF TypeOK
    <3> QED BY <2>1, <3>1, DetectorAssumption
  <2> QED BY <1>3, <2>1, <2>2 DEF HitFate
<1>9. CASE PushedOut(m)'
  <2>1. PICK e \in m .. n : log'[e].ip = log'[m].ip /\ Cardinality(SeenAfter(e))' >= MaxTracked
    BY <1>9 DEF PushedOut
  <2>2. e \in R
    <3>1. m \in 1 .. n /\ log'[m].ip = ip /\ log'[m].at >= now - Window BY <1>5
    <3>2. e \in 1 .. n /\ m <= e BY <1>2, <3>1
    <3>3. log'[m].at <= log'[e].at BY <1>1, <3>1, <3>2 DEF LogOrder
    <3>4. log'[m].at \in Nat /\ log'[e].at \in Nat /\ now \in Nat
      BY <1>1, <3>1, <3>2, HitOfLog DEF TypeOK
    <3>5. log'[e].at >= now - Window BY <3>1, <3>3, <3>4, DetectorAssumption
    <3> QED BY <2>1, <3>1, <3>2, <3>5 DEF R
  <2> QED BY <2>1, <2>2
<1>10. CASE Cardinality(Newer(m))' >= Cap
  <2>1. Newer(m)' \in SUBSET K
    <3> SUFFICES ASSUME NEW g \in m + 1 .. n, log'[g].ip = log'[m].ip PROVE g \in K
      BY DEF Newer
    <3>1. m \in 1 .. n /\ log'[m].ip = ip /\ log'[m].at >= now - Window BY <1>5
    <3>2. g \in 1 .. n /\ m <= g /\ ~(g <= m) BY <1>2, <3>1
    <3>3. log'[m].at <= log'[g].at BY <1>1, <3>1, <3>2 DEF LogOrder
    <3>4. log'[m].at \in Nat /\ log'[g].at \in Nat /\ now \in Nat
      BY <1>1, <3>1, <3>2, HitOfLog DEF TypeOK
    <3>5. log'[g].at >= now - Window BY <3>1, <3>3, <3>4, DetectorAssumption
    <3>6. g \in R BY <3>1, <3>2, <3>5 DEF R
    <3> QED BY <1>7, <3>2, <3>6
  <2>2. Cardinality(Newer(m)') <= Cardinality(K) /\ Cardinality(Newer(m)') \in Nat
    BY <1>4, <2>1, FS_Subset, FS_CardinalityType
  <2>3. Cap >= Threshold /\ Cap \in Nat BY DetectorAssumption DEF Cap
  <2>4. Cardinality(K) >= Threshold BY <1>4, <1>10, <2>2, <2>3, DetectorAssumption
  <2> QED BY <2>4
<1> QED BY <1>8, <1>9, <1>10

\* An address that makes threshold connections within the window is reported, unless
\* MAX_TRACKED_IPS other addresses connected between two of them.
THEOREM NoMissedScans == Spec => []NoMissedScan
<1>1. Init => NoMissedScan BY DEF Init, NoMissedScan
<1>2. TrackerInv /\ TrackerInv' /\ HitFate' /\ NoMissedScan /\ [Next]_vars => NoMissedScan'
  <2> SUFFICES ASSUME TrackerInv, TrackerInv', HitFate', NoMissedScan, [Next]_vars
               PROVE  NoMissedScan'
    OBVIOUS
  <2>1. CASE PurgeAllOld \/ Tick \/ UNCHANGED vars
    <3>1. UNCHANGED <<log, alarm>> BY <2>1 DEF PurgeAllOld, Tick, vars
    <3>2. Recent(Len(log))' = Recent(Len(log)) BY <3>1 DEF Recent
    <3>3. \A h : SeenAfter(h)' = SeenAfter(h) BY <3>1 DEF SeenAfter
    <3> QED BY <3>1, <3>2, <3>3 DEF NoMissedScan
  <2> QED BY <2>1, MissedScanRecord DEF Next
<1> QED BY <1>1, <1>2, TrackerInvariant, FateInvariant, PTL DEF Spec
=============================================================================
