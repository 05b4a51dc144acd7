------------------------ MODULE WatchLifetimesProofs ------------------------
(***************************************************************************)
(* Theorems about WatchLifetimes, for any subscriptions, paths, identities *)
(* and descriptors, any budget and any length of the kernel's queue.       *)
(***************************************************************************)
EXTENDS WatchLifetimes, FiniteSetTheorems, SequenceTheorems, TLAPS

----------------------------------------------------------------------------
(* Counting the records of a queue.                                        *)

Positions(q, r) == {n \in 1..Len(q) : q[n] = r}
Count(q, r) == Cardinality(Positions(q, r))

LEMMA PositionsFinite ==
  ASSUME NEW S, NEW q \in Seq(S), NEW r
  PROVE  /\ IsFiniteSet(Positions(q, r))
         /\ Count(q, r) \in Nat
<1>1. IsFiniteSet(1..Len(q))
  BY FS_Interval, LenProperties
<1>2. Positions(q, r) \in SUBSET (1..Len(q))
  BY DEF Positions
<1>3. IsFiniteSet(Positions(q, r))
  BY <1>1, <1>2, FS_Subset
<1> QED BY <1>3, FS_CardinalityType DEF Count

LEMMA CountConcat ==
  ASSUME NEW S, NEW p \in Seq(S), NEW q \in Seq(S), NEW r
  PROVE  Count(p \o q, r) = Count(p, r) + Count(q, r)
<1> DEFINE s == p \o q
           Later == {n \in Len(p)+1 .. Len(p)+Len(q) : s[n] = r}
           F == [n \in Positions(q, r) |-> n + Len(p)]
<1>1. /\ Len(p) \in Nat /\ Len(q) \in Nat
      /\ s \in Seq(S) /\ Len(s) = Len(p) + Len(q)
      /\ \A i \in 1..Len(p)+Len(q) : s[i] = IF i <= Len(p) THEN p[i] ELSE q[i - Len(p)]
  BY ConcatProperties, LenProperties
<1> HIDE DEF s
<1>2. Positions(s, r) = Positions(p, r) \union Later
  BY <1>1 DEF Positions
<1>3. Positions(p, r) \intersect Later = {}
  BY <1>1 DEF Positions
<1>4. F \in Bijection(Positions(q, r), Later)
  <2>1. \A n \in Positions(q, r) : n \in Nat /\ F[n] = n + Len(p) /\ F[n] \in Later
    BY <1>1 DEF Positions
  <2>2. ASSUME NEW m \in Later PROVE \E n \in Positions(q, r) : F[n] = m
    <3>1. m - Len(p) \in Positions(q, r) /\ m = (m - Len(p)) + Len(p)
      BY <1>1 DEF Positions
    <3> QED BY <3>1
  <2>3. \A m, n \in Positions(q, r) : F[m] = F[n] => m = n
    BY <1>1, <2>1
  <2> QED BY <2>1, <2>2, <2>3 DEF Bijection, Injection, Surjection, IsInjective
<1>5. IsFiniteSet(Later) /\ Cardinality(Later) = Count(q, r)
  BY <1>4, FS_Bijection, PositionsFinite DEF ExistsBijection, Count
<1>6. IsFiniteSet(Positions(p, r)) /\ Count(p, r) \in Nat /\ Count(q, r) \in Nat
  BY PositionsFinite
<1> HIDE DEF Later
<1>7. Cardinality(Positions(p, r) \union Later)
        = Cardinality(Positions(p, r)) + Cardinality(Later) - Cardinality(Positions(p, r) \intersect Later)
  BY <1>5, <1>6, FS_Union
<1>8. Cardinality(Positions(p, r) \intersect Later) = 0
  BY <1>3, FS_EmptySet
<1> QED BY <1>2, <1>5, <1>6, <1>7, <1>8 DEF Count, s

LEMMA CountOne ==
  ASSUME NEW x, NEW r
  PROVE  Count(<<x>>, r) = IF x = r THEN 1 ELSE 0
<1>1. Positions(<<x>>, r) = IF x = r THEN {1} ELSE {}
  BY DEF Positions
<1> QED BY <1>1, FS_Singleton, FS_EmptySet DEF Count

LEMMA CountAppend ==
  ASSUME NEW S, NEW q \in Seq(S), NEW x \in S, NEW r
  PROVE  Count(Append(q, x), r) = Count(q, r) + IF x = r THEN 1 ELSE 0
<1> DEFINE a == Append(q, x)
<1>1. /\ Len(q) \in Nat /\ Len(a) = Len(q) + 1
      /\ \A i \in 1..Len(q) : a[i] = q[i]
      /\ a[Len(q) + 1] = x
  BY LenProperties, AppendProperties
<1> HIDE DEF a
<1>2. Positions(a, r) = IF x = r THEN Positions(q, r) \union {Len(q) + 1} ELSE Positions(q, r)
  BY <1>1 DEF Positions
<1>3. Len(q) + 1 \notin Positions(q, r)
  BY <1>1 DEF Positions
<1>4. IsFiniteSet(Positions(q, r)) /\ Count(q, r) \in Nat
  BY PositionsFinite
<1>5. Cardinality(Positions(q, r) \union {Len(q) + 1}) = Cardinality(Positions(q, r)) + 1
  BY <1>3, <1>4, FS_AddElement
<1> QED BY <1>2, <1>4, <1>5 DEF Count, a

LEMMA CountTail ==
  ASSUME NEW S, NEW q \in Seq(S), q # <<>>, NEW r
  PROVE  Count(Tail(q), r) = Count(q, r) - IF Head(q) = r THEN 1 ELSE 0
<1>1. Head(q) \in S /\ Tail(q) \in Seq(S)
  BY HeadTailProperties
<1>2. q = <<Head(q)>> \o Tail(q) /\ <<Head(q)>> \in Seq(S)
  BY <1>1
<1>3. Count(q, r) = Count(<<Head(q)>>, r) + Count(Tail(q), r)
  BY <1>1, <1>2, CountConcat, ZenonT(60)
<1>4. Count(Tail(q), r) \in Nat
  BY <1>1, PositionsFinite
<1> QED BY <1>3, <1>4, CountOne

LEMMA CountPrefix ==
  ASSUME NEW S, NEW q \in Seq(S), NEW n \in Int, n <= Len(q), NEW r
  PROVE  /\ SubSeq(q, 1, n) \in Seq(S)
         /\ Count(SubSeq(q, 1, n), r) <= Count(q, r)
<1> DEFINE s == SubSeq(q, 1, n)
<1>1. \A i \in 1..n : q[i] \in S
  BY LenProperties, ElementOfSeq
<1>2. /\ s \in Seq(S) /\ Len(s) = IF 1 <= n THEN n ELSE 0
      /\ \A i \in 1..n : s[i] = q[i]
  BY <1>1, SubSeqProperties
<1>3. Len(q) \in Nat
  BY LenProperties
<1> HIDE DEF s
<1>4. Positions(s, r) \in SUBSET Positions(q, r)
  BY <1>2, <1>3 DEF Positions
<1>5. Count(s, r) <= Count(q, r)
  BY <1>4, FS_Subset, PositionsFinite DEF Count
<1> QED BY <1>2, <1>5 DEF s

LEMMA CountPositive ==
  ASSUME NEW S, NEW q \in Seq(S), NEW n \in 1..Len(q)
  PROVE  Count(q, q[n]) >= 1
<1>1. n \in Positions(q, q[n])
  BY DEF Positions
<1>2. Count(q, q[n]) # 0
  BY <1>1, PositionsFinite, FS_EmptySet DEF Count
<1> QED BY <1>2, PositionsFinite

----------------------------------------------------------------------------
(* What the kernel queues.                                                 *)

Records == [kind : {"created", "removed"}, of : Paths]
             \union [kind : {"deleteself", "ignored"}, of : Descriptors]
             \union {Overflow}
Kernels == [watch : [Descriptors -> Inodes \union {None}], queue : Seq(Records)]

\* The ignored records queued for a descriptor.
Ends(q, d) == Count(q, Record("ignored", d))

\* From k to t the records of "ends" were added, unless the queue was full.
Queued(k, t, ends) ==
  /\ t \in Kernels
  /\ Len(t.queue) >= Len(k.queue)
  /\ \A d \in Descriptors :
       /\ Ends(t.queue, d) <= Ends(k.queue, d) + (IF d \in ends THEN 1 ELSE 0)
       /\ ~Lossy => Ends(t.queue, d) = Ends(k.queue, d) + (IF d \in ends THEN 1 ELSE 0)

LEMMA ReportedQueues ==
  ASSUME NEW k \in Kernels, NEW rs \in Seq(Records), NEW ends,
         \A d \in Descriptors : Ends(rs, d) = IF d \in ends THEN 1 ELSE 0
  PROVE  /\ Queued(k, Reported(k, rs), ends)
         /\ Reported(k, rs).watch = k.watch
         /\ ~Lossy => Reported(k, rs).queue = k.queue \o rs
<1> DEFINE room == QueueLimit - Len(k.queue)
           kept == SubSeq(rs, 1, room)
           taken == k.queue \o kept
           t == Reported(k, rs)
<1>1. /\ k.queue \in Seq(Records) /\ Len(k.queue) \in Nat /\ room \in Int
      /\ Len(rs) \in Nat
  BY LimitsAssumption, LenProperties DEF Kernels
<1> DEFINE Q == IF ~Lossy \/ Len(rs) <= room THEN k.queue \o rs
                ELSE IF Contains(k.queue, Overflow) THEN taken
                ELSE Append(taken, Overflow)
<1>2. /\ t = [k EXCEPT !.queue = Q]
      /\ \/ (~Lossy \/ Len(rs) <= room) /\ Q = k.queue \o rs
         \/ Lossy /\ Len(rs) > room /\ Q \in {taken, Append(taken, Overflow)}
  <2>1. t = [k EXCEPT !.queue = Q]
    BY DEF Reported
  <2> HIDE DEF t, taken
  <2>2. CASE ~Lossy \/ Len(rs) <= room
    BY <2>1, <2>2
  <2>3. CASE ~(~Lossy \/ Len(rs) <= room)
    <3>1. Q \in {taken, Append(taken, Overflow)}
      BY <2>3
    <3>2. Len(rs) > room
      BY <1>1, <2>3
    <3> QED BY <2>1, <2>3, <3>1, <3>2
  <2> QED BY <2>2, <2>3
<1> HIDE DEF Q
<1>3. /\ t.watch = k.watch
      /\ \/ (~Lossy \/ Len(rs) <= room) /\ t.queue = k.queue \o rs
         \/ Lossy /\ Len(rs) > room /\ t.queue \in {taken, Append(taken, Overflow)}
  BY <1>2 DEF Kernels
<1>4. t.queue \in Seq(Records) => t \in Kernels
  BY <1>2 DEF Kernels
<1> HIDE DEF t
<1>5. \A q \in Seq(Records) : \A d \in Descriptors : Ends(q, d) \in Nat
  BY PositionsFinite DEF Ends
<1>6. CASE t.queue = k.queue \o rs
  <2>1. t.queue \in Seq(Records) /\ Len(t.queue) >= Len(k.queue)
    BY <1>1, <1>6, ConcatProperties
  <2>2. \A d \in Descriptors : Ends(t.queue, d) = Ends(k.queue, d) + Ends(rs, d)
    BY <1>1, <1>6, CountConcat DEF Ends
  <2>3. Queued(k, t, ends)
    BY <1>1, <1>4, <1>5, <2>1, <2>2 DEF Queued
  <2> QED BY <1>3, <1>6, <2>3 DEF t
<1>7. CASE Lossy /\ Len(rs) > room /\ t.queue \in {taken, Append(taken, Overflow)}
  <2>1. kept \in Seq(Records) /\ \A d \in Descriptors : Ends(kept, d) <= Ends(rs, d)
    <3>1. room <= Len(rs)
      BY <1>1, <1>7
    <3>2. \A r : kept \in Seq(Records) /\ Count(kept, r) <= Count(rs, r)
      BY <1>1, <3>1, CountPrefix
    <3> QED BY <3>2 DEF Ends
  <2> HIDE DEF kept
  <2>2. taken \in Seq(Records) /\ Len(taken) >= Len(k.queue)
    BY <1>1, <2>1, ConcatProperties, LenProperties
  <2>3. \A d \in Descriptors : Ends(taken, d) = Ends(k.queue, d) + Ends(kept, d)
    BY <1>1, <2>1, CountConcat DEF Ends
  <2> HIDE DEF taken
  <2>4. \A d \in Descriptors : Overflow # Record("ignored", d)
    BY DEF Overflow, Record
  <2>5. Overflow \in Records
    BY DEF Records
  <2>6. /\ Append(taken, Overflow) \in Seq(Records)
        /\ Len(Append(taken, Overflow)) = Len(taken) + 1
    BY <2>2, <2>5, AppendProperties
  <2>7. \A d \in Descriptors : Ends(Append(taken, Overflow), d) = Ends(taken, d) + 0
    BY <2>2, <2>4, <2>5, CountAppend DEF Ends
  <2>8. /\ t.queue \in Seq(Records) /\ Len(t.queue) >= Len(k.queue)
        /\ \A d \in Descriptors : Ends(t.queue, d) = Ends(taken, d)
    <3>1. Len(taken) \in Nat /\ \A d \in Descriptors : Ends(taken, d) \in Nat
      BY <1>5, <2>2, LenProperties
    <3>2. CASE t.queue = taken
      BY <2>2, <3>2
    <3>3. CASE t.queue = Append(taken, Overflow)
      BY <1>1, <2>2, <2>6, <2>7, <3>1, <3>3
    <3> QED BY <1>7, <3>2, <3>3
  <2>9. Queued(k, t, ends)
    BY <1>1, <1>4, <1>5, <1>7, <2>1, <2>3, <2>8 DEF Queued
  <2> QED BY <1>3, <1>7, <2>9 DEF t
<1> QED BY <1>3, <1>6, <1>7

LEMMA SetAsSeq ==
  ASSUME NEW S, IsFiniteSet(S)
  PROVE  /\ Cardinality(S) \in Nat
         /\ SetToSeq(S) \in [1..Cardinality(S) -> S]
         /\ \A x \in S : \E n \in 1..Cardinality(S) :
              \A m \in 1..Cardinality(S) : SetToSeq(S)[m] = x <=> m = n
<1> DEFINE N == Cardinality(S)
           f == SetToSeq(S)
<1>1. N \in Nat /\ ExistsBijection(1..N, S)
  BY FS_CardinalityType
<1>2. \E g \in [1..N -> S] : IsInjective(g)
  BY <1>1 DEF ExistsBijection, Bijection, Injection
<1>3. f \in [1..N -> S] /\ IsInjective(f)
  BY <1>2 DEF SetToSeq
<1> HIDE DEF f
<1>4. IsFiniteSet(1..N) /\ Cardinality(1..N) = N
  BY <1>1, FS_Interval
<1>5. f \in Surjection(1..N, S)
  BY <1>3, <1>4, FS_Injection DEF Injection
<1> QED BY <1>1, <1>3, <1>5 DEF Surjection, IsInjective, f

\* What inotify_rm_watch leaves.
LEMMA RmWatchesQueues ==
  ASSUME NEW k \in Kernels, NEW ds \in SUBSET Descriptors
  PROVE  /\ Queued(k, RmWatches(k, ds), {d \in ds : k.watch[d] # None})
         /\ RmWatches(k, ds).watch
              = [d \in Descriptors |-> IF d \in ds THEN None ELSE k.watch[d]]
<1> DEFINE live == {d \in ds : k.watch[d] # None}
           seq == SetToSeq(live)
           N == Cardinality(live)
           rs == [n \in 1..N |-> Record("ignored", seq[n])]
           j == [k EXCEPT !.watch = [d \in Descriptors |-> IF d \in live THEN None ELSE @[d]]]
<1>1. RmWatches(k, ds) = Reported(j, rs)
  BY DEF RmWatches
<1>2. IsFiniteSet(live)
  BY FS_Subset, KernelAssumption
<1>3. /\ N \in Nat /\ seq \in [1..N -> live]
      /\ \A x \in live : \E n \in 1..N : \A m \in 1..N : seq[m] = x <=> m = n
  BY <1>2, SetAsSeq
<1> HIDE DEF N, seq
<1>4. rs \in Seq(Records) /\ Len(rs) = N
  <2>1. \A n \in 1..N : seq[n] \in Descriptors
    BY <1>3
  <2>2. \A n \in 1..N : rs[n] \in Records
    BY <2>1 DEF Record, Records
  <2> QED BY <1>3, <2>2
<1>5. ASSUME NEW d \in Descriptors
      PROVE  Ends(rs, d) = IF d \in live THEN 1 ELSE 0
  <2>1. Positions(rs, Record("ignored", d)) = {n \in 1..N : seq[n] = d}
    BY <1>4 DEF Positions, Record
  <2>2. CASE d \in live
    <3>1. PICK n \in 1..N : \A m \in 1..N : seq[m] = d <=> m = n
      BY <1>3, <2>2
    <3>2. {m \in 1..N : seq[m] = d} = {n}
      BY <3>1
    <3> QED BY <2>1, <2>2, <3>2, FS_Singleton DEF Ends, Count
  <2>3. CASE d \notin live
    <3>1. {m \in 1..N : seq[m] = d} = {}
      BY <1>3, <2>3
    <3> QED BY <2>1, <2>3, <3>1, FS_EmptySet DEF Ends, Count
  <2> QED BY <2>2, <2>3
<1>6. /\ j \in Kernels /\ j.queue = k.queue
      /\ j.watch = [d \in Descriptors |-> IF d \in live THEN None ELSE k.watch[d]]
  BY DEF Kernels
<1>7. j.watch = [d \in Descriptors |-> IF d \in ds THEN None ELSE k.watch[d]]
  BY <1>6 DEF Kernels
<1> HIDE DEF j, rs
<1>8. Queued(j, Reported(j, rs), live) /\ Reported(j, rs).watch = j.watch
  BY <1>4, <1>5, <1>6, ReportedQueues
<1>9. Queued(k, Reported(j, rs), live)
  BY <1>6, <1>8 DEF Queued
<1> QED BY <1>1, <1>7, <1>8, <1>9

----------------------------------------------------------------------------
(* The invariant: the registry by itself, the kernel that follows it, and  *)
(* the open under way.                                                     *)

\* The fields of the registry of watches.
SameTable(w, v) ==
  /\ v.watches = w.watches /\ v.index = w.index /\ v.retired = w.retired
  /\ v.exhausted = w.exhausted /\ v.watched = w.watched /\ v.budget = w.budget

Ranged(w) ==
  \A d \in Descriptors :
    w.retired[d] = NoRange \/ (1 <= w.retired[d].first /\ w.retired[d].first <= w.retired[d].last)

Linked(w) ==
  \A x \in Interests, d \in Descriptors :
    /\ x \in w.watches[d].interests => w.watched[x] = d
    /\ (w.watched[x] = d /\ x[1] \in Active(w)) => x \in w.watches[d].interests

Entered(w) ==
  \A d \in Present(w) :
    /\ w.watches[d].identity \in Inodes
    /\ w.watches[d].lifetime >= 1
    /\ w.watches[d].interests # {}
    /\ w.retired[d] # NoRange => w.watches[d].lifetime = w.retired[d].last + 1

Indexed(w) ==
  \A i \in Inodes, d \in Descriptors : w.index[i] = d <=> w.watches[d].identity = i

Scoped(w) ==
  /\ \A x \in w.jobs : x[1] \in Active(w)
  /\ w.recon \subseteq Active(w)

Registry(w) ==
  /\ w \in Workers
  /\ Ranged(w) /\ Linked(w) /\ Entered(w) /\ Indexed(w) /\ Scoped(w)
  /\ Cardinality(Present(w)) <= w.budget

Awaits(w, d) ==
  IF w.retired[d] = NoRange THEN 0 ELSE w.retired[d].last - w.retired[d].first + 1

\* The watch that is registered, or is being added, and is already gone.
Gone(w, k, adding, d) ==
  IF k.watch[d] = None /\ d \in Present(w) \union adding THEN 1 ELSE 0

\* The kernel's watches and the ignored records it has queued follow the registry.
Follows(w, k, adding) ==
  /\ k \in Kernels
  /\ \A d \in Descriptors :
       /\ k.watch[d] # None => d \in Present(w) \union adding
       /\ d \in w.exhausted => k.watch[d] = None
       /\ d \notin w.exhausted =>
            /\ Ends(k.queue, d) <= Awaits(w, d) + Gone(w, k, adding, d)
            /\ ~Lossy => Ends(k.queue, d) = Awaits(w, d) + Gone(w, k, adding, d)

LEMMA AbsentFields ==
  /\ Absent.lifetime = 0 /\ Absent.identity = None
  /\ Absent.interests = {} /\ Absent.expects = FALSE
  /\ Absent \in Watches
BY LimitsAssumption DEF Absent, Watches

LEMMA EndsNat ==
  ASSUME NEW q \in Seq(Records), NEW d
  PROVE  Ends(q, d) \in Nat
BY PositionsFinite DEF Ends

\* A descriptor without an identity has no watch.
LEMMA NotPresent ==
  ASSUME NEW w, Registry(w), NEW d \in Descriptors
  PROVE  d \in Present(w) <=> w.watches[d].identity # None
BY AbsentFields, KernelAssumption DEF Registry, Entered, Present

LEMMA SameTableRegistry ==
  ASSUME NEW w, Registry(w), NEW v \in Workers, SameTable(w, v),
         w.disposing \subseteq v.disposing, Scoped(v)
  PROVE  Registry(v)
<1>1. Ranged(v) /\ Entered(v) /\ Indexed(v) /\ Present(v) = Present(w)
  BY DEF Registry, SameTable, Ranged, Entered, Indexed, Present
<1>2. Linked(v)
  BY DEF Registry, SameTable, Linked, Active
<1> QED BY <1>1, <1>2 DEF Registry, SameTable

LEMMA SameTableFollows ==
  ASSUME NEW w, NEW v, SameTable(w, v), NEW k, NEW adding
  PROVE  Follows(v, k, adding) <=> Follows(w, k, adding)
<1>1. Present(v) = Present(w)
  BY DEF SameTable, Present
<1> QED BY <1>1 DEF SameTable, Follows, Awaits, Gone

\* The interests that are removed take their last watches out of the registry,
\* and what is retired is what the kernel will announce.
LEMMA RemoveInterestsFields ==
  ASSUME NEW w, Registry(w), NEW gone \in SUBSET Interests
  PROVE  LET v == RemoveInterests(w, gone)
             last == Emptied(w, gone)
         IN  /\ v \in Workers
             /\ last \subseteq Present(w)
             /\ \A d \in Descriptors :
                  /\ v.watches[d] = IF d \in last THEN Absent
                       ELSE [w.watches[d] EXCEPT !.interests = @ \ Touched(w, gone, d)]
                  /\ v.retired[d] = IF d \in last THEN Retired(w.retired[d], w.watches[d].lifetime)
                                    ELSE w.retired[d]
             /\ \A i \in Inodes : v.index[i] =
                  IF \E d \in last : w.watches[d].identity = i THEN None ELSE w.index[i]
             /\ \A x \in Interests : v.watched[x] = IF x \in gone THEN None ELSE w.watched[x]
             /\ v.exhausted = w.exhausted
             /\ v.budget = w.budget /\ v.deferred = w.deferred /\ v.jobs = w.jobs
             /\ v.found = w.found /\ v.uncertain = w.uncertain /\ v.recon = w.recon
             /\ v.quiet = w.quiet /\ v.disposing = w.disposing
<1> DEFINE u == Unregistered(w, gone)
           v == RemoveInterests(w, gone)
           last == Emptied(w, gone)
           life == [d \in Descriptors |-> w.watches[d].lifetime]
           WT == [d \in Descriptors |-> IF d \in last THEN Absent
                    ELSE [w.watches[d] EXCEPT !.interests = @ \ Touched(w, gone, d)]]
           IX == [i \in Inodes |->
                    IF i \in {w.watches[d].identity : d \in last} THEN None ELSE w.index[i]]
           WD == [x \in Interests |-> IF x \in gone THEN None ELSE w.watched[x]]
           RT == [d \in Descriptors |->
                    IF d \in last THEN Retired(w.retired[d], life[d]) ELSE w.retired[d]]
           EX == w.exhausted \union {d \in last : Gap(u.retired[d], life[d])}
<1>1. w \in Workers
  BY DEF Registry
<1>2. last \subseteq Present(w) /\ last \subseteq Descriptors
  BY DEF Emptied, Present
<1>3. /\ w.watches \in [Descriptors -> Watches] /\ w.retired \in [Descriptors -> Ranges]
      /\ w.index \in [Inodes -> Descriptors \union {None}]
      /\ w.watched \in [Interests -> Descriptors \union {None}]
      /\ w.exhausted \subseteq Descriptors
  BY <1>1 DEF Workers
<1>4. /\ u = [w EXCEPT !.watches = WT, !.index = IX, !.watched = WD]
      /\ u.retired = w.retired /\ u.exhausted = w.exhausted
  <2>1. u = [w EXCEPT !.watches = WT, !.index = IX, !.watched = WD]
    BY DEF Unregistered, Workers
  <2> HIDE DEF u, WT, IX, WD
  <2> QED BY <1>1, <2>1 DEF Workers
<1>5. v = [u EXCEPT !.retired = RT, !.exhausted = EX]
  BY <1>4 DEF RemoveInterests, ExpectIgnored
<1>6. WT \in [Descriptors -> Watches]
  BY <1>3, AbsentFields DEF Watches
<1>7. IX \in [Inodes -> Descriptors \union {None}]
  BY <1>3
<1>8. WD \in [Interests -> Descriptors \union {None}]
  BY <1>3
<1>9. RT \in [Descriptors -> Ranges]
  <2>1. ASSUME NEW d \in Descriptors PROVE Retired(w.retired[d], life[d]) \in Ranges
    <3>1. life[d] \in 0..LastLifetime /\ w.retired[d] \in Ranges
      BY <1>3 DEF Watches
    <3> HIDE DEF life
    <3> QED BY <3>1 DEF Retired, Ranges
  <2> QED BY <1>3, <2>1
<1>10. EX = w.exhausted
  <2>1. ASSUME NEW d \in last PROVE ~Gap(w.retired[d], w.watches[d].lifetime)
    BY <1>2 DEF Gap, Registry, Entered
  <2> QED BY <1>2, <1>4, <2>1
<1> HIDE DEF u, v, last, WT, IX, WD, RT, EX
<1>11. /\ v.watches = WT /\ v.index = IX /\ v.watched = WD /\ v.retired = RT
       /\ v.exhausted = w.exhausted
       /\ v.budget = w.budget /\ v.deferred = w.deferred /\ v.jobs = w.jobs
       /\ v.found = w.found /\ v.uncertain = w.uncertain /\ v.recon = w.recon
       /\ v.quiet = w.quiet /\ v.disposing = w.disposing
       /\ v \in Workers
  BY <1>1, <1>3, <1>4, <1>5, <1>6, <1>7, <1>8, <1>9, <1>10 DEF Workers
<1>12. \A d \in Descriptors :
         /\ WT[d] = IF d \in last THEN Absent
              ELSE [w.watches[d] EXCEPT !.interests = @ \ Touched(w, gone, d)]
         /\ RT[d] = IF d \in last THEN Retired(w.retired[d], w.watches[d].lifetime)
                    ELSE w.retired[d]
  BY DEF WT, RT
<1>13. \A i \in Inodes : IX[i] =
         IF \E d \in last : w.watches[d].identity = i THEN None ELSE w.index[i]
  BY DEF IX
<1>14. \A x \in Interests : WD[x] = IF x \in gone THEN None ELSE w.watched[x]
  BY DEF WD
<1> QED BY <1>2, <1>11, <1>12, <1>13, <1>14 DEF v, last

LEMMA RemoveInterestsPresent ==
  ASSUME NEW w, Registry(w), NEW gone \in SUBSET Interests
  PROVE  /\ Present(RemoveInterests(w, gone)) = Present(w) \ Emptied(w, gone)
         /\ Released(w, RemoveInterests(w, gone)) = Emptied(w, gone)
<1> DEFINE v == RemoveInterests(w, gone)
           last == Emptied(w, gone)
<1>1. /\ last \subseteq Present(w)
      /\ \A d \in Descriptors :
           v.watches[d] = IF d \in last THEN Absent
                          ELSE [w.watches[d] EXCEPT !.interests = @ \ Touched(w, gone, d)]
  BY RemoveInterestsFields
<1> HIDE DEF v, last
<1>2. ASSUME NEW d \in Descriptors \ last
      PROVE  d \in Present(v) <=> d \in Present(w)
  <2>1. v.watches[d] = [w.watches[d] EXCEPT !.interests = @ \ Touched(w, gone, d)]
    BY <1>1
  <2>2. w.watches[d] \in Watches
    BY DEF Registry, Workers
  <2>3. CASE d \in Present(w)
    <3>1. w.watches[d].identity \in Inodes
      BY <2>3 DEF Registry, Entered
    <3>2. v.watches[d].identity = w.watches[d].identity
      BY <2>1, <2>2 DEF Watches
    <3>3. v.watches[d] # Absent
      BY <3>1, <3>2, AbsentFields, KernelAssumption
    <3> QED BY <2>3, <3>3 DEF Present
  <2>4. CASE d \notin Present(w)
    <3>1. w.watches[d] = Absent
      BY <2>4 DEF Present
    <3>2. {} \ Touched(w, gone, d) = {}
      OBVIOUS
    <3>3. v.watches[d] = [Absent EXCEPT !.interests = {}]
      BY <2>1, <3>1, <3>2, AbsentFields
    <3>4. v.watches[d] = Absent
      BY <3>3 DEF Absent
    <3> QED BY <2>4, <3>4 DEF Present
  <2> QED BY <2>3, <2>4
<1>3. \A d \in last : d \notin Present(v)
  BY <1>1 DEF Present
<1>4. Present(v) = Present(w) \ last
  BY <1>2, <1>3 DEF Present
<1>5. Released(w, v) = last
  BY <1>1, <1>4 DEF Released
<1> QED BY <1>4, <1>5 DEF v, last

LEMMA PresentFinite ==
  ASSUME NEW w
  PROVE  IsFiniteSet(Present(w)) /\ Cardinality(Present(w)) \in Nat
<1>1. Present(w) \in SUBSET Descriptors
  BY DEF Present
<1>2. IsFiniteSet(Present(w))
  BY <1>1, FS_Subset, KernelAssumption
<1> QED BY <1>2, FS_CardinalityType

LEMMA FewerPresent ==
  ASSUME NEW w, NEW v, Present(v) \subseteq Present(w)
  PROVE  Cardinality(Present(v)) <= Cardinality(Present(w))
BY PresentFinite, FS_Subset

LEMMA RemoveInterestsRegistry ==
  ASSUME NEW w, Registry(w), NEW gone \in SUBSET Interests
  PROVE  Registry(RemoveInterests(w, gone))
<1> DEFINE v == RemoveInterests(w, gone)
           last == Emptied(w, gone)
<1>1. /\ v \in Workers
      /\ last \subseteq Present(w)
      /\ \A d \in Descriptors :
           /\ v.watches[d] = IF d \in last THEN Absent
                ELSE [w.watches[d] EXCEPT !.interests = @ \ Touched(w, gone, d)]
           /\ v.retired[d] = IF d \in last THEN Retired(w.retired[d], w.watches[d].lifetime)
                             ELSE w.retired[d]
      /\ \A i \in Inodes : v.index[i] =
           IF \E d \in last : w.watches[d].identity = i THEN None ELSE w.index[i]
      /\ \A x \in Interests : v.watched[x] = IF x \in gone THEN None ELSE w.watched[x]
      /\ v.budget = w.budget /\ v.jobs = w.jobs /\ v.recon = w.recon
      /\ v.disposing = w.disposing
  BY RemoveInterestsFields
<1>2. Present(v) = Present(w) \ last
  BY RemoveInterestsPresent
<1>3. \A d \in last :
        Touched(w, gone, d) # {} /\ w.watches[d].interests \subseteq Touched(w, gone, d)
  BY DEF Emptied
<1>3a. \A d \in Present(w) \ last :
         Touched(w, gone, d) = {} \/ ~(w.watches[d].interests \subseteq Touched(w, gone, d))
  BY DEF Emptied
<1> HIDE DEF v, last
<1>4. /\ w \in Workers /\ Ranged(w) /\ Linked(w) /\ Entered(w) /\ Indexed(w) /\ Scoped(w)
      /\ Cardinality(Present(w)) <= w.budget
  BY DEF Registry
<1>5. \A d \in Descriptors : w.watches[d] \in Watches /\ w.retired[d] \in Ranges
  BY <1>4 DEF Workers
<1>6. Active(v) = Active(w)
  BY <1>1 DEF Active
<1>7. Ranged(v)
  <2> SUFFICES ASSUME NEW d \in last
               PROVE  \/ v.retired[d] = NoRange
                      \/ 1 <= v.retired[d].first /\ v.retired[d].first <= v.retired[d].last
    BY <1>1, <1>4 DEF Ranged
  <2> DEFINE r == w.retired[d]
             l == w.watches[d].lifetime
  <2>1. d \in Descriptors /\ d \in Present(w) /\ v.retired[d] = Retired(r, l)
    BY <1>1 DEF Present
  <2>2. /\ r \in Ranges /\ l \in Nat /\ l >= 1
        /\ r # NoRange => l = r.last + 1
        /\ r # NoRange => 1 <= r.first /\ r.first <= r.last
    BY <1>4, <1>5, <2>1, LimitsAssumption DEF Watches, Entered, Ranged
  <2> HIDE DEF r, l
  <2>3. CASE r = NoRange
    <3>1. v.retired[d] = [first |-> l, last |-> l]
      BY <2>1, <2>3 DEF Retired
    <3> QED BY <2>2, <3>1
  <2>4. CASE r # NoRange
    <3>1. v.retired[d] = [r EXCEPT !.last = l]
      BY <2>1, <2>2, <2>4 DEF Retired
    <3>2. v.retired[d].first = r.first /\ v.retired[d].last = l
      BY <2>2, <3>1 DEF Ranges
    <3>3. r.first \in Int /\ r.last \in Int
      BY <2>2, LimitsAssumption DEF Ranges
    <3> QED BY <2>2, <2>4, <3>2, <3>3
  <2> QED BY <2>3, <2>4
<1>8. Linked(v)
  <2> SUFFICES ASSUME NEW x \in Interests, NEW d \in Descriptors
               PROVE  /\ x \in v.watches[d].interests => v.watched[x] = d
                      /\ (v.watched[x] = d /\ x[1] \in Active(v)) => x \in v.watches[d].interests
    BY DEF Linked
  <2>1. /\ x \in w.watches[d].interests => w.watched[x] = d
        /\ (w.watched[x] = d /\ x[1] \in Active(w)) => x \in w.watches[d].interests
    BY <1>4 DEF Linked
  <2>2. d # None
    BY KernelAssumption
  <2>3. v.watched[x] = IF x \in gone THEN None ELSE w.watched[x]
    BY <1>1
  <2>4. CASE d \in last
    <3>1. v.watches[d].interests = {}
      BY <1>1, <2>4, AbsentFields
    <3>2. x \notin gone => x \notin w.watches[d].interests
      BY <1>3, <2>4 DEF Touched
    <3> QED BY <1>6, <2>1, <2>2, <2>3, <3>1, <3>2
  <2>5. CASE d \notin last
    <3>1. v.watches[d].interests = w.watches[d].interests \ Touched(w, gone, d)
      BY <1>1, <1>5, <2>5, ZenonT(60) DEF Watches
    <3> QED BY <1>6, <2>1, <2>2, <2>3, <3>1 DEF Touched
  <2> QED BY <2>4, <2>5
<1>9. Entered(v)
  <2> SUFFICES ASSUME NEW d \in Present(w) \ last
               PROVE  /\ v.watches[d].identity \in Inodes
                      /\ v.watches[d].lifetime >= 1
                      /\ v.watches[d].interests # {}
                      /\ v.retired[d] # NoRange => v.watches[d].lifetime = v.retired[d].last + 1
    BY <1>2 DEF Entered
  <2>1. d \in Descriptors
    BY DEF Present
  <2>2. /\ v.watches[d].identity = w.watches[d].identity
        /\ v.watches[d].lifetime = w.watches[d].lifetime
        /\ v.watches[d].interests = w.watches[d].interests \ Touched(w, gone, d)
        /\ v.retired[d] = w.retired[d]
    BY <1>1, <1>5, <2>1, ZenonT(60) DEF Watches
  <2>3. w.watches[d].interests \ Touched(w, gone, d) # {}
    BY <1>3a, <1>4 DEF Entered
  <2> QED BY <1>4, <2>2, <2>3 DEF Entered
<1>10. Indexed(v)
  <2> SUFFICES ASSUME NEW i \in Inodes, NEW d \in Descriptors
               PROVE  v.index[i] = d <=> v.watches[d].identity = i
    BY DEF Indexed
  <2>1. w.index[i] = d <=> w.watches[d].identity = i
    BY <1>4 DEF Indexed
  <2>2. d # None /\ i # None
    BY KernelAssumption
  <2>3. \A e \in last : e \in Descriptors /\ (w.watches[e].identity = i => w.index[i] = e)
    BY <1>1, <1>4 DEF Indexed, Present
  <2>4. v.index[i] = IF \E e \in last : w.watches[e].identity = i THEN None ELSE w.index[i]
    BY <1>1
  <2>5. d \in last => v.watches[d].identity = None
    BY <1>1, AbsentFields
  <2>6. d \notin last => v.watches[d].identity = w.watches[d].identity
    BY <1>1, <1>5 DEF Watches
  <2> QED BY <2>1, <2>2, <2>3, <2>4, <2>5, <2>6
<1>11. Scoped(v)
  BY <1>1, <1>4, <1>6 DEF Scoped
<1>12. Cardinality(Present(v)) <= v.budget
  <2>1. Cardinality(Present(v)) <= Cardinality(Present(w))
    BY <1>2, FewerPresent
  <2>2. w.budget \in Nat
    BY <1>4, LimitsAssumption DEF Workers
  <2> QED BY <1>1, <1>4, <2>1, <2>2, PresentFinite
<1>13. Registry(v)
  BY <1>1, <1>7, <1>8, <1>9, <1>10, <1>11, <1>12 DEF Registry
<1> QED BY <1>13 DEF v

\* A removal and the inotify_rm_watch calls after it: one more ignored record
\* is awaited for each watch that goes, and the kernel owes exactly that.
LEMMA RemoveInterestsFollows ==
  ASSUME NEW w, Registry(w), NEW gone \in SUBSET Interests, NEW k, Follows(w, k, {})
  PROVE  Follows(RemoveInterests(w, gone), RmWatches(k, Emptied(w, gone)), {})
<1> DEFINE v == RemoveInterests(w, gone)
           last == Emptied(w, gone)
           t == RmWatches(k, last)
<1> HIDE DEF t
<1>1. /\ v \in Workers
      /\ last \subseteq Present(w)
      /\ \A d \in Descriptors :
           /\ v.watches[d] = IF d \in last THEN Absent
                ELSE [w.watches[d] EXCEPT !.interests = @ \ Touched(w, gone, d)]
           /\ v.retired[d] = IF d \in last THEN Retired(w.retired[d], w.watches[d].lifetime)
                             ELSE w.retired[d]
      /\ v.exhausted = w.exhausted
  BY RemoveInterestsFields
<1>2. Present(v) = Present(w) \ last
  BY RemoveInterestsPresent
<1> HIDE DEF v, last
<1>3. last \in SUBSET Descriptors /\ k \in Kernels
  BY <1>1 DEF Present, Follows
<1>4. /\ Queued(k, t, {d \in last : k.watch[d] # None})
      /\ t.watch = [d \in Descriptors |-> IF d \in last THEN None ELSE k.watch[d]]
  BY <1>3, RmWatchesQueues DEF t
<1>5. ASSUME NEW d \in last
      PROVE  Awaits(v, d) = Awaits(w, d) + 1 /\ Awaits(w, d) \in Nat
  <2> DEFINE r == w.retired[d]
             l == w.watches[d].lifetime
  <2>1. d \in Descriptors /\ d \in Present(w) /\ v.retired[d] = Retired(r, l)
    BY <1>1 DEF Present
  <2>2. r \in Ranges /\ l \in Nat /\ l >= 1
    BY <2>1, LimitsAssumption DEF Watches, Entered, Registry, Workers
  <2>3. /\ r # NoRange => l = r.last + 1
        /\ r # NoRange => 1 <= r.first /\ r.first <= r.last
    BY <2>1 DEF Entered, Ranged, Registry
  <2>4. r.first \in Int /\ r.last \in Int
    BY <2>2, LimitsAssumption DEF Ranges
  <2> HIDE DEF l
  <2>5. CASE r = NoRange
    <3>1. v.retired[d] = [first |-> l, last |-> l]
      BY <2>1, <2>5 DEF Retired
    <3>2. v.retired[d] # NoRange
      BY <2>2, <3>1 DEF NoRange
    <3> QED BY <2>2, <2>5, <3>1, <3>2 DEF Awaits
  <2>6. CASE r # NoRange
    <3>1. v.retired[d] = [r EXCEPT !.last = l]
      BY <2>1, <2>3, <2>6 DEF Retired
    <3>2. v.retired[d].first = r.first /\ v.retired[d].last = l
      BY <2>2, <3>1 DEF Ranges
    <3>3. v.retired[d] # NoRange
      BY <2>2, <3>2 DEF NoRange
    <3> QED BY <2>2, <2>3, <2>4, <2>6, <3>2, <3>3 DEF Awaits
  <2> QED BY <2>5, <2>6
<1>6. \A q \in Seq(Records), d \in Descriptors : Ends(q, d) \in Nat
  BY EndsNat
<1>7. t \in Kernels /\ t.queue \in Seq(Records) /\ k.queue \in Seq(Records)
  BY <1>3, <1>4 DEF Queued, Kernels
<1> SUFFICES ASSUME NEW d \in Descriptors
             PROVE  /\ t.watch[d] # None => d \in Present(v)
                    /\ d \in v.exhausted => t.watch[d] = None
                    /\ d \notin v.exhausted =>
                         /\ Ends(t.queue, d) <= Awaits(v, d) + Gone(v, t, {}, d)
                         /\ ~Lossy => Ends(t.queue, d) = Awaits(v, d) + Gone(v, t, {}, d)
  BY <1>7 DEF Follows, t, v, last
<1>8. /\ k.watch[d] # None => d \in Present(w)
      /\ d \in w.exhausted => k.watch[d] = None
      /\ d \notin w.exhausted =>
           /\ Ends(k.queue, d) <= Awaits(w, d) + Gone(w, k, {}, d)
           /\ ~Lossy => Ends(k.queue, d) = Awaits(w, d) + Gone(w, k, {}, d)
  BY DEF Follows
<1>9. /\ Ends(t.queue, d) <= Ends(k.queue, d) + (IF d \in last /\ k.watch[d] # None THEN 1 ELSE 0)
      /\ ~Lossy => Ends(t.queue, d) =
                     Ends(k.queue, d) + (IF d \in last /\ k.watch[d] # None THEN 1 ELSE 0)
  BY <1>4 DEF Queued
<1>10. Ends(t.queue, d) \in Nat /\ Ends(k.queue, d) \in Nat
  BY <1>6, <1>7
<1>11. CASE d \in last
  <2>1. t.watch[d] = None /\ d \notin Present(v) /\ d \in Present(w)
    BY <1>1, <1>2, <1>4, <1>11
  <2>2. Gone(v, t, {}, d) = 0
    BY <2>1 DEF Gone
  <2>3. Gone(w, k, {}, d) = IF k.watch[d] = None THEN 1 ELSE 0
    BY <2>1 DEF Gone
  <2> QED BY <1>1, <1>5, <1>8, <1>9, <1>10, <1>11, <2>1, <2>2, <2>3
<1>12. CASE d \notin last
  <2>1. t.watch[d] = k.watch[d] /\ (d \in Present(v) <=> d \in Present(w))
    BY <1>2, <1>4, <1>12
  <2>2. Gone(v, t, {}, d) = Gone(w, k, {}, d)
    BY <2>1 DEF Gone
  <2>3. Awaits(v, d) = Awaits(w, d)
    BY <1>1, <1>12 DEF Awaits
  <2>4. Ends(t.queue, d) <= Ends(k.queue, d) /\ (~Lossy => Ends(t.queue, d) = Ends(k.queue, d))
    BY <1>9, <1>10, <1>12
  <2>5. Awaits(w, d) + Gone(w, k, {}, d) \in Int
    <3>1. w.retired[d] \in Ranges
      BY DEF Registry, Workers
    <3>2. w.retired[d].first \in Int /\ w.retired[d].last \in Int
      BY <3>1, LimitsAssumption DEF Ranges
    <3> QED BY <3>2 DEF Awaits, Gone
  <2> QED BY <1>1, <1>8, <1>10, <2>1, <2>2, <2>3, <2>4, <2>5
<1> QED BY <1>11, <1>12

LEMMA AwaitsNat ==
  ASSUME NEW w, Registry(w), NEW d \in Descriptors, NEW k, NEW adding
  PROVE  /\ Awaits(w, d) \in Nat
         /\ Gone(w, k, adding, d) \in {0, 1}
<1>1. w.retired[d] \in Ranges
  BY DEF Registry, Workers
<1>2. w.retired[d].first \in Int /\ w.retired[d].last \in Int
  BY <1>1, LimitsAssumption DEF Ranges
<1>3. w.retired[d] = NoRange \/ w.retired[d].first <= w.retired[d].last
  BY DEF Registry, Ranged
<1> QED BY <1>2, <1>3 DEF Awaits, Gone

\* The watches that end are the ones whose ignored records are queued.
LEMMA QueuedFollows ==
  ASSUME NEW w, Registry(w), NEW adding, NEW k, Follows(w, k, adding), NEW ends, NEW t,
         Queued(k, t, ends),
         \A d \in Descriptors :
           /\ t.watch[d] = IF d \in ends THEN None ELSE k.watch[d]
           /\ d \in ends => k.watch[d] # None
  PROVE  Follows(w, t, adding)
<1>1. t \in Kernels /\ k \in Kernels
  BY DEF Queued, Follows
<1> SUFFICES ASSUME NEW d \in Descriptors
             PROVE  /\ t.watch[d] # None => d \in Present(w) \union adding
                    /\ d \in w.exhausted => t.watch[d] = None
                    /\ d \notin w.exhausted =>
                         /\ Ends(t.queue, d) <= Awaits(w, d) + Gone(w, t, adding, d)
                         /\ ~Lossy => Ends(t.queue, d) = Awaits(w, d) + Gone(w, t, adding, d)
  BY <1>1 DEF Follows
<1>2. /\ k.watch[d] # None => d \in Present(w) \union adding
      /\ d \in w.exhausted => k.watch[d] = None
      /\ d \notin w.exhausted =>
           /\ Ends(k.queue, d) <= Awaits(w, d) + Gone(w, k, adding, d)
           /\ ~Lossy => Ends(k.queue, d) = Awaits(w, d) + Gone(w, k, adding, d)
  BY DEF Follows
<1>3. /\ Ends(t.queue, d) <= Ends(k.queue, d) + (IF d \in ends THEN 1 ELSE 0)
      /\ ~Lossy => Ends(t.queue, d) = Ends(k.queue, d) + (IF d \in ends THEN 1 ELSE 0)
  BY DEF Queued
<1>4. Ends(t.queue, d) \in Nat /\ Ends(k.queue, d) \in Nat
  BY <1>1, EndsNat DEF Kernels
<1>5. Awaits(w, d) \in Nat /\ Gone(w, t, adding, d) \in {0, 1} /\ Gone(w, k, adding, d) \in {0, 1}
  BY AwaitsNat
<1>6. CASE d \in ends
  <2>1. k.watch[d] # None /\ t.watch[d] = None /\ d \in Present(w) \union adding
    BY <1>2, <1>6
  <2>2. Gone(w, t, adding, d) = 1 /\ Gone(w, k, adding, d) = 0
    BY <2>1 DEF Gone
  <2> QED BY <1>2, <1>3, <1>4, <1>5, <1>6, <2>1, <2>2
<1>7. CASE d \notin ends
  <2>1. Gone(w, t, adding, d) = Gone(w, k, adding, d) /\ t.watch[d] = k.watch[d]
    BY <1>7 DEF Gone
  <2> QED BY <1>2, <1>3, <1>4, <1>5, <1>7, <2>1
<1> QED BY <1>6, <1>7

\* What is read from the queue.
LEMMA TailKernel ==
  ASSUME NEW k \in Kernels, k.queue # <<>>
  PROVE  LET t == [k EXCEPT !.queue = Tail(@)]
         IN  /\ t \in Kernels /\ t.watch = k.watch /\ t.queue = Tail(k.queue)
             /\ Head(k.queue) \in Records
             /\ \A d \in Descriptors : Ends(t.queue, d) =
                  Ends(k.queue, d) - IF Head(k.queue) = Record("ignored", d) THEN 1 ELSE 0
<1>1. k.queue \in Seq(Records)
  BY DEF Kernels
<1>2. Head(k.queue) \in Records /\ Tail(k.queue) \in Seq(Records)
  BY <1>1, HeadTailProperties
<1>3. \A d \in Descriptors : Ends(Tail(k.queue), d) =
        Ends(k.queue, d) - IF Head(k.queue) = Record("ignored", d) THEN 1 ELSE 0
  BY <1>1, CountTail DEF Ends
<1> QED BY <1>2, <1>3 DEF Kernels

LEMMA TailFollows ==
  ASSUME NEW w, NEW adding, NEW k, Follows(w, k, adding), k.queue # <<>>,
         Head(k.queue).kind # "ignored"
  PROVE  Follows(w, [k EXCEPT !.queue = Tail(@)], adding)
<1> DEFINE t == [k EXCEPT !.queue = Tail(@)]
<1>1. k \in Kernels
  BY DEF Follows
<1>2. /\ t \in Kernels /\ t.watch = k.watch
      /\ \A d \in Descriptors : Ends(t.queue, d) =
           Ends(k.queue, d) - IF Head(k.queue) = Record("ignored", d) THEN 1 ELSE 0
  BY <1>1, TailKernel
<1> HIDE DEF t
<1>3. \A d \in Descriptors : Head(k.queue) # Record("ignored", d)
  BY DEF Record
<1>4. \A d \in Descriptors : Ends(t.queue, d) = Ends(k.queue, d)
  <2>1. \A d \in Descriptors : Ends(k.queue, d) \in Nat
    BY <1>1, EndsNat DEF Kernels
  <2> QED BY <1>2, <1>3, <2>1
<1>5. Follows(w, t, adding)
  BY <1>2, <1>4 DEF Follows, Gone
<1> QED BY <1>5 DEF t

\* Records that end no watch leave the kernel and the registry as they were.
LEMMA ReportedFollows ==
  ASSUME NEW w, Registry(w), NEW adding, NEW k, Follows(w, k, adding), NEW rs \in Seq(Records),
         \A d \in Descriptors : Ends(rs, d) = 0
  PROVE  /\ Follows(w, Reported(k, rs), adding)
         /\ Len(Reported(k, rs).queue) >= Len(k.queue)
<1>1. k \in Kernels
  BY DEF Follows
<1>2. Queued(k, Reported(k, rs), {}) /\ Reported(k, rs).watch = k.watch
  BY <1>1, ReportedQueues
<1>3. Follows(w, Reported(k, rs), adding)
  BY <1>2, QueuedFollows
<1> QED BY <1>2, <1>3 DEF Queued

LEMMA OneRecord ==
  ASSUME NEW r \in Records
  PROVE  /\ <<r>> \in Seq(Records)
         /\ r.kind # "ignored" => \A d \in Descriptors : Ends(<<r>>, d) = 0
<1>1. r.kind # "ignored" => \A d : r # Record("ignored", d)
  BY DEF Record
<1> QED BY <1>1, CountOne DEF Ends

LEMMA TwoRecords ==
  ASSUME NEW r \in Records, NEW s \in Records, r.kind # "ignored"
  PROVE  /\ <<r, s>> \in Seq(Records)
         /\ \A d \in Descriptors :
              Ends(<<r, s>>, d) = IF s = Record("ignored", d) THEN 1 ELSE 0
<1> DEFINE q == <<r>>
<1>1. q \in Seq(Records) /\ \A d \in Descriptors : Ends(q, d) = 0
  BY OneRecord
<1>2. <<r, s>> = Append(q, s)
  OBVIOUS
<1> HIDE DEF q
<1>3. \A d \in Descriptors :
        Ends(Append(q, s), d) = Ends(q, d) + IF s = Record("ignored", d) THEN 1 ELSE 0
  BY <1>1, CountAppend DEF Ends
<1>4. \A d \in Descriptors :
        Ends(<<r, s>>, d) = 0 + IF s = Record("ignored", d) THEN 1 ELSE 0
  BY <1>1, <1>2, <1>3
<1>5. <<r, s>> \in Seq(Records)
  OBVIOUS
<1> QED BY <1>4, <1>5

\* The open under way.
Adding(o) == IF o.stage = "added" THEN {o.wd} ELSE {}

Opens(w, o) ==
  /\ o.stage \in {"none", "identified", "added", "reading"}
  /\ o.stage # "none" => o.of \in Interests /\ o.of[1] \in Active(w)
  /\ o.stage \in {"identified", "added"} =>
       /\ o.identity \in Inodes
       /\ w.watched[o.of] = None
       /\ w.index[o.identity] = None \/ o.stage = "identified"
  /\ o.stage = "added" =>
       /\ o.wd \in Descriptors
       /\ o.wd \notin Present(w) /\ o.wd \notin w.exhausted
       /\ NextLifetime(w, o.wd) <= LastLifetime
       /\ Cardinality(Present(w)) < w.budget

TableInv ==
  /\ fs \in [Paths -> Inodes \union {None}]
  /\ Registry(worker)
  /\ Follows(worker, kernel, Adding(opening))
  /\ Opens(worker, opening)

LEMMA Closed ==
  /\ Adding(NotOpening) = {}
  /\ \A w : Opens(w, NotOpening)
  /\ \A x, i, d : Adding(Opening("reading", x, i, d)) = {}
  /\ \A x, i, d : Adding(Opening("identified", x, i, d)) = {}
  /\ \A x, i, d : Adding(Opening("added", x, i, d)) = {d}
BY DEF Adding, NotOpening, Opening, Opens

----------------------------------------------------------------------------
(* The steps of the file system.                                           *)

LEMMA CreateDirTable ==
  ASSUME TableInv, NEW p \in Paths, NEW i \in Inodes, CreateDir(p, i)
  PROVE  TableInv' /\ Len(kernel'.queue) >= Len(kernel.queue)
<1> DEFINE r == Record("created", p)
<1>1. r \in Records /\ r.kind # "ignored"
  BY DEF Record, Records
<1> HIDE DEF r
<1>2. /\ kernel' = Reported(kernel, <<r>>)
      /\ worker' = worker /\ opening' = opening
      /\ fs' \in [Paths -> Inodes \union {None}]
  BY DEF CreateDir, r, TableInv
<1>3. Follows(worker, kernel', Adding(opening)) /\ Len(kernel'.queue) >= Len(kernel.queue)
  BY <1>1, <1>2, OneRecord, ReportedFollows DEF TableInv
<1> QED BY <1>2, <1>3 DEF TableInv

LEMMA RemoveDirTable ==
  ASSUME TableInv, NEW p \in Paths, RemoveDir(p)
  PROVE  TableInv' /\ Len(kernel'.queue) >= Len(kernel.queue)
<1> DEFINE r == Record("removed", p)
<1>1. r \in Records /\ r.kind # "ignored"
  BY DEF Record, Records
<1> HIDE DEF r
<1>2. /\ kernel' = Reported(kernel, <<r>>)
      /\ worker' = worker /\ opening' = opening
      /\ fs' \in [Paths -> Inodes \union {None}]
  BY DEF RemoveDir, r, TableInv
<1>3. Follows(worker, kernel', Adding(opening)) /\ Len(kernel'.queue) >= Len(kernel.queue)
  BY <1>1, <1>2, OneRecord, ReportedFollows DEF TableInv
<1> QED BY <1>2, <1>3 DEF TableInv

LEMMA MoveDirTable ==
  ASSUME TableInv, NEW p \in Paths, NEW q \in Paths, MoveDir(p, q)
  PROVE  TableInv' /\ Len(kernel'.queue) >= Len(kernel.queue)
<1> DEFINE r == Record("removed", p)
           s == Record("created", q)
<1>1. r \in Records /\ s \in Records /\ r.kind # "ignored"
      /\ \A d \in Descriptors : s # Record("ignored", d)
  BY DEF Record, Records
<1> HIDE DEF r, s
<1>2. /\ kernel' = Reported(kernel, <<r, s>>)
      /\ worker' = worker /\ opening' = opening
      /\ fs' \in [Paths -> Inodes \union {None}]
  BY DEF MoveDir, r, s, TableInv
<1>3. <<r, s>> \in Seq(Records) /\ \A d \in Descriptors : Ends(<<r, s>>, d) = 0
  BY <1>1, TwoRecords
<1>4. Follows(worker, kernel', Adding(opening)) /\ Len(kernel'.queue) >= Len(kernel.queue)
  BY <1>2, <1>3, ReportedFollows DEF TableInv
<1> QED BY <1>2, <1>4 DEF TableInv

LEMMA EvictTable ==
  ASSUME TableInv, NEW d \in Descriptors, Evict(d)
  PROVE  TableInv' /\ Len(kernel'.queue) >= Len(kernel.queue)
<1> DEFINE r == Record("deleteself", d)
           s == Record("ignored", d)
           j == [kernel EXCEPT !.watch[d] = None]
           t == Reported(j, <<r, s>>)
<1>1. r \in Records /\ s \in Records /\ r.kind # "ignored"
      /\ \A e \in Descriptors : s = Record("ignored", e) <=> e \in {d}
  BY DEF Record, Records
<1> HIDE DEF r, s
<1>2. /\ kernel' = t /\ kernel.watch[d] # None
      /\ worker' = worker /\ opening' = opening /\ fs' = fs
  BY DEF Evict, r, s
<1>3. <<r, s>> \in Seq(Records)
      /\ \A e \in Descriptors : Ends(<<r, s>>, e) = IF e \in {d} THEN 1 ELSE 0
  BY <1>1, TwoRecords
<1>4. kernel \in Kernels
  BY DEF TableInv, Follows
<1>5. /\ j \in Kernels /\ j.queue = kernel.queue
      /\ \A e \in Descriptors : j.watch[e] = IF e \in {d} THEN None ELSE kernel.watch[e]
  BY <1>4 DEF Kernels
<1> HIDE DEF j
<1>6. Queued(j, t, {d}) /\ t.watch = j.watch
  BY <1>3, <1>5, ReportedQueues
<1> HIDE DEF t
<1>7. Queued(kernel, t, {d})
  BY <1>5, <1>6 DEF Queued
<1>8. Follows(worker, t, Adding(opening))
  <2>1. \A e \in Descriptors :
          /\ t.watch[e] = IF e \in {d} THEN None ELSE kernel.watch[e]
          /\ e \in {d} => kernel.watch[e] # None
    BY <1>2, <1>5, <1>6
  <2>2. Registry(worker) /\ Follows(worker, kernel, Adding(opening))
    BY DEF TableInv
  <2> QED BY <1>7, <2>1, <2>2, QueuedFollows
<1> QED BY <1>2, <1>7, <1>8 DEF TableInv, Queued

----------------------------------------------------------------------------
(* What the handlers do to the registry.                                   *)

\* Only the marks and the deferrals differ.
Alike(w, v) ==
  /\ v \in Workers /\ SameTable(w, v)
  /\ v.disposing = w.disposing /\ v.jobs = w.jobs /\ v.recon = w.recon

LEMMA AlikeRegistry ==
  ASSUME NEW w, Registry(w), NEW v, Alike(w, v)
  PROVE  /\ Registry(v)
         /\ Present(v) = Present(w) /\ Active(v) = Active(w)
         /\ \A k, adding : Follows(v, k, adding) <=> Follows(w, k, adding)
         /\ \A o : Opens(v, o) <=> Opens(w, o)
<1>1. /\ v \in Workers /\ SameTable(w, v) /\ w.disposing \subseteq v.disposing
      /\ Scoped(v) /\ Active(v) = Active(w)
  BY DEF Alike, Scoped, Registry, Active
<1>2. Present(v) = Present(w)
  BY <1>1 DEF SameTable, Present
<1>3. Registry(v)
  BY <1>1, SameTableRegistry
<1>4. \A k, adding : Follows(v, k, adding) <=> Follows(w, k, adding)
  BY <1>1, SameTableFollows
<1>5. ASSUME NEW o PROVE Opens(v, o) <=> Opens(w, o)
  BY <1>1, <1>2 DEF Opens, SameTable, NextLifetime
<1> QED BY <1>1, <1>2, <1>3, <1>4, <1>5

LEMMA AlikeTwice ==
  ASSUME NEW w, NEW u, NEW v, Alike(w, u), Alike(u, v)
  PROVE  Alike(w, v)
BY DEF Alike, SameTable

LEMMA MarkUncertainAlike ==
  ASSUME NEW w, Registry(w), NEW ss \in SUBSET Subs
  PROVE  Alike(w, MarkUncertain(w, ss))
<1>1. w \in Workers
  BY DEF Registry
<1>2. MarkUncertain(w, ss) = [w EXCEPT !.uncertain = w.uncertain \union ss, !.quiet = w.quiet \ ss]
  BY DEF MarkUncertain
<1>3. w.uncertain \union ss \in SUBSET Subs /\ w.quiet \ ss \in SUBSET Subs
  BY <1>1 DEF Workers
<1> QED BY <1>1, <1>2, <1>3 DEF Alike, SameTable, Workers

LEMMA MarkReusedAlike ==
  ASSUME NEW w, Registry(w), NEW s \in Subs, NEW d
  PROVE  Alike(w, MarkReused(w, s, d))
<1>1. Alike(w, w)
  BY DEF Alike, SameTable, Registry
<1>2. Alike(w, MarkUncertain(w, {s}))
  BY MarkUncertainAlike
<1> QED BY <1>1, <1>2 DEF MarkReused

LEMMA DeferralAlike ==
  ASSUME NEW w, Registry(w), NEW f \in [Interests -> {"no", "budget", "error"}]
  PROVE  Alike(w, [w EXCEPT !.deferred = f])
<1>1. w \in Workers
  BY DEF Registry
<1> QED BY <1>1 DEF Alike, SameTable, Workers

LEMMA ForgottenAlike ==
  ASSUME NEW w, Registry(w), NEW xs
  PROVE  Alike(w, Forgotten(w, xs))
<1> DEFINE f == [x \in Interests |-> IF x \in xs THEN "no" ELSE w.deferred[x]]
<1>1. f \in [Interests -> {"no", "budget", "error"}]
  BY DEF Registry, Workers
<1>2. Forgotten(w, xs) = [w EXCEPT !.deferred = f]
  BY DEF Forgotten
<1> HIDE DEF f
<1> QED BY <1>1, <1>2, DeferralAlike

LEMMA DeferErrorAlike ==
  ASSUME NEW w, Registry(w), NEW x \in Interests
  PROVE  Alike(w, DeferError(w, x))
<1> DEFINE f == [w.deferred EXCEPT ![x] = IF w.deferred[x] = "budget" THEN w.deferred[x] ELSE "error"]
<1>1. f \in [Interests -> {"no", "budget", "error"}]
  BY DEF Registry, Workers
<1>2. DeferError(w, x) = [w EXCEPT !.deferred = f]
  BY DEF DeferError
<1> HIDE DEF f
<1> QED BY <1>1, <1>2, DeferralAlike

LEMMA FailedAlike ==
  ASSUME NEW w, Registry(w), NEW x \in Interests
  PROVE  Alike(w, Failed(w, x))
<1> DEFINE u == MarkUncertain(w, {x[1]})
<1>1. {x[1]} \in SUBSET Subs
  BY DEF Interests
<1>2. Alike(w, u)
  BY <1>1, MarkUncertainAlike
<1>3. Registry(u)
  BY <1>2, AlikeRegistry
<1> HIDE DEF u
<1>4. Alike(u, DeferError(u, x))
  BY <1>3, DeferErrorAlike
<1> QED BY <1>2, <1>4, AlikeTwice DEF Failed, u

\* The registry seen by the kernel: which watches there are, and which ends
\* are awaited.
LEMMA FollowsSame ==
  ASSUME NEW w, NEW v, NEW a, NEW b, NEW k,
         Present(v) \union b = Present(w) \union a,
         v.retired = w.retired, v.exhausted = w.exhausted, Follows(w, k, a)
  PROVE  Follows(v, k, b)
BY DEF Follows, Awaits, Gone

LEMMA MaxOfTwo ==
  ASSUME NEW a \in Int, NEW b \in Int
  PROVE  Max({a, b}) = IF a >= b THEN a ELSE b
<1>1. \E x \in {a, b} : \A y \in {a, b} : x >= y
  OBVIOUS
<1>2. /\ Max({a, b}) \in {a, b}
      /\ \A y \in {a, b} : Max({a, b}) >= y
  BY <1>1 DEF Max
<1> QED BY <1>2

LEMMA NextOfAbsent ==
  ASSUME NEW w, Registry(w), NEW d \in Descriptors, d \notin Present(w)
  PROVE  /\ NextLifetime(w, d) = w.retired[d].last + 1
         /\ w.retired[d].last \in Nat
<1>1. w.watches[d].lifetime = 0
  BY AbsentFields DEF Present
<1>2. w.retired[d].last \in Nat
  BY LimitsAssumption DEF Registry, Workers, Ranges
<1>3. Max({w.retired[d].last, 0}) = w.retired[d].last
  BY <1>2, MaxOfTwo
<1> QED BY <1>1, <1>2, <1>3 DEF NextLifetime

\* A path that is watched by no descriptor joins a watch.
LEMMA InsertInterestRegistry ==
  ASSUME NEW w, Registry(w), NEW x \in Interests, NEW d \in Present(w), w.watched[x] = None
  PROVE  LET v == InsertInterest(w, x, d)
         IN  /\ Registry(v)
             /\ Present(v) = Present(w)
             /\ v.retired = w.retired /\ v.exhausted = w.exhausted
             /\ v.disposing = w.disposing
<1> DEFINE v == InsertInterest(w, x, d)
           WT == [w.watches EXCEPT ![d].interests = @ \union {x}]
           WD == [w.watched EXCEPT ![x] = d]
           DF == [w.deferred EXCEPT ![x] = "no"]
<1>1. w \in Workers /\ Linked(w) /\ Entered(w) /\ Indexed(w) /\ Scoped(w) /\ Ranged(w)
      /\ Cardinality(Present(w)) <= w.budget
  BY DEF Registry
<1>2. /\ w.watches \in [Descriptors -> Watches] /\ d \in Descriptors
      /\ w.watched \in [Interests -> Descriptors \union {None}]
      /\ w.deferred \in [Interests -> {"no", "budget", "error"}]
  BY <1>1 DEF Workers, Present
<1>3. v = [w EXCEPT !.watches = WT, !.watched = WD, !.deferred = DF]
  BY DEF InsertInterest
<1>4. /\ WT \in [Descriptors -> Watches]
      /\ WT[d] = [w.watches[d] EXCEPT !.interests = @ \union {x}]
      /\ \A e \in Descriptors : e # d => WT[e] = w.watches[e]
  BY <1>2 DEF Watches
<1>5. WD \in [Interests -> Descriptors \union {None}] /\ DF \in [Interests -> {"no", "budget", "error"}]
  BY <1>2
<1>6. \A y \in Interests : WD[y] = IF y = x THEN d ELSE w.watched[y]
  BY <1>2
<1> HIDE DEF v, WT, WD, DF
<1>7. /\ v \in Workers /\ v.watches = WT /\ v.watched = WD
      /\ v.index = w.index /\ v.retired = w.retired /\ v.exhausted = w.exhausted
      /\ v.budget = w.budget /\ v.disposing = w.disposing /\ v.jobs = w.jobs
      /\ v.recon = w.recon
  BY <1>1, <1>3, <1>4, <1>5 DEF Workers
<1>8. /\ v.watches[d].interests = w.watches[d].interests \union {x}
      /\ v.watches[d].identity = w.watches[d].identity
      /\ v.watches[d].lifetime = w.watches[d].lifetime
  BY <1>2, <1>4, <1>7 DEF Watches
<1>9. \A e \in Descriptors : e # d => v.watches[e] = w.watches[e]
  BY <1>4, <1>7
<1>10. Present(v) = Present(w)
  <2>1. d \in Present(v)
    BY <1>2, <1>8, AbsentFields DEF Present
  <2> QED BY <1>9, <2>1 DEF Present
<1>11. Active(v) = Active(w)
  BY <1>7 DEF Active
<1>12. Ranged(v) /\ Scoped(v)
  BY <1>1, <1>7, <1>11 DEF Ranged, Scoped
<1>13. Entered(v)
  BY <1>1, <1>2, <1>7, <1>8, <1>9, <1>10 DEF Entered, Present
<1>14. Indexed(v)
  BY <1>1, <1>7, <1>8, <1>9 DEF Indexed
<1>15. Linked(v)
  <2> SUFFICES ASSUME NEW y \in Interests, NEW e \in Descriptors
               PROVE  /\ y \in v.watches[e].interests => v.watched[y] = e
                      /\ (v.watched[y] = e /\ y[1] \in Active(v)) => y \in v.watches[e].interests
    BY DEF Linked
  <2>1. /\ y \in w.watches[e].interests => w.watched[y] = e
        /\ (w.watched[y] = e /\ y[1] \in Active(w)) => y \in w.watches[e].interests
    BY <1>1 DEF Linked
  <2>2. v.watched[y] = IF y = x THEN d ELSE w.watched[y]
    BY <1>6, <1>7
  <2>3. e # None
    BY KernelAssumption
  <2> QED BY <1>8, <1>9, <1>11, <2>1, <2>2, <2>3
<1>16. Registry(v)
  BY <1>1, <1>7, <1>10, <1>12, <1>13, <1>14, <1>15 DEF Registry
<1> QED BY <1>7, <1>10, <1>16 DEF v

\* A new watch takes the lifetime after those that are awaited.
LEMMA NewWatchRegistry ==
  ASSUME NEW w, Registry(w), NEW x \in Interests, NEW d \in Descriptors, NEW i \in Inodes,
         d \notin Present(w), w.watched[x] = None, w.index[i] = None,
         NextLifetime(w, d) <= LastLifetime, Cardinality(Present(w)) < w.budget
  PROVE  LET v == InsertInterest(Registered(w, i, d), x, d)
         IN  /\ Registry(v)
             /\ Present(v) = Present(w) \union {d}
             /\ v.retired = w.retired /\ v.exhausted = w.exhausted
             /\ v.disposing = w.disposing
<1> DEFINE u == Registered(w, i, d)
           v == InsertInterest(u, x, d)
           new == [lifetime |-> NextLifetime(w, d), identity |-> i,
                   interests |-> {}, expects |-> FALSE]
           UT == [w.watches EXCEPT ![d] = new]
           IX == [w.index EXCEPT ![i] = d]
           WT == [UT EXCEPT ![d].interests = @ \union {x}]
           WD == [w.watched EXCEPT ![x] = d]
           DF == [w.deferred EXCEPT ![x] = "no"]
<1>1. w \in Workers /\ Linked(w) /\ Entered(w) /\ Indexed(w) /\ Scoped(w) /\ Ranged(w)
  BY DEF Registry
<1>2. /\ w.watches \in [Descriptors -> Watches]
      /\ w.index \in [Inodes -> Descriptors \union {None}]
      /\ w.watched \in [Interests -> Descriptors \union {None}]
      /\ w.deferred \in [Interests -> {"no", "budget", "error"}]
      /\ w.budget \in Nat
  BY <1>1, LimitsAssumption DEF Workers
<1>3. /\ NextLifetime(w, d) = w.retired[d].last + 1
      /\ w.retired[d].last \in Nat
  BY NextOfAbsent
<1>4. new \in Watches
  BY <1>3, LimitsAssumption DEF Watches
<1>5. u = [w EXCEPT !.watches = UT, !.index = IX]
  BY DEF Registered
<1>6. UT \in [Descriptors -> Watches] /\ UT[d] = new
      /\ \A e \in Descriptors : e # d => UT[e] = w.watches[e]
  BY <1>2, <1>4
<1> HIDE DEF new
<1>7. /\ WT \in [Descriptors -> Watches]
      /\ WT[d] = [new EXCEPT !.interests = @ \union {x}]
      /\ \A e \in Descriptors : e # d => WT[e] = w.watches[e]
  <2> HIDE DEF UT
  <2> QED BY <1>4, <1>6 DEF Watches
<1>8. /\ IX \in [Inodes -> Descriptors \union {None}]
      /\ WD \in [Interests -> Descriptors \union {None}]
      /\ DF \in [Interests -> {"no", "budget", "error"}]
      /\ \A y \in Interests : WD[y] = IF y = x THEN d ELSE w.watched[y]
      /\ \A j \in Inodes : IX[j] = IF j = i THEN d ELSE w.index[j]
  BY <1>2
<1>9. v = [w EXCEPT !.watches = WT, !.index = IX, !.watched = WD, !.deferred = DF]
  <2>1. /\ u.watches = UT /\ u.watched = w.watched /\ u.deferred = w.deferred
    <3> HIDE DEF UT, IX, u
    <3> QED BY <1>1, <1>5 DEF Workers
  <2>2. v = [u EXCEPT !.watches = WT, !.watched = WD, !.deferred = DF]
    <3> HIDE DEF u, UT, IX
    <3> QED BY <2>1 DEF InsertInterest
  <2> HIDE DEF v, u, UT, IX, WT, WD, DF
  <2> QED BY <1>1, <1>5, <2>2 DEF Workers
<1> HIDE DEF v, u, UT, IX, WT, WD, DF
<1>10. /\ v \in Workers /\ v.watches = WT /\ v.watched = WD /\ v.index = IX
       /\ v.retired = w.retired /\ v.exhausted = w.exhausted
       /\ v.budget = w.budget /\ v.disposing = w.disposing /\ v.jobs = w.jobs
       /\ v.recon = w.recon
  BY <1>1, <1>7, <1>8, <1>9 DEF Workers
<1>11. /\ v.watches[d].interests = {x} /\ v.watches[d].identity = i
       /\ v.watches[d].lifetime = w.retired[d].last + 1
  BY <1>3, <1>7, <1>10 DEF new
<1>12. \A e \in Descriptors : e # d => v.watches[e] = w.watches[e]
  BY <1>7, <1>10
<1>13. Present(v) = Present(w) \union {d}
  <2>1. d \in Present(v)
    BY <1>11, AbsentFields, KernelAssumption DEF Present
  <2> QED BY <1>12, <2>1 DEF Present
<1>14. Active(v) = Active(w)
  BY <1>10 DEF Active
<1>15. Ranged(v) /\ Scoped(v)
  BY <1>1, <1>10, <1>14 DEF Ranged, Scoped
<1>16. Entered(v)
  <2> SUFFICES ASSUME NEW e \in Present(w) \union {d}
               PROVE  /\ v.watches[e].identity \in Inodes
                      /\ v.watches[e].lifetime >= 1
                      /\ v.watches[e].interests # {}
                      /\ v.retired[e] # NoRange => v.watches[e].lifetime = v.retired[e].last + 1
    BY <1>13 DEF Entered
  <2>1. CASE e = d
    <3>1. v.watches[d].lifetime >= 1 /\ v.watches[d].lifetime = v.retired[d].last + 1
      BY <1>3, <1>10, <1>11
    <3>2. v.watches[d].identity \in Inodes /\ v.watches[d].interests # {}
      BY <1>11
    <3> QED BY <2>1, <3>1, <3>2
  <2>2. CASE e # d
    <3>1. e \in Descriptors /\ e \in Present(w)
      BY <2>2 DEF Present
    <3> QED BY <1>1, <1>10, <1>12, <2>2, <3>1 DEF Entered
  <2> QED BY <2>1, <2>2
<1>17. Indexed(v)
  <2> SUFFICES ASSUME NEW j \in Inodes, NEW e \in Descriptors
               PROVE  v.index[j] = e <=> v.watches[e].identity = j
    BY DEF Indexed
  <2>1. w.index[j] = e <=> w.watches[e].identity = j
    BY <1>1 DEF Indexed
  <2>2. v.index[j] = IF j = i THEN d ELSE w.index[j]
    BY <1>8, <1>10
  <2>3. e # None /\ j # None
    BY KernelAssumption
  <2>4. w.watches[d].identity = None
    BY AbsentFields DEF Present
  <2>5. w.index[i] = e <=> w.watches[e].identity = i
    BY <1>1 DEF Indexed
  <2> QED BY <1>11, <1>12, <2>1, <2>2, <2>3, <2>4, <2>5
<1>18. Linked(v)
  <2> SUFFICES ASSUME NEW y \in Interests, NEW e \in Descriptors
               PROVE  /\ y \in v.watches[e].interests => v.watched[y] = e
                      /\ (v.watched[y] = e /\ y[1] \in Active(v)) => y \in v.watches[e].interests
    BY DEF Linked
  <2>1. /\ y \in w.watches[e].interests => w.watched[y] = e
        /\ (w.watched[y] = e /\ y[1] \in Active(w)) => y \in w.watches[e].interests
    BY <1>1 DEF Linked
  <2>2. v.watched[y] = IF y = x THEN d ELSE w.watched[y]
    BY <1>8, <1>10
  <2>3. e # None
    BY KernelAssumption
  <2>4. w.watches[d].interests = {}
    BY AbsentFields DEF Present
  <2> QED BY <1>11, <1>12, <1>14, <2>1, <2>2, <2>3, <2>4
<1>19. Cardinality(Present(v)) <= v.budget
  <2>1. Cardinality(Present(w) \union {d}) = Cardinality(Present(w)) + 1
    BY PresentFinite, FS_AddElement
  <2> QED BY <1>2, <1>10, <1>13, <2>1, PresentFinite
<1>20. Registry(v)
  BY <1>10, <1>15, <1>16, <1>17, <1>18, <1>19 DEF Registry
<1> QED BY <1>10, <1>13, <1>20 DEF u, v

\* The end of a watch takes it out of the registry, and of the paths of every
\* subscription that still wants them.
LEMMA LostRegistry ==
  ASSUME NEW w, Registry(w), NEW d \in Present(w)
  PROVE  LET v == Lost(w, d)
         IN  /\ Registry(v)
             /\ Present(v) = Present(w) \ {d}
             /\ v.retired = w.retired /\ v.exhausted = w.exhausted
<1> DEFINE held == {x \in w.watches[d].interests : x[1] \in Active(w)}
           WT == [w.watches EXCEPT ![d] = Absent]
           IX == [i \in Inodes |-> IF w.index[i] = d THEN None ELSE w.index[i]]
           WD == [x \in Interests |-> IF x \in held THEN None ELSE w.watched[x]]
           v == [w EXCEPT !.watches = WT, !.index = IX, !.watched = WD]
<1>1. w \in Workers /\ Linked(w) /\ Entered(w) /\ Indexed(w) /\ Scoped(w) /\ Ranged(w)
      /\ Cardinality(Present(w)) <= w.budget
  BY DEF Registry
<1>2. /\ w.watches \in [Descriptors -> Watches] /\ d \in Descriptors
      /\ w.index \in [Inodes -> Descriptors \union {None}]
      /\ w.watched \in [Interests -> Descriptors \union {None}]
      /\ w.budget \in Nat
  BY <1>1, LimitsAssumption DEF Workers, Present
<1>3. w.watches[d].interests \in SUBSET Interests
  BY <1>2 DEF Watches
<1>4. held \in SUBSET Interests /\ {x[1] : x \in held} \in SUBSET Subs
  BY <1>3 DEF Interests
<1>5. Lost(w, d) = IF w.watches[d].expects THEN v ELSE MarkUncertain(v, {x[1] : x \in held})
  BY DEF Lost
<1>6. /\ WT \in [Descriptors -> Watches] /\ WT[d] = Absent
      /\ \A e \in Descriptors : e # d => WT[e] = w.watches[e]
      /\ IX \in [Inodes -> Descriptors \union {None}]
      /\ \A i \in Inodes : IX[i] = IF w.index[i] = d THEN None ELSE w.index[i]
      /\ WD \in [Interests -> Descriptors \union {None}]
      /\ \A x \in Interests : WD[x] = IF x \in held THEN None ELSE w.watched[x]
  BY <1>2, AbsentFields
<1>7. \A x \in held : w.watched[x] = d
  BY <1>1, <1>2, <1>4 DEF Linked
<1>8. \A x \in w.watches[d].interests : x[1] \in Active(w) => x \in held
  OBVIOUS
<1> HIDE DEF WT, IX, WD, held
<1>9. /\ v \in Workers /\ v.watches = WT /\ v.watched = WD /\ v.index = IX
      /\ v.retired = w.retired /\ v.exhausted = w.exhausted
      /\ v.budget = w.budget /\ v.disposing = w.disposing /\ v.jobs = w.jobs
      /\ v.recon = w.recon
  BY <1>1, <1>6 DEF Workers
<1> HIDE DEF v
<1>10. v.watches[d] = Absent /\ \A e \in Descriptors : e # d => v.watches[e] = w.watches[e]
  BY <1>6, <1>9
<1>11. Present(v) = Present(w) \ {d}
  BY <1>2, <1>10 DEF Present
<1>12. Active(v) = Active(w)
  BY <1>9 DEF Active
<1>13. Ranged(v) /\ Scoped(v)
  BY <1>1, <1>9, <1>12 DEF Ranged, Scoped
<1>14. Entered(v)
  BY <1>1, <1>9, <1>10, <1>11 DEF Entered, Present
<1>15. Indexed(v)
  <2> SUFFICES ASSUME NEW i \in Inodes, NEW e \in Descriptors
               PROVE  v.index[i] = e <=> v.watches[e].identity = i
    BY DEF Indexed
  <2>1. /\ w.index[i] = e <=> w.watches[e].identity = i
        /\ w.index[i] = d <=> w.watches[d].identity = i
    BY <1>1, <1>2 DEF Indexed
  <2>2. v.index[i] = IF w.index[i] = d THEN None ELSE w.index[i]
    BY <1>6, <1>9
  <2>3. e # None /\ i # None
    BY KernelAssumption
  <2> QED BY <1>10, <2>1, <2>2, <2>3, AbsentFields
<1>16. Linked(v)
  <2> SUFFICES ASSUME NEW y \in Interests, NEW e \in Descriptors
               PROVE  /\ y \in v.watches[e].interests => v.watched[y] = e
                      /\ (v.watched[y] = e /\ y[1] \in Active(v)) => y \in v.watches[e].interests
    BY DEF Linked
  <2>1. /\ y \in w.watches[e].interests => w.watched[y] = e
        /\ (w.watched[y] = e /\ y[1] \in Active(w)) => y \in w.watches[e].interests
    BY <1>1 DEF Linked
  <2>2. v.watched[y] = IF y \in held THEN None ELSE w.watched[y]
    BY <1>6, <1>9
  <2>3. e # None
    BY KernelAssumption
  <2>4. e = d => v.watches[e].interests = {}
    BY <1>10, AbsentFields
  <2> QED BY <1>7, <1>8, <1>10, <1>12, <2>1, <2>2, <2>3, <2>4
<1>17. Cardinality(Present(v)) <= v.budget
  <2>1. Cardinality(Present(v)) <= Cardinality(Present(w))
    BY <1>11, FewerPresent
  <2> QED BY <1>1, <1>2, <1>9, <2>1, PresentFinite
<1>18. Registry(v)
  BY <1>9, <1>13, <1>14, <1>15, <1>16, <1>17 DEF Registry
<1>19. Alike(v, Lost(w, d))
  <2>1. Alike(v, v)
    BY <1>9 DEF Alike, SameTable
  <2>2. Alike(v, MarkUncertain(v, {x[1] : x \in held}))
    BY <1>4, <1>18, MarkUncertainAlike
  <2> QED BY <1>5, <2>1, <2>2
<1>20. Registry(Lost(w, d)) /\ Present(Lost(w, d)) = Present(v)
  BY <1>18, <1>19, AlikeRegistry
<1> QED BY <1>9, <1>11, <1>19, <1>20 DEF Alike, SameTable

LEMMA ConsumeExpectedRegistry ==
  ASSUME NEW w, Registry(w), NEW d \in Descriptors, w.retired[d] # NoRange
  PROVE  LET v == ConsumeExpected(w, d)
         IN  /\ Registry(v)
             /\ Present(v) = Present(w) /\ v.exhausted = w.exhausted
             /\ Awaits(v, d) = Awaits(w, d) - 1
             /\ \A e \in Descriptors : e # d => Awaits(v, e) = Awaits(w, e)
<1> DEFINE v == ConsumeExpected(w, d)
           r == w.retired[d]
           n == IF r.first = r.last THEN NoRange ELSE [r EXCEPT !.first = r.first + 1]
           RT == [w.retired EXCEPT ![d] = n]
<1>1. w \in Workers /\ Linked(w) /\ Entered(w) /\ Indexed(w) /\ Scoped(w) /\ Ranged(w)
  BY DEF Registry
<1>2. w.retired \in [Descriptors -> Ranges] /\ r \in Ranges
  BY <1>1 DEF Workers
<1>3. /\ r.first \in Nat /\ r.last \in Nat /\ r.last <= LastLifetime /\ LastLifetime \in Nat
      /\ 1 <= r.first /\ r.first <= r.last
  BY <1>1, <1>2, LimitsAssumption DEF Ranges, Ranged
<1>4. v = [w EXCEPT !.retired = RT]
  BY DEF ConsumeExpected
<1> HIDE DEF r
<1>5. /\ r.first = r.last => n = NoRange
      /\ r.first # r.last => /\ n \in Ranges /\ n # NoRange
                             /\ n.first = r.first + 1 /\ n.last = r.last
  <2>1. CASE r.first = r.last
    BY <2>1
  <2>2. CASE r.first # r.last
    <3>1. n = [r EXCEPT !.first = r.first + 1]
      BY <2>2
    <3>2. r.first + 1 \in 0..LastLifetime
      BY <1>3, <2>2
    <3>3. n \in Ranges /\ n.first = r.first + 1 /\ n.last = r.last
      BY <1>2, <3>1, <3>2 DEF r, Ranges
    <3> QED BY <1>3, <2>2, <3>3 DEF NoRange
  <2> QED BY <2>1, <2>2
<1>6. NoRange \in Ranges
  BY LimitsAssumption DEF Ranges, NoRange
<1> HIDE DEF n
<1>7. /\ RT \in [Descriptors -> Ranges] /\ RT[d] = n
      /\ \A e \in Descriptors : e # d => RT[e] = w.retired[e]
  BY <1>2, <1>5, <1>6
<1> HIDE DEF v, RT
<1>8. /\ v \in Workers /\ v.watches = w.watches /\ v.watched = w.watched /\ v.index = w.index
      /\ v.retired = RT /\ v.exhausted = w.exhausted
      /\ v.budget = w.budget /\ v.disposing = w.disposing /\ v.jobs = w.jobs
      /\ v.recon = w.recon
  BY <1>1, <1>4, <1>7 DEF Workers
<1>9. Present(v) = Present(w) /\ Active(v) = Active(w)
  BY <1>8 DEF Present, Active
<1>10. Linked(v) /\ Indexed(v) /\ Scoped(v)
  BY <1>1, <1>8, <1>9 DEF Linked, Indexed, Scoped
<1>11. Ranged(v)
  <2>1. \A e \in Descriptors : e # d => v.retired[e] = w.retired[e]
    BY <1>7, <1>8
  <2>2. \/ v.retired[d] = NoRange
        \/ 1 <= v.retired[d].first /\ v.retired[d].first <= v.retired[d].last
    BY <1>3, <1>5, <1>7, <1>8
  <2> QED BY <1>1, <2>1, <2>2 DEF Ranged
<1>12. Entered(v)
  <2> SUFFICES ASSUME NEW e \in Present(w), v.retired[e] # NoRange
               PROVE  v.watches[e].lifetime = v.retired[e].last + 1
    BY <1>1, <1>8, <1>9 DEF Entered
  <2>1. e \in Descriptors
    BY DEF Present
  <2>2. w.retired[e] # NoRange => w.watches[e].lifetime = w.retired[e].last + 1
    BY <1>1 DEF Entered
  <2>3. CASE e = d
    <3>1. n.last = r.last
      BY <1>5, <1>7, <1>8, <2>3
    <3> QED BY <1>7, <1>8, <2>2, <2>3, <3>1 DEF r
  <2>4. CASE e # d
    BY <1>7, <1>8, <2>1, <2>2, <2>4
  <2> QED BY <2>3, <2>4
<1>13. Registry(v)
  BY <1>8, <1>9, <1>10, <1>11, <1>12 DEF Registry
<1>14. Awaits(v, d) = Awaits(w, d) - 1
  <2>1. Awaits(w, d) = r.last - r.first + 1
    BY DEF Awaits, r
  <2>2. v.retired[d] = n
    BY <1>7, <1>8
  <2>3. CASE r.first = r.last
    <3>1. Awaits(v, d) = 0
      BY <1>5, <2>2, <2>3 DEF Awaits
    <3> QED BY <1>3, <2>1, <2>3, <3>1
  <2>4. CASE r.first # r.last
    <3>1. Awaits(v, d) = n.last - n.first + 1
      BY <1>5, <2>2, <2>4 DEF Awaits
    <3> QED BY <1>3, <1>5, <2>1, <2>4, <3>1
  <2> QED BY <2>3, <2>4
<1>15. \A e \in Descriptors : e # d => Awaits(v, e) = Awaits(w, e)
  BY <1>7, <1>8 DEF Awaits
<1> QED BY <1>8, <1>9, <1>13, <1>14, <1>15 DEF v

LEMMA HandleDeleteSelfRegistry ==
  ASSUME NEW w, Registry(w), NEW d \in Descriptors
  PROVE  LET v == HandleDeleteSelf(w, d)
         IN  /\ Registry(v)
             /\ Present(v) = Present(w)
             /\ v.retired = w.retired /\ v.exhausted = w.exhausted
<1> DEFINE v == HandleDeleteSelf(w, d)
           told == w.watches[d].expects \/ \E x \in w.watches[d].interests : x[1] \in Active(w)
           new == [w.watches[d] EXCEPT !.expects = told]
           WT == [w.watches EXCEPT ![d] = new]
<1>1. w \in Workers /\ Linked(w) /\ Entered(w) /\ Indexed(w) /\ Scoped(w) /\ Ranged(w)
  BY DEF Registry
<1>2. w.watches \in [Descriptors -> Watches] /\ w.watches[d] \in Watches
  BY <1>1 DEF Workers
<1>3. v = [w EXCEPT !.watches = WT]
  BY DEF HandleDeleteSelf
<1>4. told \in BOOLEAN
  BY <1>2 DEF Watches
<1> HIDE DEF told
<1>5. /\ new \in Watches /\ new.interests = w.watches[d].interests
      /\ new.identity = w.watches[d].identity /\ new.lifetime = w.watches[d].lifetime
      /\ new.expects = told
  BY <1>2, <1>4 DEF Watches
<1>6. w.watches[d] = Absent => new = Absent
  <2>1. w.watches[d] = Absent => told = FALSE
    BY AbsentFields DEF told
  <2>2. \A a, b \in Watches :
          /\ a.lifetime = b.lifetime /\ a.identity = b.identity
          /\ a.interests = b.interests /\ a.expects = b.expects
          => a = b
    BY DEF Watches
  <2> HIDE DEF new
  <2>3. w.watches[d] = Absent => new.expects = Absent.expects
    BY <1>5, <2>1, AbsentFields
  <2> QED BY <1>5, <2>2, <2>3, AbsentFields
<1> HIDE DEF new
<1>7. /\ WT \in [Descriptors -> Watches] /\ WT[d] = new
      /\ \A e \in Descriptors : e # d => WT[e] = w.watches[e]
  BY <1>2, <1>5
<1> HIDE DEF v, WT
<1>8. /\ v \in Workers /\ v.watches = WT /\ v.watched = w.watched /\ v.index = w.index
      /\ v.retired = w.retired /\ v.exhausted = w.exhausted
      /\ v.budget = w.budget /\ v.disposing = w.disposing /\ v.jobs = w.jobs
      /\ v.recon = w.recon
  BY <1>1, <1>3, <1>7 DEF Workers
<1>9. \A e \in Descriptors :
        /\ v.watches[e].interests = w.watches[e].interests
        /\ v.watches[e].identity = w.watches[e].identity
        /\ v.watches[e].lifetime = w.watches[e].lifetime
  BY <1>5, <1>7, <1>8
<1>10. Present(v) = Present(w)
  <2>1. w.watches[d] # Absent => v.watches[d] # Absent
    <3>1. w.watches[d] # Absent => w.watches[d].identity \in Inodes
      BY <1>1 DEF Entered, Present
    <3>2. v.watches[d].identity = w.watches[d].identity
      BY <1>9
    <3> QED BY <3>1, <3>2, AbsentFields, KernelAssumption
  <2> QED BY <1>6, <1>7, <1>8, <2>1 DEF Present
<1>11. Active(v) = Active(w)
  BY <1>8 DEF Active
<1>12. Linked(v)
  BY <1>1, <1>8, <1>9, <1>11 DEF Linked
<1>13. Indexed(v)
  BY <1>1, <1>8, <1>9 DEF Indexed
<1>14. Entered(v)
  <2>1. \A e \in Present(w) : e \in Descriptors
    BY DEF Present
  <2> QED BY <1>1, <1>8, <1>9, <1>10, <2>1 DEF Entered
<1>15. Ranged(v) /\ Scoped(v)
  BY <1>1, <1>8, <1>11 DEF Ranged, Scoped
<1>16. Registry(v)
  BY <1>8, <1>10, <1>12, <1>13, <1>14, <1>15 DEF Registry
<1> QED BY <1>8, <1>10, <1>16 DEF v

----------------------------------------------------------------------------
(* The records.                                                            *)

\* The watch that ends and the record that says so: whichever it was, the
\* queue and the registry agree afterwards, and no live watch is taken out.
LEMMA IgnoredFollows ==
  ASSUME NEW w, Registry(w), NEW k, Follows(w, k, {}), k.queue # <<>>,
         NEW d \in Descriptors, Head(k.queue) = Record("ignored", d)
  PROVE  LET v == HandleIgnored(w, d)
         IN  /\ Registry(v)
             /\ Follows(v, [k EXCEPT !.queue = Tail(@)], {})
             /\ d \in Present(w) /\ d \notin Present(v) => k.watch[d] = None
<1> DEFINE v == HandleIgnored(w, d)
           t == [k EXCEPT !.queue = Tail(@)]
<1>1. k \in Kernels
  BY DEF Follows
<1>2. /\ t \in Kernels /\ t.watch = k.watch
      /\ \A e \in Descriptors : Ends(t.queue, e) =
           Ends(k.queue, e) - IF Head(k.queue) = Record("ignored", e) THEN 1 ELSE 0
  BY <1>1, TailKernel
<1> HIDE DEF t, v
<1>3. \A e \in Descriptors : Ends(k.queue, e) \in Nat /\ Ends(t.queue, e) \in Nat
  BY <1>1, <1>2, EndsNat DEF Kernels
<1>4. /\ Ends(t.queue, d) = Ends(k.queue, d) - 1
      /\ \A e \in Descriptors : e # d => Ends(t.queue, e) = Ends(k.queue, e)
  <2>1. \A e \in Descriptors : Head(k.queue) = Record("ignored", e) <=> e = d
    BY DEF Record
  <2> QED BY <1>2, <1>3, <2>1
<1>5. \A e \in Descriptors :
        /\ k.watch[e] # None => e \in Present(w)
        /\ e \in w.exhausted => k.watch[e] = None
        /\ e \notin w.exhausted =>
             /\ Ends(k.queue, e) <= Awaits(w, e) + Gone(w, k, {}, e)
             /\ ~Lossy => Ends(k.queue, e) = Awaits(w, e) + Gone(w, k, {}, e)
  BY DEF Follows
<1>6. \A e \in Descriptors : Awaits(w, e) \in Nat /\ Gone(w, k, {}, e) \in {0, 1}
  BY AwaitsNat
<1>7. CASE w.retired[d] # NoRange
  <2>1. v = ConsumeExpected(w, d)
    BY <1>7 DEF HandleIgnored, v
  <2>2. /\ Registry(v)
        /\ Present(v) = Present(w) /\ v.exhausted = w.exhausted
        /\ Awaits(v, d) = Awaits(w, d) - 1
        /\ \A e \in Descriptors : e # d => Awaits(v, e) = Awaits(w, e)
    BY <1>7, <2>1, ConsumeExpectedRegistry
  <2>3. \A e \in Descriptors : Gone(v, t, {}, e) = Gone(w, k, {}, e)
    BY <1>2, <2>2 DEF Gone
  <2>4. ASSUME NEW e \in Descriptors, e \notin v.exhausted
        PROVE  /\ Ends(t.queue, e) <= Awaits(v, e) + Gone(v, t, {}, e)
               /\ ~Lossy => Ends(t.queue, e) = Awaits(v, e) + Gone(v, t, {}, e)
    <3>1. CASE e = d
      BY <1>3, <1>4, <1>5, <1>6, <2>2, <2>3, <2>4, <3>1
    <3>2. CASE e # d
      BY <1>3, <1>4, <1>5, <1>6, <2>2, <2>3, <2>4, <3>2
    <3> QED BY <3>1, <3>2
  <2>5. Follows(v, t, {})
    BY <1>2, <1>5, <2>2, <2>4 DEF Follows
  <2> QED BY <2>2, <2>5 DEF t, v
<1>8. CASE w.retired[d] = NoRange /\ d \in Present(w)
  <2>1. v = Lost(w, d)
    BY <1>8 DEF HandleIgnored, v
  <2>2. /\ Registry(v)
        /\ Present(v) = Present(w) \ {d}
        /\ v.retired = w.retired /\ v.exhausted = w.exhausted
    BY <1>8, <2>1, LostRegistry
  <2>3. \A e \in Descriptors : Awaits(v, e) = Awaits(w, e)
    BY <2>2 DEF Awaits
  <2>4. Awaits(w, d) = 0
    BY <1>8 DEF Awaits
  <2>5. k.watch[d] = None
    BY <1>3, <1>4, <1>5, <1>6, <2>4 DEF Gone
  <2>6. Gone(w, k, {}, d) = 1 /\ Gone(v, t, {}, d) = 0
    BY <1>8, <2>2, <2>5 DEF Gone
  <2>7. \A e \in Descriptors : e # d => Gone(v, t, {}, e) = Gone(w, k, {}, e)
    BY <1>2, <2>2 DEF Gone
  <2>8. ASSUME NEW e \in Descriptors, e \notin v.exhausted
        PROVE  /\ Ends(t.queue, e) <= Awaits(v, e) + Gone(v, t, {}, e)
               /\ ~Lossy => Ends(t.queue, e) = Awaits(v, e) + Gone(v, t, {}, e)
    <3>1. CASE e = d
      BY <1>3, <1>4, <1>5, <2>2, <2>3, <2>4, <2>6, <2>8, <3>1
    <3>2. CASE e # d
      BY <1>4, <1>5, <2>2, <2>3, <2>7, <2>8, <3>2
    <3> QED BY <3>1, <3>2
  <2>9. \A e \in Descriptors : t.watch[e] # None => e \in Present(v)
    BY <1>2, <1>5, <2>2, <2>5
  <2>10. Follows(v, t, {})
    BY <1>2, <1>5, <2>2, <2>8, <2>9 DEF Follows
  <2> QED BY <2>2, <2>5, <2>10 DEF t, v
<1>9. CASE w.retired[d] = NoRange /\ d \notin Present(w)
  <2>1. v = w
    BY <1>9 DEF HandleIgnored, v
  <2>2. d \in w.exhausted
    BY <1>3, <1>4, <1>5, <1>9 DEF Awaits, Gone
  <2>3. \A e \in Descriptors : Gone(v, t, {}, e) = Gone(w, k, {}, e)
    BY <1>2, <2>1 DEF Gone
  <2>4. Follows(v, t, {})
    <3>1. \A e \in Descriptors : e \notin w.exhausted => Ends(t.queue, e) = Ends(k.queue, e)
      BY <1>4, <2>2
    <3> QED BY <1>2, <1>5, <2>1, <2>3, <3>1 DEF Follows
  <2> QED BY <1>9, <2>1, <2>4 DEF t, v
<1> QED BY <1>7, <1>8, <1>9

\* A removal followed by its inotify_rm_watch calls.
LEMMA RemovalKeeps ==
  ASSUME NEW w, Registry(w), NEW gone \in SUBSET Interests, NEW k, Follows(w, k, {}),
         NEW v, Alike(RemoveInterests(w, gone), v)
  PROVE  /\ Registry(v)
         /\ Follows(v, RmWatches(k, Released(w, v)), {})
         /\ Len(RmWatches(k, Released(w, v)).queue) >= Len(k.queue)
         /\ Active(v) = Active(w)
         /\ \A x \in Interests : v.watched[x] = IF x \in gone THEN None ELSE w.watched[x]
<1> DEFINE u == RemoveInterests(w, gone)
           last == Emptied(w, gone)
<1>1. Registry(u) /\ Follows(u, RmWatches(k, last), {}) /\ Released(w, u) = last
  BY RemoveInterestsRegistry, RemoveInterestsFollows, RemoveInterestsPresent
<1>2. /\ last \subseteq Present(w)
      /\ \A x \in Interests : u.watched[x] = IF x \in gone THEN None ELSE w.watched[x]
      /\ u.disposing = w.disposing
  BY RemoveInterestsFields
<1> HIDE DEF u, last
<1>3. /\ Registry(v) /\ Present(v) = Present(u) /\ Active(v) = Active(u)
      /\ Follows(v, RmWatches(k, last), {})
  BY <1>1, AlikeRegistry DEF u
<1>4. Released(w, v) = last
  BY <1>1, <1>3 DEF Released
<1>5. last \in SUBSET Descriptors /\ k \in Kernels
  BY <1>2 DEF Present, Follows
<1>6. Len(RmWatches(k, last).queue) >= Len(k.queue)
  BY <1>5, RmWatchesQueues DEF Queued
<1>7. v.watched = u.watched
  BY DEF Alike, SameTable, u
<1>8. Active(u) = Active(w)
  BY <1>2 DEF Active
<1> QED BY <1>2, <1>3, <1>4, <1>6, <1>7, <1>8

LEMMA NothingReleased ==
  ASSUME NEW w, NEW v, Present(v) = Present(w), NEW k, Follows(w, k, {})
  PROVE  Released(w, v) = {}
BY DEF Released

LEMMA HandleRecordTable ==
  ASSUME TableInv, HandleRecord
  PROVE  /\ TableInv'
         /\ \A d \in Descriptors :
              /\ Head(kernel.queue) = Record("ignored", d)
              /\ d \in Present(worker) /\ d \notin Present(worker')
              => kernel.watch[d] = None
<1> DEFINE w == worker
           k == kernel
           r == Head(kernel.queue)
           t == [kernel EXCEPT !.queue = Tail(@)]
<1>1. /\ opening = NotOpening /\ k.queue # <<>> /\ fs' = fs /\ opening' = opening
      /\ worker' = Handled(w, r)
      /\ kernel' = IF r.kind # "removed" THEN t ELSE RmWatches(t, Released(w, Handled(w, r)))
  BY DEF HandleRecord
<1>2. Adding(opening) = {} /\ Opens(worker', opening') /\ Adding(opening') = {}
  BY <1>1, Closed
<1>3. Registry(w) /\ Follows(w, k, {}) /\ fs \in [Paths -> Inodes \union {None}] /\ w \in Workers
  BY <1>2 DEF TableInv, Registry
<1>4. k \in Kernels
  BY <1>3 DEF Follows
<1>5. r \in Records
  BY <1>1, <1>4, TailKernel
<1>6. SUFFICES /\ Registry(worker') /\ Follows(worker', kernel', {})
               /\ \A d \in Descriptors :
                    /\ r = Record("ignored", d)
                    /\ d \in Present(w) /\ d \notin Present(worker')
                    => k.watch[d] = None
  BY <1>1, <1>2, <1>3 DEF TableInv
<1> HIDE DEF w, k, t, r
<1>7. r.kind # "ignored" => /\ Follows(w, t, {})
                            /\ \A d : r # Record("ignored", d)
  BY <1>1, <1>3, TailFollows DEF t, r, k, Record
<1>8. CASE r \in [kind : {"created"}, of : Paths]
  <2>1. worker' = HandleCreated(w, r.of) /\ kernel' = t
    BY <1>1, <1>8 DEF Handled
  <2>2. Active(w) \X {r.of} \in SUBSET Interests /\ \A x \in Active(w) \X {r.of} : x[1] \in Active(w)
    BY <1>8 DEF Active, Interests
  <2>3. /\ worker' \in Workers /\ SameTable(w, worker') /\ worker'.disposing = w.disposing
        /\ worker'.jobs = w.jobs \union (Active(w) \X {r.of}) /\ worker'.recon = w.recon
    BY <1>3, <2>1, <2>2 DEF HandleCreated, Workers, SameTable
  <2>4. Scoped(worker')
    BY <1>3, <2>2, <2>3 DEF Registry, Scoped, Active
  <2>5. Registry(worker')
    BY <1>3, <2>3, <2>4, SameTableRegistry
  <2>6. Follows(worker', t, {})
    BY <1>7, <1>8, <2>3, SameTableFollows
  <2> QED BY <1>7, <1>8, <2>1, <2>5, <2>6
<1>9. CASE r \in [kind : {"removed"}, of : Paths]
  <2> DEFINE xs == Active(w) \X {r.of}
  <2>1. worker' = HandleRemoved(w, r.of) /\ kernel' = RmWatches(t, Released(w, worker'))
    BY <1>1, <1>9 DEF Handled
  <2>2. Watched(w, xs) \in SUBSET Interests
    BY <1>9 DEF Active, Interests, Watched
  <2>3. worker' = Forgotten(RemoveInterests(w, Watched(w, xs)), xs)
    BY <2>1 DEF HandleRemoved
  <2> HIDE DEF xs
  <2>4. Registry(RemoveInterests(w, Watched(w, xs)))
    BY <1>3, <2>2, RemoveInterestsRegistry
  <2>5. Alike(RemoveInterests(w, Watched(w, xs)), worker')
    BY <2>3, <2>4, ForgottenAlike
  <2>6. Follows(w, t, {})
    BY <1>7, <1>9
  <2>7. Registry(worker') /\ Follows(worker', kernel', {})
    BY <1>3, <2>1, <2>2, <2>5, <2>6, RemovalKeeps
  <2> QED BY <1>7, <1>9, <2>7
<1>10. CASE r \in [kind : {"deleteself"}, of : Descriptors]
  <2>1. worker' = HandleDeleteSelf(w, r.of) /\ kernel' = t
    BY <1>1, <1>10 DEF Handled
  <2>2. /\ Registry(worker') /\ Present(worker') = Present(w)
        /\ worker'.retired = w.retired /\ worker'.exhausted = w.exhausted
    BY <1>3, <1>10, <2>1, HandleDeleteSelfRegistry
  <2>3. Follows(worker', t, {})
    BY <1>7, <1>10, <2>2, FollowsSame
  <2> QED BY <1>7, <1>10, <2>1, <2>2, <2>3
<1>11. CASE r \in [kind : {"ignored"}, of : Descriptors]
  <2>1. worker' = HandleIgnored(w, r.of) /\ kernel' = t
    BY <1>1, <1>11 DEF Handled
  <2>2. r = Record("ignored", r.of)
    BY <1>11 DEF Record
  <2>3. /\ Registry(worker') /\ Follows(worker', t, {})
        /\ r.of \in Present(w) /\ r.of \notin Present(worker') => k.watch[r.of] = None
    <3>1. r.of \in Descriptors /\ Head(k.queue) = Record("ignored", r.of)
      BY <1>11, <2>2 DEF r, k
    <3> HIDE DEF r
    <3>2. t = [k EXCEPT !.queue = Tail(@)]
      BY DEF t, k
    <3> DEFINE d == r.of
    <3>3. d \in Descriptors /\ Head(k.queue) = Record("ignored", d)
      BY <3>1
    <3> HIDE DEF d
    <3>4. /\ Registry(HandleIgnored(w, d)) /\ Follows(HandleIgnored(w, d), t, {})
          /\ d \in Present(w) /\ d \notin Present(HandleIgnored(w, d)) => k.watch[d] = None
      BY <1>1, <1>3, <3>2, <3>3, IgnoredFollows
    <3> QED BY <2>1, <3>4 DEF d
  <2>4. \A d : r = Record("ignored", d) => d = r.of
    BY DEF Record
  <2> QED BY <2>1, <2>3, <2>4
<1>12. CASE r = Overflow
  <2>1. worker' = MarkUncertain(w, Active(w)) /\ kernel' = t
    BY <1>1, <1>12 DEF Handled, Overflow, Record
  <2>2. Active(w) \in SUBSET Subs
    BY DEF Active
  <2>3. Alike(w, worker')
    BY <1>3, <2>1, <2>2, MarkUncertainAlike
  <2>4. r.kind # "ignored"
    BY <1>12 DEF Overflow, Record
  <2>5. Registry(worker') /\ Follows(worker', t, {})
    BY <1>3, <1>7, <2>3, <2>4, AlikeRegistry
  <2> QED BY <1>7, <2>1, <2>4, <2>5
<1> QED
  <2>1. \/ r \in [kind : {"created"}, of : Paths]
        \/ r \in [kind : {"removed"}, of : Paths]
        \/ r \in [kind : {"deleteself"}, of : Descriptors]
        \/ r \in [kind : {"ignored"}, of : Descriptors]
        \/ r = Overflow
    BY <1>5 DEF Records
  <2> QED BY <1>8, <1>9, <1>10, <1>11, <1>12, <2>1

----------------------------------------------------------------------------
(* The steps of an open.                                                   *)

LEMMA InterestParts ==
  ASSUME NEW x \in Interests
  PROVE  x[1] \in Subs /\ x[2] \in Paths
BY DEF Interests

LEMMA OpenPathTable ==
  ASSUME NEW w, Registry(w), Follows(w, kernel, {}), fs \in [Paths -> Inodes \union {None}],
         NEW x \in Interests, x[1] \in Active(w), OpenPath(w, x)
  PROVE  TableInv' /\ Len(kernel'.queue) >= Len(kernel.queue)
<1> DEFINE gone == Stale(w, x)
           v == RemoveInterests(w, gone)
<1>1. gone \in SUBSET Interests
  BY DEF Stale, Watched
<1>2. /\ kernel' = RmWatches(kernel, Released(w, v)) /\ fs' = fs
      /\ CASE v.watched[x] # None ->
                /\ worker' = v
                /\ opening' = Opening("reading", x, fs[x[2]], v.watched[x])
           [] v.watched[x] = None /\ fs[x[2]] = None ->
                /\ worker' = Forgotten(v, {x})
                /\ opening' = NotOpening
           [] OTHER ->
                /\ worker' = v
                /\ opening' = Opening("identified", x, fs[x[2]], None)
  BY DEF OpenPath
<1> HIDE DEF gone
<1>3. Registry(v) /\ v \in Workers
  BY <1>1, RemoveInterestsRegistry DEF Registry
<1> HIDE DEF v
<1>4. Alike(v, v)
  BY <1>3 DEF Alike, SameTable
<1>5. /\ Follows(v, kernel', {}) /\ Active(v) = Active(w)
      /\ Len(kernel'.queue) >= Len(kernel.queue)
  BY <1>1, <1>2, <1>4, RemovalKeeps DEF v
<1>6. CASE v.watched[x] # None
  <2>1. worker' = v /\ opening' = Opening("reading", x, fs[x[2]], v.watched[x])
    BY <1>2, <1>6
  <2>2. Opens(v, opening') /\ Adding(opening') = {}
    BY <1>5, <2>1, Closed DEF Opens, Opening
  <2> QED BY <1>2, <1>3, <1>5, <2>1, <2>2 DEF TableInv
<1>7. CASE v.watched[x] = None /\ fs[x[2]] = None
  <2>1. worker' = Forgotten(v, {x}) /\ opening' = NotOpening
    BY <1>2, <1>7
  <2>2. Alike(v, worker')
    BY <1>3, <2>1, ForgottenAlike
  <2>3. Registry(worker') /\ Follows(worker', kernel', {})
    BY <1>3, <1>5, <2>2, AlikeRegistry
  <2> QED BY <1>2, <1>5, <2>1, <2>3, Closed DEF TableInv
<1>8. CASE v.watched[x] = None /\ fs[x[2]] # None
  <2>1. worker' = v /\ opening' = Opening("identified", x, fs[x[2]], None)
    BY <1>2, <1>8
  <2>2. fs[x[2]] \in Inodes
    BY <1>8, InterestParts
  <2>3. Opens(v, opening') /\ Adding(opening') = {}
    BY <1>5, <1>8, <2>1, <2>2, Closed DEF Opens, Opening
  <2> QED BY <1>2, <1>3, <1>5, <2>1, <2>3 DEF TableInv
<1> QED BY <1>6, <1>7, <1>8

\* Nothing is open: the kernel follows the registry alone.
LEMMA Idle ==
  ASSUME TableInv, opening.stage # "added"
  PROVE  /\ Registry(worker) /\ worker \in Workers /\ Follows(worker, kernel, {})
         /\ Opens(worker, opening) /\ fs \in [Paths -> Inodes \union {None}]
BY DEF TableInv, Adding, Registry

LEMMA OpenTable ==
  ASSUME TableInv, NEW x \in Interests, Open(x)
  PROVE  TableInv' /\ Len(kernel'.queue) >= Len(kernel.queue)
<1> DEFINE jb == worker.jobs \ {x}
           fd == IF x[1] \in worker.recon THEN worker.found \union {x} ELSE worker.found
           w == [worker EXCEPT !.jobs = jb, !.found = fd]
<1>1. opening = NotOpening /\ x \in worker.jobs /\ OpenPath(w, x)
  BY DEF Open
<1>2. /\ Registry(worker) /\ worker \in Workers /\ Follows(worker, kernel, {})
      /\ fs \in [Paths -> Inodes \union {None}]
  BY <1>1, Idle DEF NotOpening
<1>3. jb \in SUBSET Interests /\ fd \in SUBSET Interests /\ jb \subseteq worker.jobs
  BY <1>2 DEF Workers
<1> HIDE DEF jb, fd
<1>4. /\ w \in Workers /\ SameTable(worker, w) /\ w.disposing = worker.disposing
      /\ w.jobs \subseteq worker.jobs /\ w.recon = worker.recon
  BY <1>2, <1>3 DEF Workers, SameTable
<1> HIDE DEF w
<1>5. Active(w) = Active(worker) /\ Scoped(w)
  BY <1>2, <1>4 DEF Active, Scoped, Registry
<1>6. Registry(w) /\ Follows(w, kernel, {})
  BY <1>2, <1>4, <1>5, SameTableRegistry, SameTableFollows
<1>7. x[1] \in Active(w)
  BY <1>1, <1>2, <1>5 DEF Registry, Scoped
<1> QED BY <1>1, <1>2, <1>6, <1>7, OpenPathTable

LEMMA PromoteTable ==
  ASSUME TableInv, NEW x \in Interests, Promote(x)
  PROVE  TableInv' /\ Len(kernel'.queue) >= Len(kernel.queue)
<1>1. opening = NotOpening /\ x[1] \in Active(worker) /\ OpenPath(worker, x)
  BY DEF Promote
<1>2. opening.stage # "added"
  BY <1>1 DEF NotOpening
<1> QED BY <1>1, <1>2, Idle, OpenPathTable

\* An open that ends, and leaves the watches as they were.
LEMMA OpenEnds ==
  ASSUME TableInv, opening.stage # "added", Alike(worker, worker'),
         opening' = NotOpening, kernel' = kernel, fs' = fs
  PROVE  TableInv' /\ Len(kernel'.queue) >= Len(kernel.queue)
<1>1. Registry(worker) /\ Follows(worker, kernel, {}) /\ fs \in [Paths -> Inodes \union {None}]
  BY Idle
<1>2. Registry(worker') /\ Follows(worker', kernel, {})
  BY <1>1, AlikeRegistry
<1>3. Len(kernel.queue) \in Nat
  BY <1>1, LenProperties DEF Follows, Kernels
<1> QED BY <1>1, <1>2, <1>3, Closed DEF TableInv

LEMMA ShareTable ==
  ASSUME TableInv, Share
  PROVE  TableInv' /\ Len(kernel'.queue) >= Len(kernel.queue)
<1> DEFINE x == opening.of
           i == opening.identity
           d == worker.index[i]
           u == MarkReused(worker, x[1], d)
           v == InsertInterest(u, x, d)
<1>1. /\ opening.stage = "identified" /\ d # None
      /\ IF fs[x[2]] # i
         THEN worker' = Failed(worker, x) /\ opening' = NotOpening
         ELSE worker' = v /\ opening' = Opening("reading", x, i, d)
      /\ kernel' = kernel /\ fs' = fs
  BY DEF Share
<1>2. /\ Registry(worker) /\ worker \in Workers /\ Follows(worker, kernel, {})
      /\ Opens(worker, opening) /\ fs \in [Paths -> Inodes \union {None}]
  BY <1>1, Idle
<1>3. x \in Interests /\ x[1] \in Active(worker) /\ i \in Inodes /\ worker.watched[x] = None
  BY <1>1, <1>2 DEF Opens
<1>4. d \in Descriptors /\ worker.watches[d].identity = i
  BY <1>1, <1>2, <1>3 DEF Registry, Indexed, Workers
<1>5. d \in Present(worker)
  BY <1>2, <1>3, <1>4, NotPresent, KernelAssumption
<1> HIDE DEF x, i, d, u, v
<1>6. CASE fs[x[2]] # i
  <2>1. Alike(worker, worker')
    BY <1>1, <1>2, <1>3, <1>6, FailedAlike
  <2> QED BY <1>1, <1>6, <2>1, OpenEnds
<1>7. CASE fs[x[2]] = i
  <2>1. Alike(worker, u)
    BY <1>2, <1>3, InterestParts, MarkReusedAlike DEF u
  <2>2. /\ Registry(u) /\ Present(u) = Present(worker) /\ Follows(u, kernel, {})
        /\ u.watched[x] = None /\ u.disposing = worker.disposing
    BY <1>2, <1>3, <2>1, AlikeRegistry DEF Alike, SameTable
  <2>3. /\ Registry(v) /\ Present(v) = Present(u)
        /\ v.retired = u.retired /\ v.exhausted = u.exhausted /\ v.disposing = u.disposing
    BY <1>3, <1>5, <2>2, InsertInterestRegistry DEF v
  <2>4. Follows(v, kernel, {})
    BY <2>2, <2>3, FollowsSame
  <2>5. worker' = v /\ opening' = Opening("reading", x, i, d)
    BY <1>1, <1>7
  <2>6. Opens(v, opening') /\ Adding(opening') = {}
    BY <1>3, <2>2, <2>3, <2>5, Closed DEF Opens, Opening, Active
  <2>7. Len(kernel.queue) \in Nat
    BY <1>2, LenProperties DEF Follows, Kernels
  <2>8. /\ Registry(worker') /\ Opens(worker', opening')
        /\ Follows(worker', kernel', Adding(opening'))
    BY <1>1, <2>3, <2>4, <2>5, <2>6
  <2>9. fs' \in [Paths -> Inodes \union {None}] /\ Len(kernel'.queue) >= Len(kernel.queue)
    BY <1>1, <1>2, <2>7
  <2> QED BY <2>8, <2>9 DEF TableInv
<1> QED BY <1>6, <1>7

LEMMA DeferTable ==
  ASSUME TableInv, Defer
  PROVE  TableInv' /\ Len(kernel'.queue) >= Len(kernel.queue)
<1> DEFINE f == [worker.deferred EXCEPT ![opening.of] = "budget"]
<1>1. /\ opening.stage = "identified" /\ opening' = NotOpening /\ kernel' = kernel /\ fs' = fs
      /\ worker' = [worker EXCEPT !.deferred = f]
  BY DEF Defer
<1>2. Registry(worker)
  BY DEF TableInv
<1>3. f \in [Interests -> {"no", "budget", "error"}]
  BY <1>2 DEF Registry, Workers
<1> HIDE DEF f
<1>4. Alike(worker, worker')
  BY <1>1, <1>2, <1>3, DeferralAlike
<1> QED BY <1>1, <1>4, OpenEnds

LEMMA AddWatchFailsTable ==
  ASSUME TableInv, AddWatchFails
  PROVE  TableInv' /\ Len(kernel'.queue) >= Len(kernel.queue)
<1>1. /\ opening.stage = "identified" /\ opening' = NotOpening /\ kernel' = kernel /\ fs' = fs
      /\ worker' = Forgotten(worker, {opening.of})
  BY DEF AddWatchFails
<1>2. Alike(worker, worker')
  BY <1>1, ForgottenAlike DEF TableInv
<1> QED BY <1>1, <1>2, OpenEnds

LEMMA QuarantinedRegistry ==
  ASSUME NEW w, Registry(w), NEW d \in Descriptors
  PROVE  LET v == [w EXCEPT !.exhausted = @ \union {d}]
         IN  /\ Registry(v) /\ Present(v) = Present(w)
             /\ v.retired = w.retired /\ v.exhausted = w.exhausted \union {d}
<1> DEFINE ex == w.exhausted \union {d}
           v == [w EXCEPT !.exhausted = ex]
<1>1. w \in Workers /\ ex \in SUBSET Descriptors
  BY DEF Registry, Workers
<1> HIDE DEF ex
<1>2. /\ v \in Workers /\ v.watches = w.watches /\ v.watched = w.watched /\ v.index = w.index
      /\ v.retired = w.retired /\ v.exhausted = ex
      /\ v.budget = w.budget /\ v.disposing = w.disposing /\ v.jobs = w.jobs
      /\ v.recon = w.recon
  BY <1>1 DEF Workers
<1> HIDE DEF v
<1>3. Present(v) = Present(w) /\ Active(v) = Active(w)
  BY <1>2 DEF Present, Active
<1>4. Registry(v)
  BY <1>2, <1>3 DEF Registry, Ranged, Linked, Entered, Indexed, Scoped
<1> QED BY <1>2, <1>3, <1>4 DEF v, ex

LEMMA AddWatchTable ==
  ASSUME TableInv, NEW d \in Descriptors, AddWatch(d)
  PROVE  TableInv' /\ Len(kernel'.queue) >= Len(kernel.queue)
<1> DEFINE x == opening.of
           i == opening.identity
           f == fs[x[2]]
           k == kernel
           added == [kernel EXCEPT !.watch[d] = f]
           t == RmWatches(added, {d})
           u == Failed(worker, x)
           v == [u EXCEPT !.exhausted = @ \union {d}]
<1>1. /\ opening.stage = "identified" /\ worker.index[i] = None /\ ~RuntimeFull(worker)
      /\ f # None /\ d \in Returned(k, f)
      /\ fs' = fs
      /\ IF Rejected(worker, d)
         THEN kernel' = t /\ worker' = v /\ opening' = NotOpening
         ELSE kernel' = added /\ opening' = Opening("added", x, i, d) /\ worker' = worker
  BY DEF AddWatch
<1>2. /\ Registry(worker) /\ worker \in Workers /\ Follows(worker, k, {})
      /\ Opens(worker, opening) /\ fs \in [Paths -> Inodes \union {None}] /\ k \in Kernels
  BY <1>1, Idle DEF Follows
<1>3. x \in Interests /\ x[1] \in Active(worker) /\ i \in Inodes /\ worker.watched[x] = None
  BY <1>1, <1>2 DEF Opens
<1>4. f \in Inodes
  BY <1>1, <1>2, <1>3, InterestParts
<1> HIDE DEF f, x, i
<1>5. /\ added \in Kernels /\ added.queue = k.queue
      /\ added.watch[d] = f
      /\ \A e \in Descriptors : e # d => added.watch[e] = k.watch[e]
  BY <1>2, <1>4 DEF Kernels
<1> HIDE DEF added
<1>6. /\ Queued(added, t, {e \in {d} : added.watch[e] # None})
      /\ t.watch = [e \in Descriptors |-> IF e \in {d} THEN None ELSE added.watch[e]]
  BY <1>5, RmWatchesQueues
<1>7. \A e \in Descriptors :
        /\ k.watch[e] # None => e \in Present(worker)
        /\ e \in worker.exhausted => k.watch[e] = None
        /\ e \notin worker.exhausted =>
             /\ Ends(k.queue, e) <= Awaits(worker, e) + Gone(worker, k, {}, e)
             /\ ~Lossy => Ends(k.queue, e) = Awaits(worker, e) + Gone(worker, k, {}, e)
  BY <1>2 DEF Follows
<1>8. \A e \in Descriptors : Ends(k.queue, e) \in Nat
  BY <1>2, EndsNat DEF Kernels
<1>9. Len(k.queue) \in Nat
  BY <1>2, LenProperties DEF Kernels
<1> HIDE DEF t
<1>10. CASE Rejected(worker, d)
  <2>1. kernel' = t /\ worker' = v /\ opening' = NotOpening
    BY <1>1, <1>10
  <2>2. Alike(worker, u)
    BY <1>2, <1>3, FailedAlike
  <2>3. /\ Registry(u) /\ Present(u) = Present(worker)
        /\ u.retired = worker.retired /\ u.exhausted = worker.exhausted
    BY <1>2, <2>2, AlikeRegistry DEF Alike, SameTable
  <2> HIDE DEF u
  <2>4. /\ Registry(v) /\ Present(v) = Present(worker)
        /\ v.retired = worker.retired /\ v.exhausted = worker.exhausted \union {d}
    BY <2>3, QuarantinedRegistry
  <2> HIDE DEF v
  <2>5. \A e \in Descriptors : t.watch[e] = IF e = d THEN None ELSE k.watch[e]
    BY <1>5, <1>6
  <2>6. ASSUME NEW e \in Descriptors, e # d
        PROVE  /\ Ends(t.queue, e) <= Ends(k.queue, e)
               /\ ~Lossy => Ends(t.queue, e) = Ends(k.queue, e)
    <3>1. e \notin {y \in {d} : added.watch[y] # None}
      BY <2>6
    <3>2. /\ Ends(t.queue, e) <= Ends(k.queue, e) + 0
          /\ ~Lossy => Ends(t.queue, e) = Ends(k.queue, e) + 0
      BY <1>5, <1>6, <3>1 DEF Queued
    <3> QED BY <1>8, <3>2
  <2>7. t \in Kernels /\ Len(t.queue) >= Len(k.queue)
    BY <1>5, <1>6 DEF Queued
  <2>8. \A e \in Descriptors : Ends(t.queue, e) \in Nat
    BY <2>7, EndsNat DEF Kernels
  <2>9. Follows(v, t, {})
    <3> SUFFICES ASSUME NEW e \in Descriptors
                 PROVE  /\ t.watch[e] # None => e \in Present(v)
                        /\ e \in v.exhausted => t.watch[e] = None
                        /\ e \notin v.exhausted =>
                             /\ Ends(t.queue, e) <= Awaits(v, e) + Gone(v, t, {}, e)
                             /\ ~Lossy => Ends(t.queue, e) = Awaits(v, e) + Gone(v, t, {}, e)
      BY <2>7 DEF Follows
    <3>1. e # d => Gone(v, t, {}, e) = Gone(worker, k, {}, e)
      BY <2>4, <2>5 DEF Gone
    <3>2. Awaits(v, e) = Awaits(worker, e)
      BY <2>4 DEF Awaits
    <3>3. Awaits(worker, e) \in Nat /\ Gone(worker, k, {}, e) \in {0, 1}
      BY <1>2, AwaitsNat
    <3> QED BY <1>7, <1>8, <2>4, <2>5, <2>6, <2>8, <3>1, <3>2, <3>3
  <2> QED BY <1>1, <1>2, <2>1, <2>4, <2>7, <2>9, Closed DEF TableInv
<1>11. CASE ~Rejected(worker, d)
  <2>1. kernel' = added /\ opening' = Opening("added", x, i, d) /\ worker' = worker
    BY <1>1, <1>11
  <2>2. worker.watches[d].identity \in {None, i}
    BY <1>11 DEF Rejected, Collides, i
  <2>3. d \notin Present(worker)
    BY <1>1, <1>2, <1>3, <2>2, KernelAssumption DEF Registry, Entered, Indexed
  <2>4. d \notin worker.exhausted /\ NextLifetime(worker, d) <= LastLifetime
    <3>1. ~Unclaimable(worker, d)
      BY <1>11, <2>3 DEF Rejected
    <3>2. NextLifetime(worker, d) \in Nat /\ LastLifetime \in Nat
      BY <1>2, <2>3, NextOfAbsent, LimitsAssumption
    <3> QED BY <3>1, <3>2 DEF Unclaimable
  <2>5. k.watch[d] = None
    BY <1>7, <2>3
  <2>6. Cardinality(Present(worker)) < worker.budget
    <3>1. worker.budget \in Nat
      BY <1>2, LimitsAssumption DEF Workers
    <3> QED BY <1>1, <3>1, PresentFinite DEF RuntimeFull
  <2>7. Opens(worker, opening') /\ Adding(opening') = {d}
    BY <1>1, <1>3, <2>1, <2>3, <2>4, <2>6, Closed DEF Opens, Opening
  <2>8. Follows(worker, added, {d})
    <3> SUFFICES ASSUME NEW e \in Descriptors
                 PROVE  /\ added.watch[e] # None => e \in Present(worker) \union {d}
                        /\ e \in worker.exhausted => added.watch[e] = None
                        /\ e \notin worker.exhausted =>
                             /\ Ends(added.queue, e) <= Awaits(worker, e) + Gone(worker, added, {d}, e)
                             /\ ~Lossy =>
                                  Ends(added.queue, e) = Awaits(worker, e) + Gone(worker, added, {d}, e)
      BY <1>5 DEF Follows
    <3>1. CASE e = d
      <4>1. Gone(worker, added, {d}, e) = 0 /\ Gone(worker, k, {}, e) = 0
        BY <1>4, <1>5, <2>3, <3>1, KernelAssumption DEF Gone
      <4> QED BY <1>5, <1>7, <2>4, <3>1, <4>1
    <3>2. CASE e # d
      <4>1. Gone(worker, added, {d}, e) = Gone(worker, k, {}, e)
        BY <1>5, <3>2 DEF Gone
      <4> QED BY <1>5, <1>7, <3>2, <4>1
    <3> QED BY <3>1, <3>2
  <2>9. /\ Registry(worker') /\ Opens(worker', opening')
        /\ Follows(worker', kernel', Adding(opening'))
    BY <1>2, <2>1, <2>7, <2>8
  <2>10. fs' \in [Paths -> Inodes \union {None}] /\ Len(kernel'.queue) >= Len(kernel.queue)
    BY <1>1, <1>2, <1>5, <1>9, <2>1
  <2> QED BY <2>9, <2>10 DEF TableInv
<1> QED BY <1>10, <1>11

\* A watch that went in on a directory that had moved: its lifetime is retired,
\* and its ignored record announced, before it was ever in the registry.
LEMMA ExpectIgnoredAdded ==
  ASSUME NEW w, Registry(w), NEW d \in Descriptors, d \notin Present(w),
         NextLifetime(w, d) <= LastLifetime, NEW k, Follows(w, k, {d})
  PROVE  LET v == ExpectIgnored(w, {d}, [e \in Descriptors |-> NextLifetime(w, e)])
         IN  /\ Registry(v) /\ v.disposing = w.disposing
             /\ Follows(v, RmWatches(k, {d}), {})
<1> DEFINE life == [e \in Descriptors |-> NextLifetime(w, e)]
           l == NextLifetime(w, d)
           r == w.retired[d]
           n == Retired(r, l)
           RT == [e \in Descriptors |->
                    IF e \in {d} THEN Retired(w.retired[e], life[e]) ELSE w.retired[e]]
           EX == w.exhausted \union {e \in {d} : Gap(w.retired[e], life[e])}
           v == ExpectIgnored(w, {d}, life)
           t == RmWatches(k, {d})
<1>1. /\ w \in Workers /\ Linked(w) /\ Entered(w) /\ Indexed(w) /\ Scoped(w) /\ Ranged(w)
      /\ k \in Kernels
  BY DEF Registry, Follows
<1>2. l = r.last + 1 /\ r.last \in Nat
  BY NextOfAbsent
<1>3. /\ r \in Ranges /\ r.first \in Nat /\ LastLifetime \in Nat
      /\ r # NoRange => 1 <= r.first /\ r.first <= r.last
  BY <1>1, LimitsAssumption DEF Workers, Ranges, Ranged
<1>4. v = [w EXCEPT !.retired = RT, !.exhausted = EX]
  BY DEF ExpectIgnored
<1>5. EX = w.exhausted
  BY <1>2 DEF Gap
<1>6. RT[d] = n /\ \A e \in Descriptors : e # d => RT[e] = w.retired[e]
  OBVIOUS
<1> HIDE DEF l, r
<1>7. /\ n \in Ranges /\ n # NoRange /\ 1 <= n.first /\ n.first <= n.last
      /\ n.last - n.first + 1 = (IF r = NoRange THEN 0 ELSE r.last - r.first + 1) + 1
  <2>1. CASE r = NoRange
    <3>1. n = [first |-> l, last |-> l]
      BY <2>1 DEF Retired
    <3>2. r.last = 0
      BY <2>1 DEF NoRange
    <3> QED BY <1>2, <1>3, <2>1, <3>1, <3>2 DEF Ranges, NoRange, l
  <2>2. CASE r # NoRange
    <3>1. n = [r EXCEPT !.last = l]
      BY <1>2, <2>2 DEF Retired
    <3>2. l \in 0..LastLifetime
      BY <1>2, <1>3 DEF l
    <3>3. n \in Ranges /\ n.first = r.first /\ n.last = l
      BY <1>3, <3>1, <3>2 DEF Ranges
    <3> QED BY <1>2, <1>3, <2>2, <3>3 DEF NoRange
  <2> QED BY <2>1, <2>2
<1> HIDE DEF n
<1>8. RT \in [Descriptors -> Ranges]
  <2>1. \A e \in Descriptors : RT[e] \in Ranges
    <3>1. \A e \in Descriptors : w.retired[e] \in Ranges
      BY <1>1 DEF Workers
    <3> HIDE DEF RT
    <3> QED BY <1>6, <1>7, <3>1
  <2> QED BY <2>1
<1> HIDE DEF v, RT, EX, life
<1>9. /\ v \in Workers /\ v.watches = w.watches /\ v.watched = w.watched /\ v.index = w.index
      /\ v.retired = RT /\ v.exhausted = w.exhausted
      /\ v.budget = w.budget /\ v.disposing = w.disposing /\ v.jobs = w.jobs
      /\ v.recon = w.recon
  BY <1>1, <1>4, <1>5, <1>8 DEF Workers
<1>10. Present(v) = Present(w) /\ Active(v) = Active(w)
  BY <1>9 DEF Present, Active
<1>11. Linked(v) /\ Indexed(v) /\ Scoped(v)
  BY <1>1, <1>9, <1>10 DEF Linked, Indexed, Scoped
<1>12. Ranged(v)
  BY <1>1, <1>6, <1>7, <1>9 DEF Ranged
<1>13. Entered(v)
  <2>1. \A e \in Present(w) : e \in Descriptors /\ e # d
    BY DEF Present
  <2> QED BY <1>1, <1>6, <1>9, <1>10, <2>1 DEF Entered
<1>14. Registry(v)
  BY <1>9, <1>10, <1>11, <1>12, <1>13 DEF Registry
<1>15. Awaits(v, d) = Awaits(w, d) + 1
  BY <1>6, <1>7, <1>9 DEF Awaits, r
<1>16. \A e \in Descriptors : e # d => Awaits(v, e) = Awaits(w, e)
  BY <1>6, <1>9 DEF Awaits
<1>17. /\ Queued(k, t, {e \in {d} : k.watch[e] # None})
       /\ t.watch = [e \in Descriptors |-> IF e \in {d} THEN None ELSE k.watch[e]]
  BY <1>1, RmWatchesQueues
<1> HIDE DEF t
<1>18. t \in Kernels
  BY <1>17 DEF Queued
<1>19. Follows(v, t, {})
  <2> SUFFICES ASSUME NEW e \in Descriptors
               PROVE  /\ t.watch[e] # None => e \in Present(v)
                      /\ e \in v.exhausted => t.watch[e] = None
                      /\ e \notin v.exhausted =>
                           /\ Ends(t.queue, e) <= Awaits(v, e) + Gone(v, t, {}, e)
                           /\ ~Lossy => Ends(t.queue, e) = Awaits(v, e) + Gone(v, t, {}, e)
    BY <1>18 DEF Follows
  <2>1. /\ k.watch[e] # None => e \in Present(w) \union {d}
        /\ e \in w.exhausted => k.watch[e] = None
        /\ e \notin w.exhausted =>
             /\ Ends(k.queue, e) <= Awaits(w, e) + Gone(w, k, {d}, e)
             /\ ~Lossy => Ends(k.queue, e) = Awaits(w, e) + Gone(w, k, {d}, e)
    BY DEF Follows
  <2>2. Ends(t.queue, e) \in Nat /\ Ends(k.queue, e) \in Nat
    BY <1>1, <1>18, EndsNat DEF Kernels
  <2>3. Awaits(w, e) \in Nat /\ Gone(w, k, {d}, e) \in {0, 1}
    BY AwaitsNat
  <2>4. t.watch[e] = IF e = d THEN None ELSE k.watch[e]
    BY <1>17
  <2>5. CASE e = d
    <3>1. Gone(v, t, {}, e) = 0
      BY <1>10, <2>5 DEF Gone
    <3>2. Gone(w, k, {d}, e) = IF k.watch[e] = None THEN 1 ELSE 0
      BY <2>5 DEF Gone
    <3>3. e \in {y \in {d} : k.watch[y] # None} <=> k.watch[e] # None
      BY <2>5
    <3>4. /\ Ends(t.queue, e) <= Ends(k.queue, e) + (IF k.watch[e] # None THEN 1 ELSE 0)
          /\ ~Lossy => Ends(t.queue, e) = Ends(k.queue, e) + (IF k.watch[e] # None THEN 1 ELSE 0)
      BY <1>17, <3>3 DEF Queued
    <3>5. Awaits(v, e) = Awaits(w, e) + 1
      BY <1>15, <2>5
    <3> QED BY <1>9, <2>1, <2>2, <2>3, <2>4, <2>5, <3>1, <3>2, <3>4, <3>5
  <2>6. CASE e # d
    <3>1. Gone(v, t, {}, e) = Gone(w, k, {d}, e)
      BY <1>10, <2>4, <2>6 DEF Gone
    <3>2. e \notin {y \in {d} : k.watch[y] # None}
      BY <2>6
    <3>3. /\ Ends(t.queue, e) <= Ends(k.queue, e) + 0
          /\ ~Lossy => Ends(t.queue, e) = Ends(k.queue, e) + 0
      BY <1>17, <3>2 DEF Queued
    <3> QED BY <1>9, <1>10, <1>16, <2>1, <2>2, <2>3, <2>4, <2>6, <3>1, <3>3
  <2> QED BY <2>5, <2>6
<1> QED BY <1>9, <1>14, <1>19 DEF v, t, life

LEMMA ConfirmTable ==
  ASSUME TableInv, Confirm
  PROVE  TableInv' /\ Len(kernel'.queue) >= Len(kernel.queue)
<1> DEFINE x == opening.of
           i == opening.identity
           d == opening.wd
           k == kernel
           created == {d} \ Present(worker)
           life == [e \in Descriptors |-> NextLifetime(worker, e)]
           p == ExpectIgnored(worker, created, life)
           u == MarkReused(worker, x[1], d)
           v == InsertInterest(Registered(u, i, d), x, d)
<1>1. /\ opening.stage = "added" /\ fs' = fs
      /\ IF fs[x[2]] # i
         THEN worker' = Failed(p, x) /\ kernel' = RmWatches(k, created) /\ opening' = NotOpening
         ELSE worker' = v /\ opening' = Opening("reading", x, i, d) /\ kernel' = k
  BY DEF Confirm
<1>2. /\ Registry(worker) /\ Opens(worker, opening) /\ Follows(worker, k, {d})
      /\ fs \in [Paths -> Inodes \union {None}] /\ k \in Kernels
  BY <1>1 DEF TableInv, Adding, Follows
<1>3. /\ x \in Interests /\ x[1] \in Active(worker) /\ i \in Inodes /\ worker.watched[x] = None
      /\ worker.index[i] = None
      /\ d \in Descriptors /\ d \notin Present(worker)
      /\ NextLifetime(worker, d) <= LastLifetime
      /\ Cardinality(Present(worker)) < worker.budget
  BY <1>1, <1>2 DEF Opens
<1>4. created = {d}
  BY <1>3
<1>5. Len(k.queue) \in Nat
  BY <1>2, LenProperties DEF Kernels
<1> HIDE DEF x, i, d, created, life, u
<1>6. CASE fs[x[2]] # i
  <2>1. worker' = Failed(p, x) /\ kernel' = RmWatches(k, {d}) /\ opening' = NotOpening
    BY <1>1, <1>4, <1>6
  <2>2. p = ExpectIgnored(worker, {d}, [e \in Descriptors |-> NextLifetime(worker, e)])
    BY <1>4 DEF life
  <2> HIDE DEF p
  <2>3. /\ Registry(p) /\ p.disposing = worker.disposing
        /\ Follows(p, RmWatches(k, {d}), {})
    BY <1>2, <1>3, <2>2, ExpectIgnoredAdded
  <2>4. Alike(p, worker')
    BY <1>3, <2>1, <2>3, FailedAlike
  <2>5. Registry(worker') /\ Follows(worker', kernel', {})
    BY <2>1, <2>3, <2>4, AlikeRegistry
  <2>6. Len(kernel'.queue) >= Len(k.queue)
    <3>1. Queued(k, RmWatches(k, {d}), {e \in {d} : k.watch[e] # None})
      BY <1>2, <1>3, RmWatchesQueues
    <3> QED BY <2>1, <3>1 DEF Queued
  <2> QED BY <1>1, <1>2, <2>1, <2>5, <2>6, Closed DEF TableInv
<1>7. CASE fs[x[2]] = i
  <2>1. worker' = v /\ opening' = Opening("reading", x, i, d) /\ kernel' = k
    BY <1>1, <1>7
  <2>2. Alike(worker, u)
    BY <1>2, <1>3, InterestParts, MarkReusedAlike DEF u
  <2>3. /\ Registry(u) /\ Present(u) = Present(worker) /\ Active(u) = Active(worker)
        /\ u.watched[x] = None /\ u.index[i] = None /\ u.budget = worker.budget
        /\ u.retired = worker.retired /\ u.exhausted = worker.exhausted
    BY <1>2, <1>3, <2>2, AlikeRegistry DEF Alike, SameTable
  <2>4. NextLifetime(u, d) <= LastLifetime
    BY <1>3, <2>2 DEF Alike, SameTable, NextLifetime
  <2>5. /\ Registry(v)
        /\ Present(v) = Present(u) \union {d}
        /\ v.retired = u.retired /\ v.exhausted = u.exhausted
        /\ v.disposing = u.disposing
    BY <1>3, <2>3, <2>4, NewWatchRegistry
  <2> HIDE DEF v
  <2>6. Follows(v, k, {})
    BY <1>2, <2>3, <2>5, FollowsSame
  <2>7. Opens(v, opening') /\ Adding(opening') = {}
    BY <1>3, <2>1, <2>3, <2>5, Closed DEF Opens, Opening, Active
  <2>8. /\ Registry(worker') /\ Opens(worker', opening')
        /\ Follows(worker', kernel', Adding(opening'))
    BY <2>1, <2>5, <2>6, <2>7
  <2>9. fs' \in [Paths -> Inodes \union {None}] /\ Len(kernel'.queue) >= Len(kernel.queue)
    BY <1>1, <1>2, <1>5, <2>1
  <2> QED BY <2>8, <2>9 DEF TableInv
<1> QED BY <1>6, <1>7

LEMMA ReadTable ==
  ASSUME TableInv, Read
  PROVE  TableInv' /\ Len(kernel'.queue) >= Len(kernel.queue)
<1> DEFINE x == opening.of
           gone == IF fs[x[2]] = None THEN Watched(worker, {x}) ELSE {}
           u == RemoveInterests(worker, gone)
           v == Forgotten(u, {x})
<1>1. /\ opening.stage = "reading" /\ opening' = NotOpening /\ fs' = fs
      /\ worker' = v /\ kernel' = RmWatches(kernel, Released(worker, v))
  BY DEF Read
<1>2. /\ Registry(worker) /\ Follows(worker, kernel, {}) /\ Opens(worker, opening)
      /\ fs \in [Paths -> Inodes \union {None}]
  BY <1>1, Idle
<1>3. gone \in SUBSET Interests
  BY <1>1, <1>2 DEF Opens, Watched
<1> HIDE DEF gone
<1>4. Registry(u)
  BY <1>2, <1>3, RemoveInterestsRegistry
<1>5. Alike(u, v)
  BY <1>4, ForgottenAlike
<1> HIDE DEF v
<1>6. /\ Registry(v) /\ Follows(v, kernel', {})
      /\ Len(kernel'.queue) >= Len(kernel.queue)
  BY <1>1, <1>2, <1>3, <1>5, RemovalKeeps
<1> QED BY <1>1, <1>2, <1>6, Closed DEF TableInv

----------------------------------------------------------------------------
(* The steps of a reconciliation and of a disposal.                        *)

\* A step between opens that leaves the watches as they are.
LEMMA BetweenOpens ==
  ASSUME TableInv, opening = NotOpening, opening' = opening, kernel' = kernel, fs' = fs,
         worker' \in Workers, SameTable(worker, worker'),
         worker.disposing \subseteq worker'.disposing, Scoped(worker')
  PROVE  TableInv' /\ Len(kernel'.queue) >= Len(kernel.queue)
<1>1. Registry(worker) /\ Follows(worker, kernel, {}) /\ fs \in [Paths -> Inodes \union {None}]
  BY Idle DEF NotOpening
<1>2. Registry(worker') /\ Follows(worker', kernel, {})
  BY <1>1, SameTableRegistry, SameTableFollows
<1>3. Len(kernel.queue) \in Nat
  BY <1>1, LenProperties DEF Follows, Kernels
<1> QED BY <1>1, <1>2, <1>3, Closed DEF TableInv

\* A removal between opens.
LEMMA RemovalBetweenOpens ==
  ASSUME TableInv, opening = NotOpening, opening' = opening, fs' = fs,
         NEW gone \in SUBSET Interests, Alike(RemoveInterests(worker, gone), worker'),
         kernel' = RmWatches(kernel, Released(worker, worker'))
  PROVE  TableInv' /\ Len(kernel'.queue) >= Len(kernel.queue)
<1>1. Registry(worker) /\ Follows(worker, kernel, {}) /\ fs \in [Paths -> Inodes \union {None}]
  BY Idle DEF NotOpening
<1>2. /\ Registry(worker') /\ Follows(worker', kernel', {})
      /\ Len(kernel'.queue) >= Len(kernel.queue)
  BY <1>1, RemovalKeeps
<1> QED BY <1>1, <1>2, Closed DEF TableInv

LEMMA ReconcileTable ==
  ASSUME TableInv, NEW s \in Subs, Reconcile(s)
  PROVE  TableInv' /\ Len(kernel'.queue) >= Len(kernel.queue)
<1> DEFINE more == {s} \X {p \in Paths : fs[p] # None}
<1>1. /\ opening = NotOpening /\ opening' = opening /\ kernel' = kernel /\ fs' = fs
      /\ s \in Active(worker)
      /\ worker' = [worker EXCEPT !.recon = worker.recon \union {s},
                                  !.quiet = worker.quiet \union {s},
                                  !.found = worker.found \ ({s} \X Paths),
                                  !.jobs = worker.jobs \union more]
  BY DEF Reconcile
<1>2. Registry(worker) /\ worker \in Workers
  BY DEF TableInv, Registry
<1>3. more \in SUBSET Interests /\ \A x \in more : x[1] = s
  BY DEF Interests
<1> HIDE DEF more
<1>4. /\ worker.recon \union {s} \in SUBSET Subs /\ worker.quiet \union {s} \in SUBSET Subs
      /\ worker.found \ ({s} \X Paths) \in SUBSET Interests
      /\ worker.jobs \union more \in SUBSET Interests
  BY <1>2, <1>3 DEF Workers
<1>5. /\ worker' \in Workers /\ SameTable(worker, worker')
      /\ worker'.disposing = worker.disposing /\ worker'.recon = worker.recon \union {s}
      /\ worker'.jobs = worker.jobs \union more
  BY <1>1, <1>2, <1>4 DEF Workers, SameTable
<1>6. Scoped(worker')
  BY <1>1, <1>2, <1>3, <1>5 DEF Registry, Scoped, Active
<1> QED BY <1>1, <1>5, <1>6, BetweenOpens

LEMMA CommitReconciliationTable ==
  ASSUME TableInv, NEW s \in Subs, CommitReconciliation(s)
  PROVE  TableInv' /\ Len(kernel'.queue) >= Len(kernel.queue)
<1> DEFINE un == IF s \in worker.quiet THEN worker.uncertain \ {s} ELSE worker.uncertain
<1>1. /\ opening = NotOpening /\ opening' = opening /\ kernel' = kernel /\ fs' = fs
      /\ worker' = [worker EXCEPT !.recon = worker.recon \ {s},
                                  !.found = worker.found \ ({s} \X Paths),
                                  !.quiet = worker.quiet \ {s},
                                  !.uncertain = un]
  BY DEF CommitReconciliation
<1>2. Registry(worker) /\ worker \in Workers
  BY DEF TableInv, Registry
<1>3. /\ worker.recon \ {s} \in SUBSET Subs /\ worker.quiet \ {s} \in SUBSET Subs
      /\ worker.found \ ({s} \X Paths) \in SUBSET Interests
      /\ un \in SUBSET Subs
  BY <1>2 DEF Workers
<1> HIDE DEF un
<1>4. /\ worker' \in Workers /\ SameTable(worker, worker')
      /\ worker'.disposing = worker.disposing /\ worker'.recon = worker.recon \ {s}
      /\ worker'.jobs = worker.jobs
  BY <1>1, <1>2, <1>3 DEF Workers, SameTable
<1>5. Scoped(worker')
  BY <1>2, <1>4 DEF Registry, Scoped, Active
<1> QED BY <1>1, <1>4, <1>5, BetweenOpens

LEMMA BeginDisposalTable ==
  ASSUME TableInv, NEW s \in Subs, BeginDisposal(s)
  PROVE  TableInv' /\ Len(kernel'.queue) >= Len(kernel.queue)
<1> DEFINE f == [x \in Interests |-> IF x[1] = s THEN "no" ELSE worker.deferred[x]]
<1>1. /\ opening = NotOpening /\ opening' = opening /\ kernel' = kernel /\ fs' = fs
      /\ worker' = [worker EXCEPT !.disposing = worker.disposing \union {s},
                                  !.recon = worker.recon \ {s},
                                  !.quiet = worker.quiet \ {s},
                                  !.found = worker.found \ ({s} \X Paths),
                                  !.jobs = worker.jobs \ ({s} \X Paths),
                                  !.deferred = f]
  BY DEF BeginDisposal
<1>2. Registry(worker) /\ worker \in Workers
  BY DEF TableInv, Registry
<1>3. /\ worker.disposing \union {s} \in SUBSET Subs
      /\ worker.recon \ {s} \in SUBSET Subs /\ worker.quiet \ {s} \in SUBSET Subs
      /\ worker.found \ ({s} \X Paths) \in SUBSET Interests
      /\ worker.jobs \ ({s} \X Paths) \in SUBSET Interests
      /\ f \in [Interests -> {"no", "budget", "error"}]
  BY <1>2 DEF Workers
<1> HIDE DEF f
<1>4. /\ worker' \in Workers /\ SameTable(worker, worker')
      /\ worker'.disposing = worker.disposing \union {s}
      /\ worker'.recon = worker.recon \ {s}
      /\ worker'.jobs = worker.jobs \ ({s} \X Paths)
  BY <1>1, <1>2, <1>3 DEF Workers, SameTable
<1>5. Scoped(worker')
  <2>1. \A x \in worker.jobs \ ({s} \X Paths) : x[1] \in Active(worker) /\ x[1] # s
    <3>1. worker.jobs \subseteq Interests
      BY <1>2 DEF Workers
    <3>2. \A x \in worker.jobs : x[1] \in Active(worker)
      BY <1>2 DEF Registry, Scoped
    <3>3. \A x \in Interests : x[1] = s => x \in {s} \X Paths
      BY DEF Interests
    <3> QED BY <3>1, <3>2, <3>3
  <2> QED BY <1>2, <1>4, <2>1 DEF Registry, Scoped, Active
<1> QED BY <1>1, <1>4, <1>5, BetweenOpens

LEMMA SweepTable ==
  ASSUME TableInv, NEW x \in Interests, Sweep(x)
  PROVE  TableInv' /\ Len(kernel'.queue) >= Len(kernel.queue)
<1> DEFINE gone == Watched(worker, {x})
           u == RemoveInterests(worker, gone)
<1>1. /\ opening = NotOpening /\ opening' = opening /\ fs' = fs
      /\ worker' = Forgotten(u, {x})
      /\ kernel' = RmWatches(kernel, Released(worker, worker'))
  BY DEF Sweep
<1>2. gone \in SUBSET Interests
  BY DEF Watched
<1> HIDE DEF gone
<1>3. Alike(u, worker')
  BY <1>1, <1>2, RemoveInterestsRegistry, ForgottenAlike DEF TableInv
<1> QED BY <1>1, <1>2, <1>3, RemovalBetweenOpens

LEMMA DisposeInterestTable ==
  ASSUME TableInv, NEW x \in Interests, DisposeInterest(x)
  PROVE  TableInv' /\ Len(kernel'.queue) >= Len(kernel.queue)
<1>1. /\ opening = NotOpening /\ opening' = opening /\ fs' = fs
      /\ worker' = RemoveInterests(worker, {x})
      /\ kernel' = RmWatches(kernel, Released(worker, worker'))
  BY DEF DisposeInterest
<1>2. Registry(RemoveInterests(worker, {x}))
  BY RemoveInterestsRegistry DEF TableInv
<1>3. Alike(RemoveInterests(worker, {x}), worker')
  BY <1>1, <1>2 DEF Alike, SameTable, Registry
<1> QED BY <1>1, <1>3, RemovalBetweenOpens

----------------------------------------------------------------------------
(* The theorems.                                                           *)

LEMMA TableInit == Init => TableInv
<1> SUFFICES ASSUME Init PROVE TableInv
  OBVIOUS
<1>1. PICK budget \in Budgets :
        worker = [budget |-> budget,
                  watches |-> [d \in Descriptors |-> Absent],
                  index |-> [i \in Inodes |-> None],
                  retired |-> [d \in Descriptors |-> NoRange],
                  exhausted |-> {},
                  watched |-> [x \in Interests |-> None],
                  deferred |-> [x \in Interests |-> "no"],
                  jobs |-> {}, found |-> {}, uncertain |-> {}, recon |-> {}, quiet |-> {},
                  disposing |-> {}]
  BY DEF Init
<1>2. /\ fs = [p \in Paths |-> None] /\ opening = NotOpening
      /\ kernel = [watch |-> [d \in Descriptors |-> None], queue |-> <<>>]
  BY DEF Init
<1>3. NoRange \in Ranges
  BY LimitsAssumption DEF Ranges, NoRange
<1>4. worker \in Workers
  BY <1>1, <1>3, AbsentFields DEF Workers
<1>5. Present(worker) = {}
  BY <1>1 DEF Present
<1>6. Ranged(worker) /\ Linked(worker) /\ Entered(worker) /\ Indexed(worker) /\ Scoped(worker)
  <2>1. Ranged(worker) /\ Scoped(worker)
    BY <1>1 DEF Ranged, Scoped
  <2>2. Entered(worker)
    BY <1>5 DEF Entered
  <2>3. Linked(worker) /\ Indexed(worker)
    BY <1>1, AbsentFields, KernelAssumption DEF Linked, Indexed
  <2> QED BY <2>1, <2>2, <2>3
<1>7. Cardinality(Present(worker)) <= worker.budget
  <2>1. worker.budget = budget /\ budget \in Nat
    BY <1>1, LimitsAssumption
  <2>2. Cardinality(Present(worker)) = 0
    BY <1>5, FS_EmptySet
  <2> QED BY <2>1, <2>2
<1>8. \A d \in Descriptors : Ends(<<>>, d) = 0
  <2>1. \A r : Positions(<<>>, r) = {}
    BY DEF Positions
  <2> QED BY <2>1, FS_EmptySet DEF Ends, Count
<1>9. Follows(worker, kernel, {})
  <2>1. kernel \in Kernels
    BY <1>2 DEF Kernels
  <2>2. \A d \in Descriptors : kernel.watch[d] = None /\ Ends(kernel.queue, d) = 0
    BY <1>2, <1>8
  <2>3. \A d \in Descriptors : Awaits(worker, d) = 0 /\ Gone(worker, kernel, {}, d) = 0
    BY <1>1, <1>5 DEF Awaits, Gone
  <2> QED BY <2>1, <2>2, <2>3 DEF Follows
<1> QED BY <1>2, <1>4, <1>6, <1>7, <1>9, Closed DEF TableInv, Registry

\* Every step but the reading of a record leaves the queue at least as long.
LEMMA TableStep ==
  ASSUME TableInv, Next
  PROVE  TableInv' /\ (HandleRecord \/ Len(kernel'.queue) >= Len(kernel.queue))
<1>1. CASE \E p \in Paths, i \in Inodes : CreateDir(p, i)
  BY <1>1, CreateDirTable
<1>2. CASE \E p \in Paths : RemoveDir(p)
  BY <1>2, RemoveDirTable
<1>3. CASE \E p, q \in Paths : MoveDir(p, q)
  BY <1>3, MoveDirTable
<1>4. CASE \E d \in Descriptors : Evict(d)
  BY <1>4, EvictTable
<1>5. CASE HandleRecord
  BY <1>5, HandleRecordTable
<1>6. CASE \E x \in Interests : Open(x) \/ Promote(x) \/ Sweep(x) \/ DisposeInterest(x)
  BY <1>6, OpenTable, PromoteTable, SweepTable, DisposeInterestTable
<1>7. CASE Share
  BY <1>7, ShareTable
<1>8. CASE Defer
  BY <1>8, DeferTable
<1>9. CASE \E d \in Descriptors : AddWatch(d)
  BY <1>9, AddWatchTable
<1>10. CASE AddWatchFails
  BY <1>10, AddWatchFailsTable
<1>11. CASE Confirm
  BY <1>11, ConfirmTable
<1>12. CASE Read
  BY <1>12, ReadTable
<1>13. CASE \E s \in Subs : Reconcile(s) \/ CommitReconciliation(s) \/ BeginDisposal(s)
  BY <1>13, ReconcileTable, CommitReconciliationTable, BeginDisposalTable
<1> QED BY <1>1, <1>2, <1>3, <1>4, <1>5, <1>6, <1>7, <1>8, <1>9, <1>10, <1>11, <1>12, <1>13
     DEF Next

LEMMA TableStutters == TableInv /\ UNCHANGED vars => TableInv'
BY DEF TableInv, vars

LEMMA TableInvariant == Spec => []TableInv
<1>1. TableInv /\ [Next]_vars => TableInv'
  BY TableStep, TableStutters
<1> QED BY <1>1, TableInit, PTL DEF Spec

\* The registries stay well formed, and no lifetime passes u64::MAX: a descriptor
\* whose lifetimes are used up is refused before one more is given out.
THEOREM TypeCorrect == Spec => []TypeOK
<1>1. TableInv => TypeOK
  BY DEF TableInv, Registry, Ranged, TypeOK, NoRange
<1> QED BY <1>1, TableInvariant, PTL

\* Whatever the file system does between the calls of an open, the three
\* registries agree, no kernel watch is outside them and the kernel never holds
\* more than the budget.
THEOREM TableAgrees == Spec => []WatchesAgree
<1>1. ASSUME TableInv PROVE RegistriesAgree
  BY <1>1 DEF TableInv, Registry, Linked, Entered, Indexed, RegistriesAgree
<1>2. ASSUME TableInv PROVE NoWatchLeaks
  BY <1>2 DEF TableInv, Follows, Adding, NoWatchLeaks
<1>3. ASSUME TableInv PROVE BudgetKept
  <2> DEFINE live == {d \in Descriptors : kernel.watch[d] # None}
  <2>1. live \subseteq Present(worker) \union Adding(opening)
    BY <1>3 DEF TableInv, Follows
  <2>2. /\ worker.budget \in Nat
        /\ Cardinality(Present(worker)) <= worker.budget
    BY <1>3, LimitsAssumption DEF TableInv, Registry, Workers
  <2>3. IsFiniteSet(Present(worker)) /\ Cardinality(Present(worker)) \in Nat
    BY PresentFinite
  <2> HIDE DEF live
  <2>4. CASE opening.stage = "added"
    <3> DEFINE more == Present(worker) \union {opening.wd}
    <3>1. opening.wd \notin Present(worker) /\ Cardinality(Present(worker)) < worker.budget
      BY <1>3, <2>4 DEF TableInv, Opens
    <3>2. IsFiniteSet(more) /\ Cardinality(more) = Cardinality(Present(worker)) + 1
      BY <2>3, <3>1, FS_AddElement
    <3>3. live \in SUBSET more
      BY <2>1, <2>4 DEF Adding
    <3> HIDE DEF more
    <3>4. Cardinality(live) <= Cardinality(more) /\ Cardinality(live) \in Nat
      BY <3>2, <3>3, FS_Subset, FS_CardinalityType
    <3> QED BY <2>2, <2>3, <3>1, <3>2, <3>4 DEF BudgetKept, live
  <2>5. CASE opening.stage # "added"
    <3>1. live \in SUBSET Present(worker)
      BY <2>1, <2>5 DEF Adding
    <3>2. Cardinality(live) <= Cardinality(Present(worker)) /\ Cardinality(live) \in Nat
      BY <2>3, <3>1, FS_Subset, FS_CardinalityType
    <3> QED BY <2>2, <2>3, <3>2 DEF BudgetKept, live
  <2> QED BY <2>4, <2>5
<1>4. TableInv => WatchesAgree
  BY <1>1, <1>2, <1>3 DEF WatchesAgree
<1> QED BY <1>4, TableInvariant, PTL

\* The range of awaited lifetimes never has a gap, even when the kernel drops
\* records: a live watch's lifetime directly follows the retired ones.
THEOREM RetiredInOrder == Spec => []LifetimesOrdered
<1>1. TableInv => LifetimesOrdered
  BY DEF TableInv, Registry, Entered, LifetimesOrdered
<1> QED BY <1>1, TableInvariant, PTL

\* As long as the kernel drops nothing, each queued ignored record is the end of
\* one known lifetime of its descriptor, however often the descriptor is reused.
THEOREM EndsAttributed ==
  ASSUME ~Lossy
  PROVE  Spec => []LifetimesAttributed
<1>1. ASSUME TableInv PROVE IgnoredRecordsAttributed
  <2> SUFFICES ASSUME NEW d \in Descriptors \ worker.exhausted
               PROVE  IgnoredCount(d) = Awaited(d)
                        + (IF /\ kernel.watch[d] = None
                              /\ d \in Present(worker)
                                   \/ (opening.stage = "added" /\ opening.wd = d)
                           THEN 1 ELSE 0)
    BY DEF IgnoredRecordsAttributed
  <2>1. Ends(kernel.queue, d) = Awaits(worker, d) + Gone(worker, kernel, Adding(opening), d)
    BY <1>1 DEF TableInv, Follows
  <2>2. IgnoredCount(d) = Ends(kernel.queue, d)
    BY DEF IgnoredCount, Ends, Count, Positions
  <2>3. Awaited(d) = Awaits(worker, d)
    BY DEF Awaited, Awaits
  <2>4. d \in Adding(opening) <=> opening.stage = "added" /\ opening.wd = d
    BY DEF Adding
  <2> QED BY <2>1, <2>2, <2>3, <2>4 DEF Gone
<1>2. TableInv => LifetimesOrdered
  BY DEF TableInv, Registry, Entered, LifetimesOrdered
<1>3. TableInv => LifetimesAttributed
  BY <1>1, <1>2 DEF LifetimesAttributed
<1> QED BY <1>3, TableInvariant, PTL

\* Even when the kernel's queue overflows, the ignored record of a former watch
\* never takes the live watch that reuses its descriptor out of the registry.
THEOREM OnlyDeadDetached == Spec => IgnoredDetachesOnlyDead
<1> DEFINE Step ==
      \A d \in Descriptors :
        (/\ kernel.queue # <<>> /\ Head(kernel.queue) = Record("ignored", d)
         /\ kernel'.queue = Tail(kernel.queue)
         /\ d \in Present(worker) /\ d \notin Present(worker'))
           => kernel.watch[d] = None
<1>1. TableInv /\ [Next]_vars => [Step]_vars
  <2> SUFFICES ASSUME TableInv, Next PROVE Step
    OBVIOUS
  <2>1. CASE HandleRecord
    BY <2>1, HandleRecordTable
  <2>2. CASE Len(kernel'.queue) >= Len(kernel.queue)
    <3>1. kernel.queue \in Seq(Records)
      BY DEF TableInv, Follows, Kernels
    <3>2. kernel.queue # <<>> => /\ Len(kernel.queue) \in Nat
                                 /\ Len(Tail(kernel.queue)) = Len(kernel.queue) - 1
      BY <3>1, HeadTailProperties, LenProperties
    <3>3. kernel.queue # <<>> => kernel'.queue # Tail(kernel.queue)
      <4> SUFFICES ASSUME kernel.queue # <<>>, kernel'.queue = Tail(kernel.queue) PROVE FALSE
        OBVIOUS
      <4>1. Len(kernel'.queue) = Len(Tail(kernel.queue))
        OBVIOUS
      <4> QED BY <2>2, <3>2, <4>1
    <3> QED BY <3>3
  <2> QED BY <2>1, <2>2, TableStep
<1>2. Spec => [][Step]_vars
  BY <1>1, TableInvariant, PTL DEF Spec
<1> QED BY <1>2 DEF IgnoredDetachesOnlyDead

----------------------------------------------------------------------------
(* What stays in a queue, and in which order.                              *)

LEMMA ContainsConcat ==
  ASSUME NEW S, NEW p \in Seq(S), NEW q \in Seq(S), NEW r
  PROVE  Contains(p \o q, r) <=> Contains(p, r) \/ Contains(q, r)
<1> DEFINE s == p \o q
<1>1. /\ Len(p) \in Nat /\ Len(q) \in Nat /\ Len(s) = Len(p) + Len(q)
      /\ \A i \in 1..Len(p)+Len(q) : s[i] = IF i <= Len(p) THEN p[i] ELSE q[i - Len(p)]
  BY ConcatProperties, LenProperties
<1> HIDE DEF s
<1>2. ASSUME NEW n \in 1..Len(p), p[n] = r PROVE n \in 1..Len(s) /\ s[n] = r
  BY <1>1, <1>2
<1>3. ASSUME NEW n \in 1..Len(q), q[n] = r
      PROVE  n + Len(p) \in 1..Len(s) /\ s[n + Len(p)] = r
  BY <1>1, <1>3
<1>4. ASSUME NEW n \in 1..Len(s), s[n] = r
      PROVE  \/ n \in 1..Len(p) /\ p[n] = r
             \/ n - Len(p) \in 1..Len(q) /\ q[n - Len(p)] = r
  BY <1>1, <1>4
<1> QED BY <1>2, <1>3, <1>4 DEF Contains, s

LEMMA ContainsOne ==
  ASSUME NEW x, NEW r
  PROVE  Contains(<<x>>, r) <=> x = r
BY DEF Contains

LEMMA ContainsTail ==
  ASSUME NEW S, NEW q \in Seq(S), q # <<>>, NEW r
  PROVE  Contains(q, r) <=> Head(q) = r \/ Contains(Tail(q), r)
<1> DEFINE h == <<Head(q)>>
           t == Tail(q)
<1>1. Head(q) \in S /\ t \in Seq(S)
  BY HeadTailProperties
<1>2. q = h \o t /\ h \in Seq(S)
  BY <1>1
<1>3. Contains(h, r) <=> Head(q) = r
  BY ContainsOne
<1> HIDE DEF h, t
<1>4. Contains(h \o t, r) <=> Contains(h, r) \/ Contains(t, r)
  BY <1>1, <1>2, ContainsConcat
<1> QED BY <1>2, <1>3, <1>4 DEF t

\* After n ends of the descriptor's watches comes the record.
After(q, d, n, r) ==
  \E u, v \in Seq(Records) : q = u \o (<<r>> \o v) /\ Ends(u, d) >= n

LEMMA AfterConcat ==
  ASSUME NEW q \in Seq(Records), NEW z \in Seq(Records), NEW r \in Records, NEW d, NEW n,
         After(q, d, n, r)
  PROVE  After(q \o z, d, n, r)
<1>1. PICK u, v \in Seq(Records) : q = u \o (<<r>> \o v) /\ Ends(u, d) >= n
  BY DEF After
<1>2. <<r>> \in Seq(Records) /\ <<r>> \o v \in Seq(Records) /\ v \o z \in Seq(Records)
  BY ConcatProperties
<1>3. q \o z = u \o ((<<r>> \o v) \o z)
  BY <1>1, <1>2, ConcatAssociative
<1>4. (<<r>> \o v) \o z = <<r>> \o (v \o z)
  BY <1>2, ConcatAssociative
<1> QED BY <1>1, <1>2, <1>3, <1>4 DEF After

LEMMA AfterAppended ==
  ASSUME NEW q \in Seq(Records), NEW r \in Records, NEW d, NEW n, Ends(q, d) >= n
  PROVE  After(q \o <<r>>, d, n, r)
<1>1. <<>> \in Seq(Records) /\ <<r>> \o <<>> = <<r>>
  BY ConcatEmptySeq
<1> QED BY <1>1 DEF After

LEMMA AfterContains ==
  ASSUME NEW q, NEW r \in Records, NEW d, NEW n, After(q, d, n, r)
  PROVE  Contains(q, r)
<1>1. PICK u, v \in Seq(Records) : q = u \o (<<r>> \o v)
  BY DEF After
<1>2. <<r>> \in Seq(Records) /\ <<r>> \o v \in Seq(Records)
  BY ConcatProperties
<1>3. Contains(<<r>> \o v, r)
  BY <1>2, ContainsConcat, ContainsOne
<1> QED BY <1>1, <1>2, <1>3, ContainsConcat

LEMMA AfterTail ==
  ASSUME NEW q \in Seq(Records), q # <<>>, NEW r \in Records, NEW d, NEW n \in Nat, n >= 1,
         After(q, d, n, r)
  PROVE  After(Tail(q), d, n - IF Head(q) = Record("ignored", d) THEN 1 ELSE 0, r)
<1>1. PICK u, v \in Seq(Records) : q = u \o (<<r>> \o v) /\ Ends(u, d) >= n
  BY DEF After
<1> DEFINE z == <<r>> \o v
<1>2. z \in Seq(Records)
  BY ConcatProperties
<1>3. q = u \o z
  BY <1>1
<1> HIDE DEF z
<1>4. u # <<>>
  <2>1. Ends(<<>>, d) = 0
    <3>1. Positions(<<>>, Record("ignored", d)) = {}
      BY DEF Positions
    <3> QED BY <3>1, FS_EmptySet DEF Ends, Count
  <2> QED BY <1>1, <2>1
<1>5. Head(u) \in Records /\ Tail(u) \in Seq(Records) /\ Len(u) \in Nat \ {0}
  BY <1>4, HeadTailProperties, EmptySeq
<1>6. Tail(q) = Tail(u) \o z /\ Head(q) = Head(u)
  <2>1. u = <<Head(u)>> \o Tail(u) /\ <<Head(u)>> \in Seq(Records)
    BY <1>4, <1>5
  <2>2. Tail(u) \o z \in Seq(Records)
    BY <1>2, <1>5, ConcatProperties
  <2>3. (<<Head(u)>> \o Tail(u)) \o z = <<Head(u)>> \o (Tail(u) \o z)
    BY <1>2, <1>5, <2>1, ConcatAssociative
  <2>4. q = <<Head(u)>> \o (Tail(u) \o z)
    BY <1>3, <2>1, <2>3
  <2> HIDE DEF z
  <2>5. ASSUME NEW a \in Records, NEW s \in Seq(Records)
        PROVE  Head(<<a>> \o s) = a /\ Tail(<<a>> \o s) = s
    OBVIOUS
  <2> QED BY <1>5, <2>2, <2>4, <2>5
<1>7. Ends(Tail(u), d) = Ends(u, d) - IF Head(q) = Record("ignored", d) THEN 1 ELSE 0
  BY <1>4, <1>6, CountTail DEF Ends
<1>8. Ends(u, d) \in Nat
  BY EndsNat
<1>9. Ends(Tail(u), d) >= n - IF Head(q) = Record("ignored", d) THEN 1 ELSE 0
  BY <1>1, <1>7, <1>8
<1> QED BY <1>5, <1>6, <1>9 DEF After, z

\* Whenever the path's removal is queued, its creation is queued behind it.
Followed(q, p) ==
  \A n \in 1..Len(q) : q[n] = Record("removed", p) =>
    \E m \in 1..Len(q) : m > n /\ q[m] = Record("created", p)

LEMMA FollowedConcat ==
  ASSUME NEW q \in Seq(Records), NEW z \in Seq(Records), NEW p, Followed(q, p),
         ~Contains(z, Record("removed", p))
  PROVE  Followed(q \o z, p)
<1> DEFINE s == q \o z
<1>1. /\ Len(q) \in Nat /\ Len(z) \in Nat /\ Len(s) = Len(q) + Len(z)
      /\ \A i \in 1..Len(q)+Len(z) : s[i] = IF i <= Len(q) THEN q[i] ELSE z[i - Len(q)]
  BY ConcatProperties, LenProperties
<1> HIDE DEF s
<1> SUFFICES ASSUME NEW n \in 1..Len(s), s[n] = Record("removed", p)
             PROVE  \E m \in 1..Len(s) : m > n /\ s[m] = Record("created", p)
  BY DEF Followed, s
<1>2. n <= Len(q)
  <2> SUFFICES ASSUME n > Len(q) PROVE FALSE
    BY <1>1
  <2>1. n - Len(q) \in 1..Len(z) /\ z[n - Len(q)] = Record("removed", p)
    BY <1>1
  <2> QED BY <2>1 DEF Contains
<1>3. n \in 1..Len(q) /\ q[n] = Record("removed", p)
  BY <1>1, <1>2
<1>4. PICK m \in 1..Len(q) : m > n /\ q[m] = Record("created", p)
  BY <1>3 DEF Followed
<1>5. m \in 1..Len(s) /\ s[m] = q[m]
  BY <1>1
<1> QED BY <1>4, <1>5

LEMMA FollowedLast ==
  ASSUME NEW q \in Seq(Records), NEW p \in Paths
  PROVE  Followed(q \o <<Record("created", p)>>, p)
<1> DEFINE r == Record("created", p)
           z == <<r>>
           s == q \o z
<1>1. r \in Records /\ r # Record("removed", p)
  BY DEF Record, Records
<1>2. z \in Seq(Records) /\ Len(z) = 1 /\ z[1] = r
  BY <1>1
<1> HIDE DEF r, z
<1>3. /\ Len(q) \in Nat /\ Len(s) = Len(q) + Len(z)
      /\ \A i \in 1..Len(q)+Len(z) : s[i] = IF i <= Len(q) THEN q[i] ELSE z[i - Len(q)]
  BY <1>2, ConcatProperties, LenProperties
<1> HIDE DEF s
<1>4. Len(s) \in 1..Len(s) /\ s[Len(s)] = r
  BY <1>2, <1>3
<1>5. \A n \in 1..Len(s) : s[n] = Record("removed", p) => Len(s) > n
  BY <1>1, <1>3, <1>4
<1> QED BY <1>4, <1>5 DEF Followed, s, z, r

LEMMA FollowedTail ==
  ASSUME NEW q \in Seq(Records), q # <<>>, NEW p, Followed(q, p)
  PROVE  Followed(Tail(q), p)
<1> DEFINE t == Tail(q)
<1>1. /\ Len(q) \in Nat /\ Len(t) = Len(q) - 1
      /\ \A i \in 1..Len(t) : t[i] = q[i + 1]
  BY HeadTailProperties, LenProperties
<1> HIDE DEF t
<1> SUFFICES ASSUME NEW n \in 1..Len(t), t[n] = Record("removed", p)
             PROVE  \E m \in 1..Len(t) : m > n /\ t[m] = Record("created", p)
  BY DEF Followed, t
<1>2. n + 1 \in 1..Len(q) /\ q[n + 1] = Record("removed", p)
  BY <1>1
<1>3. PICK m \in 1..Len(q) : m > n + 1 /\ q[m] = Record("created", p)
  BY <1>2 DEF Followed
<1>4. m - 1 \in 1..Len(t) /\ m - 1 > n /\ t[m - 1] = q[m]
  BY <1>1, <1>3
<1> QED BY <1>3, <1>4

\* A path whose removal is queued, and which is there, is announced.
LEMMA FollowedContains ==
  ASSUME NEW q, NEW p, Followed(q, p), Contains(q, Record("removed", p))
  PROVE  Contains(q, Record("created", p))
BY DEF Followed, Contains

LEMMA FollowedHead ==
  ASSUME NEW q \in Seq(Records), q # <<>>, NEW p, Followed(q, p),
         Head(q) = Record("removed", p)
  PROVE  Contains(Tail(q), Record("created", p))
<1>1. Contains(q, Record("removed", p))
  BY ContainsTail
<1>2. Contains(q, Record("created", p))
  BY <1>1, FollowedContains
<1>3. Record("removed", p) # Record("created", p)
  BY DEF Record
<1> QED BY <1>2, <1>3, ContainsTail

\* Only records of some kinds were added.
Grown(q, t, kinds) ==
  \E rs \in Seq(Records) : t = q \o rs /\ \A r : Contains(rs, r) => r.kind \in kinds

LEMMA GrownSelf ==
  ASSUME NEW q \in Seq(Records), NEW kinds
  PROVE  Grown(q, q, kinds)
<1>1. <<>> \in Seq(Records) /\ q \o <<>> = q
  BY ConcatEmptySeq
<1>2. \A r : ~Contains(<<>>, r)
  BY DEF Contains
<1> QED BY <1>1, <1>2 DEF Grown

LEMMA GrownKeeps ==
  ASSUME NEW q \in Seq(Records), NEW t, NEW kinds, Grown(q, t, kinds)
  PROVE  /\ t \in Seq(Records)
         /\ \A r : Contains(q, r) => Contains(t, r)
         /\ \A r : Contains(t, r) => Contains(q, r) \/ r.kind \in kinds
         /\ "removed" \notin kinds => \A p : Followed(q, p) => Followed(t, p)
         /\ \A d : Ends(t, d) >= Ends(q, d)
         /\ \A d, n : \A r \in Records : After(q, d, n, r) => After(t, d, n, r)
<1>1. PICK rs \in Seq(Records) : t = q \o rs /\ \A r : Contains(rs, r) => r.kind \in kinds
  BY DEF Grown
<1>2. t \in Seq(Records)
  BY <1>1, ConcatProperties
<1>3. \A r : Contains(t, r) <=> Contains(q, r) \/ Contains(rs, r)
  BY <1>1, ContainsConcat
<1>4. ASSUME "removed" \notin kinds, NEW p, Followed(q, p) PROVE Followed(t, p)
  <2>1. ~Contains(rs, Record("removed", p))
    BY <1>1, <1>4 DEF Record
  <2> QED BY <1>1, <1>4, <2>1, FollowedConcat
<1>5. ASSUME NEW d PROVE Ends(t, d) >= Ends(q, d)
  <2>1. Ends(t, d) = Ends(q, d) + Ends(rs, d)
    BY <1>1, CountConcat DEF Ends
  <2>2. Ends(q, d) \in Nat /\ Ends(rs, d) \in Nat
    BY EndsNat
  <2> QED BY <2>1, <2>2
<1>6. ASSUME NEW d, NEW n, NEW r \in Records, After(q, d, n, r) PROVE After(t, d, n, r)
  BY <1>1, <1>6, AfterConcat
<1> QED BY <1>1, <1>2, <1>3, <1>4, <1>5, <1>6

LEMMA RmWatchesGrows ==
  ASSUME ~Lossy, NEW k \in Kernels, NEW ds \in SUBSET Descriptors
  PROVE  Grown(k.queue, RmWatches(k, ds).queue, {"ignored"})
<1> DEFINE live == {d \in ds : k.watch[d] # None}
           seq == SetToSeq(live)
           N == Cardinality(live)
           rs == [n \in 1..N |-> Record("ignored", seq[n])]
           j == [k EXCEPT !.watch = [d \in Descriptors |-> IF d \in live THEN None ELSE @[d]]]
<1>1. RmWatches(k, ds) = Reported(j, rs)
  BY DEF RmWatches
<1>2. IsFiniteSet(live)
  BY FS_Subset, KernelAssumption
<1>3. N \in Nat /\ seq \in [1..N -> live]
  BY <1>2, SetAsSeq
<1> HIDE DEF N, seq
<1>4. rs \in Seq(Records) /\ Len(rs) = N
  <2>1. \A n \in 1..N : rs[n] \in Records
    BY <1>3 DEF Record, Records
  <2> QED BY <1>3, <2>1
<1>5. \A r : Contains(rs, r) => r.kind \in {"ignored"}
  <2>1. \A n \in 1..N : rs[n].kind = "ignored"
    BY DEF Record
  <2> HIDE DEF rs
  <2> QED BY <1>4, <2>1 DEF Contains
<1>6. j \in Kernels /\ j.queue = k.queue
  BY DEF Kernels
<1>7. Reported(j, rs).queue = j.queue \o rs
  <2> HIDE DEF j, rs
  <2> QED
    <3>1. Reported(j, rs) = [j EXCEPT !.queue = j.queue \o rs]
      BY DEF Reported
    <3> QED BY <1>6, <3>1 DEF Kernels
<1> HIDE DEF rs, j
<1> QED BY <1>1, <1>4, <1>5, <1>6, <1>7 DEF Grown

----------------------------------------------------------------------------
(* What the watches of the registry are worth.                             *)

\* The watch is gone, and whatever is at its directory's path again is announced
\* after the record of its end.
Ended(f, w, k, d) ==
  /\ k.watch[d] = None
  /\ \A p \in Paths : f[p] = w.watches[d].identity =>
       After(k.queue, d, Awaits(w, d) + 1, Record("created", p))

\* A registered watch is on its directory as long as it lives; it is not told to
\* expect its end, nor will it be, before it has come.
Tied(f, w, k, d) ==
  /\ k.watch[d] \in {None, w.watches[d].identity}
  /\ w.watches[d].expects \/ Contains(k.queue, Record("deleteself", d)) => Ended(f, w, k, d)

\* The ends of a descriptor under quarantine are queued, too.
Owed(w, k, d) == Ends(k.queue, d) >= Awaits(w, d) + Gone(w, k, {}, d)

Sound(f, w, k) ==
  /\ \A p \in Paths : f[p] # None => Followed(k.queue, p)
  /\ \A d \in Present(w) : Tied(f, w, k, d)
  /\ \A d \in w.exhausted : Owed(w, k, d)

\* A watched path is where its watch is, or its removal is still to be read.
Located(f, q, w, x) ==
  w.watched[x] # None /\ x[1] \in Active(w) =>
    \/ f[x[2]] = w.watches[w.watched[x]].identity
    \/ Contains(q, Record("removed", x[2]))

LEMMA WatchKept ==
  ASSUME NEW f, NEW w, NEW v, NEW k \in Kernels, NEW t, NEW d \in Descriptors,
         Grown(k.queue, t.queue, {"ignored"}), t.watch[d] \in {None, k.watch[d]},
         v.watches[d].identity = w.watches[d].identity,
         v.watches[d].expects = w.watches[d].expects,
         Awaits(v, d) = Awaits(w, d), Tied(f, w, k, d)
  PROVE  Tied(f, v, t, d)
<1>1. k.queue \in Seq(Records)
  BY DEF Kernels
<1>2. /\ Contains(t.queue, Record("deleteself", d)) => Contains(k.queue, Record("deleteself", d))
      /\ \A n : \A r \in Records : After(k.queue, d, n, r) => After(t.queue, d, n, r)
  BY <1>1, GrownKeeps DEF Record
<1>3. \A p \in Paths : Record("created", p) \in Records
  BY DEF Record, Records
<1> QED BY <1>2, <1>3 DEF Tied, Ended

LEMMA OwedKept ==
  ASSUME NEW w, NEW v, NEW k \in Kernels, NEW t, NEW d \in Descriptors,
         Grown(k.queue, t.queue, {"ignored"}), t.watch[d] = k.watch[d],
         d \in Present(v) <=> d \in Present(w),
         Awaits(v, d) = Awaits(w, d), Awaits(w, d) \in Nat, Owed(w, k, d)
  PROVE  Owed(v, t, d)
<1>1. k.queue \in Seq(Records)
  BY DEF Kernels
<1>2. Ends(t.queue, d) >= Ends(k.queue, d) /\ t.queue \in Seq(Records)
  BY <1>1, GrownKeeps
<1>3. Gone(v, t, {}, d) = Gone(w, k, {}, d) /\ Gone(w, k, {}, d) \in {0, 1}
  BY DEF Gone
<1>4. Ends(t.queue, d) \in Nat /\ Ends(k.queue, d) \in Nat
  BY <1>1, <1>2, EndsNat
<1> QED BY <1>2, <1>3, <1>4 DEF Owed

LEMMA PathsFollowed ==
  ASSUME NEW f, NEW k \in Kernels, NEW t, Grown(k.queue, t.queue, {"ignored"}),
         \A p \in Paths : f[p] # None => Followed(k.queue, p)
  PROVE  \A p \in Paths : f[p] # None => Followed(t.queue, p)
<1>1. k.queue \in Seq(Records)
  BY DEF Kernels
<1> QED BY <1>1, GrownKeeps

\* The registry may change otherwise as it likes.
LEMMA SameWatchesSound ==
  ASSUME NEW f, NEW w, Registry(w), NEW v, NEW k \in Kernels, Sound(f, w, k),
         Present(v) = Present(w), v.retired = w.retired, v.exhausted = w.exhausted,
         \A d \in Present(w) : /\ v.watches[d].identity = w.watches[d].identity
                               /\ v.watches[d].expects = w.watches[d].expects
  PROVE  Sound(f, v, k)
<1>1. k.queue \in Seq(Records)
  BY DEF Kernels
<1>2. Grown(k.queue, k.queue, {"ignored"})
  BY <1>1, GrownSelf
<1>3. \A d \in Descriptors : Awaits(v, d) = Awaits(w, d) /\ Awaits(w, d) \in Nat
  BY AwaitsNat DEF Awaits
<1>4. Present(w) \subseteq Descriptors /\ w.exhausted \subseteq Descriptors
  BY DEF Present, Registry, Workers
<1>5. ASSUME NEW d \in Present(v) PROVE Tied(f, v, k, d)
  BY <1>2, <1>3, <1>4, WatchKept DEF Sound
<1>6. ASSUME NEW d \in v.exhausted PROVE Owed(v, k, d)
  BY <1>2, <1>3, <1>4, OwedKept DEF Sound
<1> QED BY <1>5, <1>6 DEF Sound

\* The ends that are queued, of descriptors under quarantine or not.
LEMMA EndsDue ==
  ASSUME ~Lossy, NEW w, Registry(w), NEW k, NEW adding, Follows(w, k, adding),
         NEW f, Sound(f, w, k), NEW d \in Descriptors
  PROVE  Ends(k.queue, d) >= Awaits(w, d) + Gone(w, k, {}, d)
<1>1. CASE d \in w.exhausted
  BY <1>1 DEF Sound, Owed
<1>2. CASE d \notin w.exhausted
  <2>1. Ends(k.queue, d) = Awaits(w, d) + Gone(w, k, adding, d)
    BY <1>2 DEF Follows
  <2>2. Gone(w, k, adding, d) >= Gone(w, k, {}, d)
    BY DEF Gone
  <2>3. Awaits(w, d) \in Nat /\ Gone(w, k, adding, d) \in {0, 1} /\ Gone(w, k, {}, d) \in {0, 1}
    BY AwaitsNat
  <2> QED BY <2>1, <2>2, <2>3
<1> QED BY <1>1, <1>2

\* One more end is awaited of each watch that a removal empties.
LEMMA RetiredAwaits ==
  ASSUME NEW w, Registry(w), NEW gone \in SUBSET Interests, NEW d \in Descriptors
  PROVE  Awaits(RemoveInterests(w, gone), d)
           = Awaits(w, d) + IF d \in Emptied(w, gone) THEN 1 ELSE 0
<1> DEFINE v == RemoveInterests(w, gone)
           last == Emptied(w, gone)
           r == w.retired[d]
           l == w.watches[d].lifetime
<1>1. /\ last \subseteq Present(w)
      /\ v.retired[d] = IF d \in last THEN Retired(r, l) ELSE r
  <2>1. /\ last \subseteq Present(w)
        /\ \A e \in Descriptors :
             /\ v.watches[e] = IF e \in last THEN Absent
                  ELSE [w.watches[e] EXCEPT !.interests = @ \ Touched(w, gone, e)]
             /\ v.retired[e] = IF e \in last THEN Retired(w.retired[e], w.watches[e].lifetime)
                               ELSE w.retired[e]
    BY RemoveInterestsFields
  <2> HIDE DEF v, last
  <2> QED BY <2>1
<1>2. Awaits(w, d) \in Nat
  BY AwaitsNat
<1> HIDE DEF v, last
<1>3. CASE d \in last
  <2>1. d \in Present(w) /\ v.retired[d] = Retired(r, l)
    BY <1>1, <1>3
  <2>2. r \in Ranges /\ l \in Nat /\ l >= 1
    BY <2>1, LimitsAssumption DEF Watches, Entered, Registry, Workers
  <2>3. /\ r # NoRange => l = r.last + 1
        /\ r # NoRange => 1 <= r.first /\ r.first <= r.last
    BY <2>1 DEF Entered, Ranged, Registry
  <2>4. r.first \in Int /\ r.last \in Int
    BY <2>2, LimitsAssumption DEF Ranges
  <2> HIDE DEF l
  <2>5. CASE r = NoRange
    <3>1. v.retired[d] = [first |-> l, last |-> l]
      BY <2>1, <2>5 DEF Retired
    <3>2. v.retired[d] # NoRange
      BY <2>2, <3>1 DEF NoRange
    <3> QED BY <1>3, <2>2, <2>5, <3>1, <3>2 DEF Awaits, v, last
  <2>6. CASE r # NoRange
    <3>1. v.retired[d] = [r EXCEPT !.last = l]
      BY <2>1, <2>3, <2>6 DEF Retired
    <3>2. v.retired[d].first = r.first /\ v.retired[d].last = l
      BY <2>2, <3>1 DEF Ranges
    <3>3. v.retired[d] # NoRange
      BY <2>2, <3>2 DEF NoRange
    <3> QED BY <1>3, <2>2, <2>3, <2>4, <2>6, <3>2, <3>3 DEF Awaits, v, last
  <2> QED BY <2>5, <2>6
<1>4. CASE d \notin last
  <2>1. Awaits(v, d) = Awaits(w, d)
    BY <1>1, <1>4 DEF Awaits
  <2> QED BY <1>2, <1>4, <2>1 DEF v, last
<1> QED BY <1>3, <1>4

\* A removal and its inotify_rm_watch calls leave the other watches what they were.
LEMMA SoundRemoval ==
  ASSUME ~Lossy, NEW f, NEW w, Registry(w), NEW gone \in SUBSET Interests,
         NEW k, Follows(w, k, {}), Sound(f, w, k), NEW v, Alike(RemoveInterests(w, gone), v)
  PROVE  /\ Sound(f, v, RmWatches(k, Released(w, v)))
         /\ Grown(k.queue, RmWatches(k, Released(w, v)).queue, {"ignored"})
         /\ \A x \in Interests :
              x \in gone \/ Located(f, k.queue, w, x)
                => Located(f, RmWatches(k, Released(w, v)).queue, v, x)
<1> DEFINE u == RemoveInterests(w, gone)
           last == Emptied(w, gone)
           t == RmWatches(k, last)
<1> HIDE DEF t
<1>1. /\ last \subseteq Present(w)
      /\ \A d \in Descriptors :
           u.watches[d] = IF d \in last THEN Absent
                          ELSE [w.watches[d] EXCEPT !.interests = @ \ Touched(w, gone, d)]
      /\ \A x \in Interests : u.watched[x] = IF x \in gone THEN None ELSE w.watched[x]
      /\ u.exhausted = w.exhausted /\ u.disposing = w.disposing
  BY RemoveInterestsFields
<1>2. Registry(u) /\ Present(u) = Present(w) \ last /\ Released(w, u) = last
  BY RemoveInterestsRegistry, RemoveInterestsPresent
<1>3. \A d \in Descriptors : Awaits(u, d) = Awaits(w, d) + IF d \in last THEN 1 ELSE 0
  BY RetiredAwaits
<1> HIDE DEF u, last
<1>4. /\ SameTable(u, v) /\ Present(v) = Present(u) /\ Active(v) = Active(w)
  BY <1>1, <1>2, AlikeRegistry DEF Alike, u, Active
<1>5. Released(w, v) = last
  BY <1>2, <1>4 DEF Released
<1>6. last \in SUBSET Descriptors /\ k \in Kernels /\ k.queue \in Seq(Records)
  BY <1>1 DEF Present, Follows, Kernels
<1>7. /\ \A d \in Descriptors : t.watch[d] = IF d \in last THEN None ELSE k.watch[d]
      /\ Queued(k, t, {d \in last : k.watch[d] # None})
      /\ Grown(k.queue, t.queue, {"ignored"})
  <2>1. /\ Queued(k, t, {d \in last : k.watch[d] # None})
        /\ t.watch = [d \in Descriptors |-> IF d \in last THEN None ELSE k.watch[d]]
    BY <1>6, RmWatchesQueues DEF t
  <2>2. Grown(k.queue, t.queue, {"ignored"})
    BY <1>6, RmWatchesGrows DEF t
  <2> QED BY <2>1, <2>2
<1>8. \A d \in Descriptors : Awaits(v, d) = Awaits(u, d) /\ Awaits(w, d) \in Nat
  BY <1>4, AwaitsNat DEF Awaits, SameTable
<1>9. ASSUME NEW d \in Descriptors \ last
      PROVE  /\ v.watches[d].identity = w.watches[d].identity
             /\ v.watches[d].expects = w.watches[d].expects
  <2>1. v.watches[d] = [w.watches[d] EXCEPT !.interests = @ \ Touched(w, gone, d)]
    BY <1>1, <1>4 DEF SameTable
  <2>2. w.watches[d] \in Watches
    BY DEF Registry, Workers
  <2> QED BY <2>1, <2>2 DEF Watches
<1>10. ASSUME NEW d \in Present(v) PROVE Tied(f, v, t, d)
  <2>1. d \in Descriptors \ last /\ d \in Present(w)
    BY <1>2, <1>4 DEF Present
  <2>2. t.watch[d] \in {None, k.watch[d]} /\ Awaits(v, d) = Awaits(w, d)
    BY <1>3, <1>7, <1>8, <2>1
  <2> QED BY <1>6, <1>7, <1>9, <2>1, <2>2, WatchKept DEF Sound
<1>11. ASSUME NEW d \in v.exhausted PROVE Owed(v, t, d)
  <2>1. d \in w.exhausted /\ d \in Descriptors /\ k.watch[d] = None
    BY <1>1, <1>4 DEF SameTable, Registry, Workers, Follows
  <2>2. Owed(w, k, d)
    BY <2>1 DEF Sound
  <2>3. CASE d \in last
    <3>1. Gone(w, k, {}, d) = 1 /\ Gone(v, t, {}, d) = 0
      BY <1>1, <1>2, <1>4, <2>1, <2>3 DEF Gone
    <3>2. Ends(t.queue, d) >= Ends(k.queue, d) /\ t.queue \in Seq(Records)
      BY <1>6, <1>7, GrownKeeps
    <3>3. Ends(t.queue, d) \in Nat /\ Ends(k.queue, d) \in Nat
      BY <1>6, <3>2, EndsNat
    <3> QED BY <1>3, <1>8, <2>1, <2>2, <2>3, <3>1, <3>2, <3>3 DEF Owed
  <2>4. CASE d \notin last
    <3>1. Awaits(v, d) = Awaits(w, d) /\ t.watch[d] = k.watch[d] /\ (d \in Present(v) <=> d \in Present(w))
      BY <1>2, <1>3, <1>4, <1>7, <1>8, <2>1, <2>4
    <3> QED BY <1>6, <1>7, <1>8, <2>1, <2>2, <3>1, OwedKept
  <2> QED BY <2>3, <2>4
<1>12. Sound(f, v, t)
  BY <1>6, <1>7, <1>10, <1>11, PathsFollowed DEF Sound
<1>13. ASSUME NEW x \in Interests, x \in gone \/ Located(f, k.queue, w, x)
       PROVE  Located(f, t.queue, v, x)
  <2>1. SUFFICES ASSUME v.watched[x] # None, x[1] \in Active(w)
                 PROVE  \/ f[x[2]] = v.watches[v.watched[x]].identity
                        \/ Contains(t.queue, Record("removed", x[2]))
    BY <1>4 DEF Located
  <2> DEFINE d == w.watched[x]
  <2>2. x \notin gone /\ v.watched[x] = d /\ d # None
    BY <1>1, <1>4, <2>1 DEF SameTable
  <2>3. d \in Descriptors
    BY <2>2 DEF Registry, Workers
  <2>4. d \notin last
    <3>1. Linked(v) /\ Registry(v)
      BY <1>2, AlikeRegistry DEF u, Registry
    <3>2. x \in v.watches[d].interests
      BY <1>4, <2>1, <2>2, <2>3, <3>1 DEF Linked
    <3>3. d \in last => v.watches[d] = Absent
      BY <1>1, <1>4, <2>3 DEF SameTable
    <3> QED BY <3>2, <3>3, AbsentFields
  <2>5. v.watches[d].identity = w.watches[d].identity
    BY <1>9, <2>3, <2>4
  <2>6. \A r : Contains(k.queue, r) => Contains(t.queue, r)
    BY <1>6, <1>7, GrownKeeps
  <2> HIDE DEF d
  <2> QED BY <1>13, <2>1, <2>2, <2>5, <2>6 DEF Located, d
<1> QED BY <1>5, <1>7, <1>12, <1>13 DEF t

----------------------------------------------------------------------------
(* The records that are read.                                              *)

\* The record at the head is read: one end less is queued and awaited.
LEMMA TiedTail ==
  ASSUME NEW f, NEW w, NEW v, NEW k \in Kernels, k.queue # <<>>, NEW d \in Descriptors,
         Awaits(w, d) \in Nat, Awaits(v, d) \in Nat,
         Awaits(v, d) = Awaits(w, d) - IF Head(k.queue) = Record("ignored", d) THEN 1 ELSE 0,
         v.watches[d].identity = w.watches[d].identity,
         v.watches[d].expects =>
           w.watches[d].expects \/ Contains(k.queue, Record("deleteself", d)),
         Tied(f, w, k, d)
  PROVE  Tied(f, v, [k EXCEPT !.queue = Tail(@)], d)
<1> DEFINE t == [k EXCEPT !.queue = Tail(@)]
<1>1. t.watch = k.watch /\ t.queue = Tail(k.queue)
  BY TailKernel
<1> HIDE DEF t
<1>2. k.queue \in Seq(Records)
  BY DEF Kernels
<1>3. Contains(t.queue, Record("deleteself", d)) => Contains(k.queue, Record("deleteself", d))
  BY <1>1, <1>2, ContainsTail
<1>4. ASSUME Ended(f, w, k, d) PROVE Ended(f, v, t, d)
  <2>1. ASSUME NEW p \in Paths, f[p] = v.watches[d].identity
        PROVE  After(t.queue, d, Awaits(v, d) + 1, Record("created", p))
    <3> DEFINE r == Record("created", p)
               n == Awaits(w, d) + 1
    <3>1. r \in Records /\ n \in Nat /\ n >= 1
      BY DEF Record, Records
    <3>2. After(k.queue, d, n, r)
      BY <1>4, <2>1 DEF Ended
    <3>3. n - (IF Head(k.queue) = Record("ignored", d) THEN 1 ELSE 0) = Awaits(v, d) + 1
      OBVIOUS
    <3> HIDE DEF r, n
    <3>4. After(Tail(k.queue), d, n - (IF Head(k.queue) = Record("ignored", d) THEN 1 ELSE 0), r)
      BY <1>2, <3>1, <3>2, AfterTail
    <3> QED BY <1>1, <3>3, <3>4 DEF r
  <2> QED BY <1>1, <1>4, <2>1 DEF Ended
<1>5. Tied(f, v, t, d)
  BY <1>1, <1>3, <1>4 DEF Tied
<1> QED BY <1>5 DEF t

\* A record that ends no watch is read.
LEMMA SoundTail ==
  ASSUME NEW f, NEW w, Registry(w), NEW v, NEW k \in Kernels, k.queue # <<>>,
         Head(k.queue).kind # "ignored", Sound(f, w, k),
         Present(v) = Present(w), v.retired = w.retired, v.exhausted = w.exhausted,
         \A d \in Present(w) :
           /\ v.watches[d].identity = w.watches[d].identity
           /\ v.watches[d].expects =>
                w.watches[d].expects \/ Contains(k.queue, Record("deleteself", d))
  PROVE  Sound(f, v, [k EXCEPT !.queue = Tail(@)])
<1> DEFINE t == [k EXCEPT !.queue = Tail(@)]
<1>1. /\ t.watch = k.watch /\ t.queue = Tail(k.queue)
      /\ \A d \in Descriptors : Ends(t.queue, d) =
           Ends(k.queue, d) - IF Head(k.queue) = Record("ignored", d) THEN 1 ELSE 0
  BY TailKernel
<1>2. k.queue \in Seq(Records)
  BY DEF Kernels
<1>3. \A d : Head(k.queue) # Record("ignored", d)
  BY DEF Record
<1>4. \A d \in Descriptors : /\ Awaits(v, d) = Awaits(w, d) /\ Awaits(w, d) \in Nat
                             /\ Gone(v, t, {}, d) = Gone(w, k, {}, d)
  BY <1>1, AwaitsNat DEF Awaits, Gone
<1>5. Present(w) \subseteq Descriptors /\ w.exhausted \subseteq Descriptors
  BY DEF Present, Registry, Workers
<1>6. ASSUME NEW d \in Present(v) PROVE Tied(f, v, t, d)
  BY <1>3, <1>4, <1>5, TiedTail DEF Sound
<1> HIDE DEF t
<1>7. ASSUME NEW d \in v.exhausted PROVE Owed(v, t, d)
  <2>1. Ends(k.queue, d) \in Nat /\ d \in Descriptors /\ Owed(w, k, d)
    BY <1>2, <1>5, EndsNat DEF Sound
  <2>2. Ends(t.queue, d) = Ends(k.queue, d)
    BY <1>1, <1>3, <2>1
  <2> QED BY <1>4, <2>1, <2>2 DEF Owed
<1>8. ASSUME NEW p \in Paths, f[p] # None PROVE Followed(t.queue, p)
  BY <1>1, <1>2, <1>8, FollowedTail DEF Sound
<1>9. Sound(f, v, t)
  BY <1>6, <1>7, <1>8 DEF Sound
<1> QED BY <1>9 DEF t

\* Who loses a watch without warning is uncertain from then on.
LEMMA LostFields ==
  ASSUME NEW w, Registry(w), NEW d \in Present(w)
  PROVE  LET v == Lost(w, d)
             held == {x \in w.watches[d].interests : x[1] \in Active(w)}
         IN  /\ \A e \in Descriptors : e # d => v.watches[e] = w.watches[e]
             /\ \A x \in Interests : v.watched[x] = IF x \in held THEN None ELSE w.watched[x]
             /\ v.deferred = w.deferred /\ v.jobs = w.jobs /\ v.found = w.found
             /\ v.recon = w.recon /\ v.disposing = w.disposing
             /\ w.uncertain \subseteq v.uncertain /\ v.quiet \subseteq w.quiet
             /\ ~w.watches[d].expects =>
                  \A x \in held : x[1] \in v.uncertain /\ x[1] \notin v.quiet
<1> DEFINE held == {x \in w.watches[d].interests : x[1] \in Active(w)}
           ss == {x[1] : x \in held}
           WT == [w.watches EXCEPT ![d] = Absent]
           IX == [i \in Inodes |-> IF w.index[i] = d THEN None ELSE w.index[i]]
           WD == [x \in Interests |-> IF x \in held THEN None ELSE w.watched[x]]
           u == [w EXCEPT !.watches = WT, !.index = IX, !.watched = WD]
           m == MarkUncertain(u, ss)
<1>1. w \in Workers
  BY DEF Registry
<1>2. Lost(w, d) = IF w.watches[d].expects THEN u ELSE m
  BY DEF Lost
<1>3. /\ \A e \in Descriptors : e # d => WT[e] = w.watches[e]
      /\ \A x \in Interests : WD[x] = IF x \in held THEN None ELSE w.watched[x]
  BY <1>1 DEF Workers
<1> HIDE DEF WT, IX, WD, held
<1>4. /\ u.watches = WT /\ u.watched = WD /\ u.deferred = w.deferred /\ u.jobs = w.jobs
      /\ u.found = w.found /\ u.recon = w.recon /\ u.disposing = w.disposing
      /\ u.uncertain = w.uncertain /\ u.quiet = w.quiet
      /\ DOMAIN u = DOMAIN w
  BY <1>1 DEF Workers
<1> HIDE DEF u
<1>5. /\ m.watches = WT /\ m.watched = WD /\ m.deferred = w.deferred /\ m.jobs = w.jobs
      /\ m.found = w.found /\ m.recon = w.recon /\ m.disposing = w.disposing
      /\ m.uncertain = w.uncertain \union ss /\ m.quiet = w.quiet \ ss
  BY <1>1, <1>4 DEF MarkUncertain, Workers
<1>6. \A x \in held : x[1] \in ss
  OBVIOUS
<1> HIDE DEF m, ss
<1>7. CASE w.watches[d].expects
  BY <1>2, <1>3, <1>4, <1>7 DEF held
<1>8. CASE ~w.watches[d].expects
  BY <1>2, <1>3, <1>5, <1>6, <1>8 DEF held
<1> QED BY <1>7, <1>8

LEMMA ConsumeExpectedFields ==
  ASSUME NEW w, w \in Workers, NEW d \in Descriptors
  PROVE  LET v == ConsumeExpected(w, d)
         IN  /\ v.watches = w.watches /\ v.watched = w.watched
             /\ v.deferred = w.deferred /\ v.jobs = w.jobs /\ v.found = w.found
             /\ v.recon = w.recon /\ v.disposing = w.disposing
             /\ v.uncertain = w.uncertain /\ v.quiet = w.quiet
<1> DEFINE r == w.retired[d]
           n == IF r.first = r.last THEN NoRange ELSE [r EXCEPT !.first = r.first + 1]
           RT == [w.retired EXCEPT ![d] = n]
           v == ConsumeExpected(w, d)
<1>1. v = [w EXCEPT !.retired = RT]
  BY DEF ConsumeExpected
<1> HIDE DEF RT, v
<1>2. /\ v.watches = w.watches /\ v.watched = w.watched
      /\ v.deferred = w.deferred /\ v.jobs = w.jobs /\ v.found = w.found
      /\ v.recon = w.recon /\ v.disposing = w.disposing
      /\ v.uncertain = w.uncertain /\ v.quiet = w.quiet
  BY <1>1 DEF Workers
<1> QED BY <1>2 DEF v

LEMMA SoundIgnored ==
  ASSUME NEW f, NEW w, Registry(w), NEW k, Follows(w, k, {}), k.queue # <<>>,
         NEW d \in Descriptors, Head(k.queue) = Record("ignored", d), Sound(f, w, k)
  PROVE  Sound(f, HandleIgnored(w, d), [k EXCEPT !.queue = Tail(@)])
<1> DEFINE v == HandleIgnored(w, d)
           t == [k EXCEPT !.queue = Tail(@)]
<1>1. k \in Kernels /\ k.queue \in Seq(Records)
  BY DEF Follows, Kernels
<1>2. /\ t.watch = k.watch /\ t.queue = Tail(k.queue) /\ t \in Kernels
      /\ \A e \in Descriptors : Ends(t.queue, e) =
           Ends(k.queue, e) - IF Head(k.queue) = Record("ignored", e) THEN 1 ELSE 0
  BY <1>1, TailKernel
<1>3. \A e \in Descriptors : Head(k.queue) = Record("ignored", e) <=> e = d
  BY DEF Record
<1>4. \A e \in Descriptors : Ends(k.queue, e) \in Nat /\ Ends(t.queue, e) \in Nat
  BY <1>1, <1>2, EndsNat DEF Kernels
<1>5. \A e \in Descriptors : Awaits(w, e) \in Nat /\ Gone(w, k, {}, e) \in {0, 1}
  BY AwaitsNat
<1>6. Present(w) \subseteq Descriptors /\ w.exhausted \subseteq Descriptors
  BY DEF Present, Registry, Workers
<1> HIDE DEF v
<1>7. CASE w.retired[d] # NoRange
  <2>1. v = ConsumeExpected(w, d)
    BY <1>7 DEF HandleIgnored, v
  <2>2. /\ Registry(v) /\ Present(v) = Present(w) /\ v.exhausted = w.exhausted
        /\ Awaits(v, d) = Awaits(w, d) - 1
        /\ \A e \in Descriptors : e # d => Awaits(v, e) = Awaits(w, e)
    BY <1>7, <2>1, ConsumeExpectedRegistry
  <2>3. v.watches = w.watches
    BY <2>1, ConsumeExpectedFields DEF Registry
  <2>4. \A e \in Descriptors :
          /\ Awaits(v, e) \in Nat
          /\ Awaits(v, e) = Awaits(w, e) - IF Head(k.queue) = Record("ignored", e) THEN 1 ELSE 0
    BY <1>3, <1>5, <2>2, AwaitsNat
  <2>5. ASSUME NEW e \in Present(v) PROVE Tied(f, v, t, e)
    BY <1>1, <1>5, <1>6, <2>2, <2>3, <2>4, TiedTail DEF Sound
  <2>6. ASSUME NEW e \in v.exhausted PROVE Owed(v, t, e)
    <3>1. e \in Descriptors /\ Owed(w, k, e) /\ Gone(v, t, {}, e) = Gone(w, k, {}, e)
      BY <1>2, <1>6, <2>2 DEF Sound, Gone
    <3> HIDE DEF t
    <3> QED BY <1>2, <1>4, <1>5, <2>4, <3>1 DEF Owed
  <2> QED BY <2>5, <2>6, <1>1, <1>2, FollowedTail DEF Sound, v
<1>8. CASE w.retired[d] = NoRange /\ d \in Present(w)
  <2>1. v = Lost(w, d)
    BY <1>8 DEF HandleIgnored, v
  <2>2. /\ Registry(v) /\ Present(v) = Present(w) \ {d}
        /\ v.retired = w.retired /\ v.exhausted = w.exhausted
    BY <1>8, <2>1, LostRegistry
  <2>3. \A e \in Descriptors : e # d => v.watches[e] = w.watches[e]
    BY <1>8, <2>1, LostFields
  <2>4. \A e \in Descriptors : Awaits(v, e) = Awaits(w, e)
    BY <2>2 DEF Awaits
  <2>5. ASSUME NEW e \in Present(v) PROVE Tied(f, v, t, e)
    <3>1. e \in Descriptors /\ e # d /\ e \in Present(w)
      BY <1>6, <2>2
    <3>2. Awaits(v, e) = Awaits(w, e) - IF Head(k.queue) = Record("ignored", e) THEN 1 ELSE 0
      BY <1>3, <1>5, <2>4, <3>1
    <3> QED BY <1>1, <1>5, <2>3, <2>4, <3>1, <3>2, TiedTail DEF Sound
  <2>6. ASSUME NEW e \in v.exhausted PROVE Owed(v, t, e)
    <3>1. e \in Descriptors /\ Owed(w, k, e)
      BY <1>6, <2>2 DEF Sound
    <3> HIDE DEF t
    <3>2. CASE e = d
      <4>1. Awaits(v, e) = 0 /\ Gone(v, t, {}, e) = 0
        BY <1>8, <2>2, <2>4, <3>2 DEF Awaits, Gone
      <4> QED BY <1>4, <3>1, <4>1 DEF Owed
    <3>3. CASE e # d
      <4>1. Gone(v, t, {}, e) = Gone(w, k, {}, e) /\ Ends(t.queue, e) = Ends(k.queue, e)
        BY <1>2, <1>3, <1>4, <2>2, <3>1, <3>3 DEF Gone
      <4> QED BY <2>4, <3>1, <4>1 DEF Owed
    <3> QED BY <3>2, <3>3
  <2> QED BY <2>5, <2>6, <1>1, <1>2, FollowedTail DEF Sound, v
<1>9. CASE w.retired[d] = NoRange /\ d \notin Present(w)
  <2>1. v = w
    BY <1>9 DEF HandleIgnored, v
  <2>2. ASSUME NEW e \in Present(v) PROVE Tied(f, v, t, e)
    <3>1. Awaits(v, e) = Awaits(w, e) - IF Head(k.queue) = Record("ignored", e) THEN 1 ELSE 0
      BY <1>3, <1>5, <1>6, <1>9, <2>1
    <3> QED BY <1>1, <1>5, <1>6, <2>1, <3>1, TiedTail DEF Sound
  <2>3. ASSUME NEW e \in v.exhausted PROVE Owed(v, t, e)
    <3>1. e \in Descriptors /\ Owed(w, k, e) /\ Gone(v, t, {}, e) = Gone(w, k, {}, e)
      BY <1>2, <1>6, <2>1 DEF Sound, Gone
    <3> HIDE DEF t
    <3>2. CASE e = d
      <4>1. Awaits(v, e) = 0 /\ Gone(v, t, {}, e) = 0
        BY <1>9, <2>1, <3>2 DEF Awaits, Gone
      <4> QED BY <1>4, <3>1, <4>1 DEF Owed
    <3>3. CASE e # d
      <4>1. Ends(t.queue, e) = Ends(k.queue, e)
        BY <1>2, <1>3, <1>4, <3>1, <3>3
      <4> QED BY <2>1, <3>1, <4>1 DEF Owed
    <3> QED BY <3>2, <3>3
  <2> QED BY <2>2, <2>3, <1>1, <1>2, FollowedTail DEF Sound, v
<1> QED BY <1>7, <1>8, <1>9 DEF v, t

----------------------------------------------------------------------------
(* What every interest has.                                                *)

Announces(q, p) == Contains(q, Record("created", p))

\* What makes, or made, a watch of the path; a deferral is known to the promotion.
Covered(f, w, q, o, x) ==
  \/ f[x[2]] = None
  \/ w.watched[x] # None \/ w.deferred[x] # "no" \/ x \in w.jobs
  \/ Announces(q, x[2])
  \/ o.of = x /\ o.stage \in {"identified", "added"}

\* A path is covered, unless its subscription is given up, or uncertain for a reason
\* that no reconciliation under way can end.
Accounts(f, w, q, o, x) ==
  \/ x[1] \in w.disposing
  \/ x[1] \in w.uncertain /\ x[1] \notin w.quiet
  \/ Covered(f, w, q, o, x)

\* A path a reconciliation has not found will be opened for another reason.
Traversed(f, w, q, x) ==
  x[1] \in w.recon /\ x \notin w.found /\ f[x[2]] # None
    => x \in w.jobs \/ Announces(q, x[2])

Opened(w, o) == o.stage = "reading" => w.watched[o.of] # None

Covers(f, w, q, o) ==
  /\ \A x \in Interests : /\ Located(f, q, w, x)
                          /\ Accounts(f, w, q, o, x)
                          /\ Traversed(f, w, q, x)
  /\ Opened(w, o)

CoverInv ==
  /\ TableInv
  /\ Sound(fs, worker, kernel)
  /\ Covers(fs, worker, kernel.queue, opening)

\* A directory appears at a path, and its creation is queued.
LEMMA CreatedCovers ==
  ASSUME ~Lossy, NEW f \in [Paths -> Inodes \union {None}], NEW w, Registry(w), NEW k,
         NEW adding, Follows(w, k, adding), Sound(f, w, k), NEW o, Covers(f, w, k.queue, o),
         NEW p \in Paths, NEW i \in Inodes, f[p] = None,
         NEW t, t.watch = k.watch, t.queue = k.queue \o <<Record("created", p)>>
  PROVE  /\ Sound([f EXCEPT ![p] = i], w, t)
         /\ Covers([f EXCEPT ![p] = i], w, t.queue, o)
<1> DEFINE g == [f EXCEPT ![p] = i]
           r == Record("created", p)
<1>1. /\ \A q \in Paths : g[q] = IF q = p THEN i ELSE f[q]
      /\ None \notin Inodes
  BY KernelAssumption
<1> HIDE DEF g
<1>2. k.queue \in Seq(Records) /\ \A q \in Paths : Record("created", q) \in Records
  BY DEF Follows, Kernels, Record, Records
<1>3. Grown(k.queue, t.queue, {"created"})
  <2>1. <<r>> \in Seq(Records)
    BY <1>2
  <2>2. \A z : Contains(<<r>>, z) => z.kind \in {"created"}
    BY ContainsOne DEF Record
  <2> QED BY <2>1, <2>2 DEF Grown
<1>4. /\ t.queue \in Seq(Records)
      /\ \A z : Contains(k.queue, z) => Contains(t.queue, z)
      /\ \A z : Contains(t.queue, z) => Contains(k.queue, z) \/ z.kind \in {"created"}
      /\ \A q : Followed(k.queue, q) => Followed(t.queue, q)
      /\ \A d : Ends(t.queue, d) >= Ends(k.queue, d)
      /\ \A d, n : \A z \in Records : After(k.queue, d, n, z) => After(t.queue, d, n, z)
  BY <1>2, <1>3, GrownKeeps
<1>5. Contains(t.queue, r)
  <2>1. <<r>> \in Seq(Records) /\ Contains(<<r>>, r)
    BY <1>2, ContainsOne
  <2>2. t.queue = k.queue \o <<r>>
    OBVIOUS
  <2> DEFINE z == <<r>>
  <2> HIDE DEF r, z
  <2>3. Contains(k.queue \o z, r) <=> Contains(k.queue, r) \/ Contains(z, r)
    BY <1>2, <2>1, ContainsConcat DEF z
  <2> QED BY <2>1, <2>2, <2>3 DEF z
<1>6. ASSUME NEW q \in Paths, g[q] # None PROVE Followed(t.queue, q)
  BY <1>1, <1>2, <1>4, <1>6, FollowedLast DEF Sound
<1>7. Present(w) \subseteq Descriptors /\ w.exhausted \subseteq Descriptors
  BY DEF Present, Registry, Workers
<1>8. ASSUME NEW d \in Present(w) PROVE Tied(g, w, t, d)
  <2>1. Tied(f, w, k, d) /\ d \in Descriptors
    BY <1>7 DEF Sound
  <2>2. Contains(t.queue, Record("deleteself", d)) => Contains(k.queue, Record("deleteself", d))
    BY <1>4 DEF Record
  <2>3. ASSUME Ended(f, w, k, d) PROVE Ended(g, w, t, d)
    <3>1. t.watch[d] = None /\ Gone(w, k, {}, d) = 1
      BY <2>3 DEF Ended, Gone
    <3>2. ASSUME NEW q \in Paths, g[q] = w.watches[d].identity
          PROVE  After(t.queue, d, Awaits(w, d) + 1, Record("created", q))
      <4>1. CASE q = p
        <5>1. Ends(k.queue, d) >= Awaits(w, d) + 1
          BY <2>1, <3>1, EndsDue
        <5> QED BY <1>2, <4>1, <5>1, AfterAppended
      <4>2. CASE q # p
        BY <1>1, <1>2, <1>4, <2>3, <3>2, <4>2 DEF Ended
      <4> QED BY <4>1, <4>2
    <3> QED BY <3>1, <3>2 DEF Ended
  <2> QED BY <2>1, <2>2, <2>3 DEF Tied
<1>9. ASSUME NEW d \in w.exhausted PROVE Owed(w, t, d)
  <2>1. Owed(w, k, d) /\ Ends(t.queue, d) >= Ends(k.queue, d)
    BY <1>4 DEF Sound
  <2>2. Gone(w, t, {}, d) = Gone(w, k, {}, d)
    BY DEF Gone
  <2>3. Awaits(w, d) \in Nat /\ Gone(w, k, {}, d) \in {0, 1}
    BY <1>7, AwaitsNat
  <2>4. Ends(t.queue, d) \in Nat /\ Ends(k.queue, d) \in Nat
    BY <1>2, <1>4, EndsNat
  <2> QED BY <2>1, <2>2, <2>3, <2>4 DEF Owed
<1>10. Sound(g, w, t)
  BY <1>6, <1>8, <1>9 DEF Sound
<1>11. ASSUME NEW x \in Interests
       PROVE  Located(g, t.queue, w, x) /\ Accounts(g, w, t.queue, o, x) /\ Traversed(g, w, t.queue, x)
  <2>1. x[2] \in Paths
    BY InterestParts
  <2>2. Located(f, k.queue, w, x) /\ Accounts(f, w, k.queue, o, x) /\ Traversed(f, w, k.queue, x)
    BY DEF Covers
  <2>3. Announces(k.queue, x[2]) => Announces(t.queue, x[2])
    BY <1>4 DEF Announces
  <2>4. x[2] = p => Announces(t.queue, x[2])
    BY <1>5 DEF Announces
  <2>5. Located(g, t.queue, w, x)
    <3>1. SUFFICES ASSUME w.watched[x] # None, x[1] \in Active(w)
                   PROVE  \/ g[x[2]] = w.watches[w.watched[x]].identity
                          \/ Contains(t.queue, Record("removed", x[2]))
      BY DEF Located
    <3>2. f[x[2]] = w.watches[w.watched[x]].identity \/ Contains(k.queue, Record("removed", x[2]))
      BY <2>2, <3>1 DEF Located
    <3>3. w.watches[w.watched[x]].identity # None
      <4>1. w.watched[x] \in Descriptors
        BY <3>1 DEF Registry, Workers
      <4>2. x \in w.watches[w.watched[x]].interests
        BY <3>1, <4>1 DEF Registry, Linked
      <4>3. w.watched[x] \in Present(w)
        BY <4>1, <4>2, AbsentFields DEF Present
      <4> QED BY <4>1, <4>3, NotPresent
    <3> QED BY <1>1, <1>4, <2>1, <3>2, <3>3
  <2>6. Accounts(g, w, t.queue, o, x)
    BY <1>1, <2>1, <2>2, <2>3, <2>4 DEF Accounts, Covered
  <2>7. Traversed(g, w, t.queue, x)
    BY <1>1, <2>1, <2>2, <2>3, <2>4 DEF Traversed
  <2> QED BY <2>5, <2>6, <2>7
<1>12. Covers(g, w, t.queue, o)
  BY <1>11 DEF Covers
<1> QED BY <1>10, <1>12 DEF g

\* A directory leaves its path, and the removal is queued.
LEMMA RemovedCovers ==
  ASSUME NEW f \in [Paths -> Inodes \union {None}], NEW w, Registry(w), NEW k \in Kernels,
         Sound(f, w, k), NEW o, Covers(f, w, k.queue, o), NEW p \in Paths,
         NEW t, t.watch = k.watch, t.queue = k.queue \o <<Record("removed", p)>>
  PROVE  /\ Sound([f EXCEPT ![p] = None], w, t)
         /\ Covers([f EXCEPT ![p] = None], w, t.queue, o)
<1> DEFINE g == [f EXCEPT ![p] = None]
           r == Record("removed", p)
<1>1. /\ \A q \in Paths : g[q] = IF q = p THEN None ELSE f[q]
  OBVIOUS
<1> HIDE DEF g
<1>2. k.queue \in Seq(Records) /\ r \in Records /\ \A q \in Paths : Record("created", q) \in Records
  BY DEF Kernels, Record, Records
<1>3. Grown(k.queue, t.queue, {"removed"})
  <2>1. <<r>> \in Seq(Records)
    BY <1>2
  <2>2. \A z : Contains(<<r>>, z) => z.kind \in {"removed"}
    BY ContainsOne DEF Record
  <2> QED BY <2>1, <2>2 DEF Grown
<1>4. /\ t.queue \in Seq(Records)
      /\ \A z : Contains(k.queue, z) => Contains(t.queue, z)
      /\ \A z : Contains(t.queue, z) => Contains(k.queue, z) \/ z.kind \in {"removed"}
      /\ \A d : Ends(t.queue, d) >= Ends(k.queue, d)
      /\ \A d, n : \A z \in Records : After(k.queue, d, n, z) => After(t.queue, d, n, z)
  BY <1>2, <1>3, GrownKeeps
<1>5. Contains(t.queue, r)
  <2>1. <<r>> \in Seq(Records) /\ Contains(<<r>>, r)
    BY <1>2, ContainsOne
  <2>2. t.queue = k.queue \o <<r>>
    OBVIOUS
  <2> DEFINE z == <<r>>
  <2> HIDE DEF r, z
  <2>3. Contains(k.queue \o z, r) <=> Contains(k.queue, r) \/ Contains(z, r)
    BY <1>2, <2>1, ContainsConcat DEF z
  <2> QED BY <2>1, <2>2, <2>3 DEF z
<1>6. ASSUME NEW q \in Paths, g[q] # None PROVE Followed(t.queue, q)
  <2>1. q # p /\ Followed(k.queue, q)
    BY <1>1, <1>6 DEF Sound
  <2>2. <<r>> \in Seq(Records) /\ ~Contains(<<r>>, Record("removed", q))
    BY <1>2, <2>1, ContainsOne DEF Record
  <2> QED BY <1>2, <2>1, <2>2, FollowedConcat
<1>7. Present(w) \subseteq Descriptors /\ w.exhausted \subseteq Descriptors
  BY DEF Present, Registry, Workers
<1>8. ASSUME NEW d \in Present(w) PROVE Tied(g, w, t, d)
  <2>1. Tied(f, w, k, d) /\ w.watches[d].identity # None
    BY <1>7, NotPresent DEF Sound
  <2>2. Contains(t.queue, Record("deleteself", d)) => Contains(k.queue, Record("deleteself", d))
    BY <1>4 DEF Record
  <2>3. ASSUME Ended(f, w, k, d) PROVE Ended(g, w, t, d)
    BY <1>1, <1>2, <1>4, <2>1, <2>3 DEF Ended
  <2> QED BY <2>1, <2>2, <2>3 DEF Tied
<1>9. ASSUME NEW d \in w.exhausted PROVE Owed(w, t, d)
  <2>1. Owed(w, k, d) /\ Ends(t.queue, d) >= Ends(k.queue, d)
    BY <1>4 DEF Sound
  <2>2. Gone(w, t, {}, d) = Gone(w, k, {}, d)
    BY DEF Gone
  <2>3. Awaits(w, d) \in Nat /\ Gone(w, k, {}, d) \in {0, 1}
    BY <1>7, AwaitsNat
  <2>4. Ends(t.queue, d) \in Nat /\ Ends(k.queue, d) \in Nat
    BY <1>2, <1>4, EndsNat
  <2> QED BY <2>1, <2>2, <2>3, <2>4 DEF Owed
<1>10. Sound(g, w, t)
  BY <1>6, <1>8, <1>9 DEF Sound
<1>11. ASSUME NEW x \in Interests
       PROVE  Located(g, t.queue, w, x) /\ Accounts(g, w, t.queue, o, x) /\ Traversed(g, w, t.queue, x)
  <2>1. x[2] \in Paths
    BY InterestParts
  <2>2. Located(f, k.queue, w, x) /\ Accounts(f, w, k.queue, o, x) /\ Traversed(f, w, k.queue, x)
    BY DEF Covers
  <2>3. Announces(k.queue, x[2]) => Announces(t.queue, x[2])
    BY <1>4 DEF Announces
  <2>4. Located(g, t.queue, w, x)
    BY <1>1, <1>4, <1>5, <2>1, <2>2 DEF Located
  <2>5. Accounts(g, w, t.queue, o, x)
    BY <1>1, <2>1, <2>2, <2>3 DEF Accounts, Covered
  <2>6. Traversed(g, w, t.queue, x)
    BY <1>1, <2>1, <2>2, <2>3 DEF Traversed
  <2> QED BY <2>4, <2>5, <2>6
<1>12. Covers(g, w, t.queue, o)
  BY <1>11 DEF Covers
<1> QED BY <1>10, <1>12 DEF g

----------------------------------------------------------------------------
(* What the kernel's steps leave accounted for.                           *)

\* A kernel that drops nothing queues every record.
LEMMA ReportedInFull ==
  ASSUME ~Lossy, NEW k \in Kernels, NEW rs
  PROVE  /\ Reported(k, rs).watch = k.watch
         /\ Reported(k, rs).queue = k.queue \o rs
<1>1. Reported(k, rs) = [k EXCEPT !.queue = k.queue \o rs]
  BY DEF Reported
<1> QED BY <1>1 DEF Kernels

LEMMA CreateDirCovers ==
  ASSUME ~Lossy, CoverInv, NEW p \in Paths, NEW i \in Inodes, CreateDir(p, i)
  PROVE  CoverInv'
<1> DEFINE r == Record("created", p)
           t == Reported(kernel, <<r>>)
           g == [fs EXCEPT ![p] = i]
<1>1. /\ kernel' = t /\ fs' = g /\ fs[p] = None
      /\ worker' = worker /\ opening' = opening
  BY DEF CreateDir
<1>2. TableInv /\ TableInv'
  BY CreateDirTable DEF CoverInv
<1>3. /\ kernel \in Kernels /\ Registry(worker) /\ Follows(worker, kernel, Adding(opening))
      /\ fs \in [Paths -> Inodes \union {None}]
  BY <1>2 DEF TableInv, Follows
<1>4. t.watch = kernel.watch /\ t.queue = kernel.queue \o <<r>>
  BY <1>3, ReportedInFull
<1> HIDE DEF t
<1>5. Sound(g, worker, t) /\ Covers(g, worker, t.queue, opening)
  BY <1>1, <1>3, <1>4, CreatedCovers DEF CoverInv
<1> QED BY <1>1, <1>2, <1>5 DEF CoverInv

LEMMA RemoveDirCovers ==
  ASSUME ~Lossy, CoverInv, NEW p \in Paths, RemoveDir(p)
  PROVE  CoverInv'
<1> DEFINE r == Record("removed", p)
           t == Reported(kernel, <<r>>)
           g == [fs EXCEPT ![p] = None]
<1>1. /\ kernel' = t /\ fs' = g
      /\ worker' = worker /\ opening' = opening
  BY DEF RemoveDir
<1>2. TableInv /\ TableInv'
  BY RemoveDirTable DEF CoverInv
<1>3. /\ kernel \in Kernels /\ Registry(worker)
      /\ fs \in [Paths -> Inodes \union {None}]
  BY <1>2 DEF TableInv, Follows
<1>4. t.watch = kernel.watch /\ t.queue = kernel.queue \o <<r>>
  BY <1>3, ReportedInFull
<1> HIDE DEF t
<1>5. Sound(g, worker, t) /\ Covers(g, worker, t.queue, opening)
  BY <1>3, <1>4, RemovedCovers DEF CoverInv
<1> QED BY <1>1, <1>2, <1>5 DEF CoverInv

\* A move is a removal and a creation that nothing comes between.
LEMMA MoveDirCovers ==
  ASSUME ~Lossy, CoverInv, NEW p \in Paths, NEW q \in Paths, MoveDir(p, q)
  PROVE  CoverInv'
<1> DEFINE r == Record("removed", p)
           s == Record("created", q)
           t == Reported(kernel, <<r, s>>)
           u == Reported(kernel, <<r>>)
           g == [fs EXCEPT ![p] = None]
           h == [g EXCEPT ![q] = fs[p]]
<1>1. TableInv /\ TableInv'
  BY MoveDirTable DEF CoverInv
<1>2. /\ kernel \in Kernels /\ Registry(worker) /\ Follows(worker, kernel, Adding(opening))
      /\ fs \in [Paths -> Inodes \union {None}]
  BY <1>1 DEF TableInv, Follows
<1>3. /\ kernel' = t /\ fs' = h /\ g[q] = None /\ fs[p] \in Inodes
      /\ g \in [Paths -> Inodes \union {None}]
      /\ worker' = worker /\ opening' = opening
  BY <1>2 DEF MoveDir
<1>4. /\ r \in Records /\ s \in Records /\ r.kind # "ignored"
      /\ \A d \in Descriptors : s # Record("ignored", d)
  BY DEF Record, Records
<1> HIDE DEF g, h
<1>5. u.watch = kernel.watch /\ u.queue = kernel.queue \o <<r>> /\ Follows(worker, u, Adding(opening))
  <2>1. <<r>> \in Seq(Records) /\ \A d \in Descriptors : Ends(<<r>>, d) = 0
    BY <1>4, OneRecord
  <2> HIDE DEF r
  <2> DEFINE a == <<r>>
  <2> HIDE DEF a
  <2>2. Follows(worker, Reported(kernel, a), Adding(opening))
    BY <1>2, <2>1, ReportedFollows DEF a
  <2> QED BY <1>2, <2>2, ReportedInFull DEF a
<1>6. t.watch = u.watch /\ t.queue = u.queue \o <<s>>
  <2>1. <<r, s>> \in Seq(Records) /\ \A d \in Descriptors : Ends(<<r, s>>, d) = 0
    BY <1>4, TwoRecords
  <2> DEFINE a == <<r>>
             b == <<s>>
             c == <<r, s>>
  <2>2. c = a \o b
    OBVIOUS
  <2> DEFINE k == kernel.queue
  <2>3. a \in Seq(Records) /\ b \in Seq(Records) /\ k \in Seq(Records)
    BY <1>2, <1>4 DEF Kernels
  <2> HIDE DEF r, s, a, b, c
  <2>4. t.watch = kernel.watch /\ t.queue = kernel.queue \o c
    BY <1>2, ReportedInFull DEF c
  <2> HIDE DEF k
  <2>5. (k \o a) \o b = k \o (a \o b)
    BY <2>3, ConcatAssociative
  <2> QED BY <1>5, <2>2, <2>4, <2>5 DEF a, b, k
<1> HIDE DEF t, u
<1>7. Sound(g, worker, u) /\ Covers(g, worker, u.queue, opening)
  BY <1>2, <1>5, RemovedCovers DEF CoverInv, g
<1>8. Sound(h, worker, t) /\ Covers(h, worker, t.queue, opening)
  BY <1>2, <1>3, <1>5, <1>6, <1>7, CreatedCovers DEF h
<1> QED BY <1>1, <1>3, <1>8 DEF CoverInv

\* Nothing is where an evicted directory's watch looked.
LEMMA EvictCovers ==
  ASSUME ~Lossy, CoverInv, NEW d \in Descriptors, Evict(d)
  PROVE  CoverInv'
<1> DEFINE r == Record("deleteself", d)
           s == Record("ignored", d)
           j == [kernel EXCEPT !.watch[d] = None]
           t == Reported(j, <<r, s>>)
           w == worker
<1>1. TableInv /\ TableInv'
  BY EvictTable DEF CoverInv
<1>2. /\ kernel \in Kernels /\ Registry(w) /\ Follows(w, kernel, Adding(opening))
      /\ Sound(fs, w, kernel) /\ Covers(fs, w, kernel.queue, opening)
  BY <1>1 DEF TableInv, Follows, CoverInv
<1>3. /\ kernel' = t /\ kernel.watch[d] # None /\ \A p \in Paths : fs[p] # kernel.watch[d]
      /\ worker' = w /\ opening' = opening /\ fs' = fs
  BY DEF Evict
<1>4. /\ r \in Records /\ s \in Records /\ r.kind # "ignored"
      /\ \A e \in Descriptors : s = Record("ignored", e) <=> e \in {d}
  BY DEF Record, Records
<1>5. /\ \A e \in Descriptors : t.watch[e] = IF e = d THEN None ELSE kernel.watch[e]
      /\ t.queue = kernel.queue \o <<r, s>>
      /\ <<r, s>> \in Seq(Records)
      /\ \A e \in Descriptors : Ends(t.queue, e) = Ends(kernel.queue, e) + (IF e = d THEN 1 ELSE 0)
  <2>1. <<r, s>> \in Seq(Records) /\ \A e \in Descriptors : Ends(<<r, s>>, e) = IF e \in {d} THEN 1 ELSE 0
    BY <1>4, TwoRecords
  <2>2. /\ j \in Kernels /\ j.queue = kernel.queue
        /\ \A e \in Descriptors : j.watch[e] = IF e = d THEN None ELSE kernel.watch[e]
    BY <1>2 DEF Kernels
  <2> HIDE DEF j, r, s
  <2>3. Queued(j, t, {d}) /\ t.watch = j.watch /\ t.queue = j.queue \o <<r, s>>
    BY <2>1, <2>2, ReportedQueues
  <2> QED BY <2>1, <2>2, <2>3 DEF Queued
<1>6. Grown(kernel.queue, t.queue, {"deleteself", "ignored"})
  <2>1. \A z : Contains(<<r, s>>, z) => z.kind \in {"deleteself", "ignored"}
    <3>1. <<r, s>>[1].kind = "deleteself" /\ <<r, s>>[2].kind = "ignored" /\ Len(<<r, s>>) = 2
      BY DEF Record
    <3> DEFINE c == <<r, s>>
    <3> HIDE DEF c
    <3> QED BY <3>1 DEF Contains, c
  <2> QED BY <1>5, <2>1 DEF Grown
<1>7. \A z : Contains(t.queue, z) => Contains(kernel.queue, z) \/ z \in {r, s}
  <2>1. \A z : Contains(<<r, s>>, z) => z \in {r, s}
    BY DEF Contains
  <2> DEFINE c == <<r, s>>
  <2>2. kernel.queue \in Seq(Records) /\ c \in Seq(Records)
    BY <1>2, <1>5 DEF Kernels
  <2>3. t.queue = kernel.queue \o c
    BY <1>5
  <2> HIDE DEF c, r, s, t
  <2>4. \A z : Contains(kernel.queue \o c, z) <=> Contains(kernel.queue, z) \/ Contains(c, z)
    BY <2>2, ContainsConcat
  <2> QED BY <2>1, <2>3, <2>4 DEF c
<1> HIDE DEF t, j
<1>8. kernel.queue \in Seq(Records)
  BY <1>2 DEF Kernels
<1>9. /\ t.queue \in Seq(Records)
      /\ \A z : Contains(kernel.queue, z) => Contains(t.queue, z)
      /\ \A q : Followed(kernel.queue, q) => Followed(t.queue, q)
      /\ \A e, n : \A z \in Records : After(kernel.queue, e, n, z) => After(t.queue, e, n, z)
  BY <1>6, <1>8, GrownKeeps
<1>10. Present(w) \subseteq Descriptors /\ w.exhausted \subseteq Descriptors
  BY <1>2 DEF Present, Registry, Workers
<1>11. ASSUME NEW e \in Present(w) PROVE Tied(fs, w, t, e)
  <2>1. Tied(fs, w, kernel, e) /\ e \in Descriptors
    BY <1>2, <1>10 DEF Sound
  <2>2. CASE e = d
    BY <1>3, <1>5, <2>1, <2>2 DEF Tied, Ended
  <2>3. CASE e # d
    <3>1. Contains(t.queue, Record("deleteself", e)) => Contains(kernel.queue, Record("deleteself", e))
      BY <1>7, <2>3 DEF Record
    <3>2. \A p \in Paths : Record("created", p) \in Records
      BY DEF Record, Records
    <3> QED BY <1>5, <1>9, <2>1, <2>3, <3>1, <3>2 DEF Tied, Ended
  <2> QED BY <2>2, <2>3
<1>12. ASSUME NEW e \in w.exhausted PROVE Owed(w, t, e)
  <2>1. e \in Descriptors /\ e # d /\ Owed(w, kernel, e)
    BY <1>2, <1>3, <1>10 DEF Sound, Follows
  <2>2. Gone(w, t, {}, e) = Gone(w, kernel, {}, e)
    BY <1>5, <2>1 DEF Gone
  <2>3. Ends(kernel.queue, e) \in Nat
    BY <1>8, EndsNat
  <2> QED BY <1>5, <2>1, <2>2, <2>3 DEF Owed
<1>13. Sound(fs, w, t)
  BY <1>2, <1>9, <1>11, <1>12 DEF Sound
<1>14. Covers(fs, w, t.queue, opening)
  BY <1>2, <1>9 DEF Covers, Located, Accounts, Covered, Traversed, Announces
<1> QED BY <1>1, <1>3, <1>13, <1>14 DEF CoverInv

----------------------------------------------------------------------------
(* What the worker's steps leave accounted for.                            *)

\* Beyond the watches, a step only raises doubts.
Marks(w, v) ==
  /\ v.watches = w.watches /\ v.watched = w.watched
  /\ v.disposing = w.disposing /\ v.jobs = w.jobs
  /\ v.found = w.found /\ v.recon = w.recon
  /\ w.uncertain \subseteq v.uncertain /\ v.quiet \subseteq w.quiet

LEMMA MarkUncertainMarks ==
  ASSUME NEW w, w \in Workers, NEW ss
  PROVE  LET v == MarkUncertain(w, ss)
         IN  /\ Marks(w, v) /\ v.deferred = w.deferred
             /\ \A s \in ss : s \in v.uncertain /\ s \notin v.quiet
<1> DEFINE v == MarkUncertain(w, ss)
<1>1. v = [w EXCEPT !.uncertain = w.uncertain \union ss, !.quiet = w.quiet \ ss]
  BY DEF MarkUncertain
<1> HIDE DEF v
<1>2. /\ v.uncertain = w.uncertain \union ss /\ v.quiet = w.quiet \ ss
      /\ v.watches = w.watches /\ v.watched = w.watched
      /\ v.disposing = w.disposing /\ v.jobs = w.jobs
      /\ v.found = w.found /\ v.recon = w.recon /\ v.deferred = w.deferred
  BY <1>1 DEF Workers
<1> QED BY <1>2 DEF Marks, v

LEMMA MarkReusedMarks ==
  ASSUME NEW w, w \in Workers, NEW s, NEW d
  PROVE  Marks(w, MarkReused(w, s, d)) /\ MarkReused(w, s, d).deferred = w.deferred
<1>1. Marks(w, w)
  BY DEF Marks
<1>2. MarkReused(w, s, d) = w \/ MarkReused(w, s, d) = MarkUncertain(w, {s})
  BY DEF MarkReused
<1> QED BY <1>1, <1>2, MarkUncertainMarks

LEMMA ForgottenMarks ==
  ASSUME NEW w, w \in Workers, NEW xs
  PROVE  LET v == Forgotten(w, xs)
         IN  /\ Marks(w, v) /\ v.uncertain = w.uncertain /\ v.quiet = w.quiet
             /\ \A x \in Interests : v.deferred[x] = IF x \in xs THEN "no" ELSE w.deferred[x]
<1> DEFINE v == Forgotten(w, xs)
           D == [x \in Interests |-> IF x \in xs THEN "no" ELSE w.deferred[x]]
<1>1. v = [w EXCEPT !.deferred = D]
  BY DEF Forgotten
<1>2. \A x \in Interests : D[x] = IF x \in xs THEN "no" ELSE w.deferred[x]
  OBVIOUS
<1> HIDE DEF v, D
<1>3. /\ v.uncertain = w.uncertain /\ v.quiet = w.quiet
      /\ v.watches = w.watches /\ v.watched = w.watched
      /\ v.disposing = w.disposing /\ v.jobs = w.jobs
      /\ v.found = w.found /\ v.recon = w.recon /\ v.deferred = D
  BY <1>1 DEF Workers
<1> QED BY <1>2, <1>3 DEF Marks, v

LEMMA DeferralMarks ==
  ASSUME NEW w, w \in Workers, NEW x \in Interests, NEW why, why # "no"
  PROVE  LET v == [w EXCEPT !.deferred[x] = why]
         IN  /\ Marks(w, v)
             /\ \A y \in Interests : y = x \/ w.deferred[y] # "no" => v.deferred[y] # "no"
<1> DEFINE D == [w.deferred EXCEPT ![x] = why]
           v == [w EXCEPT !.deferred = D]
<1>1. \A y \in Interests : y = x \/ w.deferred[y] # "no" => D[y] # "no"
  BY DEF Workers
<1> HIDE DEF D
<1>2. /\ v.uncertain = w.uncertain /\ v.quiet = w.quiet
      /\ v.watches = w.watches /\ v.watched = w.watched
      /\ v.disposing = w.disposing /\ v.jobs = w.jobs
      /\ v.found = w.found /\ v.recon = w.recon /\ v.deferred = D
  BY DEF Workers
<1> HIDE DEF v
<1>3. Marks(w, v) /\ \A y \in Interests : y = x \/ w.deferred[y] # "no" => v.deferred[y] # "no"
  BY <1>1, <1>2 DEF Marks
<1> QED BY <1>3 DEF v, D

LEMMA FailedMarks ==
  ASSUME NEW w, Registry(w), NEW x \in Interests
  PROVE  LET v == Failed(w, x)
         IN  /\ Marks(w, v)
             /\ \A y \in Interests : y = x \/ w.deferred[y] # "no" => v.deferred[y] # "no"
<1> DEFINE u == MarkUncertain(w, {x[1]})
           why == IF u.deferred[x] = "budget" THEN u.deferred[x] ELSE "error"
           v == [u EXCEPT !.deferred[x] = why]
<1>1. w \in Workers /\ {x[1]} \in SUBSET Subs
  BY InterestParts DEF Registry
<1>2. Failed(w, x) = v
  BY DEF Failed, DeferError
<1>3. u \in Workers /\ Marks(w, u) /\ u.deferred = w.deferred
  BY <1>1, MarkUncertainAlike, MarkUncertainMarks DEF Alike
<1>4. why # "no"
  OBVIOUS
<1> HIDE DEF u, why
<1>5. Marks(u, v) /\ \A y \in Interests : y = x \/ u.deferred[y] # "no" => v.deferred[y] # "no"
  BY <1>3, <1>4, DeferralMarks
<1> HIDE DEF v
<1>6. Marks(w, v)
  BY <1>3, <1>5 DEF Marks
<1> QED BY <1>2, <1>3, <1>5, <1>6

LEMMA MarkedCovers ==
  ASSUME NEW f, NEW w, NEW v, NEW q, NEW o, NEW n, Covers(f, w, q, o), Marks(w, v),
         Opened(v, n), \A x \in Interests : Covered(f, w, q, o, x) => Covered(f, v, q, n, x)
  PROVE  Covers(f, v, q, n)
<1> SUFFICES ASSUME NEW x \in Interests
             PROVE  Located(f, q, v, x) /\ Accounts(f, v, q, n, x) /\ Traversed(f, v, q, x)
  BY DEF Covers
<1>1. Located(f, q, w, x) /\ Accounts(f, w, q, o, x) /\ Traversed(f, w, q, x)
  BY DEF Covers
<1>2. Located(f, q, v, x)
  BY <1>1 DEF Located, Marks, Active
<1>3. Accounts(f, v, q, n, x)
  BY <1>1 DEF Accounts, Marks
<1>4. Traversed(f, v, q, x)
  BY <1>1 DEF Traversed, Marks
<1> QED BY <1>2, <1>3, <1>4

\* Interests are removed; what is still wanted of them is covered otherwise.
LEMMA RemovalCovers ==
  ASSUME ~Lossy, NEW f, NEW w, Registry(w), NEW k, Follows(w, k, {}), Sound(f, w, k),
         NEW gone \in SUBSET Interests, NEW xs, NEW v,
         v = Forgotten(RemoveInterests(w, gone), xs), NEW n, Opened(v, n),
         \A x \in Interests :
           /\ x \in gone \/ Located(f, k.queue, w, x)
           /\ Traversed(f, w, k.queue, x)
           /\ x \notin gone \union xs => Accounts(f, w, k.queue, n, x)
           /\ x \in gone \union xs
                => \/ x[1] \in w.disposing
                   \/ f[x[2]] = None \/ x \in w.jobs \/ Announces(k.queue, x[2])
                   \/ n.of = x /\ n.stage \in {"identified", "added"}
                   \/ x \notin gone /\ w.watched[x] # None
  PROVE  /\ Sound(f, v, RmWatches(k, Released(w, v)))
         /\ Covers(f, v, RmWatches(k, Released(w, v)).queue, n)
<1> DEFINE u == RemoveInterests(w, gone)
           t == RmWatches(k, Released(w, v))
<1>1. /\ u \in Workers /\ Registry(u) /\ Alike(u, v)
  BY RemoveInterestsRegistry, ForgottenAlike DEF Registry
<1>2. Sound(f, v, t) /\ Grown(k.queue, t.queue, {"ignored"})
      /\ \A x \in Interests : x \in gone \/ Located(f, k.queue, w, x) => Located(f, t.queue, v, x)
  BY <1>1, SoundRemoval
<1>3. /\ \A x \in Interests : v.watched[x] = IF x \in gone THEN None ELSE w.watched[x]
      /\ \A x \in Interests : v.deferred[x] = IF x \in xs THEN "no" ELSE w.deferred[x]
      /\ v.jobs = w.jobs /\ v.found = w.found /\ v.uncertain = w.uncertain
      /\ v.recon = w.recon /\ v.quiet = w.quiet /\ v.disposing = w.disposing
  <2>1. /\ \A x \in Interests : u.watched[x] = IF x \in gone THEN None ELSE w.watched[x]
        /\ u.deferred = w.deferred
        /\ u.jobs = w.jobs /\ u.found = w.found /\ u.uncertain = w.uncertain
        /\ u.recon = w.recon /\ u.quiet = w.quiet /\ u.disposing = w.disposing
    BY RemoveInterestsFields
  <2> HIDE DEF u
  <2>2. /\ Marks(u, v) /\ v.uncertain = u.uncertain /\ v.quiet = u.quiet
        /\ \A x \in Interests : v.deferred[x] = IF x \in xs THEN "no" ELSE u.deferred[x]
    BY <1>1, ForgottenMarks DEF u
  <2> QED BY <2>1, <2>2 DEF Marks
<1> HIDE DEF u, t
<1>4. k.queue \in Seq(Records)
  BY DEF Follows, Kernels
<1>5. \A p : Announces(k.queue, p) => Announces(t.queue, p)
  BY <1>2, <1>4, GrownKeeps DEF Announces
<1>6. ASSUME NEW x \in Interests PROVE Accounts(f, v, t.queue, n, x)
  <2>1. CASE x \in gone \union xs
    BY <1>3, <1>5, <2>1 DEF Accounts, Covered
  <2>2. CASE x \notin gone \union xs
    <3>1. Accounts(f, w, k.queue, n, x)
      BY <2>2
    <3> QED BY <1>3, <1>5, <2>2, <3>1 DEF Accounts, Covered
  <2> QED BY <2>1, <2>2
<1>7. ASSUME NEW x \in Interests PROVE Traversed(f, v, t.queue, x)
  <2>1. Traversed(f, w, k.queue, x)
    OBVIOUS
  <2> QED BY <1>3, <1>5, <2>1 DEF Traversed
<1>8. Covers(f, v, t.queue, n)
  BY <1>2, <1>6, <1>7 DEF Covers
<1> QED BY <1>2, <1>8 DEF t

\* What a new interest changes, and leaves.
LEMMA InsertInterestFields ==
  ASSUME NEW w, w \in Workers, NEW x \in Interests, NEW d \in Descriptors
  PROVE  LET v == InsertInterest(w, x, d)
         IN  /\ \A e \in Descriptors : /\ v.watches[e].identity = w.watches[e].identity
                                       /\ v.watches[e].expects = w.watches[e].expects
             /\ \A y \in Interests : v.watched[y] = IF y = x THEN d ELSE w.watched[y]
             /\ \A y \in Interests : v.deferred[y] = IF y = x THEN "no" ELSE w.deferred[y]
             /\ v.jobs = w.jobs /\ v.found = w.found /\ v.recon = w.recon
             /\ v.disposing = w.disposing /\ v.uncertain = w.uncertain /\ v.quiet = w.quiet
<1> DEFINE v == InsertInterest(w, x, d)
           WT == [w.watches EXCEPT ![d].interests = @ \union {x}]
           WD == [w.watched EXCEPT ![x] = d]
           DF == [w.deferred EXCEPT ![x] = "no"]
<1>1. v = [w EXCEPT !.watches = WT, !.watched = WD, !.deferred = DF]
  BY DEF InsertInterest
<1>2. /\ w.watches \in [Descriptors -> Watches]
      /\ w.watched \in [Interests -> Descriptors \union {None}]
      /\ w.deferred \in [Interests -> {"no", "budget", "error"}]
  BY DEF Workers
<1>3. \A e \in Descriptors : WT[e].identity = w.watches[e].identity /\ WT[e].expects = w.watches[e].expects
  BY <1>2 DEF Watches
<1>4. \A y \in Interests : /\ WD[y] = IF y = x THEN d ELSE w.watched[y]
                           /\ DF[y] = IF y = x THEN "no" ELSE w.deferred[y]
  BY <1>2
<1> HIDE DEF v, WT, WD, DF
<1>5. /\ v.watches = WT /\ v.watched = WD /\ v.deferred = DF
      /\ v.jobs = w.jobs /\ v.found = w.found /\ v.recon = w.recon
      /\ v.disposing = w.disposing /\ v.uncertain = w.uncertain /\ v.quiet = w.quiet
  BY <1>1 DEF Workers
<1> QED BY <1>3, <1>4, <1>5 DEF v

\* What a new watch changes, and leaves.
LEMMA RegisteredFields ==
  ASSUME NEW w, Registry(w), NEW d \in Descriptors, NEW i \in Inodes, d \notin Present(w),
         NextLifetime(w, d) <= LastLifetime
  PROVE  LET v == Registered(w, i, d)
         IN  /\ v \in Workers
             /\ \A e \in Descriptors : e # d => v.watches[e] = w.watches[e]
             /\ v.watches[d].identity = i /\ v.watches[d].expects = FALSE
             /\ v.watched = w.watched /\ v.deferred = w.deferred
             /\ v.jobs = w.jobs /\ v.found = w.found /\ v.recon = w.recon
             /\ v.disposing = w.disposing /\ v.uncertain = w.uncertain /\ v.quiet = w.quiet
<1> DEFINE v == Registered(w, i, d)
           new == [lifetime |-> NextLifetime(w, d), identity |-> i,
                   interests |-> {}, expects |-> FALSE]
           WT == [w.watches EXCEPT ![d] = new]
           IX == [w.index EXCEPT ![i] = d]
<1>1. w \in Workers
  BY DEF Registry
<1>2. /\ w.watches \in [Descriptors -> Watches]
      /\ w.index \in [Inodes -> Descriptors \union {None}]
  BY <1>1 DEF Workers
<1>3. new \in Watches
  BY NextOfAbsent, LimitsAssumption DEF Watches
<1>4. v = [w EXCEPT !.watches = WT, !.index = IX]
  BY DEF Registered
<1>5. /\ WT \in [Descriptors -> Watches] /\ IX \in [Inodes -> Descriptors \union {None}]
      /\ WT[d] = new /\ \A e \in Descriptors : e # d => WT[e] = w.watches[e]
  BY <1>2, <1>3
<1>6. new.identity = i /\ new.expects = FALSE
  OBVIOUS
<1> HIDE DEF v, new, WT, IX
<1>7. /\ v \in Workers /\ v.watches = WT
      /\ v.watched = w.watched /\ v.deferred = w.deferred
      /\ v.jobs = w.jobs /\ v.found = w.found /\ v.recon = w.recon
      /\ v.disposing = w.disposing /\ v.uncertain = w.uncertain /\ v.quiet = w.quiet
  BY <1>1, <1>4, <1>5 DEF Workers
<1> QED BY <1>5, <1>6, <1>7 DEF v

\* The lifetime of a watch that never entered the registry is retired.
LEMMA ExpectIgnoredFields ==
  ASSUME NEW w, Registry(w), NEW d \in Descriptors, d \notin Present(w),
         NextLifetime(w, d) <= LastLifetime
  PROVE  LET v == ExpectIgnored(w, {d}, [e \in Descriptors |-> NextLifetime(w, e)])
         IN  /\ Marks(w, v) /\ v.deferred = w.deferred /\ v.exhausted = w.exhausted
             /\ \A e \in Descriptors : e # d => Awaits(v, e) = Awaits(w, e)
<1> DEFINE life == [e \in Descriptors |-> NextLifetime(w, e)]
           RT == [e \in Descriptors |->
                    IF e \in {d} THEN Retired(w.retired[e], life[e]) ELSE w.retired[e]]
           EX == w.exhausted \union {e \in {d} : Gap(w.retired[e], life[e])}
           v == ExpectIgnored(w, {d}, life)
<1>1. w \in Workers
  BY DEF Registry
<1>2. v = [w EXCEPT !.retired = RT, !.exhausted = EX]
  BY DEF ExpectIgnored
<1>3. life[d] = w.retired[d].last + 1
  BY NextOfAbsent
<1> HIDE DEF life
<1>4. EX = w.exhausted
  BY <1>3 DEF Gap
<1>5. \A e \in Descriptors : e # d => RT[e] = w.retired[e]
  OBVIOUS
<1> HIDE DEF v, RT, EX
<1>6. /\ v.watches = w.watches /\ v.watched = w.watched /\ v.deferred = w.deferred
      /\ v.jobs = w.jobs /\ v.found = w.found /\ v.recon = w.recon
      /\ v.disposing = w.disposing /\ v.uncertain = w.uncertain /\ v.quiet = w.quiet
      /\ v.retired = RT /\ v.exhausted = w.exhausted
  BY <1>1, <1>2, <1>4 DEF Workers
<1>7. Marks(w, v)
  BY <1>6 DEF Marks
<1>8. \A e \in Descriptors : e # d => Awaits(v, e) = Awaits(w, e)
  BY <1>5, <1>6 DEF Awaits
<1> QED BY <1>6, <1>7, <1>8 DEF v, life

\* The opening ends, and nothing but a doubt is added to the table.
LEMMA AlikeSound ==
  ASSUME NEW f, NEW w, Registry(w), NEW v, Alike(w, v), NEW k \in Kernels, Sound(f, w, k)
  PROVE  Sound(f, v, k)
<1>1. /\ v.watches = w.watches /\ v.retired = w.retired /\ v.exhausted = w.exhausted
      /\ Present(v) = Present(w)
  BY AlikeRegistry DEF Alike, SameTable
<1> QED BY <1>1, SameWatchesSound

LEMMA ClosedCovers == \A w : Opened(w, NotOpening)
BY DEF Opened, NotOpening

LEMMA DeferCovers ==
  ASSUME CoverInv, Defer
  PROVE  CoverInv'
<1> DEFINE x == opening.of
           v == [worker EXCEPT !.deferred[x] = "budget"]
<1>1. /\ opening.stage = "identified" /\ worker' = v /\ opening' = NotOpening
      /\ fs' = fs /\ kernel' = kernel
  BY DEF Defer
<1>2. TableInv /\ TableInv'
  BY DeferTable DEF CoverInv
<1>3. /\ Registry(worker) /\ worker \in Workers /\ kernel \in Kernels /\ x \in Interests
  BY <1>1, <1>2 DEF TableInv, Registry, Follows, Opens
<1>4. /\ Marks(worker, v)
      /\ \A y \in Interests : y = x \/ worker.deferred[y] # "no" => v.deferred[y] # "no"
  BY <1>3, DeferralMarks
<1>5. Alike(worker, v)
  <2>1. v = [worker EXCEPT !.deferred = [worker.deferred EXCEPT ![x] = "budget"]]
    OBVIOUS
  <2>2. [worker.deferred EXCEPT ![x] = "budget"] \in [Interests -> {"no", "budget", "error"}]
    BY <1>3 DEF Workers
  <2> QED BY <1>3, <2>1, <2>2, DeferralAlike
<1> HIDE DEF v
<1>6. Sound(fs, v, kernel)
  BY <1>3, <1>5, AlikeSound DEF CoverInv
<1>7. \A y \in Interests : Covered(fs, worker, kernel.queue, opening, y)
                             => Covered(fs, v, kernel.queue, NotOpening, y)
  BY <1>4 DEF Covered, Marks
<1>8. Covers(fs, v, kernel.queue, NotOpening)
  BY <1>4, <1>7, MarkedCovers, ClosedCovers DEF CoverInv
<1> QED BY <1>1, <1>2, <1>6, <1>8 DEF CoverInv

LEMMA AddWatchFailsCovers ==
  ASSUME CoverInv, AddWatchFails
  PROVE  CoverInv'
<1> DEFINE x == opening.of
           v == Forgotten(worker, {x})
<1>1. /\ opening.stage = "identified" /\ worker' = v /\ opening' = NotOpening
      /\ fs' = fs /\ kernel' = kernel /\ fs[x[2]] = None
  BY DEF AddWatchFails
<1>2. TableInv /\ TableInv'
  BY AddWatchFailsTable DEF CoverInv
<1>3. /\ Registry(worker) /\ worker \in Workers /\ kernel \in Kernels
  BY <1>2 DEF TableInv, Registry, Follows
<1>4. /\ Marks(worker, v)
      /\ \A y \in Interests : v.deferred[y] = IF y \in {x} THEN "no" ELSE worker.deferred[y]
  BY <1>3, ForgottenMarks
<1>5. Alike(worker, v)
  BY <1>3, ForgottenAlike
<1> HIDE DEF v
<1>6. Sound(fs, v, kernel)
  BY <1>3, <1>5, AlikeSound DEF CoverInv
<1>7. \A y \in Interests : Covered(fs, worker, kernel.queue, opening, y)
                             => Covered(fs, v, kernel.queue, NotOpening, y)
  BY <1>1, <1>4 DEF Covered, Marks
<1>8. Covers(fs, v, kernel.queue, NotOpening)
  BY <1>4, <1>7, MarkedCovers, ClosedCovers DEF CoverInv
<1> QED BY <1>1, <1>2, <1>6, <1>8 DEF CoverInv

LEMMA ShareCovers ==
  ASSUME CoverInv, Share
  PROVE  CoverInv'
<1> DEFINE x == opening.of
           i == opening.identity
           d == worker.index[i]
           u == MarkReused(worker, x[1], d)
           v == InsertInterest(u, x, d)
           q == kernel.queue
           n == Opening("reading", x, i, d)
<1>1. /\ opening.stage = "identified" /\ d # None
      /\ IF fs[x[2]] # i
         THEN worker' = Failed(worker, x) /\ opening' = NotOpening
         ELSE worker' = v /\ opening' = n
      /\ kernel' = kernel /\ fs' = fs
  BY DEF Share
<1>2. TableInv /\ TableInv'
  BY ShareTable DEF CoverInv
<1>3. /\ Registry(worker) /\ worker \in Workers /\ kernel \in Kernels
      /\ Sound(fs, worker, kernel) /\ Covers(fs, worker, q, opening)
  BY <1>2 DEF TableInv, Registry, Follows, CoverInv
<1>4. x \in Interests /\ i \in Inodes /\ worker.watched[x] = None
  BY <1>1, <1>2 DEF TableInv, Opens
<1>5. d \in Descriptors /\ worker.watches[d].identity = i
  BY <1>1, <1>3, <1>4 DEF Registry, Indexed, Workers
<1> HIDE DEF x, i, d, u, v, n
<1>6. CASE fs[x[2]] # i
  <2>1. worker' = Failed(worker, x) /\ opening' = NotOpening
    BY <1>1, <1>6
  <2>2. /\ Marks(worker, worker') /\ Alike(worker, worker')
        /\ \A y \in Interests : y = x \/ worker.deferred[y] # "no" => worker'.deferred[y] # "no"
    BY <1>3, <1>4, <2>1, FailedMarks, FailedAlike
  <2>3. Sound(fs, worker', kernel)
    BY <1>3, <2>2, AlikeSound
  <2>4. \A y \in Interests : Covered(fs, worker, q, opening, y)
                               => Covered(fs, worker', q, opening', y)
    BY <2>2 DEF Covered, Marks, x
  <2>5. Covers(fs, worker', q, opening')
    BY <1>3, <2>1, <2>2, <2>4, MarkedCovers, ClosedCovers
  <2> QED BY <1>1, <1>2, <2>3, <2>5 DEF CoverInv
<1>7. CASE fs[x[2]] = i
  <2>1. worker' = v /\ opening' = n /\ opening'.stage = "reading" /\ opening'.of = x
    BY <1>1, <1>7 DEF n, Opening
  <2>2. /\ Alike(worker, u) /\ Marks(worker, u) /\ u.deferred = worker.deferred
    BY <1>3, <1>4, InterestParts, MarkReusedAlike, MarkReusedMarks DEF u
  <2>3. /\ Registry(u) /\ u \in Workers /\ Present(u) = Present(worker) /\ u.watched[x] = None
        /\ u.retired = worker.retired /\ u.exhausted = worker.exhausted
        /\ Sound(fs, u, kernel)
    BY <1>3, <1>4, <2>2, AlikeRegistry, AlikeSound DEF Alike, SameTable
  <2>4. d \in Present(u)
    BY <1>3, <1>4, <1>5, <2>3, NotPresent, KernelAssumption
  <2>5. /\ Registry(v) /\ Present(v) = Present(u)
        /\ v.retired = u.retired /\ v.exhausted = u.exhausted
    BY <1>4, <2>3, <2>4, InsertInterestRegistry DEF v
  <2>6. /\ \A e \in Descriptors : /\ v.watches[e].identity = u.watches[e].identity
                                  /\ v.watches[e].expects = u.watches[e].expects
        /\ \A y \in Interests : v.watched[y] = IF y = x THEN d ELSE u.watched[y]
        /\ \A y \in Interests : v.deferred[y] = IF y = x THEN "no" ELSE u.deferred[y]
        /\ v.jobs = u.jobs /\ v.found = u.found /\ v.recon = u.recon
        /\ v.disposing = u.disposing /\ v.uncertain = u.uncertain /\ v.quiet = u.quiet
    BY <1>4, <1>5, <2>3, InsertInterestFields DEF v
  <2>7. Present(u) \subseteq Descriptors
    BY DEF Present
  <2>8. Sound(fs, v, kernel)
    BY <1>3, <2>3, <2>5, <2>6, <2>7, SameWatchesSound
  <2>9. Covers(fs, u, q, opening)
    <3>1. \A y \in Interests : Covered(fs, worker, q, opening, y) => Covered(fs, u, q, opening, y)
      BY <2>2 DEF Covered, Marks
    <3>2. Opened(u, opening)
      BY <1>1 DEF Opened
    <3> QED BY <1>3, <2>2, <3>1, <3>2, MarkedCovers
  <2>10. ASSUME NEW y \in Interests
         PROVE  Located(fs, q, v, y) /\ Accounts(fs, v, q, n, y) /\ Traversed(fs, v, q, y)
    <3>1. Located(fs, q, u, y) /\ Accounts(fs, u, q, opening, y) /\ Traversed(fs, u, q, y)
      BY <2>9 DEF Covers
    <3>2. d # None /\ fs[x[2]] = v.watches[d].identity
      BY <1>1, <1>5, <1>7, <2>2, <2>6 DEF Marks
    <3>3. Located(fs, q, v, y)
      <4>1. CASE y = x
        BY <2>6, <3>2, <4>1 DEF Located
      <4>2. CASE y # x
        <5>1. u.watched[y] \in Descriptors \union {None}
          BY <2>3 DEF Workers
        <5> QED BY <2>6, <3>1, <4>2, <5>1 DEF Located, Active
      <4> QED BY <4>1, <4>2
    <3>4. Accounts(fs, v, q, n, y)
      <4>1. CASE y = x
        BY <2>6, <3>2, <4>1 DEF Accounts, Covered
      <4>2. CASE y # x
        BY <2>6, <3>1, <4>2 DEF Accounts, Covered, x
      <4> QED BY <4>1, <4>2
    <3>5. Traversed(fs, v, q, y)
      BY <2>6, <3>1 DEF Traversed
    <3> QED BY <3>3, <3>4, <3>5
  <2>11. Opened(v, n)
    BY <1>1, <1>4, <2>1, <2>6 DEF Opened
  <2>12. Covers(fs, v, q, n)
    BY <2>10, <2>11 DEF Covers
  <2> QED BY <1>1, <1>2, <2>1, <2>8, <2>12 DEF CoverInv
<1> QED BY <1>6, <1>7

LEMMA AddWatchCovers ==
  ASSUME ~Lossy, CoverInv, NEW d \in Descriptors, AddWatch(d)
  PROVE  CoverInv'
<1> DEFINE x == opening.of
           i == opening.identity
           f == fs[x[2]]
           k == kernel
           q == kernel.queue
           added == [kernel EXCEPT !.watch[d] = f]
           t == RmWatches(added, {d})
           u == Failed(worker, x)
           v == [u EXCEPT !.exhausted = @ \union {d}]
           n == Opening("added", x, i, d)
<1>1. /\ opening.stage = "identified" /\ f # None /\ fs' = fs
      /\ d \in Returned(k, f)
      /\ IF Rejected(worker, d)
         THEN kernel' = t /\ worker' = v /\ opening' = NotOpening
         ELSE kernel' = added /\ opening' = n /\ worker' = worker
  BY DEF AddWatch
<1>2. TableInv /\ TableInv'
  BY AddWatchTable DEF CoverInv
<1>3. /\ Registry(worker) /\ worker \in Workers /\ k \in Kernels /\ Follows(worker, k, {})
      /\ Sound(fs, worker, k) /\ Covers(fs, worker, q, opening)
      /\ fs \in [Paths -> Inodes \union {None}]
  BY <1>1, <1>2, Idle DEF Follows, CoverInv
<1>4. x \in Interests /\ x[1] \in Active(worker) /\ f \in Inodes
  BY <1>1, <1>2, <1>3, InterestParts DEF TableInv, Opens
<1> HIDE DEF f, x, i
<1>5. /\ added \in Kernels /\ added.queue = q /\ added.watch[d] = f
      /\ \A e \in Descriptors : e # d => added.watch[e] = k.watch[e]
  BY <1>3, <1>4 DEF Kernels
<1>6. f # None /\ Present(worker) \subseteq Descriptors /\ worker.exhausted \subseteq Descriptors
  BY <1>1, <1>3 DEF Present, Workers
<1> HIDE DEF added, n
<1>7. q \in Seq(Records)
  BY <1>3 DEF Kernels
<1>8. \A e \in Descriptors : Awaits(worker, e) \in Nat /\ Ends(q, e) \in Nat
  BY <1>3, <1>7, AwaitsNat, EndsNat
<1>9. CASE Rejected(worker, d)
  <2>1. kernel' = t /\ worker' = v /\ opening' = NotOpening
    BY <1>1, <1>9
  <2>2. /\ \A e \in Descriptors : t.watch[e] = IF e = d THEN None ELSE k.watch[e]
        /\ Grown(q, t.queue, {"ignored"})
        /\ Ends(t.queue, d) = Ends(q, d) + 1
    <3>1. /\ Queued(added, t, {e \in {d} : added.watch[e] # None})
          /\ t.watch = [e \in Descriptors |-> IF e \in {d} THEN None ELSE added.watch[e]]
      BY <1>5, RmWatchesQueues
    <3>2. d \in {e \in {d} : added.watch[e] # None}
      BY <1>5, <1>6
    <3>3. Grown(q, t.queue, {"ignored"})
      BY <1>5, RmWatchesGrows
    <3> HIDE DEF t
    <3> QED BY <1>5, <3>1, <3>2, <3>3 DEF Queued
  <2>3. /\ Alike(worker, u) /\ Marks(worker, u)
        /\ \A y \in Interests : y = x \/ worker.deferred[y] # "no" => u.deferred[y] # "no"
    BY <1>3, <1>4, FailedAlike, FailedMarks
  <2>4. /\ Registry(u) /\ u \in Workers /\ Present(u) = Present(worker)
        /\ u.retired = worker.retired /\ u.exhausted = worker.exhausted /\ u.watches = worker.watches
    BY <1>3, <2>3, AlikeRegistry DEF Alike, SameTable
  <2> HIDE DEF u, t
  <2>5. /\ Marks(u, v) /\ v.deferred = u.deferred /\ v.retired = u.retired
        /\ v.exhausted = u.exhausted \union {d}
    <3>1. /\ v.watches = u.watches /\ v.watched = u.watched /\ v.deferred = u.deferred
          /\ v.jobs = u.jobs /\ v.found = u.found /\ v.recon = u.recon
          /\ v.disposing = u.disposing /\ v.uncertain = u.uncertain /\ v.quiet = u.quiet
          /\ v.retired = u.retired /\ v.exhausted = u.exhausted \union {d}
      BY <2>4 DEF Workers
    <3> HIDE DEF v
    <3> QED BY <3>1 DEF Marks
  <2> HIDE DEF v
  <2>6. /\ Present(v) = Present(worker) /\ v.watches = worker.watches /\ Marks(worker, v)
        /\ \A e \in Descriptors : Awaits(v, e) = Awaits(worker, e)
    BY <2>3, <2>4, <2>5 DEF Present, Marks, Awaits
  <2>7. ASSUME NEW e \in Present(v) PROVE Tied(fs, v, t, e)
    <3>1. e \in Descriptors /\ Tied(fs, worker, k, e) /\ t.watch[e] \in {None, k.watch[e]}
      BY <1>3, <1>6, <2>2, <2>6 DEF Sound
    <3> QED BY <1>3, <2>2, <2>6, <3>1, WatchKept
  <2>8. ASSUME NEW e \in v.exhausted PROVE Owed(v, t, e)
    <3>1. CASE e = d
      <4>1. Ends(q, d) >= Awaits(worker, d) + Gone(worker, k, {}, d)
        BY <1>3, EndsDue
      <4>2. Gone(worker, k, {}, d) \in {0, 1} /\ Gone(v, t, {}, d) \in {0, 1}
        BY DEF Gone
      <4> QED BY <1>8, <2>2, <2>6, <3>1, <4>1, <4>2 DEF Owed
    <3>2. CASE e # d
      <4>1. e \in worker.exhausted /\ e \in Descriptors /\ Owed(worker, k, e) /\ t.watch[e] = k.watch[e]
        BY <1>3, <1>6, <2>2, <2>4, <2>5, <3>2 DEF Sound
      <4> QED BY <1>3, <1>8, <2>2, <2>6, <4>1, OwedKept
    <3> QED BY <3>1, <3>2
  <2>9. Sound(fs, v, t)
    BY <1>3, <2>2, <2>7, <2>8, PathsFollowed DEF Sound
  <2>10. Covers(fs, v, q, NotOpening)
    <3>1. \A y \in Interests : Covered(fs, worker, q, opening, y) => Covered(fs, v, q, NotOpening, y)
      BY <2>3, <2>5, <2>6 DEF Covered, Marks, x
    <3> QED BY <1>3, <2>6, <3>1, MarkedCovers, ClosedCovers
  <2>11. Covers(fs, v, t.queue, NotOpening)
    <3>1. \A r : Contains(q, r) => Contains(t.queue, r)
      BY <1>7, <2>2, GrownKeeps
    <3> QED BY <2>10, <3>1 DEF Covers, Located, Accounts, Covered, Traversed, Announces
  <2> QED BY <1>1, <1>2, <2>1, <2>9, <2>11 DEF CoverInv
<1>10. CASE ~Rejected(worker, d)
  <2>1. kernel' = added /\ opening' = n /\ worker' = worker
    BY <1>1, <1>10
  <2>2. n.of = x /\ n.stage = "added" /\ n.wd = d
    BY DEF n, Opening
  <2>3. d \notin Present(worker) /\ d \notin worker.exhausted
    BY <1>2, <2>1, <2>2 DEF TableInv, Opens
  <2>4. Grown(q, added.queue, {"ignored"})
    BY <1>5, <1>7, GrownSelf
  <2>5. ASSUME NEW e \in Present(worker) PROVE Tied(fs, worker, added, e)
    <3>1. e \in Descriptors /\ Tied(fs, worker, k, e) /\ added.watch[e] \in {None, k.watch[e]}
      BY <1>3, <1>5, <1>6, <2>3 DEF Sound
    <3> QED BY <1>3, <2>4, <3>1, WatchKept
  <2>6. ASSUME NEW e \in worker.exhausted PROVE Owed(worker, added, e)
    <3>1. e \in Descriptors /\ Owed(worker, k, e) /\ added.watch[e] = k.watch[e]
      BY <1>3, <1>5, <1>6, <2>3 DEF Sound
    <3> QED BY <1>3, <1>8, <2>4, <3>1, OwedKept
  <2>7. Sound(fs, worker, added)
    BY <1>3, <1>5, <2>5, <2>6 DEF Sound
  <2>8. Covers(fs, worker, added.queue, n)
    <3>1. \A y \in Interests : Covered(fs, worker, q, opening, y) => Covered(fs, worker, q, n, y)
      BY <2>2 DEF Covered, x
    <3>2. Opened(worker, n) /\ Marks(worker, worker)
      BY <2>2 DEF Opened, Marks
    <3> QED BY <1>3, <1>5, <3>1, <3>2, MarkedCovers
  <2> QED BY <1>1, <1>2, <2>1, <2>7, <2>8 DEF CoverInv
<1> QED BY <1>9, <1>10

\* The watch that enters the registry is on the directory that was looked for, and
\* no former watch of its descriptor is about to announce its end.
RegisteredAsFound ==
  (opening.stage = "added" /\ fs[opening.of[2]] = opening.identity) =>
    /\ kernel.watch[opening.wd] = opening.identity
    /\ ~Contains(kernel.queue, Record("deleteself", opening.wd))

LEMMA ConfirmCovers ==
  ASSUME ~Lossy, CoverInv, Confirm, RegisteredAsFound
  PROVE  CoverInv'
<1> DEFINE x == opening.of
           i == opening.identity
           d == opening.wd
           k == kernel
           q == kernel.queue
           created == {d} \ Present(worker)
           life == [e \in Descriptors |-> NextLifetime(worker, e)]
           p == ExpectIgnored(worker, created, life)
           u == MarkReused(worker, x[1], d)
           g == Registered(u, i, d)
           v == InsertInterest(g, x, d)
           n == Opening("reading", x, i, d)
<1>1. /\ opening.stage = "added" /\ fs' = fs
      /\ IF fs[x[2]] # i
         THEN worker' = Failed(p, x) /\ kernel' = RmWatches(k, created) /\ opening' = NotOpening
         ELSE worker' = v /\ opening' = n /\ kernel' = k
  BY DEF Confirm
<1>2. TableInv /\ TableInv'
  BY ConfirmTable DEF CoverInv
<1>3. /\ Registry(worker) /\ worker \in Workers /\ Follows(worker, k, {d}) /\ k \in Kernels
      /\ Sound(fs, worker, k) /\ Covers(fs, worker, q, opening)
  BY <1>1, <1>2 DEF TableInv, Adding, Follows, Registry, CoverInv
<1>4. /\ x \in Interests /\ x[1] \in Active(worker) /\ i \in Inodes /\ worker.watched[x] = None
      /\ worker.index[i] = None
      /\ d \in Descriptors /\ d \notin Present(worker) /\ d \notin worker.exhausted
      /\ NextLifetime(worker, d) <= LastLifetime
      /\ Cardinality(Present(worker)) < worker.budget
  BY <1>1, <1>2 DEF TableInv, Opens
<1>5. created = {d}
  BY <1>4
<1>6. /\ fs[x[2]] = i => /\ k.watch[d] = i
                         /\ ~Contains(q, Record("deleteself", d))
  BY <1>1 DEF RegisteredAsFound
<1>7. /\ q \in Seq(Records) /\ Present(worker) \subseteq Descriptors
      /\ worker.exhausted \subseteq Descriptors
  BY <1>3 DEF Kernels, Present, Workers
<1>8. \A e \in Descriptors : Awaits(worker, e) \in Nat
  BY <1>3, AwaitsNat
<1> HIDE DEF x, i, d, created, life, u, g, n
<1>9. CASE fs[x[2]] # i
  <2> DEFINE t == RmWatches(k, {d})
             y == Failed(p, x)
  <2>1. worker' = y /\ kernel' = t /\ opening' = NotOpening
    BY <1>1, <1>5, <1>9
  <2>2. p = ExpectIgnored(worker, {d}, [e \in Descriptors |-> NextLifetime(worker, e)])
    BY <1>5 DEF life
  <2> HIDE DEF p
  <2>3. /\ Registry(p) /\ Marks(worker, p) /\ p.deferred = worker.deferred
        /\ p.exhausted = worker.exhausted
        /\ \A e \in Descriptors : e # d => Awaits(p, e) = Awaits(worker, e)
    BY <1>3, <1>4, <2>2, ExpectIgnoredAdded, ExpectIgnoredFields
  <2>4. /\ Alike(p, y) /\ Marks(p, y)
        /\ \A z \in Interests : z = x \/ p.deferred[z] # "no" => y.deferred[z] # "no"
    BY <1>4, <2>3, FailedAlike, FailedMarks
  <2> HIDE DEF y
  <2>5. /\ Marks(worker, y) /\ Present(y) = Present(worker) /\ y.exhausted = worker.exhausted
        /\ y.watches = worker.watches
        /\ \A e \in Descriptors : e # d => Awaits(y, e) = Awaits(worker, e)
    BY <2>3, <2>4 DEF Alike, SameTable, Marks, Present, Awaits
  <2>6. /\ \A e \in Descriptors : t.watch[e] = IF e = d THEN None ELSE k.watch[e]
        /\ Grown(q, t.queue, {"ignored"})
    <3>1. t.watch = [e \in Descriptors |-> IF e \in {d} THEN None ELSE k.watch[e]]
      BY <1>3, <1>4, RmWatchesQueues
    <3>2. Grown(q, t.queue, {"ignored"})
      BY <1>3, <1>4, RmWatchesGrows
    <3> HIDE DEF t
    <3> QED BY <3>1, <3>2
  <2> HIDE DEF t
  <2>7. ASSUME NEW e \in Present(y) PROVE Tied(fs, y, t, e)
    <3>1. /\ e \in Descriptors /\ Tied(fs, worker, k, e) /\ t.watch[e] \in {None, k.watch[e]}
          /\ Awaits(y, e) = Awaits(worker, e)
      BY <1>3, <1>4, <1>7, <2>5, <2>6 DEF Sound
    <3> QED BY <1>3, <2>5, <2>6, <3>1, WatchKept
  <2>8. ASSUME NEW e \in y.exhausted PROVE Owed(y, t, e)
    <3>1. /\ e \in Descriptors /\ Owed(worker, k, e) /\ t.watch[e] = k.watch[e]
          /\ Awaits(y, e) = Awaits(worker, e)
      BY <1>3, <1>4, <1>7, <2>5, <2>6 DEF Sound
    <3> QED BY <1>3, <1>8, <2>5, <2>6, <3>1, OwedKept
  <2>9. Sound(fs, y, t)
    BY <1>3, <2>6, <2>7, <2>8, PathsFollowed DEF Sound
  <2>10. Covers(fs, y, q, NotOpening)
    <3>1. \A z \in Interests : Covered(fs, worker, q, opening, z) => Covered(fs, y, q, NotOpening, z)
      BY <2>3, <2>4, <2>5 DEF Covered, Marks, x
    <3> QED BY <1>3, <2>5, <3>1, MarkedCovers, ClosedCovers
  <2>11. Covers(fs, y, t.queue, NotOpening)
    <3>1. \A r : Contains(q, r) => Contains(t.queue, r)
      BY <1>7, <2>6, GrownKeeps
    <3> QED BY <2>10, <3>1 DEF Covers, Located, Accounts, Covered, Traversed, Announces
  <2> QED BY <1>1, <1>2, <2>1, <2>9, <2>11 DEF CoverInv
<1>10. CASE fs[x[2]] = i
  <2>1. worker' = v /\ opening' = n /\ kernel' = k /\ n.stage = "reading" /\ n.of = x
    BY <1>1, <1>10 DEF n, Opening
  <2>2. /\ Alike(worker, u) /\ Marks(worker, u) /\ u.deferred = worker.deferred
    BY <1>3, <1>4, InterestParts, MarkReusedAlike, MarkReusedMarks DEF u
  <2>3. /\ Registry(u) /\ u \in Workers /\ Present(u) = Present(worker) /\ Active(u) = Active(worker)
        /\ u.watched[x] = None /\ u.index[i] = None /\ u.budget = worker.budget
        /\ u.retired = worker.retired /\ u.exhausted = worker.exhausted
        /\ Sound(fs, u, k) /\ NextLifetime(u, d) <= LastLifetime
    BY <1>3, <1>4, <2>2, AlikeRegistry, AlikeSound DEF Alike, SameTable, NextLifetime
  <2>4. /\ Registry(v) /\ Present(v) = Present(u) \union {d}
        /\ v.retired = u.retired /\ v.exhausted = u.exhausted
    BY <1>4, <2>3, NewWatchRegistry DEF g
  <2>5. /\ g \in Workers
        /\ \A e \in Descriptors : e # d => g.watches[e] = u.watches[e]
        /\ g.watches[d].identity = i /\ g.watches[d].expects = FALSE
        /\ g.watched = u.watched /\ g.deferred = u.deferred
        /\ g.jobs = u.jobs /\ g.found = u.found /\ g.recon = u.recon
        /\ g.disposing = u.disposing /\ g.uncertain = u.uncertain /\ g.quiet = u.quiet
    BY <1>4, <2>3, RegisteredFields DEF g
  <2>6. /\ \A e \in Descriptors : /\ v.watches[e].identity = g.watches[e].identity
                                  /\ v.watches[e].expects = g.watches[e].expects
        /\ \A y \in Interests : v.watched[y] = IF y = x THEN d ELSE g.watched[y]
        /\ \A y \in Interests : v.deferred[y] = IF y = x THEN "no" ELSE g.deferred[y]
        /\ v.jobs = g.jobs /\ v.found = g.found /\ v.recon = g.recon
        /\ v.disposing = g.disposing /\ v.uncertain = g.uncertain /\ v.quiet = g.quiet
    BY <1>4, <2>5, InsertInterestFields
  <2> HIDE DEF v
  <2>7. \A e \in Descriptors : Awaits(v, e) = Awaits(u, e) /\ Awaits(u, e) \in Nat
    BY <2>3, <2>4, AwaitsNat DEF Awaits
  <2>8. Grown(q, q, {"ignored"})
    BY <1>7, GrownSelf
  <2>9. ASSUME NEW e \in Present(v) PROVE Tied(fs, v, k, e)
    <3>1. CASE e = d
      BY <1>6, <1>10, <2>5, <2>6, <1>4, <3>1 DEF Tied
    <3>2. CASE e # d
      <4>1. e \in Descriptors /\ Tied(fs, u, k, e)
        BY <1>7, <2>3, <2>4, <3>2 DEF Sound
      <4> QED BY <1>3, <2>5, <2>6, <2>7, <2>8, <3>2, <4>1, WatchKept
    <3> QED BY <3>1, <3>2
  <2>10. ASSUME NEW e \in v.exhausted PROVE Owed(v, k, e)
    <3>1. e \in Descriptors /\ Owed(u, k, e) /\ e # d
      BY <1>4, <1>7, <2>3, <2>4 DEF Sound
    <3>2. e \in Present(v) <=> e \in Present(u)
      BY <2>4, <3>1
    <3> QED BY <1>3, <2>7, <2>8, <3>1, <3>2, OwedKept
  <2>11. Sound(fs, v, k)
    BY <1>3, <2>9, <2>10 DEF Sound
  <2>12. Covers(fs, u, q, opening)
    <3>1. \A y \in Interests : Covered(fs, worker, q, opening, y) => Covered(fs, u, q, opening, y)
      BY <2>2 DEF Covered, Marks
    <3>2. Opened(u, opening)
      BY <1>1 DEF Opened
    <3> QED BY <1>3, <2>2, <3>1, <3>2, MarkedCovers
  <2>13. d # None
    BY <1>4, KernelAssumption
  <2>14. ASSUME NEW y \in Interests
         PROVE  Located(fs, q, v, y) /\ Accounts(fs, v, q, n, y) /\ Traversed(fs, v, q, y)
    <3>1. Located(fs, q, u, y) /\ Accounts(fs, u, q, opening, y) /\ Traversed(fs, u, q, y)
      BY <2>12 DEF Covers
    <3>2. Located(fs, q, v, y)
      <4>1. CASE y = x
        BY <1>4, <1>10, <2>5, <2>6, <4>1 DEF Located
      <4>2. CASE y # x
        <5>1. SUFFICES ASSUME u.watched[y] # None, y[1] \in Active(u)
                       PROVE  \/ fs[y[2]] = v.watches[u.watched[y]].identity
                              \/ Contains(q, Record("removed", y[2]))
          BY <2>5, <2>6, <4>2 DEF Located, Active
        <5>2. u.watched[y] \in Descriptors /\ u.watched[y] # d
          <6>1. u.watched[y] \in Descriptors
            BY <2>3, <5>1 DEF Workers
          <6>2. y \in u.watches[u.watched[y]].interests
            BY <2>3, <5>1, <6>1 DEF Registry, Linked
          <6>3. u.watches[d] = Absent
            BY <1>4, <2>3 DEF Present
          <6> QED BY <6>1, <6>2, <6>3, AbsentFields
        <5> QED BY <2>5, <2>6, <3>1, <5>1, <5>2 DEF Located
      <4> QED BY <4>1, <4>2
    <3>3. Accounts(fs, v, q, n, y)
      <4>1. CASE y = x
        BY <2>6, <2>13, <4>1 DEF Accounts, Covered
      <4>2. CASE y # x
        BY <2>5, <2>6, <3>1, <4>2 DEF Accounts, Covered, x
      <4> QED BY <4>1, <4>2
    <3>4. Traversed(fs, v, q, y)
      BY <2>5, <2>6, <3>1 DEF Traversed
    <3> QED BY <3>2, <3>3, <3>4
  <2>15. Opened(v, n)
    BY <1>4, <2>1, <2>6, <2>13 DEF Opened
  <2>16. Covers(fs, v, q, n)
    BY <2>14, <2>15 DEF Covers
  <2> QED BY <1>1, <1>2, <2>1, <2>11, <2>16 DEF CoverInv
<1> QED BY <1>9, <1>10

LEMMA ForgottenNothing ==
  ASSUME NEW w, w \in Workers
  PROVE  Forgotten(w, {}) = w
<1>1. [x \in Interests |-> IF x \in {} THEN "no" ELSE w.deferred[x]] = w.deferred
  BY DEF Workers
<1>2. Forgotten(w, {}) = [w EXCEPT !.deferred = w.deferred]
  BY <1>1 DEF Forgotten
<1> QED BY <1>2 DEF Workers

LEMMA OpenPathCovers ==
  ASSUME ~Lossy, NEW w, Registry(w), Follows(w, kernel, {}), Sound(fs, w, kernel),
         NEW x \in Interests, OpenPath(w, x),
         \A y \in Interests :
           /\ Located(fs, kernel.queue, w, y) /\ Traversed(fs, w, kernel.queue, y)
           /\ y # x => Accounts(fs, w, kernel.queue, NotOpening, y)
  PROVE  Sound(fs', worker', kernel') /\ Covers(fs', worker', kernel'.queue, opening')
<1> DEFINE gone == Stale(w, x)
           v == RemoveInterests(w, gone)
           q == kernel.queue
           xs == IF v.watched[x] = None /\ fs[x[2]] = None THEN {x} ELSE {}
           n == opening'
<1>1. gone \in SUBSET Interests /\ gone \subseteq {x}
  BY DEF Stale, Watched
<1>2. /\ kernel' = RmWatches(kernel, Released(w, v)) /\ fs' = fs
      /\ CASE v.watched[x] # None ->
                /\ worker' = v
                /\ opening' = Opening("reading", x, fs[x[2]], v.watched[x])
           [] v.watched[x] = None /\ fs[x[2]] = None ->
                /\ worker' = Forgotten(v, {x})
                /\ opening' = NotOpening
           [] OTHER ->
                /\ worker' = v
                /\ opening' = Opening("identified", x, fs[x[2]], None)
  BY DEF OpenPath
<1> HIDE DEF gone
<1>3. /\ v \in Workers /\ Present(Forgotten(v, xs)) = Present(v)
      /\ v.watched[x] = IF x \in gone THEN None ELSE w.watched[x]
      /\ \A o : Opened(Forgotten(v, xs), o) <=> Opened(v, o)
  <2>1. Registry(v) /\ v.watched[x] = IF x \in gone THEN None ELSE w.watched[x]
    BY <1>1, RemoveInterestsRegistry, RemoveInterestsFields
  <2> HIDE DEF v, xs
  <2>2. v \in Workers /\ Alike(v, Forgotten(v, xs))
    BY <2>1, ForgottenAlike DEF Registry
  <2> QED BY <2>1, <2>2, AlikeRegistry DEF Alike, SameTable, Opened
<1> HIDE DEF v
<1>4. worker' = Forgotten(v, xs) /\ kernel' = RmWatches(kernel, Released(w, worker'))
  <2>1. worker' = Forgotten(v, xs)
    <3>1. CASE v.watched[x] = None /\ fs[x[2]] = None
      BY <1>2, <3>1
    <3>2. CASE ~(v.watched[x] = None /\ fs[x[2]] = None)
      BY <1>2, <1>3, <3>2, ForgottenNothing
    <3> QED BY <3>1, <3>2
  <2> QED BY <1>2, <1>3, <2>1 DEF Released
<1>5. \/ /\ v.watched[x] # None /\ xs = {} /\ n.stage = "reading" /\ n.of = x
         /\ x \notin gone /\ w.watched[x] # None
      \/ /\ fs[x[2]] = None /\ xs = {x} /\ n = NotOpening
      \/ /\ xs = {} /\ n.stage = "identified" /\ n.of = x
  BY <1>2, <1>3 DEF Opening
<1> HIDE DEF xs
<1>6. Opened(Forgotten(v, xs), n)
  BY <1>3, <1>5 DEF Opened, NotOpening
<1>7. ASSUME NEW y \in Interests
      PROVE  /\ y \in gone \/ Located(fs, q, w, y)
             /\ Traversed(fs, w, q, y)
             /\ y \notin gone \union xs => Accounts(fs, w, q, n, y)
             /\ y \in gone \union xs
                  => \/ y[1] \in w.disposing
                     \/ fs[y[2]] = None \/ y \in w.jobs \/ Announces(q, y[2])
                     \/ n.of = y /\ n.stage \in {"identified", "added"}
                     \/ y \notin gone /\ w.watched[y] # None
  <2>1. Located(fs, q, w, y) /\ Traversed(fs, w, q, y)
    OBVIOUS
  <2>2. CASE y # x
    <3>1. y \notin gone \union xs
      BY <1>1, <1>5, <2>2
    <3>2. Accounts(fs, w, q, NotOpening, y)
      BY <2>2
    <3>3. Accounts(fs, w, q, n, y)
      BY <3>2 DEF Accounts, Covered, NotOpening
    <3> QED BY <2>1, <3>1, <3>3
  <2>3. CASE y = x
    <3>1. y \notin gone \union xs => Accounts(fs, w, q, n, y)
      BY <1>5, <2>3 DEF Accounts, Covered
    <3> QED BY <1>5, <2>1, <2>3, <3>1
  <2> QED BY <2>2, <2>3
<1> HIDE DEF q
<1>8. Sound(fs, worker', kernel') /\ Covers(fs, worker', kernel'.queue, n)
  BY <1>1, <1>4, <1>6, <1>7, RemovalCovers DEF v, q
<1> QED BY <1>2, <1>8

LEMMA OpenCovers ==
  ASSUME ~Lossy, CoverInv, NEW x \in Interests, Open(x)
  PROVE  CoverInv'
<1> DEFINE jb == worker.jobs \ {x}
           fd == IF x[1] \in worker.recon THEN worker.found \union {x} ELSE worker.found
           w == [worker EXCEPT !.jobs = jb, !.found = fd]
           q == kernel.queue
<1>1. opening = NotOpening /\ OpenPath(w, x)
  BY DEF Open
<1>2. TableInv /\ TableInv'
  BY OpenTable DEF CoverInv
<1>3. /\ Registry(worker) /\ worker \in Workers /\ Follows(worker, kernel, {}) /\ kernel \in Kernels
      /\ Sound(fs, worker, kernel) /\ Covers(fs, worker, q, NotOpening)
  BY <1>1, <1>2, Idle DEF NotOpening, CoverInv, Follows
<1>4. /\ jb \in SUBSET Interests /\ fd \in SUBSET Interests
      /\ \A y \in worker.jobs : y # x => y \in jb
      /\ jb \subseteq worker.jobs
      /\ worker.found \subseteq fd
      /\ x[1] \in worker.recon => x \in fd
  BY <1>3 DEF Workers
<1> HIDE DEF jb, fd
<1>5. /\ w \in Workers /\ w.jobs = jb /\ w.found = fd
      /\ w.watches = worker.watches /\ w.index = worker.index /\ w.retired = worker.retired
      /\ w.exhausted = worker.exhausted /\ w.watched = worker.watched /\ w.budget = worker.budget
      /\ w.disposing = worker.disposing /\ w.recon = worker.recon
      /\ w.deferred = worker.deferred /\ w.uncertain = worker.uncertain /\ w.quiet = worker.quiet
  BY <1>3, <1>4 DEF Workers
<1> HIDE DEF w
<1>6. Registry(w) /\ Follows(w, kernel, {}) /\ Present(w) = Present(worker)
  <2>1. SameTable(worker, w) /\ Scoped(w)
    BY <1>3, <1>4, <1>5 DEF SameTable, Scoped, Registry, Active
  <2> QED BY <1>3, <1>5, <2>1, SameTableRegistry, SameTableFollows DEF Present
<1>7. Sound(fs, w, kernel)
  BY <1>3, <1>5, <1>6, SameWatchesSound
<1>8. ASSUME NEW y \in Interests
      PROVE  /\ Located(fs, q, w, y) /\ Traversed(fs, w, q, y)
             /\ y # x => Accounts(fs, w, q, NotOpening, y)
  <2>1. /\ Located(fs, q, worker, y) /\ Traversed(fs, worker, q, y)
        /\ Accounts(fs, worker, q, NotOpening, y)
    BY <1>3 DEF Covers
  <2>2. Located(fs, q, w, y)
    BY <1>5, <2>1 DEF Located, Active
  <2>3. Traversed(fs, w, q, y)
    BY <1>4, <1>5, <2>1 DEF Traversed
  <2>4. y # x => Accounts(fs, w, q, NotOpening, y)
    BY <1>4, <1>5, <2>1 DEF Accounts, Covered
  <2> QED BY <2>2, <2>3, <2>4
<1>9. Sound(fs', worker', kernel') /\ Covers(fs', worker', kernel'.queue, opening')
  BY <1>1, <1>6, <1>7, <1>8, OpenPathCovers
<1> QED BY <1>2, <1>9 DEF CoverInv

LEMMA PromoteCovers ==
  ASSUME ~Lossy, CoverInv, NEW x \in Interests, Promote(x)
  PROVE  CoverInv'
<1>1. opening = NotOpening /\ OpenPath(worker, x)
  BY DEF Promote
<1>2. TableInv /\ TableInv'
  BY PromoteTable DEF CoverInv
<1>3. /\ Registry(worker) /\ Follows(worker, kernel, {})
      /\ Sound(fs, worker, kernel) /\ Covers(fs, worker, kernel.queue, NotOpening)
  BY <1>1, <1>2, Idle DEF NotOpening, CoverInv
<1>4. \A y \in Interests :
        /\ Located(fs, kernel.queue, worker, y) /\ Traversed(fs, worker, kernel.queue, y)
        /\ Accounts(fs, worker, kernel.queue, NotOpening, y)
  BY <1>3 DEF Covers
<1>5. Sound(fs', worker', kernel') /\ Covers(fs', worker', kernel'.queue, opening')
  BY <1>1, <1>3, <1>4, OpenPathCovers
<1> QED BY <1>2, <1>5 DEF CoverInv

LEMMA ReadCovers ==
  ASSUME ~Lossy, CoverInv, Read
  PROVE  CoverInv'
<1> DEFINE x == opening.of
           gone == IF fs[x[2]] = None THEN Watched(worker, {x}) ELSE {}
           v == Forgotten(RemoveInterests(worker, gone), {x})
           q == kernel.queue
<1>1. /\ opening.stage = "reading" /\ opening' = NotOpening /\ fs' = fs
      /\ worker' = v /\ kernel' = RmWatches(kernel, Released(worker, v))
  BY DEF Read
<1>2. TableInv /\ TableInv'
  BY ReadTable DEF CoverInv
<1>3. /\ Registry(worker) /\ Follows(worker, kernel, {}) /\ x \in Interests
      /\ Sound(fs, worker, kernel) /\ Covers(fs, worker, q, opening)
  BY <1>1, <1>2, Idle DEF CoverInv, Opens
<1>4. gone \in SUBSET Interests /\ gone \subseteq {x}
  BY <1>3 DEF Watched
<1>5. fs[x[2]] = None \/ (x \notin gone /\ worker.watched[x] # None)
  BY <1>1, <1>3 DEF Covers, Opened
<1> HIDE DEF gone
<1>6. ASSUME NEW y \in Interests
      PROVE  /\ y \in gone \/ Located(fs, q, worker, y)
             /\ Traversed(fs, worker, q, y)
             /\ y \notin gone \union {x} => Accounts(fs, worker, q, NotOpening, y)
             /\ y \in gone \union {x}
                  => \/ y[1] \in worker.disposing
                     \/ fs[y[2]] = None \/ y \in worker.jobs \/ Announces(q, y[2])
                     \/ NotOpening.of = y /\ NotOpening.stage \in {"identified", "added"}
                     \/ y \notin gone /\ worker.watched[y] # None
  <2>1. /\ Located(fs, q, worker, y) /\ Traversed(fs, worker, q, y)
        /\ Accounts(fs, worker, q, opening, y)
    BY <1>3 DEF Covers
  <2>2. Accounts(fs, worker, q, NotOpening, y)
    BY <1>1, <2>1 DEF Accounts, Covered
  <2> QED BY <1>4, <1>5, <2>1, <2>2
<1> HIDE DEF x
<1>7. v = Forgotten(RemoveInterests(worker, gone), {x}) /\ Opened(v, NotOpening)
  BY ClosedCovers
<1> HIDE DEF v
<1>8. /\ Sound(fs, v, RmWatches(kernel, Released(worker, v)))
      /\ Covers(fs, v, RmWatches(kernel, Released(worker, v)).queue, NotOpening)
  BY <1>3, <1>4, <1>6, <1>7, RemovalCovers
<1>9. Sound(fs, worker', kernel') /\ Covers(fs, worker', kernel'.queue, NotOpening)
  BY <1>1, <1>8
<1> QED BY <1>1, <1>2, <1>9 DEF CoverInv

LEMMA SweepCovers ==
  ASSUME ~Lossy, CoverInv, NEW x \in Interests, Sweep(x)
  PROVE  CoverInv'
<1> DEFINE gone == Watched(worker, {x})
           v == Forgotten(RemoveInterests(worker, gone), {x})
           q == kernel.queue
<1>1. /\ opening = NotOpening /\ opening' = opening /\ fs' = fs
      /\ x[1] \in worker.recon /\ x \notin worker.found
      /\ worker' = v /\ kernel' = RmWatches(kernel, Released(worker, v))
  BY DEF Sweep, Unfound
<1>2. TableInv /\ TableInv'
  BY SweepTable DEF CoverInv
<1>3. /\ Registry(worker) /\ Follows(worker, kernel, {})
      /\ Sound(fs, worker, kernel) /\ Covers(fs, worker, q, NotOpening)
  BY <1>1, <1>2, Idle DEF CoverInv, NotOpening
<1>4. gone \in SUBSET Interests /\ gone \subseteq {x}
  BY DEF Watched
<1>5. fs[x[2]] = None \/ x \in worker.jobs \/ Announces(q, x[2])
  BY <1>1, <1>3 DEF Covers, Traversed
<1> HIDE DEF gone
<1>6. ASSUME NEW y \in Interests
      PROVE  /\ y \in gone \/ Located(fs, q, worker, y)
             /\ Traversed(fs, worker, q, y)
             /\ y \notin gone \union {x} => Accounts(fs, worker, q, NotOpening, y)
             /\ y \in gone \union {x}
                  => fs[y[2]] = None \/ y \in worker.jobs \/ Announces(q, y[2])
  BY <1>3, <1>4, <1>5 DEF Covers
<1> HIDE DEF q
<1>7. Sound(fs, worker', kernel') /\ Covers(fs, worker', kernel'.queue, NotOpening)
  BY <1>1, <1>3, <1>4, <1>6, RemovalCovers, ClosedCovers DEF q
<1> QED BY <1>1, <1>2, <1>7 DEF CoverInv

LEMMA DisposeInterestCovers ==
  ASSUME ~Lossy, CoverInv, NEW x \in Interests, DisposeInterest(x)
  PROVE  CoverInv'
<1> DEFINE u == RemoveInterests(worker, {x})
           v == Forgotten(u, {})
           q == kernel.queue
<1>1. /\ opening = NotOpening /\ opening' = opening /\ fs' = fs
      /\ x[1] \in worker.disposing
      /\ worker' = u /\ kernel' = RmWatches(kernel, Released(worker, u))
  BY DEF DisposeInterest
<1>2. TableInv /\ TableInv'
  BY DisposeInterestTable DEF CoverInv
<1>3. /\ Registry(worker) /\ Follows(worker, kernel, {})
      /\ Sound(fs, worker, kernel) /\ Covers(fs, worker, q, NotOpening)
  BY <1>1, <1>2, Idle DEF CoverInv, NotOpening
<1>4. {x} \in SUBSET Interests
  OBVIOUS
<1>5. v = u
  BY <1>3, <1>4, RemoveInterestsFields, ForgottenNothing
<1>6. ASSUME NEW y \in Interests
      PROVE  /\ y \in {x} \/ Located(fs, q, worker, y)
             /\ Traversed(fs, worker, q, y)
             /\ y \notin {x} \union {} => Accounts(fs, worker, q, NotOpening, y)
             /\ y \in {x} \union {} => y[1] \in worker.disposing
  BY <1>1, <1>3 DEF Covers
<1>7. worker' = v /\ kernel' = RmWatches(kernel, Released(worker, v))
  BY <1>1, <1>5
<1> HIDE DEF q, u
<1>8. Sound(fs, worker', kernel') /\ Covers(fs, worker', kernel'.queue, NotOpening)
  BY <1>3, <1>4, <1>6, <1>7, RemovalCovers, ClosedCovers DEF q, u
<1> QED BY <1>1, <1>2, <1>8 DEF CoverInv

LEMMA ReconcileCovers ==
  ASSUME CoverInv, NEW s \in Subs, Reconcile(s)
  PROVE  CoverInv'
<1> DEFINE w == worker
           v == worker'
           q == kernel.queue
<1>1. /\ opening' = opening /\ fs' = fs /\ kernel' = kernel
      /\ worker' = [worker EXCEPT !.recon = @ \union {s}, !.quiet = @ \union {s},
                                  !.found = @ \ ({s} \X Paths),
                                  !.jobs = @ \union ({s} \X {p \in Paths : fs[p] # None})]
  BY DEF Reconcile
<1>2. TableInv /\ TableInv'
  BY ReconcileTable DEF CoverInv
<1>3. /\ Registry(w) /\ w \in Workers /\ kernel \in Kernels
      /\ Sound(fs, w, kernel) /\ Covers(fs, w, q, opening)
  BY <1>2 DEF CoverInv, TableInv, Registry, Follows
<1>4. /\ v.recon = w.recon \union {s} /\ v.quiet = w.quiet \union {s}
      /\ v.found = w.found \ ({s} \X Paths)
      /\ v.jobs = w.jobs \union ({s} \X {p \in Paths : fs[p] # None})
      /\ v.watches = w.watches /\ v.watched = w.watched /\ v.retired = w.retired
      /\ v.exhausted = w.exhausted /\ v.deferred = w.deferred
      /\ v.disposing = w.disposing /\ v.uncertain = w.uncertain
  BY <1>1, <1>3 DEF Workers
<1> HIDE DEF w, v, q
<1>5. Sound(fs, v, kernel)
  BY <1>3, <1>4, SameWatchesSound DEF Present
<1>6. ASSUME NEW y \in Interests
      PROVE  Located(fs, q, v, y) /\ Accounts(fs, v, q, opening, y) /\ Traversed(fs, v, q, y)
  <2>1. Located(fs, q, w, y) /\ Accounts(fs, w, q, opening, y) /\ Traversed(fs, w, q, y)
    BY <1>3 DEF Covers
  <2>2. y[1] = s /\ fs[y[2]] # None => y \in v.jobs
    <3>1. y = <<y[1], y[2]>> /\ y[2] \in Paths
      BY InterestParts DEF Interests
    <3> QED BY <1>4, <3>1
  <2>3. y \in w.jobs => y \in v.jobs
    BY <1>4
  <2>4. Located(fs, q, v, y)
    BY <1>4, <2>1 DEF Located, Active
  <2>5. Accounts(fs, v, q, opening, y)
    BY <1>4, <2>1, <2>2, <2>3 DEF Accounts, Covered
  <2>6. Traversed(fs, v, q, y)
    <3>1. CASE y[1] = s
      BY <2>2, <3>1 DEF Traversed
    <3>2. CASE y[1] # s
      <4>1. y \in w.found => y \in v.found
        BY <1>4, <3>2
      <4> QED BY <1>4, <2>1, <2>3, <3>2, <4>1 DEF Traversed
    <3> QED BY <3>1, <3>2
  <2> QED BY <2>4, <2>5, <2>6
<1>7. Covers(fs, v, q, opening)
  BY <1>3, <1>4, <1>6 DEF Covers, Opened
<1> QED BY <1>1, <1>2, <1>5, <1>7 DEF CoverInv, v, q

LEMMA CommitReconciliationCovers ==
  ASSUME CoverInv, NEW s \in Subs, CommitReconciliation(s)
  PROVE  CoverInv'
<1> DEFINE w == worker
           v == worker'
           q == kernel.queue
<1>1. /\ opening' = opening /\ fs' = fs /\ kernel' = kernel /\ s \in worker.recon
      /\ worker' = [worker EXCEPT
                      !.recon = @ \ {s}, !.found = @ \ ({s} \X Paths),
                      !.quiet = @ \ {s},
                      !.uncertain = IF s \in worker.quiet THEN @ \ {s} ELSE @]
  BY DEF CommitReconciliation
<1>2. TableInv /\ TableInv'
  BY CommitReconciliationTable DEF CoverInv
<1>3. /\ Registry(w) /\ w \in Workers /\ kernel \in Kernels
      /\ Sound(fs, w, kernel) /\ Covers(fs, w, q, opening)
  BY <1>2 DEF CoverInv, TableInv, Registry, Follows
<1>4. /\ v.recon = w.recon \ {s} /\ v.quiet = w.quiet \ {s}
      /\ v.found = w.found \ ({s} \X Paths)
      /\ v.uncertain = IF s \in w.quiet THEN w.uncertain \ {s} ELSE w.uncertain
      /\ v.watches = w.watches /\ v.watched = w.watched /\ v.retired = w.retired
      /\ v.exhausted = w.exhausted /\ v.deferred = w.deferred
      /\ v.disposing = w.disposing /\ v.jobs = w.jobs
  BY <1>1, <1>3 DEF Workers
<1> HIDE DEF w, v, q
<1>5. Sound(fs, v, kernel)
  BY <1>3, <1>4, SameWatchesSound DEF Present
<1>6. ASSUME NEW y \in Interests
      PROVE  Located(fs, q, v, y) /\ Accounts(fs, v, q, opening, y) /\ Traversed(fs, v, q, y)
  <2>1. Located(fs, q, w, y) /\ Accounts(fs, w, q, opening, y) /\ Traversed(fs, w, q, y)
    BY <1>3 DEF Covers
  <2>2. Located(fs, q, v, y)
    BY <1>4, <2>1 DEF Located, Active
  <2>3. Covered(fs, w, q, opening, y) => Covered(fs, v, q, opening, y)
    BY <1>4 DEF Covered
  <2>4. y[1] \in w.uncertain /\ y[1] \notin w.quiet => y[1] \in v.uncertain /\ y[1] \notin v.quiet
    BY <1>4
  <2>5. Accounts(fs, v, q, opening, y)
    BY <1>4, <2>1, <2>3, <2>4 DEF Accounts
  <2>6. Traversed(fs, v, q, y)
    <3>1. y[1] # s => (y \in w.found => y \in v.found)
      BY <1>4
    <3> QED BY <1>4, <2>1, <3>1 DEF Traversed
  <2> QED BY <2>2, <2>5, <2>6
<1>7. Covers(fs, v, q, opening)
  BY <1>3, <1>4, <1>6 DEF Covers, Opened
<1> QED BY <1>1, <1>2, <1>5, <1>7 DEF CoverInv, v, q

LEMMA BeginDisposalCovers ==
  ASSUME CoverInv, NEW s \in Subs, BeginDisposal(s)
  PROVE  CoverInv'
<1> DEFINE w == worker
           v == worker'
           q == kernel.queue
           D == [x \in Interests |-> IF x[1] = s THEN "no" ELSE worker.deferred[x]]
<1>1. /\ opening' = opening /\ fs' = fs /\ kernel' = kernel
      /\ worker' = [worker EXCEPT
                      !.disposing = @ \union {s}, !.recon = @ \ {s}, !.quiet = @ \ {s},
                      !.found = @ \ ({s} \X Paths), !.jobs = @ \ ({s} \X Paths),
                      !.deferred = D]
  BY DEF BeginDisposal
<1>2. TableInv /\ TableInv'
  BY BeginDisposalTable DEF CoverInv
<1>3. /\ Registry(w) /\ w \in Workers /\ kernel \in Kernels
      /\ Sound(fs, w, kernel) /\ Covers(fs, w, q, opening)
  BY <1>2 DEF CoverInv, TableInv, Registry, Follows
<1>4. \A x \in Interests : x[1] # s => D[x] = w.deferred[x]
  OBVIOUS
<1> HIDE DEF D
<1>5. /\ v.recon = w.recon \ {s} /\ v.quiet = w.quiet \ {s}
      /\ v.found = w.found \ ({s} \X Paths) /\ v.jobs = w.jobs \ ({s} \X Paths)
      /\ v.deferred = D /\ v.disposing = w.disposing \union {s}
      /\ v.watches = w.watches /\ v.watched = w.watched /\ v.retired = w.retired
      /\ v.exhausted = w.exhausted /\ v.uncertain = w.uncertain
  BY <1>1, <1>3 DEF Workers
<1> HIDE DEF w, v, q
<1>6. Sound(fs, v, kernel)
  BY <1>3, <1>5, SameWatchesSound DEF Present
<1>7. ASSUME NEW y \in Interests
      PROVE  Located(fs, q, v, y) /\ Accounts(fs, v, q, opening, y) /\ Traversed(fs, v, q, y)
  <2>1. Located(fs, q, w, y) /\ Accounts(fs, w, q, opening, y) /\ Traversed(fs, w, q, y)
    BY <1>3 DEF Covers
  <2>2. Located(fs, q, v, y)
    BY <1>5, <2>1 DEF Located, Active
  <2>3. CASE y[1] = s
    BY <1>5, <2>2, <2>3 DEF Accounts, Traversed
  <2>4. CASE y[1] # s
    <3>1. /\ y \in w.found => y \in v.found
          /\ y \in w.jobs => y \in v.jobs
      BY <1>5, <2>4
    <3> QED BY <1>4, <1>5, <2>1, <2>2, <2>4, <3>1 DEF Accounts, Covered, Traversed
  <2> QED BY <2>3, <2>4
<1>8. Covers(fs, v, q, opening)
  BY <1>3, <1>5, <1>7 DEF Covers, Opened
<1> QED BY <1>1, <1>2, <1>6, <1>8 DEF CoverInv, v, q

----------------------------------------------------------------------------
(* What the reading of a record leaves accounted for.                     *)

\* A record that is neither of a path is read, and changes no interest.
LEMMA TailCovers ==
  ASSUME NEW f, NEW w, w \in Workers, NEW v, NEW q \in Seq(Records), q # <<>>,
         Head(q).kind \notin {"created", "removed"}, NEW o, Covers(f, w, q, o),
         v.watched = w.watched,
         \A d \in Descriptors : v.watches[d].identity = w.watches[d].identity,
         v.deferred = w.deferred, v.jobs = w.jobs, v.found = w.found, v.recon = w.recon,
         v.disposing = w.disposing, w.uncertain \subseteq v.uncertain, v.quiet \subseteq w.quiet
  PROVE  Covers(f, v, Tail(q), o)
<1>1. \A r : r.kind \in {"created", "removed"} => (Contains(q, r) => Contains(Tail(q), r))
  BY ContainsTail
<1>2. \A p : /\ Contains(q, Record("removed", p)) => Contains(Tail(q), Record("removed", p))
             /\ Announces(q, p) => Announces(Tail(q), p)
  BY <1>1 DEF Record, Announces
<1>3. \A x \in Interests : w.watched[x] \in Descriptors \union {None}
  BY DEF Workers
<1>4. ASSUME NEW x \in Interests
      PROVE  Located(f, Tail(q), v, x) /\ Accounts(f, v, Tail(q), o, x) /\ Traversed(f, v, Tail(q), x)
  <2>1. Located(f, q, w, x) /\ Accounts(f, w, q, o, x) /\ Traversed(f, w, q, x)
    BY DEF Covers
  <2>2. Located(f, Tail(q), v, x)
    BY <1>2, <1>3, <2>1 DEF Located, Active
  <2>3. Accounts(f, v, Tail(q), o, x)
    BY <1>2, <2>1 DEF Accounts, Covered
  <2>4. Traversed(f, v, Tail(q), x)
    BY <1>2, <2>1 DEF Traversed
  <2> QED BY <2>2, <2>3, <2>4
<1> QED BY <1>4 DEF Covers, Opened

LEMMA HandleDeleteSelfFields ==
  ASSUME NEW w, w \in Workers, NEW d \in Descriptors
  PROVE  LET v == HandleDeleteSelf(w, d)
         IN  /\ \A e \in Descriptors : /\ v.watches[e].identity = w.watches[e].identity
                                       /\ e # d => v.watches[e].expects = w.watches[e].expects
             /\ v.watched = w.watched /\ v.deferred = w.deferred
             /\ v.jobs = w.jobs /\ v.found = w.found /\ v.recon = w.recon
             /\ v.disposing = w.disposing /\ v.uncertain = w.uncertain /\ v.quiet = w.quiet
<1> DEFINE v == HandleDeleteSelf(w, d)
           told == w.watches[d].expects \/ \E x \in w.watches[d].interests : x[1] \in Active(w)
           WT == [w.watches EXCEPT ![d].expects = told]
<1>1. w.watches \in [Descriptors -> Watches]
  BY DEF Workers
<1>2. v = [w EXCEPT !.watches = WT]
  BY DEF HandleDeleteSelf
<1> HIDE DEF told
<1>3. \A e \in Descriptors : /\ WT[e].identity = w.watches[e].identity
                             /\ e # d => WT[e].expects = w.watches[e].expects
  BY <1>1 DEF Watches
<1> HIDE DEF v, WT
<1>4. /\ v.watches = WT /\ v.watched = w.watched /\ v.deferred = w.deferred
      /\ v.jobs = w.jobs /\ v.found = w.found /\ v.recon = w.recon
      /\ v.disposing = w.disposing /\ v.uncertain = w.uncertain /\ v.quiet = w.quiet
  BY <1>2 DEF Workers
<1> QED BY <1>3, <1>4 DEF v

\* The end of a watch is read.  An interest on it is announced again behind it,
\* unless whoever had it did not know, and is uncertain from then on.
LEMMA LostCovers ==
  ASSUME NEW f, NEW w, Registry(w), NEW k \in Kernels, k.queue # <<>>, NEW d \in Present(w),
         Head(k.queue) = Record("ignored", d), w.retired[d] = NoRange, NEW o,
         Sound(f, w, k), Covers(f, w, k.queue, o), o.stage # "reading"
  PROVE  Covers(f, Lost(w, d), Tail(k.queue), o)
<1> DEFINE v == Lost(w, d)
           q == k.queue
           held == {x \in w.watches[d].interests : x[1] \in Active(w)}
<1>1. /\ \A e \in Descriptors : e # d => v.watches[e] = w.watches[e]
      /\ \A x \in Interests : v.watched[x] = IF x \in held THEN None ELSE w.watched[x]
      /\ v.deferred = w.deferred /\ v.jobs = w.jobs /\ v.found = w.found
      /\ v.recon = w.recon /\ v.disposing = w.disposing
      /\ w.uncertain \subseteq v.uncertain /\ v.quiet \subseteq w.quiet
      /\ ~w.watches[d].expects =>
           \A x \in held : x[1] \in v.uncertain /\ x[1] \notin v.quiet
  BY LostFields
<1> HIDE DEF v
<1>2. q \in Seq(Records) /\ d \in Descriptors /\ w \in Workers
  BY DEF Kernels, Present, Registry
<1>3. \A p : /\ Contains(q, Record("removed", p)) => Contains(Tail(q), Record("removed", p))
             /\ Announces(q, p) => Announces(Tail(q), p)
  BY <1>2, ContainsTail DEF Record, Announces
<1>4. ASSUME NEW x \in Interests
      PROVE  Located(f, Tail(q), v, x) /\ Accounts(f, v, Tail(q), o, x) /\ Traversed(f, v, Tail(q), x)
  <2>1. Located(f, q, w, x) /\ Accounts(f, w, q, o, x) /\ Traversed(f, w, q, x) /\ x[2] \in Paths
    BY InterestParts DEF Covers
  <2>2. Traversed(f, v, Tail(q), x)
    BY <1>1, <1>3, <2>1 DEF Traversed
  <2>3. CASE x \in held
    <3>1. w.watched[x] = d /\ d # None /\ x[1] \in Active(w) /\ v.watched[x] = None
      BY <1>1, <1>2, <2>3, KernelAssumption DEF Registry, Linked
    <3>2. Located(f, Tail(q), v, x)
      BY <3>1 DEF Located
    <3>3. CASE f[x[2]] = None
      BY <2>2, <3>2, <3>3 DEF Accounts, Covered
    <3>4. CASE f[x[2]] # None /\ Contains(q, Record("removed", x[2]))
      <4>1. Announces(q, x[2])
        BY <2>1, <3>4, FollowedContains DEF Sound, Announces
      <4> QED BY <1>3, <2>2, <3>2, <4>1 DEF Accounts, Covered
    <3>5. CASE f[x[2]] = w.watches[d].identity /\ w.watches[d].expects
      <4> DEFINE r == Record("created", x[2])
      <4>1. r \in Records
        BY <2>1 DEF Record, Records
      <4>2. Awaits(w, d) = 0 /\ Tied(f, w, k, d)
        BY DEF Awaits, Sound
      <4>3. After(q, d, 1, r)
        BY <2>1, <3>5, <4>2 DEF Tied, Ended
      <4> HIDE DEF r
      <4>4. After(Tail(q), d, 1 - (IF Head(q) = Record("ignored", d) THEN 1 ELSE 0), r)
        BY <1>2, <4>1, <4>3, AfterTail
      <4>5. Contains(Tail(q), r)
        BY <4>1, <4>4, AfterContains
      <4> QED BY <2>2, <3>2, <4>5 DEF Accounts, Covered, Announces, r
    <3>6. CASE ~w.watches[d].expects
      BY <1>1, <2>2, <2>3, <3>2, <3>6 DEF Accounts
    <3>7. f[x[2]] = w.watches[d].identity \/ Contains(q, Record("removed", x[2]))
      BY <2>1, <3>1 DEF Located
    <3> QED BY <3>3, <3>4, <3>5, <3>6, <3>7
  <2>4. CASE x \notin held
    <3>1. v.watched[x] = w.watched[x]
      BY <1>1, <2>4
    <3>2. Located(f, Tail(q), v, x)
      <4>1. SUFFICES ASSUME w.watched[x] # None, x[1] \in Active(w)
                     PROVE  \/ f[x[2]] = v.watches[w.watched[x]].identity
                            \/ Contains(Tail(q), Record("removed", x[2]))
        BY <1>1, <3>1 DEF Located, Active
      <4>2. w.watched[x] \in Descriptors
        BY <1>2, <4>1 DEF Workers
      <4>3. w.watched[x] # d
        BY <1>2, <2>4, <4>1 DEF Registry, Linked
      <4> QED BY <1>1, <1>3, <2>1, <4>1, <4>2, <4>3 DEF Located
    <3>3. Accounts(f, v, Tail(q), o, x)
      BY <1>1, <1>3, <2>1, <3>1 DEF Accounts, Covered
    <3> QED BY <2>2, <3>2, <3>3
  <2> QED BY <2>3, <2>4
<1>5. Covers(f, v, Tail(q), o)
  BY <1>4 DEF Covers, Opened
<1> QED BY <1>5 DEF v

\* The creation of a path gives everyone who is active a job.
LEMMA CreatedHandled ==
  ASSUME NEW f, NEW w, Registry(w), NEW k \in Kernels, k.queue # <<>>, NEW p \in Paths,
         Head(k.queue) = Record("created", p), NEW o, Sound(f, w, k), Covers(f, w, k.queue, o)
  PROVE  /\ Sound(f, HandleCreated(w, p), [k EXCEPT !.queue = Tail(@)])
         /\ Covers(f, HandleCreated(w, p), Tail(k.queue), o)
<1> DEFINE v == HandleCreated(w, p)
           q == k.queue
<1>1. w \in Workers /\ q \in Seq(Records) /\ w.recon \subseteq Active(w)
  BY DEF Registry, Kernels, Scoped
<1>2. v = [w EXCEPT !.jobs = w.jobs \union (Active(w) \X {p})]
  BY DEF HandleCreated
<1> HIDE DEF v
<1>3. /\ v.jobs = w.jobs \union (Active(w) \X {p})
      /\ v.watches = w.watches /\ v.watched = w.watched /\ v.retired = w.retired
      /\ v.exhausted = w.exhausted /\ v.deferred = w.deferred /\ v.found = w.found
      /\ v.recon = w.recon /\ v.disposing = w.disposing
      /\ v.uncertain = w.uncertain /\ v.quiet = w.quiet
  BY <1>1, <1>2 DEF Workers
<1>4. Sound(f, v, [k EXCEPT !.queue = Tail(@)])
  <2>1. Head(q).kind # "ignored" /\ Present(v) = Present(w)
    BY <1>3 DEF Record, Present
  <2> QED BY <1>3, <2>1, SoundTail
<1>5. /\ \A y : Contains(q, Record("removed", y)) => Contains(Tail(q), Record("removed", y))
      /\ \A y : Announces(q, y) => Announces(Tail(q), y) \/ y = p
  BY <1>1, ContainsTail DEF Record, Announces
<1>6. ASSUME NEW x \in Interests
      PROVE  Located(f, Tail(q), v, x) /\ Accounts(f, v, Tail(q), o, x) /\ Traversed(f, v, Tail(q), x)
  <2>1. Located(f, q, w, x) /\ Accounts(f, w, q, o, x) /\ Traversed(f, w, q, x)
    BY DEF Covers
  <2>2. x[2] = p /\ x[1] \in Active(w) => x \in v.jobs
    <3>1. x = <<x[1], x[2]>>
      BY DEF Interests
    <3> QED BY <1>3, <3>1
  <2>3. x \in w.jobs => x \in v.jobs
    BY <1>3
  <2>4. x[1] \in Active(w) \/ x[1] \in w.disposing
    BY InterestParts DEF Active
  <2>5. Located(f, Tail(q), v, x)
    BY <1>3, <1>5, <2>1 DEF Located, Active
  <2>6. Accounts(f, v, Tail(q), o, x)
    BY <1>3, <1>5, <2>1, <2>2, <2>3, <2>4 DEF Accounts, Covered
  <2>7. Traversed(f, v, Tail(q), x)
    BY <1>1, <1>3, <1>5, <2>1, <2>2, <2>3 DEF Traversed
  <2> QED BY <2>5, <2>6, <2>7
<1>7. Covers(f, v, Tail(q), o)
  BY <1>3, <1>6 DEF Covers, Opened
<1> QED BY <1>4, <1>7 DEF v

\* The removal of a path takes its interests away; a directory that is at the path
\* again is announced behind it.
LEMMA RemovedHandled ==
  ASSUME ~Lossy, NEW f, NEW w, Registry(w), NEW k, Follows(w, k, {}), k.queue # <<>>,
         NEW p \in Paths, Head(k.queue) = Record("removed", p), NEW o, o.stage = "none",
         Sound(f, w, k), Covers(f, w, k.queue, o)
  PROVE  LET v == HandleRemoved(w, p)
             t == RmWatches([k EXCEPT !.queue = Tail(@)], Released(w, v))
         IN  Sound(f, v, t) /\ Covers(f, v, t.queue, o)
<1> DEFINE xs == Active(w) \X {p}
           gone == Watched(w, xs)
           v == HandleRemoved(w, p)
           j == [k EXCEPT !.queue = Tail(@)]
           q == k.queue
<1>1. k \in Kernels /\ q \in Seq(Records)
  BY DEF Follows, Kernels
<1>2. /\ v = Forgotten(RemoveInterests(w, gone), xs)
      /\ gone \in SUBSET Interests /\ gone \subseteq xs
  BY DEF HandleRemoved, Watched, Active, Interests
<1>3. \A x \in Interests : x \in xs <=> x[1] \in Active(w) /\ x[2] = p
  BY DEF Interests
<1>4. \A x \in Interests : x \in xs /\ w.watched[x] # None => x \in gone
  BY DEF Watched
<1>5. Follows(w, j, {}) /\ j.queue = Tail(q)
  BY <1>1, TailFollows, TailKernel DEF Record
<1>6. Sound(f, w, j)
  BY <1>1, SoundTail DEF Record
<1> HIDE DEF v, gone, xs, j
<1>7. /\ \A y : y # p /\ Contains(q, Record("removed", y)) => Contains(Tail(q), Record("removed", y))
      /\ \A y : Announces(q, y) => Announces(Tail(q), y)
  BY <1>1, ContainsTail DEF Record, Announces
<1>8. f[p] # None => Announces(Tail(q), p)
  BY <1>1, FollowedHead DEF Sound, Announces
<1>9. Opened(v, o)
  BY DEF Opened
<1>10. ASSUME NEW x \in Interests
       PROVE  /\ x \in gone \/ Located(f, j.queue, w, x)
              /\ Traversed(f, w, j.queue, x)
              /\ x \notin gone \union xs => Accounts(f, w, j.queue, o, x)
              /\ x \in gone \union xs
                   => \/ x[1] \in w.disposing
                      \/ f[x[2]] = None \/ x \in w.jobs \/ Announces(j.queue, x[2])
                      \/ o.of = x /\ o.stage \in {"identified", "added"}
                      \/ x \notin gone /\ w.watched[x] # None
  <2>1. Located(f, q, w, x) /\ Accounts(f, w, q, o, x) /\ Traversed(f, w, q, x)
    BY DEF Covers
  <2>2. x \in gone \/ Located(f, Tail(q), w, x)
    BY <1>3, <1>4, <1>7, <2>1 DEF Located
  <2>3. Traversed(f, w, Tail(q), x)
    BY <1>7, <2>1 DEF Traversed
  <2>4. Accounts(f, w, Tail(q), o, x)
    BY <1>7, <2>1 DEF Accounts, Covered
  <2>5. x \in gone \union xs => f[x[2]] = None \/ Announces(Tail(q), x[2])
    BY <1>2, <1>3, <1>8
  <2> QED BY <1>5, <2>2, <2>3, <2>4, <2>5
<1>11. /\ Sound(f, v, RmWatches(j, Released(w, v)))
       /\ Covers(f, v, RmWatches(j, Released(w, v)).queue, o)
  BY <1>2, <1>5, <1>6, <1>9, <1>10, RemovalCovers
<1> QED BY <1>11 DEF v, j

\* The end of a watch: it is one that is awaited, or of the watch that is registered.
LEMMA IgnoredHandled ==
  ASSUME NEW f, NEW w, Registry(w), NEW k \in Kernels, k.queue # <<>>,
         NEW d \in Descriptors, Head(k.queue) = Record("ignored", d), NEW o, o.stage = "none",
         Sound(f, w, k), Covers(f, w, k.queue, o)
  PROVE  Covers(f, HandleIgnored(w, d), Tail(k.queue), o)
<1> DEFINE v == HandleIgnored(w, d)
<1>1. /\ w \in Workers /\ k.queue \in Seq(Records)
      /\ Head(k.queue).kind \notin {"created", "removed"}
  BY DEF Registry, Kernels, Record
<1> HIDE DEF v
<1>2. CASE w.retired[d] # NoRange
  <2>1. v = ConsumeExpected(w, d)
    BY <1>2 DEF HandleIgnored, v
  <2>2. /\ v.watches = w.watches /\ v.watched = w.watched
        /\ v.deferred = w.deferred /\ v.jobs = w.jobs /\ v.found = w.found
        /\ v.recon = w.recon /\ v.disposing = w.disposing
        /\ v.uncertain = w.uncertain /\ v.quiet = w.quiet
    BY <1>1, <2>1, ConsumeExpectedFields
  <2>3. Covers(f, v, Tail(k.queue), o)
    BY <1>1, <2>2, TailCovers
  <2> QED BY <2>3 DEF v
<1>3. CASE w.retired[d] = NoRange /\ d \in Present(w)
  <2>1. v = Lost(w, d)
    BY <1>3 DEF HandleIgnored, v
  <2>2. Covers(f, Lost(w, d), Tail(k.queue), o)
    BY <1>3, LostCovers
  <2> QED BY <2>1, <2>2 DEF v
<1>4. CASE w.retired[d] = NoRange /\ d \notin Present(w)
  <2>1. v = w
    BY <1>4 DEF HandleIgnored, v
  <2>2. Covers(f, w, Tail(k.queue), o)
    BY <1>1, TailCovers
  <2> QED BY <2>1, <2>2 DEF v
<1> QED BY <1>2, <1>3, <1>4

\* A directory is gone: the watch it had is told to expect its end.
LEMMA DeleteSelfHandled ==
  ASSUME NEW f, NEW w, Registry(w), NEW k \in Kernels, k.queue # <<>>,
         NEW d \in Descriptors, Head(k.queue) = Record("deleteself", d), NEW o,
         Sound(f, w, k), Covers(f, w, k.queue, o)
  PROVE  /\ Sound(f, HandleDeleteSelf(w, d), [k EXCEPT !.queue = Tail(@)])
         /\ Covers(f, HandleDeleteSelf(w, d), Tail(k.queue), o)
<1> DEFINE v == HandleDeleteSelf(w, d)
<1>1. /\ w \in Workers /\ k.queue \in Seq(Records)
      /\ Head(k.queue).kind \notin {"created", "removed", "ignored"}
  BY DEF Registry, Kernels, Record
<1>2. /\ Present(v) = Present(w) /\ v.retired = w.retired /\ v.exhausted = w.exhausted
  BY HandleDeleteSelfRegistry
<1>3. /\ \A e \in Descriptors : /\ v.watches[e].identity = w.watches[e].identity
                                /\ e # d => v.watches[e].expects = w.watches[e].expects
      /\ v.watched = w.watched /\ v.deferred = w.deferred
      /\ v.jobs = w.jobs /\ v.found = w.found /\ v.recon = w.recon
      /\ v.disposing = w.disposing /\ v.uncertain = w.uncertain /\ v.quiet = w.quiet
  BY <1>1, HandleDeleteSelfFields
<1> HIDE DEF v
<1>4. Contains(k.queue, Record("deleteself", d))
  BY <1>1, ContainsTail
<1>5. \A e \in Present(w) :
        /\ v.watches[e].identity = w.watches[e].identity
        /\ v.watches[e].expects => w.watches[e].expects \/ Contains(k.queue, Record("deleteself", e))
  BY <1>3, <1>4 DEF Present
<1>6. Sound(f, v, [k EXCEPT !.queue = Tail(@)])
  BY <1>1, <1>2, <1>5, SoundTail
<1>7. Covers(f, v, Tail(k.queue), o)
  BY <1>1, <1>3, TailCovers
<1> QED BY <1>6, <1>7 DEF v

\* Records were dropped: everyone who is active is uncertain.
LEMMA OverflowHandled ==
  ASSUME NEW f, NEW w, Registry(w), NEW k \in Kernels, k.queue # <<>>,
         Head(k.queue) = Overflow, NEW o, Sound(f, w, k), Covers(f, w, k.queue, o)
  PROVE  /\ Sound(f, MarkUncertain(w, Active(w)), [k EXCEPT !.queue = Tail(@)])
         /\ Covers(f, MarkUncertain(w, Active(w)), Tail(k.queue), o)
<1> DEFINE v == MarkUncertain(w, Active(w))
<1>1. /\ w \in Workers /\ k.queue \in Seq(Records) /\ Active(w) \in SUBSET Subs
      /\ Head(k.queue).kind \notin {"created", "removed", "ignored"}
  BY DEF Registry, Kernels, Record, Overflow, Active
<1>2. Alike(w, v) /\ Marks(w, v) /\ v.deferred = w.deferred
  BY <1>1, MarkUncertainAlike, MarkUncertainMarks
<1> HIDE DEF v
<1>3. Present(v) = Present(w) /\ v.retired = w.retired /\ v.exhausted = w.exhausted
  BY <1>2, AlikeRegistry DEF Alike, SameTable
<1>4. Sound(f, v, [k EXCEPT !.queue = Tail(@)])
  BY <1>1, <1>2, <1>3, SoundTail DEF Marks
<1>5. Covers(f, v, Tail(k.queue), o)
  BY <1>1, <1>2, TailCovers DEF Marks
<1> QED BY <1>4, <1>5 DEF v

LEMMA HandleRecordCovers ==
  ASSUME ~Lossy, CoverInv, HandleRecord
  PROVE  CoverInv'
<1> DEFINE w == worker
           k == kernel
           r == Head(kernel.queue)
           t == [kernel EXCEPT !.queue = Tail(@)]
           n == NotOpening
<1>1. /\ opening = n /\ k.queue # <<>> /\ fs' = fs /\ opening' = n
      /\ worker' = Handled(w, r)
      /\ kernel' = IF r.kind # "removed" THEN t ELSE RmWatches(t, Released(w, Handled(w, r)))
  BY DEF HandleRecord
<1>2. TableInv /\ TableInv'
  BY HandleRecordTable DEF CoverInv
<1>3. /\ Registry(w) /\ Follows(w, k, {}) /\ k \in Kernels
      /\ Sound(fs, w, k) /\ Covers(fs, w, k.queue, n)
  BY <1>1, <1>2, Idle DEF CoverInv, NotOpening, Follows
<1>4. r \in Records /\ t.queue = Tail(k.queue) /\ n.stage = "none"
  BY <1>1, <1>3, TailKernel DEF NotOpening
<1>5. SUFFICES Sound(fs, worker', kernel') /\ Covers(fs, worker', kernel'.queue, n)
  BY <1>1, <1>2 DEF CoverInv
<1>11. r = Head(k.queue) /\ t = [k EXCEPT !.queue = Tail(@)]
  OBVIOUS
<1> HIDE DEF w, n, k, r, t
<1>6. CASE r \in [kind : {"created"}, of : Paths]
  <2> DEFINE p == r.of
  <2>1. worker' = HandleCreated(w, p) /\ kernel' = t /\ p \in Paths /\ r = Record("created", p)
    BY <1>1, <1>6 DEF Handled, Record
  <2> HIDE DEF p
  <2>2. Sound(fs, HandleCreated(w, p), t) /\ Covers(fs, HandleCreated(w, p), Tail(k.queue), n)
    BY <1>1, <1>3, <1>11, <2>1, CreatedHandled
  <2> QED BY <1>4, <2>1, <2>2
<1>7. CASE r \in [kind : {"removed"}, of : Paths]
  <2> DEFINE p == r.of
  <2>1. /\ worker' = HandleRemoved(w, p) /\ kernel' = RmWatches(t, Released(w, worker'))
        /\ p \in Paths /\ r = Record("removed", p)
    BY <1>1, <1>7 DEF Handled, Record
  <2> HIDE DEF p
  <2>2. LET v == HandleRemoved(w, p)
            j == RmWatches([k EXCEPT !.queue = Tail(@)], Released(w, v))
        IN  Sound(fs, v, j) /\ Covers(fs, v, j.queue, n)
    BY <1>1, <1>3, <1>4, <1>11, <2>1, RemovedHandled
  <2> QED BY <1>11, <2>1, <2>2
<1>8. CASE r \in [kind : {"deleteself"}, of : Descriptors]
  <2> DEFINE d == r.of
  <2>1. /\ worker' = HandleDeleteSelf(w, d) /\ kernel' = t
        /\ d \in Descriptors /\ r = Record("deleteself", d)
    BY <1>1, <1>8 DEF Handled, Record
  <2> HIDE DEF d
  <2>2. Sound(fs, HandleDeleteSelf(w, d), t) /\ Covers(fs, HandleDeleteSelf(w, d), Tail(k.queue), n)
    BY <1>1, <1>3, <1>11, <2>1, DeleteSelfHandled
  <2> QED BY <1>4, <2>1, <2>2
<1>9. CASE r \in [kind : {"ignored"}, of : Descriptors]
  <2> DEFINE d == r.of
  <2>1. /\ worker' = HandleIgnored(w, d) /\ kernel' = t
        /\ d \in Descriptors /\ r = Record("ignored", d)
    BY <1>1, <1>9 DEF Handled, Record
  <2> HIDE DEF d
  <2>2. Head(k.queue) = Record("ignored", d)
    BY <1>11, <2>1
  <2>3. Sound(fs, HandleIgnored(w, d), t)
    BY <1>1, <1>3, <1>11, <2>1, <2>2, SoundIgnored
  <2>4. Covers(fs, HandleIgnored(w, d), Tail(k.queue), n)
    BY <1>1, <1>3, <1>4, <2>1, <2>2, IgnoredHandled
  <2> QED BY <1>4, <2>1, <2>3, <2>4
<1>10. CASE r = Overflow
  <2>1. worker' = MarkUncertain(w, Active(w)) /\ kernel' = t
    BY <1>1, <1>10 DEF Handled, Overflow, Record
  <2>2. Head(k.queue) = Overflow
    BY <1>10, <1>11
  <2>3. /\ Sound(fs, MarkUncertain(w, Active(w)), t)
        /\ Covers(fs, MarkUncertain(w, Active(w)), Tail(k.queue), n)
    BY <1>1, <1>3, <1>11, <2>2, OverflowHandled
  <2> QED BY <1>4, <2>1, <2>3
<1> QED
  <2>1. \/ r \in [kind : {"created"}, of : Paths]
        \/ r \in [kind : {"removed"}, of : Paths]
        \/ r \in [kind : {"deleteself"}, of : Descriptors]
        \/ r \in [kind : {"ignored"}, of : Descriptors]
        \/ r = Overflow
    BY <1>4 DEF Records
  <2> QED BY <1>6, <1>7, <1>8, <1>9, <1>10, <2>1

----------------------------------------------------------------------------
(* No directory is forgotten.                                              *)

LEMMA CoverInit == Init => CoverInv
<1> SUFFICES ASSUME Init PROVE CoverInv
  OBVIOUS
<1>1. TableInv
  BY TableInit
<1>2. /\ \A p \in Paths : fs[p] = None
      /\ worker.watches = [d \in Descriptors |-> Absent]
      /\ worker.exhausted = {} /\ worker.watched = [x \in Interests |-> None]
      /\ opening = NotOpening
  BY DEF Init
<1>3. Present(worker) = {}
  BY <1>2 DEF Present
<1>4. Sound(fs, worker, kernel)
  BY <1>2, <1>3 DEF Sound
<1>5. \A x \in Interests : x[2] \in Paths /\ worker.watched[x] = None
  BY <1>2, InterestParts
<1>6. Covers(fs, worker, kernel.queue, opening)
  BY <1>2, <1>5, ClosedCovers DEF Covers, Located, Accounts, Covered, Traversed
<1> QED BY <1>1, <1>4, <1>6 DEF CoverInv

LEMMA CoverStep ==
  ASSUME ~Lossy, CoverInv, Next, Confirm => RegisteredAsFound
  PROVE  CoverInv'
<1>1. ASSUME NEW p \in Paths, NEW i \in Inodes, CreateDir(p, i) PROVE CoverInv'
  BY <1>1, CreateDirCovers
<1>2. ASSUME NEW p \in Paths, RemoveDir(p) PROVE CoverInv'
  BY <1>2, RemoveDirCovers
<1>3. ASSUME NEW p \in Paths, NEW q \in Paths, MoveDir(p, q) PROVE CoverInv'
  BY <1>3, MoveDirCovers
<1>4. ASSUME NEW d \in Descriptors, Evict(d) PROVE CoverInv'
  BY <1>4, EvictCovers
<1>5. CASE HandleRecord
  BY <1>5, HandleRecordCovers
<1>6. ASSUME NEW x \in Interests, Open(x) \/ Promote(x) \/ Sweep(x) \/ DisposeInterest(x)
      PROVE  CoverInv'
  BY <1>6, OpenCovers, PromoteCovers, SweepCovers, DisposeInterestCovers
<1>7. CASE Share
  BY <1>7, ShareCovers
<1>8. CASE Defer
  BY <1>8, DeferCovers
<1>9. ASSUME NEW d \in Descriptors, AddWatch(d) PROVE CoverInv'
  BY <1>9, AddWatchCovers
<1>10. CASE AddWatchFails
  BY <1>10, AddWatchFailsCovers
<1>11. CASE Confirm
  BY <1>11, ConfirmCovers
<1>12. CASE Read
  BY <1>12, ReadCovers
<1>13. ASSUME NEW s \in Subs, Reconcile(s) \/ CommitReconciliation(s) \/ BeginDisposal(s)
       PROVE  CoverInv'
  BY <1>13, ReconcileCovers, CommitReconciliationCovers, BeginDisposalCovers
<1> QED BY <1>1, <1>2, <1>3, <1>4, <1>5, <1>6, <1>7, <1>8, <1>9, <1>10, <1>11, <1>12, <1>13
        DEF Next

LEMMA CoverStutters == CoverInv /\ UNCHANGED vars => CoverInv'
<1> SUFFICES ASSUME CoverInv, UNCHANGED vars PROVE CoverInv'
  OBVIOUS
<1>1. fs' = fs /\ worker' = worker /\ kernel' = kernel /\ opening' = opening
  BY DEF vars
<1>2. TableInv'
  BY TableStutters DEF CoverInv
<1> QED BY <1>1, <1>2 DEF CoverInv

\* A record that is counted is in the queue.
LEMMA CountedContains ==
  ASSUME NEW S, NEW q \in Seq(S), NEW r, Count(q, r) >= 1
  PROVE  Contains(q, r)
<1>1. CASE Positions(q, r) = {}
  BY <1>1, FS_EmptySet DEF Count
<1>2. CASE Positions(q, r) # {}
  BY <1>2 DEF Positions, Contains
<1> QED BY <1>1, <1>2

LEMMA CoverAccounts ==
  ASSUME ~Lossy, CoverInv
  PROVE  DirectoriesAccountedFor
<1> DEFINE w == worker
           q == kernel.queue
<1>1. /\ Registry(w) /\ w \in Workers /\ kernel \in Kernels /\ q \in Seq(Records)
      /\ Follows(w, kernel, Adding(opening))
      /\ Sound(fs, w, kernel) /\ Covers(fs, w, q, opening)
  BY DEF CoverInv, TableInv, Registry, Follows, Kernels
<1> SUFFICES ASSUME NEW x \in Interests, fs[x[2]] # None,
                    x[1] \notin worker.uncertain \cup worker.disposing
             PROVE  \/ worker.watched[x] # None /\ Watching(worker.watched[x], fs[x[2]])
                    \/ worker.deferred[x] # "no"
                    \/ x \in worker.jobs \/ Announced(x[2])
                    \/ opening.of = x /\ opening.stage # "reading"
  BY DEF DirectoriesAccountedFor
<1> HIDE DEF w, q
<1>2. Located(fs, q, w, x) /\ Accounts(fs, w, q, opening, x) /\ x[2] \in Paths
  BY <1>1, InterestParts DEF Covers
<1>3. CASE w.watched[x] = None
  BY <1>2, <1>3 DEF Accounts, Covered, Announces, Announced, w, q
<1>4. CASE w.watched[x] # None
  <2> DEFINE d == w.watched[x]
  <2>1. d \in Descriptors /\ x[1] \in Active(w)
    BY <1>1, <1>4, InterestParts DEF Workers, Active, w
  <2>2. d \in Present(w)
    <3>1. x \in w.watches[d].interests
      BY <1>1, <2>1 DEF Registry, Linked
    <3> QED BY <2>1, <3>1, AbsentFields DEF Present
  <2> HIDE DEF d
  <2>3. CASE Contains(q, Record("removed", x[2]))
    <3>1. Contains(q, Record("created", x[2]))
      BY <1>1, <1>2, <2>3, FollowedContains DEF Sound, q
    <3> QED BY <3>1 DEF Announced, q
  <2>4. CASE fs[x[2]] = w.watches[d].identity /\ kernel.watch[d] # None
    <3>1. kernel.watch[d] = fs[x[2]]
      BY <1>1, <2>2, <2>4 DEF Sound, Tied
    <3> QED BY <1>4, <3>1 DEF Watching, d, w
  <2>5. CASE kernel.watch[d] = None
    <3>1. Ends(q, d) >= Awaits(w, d) + Gone(w, kernel, {}, d)
      BY <1>1, <2>1, EndsDue DEF q
    <3>2. Gone(w, kernel, {}, d) = 1 /\ Awaits(w, d) \in Nat /\ Ends(q, d) \in Nat
      BY <1>1, <2>1, <2>2, <2>5, AwaitsNat, EndsNat DEF Gone
    <3>3. Contains(q, Record("ignored", d))
      BY <1>1, <3>1, <3>2, CountedContains DEF Ends
    <3> QED BY <1>4, <3>3 DEF Watching, d, w, q
  <2> QED BY <1>2, <1>4, <2>1, <2>3, <2>4, <2>5 DEF Located, d
<1> QED BY <1>3, <1>4

\* When the kernel drops nothing, and every watch that enters the registry is on the
\* directory that was looked for with no end of a former watch of its descriptor
\* still to be announced, a subscription that claims complete coverage watches every
\* directory there is, or will (add_interest, process_topology_event).
THEOREM NoDirectoryForgotten ==
  ASSUME ~Lossy
  PROVE  Spec /\ [][Confirm => RegisteredAsFound]_vars => []DirectoriesAccountedFor
<1>1. Init => CoverInv
  BY CoverInit
<1>2. CoverInv /\ [Next]_vars /\ [Confirm => RegisteredAsFound]_vars => CoverInv'
  BY CoverStep, CoverStutters
<1>3. CoverInv => DirectoriesAccountedFor
  BY CoverAccounts
<1> QED BY <1>1, <1>2, <1>3, PTL DEF Spec
=============================================================================
