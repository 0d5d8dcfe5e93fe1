------------------------ MODULE SpinlockKernelProofs ------------------------
(***************************************************************************)
(* Spin locks and interrupts for any CPUs, any set of ordered locks and    *)
(* any nesting: exclusion, no panic, handlers above no lock, interrupts    *)
(* restored.                                                               *)
(***************************************************************************)
EXTENDS SpinlockKernel, FiniteSetTheorems, TLAPS

\* The locks that a thread or handler has taken: held, and also the one whose
\* owner it has still to record.
Taken(c, f) == held[c][f] \cup (IF at[c][f] = "record" THEN {lk[c][f]} ELSE {})

Types ==
  /\ locked \in [Locks -> {0, 1}]
  /\ lkcpu \in [Locks -> CPUs \cup {NoCPU}]
  /\ ncli \in [CPUs -> Nat]
  /\ intena \in [CPUs -> {0, 1}]
  /\ fl_if \in [CPUs -> {0, 1}]
  /\ panicked = "none"
  /\ frame \in [CPUs -> Frames]
  /\ at \in [CPUs -> [Frames -> {"run", "spin", "record", "store"}]]
  /\ lk \in [CPUs -> [Frames -> Locks]]
  /\ held \in [CPUs -> [Frames -> SUBSET Locks]]

\* A taken lock is marked as locked, and taken once.
Mutual ==
  \A c \in CPUs, f \in Frames : \A l \in Taken(c, f) :
    /\ locked[l] = 1
    /\ \A d \in CPUs, g \in Frames : l \in Taken(d, g) => c = d /\ f = g

\* The owner field names a CPU that holds the lock, and names the holder of
\* every lock but the one that release() is giving up.
Owner ==
  /\ \A c \in CPUs, f \in Frames : \A l \in held[c][f] :
       lkcpu[l] = IF at[c][f] = "store" /\ lk[c][f] = l THEN NoCPU ELSE c
  /\ \A c \in CPUs, l \in Locks : lkcpu[l] = c => \E f \in Frames : l \in held[c][f]

\* What is not executing holds nothing; where the others are.
Place ==
  \A c \in CPUs, f \in Frames :
    /\ f # frame[c] => at[c][f] = "run" /\ held[c][f] = {}
    /\ at[c][f] = "store" => lk[c][f] \in held[c][f]
    /\ at[c][f] \in {"spin", "record"} => lk[c][f] \notin held[c][f]
    /\ IsFiniteSet(held[c][f])

Inside(c) == IF at[c][frame[c]] \in {"spin", "record"} THEN 1 ELSE 0

\* pushcli() has been called once for each lock and each acquire().
Depth == \A c \in CPUs : ncli[c] = Cardinality(held[c][frame[c]]) + Inside(c)

\* Interrupts are on in a thread outside every lock, and nowhere else.
Flags ==
  \A c \in CPUs :
    /\ fl_if[c] = IF frame[c] = "thread" /\ ncli[c] = 0 THEN 1 ELSE 0
    /\ ncli[c] > 0 => intena[c] = IF frame[c] = "thread" THEN 1 ELSE 0

IInv == Types /\ Mutual /\ Owner /\ Place /\ Depth /\ Flags
-----------------------------------------------------------------------------
\* The invariant holds when all locks are free.
LEMMA InitInv == Init => IInv
<1> SUFFICES ASSUME Init PROVE IInv
  OBVIOUS
<1>1. (CHOOSE l \in Locks : TRUE) \in Locks
  BY LockOrder
<1>2. Types
  BY <1>1, SMT DEF Init, SpinInit, Types, Frames
<1>3. \A c \in CPUs, f \in Frames : held[c][f] = {} /\ at[c][f] = "run" /\ Taken(c, f) = {}
  BY SMT DEF Init, Taken
<1>4. Mutual
  BY <1>3 DEF Mutual
<1>5. Owner
  BY <1>3, NoCPUAssumption, SMT DEF Owner, Init, SpinInit
<1>6. IsFiniteSet({}) /\ Cardinality({}) = 0
  BY FS_EmptySet
<1>7. Place
  BY <1>3, <1>6, Zenon DEF Place
<1>8. \A c \in CPUs : frame[c] = "thread"
  BY Zenon DEF Init
<1>9. "thread" \in Frames
  BY DEF Frames
<1>10. \A c \in CPUs : ncli[c] = 0 /\ fl_if[c] = 1
  BY Zenon DEF Init, SpinInit
<1>11. Depth
  <2> SUFFICES ASSUME NEW c \in CPUs
               PROVE  ncli[c] = Cardinality(held[c][frame[c]]) + Inside(c)
    BY DEF Depth
  <2>1. held[c][frame[c]] = {} /\ at[c][frame[c]] = "run"
    BY <1>3, <1>8, <1>9
  <2>2. Inside(c) = 0
    BY <2>1 DEF Inside
  <2> QED
    BY <1>6, <1>10, <2>1, <2>2
<1>12. Flags
  <2> SUFFICES ASSUME NEW c \in CPUs
               PROVE  /\ fl_if[c] = IF frame[c] = "thread" /\ ncli[c] = 0 THEN 1 ELSE 0
                      /\ ~(ncli[c] > 0)
    BY DEF Flags
  <2>1. ncli[c] = 0 /\ fl_if[c] = 1 /\ frame[c] = "thread"
    BY <1>8, <1>10
  <2> QED
    BY <2>1
<1> QED
  BY <1>2, <1>4, <1>5, <1>7, <1>11, <1>12 DEF IInv

\* A call of acquire() finds no lock of its own CPU at the place it asks for.
LEMMA NotHolding ==
  ASSUME IInv, NEW c \in CPUs, NEW l \in Locks, \A h \in Held(c) : h < l
  PROVE  ~holding(l, c) /\ l \notin held[c][frame[c]]
<1>1. l \notin held[c][frame[c]]
  <2>1. l \in Nat
    BY LockOrder
  <2> QED
    BY <2>1, SMT DEF Held
<1>2. \A f \in Frames : l \notin held[c][f]
  BY <1>1, SMT DEF IInv, Place
<1> QED
  BY <1>1, <1>2 DEF IInv, Owner, holding

\* acquire() up to its check: pushcli() and holding().
LEMMA AcquireInv ==
  ASSUME IInv, NEW c \in CPUs, NEW l \in Locks, Acquire(c, l)
  PROVE  IInv'
<1> USE DEF IInv
<1> DEFINE F == frame[c]
<1>1. ~holding(l, c) /\ l \notin held[c][F]
  BY NotHolding DEF Acquire
<1>2. /\ at[c][F] = "run" /\ F \in Frames
      /\ fl_if' = [fl_if EXCEPT ![c] = 0]
      /\ intena' = [intena EXCEPT ![c] = IF ncli[c] = 0 THEN fl_if[c] ELSE intena[c]]
      /\ ncli' = [ncli EXCEPT ![c] = ncli[c] + 1]
      /\ lk' = [lk EXCEPT ![c][F] = l]
      /\ at' = [at EXCEPT ![c][F] = "spin"]
      /\ UNCHANGED <<locked, lkcpu, panicked, frame, held>>
  BY <1>1 DEF Acquire, At, acquire_enter, pushcli, Goto, Types
<1>3. Types'
  BY <1>2, SMT DEF Types
<1>4. \A d \in CPUs, g \in Frames :
        /\ at'[d][g] = IF d = c /\ g = F THEN "spin" ELSE at[d][g]
        /\ lk'[d][g] = IF d = c /\ g = F THEN l ELSE lk[d][g]
  BY <1>2, SMT DEF Types
<1>5. \A d \in CPUs, g \in Frames : Taken(d, g)' = Taken(d, g)
  BY <1>2, <1>4, SMT DEF Taken
<1>6. Mutual'
  BY <1>2, <1>5 DEF Mutual
<1>7. Owner'
  BY <1>2, <1>4, SMT, SMTT(40) DEF Owner
<1>8. Place'
  BY <1>1, <1>2, <1>4, SMT, SMTT(40) DEF Place
<1>9. Depth'
  <2> SUFFICES ASSUME NEW d \in CPUs
               PROVE  ncli'[d] = Cardinality(held[d][frame[d]]) + Inside(d)'
    BY <1>2 DEF Depth
  <2>1. IsFiniteSet(held[d][frame[d]]) /\ frame[d] \in Frames
    BY DEF Place, Types
  <2>2. Cardinality(held[d][frame[d]]) \in Nat
    BY <2>1, FS_CardinalityType
  <2> QED
    BY <1>2, <1>4, <2>1, <2>2, SMT DEF Depth, Inside, Types
<1>10. Flags'
  BY <1>2, SMT DEF Flags, Types
<1> QED
  BY <1>3, <1>6, <1>7, <1>8, <1>9, <1>10

\* The xchg of acquire(): the lock is taken, or the CPU spins on.
LEMMA XchgInv ==
  ASSUME IInv, NEW c \in CPUs, Xchg(c)
  PROVE  IInv'
<1> USE DEF IInv
<1> DEFINE F == frame[c]
           l == lk[c][F]
<1>1. /\ at[c][F] = "spin" /\ F \in Frames /\ l \in Locks
      /\ locked[l] = 0
      /\ locked' = [locked EXCEPT ![l] = 1]
      /\ at' = [at EXCEPT ![c][F] = "record"]
      /\ UNCHANGED <<lkcpu, ncli, intena, fl_if, panicked, frame, lk, held>>
  BY DEF Xchg, At, Lk, acquire_xchg, Goto, Types
<1>2. Types'
  BY <1>1, SMT DEF Types
<1>3. \A d \in CPUs, g \in Frames :
        at'[d][g] = IF d = c /\ g = F THEN "record" ELSE at[d][g]
  BY <1>1, SMT, SMTT(40) DEF Types
<1>4. \A d \in CPUs, g \in Frames :
        Taken(d, g)' = IF d = c /\ g = F THEN Taken(d, g) \cup {l} ELSE Taken(d, g)
  BY <1>1, <1>3, SMT DEF Taken
<1>5. \A d \in CPUs, g \in Frames : l \notin Taken(d, g) /\ Taken(d, g) \subseteq Locks
  BY <1>1, SMT DEF Mutual, Types, Taken
<1> HIDE DEF l
<1>6. Mutual'
  <2> SUFFICES ASSUME NEW d \in CPUs, NEW g \in Frames, NEW k \in Taken(d, g)'
               PROVE  /\ locked'[k] = 1
                      /\ \A b \in CPUs, h \in Frames : k \in Taken(b, h)' => d = b /\ g = h
    BY DEF Mutual
  <2>1. CASE k = l
    BY <1>1, <1>4, <1>5, <2>1, SMT, SMTT(40) DEF Types
  <2>2. CASE k # l
    <3>1. k \in Taken(d, g)
      BY <1>4, <2>2
    <3>2. locked'[k] = 1
      BY <1>1, <1>5, <2>2, <3>1 DEF Mutual, Types
    <3>3. ASSUME NEW b \in CPUs, NEW h \in Frames, k \in Taken(b, h)' PROVE d = b /\ g = h
      <4>1. k \in Taken(b, h)
        BY <1>4, <2>2, <3>3
      <4> QED
        BY <3>1, <4>1 DEF Mutual
    <3> QED
      BY <3>2, <3>3
  <2> QED
    BY <2>1, <2>2
<1>7. Owner'
  BY <1>1, <1>3, SMT DEF Owner
<1>8. Place'
  BY <1>1, <1>3, SMT DEF Place
<1>9. Depth'
  <2>1. \A d \in CPUs : frame[d] \in Frames
    BY DEF Types
  <2>2. \A d \in CPUs : Inside(d)' = Inside(d)
    BY <1>1, <1>3, <2>1, SMT DEF Inside
  <2> QED
    BY <1>1, <2>2 DEF Depth
<1>10. Flags'
  BY SMT, SMTT(40), <1>1 DEF Flags
<1> QED
  BY <1>2, <1>6, <1>7, <1>8, <1>9, <1>10

\* acquire() records the CPU that has the lock.
LEMMA RecordInv ==
  ASSUME IInv, NEW c \in CPUs, Record(c)
  PROVE  IInv'
<1> USE DEF IInv
<1> DEFINE F == frame[c]
           l == lk[c][F]
<1>1. /\ at[c][F] = "record" /\ F \in Frames /\ l \in Locks
      /\ lkcpu' = [lkcpu EXCEPT ![l] = c]
      /\ held' = [held EXCEPT ![c][F] = held[c][F] \cup {l}]
      /\ at' = [at EXCEPT ![c][F] = "run"]
      /\ UNCHANGED <<locked, ncli, intena, fl_if, panicked, frame, lk>>
  BY DEF Record, At, Lk, acquire_record, Goto, Types
<1>2. Types'
  BY <1>1, SMT DEF Types
<1>3. \A d \in CPUs, g \in Frames :
        /\ at'[d][g] = IF d = c /\ g = F THEN "run" ELSE at[d][g]
        /\ held'[d][g] = IF d = c /\ g = F THEN held[c][F] \cup {l} ELSE held[d][g]
  BY <1>1, SMT, SMTT(40) DEF Types
<1>4. \A d \in CPUs, g \in Frames : Taken(d, g)' = Taken(d, g)
  BY <1>1, <1>3, SMT DEF Taken
<1>5. l \in Taken(c, F) /\ l \notin held[c][F]
  BY <1>1 DEF Taken, Place
<1>6. \A d \in CPUs, g \in Frames : l \notin held[d][g]
  <2> SUFFICES ASSUME NEW d \in CPUs, NEW g \in Frames, l \in held[d][g] PROVE FALSE
    OBVIOUS
  <2>1. l \in Taken(d, g)
    BY DEF Taken
  <2>2. d = c /\ g = F
    BY <1>1, <1>5, <2>1 DEF Mutual
  <2> QED
    BY <1>5, <2>2
<1> HIDE DEF l
<1>7. Mutual'
  BY SMT, SMTT(40), <1>1, <1>4 DEF Mutual
<1>8. Owner'
  <2>1. ASSUME NEW d \in CPUs, NEW g \in Frames, NEW k \in held'[d][g]
        PROVE  lkcpu'[k] = IF at'[d][g] = "store" /\ lk'[d][g] = k THEN NoCPU ELSE d
    <3>1. CASE k = l
      <4>1. d = c /\ g = F
        BY <1>3, <1>6, <2>1, <3>1
      <4> QED
        BY <1>1, <1>3, <3>1, <4>1, SMT, SMTT(40) DEF Types
    <3>2. CASE k # l
      <4>0. k \in held[d][g]
        BY <1>3, <2>1, <3>2
      <4>1. k \in held[d][g] /\ k \in Locks
        BY <4>0 DEF Types
      <4>2. lkcpu'[k] = lkcpu[k]
        BY <1>1, <3>2, <4>1, SMT DEF Types
      <4>3. lkcpu[k] = IF at[d][g] = "store" /\ lk[d][g] = k THEN NoCPU ELSE d
        BY <4>1 DEF Owner
      <4>4. at'[d][g] = "store" <=> at[d][g] = "store"
        BY <1>1, <1>3
      <4> QED
        BY <1>1, <4>2, <4>3, <4>4
    <3> QED
      BY <3>1, <3>2
  <2>2. ASSUME NEW d \in CPUs, NEW k \in Locks, lkcpu'[k] = d
        PROVE  \E f \in Frames : k \in held'[d][f]
    <3>1. CASE k = l
      BY <1>1, <1>3, <2>2, <3>1, SMT, SMTT(40) DEF Types
    <3>2. CASE k # l
      <4>1. lkcpu[k] = d
        BY <1>1, <2>2, <3>2, SMT DEF Types
      <4>2. PICK f \in Frames : k \in held[d][f]
        BY <4>1 DEF Owner
      <4> QED
        BY <1>3, <4>2
    <3> QED
      BY <3>1, <3>2
  <2> QED
    BY <2>1, <2>2 DEF Owner
<1>9. /\ IsFiniteSet(held[c][F] \cup {l})
      /\ Cardinality(held[c][F] \cup {l}) = Cardinality(held[c][F]) + 1
  BY ZenonT(60), <1>1, <1>5, FS_AddElement DEF Place
<1>10. Place'
  <2> SUFFICES ASSUME NEW d \in CPUs, NEW g \in Frames
               PROVE  /\ g # frame[d] => at'[d][g] = "run" /\ held'[d][g] = {}
                      /\ at'[d][g] = "store" => lk[d][g] \in held'[d][g]
                      /\ at'[d][g] \in {"spin", "record"} => lk[d][g] \notin held'[d][g]
                      /\ IsFiniteSet(held'[d][g])
    BY ZenonT(60), <1>1 DEF Place
  <2>1. CASE d = c /\ g = F
    BY <1>3, <1>9, <2>1
  <2>2. CASE ~(d = c /\ g = F)
    <3>1. at'[d][g] = at[d][g] /\ held'[d][g] = held[d][g]
      BY <1>3, <2>2
    <3> QED
      BY SMT, SMTT(40), <3>1 DEF Place
  <2> QED
    BY <2>1, <2>2
<1>11. Depth'
  <2> SUFFICES ASSUME NEW d \in CPUs
               PROVE  ncli[d] = Cardinality(held'[d][frame[d]]) + Inside(d)'
    BY ZenonT(60), <1>1 DEF Depth
  <2>1. frame[d] \in Frames /\ ncli[d] = Cardinality(held[d][frame[d]]) + Inside(d)
    BY DEF Types, Depth
  <2>2. CASE d = c
    <3>1. Inside(d) = 1 /\ Inside(d)' = 0 /\ held'[d][frame[d]] = held[c][F] \cup {l}
      BY SMT, SMTT(40), <1>1, <1>3, <2>2 DEF Inside
    <3>2. Cardinality(held[c][F]) \in Nat
      BY SMT, SMTT(40), <1>1, FS_CardinalityType DEF Place
    <3> QED
      BY <1>9, <2>1, <2>2, <3>1, <3>2, SMT, SMTT(40)
  <2>3. CASE d # c
    <3>1. Inside(d)' = Inside(d) /\ held'[d][frame[d]] = held[d][frame[d]]
      BY SMT, SMTT(40), <1>1, <1>3, <2>1, <2>3 DEF Inside
    <3> QED
      BY SMT, SMTT(40), <2>1, <3>1
  <2> QED
    BY <2>2, <2>3
<1>12. Flags'
  BY SMT, SMTT(40), <1>1 DEF Flags
<1> QED
  BY <1>2, <1>7, <1>8, <1>10, <1>11, <1>12

\* release() up to its store: the record is cleared.
LEMMA ReleaseInv ==
  ASSUME IInv, NEW c \in CPUs, NEW l \in Locks, Release(c, l)
  PROVE  IInv'
<1> USE DEF IInv
<1> DEFINE F == frame[c]
<1>1. at[c][F] = "run" /\ F \in Frames /\ l \in held[c][F]
  BY DEF Release, At, Held, Types
<1>2. l \in Taken(c, F)
  BY SMT, SMTT(40), <1>1 DEF Taken
<1>3. lkcpu[l] = c /\ locked[l] = 1
  BY <1>1, <1>2 DEF Owner, Mutual
<1>4. /\ lkcpu' = [lkcpu EXCEPT ![l] = NoCPU]
      /\ lk' = [lk EXCEPT ![c][F] = l]
      /\ at' = [at EXCEPT ![c][F] = "store"]
      /\ UNCHANGED <<locked, ncli, intena, fl_if, panicked, frame, held>>
  BY SMT, SMTT(40), <1>3 DEF Release, release_clear, holding, Goto
<1>5. Types'
  BY <1>1, <1>4, SMT, SMTT(40) DEF Types
<1>6. \A d \in CPUs, g \in Frames :
        /\ at'[d][g] = IF d = c /\ g = F THEN "store" ELSE at[d][g]
        /\ lk'[d][g] = IF d = c /\ g = F THEN l ELSE lk[d][g]
  BY <1>1, <1>4, SMT, SMTT(40) DEF Types
<1>7. \A d \in CPUs, g \in Frames : Taken(d, g)' = Taken(d, g)
  BY <1>1, <1>4, <1>6, SMT, SMTT(40) DEF Taken
<1>8. Mutual'
  BY SMT, SMTT(40), <1>4, <1>7 DEF Mutual
<1>9. Owner'
  <2>1. ASSUME NEW d \in CPUs, NEW g \in Frames, NEW k \in held[d][g]
        PROVE  lkcpu'[k] = IF at'[d][g] = "store" /\ lk'[d][g] = k THEN NoCPU ELSE d
    <3>1. k \in Locks /\ lkcpu[k] = IF at[d][g] = "store" /\ lk[d][g] = k THEN NoCPU ELSE d
      BY SMT, SMTT(40) DEF Types, Owner
    <3>2. CASE k = l
      <4>1. k \in Taken(d, g)
        BY DEF Taken
      <4>2. d = c /\ g = F
        BY SMT, SMTT(40), <1>1, <1>2, <3>2, <4>1 DEF Mutual
      <4> QED
        BY <1>4, <1>6, <3>1, <3>2, <4>2, SMT, SMTT(40) DEF Types
    <3>3. CASE k # l
      <4>1. lkcpu'[k] = lkcpu[k]
        BY <1>4, <3>1, <3>3, SMT, SMTT(40) DEF Types
      <4>2. CASE d = c /\ g = F
        BY SMT, SMTT(40), <1>1, <1>6, <3>1, <3>3, <4>1, <4>2
      <4>3. CASE ~(d = c /\ g = F)
        BY <1>6, <3>1, <4>1, <4>3
      <4> QED
        BY SMT, SMTT(40), <4>2, <4>3
    <3> QED
      BY <3>2, <3>3
  <2>2. ASSUME NEW d \in CPUs, NEW k \in Locks, lkcpu'[k] = d
        PROVE  \E f \in Frames : k \in held[d][f]
    <3>1. k # l /\ lkcpu[k] = d
      BY <1>4, <2>2, NoCPUAssumption, SMT, SMTT(40) DEF Types
    <3> QED
      BY <3>1 DEF Owner
  <2> QED
    BY SMT, SMTT(40), <1>4, <2>1, <2>2 DEF Owner
<1>10. Place'
  BY <1>1, <1>4, <1>6, SMT DEF Place
<1>11. Depth'
  <2>1. \A d \in CPUs : frame[d] \in Frames
    BY SMT, SMTT(40) DEF Types
  <2>2. \A d \in CPUs : Inside(d)' = Inside(d)
    BY <1>1, <1>4, <1>6, <2>1, SMT, SMTT(40) DEF Inside
  <2> QED
    BY <1>4, <2>2 DEF Depth
<1>12. Flags'
  BY <1>4 DEF Flags
<1> QED
  BY <1>5, <1>8, <1>9, <1>10, <1>11, <1>12

\* The store of release(), and popcli().
LEMMA StoreInv ==
  ASSUME IInv, NEW c \in CPUs, Store(c)
  PROVE  IInv'
<1> USE DEF IInv
<1> DEFINE F == frame[c]
           l == lk[c][F]
<1>1. at[c][F] = "store" /\ F \in Frames /\ l \in Locks
  BY DEF Store, At, Types
<1>2. l \in held[c][F] /\ IsFiniteSet(held[c][F])
  BY <1>1 DEF Place
<1>3. /\ IsFiniteSet(held[c][F] \ {l})
      /\ Cardinality(held[c][F] \ {l}) = Cardinality(held[c][F]) - 1
      /\ Cardinality(held[c][F] \ {l}) \in Nat /\ Cardinality(held[c][F]) \in Nat
  BY ZenonT(60), <1>2, FS_RemoveElement, FS_CardinalityType
<1>4. Inside(c) = 0 /\ ncli[c] = Cardinality(held[c][F]) /\ ncli[c] > 0
  <2>1. Inside(c) = 0
    BY <1>1 DEF Inside
  <2>2. ncli[c] = Cardinality(held[c][F]) + 0
    BY <2>1 DEF Depth
  <2> QED
    BY <1>3, <2>1, <2>2, SMT
<1>5. fl_if[c] = 0 /\ intena[c] = IF F = "thread" THEN 1 ELSE 0
  BY <1>4, SMT, SMTT(40) DEF Flags
<1>6. /\ locked' = [locked EXCEPT ![l] = 0]
      /\ ncli' = [ncli EXCEPT ![c] = ncli[c] - 1]
      /\ fl_if' = [fl_if EXCEPT ![c] = IF ncli[c] = 1 /\ intena[c] = 1 THEN 1 ELSE fl_if[c]]
      /\ held' = [held EXCEPT ![c][F] = held[c][F] \ {l}]
      /\ at' = [at EXCEPT ![c][F] = "run"]
      /\ UNCHANGED <<lkcpu, intena, frame, lk>>
  BY DEF Store, Lk, release_store, popcli, Goto
<1>7. UNCHANGED panicked
  <2>1. ~(fl_if[c] = 1) /\ ~(ncli[c] < 1)
    BY <1>4, <1>5, SMT, SMTT(40) DEF Types
  <2> QED
    BY <2>1 DEF Store, release_store, popcli_check
<1>8. Types'
  BY <1>1, <1>4, <1>6, <1>7, SMT, SMTT(40) DEF Types
<1>9. \A d \in CPUs, g \in Frames :
        /\ at'[d][g] = IF d = c /\ g = F THEN "run" ELSE at[d][g]
        /\ held'[d][g] = IF d = c /\ g = F THEN held[c][F] \ {l} ELSE held[d][g]
  BY <1>1, <1>6, SMT, SMTT(40) DEF Types
<1>10. l \in Taken(c, F)
  BY SMT, SMTT(40), <1>2 DEF Taken
<1>11. \A d \in CPUs, g \in Frames : Taken(d, g)' = Taken(d, g) \ {l}
  <2> SUFFICES ASSUME NEW d \in CPUs, NEW g \in Frames
               PROVE  Taken(d, g)' = Taken(d, g) \ {l}
    BY SMT, SMTT(40)
  <2>1. CASE d = c /\ g = F
    BY SMT, SMTT(40), <1>1, <1>6, <1>9, <2>1 DEF Taken
  <2>2. CASE ~(d = c /\ g = F)
    <3>1. l \notin Taken(d, g)
      BY SMT, SMTT(40), <1>1, <1>10, <2>2 DEF Mutual
    <3>2. Taken(d, g)' = Taken(d, g)
      BY SMT, SMTT(40), <1>6, <1>9, <2>2 DEF Taken
    <3> QED
      BY SMT, SMTT(40), <3>1, <3>2
  <2> QED
    BY <2>1, <2>2
<1>12. lkcpu[l] = NoCPU
  BY SMT, SMTT(40), <1>1, <1>2 DEF Owner
<1> HIDE DEF l
<1>13. Mutual'
  <2> SUFFICES ASSUME NEW d \in CPUs, NEW g \in Frames, NEW k \in Taken(d, g)'
               PROVE  /\ locked'[k] = 1
                      /\ \A b \in CPUs, h \in Frames : k \in Taken(b, h)' => d = b /\ g = h
    BY DEF Mutual
  <2>1. k \in Taken(d, g) /\ k # l
    BY SMT, SMTT(40), <1>11
  <2>2. k \in Locks
    BY <2>1, SMT DEF Taken, Types
  <2>3. locked[k] = 1 /\ \A b \in CPUs, h \in Frames : k \in Taken(b, h) => d = b /\ g = h
    BY <2>1 DEF Mutual
  <2>4. locked'[k] = locked[k]
    BY <1>6, <2>1, <2>2, SMT, SMTT(40) DEF Types
  <2> QED
    BY <1>11, <2>3, <2>4
<1>14. Owner'
  <2>1. ASSUME NEW d \in CPUs, NEW g \in Frames, NEW k \in held'[d][g]
        PROVE  lkcpu[k] = IF at'[d][g] = "store" /\ lk[d][g] = k THEN NoCPU ELSE d
    <3>1. CASE d = c /\ g = F
      <4>1. k \in held[c][F] /\ k # l
        BY SMT, SMTT(40), <1>9, <2>1, <3>1
      <4>2. lkcpu[k] = c
        BY <1>1, <4>1 DEF Owner, l
      <4> QED
        BY SMT, SMTT(40), <1>9, <3>1, <4>2
    <3>2. CASE ~(d = c /\ g = F)
      <4>1. k \in held[d][g] /\ at'[d][g] = at[d][g]
        BY <1>9, <2>1, <3>2
      <4> QED
        BY <4>1 DEF Owner
    <3> QED
      BY <3>1, <3>2
  <2>2. ASSUME NEW d \in CPUs, NEW k \in Locks, lkcpu[k] = d
        PROVE  \E f \in Frames : k \in held'[d][f]
    <3>1. PICK f \in Frames : k \in held[d][f]
      BY <2>2 DEF Owner
    <3>2. k # l
      BY <1>12, <2>2, NoCPUAssumption
    <3> QED
      BY <1>9, <3>1, <3>2
  <2> QED
    BY <1>6, <2>1, <2>2 DEF Owner
<1>15. Place'
  <2> SUFFICES ASSUME NEW d \in CPUs, NEW g \in Frames
               PROVE  /\ g # frame[d] => at'[d][g] = "run" /\ held'[d][g] = {}
                      /\ at'[d][g] = "store" => lk[d][g] \in held'[d][g]
                      /\ at'[d][g] \in {"spin", "record"} => lk[d][g] \notin held'[d][g]
                      /\ IsFiniteSet(held'[d][g])
    BY ZenonT(60), <1>6 DEF Place
  <2>1. CASE d = c /\ g = F
    BY ZenonT(60), <1>3, <1>9, <2>1
  <2>2. CASE ~(d = c /\ g = F)
    <3>1. at'[d][g] = at[d][g] /\ held'[d][g] = held[d][g]
      BY <1>9, <2>2
    <3> QED
      BY <3>1 DEF Place
  <2> QED
    BY <2>1, <2>2
<1>16. Depth'
  <2> SUFFICES ASSUME NEW d \in CPUs
               PROVE  ncli'[d] = Cardinality(held'[d][frame[d]]) + Inside(d)'
    BY ZenonT(60), <1>6 DEF Depth
  <2>1. frame[d] \in Frames /\ ncli[d] = Cardinality(held[d][frame[d]]) + Inside(d)
    BY DEF Types, Depth
  <2>2. CASE d = c
    <3>1. Inside(d)' = 0 /\ held'[d][frame[d]] = held[c][F] \ {l}
      BY SMT, SMTT(40), <1>1, <1>6, <1>9, <2>2 DEF Inside
    <3>2. ncli'[d] = ncli[c] - 1
      BY <1>6, <2>2, SMT, SMTT(40) DEF Types
    <3> QED
      BY <1>3, <1>4, <3>1, <3>2, SMT, SMTT(40)
  <2>3. CASE d # c
    <3>1. Inside(d)' = Inside(d) /\ held'[d][frame[d]] = held[d][frame[d]]
      BY SMT, SMTT(40), <1>6, <1>9, <2>1, <2>3 DEF Inside
    <3>2. ncli'[d] = ncli[d]
      BY <1>6, <2>3, SMT, SMTT(40) DEF Types
    <3> QED
      BY SMT, SMTT(40), <2>1, <3>1, <3>2
  <2> QED
    BY <2>2, <2>3
<1>17. Flags'
  BY <1>4, <1>5, <1>6, SMT, SMTT(40) DEF Flags, Types, Frames
<1> QED
  BY SMT, SMTT(40), <1>7, <1>8, <1>13, <1>14, <1>15, <1>16, <1>17

\* Outside every lock and every call, ncli is zero, and the reverse.
LEMMA Outside ==
  ASSUME IInv, NEW c \in CPUs
  PROVE  ncli[c] = 0 <=> held[c][frame[c]] = {} /\ at[c][frame[c]] = "run"
<1> USE DEF IInv
<1> DEFINE H == held[c][frame[c]]
<1>1. /\ frame[c] \in Frames
      /\ at[c][frame[c]] \in {"run", "spin", "record", "store"}
      /\ ncli[c] = Cardinality(H) + Inside(c)
  BY SMT, SMTT(40) DEF Types, Depth
<1>2. IsFiniteSet(H) /\ (at[c][frame[c]] = "store" => H # {})
  BY <1>1, SMT, SMTT(40) DEF Place
<1>3. Cardinality(H) \in Nat /\ (Cardinality(H) = 0 <=> H = {})
  BY SMT, SMTT(40), <1>2, FS_CardinalityType, FS_EmptySet
<1> HIDE DEF H
<1>4. Inside(c) \in {0, 1} /\ (Inside(c) = 0 <=> at[c][frame[c]] \in {"run", "store"})
  BY SMT, SMTT(40), <1>1 DEF Inside
<1>5. ncli[c] = 0 <=> Cardinality(H) = 0 /\ Inside(c) = 0
  BY <1>1, <1>3, <1>4, SMT, SMTT(40)
<1>6. ncli[c] = 0 <=> H = {} /\ at[c][frame[c]] = "run"
  BY SMT, SMTT(40), <1>1, <1>2, <1>3, <1>4, <1>5
<1> QED
  BY SMT, SMTT(40), <1>6 DEF H

\* A CPU changes between its thread and its handler only outside every lock.
LEMMA SwitchInv ==
  ASSUME IInv, NEW c \in CPUs, NEW f \in Frames,
         held[c][frame[c]] = {}, at[c][frame[c]] = "run",
         frame' = [frame EXCEPT ![c] = f],
         fl_if' = [fl_if EXCEPT ![c] = IF f = "thread" THEN 1 ELSE 0],
         UNCHANGED <<locked, lkcpu, ncli, intena, panicked, at, lk, held>>
  PROVE  IInv'
<1> USE DEF IInv
<1>1. ncli[c] = 0
  BY SMT, SMTT(40), Outside
<1>2. Types'
  BY SMT, SMTT(40) DEF Types
<1>3. \A d \in CPUs : frame'[d] = (IF d = c THEN f ELSE frame[d]) /\ frame[d] \in Frames
  BY DEF Types
<1>4. \A d \in CPUs, g \in Frames : Taken(d, g)' = Taken(d, g)
  BY SMT, SMTT(40) DEF Taken
<1>5. Mutual'
  BY SMT, SMTT(40), <1>4 DEF Mutual
<1>6. Owner'
  BY SMT, SMTT(40) DEF Owner
<1>7. \A g \in Frames : held[c][g] = {} /\ at[c][g] = "run"
  BY SMT, SMTT(40), <1>3 DEF Place
<1>8. Place'
  BY <1>3, <1>7, SMT, SMTT(40) DEF Place
<1>9. Depth'
  <2> SUFFICES ASSUME NEW d \in CPUs
               PROVE  ncli[d] = Cardinality(held[d][frame'[d]]) + Inside(d)'
    BY SMT, SMTT(40) DEF Depth
  <2>1. held[d][frame'[d]] = held[d][frame[d]] /\ at[d][frame'[d]] = at[d][frame[d]]
    <3>1. CASE d = c
      <4>1. frame'[d] = f
        BY SMT, SMTT(40), <1>3, <3>1
      <4> QED
        BY ZenonT(60), <1>7, <3>1, <4>1
    <3>2. CASE d # c
      BY SMT, SMTT(40), <1>3, <3>2
    <3> QED
      BY <3>1, <3>2
  <2>2. Inside(d)' = Inside(d)
    BY SMT, SMTT(40), <2>1 DEF Inside
  <2> QED
    BY SMT, SMTT(40), <2>1, <2>2 DEF Depth
<1>10. Flags'
  BY <1>1, <1>3, SMT DEF Flags, Types
<1> QED
  BY SMT, SMTT(40), <1>2, <1>5, <1>6, <1>8, <1>9, <1>10

\* An interrupt is taken.
LEMMA InterruptInv ==
  ASSUME IInv, NEW c \in CPUs, Interrupt(c)
  PROVE  IInv'
<1>1. ncli[c] = 0
  BY SMT, SMTT(40) DEF IInv, Flags, Types, Interrupt
<1>2. held[c][frame[c]] = {} /\ at[c][frame[c]] = "run"
  BY <1>1, Outside
<1>3. /\ frame' = [frame EXCEPT ![c] = "handler"]
      /\ fl_if' = [fl_if EXCEPT ![c] = IF "handler" = "thread" THEN 1 ELSE 0]
      /\ UNCHANGED <<locked, lkcpu, ncli, intena, panicked, at, lk, held>>
  BY DEF Interrupt
<1>4. "handler" \in Frames
  BY DEF Frames
<1> QED
  BY ZenonT(60), <1>2, <1>3, <1>4, SwitchInv

\* The handler returns.
LEMMA IretInv ==
  ASSUME IInv, NEW c \in CPUs, Iret(c)
  PROVE  IInv'
<1>1. held[c][frame[c]] = {} /\ at[c][frame[c]] = "run"
  BY DEF Iret, At, Held
<1>2. /\ frame' = [frame EXCEPT ![c] = "thread"]
      /\ fl_if' = [fl_if EXCEPT ![c] = IF "thread" = "thread" THEN 1 ELSE 0]
      /\ UNCHANGED <<locked, lkcpu, ncli, intena, panicked, at, lk, held>>
  BY DEF Iret
<1>3. "thread" \in Frames
  BY DEF Frames
<1> QED
  BY ZenonT(60), <1>1, <1>2, <1>3, SwitchInv

\* Every step keeps the invariant.
LEMMA StepInv == IInv /\ [Next]_vars => IInv'
<1> SUFFICES ASSUME IInv, [Next]_vars PROVE IInv'
  BY SMT, SMTT(40)
<1>1. CASE UNCHANGED vars
  BY <1>1 DEF vars, spinVars, kernelVars, IInv, Types, Mutual, Taken, Owner, Place, Depth,
              Inside, Flags
<1>2. CASE Next
  <2>1. PICK c \in CPUs :
          \/ \E l \in Locks : Acquire(c, l) \/ Release(c, l)
          \/ Xchg(c) \/ Record(c) \/ Store(c)
          \/ Interrupt(c) \/ Iret(c)
    BY <1>2 DEF Next
  <2>2. ASSUME NEW l \in Locks, Acquire(c, l) PROVE IInv'
    BY <2>2, AcquireInv
  <2>3. ASSUME NEW l \in Locks, Release(c, l) PROVE IInv'
    BY <2>3, ReleaseInv
  <2>4. CASE Xchg(c)
    BY <2>4, XchgInv
  <2>5. CASE Record(c)
    BY SMT, SMTT(40), <2>5, RecordInv
  <2>6. CASE Store(c)
    BY <2>6, StoreInv
  <2>7. CASE Interrupt(c)
    BY <2>7, InterruptInv
  <2>8. CASE Iret(c)
    BY <2>8, IretInv
  <2> QED
    BY SMT, SMTT(40), <2>1, <2>2, <2>3, <2>4, <2>5, <2>6, <2>7, <2>8
<1> QED
  BY <1>1, <1>2
-----------------------------------------------------------------------------
\* A lock that is held is taken, and taken by one; the checks before every panic fail.
LEMMA Consistency == IInv => LocksConsistent
<1> SUFFICES ASSUME IInv PROVE LocksConsistent
  BY SMT, SMTT(40)
<1> USE DEF IInv
<1>1. TypeOK
  BY SMT, SMTT(40) DEF Types, TypeOK, SpinTypeOK
<1>2. LockExclusive
  <2> SUFFICES ASSUME NEW c \in CPUs, NEW d \in CPUs, NEW f \in Frames, NEW g \in Frames,
                      <<c, f>> # <<d, g>>, NEW l \in held[c][f], l \in held[d][g]
               PROVE  FALSE
    BY SMT, SMTT(40) DEF LockExclusive
  <2>1. l \in Taken(c, f) /\ l \in Taken(d, g)
    BY SMT, SMTT(40) DEF Taken
  <2> QED
    BY SMT, SMTT(40), <2>1 DEF Mutual
<1>3. NoPanic
  BY SMT, SMTT(40) DEF NoPanic, Types
<1> QED
  BY <1>1, <1>2, <1>3 DEF LocksConsistent

\* What the invariant says of the interrupt flag and of handlers.
LEMMA Safety == IInv => InterruptsSafe
<1> SUFFICES ASSUME IInv, NEW c \in CPUs
             PROVE  /\ frame[c] = "handler" => held[c]["thread"] = {} /\ at[c]["thread"] = "run"
                    /\ frame[c] = "thread" /\ at[c]["thread"] = "run" =>
                         /\ ncli[c] = Cardinality(held[c]["thread"])
                         /\ fl_if[c] = 1 <=> held[c]["thread"] = {}
  BY SMT, SMTT(40) DEF InterruptsSafe, HandlerAboveNoLock, InterruptsRestored
<1> USE DEF IInv
<1>1. ASSUME frame[c] = "handler"
      PROVE  held[c]["thread"] = {} /\ at[c]["thread"] = "run"
  BY <1>1, SMT, SMTT(40) DEF Place, Frames
<1>2. ASSUME frame[c] = "thread", at[c]["thread"] = "run"
      PROVE  /\ ncli[c] = Cardinality(held[c]["thread"])
             /\ fl_if[c] = 1 <=> held[c]["thread"] = {}
  <2>1. Inside(c) = 0
    BY SMT, SMTT(40), <1>2 DEF Inside
  <2>2. IsFiniteSet(held[c]["thread"])
    BY SMT DEF Place, Frames
  <2>3. Cardinality(held[c]["thread"]) \in Nat
    BY SMT, SMTT(40), <2>2, FS_CardinalityType
  <2>4. ncli[c] = Cardinality(held[c]["thread"]) + 0
    BY SMT, SMTT(40), <1>2, <2>1 DEF Depth
  <2>5. fl_if[c] = IF ncli[c] = 0 THEN 1 ELSE 0
    BY SMT, SMTT(40), <1>2 DEF Flags
  <2>6. ncli[c] = 0 <=> held[c]["thread"] = {}
    BY <1>2, Outside
  <2> QED
    BY <2>3, <2>4, <2>5, <2>6, SMT, SMTT(40)
<1> QED
  BY SMT, SMTT(40), <1>1, <1>2

\* However many CPUs, locks and levels of nesting: a spin lock of spinlock.c has
\* one holder at a time, a thread or a handler, and neither acquire() nor
\* release() nor popcli() panics, as long as locks are taken in their order.
THEOREM LocksExclude == Spec => []LocksConsistent
<1>1. Spec => []IInv
  BY InitInv, StepInv, PTL DEF Spec
<1> QED
  BY <1>1, Consistency, PTL

\* pushcli() and popcli() keep interrupts off from the first lock to the last:
\* a handler never interrupts a thread inside a lock, acquire() or release(),
\* and outside them the thread has its interrupts on again.
THEOREM InterruptsKept == Spec => []InterruptsSafe
<1>1. Spec => []IInv
  BY InitInv, StepInv, PTL DEF Spec
<1> QED
  BY <1>1, Safety, PTL
=============================================================================
