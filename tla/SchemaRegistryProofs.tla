------------------------ MODULE SchemaRegistryProofs ------------------------
(***************************************************************************)
(* What register and persist guarantee, for any versions, fields, types    *)
(* and number of processes.  Versions registered in ascending order are    *)
(* linearly ordered, so the latest of them is the one predecessor of the   *)
(* next, and compatibility with it is compatibility with all of them.      *)
(***************************************************************************)
EXTENDS SchemaRegistry, FiniteSetTheorems, TLAPS

----------------------------------------------------------------------------
(* The order of versions *)

\* Two versions are never earlier than each other: version_cmp is an order on
\* the parts that are numbers.
LEMMA PrecedesAsymmetric ==
    ASSUME NEW v \in Version, NEW w \in Version, Precedes(v, w), Precedes(w, v)
    PROVE  FALSE
<1> DEFINE a == Numbers(v)
           b == Numbers(w)
<1>1. a \in Seq(Nat) /\ b \in Seq(Nat)
  BY SchemaAssumption DEF SchemaAssumption
<1>2. Less(a, b) /\ Less(b, a)
  BY DEF Precedes
<1> HIDE DEF a, b
<1>3. DOMAIN a = 1..Len(a) /\ DOMAIN b = 1..Len(b) /\ Len(a) \in Nat /\ Len(b) \in Nat
  BY <1>1
<1>4. /\ \A i \in 1..Len(a) : a[i] \in Nat
      /\ \A i \in 1..Len(b) : b[i] \in Nat
  BY <1>1
<1>5. CASE \E i \in DOMAIN a \intersect DOMAIN b :
              a[i] < b[i] /\ \A j \in 1..(i - 1) : a[j] = b[j]
  <2>1. PICK i \in DOMAIN a \intersect DOMAIN b :
              a[i] < b[i] /\ \A j \in 1..(i - 1) : a[j] = b[j]
    BY <1>5
  <2>2. CASE Len(b) < Len(a) /\ \A k \in DOMAIN b : b[k] = a[k]
    BY <1>3, <1>4, <2>1, <2>2
  <2>3. CASE \E k \in DOMAIN b \intersect DOMAIN a :
                b[k] < a[k] /\ \A j \in 1..(k - 1) : b[j] = a[j]
    <3>1. PICK k \in DOMAIN b \intersect DOMAIN a :
                b[k] < a[k] /\ \A j \in 1..(k - 1) : b[j] = a[j]
      BY <2>3
    <3>2. i = k \/ i \in 1..(k - 1) \/ k \in 1..(i - 1)
      BY <1>3, <2>1, <3>1
    <3> QED BY <1>3, <1>4, <2>1, <3>1, <3>2
  <2> QED BY <1>2, <2>2, <2>3 DEF Less
<1>6. CASE Len(a) < Len(b) /\ \A i \in DOMAIN a : a[i] = b[i]
  <2>1. CASE \E k \in DOMAIN b \intersect DOMAIN a :
                b[k] < a[k] /\ \A j \in 1..(k - 1) : b[j] = a[j]
    BY <1>3, <1>4, <1>6, <2>1
  <2> QED BY <1>2, <1>3, <1>6, <2>1 DEF Less
<1> QED BY <1>2, <1>5, <1>6 DEF Less

\* ... and a version earlier than a second, itself earlier than a third, is
\* earlier than the third.
LEMMA PrecedesTransitive ==
    ASSUME NEW u \in Version, NEW v \in Version, NEW w \in Version,
           Precedes(u, v), Precedes(v, w)
    PROVE  Precedes(u, w)
<1> DEFINE a == Numbers(u)
           b == Numbers(v)
           c == Numbers(w)
<1>1. a \in Seq(Nat) /\ b \in Seq(Nat) /\ c \in Seq(Nat)
  BY SchemaAssumption DEF SchemaAssumption
<1>2. Less(a, b) /\ Less(b, c)
  BY DEF Precedes
<1> SUFFICES Less(a, c)
  BY DEF Precedes
<1> HIDE DEF a, b, c
<1>3. /\ DOMAIN a = 1..Len(a) /\ DOMAIN b = 1..Len(b) /\ DOMAIN c = 1..Len(c)
      /\ Len(a) \in Nat /\ Len(b) \in Nat /\ Len(c) \in Nat
  BY <1>1
<1>4. /\ \A i \in 1..Len(a) : a[i] \in Nat
      /\ \A i \in 1..Len(b) : b[i] \in Nat
      /\ \A i \in 1..Len(c) : c[i] \in Nat
  BY <1>1
<1> DEFINE Differ(x, y, i) == i \in DOMAIN x \intersect DOMAIN y /\ x[i] < y[i]
                              /\ \A j \in 1..(i - 1) : x[j] = y[j]
           Prefix(x, y) == Len(x) < Len(y) /\ \A i \in DOMAIN x : x[i] = y[i]
<1>5. CASE Prefix(a, b) /\ Prefix(b, c)
  <2>1. Prefix(a, c)
    BY <1>3, <1>5
  <2> QED BY <2>1 DEF Less
<1>6. ASSUME Prefix(a, b), NEW k, Differ(b, c, k) PROVE Less(a, c)
  <2>1. CASE k \in DOMAIN a
    <3>1. Differ(a, c, k)
      BY <1>3, <1>4, <1>6, <2>1
    <3> QED BY <3>1 DEF Less
  <2>2. CASE k \notin DOMAIN a
    <3>1. Len(a) < k /\ k <= Len(c)
      BY <1>3, <1>6, <2>2
    <3>2. \A i \in DOMAIN a : i \in 1..(k - 1)
      BY <1>3, <1>6, <3>1
    <3>3. Prefix(a, c)
      BY <1>3, <1>6, <3>1, <3>2
    <3> QED BY <3>3 DEF Less
  <2> QED BY <2>1, <2>2
<1>7. ASSUME Prefix(b, c), NEW i, Differ(a, b, i) PROVE Less(a, c)
  <2>1. i \in DOMAIN a \intersect DOMAIN c /\ i \in Nat /\ i >= 1 /\ i <= Len(b)
    BY <1>3, <1>7
  <2>2. a[i] < c[i]
    BY <1>3, <1>7, <2>1
  <2>3. \A j \in 1..(i - 1) : j \in DOMAIN b
    BY <1>3, <2>1
  <2>4. \A j \in 1..(i - 1) : a[j] = c[j]
    BY <1>7, <2>3
  <2> QED BY <2>1, <2>2, <2>4 DEF Less
<1>8. ASSUME NEW i, Differ(a, b, i), NEW k, Differ(b, c, k) PROVE Less(a, c)
  <2>1. i \in Nat /\ k \in Nat /\ i >= 1 /\ k >= 1
    BY <1>3, <1>8
  <2>2. CASE i <= k
    <3>1. Differ(a, c, i)
      <4>1. i \in DOMAIN a \intersect DOMAIN c
        BY <1>3, <1>8, <2>1, <2>2
      <4>2. a[i] < c[i]
        <5>1. CASE i = k
          BY <1>3, <1>4, <1>8, <5>1, <4>1
        <5>2. CASE i # k
          <6>1. i \in 1..(k - 1)
            BY <2>1, <2>2, <5>2
          <6> QED BY <1>8, <6>1
        <5> QED BY <5>1, <5>2
      <4>3. \A j \in 1..(i - 1) : a[j] = c[j]
        BY <1>8, <2>1, <2>2
      <4> QED BY <4>1, <4>2, <4>3
    <3> QED BY <3>1 DEF Less
  <2>3. CASE k < i
    <3>1. Differ(a, c, k)
      <4>1. k \in DOMAIN a \intersect DOMAIN c /\ k \in 1..(i - 1)
        BY <1>3, <1>8, <2>1, <2>3
      <4>2. a[k] < c[k]
        BY <1>8, <4>1
      <4>3. \A j \in 1..(k - 1) : a[j] = c[j]
        BY <1>8, <2>1, <2>3
      <4> QED BY <4>1, <4>2, <4>3
    <3> QED BY <3>1 DEF Less
  <2> QED BY <2>1, <2>2, <2>3
<1> QED BY <1>2, <1>5, <1>6, <1>7, <1>8 DEF Less

\* Any finite set of versions that is not empty has a latest one, so max_by
\* has something to return and register something to compare with: the
\* versions above one are fewer the higher it is.
LEMMA LatestExists ==
    ASSUME NEW S \in SUBSET Version, IsFiniteSet(S), S # {}
    PROVE  Latest(S) # {}
<1> DEFINE Above(v) == {w \in S : Precedes(v, w)}
           T == {Above(v) : v \in S}
<1>1. IsWellFoundedOn(StrictSubsetOrdering(S), FiniteSubsetsOf(S))
  BY FS_StrictSubsetOrderingWellFounded
<1>2. T \subseteq FiniteSubsetsOf(S) /\ T # {}
  <2>1. \A v \in S : Above(v) \in SUBSET S
    OBVIOUS
  <2>2. FiniteSubsetsOf(S) = SUBSET S
    BY FS_FiniteSubsetsOfFinite
  <2> HIDE DEF Above
  <2> QED BY <2>1, <2>2
<1>3. PICK A \in T : \A B \in T : <<B, A>> \notin StrictSubsetOrdering(S)
  <2> HIDE DEF T
  <2> QED BY <1>1, <1>2, WFMin
<1>4. PICK v \in S : A = Above(v)
  BY <1>3
<1>5. ASSUME NEW w \in S, Precedes(v, w) PROVE FALSE
  <2>1. Above(w) \subseteq Above(v)
    BY <1>5, PrecedesTransitive
  <2>2. w \in Above(v) /\ w \notin Above(w)
    BY <1>5, PrecedesAsymmetric
  <2>3. Above(w) \in SUBSET S /\ Above(v) \in SUBSET S
    OBVIOUS
  <2>4. <<Above(w), A>> \in StrictSubsetOrdering(S)
    <3> HIDE DEF Above
    <3> QED BY <1>4, <2>1, <2>2, <2>3 DEF StrictSubsetOrdering
  <2> QED BY <1>3, <2>4
<1> QED BY <1>5 DEF Latest, VersionLess

----------------------------------------------------------------------------
(* One more schema *)

\* What check_backward_compatible accepts reads what it was compared with,
\* unless an optional field becomes required.
LEMMA CompatibleReads ==
    ASSUME NEW old, NEW new, CheckBackwardCompatible(old, new), ~Tightens(old, new)
    PROVE  Reads(old, new)
BY DEF CheckBackwardCompatible, Tightens, Reads, Accepts

\* Reading passes on while no field is dropped.
LEMMA ReadsTransitive ==
    ASSUME NEW a, NEW b, NEW c, Reads(a, b), Reads(b, c), DOMAIN a \subseteq DOMAIN b
    PROVE  Reads(a, c)
BY DEF Reads

\* Every two versions have an order.
Linear(map) ==
    \A v, w \in DOMAIN map : v = w \/ Precedes(v, w) \/ Precedes(w, v)

StepsRead(map) ==
    \A v, w \in DOMAIN map :
        Adjacent(DOMAIN map, v, w) /\ ~Tightens(map[v], map[w]) => Reads(map[v], map[w])

\* Any later version, not only the next one, reads the earlier.
ChainReads(map) ==
    OnlyWidens(map) =>
        \A v, w \in DOMAIN map : Precedes(v, w) =>
            DOMAIN map[v] \subseteq DOMAIN map[w] /\ Reads(map[v], map[w])

\* register of a version above all others keeps the chain.
LEMMA ExtendKeepsChain ==
    ASSUME NEW map, DOMAIN map \subseteq Version,
           NEW v \in Version, NEW s,
           \A w \in DOMAIN map : Precedes(w, v),
           \/ DOMAIN map = {}
           \/ \E m \in Latest(DOMAIN map) : CheckBackwardCompatible(map[m], s),
           Linear(map), StepsRead(map), ChainReads(map)
    PROVE  LET new == Extend(map, v, s)
           IN  Linear(new) /\ StepsRead(new) /\ ChainReads(new)
<1> DEFINE D == DOMAIN map
           new == Extend(map, v, s)
<1>1. v \notin D /\ ~Precedes(v, v) /\ \A w \in D : ~Precedes(v, w)
  BY PrecedesAsymmetric
<1>2. /\ DOMAIN new = D \union {v}
      /\ new[v] = s
      /\ \A w \in D : new[w] = map[w]
  BY <1>1 DEF Extend
<1> HIDE DEF new
<1>3. Linear(new)
  BY <1>2 DEF Linear
<1>4. \A a, b \in D : Adjacent(D, a, b) <=> Adjacent(DOMAIN new, a, b)
  BY <1>1, <1>2 DEF Adjacent
<1>5. \A m \in Latest(D) : \A w \in D : w = m \/ Precedes(w, m)
  BY DEF Linear, Latest, VersionLess
<1>6. \A m \in Latest(D) : Adjacent(DOMAIN new, m, v)
  BY <1>1, <1>2 DEF Adjacent, Latest, VersionLess
<1>7. \A a \in D : Adjacent(DOMAIN new, a, v) => a \in Latest(D)
  BY <1>2 DEF Adjacent, Latest, VersionLess
<1>8. StepsRead(new)
  <2> SUFFICES ASSUME NEW a \in DOMAIN new, NEW b \in DOMAIN new,
                      Adjacent(DOMAIN new, a, b), ~Tightens(new[a], new[b])
               PROVE  Reads(new[a], new[b])
    BY DEF StepsRead
  <2>1. CASE a \in D /\ b \in D
    BY <1>2, <1>4, <2>1 DEF StepsRead
  <2>2. CASE a \in D /\ b = v
    <3>1. PICK m \in Latest(D) : CheckBackwardCompatible(map[m], s)
      BY <2>2
    <3>2. a \in Latest(D)
      BY <1>7, <2>2
    <3>3. a = m
      BY <1>5, <3>1, <3>2 DEF Latest, VersionLess
    <3> QED BY <1>2, <2>2, <3>1, <3>3, CompatibleReads
  <2>3. CASE a = v
    BY <1>1, <1>2, <2>3 DEF Adjacent
  <2> QED BY <1>2, <2>1, <2>2, <2>3
<1>9. ChainReads(new)
  <2> SUFFICES ASSUME OnlyWidens(new),
                      NEW a \in DOMAIN new, NEW b \in DOMAIN new, Precedes(a, b)
               PROVE  DOMAIN new[a] \subseteq DOMAIN new[b] /\ Reads(new[a], new[b])
    BY DEF ChainReads
  <2>1. OnlyWidens(map)
    BY <1>2, <1>4 DEF OnlyWidens
  <2>2. CASE a \in D /\ b \in D
    BY <1>2, <2>1, <2>2 DEF ChainReads
  <2>3. CASE a \in D /\ b = v
    <3>1. PICK m \in Latest(D) : CheckBackwardCompatible(map[m], s)
      BY <2>3
    <3>2. m \in D
      BY <3>1 DEF Latest
    <3>3. ~Tightens(map[m], s) /\ ~Drops(map[m], s)
      BY <1>2, <1>6, <3>1, <3>2 DEF OnlyWidens
    <3>4. DOMAIN map[m] \subseteq DOMAIN s /\ Reads(map[m], s)
      BY <3>1, <3>3, CompatibleReads DEF Drops
    <3>5. a = m \/ Precedes(a, m)
      BY <1>5, <2>3, <3>1
    <3>6. CASE a = m
      BY <1>2, <2>3, <3>4, <3>6
    <3>7. CASE Precedes(a, m)
      <4>1. DOMAIN map[a] \subseteq DOMAIN map[m] /\ Reads(map[a], map[m])
        BY <2>1, <2>3, <3>2, <3>7 DEF ChainReads
      <4> QED BY <1>2, <2>3, <3>4, <4>1, ReadsTransitive
    <3> QED BY <3>5, <3>6, <3>7
  <2>4. CASE a = v
    BY <1>1, <1>2, <2>4
  <2> QED BY <1>2, <2>2, <2>3, <2>4
<1> QED BY <1>3, <1>8, <1>9 DEF new

----------------------------------------------------------------------------
(* Types *)

\* A registry with one more version is still one.
LEMMA ExtendType ==
    ASSUME NEW map, OnVersions(map), NEW v \in Version, NEW s \in Schema
    PROVE  OnVersions(Extend(map, v, s)) /\ DOMAIN map \subseteq DOMAIN Extend(map, v, s)
BY DEF OnVersions, Extend

\* The empty registry is one.
LEMMA NothingType == OnVersions(Nothing) /\ DOMAIN Nothing = {}
BY DEF OnVersions, Nothing

\* The registries start well typed.
LEMMA InitType == Init => TypeOK
BY NothingType DEF Init, TypeOK

\* Every call keeps the types.
LEMMA StepType == TypeOK /\ [Next]_vars => TypeOK'
<1> SUFFICES ASSUME TypeOK, [Next]_vars PROVE TypeOK'
  OBVIOUS
<1>0. registers \in Nat /\ faults \in Nat
  BY DEF TypeOK
<1>9. ASSUME registers' \in {registers, registers + 1}, faults' \in {faults, faults + 1}
      PROVE  registers' \in Nat /\ faults' \in Nat
  BY <1>0, <1>9
<1> USE DEF TypeOK
<1>1. ASSUME NEW p \in Process, NEW v \in Version, NEW s \in Schema, Register(p, v, s)
      PROVE  TypeOK'
  <2>1. /\ OnVersions(Extend(registry[p], v, s))
        /\ DOMAIN registry[p] \subseteq DOMAIN Extend(registry[p], v, s)
    BY ExtendType
  <2>2. \A q \in Process : /\ OnVersions(registry'[q])
                           /\ todo'[q] \subseteq DOMAIN registry'[q]
    BY <1>1, <2>1 DEF Register
  <2>3. DOMAIN registry' = Process /\ DOMAIN todo' = Process
    BY <1>1 DEF Register
  <2>4. ordered' \in [Process -> BOOLEAN]
    BY <1>1 DEF Register
  <2>5. saving' \in [Process -> {"no", "under way", "done"}]
    BY <1>1 DEF Register
  <2>6. registers' = registers + 1 /\ faults' = faults
    BY <1>1, Zenon DEF Register
  <2>7. table' = table /\ published' = published
    BY <1>1 DEF Register
  <2> QED BY <1>9, <2>2, <2>3, <2>4, <2>5, <2>6, <2>7
<1>2. ASSUME NEW p \in Process, NEW v \in Version, NEW payload \in Payload,
             Publish(p, v, payload)
      PROVE  TypeOK'
  <2>1. published' \in [Process -> SUBSET (Version \X Payload)]
    <3>1. published[p] \union {<<v, payload>>} \in SUBSET (Version \X Payload)
      <4>1. published[p] \in SUBSET (Version \X Payload)
        OBVIOUS
      <4>2. <<v, payload>> \in Version \X Payload
        OBVIOUS
      <4> QED BY <4>1, <4>2, Zenon
    <3> QED BY <1>2, <3>1 DEF Publish
  <2> QED BY <1>2, <2>1 DEF Publish, saveVars
<1>3. ASSUME NEW p \in Process, NEW v \in Version, PersistOne(p, v)
      PROVE  TypeOK'
  <2>1. v \in DOMAIN registry[p] /\ registry[p][v] \in Schema
    BY <1>3 DEF PersistOne, OnVersions
  <2>2. OnVersions(table')
    BY <1>3, <2>1, ExtendType DEF PersistOne
  <2> QED BY <1>3, <2>2 DEF PersistOne, regVars
<1>4. ASSUME NEW p \in Process, Persist(p) PROVE TypeOK'
  BY <1>4 DEF Persist, regVars
<1>5. ASSUME NEW p \in Process, PersistDone(p) PROVE TypeOK'
  BY <1>5 DEF PersistDone, regVars
<1>6. ASSUME NEW p \in Process, PersistError(p) PROVE TypeOK'
  <2>1. OnVersions(table')
    <3>1. CASE UNCHANGED table
      BY <3>1
    <3>2. ASSUME NEW v \in todo[p] \ DOMAIN table,
                 table' = Extend(table, v, registry[p][v])
          PROVE  OnVersions(table')
      <4>1. v \in Version /\ registry[p][v] \in Schema
        BY <3>2 DEF OnVersions
      <4> QED BY <3>2, <4>1, ExtendType
    <3> QED BY <1>6, <3>1, <3>2 DEF PersistError
  <2>2. /\ DOMAIN registry' = Process /\ DOMAIN todo' = Process
        /\ \A q \in Process : OnVersions(registry'[q]) /\ todo'[q] \subseteq DOMAIN registry'[q]
    BY <1>6 DEF PersistError, regVars
  <2>3. saving' \in [Process -> {"no", "under way", "done"}]
    BY <1>6 DEF PersistError
  <2>4. /\ ordered' = ordered /\ published' = published
        /\ registers' = registers /\ faults' = faults + 1
    BY <1>6, Zenon DEF PersistError, regVars
  <2> QED BY <1>9, <2>1, <2>2, <2>3, <2>4
<1>7. ASSUME NEW p \in Process, Restart(p) PROVE TypeOK'
  <2>1. /\ DOMAIN registry' = Process /\ DOMAIN todo' = Process
        /\ \A q \in Process : OnVersions(registry'[q]) /\ todo'[q] \subseteq DOMAIN registry'[q]
    BY <1>7, NothingType DEF Restart
  <2>2. saving' \in [Process -> {"no", "under way", "done"}]
    BY <1>7 DEF Restart
  <2>3. ordered' \in [Process -> BOOLEAN]
    BY <1>7 DEF Restart
  <2>4. published' \in [Process -> SUBSET (Version \X Payload)]
    BY <1>7 DEF Restart
  <2>5. table' = table /\ registers' = registers /\ faults' = faults + 1
    BY <1>7, Zenon DEF Restart
  <2> QED BY <1>9, <2>1, <2>2, <2>3, <2>4, <2>5
<1>8. CASE UNCHANGED vars
  BY <1>8 DEF vars, regVars, saveVars
<1> QED BY <1>1, <1>2, <1>3, <1>4, <1>5, <1>6, <1>7, <1>8 DEF Next

\* The registries, the table and what a persist has still to write keep their
\* types: a persist under way only has versions of its own registry to write.
THEOREM TypeCorrect == Spec => []TypeOK
BY InitType, StepType, PTL DEF Spec

----------------------------------------------------------------------------
(* persist *)

\* What a persist under way has behind it is in the table.
SavedInv ==
    \A p \in Process :
        saving[p] # "no" => DOMAIN registry[p] \ todo[p] \subseteq DOMAIN table

\* A persist that is over has nothing left to write.
DoneInv == \A p \in Process : saving[p] # "under way" => todo[p] = {}

\* Rows are only added, and a finished persist has left none out.
LEMMA StepSaved ==
    TypeOK /\ SavedInv /\ DoneInv /\ [Next]_vars => SavedInv' /\ DoneInv'
<1> SUFFICES ASSUME TypeOK, SavedInv, DoneInv, [Next]_vars PROVE SavedInv' /\ DoneInv'
  OBVIOUS
<1> USE DEF TypeOK, SavedInv, DoneInv
<1>1. ASSUME NEW p \in Process, NEW v \in Version, NEW s \in Schema, Register(p, v, s)
      PROVE  SavedInv' /\ DoneInv'
  BY <1>1 DEF Register
<1>2. ASSUME NEW p \in Process, NEW v \in Version, NEW payload \in Payload,
             Publish(p, v, payload)
      PROVE  SavedInv' /\ DoneInv'
  BY <1>2 DEF Publish, saveVars
<1>3. ASSUME NEW p \in Process, NEW v \in Version, PersistOne(p, v)
      PROVE  SavedInv' /\ DoneInv'
  <2>1. DOMAIN table' = DOMAIN table \union {v}
    BY <1>3 DEF PersistOne, Extend
  <2> QED BY <1>3, <2>1 DEF PersistOne, regVars
<1>4. ASSUME NEW p \in Process, Persist(p) PROVE SavedInv' /\ DoneInv'
  BY <1>4 DEF Persist, regVars
<1>5. ASSUME NEW p \in Process, PersistDone(p) PROVE SavedInv' /\ DoneInv'
  BY <1>5 DEF PersistDone, regVars
<1>6. ASSUME NEW p \in Process, PersistError(p) PROVE SavedInv' /\ DoneInv'
  <2>1. DOMAIN table \subseteq DOMAIN table'
    <3>1. CASE UNCHANGED table
      BY <3>1
    <3>2. CASE \E v \in todo[p] \ DOMAIN table :
                  table' = Extend(table, v, registry[p][v])
      BY <3>2 DEF Extend
    <3> QED BY <1>6, <3>1, <3>2 DEF PersistError
  <2> QED BY <1>6, <2>1 DEF PersistError, regVars
<1>7. ASSUME NEW p \in Process, Restart(p) PROVE SavedInv' /\ DoneInv'
  BY <1>7 DEF Restart
<1>8. CASE UNCHANGED vars
  BY <1>8 DEF vars, regVars, saveVars
<1> QED BY <1>1, <1>2, <1>3, <1>4, <1>5, <1>6, <1>7, <1>8 DEF Next

\* persist tells the truth: after its Ok every version of the registry has a
\* row, whatever other processes write and whatever failed before.
THEOREM PersistCorrect == Spec => []PersistTruthful
<1>1. Init => SavedInv /\ DoneInv
  BY DEF Init, SavedInv, DoneInv
<1>2. SavedInv /\ DoneInv => PersistTruthful
  BY DEF SavedInv, DoneInv, PersistTruthful
<1> QED BY <1>1, <1>2, StepSaved, TypeCorrect, PTL DEF Spec

----------------------------------------------------------------------------
(* register and validate *)

Valid(map, events) ==
    \A event \in events : event[1] \in DOMAIN map /\ Accepts(map[event[1]], event[2])

\* A process that registers in ascending order has a chain of schemas, and
\* each event it published is valid under the one it named.
ReaderInv ==
    \A p \in Process : ordered[p] =>
        /\ Linear(registry[p]) /\ StepsRead(registry[p]) /\ ChainReads(registry[p])
        /\ Valid(registry[p], published[p])

\* The empty registry is a chain.
LEMMA NothingReads ==
    Linear(Nothing) /\ StepsRead(Nothing) /\ ChainReads(Nothing) /\ Valid(Nothing, {})
BY NothingType DEF Linear, StepsRead, ChainReads, Valid

\* register extends the chain; nothing else touches a schema.
LEMMA StepReader == TypeOK /\ ReaderInv /\ [Next]_vars => ReaderInv'
<1> SUFFICES ASSUME TypeOK, ReaderInv, [Next]_vars PROVE ReaderInv'
  OBVIOUS
<1>1. ASSUME NEW p \in Process, NEW v \in Version, NEW s \in Schema, Register(p, v, s)
      PROVE  ReaderInv'
  <2> DEFINE new == Extend(registry[p], v, s)
  <2>1. /\ registry'[p] = new
        /\ \A q \in Process \ {p} : registry'[q] = registry[q] /\ ordered'[q] = ordered[q]
        /\ published' = published
    BY <1>1 DEF Register, TypeOK
  <2>2. ordered'[p] => ordered[p] /\ \A w \in DOMAIN registry[p] : Precedes(w, v)
    BY <1>1 DEF Register, TypeOK
  <2> HIDE DEF new
  <2>3. ASSUME ordered'[p]
        PROVE  /\ Linear(new) /\ StepsRead(new) /\ ChainReads(new)
               /\ Valid(new, published[p])
    <3>1. DOMAIN registry[p] \subseteq Version
      BY DEF TypeOK, OnVersions
    <3>2. \/ DOMAIN registry[p] = {}
          \/ \E m \in Latest(DOMAIN registry[p]) :
                CheckBackwardCompatible(registry[p][m], s)
      BY <1>1 DEF Register, Accepted
    <3>3. Linear(registry[p]) /\ StepsRead(registry[p]) /\ ChainReads(registry[p])
      BY <2>2, <2>3 DEF ReaderInv
    <3>4. Linear(new) /\ StepsRead(new) /\ ChainReads(new)
      BY <2>2, <2>3, <3>1, <3>2, <3>3, ExtendKeepsChain DEF new
    <3>5. v \notin DOMAIN registry[p]
      BY <2>2, <2>3, PrecedesAsymmetric
    <3>6. Valid(new, published[p])
      BY <2>2, <2>3, <3>5 DEF ReaderInv, Valid, Extend, new
    <3> QED BY <3>4, <3>6
  <2> QED BY <2>1, <2>3 DEF ReaderInv
<1>2. ASSUME NEW p \in Process, NEW v \in Version, NEW payload \in Payload,
             Publish(p, v, payload)
      PROVE  ReaderInv'
  <2>1. /\ published'[p] = published[p] \union {<<v, payload>>}
        /\ \A q \in Process \ {p} : published'[q] = published[q]
    BY <1>2 DEF Publish, TypeOK
  <2>2. Valid(registry[p], published[p]) => Valid(registry[p], published'[p])
    BY <1>2, <2>1 DEF Publish, Valid
  <2>3. registry' = registry /\ ordered' = ordered
    BY <1>2 DEF Publish
  <2> QED BY <2>1, <2>2, <2>3 DEF ReaderInv
<1>3. ASSUME NEW p \in Process, Restart(p)
      PROVE  ReaderInv'
  <2>1. /\ registry'[p] = Nothing /\ published'[p] = {}
        /\ \A q \in Process \ {p} : /\ registry'[q] = registry[q]
                                    /\ ordered'[q] = ordered[q]
                                    /\ published'[q] = published[q]
    BY <1>3 DEF Restart, TypeOK
  <2> QED BY <2>1, NothingReads DEF ReaderInv
<1>4. CASE UNCHANGED regVars
  BY <1>4 DEF regVars, ReaderInv
<1> QED
  BY <1>1, <1>2, <1>3, <1>4
     DEF Next, Persist, PersistOne, PersistDone, PersistError, vars

\* The chain of schemas holds in every reachable state.
LEMMA ReaderHolds == Spec => []ReaderInv
<1>1. Init => ReaderInv
  BY NothingReads DEF Init, ReaderInv
<1> QED BY <1>1, StepReader, TypeCorrect, PTL DEF Spec

\* Versions registered in ascending order form a chain in which each schema
\* reads what was written under the one before, if none tightens a field.
THEOREM StepsCorrect == Spec => []StepsCompatible
<1>1. ReaderInv => StepsCompatible
  BY DEF ReaderInv, StepsCompatible, StepsRead
<1> QED BY <1>1, ReaderHolds, PTL

\* An event that passed validate stays valid under every later version of its
\* publisher, over any number of steps that neither tighten nor drop a field.
THEOREM EventsCorrect == Spec => []EventsStayReadable
<1>1. TypeOK /\ ReaderInv => EventsStayReadable
  <2> SUFFICES ASSUME TypeOK, ReaderInv, NEW p \in Process,
                      ordered[p], OnlyWidens(registry[p]),
                      NEW event \in published[p], NEW w \in DOMAIN registry[p],
                      DOMAIN event[2] \subseteq DOMAIN registry[p][event[1]],
                      event[1] = w \/ Precedes(event[1], w)
               PROVE  Accepts(registry[p][w], event[2])
    BY DEF EventsStayReadable
  <2>1. event[2] \in Payload
    <3>1. published[p] \subseteq Version \X Payload
      BY DEF TypeOK
    <3> QED BY <3>1
  <2>2. event[1] \in DOMAIN registry[p] /\ Accepts(registry[p][event[1]], event[2])
    BY DEF ReaderInv, Valid
  <2>3. CASE Precedes(event[1], w)
    <3>1. Reads(registry[p][event[1]], registry[p][w])
      BY <2>2, <2>3 DEF ReaderInv, ChainReads
    <3> QED BY <2>1, <2>2, <3>1 DEF Reads
  <2> QED BY <2>2, <2>3
<1> QED BY <1>1, ReaderHolds, TypeCorrect, PTL

----------------------------------------------------------------------------
(* The version a new one is compared with *)

\* Only a register adds a version.
FiniteInv == \A p \in Process : IsFiniteSet(DOMAIN registry[p])

\* A registry holds as many versions as were registered: finitely many.
LEMMA StepFinite == TypeOK /\ FiniteInv /\ [Next]_vars => FiniteInv'
<1> SUFFICES ASSUME TypeOK, FiniteInv, [Next]_vars PROVE FiniteInv'
  OBVIOUS
<1>1. ASSUME NEW p \in Process, NEW v \in Version, NEW s \in Schema, Register(p, v, s)
      PROVE  FiniteInv'
  <2>1. /\ DOMAIN registry'[p] = DOMAIN registry[p] \union {v}
        /\ \A q \in Process \ {p} : registry'[q] = registry[q]
    BY <1>1 DEF Register, Extend, TypeOK
  <2> QED BY <2>1, FS_AddElement DEF FiniteInv
<1>2. ASSUME NEW p \in Process, Restart(p) PROVE FiniteInv'
  <2>1. /\ registry'[p] = Nothing
        /\ \A q \in Process \ {p} : registry'[q] = registry[q]
    BY <1>2 DEF Restart, TypeOK
  <2> QED BY <2>1, NothingType, FS_EmptySet DEF FiniteInv
<1>3. CASE UNCHANGED registry
  BY <1>3 DEF FiniteInv
<1> QED
  BY <1>1, <1>2, <1>3
     DEF Next, Publish, Persist, PersistOne, PersistDone, PersistError, vars, regVars

\* Whatever was registered, in whatever order and with whatever parts that are
\* not numbers, max_by finds a latest version, which nothing exceeds; and there
\* is only one if the process registered its versions in ascending order.
LatestFound ==
    \A p \in Process : DOMAIN registry[p] # {} =>
        /\ Latest(DOMAIN registry[p]) # {}
        /\ ordered[p] => \A v, w \in Latest(DOMAIN registry[p]) : v = w

\* register always has a version to compare the new schema with, so its check
\* is never passed over, and never ambiguous where versions come in order.
THEOREM LatestCorrect == Spec => []LatestFound
<1>1. Init => FiniteInv
  BY NothingType, FS_EmptySet DEF Init, FiniteInv
<1>2. TypeOK /\ FiniteInv /\ ReaderInv => LatestFound
  <2> SUFFICES ASSUME TypeOK, FiniteInv, ReaderInv, NEW p \in Process,
                      DOMAIN registry[p] # {}
               PROVE  /\ Latest(DOMAIN registry[p]) # {}
                      /\ ordered[p] => \A v, w \in Latest(DOMAIN registry[p]) : v = w
    BY DEF LatestFound
  <2>1. DOMAIN registry[p] \in SUBSET Version /\ IsFiniteSet(DOMAIN registry[p])
    BY DEF TypeOK, OnVersions, FiniteInv
  <2>2. Latest(DOMAIN registry[p]) # {}
    BY <2>1, LatestExists
  <2>3. ordered[p] => \A v, w \in Latest(DOMAIN registry[p]) : v = w
    BY DEF ReaderInv, Linear, Latest, VersionLess
  <2> QED BY <2>2, <2>3
<1> QED BY <1>1, <1>2, StepFinite, ReaderHolds, TypeCorrect, PTL DEF Spec

=============================================================================
