------------------------ MODULE AccountRotation_proof ------------------------
(***************************************************************************)
(* Proofs about AccountRotation and the two modules it composes, for any   *)
(* number of accounts and keys, any capacity of the map and any batches.   *)
(***************************************************************************)
EXTENDS AccountRotation, FiniteSetTheorems, SequenceTheorems, TLAPS

Entries == [key : Keys, value : Positions]

-----------------------------------------------------------------------------
(* The accounts in order.                                                    *)

\* How many of accounts a is not below.
Rank(accounts, a) == Cardinality({b \in accounts : b <= a})

LEMMA Remainder ==
    ASSUME NEW x \in Nat, NEW n \in Nat \ {0}
    PROVE  x % n \in 0 .. n - 1 /\ (x < n => x % n = x)
  OBVIOUS

LEMMA AccountSets ==
    ASSUME NEW S \in SUBSET Accounts
    PROVE  /\ IsFiniteSet(S) /\ \A a \in S : a \in Nat
           /\ Cardinality(S) \in Nat /\ Cardinality(S) <= NumAccounts
<1>1. IsFiniteSet(Accounts) /\ Cardinality(Accounts) = NumAccounts
  BY AccountsAssumption, FS_Interval DEF Accounts
<1>2. IsFiniteSet(S) /\ Cardinality(S) <= NumAccounts
  BY <1>1, FS_Subset
<1> QED BY <1>2, FS_CardinalityType DEF Accounts

\* Ranks number the accounts from one, in their order.
LEMMA RankFacts ==
    ASSUME NEW S \in SUBSET Accounts
    PROVE  /\ \A a \in S : Rank(S, a) \in 1 .. Cardinality(S)
           /\ \A a, b \in S : a < b => Rank(S, a) < Rank(S, b)
           /\ \A i \in 1 .. Cardinality(S) : \E a \in S : Rank(S, a) = i
<1> DEFINE n == Cardinality(S)
           Upto(a) == {b \in S : b <= a}
           rank == [a \in S |-> Rank(S, a)]
<1>1. IsFiniteSet(S) /\ n \in Nat /\ \A a \in S : a \in Nat
  BY AccountSets
<1>2. ASSUME NEW a \in S
      PROVE  IsFiniteSet(Upto(a)) /\ Rank(S, a) \in 1 .. n /\ Rank(S, a) \in Nat
  <2>1. IsFiniteSet(Upto(a)) /\ Cardinality(Upto(a)) <= n
    BY <1>1, FS_Subset
  <2>2. Cardinality(Upto(a)) \in Nat /\ a \in Upto(a)
    BY <1>1, <2>1, FS_CardinalityType
  <2>3. Cardinality(Upto(a)) # 0
    BY <2>1, <2>2, FS_EmptySet
  <2> QED BY <1>1, <2>1, <2>2, <2>3 DEF Rank
<1>3. ASSUME NEW a \in S, NEW b \in S, a < b
      PROVE  Rank(S, a) < Rank(S, b)
  <2>1. Upto(a) \in SUBSET Upto(b) /\ b \in Upto(b) /\ b \notin Upto(a)
    BY <1>1, <1>3
  <2>2. /\ Cardinality(Upto(a)) <= Cardinality(Upto(b))
        /\ Cardinality(Upto(a)) # Cardinality(Upto(b))
    BY <1>2, <2>1, FS_Subset
  <2>3. Rank(S, a) \in Nat /\ Rank(S, b) \in Nat
    BY <1>2
  <2> QED BY <2>2, <2>3 DEF Rank
<1>4. rank \in Injection(S, 1 .. n)
  <2>1. rank \in [S -> 1 .. n]
    BY <1>2
  <2>2. \A a, b \in S : rank[a] = rank[b] => a = b
    <3> SUFFICES ASSUME NEW a \in S, NEW b \in S, rank[a] = rank[b], a # b
                 PROVE  FALSE
      OBVIOUS
    <3>1. a < b \/ b < a
      BY <1>1
    <3>2. rank[a] \in Nat /\ rank[a] = Rank(S, a) /\ rank[b] = Rank(S, b)
      BY <1>2
    <3> QED BY <1>3, <3>1, <3>2
  <2> QED BY <2>1, <2>2 DEF Injection, IsInjective
<1>5. rank \in Surjection(S, 1 .. n)
  <2>1. IsFiniteSet(1 .. n) /\ Cardinality(1 .. n) = n
    BY <1>1, FS_Interval
  <2> QED BY <1>4, <2>1, FS_Injection
<1>6. \A i \in 1 .. n : \E a \in S : rank[a] = i
  BY <1>5 DEF Surjection
<1> QED BY <1>2, <1>3, <1>6

\* InOrder lists every account of a set once, in ascending order.
LEMMA InOrderFacts ==
    ASSUME NEW S \in SUBSET Accounts
    PROVE  /\ InOrder(S) \in Seq(S) /\ Len(InOrder(S)) = Cardinality(S)
           /\ \A i, j \in 1 .. Cardinality(S) : i < j => InOrder(S)[i] < InOrder(S)[j]
           /\ \A i, j \in 1 .. Cardinality(S) : InOrder(S)[i] = InOrder(S)[j] => i = j
           /\ \A a \in S : \E i \in 1 .. Cardinality(S) : InOrder(S)[i] = a
<1> DEFINE n == Cardinality(S)
           list == InOrder(S)
<1>1. n \in Nat /\ \A a \in S : a \in Nat
  BY AccountSets
<1>2. list = [i \in 1 .. n |-> CHOOSE a \in S : Rank(S, a) = i]
  BY DEF InOrder, Rank
<1>3. ASSUME NEW i \in 1 .. n PROVE list[i] \in S /\ Rank(S, list[i]) = i
  BY <1>2, RankFacts
<1> HIDE DEF list
<1>4. list \in Seq(S) /\ Len(list) = n
  BY <1>1, <1>2, <1>3
<1>5. \A i, j \in 1 .. n : i < j => list[i] < list[j]
  <2> SUFFICES ASSUME NEW i \in 1 .. n, NEW j \in 1 .. n, i < j, ~(list[i] < list[j])
               PROVE  FALSE
    OBVIOUS
  <2>1. list[i] \in Nat /\ list[j] \in Nat /\ i \in Nat /\ j \in Nat
    BY <1>1, <1>3
  <2>2. list[j] < list[i] \/ list[i] = list[j]
    BY <2>1
  <2> QED BY <1>3, <2>1, <2>2, RankFacts
<1>6. \A i, j \in 1 .. n : list[i] = list[j] => i = j
  BY <1>3
<1>7. ASSUME NEW a \in S PROVE \E i \in 1 .. n : list[i] = a
  <2> DEFINE i == Rank(S, a)
  <2>1. i \in 1 .. n
    BY RankFacts
  <2>2. list[i] \in S /\ Rank(S, list[i]) = Rank(S, a)
    BY <1>3, <2>1
  <2>3. list[i] \in Nat /\ a \in Nat /\ Rank(S, a) \in Nat
    BY <1>1, <2>1, <2>2
  <2>4. ~(list[i] < a) /\ ~(a < list[i])
    BY <2>2, <2>3, RankFacts
  <2>5. list[i] = a
    BY <2>3, <2>4
  <2> QED BY <2>1, <2>5
<1> QED BY <1>4, <1>5, <1>6, <1>7 DEF list

-----------------------------------------------------------------------------
(* The map of the starts.                                                    *)

\* The map is a map: a key has one entry.
OneEntryPerKey ==
    \A p, q \in DOMAIN starts : starts[p].key = starts[q].key => p = q

LEMMA PositionFacts ==
    /\ Positions \subseteq Nat
    /\ \A n \in Nat \ {0}, x \in Nat : n <= NumAccounts => x % n \in Positions
<1>1. NumAccounts \in Nat
  BY AccountsAssumption
<1>2. ASSUME NEW n \in Nat \ {0}, NEW x \in Nat, n <= NumAccounts
      PROVE  x % n \in Positions
  <2>1. x % n \in 0 .. n - 1
    BY Remainder
  <2> QED BY <1>1, <1>2, <2>1 DEF Positions
<1> QED BY <1>1, <1>2 DEF Positions

\* The entry of a key is found, and a key without one starts at the first account.
LEMMA StoredFacts ==
    ASSUME starts \in Seq(Entries), NEW k \in Keys
    PROVE  /\ Stored(k) \in Positions /\ Stored(k) \in Nat
           /\ Known(k) => Place(k) \in DOMAIN starts /\ starts[Place(k)].key = k
           /\ \A p \in DOMAIN starts :
                  OneEntryPerKey /\ starts[p].key = k
                      => Known(k) /\ Place(k) = p /\ Stored(k) = starts[p].value
<1>1. Known(k) => Place(k) \in DOMAIN starts /\ starts[Place(k)].key = k
  BY DEF Known, Place
<1>2. Stored(k) \in Positions
  <2>1. \A p \in DOMAIN starts : starts[p] \in Entries
    OBVIOUS
  <2> QED BY <1>1, <2>1 DEF Stored, Positions, Entries
<1>3. ASSUME OneEntryPerKey, NEW p \in DOMAIN starts, starts[p].key = k
      PROVE  Known(k) /\ Place(k) = p /\ Stored(k) = starts[p].value
  <2>1. Known(k)
    BY <1>3 DEF Known
  <2>2. Place(k) = p
    BY <1>1, <1>3, <2>1 DEF OneEntryPerKey
  <2> QED BY <2>1, <2>2 DEF Stored
<1> QED BY <1>1, <1>2, <1>3, PositionFacts

\* The entries without k's are those of the other keys, in their order.
LEMMA WithoutFacts ==
    ASSUME starts \in Seq(Entries), NEW k \in Keys
    PROVE  /\ Without(k) \in Seq(Entries)
           /\ Len(Without(k)) = IF Known(k) THEN Len(starts) - 1 ELSE Len(starts)
           /\ \A p \in DOMAIN Without(k) :
                  LET q == IF Known(k) /\ p >= Place(k) THEN p + 1 ELSE p
                  IN  q \in DOMAIN starts /\ Without(k)[p] = starts[q]
<1>1. Known(k) => Place(k) \in 1 .. Len(starts)
  BY StoredFacts
<1>2. CASE Known(k)
  <2> DEFINE front == SubSeq(starts, 1, Place(k) - 1)
             back == SubSeq(starts, Place(k) + 1, Len(starts))
  <2>1. /\ front \in Seq(Entries) /\ Len(front) = Place(k) - 1
        /\ \A p \in 1 .. Place(k) - 1 : front[p] = starts[p]
    BY <1>1, <1>2
  <2>2. /\ back \in Seq(Entries) /\ Len(back) = Len(starts) - Place(k)
        /\ \A p \in 1 .. Len(starts) - Place(k) : back[p] = starts[Place(k) + p]
    BY <1>1, <1>2
  <2>3. Without(k) = front \o back
    BY <1>2 DEF Without
  <2> HIDE DEF front, back
  <2>4. /\ Without(k) \in Seq(Entries) /\ Len(Without(k)) = Len(starts) - 1
        /\ \A p \in 1 .. Len(starts) - 1 :
               Without(k)[p] = IF p < Place(k) THEN front[p] ELSE back[p - (Place(k) - 1)]
    BY <1>1, <1>2, <2>1, <2>2, <2>3, ConcatProperties
  <2>5. ASSUME NEW p \in 1 .. Len(starts) - 1
        PROVE  LET q == IF p >= Place(k) THEN p + 1 ELSE p
               IN  q \in DOMAIN starts /\ Without(k)[p] = starts[q]
    <3>1. p \in Nat /\ Place(k) \in Nat /\ DOMAIN starts = 1 .. Len(starts)
      BY <1>1, <1>2
    <3>2. CASE p < Place(k)
      <4>1. p \in 1 .. Place(k) - 1 /\ p \in DOMAIN starts
        BY <3>1, <3>2
      <4> QED BY <2>1, <2>4, <3>1, <3>2, <4>1
    <3>3. CASE p >= Place(k)
      <4>1. p - (Place(k) - 1) \in 1 .. Len(starts) - Place(k) /\ p + 1 \in DOMAIN starts
        BY <1>1, <1>2, <3>1, <3>3
      <4>2. Without(k)[p] = starts[Place(k) + (p - (Place(k) - 1))]
        BY <2>2, <2>4, <3>1, <3>3, <4>1
      <4>3. Place(k) + (p - (Place(k) - 1)) = p + 1
        BY <3>1
      <4> QED BY <3>3, <4>1, <4>2, <4>3
    <3> QED BY <3>1, <3>2, <3>3
  <2> QED BY <1>2, <2>4, <2>5
<1>3. CASE ~Known(k)
  BY <1>3 DEF Without
<1> QED BY <1>2, <1>3

LEMMA RotatedFacts ==
    ASSUME NEW S, NEW list \in Seq(S), NEW start \in 0 .. Len(list) - 1
    PROVE  /\ Rotated(list, start) \in Seq(S) /\ Len(Rotated(list, start)) = Len(list)
           /\ Rotated(list, start)[1] = list[start + 1]
<1> DEFINE front == SubSeq(list, start + 1, Len(list))
           back == SubSeq(list, 1, start)
<1>1. front \in Seq(S) /\ Len(front) = Len(list) - start /\ front[1] = list[start + 1]
  OBVIOUS
<1>2. back \in Seq(S) /\ Len(back) = start
  OBVIOUS
<1>3. Rotated(list, start) = front \o back
  BY DEF Rotated
<1> HIDE DEF front, back
<1>4. /\ front \o back \in Seq(S)
      /\ Len(front \o back) = Len(front) + Len(back)
      /\ \A i \in 1 .. Len(front) + Len(back) :
             (front \o back)[i] = IF i <= Len(front) THEN front[i]
                                  ELSE back[i - Len(front)]
  BY <1>1, <1>2, ConcatProperties
<1>5. Len(list) \in Nat /\ 1 \in 1 .. Len(front) + Len(back) /\ 1 <= Len(front)
  BY <1>1, <1>2
<1> QED BY <1>1, <1>2, <1>3, <1>4, <1>5

\* Without health scores at work the head is the account at the cursor.
LEMMA StrictHead ==
    ASSUME NEW S, NEW list \in Seq(S), NEW start \in 0 .. Len(list) - 1,
           mode = "balanced", BalancedWindow <= 1
    PROVE  Heads(Rotated(list, start)) = {list[start + 1]}
<1>1. /\ Rotated(list, start) \in Seq(S) /\ Len(Rotated(list, start)) >= 1
      /\ Rotated(list, start)[1] = list[start + 1]
  BY RotatedFacts
<1>2. {j \in DOMAIN Rotated(list, start) : j = 1 \/ j <= Window} = {1}
  BY <1>1, RotationAssumption DEF Window
<1> QED BY <1>1, <1>2 DEF Heads

\* With the new entry of k at its end the map still has one entry for a key.
LEMMA AppendedFacts ==
    ASSUME starts \in Seq(Entries), OneEntryPerKey, NEW k \in Keys, NEW v \in Positions
    PROVE  LET new == [key |-> k, value |-> v]
               entries == Append(Without(k), new)
               m == Len(Without(k))
           IN  /\ m \in Nat /\ new \in Entries
               /\ entries \in Seq(Entries) /\ Len(entries) = m + 1 /\ entries[m + 1] = new
               /\ \A p \in 1 .. m : entries[p] = Without(k)[p] /\ entries[p].key # k
               /\ \A p, q \in 1 .. m + 1 : entries[p].key = entries[q].key => p = q
<1> DEFINE new == [key |-> k, value |-> v]
           others == Without(k)
           m == Len(others)
           entries == Append(others, new)
<1>1. others \in Seq(Entries) /\ m \in Nat /\ DOMAIN others = 1 .. m
  BY WithoutFacts
<1>2. new \in Entries
  BY DEF Entries
<1>3. ASSUME NEW p \in 1 .. m
      PROVE  others[p].key # k
  <2>1. CASE Known(k)
    <3>1. /\ Place(k) \in Nat /\ p \in Nat
          /\ IF p >= Place(k) THEN p + 1 \in DOMAIN starts /\ others[p] = starts[p + 1]
                              ELSE p \in DOMAIN starts /\ others[p] = starts[p]
      BY <1>1, <2>1, StoredFacts, WithoutFacts
    <3>2. PICK q \in DOMAIN starts : q # Place(k) /\ others[p] = starts[q]
      BY <3>1
    <3> QED BY <3>2, StoredFacts
  <2>2. CASE ~Known(k)
    <3>1. p \in DOMAIN starts /\ others[p] = starts[p]
      BY <1>1, <2>2, WithoutFacts
    <3> QED BY <2>2, <3>1 DEF Known
  <2> QED BY <2>1, <2>2
<1>4. ASSUME NEW p \in 1 .. m, NEW q \in 1 .. m, others[p].key = others[q].key
      PROVE  p = q
  <2> DEFINE old(i) == IF Known(k) /\ i >= Place(k) THEN i + 1 ELSE i
  <2>1. /\ old(p) \in DOMAIN starts /\ others[p] = starts[old(p)]
        /\ old(q) \in DOMAIN starts /\ others[q] = starts[old(q)]
    BY <1>1, WithoutFacts
  <2>2. old(p) = old(q)
    BY <1>4, <2>1 DEF OneEntryPerKey
  <2>3. Known(k) => Place(k) \in Nat
    BY StoredFacts
  <2> QED BY <1>1, <2>2, <2>3
<1> HIDE DEF others, new, entries
<1>5. /\ entries \in Seq(Entries) /\ Len(entries) = m + 1 /\ entries[m + 1] = new
      /\ \A p \in 1 .. m : entries[p] = others[p]
  BY <1>1, <1>2, AppendProperties DEF entries
<1>6. new.key = k
  BY DEF new
<1>7. ASSUME NEW p \in 1 .. m + 1, NEW q \in 1 .. m + 1, entries[p].key = entries[q].key
      PROVE  p = q
  <2>1. CASE p \in 1 .. m /\ q \in 1 .. m
    BY <1>4, <1>5, <1>7, <2>1
  <2>2. CASE p = m + 1 /\ q = m + 1
    BY <2>2
  <2>3. CASE p = m + 1 /\ q \in 1 .. m
    BY <1>3, <1>5, <1>6, <1>7, <2>3
  <2>4. CASE q = m + 1 /\ p \in 1 .. m
    BY <1>3, <1>5, <1>6, <1>7, <2>4
  <2> QED BY <1>1, <2>1, <2>2, <2>3, <2>4
<1> QED BY <1>1, <1>2, <1>3, <1>5, <1>7 DEF others, new, entries

Evicts(entries) == Capacity > 0 /\ Len(entries) > Capacity

LEMMA BoundedFacts ==
    ASSUME NEW entries \in Seq(Entries), entries # <<>>
    PROVE  /\ Bounded(entries) \in Seq(Entries)
           /\ Len(Bounded(entries)) = IF Evicts(entries) THEN Len(entries) - 1 ELSE Len(entries)
           /\ \A p \in 1 .. Len(Bounded(entries)) :
                  Bounded(entries)[p] = entries[IF Evicts(entries) THEN p + 1 ELSE p]
<1>1. /\ Tail(entries) \in Seq(Entries) /\ Len(Tail(entries)) = Len(entries) - 1
      /\ \A p \in 1 .. Len(Tail(entries)) : Tail(entries)[p] = entries[p + 1]
  BY HeadTailProperties
<1>2. CASE Evicts(entries)
  BY <1>1, <1>2 DEF Evicts, Bounded
<1>3. CASE ~Evicts(entries)
  BY <1>3 DEF Evicts, Bounded
<1> QED BY <1>2, <1>3

\* What a request of k makes of the map.
LEMMA StartsFacts ==
    ASSUME TypeOK, OneEntryPerKey, NEW k \in Keys, NEW S \in SUBSET Accounts, NEW head,
           StartsAt(k, InOrder(S), head)
    PROVE  LET n == Cardinality(S)
               entries == Append(Without(k), [key |-> k, value |-> Following(k, n)])
           IN  /\ n \in Nat /\ n > 1 /\ n <= NumAccounts
               /\ StartOf(k, n) \in 0 .. n - 1 /\ Following(k, n) \in Positions
               /\ mode = "balanced" /\ head \in Heads(Rotated(InOrder(S), StartOf(k, n)))
               /\ starts' = Bounded(entries)
<1> DEFINE n == Cardinality(S)
<1>1. n \in Nat /\ n <= NumAccounts /\ Len(InOrder(S)) = n
  BY AccountSets, InOrderFacts
<1>2. starts \in Seq(Entries)
  BY DEF TypeOK, Entries
<1>3. n > 1 /\ n \in Nat \ {0}
  BY <1>1 DEF StartsAt
<1>4. Stored(k) \in Nat
  BY <1>2, StoredFacts
<1>5. StartOf(k, n) \in 0 .. n - 1 /\ StartOf(k, n) + 1 \in Nat
  BY <1>3, <1>4, Remainder DEF StartOf
<1>6. Following(k, n) \in Positions
  BY <1>1, <1>3, <1>5, PositionFacts DEF Following
<1>7. /\ mode = "balanced" /\ head \in Heads(Rotated(InOrder(S), StartOf(k, n)))
      /\ starts' = Bounded(Append(Without(k), [key |-> k, value |-> Following(k, n)]))
  BY <1>1 DEF StartsAt
<1> QED BY <1>1, <1>3, <1>5, <1>6, <1>7

LEMMA StartsKeepsMap ==
    ASSUME TypeOK, OneEntryPerKey, NEW k \in Keys, NEW S \in SUBSET Accounts, NEW head,
           StartsAt(k, InOrder(S), head)
    PROVE  /\ starts' \in Seq(Entries) /\ OneEntryPerKey'
           /\ Capacity > 0 => Len(starts') <= Capacity
<1> DEFINE n == Cardinality(S)
           entries == Append(Without(k), [key |-> k, value |-> Following(k, n)])
           m == Len(Without(k))
<1>1. starts \in Seq(Entries) /\ (Capacity > 0 => Len(starts) <= Capacity)
  BY DEF TypeOK, Entries
<1>2. Following(k, n) \in Positions /\ starts' = Bounded(entries)
  BY StartsFacts
<1>3. /\ m \in Nat /\ entries \in Seq(Entries) /\ Len(entries) = m + 1
      /\ \A p, q \in 1 .. m + 1 : entries[p].key = entries[q].key => p = q
  BY <1>1, <1>2, AppendedFacts
<1>4. m <= Len(starts)
  BY <1>1, WithoutFacts
<1> HIDE DEF entries, m
<1>5. /\ starts' \in Seq(Entries)
      /\ Len(starts') = IF Evicts(entries) THEN Len(entries) - 1 ELSE Len(entries)
      /\ \A p \in 1 .. Len(starts') :
             starts'[p] = entries[IF Evicts(entries) THEN p + 1 ELSE p]
  <2>1. entries # <<>>
    BY <1>3
  <2> QED BY <1>2, <1>3, <2>1, BoundedFacts
<1>6. Capacity > 0 => Len(starts') <= Capacity
  BY <1>1, <1>3, <1>4, <1>5, RotationAssumption DEF Evicts
<1>7. OneEntryPerKey'
  <2> SUFFICES ASSUME NEW p \in 1 .. Len(starts'), NEW q \in 1 .. Len(starts'),
                      starts'[p].key = starts'[q].key
               PROVE  p = q
    BY <1>5 DEF OneEntryPerKey
  <2>1. CASE Evicts(entries)
    BY <1>3, <1>5, <2>1
  <2>2. CASE ~Evicts(entries)
    BY <1>3, <1>5, <2>2
  <2> QED BY <2>1, <2>2
<1> QED BY <1>5, <1>6, <1>7

-----------------------------------------------------------------------------
(* Type correctness.                                                         *)

LEMMA BatchFacts ==
    ASSUME TypeOK, NEW S \in SUBSET Accounts, Begins(InOrder(S))
    PROVE  /\ batch'.todo \in SUBSET S /\ batch'.workers \in 0 .. PollWorkers
           /\ batch'.failed = FALSE /\ batch'.next \in Positions /\ batch'.runs = TRUE
           /\ batch' = [todo |-> batch'.todo, workers |-> batch'.workers, failed |-> FALSE,
                        next |-> batch'.next, runs |-> TRUE]
<1> DEFINE n == Cardinality(S)
           list == InOrder(S)
           size == BatchSize(n)
<1>1. list \in Seq(S) /\ Len(list) = n /\ n \in Nat /\ n <= NumAccounts
  BY AccountSets, InOrderFacts
<1>2. n \in Nat \ {0}
  BY <1>1 DEF Begins
<1>3. size \in Nat
  BY <1>1, PollingAssumption DEF BatchSize, AtMost
<1>4. cursor \in Nat
  BY PositionFacts DEF TypeOK
<1> HIDE DEF list, n, size
<1>5. Selected(list) \in SUBSET S
  <2> SUFFICES ASSUME NEW offset \in 0 .. size - 1
               PROVE  list[((cursor + offset) % n) + 1] \in S
    BY <1>1 DEF Selected, size
  <2>1. (cursor + offset) % n \in 0 .. n - 1
    BY <1>2, <1>3, <1>4, Remainder
  <2>2. ((cursor + offset) % n) + 1 \in 1 .. Len(list)
    BY <1>1, <2>1
  <2> QED BY <1>1, <2>2, ElementOfSeq
<1>6. NextCursor(n) \in Positions
  <2>1. (cursor % n) + size \in Nat
    BY <1>2, <1>3, <1>4, Remainder
  <2> QED BY <1>1, <1>2, <2>1, PositionFacts DEF NextCursor, size
<1>7. AtMost(PollWorkers, size) \in 0 .. PollWorkers
  BY <1>3, PollingAssumption DEF AtMost
<1>8. batch' = [todo |-> Selected(list), workers |-> AtMost(PollWorkers, size),
                failed |-> FALSE, next |-> NextCursor(n), runs |-> TRUE]
  BY <1>1 DEF Begins, list, n, size
<1> QED BY <1>5, <1>6, <1>7, <1>8

\* The conjunction that keeps itself: the map's indices and its room.
MapInv == TypeOK /\ OneEntryPerKey

Batches == [todo : SUBSET Accounts, workers : 0 .. PollWorkers, failed : BOOLEAN,
            next : Positions, runs : BOOLEAN]

LEMMA BatchRecord ==
    ASSUME NEW todo \in SUBSET Accounts, NEW workers \in 0 .. PollWorkers,
           NEW failed \in BOOLEAN, NEW next \in Positions, NEW runs \in BOOLEAN
    PROVE  [todo |-> todo, workers |-> workers, failed |-> failed,
            next |-> next, runs |-> runs] \in Batches
  BY DEF Batches

LEMMA MapUntouched ==
    ASSUME OneEntryPerKey, UNCHANGED starts
    PROVE  OneEntryPerKey'
  BY DEF OneEntryPerKey

\* Answers and errors change only what is held of the account they are about.
LEMMA LearnsKeepsAccounts ==
    ASSUME TypeOK, NEW a \in Accounts, NEW found, Learns(a, found)
    PROVE  usable' \in SUBSET Accounts /\ banned' \in SUBSET Accounts
  BY DEF TypeOK, Learns

LEMMA MarkedKeepsAccounts ==
    ASSUME TypeOK, NEW a \in Accounts, MarkedIfNeeded(a)
    PROVE  usable' \in SUBSET Accounts /\ banned' \in SUBSET Accounts
  BY DEF TypeOK, Marked, MarkedIfNeeded

\* Every step keeps the types and the map a map.
THEOREM MapInvInductive == MapInv /\ [Next]_vars => MapInv'
<1> SUFFICES ASSUME TypeOK, OneEntryPerKey, [Next]_vars
             PROVE  TypeOK' /\ OneEntryPerKey'
  BY DEF MapInv
<1>0. /\ NumAccounts \in Nat /\ MaxChanges \in Nat /\ MaxFailures \in Nat
      /\ Metered \subseteq Accounts /\ Managed \subseteq Accounts /\ PollWorkers \in Nat
      /\ changes \in Nat /\ failures \in Nat /\ batch \in Batches
  BY AccountsAssumption, PollingAssumption DEF Accounts, TypeOK, Batches
<1> USE DEF TypeOK
<1>1. CASE Collects
  BY <1>1, MapUntouched DEF Collects, rotationVars, pollingVars, accountVars, NoTurn
<1>2. CASE ForgetsTurns
  <2>1. OneEntryPerKey' /\ starts' \in Seq([key : Keys, value : Positions]) /\ Len(starts') = 0
    BY <1>2 DEF ForgetsTurns, ClearsStarts, OneEntryPerKey
  <2>2. Capacity > 0 => Len(starts') <= Capacity
    BY <2>1, RotationAssumption
  <2>3. /\ mode' \in Modes /\ clearing' \in BOOLEAN
        /\ turn' \in [head : Accounts \cup {Nobody}, since : SUBSET Keys]
    BY <1>2 DEF ForgetsTurns, ClearsStarts, NoTurn
  <2>4. UNCHANGED <<pollingVars, accountVars, listed, asked, changes, failures>>
    BY <1>2 DEF ForgetsTurns
  <2> QED BY <2>1, <2>2, <2>3, <2>4 DEF pollingVars, accountVars
<1>3. ASSUME NEW k \in Keys, Routes(k)
      PROVE  TypeOK' /\ OneEntryPerKey'
  <2>1. PICK head \in listed : StartsAt(k, InOrder(listed), head)
    BY <1>3 DEF Routes
  <2>2. /\ starts' \in Seq([key : Keys, value : Positions]) /\ OneEntryPerKey'
        /\ Capacity > 0 => Len(starts') <= Capacity
    BY <2>1, StartsKeepsMap DEF Entries
  <2>3. turn' \in [head : Accounts \cup {Nobody}, since : SUBSET Keys]
    BY <1>3 DEF Routes, NoTurn
  <2>4. UNCHANGED <<mode, clearing, pollingVars, accountVars, listed, asked, changes, failures>>
    BY <1>3 DEF Routes, StartsAt
  <2> QED BY <2>2, <2>3, <2>4 DEF pollingVars, accountVars
<1>4. ASSUME NEW m \in Modes, ChoosesStrategy(m)
      PROVE  TypeOK' /\ OneEntryPerKey'
  BY <1>0, <1>4, MapUntouched DEF ChoosesStrategy, StoresStrategy, pollingVars, accountVars
<1>5. CASE PollBegins
  <2>1. batch' \in Batches
    <3>1. Begins(InOrder(Accounts \ Skipped)) /\ Accounts \ Skipped \in SUBSET Accounts
      BY <1>5 DEF PollBegins
    <3>2. PICK todo \in SUBSET Accounts, workers \in 0 .. PollWorkers, next \in Positions :
              batch' = [todo |-> todo, workers |-> workers, failed |-> FALSE,
                        next |-> next, runs |-> TRUE]
      BY <3>1, BatchFacts
    <3>3. TRUE \in BOOLEAN /\ FALSE \in BOOLEAN
      OBVIOUS
    <3> QED BY <3>2, <3>3, BatchRecord, Zenon
  <2>2. UNCHANGED <<rotationVars, accountVars, cursor, listed, asked, turn, changes, failures>>
    BY <1>5 DEF PollBegins, Begins
  <2> QED BY <2>1, <2>2, MapUntouched DEF rotationVars, accountVars, Batches
<1>6. CASE PollWorkerFails
  <2>1. batch' \in Batches
    <3>1. PICK lost \in {{}} \cup {{a} : a \in batch.todo} :
              batch' = [batch EXCEPT !.workers = @ - 1, !.failed = TRUE, !.todo = @ \ lost]
      BY <1>6 DEF PollWorkerFails, WorkerFails
    <3>2. batch.workers - 1 \in 0 .. PollWorkers
      BY <1>0, <1>6 DEF PollWorkerFails, WorkerFails, Batches
    <3>3. batch' = [todo |-> batch.todo \ lost, workers |-> batch.workers - 1,
                    failed |-> TRUE, next |-> batch.next, runs |-> batch.runs]
      BY <1>0, <3>1 DEF Batches
    <3>4. batch.todo \ lost \in SUBSET Accounts /\ batch.next \in Positions
          /\ batch.runs \in BOOLEAN
      BY <1>0 DEF Batches
    <3> DEFINE todo == batch.todo \ lost
               workers == batch.workers - 1
    <3>5. /\ todo \in SUBSET Accounts /\ workers \in 0 .. PollWorkers
          /\ batch' = [todo |-> todo, workers |-> workers,
                       failed |-> TRUE, next |-> batch.next, runs |-> batch.runs]
      BY <3>2, <3>3, <3>4
    <3> HIDE DEF todo, workers
    <3> QED BY <3>4, <3>5, BatchRecord
  <2>2. /\ failures' \in 0 .. MaxFailures
        /\ UNCHANGED <<rotationVars, accountVars, cursor, listed, asked, turn, changes>>
    BY <1>0, <1>6 DEF PollWorkerFails, WorkerFails
  <2> QED BY <2>1, <2>2, MapUntouched DEF rotationVars, accountVars, Batches
<1>7. CASE PollEnds
  <2>1. batch' \in Batches /\ cursor' \in Positions
    <3>1. batch.next \in Positions /\ cursor' \in {cursor, batch.next} /\ batch' = NoBatch
      BY <1>0, <1>7 DEF PollEnds, Ends, Batches
    <3>2. NoBatch \in Batches
      BY <1>0 DEF NoBatch, Batches, Positions
    <3> QED BY <3>1, <3>2
  <2>2. UNCHANGED <<rotationVars, accountVars, listed, asked, turn, changes, failures>>
    BY <1>7 DEF PollEnds
  <2> QED BY <2>1, <2>2, MapUntouched DEF rotationVars, accountVars, Batches
<1>8. ASSUME NEW a \in Accounts,
             MeetsLimit(a) \/ MeetsError(a) \/ RefreshAnswers(a) \/ RefreshErrs(a)
      PROVE  TypeOK' /\ OneEntryPerKey'
  <2>1. CASE MeetsLimit(a)
    BY <1>0, <2>1, MapUntouched DEF MeetsLimit, rotationVars, pollingVars, accountVars
  <2>2. CASE RefreshAnswers(a)
    <3>1. PICK found \in {FALSE, (a \in quota)} : Learns(a, found)
      BY <2>2 DEF RefreshAnswers
    <3>2. usable' \in SUBSET Accounts /\ banned' \in SUBSET Accounts
      BY <3>1, LearnsKeepsAccounts
    <3>3. /\ asked' = asked \ {a}
          /\ UNCHANGED <<rotationVars, pollingVars, quota, disabled, listed, turn,
                         changes, failures>>
      BY <2>2 DEF RefreshAnswers
    <3> QED BY <3>2, <3>3, MapUntouched DEF rotationVars, pollingVars
  <2>3. CASE MeetsError(a) \/ RefreshErrs(a)
    <3>1. usable' \in SUBSET Accounts /\ banned' \in SUBSET Accounts
      BY <2>3, MarkedKeepsAccounts DEF MeetsError, RefreshErrs, MarkedIfNeeded
    <3>2. /\ asked' \in {asked, asked \ {a}} /\ failures' \in 0 .. MaxFailures
          /\ UNCHANGED <<rotationVars, pollingVars, quota, disabled, listed, turn, changes>>
      BY <1>0, <2>3 DEF MeetsError, RefreshErrs
    <3> QED BY <3>1, <3>2, MapUntouched DEF rotationVars, pollingVars
  <2> QED BY <1>8, <2>1, <2>2, <2>3
<1>9. ASSUME NEW a \in Accounts, PollAnswers(a) \/ PollErrs(a)
      PROVE  TypeOK' /\ OneEntryPerKey'
  <2>1. batch' \in Batches /\ failures' \in 0 .. MaxFailures
    BY <1>0, <1>9 DEF PollAnswers, PollErrs, Polled, Batches
  <2>2. UNCHANGED <<rotationVars, cursor, quota, disabled, listed, asked, turn, changes>>
    BY <1>9 DEF PollAnswers, PollErrs, Polled
  <2>3. usable' \in SUBSET Accounts /\ banned' \in SUBSET Accounts
    BY <1>9, LearnsKeepsAccounts, MarkedKeepsAccounts DEF PollAnswers, PollErrs
  <2> QED BY <2>1, <2>2, <2>3, MapUntouched DEF rotationVars, Batches
<1>10. ASSUME NEW a \in Accounts,
              QuotaChanges(a) \/ Disables(a) \/ Enables(a) \/ AsksUsage(a)
       PROVE  TypeOK' /\ OneEntryPerKey'
  BY <1>0, <1>10, MapUntouched
  DEF QuotaChanges, Disables, Enables, AsksUsage, rotationVars, pollingVars, accountVars
<1>11. CASE UNCHANGED vars
  BY <1>11, MapUntouched DEF vars
<1> QED BY <1>0, <1>1, <1>2, <1>3, <1>4, <1>5, <1>6, <1>7, <1>8, <1>9, <1>10, <1>11 DEF Next

LEMMA InitMapInv == Init => MapInv
<1> SUFFICES ASSUME Init PROVE TypeOK /\ OneEntryPerKey
  BY DEF MapInv
<1>1. /\ Metered \subseteq Accounts /\ MaxChanges \in Nat /\ MaxFailures \in Nat
      /\ Capacity \in Nat /\ PollWorkers \in Nat /\ 0 \in Positions
  BY AccountsAssumption, RotationAssumption, PollingAssumption DEF Accounts, Positions
<1>2. /\ starts \in Seq([key : Keys, value : Positions])
      /\ Capacity > 0 => Len(starts) <= Capacity
      /\ mode \in Modes /\ clearing \in BOOLEAN /\ OneEntryPerKey
  <2>1. starts = <<>> /\ mode = "balanced" /\ clearing = FALSE
    BY DEF Init, RotationInit
  <2>2. <<>> \in Seq([key : Keys, value : Positions]) /\ Len(<<>>) = 0 /\ DOMAIN <<>> = {}
    BY EmptySeq
  <2>3. OneEntryPerKey
    BY <2>1, <2>2 DEF OneEntryPerKey
  <2>4. starts \in Seq([key : Keys, value : Positions]) /\ Len(starts) = 0
    BY <2>1, <2>2, Zenon
  <2>5. Capacity > 0 => Len(starts) <= Capacity
    BY <1>1, <2>4
  <2>6. mode \in Modes /\ clearing \in BOOLEAN
    BY <2>1 DEF Modes
  <2> QED BY <2>3, <2>4, <2>5, <2>6
<1>3. /\ cursor \in Positions
      /\ batch \in [todo : SUBSET Accounts, workers : 0 .. PollWorkers,
                    failed : BOOLEAN, next : Positions, runs : BOOLEAN]
  BY <1>1 DEF Init, PollingInit, NoBatch
<1>4. /\ {quota, usable, disabled, banned, listed, asked} \subseteq SUBSET Accounts
      /\ turn \in [head : Accounts \cup {Nobody}, since : SUBSET Keys]
      /\ changes \in 0 .. MaxChanges /\ failures \in 0 .. MaxFailures
  BY <1>1 DEF Init, NoTurn
<1> QED BY <1>2, <1>3, <1>4 DEF TypeOK

\* Every start index is an index into the accounts and the map keeps to its
\* capacity (route_hint.rs); the polling's cursor stays within the list (batch.rs).
THEOREM TypeCorrect == Spec => []TypeOK
<1>1. MapInv => TypeOK
  BY DEF MapInv
<1> QED BY <1>1, InitMapInv, MapInvInductive, PTL DEF Spec

-----------------------------------------------------------------------------
(* Strict rotation.  What a request of the watched key has left in the map   *)
(* stays there as long as the keys that came after it leave it room.         *)

RoomLeft == Capacity > 0 => Cardinality(turn.since) < Capacity

\* The entry at p is the one the last request of Watched has left, and the
\* entries used after it are those of the keys that came since.
LastTurnAt(p) ==
    /\ starts[p].key = Watched
    /\ \E i \in 1 .. Cardinality(listed) :
           InOrder(listed)[i] = turn.head /\ starts[p].value = i % Cardinality(listed)
    /\ \A q \in DOMAIN starts : q > p => starts[q].key \in turn.since

TurnKept ==
    turn # NoTurn =>
        /\ turn.head \in listed /\ Cardinality(listed) > 1
        /\ IsFiniteSet(turn.since)
        /\ RoomLeft => \E p \in DOMAIN starts : LastTurnAt(p)

RotationInv == MapInv /\ TurnKept

\* Entries of different keys are no more than the keys.
LEMMA DistinctKeys ==
    ASSUME NEW entries \in Seq(Entries), entries # <<>>, NEW S, IsFiniteSet(S),
           \A p, q \in 1 .. Len(entries) : entries[p].key = entries[q].key => p = q,
           \A q \in 1 .. Len(entries) : q > 1 => entries[q].key \in S
    PROVE  Cardinality(S) >= Len(entries) - 1
<1> DEFINE n == Len(entries) - 1
           f == [j \in 1 .. n |-> entries[j + 1].key]
<1>1. n \in Nat /\ Len(entries) = n + 1
  OBVIOUS
<1> HIDE DEF n
<1>2. ASSUME NEW j \in 1 .. n PROVE j + 1 \in 1 .. Len(entries) /\ j + 1 > 1
  BY <1>1
<1>3. f \in [1 .. n -> S]
  BY <1>2
<1>4. \A i, j \in 1 .. n : f[i] = f[j] => i = j
  <2> SUFFICES ASSUME NEW i \in 1 .. n, NEW j \in 1 .. n, f[i] = f[j]
               PROVE  i = j
    OBVIOUS
  <2>1. i + 1 = j + 1
    BY <1>2
  <2> QED BY <1>1, <2>1
<1>5. f \in Injection(1 .. n, S)
  BY <1>3, <1>4 DEF Injection, IsInjective
<1>6. IsFiniteSet(1 .. n) /\ Cardinality(1 .. n) = n
  BY <1>1, FS_Interval
<1>7. n <= Cardinality(S) /\ Cardinality(S) \in Nat
  BY <1>5, <1>6, FS_Injection, FS_CardinalityType
<1> QED BY <1>1, <1>7

\* A request of another key leaves an entry in its place among the others.
LEMMA EntryKeepsPlace ==
    ASSUME starts \in Seq(Entries), OneEntryPerKey, NEW k \in Keys, NEW v \in Positions,
           NEW p \in DOMAIN starts, starts[p].key # k, NEW since,
           \A q \in DOMAIN starts : q > p => starts[q].key \in since
    PROVE  LET entries == Append(Without(k), [key |-> k, value |-> v])
           IN  \E r \in 1 .. Len(Without(k)) :
                   /\ entries[r] = starts[p]
                   /\ \A q \in 1 .. Len(Without(k)) + 1 :
                          q > r => entries[q].key \in since \cup {k}
<1> DEFINE new == [key |-> k, value |-> v]
           entries == Append(Without(k), new)
           m == Len(Without(k))
           old(q) == IF Known(k) /\ q >= Place(k) THEN q + 1 ELSE q
           r == IF Known(k) /\ p > Place(k) THEN p - 1 ELSE p
<1>1. /\ m \in Nat /\ entries[m + 1] = new /\ new.key = k
      /\ \A q \in 1 .. m : entries[q] = Without(k)[q]
  BY AppendedFacts
<1>2. /\ m = IF Known(k) THEN Len(starts) - 1 ELSE Len(starts)
      /\ \A q \in 1 .. m : old(q) \in DOMAIN starts /\ Without(k)[q] = starts[old(q)]
  BY <1>1, WithoutFacts
<1>3. Known(k) => Place(k) \in 1 .. Len(starts) /\ p # Place(k)
  BY StoredFacts
<1>4. p \in 1 .. Len(starts) /\ Len(starts) \in Nat
  OBVIOUS
<1>5. r \in 1 .. m /\ old(r) = p
  BY <1>2, <1>3, <1>4
<1>6. ASSUME NEW q \in 1 .. m, q > r PROVE old(q) > p
  BY <1>3, <1>4, <1>6
<1> HIDE DEF entries, m, new, old, r
<1>7. ASSUME NEW q \in 1 .. m + 1, q > r
      PROVE  entries[q].key \in since \cup {k}
  <2>1. CASE q \in 1 .. m
    BY <1>1, <1>2, <1>6, <1>7, <2>1
  <2>2. CASE q = m + 1
    BY <1>1, <2>2
  <2> QED BY <1>1, <2>1, <2>2
<1>8. entries[r] = starts[p]
  BY <1>1, <1>2, <1>5
<1> QED BY <1>5, <1>7, <1>8 DEF entries, m, new

\* A request of the watched key leaves its entry last, with the position after
\* that of the account it has started at.
LEMMA OwnTurn ==
    ASSUME BalancedWindow <= 1, TypeOK, OneEntryPerKey, Routes(Watched)
    PROVE  TurnKept'
<1> DEFINE n == Cardinality(listed)
           list == InOrder(listed)
           s == StartOf(Watched, n)
           entries == Append(Without(Watched),
                             [key |-> Watched, value |-> Following(Watched, n)])
           m == Len(Without(Watched))
<1>1. PICK head \in listed :
          /\ StartsAt(Watched, list, head)
          /\ turn' = [head |-> head, since |-> {}]
          /\ listed' = listed
  BY DEF Routes
<1>2. listed \in SUBSET Accounts /\ starts \in Seq(Entries)
  BY DEF TypeOK, Entries
<1>3. /\ n \in Nat /\ n > 1 /\ s \in 0 .. n - 1 /\ Following(Watched, n) \in Positions
      /\ mode = "balanced" /\ head \in Heads(Rotated(list, s)) /\ starts' = Bounded(entries)
  BY <1>1, <1>2, AccountsAssumption, StartsFacts
<1>4. list \in Seq(listed) /\ Len(list) = n
  BY <1>2, InOrderFacts
<1>5. head = list[s + 1] /\ s + 1 \in 1 .. n /\ Following(Watched, n) = (s + 1) % n
  <2>1. Heads(Rotated(list, s)) = {list[s + 1]}
    BY <1>3, <1>4, StrictHead
  <2> QED BY <1>3, <2>1 DEF Following
<1>6. /\ m \in Nat /\ entries \in Seq(Entries) /\ Len(entries) = m + 1
      /\ entries[m + 1] = [key |-> Watched, value |-> Following(Watched, n)]
  BY <1>2, <1>3, AccountsAssumption, AppendedFacts
<1> HIDE DEF entries, m, s, list
<1>7. PICK p \in 1 .. Len(starts') :
          p = Len(starts') /\ starts' \in Seq(Entries)
          /\ starts'[p] = [key |-> Watched, value |-> (s + 1) % n]
  <2>1. entries # <<>> /\ (Evicts(entries) => m >= 1)
    BY <1>6, RotationAssumption DEF Evicts
  <2>2. /\ Bounded(entries) \in Seq(Entries)
        /\ Len(Bounded(entries)) = IF Evicts(entries) THEN m ELSE m + 1
        /\ \A p \in 1 .. Len(Bounded(entries)) :
               Bounded(entries)[p] = entries[IF Evicts(entries) THEN p + 1 ELSE p]
    BY <1>6, <2>1, BoundedFacts
  <2> QED BY <1>3, <1>5, <1>6, <2>1, <2>2
<1>8. LastTurnAt(p)' /\ p \in DOMAIN starts'
  <2>1. starts'[p].key = Watched /\ starts'[p].value = (s + 1) % n
    BY <1>7
  <2>2. \A q \in DOMAIN starts' : ~(q > p)
    BY <1>7
  <2>3. InOrder(listed')[s + 1] = turn'.head /\ Cardinality(listed') = n
    BY <1>1, <1>5 DEF list
  <2>4. p \in DOMAIN starts'
    BY <1>7
  <2> HIDE DEF n
  <2> QED BY <1>5, <2>1, <2>2, <2>3, <2>4 DEF LastTurnAt
<1>9. turn'.head \in listed' /\ Cardinality(listed') > 1 /\ IsFiniteSet(turn'.since)
  <2>1. turn'.since = {} /\ turn'.head = head
    BY <1>1
  <2> QED BY <1>1, <1>3, <2>1, FS_EmptySet
<1> QED BY <1>8, <1>9 DEF TurnKept

\* A request of another key leaves that entry in the map as long as the keys that
\* came since leave it room: the map evicts the entry used least recently, and
\* those used after it are of as many different keys.
LEMMA OtherTurn ==
    ASSUME TypeOK, OneEntryPerKey, TurnKept, NEW k \in Keys, k # Watched, Routes(k)
    PROVE  TurnKept'
<1> DEFINE n == Cardinality(listed)
           entries == Append(Without(k), [key |-> k, value |-> Following(k, n)])
           m == Len(Without(k))
           since == turn.since \cup {k}
<1>1. PICK head \in listed :
          /\ StartsAt(k, InOrder(listed), head)
          /\ turn' = [turn EXCEPT !.since = IF turn = NoTurn THEN {} ELSE @ \cup {k}]
          /\ listed' = listed
  BY DEF Routes
<1>2. CASE turn = NoTurn
  BY <1>1, <1>2 DEF TurnKept, NoTurn
<1>3. CASE turn # NoTurn
  <2>1. /\ listed \in SUBSET Accounts /\ starts \in Seq(Entries)
        /\ turn \in [head : Accounts \cup {Nobody}, since : SUBSET Keys]
    BY DEF TypeOK, Entries
  <2>2. turn' = [head |-> turn.head, since |-> since]
    BY <1>1, <1>3, <2>1
  <2>3. /\ IsFiniteSet(since) /\ Cardinality(turn.since) <= Cardinality(since)
        /\ Cardinality(turn.since) \in Nat /\ Cardinality(since) \in Nat
    <3>1. IsFiniteSet(turn.since)
      BY <1>3 DEF TurnKept
    <3>2. IsFiniteSet(since)
      BY <3>1, FS_AddElement
    <3>3. turn.since \in SUBSET since
      OBVIOUS
    <3> HIDE DEF since
    <3> QED BY <3>1, <3>2, <3>3, FS_Subset, FS_CardinalityType
  <2>4. turn.head \in listed /\ Cardinality(listed) > 1
    BY <1>3 DEF TurnKept
  <2>5. ASSUME Capacity > 0 => Cardinality(since) < Capacity
        PROVE  \E p \in DOMAIN starts' : LastTurnAt(p)'
    <3>1. PICK p \in DOMAIN starts : LastTurnAt(p)
      BY <1>3, <2>3, <2>5, RotationAssumption DEF TurnKept, RoomLeft
    <3>2. Following(k, n) \in Positions /\ starts' = Bounded(entries)
      BY <1>1, <2>1, StartsFacts
    <3>3. PICK r \in 1 .. m :
              /\ entries[r] = starts[p]
              /\ \A q \in 1 .. m + 1 : q > r => entries[q].key \in since
      <4>1. starts[p].key # k /\ \A q \in DOMAIN starts : q > p => starts[q].key \in turn.since
        BY <3>1 DEF LastTurnAt
      <4> DEFINE v == Following(k, n)
                 kept == turn.since
      <4>2. v \in Positions /\ entries = Append(Without(k), [key |-> k, value |-> v])
        BY <3>2
      <4>3. starts \in Seq(Entries) /\ p \in DOMAIN starts /\ starts[p].key # k
            /\ \A q \in DOMAIN starts : q > p => starts[q].key \in kept
        BY <2>1, <4>1
      <4>4. since = kept \cup {k}
        OBVIOUS
      <4> HIDE DEF v, kept, since, entries, m
      <4>5. LET new == Append(Without(k), [key |-> k, value |-> v])
            IN  \E r \in 1 .. Len(Without(k)) :
                    /\ new[r] = starts[p]
                    /\ \A q \in 1 .. Len(Without(k)) + 1 :
                           q > r => new[q].key \in kept \cup {k}
        BY <4>2, <4>3, EntryKeepsPlace
      <4> QED BY <4>2, <4>4, <4>5 DEF m
    <3>4. /\ m \in Nat /\ entries \in Seq(Entries) /\ Len(entries) = m + 1
          /\ \A i, j \in 1 .. m + 1 : entries[i].key = entries[j].key => i = j
      BY <2>1, <3>2, AppendedFacts
    <3> HIDE DEF entries, m, n, since
    <3>5. entries # <<>>
      BY <3>4
    <3>6. Evicts(entries) => r # 1
      <4> SUFFICES ASSUME Evicts(entries), r = 1 PROVE FALSE
        OBVIOUS
      <4>1. \A q \in 1 .. Len(entries) : q > 1 => entries[q].key \in since
        BY <3>3, <3>4
      <4>2. Cardinality(since) >= Len(entries) - 1
        BY <2>3, <3>4, <3>5, <4>1, DistinctKeys
      <4> QED BY <2>3, <2>5, <3>4, <4>2, RotationAssumption DEF Evicts
    <3>7. /\ Bounded(entries) \in Seq(Entries)
          /\ Len(Bounded(entries)) = IF Evicts(entries) THEN m ELSE m + 1
          /\ \A i \in 1 .. Len(Bounded(entries)) :
                 Bounded(entries)[i] = entries[IF Evicts(entries) THEN i + 1 ELSE i]
      BY <3>4, <3>5, BoundedFacts
    <3>8. PICK new \in DOMAIN starts' :
              /\ starts'[new] = starts[p]
              /\ \A q \in DOMAIN starts' : q > new => starts'[q].key \in since
      <4>1. CASE Evicts(entries)
        <5>1. r - 1 \in 1 .. m
          BY <3>4, <3>6, <4>1
        <5>2. starts'[r - 1] = starts[p]
          BY <3>2, <3>3, <3>4, <3>7, <4>1, <5>1
        <5>3. ASSUME NEW q \in DOMAIN starts', q > r - 1
              PROVE  starts'[q].key \in since
          <6>1. q \in 1 .. m /\ q + 1 \in 1 .. m + 1 /\ q + 1 > r
            BY <3>2, <3>4, <3>7, <4>1, <5>3
          <6>2. starts'[q] = entries[q + 1]
            BY <3>2, <3>7, <4>1, <6>1
          <6> QED BY <3>3, <6>1, <6>2
        <5>4. DOMAIN starts' = 1 .. m
          BY <3>2, <3>7, <4>1
        <5> QED BY <5>1, <5>2, <5>3, <5>4
      <4>2. CASE ~Evicts(entries)
        <5>1. DOMAIN starts' = 1 .. m + 1 /\ \A q \in 1 .. m + 1 : starts'[q] = entries[q]
          BY <3>2, <3>7, <4>2
        <5>2. r \in 1 .. m + 1
          BY <3>4
        <5> QED BY <3>3, <5>1, <5>2
      <4> QED BY <4>1, <4>2
    <3>9. listed' = listed /\ turn'.head = turn.head /\ turn'.since = since
      BY <1>1, <2>2
    <3> QED BY <3>1, <3>8, <3>9 DEF LastTurnAt
  <2> HIDE DEF since
  <2>6. turn'.head = turn.head /\ turn'.since = since /\ listed' = listed
    BY <1>1, <2>2
  <2> QED BY <2>3, <2>4, <2>5, <2>6 DEF TurnKept, RoomLeft
<1> QED BY <1>2, <1>3

LEMMA TurnUntouched ==
    ASSUME TurnKept, UNCHANGED <<starts, listed, turn>>
    PROVE  TurnKept'
  BY DEF TurnKept, RoomLeft, LastTurnAt

LEMMA NoTurnKept == ASSUME turn' = NoTurn PROVE TurnKept'
  BY DEF TurnKept

THEOREM RotationInvInductive ==
    ASSUME BalancedWindow <= 1
    PROVE  RotationInv /\ [Next]_vars => RotationInv'
<1> SUFFICES ASSUME TypeOK, OneEntryPerKey, TurnKept, [Next]_vars
             PROVE  TurnKept'
  BY MapInvInductive DEF RotationInv, MapInv
<1>1. ASSUME Collects \/ ForgetsTurns PROVE TurnKept'
  BY <1>1, NoTurnKept DEF Collects, ForgetsTurns
<1>2. ASSUME NEW k \in Keys, Routes(k) PROVE TurnKept'
  BY <1>2, OwnTurn, OtherTurn
<1>3. ASSUME NEW m \in Modes, ChoosesStrategy(m) PROVE TurnKept'
  BY <1>3, TurnUntouched DEF ChoosesStrategy, StoresStrategy
<1>4. ASSUME PollBegins \/ PollWorkerFails \/ PollEnds PROVE TurnKept'
  BY <1>4, TurnUntouched DEF PollBegins, PollWorkerFails, PollEnds, rotationVars
<1>5. ASSUME NEW a \in Accounts,
             \/ MeetsLimit(a) \/ MeetsError(a) \/ RefreshAnswers(a) \/ RefreshErrs(a)
             \/ PollAnswers(a) \/ PollErrs(a)
      PROVE  TurnKept'
  BY <1>5, TurnUntouched
  DEF MeetsLimit, MeetsError, RefreshAnswers, RefreshErrs, PollAnswers, PollErrs, rotationVars
<1>6. ASSUME NEW a \in Accounts,
             QuotaChanges(a) \/ Disables(a) \/ Enables(a) \/ AsksUsage(a)
      PROVE  TurnKept'
  BY <1>6, TurnUntouched DEF QuotaChanges, Disables, Enables, AsksUsage, rotationVars
<1>7. CASE UNCHANGED vars
  BY <1>7, TurnUntouched DEF vars
<1>8. Metered \subseteq Accounts /\ Managed \subseteq Accounts
  BY AccountsAssumption DEF Accounts
<1> QED BY <1>1, <1>2, <1>3, <1>4, <1>5, <1>6, <1>7, <1>8 DEF Next

LEMMA TurnsInTurn ==
    ASSUME BalancedWindow <= 1, RotationInv
    PROVE  NextInTurn
<1> DEFINE n == Cardinality(listed)
           list == InOrder(listed)
<1> SUFFICES ASSUME Remembered
             PROVE  Heads(Rotated(list, StartOf(Watched, n))) = {After(listed, turn.head)}
  BY DEF NextInTurn
<1>1. /\ TypeOK /\ OneEntryPerKey /\ listed \in SUBSET Accounts /\ starts \in Seq(Entries)
      /\ n > 1 /\ mode = "balanced"
  BY DEF RotationInv, MapInv, TypeOK, Entries, Remembered, TurnKept
<1>2. PICK p \in DOMAIN starts : LastTurnAt(p)
  BY DEF RotationInv, Remembered, TurnKept, RoomLeft
<1>3. PICK i \in 1 .. n : list[i] = turn.head /\ starts[p].value = i % n
  BY <1>2 DEF LastTurnAt
<1>4. /\ n \in Nat /\ list \in Seq(listed) /\ Len(list) = n
      /\ \A j, k \in 1 .. n : list[j] = list[k] => j = k
  BY <1>1, AccountSets, InOrderFacts
<1>5. Stored(Watched) = i % n
  BY <1>1, <1>2, <1>3, AccountsAssumption, StoredFacts DEF LastTurnAt
<1> HIDE DEF n, list
<1>6. i % n \in 0 .. n - 1 /\ StartOf(Watched, n) = i % n
  <2>1. n \in Nat \ {0} /\ i \in Nat
    BY <1>1, <1>4
  <2>2. i % n \in 0 .. n - 1 /\ i % n \in Nat /\ i % n < n
    BY <2>1, Remainder
  <2>3. (i % n) % n = i % n
    BY <2>1, <2>2, Remainder
  <2> QED BY <1>5, <2>2, <2>3 DEF StartOf
<1>7. After(listed, turn.head) = list[(i % n) + 1]
  <2>1. DOMAIN list = 1 .. n
    BY <1>4
  <2>2. (CHOOSE j \in DOMAIN list : list[j] = turn.head) = i
    BY <1>3, <1>4, <2>1
  <2> QED BY <1>4, <2>2 DEF After, list
<1> QED BY <1>1, <1>4, <1>6, <1>7, StrictHead

\* Balanced routing is strict as long as no window for healthier accounts is set,
\* which is the default (route_hint.rs): whatever the requests of other keys, the
\* polling and the user do in between, the next request of a key that the map has
\* kept starts at the account after the one the last request started at.
THEOREM RotationIsStrict ==
    ASSUME BalancedWindow <= 1
    PROVE  Spec => []NextInTurn
<1>1. Init => RotationInv
  BY InitMapInv DEF RotationInv, TurnKept, Init
<1>2. RotationInv => NextInTurn
  BY TurnsInTurn
<1>3. RotationInv /\ [Next]_vars => RotationInv'
  BY RotationInvInductive
<1> QED BY <1>1, <1>2, <1>3, PTL DEF Spec
=============================================================================
