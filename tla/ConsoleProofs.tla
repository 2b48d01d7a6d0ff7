------------------------------ MODULE ConsoleProofs ------------------------------
(***************************************************************************)
(* Proofs about the reading of a line, for every limit, every size of the  *)
(* BIOS buffer and of the screen's row, and every sequence of keys.        *)
(*                                                                         *)
(* First come lemmas about sequences of keys alone: which characters are   *)
(* kept, and how one more key changes that.  A character at position p of  *)
(* the keys is kept if Stays(keys, p); its rank is its place in the line.  *)
(***************************************************************************)
EXTENDS Console, FiniteSetTheorems, SequenceTheorems, TLAPS

Kept(keys) == {p \in 1 .. Len(keys) : Stays(keys, p)}
Rank(keys, p) == Cardinality({q \in Kept(keys) : q <= p})

(* How many more characters than backspaces follow position p. *)
Excess(keys, p) ==
  Count(keys, Chars, p + 1, Len(keys)) - Count(keys, {BS}, p + 1, Len(keys))

(* The r characters kept have the ranks 1 to r, and the backspaces that it *)
(* would take to reach one are as many as its rank is below r.             *)
Ranked(keys, r) ==
  /\ Cardinality(Kept(keys)) = r
  /\ \A n \in 1 .. r : \E p \in Kept(keys) : Rank(keys, p) = n
  /\ \A p \in Kept(keys) : Excess(keys, p) = r - Rank(keys, p)

LEMMA Sizes ==
  /\ maxlen \in Nat /\ KBD_BUF \in Nat /\ COLUMNS \in Nat /\ COLUMNS # 0
  /\ START \in Nat /\ START < COLUMNS
  /\ Cells \subseteq Nat /\ \A r \in 0 .. maxlen : START + r \in Cells
  /\ \A i \in 1 .. START : Prompt[i] \notin Controls
<1>1. /\ maxlen \in Nat /\ KBD_BUF \in Nat /\ COLUMNS \in Nat /\ COLUMNS # 0
      /\ MaxKeys \in Nat
  BY ConsoleAssumption, Zenon
<1>2. Prompt \in Seq(STRING \ Controls) /\ Len(Prompt) < COLUMNS
  BY ConsoleAssumption, Zenon
<1>3. START \in Nat /\ START < COLUMNS /\ \A i \in 1 .. START : Prompt[i] \notin Controls
  BY <1>1, <1>2, LenProperties DEF START
<1>4. Cells \subseteq Nat /\ \A r \in 0 .. maxlen : START + r \in Cells
  <2> DEFINE rest == (MaxKeys + KBD_BUF) * COLUMNS
  <2>1. rest \in Nat
    BY <1>1
  <2>2. Cells = 0 .. START + maxlen + rest
    BY DEF Cells
  <2> HIDE DEF rest
  <2> QED
    BY <1>1, <1>3, <2>1, <2>2
<1> QED
  BY <1>1, <1>3, <1>4

LEMMA AppendIs ==
  ASSUME NEW keys \in Seq(Keys), NEW k \in Keys
  PROVE  /\ Append(keys, k) \in Seq(Keys)
         /\ Len(keys) \in Nat
         /\ Len(Append(keys, k)) = Len(keys) + 1
         /\ Append(keys, k)[Len(keys) + 1] = k
         /\ \A n \in 1 .. Len(keys) : Append(keys, k)[n] = keys[n]
BY AppendProperties

LEMMA CountType ==
  ASSUME NEW keys, NEW S, NEW p \in Int, NEW q \in Int
  PROVE  /\ IsFiniteSet({n \in p .. q : keys[n] \in S})
         /\ Count(keys, S, p, q) \in Nat
         /\ p > q => Count(keys, S, p, q) = 0
<1>1. IsFiniteSet(p .. q)
  BY FS_Interval
<1>2. IsFiniteSet({n \in p .. q : keys[n] \in S})
  BY <1>1, FS_Subset
<1>3. p > q => {n \in p .. q : keys[n] \in S} = {}
  OBVIOUS
<1> QED
  BY <1>2, <1>3, FS_CardinalityType, FS_EmptySet DEF Count

LEMMA CountBefore ==
  ASSUME NEW keys \in Seq(Keys), NEW k \in Keys, NEW S, NEW p \in Nat \ {0},
         NEW q \in Int, q <= Len(keys)
  PROVE  Count(Append(keys, k), S, p, q) = Count(keys, S, p, q)
<1>1. \A n \in p .. q : Append(keys, k)[n] = keys[n]
  BY AppendIs
<1>2. {n \in p .. q : Append(keys, k)[n] \in S} = {n \in p .. q : keys[n] \in S}
  BY <1>1
<1> QED
  BY <1>2 DEF Count

LEMMA CountLast ==
  ASSUME NEW keys \in Seq(Keys), NEW k \in Keys, NEW S, NEW p \in Nat \ {0},
         p <= Len(keys) + 1
  PROVE  /\ k \in S => Count(Append(keys, k), S, p, Len(keys) + 1) =
                         Count(keys, S, p, Len(keys)) + 1
         /\ k \notin S => Count(Append(keys, k), S, p, Len(keys) + 1) =
                            Count(keys, S, p, Len(keys))
<1> DEFINE more == Append(keys, k)
           N == Len(keys)
           old == {n \in p .. N : keys[n] \in S}
           new == {n \in p .. N + 1 : more[n] \in S}
<1>1. N \in Nat /\ more[N + 1] = k /\ \A n \in 1 .. N : more[n] = keys[n]
  BY AppendIs
<1>2. p \in Int /\ N \in Int /\ p \in Nat \ {0} /\ p <= N + 1
  BY <1>1
<1>3. Count(more, S, p, N + 1) = Cardinality(new) /\ Count(keys, S, p, N) = Cardinality(old)
  BY DEF Count
<1>4. IsFiniteSet(old)
  BY <1>2, CountType
<1> HIDE DEF more, N
<1>5. N + 1 \notin old
  BY <1>2
<1>6. \A n : n \in p .. N + 1 <=> n \in p .. N \/ n = N + 1
  BY <1>2
<1>7. \A n \in p .. N : more[n] = keys[n]
  BY <1>1, <1>2
<1>8. ASSUME k \in S
      PROVE  Cardinality(new) = Cardinality(old) + 1
  <2>1. new = old \cup {N + 1}
    BY <1>1, <1>6, <1>7, <1>8
  <2> HIDE DEF old, new
  <2> QED
    BY <1>4, <1>5, <2>1, FS_AddElement
<1>9. ASSUME k \notin S
      PROVE  new = old
  BY <1>1, <1>6, <1>7, <1>9
<1> QED
  BY <1>3, <1>8, <1>9 DEF more, N

(* One more key: the characters before it are kept as before if their      *)
(* excess with it is not below 0, and it is kept if it is a character.     *)
LEMMA ExcessAppend ==
  ASSUME NEW keys \in Seq(Keys), NEW k \in Keys, NEW p \in 1 .. Len(keys)
  PROVE  /\ Excess(keys, p) \in Int
         /\ k \in Chars => Excess(Append(keys, k), p) = Excess(keys, p) + 1
         /\ k = BS => Excess(Append(keys, k), p) = Excess(keys, p) - 1
         /\ k \in {CR, ESC} => Excess(Append(keys, k), p) = Excess(keys, p)
<1> DEFINE N == Len(keys)
           more == Append(keys, k)
<1>1. N \in Nat /\ Len(more) = N + 1 /\ p + 1 \in Nat \ {0} /\ p + 1 <= N + 1
  BY AppendIs
<1>2. Count(keys, Chars, p + 1, N) \in Nat /\ Count(keys, {BS}, p + 1, N) \in Nat
  <2>1. p + 1 \in Int /\ N \in Int
    BY <1>1
  <2> HIDE DEF N
  <2> QED
    BY <2>1, CountType
<1>3. /\ k \in Chars => Count(more, Chars, p + 1, N + 1) = Count(keys, Chars, p + 1, N) + 1
      /\ k \notin Chars => Count(more, Chars, p + 1, N + 1) = Count(keys, Chars, p + 1, N)
      /\ k \in {BS} => Count(more, {BS}, p + 1, N + 1) = Count(keys, {BS}, p + 1, N) + 1
      /\ k \notin {BS} => Count(more, {BS}, p + 1, N + 1) = Count(keys, {BS}, p + 1, N)
  BY <1>1, CountLast
<1>4. BS \notin Chars /\ CR \notin Chars /\ ESC \notin Chars /\ BS \notin {CR, ESC}
  BY ConsoleAssumption DEF BS, CR, ESC
<1>5. /\ Excess(keys, p) = Count(keys, Chars, p + 1, N) - Count(keys, {BS}, p + 1, N)
      /\ Excess(more, p) = Count(more, Chars, p + 1, N + 1) - Count(more, {BS}, p + 1, N + 1)
  BY <1>1 DEF Excess
<1> HIDE DEF more, N
<1> QED
  BY <1>2, <1>3, <1>4, <1>5 DEF more

LEMMA StaysAppend ==
  ASSUME NEW keys \in Seq(Keys), NEW k \in Keys, NEW p \in 1 .. Len(keys)
  PROVE  Stays(Append(keys, k), p) <=>
           Stays(keys, p) /\ Excess(Append(keys, k), p) >= 0
<1> DEFINE N == Len(keys)
           more == Append(keys, k)
           Less(s, q) == Count(s, {BS}, p + 1, q) <= Count(s, Chars, p + 1, q)
<1>1. N \in Nat /\ Len(more) = N + 1 /\ p + 1 \in Nat \ {0} /\ more[p] = keys[p]
  BY AppendIs
<1>2. ASSUME NEW q \in p .. N
      PROVE  Less(more, q) <=> Less(keys, q)
  BY <1>1, CountBefore
<1>3. Less(more, N + 1) <=> Excess(more, p) >= 0
  <2>1. /\ Count(more, {BS}, p + 1, N + 1) \in Nat
        /\ Count(more, Chars, p + 1, N + 1) \in Nat
    <3>1. p + 1 \in Int /\ N + 1 \in Int
      BY <1>1
    <3> HIDE DEF more, N
    <3> QED
      BY <3>1, CountType
  <2>2. Excess(more, p) =
          Count(more, Chars, p + 1, N + 1) - Count(more, {BS}, p + 1, N + 1)
    BY <1>1 DEF Excess
  <2> HIDE DEF more, N
  <2> QED
    BY <2>1, <2>2
<1>4. Stays(more, p) <=> more[p] \in Chars /\ \A q \in p .. N + 1 : Less(more, q)
  BY <1>1 DEF Stays
<1>5. Stays(keys, p) <=> keys[p] \in Chars /\ \A q \in p .. N : Less(keys, q)
  BY DEF Stays
<1> HIDE DEF more, N, Less
<1>6. \A q : q \in p .. N + 1 <=> q \in p .. N \/ q = N + 1
  <2>1. p \in 1 .. N
    BY DEF N
  <2> QED
    BY <1>1, <2>1
<1> QED
  BY <1>1, <1>2, <1>3, <1>4, <1>5, <1>6 DEF more

LEMMA LastStays ==
  ASSUME NEW keys \in Seq(Keys), NEW k \in Keys
  PROVE  /\ Stays(Append(keys, k), Len(keys) + 1) <=> k \in Chars
         /\ Excess(Append(keys, k), Len(keys) + 1) = 0
<1> DEFINE N == Len(keys)
           more == Append(keys, k)
<1>1. N \in Nat /\ Len(more) = N + 1 /\ more[N + 1] = k
  BY AppendIs
<1>2. ASSUME NEW S
      PROVE  Count(more, S, (N + 1) + 1, N + 1) = 0
  <2>1. (N + 1) + 1 \in Int /\ N + 1 \in Int /\ (N + 1) + 1 > N + 1
    BY <1>1
  <2> QED
    BY <2>1, CountType
<1> HIDE DEF more, N
<1>3. Excess(more, N + 1) = 0
  BY <1>1, <1>2 DEF Excess
<1>4. \A q \in N + 1 .. N + 1 : q = N + 1
  BY <1>1
<1>5. Stays(more, N + 1) <=> k \in Chars
  BY <1>1, <1>2, <1>4 DEF Stays
<1> QED
  BY <1>3, <1>5 DEF more, N

LEMMA KeptAre ==
  ASSUME NEW keys \in Seq(Keys)
  PROVE  /\ IsFiniteSet(Kept(keys)) /\ Cardinality(Kept(keys)) \in Nat
         /\ Kept(keys) \subseteq 1 .. Len(keys)
         /\ \A p \in Kept(keys) : Excess(keys, p) \in Int /\ Excess(keys, p) >= 0
<1>1. Len(keys) \in Nat
  BY LenProperties
<1>2. IsFiniteSet(1 .. Len(keys)) /\ Kept(keys) \subseteq 1 .. Len(keys)
  BY <1>1, FS_Interval DEF Kept
<1>3. IsFiniteSet(Kept(keys))
  BY <1>2, FS_Subset
<1>4. ASSUME NEW p \in Kept(keys)
      PROVE  Excess(keys, p) \in Int /\ Excess(keys, p) >= 0
  <2>1. /\ p \in 1 .. Len(keys) /\ Len(keys) \in p .. Len(keys)
        /\ p + 1 \in Int /\ Len(keys) \in Int
    BY <1>1, <1>2
  <2>2. Count(keys, {BS}, p + 1, Len(keys)) <= Count(keys, Chars, p + 1, Len(keys))
    BY <2>1 DEF Kept, Stays
  <2>3. Count(keys, {BS}, p + 1, Len(keys)) \in Nat /\ Count(keys, Chars, p + 1, Len(keys)) \in Nat
    BY <2>1, CountType, Zenon
  <2> QED
    BY <2>2, <2>3 DEF Excess
<1> QED
  BY <1>2, <1>3, <1>4, FS_CardinalityType

(* A rank is between 1 and the number of characters kept, and only the     *)
(* last of them has that number as its rank.                               *)
LEMMA RankRange ==
  ASSUME NEW keys \in Seq(Keys), NEW p \in Kept(keys)
  PROVE  /\ Rank(keys, p) \in 1 .. Cardinality(Kept(keys))
         /\ Rank(keys, p) = Cardinality(Kept(keys)) <=> \A q \in Kept(keys) : q <= p
<1> DEFINE K == Kept(keys)
           upto == {q \in K : q <= p}
<1>1. IsFiniteSet(K) /\ Cardinality(K) \in Nat /\ K \subseteq 1 .. Len(keys)
  BY KeptAre
<1>2. upto \subseteq K /\ p \in upto
  BY <1>1
<1>3. Rank(keys, p) = Cardinality(upto) /\ (upto = K <=> \A q \in K : q <= p)
  BY DEF Rank
<1> HIDE DEF K, upto
<1>4. IsFiniteSet(upto) /\ Cardinality(upto) <= Cardinality(K)
      /\ (Cardinality(K) = Cardinality(upto) => K = upto)
  BY <1>1, <1>2, FS_Subset
<1>5. Cardinality(upto) \in Nat /\ Cardinality(upto) # 0
  BY <1>2, <1>4, FS_CardinalityType, FS_EmptySet
<1> QED
  BY <1>1, <1>3, <1>4, <1>5 DEF K

(* What one more key does to the characters kept: a character joins them,  *)
(* with the next rank; a backspace removes the last of them, if there is   *)
(* one; the other keys change nothing.  Nobody's rank changes.             *)
LEMMA CharRanked ==
  ASSUME NEW keys \in Seq(Keys), NEW k \in Chars, NEW r \in Nat, Ranked(keys, r)
  PROVE  /\ Ranked(Append(keys, k), r + 1)
         /\ Kept(Append(keys, k)) = Kept(keys) \cup {Len(keys) + 1}
         /\ Rank(Append(keys, k), Len(keys) + 1) = r + 1
         /\ \A p \in Kept(keys) : Rank(Append(keys, k), p) = Rank(keys, p)
<1> DEFINE more == Append(keys, k)
           N == Len(keys)
           K == Kept(keys)
           KM == Kept(more)
<1>0. k \in Keys
  BY DEF Keys
<1>1. N \in Nat /\ Len(more) = N + 1 /\ more \in Seq(Keys)
  BY <1>0, AppendIs
<1>2. /\ IsFiniteSet(K) /\ K \subseteq 1 .. N
      /\ \A p \in K : Excess(keys, p) \in Int /\ Excess(keys, p) >= 0
  BY KeptAre
<1>3. \A p \in 1 .. N : Excess(more, p) = Excess(keys, p) + 1
  BY <1>0, ExcessAppend
<1>4. \A p \in 1 .. N : Stays(more, p) <=> Stays(keys, p) /\ Excess(more, p) >= 0
  BY <1>0, StaysAppend
<1>5. Stays(more, N + 1) /\ Excess(more, N + 1) = 0
  BY <1>0, LastStays
<1>6. KM = K \cup {N + 1}
  <2>1. \A p : p \in 1 .. N + 1 <=> p \in 1 .. N \/ p = N + 1
    BY <1>1
  <2>2. \A p \in 1 .. N : p \in KM <=> p \in K
    <3>1. \A p \in 1 .. N : p \in K <=> Stays(keys, p)
      BY DEF Kept
    <3>2. \A p \in 1 .. N : p \in KM <=> Stays(more, p)
      BY <1>1 DEF Kept
    <3> HIDE DEF K, KM, N, more
    <3> QED
      BY <1>2, <1>3, <1>4, <3>1, <3>2
  <2>3. N + 1 \in KM
    BY <1>1, <1>5 DEF Kept
  <2>4. KM \subseteq 1 .. N + 1
    BY <1>1 DEF Kept
  <2> HIDE DEF K, KM, N, more
  <2> QED
    BY <1>2, <2>1, <2>2, <2>3, <2>4
<1>7. \A p \in K : Rank(more, p) = Rank(keys, p)
  <2>1. ASSUME NEW p \in K
        PROVE  {q \in KM : q <= p} = {q \in K : q <= p}
    <3> HIDE DEF K, KM, N, more
    <3> QED
      BY <1>1, <1>2, <1>6, <2>1
  <2> QED
    BY <2>1 DEF Rank
<1>8. Cardinality(KM) = r + 1
  <2>1. Cardinality(K) = r
    BY DEF Ranked
  <2>2. N + 1 \notin K
    <3> HIDE DEF K, N
    <3> QED
      BY <1>1, <1>2
  <2> HIDE DEF K, KM, N
  <2> QED
    BY <1>2, <1>6, <2>1, <2>2, FS_AddElement
<1>9. Rank(more, N + 1) = r + 1
  <2>1. {q \in KM : q <= N + 1} = KM
    <3> HIDE DEF K, KM, N, more
    <3>1. \A q \in KM : q <= N + 1
      BY <1>1, <1>2, <1>6
    <3> QED
      BY <3>1
  <2> QED
    BY <1>8, <2>1 DEF Rank
<1>10. Ranked(more, r + 1)
  <2>1. /\ \A n \in 1 .. r : \E p \in K : Rank(keys, p) = n
        /\ \A p \in K : Excess(keys, p) = r - Rank(keys, p) /\ Rank(keys, p) \in Int
    BY RankRange DEF Ranked
  <2>2. \A n \in 1 .. r + 1 : \E p \in KM : Rank(more, p) = n
    <3> HIDE DEF K, KM, N, more
    <3>1. \A n : n \in 1 .. r + 1 => n \in 1 .. r \/ n = r + 1
      OBVIOUS
    <3> QED
      BY <1>6, <1>7, <1>9, <2>1, <3>1
  <2>3. \A p \in KM : Excess(more, p) = (r + 1) - Rank(more, p)
    <3> HIDE DEF K, KM, N, more
    <3> QED
      BY <1>2, <1>3, <1>5, <1>6, <1>7, <1>9, <2>1
  <2>4. Cardinality(Kept(more)) = r + 1
    BY <1>8
  <2> HIDE DEF more, K
  <2> QED
    BY <2>2, <2>3, <2>4 DEF Ranked
<1> QED
  BY <1>6, <1>7, <1>9, <1>10

LEMMA BackRanked ==
  ASSUME NEW keys \in Seq(Keys), NEW r \in Nat, Ranked(keys, r)
  PROVE  /\ Ranked(Append(keys, BS), IF r > 0 THEN r - 1 ELSE 0)
         /\ Kept(Append(keys, BS)) \subseteq Kept(keys)
         /\ \A p \in Kept(Append(keys, BS)) : Rank(Append(keys, BS), p) = Rank(keys, p)
<1> DEFINE more == Append(keys, BS)
           N == Len(keys)
           K == Kept(keys)
           KM == Kept(more)
<1>0. BS \in Keys /\ BS \notin Chars
  BY ConsoleAssumption DEF Keys
<1>1. N \in Nat /\ Len(more) = N + 1 /\ more \in Seq(Keys)
  BY <1>0, AppendIs
<1>2. IsFiniteSet(K) /\ K \subseteq 1 .. N /\ Cardinality(K) = r
  BY KeptAre DEF Ranked
<1>3. \A p \in 1 .. N : Excess(more, p) = Excess(keys, p) - 1
  BY <1>0, ExcessAppend
<1>4. \A p \in 1 .. N : Stays(more, p) <=> Stays(keys, p) /\ Excess(more, p) >= 0
  BY <1>0, StaysAppend
<1>5. ~Stays(more, N + 1)
  BY <1>0, LastStays
<1>6. /\ \A n \in 1 .. r : \E p \in K : Rank(keys, p) = n
      /\ \A p \in K : Excess(keys, p) = r - Rank(keys, p)
      /\ \A p \in K : Rank(keys, p) \in 1 .. r
      /\ \A p \in K : Rank(keys, p) = r <=> \A q \in K : q <= p
  BY RankRange DEF Ranked
<1>7. KM = {p \in K : Rank(keys, p) < r}
  <2>1. \A p : p \in 1 .. N + 1 <=> p \in 1 .. N \/ p = N + 1
    BY <1>1
  <2>2. \A p \in 1 .. N : p \in KM <=> p \in K /\ Rank(keys, p) < r
    <3>1. \A p \in 1 .. N : p \in K <=> Stays(keys, p)
      BY DEF Kept
    <3>2. \A p \in 1 .. N : p \in KM <=> Stays(more, p)
      BY <1>1 DEF Kept
    <3> HIDE DEF K, KM, N, more
    <3> QED
      BY <1>2, <1>3, <1>4, <1>6, <3>1, <3>2
  <2>3. N + 1 \notin KM
    BY <1>1, <1>5 DEF Kept
  <2>4. KM \subseteq 1 .. N + 1
    BY <1>1 DEF Kept
  <2> HIDE DEF K, KM, N, more
  <2> QED
    BY <1>2, <2>1, <2>2, <2>3, <2>4
<1>8. CASE r = 0
  <2>1. K = {}
    <3> HIDE DEF K
    <3> QED
      BY <1>2, <1>8, FS_EmptySet
  <2>2. KM = {} /\ Cardinality(KM) = 0
    <3> HIDE DEF K, KM
    <3> QED
      BY <1>7, <2>1, FS_EmptySet
  <2> QED
    BY <1>8, <2>2 DEF Ranked
<1>9. CASE r > 0
  <2>1. PICK m \in K : Rank(keys, m) = r
    BY <1>6, <1>9
  <2>2. \A q \in K : q <= m
    BY <1>6, <2>1
  <2>3. \A p \in K : p # m => Rank(keys, p) < r /\ p < m
    <3> HIDE DEF K, N
    <3> QED
      BY <1>1, <1>2, <1>6, <2>1, <2>2
  <2>4. KM = K \ {m}
    <3> HIDE DEF K, KM
    <3> QED
      BY <1>7, <2>1, <2>3
  <2>5. \A p \in KM : Rank(more, p) = Rank(keys, p)
    <3>1. ASSUME NEW p \in KM
          PROVE  {q \in KM : q <= p} = {q \in K : q <= p}
      <4> HIDE DEF K, KM, N
      <4> QED
        BY <1>1, <1>2, <2>3, <2>4
    <3> QED
      BY <3>1 DEF Rank
  <2>6. Cardinality(KM) = r - 1
    <3> HIDE DEF K, KM
    <3> QED
      BY <1>2, <2>1, <2>4, FS_RemoveElement
  <2>7. \A n \in 1 .. r - 1 : \E p \in KM : Rank(more, p) = n
    <3> HIDE DEF K, KM, N, more
    <3>1. \A n \in 1 .. r - 1 : n \in 1 .. r /\ n # r
      OBVIOUS
    <3> QED
      BY <1>6, <2>1, <2>4, <2>5, <3>1
  <2>8. \A p \in KM : Excess(more, p) = r - 1 - Rank(more, p)
    <3> HIDE DEF K, KM, N, more
    <3> QED
      BY <1>2, <1>3, <1>6, <2>4, <2>5
  <2>9. Ranked(more, r - 1)
    BY <2>6, <2>7, <2>8 DEF Ranked
  <2> HIDE DEF K, KM, more
  <2> QED
    BY <1>9, <2>4, <2>5, <2>9 DEF K, KM, more
<1> QED
  BY <1>8, <1>9

LEMMA OtherRanked ==
  ASSUME NEW keys \in Seq(Keys), NEW k \in {CR, ESC}, NEW r \in Nat, Ranked(keys, r)
  PROVE  /\ Ranked(Append(keys, k), r)
         /\ Kept(Append(keys, k)) = Kept(keys)
         /\ \A p \in Kept(keys) : Rank(Append(keys, k), p) = Rank(keys, p)
<1> DEFINE more == Append(keys, k)
           N == Len(keys)
           K == Kept(keys)
           KM == Kept(more)
<1>0. k \in Keys /\ k \notin Chars
  BY ConsoleAssumption DEF Keys
<1>1. N \in Nat /\ Len(more) = N + 1
  BY <1>0, AppendIs
<1>2. /\ K \subseteq 1 .. N
      /\ \A p \in K : Excess(keys, p) >= 0
  BY KeptAre
<1>3. \A p \in 1 .. N : Excess(more, p) = Excess(keys, p)
  BY <1>0, ExcessAppend
<1>4. \A p \in 1 .. N : Stays(more, p) <=> Stays(keys, p) /\ Excess(more, p) >= 0
  BY <1>0, StaysAppend
<1>5. ~Stays(more, N + 1)
  BY <1>0, LastStays
<1>6. KM = K
  <2>1. \A p : p \in 1 .. N + 1 <=> p \in 1 .. N \/ p = N + 1
    BY <1>1
  <2>2. \A p \in 1 .. N : p \in KM <=> p \in K
    <3>1. \A p \in 1 .. N : p \in K <=> Stays(keys, p)
      BY DEF Kept
    <3>2. \A p \in 1 .. N : p \in KM <=> Stays(more, p)
      BY <1>1 DEF Kept
    <3> HIDE DEF K, KM, N, more
    <3> QED
      BY <1>2, <1>3, <1>4, <3>1, <3>2
  <2>3. N + 1 \notin KM
    BY <1>1, <1>5 DEF Kept
  <2>4. KM \subseteq 1 .. N + 1
    BY <1>1 DEF Kept
  <2> HIDE DEF K, KM, N, more
  <2> QED
    BY <1>2, <2>1, <2>2, <2>3, <2>4
<1>7. \A p : Rank(more, p) = Rank(keys, p)
  BY <1>6 DEF Rank
<1> QED
  BY <1>2, <1>3, <1>6, <1>7 DEF Ranked

-----------------------------------------------------------------------------
(***************************************************************************)
(* The invariant.                                                          *)
(***************************************************************************)
TypeInv ==
  /\ pc \in {"print", "peek", "drop", "getc", "done"}
  /\ kbd \in Seq(Keys)
  /\ taken \in Seq(Keys)
  /\ accepted \in Seq(Keys)
  /\ read \in 0 .. maxlen
  /\ buf \in [0 .. maxlen - 1 -> Chars \cup {UNSET}]
  /\ torn \in BOOLEAN

(* The loader takes no key before the drain is over, and it drops one only *)
(* when there is one.                                                      *)
QueueInv ==
  /\ pc \in {"print", "peek", "drop"} => taken = <<>> /\ read = 0
  /\ pc = "drop" => kbd # <<>>
  /\ NoKeyLost

(* The character of rank n is where it belongs, in the n-th place of the   *)
(* buffer.                                                                 *)
LineInv ==
  /\ Ranked(taken, read)
  /\ \A p \in Kept(taken) : buf[Rank(taken, p) - 1] = taken[p]

(* While the loop runs, no key but the last can have ended the line, and   *)
(* the last only by filling it, with a character.                          *)
EndInv ==
  IF pc = "done" THEN EndsOnce
  ELSE /\ \A n \in 1 .. Len(taken) - 1 : ~Ends(n)
       /\ \A n \in 1 .. Len(taken) : taken[n] # CR /\ (CanEsc => taken[n] # ESC)
       /\ read = maxlen /\ taken # <<>> => taken[Len(taken)] \in Chars

(* The prompt is printed from the first cell on. *)
ScreenInv ==
  /\ pc = "print" =>
       /\ ~torn
       /\ cursor \in 0 .. START
       /\ screen = [p \in Cells |-> IF p < cursor THEN Prompt[p + 1] ELSE BLANK]
  /\ EchoInStep

IndInv == TypeInv /\ QueueInv /\ LineInv /\ EndInv /\ ScreenInv

-----------------------------------------------------------------------------
(* The survivors are as many as the characters kept, and if those are      *)
(* where their ranks say, the line is the survivors.                       *)
LEMMA SurvivorsLength ==
  ASSUME NEW keys \in Seq(Keys)
  PROVE  Len(Survivors(keys)) = Cardinality(Kept(keys))
<1>1. Cardinality(Kept(keys)) \in Nat
  BY KeptAre
<1>2. DOMAIN Survivors(keys) = 1 .. Cardinality(Kept(keys))
  BY DEF Survivors, Kept
<1>3. Survivors(keys) = [n \in 1 .. Cardinality(Kept(keys)) |-> Survivors(keys)[n]]
  BY DEF Survivors, Kept
<1>4. Survivors(keys) \in Seq({Survivors(keys)[n] : n \in 1 .. Cardinality(Kept(keys))})
  BY <1>1, <1>3
<1> QED
  BY <1>1, <1>2, <1>4, LenProperties

LEMMA LineSurvives ==
  ASSUME TypeInv, LineInv
  PROVE  LineIsWhatSurvives
<1> DEFINE K == Kept(taken)
           At(n) == CHOOSE p \in K : Rank(taken, p) = n
<1>1. Cardinality(K) = read /\ \A n \in 1 .. read : \E p \in K : Rank(taken, p) = n
  BY DEF LineInv, Ranked
<1>2. Survivors(taken) = [n \in 1 .. read |-> taken[At(n)]]
  BY <1>1 DEF Survivors, Kept, Rank
<1>3. \A n \in 1 .. read : buf[n - 1] = taken[At(n)]
  <2>1. \A p \in K : buf[Rank(taken, p) - 1] = taken[p]
    BY DEF LineInv
  <2>2. \A n \in 1 .. read : At(n) \in K /\ Rank(taken, At(n)) = n
    <3> HIDE DEF K
    <3> QED
      BY <1>1
  <2> HIDE DEF K, At
  <2> QED
    BY <2>1, <2>2
<1> HIDE DEF K, At
<1> QED
  BY <1>2, <1>3 DEF LineIsWhatSurvives, Line

(* Another key leaves the prefixes before it alone. *)
LEMMA PrefixKept ==
  ASSUME taken \in Seq(Keys), NEW k \in Keys, taken' = Append(taken, k),
         flags' = flags, NEW n \in 1 .. Len(taken)
  PROVE  /\ Prefix(n)' = Prefix(n)
         /\ taken'[n] = taken[n]
         /\ Ends(n)' <=> Ends(n)
<1>1. /\ Len(taken) \in Nat /\ taken' \in Seq(Keys) /\ Len(taken') = Len(taken) + 1
      /\ \A i \in 1 .. Len(taken) : taken'[i] = taken[i]
  BY AppendIs
<1>2. SubSeq(taken', 1, n) = SubSeq(taken, 1, n)
  BY <1>1, SubSeqProperties
<1>3. Prefix(n)' = Prefix(n)
  BY <1>2 DEF Prefix
<1>4. CanEsc' = CanEsc
  BY DEF CanEsc
<1> QED
  BY <1>1, <1>3, <1>4 DEF Ends

LEMMA WholeHeld ==
  ASSUME TypeInv, LineInv
  PROVE  /\ Len(Survivors(Prefix(Len(taken)))) = read
         /\ taken = <<>> => read = 0
<1>1. Prefix(Len(taken)) = taken
  BY SubSeqFull DEF TypeInv, Prefix
<1>2. Len(Survivors(taken)) = read
  BY SurvivorsLength DEF TypeInv, LineInv, Ranked
<1>3. ASSUME taken = <<>>
      PROVE  read = 0
  <2>1. Kept(taken) = {}
    BY <1>3 DEF Kept
  <2> QED
    BY <2>1, FS_EmptySet DEF LineInv, Ranked
<1> QED
  BY <1>1, <1>2, <1>3

(* What does not change the variables of a part of the invariant. *)
LEMMA SameLine ==
  ASSUME UNCHANGED <<taken, line>>
  PROVE  LineInv' <=> LineInv
BY DEF LineInv, line

LEMMA SameEnd ==
  ASSUME UNCHANGED <<flags, pc, taken, line, result>>
  PROVE  EndInv' <=> EndInv
<1>1. UNCHANGED <<buf, read>>
  BY DEF line
<1> QED
  BY <1>1 DEF EndInv, EndsOnce, Ends, Prefix, Line, CanEsc

LEMMA SameEcho ==
  ASSUME UNCHANGED <<flags, taken, line, display>>, (pc = "print")' <=> pc = "print"
  PROVE  /\ EchoInStep' <=> EchoInStep
         /\ ScreenInv' <=> ScreenInv
<1>1. UNCHANGED <<buf, read, cursor, screen, torn>>
  BY DEF line, display
<1> QED
  BY <1>1 DEF ScreenInv, EchoInStep, InStep, ControlEchoed, Prefix, Echo, ShownFor

(* Before the loop no key is taken, and nothing of the line is there. *)
LEMMA NothingYet ==
  ASSUME taken = <<>>, read = 0, pc # "done", TypeInv
  PROVE  LineInv /\ EndInv
<1>1. Kept(taken) = {} /\ Cardinality(Kept(taken)) = 0
  BY FS_EmptySet DEF Kept
<1>2. LineInv
  BY <1>1 DEF LineInv, Ranked
<1>3. EndInv
  BY DEF EndInv
<1> QED
  BY <1>2, <1>3

(* The key the loop takes. *)
LEMMA TakesKey ==
  ASSUME IndInv, NEW c, Getc(c), flags' = flags
  PROVE  /\ pc = "getc" /\ read \in 0 .. maxlen - 1 /\ c \in Keys
         /\ kbd' \in Seq(Keys) /\ taken' \in Seq(Keys) /\ accepted' = accepted
         /\ taken' = Append(taken, c) /\ taken' \o kbd' = accepted'
         /\ Len(taken) \in Nat /\ Len(taken') = Len(taken) + 1
         /\ \A n \in 1 .. Len(taken) : taken'[n] = taken[n] /\ ~Ends(n)' /\ ~Ends(n)
         /\ taken'[Len(taken')] = c
<1>1. /\ pc = "getc" /\ read # maxlen /\ kbd # <<>> /\ c = Head(kbd)
      /\ kbd' = Tail(kbd) /\ taken' = Append(taken, c) /\ accepted' = accepted
  BY DEF Getc
<1>2. /\ kbd \in Seq(Keys) /\ taken \in Seq(Keys) /\ accepted \in Seq(Keys)
      /\ read \in 0 .. maxlen /\ maxlen \in Nat
  BY Sizes DEF IndInv, TypeInv
<1>3. c \in Keys /\ kbd' \in Seq(Keys)
  BY <1>1, <1>2, HeadTailProperties
<1>4. /\ taken' \in Seq(Keys) /\ Len(taken) \in Nat /\ Len(taken') = Len(taken) + 1
      /\ taken'[Len(taken')] = c
  BY <1>1, <1>2, <1>3, AppendIs
<1>5. taken' \o kbd' = accepted'
  <2>1. taken \o kbd = accepted
    BY <1>1 DEF IndInv, QueueInv, NoKeyLost
  <2>2. Append(taken, c) \o Tail(kbd) = taken \o kbd
    BY <1>1, <1>2, <1>3
  <2> QED
    BY <1>1, <2>1, <2>2
<1>6. ASSUME NEW n \in 1 .. Len(taken)
      PROVE  taken'[n] = taken[n] /\ ~Ends(n)' /\ ~Ends(n)
  <2>1. taken'[n] = taken[n] /\ (Ends(n)' <=> Ends(n))
    BY <1>1, <1>2, <1>3, PrefixKept
  <2>2. /\ \A i \in 1 .. Len(taken) - 1 : ~Ends(i)
        /\ \A i \in 1 .. Len(taken) : taken[i] # CR /\ (CanEsc => taken[i] # ESC)
    BY <1>1 DEF IndInv, EndInv
  <2>3. CASE n = Len(taken)
    BY <1>1, <2>1, <2>2, <2>3, WholeHeld DEF IndInv, Ends
  <2>4. CASE n # Len(taken)
    <3>1. n \in 1 .. Len(taken) - 1
      BY <1>4, <2>4
    <3> QED
      BY <2>1, <2>2, <3>1
  <2> QED
    BY <2>3, <2>4
<1>7. pc = "getc" /\ read \in 0 .. maxlen - 1
  BY <1>1, <1>2
<1>8. \A n \in 1 .. Len(taken) : taken'[n] = taken[n] /\ ~Ends(n)' /\ ~Ends(n)
  BY <1>6
<1> QED
  BY <1>1, <1>3, <1>4, <1>5, <1>7, <1>8, Zenon

-----------------------------------------------------------------------------
(* Every step preserves the invariant. *)
LEMMA Initially == Init => IndInv
<1> SUFFICES ASSUME Init PROVE IndInv
  OBVIOUS
<1>1. PICK m \in 0 .. KBD_BUF : kbd \in [1 .. m -> {CHOOSE c \in Chars : TRUE}]
  BY DEF Init
<1>2. (CHOOSE c \in Chars : TRUE) \in Keys
  BY ConsoleAssumption DEF Keys
<1>3. kbd \in Seq(Keys)
  <2>1. m \in Nat
    BY Sizes
  <2>2. \A n \in 1 .. m : kbd[n] \in Keys
    BY <1>1, <1>2
  <2>3. kbd = [n \in 1 .. m |-> kbd[n]]
    BY <1>1
  <2> QED
    BY <2>1, <2>2, <2>3
<1>4. TypeInv
  <2>1. buf \in [0 .. maxlen - 1 -> Chars \cup {UNSET}]
    BY DEF Init
  <2>2. /\ pc = "print" /\ taken = <<>> /\ accepted = <<>> /\ read = 0 /\ torn = FALSE
        /\ 0 \in 0 .. maxlen
    BY Sizes DEF Init
  <2>3. taken \in Seq(Keys) /\ accepted \in Seq(Keys)
    BY <2>2, Zenon, EmptySeq
  <2> QED
    BY <1>3, <2>1, <2>2, <2>3 DEF TypeInv
<1>5. QueueInv
  BY DEF Init, QueueInv, NoKeyLost
<1>6. LineInv /\ EndInv
  BY <1>4, NothingYet DEF Init
<1>7. ScreenInv
  <2>1. START \in Nat
    BY Sizes
  <2>2. \A p \in Cells : ~(p < 0)
    BY Sizes
  <2> QED
    BY <2>1, <2>2 DEF Init, ScreenInv, EchoInStep, InStep
<1> QED
  BY <1>4, <1>5, <1>6, <1>7 DEF IndInv

LEMMA KeyPressedKeeps ==
  ASSUME IndInv, NEW k \in Keys, KeyPressed(k)
  PROVE  IndInv'
<1>1. /\ UNCHANGED <<flags, pc, line, result, display, taken>>
      /\ \/ kbd' = Append(kbd, k) /\ accepted' = Append(accepted, k)
         \/ UNCHANGED <<kbd, accepted>>
  BY DEF KeyPressed
<1>2. UNCHANGED <<buf, read, cursor, screen, torn>>
  BY <1>1 DEF line, display
<1>3. kbd \in Seq(Keys) /\ accepted \in Seq(Keys) /\ taken \in Seq(Keys)
  BY DEF IndInv, TypeInv
<1>4. TypeInv'
  <2>1. Append(kbd, k) \in Seq(Keys) /\ Append(accepted, k) \in Seq(Keys)
    BY <1>3, AppendProperties
  <2>2. kbd' \in Seq(Keys) /\ accepted' \in Seq(Keys)
    BY <1>1, <1>3, <2>1
  <2> QED
    BY <1>1, <1>2, <2>2 DEF IndInv, TypeInv
<1>5. QueueInv'
  <2>1. kbd # <<>> => kbd' # <<>>
    BY <1>1, <1>3
  <2>2. taken \o Append(kbd, k) = Append(taken \o kbd, k)
    BY <1>3
  <2> QED
    BY <1>1, <1>2, <2>1, <2>2 DEF IndInv, QueueInv, NoKeyLost
<1> QED
  BY <1>1, <1>4, <1>5, SameLine, SameEnd, SameEcho DEF IndInv

(* The prompt and the drain. *)
LEMMA BeforeKeeps ==
  ASSUME IndInv, UNCHANGED flags,
         PrintChar \/ PrintEnd \/ PeekKey \/ DropKey \/ PeekNone
  PROVE  IndInv'
<1>1. /\ pc \in {"print", "peek", "drop"} /\ pc' \in {"print", "peek", "drop", "getc"}
      /\ taken' = <<>> /\ read' = 0 /\ buf' = buf /\ read = 0 /\ taken = <<>>
      /\ \/ kbd' = kbd /\ accepted' = accepted
         \/ kbd' = kbd /\ kbd = <<>> /\ accepted' = <<>>
         \/ kbd # <<>> /\ kbd' = Tail(kbd) /\ accepted' = accepted
      /\ pc' = "drop" => kbd' # <<>>
      /\ pc' = "getc" => kbd' = <<>> /\ accepted' = <<>>
  BY DEF IndInv, QueueInv, PrintChar, PrintEnd, PeekKey, DropKey, PeekNone, DrainOver,
         line, keyboard
<1>2. torn' \in BOOLEAN
  BY DEF IndInv, TypeInv, PrintChar, Putc, PrintEnd, PeekKey, DropKey, PeekNone, DrainOver,
         display
<1>3. TypeInv'
  <2>1. kbd' \in Seq(Keys) /\ accepted' \in Seq(Keys) /\ taken' \in Seq(Keys)
    BY <1>1, HeadTailProperties DEF IndInv, TypeInv
  <2> QED
    BY <1>1, <1>2, <2>1 DEF IndInv, TypeInv
<1>4. QueueInv'
  BY <1>1, <1>3, ConcatProperties DEF QueueInv, NoKeyLost
<1>5. LineInv' /\ EndInv'
  <2>1. taken' = <<>> /\ read' = 0 /\ pc' # "done" /\ TypeInv'
    BY <1>1, <1>3
  <2>2. Kept(taken') = {} /\ Cardinality(Kept(taken')) = 0
    BY <2>1, FS_EmptySet DEF Kept
  <2>3. LineInv'
    BY <2>1, <2>2 DEF LineInv, Ranked
  <2> QED
    BY <2>1, <2>3 DEF EndInv
<1>6. ScreenInv'
  <2>0. /\ START \in Nat /\ Cells \subseteq Nat
        /\ \A i \in 1 .. START : Prompt[i] \notin Controls
    BY Sizes
  <2>1. CASE PrintChar
    <3>0. /\ cursor < START /\ cursor \in 0 .. START /\ torn = FALSE
          /\ screen = [p \in Cells |-> IF p < cursor THEN Prompt[p + 1] ELSE BLANK]
          /\ Putc(Prompt[cursor + 1]) /\ pc' = "print"
      BY <2>1 DEF IndInv, TypeInv, ScreenInv, PrintChar
    <3>4. Prompt[cursor + 1] \notin Controls
      BY <2>0, <3>0
    <3>1. /\ cursor < START /\ cursor \in 0 .. START /\ torn = FALSE
          /\ screen = [p \in Cells |-> IF p < cursor THEN Prompt[p + 1] ELSE BLANK]
          /\ screen' = [screen EXCEPT ![cursor] = Prompt[cursor + 1]]
          /\ cursor' = cursor + 1 /\ torn' = torn /\ pc' = "print"
      BY <3>0, <3>4 DEF Putc, Controls
    <3>2. screen' = [p \in Cells |-> IF p < cursor' THEN Prompt[p + 1] ELSE BLANK]
      <4>1. ASSUME NEW p \in Cells
            PROVE  screen'[p] = IF p < cursor' THEN Prompt[p + 1] ELSE BLANK
        BY <2>0, <3>1
      <4> QED
        BY <3>1, <4>1
    <3>3. cursor' \in 0 .. START /\ torn' = FALSE
      BY <2>0, <3>1
    <3> QED
      BY <3>1, <3>2, <3>3 DEF ScreenInv, EchoInStep, InStep
  <2>2. CASE PrintEnd
    <3>1. /\ cursor = START /\ torn = FALSE /\ UNCHANGED display /\ pc' = "peek"
          /\ screen = [p \in Cells |-> IF p < cursor THEN Prompt[p + 1] ELSE BLANK]
      BY <2>2 DEF IndInv, TypeInv, ScreenInv, PrintEnd
    <3>2. cursor' = cursor /\ screen' = screen /\ torn' = FALSE
      BY <3>1 DEF display
    <3>3. screen' = [p \in Cells |-> IF p < START THEN Prompt[p + 1]
                                    ELSE IF Echo' /\ p < START + read'
                                      THEN ShownFor(buf[p - START])' ELSE BLANK]
      <4>1. ASSUME NEW p \in Cells
            PROVE  (IF p < START THEN Prompt[p + 1] ELSE BLANK) =
                   IF p < START THEN Prompt[p + 1]
                   ELSE IF Echo' /\ p < START + read'
                     THEN ShownFor(buf[p - START])' ELSE BLANK
        BY <1>1, <2>0
      <4> QED
        BY <3>1, <3>2, <4>1
    <3>4. cursor' = START + (IF Echo' THEN read' ELSE 0)
      BY <1>1, <2>0, <3>1, <3>2
    <3> QED
      BY <3>1, <3>2, <3>3, <3>4 DEF ScreenInv, EchoInStep, InStep
  <2>3. CASE PeekKey \/ DropKey \/ PeekNone
    <3>1. UNCHANGED <<flags, taken, line, display>> /\ pc # "print" /\ pc' # "print"
      BY <2>3 DEF PeekKey, DropKey, PeekNone, DrainOver
    <3> QED
      BY <3>1, SameEcho DEF IndInv
  <2> QED
    BY <2>1, <2>2, <2>3
<1> QED
  BY <1>3, <1>4, <1>5, <1>6 DEF IndInv

LEMMA LineLength ==
  ASSUME TypeInv
  PROVE  Len(Line) = read
<1> DEFINE S == {buf[n - 1] : n \in 1 .. read}
<1>1. read \in Nat
  BY Sizes DEF TypeInv
<1>2. Line = [n \in 1 .. read |-> buf[n - 1]] /\ DOMAIN Line = 1 .. read
  BY DEF Line
<1>3. Line \in [1 .. read -> S]
  BY <1>2
<1> HIDE DEF S
<1>4. Line \in Seq(S)
  BY <1>1, <1>3
<1> QED
  BY <1>1, <1>2, <1>4, LenProperties

LEMMA FullKeeps ==
  ASSUME IndInv, UNCHANGED flags, Full
  PROVE  IndInv'
<1>1. /\ pc = "getc" /\ pc' = "done" /\ read = maxlen /\ result' = read
      /\ UNCHANGED <<keyboard, line, display, taken, flags>>
  BY DEF Full
<1>2. UNCHANGED <<kbd, typed, accepted, buf, read, cursor, screen, torn>>
  BY <1>1 DEF keyboard, line, display
<1>3. TypeInv' /\ QueueInv'
  BY <1>1, <1>2 DEF IndInv, TypeInv, QueueInv, NoKeyLost
<1>4. LineInv' /\ ScreenInv'
  BY <1>1, SameLine, SameEcho DEF IndInv
<1>5. EndInv'
  <2>1. /\ \A n \in 1 .. Len(taken) - 1 : ~Ends(n)
        /\ taken # <<>> => taken[Len(taken)] \in Chars
    BY <1>1 DEF IndInv, EndInv
  <2>2. \A n : Ends(n)' <=> Ends(n)
    BY <1>1 DEF Ends, Prefix, CanEsc
  <2>3. Len(Survivors(Prefix(Len(taken)))) = maxlen
    BY <1>1, WholeHeld DEF IndInv
  <2>4. Len(Line) = read /\ Line' = Line
    BY <1>2, LineLength DEF IndInv, Line
  <2>5. taken # <<>> => Ends(Len(taken)) /\ taken[Len(taken)] # ESC
    BY <2>1, <2>3, ConsoleAssumption DEF Ends
  <2> QED
    BY <1>1, <1>2, <2>1, <2>2, <2>4, <2>5 DEF EndInv, EndsOnce
<1> QED
  BY <1>3, <1>4, <1>5 DEF IndInv

(* The line goes on, or its last place is filled. *)
LEMMA EndsNotYet ==
  ASSUME IndInv, NEW c, Getc(c), flags' = flags, pc' = "getc",
         c # CR, CanEsc => c # ESC, read' = maxlen => c \in Chars
  PROVE  EndInv'
<1>1. /\ pc = "getc" /\ Len(taken) \in Nat /\ Len(taken') = Len(taken) + 1
      /\ \A n \in 1 .. Len(taken) : taken'[n] = taken[n] /\ ~Ends(n)'
      /\ taken'[Len(taken')] = c
  BY TakesKey
<1>2. \A n \in 1 .. Len(taken) : taken[n] # CR /\ (CanEsc => taken[n] # ESC)
  BY <1>1 DEF IndInv, EndInv
<1>3. CanEsc' <=> CanEsc
  BY DEF CanEsc
<1>4. \A n \in 1 .. Len(taken') : n \in 1 .. Len(taken) \/ n = Len(taken')
  BY <1>1
<1>5. \A n \in 1 .. Len(taken') - 1 : ~Ends(n)'
  BY <1>1
<1>6. \A n \in 1 .. Len(taken') : taken'[n] # CR /\ (CanEsc' => taken'[n] # ESC)
  BY <1>1, <1>2, <1>3, <1>4
<1> QED
  BY <1>1, <1>5, <1>6 DEF EndInv

(* A row that was once full stays so in the keys' history. *)
LEMMA OnceFull ==
  ASSUME IndInv, NEW c, Getc(c), flags' = flags,
         torn \/ (read > 0 /\ read >= COLUMNS - START), ~ControlEchoed
  PROVE  (\E n \in 1 .. Len(taken) : Len(Survivors(Prefix(n))) >= COLUMNS - START)'
<1>1. /\ c \in Keys /\ taken' = Append(taken, c) /\ taken \in Seq(Keys)
      /\ Len(taken) \in Nat /\ Len(taken') = Len(taken) + 1
  BY TakesKey DEF IndInv, TypeInv
<1>2. PICK n \in 1 .. Len(taken) : Len(Survivors(Prefix(n))) >= COLUMNS - START
  <2>1. CASE torn
    BY <2>1 DEF IndInv, ScreenInv, EchoInStep, InStep
  <2>2. CASE read > 0 /\ read >= COLUMNS - START
    <3>1. taken # <<>> /\ Len(Survivors(Prefix(Len(taken)))) = read
      BY <2>2, WholeHeld DEF IndInv
    <3>2. Len(taken) \in 1 .. Len(taken)
      BY <1>1, <3>1, EmptySeq
    <3> QED
      BY <2>2, <3>1, <3>2
  <2> QED
    BY <2>1, <2>2
<1>3. Prefix(n)' = Prefix(n) /\ n \in 1 .. Len(taken')
  BY <1>1, PrefixKept
<1> QED
  BY <1>2, <1>3

(* A control character that has been echoed stays so in the keys' history, *)
(* so that as long as there is none the screen has been in step.           *)
LEMMA NoneEchoed ==
  ASSUME IndInv, NEW c, Getc(c), flags' = flags, ~ControlEchoed'
  PROVE  ~ControlEchoed /\ InStep /\ (Echo => EchoStar \/ c \notin Controls)
<1>1. /\ Len(taken) \in Nat /\ Len(taken') = Len(taken) + 1
      /\ \A n \in 1 .. Len(taken) : taken'[n] = taken[n]
      /\ taken'[Len(taken')] = c
  BY TakesKey
<1>2. /\ \A n \in 1 .. Len(taken) : n \in 1 .. Len(taken')
      /\ Len(taken') \in 1 .. Len(taken')
  BY <1>1
<1>3. CASE flags \cap {0, 1} = {0}
  <2>1. \A n \in 1 .. Len(taken') : taken'[n] \notin Controls
    BY <1>3 DEF ControlEchoed
  <2>2. ~ControlEchoed /\ c \notin Controls
    BY <1>1, <1>2, <2>1 DEF ControlEchoed
  <2> QED
    BY <2>2 DEF IndInv, ScreenInv, EchoInStep
<1>4. CASE flags \cap {0, 1} # {0}
  <2>1. ~ControlEchoed
    BY <1>4 DEF ControlEchoed
  <2>2. Echo => EchoStar
    BY <1>4 DEF Echo, EchoStar, BIOS_RL_ECHO, BIOS_RL_ECHO_STAR
  <2> QED
    BY <2>1, <2>2 DEF IndInv, ScreenInv, EchoInStep
<1> QED
  BY <1>3, <1>4

(* What the screen should show of r characters in b. *)
ScreenOf(b, r) ==
  [p \in Cells |-> IF p < START THEN Prompt[p + 1]
                   ELSE IF Echo /\ p < START + r THEN ShownFor(b[p - START]) ELSE BLANK]

LEMMA StoreKeeps ==
  ASSUME IndInv, UNCHANGED flags, NEW c \in Chars, Store(c)
  PROVE  IndInv'
<1>1. /\ Getc(c) /\ buf' = [buf EXCEPT ![read] = c] /\ read' = read + 1
      /\ IF Echo THEN Putc(Shown(c)) ELSE UNCHANGED display
      /\ UNCHANGED <<pc, result>>
  BY DEF Store
<1>2. /\ pc = "getc" /\ read \in 0 .. maxlen - 1 /\ taken' = Append(taken, c)
      /\ kbd' \in Seq(Keys) /\ taken' \in Seq(Keys) /\ accepted' = accepted
      /\ taken' \o kbd' = accepted' /\ Len(taken) \in Nat
      /\ \A n \in 1 .. Len(taken) : taken'[n] = taken[n]
      /\ taken'[Len(taken) + 1] = c
  BY <1>1, TakesKey
<1>3. /\ taken \in Seq(Keys) /\ accepted \in Seq(Keys) /\ torn \in BOOLEAN
      /\ buf \in [0 .. maxlen - 1 -> Chars \cup {UNSET}]
      /\ maxlen \in Nat
  BY Sizes DEF IndInv, TypeInv
<1>4. torn' \in BOOLEAN
  BY <1>1, <1>3 DEF Putc, display
<1>5. TypeInv'
  <2>1. buf' \in [0 .. maxlen - 1 -> Chars \cup {UNSET}]
    BY <1>1, <1>3
  <2>2. read' \in 0 .. maxlen
    BY <1>1, <1>2, <1>3
  <2> QED
    BY <1>1, <1>2, <1>3, <1>4, <2>1, <2>2 DEF TypeInv
<1>6. QueueInv'
  BY <1>1, <1>2 DEF QueueInv, NoKeyLost
<1>7. LineInv'
  <2>1. /\ Ranked(taken, read) /\ \A p \in Kept(taken) : buf[Rank(taken, p) - 1] = taken[p]
    BY DEF IndInv, LineInv
  <2>2. /\ Ranked(taken', read + 1) /\ Kept(taken') = Kept(taken) \cup {Len(taken) + 1}
        /\ Rank(taken', Len(taken) + 1) = read + 1
        /\ \A p \in Kept(taken) : Rank(taken', p) = Rank(taken, p)
    BY <1>2, <1>3, <2>1, CharRanked
  <2>3. \A p \in Kept(taken) : Rank(taken, p) \in 1 .. read /\ p \in 1 .. Len(taken)
    BY <1>3, <2>1, RankRange, KeptAre DEF Ranked
  <2>4. ASSUME NEW p \in Kept(taken)
        PROVE  buf'[Rank(taken', p) - 1] = taken'[p]
    <3> DEFINE n == Rank(taken, p)
    <3>1. n \in 1 .. read /\ taken'[p] = taken[p] /\ buf[n - 1] = taken[p] /\ Rank(taken', p) = n
      BY <1>2, <2>1, <2>2, <2>3
    <3> HIDE DEF n
    <3>2. n - 1 \in 0 .. maxlen - 1 /\ n - 1 # read
      BY <1>2, <1>3, <3>1
    <3>3. buf'[n - 1] = buf[n - 1]
      BY <1>1, <1>3, <3>2
    <3> QED
      BY <3>1, <3>3
  <2>5. buf'[Rank(taken', Len(taken) + 1) - 1] = c
    <3>1. (read + 1) - 1 = read /\ read \in 0 .. maxlen - 1
      BY <1>2, <1>3
    <3>2. buf'[read] = c
      BY <1>1, <1>3, <3>1
    <3> QED
      BY <2>2, <3>1, <3>2
  <2> QED
    BY <1>1, <1>2, <2>2, <2>4, <2>5 DEF LineInv
<1>8. EndInv'
  BY <1>1, <1>2, ConsoleAssumption, EndsNotYet
<1>9. ASSUME ~ControlEchoed'
      PROVE  ScreenInv'
  <2>0. ~ControlEchoed /\ InStep /\ (Echo => EchoStar \/ c \notin Controls)
    BY <1>1, <1>9, NoneEchoed
  <2>1. CASE torn
    <3>1. torn' = TRUE
      BY <1>1, <1>3, <2>1 DEF Putc, display
    <3> QED
      BY <1>1, <1>2, <2>0, <2>1, <3>1, OnceFull DEF ScreenInv, EchoInStep, InStep
  <2>2. CASE ~torn
    <3>1. /\ START \in Nat /\ Cells \subseteq Nat /\ START + read \in Cells
          /\ cursor = START + (IF Echo THEN read ELSE 0) /\ screen = ScreenOf(buf, read)
      <4>1. cursor = START + (IF Echo THEN read ELSE 0) /\ screen = ScreenOf(buf, read)
        BY <1>2, <2>0, <2>2 DEF InStep, ScreenOf
      <4>2. read \in 0 .. maxlen
        BY <1>2, <1>3
      <4> QED
        BY <4>1, <4>2, Sizes
    <3>5. Echo => Shown(c) \notin Controls
      BY <2>0 DEF Shown, Controls, BEL, LF
    <3>2. torn' = torn /\ cursor' = START + (IF Echo THEN read' ELSE 0)
      <4>1. CASE Echo
        <5>1. torn' = torn /\ cursor' = cursor + 1
          BY <1>1, <2>2, <3>5, <4>1 DEF Putc, Controls
        <5> QED
          BY <1>1, <1>2, <3>1, <4>1, <5>1
      <4>2. CASE ~Echo
        BY <1>1, <3>1, <4>2 DEF display
      <4> QED
        BY <4>1, <4>2
    <3>3. screen' = ScreenOf(buf', read')
      <4>1. CASE Echo
        <5>1. screen' = [screen EXCEPT ![START + read] = Shown(c)]
          BY <1>1, <2>2, <3>1, <3>5, <4>1 DEF Putc
        <5>2. Shown(c) = ShownFor(c)
          BY DEF Shown, ShownFor, EchoStar, BIOS_RL_ECHO_STAR
        <5>3. \A p \in Cells : screen[p] =
                IF p < START THEN Prompt[p + 1]
                ELSE IF p < START + read THEN ShownFor(buf[p - START]) ELSE BLANK
          BY <3>1, <4>1 DEF ScreenOf
        <5>4. /\ \A i \in 0 .. maxlen - 1 : i # read => buf'[i] = buf[i]
              /\ buf'[read] = c
          BY <1>1, <1>2, <1>3
        <5>5. ASSUME NEW p \in Cells
              PROVE  screen'[p] = IF p < START THEN Prompt[p + 1]
                                  ELSE IF p < START + read' THEN ShownFor(buf'[p - START])
                                  ELSE BLANK
          <6>1. p \in Int /\ p \in DOMAIN screen
            BY <3>1 DEF ScreenOf
          <6>2. CASE p = START + read
            <7>1. p - START = read /\ ~(p < START) /\ p < START + read'
              BY <1>1, <1>2, <3>1, <6>2
            <7> QED
              BY <5>1, <5>2, <5>4, <6>1, <6>2, <7>1
          <6>3. CASE p # START + read
            <7>1. screen'[p] = screen[p] /\ (p < START + read' <=> p < START + read)
              <8>1. screen'[p] = screen[p]
                BY <5>1, <6>1, <6>3
              <8>2. read \in Int /\ START \in Int /\ read' = read + 1 /\ p \in Int
                BY <1>1, <1>2, <3>1, <6>1
              <8> QED
                BY <6>3, <8>1, <8>2
            <7>2. CASE p < START
              BY <5>3, <7>1, <7>2
            <7>3. CASE ~(p < START) /\ p < START + read
              <8>1. p - START \in 0 .. maxlen - 1 /\ p - START # read
                BY <1>2, <1>3, <3>1, <6>1, <7>3
              <8> QED
                BY <5>3, <5>4, <7>1, <7>3, <8>1
            <7>4. CASE ~(p < START) /\ ~(p < START + read)
              BY <5>3, <7>1, <7>4
            <7> QED
              BY <7>2, <7>3, <7>4
          <6> QED
            BY <6>2, <6>3
        <5>6. screen' = [p \in Cells |-> screen'[p]]
          BY <3>1, <5>1 DEF ScreenOf
        <5> QED
          BY <4>1, <5>5, <5>6 DEF ScreenOf
      <4>2. CASE ~Echo
        <5>1. screen' = screen
          BY <1>1, <4>2 DEF display
        <5> QED
          BY <3>1, <4>2, <5>1 DEF ScreenOf
      <4> QED
        BY <4>1, <4>2
    <3>4. screen' = ScreenOf(buf, read)' /\ (Echo' <=> Echo)
      BY <3>3 DEF ScreenOf, Echo, ShownFor
    <3> QED
      BY <1>1, <1>2, <2>2, <3>2, <3>4 DEF ScreenInv, EchoInStep, InStep, ScreenOf
  <2> QED
    BY <2>1, <2>2
<1>10. ScreenInv'
  BY <1>1, <1>2, <1>9 DEF ScreenInv, EchoInStep
<1> QED
  BY <1>5, <1>6, <1>7, <1>8, <1>10 DEF IndInv

LEMMA BackspaceKeeps ==
  ASSUME IndInv, UNCHANGED flags, Backspace
  PROVE  IndInv'
<1>1. /\ Getc(BS) /\ UNCHANGED <<pc, buf, result>>
      /\ IF read > 0 THEN Back ELSE UNCHANGED <<read, display>>
  BY DEF Backspace, BackspaceBy
<1>2. /\ pc = "getc" /\ read \in 0 .. maxlen - 1 /\ taken' = Append(taken, BS)
      /\ kbd' \in Seq(Keys) /\ taken' \in Seq(Keys) /\ accepted' = accepted
      /\ taken' \o kbd' = accepted' /\ Len(taken) \in Nat
      /\ \A n \in 1 .. Len(taken) : taken'[n] = taken[n]
  BY <1>1, TakesKey
<1>3. /\ taken \in Seq(Keys) /\ torn \in BOOLEAN /\ maxlen \in Nat
      /\ buf \in [0 .. maxlen - 1 -> Chars \cup {UNSET}]
  BY Sizes DEF IndInv, TypeInv
<1>4. read' = IF read > 0 THEN read - 1 ELSE 0
  BY <1>1, <1>2 DEF Back
<1>5. torn' \in BOOLEAN
  BY <1>1, <1>3 DEF Back, Unputc, display
<1>6. TypeInv'
  <2>1. read' \in 0 .. maxlen
    BY <1>2, <1>3, <1>4
  <2> QED
    BY <1>1, <1>2, <1>3, <1>5, <2>1 DEF IndInv, TypeInv
<1>7. QueueInv'
  BY <1>1, <1>2 DEF QueueInv, NoKeyLost
<1>8. LineInv'
  <2>1. /\ Ranked(taken, read) /\ \A p \in Kept(taken) : buf[Rank(taken, p) - 1] = taken[p]
    BY DEF IndInv, LineInv
  <2>2. read \in Nat
    BY <1>2, <1>3
  <2>3. /\ Ranked(taken', read') /\ Kept(taken') \subseteq Kept(taken)
        /\ \A p \in Kept(taken') : Rank(taken', p) = Rank(taken, p)
    BY <1>2, <1>3, <1>4, <2>1, <2>2, BackRanked
  <2>4. \A p \in Kept(taken) : p \in 1 .. Len(taken)
    BY <1>3, KeptAre
  <2> QED
    BY <1>1, <1>2, <2>1, <2>3, <2>4 DEF LineInv
<1>9. EndInv'
  <2>1. read' # maxlen /\ BS # CR /\ BS # ESC
    BY <1>2, <1>3, <1>4 DEF BS, CR, ESC
  <2> QED
    BY <1>1, <1>2, <2>1, EndsNotYet
<1>10. ASSUME ~ControlEchoed'
      PROVE  ScreenInv'
  <2>0. ~ControlEchoed /\ InStep
    BY <1>1, <1>10, NoneEchoed
  <2>1. START \in Nat /\ COLUMNS \in Nat /\ COLUMNS # 0 /\ START < COLUMNS
        /\ Cells \subseteq Nat
    BY Sizes
  <2>2. CASE torn
    <3>1. torn' = TRUE
      BY <1>1, <1>3, <2>2 DEF Back, Unputc, display
    <3> QED
      BY <1>1, <1>2, <2>0, <2>2, <3>1, OnceFull DEF ScreenInv, EchoInStep, InStep
  <2>3. CASE ~torn /\ torn'
    <3>1. Echo /\ read > 0 /\ cursor % COLUMNS = 0
      BY <1>1, <2>3 DEF Back, Unputc, display
    <3>2. cursor = START + read
      BY <1>2, <2>0, <2>3, <3>1 DEF InStep
    <3>3. read >= COLUMNS - START
      <4>1. read \in Nat /\ (START + read) % COLUMNS = 0
        BY <1>2, <1>3, <3>1, <3>2
      <4>2. \A m \in Nat : m < COLUMNS => m % COLUMNS = m
        BY <2>1
      <4> QED
        BY <2>1, <3>1, <4>1, <4>2
    <3> QED
      BY <1>1, <1>2, <2>0, <2>3, <3>1, <3>3, OnceFull DEF ScreenInv, EchoInStep, InStep
  <2>4. CASE ~torn /\ ~torn'
    <3>1. cursor = START + (IF Echo THEN read ELSE 0) /\ screen = ScreenOf(buf, read)
      BY <1>2, <2>0, <2>4 DEF InStep, ScreenOf
    <3>2. cursor' = START + (IF Echo THEN read' ELSE 0) /\ screen' = ScreenOf(buf, read')
      <4>1. CASE Echo /\ read > 0
        <5>1. /\ cursor = START + read /\ cursor' = cursor - 1
              /\ screen' = [screen EXCEPT ![cursor - 1] = BLANK] /\ read' = read - 1
          BY <1>1, <2>4, <3>1, <4>1 DEF Back, Unputc
        <5>2. cursor' = START + read' /\ cursor - 1 = START + read' /\ read' \in Nat
              /\ read = read' + 1
          BY <1>2, <1>3, <2>1, <4>1, <5>1
        <5>3. \A p \in Cells : screen[p] =
                IF p < START THEN Prompt[p + 1]
                ELSE IF p < START + read THEN ShownFor(buf[p - START]) ELSE BLANK
          BY <3>1, <4>1 DEF ScreenOf
        <5>4. ASSUME NEW p \in Cells
              PROVE  screen'[p] = IF p < START THEN Prompt[p + 1]
                                  ELSE IF p < START + read' THEN ShownFor(buf[p - START])
                                  ELSE BLANK
          <6>1. p \in Int /\ p \in DOMAIN screen
            BY <2>1, <3>1 DEF ScreenOf
          <6>2. CASE p = START + read'
            BY <2>1, <5>1, <5>2, <6>1, <6>2
          <6>3. CASE p # START + read'
            <7>1. screen'[p] = screen[p]
              BY <5>1, <5>2, <6>1, <6>3
            <7>2. p < START + read' <=> p < START + read
              <8> DEFINE last == START + read'
              <8>0. START \in Int /\ read' \in Int
                BY <2>1, <5>2
              <8>1. last \in Int
                BY <8>0
              <8>3. START + read = last + 1
                BY <5>2, <8>0
              <8>4. p # last /\ p \in Int
                BY <6>1, <6>3
              <8> HIDE DEF last
              <8>2. p < last <=> p < last + 1
                BY <8>1, <8>4
              <8> QED
                BY <8>2, <8>3 DEF last
            <7> QED
              BY <5>3, <7>1, <7>2
          <6> QED
            BY <6>2, <6>3
        <5>5. screen' = [p \in Cells |-> screen'[p]]
          BY <3>1, <5>1 DEF ScreenOf
        <5> QED
          BY <4>1, <5>2, <5>4, <5>5 DEF ScreenOf
      <4>2. CASE ~(Echo /\ read > 0)
        <5>1. cursor' = cursor /\ screen' = screen /\ (Echo => read' = read)
          BY <1>1, <1>2, <1>4, <4>2 DEF Back, display
        <5> QED
          BY <3>1, <5>1 DEF ScreenOf
      <4> QED
        BY <4>1, <4>2
    <3>3. screen' = ScreenOf(buf, read)' /\ (Echo' <=> Echo)
      BY <1>1, <3>2 DEF ScreenOf, Echo, ShownFor
    <3> QED
      BY <1>1, <1>2, <2>4, <3>2, <3>3 DEF ScreenInv, EchoInStep, InStep, ScreenOf
  <2> QED
    BY <2>2, <2>3, <2>4
<1>11. ScreenInv'
  BY <1>1, <1>2, <1>10 DEF ScreenInv, EchoInStep
<1> QED
  BY <1>6, <1>7, <1>8, <1>9, <1>11 DEF IndInv

(* RETURN ends the line and ESC gives it up, if it may; an ESC that may    *)
(* not is only taken.                                                      *)
LEMMA EndKeyKeeps ==
  ASSUME IndInv, UNCHANGED flags, Return \/ Escape
  PROVE  IndInv'
<1>1. PICK k \in {CR, ESC} :
        /\ Getc(k) /\ UNCHANGED <<line, display>>
        /\ \/ k = CR /\ pc' = "done" /\ result' = read
           \/ k = ESC /\ CanEsc /\ pc' = "done" /\ result' = -1
           \/ k = ESC /\ ~CanEsc /\ pc' = pc
  BY DEF Return, ReturnTo, Escape, EscapeIf
<1>2. /\ pc = "getc" /\ read \in 0 .. maxlen - 1 /\ taken' = Append(taken, k)
      /\ kbd' \in Seq(Keys) /\ taken' \in Seq(Keys) /\ accepted' = accepted
      /\ taken' \o kbd' = accepted' /\ Len(taken) \in Nat /\ Len(taken') = Len(taken) + 1
      /\ \A n \in 1 .. Len(taken) : taken'[n] = taken[n] /\ ~Ends(n)'
      /\ taken'[Len(taken')] = k
  BY <1>1, TakesKey
<1>3. UNCHANGED <<buf, read, cursor, screen, torn>> /\ pc' \in {"getc", "done"}
  BY <1>1, <1>2 DEF line, display
<1>4. /\ taken \in Seq(Keys) /\ maxlen \in Nat
  BY Sizes DEF IndInv, TypeInv
<1>5. TypeInv'
  BY <1>2, <1>3 DEF IndInv, TypeInv
<1>6. QueueInv'
  BY <1>2, <1>3 DEF QueueInv, NoKeyLost
<1>7. LineInv'
  <2>1. /\ Ranked(taken, read) /\ \A p \in Kept(taken) : buf[Rank(taken, p) - 1] = taken[p]
    BY DEF IndInv, LineInv
  <2>2. read \in Nat
    BY <1>2, <1>4
  <2>3. /\ Ranked(taken', read) /\ Kept(taken') = Kept(taken)
        /\ \A p \in Kept(taken) : Rank(taken', p) = Rank(taken, p)
    BY <1>2, <1>4, <2>1, <2>2, OtherRanked
  <2>4. \A p \in Kept(taken) : p \in 1 .. Len(taken)
    BY <1>4, KeptAre
  <2> QED
    BY <1>2, <1>3, <2>1, <2>3, <2>4 DEF LineInv
<1>8. EndInv'
  <2>1. CASE k = ESC /\ ~CanEsc /\ pc' = pc
    <3>1. read' # maxlen /\ k # CR
      BY <1>2, <1>3, <1>4, <2>1 DEF CR, ESC
    <3> QED
      BY <1>1, <1>2, <2>1, <3>1, EndsNotYet
  <2>2. CASE /\ pc' = "done"
             /\ k = CR \/ CanEsc
             /\ result' = IF k = ESC THEN -1 ELSE read
    <3>1. Len(Line)' = read
      BY <1>3, LineLength DEF IndInv, Line
    <3>2. Ends(Len(taken))'
      BY <1>1, <1>2, <2>2 DEF Ends, CanEsc
    <3>3. \A n \in 1 .. Len(taken') - 1 : ~Ends(n)'
      BY <1>2
    <3>4. result' = IF taken'[Len(taken')] = ESC THEN -1 ELSE Len(Line)'
      BY <1>2, <2>2, <3>1
    <3> QED
      BY <2>2, <3>2, <3>3, <3>4 DEF EndInv, EndsOnce
  <2> QED
    BY <1>1, <2>1, <2>2 DEF CR, ESC
<1>9. ASSUME ~ControlEchoed'
      PROVE  ScreenInv'
  <2>0. ~ControlEchoed /\ InStep
    BY <1>1, <1>9, NoneEchoed
  <2>1. CASE torn
    BY <1>1, <1>2, <1>3, <2>0, <2>1, OnceFull DEF ScreenInv, EchoInStep, InStep
  <2>2. CASE ~torn
    <3>1. cursor = START + (IF Echo THEN read ELSE 0) /\ screen = ScreenOf(buf, read)
      BY <1>2, <2>0, <2>2 DEF InStep, ScreenOf
    <3>2. screen' = ScreenOf(buf, read)' /\ (Echo' <=> Echo)
      BY <1>3, <3>1 DEF ScreenOf, Echo, ShownFor
    <3> QED
      BY <1>2, <1>3, <2>2, <3>1, <3>2 DEF ScreenInv, EchoInStep, InStep, ScreenOf
  <2> QED
    BY <2>1, <2>2
<1>10. ScreenInv'
  BY <1>2, <1>3, <1>9 DEF ScreenInv, EchoInStep
<1> QED
  BY <1>5, <1>6, <1>7, <1>8, <1>10 DEF IndInv

LEMMA StutterKeeps ==
  ASSUME IndInv, UNCHANGED vars
  PROVE  IndInv'
<1>1. /\ UNCHANGED <<flags, kbd, typed, accepted, pc, result, taken, line, display>>
      /\ UNCHANGED <<buf, read, torn>>
  BY DEF vars, keyboard, line, display
<1>2. TypeInv' /\ QueueInv'
  BY <1>1 DEF IndInv, TypeInv, QueueInv, NoKeyLost
<1> QED
  BY <1>1, <1>2, SameLine, SameEnd, SameEcho DEF IndInv

(* The invariant holds throughout. *)
THEOREM Invariance == Spec => []IndInv
<1>1. Init => IndInv
  BY Initially
<1>2. IndInv /\ [Next]_vars => IndInv'
  <2> SUFFICES ASSUME IndInv, [Next]_vars
               PROVE  IndInv'
    OBVIOUS
  <2>1. CASE \E k \in Keys : KeyPressed(k)
    BY <2>1, KeyPressedKeeps
  <2>2. CASE UNCHANGED flags /\ (PrintChar \/ PrintEnd \/ PeekKey \/ DropKey \/ PeekNone)
    BY <2>2, BeforeKeeps
  <2>3. CASE UNCHANGED flags /\ Backspace
    BY <2>3, BackspaceKeeps
  <2>4. CASE UNCHANGED flags /\ (Return \/ Escape)
    BY <2>4, EndKeyKeeps
  <2>5. CASE UNCHANGED flags /\ \E c \in Chars : Store(c)
    BY <2>5, StoreKeeps
  <2>6. CASE UNCHANGED flags /\ Full
    BY <2>6, FullKeeps
  <2>7. CASE UNCHANGED vars
    BY <2>7, StutterKeeps
  <2> QED
    BY <2>1, <2>2, <2>3, <2>4, <2>5, <2>6, <2>7 DEF Next, LoaderStep
<1> QED
  BY <1>1, <1>2, PTL DEF Spec

(* bios_read_line's pointer and count, moved together over a buffer that   *)
(* is never cleared, hold exactly the characters that the backspaces leave *)
(* of the keys taken, whatever the keys and however long the line.         *)
THEOREM LineIsRight == Spec => []LineIsWhatSurvives
<1>1. IndInv => LineIsWhatSurvives
  BY LineSurvives DEF IndInv
<1> QED
  BY <1>1, Invariance, PTL

(* The line ends at the first key that ends it, and the result is what     *)
(* that key calls for.                                                     *)
THEOREM LineEndsOnce == Spec => []EndsOnce
<1>1. IndInv => EndsOnce
  <2> SUFFICES ASSUME IndInv PROVE EndsOnce
    OBVIOUS
  <2>1. CASE pc = "done"
    BY <2>1 DEF IndInv, EndInv
  <2>2. CASE pc # "done"
    BY <2>2 DEF IndInv, EndInv, EndsOnce
  <2> QED
    BY <2>1, <2>2
<1> QED
  BY <1>1, Invariance, PTL

(* Between the drain and the line no key is lost, repeated or reordered,   *)
(* whenever the interrupt comes.                                           *)
THEOREM KeysAreKept == Spec => []NoKeyLost
<1>1. IndInv => NoKeyLost
  BY DEF IndInv, QueueInv
<1> QED
  BY <1>1, Invariance, PTL

(* The screen follows the line, until a backspace meets the first column   *)
(* of a row that the line had once filled: with stars whatever is typed,   *)
(* and with plain echo while no control character is.                      *)
THEOREM EchoFollows == Spec => []EchoInStep
<1>1. IndInv => EchoInStep
  BY DEF IndInv, ScreenInv
<1> QED
  BY <1>1, Invariance, PTL
=============================================================================
