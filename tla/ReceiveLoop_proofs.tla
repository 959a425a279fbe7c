-------------------------- MODULE ReceiveLoop_proofs --------------------------
(***************************************************************************)
(* Proofs about ReceiveLoop, for files of any length, tables of any size   *)
(* and sessions of every kind: blocks_left counts, no missing block is lost*)
(* track of unless the table is full, only missing blocks are asked for, a *)
(* restart skips nothing, and a transfer that is over has what it should.  *)
(*                                                                         *)
(* The first part is about sequences: what is left of a table when some of *)
(* its blocks are taken out.  Then come the functions a turn is composed   *)
(* of, each with what it keeps of the invariant on xfer; then the turn; and*)
(* last the inductive invariant and the theorems.                          *)
(***************************************************************************)
EXTENDS ReceiveLoop, FiniteSetTheorems, SequenceTheorems, WellFoundedInduction, TLAPS

-------------------------------------------------------------------------------
(* A set of natural numbers has a least one.                               *)
LEMMA LeastNumber ==
    ASSUME NEW S, S \subseteq Nat, S # {}
    PROVE  \E n \in S : \A m \in S : n <= m
<1> DEFINE Less == OpToRel(<, Nat)
<1>1. IsWellFoundedOn(Less, Nat)
  BY NatLessThanWellFounded
<1>2. \A m, n \in Nat : m < n => <<m, n>> \in Less
  <2> SUFFICES ASSUME NEW m \in Nat, NEW n \in Nat, m < n PROVE <<m, n>> \in Less
    OBVIOUS
  <2>1. <<m, n>> \in Nat \X Nat /\ <<m, n>>[1] = m /\ <<m, n>>[2] = n
    OBVIOUS
  <2> QED
    BY <2>1, Zenon DEF OpToRel
<1> HIDE DEF Less
<1>3. PICK n \in S : \A m \in S : ~ (<<m, n>> \in Less)
  BY <1>1, WFMin
<1>4. ASSUME NEW m \in S PROVE n <= m
  <2>1. m \in Nat /\ n \in Nat
    OBVIOUS
  <2>2. ~ (m < n)
    BY <1>2, <1>3, <2>1, Zenon
  <2> QED
    BY <2>1, <2>2
<1> QED
  BY <1>4

(* Keep.  It is defined by recursion over the sequence; induction is by the*)
(* least number for which the claim would be false.                        *)

IsKept(f, seq, set, n) ==
    f = [i \in 0 .. n |->
            IF i = 0 THEN <<>>
            ELSE IF seq[i] \in set THEN Append(f[i-1], seq[i]) ELSE f[i-1]]

LEMMA KeptAt ==
    ASSUME NEW f, NEW seq, NEW set, NEW n \in Nat, IsKept(f, seq, set, n), NEW i \in 0 .. n
    PROVE  f[i] = IF i = 0 THEN <<>>
                  ELSE IF seq[i] \in set THEN Append(f[i-1], seq[i]) ELSE f[i-1]
BY DEF IsKept

(* The recursive function in Keep's definition exists.                     *)
LEMMA KeptExists ==
    ASSUME NEW seq, NEW set, NEW n \in Nat
    PROVE  \E f : IsKept(f, seq, set, n)
<1> DEFINE Without == {k \in Nat : ~ \E f : IsKept(f, seq, set, k)}
<1>1. SUFFICES ASSUME Without # {} PROVE FALSE
  OBVIOUS
<1>2. PICK k \in Without : \A m \in Without : k <= m
  <2>1. Without \subseteq Nat
    OBVIOUS
  <2> HIDE DEF Without
  <2> QED
    BY <1>1, <2>1, LeastNumber
<1>3. k # 0
  <2>1. IsKept([i \in 0 .. 0 |-> <<>>], seq, set, 0)
    BY DEF IsKept
  <2> QED
    BY <2>1
<1>4. PICK f : IsKept(f, seq, set, k - 1)
  <2>1. k - 1 \in Nat /\ ~ (k <= k - 1)
    BY <1>3
  <2> QED
    BY <1>2, <2>1
<1> DEFINE Step == IF seq[k] \in set THEN Append(f[k-1], seq[k]) ELSE f[k-1]
           g == [i \in 0 .. k |-> IF i = k THEN Step ELSE f[i]]
<1>5. \A i \in 0 .. k-1 : g[i] = f[i]
  OBVIOUS
<1>6. \A i \in 0 .. k-1 : f[i] = IF i = 0 THEN <<>>
          ELSE IF seq[i] \in set THEN Append(f[i-1], seq[i]) ELSE f[i-1]
  <2>1. k - 1 \in Nat
    BY <1>3
  <2> QED
    BY <1>4, <2>1, KeptAt
<1>7. g[k] = IF k = 0 THEN <<>>
          ELSE IF seq[k] \in set THEN Append(g[k-1], seq[k]) ELSE g[k-1]
  BY <1>3, <1>5
<1>8. \A i \in 0 .. k : g[i] = IF i = 0 THEN <<>>
          ELSE IF seq[i] \in set THEN Append(g[i-1], seq[i]) ELSE g[i-1]
  <2> SUFFICES ASSUME NEW i \in 0 .. k
               PROVE  g[i] = IF i = 0 THEN <<>>
                   ELSE IF seq[i] \in set THEN Append(g[i-1], seq[i]) ELSE g[i-1]
    OBVIOUS
  <2>1. CASE i = k
    BY <2>1, <1>7
  <2>2. CASE i # k
    <3>1. i \in 0 .. k-1 /\ (i # 0 => i - 1 \in 0 .. k-1)
      BY <2>2
    <3>2. g[i] = f[i] /\ (i # 0 => g[i-1] = f[i-1])
      BY <3>1, <1>5
    <3> HIDE DEF g
    <3> QED
      BY <3>1, <3>2, <1>6
  <2> QED
    BY <2>1, <2>2
<1>9. IsKept(g, seq, set, k)
  <2>1. g = [i \in 0 .. k |-> g[i]]
    OBVIOUS
  <2> HIDE DEF g
  <2> QED
    BY <2>1, <1>8 DEF IsKept
<1> QED
  BY <1>9

(* What Keep has gathered after n of the sequence's entries: blocks of the *)
(* set, no more than n, and each kept one no later than it was.            *)
GatheredRight(f, seq, S, set, n) ==
    /\ f[n] \in Seq(S) /\ Len(f[n]) <= n
    /\ \A j \in 1 .. Len(f[n]) : f[n][j] \in set
    /\ \A i \in 1 .. n : seq[i] \in set =>
          \E j \in 1 .. Len(f[n]) : j <= i /\ f[n][j] = seq[i]

LEMMA GatheredNext ==
    ASSUME NEW S, NEW seq \in Seq(S), NEW set, NEW f, NEW k \in 1 .. Len(seq),
           f[k] = (IF seq[k] \in set THEN Append(f[k-1], seq[k]) ELSE f[k-1]),
           GatheredRight(f, seq, S, set, k - 1)
    PROVE  GatheredRight(f, seq, S, set, k)
<1>1. Len(seq) \in Nat /\ seq[k] \in S
  BY LenProperties
<1>2. f[k-1] \in Seq(S) /\ Len(f[k-1]) \in Nat /\ Len(f[k-1]) <= k - 1
  BY LenProperties DEF GatheredRight
<1>3. CASE seq[k] \notin set
  <2>1. f[k] = f[k-1]
    BY <1>3
  <2> QED
    BY <2>1, <1>1, <1>2, <1>3 DEF GatheredRight
<1>4. CASE seq[k] \in set
  <2>1. f[k] = Append(f[k-1], seq[k])
    BY <1>4
  <2>2. /\ f[k] \in Seq(S) /\ Len(f[k]) = Len(f[k-1]) + 1
        /\ \A i \in 1 .. Len(f[k-1]) : f[k][i] = f[k-1][i]
        /\ f[k][Len(f[k-1]) + 1] = seq[k]
    BY <2>1, <1>1, <1>2, AppendProperties
  <2>3. Len(f[k]) <= k
    BY <2>2, <1>2
  <2>4. \A j \in 1 .. Len(f[k]) : f[k][j] \in set
    <3> SUFFICES ASSUME NEW j \in 1 .. Len(f[k]) PROVE f[k][j] \in set
      OBVIOUS
    <3>1. j \in 1 .. Len(f[k-1]) \/ j = Len(f[k-1]) + 1
      BY <2>2, <1>2
    <3> QED
      BY <3>1, <2>2, <1>4 DEF GatheredRight
  <2>5. ASSUME NEW i \in 1 .. k, seq[i] \in set
        PROVE  \E j \in 1 .. Len(f[k]) : j <= i /\ f[k][j] = seq[i]
    <3>1. CASE i = k
      <4>1. Len(f[k-1]) + 1 \in 1 .. Len(f[k]) /\ Len(f[k-1]) + 1 <= k
        BY <2>2, <1>2
      <4> QED
        BY <4>1, <3>1, <2>2
    <3>2. CASE i # k
      <4>1. PICK j \in 1 .. Len(f[k-1]) : j <= i /\ f[k-1][j] = seq[i]
        BY <3>2, <2>5 DEF GatheredRight
      <4>2. j \in 1 .. Len(f[k])
        BY <4>1, <2>2, <1>2
      <4> QED
        BY <4>1, <4>2, <2>2
    <3> QED
      BY <3>1, <3>2
  <2> QED
    BY <2>2, <2>3, <2>4, <2>5 DEF GatheredRight
<1> QED
  BY <1>3, <1>4

(* Keep leaves blocks of the set only, no more than there were, and each   *)
(* block of the set that was there, no later than it was.                  *)
LEMMA KeepFacts ==
    ASSUME NEW S, NEW seq \in Seq(S), NEW set
    PROVE  LET kept == Keep(seq, set)
           IN  /\ kept \in Seq(S) /\ Len(kept) <= Len(seq)
               /\ \A j \in 1 .. Len(kept) : kept[j] \in set
               /\ \A i \in 1 .. Len(seq) : seq[i] \in set =>
                     \E j \in 1 .. Len(kept) : j <= i /\ kept[j] = seq[i]
<1>1. Len(seq) \in Nat
  BY LenProperties
<1>2. PICK f : IsKept(f, seq, set, Len(seq)) /\ Keep(seq, set) = f[Len(seq)]
  <2> DEFINE f == CHOOSE f : IsKept(f, seq, set, Len(seq))
  <2>1. IsKept(f, seq, set, Len(seq))
    BY <1>1, KeptExists
  <2>2. Keep(seq, set) = f[Len(seq)]
    BY DEF Keep, IsKept
  <2> QED
    BY <2>1, <2>2
<1> DEFINE Wrong == {n \in Nat : n <= Len(seq) /\ ~ GatheredRight(f, seq, S, set, n)}
<1>3. Wrong = {}
  <2>1. SUFFICES ASSUME Wrong # {} PROVE FALSE
    OBVIOUS
  <2>2. PICK k \in Wrong : \A m \in Wrong : k <= m
    <3>1. Wrong \subseteq Nat
      OBVIOUS
    <3> HIDE DEF Wrong
    <3> QED
      BY <2>1, <3>1, LeastNumber
  <2>3. f[0] = <<>>
    BY <1>1, <1>2 DEF IsKept
  <2>4. GatheredRight(f, seq, S, set, 0)
    BY <2>3, EmptySeq DEF GatheredRight
  <2>5. k \in 1 .. Len(seq) /\ k - 1 \in Nat /\ k - 1 <= Len(seq) /\ ~ (k <= k - 1)
    BY <2>2, <2>4, <1>1
  <2>6. GatheredRight(f, seq, S, set, k - 1)
    BY <2>2, <2>5
  <2>7. f[k] = IF seq[k] \in set THEN Append(f[k-1], seq[k]) ELSE f[k-1]
    BY <1>1, <1>2, <2>5, KeptAt
  <2>8. GatheredRight(f, seq, S, set, k)
    BY <2>5, <2>6, <2>7, GatheredNext
  <2> QED
    BY <2>2, <2>8
<1>4. GatheredRight(f, seq, S, set, Len(seq))
  BY <1>1, <1>3
<1> QED
  BY <1>2, <1>4 DEF GatheredRight

(* A sequence is one over any set that holds its entries.                  *)
LEMMA SeqOver ==
    ASSUME NEW S, NEW seq \in Seq(S), NEW T, \A i \in 1 .. Len(seq) : seq[i] \in T
    PROVE  seq \in Seq(T)
<1>1. Len(seq) \in Nat /\ seq \in [1 .. Len(seq) -> S]
  BY LenProperties
<1>2. seq \in [1 .. Len(seq) -> T]
  BY <1>1
<1> QED
  BY <1>1, <1>2

(* The entries of a sequence, by their places.                             *)
LEMMA EntriesAre ==
    ASSUME NEW S, NEW seq \in Seq(S)
    PROVE  \A e : e \in Entries(seq) <=> \E i \in 1 .. Len(seq) : e = seq[i]
BY LenProperties DEF Entries

(* The entries of a concatenation.                                         *)
LEMMA EntriesOfConcat ==
    ASSUME NEW S, NEW s \in Seq(S), NEW t \in Seq(S)
    PROVE  \A e : e \in Entries(s \o t) <=> e \in Entries(s) \/ e \in Entries(t)
<1>1. /\ s \o t \in Seq(S) /\ Len(s \o t) = Len(s) + Len(t)
      /\ \A i \in 1 .. Len(s) + Len(t) :
            (s \o t)[i] = IF i <= Len(s) THEN s[i] ELSE t[i - Len(s)]
  BY ConcatProperties
<1>2. Len(s) \in Nat /\ Len(t) \in Nat
  BY LenProperties
<1>3. ASSUME NEW e, e \in Entries(s \o t) PROVE e \in Entries(s) \/ e \in Entries(t)
  <2>1. PICK i \in 1 .. Len(s) + Len(t) : e = (s \o t)[i]
    <3>1. \A seq \in Seq(S) : e \in Entries(seq) => \E i \in 1 .. Len(seq) : e = seq[i]
      BY EntriesAre
    <3>2. \E i \in 1 .. Len(s \o t) : e = (s \o t)[i]
      BY <1>1, <1>3, <3>1, Zenon
    <3> QED
      BY <3>2, <1>1
  <2>2. CASE i <= Len(s)
    BY <2>1, <2>2, <1>1, <1>2, EntriesAre
  <2>3. CASE ~ (i <= Len(s))
    <3>1. i - Len(s) \in 1 .. Len(t) /\ e = t[i - Len(s)]
      BY <2>1, <2>3, <1>1, <1>2
    <3> QED
      BY <3>1, EntriesAre
  <2> QED
    BY <2>2, <2>3
<1>4. ASSUME NEW e, e \in Entries(s) PROVE e \in Entries(s \o t)
  <2>1. PICK i \in 1 .. Len(s) : e = s[i]
    BY <1>4, EntriesAre
  <2>2. i \in 1 .. Len(s) + Len(t) /\ e = (s \o t)[i]
    BY <2>1, <1>1, <1>2
  <2> QED
    BY <2>2, <1>1, EntriesAre
<1>5. ASSUME NEW e, e \in Entries(t) PROVE e \in Entries(s \o t)
  <2>1. PICK i \in 1 .. Len(t) : e = t[i]
    BY <1>5, EntriesAre
  <2>2. i + Len(s) \in 1 .. Len(s) + Len(t) /\ ~ (i + Len(s) <= Len(s))
        /\ (i + Len(s)) - Len(s) = i
    BY <1>2
  <2>3. e = (s \o t)[i + Len(s)]
    BY <2>1, <2>2, <1>1
  <2> QED
    BY <2>2, <2>3, <1>1, EntriesAre
<1> QED
  BY <1>3, <1>4, <1>5

(* The blocks lo .. hi-1 are what From lists.                              *)
LEMMA FromFacts ==
    ASSUME NEW lo \in Nat, NEW hi \in Nat
    PROVE  /\ From(lo, hi) \in Seq(Nat)
           /\ \A b \in lo .. hi-1 : \E i \in 1 .. Len(From(lo, hi)) : From(lo, hi)[i] = b
<1> DEFINE n == IF lo < hi THEN hi - lo ELSE 0
<1>1. n \in Nat
  OBVIOUS
<1>2. From(lo, hi) = [i \in 1 .. n |-> lo + i - 1]
  BY DEF From
<1> HIDE DEF n
<1>3. \A i \in 1 .. n : lo + i - 1 \in Nat
  BY <1>1
<1>4. From(lo, hi) \in Seq(Nat) /\ Len(From(lo, hi)) = n
  BY <1>1, <1>2, <1>3
<1>5. ASSUME NEW b \in lo .. hi-1
      PROVE  \E i \in 1 .. Len(From(lo, hi)) : From(lo, hi)[i] = b
  <2>1. b - lo + 1 \in 1 .. n
    BY DEF n
  <2>2. From(lo, hi)[b - lo + 1] = b
    BY <2>1, <1>2
  <2> QED
    BY <2>1, <2>2, <1>4
<1> QED
  BY <1>4, <1>5

-------------------------------------------------------------------------------
(* What the functions on xfer keep.                                        *)

Lacking(x) == Block \ x.received

(* blocks_left is the number of blocks the bitmap lacks, unless a blank    *)
(* buffer has been counted.                                                *)
Counted(x) == 0 \notin x.received => x.blocks_left = Cardinality(Lacking(x))

(* In a lossless session the blocks to gapless_to_block are there.         *)
Prefixed(x) == session.lossless => 1 .. x.gapless_to_block \subseteq x.received

(* Missing blocks between gapless_to_block and n are in the table.         *)
TrackedBelow(x, n) ==
    ~ x.dropped => \A b \in Lacking(x) :
                      x.gapless_to_block < b /\ b < n => b \in Entries(x.table)

Good(x) ==
    /\ x \in Transfers /\ Len(x.table) <= TableLimit
    /\ Counted(x) /\ Prefixed(x)

(* z differs from x in the table and what belongs to it.                   *)
SameBlocks(x, z) ==
    /\ z.received = x.received
    /\ z.blocks_left = x.blocks_left
    /\ z.gapless_to_block = x.gapless_to_block

LEMMA GoodWhenSame ==
    ASSUME NEW x, Good(x), NEW z \in Transfers, Len(z.table) <= TableLimit, SameBlocks(x, z)
    PROVE  Good(z)
BY DEF Good, SameBlocks, Counted, Prefixed, Lacking

LEMMA WantedIs ==
    ASSUME NEW x, Good(x)
    PROVE  /\ Wanted(x) = (0 .. BlockCount) \ x.received
           /\ Lacking(x) = Wanted(x) \ {0}
<1>1. BlockCount \in Nat /\ x.received \subseteq 0 .. BlockCount
  BY ReceiveAssumption DEF Good, Transfers
<1>2. \A b \in 0 .. BlockCount : ~ (b > BlockCount)
  BY <1>1
<1>3. Wanted(x) = (0 .. BlockCount) \ x.received
  BY <1>2 DEF Wanted, GotBlock
<1>4. Block = (0 .. BlockCount) \ {0}
  BY <1>1 DEF Block
<1> QED
  BY <1>3, <1>4 DEF Lacking

(* ttp_request_retransmit adds the wanted blocks to the table, or reports  *)
(* the table full.                                                         *)
LEMMA RequestRetransmitFacts ==
    ASSUME NEW x, Good(x), NEW lo \in Nat, NEW hi \in Nat
    PROVE  LET z == RequestRetransmit(x, lo, hi)
           IN  /\ Good(z) /\ SameBlocks(x, z) /\ z.next_block = x.next_block
               /\ ~ z.dropped =>
                     /\ ~ x.dropped
                     /\ \A b \in Entries(x.table) : b \in Entries(z.table)
                     /\ \A b \in Lacking(x) : lo <= b /\ b < hi => b \in Entries(z.table)
<1> DEFINE kept   == Keep(From(lo, hi), Wanted(x))
           longer == x.table \o kept
           cut    == Lower(TableLimit, Len(longer))
           z      == RequestRetransmit(x, lo, hi)
<1>1. /\ BlockCount \in Nat /\ TableLimit \in Nat
      /\ x \in Transfers /\ x.table \in Seq(0 .. BlockCount)
  BY ReceiveAssumption DEF Good, Transfers
<1>2. /\ kept \in Seq(0 .. BlockCount)
      /\ \A b \in Lacking(x) : lo <= b /\ b < hi => b \in Entries(kept)
  <2> DEFINE list == From(lo, hi)
  <2>1. list \in Seq(Nat)
    BY FromFacts
  <2>2. /\ kept \in Seq(Nat)
        /\ \A j \in 1 .. Len(kept) : kept[j] \in Wanted(x)
        /\ \A i \in 1 .. Len(list) : list[i] \in Wanted(x) =>
              \E j \in 1 .. Len(kept) : kept[j] = list[i]
    <3> HIDE DEF list
    <3>1. LET all == Keep(list, Wanted(x))
          IN  /\ all \in Seq(Nat)
              /\ \A j \in 1 .. Len(all) : all[j] \in Wanted(x)
              /\ \A i \in 1 .. Len(list) : list[i] \in Wanted(x) =>
                    \E j \in 1 .. Len(all) : j <= i /\ all[j] = list[i]
      BY <2>1, KeepFacts
    <3>2. kept = Keep(list, Wanted(x))
      BY DEF list
    <3> HIDE DEF kept
    <3> QED
      BY <3>1, <3>2
  <2>3. kept \in Seq(0 .. BlockCount)
    BY <2>2, SeqOver, WantedIs
  <2>4. ASSUME NEW b \in Lacking(x), lo <= b, b < hi
        PROVE  b \in Entries(kept)
    <3>1. b \in Nat
      BY <1>1 DEF Lacking, Block
    <3>2. PICK i \in 1 .. Len(list) : list[i] = b
      BY <2>4, <3>1, FromFacts
    <3>3. b \in Wanted(x)
      BY <2>4, WantedIs
    <3> HIDE DEF list, kept
    <3>4. PICK j \in 1 .. Len(kept) : kept[j] = b
      BY <2>2, <3>2, <3>3
    <3> QED
      BY <3>4, <2>3, EntriesAre
  <2> QED
    BY <2>3, <2>4
<1> HIDE DEF kept
<1>3. /\ longer \in Seq(0 .. BlockCount) /\ Len(longer) \in Nat
      /\ \A b : b \in Entries(longer) <=> b \in Entries(x.table) \/ b \in Entries(kept)
  BY <1>1, <1>2, ConcatProperties, EntriesOfConcat, LenProperties
<1>4. z = [x EXCEPT !.table = SubSeq(longer, 1, cut),
                    !.dropped = @ \/ Len(longer) > TableLimit]
  BY DEF RequestRetransmit, kept
<1> HIDE DEF longer, z
<1>5. cut \in 0 .. Len(longer) /\ cut <= TableLimit /\ (Len(longer) <= TableLimit => cut = Len(longer))
  BY <1>1, <1>3 DEF Lower
<1> HIDE DEF cut
<1>6. SubSeq(longer, 1, cut) \in Seq(0 .. BlockCount) /\ Len(SubSeq(longer, 1, cut)) = cut
  <2>1. \A i \in 1 .. cut : longer[i] \in 0 .. BlockCount
    <3>1. \A i \in 1 .. cut : i \in 1 .. Len(longer)
      BY <1>3, <1>5
    <3> QED
      BY <3>1, <1>3, ElementOfSeq
  <2>2. SubSeq(longer, 1, cut) \in Seq(0 .. BlockCount)
        /\ Len(SubSeq(longer, 1, cut)) = IF 1 <= cut THEN cut - 1 + 1 ELSE 0
    BY <2>1, <1>5, SubSeqProperties
  <2> QED
    BY <2>2, <1>3, <1>5
<1>7. z \in Transfers /\ SameBlocks(x, z) /\ z.next_block = x.next_block
      /\ z.table = SubSeq(longer, 1, cut)
      /\ z.dropped = (x.dropped \/ Len(longer) > TableLimit)
  BY <1>1, <1>4, <1>6 DEF Transfers, SameBlocks
<1>8. Good(z)
  BY <1>5, <1>6, <1>7, GoodWhenSame
<1>9. ASSUME ~ z.dropped
      PROVE  ~ x.dropped /\ z.table = longer
  <2>1. ~ x.dropped /\ ~ (Len(longer) > TableLimit)
    BY <1>7, <1>9
  <2>2. cut = Len(longer)
    BY <2>1, <1>1, <1>3, <1>5
  <2> QED
    BY <2>1, <2>2, <1>3, <1>7, SubSeqFull
<1> QED
  BY <1>2, <1>3, <1>7, <1>8, <1>9 DEF z

(* What ttp_repeat_retransmit keeps of the table.                          *)
LEMMA OutstandingFacts ==
    ASSUME NEW x, Good(x)
    PROVE  LET out == Outstanding(x)
           IN  /\ out \in Seq(0 .. BlockCount) /\ Len(out) <= Len(x.table)
               /\ \A j \in 1 .. Len(out) : out[j] \in Lacking(x)
               /\ \A i \in 1 .. Len(x.table) : x.table[i] \in Lacking(x) =>
                     \E j \in 1 .. Len(out) : j <= i /\ out[j] = x.table[i]
<1>1. x.table \in Seq(0 .. BlockCount)
  BY DEF Good, Transfers
<1>2. Outstanding(x) = Keep(x.table, Lacking(x))
  BY WantedIs DEF Outstanding
<1> QED
  BY <1>1, <1>2, KeepFacts

(* The block after the gapless ones wraps to 0 where their number does not  *)
(* fit any more.                                                           *)
LEMMA PastGaplessFacts ==
    ASSUME NEW x, x \in Transfers
    PROVE  PastGapless(x) \in 0 .. Width-1 /\ PastGapless(x) <= x.gapless_to_block + 1
<1>1. Width \in Nat /\ Width > 1 /\ x.gapless_to_block \in 0 .. Width-1
  BY ReceiveAssumption DEF Transfers
<1> DEFINE g == x.gapless_to_block
<1>2. g \in 0 .. Width-1
  BY <1>1
<1> HIDE DEF g
<1>3. (g + 1) % Width \in 0 .. Width-1
  BY <1>1, <1>2
<1>4. (g + 1) % Width <= g + 1
  BY <1>1, <1>2
<1> QED
  BY <1>3, <1>4 DEF PastGapless, g

(* A table that has been compacted tracks what it did; after a restart     *)
(* there is nothing to be tracked.                                         *)
LEMMA RepeatedFacts ==
    ASSUME NEW x, Good(x), TrackedBelow(x, x.next_block)
    PROVE  LET z == Repeated(x)
           IN  Good(z) /\ SameBlocks(x, z) /\ TrackedBelow(z, z.next_block)
<1> DEFINE out == Outstanding(x)
           z   == Repeated(x)
<1>1. /\ BlockCount \in Nat /\ TableLimit \in Nat /\ Width \in Nat /\ OnWireEstimate \in Nat
      /\ Width > BlockCount + OnWireEstimate
      /\ MaxRetransmission \in Nat \ {0}
      /\ x \in Transfers /\ x.table \in Seq(0 .. BlockCount) /\ Len(x.table) \in Nat
      /\ Len(x.table) <= TableLimit /\ x.gapless_to_block \in Nat
  BY ReceiveAssumption, LenProperties DEF Good, Transfers
<1>2. /\ out \in Seq(0 .. BlockCount) /\ Len(out) \in Nat /\ Len(out) <= Len(x.table)
      /\ \A i \in 1 .. Len(x.table) : x.table[i] \in Lacking(x) =>
            \E j \in 1 .. Len(out) : out[j] = x.table[i]
  BY OutstandingFacts, LenProperties
<1> HIDE DEF out
<1>3. CASE TooMany(x)
  <2> DEFINE last == x.table[Len(x.table)]
  <2>1. last \in 0 .. BlockCount
    <3>1. Len(x.table) \in 1 .. Len(x.table)
      BY <1>1, <1>2, <1>3 DEF TooMany, out
    <3> QED
      BY <3>1, <1>1, ElementOfSeq
  <2> HIDE DEF last
  <2>2. z = [x EXCEPT !.restart_pending = TRUE, !.restart_lastidx = last,
                      !.restart_wireclearidx = WireClear(last),
                      !.table = <<>>, !.next_block = RestartBlock(x)]
    BY <1>3 DEF Repeated, last
  <2>3. WireClear(last) \in 0 .. BlockCount /\ RestartBlock(x) \in 0 .. Width-1
        /\ RestartBlock(x) <= x.gapless_to_block + 1
    BY <1>1, <2>1, PastGaplessFacts DEF WireClear, RestartBlock, Lower
  <2>4. <<>> \in Seq(0 .. BlockCount) /\ Len(<<>>) = 0
    BY EmptySeq
  <2> HIDE DEF z
  <2>5. z \in Transfers /\ SameBlocks(x, z) /\ z.table = <<>> /\ z.next_block = RestartBlock(x)
    BY <1>1, <2>1, <2>2, <2>3, <2>4 DEF Transfers, SameBlocks
  <2>6. Good(z)
    BY <1>1, <2>4, <2>5, GoodWhenSame
  <2>7. TrackedBelow(z, z.next_block)
    <3>1. \A b \in Lacking(z) : b \in Nat
      BY <1>1 DEF Lacking, Block
    <3> QED
      BY <1>1, <2>3, <2>5, <3>1 DEF TrackedBelow, SameBlocks
  <2> QED
    BY <2>5, <2>6, <2>7 DEF z
<1>4. CASE ~ TooMany(x)
  <2>1. z = [x EXCEPT !.table = out]
    BY <1>4 DEF Repeated, out
  <2> HIDE DEF z
  <2>2. z \in Transfers /\ SameBlocks(x, z) /\ z.table = out
        /\ z.next_block = x.next_block /\ z.dropped = x.dropped
    BY <1>1, <1>2, <2>1 DEF Transfers, SameBlocks
  <2>3. Good(z)
    BY <1>1, <1>2, <2>2, GoodWhenSame
  <2>4. ASSUME NEW b \in Lacking(x), b \in Entries(x.table) PROVE b \in Entries(out)
    <3>1. PICK i \in 1 .. Len(x.table) : b = x.table[i]
      BY <1>1, <2>4, EntriesAre
    <3>2. PICK j \in 1 .. Len(out) : out[j] = b
      BY <1>2, <3>1
    <3> QED
      BY <1>2, <3>2, EntriesAre
  <2>5. TrackedBelow(z, z.next_block)
    BY <2>2, <2>4 DEF TrackedBelow, SameBlocks, Lacking
  <2> QED
    BY <2>2, <2>3, <2>5 DEF z
<1> QED
  BY <1>3, <1>4

(* When the request to restart could not be written, the table's front is  *)
(* compacted and its end is as it was: nothing falls between the two,      *)
(* because compacting moves a block to the front, if anywhere.             *)
LEMMA UnrepeatedFacts ==
    ASSUME NEW x, Good(x), TrackedBelow(x, x.next_block)
    PROVE  LET z == Unrepeated(x)
           IN  Good(z) /\ SameBlocks(x, z) /\ TrackedBelow(z, z.next_block)
<1> DEFINE out == Outstanding(x)
           z   == Unrepeated(x)
           M   == MaxRetransmission
           mix == [i \in DOMAIN x.table |-> IF i <= M THEN out[i] ELSE x.table[i]]
<1>1. CASE ~ TooMany(x)
  BY <1>1, RepeatedFacts DEF Unrepeated
<1>2. CASE TooMany(x)
  <2>1. /\ BlockCount \in Nat /\ M \in Nat /\ TableLimit \in Nat
        /\ x \in Transfers /\ x.table \in Seq(0 .. BlockCount) /\ Len(x.table) \in Nat
        /\ Len(x.table) <= TableLimit /\ DOMAIN x.table = 1 .. Len(x.table)
    BY ReceiveAssumption, LenProperties DEF Good, Transfers
  <2>2. /\ out \in Seq(0 .. BlockCount) /\ Len(out) \in Nat /\ Len(out) <= Len(x.table)
        /\ \A i \in 1 .. Len(x.table) : x.table[i] \in Lacking(x) =>
              \E j \in 1 .. Len(out) : j <= i /\ out[j] = x.table[i]
    BY OutstandingFacts, LenProperties
  <2>3. Len(out) >= M
    BY <1>2 DEF TooMany
  <2>4. z = [x EXCEPT !.table = mix]
    BY <1>2 DEF Unrepeated
  <2> HIDE DEF out
  <2>5. mix \in Seq(0 .. BlockCount) /\ Len(mix) = Len(x.table)
        /\ \A i \in 1 .. Len(x.table) : mix[i] = IF i <= M THEN out[i] ELSE x.table[i]
    <3>1. \A i \in 1 .. Len(x.table) :
             (IF i <= M THEN out[i] ELSE x.table[i]) \in 0 .. BlockCount
      <4>1. /\ \A i \in 1 .. Len(out) : out[i] \in 0 .. BlockCount
            /\ \A i \in 1 .. Len(x.table) : x.table[i] \in 0 .. BlockCount
        BY <2>1, <2>2, ElementOfSeq
      <4>2. \A i \in 1 .. Len(x.table) : i <= M => i \in 1 .. Len(out)
        BY <2>1, <2>2, <2>3
      <4> QED
        BY <4>1, <4>2
    <3>2. mix \in [1 .. Len(x.table) -> 0 .. BlockCount]
      BY <2>1, <3>1
    <3> QED
      BY <2>1, <3>2
  <2> HIDE DEF mix, z
  <2>6. z \in Transfers /\ SameBlocks(x, z) /\ z.table = mix
        /\ z.next_block = x.next_block /\ z.dropped = x.dropped
    BY <2>1, <2>4, <2>5 DEF Transfers, SameBlocks
  <2>7. Good(z)
    BY <2>1, <2>5, <2>6, GoodWhenSame
  <2>8. ASSUME NEW b \in Lacking(x), b \in Entries(x.table) PROVE b \in Entries(mix)
    <3>1. PICK i \in 1 .. Len(x.table) : b = x.table[i]
      BY <2>1, <2>8, EntriesAre
    <3>2. PICK j \in 1 .. Len(out) : j <= i /\ out[j] = b
      BY <2>2, <3>1
    <3>3. CASE j <= M
      <4>1. j \in 1 .. Len(x.table)
        BY <2>1, <2>2, <3>2
      <4>2. mix[j] = b
        BY <2>5, <3>2, <3>3, <4>1
      <4> QED
        BY <4>1, <4>2, <2>5, EntriesAre
    <3>4. CASE ~ (j <= M)
      <4>1. mix[i] = b
        BY <2>1, <2>2, <2>5, <3>1, <3>2, <3>4
      <4> QED
        BY <4>1, <3>1, <2>5, EntriesAre
    <3> QED
      BY <3>3, <3>4
  <2>9. TrackedBelow(z, z.next_block)
    BY <2>6, <2>8 DEF TrackedBelow, SameBlocks, Lacking
  <2> QED
    BY <2>6, <2>7, <2>9 DEF z
<1> QED
  BY <1>1, <1>2

-------------------------------------------------------------------------------
(* Taking a block in.                                                      *)

(* A block is counted once.                                                *)
LEMMA InsertFacts ==
    ASSUME NEW x, Good(x), NEW b \in 0 .. BlockCount
    PROVE  LET z == Insert(x, b)
           IN  /\ Good(z)
               /\ z.received = x.received \cup {b}
               /\ \A n : TrackedBelow(x, n) => TrackedBelow(z, n)
               /\ z.next_block = x.next_block
<1> DEFINE z == Insert(x, b)
<1>1. /\ BlockCount \in Nat /\ x \in Transfers /\ ~ (b > BlockCount)
      /\ x.blocks_left \in 0 .. BlockCount /\ x.received \subseteq 0 .. BlockCount
  BY ReceiveAssumption DEF Good, Transfers
<1>2. CASE b \in x.received
  <2>1. z = x
    BY <1>2 DEF Insert, GotBlock
  <2> QED
    BY <2>1, <1>2
<1>3. CASE b \notin x.received
  <2> DEFINE left == IF x.blocks_left > 0 THEN x.blocks_left - 1 ELSE x.blocks_left
  <2>1. z = [x EXCEPT !.received = @ \cup {b}, !.blocks_left = left]
    BY <1>1, <1>3 DEF Insert, GotBlock
  <2>2. left \in 0 .. BlockCount
    BY <1>1
  <2> HIDE DEF z, left
  <2>3. /\ z \in Transfers /\ z.received = x.received \cup {b} /\ z.blocks_left = left
        /\ z.table = x.table /\ z.gapless_to_block = x.gapless_to_block
        /\ z.next_block = x.next_block /\ z.dropped = x.dropped
    BY <1>1, <2>1, <2>2 DEF Transfers
  <2>4. Counted(z)
    <3> SUFFICES ASSUME 0 \notin z.received
                 PROVE  z.blocks_left = Cardinality(Lacking(z))
      BY DEF Counted
    <3>1. 0 \notin x.received /\ b # 0
      BY <2>3
    <3>2. x.blocks_left = Cardinality(Lacking(x))
      BY <3>1 DEF Good, Counted
    <3>3. IsFiniteSet(Lacking(x))
      <4>1. IsFiniteSet(Block)
        BY <1>1, FS_Interval DEF Block
      <4> QED
        BY <4>1, FS_Difference DEF Lacking
    <3>4. b \in Lacking(x) /\ Lacking(z) = Lacking(x) \ {b}
      BY <1>1, <1>3, <2>3, <3>1 DEF Lacking, Block
    <3>5. Cardinality(Lacking(x) \ {b}) = Cardinality(Lacking(x)) - 1
      BY <3>3, <3>4, FS_RemoveElement
    <3>6. Cardinality(Lacking(x)) \in Nat /\ Cardinality(Lacking(x)) # 0
      BY <3>3, <3>4, FS_CardinalityType, FS_EmptySet
    <3> QED
      BY <2>3, <3>2, <3>4, <3>5, <3>6 DEF left
  <2>5. Good(z)
    BY <2>3, <2>4 DEF Good, Prefixed
  <2>6. ASSUME NEW n, TrackedBelow(x, n) PROVE TrackedBelow(z, n)
    BY <2>3, <2>6 DEF TrackedBelow, Lacking
  <2> QED
    BY <2>3, <2>5, <2>6 DEF z
<1> QED
  BY <1>2, <1>3

(* The first block of the loss window, where the subtraction may wrap.     *)
LEMMA EarliestBlockFacts ==
    ASSUME NEW x, Good(x), NEW b \in 0 .. BlockCount, NEW w \in 0 .. BlockCount
    PROVE  EarliestBlock(x, b, w) \in 0 .. Width-1
<1>1. /\ BlockCount \in Nat /\ Width \in Nat /\ Width > BlockCount /\ x.gapless_to_block \in Nat
  BY ReceiveAssumption DEF Good, Transfers
<1>2. CASE x.gapless_to_block <= b
  BY <1>1, <1>2 DEF EarliestBlock, Lower
<1>3. CASE ~ (x.gapless_to_block <= b)
  <2>1. b - w \in Int
    BY <1>1
  <2>2. (b - w) % Width \in 0 .. Width-1
    BY <1>1, <2>1
  <2> QED
    BY <1>3, <2>2 DEF EarliestBlock
<1> QED
  BY <1>2, <1>3

(* The blocks that have been passed over are tracked, or not waited for.   *)
LEMMA QueueMissingFacts ==
    ASSUME NEW x, Good(x), TrackedBelow(x, x.next_block), session \in Sessions,
           NEW b \in 0 .. BlockCount, NEW w \in 0 .. BlockCount
    PROVE  LET z == QueueMissing(x, b, w)
           IN  /\ Good(z) /\ z.received = x.received
               /\ TrackedBelow(z, z.next_block) /\ TrackedBelow(z, b)
<1> DEFINE z == QueueMissing(x, b, w)
<1>1. /\ BlockCount \in Nat /\ Width \in Nat /\ Width > BlockCount
      /\ x \in Transfers /\ x.next_block \in Nat /\ x.gapless_to_block \in Nat
      /\ b \in Nat /\ b \in 0 .. Width-1
  BY ReceiveAssumption DEF Good, Transfers
<1>2. \A c \in Lacking(x) : c \in Nat
  BY <1>1 DEF Lacking, Block
<1>3. CASE b <= x.next_block
  <2>1. z = x
    BY <1>3 DEF QueueMissing
  <2>2. TrackedBelow(x, b)
    BY <1>1, <1>2, <1>3 DEF TrackedBelow
  <2> QED
    BY <2>1, <2>2
<1>4. CASE ~ (b <= x.next_block) /\ session.lossless
  <2>1. z = RequestRetransmit(x, x.next_block, b)
    BY <1>4 DEF QueueMissing
  <2> HIDE DEF z
  <2>2. /\ Good(z) /\ SameBlocks(x, z) /\ z.next_block = x.next_block
        /\ ~ z.dropped =>
              /\ ~ x.dropped
              /\ \A c \in Entries(x.table) : c \in Entries(z.table)
              /\ \A c \in Lacking(x) : x.next_block <= c /\ c < b => c \in Entries(z.table)
    BY <2>1, <1>1, RequestRetransmitFacts
  <2>3. TrackedBelow(z, z.next_block)
    BY <2>2 DEF TrackedBelow, SameBlocks, Lacking
  <2>4. TrackedBelow(z, b)
    BY <1>1, <1>2, <2>2 DEF TrackedBelow, SameBlocks, Lacking
  <2> QED
    BY <2>2, <2>3, <2>4 DEF z, SameBlocks
<1>5. CASE ~ (b <= x.next_block) /\ ~ session.lossless /\ session.loss_windows = {}
  <2>1. z = [x EXCEPT !.gapless_to_block = b]
    BY <1>5 DEF QueueMissing
  <2>2. /\ z \in Transfers /\ z.received = x.received /\ z.blocks_left = x.blocks_left
        /\ z.table = x.table /\ z.gapless_to_block = b /\ z.next_block = x.next_block
    BY <2>1, <1>1 DEF Transfers
  <2> HIDE DEF z
  <2>3. Good(z)
    BY <2>2, <1>5 DEF Good, Counted, Prefixed, Lacking
  <2>4. TrackedBelow(z, z.next_block) /\ TrackedBelow(z, b)
    BY <1>1, <1>2, <1>5, <2>2 DEF TrackedBelow, Lacking
  <2> QED
    BY <2>2, <2>3, <2>4 DEF z
<1>6. CASE ~ (b <= x.next_block) /\ ~ session.lossless /\ session.loss_windows # {}
  <2> DEFINE e == EarliestBlock(x, b, w)
             y == RequestRetransmit(x, e, b)
  <2>1. e \in 0 .. Width-1
    BY EarliestBlockFacts
  <2>2. z = [y EXCEPT !.next_block = e, !.gapless_to_block = e]
    BY <1>6 DEF QueueMissing
  <2> HIDE DEF e
  <2>3. /\ Good(y) /\ SameBlocks(x, y)
        /\ ~ y.dropped => \A c \in Lacking(x) : e <= c /\ c < b => c \in Entries(y.table)
    <3>1. e \in Nat
      BY <1>1, <2>1
    <3>2. y = RequestRetransmit(x, e, b)
      OBVIOUS
    <3> HIDE DEF y
    <3> QED
      BY <1>1, <3>1, <3>2, RequestRetransmitFacts
  <2> HIDE DEF y, z
  <2>4. /\ z \in Transfers /\ z.received = y.received /\ z.blocks_left = y.blocks_left
        /\ z.table = y.table /\ z.gapless_to_block = e /\ z.next_block = e
        /\ z.dropped = y.dropped
    BY <2>1, <2>2, <2>3 DEF Transfers, Good
  <2>5. Good(z)
    BY <2>3, <2>4, <1>6 DEF Good, Counted, Prefixed, Lacking
  <2>6. TrackedBelow(z, z.next_block) /\ TrackedBelow(z, b)
    BY <1>1, <1>2, <2>1, <2>3, <2>4 DEF TrackedBelow, Lacking, SameBlocks
  <2> QED
    BY <2>3, <2>4, <2>5, <2>6 DEF z, SameBlocks
<1> QED
  BY <1>3, <1>4, <1>5, <1>6

(* gapless_to_block goes on to the next block that is missing, if any.     *)
LEMMA AdvanceGaplessFacts ==
    ASSUME NEW x, Good(x)
    PROVE  LET z == AdvanceGapless(x)
           IN  /\ Good(z) /\ z.received = x.received /\ z.next_block = x.next_block
               /\ \A n \in Nat : TrackedBelow(x, n) => TrackedBelow(z, n)
<1> DEFINE z == AdvanceGapless(x)
           from == x.gapless_to_block
           Reached(g) == /\ from + 1 .. g \subseteq x.received
                         /\ g = BlockCount \/ g + 1 \notin x.received
<1>1. /\ BlockCount \in Nat /\ Width \in Nat /\ Width > BlockCount
      /\ x \in Transfers /\ from \in Nat
  BY ReceiveAssumption DEF Good, Transfers
<1>2. CASE from >= BlockCount
  BY <1>2 DEF AdvanceGapless
<1>3. CASE ~ (from >= BlockCount)
  <2>1. \E g \in from .. BlockCount : Reached(g)
    <3> DEFINE Ends == {g \in from .. BlockCount : g = BlockCount \/ g + 1 \notin x.received}
    <3>1. Ends \subseteq Nat /\ BlockCount \in Ends
      BY <1>1, <1>3
    <3>2. PICK g \in Ends : \A m \in Ends : g <= m
      <4> HIDE DEF Ends
      <4> QED
        BY <3>1, LeastNumber
    <3>3. ASSUME NEW c \in from + 1 .. g PROVE c \in x.received
      <4>1. c - 1 \in from .. BlockCount /\ ~ (g <= c - 1) /\ (c - 1) + 1 = c
        BY <1>1, <3>2
      <4>2. c - 1 \notin Ends
        BY <3>2, <4>1
      <4> QED
        BY <4>1, <4>2
    <3> QED
      BY <3>2, <3>3
  <2> DEFINE g == CHOOSE g \in from .. BlockCount : Reached(g)
  <2>2. g \in from .. BlockCount /\ Reached(g)
    BY <2>1
  <2>3. z = [x EXCEPT !.gapless_to_block = g]
    BY <1>3 DEF AdvanceGapless
  <2> HIDE DEF z, g
  <2>4. /\ z \in Transfers /\ z.received = x.received /\ z.blocks_left = x.blocks_left
        /\ z.table = x.table /\ z.next_block = x.next_block /\ z.dropped = x.dropped
        /\ z.gapless_to_block = g
    <3>1. g \in 0 .. Width-1
      BY <1>1, <2>2
    <3> QED
      BY <1>1, <2>3, <3>1 DEF Transfers
  <2>5. Prefixed(z)
    <3> SUFFICES ASSUME session.lossless, NEW c \in 1 .. g PROVE c \in x.received
      BY <2>4 DEF Prefixed
    <3>1. c \in 1 .. from \/ c \in from + 1 .. g
      BY <1>1, <2>2
    <3> QED
      BY <3>1, <2>2 DEF Good, Prefixed
  <2>6. Good(z)
    BY <2>4, <2>5 DEF Good, Counted, Lacking
  <2>7. ASSUME NEW n \in Nat, TrackedBelow(x, n) PROVE TrackedBelow(z, n)
    <3> SUFFICES ASSUME ~ z.dropped, NEW b \in Lacking(z), g < b, b < n
                 PROVE  b \in Entries(z.table)
      BY <2>4 DEF TrackedBelow
    <3>1. b \in Nat /\ b \in Lacking(x)
      BY <1>1, <2>4 DEF Lacking, Block
    <3>2. from < b
      BY <1>1, <2>2, <3>1
    <3> QED
      BY <2>4, <2>7, <3>1, <3>2 DEF TrackedBelow
  <2> QED
    BY <2>4, <2>6, <2>7 DEF z
<1> QED
  BY <1>2, <1>3

(* What the loop may find in its buffer, the blank one included.           *)
Readable ==
    {d \in [block : 0 .. BlockCount,
            type : {"blank", "original", "retransmission", "terminate"}] :
        /\ d.type = "original" => d.block < BlockCount
        /\ d.type = "terminate" => d.block = BlockCount}

(* The block after the one that came is expected, and tracking goes on.    *)
LEMMA ExpectSuccessorFacts ==
    ASSUME NEW x, Good(x), NEW d \in Readable, d.block \in x.received,
           TrackedBelow(x, x.next_block), TrackedBelow(x, d.block)
    PROVE  LET z == ClearRestart(ExpectSuccessor(x, d))
           IN  /\ Good(z) /\ z.received = x.received
               /\ TrackedBelow(z, z.next_block) /\ TrackedBelow(z, d.block)
<1> DEFINE y == ExpectSuccessor(x, d)
           z == ClearRestart(y)
           next == IF d.type = "original" THEN d.block + 1 ELSE x.next_block
<1>1. /\ BlockCount \in Nat /\ Width \in Nat /\ Width > BlockCount
      /\ x \in Transfers /\ x.next_block \in 0 .. Width-1
      /\ d.block \in Nat /\ (d.type = "original" => d.block < BlockCount)
  BY ReceiveAssumption DEF Good, Transfers, Readable
<1>2. next \in 0 .. Width-1
  BY <1>1
<1>3. y = [x EXCEPT !.next_block = next]
  BY <1>1 DEF ExpectSuccessor, Transfers
<1>4. TrackedBelow(x, next)
  <2>1. \A b \in Lacking(x) : b \in Nat /\ b # d.block
    BY <1>1 DEF Lacking, Block
  <2> QED
    BY <1>1, <2>1 DEF TrackedBelow
<1> HIDE DEF y, next
<1>5. /\ y \in Transfers /\ y.next_block = next /\ y.received = x.received
      /\ y.table = x.table /\ y.dropped = x.dropped /\ y.blocks_left = x.blocks_left
      /\ y.gapless_to_block = x.gapless_to_block
  BY <1>1, <1>2, <1>3 DEF Transfers
<1>6. z = [y EXCEPT !.restart_pending = y.restart_pending /\ y.next_block < y.restart_lastidx]
  BY DEF ClearRestart
<1> HIDE DEF z
<1>7. (y.restart_pending /\ y.next_block < y.restart_lastidx) \in BOOLEAN
  OBVIOUS
<1>8. /\ z \in Transfers /\ z.next_block = next /\ z.received = x.received
      /\ z.table = x.table /\ z.dropped = x.dropped /\ z.blocks_left = x.blocks_left
      /\ z.gapless_to_block = x.gapless_to_block
  BY <1>5, <1>6, <1>7 DEF Transfers
<1>9. Good(z)
  BY <1>8 DEF Good, Counted, Prefixed, Lacking
<1>10. TrackedBelow(z, z.next_block) /\ TrackedBelow(z, d.block)
  BY <1>4, <1>8 DEF TrackedBelow, Lacking
<1> QED
  BY <1>8, <1>9, <1>10 DEF y, z

(* The whole of a datagram's processing; only the last block is told from  *)
(* the others, which may be ignored after a restart.                       *)
LEMMA AcceptFacts ==
    ASSUME NEW x, Good(x), TrackedBelow(x, x.next_block), session \in Sessions,
           NEW d \in Readable, NEW w \in 0 .. BlockCount
    PROVE  LET z == Accept(x, d, w)
           IN  /\ Good(z) /\ z.received = x.received \cup {d.block}
               /\ TrackedBelow(z, z.next_block)
               /\ d.type = "terminate" => TrackedBelow(z, BlockCount)
<1> DEFINE y == Insert(x, d.block)
           q == QueueMissing(y, d.block, w)
           g == AdvanceGapless(q)
<1>1. d.block \in 0 .. BlockCount /\ d.block \in Nat /\ (d.type = "terminate" => d.block = BlockCount)
  BY ReceiveAssumption DEF Readable
<1>2. /\ Good(y) /\ y.received = x.received \cup {d.block}
      /\ TrackedBelow(y, y.next_block)
  BY <1>1, InsertFacts
<1> HIDE DEF y
<1>3. CASE IgnoredAfterRestart(y, d)
  BY <1>2, <1>3 DEF Accept, IgnoredAfterRestart, y
<1>4. CASE ~ IgnoredAfterRestart(y, d)
  <2>1. /\ Good(q) /\ q.received = y.received
        /\ TrackedBelow(q, q.next_block) /\ TrackedBelow(q, d.block)
    BY <1>1, <1>2, QueueMissingFacts
  <2> HIDE DEF q
  <2>2. q.next_block \in Nat
    BY <2>1, ReceiveAssumption DEF Good, Transfers
  <2>3. /\ Good(g) /\ g.received = q.received
        /\ TrackedBelow(g, g.next_block) /\ TrackedBelow(g, d.block)
    BY <1>1, <2>1, <2>2, AdvanceGaplessFacts
  <2> HIDE DEF g
  <2>4. LET z == ClearRestart(ExpectSuccessor(g, d))
        IN  /\ Good(z) /\ z.received = g.received
            /\ TrackedBelow(z, z.next_block) /\ TrackedBelow(z, d.block)
    BY <1>2, <2>1, <2>3, ExpectSuccessorFacts
  <2>5. Accept(x, d, w) = ClearRestart(ExpectSuccessor(g, d))
    BY <1>4 DEF Accept, g, q, y
  <2> QED
    BY <1>1, <1>2, <2>1, <2>3, <2>4, <2>5
<1> QED
  BY <1>3, <1>4

-------------------------------------------------------------------------------
(* The feedback.                                                           *)

Request ==
    [type : {"retransmit", "restart"}, block : 0 .. BlockCount] \cup {ErrorRate, StopRequest}

(* Of the blocks that had come before the turn, none is asked for again; of*)
(* those still missing after it, none comes before a restart's.            *)
Right(r, before, after) ==
    /\ r.type = "retransmit" => r.block \in Block \ before
    /\ session.lossless /\ r.type = "restart" => \A b \in Block \ after : r.block <= b

FeedbackRight(out, before, after) ==
    out \in Seq(Request) /\ \A r \in Entries(out) : Right(r, before, after)

(* What is right about a stretch of the turn is right about the turn.      *)
LEMMA RightForLonger ==
    ASSUME NEW b1, NEW b2, NEW a1, NEW a2, b1 \subseteq b2, a2 \subseteq a1,
           NEW out, FeedbackRight(out, b2, a2)
    PROVE  FeedbackRight(out, b1, a1)
BY DEF FeedbackRight, Right

LEMMA RightForBoth ==
    ASSUME NEW before, NEW after, NEW s, NEW t,
           FeedbackRight(s, before, after), FeedbackRight(t, before, after)
    PROVE  FeedbackRight(s \o t, before, after)
<1>1. s \in Seq(Request) /\ t \in Seq(Request)
  BY DEF FeedbackRight
<1>2. s \o t \in Seq(Request)
  BY <1>1, ConcatProperties
<1>3. \A r \in Entries(s \o t) : r \in Entries(s) \/ r \in Entries(t)
  BY <1>1, EntriesOfConcat
<1> QED
  BY <1>2, <1>3 DEF FeedbackRight

(* The two messages that ask for no block.                                 *)
LEMMA RightForOthers ==
    ASSUME NEW before, NEW after
    PROVE  /\ FeedbackRight(<<>>, before, after)
           /\ FeedbackRight(<<ErrorRate>>, before, after)
           /\ \A out : FeedbackRight(out, before, after) =>
                          FeedbackRight(Append(out, StopRequest), before, after)
<1>1. BlockCount \in Nat
  BY ReceiveAssumption
<1>2. ErrorRate \in Request /\ StopRequest \in Request
  BY <1>1 DEF ErrorRate, StopRequest, Request
<1>3. Right(ErrorRate, before, after) /\ Right(StopRequest, before, after)
  BY DEF Right, ErrorRate, StopRequest
<1>4. FeedbackRight(<<>>, before, after)
  BY EmptySeq DEF FeedbackRight, Entries
<1>5. FeedbackRight(<<ErrorRate>>, before, after)
  <2>1. <<ErrorRate>> \in Seq(Request) /\ Entries(<<ErrorRate>>) = {ErrorRate}
    BY <1>2 DEF Entries
  <2> QED
    BY <2>1, <1>3 DEF FeedbackRight
<1>6. ASSUME NEW out, FeedbackRight(out, before, after)
      PROVE  FeedbackRight(Append(out, StopRequest), before, after)
  <2>1. out \in Seq(Request) /\ Len(out) \in Nat
    BY <1>6, LenProperties DEF FeedbackRight
  <2> DEFINE longer == Append(out, StopRequest)
  <2>2. /\ longer \in Seq(Request) /\ Len(longer) = Len(out) + 1
        /\ \A i \in 1 .. Len(out) : longer[i] = out[i]
        /\ longer[Len(out) + 1] = StopRequest
    BY <2>1, <1>2, AppendProperties
  <2> HIDE DEF longer
  <2>3. ASSUME NEW r \in Entries(longer) PROVE Right(r, before, after)
    <3>1. PICK i \in 1 .. Len(longer) : r = longer[i]
      BY <2>2, EntriesAre
    <3>2. CASE i \in 1 .. Len(out)
      <4>1. r \in Entries(out)
        BY <2>1, <2>2, <3>1, <3>2, EntriesAre
      <4> QED
        BY <4>1, <1>6 DEF FeedbackRight
    <3>3. CASE i = Len(out) + 1
      BY <2>2, <3>1, <3>3, <1>3
    <3> QED
      BY <2>1, <2>2, <3>1, <3>2, <3>3
  <2> QED
    BY <2>2, <2>3 DEF FeedbackRight, longer
<1> QED
  BY <1>4, <1>5, <1>6

(* ttp_repeat_retransmit asks for missing blocks, or to start again at the *)
(* block after the gapless ones.                                           *)
LEMMA RequestsFacts ==
    ASSUME NEW x, Good(x)
    PROVE  FeedbackRight(Requests(x), x.received, x.received)
<1> DEFINE out == Outstanding(x)
           first == RestartBlock(x)
<1>1. BlockCount \in Nat /\ x \in Transfers /\ x.gapless_to_block \in Nat
  BY ReceiveAssumption DEF Good, Transfers
<1>2. CASE TooMany(x)
  <2>1. first \in 0 .. BlockCount /\ first <= x.gapless_to_block + 1
    BY <1>1, PastGaplessFacts DEF RestartBlock, Lower
  <2>2. Requests(x) = <<Restart(first)>>
    BY <1>2 DEF Requests
  <2> HIDE DEF first
  <2>3. Restart(first) \in Request
    BY <2>1 DEF Restart, Request
  <2>4. <<Restart(first)>> \in Seq(Request) /\ Entries(<<Restart(first)>>) = {Restart(first)}
    BY <2>3 DEF Entries
  <2>5. Right(Restart(first), x.received, x.received)
    <3> SUFFICES ASSUME session.lossless, NEW b \in Block \ x.received
                 PROVE  first <= b
      BY <2>1 DEF Right, Restart
    <3>1. b \in Nat /\ b >= 1 /\ b \notin 1 .. x.gapless_to_block
      BY <1>1 DEF Good, Prefixed, Block
    <3> QED
      BY <1>1, <2>1, <3>1
  <2> QED
    BY <2>2, <2>4, <2>5 DEF FeedbackRight
<1>3. CASE ~ TooMany(x)
  <2>1. /\ out \in Seq(0 .. BlockCount) /\ Len(out) \in Nat /\ DOMAIN out = 1 .. Len(out)
        /\ \A j \in 1 .. Len(out) : out[j] \in Lacking(x)
    BY OutstandingFacts, LenProperties
  <2> DEFINE asks == Requests(x)
  <2>2. asks = [i \in DOMAIN out |-> Retransmit(out[i])]
    BY <1>3 DEF Requests
  <2> HIDE DEF out, asks
  <2>3. \A i \in 1 .. Len(out) : /\ Retransmit(out[i]) \in Request
                                 /\ Right(Retransmit(out[i]), x.received, x.received)
    <3> SUFFICES ASSUME NEW i \in 1 .. Len(out)
                 PROVE  /\ Retransmit(out[i]) \in Request
                        /\ Right(Retransmit(out[i]), x.received, x.received)
      OBVIOUS
    <3>1. out[i] \in 0 .. BlockCount /\ out[i] \in Block \ x.received
      BY <2>1, ElementOfSeq DEF Lacking
    <3> QED
      BY <3>1 DEF Request, Right, Retransmit
  <2>4. asks \in Seq(Request) /\ Len(asks) = Len(out)
        /\ \A i \in 1 .. Len(out) : asks[i] = Retransmit(out[i])
    <3>1. asks \in [1 .. Len(out) -> Request]
      BY <2>1, <2>2, <2>3
    <3> QED
      BY <2>1, <2>2, <3>1
  <2>5. ASSUME NEW r \in Entries(asks) PROVE Right(r, x.received, x.received)
    <3>1. PICK i \in 1 .. Len(asks) : r = asks[i]
      BY <2>4, EntriesAre
    <3> QED
      BY <3>1, <2>3, <2>4
  <2> QED
    BY <2>4, <2>5 DEF FeedbackRight, asks
<1> QED
  BY <1>2, <1>3

-------------------------------------------------------------------------------
(* The outcomes of a turn.                                                 *)

(* What a transfer that has told the server to stop has received, but for  *)
(* the blank buffer.                                                       *)
Done(x) ==
    0 \notin x.received =>
        /\ session.lossless => Lacking(x) = {}
        /\ ~ x.dropped => x.gapless_to_block + 1 .. BlockCount \subseteq x.received

(* An outcome after which the blocks in "received" have come, of which     *)
(* those in "before" had come when the turn began.                         *)
OutcomeOK(o, before, received) ==
    /\ Good(o.xfer) /\ o.xfer.received = received
    /\ TrackedBelow(o.xfer, o.xfer.next_block)
    /\ FeedbackRight(o.sent, before, received)
    /\ o.phase \in {"receiving", "stopped", "aborted"}
    /\ o.phase = "stopped" => Done(o.xfer)

LEMMA OutcomeFacts ==
    ASSUME NEW x, Good(x), TrackedBelow(x, x.next_block),
           NEW before, NEW out, FeedbackRight(out, before, x.received),
           NEW end \in {"receiving", "stopped", "aborted"}, end = "stopped" => Done(x)
    PROVE  OutcomeOK(Outcome(x, out, end), before, x.received)
<1> DEFINE o == Outcome(x, out, end)
<1>1. o.xfer = x /\ o.sent = out /\ o.phase = end
  BY DEF Outcome
<1> HIDE DEF o
<1>2. OutcomeOK(o, before, x.received)
  BY <1>1 DEF OutcomeOK
<1> QED
  BY <1>2 DEF o

LEMMA SendStatsFacts ==
    ASSUME NEW x, Good(x), TrackedBelow(x, x.next_block),
           NEW before, before \subseteq x.received,
           NEW out, FeedbackRight(out, before, x.received),
           NEW o \in SendStats(x, out)
    PROVE  OutcomeOK(o, before, x.received)
<1> DEFINE r == Repeated(x)
           u == Unrepeated(x)
           asks == Requests(x)
<1>1. /\ Good(r) /\ r.received = x.received /\ TrackedBelow(r, r.next_block)
      /\ Good(u) /\ u.received = x.received /\ TrackedBelow(u, u.next_block)
  BY RepeatedFacts, UnrepeatedFacts DEF SameBlocks
<1>2. FeedbackRight(asks, before, x.received)
  BY RequestsFacts, RightForLonger
<1>3. o \in {Outcome(x, out, "receiving"),
             Outcome(r, out \o asks \o <<ErrorRate>>, "receiving"),
             Outcome(r, out \o asks, "receiving"),
             Outcome(r, out, "aborted"), Outcome(u, out, "aborted")}
  BY DEF SendStats, Stats, IfFeedbackFails
<1> HIDE DEF r, u, asks
<1>4. /\ FeedbackRight(out \o asks, before, x.received)
      /\ FeedbackRight((out \o asks) \o <<ErrorRate>>, before, x.received)
  BY <1>2, RightForBoth, RightForOthers
<1> QED
  BY <1>1, <1>3, <1>4, OutcomeFacts

LEMMA FinishFacts ==
    ASSUME NEW x, Good(x), TrackedBelow(x, x.next_block), TrackedBelow(x, BlockCount),
           BlockCount \in x.received, Complete(x),
           NEW before, NEW out, FeedbackRight(out, before, x.received),
           NEW o \in Finish(x, out)
    PROVE  OutcomeOK(o, before, x.received)
<1>1. BlockCount \in Nat /\ x.gapless_to_block \in Nat
  BY ReceiveAssumption DEF Good, Transfers
<1>2. Done(x)
  <2> SUFFICES ASSUME 0 \notin x.received
               PROVE  /\ session.lossless => Lacking(x) = {}
                      /\ ~ x.dropped => x.gapless_to_block + 1 .. BlockCount \subseteq x.received
    BY DEF Done
  <2>1. CASE x.blocks_left = 0
    <3>1. IsFiniteSet(Lacking(x))
      <4>1. IsFiniteSet(Block)
        BY <1>1, FS_Interval DEF Block
      <4> QED
        BY <4>1, FS_Difference DEF Lacking
    <3>2. Lacking(x) = {}
      BY <2>1, <3>1, FS_EmptySet DEF Good, Counted
    <3>3. x.gapless_to_block + 1 .. BlockCount \subseteq x.received
      BY <1>1, <3>2 DEF Lacking, Block
    <3> QED
      BY <3>2, <3>3
  <2>2. CASE ~ (x.blocks_left = 0)
    <3>1. ~ session.lossless /\ x.table = <<>>
      BY <2>2 DEF Complete
    <3>2. Entries(x.table) = {}
      BY <3>1 DEF Entries
    <3>3. ASSUME ~ x.dropped, NEW b \in x.gapless_to_block + 1 .. BlockCount
          PROVE  b \in x.received
      <4>1. CASE b = BlockCount
        BY <4>1
      <4>2. CASE b # BlockCount
        <5>1. x.gapless_to_block < b /\ b < BlockCount /\ b \in Block
          BY <1>1, <4>2 DEF Block
        <5> QED
          BY <3>2, <3>3, <5>1 DEF TrackedBelow, Lacking
      <4> QED
        BY <4>1, <4>2
    <3> QED
      BY <3>1, <3>3
  <2> QED
    BY <2>1, <2>2
<1>3. o \in {Outcome(x, Append(out, StopRequest), "stopped"), Outcome(x, out, "aborted")}
  BY DEF Finish, IfFeedbackFails
<1>4. FeedbackRight(Append(out, StopRequest), before, x.received)
  BY RightForOthers
<1> QED
  BY <1>2, <1>3, <1>4, OutcomeFacts

LEMMA AskForRestFacts ==
    ASSUME NEW x, Good(x), TrackedBelow(x, x.next_block),
           NEW before, before \subseteq x.received,
           NEW out, FeedbackRight(out, before, x.received),
           NEW o \in AskForRest(x, out)
    PROVE  OutcomeOK(o, before, x.received)
<1> DEFINE y == RequestRetransmit(x, PastGapless(x), BlockCount)
           r == Repeated(y)
           u == Unrepeated(y)
           asks == Requests(y)
<1>1. BlockCount \in Nat /\ PastGapless(x) \in Nat
  BY ReceiveAssumption, PastGaplessFacts DEF Good
<1>2. /\ Good(y) /\ SameBlocks(x, y) /\ y.next_block = x.next_block
      /\ ~ y.dropped => ~ x.dropped /\ \A c \in Entries(x.table) : c \in Entries(y.table)
  BY <1>1, RequestRetransmitFacts
<1> HIDE DEF y
<1>3. TrackedBelow(y, y.next_block) /\ y.received = x.received
  BY <1>2 DEF TrackedBelow, SameBlocks, Lacking
<1>4. /\ Good(r) /\ r.received = x.received /\ TrackedBelow(r, r.next_block)
      /\ Good(u) /\ u.received = x.received /\ TrackedBelow(u, u.next_block)
  BY <1>2, <1>3, RepeatedFacts, UnrepeatedFacts DEF SameBlocks
<1>5. FeedbackRight(asks, before, x.received)
  BY <1>2, <1>3, RequestsFacts, RightForLonger
<1>6. \/ o \in SendStats(r, out \o asks)
      \/ o \in SendStats(r, out)
      \/ o \in SendStats(u, out)
  BY DEF AskForRest, IfFeedbackFails, y
<1> HIDE DEF r, u, asks
<1>7. FeedbackRight(out \o asks, before, x.received)
  BY <1>5, RightForBoth
<1>8. CASE o \in SendStats(r, out \o asks)
  BY <1>4, <1>7, <1>8, SendStatsFacts
<1>9. CASE o \in SendStats(r, out)
  BY <1>4, <1>9, SendStatsFacts
<1>10. CASE o \in SendStats(u, out)
  BY <1>4, <1>10, SendStatsFacts
<1> QED
  BY <1>6, <1>8, <1>9, <1>10

(* A turn with datagram d in the buffer, after the feedback "out".  The    *)
(* datagram may have been passed over.                                     *)
LEMMA TurnFacts ==
    ASSUME NEW x, Good(x), TrackedBelow(x, x.next_block), session \in Sessions,
           NEW before, before \subseteq x.received,
           NEW out, FeedbackRight(out, before, x.received),
           NEW d \in Readable, NEW o \in Turn(x, d, out)
    PROVE  OutcomeOK(o, before, o.xfer.received)
<1>1. ASSUME o \in SendStats(x, out) PROVE OutcomeOK(o, before, x.received)
  BY <1>1, SendStatsFacts
<1>2. ASSUME NEW w \in session.loss_windows \cup {0}, o \in Process(x, d, w, out)
      PROVE  OutcomeOK(o, before, x.received \cup {d.block})
  <2> DEFINE y == Accept(x, d, w)
  <2>1. w \in 0 .. BlockCount
    BY ReceiveAssumption
  <2>2. /\ Good(y) /\ y.received = x.received \cup {d.block}
        /\ TrackedBelow(y, y.next_block)
        /\ d.type = "terminate" => TrackedBelow(y, BlockCount)
    BY <2>1, AcceptFacts
  <2>3. \/ d.type # "terminate" /\ o \in SendStats(y, out)
        \/ d.type = "terminate" /\ Complete(y) /\ o \in Finish(y, out)
        \/ o \in AskForRest(y, out)
    BY <1>2 DEF Process
  <2> HIDE DEF y
  <2>4. before \subseteq y.received /\ FeedbackRight(out, before, y.received)
    BY <2>2, RightForLonger
  <2>5. ASSUME o \in SendStats(y, out) PROVE OutcomeOK(o, before, y.received)
    BY <2>2, <2>4, <2>5, SendStatsFacts
  <2>6. ASSUME d.type = "terminate", Complete(y), o \in Finish(y, out)
        PROVE  OutcomeOK(o, before, y.received)
    <3>1. BlockCount \in y.received
      BY <2>2, <2>6 DEF Readable
    <3> QED
      BY <2>2, <2>4, <2>6, <3>1, FinishFacts
  <2>7. ASSUME o \in AskForRest(y, out) PROVE OutcomeOK(o, before, y.received)
    BY <2>2, <2>4, <2>7, AskForRestFacts
  <2>8. OutcomeOK(o, before, y.received)
    BY <2>3, <2>5, <2>6, <2>7
  <2> QED
    BY <2>2, <2>8
<1>3. \/ o \in SendStats(x, out)
      \/ \E w \in session.loss_windows \cup {0} : o \in Process(x, d, w, out)
  BY DEF Turn, Processed
<1>4. \E received : OutcomeOK(o, before, received)
  BY <1>1, <1>2, <1>3
<1> QED
  BY <1>4 DEF OutcomeOK

-------------------------------------------------------------------------------
(* The inductive invariant.                                                *)

(* xfer is as Good and TrackedBelow have it, the loop's buffer holds what a*)
(* server may have sent or is blank, and a transfer that is over has what  *)
(* it should.                                                              *)
IInv ==
    /\ session \in Sessions
    /\ Good(xfer)
    /\ TrackedBelow(xfer, xfer.next_block)
    /\ local_datagram \in Readable
    /\ phase \in {"receiving", "stopped", "aborted"}
    /\ phase = "stopped" => Done(xfer)

(* What a step sends is right with respect to the blocks that had come     *)
(* before it and those that have come after it.                            *)
SendsRight == FeedbackRight(sent', xfer.received, xfer'.received)

LEMMA DatagramIsReadable ==
    Datagram \subseteq Readable
<1>1. BlockCount \in Nat
  BY ReceiveAssumption
<1> SUFFICES ASSUME NEW d \in Datagram PROVE d \in Readable
  OBVIOUS
<1>2. \/ d \in [block : 1 .. BlockCount-1, type : {"original"}]
      \/ d \in [block : {BlockCount}, type : {"terminate"}]
      \/ d \in [block : asked \cap Block, type : {"retransmission"}]
  BY DEF Datagram
<1> QED
  BY <1>1, <1>2 DEF Readable, Block

LEMMA IInvInit ==
    Init => IInv
<1> SUFFICES ASSUME Init PROVE IInv
  OBVIOUS
<1>1. /\ BlockCount \in Nat /\ TableLimit \in Nat /\ Width \in Nat
      /\ Width > 1 /\ Width > BlockCount
  BY ReceiveAssumption
<1>2. /\ xfer = NewTransfer /\ session \in Sessions /\ phase = "receiving"
      /\ local_datagram = [block |-> 0, type |-> "blank"]
  BY DEF Init
<1>3. <<>> \in Seq(0 .. BlockCount) /\ Len(<<>>) = 0
  BY EmptySeq
<1>4. /\ xfer \in Transfers /\ xfer.received = {} /\ xfer.blocks_left = BlockCount
      /\ xfer.gapless_to_block = 0 /\ xfer.next_block = 1 /\ xfer.table = <<>>
  BY <1>1, <1>2, <1>3 DEF NewTransfer, Transfers
<1>5. Lacking(xfer) = Block /\ Cardinality(Block) = BlockCount
  <2>1. Cardinality(1 .. BlockCount) = BlockCount
    BY <1>1, FS_Interval
  <2> QED
    BY <2>1, <1>4 DEF Lacking, Block
<1>6. Good(xfer)
  BY <1>1, <1>3, <1>4, <1>5 DEF Good, Counted, Prefixed
<1>7. TrackedBelow(xfer, xfer.next_block)
  <2>1. \A b \in Lacking(xfer) : b \in Nat
    BY <1>1, <1>5 DEF Block
  <2> QED
    BY <1>4, <2>1 DEF TrackedBelow
<1>8. local_datagram \in Readable
  BY <1>1, <1>2 DEF Readable
<1> QED
  BY <1>2, <1>6, <1>7, <1>8 DEF IInv

(* A turn keeps the invariant, and what it sends is right.                 *)
LEMMA ReceiveKeeps ==
    ASSUME IInv, NEW d \in Datagram, Receive(d)
    PROVE  IInv' /\ SendsRight
<1>1. d \in Readable
  BY DatagramIsReadable
<1>2. PICK o \in Turn(xfer, d, <<>>) : Take(o)
  BY DEF Receive
<1>3. OutcomeOK(o, xfer.received, o.xfer.received)
  <2>1. FeedbackRight(<<>>, xfer.received, xfer.received)
    BY RightForOthers
  <2> QED
    BY <1>1, <2>1, TurnFacts DEF IInv
<1>4. /\ xfer' = o.xfer /\ sent' = o.sent /\ phase' = o.phase /\ session' = session
      /\ local_datagram' = d
  BY <1>2 DEF Take, Receive
<1> QED
  BY <1>1, <1>3, <1>4 DEF IInv, SendsRight, OutcomeOK, Good, TrackedBelow, Done,
     Counted, Prefixed, Lacking

LEMMA ReceiveFailsKeeps ==
    ASSUME IInv, ReceiveFails
    PROVE  IInv' /\ SendsRight
<1> DEFINE r == Repeated(xfer)
           u == Unrepeated(xfer)
           asks == Requests(xfer)
<1>1. /\ Good(r) /\ r.received = xfer.received /\ TrackedBelow(r, r.next_block)
      /\ Good(u) /\ u.received = xfer.received /\ TrackedBelow(u, u.next_block)
  BY RepeatedFacts, UnrepeatedFacts DEF SameBlocks, IInv
<1>2. FeedbackRight(asks, xfer.received, r.received)
  BY <1>1, RequestsFacts DEF IInv
<1>3. PICK o : /\ Take(o)
               /\ \/ o \in Turn(r, local_datagram, asks)
                  \/ o \in {Outcome(r, <<>>, "aborted"), Outcome(u, <<>>, "aborted")}
  BY DEF ReceiveFails, IfFeedbackFails
<1> HIDE DEF r, u, asks
<1>4. OutcomeOK(o, xfer.received, o.xfer.received)
  <2>1. CASE o \in Turn(r, local_datagram, asks)
    <3>1. xfer.received \subseteq r.received
      BY <1>1
    <3> QED
      BY <1>1, <1>2, <2>1, <3>1, TurnFacts DEF IInv
  <2>2. CASE o \in {Outcome(r, <<>>, "aborted"), Outcome(u, <<>>, "aborted")}
    <3>1. FeedbackRight(<<>>, xfer.received, xfer.received)
      BY RightForOthers
    <3>2. OutcomeOK(o, xfer.received, xfer.received)
      BY <1>1, <2>2, <3>1, OutcomeFacts
    <3> QED
      BY <3>2 DEF OutcomeOK
  <2> QED
    BY <1>3, <2>1, <2>2
<1>5. /\ xfer' = o.xfer /\ sent' = o.sent /\ phase' = o.phase /\ session' = session
      /\ local_datagram' = local_datagram
  BY <1>3 DEF Take, ReceiveFails
<1> QED
  BY <1>4, <1>5 DEF IInv, SendsRight, OutcomeOK, Good, TrackedBelow, Done,
     Counted, Prefixed, Lacking

LEMMA StutterKeeps ==
    ASSUME IInv, UNCHANGED vars
    PROVE  IInv'
BY DEF IInv, vars, Good, TrackedBelow, Done, Counted, Prefixed, Lacking

LEMMA IInvNext ==
    ASSUME IInv, [Next]_vars
    PROVE  IInv' /\ (SendsRight \/ UNCHANGED vars)
<1>1. CASE \E d \in Datagram : Receive(d)
  BY <1>1, ReceiveKeeps
<1>2. CASE ReceiveFails
  BY <1>2, ReceiveFailsKeeps
<1>3. CASE Ended
  BY <1>3, StutterKeeps DEF Ended
<1>4. CASE UNCHANGED vars
  BY <1>4, StutterKeeps
<1> QED
  BY <1>1, <1>2, <1>3, <1>4 DEF Next

(* The inductive invariant holds.                                          *)
THEOREM Inductive == Spec => []IInv
<1>1. Init => IInv
  BY IInvInit
<1>2. IInv /\ [Next]_vars => IInv'
  BY IInvNext
<1> QED
  BY <1>1, <1>2, PTL DEF Spec

-------------------------------------------------------------------------------
(* The theorems.                                                           *)

(* TypeOK: every variable has its type; the table stays in its bounds, and *)
(* blocks_left and the bitmap in theirs.                                   *)
THEOREM TypeCorrect == Spec => []TypeOK
<1>1. IInv => TypeOK
  BY DEF IInv, TypeOK, Good
<1> QED
  BY <1>1, Inductive, PTL

(* BlocksLeftCounts: blocks_left counts the missing blocks, whatever       *)
(* arrives, how often and in which order.                                  *)
THEOREM BlocksLeftIsRight == Spec => []BlocksLeftCounts
<1>1. IInv => BlocksLeftCounts
  BY DEF IInv, Good, Counted, Lacking, BlocksLeftCounts, NoBlankCounted, Missing
<1> QED
  BY <1>1, Inductive, PTL

(* MissingIsTracked: as long as the table takes all, a block that has been *)
(* passed over and not given up is in it.                                  *)
THEOREM NoneOutOfSight == Spec => []MissingIsTracked
<1>1. IInv => MissingIsTracked
  BY DEF IInv, TrackedBelow, Lacking, MissingIsTracked, Missing
<1> QED
  BY <1>1, Inductive, PTL

(* LosslessIsComplete: a lossless transfer that told the server to stop has*)
(* every block, but for the blank buffer.                                  *)
THEOREM LosslessHasAll == Spec => []LosslessIsComplete
<1>1. IInv => LosslessIsComplete
  BY DEF IInv, Done, Lacking, LosslessIsComplete, NoBlankCounted, NoneLost, Missing
<1> QED
  BY <1>1, Inductive, PTL

(* NothingLeftPastGapless: with losses allowed, a transfer that is over has*)
(* all but what the loop hopped over or a full table dropped.              *)
THEOREM LossyHasTheRest == Spec => []NothingLeftPastGapless
<1>1. IInv => NothingLeftPastGapless
  BY DEF IInv, Done, NothingLeftPastGapless, NoBlankCounted
<1> QED
  BY <1>1, Inductive, PTL

(* AsksForMissing: only what was missing when the turn began is asked for  *)
(* again.                                                                  *)
THEOREM OnlyMissingAskedFor == Spec => AsksForMissing
<1>1. IInv /\ [Next]_vars =>
        [\A r \in Entries(sent') : r.type = "retransmit" => r.block \in Missing]_vars
  BY IInvNext DEF SendsRight, FeedbackRight, Right, Missing
<1> QED
  BY <1>1, Inductive, PTL DEF Spec, AsksForMissing

(* RestartsSkipNothing: no block before the one a lossless transfer starts *)
(* again from is missing.                                                  *)
THEOREM NoneBeforeRestart == Spec => RestartsSkipNothing
<1>1. IInv /\ [Next]_vars =>
        [\A r \in Entries(sent') : session.lossless /\ r.type = "restart" =>
            \A b \in Missing' : r.block <= b]_vars
  BY IInvNext DEF SendsRight, FeedbackRight, Right, Missing, Block
<1> QED
  BY <1>1, Inductive, PTL DEF Spec, RestartsSkipNothing
===============================================================================
