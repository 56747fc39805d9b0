-------------------------- MODULE ReadBatchProofs --------------------------
(***************************************************************************)
(* What batch reading does with the registers it is given: how they are    *)
(* grouped, for any list of registers, and how every batch accounts for    *)
(* them, for any failures and resets; and the delays and intervals of      *)
(* timing.ts, for any options and any length of time.                      *)
(***************************************************************************)
EXTENDS ReadBatch, MCHelpers, FiniteSetTheorems, WellFoundedInduction, TLAPS

-----------------------------------------------------------------------------
(* Counting *)

\* A set of numbers has a least one.
LEMMA Smallest ==
  ASSUME NEW T \in SUBSET Nat, T # {}
  PROVE  \E x \in T : \A y \in T : x <= y
<1>1. PICK x \in T : \A y \in T : ~ (<<y, x>> \in OpToRel(<, Nat))
  BY NatLessThanWellFounded, WFMin
<1>2. ASSUME NEW y \in T PROVE ~ (y < x)
  <2>1. y \in Nat /\ x \in Nat
    OBVIOUS
  <2> QED
    BY <1>1, <2>1, Zenon DEF OpToRel
<1> QED
  BY <1>2

\* What is so for 0, and for each next number, is so for all.
LEMMA Counting ==
  ASSUME NEW T \in SUBSET Nat, 0 \in T, \A n \in T : n + 1 \in T
  PROVE  T = Nat
<1> SUFFICES ASSUME Nat \ T # {} PROVE FALSE
  OBVIOUS
<1>1. PICK x \in Nat \ T : \A y \in Nat \ T : x <= y
  BY Smallest
<1>2. x # 0 /\ x - 1 \in Nat
  OBVIOUS
<1>3. x - 1 \in T
  BY <1>1, <1>2
<1>4. (x - 1) + 1 \in T
  BY <1>3
<1> QED
  BY <1>2, <1>4

-----------------------------------------------------------------------------
(* Sorting *)

\* What groupRegisters tells apart in a register.
Plain(D) ==
  \A r \in D : r.type \in {"holding", "input"} /\ r.address \in Int /\ r.size \in Nat \ {0}

\* The stable order is one of all positions.
LEMMA PrecedesOrders ==
  ASSUME NEW D, Plain(D), NEW r \in Seq(D), NEW i \in DOMAIN r, NEW j \in DOMAIN r
  PROVE  /\ ~ Precedes(r, i, i)
         /\ i # j => Precedes(r, i, j) \/ Precedes(r, j, i)
         /\ ~ (Precedes(r, i, j) /\ Precedes(r, j, i))
<1>1. r[i] \in D /\ r[j] \in D /\ i \in Nat /\ j \in Nat
  OBVIOUS
<1> QED
  BY <1>1 DEF Plain, Precedes, ComesBefore, TypeRank

LEMMA PrecedesIsTransitive ==
  ASSUME NEW D, Plain(D), NEW r \in Seq(D),
         NEW i \in DOMAIN r, NEW j \in DOMAIN r, NEW k \in DOMAIN r,
         Precedes(r, i, j), Precedes(r, j, k)
  PROVE  Precedes(r, i, k)
<1>1. r[i] \in D /\ r[j] \in D /\ r[k] \in D /\ i \in Nat /\ j \in Nat /\ k \in Nat
  OBVIOUS
<1> QED
  BY <1>1 DEF Plain, Precedes, ComesBefore, TypeRank

\* The position that a register gets.
Before(r, i) == {j \in DOMAIN r : Precedes(r, j, i)}
Rank(r, i) == Cardinality(Before(r, i)) + 1

LEMMA RankIsPosition ==
  ASSUME NEW D, Plain(D), NEW r \in Seq(D), NEW i \in DOMAIN r
  PROVE  Rank(r, i) \in DOMAIN r /\ IsFiniteSet(Before(r, i))
<1> DEFINE n == Len(r)
<1>1. n \in Nat /\ DOMAIN r = 1..n
  OBVIOUS
<1> HIDE DEF n
<1>2. IsFiniteSet(1..n) /\ Cardinality(1..n) = n
  BY <1>1, FS_Interval
<1>3. IsFiniteSet((1..n) \ {i}) /\ Cardinality((1..n) \ {i}) = n - 1
  BY <1>1, <1>2, FS_RemoveElement
<1>4. Before(r, i) \in SUBSET ((1..n) \ {i})
  BY <1>1, PrecedesOrders DEF Before
<1>5. IsFiniteSet(Before(r, i)) /\ Cardinality(Before(r, i)) <= n - 1
  BY <1>3, <1>4, FS_Subset
<1>6. Cardinality(Before(r, i)) \in Nat
  BY <1>5, FS_CardinalityType
<1> QED
  BY <1>1, <1>5, <1>6 DEF Rank

LEMMA RankFollowsOrder ==
  ASSUME NEW D, Plain(D), NEW r \in Seq(D), NEW i \in DOMAIN r, NEW j \in DOMAIN r, Precedes(r, i, j)
  PROVE  Rank(r, i) < Rank(r, j)
<1>1. IsFiniteSet(Before(r, i)) /\ IsFiniteSet(Before(r, j))
  BY RankIsPosition
<1>2. Before(r, i) \cup {i} \in SUBSET Before(r, j) /\ i \notin Before(r, i)
  BY PrecedesOrders, PrecedesIsTransitive DEF Before
<1>3. Cardinality(Before(r, i) \cup {i}) = Cardinality(Before(r, i)) + 1
  BY <1>1, <1>2, FS_AddElement
<1>4. Cardinality(Before(r, i) \cup {i}) <= Cardinality(Before(r, j))
  BY <1>1, <1>2, FS_Subset
<1>5. Cardinality(Before(r, i)) \in Nat /\ Cardinality(Before(r, j)) \in Nat
  BY <1>1, FS_CardinalityType
<1> QED
  BY <1>3, <1>4, <1>5 DEF Rank

\* The place in the list of the register at a position of the sorted list.
Origin(r, k) == CHOOSE i \in DOMAIN r : Rank(r, i) = k

LEMMA OriginFacts ==
  ASSUME NEW D, Plain(D), NEW r \in Seq(D)
  PROVE  /\ \A k \in DOMAIN r : Origin(r, k) \in DOMAIN r /\ Rank(r, Origin(r, k)) = k
         /\ \A i \in DOMAIN r : Origin(r, Rank(r, i)) = i
<1> DEFINE S == DOMAIN r
           f == [i \in S |-> Rank(r, i)]
<1>1. \A i, j \in S : Rank(r, i) = Rank(r, j) => i = j
  <2> SUFFICES ASSUME NEW i \in S, NEW j \in S, Rank(r, i) = Rank(r, j), i # j PROVE FALSE
    OBVIOUS
  <2>1. Precedes(r, i, j) \/ Precedes(r, j, i)
    BY PrecedesOrders
  <2>2. Rank(r, i) < Rank(r, j) \/ Rank(r, j) < Rank(r, i)
    BY <2>1, RankFollowsOrder
  <2>3. Rank(r, i) \in Nat /\ Rank(r, j) \in Nat
    BY RankIsPosition
  <2> QED
    BY <2>2, <2>3
<1>2. f \in [S -> S]
  BY RankIsPosition
<1>3. f \in Injection(S, S)
  BY <1>1, <1>2 DEF Injection, IsInjective
<1>4. IsFiniteSet(S)
  <2>1. S = 1..Len(r) /\ Len(r) \in Nat
    OBVIOUS
  <2> QED
    BY <2>1, FS_Interval
<1>5. f \in Surjection(S, S)
  BY <1>3, <1>4, FS_Injection
<1>6. \A k \in S : \E i \in S : Rank(r, i) = k
  BY <1>5 DEF Surjection
<1> QED
  BY <1>1, <1>6, RankIsPosition DEF Origin

\* The sorted list has the registers of the list, in the stable order.
LEMMA Sorting ==
  ASSUME NEW D, Plain(D), NEW r \in Seq(D)
  PROVE  LET s == SortRegisters(r)
         IN /\ s \in Seq(D) /\ Len(s) = Len(r)
            /\ \A k \in DOMAIN r : s[k] = r[Origin(r, k)]
            /\ \A k, l \in DOMAIN r : k < l => Precedes(r, Origin(r, k), Origin(r, l))
<1> DEFINE s == SortRegisters(r)
           n == Len(r)
<1>1. n \in Nat /\ DOMAIN r = 1..n
  OBVIOUS
<1>2. s = [k \in 1..n |-> r[Origin(r, k)]]
  BY <1>1 DEF SortRegisters, Origin, Rank, Before
<1>3. s \in [1..n -> D]
  BY <1>1, <1>2, OriginFacts
<1>4. s \in Seq(D) /\ Len(s) = n
  <2> HIDE DEF s, n
  <2> QED
    BY <1>1, <1>3
<1>5. ASSUME NEW k \in 1..n, NEW l \in 1..n, k < l PROVE Precedes(r, Origin(r, k), Origin(r, l))
  <2>1. /\ Origin(r, k) \in DOMAIN r /\ Origin(r, l) \in DOMAIN r
        /\ Rank(r, Origin(r, k)) = k /\ Rank(r, Origin(r, l)) = l
    BY <1>1, OriginFacts
  <2>2. ~ Precedes(r, Origin(r, l), Origin(r, k))
    BY <1>5, <2>1, RankFollowsOrder
  <2>3. Origin(r, l) # Origin(r, k)
    BY <1>5, <2>1
  <2> QED
    BY <2>1, <2>2, <2>3, PrecedesOrders
<1> QED
  BY <1>1, <1>2, <1>4, <1>5

-----------------------------------------------------------------------------
(* Grouping *)

\* What a request may read: registers of one type that follow each other.
Joined(g, max) ==
  /\ \A i, j \in 1..Len(g) : i < j =>
        g[i].type = g[j].type /\ g[i].address + g[i].size <= g[j].address
  /\ \A w \in GroupWords(g) : \E i \in 1..Len(g) : w \in Words(g[i])
  /\ Len(g) = 1 \/ Last(g).address + Last(g).size - Head(g).address <= max

\* The groups gs are the first n registers of s, cut after the positions c.
Cut(gs, s, n, c) ==
  /\ c \in [0..Len(gs) -> 0..n] /\ c[0] = 0 /\ c[Len(gs)] = n
  /\ \A g \in 1..Len(gs) :
        /\ c[g - 1] < c[g] /\ Len(gs[g]) = c[g] - c[g - 1]
        /\ \A i \in 1..Len(gs[g]) : gs[g][i] = s[c[g - 1] + i]

\* And no cut was made that was not needed.
Grouped(gs, s, n, c, D, max) ==
  /\ gs \in Seq(Seq(D)) /\ Cut(gs, s, n, c)
  /\ \A g \in 1..Len(gs) : Joined(gs[g], max)
  /\ \A g \in 1..(Len(gs) - 1) : ~ CanMerge(gs[g], s[c[g] + 1], max)

LEMMA EndsOfList ==
  ASSUME NEW D, NEW g \in Seq(D), Len(g) > 0
  PROVE  /\ Head(g) = g[1] /\ Last(g) = g[Len(g)] /\ Head(g) \in D /\ Last(g) \in D
         /\ 1 \in 1..Len(g) /\ Len(g) \in 1..Len(g)
BY DEF Last

LEMMA ListOfOne ==
  ASSUME NEW D, NEW x \in D
  PROVE  <<x>> \in Seq(D) /\ Len(<<x>>) = 1 /\ <<x>>[1] = x
OBVIOUS

LEMMA Appended ==
  ASSUME NEW D, NEW g \in Seq(D), NEW x \in D
  PROVE  /\ Append(g, x) \in Seq(D) /\ Len(Append(g, x)) = Len(g) + 1
         /\ \A i \in 1..Len(g) : Append(g, x)[i] = g[i]
         /\ Append(g, x)[Len(g) + 1] = x
         /\ Len(g) > 0 => Head(Append(g, x)) = Head(g)
         /\ Last(Append(g, x)) = x
<1>1. /\ Append(g, x) \in Seq(D) /\ Len(Append(g, x)) = Len(g) + 1
      /\ \A i \in 1..Len(g) : Append(g, x)[i] = g[i]
      /\ Append(g, x)[Len(g) + 1] = x /\ Len(g) \in Nat
  OBVIOUS
<1>2. Last(Append(g, x)) = x
  BY <1>1 DEF Last
<1>3. Len(g) > 0 => Head(Append(g, x)) = Head(g)
  BY <1>1, EndsOfList
<1> QED
  BY <1>1, <1>2, <1>3

LEMMA LastReplaced ==
  ASSUME NEW D, NEW g \in Seq(D), Len(g) > 0, NEW x \in D
  PROVE  LET h == Append(Front(g), x)
         IN /\ h \in Seq(D) /\ Len(h) = Len(g)
            /\ \A i \in 1..(Len(g) - 1) : h[i] = g[i]
            /\ h[Len(g)] = x
<1> DEFINE k == Len(g) - 1
<1>1. k \in Nat /\ Len(g) = k + 1 /\ k <= Len(g)
  OBVIOUS
<1> HIDE DEF k
<1>2. Front(g) = SubSeq(g, 1, k)
  BY DEF Front, k
<1>3. Len(SubSeq(g, 1, k)) = k /\ \A i \in 1..k : SubSeq(g, 1, k)[i] = g[i]
  BY <1>1
<1>4. SubSeq(g, 1, k) \in Seq(D)
  BY <1>1
<1>5. Len(g) - 1 = k
  BY <1>1
<1> QED
  BY <1>1, <1>2, <1>3, <1>4, <1>5, Appended

LEMMA JoinedAlone ==
  ASSUME NEW D, Plain(D), NEW x \in D, NEW max PROVE Joined(<<x>>, max)
<1>1. /\ Len(<<x>>) = 1 /\ <<x>>[1] = x /\ Head(<<x>>) = x /\ Last(<<x>>) = x
  BY DEF Last
<1> HIDE DEF Joined
<1> QED
  BY <1>1 DEF Joined, GroupWords, Words, Plain

LEMMA JoinedLonger ==
  ASSUME NEW D, Plain(D), NEW max, NEW g \in Seq(D), Len(g) > 0, NEW x \in D,
         Joined(g, max), CanMerge(g, x, max)
  PROVE  Joined(Append(g, x), max)
<1> DEFINE h == Append(g, x)
           k == Len(g)
<1>1. /\ Len(h) = k + 1 /\ h[k + 1] = x /\ \A i \in 1..k : h[i] = g[i]
      /\ Head(h) = Head(g) /\ Last(h) = x /\ k \in Nat \ {0}
  BY Appended
<1>2. /\ Head(g) = g[1] /\ Last(g) = g[k] /\ \A i \in 1..k : g[i] \in D
  BY EndsOfList
<1> HIDE DEF h, k
<1>3. x.type = g[1].type /\ x.address = g[k].address + g[k].size /\ x.address + x.size - g[1].address <= max
  BY <1>2 DEF CanMerge
<1>4. \A i, j \in 1..k : i < j => g[i].type = g[j].type /\ g[i].address + g[i].size <= g[j].address
  BY DEF Joined, k
<1>5. \A i \in 1..k : g[i].type = x.type /\ g[i].address + g[i].size <= x.address
  <2> SUFFICES ASSUME NEW i \in 1..k
               PROVE  g[i].type = x.type /\ g[i].address + g[i].size <= x.address
    OBVIOUS
  <2>1. g[i].type = g[1].type
    BY <1>1, <1>4
  <2>2. i = k \/ g[i].address + g[i].size <= g[k].address
    BY <1>1, <1>4
  <2>3. g[i] \in D /\ g[k] \in D /\ x \in D
    BY <1>1, <1>2
  <2> QED
    BY SMTT(60), <1>3, <2>1, <2>2, <2>3 DEF Plain
<1>6. ASSUME NEW i \in 1..(k + 1), NEW j \in 1..(k + 1), i < j
      PROVE  h[i].type = h[j].type /\ h[i].address + h[i].size <= h[j].address
  <2>1. i \in 1..k /\ (j = k + 1 \/ j \in 1..k)
    BY <1>1, <1>6
  <2> QED
    BY <1>1, <1>4, <1>5, <1>6, <2>1
<1>7. ASSUME NEW w \in GroupWords(h)
      PROVE  \E i \in 1..(k + 1) : w \in Words(h[i])
  <2>1. w \in Int /\ g[1].address <= w /\ w < x.address + x.size
    BY <1>1, <1>2 DEF GroupWords, Plain
  <2>2. CASE w >= x.address
    <3>1. w \in Words(h[k + 1])
      BY <1>1, <2>1, <2>2 DEF Words, Plain
    <3> QED
      BY <1>1, <3>1
  <2>3. CASE w < x.address
    <3>1. w \in GroupWords(g)
      <4>1. 1 \in 1..k /\ k \in 1..k
        BY <1>1
      <4>2. g[1] \in D /\ g[k] \in D
        BY <1>2, <4>1
      <4>3. /\ g[1].address \in Int /\ g[k].address \in Int /\ g[k].size \in Int /\ x.address \in Int
            /\ x.size \in Int
        BY <4>2 DEF Plain
      <4>4. GroupWords(g) = g[1].address..(g[k].address + g[k].size - 1)
        BY <1>2 DEF GroupWords
      <4> QED
        BY <1>3, <2>1, <2>3, <4>3, <4>4
    <3>2. PICK i \in 1..k : w \in Words(g[i])
      BY <3>1 DEF Joined, k
    <3> QED
      BY <1>1, <3>2
  <2>4. x.address \in Int
    BY DEF Plain
  <2> QED
    BY <2>1, <2>2, <2>3, <2>4
<1>8. Last(h).address + Last(h).size - Head(h).address <= max
  BY <1>1, <1>2, <1>3
<1> QED
  BY <1>1, <1>6, <1>7, <1>8 DEF Joined, h

\* One request can read registers that follow each other.
LEMMA JoinedIsReadable ==
  ASSUME NEW D, Plain(D), NEW max, NEW g \in Seq(D), Len(g) > 0, Joined(g, max)
  PROVE  ReadableAtOnce(g, max)
<1>1. DOMAIN g = 1..Len(g) /\ Len(g) \in Nat /\ Head(g) = g[1] /\ \A i \in 1..Len(g) : g[i] \in D
  BY EndsOfList
<1>2. \A i \in 1..Len(g) : g[i].type = Head(g).type
  BY <1>1 DEF Joined
<1>3. ASSUME NEW w \in GroupWords(g), NEW i \in 1..Len(g), w \in Words(g[i]),
             NEW j \in 1..Len(g), j # i, w \in Words(g[j])
      PROVE  FALSE
  <2>1. \/ g[i].address + g[i].size <= g[j].address
        \/ g[j].address + g[j].size <= g[i].address
    BY <1>1, <1>3 DEF Joined
  <2> QED
    BY SMTT(60), <1>1, <1>3, <2>1 DEF Words, Plain
<1>4. \A w \in GroupWords(g) :
        \E i \in 1..Len(g) : w \in Words(g[i]) /\ \A j \in 1..Len(g) \ {i} : w \notin Words(g[j])
  BY <1>3 DEF Joined
<1> QED
  BY <1>1, <1>2, <1>4 DEF Joined, ReadableAtOnce

\* One more register joins the last group or opens one.
LEMMA OneMoreGrouped ==
  ASSUME NEW D, Plain(D), NEW s \in Seq(D), NEW max, NEW n \in Nat, n < Len(s),
         NEW gs, NEW c, Grouped(gs, s, n, c, D, max)
  PROVE  \E d : Grouped(AddToGroups(gs, s[n + 1], max), s, n + 1, d, D, max)
<1> DEFINE x == s[n + 1]
           k == Len(gs)
           hs == AddToGroups(gs, x, max)
<1>1. x \in D /\ gs \in Seq(Seq(D)) /\ k \in Nat
  BY DEF Grouped
<1>2. /\ c \in [0..k -> 0..n] /\ c[0] = 0 /\ c[k] = n
      /\ \A g \in 1..k : /\ c[g - 1] < c[g] /\ Len(gs[g]) = c[g] - c[g - 1]
                         /\ \A i \in 1..Len(gs[g]) : gs[g][i] = s[c[g - 1] + i]
      /\ \A g \in 1..k : Joined(gs[g], max)
      /\ \A g \in 1..(k - 1) : ~ CanMerge(gs[g], s[c[g] + 1], max)
  BY DEF Grouped, Cut
<1>3. \A g \in 1..k : gs[g] \in Seq(D) /\ Len(gs[g]) \in Nat /\ c[g] \in Nat /\ c[g - 1] \in Nat
  <2> SUFFICES ASSUME NEW g \in 1..k PROVE gs[g] \in Seq(D) /\ c[g] \in 0..n /\ c[g - 1] \in 0..n
    OBVIOUS
  <2>1. g \in 0..k /\ g - 1 \in 0..k
    BY <1>1
  <2>2. c[g] \in 0..n /\ c[g - 1] \in 0..n
    BY <1>2, <2>1
  <2> QED
    BY <1>1, <2>2
<1>4. gs # <<>> <=> k > 0
  BY <1>1
<1>5. k > 0 => Last(gs) = gs[k]
  BY <1>1, EndsOfList
<1> HIDE DEF k, x
<1>6. CASE gs # <<>> /\ CanMerge(Last(gs), x, max)
  <2> DEFINE d == [m \in 0..k |-> IF m = k THEN n + 1 ELSE c[m]]
             h == Append(gs[k], x)
  <2>1. k > 0 /\ Last(gs) = gs[k] /\ gs[k] \in Seq(D) /\ Len(gs[k]) = n - c[k - 1] /\ Len(gs[k]) > 0
    BY <1>1, <1>2, <1>3, <1>4, <1>5, <1>6
  <2>2. hs = Append(Front(gs), h)
    BY <1>6, <2>1 DEF AddToGroups, x
  <2>3. h \in Seq(D)
    BY <1>1, <2>1, Appended
  <2>4. hs \in Seq(Seq(D)) /\ Len(hs) = k /\ hs[k] = h /\ \A g \in 1..(k - 1) : hs[g] = gs[g]
    BY <1>1, <2>1, <2>2, <2>3, LastReplaced DEF k
  <2>5. Len(h) = Len(gs[k]) + 1 /\ h[Len(gs[k]) + 1] = x /\ \A i \in 1..Len(gs[k]) : h[i] = gs[k][i]
    BY <1>1, <2>1, Appended
  <2>6. Joined(h, max)
    BY <1>1, <1>2, <1>6, <2>1, JoinedLonger
  <2> HIDE DEF h, hs
  <2>7. /\ d \in [0..k -> 0..(n + 1)] /\ d[0] = 0 /\ d[k] = n + 1
        /\ \A m \in 0..(k - 1) : d[m] = c[m]
    BY SMTT(60), <1>1, <1>2, <2>1
  <2> HIDE DEF d
  <2>8. ASSUME NEW g \in 1..k
        PROVE  /\ d[g - 1] < d[g] /\ Len(hs[g]) = d[g] - d[g - 1]
               /\ \A i \in 1..Len(hs[g]) : hs[g][i] = s[d[g - 1] + i]
    <3>1. CASE g < k
      <4>1. g \in 1..(k - 1) /\ g \in 0..(k - 1) /\ g - 1 \in 0..(k - 1)
        BY <1>1, <3>1
      <4>2. hs[g] = gs[g] /\ d[g] = c[g] /\ d[g - 1] = c[g - 1]
        BY <2>4, <2>7, <4>1
      <4> QED
        BY <1>2, <4>2
    <3>2. CASE g = k
      <4>0. k \in 1..k /\ k - 1 \in 0..(k - 1)
        BY <1>1, <2>1
      <4>1. d[k - 1] = c[k - 1] /\ c[k - 1] \in Nat /\ c[k - 1] < n /\ Len(h) = (n + 1) - c[k - 1]
        BY SMTT(60), <1>2, <1>3, <2>1, <2>5, <2>7, <4>0
      <4>2. ASSUME NEW i \in 1..Len(h) PROVE h[i] = s[c[k - 1] + i]
        <5>1. CASE i = Len(gs[k]) + 1
          <6>1. h[i] = x /\ c[k - 1] + i = n + 1
            BY <2>1, <2>5, <4>1, <5>1
          <6> QED
            BY <6>1 DEF x
        <5>2. CASE i # Len(gs[k]) + 1
          <6>1. i \in 1..Len(gs[k])
            BY <2>1, <2>5, <5>2
          <6>2. k \in 1..k
            BY <1>1, <2>1
          <6>3. h[i] = gs[k][i] /\ gs[k][i] = s[c[k - 1] + i]
            BY <1>2, <2>5, <6>1, <6>2
          <6> QED
            BY <6>3
        <5> QED
          BY <5>1, <5>2
      <4> QED
        BY <2>4, <2>7, <3>2, <4>1, <4>2
    <3>3. g < k \/ g = k
      BY <1>1
    <3> QED
      BY <3>1, <3>2, <3>3, Zenon
  <2>9. \A g \in 1..k : Joined(hs[g], max)
    <3>1. \A g \in 1..k : g \in 1..(k - 1) \/ g = k
      BY <1>1
    <3> QED
      BY <1>2, <2>4, <2>6, <3>1
  <2>10. \A g \in 1..(k - 1) : ~ CanMerge(hs[g], s[d[g] + 1], max)
    <3>1. \A g \in 1..(k - 1) : g \in 0..(k - 1)
      BY <1>1
    <3>2. \A g \in 1..(k - 1) : hs[g] = gs[g] /\ d[g] = c[g]
      BY <2>4, <2>7, <3>1
    <3> QED
      BY <1>2, <3>2
  <2>11. Grouped(hs, s, n + 1, d, D, max)
    BY <2>4, <2>7, <2>8, <2>9, <2>10 DEF Grouped, Cut
  <2> QED
    BY <2>11 DEF hs, x
<1>7. CASE ~ (gs # <<>> /\ CanMerge(Last(gs), x, max))
  <2> DEFINE d == [m \in 0..(k + 1) |-> IF m = k + 1 THEN n + 1 ELSE c[m]]
             h == <<x>>
  <2>1. hs = Append(gs, h)
    BY <1>7 DEF AddToGroups, x
  <2>2. h \in Seq(D) /\ Len(h) = 1 /\ h[1] = x /\ Joined(h, max)
    BY <1>1, ListOfOne, JoinedAlone
  <2> HIDE DEF h
  <2>3. hs \in Seq(Seq(D)) /\ Len(hs) = k + 1 /\ hs[k + 1] = h /\ \A g \in 1..k : hs[g] = gs[g]
    BY <1>1, <2>1, <2>2, Appended DEF k
  <2> HIDE DEF hs
  <2>4. /\ d \in [0..(k + 1) -> 0..(n + 1)] /\ d[0] = 0 /\ d[k + 1] = n + 1
        /\ \A m \in 0..k : d[m] = c[m]
    BY <1>1, <1>2
  <2> HIDE DEF d
  <2>5. ASSUME NEW g \in 1..(k + 1)
        PROVE  /\ d[g - 1] < d[g] /\ Len(hs[g]) = d[g] - d[g - 1]
               /\ \A i \in 1..Len(hs[g]) : hs[g][i] = s[d[g - 1] + i]
    <3>1. CASE g <= k
      <4>1. g \in 1..k /\ g \in 0..k /\ g - 1 \in 0..k
        BY <1>1, <3>1
      <4>2. hs[g] = gs[g] /\ d[g] = c[g] /\ d[g - 1] = c[g - 1]
        BY <2>3, <2>4, <4>1
      <4> QED
        BY <1>2, <4>1, <4>2
    <3>2. CASE g = k + 1
      <4>1. g - 1 = k /\ k \in 0..k
        BY <1>1, <3>2
      <4>2. d[g - 1] = n /\ d[g] = n + 1 /\ hs[g] = h
        BY <1>2, <2>3, <2>4, <3>2, <4>1
      <4>3. h[1] = s[n + 1]
        BY <2>2 DEF x
      <4>4. \A i \in 1..Len(h) : i = 1
        BY <2>2
      <4>5. n + 1 - n = 1 /\ n < n + 1
        OBVIOUS
      <4>6. \A i \in 1..Len(h) : h[i] = s[n + i]
        BY <4>3, <4>4
      <4>7. Len(h) = n + 1 - n
        BY <2>2, <4>5
      <4>8. d[g - 1] < d[g] /\ Len(hs[g]) = d[g] - d[g - 1]
        BY <4>2, <4>5, <4>7
      <4>9. \A i \in 1..Len(hs[g]) : hs[g][i] = s[d[g - 1] + i]
        BY <4>2, <4>6
      <4> QED
        BY <4>8, <4>9
    <3> QED
      BY <1>1, <3>1, <3>2
  <2>6. \A g \in 1..(k + 1) : Joined(hs[g], max)
    <3>1. \A g \in 1..(k + 1) : g \in 1..k \/ g = k + 1
      BY <1>1
    <3> QED
      BY <1>2, <2>2, <2>3, <3>1
  <2>7. \A g \in 1..k : ~ CanMerge(hs[g], s[d[g] + 1], max)
    <3> SUFFICES ASSUME NEW g \in 1..k PROVE ~ CanMerge(hs[g], s[d[g] + 1], max)
      OBVIOUS
    <3>1. hs[g] = gs[g] /\ d[g] = c[g]
      BY <1>1, <2>3, <2>4
    <3>2. CASE g < k
      <4>1. g \in 1..(k - 1)
        BY <1>1, <3>2
      <4> QED
        BY <1>2, <3>1, <4>1
    <3>3. CASE g = k
      <4>1. ~ CanMerge(gs[g], x, max)
        BY <1>1, <1>4, <1>5, <1>7, <3>3
      <4>2. c[g] = n
        BY <1>2, <3>3
      <4> QED
        BY <3>1, <4>1, <4>2 DEF x
    <3> QED
      BY <1>1, <3>2, <3>3
  <2>8. Len(hs) - 1 = k
    BY <1>1, <2>3
  <2>9. Grouped(hs, s, n + 1, d, D, max)
    BY <2>3, <2>4, <2>5, <2>6, <2>7, <2>8 DEF Grouped, Cut
  <2> QED
    BY <2>9 DEF hs, x
<1> QED
  BY <1>6, <1>7

\* The groups of the first registers, step by step.
Grouping(f, s, max, k) ==
  f = [n \in 0..k |-> IF n = 0 THEN <<>> ELSE AddToGroups(f[n - 1], s[n], max)]

LEMMA GroupingExists ==
  ASSUME NEW s, NEW max, NEW k \in Nat
  PROVE  \E f : Grouping(f, s, max, k)
<1> DEFINE T == {n \in Nat : \E f : Grouping(f, s, max, n)}
<1>1. 0 \in T
  <2>1. Grouping([m \in 0..0 |-> <<>>], s, max, 0)
    BY DEF Grouping
  <2> QED
    BY <2>1
<1>2. ASSUME NEW n \in T PROVE n + 1 \in T
  <2>1. PICK g : Grouping(g, s, max, n)
    OBVIOUS
  <2> DEFINE h == [m \in 0..(n + 1) |-> IF m <= n THEN g[m] ELSE AddToGroups(g[n], s[n + 1], max)]
  <2>2. ASSUME NEW m \in 0..(n + 1)
        PROVE  h[m] = IF m = 0 THEN <<>> ELSE AddToGroups(h[m - 1], s[m], max)
    <3>1. CASE m = n + 1
      BY <3>1
    <3>2. CASE m # n + 1
      <4>1. m \in 0..n /\ h[m] = g[m] /\ (m # 0 => h[m - 1] = g[m - 1])
        BY <3>2
      <4> QED
        BY <2>1, <4>1 DEF Grouping
    <3> QED
      BY <3>1, <3>2
  <2>3. Grouping(h, s, max, n + 1)
    BY <2>2 DEF Grouping
  <2> QED
    BY <2>3
<1> HIDE DEF T
<1>3. T = Nat
  BY <1>1, <1>2, Counting DEF T
<1> QED
  BY <1>3 DEF T

LEMMA Groups ==
  ASSUME NEW D, Plain(D), NEW r \in Seq(D), NEW max
  PROVE  \E c : Grouped(GroupRegisters(r, max), SortRegisters(r), Len(r), c, D, max)
<1> DEFINE s == SortRegisters(r)
           k == Len(r)
           f == CHOOSE f : Grouping(f, s, max, k)
<1>1. k \in Nat /\ s \in Seq(D) /\ Len(s) = k
  BY Sorting
<1>2. Grouping(f, s, max, k)
  BY <1>1, GroupingExists
<1>3. GroupRegisters(r, max) = f[k]
  BY DEF GroupRegisters, Grouping
<1> HIDE DEF f, s, k
<1>4. \A n \in 0..k : f[n] = IF n = 0 THEN <<>> ELSE AddToGroups(f[n - 1], s[n], max)
  BY <1>1, <1>2 DEF Grouping
<1> DEFINE T == {n \in Nat : n <= k => \E c : Grouped(f[n], s, n, c, D, max)}
<1>5. 0 \in T
  <2>1. f[0] = <<>>
    BY <1>1, <1>4
  <2>2. Grouped(<<>>, s, 0, [m \in 0..0 |-> 0], D, max)
    BY DEF Grouped, Cut
  <2> QED
    BY <2>1, <2>2
<1>6. ASSUME NEW n \in T PROVE n + 1 \in T
  <2> SUFFICES ASSUME n + 1 <= k PROVE \E c : Grouped(f[n + 1], s, n + 1, c, D, max)
    OBVIOUS
  <2>1. PICK c : Grouped(f[n], s, n, c, D, max)
    BY <1>1
  <2>2. f[n + 1] = AddToGroups(f[n], s[n + 1], max)
    BY <1>1, <1>4
  <2> QED
    BY <1>1, <2>1, <2>2, OneMoreGrouped
<1> HIDE DEF T
<1>7. T = Nat
  BY <1>5, <1>6, Counting DEF T
<1>8. \E c : Grouped(f[k], s, k, c, D, max)
  BY <1>1, <1>7 DEF T
<1> QED
  BY <1>3, <1>8 DEF s, k

\* A request that leaves out the next register could not have read it.
LEMMA NotReadable ==
  ASSUME NEW D, Plain(D), NEW max, NEW g \in Seq(D), Len(g) > 0, NEW x \in D,
         Joined(g, max), ~ CanMerge(g, x, max),
         x.type = Last(g).type => Last(g).address <= x.address
  PROVE  ~ ReadableAtOnce(Append(g, x), max)
<1> DEFINE h == Append(g, x)
           k == Len(g)
<1> SUFFICES ASSUME ReadableAtOnce(h, max) PROVE FALSE
  OBVIOUS
<1>1. /\ Len(h) = k + 1 /\ h[k + 1] = x /\ \A i \in 1..k : h[i] = g[i]
      /\ Head(h) = Head(g) /\ Last(h) = x /\ k \in Nat \ {0} /\ DOMAIN h = 1..(k + 1)
  BY Appended
<1>2. /\ Head(g) = g[1] /\ Last(g) = g[k] /\ \A i \in 1..k : g[i] \in D
  BY EndsOfList
<1>3. \A i, j \in 1..k : i < j => g[i].type = g[j].type /\ g[i].address + g[i].size <= g[j].address
  BY DEF Joined
<1> HIDE DEF h, k
<1>4. /\ \A i \in 1..(k + 1) : h[i].type = g[1].type
      /\ \A w \in GroupWords(h) : \E i \in 1..(k + 1) :
           w \in Words(h[i]) /\ \A j \in 1..(k + 1) \ {i} : w \notin Words(h[j])
      /\ k + 1 = 1 \/ x.address + x.size - g[1].address <= max
  BY <1>1, <1>2 DEF ReadableAtOnce
<1>5. 1 \in 1..k /\ k \in 1..k /\ k \in 1..(k + 1) /\ k + 1 \in 1..(k + 1) /\ k + 1 # 1 /\ k # k + 1
  BY <1>1
<1>6. x.type = g[1].type /\ x.type = g[k].type /\ x.address + x.size - g[1].address <= max
  BY <1>1, <1>4, <1>5
<1>7. x.address # g[k].address + g[k].size
  BY <1>2, <1>6 DEF CanMerge
<1>8. g[1] \in D /\ g[k] \in D
  BY <1>2, <1>5
<1>9. /\ g[1].address \in Int /\ g[1].size \in Nat \ {0} /\ g[k].address \in Int /\ g[k].size \in Nat \ {0}
      /\ x.address \in Int /\ x.size \in Nat \ {0}
  BY <1>8 DEF Plain
<1>10. g[1].address <= g[k].address /\ g[k].address <= x.address
  <2>1. 1 = k \/ g[1].address + g[1].size <= g[k].address
    BY <1>1, <1>3, <1>5
  <2>2. g[k].address <= x.address
    BY <1>2, <1>6
  <2> QED
    BY <1>9, <2>1, <2>2
<1>11. GroupWords(h) = g[1].address..(x.address + x.size - 1)
  BY <1>1, <1>2 DEF GroupWords
<1>12. CASE x.address > g[k].address + g[k].size
  <2> DEFINE w == g[k].address + g[k].size
  <2>1. w \in GroupWords(h)
    <3>1. w \in Int /\ g[k].address <= w
      BY <1>9
    <3>2. g[1].address <= w
      BY <1>9, <1>10, <3>1
    <3>3. w <= x.address + x.size - 1
      BY <1>9, <1>12, <3>1
    <3>4. x.address + x.size - 1 \in Int
      BY <1>9
    <3> HIDE DEF w
    <3> QED
      BY <1>9, <1>11, <3>1, <3>2, <3>3, <3>4
  <2>2. PICK i \in 1..(k + 1) : w \in Words(h[i])
    BY <1>4, <2>1
  <2>3. i # k + 1
    BY <1>1, <1>9, <1>12, <2>2 DEF Words
  <2>4. i \in 1..k /\ h[i] = g[i] /\ g[i] \in D
    BY <1>1, <1>2, <2>3
  <2>5. i = k \/ g[i].address + g[i].size <= g[k].address
    BY <1>1, <1>3, <1>5, <2>4
  <2>6. g[i].address \in Int /\ g[i].size \in Nat \ {0}
    BY <2>4 DEF Plain
  <2>7. w < g[i].address + g[i].size
    BY <1>9, <2>2, <2>4, <2>6 DEF Words
  <2> QED
    BY SMTT(60), <1>9, <2>5, <2>6, <2>7
<1>13. CASE x.address < g[k].address + g[k].size
  <2>1. x.address \in GroupWords(h)
    BY <1>9, <1>10, <1>11
  <2>2. x.address \in Words(h[k]) /\ x.address \in Words(h[k + 1])
    BY SMTT(60), <1>1, <1>5, <1>9, <1>10, <1>13 DEF Words
  <2>3. PICK i \in 1..(k + 1) : \A j \in 1..(k + 1) \ {i} : x.address \notin Words(h[j])
    BY <1>4, <2>1
  <2> QED
    BY <1>5, <2>2, <2>3
<1> QED
  BY SMTT(60), <1>7, <1>9, <1>12, <1>13

\* The lists of the first groups, step by step.
Flattening(f, gs, k) ==
  f = [i \in 1..k |-> IF i = 1 THEN gs[i] ELSE f[i - 1] \o gs[i]]

LEMMA FlatteningExists ==
  ASSUME NEW gs, NEW k \in Nat
  PROVE  \E f : Flattening(f, gs, k)
<1> DEFINE T == {n \in Nat : \E f : Flattening(f, gs, n)}
<1>1. 0 \in T
  <2>1. Flattening([m \in 1..0 |-> <<>>], gs, 0)
    BY DEF Flattening
  <2> QED
    BY <2>1
<1>2. ASSUME NEW n \in T PROVE n + 1 \in T
  <2>1. PICK g : Flattening(g, gs, n)
    OBVIOUS
  <2> DEFINE last == IF n = 0 THEN gs[1] ELSE g[n] \o gs[n + 1]
             h == [m \in 1..(n + 1) |-> IF m <= n THEN g[m] ELSE last]
  <2>2. ASSUME NEW m \in 1..(n + 1)
        PROVE  h[m] = IF m = 1 THEN gs[m] ELSE h[m - 1] \o gs[m]
    <3>1. CASE m = n + 1
      BY <3>1
    <3>2. CASE m # n + 1
      <4>1. m \in 1..n /\ h[m] = g[m] /\ (m # 1 => h[m - 1] = g[m - 1])
        BY <3>2
      <4> QED
        BY <2>1, <4>1 DEF Flattening
    <3> QED
      BY <3>1, <3>2
  <2>3. Flattening(h, gs, n + 1)
    BY <2>2 DEF Flattening
  <2> QED
    BY <2>3
<1> HIDE DEF T
<1>3. T = Nat
  BY <1>1, <1>2, Counting DEF T
<1> QED
  BY <1>3 DEF T

\* A list that is s up to n, and one that is s from p + 1 to q.
Begins(l, s, n, D) ==
  l \in Seq(D) /\ Len(l) = n /\ \A j \in 1..n : l[j] = s[j]

Continues(l, s, p, q, D) ==
  l \in Seq(D) /\ Len(l) = q - p /\ \A j \in 1..Len(l) : l[j] = s[p + j]

LEMMA Concatenated ==
  ASSUME NEW D, NEW s, NEW a, NEW b, NEW p \in Nat, NEW q \in Nat,
         Begins(a, s, p, D), Continues(b, s, p, q, D)
  PROVE  Begins(a \o b, s, q, D)
<1>0. /\ a \in Seq(D) /\ Len(a) = p /\ \A j \in 1..p : a[j] = s[j]
      /\ b \in Seq(D) /\ Len(b) = q - p /\ \A j \in 1..Len(b) : b[j] = s[p + j]
  BY DEF Begins, Continues
<1>1. /\ a \o b \in Seq(D) /\ Len(a \o b) = q
      /\ \A j \in 1..p : (a \o b)[j] = a[j]
      /\ \A j \in (p + 1)..q : (a \o b)[j] = b[j - p]
  BY SMTT(60), <1>0
<1>2. ASSUME NEW j \in (p + 1)..q PROVE (a \o b)[j] = s[j]
  <2>1. j - p \in 1..Len(b) /\ p + (j - p) = j
    BY <1>0
  <2>2. b[j - p] = s[p + (j - p)]
    BY <1>0, <2>1
  <2> QED
    BY <1>1, <2>1, <2>2
<1>3. \A j \in 1..q : j \in 1..p \/ j \in (p + 1)..q
  OBVIOUS
<1> QED
  BY <1>0, <1>1, <1>2, <1>3 DEF Begins

\* The lists of the groups up to each are the list up to the cut after it.
LEMMA Flattened ==
  ASSUME NEW D, NEW s, NEW gs, NEW k \in Nat \ {0}, NEW c, NEW f,
         \A i \in 0..k : c[i] \in Nat, c[0] = 0,
         \A g \in 1..k : Continues(gs[g], s, c[g - 1], c[g], D),
         Flattening(f, gs, k)
  PROVE  Begins(f[k], s, c[k], D)
<1> DEFINE T == {m \in Nat : m + 1 <= k => Begins(f[m + 1], s, c[m + 1], D)}
<1>1. \A i \in 1..k : f[i] = IF i = 1 THEN gs[i] ELSE f[i - 1] \o gs[i]
  BY DEF Flattening
<1>2. 0 \in T
  <2>1. 1 \in 1..k /\ 1 - 1 = 0 /\ 1 \in 0..k
    OBVIOUS
  <2>2. f[1] = gs[1] /\ Continues(gs[1], s, 0, c[1], D) /\ c[1] \in Nat
    BY <1>1, <2>1
  <2>3. Begins(gs[1], s, c[1], D)
    BY <2>2 DEF Begins, Continues
  <2> QED
    BY <2>2, <2>3
<1>3. ASSUME NEW m \in T PROVE m + 1 \in T
  <2> SUFFICES ASSUME m + 2 <= k PROVE Begins(f[m + 2], s, c[m + 2], D)
    OBVIOUS
  <2> DEFINE e == m + 1
  <2>1. e \in 1..k /\ e + 1 \in 1..k /\ e + 1 # 1 /\ (e + 1) - 1 = e /\ e \in 0..k /\ e + 1 \in 0..k /\ e + 1 = m + 2
    OBVIOUS
  <2>2. Begins(f[e], s, c[e], D)
    OBVIOUS
  <2> HIDE DEF e
  <2>3. f[e + 1] = f[e] \o gs[e + 1]
    BY <1>1, <2>1
  <2>4. Continues(gs[e + 1], s, c[e], c[e + 1], D)
    BY <2>1
  <2>5. c[e] \in Nat /\ c[e + 1] \in Nat
    BY <2>1
  <2>6. Begins(f[e] \o gs[e + 1], s, c[e + 1], D)
    BY <2>2, <2>4, <2>5, Concatenated
  <2> QED
    BY <2>1, <2>3, <2>6
<1> HIDE DEF T
<1>4. T = Nat
  BY <1>2, <1>3, Counting DEF T
<1>5. k - 1 \in T /\ (k - 1) + 1 = k
  BY <1>4
<1> QED
  BY <1>5 DEF T

\* The groups in turn are the list that was cut.
LEMMA GroupsInTurn ==
  ASSUME NEW D, NEW s \in Seq(D), NEW gs \in Seq(Seq(D)), NEW c, Cut(gs, s, Len(s), c)
  PROVE  FlattenSeq(gs) = s
<1> DEFINE k == Len(gs)
           n == Len(s)
           f == CHOOSE f : Flattening(f, gs, k)
<1>1. k \in Nat /\ n \in Nat /\ \A g \in 1..k : gs[g] \in Seq(D)
  OBVIOUS
<1>2. /\ c \in [0..k -> 0..n] /\ c[0] = 0 /\ c[k] = n
      /\ \A g \in 1..k : /\ c[g - 1] < c[g] /\ Len(gs[g]) = c[g] - c[g - 1]
                         /\ \A i \in 1..Len(gs[g]) : gs[g][i] = s[c[g - 1] + i]
  BY DEF Cut
<1>3. CASE k = 0
  <2>1. n = 0
    BY <1>2, <1>3
  <2>2. s = <<>> /\ gs = <<>>
    BY <1>3, <2>1
  <2> QED
    BY <1>3, <2>2 DEF FlattenSeq
<1>4. CASE k # 0
  <2>1. Flattening(f, gs, k)
    BY <1>1, FlatteningExists
  <2>2. FlattenSeq(gs) = f[k]
    BY <1>4 DEF FlattenSeq, Flattening
  <2> HIDE DEF f, k, n
  <2>3. \A i \in 0..k : c[i] \in Nat
    BY <1>1, <1>2
  <2>4. \A g \in 1..k : Continues(gs[g], s, c[g - 1], c[g], D)
    BY <1>1, <1>2 DEF Continues
  <2>5. Begins(f[k], s, n, D)
    BY <1>1, <1>2, <1>4, <2>1, <2>3, <2>4, Flattened
  <2>6. f[k] \in Seq(D) /\ Len(f[k]) = Len(s) /\ \A j \in 1..Len(s) : f[k][j] = s[j]
    BY <2>5 DEF Begins, n
  <2>7. f[k] = s
    BY <2>6
  <2> QED
    BY <2>2, <2>7
<1> QED
  BY <1>3, <1>4

\* groupRegisters on any list of registers: the groups in turn are the sorted
\* list, one request can read each, and none could have read more.
LEMMA GroupsAreRight ==
  ASSUME NEW D, Plain(D), NEW r \in Seq(D), NEW max
  PROVE  LET gs == GroupRegisters(r, max)
         IN /\ gs \in Seq(Seq(D)) /\ FlattenSeq(gs) = SortRegisters(r)
            /\ \A g \in 1..Len(gs) : Len(gs[g]) > 0 /\ ReadableAtOnce(gs[g], max)
            /\ \A g \in 1..(Len(gs) - 1) : ~ Joinable(gs, g, max)
<1> DEFINE gs == GroupRegisters(r, max)
           s == SortRegisters(r)
           n == Len(r)
           k == Len(gs)
<1>1. /\ n \in Nat /\ DOMAIN r = 1..n /\ s \in Seq(D) /\ Len(s) = n
      /\ \A i \in 1..n : s[i] = r[Origin(r, i)] /\ Origin(r, i) \in DOMAIN r
      /\ \A i, j \in 1..n : i < j => Precedes(r, Origin(r, i), Origin(r, j))
  <2>1. n \in Nat /\ DOMAIN r = 1..n
    OBVIOUS
  <2>2. /\ s \in Seq(D) /\ Len(s) = n
        /\ \A i \in DOMAIN r : s[i] = r[Origin(r, i)]
        /\ \A i, j \in DOMAIN r : i < j => Precedes(r, Origin(r, i), Origin(r, j))
    BY Sorting
  <2>3. \A i \in DOMAIN r : Origin(r, i) \in DOMAIN r
    BY OriginFacts
  <2> QED
    BY <2>1, <2>2, <2>3
<1>2. PICK c : Grouped(gs, s, n, c, D, max)
  BY Groups
<1> HIDE DEF gs, s, n
<1>3. gs \in Seq(Seq(D)) /\ k \in Nat /\ \A g \in 1..k : gs[g] \in Seq(D)
  BY <1>2 DEF Grouped
<1>4. FlattenSeq(gs) = s
  BY <1>1, <1>2, <1>3, GroupsInTurn DEF Grouped
<1> HIDE DEF k
<1>5. /\ c \in [0..k -> 0..n] /\ c[0] = 0 /\ c[k] = n
      /\ \A g \in 1..k : /\ c[g - 1] < c[g] /\ Len(gs[g]) = c[g] - c[g - 1]
                         /\ \A i \in 1..Len(gs[g]) : gs[g][i] = s[c[g - 1] + i]
      /\ \A g \in 1..k : Joined(gs[g], max)
      /\ \A g \in 1..(k - 1) : ~ CanMerge(gs[g], s[c[g] + 1], max)
  BY <1>2 DEF Grouped, Cut, k
<1>6. \A g \in 1..k : c[g - 1] \in 0..n /\ c[g] \in 0..n /\ Len(gs[g]) > 0
  <2> SUFFICES ASSUME NEW g \in 1..k PROVE c[g - 1] \in 0..n /\ c[g] \in 0..n /\ Len(gs[g]) > 0
    OBVIOUS
  <2>1. g \in 0..k /\ g - 1 \in 0..k
    BY <1>3
  <2>2. c[g - 1] \in 0..n /\ c[g] \in 0..n
    BY <1>5, <2>1
  <2>3. Len(gs[g]) = c[g] - c[g - 1] /\ c[g - 1] < c[g]
    BY <1>5
  <2> QED
    BY <1>1, <2>2, <2>3
<1>7. \A g \in 1..k : ReadableAtOnce(gs[g], max)
  BY <1>3, <1>5, <1>6, JoinedIsReadable
<1>8. ASSUME NEW g \in 1..(k - 1) PROVE ~ Joinable(gs, g, max)
  <2> DEFINE a == gs[g]
             x == s[c[g] + 1]
             m == c[g]
  <2>1. g \in 1..k /\ g + 1 \in 1..k /\ (g + 1) - 1 = g
    BY <1>3
  <2>2. a \in Seq(D) /\ Len(a) > 0 /\ Joined(a, max) /\ ~ CanMerge(a, x, max)
    BY <1>3, <1>5, <1>6, <2>1
  <2>3. m \in 1..n /\ m + 1 \in 1..n
    <3>1. c[g - 1] < c[g] /\ c[g - 1] \in 0..n /\ c[g] \in 0..n /\ c[g + 1] \in 0..n
      BY <1>5, <1>6, <2>1
    <3>2. c[(g + 1) - 1] < c[g + 1]
      BY <1>5, <2>1
    <3>3. c[g] < c[g + 1]
      BY <2>1, <3>2
    <3> HIDE DEF x, a
    <3>4. m \in 0..n /\ c[g - 1] \in Nat /\ c[g - 1] < m /\ m < c[g + 1] /\ c[g + 1] \in Nat /\ c[g + 1] <= n
      BY SMTT(60), <1>1, <3>1, <3>3
    <3>5. n \in Nat
      BY <1>1
    <3> HIDE DEF m
    <3> QED
      BY <3>4, <3>5
  <2>4. Head(gs[g + 1]) = x
    <3>1. gs[g + 1] \in Seq(D) /\ Len(gs[g + 1]) > 0
      BY <1>3, <1>6, <2>1
    <3>2. Head(gs[g + 1]) = gs[g + 1][1] /\ 1 \in 1..Len(gs[g + 1])
      BY <3>1, EndsOfList
    <3>3. gs[g + 1][1] = s[c[(g + 1) - 1] + 1]
      BY <1>5, <2>1, <3>2
    <3> QED
      BY <2>1, <3>2, <3>3
  <2>5. Last(a) = s[m]
    <3>1. Last(a) = a[Len(a)] /\ Len(a) \in 1..Len(a)
      BY <2>2, EndsOfList
    <3>2. a[Len(a)] = s[c[g - 1] + Len(a)] /\ Len(a) = c[g] - c[g - 1]
      BY <1>5, <2>1, <3>1
    <3>3. c[g - 1] + (c[g] - c[g - 1]) = c[g]
      BY <1>1, <1>6, <2>1
    <3> QED
      BY <3>1, <3>2, <3>3
  <2> HIDE DEF m
  <2>6. Precedes(r, Origin(r, m), Origin(r, m + 1)) /\ s[m] = r[Origin(r, m)] /\ s[m + 1] = r[Origin(r, m + 1)]
    BY <1>1, <2>3
  <2>7. s[m] \in D /\ s[m + 1] \in D /\ x = s[m + 1]
    BY <1>1, <2>3 DEF m
  <2> HIDE DEF x, a
  <2>8. x.type = Last(a).type => Last(a).address <= x.address
    <3>1. ComesBefore(s[m], s[m + 1]) \/ ~ ComesBefore(s[m + 1], s[m])
      BY <2>6 DEF Precedes
    <3>2. /\ s[m].address \in Int /\ s[m + 1].address \in Int
          /\ s[m].type \in {"holding", "input"} /\ s[m + 1].type \in {"holding", "input"}
      BY <2>7 DEF Plain
    <3>3. s[m + 1].type = s[m].type => s[m].address <= s[m + 1].address
      BY <3>1, <3>2 DEF ComesBefore, TypeRank
    <3> QED
      BY <2>5, <2>7, <3>3
  <2>9. ~ ReadableAtOnce(Append(a, x), max)
    BY <2>2, <2>7, <2>8, NotReadable
  <2>10. a \o <<x>> = Append(a, x)
    BY <2>2, <2>7
  <2> QED
    BY <2>4, <2>9, <2>10 DEF Joinable, a
<1> QED
  BY <1>3, <1>4, <1>6, <1>7, <1>8 DEF gs, s, k

-----------------------------------------------------------------------------
(* Any selection *)

\* The registers given are of the map, and named by their positions.
SelectionInv == \E k \in Nat : \E d \in [1..k -> Definitions] : selection = Named(d)
RequestsInv == grouped => requests = GroupRegisters(selection, maxSize)

\* What groupRegisters and its properties need of such a selection.
LEMMA SelectionFacts ==
  ASSUME SelectionInv
  PROVE  /\ Plain(ToSet(selection)) /\ selection \in Seq(ToSet(selection))
         /\ \A i \in DOMAIN selection : selection[i].name = i
<1>0. PICK k \in Nat : \E d \in [1..k -> Definitions] : selection = Named(d)
  BY DEF SelectionInv
<1>1. PICK d \in [1..k -> Definitions] : selection = Named(d)
  BY <1>0
<1>2. selection = [i \in 1..k |->
                     [name |-> i, type |-> d[i].type, address |-> d[i].address, size |-> d[i].size]]
  BY <1>1 DEF Named
<1>3. ASSUME NEW i \in 1..k
      PROVE  /\ selection[i].name = i /\ selection[i].type = d[i].type
             /\ selection[i].address = d[i].address /\ selection[i].size = d[i].size
  BY <1>2
<1>4. selection \in Seq(ToSet(selection))
  <2>1. DOMAIN selection = 1..k
    BY <1>2
  <2>2. selection = [i \in 1..k |-> selection[i]]
    BY <1>2, <2>1
  <2>3. \A i \in 1..k : selection[i] \in ToSet(selection)
    BY <2>1 DEF ToSet
  <2>4. selection \in [1..k -> ToSet(selection)]
    BY <2>2, <2>3
  <2> HIDE <1>2, <2>2
  <2> QED
    BY <2>4
<1>5. Plain(ToSet(selection))
  <2> SUFFICES ASSUME NEW i \in 1..k
               PROVE  /\ selection[i].type \in {"holding", "input"} /\ selection[i].address \in Int
                      /\ selection[i].size \in Nat \ {0}
    <3>1. DOMAIN selection = 1..k
      BY <1>2
    <3> QED
      BY <3>1 DEF Plain, ToSet
  <2>1. d[i] \in Definitions
    BY <1>1
  <2>2. d[i].type \in Types /\ d[i].address \in Addresses /\ d[i].size \in Sizes
    BY <2>1 DEF Definitions
  <2>3. d[i].type \in {"holding", "input"} /\ d[i].address \in Int /\ d[i].size \in Nat \ {0}
    <3>1. \A x \in Types : x \in {"holding", "input"}
      BY DefinitionsAssumption
    <3>2. \A x \in Addresses : x \in Int
      BY DefinitionsAssumption
    <3>3. \A x \in Sizes : x \in Nat \ {0}
      BY DefinitionsAssumption
    <3> QED
      BY <2>2, <3>1, <3>2, <3>3
  <2> QED
    BY <1>3, <2>3
<1> QED
  BY <1>2, <1>3, <1>4, <1>5

LEMMA GroupedSelection ==
  ASSUME SelectionInv, RequestsInv PROVE GroupsAreReadableAndMaximal
<1> SUFFICES ASSUME grouped PROVE GroupsAreReadableAndMaximal
  BY DEF GroupsAreReadableAndMaximal
<1> DEFINE D == ToSet(selection)
           r == selection
           s == SortRegisters(r)
           n == Len(r)
<1>1. Plain(D) /\ r \in Seq(D) /\ \A i \in DOMAIN r : r[i].name = i
  BY SelectionFacts
<1> HIDE DEF D
<1>2. requests = GroupRegisters(r, maxSize)
  BY DEF RequestsInv
<1>3. /\ requests \in Seq(Seq(D)) /\ FlattenSeq(requests) = s
      /\ \A g \in 1..Len(requests) : ReadableAtOnce(requests[g], maxSize)
      /\ \A g \in 1..(Len(requests) - 1) : ~ Joinable(requests, g, maxSize)
  BY <1>1, <1>2, GroupsAreRight
<1>4. /\ n \in Nat /\ DOMAIN r = 1..n /\ s \in Seq(D) /\ Len(s) = n /\ DOMAIN s = 1..n
      /\ \A i \in 1..n : s[i] = r[Origin(r, i)]
      /\ \A i, j \in 1..n : i < j => Precedes(r, Origin(r, i), Origin(r, j))
  BY <1>1, Sorting
<1>5. /\ \A i \in 1..n : Origin(r, i) \in 1..n
      /\ \A i \in 1..n : Rank(r, i) \in 1..n /\ Origin(r, Rank(r, i)) = i
  BY <1>1, <1>4, OriginFacts, RankIsPosition
<1> HIDE DEF s, r, n
<1>6. ToSet(s) = ToSet(r)
  BY <1>4, <1>5 DEF ToSet
<1>7. \A i, j \in 1..n : i < j =>
        ComesBefore(s[i], s[j]) \/ (~ ComesBefore(s[j], s[i]) /\ s[i].name < s[j].name)
  <2> SUFFICES ASSUME NEW i \in 1..n, NEW j \in 1..n, i < j
               PROVE  ComesBefore(s[i], s[j]) \/ (~ ComesBefore(s[j], s[i]) /\ s[i].name < s[j].name)
    OBVIOUS
  <2>1. Precedes(r, Origin(r, i), Origin(r, j)) /\ s[i] = r[Origin(r, i)] /\ s[j] = r[Origin(r, j)]
    BY <1>4
  <2>2. s[i].name = Origin(r, i) /\ s[j].name = Origin(r, j)
    BY <1>1, <1>4, <1>5, <2>1
  <2> QED
    BY <2>1, <2>2 DEF Precedes
<1>8. DOMAIN requests = 1..Len(requests)
  BY <1>3
<1> QED
  BY <1>3, <1>4, <1>6, <1>7, <1>8 DEF GroupsAreReadableAndMaximal, IsSorted, r, n

\* Whatever registers a caller gives, of any sizes and overlaps, groupRegisters
\* returns every register once, in order, in requests that the device can
\* answer, and makes no request that the one before could have spared it
\* (read-groups.ts:27-55).
THEOREM AnyGrouping == HelpersSpec => []GroupsAreReadableAndMaximal
<1> DEFINE IInv == SelectionInv /\ RequestsInv
<1>1. HelpersInit => IInv
  <2> SUFFICES ASSUME HelpersInit PROVE IInv
    OBVIOUS
  <2>1. ~ grouped
    BY DEF HelpersInit, NothingToGroup, AnySelection
  <2>2. CASE NothingToGroup
    <3>1. [i \in 1..0 |-> i] \in [1..0 -> Definitions] /\ selection = Named([i \in 1..0 |-> i])
      BY <2>2 DEF NothingToGroup, Named
    <3> QED
      BY <2>1, <3>1 DEF SelectionInv, RequestsInv
  <2>3. CASE AnySelection
    <3>1. PICK d \in BoundedSeq(Definitions, MaxRegisters) : selection = Named(d)
      BY <2>3 DEF AnySelection
    <3>2. PICK k \in 0..MaxRegisters : d \in [1..k -> Definitions]
      BY <3>1 DEF BoundedSeq, SeqOf
    <3> QED
      BY <2>1, <3>1, <3>2 DEF SelectionInv, RequestsInv
  <2> QED
    BY <2>2, <2>3 DEF HelpersInit
<1>2. IInv /\ [UseTiming \/ UseGrouping]_<<timingVars, groupVars>> => IInv'
  <2> SUFFICES ASSUME IInv, [UseTiming \/ UseGrouping]_<<timingVars, groupVars>> PROVE IInv'
    OBVIOUS
  <2>1. CASE UNCHANGED groupVars
    BY <2>1 DEF groupVars, SelectionInv, RequestsInv
  <2>2. CASE Group
    BY <2>2 DEF Group, SelectionInv, RequestsInv
  <2> QED
    BY <2>1, <2>2 DEF UseTiming, UseGrouping
<1>3. IInv => GroupsAreReadableAndMaximal
  BY GroupedSelection
<1> QED
  BY <1>1, <1>2, <1>3, PTL DEF HelpersSpec

-----------------------------------------------------------------------------
(* What lists hold *)

Filtering(f, r, S, k) ==
  f = [n \in 0..k |->
         IF n = 0 THEN <<>> ELSE IF r[n] \in S THEN Append(f[n - 1], r[n]) ELSE f[n - 1]]

LEMMA FilteringExists ==
  ASSUME NEW r, NEW S, NEW k \in Nat
  PROVE  \E f : Filtering(f, r, S, k)
<1> DEFINE T == {n \in Nat : \E f : Filtering(f, r, S, n)}
<1>1. 0 \in T
  <2>1. Filtering([m \in 0..0 |-> <<>>], r, S, 0)
    BY DEF Filtering
  <2> QED
    BY <2>1
<1>2. ASSUME NEW n \in T PROVE n + 1 \in T
  <2>1. PICK g : Filtering(g, r, S, n)
    OBVIOUS
  <2> DEFINE last == IF r[n + 1] \in S THEN Append(g[n], r[n + 1]) ELSE g[n]
             h == [m \in 0..(n + 1) |-> IF m <= n THEN g[m] ELSE last]
  <2>2. ASSUME NEW m \in 0..(n + 1)
        PROVE  h[m] = IF m = 0 THEN <<>> ELSE IF r[m] \in S THEN Append(h[m - 1], r[m]) ELSE h[m - 1]
    <3>1. CASE m = n + 1
      BY <3>1
    <3>2. CASE m # n + 1
      <4>1. m \in 0..n /\ h[m] = g[m] /\ (m # 0 => h[m - 1] = g[m - 1])
        BY <3>2
      <4> QED
        BY <2>1, <4>1 DEF Filtering
    <3> QED
      BY <3>1, <3>2
  <2>3. Filtering(h, r, S, n + 1)
    BY <2>2 DEF Filtering
  <2> QED
    BY <2>3
<1> HIDE DEF T
<1>3. T = Nat
  BY <1>1, <1>2, Counting DEF T
<1> QED
  BY <1>3 DEF T

\* A list of those of the first n in a set.
Keeps(l, r, S, n, D) ==
  l \in Seq(D) /\ ToSet(l) = {r[i] : i \in {j \in 1..n : r[j] \in S}}

LEMMA OneMoreHeld ==
  ASSUME NEW D, NEW l \in Seq(D), NEW x \in D
  PROVE  Append(l, x) \in Seq(D) /\ ToSet(Append(l, x)) = ToSet(l) \cup {x}
<1>1. /\ Append(l, x) \in Seq(D) /\ Len(l) \in Nat
      /\ DOMAIN l = 1..Len(l) /\ DOMAIN Append(l, x) = 1..(Len(l) + 1)
      /\ \A i \in 1..Len(l) : Append(l, x)[i] = l[i]
      /\ Append(l, x)[Len(l) + 1] = x
  OBVIOUS
<1> QED
  BY <1>1 DEF ToSet

LEMMA OneMoreFiltered ==
  ASSUME NEW D, NEW r, NEW S, NEW n \in Nat, NEW l, Keeps(l, r, S, n, D), r[n + 1] \in D
  PROVE  Keeps(IF r[n + 1] \in S THEN Append(l, r[n + 1]) ELSE l, r, S, n + 1, D)
<1>1. l \in Seq(D) /\ ToSet(l) = {r[i] : i \in {j \in 1..n : r[j] \in S}}
  BY DEF Keeps
<1>2. \A i : i \in 1..(n + 1) <=> i \in 1..n \/ i = n + 1
  OBVIOUS
<1>3. CASE r[n + 1] \in S
  <2>1. Append(l, r[n + 1]) \in Seq(D) /\ ToSet(Append(l, r[n + 1])) = ToSet(l) \cup {r[n + 1]}
    BY <1>1, OneMoreHeld
  <2>2. {r[i] : i \in {j \in 1..(n + 1) : r[j] \in S}} = ToSet(l) \cup {r[n + 1]}
    BY <1>1, <1>2, <1>3
  <2> QED
    BY <1>3, <2>1, <2>2 DEF Keeps
<1>4. CASE r[n + 1] \notin S
  <2>1. {r[i] : i \in {j \in 1..(n + 1) : r[j] \in S}} = ToSet(l)
    BY <1>1, <1>2, <1>4
  <2> QED
    BY <1>1, <1>4, <2>1 DEF Keeps
<1> QED
  BY <1>3, <1>4

\* registers.filter keeps those of the list that are in the set.
LEMMA Filtered ==
  ASSUME NEW D, NEW r \in Seq(D), NEW S
  PROVE  Filter(r, S) \in Seq(D) /\ ToSet(Filter(r, S)) = ToSet(r) \cap S
<1> DEFINE k == Len(r)
           f == CHOOSE f : Filtering(f, r, S, k)
           T == {n \in Nat : n <= k => Keeps(f[n], r, S, n, D)}
<1>1. k \in Nat /\ DOMAIN r = 1..k /\ \A i \in 1..k : r[i] \in D
  OBVIOUS
<1>2. Filtering(f, r, S, k)
  BY <1>1, FilteringExists
<1>3. Filter(r, S) = f[k]
  BY DEF Filter, Filtering
<1> HIDE DEF f, k
<1>4. \A n \in 0..k : f[n] = IF n = 0 THEN <<>> ELSE IF r[n] \in S THEN Append(f[n - 1], r[n]) ELSE f[n - 1]
  BY <1>1, <1>2 DEF Filtering
<1>5. 0 \in T
  <2>1. f[0] = <<>>
    BY <1>1, <1>4
  <2>2. Keeps(<<>>, r, S, 0, D)
    BY DEF Keeps, ToSet
  <2> QED
    BY <2>1, <2>2
<1>6. ASSUME NEW n \in T PROVE n + 1 \in T
  <2> SUFFICES ASSUME n + 1 <= k PROVE Keeps(f[n + 1], r, S, n + 1, D)
    OBVIOUS
  <2>1. Keeps(f[n], r, S, n, D) /\ n + 1 \in 0..k /\ n + 1 \in 1..k /\ n + 1 # 0 /\ (n + 1) - 1 = n
    BY <1>1
  <2>2. f[n + 1] = IF r[n + 1] \in S THEN Append(f[n], r[n + 1]) ELSE f[n]
    BY <1>4, <2>1
  <2> QED
    BY <1>1, <2>1, <2>2, OneMoreFiltered
<1> HIDE DEF T
<1>7. T = Nat
  BY <1>5, <1>6, Counting DEF T
<1>8. Keeps(f[k], r, S, k, D)
  BY <1>1, <1>7 DEF T
<1>9. ToSet(r) \cap S = {r[i] : i \in {j \in 1..k : r[j] \in S}}
  BY <1>1 DEF ToSet
<1> QED
  BY <1>3, <1>8, <1>9 DEF Keeps

\* The registers in a list of groups.
Elements(gs) == UNION {ToSet(g) : g \in ToSet(gs)}

LEMMA MemberOfGroup ==
  ASSUME NEW gs, NEW g \in DOMAIN gs, NEW i \in DOMAIN gs[g]
  PROVE  gs[g][i] \in Elements(gs)
<1>1. gs[g] \in ToSet(gs) /\ gs[g][i] \in ToSet(gs[g])
  BY DEF ToSet
<1> QED
  BY <1>1 DEF Elements

LEMMA FirstOfList ==
  ASSUME NEW D, NEW l \in Seq(D), l # <<>>
  PROVE  Head(l) \in D /\ Tail(l) \in Seq(D) /\ ToSet(l) = {Head(l)} \cup ToSet(Tail(l))
<1>1. /\ Head(l) = l[1] /\ Head(l) \in D /\ Tail(l) \in Seq(D) /\ Len(l) \in Nat \ {0}
      /\ DOMAIN l = 1..Len(l) /\ DOMAIN Tail(l) = 1..(Len(l) - 1)
      /\ \A i \in 1..(Len(l) - 1) : Tail(l)[i] = l[i + 1]
  OBVIOUS
<1>2. \A i \in 1..Len(l) : i = 1 \/ (i - 1 \in 1..(Len(l) - 1) /\ (i - 1) + 1 = i)
  BY <1>1
<1>3. \A i \in 1..(Len(l) - 1) : i + 1 \in 1..Len(l)
  BY <1>1
<1>4. ToSet(l) \subseteq {Head(l)} \cup ToSet(Tail(l))
  <2> SUFFICES ASSUME NEW i \in 1..Len(l) PROVE l[i] \in {Head(l)} \cup ToSet(Tail(l))
    BY <1>1 DEF ToSet
  <2>1. CASE i = 1
    BY <1>1, <2>1
  <2>2. CASE i # 1
    <3>1. i - 1 \in 1..(Len(l) - 1) /\ (i - 1) + 1 = i
      BY <1>2, <2>2
    <3>2. Tail(l)[i - 1] = l[(i - 1) + 1]
      BY <1>1, <3>1
    <3>3. Tail(l)[i - 1] \in ToSet(Tail(l))
      BY <1>1, <3>1 DEF ToSet
    <3> QED
      BY <3>1, <3>2, <3>3
  <2> QED
    BY <2>1, <2>2
<1>5. {Head(l)} \cup ToSet(Tail(l)) \subseteq ToSet(l)
  BY <1>1, <1>3 DEF ToSet
<1> QED
  BY <1>1, <1>4, <1>5

LEMMA FirstOfGroups ==
  ASSUME NEW D, NEW gs \in Seq(Seq(D)), gs # <<>>
  PROVE  /\ Head(gs) \in Seq(D) /\ Tail(gs) \in Seq(Seq(D))
         /\ Elements(gs) = ToSet(Head(gs)) \cup Elements(Tail(gs))
<1>1. /\ Head(gs) \in Seq(D) /\ Tail(gs) \in Seq(Seq(D))
      /\ ToSet(gs) = {Head(gs)} \cup ToSet(Tail(gs))
  BY FirstOfList
<1> QED
  BY <1>1 DEF Elements

LEMMA EmptyLists == ToSet(<<>>) = {} /\ Elements(<<>>) = {}
BY DEF ToSet, Elements

\* groupRegisters neither loses a register nor adds one.
LEMMA GroupsHold ==
  ASSUME NEW D, Plain(D), NEW r \in Seq(D), NEW max
  PROVE  GroupRegisters(r, max) \in Seq(Seq(D)) /\ Elements(GroupRegisters(r, max)) = ToSet(r)
<1> DEFINE gs == GroupRegisters(r, max)
           s == SortRegisters(r)
           n == Len(r)
           k == Len(gs)
<1>1. PICK c : Grouped(gs, s, n, c, D, max)
  BY Groups
<1>2. n \in Nat /\ DOMAIN r = 1..n /\ Len(s) = n /\ DOMAIN s = 1..n
  BY Sorting
<1>3. ToSet(s) = ToSet(r)
  <2>1. \A i \in 1..n : s[i] = r[Origin(r, i)] /\ Origin(r, i) \in 1..n
    BY <1>2, Sorting, OriginFacts
  <2>2. \A i \in 1..n : Rank(r, i) \in 1..n /\ Origin(r, Rank(r, i)) = i
    BY <1>2, OriginFacts, RankIsPosition
  <2> HIDE DEF s, n
  <2>3. ToSet(s) \subseteq ToSet(r)
    BY <1>2, <2>1 DEF ToSet
  <2>4. ASSUME NEW i \in 1..n PROVE r[i] \in ToSet(s)
    <3>1. s[Rank(r, i)] = r[Origin(r, Rank(r, i))] /\ Rank(r, i) \in 1..n
      BY <2>1, <2>2
    <3>2. s[Rank(r, i)] = r[i]
      BY <2>2, <3>1
    <3> QED
      BY <1>2, <3>1, <3>2 DEF ToSet
  <2>5. ToSet(r) \subseteq ToSet(s)
    BY <1>2, <2>4 DEF ToSet
  <2> QED
    BY <2>3, <2>5
<1> HIDE DEF gs, s, n
<1>4. gs \in Seq(Seq(D)) /\ k \in Nat /\ DOMAIN gs = 1..k /\ \A g \in 1..k : gs[g] \in Seq(D)
  BY <1>1 DEF Grouped
<1>5. \A g \in 1..k : DOMAIN gs[g] = 1..Len(gs[g])
  BY <1>4
<1> HIDE DEF k
<1>6. /\ c \in [0..k -> 0..n] /\ c[0] = 0 /\ c[k] = n
      /\ \A g \in 1..k : /\ c[g - 1] < c[g] /\ Len(gs[g]) = c[g] - c[g - 1]
                         /\ \A i \in 1..Len(gs[g]) : gs[g][i] = s[c[g - 1] + i]
  BY <1>1 DEF Grouped, Cut, k
<1>7. ASSUME NEW g \in 1..k, NEW i \in 1..Len(gs[g]) PROVE gs[g][i] \in ToSet(s)
  <2>1. c[g - 1] \in 0..n /\ c[g] \in 0..n
    BY <1>4, <1>6
  <2>2. Len(gs[g]) = c[g] - c[g - 1] /\ gs[g][i] = s[c[g - 1] + i]
    BY <1>6
  <2>3. c[g - 1] + i \in 1..n
    BY <1>2, <2>1, <2>2
  <2> QED
    BY <1>2, <2>2, <2>3 DEF ToSet
<1>8. ASSUME NEW p \in 1..n PROVE s[p] \in Elements(gs)
  <2> DEFINE T == {g \in 0..k : p <= c[g]}
  <2>1. k \in T /\ T \in SUBSET Nat
    BY <1>2, <1>4, <1>6
  <2>2. PICK g \in T : \A h \in T : g <= h
    BY <2>1, Smallest
  <2>3. g \in 1..k /\ g - 1 \in 0..k
    BY <1>2, <1>4, <1>6, <2>2
  <2>4. c[g - 1] \in 0..n /\ c[g] \in 0..n /\ p <= c[g]
    BY <1>6, <2>2, <2>3
  <2>5. g - 1 \notin T
    BY <1>4, <2>2, <2>3
  <2>6. c[g - 1] < p
    BY <1>2, <2>3, <2>4, <2>5
  <2>7. Len(gs[g]) = c[g] - c[g - 1] /\ \A i \in 1..Len(gs[g]) : gs[g][i] = s[c[g - 1] + i]
    BY <1>6, <2>3
  <2>8. p - c[g - 1] \in 1..Len(gs[g]) /\ c[g - 1] + (p - c[g - 1]) = p
    BY <1>2, <2>4, <2>6, <2>7
  <2>9. gs[g][p - c[g - 1]] = s[p]
    BY <2>7, <2>8
  <2> QED
    BY <1>4, <1>5, <2>3, <2>8, <2>9, MemberOfGroup
<1>9. Elements(gs) \subseteq ToSet(s)
  <2> SUFFICES ASSUME NEW x \in Elements(gs) PROVE x \in ToSet(s)
    OBVIOUS
  <2>1. PICK g \in 1..k : x \in ToSet(gs[g])
    BY <1>4 DEF Elements, ToSet
  <2>2. PICK i \in 1..Len(gs[g]) : x = gs[g][i]
    BY <1>5, <2>1 DEF ToSet
  <2> QED
    BY <1>7, <2>2
<1>10. ToSet(s) \subseteq Elements(gs)
  BY <1>2, <1>8 DEF ToSet
<1> QED
  BY <1>3, <1>4, <1>9, <1>10 DEF gs

-----------------------------------------------------------------------------
(* Batches *)

ListsInv ==
  /\ valid \in Seq(Registers)
  /\ groups \in Seq(Seq(Registers))
  /\ individual \in Seq(Registers)
  /\ fallback \in Seq(Registers)

\* The registers that are still to be read.
Pending == Elements(groups) \cup ToSet(individual) \cup ToSet(fallback)

AccountedInv ==
  stage = "reading" =>
    \A r \in ToSet(valid) : r.name \in results \cup omitted \/ r \in Pending

QuarantineInv == \A r \in Elements(groups) : r.name \notin quarantine

FailuresInv == failures \in [Names -> Nat] /\ FailuresAreExcluded

BatchIInv == ListsInv /\ AccountedInv /\ QuarantineInv

LEMMA PlainRegisters == Plain(Registers)
BY RegistersAssumption DEF Plain

LEMMA BatchInit == Init => BatchIInv
<1> SUFFICES ASSUME Init PROVE BatchIInv
  OBVIOUS
<1>1. /\ valid = <<>> /\ groups = <<>> /\ individual = <<>> /\ fallback = <<>> /\ stage = "idle"
  BY DEF Init
<1>2. ListsInv
  BY <1>1 DEF ListsInv
<1>3. AccountedInv
  BY <1>1 DEF AccountedInv
<1>4. QuarantineInv
  BY <1>1, EmptyLists DEF QuarantineInv
<1> QED
  BY <1>2, <1>3, <1>4 DEF BatchIInv

\* Nothing the batch holds changes with the books.
LEMMA BatchKept ==
  ASSUME BatchIInv, UNCHANGED progress PROVE BatchIInv'
BY DEF BatchIInv, ListsInv, AccountedInv, Pending, QuarantineInv, progress

LEMMA BatchEnds ==
  ASSUME BatchIInv, EndBatch PROVE BatchIInv'
<1>1. /\ valid' = <<>> /\ groups' = <<>> /\ individual' = <<>> /\ fallback' = <<>> /\ stage' = "idle"
  BY DEF EndBatch
<1>2. ListsInv'
  BY <1>1 DEF ListsInv
<1>3. AccountedInv'
  BY <1>1 DEF AccountedInv
<1>4. QuarantineInv'
  BY <1>1, EmptyLists DEF QuarantineInv
<1> QED
  BY <1>2, <1>3, <1>4 DEF BatchIInv

LEMMA BatchBegins ==
  ASSUME BatchIInv, NEW registers \in BoundedSeq(Registers, MaxBatch), Begin(registers)
  PROVE  BatchIInv'
<1> DEFINE may == {r \in Registers : ~ r.writeOnly /\ r.name \notin permanent}
<1>1. /\ valid' = Filter(registers, may) /\ stage' = "connecting"
      /\ UNCHANGED <<groups, individual, fallback, quarantine>>
  BY DEF Begin
<1> HIDE DEF may
<1>2. registers \in Seq(Registers)
  <2>1. PICK k \in 0..MaxBatch : registers \in [1..k -> Registers]
    BY DEF BoundedSeq, SeqOf
  <2> QED
    BY <2>1
<1>3. Filter(registers, may) \in Seq(Registers)
  BY <1>2, Filtered
<1>4. ListsInv'
  BY <1>1, <1>3 DEF BatchIInv, ListsInv
<1>5. AccountedInv'
  BY <1>1 DEF AccountedInv
<1>6. QuarantineInv'
  BY <1>1 DEF BatchIInv, QuarantineInv
<1> QED
  BY <1>4, <1>5, <1>6 DEF BatchIInv

LEMMA BatchSplits ==
  ASSUME BatchIInv, Split PROVE BatchIInv'
<1> DEFINE unsafe == {r \in Registers : r.name \in batchUnsafe}
           safe == Filter(valid, Registers \ unsafe)
<1>1. /\ groups' = GroupRegisters(safe, MaxGroupSize) /\ individual' = Filter(valid, unsafe)
      /\ quarantine' = batchUnsafe /\ UNCHANGED <<valid, fallback>>
  BY DEF Split
<1>2. valid \in Seq(Registers) /\ fallback \in Seq(Registers)
  BY DEF BatchIInv, ListsInv
<1>3. /\ safe \in Seq(Registers) /\ ToSet(safe) = ToSet(valid) \cap (Registers \ unsafe)
      /\ Filter(valid, unsafe) \in Seq(Registers)
      /\ ToSet(Filter(valid, unsafe)) = ToSet(valid) \cap unsafe
  BY <1>2, Filtered
<1> HIDE DEF safe
<1>4. groups' \in Seq(Seq(Registers)) /\ Elements(groups') = ToSet(safe)
  BY <1>1, <1>3, PlainRegisters, GroupsHold
<1>5. \A r \in ToSet(valid) : r \in Registers
  BY <1>2 DEF ToSet
<1>6. ListsInv'
  BY <1>1, <1>2, <1>3, <1>4 DEF ListsInv
<1>7. AccountedInv'
  BY <1>1, <1>3, <1>4, <1>5 DEF AccountedInv, Pending
<1>8. QuarantineInv'
  BY <1>1, <1>3, <1>4 DEF QuarantineInv
<1> QED
  BY <1>6, <1>7, <1>8 DEF BatchIInv

\* The group that is read, and what is left after it.
LEMMA GroupRead ==
  ASSUME BatchIInv, ReadsGroup
  PROVE  /\ Head(groups) \in Seq(Registers) /\ Tail(groups) \in Seq(Seq(Registers))
         /\ Elements(groups) = ToSet(Head(groups)) \cup Elements(Tail(groups))
         /\ ToSet(fallback) = {}
BY FirstOfGroups, EmptyLists DEF ReadsGroup, BatchIInv, ListsInv

LEMMA BatchTakesAnswers ==
  ASSUME BatchIInv, ReadsGroup, NEW quality \in [DOMAIN Head(groups) -> Qualities], GroupAnswered(quality)
  PROVE  BatchIInv'
<1> DEFINE group == Head(groups)
           of(q) == {group[i].name : i \in {j \in DOMAIN group : quality[j] = q}}
           again == {r \in Registers : r.name \in of("suspect")}
<1>1. /\ results' = results \cup of("good") /\ omitted' = omitted \cup of("undecodable")
      /\ fallback' = Filter(group, again) /\ groups' = Tail(groups)
      /\ UNCHANGED <<stage, valid, individual, quarantine>>
  BY DEF GroupAnswered
<1>2. /\ group \in Seq(Registers) /\ Tail(groups) \in Seq(Seq(Registers))
      /\ Elements(groups) = ToSet(group) \cup Elements(Tail(groups)) /\ ToSet(fallback) = {}
  BY GroupRead
<1>3. Filter(group, again) \in Seq(Registers) /\ ToSet(Filter(group, again)) = ToSet(group) \cap again
  BY <1>2, Filtered
<1>4. ListsInv'
  BY <1>1, <1>2, <1>3 DEF BatchIInv, ListsInv
<1>5. ASSUME NEW r \in ToSet(group)
      PROVE  r.name \in of("good") \/ r.name \in of("undecodable") \/ r \in again
  <2>1. PICK i \in DOMAIN group : r = group[i]
    BY DEF ToSet
  <2>2. quality[i] = "good" \/ quality[i] = "suspect" \/ quality[i] = "undecodable"
    BY DEF Qualities
  <2>3. r \in Registers
    BY <1>2, <2>1
  <2> QED
    BY <2>1, <2>2, <2>3
<1> HIDE DEF of, again, group
<1>6. AccountedInv'
  <2> SUFFICES ASSUME stage = "reading", NEW r \in ToSet(valid)
               PROVE  (r.name \in results \cup omitted \/ r \in Pending)'
    BY <1>1 DEF AccountedInv
  <2>1. r.name \in results \cup omitted \/ r \in Pending
    BY DEF BatchIInv, AccountedInv
  <2>2. \/ r.name \in results \cup omitted
        \/ r \in ToSet(group) \/ r \in Elements(Tail(groups)) \/ r \in ToSet(individual)
    BY <1>2, <2>1 DEF Pending
  <2> QED
    BY <1>1, <1>3, <1>5, <2>2 DEF Pending
<1>7. QuarantineInv'
  BY <1>1, <1>2 DEF BatchIInv, QuarantineInv
<1> QED
  BY <1>4, <1>6, <1>7 DEF BatchIInv

LEMMA BatchFallsBack ==
  ASSUME BatchIInv, NEW answer, GroupRefused(answer)
  PROVE  BatchIInv'
<1>1. /\ ReadsGroup /\ fallback' = Head(groups) /\ groups' = Tail(groups)
      /\ UNCHANGED <<stage, valid, individual, quarantine, results, omitted>>
  BY DEF GroupRefused
<1>2. /\ Head(groups) \in Seq(Registers) /\ Tail(groups) \in Seq(Seq(Registers))
      /\ Elements(groups) = ToSet(Head(groups)) \cup Elements(Tail(groups)) /\ ToSet(fallback) = {}
  BY <1>1, GroupRead
<1>3. ListsInv'
  BY <1>1, <1>2 DEF BatchIInv, ListsInv
<1>4. AccountedInv'
  BY <1>1, <1>2 DEF BatchIInv, AccountedInv, Pending
<1>5. QuarantineInv'
  BY <1>1, <1>2 DEF BatchIInv, QuarantineInv
<1> QED
  BY <1>3, <1>4, <1>5 DEF BatchIInv

\* The register that is read alone has an outcome of its own.
LEMMA BatchReadsAlone ==
  ASSUME BatchIInv, ReadsAlone, NextAlone, UNCHANGED <<stage, valid, groups, quarantine>>,
         results \subseteq results', omitted \subseteq omitted',
         Alone.name \in results' \cup omitted'
  PROVE  BatchIInv'
<1>1. individual \in Seq(Registers) /\ fallback \in Seq(Registers)
  BY DEF BatchIInv, ListsInv
<1>2. /\ individual' \in Seq(Registers) /\ fallback' \in Seq(Registers)
      /\ ToSet(individual) \cup ToSet(fallback)
           \subseteq {Alone} \cup ToSet(individual') \cup ToSet(fallback')
  <2>1. CASE fallback # <<>>
    <3>1. Alone = Head(fallback) /\ fallback' = Tail(fallback) /\ individual' = individual
      BY <2>1 DEF Alone, NextAlone
    <3>2. Tail(fallback) \in Seq(Registers) /\ ToSet(fallback) = {Head(fallback)} \cup ToSet(Tail(fallback))
      BY <1>1, <2>1, FirstOfList
    <3> QED
      BY <1>1, <3>1, <3>2
  <2>2. CASE fallback = <<>>
    <3>1. Alone = Head(individual) /\ individual' = Tail(individual) /\ fallback' = fallback /\ individual # <<>>
      BY <2>2 DEF Alone, NextAlone, ReadsAlone
    <3>2. Tail(individual) \in Seq(Registers) /\ ToSet(individual) = {Head(individual)} \cup ToSet(Tail(individual))
      BY <1>1, <3>1, FirstOfList
    <3> QED
      BY <1>1, <3>1, <3>2
  <2> QED
    BY <2>1, <2>2
<1>3. ListsInv'
  BY <1>2 DEF BatchIInv, ListsInv
<1>4. AccountedInv'
  <2> SUFFICES ASSUME stage = "reading", NEW r \in ToSet(valid)
               PROVE  (r.name \in results \cup omitted \/ r \in Pending)'
    BY DEF AccountedInv
  <2>1. r.name \in results \cup omitted \/ r \in Pending
    BY DEF BatchIInv, AccountedInv
  <2>2. \/ r.name \in results \cup omitted \/ r \in Elements(groups)
        \/ r = Alone \/ r \in ToSet(individual') \/ r \in ToSet(fallback')
    BY <1>2, <2>1 DEF Pending
  <2> QED
    BY <2>2 DEF Pending
<1>5. QuarantineInv'
  BY DEF BatchIInv, QuarantineInv
<1> QED
  BY <1>3, <1>4, <1>5 DEF BatchIInv

LEMMA BatchNext == BatchIInv /\ [Next]_vars => BatchIInv'
<1> SUFFICES ASSUME BatchIInv, [Next]_vars PROVE BatchIInv'
  OBVIOUS
<1>1. CASE UNCHANGED vars
  BY <1>1, BatchKept DEF vars
<1>2. CASE \E registers \in BoundedSeq(Registers, MaxBatch) : Begin(registers)
  BY <1>2, BatchBegins
<1>3. CASE Split
  BY <1>3, BatchSplits
<1>4. CASE BatchThrows \/ BatchReturns
  BY <1>4, BatchEnds DEF BatchThrows, BatchReturns
<1>5. CASE ReadsGroup /\ \E quality \in [DOMAIN Head(groups) -> Qualities] : GroupAnswered(quality)
  BY <1>5, BatchTakesAnswers
<1>6. CASE \E answer \in {"illegal", "device"} : GroupRefused(answer)
  BY <1>6, BatchFallsBack
<1>7. CASE AloneGood
  BY <1>7, BatchReadsAlone DEF AloneGood
<1>8. CASE AloneUseless
  BY <1>8, BatchReadsAlone DEF AloneUseless
<1>9. CASE AloneIllegal
  BY <1>9, BatchReadsAlone DEF AloneIllegal
<1>10. CASE AloneFails
  BY <1>10, BatchReadsAlone DEF AloneFails
<1>11. CASE ResetFailedRegisters
  BY <1>11, BatchKept DEF ResetFailedRegisters
<1>12. CASE \E n \in Names : MarkBatchUnsafe(n)
  BY <1>12, BatchKept DEF MarkBatchUnsafe
<1> QED
  BY <1>1, <1>2, <1>3, <1>4, <1>5, <1>6, <1>7, <1>8, <1>9, <1>10, <1>11, <1>12 DEF Next

LEMMA BatchSpec == Spec => []BatchIInv
BY BatchInit, BatchNext, PTL DEF Spec

LEMMA FailuresInit == Init => FailuresInv
<1> SUFFICES ASSUME Init PROVE FailuresInv
  OBVIOUS
<1>1. unsupported = {} /\ failures = [n \in Names |-> 0]
  BY DEF Init
<1> QED
  BY <1>1, ThresholdAssumption DEF FailuresInv, FailuresAreExcluded

LEMMA FailuresNext == FailuresInv /\ [Next]_vars => FailuresInv'
<1> SUFFICES ASSUME FailuresInv, [Next]_vars PROVE FailuresInv'
  OBVIOUS
<1>1. /\ failures \in [Names -> Nat] /\ unsupported \subseteq permanent
      /\ \A n \in Names : failures[n] >= Threshold => n \in permanent
  BY DEF FailuresInv, FailuresAreExcluded
<1>2. CASE UNCHANGED <<permanent, unsupported, failures>>
  BY <1>1, <1>2 DEF FailuresInv, FailuresAreExcluded
<1>3. CASE AloneGood
  <2>1. failures' = [failures EXCEPT ![Alone.name] = 0] /\ UNCHANGED <<permanent, unsupported>>
    BY <1>3 DEF AloneGood
  <2>2. failures' \in [Names -> Nat]
    BY <1>1, <2>1
  <2>3. \A n \in Names : failures'[n] = failures[n] \/ failures'[n] = 0
    BY <1>1, <2>1
  <2> QED
    BY <1>1, <2>1, <2>2, <2>3, ThresholdAssumption DEF FailuresInv, FailuresAreExcluded
<1>4. CASE AloneIllegal
  <2>1. /\ failures' = failures
        /\ permanent' = permanent \cup {Alone.name} /\ unsupported' = unsupported \cup {Alone.name}
    BY <1>4 DEF AloneIllegal
  <2> QED
    BY <1>1, <2>1 DEF FailuresInv, FailuresAreExcluded
<1>5. CASE AloneFails
  <2> DEFINE m == Alone.name
  <2>1. /\ failures' = [failures EXCEPT ![m] = failures[m] + 1] /\ unsupported' = unsupported
        /\ permanent' = IF failures[m] + 1 >= Threshold THEN permanent \cup {m} ELSE permanent
    BY <1>5 DEF AloneFails
  <2> HIDE DEF m
  <2>2. failures' \in [Names -> Nat]
    <3>1. ASSUME NEW n \in Names PROVE failures'[n] \in Nat
      <4>1. CASE n = m
        BY <1>1, <2>1, <4>1
      <4>2. CASE n # m
        BY <1>1, <2>1, <4>2
      <4> QED
        BY <4>1, <4>2
    <3>2. failures' = [n \in Names |-> failures'[n]]
      BY <1>1, <2>1
    <3> QED
      BY <3>1, <3>2
  <2>3. \A n \in Names : failures'[n] = failures[n] \/ (n = m /\ failures'[n] = failures[m] + 1)
    BY <1>1, <2>1
  <2>4. permanent \subseteq permanent' /\ (failures[m] + 1 >= Threshold => m \in permanent')
    BY <2>1
  <2> QED
    BY <1>1, <2>1, <2>2, <2>3, <2>4 DEF FailuresInv, FailuresAreExcluded
<1>6. CASE ResetFailedRegisters
  <2>1. permanent' = {} /\ unsupported' = {} /\ failures' = [n \in Names |-> 0]
    BY <1>6 DEF ResetFailedRegisters
  <2> QED
    BY <2>1, ThresholdAssumption DEF FailuresInv, FailuresAreExcluded
<1>7. \/ UNCHANGED <<permanent, unsupported, failures>>
      \/ AloneGood \/ AloneIllegal \/ AloneFails \/ ResetFailedRegisters
  BY DEF Next, vars, books, Begin, Split, BatchThrows, BatchReturns, GroupAnswered, GroupRefused,
         AloneUseless, MarkBatchUnsafe
<1> QED
  BY <1>2, <1>3, <1>4, <1>5, <1>6, <1>7

\* Whatever answers the registers get and wherever a reset falls, a register
\* known as unsupported and one that has failed Threshold times in a row are
\* left out of later batches (idm-modbus-client.ts:619-623, 877-893).
THEOREM FailuresStayOut == Spec => []FailuresAreExcluded
<1>1. FailuresInv => FailuresAreExcluded
  BY DEF FailuresInv
<1> QED
  BY <1>1, FailuresInit, FailuresNext, PTL DEF Spec

\* No step excludes a register but the one that reads it alone: the answer to
\* a group condemns none of its registers (836-841, 868-894).
THEOREM NeighboursAreNotBlamed == Spec => ExcludedOnOwnAnswer
<1>1. [Next]_vars => [\A n \in permanent' \ permanent : ReadsAlone /\ n = Alone.name]_vars
  <2> SUFFICES ASSUME [Next]_vars, NEW n \in permanent' \ permanent
               PROVE  ReadsAlone /\ n = Alone.name
    OBVIOUS
  <2>1. AloneIllegal \/ AloneFails
    BY DEF Next, vars, books, Begin, Split, BatchThrows, BatchReturns, GroupAnswered, GroupRefused,
           AloneGood, AloneUseless, ResetFailedRegisters, MarkBatchUnsafe
  <2> QED
    BY <2>1 DEF AloneIllegal, AloneFails
<1> QED
  BY <1>1, PTL DEF Spec, ExcludedOnOwnAnswer

\* A register marked before the batch had connected is in none of its groups,
\* for any grouping of any registers (807-809).
THEOREM QuarantineHolds == Spec => []QuarantineIsKept
<1>1. BatchIInv => QuarantineIsKept
  <2> SUFFICES ASSUME BatchIInv, NEW g \in DOMAIN groups, NEW i \in DOMAIN groups[g]
               PROVE  groups[g][i].name \notin quarantine
    BY DEF QuarantineIsKept, NamesIn
  <2>1. groups[g][i] \in Elements(groups)
    BY MemberOfGroup
  <2> QED
    BY <2>1 DEF BatchIInv, QuarantineInv
<1> QED
  BY <1>1, BatchSpec, PTL

\* A batch that returns has lost no register on the way through the groups,
\* the fallbacks and the quarantine: each has a value or an answer of its own
\* (812-819, 845-864).
THEOREM NoRegisterIsForgotten == Spec => EveryRegisterAccountedFor
<1>1. BatchIInv /\ [Next]_vars => [BatchReturns => NamesIn(valid) \subseteq results \cup omitted]_vars
  <2> SUFFICES ASSUME BatchIInv, BatchReturns, NEW i \in DOMAIN valid
               PROVE  valid[i].name \in results \cup omitted
    BY DEF NamesIn
  <2>1. stage = "reading" /\ groups = <<>> /\ individual = <<>> /\ fallback = <<>>
    BY DEF BatchReturns
  <2>2. Pending = {}
    BY <2>1, EmptyLists DEF Pending
  <2>3. valid[i] \in ToSet(valid)
    BY DEF ToSet
  <2> QED
    BY <2>1, <2>2, <2>3 DEF BatchIInv, AccountedInv
<1> QED
  BY <1>1, BatchSpec, PTL DEF Spec, EveryRegisterAccountedFor

-----------------------------------------------------------------------------
(* Delays and intervals *)

TimingTypes ==
  /\ current \in Nat \ {0} /\ unbounded \in Nat \ {0} /\ delays \in Nat
  /\ clock \in Nat /\ nextAllowed \in Nat
  /\ marks \subseteq Nat

\* The next poll is allowed at the end of the interval of the last mark.
LastMarkDecides ==
  /\ \A t \in marks : t <= clock /\ t + Interval <= nextAllowed
  /\ nextAllowed = 0 \/ \E t \in marks : nextAllowed = t + Interval

TimingIInv == TimingTypes /\ LastMarkDecides /\ DelaysGrowToMaximum

\* Products do not shrink.
LEMMA Growing == ASSUME NEW a \in Nat, NEW m \in Nat \ {0} PROVE a * m \in Nat /\ a <= a * m
<1>1. a * m = a + a * (m - 1)
  OBVIOUS
<1>2. a * m \in Nat /\ a * (m - 1) \in Nat
  OBVIOUS
<1> QED
  BY <1>1, <1>2

\* It is all the same whether a delay was bounded before it was multiplied.
LEMMA BoundingTwice ==
  ASSUME NEW a \in Nat, NEW m \in Nat \ {0}, NEW b \in Nat
  PROVE  Least(Least(a, b) * m, b) = Least(a * m, b)
<1>1. CASE a <= b
  BY <1>1 DEF Least
<1>2. CASE a > b
  <2>1. Least(a, b) = b
    BY <1>2 DEF Least
  <2>2. b <= b * m /\ b * m \in Nat /\ a <= a * m /\ a * m \in Nat
    BY Growing
  <2>3. Least(b * m, b) = b
    BY <2>2 DEF Least
  <2>4. Least(a * m, b) = b
    BY <1>2, <2>2 DEF Least
  <2> QED
    BY <2>1, <2>3, <2>4
<1> QED
  BY <1>1, <1>2

LEMMA TimingStarts == TimingInit => TimingIInv
BY OptionsAssumption
  DEF TimingInit, TimingIInv, TimingTypes, LastMarkDecides, DelaysGrowToMaximum, Least

LEMMA TimingSteps == TimingIInv /\ [TimingNext]_timingVars => TimingIInv'
<1> SUFFICES ASSUME TimingIInv, [TimingNext]_timingVars PROVE TimingIInv'
  OBVIOUS
<1> USE OptionsAssumption DEF TimingIInv
<1>1. CASE NextDelay
  <2>1. unbounded' \in Nat \ {0}
    <3>1. unbounded <= unbounded * Multiplier /\ unbounded * Multiplier \in Nat
      BY Growing DEF TimingTypes
    <3> QED
      BY <1>1, <3>1 DEF NextDelay, TimingTypes
  <2>2. DelaysGrowToMaximum'
    <3>1. current = Least(unbounded, Maximum)
      BY DEF DelaysGrowToMaximum
    <3>2. current' = Least(Least(unbounded, Maximum) * Multiplier, Maximum)
      BY <1>1, <3>1 DEF NextDelay
    <3>3. Least(Least(unbounded, Maximum) * Multiplier, Maximum) = Least(unbounded * Multiplier, Maximum)
      BY BoundingTwice DEF TimingTypes
    <3> QED
      BY <1>1, <3>2, <3>3 DEF NextDelay, DelaysGrowToMaximum
  <2>3. current' \in Nat \ {0}
    BY <2>1, <2>2 DEF DelaysGrowToMaximum, Least
  <2>4. delays' \in Nat /\ UNCHANGED <<clock, nextAllowed, marks>>
    BY <1>1 DEF NextDelay, TimingTypes
  <2>5. TimingTypes'
    BY <2>1, <2>3, <2>4 DEF TimingTypes
  <2>6. LastMarkDecides'
    BY <2>4 DEF LastMarkDecides
  <2> QED
    BY <2>2, <2>5, <2>6
<1>2. CASE Reset
  BY <1>2 DEF Reset, TimingTypes, LastMarkDecides, DelaysGrowToMaximum, Least
<1>3. CASE Mark
  <2>1. TimingTypes' /\ DelaysGrowToMaximum'
    BY <1>3 DEF Mark, TimingTypes, DelaysGrowToMaximum
  <2>2. LastMarkDecides'
    BY <1>3 DEF Mark, TimingTypes, LastMarkDecides
  <2> QED
    BY <2>1, <2>2
<1>4. CASE Tick
  BY <1>4 DEF Tick, TimingTypes, LastMarkDecides, DelaysGrowToMaximum
<1>5. CASE UNCHANGED timingVars
  BY <1>5 DEF timingVars, TimingTypes, LastMarkDecides, DelaysGrowToMaximum
<1> QED
  BY <1>1, <1>2, <1>3, <1>4, <1>5 DEF TimingNext

\* After any number of delays, the delay is what it would be without a maximum
\* as long as that is below the maximum, and the maximum from then on.
THEOREM Delays == TimingSpec => []DelaysGrowToMaximum
<1>1. TimingIInv => DelaysGrowToMaximum
  BY DEF TimingIInv
<1> QED
  BY TimingStarts, TimingSteps, <1>1, PTL DEF TimingSpec

\* However polls are marked, one is allowed exactly if no interval is running.
THEOREM Polls == TimingSpec => []AllowedIffIntervalOver
<1>1. TimingIInv => AllowedIffIntervalOver
  BY OptionsAssumption
    DEF TimingIInv, TimingTypes, LastMarkDecides, AllowedIffIntervalOver, Allow, Remaining
<1> QED
  BY TimingStarts, TimingSteps, <1>1, PTL DEF TimingSpec
\* The helpers' behaviours are behaviours of timing.ts.
LEMMA HelpersKeepTime == HelpersSpec => TimingSpec
<1>1. HelpersInit => TimingInit
  BY DEF HelpersInit
<1>2. [UseTiming \/ UseGrouping]_<<timingVars, groupVars>> => [TimingNext]_timingVars
  BY DEF UseTiming, UseGrouping
<1> QED
  BY <1>1, <1>2, PTL DEF HelpersSpec, TimingSpec
=============================================================================
