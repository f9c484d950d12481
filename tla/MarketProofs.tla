---------------------------- MODULE MarketProofs ----------------------------
(***************************************************************************)
(* Proofs about the market: the auction and its reference winner, the      *)
(* registry of bidders, the messages, the requester's flow, attestations   *)
(* and payment, for any number of bids, bidders, messages, records and     *)
(* purchases.                                                              *)
(***************************************************************************)
EXTENDS Auction, MarketRegistry, MarketMessages, RequesterFlow, Attestations,
        Settlement, SequenceLemmas, FiniteSetTheorems, TLAPS

-----------------------------------------------------------------------------
(* Auction: timely bids count once, the earliest of the cheapest wins      *)

\* A step on accumulators in A for each of m elements.
Steps(m, A) == [1..m -> [A -> A]]

\* g gives the accumulator for each set of indices of elements worked through.
Folded(g, m, A, base, F) ==
    /\ g \in [SUBSET (1..m) -> A]
    /\ g[{}] = base
    /\ \A s \in SUBSET (1..m), x \in 1..m : IsMax(x, s) => g[s] = F[x][g[s \ {x}]]

\* Folds works through a sequence by subsets of its indices, always taking out
\* the largest one.  For any step F of an accumulator in A it has a solution.
LEMMA FoldExists ==
    ASSUME NEW A, NEW base \in A, NEW m \in Nat, NEW F \in Steps(m, A)
    PROVE  \E g : Folded(g, m, A, base, F)
  <1> DEFINE Solves(g, n) == /\ g[{}] = base
                             /\ \A s \in SUBSET (1..n), x \in 1..n :
                                    IsMax(x, s) => g[s] = F[x][g[s \ {x}]]
             S == {n \in Nat : n <= m => \E g \in [SUBSET (1..n) -> A] : Solves(g, n)}
  <1>1. 0 \in S
    <2> DEFINE g == [s \in SUBSET (1..0) |-> base]
    <2>1. g \in [SUBSET (1..0) -> A] /\ g[{}] = base
      OBVIOUS
    <2>2. \A x \in 1..0 : FALSE
      OBVIOUS
    <2>3. Solves(g, 0)
      <3> HIDE DEF g
      <3> QED
        BY <2>1, <2>2
    <2> HIDE DEF g, Solves
    <2> QED
      BY <2>1, <2>3
  <1>2. ASSUME NEW n \in Nat, n \in S, n + 1 <= m
        PROVE  \E g \in [SUBSET (1..(n + 1)) -> A] : Solves(g, n + 1)
    <2>0. n <= m /\ n + 1 \in 1..m
      BY <1>2
    <2>1. PICK f \in [SUBSET (1..n) -> A] : Solves(f, n)
      <3> HIDE DEF Solves
      <3> QED
        BY <1>2, <2>0
    <2> DEFINE N == n + 1
               g == [s \in SUBSET (1..N) |-> IF N \in s THEN F[N][f[s \ {N}]] ELSE f[s]]
    <2>2. \A s \in SUBSET (1..N) : /\ N \notin s => s \in SUBSET (1..n)
                                   /\ s \ {N} \in SUBSET (1..n)
      <3>1. \A i \in 1..N : i # N => i \in 1..n
        OBVIOUS
      <3> HIDE DEF N
      <3> QED
        BY <3>1
    <2>3. g \in [SUBSET (1..N) -> A]
      <3>1. ASSUME NEW s \in SUBSET (1..N) PROVE g[s] \in A
        <4>1. CASE N \in s
          BY <2>0, <2>2, <4>1 DEF Steps
        <4>2. CASE N \notin s
          BY <2>2, <4>2
        <4> QED
          BY <4>1, <4>2
      <3> QED
        BY <3>1
    <2>4. g[{}] = base
      BY <2>1
    <2>5. ASSUME NEW s \in SUBSET (1..N), NEW x \in 1..N, IsMax(x, s)
          PROVE  g[s] = F[x][g[s \ {x}]]
      <3>0. s \ {x} \in SUBSET (1..N)
        OBVIOUS
      <3>1. CASE x = N
        <4>1. N \in s /\ N \notin s \ {x}
          BY <2>5, <3>1 DEF IsMax
        <4>2. g[s \ {x}] = f[s \ {x}] /\ g[s] = F[N][f[s \ {N}]]
          BY <3>0, <4>1
        <4> QED
          BY <3>1, <4>2
      <3>2. CASE x # N
        <4>1. N \notin s /\ x \in 1..n
          BY <2>5, <3>2 DEF IsMax
        <4>2. g[s] = f[s] /\ g[s \ {x}] = f[s \ {x}] /\ s \in SUBSET (1..n)
          BY <2>2, <3>0, <4>1
        <4> QED
          BY <2>1, <2>5, <4>1, <4>2
      <3> QED
        BY <3>1, <3>2
    <2>6. Solves(g, N)
      BY <2>4, <2>5
    <2> HIDE DEF g, Solves
    <2> QED
      BY <2>3, <2>6
  <1>3. Nat \subseteq S
    <2>1. ASSUME NEW n \in Nat, n \in S PROVE n + 1 \in S
      <3>1. n + 1 <= m => \E g \in [SUBSET (1..(n + 1)) -> A] : Solves(g, n + 1)
        BY <1>2, <2>1
      <3>2. n + 1 \in Nat
        OBVIOUS
      <3> HIDE DEF Solves
      <3> QED
        BY <3>1, <3>2
    <2> HIDE DEF S
    <2> QED
      BY <1>1, <2>1, SetInduction
  <1>4. \E g \in [SUBSET (1..m) -> A] : Solves(g, m)
    <2>1. m \in S
      <3> HIDE DEF S
      <3> QED
        BY <1>3
    <2>2. m <= m => \E g \in [SUBSET (1..m) -> A] : Solves(g, m)
      <3> HIDE DEF Solves
      <3> QED
        BY <2>1, Zenon
    <2>3. m <= m
      OBVIOUS
    <2> QED
      BY <2>2, <2>3, Zenon
  <1> QED
    BY <1>4 DEF Folded

\* What Folds computes obeys the step wherever it stays in A.
Unfolds(it, m, A, base, F) ==
    /\ it[{}] = base
    /\ \A s \in SUBSET (1..m), x \in 1..m :
           IsMax(x, s) /\ it[s \ {x}] \in A => it[s] = F[x][it[s \ {x}]]

\* t gives the accumulator after each element.
Stepwise(t, m, A, base, F) ==
    /\ t \in [0..m -> A] /\ t[0] = base
    /\ \A k \in 1..m : t[k] = F[k][t[k - 1]]

\* Any solution is the step repeated from the first element to the last.
LEMMA FoldStepwise ==
    ASSUME NEW A, NEW base \in A, NEW m \in Nat, NEW F \in Steps(m, A), NEW it,
           Unfolds(it, m, A, base, F)
    PROVE  \E t : Stepwise(t, m, A, base, F) /\ t[m] = it[1..m]
  <1> USE DEF Steps, Unfolds
  <1> DEFINE t == [k \in 0..m |-> it[1..k]]
             S == {n \in Nat : n <= m => t[n] \in A}
  <1>1. t[0] = base
    <2>1. 1..0 = {} /\ 0 \in 0..m
      OBVIOUS
    <2> QED
      BY <2>1
  <1>2. ASSUME NEW k \in 1..m, t[k - 1] \in A PROVE t[k] = F[k][t[k - 1]]
    <2>1. k - 1 \in 0..m /\ k \in 0..m /\ 1..k \in SUBSET (1..m) /\ IsMax(k, 1..k)
      BY DEF IsMax
    <2>2. (1..k) \ {k} = 1..(k - 1)
      OBVIOUS
    <2>3. t[k] = it[1..k] /\ t[k - 1] = it[1..(k - 1)]
      BY <2>1
    <2> HIDE DEF t
    <2> QED
      BY <1>2, <2>1, <2>2, <2>3
  <1>3. Nat \subseteq S
    <2>1. 0 \in S
      BY <1>1
    <2>2. ASSUME NEW n \in Nat, n \in S, n + 1 <= m PROVE t[n + 1] \in A
      <3>1. n + 1 \in 1..m /\ (n + 1) - 1 = n /\ t[n] \in A
        <4> HIDE DEF t
        <4> QED
          BY <2>2
      <3> HIDE DEF t
      <3>2. t[n + 1] = F[n + 1][t[n]]
        BY <1>2, <3>1
      <3> QED
        BY <3>1, <3>2
    <2>3. \A n \in Nat : n \in S => n + 1 \in S
      <3> HIDE DEF t
      <3> QED
        BY <2>2
    <2> HIDE DEF S
    <2> QED
      BY <2>1, <2>3, SetInduction
  <1>4. \A k \in 0..m : t[k] \in A
    <2> HIDE DEF t
    <2> QED
      BY <1>3
  <1>5. t \in [0..m -> A] /\ t[m] = it[1..m]
    BY <1>4
  <1>6. \A k \in 1..m : t[k] = F[k][t[k - 1]]
    <2>1. \A k \in 1..m : k - 1 \in 0..m
      OBVIOUS
    <2> HIDE DEF t
    <2> QED
      BY <1>2, <1>4, <2>1
  <1> HIDE DEF t
  <1> QED
    BY <1>1, <1>5, <1>6 DEF Stepwise

\* One step of TakePending, and what it accumulates.
Take(acc, b) == IF b \in AllowedBids \ acc.seen
                THEN [bids |-> Append(acc.bids, b), seen |-> acc.seen \cup {b}]
                ELSE acc
Takings == [bids : Seq(AllowedBids), seen : SUBSET Bids]

\* Taking up a bid leaves an accumulator.
LEMMA TakeKeepsType == ASSUME NEW acc \in Takings, NEW b \in Bids PROVE Take(acc, b) \in Takings
  BY AuctionAssumption DEF Take, Takings

\* TakePending takes the queued bids one after the other.
LEMMA TakePendingStepwise ==
    ASSUME AuctionTypeOK, TakePending
    PROVE  \E t \in [0..Len(pendingBids) -> Takings] :
              /\ t[0] = [bids |-> bids, seen |-> seen]
              /\ \A k \in 1..Len(pendingBids) : t[k] = Take(t[k - 1], pendingBids[k])
              /\ bids' = t[Len(pendingBids)].bids /\ seen' = t[Len(pendingBids)].seen
  <1> DEFINE m == Len(pendingBids)
             D == DOMAIN pendingBids
             start == [bids |-> bids, seen |-> seen]
             F == [i \in 1..m |-> [acc \in Takings |-> Take(acc, pendingBids[i])]]
             body(f, s) == IF s = {} THEN start
                           ELSE Take(f[s \ {Max(s)}], pendingBids[Max(s)])
             it == CHOOSE f : f = [s \in SUBSET D |-> body(f, s)]
  <1>1. m \in Nat /\ D = 1..m /\ \A i \in 1..m : pendingBids[i] \in Bids
    BY DEF AuctionTypeOK
  <1>2. start \in Takings
    BY DEF AuctionTypeOK, Takings
  <1>3. F \in Steps(m, Takings)
    BY <1>1, TakeKeepsType DEF Steps
  <1>4. \A s \in SUBSET (1..m), x \in 1..m : IsMax(x, s) => Max(s) = x /\ s # {}
    BY <1>1, IndexMax
  <1>5. \A s \in SUBSET (1..m) : s # {} => IsMax(Max(s), s) /\ Max(s) \in 1..m
    BY <1>1, IndexMax
  <1>6. it = [s \in SUBSET D |-> body(it, s)]
    <2>1. PICK g : Folded(g, m, Takings, start, F)
      <3> HIDE DEF F, m, start
      <3> QED
        BY <1>1, <1>2, <1>3, FoldExists
    <2>2. ASSUME NEW s \in SUBSET (1..m) PROVE g[s] = body(g, s)
      <3>1. CASE s = {}
        BY <2>1, <3>1 DEF Folded
      <3>2. CASE s # {}
        <4>1. g[s] = F[Max(s)][g[s \ {Max(s)}]]
          <5> HIDE DEF F
          <5> QED
            BY <1>5, <2>1, <3>2 DEF Folded
        <4>2. g[s \ {Max(s)}] \in Takings
          BY <2>1 DEF Folded
        <4>3. F[Max(s)][g[s \ {Max(s)}]] = Take(g[s \ {Max(s)}], pendingBids[Max(s)])
          BY <1>5, <3>2, <4>2
        <4> QED
          BY <3>2, <4>1, <4>3
      <3> QED
        BY <3>1, <3>2
    <2>3. g = [s \in SUBSET D |-> body(g, s)]
      <3> HIDE DEF body, D
      <3> QED
        BY <1>1, <2>1, <2>2 DEF Folded
    <2> HIDE DEF body, D
    <2> QED
      BY <2>3
  <1>7. FoldLeft(Take, start, pendingBids) = it[D]
    BY DEF FoldLeft, MapThenFoldSet
  <1>8. bids' = it[D].bids /\ seen' = it[D].seen
    <2>1. /\ bids' = FoldLeft(Take, start, pendingBids).bids
          /\ seen' = FoldLeft(Take, start, pendingBids).seen
      BY DEF TakePending, Take, FoldLeft, MapThenFoldSet
    <2> HIDE DEF it
    <2> QED
      BY <1>7, <2>1
  <1>9. Unfolds(it, m, Takings, start, F)
    <2>1. it[{}] = start
      <3> HIDE DEF it
      <3> QED
        BY <1>6
    <2>2. ASSUME NEW s \in SUBSET (1..m), NEW x \in 1..m, IsMax(x, s), it[s \ {x}] \in Takings
          PROVE  it[s] = F[x][it[s \ {x}]]
      <3>1. Max(s) = x /\ s # {} /\ s \in SUBSET D
        BY <1>1, <1>4, <2>2
      <3>2. it[s] = Take(it[s \ {x}], pendingBids[x])
        <4> HIDE DEF it
        <4> QED
          BY <1>6, <3>1
      <3> HIDE DEF it
      <3> QED
        BY <2>2, <3>2
    <2> HIDE DEF it, F
    <2> QED
      BY <2>1, <2>2 DEF Unfolds
  <1>10. PICK t : Stepwise(t, m, Takings, start, F) /\ t[m] = it[1..m]
    <2> HIDE DEF it, F, m, start
    <2> QED
      BY <1>1, <1>2, <1>3, <1>9, FoldStepwise
  <1>11. ASSUME NEW k \in 1..m PROVE t[k] = Take(t[k - 1], pendingBids[k])
    <2>1. k - 1 \in 0..m /\ t[k - 1] \in Takings /\ t[k] = F[k][t[k - 1]]
      <3> HIDE DEF F, it
      <3> QED
        BY <1>1, <1>10 DEF Stepwise
    <2> QED
      BY <2>1
  <1> HIDE DEF it, F
  <1> QED
    BY <1>1, <1>8, <1>10, <1>11 DEF Stepwise

\* One step of scoreLowestCost.
Better(of, best, b) == IF Less(Cost(of[b]), Cost(of[best])) THEN b ELSE best

\* t gives the best of the bids up to each.
BestSoFar(t, bs, of) ==
    /\ t[0] = bs[1]
    /\ \A k \in 1..Len(bs) : t[k] = Better(of, t[k - 1], bs[k])
    /\ ScoreLowestCost(bs, of) = t[Len(bs)]

\* scoreLowestCost compares each bid with the best of those before it.
LEMMA ScoreStepwise ==
    ASSUME NEW B, NEW bs \in Seq(B), bs # <<>>, NEW of
    PROVE  /\ \E t : BestSoFar(t, bs, of)
           /\ ScoreLowestCost(bs, of) \in B
  <1> DEFINE m == Len(bs)
             D == DOMAIN bs
             start == bs[1]
             F == [i \in 1..m |-> [best \in B |-> Better(of, best, bs[i])]]
             body(f, s) == IF s = {} THEN start
                           ELSE Better(of, f[s \ {Max(s)}], bs[Max(s)])
             it == CHOOSE f : f = [s \in SUBSET D |-> body(f, s)]
  <1>1. m \in Nat /\ D = 1..m /\ \A i \in 1..m : bs[i] \in B
    OBVIOUS
  <1>2. start \in B
    OBVIOUS
  <1>3. F \in Steps(m, B)
    BY <1>1 DEF Steps, Better
  <1>4. \A s \in SUBSET (1..m), x \in 1..m : IsMax(x, s) => Max(s) = x /\ s # {}
    BY <1>1, IndexMax
  <1>5. \A s \in SUBSET (1..m) : s # {} => IsMax(Max(s), s) /\ Max(s) \in 1..m
    BY <1>1, IndexMax
  <1>6. it = [s \in SUBSET D |-> body(it, s)]
    <2>1. PICK g : Folded(g, m, B, start, F)
      <3> HIDE DEF F, m, start
      <3> QED
        BY <1>1, <1>2, <1>3, FoldExists
    <2>2. ASSUME NEW s \in SUBSET (1..m) PROVE g[s] = body(g, s)
      <3>1. CASE s = {}
        BY <2>1, <3>1 DEF Folded
      <3>2. CASE s # {}
        <4>1. g[s] = F[Max(s)][g[s \ {Max(s)}]]
          <5> HIDE DEF F
          <5> QED
            BY <1>5, <2>1, <3>2 DEF Folded
        <4>2. g[s \ {Max(s)}] \in B
          BY <2>1 DEF Folded
        <4>3. F[Max(s)][g[s \ {Max(s)}]] = Better(of, g[s \ {Max(s)}], bs[Max(s)])
          BY <1>5, <3>2, <4>2
        <4> QED
          BY <3>2, <4>1, <4>3
      <3> QED
        BY <3>1, <3>2
    <2>3. g = [s \in SUBSET D |-> body(g, s)]
      <3> HIDE DEF body, D
      <3> QED
        BY <1>1, <2>1, <2>2 DEF Folded
    <2> HIDE DEF body, D
    <2> QED
      BY <2>3
  <1>7. ScoreLowestCost(bs, of) = it[D]
    BY DEF ScoreLowestCost, FoldLeft, MapThenFoldSet, Better
  <1>8. Unfolds(it, m, B, start, F)
    <2>1. it[{}] = start
      <3> HIDE DEF it
      <3> QED
        BY <1>6
    <2>2. ASSUME NEW s \in SUBSET (1..m), NEW x \in 1..m, IsMax(x, s), it[s \ {x}] \in B
          PROVE  it[s] = F[x][it[s \ {x}]]
      <3>1. Max(s) = x /\ s # {} /\ s \in SUBSET D
        BY <1>1, <1>4, <2>2
      <3>2. it[s] = Better(of, it[s \ {x}], bs[x])
        <4> HIDE DEF it
        <4> QED
          BY <1>6, <3>1
      <3> HIDE DEF it
      <3> QED
        BY <2>2, <3>2
    <2> HIDE DEF it, F
    <2> QED
      BY <2>1, <2>2 DEF Unfolds
  <1>9. PICK t : Stepwise(t, m, B, start, F) /\ t[m] = it[1..m]
    <2> HIDE DEF it, F, m, start
    <2> QED
      BY <1>1, <1>2, <1>3, <1>8, FoldStepwise
  <1>10. ASSUME NEW k \in 1..m PROVE t[k] = Better(of, t[k - 1], bs[k])
    <2>1. k - 1 \in 0..m /\ t[k - 1] \in B /\ t[k] = F[k][t[k - 1]]
      <3> HIDE DEF F, it
      <3> QED
        BY <1>1, <1>9 DEF Stepwise
    <2> QED
      BY <2>1
  <1> HIDE DEF it, F
  <1> QED
    BY <1>1, <1>7, <1>9, <1>10 DEF Stepwise, BestSoFar

\* A sequence grows by an element.
LEMMA AppendHears ==
    ASSUME NEW S, NEW q \in Seq(S), NEW b \in S
    PROVE  Append(q, b) \in Seq(S) /\ ToSet(Append(q, b)) = ToSet(q) \cup {b}
  <1> DEFINE r == Append(q, b)
  <1>1. /\ Len(q) \in Nat /\ DOMAIN q = 1..Len(q) /\ DOMAIN r = 1..(Len(q) + 1)
        /\ r[Len(q) + 1] = b /\ \A i \in 1..Len(q) : r[i] = q[i]
    OBVIOUS
  <1>2. \A i \in 1..(Len(q) + 1) : i \in 1..Len(q) \/ i = Len(q) + 1
    BY <1>1
  <1>3. \A i \in 1..Len(q) : i \in 1..(Len(q) + 1)
    BY <1>1
  <1>4. Len(q) + 1 \in 1..(Len(q) + 1)
    BY <1>1
  <1>5. r \in Seq(S)
    OBVIOUS
  <1> HIDE DEF r
  <1>6. ToSet(r) = ToSet(q) \cup {b}
    BY <1>1, <1>2, <1>3, <1>4 DEF ToSet
  <1> QED
    BY <1>5, <1>6 DEF r

\* Appending what a sequence does not hold yet.
LEMMA AppendNew ==
    ASSUME NEW S, NEW q \in Seq(S), NEW b \in S, IsInjective(q), b \notin ToSet(q)
    PROVE  IsInjective(Append(q, b))
  <1> DEFINE r == Append(q, b)
  <1>1. /\ Len(q) \in Nat /\ DOMAIN q = 1..Len(q) /\ DOMAIN r = 1..(Len(q) + 1)
        /\ r[Len(q) + 1] = b /\ \A i \in 1..Len(q) : r[i] = q[i]
    OBVIOUS
  <1>2. \A i \in 1..(Len(q) + 1) : i \in 1..Len(q) \/ i = Len(q) + 1
    BY <1>1
  <1> HIDE DEF r
  <1>3. IsInjective(r)
    BY <1>1, <1>2 DEF IsInjective, ToSet
  <1> QED
    BY <1>3 DEF r

\* Each bid seen of an allowed bidder is collected once.
Collected(bs, sn) == IsInjective(bs) /\ ToSet(bs) = sn \cap AllowedBids

\* TakePending collects what the queue brings and what was not seen yet.
LEMMA TakePendingCollects ==
    ASSUME AuctionTypeOK, Collected(bids, seen), TakePending
    PROVE  /\ bids' \in Seq(AllowedBids) /\ seen' \in SUBSET Bids /\ pendingBids' = <<>>
           /\ Collected(bids', seen')
           /\ ToSet(bids') = (seen \cup ToSet(pendingBids)) \cap AllowedBids
  <1> DEFINE m == Len(pendingBids)
             Heard(k) == seen \cup {pendingBids[i] : i \in 1..k}
             Good(acc, k) == /\ Collected(acc.bids, acc.seen)
                             /\ ToSet(acc.bids) = Heard(k) \cap AllowedBids
  <1>1. m \in Nat /\ DOMAIN pendingBids = 1..m /\ \A i \in 1..m : pendingBids[i] \in Bids
    BY DEF AuctionTypeOK
  <1>2. PICK t \in [0..m -> Takings] :
              /\ t[0] = [bids |-> bids, seen |-> seen]
              /\ \A k \in 1..m : t[k] = Take(t[k - 1], pendingBids[k])
              /\ bids' = t[m].bids /\ seen' = t[m].seen
    BY TakePendingStepwise
  <1> DEFINE S == {k \in Nat : k <= m => Good(t[k], k)}
  <1>3. Nat \subseteq S
    <2>1. 0 \in S
      <3>1. t[0].bids = bids /\ t[0].seen = seen
        BY <1>2
      <3>2. Heard(0) = seen
        OBVIOUS
      <3> QED
        BY <3>1, <3>2 DEF Collected
    <2>2. ASSUME NEW k \in Nat, k \in S, k + 1 <= m PROVE Good(t[k + 1], k + 1)
      <3> DEFINE acc == t[k]
                 b == pendingBids[k + 1]
      <3>1. k + 1 \in 1..m /\ (k + 1) - 1 = k /\ k <= m /\ k \in 0..m
        BY <1>1, <2>2
      <3>2. t[k + 1] = Take(acc, b) /\ b \in Bids /\ acc \in Takings
        BY <1>1, <1>2, <3>1
      <3>3. Good(acc, k)
        BY <2>2, <3>1
      <3>4. Heard(k + 1) = Heard(k) \cup {b}
        <4>1. \A i \in 1..(k + 1) : i \in 1..k \/ i = k + 1
          OBVIOUS
        <4>2. \A i \in 1..k : i \in 1..(k + 1)
          OBVIOUS
        <4>3. k + 1 \in 1..(k + 1)
          OBVIOUS
        <4> QED
          BY <4>1, <4>2, <4>3
      <3> HIDE DEF acc, b, Heard
      <3>5. CASE b \in AllowedBids \ acc.seen
        <4>1. /\ t[k + 1].bids = Append(acc.bids, b) /\ t[k + 1].seen = acc.seen \cup {b}
              /\ acc.bids \in Seq(AllowedBids) /\ b \in AllowedBids
          BY <3>2, <3>5 DEF Take, Takings
        <4>2. IsInjective(acc.bids) /\ b \notin ToSet(acc.bids)
          BY <3>3, <3>5 DEF Collected
        <4>3. /\ IsInjective(t[k + 1].bids)
              /\ ToSet(t[k + 1].bids) = ToSet(acc.bids) \cup {b}
          BY <4>1, <4>2, AppendNew, AppendHears
        <4> QED
          BY <3>3, <3>4, <3>5, <4>1, <4>3 DEF Collected
      <3>6. CASE b \notin AllowedBids \ acc.seen
        <4>1. t[k + 1] = acc
          BY <3>2, <3>6 DEF Take
        <4> QED
          BY <3>3, <3>4, <3>6, <4>1 DEF Collected
      <3> QED
        BY <3>5, <3>6
    <2>3. \A k \in Nat : k \in S => k + 1 \in S
      <3> HIDE DEF Good
      <3> QED
        BY <2>2
    <2> HIDE DEF S
    <2> QED
      BY <2>1, <2>3, SetInduction
  <1>4. Good(t[m], m)
    <2>1. m \in S /\ m <= m
      <3> HIDE DEF S
      <3> QED
        BY <1>1, <1>3
    <2> HIDE DEF Good
    <2> QED
      BY <2>1
  <1>5. Heard(m) = seen \cup ToSet(pendingBids)
    BY <1>1 DEF ToSet
  <1>6. t[m].bids \in Seq(AllowedBids) /\ t[m].seen \in SUBSET Bids
    BY <1>1, <1>2 DEF Takings
  <1> QED
    BY <1>2, <1>4, <1>5, <1>6 DEF TakePending

Priced == Nat \cup {Infinity}

\* On prices the operator < leaves no two different ones incomparable.
LEMMA LessOrders ==
    ASSUME NEW a \in Priced, NEW b \in Priced, NEW c \in Priced
    PROVE  /\ ~Less(a, b) /\ Less(c, b) => Less(c, a)
           /\ Less(a, b) => ~Less(b, a)
           /\ ~Less(a, a)
  BY DEF Less, Priced, Infinity

\* b is the earliest of the cheapest of the first k bids.
EarliestCheapest(b, bs, of, k) ==
    \E w \in 1..k : /\ b = bs[w]
                    /\ \A i \in 1..k : ~Less(Cost(of[bs[i]]), Cost(of[bs[w]]))
                    /\ \A i \in 1..k : i < w => Less(Cost(of[bs[w]]), Cost(of[bs[i]]))

\* That is what scoreLowestCost finds, whatever the bids and their prices.
LEMMA ScoreFindsEarliestCheapest ==
    ASSUME NEW B, NEW bs \in Seq(B), bs # <<>>, NEW of,
           \A i \in 1..Len(bs) : Cost(of[bs[i]]) \in Priced
    PROVE  EarliestCheapest(ScoreLowestCost(bs, of), bs, of, Len(bs))
  <1> DEFINE m == Len(bs)
             c(i) == Cost(of[bs[i]])
  <1>1. m \in Nat /\ m # 0
    OBVIOUS
  <1>2. PICK t : BestSoFar(t, bs, of)
    BY ScoreStepwise
  <1> USE DEF BestSoFar
  <1> DEFINE S == {k \in Nat : k \in 1..m => EarliestCheapest(t[k], bs, of, k)}
  <1>3. 0 \in S
    OBVIOUS
  <1>4. ASSUME NEW k \in Nat, k \in S, k + 1 \in 1..m
        PROVE  EarliestCheapest(t[k + 1], bs, of, k + 1)
    <2>1. t[k + 1] = Better(of, t[k], bs[k + 1])
      BY <1>2, <1>4
    <2>2. CASE k = 0
      <3>1. t[1] = bs[1] /\ ~Less(c(1), c(1))
        BY <1>1, <1>2, <1>4, <2>1, <2>2, LessOrders DEF Better
      <3> QED
        BY <2>2, <3>1 DEF EarliestCheapest
    <2>3. CASE k # 0
      <3>1. k \in 1..m /\ EarliestCheapest(t[k], bs, of, k)
        BY <1>1, <1>4, <2>3
      <3>2. PICK w \in 1..k : /\ t[k] = bs[w]
                              /\ \A i \in 1..k : ~Less(c(i), c(w))
                              /\ \A i \in 1..k : i < w => Less(c(w), c(i))
        BY <3>1 DEF EarliestCheapest
      <3>3. t[k + 1] = IF Less(c(k + 1), c(w)) THEN bs[k + 1] ELSE bs[w]
        BY <2>1, <3>2 DEF Better
      <3>4. /\ \A i \in 1..(k + 1) : i \in 1..k \/ i = k + 1
            /\ \A i \in 1..(k + 1) : c(i) \in Priced
            /\ w \in 1..k /\ w \in 1..(k + 1) /\ k + 1 \in 1..(k + 1)
        BY <1>1, <1>4, <3>1
      <3>5. CASE Less(c(k + 1), c(w))
        <4>1. \A i \in 1..k : Less(c(k + 1), c(i))
          <5> HIDE DEF c
          <5> QED
            BY <3>2, <3>4, <3>5, LessOrders
        <4>2. \A i \in 1..(k + 1) : ~Less(c(i), c(k + 1))
          <5> HIDE DEF c
          <5> QED
            BY <3>4, <4>1, LessOrders
        <4>3. \A i \in 1..(k + 1) : i < k + 1 => Less(c(k + 1), c(i))
          BY <3>4, <4>1
        <4> QED
          BY <3>3, <3>4, <3>5, <4>2, <4>3 DEF EarliestCheapest
      <3>6. CASE ~Less(c(k + 1), c(w))
        <4>1. \A i \in 1..(k + 1) : ~Less(c(i), c(w))
          BY <3>2, <3>4, <3>6
        <4>2. \A i \in 1..(k + 1) : i < w => Less(c(w), c(i))
          BY <3>2, <3>4
        <4> QED
          BY <3>3, <3>4, <3>6, <4>1, <4>2 DEF EarliestCheapest
      <3> QED
        BY <3>5, <3>6
    <2> QED
      BY <2>2, <2>3
  <1>5. Nat \subseteq S
    <2>1. \A k \in Nat : k \in S => k + 1 \in S
      BY <1>4
    <2> HIDE DEF S
    <2> QED
      BY <1>3, <2>1, SetInduction
  <1> QED
    BY <1>1, <1>2, <1>5

\* What was collected, and what came in time.
AuctionInv ==
    /\ AuctionTypeOK
    /\ Collected(bids, seen)
    /\ phase \in {"notifying", "collecting"} =>
           heard \cap AllowedBids = (seen \cup ToSet(pendingBids)) \cap AllowedBids
    /\ TimelyBidsCount
    /\ ~Unpriceable => EarliestCheapestWins

\* The initial states satisfy the invariant.
LEMMA AuctionInitInv == AuctionInit => AuctionInv
  <1> SUFFICES ASSUME AuctionInit PROVE AuctionInv
    OBVIOUS
  <1>1. AuctionTypeOK
    BY DEF AuctionInit, AuctionTypeOK, Phases
  <1>2. ToSet(bids) = {} /\ ToSet(pendingBids) = {} /\ IsInjective(bids)
    BY DEF AuctionInit, ToSet, IsInjective
  <1> QED
    BY <1>1, <1>2
       DEF AuctionInit, AuctionInv, Collected, TimelyBidsCount, EarliestCheapestWins

\* A step that leaves the collected bids, their payloads and the winner alone.
LEMMA SameChoice ==
    ASSUME UNCHANGED <<bids, offer, winner>>, EarliestCheapestWins,
           phase' \in {"settling", "accepted"} => phase \in {"settling", "accepted"}
    PROVE  EarliestCheapestWins'
  BY DEF EarliestCheapestWins, Cost, Less, Infinity

\* The winner is chosen among the collected bids.
LEMMA ChooseWinnerPreserves ==
    ASSUME AuctionInv, ChooseWinner
    PROVE  AuctionInv'
  <1> USE DEF AuctionInv
  <1>1. /\ phase = "resolving" /\ phase' = "settling" /\ bids # <<>>
        /\ offer' \in [ToSet(bids) -> Offers]
        /\ winner' = ScoreLowestCost(bids, offer')
        /\ UNCHANGED <<pendingBids, bids, seen, heard>>
    BY DEF ChooseWinner
  <1>2. /\ bids \in Seq(AllowedBids) /\ DOMAIN bids = 1..Len(bids) /\ Len(bids) \in Nat
        /\ \A i \in 1..Len(bids) : bids[i] \in ToSet(bids) /\ bids[i] \in AllowedBids
    BY DEF AuctionTypeOK, ToSet
  <1>3. winner' \in AllowedBids
    BY <1>1, <1>2, ScoreStepwise
  <1>4. AuctionTypeOK'
    BY <1>1, <1>3 DEF AuctionTypeOK, Phases
  <1>5. ASSUME ~Unpriceable PROVE EarliestCheapestWins'
    <2>1. ASSUME NEW i \in 1..Len(bids) PROVE Cost(offer'[bids[i]]) \in Priced
      <3>1. offer'[bids[i]] \in Offers
        BY <1>1, <1>2
      <3>2. offer'[bids[i]].cost \in Priced
        BY <1>5, <3>1, AuctionAssumption DEF Offers, Costs, Priced
      <3> QED
        BY <3>2 DEF Cost, Priced
    <2>2. EarliestCheapest(winner', bids, offer', Len(bids))
      BY <1>1, <1>2, <2>1, ScoreFindsEarliestCheapest
    <2>3. PICK w \in 1..Len(bids) :
              /\ winner' = bids[w]
              /\ \A i \in 1..Len(bids) : ~Less(Cost(offer'[bids[i]]), Cost(offer'[bids[w]]))
              /\ \A i \in 1..Len(bids) :
                     i < w => Less(Cost(offer'[bids[w]]), Cost(offer'[bids[i]]))
      BY <2>2 DEF EarliestCheapest
    <2> QED
      BY <1>1, <1>2, <2>3 DEF EarliestCheapestWins, Cost, Less, Infinity
  <1>6. Collected(bids, seen)' /\ TimelyBidsCount'
    BY <1>1 DEF Collected, TimelyBidsCount
  <1> QED
    BY <1>1, <1>4, <1>5, <1>6

\* Every step keeps the invariant.
LEMMA AuctionNextInv == AuctionInv /\ [AuctionNext]_auctionVars => AuctionInv'
  <1> SUFFICES ASSUME AuctionInv, [AuctionNext]_auctionVars PROVE AuctionInv'
    OBVIOUS
  <1> USE DEF AuctionInv
  <1>1. ASSUME NEW b \in Bids, SubmitBid(b) PROVE AuctionInv'
    <2>1. /\ pendingBids' = Append(pendingBids, b)
          /\ heard' = IF phase \in {"notifying", "collecting"} THEN heard \cup {b} ELSE heard
          /\ UNCHANGED <<phase, bids, seen, offer, winner>>
      BY <1>1 DEF SubmitBid, Hear
    <2>2. pendingBids' \in Seq(Bids) /\ ToSet(pendingBids') = ToSet(pendingBids) \cup {b}
      BY <2>1, AppendHears DEF AuctionTypeOK
    <2>3. AuctionTypeOK'
      BY <2>1, <2>2 DEF AuctionTypeOK
    <2>4. Collected(bids, seen)' /\ TimelyBidsCount'
      BY <2>1 DEF Collected, TimelyBidsCount
    <2> QED
      BY <2>1, <2>2, <2>3, <2>4, SameChoice
  <1>2. ASSUME NEW b \in Bids, FirehoseBid(b) PROVE AuctionInv'
    <2>1. /\ phase = "collecting" /\ heard' = heard \cup {b} /\ seen' = seen \cup {b}
          /\ bids' = IF b \in AllowedBids \ seen THEN Append(bids, b) ELSE bids
          /\ UNCHANGED <<phase, pendingBids, offer, winner>>
      BY <1>2 DEF FirehoseBid, Hear
    <2>2. bids' \in Seq(AllowedBids) /\ Collected(bids', seen')
      <3>1. CASE b \in AllowedBids \ seen
        <4>1. /\ bids \in Seq(AllowedBids) /\ b \in AllowedBids /\ IsInjective(bids)
              /\ b \notin ToSet(bids) /\ bids' = Append(bids, b)
          BY <2>1, <3>1 DEF AuctionTypeOK, Collected
        <4>2. /\ bids' \in Seq(AllowedBids) /\ IsInjective(bids')
              /\ ToSet(bids') = ToSet(bids) \cup {b}
          BY <4>1, AppendNew, AppendHears
        <4> QED
          BY <2>1, <3>1, <4>2 DEF Collected
      <3>2. CASE b \notin AllowedBids \ seen
        BY <2>1, <3>2 DEF Collected, AuctionTypeOK
      <3> QED
        BY <3>1, <3>2
    <2>3. AuctionTypeOK'
      BY <2>1, <2>2 DEF AuctionTypeOK
    <2>4. Collected(bids, seen)'
      BY <2>2
    <2> QED
      BY <2>1, <2>3, <2>4 DEF TimelyBidsCount, EarliestCheapestWins
  <1>3. CASE OpenWindow \/ CloseWindow
    <2>1. /\ TakePending /\ phase \in {"notifying", "collecting"}
          /\ phase' \in {"collecting", "resolving"}
          /\ UNCHANGED <<heard, offer, winner>>
      BY <1>3 DEF OpenWindow, CloseWindow
    <2>2. /\ bids' \in Seq(AllowedBids) /\ seen' \in SUBSET Bids /\ pendingBids' = <<>>
          /\ Collected(bids', seen')
          /\ ToSet(bids') = (seen \cup ToSet(pendingBids)) \cap AllowedBids
      BY <2>1, TakePendingCollects
    <2>3. AuctionTypeOK'
      BY <2>1, <2>2 DEF AuctionTypeOK, Phases
    <2>4. Collected(bids, seen)'
      BY <2>2
    <2>5. ToSet(pendingBids') = {}
      BY <2>2 DEF ToSet
    <2>6. heard' \cap AllowedBids = ToSet(bids') /\ ToSet(bids') = seen' \cap AllowedBids
      BY <2>1, <2>2 DEF Collected
    <2> QED
      BY <2>1, <2>3, <2>4, <2>5, <2>6 DEF TimelyBidsCount, EarliestCheapestWins
  <1>4. CASE ChooseWinner
    BY <1>4, ChooseWinnerPreserves
  <1>5. CASE NoBids \/ Settle \/ UNCHANGED auctionVars
    <2>1. /\ UNCHANGED <<pendingBids, bids, seen, heard, offer, winner>>
          /\ \/ phase' = "failed" \/ phase' = phase
             \/ phase = "settling" /\ phase' = "accepted"
      BY <1>5 DEF NoBids, Settle, auctionVars
    <2>2. AuctionTypeOK'
      BY <2>1 DEF AuctionTypeOK, Phases
    <2>3. Collected(bids, seen)' /\ TimelyBidsCount'
      BY <2>1 DEF Collected, TimelyBidsCount
    <2>4. EarliestCheapestWins => EarliestCheapestWins'
      BY <2>1, SameChoice
    <2> QED
      BY <2>1, <2>2, <2>3, <2>4
  <1> QED
    BY <1>1, <1>2, <1>3, <1>4, <1>5 DEF AuctionNext

\* However the queue of submitBid and the firehose interleave and repeat each
\* other, a timely bid of an allowed bidder is collected exactly once.
THEOREM TimelyBidsCountOnce == AuctionSpec => [](CollectedOnce /\ TimelyBidsCount)
  <1>1. AuctionInv => CollectedOnce /\ TimelyBidsCount
    BY DEF AuctionInv, Collected, CollectedOnce
  <1> QED
    BY AuctionInitInv, AuctionNextInv, <1>1, PTL DEF AuctionSpec

\* With costs that are numbers, scoreLowestCost also finds the earliest of the
\* cheapest of any number of bids.
THEOREM AuctionHolds ==
    ASSUME ~Unpriceable
    PROVE  AuctionSpec => []AuctionPromise
  <1>1. AuctionInv => AuctionPromise
    BY DEF AuctionInv, Collected, CollectedOnce, AuctionPromise
  <1> QED
    BY AuctionInitInv, AuctionNextInv, <1>1, PTL DEF AuctionSpec

-----------------------------------------------------------------------------
(* MarketRegistry: a bidder that keeps its record fresh stays listed       *)

RegistryTypeOK ==
    /\ bidder \in [RegBidders -> {"off", "announcing", "registering", "leaving", "serving", "unlisted"}]
    /\ scan \in [Scans -> {"idle", "asking", "judged", "removing"}]
    /\ DOMAIN queue = Scans

\* A bidder that runs keeps its discovery record fresh.
RunningIsFresh ==
    \A b \in RegBidders : bidder[b] \in {"announcing", "registering", "serving"} => b \in fresh

\* A scan that has judged a bidder found no fresh record: if the bidder serves
\* by now, its lookup failed or it came back since.
JudgedIsExcused ==
    \A s \in Scans, b \in RegBidders :
        scan[s] \in {"judged", "removing"} /\ b = Head1(queue[s]) /\ bidder[b] = "serving"
            => b \in excused

RegistryInv == RegistryTypeOK /\ RunningIsFresh /\ JudgedIsExcused /\ FreshBidderStaysListed

\* The initial states satisfy the invariant.
LEMMA RegistryInitInv == RegistryInit => RegistryInv
  BY DEF RegistryInit, RegistryInv, RegistryTypeOK, RunningIsFresh, JudgedIsExcused,
         FreshBidderStaysListed

\* A step of a bidder.
LEMMA BidderPreserves ==
    ASSUME RegistryInv, NEW b \in RegBidders,
           EnsureDiscoveryRecord(b) \/ RegisterWithRegistry(b) \/ RegisterEnd(b)
               \/ BidderStops(b) \/ DiscoveryExpires(b)
    PROVE  RegistryInv'
  <1> USE DEF RegistryInv, RegistryTypeOK, RunningIsFresh, JudgedIsExcused, FreshBidderStaysListed
  <1>1. CASE EnsureDiscoveryRecord(b)
    BY <1>1 DEF EnsureDiscoveryRecord
  <1>2. CASE RegisterWithRegistry(b)
    BY <1>2 DEF RegisterWithRegistry
  <1>3. CASE RegisterEnd(b)
    <2>1. /\ UNCHANGED <<fresh, scan, queue>>
          /\ b \in index'
          /\ excused \cup (index \ index') \subseteq excused'
          /\ (\E s \in Scans : scan[s] \in {"judged", "removing"} /\ b = Head1(queue[s])) => b \in excused'
          /\ bidder[b] \in {"registering", "leaving"}
          /\ bidder' = [bidder EXCEPT ![b] = IF bidder[b] = "leaving" THEN "off" ELSE "serving"]
      BY <1>3 DEF RegisterEnd
    <2> QED
      BY <2>1
  <1>4. CASE BidderStops(b)
    BY <1>4 DEF BidderStops
  <1>5. CASE DiscoveryExpires(b)
    BY <1>5 DEF DiscoveryExpires
  <1> QED
    BY <1>1, <1>2, <1>3, <1>4, <1>5

\* A step of a scan of the health checker.
LEMMA ScanPreserves ==
    ASSUME RegistryInv, NEW s \in Scans, ScanStep(s) \/ FetchDiscovery(s, TRUE) \/ ScanFails(s)
    PROVE  RegistryInv'
  <1> USE DEF RegistryInv, RegistryTypeOK, RunningIsFresh, JudgedIsExcused, FreshBidderStaysListed
  <1>1. CASE ScanStart(s) \/ ScanEnds(s)
    BY <1>1 DEF ScanStart, ScanEnds
  <1>2. ASSUME NEW fails \in BOOLEAN, FetchDiscovery(s, fails) PROVE RegistryInv'
    <2> DEFINE h == Head1(queue[s])
    <2>1. /\ UNCHANGED <<bidder, fresh, index>>
          /\ excused \subseteq excused'
          /\ \/ /\ scan' = [scan EXCEPT ![s] = "judged"] /\ queue' = queue
                /\ h \notin fresh \/ h \in excused'
             \/ scan' = scan /\ scan[s] = "asking" /\ queue' = [queue EXCEPT ![s] = @ \ {h}]
      BY <1>2 DEF FetchDiscovery, Stale
    <2> HIDE DEF h
    <2>2. \A t \in Scans, b \in RegBidders :
              scan'[t] \in {"judged", "removing"} /\ b = Head1(queue'[t]) /\ bidder[b] = "serving"
                  => b \in excused'
      BY <2>1 DEF h
    <2> QED
      BY <2>1, <2>2
  <1>3. CASE RemoveBidder(s)
    BY <1>3 DEF RemoveBidder
  <1>5. CASE ScanFails(s)
    BY <1>5 DEF ScanFails
  <1>4. CASE RemoveEnd(s)
    <2> DEFINE h == Head1(queue[s])
    <2>1. /\ scan[s] = "removing" /\ scan' = [scan EXCEPT ![s] = "asking"]
          /\ queue' = [queue EXCEPT ![s] = @ \ {h}]
          /\ excused' = excused \cup (index \ (index' \cup {h}))
          /\ UNCHANGED <<bidder, fresh>>
      BY <1>4 DEF RemoveEnd
    <2>2. h \in RegBidders /\ bidder[h] = "serving" => h \in excused
      BY <2>1
    <2> HIDE DEF h
    <2> QED
      BY <2>1, <2>2
  <1> QED
    BY <1>1, <1>2, <1>3, <1>4, <1>5 DEF ScanStep

\* Every step keeps the invariant.
LEMMA RegistryNextInv == RegistryInv /\ [RegistryNext]_registryVars => RegistryInv'
  <1> SUFFICES ASSUME RegistryInv, [RegistryNext]_registryVars PROVE RegistryInv'
    OBVIOUS
  <1>1. CASE UNCHANGED registryVars
    BY <1>1 DEF registryVars, RegistryInv, RegistryTypeOK, RunningIsFresh,
                JudgedIsExcused, FreshBidderStaysListed
  <1> QED
    BY <1>1, BidderPreserves, ScanPreserves DEF RegistryNext

\* However registrations, restarts and overlapping scans of the health checker
\* interleave, only what the property names takes the entry of a bidder that
\* keeps its record fresh out of the index.
THEOREM FreshStaysListed == RegistrySpec => []FreshBidderStaysListed
  <1>1. RegistryInv => FreshBidderStaysListed
    BY DEF RegistryInv
  <1> QED
    BY RegistryInitInv, RegistryNextInv, <1>1, PTL DEF RegistrySpec

-----------------------------------------------------------------------------
(* MarketMessages: what a receiver acts upon is written and authentic      *)

Sent == {"sending", "ok", "failed"}

Deliveries ==
    [of  : Submissions,
     at  : {"arrived", "resolving", "locating", "reading", "verifying", "fetching", "dispatching"}
               \cup Answers,
     pds : Nat]

MessagesTypeOK ==
    /\ bindKeys \in BOOLEAN
    /\ stable \subseteq Producers
    /\ signer \in [Producers -> Nat] /\ lastKey \in Nat
    /\ sub \in [Submissions -> {"none", "keying", "signing", "thrown"} \cup Sent]
    /\ subKey \in [Submissions -> Nat]
    /\ delivery \in Seq(Deliveries)
    /\ dispatched \in [Submissions -> Nat]
    /\ pdsOf \in [Producers -> Nat] /\ pdsCache \in [Producers -> Nat]
    /\ keyCache \in [SubmissionKinds -> [Producers -> {"none", "published", "empty"}]]

\* A producer with a configured key signs with that key, whichever of the
\* calls that wait for the signer was the first.
ConfiguredKeySigns ==
    /\ \A p \in stable : signer[p] \in {0, HexKey}
    /\ \A c \in Submissions :
           c.by \in stable => subKey[c] = HexKey \/ sub[c] \in {"none", "keying"}

\* What is sent is written, and what is reported ok was acted upon.
SentIsWritten ==
    \A c \in Submissions :
        /\ sub[c] \in Sent => c \in written
        /\ dispatched[c] > 0 => c \in written
        /\ sub[c] = "ok" /\ c \in routed => dispatched[c] > 0

\* What arrives was sent, and is answered ok when it was acted upon.
ArrivedWasSent ==
    \A i \in DOMAIN delivery :
        /\ sub[delivery[i].of] \in Sent
        /\ delivery[i].at = "ok" /\ delivery[i].of \in routed => dispatched[delivery[i].of] > 0

\* A handler has no keys of a producer only after a failed lookup of its own.
EmptyAfterFailure ==
    \A k \in SubmissionKinds, p \in Producers : keyCache[k][p] = "empty" => <<k, p>> \in lookupFailed

Finished(c) == {i \in DOMAIN delivery : delivery[i].of = c /\ delivery[i].at \in {"ok", "failed"}}

OncePerRequest == \A c \in Submissions : dispatched[c] <= Cardinality(Finished(c))

MessagesInv ==
    /\ MessagesTypeOK /\ ConfiguredKeySigns /\ SentIsWritten /\ ArrivedWasSent
    /\ EmptyAfterFailure /\ RefusedForCause /\ OncePerRequest

\* The finished requests of a submission are finitely many.
LEMMA FinishedIsFinite ==
    ASSUME MessagesTypeOK, NEW c
    PROVE  IsFiniteSet(Finished(c)) /\ Cardinality(Finished(c)) \in Nat
  <1>1. DOMAIN delivery = 1 .. Len(delivery) /\ Len(delivery) \in Int
    BY DEF MessagesTypeOK
  <1>2. Finished(c) \subseteq 1 .. Len(delivery)
    BY <1>1 DEF Finished
  <1>3. IsFiniteSet(1 .. Len(delivery))
    BY <1>1, FS_Interval
  <1>4. IsFiniteSet(Finished(c))
    BY <1>2, <1>3, FS_Subset
  <1> QED
    BY <1>4, FS_CardinalityType

\* A request is for a submission.
LEMMA DeliveryOfSubmission ==
    ASSUME MessagesTypeOK, NEW i \in DOMAIN delivery
    PROVE  /\ delivery[i] \in Deliveries /\ delivery[i].of \in Submissions
           /\ delivery[i].of.by \in Producers /\ delivery[i].of.kind \in SubmissionKinds
  <1>1. delivery[i] \in Deliveries
    BY DEF MessagesTypeOK
  <1>2. delivery[i].of \in Submissions
    BY <1>1 DEF Deliveries
  <1> QED
    BY <1>1, <1>2, MessagesAssumption

\* What becomes of a request whose callback does not run in the step.
Stepped(i) ==
    LET c == delivery[i].of IN
    \E r \in Deliveries :
        /\ delivery' = [delivery EXCEPT ![i] = r] /\ r.of = c
        /\ delivery[i].at \notin {"ok", "failed"} /\ r.at # "failed"
        /\ r.at = "ok" => c \notin routed
        /\ r.at = "badsig" => bindKeys /\ (c.by \notin stable \/ <<c.kind, c.by>> \in lookupFailed')

\* Advancing a request is such a step.
LEMMA AdvanceSteps ==
    ASSUME MessagesTypeOK, NEW i \in DOMAIN delivery, NEW from, NEW to, Advance(i, from, to),
           from \notin {"ok", "failed"},
           to \in {"resolving", "locating", "reading", "verifying", "fetching", "dispatching",
                   "unauthorized", "unresolved", "badsig", "ok"},
           to = "ok" => delivery[i].of \notin routed,
           to = "badsig" => /\ bindKeys
                            /\ \/ delivery[i].of.by \notin stable
                               \/ <<delivery[i].of.kind, delivery[i].of.by>> \in lookupFailed'
    PROVE  Stepped(i)
  <1> DEFINE q == [delivery[i] EXCEPT !.at = to]
  <1>1. delivery' = [delivery EXCEPT ![i] = q] /\ delivery[i].at = from
    BY DEF Advance
  <1>2. q \in Deliveries /\ q.of = delivery[i].of /\ q.at = to
    BY DeliveryOfSubmission DEF Deliveries, Answers
  <1> HIDE DEF q
  <1> QED
    BY <1>1, <1>2 DEF Stepped

\* The initial states satisfy the invariant.
LEMMA MessagesInitInv == MessagesInit => MessagesInv
  <1> SUFFICES ASSUME MessagesInit PROVE MessagesInv
    OBVIOUS
  <1>1. MessagesTypeOK
    BY DEF MessagesInit, MessagesTypeOK, HexKey
  <1>2. ConfiguredKeySigns /\ SentIsWritten /\ ArrivedWasSent /\ EmptyAfterFailure /\ RefusedForCause
    BY DEF MessagesInit, ConfiguredKeySigns, SentIsWritten, ArrivedWasSent, EmptyAfterFailure,
           RefusedForCause, Sent
  <1>3. OncePerRequest
    <2> SUFFICES ASSUME NEW c \in Submissions PROVE dispatched[c] <= Cardinality(Finished(c))
      BY DEF OncePerRequest
    <2>1. dispatched[c] = 0
      BY DEF MessagesInit
    <2> QED
      BY <1>1, <2>1, FinishedIsFinite
  <1> QED
    BY <1>1, <1>2, <1>3 DEF MessagesInv

\* A step of the producer's client, which leaves the receiver alone.
LEMMA ClientPreserves ==
    ASSUME MessagesInv, NEW c \in Submissions,
           EnsureSigner(c) \/ KeypairReady(c) \/ CreateSignedRecord(c) \/ Unanswered(c)
    PROVE  MessagesInv'
  <1> USE MessagesAssumption
      DEF MessagesInv, MessagesTypeOK, ConfiguredKeySigns, SentIsWritten, ArrivedWasSent,
          EmptyAfterFailure, RefusedForCause, Goto, Sent, HexKey
  <1>0. c.by \in Producers
    OBVIOUS
  <1>u. UNCHANGED <<bindKeys, routed, stable, pdsOf, delivery, dispatched, pdsCache, keyCache, lookupFailed>>
    BY DEF EnsureSigner, KeypairReady, CreateSignedRecord, Unanswered, serverVars, worldVars
  <1>o. OncePerRequest'
    BY <1>u DEF OncePerRequest, Finished
  <1>d. \A i \in DOMAIN delivery : delivery[i].of \in Submissions
    BY DeliveryOfSubmission
  <1>1. CASE EnsureSigner(c)
    BY <1>0, <1>1, <1>u, <1>o, <1>d DEF EnsureSigner
  <1>2. CASE KeypairReady(c)
    <2>0. lastKey' \in Nat
      BY <1>2 DEF KeypairReady, LoadOrGenerateKeypair
    <2>1. /\ signer' = [signer EXCEPT ![c.by] = subKey'[c]]
          /\ subKey' = [subKey EXCEPT ![c] = subKey'[c]]
          /\ subKey'[c] \in Nat
          /\ c.by \in stable => subKey'[c] = HexKey
      BY <1>0, <1>2, <2>0 DEF KeypairReady, LoadOrGenerateKeypair
    <2>2. sub[c] = "keying" /\ sub' = [sub EXCEPT ![c] = "signing"] /\ UNCHANGED written
      BY <1>2 DEF KeypairReady
    <2> QED
      BY <1>0, <1>u, <1>o, <1>d, <2>0, <2>1, <2>2
  <1>3. CASE CreateSignedRecord(c)
    BY <1>0, <1>3, <1>u, <1>o, <1>d DEF CreateSignedRecord
  <1>4. CASE Unanswered(c)
    BY <1>0, <1>4, <1>u, <1>o, <1>d DEF Unanswered, clientVars
  <1> QED
    BY <1>1, <1>2, <1>3, <1>4

\* A request arrives: a submission that was written.
LEMMA DeliverPreserves ==
    ASSUME MessagesInv, NEW c \in Submissions, Deliver(c)
    PROVE  MessagesInv'
  <1> DEFINE d == [of |-> c, at |-> "arrived", pds |-> 0]
  <1>1. /\ delivery' = Append(delivery, d) /\ sub[c] = "sending"
        /\ UNCHANGED <<bindKeys, routed, stable, signer, lastKey, sub, subKey, written, dispatched,
                       pdsOf, pdsCache, keyCache, lookupFailed>>
    BY DEF Deliver, clientVars, worldVars
  <1>2. d \in Deliveries /\ delivery \in Seq(Deliveries)
    BY DEF Deliveries, MessagesInv, MessagesTypeOK
  <1> HIDE DEF d
  <1>3. /\ delivery' \in Seq(Deliveries)
        /\ DOMAIN delivery' = DOMAIN delivery \cup {Len(delivery) + 1}
        /\ \A i \in DOMAIN delivery : delivery'[i] = delivery[i]
        /\ delivery'[Len(delivery) + 1] = d
    BY <1>1, <1>2
  <1>4. d.of = c /\ d.at = "arrived"
    BY DEF d
  <1>5. MessagesTypeOK'
    BY <1>1, <1>3 DEF MessagesInv, MessagesTypeOK
  <1>6. (ConfiguredKeySigns /\ SentIsWritten /\ EmptyAfterFailure)'
    BY <1>1 DEF MessagesInv, ConfiguredKeySigns, SentIsWritten, EmptyAfterFailure
  <1>7. (ArrivedWasSent /\ RefusedForCause)'
    BY <1>1, <1>3, <1>4 DEF MessagesInv, ArrivedWasSent, RefusedForCause, Sent
  <1>8. OncePerRequest'
    <2> SUFFICES ASSUME NEW s \in Submissions PROVE dispatched'[s] <= Cardinality(Finished(s)')
      BY DEF OncePerRequest
    <2>1. Finished(s)' = Finished(s)
      BY <1>3, <1>4 DEF Finished
    <2> QED
      BY <1>1, <2>1 DEF MessagesInv, OncePerRequest
  <1> QED
    BY <1>5, <1>6, <1>7, <1>8 DEF MessagesInv

\* A step of the receiver on its i-th request, before the callback.
LEMMA ReceiverPreserves ==
    ASSUME MessagesInv, NEW i \in DOMAIN delivery,
           \/ Authorize(i) \/ PdsForDid(i) \/ PdsLocated(i) \/ Resolve(i)
           \/ VerifyAuthored(i) \/ KeysForDid(i)
    PROVE  MessagesInv'
  <1> DEFINE c == delivery[i].of
  <1>0. /\ delivery \in Seq(Deliveries) /\ delivery[i] \in Deliveries
        /\ c \in Submissions /\ c.by \in Producers /\ c.kind \in SubmissionKinds
    BY DeliveryOfSubmission DEF MessagesInv, MessagesTypeOK
  <1>1. /\ UNCHANGED <<bindKeys, routed, stable, signer, lastKey, sub, subKey, written, dispatched, pdsOf>>
        /\ lookupFailed \subseteq lookupFailed'
        /\ pdsCache' \in [Producers -> Nat]
        /\ keyCache' \in [SubmissionKinds -> [Producers -> {"none", "published", "empty"}]]
        /\ EmptyAfterFailure'
    <2>1. CASE PdsLocated(i)
      BY <1>0, <2>1 DEF PdsLocated, clientVars, worldVars, MessagesInv, MessagesTypeOK, EmptyAfterFailure
    <2>2. CASE KeysForDid(i)
      BY <1>0, <2>2 DEF KeysForDid, clientVars, worldVars, MessagesInv, MessagesTypeOK, EmptyAfterFailure
    <2> QED
      BY <2>1, <2>2 DEF Authorize, PdsForDid, Resolve, VerifyAuthored, clientVars, worldVars,
                        MessagesInv, MessagesTypeOK, EmptyAfterFailure
  <1>s. Stepped(i)
    <2> USE DEF MessagesInv
    <2>1. CASE Authorize(i)
      BY <2>1, AdvanceSteps DEF Authorize
    <2>2. CASE PdsForDid(i)
      <3>1. CASE pdsCache[c.by] = 0
        BY <2>2, <3>1, AdvanceSteps DEF PdsForDid
      <3>2. CASE pdsCache[c.by] # 0
        <4> DEFINE q == [delivery[i] EXCEPT !.at = "reading", !.pds = pdsCache[c.by]]
        <4>1. q \in Deliveries /\ q.of = c /\ q.at = "reading"
          BY <1>0 DEF Deliveries, MessagesTypeOK
        <4>2. delivery' = [delivery EXCEPT ![i] = q] /\ delivery[i].at = "resolving"
          BY <2>2, <3>2 DEF PdsForDid
        <4> HIDE DEF q
        <4> QED
          BY <4>1, <4>2 DEF Stepped
      <3> QED
        BY <3>1, <3>2
    <2>3. CASE PdsLocated(i)
      <3> DEFINE q == [delivery[i] EXCEPT !.at = "reading", !.pds = pdsOf[c.by]]
      <3>1. q \in Deliveries /\ q.of = c /\ q.at = "reading"
        BY <1>0 DEF Deliveries, MessagesTypeOK
      <3>2. /\ delivery[i].at = "locating"
            /\ delivery' = [delivery EXCEPT ![i] = q] \/ Advance(i, "locating", "unresolved")
        BY <2>3 DEF PdsLocated
      <3>3. CASE delivery' = [delivery EXCEPT ![i] = q]
        <4> HIDE DEF q
        <4> QED
          BY <3>1, <3>2, <3>3 DEF Stepped
      <3>4. CASE Advance(i, "locating", "unresolved")
        BY <3>4, AdvanceSteps
      <3> QED
        BY <3>2, <3>3, <3>4
    <2>r. CASE Resolve(i)
      <3>1. Advance(i, "reading", "verifying") \/ Advance(i, "reading", "unresolved")
        BY <2>r DEF Resolve
      <3> QED
        BY <3>1, AdvanceSteps
    <2>4. ASSUME NEW keys, Verdict(i, keys), delivery[i].at \in {"verifying", "fetching"},
                 keys # "published" /\ bindKeys => <<c.kind, c.by>> \in lookupFailed'
          PROVE  Stepped(i)
      <3>1. c.by \in stable => subKey[c] = HexKey
        BY <1>0 DEF ConfiguredKeySigns, ArrivedWasSent, Sent
      <3>2. PICK x \in {"badsig", "dispatching", "ok"} :
               /\ Advance(i, delivery[i].at, x)
               /\ x = "ok" => c \notin routed
               /\ x = "badsig" => bindKeys /\ ~(keys = "published" /\ c.by \in stable /\ subKey[c] = HexKey)
        BY <2>4 DEF Verdict, MessagesTypeOK
      <3> QED
        BY <2>4, <3>1, <3>2, AdvanceSteps
    <2>5. CASE VerifyAuthored(i)
      <3>1. CASE bindKeys /\ keyCache[c.kind][c.by] = "none"
        BY <2>5, <3>1, AdvanceSteps DEF VerifyAuthored
      <3>2. CASE ~(bindKeys /\ keyCache[c.kind][c.by] = "none")
        <4>1. Verdict(i, keyCache[c.kind][c.by]) /\ delivery[i].at = "verifying"
          BY <2>5, <3>2 DEF VerifyAuthored
        <4>2. keyCache[c.kind][c.by] # "published" /\ bindKeys => <<c.kind, c.by>> \in lookupFailed'
          BY <1>0, <1>1, <3>2 DEF MessagesTypeOK, EmptyAfterFailure
        <4> QED
          BY <4>1, <4>2, <2>4
      <3> QED
        BY <3>1, <3>2
    <2>6. CASE KeysForDid(i)
      <3>1. PICK keys \in {"published", "empty"} :
               /\ Verdict(i, keys)
               /\ lookupFailed' = IF keys = "empty" THEN lookupFailed \cup {<<c.kind, c.by>>} ELSE lookupFailed
        BY <2>6 DEF KeysForDid
      <3>2. delivery[i].at = "fetching"
        BY <2>6 DEF KeysForDid
      <3> QED
        BY <3>1, <3>2, <2>4
    <2> QED
      BY <2>1, <2>2, <2>3, <2>r, <2>5, <2>6
  <1>2. PICK r \in Deliveries :
          /\ delivery' = [delivery EXCEPT ![i] = r] /\ r.of = c
          /\ delivery[i].at \notin {"ok", "failed"} /\ r.at # "failed"
          /\ r.at = "ok" => c \notin routed
          /\ r.at = "badsig" =>
                 bindKeys /\ (c.by \notin stable \/ <<c.kind, c.by>> \in lookupFailed')
    BY <1>s DEF Stepped
  <1>3. /\ DOMAIN delivery' = DOMAIN delivery /\ delivery'[i] = r
        /\ \A j \in DOMAIN delivery \ {i} : delivery'[j] = delivery[j]
        /\ delivery' \in Seq(Deliveries)
    BY <1>0, <1>2
  <1>5. MessagesTypeOK'
    BY <1>1, <1>3 DEF MessagesInv, MessagesTypeOK
  <1>6. (ConfiguredKeySigns /\ SentIsWritten)'
    BY <1>1 DEF MessagesInv, ConfiguredKeySigns, SentIsWritten
  <1>7. ArrivedWasSent'
    BY <1>1, <1>2, <1>3 DEF MessagesInv, ArrivedWasSent
  <1>8. RefusedForCause'
    BY <1>1, <1>2, <1>3 DEF MessagesInv, RefusedForCause
  <1>9. OncePerRequest'
    <2> SUFFICES ASSUME NEW s \in Submissions PROVE dispatched'[s] <= Cardinality(Finished(s)')
      BY DEF OncePerRequest
    <2>1. Finished(s) \subseteq Finished(s)'
      BY <1>2, <1>3 DEF Finished
    <2>2. IsFiniteSet(Finished(s)') /\ Cardinality(Finished(s)') \in Nat
      <3>1. DOMAIN delivery' = 1 .. Len(delivery) /\ Len(delivery) \in Int
        BY <1>0, <1>3
      <3>2. Finished(s)' \subseteq 1 .. Len(delivery)
        BY <3>1 DEF Finished
      <3>3. IsFiniteSet(1 .. Len(delivery))
        BY <3>1, FS_Interval
      <3>4. IsFiniteSet(Finished(s)')
        BY <3>2, <3>3, FS_Subset
      <3> QED
        BY <3>4, FS_CardinalityType
    <2>3. Cardinality(Finished(s)) <= Cardinality(Finished(s)')
      BY <2>1, <2>2, FS_Subset
    <2>4. dispatched[s] <= Cardinality(Finished(s)) /\ dispatched'[s] = dispatched[s]
      BY <1>1 DEF MessagesInv, OncePerRequest
    <2>5. dispatched[s] \in Nat /\ Cardinality(Finished(s)) \in Nat
      BY FinishedIsFinite DEF MessagesInv, MessagesTypeOK
    <2> QED
      BY <2>2, <2>3, <2>4, <2>5
  <1> QED
    BY <1>1, <1>5, <1>6, <1>7, <1>8, <1>9 DEF MessagesInv

\* The callback runs for a request that finishes with it.
LEMMA DispatchPreserves ==
    ASSUME MessagesInv, NEW i \in DOMAIN delivery, Dispatch(i)
    PROVE  MessagesInv'
  <1> DEFINE c == delivery[i].of
  <1>0. /\ delivery \in Seq(Deliveries) /\ delivery[i] \in Deliveries /\ c \in Submissions
        /\ dispatched \in [Submissions -> Nat] /\ sub[c] \in Sent
    BY DeliveryOfSubmission DEF MessagesInv, MessagesTypeOK, ArrivedWasSent
  <1>1. /\ UNCHANGED <<bindKeys, routed, stable, signer, lastKey, sub, subKey, written, pdsOf, pdsCache,
                       keyCache, lookupFailed>>
        /\ dispatched' = [dispatched EXCEPT ![c] = @ + 1]
    BY DEF Dispatch, clientVars, worldVars
  <1>2. PICK r \in Deliveries :
          /\ delivery' = [delivery EXCEPT ![i] = r] /\ r.of = c
          /\ delivery[i].at = "dispatching" /\ r.at \in {"ok", "failed"}
    <2>1. \A x \in {"ok", "failed"} :
             /\ [delivery[i] EXCEPT !.at = x] \in Deliveries
             /\ [delivery[i] EXCEPT !.at = x].of = c /\ [delivery[i] EXCEPT !.at = x].at = x
      BY <1>0 DEF Deliveries, Answers
    <2>2. PICK x \in {"ok", "failed"} :
             delivery' = [delivery EXCEPT ![i] = [delivery[i] EXCEPT !.at = x]] /\ delivery[i].at = "dispatching"
      BY DEF Dispatch, Advance
    <2> QED
      BY <2>1, <2>2
  <1>3. /\ DOMAIN delivery' = DOMAIN delivery /\ delivery'[i] = r
        /\ \A j \in DOMAIN delivery \ {i} : delivery'[j] = delivery[j]
        /\ delivery' \in Seq(Deliveries)
    BY <1>0, <1>2
  <1>4. dispatched'[c] = dispatched[c] + 1 /\ \A s \in Submissions \ {c} : dispatched'[s] = dispatched[s]
    BY <1>0, <1>1
  <1>5. MessagesTypeOK'
    BY <1>0, <1>1, <1>3 DEF MessagesInv, MessagesTypeOK
  <1>6. (ConfiguredKeySigns /\ EmptyAfterFailure)'
    BY <1>1 DEF MessagesInv, ConfiguredKeySigns, EmptyAfterFailure
  <1>7. SentIsWritten'
    BY <1>0, <1>1, <1>4 DEF MessagesInv, SentIsWritten
  <1>8. ArrivedWasSent'
    <2> SUFFICES ASSUME NEW j \in DOMAIN delivery
                 PROVE  /\ sub[delivery'[j].of] \in Sent
                        /\ delivery'[j].at = "ok" /\ delivery'[j].of \in routed => dispatched'[delivery'[j].of] > 0
      BY <1>1, <1>3 DEF ArrivedWasSent
    <2>1. delivery'[j].of = delivery[j].of /\ delivery[j].of \in Submissions
      BY <1>0, <1>2, <1>3, DeliveryOfSubmission DEF MessagesInv
    <2>2. \A s \in Submissions : dispatched'[s] >= dispatched[s] /\ dispatched[s] \in Nat
      BY <1>0, <1>4
    <2>3. CASE j = i
      BY <2>1, <2>3, <1>0, <1>4
    <2>4. CASE j # i
      <3>1. delivery'[j] = delivery[j]
        BY <2>4, <1>3
      <3>2. /\ sub[delivery[j].of] \in Sent
            /\ delivery[j].at = "ok" /\ delivery[j].of \in routed => dispatched[delivery[j].of] > 0
        BY DEF MessagesInv, ArrivedWasSent
      <3>d. \A s \in Submissions : dispatched[s] > 0 => dispatched'[s] > 0
        <4>1. \A s \in Submissions : dispatched'[s] \in Nat
          BY <1>0, <1>1
        <4> QED
          BY <2>2, <4>1
      <3>3. dispatched[delivery[j].of] > 0 => dispatched'[delivery[j].of] > 0
        BY <2>1, <3>d
      <3> QED
        BY <3>1, <3>2, <3>3
    <2> QED
      BY <2>3, <2>4
  <1>9. RefusedForCause'
    BY <1>1, <1>2, <1>3 DEF MessagesInv, RefusedForCause
  <1>10. OncePerRequest'
    <2> SUFFICES ASSUME NEW s \in Submissions PROVE dispatched'[s] <= Cardinality(Finished(s)')
      BY DEF OncePerRequest
    <2>1. IsFiniteSet(Finished(s)) /\ Cardinality(Finished(s)) \in Nat
      BY FinishedIsFinite DEF MessagesInv
    <2>2. dispatched[s] <= Cardinality(Finished(s)) /\ dispatched[s] \in Nat
      BY <1>0 DEF MessagesInv, OncePerRequest
    <2>3. CASE s # c
      <3>1. Finished(s)' = Finished(s)
        BY <1>2, <1>3, <2>3 DEF Finished
      <3> QED
        BY <1>4, <2>2, <2>3, <3>1
    <2>4. CASE s = c
      <3>1. Finished(s)' = Finished(s) \cup {i} /\ i \notin Finished(s)
        BY <1>2, <1>3, <2>4 DEF Finished
      <3>2. Cardinality(Finished(s)') = Cardinality(Finished(s)) + 1
        BY <2>1, <3>1, FS_AddElement
      <3> QED
        BY <1>4, <2>1, <2>2, <2>4, <3>2
    <2> QED
      BY <2>3, <2>4
  <1> QED
    BY <1>5, <1>6, <1>7, <1>8, <1>9, <1>10 DEF MessagesInv

\* The first answer of a request ends the call of the client.
LEMMA ForwardedPreserves ==
    ASSUME MessagesInv, NEW i \in DOMAIN delivery, Forwarded(i)
    PROVE  MessagesInv'
  <1> DEFINE c == delivery[i].of
  <1>0. c \in Submissions
    BY DeliveryOfSubmission DEF MessagesInv
  <1>1. /\ UNCHANGED <<bindKeys, routed, stable, signer, lastKey, subKey, written, delivery, dispatched,
                       pdsOf, pdsCache, keyCache, lookupFailed>>
        /\ sub[c] = "sending"
        /\ sub' = [sub EXCEPT ![c] = IF delivery[i].at = "ok" THEN "ok" ELSE "failed"]
    BY DEF Forwarded, Goto, clientVars, serverVars, worldVars
  <1>2. (MessagesTypeOK /\ ConfiguredKeySigns)'
    BY <1>0, <1>1 DEF MessagesInv, MessagesTypeOK, ConfiguredKeySigns, Sent
  <1>3. (SentIsWritten /\ ArrivedWasSent)'
    BY <1>0, <1>1 DEF MessagesInv, MessagesTypeOK, SentIsWritten, ArrivedWasSent, Sent, Deliveries
  <1>4. (EmptyAfterFailure /\ RefusedForCause /\ OncePerRequest)'
    BY <1>1 DEF MessagesInv, EmptyAfterFailure, RefusedForCause, OncePerRequest, Finished
  <1> QED
    BY <1>2, <1>3, <1>4 DEF MessagesInv

\* Every step keeps the invariant.
LEMMA MessagesNextInv == MessagesInv /\ [MessagesNext]_messageVars => MessagesInv'
  <1> SUFFICES ASSUME MessagesInv, [MessagesNext]_messageVars PROVE MessagesInv'
    OBVIOUS
  <1>1. CASE (\E p \in Producers : MovePds(p)) \/ UNCHANGED messageVars
    <2>1. /\ UNCHANGED <<bindKeys, routed, stable, signer, lastKey, sub, subKey, written, delivery,
                         dispatched, pdsCache, keyCache, lookupFailed>>
          /\ pdsOf' \in [Producers -> Nat]
      <3>1. CASE UNCHANGED messageVars
        BY <3>1 DEF messageVars, MessagesInv, MessagesTypeOK
      <3>2. ASSUME NEW p \in Producers, MovePds(p)
            PROVE  /\ UNCHANGED <<bindKeys, routed, stable, signer, lastKey, sub, subKey, written, delivery,
                                dispatched, pdsCache, keyCache, lookupFailed>>
                   /\ pdsOf' \in [Producers -> Nat]
        BY <3>2 DEF MovePds, clientVars, serverVars, MessagesInv, MessagesTypeOK
      <3> QED
        BY <1>1, <3>1, <3>2
    <2> QED
      BY <2>1 DEF MessagesInv, MessagesTypeOK, ConfiguredKeySigns, SentIsWritten, ArrivedWasSent,
                  EmptyAfterFailure, RefusedForCause, OncePerRequest, Finished
  <1> QED
    BY <1>1, ClientPreserves, DeliverPreserves, ReceiverPreserves, DispatchPreserves,
       ForwardedPreserves DEF MessagesNext, SubmissionFlow, ReceiverStep

\* Whichever of the write, the forwarding and the answer is lost or replayed,
\* and however the first calls of a client race for its signer, a receiver acts
\* upon what its author wrote, once per request, and refuses an honest message
\* only for want of a key.
THEOREM MessagesHold == MessagesSpec => []MessagesAreSound
  <1>1. MessagesInv => MessagesAreSound
    BY DEF MessagesInv, SentIsWritten, OncePerRequest, Finished, MessagesAreSound, SubmissionIsHonest
  <1> QED
    BY MessagesInitInv, MessagesNextInv, <1>1, PTL DEF MessagesSpec

-----------------------------------------------------------------------------
(* RequesterFlow: the first of the cheapest bids wins, its VM is released  *)

\* The winner among the first i bids, given that among the first i - 1.
BestUpTo(f, i) ==
    IF i = 1 THEN 1
    ELSE IF Cheaper(flowBids[i].cost, flowBids[f[i - 1]].cost) THEN i ELSE f[i - 1]

\* The recursion of reduce has a solution, however many bids there are.
LEMMA BestExists ==
    \A n \in Nat : \E f \in [1..n -> Nat] : \A i \in 1..n : f[i] = BestUpTo(f, i)
  <1> DEFINE S == {n \in Nat : \E f \in [1..n -> Nat] : \A i \in 1..n : f[i] = BestUpTo(f, i)}
  <1>1. 0 \in S
    <2>1. [i \in 1..0 |-> 1] \in [1..0 -> Nat]
      OBVIOUS
    <2>2. \A i \in 1..0 : FALSE
      OBVIOUS
    <2> QED
      BY <2>1, <2>2
  <1>2. ASSUME NEW n \in Nat, n \in S PROVE n + 1 \in S
    <2>1. PICK f \in [1..n -> Nat] : \A i \in 1..n : f[i] = BestUpTo(f, i)
      BY <1>2
    <2> DEFINE g == [i \in 1..(n + 1) |-> IF i = n + 1 THEN BestUpTo(f, i) ELSE f[i]]
    <2>2. \A i \in 1..(n + 1) : i # n + 1 => i \in 1..n /\ g[i] = f[i]
      OBVIOUS
    <2>3. g[n + 1] = BestUpTo(f, n + 1)
      OBVIOUS
    <2>4. \A i \in 1..(n + 1) : i # 1 => i - 1 \in 1..n /\ g[i - 1] = f[i - 1]
      OBVIOUS
    <2>5. BestUpTo(f, n + 1) \in Nat
      <3>1. n # 0 => f[n] \in Nat
        OBVIOUS
      <3> QED
        BY <3>1 DEF BestUpTo
    <2>6. g \in [1..(n + 1) -> Nat]
      BY <2>2, <2>3, <2>5
    <2>7. \A i \in 1..(n + 1) : g[i] = BestUpTo(g, i)
      <3> HIDE DEF g
      <3> TAKE i \in 1..(n + 1)
      <3>1. BestUpTo(g, i) = BestUpTo(f, i)
        BY <2>4 DEF BestUpTo
      <3> QED
        BY <2>1, <2>2, <2>3, <3>1
    <2> HIDE DEF g
    <2> QED
      BY <2>6, <2>7
  <1> HIDE DEF S
  <1>3. Nat \subseteq S
    BY <1>1, <1>2, SetInduction
  <1> QED
    BY <1>3 DEF S

\* Best is what that recursion gives for the last bid.
LEMMA BestIsRecursive ==
    ASSUME NEW n \in Nat
    PROVE  \E f : (\A i \in 1..n : f[i] = BestUpTo(f, i)) /\ Best(n) = f[n]
  <1> DEFINE body(f, i) == IF i = 1 THEN 1
                           ELSE IF Cheaper(flowBids[i].cost, flowBids[f[i - 1]].cost)
                           THEN i ELSE f[i - 1]
             b == CHOOSE f : f = [i \in 1..n |-> body(f, i)]
  <1>1. PICK f \in [1..n -> Nat] : \A i \in 1..n : f[i] = BestUpTo(f, i)
    BY BestExists
  <1>2. f = [i \in 1..n |-> body(f, i)]
    BY <1>1 DEF BestUpTo
  <1>3. b = [i \in 1..n |-> body(b, i)]
    <2> HIDE DEF body
    <2> QED
      BY <1>2
  <1>4. Best(n) = b[n]
    BY DEF Best
  <1>5. \A i \in 1..n : b[i] = BestUpTo(b, i)
    <2> HIDE DEF b
    <2> QED
      BY <1>3 DEF BestUpTo
  <1> QED
    BY <1>4, <1>5

ReadableCosts == Nat \cup {NoCost}

\* Among bids of readable cost, what is not cheaper is at least as dear: a bid
\* cheaper than the best so far is cheaper than every bid before it.
LEMMA CheaperOrders ==
    ASSUME NEW a \in ReadableCosts, NEW b \in ReadableCosts, NEW c \in ReadableCosts
    PROVE  /\ ~Cheaper(a, b) /\ Cheaper(c, b) => Cheaper(c, a)
           /\ Cheaper(a, b) => ~Cheaper(b, a)
           /\ ~Cheaper(a, a)
  BY FlowAssumption DEF Cheaper, ReadableCosts

\* The first of the cheapest of the first n bids.
FirstCheapestOf(w, n) ==
    /\ w \in 1..n
    /\ \A i \in 1..n : /\ ~Cheaper(flowBids[i].cost, flowBids[w].cost)
                       /\ i < w => Cheaper(flowBids[w].cost, flowBids[i].cost)

\* reduce finds it.
LEMMA BestIsFirstCheapest ==
    ASSUME NEW n \in Nat, n # 0, \A i \in 1..n : flowBids[i].cost \in ReadableCosts
    PROVE  FirstCheapestOf(Best(n), n)
  <1>1. PICK f : (\A i \in 1..n : f[i] = BestUpTo(f, i)) /\ Best(n) = f[n]
    BY BestIsRecursive
  <1> DEFINE S == {k \in Nat : k \in 1..n => FirstCheapestOf(f[k], k)}
  <1>2. 0 \in S
    OBVIOUS
  <1>3. ASSUME NEW k \in Nat, k \in S, k + 1 \in 1..n PROVE FirstCheapestOf(f[k + 1], k + 1)
    <2>1. f[k + 1] = BestUpTo(f, k + 1)
      BY <1>1, <1>3
    <2>2. CASE k = 0
      <3>1. f[1] = 1 /\ ~Cheaper(flowBids[1].cost, flowBids[1].cost)
        BY <2>1, <2>2, <1>3, CheaperOrders DEF BestUpTo
      <3> QED
        BY <2>2, <3>1 DEF FirstCheapestOf
    <2>3. CASE k # 0
      <3> DEFINE w == f[k]
      <3>1. k \in 1..n /\ FirstCheapestOf(w, k)
        BY <1>3, <2>3
      <3>2. f[k + 1] = IF Cheaper(flowBids[k + 1].cost, flowBids[w].cost) THEN k + 1 ELSE w
        BY <2>1, <2>3 DEF BestUpTo
      <3> HIDE DEF w
      <3>3. /\ \A i \in 1..(k + 1) : i \in 1..k \/ i = k + 1
            /\ \A i \in 1..(k + 1) : flowBids[i].cost \in ReadableCosts
            /\ w \in 1..k
        BY <1>3, <3>1 DEF FirstCheapestOf
      <3>4. CASE Cheaper(flowBids[k + 1].cost, flowBids[w].cost)
        <4>1. \A i \in 1..k : Cheaper(flowBids[k + 1].cost, flowBids[i].cost)
          BY <3>1, <3>3, <3>4, CheaperOrders DEF FirstCheapestOf
        <4>2. \A i \in 1..(k + 1) : ~Cheaper(flowBids[i].cost, flowBids[k + 1].cost)
          BY <3>3, <4>1, CheaperOrders
        <4> QED
          BY <3>2, <3>3, <3>4, <4>1, <4>2 DEF FirstCheapestOf
      <3>5. CASE ~Cheaper(flowBids[k + 1].cost, flowBids[w].cost)
        <4>1. \A i \in 1..(k + 1) : ~Cheaper(flowBids[i].cost, flowBids[w].cost)
          BY <3>1, <3>3, <3>5 DEF FirstCheapestOf
        <4>2. \A i \in 1..(k + 1) : i < w => i \in 1..k
          BY <3>3
        <4>3. w \in 1..(k + 1) /\ f[k + 1] = w
          BY <3>2, <3>3, <3>5
        <4> QED
          BY <3>1, <4>1, <4>2, <4>3 DEF FirstCheapestOf
      <3> QED
        BY <3>4, <3>5
    <2> QED
      BY <2>2, <2>3
  <1>4. Nat \subseteq S
    <2>1. \A k \in Nat : k \in S => k + 1 \in S
      BY <1>3
    <2> HIDE DEF S
    <2> QED
      BY <1>2, <2>1, SetInduction
  <1> QED
    BY <1>1, <1>4

BidRecords == [by : Bidders, cost : FlowCosts]

FlowTypeOK ==
    /\ step \in {"discover", "ask", "window", "nobids", "award", "accept", "verify", "use", "delete",
                "done", "deletefailed", "threw"}
    /\ pending \in Seq(BidRecords)
    /\ flowBids \in Seq(BidRecords)
    /\ vm \in {"none", "up", "deleted"}
    /\ receipt \in {"none", "refs", "full"}
    /\ genuine \in BOOLEAN /\ receiptOk \in BOOLEAN /\ used \in BOOLEAN /\ noDelete \in BOOLEAN

\* There is no winner before the bids are collected, and none without bids.
AwardedLater ==
    /\ step \in {"discover", "ask", "window", "nobids", "award"} => flowWinner = 0
    /\ step = "award" => flowBids # <<>>

\* What is known of the receipt at each point of the flow.
ReceiptInOrder ==
    /\ step \in {"discover", "ask", "window", "nobids", "award", "accept", "threw", "verify"}
           => ~receiptOk
    /\ step \in {"discover", "ask", "window", "nobids", "award", "accept", "threw", "verify", "use"}
           => ~used
    /\ receiptOk => genuine
    /\ genuine => receipt \in {"refs", "full"} /\ vm # "none"
    /\ used => receiptOk
    /\ step \notin {"done"} => vm # "deleted"
    /\ GenuineVmIsReleased

FlowInv == FlowTypeOK /\ AwardedLater /\ ReceiptInOrder /\ FirstCheapestWins

\* The initial states satisfy the invariant.
LEMMA FlowInitInv == FlowInit => FlowInv
  <1> SUFFICES ASSUME FlowInit PROVE FlowInv
    OBVIOUS
  <1>1. FlowTypeOK
    <2>1. pending \in Seq(BidRecords) /\ flowBids \in Seq(BidRecords)
      BY DEF FlowInit
    <2>2. genuine \in BOOLEAN /\ receiptOk \in BOOLEAN /\ used \in BOOLEAN /\ noDelete \in BOOLEAN
      BY DEF FlowInit
    <2> QED
      BY <2>1, <2>2 DEF FlowInit, FlowTypeOK
  <1>2. AwardedLater /\ ReceiptInOrder /\ FirstCheapestWins
    BY DEF FlowInit, AwardedLater, ReceiptInOrder, GenuineVmIsReleased, FirstCheapestWins
  <1> QED
    BY <1>1, <1>2 DEF FlowInv

\* The collected bids and the winner among them change only together.
LEMMA SameAward ==
    ASSUME UNCHANGED <<flowBids, flowWinner>>, FirstCheapestWins PROVE FirstCheapestWins'
  BY DEF FirstCheapestWins, Cheaper

\* Every step keeps the invariant.
LEMMA FlowNextInv == FlowInv /\ [FlowNext]_flowVars => FlowInv'
  <1> SUFFICES ASSUME FlowInv, [FlowNext]_flowVars PROVE FlowInv'
    OBVIOUS
  <1> USE DEF FlowInv
  <1>1. CASE FlowDiscover \/ (\E b \in Bidders : AskBidder(b)) \/ StartWindow
    <2>1. /\ UNCHANGED <<pending, flowBids, flowWinner, vm, receipt, genuine, receiptOk, used, noDelete>>
          /\ step \in {"discover", "ask"} /\ step' \in {"ask", "window"}
      BY <1>1 DEF FlowDiscover, AskBidder, StartWindow, awardVars, dealVars
    <2> QED
      BY <2>1, SameAward DEF FlowTypeOK, AwardedLater, ReceiptInOrder, GenuineVmIsReleased
  <1>2. ASSUME NEW b \in Bidders, NEW c \in FlowCosts, FlowSubmitBid(b, c) PROVE FlowInv'
    <2>1. /\ pending' = Append(pending, [by |-> b, cost |-> c])
          /\ UNCHANGED <<step, flowBids, flowWinner, vm, receipt, genuine, receiptOk, used, noDelete>>
      BY <1>2 DEF FlowSubmitBid, awardVars, dealVars
    <2>2. [by |-> b, cost |-> c] \in BidRecords
      BY DEF BidRecords
    <2>3. pending' \in Seq(BidRecords)
      BY <2>1, <2>2 DEF FlowTypeOK
    <2> QED
      BY <2>1, <2>3, SameAward DEF FlowTypeOK, AwardedLater, ReceiptInOrder, GenuineVmIsReleased
  <1>3. CASE FlowCloseWindow
    <2>1. /\ flowBids' = pending /\ pending' = <<>> /\ step = "window"
          /\ step' = IF pending = <<>> THEN "nobids" ELSE "award"
          /\ flowWinner' = flowWinner /\ flowWinner = 0
          /\ UNCHANGED <<vm, receipt, genuine, receiptOk, used, noDelete>>
      BY <1>3 DEF FlowCloseWindow, dealVars, AwardedLater
    <2> QED
      BY <2>1 DEF FlowTypeOK, AwardedLater, ReceiptInOrder, GenuineVmIsReleased, FirstCheapestWins
  <1>4. CASE Award
    <2>1. /\ step = "award" /\ step' = "accept" /\ flowWinner' = Best(Len(flowBids))
          /\ UNCHANGED <<pending, flowBids, vm, receipt, genuine, receiptOk, used, noDelete>>
      BY <1>4 DEF Award, dealVars
    <2>2. Len(flowBids) \in Nat /\ Len(flowBids) # 0 /\ DOMAIN flowBids = 1..Len(flowBids)
      BY <2>1 DEF FlowTypeOK, AwardedLater
    <2>3. ASSUME \A i \in DOMAIN flowBids : flowBids[i].cost # NotANumber
          PROVE  FirstCheapestOf(flowWinner', Len(flowBids))
      <3>1. ASSUME NEW i \in 1..Len(flowBids) PROVE flowBids[i].cost \in ReadableCosts
        <4>1. flowBids[i] \in BidRecords
          BY <2>2 DEF FlowTypeOK
        <4>2. flowBids[i].cost \in FlowCosts /\ flowBids[i].cost # NotANumber
          BY <2>2, <2>3, <4>1 DEF BidRecords
        <4> QED
          BY <4>2, FlowAssumption DEF ReadableCosts
      <3> QED
        BY <2>1, <2>2, <3>1, BestIsFirstCheapest
    <2>4. FirstCheapestWins'
      BY <2>1, <2>2, <2>3 DEF FirstCheapestWins, FirstCheapestOf, Cheaper
    <2> QED
      BY <2>1, <2>4 DEF FlowTypeOK, AwardedLater, ReceiptInOrder, GenuineVmIsReleased
  <1>5. CASE SubmitAccept
    <2>1. UNCHANGED <<flowBids, flowWinner>>
      BY <1>5 DEF SubmitAccept, awardVars
    <2> QED
      BY <1>5, <2>1, SameAward
         DEF SubmitAccept, FlowTypeOK, AwardedLater, ReceiptInOrder, GenuineVmIsReleased
  <1>6. CASE VerifyReceipt \/ UseVm \/ DeleteVm
    <2>1. UNCHANGED <<flowBids, flowWinner>>
      BY <1>6 DEF VerifyReceipt, UseVm, DeleteVm, awardVars
    <2>2. CASE VerifyReceipt
      <3>1. receiptOk' = FALSE \/ receiptOk' = genuine
        BY <2>2 DEF VerifyReceipt
      <3>2. /\ step = "verify" /\ step' = "use"
            /\ UNCHANGED <<pending, vm, receipt, genuine, used, noDelete>>
        BY <2>2 DEF VerifyReceipt
      <3>3. FlowTypeOK'
        BY <2>1, <3>1, <3>2 DEF FlowTypeOK
      <3>4. AwardedLater'
        BY <2>1, <3>2 DEF AwardedLater
      <3>5. ReceiptInOrder'
        BY <3>1, <3>2 DEF ReceiptInOrder, GenuineVmIsReleased
      <3> QED
        BY <2>1, <3>3, <3>4, <3>5, SameAward
    <2>3. CASE UseVm
      BY <2>1, <2>3, SameAward
         DEF UseVm, FlowTypeOK, AwardedLater, ReceiptInOrder, GenuineVmIsReleased
    <2>4. CASE DeleteVm
      BY <2>1, <2>4, SameAward
         DEF DeleteVm, FlowTypeOK, AwardedLater, ReceiptInOrder, GenuineVmIsReleased
    <2> QED
      BY <1>6, <2>2, <2>3, <2>4
  <1>7. CASE UNCHANGED flowVars
    BY <1>7, SameAward DEF flowVars, FlowTypeOK, AwardedLater, ReceiptInOrder, GenuineVmIsReleased
  <1> QED
    BY <1>1, <1>2, <1>3, <1>4, <1>5, <1>6, <1>7 DEF FlowNext, FlowStep

\* However many bids come in and from whomever, the flow takes the first of the
\* cheapest, uses a VM only under a genuine receipt and has released it when it
\* is done.
THEOREM FlowHolds == FlowSpec => []FlowIsSound
  <1>1. FlowInv => FlowIsSound
    BY DEF FlowInv, ReceiptInOrder, FlowIsSound
  <1> QED
    BY FlowInitInv, FlowNextInv, <1>1, PTL DEF FlowSpec

-----------------------------------------------------------------------------
(* Attestations: an entry verifies exactly when it was last attested       *)

\* The metadata keeps to what writeProof keeps of it.
KeptInProofs == \A fields \in Metadata : fields \subseteq ProofFields

AttestedTriples == Attesters \X Contents \X Repositories

\* The n-th time that anything was signed is the last time a signed.
LastOf(a, n) == /\ n \in 1..Len(attested) /\ attested[n][1] = a
                /\ \A k \in 1..Len(attested) : attested[k][1] = a => k <= n

ProofOf(n, fields) ==
    [uri |-> <<attested[n][1], n - 1>>, fields |-> fields \cap ProofFields,
     cid |-> AttestationCid(attested[n][2], Meta(NoKey, fields), attested[n][3])]

\* The entry that signing for the n-th time with those fields made.
EntryOf(e, n, fields) ==
    IF e.by \in WithAgent
    THEN e.ref /\ e.uri = <<e.by, n - 1>> /\ ProofOf(n, fields) \in proofs
    ELSE /\ ~e.ref /\ e.fields = fields
         /\ e.cid = AttestationCid(attested[n][2], Meta(e.by, fields), attested[n][3])
         /\ e.signature = SignBytes(e.by, e.cid)

AttestTypeOK ==
    /\ attested \in Seq(AttestedTriples)
    /\ \E E : record \in [content : Contents, repository : Repositories, signatures : Seq(E)]

\* Each entry is the one of its signer's last signing.
EntriesAreLast ==
    \A i \in 1..Len(record.signatures) :
        \E n \in 1..Len(attested), fields \in Metadata :
            LastOf(record.signatures[i].by, n) /\ EntryOf(record.signatures[i], n, fields)

\* A signer replaces its entry, and writes each proof under a new uri.
OneEntryEach ==
    \A i, j \in 1..Len(record.signatures) :
        record.signatures[i].by = record.signatures[j].by => i = j

ProofsAreNew ==
    /\ \A p \in proofs : \E n \in 1..Len(attested), fields \in Metadata : p = ProofOf(n, fields)
    /\ \A p, q \in proofs : p.uri = q.uri => p = q

AttestInv == AttestTypeOK /\ EntriesAreLast /\ OneEntryEach /\ ProofsAreNew

\* The initial states satisfy the invariant.
LEMMA AttestInitInv == AttestInit => AttestInv
  <1> SUFFICES ASSUME AttestInit PROVE AttestInv
    OBVIOUS
  <1>1. record \in [content : Contents, repository : Repositories, signatures : Seq({})]
    <2>1. record \in [content : Contents, repository : Repositories, signatures : {<<>>}]
      BY DEF AttestInit
    <2>2. {<<>>} \subseteq Seq({})
      OBVIOUS
    <2> HIDE DEF AttestInit
    <2> QED
      BY <2>1, <2>2
  <1>2. record.signatures = <<>> /\ Len(record.signatures) = 0
    BY DEF AttestInit
  <1>3. AttestTypeOK
    BY <1>1 DEF AttestInit, AttestTypeOK
  <1>4. EntriesAreLast /\ OneEntryEach /\ ProofsAreNew
    BY <1>2 DEF AttestInit, EntriesAreLast, OneEntryEach, ProofsAreNew
  <1> QED
    BY <1>3, <1>4 DEF AttestInv

\* The owner edits or moves the record.
LEMMA EditPreserves == ASSUME AttestInv, Edit PROVE AttestInv'
  <1>1. PICK E : record \in [content : Contents, repository : Repositories, signatures : Seq(E)]
    BY DEF AttestInv, AttestTypeOK
  <1>2. PICK c \in Contents, r \in Repositories :
            record' = [record EXCEPT !.content = c, !.repository = r]
    BY DEF Edit
  <1>3. /\ record' \in [content : Contents, repository : Repositories, signatures : Seq(E)]
        /\ record'.signatures = record.signatures
    BY <1>1, <1>2
  <1>4. UNCHANGED <<proofs, attested>>
    BY DEF Edit
  <1>5. AttestTypeOK'
    BY <1>3, <1>4 DEF AttestInv, AttestTypeOK
  <1>6. OneEntryEach'
    BY <1>3 DEF AttestInv, OneEntryEach
  <1>7. ProofsAreNew'
    BY <1>4 DEF AttestInv, ProofsAreNew, ProofOf
  <1>8. EntriesAreLast'
    <2>1. \A b, n : LastOf(b, n) => LastOf(b, n)'
      BY <1>4 DEF LastOf
    <2>2. \A e, n, f : EntryOf(e, n, f) => EntryOf(e, n, f)'
      BY <1>4 DEF EntryOf, ProofOf
    <2> QED
      BY <1>3, <1>4, <2>1, <2>2 DEF AttestInv, EntriesAreLast
  <1> QED
    BY <1>5, <1>6, <1>7, <1>8 DEF AttestInv

\* A signer attests what the record says now.
LEMMA SignPreserves ==
    ASSUME AttestInv, NEW a \in Attesters, NEW fields \in Metadata, SignAndAppend(a, fields)
    PROVE  AttestInv'
  <1>r. PICK entry, N : entry = Sign(a, fields) /\ N = Len(attested) + 1
    OBVIOUS
  <1> DEFINE own == FindOwn(a)
             at == CHOOSE i \in own : \A j \in own : i <= j
             triple == <<a, record.content, record.repository>>
             sigs == record.signatures
             m == Len(sigs)
  <1>1. PICK E : record \in [content : Contents, repository : Repositories, signatures : Seq(E)]
    BY DEF AttestInv, AttestTypeOK
  <1>2. /\ sigs \in Seq(E) /\ m \in Nat /\ DOMAIN sigs = 1..m
        /\ attested \in Seq(AttestedTriples) /\ Len(attested) \in Nat /\ N \in Nat
        /\ triple \in AttestedTriples
    BY <1>1, <1>r DEF AttestInv, AttestTypeOK, AttestedTriples
  <1>3. /\ attested' = Append(attested, triple)
        /\ attested' \in Seq(AttestedTriples) /\ Len(attested') = N
        /\ attested'[N] = triple
        /\ \A k \in 1..Len(attested) : attested'[k] = attested[k]
        /\ \A k \in 1..N : k \in 1..Len(attested) \/ k = N
    BY <1>2, <1>r DEF SignAndAppend
  <1>4. /\ entry.by = a
        /\ IF a \in WithAgent
           THEN entry.ref /\ entry.uri = <<a, N - 1>>
           ELSE /\ ~entry.ref /\ entry.fields = fields
                /\ entry.cid = AttestationCid(record.content, Meta(a, fields), record.repository)
                /\ entry.signature = SignBytes(a, entry.cid)
    BY <1>2, <1>r DEF Sign
  <1>5. /\ record'.content = record.content /\ record'.repository = record.repository
        /\ record'.signatures = IF own = {} THEN Append(sigs, entry)
                                ELSE [sigs EXCEPT ![at] = entry]
        /\ record' = [record EXCEPT !.signatures = record'.signatures]
    BY <1>1, <1>r DEF SignAndAppend
  <1>6. own = {i \in 1..m : sigs[i].by = a} /\ \A i, j \in own : i = j
    BY DEF FindOwn, AttestInv, OneEntryEach
  <1>7. own # {} => at \in own /\ own = {at}
    BY <1>2, <1>6
  <1> DEFINE M == IF own = {} THEN m + 1 ELSE m
             pos == IF own = {} THEN m + 1 ELSE at
  <1>8. /\ M \in Nat /\ Len(record'.signatures) = M /\ pos \in 1..M
        /\ record'.signatures \in Seq(E \cup {entry})
        /\ record'.signatures[pos] = entry
        /\ \A i \in 1..M : i # pos => /\ i \in 1..m /\ record'.signatures[i] = sigs[i]
                                      /\ sigs[i].by # a
    <2>0. sigs \in Seq(E \cup {entry})
      BY <1>2
    <2>1. CASE own = {}
      <3>1. record'.signatures = Append(sigs, entry) /\ M = m + 1 /\ pos = m + 1
        BY <1>5, <2>1
      <3>2. \A i \in 1..m : sigs[i].by # a
        BY <1>6, <2>1
      <3>3. /\ Append(sigs, entry) \in Seq(E \cup {entry}) /\ Len(Append(sigs, entry)) = m + 1
            /\ Append(sigs, entry)[m + 1] = entry
            /\ \A i \in 1..m : Append(sigs, entry)[i] = sigs[i]
        BY <1>2, <2>0
      <3>4. m + 1 \in 1..(m + 1) /\ \A i \in 1..(m + 1) : i # m + 1 => i \in 1..m
        BY <1>2
      <3> HIDE DEF own, pos, M, m, sigs
      <3> QED
        BY <1>2, <3>1, <3>2, <3>3, <3>4
    <2>2. CASE own # {}
      <3>1. record'.signatures = [sigs EXCEPT ![at] = entry] /\ M = m /\ pos = at
        BY <1>5, <2>2
      <3>2. at \in 1..m /\ \A i \in 1..m : sigs[i].by = a => i = at
        BY <1>6, <1>7, <2>2
      <3> HIDE DEF own, pos, M, at
      <3> QED
        BY <1>2, <2>0, <3>1, <3>2
    <2> QED
      BY <2>1, <2>2
  <1> HIDE DEF M, pos, own, at
  <1>t. triple[1] = a /\ triple[2] = record.content /\ triple[3] = record.repository
    OBVIOUS
  <1> HIDE DEF triple
  <1>9. /\ LastOf(a, N)'
        /\ \A b, n : b # a /\ LastOf(b, n) => LastOf(b, n)'
    <2>1. LastOf(a, N)'
      BY <1>2, <1>3, <1>t DEF LastOf
    <2>2. ASSUME NEW b, NEW n, b # a, LastOf(b, n) PROVE LastOf(b, n)'
      <3>1. n \in 1..N /\ attested'[n][1] = b
        BY <1>2, <1>3, <2>2 DEF LastOf
      <3>2. ASSUME NEW k \in 1..N, attested'[k][1] = b PROVE k <= n
        BY <1>2, <1>3, <1>t, <2>2, <3>2 DEF LastOf
      <3> QED
        BY <1>3, <3>1, <3>2 DEF LastOf
    <2> QED
      BY <2>1, <2>2
  <1>10. \A f : \A n \in 1..Len(attested) : ProofOf(n, f)' = ProofOf(n, f)
    <2> SUFFICES ASSUME NEW n \in 1..Len(attested), NEW f PROVE ProofOf(n, f)' = ProofOf(n, f)
      OBVIOUS
    <2>1. attested'[n] = attested[n]
      BY <1>3
    <2> QED
      BY <2>1 DEF ProofOf
  <1>11. proofs' = IF a \in WithAgent THEN proofs \cup {ProofOf(N, fields)'} ELSE proofs
    <2>1. ProofOf(N, fields)' =
              [uri |-> <<a, Len(attested)>>, fields |-> fields \cap ProofFields,
               cid |-> AttestationCid(record.content, Meta(NoKey, fields), record.repository)]
      <3>1. /\ attested'[N][1] = a /\ attested'[N][2] = record.content
            /\ attested'[N][3] = record.repository /\ N - 1 = Len(attested)
        BY <1>2, <1>3, <1>r, <1>t
      <3> QED
        BY <3>1 DEF ProofOf
    <2> QED
      BY <2>1 DEF SignAndAppend, WriteProof
  <1>12. AttestTypeOK'
    <2>1. record' \in [content : Contents, repository : Repositories, signatures : Seq(E \cup {entry})]
      BY <1>1, <1>5, <1>8
    <2> QED
      BY <1>3, <2>1 DEF AttestTypeOK
  <1>13. OneEntryEach'
    BY <1>4, <1>8 DEF AttestInv, OneEntryEach
  <1>14. ProofsAreNew'
    <2> DEFINE new == ProofOf(N, fields)'
    <2>1. new.uri = <<a, Len(attested)>>
      BY <1>2, <1>3, <1>r, <1>t DEF ProofOf
    <2>2. \A p \in proofs : \E n \in 1..Len(attested), f \in Metadata : p = ProofOf(n, f)
      BY DEF AttestInv, ProofsAreNew
    <2>3. \A p \in proofs : p.uri # <<a, Len(attested)>>
      <3> SUFFICES ASSUME NEW p \in proofs PROVE p.uri # <<a, Len(attested)>>
        OBVIOUS
      <3>1. PICK n \in 1..Len(attested), f \in Metadata : p = ProofOf(n, f)
        BY <2>2
      <3>2. p.uri = <<attested[n][1], n - 1>>
        BY <3>1 DEF ProofOf
      <3> QED
        BY <1>2, <3>2
    <2>4. \A p \in proofs : \E n \in 1..N, f \in Metadata : p = ProofOf(n, f)'
      BY <1>2, <1>3, <1>10, <2>2
    <2>5. N \in 1..N /\ new = ProofOf(N, fields)'
      BY <1>2, <1>r
    <2> HIDE DEF new
    <2>6. proofs' = proofs \/ proofs' = proofs \cup {new}
      BY <1>11, <2>5
    <2>7. \A p \in proofs' : \E n \in 1..N, f \in Metadata : p = ProofOf(n, f)'
      BY <2>4, <2>5, <2>6
    <2>8. \A p, q \in proofs' : p.uri = q.uri => p = q
      BY <2>1, <2>3, <2>6 DEF AttestInv, ProofsAreNew
    <2> QED
      BY <1>3, <2>7, <2>8 DEF ProofsAreNew
  <1>15. EntriesAreLast'
    <2>1. proofs \subseteq proofs'
      BY <1>11
    <2>2. \A e, f : \A n \in 1..Len(attested) : EntryOf(e, n, f) => EntryOf(e, n, f)'
      <3> SUFFICES ASSUME NEW e, NEW f, NEW n \in 1..Len(attested), EntryOf(e, n, f)
                   PROVE  EntryOf(e, n, f)'
        OBVIOUS
      <3>1. ProofOf(n, f)' = ProofOf(n, f) /\ attested'[n] = attested[n]
        BY <1>3, <1>10
      <3> QED
        BY <2>1, <3>1 DEF EntryOf
    <2>3. EntryOf(entry, N, fields)'
      <3>1. CASE a \in WithAgent
        <4>1. ProofOf(N, fields)' \in proofs'
          BY <1>11, <3>1
        <4> QED
          BY <1>4, <3>1, <4>1 DEF EntryOf
      <3>2. CASE a \notin WithAgent
        <4>1. /\ attested'[N][2] = record.content /\ attested'[N][3] = record.repository
              /\ AttestationCid(attested'[N][2], Meta(a, fields), attested'[N][3])
                   = AttestationCid(record.content, Meta(a, fields), record.repository)
          BY <1>3, <1>t
        <4> QED
          BY <1>4, <3>2, <4>1 DEF EntryOf
      <3> QED
        BY <3>1, <3>2
    <2> SUFFICES ASSUME NEW i \in 1..M, NEW e, e = record'.signatures[i]
                 PROVE  \E n \in 1..N, f \in Metadata : LastOf(e.by, n)' /\ EntryOf(e, n, f)'
      BY <1>3, <1>8 DEF EntriesAreLast
    <2>4. CASE i = pos
      <3>1. e = entry /\ e.by = a /\ N \in 1..N
        BY <1>2, <1>4, <1>8, <1>r, <2>4
      <3> QED
        BY <1>9, <2>3, <3>1
    <2>5. CASE i # pos
      <3>1. i \in 1..m /\ e = sigs[i] /\ e.by # a
        BY <1>8, <2>5
      <3>2. PICK n \in 1..Len(attested), f \in Metadata :
                LastOf(e.by, n) /\ EntryOf(e, n, f)
        BY <3>1 DEF AttestInv, EntriesAreLast
      <3>3. LastOf(e.by, n)' /\ EntryOf(e, n, f)'
        BY <1>9, <2>2, <3>1, <3>2
      <3> QED
        BY <1>2, <1>r, <3>3
    <2> QED
      BY <2>4, <2>5
  <1> QED
    BY <1>12, <1>13, <1>14, <1>15 DEF AttestInv

\* Every step keeps the invariant.
LEMMA AttestNextInv == AttestInv /\ [AttestNext]_attestVars => AttestInv'
  <1>1. AttestInv /\ UNCHANGED attestVars => AttestInv'
    <2> SUFFICES ASSUME AttestInv, UNCHANGED attestVars PROVE AttestInv'
      OBVIOUS
    <2>1. record' = record /\ proofs' = proofs /\ attested' = attested
      BY DEF attestVars
    <2>2. \A b, n : LastOf(b, n) => LastOf(b, n)'
      BY <2>1 DEF LastOf
    <2>3. \A e, n, f : EntryOf(e, n, f) => EntryOf(e, n, f)'
      BY <2>1 DEF EntryOf, ProofOf
    <2>4. AttestTypeOK' /\ OneEntryEach'
      BY <2>1 DEF AttestInv, AttestTypeOK, OneEntryEach
    <2>5. EntriesAreLast'
      BY <2>1, <2>2, <2>3 DEF AttestInv, EntriesAreLast
    <2>6. ProofsAreNew'
      BY <2>1 DEF AttestInv, ProofsAreNew, ProofOf
    <2> QED
      BY <2>4, <2>5, <2>6 DEF AttestInv
  <1> QED
    BY <1>1, EditPreserves, SignPreserves DEF AttestNext

\* For metadata of which writeProof keeps every field.
LEMMA InvVerifies == KeptInProofs /\ AttestInv => VerifiesIffAttested
  <1> SUFFICES ASSUME KeptInProofs, AttestInv, NEW i \in 1..Len(record.signatures)
               PROVE  LET e == record.signatures[i]
                          mine == {n \in 1..Len(attested) : attested[n][1] = e.by}
                          last == CHOOSE n \in mine : \A k \in mine : k <= n
                      IN  VerifyEntry(e) <=> attested[last] = <<e.by, record.content, record.repository>>
    BY DEF VerifiesIffAttested
  <1> DEFINE e == record.signatures[i]
             mine == {n \in 1..Len(attested) : attested[n][1] = e.by}
             last == CHOOSE n \in mine : \A k \in mine : k <= n
  <1>1. PICK n \in 1..Len(attested), fields \in Metadata : LastOf(e.by, n) /\ EntryOf(e, n, fields)
    BY DEF AttestInv, EntriesAreLast
  <1>2. attested \in Seq(AttestedTriples) /\ Len(attested) \in Nat
    BY DEF AttestInv, AttestTypeOK
  <1>3. last = n
    <2>1. n \in mine /\ \A k \in mine : k <= n
      BY <1>1 DEF LastOf
    <2>2. \A k \in mine : (\A l \in mine : l <= k) => k = n
      BY <1>2, <2>1
    <2> QED
      BY <2>1, <2>2
  <1> DEFINE triple == attested[n]
  <1>4. triple \in AttestedTriples /\ triple[1] = e.by
    BY <1>1, <1>2 DEF LastOf
  <1>5. triple = <<e.by, record.content, record.repository>>
           <=> triple[2] = record.content /\ triple[3] = record.repository
    BY <1>4 DEF AttestedTriples
  <1>6. VerifyEntry(e) <=> triple[2] = record.content /\ triple[3] = record.repository
    <2>1. CASE e.by \in WithAgent
      <3> DEFINE p == ProofOf(n, fields)
      <3>1. /\ e.ref /\ p \in proofs /\ p.uri = e.uri /\ p.fields = fields
            /\ p.cid = AttestationCid(triple[2], Meta(NoKey, fields), triple[3])
        <4>1. fields \cap ProofFields = fields
          BY DEF KeptInProofs
        <4>2. e.ref /\ p \in proofs /\ e.uri = <<e.by, n - 1>>
          BY <1>1, <2>1 DEF EntryOf
        <4>3. /\ p.uri = <<triple[1], n - 1>> /\ p.fields = fields \cap ProofFields
              /\ p.cid = AttestationCid(triple[2], Meta(NoKey, fields), triple[3])
          BY DEF ProofOf
        <4> QED
          BY <1>4, <4>1, <4>2, <4>3
      <3> HIDE DEF p
      <3>2. \A q \in proofs : q.uri = e.uri => q = p
        BY <3>1 DEF AttestInv, ProofsAreNew
      <3>3. VerifyEntry(e) <=> p.cid = AttestationCid(record.content, Meta(NoKey, fields), record.repository)
        BY <3>1, <3>2 DEF VerifyEntry
      <3> QED
        BY <3>1, <3>3 DEF AttestationCid
    <2>2. CASE e.by \notin WithAgent
      <3>1. /\ ~e.ref /\ e.fields = fields
            /\ e.cid = AttestationCid(triple[2], Meta(e.by, fields), triple[3])
            /\ e.signature = SignBytes(e.by, e.cid)
        BY <1>1, <2>2 DEF EntryOf
      <3> QED
        BY <3>1 DEF VerifyEntry, AttestationCid, SignBytes, VerifyBytes
    <2> QED
      BY <2>1, <2>2
  <1> HIDE DEF triple, last, mine
  <1>7. attested[last] = triple
    BY <1>3 DEF triple
  <1> QED
    BY <1>5, <1>6, <1>7 DEF last, mine

\* An entry verifies exactly when its signer last attested what the record now
\* says for the repository it is now in (compat.ts verify), whoever signs and
\* however often the record is edited, moved and signed again.
THEOREM AttestationsVerify ==
    ASSUME KeptInProofs PROVE AttestSpec => []VerifiesIffAttested
  <1>1. AttestSpec => []AttestInv
    BY AttestInitInv, AttestNextInv, PTL DEF AttestSpec
  <1>2. AttestInv => VerifiesIffAttested
    BY InvVerifies
  <1> QED
    BY <1>1, <1>2, PTL

-----------------------------------------------------------------------------
(* Attestations: a proof is attached to the record it was made for         *)

\* The initial states satisfy the invariant.
LEMMA AttestApiInitInv == AttestApiInit => AppendedProofFits
  BY DEF AttestApiInit, AppendedProofFits

\* Every step keeps the invariant.
LEMMA AttestApiNextInv == AppendedProofFits /\ [AttestApiNext]_attestApiVars => AppendedProofFits'
  <1> SUFFICES ASSUME AppendedProofFits, [AttestApiNext]_attestApiVars PROVE AppendedProofFits'
    OBVIOUS
  <1>1. CASE made \subseteq made' /\ appended' = appended
    BY <1>1 DEF AppendedProofFits
  <1>2. ASSUME NEW p \in made, NEW h \in Hosts, NEW u \in Hosts, AppendRemote(p, h, u)
        PROVE  AppendedProofFits'
    <2> DEFINE new == [cid |-> p.cid, of |-> doc, at |-> h]
    <2>1. made' = made /\ appended' = appended \cup {new}
      BY <1>2 DEF AppendRemote
    <2>2. p.cid = <<doc, SignedMetadata(p.label), h>>
      BY <1>2 DEF AppendRemote, ProofFits, ComputeCid, Unwrap
    <2>3. p.cid = new.cid /\ new.cid[1] = new.of /\ new.cid[3] = new.at
      BY <2>2
    <2> HIDE DEF new
    <2> QED
      BY <2>1, <2>3 DEF AppendedProofFits
  <1>3. CASE UNCHANGED attestApiVars
    BY <1>1, <1>3 DEF attestApiVars
  <1>4. CASE \E l \in Labels, h \in Hosts :
                 \/ \E k \in SigningKeys : CreateInline(k, l, h) \/ CreateSignature(k, l, h)
                 \/ CreateRemote(l, h)
    BY <1>1, <1>4 DEF CreateInline, CreateSignature, CreateRemote
  <1>5. CASE \E p \in made, h \in Hosts : PublishProof(p, h)
    BY <1>1, <1>5 DEF PublishProof
  <1>6. CASE \E t \in Texts, keep \in BOOLEAN : EditDoc(t, keep)
    BY <1>1, <1>6 DEF EditDoc
  <1>7. CASE \E s \in handed, h \in Hosts : AppendInline(s, h)
    BY <1>1, <1>7 DEF AppendInline
  <1> QED
    BY <1>2, <1>3, <1>4, <1>5, <1>6, <1>7 DEF AttestApiNext

\* appendRemoteAttestation attaches a proof only to the record it was made for,
\* in the repository it was made for, whatever was edited in between.
THEOREM ProofsFitTheirRecords == AttestApiSpec => []AppendedProofFits
  BY AttestApiInitInv, AttestApiNextInv, PTL DEF AttestApiSpec

-----------------------------------------------------------------------------
(* Settlement: what an x402 bidder provisions was paid                     *)

Payloads == [by : {"bidder", "other"}, kind : {"x402", "grant", "free"}, of : Purchases]
                \cup {NoPayload}

SettleTypeOK ==
    /\ mode \in {"x402", "grant", "free"}
    /\ buyer \in [Purchases -> {"won", "waiting", "settled", "failed", "accepted", "served", "refused"}]
    /\ asked \in [Purchases -> {"no", "arrived", "inside", "answered", "refused"}]
    /\ payload \in [Purchases -> Payloads]
    /\ receipts \subseteq Receipt

\* Under x402 nobody is inside the endpoint, and no receipt exists, unpaid.
NoReceiptUnpaid ==
    mode = "x402" =>
        /\ \A p \in Purchases : asked[p] = "inside" => p \in paid
        /\ \A r \in receipts : r.of \in paid

\* What was provisioned was accepted on a receipt that exists; the payload of an
\* accept that was served does not change any more.
ProvisionedOnReceipt ==
    /\ provisioned \subseteq {p \in Purchases : buyer[p] = "served"}
    /\ mode = "x402" => \A p \in provisioned : payload[p] \in receipts

SettleInv == SettleTypeOK /\ NoReceiptUnpaid /\ ProvisionedOnReceipt

\* The initial states satisfy the invariant.
LEMMA SettleInitInv == SettleInit => SettleInv
  BY SettlementAssumption
     DEF SettleInit, SettleInv, SettleTypeOK, Payloads, NoReceiptUnpaid, ProvisionedOnReceipt,
         SettlementAssumption

\* Every step keeps the invariant.
LEMMA SettleNextInv == SettleInv /\ [SettleNext]_settleVars => SettleInv'
  <1> SUFFICES ASSUME SettleInv, [SettleNext]_settleVars PROVE SettleInv'
    OBVIOUS
  <1> USE DEF SettleInv, SettleTypeOK, NoReceiptUnpaid, ProvisionedOnReceipt, BuyerTo, AskedTo
  <1>1. ASSUME NEW p \in Purchases,
               SkipPayment(p) \/ SettleX402Payment(p) \/ SettleFreeGrant(p)
                 \/ SettleAnswered(p) \/ SettleTimesOut(p)
        PROVE  SettleInv'
    BY <1>1 DEF SkipPayment, SettleX402Payment, SettleFreeGrant, SettleAnswered, SettleTimesOut
  <1>2. ASSUME NEW p \in Purchases, AcceptSettled(p) PROVE SettleInv'
    BY <1>2 DEF AcceptSettled, Payloads
  <1>3. ASSUME NEW p \in Purchases, AcceptUnsettled(p) PROVE SettleInv'
    <2>1. PICK r \in {NoPayload} \cup receipts
                       \cup {[by |-> "other", kind |-> mode, of |-> q] : q \in Purchases} :
              payload' = [payload EXCEPT ![p] = r]
      BY <1>3 DEF AcceptUnsettled
    <2>2. r \in Payloads
      BY <2>1 DEF Payloads, Receipt
    <2>3. /\ p \notin provisioned /\ buyer' = [buyer EXCEPT ![p] = "accepted"]
          /\ UNCHANGED <<mode, asked, paid, receipts, provisioned>>
      BY <1>3 DEF AcceptUnsettled
    <2> HIDE DEF NoPayload
    <2> QED
      BY <2>1, <2>2, <2>3
  <1>4. ASSUME NEW p \in Purchases, PaymentGate(p) PROVE SettleInv'
    BY <1>4 DEF PaymentGate
  <1>5. ASSUME NEW p \in Purchases, MintReceipt(p) \/ MintGrant(p) PROVE SettleInv'
    <2>1. CASE MintReceipt(p)
      BY <2>1 DEF MintReceipt, Receipt
    <2>2. CASE MintGrant(p)
      BY <2>2 DEF MintGrant, Receipt
    <2> QED
      BY <1>5, <2>1, <2>2
  <1>6. ASSUME NEW p \in Purchases, SettleAccept(p) PROVE SettleInv'
    BY <1>6 DEF SettleAccept, VerifyAcceptPayload, VerifyX402Payment
  <1>7. CASE UNCHANGED settleVars
    BY <1>7 DEF settleVars
  <1> QED
    BY <1>1, <1>2, <1>3, <1>4, <1>5, <1>6, <1>7 DEF SettleNext

\* Whatever a client puts into its accept and however its request for a receipt
\* ends, an x402 bidder provisions only what its payment gate let through.
THEOREM PaidBeforeProvisioned == SettleSpec => []ProvisionedIsPaid
  <1>1. SettleInv => ProvisionedIsPaid
    <2> SUFFICES ASSUME SettleInv, mode = "x402", NEW p \in provisioned
                 PROVE  payload[p] # NoPayload /\ payload[p].of \in paid
      BY DEF ProvisionedIsPaid
    <2>1. payload[p] \in receipts /\ payload[p] \in Receipt
      BY DEF SettleInv, SettleTypeOK, ProvisionedOnReceipt
    <2>2. NoPayload \notin Receipt
      BY DEF NoPayload, Receipt
    <2> QED
      BY <2>1, <2>2 DEF SettleInv, NoReceiptUnpaid
  <1> QED
    BY SettleInitInv, SettleNextInv, <1>1, PTL DEF SettleSpec
=============================================================================
