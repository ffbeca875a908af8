----------------------------- MODULE SearchProofs -----------------------------
(***************************************************************************)
(* Retrieval: the ranks of both legs are fused, grouped by evidence and    *)
(* resolved; what both legs agree on is kept, for any set of points.       *)
(* Last, what the composition of the parts of an answer guarantees.        *)
(***************************************************************************)
EXTENDS AnswerPathProofs, AnswerRunsProofs

-----------------------------------------------------------------------------
(* Rankings. *)

(* earlier is a strict total order on S, given by its pairs. *)
StrictOrder(earlier, S) ==
    /\ \A p \in S : <<p, p>> \notin earlier
    /\ \A p, q, r \in S : <<p, q>> \in earlier /\ <<q, r>> \in earlier => <<p, r>> \in earlier
    /\ \A p, q \in S : p = q \/ <<p, q>> \in earlier \/ <<q, p>> \in earlier

(* A member's rank counts the members before it. *)
RanksBy(rank, earlier, S) == \A p \in S : rank[p] = 1 + Cardinality({q \in S : <<q, p>> \in earlier})

LEMMA RankOrder ==
    ASSUME NEW S, IsFiniteSet(S), NEW earlier, StrictOrder(earlier, S),
           NEW rank, RanksBy(rank, earlier, S)
    PROVE  /\ \A p \in S : rank[p] \in 1..Cardinality(S)
           /\ \A p, q \in S : <<p, q>> \in earlier <=> rank[p] < rank[q]
           /\ \A p, q \in S : rank[p] = rank[q] => p = q
<1> DEFINE Before(p) == {q \in S : <<q, p>> \in earlier}
<1>1. Cardinality(S) \in Nat
    BY FS_CardinalityType
<1>2. ASSUME NEW p \in S PROVE Cardinality(Before(p)) \in Nat /\ Cardinality(Before(p)) < Cardinality(S)
  <2>1. Before(p) \in SUBSET (S \ {p})
      BY DEF StrictOrder
  <2>2. IsFiniteSet(S \ {p}) /\ Cardinality(S \ {p}) = Cardinality(S) - 1
      BY FS_RemoveElement
  <2> HIDE DEF Before
  <2>3. IsFiniteSet(Before(p)) /\ Cardinality(Before(p)) <= Cardinality(S \ {p})
      BY <2>1, <2>2, FS_Subset
  <2>4. Cardinality(Before(p)) \in Nat
      BY <2>3, FS_CardinalityType
  <2> QED BY <1>1, <2>2, <2>3, <2>4
<1>3. ASSUME NEW p \in S, NEW q \in S, <<p, q>> \in earlier PROVE Cardinality(Before(p)) < Cardinality(Before(q))
  <2>1. Before(p) \in SUBSET Before(q) /\ p \in Before(q) /\ p \notin Before(p)
      BY <1>3 DEF StrictOrder
  <2>2. Before(q) \in SUBSET S
      OBVIOUS
  <2> HIDE DEF Before
  <2>3. IsFiniteSet(Before(q))
      BY <2>2, FS_Subset
  <2>4. /\ Cardinality(Before(p)) <= Cardinality(Before(q))
        /\ Cardinality(Before(q)) = Cardinality(Before(p)) => Before(q) = Before(p)
      BY <2>1, <2>3, FS_Subset
  <2>5. Cardinality(Before(q)) # Cardinality(Before(p))
      BY <2>1, <2>4
  <2> QED BY <1>2, <2>4, <2>5
<1>4. \A p \in S : rank[p] = 1 + Cardinality(Before(p))
    BY DEF RanksBy
<1> HIDE DEF Before
<1>5. \A p \in S : rank[p] \in 1..Cardinality(S)
    BY <1>1, <1>2, <1>4
<1>6. \A p, q \in S : <<p, q>> \in earlier => rank[p] < rank[q]
    BY <1>2, <1>3, <1>4
<1>7. \A p, q \in S : rank[p] \in Nat /\ (rank[p] < rank[q] => ~(rank[q] < rank[p]) /\ rank[p] # rank[q])
    BY <1>1, <1>5
<1>8. \A p, q \in S : rank[p] < rank[q] => <<p, q>> \in earlier
    BY <1>6, <1>7 DEF StrictOrder
<1>9. \A p, q \in S : rank[p] = rank[q] => p = q
    BY <1>6, <1>7 DEF StrictOrder
<1> QED BY <1>5, <1>6, <1>8, <1>9

(* Every rank up to the number of members is given to one of them. *)
Full(rank, S) == \A r \in 1..Cardinality(S) : \E p \in S : rank[p] = r

LEMMA RanksAreFull ==
    ASSUME NEW S, IsFiniteSet(S), NEW earlier, StrictOrder(earlier, S),
           NEW rank, RanksBy(rank, earlier, S)
    PROVE  Full(rank, S)
<1> DEFINE f == [p \in S |-> rank[p]]
<1>1. \A p \in S : rank[p] \in 1..Cardinality(S)
    BY RankOrder
<1>2. \A p, q \in S : rank[p] = rank[q] => p = q
    BY RankOrder
<1>3. f \in Injection(S, 1..Cardinality(S))
    BY <1>1, <1>2 DEF Injection, IsInjective
<1>4. Cardinality(S) \in Nat
    BY FS_CardinalityType
<1>5. IsFiniteSet(1..Cardinality(S)) /\ Cardinality(1..Cardinality(S)) = Cardinality(S)
    BY <1>4, FS_Interval
<1>6. f \in Surjection(S, 1..Cardinality(S))
  <2> HIDE DEF f
  <2> QED BY <1>3, <1>5, FS_Injection
<1>7. \A r \in 1..Cardinality(S) : \E p \in S : f[p] = r
  <2> HIDE DEF f
  <2> QED BY <1>6 DEF Surjection
<1> QED BY <1>7 DEF Full

(* The size of a set of pairs numbered without gaps. *)
LEMMA NumberedPairs ==
    ASSUME NEW P, NEW m \in Nat, \A g, h \in P : g[1] = h[1] => g = h,
           \A g \in P : g[1] \in 1..m, \A r \in 1..m : \E g \in P : g[1] = r
    PROVE  IsFiniteSet(P) /\ Cardinality(P) = m /\ {g[1] : g \in P} = 1..m
<1> DEFINE f == [g \in P |-> g[1]]
<1>1. f \in Injection(P, 1..m)
    BY DEF Injection, IsInjective
<1>2. f \in Surjection(P, 1..m)
    BY DEF Surjection
<1>3. IsFiniteSet(1..m) /\ Cardinality(1..m) = m
    BY FS_Interval
<1>4. IsFiniteSet(P) /\ Cardinality(P) = m
  <2> HIDE DEF f
  <2> QED BY <1>1, <1>2, <1>3, FS_Injection
<1>5. {g[1] : g \in P} = 1..m
    OBVIOUS
<1> QED BY <1>4, <1>5

(* P lists the members of S of a rank within the limit, by their ranks. *)
Listed(P, rank, S, limit) ==
    /\ \A g \in P : \E p \in S : rank[p] <= limit /\ g[1] = rank[p]
    /\ \A g, h \in P : g[1] = h[1] => g = h
    /\ \A p \in S : rank[p] <= limit => \E g \in P : g[1] = rank[p]

(* P is numbered without gaps, as long as S is or as the limit allows. *)
CutOff(P, S, limit) ==
    /\ Cardinality(P) = IF Cardinality(S) <= limit THEN Cardinality(S) ELSE limit
    /\ {g[1] : g \in P} = 1..Cardinality(P) /\ Cardinality(P) \in Nat /\ IsFiniteSet(P)

(* The first members of a ranking, with their ranks. *)
LEMMA FirstRanks ==
    ASSUME NEW S, IsFiniteSet(S), NEW earlier, StrictOrder(earlier, S),
           NEW rank, RanksBy(rank, earlier, S), NEW limit \in Nat,
           NEW P, Listed(P, rank, S, limit)
    PROVE  CutOff(P, S, limit)
<1> DEFINE m == IF Cardinality(S) <= limit THEN Cardinality(S) ELSE limit
<1>1. Cardinality(S) \in Nat
    BY FS_CardinalityType
<1>2. m \in Nat /\ \A r \in Nat : r \in 1..m <=> r \in 1..Cardinality(S) /\ r <= limit
    BY <1>1
<1>3. \A p \in S : rank[p] \in 1..Cardinality(S)
    BY RankOrder
<1>4. \A r \in 1..Cardinality(S) : \E p \in S : rank[p] = r
    BY RanksAreFull DEF Full
<1> HIDE DEF m
<1>5. \A g \in P : g[1] \in 1..m
    BY <1>1, <1>2, <1>3 DEF Listed
<1>6. \A r \in 1..m : \E g \in P : g[1] = r
  <2> SUFFICES ASSUME NEW r \in 1..m PROVE \E g \in P : g[1] = r
      OBVIOUS
  <2>1. r \in 1..Cardinality(S) /\ r <= limit
      BY <1>2
  <2>2. PICK p \in S : rank[p] = r
      BY <1>4, <2>1
  <2> QED BY <2>1, <2>2 DEF Listed
<1>7. Cardinality(P) = m /\ {g[1] : g \in P} = 1..m /\ IsFiniteSet(P)
    BY <1>2, <1>5, <1>6, NumberedPairs DEF Listed
<1> QED BY <1>2, <1>7 DEF m, CutOff

-----------------------------------------------------------------------------
(* The legs. *)

LEMMA SearchCardinality == \A S : Search!Cardinality(S) = Cardinality(S)
    BY DEF Search!Cardinality, Cardinality

(* Points by score, then id. *)
LEMMA ScoreOrder ==
    ASSUME NEW S \in SUBSET Nat, NEW score, \A p \in S : score[p] \in Nat, NEW earlier,
           \A p, q \in S :
               <<p, q>> \in earlier <=> score[p] > score[q] \/ (score[p] = score[q] /\ p < q)
    PROVE  StrictOrder(earlier, S)
<1>1. /\ \A p \in S : p \in Nat
      /\ \A p, q \in S : p < q \/ p = q \/ q < p
      /\ \A p, q \in S : score[p] < score[q] \/ score[p] = score[q] \/ score[q] < score[p]
    OBVIOUS
<1>2. \A p \in S : <<p, p>> \notin earlier
    BY <1>1
<1>3. \A p, q, r \in S : <<p, q>> \in earlier /\ <<q, r>> \in earlier => <<p, r>> \in earlier
    BY <1>1
<1>4. \A p, q \in S : p = q \/ <<p, q>> \in earlier \/ <<q, p>> \in earlier
    BY <1>1
<1> QED BY <1>2, <1>3, <1>4 DEF StrictOrder

(* What the search computes from a leg passes its own check. *)
LEMMA LegIsValid ==
    ASSUME SearchAssumption, Search!SearchType, NEW leg \in Search!Legs, NEW S \in Search!Returned(leg)
    PROVE  Search!ValidLeg(Search!Ranked(leg, S)) /\ Search!Ranked(leg, S) \in Search!Rankings
<1> DEFINE score == scores[leg]
           ranking == Search!Ranked(leg, S)
           earlier == {x \in S \X S : score[x[1]] > score[x[2]] \/ (score[x[1]] = score[x[2]] /\ x[1] < x[2])}
<1>1. S \in SUBSET Points /\ Cardinality(S) <= CandidateLimit
    BY SearchCardinality DEF Search!Returned, Search!Matching
<1>2. IsFiniteSet(S) /\ Cardinality(S) \in Nat /\ S \in SUBSET Nat
    BY <1>1, FS_Subset, FS_CardinalityType DEF SearchAssumption
<1>3. \A p \in S : score[p] \in Nat
  <2>1. scores["dense"] \in [Points -> 0..2] /\ scores["sparse"] \in [Points -> 0..1]
      BY DEF Search!SearchType
  <2> QED BY <1>1, <2>1 DEF Search!Legs
<1> HIDE DEF score
<1>4. \A p, q \in S : <<p, q>> \in earlier <=> score[p] > score[q] \/ (score[p] = score[q] /\ p < q)
    OBVIOUS
<1> HIDE DEF earlier
<1>5. StrictOrder(earlier, S)
    BY <1>2, <1>3, <1>4, ScoreOrder
<1>6. DOMAIN ranking = S
    BY DEF Search!Ranked
<1>7. ASSUME NEW p \in S PROVE ranking[p] = 1 + Cardinality({q \in S : <<q, p>> \in earlier})
  <2>1. ranking[p] = 1 + Search!Cardinality({q \in S : score[q] > score[p] \/ (score[q] = score[p] /\ q < p)})
      BY DEF Search!Ranked, Search!RankAfter, score
  <2>2. {q \in S : score[q] > score[p] \/ (score[q] = score[p] /\ q < p)} = {q \in S : <<q, p>> \in earlier}
      BY <1>4
  <2> QED BY <2>1, <2>2, SearchCardinality
<1>8. ranking = [p \in S |-> ranking[p]]
    BY DEF Search!Ranked
<1> HIDE DEF ranking
<1>9. RanksBy(ranking, earlier, S)
    BY <1>7 DEF RanksBy
<1>10. \A p \in S : ranking[p] \in 1..Cardinality(S)
    BY <1>2, <1>5, <1>9, RankOrder
<1>11. Full(ranking, S)
    BY <1>2, <1>5, <1>9, RanksAreFull
<1>12. {ranking[p] : p \in S} = 1..Cardinality(S)
    BY <1>10, <1>11 DEF Full
<1>13. Search!ValidLeg(ranking)
    BY <1>1, <1>6, <1>12, SearchCardinality DEF Search!ValidLeg
<1>14. ranking \in [S -> 1..CandidateLimit]
  <2>1. \A p \in S : ranking[p] \in 1..CandidateLimit
      BY <1>1, <1>2, <1>10 DEF SearchAssumption
  <2> QED BY <1>8, <2>1
<1>15. ranking \in Search!Rankings
    BY <1>1, <1>14 DEF Search!Rankings
<1> QED BY <1>13, <1>15 DEF ranking

-----------------------------------------------------------------------------
(* Fractions. *)

LEMMA Scaled ==
    ASSUME NEW x \in Nat, NEW y \in Nat, NEW z \in Nat \ {0}
    PROVE  (x < y <=> x * z < y * z) /\ (x = y <=> x * z = y * z)
<1>1. ASSUME NEW a \in Nat, NEW b \in Nat, a < b PROVE a * z < b * z
  <2>1. b = a + (b - a) /\ b - a \in Nat \ {0}
      BY <1>1
  <2>2. b * z = a * z + (b - a) * z
      BY <2>1
  <2>3. (b - a) * z > 0
      BY <2>1
  <2> QED BY <2>2, <2>3
<1>2. x < y => x * z < y * z
    BY <1>1
<1>3. y < x => y * z < x * z
    BY <1>1
<1> QED BY <1>2, <1>3

(* Comparing fractions by cross multiplication is transitive. *)
Follows(a, b, c, d, e, f) ==
    /\ a * f >= e * b
    /\ a * f = e * b => a * d = c * b /\ c * f = e * d

LEMMA CrossMultiplied ==
    ASSUME NEW a \in Nat, NEW b \in Nat \ {0}, NEW c \in Nat, NEW d \in Nat \ {0},
           NEW e \in Nat, NEW f \in Nat \ {0}, a * d >= c * b, c * f >= e * d
    PROVE  Follows(a, b, c, d, e, f)
<1>1. a * d \in Nat /\ c * b \in Nat /\ c * f \in Nat /\ e * d \in Nat /\ a * f \in Nat /\ e * b \in Nat
    OBVIOUS
<1>2. (a * d) * f >= (c * b) * f /\ ((a * d) * f = (c * b) * f => a * d = c * b)
    BY <1>1, Scaled
<1>3. (c * f) * b >= (e * d) * b /\ ((c * f) * b = (e * d) * b => c * f = e * d)
    BY <1>1, Scaled
<1>4. (a * d) * f = (a * f) * d /\ (c * b) * f = (c * f) * b /\ (e * d) * b = (e * b) * d
    OBVIOUS
<1>5. (a * f) * d >= (e * b) * d
    BY <1>1, <1>2, <1>3, <1>4
<1>6. a * f >= e * b
    BY <1>1, <1>5, Scaled
<1>7. ASSUME a * f = e * b PROVE a * d = c * b /\ c * f = e * d
  <2>1. (a * f) * d = (e * b) * d
      BY <1>7
  <2> QED BY <1>1, <1>2, <1>3, <1>4, <2>1
<1> QED BY <1>6, <1>7 DEF Follows

-----------------------------------------------------------------------------
(* Fusion. *)

(* A point has its ranks in the legs that found it, the best of them. *)
LEMMA LegRanks ==
    ASSUME SearchAssumption, NEW ranks \in [Search!Legs -> Search!Rankings]
    PROVE  \A leg \in Search!Legs :
             /\ DOMAIN ranks[leg] \subseteq Points
             /\ \A p \in DOMAIN ranks[leg] : ranks[leg][p] \in Nat \ {0}
<1> TAKE leg \in Search!Legs
<1>1. PICK S \in SUBSET Points : ranks[leg] \in [S -> 1..CandidateLimit]
    BY DEF Search!Rankings
<1>2. \A p \in S : ranks[leg][p] \in 1..CandidateLimit
    BY <1>1
<1>3. 1..CandidateLimit \subseteq Nat \ {0}
    BY DEF SearchAssumption
<1> QED BY <1>1, <1>2, <1>3

LEMMA BestRanks ==
    ASSUME SearchAssumption, NEW ranks \in [Search!Legs -> Search!Rankings], NEW p \in Search!Found(ranks)
    PROVE  /\ p \in Points /\ Search!RanksOf(ranks, p) \subseteq Nat \ {0}
           /\ Search!BestRank(ranks, p) \in Search!RanksOf(ranks, p)
           /\ \A r \in Search!RanksOf(ranks, p) : Search!BestRank(ranks, p) <= r
<1> DEFINE own == Search!RanksOf(ranks, p)
<1>1. own \subseteq Nat \ {0}
    BY LegRanks DEF Search!RanksOf
<1>2. PICK leg \in Search!Legs : p \in DOMAIN ranks[leg]
    BY DEF Search!Found
<1>3. ranks[leg][p] \in own
    BY <1>2 DEF Search!RanksOf
<1>4. p \in Points
    BY <1>2, LegRanks
<1>5. Search!BestRank(ranks, p) = CHOOSE r \in own : \A t \in own : r <= t
    BY DEF Search!BestRank
<1> HIDE DEF own
<1>6. \E r \in own : \A t \in own : r <= t
  <2>1. own \in SUBSET Nat /\ own # {}
      BY <1>1, <1>3
  <2> QED BY <2>1, LeastExists
<1>7. Search!BestRank(ranks, p) \in own /\ \A r \in own : Search!BestRank(ranks, p) <= r
    BY <1>5, <1>6
<1> QED BY <1>1, <1>4, <1>7 DEF own

(* The reciprocal of a rank: a point only one leg found, and one both did. *)
LEMMA OneTerm ==
    ASSUME SearchAssumption, NEW ranks \in [Search!Legs -> Search!Rankings], NEW p \in Search!Found(ranks),
           ~Search!InBoth(ranks, p)
    PROVE  /\ Search!FusedScore(ranks, p) = <<1, RrfK + Search!BestRank(ranks, p)>>
           /\ \A leg \in Search!Legs : p \in DOMAIN ranks[leg] => Search!BestRank(ranks, p) = ranks[leg][p]
<1>1. Search!FusedScore(ranks, p) = <<1, RrfK + Search!BestRank(ranks, p)>>
    BY DEF Search!FusedScore
<1>2. ASSUME NEW leg \in Search!Legs, p \in DOMAIN ranks[leg] PROVE Search!BestRank(ranks, p) = ranks[leg][p]
  <2>1. \A other \in Search!Legs : p \in DOMAIN ranks[other] => other = leg
      BY <1>2 DEF Search!InBoth, Search!Legs
  <2>2. \A r \in Search!RanksOf(ranks, p) : r = ranks[leg][p]
      BY <2>1 DEF Search!RanksOf
  <2> QED BY <2>2, BestRanks
<1> QED BY <1>1, <1>2

LEMMA TwoTerms ==
    ASSUME SearchAssumption, NEW ranks \in [Search!Legs -> Search!Rankings], NEW p \in Search!Found(ranks),
           Search!InBoth(ranks, p)
    PROVE  /\ RrfK + ranks["dense"][p] \in Nat \ {0} /\ RrfK + ranks["sparse"][p] \in Nat \ {0}
           /\ Search!FusedScore(ranks, p) = <<(RrfK + ranks["dense"][p]) + (RrfK + ranks["sparse"][p]),
                                              (RrfK + ranks["dense"][p]) * (RrfK + ranks["sparse"][p])>>
<1>1. "dense" \in Search!Legs /\ "sparse" \in Search!Legs
    BY DEF Search!Legs
<1>2. ranks["dense"][p] \in Nat \ {0} /\ ranks["sparse"][p] \in Nat \ {0}
    BY <1>1, LegRanks DEF Search!InBoth
<1>3. RrfK + ranks["dense"][p] \in Nat \ {0} /\ RrfK + ranks["sparse"][p] \in Nat \ {0}
    BY <1>2 DEF SearchAssumption
<1> QED BY <1>3 DEF Search!FusedScore

LEMMA ScoreIsFraction ==
    ASSUME SearchAssumption, NEW ranks \in [Search!Legs -> Search!Rankings], NEW p \in Search!Found(ranks)
    PROVE  Search!FusedScore(ranks, p)[1] \in Nat /\ Search!FusedScore(ranks, p)[2] \in Nat \ {0}
<1>1. CASE Search!InBoth(ranks, p)
  <2> DEFINE x == RrfK + ranks["dense"][p]
             y == RrfK + ranks["sparse"][p]
  <2>1. x \in Nat \ {0} /\ y \in Nat \ {0} /\ Search!FusedScore(ranks, p) = <<x + y, x * y>>
      BY <1>1, TwoTerms
  <2> HIDE DEF x, y
  <2>2. x + y \in Nat /\ x * y \in Nat \ {0}
      BY <2>1
  <2> QED BY <2>1, <2>2
<1>2. CASE ~Search!InBoth(ranks, p)
  <2>1. Search!BestRank(ranks, p) \in Nat \ {0}
      BY BestRanks
  <2>2. RrfK + Search!BestRank(ranks, p) \in Nat \ {0}
      BY <2>1 DEF SearchAssumption
  <2> QED BY <1>2, <2>2, OneTerm
<1> QED BY <1>1, <1>2

(* Points by a fraction, then a best rank, then id. *)
LEMMA FractionOrder ==
    ASSUME NEW S \in SUBSET Nat, NEW num, NEW den, NEW best,
           \A p \in S : num[p] \in Nat /\ den[p] \in Nat \ {0} /\ best[p] \in Nat, NEW earlier,
           \A p, q \in S :
               <<p, q>> \in earlier <=>
                   \/ num[p] * den[q] > num[q] * den[p]
                   \/ /\ num[p] * den[q] = num[q] * den[p]
                      /\ best[p] < best[q] \/ (best[p] = best[q] /\ p < q)
    PROVE  StrictOrder(earlier, S)
<1>1. \A p \in S : p \in Nat
    OBVIOUS
<1>2. \A p, q \in S : num[p] * den[q] \in Nat
    OBVIOUS
<1>3. \A p \in S : <<p, p>> \notin earlier
    BY <1>1, <1>2
<1>4. ASSUME NEW p \in S, NEW q \in S PROVE p = q \/ <<p, q>> \in earlier \/ <<q, p>> \in earlier
  <2>1. num[p] * den[q] \in Nat /\ num[q] * den[p] \in Nat
      BY <1>2
  <2> QED BY <1>1, <2>1
<1>5. ASSUME NEW p \in S, NEW q \in S, NEW r \in S, <<p, q>> \in earlier, <<q, r>> \in earlier
      PROVE  <<p, r>> \in earlier
  <2>1. num[p] * den[q] >= num[q] * den[p] /\ num[q] * den[r] >= num[r] * den[q]
      BY <1>2, <1>5
  <2>2. /\ num[p] * den[r] >= num[r] * den[p]
        /\ num[p] * den[r] = num[r] * den[p] =>
             num[p] * den[q] = num[q] * den[p] /\ num[q] * den[r] = num[r] * den[q]
    <3>1. /\ num[p] \in Nat /\ num[q] \in Nat /\ num[r] \in Nat
          /\ den[p] \in Nat \ {0} /\ den[q] \in Nat \ {0} /\ den[r] \in Nat \ {0}
        OBVIOUS
    <3>2. Follows(num[p], den[p], num[q], den[q], num[r], den[r])
        BY <2>1, <3>1, CrossMultiplied
    <3> QED BY <3>2 DEF Follows
  <2>3. CASE num[p] * den[r] > num[r] * den[p]
      BY <2>3
  <2>4. CASE num[p] * den[r] = num[r] * den[p]
    <3>1. num[p] * den[q] = num[q] * den[p] /\ num[q] * den[r] = num[r] * den[q]
        BY <2>2, <2>4
    <3>2. best[p] < best[q] \/ (best[p] = best[q] /\ p < q)
        BY <1>2, <1>5, <3>1
    <3>3. best[q] < best[r] \/ (best[q] = best[r] /\ q < r)
        BY <1>2, <1>5, <3>1
    <3>4. best[p] < best[r] \/ (best[p] = best[r] /\ p < r)
        BY <1>1, <3>2, <3>3
    <3> QED BY <2>4, <3>4
  <2> QED BY <1>2, <2>2, <2>3, <2>4
<1> QED BY <1>3, <1>4, <1>5 DEF StrictOrder

(* The order of the fusion. *)
AheadPairs(ranks) ==
    {x \in Search!Found(ranks) \X Search!Found(ranks) : Search!Ahead(ranks, x[1], x[2])}

LEMMA AheadOrder ==
    ASSUME SearchAssumption, NEW ranks \in [Search!Legs -> Search!Rankings]
    PROVE  StrictOrder(AheadPairs(ranks), Search!Found(ranks))
<1> DEFINE S == Search!Found(ranks)
           num == [p \in S |-> Search!FusedScore(ranks, p)[1]]
           den == [p \in S |-> Search!FusedScore(ranks, p)[2]]
           best == [p \in S |-> Search!BestRank(ranks, p)]
           earlier == AheadPairs(ranks)
<1>1. ASSUME NEW p \in S PROVE p \in Nat /\ num[p] \in Nat /\ den[p] \in Nat \ {0} /\ best[p] \in Nat
  <2>1. p \in Nat /\ Search!BestRank(ranks, p) \in Nat
      BY BestRanks DEF SearchAssumption
  <2> QED BY <2>1, ScoreIsFraction
<1>2. ASSUME NEW p \in S, NEW q \in S
      PROVE  <<p, q>> \in earlier <=>
                 \/ num[p] * den[q] > num[q] * den[p]
                 \/ /\ num[p] * den[q] = num[q] * den[p]
                    /\ best[p] < best[q] \/ (best[p] = best[q] /\ p < q)
  <2>1. <<p, q>> \in earlier <=> Search!Ahead(ranks, p, q)
      BY DEF AheadPairs
  <2>2. Search!Compared(ranks, p, q) = <<num[p] * den[q], num[q] * den[p]>>
      BY DEF Search!Compared
  <2>3. Search!BestRank(ranks, p) = best[p] /\ Search!BestRank(ranks, q) = best[q]
      OBVIOUS
  <2> HIDE DEF num, den, best, earlier, S
  <2> QED BY <2>1, <2>2, <2>3 DEF Search!Ahead
<1> HIDE DEF num, den, best, earlier, S
<1>3. S \in SUBSET Nat
    BY <1>1
<1>4. StrictOrder(earlier, S)
    BY <1>1, <1>2, <1>3, FractionOrder
<1> QED BY <1>4 DEF earlier, S

(* A point that is ahead of another in every leg that found the other is   *)
(* ahead of it in the fusion.                                              *)
LEMMA DominanceIsKept ==
    ASSUME SearchAssumption, NEW ranks \in [Search!Legs -> Search!Rankings],
           NEW p \in Search!Found(ranks), NEW q \in Search!Found(ranks), Search!Dominates(ranks, p, q)
    PROVE  Search!Ahead(ranks, p, q)
<1> DEFINE num(r) == Search!FusedScore(ranks, r)[1]
           den(r) == Search!FusedScore(ranks, r)[2]
<1>1. SUFFICES num(p) * den(q) > num(q) * den(p)
    BY DEF Search!Ahead, Search!Compared
<1>2. \A leg \in Search!Legs : q \in DOMAIN ranks[leg] =>
          p \in DOMAIN ranks[leg] /\ ranks[leg][p] < ranks[leg][q]
    BY DEF Search!Dominates
<1>3. "dense" \in Search!Legs /\ "sparse" \in Search!Legs
    BY DEF Search!Legs
<1>4. CASE Search!InBoth(ranks, q)
  <2> DEFINE x == RrfK + ranks["dense"][p]
             y == RrfK + ranks["sparse"][p]
             v == RrfK + ranks["dense"][q]
             w == RrfK + ranks["sparse"][q]
  <2>1. Search!InBoth(ranks, p)
      BY <1>2, <1>4 DEF Search!InBoth
  <2>2. x \in Nat \ {0} /\ y \in Nat \ {0} /\ num(p) = x + y /\ den(p) = x * y
      BY <2>1, TwoTerms
  <2>3. v \in Nat \ {0} /\ w \in Nat \ {0} /\ num(q) = v + w /\ den(q) = v * w
      BY <1>4, TwoTerms
  <2>4. x < v /\ y < w
    <3>1. /\ ranks["dense"][p] < ranks["dense"][q] /\ ranks["sparse"][p] < ranks["sparse"][q]
          /\ ranks["dense"][p] \in Nat /\ ranks["dense"][q] \in Nat
          /\ ranks["sparse"][p] \in Nat /\ ranks["sparse"][q] \in Nat
        BY <1>2, <1>3, <1>4, <2>1, LegRanks DEF Search!InBoth
    <3> QED BY <3>1 DEF SearchAssumption
  <2> HIDE DEF x, y, v, w, num, den
  <2>5. y * (x * v) < w * (x * v) /\ x * (y * w) < v * (y * w)
    <3>1. x * v \in Nat \ {0} /\ y * w \in Nat \ {0}
        BY <2>2, <2>3
    <3> QED BY <2>2, <2>3, <2>4, <3>1, Scaled
  <2>6. (x + y) * (v * w) = w * (x * v) + v * (y * w) /\ (v + w) * (x * y) = y * (x * v) + x * (y * w)
      BY <2>2, <2>3
  <2>7. (x + y) * (v * w) > (v + w) * (x * y)
    <3>1. y * (x * v) \in Nat /\ w * (x * v) \in Nat /\ x * (y * w) \in Nat /\ v * (y * w) \in Nat
        BY <2>2, <2>3
    <3> QED BY <2>5, <2>6, <3>1
  <2> QED BY <2>2, <2>3, <2>7
<1>5. CASE ~Search!InBoth(ranks, q)
  <2>1. PICK leg \in Search!Legs : q \in DOMAIN ranks[leg]
      BY DEF Search!Found
  <2> DEFINE v == RrfK + ranks[leg][q]
             x == RrfK + ranks[leg][p]
  <2>2. num(q) = 1 /\ den(q) = v
      BY <1>5, <2>1, OneTerm
  <2>3. p \in DOMAIN ranks[leg] /\ x \in Nat \ {0} /\ v \in Nat \ {0} /\ x < v
    <3>1. p \in DOMAIN ranks[leg] /\ ranks[leg][p] < ranks[leg][q]
        BY <1>2, <2>1
    <3>2. ranks[leg][p] \in Nat \ {0} /\ ranks[leg][q] \in Nat \ {0}
        BY <2>1, <3>1, LegRanks
    <3> QED BY <3>1, <3>2 DEF SearchAssumption
  <2>4. CASE ~Search!InBoth(ranks, p)
    <3>1. num(p) = 1 /\ den(p) = x
        BY <2>3, <2>4, OneTerm
    <3> HIDE DEF x, v, num, den
    <3> QED BY <2>2, <2>3, <3>1
  <2>5. CASE Search!InBoth(ranks, p)
    <3>1. PICK y \in Nat \ {0} : num(p) = x + y /\ den(p) = x * y
      <4>1. CASE leg = "dense"
          BY <2>5, <4>1, TwoTerms
      <4>2. CASE leg = "sparse"
        <5> DEFINE d == RrfK + ranks["dense"][p]
        <5>1. d \in Nat \ {0} /\ x \in Nat \ {0} /\ num(p) = d + x /\ den(p) = d * x
            BY <2>5, <4>2, TwoTerms
        <5> HIDE DEF d, x, num, den
        <5>2. d + x = x + d /\ d * x = x * d
            BY <5>1
        <5> QED BY <5>1, <5>2
      <4> QED BY <2>1, <4>1, <4>2 DEF Search!Legs
    <3> HIDE DEF x, v, num, den
    <3>2. (x + y) * v = x * v + y * v /\ x * y < v * y /\ y * v = v * y /\ x * v \in Nat /\ x * y \in Nat /\ v * y \in Nat
        BY <2>3, <3>1, Scaled
    <3>3. (x + y) * v > 1 * (x * y)
        BY <3>2
    <3> QED BY <2>2, <3>1, <3>3
  <2> QED BY <2>4, <2>5
<1> QED BY <1>4, <1>5

(* The ranks of the fusion. *)
LEMMA FusedRanks ==
    ASSUME SearchAssumption, NEW ranks \in [Search!Legs -> Search!Rankings], NEW F, F = Search!Found(ranks)
    PROVE  /\ IsFiniteSet(F) /\ F \subseteq Points
           /\ \A p \in F : Search!FusedRank(ranks, p) \in Nat \ {0}
           /\ \A p, q \in F :
                Search!Ahead(ranks, p, q) <=> Search!FusedRank(ranks, p) < Search!FusedRank(ranks, q)
           /\ \A p, q \in F : Search!FusedRank(ranks, p) = Search!FusedRank(ranks, q) => p = q
           /\ StrictOrder(AheadPairs(ranks), F)
           /\ RanksBy([p \in F |-> Search!FusedRank(ranks, p)], AheadPairs(ranks), F)
<1> DEFINE rank == [p \in F |-> Search!FusedRank(ranks, p)]
<1>1. F \subseteq Points
    BY LegRanks DEF Search!Found
<1>2. IsFiniteSet(F)
    BY <1>1, FS_Subset DEF SearchAssumption
<1>3. StrictOrder(AheadPairs(ranks), F)
    BY AheadOrder
<1>4. \A p, q \in F : <<p, q>> \in AheadPairs(ranks) <=> Search!Ahead(ranks, p, q)
    BY DEF AheadPairs
<1>5. ASSUME NEW p \in F PROVE rank[p] = 1 + Cardinality({q \in F : <<q, p>> \in AheadPairs(ranks)})
  <2>1. rank[p] = 1 + Search!Cardinality({q \in F : Search!Ahead(ranks, q, p)})
      BY DEF Search!FusedRank, Search!RankAfter
  <2>2. {q \in F : Search!Ahead(ranks, q, p)} = {q \in F : <<q, p>> \in AheadPairs(ranks)}
      BY <1>4
  <2> QED BY <2>1, <2>2, SearchCardinality
<1>6. \A p \in F : rank[p] = Search!FusedRank(ranks, p)
    OBVIOUS
<1> HIDE DEF rank
<1>7. RanksBy(rank, AheadPairs(ranks), F)
    BY <1>5 DEF RanksBy
<1>8. /\ \A p \in F : rank[p] \in 1..Cardinality(F)
      /\ \A p, q \in F : <<p, q>> \in AheadPairs(ranks) <=> rank[p] < rank[q]
      /\ \A p, q \in F : rank[p] = rank[q] => p = q
    BY <1>2, <1>3, <1>7, RankOrder
<1>9. \A p \in F : rank[p] \in Nat \ {0}
    BY <1>2, <1>8, FS_CardinalityType
<1> QED BY <1>1, <1>2, <1>3, <1>4, <1>6, <1>7, <1>8, <1>9 DEF rank

(* Who is in the fusion. *)
LEMMA FusedPoints ==
    ASSUME SearchAssumption, NEW ranks \in [Search!Legs -> Search!Rankings]
    PROVE  /\ \A g \in Search!Fused(ranks) :
                /\ g[2] \in Search!Found(ranks) /\ g = <<Search!FusedRank(ranks, g[2]), g[2]>>
                /\ g[1] = Search!FusedRank(ranks, g[2]) /\ g[1] <= FusedLimit
                /\ g \in Nat \X Points /\ g[1] \in Nat \ {0}
           /\ \A p \in Search!Found(ranks) : Search!FusedRank(ranks, p) <= FusedLimit =>
                <<Search!FusedRank(ranks, p), p>> \in Search!Fused(ranks)
           /\ \A g, h \in Search!Fused(ranks) : g[1] = h[1] => g = h
<1> DEFINE F == Search!Found(ranks)
<1>1. /\ F \subseteq Points /\ \A p \in F : Search!FusedRank(ranks, p) \in Nat \ {0}
      /\ \A p, q \in F : Search!FusedRank(ranks, p) = Search!FusedRank(ranks, q) => p = q
    BY FusedRanks
<1> HIDE DEF F
<1>2. ASSUME NEW g \in Search!Fused(ranks)
      PROVE  /\ g[2] \in F /\ g = <<Search!FusedRank(ranks, g[2]), g[2]>>
             /\ g[1] = Search!FusedRank(ranks, g[2]) /\ g[1] <= FusedLimit
             /\ g \in Nat \X Points /\ g[1] \in Nat \ {0}
  <2>1. PICK p \in F : g = <<Search!FusedRank(ranks, p), p>> /\ g[1] <= FusedLimit
      BY DEF Search!Fused, F
  <2> QED BY <1>1, <2>1
<1>3. \A p \in F : Search!FusedRank(ranks, p) <= FusedLimit =>
          <<Search!FusedRank(ranks, p), p>> \in Search!Fused(ranks)
    BY DEF Search!Fused, F
<1>4. ASSUME NEW g \in Search!Fused(ranks), NEW h \in Search!Fused(ranks), g[1] = h[1] PROVE g = h
  <2>1. g[2] = h[2]
      BY <1>1, <1>2, <1>4
  <2> QED BY <1>2, <2>1
<1> QED BY <1>2, <1>3, <1>4 DEF F

(* What the fusion computes passes its own check. *)
LEMMA FusionIsValid ==
    ASSUME SearchAssumption, NEW ranks \in [Search!Legs -> Search!Rankings]
    PROVE  Search!ValidFusion(ranks, Search!Fused(ranks)) /\ IsFiniteSet(Search!Fused(ranks))
<1> DEFINE F == Search!Found(ranks)
           P == Search!Fused(ranks)
           rank == [p \in F |-> Search!FusedRank(ranks, p)]
<1>1. /\ IsFiniteSet(F) /\ StrictOrder(AheadPairs(ranks), F) /\ RanksBy(rank, AheadPairs(ranks), F)
      /\ \A p, q \in F : Search!Ahead(ranks, p, q) <=> Search!FusedRank(ranks, p) < Search!FusedRank(ranks, q)
    BY FusedRanks
<1>2. \A p \in F : rank[p] = Search!FusedRank(ranks, p)
    OBVIOUS
<1>3. /\ \A g \in P : g[2] \in F /\ g[1] = rank[g[2]] /\ rank[g[2]] <= FusedLimit /\ g[1] \in Nat
      /\ \A p \in F : rank[p] <= FusedLimit => <<rank[p], p>> \in P
      /\ \A g, h \in P : g[1] = h[1] => g = h
    BY FusedPoints
<1> HIDE DEF rank, P, F
<1>4. \A g \in P : \E p \in F : rank[p] <= FusedLimit /\ g[1] = rank[p]
    BY <1>3
<1>5. ASSUME NEW p \in F, rank[p] <= FusedLimit PROVE \E g \in P : g[1] = rank[p]
  <2>1. <<rank[p], p>> \in P /\ <<rank[p], p>>[1] = rank[p]
      BY <1>3, <1>5
  <2> QED BY <2>1
<1>6. Listed(P, rank, F, FusedLimit)
    BY <1>3, <1>4, <1>5 DEF Listed
<1>7. CutOff(P, F, FusedLimit)
    BY <1>1, <1>6, FirstRanks DEF SearchAssumption
<1>8. Cardinality(P) <= FusedLimit
  <2>1. Cardinality(F) \in Nat
      BY <1>1, FS_CardinalityType
  <2> QED BY <1>7, <2>1 DEF SearchAssumption, CutOff
<1>9. ASSUME NEW g \in P, NEW h \in P, g[1] < h[1] PROVE g[2] # h[2] /\ Search!Ahead(ranks, g[2], h[2])
    BY <1>1, <1>2, <1>3, <1>9
<1> QED BY <1>8, <1>9, <1>7, SearchCardinality DEF Search!ValidFusion, CutOff, P

(* Every chunk of the fusion has one group, led by its first point. *)
LEMMA GroupsLead ==
    ASSUME SearchAssumption, NEW ranks \in [Search!Legs -> Search!Rankings]
    PROVE  /\ Search!Groups(Search!Fused(ranks)) \subseteq Search!Fused(ranks)
           /\ Search!ValidGroups(Search!Groups(Search!Fused(ranks)), Search!Fused(ranks))
<1> DEFINE P == Search!Fused(ranks)
           all == Search!Groups(P)
<1>1. /\ \A g \in P : g[1] \in Nat
      /\ \A g, h \in P : g[1] = h[1] => g = h
    BY FusedPoints
<1> HIDE DEF P
<1>2. all \subseteq P
    BY DEF Search!Groups
<1>3. ASSUME NEW g \in all, NEW h \in all, chunk[g[2]] = chunk[h[2]] PROVE g = h
  <2>1. g[1] <= h[1] /\ h[1] <= g[1] /\ g \in P /\ h \in P
      BY <1>3 DEF Search!Groups
  <2> QED BY <1>1, <2>1
<1>4. ASSUME NEW f \in P PROVE \E g \in all : chunk[g[2]] = chunk[f[2]] /\ g[1] <= f[1]
  <2> DEFINE same == {h \in P : chunk[h[2]] = chunk[f[2]]}
             places == {h[1] : h \in same}
  <2>1. places \in SUBSET Nat /\ f[1] \in places
      BY <1>1
  <2>2. PICK least \in places : \A r \in places : least <= r
    <3> HIDE DEF places
    <3> QED BY <2>1, LeastExists
  <2>3. PICK g \in same : g[1] = least
      OBVIOUS
  <2>4. \A h \in P : chunk[h[2]] = chunk[g[2]] => g[1] <= h[1]
      BY <2>2, <2>3
  <2>5. g \in all
      BY <2>3, <2>4 DEF Search!Groups
  <2> QED BY <2>1, <2>2, <2>3, <2>5
<1> QED BY <1>2, <1>3, <1>4 DEF Search!ValidGroups, P

-----------------------------------------------------------------------------
(* The hits. *)

(* earlier has the members of S by their key, then place. *)
ByKey(earlier, key, place, S) ==
    /\ \A g \in S : key[g] \in Nat /\ place[g] \in Nat
    /\ \A g, h \in S : place[g] = place[h] => g = h
    /\ \A g, h \in S :
         <<g, h>> \in earlier <=> key[g] > key[h] \/ (key[g] = key[h] /\ place[g] < place[h])

LEMMA KeyOrder ==
    ASSUME NEW S, NEW key, NEW place, NEW earlier, ByKey(earlier, key, place, S)
    PROVE  StrictOrder(earlier, S)
<1>1. /\ \A g, h \in S : place[g] < place[h] \/ g = h \/ place[h] < place[g]
      /\ \A g, h \in S : key[g] < key[h] \/ key[g] = key[h] \/ key[h] < key[g]
    BY DEF ByKey
<1>2. \A g \in S : <<g, g>> \notin earlier
    BY DEF ByKey
<1>3. \A f, g, h \in S : <<f, g>> \in earlier /\ <<g, h>> \in earlier => <<f, h>> \in earlier
    BY DEF ByKey
<1>4. \A g, h \in S : g = h \/ <<g, h>> \in earlier \/ <<h, g>> \in earlier
    BY <1>1 DEF ByKey
<1> QED BY <1>2, <1>3, <1>4 DEF StrictOrder

(* H has the members of S of a rank within n, with their ranks. *)
HitsOf(H, S, key, n, rank) ==
    /\ H = {<<rank[g], g[2]>> : g \in {g \in S : rank[g] <= n}}
    /\ \A g \in S : rank[g] \in Nat
    /\ \A g, h \in S : rank[g] = rank[h] => g = h
    /\ \A g, h \in S : key[g] = key[h] /\ g[1] < h[1] => rank[g] < rank[h]

LEMMA OrderedHits ==
    ASSUME NEW S \in SUBSET (Nat \X Points), IsFiniteSet(S), \A g, h \in S : g[1] = h[1] => g = h,
           NEW key \in [S -> Nat], NEW n \in Nat
    PROVE  /\ CutOff(Search!Ordered(S, key, n), S, n)
           /\ \E rank : HitsOf(Search!Ordered(S, key, n), S, key, n, rank)
<1> DEFINE H == Search!Ordered(S, key, n)
           place == [g \in S |-> g[1]]
           earlier == {x \in S \X S : \/ key[x[1]] > key[x[2]]
                                      \/ key[x[1]] = key[x[2]] /\ place[x[1]] < place[x[2]]}
           rank == [g \in S |-> 1 + Cardinality({h \in S : <<h, g>> \in earlier})]
<1>1. /\ \A g \in S : key[g] \in Nat /\ place[g] \in Nat /\ place[g] = g[1]
      /\ \A g, h \in S : place[g] = place[h] => g = h
    OBVIOUS
<1> HIDE DEF place
<1>2. \A g, h \in S : <<g, h>> \in earlier <=> key[g] > key[h] \/ (key[g] = key[h] /\ place[g] < place[h])
    OBVIOUS
<1> HIDE DEF earlier
<1>3. ByKey(earlier, key, place, S)
    BY <1>1, <1>2 DEF ByKey
<1>4. StrictOrder(earlier, S)
    BY <1>3, KeyOrder
<1>5. RanksBy(rank, earlier, S)
    BY DEF RanksBy
<1>6. ASSUME NEW g \in S
      PROVE  rank[g] = 1 + Search!Cardinality({h \in S : key[h] > key[g] \/ (key[h] = key[g] /\ h[1] < g[1])})
  <2>1. {h \in S : key[h] > key[g] \/ (key[h] = key[g] /\ h[1] < g[1])} = {h \in S : <<h, g>> \in earlier}
      BY <1>1, <1>2
  <2> QED BY <2>1, SearchCardinality
<1> HIDE DEF rank
<1>7. H = {<<rank[g], g[2]>> : g \in {g \in S : rank[g] <= n}}
  <2> DEFINE after(g) == 1 + Search!Cardinality({h \in S : key[h] > key[g] \/ (key[h] = key[g] /\ h[1] < g[1])})
  <2>1. H = {<<after(g), g[2]>> : g \in {g \in S : after(g) <= n}}
      BY DEF Search!Ordered, Search!RankAfter
  <2>2. \A g \in S : rank[g] = after(g)
      BY <1>6
  <2> HIDE DEF after, H
  <2> QED BY <2>1, <2>2
<1> HIDE DEF H
<1>8. /\ \A g \in S : rank[g] \in 1..Cardinality(S)
      /\ \A g, h \in S : <<g, h>> \in earlier <=> rank[g] < rank[h]
      /\ \A g, h \in S : rank[g] = rank[h] => g = h
    BY <1>4, <1>5, RankOrder
<1>9. Listed(H, rank, S, n)
  <2>1. \A x \in H : \E g \in S : x = <<rank[g], g[2]>> /\ rank[g] <= n
      BY <1>7
  <2>2. \A g \in S : rank[g] <= n => <<rank[g], g[2]>> \in H
      BY <1>7
  <2>3. \A x \in H : \E g \in S : rank[g] <= n /\ x[1] = rank[g]
      BY <2>1
  <2>4. \A x, y \in H : x[1] = y[1] => x = y
      BY <1>8, <2>1
  <2>5. \A g \in S : rank[g] <= n => \E x \in H : x[1] = rank[g]
    <3>1. ASSUME NEW g \in S, rank[g] <= n PROVE \E x \in H : x[1] = rank[g]
      <4>1. <<rank[g], g[2]>> \in H /\ <<rank[g], g[2]>>[1] = rank[g]
          BY <2>2, <3>1
      <4> QED BY <4>1
    <3> QED BY <3>1
  <2> QED BY <2>3, <2>4, <2>5 DEF Listed
<1>10. CutOff(H, S, n)
    BY <1>4, <1>5, <1>9, FirstRanks
<1>11. \A g, h \in S : key[g] = key[h] /\ g[1] < h[1] => rank[g] < rank[h]
    BY <1>1, <1>2, <1>8
<1>12. HitsOf(H, S, key, n, rank)
    BY <1>7, <1>8, <1>11 DEF HitsOf
<1> QED BY <1>10, <1>12 DEF H

-----------------------------------------------------------------------------
(* The search keeps its inductive invariant. *)

(* All groups of the fusion, and those that the resolution has passed. *)
AllGroups    == Search!Groups(Search!Fused(query.ranks))
PassedGroups == AllGroups \ query.groups

LEMMA SearchFacts ==
    ASSUME SearchAssumption, Search!SearchType
    PROVE  /\ query \in Search!Queries /\ query.ranks \in [Search!Legs -> Search!Rankings]
           /\ query.limit \in Nat /\ Search!ResultWindow \in Nat
           /\ AllGroups \in SUBSET (Nat \X Points) /\ IsFiniteSet(AllGroups)
           /\ \A g, h \in AllGroups : g[1] = h[1] => g = h
           /\ \A g, h \in AllGroups : chunk[g[2]] = chunk[h[2]] => g = h
<1>1. query \in Search!Queries /\ query.ranks \in [Search!Legs -> Search!Rankings] /\ query.limit \in 1..MaxResults
    BY DEF Search!SearchType, Search!Queries
<1>2. query.limit \in Nat /\ Search!ResultWindow \in Nat
    BY <1>1 DEF SearchAssumption, Search!ResultWindow
<1> DEFINE P == Search!Fused(query.ranks)
<1>3. IsFiniteSet(P)
    BY <1>1, FusionIsValid
<1>4. /\ \A g \in P : g \in Nat \X Points
      /\ \A g, h \in P : g[1] = h[1] => g = h
    BY <1>1, FusedPoints
<1>5. AllGroups \subseteq P /\ Search!ValidGroups(AllGroups, P)
    BY <1>1, GroupsLead DEF AllGroups
<1> HIDE DEF P
<1>6. IsFiniteSet(AllGroups)
    BY <1>3, <1>5, FS_Subset
<1>7. \A g, h \in AllGroups : chunk[g[2]] = chunk[h[2]] => g = h
    BY <1>5 DEF Search!ValidGroups
<1> QED BY <1>1, <1>2, <1>4, <1>5, <1>6, <1>7

LEMMA GroupsStay ==
    ASSUME chunk' = chunk, query'.ranks = query.ranks
    PROVE  AllGroups' = AllGroups
    BY DEF AllGroups, Search!Groups, Search!Fused, Search!FusedRank, Search!RankAfter, Search!Found,
           Search!Ahead, Search!Compared, Search!FusedScore, Search!InBoth, Search!BestRank, Search!RanksOf

LEMMA SearchInit == SearchAssumption /\ Search!Init => Search!SearchInv
<1> SUFFICES ASSUME SearchAssumption, Search!Init PROVE Search!SearchInv
    OBVIOUS
<1>1. PICK rerank \in BOOLEAN, limit \in 1..MaxResults :
          (rerank => limit < RerankWindow) /\ query = Search!NewSearch(rerank, limit)
    BY DEF Search!Init
<1> DEFINE none == [leg \in Search!Legs |-> [p \in {} |-> 0]]
<1>2. none \in [Search!Legs -> Search!Rankings]
  <2>1. [p \in {} |-> 0] \in [{} -> 1..CandidateLimit]
      OBVIOUS
  <2>2. [p \in {} |-> 0] \in Search!Rankings
      BY <2>1 DEF Search!Rankings
  <2> QED BY <2>2
<1>3. query = [status |-> "new", rerank |-> rerank, limit |-> limit, began |-> available, ranks |-> none,
               groups |-> {}, resolved |-> {}, hits |-> {}]
    BY <1>1 DEF Search!NewSearch
<1> HIDE DEF none
<1>4. available \subseteq Evidence /\ chunk \in [Points -> Evidence]
      /\ scores \in [dense : [Points -> 0..2], sparse : [Points -> 0..1]]
    BY DEF Search!Init
<1>5. query \in Search!Queries
    BY <1>2, <1>3, <1>4 DEF Search!Queries, Search!Numbered
<1> QED BY <1>1, <1>3, <1>4, <1>5
        DEF Search!SearchInv, Search!SearchType, Search!ResolutionInv, Search!AnsweredInv, Search!NothingRefused

(* Both legs answer. *)
LEMMA LegsRetrieved == SearchAssumption /\ Search!SearchInv /\ Search!Retrieve => Search!SearchInv'
<1> SUFFICES ASSUME SearchAssumption, Search!SearchInv, Search!Retrieve PROVE Search!SearchInv'
    OBVIOUS
<1>1. PICK dense \in Search!Returned("dense"), sparse \in Search!Returned("sparse") : \E ranks :
          /\ ranks = [dense |-> Search!Ranked("dense", dense), sparse |-> Search!Ranked("sparse", sparse)]
          /\ query' = IF \A leg \in Search!Legs : Search!ValidLeg(ranks[leg])
                      THEN [query EXCEPT !.status = "fusing", !.ranks = ranks] ELSE Search!Refused
    BY DEF Search!Retrieve
<1>2. PICK ranks :
          /\ ranks = [dense |-> Search!Ranked("dense", dense), sparse |-> Search!Ranked("sparse", sparse)]
          /\ query' = IF \A leg \in Search!Legs : Search!ValidLeg(ranks[leg])
                      THEN [query EXCEPT !.status = "fusing", !.ranks = ranks] ELSE Search!Refused
    BY <1>1
<1>3. Search!SearchType /\ query \in Search!Queries /\ query.status = "new" /\ query.resolved = {}
      /\ UNCHANGED <<scores, chunk, available>>
    BY DEF Search!SearchInv, Search!SearchType, Search!Retrieve
<1>4. "dense" \in Search!Legs /\ "sparse" \in Search!Legs /\ \A leg \in Search!Legs : leg = "dense" \/ leg = "sparse"
    BY DEF Search!Legs
<1>5. \A leg \in Search!Legs : Search!ValidLeg(ranks[leg]) /\ ranks[leg] \in Search!Rankings
    BY <1>2, <1>3, <1>4, LegIsValid
<1>6. ranks \in [Search!Legs -> Search!Rankings]
  <2>1. ranks = [leg \in {"dense", "sparse"} |-> ranks[leg]]
      BY <1>2
  <2>2. Search!Legs = {"dense", "sparse"}
      BY DEF Search!Legs
  <2> QED BY <1>5, <2>1, <2>2
<1>7. query' = [query EXCEPT !.status = "fusing", !.ranks = ranks]
    BY <1>2, <1>5
<1>8. /\ query' \in Search!Queries /\ query'.status = "fusing" /\ query'.rerank = query.rerank
      /\ query'.limit = query.limit /\ query'.began = query.began /\ query'.resolved = query.resolved
    BY <1>3, <1>6, <1>7 DEF Search!Queries
<1>9. Search!SearchType'
    BY <1>3, <1>8 DEF Search!SearchType
<1> QED BY <1>8, <1>9 DEF Search!SearchInv, Search!ResolutionInv, Search!AnsweredInv, Search!NothingRefused

(* The ranks are fused and grouped: nothing is refused. *)
LEMMA RanksFused == SearchAssumption /\ Search!SearchInv /\ Search!Fuse => Search!SearchInv'
<1> SUFFICES ASSUME SearchAssumption, Search!SearchInv, Search!Fuse PROVE Search!SearchInv'
    OBVIOUS
<1>1. Search!SearchType /\ query \in Search!Queries /\ query.status = "fusing" /\ query.resolved = {}
      /\ UNCHANGED <<scores, chunk, available>>
    BY DEF Search!SearchInv, Search!SearchType, Search!Fuse
<1>2. query.ranks \in [Search!Legs -> Search!Rankings]
    BY <1>1, SearchFacts
<1>3. query' = [query EXCEPT !.status = "resolving", !.groups = AllGroups]
  <2>1. Search!ValidFusion(query.ranks, Search!Fused(query.ranks))
      BY <1>2, FusionIsValid
  <2>2. Search!ValidGroups(AllGroups, Search!Fused(query.ranks))
      BY <1>2, GroupsLead DEF AllGroups
  <2> QED BY <2>1, <2>2 DEF Search!Fuse, AllGroups
<1>4. AllGroups \in SUBSET (Nat \X Points)
    BY <1>1, SearchFacts
<1>5. /\ query' \in Search!Queries /\ query'.status = "resolving" /\ query'.rerank = query.rerank
      /\ query'.limit = query.limit /\ query'.began = query.began /\ query'.resolved = {}
      /\ query'.ranks = query.ranks /\ query'.groups = AllGroups
    BY <1>1, <1>3, <1>4 DEF Search!Queries, Search!Numbered
<1>6. Search!SearchType'
    BY <1>1, <1>5 DEF Search!SearchType
<1>7. AllGroups' = AllGroups
    BY <1>1, <1>5, GroupsStay
<1>8. Search!ResolutionInv'
  <2>1. Search!ResultWindow' = Search!ResultWindow /\ Search!ResultWindow \in Nat
      BY <1>1, <1>5, SearchFacts DEF Search!ResultWindow
  <2>2. Search!Cardinality(query'.resolved) = 0
      BY <1>5, SearchCardinality, FS_EmptySet
  <2> QED BY <1>5, <1>7, <2>1, <2>2 DEF Search!ResolutionInv, AllGroups
<1> QED BY <1>5, <1>6, <1>8 DEF Search!SearchInv, Search!AnsweredInv, Search!NothingRefused

(* What the resolution has done, in the terms of these lemmas. *)
Resolving ==
    /\ query.groups \subseteq AllGroups /\ query.resolved \subseteq PassedGroups
    /\ \A g \in PassedGroups, h \in query.groups : g[1] < h[1]
    /\ \A g \in PassedGroups : chunk[g[2]] \in query.began => g \in query.resolved
    /\ \A g \in query.resolved : chunk[g[2]] \in available
    /\ Cardinality(query.resolved) <= Search!ResultWindow

LEMMA ResolvingMeans == Search!ResolutionInv <=> (query.status \in {"resolving", "answered"} => Resolving)
    BY SearchCardinality DEF Search!ResolutionInv, Resolving, PassedGroups, AllGroups

LEMMA ResolvingMeansNext == (query.status \in {"resolving", "answered"} => Resolving)' => Search!ResolutionInv'
    BY SearchCardinality DEF Search!ResolutionInv, Resolving, PassedGroups, AllGroups

(* The next group is looked up, and kept when its evidence is available.   *)
LEMMA GroupResolved == SearchAssumption /\ Search!SearchInv /\ Search!Resolve => Search!SearchInv'
<1> SUFFICES ASSUME SearchAssumption, Search!SearchInv, Search!Resolve PROVE Search!SearchInv'
    OBVIOUS
<1>1. PICK g : g = Search!Best(query.groups)
    OBVIOUS
<1>2. PICK kept : kept = IF chunk[g[2]] \in available THEN query.resolved \cup {g} ELSE query.resolved
    OBVIOUS
<1>3. /\ query.status = "resolving" /\ query.groups # {} /\ UNCHANGED <<scores, chunk, available>>
      /\ Cardinality(query.resolved) < Search!ResultWindow
      /\ query' = [query EXCEPT !.groups = query.groups \ {g}, !.resolved = kept]
    BY <1>1, <1>2, SearchCardinality DEF Search!Resolve, Search!MoreToResolve
<1>4. Search!SearchType /\ query \in Search!Queries /\ query.began \subseteq available /\ Resolving
    BY <1>3, ResolvingMeans DEF Search!SearchInv, Search!SearchType
<1>5. /\ AllGroups \in SUBSET (Nat \X Points) /\ IsFiniteSet(AllGroups)
      /\ \A x, y \in AllGroups : x[1] = y[1] => x = y
      /\ Search!ResultWindow \in Nat
    BY <1>4, SearchFacts
<1>6. g \in query.groups /\ \A h \in query.groups : g[1] <= h[1]
  <2> DEFINE places == {h[1] : h \in query.groups}
  <2>1. places \in SUBSET Nat /\ places # {}
      BY <1>3, <1>4, <1>5 DEF Resolving
  <2>2. PICK least \in places : \A r \in places : least <= r
    <3> HIDE DEF places
    <3> QED BY <2>1, LeastExists
  <2>3. \E h \in query.groups : \A other \in query.groups : h[1] <= other[1]
      BY <2>2
  <2> QED BY <1>1, <2>3 DEF Search!Best
<1>7. query.resolved \subseteq AllGroups /\ g \in AllGroups /\ kept \subseteq query.resolved \cup {g}
    BY <1>2, <1>4, <1>6 DEF Resolving, PassedGroups
<1>8. /\ query' \in Search!Queries /\ query'.status = "resolving" /\ query'.rerank = query.rerank
      /\ query'.limit = query.limit /\ query'.began = query.began /\ query'.resolved = kept
      /\ query'.ranks = query.ranks /\ query'.groups = query.groups \ {g}
  <2>1. query.groups \ {g} \in SUBSET (Nat \X Points) /\ kept \in SUBSET (Nat \X Points)
      BY <1>4, <1>5, <1>7 DEF Resolving
  <2>2. query.groups \ {g} \in Search!Numbered /\ kept \in Search!Numbered
      BY <2>1 DEF Search!Numbered
  <2> DEFINE left == query.groups \ {g}
  <2>3. query' = [query EXCEPT !.groups = left, !.resolved = kept]
      BY <1>3
  <2> HIDE DEF left
  <2>4. left \in Search!Numbered
      BY <2>2 DEF left
  <2>5. /\ query' \in Search!Queries /\ query'.status = query.status /\ query'.rerank = query.rerank
        /\ query'.limit = query.limit /\ query'.began = query.began /\ query'.resolved = kept
        /\ query'.ranks = query.ranks /\ query'.groups = left
      BY <1>4, <2>2, <2>3, <2>4 DEF Search!Queries
  <2> QED BY <1>3, <2>5 DEF left
<1>9. Search!SearchType'
    BY <1>3, <1>4, <1>8 DEF Search!SearchType
<1>10. AllGroups' = AllGroups /\ PassedGroups' = PassedGroups \cup {g}
  <2>1. AllGroups' = AllGroups
      BY <1>3, <1>8, GroupsStay
  <2> QED BY <1>7, <1>8, <2>1 DEF PassedGroups
<1>11. Resolving'
  <2>1. query'.groups \subseteq AllGroups /\ kept \subseteq PassedGroups \cup {g}
      BY <1>4, <1>7, <1>8 DEF Resolving
  <2>2. \A x \in PassedGroups \cup {g}, h \in query.groups \ {g} : x[1] < h[1]
    <3>1. \A h \in query.groups \ {g} : g[1] \in Nat /\ h[1] \in Nat /\ g[1] # h[1] /\ g[1] <= h[1]
        BY <1>4, <1>5, <1>6, <1>7 DEF Resolving
    <3> QED BY <1>4, <3>1 DEF Resolving
  <2>3. \A x \in PassedGroups \cup {g} : chunk[x[2]] \in query.began => x \in kept
      BY <1>2, <1>4 DEF Resolving
  <2>4. \A x \in kept : chunk[x[2]] \in available
      BY <1>2, <1>4 DEF Resolving
  <2>5. Cardinality(kept) <= Search!ResultWindow
    <3>1. IsFiniteSet(query.resolved) /\ Cardinality(query.resolved) \in Nat
        BY <1>5, <1>7, FS_Subset, FS_CardinalityType
    <3>2. Cardinality(query.resolved \cup {g}) <= Cardinality(query.resolved) + 1
        BY <3>1, FS_AddElement
    <3>3. Cardinality(query.resolved \cup {g}) <= Search!ResultWindow
      <4>1. Cardinality(query.resolved \cup {g}) \in Nat
          BY <3>1, FS_AddElement, FS_CardinalityType
      <4> QED BY <1>3, <1>5, <3>1, <3>2, <4>1
    <3>4. Cardinality(query.resolved) <= Search!ResultWindow
        BY <1>3, <1>5, <3>1
    <3> QED BY <1>2, <3>3, <3>4
  <2>6. Search!ResultWindow' = Search!ResultWindow
      BY <1>8 DEF Search!ResultWindow
  <2>7. Cardinality(query'.resolved) <= Search!ResultWindow'
      BY <1>8, <2>5, <2>6
  <2> QED BY <1>3, <1>8, <1>10, <2>1, <2>2, <2>3, <2>4, <2>7 DEF Resolving
<1>12. Search!ResolutionInv'
    BY <1>11, ResolvingMeansNext
<1> QED BY <1>8, <1>9, <1>12 DEF Search!SearchInv, Search!AnsweredInv, Search!NothingRefused

(* The window is full or no group is left: the hits are those resolved.    *)
LEMMA HitsAnswered == SearchAssumption /\ Search!SearchInv /\ Search!Answer => Search!SearchInv'
<1> SUFFICES ASSUME SearchAssumption, Search!SearchInv, Search!Answer PROVE Search!SearchInv'
    OBVIOUS
<1>1. PICK key \in [query.resolved -> IF query.rerank THEN 1..2 ELSE {1}] :
          query' = [query EXCEPT !.status = "answered", !.hits = Search!Ordered(query.resolved, key, query.limit)]
    BY DEF Search!Answer
<1>2. query.status = "resolving" /\ ~Search!MoreToResolve /\ UNCHANGED <<scores, chunk, available>>
    BY DEF Search!Answer
<1>3. Search!SearchType /\ query \in Search!Queries /\ Resolving
    BY <1>2, ResolvingMeans DEF Search!SearchInv, Search!SearchType
<1>4. /\ AllGroups \in SUBSET (Nat \X Points) /\ IsFiniteSet(AllGroups) /\ query.limit \in Nat
      /\ \A x, y \in AllGroups : x[1] = y[1] => x = y
    BY <1>3, SearchFacts
<1>5. query.resolved \subseteq AllGroups /\ IsFiniteSet(query.resolved)
    BY <1>3, <1>4, FS_Subset DEF Resolving, PassedGroups
<1> DEFINE S == query.resolved
           H == Search!Ordered(S, key, query.limit)
<1>6. key \in [S -> Nat]
    BY <1>1
<1>7. S \in SUBSET (Nat \X Points) /\ IsFiniteSet(S) /\ \A x, y \in S : x[1] = y[1] => x = y
    BY <1>4, <1>5
<1>8. H \in SUBSET (Nat \X Points)
  <2> HIDE DEF H, S
  <2>1. PICK rank : HitsOf(Search!Ordered(S, key, query.limit), S, key, query.limit, rank)
      BY <1>4, <1>6, <1>7, OrderedHits
  <2>2. H = {<<rank[g], g[2]>> : g \in {g \in S : rank[g] <= query.limit}} /\ \A g \in S : rank[g] \in Nat
      BY <2>1 DEF HitsOf, H
  <2> QED BY <1>7, <2>2
<1> HIDE DEF H
<1>9. /\ query' \in Search!Queries /\ query'.status = "answered" /\ query'.rerank = query.rerank
      /\ query'.limit = query.limit /\ query'.began = query.began /\ query'.resolved = query.resolved
      /\ query'.ranks = query.ranks /\ query'.groups = query.groups /\ query'.hits = H
  <2>1. query' = [query EXCEPT !.status = "answered", !.hits = H]
      BY <1>1 DEF H
  <2> QED BY <1>3, <1>8, <2>1 DEF Search!Queries, Search!Numbered
<1>10. Search!SearchType'
    BY <1>2, <1>3, <1>9 DEF Search!SearchType
<1>11. AllGroups' = AllGroups /\ PassedGroups' = PassedGroups /\ Search!ResultWindow' = Search!ResultWindow
  <2>1. AllGroups' = AllGroups
      BY <1>2, <1>9, GroupsStay
  <2> QED BY <1>9, <2>1 DEF PassedGroups, Search!ResultWindow
<1>12. Resolving'
    BY <1>2, <1>3, <1>9, <1>11 DEF Resolving
<1>13. Search!ResolutionInv'
    BY <1>12, ResolvingMeansNext
<1>14. Search!AnsweredInv'
  <2>1. ~Search!MoreToResolve'
      BY <1>2, <1>9, <1>11, SearchCardinality DEF Search!MoreToResolve
  <2>2. key \in [query'.resolved -> IF query'.rerank THEN 1..2 ELSE {1}]
      BY <1>1, <1>9
  <2>3. query'.hits = Search!Ordered(query'.resolved, key, query'.limit)
      BY <1>9 DEF H
  <2> QED BY <2>1, <2>2, <2>3 DEF Search!AnsweredInv
<1> QED BY <1>9, <1>10, <1>13, <1>14 DEF Search!SearchInv, Search!NothingRefused

(* The search raises. *)
LEMMA SearchRaised == SearchAssumption /\ Search!SearchInv /\ Search!SearchFails => Search!SearchInv'
<1> SUFFICES ASSUME SearchAssumption, Search!SearchInv, Search!SearchFails PROVE Search!SearchInv'
    OBVIOUS
<1>1. /\ query' = [query EXCEPT !.status = "raised", !.groups = {}, !.resolved = {}]
      /\ UNCHANGED <<scores, chunk, available>>
    BY DEF Search!SearchFails
<1>2. Search!SearchType /\ query \in Search!Queries
    BY DEF Search!SearchInv, Search!SearchType
<1>3. /\ query' \in Search!Queries /\ query'.status = "raised" /\ query'.rerank = query.rerank
      /\ query'.limit = query.limit /\ query'.began = query.began
    BY <1>1, <1>2 DEF Search!Queries, Search!Numbered
<1>4. Search!SearchType'
    BY <1>1, <1>2, <1>3 DEF Search!SearchType
<1> QED BY <1>3, <1>4 DEF Search!SearchInv, Search!ResolutionInv, Search!AnsweredInv, Search!NothingRefused

(* A job commits while the groups are resolved. *)
LEMMA EvidenceIngested ==
    ASSUME SearchAssumption, Search!SearchInv, NEW e \in Evidence, Search!Ingested(e)
    PROVE  Search!SearchInv'
<1>1. query.status = "resolving" /\ available' = available \cup {e} /\ UNCHANGED <<scores, chunk, query>>
    BY DEF Search!Ingested
<1>2. Search!SearchType /\ Resolving
    BY <1>1, ResolvingMeans DEF Search!SearchInv
<1>3. AllGroups' = AllGroups /\ PassedGroups' = PassedGroups /\ Search!ResultWindow' = Search!ResultWindow
  <2>1. AllGroups' = AllGroups
      BY <1>1, GroupsStay
  <2> QED BY <1>1, <2>1 DEF PassedGroups, Search!ResultWindow
<1>4. Search!SearchType'
  <2>1. available' \subseteq Evidence /\ available \subseteq available'
      BY <1>1, <1>2 DEF Search!SearchType
  <2> QED BY <1>1, <1>2, <2>1 DEF Search!SearchType, Search!Queries
<1>5. Resolving'
    BY <1>1, <1>2, <1>3 DEF Resolving
<1>6. Search!ResolutionInv'
    BY <1>5, ResolvingMeansNext
<1> QED BY <1>1, <1>4, <1>6 DEF Search!SearchInv, Search!AnsweredInv, Search!NothingRefused

LEMMA SearchStays ==
    ASSUME Search!SearchInv, UNCHANGED <<scores, chunk, available, query>>
    PROVE  Search!SearchInv'
<1>1. AllGroups' = AllGroups /\ PassedGroups' = PassedGroups /\ Search!ResultWindow' = Search!ResultWindow
  <2>1. AllGroups' = AllGroups
      BY GroupsStay
  <2> QED BY <2>1 DEF PassedGroups, Search!ResultWindow
<1>2. Search!SearchType'
    BY DEF Search!SearchInv, Search!SearchType, Search!Queries
<1>3. Search!ResolutionInv'
  <2>1. query.status \in {"resolving", "answered"} => Resolving
      BY ResolvingMeans DEF Search!SearchInv
  <2>2. (query.status \in {"resolving", "answered"} => Resolving)'
      BY <1>1, <2>1 DEF Resolving
  <2> QED BY <2>2, ResolvingMeansNext
<1>4. Search!AnsweredInv'
    BY <1>1 DEF Search!SearchInv, Search!AnsweredInv, Search!MoreToResolve
<1> QED BY <1>2, <1>3, <1>4 DEF Search!SearchInv, Search!NothingRefused

LEMMA SearchStep ==
    SearchAssumption /\ Search!SearchInv /\ [Search!Next]_<<scores, chunk, available, query>> => Search!SearchInv'
<1> SUFFICES ASSUME SearchAssumption, Search!SearchInv, [Search!Next]_<<scores, chunk, available, query>>
             PROVE  Search!SearchInv'
    OBVIOUS
<1>1. CASE Search!Retrieve
    BY <1>1, LegsRetrieved
<1>2. CASE Search!Fuse
    BY <1>2, RanksFused
<1>3. CASE Search!Resolve
    BY <1>3, GroupResolved
<1>4. CASE Search!Answer
    BY <1>4, HitsAnswered
<1>5. CASE Search!SearchFails
    BY <1>5, SearchRaised
<1>6. CASE \E e \in Evidence : Search!Ingested(e)
    BY <1>6, EvidenceIngested
<1>7. CASE UNCHANGED <<scores, chunk, available, query>>
    BY <1>7, SearchStays
<1> QED BY <1>1, <1>2, <1>3, <1>4, <1>5, <1>6, <1>7 DEF Search!Next

-----------------------------------------------------------------------------
(* The result. *)

(* The hits of an answer are the first of what was resolved. *)
LEMMA AnsweredFacts ==
    ASSUME SearchAssumption, Search!SearchInv, query.status = "answered"
    PROVE  /\ Search!SearchType /\ Resolving /\ ~Search!MoreToResolve
           /\ CutOff(query.hits, query.resolved, query.limit)
           /\ \E key \in [query.resolved -> IF query.rerank THEN 1..2 ELSE {1}] : \E rank :
                HitsOf(query.hits, query.resolved, key, query.limit, rank)
<1>1. Search!SearchType /\ Resolving /\ ~Search!MoreToResolve
    BY ResolvingMeans DEF Search!SearchInv, Search!AnsweredInv
<1>2. PICK key \in [query.resolved -> IF query.rerank THEN 1..2 ELSE {1}] :
          query.hits = Search!Ordered(query.resolved, key, query.limit)
    BY DEF Search!SearchInv, Search!AnsweredInv
<1>3. /\ AllGroups \in SUBSET (Nat \X Points) /\ IsFiniteSet(AllGroups) /\ query.limit \in Nat
      /\ \A x, y \in AllGroups : x[1] = y[1] => x = y
    BY <1>1, SearchFacts
<1>4. query.resolved \subseteq AllGroups /\ IsFiniteSet(query.resolved)
    BY <1>1, <1>3, FS_Subset DEF Resolving, PassedGroups
<1> DEFINE S == query.resolved
<1>5. key \in [S -> Nat]
    BY <1>2
<1>6. S \in SUBSET (Nat \X Points) /\ IsFiniteSet(S) /\ \A x, y \in S : x[1] = y[1] => x = y
    BY <1>3, <1>4
<1> HIDE DEF S
<1>7. /\ CutOff(Search!Ordered(S, key, query.limit), S, query.limit)
      /\ \E rank : HitsOf(Search!Ordered(S, key, query.limit), S, key, query.limit, rank)
    BY <1>3, <1>5, <1>6, OrderedHits
<1> QED BY <1>1, <1>2, <1>7 DEF S

LEMMA ResultsAreResolved == SearchAssumption /\ Search!SearchInv => Search!ResultsResolved
<1> SUFFICES ASSUME SearchAssumption, Search!SearchInv, query.status = "answered"
             PROVE  /\ {hit[1] : hit \in query.hits} = 1..Cardinality(query.hits)
                    /\ \A hit, other \in query.hits : chunk[hit[2]] = chunk[other[2]] => hit = other
                    /\ \A hit \in query.hits : chunk[hit[2]] \in available
                    /\ query.groups # {} => Cardinality(query.hits) = query.limit
    BY SearchCardinality DEF Search!ResultsResolved
<1>1. /\ Search!SearchType /\ Resolving /\ ~Search!MoreToResolve
      /\ CutOff(query.hits, query.resolved, query.limit)
    BY AnsweredFacts
<1>2. PICK key \in [query.resolved -> IF query.rerank THEN 1..2 ELSE {1}] : \E rank :
          HitsOf(query.hits, query.resolved, key, query.limit, rank)
    BY AnsweredFacts
<1>3. PICK rank : HitsOf(query.hits, query.resolved, key, query.limit, rank)
    BY <1>2
<1>4. /\ IsFiniteSet(AllGroups) /\ query.limit \in Nat /\ Search!ResultWindow \in Nat
      /\ \A g, h \in AllGroups : chunk[g[2]] = chunk[h[2]] => g = h
    BY <1>1, SearchFacts
<1>5. query.resolved \subseteq AllGroups
    BY <1>1 DEF Resolving, PassedGroups
<1>6. \A hit \in query.hits : \E g \in query.resolved : hit = <<rank[g], g[2]>>
    BY <1>3 DEF HitsOf
<1>7. \A hit, other \in query.hits : chunk[hit[2]] = chunk[other[2]] => hit = other
    BY <1>4, <1>5, <1>6
<1>8. \A hit \in query.hits : chunk[hit[2]] \in available
    BY <1>1, <1>6 DEF Resolving
<1>9. ASSUME query.groups # {} PROVE Cardinality(query.hits) = query.limit
  <2>1. IsFiniteSet(query.resolved) /\ Cardinality(query.resolved) \in Nat
      BY <1>4, <1>5, FS_Subset, FS_CardinalityType
  <2>2. Cardinality(query.resolved) >= Search!ResultWindow
      BY <1>1, <1>4, <1>9, <2>1, SearchCardinality DEF Search!MoreToResolve
  <2>3. Search!ResultWindow >= query.limit
      BY <1>1, <1>4 DEF Search!ResultWindow, Search!SearchType, SearchAssumption
  <2>4. Cardinality(query.hits) =
            IF Cardinality(query.resolved) <= query.limit THEN Cardinality(query.resolved) ELSE query.limit
      BY <1>1 DEF CutOff
  <2> QED BY <1>4, <2>1, <2>2, <2>3, <2>4
<1> QED BY <1>1, <1>7, <1>8, <1>9 DEF CutOff

LEMMA AgreementIsKept == SearchAssumption /\ Search!SearchInv => Search!AgreementKept
<1> SUFFICES ASSUME SearchAssumption, Search!SearchInv, query.status = "answered", ~query.rerank,
                    NEW hit \in query.hits, NEW p \in Search!Found(query.ranks),
                    Search!Dominates(query.ranks, p, hit[2]), chunk[p] \in query.began
             PROVE  \E other \in query.hits : chunk[other[2]] = chunk[p] /\ other[1] < hit[1]
    BY DEF Search!AgreementKept
<1>1. Search!SearchType /\ Resolving
    BY AnsweredFacts
<1>2. PICK key \in [query.resolved -> IF query.rerank THEN 1..2 ELSE {1}] : \E rank :
          HitsOf(query.hits, query.resolved, key, query.limit, rank)
    BY AnsweredFacts
<1>3. PICK rank : HitsOf(query.hits, query.resolved, key, query.limit, rank)
    BY <1>2
<1>4. query.ranks \in [Search!Legs -> Search!Rankings] /\ query.limit \in Nat
    BY <1>1, SearchFacts
<1>5. PICK g \in query.resolved : hit = <<rank[g], g[2]>> /\ rank[g] <= query.limit
    BY <1>3 DEF HitsOf
<1>6. g \in PassedGroups /\ g \in Search!Fused(query.ranks)
    BY <1>1, <1>4, <1>5, GroupsLead DEF Resolving, PassedGroups, AllGroups
<1>7. g[2] \in Search!Found(query.ranks) /\ g[1] = Search!FusedRank(query.ranks, g[2]) /\ g[1] <= FusedLimit
      /\ g[1] \in Nat
    BY <1>4, <1>6, FusedPoints
<1>8. Search!Ahead(query.ranks, p, g[2])
    BY <1>4, <1>5, <1>7, DominanceIsKept
<1> DEFINE place == Search!FusedRank(query.ranks, p)
<1>9. place \in Nat /\ place < g[1]
  <2>1. PICK F : F = Search!Found(query.ranks)
      OBVIOUS
  <2>2. /\ \A r \in F : Search!FusedRank(query.ranks, r) \in Nat \ {0}
        /\ \A r, q \in F : Search!Ahead(query.ranks, r, q) <=>
                           Search!FusedRank(query.ranks, r) < Search!FusedRank(query.ranks, q)
      BY <1>4, <2>1, FusedRanks
  <2> QED BY <1>7, <1>8, <2>1, <2>2
<1>10. <<place, p>> \in Search!Fused(query.ranks)
  <2>1. place <= FusedLimit
      BY <1>7, <1>9 DEF SearchAssumption
  <2> QED BY <1>4, <2>1, FusedPoints
<1> HIDE DEF place
<1>11. PICK lead \in AllGroups : chunk[lead[2]] = chunk[p] /\ lead[1] <= place
  <2>1. PICK lead \in AllGroups : chunk[lead[2]] = chunk[<<place, p>>[2]] /\ lead[1] <= <<place, p>>[1]
      BY <1>4, <1>10, GroupsLead DEF Search!ValidGroups, AllGroups
  <2> QED BY <2>1
<1>12. lead[1] \in Nat /\ lead[1] < g[1]
  <2>1. lead \in Search!Fused(query.ranks)
      BY <1>4, <1>11, GroupsLead DEF AllGroups
  <2>2. lead[1] \in Nat
      BY <1>4, <2>1, FusedPoints
  <2> QED BY <1>7, <1>9, <1>11, <2>2
<1>13. lead \in query.resolved
  <2>1. lead \notin query.groups
      BY <1>1, <1>6, <1>7, <1>12 DEF Resolving
  <2>2. lead \in PassedGroups
      BY <1>11, <2>1 DEF PassedGroups
  <2> QED BY <1>1, <1>11, <2>2 DEF Resolving
<1>14. rank[lead] < rank[g] /\ rank[lead] \in Nat /\ rank[g] \in Nat
  <2>1. key[lead] = key[g]
      BY <1>3, <1>5, <1>13
  <2> QED BY <1>3, <1>5, <1>12, <1>13, <2>1 DEF HitsOf
<1>15. <<rank[lead], lead[2]>> \in query.hits
  <2>1. rank[lead] <= query.limit
      BY <1>4, <1>5, <1>14
  <2> QED BY <1>3, <1>13, <2>1 DEF HitsOf
<1>16. <<rank[lead], lead[2]>>[1] < hit[1] /\ chunk[<<rank[lead], lead[2]>>[2]] = chunk[p]
    BY <1>5, <1>11, <1>14
<1> QED BY <1>15, <1>16

(* Whatever both legs return and while jobs commit: a point that every leg *)
(* has ahead of another is not dropped in its favour, each hit is another  *)
(* chunk of available evidence, the slots of duplicates and of stale       *)
(* points go to others, and the checks on the way refuse nothing that the  *)
(* search computed itself.                                                 *)
THEOREM SearchesAreSound == Search!Spec => []SearchSound
<1>1. SearchAssumption
    BY SearchAssumption
<1>2. SearchAssumption /\ Search!SearchInv => SearchSound
    BY ResultsAreResolved, AgreementIsKept DEF SearchSound, Search!SearchSound, Search!SearchInv
<1> QED BY <1>1, <1>2, SearchInit, SearchStep, PTL DEF Search!Spec

-----------------------------------------------------------------------------
(* The composition. *)

AnswerVars == <<part, vars, batchVars, vectorVars, graphVars, expansionVars, searchVars, workflowVars>>

(* A step of the composition is a step of the part that runs. *)
LEMMA AnswersStep ==
    ASSUME [AnswersNext]_AnswerVars
    PROVE  /\ part' = part
           /\ [Next]_vars
           /\ part = "batch" => [Batcher!Next]_<<batching, embedding>>
           /\ part = "vectors" =>
                [Vectors!Next]_<<row_security, normalized, manifests, points, projection, rebuild, projectionFaults>>
           /\ [Graph!Next]_<<ingest, nodes, cleared, replay, graphFaults>>
           /\ part = "expansion" => [Expander!Next]_<<claims, ready, expansion>>
           /\ part = "search" => [Search!Next]_<<scores, chunk, available, query>>
           /\ part = "workflow" => [Workflow!Next]_<<thread, stage, citable, access, resumes>>
<1> USE DEF batchVars, vectorVars, graphVars, expansionVars, searchVars, workflowVars
<1>1. CASE UNCHANGED AnswerVars
    BY <1>1 DEF AnswerVars
<1>2. CASE AnswersNext
    BY <1>2 DEF AnswersNext
<1> QED BY <1>1, <1>2

(* Each part has its inductive invariant while it runs. *)
AnswersInv ==
    /\ part = "batch" => Batcher!BatchInv
    /\ part = "vectors" => Vectors!VectorInv
    /\ Graph!GraphInv
    /\ part = "expansion" => Expander!ExpansionInv
    /\ part = "search" => Search!SearchInv
    /\ part = "workflow" => Workflow!WorkflowInv

(* Whichever part runs, from the batched embedding and the projections to  *)
(* the search, the walk and the workflow, keeps what it promises: the      *)
(* theorems of the parts hold of the composition.                          *)
THEOREM AnswersAreSound ==
    AnswersSpec => [](/\ BatchAccounted /\ ProjectionComplete /\ GraphCovers
                      /\ ExpansionGrounded /\ SearchSound /\ WorkflowGrounded)
<1>1. BatchAssumption /\ ProjectionAssumption /\ ExpansionAssumption /\ SearchAssumption /\ WorkflowAssumption
    BY BatchAssumption, ProjectionAssumption, ExpansionAssumption, SearchAssumption, WorkflowAssumption
<1>2. AnswersInit => AnswersInv
    BY <1>1, BatchInit, VectorInit, GraphInit, ExpansionInit, SearchInit, WorkflowInit DEF AnswersInit, AnswersInv
<1>3. AnswersInv /\ [AnswersNext]_AnswerVars => AnswersInv'
  <2> SUFFICES ASSUME AnswersInv, [AnswersNext]_AnswerVars PROVE AnswersInv'
      OBVIOUS
  <2>1. part = "batch" => Batcher!BatchInv'
      BY <1>1, AnswersStep, BatchStep DEF AnswersInv
  <2>2. part = "vectors" => Vectors!VectorInv'
      BY <1>1, AnswersStep, VectorStep DEF AnswersInv
  <2>3. Graph!GraphInv'
      BY <1>1, AnswersStep, GraphStep DEF AnswersInv
  <2>4. part = "expansion" => Expander!ExpansionInv'
      BY <1>1, AnswersStep, ExpansionStep DEF AnswersInv
  <2>5. part = "search" => Search!SearchInv'
      BY <1>1, AnswersStep, SearchStep DEF AnswersInv
  <2>6. part = "workflow" => Workflow!WorkflowInv'
      BY <1>1, AnswersStep, WorkflowStep DEF AnswersInv
  <2> QED BY <2>1, <2>2, <2>3, <2>4, <2>5, <2>6, AnswersStep DEF AnswersInv
<1>4. AnswersInv => /\ BatchAccounted /\ ProjectionComplete /\ GraphCovers
                    /\ ExpansionGrounded /\ SearchSound /\ WorkflowGrounded
  <2>1. Batcher!BatchInv => Batcher!BatchAccounted
      BY DEF Batcher!BatchInv
  <2>2. Vectors!VectorInv => Vectors!ProjectionComplete
      BY DEF Vectors!VectorInv
  <2>3. Graph!GraphInv => Graph!GraphCovers
      BY DEF Graph!GraphInv
  <2>4. Expander!ExpansionInv => Expander!ExpansionGrounded
      BY DEF Expander!ExpansionInv
  <2>5. Search!SearchInv => Search!SearchSound
      BY <1>1, ResultsAreResolved, AgreementIsKept DEF Search!SearchSound, Search!SearchInv
  <2>6. Workflow!WorkflowInv => Workflow!WorkflowGrounded
      BY DEF Workflow!WorkflowInv
  <2> QED BY <2>1, <2>2, <2>3, <2>4, <2>5, <2>6
          DEF AnswersInv, BatchAccounted, ProjectionComplete, GraphCovers, ExpansionGrounded, SearchSound,
              WorkflowGrounded
<1>5. AnswersSpec => AnswersInit /\ [][AnswersNext]_AnswerVars
    BY DEF AnswersSpec, AnswerVars
<1> QED BY <1>2, <1>3, <1>4, <1>5, PTL

(* In the composition too, an answer run keeps its conversation intact,    *)
(* brings nothing purged back and loses no answer.                         *)
THEOREM RunsAreSound ==
    AnswersSpec => []ConversationIntact /\ []Erased /\ AnswerStays /\ WithdrawnNeverAnswers
<1>1. AnswersInit => AnswerInv
    BY AnswerInit DEF AnswersInit
<1>2. AnswerInv /\ [AnswersNext]_AnswerVars => AnswerInv' /\ [Next]_vars
    BY AnswersStep, AnswerStep
<1>3. AnswersSpec => AnswersInit /\ [][AnswersNext]_AnswerVars
    BY DEF AnswersSpec, AnswerVars
<1>4. AnswerInv => ConversationIntact /\ Erased
    BY DEF AnswerInv, MessageInv, ConversationIntact
<1>5. AnswerInv /\ [Next]_vars
        => [\A r \in Runs : run[r].status = "complete" => run'[r].status \in {"complete", "gone"}]_vars
    BY AnswerStep DEF AnswersKept
<1>6. AnswerInv /\ [Next]_vars
        => [\A r \in Runs : run[r].withdrawn = "due" /\ run'[r].status = "complete" => run[r].status = "complete"]_vars
    BY AnswerStep DEF AnswersKept
<1>7. AnswersSpec => []AnswerInv /\ [][Next]_vars
    BY <1>1, <1>2, <1>3, PTL
<1> QED BY <1>4, <1>5, <1>6, <1>7, PTL DEF AnswerStays, WithdrawnNeverAnswers
=============================================================================
